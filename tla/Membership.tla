----------------------------- MODULE Membership -----------------------------
(***************************************************************************)
(* The members of ONE organization and the requests that change them:      *)
(* PATCH and DELETE of a member, DELETE of the organization                *)
(* (apps/api/src/routes/dashboard.ts), with validateNotLastOwner           *)
(* (lib/invitations.ts).                                                   *)
(*                                                                         *)
(* A request reads the role of its user, then the member it is about, then *)
(* counts the owners, then writes: four statements, each of which sees     *)
(* what others have committed by then.                                     *)
(* better-auth's own endpoints on the same rows are not modelled.          *)
(***************************************************************************)
EXTENDS Naturals, FiniteSets

CONSTANTS
  Members,      \* member rows, those of people who may still join included
  Petitions     \* requests in flight

ASSUME MembershipAssumption == IsFiniteSet(Members) /\ Members # {}

VARIABLES
  role,         \* the role of each row; "none" before it is there and "gone" after
  exists,       \* the organization is there
  petition,     \* the requests
  overlapped    \* history: an owner was taken away on a count from before another was

membershipVars == <<role, exists, petition, overlapped>>

Roles == {"owner", "admin", "member"}

\* to: the role asked for, or "gone" for a removal.  late: another request has taken an owner
\* away since this one last read.
Petition == [pc: {"idle", "admitted", "owner", "valid"}, target: Members,
             to: Roles \cup {"gone"}, late: BOOLEAN]

\* Who created the organization.
Founder == CHOOSE m \in Members: TRUE

Unasked == [pc |-> "idle", target |-> Founder, to |-> "gone", late |-> FALSE]

Owners == {m \in Members: role[m] = "owner"}

MembershipInit ==
  /\ role = [m \in Members |-> IF m = Founder THEN "owner" ELSE "none"]
  /\ exists = TRUE
  /\ petition = [p \in Petitions |-> Unasked]
  /\ overlapped = FALSE

MembershipTypeOK ==
  /\ role \in [Members -> Roles \cup {"none", "gone"}]
  /\ exists \in BOOLEAN
  /\ petition \in [Petitions -> Petition]
  /\ overlapped \in BOOLEAN

-----------------------------------------------------------------------------
\* An invitation is accepted.
Join(m, r) ==
  /\ exists /\ role[m] = "none"
  /\ role' = [role EXCEPT ![m] = r]
  /\ UNCHANGED <<exists, petition, overlapped>>

\* readOrganizationRole: roles are changed by owners, members removed by admins too.
MayAsk(u, to) == role[u] = "owner" \/ (to = "gone" /\ role[u] = "admin")

\* A request for the owner role is not validated.
Admit(p, u, m, to) ==
  /\ petition[p].pc = "idle" /\ MayAsk(u, to)
  /\ petition' = [petition EXCEPT ![p] =
       [pc |-> IF to = "owner" THEN "valid" ELSE "admitted", target |-> m, to |-> to,
        late |-> FALSE]]
  /\ UNCHANGED <<role, exists, overlapped>>

\* validateNotLastOwner: the member,
ReadMember(p) ==
  /\ petition[p].pc = "admitted"
  /\ role[petition[p].target] \in Roles
  /\ petition' = [petition EXCEPT ![p].late = FALSE,
       ![p].pc = IF role[petition[p].target] = "owner" THEN "owner" ELSE "valid"]
  /\ UNCHANGED <<role, exists, overlapped>>

\* Mutant: there must be an owner, the one to be removed included.
EnoughAsIs(owners) == Cardinality(owners) >= 1

Enough(owners) == Cardinality(owners) > 1

\* and the owners.
CountOwners(p) ==
  /\ petition[p].pc = "owner" /\ Enough(Owners)
  /\ petition' = [petition EXCEPT ![p].pc = "valid", ![p].late = FALSE]
  /\ UNCHANGED <<role, exists, overlapped>>

\* Request p is over; the others learn, for the history, whether it took an owner away.
Over(p, taken) == [q \in Petitions |->
  IF q = p THEN Unasked
           ELSE [petition[q] EXCEPT !.late = @ \/ (taken /\ petition[q].pc # "idle")]]

\* UPDATE or DELETE by id.
WriteMember(p) ==
  LET m == petition[p].target
      taken == role[m] = "owner" /\ petition[p].to # "owner"
  IN /\ petition[p].pc = "valid" /\ role[m] \in Roles
     /\ role' = [role EXCEPT ![m] = petition[p].to]
     /\ overlapped' = (overlapped \/ (taken /\ petition[p].late))
     /\ petition' = Over(p, taken)
     /\ UNCHANGED exists

\* A 4xx: not found, or the last owner; or a 500.
PetitionEnds(p) ==
  /\ petition[p].pc # "idle"
  /\ petition' = Over(p, FALSE)
  /\ UNCHANGED <<role, exists, overlapped>>

\* An owner deletes the organization, the members by cascade.  (It matters to nobody what becomes
\* of the owner between the check and the deletion, so they are one step.)
DeleteOrganization(u) ==
  /\ role[u] = "owner"
  /\ exists' = FALSE
  /\ role' = [m \in Members |-> "gone"]
  /\ UNCHANGED <<petition, overlapped>>

MembershipNext ==
  \/ \E m \in Members: (\E r \in Roles: Join(m, r)) \/ DeleteOrganization(m)
  \/ \E p \in Petitions:
       \/ \E u, m \in Members, to \in Roles \cup {"gone"}: Admit(p, u, m, to)
       \/ ReadMember(p) \/ CountOwners(p) \/ WriteMember(p) \/ PetitionEnds(p)

-----------------------------------------------------------------------------
\* An organization keeps an owner, whoever removes and demotes whom at the same time, unless two
\* requests took owners away on counts that did not see each other (invitations.ts:238-248).
OwnerRemains == exists /\ ~overlapped => Owners # {}

\* The strengthening: what was validated still holds unless it is late.
ValidOK ==
  exists /\ ~overlapped =>
    \A p \in Petitions:
      petition[p].pc = "valid" /\ petition[p].to # "owner" /\ ~petition[p].late =>
        Owners \ {petition[p].target} # {}
=============================================================================
