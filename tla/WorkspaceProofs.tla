-------------------------- MODULE WorkspaceProofs --------------------------
(***************************************************************************)
(* The safety of the catalogue cache, of the last owner, of the tools that *)
(* providers offer, of the request counts and of tool calls, for any       *)
(* number of lookups, requests, members, versions, pairs, flushes, tools   *)
(* and calls.  WorkspaceIInv is proved action by action, for each part of  *)
(* the specification apart.                                                *)
(***************************************************************************)
EXTENDS Workspace, FiniteSetTheorems, TLAPS

CatalogueInv ==
  /\ CatalogueTypeOK
  /\ ServicesAreCurrent
  /\ ~raced /\ ServicesUnderWay => cache["services"] = None

MembershipInv == MembershipTypeOK /\ OwnerRemains /\ ValidOK

ProviderInv == ProviderTypeOK /\ DatedIsOffered

UsageInv == UsageTypeOK /\ CountedOnce /\ OnlyExcusedAreLost /\ PlacesOK

CallSafety == CallTypeOK /\ RunsOnce /\ LeaseIsFresh /\ ReadOnlyRunsReviewed /\ CallsOK

LEMMA InvSplit ==
  WorkspaceIInv <=> CatalogueInv /\ MembershipInv /\ ProviderInv /\ UsageInv /\ CallSafety
  BY DEF WorkspaceIInv, CatalogueInv, MembershipInv, ProviderInv, UsageInv, CallSafety

-----------------------------------------------------------------------------
(***************************************************************************)
(* The catalogue                                                           *)
(***************************************************************************)

LEMMA CatalogueInitOK == CatalogueInit => CatalogueInv
<1> SUFFICES ASSUME CatalogueInit PROVE CatalogueInv
  OBVIOUS
<1>1. "services" \in Keys /\ 0 \in Versions
  BY CatalogueAssumption DEF Keys, Versions
<1>2. truth \in [Keys -> Versions] /\ cache \in [Keys -> Versions \cup {None}]
  BY <1>1 DEF CatalogueInit
<1>3. lookup \in [Lookups -> Lookup]
  BY <1>1 DEF CatalogueInit, Lookup, IdleLookup
<1>4. writer \in [Writers -> Writer] /\ registry \in Contract
  BY DEF CatalogueInit, Writer, Contract, NoContract
<1>5. CatalogueTypeOK
  BY <1>2, <1>3, <1>4 DEF CatalogueInit, CatalogueTypeOK
<1>6. cache["services"] = None
  BY <1>1 DEF CatalogueInit
<1> QED BY <1>5, <1>6 DEF CatalogueInv, ServicesAreCurrent

LEMMA CatalogueStutter == CatalogueInv /\ UNCHANGED catalogueVars => CatalogueInv'
  BY DEF CatalogueInv, CatalogueTypeOK, ServicesAreCurrent, ServicesUnderWay, catalogueVars,
         Lookup, Contract

\* What a step that leaves versions, cache and requests alone cannot disturb.
LEMMA LookupStep ==
  ASSUME CatalogueInv, NEW l \in Lookups, NEW k \in Keys,
         CacheMiss(l, k) \/ ReadSource(l) \/ LookupFails(l)
  PROVE  CatalogueInv'
<1>1. lookup' \in [Lookups -> Lookup]
  <2>1. CASE CacheMiss(l, k)
    <3>1. 0 \in Versions
      BY CatalogueAssumption DEF Versions
    <3>2. [IdleLookup EXCEPT !.pc = "missed", !.key = k] \in Lookup
      BY <3>1 DEF Lookup, IdleLookup
    <3> QED BY <2>1, <3>2 DEF CatalogueInv, CatalogueTypeOK, CacheMiss
  <2>2. CASE ReadSource(l)
    BY <2>2 DEF CatalogueInv, CatalogueTypeOK, ReadSource, Lookup
  <2>3. CASE LookupFails(l)
    BY <2>3, CatalogueAssumption
    DEF CatalogueInv, CatalogueTypeOK, LookupFails, Lookup, IdleLookup, Keys, Versions
  <2> QED BY <2>1, <2>2, <2>3
<1>2. UNCHANGED <<truth, cache, writer, approved, registry, undropped, raced>>
  BY DEF CacheMiss, ReadSource, LookupFails
<1> QED BY <1>1, <1>2 DEF CatalogueInv, CatalogueTypeOK, ServicesAreCurrent, ServicesUnderWay

\* An outdated entry, or one set while a change is under way, is raced.
LEMMA SetEntryStep ==
  ASSUME CatalogueInv, NEW l \in Lookups, SetEntry(l)
  PROVE  CatalogueInv'
<1> DEFINE k == lookup[l].key
           v == lookup[l].version
<1>1. k \in Keys /\ v \in Versions
  BY DEF CatalogueInv, CatalogueTypeOK, Lookup
<1>2. /\ cache' = [cache EXCEPT ![k] = v]
      /\ raced' = (raced \/ (k = "services" /\ (ServicesUnderWay \/ v # truth[k])))
      /\ lookup' = [lookup EXCEPT ![l] = IdleLookup]
      /\ UNCHANGED <<truth, writer, approved, registry, undropped>>
  BY DEF SetEntry
<1> HIDE DEF k, v
<1>3. cache' \in [Keys -> Versions \cup {None}] /\ raced' \in BOOLEAN
  BY <1>1, <1>2 DEF CatalogueInv, CatalogueTypeOK
<1>4. lookup' \in [Lookups -> Lookup]
  BY <1>2, CatalogueAssumption
  DEF CatalogueInv, CatalogueTypeOK, Lookup, IdleLookup, Keys, Versions
<1>5. CatalogueTypeOK'
  BY <1>2, <1>3, <1>4 DEF CatalogueInv, CatalogueTypeOK
<1>6. CASE k = "services"
  BY <1>1, <1>2, <1>5, <1>6
  DEF CatalogueInv, CatalogueTypeOK, ServicesAreCurrent, ServicesUnderWay, Keys
<1>7. CASE k # "services"
  BY <1>1, <1>2, <1>5, <1>7
  DEF CatalogueInv, CatalogueTypeOK, ServicesAreCurrent, ServicesUnderWay, Keys
<1> QED BY <1>6, <1>7

LEMMA ExpiryStep ==
  ASSUME CatalogueInv, NEW k \in Keys, EntryExpires(k)
  PROVE  CatalogueInv'
  BY DEF CatalogueInv, CatalogueTypeOK, ServicesAreCurrent, ServicesUnderWay, EntryExpires, Keys

LEMMA RequestDropsStep ==
  ASSUME CatalogueInv, NEW w \in Writers, NEW kind \in Kinds, RequestDrops(w, kind)
  PROVE  CatalogueInv'
<1>1. cache' \in [Keys -> Versions \cup {None}] /\ cache'["services"] = None
  BY DEF RequestDrops, Drop, Without, DroppedBy, Keys, CatalogueInv, CatalogueTypeOK
<1>2. writer' \in [Writers -> Writer]
  BY DEF RequestDrops, CatalogueInv, CatalogueTypeOK, Writer
<1> QED BY <1>1, <1>2
        DEF RequestDrops, CatalogueInv, CatalogueTypeOK, ServicesAreCurrent, ServicesUnderWay

\* Whoever changes the services has dropped them, and nobody cached them since unless raced.
LEMMA RequestCommitsStep ==
  ASSUME CatalogueInv, NEW w \in Writers, RequestCommits(w)
  PROVE  CatalogueInv'
<1>1. writer[w] \in Kinds
  BY DEF CatalogueInv, CatalogueTypeOK, RequestCommits, Writer
<1>2. truth' \in [Keys -> Versions]
  BY CatalogueAssumption DEF CatalogueInv, CatalogueTypeOK, RequestCommits, Versions
<1>3. approved' \subseteq Tools
  BY <1>1 DEF CatalogueInv, CatalogueTypeOK, RequestCommits, Listed, Kinds
<1>4. writer' \in [Writers -> Writer]
  BY DEF CatalogueInv, CatalogueTypeOK, RequestCommits, Writer
<1>5. CatalogueTypeOK'
  BY <1>2, <1>3, <1>4 DEF CatalogueInv, CatalogueTypeOK, RequestCommits
<1>6. ServicesUnderWay' => ServicesUnderWay
  BY DEF CatalogueInv, CatalogueTypeOK, RequestCommits, ServicesUnderWay
<1>7. CASE writer[w] = "tool"
  <2>1. truth' = truth
    BY <1>7 DEF CatalogueInv, CatalogueTypeOK, RequestCommits, ChangedBy
  <2> QED BY <2>1, <1>5, <1>6 DEF CatalogueInv, ServicesAreCurrent, RequestCommits
<1>8. CASE writer[w] # "tool"
  <2>1. ServicesUnderWay
    BY <1>8 DEF RequestCommits, ServicesUnderWay
  <2> QED BY <2>1, <1>5, <1>6 DEF CatalogueInv, ServicesAreCurrent, RequestCommits
<1> QED BY <1>7, <1>8

LEMMA RollBackStep ==
  ASSUME CatalogueInv, NEW w \in Writers, RequestRollsBack(w)
  PROVE  CatalogueInv'
<1>1. writer' \in [Writers -> Writer]
  BY DEF CatalogueInv, CatalogueTypeOK, RequestRollsBack, Writer
<1>2. ServicesUnderWay' => ServicesUnderWay
  BY DEF CatalogueInv, CatalogueTypeOK, RequestRollsBack, ServicesUnderWay
<1> QED BY <1>1, <1>2
        DEF RequestRollsBack, CatalogueInv, CatalogueTypeOK, ServicesAreCurrent

LEMMA ConnectionStep ==
  ASSUME CatalogueInv, ConnectionChanges
  PROVE  CatalogueInv'
<1>1. truth' \in [Keys -> Versions] /\ truth'["services"] = truth["services"]
  BY CatalogueAssumption DEF CatalogueInv, CatalogueTypeOK, ConnectionChanges, Keys, Versions
<1> QED BY <1>1
        DEF ConnectionChanges, CatalogueInv, CatalogueTypeOK, ServicesAreCurrent, ServicesUnderWay

\* The sweep's save may outdate the cached services until it has dropped them.
LEMMA ContractStep ==
  ASSUME CatalogueInv, ContractSaved
  PROVE  CatalogueInv'
<1>1. truth' \in [Keys -> Versions]
  BY CatalogueAssumption DEF CatalogueInv, CatalogueTypeOK, ContractSaved, Keys, Versions
<1>2. approved' \subseteq Tools
  BY DEF ContractSaved, Listed
<1> QED BY <1>1, <1>2
        DEF ContractSaved, CatalogueInv, CatalogueTypeOK, ServicesAreCurrent, ServicesUnderWay

LEMMA KeyStep ==
  ASSUME CatalogueInv, KeyDropped \/ KeyNotDropped
  PROVE  CatalogueInv'
<1>1. CASE KeyDropped
  <2>1. cache' \in [Keys -> Versions \cup {None}] /\ cache'["services"] = None
    BY <1>1 DEF KeyDropped, Without, Keys, CatalogueInv, CatalogueTypeOK
  <2> QED BY <1>1, <2>1
          DEF KeyDropped, CatalogueInv, CatalogueTypeOK, ServicesAreCurrent, ServicesUnderWay
<1>2. CASE KeyNotDropped
  BY <1>2
  DEF KeyNotDropped, CatalogueInv, CatalogueTypeOK, ServicesAreCurrent, ServicesUnderWay
<1> QED BY <1>1, <1>2

LEMMA RegistryStep ==
  ASSUME CatalogueInv, RegistryNext
  PROVE  CatalogueInv'
<1>1. registry' \in Contract
  BY DEF RegistryNext, Load, RegistriesCleared, Contract, NoContract, CatalogueInv,
         CatalogueTypeOK
<1>2. UNCHANGED <<truth, cache, lookup, writer, approved, undropped, raced>>
  BY DEF RegistryNext, Load, RegistriesCleared
<1> QED BY <1>1, <1>2 DEF CatalogueInv, CatalogueTypeOK, ServicesAreCurrent, ServicesUnderWay

LEMMA CatalogueStep == CatalogueInv /\ CatalogueNext => CatalogueInv'
<1> SUFFICES ASSUME CatalogueInv, CatalogueNext PROVE CatalogueInv'
  OBVIOUS
<1>1. CASE LookupNext
  <2>1. ASSUME NEW l \in Lookups, NEW k \in Keys, CacheMiss(l, k) PROVE CatalogueInv'
    BY <2>1, LookupStep
  <2>2. ASSUME NEW l \in Lookups, ReadSource(l) \/ LookupFails(l) PROVE CatalogueInv'
    <3>1. "services" \in Keys
      BY DEF Keys
    <3> QED BY <2>2, <3>1, LookupStep
  <2>3. ASSUME NEW l \in Lookups, SetEntry(l) PROVE CatalogueInv'
    BY <2>3, SetEntryStep
  <2>4. ASSUME NEW k \in Keys, EntryExpires(k) PROVE CatalogueInv'
    BY <2>4, ExpiryStep
  <2> QED BY <1>1, <2>1, <2>2, <2>3, <2>4 DEF LookupNext
<1>2. CASE ChangeNext
  BY <1>2, RequestDropsStep, RollBackStep, ConnectionStep DEF ChangeNext
<1>3. CASE RegistryNext
  BY <1>3, RegistryStep
<1>4. CASE \E w \in Writers: Commits(w)
  BY <1>4, RequestCommitsStep DEF Commits
<1>5. CASE Drops \/ Dies
  BY <1>5, KeyStep, CatalogueStutter DEF Drops, Dies
<1>6. CASE \E s \in Servers: Verifies(s)
  BY <1>6, ContractStep DEF Verifies
<1>7. CASE Lists \/ (\E s \in Servers: Fails(s)) \/ (GrowsStale /\ UNCHANGED catalogueVars)
  BY <1>7, CatalogueStutter DEF Lists, Fails
<1> QED BY <1>1, <1>2, <1>3, <1>4, <1>5, <1>6, <1>7 DEF CatalogueNext

-----------------------------------------------------------------------------
(***************************************************************************)
(* The members                                                             *)
(***************************************************************************)

LEMMA FounderIsMember == Founder \in Members
  BY MembershipAssumption DEF Founder

LEMMA UnaskedOK == Unasked \in Petition
  BY FounderIsMember DEF Unasked, Petition, Roles

LEMMA MembershipInitOK == MembershipInit => MembershipInv
<1> SUFFICES ASSUME MembershipInit PROVE MembershipInv
  OBVIOUS
<1>1. MembershipTypeOK
  BY UnaskedOK DEF MembershipInit, MembershipTypeOK, Roles
<1>2. Founder \in Owners
  BY FounderIsMember DEF MembershipInit, Owners
<1>3. ValidOK
  BY DEF MembershipInit, ValidOK, Unasked
<1> QED BY <1>1, <1>2, <1>3 DEF MembershipInv, OwnerRemains

LEMMA MembershipStutter == MembershipInv /\ UNCHANGED membershipVars => MembershipInv'
  BY DEF MembershipInv, MembershipTypeOK, OwnerRemains, ValidOK, Owners, membershipVars, Petition

\* Nobody is harmed by a new member.
LEMMA JoinStep ==
  ASSUME MembershipInv, NEW m \in Members, NEW r \in Roles, Join(m, r)
  PROVE  MembershipInv'
<1>1. MembershipTypeOK'
  BY DEF MembershipInv, MembershipTypeOK, Join, Roles
<1>2. Owners \subseteq Owners'
  BY DEF MembershipInv, MembershipTypeOK, Join, Owners
<1>3. UNCHANGED <<exists, petition, overlapped>>
  BY DEF Join
<1> QED BY <1>1, <1>2, <1>3 DEF MembershipInv, OwnerRemains, ValidOK

\* A step of one request that writes nothing: only what it is now itself valid for matters.
LEMMA PetitionStep ==
  ASSUME MembershipInv, NEW p \in Petitions, NEW new \in Petition,
         petition' = [petition EXCEPT ![p] = new],
         UNCHANGED <<role, exists, overlapped>>,
         exists /\ ~overlapped /\ new.pc = "valid" /\ new.to # "owner" /\ ~new.late =>
           Owners \ {new.target} # {}
  PROVE  MembershipInv'
<1>1. MembershipTypeOK'
  BY DEF MembershipInv, MembershipTypeOK
<1>2. Owners' = Owners
  BY DEF Owners
<1>3. \A q \in Petitions: petition'[q] = IF q = p THEN new ELSE petition[q]
  BY DEF MembershipInv, MembershipTypeOK
<1>4. ValidOK'
  BY <1>2, <1>3 DEF MembershipInv, ValidOK
<1> QED BY <1>1, <1>2, <1>4 DEF MembershipInv, OwnerRemains

LEMMA AdmitStep ==
  ASSUME MembershipInv, NEW p \in Petitions, NEW u \in Members, NEW m \in Members,
         NEW to \in Roles \cup {"gone"}, Admit(p, u, m, to)
  PROVE  MembershipInv'
<1> DEFINE new == [pc |-> IF to = "owner" THEN "valid" ELSE "admitted", target |-> m, to |-> to,
                   late |-> FALSE]
<1>1. new \in Petition
  BY DEF Petition
<1>2. new.pc = "valid" => new.to = "owner"
  OBVIOUS
<1>3. petition' = [petition EXCEPT ![p] = new] /\ UNCHANGED <<role, exists, overlapped>>
  BY DEF Admit
<1> HIDE DEF new
<1> QED BY <1>1, <1>2, <1>3, PetitionStep

\* A member who is not an owner leaves the owners as they are.
LEMMA ReadMemberStep ==
  ASSUME MembershipInv, NEW p \in Petitions, ReadMember(p)
  PROVE  MembershipInv'
<1> DEFINE m == petition[p].target
           new == [petition[p] EXCEPT !.late = FALSE,
                     !.pc = IF role[m] = "owner" THEN "owner" ELSE "valid"]
<1>1. petition[p] \in Petition
  BY DEF MembershipInv, MembershipTypeOK
<1>2. new \in Petition /\ new.target = m
      /\ new.pc = (IF role[m] = "owner" THEN "owner" ELSE "valid")
  BY <1>1 DEF Petition
<1>3. petition' = [petition EXCEPT ![p] = new] /\ UNCHANGED <<role, exists, overlapped>>
  BY <1>1 DEF ReadMember, MembershipInv, MembershipTypeOK
<1>4. new.pc = "valid" => m \notin Owners
  BY <1>2 DEF Owners
<1>5. exists /\ ~overlapped /\ new.pc = "valid" => Owners \ {new.target} # {}
  <2>1. exists /\ ~overlapped => Owners # {}
    BY DEF MembershipInv, OwnerRemains
  <2> HIDE DEF new, m
  <2> QED BY <1>2, <1>4, <2>1
<1> HIDE DEF new, m
<1> QED BY <1>2, <1>3, <1>5, PetitionStep

\* Of two owners or more, one is left without the target.
LEMMA CountOwnersStep ==
  ASSUME MembershipInv, NEW p \in Petitions, CountOwners(p)
  PROVE  MembershipInv'
<1> DEFINE m == petition[p].target
           new == [petition[p] EXCEPT !.pc = "valid", !.late = FALSE]
<1>1. petition[p] \in Petition
  BY DEF MembershipInv, MembershipTypeOK
<1>2. new \in Petition /\ new.target = m
  BY <1>1 DEF Petition
<1>3. petition' = [petition EXCEPT ![p] = new] /\ UNCHANGED <<role, exists, overlapped>>
  BY <1>1 DEF CountOwners, MembershipInv, MembershipTypeOK
<1>4. Owners \ {m} # {}
  <2> SUFFICES ASSUME Owners \ {m} = {} PROVE FALSE
    OBVIOUS
  <2>1. Owners \subseteq {m}
    OBVIOUS
  <2>2. IsFiniteSet({m}) /\ Cardinality({m}) = 1
    BY FS_Singleton
  <2>3. Cardinality(Owners) <= 1
    BY <2>1, <2>2, FS_Subset
  <2>4. IsFiniteSet(Owners)
    BY <2>1, <2>2, FS_Subset
  <2>5. Cardinality(Owners) \in Nat
    BY <2>4, FS_CardinalityType
  <2>6. Cardinality(Owners) > 1
    BY DEF CountOwners, Enough
  <2> QED BY <2>3, <2>5, <2>6
<1> HIDE DEF new, m
<1> QED BY <1>2, <1>3, <1>4, PetitionStep

\* What learning that an owner is gone leaves of a request.
LEMMA LateIs ==
  ASSUME NEW x \in Petition, NEW b \in BOOLEAN
  PROVE  LET y == [x EXCEPT !.late = @ \/ b]
         IN  /\ y \in Petition
             /\ y.pc = x.pc /\ y.to = x.to /\ y.target = x.target
             /\ x.late \/ b => y.late
  BY DEF Petition

\* Who is over is valid for nothing, and the others learn of an owner that was taken away.
LEMMA OverIs ==
  ASSUME MembershipTypeOK, NEW p \in Petitions, NEW away \in BOOLEAN
  PROVE  /\ Over(p, away) \in [Petitions -> Petition]
         /\ Over(p, away)[p].pc = "idle"
         /\ \A q \in Petitions \ {p}:
              /\ Over(p, away)[q].pc = petition[q].pc
              /\ Over(p, away)[q].to = petition[q].to
              /\ Over(p, away)[q].target = petition[q].target
              /\ petition[q].late => Over(p, away)[q].late
              /\ away /\ petition[q].pc # "idle" => Over(p, away)[q].late
<1>1. ASSUME NEW q \in Petitions \ {p}
      PROVE  /\ Over(p, away)[q] \in Petition
             /\ Over(p, away)[q].pc = petition[q].pc
             /\ Over(p, away)[q].to = petition[q].to
             /\ Over(p, away)[q].target = petition[q].target
             /\ petition[q].late => Over(p, away)[q].late
             /\ away /\ petition[q].pc # "idle" => Over(p, away)[q].late
  <2> DEFINE b == away /\ petition[q].pc # "idle"
  <2>1. Over(p, away)[q] = [petition[q] EXCEPT !.late = @ \/ b]
    BY DEF Over
  <2>2. petition[q] \in Petition /\ b \in BOOLEAN
    BY DEF MembershipTypeOK
  <2>3. away /\ petition[q].pc # "idle" => b
    OBVIOUS
  <2> HIDE DEF b
  <2>4. /\ Over(p, away)[q] \in Petition
        /\ Over(p, away)[q].pc = petition[q].pc
        /\ Over(p, away)[q].to = petition[q].to
        /\ Over(p, away)[q].target = petition[q].target
        /\ petition[q].late \/ b => Over(p, away)[q].late
    BY <2>1, <2>2, LateIs
  <2> QED BY <2>3, <2>4
<1>2. Over(p, away)[p] = Unasked
  BY DEF Over
<1>3. Over(p, away) \in [Petitions -> Petition]
  <2>1. \A q \in Petitions: Over(p, away)[q] \in Petition
    BY <1>1, <1>2, UnaskedOK
  <2> QED BY <2>1 DEF Over
<1>4. Unasked.pc = "idle"
  BY DEF Unasked
<1> QED BY <1>1, <1>2, <1>3, <1>4

LEMMA EndsStep ==
  ASSUME MembershipInv, NEW p \in Petitions, PetitionEnds(p)
  PROVE  MembershipInv'
<1>1. MembershipTypeOK
  BY DEF MembershipInv
<1>2. petition' = Over(p, FALSE) /\ UNCHANGED <<role, exists, overlapped>>
  BY DEF PetitionEnds
<1>3. MembershipTypeOK'
  BY <1>1, <1>2, OverIs DEF MembershipTypeOK
<1>4. Owners' = Owners
  BY <1>2 DEF Owners
<1>5. ValidOK'
  <2> SUFFICES ASSUME exists, ~overlapped, NEW q \in Petitions,
                      petition'[q].pc = "valid", petition'[q].to # "owner", ~petition'[q].late
               PROVE  Owners \ {petition'[q].target} # {}
    BY <1>2, <1>4 DEF ValidOK
  <2>1. FALSE \in BOOLEAN
    OBVIOUS
  <2>2. petition'[p].pc = "idle"
    BY <1>1, <1>2, <2>1, OverIs
  <2>3. q # p
    BY <2>2
  <2>4. /\ petition'[q].pc = petition[q].pc
        /\ petition'[q].to = petition[q].to
        /\ petition'[q].target = petition[q].target
        /\ petition[q].late => petition'[q].late
    BY <1>1, <1>2, <2>1, <2>3, OverIs
  <2> QED BY <2>4 DEF MembershipInv, ValidOK
<1> QED BY <1>2, <1>3, <1>4, <1>5 DEF MembershipInv, OwnerRemains

\* A write takes at most its target from the owners, and then everybody else is late.
LEMMA WriteStep ==
  ASSUME MembershipInv, NEW p \in Petitions, WriteMember(p)
  PROVE  MembershipInv'
<1> DEFINE m == petition[p].target
           to == petition[p].to
           away == role[m] = "owner" /\ to # "owner"
<1>1. MembershipTypeOK /\ petition[p] \in Petition /\ away \in BOOLEAN
  BY DEF MembershipInv, MembershipTypeOK
<1>2. /\ petition[p].pc = "valid"
      /\ role' = [role EXCEPT ![m] = to]
      /\ overlapped' = (overlapped \/ (away /\ petition[p].late))
      /\ petition' = Over(p, away)
      /\ exists' = exists
  BY DEF WriteMember
<1>3. m \in Members /\ to \in Roles \cup {"gone"}
  BY <1>1 DEF Petition
<1>4. overlapped' \in BOOLEAN /\ role' \in [Members -> Roles \cup {"none", "gone"}]
  BY <1>1, <1>2, <1>3 DEF MembershipTypeOK
<1>5. MembershipTypeOK'
  BY <1>1, <1>2, <1>4, OverIs DEF MembershipTypeOK
<1>6. Owners \ {m} \subseteq Owners' /\ (~away => Owners \subseteq Owners')
  BY <1>1, <1>2, <1>3 DEF Owners, MembershipTypeOK
<1>7. OwnerRemains'
  <2> SUFFICES ASSUME exists', ~overlapped' PROVE Owners' # {}
    BY DEF OwnerRemains
  <2>1. exists /\ ~overlapped /\ ~(away /\ petition[p].late)
    BY <1>2
  <2>2. CASE away
    <3>1. Owners \ {m} # {}
      BY <1>2, <2>1, <2>2 DEF MembershipInv, ValidOK
    <3> QED BY <3>1, <1>6
  <2>3. CASE ~away
    BY <2>1, <2>3, <1>6 DEF MembershipInv, OwnerRemains
  <2> QED BY <2>2, <2>3
<1>8. ValidOK'
  <2> SUFFICES ASSUME exists', ~overlapped', NEW q \in Petitions,
                      petition'[q].pc = "valid", petition'[q].to # "owner", ~petition'[q].late
               PROVE  Owners' \ {petition'[q].target} # {}
    BY DEF ValidOK
  <2> HIDE DEF away
  <2>1. q # p
    BY <1>1, <1>2, OverIs
  <2>2. /\ petition'[q].pc = petition[q].pc
        /\ petition'[q].to = petition[q].to
        /\ petition'[q].target = petition[q].target
        /\ ~petition[q].late /\ ~away
    BY <1>1, <1>2, <2>1, OverIs
  <2>3. Owners \ {petition[q].target} # {}
    BY <1>2, <2>2 DEF MembershipInv, ValidOK
  <2> QED BY <2>2, <2>3, <1>6
<1> QED BY <1>5, <1>7, <1>8 DEF MembershipInv

LEMMA DeleteStep ==
  ASSUME MembershipInv, NEW u \in Members, DeleteOrganization(u)
  PROVE  MembershipInv'
  BY DEF MembershipInv, MembershipTypeOK, OwnerRemains, ValidOK, DeleteOrganization

LEMMA MembershipStep == MembershipInv /\ MembershipNext => MembershipInv'
<1> SUFFICES ASSUME MembershipInv, MembershipNext PROVE MembershipInv'
  OBVIOUS
<1>1. CASE \E m \in Members: (\E r \in Roles: Join(m, r)) \/ DeleteOrganization(m)
  BY <1>1, JoinStep, DeleteStep
<1>2. ASSUME NEW p \in Petitions, \E u, m \in Members, to \in Roles \cup {"gone"}: Admit(p, u, m, to)
      PROVE  MembershipInv'
  BY <1>2, AdmitStep
<1>3. ASSUME NEW p \in Petitions,
             ReadMember(p) \/ CountOwners(p) \/ WriteMember(p) \/ PetitionEnds(p)
      PROVE  MembershipInv'
  BY <1>3, ReadMemberStep, CountOwnersStep, WriteStep, EndsStep
<1> QED BY <1>1, <1>2, <1>3 DEF MembershipNext

-----------------------------------------------------------------------------
(***************************************************************************)
(* The tools that providers offer                                          *)
(***************************************************************************)

LEMMA ProviderInitOK == ProviderInit => ProviderInv
  BY ProviderAssumption
  DEF ProviderInit, ProviderInv, ProviderTypeOK, DatedIsOffered, Ages

LEMMA ProviderStutter == ProviderInv /\ UNCHANGED providerVars => ProviderInv'
  BY DEF ProviderInv, ProviderTypeOK, DatedIsOffered, providerVars

LEMMA ProviderStep == ProviderInv /\ ProviderNext => ProviderInv'
<1> SUFFICES ASSUME ProviderInv, ProviderNext PROVE ProviderInv'
  OBVIOUS
<1> USE DEF ProviderInv, ProviderTypeOK, DatedIsOffered
<1>1. ASSUME NEW j \in Jobs, JobLists(j) PROVE ProviderInv'
  <2>1. Candidates \subseteq Pairs
    BY DEF Candidates
  <2> QED BY <1>1, <2>1 DEF JobLists
<1>2. ASSUME NEW j \in Jobs, JobDies(j) PROVE ProviderInv'
  BY <1>2, ProviderAssumption DEF JobDies
<1>3. ASSUME NEW j \in Jobs, NEW p \in Pairs, Offers(j, p) PROVE ProviderInv'
  BY <1>3 DEF Offers, Handled, Ages
<1>4. ASSUME NEW j \in Jobs, NEW p \in Pairs, Refuses(j, p) PROVE ProviderInv'
  BY <1>4 DEF Refuses, Handled
<1>5. ASSUME NEW p \in Pairs, GrowsOld(p) PROVE ProviderInv'
  BY <1>5 DEF GrowsOld, Ages
<1>6. ASSUME NEW p \in Pairs, ConnectedChanges(p) PROVE ProviderInv'
  BY <1>6 DEF ConnectedChanges
<1> QED BY <1>1, <1>2, <1>3, <1>4, <1>5, <1>6 DEF ProviderNext

-----------------------------------------------------------------------------
(***************************************************************************)
(* The count of requests                                                   *)
(***************************************************************************)

LEMMA UsageInitOK == UsageInit => UsageInv
<1> SUFFICES ASSUME UsageInit PROVE UsageInv
  OBVIOUS
<1>1. \A f \in Takers: taken[f] = {}
  BY DEF UsageInit
<1>2. InMemory = {}
  BY <1>1 DEF UsageInit, InMemory, UnderWay
<1>3. UsageTypeOK
  BY DEF UsageInit, UsageTypeOK
<1>4. CountedOnce /\ OnlyExcusedAreLost
  BY DEF UsageInit, CountedOnce, OnlyExcusedAreLost
<1>5. PlacesOK
  BY <1>1, <1>2 DEF UsageInit, PlacesOK, Takers
<1> QED BY <1>3, <1>4, <1>5 DEF UsageInv

LEMMA UsageStutter == UsageInv /\ UNCHANGED usageVars => UsageInv'
  BY DEF UsageInv, UsageTypeOK, CountedOnce, OnlyExcusedAreLost, PlacesOK, InMemory, UnderWay,
         usageVars

LEMMA UnderWayIs == \A r: r \in UnderWay <=> \E f \in Takers: r \in taken[f]
  BY DEF UnderWay

LEMMA RecordStep ==
  ASSUME UsageInv, NEW r \in Requests, Record(r)
  PROVE  UsageInv'
<1> USE DEF UsageInv, UsageTypeOK, Record
<1>1. UnderWay' = UnderWay /\ InMemory' = InMemory \cup {r}
  BY DEF UnderWay, InMemory
<1>2. UsageTypeOK' /\ OnlyExcusedAreLost'
  BY DEF OnlyExcusedAreLost
<1>3. r \notin InMemory \cup lost /\ total[r] = 0
  BY DEF PlacesOK
<1>4. \A f \in Takers: r \notin taken[f]
  BY <1>3, UnderWayIs DEF InMemory
<1>5. CountedOnce'
  BY <1>1, <1>3 DEF CountedOnce
<1>6. PlacesOK'
  BY <1>1, <1>3, <1>4 DEF PlacesOK
<1> QED BY <1>2, <1>5, <1>6

\* A flush only moves counts within the memory.
LEMMA TakesIs ==
  ASSUME UsageInv, NEW f \in Takers, taken[f] = {}, Takes(f)
  PROVE  /\ InMemory' = InMemory
         /\ \A g \in Takers: taken'[g] = IF g = f THEN pending ELSE taken[g]
         /\ taken' \in [Takers -> SUBSET Requests]
<1>1. \A g \in Takers: taken'[g] = IF g = f THEN pending ELSE taken[g]
  BY DEF Takes, UsageInv, UsageTypeOK
<1>2. \A r: r \in UnderWay' <=> \E g \in Takers: r \in taken'[g]
  BY DEF UnderWay
<1>3. UnderWay' = UnderWay \cup pending
  BY <1>1, <1>2, UnderWayIs
<1>4. InMemory' = InMemory
  BY <1>3 DEF InMemory, Takes
<1> QED BY <1>1, <1>4 DEF Takes, UsageInv, UsageTypeOK

LEMMA FlushStep ==
  ASSUME UsageInv, NEW f \in Flushes, Flush(f)
  PROVE  UsageInv'
<1> USE DEF UsageInv
<1>1. f \in Takers /\ f \notin Signals
  BY UsageAssumption DEF Takers
<1>2. /\ InMemory' = InMemory
      /\ \A g \in Takers: taken'[g] = IF g = f THEN pending ELSE taken[g]
      /\ taken' \in [Takers -> SUBSET Requests]
  BY <1>1, TakesIs DEF Flush
<1>3. UsageTypeOK' /\ CountedOnce' /\ OnlyExcusedAreLost'
  BY <1>2 DEF Flush, Takes, UsageTypeOK, CountedOnce, OnlyExcusedAreLost
<1>4. PlacesOK'
  <2>1. /\ \A g \in Takers: taken'[g] \cap pending' = {}
        /\ \A g, h \in Takers: g # h => taken'[g] \cap taken'[h] = {}
    BY <1>2 DEF Flush, Takes, PlacesOK
  <2>2. \A s \in Signals: taken'[s] = taken[s]
    BY <1>1, <1>2 DEF Takers
  <2> QED BY <1>2, <2>1, <2>2 DEF Flush, PlacesOK
<1> QED BY <1>3, <1>4

LEMMA StopStep ==
  ASSUME UsageInv, NEW s \in Signals, Stop(s)
  PROVE  UsageInv'
<1> USE DEF UsageInv
<1>1. s \in Takers /\ taken[s] = {}
  BY DEF Takers, Stop, PlacesOK
<1>2. /\ InMemory' = InMemory
      /\ \A g \in Takers: taken'[g] = IF g = s THEN pending ELSE taken[g]
      /\ taken' \in [Takers -> SUBSET Requests]
  BY <1>1, TakesIs DEF Stop
<1>3. InMemory \subseteq Requests /\ UnderWay \subseteq InMemory
  BY DEF UsageTypeOK, PlacesOK, InMemory
<1>4. UsageTypeOK' /\ CountedOnce' /\ OnlyExcusedAreLost'
  BY <1>2, <1>3 DEF Stop, Takes, UsageTypeOK, CountedOnce, OnlyExcusedAreLost
<1>5. PlacesOK'
  <2>1. /\ \A g \in Takers: taken'[g] \cap pending' = {}
        /\ \A g, h \in Takers: g # h => taken'[g] \cap taken'[h] = {}
    BY <1>2 DEF Stop, Takes, PlacesOK
  <2>2. \A t \in Signals: taken'[t] = IF t = s THEN pending ELSE taken[t]
    BY <1>2 DEF Takers
  <2>3. \A t \in signalled': InMemory \ taken'[t] \subseteq excused'
    <3>1. InMemory \ pending \subseteq excused'
      BY DEF Stop, InMemory
    <3>2. \A t \in signalled: InMemory \ taken[t] \subseteq excused'
      BY DEF Stop, PlacesOK
    <3> QED BY <2>2, <3>1, <3>2 DEF Stop, UsageTypeOK
  <2> QED BY <1>2, <2>1, <2>2, <2>3 DEF Stop, PlacesOK
<1> QED BY <1>4, <1>5

\* An entry leaves the memory for the table or for good.
LEMMA WriteEntryStep ==
  ASSUME UsageInv, NEW f \in Takers, NEW c \in Counters, WriteEntry(f, c)
  PROVE  UsageInv'
<1> DEFINE rs == Entry(taken[f], c)
<1>1. rs \subseteq taken[f]
  BY DEF Entry
<1>2. /\ \/ /\ total' = [r \in Requests |-> IF r \in rs THEN total[r] + 1 ELSE total[r]]
            /\ UNCHANGED <<lost, excused>>
         \/ /\ lost' = lost \cup rs /\ excused' = excused \cup rs
            /\ UNCHANGED total
      /\ taken' = [taken EXCEPT ![f] = @ \ rs]
      /\ UNCHANGED <<up, signalled, made, pending>>
  BY DEF WriteEntry
<1> HIDE DEF rs
<1>3. \A r \in rs: r \in UnderWay /\ r \notin pending
  BY <1>1, UnderWayIs DEF UsageInv, PlacesOK
<1>4. \A g \in Takers: taken'[g] = IF g = f THEN taken[g] \ rs ELSE taken[g]
  BY <1>2 DEF UsageInv, UsageTypeOK
<1>5. InMemory' = InMemory \ rs /\ rs \subseteq InMemory
  <2>1. \A g \in Takers: g # f => taken[g] \cap rs = {}
    BY <1>1 DEF UsageInv, PlacesOK
  <2>2. \A r: r \in UnderWay' <=> \E g \in Takers: r \in taken'[g]
    BY DEF UnderWay
  <2>3. \A r: r \in UnderWay' <=> r \in UnderWay /\ r \notin rs
    BY <1>4, <2>1, <2>2, UnderWayIs
  <2> QED BY <1>2, <1>3, <2>3 DEF InMemory
<1>6. rs \subseteq made /\ made \subseteq Requests /\ total \in [Requests -> Nat]
  BY <1>5 DEF UsageInv, UsageTypeOK, PlacesOK
<1>7. \A r \in made: total[r] = IF r \in InMemory \cup lost THEN 0 ELSE 1
  BY DEF UsageInv, CountedOnce
<1>8. lost \cap InMemory = {} /\ \A r \in Requests \ made: total[r] = 0
  BY DEF UsageInv, PlacesOK
<1>9. /\ total' \in [Requests -> Nat]
      /\ \A r \in Requests \ made: total'[r] = 0
      /\ lost' \subseteq lost \cup rs /\ excused' \subseteq Requests
      /\ excused \subseteq excused'
      /\ CountedOnce' /\ OnlyExcusedAreLost'
  <2>1. CASE /\ total' = [r \in Requests |-> IF r \in rs THEN total[r] + 1 ELSE total[r]]
             /\ UNCHANGED <<lost, excused>>
    <3>1. CountedOnce'
      BY <1>2, <1>5, <1>6, <1>7, <1>8, <2>1 DEF CountedOnce
    <3> QED BY <1>6, <1>8, <2>1, <3>1 DEF UsageInv, UsageTypeOK, OnlyExcusedAreLost
  <2>2. CASE lost' = lost \cup rs /\ excused' = excused \cup rs /\ UNCHANGED total
    <3>1. CountedOnce'
      BY <1>2, <1>5, <1>6, <1>7, <1>8, <2>2 DEF CountedOnce
    <3> QED BY <1>6, <1>8, <2>2, <3>1 DEF UsageInv, UsageTypeOK, OnlyExcusedAreLost
  <2> QED BY <1>2, <2>1, <2>2
<1>10. lost' \subseteq made
  BY <1>6, <1>9 DEF UsageInv, PlacesOK
<1>11. UsageTypeOK'
  <2>1. taken' \in [Takers -> SUBSET Requests]
    BY <1>2 DEF UsageInv, UsageTypeOK
  <2> QED BY <1>2, <1>6, <1>9, <1>10, <2>1 DEF UsageInv, UsageTypeOK
<1>12. PlacesOK'
  <2>1. /\ \A g \in Takers: taken'[g] \cap pending = {}
        /\ \A g, h \in Takers: g # h => taken'[g] \cap taken'[h] = {}
    BY <1>4 DEF UsageInv, PlacesOK
  <2>2. InMemory' \cup lost' \subseteq made /\ lost' \cap InMemory' = {}
    BY <1>5, <1>9, <1>10 DEF UsageInv, PlacesOK
  <2>3. \A s \in Signals \ signalled: taken'[s] = {}
    BY <1>4 DEF UsageInv, PlacesOK, Takers
  <2>4. \A s \in signalled: InMemory' \ taken'[s] \subseteq excused'
    <3> SUFFICES ASSUME NEW s \in signalled, NEW r \in InMemory' \ taken'[s] PROVE r \in excused'
      OBVIOUS
    <3>1. s \in Takers
      BY DEF UsageInv, UsageTypeOK, Takers
    <3>2. r \in InMemory /\ r \notin rs
      BY <1>5
    <3>3. r \notin taken[s]
      BY <1>4, <3>1, <3>2
    <3> QED BY <1>9, <3>2, <3>3 DEF UsageInv, PlacesOK
  <2>5. ~up => InMemory' = {}
    BY <1>5 DEF UsageInv, PlacesOK
  <2> QED BY <1>2, <1>9, <2>1, <2>2, <2>3, <2>4, <2>5 DEF PlacesOK
<1> QED BY <1>9, <1>11, <1>12 DEF UsageInv

\* What is in memory when the process ends is excused: by the crash, or since the signal.
LEMMA DownStep ==
  ASSUME UsageInv, Crash \/ \E s \in Signals: Exit(s)
  PROVE  UsageInv'
<1> USE DEF UsageInv
<1>1. Down
  BY DEF Exit, Crash
<1>2. InMemory' = {} /\ \A f \in Takers: taken'[f] = {}
  BY <1>1 DEF Down, UnderWay, InMemory
<1>3. /\ lost' = lost \cup InMemory /\ UNCHANGED <<signalled, made, total>>
      /\ lost' \subseteq excused' /\ excused' \subseteq Requests
  <2>1. InMemory \subseteq Requests
    BY DEF UsageTypeOK, PlacesOK
  <2>2. CASE \E s \in Signals: Exit(s)
    <3>1. InMemory \subseteq excused
      BY <2>2 DEF Exit, PlacesOK
    <3> QED BY <1>1, <2>2, <3>1 DEF Exit, Down, UsageTypeOK, OnlyExcusedAreLost
  <2>3. CASE Crash
    BY <1>1, <2>1, <2>3 DEF Crash, Down, UsageTypeOK, OnlyExcusedAreLost
  <2> QED BY <2>2, <2>3
<1>4. lost' \subseteq made
  BY <1>3 DEF PlacesOK
<1>5. UsageTypeOK'
  BY <1>1, <1>3, <1>4 DEF Down, UsageTypeOK
<1>6. CountedOnce' /\ OnlyExcusedAreLost'
  BY <1>2, <1>3 DEF CountedOnce, OnlyExcusedAreLost
<1>7. PlacesOK'
  <2>1. \A s \in Signals: taken'[s] = {}
    BY <1>2 DEF Takers
  <2>2. \A r \in Requests \ made': total'[r] = 0
    BY <1>3 DEF PlacesOK
  <2> QED BY <1>2, <1>3, <1>4, <2>1, <2>2 DEF PlacesOK
<1> QED BY <1>5, <1>6, <1>7

LEMMA BootStep ==
  ASSUME UsageInv, Boot
  PROVE  UsageInv'
<1> USE DEF UsageInv
<1>1. InMemory' = InMemory
  BY DEF Boot, InMemory, UnderWay
<1>2. UsageTypeOK' /\ CountedOnce' /\ OnlyExcusedAreLost'
  BY <1>1 DEF Boot, UsageTypeOK, CountedOnce, OnlyExcusedAreLost
<1>3. \A f \in Takers: taken[f] = {}
  BY UnderWayIs DEF Boot, PlacesOK, InMemory
<1>4. PlacesOK'
  BY <1>1, <1>3 DEF Boot, PlacesOK, Takers
<1> QED BY <1>2, <1>4

LEMMA UsageStep == UsageInv /\ UsageNext => UsageInv'
  BY RecordStep, FlushStep, WriteEntryStep, StopStep, DownStep, BootStep DEF UsageNext

-----------------------------------------------------------------------------
(***************************************************************************)
(* Tool calls                                                              *)
(***************************************************************************)

\* What CallInv says of one call, but for the seat.
Fits(x) ==
  /\ x \in Call
  /\ Len(x.ran) <= 1
  /\ x.cred # 0 => x.cred \in x.since
  /\ x.under = "read_only" => \A i \in DOMAIN x.ran: x.ran[i] \in ReadOnly
  /\ x.pc # "over" =>
       /\ x.ran = <<>> /\ x.tool \in Offered
       /\ x.under = "read_only" => x.tool \in ReadOnly \X {"contract"}
       /\ x.pc = "started" => x.name \in Names /\ x.name[1] = x.tool[1]

Seen(x) == x.pc # "over" /\ seat # 0 => seat \in x.since

Shown(ts) ==
  /\ ts \in [tools: SUBSET Offered, under: Policies]
  /\ ts.under = "read_only" => ts.tools \subseteq ReadOnly \X {"contract"}

\* CallSafety, call by call.
CallInv ==
  /\ policy \in Policies /\ repoliced \in BOOLEAN
  /\ seat \in {0} \cup Creds /\ kept \subseteq Creds /\ issued \in {0} \cup Creds
  /\ Shown(toolset)
  /\ call \in [Calls -> Call]
  /\ \A c \in Calls: Fits(call[c]) /\ Seen(call[c])

LEMMA CallInvIs == (CallSafety <=> CallInv) /\ (CallSafety' <=> CallInv')
<1>1. CallSafety => CallInv
  BY DEF CallInv, CallSafety, CallTypeOK, RunsOnce, LeaseIsFresh, ReadOnlyRunsReviewed, CallsOK,
         Fits, Seen, Shown
<1>2. CallInv => CallSafety
  BY DEF CallInv, CallSafety, CallTypeOK, RunsOnce, LeaseIsFresh, ReadOnlyRunsReviewed, CallsOK,
         Fits, Seen, Shown
<1> QED BY <1>1, <1>2, PTL

LEMMA NoCallFits == Fits(NoCall) /\ NoCall.pc = "over"
  BY DEF Fits, NoCall, Call, Policies

LEMMA CallInitOK == CallInit => CallInv
<1> SUFFICES ASSUME CallInit PROVE CallInv
  OBVIOUS
<1>1. Shown(toolset)
  BY DEF CallInit, Shown, NoTools, Policies
<1>2. \A c \in Calls: call[c] = NoCall
  BY DEF CallInit
<1>3. call \in [Calls -> Call]
  BY NoCallFits DEF CallInit, Fits
<1> QED BY <1>1, <1>2, <1>3, NoCallFits DEF CallInit, CallInv, Seen

LEMMA CallStutter == CallInv /\ UNCHANGED callVars => CallInv'
<1> SUFFICES ASSUME CallInv, UNCHANGED callVars PROVE CallInv'
  OBVIOUS
<1> QED BY DEF callVars, CallInv, Fits, Seen, Shown

\* A step that does not touch the calls, and seats nothing.
LEMMA OthersStep ==
  ASSUME CallInv, UNCHANGED call, seat' = seat \/ seat' = 0,
         policy' \in Policies, repoliced' \in BOOLEAN,
         kept' \subseteq kept, issued' = issued, Shown(toolset')
  PROVE  CallInv'
<1>1. \A c \in Calls: Seen(call[c])'
  BY DEF CallInv, Seen
<1> QED BY <1>1 DEF CallInv, Fits, Shown

\* A step that is about one call alone.
LEMMA OneCallStep ==
  ASSUME CallInv, NEW c \in Calls, call' = [call EXCEPT ![c] = call'[c]],
         Fits(call'[c]), Seen(call'[c]),
         UNCHANGED <<policy, repoliced, seat, kept, issued, toolset>>
  PROVE  CallInv'
<1>1. call' \in [Calls -> Call]
  BY DEF CallInv, Fits
<1>2. \A d \in Calls: d # c => call'[d] = call[d]
  BY DEF CallInv
<1>3. \A d \in Calls: Fits(call'[d]) /\ Seen(call'[d])
  BY <1>2 DEF CallInv
<1> QED BY <1>1, <1>3 DEF CallInv, Fits, Seen, Shown

\* Whatever is seated was seated while every call under way was.
LEMMA SinceFits ==
  ASSUME NEW x, NEW k \in Creds, Fits(x)
  PROVE  Fits([x EXCEPT !.since = @ \cup {k}]) /\ [x EXCEPT !.since = @ \cup {k}].pc = x.pc
<1> DEFINE y == [x EXCEPT !.since = @ \cup {k}]
<1>1. x \in Call
  BY DEF Fits
<1>2. y \in Call /\ y.since = x.since \cup {k}
  BY <1>1 DEF Call
<1>3. /\ y.pc = x.pc /\ y.tool = x.tool /\ y.under = x.under
      /\ y.cred = x.cred /\ y.name = x.name /\ y.ran = x.ran
  BY <1>1 DEF Call
<1> HIDE DEF y
<1>4. Fits(y)
  BY <1>2, <1>3 DEF Fits
<1> QED BY <1>3, <1>4 DEF y

LEMMA AuthorizedStep == ASSUME CallInv, Authorized PROVE CallInv'
<1> USE DEF CallInv
<1>1. issued + 1 \in Creds /\ seat' = issued + 1
  BY CallAssumption DEF Authorized, Creds
<1>2. \A c \in Calls: call'[c] = IF call[c].pc = "over" THEN call[c]
                                 ELSE [call[c] EXCEPT !.since = @ \cup {seat'}]
  BY <1>1 DEF Authorized, Seats
<1>3. ASSUME NEW c \in Calls
      PROVE  Fits(call'[c]) /\ (call'[c].pc # "over" => seat' \in call'[c].since)
  <2>1. Fits(call[c]) /\ call[c] \in Call
    BY DEF Fits
  <2>2. CASE call[c].pc = "over"
    BY <1>2, <2>1, <2>2
  <2>3. CASE call[c].pc # "over"
    <3>1. call'[c] = [call[c] EXCEPT !.since = @ \cup {seat'}]
      BY <1>2, <2>3
    <3>2. Fits(call'[c])
      BY <1>1, <2>1, <3>1, SinceFits
    <3>3. seat' \in call'[c].since
      BY <2>1, <3>1 DEF Call
    <3> QED BY <3>2, <3>3
  <2> QED BY <2>2, <2>3
<1>4. \A c \in Calls: Seen(call[c])'
  BY <1>3 DEF Seen
<1>5. call' \in [Calls -> Call]
  BY <1>3 DEF Authorized, Seats, Fits
<1>6. kept' \subseteq Creds
  BY <1>1 DEF Authorized
<1> QED BY <1>1, <1>3, <1>4, <1>5, <1>6 DEF Authorized

LEMMA ConnectionGoesStep ==
  ASSUME CallInv, PolicyChanges \/ Unseated \/ \E k \in Creds: OldDeleted(k)
  PROVE  CallInv'
<1>1. CASE PolicyChanges
  BY <1>1, OthersStep DEF PolicyChanges, CallInv, Shown
<1>2. CASE Unseated
  BY <1>2, OthersStep DEF Unseated, CallInv, Shown
<1>3. CASE \E k \in Creds: OldDeleted(k)
  BY <1>3, OthersStep DEF OldDeleted, CallInv, Shown
<1> QED BY <1>1, <1>2, <1>3

\* Under read_only nothing but what was reviewed is listed.
LEMMA ListStep ==
  ASSUME CallInv, NEW p \in Policies, NEW found \in SUBSET Names, ListTools(p, found)
  PROVE  CallInv'
<1>1. Visible(found, p) \subseteq Offered
  BY CallAssumption DEF Visible, Additions, Offered
<1>2. p = "read_only" => Visible(found, p) \subseteq ReadOnly \X {"contract"}
  BY DEF Visible, Policies
<1>3. Shown(toolset')
  BY <1>1, <1>2 DEF ListTools, Shown
<1> QED BY <1>3, OthersStep DEF ListTools, CallInv

LEMMA InvokeStep ==
  ASSUME CallInv, NEW c \in Calls, NEW t \in toolset.tools, Invoke(c, t)
  PROVE  CallInv'
<1>1. t \in Offered /\ toolset.under \in Policies
  BY DEF CallInv, Shown
<1>2. toolset.under = "read_only" => t \in ReadOnly \X {"contract"}
  BY DEF CallInv, Shown
<1>3. call'[c] = [NoCall EXCEPT !.pc = "invoked", !.tool = t, !.under = toolset.under,
                                !.since = {seat} \ {0}]
  BY DEF Invoke, CallInv
<1> DEFINE x == call'[c]
<1>4. /\ x.pc = "invoked" /\ x.tool = t /\ x.under = toolset.under /\ x.since = {seat} \ {0}
      /\ x.cred = 0 /\ x.name = <<>> /\ x.ran = <<>>
  BY <1>3 DEF NoCall
<1>5. x \in Call
  <2>1. {seat} \ {0} \subseteq Creds
    BY DEF CallInv
  <2>2. NoCall \in Call
    BY NoCallFits DEF Fits
  <2> QED BY <1>1, <1>3, <2>1, <2>2 DEF Call
<1> HIDE DEF x
<1>6. Fits(x)
  BY <1>1, <1>2, <1>4, <1>5 DEF Fits
<1>7. Seen(x)
  BY <1>4 DEF Seen
<1> QED BY <1>3, <1>6, <1>7, OneCallStep DEF Invoke, x

\* A call goes on, but not before the provider, without having run anything.
LEMMA GoesStep ==
  ASSUME CallInv, NEW c \in Calls, call[c].pc # "over",
         NEW pc \in {"over", "invoked", "opening", "leased", "direct"}, Goes(c, pc)
  PROVE  CallInv'
<1>1. call'[c] = [call[c] EXCEPT !.pc = pc]
  BY DEF Goes, CallInv
<1>2. Fits(call'[c])
  BY <1>1 DEF Fits, Call, CallInv
<1>3. Seen(call'[c])
  BY <1>1 DEF Seen, CallInv, Fits, Call
<1> QED BY <1>1, <1>2, <1>3, OneCallStep DEF Goes

LEMMA LeaseReadsStep == ASSUME CallInv, NEW c \in Calls, LeaseReads(c) PROVE CallInv'
<1>1. call'[c] = [call[c] EXCEPT !.pc = "opening", !.cred = seat]
  BY DEF LeaseReads, CallInv
<1>0. call[c] \in Call /\ Fits(call[c]) /\ Seen(call[c]) /\ call[c].pc # "over"
  BY DEF LeaseReads, CallInv
<1>2. seat \in call[c].since /\ seat \in Creds
  BY DEF LeaseReads, CallInv, Seen
<1>3. Fits(call'[c])
  BY <1>0, <1>1, <1>2 DEF Fits, Call
<1>4. Seen(call'[c])
  BY <1>0, <1>1, <1>2 DEF Seen, Call
<1> QED BY <1>1, <1>3, <1>4, OneCallStep DEF LeaseReads

\* A name is resolved to one of the same stem.
LEMMA StartsStep == ASSUME CallInv, NEW c \in Calls, Starts(c) PROVE CallInv'
<1>1. PICK found \in SUBSET Names: \E n \in Resolved(call[c].tool, found):
        call' = [call EXCEPT ![c].pc = "started", ![c].name = n]
  BY DEF Starts
<1>2. PICK n \in Resolved(call[c].tool, found):
        call' = [call EXCEPT ![c].pc = "started", ![c].name = n]
  BY <1>1
<1>3. n \in Names /\ n[1] = call[c].tool[1]
  BY <1>1, <1>2 DEF Resolved
<1>4. call'[c] = [call[c] EXCEPT !.pc = "started", !.name = n]
  BY <1>2 DEF CallInv
<1>0. call[c] \in Call /\ Fits(call[c]) /\ Seen(call[c]) /\ call[c].pc # "over"
  BY DEF Starts, CallInv
<1>5. Fits(call'[c])
  BY <1>0, <1>3, <1>4 DEF Fits, Call
<1>6. Seen(call'[c])
  <2>1. call'[c].since = call[c].since
    BY <1>0, <1>4 DEF Call
  <2> QED BY <1>0, <2>1 DEF Seen
<1>7. call' = [call EXCEPT ![c] = call'[c]]
  BY <1>2, <1>4 DEF CallInv
<1>8. UNCHANGED <<policy, repoliced, seat, kept, issued, toolset>>
  BY Zenon DEF Starts
<1> QED BY Zenon, <1>5, <1>6, <1>7, <1>8, OneCallStep

\* A call ends, and did nothing but what was asked.
LEMMA EndsCallStep ==
  ASSUME CallInv, NEW c \in Calls, call[c].pc # "over",
         NEW stem \in Stems, NEW ran \in {<<>>, <<stem>>}, Ends(c, ran, "over"),
         call[c].under = "read_only" => stem \in ReadOnly
  PROVE  CallInv'
<1>1. call'[c] = [call[c] EXCEPT !.pc = "over", !.ran = @ \o ran, !.name = <<>>]
  BY DEF Ends, CallInv
<1>2. call[c].ran = <<>> /\ call[c] \in Call
  BY DEF CallInv, Fits
<1>3. ran \in Seq(Stems) /\ <<>> \o ran = ran /\ Len(ran) <= 1
  <2>1. CASE ran = <<>>
    BY <2>1
  <2>2. CASE ran = <<stem>>
    BY <2>2
  <2> QED BY <2>1, <2>2
<1>4. \A i \in DOMAIN ran: ran[i] = stem
  OBVIOUS
<1> DEFINE x == call'[c]
<1>5. x \in Call /\ x.ran = ran
  <2>1. x = [call[c] EXCEPT !.pc = "over", !.ran = ran, !.name = <<>>]
    BY <1>1, <1>2, <1>3
  <2> QED BY <1>2, <1>3, <2>1 DEF Call
<1>6. x.pc = "over" /\ x.under = call[c].under /\ x.cred = call[c].cred /\ x.since = call[c].since
  BY <1>1, <1>2 DEF Call
<1> HIDE DEF x
<1>7. Fits(x)
  BY <1>3, <1>4, <1>5, <1>6 DEF Fits, CallInv
<1>8. Seen(x)
  BY <1>6 DEF Seen
<1> QED BY <1>1, <1>7, <1>8, OneCallStep DEF Ends, x

LEMMA RunsStep == ASSUME CallInv, NEW c \in Calls, Runs(c) PROVE CallInv'
<1>1. PICK ran \in {<<>>, <<call[c].name[1]>>}: Ends(c, ran, "over")
  BY DEF Runs
<1>2. call[c].name \in Names /\ call[c].name[1] = call[c].tool[1]
  BY DEF Runs, CallInv, Fits
<1>3. call[c].name[1] \in Stems
  BY <1>2 DEF Names
<1>4. call[c].under = "read_only" => call[c].name[1] \in ReadOnly
  BY <1>2 DEF Runs, CallInv, Fits
<1> QED BY <1>1, <1>3, <1>4, EndsCallStep DEF Runs

LEMMA RunsDirectStep == ASSUME CallInv, NEW c \in Calls, RunsDirect(c) PROVE CallInv'
<1>1. call[c].tool \in Offered
  BY DEF RunsDirect, CallInv, Fits
<1>2. call[c].tool[1] \in Stems
  BY <1>1, CallAssumption DEF Offered, Names
<1>3. call[c].under = "read_only" => call[c].tool[1] \in ReadOnly
  BY DEF RunsDirect, CallInv, Fits
<1>4. PICK ran \in {<<>>, <<call[c].tool[1]>>}: Ends(c, ran, "over")
  BY DEF RunsDirect
<1> QED BY <1>2, <1>3, <1>4, EndsCallStep DEF RunsDirect

LEMMA CallStep == CallInv /\ CallNext => CallInv'
<1>1. ASSUME CallInv, NEW c \in Calls, LeaseOpens(c) \/ LeaseFails(c) \/ GoesDirect(c) \/ CannotStart(c)
      PROVE  CallInv'
  BY <1>1, GoesStep DEF LeaseOpens, LeaseFails, GoesDirect, CannotStart
<1> QED BY <1>1, AuthorizedStep, ConnectionGoesStep, ListStep, InvokeStep, LeaseReadsStep,
           StartsStep, RunsStep, RunsDirectStep DEF CallNext

-----------------------------------------------------------------------------
(***************************************************************************)
(* Theorems                                                                *)
(***************************************************************************)

\* The inductive invariant holds, for every number of lookups, requests, members, versions, pairs,
\* jobs, flushes, tools and calls.
THEOREM WorkspaceInvariance == Spec => []WorkspaceIInv
<1>1. Init => WorkspaceIInv
  BY InvSplit, CatalogueInitOK, MembershipInitOK, ProviderInitOK, UsageInitOK, CallInitOK,
     CallInvIs DEF Init
<1>2. WorkspaceIInv /\ [Next]_vars => WorkspaceIInv'
  <2> SUFFICES ASSUME CatalogueInv, MembershipInv, ProviderInv, UsageInv, CallSafety, [Next]_vars
               PROVE  CatalogueInv' /\ MembershipInv' /\ ProviderInv' /\ UsageInv' /\ CallSafety'
    BY InvSplit DEF WorkspaceIInv, CatalogueInv, MembershipInv, ProviderInv, UsageInv, CallSafety
  <2>1. CatalogueNext \/ UNCHANGED catalogueVars
    BY DEF Next, vars
  <2>2. MembershipNext \/ UNCHANGED membershipVars
    BY DEF Next, vars
  <2>3. ProviderNext \/ UNCHANGED providerVars
    BY DEF Next, vars
  <2>4. UsageNext \/ UNCHANGED usageVars
    BY DEF Next, vars
  <2>5. CallNext \/ UNCHANGED callVars
    BY DEF Next, vars
  <2>6. CallSafety'
    BY <2>5, CallInvIs, CallStep, CallStutter
  <2> QED BY <2>1, <2>2, <2>3, <2>4, <2>6, CatalogueStep, CatalogueStutter, MembershipStep,
             MembershipStutter, ProviderStep, ProviderStutter, UsageStep, UsageStutter
<1> QED BY <1>1, <1>2, PTL DEF Spec

\* Cached services are the committed ones unless a lookup raced with a change, or the sweep has
\* not dropped them yet (control-plane-repository.ts:229, mcp-discovery.ts:112).
THEOREM ServicesAreCurrentHolds == Spec => []ServicesAreCurrent
<1>1. WorkspaceIInv => ServicesAreCurrent
  BY DEF WorkspaceIInv
<1> QED BY <1>1, WorkspaceInvariance, PTL

\* An organization keeps an owner unless two removals overlapped (invitations.ts:238).
THEOREM OwnerRemainsHolds == Spec => []OwnerRemains
<1>1. WorkspaceIInv => OwnerRemains
  BY DEF WorkspaceIInv
<1> QED BY <1>1, WorkspaceInvariance, PTL

\* A pair passed over as verified has a list that its provider gave, and no failure takes it away
\* (provider-tools.ts:72, user-tools.mdx:82).
THEOREM DatedIsOfferedHolds == Spec => []DatedIsOffered
<1>1. WorkspaceIInv => DatedIsOffered
  BY DEF WorkspaceIInv
<1> QED BY <1>1, WorkspaceInvariance, PTL

\* Every count is in memory, or lost, or in the table exactly once, whichever flushes overlap
\* (api-usage-recorder.ts:36).
THEOREM CountedOnceHolds == Spec => []CountedOnce
<1>1. WorkspaceIInv => CountedOnce
  BY DEF WorkspaceIInv
<1> QED BY <1>1, WorkspaceInvariance, PTL

\* A count is lost only to a refused write, a crash, or a signal that came before it or in the
\* middle of its flush (index.ts:491).
THEOREM OnlyExcusedAreLostHolds == Spec => []OnlyExcusedAreLost
<1>1. WorkspaceIInv => OnlyExcusedAreLost
  BY DEF WorkspaceIInv
<1> QED BY <1>1, WorkspaceInvariance, PTL

\* Whichever way to the provider fails, and when, what was asked for was done at most once
\* (provider-mcp.ts:872).
THEOREM RunsOnceHolds == Spec => []RunsOnce
<1>1. WorkspaceIInv => RunsOnce
  BY DEF WorkspaceIInv
<1> QED BY <1>1, WorkspaceInvariance, PTL

\* A call never runs with a credential that was gone when the agent asked for it
\* (control-plane.ts:418, user-tools.mdx:39).
THEOREM LeaseIsFreshHolds == Spec => []LeaseIsFresh
<1>1. WorkspaceIInv => LeaseIsFresh
  BY DEF WorkspaceIInv
<1> QED BY <1>1, WorkspaceInvariance, PTL

\* A toolset listed under read_only does nothing that was not reviewed as reading, whatever the
\* provider lists (provider-tool-merge.ts:12).
THEOREM ReadOnlyRunsReviewedHolds == Spec => []ReadOnlyRunsReviewed
<1>1. WorkspaceIInv => ReadOnlyRunsReviewed
  BY DEF WorkspaceIInv
<1> QED BY <1>1, WorkspaceInvariance, PTL
=============================================================================
