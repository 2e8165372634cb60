------------------------ MODULE OrganizationSettings ------------------------
(***************************************************************************)
(* The webhook settings of ONE organization, kept in organization.metadata *)
(* beside a signing secret in the secret store: PUT /settings and PATCH    *)
(* /organization (apps/api/src/routes/dashboard.ts).                       *)
(*                                                                         *)
(* Both read the metadata, merge, and write the whole document back.  PUT  *)
(* works from the row authMiddleware selected before it opened the         *)
(* request's transaction, PATCH from a SELECT of its own; either way other *)
(* requests commit between the read and the write.  The put of a new       *)
(* secret, the UPDATE and the delete of the old secret are one             *)
(* transaction, so they are one step.                                      *)
(***************************************************************************)
EXTENDS Naturals

CONSTANTS
  Requests,     \* settings requests that may be in flight
  MaxSecrets,   \* bound: signing secrets ever stored
  MaxUpdates    \* bound: settings requests ever made

ASSUME SettingsAssumption == MaxSecrets \in Nat /\ MaxUpdates \in Nat

VARIABLES
  meta,         \* the webhook fields of organization.metadata
  signing,      \* the webhook_signing_secret records that exist
  drawn,        \* signing secrets drawn so far; 0 is "none"
  req,          \* the requests, and the metadata each has read
  updates,
  disputed      \* history: secret ids about which a request was wrong, or which a body set

settingsVars == <<meta, signing, drawn, req, updates, disputed>>

\* An id that is no signing secret's; 0 is none.
Foreign == MaxSecrets + 1

SecretIds == 0..Foreign

\* url: "none" is an absent field, "empty" the empty string that clears it.
Metadata == [url: {"none", "empty", "set"}, secret: SecretIds]

NoWebhook == [url |-> "none", secret |-> 0]

Request == [pc: {"idle", "loaded"}, read: Metadata]

IdleRequest == [pc |-> "idle", read |-> NoWebhook]

SettingsInit ==
  /\ meta = NoWebhook
  /\ signing = {}
  /\ drawn = 0
  /\ req = [r \in Requests |-> IdleRequest]
  /\ updates = 0
  /\ disputed = {}

SettingsTypeOK ==
  /\ meta \in Metadata
  /\ signing \in SUBSET SecretIds
  /\ drawn \in 0..MaxSecrets
  /\ req \in [Requests -> Request]
  /\ updates \in 0..MaxUpdates
  /\ disputed \in SUBSET SecretIds

\* The organization row as it is when the request comes in.
SettingsLoad(r) ==
  /\ req[r].pc = "idle"
  /\ updates < MaxUpdates
  /\ updates' = updates + 1
  /\ req' = [req EXCEPT ![r] = [pc |-> "loaded", read |-> meta]]
  /\ UNCHANGED <<meta, signing, drawn, disputed>>

Differing(i, j) == IF i = j THEN {} ELSE {i, j}

\* UPDATE organization SET metadata: the whole document, whatever it says by now.  The secret id
\* that this request takes for the settings' own is the one it read; asked is the one that it
\* asks for without having stored it.
WriteMetadata(r, new, asked) ==
  /\ meta' = new
  /\ disputed' = disputed \cup Differing(meta.secret, req[r].read.secret)
                         \cup Differing(req[r].read.secret, asked)
  /\ req' = [req EXCEPT ![r] = IdleRequest]
  /\ UNCHANGED updates

\* Mutant: the secret that was read is deleted even when it stays.
PutSettingsDropping(r, url) ==
  /\ req[r].pc = "loaded"
  /\ url = req[r].read.url \/ url = "empty" \/ req[r].read.secret # 0
  /\ WriteMetadata(r, [req[r].read EXCEPT !.url = url], req[r].read.secret)
  /\ signing' = signing \ {req[r].read.secret}
  /\ UNCHANGED drawn

\* Without rotateWebhookSecret.  A URL in the body needs a signing secret, or it is a 400; a
\* body without one keeps the URL that was read.
PutSettings(r, url) ==
  /\ req[r].pc = "loaded"
  /\ url = req[r].read.url \/ url = "empty" \/ req[r].read.secret # 0
  /\ WriteMetadata(r, [req[r].read EXCEPT !.url = url], req[r].read.secret)
  /\ UNCHANGED <<signing, drawn>>

\* With it: a new secret is stored, the settings point at it, and the one they were read to
\* point at is deleted.
RotateSecret(r, url) ==
  LET new == drawn + 1
  IN /\ req[r].pc = "loaded"
     /\ new <= MaxSecrets
     /\ drawn' = new
     /\ WriteMetadata(r, [url |-> url, secret |-> new], req[r].read.secret)
     /\ signing' = (signing \ {req[r].read.secret}) \cup {new}

\* Ids a body may name: null, one that GET /organization has shown, or one of its own making.
Nameable == 0..drawn \cup {Foreign}

\* PATCH /organization: every key of the body's metadata is merged over what was read, the URL,
\* with or without a secret, and the secret id included.
PatchMetadata(r, url, secret) ==
  /\ req[r].pc = "loaded"
  /\ WriteMetadata(r, [url |-> url, secret |-> secret], secret)
  /\ UNCHANGED <<signing, drawn>>

\* Refused, or rolled back.
SettingsRefused(r) ==
  /\ req[r].pc = "loaded"
  /\ req' = [req EXCEPT ![r] = IdleRequest]
  /\ UNCHANGED <<meta, signing, drawn, updates, disputed>>

\* webhookUrl is set, cleared, or not in the body; for PATCH, null as well.
SettingsStep(r) ==
  \/ \E url \in {"set", "empty", req[r].read.url}: PutSettings(r, url) \/ RotateSecret(r, url)
  \/ \E url \in {"set", "empty", "none"}, secret \in Nameable: PatchMetadata(r, url, secret)
  \/ SettingsRefused(r)

SettingsNext == \E r \in Requests: SettingsLoad(r) \/ SettingsStep(r)

-----------------------------------------------------------------------------
\* Nobody knows the id of a signing secret before it is drawn.
IdsKnown ==
  /\ meta.secret \in Nameable
  /\ \A r \in Requests: req[r].read.secret \in Nameable
  /\ disputed \subseteq Nameable

\* A webhook that is configured can be signed for: the secret that the settings name exists, and
\* is the only one that does, up to the ids that are in dispute.  Only two things dispute an id:
\* a request that wrote although the settings no longer named the secret it had read, and a
\* PATCH whose body named another (dashboard.ts:565-616, 1328-1338).  Requests that overlap and
\* leave the secret alone do no harm, and a rotation that nobody overtook heals what was broken.
WebhookCanSign == signing \ disputed = {meta.secret} \ (disputed \cup {0})
=============================================================================
