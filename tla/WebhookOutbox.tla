--------------------------- MODULE WebhookOutbox ---------------------------
(***************************************************************************)
(* The delivery of outbox events to the organization's webhook by the      *)
(* outbox workers, one in every API process (processOutboxBatch in         *)
(* apps/api/src/jobs/outbox.ts), while the tenant changes the webhook      *)
(* settings (OrganizationSettings).                                        *)
(*                                                                         *)
(* The worker has no transaction: every statement commits on its own, and  *)
(* the post to the endpoint takes up to ten seconds.  A batch takes the    *)
(* time once, at its start, and uses it throughout.  One tick of the model *)
(* is a little more than the five minutes after which a claim is stale, so *)
(* that a claim is stale for a batch that started in a later tick; age is  *)
(* what has passed since, in ticks.  Backoffs are a matter of seconds or   *)
(* minutes, and end at any time.                                           *)
(***************************************************************************)
EXTENDS OrganizationSettings, FiniteSets

CONSTANTS
  Events,       \* outbox events of the organization
  Workers,      \* API processes
  None,         \* no event
  MaxAttempts,  \* tries before an event is given up (10 in the code)
  BatchSize,    \* events of one batch (25 in the code)
  MaxSpan,      \* bound: ticks a batch may be at work
  MaxCrashes    \* bound: workers that die in the middle of a batch

ASSUME OutboxAssumption ==
  /\ None \notin Events
  /\ MaxAttempts \in Nat \ {0} /\ BatchSize \in Nat \ {0}
  /\ MaxSpan \in Nat /\ MaxCrashes \in Nat

VARIABLES
  event,        \* the outbox_events rows
  worker,       \* the batches at work
  crashes,
  tries,        \* history: deliveries attempted of each event, counted up to MaxAttempts
  received,     \* history: events the endpoint has received
  excused,      \* history: events that were looked at while no webhook was configured
  contested     \* history: events whose claim was taken over as stale

outboxVars == <<event, worker, crashes, tries, received, excused, contested>>

vars == <<outboxVars, settingsVars>>

Ages == 0..(MaxSpan + 1)

\* due: available_at has passed.  age: how old processing_at is, while processing.
Event == [st: {"unwritten", "pending", "processing", "delivered", "failed"},
          attempts: 0..MaxAttempts, due: BOOLEAN, age: Ages]

\* todo, snap: the rows of the batch not yet handled, and their attempts as selected.
Worker == [pc: {"idle", "batch", "claimed", "waived", "configured", "signed", "answered"},
           age: 0..MaxSpan, todo: SUBSET Events, snap: [Events -> 0..MaxAttempts],
           cur: Events \cup {None}, config: Metadata, ok: BOOLEAN]

IdleWorker == [pc |-> "idle", age |-> 0, todo |-> {}, snap |-> [e \in Events |-> 0],
               cur |-> None, config |-> NoWebhook, ok |-> FALSE]

OutboxInit ==
  /\ event = [e \in Events |-> [st |-> "unwritten", attempts |-> 0, due |-> FALSE, age |-> 0]]
  /\ worker = [w \in Workers |-> IdleWorker]
  /\ crashes = 0
  /\ tries = [e \in Events |-> 0]
  /\ received = {}
  /\ excused = {}
  /\ contested = {}

OutboxTypeOK ==
  /\ event \in [Events -> Event]
  /\ worker \in [Workers -> Worker]
  /\ crashes \in 0..MaxCrashes
  /\ tries \in [Events -> 0..MaxAttempts]
  /\ received \in SUBSET Events
  /\ excused \in SUBSET Events
  /\ contested \in SUBSET Events

\* The INSERT of an event, in the transaction of whoever changed a connection.
WriteEvent(e) ==
  /\ event[e].st = "unwritten"
  /\ event' = [event EXCEPT ![e].st = "pending", ![e].due = TRUE]
  /\ UNCHANGED <<worker, crashes, tries, received, excused, contested, settingsVars>>

\* processing_at < now - 5 minutes, for the now of w's batch.
Stale(w, e) == event[e].st = "processing" /\ event[e].age > worker[w].age

\* Mutant: claims of dead workers are not looked for.
SelectablePending(e) == event[e].st = "pending" /\ event[e].due

\* The SELECT of a batch that starts now.
Selectable(e) ==
  \/ event[e].st = "pending" /\ event[e].due
  \/ event[e].st = "processing" /\ event[e].age > 0

\* At most BatchSize of them, in no particular order.
SelectBatch(w) ==
  /\ worker[w].pc = "idle"
  /\ \E batch \in SUBSET {e \in Events: Selectable(e)} \ {{}}:
       /\ \/ batch = {e \in Events: Selectable(e)} /\ Cardinality(batch) <= BatchSize
          \/ Cardinality(batch) = BatchSize
       /\ worker' = [worker EXCEPT
            ![w] = [IdleWorker EXCEPT
                      !.pc = "batch", !.todo = batch,
                      !.snap = [e \in Events |-> IF e \in batch THEN event[e].attempts ELSE 0]]]
  /\ UNCHANGED <<event, crashes, tries, received, excused, contested, settingsVars>>

\* The batch without event e: it goes on, or has come to its end.
Without(w, e) ==
  IF worker[w].todo = {e}
    THEN IdleWorker
    ELSE [worker[w] EXCEPT !.pc = "batch", !.todo = @ \ {e}, !.snap[e] = 0, !.cur = None,
                           !.config = NoWebhook, !.ok = FALSE]

\* Mutant: a claim is taken over without asking how old it is.
ClaimableAtOnce(w, e) == event[e].st \in {"pending", "processing"}

\* WHERE status = 'pending' OR (status = 'processing' AND it is stale); not the available_at.
Claimable(w, e) == event[e].st = "pending" \/ Stale(w, e)

\* UPDATE ... SET status = 'processing', processing_at = the batch's now RETURNING id.
Claim(w, e) ==
  /\ worker[w].pc = "batch" /\ e \in worker[w].todo
  /\ Claimable(w, e)
  /\ contested' = IF Stale(w, e) THEN contested \cup {e} ELSE contested
  /\ event' = [event EXCEPT ![e].st = "processing", ![e].age = worker[w].age]
  /\ worker' = [worker EXCEPT ![w].pc = "claimed", ![w].cur = e]
  /\ UNCHANGED <<crashes, tries, received, excused, settingsVars>>

\* Somebody else has it, or is done with it.
SkipEvent(w, e) ==
  /\ worker[w].pc = "batch" /\ e \in worker[w].todo
  /\ ~Claimable(w, e)
  /\ worker' = [worker EXCEPT ![w] = Without(w, e)]
  /\ UNCHANGED <<event, crashes, tries, received, excused, contested, settingsVars>>

\* webhookConfig: a string, be it empty, and a secret id.
Configured(m) == m.url # "none" /\ m.secret # 0

\* SELECT metadata FROM organization.
ReadConfig(w) ==
  /\ worker[w].pc = "claimed"
  /\ worker' = [worker EXCEPT ![w].pc = IF Configured(meta) THEN "configured" ELSE "waived",
                              ![w].config = meta]
  /\ excused' = IF Configured(meta) THEN excused ELSE excused \cup {worker[w].cur}
  /\ UNCHANGED <<event, crashes, tries, received, contested, settingsVars>>

\* UPDATE WHERE id = event.id: whatever has become of the event since the claim.
CloseEvent(w, outcome, n, due) ==
  LET e == worker[w].cur
  IN /\ event' = [event EXCEPT ![e] = [st |-> outcome, attempts |-> n, due |-> due, age |-> 0]]
     /\ worker' = [worker EXCEPT ![w] = Without(w, e)]

\* No webhook: there is nothing to deliver.
Waive(w) ==
  /\ worker[w].pc = "waived"
  /\ CloseEvent(w, "delivered", event[worker[w].cur].attempts, event[worker[w].cur].due)
  /\ UNCHANGED <<crashes, tries, received, excused, contested, settingsVars>>

\* secretStore.read.
ReadSecret(w) ==
  /\ worker[w].pc = "configured"
  /\ worker[w].config.secret \in signing
  /\ worker' = [worker EXCEPT ![w].pc = "signed"]
  /\ UNCHANGED <<event, crashes, tries, received, excused, contested, settingsVars>>

\* It throws when the secret is gone: the batch ends there, and the event stays claimed.
SecretMissing(w) ==
  /\ worker[w].pc = "configured"
  /\ worker[w].config.secret \notin signing
  /\ worker' = [worker EXCEPT ![w] = IdleWorker]
  /\ UNCHANGED <<event, crashes, tries, received, excused, contested, settingsVars>>

\* deliverWebhook.  The endpoint may have received what the worker takes for a failure; an
\* empty URL fails validation before anything is sent.
Deliver(w, arrives, ok) ==
  LET e == worker[w].cur
  IN /\ worker[w].pc = "signed"
     /\ ok => arrives
     /\ worker[w].config.url = "empty" => ~arrives
     /\ tries' = [tries EXCEPT ![e] = IF @ < MaxAttempts THEN @ + 1 ELSE @]
     /\ received' = IF arrives THEN received \cup {e} ELSE received
     /\ worker' = [worker EXCEPT ![w].pc = "answered", ![w].ok = ok]
     /\ UNCHANGED <<event, crashes, excused, contested, settingsVars>>

\* Mutant: the last but one try is the last.
SettleEarly(w) ==
  LET e == worker[w].cur
      n == worker[w].snap[e] + 1
  IN /\ worker[w].pc = "answered"
     /\ CloseEvent(w, IF worker[w].ok THEN "delivered"
                      ELSE IF n + 1 >= MaxAttempts THEN "failed" ELSE "pending", n, FALSE)
     /\ UNCHANGED <<crashes, tries, received, excused, contested, settingsVars>>

\* The attempts are counted from the row as it was selected.
Settle(w) ==
  LET e == worker[w].cur
      n == worker[w].snap[e] + 1
  IN /\ worker[w].pc = "answered"
     /\ CloseEvent(w, IF worker[w].ok THEN "delivered"
                      ELSE IF n >= MaxAttempts THEN "failed" ELSE "pending", n, FALSE)
     /\ UNCHANGED <<crashes, tries, received, excused, contested, settingsVars>>

\* The process dies, or a statement fails: what it claimed stays claimed.
WorkerCrash(w) ==
  /\ worker[w].pc # "idle"
  /\ crashes < MaxCrashes
  /\ crashes' = crashes + 1
  /\ worker' = [worker EXCEPT ![w] = IdleWorker]
  /\ UNCHANGED <<event, tries, received, excused, contested, settingsVars>>

\* available_at passes.
BackoffEnds(e) ==
  /\ event[e].st = "pending" /\ ~event[e].due
  /\ event' = [event EXCEPT ![e].due = TRUE]
  /\ UNCHANGED <<worker, crashes, tries, received, excused, contested, settingsVars>>

\* Five minutes pass.
Tick ==
  /\ \A w \in Workers: worker[w].pc # "idle" => worker[w].age < MaxSpan
  /\ event' = [e \in Events |->
                 IF event[e].st = "processing" /\ event[e].age <= MaxSpan
                   THEN [event[e] EXCEPT !.age = @ + 1] ELSE event[e]]
  /\ worker' = [w \in Workers |->
                  IF worker[w].pc # "idle" THEN [worker[w] EXCEPT !.age = @ + 1] ELSE worker[w]]
  /\ UNCHANGED <<crashes, tries, received, excused, contested, settingsVars>>

BatchStep(w) ==
  \/ \E e \in Events: Claim(w, e) \/ SkipEvent(w, e)
  \/ ReadConfig(w)
  \/ Waive(w)
  \/ ReadSecret(w)
  \/ SecretMissing(w)
  \/ \E arrives, ok \in BOOLEAN: Deliver(w, arrives, ok)
  \/ Settle(w)

OutboxNext ==
  \/ \E e \in Events: WriteEvent(e) \/ BackoffEnds(e)
  \/ \E w \in Workers: SelectBatch(w) \/ BatchStep(w) \/ WorkerCrash(w)
  \/ Tick

Init == OutboxInit /\ SettingsInit

Next == OutboxNext \/ (SettingsNext /\ UNCHANGED outboxVars)

Spec == Init /\ [][Next]_vars

\* A batch that has started goes on: its post times out after ten seconds.  The sweep runs
\* every second in every process.  Time passes.  Nobody has to change settings or to crash.
Fairness ==
  /\ \A w \in Workers: WF_vars(SelectBatch(w)) /\ WF_vars(BatchStep(w))
  /\ \A e \in Events: WF_vars(BackoffEnds(e))
  /\ WF_vars(Tick)

FairSpec == Spec /\ Fairness

TypeOK == OutboxTypeOK /\ SettingsTypeOK

-----------------------------------------------------------------------------
(***************************************************************************)
(* Safety                                                                  *)
(***************************************************************************)
Handles(w, e) == worker[w].pc \notin {"idle", "batch"} /\ worker[w].cur = e

Unsettled(e) == event[e].st \in {"pending", "processing"}

\* The claim excludes: two workers have the same event in hand only after the claim of one of
\* them was taken for that of a dead worker.
ClaimExcludes ==
  \A e \in Events: \A v, w \in Workers:
    Handles(v, e) /\ Handles(w, e) /\ v # w => e \in contested

\* The outbox delivers every event at least once, gives up only after MaxAttempts tries, and
\* does neither twice, unless two workers had the event at once.
Delivery == INSTANCE EventDelivery WITH
  status <- [e \in Events |-> IF Unsettled(e) THEN "open" ELSE event[e].st]
AtLeastOnce == Delivery!DeliverySpec

-----------------------------------------------------------------------------
(***************************************************************************)
(* The inductive invariant behind ClaimExcludes, AtLeastOnce and, with     *)
(* itself, WebhookCanSign.                                                 *)
(***************************************************************************)

\* The event in hand is one of the batch.
InHand == \A w \in Workers:
  worker[w].pc \notin {"idle", "batch"} => worker[w].cur \in worker[w].todo

\* An event that nobody took over is "processing" as long as it is in hand.
HandledIsProcessing == \A e \in Events: \A w \in Workers:
  Handles(w, e) /\ e \notin contested => event[e].st = "processing"

\* No count of attempts, in the row or in a batch, is ahead of the tries made.
CountedOK ==
  /\ \A e \in Events: event[e].attempts <= tries[e]
  /\ \A e \in Events: event[e].st \notin {"delivered", "failed"} => event[e].attempts < MaxAttempts
  /\ \A w \in Workers: \A e \in worker[w].todo:
       worker[w].snap[e] <= tries[e] /\ worker[w].snap[e] < MaxAttempts

\* What a worker is about to write about its event is true of it.
OutcomeOK ==
  /\ \A w \in Workers: worker[w].pc = "waived" => worker[w].cur \in excused
  /\ \A w \in Workers: worker[w].pc = "answered" =>
       /\ worker[w].snap[worker[w].cur] < tries[worker[w].cur]
       /\ worker[w].ok => worker[w].cur \in received

OutboxIInv ==
  /\ TypeOK
  /\ InHand
  /\ ClaimExcludes
  /\ HandledIsProcessing
  /\ CountedOK
  /\ OutcomeOK
  /\ IdsKnown

-----------------------------------------------------------------------------
(***************************************************************************)
(* Liveness                                                                *)
(***************************************************************************)

\* Every event that is written is delivered or given up, provided its signing secret is not
\* missing for good: an endpoint that always fails, a worker that dies with the event in hand
\* and a secret that is rotated under it only delay that.
CannotSign == Configured(meta) /\ meta.secret \notin signing
EventuallySettled == \A e \in Events: Unsettled(e) ~> ~Unsettled(e) \/ CannotSign
=============================================================================
