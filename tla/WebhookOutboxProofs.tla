------------------------ MODULE WebhookOutboxProofs ------------------------
(***************************************************************************)
(* The webhook outbox, for any number of events, workers, tries, crashes   *)
(* and settings requests: its claim excludes (ClaimExcludes), it delivers  *)
(* at least once (AtLeastOnce, by refinement of EventDelivery), and a      *)
(* configured webhook can be signed for (WebhookCanSign).                  *)
(*                                                                         *)
(* ClaimExcludes is inductive only together with HandledIsProcessing: a    *)
(* worker cannot claim what another has in hand because the row says       *)
(* "processing", and it says so because nobody but the one who has it in   *)
(* hand closes it.  The refinement needs in addition that the counts a     *)
(* worker remembers are not ahead of the tries made (CountedOK), and that  *)
(* the outcome it is about to write is true (OutcomeOK).                   *)
(***************************************************************************)
EXTENDS WebhookOutbox, TLAPS

-----------------------------------------------------------------------------
(***************************************************************************)
(* Types                                                                   *)
(***************************************************************************)

\* A worker at rest is a worker.
LEMMA WorkerIdle == IdleWorker \in Worker
<1>1. 0 \in 0..MaxSpan /\ 0 \in 0..MaxAttempts /\ 0 \in SecretIds
  BY OutboxAssumption, SettingsAssumption DEF SecretIds, Foreign
<1>2. NoWebhook \in Metadata
  BY <1>1 DEF NoWebhook, Metadata
<1> QED BY <1>1, <1>2 DEF IdleWorker, Worker

\* A worker done with one event is one too.
LEMMA WorkerTypes ==
  ASSUME OutboxTypeOK, SettingsTypeOK, NEW w \in Workers, NEW e \in Events
  PROVE  Without(w, e) \in Worker
<1>1. 0 \in 0..MaxSpan /\ 0 \in 0..MaxAttempts /\ 0 \in SecretIds
  BY OutboxAssumption, SettingsAssumption DEF SecretIds, Foreign
<1>2. NoWebhook \in Metadata
  BY <1>1 DEF NoWebhook, Metadata
<1>3. worker[w] \in Worker
  BY DEF OutboxTypeOK
<1>4. [worker[w] EXCEPT !.pc = "batch", !.todo = @ \ {e}, !.snap[e] = 0, !.cur = None,
                        !.config = NoWebhook, !.ok = FALSE] \in Worker
  BY <1>1, <1>2, <1>3 DEF Worker
<1> QED BY <1>4, WorkerIdle DEF Without

\* Closing an event leaves the events and the workers what they are.
LEMMA CloseTypes ==
  ASSUME OutboxTypeOK, SettingsTypeOK, NEW w \in Workers, worker[w].cur \in Events,
         NEW outcome \in {"pending", "delivered", "failed"}, NEW n \in 0..MaxAttempts,
         NEW due \in BOOLEAN, CloseEvent(w, outcome, n, due)
  PROVE  event' \in [Events -> Event] /\ worker' \in [Workers -> Worker]
<1>1. 0 \in Ages
  BY OutboxAssumption DEF Ages
<1>2. [st |-> outcome, attempts |-> n, due |-> due, age |-> 0] \in Event
  BY <1>1 DEF Event
<1>3. Without(w, worker[w].cur) \in Worker
  BY WorkerTypes
<1> QED BY <1>2, <1>3 DEF CloseEvent, OutboxTypeOK

\* The steps of the settings keep their types.
LEMMA SettingsTypes == ASSUME SettingsTypeOK, SettingsNext PROVE SettingsTypeOK'
<1>1. NoWebhook \in Metadata /\ MaxUpdates \in Nat /\ MaxSecrets \in Nat
  BY SettingsAssumption DEF NoWebhook, Metadata, SecretIds, Foreign
<1>2. IdleRequest \in Request
  BY <1>1 DEF IdleRequest, Request
<1>3. ASSUME NEW r \in Requests, SettingsLoad(r) PROVE SettingsTypeOK'
  <2>1. [pc |-> "loaded", read |-> meta] \in Request
    BY DEF SettingsTypeOK, Request
  <2> QED BY <1>1, <1>3, <2>1 DEF SettingsLoad, SettingsTypeOK
<1>4. ASSUME NEW r \in Requests, NEW new \in Metadata, NEW asked \in SecretIds,
             WriteMetadata(r, new, asked)
      PROVE  /\ meta' \in Metadata /\ disputed' \in SUBSET SecretIds /\ updates' = updates
             /\ req' \in [Requests -> Request]
  <2>1. req[r].read.secret \in SecretIds /\ meta.secret \in SecretIds
    BY DEF SettingsTypeOK, Request, Metadata
  <2> QED BY <1>2, <1>4, <2>1 DEF WriteMetadata, SettingsTypeOK, Differing
<1>5. ASSUME NEW r \in Requests, SettingsStep(r) PROVE SettingsTypeOK'
  <2>1. /\ req[r].read \in Metadata /\ req[r].read.url \in {"none", "empty", "set"}
        /\ req[r].read.secret \in SecretIds
    BY DEF SettingsTypeOK, Request, Metadata
  <2>2. ASSUME NEW url \in {"set", "empty", req[r].read.url}, PutSettings(r, url)
        PROVE  SettingsTypeOK'
    <3>1. [req[r].read EXCEPT !.url = url] \in Metadata
      BY <2>1 DEF Metadata
    <3> QED BY <2>1, <3>1, <1>4, <2>2 DEF PutSettings, SettingsTypeOK
  <2>3. ASSUME NEW url \in {"set", "empty", req[r].read.url}, RotateSecret(r, url)
        PROVE  SettingsTypeOK'
    <3>1. drawn + 1 \in SecretIds /\ drawn + 1 \in 0..MaxSecrets
      BY <1>1, <2>3 DEF RotateSecret, SettingsTypeOK, SecretIds, Foreign
    <3>2. [url |-> url, secret |-> drawn + 1] \in Metadata
      BY <2>1, <3>1 DEF Metadata
    <3> QED BY <2>1, <3>1, <3>2, <1>4, <2>3 DEF RotateSecret, SettingsTypeOK
  <2>4. ASSUME NEW url \in {"set", "empty", "none"}, NEW secret \in Nameable,
               PatchMetadata(r, url, secret)
        PROVE  SettingsTypeOK'
    <3>1. secret \in SecretIds
      BY <1>1 DEF Nameable, SecretIds, Foreign, SettingsTypeOK
    <3>2. [url |-> url, secret |-> secret] \in Metadata
      BY <3>1 DEF Metadata
    <3> QED BY <3>1, <3>2, <1>4, <2>4 DEF PatchMetadata, SettingsTypeOK
  <2>5. CASE SettingsRefused(r)
    BY <1>2, <2>5 DEF SettingsRefused, SettingsTypeOK
  <2> QED BY <1>5, <2>2, <2>3, <2>4, <2>5 DEF SettingsStep
<1> QED BY <1>3, <1>5 DEF SettingsNext

\* What a request writes: ids that were known, apart from one that it has just drawn.
LEMMA WrittenIds ==
  ASSUME SettingsTypeOK, IdsKnown, NEW r \in Requests, NEW new, NEW asked \in Nameable,
         WriteMetadata(r, new, asked), drawn \in Nat, drawn' \in {drawn, drawn + 1},
         new.secret \in 0..drawn' \cup {Foreign}
  PROVE  IdsKnown'
<1>1. Nameable \subseteq Nameable' /\ new.secret \in Nameable'
  BY DEF Nameable, Foreign
<1>2. disputed' \subseteq Nameable
  BY DEF IdsKnown, WriteMetadata, Differing
<1>3. 0 \in Nameable /\ \A q \in Requests: req'[q].read.secret \in {req[q].read.secret, 0}
  BY DEF WriteMetadata, IdleRequest, NoWebhook, SettingsTypeOK, Nameable
<1> QED BY <1>1, <1>2, <1>3 DEF IdsKnown, WriteMetadata

\* A request learns no id but those that the settings have named.
LEMMA SettingsIds == ASSUME SettingsTypeOK, IdsKnown, SettingsNext PROVE IdsKnown'
<1>1. drawn \in Nat
  BY SettingsAssumption DEF SettingsTypeOK
<1>2. ASSUME NEW r \in Requests, SettingsLoad(r) \/ SettingsRefused(r) PROVE IdsKnown'
  <2>1. UNCHANGED <<meta, disputed, drawn>> /\ 0 \in Nameable
    BY <1>1, <1>2 DEF SettingsLoad, SettingsRefused, Nameable
  <2>2. \A q \in Requests: req'[q].read.secret \in {req[q].read.secret, meta.secret, 0}
    BY <1>2 DEF SettingsLoad, SettingsRefused, SettingsTypeOK, IdleRequest, NoWebhook
  <2> QED BY <2>1, <2>2 DEF IdsKnown, Nameable
<1>3. ASSUME NEW r \in Requests, NEW url, PutSettings(r, url) PROVE IdsKnown'
  <2>1. [req[r].read EXCEPT !.url = url].secret = req[r].read.secret
    BY DEF SettingsTypeOK, Request, Metadata
  <2> QED BY <1>1, <1>3, <2>1, WrittenIds DEF PutSettings, IdsKnown, Nameable
<1>4. ASSUME NEW r \in Requests, NEW url, RotateSecret(r, url) PROVE IdsKnown'
  BY <1>1, <1>4, WrittenIds DEF RotateSecret, IdsKnown
<1>5. ASSUME NEW r \in Requests, NEW url, NEW secret \in Nameable, PatchMetadata(r, url, secret)
      PROVE  IdsKnown'
  BY <1>1, <1>5, WrittenIds DEF PatchMetadata, Nameable
<1> QED BY <1>2, <1>3, <1>4, <1>5 DEF SettingsNext, SettingsStep

-----------------------------------------------------------------------------
(***************************************************************************)
(* The inductive invariant                                                 *)
(***************************************************************************)

\* What the invariant says of the state in a form the provers can use.
LEMMA Opened ==
  ASSUME OutboxIInv
  PROVE  /\ event \in [Events -> Event] /\ worker \in [Workers -> Worker]
         /\ tries \in [Events -> 0..MaxAttempts] /\ MaxAttempts \in Nat /\ MaxSpan \in Nat
         /\ \A w \in Workers: worker[w].pc \notin {"idle", "batch"} =>
              worker[w].cur \in Events /\ worker[w].cur \in worker[w].todo
         /\ \A w \in Workers: worker[w].todo \in SUBSET Events /\ worker[w].age \in 0..MaxSpan
         /\ \A e \in Events: event[e].age \in Ages /\ event[e].attempts \in 0..MaxAttempts
         /\ \A w \in Workers: \A e \in Events: worker[w].snap[e] \in 0..MaxAttempts
<1>1. event \in [Events -> Event] /\ worker \in [Workers -> Worker]
      /\ tries \in [Events -> 0..MaxAttempts]
  BY DEF OutboxIInv, TypeOK, OutboxTypeOK
<1>2. MaxAttempts \in Nat /\ MaxSpan \in Nat
  BY OutboxAssumption
<1>3. \A w \in Workers: worker[w] \in Worker
  BY <1>1
<1>4. \A w \in Workers: worker[w].todo \in SUBSET Events /\ worker[w].age \in 0..MaxSpan
      /\ worker[w].snap \in [Events -> 0..MaxAttempts]
  BY <1>3 DEF Worker
<1>5. \A w \in Workers: worker[w].pc \notin {"idle", "batch"} =>
        worker[w].cur \in worker[w].todo
  BY DEF OutboxIInv, InHand
<1>6. \A e \in Events: event[e].age \in Ages /\ event[e].attempts \in 0..MaxAttempts
  BY <1>1 DEF Event
<1>7. \A w \in Workers: \A e \in Events: worker[w].snap[e] \in 0..MaxAttempts
  BY <1>4
<1>8. \A w \in Workers: worker[w].pc \notin {"idle", "batch"} =>
        worker[w].cur \in Events /\ worker[w].cur \in worker[w].todo
  BY <1>4, <1>5
<1> QED BY <1>1, <1>2, <1>4, <1>6, <1>7, <1>8

\* The parts of the invariant that are about the rows and the batches.
Held == InHand /\ ClaimExcludes /\ HandledIsProcessing /\ CountedOK /\ OutcomeOK

\* A worker that puts down what it has in hand, or has nothing in hand before and after, and
\* keeps no more of its batch than it had: the rest of the invariant does not notice.
LEMMA PutDown ==
  ASSUME OutboxIInv, NEW w \in Workers, NEW x \in Worker, worker' = [worker EXCEPT ![w] = x],
         x.pc \in {"idle", "batch"},
         \A e \in x.todo: e \in Events /\ x.snap[e] <= tries[e] /\ x.snap[e] < MaxAttempts,
         UNCHANGED <<event, tries, received, excused, contested>>
  PROVE  Held'
<1>1. \A v \in Workers: worker'[v] = IF v = w THEN x ELSE worker[v]
  BY Opened
<1>2. InHand'
  BY <1>1 DEF OutboxIInv, InHand
<1>3. \A v \in Workers: \A e \in Events: Handles(v, e)' => Handles(v, e)
  BY <1>1 DEF Handles
<1>4. ClaimExcludes' /\ HandledIsProcessing'
  BY <1>3 DEF OutboxIInv, ClaimExcludes, HandledIsProcessing
<1>5. CountedOK'
  BY <1>1, Opened DEF OutboxIInv, CountedOK
<1>6. OutcomeOK'
  BY <1>1 DEF OutboxIInv, OutcomeOK
<1> QED BY <1>2, <1>4, <1>5, <1>6 DEF Held

\* A worker that goes on with the event it has in hand.
LEMMA GoOn ==
  ASSUME OutboxIInv, NEW w \in Workers, NEW x \in Worker, worker' = [worker EXCEPT ![w] = x],
         worker[w].pc \notin {"idle", "batch"}, x.pc \notin {"idle", "batch"},
         x.cur = worker[w].cur, x.todo = worker[w].todo, x.snap = worker[w].snap,
         x.pc = "waived" => x.cur \in excused',
         x.pc = "answered" => x.snap[x.cur] < tries'[x.cur] /\ (x.ok => x.cur \in received'),
         UNCHANGED <<event, contested>>, excused \subseteq excused', received \subseteq received',
         tries' \in [Events -> 0..MaxAttempts], \A e \in Events: tries[e] <= tries'[e]
  PROVE  Held'
<1>1. \A v \in Workers: worker'[v] = IF v = w THEN x ELSE worker[v]
  BY Opened
<1>2. InHand'
  BY <1>1 DEF OutboxIInv, InHand
<1>3. \A v \in Workers: \A e \in Events: Handles(v, e)' => Handles(v, e)
  BY <1>1 DEF Handles
<1>4. ClaimExcludes' /\ HandledIsProcessing'
  BY <1>3 DEF OutboxIInv, ClaimExcludes, HandledIsProcessing
<1>5. CountedOK'
  <2>1. \A e \in Events: tries[e] \in Nat /\ tries'[e] \in Nat /\ tries[e] <= tries'[e]
    BY Opened
  <2>2. \A e \in Events: event'[e].attempts <= tries'[e]
    BY <2>1, Opened DEF OutboxIInv, CountedOK
  <2>3. \A v \in Workers: \A e \in worker'[v].todo:
          e \in worker[v].todo /\ worker'[v].snap[e] = worker[v].snap[e]
    BY <1>1
  <2>4. \A v \in Workers: \A e \in worker'[v].todo:
          worker'[v].snap[e] <= tries'[e] /\ worker'[v].snap[e] < MaxAttempts
    BY <2>1, <2>3, Opened DEF OutboxIInv, CountedOK
  <2> QED BY <2>2, <2>4 DEF OutboxIInv, CountedOK
<1>6. OutcomeOK'
  <2>1. ASSUME NEW v \in Workers, v # w, worker[v].pc = "answered"
        PROVE  worker[v].snap[worker[v].cur] < tries'[worker[v].cur]
    <3> DEFINE e == worker[v].cur
    <3>1. e \in Events /\ worker[v].snap[e] < tries[e]
      BY <2>1, Opened DEF OutboxIInv, OutcomeOK
    <3>2. tries[e] \in Nat /\ tries'[e] \in Nat /\ worker[v].snap[e] \in Nat
      BY <3>1, Opened
    <3> QED BY <3>1, <3>2
  <2> QED BY <2>1, <1>1 DEF OutboxIInv, OutcomeOK
<1> QED BY <1>2, <1>4, <1>5, <1>6 DEF Held

\* Time, and whoever writes events: no worker does anything, and an event that is or becomes
\* unsettled is short of its last attempt.
LEMMA Aged ==
  ASSUME OutboxIInv, worker' \in [Workers -> Worker], event' \in [Events -> Event],
         \A v \in Workers:
           /\ worker'[v].pc = worker[v].pc /\ worker'[v].cur = worker[v].cur
           /\ worker'[v].todo = worker[v].todo /\ worker'[v].snap = worker[v].snap
           /\ worker'[v].ok = worker[v].ok,
         \A e \in Events:
           /\ event'[e].attempts = event[e].attempts
           /\ event[e].st = "processing" => event'[e].st = "processing"
           /\ event'[e].st \notin {"delivered", "failed"}
                => event[e].st \notin {"delivered", "failed"},
         UNCHANGED <<tries, received, excused, contested>>
  PROVE  Held'
<1>1. InHand'
  BY DEF OutboxIInv, InHand
<1>2. ClaimExcludes' /\ HandledIsProcessing'
  BY DEF OutboxIInv, ClaimExcludes, HandledIsProcessing, Handles
<1>3. CountedOK'
  BY DEF OutboxIInv, CountedOK
<1>4. OutcomeOK'
  BY DEF OutboxIInv, OutcomeOK
<1> QED BY <1>1, <1>2, <1>3, <1>4 DEF Held

\* The outbox writes nothing of the webhook's settings.
LEMMA OutboxFrame == ASSUME OutboxNext PROVE UNCHANGED settingsVars
<1>1. ASSUME NEW w \in Workers, BatchStep(w) PROVE UNCHANGED settingsVars
  <2>1. ASSUME (\E e \in Events: Claim(w, e) \/ SkipEvent(w, e)) \/ ReadConfig(w) \/ Waive(w)
        PROVE  UNCHANGED settingsVars
    BY Zenon, <2>1 DEF Claim, SkipEvent, ReadConfig, Waive
  <2>2. ASSUME ReadSecret(w) \/ SecretMissing(w) \/ Settle(w)
               \/ \E arrives, ok \in BOOLEAN: Deliver(w, arrives, ok)
        PROVE  UNCHANGED settingsVars
    BY Zenon, <2>2 DEF ReadSecret, SecretMissing, Settle, Deliver
  <2> QED BY Zenon, <1>1, <2>1, <2>2 DEF BatchStep
<1>2. ASSUME NEW w \in Workers, SelectBatch(w) \/ WorkerCrash(w) PROVE UNCHANGED settingsVars
  BY Zenon, <1>2 DEF SelectBatch, WorkerCrash
<1>3. ASSUME (\E e \in Events: WriteEvent(e) \/ BackoffEnds(e)) \/ Tick
      PROVE  UNCHANGED settingsVars
  BY Zenon, <1>3 DEF WriteEvent, BackoffEnds, Tick
<1> QED BY <1>1, <1>2, <1>3 DEF OutboxNext

\* Claiming: either nobody has the event in hand, or the claim taken over is stale, and the
\* event contested from now on.
LEMMA ClaimHeld ==
  ASSUME OutboxIInv, NEW w \in Workers, NEW e \in Events, Claim(w, e)
  PROVE  Held'
<1>1. \A v \in Workers: worker'[v] = IF v = w THEN [worker[w] EXCEPT !.pc = "claimed", !.cur = e]
                                             ELSE worker[v]
  BY Opened DEF Claim
<1>0. \A v \in Workers: worker[v] \in Worker
  BY Opened
<1>2. LET x == [worker[w] EXCEPT !.pc = "claimed", !.cur = e]
      IN  x.todo = worker[w].todo /\ x.snap = worker[w].snap /\ x.pc = "claimed" /\ x.cur = e
  BY <1>0 DEF Worker
<1>3. /\ \A v \in Workers: worker'[v].todo = worker[v].todo /\ worker'[v].snap = worker[v].snap
      /\ worker'[w].pc = "claimed" /\ worker'[w].cur = e
  BY <1>1, <1>2
<1>4. \A f \in Events: f # e => event'[f] = event[f]
  BY Opened DEF Claim
<1>5. event'[e].st = "processing" /\ event'[e].attempts = event[e].attempts
  <2>1. event[e] \in Event
    BY Opened
  <2>2. event'[e] = [event[e] EXCEPT !.st = "processing", !.age = worker[w].age]
    BY Opened DEF Claim
  <2> QED BY <2>1, <2>2 DEF Event
<1>6. contested \subseteq contested' /\ (event[e].st # "pending" => e \in contested')
  BY DEF Claim, Claimable
<1>7. InHand'
  BY <1>1, <1>3 DEF OutboxIInv, InHand, Claim
<1>8. \A v \in Workers: \A f \in Events: v # w => (Handles(v, f)' <=> Handles(v, f))
  BY <1>1 DEF Handles
<1>9. \A f \in Events: Handles(w, f)' => f = e
  BY <1>3 DEF Handles
<1>10. \A v \in Workers: v # w /\ Handles(v, e)' => e \in contested'
  BY <1>6, <1>8 DEF OutboxIInv, HandledIsProcessing
<1>11. ClaimExcludes'
  BY <1>6, <1>8, <1>9, <1>10 DEF OutboxIInv, ClaimExcludes
<1>12. HandledIsProcessing'
  BY <1>4, <1>5, <1>6, <1>8, <1>9 DEF OutboxIInv, HandledIsProcessing
<1>13. CountedOK'
  <2>1. event[e].st \notin {"delivered", "failed"}
    BY DEF Claim, Claimable, Stale
  <2>2. tries' = tries
    BY DEF Claim
  <2> QED BY <1>3, <1>4, <1>5, <2>1, <2>2 DEF OutboxIInv, CountedOK
<1>14. OutcomeOK'
  <2>1. tries' = tries /\ received' = received /\ excused' = excused
    BY DEF Claim
  <2> QED BY <1>1, <1>3, <2>1 DEF OutboxIInv, OutcomeOK
<1> QED BY <1>7, <1>11, <1>12, <1>13, <1>14 DEF Held

\* Closing: the worker lets go of the event, and if nobody took it over nobody else has it.
LEMMA CloseHeld ==
  ASSUME OutboxIInv, OutboxTypeOK', NEW w \in Workers,
         worker[w].pc \notin {"idle", "batch"},
         NEW outcome \in {"pending", "delivered", "failed"}, NEW n \in 0..MaxAttempts,
         NEW due \in BOOLEAN, CloseEvent(w, outcome, n, due),
         n <= tries[worker[w].cur], outcome = "pending" => n < MaxAttempts,
         UNCHANGED <<tries, received, excused, contested>>
  PROVE  Held'
<1> DEFINE e == worker[w].cur
<1> DEFINE x == Without(w, e)
<1>1. e \in Events
  BY Opened
<1>2. \A v \in Workers: worker'[v] = IF v = w THEN x ELSE worker[v]
  BY Opened DEF CloseEvent
<1>3. /\ x.pc \in {"idle", "batch"} /\ x.todo \subseteq worker[w].todo
      /\ \A f \in x.todo: x.snap[f] = worker[w].snap[f]
  <2>1. CASE worker[w].todo = {e}
    BY <2>1 DEF Without, IdleWorker
  <2>2. CASE worker[w].todo # {e}
    <3>1. worker[w] \in Worker /\ worker[w].snap \in [Events -> 0..MaxAttempts]
      BY Opened DEF Worker
    <3>2. x = [worker[w] EXCEPT !.pc = "batch", !.todo = @ \ {e}, !.snap[e] = 0,
                                !.cur = None, !.config = NoWebhook, !.ok = FALSE]
      BY <2>2 DEF Without
    <3>3. x.pc = "batch" /\ x.todo = worker[w].todo \ {e}
          /\ x.snap = [worker[w].snap EXCEPT ![e] = 0]
      BY <3>1, <3>2 DEF Worker
    <3>4. worker[w].todo \subseteq Events
      BY Opened
    <3> QED BY <3>1, <3>3, <3>4
  <2> QED BY <2>1, <2>2
<1>4. \A f \in Events: event'[f] = IF f = e
        THEN [st |-> outcome, attempts |-> n, due |-> due, age |-> 0] ELSE event[f]
  BY <1>1, Opened DEF CloseEvent
<1>5. InHand'
  BY <1>2, <1>3 DEF OutboxIInv, InHand
<1>6. \A v \in Workers: \A f \in Events: Handles(v, f)' => v # w /\ Handles(v, f)
  BY <1>2, <1>3 DEF Handles
<1>7. ClaimExcludes'
  BY <1>6 DEF OutboxIInv, ClaimExcludes
<1>8. Handles(w, e)
  BY DEF Handles
<1>9. HandledIsProcessing'
  BY <1>1, <1>4, <1>6, <1>8 DEF OutboxIInv, HandledIsProcessing, ClaimExcludes
<1>10. CountedOK'
  <2>1. \A f \in Events: event'[f].attempts <= tries[f]
    BY <1>1, <1>4 DEF OutboxIInv, CountedOK
  <2>2. \A f \in Events: event'[f].st \notin {"delivered", "failed"}
          => event'[f].attempts < MaxAttempts
    BY <1>1, <1>4 DEF OutboxIInv, CountedOK
  <2>3. \A v \in Workers: \A f \in worker'[v].todo:
          f \in worker[v].todo /\ worker'[v].snap[f] = worker[v].snap[f]
    BY <1>2, <1>3
  <2> QED BY <2>1, <2>2, <2>3 DEF OutboxIInv, CountedOK
<1>11. OutcomeOK'
  BY <1>2, <1>3 DEF OutboxIInv, OutcomeOK
<1> QED BY <1>5, <1>7, <1>9, <1>10, <1>11 DEF Held

\* Nothing but the settings changes.
LEMMA SettingsHeld == ASSUME OutboxIInv, UNCHANGED outboxVars PROVE Held' /\ OutboxTypeOK'
  BY DEF OutboxIInv, TypeOK, Held, outboxVars, OutboxTypeOK, InHand, ClaimExcludes,
         HandledIsProcessing, CountedOK, OutcomeOK, Handles

\* A step of a worker keeps the types and the invariant.
LEMMA BatchStepHeld ==
  ASSUME OutboxIInv, NEW w \in Workers, BatchStep(w)
  PROVE  OutboxTypeOK' /\ Held'
<1> DEFINE cur == worker[w].cur
<1>1. OutboxTypeOK /\ SettingsTypeOK
  BY DEF OutboxIInv, TypeOK
<1>2. worker[w] \in Worker /\ meta \in Metadata
  BY <1>1, Opened DEF SettingsTypeOK
<1>3. ASSUME NEW e \in Events, Claim(w, e) PROVE OutboxTypeOK' /\ Held'
  <2>1. [worker[w] EXCEPT !.pc = "claimed", !.cur = e] \in Worker
    <3>1. worker[w] \in Worker /\ e \in Events
      BY <1>2
    <3> QED BY <3>1 DEF Worker
  <2>2. worker[w].age \in Ages
    BY Opened DEF Ages
  <2>3. [event[e] EXCEPT !.st = "processing", !.age = worker[w].age] \in Event
    BY <2>2, Opened DEF Event
  <2>4. OutboxTypeOK'
    BY <1>1, <1>3, <2>1, <2>3 DEF OutboxTypeOK, Claim
  <2> QED BY <1>3, <2>4, ClaimHeld
<1>4. ASSUME NEW e \in Events, SkipEvent(w, e) PROVE OutboxTypeOK' /\ Held'
  <2>1. Without(w, e) \in Worker
    BY <1>1, WorkerTypes
  <2>2. OutboxTypeOK'
    BY <1>1, <1>4, <2>1 DEF OutboxTypeOK, SkipEvent
  <2>3. /\ Without(w, e).pc \in {"idle", "batch"}
        /\ Without(w, e).todo \subseteq worker[w].todo
        /\ \A f \in Without(w, e).todo: Without(w, e).snap[f] = worker[w].snap[f]
    <3>1. CASE worker[w].todo = {e}
      BY <3>1 DEF Without, IdleWorker
    <3>2. CASE worker[w].todo # {e}
      <4>1. worker[w].snap \in [Events -> 0..MaxAttempts] /\ worker[w].todo \subseteq Events
        BY <1>2 DEF Worker
      <4>2. Without(w, e).pc = "batch" /\ Without(w, e).todo = worker[w].todo \ {e}
            /\ Without(w, e).snap = [worker[w].snap EXCEPT ![e] = 0]
        BY <1>2, <3>2 DEF Without, Worker
      <4> QED BY <4>1, <4>2
    <3> QED BY <3>1, <3>2
  <2>4. \A f \in Without(w, e).todo:
          f \in Events /\ Without(w, e).snap[f] <= tries[f] /\ Without(w, e).snap[f] < MaxAttempts
    BY <2>3, Opened DEF OutboxIInv, CountedOK
  <2> QED BY <1>4, <2>1, <2>2, <2>3, <2>4, PutDown DEF SkipEvent
<1>5. CASE ReadConfig(w)
  <2> DEFINE x == [worker[w] EXCEPT !.pc = IF Configured(meta) THEN "configured" ELSE "waived",
                                    !.config = meta]
  <2>1. x \in Worker /\ x.pc \in {"configured", "waived"} /\ x.cur = cur
        /\ x.todo = worker[w].todo /\ x.snap = worker[w].snap
        /\ (x.pc = "waived" => ~Configured(meta))
    BY <1>2 DEF Worker
  <2>2. cur \in Events
    BY <1>5, Opened DEF ReadConfig
  <2>3. worker' = [worker EXCEPT ![w] = x]
        /\ UNCHANGED <<event, tries, received, contested, crashes>>
        /\ excused' = IF Configured(meta) THEN excused ELSE excused \cup {cur}
    BY <1>5 DEF ReadConfig
  <2>4. OutboxTypeOK'
    BY <1>1, <2>1, <2>2, <2>3 DEF OutboxTypeOK
  <2>5. \A e \in Events: tries[e] <= tries'[e]
    BY <2>3, Opened
  <2>6. worker[w].pc \notin {"idle", "batch"} /\ tries' \in [Events -> 0..MaxAttempts]
    BY <1>5, <2>3, Opened DEF ReadConfig
  <2> HIDE DEF x
  <2> QED BY <2>1, <2>3, <2>4, <2>5, <2>6, GoOn
<1>6. CASE Waive(w)
  <2>1. worker[w].pc \notin {"idle", "batch"} /\ cur \in Events
    BY <1>6, Opened DEF Waive
  <2>2. event[cur].attempts \in 0..MaxAttempts /\ event[cur].due \in BOOLEAN
        /\ event[cur].attempts <= tries[cur]
    BY <2>1, Opened DEF OutboxIInv, CountedOK, Event
  <2>3. OutboxTypeOK'
    BY <1>1, <1>6, <2>1, <2>2, CloseTypes DEF Waive, OutboxTypeOK
  <2> QED BY <1>6, <2>1, <2>2, <2>3, CloseHeld DEF Waive
<1>7. CASE ReadSecret(w)
  <2> DEFINE x == [worker[w] EXCEPT !.pc = "signed"]
  <2>1. x \in Worker /\ x.pc = "signed" /\ x.cur = cur
        /\ x.todo = worker[w].todo /\ x.snap = worker[w].snap
    BY <1>2 DEF Worker
  <2>2. worker' = [worker EXCEPT ![w] = x] /\ worker[w].pc \notin {"idle", "batch"}
        /\ UNCHANGED <<event, tries, received, excused, contested, crashes>>
    BY <1>7 DEF ReadSecret
  <2>3. OutboxTypeOK'
    BY <1>1, <2>1, <2>2 DEF OutboxTypeOK
  <2>4. tries' \in [Events -> 0..MaxAttempts] /\ \A e \in Events: tries[e] <= tries'[e]
    BY <2>2, Opened
  <2> HIDE DEF x
  <2> QED BY <2>1, <2>2, <2>3, <2>4, GoOn
<1>8. CASE SecretMissing(w)
  <2>1. worker' = [worker EXCEPT ![w] = IdleWorker] /\ IdleWorker \in Worker
        /\ UNCHANGED <<event, tries, received, excused, contested, crashes>>
    BY <1>8, <1>1, WorkerIdle DEF SecretMissing
  <2>2. OutboxTypeOK'
    BY <1>1, <2>1 DEF OutboxTypeOK
  <2>3. IdleWorker.pc = "idle" /\ IdleWorker.todo = {}
    BY DEF IdleWorker
  <2> QED BY <2>1, <2>2, <2>3, PutDown
<1>9. ASSUME NEW arrives \in BOOLEAN, NEW ok \in BOOLEAN, Deliver(w, arrives, ok)
      PROVE  OutboxTypeOK' /\ Held'
  <2> DEFINE x == [worker[w] EXCEPT !.pc = "answered", !.ok = ok]
  <2>1. x \in Worker /\ x.pc = "answered" /\ x.cur = cur /\ x.ok = ok
        /\ x.todo = worker[w].todo /\ x.snap = worker[w].snap
    BY <1>2 DEF Worker
  <2>2. worker' = [worker EXCEPT ![w] = x] /\ worker[w].pc \notin {"idle", "batch"}
        /\ UNCHANGED <<event, excused, contested, crashes>>
        /\ tries' = [tries EXCEPT ![cur] = IF @ < MaxAttempts THEN @ + 1 ELSE @]
    BY <1>9 DEF Deliver
  <2>10. received' \in {received, received \cup {cur}} /\ (ok => cur \in received')
    <3>1. received' = IF arrives THEN received \cup {cur} ELSE received
      BY <1>9 DEF Deliver
    <3>2. ok => arrives
      BY <1>9 DEF Deliver
    <3>3. received' = received \/ received' = received \cup {cur}
      BY <3>1, Zenon
    <3>4. arrives => cur \in received'
      BY <3>1, Zenon
    <3> QED BY <3>2, <3>3, <3>4
  <2>3. cur \in Events /\ cur \in worker[w].todo
    BY <2>2, Opened
  <2>4. \A e \in Events: tries[e] \in 0..MaxAttempts /\ MaxAttempts \in Nat
    BY Opened
  <2>5. tries' \in [Events -> 0..MaxAttempts]
    <3>1. (IF tries[cur] < MaxAttempts THEN tries[cur] + 1 ELSE tries[cur]) \in 0..MaxAttempts
      BY <2>3, <2>4
    <3> QED BY <2>2, <3>1, Opened
  <2>6. \A e \in Events: tries[e] <= tries'[e]
    BY <2>2, <2>4, Opened
  <2>7. x.snap[x.cur] < tries'[x.cur]
    <3>1. worker[w].snap[cur] <= tries[cur] /\ worker[w].snap[cur] < MaxAttempts
      BY <2>3 DEF OutboxIInv, CountedOK
    <3>2. tries'[cur] = IF tries[cur] < MaxAttempts THEN tries[cur] + 1 ELSE tries[cur]
      BY <2>2, <2>3, Opened
    <3>3. worker[w].snap[cur] \in 0..MaxAttempts
      BY <2>3, Opened
    <3>4. worker[w].snap[cur] < tries'[cur]
      BY <2>3, <2>4, <3>1, <3>2, <3>3
    <3> QED BY <2>1, <3>4
  <2>8. OutboxTypeOK'
    BY <1>1, <2>1, <2>2, <2>3, <2>5, <2>10 DEF OutboxTypeOK
  <2>9. received \subseteq received' /\ (x.ok => x.cur \in received')
    BY <2>1, <2>10
  <2> HIDE DEF x
  <2> QED BY <2>1, <2>2, <2>5, <2>6, <2>7, <2>8, <2>9, GoOn
<1>10. CASE Settle(w)
  <2> DEFINE n == worker[w].snap[cur] + 1
  <2> DEFINE outcome == IF worker[w].ok THEN "delivered"
                        ELSE IF n >= MaxAttempts THEN "failed" ELSE "pending"
  <2>1. worker[w].pc = "answered" /\ cur \in Events /\ cur \in worker[w].todo
        /\ CloseEvent(w, outcome, n, FALSE)
        /\ UNCHANGED <<tries, received, excused, contested, crashes>>
    BY <1>10, Opened DEF Settle
  <2>2. worker[w].snap[cur] < tries[cur] /\ worker[w].snap[cur] < MaxAttempts
    BY <2>1 DEF OutboxIInv, OutcomeOK, CountedOK
  <2>3. worker[w].snap[cur] \in 0..MaxAttempts /\ tries[cur] \in 0..MaxAttempts
        /\ MaxAttempts \in Nat
    BY <2>1, Opened
  <2>4. n \in 0..MaxAttempts /\ n <= tries[cur]
    BY <2>2, <2>3
  <2>5. outcome \in {"pending", "delivered", "failed"}
    BY Zenon
  <2>6. outcome = "pending" => n < MaxAttempts
    <3>1. outcome = "pending" => ~(n >= MaxAttempts)
      BY Zenon
    <3> HIDE DEF n
    <3> QED BY <2>3, <2>4, <3>1
  <2> HIDE DEF n, outcome
  <2>7. OutboxTypeOK'
    BY <1>1, <2>1, <2>4, <2>5, CloseTypes DEF OutboxTypeOK
  <2> QED BY <2>1, <2>4, <2>5, <2>6, <2>7, CloseHeld
<1> QED BY <1>3, <1>4, <1>5, <1>6, <1>7, <1>8, <1>9, <1>10 DEF BatchStep

\* A step of anybody else does too.
LEMMA OutboxStepHeld ==
  ASSUME OutboxIInv, OutboxNext
  PROVE  OutboxTypeOK' /\ Held'
<1>1. OutboxTypeOK /\ SettingsTypeOK
  BY DEF OutboxIInv, TypeOK
<1>2. ASSUME NEW e \in Events, WriteEvent(e) \/ BackoffEnds(e) PROVE OutboxTypeOK' /\ Held'
  <2>1. event[e] \in Event
    BY Opened
  <2>2. /\ [event[e] EXCEPT !.st = "pending", !.due = TRUE] \in Event
        /\ [event[e] EXCEPT !.due = TRUE] \in Event
    BY <2>1 DEF Event
  <2>3. PICK new \in Event:
          /\ event' = [event EXCEPT ![e] = new]
          /\ new.attempts = event[e].attempts /\ new.st = "pending"
          /\ event[e].st \in {"unwritten", "pending"}
    <3>1. CASE WriteEvent(e)
      <4>1. event' = [event EXCEPT ![e] = [event[e] EXCEPT !.st = "pending", !.due = TRUE]]
        BY <3>1, <2>1, Opened DEF WriteEvent, Event
      <4>2. [event[e] EXCEPT !.st = "pending", !.due = TRUE].attempts = event[e].attempts
            /\ [event[e] EXCEPT !.st = "pending", !.due = TRUE].st = "pending"
        BY <2>1 DEF Event
      <4> QED BY <3>1, <4>1, <4>2, <2>2 DEF WriteEvent
    <3>2. CASE BackoffEnds(e)
      <4>1. event' = [event EXCEPT ![e] = [event[e] EXCEPT !.due = TRUE]]
        BY <3>2, <2>1, Opened DEF BackoffEnds, Event
      <4>2. [event[e] EXCEPT !.due = TRUE].attempts = event[e].attempts
            /\ [event[e] EXCEPT !.due = TRUE].st = "pending"
        BY <3>2, <2>1 DEF Event, BackoffEnds
      <4> QED BY <3>2, <4>1, <4>2, <2>2 DEF BackoffEnds
    <3> QED BY <1>2, <3>1, <3>2
  <2>4. UNCHANGED <<worker, crashes, tries, received, excused, contested>>
    BY <1>2 DEF WriteEvent, BackoffEnds
  <2>5. OutboxTypeOK'
    BY <1>1, <2>3, <2>4 DEF OutboxTypeOK
  <2>6. \A f \in Events: event'[f] = IF f = e THEN new ELSE event[f]
    BY <2>3, Opened
  <2> QED BY <2>3, <2>4, <2>5, <2>6, Opened, Aged
<1>3. ASSUME NEW w \in Workers, SelectBatch(w) PROVE OutboxTypeOK' /\ Held'
  <2>1. PICK batch \in SUBSET {e \in Events: Selectable(e)} \ {{}}:
          worker' = [worker EXCEPT
            ![w] = [IdleWorker EXCEPT
                      !.pc = "batch", !.todo = batch,
                      !.snap = [e \in Events |-> IF e \in batch THEN event[e].attempts ELSE 0]]]
    BY <1>3 DEF SelectBatch
  <2> DEFINE snap == [e \in Events |-> IF e \in batch THEN event[e].attempts ELSE 0]
  <2> DEFINE x == [IdleWorker EXCEPT !.pc = "batch", !.todo = batch, !.snap = snap]
  <2>2. snap \in [Events -> 0..MaxAttempts]
    BY Opened
  <2> HIDE DEF snap
  <2>3. x \in Worker /\ x.pc = "batch" /\ x.todo = batch /\ x.snap = snap
    BY <2>2, WorkerIdle DEF Worker
  <2>4. UNCHANGED <<event, crashes, tries, received, excused, contested>>
    BY <1>3 DEF SelectBatch
  <2>5. worker' = [worker EXCEPT ![w] = x]
    BY <2>1 DEF snap
  <2>6. \A e \in batch: e \in Events /\ snap[e] <= tries[e] /\ snap[e] < MaxAttempts
    <3>1. \A e \in batch: e \in Events /\ event[e].st \in {"pending", "processing"}
      BY DEF Selectable
    <3>2. \A e \in batch: snap[e] = event[e].attempts
      BY <3>1 DEF snap
    <3> QED BY <3>1, <3>2 DEF OutboxIInv, CountedOK
  <2>7. OutboxTypeOK'
    BY <1>1, <2>3, <2>4, <2>5 DEF OutboxTypeOK
  <2> HIDE DEF x
  <2> QED BY <2>3, <2>4, <2>5, <2>6, <2>7, PutDown
<1>4. ASSUME NEW w \in Workers, WorkerCrash(w) PROVE OutboxTypeOK' /\ Held'
  <2>1. worker' = [worker EXCEPT ![w] = IdleWorker] /\ IdleWorker \in Worker
        /\ UNCHANGED <<event, tries, received, excused, contested>>
        /\ crashes' \in 0..MaxCrashes
    BY <1>1, <1>4, WorkerIdle, OutboxAssumption DEF WorkerCrash, OutboxTypeOK
  <2>2. OutboxTypeOK'
    BY <1>1, <2>1 DEF OutboxTypeOK
  <2>3. IdleWorker.pc = "idle" /\ IdleWorker.todo = {}
    BY DEF IdleWorker
  <2> QED BY <2>1, <2>2, <2>3, PutDown
<1>5. CASE Tick
  <2>1. \A v \in Workers: worker[v] \in Worker
        /\ (worker[v].pc # "idle" => [worker[v] EXCEPT !.age = @ + 1] \in Worker)
    <3>1. \A v \in Workers: worker[v].pc # "idle" => worker[v].age + 1 \in 0..MaxSpan
      BY <1>5, Opened DEF Tick
    <3>2. \A v \in Workers: worker[v] \in Worker
      BY Opened
    <3>3. \A x \in Worker: x.age + 1 \in 0..MaxSpan => [x EXCEPT !.age = @ + 1] \in Worker
      BY DEF Worker
    <3> QED BY <3>1, <3>2, <3>3
  <2>2. \A v \in Workers: worker'[v] = IF worker[v].pc # "idle"
          THEN [worker[v] EXCEPT !.age = @ + 1] ELSE worker[v]
    BY <1>5 DEF Tick
  <2>3. worker' \in [Workers -> Worker]
    BY <1>5, <2>1 DEF Tick
  <2>4. \A v \in Workers:
           /\ worker'[v].pc = worker[v].pc /\ worker'[v].cur = worker[v].cur
           /\ worker'[v].todo = worker[v].todo /\ worker'[v].snap = worker[v].snap
           /\ worker'[v].ok = worker[v].ok
    <3>1. \A x \in Worker: LET y == [x EXCEPT !.age = @ + 1]
                           IN  /\ y.pc = x.pc /\ y.cur = x.cur /\ y.todo = x.todo
                               /\ y.snap = x.snap /\ y.ok = x.ok
      BY DEF Worker
    <3> SUFFICES ASSUME NEW v \in Workers
                 PROVE  /\ worker'[v].pc = worker[v].pc /\ worker'[v].cur = worker[v].cur
                        /\ worker'[v].todo = worker[v].todo /\ worker'[v].snap = worker[v].snap
                        /\ worker'[v].ok = worker[v].ok
      OBVIOUS
    <3>2. CASE worker[v].pc = "idle"
      BY <2>2, <3>2
    <3>3. CASE worker[v].pc # "idle"
      BY <2>1, <2>2, <3>1, <3>3
    <3> QED BY <3>2, <3>3
  <2>5. \A e \in Events: event[e] \in Event
        /\ (event[e].age <= MaxSpan => [event[e] EXCEPT !.age = @ + 1] \in Event)
    <3>1. \A e \in Events: event[e].age <= MaxSpan => event[e].age + 1 \in Ages
      BY Opened DEF Ages
    <3>2. \A x \in Event: x.age + 1 \in Ages => [x EXCEPT !.age = @ + 1] \in Event
      BY DEF Event
    <3> QED BY <3>1, <3>2, Opened
  <2>6. \A e \in Events: event'[e] =
          IF event[e].st = "processing" /\ event[e].age <= MaxSpan
            THEN [event[e] EXCEPT !.age = @ + 1] ELSE event[e]
    BY <1>5 DEF Tick
  <2>7. event' \in [Events -> Event]
    BY <1>5, <2>5 DEF Tick
  <2>8. \A e \in Events: event'[e].attempts = event[e].attempts /\ event'[e].st = event[e].st
    BY <2>5, <2>6 DEF Event
  <2>9. UNCHANGED <<crashes, tries, received, excused, contested>>
    BY <1>5 DEF Tick
  <2>10. OutboxTypeOK'
    BY <1>1, <2>3, <2>7, <2>9 DEF OutboxTypeOK
  <2> QED BY <2>3, <2>4, <2>7, <2>8, <2>9, <2>10, Aged
<1> QED BY <1>2, <1>3, <1>4, <1>5, BatchStepHeld DEF OutboxNext

\* OutboxIInv is an invariant of every behaviour of the outbox, whatever the constants.
THEOREM OutboxInvariance == Spec => []OutboxIInv
<1>1. Init => OutboxIInv
  <2> SUFFICES ASSUME Init PROVE OutboxIInv
    OBVIOUS
  <2>1. 0 \in SecretIds /\ 0 \in 0..MaxSecrets /\ 0 \in 0..MaxUpdates /\ NoWebhook \in Metadata
        /\ 0 \in 0..MaxAttempts /\ 0 \in Ages /\ 0 \in 0..MaxCrashes
        /\ MaxAttempts \in Nat /\ 0 < MaxAttempts
    BY OutboxAssumption, SettingsAssumption DEF NoWebhook, Metadata, SecretIds, Foreign, Ages
  <2>2. SettingsTypeOK
    BY <2>1 DEF Init, SettingsInit, SettingsTypeOK, IdleRequest, Request
  <2>3. OutboxTypeOK
    BY <2>1, WorkerIdle DEF Init, OutboxInit, OutboxTypeOK, Event
  <2>4. \A w \in Workers: worker[w].pc = "idle" /\ worker[w].todo = {}
    BY DEF Init, OutboxInit, IdleWorker
  <2>5. CountedOK
    BY <2>1, <2>4 DEF Init, OutboxInit, CountedOK
  <2>6. IdsKnown
    BY SettingsAssumption DEF Init, SettingsInit, IdsKnown, Nameable, IdleRequest, NoWebhook
  <2> QED BY <2>2, <2>3, <2>4, <2>5, <2>6 DEF OutboxIInv, TypeOK, InHand, ClaimExcludes,
             HandledIsProcessing, OutcomeOK, Handles
<1>2. OutboxIInv /\ [Next]_vars => OutboxIInv'
  <2> SUFFICES ASSUME OutboxIInv, [Next]_vars PROVE OutboxIInv'
    OBVIOUS
  <2>1. SettingsTypeOK /\ OutboxTypeOK /\ IdsKnown
    BY DEF OutboxIInv, TypeOK
  <2>2. CASE OutboxNext
    <3>1. UNCHANGED settingsVars
      BY <2>2, OutboxFrame
    <3>2. SettingsTypeOK' /\ IdsKnown'
      BY <2>1, <3>1 DEF settingsVars, SettingsTypeOK, IdsKnown, Nameable
    <3> QED BY <2>2, <3>2, OutboxStepHeld DEF OutboxIInv, TypeOK, Held
  <2>3. CASE SettingsNext /\ UNCHANGED outboxVars
    BY <2>1, <2>3, SettingsTypes, SettingsIds, SettingsHeld DEF OutboxIInv, TypeOK, Held
  <2>4. CASE UNCHANGED vars
    <3>1. UNCHANGED outboxVars /\ UNCHANGED settingsVars
      BY <2>4 DEF vars
    <3>2. SettingsTypeOK' /\ IdsKnown'
      BY <2>1, <3>1 DEF settingsVars, SettingsTypeOK, IdsKnown, Nameable
    <3> QED BY <3>1, <3>2, SettingsHeld DEF OutboxIInv, TypeOK, Held
  <2> QED BY <2>2, <2>3, <2>4 DEF Next
<1> QED BY <1>1, <1>2, PTL DEF Spec

\* Two workers never have the same event in hand unless the claim of one was taken over as
\* that of a dead worker.
THEOREM ClaimExcludesHolds == Spec => []ClaimExcludes
<1>1. OutboxIInv => ClaimExcludes
  BY DEF OutboxIInv
<1> QED BY <1>1, OutboxInvariance, PTL

-----------------------------------------------------------------------------
(***************************************************************************)
(* The settings                                                            *)
(***************************************************************************)

\* A step of a request keeps the secret and the settings together, or disputes their ids.
LEMMA SettingsSign ==
  ASSUME SettingsTypeOK, IdsKnown, WebhookCanSign, SettingsNext
  PROVE  WebhookCanSign'
<1>1. meta.secret \in SecretIds /\ drawn \in 0..MaxSecrets /\ MaxSecrets \in Nat
  BY SettingsAssumption DEF SettingsTypeOK, Metadata
<1>2. ASSUME NEW r \in Requests, SettingsLoad(r) \/ SettingsRefused(r) PROVE WebhookCanSign'
  BY <1>2 DEF SettingsLoad, SettingsRefused, WebhookCanSign
<1>3. ASSUME NEW r \in Requests, NEW new, NEW asked, WriteMetadata(r, new, asked)
      PROVE  /\ disputed \subseteq disputed' /\ meta' = new
             /\ meta.secret = req[r].read.secret
                  \/ {meta.secret, req[r].read.secret} \subseteq disputed'
             /\ asked = req[r].read.secret \/ {asked, req[r].read.secret} \subseteq disputed'
             /\ \A i \in disputed':
                  i \in disputed \cup {meta.secret, req[r].read.secret, asked}
  BY <1>3 DEF WriteMetadata, Differing
\* A request that stores no secret: its settings name the one before, or a disputed one.
<1>4. ASSUME NEW r \in Requests, NEW new, WriteMetadata(r, new, new.secret), signing' = signing
      PROVE  WebhookCanSign'
  <2>1. meta' = new /\ disputed \subseteq disputed'
    BY <1>3, <1>4
  <2>2. new.secret = meta.secret \/ {new.secret, meta.secret} \subseteq disputed'
    BY <1>3, <1>4
  <2> QED BY <1>4, <2>1, <2>2 DEF WebhookCanSign
<1>5. ASSUME NEW r \in Requests, NEW url, PutSettings(r, url) PROVE WebhookCanSign'
  <2>1. [req[r].read EXCEPT !.url = url].secret = req[r].read.secret
    BY DEF SettingsTypeOK, Request, Metadata
  <2> QED BY <1>4, <1>5, <2>1 DEF PutSettings
<1>6. ASSUME NEW r \in Requests, NEW url, NEW secret, PatchMetadata(r, url, secret)
      PROVE  WebhookCanSign'
  <2>1. [url |-> url, secret |-> secret].secret = secret
    OBVIOUS
  <2> QED BY <1>4, <1>6, <2>1 DEF PatchMetadata
\* A rotation: what it deletes is what the settings named, or disputed; its own id is new.
<1>7. ASSUME NEW r \in Requests, NEW url, RotateSecret(r, url) PROVE WebhookCanSign'
  <2> DEFINE old == req[r].read.secret
             fresh == drawn + 1
             new == [url |-> url, secret |-> fresh]
  <2>1. WriteMetadata(r, new, old) /\ signing' = (signing \ {old}) \cup {fresh}
        /\ fresh <= MaxSecrets
    BY <1>7 DEF RotateSecret
  <2>2. /\ disputed \subseteq disputed' /\ meta' = new
        /\ meta.secret = old \/ {meta.secret, old} \subseteq disputed'
        /\ \A i \in disputed': i \in disputed \cup {meta.secret, old}
    BY <1>3, <2>1
  <2>3. fresh \notin Nameable /\ fresh # 0
    BY <1>1, <2>1 DEF Nameable, Foreign
  <2>4. fresh \notin disputed' /\ meta'.secret = fresh
    BY <2>2, <2>3 DEF IdsKnown
  <2>5. signing \ disputed' \subseteq {meta.secret}
    BY <2>2 DEF WebhookCanSign
  <2>6. signing' \ disputed' = {fresh}
    BY <2>1, <2>2, <2>4, <2>5
  <2> QED BY <2>3, <2>4, <2>6 DEF WebhookCanSign
<1> QED BY <1>2, <1>5, <1>6, <1>7 DEF SettingsNext, SettingsStep

\* The signing secret that the settings name exists, and no other one is left behind, up to the
\* ids that an overtaken request or the body of a PATCH has put in dispute, whatever overlaps.
THEOREM WebhookCanSignHolds == Spec => []WebhookCanSign
<1>1. Init => WebhookCanSign
  BY DEF Init, SettingsInit, WebhookCanSign, NoWebhook
<1>2. OutboxIInv /\ WebhookCanSign /\ [Next]_vars => WebhookCanSign'
  <2> SUFFICES ASSUME OutboxIInv, WebhookCanSign, [Next]_vars PROVE WebhookCanSign'
    OBVIOUS
  <2>1. CASE OutboxNext \/ UNCHANGED vars
    <3>1. UNCHANGED settingsVars
      BY <2>1, OutboxFrame DEF vars
    <3> QED BY <3>1 DEF settingsVars, WebhookCanSign
  <2>2. CASE SettingsNext
    BY <2>2, SettingsSign DEF OutboxIInv, TypeOK
  <2> QED BY <2>1, <2>2 DEF Next
<1> QED BY <1>1, <1>2, OutboxInvariance, PTL DEF Spec

-----------------------------------------------------------------------------
(***************************************************************************)
(* The refinement                                                          *)
(***************************************************************************)
\* A worker with an event in hand may try it, as far as the promise is concerned.
LEMMA InHandMayTry ==
  ASSUME OutboxIInv, NEW w \in Workers, worker[w].pc \notin {"idle", "batch"}
  PROVE  worker[w].cur \in Events /\ Delivery!MayTry(worker[w].cur)
<1>1. worker[w].cur \in Events /\ Handles(w, worker[w].cur)
  BY Opened DEF Handles
<1> QED BY <1>1 DEF OutboxIInv, HandledIsProcessing, Delivery!MayTry, Unsettled

\* Every step of the outbox is a step of the promise, or none.
LEMMA RefinesStep ==
  ASSUME OutboxIInv, OutboxIInv', [Next]_vars
  PROVE  [Delivery!DeliveryNext]_(Delivery!deliveryVars)
<1> DEFINE status == [e \in Events |-> IF Unsettled(e) THEN "open" ELSE event[e].st]
<1> DEFINE Stutter == /\ status' = status /\ tries' = tries /\ received' = received
                      /\ excused' = excused /\ contested' = contested
<1>0. Stutter => Delivery!deliveryVars' = Delivery!deliveryVars
  BY DEF Delivery!deliveryVars
<1>1. ASSUME UNCHANGED <<tries, received, excused, contested>>,
             \A e \in Events: (IF Unsettled(e) THEN "open" ELSE event[e].st)'
                                = IF Unsettled(e) THEN "open" ELSE event[e].st
      PROVE  Stutter
  BY <1>1
<1>2. ASSUME NEW w \in Workers, NEW outcome \in {"pending", "delivered", "failed"},
             NEW n \in 0..MaxAttempts, NEW due \in BOOLEAN, CloseEvent(w, outcome, n, due),
             worker[w].pc \notin {"idle", "batch"},
             outcome = "delivered" => worker[w].cur \in received \cup excused,
             outcome = "failed" => tries[worker[w].cur] = MaxAttempts,
             UNCHANGED <<tries, received, excused, contested>>
      PROVE  Delivery!DeliveryNext
  <2> DEFINE e == worker[w].cur
  <2> DEFINE o == IF outcome = "pending" THEN "open" ELSE outcome
  <2>1. e \in Events /\ Delivery!MayTry(e)
    BY <1>2, InHandMayTry
  <2>2. \A f \in Events: event'[f] = IF f = e
          THEN [st |-> outcome, attempts |-> n, due |-> due, age |-> 0] ELSE event[f]
    BY <1>2, <2>1, Opened DEF CloseEvent
  <2>3. \A f \in Events: (IF Unsettled(f) THEN "open" ELSE event[f].st)'
          = IF f = e THEN o ELSE status[f]
    BY <2>1, <2>2 DEF Unsettled
  <2>4. status' = [status EXCEPT ![e] = o]
    BY <2>1, <2>3
  <2>5. Delivery!Close(e, o)
    BY <1>2, <2>1, <2>4 DEF Delivery!Close
  <2>6. o \in {"open", "delivered", "failed"}
    BY Zenon
  <2> QED BY <2>1, <2>5, <2>6 DEF Delivery!DeliveryNext
<1>3. ASSUME NEW e \in Events, WriteEvent(e) PROVE Delivery!DeliveryNext
  <2>1. event[e].st = "unwritten" /\ event[e] \in Event
    BY <1>3, Opened DEF WriteEvent
  <2>2. \A f \in Events: event'[f].st = IF f = e THEN "pending" ELSE event[f].st
    BY <1>3, <2>1, Opened DEF WriteEvent, Event
  <2>3. status' = [status EXCEPT ![e] = "open"]
    BY <2>2 DEF Unsettled
  <2>4. status[e] = "unwritten"
    BY <2>1 DEF Unsettled
  <2>5. Delivery!Write(e)
    BY <1>3, <2>3, <2>4 DEF Delivery!Write, WriteEvent
  <2> QED BY <2>5 DEF Delivery!DeliveryNext
<1>4. ASSUME NEW e \in Events, BackoffEnds(e) PROVE Stutter
  <2>1. event[e].st = "pending" /\ event[e] \in Event
    BY <1>4, Opened DEF BackoffEnds
  <2>2. \A f \in Events: event'[f].st = event[f].st
    BY <1>4, <2>1, Opened DEF BackoffEnds, Event
  <2> QED BY <1>1, <1>4, <2>2 DEF BackoffEnds, Unsettled
<1>5. ASSUME Tick PROVE Stutter
  <2>1. \A e \in Events: event[e] \in Event
    BY Opened
  <2>2. \A e \in Events: event'[e].st = event[e].st
    BY <1>5, <2>1 DEF Tick, Event
  <2> QED BY <1>1, <1>5, <2>2 DEF Tick, Unsettled
<1>6. ASSUME NEW w \in Workers, NEW e \in Events, Claim(w, e)
      PROVE  Delivery!DeliveryNext \/ Stutter
  <2>1. event[e] \in Event /\ Unsettled(e)
    BY <1>6, Opened DEF Claim, Claimable, Stale, Unsettled
  <2>2. \A f \in Events: event'[f].st = IF f = e THEN "processing" ELSE event[f].st
    BY <1>6, <2>1, Opened DEF Claim, Event
  <2>3. \A f \in Events: (IF Unsettled(f) THEN "open" ELSE event[f].st)'
                         = IF Unsettled(f) THEN "open" ELSE event[f].st
    BY <2>1, <2>2 DEF Unsettled
  <2>4. CASE contested' = contested
    BY <1>1, <1>6, <2>3, <2>4 DEF Claim
  <2>5. CASE contested' = contested \cup {e}
    <3>1. status' = status /\ status[e] = "open"
      BY <2>1, <2>3
    <3>2. Delivery!TakeOver(e)
      BY <1>6, <2>5, <3>1 DEF Delivery!TakeOver, Claim
    <3> QED BY <3>2 DEF Delivery!DeliveryNext
  <2> QED BY <1>6, <2>4, <2>5 DEF Claim
<1>7. ASSUME NEW w \in Workers, ReadConfig(w) PROVE Delivery!DeliveryNext \/ Stutter
  <2>1. worker[w].cur \in Events /\ Delivery!MayTry(worker[w].cur)
    BY <1>7, InHandMayTry DEF ReadConfig
  <2>2. event' = event /\ tries' = tries /\ received' = received /\ contested' = contested
    BY <1>7 DEF ReadConfig
  <2>3. status' = status
    BY <2>2 DEF Unsettled
  <2>4. CASE excused' = excused
    BY <2>2, <2>3, <2>4
  <2>5. CASE excused' = excused \cup {worker[w].cur}
    BY <2>1, <2>2, <2>3, <2>5 DEF Delivery!Excuse, Delivery!DeliveryNext
  <2> QED BY <1>7, <2>4, <2>5 DEF ReadConfig
<1>8. ASSUME NEW w \in Workers, NEW arrives \in BOOLEAN, NEW ok \in BOOLEAN,
             Deliver(w, arrives, ok)
      PROVE  Delivery!DeliveryNext
  <2>1. worker[w].cur \in Events /\ Delivery!MayTry(worker[w].cur)
    BY <1>8, InHandMayTry DEF Deliver
  <2>2. event' = event /\ excused' = excused /\ contested' = contested
        /\ tries' = [tries EXCEPT ![worker[w].cur] = IF @ < MaxAttempts THEN @ + 1 ELSE @]
    BY <1>8 DEF Deliver
  <2>3. received' \in {received, received \cup {worker[w].cur}}
    <3>1. received' = IF arrives THEN received \cup {worker[w].cur} ELSE received
      BY <1>8 DEF Deliver
    <3>2. received' = received \/ received' = received \cup {worker[w].cur}
      BY <3>1, Zenon
    <3> QED BY <3>2
  <2>4. status' = status
    BY <2>2 DEF Unsettled
  <2>5. Delivery!Try(worker[w].cur)
    BY <2>1, <2>2, <2>3, <2>4 DEF Delivery!Try
  <2> QED BY <2>1, <2>5 DEF Delivery!DeliveryNext
<1>9. ASSUME NEW w \in Workers, Waive(w) PROVE Delivery!DeliveryNext
  <2> DEFINE e == worker[w].cur
  <2>1. worker[w].pc = "waived" /\ e \in Events
    BY <1>9, Opened DEF Waive
  <2>2. event[e].attempts \in 0..MaxAttempts /\ event[e].due \in BOOLEAN /\ e \in excused
    BY <2>1, Opened DEF OutboxIInv, OutcomeOK, Event
  <2>3. CloseEvent(w, "delivered", event[e].attempts, event[e].due)
        /\ UNCHANGED <<tries, received, excused, contested>>
    BY <1>9 DEF Waive
  <2> QED BY <1>2, <2>1, <2>2, <2>3
<1>10. ASSUME NEW w \in Workers, Settle(w) PROVE Delivery!DeliveryNext
  <2> DEFINE e == worker[w].cur
  <2> DEFINE n == worker[w].snap[e] + 1
  <2> DEFINE outcome == IF worker[w].ok THEN "delivered"
                        ELSE IF n >= MaxAttempts THEN "failed" ELSE "pending"
  <2>1. worker[w].pc = "answered" /\ e \in Events /\ e \in worker[w].todo
        /\ CloseEvent(w, outcome, n, FALSE)
        /\ UNCHANGED <<tries, received, excused, contested>>
    BY <1>10, Opened DEF Settle
  <2>2. worker[w].snap[e] < tries[e] /\ worker[w].snap[e] < MaxAttempts
        /\ (worker[w].ok => e \in received)
    BY <2>1 DEF OutboxIInv, OutcomeOK, CountedOK
  <2>3. worker[w].snap[e] \in 0..MaxAttempts /\ tries[e] \in 0..MaxAttempts /\ MaxAttempts \in Nat
    BY <2>1, Opened
  <2>4. n \in 0..MaxAttempts /\ n <= tries[e]
    BY <2>2, <2>3
  <2>5. outcome \in {"pending", "delivered", "failed"}
    BY Zenon
  <2>6. (outcome = "failed" => n >= MaxAttempts) /\ (outcome = "delivered" => worker[w].ok)
    BY Zenon
  <2> HIDE DEF n, outcome
  <2>7. outcome = "failed" => tries[e] = MaxAttempts
    BY <2>3, <2>4, <2>6
  <2> QED BY <1>2, <2>1, <2>2, <2>4, <2>5, <2>6, <2>7
<1>11. ASSUME UNCHANGED <<event, tries, received, excused, contested>> PROVE Stutter
  BY <1>11 DEF Unsettled
<1>12. CASE OutboxNext
  <2> HIDE DEF Stutter
  <2>1. ASSUME NEW w \in Workers, SelectBatch(w) \/ WorkerCrash(w) \/ ReadSecret(w)
                  \/ SecretMissing(w) \/ (\E e \in Events: SkipEvent(w, e))
        PROVE  Stutter
    BY <1>11, <2>1 DEF SelectBatch, WorkerCrash, ReadSecret, SecretMissing, SkipEvent
  <2>2. ASSUME NEW w \in Workers, BatchStep(w) PROVE Delivery!DeliveryNext \/ Stutter
    BY <1>6, <1>7, <1>8, <1>9, <1>10, <2>1, <2>2 DEF BatchStep
  <2> QED BY <1>0, <1>3, <1>4, <1>5, <1>12, <2>1, <2>2 DEF OutboxNext
<1>13. CASE (SettingsNext /\ UNCHANGED outboxVars) \/ UNCHANGED vars
  <2>1. UNCHANGED <<event, tries, received, excused, contested>>
    BY <1>13 DEF vars, outboxVars
  <2> QED BY <1>0, <1>11, <2>1
<1> QED BY <1>12, <1>13 DEF Next

\* The outbox implements at-least-once delivery: an event is closed as delivered only if the
\* endpoint received it or none was configured, is given up only after MaxAttempts tries, and
\* stays closed unless two workers had it at once.
THEOREM OutboxRefinesDelivery == Spec => AtLeastOnce
<1>1. Init => Delivery!DeliveryInit
  BY DEF Init, OutboxInit, Delivery!DeliveryInit, Unsettled
<1>2. OutboxIInv /\ OutboxIInv' /\ [Next]_vars => [Delivery!DeliveryNext]_(Delivery!deliveryVars)
  BY RefinesStep
<1> QED BY <1>1, <1>2, OutboxInvariance, PTL DEF Spec, AtLeastOnce, Delivery!DeliverySpec
=============================================================================
