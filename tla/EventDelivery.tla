--------------------------- MODULE EventDelivery ---------------------------
(***************************************************************************)
(* What the webhook outbox promises about each event, without workers,     *)
(* batches, claims or a clock: at-least-once delivery.  An event is closed *)
(* as delivered only if the endpoint has received it or none was           *)
(* configured while it was open, and given up only after MaxAttempts       *)
(* tries.  A closed event stays closed unless two workers had it at once.  *)
(***************************************************************************)
EXTENDS Naturals

CONSTANTS
  Events,       \* outbox events
  MaxAttempts   \* tries before an event is given up (10 in the code)

VARIABLES
  status,       \* status[e]: "unwritten", "open", "delivered" or "failed"
  tries,        \* tries[e]: deliveries attempted, counted up to MaxAttempts
  received,     \* events the endpoint has received
  excused,      \* events for which no endpoint was configured when they were looked at
  contested     \* events a second worker took over from one thought dead

deliveryVars == <<status, tries, received, excused, contested>>

DeliveryInit ==
  /\ status = [e \in Events |-> "unwritten"]
  /\ tries = [e \in Events |-> 0]
  /\ received = {}
  /\ excused = {}
  /\ contested = {}

Write(e) ==
  /\ status[e] = "unwritten"
  /\ status' = [status EXCEPT ![e] = "open"]
  /\ UNCHANGED <<tries, received, excused, contested>>

MayTry(e) == status[e] = "open" \/ e \in contested

Try(e) ==
  /\ MayTry(e)
  /\ tries' = [tries EXCEPT ![e] = IF @ < MaxAttempts THEN @ + 1 ELSE @]
  /\ received' \in {received, received \cup {e}}
  /\ UNCHANGED <<status, excused, contested>>

Excuse(e) ==
  /\ MayTry(e)
  /\ excused' = excused \cup {e}
  /\ UNCHANGED <<status, tries, received, contested>>

TakeOver(e) ==
  /\ status[e] = "open"
  /\ contested' = contested \cup {e}
  /\ UNCHANGED <<status, tries, received, excused>>

\* Closes the event, or reopens one that a slower worker comes back to.
Close(e, outcome) ==
  /\ MayTry(e)
  /\ outcome = "delivered" => e \in received \cup excused
  /\ outcome = "failed" => tries[e] = MaxAttempts
  /\ status' = [status EXCEPT ![e] = outcome]
  /\ UNCHANGED <<tries, received, excused, contested>>

DeliveryNext ==
  \E e \in Events:
    \/ Write(e)
    \/ Try(e)
    \/ Excuse(e)
    \/ TakeOver(e)
    \/ \E outcome \in {"open", "delivered", "failed"}: Close(e, outcome)

DeliverySpec == DeliveryInit /\ [][DeliveryNext]_deliveryVars
=============================================================================
