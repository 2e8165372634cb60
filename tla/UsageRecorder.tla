---------------------------- MODULE UsageRecorder ----------------------------
(***************************************************************************)
(* How API requests are counted: in a map in memory, which a timer writes  *)
(* to the table of daily totals, and a signal for the last time            *)
(* (apps/api/src/lib/api-usage-recorder.ts, packages/database/src/         *)
(* api-usage.ts, the signal handlers of apps/api/src/index.ts).            *)
(*                                                                         *)
(* The requests are counted one by one here, so that it can be said of     *)
(* each where its count has gone.                                          *)
(***************************************************************************)
EXTENDS Naturals

CONSTANTS
  Counters,     \* an organization's day each
  PerCounter,   \* bound: requests of each
  Flushes,      \* the timer's flushes that may be under way at once
  Signals       \* SIGINT and SIGTERM

ASSUME UsageAssumption == PerCounter \in Nat /\ Flushes \cap Signals = {}

VARIABLES
  up,           \* the process of the API is
  signalled,    \* signals it has been sent: the timer is cleared
  made,         \* requests that were made
  pending,      \* counted in the map
  taken,        \* taken from the map by each flush, a signal's included, and not yet written
  total,        \* how often each request is in the table
  lost,         \* counted nowhere any more
  excused       \* history: a write of it was refused, or it was cut off by an exit that does not
                \* wait for it

usageVars == <<up, signalled, made, pending, taken, total, lost, excused>>

Requests == Counters \X (1..PerCounter)

Takers == Flushes \cup Signals

UsageInit ==
  /\ up = TRUE
  /\ signalled = {} /\ made = {} /\ pending = {} /\ lost = {} /\ excused = {}
  /\ taken = [f \in Takers |-> {}]
  /\ total = [r \in Requests |-> 0]

UsageTypeOK ==
  /\ up \in BOOLEAN
  /\ signalled \subseteq Signals
  /\ made \subseteq Requests /\ pending \subseteq Requests
  /\ lost \subseteq Requests /\ excused \subseteq Requests
  /\ taken \in [Takers -> SUBSET Requests]
  /\ total \in [Requests -> Nat]

UnderWay == UNION {taken[f]: f \in Takers}

InMemory == pending \cup UnderWay

-----------------------------------------------------------------------------
\* record.  Requests are served until the process exits.
Record(r) ==
  /\ up /\ r \notin made
  /\ made' = made \cup {r}
  /\ pending' = pending \cup {r}
  /\ excused' = IF signalled # {} THEN excused \cup {r} ELSE excused
  /\ UNCHANGED <<up, signalled, taken, total, lost>>

\* Mutant: the map is not cleared.
TakesACopy(f) ==
  /\ taken' = [taken EXCEPT ![f] = pending]
  /\ UNCHANGED pending

\* flush: the map is copied and cleared before anything is written.
Takes(f) ==
  /\ taken' = [taken EXCEPT ![f] = pending]
  /\ pending' = {}

\* The timer.  It does not wait for its previous flush.
Flush(f) ==
  /\ up /\ signalled = {} /\ pending # {} /\ taken[f] = {}
  /\ Takes(f)
  /\ UNCHANGED <<up, signalled, made, total, lost, excused>>

Entry(rs, c) == {r \in rs: r[1] = c}

\* addApiUsage adds an entry, or it is reported and given up.
WriteEntry(f, c) ==
  LET rs == Entry(taken[f], c)
  IN /\ rs # {}
     /\ \/ /\ total' = [r \in Requests |-> IF r \in rs THEN total[r] + 1 ELSE total[r]]
           /\ UNCHANGED <<lost, excused>>
        \/ /\ lost' = lost \cup rs /\ excused' = excused \cup rs
           /\ UNCHANGED total
     /\ taken' = [taken EXCEPT ![f] = @ \ rs]
     /\ UNCHANGED <<up, signalled, made, pending>>

\* Mutant: the signal handler forgets the map.
ForgetfulStop(s) ==
  /\ up /\ s \notin signalled
  /\ signalled' = signalled \cup {s}
  /\ excused' = excused \cup UnderWay
  /\ UNCHANGED <<up, made, pending, taken, total, lost>>

\* The first signal of its kind: stop() clears the timer and flushes once more.  It waits for no
\* other flush, that of an earlier signal included.
Stop(s) ==
  /\ up /\ s \notin signalled
  /\ signalled' = signalled \cup {s}
  /\ Takes(s)
  /\ excused' = excused \cup UnderWay
  /\ UNCHANGED <<up, made, total, lost>>

\* What was in memory is gone.
Down ==
  /\ up /\ up' = FALSE
  /\ lost' = lost \cup InMemory
  /\ pending' = {}
  /\ taken' = [f \in Takers |-> {}]
  /\ UNCHANGED <<signalled, made, total>>

\* stop() has come to its end,
Exit(s) ==
  /\ s \in signalled /\ taken[s] = {}
  /\ Down
  /\ UNCHANGED excused

\* or the process dies.
Crash ==
  /\ Down
  /\ excused' = excused \cup InMemory

Boot ==
  /\ ~up /\ up' = TRUE
  /\ signalled' = {}
  /\ UNCHANGED <<made, pending, taken, total, lost, excused>>

UsageNext ==
  \/ \E r \in Requests: Record(r)
  \/ \E f \in Flushes: Flush(f)
  \/ \E f \in Takers, c \in Counters: WriteEntry(f, c)
  \/ \E s \in Signals: Stop(s) \/ Exit(s)
  \/ Crash \/ Boot

-----------------------------------------------------------------------------
\* A request's count is still in memory, or lost, or in the table exactly once, though flushes
\* overlap each other and the last one (api-usage-recorder.ts:32, and the test "a flush never
\* double counts").
CountedOnce == \A r \in made: total[r] = IF r \in InMemory \cup lost THEN 0 ELSE 1

\* A count is lost only when its write was refused, the process crashed, or, at a signal, when
\* it was made after it or was in a flush under way (index.ts:491).
OnlyExcusedAreLost == lost \subseteq excused

\* The strengthening: a count is in one place only, and what the end of one signal's flush does
\* not wait for is excused.
PlacesOK ==
  /\ InMemory \cup lost \subseteq made
  /\ lost \cap InMemory = {}
  /\ \A f \in Takers: taken[f] \cap pending = {}
  /\ \A f, g \in Takers: f # g => taken[f] \cap taken[g] = {}
  /\ \A r \in Requests \ made: total[r] = 0
  /\ \A s \in Signals \ signalled: taken[s] = {}
  /\ \A s \in signalled: InMemory \ taken[s] \subseteq excused
  /\ ~up => InMemory = {}
=============================================================================
