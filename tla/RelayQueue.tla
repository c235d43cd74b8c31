----------------------------- MODULE RelayQueue -----------------------------
(***************************************************************************)
(* What the relayer's job queue promises (jobs/store.ts, ARCHITECTURE.md,  *)
(* "Relay Job Queue"): one job for each transaction and destination, which *)
(* is attempted a bounded number of times, ends as done or failed, and     *)
(* stays that way.  It ends as done only after an attempt, as failed only  *)
(* when the attempts are used up.                                          *)
(***************************************************************************)
EXTENDS Naturals

CONSTANTS
  Keys,         \* what there can be a job for
  MAX_ATTEMPTS

VARIABLE queue

None == [state |-> "none", attempts |-> 0]

Set(k, state, attempts) ==
  queue' = [queue EXCEPT ![k] = [state |-> state, attempts |-> attempts]]

Init == queue = [k \in Keys |-> None]

Enqueue(k) ==
  /\ queue[k] = None
  /\ Set(k, "open", 0)

Attempt(k) ==
  /\ queue[k].state = "open"
  /\ queue[k].attempts < MAX_ATTEMPTS
  /\ Set(k, "open", queue[k].attempts + 1)

Finish(k) ==
  /\ queue[k].state = "open"
  /\ queue[k].attempts > 0
  /\ Set(k, "done", queue[k].attempts)

GiveUp(k) ==
  /\ queue[k].state = "open"
  /\ queue[k].attempts = MAX_ATTEMPTS
  /\ Set(k, "failed", queue[k].attempts)

Next == \E k \in Keys : Enqueue(k) \/ Attempt(k) \/ Finish(k) \/ GiveUp(k)

Spec == Init /\ [][Next]_queue
=============================================================================
