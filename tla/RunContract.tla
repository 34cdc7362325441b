---------------------------- MODULE RunContract ----------------------------
(***************************************************************************)
(* What a TestRun promises to those who only see its status: it is         *)
(* accepted once; it is open until exactly one of four ends, which lasts;  *)
(* a cancel that was accepted is confirmed and excludes every other end;   *)
(* and success is reported only on a full set of passed results, which do  *)
(* not change under a verdict.  There is no task, no worker, no lock here. *)
(***************************************************************************)
CONSTANTS Runs, Cases

VARIABLES state, result

vars == <<state, result>>

Verdicts == {"succeeded", "failed"}
Ends == Verdicts \cup {"cancelled", "timeout"}

Init ==
  /\ state = [r \in Runs |-> "absent"]
  /\ result = [r \in Runs |-> [c \in Cases |-> "none"]]

(* Results are added; none that was reported changes.                       *)
Adds(r) ==
  /\ \A q \in Runs \ {r} : result'[q] = result[q]
  /\ \A c \in Cases : result[r][c] # "none" => result'[r][c] = result[r][c]

Move(r, from, to) ==
  /\ state[r] \in from
  /\ state' = [state EXCEPT ![r] = to]

Accept(r) == Move(r, {"absent"}, "open") /\ UNCHANGED result
AcceptCancel(r) ==
  /\ Move(r, {"open"}, "stopping") \/ Move(r, {"open"}, "cancelled")
  /\ UNCHANGED result

(* Who executes a run ends it, and may hand in results with the end; who    *)
(* gives it up confirms the stop afterwards, or calls it off at once.       *)
CallOff(r) == Move(r, {"open"}, "cancelled") /\ Adds(r)
Fail(r) == Move(r, {"open"}, "failed") /\ Adds(r)
GiveUp(r) == Move(r, {"open"}, "stopping") /\ Adds(r)
Confirm(r) == Move(r, {"stopping"}, "cancelled") /\ Adds(r)
Succeed(r) ==
  /\ Move(r, {"open"}, "succeeded") /\ Adds(r)
  /\ \A c \in Cases : result'[r][c] = "passed"

(* Results are reported once per case and never under a verdict.            *)
Report(r) ==
  /\ state[r] \notin Verdicts \cup {"absent"}
  /\ Adds(r)
  /\ UNCHANGED state

(* Housekeeping may end several runs at once: those asked to stop are      *)
(* confirmed, open ones are timed out.                                     *)
Housekeep ==
  /\ \A r \in Runs :
       \/ state'[r] = state[r]
       \/ state[r] = "stopping" /\ state'[r] = "cancelled"
       \/ state[r] = "open" /\ state'[r] = "timeout"
  /\ state' = [r \in Runs |-> state'[r]]
  /\ UNCHANGED result

Next ==
  \/ Housekeep
  \/ \E r \in Runs :
       \/ Accept(r) \/ AcceptCancel(r)
       \/ Fail(r) \/ GiveUp(r) \/ CallOff(r) \/ Confirm(r) \/ Succeed(r) \/ Report(r)

Spec == Init /\ [][Next]_vars
=============================================================================
