----------------------------- MODULE BlockingCall -----------------------------
(***************************************************************************)
(* What block_on and poll_on promise to their callers, without executors,  *)
(* wakers, locks and devices: a call waits for one condition and returns   *)
(* when it holds, when it is refused at the start, or when its deadline    *)
(* has passed; each condition is returned at most once.  Executor          *)
(* implements it.                                                          *)
(***************************************************************************)
CONSTANTS
  Threads,   \* callers
  Requests,  \* conditions that calls wait for
  None       \* no condition

VARIABLES
  phase,  \* "idle", "starting" or "waiting"
  want,   \* the condition a thread waits for
  late,   \* has the deadline of the thread's call passed?
  cond    \* "unused", "open", "held" or "over"

vars == <<phase, want, late, cond>>

Init ==
  /\ phase = [t \in Threads |-> "idle"]
  /\ want = [t \in Threads |-> None]
  /\ late = [t \in Threads |-> FALSE]
  /\ cond = [r \in Requests |-> "unused"]

Begin(t, r) ==
  /\ phase[t] = "idle" /\ cond[r] = "unused"
  /\ \E p \in {"starting", "waiting"} : phase' = [phase EXCEPT ![t] = p]
  /\ want' = [want EXCEPT ![t] = r]
  /\ \E c \in {"open", "held"} : cond' = [cond EXCEPT ![r] = c]
  /\ UNCHANGED late

Started(t) ==
  /\ phase[t] = "starting"
  /\ phase' = [phase EXCEPT ![t] = "waiting"]
  /\ UNCHANGED <<want, late, cond>>

Leave(t) ==
  /\ phase' = [phase EXCEPT ![t] = "idle"]
  /\ want' = [want EXCEPT ![t] = None]
  /\ late' = [late EXCEPT ![t] = FALSE]

(* The call is refused, or returns what it waited for.                      *)
Finish(t) ==
  /\ phase[t] = "starting" \/ (phase[t] = "waiting" /\ cond[want[t]] = "held")
  /\ cond' = [cond EXCEPT ![want[t]] = "over"]
  /\ Leave(t)

GiveUp(t) ==
  /\ phase[t] = "waiting" /\ late[t]
  /\ Leave(t)
  /\ UNCHANGED cond

Expire(t) ==
  /\ phase[t] # "idle"
  /\ late' = [late EXCEPT ![t] = TRUE]
  /\ UNCHANGED <<phase, want, cond>>

Hold(r) ==
  /\ cond[r] = "open"
  /\ cond' = [cond EXCEPT ![r] = "held"]
  /\ UNCHANGED <<phase, want, late>>

(* A call that waits in two stages goes on to the second one.               *)
NextStage(t) ==
  /\ phase[t] = "waiting" /\ cond[want[t]] = "held"
  /\ cond' = [cond EXCEPT ![want[t]] = "open"]
  /\ UNCHANGED <<phase, want, late>>

Next ==
  \/ \E t \in Threads : Started(t) \/ Finish(t) \/ GiveUp(t) \/ Expire(t) \/ NextStage(t)
  \/ \E t \in Threads, r \in Requests : Begin(t, r)
  \/ \E r \in Requests : Hold(r)

Spec == Init /\ [][Next]_vars
=============================================================================
