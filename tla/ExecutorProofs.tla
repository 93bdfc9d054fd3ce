---------------------------- MODULE ExecutorProofs ----------------------------
(***************************************************************************)
(* Theorems about Executor, for every set of threads, requests and calls.  *)
(***************************************************************************)
EXTENDS Executor, TLAPS

-----------------------------------------------------------------------------
(* The inductive invariant, in parts.                                       *)

(* The owner of the NIC mutex is the worker inside poll_common, and only it *)
(* calls wakers.                                                            *)
LockInv ==
  /\ \A w \in Workers : pc[w] = "stack" <=> lock = w
  /\ pc[NicThread] \in {"netwait", "lock", "stack"}
  /\ towake # None => lock # None

(* network_run has at most one runner; before it locks the NIC its waker is *)
(* not registered, afterwards it is, unless it has been woken again.        *)
TaskInv ==
  /\ NetworkTaskNeverLost
  /\ \A t \in Threads : pc[t] = "run" => task = "running" /\ ~nicwaker
  /\ \A t \in Threads : pc[t] \in {"stack", "ran"} => task = "rerun" \/ (task = "running" /\ nicwaker)
  /\ \A t, u \in Threads :
       pc[t] \in {"run", "stack", "ran"} /\ pc[u] \in {"run", "stack", "ran"} => t = u

(* A thread is in a call exactly while it is between Start and Return.      *)
CallInv ==
  \A t \in Threads :
    /\ pc[t] \in {"idle", "leave"} => call[t] = "none" /\ cur[t] = None
    /\ pc[t] \notin {"idle", "leave"} => cur[t] \in Requests
    /\ pc[t] = "issue" => call[t] \in {"connect", "accept"}
    /\ pc[t] = "accepted" => call[t] = "accept"

(* Two calls never wait for the same request.                               *)
OwnInv ==
  /\ \A t \in Threads : cur[t] # None => sock[cur[t]] # "none"
  /\ \A t, u \in Threads : cur[t] # None /\ cur[t] = cur[u] => t = u

(* Between PollPending and the end of its sleep a thread is registered with *)
(* its socket, or the socket is ready and has set its unparked flag.        *)
RegisteredInv ==
  \A t \in Threads :
    pc[t] \in {"check", "delay", "park", "block", "blocked"} =>
      \/ waker[cur[t]] = t /\ sock[cur[t]] \in Pending
      \/ unparked[t] /\ sock[cur[t]] = "ready"

(* A wakeup after unparked.swap(false) is on its way to the kernel, or the  *)
(* kernel remembers it, or the thread is not blocked any more.              *)
OnTheWayInv ==
  \A t \in Threads :
    /\ pc[t] = "block" /\ unparked[t] => token[t] \/ towake = t
    /\ pc[t] = "blocked" /\ unparked[t] => towake = t

(* SleepIsTimed, from the moment the delay is read.                         *)
TimedInv ==
  \A t \in Threads :
    pc[t] \in {"park", "block", "blocked"} /\ delay[t] = "none" =>
      sock[cur[t]] \in {"wait", "ready"}

(* Only calls of block_on read a delay.  connect and the second half of     *)
(* close never wait for a socket without a timer, so that one of them finds *)
(* no delay only if its socket is ready, and then its flag is set.          *)
UntimedInv ==
  \A t \in Threads :
    /\ pc[t] \notin {"idle", "leave"} => call[t] # "none"
    /\ pc[t] \in {"delay", "park", "block", "blocked"} => call[t] \in BlockOnCalls \cup {"lastack"}
    /\ call[t] \in {"connect", "lastack"} => sock[cur[t]] # "wait"
    /\ pc[t] = "park" /\ delay[t] = "none" =>
         call[t] \in {"accept", "close"} \/ sock[cur[t]] = "ready"
    /\ pc[t] \in {"block", "blocked"} /\ delay[t] = "none" => call[t] \in {"accept", "close"}

(* A socket that nobody has used yet is new, one that accept returns is     *)
(* ready; an answer that waits in the device is for a socket that waits; a  *)
(* deadline belongs to a call.                                              *)
ProgressInv ==
  /\ \A t \in Threads :
       /\ pc[t] = "issue" => sock[cur[t]] = "new"
       /\ pc[t] = "accepted" => sock[cur[t]] = "ready"
       /\ deadline[t] # "none" => cur[t] # None
  /\ \A r \in rx : sock[r] \in {"sent", "retx", "wait"}

-----------------------------------------------------------------------------

(* Every step keeps the types.                                              *)
LEMMA TypeStep == ASSUME TypeOK, [Next]_vars PROVE TypeOK'
<1> USE ConstantsAssumption
    DEF TypeOK, Workers, Pending, Goto, threadVars, notifyVars, taskVars, sockVars, devVars
<1>1. ASSUME NEW t \in Threads, ThreadStep(t) PROVE TypeOK'
  <2>1. CASE Issue(t)         BY <2>1 DEF Issue, NicWake
  <2>2. CASE IssueFails(t)    BY <2>2 DEF IssueFails, NicWake, Return
  <2>3. CASE PollReady(t)
    <3>1. PICK s \in {"flush", "done"} : sock' = [sock EXCEPT ![cur[t]] = s]
      BY <2>3 DEF PollReady, Returned
    <3> QED BY <2>3, <3>1 DEF PollReady, NicWake, Return
  <2>4. CASE PollPending(t)   BY <2>4 DEF PollPending, NicWake
  <2>5. CASE LeavePollOn(t)   BY <2>5 DEF LeavePollOn, LeavePollingMode
  <2>6. CASE AcceptReady(t)   BY <2>6 DEF AcceptReady, NicWake
  <2>7. CASE Accepted(t)
    <3>1. PICK s \in {"done", "keep"} : sock' = [sock EXCEPT ![cur[t]] = s]
      BY <2>7 DEF Accepted
    <3> QED BY <2>7, <3>1 DEF Accepted, Return
  <2>8. CASE CloseLastAck(t)  BY <2>8 DEF CloseLastAck, NicWake
  <2>9. CASE CheckExpired(t)  BY <2>9 DEF CheckExpired, Return
  <2>10. CASE CheckNotExpired(t) BY <2>10 DEF CheckNotExpired
  <2>11. CASE ReadDelay(t)    BY <2>11 DEF ReadDelay, Delays
  <2>12. CASE Park(t)         BY <2>12 DEF Park
  <2>13. CASE Block(t)        BY <2>13 DEF Block
  <2>14. CASE Unpark(t)       BY <2>14 DEF Unpark
  <2>15. CASE RunExecutor(t)  BY <2>15 DEF RunExecutor
  <2>16. CASE NetworkRun(t)   BY <2>16 DEF NetworkRun
  <2>17. CASE RunDone(t)      BY <2>17 DEF RunDone
  <2> QED BY <1>1, <2>1, <2>2, <2>3, <2>4, <2>5, <2>6, <2>7, <2>8, <2>9, <2>10,
             <2>11, <2>12, <2>13, <2>14, <2>15, <2>16, <2>17 DEF ThreadStep
<1>2. ASSUME NEW t \in Threads, NEW r \in Requests, NEW c \in Calls,
             NEW d \in {"none", "armed"}, Start(t, r, c, d)
      PROVE TypeOK'
  BY <1>2 DEF Start, StartStates, PollOnCalls, BlockOnCalls
<1>3. ASSUME NEW t \in Threads, KernelTimeout(t) \/ Expire(t) PROVE TypeOK'
  BY <1>3 DEF KernelTimeout, Expire
<1>4. ASSUME NEW w \in Workers, StackStep(w) PROVE TypeOK'
  <2>1. ASSUME NEW r \in Requests, Emit(w, r) PROVE TypeOK'
    BY <2>1 DEF Emit, Egress
  <2>2. ASSUME NEW r \in Requests, Ingress(w, r) PROVE TypeOK'
    BY <2>2 DEF Ingress, SetUnparked
  <2>3. CASE WakeupTask(w)
    BY <2>3 DEF WakeupTask
  <2>4. CASE LeaveStack(w)
    BY <2>4 DEF LeaveStack
  <2> QED BY <1>4, <2>1, <2>2, <2>3, <2>4 DEF StackStep
<1>5. CASE NetWait \/ NicLock \/ PeerResend
  <2>1. CASE NetWait BY <2>1 DEF NetWait
  <2>2. CASE NicLock BY <2>2 DEF NicLock
  <2>3. CASE PeerResend BY <2>3 DEF PeerResend
  <2> QED BY <1>5, <2>1, <2>2, <2>3
<1>6. ASSUME NEW r \in Requests, PeerAnswer(r) \/ Retransmit(r) PROVE TypeOK'
  BY <1>6 DEF PeerAnswer, Retransmit
<1>7. CASE UNCHANGED vars
  BY <1>7 DEF vars
<1> HIDE DEF TypeOK
<1> QED
  BY <1>1, <1>2, <1>3, <1>4, <1>5, <1>6, <1>7 DEF Next

(* The initial state has the types.                                         *)
LEMMA InitTypes == ASSUME Init PROVE TypeOK
<1>1. pc \in [Workers -> {"idle", "issue", "poll", "check", "delay", "park", "block",
                          "blocked", "unpark", "exec", "run", "stack", "ran", "leave",
                          "accepted", "netwait", "lock"}]
  BY DEF Init
<1>2. sock \in [Requests -> Pending \cup {"none", "new", "ready", "done", "flush", "keep"}]
  BY DEF Init
<1> QED
  BY <1>1, <1>2 DEF Init, TypeOK

(* Type correctness of the whole executor.                                  *)
THEOREM ExecutorTypes == Spec => []TypeOK
<1>1. Init => TypeOK
  BY InitTypes
<1>2. TypeOK /\ [Next]_vars => TypeOK'
  BY TypeStep
<1> QED
  BY <1>1, <1>2, PTL DEF Spec

(* The mutex keeps its one owner, in poll_common.                           *)
LEMMA LockStep == ASSUME TypeOK, LockInv, [Next]_vars
  PROVE LockInv'
<1> USE ConstantsAssumption
    DEF TypeOK, LockInv, Workers, Goto, threadVars, notifyVars, taskVars, sockVars, devVars
<1>1. ASSUME NEW t \in Threads, ThreadStep(t) PROVE LockInv'
  <2>1. CASE NetworkRun(t)
    BY <2>1 DEF NetworkRun
  <2>2. CASE Issue(t) \/ IssueFails(t) \/ PollReady(t) \/ PollPending(t) \/ LeavePollOn(t)
        \/ AcceptReady(t) \/ Accepted(t) \/ CloseLastAck(t) \/ CheckExpired(t)
        \/ CheckNotExpired(t) \/ ReadDelay(t) \/ Park(t) \/ Block(t) \/ Unpark(t)
        \/ RunExecutor(t) \/ RunDone(t)
    BY <2>2 DEF Issue, NicWake, IssueFails, Return, PollReady, Returned, PollPending,
        LeavePollOn, LeavePollingMode, AcceptReady, Accepted, CloseLastAck, CheckExpired,
        CheckNotExpired, ReadDelay, Delays, Egress, Park, Block, Unpark,
        RunExecutor, RunDone
  <2> QED BY <1>1, <2>1, <2>2 DEF ThreadStep
<1>2. ASSUME NEW t \in Threads, NEW r \in Requests, NEW c \in Calls,
             NEW d \in {"none", "armed"}, Start(t, r, c, d)
      PROVE LockInv'
  BY <1>2 DEF Start, StartStates
<1>3. ASSUME NEW w \in Workers, StackStep(w) PROVE LockInv'
  <2>1. ASSUME NEW r \in Requests, Emit(w, r) PROVE LockInv'
    BY <2>1 DEF Emit, InStack, Egress
  <2>2. ASSUME NEW r \in Requests, Ingress(w, r) PROVE LockInv'
    BY <2>2 DEF Ingress, InStack, SetUnparked
  <2>3. CASE WakeupTask(w)
    BY <2>3 DEF WakeupTask
  <2>4. CASE LeaveStack(w)
    BY <2>4 DEF LeaveStack, InStack, Egress
  <2> QED BY <1>3, <2>1, <2>2, <2>3, <2>4 DEF StackStep
<1>4. CASE NetWait \/ NicLock \/ PeerResend \/ UNCHANGED vars
  BY <1>4 DEF NetWait, NicLock, PeerResend, vars
<1>5. ASSUME NEW t \in Threads, KernelTimeout(t) \/ Expire(t) PROVE LockInv'
  BY <1>5 DEF KernelTimeout, Expire
<1>6. ASSUME NEW r \in Requests, PeerAnswer(r) \/ Retransmit(r) PROVE LockInv'
  BY <1>6 DEF PeerAnswer, Retransmit
<1> HIDE DEF LockInv
<1> QED
  BY <1>1, <1>2, <1>3, <1>4, <1>5, <1>6 DEF Next

(* Wakeups, runs and re-runs keep network_run either queued, running or     *)
(* registered with the NIC.                                                 *)
LEMMA TaskStep == ASSUME TypeOK, LockInv, TaskInv, [Next]_vars
  PROVE TaskInv'
<1> USE ConstantsAssumption
    DEF TypeOK, LockInv, TaskInv, NetworkTaskNeverLost, Workers, Goto, threadVars, notifyVars, taskVars, sockVars, devVars
<1>1. ASSUME NEW t \in Threads, ThreadStep(t) PROVE TaskInv'
  <2>1. CASE Issue(t)
    BY <2>1 DEF Issue, NicWake
  <2>2. CASE IssueFails(t)
    BY <2>2 DEF IssueFails, NicWake, Return
  <2>3. CASE PollReady(t)
    BY <2>3 DEF PollReady, NicWake, Return, Returned
  <2>4. CASE PollPending(t)
    BY <2>4 DEF PollPending, NicWake
  <2>5. CASE AcceptReady(t)
    BY <2>5 DEF AcceptReady, NicWake
  <2>6. CASE CloseLastAck(t)
    BY <2>6 DEF CloseLastAck, NicWake
  <2>7. CASE RunExecutor(t)
    BY <2>7 DEF RunExecutor
  <2>8. CASE NetworkRun(t)
    BY <2>8 DEF NetworkRun
  <2>9. CASE RunDone(t)
    BY <2>9 DEF RunDone
  <2>10. CASE LeavePollOn(t) \/ Accepted(t) \/ CheckExpired(t) \/ CheckNotExpired(t)
        \/ ReadDelay(t) \/ Park(t) \/ Block(t) \/ Unpark(t)
    BY <2>10 DEF LeavePollOn, LeavePollingMode, Accepted, Return, CheckExpired,
        CheckNotExpired, ReadDelay, Delays, Egress, Park, Block, Unpark
  <2> QED BY <1>1, <2>1, <2>2, <2>3, <2>4, <2>5, <2>6, <2>7, <2>8, <2>9, <2>10 DEF ThreadStep
<1>2. ASSUME NEW t \in Threads, NEW r \in Requests, NEW c \in Calls,
             NEW d \in {"none", "armed"}, Start(t, r, c, d)
      PROVE TaskInv'
  BY <1>2 DEF Start, StartStates
<1>3. ASSUME NEW w \in Workers, StackStep(w) PROVE TaskInv'
  <2>1. ASSUME NEW r \in Requests, Emit(w, r) PROVE TaskInv'
    BY <2>1 DEF Emit, InStack, Egress
  <2>2. ASSUME NEW r \in Requests, Ingress(w, r) PROVE TaskInv'
    BY <2>2 DEF Ingress, InStack, SetUnparked
  <2>3. CASE WakeupTask(w)
    BY <2>3 DEF WakeupTask
  <2>4. CASE LeaveStack(w)
    BY <2>4 DEF LeaveStack, InStack, Egress
  <2> QED BY <1>3, <2>1, <2>2, <2>3, <2>4 DEF StackStep
<1>4. CASE NetWait \/ NicLock \/ PeerResend \/ UNCHANGED vars
  BY <1>4 DEF NetWait, NicLock, PeerResend, vars
<1>5. ASSUME NEW t \in Threads, KernelTimeout(t) \/ Expire(t) PROVE TaskInv'
  BY <1>5 DEF KernelTimeout, Expire
<1>6. ASSUME NEW r \in Requests, PeerAnswer(r) \/ Retransmit(r) PROVE TaskInv'
  BY <1>6 DEF PeerAnswer, Retransmit
<1> HIDE DEF TaskInv
<1> QED
  BY <1>1, <1>2, <1>3, <1>4, <1>5, <1>6 DEF Next

(* A thread's call and request follow its program counter.                  *)
LEMMA CallStep == ASSUME TypeOK, LockInv, CallInv, [Next]_vars
  PROVE CallInv'
<1> USE ConstantsAssumption
    DEF TypeOK, LockInv, CallInv, Workers, Goto, threadVars, notifyVars, taskVars, sockVars, devVars
<1>1. ASSUME NEW t \in Threads, ThreadStep(t) PROVE CallInv'
  <2>1. CASE IssueFails(t)
    BY <2>1 DEF IssueFails, NicWake, Return
  <2>2. CASE PollReady(t)
    BY <2>2 DEF PollReady, NicWake, Return, Returned
  <2>3. CASE Accepted(t)
    BY <2>3 DEF Accepted, Return
  <2>4. CASE CloseLastAck(t)
    BY <2>4 DEF CloseLastAck, NicWake
  <2>5. CASE CheckExpired(t)
    BY <2>5 DEF CheckExpired, Return
  <2>6. CASE Issue(t) \/ PollPending(t) \/ LeavePollOn(t) \/ AcceptReady(t)
        \/ CheckNotExpired(t) \/ ReadDelay(t) \/ Park(t) \/ Block(t) \/ Unpark(t)
        \/ RunExecutor(t) \/ NetworkRun(t) \/ RunDone(t)
    BY <2>6 DEF Issue, NicWake, PollPending, LeavePollOn, LeavePollingMode, AcceptReady,
        CheckNotExpired, ReadDelay, Delays, Egress, Park, Block, Unpark,
        RunExecutor, NetworkRun, RunDone
  <2> QED BY <1>1, <2>1, <2>2, <2>3, <2>4, <2>5, <2>6 DEF ThreadStep
<1>2. ASSUME NEW t \in Threads, NEW r \in Requests, NEW c \in Calls,
             NEW d \in {"none", "armed"}, Start(t, r, c, d)
      PROVE CallInv'
  BY <1>2 DEF Start, StartStates
<1>3. ASSUME NEW w \in Workers, StackStep(w) PROVE CallInv'
  <2>1. ASSUME NEW r \in Requests, Emit(w, r) PROVE CallInv'
    BY <2>1 DEF Emit, InStack, Egress
  <2>2. ASSUME NEW r \in Requests, Ingress(w, r) PROVE CallInv'
    BY <2>2 DEF Ingress, InStack, SetUnparked
  <2>3. CASE WakeupTask(w)
    BY <2>3 DEF WakeupTask
  <2>4. CASE LeaveStack(w)
    BY <2>4 DEF LeaveStack, InStack, Egress
  <2> QED BY <1>3, <2>1, <2>2, <2>3, <2>4 DEF StackStep
<1>4. CASE NetWait \/ NicLock \/ PeerResend \/ UNCHANGED vars
  BY <1>4 DEF NetWait, NicLock, PeerResend, vars
<1>5. ASSUME NEW t \in Threads, KernelTimeout(t) \/ Expire(t) PROVE CallInv'
  BY <1>5 DEF KernelTimeout, Expire
<1>6. ASSUME NEW r \in Requests, PeerAnswer(r) \/ Retransmit(r) PROVE CallInv'
  BY <1>6 DEF PeerAnswer, Retransmit
<1> HIDE DEF CallInv
<1> QED
  BY <1>1, <1>2, <1>3, <1>4, <1>5, <1>6 DEF Next

(* A request in use is not given to another call.                           *)
LEMMA OwnStep == ASSUME TypeOK, CallInv, OwnInv, [Next]_vars
  PROVE OwnInv'
<1> USE ConstantsAssumption
    DEF TypeOK, CallInv, OwnInv, Workers, Goto, threadVars, notifyVars, taskVars, sockVars, devVars
<1>1. ASSUME NEW t \in Threads, ThreadStep(t) PROVE OwnInv'
  <2>1. CASE Issue(t)
    BY <2>1 DEF Issue, NicWake
  <2>2. CASE IssueFails(t)
    BY <2>2 DEF IssueFails, NicWake, Return
  <2>3. CASE PollReady(t)
    BY <2>3 DEF PollReady, NicWake, Return, Returned
  <2>4. CASE Accepted(t)
    BY <2>4 DEF Accepted, Return
  <2>5. CASE CloseLastAck(t)
    BY <2>5 DEF CloseLastAck, NicWake
  <2>6. CASE CheckExpired(t)
    BY <2>6 DEF CheckExpired, Return
  <2>7. CASE PollPending(t) \/ LeavePollOn(t) \/ AcceptReady(t) \/ CheckNotExpired(t)
        \/ ReadDelay(t) \/ Park(t) \/ Block(t) \/ Unpark(t) \/ RunExecutor(t)
        \/ NetworkRun(t) \/ RunDone(t)
    BY <2>7 DEF PollPending, NicWake, LeavePollOn, LeavePollingMode, AcceptReady,
        CheckNotExpired, ReadDelay, Delays, Egress, Park, Block, Unpark,
        RunExecutor, NetworkRun, RunDone
  <2> QED BY <1>1, <2>1, <2>2, <2>3, <2>4, <2>5, <2>6, <2>7 DEF ThreadStep
<1>2. ASSUME NEW t \in Threads, NEW r \in Requests, NEW c \in Calls,
             NEW d \in {"none", "armed"}, Start(t, r, c, d)
      PROVE OwnInv'
  BY <1>2 DEF Start, StartStates
<1>3. ASSUME NEW w \in Workers, StackStep(w) PROVE OwnInv'
  <2>1. ASSUME NEW r \in Requests, Emit(w, r) PROVE OwnInv'
    BY <2>1 DEF Emit, InStack, Egress
  <2>2. ASSUME NEW r \in Requests, Ingress(w, r) PROVE OwnInv'
    BY <2>2 DEF Ingress, InStack, SetUnparked
  <2>3. CASE WakeupTask(w)
    BY <2>3 DEF WakeupTask
  <2>4. CASE LeaveStack(w)
    BY <2>4 DEF LeaveStack, InStack, Egress
  <2> QED BY <1>3, <2>1, <2>2, <2>3, <2>4 DEF StackStep
<1>4. CASE NetWait \/ NicLock \/ PeerResend \/ UNCHANGED vars
  BY <1>4 DEF NetWait, NicLock, PeerResend, vars
<1>5. ASSUME NEW t \in Threads, KernelTimeout(t) \/ Expire(t) PROVE OwnInv'
  BY <1>5 DEF KernelTimeout, Expire
<1>6. ASSUME NEW r \in Requests, PeerAnswer(r) \/ Retransmit(r) PROVE OwnInv'
  BY <1>6 DEF PeerAnswer, Retransmit
<1> HIDE DEF OwnInv
<1> QED
  BY <1>1, <1>2, <1>3, <1>4, <1>5, <1>6 DEF Next

(* Whatever gives a socket something to send also takes and calls the NIC's *)
(* waker; poll_common does not end before everything is emitted.            *)
LEMMA EgressStep == ASSUME TypeOK, EgressScheduled, [Next]_vars
  PROVE EgressScheduled'
<1> USE ConstantsAssumption
    DEF TypeOK, EgressScheduled, Workers, Goto, threadVars, notifyVars, taskVars, sockVars, devVars
<1>1. ASSUME NEW t \in Threads, ThreadStep(t) PROVE EgressScheduled'
  <2>1. CASE Issue(t)
    BY <2>1 DEF Issue, NicWake
  <2>2. CASE PollReady(t)
    BY <2>2 DEF PollReady, NicWake, Return, Returned
  <2>3. CASE CloseLastAck(t)
    BY <2>3 DEF CloseLastAck, NicWake
  <2>4. CASE NetworkRun(t)
    BY <2>4 DEF NetworkRun
  <2>5. CASE IssueFails(t) \/ PollPending(t) \/ LeavePollOn(t) \/ AcceptReady(t)
        \/ Accepted(t) \/ CheckExpired(t) \/ CheckNotExpired(t) \/ ReadDelay(t) \/ Park(t)
        \/ Block(t) \/ Unpark(t) \/ RunExecutor(t) \/ RunDone(t)
    BY <2>5 DEF IssueFails, NicWake, Return, PollPending, LeavePollOn, LeavePollingMode,
        AcceptReady, Accepted, CheckExpired, CheckNotExpired, ReadDelay, Delays, Egress,
        Park, Block, Unpark, RunExecutor, RunDone
  <2> QED BY <1>1, <2>1, <2>2, <2>3, <2>4, <2>5 DEF ThreadStep
<1>2. ASSUME NEW t \in Threads, NEW r \in Requests, NEW c \in Calls,
             NEW d \in {"none", "armed"}, Start(t, r, c, d)
      PROVE EgressScheduled'
  BY <1>2 DEF Start, StartStates
<1>3. ASSUME NEW w \in Workers, StackStep(w) PROVE EgressScheduled'
  <2>1. ASSUME NEW r \in Requests, Emit(w, r) PROVE EgressScheduled'
    BY <2>1 DEF Emit, InStack, Egress
  <2>2. ASSUME NEW r \in Requests, Ingress(w, r) PROVE EgressScheduled'
    BY <2>2 DEF Ingress, InStack, SetUnparked
  <2>3. CASE WakeupTask(w)
    BY <2>3 DEF WakeupTask
  <2>4. CASE LeaveStack(w)
    BY <2>4 DEF LeaveStack, InStack, Egress
  <2> QED BY <1>3, <2>1, <2>2, <2>3, <2>4 DEF StackStep
<1>4. CASE NetWait \/ NicLock \/ PeerResend \/ UNCHANGED vars
  BY <1>4 DEF NetWait, NicLock, PeerResend, vars
<1>5. ASSUME NEW t \in Threads, KernelTimeout(t) \/ Expire(t) PROVE EgressScheduled'
  BY <1>5 DEF KernelTimeout, Expire
<1>6. ASSUME NEW r \in Requests, PeerAnswer(r) \/ Retransmit(r) PROVE EgressScheduled'
  BY <1>6 DEF PeerAnswer, Retransmit
<1> HIDE DEF EgressScheduled
<1> QED
  BY <1>1, <1>2, <1>3, <1>4, <1>5, <1>6 DEF Next

(* A thread that leaves poll_on has switched the polling mode off.          *)
LEMMA PollingStep == ASSUME TypeOK, CallInv, PollingModeOwned, [Next]_vars
  PROVE PollingModeOwned'
<1> USE ConstantsAssumption
    DEF TypeOK, CallInv, PollingModeOwned, PollOnCalls, Workers, Goto, threadVars, notifyVars, taskVars, sockVars, devVars
<1>1. ASSUME NEW t \in Threads, ThreadStep(t) PROVE PollingModeOwned'
  <2>1. CASE Issue(t)
    BY <2>1 DEF Issue, NicWake
  <2>2. CASE IssueFails(t)
    BY <2>2 DEF IssueFails, NicWake, Return
  <2>3. CASE PollReady(t)
    BY <2>3 DEF PollReady, NicWake, Return, Returned
  <2>4. CASE PollPending(t)
    BY <2>4 DEF PollPending, NicWake
  <2>5. CASE AcceptReady(t)
    BY <2>5 DEF AcceptReady, NicWake
  <2>6. CASE Accepted(t)
    BY <2>6 DEF Accepted, Return
  <2>7. CASE LeavePollOn(t)
    BY <2>7 DEF LeavePollOn, LeavePollingMode
  <2>8. CASE CloseLastAck(t)
    BY <2>8 DEF CloseLastAck, NicWake
  <2>9. CASE CheckExpired(t)
    BY <2>9 DEF CheckExpired, Return
  <2>10. CASE ReadDelay(t)
    BY <2>10 DEF ReadDelay, Delays, Egress
  <2>11. CASE Park(t)
    BY <2>11 DEF Park
  <2>12. CASE CheckNotExpired(t) \/ Block(t) \/ Unpark(t) \/ RunExecutor(t)
        \/ NetworkRun(t) \/ RunDone(t)
    BY <2>12 DEF CheckNotExpired, Block, Unpark, RunExecutor, NetworkRun, RunDone
  <2> QED BY <1>1, <2>1, <2>2, <2>3, <2>4, <2>5, <2>6, <2>7, <2>8, <2>9, <2>10, <2>11, <2>12 DEF ThreadStep
<1>2. ASSUME NEW t \in Threads, NEW r \in Requests, NEW c \in Calls,
             NEW d \in {"none", "armed"}, Start(t, r, c, d)
      PROVE PollingModeOwned'
  BY <1>2 DEF Start, StartStates
<1>3. ASSUME NEW w \in Workers, StackStep(w) PROVE PollingModeOwned'
  <2>1. ASSUME NEW r \in Requests, Emit(w, r) PROVE PollingModeOwned'
    BY <2>1 DEF Emit, InStack, Egress
  <2>2. ASSUME NEW r \in Requests, Ingress(w, r) PROVE PollingModeOwned'
    BY <2>2 DEF Ingress, InStack, SetUnparked
  <2>3. CASE WakeupTask(w)
    BY <2>3 DEF WakeupTask
  <2>4. CASE LeaveStack(w)
    BY <2>4 DEF LeaveStack, InStack, Egress
  <2> QED BY <1>3, <2>1, <2>2, <2>3, <2>4 DEF StackStep
<1>4. CASE NetWait \/ NicLock \/ PeerResend \/ UNCHANGED vars
  BY <1>4 DEF NetWait, NicLock, PeerResend, vars
<1>5. ASSUME NEW t \in Threads, KernelTimeout(t) \/ Expire(t) PROVE PollingModeOwned'
  BY <1>5 DEF KernelTimeout, Expire
<1>6. ASSUME NEW r \in Requests, PeerAnswer(r) \/ Retransmit(r) PROVE PollingModeOwned'
  BY <1>6 DEF PeerAnswer, Retransmit
<1> HIDE DEF PollingModeOwned
<1> QED
  BY <1>1, <1>2, <1>3, <1>4, <1>5, <1>6 DEF Next

(* No step of any thread, of the stack or of the peer takes the waker of a  *)
(* waiting thread without setting its unparked flag.                        *)
LEMMA RegisteredStep == ASSUME TypeOK, LockInv, CallInv, OwnInv, RegisteredInv, [Next]_vars
  PROVE RegisteredInv'
<1> USE ConstantsAssumption
    DEF TypeOK, CallInv, OwnInv, RegisteredInv, Pending, Workers, Goto, threadVars, notifyVars, taskVars, sockVars, devVars
<1>1. ASSUME NEW t \in Threads, ThreadStep(t) PROVE RegisteredInv'
  <2>1. CASE Issue(t)
    BY <2>1 DEF Issue, NicWake
  <2>2. CASE IssueFails(t)
    BY <2>2 DEF IssueFails, NicWake, Return
  <2>3. CASE PollReady(t)
    BY <2>3 DEF PollReady, NicWake, Return, Returned
  <2>4. CASE PollPending(t)
    BY <2>4 DEF PollPending, NicWake
  <2>5. CASE Accepted(t)
    BY <2>5 DEF Accepted, Return
  <2>6. CASE CloseLastAck(t)
    BY <2>6 DEF CloseLastAck, NicWake
  <2>7. CASE Park(t)
    BY <2>7 DEF Park
  <2>8. CASE LeavePollOn(t) \/ AcceptReady(t) \/ CheckExpired(t) \/ CheckNotExpired(t)
        \/ ReadDelay(t) \/ Block(t) \/ Unpark(t) \/ RunExecutor(t) \/ NetworkRun(t)
        \/ RunDone(t)
    BY <2>8 DEF LeavePollOn, LeavePollingMode, AcceptReady, NicWake, CheckExpired, Return,
        CheckNotExpired, ReadDelay, Delays, Egress, Block, Unpark, RunExecutor, NetworkRun,
        RunDone
  <2> QED BY <1>1, <2>1, <2>2, <2>3, <2>4, <2>5, <2>6, <2>7, <2>8 DEF ThreadStep
<1>2. ASSUME NEW t \in Threads, NEW r \in Requests, NEW c \in Calls,
             NEW d \in {"none", "armed"}, Start(t, r, c, d)
      PROVE RegisteredInv'
  BY <1>2 DEF Start, StartStates
<1>3. ASSUME NEW w \in Workers, StackStep(w) PROVE RegisteredInv'
  <2>1. ASSUME NEW r \in Requests, Emit(w, r) PROVE RegisteredInv'
    BY <2>1 DEF Emit, InStack, Egress
  <2>2. ASSUME NEW r \in Requests, Ingress(w, r) PROVE RegisteredInv'
    BY <2>2 DEF Ingress, InStack, SetUnparked
  <2>3. CASE WakeupTask(w)
    BY <2>3 DEF WakeupTask
  <2>4. CASE LeaveStack(w)
    BY <2>4 DEF LeaveStack, InStack, Egress
  <2> QED BY <1>3, <2>1, <2>2, <2>3, <2>4 DEF StackStep
<1>4. CASE NetWait \/ NicLock \/ PeerResend \/ UNCHANGED vars
  BY <1>4 DEF NetWait, NicLock, PeerResend, vars
<1>5. ASSUME NEW t \in Threads, KernelTimeout(t) \/ Expire(t) PROVE RegisteredInv'
  BY <1>5 DEF KernelTimeout, Expire
<1>6. ASSUME NEW r \in Requests, PeerAnswer(r) \/ Retransmit(r) PROVE RegisteredInv'
  BY <1>6 DEF PeerAnswer, Retransmit
<1> HIDE DEF RegisteredInv
<1> QED
  BY <1>1, <1>2, <1>3, <1>4, <1>5, <1>6 DEF Next

(* With a kernel that remembers wakeups, none is lost between the swap and  *)
(* the block.                                                               *)
LEMMA OnTheWayStep == ASSUME StickyWakeup, TypeOK, LockInv, OnTheWayInv, [Next]_vars
  PROVE OnTheWayInv'
<1> USE ConstantsAssumption
    DEF TypeOK, LockInv, OnTheWayInv, Workers, Goto, threadVars, notifyVars, taskVars, sockVars, devVars
<1>1. ASSUME NEW t \in Threads, ThreadStep(t) PROVE OnTheWayInv'
  <2>1. CASE Park(t)
    BY <2>1 DEF Park
  <2>2. CASE Block(t)
    BY <2>2 DEF Block
  <2>3. CASE Issue(t) \/ IssueFails(t) \/ PollReady(t) \/ PollPending(t) \/ LeavePollOn(t)
        \/ AcceptReady(t) \/ Accepted(t) \/ CloseLastAck(t) \/ CheckExpired(t)
        \/ CheckNotExpired(t) \/ ReadDelay(t) \/ Unpark(t) \/ RunExecutor(t)
        \/ NetworkRun(t) \/ RunDone(t)
    BY <2>3 DEF Issue, NicWake, IssueFails, Return, PollReady, Returned, PollPending,
        LeavePollOn, LeavePollingMode, AcceptReady, Accepted, CloseLastAck, CheckExpired,
        CheckNotExpired, ReadDelay, Delays, Egress, Unpark, RunExecutor, NetworkRun, RunDone
  <2> QED BY <1>1, <2>1, <2>2, <2>3 DEF ThreadStep
<1>2. ASSUME NEW t \in Threads, NEW r \in Requests, NEW c \in Calls,
             NEW d \in {"none", "armed"}, Start(t, r, c, d)
      PROVE OnTheWayInv'
  BY <1>2 DEF Start, StartStates
<1>3. ASSUME NEW w \in Workers, StackStep(w) PROVE OnTheWayInv'
  <2>1. ASSUME NEW r \in Requests, Emit(w, r) PROVE OnTheWayInv'
    BY <2>1 DEF Emit, InStack, Egress
  <2>2. ASSUME NEW r \in Requests, Ingress(w, r) PROVE OnTheWayInv'
    BY <2>2 DEF Ingress, InStack, SetUnparked
  <2>3. CASE WakeupTask(w)
    BY <2>3 DEF WakeupTask
  <2>4. CASE LeaveStack(w)
    BY <2>4 DEF LeaveStack, InStack, Egress
  <2> QED BY <1>3, <2>1, <2>2, <2>3, <2>4 DEF StackStep
<1>4. CASE NetWait \/ NicLock \/ PeerResend \/ UNCHANGED vars
  BY <1>4 DEF NetWait, NicLock, PeerResend, vars
<1>5. ASSUME NEW t \in Threads, KernelTimeout(t) \/ Expire(t) PROVE OnTheWayInv'
  BY <1>5 DEF KernelTimeout, Expire
<1>6. ASSUME NEW r \in Requests, PeerAnswer(r) \/ Retransmit(r) PROVE OnTheWayInv'
  BY <1>6 DEF PeerAnswer, Retransmit
<1> HIDE DEF OnTheWayInv
<1> QED
  BY <1>1, <1>2, <1>3, <1>4, <1>5, <1>6 DEF Next

(* A socket that needs no timer when the delay is read needs none before it *)
(* is ready.                                                                *)
LEMMA TimedStep == ASSUME TypeOK, CallInv, OwnInv, RegisteredInv, TimedInv, [Next]_vars
  PROVE TimedInv'
<1> USE ConstantsAssumption
    DEF TypeOK, CallInv, OwnInv, RegisteredInv, TimedInv, Pending, Workers, Goto, threadVars, notifyVars, taskVars, sockVars, devVars
<1>1. ASSUME NEW t \in Threads, ThreadStep(t) PROVE TimedInv'
  <2>1. CASE Issue(t)
    BY <2>1 DEF Issue, NicWake
  <2>2. CASE IssueFails(t)
    BY <2>2 DEF IssueFails, NicWake, Return
  <2>3. CASE PollReady(t)
    BY <2>3 DEF PollReady, NicWake, Return, Returned
  <2>4. CASE Accepted(t)
    BY <2>4 DEF Accepted, Return
  <2>5. CASE CloseLastAck(t)
    BY <2>5 DEF CloseLastAck, NicWake
  <2>6. CASE ReadDelay(t)
    BY <2>6 DEF ReadDelay, Delays, Egress
  <2>7. CASE PollPending(t) \/ LeavePollOn(t) \/ AcceptReady(t) \/ CheckExpired(t)
        \/ CheckNotExpired(t) \/ Park(t) \/ Block(t) \/ Unpark(t) \/ RunExecutor(t)
        \/ NetworkRun(t) \/ RunDone(t)
    BY <2>7 DEF PollPending, NicWake, LeavePollOn, LeavePollingMode, AcceptReady,
        CheckExpired, Return, CheckNotExpired, Park, Block, Unpark, RunExecutor,
        NetworkRun, RunDone
  <2> QED BY <1>1, <2>1, <2>2, <2>3, <2>4, <2>5, <2>6, <2>7 DEF ThreadStep
<1>2. ASSUME NEW t \in Threads, NEW r \in Requests, NEW c \in Calls,
             NEW d \in {"none", "armed"}, Start(t, r, c, d)
      PROVE TimedInv'
  BY <1>2 DEF Start, StartStates
<1>3. ASSUME NEW w \in Workers, StackStep(w) PROVE TimedInv'
  <2>1. ASSUME NEW r \in Requests, Emit(w, r) PROVE TimedInv'
    BY <2>1 DEF Emit, InStack, Egress
  <2>2. ASSUME NEW r \in Requests, Ingress(w, r) PROVE TimedInv'
    BY <2>2 DEF Ingress, InStack, SetUnparked
  <2>3. CASE WakeupTask(w)
    BY <2>3 DEF WakeupTask
  <2>4. CASE LeaveStack(w)
    BY <2>4 DEF LeaveStack, InStack, Egress
  <2> QED BY <1>3, <2>1, <2>2, <2>3, <2>4 DEF StackStep
<1>4. CASE NetWait \/ NicLock \/ PeerResend \/ UNCHANGED vars
  BY <1>4 DEF NetWait, NicLock, PeerResend, vars
<1>5. ASSUME NEW t \in Threads, KernelTimeout(t) \/ Expire(t) PROVE TimedInv'
  BY <1>5 DEF KernelTimeout, Expire
<1>6. ASSUME NEW r \in Requests, PeerAnswer(r) \/ Retransmit(r) PROVE TimedInv'
  BY <1>6 DEF PeerAnswer, Retransmit
<1> HIDE DEF TimedInv
<1> QED
  BY <1>1, <1>2, <1>3, <1>4, <1>5, <1>6 DEF Next

(* connect and LastAck begin with a segment to emit, which then has a timer *)
(* until it is answered.                                                    *)
LEMMA UntimedStep == ASSUME TypeOK, LockInv, CallInv, OwnInv, RegisteredInv, UntimedInv, [Next]_vars
  PROVE UntimedInv'
<1> USE ConstantsAssumption
    DEF TypeOK, LockInv, CallInv, OwnInv, RegisteredInv, UntimedInv, BlockOnCalls, PollOnCalls, Pending,
         Workers, Goto, threadVars, notifyVars, taskVars, sockVars, devVars
<1>1. ASSUME NEW t \in Threads, ThreadStep(t) PROVE UntimedInv'
  <2>1. CASE Issue(t)
    BY <2>1 DEF Issue, NicWake
  <2>2. CASE IssueFails(t)
    BY <2>2 DEF IssueFails, NicWake, Return
  <2>3. CASE PollReady(t)
    BY <2>3 DEF PollReady, NicWake, Return, Returned
  <2>4. CASE Accepted(t)
    BY <2>4 DEF Accepted, Return
  <2>5. CASE CloseLastAck(t)
    BY <2>5 DEF CloseLastAck, NicWake
  <2>6. CASE ReadDelay(t)
    BY <2>6 DEF ReadDelay, Delays, Egress
  <2>7. CASE Park(t)
    BY <2>7 DEF Park
  <2>8. CASE CheckNotExpired(t)
    BY <2>8 DEF CheckNotExpired
  <2>9. CASE CheckExpired(t)
    BY <2>9 DEF CheckExpired, Return
  <2>10. CASE PollPending(t) \/ LeavePollOn(t) \/ AcceptReady(t) \/ Block(t) \/ Unpark(t)
        \/ RunExecutor(t) \/ NetworkRun(t) \/ RunDone(t)
    BY <2>10 DEF PollPending, NicWake, LeavePollOn, LeavePollingMode, AcceptReady,
        Block, Unpark, RunExecutor, NetworkRun, RunDone
  <2> QED BY <1>1, <2>1, <2>2, <2>3, <2>4, <2>5, <2>6, <2>7, <2>8, <2>9, <2>10 DEF ThreadStep
<1>2. ASSUME NEW t \in Threads, NEW r \in Requests, NEW c \in Calls,
             NEW d \in {"none", "armed"}, Start(t, r, c, d)
      PROVE UntimedInv'
  BY <1>2 DEF Start, StartStates
<1>3. ASSUME NEW w \in Workers, StackStep(w) PROVE UntimedInv'
  <2>1. ASSUME NEW r \in Requests, Emit(w, r) PROVE UntimedInv'
    BY <2>1 DEF Emit, InStack, Egress
  <2>2. ASSUME NEW r \in Requests, Ingress(w, r) PROVE UntimedInv'
    BY <2>2 DEF Ingress, InStack, SetUnparked
  <2>3. CASE WakeupTask(w)
    BY <2>3 DEF WakeupTask
  <2>4. CASE LeaveStack(w)
    BY <2>4 DEF LeaveStack, InStack, Egress
  <2> QED BY <1>3, <2>1, <2>2, <2>3, <2>4 DEF StackStep
<1>4. CASE NetWait \/ NicLock \/ PeerResend \/ UNCHANGED vars
  BY <1>4 DEF NetWait, NicLock, PeerResend, vars
<1>5. ASSUME NEW t \in Threads, KernelTimeout(t) \/ Expire(t) PROVE UntimedInv'
  BY <1>5 DEF KernelTimeout, Expire
<1>6. ASSUME NEW r \in Requests, PeerAnswer(r) \/ Retransmit(r) PROVE UntimedInv'
  BY <1>6 DEF PeerAnswer, Retransmit
<1> HIDE DEF UntimedInv
<1> QED
  BY <1>1, <1>2, <1>3, <1>4, <1>5, <1>6 DEF Next

(* A socket changes only through the call that owns it, through its timer   *)
(* or through an answer that it waits for.                                  *)
LEMMA ProgressStep == ASSUME TypeOK, LockInv, CallInv, OwnInv, ProgressInv, [Next]_vars
  PROVE ProgressInv'
<1> USE ConstantsAssumption
    DEF TypeOK, LockInv, CallInv, OwnInv, ProgressInv, Workers, Goto, threadVars, notifyVars, taskVars, sockVars, devVars
<1>1. ASSUME NEW t \in Threads, ThreadStep(t) PROVE ProgressInv'
  <2>1. CASE Issue(t)
    BY <2>1 DEF Issue, NicWake
  <2>2. CASE IssueFails(t)
    BY <2>2 DEF IssueFails, NicWake, Return
  <2>3. CASE PollReady(t)
    BY <2>3 DEF PollReady, NicWake, Return, Returned
  <2>4. CASE PollPending(t)
    BY <2>4 DEF PollPending, NicWake
  <2>5. CASE LeavePollOn(t)
    BY <2>5 DEF LeavePollOn, LeavePollingMode
  <2>6. CASE AcceptReady(t)
    BY <2>6 DEF AcceptReady, NicWake
  <2>7. CASE Accepted(t)
    BY <2>7 DEF Accepted, Return
  <2>8. CASE CloseLastAck(t)
    BY <2>8 DEF CloseLastAck, NicWake
  <2>9. CASE CheckExpired(t)
    BY <2>9 DEF CheckExpired, Return
  <2>10. CASE CheckNotExpired(t) \/ ReadDelay(t) \/ Park(t) \/ Block(t) \/ Unpark(t)
        \/ RunExecutor(t) \/ NetworkRun(t) \/ RunDone(t)
    BY <2>10 DEF CheckNotExpired, ReadDelay, Park, Block, Unpark, RunExecutor, NetworkRun, RunDone
  <2> QED BY <1>1, <2>1, <2>2, <2>3, <2>4, <2>5, <2>6, <2>7, <2>8, <2>9, <2>10 DEF ThreadStep
<1>2. ASSUME NEW t \in Threads, NEW r \in Requests, NEW c \in Calls,
             NEW d \in {"none", "armed"}, Start(t, r, c, d)
      PROVE ProgressInv'
  BY <1>2 DEF Start, StartStates
<1>3. ASSUME NEW w \in Workers, StackStep(w) PROVE ProgressInv'
  <2>1. ASSUME NEW r \in Requests, Emit(w, r) PROVE ProgressInv'
    BY <2>1 DEF Emit, InStack, Egress
  <2>2. ASSUME NEW r \in Requests, Ingress(w, r) PROVE ProgressInv'
    BY <2>2 DEF Ingress, InStack, SetUnparked
  <2>3. CASE WakeupTask(w)
    BY <2>3 DEF WakeupTask
  <2>4. CASE LeaveStack(w)
    BY <2>4 DEF LeaveStack, InStack
  <2> QED BY <1>3, <2>1, <2>2, <2>3, <2>4 DEF StackStep
<1>4. CASE NetWait \/ NicLock \/ PeerResend \/ UNCHANGED vars
  BY <1>4 DEF NetWait, NicLock, PeerResend, vars
<1>5. ASSUME NEW t \in Threads, KernelTimeout(t) \/ Expire(t) PROVE ProgressInv'
  BY <1>5 DEF KernelTimeout, Expire
<1>6. ASSUME NEW r \in Requests, PeerAnswer(r) \/ Retransmit(r) PROVE ProgressInv'
  BY <1>6 DEF PeerAnswer, Retransmit
<1> HIDE DEF ProgressInv
<1> QED
  BY <1>1, <1>2, <1>3, <1>4, <1>5, <1>6 DEF Next

-----------------------------------------------------------------------------
(* What holds whatever the kernel does with early wakeups.                  *)
Inv ==
  /\ TypeOK /\ LockInv /\ TaskInv /\ CallInv /\ OwnInv
  /\ EgressScheduled /\ PollingModeOwned /\ RegisteredInv /\ TimedInv
  /\ UntimedInv /\ ProgressInv

(* Inv is an invariant of the executor.                                     *)
THEOREM ExecutorInvariant == Spec => []Inv
<1>1. Init => Inv
  <2> SUFFICES ASSUME Init PROVE Inv
    OBVIOUS
  <2>1. TypeOK
    BY InitTypes
  <2>2. LockInv /\ TaskInv /\ CallInv /\ OwnInv
    BY ConstantsAssumption
       DEF Init, LockInv, TaskInv, NetworkTaskNeverLost, CallInv, OwnInv, Workers
  <2>3. EgressScheduled /\ PollingModeOwned /\ RegisteredInv /\ TimedInv
    BY ConstantsAssumption
       DEF Init, EgressScheduled, PollingModeOwned, RegisteredInv, TimedInv, Workers
  <2>4. UntimedInv /\ ProgressInv
    BY ConstantsAssumption DEF Init, UntimedInv, ProgressInv, Workers
  <2> QED BY <2>1, <2>2, <2>3, <2>4 DEF Inv
<1>2. Inv /\ [Next]_vars => Inv'
  <2> SUFFICES ASSUME Inv, [Next]_vars PROVE Inv'
    OBVIOUS
  <2> USE DEF Inv
  <2>1. TypeOK' BY TypeStep
  <2>2. LockInv' BY LockStep
  <2>3. TaskInv' BY TaskStep
  <2>4. CallInv' BY CallStep
  <2>5. OwnInv' BY OwnStep
  <2>6. EgressScheduled' BY EgressStep
  <2>7. PollingModeOwned' BY PollingStep
  <2>8. RegisteredInv' BY RegisteredStep
  <2>9. TimedInv' BY TimedStep
  <2>10. UntimedInv' BY UntimedStep
  <2>11. ProgressInv' BY ProgressStep
  <2> QED BY <2>1, <2>2, <2>3, <2>4, <2>5, <2>6, <2>7, <2>8, <2>9, <2>10, <2>11
<1> QED
  BY <1>1, <1>2, PTL DEF Spec

(* mod.rs 366-375, 408: the one detached network task is never lost.        *)
THEOREM NetworkTaskTheorem == Spec => []NetworkTaskNeverLost
<1>1. Inv => NetworkTaskNeverLost
  BY DEF Inv, TaskInv
<1> QED
  BY <1>1, ExecutorInvariant, PTL

(* mod.rs 185-194: what a call leaves to be sent is always scheduled.       *)
THEOREM EgressTheorem == Spec => []EgressScheduled
<1>1. Inv => EgressScheduled
  BY DEF Inv
<1> QED
  BY <1>1, ExecutorInvariant, PTL

(* executor.rs 95-119: interrupts are off only while a thread polls.        *)
THEOREM PollingTheorem == Spec => []PollingModeOwned
<1>1. Inv => PollingModeOwned
  BY DEF Inv
<1> QED
  BY <1>1, ExecutorInvariant, PTL

(* executor.rs 148-158: who sleeps without a timeout needs no timer.        *)
THEOREM SleepTheorem == Spec => []SleepIsTimed
<1>1. Inv => SleepIsTimed
  BY DEF Inv, TimedInv, SleepIsTimed
<1> QED
  BY <1>1, ExecutorInvariant, PTL

(* executor.rs 156: with either kernel, a wakeup that is forgotten can only *)
(* strand a thread in accept, or in close before its FIN is sent.           *)
THEOREM WakeupTheorem == Spec => []OnlyAcceptAndCloseSleepUntimed
<1>1. Inv => OnlyAcceptAndCloseSleepUntimed
  BY DEF Inv, UntimedInv, OnlyAcceptAndCloseSleepUntimed
<1> QED
  BY <1>1, ExecutorInvariant, PTL

(* executor.rs 75-84, 134-161: with either kernel, a thread that sleeps     *)
(* while the condition of its future holds has been woken by its socket.    *)
THEOREM ReadyTheorem == Spec => []SleeperOnReadyWasWoken
<1>1. Inv => SleeperOnReadyWasWoken
  BY DEF Inv, RegisteredInv, SleeperOnReadyWasWoken, Pending
<1> QED
  BY <1>1, ExecutorInvariant, PTL

(* A kernel that remembers the wakeup of a task that is not blocked yet     *)
(* closes the gap between unparked.swap(false) and the kernel's call.       *)
LEMMA StickyWoken ==
  ASSUME StickyWakeup
  PROVE Spec => [](NoForgottenWakeup /\ NoSleepOnReady)
<1>1. Init => OnTheWayInv
  BY ConstantsAssumption DEF Init, OnTheWayInv, Workers
<1>2. Inv /\ OnTheWayInv /\ [Next]_vars => OnTheWayInv'
  BY OnTheWayStep DEF Inv
<1>3. Inv /\ OnTheWayInv => NoForgottenWakeup /\ NoSleepOnReady
  BY ConstantsAssumption
     DEF Inv, RegisteredInv, OnTheWayInv, NoForgottenWakeup, NoSleepOnReady, Pending
<1> QED
  BY <1>1, <1>2, <1>3, ExecutorInvariant, PTL DEF Spec

-----------------------------------------------------------------------------
(* What a caller sees of a step: the phase of its call, its deadline, and   *)
(* the condition it waits for.                                              *)
LEMMA PhaseKept ==
  ASSUME TypeOK, UNCHANGED cur,
         \A t \in Threads : pc'[t] = "issue" <=> pc[t] = "issue"
  PROVE  CallPhase' = CallPhase
BY DEF CallPhase

LEMMA PhaseMoves ==
  ASSUME TypeOK, NEW t \in Threads, NEW r, NEW l, Goto(t, l), cur' = [cur EXCEPT ![t] = r]
  PROVE  CallPhase' = [CallPhase EXCEPT ![t] = IF r = None THEN "idle"
                                               ELSE IF l = "issue" THEN "starting" ELSE "waiting"]
BY DEF CallPhase, Goto, TypeOK, Workers

(* The condition that a state of the socket stands for.                     *)
CondOf(s) ==
  CASE s = "none" -> "unused"
    [] s \in Pending \cup {"new"} -> "open"
    [] s = "ready" -> "held"
    [] OTHER -> "over"

LEMMA CondValues ==
  /\ CondOf("none") = "unused" /\ CondOf("ready") = "held"
  /\ \A s \in {"new", "tx", "sent", "retx", "wait"} : CondOf(s) = "open"
  /\ \A s \in {"done", "flush", "keep"} : CondOf(s) = "over"
BY DEF CondOf, Pending

LEMMA CondIs == CallCond = [r \in Requests |-> CondOf(sock[r])]
BY DEF CallCond, CondOf

LEMMA CondMoves ==
  ASSUME TypeOK, NEW r \in Requests, NEW s, sock' = [sock EXCEPT ![r] = s]
  PROVE  /\ CallCond' = [CallCond EXCEPT ![r] = CondOf(s)]
         /\ CondOf(s) = CondOf(sock[r]) => CallCond' = CallCond
<1>1. CallCond = [q \in Requests |-> CondOf(sock[q])] /\ CallCond' = [q \in Requests |-> CondOf(sock'[q])]
  BY DEF CallCond, CondOf
<1> QED BY <1>1 DEF TypeOK

(* The end of a call.                                                       *)
LEMMA Leaves ==
  ASSUME TypeOK, NEW t \in Threads, NEW l, Goto(t, l), Return(t)
  PROVE  Caller!Leave(t)
<1>1. CallPhase' = [CallPhase EXCEPT ![t] = "idle"]
  BY PhaseMoves DEF Return
<1>2. CallLate' = [CallLate EXCEPT ![t] = FALSE]
  BY DEF CallLate, Return, TypeOK
<1> QED BY <1>1, <1>2 DEF Caller!Leave, Return

(* The steps that a caller does not see.                                    *)
LEMMA Unseen ==
  ASSUME TypeOK, UNCHANGED <<cur, deadline, sock>>,
         \A t \in Threads : pc'[t] = "issue" <=> pc[t] = "issue"
  PROVE  UNCHANGED Caller!vars
<1>1. CallPhase' = CallPhase
  BY PhaseKept
<1>2. CallLate' = CallLate /\ CallCond' = CallCond
  BY DEF CallLate, CallCond
<1> QED BY <1>1, <1>2 DEF Caller!vars

(* A step of a thread is a step of its call, or none.                       *)
LEMMA ThreadRefines ==
  ASSUME Inv, NEW t \in Threads, ThreadStep(t)
  PROVE  [Caller!Next]_(Caller!vars)
<1> USE DEF Goto
<1>1. TypeOK /\ (pc[t] \notin {"idle", "leave"} => cur[t] \in Requests)
  BY DEF Inv, CallInv
<1>2. CASE Issue(t)
  <2>1. sock[cur[t]] = "new" /\ cur[t] \in Requests /\ CallPhase[t] = "starting"
    BY <1>1, <1>2, ConstantsAssumption DEF Inv, ProgressInv, Issue, CallPhase
  <2>2. CallPhase' = [CallPhase EXCEPT ![t] = "waiting"]
    BY <1>1, <1>2, <2>1, ConstantsAssumption DEF Issue, CallPhase, TypeOK, Workers
  <2>3. UNCHANGED <<cur, CallLate>>
    BY <1>2 DEF Issue, CallLate
  <2>4. UNCHANGED CallCond
    <3>1. PICK s \in {"tx", "wait"} : sock' = [sock EXCEPT ![cur[t]] = s]
      BY <1>2 DEF Issue
    <3>2. CondOf(s) = CondOf(sock[cur[t]])
      BY <2>1, CondValues
    <3> QED BY <1>1, <2>1, <3>1, <3>2, CondMoves
  <2>5. Caller!Started(t)
    BY <2>1, <2>2, <2>3, <2>4 DEF Caller!Started
  <2> QED BY <2>5 DEF Caller!Next
<1>3. ASSUME NEW l, NEW s \in {"done", "flush", "keep"}, Goto(t, l), Return(t), cur[t] \in Requests,
             sock' = [sock EXCEPT ![cur[t]] = s],
             pc[t] = "issue" \/ sock[cur[t]] = "ready"
      PROVE  Caller!Next
  <2>1. Caller!Leave(t)
    BY <1>1, <1>3, Leaves
  <2>2. CallCond' = [CallCond EXCEPT ![cur[t]] = "over"]
    <3>1. CondOf(s) = "over"
      BY CondValues
    <3> QED BY <1>1, <1>3, <3>1, CondMoves
  <2>3. CallPhase[t] = "starting" \/ (CallPhase[t] = "waiting" /\ CallCond[cur[t]] = "held")
    BY <1>3, CondIs, CondValues, ConstantsAssumption DEF CallPhase
  <2>4. Caller!Finish(t)
    BY <2>1, <2>2, <2>3 DEF Caller!Finish
  <2> QED BY <2>4 DEF Caller!Next
<1>4. CASE IssueFails(t)
  BY <1>1, <1>3, <1>4 DEF IssueFails
<1>5. CASE PollReady(t)
  <2>1. PICK s \in {"done", "flush"} : sock' = [sock EXCEPT ![cur[t]] = s]
    BY <1>5 DEF PollReady, Returned
  <2> QED BY <1>1, <1>3, <1>5, <2>1 DEF PollReady
<1>6. CASE Accepted(t)
  <2>1. PICK s \in {"done", "keep"} : sock' = [sock EXCEPT ![cur[t]] = s]
    BY <1>6 DEF Accepted
  <2>2. sock[cur[t]] = "ready"
    BY <1>6 DEF Accepted, Inv, ProgressInv
  <2> QED BY <1>1, <1>3, <1>6, <2>1, <2>2 DEF Accepted
<1>7. CASE CloseLastAck(t)
  <2>1. cur[t] \in Requests /\ CallPhase[t] = "waiting" /\ CallCond[cur[t]] = "held"
    BY <1>1, <1>7, CondIs, CondValues, ConstantsAssumption DEF CloseLastAck, CallPhase
  <2>2. CallCond' = [CallCond EXCEPT ![cur[t]] = "open"]
    <3>1. sock' = [sock EXCEPT ![cur[t]] = "tx"] /\ CondOf("tx") = "open"
      BY <1>7, CondValues DEF CloseLastAck
    <3> QED BY <1>1, <2>1, <3>1, CondMoves
  <2>3. UNCHANGED <<CallPhase, cur, CallLate>>
    BY <1>7 DEF CloseLastAck, CallPhase, CallLate
  <2>4. Caller!NextStage(t)
    BY <2>1, <2>2, <2>3 DEF Caller!NextStage
  <2> QED BY <2>4 DEF Caller!Next
<1>8. CASE CheckExpired(t)
  <2>1. CallPhase[t] = "waiting" /\ CallLate[t]
    BY <1>1, <1>8, ConstantsAssumption DEF CheckExpired, CallPhase, CallLate
  <2>2. Caller!Leave(t)
    BY <1>1, <1>8, Leaves DEF CheckExpired
  <2>3. UNCHANGED CallCond
    BY <1>8 DEF CheckExpired, CallCond, sockVars
  <2>4. Caller!GiveUp(t)
    BY <2>1, <2>2, <2>3 DEF Caller!GiveUp
  <2> QED BY <2>4 DEF Caller!Next
<1>9. CASE PollPending(t) \/ LeavePollOn(t) \/ AcceptReady(t) \/ CheckNotExpired(t)
        \/ ReadDelay(t) \/ Park(t) \/ Block(t) \/ Unpark(t) \/ RunExecutor(t)
        \/ NetworkRun(t) \/ RunDone(t)
  <2>1. UNCHANGED <<cur, deadline, sock>>
    BY <1>9 DEF PollPending, LeavePollOn, AcceptReady, CheckNotExpired, ReadDelay, Park, Block,
        Unpark, RunExecutor, NetworkRun, RunDone, sockVars
  <2>2. \A u \in Threads : pc'[u] = "issue" <=> pc[u] = "issue"
    BY <1>1, <1>9 DEF PollPending, LeavePollOn, AcceptReady, CheckNotExpired, ReadDelay, Park, Block,
        Unpark, RunExecutor, NetworkRun, RunDone, TypeOK, Workers
  <2> QED BY <1>1, <2>1, <2>2, Unseen
<1> QED BY <1>2, <1>4, <1>5, <1>6, <1>7, <1>8, <1>9 DEF ThreadStep

(* A call begins.                                                           *)
LEMMA StartRefines ==
  ASSUME Inv, NEW t \in Threads, NEW r \in Requests, NEW c \in Calls, NEW d \in {"none", "armed"},
         Start(t, r, c, d)
  PROVE  Caller!Next
<1>1. TypeOK /\ cur[t] = None /\ deadline[t] = "none"
  BY DEF Inv, CallInv, ProgressInv, TypeOK, Start
<1>2. CallPhase[t] = "idle" /\ CallCond[r] = "unused"
  BY <1>1, CondIs, CondValues DEF CallPhase, Start
<1>3. \E p \in {"starting", "waiting"} : CallPhase' = [CallPhase EXCEPT ![t] = p]
  BY <1>1, PhaseMoves, ConstantsAssumption DEF Start
<1>4. PICK s \in {"new", "wait", "ready", "sent", "retx"} : sock' = [sock EXCEPT ![r] = s]
  BY DEF Start, StartStates
<1>5. CallCond' = [CallCond EXCEPT ![r] = CondOf(s)] /\ CondOf(s) \in {"open", "held"}
  BY <1>1, <1>4, CondMoves, CondValues
<1>6. CallLate' = CallLate
  BY <1>1 DEF Start, CallLate, TypeOK
<1>7. Caller!Begin(t, r)
  BY <1>2, <1>3, <1>5, <1>6 DEF Caller!Begin, Start
<1> QED BY <1>7 DEF Caller!Next

(* poll_common, the peer and the clock.                                     *)
LEMMA StackRefines ==
  ASSUME Inv,
         \/ \E w \in Workers : StackStep(w)
         \/ NetWait \/ NicLock \/ PeerResend
         \/ \E r \in Requests : PeerAnswer(r) \/ Retransmit(r)
         \/ \E t \in Threads : KernelTimeout(t) \/ Expire(t)
  PROVE  [Caller!Next]_(Caller!vars)
<1> USE DEF Goto
<1>1. TypeOK
  BY DEF Inv
<1>2. ASSUME NEW w \in Workers, NEW r \in Requests, Emit(w, r) PROVE UNCHANGED Caller!vars
  <2>1. PICK s \in {"done", "sent"} : sock' = [sock EXCEPT ![r] = s] /\ CondOf(s) = CondOf(sock[r])
    BY <1>1, <1>2, CondValues DEF Emit, Egress
  <2>2. UNCHANGED <<cur, CallPhase, CallLate>>
    BY <1>2 DEF Emit, threadVars, CallPhase, CallLate
  <2> QED BY <1>1, <2>1, <2>2, CondMoves DEF Caller!vars
<1>3. ASSUME NEW w \in Workers, NEW r \in Requests, Ingress(w, r) PROVE Caller!Next
  <2>1. CallCond[r] = "open"
    BY <1>3, CondIs, CondValues DEF Ingress, Inv, ProgressInv
  <2>2. CallCond' = [CallCond EXCEPT ![r] = "held"]
    <3>1. sock' = [sock EXCEPT ![r] = "ready"] /\ CondOf("ready") = "held"
      BY <1>3, CondValues DEF Ingress
    <3> QED BY <1>1, <3>1, CondMoves
  <2>3. UNCHANGED <<CallPhase, cur, CallLate>>
    BY <1>3 DEF Ingress, threadVars, CallPhase, CallLate
  <2>4. Caller!Hold(r)
    BY <2>1, <2>2, <2>3 DEF Caller!Hold
  <2> QED BY <2>4 DEF Caller!Next
<1>4. ASSUME NEW w \in Workers, WakeupTask(w) \/ LeaveStack(w) PROVE UNCHANGED Caller!vars
  <2>1. UNCHANGED <<cur, deadline, sock>>
    BY <1>4 DEF WakeupTask, LeaveStack, sockVars
  <2>2. \A u \in Threads : pc'[u] = "issue" <=> pc[u] = "issue"
    <3>1. CASE WakeupTask(w)
      BY <1>1, <3>1 DEF WakeupTask, TypeOK, Workers
    <3>2. CASE LeaveStack(w)
      BY <1>1, <3>2 DEF LeaveStack, InStack, TypeOK, Workers
    <3> QED BY <1>4, <3>1, <3>2
  <2> QED BY <1>1, <2>1, <2>2, Unseen
<1>5. CASE NetWait \/ NicLock \/ PeerResend
  <2>1. UNCHANGED <<cur, deadline, sock>>
    BY <1>5 DEF NetWait, NicLock, PeerResend, sockVars, threadVars
  <2>2. \A u \in Threads : pc'[u] = "issue" <=> pc[u] = "issue"
    BY <1>1, <1>5, ConstantsAssumption DEF NetWait, NicLock, PeerResend, TypeOK, Workers, threadVars
  <2> QED BY <1>1, <2>1, <2>2, Unseen
<1>6. ASSUME NEW r \in Requests, PeerAnswer(r) PROVE UNCHANGED Caller!vars
  BY <1>1, <1>6, Unseen DEF PeerAnswer, threadVars
<1>7. ASSUME NEW r \in Requests, Retransmit(r) PROVE UNCHANGED Caller!vars
  <2>1. CallCond' = CallCond
    <3>1. sock' = [sock EXCEPT ![r] = "retx"] /\ CondOf("retx") = CondOf(sock[r])
      BY <1>7, CondValues DEF Retransmit
    <3> QED BY <1>1, <3>1, CondMoves
  <2>2. UNCHANGED <<cur, CallPhase, CallLate>>
    BY <1>7 DEF Retransmit, threadVars, CallPhase, CallLate
  <2> QED BY <2>1, <2>2 DEF Caller!vars
<1>8. ASSUME NEW t \in Threads, KernelTimeout(t) PROVE UNCHANGED Caller!vars
  <2>1. \A u \in Threads : pc'[u] = "issue" <=> pc[u] = "issue"
    BY <1>1, <1>8 DEF KernelTimeout, TypeOK, Workers
  <2> QED BY <1>1, <1>8, <2>1, Unseen DEF KernelTimeout, sockVars
<1>9. ASSUME NEW t \in Threads, Expire(t) PROVE Caller!Next
  <2>1. CallPhase[t] # "idle"
    BY <1>9 DEF Expire, Inv, ProgressInv, CallPhase
  <2>2. CallLate' = [CallLate EXCEPT ![t] = TRUE]
    BY <1>1, <1>9 DEF Expire, CallLate, TypeOK
  <2>3. UNCHANGED <<CallPhase, cur, CallCond>>
    BY <1>9 DEF Expire, CallPhase, CallCond, sockVars
  <2>4. Caller!Expire(t)
    BY <2>1, <2>2, <2>3 DEF Caller!Expire
  <2> QED BY <2>4 DEF Caller!Next
<1> QED BY <1>2, <1>3, <1>4, <1>5, <1>6, <1>7, <1>8, <1>9 DEF StackStep

(* For any number of threads and requests, whatever the kernel does with    *)
(* early wakeups: block_on and poll_on implement BlockingCall.              *)
THEOREM CallerTheorem == Spec => IsBlockingCall
<1>1. Init => Caller!Init
  <2> SUFFICES ASSUME Init PROVE Caller!Init
    OBVIOUS
  <2>1. CallPhase = [t \in Threads |-> "idle"]
    BY DEF Init, CallPhase
  <2>2. CallLate = [t \in Threads |-> FALSE]
    BY DEF Init, CallLate
  <2>3. CallCond = [r \in Requests |-> "unused"]
    BY CondIs, CondValues DEF Init
  <2> QED BY <2>1, <2>2, <2>3 DEF Init, Caller!Init
<1>2. Inv /\ [Next]_vars => [Caller!Next]_(Caller!vars)
  <2>1. ASSUME Inv, Next PROVE [Caller!Next]_(Caller!vars)
    BY <2>1, ThreadRefines, StartRefines, StackRefines DEF Next
  <2>2. UNCHANGED vars => UNCHANGED Caller!vars
    BY DEF vars, threadVars, sockVars, Caller!vars, CallPhase, CallLate, CallCond
  <2> QED BY <2>1, <2>2
<1> QED
  BY <1>1, <1>2, ExecutorInvariant, PTL DEF Spec, IsBlockingCall, Caller!Spec
=============================================================================
