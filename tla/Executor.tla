------------------------------- MODULE Executor -------------------------------
(***************************************************************************)
(* The executor of hermit-sys/src/net/executor.rs and what it drives: the  *)
(* application threads inside block_on and poll_on, the one task of the    *)
(* run queue (network_run), the interrupt-driven nic_thread, the NIC mutex *)
(* and the wakers that connect them (net/mod.rs, net/waker.rs).            *)
(*                                                                         *)
(* One call of an application thread waits for one Request: the condition  *)
(* that its future polls for under the NIC mutex (a connection, a          *)
(* received segment, an empty send queue).  What the socket does about it  *)
(* is abstracted to the state sock[r]:                                     *)
(*   none   no call has used r yet      new    the call has just started   *)
(*   tx     a first segment must be emitted (poll_delay is zero)           *)
(*   sent   emitted, retransmission timer armed                            *)
(*   retx   the timer expired, the segment must be emitted again           *)
(*   wait   nothing to emit, no timer (listen, receive, closed window)     *)
(*   ready  the condition holds         done   a call has returned it      *)
(*   flush  a call has returned it and left a segment to emit              *)
(*   keep   returned by accept, whose set_keep_alive makes a segment due     *)
(*                                                                         *)
(* A step is one access to shared state: a critical section of the NIC     *)
(* mutex that nothing else can observe is one step, poll_common is one     *)
(* step per frame because it wakes threads while it holds the mutex.       *)
(***************************************************************************)
EXTENDS Naturals

CONSTANTS
  Threads,      \* application threads that call block_on and poll_on
  NicThread,    \* the thread nic_thread
  Requests,     \* conditions awaited, one per call, never reused
  Calls,        \* the kinds of calls the threads make
  None,         \* no thread, no request
  StickyWakeup  \* does the kernel remember sys_wakeup_task of a task that
                \* is not blocked?  (external; see the README)

\* Calls that run under poll_on and under block_on (mod.rs 417-440, 519-525).
PollOnCalls == {"read", "write"}
BlockOnCalls == {"connect", "accept", "close"}

ASSUME ConstantsAssumption ==
  /\ NicThread \notin Threads
  /\ None \notin Threads \cup Requests \cup {NicThread}
  /\ Calls \subseteq PollOnCalls \cup BlockOnCalls
  /\ StickyWakeup \in BOOLEAN

Workers == Threads \cup {NicThread}

VARIABLES
  pc,        \* where each worker is
  call,      \* the call a thread is in
  cur,       \* the request that call waits for
  deadline,  \* the caller's timeout: "none", "armed" or "passed"
  delay,     \* the last network_delay a thread read: "none" or "long"
  unparked,  \* ThreadNotify.unparked
  token,     \* a wakeup the (sticky) kernel remembers
  lock,      \* owner of the NIC mutex
  towake,    \* thread for which the owner is about to call sys_wakeup_task
  nicwaker,  \* does NetworkInterface.waker hold network_run's waker?
  task,      \* async_task's state of network_run; "queued" = it is in QUEUE
  sock,      \* state of each request
  waker,     \* the waker stored in the request's socket
  rx,        \* requests whose answer is a frame in the device
  irq,       \* NIC interrupt not yet seen by sys_netwait
  polling    \* network polling mode: no NIC interrupts

threadVars == <<pc, call, cur, deadline, delay>>
notifyVars == <<unparked, token, towake>>
taskVars == <<nicwaker, task>>
sockVars == <<sock, waker, rx>>
devVars == <<irq, polling>>
vars == <<threadVars, notifyVars, lock, taskVars, sockVars, devVars>>

Egress == {"tx", "retx", "flush", "keep"}
Pending == {"tx", "sent", "retx", "wait"}

Goto(w, l) == pc' = [pc EXCEPT ![w] = l]

-----------------------------------------------------------------------------
(* Mutants of NicWake: AsyncSocket::with forgets nic.wake(); a wakeup of    *)
(* the task while it runs is dropped.                                       *)
NicWakeMissing == UNCHANGED taskVars
NicWakeDropped ==
  /\ nicwaker' = FALSE
  /\ task' = IF nicwaker /\ task = "idle" THEN "queued" ELSE task

(* NetworkInterface::wake and WakerRegistration::wake: take the waker, if   *)
(* any, and let async_task schedule the task it belongs to.                 *)
NicWake ==
  /\ nicwaker' = FALSE
  /\ task' = IF ~nicwaker THEN task
             ELSE IF task = "running" THEN "rerun"
             ELSE IF task = "idle" THEN "queued" ELSE task

(* Mutants of SetUnparked: the kernel is not called; it is called in the    *)
(* wrong case.                                                              *)
SetUnparkedSilent(t) == unparked' = [unparked EXCEPT ![t] = TRUE] /\ UNCHANGED towake
SetUnparkedInverted(t) ==
  /\ unparked' = [unparked EXCEPT ![t] = TRUE]
  /\ towake' = IF unparked[t] THEN t ELSE None

(* ThreadNotify::wake_by_ref, first half: remember the wakeup, and call the *)
(* kernel only if it was not remembered already.                            *)
SetUnparked(t) ==
  /\ unparked' = [unparked EXCEPT ![t] = TRUE]
  /\ towake' = IF unparked[t] THEN None ELSE t

(* What the socket layer knows of a request when a call starts; the data    *)
(* that write and close wait for may not have been emitted yet, or be held  *)
(* back by a closed window of the peer, for which no timer runs.            *)
StartStates(c) ==
  CASE c \in {"connect", "accept"} -> {"new"}
    [] c = "read" -> {"wait", "ready"}
    [] OTHER -> {"sent", "retx", "wait", "ready"}

(* sys_tcp_stream_* and sys_tcp_listener_accept up to the first poll; only  *)
(* connect passes a timeout on.                                             *)
Start(t, r, c, d) ==
  /\ pc[t] = "idle"
  /\ sock[r] = "none"
  /\ d = "armed" => c = "connect"
  /\ call' = [call EXCEPT ![t] = c]
  /\ cur' = [cur EXCEPT ![t] = r]
  /\ deadline' = [deadline EXCEPT ![t] = d]
  /\ \E s \in StartStates(c) : sock' = [sock EXCEPT ![r] = s]
  /\ polling' = (polling \/ c \in PollOnCalls)
  /\ Goto(t, IF c \in {"connect", "accept"} THEN "issue" ELSE "poll")
  /\ UNCHANGED <<delay, notifyVars, lock, taskVars, waker, rx, irq>>

(* The first critical section of connect (s.connect) and accept (s.listen). *)
Issue(t) ==
  /\ pc[t] = "issue"
  /\ lock = None
  /\ sock' = [sock EXCEPT ![cur[t]] = IF call[t] = "connect" THEN "tx" ELSE "wait"]
  /\ NicWake
  /\ Goto(t, "poll")
  /\ UNCHANGED <<call, cur, deadline, delay, notifyVars, lock, waker, rx, devVars>>

Return(t) ==
  /\ call' = [call EXCEPT ![t] = "none"]
  /\ cur' = [cur EXCEPT ![t] = None]
  /\ deadline' = [deadline EXCEPT ![t] = "none"]

(* s.connect or s.listen is refused: the future is Ready with an error.     *)
IssueFails(t) ==
  /\ pc[t] = "issue"
  /\ lock = None
  /\ sock' = [sock EXCEPT ![cur[t]] = "done"]
  /\ NicWake
  /\ Goto(t, "idle")
  /\ Return(t)
  /\ UNCHANGED <<delay, notifyVars, lock, waker, rx, devVars>>

(* The states a socket may be left in by a poll that returns Ready: write   *)
(* and close leave data or a FIN to be emitted, unless they fail.           *)
Returned(c) == IF c \in {"write", "close"} THEN {"flush", "done"} ELSE {"done"}

(* future.poll(cx) returns Ready: block_on returns, poll_on still has to    *)
(* leave the polling mode.                                                  *)
PollReady(t) ==
  /\ pc[t] = "poll"
  /\ lock = None
  /\ sock[cur[t]] = "ready"
  /\ call[t] # "accept"
  /\ \E s \in Returned(call[t]) : sock' = [sock EXCEPT ![cur[t]] = s]
  /\ NicWake
  /\ Goto(t, IF call[t] \in PollOnCalls THEN "leave" ELSE "idle")
  /\ Return(t)
  /\ UNCHANGED <<delay, notifyVars, lock, waker, rx, devVars>>

(* accept locks the NIC again for set_keep_alive and remote_endpoint; it    *)
(* does not wake network_run.                                               *)
AcceptReady(t) ==
  /\ pc[t] = "poll"
  /\ lock = None
  /\ sock[cur[t]] = "ready"
  /\ call[t] = "accept"
  /\ NicWake
  /\ Goto(t, "accepted")
  /\ UNCHANGED <<call, cur, deadline, delay, notifyVars, lock, sockVars, devVars>>

Accepted(t) ==
  /\ pc[t] = "accepted"
  /\ lock = None
  /\ \E s \in {"done", "keep"} : sock' = [sock EXCEPT ![cur[t]] = s]
  /\ Goto(t, "idle")
  /\ Return(t)
  /\ UNCHANGED <<delay, notifyVars, lock, taskVars, waker, rx, devVars>>

(* close of a half-closed connection: s.close() enters LastAck, and the     *)
(* second poll_fn of close waits until the FIN is acknowledged.             *)
CloseLastAck(t) ==
  /\ pc[t] = "poll"
  /\ lock = None
  /\ sock[cur[t]] = "ready"
  /\ call[t] = "close"
  /\ call' = [call EXCEPT ![t] = "lastack"]
  /\ sock' = [sock EXCEPT ![cur[t]] = "tx"]
  /\ NicWake
  /\ UNCHANGED <<pc, cur, deadline, delay, notifyVars, lock, waker, rx, devVars>>

(* future.poll(cx) registers the thread's waker and returns Pending.        *)
PollPending(t) ==
  /\ pc[t] = "poll"
  /\ lock = None
  /\ sock[cur[t]] \in Pending
  /\ waker' = [waker EXCEPT ![cur[t]] = t]
  /\ NicWake
  /\ Goto(t, "check")
  /\ UNCHANGED <<call, cur, deadline, delay, notifyVars, lock, sock, rx, devVars>>

(* A mutant of CheckExpired: the clock is not looked at.                    *)
CheckExpiredAlways(t) ==
  /\ pc[t] = "check"
  /\ Goto(t, IF call[t] \in PollOnCalls THEN "leave" ELSE "idle")
  /\ Return(t)
  /\ UNCHANGED <<delay, notifyVars, lock, taskVars, sockVars, devVars>>

(* The timeout check: the call gives up; its request and waker stay behind. *)
CheckExpired(t) ==
  /\ pc[t] = "check"
  /\ deadline[t] = "passed"
  /\ Goto(t, IF call[t] \in PollOnCalls THEN "leave" ELSE "idle")
  /\ Return(t)
  /\ UNCHANGED <<delay, notifyVars, lock, taskVars, sockVars, devVars>>

CheckNotExpired(t) ==
  /\ pc[t] = "check"
  /\ deadline[t] # "passed"
  /\ Goto(t, IF call[t] \in PollOnCalls THEN "exec" ELSE "delay")
  /\ UNCHANGED <<call, cur, deadline, delay, notifyVars, lock, taskVars, sockVars, devVars>>

(* A mutant of LeavePollingMode: poll_on returns without the call.          *)
LeavePollingModeMissing == polling' = polling

(* sys_set_network_polling_mode(false) on the way out of poll_on.           *)
LeavePollingMode == polling' = FALSE

LeavePollOn(t) ==
  /\ pc[t] = "leave"
  /\ LeavePollingMode
  /\ Goto(t, "idle")
  /\ UNCHANGED <<call, cur, deadline, delay, notifyVars, lock, taskVars, sockVars, irq>>

(* Mutants of Delays: no test against 100 ms; retransmission timers are     *)
(* forgotten.                                                               *)
DelaysUntested == {"zero"}
DelaysUntimed == IF \E r \in Requests : sock[r] \in Egress THEN {"short"} ELSE {"none"}

(* network_delay: the earliest time at which any socket wants to be polled; *)
(* "short" is at most 100 ms.  A connection may have a keep-alive timer.    *)
Delays ==
  IF \E r \in Requests : sock[r] \in Egress THEN {"short"}
  ELSE IF \E r \in Requests : sock[r] = "sent" THEN {"short", "long"}
  ELSE IF \E r \in Requests : sock[r] = "done" THEN {"short", "long", "none"}
  ELSE {"none"}

ReadDelay(t) ==
  /\ pc[t] = "delay"
  /\ lock = None
  /\ \E d \in Delays :
       /\ delay' = [delay EXCEPT ![t] = IF d = "short" THEN @ ELSE d]
       /\ Goto(t, IF d = "short" THEN "exec" ELSE "park")
  /\ UNCHANGED <<call, cur, deadline, notifyVars, lock, taskVars, sockVars, devVars>>

(* A mutant of Park: the old value of the flag is thrown away.              *)
ParkIgnoringFlag(t) ==
  /\ pc[t] = "park"
  /\ unparked' = [unparked EXCEPT ![t] = FALSE]
  /\ Goto(t, "block")
  /\ UNCHANGED <<call, cur, deadline, delay, token, towake, lock, taskVars, sockVars, devVars>>

(* unparked.swap(false): a remembered wakeup sends the thread back to poll. *)
Park(t) ==
  /\ pc[t] = "park"
  /\ unparked' = [unparked EXCEPT ![t] = FALSE]
  /\ Goto(t, IF unparked[t] THEN "poll" ELSE "block")
  /\ UNCHANGED <<call, cur, deadline, delay, token, towake, lock, taskVars, sockVars, devVars>>

(* sys_block_current_task[_with_timeout] and the sys_yield that follows.    *)
Block(t) ==
  /\ pc[t] = "block"
  /\ token' = [token EXCEPT ![t] = FALSE]
  /\ Goto(t, IF token[t] THEN "unpark" ELSE "blocked")
  /\ UNCHANGED <<call, cur, deadline, delay, unparked, towake, lock, taskVars, sockVars, devVars>>

(* The kernel ends a sys_block_current_task_with_timeout.                   *)
KernelTimeout(t) ==
  /\ pc[t] = "blocked"
  /\ delay[t] = "long"
  /\ Goto(t, "unpark")
  /\ UNCHANGED <<call, cur, deadline, delay, notifyVars, lock, taskVars, sockVars, devVars>>

(* unparked.store(false) after sys_yield has returned.                      *)
Unpark(t) ==
  /\ pc[t] = "unpark"
  /\ unparked' = [unparked EXCEPT ![t] = FALSE]
  /\ Goto(t, "exec")
  /\ UNCHANGED <<call, cur, deadline, delay, token, towake, lock, taskVars, sockVars, devVars>>

(* run_executor: QUEUE.pop; back to the future when the queue is empty.     *)
RunExecutor(t) ==
  /\ pc[t] = "exec"
  /\ task' = IF task = "queued" THEN "running" ELSE task
  /\ Goto(t, IF task = "queued" THEN "run" ELSE "poll")
  /\ UNCHANGED <<call, cur, deadline, delay, notifyVars, lock, nicwaker, sockVars, devVars>>

(* network_run's poll: lock the NIC and register its own waker; poll_common *)
(* follows under the same lock.                                             *)
NetworkRun(t) ==
  /\ pc[t] = "run"
  /\ lock = None
  /\ lock' = t
  /\ nicwaker' = TRUE
  /\ Goto(t, "stack")
  /\ UNCHANGED <<call, cur, deadline, delay, notifyVars, task, sockVars, devVars>>

(* The end of Runnable::run: reschedule if woken while running.             *)
RunDone(t) ==
  /\ pc[t] = "ran"
  /\ task' = IF task = "rerun" THEN "queued" ELSE "idle"
  /\ Goto(t, "exec")
  /\ UNCHANGED <<call, cur, deadline, delay, notifyVars, lock, nicwaker, sockVars, devVars>>

-----------------------------------------------------------------------------
(* poll_common, one socket at a time, by the worker that holds the lock.    *)
InStack(w) == pc[w] = "stack" /\ lock = w /\ towake = None

Emit(w, r) ==
  /\ InStack(w)
  /\ sock[r] \in Egress
  /\ sock' = [sock EXCEPT ![r] = IF @ \in {"flush", "keep"} THEN "done" ELSE "sent"]
  /\ UNCHANGED <<threadVars, notifyVars, lock, taskVars, waker, rx, devVars>>

(* A frame reaches its socket; the socket takes and wakes its waker.        *)
Ingress(w, r) ==
  /\ InStack(w)
  /\ r \in rx
  /\ rx' = rx \ {r}
  /\ sock' = [sock EXCEPT ![r] = "ready"]
  /\ waker' = [waker EXCEPT ![r] = None]
  /\ IF waker[r] = None THEN UNCHANGED <<unparked, towake>> ELSE SetUnparked(waker[r])
  /\ UNCHANGED <<threadVars, token, lock, taskVars, devVars>>

(* sys_wakeup_task: the kernel makes a blocked task runnable; the wakeup of *)
(* a task that is not blocked is remembered only by a sticky kernel.        *)
WakeupTask(w) ==
  /\ lock = w
  /\ towake # None
  /\ pc' = [pc EXCEPT ![towake] = IF @ = "blocked" THEN "unpark" ELSE @]
  /\ token' = [token EXCEPT ![towake] = @ \/ (StickyWakeup /\ pc[towake] # "blocked")]
  /\ towake' = None
  /\ UNCHANGED <<call, cur, deadline, delay, unparked, lock, taskVars, sockVars, devVars>>

(* iface.poll has nothing left to do: poll_common ends, the guard is        *)
(* dropped.                                                                 *)
LeaveStack(w) ==
  /\ InStack(w)
  /\ rx = {}
  /\ \A r \in Requests : sock[r] \notin Egress
  /\ lock' = None
  /\ Goto(w, IF w = NicThread THEN "netwait" ELSE "ran")
  /\ UNCHANGED <<call, cur, deadline, delay, notifyVars, taskVars, sockVars, devVars>>

(* nic_thread: sys_netwait returns on an interrupt, then the NIC is locked. *)
NetWait ==
  /\ pc[NicThread] = "netwait"
  /\ irq
  /\ irq' = FALSE
  /\ Goto(NicThread, "lock")
  /\ UNCHANGED <<call, cur, deadline, delay, notifyVars, lock, taskVars, sockVars, polling>>

NicLock ==
  /\ pc[NicThread] = "lock"
  /\ lock = None
  /\ lock' = NicThread
  /\ Goto(NicThread, "stack")
  /\ UNCHANGED <<call, cur, deadline, delay, notifyVars, taskVars, sockVars, devVars>>

-----------------------------------------------------------------------------
(* The world outside: the peer, the retransmission timer, the clock.        *)
PeerAnswer(r) ==
  /\ sock[r] \in {"sent", "retx", "wait"}
  /\ r \notin rx
  /\ rx' = rx \cup {r}
  /\ irq' = (irq \/ ~polling)
  /\ UNCHANGED <<threadVars, notifyVars, lock, taskVars, sock, waker, polling>>

(* A frame that arrived in polling mode and was left in the device is sent  *)
(* again by the peer.                                                       *)
PeerResend ==
  /\ rx # {}
  /\ ~polling
  /\ ~irq
  /\ irq' = TRUE
  /\ UNCHANGED <<threadVars, notifyVars, lock, taskVars, sockVars, polling>>

(* Timers are compared with a timestamp taken when the lock is taken.       *)
Retransmit(r) ==
  /\ lock = None
  /\ sock[r] = "sent"
  /\ sock' = [sock EXCEPT ![r] = "retx"]
  /\ UNCHANGED <<threadVars, notifyVars, lock, taskVars, waker, rx, devVars>>

Expire(t) ==
  /\ deadline[t] = "armed"
  /\ deadline' = [deadline EXCEPT ![t] = "passed"]
  /\ UNCHANGED <<pc, call, cur, delay, notifyVars, lock, taskVars, sockVars, devVars>>

-----------------------------------------------------------------------------
Init ==
  /\ pc = [w \in Workers |-> IF w = NicThread THEN "netwait" ELSE "idle"]
  /\ call = [t \in Threads |-> "none"]
  /\ cur = [t \in Threads |-> None]
  /\ deadline = [t \in Threads |-> "none"]
  /\ delay = [t \in Threads |-> "none"]
  /\ unparked = [t \in Threads |-> FALSE]
  /\ token = [t \in Threads |-> FALSE]
  /\ lock = None
  /\ towake = None
  /\ nicwaker = FALSE
  /\ task = "queued"      \* spawn(network_run()).detach() in network_init
  /\ sock = [r \in Requests |-> "none"]
  /\ waker = [r \in Requests |-> None]
  /\ rx = {}
  /\ irq = FALSE
  /\ polling = FALSE

ThreadStep(t) ==
  \/ Issue(t) \/ IssueFails(t)
  \/ PollReady(t) \/ PollPending(t) \/ LeavePollOn(t)
  \/ AcceptReady(t) \/ Accepted(t) \/ CloseLastAck(t)
  \/ CheckExpired(t) \/ CheckNotExpired(t) \/ ReadDelay(t)
  \/ Park(t) \/ Block(t) \/ Unpark(t)
  \/ RunExecutor(t) \/ NetworkRun(t) \/ RunDone(t)

StackStep(w) ==
  \/ \E r \in Requests : Emit(w, r) \/ Ingress(w, r)
  \/ WakeupTask(w)
  \/ LeaveStack(w)

Next ==
  \/ \E t \in Threads : ThreadStep(t)
  \/ \E t \in Threads, r \in Requests, c \in Calls, d \in {"none", "armed"} : Start(t, r, c, d)
  \/ \E t \in Threads : KernelTimeout(t) \/ Expire(t)
  \/ \E w \in Workers : StackStep(w)
  \/ NetWait \/ NicLock
  \/ \E r \in Requests : PeerAnswer(r) \/ Retransmit(r)
  \/ PeerResend

Spec == Init /\ [][Next]_vars

(* Threads and nic_thread are scheduled and obtain the NIC mutex; kernel    *)
(* timeouts fire; a peer that is asked (again and again) answers.           *)
Fairness ==
  /\ \A t \in Threads : SF_vars(ThreadStep(t)) /\ WF_vars(KernelTimeout(t)) /\ WF_vars(Expire(t))
  /\ \A w \in Workers : WF_vars(StackStep(w))
  /\ WF_vars(NetWait) /\ SF_vars(NicLock)
  /\ \A r \in Requests : SF_vars(PeerAnswer(r))
  /\ WF_vars(PeerResend)

FairSpec == Spec /\ Fairness

-----------------------------------------------------------------------------
(* Every variable has its type: thread, lock, task, socket and device state *)
(* of executor.rs and mod.rs.                                               *)
TypeOK ==
  /\ pc \in [Workers -> {"idle", "issue", "poll", "check", "delay", "park", "block",
                         "blocked", "unpark", "exec", "run", "stack", "ran", "leave",
                         "accepted", "netwait", "lock"}]
  /\ call \in [Threads -> PollOnCalls \cup BlockOnCalls \cup {"none", "lastack"}]
  /\ cur \in [Threads -> Requests \cup {None}]
  /\ deadline \in [Threads -> {"none", "armed", "passed"}]
  /\ delay \in [Threads -> {"none", "long"}]
  /\ unparked \in [Threads -> BOOLEAN]
  /\ token \in [Threads -> BOOLEAN]
  /\ lock \in Workers \cup {None}
  /\ towake \in Threads \cup {None}
  /\ nicwaker \in BOOLEAN
  /\ task \in {"idle", "queued", "running", "rerun"}
  /\ sock \in [Requests -> Pending \cup {"none", "new", "ready", "done", "flush", "keep"}]
  /\ waker \in [Requests -> Threads \cup {None}]
  /\ rx \in SUBSET Requests
  /\ irq \in BOOLEAN
  /\ polling \in BOOLEAN


(* network_run is spawned once, detached, and returns Pending for ever      *)
(* (mod.rs 366-375, 408), so nobody can start it again.  It is never lost:  *)
(* whenever it is not in QUEUE or about to be put there again, the NIC      *)
(* holds its waker, and while the NIC holds it the task is not queued too.  *)
NetworkTaskNeverLost ==
  /\ ~nicwaker => task # "idle"
  /\ nicwaker => task \in {"idle", "running"}

(* Nothing that AsyncSocket::with gave a socket to send (a SYN, data, a     *)
(* FIN) waits for a timer or a frame to be noticed: until it is emitted,    *)
(* network_run is queued for the next thread that idles in a call, or runs, *)
(* or poll_common is at work under the lock.                                *)
EgressScheduled ==
  (lock = None /\ nicwaker) => \A r \in Requests : sock[r] \notin {"tx", "flush"}

(* Interrupts are off only while some thread is inside poll_on and so polls *)
(* the device itself (executor.rs 95-97, 106-108, 114-116).                 *)
PollingModeOwned ==
  polling => \E t \in Threads : call[t] \in PollOnCalls \/ pc[t] = "leave"

(* "A flag to ensure a wakeup is not forgotten before the next              *)
(* block_current_task" (executor.rs 51): a thread that has been woken does  *)
(* not stay blocked, except while its waker is still on the way to          *)
(* sys_wakeup_task.                                                         *)
NoForgottenWakeup ==
  \A t \in Threads : (pc[t] = "blocked" /\ unparked[t]) => towake = t

(* No thread sleeps in block_on although the condition its future waits for *)
(* holds, except while its waker is still on the way to sys_wakeup_task.    *)
NoSleepOnReady ==
  \A t \in Threads :
    (pc[t] = "blocked" /\ sock[cur[t]] = "ready") => towake = t

(* The same with either kernel: a thread that sleeps although its condition *)
(* holds has been woken (executor.rs 80), after it last looked at the flag. *)
(* What is lost is a wakeup of the kernel, never one of the socket.         *)
SleeperOnReadyWasWoken ==
  \A t \in Threads : (pc[t] = "blocked" /\ sock[cur[t]] = "ready") => unparked[t]

(* Only accept, and close while the peer's window is closed, ever sleep     *)
(* without a timeout (executor.rs 156): connect and the second half of      *)
(* close have a segment on the way, read and write do not sleep.            *)
OnlyAcceptAndCloseSleepUntimed ==
  \A t \in Threads :
    (pc[t] = "blocked" /\ delay[t] = "none") => call[t] \in {"accept", "close"}

(* A thread that sleeps without a timeout (executor.rs 156) waits for a     *)
(* condition that needs no timer of the network stack: its own socket has   *)
(* nothing to emit and nothing to retransmit, however long ago the delay    *)
(* was read.                                                                *)
SleepIsTimed ==
  \A t \in Threads :
    (pc[t] = "blocked" /\ delay[t] = "none") => sock[cur[t]] \in {"wait", "ready"}

(* The calls as their callers see them.                                     *)
CallPhase == [t \in Threads |-> IF cur[t] = None THEN "idle"
                                ELSE IF pc[t] = "issue" THEN "starting" ELSE "waiting"]
CallLate == [t \in Threads |-> deadline[t] = "passed"]
CallCond == [r \in Requests |-> CASE sock[r] = "none" -> "unused"
                                  [] sock[r] \in Pending \cup {"new"} -> "open"
                                  [] sock[r] = "ready" -> "held"
                                  [] OTHER -> "over"]

Caller == INSTANCE BlockingCall WITH
  phase <- CallPhase, want <- cur, late <- CallLate, cond <- CallCond

(* block_on and poll_on implement BlockingCall: however threads, the        *)
(* network task and nic_thread run each other's work, a call returns only   *)
(* what it waited for, once, or gives up after its own deadline.            *)
IsBlockingCall == Caller!Spec

-----------------------------------------------------------------------------
(* Every call returns when the peer answers: no order of wakeups, polls,    *)
(* retransmissions and interrupts leaves a thread in poll_on or block_on    *)
(* for ever.                                                                *)
EveryCallReturns == \A t \in Threads : (pc[t] # "idle") ~> (pc[t] = "idle")

(* The state in which a forgotten wakeup leaves a thread.                   *)
Forgotten(t) == pc[t] = "blocked" /\ delay[t] = "none" /\ unparked[t] /\ towake # t

(* Whatever the kernel does with early wakeups: every call returns, unless  *)
(* it is an accept or a close that sleeps without a timeout (executor.rs    *)
(* 156) and whose wakeup was forgotten.  All others sleep with a timeout or *)
(* do not sleep, and recover.                                               *)
CallsReturnUnlessForgotten ==
  \A t \in Threads :
    (pc[t] # "idle") ~>
      (pc[t] = "idle" \/ (call[t] \in {"accept", "close"} /\ Forgotten(t)))
=============================================================================
