----------------------------- MODULE NetworkInit -----------------------------
(***************************************************************************)
(* How the network comes up and what the TCP interface answers before,     *)
(* after and without it: sys_network_init (hermit-sys/src/lib.rs),         *)
(* network_init and NetworkState (net/mod.rs), NetworkInterface::new       *)
(* (net/device.rs), the functions of net/mod.rs or of dummy.rs behind      *)
(* hermit-abi's tcpstream and tcplistener, and nic_thread.                 *)
(*                                                                         *)
(* The boot thread runs sys_network_init before main, so application calls *)
(* start when it has returned.  A panic aborts the whole unikernel         *)
(* (panic_abort, .cargo/config.toml).  What a call does on a network that  *)
(* is there is AsyncSocket's subject: here it succeeds or fails.           *)
(***************************************************************************)
EXTENDS FiniteSets, Netmask

CONSTANTS
  Boot,       \* the thread that runs sys_network_init
  NicThread,  \* the thread nic_thread
  None,       \* no thread, no mask
  Octets      \* values of the octets of HERMIT_MASK

ASSUME InitAssumption ==
  /\ Cardinality({Boot, NicThread, None}) = 3
  /\ Octets \subseteq 0..255

VARIABLES
  features,  \* cargo features of this build
  boot,      \* the next line of sys_network_init and network_init
  ret,       \* what sys_network_init returned
  nic,       \* NetworkState
  mymask,    \* the mask of a static configuration
  prefix_len, \* the length of the interface's prefix
  owner,     \* who holds the mutex of NIC
  worker,    \* nic_thread: "none", "netwait", "lock" or "poll"
  task,      \* network_run: "none", "queued", "idle" or "ended"
  frame,     \* is there a frame in the device?
  irq,       \* an interrupt that sys_netwait has not seen
  polling,   \* network polling mode: no NIC interrupts
  aborted,   \* has a panic ended the unikernel?
  handle     \* the application's handle: "none" or "open"

nicVars == <<worker, task, frame, irq, polling>>
ifaceVars == <<nic, mymask, prefix_len>>
vars == <<features, boot, ret, ifaceVars, owner, nicVars, aborted, handle>>

Running == ~aborted /\ boot = "main"

-----------------------------------------------------------------------------
(* sys_network_init: the logger, then network_init if smoltcp is built in.  *)
InitLogger ==
  /\ boot = "logger"
  /\ IF "smoltcp" \in features
     THEN boot' = "lock" /\ UNCHANGED ret
     ELSE boot' = "main" /\ ret' = "failed"
  /\ UNCHANGED <<features, ifaceVars, owner, nicVars, aborted, handle>>

LockNic ==
  /\ boot = "lock"
  /\ owner = None
  /\ owner' = Boot
  /\ boot' = "new"
  /\ UNCHANGED <<features, ret, ifaceVars, nicVars, aborted, handle>>

(* A mutant of NewFails: network_init goes on with whatever it has got.     *)
NewFailsUnnoticed ==
  /\ boot = "new"
  /\ nic' = "InitializationFailed"
  /\ boot' = "poll"
  /\ UNCHANGED <<features, mymask, prefix_len, ret, owner, nicVars, aborted, handle>>

(* NetworkInterface::new: there is no device, so no MTU or no MAC address.  *)
NewFails ==
  /\ boot = "new"
  /\ nic' = "InitializationFailed"
  /\ boot' = "return"
  /\ UNCHANGED <<features, mymask, prefix_len, ret, owner, nicVars, aborted, handle>>

(* A static address that does not parse.                                    *)
NewPanics ==
  /\ boot = "new"
  /\ "dhcpv4" \notin features
  /\ aborted' = TRUE
  /\ boot' = "dead"
  /\ UNCHANGED <<features, ret, ifaceVars, owner, nicVars, handle>>

(* The interface of a static configuration has the prefix of HERMIT_MASK,   *)
(* the one that DHCP will configure has none.                               *)
New ==
  /\ boot = "new"
  /\ nic' = "Initialized"
  /\ boot' = "poll"
  /\ IF "dhcpv4" \in features THEN UNCHANGED <<mymask, prefix_len>>
     ELSE \E mask \in [1..4 -> Octets] : mymask' = mask /\ prefix_len' = PrefixLen(mask)
  /\ UNCHANGED <<features, ret, owner, nicVars, aborted, handle>>

(* poll_common: the frames that are there are handled.                      *)
FirstPoll ==
  /\ boot = "poll"
  /\ frame' = FALSE
  /\ boot' = "spawn"
  /\ UNCHANGED <<features, ret, ifaceVars, owner, worker, task, irq, polling, aborted, handle>>

(* sys_spawn of nic_thread; its failure goes unnoticed.                     *)
SpawnNicThread ==
  /\ boot = "spawn"
  /\ \E w \in {"netwait", "none"} : worker' = w
  /\ boot' = "task"
  /\ UNCHANGED <<features, ret, ifaceVars, owner, task, frame, irq, polling, aborted, handle>>

(* spawn(network_run()).detach(), and sys_yield with the guard held.        *)
SpawnTask ==
  /\ boot = "task"
  /\ task' = "queued"
  /\ boot' = "return"
  /\ UNCHANGED <<features, ret, ifaceVars, owner, worker, frame, irq, polling, aborted, handle>>

(* The guard is dropped and Ok(()) is returned in every case.               *)
InitReturns ==
  /\ boot = "return"
  /\ owner' = None
  /\ ret' = "ok"
  /\ boot' = "main"
  /\ UNCHANGED <<features, ifaceVars, nicVars, aborted, handle>>

-----------------------------------------------------------------------------
(* nic_thread.                                                              *)
NetWait ==
  /\ ~aborted
  /\ worker = "netwait" /\ irq
  /\ irq' = FALSE
  /\ worker' = "lock"
  /\ UNCHANGED <<features, boot, ret, ifaceVars, owner, task, frame, polling, aborted, handle>>

NicLock ==
  /\ ~aborted
  /\ worker = "lock" /\ owner = None
  /\ owner' = NicThread
  /\ worker' = "poll"
  /\ UNCHANGED <<features, boot, ret, ifaceVars, task, frame, irq, polling, aborted, handle>>

(* Mutants of NicPoll: nic_thread has no loop; the guard is not dropped.    *)
NicPollOnce ==
  /\ ~aborted
  /\ worker = "poll"
  /\ frame' = FALSE
  /\ owner' = None
  /\ worker' = "ended"
  /\ UNCHANGED <<features, boot, ret, ifaceVars, task, irq, polling, aborted, handle>>

NicPollKeepsGuard ==
  /\ ~aborted
  /\ worker = "poll"
  /\ frame' = FALSE
  /\ worker' = "netwait"
  /\ UNCHANGED <<features, boot, ret, ifaceVars, owner, task, irq, polling, aborted, handle>>

NicPoll ==
  /\ ~aborted
  /\ worker = "poll"
  /\ frame' = IF nic = "Initialized" THEN FALSE ELSE frame
  /\ owner' = None
  /\ worker' = "netwait"
  /\ UNCHANGED <<features, boot, ret, ifaceVars, task, irq, polling, aborted, handle>>

(* A frame raises an interrupt unless a thread in poll_on has switched to   *)
(* polling (sys_set_network_polling_mode, executor.rs 95-97).               *)
Arrive ==
  /\ ~aborted
  /\ frame' = TRUE
  /\ irq' = (irq \/ ~polling)
  /\ UNCHANGED <<features, boot, ret, ifaceVars, owner, worker, task, polling, aborted, handle>>

-----------------------------------------------------------------------------
(* hermit-abi's tcpstream: the options, their setters and getters.          *)
Unsupported == {"set_read_timeout", "get_read_timeout", "set_write_timeout",
                "get_write_timeout", "peek", "set_nonblocking", "set_tll", "get_tll"}
NoDelay == {"set_nodelay(true)", "set_nodelay(false)", "nodelay"}

(* Calls that need a socket of the interface; shutdown takes 0, 1, 2 or any *)
(* other number.                                                            *)
Opening == {"connect", "accept"}
OnSocket == {"read", "write", "close", "shutdown(1)", "shutdown(2)"}
PollOnCalls == {"read", "write"}

Functions == Unsupported \cup NoDelay \cup Opening \cup OnSocket
             \cup {"shutdown(0)", "shutdown(other)", "peer_addr"}

SetNodelay(mode) == IF mode THEN "ok" ELSE "err"

(* The functions that smoltcp has no support for.                           *)
Stub == "err"

(* Every function of dummy.rs, which has no peer_addr and no accept: a      *)
(* program that uses those does not link.                                   *)
Dummy == "err"

Provided == IF "smoltcp" \in features THEN Functions ELSE Functions \ {"accept", "peer_addr"}

(* The functions that take the mutex of NIC.                                *)
Locking == Opening \cup OnSocket \cup {"peer_addr"}

(* What the functions may answer.  AsyncSocket::new and AsyncSocket::with   *)
(* unwrap as_nic_mut; peer_addr passes its error on.  A handle comes from   *)
(* connect or accept and no socket is ever removed, so sockets.get finds    *)
(* it.                                                                      *)
Answers(f) ==
  CASE f = "nodelay" -> {"ok"}
    [] f = "set_nodelay(true)" -> {SetNodelay(TRUE)}
    [] f = "set_nodelay(false)" -> {SetNodelay(FALSE)}
    [] f \notin NoDelay /\ "smoltcp" \notin features -> {Dummy}
    [] f \in Unsupported /\ "smoltcp" \in features -> {Stub}
    [] f = "shutdown(0)" /\ "smoltcp" \in features -> {"ok"}
    [] f = "shutdown(other)" /\ "smoltcp" \in features -> {"panic"}
    [] OTHER -> IF nic = "Initialized" THEN {"ok", "err"}
                ELSE IF f = "peer_addr" THEN {"err"} ELSE {"panic"}

(* read and write enter poll_on.                                            *)
PollOn ==
  /\ Running
  /\ "smoltcp" \in features
  /\ handle = "open" /\ ~polling
  /\ polling' = TRUE
  /\ UNCHANGED <<features, boot, ret, ifaceVars, owner, worker, task, frame, irq, aborted, handle>>

(* An application thread calls one of them; all but connect and accept take *)
(* a handle.  A call that has to wait runs network_run (block_on, poll_on). *)
Call(f) ==
  /\ Running
  /\ f \in Provided
  /\ f \in Locking => owner = None
  /\ f \in Opening \/ handle = "open"
  /\ f \in PollOnCalls /\ "smoltcp" \in features => polling
  /\ polling' = (polling /\ f \notin PollOnCalls)
  /\ \E a \in Answers(f) :
       /\ aborted' = (a = "panic")
       /\ handle' = IF f \in Opening /\ a = "ok" THEN "open" ELSE handle
  /\ \/ /\ task # "none" /\ f \in Opening \cup OnSocket
        /\ task' = IF nic = "Initialized" THEN "idle" ELSE "ended"
        /\ frame' = IF nic = "Initialized" THEN FALSE ELSE frame
     \/ UNCHANGED <<task, frame>>
  /\ UNCHANGED <<features, boot, ret, ifaceVars, owner, worker, irq>>

-----------------------------------------------------------------------------
Init ==
  /\ features \in {{}, {"smoltcp"}, {"smoltcp", "dhcpv4"}}
  /\ boot = "logger"
  /\ ret = "none"
  /\ nic = "Missing"
  /\ mymask = None
  /\ prefix_len = 0
  /\ owner = None
  /\ worker = "none"
  /\ task = "none"
  /\ frame = FALSE
  /\ irq = FALSE
  /\ polling = FALSE
  /\ aborted = FALSE
  /\ handle = "none"

BootStep ==
  \/ InitLogger \/ LockNic \/ NewFails \/ NewPanics \/ New
  \/ FirstPoll \/ SpawnNicThread \/ SpawnTask \/ InitReturns

Next ==
  \/ BootStep
  \/ NetWait \/ NicLock \/ NicPoll \/ Arrive
  \/ PollOn
  \/ \E f \in Functions : Call(f)

Spec == Init /\ [][Next]_vars

(* The boot thread and nic_thread are scheduled; the mutex is obtained.     *)
FairSpec == Spec /\ WF_vars(BootStep) /\ WF_vars(NetWait) /\ WF_vars(NicLock) /\ WF_vars(NicPoll)

-----------------------------------------------------------------------------
(* The state of initialisation, of nic_thread and of the callers has its    *)
(* type.                                                                    *)
TypeOK ==
  /\ features \subseteq {"smoltcp", "dhcpv4"}
  /\ boot \in {"logger", "lock", "new", "poll", "spawn", "task", "return", "main", "dead"}
  /\ ret \in {"none", "ok", "failed"}
  /\ nic \in {"Missing", "InitializationFailed", "Initialized"}
  /\ mymask \in [1..4 -> Octets] \cup {None}
  /\ prefix_len \in 0..32
  /\ owner \in {Boot, NicThread, None}
  /\ worker \in {"none", "netwait", "lock", "poll"}
  /\ task \in {"none", "queued", "idle", "ended"}
  /\ {frame, irq, polling, aborted} \subseteq BOOLEAN
  /\ handle \in {"none", "open"}

(* What network_init starts never finds the interface missing: nic_thread   *)
(* runs before network_init has returned, and network_run would end for     *)
(* good (mod.rs 372).                                                       *)
WorkersFindNetwork ==
  /\ worker = "poll" => nic = "Initialized"
  /\ task # "ended"

(* "count the number of contiguous 1 bits, starting at the most significant *)
(* bit in the first octet" (device.rs 134-136).                             *)
PrefixIsMaskLength ==
  (mymask # None /\ Contiguous(mymask)) => prefix_len = LeadingOnes(mymask)

(* What the code computes instead: for a contiguous mask the configured     *)
(* length is rounded down to whole octets (device.rs 137-146), exact for    *)
(* 0.0.0.0, 255.0.0.0, ..., 255.255.255.255, and otherwise the length of a  *)
(* larger network, never of a smaller one.                                  *)
RoundsDownToOctets ==
  (mymask # None /\ Contiguous(mymask)) => prefix_len = 8 * (LeadingOnes(mymask) \div 8)

(* A frame whose interrupt nic_thread has not seen yet is handled, even if  *)
(* it arrived during network_init.  One that arrives in polling mode is     *)
(* left to the thread that polls.                                           *)
FramesHandled == (frame /\ irq /\ worker # "none") ~> (~frame \/ aborted)
=============================================================================
