# RustyHermit: a verification project for the network stack of hermit-sys

RustyHermit binds a Rust application to the HermitCore unikernel. The repository's own
logic is the network layer of `hermit-sys` (`hermit-sys/src/net/`): it runs the TCP/IP
library smoltcp on top of the kernel's network driver, gives `std::net` blocking calls, and
drives the stack with a small executor that the application threads run while they wait.
This project models that layer, the TCP interface on both sides of it and the build script in
TLA+, checks them with TLC and proves their safety properties, the two refinements included,
with TLAPS for every value of the constants.

## Inventory

| Component | State | Operations | What makes it correct |
|---|---|---|---|
| executor (`net/executor.rs`) | run queue `QUEUE`, per-thread `unparked` flag, polling mode | `block_on`, `poll_on`, `run_executor`, `spawn`, `ThreadNotify::wake` | a wakeup is never lost; a call returns when its condition holds; the network task survives |
| network task and NIC thread (`net/mod.rs`) | `NIC` mutex, `NetworkInterface.waker` | `network_run`, `nic_thread`, `network_delay`, `poll_common`, `wake` | what a call leaves to be sent is sent |
| waker registration (`net/waker.rs`) | one waker slot | `register`, `wake` | a task that loses the slot does not sleep on |
| `AsyncSocket` (`net/mod.rs`) | smoltcp's socket: TCP state, buffers, two waker slots | `connect`, `accept`, `read`, `write`, `close`, `shutdown`, `peer_addr` | sleeping threads are woken by every change they wait for; data before FIN; end of stream only at the end |
| socket set (`net/mod.rs`) | `sockets`, `LOCAL_ENDPOINT` | `create_handle`, `connect`, `accept`, `close` | a handle stands for one connection; ports come back as late as a u16 allows |
| interface set-up (`net/device.rs`, `net/mod.rs`, `lib.rs`) | `NetworkState` | `NetworkInterface::new`, `network_init`, `sys_network_init` | the configured prefix is the mask's; threads and calls find a network, or a failure is reported |
| TCP interface (`hermit-abi` `tcpstream.rs`, `tcplistener.rs`; `net/mod.rs`, `dummy.rs`) | none | forwarded calls, stubs, `set_nodelay`, `nodelay` | a call finds a network, or an error says that there is none |
| device tokens (`net/device.rs`) | receive and transmit buffers of the kernel | `receive`, `transmit`, `consume` | every buffer is given back once, unless the kernel refuses it; the loop around them ends |
| DHCP (`net/mod.rs` 115-158) | `prev_cidr`, address, default route | part of `poll_common` | a lease comes, and the address is that of the last lease |
| build script (`hermit-sys/build.rs`) | `OUT_DIR`: kernel source, kernel library, `constants.rs` | `create_constants`, `build`, `build_hermit`, `rename_symbol` | what is linked is complete and current, also after interrupted runs |
| netbench, demo, micro benchmarks | - | example programs | - |
| `hermit-abi/src/lib.rs`, `cmath.rs` | none | declarations and one-line wrappers | - |

How the parts interact: an application thread calls `sys_tcp_*`, which runs a future of
`AsyncSocket` under `poll_on` (read, write: spins with NIC interrupts off) or `block_on`
(connect, accept, close: sleeps in the kernel). A poll of the future locks `NIC`, looks at the
socket, registers the thread's waker in the socket and calls `nic.wake()`, which queues
`network_run`. Threads that idle pop `network_run` from `QUEUE` and run the stack; the NIC
thread runs it too, after an interrupt. While the stack runs, it calls the wakers of the
threads, which set `unparked` and call `sys_wakeup_task`.

What is hard here: the sleep/wakeup hand-over between `unparked` and the kernel, one task
that every thread runs for every other thread, wakers that are overwritten or stale,
timeouts that leave a live socket behind, TCP states that change between two locks, kernel
calls that fail between borrowing a buffer and giving it back, and a DHCP client whose timer
nobody watches. The `hazards` of `PROJECT.json` list each place.

## Modules

| Module | Models | Proofs | Runs |
|---|---|---|---|
| `Executor` | executor, network task, NIC thread | `ExecutorProofs` | `executor_*` |
| `WakerRegistration` | `waker.rs`, as operators of `AsyncSocket` | `AsyncSocketProofs` | `socket` |
| `AsyncSocket` | the futures of one socket, smoltcp's TCP states | `AsyncSocketProofs` | `socket`, `socket_accept` |
| `SocketSet` | all sockets of the interface, local ports | `SocketSetProofs` | `socket_set` |
| `NetworkInit` | initialisation, builds and the TCP interface in each state | `NetworkInitProofs` | `network_init` |
| `Device` | receive and transmit buffers, the loop of `poll_common` | `DeviceProofs` | `device` |
| `Dhcp` | the DHCP part of `poll_common` and who calls it | `DhcpProofs` | `dhcp` |
| `Netmask` | `prefix_len` of `device.rs`, as operators of `NetworkInit` | `NetworkInitProofs` | `network_init`, `netmask` |
| `BuildScript` | `build.rs` | `BuildScriptProofs` | `build_script` |
| `BlockingCall` | abstract: what `block_on` and `poll_on` promise | `ExecutorProofs` | `executor_liveness`, `executor_plain_kernel` |
| `ByteStream` | abstract: what a handle promises | `AsyncSocketProofs` | `socket` |

The `MC*` modules only give the constants values. The modules meet at these seams: `Executor`
reduces a socket to what `poll_delay` and the wakers show; `AsyncSocket` takes from `Executor`
that a sleeping thread wakes when its waker is called; `SocketSet` takes from `AsyncSocket` that
a close ends the connection; `Device` and `Dhcp` are the two halves of `poll_common`, which
`Executor` shows to be run; `NetworkInit` shows that the interface is there when the others
start.

### Abstract specifications

`BlockingCall` has callers and conditions, and no executor, waker, lock or device: a call waits
for one condition and returns when it holds, when it is refused at the start, or when its
deadline has passed, and returns each condition at most once. `Executor!IsBlockingCall`
instantiates it: a thread's phase comes from `pc` (`CallPhase`), its deadline from `deadline`
(`CallLate`), a condition from `sock` (`CallCond`).

`ByteStream` is a connection as two byte counters, an end of stream and a broken flag: it comes up
once, an orderly close needs everything written to be confirmed, and each result (`connected`,
`err`, `eof`, `closed`) is allowed only in the states that justify it. Its phase `half` is what a
user of `accept` has to live with: the handle may be handed out before the connection is up, a
read then reports the end of the stream, and the peer may withdraw. `AsyncSocket!IsByteStream`
maps TCP's states to the four phases (`StreamPhase`) and the results of the calls to the
abstract ones (`StreamRet`).

### Executor

`pc[w]` is the place of a thread in `block_on`/`poll_on` or of the NIC thread in its loop; a
step is one access to shared state. `unparked`, `lock` (the `NIC` mutex), `nicwaker`
(`NetworkInterface.waker`), `polling` are the variables of the code; `task` is what
async_task keeps for `network_run`: idle, queued (in `QUEUE`), running, or woken while
running. `towake` is the thread between the `swap(true)` of `wake_by_ref` and its
`sys_wakeup_task`. A call waits for one `Request`; what the socket does about it is reduced
to `sock[r]` (something to emit, a retransmission timer, nothing but the peer to wait for,
ready, ...): that is all the executor can see, through `poll_delay` and the wakers. A write or
close may find a queue that the peer's closed window holds back: smoltcp has then nothing to emit
and no timer, so `network_delay` is None as it is for a listening socket. `poll_common` is one step per frame
because it calls wakers while it holds the lock; every other critical section is one step.
`connect`'s timeout is `deadline`; the other calls pass `None`, so the timeout branch of
`poll_on` is never taken by this code.

External parts, modelled from their use: the kernel's block, wakeup, netwait and polling
mode calls, async_task, smoltcp, the peer. Two meanings of `sys_wakeup_task` for a task that
is not blocked are distinguished by `StickyWakeup`: `hermit-abi/src/lib.rs` 473-484 only
says that blocking adds the task to the queue of blocked tasks and that a task is woken, which
reads as "nothing happens" (`FALSE`); a kernel that remembers the wakeup is `TRUE`.
A frame that arrives in polling mode raises no interrupt; the peer sends it again later.

### WakerRegistration

Operators on a slot: whom `register` stores and whom it replaces and therefore wakes, and whom
`wake` takes. `waker.rs` is derived from the registration in smoltcp, which keeps one for each
direction of a socket. `AsyncSocket` applies the operators there, where threads that share a handle
do take the slot from each other; with the slot of the interface only `network_run` registers,
so that `Executor` reduces it to `nicwaker`.

### AsyncSocket

One handle, shared by threads once `connect` or `accept` has returned it. Each
`AsyncSocket::with` is one step, `accept` has a second one (`Accepted`), `close` has two
`poll_fn`s (`close`, `closing`). `Outcome` is the `match` of each `poll_fn`. The executor is
reduced to its promise: a thread in `block_on` sleeps after Pending until its waker is called,
or its sleep is timed (`SleepEnds`). smoltcp's `process`, `close`, `set_state` and the
predicates `is_active`, `may_recv`, `can_send` are external. Bytes are counted in the two queues.
`shutdown(0)` does nothing and has no action; `shutdown(1)` and `(2)` are `close`.

### SocketSet

`sockets` is the `SocketSet` as a sequence that only grows; a socket is its state in five
values, its local port, the draw of `LOCAL_ENDPOINT` that gave it and the connection it serves.
`given[h]` remembers which connection a handle stood for when a call returned it. A SYN goes
to the first listening socket; a reset of a half-open one makes it listen again. `accept` has its
two critical sections: `Polled` sees the socket active, `Accepted` takes the lock again and returns
what the socket has become by then. `close` is one step. `PortSpace` stands for 2^16.

### NetworkInit

The boot thread goes through `sys_network_init` and `network_init` step by step, with the guard
of `NIC` held from `LockNic` to `InitReturns`; nic_thread runs as soon as it is spawned, since
`network_init` yields with the guard held. `features` are the three builds that differ: without
smoltcp (dummy.rs), with a static address, with DHCP. `Answers(f)` is what each function of the
TCP interface may return: Err of a stub or of dummy.rs, Ok or Err of a socket, or a panic, which
aborts the unikernel: of the `unwrap`s in `AsyncSocket::new` and `with`, and of `shutdown` for an
argument other than 0, 1 and 2. A handle comes from `connect` or `accept` and no socket is ever
removed, so `sockets.get` finds it. Application threads start when sys_network_init has returned:
the kernel calls it before main. `read` and `write` switch to polling mode (`PollOn`), in which a
frame raises no interrupt.

### Device

`rx` and `tx` are the kernel's buffers, `pc` the place inside one `poll_common`, which has the
device to itself under the NIC mutex. `TxToken::consume` runs in the egress phase and, when a
frame is answered, inside `RxToken::consume`; a packet that cannot be written is freed and its
error returned in both. The kernel may refuse every call. A transmit buffer that it refuses to send,
or a receive buffer that it refuses to take back, stays borrowed, since the code drops its handle;
`refused` remembers which buffers these are.

### Dhcp

`PollCommon` is `iface.poll`, which sends what is queued and takes the reply, followed by
`dhcp.poll` and the configuration. It is run by `network_init`, by nic_thread after an interrupt
and by a thread that waits in `block_on`, as long as `poll_delay` is zero. `poll_delay` knows the
sockets only, so the timer `due` of the client takes effect in a poll that happens for another
reason. `lease` is a history variable: the last address that an acknowledgement named. The client is
external: it discovers, requests, renews, and starts again after `Retries`
unanswered requests.

### BuildScript

One `OUT_DIR`, one configuration, many runs. Steps of a run can fail or be interrupted, and
the developer can edit the kernel's files or the environment in between. `world` is the version of
each input, `seen` the versions when the run was started (cargo compares with those), `used` what
the run has read. `libs` are the kernel libraries by target folder, with their features, flags
and renamed symbols. `HERMIT_IP` stands for the environment variables that are all treated alike.

### Netmask

`PrefixLen` adds one octet after the other; `AddOctet` has the tests `== 8`, `== 16`, `== 24`.
`NetworkInit!New` applies it to the mask of a static configuration. `LeadingOnes` and
`Contiguous` are the reference.

## Runs

| Run | Shows |
|---|---|
| `executor_safety` | Two threads, two calls of any kind, a kernel that remembers wakeups: `NetworkTaskNeverLost`, `EgressScheduled`, `PollingModeOwned`, `NoForgottenWakeup`, `NoSleepOnReady`, `SleepIsTimed` |
| `executor_liveness` | Same kernel, accept and read by two threads: every call returns, and calls implement `BlockingCall` |
| `executor_plain_kernel` | A kernel that forgets early wakeups, one thread and the NIC thread, all calls: calls implement `BlockingCall`, timeouts included; a thread that sleeps although its condition holds was woken (too early); only accept and close can sleep without a timeout; every call returns unless such a sleep missed its wakeup |
| `executor_forgotten_wakeup` | *Violation*: with that kernel a thread stays blocked after its waker was called |
| `socket` | Two threads on one handle: wakeups, data before FIN, genuine end of stream, connect; the handle implements `ByteStream`; connect and close return through the socket's wakers alone, if writers do not go on for ever |
| `socket_accept` | *Violation*: accept returns before the handshake is complete |
| `socket_set` | Two threads, two clients, four sockets, three ports: a port comes back only after a whole round, port 0 never, a handle names one connection, only a timed-out connect leaves a connection without an owner |
| `network_init` | Every build, every failure, many masks: started threads find the interface, frames whose interrupt is pending are handled, a mask is rounded down to octets |
| `netmask` | *Violation*: the prefix of 128.0.0.0 is 0 |
| `device` | Two receive and two transmit buffers, every kernel call and every write of a packet may fail: buffers that the kernel does not refuse are given back, frames are read only while borrowed, `poll_common` ends once packets can be written and no frame comes |
| `dhcp` | Two addresses, two routers, useless and lost replies: the address is that of the last lease, and a lease comes while somebody polls |
| `build_script` | Four targets, two profiles, faults and interruptions anywhere: what is linked is complete, a fresh result is current, trying again succeeds |

Bounds. Two requests are enough for a thread to make a second call while the answer, the
waker or the timer of its first, abandoned one is still in the system, and for two threads to
run the stack for each other; threads and requests are interchangeable in the safety runs, so
symmetry is used there and not in runs of liveness properties. `Capacity = 2` lets a buffer be
empty, partly full and full; the number of bytes that pass through it is not bounded.
`MaxSockets = 4` with `PortSpace = 3` lets the port counter wrap over 0 and meet the port of a
live connection again; two clients let an accepted socket be reset, listen again and take
another client while a second one listens. The octets of the `network_init` run make masks that
end at and inside an octet, and masks that are not contiguous.
`MaxEgress = 2` lets the first of two packets be sent and the second be refused. `Retries = 2`
is the smallest number for which a request that has to wait for the next poll is sent before the
client gives up; with 1 the client may restart for ever. `MaxEdits = 1` per input is one change
during a run. Deadlock is not checked where the system may stop: all requests or sockets are used up, the unikernel has
aborted, nothing arrives, the build is fresh.

Fairness. Threads and the NIC thread are scheduled, and a thread that tries to lock the NIC
again and again succeeds: strong fairness of `ThreadStep` and `NicLock` (the kernel's
scheduler and mutex are fair; priorities only favour the NIC thread). Kernel timeouts fire,
the clock passes a deadline, the owner of the lock makes progress. A peer answers what is
asked repeatedly (strong fairness of `PeerAnswer`), which stands for retransmission. In
`AsyncSocket` the peer completes the handshake and acknowledges, and does not reset for ever;
there is no fairness of `SleepEnds`, so liveness does not rest on timers. In `NetworkInit` and
`Device` only the code's own threads are fair; `PollCommonEnds` has as its premise that frames cease
and that packets can be written, since an error of the writer makes `poll_common` start again. In
`Dhcp` a server that is asked again and again answers usably and in time again and again (strong
fairness of the two replies). Nothing is assumed of other hosts: that somebody polls again and again
is the premise of `LeaseWhilePolled`, because only frames and calls make a thread run `poll_common`
and none wakes up for the client's timer; without the premise TLC finds the client stuck with a
request that is queued and never sent. In `BuildScript` the developer starts the build
again after a failure.

## Findings

1. **Forgotten wakeup** (`executor.rs` 151-158; run `executor_forgotten_wakeup`).
   `unparked.swap(false)` and `sys_block_current_task` are two steps. A waker in between sets the
   flag and wakes a thread that is not blocked; the thread then blocks, the flag is not read
   again, and later wakers see it set and do not call the kernel. Calls whose sleep is timed
   recover (`executor_plain_kernel`); accept, and close while the peer's window is closed, sleep
   without a timeout.
2. **accept** (`mod.rs` 227-251; run `socket_accept`) returns in SynReceived. A read at that
   moment returns `Ok(0)`, and a reset puts the returned socket back into Listen, where it takes
   the next client (the exception of `HandleNamesOneConnection`).
3. **Netmask** (`device.rs` 134-146; run `netmask`). The code counts the trailing ones of each
   octet; a mask such as 255.255.240.0 gives 16, not 20, although the comment there asks for the
   "contiguous 1 bits, starting at the most significant bit". What it computes instead is
   `RoundsDownToOctets`.

Met while modelling, and visible in the definitions rather than in a run of their own:

4. **Initialisation** (`mod.rs` 389-415, `InitReturns`, `Answers`). `network_init` returns `Ok(())`
   whatever happened: the message of `lib.rs` 64-66 is unreachable with smoltcp, and the first
   `connect` or `accept` after a failure aborts the unikernel (`mod.rs` 179).
5. **Feature names** (`build.rs` 87 and 163, `KernelFeatures`, `Renamed`). `fsgs_base` and `mem` are
   tested, `Cargo.toml` declares `fsgsbase` and no `mem`: the kernel is never built with FSGSBASE,
   and memcpy and the like are never renamed.

## Proofs

Each `*Proofs` module extends its model and proves `Spec => []Inv` for an inductive invariant
`Inv` (one lemma per conjunct, one step per action in it), from which the properties of the runs
follow. The only assumptions are the named `ASSUME`s on the constants in the models, which every
run evaluates; no theorem listed in `PROJECT.json` assumes anything of `StickyWakeup`.

`ExecutorProofs`, for all threads, requests and kinds of calls. `LockInv`: the owner of the mutex is
the worker in `poll_common`. `TaskInv`: at most one worker runs `network_run`; before it locks the
NIC its waker is not registered, afterwards it is or the task will run again. `CallInv`, `OwnInv`:
calls own their requests. `RegisteredInv`: between a Pending poll and the end of the sleep the
waker is in the socket, or the socket is ready and the flag set. `TimedInv`: a thread that goes to
sleep without a timeout waits for the peer alone, or its socket is ready, from the moment it reads
the delay. `ProgressInv`: a request that nobody has polled yet is new, the answers in the device
are for sockets that wait, a deadline belongs to a call.

- `NetworkTaskNeverLost` is not inductive: that `RunDone` may leave the task idle needs to know
  that the runner has registered the waker (`NetworkTaskTheorem`).
- `EgressTheorem`, `PollingTheorem` and `SleepTheorem` follow from the conjuncts of their names.
- `ReadyTheorem` (with either kernel a thread that sleeps on a ready socket has its flag set: the
  socket has called its waker) follows from `RegisteredInv`, `WakeupTheorem` (only accept and close can
  sleep without a timeout) from `UntimedInv`. Together they say how far the code's own part of the
  hand-over goes. The rest is the kernel's: `NoForgottenWakeup` and `NoSleepOnReady` hold if it
  remembers early wakeups (run `executor_safety`; lemma `StickyWoken`, whose hypothesis is
  `StickyWakeup`), and `executor_forgotten_wakeup` refutes the first if it does not.
- `CallerTheorem` is the refinement of `BlockingCall`: every step of a thread, of the stack and of the
  peer is a step of one caller or of one condition, or a stutter. `ProgressInv` is there for it: the
  abstract condition can only be asked for while it is new and met while it is waited for.

`AsyncSocketProofs`, for every number of threads and every buffer size. `SleepInv` (a sleeper is in
the slot of its operation and its `poll_fn` is Pending) gives `SleepTheorem`; `FinTheorem` is
inductive by itself. The results of the calls need three more conjuncts. `CallInv`: while the
handle is being opened there is one opening call and nobody else can name the socket. `LifeInv`: the
socket is not closed before it is handed out, and is handed out half-open at least, so that a
handle in Listen or Closed has seen a FIN or a reset and is never in SynSent. `PeerInv`: what each TCP
state says of the peer and of FIN. From these: `EofTheorem`, `ConnectTheorem`, and `StreamTheorem`,
the refinement of `ByteStream` (`CallRefines` for the calls, `StackRefines` for smoltcp and the peer).

`SocketSetProofs`, for every number of threads, clients and sockets and every `PortSpace`. An effect
lemma for each operation says which socket, call or handle it changes; the lemmas on preservation rest on
those. `CallInv`: a call has a socket of its own, which no caller has been given. `OwnerInv`: a live
socket belongs to the application or to a call, unless the call has given up. `NameInv`:
`HandleNamesOneConnection`, and that a returned socket listens again only after a reset. `DrawInv`:
the draws of the sockets, and the connections named after them, are in the past. `PortInv`: less
than a round after its draw, the distance of the counter from a port is the number of draws since,
which makes `PortsApart` inductive although the counter wraps and skips 0. Theorems: `PortsTheorem`,
`HandleTheorem`, `OrphanTheorem`.

`NetworkInitProofs`: `OrderInv` (nic_thread and the network task exist only once the
interface does, at every place of the boot thread) gives `WorkersTheorem`, `MaskInv` with the
lemmas on netmasks `PrefixTheorem`. Those lemmas hold for all octets 0..255: the zeros and
ones of an octet from its bits, then the sum octet by octet up to the first octet that is not 255.

`DeviceProofs`, for any number of buffers: `TokenInv` ties `pc` to the two handles, `HeldInv` says
that exactly the buffers of the tokens and the refused ones are held; while a frame is answered both tokens are alive.
Theorems: `BorrowTheorem`, `FrameTheorem`.

`DhcpProofs`: types, and `LeaseTheorem`, whose invariant ties three variables together (`prev_cidr`, the
interface's address and the last lease).

`BuildScriptProofs`, for any number of runs, edits and interruptions: `FlagsInv` (every library
was built with the flags of the configuration, whichever run built it), `LinkInv` (once located, the
library exists, and once renamed its symbols stay so) and `VersionInv` (versions only grow, and a
run reads nothing older than what there was when it was started) give
`LinkedTheorem` and `FreshTheorem`.

Only model-checked, because fairness is outside of the prover: the liveness properties
`EveryCallReturns`, `CallsReturnUnlessForgotten`, `OpenAndCloseReturn`, `FramesHandled`,
`PollCommonEnds`, `LeaseWhilePolled` and `RetrySucceeds`. `NoForgottenWakeup` and `NoSleepOnReady`
are model-checked, and proved only under `StickyWakeup`. The three violations are counterexamples of TLC.

## Not modelled

`cmath.rs` (one-line wrappers of floating-point functions), `hermit-abi/src/lib.rs`
(declarations), the demo's floating-point algorithms, the benchmarks (programs that use the
stack, measure time and print), and the kernel and loader (submodules without contents).
Left out of modelled parts: keep-alive timers of a connection, ARP, the deprecated
`sys_tcp_stream_duplicate` (a stub nobody calls), the log level, the build with
`rustc-dep-of-std` (its build script does nothing), and the shared `temp_dir` that
`build.rs` uses on Windows, where two builds at a time may meet in one folder.

## Plan

All components with state are modelled, and every safety property of a passing run is a theorem,
except the two that depend on what the kernel does with an early wakeup.
What is left:

1. What accept does guarantee, as a property and a theorem of its own: a handle it returns is never
   in SynSent, and is in Listen or Closed only after a FIN or a reset (both are in `LifeInv`).
2. The seams between modules as theorems, where two models describe the same state: the five values
   of a socket in `SocketSet` against the TCP states of `AsyncSocket`.
3. The safety lemmas the liveness arguments rest on, such as what each step of `Executor` leaves
   enabled or scheduled.
