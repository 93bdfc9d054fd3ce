--------------------------- MODULE WakerRegistration ---------------------------
(***************************************************************************)
(* The one-slot waker registration of hermit-sys/src/net/waker.rs, as      *)
(* operators on the slot.  waker.rs is derived from the registration of    *)
(* smoltcp, which keeps one for each direction of a socket: AsyncSocket    *)
(* applies the operators there, where threads do overwrite each other's    *)
(* wakers.  With the slot of the interface only network_run registers, so  *)
(* that Executor reduces it to one bit (nicwaker).                         *)
(***************************************************************************)
CONSTANT
  None  \* the empty slot

(* A mutant of Replaced: the old waker is dropped without a call.           *)
ReplacedDropped(slot, w) == {}

(* WakerRegistration::register(w): what is stored, and whom it replaces and *)
(* therefore wakes.  A waker of the same task (will_wake) is kept.          *)
Stored(slot, w) == w
Replaced(slot, w) == {slot} \ {None, w}

(* WakerRegistration::wake: whom it wakes; the slot is None afterwards.     *)
Taken(slot) == {slot} \ {None}
================================================================================
