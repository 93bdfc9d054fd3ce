-------------------------------- MODULE Netmask --------------------------------
(***************************************************************************)
(* The netmask length that hermit-sys/src/net/device.rs (134-146) computes *)
(* from the four octets of HERMIT_MASK when the interface is built without *)
(* DHCP, and the length that a mask has.                                   *)
(***************************************************************************)
EXTENDS Naturals

Bit(b, k) == (b \div 2^k) % 2

(* A mutant of Not: the octet is not inverted.                              *)
NotMissing(b) == b

(* !x of an u8.                                                             *)
Not(b) == 255 - b

(* u8::trailing_zeros: 8 for zero.                                          *)
TrailingZeros(b) ==
  IF b = 0 THEN 8 ELSE CHOOSE k \in 0..7 : Bit(b, k) = 1 /\ \A j \in 0..(k - 1) : Bit(b, j) = 0

(* The part of octet k is added to length n if the octets before it count   *)
(* in full: prefix_len == 8, 16, 24.                                        *)
AddOctet(n, mask, k) == IF n = 8 * (k - 1) THEN n + TrailingZeros(Not(mask[k])) ELSE n

PrefixLen(mask) ==
  AddOctet(AddOctet(AddOctet(AddOctet(0, mask, 1), mask, 2), mask, 3), mask, 4)

-----------------------------------------------------------------------------
(* Bit k of a mask, from the most significant bit of the first octet, and   *)
(* the number of contiguous 1 bits there.                                   *)
MaskBit(mask, k) == Bit(mask[(k \div 8) + 1], 7 - (k % 8))

LeadingOnes(mask) == CHOOSE n \in 0..32 :
  /\ \A k \in 0..(n - 1) : MaskBit(mask, k) = 1
  /\ n < 32 => MaskBit(mask, n) = 0

Contiguous(mask) == \A k \in 0..31 : MaskBit(mask, k) = 1 => k < LeadingOnes(mask)
=============================================================================
