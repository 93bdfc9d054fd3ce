--------------------------- MODULE NetworkInitProofs ---------------------------
(***************************************************************************)
(* What holds of the initialisation, for every set of octets that a mask   *)
(* is made of: the arithmetic of the prefix, and the order in which the    *)
(* interface, its threads and the first calls come to be.                  *)
(***************************************************************************)
EXTENDS NetworkInit, TLAPS

Octet == 0..255
Mask == [1..4 -> Octet]

-----------------------------------------------------------------------------
(* The bits of an octet, without powers.                                    *)
LEMMA Bits ==
  ASSUME NEW b \in Octet
  PROVE  /\ Bit(b, 0) = b % 2           /\ Bit(b, 1) = (b \div 2) % 2
         /\ Bit(b, 2) = (b \div 4) % 2  /\ Bit(b, 3) = (b \div 8) % 2
         /\ Bit(b, 4) = (b \div 16) % 2 /\ Bit(b, 5) = (b \div 32) % 2
         /\ Bit(b, 6) = (b \div 64) % 2 /\ Bit(b, 7) = (b \div 128) % 2
<1>1. /\ 2^0 = 1 /\ 2^1 = 2 /\ 2^2 = 4 /\ 2^3 = 8
      /\ 2^4 = 16 /\ 2^5 = 32 /\ 2^6 = 64 /\ 2^7 = 128
  OBVIOUS
<1> QED BY <1>1 DEF Bit, Octet

(* An octet whose bits are all set is 255, one without bits is 0.           *)
LEMMA AllBits ==
  ASSUME NEW b \in Octet
  PROVE  /\ (\A k \in 0..7 : Bit(b, k) = 1) <=> b = 255
         /\ (\A k \in 0..7 : Bit(b, k) = 0) <=> b = 0
         /\ \A k \in 0..7 : Bit(b, k) \in {0, 1}
<1>1. \A k \in 0..7 : k \in {0, 1, 2, 3, 4, 5, 6, 7}
  OBVIOUS
<1>2. (\A k \in 0..7 : Bit(b, k) = 1) <=> b = 255
  BY <1>1, Bits DEF Octet
<1>3. (\A k \in 0..7 : Bit(b, k) = 0) <=> b = 0
  BY <1>1, Bits DEF Octet
<1>4. \A k \in 0..7 : Bit(b, k) \in {0, 1}
  BY <1>1, Bits DEF Octet
<1> QED BY <1>2, <1>3, <1>4

(* u8::trailing_zeros is at most 8, 8 only for 0 and 0 for an odd octet.    *)
LEMMA ZerosOfOctet ==
  ASSUME NEW b \in Octet
  PROVE  /\ TrailingZeros(b) \in 0..8
         /\ b # 0 => TrailingZeros(b) < 8
         /\ b = 0 => TrailingZeros(b) = 8
         /\ Bit(b, 0) = 1 => TrailingZeros(b) = 0
<1> DEFINE Lowest(k) == Bit(b, k) = 1 /\ \A j \in 0..(k - 1) : Bit(b, j) = 0
<1>1. CASE b = 0
  BY <1>1, Bits DEF TrailingZeros, Octet
<1>2. CASE b # 0
  <2>1. \E k \in 0..7 : Lowest(k)
    <3>1. SUFFICES ASSUME \A k \in 0..7 : ~Lowest(k) PROVE FALSE
      OBVIOUS
    <3>2. \A k \in 0..7 : (\A j \in 0..(k - 1) : Bit(b, j) = 0) => Bit(b, k) = 0
      BY <3>1, AllBits
    <3>3. Bit(b, 0) = 0 BY <3>2
    <3>4. Bit(b, 1) = 0 BY <3>2, <3>3
    <3>5. Bit(b, 2) = 0 BY <3>2, <3>3, <3>4
    <3>6. Bit(b, 3) = 0 BY <3>2, <3>3, <3>4, <3>5
    <3>7. Bit(b, 4) = 0 BY <3>2, <3>3, <3>4, <3>5, <3>6
    <3>8. Bit(b, 5) = 0 BY <3>2, <3>3, <3>4, <3>5, <3>6, <3>7
    <3>9. Bit(b, 6) = 0 BY <3>2, <3>3, <3>4, <3>5, <3>6, <3>7, <3>8
    <3>10. Bit(b, 7) = 0 BY <3>2, <3>3, <3>4, <3>5, <3>6, <3>7, <3>8, <3>9
    <3>11. \A k \in 0..7 : Bit(b, k) = 0
      BY <3>3, <3>4, <3>5, <3>6, <3>7, <3>8, <3>9, <3>10
    <3> QED BY <1>2, <3>11, AllBits
  <2>2. TrailingZeros(b) = CHOOSE k \in 0..7 : Lowest(k)
    BY <1>2 DEF TrailingZeros
  <2>3. TrailingZeros(b) \in 0..7 /\ Lowest(TrailingZeros(b))
    <3> HIDE DEF Lowest
    <3> QED BY <2>1, <2>2
  <2>4. Bit(b, 0) = 1 => TrailingZeros(b) = 0
    BY <2>3
  <2> QED BY <1>2, <2>3, <2>4
<1> QED BY <1>1, <1>2

(* An octet of the mask adds 8 only if it is 255, and nothing if its lowest *)
(* bit is missing.                                                          *)
LEMMA OnesOfOctet ==
  ASSUME NEW b \in Octet
  PROVE  /\ TrailingZeros(Not(b)) \in 0..8
         /\ TrailingZeros(Not(b)) = 8 <=> b = 255
         /\ Bit(b, 0) = 0 => TrailingZeros(Not(b)) = 0
<1>1. Not(b) \in Octet /\ (Not(b) = 0 <=> b = 255)
  BY DEF Not, Octet
<1>2. Bit(b, 0) = 0 => Bit(Not(b), 0) = 1
  BY <1>1, Bits DEF Not, Octet
<1> QED BY <1>1, <1>2, ZerosOfOctet

(* The length is 8 for every full octet at the start, and what the first    *)
(* other octet adds; it is a length of IPv4.                                *)
LEMMA PrefixOfMask ==
  ASSUME NEW mask \in Mask
  PROVE  /\ PrefixLen(mask) \in 0..32
         /\ (\A i \in 1..4 : mask[i] = 255) => PrefixLen(mask) = 32
         /\ \A j \in 1..4 :
              ((\A i \in 1..(j - 1) : mask[i] = 255) /\ mask[j] # 255)
                => PrefixLen(mask) = 8 * (j - 1) + TrailingZeros(Not(mask[j]))
<1> DEFINE T(k) == TrailingZeros(Not(mask[k]))
           A(n, k) == IF n = 8 * (k - 1) THEN n + T(k) ELSE n
<1>1. \A k \in 1..4 : mask[k] \in Octet
  BY DEF Mask
<1>2. \A k \in 1..4 : T(k) \in 0..8 /\ (T(k) = 8 <=> mask[k] = 255)
  BY <1>1, OnesOfOctet
<1>3. PrefixLen(mask) = A(A(A(A(0, 1), 2), 3), 4)
  BY DEF PrefixLen, AddOctet
<1> HIDE DEF T
<1>4. PrefixLen(mask) =
        IF mask[1] # 255 THEN T(1)
        ELSE IF mask[2] # 255 THEN 8 + T(2)
        ELSE IF mask[3] # 255 THEN 16 + T(3)
        ELSE 24 + T(4)
  BY <1>2, <1>3
<1>5. PrefixLen(mask) \in 0..32
  BY <1>2, <1>4
<1>6. (\A i \in 1..4 : mask[i] = 255) => PrefixLen(mask) = 32
  BY <1>2, <1>4
<1>7. ASSUME NEW j \in 1..4, \A i \in 1..(j - 1) : mask[i] = 255, mask[j] # 255
      PROVE  PrefixLen(mask) = 8 * (j - 1) + T(j)
  <2>1. CASE j = 1 BY <1>2, <1>4, <1>7, <2>1
  <2>2. CASE j = 2 BY <1>2, <1>4, <1>7, <2>2
  <2>3. CASE j = 3 BY <1>2, <1>4, <1>7, <2>3
  <2>4. CASE j = 4 BY <1>2, <1>4, <1>7, <2>4
  <2> QED BY <2>1, <2>2, <2>3, <2>4
<1> QED BY <1>5, <1>6, <1>7 DEF T

(* A mask has a number of leading ones.                                     *)
LEMMA LeadingOnesOfMask ==
  ASSUME NEW mask \in Mask
  PROVE  /\ LeadingOnes(mask) \in 0..32
         /\ \A k \in 0..(LeadingOnes(mask) - 1) : MaskBit(mask, k) = 1
         /\ LeadingOnes(mask) < 32 => MaskBit(mask, LeadingOnes(mask)) = 0
<1> DEFINE Ones(n) == \A k \in 0..(n - 1) : MaskBit(mask, k) = 1
           Ends(n) == Ones(n) /\ (n < 32 => MaskBit(mask, n) = 0)
<1>1. \A k \in 0..31 : MaskBit(mask, k) \in {0, 1}
  <2> SUFFICES ASSUME NEW k \in 0..31 PROVE MaskBit(mask, k) \in {0, 1}
    OBVIOUS
  <2>1. (k \div 8) + 1 \in 1..4 /\ 7 - (k % 8) \in 0..7
    OBVIOUS
  <2>2. mask[(k \div 8) + 1] \in Octet
    BY <2>1 DEF Mask
  <2> QED BY <2>1, <2>2, AllBits DEF MaskBit
<1>2. \E n \in 0..32 : Ends(n)
  <2> SUFFICES ASSUME \A n \in 0..32 : ~Ends(n) PROVE FALSE
    OBVIOUS
  <2>1. \A n \in 0..31 : Ones(n) => Ones(n + 1)
    BY <1>1
  <2>2. ~Ones(32)
    OBVIOUS
  <2>3. Ones(0)
    OBVIOUS
  <2> HIDE DEF Ones
  <2>4. Ones(8)
    BY <2>1, <2>3
  <2>5. Ones(16)
    BY <2>1, <2>4
  <2>6. Ones(24)
    BY <2>1, <2>5
  <2>7. Ones(32)
    BY <2>1, <2>6
  <2> QED BY <2>2, <2>7
<1>3. LeadingOnes(mask) = CHOOSE n \in 0..32 : Ends(n)
  BY DEF LeadingOnes
<1>4. LeadingOnes(mask) \in 0..32 /\ Ends(LeadingOnes(mask))
  <2> HIDE DEF Ends
  <2> QED BY <1>2, <1>3
<1> QED BY <1>4

(* In a contiguous mask the first octet that is not full ends the ones, and *)
(* its lowest bit is not set.                                               *)
LEMMA FirstGap ==
  ASSUME NEW mask \in Mask, Contiguous(mask), NEW j \in 1..4,
         \A i \in 1..(j - 1) : mask[i] = 255, mask[j] # 255
  PROVE  LeadingOnes(mask) \div 8 = j - 1 /\ Bit(mask[j], 0) = 0
<1> DEFINE L == LeadingOnes(mask)
<1>1. /\ L \in 0..32
      /\ \A k \in 0..(L - 1) : MaskBit(mask, k) = 1
      /\ L < 32 => MaskBit(mask, L) = 0
  BY LeadingOnesOfMask
<1>2. \A k \in 0..31 : MaskBit(mask, k) = 1 => k < L
  BY DEF Contiguous
<1>3. mask[j] \in Octet
  BY DEF Mask
<1> HIDE DEF L
<1>4. PICK b \in 0..7 : Bit(mask[j], b) = 0
  BY <1>3, AllBits
<1>5. \A k \in 0..(8 * (j - 1) - 1) : MaskBit(mask, k) = 1
  <2> SUFFICES ASSUME NEW k \in 0..(8 * (j - 1) - 1) PROVE MaskBit(mask, k) = 1
    OBVIOUS
  <2>1. (k \div 8) + 1 \in 1..(j - 1) /\ 7 - (k % 8) \in 0..7
    OBVIOUS
  <2>2. mask[(k \div 8) + 1] = 255
    BY <2>1
  <2> QED BY <2>1, <2>2, AllBits DEF MaskBit, Octet
<1>6. \A i \in 0..7 : MaskBit(mask, 8 * (j - 1) + i) = Bit(mask[j], 7 - i)
  <2> SUFFICES ASSUME NEW i \in 0..7 PROVE MaskBit(mask, 8 * (j - 1) + i) = Bit(mask[j], 7 - i)
    OBVIOUS
  <2>1. (8 * (j - 1) + i) \div 8 = j - 1 /\ (8 * (j - 1) + i) % 8 = i
    OBVIOUS
  <2> QED BY <2>1 DEF MaskBit
<1>7. MaskBit(mask, 8 * (j - 1) + (7 - b)) = 0
  BY <1>4, <1>6
<1>8. L <= 8 * (j - 1) + (7 - b)
  BY <1>1, <1>7
<1>9. L >= 8 * (j - 1)
  BY <1>1, <1>2, <1>5, <1>8
<1>10. L \div 8 = j - 1
  BY <1>1, <1>8, <1>9
<1>11. MaskBit(mask, 8 * (j - 1) + 7) # 1
  BY <1>1, <1>2, <1>8
<1>12. Bit(mask[j], 0) = 0
  BY <1>3, <1>6, <1>11, AllBits
<1> QED BY <1>10, <1>12 DEF L

(* device.rs 134-146 rounds a contiguous mask down to whole octets.         *)
LEMMA Rounding ==
  ASSUME NEW mask \in Mask, Contiguous(mask)
  PROVE  PrefixLen(mask) = 8 * (LeadingOnes(mask) \div 8)
<1>1. \A i \in 1..4 : mask[i] \in Octet
  BY DEF Mask
<1>2. CASE \A i \in 1..4 : mask[i] = 255
  <2>1. \A k \in 0..31 : MaskBit(mask, k) = 1
    <3> SUFFICES ASSUME NEW k \in 0..31 PROVE MaskBit(mask, k) = 1
      OBVIOUS
    <3>1. (k \div 8) + 1 \in 1..4 /\ 7 - (k % 8) \in 0..7
      OBVIOUS
    <3>2. mask[(k \div 8) + 1] = 255
      BY <1>2, <3>1
    <3> QED BY <3>1, <3>2, AllBits DEF MaskBit, Octet
  <2>2. LeadingOnes(mask) = 32
    BY <2>1, LeadingOnesOfMask
  <2> QED BY <1>2, <2>2, PrefixOfMask
<1>3. ASSUME NEW j \in 1..4, \A i \in 1..(j - 1) : mask[i] = 255, mask[j] # 255
      PROVE  PrefixLen(mask) = 8 * (LeadingOnes(mask) \div 8)
  <2>1. LeadingOnes(mask) \div 8 = j - 1 /\ Bit(mask[j], 0) = 0
    BY <1>3, FirstGap
  <2>2. TrailingZeros(Not(mask[j])) = 0
    BY <1>1, <2>1, OnesOfOctet
  <2>3. PrefixLen(mask) = 8 * (j - 1) + TrailingZeros(Not(mask[j]))
    BY <1>3, PrefixOfMask
  <2> QED BY <2>1, <2>2, <2>3
<1>4. (\A i \in 1..4 : mask[i] = 255) \/
      \E j \in 1..4 : (\A i \in 1..(j - 1) : mask[i] = 255) /\ mask[j] # 255
  <2>1. CASE mask[1] # 255 BY <2>1
  <2>2. CASE mask[1] = 255 /\ mask[2] # 255 BY <2>2
  <2>3. CASE mask[1] = 255 /\ mask[2] = 255 /\ mask[3] # 255 BY <2>3
  <2>4. CASE mask[1] = 255 /\ mask[2] = 255 /\ mask[3] = 255 /\ mask[4] # 255 BY <2>4
  <2>5. CASE mask[1] = 255 /\ mask[2] = 255 /\ mask[3] = 255 /\ mask[4] = 255 BY <2>5
  <2> QED BY <2>1, <2>2, <2>3, <2>4, <2>5
<1> QED BY <1>2, <1>3, <1>4

-----------------------------------------------------------------------------
(* What is started before the interface: nothing, and nothing without       *)
(* smoltcp; afterwards the interface is there.                              *)
OrderInv ==
  /\ boot \in {"logger", "lock", "new", "dead"} => nic = "Missing"
  /\ boot \in {"logger", "lock", "new", "dead"} => worker = "none" /\ task = "none"
  /\ boot \in {"poll", "spawn", "task"} => nic = "Initialized"
  /\ boot \in {"lock", "new", "poll", "spawn", "task", "return", "dead"} => "smoltcp" \in features
  /\ worker # "none" => nic = "Initialized"
  /\ task # "none" => nic = "Initialized"
  /\ task # "ended"

(* The prefix is the one of the mask.                                       *)
MaskInv == mymask # None => mymask \in Mask /\ prefix_len = PrefixLen(mymask)

Inv == TypeOK /\ OrderInv /\ MaskInv

(* Every step keeps the types, the prefix being a length of IPv4.           *)
LEMMA TypeStep == ASSUME TypeOK, OrderInv, [Next]_vars PROVE TypeOK'
<1> USE DEF TypeOK, nicVars, ifaceVars
<1>1. CASE InitLogger BY <1>1 DEF InitLogger
<1>2. CASE LockNic BY <1>2 DEF LockNic
<1>3. CASE NewFails BY <1>3 DEF NewFails
<1>4. CASE NewPanics BY <1>4 DEF NewPanics
<1>5. CASE New
  <2>1. mymask' \in [1..4 -> Octets] \cup {None} /\ prefix_len' \in 0..32
    <3>1. CASE "dhcpv4" \in features BY <1>5, <3>1 DEF New
    <3>2. CASE "dhcpv4" \notin features
      <4>1. PICK mask \in [1..4 -> Octets] : mymask' = mask /\ prefix_len' = PrefixLen(mask)
        BY <1>5, <3>2 DEF New
      <4>2. mask \in Mask
        BY InitAssumption DEF Mask, Octet
      <4> QED BY <4>1, <4>2, PrefixOfMask
    <3> QED BY <3>1, <3>2
  <2> QED BY <1>5, <2>1 DEF New
<1>6. CASE FirstPoll BY <1>6 DEF FirstPoll
<1>7. CASE SpawnNicThread BY <1>7 DEF SpawnNicThread
<1>8. CASE SpawnTask BY <1>8 DEF SpawnTask
<1>9. CASE InitReturns BY <1>9 DEF InitReturns
<1>10. CASE NetWait
  <2>1. irq' \in BOOLEAN /\ UNCHANGED <<frame, polling, aborted>> /\ worker' = "lock"
    BY <1>10 DEF NetWait
  <2> QED BY <1>10, <2>1 DEF NetWait
<1>11. CASE NicLock BY <1>11 DEF NicLock
<1>12. CASE NicPoll BY <1>12 DEF NicPoll
<1>13. CASE Arrive
  <2>1. irq' \in BOOLEAN /\ frame' = TRUE
    BY <1>13 DEF Arrive
  <2> QED BY <1>13, <2>1 DEF Arrive
<1>14. ASSUME NEW f \in Functions, Call(f) PROVE TypeOK'
  <2>1. PICK a \in Answers(f) :
          /\ aborted' = (a = "panic")
          /\ handle' = IF f \in Opening /\ a = "ok" THEN "open" ELSE handle
    BY <1>14 DEF Call
  <2>2. task' \in {"none", "queued", "idle", "ended"} /\ frame' \in BOOLEAN /\ polling' \in BOOLEAN
    BY <1>14 DEF Call
  <2>3. aborted' \in BOOLEAN
    BY <2>1
  <2> QED BY <1>14, <2>1, <2>2, <2>3 DEF Call
<1>15. CASE PollOn BY <1>15 DEF PollOn
<1>16. CASE UNCHANGED vars BY <1>16 DEF vars
<1> HIDE DEF TypeOK
<1> QED
  BY <1>1, <1>2, <1>3, <1>4, <1>5, <1>6, <1>7, <1>8, <1>9, <1>10, <1>11, <1>12, <1>13, <1>14, <1>15, <1>16
     DEF Next, BootStep

(* network_init starts nothing before New has succeeded, and nothing takes  *)
(* the interface away afterwards.                                           *)
LEMMA OrderStep == ASSUME TypeOK, OrderInv, [Next]_vars PROVE OrderInv'
<1> USE DEF TypeOK, OrderInv, nicVars, ifaceVars
<1>1. CASE InitLogger BY <1>1 DEF InitLogger
<1>2. CASE LockNic BY <1>2 DEF LockNic
<1>3. CASE NewFails BY <1>3 DEF NewFails
<1>4. CASE NewPanics BY <1>4 DEF NewPanics
<1>5. CASE New BY <1>5 DEF New
<1>6. CASE FirstPoll BY <1>6 DEF FirstPoll
<1>7. CASE SpawnNicThread BY <1>7 DEF SpawnNicThread
<1>8. CASE SpawnTask BY <1>8 DEF SpawnTask
<1>9. CASE InitReturns BY <1>9 DEF InitReturns
<1>10. CASE NetWait BY <1>10 DEF NetWait
<1>11. CASE NicLock BY <1>11 DEF NicLock
<1>12. CASE NicPoll BY <1>12 DEF NicPoll
<1>13. CASE Arrive BY <1>13 DEF Arrive
<1>14. ASSUME NEW f \in Functions, Call(f) PROVE OrderInv'
  BY <1>14 DEF Call
<1>15. CASE PollOn BY <1>15 DEF PollOn
<1>16. CASE UNCHANGED vars BY <1>16 DEF vars
<1> HIDE DEF OrderInv
<1> QED
  BY <1>1, <1>2, <1>3, <1>4, <1>5, <1>6, <1>7, <1>8, <1>9, <1>10, <1>11, <1>12, <1>13, <1>14, <1>15, <1>16
     DEF Next, BootStep

(* Only New writes the prefix, and it writes the prefix of the mask.        *)
LEMMA MaskStep == ASSUME MaskInv, [Next]_vars PROVE MaskInv'
<1> USE DEF MaskInv
<1>1. CASE New
  <2>1. CASE "dhcpv4" \in features BY <1>1, <2>1 DEF New
  <2>2. CASE "dhcpv4" \notin features
    <3>1. PICK mask \in [1..4 -> Octets] : mymask' = mask /\ prefix_len' = PrefixLen(mask)
      BY <1>1, <2>2 DEF New
    <3>2. mask \in Mask
      BY InitAssumption DEF Mask, Octet
    <3> QED BY <3>1, <3>2
  <2> QED BY <2>1, <2>2
<1>2. CASE UNCHANGED <<mymask, prefix_len>> BY <1>2
<1> HIDE DEF MaskInv
<1> QED
  BY <1>1, <1>2
     DEF Next, BootStep, InitLogger, LockNic, NewFails, NewPanics, FirstPoll, SpawnNicThread,
         SpawnTask, InitReturns, NetWait, NicLock, NicPoll, Arrive, PollOn, Call, vars, ifaceVars

-----------------------------------------------------------------------------
(* Inv is an invariant of the initialisation.                               *)
THEOREM InitInvariant == Spec => []Inv
<1>1. Init => Inv
  <2> SUFFICES ASSUME Init PROVE Inv
    OBVIOUS
  <2>1. features \subseteq {"smoltcp", "dhcpv4"} /\ prefix_len \in 0..32
    BY DEF Init
  <2>2. TypeOK
    BY <2>1 DEF Init, TypeOK
  <2>3. OrderInv /\ MaskInv
    BY DEF Init, OrderInv, MaskInv
  <2> QED BY <2>2, <2>3 DEF Inv
<1>2. Inv /\ [Next]_vars => Inv'
  BY TypeStep, OrderStep, MaskStep DEF Inv
<1> QED
  BY <1>1, <1>2, PTL DEF Spec

(* The types, with a prefix of at most 32 bits for every mask.              *)
THEOREM InitTypes == Spec => []TypeOK
<1>1. Inv => TypeOK
  BY DEF Inv
<1> QED
  BY <1>1, InitInvariant, PTL

(* mod.rs 366-415: nic_thread and network_run find the interface that       *)
(* network_init has put there.                                              *)
THEOREM WorkersTheorem == Spec => []WorkersFindNetwork
<1>1. Inv => WorkersFindNetwork
  BY DEF Inv, OrderInv, WorkersFindNetwork
<1> QED
  BY <1>1, InitInvariant, PTL

(* device.rs 134-146: for every contiguous mask the configured prefix is    *)
(* its length rounded down to whole octets.                                 *)
THEOREM PrefixTheorem == Spec => []RoundsDownToOctets
<1>1. Inv => RoundsDownToOctets
  BY Rounding DEF Inv, MaskInv, RoundsDownToOctets
<1> QED
  BY <1>1, InitInvariant, PTL
=============================================================================
