------------------------- MODULE RingBuffer_proofs -------------------------
(***************************************************************************)
(* With one packet waiting at most, as the driver has it, RingBuffer takes *)
(* the steps of PacketQueue but for the completions at which its counter   *)
(* wraps, for any size of the ring and any width of the counters.  With a  *)
(* size that divides the range of the counters it implements PacketQueue,  *)
(* however many packets may wait.                                          *)
(***************************************************************************)
EXTENDS RingBuffer, SequenceTheorems, TLAPS

\* What the ring needs of its counters: they wrap at a multiple of its size.
SizeDividesWrap == Wrap % Size = 0 /\ Word % Size = 0

-----------------------------------------------------------------------------
(* Arithmetic modulo the size of the ring.                                 *)

LEMMA Remainder ==
    ASSUME NEW a \in Int, NEW s \in Nat \ {0}
    PROVE  /\ a % s \in 0..(s - 1)
           /\ \E q \in Int : a - (a % s) = s * q
<1>1. a % s \in 0..(s - 1)
  OBVIOUS
<1>2. a \div s \in Int /\ a - (a % s) = s * (a \div s)
  OBVIOUS
<1> QED
  BY <1>1, <1>2

LEMMA Multiple ==
    ASSUME NEW s \in Nat \ {0}, NEW q \in Int
    PROVE  /\ q >= 1 => s * q >= s
           /\ q <= -1 => s * q <= -s
           /\ q = 0 => s * q = 0
OBVIOUS

LEMMA Distributes ==
    ASSUME NEW s \in Nat, NEW p \in Int, NEW q \in Int
    PROVE  /\ s * (p - q) = s * p - s * q
           /\ s * (p + q) = s * p + s * q
           /\ s * (p * q) = (s * p) * q
OBVIOUS

LEMMA Small ==
    ASSUME NEW a \in Nat, NEW s \in Nat \ {0}, a < s
    PROVE  a % s = a
OBVIOUS

LEMMA Remainder0 ==
    ASSUME NEW s \in Nat \ {0}
    PROVE  s % s = 0
OBVIOUS

\* Numbers with the same remainder differ by a multiple.
LEMMA SameRemainder ==
    ASSUME NEW a \in Int, NEW b \in Int, NEW s \in Nat \ {0}, a % s = b % s
    PROVE  \E q \in Int : b - a = s * q
<1>1. PICK p \in Int : a - (a % s) = s * p
  BY Remainder
<1>2. PICK q \in Int : b - (b % s) = s * q
  BY Remainder
<1>3. a % s \in Int
  BY Remainder
<1>4. b - a = s * q - s * p
  BY <1>1, <1>2, <1>3
<1>5. b - a = s * (q - p)
  BY <1>4, Distributes
<1> QED
  BY <1>5

\* Numbers less than s apart have different remainders.
LEMMA Apart ==
    ASSUME NEW a \in Int, NEW b \in Int, NEW s \in Nat \ {0}, a < b, b - a < s
    PROVE  a % s # b % s
<1> SUFFICES ASSUME a % s = b % s
             PROVE  FALSE
  OBVIOUS
<1>1. PICK q \in Int : b - a = s * q
  BY SameRemainder
<1>2. CASE q >= 1
  BY <1>1, <1>2, Multiple
<1>3. CASE q <= -1
  BY <1>1, <1>3, Multiple
<1>4. CASE q = 0
  BY <1>1, <1>4, Multiple
<1> QED
  BY <1>2, <1>3, <1>4

\* Numbers a multiple of s apart have the same remainder.
LEMMA Shifted ==
    ASSUME NEW a \in Int, NEW b \in Int, NEW s \in Nat \ {0},
           \E q \in Int : b - a = s * q
    PROVE  a % s = b % s
<1>0. PICK q \in Int : b - a = s * q
  OBVIOUS
<1>1. PICK p \in Int : a - (a % s) = s * p
  BY Remainder
<1>2. PICK r \in Int : b - (b % s) = s * r
  BY Remainder
<1>3. a % s \in 0..(s - 1) /\ b % s \in 0..(s - 1)
  BY Remainder
<1> DEFINE d == q + p - r
<1>4. (b % s) - (a % s) = s * q + s * p - s * r
  BY <1>0, <1>1, <1>2, <1>3
<1>5. (b % s) - (a % s) = s * d
  BY <1>4, Distributes
<1>6. d \in Int
  OBVIOUS
<1> HIDE DEF d
<1>7. CASE d >= 1
  BY <1>3, <1>5, <1>6, <1>7, Multiple
<1>8. CASE d <= -1
  BY <1>3, <1>5, <1>6, <1>8, Multiple
<1>9. CASE d = 0
  BY <1>3, <1>5, <1>9, Multiple
<1> QED
  BY <1>6, <1>7, <1>8, <1>9

\* Reducing modulo a multiple of s first changes nothing.
LEMMA Reduced ==
    ASSUME NEW a \in Int, NEW s \in Nat \ {0}, NEW w \in Nat \ {0}, w % s = 0
    PROVE  (a % w) % s = a % s
<1>1. PICK p \in Int : a - (a % w) = w * p
  BY Remainder
<1>2. a % w \in Int /\ w \in Int
  BY Remainder
<1>3. PICK k \in Int : w - (w % s) = s * k
  BY <1>2, Remainder, Zenon
<1>4. w - 0 = s * k
  BY <1>3, Zenon
<1>5. w = s * k
  BY <1>4
<1>6. a - (a % w) = (s * k) * p
  BY <1>1, <1>5
<1>7. a - (a % w) = s * (k * p) /\ k * p \in Int
  BY <1>6, Distributes
<1>8. \E q \in Int : a - (a % w) = s * q
  BY <1>7, Zenon
<1> QED
  BY <1>2, <1>8, Shifted

-----------------------------------------------------------------------------
(* Where RINGBUFLOC points.                                                *)

LEMMA Sizes == /\ Size \in Nat \ {0} /\ Wrap \in Nat \ {0} /\ Word \in Nat \ {0}
               /\ Unread \in Nat /\ Unread < Size /\ Size <= Wrap
BY RingAssumption

LEMMA LocInRing ==
    ASSUME NEW l \in Int
    PROVE  Loc(l) \in Index
<1>1. l % Word \in Int
  BY Sizes, Remainder
<1>2. (l % Word) % Size \in 0..(Size - 1)
  BY <1>1, Sizes, Remainder
<1> QED
  BY <1>2 DEF Loc, Index

LEMMA LocIsRemainder ==
    ASSUME SizeDividesWrap, NEW l \in Int
    PROVE  Loc(l) = l % Size /\ Loc(l) \in Index
<1>1. (l % Word) % Size = l % Size
  BY Sizes, Reduced DEF SizeDividesWrap
<1>2. l % Size \in 0..(Size - 1)
  BY Sizes, Remainder
<1> QED
  BY <1>1, <1>2 DEF Loc, Index

\* Slots less than the size of the ring apart are different slots.
LEMMA DistinctSlots ==
    ASSUME SizeDividesWrap, NEW a \in Int, NEW b \in Int, a < b, b - a < Size
    PROVE  Loc(a) # Loc(b)
<1>1. Loc(a) = a % Size /\ Loc(b) = b % Size
  BY LocIsRemainder
<1>2. a % Size # b % Size
  BY Sizes, Apart
<1> QED
  BY <1>1, <1>2

\* A wrapped counter points where the counter would without a width.
LEMMA WrappedSlot ==
    ASSUME SizeDividesWrap, NEW c \in Int, NEW l \in Int
    PROVE  Loc((c % Wrap) + l) = Loc(c + l)
<1> DEFINE r == c % Wrap
<1>1. PICK q \in Int : c - r = Wrap * q
  BY Sizes, Remainder
<1>2. PICK k \in Int : Wrap - (Wrap % Size) = Size * k
  <2>1. Wrap \in Int
    BY Sizes
  <2> QED
    BY <2>1, Sizes, Remainder, Zenon
<1>3. r \in Int
  BY Sizes, Remainder
<1> HIDE DEF r
<1>4. Wrap - 0 = Size * k
  BY <1>2, Zenon DEF SizeDividesWrap
<1>5. Wrap = Size * k
  BY <1>4, Sizes
<1>6. c - r = (Size * k) * q
  BY <1>1, <1>5
<1>7. (c + l) - (r + l) = Size * (k * q) /\ k * q \in Int
  BY <1>3, <1>6, Distributes, Sizes
<1>8. \E p \in Int : (c + l) - (r + l) = Size * p
  BY <1>7, Zenon
<1>9. (r + l) % Size = (c + l) % Size
  <2> DEFINE x == r + l
             y == c + l
  <2>1. x \in Int /\ y \in Int /\ \E p \in Int : y - x = Size * p
    BY <1>3, <1>8
  <2> HIDE DEF x, y
  <2>2. x % Size = y % Size
    BY <2>1, Shifted, Sizes
  <2> QED
    BY <2>2, Zenon DEF x, y
<1>10. Loc(r + l) = (r + l) % Size /\ Loc(c + l) = (c + l) % Size
  BY <1>3, LocIsRemainder
<1> QED
  BY <1>9, <1>10 DEF r

-----------------------------------------------------------------------------
(* The invariant: the types, and room in the ring.                         *)

RingInv == TypeOK /\ count <= Unread

LEMMA Counters ==
    ASSUME RingInv
    PROVE  /\ cur \in Int /\ count \in Nat /\ Unread < Wrap
           /\ count > 0 => (count - 1) % Wrap = count - 1
           /\ count < Unread => (count + 1) % Wrap = count + 1
           /\ (cur + 1) % Wrap \in 0..(Wrap - 1)
<1>1. cur \in Int /\ count \in Nat /\ count <= Unread /\ Unread < Wrap
  BY Sizes DEF RingInv, TypeOK
<1>2. count > 0 => (count - 1) % Wrap = count - 1
  BY <1>1, Sizes, Small
<1>3. count < Unread => (count + 1) % Wrap = count + 1
  BY <1>1, Sizes, Small
<1>4. (cur + 1) % Wrap \in 0..(Wrap - 1)
  BY <1>1, Sizes, Remainder
<1> QED
  BY <1>1, <1>2, <1>3, <1>4

LEMMA RingInvInit == Init => RingInv
<1> SUFFICES ASSUME Init
             PROVE  RingInv
  OBVIOUS
<1>1. 0 \in 0..(Wrap - 1) /\ 0 <= Unread
  BY Sizes
<1>2. <<>> \in Seq(Chunk)
  OBVIOUS
<1> QED
  BY <1>1, <1>2 DEF Init, RingInv, TypeOK

LEMMA RingInvNext == RingInv /\ [Next]_ringVars => RingInv'
<1> SUFFICES ASSUME RingInv, [Next]_ringVars
             PROVE  RingInv'
  OBVIOUS
<1>1. /\ cur \in Int /\ count \in Nat
      /\ Filling \in Index /\ Oldest \in Index
  BY Counters, LocInRing DEF Filling, Oldest
<1>2. ASSUME NEW c \in Chunk, StoreAt(Filling, <<c>>)
      PROVE  RingInv'
  BY <1>1, <1>2 DEF StoreAt, RingInv, TypeOK
<1>3. ASSUME count < Unread, PacketReady
      PROVE  RingInv'
  <2>1. CASE Len(slot[Filling]) >= MinLen
    <3>1. /\ cur' = (cur + 1) % Wrap /\ count' = count + 1
          /\ slot' = [slot EXCEPT ![Loc(cur' + 1)] = <<>>]
          /\ UNCHANGED <<filtering, got>>
      BY <1>3, <2>1, Counters DEF PacketReady
    <3>2. cur' \in 0..(Wrap - 1) /\ count' \in 0..(Wrap - 1) /\ count' <= Unread
      BY <1>3, <3>1, Counters, Sizes
    <3>3. slot' \in [Index -> Seq(Chunk)]
      <4>1. <<>> \in Seq(Chunk)
        OBVIOUS
      <4> QED
        BY <3>1, <4>1 DEF RingInv, TypeOK
    <3> QED
      BY <3>1, <3>2, <3>3 DEF RingInv, TypeOK
  <2>2. CASE ~(Len(slot[Filling]) >= MinLen)
    BY <1>3, <2>2 DEF PacketReady, RingInv, TypeOK, ringVars
  <2> QED
    BY <2>1, <2>2
<1>4. CASE Take
  BY <1>1, <1>4, Counters, Sizes DEF Take, RingInv, TypeOK
<1>5. CASE Drop
  BY <1>1, <1>5, Counters, Sizes DEF Drop, RingInv, TypeOK
<1>6. CASE SetPacketFilter
  BY <1>6 DEF SetPacketFilter, RingInv, TypeOK
<1>7. CASE UNCHANGED ringVars
  BY <1>7 DEF ringVars, RingInv, TypeOK
<1> QED
  BY <1>2, <1>3, <1>4, <1>5, <1>6, <1>7 DEF Next

-----------------------------------------------------------------------------
(* The refinement.                                                         *)

LEMMA WaitingIsSeq ==
    ASSUME RingInv, SizeDividesWrap
    PROVE  /\ Waiting \in Seq(Seq(Chunk))
           /\ Len(Waiting) = count
           /\ \A i \in 1..count : Waiting[i] = slot[Loc(cur - count + i)]
<1>1. \A i \in 1..count : slot[Loc(cur - count + i)] \in Seq(Chunk)
  BY Counters, LocIsRemainder DEF RingInv, TypeOK
<1> QED
  BY <1>1, Counters DEF Waiting

\* Bytes that arrive leave the packets that wait alone.
LEMMA StoreRefines ==
    ASSUME SizeDividesWrap, RingInv, NEW c \in Chunk,
           count < Unread, Len(slot[Filling]) < MaxLen, StoreAt(Filling, <<c>>)
    PROVE  Queue!Receive(c)
<1>1. \A i \in 1..count : Loc(cur - count + i) # Filling
  BY DistinctSlots, Counters, Sizes DEF Filling, RingInv
<1>2. Filling \in Index /\ slot[Filling] \in Seq(Chunk) /\ Filling' = Filling
  BY Counters, LocIsRemainder DEF Filling, RingInv, TypeOK, StoreAt
<1>3. slot'[Filling] = Append(slot[Filling], c)
  BY <1>2 DEF StoreAt, RingInv, TypeOK
<1>4. \A i \in 1..count : slot'[Loc(cur - count + i)] = slot[Loc(cur - count + i)]
  <2> TAKE i \in 1..count
  <2>1. Loc(cur - count + i) \in Index
    BY Counters, LocIsRemainder
  <2> DEFINE l == Loc(cur - count + i)
  <2>2. l \in Index /\ l # Filling
    BY <1>1, <2>1
  <2> HIDE DEF l
  <2> QED
    BY <1>2, <2>2 DEF StoreAt, RingInv, TypeOK, l
<1>5. cur' = cur /\ count' = count /\ UNCHANGED <<filtering, got>>
  BY DEF StoreAt
<1>6. Waiting' = Waiting
  <2>1. Waiting' = [i \in 1..count |-> slot'[Loc(cur - count + i)]]
    BY <1>5 DEF Waiting, Loc
  <2> QED
    BY <2>1, <1>4, Zenon DEF Waiting
<1>7. Len(Waiting) < Unread
  BY WaitingIsSeq
<1> QED
  BY <1>2, <1>3, <1>5, <1>6, <1>7 DEF Queue!Receive

\* Completing a packet moves the slot being filled to the end of the queue, and
\* the slot cleared for the next packet holds none that waits.
LEMMA ReadyRefines ==
    ASSUME SizeDividesWrap, RingInv, count < Unread, PacketReady,
           Len(slot[Filling]) >= MinLen
    PROVE  Queue!Complete
<1>1. /\ cur' = (cur + 1) % Wrap /\ count' = count + 1
      /\ slot' = [slot EXCEPT ![Loc(cur' + 1)] = <<>>]
      /\ UNCHANGED <<filtering, got>>
  BY Counters DEF PacketReady
<1>2. \A l \in Int : Loc(cur' + l) = Loc(cur + 1 + l)
  BY <1>1, WrappedSlot, Counters
<1>3. Loc(cur' + 1) = Loc(cur + 2) /\ Loc(cur + 2) \in Index
  <2>1. cur \in Int /\ cur + 1 + 1 = cur + 2 /\ cur + 2 \in Int
    BY Counters
  <2>2. Loc(cur' + 1) = Loc(cur + 1 + 1)
    BY <1>2
  <2> QED
    BY <2>1, <2>2, LocIsRemainder
<1>4. ASSUME NEW i \in 1..count'
      PROVE  slot'[Loc(cur' - count' + i)] = slot[Loc(cur - count + i)]
  <2>1. Loc(cur' + (i - count')) = Loc(cur + 1 + (i - count'))
    BY <1>1, <1>2, Counters
  <2>2. Loc(cur' - count' + i) = Loc(cur - count + i)
    <3>1. cur' \in Int
      BY <1>1, Counters
    <3>2. cur' - count' + i = cur' + (i - count')
      BY <1>1, <3>1, Counters
    <3>3. cur - count + i = cur + 1 + (i - count')
      BY <1>1, Counters
    <3> QED
      BY <2>1, <3>2, <3>3
  <2>3. Loc(cur - count + i) # Loc(cur + 2)
    BY <1>1, DistinctSlots, Counters, Sizes
  <2>4. Loc(cur - count + i) \in Index
    BY Counters, LocIsRemainder
  <2> QED
    BY <1>1, <1>3, <2>2, <2>3, <2>4 DEF RingInv, TypeOK
<1>5. slot'[Filling'] = <<>>
  BY <1>1, <1>3 DEF Filling, RingInv, TypeOK
<1>6. Waiting' = Append(Waiting, slot[Filling])
  <2>1. Waiting' = [i \in 1..(count + 1) |-> slot[Loc(cur - count + i)]]
    BY <1>1, <1>4 DEF Waiting
  <2>2. slot[Loc(cur - count + (count + 1))] = slot[Filling]
    BY Counters DEF Filling
  <2> QED
    BY <2>1, <2>2, WaitingIsSeq, Counters
<1>7. Len(Waiting) < Unread
  BY WaitingIsSeq
<1> QED
  BY <1>1, <1>5, <1>6, <1>7 DEF Queue!Complete

LEMMA TailOf ==
    ASSUME NEW S, NEW s \in Seq(S), s # <<>>
    PROVE  Tail(s) = [i \in 1..(Len(s) - 1) |-> s[i + 1]]
<1> DEFINE t == [i \in 1..(Len(s) - 1) |-> s[i + 1]]
<1>1. /\ Tail(s) \in Seq(S) /\ Len(Tail(s)) = Len(s) - 1
      /\ \A i \in 1..Len(Tail(s)) : Tail(s)[i] = s[i + 1]
  BY HeadTailProperties
<1>2. t \in Seq(S) /\ Len(t) = Len(s) - 1
  BY <1>1
<1> QED
  BY <1>1, <1>2, SeqEqual

\* A packet taken is the oldest, and the others keep their order.
LEMMA TakenIsOldest ==
    ASSUME SizeDividesWrap, RingInv, count > 0
    PROVE  /\ Waiting # <<>>
           /\ Head(Waiting) = slot[Oldest]
           /\ (count' = count - 1 /\ UNCHANGED <<slot, cur>>)
                 => Waiting' = Tail(Waiting) /\ slot'[Filling'] = slot[Filling]
<1>1. Waiting # <<>> /\ Head(Waiting) = Waiting[1]
  BY WaitingIsSeq, Counters
<1>2. Waiting[1] = slot[Oldest]
  BY WaitingIsSeq, Counters DEF Oldest
<1>3. ASSUME count' = count - 1, UNCHANGED <<slot, cur>>
      PROVE  Waiting' = Tail(Waiting) /\ slot'[Filling'] = slot[Filling]
  <2>1. \A i \in 1..(count - 1) : cur - (count - 1) + i = cur - count + (i + 1)
    BY Counters
  <2>2. Waiting' = [i \in 1..(count - 1) |-> slot[Loc(cur - count + (i + 1))]]
    BY <1>3, <2>1 DEF Waiting
  <2>3. Tail(Waiting) = [i \in 1..(count - 1) |-> Waiting[i + 1]]
    BY <1>1, WaitingIsSeq, TailOf, Counters
  <2>4. \A i \in 1..(count - 1) : Waiting[i + 1] = slot[Loc(cur - count + (i + 1))]
    BY WaitingIsSeq, Counters
  <2> QED
    BY <1>3, <2>2, <2>3, <2>4 DEF Filling
<1> QED
  BY <1>1, <1>2, <1>3

LEMMA TakeRefines ==
    ASSUME SizeDividesWrap, RingInv, Take
    PROVE  Queue!Take
BY TakenIsOldest, Counters DEF Take, Wants, Queue!Take, Queue!Wants

LEMMA DropRefines ==
    ASSUME SizeDividesWrap, RingInv, Drop
    PROVE  Queue!Drop
BY TakenIsOldest, Counters DEF Drop, Wants, Queue!Drop, Queue!Wants

LEMMA InitRefines ==
    ASSUME SizeDividesWrap, Init
    PROVE  Queue!Init
<1>1. Filling \in Index
  BY LocIsRemainder DEF Filling, Init
<1>2. Waiting = <<>>
  BY DEF Waiting, Init
<1> QED
  BY <1>1, <1>2 DEF Init, Queue!Init

LEMMA NextRefines ==
    ASSUME SizeDividesWrap, RingInv, [Next]_ringVars
    PROVE  [Queue!Next]_Queue!vars
<1>1. ASSUME count < Unread, Len(slot[Filling]) < MaxLen,
             NEW c \in Chunk, StoreAt(Filling, <<c>>)
      PROVE  Queue!Next
  BY <1>1, StoreRefines DEF Queue!Next
<1>2. ASSUME UNCHANGED ringVars
      PROVE  UNCHANGED Queue!vars
  BY <1>2 DEF ringVars, Queue!vars, Waiting, Filling
<1>3. ASSUME count < Unread, PacketReady
      PROVE  [Queue!Next]_Queue!vars
  <2>1. CASE Len(slot[Filling]) >= MinLen
    BY <1>3, <2>1, ReadyRefines DEF Queue!Next
  <2>2. CASE ~(Len(slot[Filling]) >= MinLen)
    BY <1>2, <1>3, <2>2 DEF PacketReady
  <2> QED
    BY <2>1, <2>2
<1>4. CASE Take
  BY <1>4, TakeRefines DEF Queue!Next
<1>5. CASE Drop
  BY <1>5, DropRefines DEF Queue!Next
<1>6. CASE SetPacketFilter
  <2>1. UNCHANGED <<slot[Filling], Waiting, got>>
    BY <1>6 DEF SetPacketFilter, Waiting, Filling
  <2> QED
    BY <1>6, <2>1 DEF SetPacketFilter, Queue!SetFilter, Queue!Next
<1> QED
  BY <1>1, <1>2, <1>3, <1>4, <1>5, <1>6 DEF Next

\* A ring whose size divides the range of its counters would be a queue of whole
\* packets: getNextPacket would return each packet once and in order.
THEOREM RingImplementsQueue ==
    ASSUME SizeDividesWrap
    PROVE  Spec => ImplementsQueue
<1>1. Init => Queue!Init
  BY InitRefines
<1>2. RingInv /\ [Next]_ringVars => [Queue!Next]_Queue!vars
  BY NextRefines
<1>3. Spec => []RingInv
  BY RingInvInit, RingInvNext, PTL DEF Spec
<1> QED
  BY <1>1, <1>2, <1>3, PTL DEF Spec, ImplementsQueue, Queue!Spec

-----------------------------------------------------------------------------
(* The ring as it is built: one packet waits at most, and the size of the  *)
(* ring need not divide anything.                                          *)

\* The counter wraps at no multiple of the size.
Jumps == cur' < cur /\ Wrap % Size # 0

LEMMA LocOfSmall ==
    ASSUME NEW l \in Nat, l < Word
    PROVE  Loc(l) = l % Size /\ Loc(l) \in Index
<1>1. l % Word = l
  BY Sizes, Small
<1> QED
  BY <1>1, LocInRing DEF Loc

LEMMA Neighbours ==
    ASSUME NEW l \in Nat, l + 1 < Word, Unread = 1
    PROVE  Loc(l) # Loc(l + 1)
<1>1. Loc(l) = l % Size /\ Loc(l + 1) = (l + 1) % Size
  BY LocOfSmall, Sizes
<1>2. l % Size # (l + 1) % Size
  <2> DEFINE m == l + 1
  <2>1. m \in Int /\ l \in Int /\ l < m /\ m - l < Size
    BY Sizes
  <2> HIDE DEF m
  <2>2. l % Size # m % Size
    BY <2>1, Sizes, Apart
  <2> QED
    BY <2>2 DEF m
<1> QED
  BY <1>1, <1>2

LEMMA AloneWaiting ==
    ASSUME RingInv, Unread = 1
    PROVE  /\ cur \in 0..(Wrap - 1)
           /\ count = 0 \/ count = 1
           /\ count = 0 => Waiting = <<>>
           /\ count = 1 => Waiting = <<slot[Loc(cur)]>> /\ Oldest = Loc(cur)
<1>1. cur \in 0..(Wrap - 1) /\ (count = 0 \/ count = 1) /\ cur \in Int
  BY Counters DEF RingInv, TypeOK
<1>2. count = 0 => Waiting = <<>>
  BY DEF Waiting
<1>3. ASSUME count = 1
      PROVE  Waiting = <<slot[Loc(cur)]>> /\ Oldest = Loc(cur)
  <2>1. cur - 1 + 1 = cur
    BY <1>1
  <2>2. Waiting = [i \in 1..1 |-> slot[Loc(cur - 1 + i)]]
    BY <1>3 DEF Waiting
  <2>3. [i \in 1..1 |-> slot[Loc(cur - 1 + i)]] = <<slot[Loc(cur - 1 + 1)]>>
    OBVIOUS
  <2> QED
    BY <1>3, <2>1, <2>2, <2>3 DEF Oldest
<1> QED
  BY <1>1, <1>2, <1>3

LEMMA CounterBounds ==
    ASSUME NEW c \in 0..(Wrap - 1), Wrap < Word
    PROVE  /\ c \in Nat /\ c + 1 \in Nat /\ c < Word /\ c + 1 < Word
           /\ c + 1 < Wrap \/ c + 1 = Wrap
           /\ c - 1 + 1 = c
<1>1. Wrap \in Nat /\ Word \in Nat
  BY RingAssumption
<1> QED
  BY <1>1

\* The packet that is completed is the one that then waits, unless the counter
\* has wrapped at no multiple of the size.
LEMMA AloneReady ==
    ASSUME RingInv, Unread = 1, Wrap < Word, count < Unread, PacketReady,
           Len(slot[Filling]) >= MinLen, ~Jumps
    PROVE  Queue!Complete
<1>1. /\ cur' = (cur + 1) % Wrap /\ count = 0 /\ count' = 1
      /\ slot' = [slot EXCEPT ![Loc(cur' + 1)] = <<>>]
      /\ UNCHANGED <<filtering, got>>
  BY Counters, AloneWaiting DEF PacketReady
<1>2. /\ cur \in Nat /\ cur' \in Nat /\ cur' + 1 \in Nat /\ cur' < Word /\ cur' + 1 < Word
      /\ cur + 1 < Wrap \/ cur + 1 = Wrap
      /\ cur' - 1 + 1 = cur'
  <2>1. cur' \in 0..(Wrap - 1) /\ cur \in 0..(Wrap - 1)
    BY <1>1, Counters, AloneWaiting
  <2> QED
    BY <2>1, CounterBounds
<1>3. Loc(cur') = Filling
  <2>1. CASE cur + 1 < Wrap
    <3>1. cur' = cur + 1
      BY <1>1, <1>2, <2>1, Small, Sizes
    <3> QED
      BY <3>1 DEF Filling
  <2>2. CASE cur + 1 = Wrap
    <3>1. Wrap % Wrap = 0
      BY Sizes, Remainder0
    <3>2. cur' = 0
      BY <1>1, <2>2, <3>1
    <3>3. Wrap % Size = 0
      <4>1. CASE cur = 0
        BY <2>2, <4>1, RingAssumption
      <4>2. CASE cur # 0
        BY <1>2, <3>2, <4>2 DEF Jumps
      <4> QED
        BY <4>1, <4>2
    <3>4. Loc(Wrap) = Wrap % Size /\ Loc(0) = 0 % Size
      <4>1. Wrap \in Nat /\ 0 \in Nat /\ 0 < Word
        BY RingAssumption
      <4> QED
        BY <4>1, LocOfSmall
    <3>5. 0 % Size = 0
      BY Sizes, Small
    <3> QED
      BY <2>2, <3>2, <3>3, <3>4, <3>5 DEF Filling
  <2> QED
    BY <1>2, <2>1, <2>2
<1>4. Loc(cur' + 1) # Filling /\ Loc(cur' + 1) \in Index /\ Filling \in Index
  BY <1>2, <1>3, Neighbours, LocOfSmall
<1>5. slot'[Filling'] = <<>>
  <2>1. Filling' = Loc(cur' + 1)
    BY DEF Filling, Loc
  <2> QED
    BY <1>1, <1>4, <2>1 DEF RingInv, TypeOK
<1>6. Waiting = <<>> /\ Waiting' = <<slot[Filling]>>
  <2>1. Waiting = <<>>
    BY <1>1, AloneWaiting
  <2>2. Waiting' = <<slot'[Loc(cur')]>>
    <3>2. cur' - 1 + 1 = cur'
      BY <1>2
    <3>3. Waiting' = [i \in 1..1 |-> slot'[Loc(cur' - 1 + i)]]
      BY <1>1 DEF Waiting, Loc
    <3>4. [i \in 1..1 |-> slot'[Loc(cur' - 1 + i)]] = <<slot'[Loc(cur' - 1 + 1)]>>
      OBVIOUS
    <3> QED
      BY <3>2, <3>3, <3>4
  <2>3. slot'[Loc(cur')] = slot[Filling]
    BY <1>1, <1>3, <1>4 DEF RingInv, TypeOK
  <2> QED
    BY <2>1, <2>2, <2>3
<1>7. Waiting' = Append(Waiting, slot[Filling]) /\ Len(Waiting) < Unread
  BY <1>6
<1> QED
  BY <1>1, <1>5, <1>7 DEF Queue!Complete

LEMMA AloneNext ==
    ASSUME RingInv, Unread = 1, Wrap < Word, [Next]_ringVars
    PROVE  Queue!Next \/ Jumps \/ UNCHANGED Queue!vars
<1>1. ASSUME count < Unread, Len(slot[Filling]) < MaxLen,
             NEW c \in Chunk, StoreAt(Filling, <<c>>)
      PROVE  Queue!Receive(c)
  <2>1. count = 0 /\ Waiting = <<>> /\ UNCHANGED <<cur, count, filtering, got>>
    BY <1>1, AloneWaiting DEF StoreAt
  <2>2. Waiting' = <<>>
    BY <2>1 DEF Waiting
  <2>3. Filling \in Index /\ Filling' = Filling
    BY <2>1, Counters, LocInRing DEF Filling
  <2>4. slot'[Filling'] = Append(slot[Filling], c)
    BY <1>1, <2>3 DEF StoreAt, RingInv, TypeOK
  <2> QED
    BY <1>1, <2>1, <2>2, <2>4 DEF Queue!Receive
<1>2. ASSUME UNCHANGED ringVars
      PROVE  UNCHANGED Queue!vars
  BY <1>2 DEF ringVars, Queue!vars, Waiting, Filling
<1>3. ASSUME count < Unread, PacketReady
      PROVE  Queue!Next \/ Jumps \/ UNCHANGED Queue!vars
  <2>1. CASE Len(slot[Filling]) >= MinLen
    <3>1. Jumps \/ Queue!Complete
      BY <1>3, <2>1, AloneReady
    <3> QED
      BY <3>1 DEF Queue!Next
  <2>2. CASE ~(Len(slot[Filling]) >= MinLen)
    BY <1>2, <1>3, <2>2 DEF PacketReady
  <2> QED
    BY <2>1, <2>2
<1>4. ASSUME count > 0, count' = count - 1, UNCHANGED <<slot, cur>>
      PROVE  /\ Waiting # <<>> /\ Head(Waiting) = slot[Oldest]
             /\ Waiting' = Tail(Waiting) /\ slot'[Filling'] = slot[Filling]
  <2>1. count = 1 /\ Waiting = <<slot[Loc(cur)]>> /\ Oldest = Loc(cur) /\ count' = 0
    BY <1>4, AloneWaiting
  <2>2. Waiting' = <<>>
    BY <2>1 DEF Waiting
  <2> QED
    BY <1>4, <2>1, <2>2 DEF Filling
<1>5. CASE Take
  <2>1. count > 0 /\ count' = count - 1 /\ UNCHANGED <<slot, cur, filtering>>
    BY <1>5, Counters DEF Take
  <2>2. Queue!Take
    BY <1>4, <1>5, <2>1 DEF Take, Wants, Queue!Take, Queue!Wants
  <2> QED
    BY <2>2 DEF Queue!Next
<1>6. CASE Drop
  <2>1. count > 0 /\ count' = count - 1 /\ UNCHANGED <<slot, cur, filtering, got>>
    BY <1>6, Counters DEF Drop
  <2>2. Queue!Drop
    BY <1>4, <1>6, <2>1 DEF Drop, Wants, Queue!Drop, Queue!Wants
  <2> QED
    BY <2>2 DEF Queue!Next
<1>7. CASE SetPacketFilter
  <2>1. UNCHANGED <<slot[Filling], Waiting, got>>
    BY <1>7 DEF SetPacketFilter, Waiting, Filling
  <2>2. Queue!SetFilter
    BY <1>7, <2>1 DEF SetPacketFilter, Queue!SetFilter
  <2> QED
    BY <2>2 DEF Queue!Next
<1>8. ASSUME count < Unread, Len(slot[Filling]) < MaxLen,
             \E c \in Chunk : StoreAt(Filling, <<c>>)
      PROVE  Queue!Next
  BY <1>1, <1>8 DEF Queue!Next
<1> QED
  BY <1>2, <1>3, <1>5, <1>6, <1>7, <1>8 DEF Next

\* With one packet waiting at most, which the driver guarantees, a ring of any
\* size and with counters of any width below RINGBUFLOC's own hands over each
\* packet once, in order and unchanged, but for the packets at whose completion
\* ringbufPktCurrent wraps.
THEOREM QueueBetweenWraps ==
    ASSUME Unread = 1, Wrap < Word
    PROVE  Spec => QueueButForWraps
<1>1. Init => Queue!Init
  <2> SUFFICES ASSUME Init PROVE Queue!Init
    OBVIOUS
  <2>1. Filling \in Index /\ Waiting = <<>>
    BY LocInRing DEF Filling, Init, Waiting
  <2> QED
    BY <2>1 DEF Init, Queue!Init
<1>2. RingInv /\ [Next]_ringVars =>
        [Queue!Next \/ (cur' < cur /\ Wrap % Size # 0)]_(Queue!vars)
  BY AloneNext DEF Jumps
<1>3. Spec => []RingInv
  BY RingInvInit, RingInvNext, PTL DEF Spec
<1> QED
  BY <1>1, <1>2, <1>3, PTL DEF Spec, QueueButForWraps

=============================================================================
