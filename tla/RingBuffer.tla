----------------------------- MODULE RingBuffer -----------------------------
(***************************************************************************)
(* The receive ring of Net485Physical_HardwareSerial: where readData and   *)
(* packetSequencer store what arrives and where getNextPacket finds it.    *)
(* Its indices are fixed-width integers that wrap.                         *)
(***************************************************************************)
EXTENDS Integers, Sequences

CONSTANTS
    Chunk,      \* what the serial port hands over at once
    Wanted,     \* the chunks that open a packet of a type in msgTypeFilterList
    MinLen,     \* MTU_HEADER + MTU_CHECKSUM, in chunks
    MaxLen,     \* the longest packet explored, in chunks
    Unread,     \* how many complete packets may wait for the caller
    Size,       \* ringbufSize
    Wrap,       \* 2^8: ringbufPktCurrent and ringbufPktCount are uint8_t
    Word        \* 2^32: RINGBUFLOC computes with uint32_t

\* hasPacket reads the serial port only when no packet waits: no more than one
\* ever does (Driver, AtMostOneWaits).  What matters here is that fewer wait
\* than the ring has slots.
ASSUME RingAssumption ==
    /\ Wanted \subseteq Chunk
    /\ MinLen \in Nat \ {0}
    /\ MaxLen \in Nat
    /\ Size \in Nat /\ Wrap \in Nat /\ Word \in Nat
    /\ Unread \in Nat \ {0}
    /\ Unread < Size
    /\ Size <= Wrap /\ Wrap <= Word

VARIABLES
    slot,       \* ringbuf, the bytes in each slot
    cur,        \* ringbufPktCurrent
    count,      \* ringbufPktCount
    filtering,  \* msgTypeFilterList # NULL
    got         \* the packet getNextPacket returned last

ringVars == <<slot, cur, count, filtering, got>>

Index == 0..(Size - 1)

TypeOK ==
    /\ slot \in [Index -> Seq(Chunk)]
    /\ cur \in 0..(Wrap - 1)
    /\ count \in 0..(Wrap - 1)
    /\ filtering \in BOOLEAN
    /\ got \in Seq(Chunk)

Init ==
    /\ slot = [i \in Index |-> <<>>]
    /\ cur = 0
    /\ count = 0
    /\ filtering = FALSE
    /\ got = <<>>

-----------------------------------------------------------------------------
(* RINGBUFLOC, and the slots the code asks it for.  A negative argument is *)
(* a uint32_t that has wrapped.                                            *)

Loc(l) == (l % Word) % Size

Filling == Loc(cur + 1)

Oldest == Loc(cur - count + 1)

-----------------------------------------------------------------------------
(* The operations.                                                         *)

\* readData, for the slot it has looked up.
StoreAt(loc, chunks) ==
    /\ slot' = [slot EXCEPT ![loc] = @ \o chunks]
    /\ UNCHANGED <<cur, count, filtering, got>>

\* Mutant of PacketReady: the next slot keeps the bytes it had a round ago.
PacketReadyKeepsBytes ==
    IF Len(slot[Filling]) >= MinLen
    THEN /\ cur' = (cur + 1) % Wrap
         /\ count' = (count + 1) % Wrap
         /\ UNCHANGED <<slot, filtering, got>>
    ELSE UNCHANGED ringVars

\* packetSequencer, case PacketReady.
PacketReady ==
    IF Len(slot[Filling]) >= MinLen
    THEN /\ cur' = (cur + 1) % Wrap
         /\ slot' = [slot EXCEPT ![Loc(cur' + 1)] = <<>>]
         /\ count' = (count + 1) % Wrap
         /\ UNCHANGED <<filtering, got>>
    ELSE UNCHANGED ringVars

\* hasPacket with a packet waiting: peek at it and test its type.
Wants == filtering => slot[Oldest][1] \in Wanted

\* hasPacket returns true, and the caller calls getNextPacket.
Take ==
    /\ count > 0
    /\ Wants
    /\ got' = slot[Oldest]
    /\ count' = (count - 1) % Wrap
    /\ UNCHANGED <<slot, cur, filtering>>

\* hasPacket reads a packet of an unwanted type to ignore it.
Drop ==
    /\ count > 0
    /\ ~Wants
    /\ count' = (count - 1) % Wrap
    /\ UNCHANGED <<slot, cur, filtering, got>>

\* setPacketFilter, with a list or with NULL.
SetPacketFilter ==
    /\ filtering' = ~filtering
    /\ UNCHANGED <<slot, cur, count, got>>

\* As the caller of hasPacket sees it: bytes are read and packets completed only
\* while fewer than Unread packets wait.
Next ==
    \/ /\ count < Unread
       /\ Len(slot[Filling]) < MaxLen
       /\ \E c \in Chunk : StoreAt(Filling, <<c>>)
    \/ count < Unread /\ PacketReady
    \/ Take
    \/ Drop
    \/ SetPacketFilter

Spec == Init /\ [][Next]_ringVars

-----------------------------------------------------------------------------
(* Properties.                                                             *)

\* The packets that wait, oldest first.
Waiting == [i \in 1..count |-> slot[Loc(cur - count + i)]]

Queue == INSTANCE PacketQueue WITH building <- slot[Filling], queue <- Waiting

\* The ring is a queue: each packet completed comes out once, in order and
\* unchanged, and what is being received disturbs none that waits.
ImplementsQueue == Queue!Spec

\* The ring as it is built, whose size does not divide the range of its
\* counters, is that queue but for one step in 256: the completion of the packet
\* at which ringbufPktCurrent wraps.
QueueButForWraps ==
    /\ Queue!Init
    /\ [][\/ Queue!Next
          \/ cur' < cur /\ Wrap % Size # 0]_(Queue!vars)

=============================================================================
