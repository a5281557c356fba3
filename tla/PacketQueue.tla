---------------------------- MODULE PacketQueue ----------------------------
(***************************************************************************)
(* What Layer 1 promises its caller: packets come out whole, once each and *)
(* in the order in which they were completed, except for those the packet  *)
(* filter drops.  Abstract specification of RingBuffer.                    *)
(***************************************************************************)
EXTENDS Naturals, Sequences

CONSTANTS
    Chunk,      \* what the serial port hands over at once
    Wanted,     \* the chunks that open a packet the filter lets through
    MinLen,     \* the shortest packet, in chunks
    MaxLen,     \* the longest packet, in chunks
    Unread      \* how many complete packets may wait for the caller

VARIABLES
    building,   \* the packet being received
    queue,      \* the complete packets, oldest first
    filtering,  \* a packet filter is set
    got         \* the packet handed to the caller last

vars == <<building, queue, filtering, got>>

Init ==
    /\ building = <<>>
    /\ queue = <<>>
    /\ filtering = FALSE
    /\ got = <<>>

Wants(packet) == filtering => packet[1] \in Wanted

Receive(c) ==
    /\ Len(queue) < Unread
    /\ Len(building) < MaxLen
    /\ building' = Append(building, c)
    /\ UNCHANGED <<queue, filtering, got>>

\* The line has been silent: a packet long enough is complete.
Complete ==
    /\ Len(queue) < Unread
    /\ Len(building) >= MinLen
    /\ queue' = Append(queue, building)
    /\ building' = <<>>
    /\ UNCHANGED <<filtering, got>>

Take ==
    /\ queue # <<>>
    /\ Wants(Head(queue))
    /\ got' = Head(queue)
    /\ queue' = Tail(queue)
    /\ UNCHANGED <<building, filtering>>

Drop ==
    /\ queue # <<>>
    /\ ~Wants(Head(queue))
    /\ queue' = Tail(queue)
    /\ UNCHANGED <<building, filtering, got>>

SetFilter ==
    /\ filtering' = ~filtering
    /\ UNCHANGED <<building, queue, got>>

Next ==
    \/ \E c \in Chunk : Receive(c)
    \/ Complete
    \/ Take
    \/ Drop
    \/ SetFilter

Spec == Init /\ [][Next]_vars

=============================================================================
