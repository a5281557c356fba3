------------------------------- MODULE Driver -------------------------------
(***************************************************************************)
(* The two sides of Net485Physical_HardwareSerial that share driveState:   *)
(* hasPacket, readData and send on the thread of loop(), packetSequencer   *)
(* on the timer's, which may run between any two statements of the first.  *)
(* Bytes arrive in parts; a part is <<frame, place in the frame>>.  The    *)
(* ring is the queue that RingBuffer implements.                           *)
(***************************************************************************)
EXTENDS Naturals, SequencesExt

CONSTANTS
    OneTimer,    \* TRUE: the hardware timer of AVR and ESP8266; FALSE: macOS,
                 \* where every setTimer adds a dispatch_after
    TakeTurns,   \* an assumption about the devices, which the driver does not
                 \* check: nobody speaks while another one is heard, and none
                 \* begins while the driver transmits
    FrameLen,    \* lengths of the frames the other devices send, in parts
    MinLen,      \* MTU_HEADER + MTU_CHECKSUM, in parts
    Frames,      \* how many frames of the others are explored
    Sends,       \* how many calls of send are explored
    Gap,         \* longest silence inside a frame, in ticks, as all that follow
    FrameGap,    \* shortest silence between two frames
    Latency,     \* longest time between two calls of hasPacket
    Delimit,     \* DELIMIT_MEASURE_PACKET
    InterPacket, \* INTER_PACKET_DELAY
    Hold,        \* PRE_DRIVE_HOLD_TIME and POST_DRIVE_HOLD_TIME
    PacketTime,  \* MTU_PACKET_TIME
    TimerRange   \* 2^16 timer ticks, to which setTimer casts a delay; macOS has
                 \* no cast, which is a range above every delay

ASSUME DriverAssumption ==
    /\ OneTimer \in BOOLEAN /\ TakeTurns \in BOOLEAN
    /\ FrameLen \subseteq Nat \ {0}
    /\ MinLen \in Nat \ {0}
    /\ {Frames, Sends, Gap, FrameGap, Latency, Delimit, InterPacket, Hold, PacketTime}
         \subseteq Nat
    /\ TimerRange \in Nat \ {0} /\ Hold \in 1..(TimerRange - 1)

VARIABLES
    drive,     \* driveState
    due,       \* due[t]: how many timers fire in t ticks
    pin,       \* drivePin
    pc,        \* where the thread of loop() is
    polled,    \* ticks since hasPacket was called
    building,  \* the bytes in the slot being filled
    queue,     \* the complete packets that wait, oldest first
    got,       \* history: the packets handed to the caller
    toSend,    \* packetToSend; packets to send are numbered
    asked,     \* history: how many times send was called
    out,       \* history: the packets written to the line
    going,     \* ticks for which what was written is still going out
    undisturbed, \* history: no bytes were read between a send and the release
               \* of the pin, and none was sent while the pin drove the line
    line,      \* what the other devices send
    arrived    \* the parts that hwSerial->available() counts

receiving == <<building, queue, got, arrived>>
sending == <<toSend, asked, out, going, undisturbed>>
vars == <<drive, due, pin, pc, polled, line, receiving, sending>>

Delay == 0..(Delimit + InterPacket + Hold + PacketTime)
NoTimer == [t \in Delay |-> 0]

\* The drive states between send and the release of the pin.
Transmit == {"InterPktDelay", "PreDrive", "Sending", "PostDrive", "COUNT_STATES"}

Init ==
    /\ drive = "Ready" /\ due = NoTimer /\ pin = "LOW"
    /\ pc = "idle" /\ polled = 0
    /\ building = <<>> /\ queue = <<>> /\ got = <<>> /\ arrived = <<>>
    /\ toSend = 0 /\ asked = 0 /\ out = <<>> /\ going = 0 /\ undisturbed = TRUE
    /\ line = [frames |-> <<>>, left |-> 0, quiet |-> FrameGap]

-----------------------------------------------------------------------------
(* Timers.  "pending" are the timers without the one that has just fired.  *)

\* Mutant of SetTimer: the hardware timer runs on instead of starting anew.
SetTimerRunsOn(pending, delay, state) ==
    /\ drive' = state
    /\ due' = [pending EXCEPT ![delay % TimerRange] = @ + 1]

\* The cast of a delay to the timer's 16 bits drops what is above them.
SetTimer(pending, delay, state) ==
    /\ drive' = state
    /\ due' = IF OneTimer THEN [NoTimer EXCEPT ![delay % TimerRange] = 1]
              ELSE [pending EXCEPT ![delay % TimerRange] = @ + 1]

\* clearTimer, and back to Ready.
ToReady(pending) ==
    /\ drive' = "Ready"
    /\ due' = IF OneTimer THEN NoTimer ELSE pending

\* Mutants of CompletePacket: the dataSize of the next slot is not cleared;
\* ringbufPktCount is not incremented.
CompletePacketUncleared ==
    IF Len(building) >= MinLen
    THEN queue' = Append(queue, building) /\ UNCHANGED building
    ELSE UNCHANGED <<queue, building>>

CompletePacketUncounted ==
    IF Len(building) >= MinLen
    THEN building' = <<>> /\ UNCHANGED queue
    ELSE UNCHANGED <<queue, building>>

CompletePacket ==
    IF Len(building) >= MinLen
    THEN queue' = Append(queue, building) /\ building' = <<>>
    ELSE UNCHANGED <<queue, building>>

\* Mutant of DigitalWrite: the pin is released before the post-drive time.
DigitalWriteEarly ==
    pin' = CASE drive = "PreDrive" -> "HIGH"
             [] drive = "PostDrive" -> "LOW"
             [] OTHER -> pin

DigitalWrite ==
    pin' = CASE drive = "PreDrive" -> "HIGH"
             [] drive = "COUNT_STATES" -> "LOW"
             [] OTHER -> pin

\* Mutant of Timed: the pin is held for the post-drive time, twice, and not for
\* the time of the packet.
TimedWithoutPacket == [InterPktDelay |-> <<InterPacket, "PreDrive">>,
                       PreDrive      |-> <<Hold, "Sending">>,
                       Sending       |-> <<Hold, "PostDrive">>,
                       PostDrive     |-> <<Hold, "COUNT_STATES">>,
                       ReadingPacket |-> <<Delimit, "PacketReady">>]

\* The delay and the state that follow each state which sets the timer.
Timed == [InterPktDelay |-> <<InterPacket, "PreDrive">>,
          PreDrive      |-> <<Hold, "Sending">>,
          Sending       |-> <<PacketTime, "PostDrive">>,
          PostDrive     |-> <<Hold, "COUNT_STATES">>,
          ReadingPacket |-> <<Delimit, "PacketReady">>]

PacketSequencer(pending) ==
    /\ DigitalWrite
    /\ out' = IF drive = "Sending" THEN Append(out, toSend) ELSE out
    /\ going' = IF drive = "Sending" THEN PacketTime ELSE going
    /\ IF drive = "PacketReady" THEN CompletePacket ELSE UNCHANGED <<building, queue>>
    /\ \/ /\ drive \in DOMAIN Timed
          /\ SetTimer(pending, Timed[drive][1], Timed[drive][2])
       \/ /\ drive \in {"COUNT_STATES", "PacketReady"}
          /\ ToReady(pending)
       \/ /\ drive = "Ready"
          /\ due' = pending
          /\ UNCHANGED drive
    /\ UNCHANGED <<got, arrived, toSend, asked, undisturbed, line, polled>>

\* The timer calls packetSequencer.
Fire ==
    /\ due[0] > 0
    /\ PacketSequencer([due EXCEPT ![0] = @ - 1])
    /\ UNCHANGED pc

\* So do readData and send, once they have set driveState.
Sequence ==
    /\ pc = "sequence"
    /\ PacketSequencer(due)
    /\ pc' = "idle"

-----------------------------------------------------------------------------
(* The thread of loop().                                                   *)

\* hasPacket with a packet in the ring; the caller takes it.
Take ==
    /\ pc = "idle"
    /\ queue # <<>>
    /\ got' = Append(got, Head(queue))
    /\ queue' = Tail(queue)
    /\ polled' = 0
    /\ UNCHANGED <<drive, due, pin, pc, building, arrived, sending, line>>

\* hasPacket with none: readData looks for bytes and for the slot to fill.
Lookup ==
    /\ pc = "idle"
    /\ queue = <<>>
    /\ pc' = IF arrived = <<>> THEN "idle" ELSE "store"
    /\ polled' = 0
    /\ UNCHANGED <<drive, due, pin, receiving, sending, line>>

\* The slot of a packet that is complete has a dataSize without header and
\* checksum: bytes added to it land on the last of its own.
Overwritten(packet, parts) ==
    LET at == Len(packet) - MinLen
        size == at + Len(parts)
    IN  [i \in 1..(IF size > Len(packet) THEN size ELSE Len(packet)) |->
            IF i \in (at + 1)..size THEN parts[i - at] ELSE packet[i]]

\* readData copies the bytes to the slot it has looked up, which the timer may
\* have completed since.
Store ==
    /\ pc = "store"
    /\ IF queue = <<>>
       THEN building' = building \o arrived /\ UNCHANGED queue
       ELSE /\ queue' = [queue EXCEPT ![Len(queue)] = Overwritten(@, arrived)]
            /\ UNCHANGED building
    /\ arrived' = <<>>
    /\ pc' = "mark"
    /\ UNCHANGED <<drive, due, pin, polled, got, sending, line>>

Mark ==
    /\ pc = "mark"
    /\ drive' = "ReadingPacket"
    /\ undisturbed' = (undisturbed /\ drive \notin Transmit)
    /\ pc' = "sequence"
    /\ UNCHANGED <<due, pin, polled, receiving, toSend, asked, out, going, line>>

\* The caller's side of TakeTurns: it sends when it has got what the others
\* say, and waits for an answer longer than a packet takes.  It may send twice
\* in a row, as loopServer does.
Quiet == pin = "LOW" /\ line.left = 0 /\ arrived = <<>> /\ building = <<>>

\* Mutant of Send: a packet is sent when readyToSend says so, else forgotten.
SendIfReady ==
    /\ pc = "idle"
    /\ asked < Sends
    /\ TakeTurns => Quiet
    /\ asked' = asked + 1
    /\ undisturbed' = (undisturbed /\ pin = "LOW")
    /\ IF drive = "Ready"
       THEN toSend' = asked' /\ drive' = "InterPktDelay" /\ pc' = "sequence"
       ELSE UNCHANGED <<toSend, drive, pc>>
    /\ UNCHANGED <<due, pin, polled, receiving, out, going, line>>

\* send asks nothing of the state the driver is in.
Send ==
    /\ pc = "idle"
    /\ asked < Sends
    /\ TakeTurns => Quiet
    /\ asked' = asked + 1
    /\ toSend' = asked'
    /\ drive' = "InterPktDelay"
    /\ undisturbed' = (undisturbed /\ pin = "LOW")
    /\ pc' = "sequence"
    /\ UNCHANGED <<due, pin, polled, receiving, out, going, line>>

-----------------------------------------------------------------------------
(* The other devices.  A part that arrives while readData runs might as    *)
(* well arrive after it: parts arrive between calls of hasPacket only.     *)

FrameNo == Len(line.frames)

\* The receiver is off while the pin drives the line.
Arrive(part) == arrived' = IF pin = "HIGH" THEN arrived ELSE Append(arrived, part)

BeginFrame(n) ==
    /\ pc = "idle"
    /\ FrameNo < Frames /\ line.left = 0 /\ line.quiet >= FrameGap
    /\ TakeTurns => drive \notin Transmit
    /\ line' = [frames |-> Append(line.frames, n), left |-> n - 1, quiet |-> 0]
    /\ Arrive(<<FrameNo + 1, 1>>)
    /\ UNCHANGED <<drive, due, pin, pc, polled, building, queue, got, sending>>

NextPart ==
    /\ pc = "idle"
    /\ line.left > 0
    /\ line' = [line EXCEPT !.left = @ - 1, !.quiet = 0]
    /\ Arrive(<<FrameNo, Last(line.frames) - line.left + 1>>)
    /\ UNCHANGED <<drive, due, pin, pc, polled, building, queue, got, sending>>

Tick ==
    /\ pc = "idle" /\ due[0] = 0
    /\ polled < Latency
    /\ line.left > 0 => line.quiet < Gap
    /\ due' = [t \in Delay |-> IF t + 1 \in Delay THEN due[t + 1] ELSE 0]
    /\ polled' = polled + 1
    /\ line' = [line EXCEPT !.quiet = IF @ < FrameGap THEN @ + 1 ELSE @]
    /\ going' = IF going > 0 THEN going - 1 ELSE 0
    /\ UNCHANGED <<drive, pin, pc, receiving, toSend, asked, out, undisturbed>>

Next ==
    \/ Fire \/ Sequence
    \/ Take \/ Lookup \/ Store \/ Mark \/ Send
    \/ \E n \in FrameLen : BeginFrame(n)
    \/ NextPart \/ Tick

Spec == Init /\ [][Next]_vars

\* The loop calls hasPacket again and again, its thread and the timers run, a
\* frame that has begun goes on, and so does time.
Fairness ==
    /\ WF_vars(Take \/ Lookup)
    /\ WF_vars(Store \/ Mark \/ Sequence)
    /\ WF_vars(Fire)
    /\ SF_vars(NextPart)
    /\ SF_vars(Tick)

FairSpec == Spec /\ Fairness

-----------------------------------------------------------------------------
(* Properties.                                                             *)

Packets == got \o queue

Frame(f) == [k \in 1..line.frames[f] |-> <<f, k>>]

\* A silence of DELIMIT_MEASURE_PACKET ends a packet and nothing else does: when
\* no frame is shorter than a packet, the caller gets the frames on the line,
\* whole, in order and each once.
WholeFrames == IsPrefix(Packets, [f \in 1..FrameNo |-> Frame(f)])

\* Whatever the timers, the other devices and the caller do, no second packet
\* is completed while one waits: the counters of the ring, which two threads
\* change without a lock, are never changed by both.
AtMostOneWaits == Len(queue) <= 1

\* A packet waits to be written.
Waiting == drive \in {"InterPktDelay", "PreDrive", "Sending"}

\* Whatever the timers, the line and the caller do, no packet is written twice
\* or after a later one.  The last that send was called with is written before
\* the driver rests, unless bytes are read in between or it is sent while the
\* pin drives the line for an earlier one.  (An earlier packet may be lost: two
\* calls in a row write the second only.)
SendsComplete ==
    /\ \A i, j \in DOMAIN out : i < j => out[i] < out[j]
    /\ undisturbed /\ ~Waiting /\ asked > 0 => out # <<>> /\ Last(out) = asked

\* Under the same condition the pin drives the line from the end of the
\* inter-packet delay to the end of the post-drive time and never while the
\* driver receives or rests; and with one timer that can count the time of the
\* packet, for as long as a byte of it is going out.
PinReleased ==
    undisturbed =>
        /\ pin = "HIGH" <=> drive \in {"Sending", "PostDrive", "COUNT_STATES"}
        /\ OneTimer /\ PacketTime < TimerRange /\ going > 0 => pin = "HIGH"

\* Every frame on the line gets to the caller.
FramesDelivered ==
    \A f \in 1..Frames : FrameNo = f ~> Len(got) >= f

=============================================================================
