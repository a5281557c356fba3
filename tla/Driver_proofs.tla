--------------------------- MODULE Driver_proofs ---------------------------
(***************************************************************************)
(* However the timers, the caller and the other devices behave, at most    *)
(* one complete packet waits in the ring.  With one timer and devices that *)
(* take turns the pin and what is sent are right, and with the timings of  *)
(* the code the frames are delivered whole.                                *)
(***************************************************************************)
EXTENDS Driver, TLAPS

\* While a packet waits, the slot being filled is empty: bytes are read only
\* when none waits, and bytes read into a slot that the timer completes in the
\* meantime stay in that packet.
OneSlotInUse == queue = <<>> \/ (building = <<>> /\ \E p : queue = <<p>>)

LEMMA NothingToComplete ==
    ASSUME OneSlotInUse, CompletePacket
    PROVE  OneSlotInUse'
<1>1. CASE Len(building) >= MinLen
  <2>1. building # <<>>
    BY <1>1, DriverAssumption
  <2>2. queue' = <<building>> /\ building' = <<>>
    BY <1>1, <2>1 DEF OneSlotInUse, CompletePacket
  <2> QED
    BY <2>2 DEF OneSlotInUse
<1>2. CASE ~(Len(building) >= MinLen)
  BY <1>2 DEF OneSlotInUse, CompletePacket
<1> QED
  BY <1>1, <1>2

LEMMA Sequenced ==
    ASSUME OneSlotInUse, NEW pending, PacketSequencer(pending)
    PROVE  OneSlotInUse'
<1>1. CASE drive = "PacketReady"
  BY <1>1, NothingToComplete DEF PacketSequencer
<1>2. CASE drive # "PacketReady"
  BY <1>2 DEF PacketSequencer, OneSlotInUse
<1> QED
  BY <1>1, <1>2

LEMMA OnePacket ==
    ASSUME NEW p
    PROVE  Tail(<<p>>) = <<>> /\ Len(<<p>>) = 1
OBVIOUS

LEMMA Overwriting ==
    ASSUME NEW p, queue = <<p>>, NEW e, queue' = [queue EXCEPT ![Len(queue)] = e]
    PROVE  queue' = <<e>>
OBVIOUS

LEMMA OneSlotInUseNext ==
    ASSUME OneSlotInUse, [Next]_vars
    PROVE  OneSlotInUse'
<1>1. CASE Fire
  BY <1>1, Sequenced DEF Fire
<1>2. CASE Sequence
  BY <1>2, Sequenced DEF Sequence
<1>3. CASE Take
  <2>1. PICK p : queue = <<p>> /\ building = <<>>
    BY <1>3 DEF Take, OneSlotInUse
  <2>2. queue' = <<>>
    BY <1>3, <2>1, OnePacket DEF Take
  <2> QED
    BY <2>2 DEF OneSlotInUse
<1>4. CASE Lookup
  BY <1>4 DEF Lookup, OneSlotInUse, receiving
<1>5. CASE Store
  <2>1. CASE queue = <<>>
    BY <1>5, <2>1 DEF Store, OneSlotInUse
  <2>2. CASE queue # <<>>
    <3>1. PICK p : queue = <<p>>
      BY <2>2 DEF OneSlotInUse
    <3>2. queue' = [queue EXCEPT ![Len(queue)] = Overwritten(@, arrived)]
          /\ building' = building
      BY <1>5, <2>2 DEF Store
    <3>3. \E e : queue' = <<e>>
      BY <3>1, <3>2, Overwriting
    <3> QED
      BY <2>2, <3>2, <3>3 DEF OneSlotInUse
  <2> QED
    BY <2>1, <2>2
<1>6. CASE Mark
  BY <1>6 DEF Mark, OneSlotInUse, receiving
<1>7. CASE Send
  BY <1>7 DEF Send, OneSlotInUse, receiving
<1>8. ASSUME NEW n \in FrameLen, BeginFrame(n)
      PROVE  OneSlotInUse'
  BY <1>8 DEF BeginFrame, OneSlotInUse
<1>9. CASE NextPart
  BY <1>9 DEF NextPart, OneSlotInUse
<1>10. CASE Tick
  BY <1>10 DEF Tick, OneSlotInUse, receiving
<1>11. CASE UNCHANGED vars
  BY <1>11 DEF vars, OneSlotInUse, receiving
<1> QED
  BY <1>1, <1>2, <1>3, <1>4, <1>5, <1>6, <1>7, <1>8, <1>9, <1>10, <1>11 DEF Next

\* The ring never holds two complete packets, so that the thread which takes
\* one and the timer which completes one never change the counters at once.
THEOREM OneWaits == Spec => []AtMostOneWaits
<1>1. Init => OneSlotInUse
  BY DEF Init, OneSlotInUse
<1>2. OneSlotInUse /\ [Next]_vars => OneSlotInUse'
  BY OneSlotInUseNext
<1>3. OneSlotInUse => AtMostOneWaits
  <2>1. CASE queue = <<>>
    BY <2>1 DEF AtMostOneWaits
  <2>2. ASSUME NEW p, queue = <<p>>
        PROVE  AtMostOneWaits
    BY <2>2, OnePacket DEF AtMostOneWaits
  <2> QED
    BY <2>1, <2>2 DEF OneSlotInUse
<1> QED
  BY <1>1, <1>2, <1>3, PTL DEF Spec

-----------------------------------------------------------------------------
(* What one step of the state machine does, and what follows for the pin   *)
(* and for what is written, whatever timers, devices and caller do.        *)

States == Transmit \cup {"Ready", "ReadingPacket", "PacketReady"}

LEMMA Steps ==
    ASSUME NEW pending, PacketSequencer(pending)
    PROVE  /\ drive = "InterPktDelay" => drive' = "PreDrive" /\ pin' = pin
           /\ drive = "PreDrive" => drive' = "Sending" /\ pin' = "HIGH"
           /\ drive = "Sending" => drive' = "PostDrive" /\ pin' = pin
           /\ drive = "PostDrive" => drive' = "COUNT_STATES" /\ pin' = pin
           /\ drive = "COUNT_STATES" => drive' = "Ready" /\ pin' = "LOW"
           /\ drive = "ReadingPacket" => drive' = "PacketReady" /\ pin' = pin
           /\ drive = "PacketReady" => drive' = "Ready" /\ pin' = pin
           /\ drive = "Ready" => drive' = "Ready" /\ pin' = pin
           /\ drive = "Sending" => out' = Append(out, toSend) /\ going' = PacketTime
           /\ drive # "Sending" => out' = out /\ going' = going
           /\ drive # "PacketReady" => UNCHANGED <<building, queue>>
           /\ drive = "PacketReady" => CompletePacket
           /\ UNCHANGED <<got, arrived, toSend, asked, undisturbed, line, polled>>
<1>1. DOMAIN Timed = {"InterPktDelay", "PreDrive", "Sending", "PostDrive", "ReadingPacket"}
  BY DEF Timed
<1>2. /\ Timed["InterPktDelay"] = <<InterPacket, "PreDrive">>
      /\ Timed["PreDrive"] = <<Hold, "Sending">>
      /\ Timed["Sending"] = <<PacketTime, "PostDrive">>
      /\ Timed["PostDrive"] = <<Hold, "COUNT_STATES">>
      /\ Timed["ReadingPacket"] = <<Delimit, "PacketReady">>
  BY DEF Timed
<1>3. /\ drive \in DOMAIN Timed => drive' = Timed[drive][2]
      /\ drive \in {"COUNT_STATES", "PacketReady"} => drive' = "Ready"
      /\ drive = "Ready" => drive' = drive
  BY <1>1 DEF PacketSequencer, SetTimer, ToReady
<1>4. /\ pin' = IF drive = "PreDrive" THEN "HIGH" ELSE
                IF drive = "COUNT_STATES" THEN "LOW" ELSE pin
      /\ out' = IF drive = "Sending" THEN Append(out, toSend) ELSE out
      /\ going' = IF drive = "Sending" THEN PacketTime ELSE going
      /\ IF drive = "PacketReady" THEN CompletePacket ELSE UNCHANGED <<building, queue>>
      /\ UNCHANGED <<got, arrived, toSend, asked, undisturbed, line, polled>>
  BY DEF PacketSequencer, DigitalWrite
<1> QED
  BY <1>1, <1>2, <1>3, <1>4

\* What a packet asked for and not written yet means for those written.
InOrder ==
    /\ drive \in States
    /\ asked \in Nat /\ toSend = asked
    /\ out \in Seq(Nat)
    /\ \A i, j \in DOMAIN out : i < j => out[i] < out[j]
    /\ \A i \in DOMAIN out : out[i] <= asked
    /\ Waiting => asked > 0 /\ \A i \in DOMAIN out : out[i] < asked
    /\ undisturbed /\ ~Waiting /\ asked > 0 => out # <<>> /\ Last(out) = asked

PinFollows ==
    /\ pin \in {"HIGH", "LOW"}
    /\ undisturbed => (pin = "HIGH" <=> drive \in {"Sending", "PostDrive", "COUNT_STATES"})

\* A packet with a higher number than all before it is written.
LEMMA WrittenNext ==
    ASSUME NEW s \in Seq(Nat), NEW n \in Nat,
           \A i, j \in DOMAIN s : i < j => s[i] < s[j],
           \A i \in DOMAIN s : s[i] < n
    PROVE  /\ Append(s, n) \in Seq(Nat) /\ Append(s, n) # <<>> /\ Last(Append(s, n)) = n
           /\ \A i, j \in DOMAIN Append(s, n) : i < j => Append(s, n)[i] < Append(s, n)[j]
           /\ \A i \in DOMAIN Append(s, n) : Append(s, n)[i] <= n
<1>1. Append(s, n) \in Seq(Nat) /\ Len(Append(s, n)) = Len(s) + 1 /\ Len(s) \in Nat
  OBVIOUS
<1>2. Append(s, n)[Len(s) + 1] = n /\ \A i \in 1..Len(s) : Append(s, n)[i] = s[i]
  OBVIOUS
<1>3. DOMAIN Append(s, n) = 1..(Len(s) + 1) /\ DOMAIN s = 1..Len(s)
  BY <1>1
<1>4. Last(Append(s, n)) = n
  BY <1>1, <1>2 DEF Last
<1>5. Append(s, n) # <<>>
  BY <1>1
<1>6. ASSUME NEW i \in 1..(Len(s) + 1)
      PROVE  /\ Append(s, n)[i] <= n
             /\ \A j \in 1..(Len(s) + 1) : i < j => Append(s, n)[i] < Append(s, n)[j]
  <2>1. CASE i = Len(s) + 1
    BY <1>1, <1>2, <2>1
  <2>2. CASE i # Len(s) + 1
    <3>1. i \in 1..Len(s) /\ Append(s, n)[i] = s[i] /\ s[i] < n /\ s[i] \in Nat
      BY <1>1, <1>2, <1>3, <2>2
    <3>2. ASSUME NEW j \in 1..(Len(s) + 1), i < j
          PROVE  Append(s, n)[i] < Append(s, n)[j]
      <4>1. CASE j = Len(s) + 1
        BY <1>2, <3>1, <4>1
      <4>2. CASE j # Len(s) + 1
        <5>1. j \in 1..Len(s)
          BY <1>1, <4>2
        <5> QED
          BY <1>2, <1>3, <3>1, <3>2, <5>1
      <4> QED
        BY <4>1, <4>2
    <3> QED
      BY <3>1, <3>2
  <2> QED
    BY <2>1, <2>2
<1> QED
  BY <1>1, <1>3, <1>4, <1>5, <1>6

LEMMA InOrderSequenced ==
    ASSUME InOrder, PinFollows, NEW pending, PacketSequencer(pending)
    PROVE  InOrder' /\ PinFollows'
<1>1. PinFollows'
  BY Steps DEF InOrder, PinFollows, States, Transmit
<1>2. drive' \in States /\ asked' = asked /\ toSend' = toSend /\ undisturbed' = undisturbed
  BY Steps DEF InOrder, States, Transmit
<1>3. CASE drive = "Sending"
  <2>1. out' = Append(out, asked) /\ drive' = "PostDrive" /\ ~Waiting'
    BY <1>3, Steps DEF InOrder, Waiting
  <2>2. \A i \in DOMAIN out : out[i] < asked
    BY <1>3 DEF InOrder, Waiting
  <2>3. /\ out' \in Seq(Nat) /\ out' # <<>> /\ Last(out') = asked
        /\ \A i, j \in DOMAIN out' : i < j => out'[i] < out'[j]
        /\ \A i \in DOMAIN out' : out'[i] <= asked
    BY <2>1, <2>2, WrittenNext DEF InOrder
  <2> QED
    BY <1>1, <1>2, <2>1, <2>3 DEF InOrder
<1>4. CASE drive # "Sending"
  <2>1. out' = out /\ Waiting' = Waiting
    BY <1>4, Steps DEF InOrder, States, Transmit, Waiting
  <2> QED
    BY <1>1, <1>2, <2>1 DEF InOrder
<1> QED
  BY <1>3, <1>4

LEMMA InOrderKept ==
    ASSUME InOrder, PinFollows, UNCHANGED <<drive, pin, toSend, asked, out, undisturbed>>
    PROVE  InOrder' /\ PinFollows'
BY DEF InOrder, PinFollows, Waiting

LEMMA InOrderNext ==
    ASSUME InOrder, PinFollows, [Next]_vars
    PROVE  InOrder' /\ PinFollows'
<1>1. CASE Fire \/ Sequence
  BY <1>1, InOrderSequenced DEF Fire, Sequence
<1>2. CASE Take \/ Lookup \/ Store \/ NextPart \/ \E n \in FrameLen : BeginFrame(n)
  BY <1>2, InOrderKept DEF Take, Lookup, Store, NextPart, BeginFrame, sending
<1>3. CASE Mark
  <2>1. drive' = "ReadingPacket" /\ undisturbed' = (undisturbed /\ drive \notin Transmit)
        /\ UNCHANGED <<pin, toSend, asked, out>>
    BY <1>3 DEF Mark
  <2>2. ~Waiting' /\ (drive \notin Transmit => ~Waiting)
    BY <2>1 DEF Waiting, Transmit
  <2>3. PinFollows'
    BY <2>1 DEF PinFollows, Transmit
  <2> QED
    BY <2>1, <2>2, <2>3 DEF InOrder, States
<1>4. CASE Send
  <2>1. drive' = "InterPktDelay" /\ undisturbed' = (undisturbed /\ pin = "LOW")
        /\ asked' = asked + 1 /\ toSend' = asked' /\ UNCHANGED <<pin, out>>
    BY <1>4 DEF Send
  <2>2. Waiting'
    BY <2>1 DEF Waiting
  <2>3. \A i \in DOMAIN out : out[i] < asked + 1 /\ out[i] <= asked + 1
    <3> SUFFICES ASSUME NEW i \in DOMAIN out PROVE out[i] < asked + 1 /\ out[i] <= asked + 1
      OBVIOUS
    <3>1. out[i] \in Nat /\ asked \in Nat /\ out[i] <= asked
      BY DEF InOrder
    <3> QED
      BY <3>1
  <2>4. asked + 1 \in Nat /\ asked + 1 > 0
    BY DEF InOrder
  <2>5. PinFollows'
    BY <2>1 DEF PinFollows
  <2> QED
    BY <2>1, <2>2, <2>3, <2>4, <2>5 DEF InOrder, States, Transmit
<1>5. CASE Tick
  BY <1>5, InOrderKept DEF Tick
<1>6. CASE UNCHANGED vars
  BY <1>6, InOrderKept DEF vars, sending
<1> QED
  BY <1>1, <1>2, <1>3, <1>4, <1>5, <1>6 DEF Next

LEMMA InOrderInit == Init => InOrder /\ PinFollows
BY DEF Init, InOrder, PinFollows, States, Transmit, Waiting

\* For any number of timers and any behaviour of caller and line, no packet is
\* written twice or out of order, and the last one asked for is written before
\* the driver rests unless bytes read or a send with the pin up got in between.
THEOREM SentOnce == Spec => []SendsComplete
<1>1. InOrder => SendsComplete
  BY DEF InOrder, SendsComplete
<1> QED
  BY <1>1, InOrderInit, InOrderNext, PTL DEF Spec

-----------------------------------------------------------------------------
(* With one hardware timer.                                                *)

\* What the timer counts of a delay.
Counted(delay) == delay % TimerRange

\* One timer, d ticks ahead.
At(d) == [t \in Delay |-> IF t = d THEN 1 ELSE 0]

\* The hardware timer is armed once at most, and not when the driver is ready.
OneDue ==
    /\ due = NoTimer \/ \E d \in Delay : due = At(d)
    /\ drive = "Ready" => due = NoTimer

\* The timer may run the state machine between the two statements of send, but
\* not past the hold time, which is longer than that.
Between ==
    /\ pc \in {"idle", "store", "mark", "sequence"}
    /\ pc = "sequence" =>
         /\ drive \notin {"PostDrive", "COUNT_STATES"}
         /\ drive = "Sending" => due[0] = 0

\* Bytes go out while the timer still counts the packet's time.
GoingOut ==
    /\ going \in Nat
    /\ undisturbed /\ going > 0 =>
         drive = "PostDrive" /\ \E d \in Delay : due = At(d) /\ going <= d

LEMMA Counting ==
    /\ {Counted(InterPacket), Counted(PacketTime), Counted(Delimit), Hold, 0} \subseteq Delay
    /\ Counted(Hold) = Hold /\ Hold > 0
    /\ PacketTime < TimerRange => Counted(PacketTime) = PacketTime
    /\ Delimit < TimerRange => Counted(Delimit) = Delimit
    /\ Delay \subseteq Nat
<1>1. ASSUME NEW d \in Nat
      PROVE  Counted(d) \in 0..d /\ (d < TimerRange => Counted(d) = d)
  BY DriverAssumption DEF Counted
<1> QED
  BY <1>1, DriverAssumption DEF Delay

LEMMA Hardware ==
    ASSUME OneTimer, NEW pending, NEW delay, NEW s, Counted(delay) \in Delay,
           SetTimer(pending, delay, s)
    PROVE  due' = At(Counted(delay))
<1>1. \A d \in Delay : [NoTimer EXCEPT ![d] = 1] = At(d)
  BY DEF NoTimer, At
<1> QED
  BY <1>1 DEF SetTimer, Counted

LEMMA Armed ==
    ASSUME OneTimer, NEW pending, PacketSequencer(pending)
    PROVE  /\ drive = "InterPktDelay" => due' = At(Counted(InterPacket))
           /\ drive \in {"PreDrive", "PostDrive"} => due' = At(Hold)
           /\ drive = "Sending" => due' = At(Counted(PacketTime))
           /\ drive = "ReadingPacket" => due' = At(Counted(Delimit))
           /\ drive \in {"COUNT_STATES", "PacketReady"} => due' = NoTimer
           /\ drive = "Ready" => due' = pending
<1>1. DOMAIN Timed = {"InterPktDelay", "PreDrive", "Sending", "PostDrive", "ReadingPacket"}
  BY DEF Timed
<1>2. /\ Timed["InterPktDelay"] = <<InterPacket, "PreDrive">>
      /\ Timed["PreDrive"] = <<Hold, "Sending">>
      /\ Timed["Sending"] = <<PacketTime, "PostDrive">>
      /\ Timed["PostDrive"] = <<Hold, "COUNT_STATES">>
      /\ Timed["ReadingPacket"] = <<Delimit, "PacketReady">>
  BY DEF Timed
<1>3. /\ drive \in DOMAIN Timed => SetTimer(pending, Timed[drive][1], Timed[drive][2])
      /\ drive \in {"COUNT_STATES", "PacketReady"} => ToReady(pending)
      /\ drive = "Ready" => due' = pending
  BY <1>1 DEF PacketSequencer
<1>4. ASSUME NEW delay, NEW s, drive \in DOMAIN Timed, Timed[drive] = <<delay, s>>,
             Counted(delay) \in Delay
      PROVE  due' = At(Counted(delay))
  BY <1>3, <1>4, Hardware
<1>5. drive \in {"COUNT_STATES", "PacketReady"} => due' = NoTimer
  BY <1>3 DEF ToReady
<1> QED
  BY <1>1, <1>2, <1>3, <1>4, <1>5, Counting

LEMMA NothingDue == ~(NoTimer[0] > 0) /\ \A d \in Delay : ~(At(d)[0] > 0) \/ d = 0
BY Counting DEF NoTimer, At

LEMMA AtIsNot == \A d \in Delay : At(d) # NoTimer /\ \A e \in Delay : At(d) = At(e) => d = e
<1>1. ASSUME NEW d \in Delay
      PROVE  At(d)[d] = 1 /\ NoTimer[d] = 0 /\ \A e \in Delay : e # d => At(e)[d] = 0
  BY DEF At, NoTimer
<1> QED
  BY <1>1

LEMMA Ticked ==
    ASSUME NEW d \in Delay,
           due[0] = 0, due = NoTimer \/ due = At(d),
           due' = [t \in Delay |-> IF t + 1 \in Delay THEN due[t + 1] ELSE 0]
    PROVE  /\ due = NoTimer => due' = NoTimer
           /\ due = At(d) => d > 0 /\ d - 1 \in Delay /\ due' = At(d - 1)
<1>1. CASE due = NoTimer
  BY <1>1, AtIsNot DEF NoTimer
<1>2. CASE due = At(d)
  <2>1. d > 0
    BY <1>2, Counting DEF At
  <2>2. d - 1 \in Delay
    BY <2>1, DriverAssumption DEF Delay
  <2>3. due' = At(d - 1)
    BY <1>2, <2>1, <2>2, Counting DEF At
  <2> QED
    BY <1>2, <2>1, <2>2, <2>3, AtIsNot
<1> QED
  BY <1>1, <1>2

Clocked == InOrder /\ PinFollows /\ OneDue /\ Between /\ (PacketTime < TimerRange => GoingOut)

\* The timer or the thread of loop() runs packetSequencer.
LEMMA ClockedSequenced ==
    ASSUME OneTimer, Clocked, NEW pending, PacketSequencer(pending),
           drive = "Ready" => pending = NoTimer,
           \/ pc' = pc /\ due[0] > 0
           \/ pc = "sequence" /\ pc' = "idle"
    PROVE  Clocked'
<1>1. InOrder' /\ PinFollows'
  BY InOrderSequenced DEF Clocked
<1>2. drive \in States
  BY DEF Clocked, InOrder
<1>3. OneDue'
  BY <1>2, Steps, Armed, Counting DEF OneDue, States, Transmit
<1>4. Between'
  <2>1. CASE pc' = pc /\ due[0] > 0
    <3>1. CASE drive = "PreDrive"
      <4>1. drive' = "Sending" /\ due' = At(Hold) /\ 0 \in Delay /\ 0 # Hold
        BY <3>1, Steps, Armed, Counting
      <4>2. due'[0] = 0
        BY <4>1 DEF At
      <4> QED
        BY <2>1, <4>1, <4>2 DEF Clocked, Between
    <3>2. CASE drive # "PreDrive"
      <4>1. pc = "sequence" => drive \notin {"Sending", "PostDrive", "COUNT_STATES"}
        BY <2>1 DEF Clocked, Between
      <4>2. pc = "sequence" => drive' \in {"PreDrive", "PacketReady", "Ready"}
        BY <1>2, <3>2, <4>1, Steps DEF States, Transmit
      <4> QED
        BY <2>1, <4>2 DEF Clocked, Between
    <3> QED
      BY <3>1, <3>2
  <2>2. CASE pc' = "idle"
    BY <2>2 DEF Between
  <2> QED
    BY <2>1, <2>2
<1>5. ASSUME PacketTime < TimerRange
      PROVE  GoingOut'
  <2>1. CASE drive = "Sending"
    <3>1. drive' = "PostDrive" /\ going' = PacketTime /\ due' = At(PacketTime)
          /\ PacketTime \in Delay
      BY <1>5, <2>1, Steps, Armed, Counting
    <3> QED
      BY <3>1, Counting DEF GoingOut
  <2>2. CASE drive = "PostDrive"
    <3>1. pc # "sequence"
      BY <2>2 DEF Clocked, Between
    <3>2. due[0] > 0
      BY <3>1
    <3>3. undisturbed => ~(going > 0)
      <4> SUFFICES ASSUME undisturbed, going > 0 PROVE FALSE
        OBVIOUS
      <4>1. PICK d \in Delay : due = At(d) /\ going <= d
        BY <1>5 DEF Clocked, GoingOut
      <4>2. d = 0
        BY <3>2, <4>1, NothingDue
      <4> QED
        BY <1>5, <4>1, <4>2 DEF Clocked, GoingOut
    <3> QED
      BY <1>5, <2>2, <3>3, Steps DEF Clocked, GoingOut
  <2>3. CASE drive \notin {"Sending", "PostDrive"}
    BY <1>5, <2>3, Steps DEF Clocked, GoingOut
  <2> QED
    BY <2>1, <2>2, <2>3
<1> QED
  BY <1>1, <1>3, <1>4, <1>5 DEF Clocked

LEMMA ClockedNext ==
    ASSUME OneTimer, Clocked, [Next]_vars
    PROVE  Clocked'
<1>1. InOrder' /\ PinFollows'
  BY InOrderNext DEF Clocked
<1>2. CASE Fire
  <2>1. due # NoTimer /\ due[0] > 0 /\ pc' = pc
    BY <1>2, NothingDue DEF Fire
  <2>2. drive # "Ready"
    BY <2>1 DEF Clocked, OneDue
  <2> QED
    BY <1>2, <2>1, <2>2, ClockedSequenced DEF Fire
<1>3. CASE Sequence
  BY <1>3, ClockedSequenced DEF Sequence, Clocked, OneDue
<1>4. CASE \/ Take \/ Lookup \/ Store \/ NextPart \/ \E n \in FrameLen : BeginFrame(n)
           \/ UNCHANGED vars
  <2>1. UNCHANGED <<drive, due, going, undisturbed>>
    BY <1>4 DEF Take, Lookup, Store, NextPart, BeginFrame, sending, vars
  <2>2. pc' \in {"idle", "store", "mark"} \/ pc' = pc
    BY <1>4 DEF Take, Lookup, Store, NextPart, BeginFrame, vars
  <2>3. OneDue' /\ Between' /\ (GoingOut => GoingOut')
    BY <2>1, <2>2 DEF Clocked, OneDue, Between, GoingOut
  <2> QED
    BY <1>1, <2>3 DEF Clocked
<1>5. CASE Mark
  <2>1. /\ drive' = "ReadingPacket" /\ undisturbed' = (undisturbed /\ drive \notin Transmit)
        /\ UNCHANGED <<due, going>> /\ pc' = "sequence"
    BY <1>5 DEF Mark, sending
  <2>2. GoingOut => GoingOut'
    BY <2>1 DEF GoingOut, Transmit
  <2>3. OneDue' /\ Between'
    BY <2>1 DEF Clocked, OneDue, Between
  <2> QED
    BY <1>1, <2>2, <2>3 DEF Clocked
<1>6. CASE Send
  <2>1. /\ drive' = "InterPktDelay" /\ undisturbed' = (undisturbed /\ pin = "LOW")
        /\ UNCHANGED <<due, going>> /\ pc' = "sequence"
    BY <1>6 DEF Send
  <2>2. GoingOut => GoingOut'
    BY <2>1 DEF GoingOut, Clocked, PinFollows
  <2>3. OneDue' /\ Between'
    BY <2>1 DEF Clocked, OneDue, Between
  <2> QED
    BY <1>1, <2>2, <2>3 DEF Clocked
<1>7. CASE Tick
  <2>1. /\ UNCHANGED <<drive, pc, undisturbed>> /\ due[0] = 0 /\ pc = "idle"
        /\ due' = [t \in Delay |-> IF t + 1 \in Delay THEN due[t + 1] ELSE 0]
        /\ going' = IF going > 0 THEN going - 1 ELSE 0
    BY <1>7 DEF Tick
  <2>2. OneDue' /\ Between'
    <3>1. PICK d \in Delay : due = NoTimer \/ due = At(d)
      BY Counting DEF Clocked, OneDue
    <3>2. /\ due = NoTimer => due' = NoTimer
          /\ due = At(d) => d - 1 \in Delay /\ due' = At(d - 1)
      BY <2>1, <3>1, Ticked
    <3> QED
      BY <2>1, <3>1, <3>2 DEF Clocked, OneDue, Between
  <2>3. ASSUME GoingOut
        PROVE  GoingOut'
    <3>1. CASE undisturbed /\ going > 0
      <4>1. PICK d \in Delay : due = At(d) /\ going <= d
        BY <2>3, <3>1 DEF GoingOut
      <4>2. d > 0 /\ d - 1 \in Delay /\ due' = At(d - 1)
        BY <2>1, <4>1, Ticked
      <4>3. d \in Nat /\ going \in Nat
        BY <2>3, Counting DEF GoingOut
      <4> QED
        BY <2>1, <2>3, <3>1, <4>1, <4>2, <4>3 DEF GoingOut
    <3>2. CASE ~(undisturbed /\ going > 0)
      BY <2>1, <2>3, <3>2 DEF GoingOut
    <3> QED
      BY <3>1, <3>2
  <2> QED
    BY <1>1, <2>2, <2>3 DEF Clocked
<1> QED
  BY <1>2, <1>3, <1>4, <1>5, <1>6, <1>7 DEF Next

LEMMA ClockedInit == Init => Clocked
BY InOrderInit DEF Init, Clocked, OneDue, Between, GoingOut

\* Unless a transmission is disturbed, the pin drives the line exactly while a
\* packet is held, sent and held again, for any timers, caller and line; with
\* one timer that can count the packet's time, while its bytes go out.
THEOREM PinFollowsDrive == Spec => []PinReleased
<1>1. CASE OneTimer
  <2>1. Clocked => PinReleased
    BY DEF Clocked, PinFollows, PinReleased, GoingOut
  <2> QED
    BY <1>1, <2>1, ClockedInit, ClockedNext, PTL DEF Spec
<1>2. CASE ~OneTimer
  <2>1. PinFollows => PinReleased
    BY <1>2 DEF PinFollows, PinReleased
  <2> QED
    BY <2>1, InOrderInit, InOrderNext, PTL DEF Spec
<1> QED
  BY <1>1, <1>2

-----------------------------------------------------------------------------
(* With devices that take turns besides.                                   *)

\* From send to the release of the pin nothing is on its way in, and readData
\* runs only while nothing is sent: no transmission is disturbed.
Turns ==
    /\ undisturbed
    /\ drive \in Transmit => arrived = <<>> /\ building = <<>> /\ line.left = 0
    /\ drive \in {"InterPktDelay", "ReadingPacket"} => pc = "sequence"
    /\ pc \in {"store", "mark"} => drive \in {"Ready", "PacketReady"}

HalfDuplex == Clocked /\ Turns

LEMMA TurnsKept ==
    ASSUME Turns, UNCHANGED <<drive, pc, undisturbed>>,
           drive \in Transmit => UNCHANGED <<arrived, building, line.left>>
    PROVE  Turns'
BY DEF Turns

LEMMA HalfDuplexNext ==
    ASSUME OneTimer, TakeTurns, HalfDuplex, [Next]_vars
    PROVE  HalfDuplex'
<1> SUFFICES Turns'
  BY ClockedNext DEF HalfDuplex
<1> USE DEF HalfDuplex
<1>1. ASSUME NEW pending, PacketSequencer(pending),
             \/ pc' = pc /\ drive # "Ready" /\ (drive \in {"InterPktDelay", "PreDrive"} \/ pc \notin {"store", "mark"} \/ drive = "PacketReady")
             \/ pc = "sequence" /\ pc' = "idle"
      PROVE  Turns'
  <2>1. drive \in States
    BY DEF Clocked, InOrder
  <2>2. /\ arrived' = arrived /\ line' = line /\ undisturbed' = undisturbed
        /\ drive # "PacketReady" => building' = building
    BY <1>1, Steps
  <2>3. drive' \in Transmit => drive \in Transmit /\ drive # "PacketReady"
    BY <1>1, <2>1, Steps DEF States, Transmit
  <2>4. drive' \notin {"InterPktDelay", "ReadingPacket"}
    BY <1>1, <2>1, Steps DEF States, Transmit
  <2>5. pc' \in {"store", "mark"} => drive' \in {"Ready", "PacketReady"}
    BY <1>1, Steps DEF Turns
  <2> QED
    BY <2>2, <2>3, <2>4, <2>5 DEF Turns
<1>2. CASE Fire
  <2>1. due # NoTimer
    BY <1>2, NothingDue DEF Fire
  <2>2. drive # "Ready"
    BY <2>1 DEF Clocked, OneDue
  <2>3. pc \notin {"store", "mark"} \/ drive = "PacketReady"
    BY <2>2 DEF Turns
  <2> QED
    BY <1>1, <1>2, <2>2, <2>3 DEF Fire
<1>3. CASE Sequence
  BY <1>1, <1>3 DEF Sequence
<1>4. CASE Take
  BY <1>4, TurnsKept DEF Take, sending
<1>5. CASE Lookup
  <2>1. pc = "idle" /\ drive' = drive /\ UNCHANGED <<arrived, building, line, undisturbed>>
        /\ pc' = IF arrived = <<>> THEN "idle" ELSE "store"
    BY <1>5 DEF Lookup, receiving, sending
  <2>2. drive \in States
    BY DEF Clocked, InOrder
  <2>3. arrived # <<>> => drive \in {"Ready", "PacketReady"}
    BY <2>1, <2>2 DEF Turns, States
  <2> QED
    BY <2>1, <2>3 DEF Turns
<1>6. CASE Store
  <2>1. pc = "store" /\ pc' = "mark" /\ UNCHANGED <<drive, undisturbed>>
    BY <1>6 DEF Store, sending
  <2> QED
    BY <2>1 DEF Turns, Transmit
<1>7. CASE Mark
  <2>1. pc = "mark" /\ pc' = "sequence" /\ drive' = "ReadingPacket"
        /\ undisturbed' = (undisturbed /\ drive \notin Transmit)
    BY <1>7 DEF Mark
  <2> QED
    BY <2>1 DEF Turns, Transmit
<1>8. CASE Send
  <2>1. /\ pin = "LOW" /\ line.left = 0 /\ arrived = <<>> /\ building = <<>>
        /\ drive' = "InterPktDelay" /\ undisturbed' = (undisturbed /\ pin = "LOW")
        /\ pc' = "sequence" /\ UNCHANGED <<arrived, building, line>>
    BY <1>8 DEF Send, Quiet, receiving
  <2> QED
    BY <2>1 DEF Turns
<1>9. ASSUME NEW n \in FrameLen, BeginFrame(n)
      PROVE  Turns'
  BY <1>9, TurnsKept DEF BeginFrame, sending
<1>10. CASE NextPart
  <2>1. drive \notin Transmit
    BY <1>10 DEF NextPart, Turns
  <2> QED
    BY <1>10, <2>1, TurnsKept DEF NextPart, sending
<1>11. CASE Tick
  <2>1. UNCHANGED <<drive, pc, undisturbed, arrived, building>> /\ line'.left = line.left
    <3> DEFINE q == IF line.quiet < FrameGap THEN line.quiet + 1 ELSE line.quiet
    <3>1. line' = [line EXCEPT !.quiet = q]
      BY <1>11 DEF Tick
    <3> QED
      BY <1>11, <3>1 DEF Tick, receiving
  <2> QED
    BY <2>1, TurnsKept
<1>12. CASE UNCHANGED vars
  BY <1>12, TurnsKept DEF vars, receiving, sending
<1> QED
  BY <1>2, <1>3, <1>4, <1>5, <1>6, <1>7, <1>8, <1>9, <1>10, <1>11, <1>12 DEF Next

LEMMA HalfDuplexInit == Init => HalfDuplex
BY ClockedInit DEF Init, HalfDuplex, Turns, Transmit

-----------------------------------------------------------------------------
(* With frames that are packets besides, and timings that tell a silence   *)
(* inside a frame from one between two frames.                             *)

Timely ==
    /\ \A n \in FrameLen : n >= MinLen
    /\ Gap + Latency < Delimit /\ Delimit < TimerRange
    /\ Latency + Latency + Delimit < FrameGap

\* A frame is on its way to the ring.
Busy == building # <<>> \/ arrived # <<>>

\* The parts of frame f from place "first" on, "many" of them.
Parts(f, first, many) == [k \in 1..many |-> <<f, first + k - 1>>]

Types ==
    /\ line \in [frames : Seq(FrameLen), left : Nat, quiet : Nat]
    /\ polled \in 0..Latency

\* What is in the driver of the last frame.
Progress ==
    /\ ~Busy => line.left = 0
    /\ Busy =>
         /\ queue = <<>>
         /\ FrameNo > 0
         /\ Len(building) + Len(arrived) + line.left = line.frames[FrameNo]
         /\ building = Parts(FrameNo, 1, Len(building))
         /\ arrived = Parts(FrameNo, Len(building) + 1, Len(arrived))

\* The caller has the frames before it.
Received ==
    /\ Len(got) = FrameNo - (IF Busy \/ queue # <<>> THEN 1 ELSE 0)
    /\ got = [f \in 1..Len(got) |-> Frame(f)]
    /\ queue # <<>> => FrameNo > 0 /\ queue = <<Frame(FrameNo)>>

\* Which states of the driver go with a frame on its way.
Stages ==
    /\ drive = "PacketReady" => building # <<>> /\ due # NoTimer
    /\ drive = "ReadingPacket" => building # <<>> /\ arrived = <<>>
    /\ pc \in {"idle", "store"} => (building # <<>> <=> drive = "PacketReady")
    /\ pc = "store" => arrived # <<>>
    /\ pc \in {"mark", "sequence"} => arrived = <<>>
    /\ pc = "mark" => building # <<>>
    /\ pc = "sequence" => drive \in Transmit \cup {"ReadingPacket"}
    /\ pc # "idle" /\ drive \notin Transmit => due[0] = 0

\* How long the line has been silent, as the hardware timer and the calls of
\* hasPacket tell it.
Silence ==
    /\ line.left > 0 => line.quiet <= Gap
    /\ pc = "idle" /\ arrived # <<>> => line.quiet <= polled
    /\ pc # "idle" /\ Busy => line.quiet <= Latency
    /\ queue # <<>> => line.quiet <= Latency + Delimit + polled
    /\ \A d \in Delay : drive = "PacketReady" /\ due = At(d) =>
         /\ pc = "idle" /\ arrived # <<>> => d + polled > Latency
         /\ pc = "idle" /\ arrived = <<>> /\ line.left > 0 =>
              d + line.quiet >= Delimit
         /\ pc = "idle" /\ line.left = 0 /\ arrived = <<>> =>
              line.quiet + d <= Latency + Delimit

Undivided == HalfDuplex /\ Types /\ Progress /\ Received /\ Stages /\ Silence


LEMMA PartsLen ==
    ASSUME NEW f, NEW first \in Nat, NEW many \in Nat
    PROVE  /\ Len(Parts(f, first, many)) = many
           /\ Parts(f, first, many) = <<>> <=> many = 0
BY DEF Parts

LEMMA PartsAppend ==
    ASSUME NEW f, NEW first \in Nat \ {0}, NEW many \in Nat
    PROVE  Append(Parts(f, first, many), <<f, first + many>>) = Parts(f, first, many + 1)
BY DEF Parts

LEMMA PartsConcat ==
    ASSUME NEW f, NEW b \in Nat, NEW a \in Nat
    PROVE  Parts(f, 1, b) \o Parts(f, b + 1, a) = Parts(f, 1, b + a)
BY DEF Parts

LEMMA FrameIsParts ==
    ASSUME NEW f
    PROVE  Frame(f) = Parts(f, 1, line.frames[f])
BY DEF Frame, Parts


LEMMA FramePrefix ==
    ASSUME NEW n \in Nat, NEW m \in 0..n,
           NEW s, s = [f \in 1..m |-> Frame(f)], NEW t, t = [f \in 1..n |-> Frame(f)]
    PROVE  IsPrefix(s, t)
BY DEF IsPrefix

LEMMA Framed ==
    ASSUME Undivided
    PROVE  /\ FrameNo \in Nat /\ Len(got) \in Nat
           /\ \A f \in 1..FrameNo : line.frames[f] \in FrameLen /\ line.frames[f] \in Nat
           /\ polled \in Nat /\ line.left \in Nat /\ line.quiet \in Nat
           /\ Latency \in Nat /\ Delimit \in Nat /\ Gap \in Nat /\ FrameGap \in Nat
           /\ line.frames \in Seq(FrameLen)
<1>1. line.frames \in Seq(FrameLen) /\ line.left \in Nat /\ line.quiet \in Nat
      /\ polled \in 0..Latency
  BY DEF Undivided, Types
<1>2. FrameNo \in Nat /\ \A f \in 1..FrameNo : line.frames[f] \in FrameLen
  BY <1>1 DEF FrameNo
<1>3. Len(got) = FrameNo - (IF Busy \/ queue # <<>> THEN 1 ELSE 0)
      /\ (Busy => FrameNo > 0) /\ (queue # <<>> => FrameNo > 0)
  BY DEF Undivided, Received, Progress
<1>4. Len(got) \in Nat
  BY <1>2, <1>3
<1>5. Latency \in Nat /\ Delimit \in Nat /\ Gap \in Nat /\ FrameGap \in Nat
      /\ \A n \in FrameLen : n \in Nat
  BY DriverAssumption
<1> QED
  BY <1>1, <1>2, <1>4, <1>5

LEMMA UndividedWhole == ASSUME Undivided PROVE WholeFrames
<1> DEFINE g == Len(got)
           m == Len(got) + Len(queue)
<1>1. FrameNo \in Nat /\ g \in Nat
  BY Framed
<1>2. CASE queue = <<>>
  <2>1. Packets = got
    <3>1. got = [f \in 1..g |-> Frame(f)]
      BY DEF Undivided, Received
    <3> QED
      BY <1>1, <1>2, <3>1 DEF Packets
  <2>2. g \in 0..FrameNo
    BY <1>1, <1>2 DEF Undivided, Received
  <2> QED
    BY <1>1, <2>1, <2>2, FramePrefix DEF WholeFrames, Undivided, Received
<1>3. CASE queue # <<>>
  <2>1. queue = <<Frame(FrameNo)>> /\ FrameNo = g + 1 /\ got = [f \in 1..g |-> Frame(f)]
    BY <1>1, <1>3 DEF Undivided, Received
  <2>2. Packets = [f \in 1..FrameNo |-> Frame(f)]
    <3> HIDE DEF g
    <3> DEFINE whole == [f \in 1..FrameNo |-> Frame(f)]
    <3>1. got \o queue = whole
      BY <1>1, <2>1
    <3> QED
      BY <3>1 DEF Packets
  <2> QED
    BY <1>1, <2>2, FramePrefix DEF WholeFrames
<1> QED
  BY <1>2, <1>3

\* What the frames before the last one are does not change.
LEMMA FramesStay ==
    ASSUME Undivided, line'.frames = line.frames
    PROVE  /\ FrameNo' = FrameNo
           /\ \A f : Frame(f)' = Frame(f)
BY DEF FrameNo, Frame

\* Steps of the drive state, the timer and the pin alone, with nothing on its
\* way in before or after.
LEMMA UndividedAway ==
    ASSUME Undivided, HalfDuplex',
           ~Busy, drive' # "PacketReady", drive' # "ReadingPacket",
           UNCHANGED <<building, arrived, queue, got, line, polled>>,
           pc' = "idle" \/ (pc' = "sequence" /\ drive' \in Transmit)
    PROVE  Undivided'
<1>1. UNCHANGED <<Busy, FrameNo>> /\ \A f : Frame(f)' = Frame(f)
  BY DEF Busy, FrameNo, Frame
<1>2. Types'
  BY DEF Undivided, Types
<1>3. Progress'
  BY <1>1 DEF Undivided, Progress
<1>4. Received'
  BY <1>1 DEF Undivided, Received
<1>5. Stages'
  BY DEF Undivided, Stages, Busy, Transmit
<1>6. Silence'
  BY <1>1 DEF Undivided, Silence, Busy, Types
<1> QED
  BY <1>2, <1>3, <1>4, <1>5, <1>6 DEF Undivided

\* The timer completes the packet, the whole frame, in an idle thread.
LEMMA UndividedComplete ==
    ASSUME OneTimer, Timely, Undivided, HalfDuplex', Fire, drive = "PacketReady"
    PROVE  Undivided'
<1>1. pc = "idle" /\ due = At(0)
  <2>1. due # NoTimer
    BY NothingDue DEF Fire
  <2>2. PICK d \in Delay : due = At(d)
    BY <2>1 DEF Undivided, HalfDuplex, Clocked, OneDue
  <2>3. d = 0
    BY <2>2, NothingDue DEF Fire
  <2>4. pc = "idle"
    BY DEF Fire, Undivided, Stages, HalfDuplex, Turns, Clocked, InOrder, Between, States
  <2> QED
    BY <2>2, <2>3, <2>4
<1>2. building # <<>> /\ arrived = <<>> /\ line.left = 0 /\ line.quiet <= Latency + Delimit
  <2>1. building # <<>>
    BY DEF Undivided, Stages
  <2>2. arrived # <<>> => 0 + polled > Latency
    BY <1>1, Counting DEF Undivided, Silence
  <2>3. arrived = <<>> /\ line.left > 0 => line.quiet <= Gap /\ 0 + line.quiet >= Delimit
    BY <1>1, Counting DEF Undivided, Silence
  <2>4. line.left = 0 /\ arrived = <<>> => line.quiet + 0 <= Latency + Delimit
    BY <1>1, Counting DEF Undivided, Silence
  <2>5. arrived = <<>>
    BY <2>2, Framed DEF Undivided, Types
  <2>6. line.left = 0
    BY <2>3, <2>5, Framed DEF Timely
  <2> QED
    BY <2>1, <2>4, <2>5, <2>6, Framed
<1>3. Busy /\ queue = <<>> /\ FrameNo > 0 /\ building = Frame(FrameNo)
      /\ Len(building) >= MinLen /\ Len(got) = FrameNo - 1
  <2>1. Busy
    BY <1>2 DEF Busy
  <2>2. queue = <<>> /\ FrameNo > 0
        /\ Len(building) + Len(arrived) + line.left = line.frames[FrameNo]
        /\ building = Parts(FrameNo, 1, Len(building))
    BY <2>1 DEF Undivided, Progress
  <2>3. Len(building) = line.frames[FrameNo] /\ line.frames[FrameNo] \in FrameLen
    <3>1. line.frames[FrameNo] \in FrameLen /\ line.frames[FrameNo] \in Nat
      BY <2>2, Framed
    <3>2. DOMAIN building = 1..Len(building) /\ Len(building) \in Nat
      BY <2>2, <3>1, <1>2
    <3> QED
      BY <1>2, <2>2, <3>1, <3>2
  <2> QED
    BY <2>1, <2>2, <2>3, FrameIsParts, Framed DEF Timely, Undivided, Received
<1>4. /\ drive' = "Ready" /\ due' = NoTimer /\ CompletePacket
      /\ UNCHANGED <<got, arrived, line, polled, pc>>
  BY Steps, Armed DEF Fire
<1>5. queue' = <<Frame(FrameNo)>> /\ building' = <<>>
  BY <1>3, <1>4 DEF CompletePacket
<1>6. FrameNo' = FrameNo /\ ~Busy' /\ \A f : Frame(f)' = Frame(f)
  BY <1>2, <1>4, <1>5, FramesStay DEF Busy
<1>7. Types'
  BY <1>4 DEF Undivided, Types
<1>8. Progress'
  BY <1>2, <1>4, <1>6 DEF Progress
<1>9. Received'
  <2>1. queue' # <<>> /\ Len(got') = FrameNo' - 1
    BY <1>3, <1>4, <1>5, <1>6
  <2>2. got' = [f \in 1..Len(got') |-> Frame(f)']
    BY <1>4, <1>6 DEF Undivided, Received
  <2> QED
    BY <1>3, <1>5, <1>6, <2>1, <2>2 DEF Received
<1>10. Stages'
  BY <1>1, <1>2, <1>4, <1>5 DEF Stages
<1>11. Silence'
  BY <1>1, <1>2, <1>4, <1>5, <1>6, Framed DEF Silence
<1> QED
  BY <1>7, <1>8, <1>9, <1>10, <1>11 DEF Undivided

LEMMA UndividedFire ==
    ASSUME OneTimer, Timely, Undivided, HalfDuplex', Fire
    PROVE  Undivided'
<1>1. due # NoTimer /\ due[0] > 0 /\ pc' = pc
  BY NothingDue DEF Fire
<1>2. drive \in Transmit \cup {"ReadingPacket", "PacketReady"}
  BY <1>1 DEF Undivided, HalfDuplex, Clocked, InOrder, OneDue, States
<1>3. pc = "idle" \/ (pc = "sequence" /\ drive \in Transmit)
  <2>1. pc # "idle" => drive \in Transmit
    BY <1>1 DEF Undivided, Stages
  <2>2. drive \in Transmit => pc \notin {"store", "mark"}
    BY DEF Undivided, HalfDuplex, Turns, Transmit
  <2> QED
    BY <2>1, <2>2 DEF Undivided, HalfDuplex, Clocked, Between
<1>4. CASE drive \in Transmit
  <2>1. ~Busy
    BY <1>4 DEF Undivided, HalfDuplex, Turns, Busy
  <2>2. drive' \in {"PreDrive", "Sending", "PostDrive", "COUNT_STATES", "Ready"}
        /\ UNCHANGED <<building, arrived, queue, got, line, polled>>
    BY <1>4, Steps DEF Fire, Transmit
  <2>3. pc' = "idle" \/ (pc' = "sequence" /\ drive' \in Transmit)
    <3>1. pc = "sequence" => drive # "COUNT_STATES"
      BY DEF Undivided, HalfDuplex, Clocked, Between
    <3>2. drive # "COUNT_STATES" => drive' \in Transmit
      BY <1>4, Steps DEF Fire, Transmit
    <3> QED
      BY <1>1, <1>3, <3>1, <3>2
  <2> QED
    BY <2>1, <2>2, <2>3, UndividedAway
<1>5. CASE drive = "PacketReady"
  BY <1>5, UndividedComplete
<1>6. drive # "ReadingPacket"
  BY <1>3 DEF Undivided, HalfDuplex, Turns, Transmit
<1> QED
  BY <1>2, <1>4, <1>5, <1>6

LEMMA UndividedSequence ==
    ASSUME OneTimer, Timely, Undivided, HalfDuplex', Sequence
    PROVE  Undivided'
<1>1. pc = "sequence" /\ pc' = "idle" /\ PacketSequencer(due)
      /\ arrived = <<>> /\ drive \in Transmit \cup {"ReadingPacket"}
  BY DEF Sequence, Undivided, Stages
<1>2. UNCHANGED <<got, arrived, line, polled>>
      /\ (drive # "PacketReady" => UNCHANGED <<building, queue>>)
  BY <1>1, Steps
<1>3. CASE drive \in Transmit
  <2>1. ~Busy
    BY <1>3 DEF Undivided, HalfDuplex, Turns, Busy
  <2>2. drive # "PacketReady" /\ drive' # "PacketReady" /\ drive' # "ReadingPacket"
    BY <1>1, <1>3, Steps DEF Transmit
  <2> QED
    BY <1>1, <1>2, <2>1, <2>2, UndividedAway
<1>4. CASE drive = "ReadingPacket"
  <2> UNCHANGED <<building, queue>>
    BY <1>2, <1>4
  <2>1. drive' = "PacketReady" /\ due' = At(Delimit) /\ Delimit \in Delay
    BY <1>1, <1>4, Steps, Armed, Counting DEF Timely
  <2>2. building # <<>> /\ Busy /\ line.quiet <= Latency
    BY <1>1, <1>4 DEF Undivided, Stages, Silence, Busy
  <2>3. FrameNo' = FrameNo /\ Busy' /\ \A f : Frame(f)' = Frame(f)
    BY <1>2, <2>2, FramesStay DEF Busy
  <2>4. Types' /\ Progress' /\ Received'
    BY <1>2, <2>2, <2>3 DEF Undivided, Types, Progress, Received
  <2>5. Stages'
    BY <1>1, <1>2, <2>1, <2>2, AtIsNot DEF Stages
  <2>6. Silence'
    <3>1. \A d \in Delay : due' = At(d) => d = Delimit
      BY <2>1, AtIsNot
    <3>2. queue = <<>> /\ (line.left > 0 => line.quiet <= Gap)
      BY <2>2 DEF Undivided, Progress, Silence
    <3> QED
      BY <1>1, <1>2, <2>1, <2>2, <3>1, <3>2, Framed DEF Silence
  <2> QED
    BY <2>4, <2>5, <2>6 DEF Undivided
<1> QED
  BY <1>1, <1>3, <1>4

LEMMA UndividedTake ==
    ASSUME Undivided, HalfDuplex', Take
    PROVE  Undivided'
<1>1. ~Busy /\ queue = <<Frame(FrameNo)>> /\ FrameNo > 0 /\ Len(got) = FrameNo - 1
  BY DEF Take, Undivided, Progress, Received
<1>2. queue' = <<>> /\ got' = Append(got, Frame(FrameNo)) /\ polled' = 0
      /\ UNCHANGED <<drive, due, pin, pc, building, arrived, line>> /\ pc = "idle"
  BY <1>1 DEF Take
<1>3. FrameNo' = FrameNo /\ ~Busy' /\ \A f : Frame(f)' = Frame(f)
  BY <1>1, <1>2, FramesStay DEF Busy
<1>4. Types'
  BY <1>2, DriverAssumption DEF Undivided, Types
<1>5. Progress'
  BY <1>1, <1>2, <1>3 DEF Undivided, Progress
<1>6. Received'
  <2> DEFINE g == Len(got)
  <2>1. g \in Nat /\ got = [f \in 1..g |-> Frame(f)] /\ FrameNo = g + 1
    BY <1>1, Framed DEF Undivided, Received
  <2> HIDE DEF g
  <2>2. Append(got, Frame(FrameNo)) = [f \in 1..FrameNo |-> Frame(f)]
    BY <2>1
  <2>3. Len(got') = FrameNo
    BY <1>2, <2>1, <2>2
  <2>4. got' = [f \in 1..Len(got') |-> Frame(f)']
    BY <1>2, <1>3, <2>2, <2>3
  <2>5. FrameNo \in Nat
    BY Framed
  <2> QED
    BY <1>2, <1>3, <2>3, <2>4, <2>5 DEF Received
<1>7. Stages'
  BY <1>1, <1>2 DEF Undivided, Stages, Busy
<1>8. Silence'
  BY <1>1, <1>2 DEF Undivided, Silence, Busy, Stages
<1> QED
  BY <1>4, <1>5, <1>6, <1>7, <1>8 DEF Undivided

LEMMA UndividedLookup ==
    ASSUME Timely, Undivided, HalfDuplex', Lookup
    PROVE  Undivided'
<1>1. /\ pc = "idle" /\ queue = <<>> /\ polled' = 0
      /\ pc' = IF arrived = <<>> THEN "idle" ELSE "store"
      /\ UNCHANGED <<drive, due, pin, building, queue, got, arrived, line>>
  BY DEF Lookup, receiving
<1>2. FrameNo' = FrameNo /\ Busy' = Busy /\ \A f : Frame(f)' = Frame(f)
  BY <1>1, FramesStay DEF Busy
<1>3. Types'
  BY <1>1, DriverAssumption DEF Undivided, Types
<1>4. Progress' /\ Received'
  BY <1>1, <1>2 DEF Undivided, Progress, Received
<1>5. Stages'
  <2>1. arrived # <<>> => due[0] = 0
    <3> SUFFICES ASSUME arrived # <<>> PROVE due[0] = 0
      OBVIOUS
    <3>1. PICK d \in Delay : due = NoTimer \/ due = At(d)
      BY Counting DEF Undivided, HalfDuplex, Clocked, OneDue
    <3>2. CASE due = NoTimer
      BY <3>2, Counting DEF NoTimer
    <3>3. CASE due = At(d)
      <4>1. drive = "PacketReady"
        BY <1>1, <3>3, AtIsNot DEF Undivided, HalfDuplex, Clocked, OneDue, Turns, Transmit, InOrder, States
      <4>2. d + polled > Latency
        BY <1>1, <3>3, <4>1 DEF Undivided, Silence
      <4>3. d # 0
        BY <4>2, Framed DEF Undivided, Types
      <4> QED
        BY <3>3, <4>3, Counting DEF At
    <3> QED
      BY <3>1, <3>2, <3>3
  <2> QED
    BY <1>1, <2>1 DEF Undivided, Stages
<1>6. Silence'
  BY <1>1, <1>2, Framed DEF Undivided, Silence, Types, Busy
<1> QED
  BY <1>3, <1>4, <1>5, <1>6 DEF Undivided

LEMMA UndividedStore ==
    ASSUME Undivided, HalfDuplex', Store
    PROVE  Undivided'
<1> DEFINE b == Len(building)
           a == Len(arrived)
<1>1. pc = "store" /\ arrived # <<>> /\ Busy /\ queue = <<>> /\ FrameNo > 0
      /\ line.quiet <= Latency /\ due[0] = 0 /\ drive \in {"Ready", "PacketReady"}
  BY DEF Store, Undivided, Stages, Progress, Busy, Silence, HalfDuplex, Turns, Clocked, InOrder, Between, States
<1>2. /\ building' = building \o arrived /\ arrived' = <<>> /\ pc' = "mark"
      /\ UNCHANGED <<drive, due, pin, polled, queue, got, line>>
  BY <1>1 DEF Store
<1>3. /\ building = Parts(FrameNo, 1, b) /\ arrived = Parts(FrameNo, b + 1, a)
      /\ b + a + line.left = line.frames[FrameNo]
  BY <1>1 DEF Undivided, Progress
<1>4. b \in Nat /\ a \in Nat
  <2>1. line.frames[FrameNo] \in Nat /\ line.left \in Nat
    BY <1>1, Framed
  <2>2. \A f, first, many : DOMAIN Parts(f, first, many) = 1..many
    BY DEF Parts
  <2>3. Len(building) \in Nat /\ Len(arrived) \in Nat
    BY <1>3, <2>1, <2>2
  <2> QED
    BY <2>3
<1> HIDE DEF b, a
<1>5. building' = Parts(FrameNo, 1, b + a)
  BY <1>2, <1>3, <1>4, PartsConcat
<1>6. a # 0
  BY <1>1, <1>3, <1>4, PartsLen
<1>7. Len(building') = b + a /\ building' # <<>>
  BY <1>4, <1>5, <1>6, PartsLen
<1>8. FrameNo' = FrameNo /\ Busy' /\ \A f : Frame(f)' = Frame(f)
  BY <1>2, <1>7, FramesStay DEF Busy
<1>9. Progress'
  <2>1. arrived' = Parts(FrameNo, b + a + 1, 0) /\ Len(arrived') = 0
    BY <1>2 DEF Parts
  <2>2. building' = Parts(FrameNo', 1, Len(building'))
        /\ arrived' = Parts(FrameNo', Len(building') + 1, Len(arrived'))
    BY <1>5, <1>7, <1>8, <2>1
  <2>3. Len(building') + Len(arrived') + line'.left = line'.frames[FrameNo']
    BY <1>2, <1>3, <1>4, <1>7, <1>8, <2>1, Framed
  <2> QED
    BY <1>1, <1>2, <1>8, <2>2, <2>3 DEF Progress
<1>10. Types' /\ Received'
  BY <1>1, <1>2, <1>8 DEF Undivided, Types, Received
<1>11. Stages'
  BY <1>1, <1>2, <1>7 DEF Undivided, Stages
<1>12. Silence'
  BY <1>1, <1>2, <1>8 DEF Undivided, Silence
<1> QED
  BY <1>9, <1>10, <1>11, <1>12 DEF Undivided

LEMMA UndividedMark ==
    ASSUME Undivided, HalfDuplex', Mark
    PROVE  Undivided'
<1>1. /\ pc = "mark" /\ pc' = "sequence" /\ drive' = "ReadingPacket"
      /\ UNCHANGED <<due, pin, polled, building, queue, got, arrived, line>>
  BY DEF Mark, receiving
<1>2. FrameNo' = FrameNo /\ Busy' = Busy /\ \A f : Frame(f)' = Frame(f)
  BY <1>1, FramesStay DEF Busy
<1>3. Types' /\ Progress' /\ Received'
  BY <1>1, <1>2 DEF Undivided, Types, Progress, Received
<1>4. Stages'
  <2>1. drive \notin Transmit
    BY <1>1 DEF Undivided, HalfDuplex, Turns, Transmit
  <2> QED
    BY <1>1, <2>1 DEF Undivided, Stages, Transmit
<1>5. Silence'
  BY <1>1, <1>2 DEF Undivided, Silence
<1> QED
  BY <1>3, <1>4, <1>5 DEF Undivided

LEMMA UndividedSend ==
    ASSUME TakeTurns, Undivided, HalfDuplex', Send
    PROVE  Undivided'
<1>1. ~Busy
  BY DEF Send, Quiet, Busy
<1>2. drive' = "InterPktDelay" /\ pc' = "sequence"
      /\ UNCHANGED <<polled, building, arrived, queue, got, line>>
  BY DEF Send, receiving
<1> QED
  BY <1>1, <1>2, UndividedAway DEF Transmit

\* A frame begins only when nothing of the one before it is left in the driver.
LEMMA UndividedBegin ==
    ASSUME TakeTurns, Timely, Undivided, HalfDuplex', NEW n \in FrameLen, BeginFrame(n)
    PROVE  Undivided'
<1>1. /\ pc = "idle" /\ line.left = 0 /\ line.quiet >= FrameGap /\ drive \notin Transmit
      /\ UNCHANGED <<drive, due, pin, pc, polled, building, queue, got>>
  BY DEF BeginFrame
<1>2. /\ line'.frames = Append(line.frames, n) /\ line'.left = n - 1 /\ line'.quiet = 0
      /\ n \in Nat /\ n > 0 /\ line' \in [frames : Seq(FrameLen), left : Nat, quiet : Nat]
  <2>1. n \in Nat \ {0}
    BY DriverAssumption
  <2> QED
    BY <2>1, Framed DEF BeginFrame
<1>3. arrived' = Append(arrived, <<FrameNo + 1, 1>>)
  BY <1>1 DEF BeginFrame, Arrive, Undivided, HalfDuplex, Clocked, PinFollows, Turns, Transmit
<1>4. queue = <<>> /\ arrived = <<>>
  <2>1. Latency + Latency + Delimit < FrameGap /\ polled <= Latency
    BY Framed DEF Timely, Undivided, Types
  <2>2. queue = <<>>
    <3>1. queue # <<>> => line.quiet <= Latency + Delimit + polled
      BY DEF Undivided, Silence
    <3> QED
      BY <1>1, <2>1, <3>1, Framed
  <2>3. arrived = <<>>
    <3>1. arrived # <<>> => line.quiet <= polled
      BY <1>1 DEF Undivided, Silence
    <3> QED
      BY <1>1, <2>1, <3>1, Framed
  <2> QED
    BY <2>2, <2>3
<1>5. drive = "Ready" /\ building = <<>>
  <2>1. drive # "PacketReady"
    <3> SUFFICES ASSUME drive = "PacketReady" PROVE FALSE
      OBVIOUS
    <3>1. PICK d \in Delay : due = At(d)
      BY DEF Undivided, Stages, HalfDuplex, Clocked, OneDue
    <3>2. line.quiet + d <= Latency + Delimit /\ d \in Nat
      BY <1>1, <1>4, <3>1, Counting DEF Undivided, Silence
    <3> QED
      BY <1>1, <3>2, Framed DEF Timely
  <2> QED
    BY <1>1, <2>1 DEF Undivided, Stages, HalfDuplex, Turns, Clocked, InOrder, Between, States
<1>6. /\ FrameNo' = FrameNo + 1 /\ line'.frames[FrameNo + 1] = n
      /\ \A f \in 1..FrameNo : line'.frames[f] = line.frames[f]
  BY <1>2, Framed DEF FrameNo
<1>7. arrived' = Parts(FrameNo + 1, 1, 1) /\ Len(arrived') = 1 /\ Busy' /\ ~Busy
  <2>1. arrived' = <<<<FrameNo + 1, 1>>>>
    BY <1>3, <1>4
  <2> QED
    BY <1>1, <1>4, <1>5, <2>1 DEF Busy, Parts
<1>8. Types'
  BY <1>1, <1>2 DEF Undivided, Types
<1>9. Progress'
  <2>1. building' = Parts(FrameNo + 1, 1, 0) /\ Len(building') = 0
    BY <1>1, <1>5, PartsLen
  <2>2. building' = Parts(FrameNo', 1, Len(building'))
        /\ arrived' = Parts(FrameNo', Len(building') + 1, Len(arrived'))
    <3>1. Len(building') + 1 = 1
      BY <2>1
    <3> QED
      BY <1>6, <1>7, <2>1, <3>1
  <2>3. Len(building') + Len(arrived') + line'.left = line'.frames[FrameNo']
    <3>1. line'.frames[FrameNo'] = n
      BY <1>6
    <3>2. 0 + 1 + (n - 1) = n
      BY <1>2
    <3> QED
      BY <1>2, <1>7, <2>1, <3>1, <3>2
  <2>4. queue' = <<>> /\ FrameNo' > 0
    BY <1>1, <1>4, <1>6, Framed
  <2> QED
    BY <1>7, <2>2, <2>3, <2>4 DEF Progress
<1>10. Received'
  <2>1. Len(got) = FrameNo /\ got = [f \in 1..FrameNo |-> Frame(f)]
    BY <1>4, <1>7, Framed DEF Undivided, Received
  <2>2. \A f \in 1..FrameNo : Frame(f)' = Frame(f)
    BY <1>6 DEF Frame
  <2>3. Len(got') = FrameNo' - 1 /\ got' = [f \in 1..Len(got') |-> Frame(f)']
    BY <1>1, <1>6, <2>1, <2>2, Framed
  <2> QED
    BY <1>1, <1>4, <1>7, <2>3 DEF Received
<1>11. Stages'
  BY <1>1, <1>5 DEF Undivided, Stages
<1>12. Silence'
  BY <1>1, <1>2, <1>4, <1>5, Framed DEF Undivided, Silence
<1> QED
  BY <1>8, <1>9, <1>10, <1>11, <1>12 DEF Undivided

LEMMA UndividedPart ==
    ASSUME Timely, Undivided, HalfDuplex', NextPart
    PROVE  Undivided'
<1> DEFINE b == Len(building)
           a == Len(arrived)
<1>1. pc = "idle" /\ line.left > 0
      /\ UNCHANGED <<drive, due, pin, pc, polled, building, queue, got>>
  BY DEF NextPart
<1>2. /\ line'.frames = line.frames /\ line'.left = line.left - 1 /\ line'.quiet = 0
      /\ line' \in [frames : Seq(FrameLen), left : Nat, quiet : Nat]
  <2>1. line' = [[line EXCEPT !.left = line.left - 1] EXCEPT !.quiet = 0]
    BY DEF NextPart
  <2>2. line \in [frames : Seq(FrameLen), left : Nat, quiet : Nat]
    BY DEF Undivided, Types
  <2>3. line' = [frames |-> line.frames, left |-> line.left - 1, quiet |-> 0]
    BY <2>1, <2>2
  <2> QED
    BY <1>1, <2>2, <2>3
<1>3. Busy /\ queue = <<>> /\ FrameNo > 0 /\ b + a + line.left = line.frames[FrameNo]
      /\ building = Parts(FrameNo, 1, b) /\ arrived = Parts(FrameNo, b + 1, a)
  BY <1>1, Framed DEF Undivided, Progress
<1>4. b \in Nat /\ a \in Nat
  <2>1. line.frames[FrameNo] \in Nat /\ line.left \in Nat
    BY <1>3, Framed
  <2>2. \A f, first, many : DOMAIN Parts(f, first, many) = 1..many
    BY DEF Parts
  <2>3. Len(building) \in Nat /\ Len(arrived) \in Nat
    BY <1>3, <2>1, <2>2
  <2> QED
    BY <2>3
<1> HIDE DEF b, a
<1>5. arrived' = Append(arrived, <<FrameNo, b + 1 + a>>)
  <2>1. drive \notin Transmit
    BY <1>1, Framed DEF Undivided, HalfDuplex, Turns, Clocked, InOrder, Between, States
  <2>2. pin # "HIGH"
    BY <2>1 DEF Undivided, HalfDuplex, Clocked, PinFollows, Turns, Transmit
  <2>3. arrived' = Append(arrived, <<FrameNo, Last(line.frames) - line.left + 1>>)
    BY <2>2 DEF NextPart, Arrive
  <2>4. Last(line.frames) - line.left + 1 = b + 1 + a
    BY <1>3, <1>4, Framed DEF Last, FrameNo
  <2> QED
    BY <2>3, <2>4
<1>6. arrived' = Parts(FrameNo, b + 1, a + 1) /\ Len(arrived') = a + 1 /\ arrived' # <<>>
  <2>1. b + 1 \in Nat \ {0}
    BY <1>4
  <2>2. Append(Parts(FrameNo, b + 1, a), <<FrameNo, (b + 1) + a>>) = Parts(FrameNo, b + 1, a + 1)
    BY <1>4, <2>1, PartsAppend
  <2>3. arrived' = Parts(FrameNo, b + 1, a + 1)
    BY <1>3, <1>5, <2>2
  <2> QED
    BY <1>4, <2>1, <2>3, PartsLen
<1>7. FrameNo' = FrameNo /\ Busy' /\ \A f : Frame(f)' = Frame(f)
  BY <1>2, <1>6, FramesStay DEF Busy
<1>8. Types'
  BY <1>1, <1>2 DEF Undivided, Types
<1>9. Progress'
  <2>1. Len(building') = b /\ building' = building
    BY <1>1 DEF b
  <2>2. building' = Parts(FrameNo', 1, Len(building'))
        /\ arrived' = Parts(FrameNo', Len(building') + 1, Len(arrived'))
    BY <1>3, <1>4, <1>6, <1>7, <2>1
  <2>3. Len(building') + Len(arrived') + line'.left = line'.frames[FrameNo']
    <3>1. line'.frames[FrameNo'] = line.frames[FrameNo]
      BY <1>2, <1>7
    <3>2. b + (a + 1) + (line.left - 1) = b + a + line.left
      BY <1>4, Framed
    <3> QED
      BY <1>2, <1>3, <1>6, <2>1, <3>1, <3>2
  <2> QED
    BY <1>1, <1>3, <1>7, <2>2, <2>3 DEF Progress
<1>10. Received'
  BY <1>1, <1>3, <1>7 DEF Undivided, Received
<1>11. Stages'
  BY <1>1 DEF Undivided, Stages
<1>12. Silence'
  <2>1. ASSUME NEW d \in Delay, drive = "PacketReady", due = At(d)
        PROVE  d + polled > Latency
    <3>1. CASE arrived # <<>>
      BY <1>1, <2>1, <3>1 DEF Undivided, Silence
    <3>2. CASE arrived = <<>>
      <4>1. line.quiet <= Gap /\ d + line.quiet >= Delimit
        BY <1>1, <2>1, <3>2 DEF Undivided, Silence
      <4> QED
        BY <2>1, <4>1, Framed, Counting DEF Timely
    <3> QED
      BY <3>1, <3>2
  <2> QED
    BY <1>1, <1>2, <1>3, <1>6, <2>1, Framed DEF Silence
<1> QED
  BY <1>8, <1>9, <1>10, <1>11, <1>12 DEF Undivided

LEMMA UndividedTick ==
    ASSUME Timely, Undivided, HalfDuplex', Tick
    PROVE  Undivided'
<1>1. /\ pc = "idle" /\ due[0] = 0 /\ polled < Latency /\ (line.left > 0 => line.quiet < Gap)
      /\ due' = [t \in Delay |-> IF t + 1 \in Delay THEN due[t + 1] ELSE 0]
      /\ polled' = polled + 1
      /\ UNCHANGED <<drive, pin, pc, building, queue, got, arrived>>
  BY DEF Tick, receiving
<1>2. /\ line'.frames = line.frames /\ line'.left = line.left
      /\ line'.quiet = IF line.quiet < FrameGap THEN line.quiet + 1 ELSE line.quiet
      /\ line' \in [frames : Seq(FrameLen), left : Nat, quiet : Nat]
  <2> DEFINE q == IF line.quiet < FrameGap THEN line.quiet + 1 ELSE line.quiet
  <2>1. line' = [line EXCEPT !.quiet = q]
    BY DEF Tick
  <2>2. line \in [frames : Seq(FrameLen), left : Nat, quiet : Nat] /\ q \in Nat
    BY DriverAssumption DEF Undivided, Types
  <2> HIDE DEF q
  <2>3. line'.frames = line.frames /\ line'.left = line.left /\ line'.quiet = q
        /\ line' \in [frames : Seq(FrameLen), left : Nat, quiet : Nat]
    BY <2>1, <2>2
  <2> QED
    BY <2>3 DEF q
<1>3. FrameNo' = FrameNo /\ Busy' = Busy /\ \A f : Frame(f)' = Frame(f)
  BY <1>1, <1>2, FramesStay DEF Busy
<1>4. Types'
  BY <1>1, <1>2, Framed DEF Undivided, Types
<1>5. Progress' /\ Received'
  BY <1>1, <1>2, <1>3 DEF Undivided, Progress, Received
<1>6. ASSUME NEW e \in Delay, due' = At(e)
      PROVE  e + 1 \in Delay /\ due = At(e + 1)
  <2>1. PICK d \in Delay : due = NoTimer \/ due = At(d)
    BY Counting DEF Undivided, HalfDuplex, Clocked, OneDue
  <2>2. /\ due = NoTimer => due' = NoTimer
        /\ due = At(d) => d > 0 /\ d - 1 \in Delay /\ due' = At(d - 1)
    BY <1>1, <2>1, Ticked
  <2>3. due = At(d) /\ e = d - 1
    BY <1>6, <2>1, <2>2, AtIsNot
  <2> QED
    BY <2>1, <2>3, Counting
<1>7. Stages'
  <2>1. due # NoTimer => due' # NoTimer
    <3>1. PICK d \in Delay : due = NoTimer \/ due = At(d)
      BY Counting DEF Undivided, HalfDuplex, Clocked, OneDue
    <3>2. due = At(d) => d - 1 \in Delay /\ due' = At(d - 1)
      BY <1>1, <3>1, Ticked
    <3> QED
      BY <3>1, <3>2, AtIsNot
  <2> QED
    BY <1>1, <2>1 DEF Undivided, Stages
<1>8. Silence'
  <2>1. line'.left > 0 => line'.quiet <= Gap
    BY <1>1, <1>2, Framed
  <2>2. arrived' # <<>> => line'.quiet <= polled'
    BY <1>1, <1>2, Framed DEF Undivided, Silence
  <2>3. queue' # <<>> => line'.quiet <= Latency + Delimit + polled'
    <3>1. queue # <<>> => line.quiet <= Latency + Delimit + polled
      BY DEF Undivided, Silence
    <3> QED
      BY <1>1, <1>2, <3>1, Framed
  <2>4. ASSUME NEW e \in Delay, drive' = "PacketReady", due' = At(e)
        PROVE  /\ arrived' # <<>> => e + polled' > Latency
               /\ arrived' = <<>> /\ line'.left > 0 => e + line'.quiet >= Delimit
               /\ line'.left = 0 /\ arrived' = <<>> => line'.quiet + e <= Latency + Delimit
    <3>1. /\ arrived # <<>> => e + 1 + polled > Latency
          /\ arrived = <<>> /\ line.left > 0 => e + 1 + line.quiet >= Delimit
          /\ line.left = 0 /\ arrived = <<>> => line.quiet + (e + 1) <= Latency + Delimit
      BY <1>1, <1>6, <2>4 DEF Undivided, Silence
    <3>2. Gap < FrameGap /\ e \in Nat
      BY Framed, Counting DEF Timely
    <3>3. arrived' # <<>> => e + polled' > Latency
      BY <1>1, <3>1, <3>2, Framed
    <3>4. arrived' = <<>> /\ line'.left > 0 => e + line'.quiet >= Delimit
      BY <1>1, <1>2, <3>1, <3>2, Framed
    <3>5. line'.left = 0 /\ arrived' = <<>> => line'.quiet + e <= Latency + Delimit
      <4>1. line'.quiet <= line.quiet + 1 /\ line'.quiet \in Nat
        BY <1>2, Framed
      <4>2. line.left = 0 /\ arrived = <<>> => line.quiet + 1 + e <= Latency + Delimit
        BY <3>1, <3>2, Framed
      <4> QED
        BY <1>1, <1>2, <3>2, <4>1, <4>2, Framed
    <3> QED
      BY <3>3, <3>4, <3>5
  <2> QED
    BY <1>1, <2>1, <2>2, <2>3, <2>4 DEF Silence
<1> QED
  BY <1>4, <1>5, <1>7, <1>8 DEF Undivided

LEMMA UndividedNext ==
    ASSUME OneTimer, TakeTurns, Timely, Undivided, [Next]_vars
    PROVE  Undivided'
<1>1. HalfDuplex'
  BY HalfDuplexNext DEF Undivided
<1>2. CASE UNCHANGED vars
  BY <1>1, <1>2 DEF vars, receiving, sending, Undivided, Types, Progress, Received, Stages,
                    Silence, Busy, FrameNo, Frame
<1> QED
  BY <1>1, <1>2, UndividedFire, UndividedSequence, UndividedTake, UndividedLookup,
     UndividedStore, UndividedMark, UndividedSend, UndividedBegin, UndividedPart, UndividedTick
     DEF Next

\* When no frame is shorter than a packet, the loop asks for packets often enough
\* for the pauses inside a frame and pauses between frames are longer than what
\* it takes to deliver one, the caller gets the frames whole, in order and once.
THEOREM FramesWhole ==
    ASSUME OneTimer, TakeTurns, Timely
    PROVE  Spec => []WholeFrames
<1>1. Init => Undivided
  <2> SUFFICES ASSUME Init PROVE Undivided
    OBVIOUS
  <2>1. FrameNo = 0 /\ ~Busy /\ got = [f \in 1..0 |-> Frame(f)] /\ Len(got) = 0
    BY DEF Init, FrameNo, Busy
  <2>2. Types
    BY DriverAssumption DEF Init, Types
  <2>3. Received
    <3>1. queue = <<>> /\ Len(got) = FrameNo - 0 /\ got = [f \in 1..Len(got) |-> Frame(f)]
      BY <2>1 DEF Init
    <3> QED
      BY <2>1, <3>1 DEF Received
  <2>4. Progress
    BY <2>1 DEF Progress, Init
  <2>5. Stages
    BY <2>1, Counting DEF Init, Stages, NoTimer
  <2>6. Silence
    BY <2>1 DEF Init, Silence
  <2> QED
    BY <2>2, <2>3, <2>4, <2>5, <2>6, HalfDuplexInit DEF Undivided
<1> QED
  BY <1>1, UndividedNext, UndividedWhole, PTL DEF Spec

=============================================================================
