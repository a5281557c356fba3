------------------------------ MODULE DataLink ------------------------------
(***************************************************************************)
(* Net485DataLink: the checksum of a packet, from calculateChecksum in the *)
(* sender over a slot of the receiver's ring to isChecksumValid.  A header *)
(* is its PacketLength byte.                                               *)
(***************************************************************************)
EXTENDS Integers, SequencesExt

CONSTANTS
    Base,    \* 0xff, the modulus of the sums and the largest byte
    Seed,    \* 0xAA
    MaxBody  \* the longest data body explored

ASSUME DataLinkAssumption ==
    /\ Base \in Nat \ {0}
    /\ Seed \in 0..(Base - 1)
    /\ MaxBody \in 0..Base

VARIABLES
    slot,   \* the slot of the ring that the packet is read into
    sent,   \* history: the bytes that were sent
    damage  \* history: what happened to them

vars == <<slot, sent, damage>>

Byte == 0..Base

\* Length byte, data and checksum.
SlotSize == 1 + Base + 2

-----------------------------------------------------------------------------
(* Fletcher's sums.                                                        *)

\* One round of ACCUMULATE_FLETCHER.
Step(sums, byte) ==
    LET s1 == (sums[1] + byte) % Base
    IN  <<s1, (sums[2] + s1) % Base>>

Sums(bytes) ==
    LET sums[n \in 0..Len(bytes)] ==
            IF n = 0 THEN <<Seed, 0>> ELSE Step(sums[n - 1], bytes[n])
    IN  sums[Len(bytes)]

\* Mutant of Check: the second byte is taken from the sums as they were.
CheckStale(sums) ==
    <<Base - ((sums[1] + sums[2]) % Base), Base - sums[1]>>

\* The two bytes that calculateChecksum appends.
Check(sums) ==
    LET c1 == Base - ((sums[1] + sums[2]) % Base)
    IN  <<c1, Base - ((sums[1] + c1) % Base)>>

Packet(body) ==
    LET bytes == <<Len(body)>> \o body IN bytes \o Check(Sums(bytes))

\* Mutant of IsValid: only the second sum is looked at.
IsValidSecondSum(s) ==
    LET size == s[1]
        sums == Sums(SubSeq(s, 1, size + 1))
    IN  Step(Step(sums, s[size + 2]), s[size + 3])[2] = 0

\* isChecksumValid, after getNextPacket has set dataSize to PacketLength.
IsValid(s) ==
    LET size == s[1]
        sums == Sums(SubSeq(s, 1, size + 1))
    IN  Step(Step(sums, s[size + 2]), s[size + 3]) = <<0, 0>>

-----------------------------------------------------------------------------
Init ==
    /\ slot = [i \in 1..SlotSize |-> 0]
    /\ sent = Packet(<<>>)
    /\ damage = "nothing received"

\* readData copies what arrives over whatever the slot held before.
Overlay(bytes) == [i \in 1..SlotSize |-> IF i <= Len(bytes) THEN bytes[i] ELSE slot[i]]

Receive(bytes, what) ==
    /\ slot' = Overlay(bytes)
    /\ damage' = what

Intact == Receive(sent', "none")

\* Noise turns one byte of the data or the checksum into another.
Flip ==
    \E i \in 2..Len(sent'), b \in Byte :
        b # sent'[i] /\ Receive([sent' EXCEPT ![i] = b], "flip")

\* Only the beginning arrives, with as many bytes as the driver asks for.
Cut ==
    \E n \in 3..(Len(sent') - 1) : Receive(SubSeq(sent', 1, n), "cut")

Transmit ==
    \E body \in BoundedSeq(Byte, MaxBody) :
        /\ sent' = Packet(body)
        /\ Intact \/ Flip \/ Cut

Next == Transmit

Spec == Init /\ [][Next]_vars

-----------------------------------------------------------------------------
(* Properties.                                                             *)

\* A packet that arrives as it was sent is valid, whatever its bytes.
IntactIsValid == damage = "none" => IsValid(slot)

\* Where the slot of the ring does not hold what was sent.
Wrong == {i \in 1..Len(sent) : slot[i] # sent[i]}

\* The bytes 0x00 and 0xff are the same number to the sums.
Confused(i) == {slot[i], sent[i]} = {0, Base}

\* One wrong byte, be it noise or a byte of an earlier packet where the end of
\* this one is missing, is taken for valid only if 0x00 and 0xff were exchanged.
OneByteDetected ==
    \A i \in Wrong : Wrong = {i} /\ IsValid(slot) => Confused(i)

=============================================================================
