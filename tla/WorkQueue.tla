------------------------------ MODULE WorkQueue ------------------------------
(***************************************************************************)
(* The work of a coordinator: the stack of Net485WorkQueue, the exchanges  *)
(* of routePacket in which a packet is sent, answered and perhaps routed   *)
(* again in place, and the dataflow cycle of loopServer that stacks the    *)
(* packets.  The devices answer in time, late or not at all, and may ask   *)
(* for a message of their own to be routed.                                *)
(***************************************************************************)
EXTENDS Integers, SequencesExt

CONSTANTS
    Hi,         \* the highest index of a device
    V1,         \* the indexes whose devices speak version 1 (Subnet 2)
    Type,       \* Type[i]: node type of index i; 0 is the coordinator
    Priority,   \* Priority[c]: the node types for command c, by priority
    Requests,   \* the messages that devices and the subordinate want routed
    Strangers,  \* the indexes whose devices do not run this code
    Foreign,    \* what strangers answer besides what a device of this code does
    MaxItems,   \* DEFAULT_MAXITEMS
    Attempts,   \* MSG_RESEND_ATTEMPTS
    Loops,      \* R2R_LOOPS_PERDATACYCLE
    NoPacket,
    MaxMishaps  \* bound: deaths, and answers that are lost or late

Index == 1..Hi

\* NODEADDR_PRIMY, NODEADDR_VRTSUB, NODEADDR_COORD
Primary == 1
VrtSub == 241
Coord == 255

\* SNDMTHD_NOROUTE, SNDMTHD_PRIORITY, SNDMTHD_NTYPE, SNDMTHD_BYSCKT
Method == {"none", "priority", "type", "socket"}

\* ack and r2r are both MSGTYP_R2R; response is the response to a request.
Kind == {"r2r", "ack", "list", "listack", "request", "response"}

\* param is the command, the node type or the index, as method has it.
Packet == [kind : Kind, method : Method, param : Nat, dest : 0..255]

Msg(kind, dest) == [kind |-> kind, method |-> "none", param |-> 0, dest |-> dest]

ASSUME WorkQueueAssumption ==
    /\ Hi \in 1..62
    /\ V1 \subseteq Index
    /\ Requests \subseteq {p \in Packet : p.kind = "request"}
    /\ Strangers \subseteq Index
    /\ Foreign \subseteq Packet
    /\ NoPacket \notin Packet
    /\ MaxItems \in Nat \ {0} /\ Attempts \in Nat \ {0} /\ Loops \in Nat \ {0}
    /\ MaxMishaps \in Nat

\* A packet has no source here, to whom the subordinate of the coordinator would
\* answer: strangers send it no R2R.
ASSUME SubordinateNotAsked ==
    \A p \in Foreign : p.kind \in {"r2r", "ack"} =>
        \/ p.method = "none" /\ p.dest \notin {0, VrtSub}
        \/ p.method = "socket" /\ p.param \notin {0, VrtSub}

VARIABLES
    list, highest, \* netNodeList, netNodeListHighest
    off,           \* the indexes with nodeStatus OffLine
    stack,         \* _data[0..(_next - 1)] of the work queue
    todo,          \* how many more packets doWork is to take
    tries,         \* how often the packet on top has been sent
    pc,            \* where loopServer goes on when doWork has returned
    turns,         \* how many tokens the cycle has offered
    inbox,         \* the packets in the receive ring
    alive,         \* the indexes whose devices are there
    late,          \* an answer that will come late
    sub,           \* what the coordinator's own subordinate has said
    mishaps        \* how many of MaxMishaps are used up

table == <<list, highest, off>>
work == <<stack, todo, tries>>
env == <<alive, late, sub, mishaps>>
vars == <<table, work, pc, turns, inbox, env>>

Pc == {"top", "seek", "primary", "discover", "tokens", "net2", "roll", "sub", "rest"}

TypeOK ==
    /\ list \subseteq 0..Hi
    /\ highest \in 0..Hi
    /\ off \subseteq Index
    /\ stack \in Seq(Packet)
    /\ todo \in Nat
    /\ tries \in 0..Attempts
    /\ pc \in Pc
    /\ turns \in 0..Loops
    /\ inbox \in Seq(Packet)
    /\ alive \subseteq Index
    /\ late \in Packet \cup {NoPacket}
    /\ sub \in Requests \cup {NoPacket}
    /\ mishaps \in 0..MaxMishaps

\* All devices are enrolled.
Init ==
    /\ list = 0..Hi /\ highest = Hi /\ off = {}
    /\ stack = <<>> /\ todo = 0 /\ tries = 0
    /\ pc = "top" /\ turns = 0
    /\ inbox = <<>>
    /\ alive = Index /\ late = NoPacket /\ sub = NoPacket /\ mishaps = 0

-----------------------------------------------------------------------------
(* The work queue.                                                         *)

\* pushWork for each packet of ps; a full stack drops it.
Pushed(ps) ==
    LET room == MaxItems - Len(stack)
    IN  stack \o SubSeq(ps, 1, IF Len(ps) < room THEN Len(ps) ELSE room)

\* pushWork for each packet of ps, then doWork(n).
Work(ps, n) ==
    /\ stack' = Pushed(ps)
    /\ todo' = IF stack' = <<>> THEN 0 ELSE n
    /\ UNCHANGED tries

Idle == todo = 0

\* The transaction of the packet on top is complete.
Pop ==
    /\ stack' = Front(stack)
    /\ todo' = IF Len(stack) = 1 THEN 0 ELSE todo - 1
    /\ tries' = 0

-----------------------------------------------------------------------------
(* routePacket and sendMsgGetResponseInPlace.                              *)

NodeIdOfType(type) ==
    LET found == {i \in list \cap 0..highest : Type[i] = type}
    IN  IF found = {} THEN Coord ELSE Min(found)

\* setPriorityNode leaves the destination of an unknown command as it is.
PriorityNode(p) ==
    LET types == Priority[p.param]
        ids == [j \in DOMAIN types |-> NodeIdOfType(types[j])]
        found == {j \in DOMAIN ids : ids[j] # Coord}
    IN  CASE p.param \notin DOMAIN Priority -> p.dest
          [] p.param \in DOMAIN Priority /\ found = {} -> Coord
          [] OTHER -> ids[Min(found)]

Dest(p) ==
    CASE p.method = "priority" -> PriorityNode(p)
      [] p.method = "type" -> NodeIdOfType(p.param)
      [] p.method = "socket" -> p.param
      [] OTHER -> p.dest

Routed(p) ==
    /\ p.method # "none" => Dest(p) # Coord
    /\ p.method = "priority" => p.param \in DOMAIN Priority

\* Any message type but R2R wants its response, a response wants its like.
Completes(p, answer) ==
    answer.kind = CASE p.kind \in {"r2r", "ack"} -> "ack"
                    [] p.kind \in {"list", "listack"} -> "listack"
                    [] OTHER -> "response"

\* Mutant of PutOffLine: a device of version 1 is never given up.
PutOffLineNet2(i) == off' = IF i \in (list \cap Index) \ V1 THEN off \cup {i} ELSE off

\* Whoever the packet was for, if there is such a device, is off line.
PutOffLine(i) == off' = IF i \in list \cap Index THEN off \cup {i} ELSE off

Top == Last(stack)
At == Dest(Top)

ToDevice == todo > 0 /\ Routed(Top) /\ At \notin {0, VrtSub}

\* The device at this index is not off line; a pointer that leads nowhere may
\* say either.
OnLine(i) == i \in list => i \notin off

\* loopClient asks for a message of its own only in answer to an R2R, of which the
\* ack is one; it acknowledges a request, other devices give it its response.
Polite(p) ==
    CASE p.kind \in {"r2r", "ack"} -> {Msg("ack", Coord)} \cup Requests
      [] p.kind = "list" -> {Msg("listack", Coord)}
      [] OTHER -> {Msg("response", Coord), Msg("ack", Coord)}

\* Any packet is taken, and a stranger may send any.
Answers(p) == IF Dest(p) \in Strangers THEN Polite(p) \cup Foreign ELSE Polite(p)

\* One of the copies is sent.  The first is, whatever is in the ring.
SendCopy ==
    /\ ToDevice /\ OnLine(At)
    /\ tries = 0 \/ (tries < Attempts /\ inbox = <<>>)
    /\ tries' = tries + 1
    /\ \/ At \in alive /\ \E a \in Answers(Top) : inbox' = Append(inbox, a)
          /\ UNCHANGED <<late, mishaps>>
       \/ At \notin (alive \cap list)
          /\ UNCHANGED <<inbox, late, mishaps>>
       \/ At \in alive /\ mishaps < MaxMishaps /\ mishaps' = mishaps + 1
          /\ late = NoPacket /\ late' \in Answers(Top) \cup {NoPacket}
          /\ UNCHANGED inbox
    /\ UNCHANGED <<table, stack, todo, pc, turns, alive, sub>>

\* The first packet in the ring is the response, whoever sent it.  If it is not
\* the one expected, it is routed in its turn.
TakeAnswer ==
    /\ todo > 0 /\ tries > 0 /\ inbox # <<>>
    /\ inbox' = Tail(inbox)
    /\ IF Completes(Top, Head(inbox))
       THEN Pop
       ELSE /\ stack' = Append(Front(stack), Head(inbox))
            /\ tries' = 0
            /\ UNCHANGED todo
    /\ UNCHANGED <<table, pc, turns, env>>

\* Mutant of NoAnswer: the answer to the last copy is not looked for.
NoAnswerHasty ==
    /\ todo > 0
    /\ \/ ~ Routed(Top)
       \/ ToDevice /\ tries = 0 /\ At \notin (list \ off)
       \/ ToDevice /\ tries = Attempts
    /\ PutOffLine(At)
    /\ Pop
    /\ UNCHANGED <<list, highest, pc, turns, inbox, env>>

\* Mutant of NoAnswer: the exchange does not count as complete.
NoAnswerAgain ==
    /\ todo > 0
    /\ \/ ~ Routed(Top)
       \/ ToDevice /\ tries = 0 /\ At \notin (list \ off)
       \/ ToDevice /\ tries = Attempts /\ inbox = <<>>
    /\ PutOffLine(At)
    /\ tries' = 0
    /\ UNCHANGED <<list, highest, stack, todo, pc, turns, inbox, env>>

\* There is no response: not routed, off line already, or not answered.
NoAnswer ==
    /\ todo > 0
    /\ \/ ~ Routed(Top)
       \/ ToDevice /\ tries = 0 /\ At \notin (list \ off)
       \/ ToDevice /\ tries = Attempts /\ inbox = <<>>
    /\ PutOffLine(At)
    /\ Pop
    /\ UNCHANGED <<list, highest, pc, turns, inbox, env>>

\* The coordinator's own subordinate gets it, or is asked: what it says is put in
\* place, but counts as no response, and whoever it is for is put off line.
AskSubordinate ==
    /\ todo > 0 /\ Routed(Top) /\ At \in {0, VrtSub}
    /\ IF Top.kind = "r2r" /\ sub # NoPacket THEN PutOffLine(sub.dest) ELSE UNCHANGED off
    /\ Pop
    /\ UNCHANGED <<list, highest, pc, turns, inbox, env>>

Route == SendCopy \/ TakeAnswer \/ NoAnswer \/ AskSubordinate

-----------------------------------------------------------------------------
(* loopServer.                                                             *)

\* What subnetNodeExists looks for: the devices of Subnet 2 and of Subnet 3.
Net1 == list \cap V1 \cap 1..highest
Net2 == (list \cap 1..highest) \ V1

\* A wait for a message takes whatever is in the ring.
Consume == inbox' = IF inbox = <<>> THEN <<>> ELSE Tail(inbox)

\* The indexes of S in ascending order.
Ascending(S) ==
    [k \in 1..Cardinality(S) |-> CHOOSE i \in S : Cardinality({j \in S : j < i}) = k - 1]

\* The messages of issueToNetwork to the indexes in S.
Messages(kind, S) == [k \in 1..Cardinality(S) |-> Msg(kind, Ascending(S)[k])]

\* issueToNetwork leaves out the devices of version 2.  Index 0 has no node behind
\* its pointer and passes for either version.
Receivers == {zero \cup Net1 : zero \in SUBSET {0}}

\* Mutant of Issue: one packet less is dealt with than has been stacked.
IssueOneLess(kind) ==
    \E S \in Receivers' : Work(Messages(kind, S), IF S = {} THEN 0 ELSE Cardinality(S) - 1)

\* issueToNetwork(kind, true)
Issue(kind) == \E S \in Receivers' : Work(Messages(kind, S), Cardinality(S))

\* A device answers a discovery, of the poll or of the dataflow cycle, or asks to be
\* the primary node.  It gets an index, or has one and is entered there anew or left
\* as it is.  If it confirms its address the node list is issued.  Whether or not it
\* does, the cycle is over.  A discovery is over with the first packet in the ring.
Enrol(i) ==
    /\ Idle /\ pc \in {"top", "seek", "discover"}
    /\ inbox = <<>> \/ pc = "seek"
    /\ i \in alive
    /\ list' = list \cup {i}
    /\ highest' = IF i > highest THEN i ELSE highest
    /\ \/ off' = off \ {i}
       \/ i \in list /\ UNCHANGED off
    /\ Consume
    /\ Issue("list") \/ UNCHANGED work
    /\ pc' = "top"
    /\ UNCHANGED <<turns, env>>

\* removeOfflineDevices, which leaves the node lists it issues in the stack.
StartCycle ==
    /\ Idle /\ pc = "top"
    /\ LET gone == off \cap list \cap 1..highest
           top == highest - 1 \in gone
       IN  /\ list' = list \ (IF top THEN gone \ {highest} ELSE gone)
           /\ highest' = IF top THEN highest - 1 ELSE highest
           /\ off' = off \cap list'
           /\ IF gone = {} THEN UNCHANGED work
              ELSE \E S \in Receivers' : Work(Messages("list", S), 0)
    /\ Consume
    /\ pc' = IF Primary \in list' THEN "primary" ELSE "seek"
    /\ turns' = 0
    /\ UNCHANGED env

\* Mutant of AskPrimary: the R2R is stacked, and doWork is forgotten.
AskPrimaryLater ==
    /\ Idle /\ pc = "primary"
    /\ Work(<<Msg("r2r", Primary)>>, 0)
    /\ pc' = "discover"
    /\ UNCHANGED <<table, turns, inbox, env>>

\* (1) R2R to the primary node.
AskPrimary ==
    /\ Idle /\ pc = "primary"
    /\ Work(<<Msg("r2r", Primary)>>, 1)
    /\ pc' = "discover"
    /\ UNCHANGED <<table, turns, inbox, env>>

\* (2) Nobody answers the discovery, or nobody is there to be primary node.
NobodyNew ==
    /\ Idle /\ pc \in {"top", "seek", "discover"}
    /\ Consume
    /\ pc' = IF pc = "discover" THEN "tokens" ELSE "top"
    /\ UNCHANGED <<table, work, turns, env>>

\* Mutant of OfferToken: tokens are offered for as long as somebody takes them.
OfferTokenOnAndOn ==
    /\ Idle /\ pc = "tokens" /\ Net2 # {}
    /\ \E i \in (list \cap Index) \ V1 :
          i \in alive /\ inbox = <<>> /\ Work(<<Msg("r2r", i)>>, 1)
    /\ turns' = turns + 1
    /\ UNCHANGED <<table, pc, inbox, env>>

\* (4) The token is offered on Subnet 3, and the winner gets an R2R.
OfferToken ==
    /\ Idle /\ pc = "tokens"
    /\ turns < Loops /\ Net2 # {}
    /\ \E i \in (list \cap Index) \ V1 :
          i \in alive /\ inbox = <<>> /\ Work(<<Msg("r2r", i)>>, 1)
    /\ turns' = turns + 1
    /\ UNCHANGED <<table, pc, inbox, env>>

\* Nobody is there to take it, it has been taken often enough, or nobody takes it.
EndTokens ==
    /\ Idle /\ pc = "tokens"
    /\ IF Net2 = {} \/ turns = Loops THEN UNCHANGED inbox ELSE Consume
    /\ pc' = "net2"
    /\ UNCHANGED <<table, work, turns, env>>

\* (5) R2R to each device of Subnet 2, if there is one.
AskNet2 ==
    /\ Idle /\ pc = "net2"
    /\ UNCHANGED table
    /\ IF Net1 = {} THEN UNCHANGED work ELSE Issue("r2r")
    /\ pc' = "roll"
    /\ UNCHANGED <<turns, inbox, env>>

\* (6) R2R to the device of the rolling list, if it has one.
AskRolled ==
    /\ Idle /\ pc = "roll"
    /\ \/ UNCHANGED work
       \/ \E i \in Net2 : Work(<<Msg("r2r", i)>>, 1)
    /\ pc' = "sub"
    /\ UNCHANGED <<table, turns, inbox, env>>

\* (7) R2R to the coordinator's own subordinate.
AskVrtSub ==
    /\ Idle /\ pc = "sub"
    /\ Work(<<Msg("r2r", VrtSub)>>, 1)
    /\ pc' = "rest"
    /\ UNCHANGED <<table, turns, inbox, env>>

\* (8) Whatever is left on top of the stack.
AnyOther ==
    /\ Idle /\ pc = "rest"
    /\ Work(<<>>, 1)
    /\ pc' = "top"
    /\ UNCHANGED <<table, turns, inbox, env>>

Coordinator ==
    \/ Route
    \/ StartCycle \/ AskPrimary \/ NobodyNew \/ OfferToken \/ EndTokens
    \/ AskNet2 \/ AskRolled \/ AskVrtSub \/ AnyOther

-----------------------------------------------------------------------------
(* The devices.                                                            *)

Die(i) ==
    /\ i \in alive
    /\ mishaps < MaxMishaps /\ mishaps' = mishaps + 1
    /\ alive' = alive \ {i}
    /\ UNCHANGED <<table, work, pc, turns, inbox, late, sub>>

Return(i) ==
    /\ i \in Index \ (alive \cup list)
    /\ alive' = alive \cup {i}
    /\ UNCHANGED <<table, work, pc, turns, inbox, late, sub, mishaps>>

LateArrives ==
    /\ late # NoPacket
    /\ inbox' = Append(inbox, late)
    /\ late' = NoPacket
    /\ UNCHANGED <<table, work, pc, turns, alive, sub, mishaps>>

\* Net485Subord_APP keeps the first message for good.
SubordinateSpeaks ==
    /\ sub = NoPacket
    /\ sub' \in Requests
    /\ UNCHANGED <<table, work, pc, turns, inbox, alive, late, mishaps>>

\* The coordinator loses its power, or follows a pointer that leads nowhere.
Restart ==
    /\ list' = {0} /\ highest' = 0 /\ off' = {}
    /\ stack' = <<>> /\ todo' = 0 /\ tries' = 0
    /\ pc' = "top" /\ turns' = 0
    /\ inbox' = <<>>
    /\ UNCHANGED env

Next ==
    \/ Coordinator
    \/ \E i \in Index : Enrol(i) \/ Die(i) \/ Return(i)
    \/ LateArrives \/ SubordinateSpeaks \/ Restart

Spec == Init /\ [][Next]_vars

\* Every wait of the coordinator is bounded, and loop() is called for ever.
FairSpec == Spec /\ WF_vars(Coordinator)

-----------------------------------------------------------------------------
(* Properties.                                                             *)

\* What doWork leaves in the stack are node lists: an R2R is dealt with in the
\* step of the cycle that has stacked it, or not at all.
OnlyListsLeftOver ==
    Idle => \A k \in DOMAIN stack : stack[k].kind = "list"

\* Once the primary node has been asked there is room for one packet: the R2R to
\* the winner of a token, to the device of the rolling list and to the
\* subordinate is not dropped, whatever node lists removeOfflineDevices has left.
RoomForOne ==
    Idle /\ pc \notin {"top", "seek", "primary"} => Len(stack) < MaxItems

\* A device that is there is not put off line as long as fewer answers are lost or
\* late than copies are sent, whoever's answer an exchange has taken for its own,
\* unless somebody wants a message sent that names the device.
Trusted ==
    mishaps < Attempts /\ (\A p \in Requests \cup Foreign : p.dest \notin Index)
        => off \cap alive = {}

\* Nobody is at the coordinator's own address, to answer these when they are routed.
Final == {Msg(kind, Coord) : kind \in {"response", "ack", "listack"}}

\* What may come of a packet when it is routed: nothing, a final answer, a request.
Rank(p) ==
    CASE p \in Final -> 0
      [] p \notin Final /\ p.kind \in {"r2r", "ack"} -> 2
      [] OTHER -> 1

\* The packets of rank r in the ring, and late; and the copies left to one on top.
Ranked(packets, r) == Cardinality({k \in 1..Len(packets) : Rank(packets[k]) = r})
OfLate(r) == IF late # NoPacket /\ Rank(late) = r THEN 1 ELSE 0
Around(r) == Ranked(inbox, r) + OfLate(r)

Copies(r) == IF todo > 0 /\ Rank(Top) = r THEN Attempts - tries ELSE 0

\* What doWork can still be kept busy with, the most weighty first.
Effort ==
    <<todo, Around(2), Copies(2), Around(1), Copies(1), Around(0), Copies(0)>>

\* The lexicographic order.
Before(e, f) == \E n \in 1..7 : e[n] < f[n] /\ \A m \in 1..(n - 1) : e[m] = f[m]

\* A stranger answers with a packet that can bring about as much as the one that it
\* got: a request with a request, an R2R with an R2R.
Provoked ==
    /\ todo > 0 /\ At \in Strangers
    /\ \E r \in Rank(Top)..2 : Around(r)' > Around(r)

\* routePacket routes again in place whatever it has taken for a response.  With the
\* devices of this code each copy, answer and end of an exchange leaves doWork less
\* to do, and no other step more; a stranger adds to it with such an answer only.
DoWorkEnds ==
    [][/\ Route => Before(Effort', Effort) \/ Provoked
       /\ todo > 0 /\ ~ Route => Restart \/ Effort' = Effort]_vars

\* Every exchange ends and every cycle, unless a stranger keeps one doWork busy with
\* such answers for ever.
CyclesGoOn ==
    \/ []<>(pc = "top" /\ Idle)
    \/ <>[]~ Idle /\ []<><<Provoked>>_vars

\* A device of version 1 that is gone, and that the stack has room for.
Ghost(i) ==
    /\ i \in Net1 \ alive
    /\ Cardinality(list \cap V1 \cap 1..i) < MaxItems

\* A device that is gone is taken off the list, as long as there is a primary node
\* and the stack has room for the R2R to the device: unless doWork does not end, or
\* there is for ever somebody to answer a discovery, which cuts the cycle short.
DeadLeave ==
    \/ \A i \in V1 : []<>(Ghost(i) => Primary \notin list)
    \/ <>[]~ Idle
    \/ []<><<\E i \in Index : Enrol(i)>>_vars
=============================================================================
