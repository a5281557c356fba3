----------------------------- MODULE NodeTable -----------------------------
(***************************************************************************)
(* The coordinator's table of the network: netNodeList, nodes and          *)
(* netNodeListHighest, the calls of loopServer that enrol a device in it   *)
(* and take it out again, and the rolling list of Subnet 3 devices.  What  *)
(* the devices answer, and whether, is left open.                          *)
(***************************************************************************)
EXTENDS Integers, FiniteSetsExt

CONSTANTS
    Device,
    Thermostat,       \* devices of type NTC_THERM or NTC_ZCTRL
    V1,               \* devices that speak version 1 (Subnet 2)
    Session,          \* the session ids they draw
    V1Hi, V2Lo, V2Hi, \* NODEADDR_V1HI, NODEADDR_V2LO, NODEADDR_V2HI
    NoNode,           \* the NULL of nodes[]
    Failures,         \* whether devices fall silent or answer out of turn
    MaxAnswers        \* bound: answers to discovery and node id requests

Address == 0..V2Hi

\* NODEADDR_PRIMY
Primary == 1

Status == {"OffLine", "Unverified", "Verified"}

Node == [dev : Device, session : Session, status : Status]

ASSUME NodeTableAssumption ==
    /\ Thermostat \subseteq Device
    /\ V1 \subseteq Device
    /\ V1Hi \in Nat /\ V2Lo \in Nat /\ V2Hi \in Nat
    /\ 1 < V1Hi /\ V1Hi < V2Lo /\ V2Lo <= V2Hi
    /\ NoNode \notin Node
    /\ Failures \in BOOLEAN
    /\ MaxAnswers \in Nat

VARIABLES
    list,    \* the indexes i with netNodeList[i] > 0
    nodes,   \* what nodes[i] points to
    highest, \* netNodeListHighest
    cursor,  \* nextSubnet3NodeId
    job,     \* where loopServer waits
    at,      \* the index that job is about
    rolled,  \* what rollNextNet2node returned last
    answers  \* how many of MaxAnswers are used up

table == <<list, nodes, highest>>
vars == <<list, nodes, highest, cursor, job, at, rolled, answers>>

(***************************************************************************)
(* cycle   in the dataflow cycle, or before the poll for new nodes         *)
(* poll    the poll has found a device and asks who is at its index        *)
(* assign  assignNewNode asks on Subnet 2, and then, with index 0,         *)
(* reassign                   on Subnet 3                                  *)
(* set     in reqRespSetAddress                                            *)
(* freed   still there, after delNode                                      *)
(* issue   about to send the node list to the network                      *)
(***************************************************************************)
Job == {"cycle", "poll", "assign", "reassign", "set", "freed", "issue"}

TypeOK ==
    /\ list \subseteq Address
    /\ nodes \in [Address -> Node \cup {NoNode}]
    /\ highest \in Address
    /\ cursor \in 0..(V2Hi + 1)
    /\ job \in Job
    /\ at \in Address
    /\ rolled \in Address
    /\ answers \in 0..MaxAnswers

\* warmStart has just made this device the coordinator and entered its own
\* subordinate at index 0.
Init ==
    /\ list = {0}
    /\ nodes = [i \in Address |-> NoNode]
    /\ highest = 0
    /\ cursor = 0
    /\ job = "cycle"
    /\ at = 0
    /\ rolled = 0
    /\ answers = 0

-----------------------------------------------------------------------------
(* The operations of the table.                                            *)

\* The first index found by a search from below, 0 if there is none.
First(S) == IF S = {} THEN 0 ELSE CHOOSE i \in S : \A j \in S : i <= j

\* The indexes nextNodeLocation goes through.
Places(d) ==
    CASE d \in V1 /\ d \in Thermostat -> Primary..V1Hi
      [] d \in V1 /\ d \notin Thermostat -> 2..V1Hi
      [] d \notin V1 /\ d \in Thermostat -> {Primary, 2} \cup V2Lo..V2Hi
      [] OTHER -> V2Lo..V2Hi

\* Mutant of NextNodeLocation: the search stops before the last index, which is
\* returned whether it is free or not.
NextNodeLocationUnseen(d) == First(Places(d) \ (list \ {V1Hi, V2Hi}))

NextNodeLocation(d) == First(Places(d) \ list)

NodeExists(d, s) ==
    First({i \in list \ {0} : nodes[i].dev = d /\ nodes[i].session = s})

NewNode(d, s, status) == [dev |-> d, session |-> s, status |-> status]

\* Mutant of AddNode: the list is left as it was.
AddNodeUnlisted(node, i) ==
    /\ list' = list
    /\ nodes' = [nodes EXCEPT ![i] = node]
    /\ highest' = IF i > highest THEN i ELSE highest

AddNode(node, i) ==
    /\ list' = list \cup {i}
    /\ nodes' = [nodes EXCEPT ![i] = node]
    /\ highest' = IF i > highest THEN i ELSE highest

\* delNode of the indexes in S, from below.  Deleting the last but one makes it
\* the highest, and a loop up to the highest ends there.
DelNodes(S) ==
    LET top  == highest - 1 \in S
        gone == IF top THEN S \ {highest} ELSE S
    IN  /\ list' = list \ gone
        /\ nodes' = [i \in Address |-> IF i \in gone THEN NoNode ELSE nodes[i]]
        /\ highest' = IF top THEN highest - 1 ELSE highest

-----------------------------------------------------------------------------
(* Enrolment.                                                              *)

Answer == answers < MaxAnswers /\ answers' = answers + 1

\* d answers a discovery request: getNodeDiscResp finds its index or adds it.
\* In the poll the loop that asks is not entered for the last address, and the
\* dataflow cycle discovers only when there is a primary node.
Discovered(d, s, next) ==
    LET known == NodeExists(d, s)
        i == IF known # 0 THEN known ELSE NextNodeLocation(d)
    IN  /\ job = "cycle"
        /\ next = "assign" => Primary \in list
        /\ Answer
        /\ IF known # 0 \/ i = 0
           THEN UNCHANGED table
           ELSE AddNode(NewNode(d, s, "Unverified"), i)
        /\ job' = CASE i = 0 -> "cycle"
                    [] i # 0 /\ next = "poll" /\ i >= V2Hi -> "set"
                    [] OTHER -> next
        /\ at' = i
        /\ UNCHANGED <<cursor, rolled>>

\* Without a primary node the dataflow cycle only asks for one.
AskPrimary ==
    /\ job = "cycle"
    /\ Primary \notin list
    /\ job' = "assign"
    /\ at' = Primary
    /\ UNCHANGED <<table, cursor, rolled, answers>>

\* Who answers a node id request: the device at that index, unless another one
\* believes that it has the index; and on index 0 any device.
Answers(d) ==
    \/ Failures \/ job = "reassign"
    \/ IF nodes[at] = NoNode THEN d \in Thermostat ELSE d = nodes[at].dev

\* d answers the node id request: the poll leaves it unverified.
AskAnswered(d, s) ==
    LET i == IF job = "reassign" THEN NextNodeLocation(d) ELSE at
    IN  /\ job \in {"poll", "assign", "reassign"}
        /\ Answers(d)
        /\ Answer
        /\ IF i = 0
           THEN UNCHANGED table
           ELSE AddNode(NewNode(d, s, IF job = "poll" THEN "Unverified" ELSE "Verified"), i)
        /\ job' = IF i = 0 THEN "cycle" ELSE "set"
        /\ at' = i
        /\ UNCHANGED <<cursor, rolled>>

\* Nobody does: the poll takes the index for free and the device for verified.
AskTimeout ==
    /\ \/ /\ job = "poll"
          /\ nodes' = [nodes EXCEPT ![at].status = "Verified"]
          /\ job' = "set"
       \/ /\ job = "assign"
          /\ job' = "reassign"
          /\ UNCHANGED nodes
       \/ /\ job = "reassign"
          /\ job' = "cycle"
          /\ UNCHANGED nodes
    /\ UNCHANGED <<list, highest, cursor, at, rolled, answers>>

\* An answer after delNode goes through a NULL pointer, which ends the process
\* (Restart) or, on hardware without memory protection, changes nothing.
SetAddressAnswered ==
    /\ job \in {"set", "freed"}
    /\ job' = "issue"
    /\ UNCHANGED <<table, cursor, at, rolled, answers>>

\* Mutant of SetAddressTimeout: a device that has not responded is off line.
SetAddressTimeoutOffline ==
    /\ job \in {"set", "freed"}
    /\ job' = "cycle"
    /\ nodes' = IF nodes[at] = NoNode THEN nodes ELSE [nodes EXCEPT ![at].status = "OffLine"]
    /\ UNCHANGED <<list, highest, cursor, at, rolled, answers>>

SetAddressTimeout ==
    /\ job \in {"set", "freed"}
    /\ job' = "cycle"
    /\ UNCHANGED <<table, cursor, at, rolled, answers>>

\* Any other frame: the device is taken out and the wait starts over.
SetAddressOther ==
    /\ Failures
    /\ job = "set"
    /\ DelNodes({at})
    /\ job' = "freed"
    /\ UNCHANGED <<cursor, at, rolled, answers>>

Issue ==
    /\ job = "issue"
    /\ job' = "cycle"
    /\ UNCHANGED <<table, cursor, at, rolled, answers>>

-----------------------------------------------------------------------------
(* The dataflow cycle.                                                     *)

\* A device leaves three copies of a message without a response.
FallSilent(i) ==
    /\ Failures
    /\ job = "cycle"
    /\ nodes' = [nodes EXCEPT ![i].status = "OffLine"]
    /\ UNCHANGED <<list, highest, cursor, job, at, rolled, answers>>

\* Mutant of Offline: the highest index is left out.
OfflineBelow == {i \in list \cap 1..(highest - 1) : nodes[i].status = "OffLine"}

Offline == {i \in list \cap 1..highest : nodes[i].status = "OffLine"}

RemoveOfflineDevices ==
    /\ job = "cycle"
    /\ DelNodes(Offline)
    /\ UNCHANGED <<cursor, job, at, rolled, answers>>

InNet2(i) == i \in list /\ nodes[i].dev \notin V1

\* Mutant of Roll: the cursor is never taken back to the primary node.
RollOnce ==
    LET i == First({j \in 1..highest : j >= cursor /\ InNet2(j)})
    IN  /\ job = "cycle"
        /\ Primary \in list
        /\ rolled' = i
        /\ cursor' = IF i # 0 THEN cursor + 1 ELSE cursor
        /\ UNCHANGED <<table, job, at, answers>>

\* rollNextNet2node.
Roll ==
    LET from == IF cursor > highest \/ cursor < Primary THEN Primary ELSE cursor
        i == First({j \in from..highest : InNet2(j)})
    IN  /\ job = "cycle"
        /\ Primary \in list
        /\ rolled' = i
        /\ cursor' = IF i # 0 THEN from + 1 ELSE from
        /\ UNCHANGED <<table, job, at, answers>>

\* The coordinator loses its power and comes back with an empty table.
Restart ==
    /\ Failures
    /\ list' = {0}
    /\ nodes' = [i \in Address |-> NoNode]
    /\ highest' = 0
    /\ cursor' = 0
    /\ job' = "cycle"
    /\ at' = 0
    /\ rolled' = 0
    /\ UNCHANGED answers

-----------------------------------------------------------------------------
Timeout == AskTimeout \/ SetAddressTimeout

Next ==
    \/ \E d \in Device, s \in Session :
          \/ \E next \in {"poll", "assign"} : Discovered(d, s, next)
          \/ AskAnswered(d, s)
    \/ AskPrimary
    \/ Timeout
    \/ SetAddressAnswered
    \/ SetAddressOther
    \/ Issue
    \/ \E i \in list \ {0} : FallSilent(i)
    \/ RemoveOfflineDevices
    \/ Roll
    \/ Restart

Spec == Init /\ [][Next]_vars

-----------------------------------------------------------------------------
(* Properties.                                                             *)

\* The list and the pointers agree, but for the coordinator's own index.  The
\* poll and reqRespSetAddress start with the index of a device that is there; the
\* wait that goes on after delNode has none, and what it writes next through
\* nodes[at] goes through a NULL pointer.
PointersAgree ==
    /\ \A i \in Address \ {0} : i \in list <=> nodes[i] # NoNode
    /\ job \in {"poll", "set"} => at \in list \ {0}
    /\ job = "freed" => at # 0 /\ nodes[at] = NoNode

TableInv == TypeOK /\ PointersAgree

\* Index i holds the device it held, or none.
EntryKept(i) ==
    nodes'[i] \in {NoNode, nodes[i], [nodes[i] EXCEPT !.status = "OffLine"]}

KeepsOthers ==
    \A i \in Address \ {0} :
        (i = at /\ job \in {"poll", "assign"}) \/ nodes[i] = NoNode \/ EntryKept(i)

\* Whoever enrols, the entries of the other devices stay what they are, or are
\* taken out, or go off line.  Only the answer to a node id request may replace
\* the entry at the index it was sent to.
OthersKept == [][KeepsOthers]_vars

\* delNode: "Reduce # if this is highest node in list".  No device is listed
\* above netNodeListHighest, where no loop looks for it.
HighestCovers == \A i \in list : i <= highest

\* The device at index i is in the rolling list.  The list goes round only while
\* there is a device of Subnet 3 at netNodeListHighest: nextSubnet3NodeId moves
\* when it finds one and starts over when it has passed that index.
InTurn(i) ==
    Primary \in list /\ i <= highest /\ InNet2(i) /\ InNet2(highest)

\* "Send R2R to the next Subnet 3 node in a slow rolling list": every Subnet 3
\* device has its turn again and again while it is in the list.
RollingReaches == \A i \in Address \ {0} : InTurn(i) ~> (rolled = i \/ ~ InTurn(i))

=============================================================================
