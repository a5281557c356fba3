-------------------------- MODULE NodeTable_proofs --------------------------
(***************************************************************************)
(* The list and the pointers of the coordinator's table always agree, and  *)
(* an enrolment never touches the entry of another device, for any number  *)
(* of devices, any addresses and whatever the devices answer.  At the end, *)
(* the only way in which a device gets lost above netNodeListHighest.      *)
(***************************************************************************)
EXTENDS NodeTable, WellFoundedInduction, TLAPS

-----------------------------------------------------------------------------
(* The search for an index.                                                *)

Less == {p \in Nat \X Nat : p[1] < p[2]}

LEMMA LessWellFounded == IsWellFoundedOn(Less, Nat)
<1>1. OpToRel(<, Nat) = Less
  BY DEF OpToRel, Less
<1> QED
  BY <1>1, NatLessThanWellFounded

\* A search that finds anything returns an index of the set.
LEMMA FirstIn ==
    ASSUME NEW S \in SUBSET Nat, S # {}
    PROVE  First(S) \in S
<1>1. \E x \in S : \A y \in S : ~ (<<y, x>> \in Less)
  BY LessWellFounded, WFMin, Zenon
<1>2. PICK x \in S : \A y \in S : ~ (<<y, x>> \in Less)
  BY <1>1
<1>3. ASSUME NEW y \in S
      PROVE  x <= y
  <2>1. ~ (y < x)
    <3>1. x \in Nat /\ y \in Nat /\ <<y, x>> \notin Less
      BY <1>2
    <3>2. y < x => <<y, x>> \in Less
      BY <3>1 DEF Less
    <3> QED
      BY <3>1, <3>2
  <2> QED
    BY <2>1
<1> QED
  BY <1>3 DEF First

\* The index that an enrolment uses is free, and one that is found is in use.
LEMMA NextNodeLocationFree ==
    ASSUME TypeOK, NEW d \in Device, NextNodeLocation(d) # 0
    PROVE  NextNodeLocation(d) \in Address \ list
<1> DEFINE free == Places(d) \ list
<1>1. Places(d) \in SUBSET Address
  BY NodeTableAssumption DEF Places, Address, Primary
<1>2. free \in SUBSET Nat
  BY <1>1, NodeTableAssumption DEF Address
<1>3. free # {}
  BY DEF NextNodeLocation, First
<1>4. First(free) \in free
  BY <1>2, <1>3, FirstIn
<1> QED
  BY <1>1, <1>4 DEF NextNodeLocation

LEMMA NodeExistsListed ==
    ASSUME TypeOK, NEW d, NEW s, NodeExists(d, s) # 0
    PROVE  NodeExists(d, s) \in list \ {0}
<1> DEFINE found == {i \in list \ {0} : nodes[i].dev = d /\ nodes[i].session = s}
<1>1. found \in SUBSET Nat
  <2>1. list \subseteq Nat
    BY NodeTableAssumption DEF TypeOK, Address
  <2> QED
    BY <2>1
<1>2. found # {}
  BY DEF NodeExists, First
<1>3. First(found) \in found
  BY <1>1, <1>2, FirstIn
<1> QED
  BY <1>3 DEF NodeExists

\* What rollNextNet2node returns is an index.
LEMMA FirstAddress ==
    ASSUME NEW S \in SUBSET Address
    PROVE  First(S) \in Address
<1>1. CASE S = {}
  BY <1>1, NodeTableAssumption DEF First, Address
<1>2. CASE S # {}
  <2>1. S \in SUBSET Nat
    BY NodeTableAssumption DEF Address
  <2> QED
    BY <1>2, <2>1, FirstIn
<1> QED
  BY <1>1, <1>2

-----------------------------------------------------------------------------
(* The operations of the table.                                            *)

TableOK ==
    /\ list \subseteq Address
    /\ nodes \in [Address -> Node \cup {NoNode}]
    /\ highest \in Address
    /\ \A i \in Address \ {0} : i \in list <=> nodes[i] # NoNode

LEMMA AddNodeOK ==
    ASSUME TableOK, NEW n \in Node, NEW i \in Address \ {0}, AddNode(n, i)
    PROVE  TableOK' /\ nodes'[i] # NoNode
<1>1. n # NoNode
  BY NodeTableAssumption
<1>2. nodes' = [nodes EXCEPT ![i] = n] /\ nodes' \in [Address -> Node \cup {NoNode}]
  BY DEF AddNode, TableOK
<1>3. \A j \in Address : nodes'[j] = IF j = i THEN n ELSE nodes[j]
  BY <1>2 DEF TableOK
<1>4. list' = list \cup {i} /\ highest' \in Address
  BY DEF AddNode, TableOK
<1> QED
  BY <1>1, <1>2, <1>3, <1>4 DEF TableOK

LEMMA DelNodesOK ==
    ASSUME TableOK, NEW S \in SUBSET (list \ {0}), DelNodes(S)
    PROVE  TableOK'
<1> DEFINE top  == highest - 1 \in S
           gone == IF top THEN S \ {highest} ELSE S
<1>1. /\ list' = list \ gone
      /\ nodes' = [i \in Address |-> IF i \in gone THEN NoNode ELSE nodes[i]]
      /\ highest' = IF top THEN highest - 1 ELSE highest
  BY DEF DelNodes
<1>2. highest' \in Address
  BY <1>1 DEF TableOK
<1>3. gone \subseteq list
  OBVIOUS
<1> HIDE DEF gone
<1> QED
  BY <1>1, <1>2, <1>3 DEF TableOK

-----------------------------------------------------------------------------
(* The steps of loopServer.                                                *)

\* What the steps that do not touch the table keep.
Rest ==
    /\ cursor \in 0..(V2Hi + 1)
    /\ job \in Job
    /\ at \in Address
    /\ rolled \in Address
    /\ answers \in 0..MaxAnswers

AtListed ==
    /\ job \in {"poll", "set"} => at \in list \ {0}
    /\ job = "freed" => at # 0 /\ nodes[at] = NoNode

LEMMA TableInvParts == TableInv <=> TableOK /\ Rest /\ AtListed
BY DEF TableInv, TypeOK, PointersAgree, TableOK, Rest, AtListed

LEMMA TableInvPartsNext == TableInv' <=> TableOK' /\ Rest' /\ AtListed'
BY DEF TableInv, TypeOK, PointersAgree, TableOK, Rest, AtListed

LEMMA TableKept ==
    ASSUME TableOK, UNCHANGED table
    PROVE  TableOK'
BY DEF TableOK, table

LEMMA AnswerCounted ==
    ASSUME Rest, Answer
    PROVE  answers' \in 0..MaxAnswers
BY NodeTableAssumption DEF Rest, Answer

LEMMA NewNodeTyped ==
    ASSUME NEW d \in Device, NEW s \in Session, NEW status \in Status
    PROVE  NewNode(d, s, status) \in Node
BY DEF NewNode, Node

LEMMA DiscoveredOK ==
    ASSUME TableInv, NEW d \in Device, NEW s \in Session, NEW next \in {"poll", "assign"},
           Discovered(d, s, next)
    PROVE  TableInv'
<1> DEFINE known == NodeExists(d, s)
           i == IF known # 0 THEN known ELSE NextNodeLocation(d)
<1>1. /\ IF known # 0 \/ i = 0
         THEN UNCHANGED table
         ELSE AddNode(NewNode(d, s, "Unverified"), i)
      /\ job' = CASE i = 0 -> "cycle"
                  [] i # 0 /\ next = "poll" /\ i >= V2Hi -> "set"
                  [] OTHER -> next
      /\ at' = i
      /\ UNCHANGED <<cursor, rolled>>
      /\ Answer
  BY DEF Discovered
<1>2. TypeOK /\ TableOK /\ Rest
  BY TableInvParts DEF TableInv
<1>3. known # 0 => known \in list \ {0}
  BY <1>2, NodeExistsListed
<1>4. known = 0 /\ i # 0 => i \in Address \ list
  BY <1>2, NextNodeLocationFree
<1> HIDE DEF known
<1>5. i \in Address
  <2>1. list \subseteq Address /\ 0 \in Address
    BY <1>2, NodeTableAssumption DEF TableOK, Address
  <2>2. known # 0 => i = known
    OBVIOUS
  <2> HIDE DEF i
  <2> QED
    BY <1>3, <1>4, <2>1, <2>2
<1> HIDE DEF i
<1>6. TableOK' /\ (i # 0 => i \in list')
  <2>1. CASE known # 0 \/ i = 0
    <3>1. UNCHANGED table
      BY <1>1, <2>1
    <3>2. i # 0 => i = known
      BY <2>1 DEF i
    <3> QED
      BY <1>2, <1>3, <3>1, <3>2, TableKept DEF table
  <2>2. CASE known = 0 /\ i # 0
    <3>1. AddNode(NewNode(d, s, "Unverified"), i)
      BY <1>1, <2>2
    <3>2. NewNode(d, s, "Unverified") \in Node
      BY NewNodeTyped DEF Status
    <3> QED
      BY <1>2, <1>5, <2>2, <3>1, <3>2, AddNodeOK DEF AddNode
  <2> QED
    BY <2>1, <2>2
<1>7. job' \in Job /\ (job' \in {"poll", "set"} => i # 0)
  BY <1>1 DEF Job
<1>8. Rest'
  BY <1>1, <1>2, <1>5, <1>7, AnswerCounted DEF Rest
<1>9. AtListed'
  BY <1>1, <1>6, <1>7 DEF AtListed
<1> QED
  BY <1>6, <1>8, <1>9, TableInvPartsNext

LEMMA AskAnsweredOK ==
    ASSUME TableInv, NEW d \in Device, NEW s \in Session, AskAnswered(d, s)
    PROVE  TableInv'
<1> DEFINE i == IF job = "reassign" THEN NextNodeLocation(d) ELSE at
           n == NewNode(d, s, IF job = "poll" THEN "Unverified" ELSE "Verified")
<1>1. /\ IF i = 0 THEN UNCHANGED table ELSE AddNode(n, i)
      /\ job' = IF i = 0 THEN "cycle" ELSE "set"
      /\ at' = i
      /\ UNCHANGED <<cursor, rolled>>
      /\ Answer
  BY DEF AskAnswered
<1>2. TypeOK /\ TableOK /\ Rest
  BY TableInvParts DEF TableInv
<1>3. i \in Address
  BY <1>2, NextNodeLocationFree, NodeTableAssumption DEF Rest, Address
<1>4. n \in Node
  BY NewNodeTyped DEF Status
<1> HIDE DEF i, n
<1>5. TableOK' /\ (i # 0 => i \in list')
  <2>1. CASE i = 0
    BY <1>1, <1>2, <2>1, TableKept
  <2>2. CASE i # 0
    BY <1>1, <1>2, <1>3, <1>4, <2>2, AddNodeOK DEF AddNode
  <2> QED
    BY <2>1, <2>2
<1>6. Rest'
  BY <1>1, <1>2, <1>3, AnswerCounted DEF Rest, Job
<1>7. AtListed'
  BY <1>1, <1>5 DEF AtListed
<1> QED
  BY <1>5, <1>6, <1>7, TableInvPartsNext

LEMMA AskTimeoutOK ==
    ASSUME TableInv, AskTimeout
    PROVE  TableInv'
<1>1. TableOK /\ Rest /\ AtListed
  BY TableInvParts
<1>2. CASE job = "poll" /\ nodes' = [nodes EXCEPT ![at].status = "Verified"] /\ job' = "set"
  <2>1. UNCHANGED <<list, highest, cursor, at, rolled, answers>>
    BY DEF AskTimeout
  <2>2. at \in list \ {0} /\ nodes[at] \in Node
    BY <1>1, <1>2 DEF AtListed, TableOK
  <2>3. nodes' = [nodes EXCEPT ![at] = [nodes[at] EXCEPT !.status = "Verified"]]
    BY <1>2
  <2>4. [nodes[at] EXCEPT !.status = "Verified"] \in Node
    BY <2>2 DEF Node, Status
  <2> DEFINE n == [nodes[at] EXCEPT !.status = "Verified"]
  <2> HIDE DEF n
  <2>5. AddNode(n, at) \/ highest' = highest
    BY <2>1
  <2>6. TableOK'
    <3>1. n \in Node /\ n # NoNode
      BY <2>4, NodeTableAssumption DEF n
    <3>2. nodes' = [nodes EXCEPT ![at] = n]
      BY <2>3 DEF n
    <3>3. nodes' \in [Address -> Node \cup {NoNode}]
      BY <1>1, <3>1, <3>2 DEF TableOK
    <3>4. \A j \in Address : nodes'[j] = IF j = at THEN n ELSE nodes[j]
      BY <1>1, <3>2 DEF TableOK
    <3> QED
      BY <1>1, <2>1, <2>2, <3>1, <3>3, <3>4 DEF TableOK
  <2>7. Rest' /\ AtListed'
    BY <1>1, <1>2, <2>1, <2>2 DEF Rest, AtListed, Job
  <2> QED
    BY <2>6, <2>7, TableInvPartsNext
<1>3. CASE job' \in {"reassign", "cycle"} /\ UNCHANGED nodes
  <2>1. UNCHANGED <<list, highest, cursor, at, rolled, answers>>
    BY DEF AskTimeout
  <2>2. TableOK'
    BY <1>1, <1>3, <2>1, TableKept DEF table
  <2>3. Rest' /\ AtListed'
    BY <1>1, <1>3, <2>1 DEF Rest, AtListed, Job
  <2> QED
    BY <2>2, <2>3, TableInvPartsNext
<1> QED
  BY <1>2, <1>3 DEF AskTimeout

LEMMA FallSilentOK ==
    ASSUME TableInv, NEW i \in list \ {0}, FallSilent(i)
    PROVE  TableInv'
<1>1. TableOK /\ Rest /\ job = "cycle"
  BY TableInvParts DEF FallSilent
<1>2. /\ nodes' = [nodes EXCEPT ![i] = [nodes[i] EXCEPT !.status = "OffLine"]]
      /\ UNCHANGED <<list, highest, cursor, job, at, rolled, answers>>
  BY DEF FallSilent
<1>3. i \in Address /\ nodes[i] \in Node
  BY <1>1 DEF TableOK
<1> DEFINE n == [nodes[i] EXCEPT !.status = "OffLine"]
<1>4. n \in Node /\ n # NoNode
  BY <1>3, NodeTableAssumption DEF Node, Status
<1> HIDE DEF n
<1>5. nodes' = [nodes EXCEPT ![i] = n]
  BY <1>2 DEF n
<1>6. TableOK'
  <2>1. nodes' \in [Address -> Node \cup {NoNode}]
    BY <1>1, <1>4, <1>5 DEF TableOK
  <2>2. \A j \in Address : nodes'[j] = IF j = i THEN n ELSE nodes[j]
    BY <1>1, <1>5 DEF TableOK
  <2> QED
    BY <1>1, <1>2, <1>3, <1>4, <2>1, <2>2 DEF TableOK
<1>7. Rest' /\ AtListed'
  BY <1>1, <1>2 DEF Rest, AtListed
<1> QED
  BY <1>6, <1>7, TableInvPartsNext

LEMMA RollOK ==
    ASSUME TableInv, Roll
    PROVE  TableInv'
<1> DEFINE from == IF cursor > highest \/ cursor < Primary THEN Primary ELSE cursor
           next2 == {j \in from..highest : InNet2(j)}
           i == First(next2)
<1>1. /\ job = "cycle"
      /\ rolled' = i
      /\ cursor' = IF i # 0 THEN from + 1 ELSE from
      /\ UNCHANGED <<table, job, at, answers>>
  BY DEF Roll
<1>2. TableOK /\ Rest
  BY TableInvParts
<1>3. from \in 1..V2Hi
  BY <1>2, NodeTableAssumption DEF TableOK, Rest, Address, Primary
<1> HIDE DEF from
<1>4. next2 \in SUBSET Address
  <2>1. from..highest \in SUBSET Address
    BY <1>2, <1>3, NodeTableAssumption DEF TableOK, Address
  <2> QED
    BY <2>1
<1> HIDE DEF next2
<1>5. i \in Address
  BY <1>4, FirstAddress
<1> HIDE DEF i
<1>6. TableOK'
  BY <1>1, <1>2, TableKept
<1>7. Rest' /\ AtListed'
  BY <1>1, <1>2, <1>3, <1>5, NodeTableAssumption DEF Rest, AtListed
<1> QED
  BY <1>6, <1>7, TableInvPartsNext

LEMMA StepOK ==
    ASSUME TableInv, [Next]_vars
    PROVE  TableInv'
<1>1. TableOK /\ Rest /\ AtListed
  BY TableInvParts
<1>2. ASSUME NEW d \in Device, NEW s \in Session, NEW next \in {"poll", "assign"},
             Discovered(d, s, next)
      PROVE  TableInv'
  BY <1>2, DiscoveredOK
<1>3. ASSUME NEW d \in Device, NEW s \in Session, AskAnswered(d, s)
      PROVE  TableInv'
  BY <1>3, AskAnsweredOK
<1>4. CASE AskPrimary
  <2>1. TableOK'
    BY <1>1, <1>4, TableKept DEF AskPrimary
  <2>2. Rest' /\ AtListed'
    BY <1>1, <1>4, NodeTableAssumption DEF AskPrimary, Rest, AtListed, Job, Address, Primary
  <2> QED
    BY <2>1, <2>2, TableInvPartsNext
<1>5. CASE AskTimeout
  BY <1>5, AskTimeoutOK
<1>6. CASE SetAddressTimeout \/ SetAddressAnswered \/ Issue
  <2>1. UNCHANGED <<table, cursor, at, rolled, answers>> /\ job' \in {"cycle", "issue"}
    BY <1>6 DEF SetAddressTimeout, SetAddressAnswered, Issue
  <2>2. TableOK'
    BY <1>1, <2>1, TableKept
  <2>3. Rest' /\ AtListed'
    BY <1>1, <2>1 DEF Rest, AtListed, Job
  <2> QED
    BY <2>2, <2>3, TableInvPartsNext
<1>7. CASE SetAddressOther
  <2>1. {at} \in SUBSET (list \ {0}) /\ DelNodes({at})
    BY <1>1, <1>7 DEF SetAddressOther, AtListed
  <2>2. TableOK'
    BY <1>1, <2>1, DelNodesOK
  <2>3. UNCHANGED <<cursor, at, rolled, answers>> /\ job' = "freed"
    BY <1>7 DEF SetAddressOther
  <2>4. at \in Address \ {0} /\ nodes'[at] = NoNode
    <3>1. at \in Address \ {0} /\ highest \in Address
      BY <1>1, <1>7 DEF SetAddressOther, AtListed, TableOK
    <3>2. at = highest - 1 => at # highest
      BY <3>1, NodeTableAssumption DEF Address
    <3> QED
      BY <2>1, <3>1, <3>2 DEF DelNodes
  <2>5. Rest' /\ AtListed'
    BY <1>1, <2>3, <2>4 DEF Rest, AtListed, Job
  <2> QED
    BY <2>2, <2>5, TableInvPartsNext
<1>8. ASSUME NEW i \in list \ {0}, FallSilent(i)
      PROVE  TableInv'
  BY <1>8, FallSilentOK
<1>9. CASE RemoveOfflineDevices
  <2>1. Offline \in SUBSET (list \ {0}) /\ DelNodes(Offline)
    BY <1>1, <1>9 DEF RemoveOfflineDevices, Offline, TableOK
  <2>2. TableOK'
    BY <1>1, <2>1, DelNodesOK
  <2>3. Rest' /\ AtListed'
    BY <1>1, <1>9 DEF RemoveOfflineDevices, Rest, AtListed
  <2> QED
    BY <2>2, <2>3, TableInvPartsNext
<1>10. CASE Roll
  BY <1>10, RollOK
<1>11. CASE Restart
  <2>1. TableOK'
    BY <1>11, NodeTableAssumption DEF Restart, TableOK, Address
  <2>2. Rest' /\ AtListed'
    BY <1>1, <1>11, NodeTableAssumption DEF Restart, Rest, AtListed, Address, Job
  <2> QED
    BY <2>1, <2>2, TableInvPartsNext
<1>12. CASE UNCHANGED vars
  <2>1. TableOK'
    BY <1>1, <1>12, TableKept DEF vars, table
  <2>2. Rest' /\ AtListed'
    BY <1>1, <1>12 DEF vars, Rest, AtListed
  <2> QED
    BY <2>1, <2>2, TableInvPartsNext
<1> QED
  BY <1>2, <1>3, <1>4, <1>5, <1>6, <1>7, <1>8, <1>9, <1>10, <1>11, <1>12 DEF Next, Timeout

LEMMA InitOK == Init => TableInv
BY NodeTableAssumption DEF Init, TableInv, TypeOK, PointersAgree, Address, Job

\* The list and the pointers agree, reqRespSetAddress is entered for a device that
\* is in the table, and once it has taken that device out it has a NULL pointer to
\* go on with: for any devices and addresses, whatever they answer.
THEOREM PointersStayAgreed == Spec => []TableInv
BY InitOK, StepOK, PTL DEF Spec

-----------------------------------------------------------------------------
(* The entries of the other devices.                                       *)

LEMMA AddsElsewhere ==
    ASSUME TableOK, NEW n, NEW i \in Address, AddNode(n, i),
           NEW j \in Address, j # i
    PROVE  EntryKept(j)
BY DEF AddNode, TableOK, EntryKept

LEMMA NodesUnchanged ==
    ASSUME UNCHANGED nodes, NEW j \in Address
    PROVE  EntryKept(j)
BY DEF EntryKept

LEMMA DeletesOnly ==
    ASSUME NEW S, DelNodes(S), NEW j \in Address
    PROVE  EntryKept(j)
<1>1. \E gone : nodes' = [i \in Address |-> IF i \in gone THEN NoNode ELSE nodes[i]]
  BY DEF DelNodes
<1> QED
  BY <1>1 DEF EntryKept

LEMMA StepKeepsOthers ==
    ASSUME TableInv, [Next]_vars
    PROVE  [KeepsOthers]_vars
<1> SUFFICES ASSUME Next, NEW j \in Address \ {0}, nodes[j] # NoNode,
                    ~ (j = at /\ job \in {"poll", "assign"})
             PROVE  EntryKept(j)
  BY DEF KeepsOthers
<1>1. TypeOK /\ TableOK /\ j \in list
  BY TableInvParts DEF TableInv, TableOK
<1>2. ASSUME NEW d \in Device, NEW s \in Session, NEW next \in {"poll", "assign"},
             Discovered(d, s, next)
      PROVE  EntryKept(j)
  <2>1. CASE UNCHANGED table
    BY <2>1, NodesUnchanged DEF table
  <2>2. CASE /\ NodeExists(d, s) = 0 /\ NextNodeLocation(d) # 0
             /\ AddNode(NewNode(d, s, "Unverified"), NextNodeLocation(d))
    <3>1. NextNodeLocation(d) \in Address \ list
      BY <1>1, <2>2, NextNodeLocationFree
    <3> QED
      BY <1>1, <2>2, <3>1, AddsElsewhere
  <2> QED
    BY <1>2, <2>1, <2>2 DEF Discovered
<1>3. ASSUME NEW d \in Device, NEW s \in Session, AskAnswered(d, s)
      PROVE  EntryKept(j)
  <2>1. CASE UNCHANGED table
    BY <2>1, NodesUnchanged DEF table
  <2>2. ASSUME job = "reassign", NextNodeLocation(d) # 0, NEW n,
               AddNode(n, NextNodeLocation(d))
        PROVE  EntryKept(j)
    <3>1. NextNodeLocation(d) \in Address \ list
      BY <1>1, <2>2, NextNodeLocationFree
    <3> QED
      BY <1>1, <2>2, <3>1, AddsElsewhere
  <2>3. ASSUME job \in {"poll", "assign"}, NEW n, AddNode(n, at)
        PROVE  EntryKept(j)
    BY <1>1, <2>3, AddsElsewhere DEF TypeOK
  <2> QED
    BY <1>3, <2>1, <2>2, <2>3 DEF AskAnswered
<1>4. CASE AskTimeout
  BY <1>1, <1>4 DEF AskTimeout, EntryKept, TypeOK
<1>5. CASE AskPrimary \/ SetAddressTimeout \/ SetAddressAnswered \/ Issue \/ Roll
  BY <1>5, NodesUnchanged
     DEF AskPrimary, SetAddressTimeout, SetAddressAnswered, Issue, Roll, table
<1>6. CASE SetAddressOther
  BY <1>6, DeletesOnly DEF SetAddressOther
<1>7. ASSUME NEW i \in list \ {0}, FallSilent(i)
      PROVE  EntryKept(j)
  <2>1. CASE i = j
    BY <1>1, <1>7, <2>1 DEF FallSilent, EntryKept, TypeOK
  <2>2. CASE i # j
    BY <1>1, <1>7, <2>2 DEF FallSilent, EntryKept, TypeOK
  <2> QED
    BY <2>1, <2>2
<1>8. CASE RemoveOfflineDevices
  BY <1>8, DeletesOnly DEF RemoveOfflineDevices
<1>9. CASE Restart
  BY <1>9 DEF Restart, EntryKept
<1> QED
  BY <1>2, <1>3, <1>4, <1>5, <1>6, <1>7, <1>8, <1>9 DEF Next, Timeout

\* An enrolment never replaces another device's entry, whatever the devices
\* answer.
THEOREM EntriesKept == Spec => OthersKept
<1>1. TableInv /\ [Next]_vars => [KeepsOthers]_vars
  BY StepKeepsOthers
<1> QED
  BY <1>1, PointersStayAgreed, PTL DEF Spec, OthersKept

-----------------------------------------------------------------------------
(* How a device comes to be listed above netNodeListHighest.               *)

\* Index highest stays listed, and the one below it is taken out.
LosesLastButOne == highest \in list \cap list' /\ highest - 1 \in list \ list'

LEMMA DelLosesCover ==
  ASSUME TypeOK, HighestCovers, ~ HighestCovers', NEW S, S \subseteq list, DelNodes(S)
  PROVE  LosesLastButOne
<1>1. list \subseteq 0..V2Hi /\ highest \in 0..V2Hi /\ V2Hi \in Nat
  BY NodeTableAssumption DEF TypeOK, Address
<1>2. PICK k \in list' : ~ (k <= highest')
  BY DEF HighestCovers
<1>3. k \in list
  BY DEF DelNodes
<1>4. k <= highest
  BY <1>3 DEF HighestCovers
<1>5. highest - 1 \in S /\ list' = list \ (S \ {highest}) /\ highest' = highest - 1
  BY <1>2, <1>4 DEF DelNodes
<1>6. k = highest
  BY <1>1, <1>2, <1>3, <1>4, <1>5
<1>7. highest - 1 # highest
  BY <1>1
<1> QED
  BY <1>3, <1>5, <1>6, <1>7 DEF LosesLastButOne

LEMMA AddKeepsCover ==
  ASSUME TypeOK, HighestCovers, NEW n, NEW i \in Address, AddNode(n, i)
  PROVE  HighestCovers'
<1>1. list \subseteq 0..V2Hi /\ highest \in 0..V2Hi /\ i \in 0..V2Hi /\ V2Hi \in Nat
  BY NodeTableAssumption DEF TypeOK, Address
<1>2. ASSUME NEW k \in list \cup {i}
      PROVE  k <= highest'
  <2>1. k = i \/ (k \in list /\ k <= highest)
    BY <1>2 DEF HighestCovers
  <2> QED
    BY <1>1, <2>1 DEF AddNode
<1> QED
  BY <1>2 DEF HighestCovers, AddNode

LEMMA SameCover ==
  ASSUME HighestCovers, UNCHANGED <<list, highest>>
  PROVE  HighestCovers'
BY DEF HighestCovers

LEMMA StepCovers ==
  ASSUME TableInv, [Next]_vars, HighestCovers, ~ HighestCovers'
  PROVE  LosesLastButOne
<1>1. TypeOK /\ PointersAgree
  BY DEF TableInv
<1>2. ASSUME NEW d \in Device, NEW s \in Session, NEW next \in {"poll", "assign"},
             Discovered(d, s, next)
      PROVE  LosesLastButOne
  <2>1. CASE UNCHANGED table
    BY <2>1, SameCover DEF table
  <2>2. CASE /\ NodeExists(d, s) = 0 /\ NextNodeLocation(d) # 0
             /\ AddNode(NewNode(d, s, "Unverified"), NextNodeLocation(d))
    <3>1. NextNodeLocation(d) \in Address
      BY <1>1, <2>2, NextNodeLocationFree
    <3> QED
      BY <1>1, <2>2, <3>1, AddKeepsCover
  <2> QED
    BY <1>2, <2>1, <2>2 DEF Discovered
<1>3. ASSUME NEW d \in Device, NEW s \in Session, AskAnswered(d, s)
      PROVE  LosesLastButOne
  <2>1. CASE UNCHANGED table
    BY <2>1, SameCover DEF table
  <2>2. ASSUME job = "reassign", NextNodeLocation(d) # 0, NEW n,
               AddNode(n, NextNodeLocation(d))
        PROVE  LosesLastButOne
    <3>1. NextNodeLocation(d) \in Address
      BY <1>1, <2>2, NextNodeLocationFree
    <3> QED
      BY <1>1, <2>2, <3>1, AddKeepsCover
  <2>3. ASSUME job \in {"poll", "assign"}, NEW n, AddNode(n, at)
        PROVE  LosesLastButOne
    BY <1>1, <2>3, AddKeepsCover DEF TypeOK
  <2> QED
    BY <1>3, <2>1, <2>2, <2>3 DEF AskAnswered
<1>4. CASE \/ AskPrimary \/ Timeout \/ SetAddressAnswered \/ Issue \/ Roll
           \/ \E i \in list \ {0} : FallSilent(i)
           \/ UNCHANGED vars
  BY <1>4, SameCover
     DEF AskPrimary, Timeout, AskTimeout, SetAddressTimeout, SetAddressAnswered,
         Issue, Roll, FallSilent, table, vars
<1>5. CASE SetAddressOther
  <2>1. {at} \subseteq list /\ DelNodes({at})
    BY <1>1, <1>5 DEF SetAddressOther, PointersAgree
  <2> QED
    BY <1>1, <2>1, DelLosesCover
<1>6. CASE RemoveOfflineDevices
  <2>1. Offline \subseteq list /\ DelNodes(Offline)
    BY <1>6 DEF RemoveOfflineDevices, Offline
  <2> QED
    BY <1>1, <2>1, DelLosesCover
<1>7. CASE Restart
  <2>1. HighestCovers'
    BY <1>7 DEF Restart, HighestCovers
  <2> QED
    BY <2>1
<1> QED
  BY <1>2, <1>3, <1>4, <1>5, <1>6, <1>7 DEF Next, Timeout

\* A device comes to be listed above netNodeListHighest in one way only: the
\* entry at the index just below that one is deleted, by whichever loop, while
\* the one at netNodeListHighest stays.
THEOREM HiddenByLastButOne ==
    Spec => [][HighestCovers /\ ~ HighestCovers' => LosesLastButOne]_vars
<1>1. TableInv /\ [Next]_vars => [HighestCovers /\ ~ HighestCovers' => LosesLastButOne]_vars
  BY StepCovers
<1> QED
  BY <1>1, PointersStayAgreed, PTL DEF Spec

=============================================================================
