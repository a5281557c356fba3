-------------------------- MODULE WorkQueue_proofs --------------------------
(***************************************************************************)
(* For any devices, stack and number of copies: the types of the state,    *)
(* what is left in the stack, that there is room for the R2R of the cycle, *)
(* that no device is put off line for answers that were lost or late in    *)
(* too small a number, and that doWork comes to an end.                    *)
(***************************************************************************)
EXTENDS WorkQueue, FiniteSetTheorems, SequenceTheorems, WellFoundedInduction, TLAPS

-----------------------------------------------------------------------------
(* The inductive invariant.                                                *)

\* The packets of the devices, and of the coordinator: those with a method are
\* requests or come from a stranger, and so does every reply that is not final.
Receiver == 0..255
Answer == Requests \cup Foreign \cup Final
Item == Answer \cup {Msg(kind, dest) : kind \in {"r2r", "list"}, dest \in Receiver}

StackOK ==
    /\ stack \in Seq(Item)
    /\ Len(stack) <= MaxItems
    /\ todo \in Nat
    /\ stack = <<>> => todo = 0

LineOK ==
    /\ inbox \in Seq(Answer)
    /\ late \in Answer \cup {NoPacket}
    /\ sub \in Requests \cup {NoPacket}
    /\ tries \in Nat
    /\ mishaps \in Nat

TableOK ==
    /\ list \subseteq 0..Hi
    /\ highest \in 0..Hi
    /\ off \subseteq list

\* Below what doWork is to take there are node lists only.
ListsBelow ==
    \A k \in 1..Len(stack) : k <= Len(stack) - todo => stack[k].kind = "list"

\* The copies to a device that is there and has not answered were all in vain.
CopiesInVain ==
    /\ Idle => tries = 0
    /\ At \in alive \cap list /\ inbox = <<>> => tries <= mishaps

IInv == StackOK /\ LineOK /\ TableOK /\ ListsBelow /\ RoomForOne /\ CopiesInVain /\ Trusted

-----------------------------------------------------------------------------
(* Packets.                                                                *)

LEMMA MsgIsItem ==
    ASSUME NEW kind \in {"r2r", "list"}, NEW dest \in Receiver
    PROVE  Msg(kind, dest) \in Item /\ Msg(kind, dest).kind = kind
BY DEF Msg, Item

LEMMA Destinations ==
    Primary \in Receiver /\ VrtSub \in Receiver /\ Coord \in Receiver /\ Index \subseteq Receiver
BY WorkQueueAssumption DEF Primary, VrtSub, Coord, Index, Receiver

LEMMA AnswersAreAnswers ==
    ASSUME NEW p
    PROVE  Answers(p) \subseteq Answer
<1>1. \A kind \in {"ack", "listack", "response"} : Msg(kind, Coord) \in Answer
  BY DEF Answer, Final
<1>2. Requests \subseteq Answer /\ Foreign \subseteq Answer
  BY DEF Answer
<1>3. Polite(p) \subseteq Answer
  BY <1>1, <1>2 DEF Polite
<1> QED
  BY <1>2, <1>3 DEF Answers

LEMMA AnswersAreItems == Answer \subseteq Item
BY DEF Item

\* Induction, first order: a set of naturals has a least element.
Less == {p \in Nat \X Nat : p[1] < p[2]}

LEMMA LeastElement ==
    ASSUME NEW T \in SUBSET Nat, T # {}
    PROVE  \E n \in T : \A m \in T : n <= m
<1>1. OpToRel(<, Nat) = Less
  BY DEF OpToRel, Less
<1>2. IsWellFoundedOn(Less, Nat)
  BY <1>1, NatLessThanWellFounded
<1>3. \E n \in T : \A m \in T : ~ (<<m, n>> \in Less)
  BY <1>2, WFMin, Zenon
<1>4. PICK n \in T : \A m \in T : ~ (<<m, n>> \in Less)
  BY <1>3
<1>5. ASSUME NEW m \in T
      PROVE  n <= m
  <2>1. n \in Nat /\ m \in Nat
    OBVIOUS
  <2>2. ~ (m < n)
    <3>1. SUFFICES ASSUME m < n
                   PROVE  FALSE
      OBVIOUS
    <3>2. <<m, n>> \in Less
      BY <2>1, <3>1 DEF Less
    <3> QED
      BY <1>4, <3>2
  <2> QED
    BY <2>1, <2>2
<1> QED
  BY <1>5

LEMMA LeastNumber ==
    ASSUME NEW T \in SUBSET Nat, T # {}
    PROVE  \E n \in T : n = 0 \/ (n - 1 \in Nat /\ n - 1 \notin T)
<1>1. PICK n \in T : \A m \in T : n <= m
  BY LeastElement
<1>2. n # 0 => n - 1 \in Nat /\ ~ (n <= n - 1)
  OBVIOUS
<1> QED
  BY <1>1, <1>2

\* As n grows by one, the elements below n grow by one or not at all.
LEMMA OneMoreBelow ==
    ASSUME NEW S \in SUBSET Nat, IsFiniteSet(S), NEW n \in Nat,
           NEW below, below = {j \in S : j < n},
           NEW next, next = {j \in S : j < n + 1}
    PROVE  /\ Cardinality(below) \in Nat
           /\ Cardinality(next) = IF n \in S THEN Cardinality(below) + 1
                                             ELSE Cardinality(below)
<1>0. \A j \in S : j < n + 1 <=> j < n \/ j = n
  <2>1. \A j \in Nat : j < n + 1 <=> j < n \/ j = n
    OBVIOUS
  <2> QED
    BY <2>1
<1>1. below \subseteq S /\ n \notin below
  OBVIOUS
<1>2. IsFiniteSet(below) /\ Cardinality(below) \in Nat
  BY <1>1, FS_Subset, FS_CardinalityType
<1>3. CASE n \in S
  <2>1. next = below \cup {n}
    BY <1>0, <1>3, Zenon
  <2> QED
    BY <1>1, <1>2, <1>3, <2>1, FS_AddElement
<1>4. CASE n \notin S
  <2>1. next = below
    BY <1>0, <1>4, Zenon
  <2> QED
    BY <1>2, <1>4, <2>1
<1> QED
  BY <1>3, <1>4

\* The k-th index of S in ascending order is one of S.
LEMMA AscendingInSet ==
    ASSUME NEW S \in SUBSET (0..Hi), NEW k \in 1..Cardinality(S)
    PROVE  Ascending(S)[k] \in S
<1> DEFINE below(n) == {j \in S : j < n}
           T == {n \in Nat : Cardinality(below(n)) >= k}
<1>1. S \in SUBSET Nat /\ IsFiniteSet(S) /\ Cardinality(S) \in Nat /\ Hi \in Nat
  <2>1. Hi \in Nat
    BY WorkQueueAssumption
  <2>2. S \subseteq 0..Hi
    OBVIOUS
  <2>3. IsFiniteSet(S)
    <3>1. IsFiniteSet(0..Hi)
      BY <2>1, FS_Interval
    <3> QED
      BY <2>2, <3>1, FS_Subset
  <2>4. \A j \in 0..Hi : j \in Nat
    BY <2>1
  <2> QED
    BY <2>1, <2>2, <2>3, <2>4, FS_CardinalityType, Zenon
<1>2. T # {}
  <2>1. \A j \in S : j < Hi + 1
    <3>1. \A j \in 0..Hi : j < Hi + 1
      BY <1>1
    <3> QED
      BY <3>1
  <2>2. below(Hi + 1) = S
    BY <2>1, Zenon
  <2>3. Cardinality(S) >= k
    BY <1>1
  <2>4. Cardinality(below(Hi + 1)) >= k
    BY <2>2, <2>3, Zenon
  <2>5. Hi + 1 \in Nat
    BY <1>1
  <2> QED
    BY <2>4, <2>5, Zenon
<1>3. 0 \notin T
  <2>0. \A j \in S : ~ j < 0
    <3>1. \A j \in 0..Hi : ~ j < 0
      BY <1>1
    <3> QED
      BY <3>1
  <2>1. below(0) = {}
    BY <2>0, Zenon
  <2>2. Cardinality(below(0)) = 0
    BY <2>1, FS_EmptySet
  <2> QED
    BY <2>2
<1>4. PICK n \in T : n = 0 \/ (n - 1 \in Nat /\ n - 1 \notin T)
  <2>1. T \in SUBSET Nat
    OBVIOUS
  <2> HIDE DEF T
  <2> QED
    BY <1>2, <2>1, LeastNumber
<1> DEFINE i == n - 1
<1>5. i \in Nat /\ i + 1 = n /\ n \in Nat
  BY <1>3, <1>4
<1>6. /\ Cardinality(below(i)) \in Nat
      /\ Cardinality(below(n)) = IF i \in S THEN Cardinality(below(i)) + 1
                                            ELSE Cardinality(below(i))
  <2> DEFINE b == below(i)
             c == below(n)
  <2>1. b = {j \in S : j < i} /\ c = {j \in S : j < i + 1}
    BY <1>5
  <2> HIDE DEF b, c, i
  <2>2. /\ Cardinality(b) \in Nat
        /\ Cardinality(c) = IF i \in S THEN Cardinality(b) + 1 ELSE Cardinality(b)
    BY <1>1, <1>5, <2>1, OneMoreBelow
  <2> QED
    BY <2>2 DEF b, c
<1>7. Cardinality(below(n)) >= k /\ ~ Cardinality(below(i)) >= k
  BY <1>4, <1>5, <1>3
<1>8. i \in S /\ Cardinality(below(i)) = k - 1
  <2> DEFINE cb == Cardinality(below(i))
             cn == Cardinality(below(n))
  <2>1. /\ cb \in Nat
        /\ cn = IF i \in S THEN cb + 1 ELSE cb
        /\ cn >= k /\ ~ cb >= k
    BY <1>6, <1>7
  <2> HIDE DEF cb, cn, i
  <2>2. i \in S /\ cb = k - 1
    BY <2>1, <1>1
  <2> QED
    BY <2>2 DEF cb
<1>9. \E j \in S : Cardinality({m \in S : m < j}) = k - 1
  BY <1>8
<1>10. Ascending(S)[k] = CHOOSE j \in S : Cardinality({m \in S : m < j}) = k - 1
  BY DEF Ascending
<1> QED
  BY <1>9, <1>10

\* issueToNetwork stacks one packet of the kind for each index.
LEMMA MessagesAreItems ==
    ASSUME NEW kind \in {"r2r", "list"}, NEW S \in SUBSET (0..Hi)
    PROVE  /\ Cardinality(S) \in 0..(Hi + 1)
           /\ S # {} => Cardinality(S) > 0
           /\ Messages(kind, S) \in Seq(Item)
           /\ Len(Messages(kind, S)) = Cardinality(S)
           /\ \A k \in 1..Cardinality(S) : Messages(kind, S)[k].kind = kind
<1>1. Hi \in Nat
  BY WorkQueueAssumption
<1>2. IsFiniteSet(0..Hi) /\ Cardinality(0..Hi) = Hi + 1
  BY <1>1, FS_Interval
<1>3. Cardinality(S) \in 0..(Hi + 1)
  <2>1. IsFiniteSet(S) /\ Cardinality(S) <= Cardinality(0..Hi)
    BY <1>2, FS_Subset
  <2>2. Cardinality(S) \in Nat
    BY <2>1, FS_CardinalityType
  <2> QED
    BY <1>1, <1>2, <2>1, <2>2
<1>4. ASSUME NEW k \in 1..Cardinality(S)
      PROVE  Msg(kind, Ascending(S)[k]) \in Item /\ Msg(kind, Ascending(S)[k]).kind = kind
  <2>1. Ascending(S)[k] \in S
    BY AscendingInSet
  <2>2. \A i \in 0..Hi : i \in Receiver
    BY WorkQueueAssumption DEF Receiver
  <2>3. Ascending(S)[k] \in Receiver
    BY <2>1, <2>2
  <2> QED
    BY <2>3, MsgIsItem
<1>5. Messages(kind, S) = [k \in 1..Cardinality(S) |-> Msg(kind, Ascending(S)[k])]
  BY DEF Messages
<1>6. S # {} => Cardinality(S) > 0
  <2>1. IsFiniteSet(S)
    BY <1>2, FS_Subset
  <2> QED
    BY <1>1, <1>3, <2>1, FS_EmptySet
<1> QED
  BY <1>3, <1>4, <1>5, <1>6

\* An index is put off line by an exchange that is not routed only if somebody has
\* named it.
LEMMA NotRouted ==
    ASSUME NEW p \in Item, ~ Routed(p), \A r \in Requests \cup Foreign : r.dest \notin Index
    PROVE  Dest(p) \notin Index
<1>1. p.method # "none"
  BY DEF Routed
<1>2. p \in Requests \cup Foreign
  BY <1>1 DEF Item, Answer, Final, Msg
<1>3. CASE Dest(p) = Coord
  BY <1>3, WorkQueueAssumption DEF Coord, Index
<1>4. CASE p.method = "priority" /\ p.param \notin DOMAIN Priority
  BY <1>2, <1>4 DEF Dest, PriorityNode
<1> QED
  BY <1>1, <1>3, <1>4 DEF Routed

-----------------------------------------------------------------------------
(* The stack.                                                              *)

\* Packets of any kind on a stack that is idle, all of them to be dealt with; or
\* node lists, however many.
LEMMA WorkDone ==
    ASSUME StackOK, ListsBelow, Idle,
           NEW ps \in Seq(Item), NEW n \in Nat, Work(ps, n),
           Len(ps) <= n \/ \A k \in 1..Len(ps) : ps[k].kind = "list"
    PROVE  StackOK' /\ ListsBelow' /\ (n > 0 => todo' > 0 \/ Len(stack') < MaxItems)
<1> DEFINE room == MaxItems - Len(stack)
           m == IF Len(ps) < room THEN Len(ps) ELSE room
           fit == SubSeq(ps, 1, m)
<1>1. /\ MaxItems \in Nat \ {0}
      /\ Len(stack) \in Nat
      /\ Len(ps) \in Nat
  BY WorkQueueAssumption DEF StackOK
<1>2. /\ m \in Nat
      /\ m <= Len(ps)
      /\ Len(stack) + m <= MaxItems
  BY <1>1 DEF StackOK
<1>3. /\ fit \in Seq(Item)
      /\ Len(fit) = m
      /\ \A k \in 1..m : fit[k] = ps[k]
  BY <1>1, <1>2
<1>4. stack' = stack \o fit
  BY DEF Work, Pushed
<1> HIDE DEF fit, m
<1>5. /\ stack' \in Seq(Item)
      /\ Len(stack') = Len(stack) + m
      /\ \A k \in 1..Len(stack) : stack'[k] = stack[k]
      /\ \A k \in 1..m : stack'[Len(stack) + k] = ps[k]
  <2>1. /\ stack \o fit \in Seq(Item)
        /\ Len(stack \o fit) = Len(stack) + Len(fit)
        /\ \A k \in 1..Len(stack) + Len(fit) : (stack \o fit)[k] =
              IF k <= Len(stack) THEN stack[k] ELSE fit[k - Len(stack)]
    BY <1>3, ConcatProperties DEF StackOK
  <2>2. \A k \in 1..m : /\ Len(stack) + k \in 1..Len(stack) + Len(fit)
                        /\ ~ Len(stack) + k <= Len(stack)
                        /\ Len(stack) + k - Len(stack) = k
    BY <1>1, <1>2, <1>3
  <2>3. \A k \in 1..Len(stack) : k \in 1..Len(stack) + Len(fit) /\ k <= Len(stack)
    BY <1>1, <1>2, <1>3
  <2> QED
    BY <1>3, <1>4, <2>1, <2>2, <2>3
<1>6. todo' = (IF stack' = <<>> THEN 0 ELSE n)
  BY DEF Work
<1>7. StackOK'
  BY <1>1, <1>2, <1>5, <1>6 DEF StackOK
<1>8. \A k \in 1..Len(stack) : stack[k].kind = "list"
  BY <1>1 DEF ListsBelow, Idle
<1>9. ListsBelow'
  <2> SUFFICES ASSUME NEW k \in 1..Len(stack'), k <= Len(stack') - todo'
               PROVE  stack'[k].kind = "list"
    BY DEF ListsBelow
  <2>1. CASE k <= Len(stack)
    BY <2>1, <1>1, <1>5, <1>8
  <2>2. CASE k > Len(stack)
    <3>1. /\ k - Len(stack) \in 1..m
          /\ stack'[k] = ps[k - Len(stack)]
      <4>1. k - Len(stack) \in 1..m
        BY <2>2, <1>1, <1>2, <1>5
      <4>2. stack'[Len(stack) + (k - Len(stack))] = ps[k - Len(stack)]
        BY <4>1, <1>5
      <4> QED
        BY <4>1, <4>2, <1>1
    <3>2. todo' = n
      BY <1>1, <1>2, <1>5, <1>6
    <3>3. ~ Len(ps) <= n
      BY <3>1, <3>2, <1>1, <1>2, <1>5
    <3> QED
      BY <3>1, <3>3, <1>1, <1>2
  <2> QED
    BY <2>1, <2>2, <1>1, <1>5
<1>10. n > 0 => todo' > 0 \/ Len(stack') < MaxItems
  BY <1>1, <1>5, <1>6
<1> QED
  BY <1>7, <1>9, <1>10

LEMMA FrontOfSeq ==
    ASSUME NEW s \in Seq(Item), s # <<>>
    PROVE  /\ Len(s) \in Nat \ {0}
           /\ Front(s) \in Seq(Item)
           /\ Len(Front(s)) = Len(s) - 1
           /\ \A k \in 1..(Len(s) - 1) : Front(s)[k] = s[k]
<1>1. Len(s) \in Nat \ {0}
  OBVIOUS
<1>2. \A k \in 1..(Len(s) - 1) : s[k] \in Item
  BY <1>1
<1> DEFINE front == SubSeq(s, 1, Len(s) - 1)
<1>3. /\ front \in Seq(Item)
      /\ Len(front) = IF 1 <= Len(s) - 1 THEN Len(s) - 1 - 1 + 1 ELSE 0
      /\ \A i \in 1..(Len(s) - 1 - 1 + 1) : front[i] = s[1 + i - 1]
  BY <1>1, <1>2, SubSeqProperties
<1>4. Front(s) = front
  BY DEF Front
<1> HIDE DEF front
<1>5. Len(front) = Len(s) - 1
  <2>1. CASE Len(s) = 1
    BY <1>3, <2>1
  <2>2. CASE Len(s) > 1
    BY <1>1, <1>3, <2>2
  <2>3. Len(s) = 1 \/ Len(s) > 1
    BY <1>1
  <2> QED
    BY <2>1, <2>2, <2>3, Zenon
<1>6. ASSUME NEW k \in 1..(Len(s) - 1)
      PROVE  front[k] = s[k]
  <2>1. k \in 1..(Len(s) - 1 - 1 + 1) /\ 1 + k - 1 = k
    BY <1>1
  <2> QED
    BY <1>3, <2>1
<1> QED
  BY <1>1, <1>3, <1>4, <1>5, <1>6

LEMMA AppendToSeq ==
    ASSUME NEW s \in Seq(Item), NEW p \in Item
    PROVE  /\ Append(s, p) \in Seq(Item)
           /\ Len(Append(s, p)) = Len(s) + 1
           /\ \A k \in 1..Len(s) : Append(s, p)[k] = s[k]
OBVIOUS

LEMMA Popped ==
    ASSUME StackOK, ListsBelow, todo > 0, Pop
    PROVE  StackOK' /\ ListsBelow' /\ Len(stack') < MaxItems
<1>1. stack # <<>> /\ Len(stack) \in Nat \ {0} /\ MaxItems \in Nat
  BY WorkQueueAssumption DEF StackOK
<1>2. /\ stack' \in Seq(Item)
      /\ Len(stack') = Len(stack) - 1
      /\ \A k \in 1..Len(stack') : stack'[k] = stack[k]
  BY <1>1, FrontOfSeq DEF Pop, StackOK
<1>3. todo' = (IF Len(stack) = 1 THEN 0 ELSE todo - 1)
  BY DEF Pop
<1>4. StackOK' /\ Len(stack') < MaxItems
  BY <1>1, <1>2, <1>3 DEF StackOK
<1>5. ListsBelow'
  BY <1>1, <1>2, <1>3 DEF ListsBelow, StackOK
<1> QED
  BY <1>4, <1>5

LEMMA TopIsItem ==
    ASSUME StackOK, todo > 0
    PROVE  Top \in Item
BY DEF Top, Last, StackOK

-----------------------------------------------------------------------------
(* Every step keeps the invariant.                                         *)

\* The node of the packet on top depends on the stack and the list alone.
LEMMA SameTop ==
    ASSUME UNCHANGED <<stack, list, highest>>
    PROVE  At' = At
BY DEF At, Top, Last, Dest, PriorityNode, NodeIdOfType

LEMMA SendCopyKeeps ==
    ASSUME IInv, SendCopy
    PROVE  IInv'
<1>1. UNCHANGED <<list, highest, off, stack, todo, pc, alive, sub>>
  BY DEF SendCopy, table
<1>2. StackOK' /\ TableOK' /\ ListsBelow' /\ RoomForOne'
  BY <1>1 DEF IInv, StackOK, TableOK, ListsBelow, RoomForOne, Idle
<1>3. tries' = tries + 1 /\ todo > 0 /\ At' = At
  BY <1>1, SameTop DEF SendCopy, ToDevice
<1>4. /\ mishaps' \in Nat /\ mishaps' >= mishaps
      /\ late' \in Answer \cup {NoPacket}
      /\ inbox' \in Seq(Answer)
      /\ At' \in alive' \cap list' /\ inbox' = <<>> => tries' <= mishaps'
  <2>0. tries \in Nat /\ mishaps \in Nat /\ (tries > 0 => inbox = <<>>)
    BY DEF SendCopy, IInv, LineOK
  <2>1. CASE \E a \in Answers(Top) : inbox' = Append(inbox, a) /\ UNCHANGED <<late, mishaps>>
    <3> PICK a \in Answers(Top) : inbox' = Append(inbox, a)
      BY <2>1
    <3>1. a \in Answer
      BY AnswersAreAnswers
    <3>2. inbox' \in Seq(Answer) /\ inbox' # <<>>
      BY <3>1 DEF IInv, LineOK
    <3> QED
      BY <2>0, <2>1, <3>2 DEF IInv, LineOK
  <2>2. CASE At \notin (alive \cap list) /\ UNCHANGED <<inbox, late, mishaps>>
    BY <1>1, <1>3, <2>0, <2>2 DEF IInv, LineOK
  <2>3. CASE /\ mishaps' = mishaps + 1
             /\ late' \in Answers(Top) \cup {NoPacket}
             /\ UNCHANGED inbox
    <3>1. late' \in Answer \cup {NoPacket}
      BY <2>3, AnswersAreAnswers
    <3>2. At \in alive \cap list /\ inbox = <<>> => tries <= mishaps
      BY DEF IInv, CopiesInVain
    <3> QED
      BY <1>1, <1>3, <2>0, <2>3, <3>1, <3>2 DEF IInv, LineOK
  <2> QED
    BY <2>1, <2>2, <2>3 DEF SendCopy
<1>5. LineOK' /\ CopiesInVain'
  BY <1>1, <1>3, <1>4 DEF IInv, StackOK, LineOK, CopiesInVain, Idle
<1>6. Trusted'
  BY <1>1, <1>4, WorkQueueAssumption DEF IInv, LineOK, Trusted
<1> QED
  BY <1>2, <1>5, <1>6 DEF IInv

\* What is left to show when the table, the devices and the step of the cycle are
\* as they were.
LEMMA StackOnly ==
    ASSUME IInv, StackOK', ListsBelow', LineOK', tries' = 0,
           todo' > 0 \/ Len(stack') < MaxItems,
           UNCHANGED <<table, pc, alive, mishaps>>
    PROVE  IInv'
<1>1. TableOK' /\ Trusted'
  BY DEF IInv, TableOK, Trusted, table
<1>2. RoomForOne'
  BY DEF IInv, RoomForOne, Idle
<1>3. CopiesInVain'
  BY DEF LineOK, CopiesInVain
<1> QED
  BY <1>1, <1>2, <1>3 DEF IInv

LEMMA TakeAnswerKeeps ==
    ASSUME IInv, TakeAnswer
    PROVE  IInv'
<1>1. /\ todo > 0 /\ inbox \in Seq(Answer) /\ inbox # <<>>
      /\ inbox' = Tail(inbox) /\ Head(inbox) \in Item /\ Tail(inbox) \in Seq(Answer)
      /\ UNCHANGED <<table, pc, alive, late, sub, mishaps>>
      /\ tries' = 0
  <2>1. todo > 0 /\ inbox \in Seq(Answer) /\ inbox # <<>> /\ inbox' = Tail(inbox)
    BY DEF IInv, LineOK, TakeAnswer
  <2>2. Head(inbox) \in Answer /\ Tail(inbox) \in Seq(Answer)
    BY <2>1
  <2>3. Head(inbox) \in Item
    BY <2>2, AnswersAreItems
  <2>4. UNCHANGED <<table, pc, alive, late, sub, mishaps>> /\ tries' = 0
    BY DEF TakeAnswer, Pop, env
  <2> QED
    BY <2>1, <2>2, <2>3, <2>4
<1>2. LineOK'
  BY <1>1 DEF IInv, LineOK
<1>3. CASE Completes(Top, Head(inbox))
  <2>1. Pop
    BY <1>3 DEF TakeAnswer
  <2>2. StackOK' /\ ListsBelow' /\ Len(stack') < MaxItems
    BY <1>1, <2>1, Popped DEF IInv
  <2> QED
    BY <1>1, <1>2, <2>2, StackOnly
<1>4. CASE ~ Completes(Top, Head(inbox))
  <2>1. stack' = Append(Front(stack), Head(inbox)) /\ todo' = todo
    BY <1>4 DEF TakeAnswer
  <2>2. stack \in Seq(Item) /\ Len(stack) \in Nat \ {0}
    BY <1>1 DEF IInv, StackOK
  <2>3. /\ Front(stack) \in Seq(Item)
        /\ Len(Front(stack)) = Len(stack) - 1
        /\ \A k \in 1..(Len(stack) - 1) : Front(stack)[k] = stack[k]
    BY <2>2, FrontOfSeq
  <2>4. /\ stack' \in Seq(Item)
        /\ Len(stack') = Len(stack)
        /\ \A k \in 1..(Len(stack) - 1) : stack'[k] = stack[k]
    BY <1>1, <2>1, <2>2, <2>3, AppendToSeq
  <2>5. StackOK'
    BY <2>1, <2>2, <2>4 DEF IInv, StackOK
  <2>6. ListsBelow'
    <3> SUFFICES ASSUME NEW k \in 1..Len(stack'), k <= Len(stack') - todo'
                 PROVE  stack'[k].kind = "list"
      BY DEF ListsBelow
    <3>1. k \in 1..(Len(stack) - 1) /\ k \in 1..Len(stack) /\ k <= Len(stack) - todo
      BY <1>1, <2>1, <2>2, <2>4 DEF IInv, StackOK
    <3> QED
      BY <2>4, <3>1 DEF IInv, ListsBelow
  <2> QED
    BY <1>1, <1>2, <2>1, <2>5, <2>6, StackOnly
<1> QED
  BY <1>3, <1>4

LEMMA PutOffLineTrusted ==
    ASSUME IInv, NEW i, PutOffLine(i), UNCHANGED <<list, highest, alive, mishaps>>,
           mishaps < Attempts /\ (\A p \in Requests \cup Foreign : p.dest \notin Index)
             => i \notin list \cap Index \cap alive
    PROVE  TableOK' /\ Trusted'
<1>1. TableOK'
  BY DEF IInv, TableOK, PutOffLine
<1>2. Trusted'
  BY DEF IInv, Trusted, PutOffLine
<1> QED
  BY <1>1, <1>2

\* What is left to show when an exchange ends without a response.
LEMMA PoppedKeeps ==
    ASSUME IInv, todo > 0, Pop, TableOK', Trusted',
           UNCHANGED <<pc, inbox, late, sub, mishaps>>
    PROVE  IInv'
<1>1. StackOK' /\ ListsBelow' /\ Len(stack') < MaxItems
  BY Popped DEF IInv
<1>2. LineOK' /\ CopiesInVain'
  BY DEF Pop, IInv, LineOK, CopiesInVain
<1>3. RoomForOne'
  BY <1>1 DEF RoomForOne
<1> QED
  BY <1>1, <1>2, <1>3 DEF IInv

LEMMA NoAnswerKeeps ==
    ASSUME IInv, NoAnswer
    PROVE  IInv'
<1>1. /\ todo > 0 /\ PutOffLine(At) /\ Pop
      /\ UNCHANGED <<list, highest, pc, inbox, alive, late, sub, mishaps>>
  BY DEF NoAnswer, env
<1>2. ASSUME mishaps < Attempts, \A p \in Requests \cup Foreign : p.dest \notin Index,
             At \in list \cap Index \cap alive
      PROVE  FALSE
  <2>1. CASE ~ Routed(Top)
    <3>1. Top \in Item
      BY <1>1, TopIsItem DEF IInv
    <3> QED
      BY <1>2, <2>1, <3>1, NotRouted DEF At
  <2>2. CASE At \notin (list \ off)
    BY <1>2, <2>2 DEF IInv, Trusted
  <2>3. CASE tries = Attempts /\ inbox = <<>>
    BY <1>2, <2>3, WorkQueueAssumption DEF IInv, CopiesInVain, LineOK
  <2> QED
    BY <2>1, <2>2, <2>3 DEF NoAnswer
<1>3. TableOK' /\ Trusted'
  BY <1>1, <1>2, PutOffLineTrusted
<1> QED
  BY <1>1, <1>3, PoppedKeeps

LEMMA AskSubordinateKeeps ==
    ASSUME IInv, AskSubordinate
    PROVE  IInv'
<1>1. /\ todo > 0 /\ Pop
      /\ UNCHANGED <<list, highest, pc, inbox, alive, late, sub, mishaps>>
  BY DEF AskSubordinate, env
<1>2. TableOK' /\ Trusted'
  <2>1. CASE Top.kind = "r2r" /\ sub # NoPacket
    <3>1. PutOffLine(sub.dest) /\ sub \in Requests
      BY <2>1 DEF AskSubordinate, IInv, LineOK
    <3> QED
      BY <1>1, <3>1, PutOffLineTrusted
  <2>2. CASE ~ (Top.kind = "r2r" /\ sub # NoPacket)
    BY <1>1, <2>2 DEF AskSubordinate, IInv, TableOK, Trusted
  <2> QED
    BY <2>1, <2>2
<1> QED
  BY <1>1, <1>2, PoppedKeeps

\* What is left to show of a step of loopServer that stacks packets.
LEMMA WorkKeeps ==
    ASSUME IInv, Idle, LineOK', TableOK', Trusted',
           NEW ps \in Seq(Item), NEW n \in Nat, Work(ps, n),
           Len(ps) <= n \/ \A k \in 1..Len(ps) : ps[k].kind = "list",
           n > 0 \/ pc' \in {"top", "seek", "primary"}
    PROVE  IInv'
<1>1. StackOK' /\ ListsBelow' /\ (n > 0 => todo' > 0 \/ Len(stack') < MaxItems)
  BY WorkDone DEF IInv
<1>2. tries' = 0
  BY DEF Work, IInv, CopiesInVain
<1>3. CopiesInVain'
  BY <1>2 DEF CopiesInVain, LineOK
<1>4. RoomForOne'
  BY <1>1 DEF RoomForOne, Idle
<1> QED
  BY <1>1, <1>3, <1>4 DEF IInv

\* What is left to show of one that does not.
LEMMA NoWorkKeeps ==
    ASSUME IInv, Idle, UNCHANGED work, LineOK', TableOK', Trusted',
           pc' \in {"top", "seek", "primary"} \/ Len(stack) < MaxItems
    PROVE  IInv'
<1>1. UNCHANGED <<stack, todo, tries>>
  BY DEF work
<1>2. StackOK' /\ ListsBelow' /\ RoomForOne' /\ CopiesInVain'
  BY <1>1 DEF IInv, StackOK, ListsBelow, RoomForOne, CopiesInVain, LineOK, Idle
<1> QED
  BY <1>2 DEF IInv

LEMMA OneR2R ==
    ASSUME NEW i \in Receiver
    PROVE  <<Msg("r2r", i)>> \in Seq(Item) /\ Len(<<Msg("r2r", i)>>) = 1
<1>1. Msg("r2r", i) \in Item
  BY MsgIsItem
<1> QED
  BY <1>1

LEMMA ConsumeKeeps ==
    ASSUME IInv, Consume, UNCHANGED <<late, sub, tries, mishaps>>
    PROVE  LineOK'
BY DEF IInv, LineOK, Consume

\* A step of the cycle that offers, asks or waits.
LEMMA AskKeeps ==
    ASSUME IInv, AskPrimary \/ OfferToken \/ AskRolled \/ AskVrtSub \/ AnyOther
    PROVE  IInv'
<1>1. Idle /\ UNCHANGED <<list, highest, off, inbox, alive, late, sub, mishaps>>
  BY DEF AskPrimary, OfferToken, AskRolled, AskVrtSub, AnyOther, table, env
<1>2. TableOK' /\ Trusted'
  BY <1>1 DEF IInv, TableOK, Trusted
<1>3. ASSUME NEW i \in Receiver, Work(<<Msg("r2r", i)>>, 1)
      PROVE  IInv'
  <2>1. LineOK'
    BY <1>1, <1>3 DEF IInv, LineOK, Work
  <2> DEFINE ps == <<Msg("r2r", i)>>
  <2>2. ps \in Seq(Item) /\ Len(ps) <= 1
    BY OneR2R
  <2>3. Work(ps, 1)
    BY <1>3
  <2> HIDE DEF ps
  <2> QED
    BY <1>1, <1>2, <2>1, <2>2, <2>3, WorkKeeps
<1>4. CASE AskPrimary \/ AskVrtSub
  BY <1>3, <1>4, Destinations DEF AskPrimary, AskVrtSub
<1>5. CASE OfferToken
  BY <1>3, <1>5, Destinations DEF OfferToken
<1>6. CASE AskRolled
  <2>1. CASE \E i \in Net2 : Work(<<Msg("r2r", i)>>, 1)
    <3>1. Net2 \subseteq Receiver
      BY WorkQueueAssumption DEF IInv, TableOK, Net2, Receiver
    <3> QED
      BY <1>3, <2>1, <3>1
  <2>2. CASE UNCHANGED work
    <3>1. LineOK'
      BY <1>1, <2>2 DEF IInv, LineOK, work
    <3>2. Len(stack) < MaxItems
      BY <1>1, <1>6 DEF AskRolled, IInv, RoomForOne
    <3> QED
      BY <1>1, <1>2, <2>2, <3>1, <3>2, NoWorkKeeps
  <2> QED
    BY <1>6, <2>1, <2>2 DEF AskRolled
<1>7. CASE AnyOther
  <2> DEFINE ps == <<>>
  <2>1. Work(ps, 1)
    BY <1>7 DEF AnyOther
  <2>2. LineOK'
    BY <1>1, <2>1 DEF IInv, LineOK, Work
  <2>3. ps \in Seq(Item) /\ Len(ps) <= 1
    OBVIOUS
  <2> HIDE DEF ps
  <2> QED
    BY <1>1, <1>2, <2>1, <2>2, <2>3, WorkKeeps
<1> QED
  BY <1>4, <1>5, <1>6, <1>7

LEMMA WaitKeeps ==
    ASSUME IInv, NobodyNew \/ EndTokens
    PROVE  IInv'
<1>1. /\ Idle
      /\ UNCHANGED work
      /\ UNCHANGED <<list, highest, off, tries, alive, late, sub, mishaps>>
      /\ Consume \/ UNCHANGED inbox
  BY DEF NobodyNew, EndTokens, table, env, work
<1>2. TableOK' /\ Trusted'
  BY <1>1 DEF IInv, TableOK, Trusted
<1>3. LineOK'
  BY <1>1, ConsumeKeeps DEF IInv, LineOK
<1>4. pc' \in {"top", "seek", "primary"} \/ Len(stack) < MaxItems
  BY <1>1 DEF NobodyNew, EndTokens, IInv, RoomForOne
<1> QED
  BY <1>1, <1>2, <1>3, <1>4, NoWorkKeeps

\* The indexes issueToNetwork goes to.
LEMMA ReceiversListed ==
    ASSUME NEW net1 \in SUBSET (0..Hi), NEW S \in {zero \cup net1 : zero \in SUBSET {0}}
    PROVE  S \in SUBSET (0..Hi) /\ (net1 # {} => S # {})
<1>1. 0 \in 0..Hi
  BY WorkQueueAssumption
<1> QED
  BY <1>1

LEMMA IssueKeeps ==
    ASSUME IInv, Idle, NEW kind \in {"r2r", "list"}, Issue(kind), LineOK', TableOK', Trusted',
           Net1' # {} \/ pc' = "top"
    PROVE  IInv'
<1> PICK S \in Receivers' : Work(Messages(kind, S), Cardinality(S))
  BY DEF Issue
<1>1. Net1' \in SUBSET (0..Hi)
  BY DEF TableOK, Net1
<1>2. S \in SUBSET (0..Hi) /\ (Net1' # {} => S # {})
  BY <1>1, ReceiversListed DEF Receivers
<1>3. /\ Messages(kind, S) \in Seq(Item)
      /\ Cardinality(S) \in Nat
      /\ Len(Messages(kind, S)) <= Cardinality(S)
      /\ Cardinality(S) > 0 \/ pc' = "top"
  <2>1. /\ Cardinality(S) \in 0..(Hi + 1)
        /\ S # {} => Cardinality(S) > 0
        /\ Messages(kind, S) \in Seq(Item)
        /\ Len(Messages(kind, S)) = Cardinality(S)
    BY <1>2, MessagesAreItems
  <2>2. \A c \in 0..(Hi + 1) : c \in Nat /\ c <= c
    BY WorkQueueAssumption
  <2> QED
    BY <1>2, <2>1, <2>2
<1> QED
  BY <1>3, WorkKeeps

LEMMA EnrolKeeps ==
    ASSUME IInv, NEW i \in Index, Enrol(i)
    PROVE  IInv'
<1>1. /\ Idle /\ Consume /\ pc' = "top"
      /\ list' = list \cup {i} /\ highest' = (IF i > highest THEN i ELSE highest)
      /\ off' \subseteq off
      /\ UNCHANGED <<alive, late, sub, mishaps>>
  BY DEF Enrol, env
<1>2. TableOK'
  BY <1>1, WorkQueueAssumption DEF IInv, TableOK, Index
<1>3. tries' = tries
  BY DEF Enrol, Issue, Work, work
<1>4. LineOK'
  BY <1>1, <1>3, ConsumeKeeps
<1>5. Trusted'
  BY <1>1 DEF IInv, Trusted
<1>6. CASE Issue("list")
  BY <1>1, <1>2, <1>4, <1>5, <1>6, IssueKeeps
<1>7. CASE UNCHANGED work
  BY <1>1, <1>2, <1>4, <1>5, <1>7, NoWorkKeeps
<1> QED
  BY <1>6, <1>7 DEF Enrol

LEMMA AskNet2Keeps ==
    ASSUME IInv, AskNet2
    PROVE  IInv'
<1>1. Idle /\ UNCHANGED <<list, highest, off, inbox, alive, late, sub, mishaps>>
  BY DEF AskNet2, table, env
<1>2. TableOK' /\ Trusted' /\ Net1' = Net1
  BY <1>1 DEF IInv, TableOK, Trusted, Net1
<1>3. LineOK'
  BY <1>1 DEF AskNet2, IInv, LineOK, Issue, Work, work
<1>4. CASE Net1 = {}
  <2>1. UNCHANGED work /\ Len(stack) < MaxItems
    BY <1>1, <1>4 DEF AskNet2, IInv, RoomForOne
  <2> QED
    BY <1>1, <1>2, <1>3, <2>1, NoWorkKeeps
<1>5. CASE Net1 # {}
  <2>1. Issue("r2r")
    BY <1>5 DEF AskNet2
  <2> QED
    BY <1>1, <1>2, <1>3, <1>5, <2>1, IssueKeeps
<1> QED
  BY <1>4, <1>5

LEMMA StartCycleKeeps ==
    ASSUME IInv, StartCycle
    PROVE  IInv'
<1> DEFINE gone == off \cap list \cap 1..highest
           top == highest - 1 \in gone
<1>1. /\ Idle /\ Consume
      /\ list' = list \ (IF top THEN gone \ {highest} ELSE gone)
      /\ highest' = IF top THEN highest - 1 ELSE highest
      /\ off' = off \cap list'
      /\ pc' \in {"primary", "seek"}
      /\ UNCHANGED <<alive, late, sub, mishaps>>
  BY DEF StartCycle, env
<1>2. TableOK'
  <2>1. highest' \in 0..Hi
    BY <1>1, WorkQueueAssumption DEF IInv, TableOK
  <2> QED
    BY <1>1, <2>1 DEF IInv, TableOK
<1>3. Trusted'
  BY <1>1 DEF IInv, Trusted
<1>4. tries' = tries
  BY DEF StartCycle, Work, work
<1>5. LineOK'
  BY <1>1, <1>4, ConsumeKeeps
<1>6. CASE UNCHANGED work
  BY <1>1, <1>2, <1>3, <1>5, <1>6, NoWorkKeeps
<1>7. CASE \E S \in Receivers' : Work(Messages("list", S), 0)
  <2> PICK S \in Receivers' : Work(Messages("list", S), 0)
    BY <1>7
  <2>1. Net1' \in SUBSET (0..Hi)
    BY <1>2 DEF TableOK, Net1
  <2>2. S \in SUBSET (0..Hi)
    BY <2>1, ReceiversListed DEF Receivers
  <2>3. /\ Messages("list", S) \in Seq(Item)
        /\ \A k \in 1..Len(Messages("list", S)) : Messages("list", S)[k].kind = "list"
    BY <2>2, MessagesAreItems
  <2> QED
    BY <1>1, <1>2, <1>3, <1>5, <2>3, WorkKeeps
<1> QED
  BY <1>6, <1>7 DEF StartCycle

LEMMA DevicesKeep ==
    ASSUME IInv,
           (\E i \in Index : Die(i) \/ Return(i)) \/ LateArrives \/ SubordinateSpeaks
    PROVE  IInv'
<1>1. UNCHANGED <<list, highest, off, stack, todo, tries, pc>>
  BY DEF Die, Return, LateArrives, SubordinateSpeaks, table, work
<1>2. StackOK' /\ TableOK' /\ ListsBelow' /\ RoomForOne' /\ At' = At
  BY <1>1, SameTop DEF IInv, StackOK, TableOK, ListsBelow, RoomForOne, Idle
<1>3. CASE \E i \in Index : Die(i)
  BY <1>1, <1>2, <1>3, WorkQueueAssumption
     DEF IInv, Die, LineOK, CopiesInVain, Trusted, Idle
<1>4. CASE \E i \in Index : Return(i)
  BY <1>1, <1>2, <1>4
     DEF IInv, Return, LineOK, TableOK, CopiesInVain, Trusted, Idle
<1>5. CASE LateArrives
  <2>1. /\ late \in Answer /\ inbox' = Append(inbox, late) /\ late' = NoPacket
        /\ UNCHANGED <<alive, sub, mishaps>>
    BY <1>5 DEF IInv, LineOK, LateArrives
  <2>2. inbox' \in Seq(Answer) /\ inbox' # <<>>
    BY <2>1 DEF IInv, LineOK
  <2> QED
    BY <1>1, <1>2, <2>1, <2>2 DEF IInv, LineOK, CopiesInVain, Trusted, Idle
<1>6. CASE SubordinateSpeaks
  BY <1>1, <1>2, <1>6
     DEF IInv, SubordinateSpeaks, LineOK, CopiesInVain, Trusted, Idle
<1> QED
  BY <1>3, <1>4, <1>5, <1>6

LEMMA RestartKeeps ==
    ASSUME IInv, Restart
    PROVE  IInv'
<1>1. Item # {} /\ <<>> \in Seq(Item) /\ Len(<<>>) = 0
  BY MsgIsItem, Destinations
<1> QED
  BY <1>1, WorkQueueAssumption
     DEF IInv, Restart, env, StackOK, LineOK, TableOK, ListsBelow, RoomForOne, CopiesInVain,
         Trusted, Idle

-----------------------------------------------------------------------------
(* The theorems.                                                           *)

LEMMA Initially == Init => IInv
<1> SUFFICES ASSUME Init
             PROVE  IInv
  OBVIOUS
<1>1. <<>> \in Seq(Item) /\ Len(<<>>) = 0
  OBVIOUS
<1> QED
  BY <1>1, WorkQueueAssumption
     DEF IInv, Init, StackOK, LineOK, TableOK, ListsBelow, RoomForOne, CopiesInVain,
         Trusted, Idle

LEMMA StepKeeps == IInv /\ [Next]_vars => IInv'
<1> SUFFICES ASSUME IInv, [Next]_vars
             PROVE  IInv'
  OBVIOUS
<1>1. CASE Coordinator
  BY <1>1, SendCopyKeeps, TakeAnswerKeeps, NoAnswerKeeps, AskSubordinateKeeps,
     StartCycleKeeps, AskKeeps, WaitKeeps, AskNet2Keeps DEF Coordinator, Route
<1>2. CASE \E i \in Index : Enrol(i)
  BY <1>2, EnrolKeeps
<1>3. CASE (\E i \in Index : Die(i) \/ Return(i)) \/ LateArrives \/ SubordinateSpeaks
  BY <1>3, DevicesKeep
<1>4. CASE Restart
  BY <1>4, RestartKeeps
<1>5. CASE UNCHANGED vars
  <2>1. UNCHANGED <<list, highest, off, stack, todo, tries, pc, inbox, alive, late, sub, mishaps>>
    BY <1>5 DEF vars, table, work, env
  <2>2. At' = At
    BY <2>1, SameTop
  <2> QED
    BY <2>1, <2>2 DEF IInv, StackOK, LineOK, TableOK, ListsBelow, RoomForOne, CopiesInVain,
                      Trusted, Idle
<1> QED
  BY <1>1, <1>2, <1>3, <1>4, <1>5 DEF Next

\* pushWork and doWork keep the stack within DEFAULT_MAXITEMS and lose no track of
\* what they are to deal with, whatever order loopServer calls them in.
THEOREM WorkInvariant == Spec => []IInv
<1>1. Init => IInv
  BY Initially
<1>2. IInv /\ [Next]_vars => IInv'
  BY StepKeeps
<1> QED
  BY <1>1, <1>2, PTL DEF Spec

\* The counters and the devices, which the other invariants do not bound.
Bounds ==
    /\ off \subseteq Index
    /\ alive \subseteq Index
    /\ pc \in Pc
    /\ tries \in 0..Attempts
    /\ turns \in 0..Loops
    /\ mishaps \in 0..MaxMishaps

\* No copy is sent beyond the last, no token is offered beyond the last, and what is
\* enrolled or put off line has an index of a device.
LEMMA BoundsKept ==
    ASSUME Bounds, [Next]_vars
    PROVE  Bounds'
<1>1. /\ Attempts \in Nat \ {0} /\ Loops \in Nat \ {0} /\ MaxMishaps \in Nat
      /\ tries \in Nat /\ turns \in Nat /\ mishaps \in Nat
  BY WorkQueueAssumption DEF Bounds
<1>2. ASSUME NEW ps, NEW n, Work(ps, n)
      PROVE  tries' = tries
  BY <1>2 DEF Work
<1>3. CASE SendCopy
  <2>1. tries' = tries + 1 /\ (tries = 0 \/ tries < Attempts)
    BY <1>3 DEF SendCopy
  <2>2. tries' \in 0..Attempts
    BY <1>1, <2>1
  <2>3. mishaps' = mishaps \/ (mishaps < MaxMishaps /\ mishaps' = mishaps + 1)
    BY <1>3 DEF SendCopy
  <2>4. mishaps' \in 0..MaxMishaps
    BY <1>1, <2>3 DEF Bounds
  <2> QED
    BY <1>3, <2>2, <2>4 DEF SendCopy, Bounds, table
<1>4. CASE TakeAnswer \/ NoAnswer \/ AskSubordinate
  <2>1. tries' = 0 /\ UNCHANGED <<alive, pc, turns, mishaps>>
    BY <1>4 DEF TakeAnswer, NoAnswer, AskSubordinate, Pop, env
  <2>2. off' = off \/ \E i : PutOffLine(i)
    BY <1>4 DEF TakeAnswer, NoAnswer, AskSubordinate, table
  <2>3. off' \subseteq Index
    BY <2>2 DEF PutOffLine, Bounds
  <2> QED
    BY <1>1, <2>1, <2>3 DEF Bounds
<1>5. CASE StartCycle
  <2>1. /\ tries' = tries /\ turns' = 0 /\ off' \subseteq off /\ pc' \in Pc
        /\ UNCHANGED <<alive, mishaps>>
    BY <1>2, <1>5 DEF StartCycle, work, env, Pc
  <2> QED
    BY <1>1, <2>1 DEF Bounds
<1>6. CASE AskPrimary \/ NobodyNew \/ EndTokens \/ AskRolled \/ AskVrtSub \/ AnyOther
  <2>1. tries' = tries /\ UNCHANGED <<off, turns, alive, mishaps>>
    BY <1>2, <1>6 DEF AskPrimary, NobodyNew, EndTokens, AskRolled, AskVrtSub, AnyOther,
                      table, work, env
  <2>2. pc' \in Pc
    BY <1>6 DEF AskPrimary, NobodyNew, EndTokens, AskRolled, AskVrtSub, AnyOther, Pc
  <2> QED
    BY <2>1, <2>2 DEF Bounds
<1>7. CASE OfferToken
  <2>1. /\ tries' = tries /\ turns' = turns + 1 /\ turns < Loops
        /\ UNCHANGED <<off, pc, alive, mishaps>>
    BY <1>2, <1>7 DEF OfferToken, table, env
  <2>2. turns' \in 0..Loops
    BY <1>1, <2>1
  <2> QED
    BY <2>1, <2>2 DEF Bounds
<1>8. CASE AskNet2
  <2>1. tries' = tries /\ UNCHANGED <<off, turns, alive, mishaps>> /\ pc' \in Pc
    BY <1>2, <1>8 DEF AskNet2, Issue, table, work, env, Pc
  <2> QED
    BY <2>1 DEF Bounds
<1>9. CASE \E i \in Index : Enrol(i)
  <2>1. /\ tries' = tries /\ off' \subseteq off /\ pc' \in Pc
        /\ UNCHANGED <<turns, alive, mishaps>>
    BY <1>2, <1>9 DEF Enrol, Issue, work, env, Pc
  <2> QED
    BY <2>1 DEF Bounds
<1>10. CASE \E i \in Index : Die(i)
  <2>1. /\ UNCHANGED <<off, tries, pc, turns>> /\ alive' \subseteq alive
        /\ mishaps < MaxMishaps /\ mishaps' = mishaps + 1
    BY <1>10 DEF Die, table, work
  <2>2. mishaps' \in 0..MaxMishaps
    BY <1>1, <2>1
  <2> QED
    BY <2>1, <2>2 DEF Bounds
<1>11. CASE \E i \in Index : Return(i)
  BY <1>11 DEF Return, Bounds, table, work
<1>12. CASE LateArrives \/ SubordinateSpeaks
  BY <1>12 DEF LateArrives, SubordinateSpeaks, Bounds, table, work
<1>13. CASE Restart
  BY <1>1, <1>13 DEF Restart, Bounds, Pc, env
<1>14. CASE UNCHANGED vars
  BY <1>14 DEF vars, table, work, env, Bounds
<1> QED
  BY <1>3, <1>4, <1>5, <1>6, <1>7, <1>8, <1>9, <1>10, <1>11, <1>12, <1>13, <1>14
     DEF Next, Coordinator, Route

\* Whatever is stacked, sent or answered is a packet for an address of one byte.
LEMMA ItemsArePackets == Item \subseteq Packet
<1>1. Requests \subseteq Packet /\ Foreign \subseteq Packet
  BY WorkQueueAssumption
<1>2. \A kind \in Kind, dest \in Receiver : Msg(kind, dest) \in Packet
  BY DEF Msg, Packet, Receiver, Method
<1>3. Coord \in Receiver /\ {"r2r", "list", "ack", "listack", "response"} \subseteq Kind
  BY Destinations DEF Kind
<1> QED
  BY <1>1, <1>2, <1>3 DEF Item, Answer, Final

\* Every packet that issueToNetwork, routePacket or a device makes is well formed, each
\* exchange sends at most MSG_RESEND_ATTEMPTS copies, each cycle offers at most
\* R2R_LOOPS_PERDATACYCLE tokens, and only indexes of devices are put off line.
THEOREM TypeCorrect == Spec => []TypeOK
<1>1. Init => Bounds
  BY WorkQueueAssumption DEF Init, Bounds, Pc
<1>2. Bounds /\ [Next]_vars => Bounds'
  BY BoundsKept
<1>3. IInv /\ Bounds => TypeOK
  <2> SUFFICES ASSUME IInv, Bounds
               PROVE  TypeOK
    OBVIOUS
  <2>1. stack \in Seq(Packet)
    BY ItemsArePackets DEF IInv, StackOK
  <2>2. late \in Packet \cup {NoPacket} /\ inbox \in Seq(Packet)
    BY ItemsArePackets, AnswersAreItems DEF IInv, LineOK
  <2> QED
    BY <2>1, <2>2 DEF IInv, Bounds, StackOK, LineOK, TableOK, TypeOK
<1> QED
  BY <1>1, <1>2, <1>3, WorkInvariant, PTL DEF Spec

\* doWork leaves no R2R, response or request behind: what is in the stack between
\* two steps of loopServer are the node lists of removeOfflineDevices.
THEOREM NodeListsAreLeftOver == Spec => []OnlyListsLeftOver
<1>1. IInv => OnlyListsLeftOver
  <2> SUFFICES ASSUME IInv, Idle, NEW k \in DOMAIN stack
               PROVE  stack[k].kind = "list"
    BY DEF OnlyListsLeftOver
  <2>1. k \in 1..Len(stack) /\ Len(stack) \in Nat
    BY DEF IInv, StackOK
  <2> QED
    BY <2>1 DEF IInv, ListsBelow, Idle
<1> QED
  BY <1>1, WorkInvariant, PTL

\* However many node lists are left over, pushWork does not drop the R2R of a step
\* that follows the one to the primary node.
THEOREM StepsHaveRoom == Spec => []RoomForOne
<1>1. IInv => RoomForOne
  BY DEF IInv
<1> QED
  BY <1>1, WorkInvariant, PTL

\* sendMsgGetResponseInPlace takes any packet for the response and routePacket puts
\* a device off line for want of one; even so MSG_RESEND_ATTEMPTS answers must be
\* lost or late before this happens to a device that is there.
THEOREM DevicesAreTrusted == Spec => []Trusted
<1>1. IInv => Trusted
  BY DEF IInv
<1> QED
  BY <1>1, WorkInvariant, PTL

-----------------------------------------------------------------------------
(* doWork comes to an end.                                                 *)

LEMMA RankedType ==
    ASSUME NEW r, NEW s \in Seq(Answer), NEW S, S = {k \in 1..Len(s) : Rank(s[k]) = r}
    PROVE  /\ IsFiniteSet(S) /\ Ranked(s, r) = Cardinality(S)
           /\ Ranked(s, r) \in Nat
<1>1. S \subseteq 1..Len(s) /\ Len(s) \in Nat
  OBVIOUS
<1>2. IsFiniteSet(1..Len(s))
  BY <1>1, FS_Interval
<1>3. IsFiniteSet(S) /\ Cardinality(S) \in Nat
  BY <1>1, <1>2, FS_Subset, FS_CardinalityType
<1> QED
  BY <1>3 DEF Ranked

LEMMA RankedIsNumber ==
    ASSUME NEW r, NEW s \in Seq(Answer)
    PROVE  Ranked(s, r) \in Nat /\ Len(s) \in Nat
<1> DEFINE S == {k \in 1..Len(s) : Rank(s[k]) = r}
<1>1. Ranked(s, r) \in Nat
  <2>1. S = {k \in 1..Len(s) : Rank(s[k]) = r}
    OBVIOUS
  <2> HIDE DEF S
  <2> QED
    BY <2>1, RankedType
<1> QED
  BY <1>1

LEMMA RankedAppend ==
    ASSUME NEW r, NEW s \in Seq(Answer), NEW a \in Answer
    PROVE  Ranked(Append(s, a), r) = Ranked(s, r) + (IF Rank(a) = r THEN 1 ELSE 0)
<1> DEFINE t == Append(s, a)
           S == {k \in 1..Len(s) : Rank(s[k]) = r}
           T == {k \in 1..Len(t) : Rank(t[k]) = r}
<1>1. /\ t \in Seq(Answer) /\ Len(s) \in Nat /\ Len(t) = Len(s) + 1
      /\ \A k \in 1..Len(s) : t[k] = s[k]
      /\ t[Len(s) + 1] = a
  OBVIOUS
<1>2. /\ IsFiniteSet(S) /\ Ranked(s, r) = Cardinality(S) /\ Ranked(s, r) \in Nat
      /\ Ranked(t, r) = Cardinality(T)
  BY <1>1, RankedType
<1>3. \A k \in 1..Len(t) : k \in 1..Len(s) \/ k = Len(s) + 1
  BY <1>1
<1>4. Len(s) + 1 \notin 1..Len(s) /\ Len(s) + 1 \in 1..Len(t)
  BY <1>1
<1>5. \A k \in 1..Len(s) : k \in 1..Len(t)
  BY <1>1
<1> HIDE DEF t
<1>6. CASE Rank(a) = r
  <2>1. \A k : k \in T <=> k \in S \/ k = Len(s) + 1
    BY <1>1, <1>3, <1>4, <1>5, <1>6
  <2>4. T = S \cup {Len(s) + 1}
    BY <2>1
  <2>2. Len(s) + 1 \notin S
    BY <1>4
  <2> QED
    BY <1>2, <1>6, <2>4, <2>2, FS_AddElement DEF t
<1>7. CASE Rank(a) # r
  <2>1. \A k : k \in T <=> k \in S
    BY <1>1, <1>3, <1>4, <1>5, <1>7
  <2>2. T = S
    BY <2>1
  <2> HIDE DEF T, S
  <2> QED
    BY <1>2, <1>7, <2>2 DEF t
<1> QED
  BY <1>6, <1>7

LEMMA RankedTail ==
    ASSUME NEW r, NEW s \in Seq(Answer), s # <<>>
    PROVE  /\ Rank(Head(s)) = r => Ranked(Tail(s), r) < Ranked(s, r)
           /\ Ranked(Tail(s), r) <= Ranked(s, r)
<1> DEFINE t == Tail(s)
           S == {k \in 1..Len(s) : Rank(s[k]) = r}
           T == {k \in 1..Len(t) : Rank(t[k]) = r}
           f == [k \in T |-> k + 1]
<1>1. /\ t \in Seq(Answer) /\ Len(s) \in Nat /\ Len(t) = Len(s) - 1
      /\ \A k \in 1..Len(t) : t[k] = s[k + 1] /\ k + 1 \in 1..Len(s) /\ k + 1 # 1
      /\ Head(s) = s[1] /\ 1 \in 1..Len(s)
  OBVIOUS
<1>2. /\ IsFiniteSet(S) /\ Ranked(s, r) = Cardinality(S) /\ Ranked(s, r) \in Nat
      /\ Ranked(t, r) = Cardinality(T) /\ Ranked(t, r) \in Nat
  <2>1. t \in Seq(Answer)
    BY <1>1
  <2> HIDE DEF t
  <2>2. /\ IsFiniteSet(S) /\ Ranked(s, r) = Cardinality(S) /\ Ranked(s, r) \in Nat
    BY RankedType
  <2>3. /\ Ranked(t, r) = Cardinality(T) /\ Ranked(t, r) \in Nat
    BY <2>1, RankedType
  <2> QED
    BY <2>2, <2>3
<1>3. f \in Injection(T, S \ {1})
  <2>1. \A k \in T : k + 1 \in S \ {1}
    BY <1>1
  <2>2. \A k, l \in T : k + 1 = l + 1 => k = l
    OBVIOUS
  <2> QED
    BY <2>1, <2>2 DEF Injection, IsInjective
<1>4. /\ IsFiniteSet(S \ {1})
      /\ Cardinality(S \ {1}) = IF 1 \in S THEN Cardinality(S) - 1 ELSE Cardinality(S)
  BY <1>2, FS_RemoveElement
<1>5. Cardinality(T) <= Cardinality(S \ {1})
  <2> HIDE DEF S, T, f
  <2> QED
    BY <1>3, <1>4, FS_Injection
<1>6. Rank(Head(s)) = r => 1 \in S
  BY <1>1
<1> DEFINE c == Cardinality(S)
           d == Cardinality(T)
           c1 == Cardinality(S \ {1})
<1>7. /\ c \in Nat /\ d \in Nat /\ d <= c1
      /\ c1 = IF 1 \in S THEN c - 1 ELSE c
  BY <1>2, <1>4, <1>5
<1>8. d <= c /\ (1 \in S => d < c)
  <2> HIDE DEF c, d, c1, S
  <2> QED
    BY <1>7
<1>9. Ranked(s, r) = c /\ Ranked(Tail(s), r) = d
  BY <1>2
<1> HIDE DEF c, d, S
<1> QED
  BY <1>6, <1>8, <1>9

\* An effort is before another one in which no part up to the n-th is smaller, and
\* the n-th is greater.
LEMMA InOrder ==
    ASSUME NEW e, NEW f, NEW n \in 1..7,
           \A m \in 1..n : e[m] \in Int /\ f[m] \in Int /\ e[m] <= f[m],
           e[n] < f[n]
    PROVE  Before(e, f)
<1> DEFINE T == {m \in 1..n : e[m] # f[m]}
<1>1. T \in SUBSET Nat /\ n \in T
  <2>1. n \in 1..n /\ \A m \in 1..n : m \in Nat
    OBVIOUS
  <2>2. e[n] # f[n]
    BY <2>1
  <2> QED
    BY <2>1, <2>2
<1>2. PICK k \in T : \A m \in T : k <= m
  <2> HIDE DEF T
  <2> QED
    BY <1>1, LeastElement
<1>3. k \in 1..n /\ k \in 1..7 /\ e[k] < f[k]
  <2>1. k \in 1..n /\ e[k] # f[k] /\ k \in 1..7
    OBVIOUS
  <2>2. e[k] \in Int /\ f[k] \in Int /\ e[k] <= f[k]
    BY <2>1
  <2> QED
    BY <2>1, <2>2
<1>4. \A m \in 1..(k - 1) : e[m] = f[m]
  <2> SUFFICES ASSUME NEW m \in 1..(k - 1)
               PROVE  m \notin T /\ m \in 1..n
    OBVIOUS
  <2>1. m \in 1..n /\ ~ (k <= m)
    BY <1>3
  <2> HIDE DEF T
  <2> QED
    BY <1>2, <2>1
<1> QED
  BY <1>3, <1>4, Zenon DEF Before

LEMMA RankNumbers == \A p : Rank(p) \in 0..2
BY DEF Rank

\* The parts of the effort are numbers.
LEMMA EffortIsNumbers ==
    ASSUME IInv, Bounds
    PROVE  /\ todo \in Nat
           /\ \A r : Copies(r) \in Nat /\ Around(r) \in Nat
<1>1. tries \in 0..Attempts /\ Attempts \in Nat
  BY WorkQueueAssumption DEF Bounds
<1>2. \A r : Copies(r) \in Nat
  BY <1>1 DEF Copies
<1>3. ASSUME NEW r
      PROVE  Around(r) \in Nat
  <2>1. Ranked(inbox, r) \in Nat
    BY RankedIsNumber DEF IInv, LineOK
  <2>2. OfLate(r) \in 0..1
    BY DEF OfLate
  <2> QED
    BY <2>1, <2>2 DEF Around
<1> QED
  BY <1>2, <1>3 DEF IInv, StackOK

LEMMA EffortParts ==
    /\ Effort[1] = todo
    /\ Effort[2] = Around(2) /\ Effort[3] = Copies(2)
    /\ Effort[4] = Around(1) /\ Effort[5] = Copies(1)
    /\ Effort[6] = Around(0) /\ Effort[7] = Copies(0)
BY DEF Effort

LEMMA EffortPartsNext ==
    /\ Effort'[1] = todo'
    /\ Effort'[2] = Around(2)' /\ Effort'[3] = Copies(2)'
    /\ Effort'[4] = Around(1)' /\ Effort'[5] = Copies(1)'
    /\ Effort'[6] = Around(0)' /\ Effort'[7] = Copies(0)'
BY DEF Effort

\* What a device of this code answers brings about less than what it was sent.
LEMMA PoliteAnswersAreLess ==
    ASSUME NEW p \in Item, Dest(p) \in Index \ Strangers, NEW a \in Answers(p)
    PROVE  Rank(a) < Rank(p)
<1>1. p \notin Final
  <2>1. \A kind : Dest(Msg(kind, Coord)) = Coord
    BY DEF Dest, Msg
  <2>2. Coord \notin Index
    BY WorkQueueAssumption DEF Coord, Index
  <2> QED
    BY <2>1, <2>2 DEF Final
<1>2. Rank(p) = IF p.kind \in {"r2r", "ack"} THEN 2 ELSE 1
  BY <1>1 DEF Rank
<1>3. a \in Polite(p)
  BY DEF Answers
<1>4. ASSUME NEW b \in Final
      PROVE  Rank(b) = 0
  BY <1>4 DEF Rank
<1>5. \A kind \in {"ack", "listack", "response"} : Msg(kind, Coord) \in Final
  BY DEF Final
<1>6. CASE p.kind \in {"r2r", "ack"}
  <2>1. a \in Requests \/ a \in Final
    BY <1>3, <1>5, <1>6 DEF Polite
  <2>2. ASSUME a \in Requests
        PROVE  Rank(a) \in 0..1
    <3>1. a.kind \notin {"r2r", "ack"}
      BY <2>2, WorkQueueAssumption
    <3> QED
      BY <3>1 DEF Rank
  <2> QED
    BY <1>2, <1>4, <1>6, <2>1, <2>2
<1>7. CASE p.kind \notin {"r2r", "ack"}
  <2>1. a \in Final
    BY <1>3, <1>5, <1>7 DEF Polite
  <2> QED
    BY <1>2, <1>4, <1>7, <2>1
<1> QED
  BY <1>6, <1>7

\* A copy brings one answer, in time or late, or none.
LEMMA SendCopyAdds ==
    ASSUME IInv, Bounds, SendCopy
    PROVE  \/ \A r : Around(r)' = Around(r)
           \/ /\ At \in alive
              /\ \E a \in Answers(Top) :
                    \A r : Around(r)' = Around(r) + (IF Rank(a) = r THEN 1 ELSE 0)
<1>0. inbox \in Seq(Answer) /\ late \in Answer \cup {NoPacket}
  BY DEF IInv, LineOK
<1>1. CASE UNCHANGED <<inbox, late>>
  BY <1>1 DEF Around, OfLate
<1>2. ASSUME At \in alive, NEW a \in Answers(Top), inbox' = Append(inbox, a), late' = late
      PROVE  \A r : Around(r)' = Around(r) + (IF Rank(a) = r THEN 1 ELSE 0)
  <2> SUFFICES ASSUME NEW r
               PROVE  Around(r)' = Around(r) + (IF Rank(a) = r THEN 1 ELSE 0)
    OBVIOUS
  <2> DEFINE x == Ranked(inbox, r)
             y == IF Rank(a) = r THEN 1 ELSE 0
             z == OfLate(r)
  <2>1. a \in Answer
    BY AnswersAreAnswers
  <2>2. Ranked(inbox', r) = x + y /\ x \in Nat
    BY <1>0, <1>2, <2>1, RankedAppend, RankedIsNumber
  <2>3. y \in 0..1 /\ z \in 0..1 /\ OfLate(r)' = z
    BY <1>2 DEF OfLate
  <2>4. Around(r)' = (x + y) + z /\ Around(r) = x + z
    BY <2>2, <2>3 DEF Around
  <2> HIDE DEF x, y, z
  <2>5. Around(r)' = Around(r) + y
    BY <2>2, <2>3, <2>4
  <2> QED
    BY <2>5 DEF y
<1>3. ASSUME NEW a \in Answers(Top), late = NoPacket, late' = a, inbox' = inbox
      PROVE  \A r : Around(r)' = Around(r) + (IF Rank(a) = r THEN 1 ELSE 0)
  <2> SUFFICES ASSUME NEW r
               PROVE  Around(r)' = Around(r) + (IF Rank(a) = r THEN 1 ELSE 0)
    OBVIOUS
  <2> DEFINE x == Ranked(inbox, r)
             y == IF Rank(a) = r THEN 1 ELSE 0
  <2>1. a # NoPacket
    <3>1. a \in Packet
      BY AnswersAreAnswers, AnswersAreItems, ItemsArePackets
    <3> QED
      BY <3>1, WorkQueueAssumption
  <2>2. x \in Nat
    BY <1>0, RankedIsNumber
  <2>3. y \in 0..1 /\ OfLate(r) = 0 /\ OfLate(r)' = y
    BY <1>3, <2>1 DEF OfLate
  <2>4. Around(r)' = x + y /\ Around(r) = x + 0
    BY <1>3, <2>3 DEF Around
  <2> HIDE DEF x, y
  <2>5. Around(r)' = Around(r) + y
    BY <2>2, <2>3, <2>4
  <2> QED
    BY <2>5 DEF y
<1>4. \/ UNCHANGED <<inbox, late>>
      \/ At \in alive /\ \E a \in Answers(Top) : inbox' = Append(inbox, a) /\ late' = late
      \/ /\ At \in alive /\ late = NoPacket /\ inbox' = inbox
         /\ \E a \in Answers(Top) : late' = a
  BY DEF SendCopy
<1> QED
  BY <1>1, <1>2, <1>3, <1>4

\* One more copy of a packet is one less to send.  The answer brings about less than
\* the packet did, unless it is that of a stranger.
LEMMA SendCopyLess ==
    ASSUME IInv, Bounds, SendCopy
    PROVE  Before(Effort', Effort) \/ Provoked
<1> DEFINE q == Rank(Top)
<1>1. /\ todo > 0 /\ todo' = todo /\ todo \in Nat /\ Top' = Top /\ tries' = tries + 1
      /\ tries = 0 \/ tries < Attempts
  BY DEF SendCopy, ToDevice, Top, Last, IInv, StackOK
<1>2. tries \in Nat /\ Attempts \in Nat \ {0} /\ Attempts - (tries + 1) < Attempts - tries
  BY WorkQueueAssumption DEF Bounds
<1>3. Top \in Item
  BY <1>1, TopIsItem DEF IInv
<1>4. /\ Copies(q)' < Copies(q) /\ Copies(q) \in Nat /\ Copies(q)' \in Nat
      /\ \A r : r # q => Copies(r) = 0 /\ Copies(r)' = 0
  <2>1. Copies(q) = Attempts - tries /\ Copies(q)' = Attempts - (tries + 1)
    BY <1>1 DEF Copies
  <2>2. Attempts - tries \in Nat /\ Attempts - (tries + 1) \in Nat
    BY <1>1, <1>2
  <2> QED
    BY <1>1, <1>2, <2>1, <2>2 DEF Copies
<1>5. q \in 0..2
  BY RankNumbers
<1>6. (\A r \in q..2 : Around(r)' = Around(r)) \/ Provoked
  <2>1. CASE \A r : Around(r)' = Around(r)
    BY <2>1
  <2>2. ASSUME At \in alive, NEW a \in Answers(Top),
               \A r : Around(r)' = Around(r) + (IF Rank(a) = r THEN 1 ELSE 0)
        PROVE  (\A r \in q..2 : Around(r)' = Around(r)) \/ Provoked
    <3>1. Rank(a) \in 0..2 /\ \A r : Around(r) \in Nat
      BY RankNumbers, EffortIsNumbers
    <3>2. CASE Rank(a) < q
      <4>1. \A r \in q..2 : Rank(a) # r
        BY <1>5, <3>1, <3>2
      <4>2. \A r \in q..2 : Around(r)' = Around(r) + 0
        BY <2>2, <4>1
      <4> QED
        BY <3>1, <4>2
    <3>3. CASE ~ (Rank(a) < q)
      <4>1. At \in Strangers
        <5>1. At \in Index /\ At = Dest(Top)
          BY <2>2 DEF Bounds, At
        <5>2. At \notin Strangers => Rank(a) < Rank(Top)
          BY <1>3, <2>2, <5>1, PoliteAnswersAreLess
        <5> QED
          BY <3>3, <5>2
      <4>2. Rank(a) \in q..2
        BY <1>5, <3>1, <3>3
      <4>3. Around(Rank(a))' = Around(Rank(a)) + 1 /\ Around(Rank(a)) \in Nat
        BY <2>2, <3>1
      <4>4. Around(Rank(a))' > Around(Rank(a))
        BY <4>3
      <4> QED
        BY <1>1, <4>1, <4>2, <4>4 DEF Provoked
    <3> QED
      BY <3>2, <3>3
  <2> QED
    BY <2>1, <2>2, SendCopyAdds
<1>7. \A r : Around(r) \in Nat
  BY EffortIsNumbers
<1> DEFINE e == Effort'
           f == Effort
<1>8. ASSUME \A r \in q..2 : Around(r)' = Around(r)
      PROVE  Before(e, f)
  <2>1. CASE q = 2
    <3>1. /\ e[1] = f[1] /\ e[2] = f[2] /\ e[3] < f[3]
          /\ f[1] \in Nat /\ f[2] \in Nat /\ f[3] \in Nat /\ e[3] \in Nat
      BY <1>1, <1>4, <1>7, <1>8, <2>1, EffortParts, EffortPartsNext
    <3> HIDE DEF e, f
    <3>2. 3 \in 1..7 /\ \A m \in 1..3 : e[m] \in Int /\ f[m] \in Int /\ e[m] <= f[m]
      BY <3>1
    <3> QED
      BY <3>1, <3>2, InOrder
  <2>2. CASE q = 1
    <3>1. /\ e[1] = f[1] /\ e[2] = f[2] /\ e[3] = f[3] /\ e[4] = f[4] /\ e[5] < f[5]
          /\ f[1] \in Nat /\ f[2] \in Nat /\ f[3] \in Nat /\ f[4] \in Nat
          /\ f[5] \in Nat /\ e[5] \in Nat
      BY <1>1, <1>4, <1>7, <1>8, <2>2, EffortParts, EffortPartsNext
    <3> HIDE DEF e, f
    <3>2. 5 \in 1..7 /\ \A m \in 1..5 : e[m] \in Int /\ f[m] \in Int /\ e[m] <= f[m]
      BY <3>1
    <3> QED
      BY <3>1, <3>2, InOrder
  <2>3. CASE q = 0
    <3>1. /\ e[1] = f[1] /\ e[2] = f[2] /\ e[3] = f[3] /\ e[4] = f[4] /\ e[5] = f[5]
          /\ e[6] = f[6] /\ e[7] < f[7]
          /\ f[1] \in Nat /\ f[2] \in Nat /\ f[3] \in Nat /\ f[4] \in Nat
          /\ f[5] \in Nat /\ f[6] \in Nat /\ f[7] \in Nat /\ e[7] \in Nat
      BY <1>1, <1>4, <1>7, <1>8, <2>3, EffortParts, EffortPartsNext
    <3> HIDE DEF e, f
    <3>2. 7 \in 1..7 /\ \A m \in 1..7 : e[m] \in Int /\ f[m] \in Int /\ e[m] <= f[m]
      BY <3>1
    <3> QED
      BY <3>1, <3>2, InOrder
  <2> QED
    BY <1>5, <2>1, <2>2, <2>3
<1> QED
  BY <1>6, <1>8

LEMMA PopLess ==
    ASSUME todo \in Nat, todo > 0, todo' \in Nat, Pop
    PROVE  Before(Effort', Effort)
<1> DEFINE e == Effort'
           f == Effort
<1>1. e[1] < f[1] /\ e[1] \in Nat /\ f[1] \in Nat
  BY EffortParts, EffortPartsNext DEF Pop
<1> HIDE DEF e, f
<1>2. 1 \in 1..7 /\ \A m \in 1..1 : e[m] \in Int /\ f[m] \in Int /\ e[m] <= f[m]
  BY <1>1
<1>3. Before(e, f)
  BY <1>1, <1>2, InOrder
<1> QED
  BY <1>3 DEF e, f

LEMMA LastAppended ==
    ASSUME NEW s \in Seq(Item), NEW p \in Item
    PROVE  Last(Append(s, p)) = p
<1>1. Len(Append(s, p)) = Len(s) + 1 /\ Append(s, p)[Len(s) + 1] = p
  OBVIOUS
<1> QED
  BY <1>1 DEF Last

\* What is put in place of a packet is one answer less in the ring.
LEMMA TakeAnswerLess ==
    ASSUME IInv, Bounds, TakeAnswer
    PROVE  Before(Effort', Effort)
<1>1. /\ todo \in Nat /\ todo > 0 /\ inbox \in Seq(Answer) /\ inbox # <<>>
      /\ inbox' = Tail(inbox) /\ late' = late
  BY DEF TakeAnswer, IInv, StackOK, LineOK, env
<1>2. CASE Completes(Top, Head(inbox))
  <2>1. Pop
    BY <1>2 DEF TakeAnswer
  <2>2. todo' \in Nat
    BY <1>1, <2>1 DEF Pop
  <2> QED
    BY <1>1, <2>1, <2>2, PopLess
<1>3. CASE ~ Completes(Top, Head(inbox))
  <2> DEFINE head == Head(inbox)
             q == Rank(head)
             e == Effort'
             f == Effort
  <2>1. stack' = Append(Front(stack), head) /\ todo' = todo
    BY <1>3 DEF TakeAnswer
  <2>2. head \in Item
    <3>1. head \in Answer
      BY <1>1
    <3> QED
      BY <3>1, AnswersAreItems
  <2>3. Top' = head
    <3>1. Front(stack) \in Seq(Item)
      BY <1>1, FrontOfSeq DEF IInv, StackOK
    <3>2. Last(Append(Front(stack), head)) = head
      BY <2>2, <3>1, LastAppended
    <3> QED
      BY <2>1, <3>2 DEF Top
  <2>4. \A r : r # q => Copies(r)' = 0
    BY <2>3 DEF Copies
  <2>5. \A r : Copies(r) \in Nat /\ Around(r) \in Nat
    BY EffortIsNumbers
  <2>6. ASSUME NEW r
        PROVE  /\ Around(r)' \in Nat /\ Around(r)' <= Around(r)
               /\ q = r => Around(r)' < Around(r)
    <3> DEFINE x == Ranked(inbox, r)
               y == Ranked(Tail(inbox), r)
               z == OfLate(r)
    <3>1. /\ x \in Nat /\ y \in Nat /\ y <= x
          /\ q = r => y < x
      <4>1. Tail(inbox) \in Seq(Answer)
        BY <1>1
      <4> QED
        BY <1>1, <4>1, RankedTail, RankedIsNumber
    <3>2. z \in 0..1 /\ OfLate(r)' = z
      BY <1>1 DEF OfLate
    <3>3. Around(r) = x + z /\ Around(r)' = y + z
      BY <1>1, <3>2 DEF Around
    <3> HIDE DEF x, y, z, q
    <3> QED
      BY <3>1, <3>2, <3>3
  <2>7. q \in 0..2
    BY RankNumbers
  <2> HIDE DEF q
  <2>8. CASE q = 2
    <3>1. /\ e[1] = f[1] /\ e[2] < f[2] /\ f[1] \in Nat /\ e[2] \in Nat /\ f[2] \in Nat
      BY <1>1, <2>1, <2>5, <2>6, <2>8, EffortParts, EffortPartsNext
    <3> HIDE DEF e, f
    <3>2. 2 \in 1..7 /\ \A m \in 1..2 : e[m] \in Int /\ f[m] \in Int /\ e[m] <= f[m]
      BY <3>1
    <3>3. Before(e, f)
      BY <3>1, <3>2, InOrder
    <3> QED
      BY <3>3 DEF e, f
  <2>9. CASE q = 1
    <3>1. /\ e[1] = f[1] /\ e[2] <= f[2] /\ e[3] = 0 /\ e[4] < f[4]
          /\ f[1] \in Nat /\ e[2] \in Nat /\ f[2] \in Nat /\ f[3] \in Nat
          /\ e[4] \in Nat /\ f[4] \in Nat
      BY <1>1, <2>1, <2>4, <2>5, <2>6, <2>9, EffortParts, EffortPartsNext
    <3> HIDE DEF e, f
    <3>2. 4 \in 1..7 /\ \A m \in 1..4 : e[m] \in Int /\ f[m] \in Int /\ e[m] <= f[m]
      BY <3>1
    <3>3. Before(e, f)
      BY <3>1, <3>2, InOrder
    <3> QED
      BY <3>3 DEF e, f
  <2>10. CASE q = 0
    <3>1. /\ e[1] = f[1] /\ e[2] <= f[2] /\ e[3] = 0 /\ e[4] <= f[4] /\ e[5] = 0
          /\ e[6] < f[6]
          /\ f[1] \in Nat /\ e[2] \in Nat /\ f[2] \in Nat /\ f[3] \in Nat
          /\ e[4] \in Nat /\ f[4] \in Nat /\ f[5] \in Nat /\ e[6] \in Nat /\ f[6] \in Nat
      BY <1>1, <2>1, <2>4, <2>5, <2>6, <2>10, EffortParts, EffortPartsNext
    <3> HIDE DEF e, f
    <3>2. 6 \in 1..7 /\ \A m \in 1..6 : e[m] \in Int /\ f[m] \in Int /\ e[m] <= f[m]
      BY <3>1
    <3>3. Before(e, f)
      BY <3>1, <3>2, InOrder
    <3> QED
      BY <3>3 DEF e, f
  <2> QED
    BY <2>7, <2>8, <2>9, <2>10
<1> QED
  BY <1>2, <1>3

LEMMA RouteLess ==
    ASSUME IInv, Bounds, Route
    PROVE  Before(Effort', Effort) \/ Provoked
<1>1. CASE NoAnswer \/ AskSubordinate
  <2>1. todo \in Nat /\ todo > 0 /\ Pop
    BY <1>1 DEF NoAnswer, AskSubordinate, IInv, StackOK
  <2>2. todo' \in Nat
    BY <2>1 DEF Pop
  <2> QED
    BY <2>1, <2>2, PopLess
<1> QED
  BY <1>1, SendCopyLess, TakeAnswerLess DEF Route

\* A late answer counts before it arrives, and no other step of a device counts.
LEMMA OthersAddNothing ==
    ASSUME IInv, Bounds, [Next]_vars, todo > 0, ~ Route, ~ Restart
    PROVE  Effort' = Effort
<1>1. ~ Idle
  BY DEF IInv, StackOK, Idle
<1>2. ASSUME UNCHANGED <<stack, todo, tries>>, \A r : Around(r)' = Around(r)
      PROVE  Effort' = Effort
  <2>1. \A r : Copies(r)' = Copies(r)
    BY <1>2 DEF Copies, Top, Last
  <2> QED
    BY <1>2, <2>1 DEF Effort
<1>3. CASE LateArrives
  <2>1. /\ late \in Answer /\ late # NoPacket /\ late' = NoPacket
        /\ inbox \in Seq(Answer) /\ inbox' = Append(inbox, late)
        /\ UNCHANGED <<stack, todo, tries>>
    BY <1>3 DEF LateArrives, IInv, LineOK, work
  <2>2. ASSUME NEW r
        PROVE  Around(r)' = Around(r)
    <3> DEFINE x == Ranked(inbox, r)
               y == IF Rank(late) = r THEN 1 ELSE 0
    <3>1. Ranked(inbox', r) = x + y /\ x \in Nat
      BY <2>1, RankedAppend, RankedIsNumber
    <3>2. OfLate(r) = y /\ OfLate(r)' = 0 /\ y \in 0..1
      BY <2>1 DEF OfLate
    <3>3. Around(r) = x + y /\ Around(r)' = (x + y) + 0
      BY <3>1, <3>2 DEF Around
    <3> HIDE DEF x, y
    <3> QED
      BY <3>1, <3>2, <3>3
  <2> QED
    BY <1>2, <2>1, <2>2
<1>4. CASE (\E i \in Index : Die(i) \/ Return(i)) \/ SubordinateSpeaks \/ UNCHANGED vars
  <2>1. UNCHANGED <<stack, todo, tries, inbox, late>>
    BY <1>4 DEF Die, Return, SubordinateSpeaks, vars, work, env
  <2>2. \A r : Around(r)' = Around(r)
    BY <2>1 DEF Around, OfLate
  <2> QED
    BY <1>2, <2>1, <2>2
<1>5. ~ \E i \in Index : Enrol(i)
  BY <1>1 DEF Enrol
<1>6. ~ Coordinator
  BY <1>1 DEF Coordinator, StartCycle, AskPrimary, NobodyNew, OfferToken, EndTokens,
              AskNet2, AskRolled, AskVrtSub, AnyOther
<1> QED
  BY <1>3, <1>4, <1>5, <1>6 DEF Next

\* Each step of routePacket leaves less to do, in the lexicographic order of seven
\* numbers, or a stranger has given as weighty an answer as the packet it was sent; and
\* nothing that happens in between adds to it.  For any stack and number of copies.
THEOREM WorkIsFinite == Spec => DoWorkEnds
<1>1. Init => Bounds
  BY WorkQueueAssumption DEF Init, Bounds, Pc
<1>2. Bounds /\ [Next]_vars => Bounds'
  BY BoundsKept
<1>3. IInv /\ Bounds /\ [Next]_vars =>
        [/\ Route => Before(Effort', Effort) \/ Provoked
         /\ todo > 0 /\ ~ Route => Restart \/ Effort' = Effort]_vars
  BY RouteLess, OthersAddNothing
<1> QED
  BY <1>1, <1>2, <1>3, WorkInvariant, PTL DEF Spec, DoWorkEnds

\* Where every device runs this code nothing adds to it: routePacket ends, however
\* often it has taken the wrong packet for the response.
THEOREM WorkEndsAmongOwn ==
    ASSUME Strangers = {}
    PROVE  Spec => [][Route => Before(Effort', Effort)]_vars
<1>1. ~ Provoked
  BY DEF Provoked
<1>2. [/\ Route => Before(Effort', Effort) \/ Provoked
       /\ todo > 0 /\ ~ Route => Restart \/ Effort' = Effort]_vars
        => [Route => Before(Effort', Effort)]_vars
  BY <1>1
<1> QED
  BY <1>2, WorkIsFinite, PTL DEF DoWorkEnds

\* The parts of the effort are natural numbers in every state, so that there is no
\* endless descent among them.
THEOREM EffortTyped == Spec => [](Effort \in [1..7 -> Nat])
<1>1. IInv /\ Bounds => Effort \in [1..7 -> Nat]
  BY EffortIsNumbers DEF Effort
<1>2. Init => Bounds
  BY WorkQueueAssumption DEF Init, Bounds, Pc
<1>3. Bounds /\ [Next]_vars => Bounds'
  BY BoundsKept
<1> QED
  BY <1>1, <1>2, <1>3, WorkInvariant, PTL DEF Spec
=============================================================================
