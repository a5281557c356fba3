------------------------ MODULE Arbitration_proofs ------------------------
(***************************************************************************)
(* Proofs about Arbitration, for any number of devices, any versions, any  *)
(* set of faults and any timing constants.                                 *)
(***************************************************************************)
EXTENDS Arbitration, TLAPS

\* What makes the claims safe: the shortest slot delay is longer than the wait
\* for an answer to a claim (ANET_SLOTLO = 6000, RESPONSE_TIMEOUT = 3000).
SlotsExceedWait == ResponseTimeout < SlotLo

Becoming == {"BecomingA", "BecomingB"}

-----------------------------------------------------------------------------
(* Types.                                                                  *)

LEMMA NoMsgType == NoMsg \in Message
BY DEF NoMsg, Msg, Message, MsgType

LEMMA ZeroAge == 0 \in Age /\ 0 \in SlotTime
BY TimeAssumption DEF Age, SlotTime, MaxAge

LEMMA HeardType ==
    ASSUME TypeOK, NEW n \in Node, NEW from \in Node, NEW msg \in Message
    PROVE  Heard(n, from, msg) \in NodeState
<1>1. node[n] \in NodeState
  BY DEF TypeOK
<1>2. BecomeClient(n, from) \in NodeState
  BY <1>1, ZeroAge DEF BecomeClient, NodeState, St
<1>3. ASSUME node[n].st \in Contending
      PROVE  HearContending(n, from, msg) \in NodeState
  <2>1. Restart(node[n].st, msg.type) \in St
    BY <1>3 DEF Restart, Contending, St
  <2> QED
    BY <1>1, <1>2, <2>1, ZeroAge DEF HearContending, NodeState
<1>4. HearDiscover(n, msg) \in NodeState
  BY <1>1, ZeroAge DEF HearDiscover, NodeState, St, Job
<1>5. HearServer(n, msg) \in NodeState
  BY <1>1, <1>4, ZeroAge
     DEF HearServer, NodeState, Job, Msg, Message, MsgType
<1>6. \A type \in MsgType : Reply(n, type) \in NodeState
  BY <1>1, ZeroAge DEF Reply, NodeState, Msg, Message
<1>7. HearUnenrolled(n, msg) \in NodeState
  BY <1>1, <1>6, ZeroAge DEF HearUnenrolled, NodeState, Job, MsgType
<1>8. HearEnrolled(n, msg) \in NodeState
  BY <1>1, <1>6, ZeroAge DEF HearEnrolled, NodeState, MsgType
<1> QED
  BY <1>1, <1>3, <1>5, <1>7, <1>8 DEF Heard

LEMMA AgeCapped == \A t \in Age : AgeOf(t + 1) \in Age
BY TimeAssumption DEF Age, AgeOf, MaxAge

LEMMA TypeInit == Init => TypeOK
BY ZeroAge, NoMsgType DEF Init, TypeOK, OffNode, Boot, NodeState, St, Job

LEMMA TypeStep ==
    ASSUME TypeOK, NEW n \in Node, Step(n)
    PROVE  TypeOK'
<1> USE DEF TypeOK
<1>1. CASE PickSlot(n)
  BY <1>1 DEF PickSlot, NodeState, SlotTime
<1>2. CASE SubordinateOnly(n)
  BY <1>2 DEF SubordinateOnly, NodeState, St
<1>3. CASE ListenTimeout(n)
  BY <1>3, ZeroAge DEF ListenTimeout, NodeState, St
<1>4. CASE Claim(n)
  <2>1. Msg("ANUCVER", Node) \in Message
    BY DEF Msg, Message, MsgType
  <2>2. node' \in [Node -> NodeState]
    BY <1>4, <2>1, ZeroAge DEF Claim, NodeState, St
  <2>3. mishap' \subseteq {"loss", "overlap", "outage", "deaf"}
    BY <1>4 DEF Claim
  <2> QED
    BY <2>2, <2>3
<1>5. CASE Win(n)
  BY <1>5 DEF Win, NodeState, St, Job
<1>6. \A msg \in Message, job \in Job : Sends(n, msg, job) => TypeOK'
  BY ZeroAge DEF Sends, NodeState
<1>7. CASE Discover(n)
  BY <1>6, <1>7 DEF Discover, Msg, Message, MsgType, Job
<1>8. CASE DiscoverTimeout(n)
  BY <1>8 DEF DiscoverTimeout, NodeState, Job
<1>9. CASE Poll(n)
  <2>1. PICK to \in {{}} \cup {{m} : m \in Node \ {n}}, type \in {"R2R", "ADDRCNFM"} :
            Sends(n, Msg(type, to), node[n].job)
    BY <1>9 DEF Poll
  <2>2. Msg(type, to) \in Message
    BY DEF Msg, Message, MsgType
  <2>3. node[n].job \in Job
    BY DEF NodeState
  <2> QED
    BY <1>6, <2>1, <2>2, <2>3
<1>10. CASE Assign(n)
  <2>1. PICK m \in Node \ {n} : Sends(n, Msg("SADDR", {m}), "assign")
    BY <1>10 DEF Assign
  <2>2. Msg("SADDR", {m}) \in Message
    BY DEF Msg, Message, MsgType
  <2> QED
    BY <1>6, <2>1, <2>2 DEF Job
<1>11. CASE AssignTimeout(n)
  BY <1>11 DEF AssignTimeout, NodeState, Job
<1>12. CASE EndTail(n)
  BY <1>12 DEF EndTail, NodeState, Job
<1>13. CASE Answer(n)
  BY <1>6, <1>13 DEF Answer, Msg, Message, MsgType, Job
<1>14. CASE AwaitTimeout(n)
  BY <1>14 DEF AwaitTimeout, NodeState, Job
<1>15. CASE LeaveNetwork(n)
  BY <1>15 DEF LeaveNetwork, NodeState
<1> QED
  BY <1>1, <1>2, <1>3, <1>4, <1>5, <1>7, <1>8, <1>9, <1>10, <1>11, <1>12, <1>13,
     <1>14, <1>15 DEF Step

LEMMA OffType == OffNode \in NodeState
BY ZeroAge, NoMsgType DEF OffNode, Boot, NodeState, St, Job

LEMMA TypeNext == TypeOK /\ [Next]_vars => TypeOK'
<1> SUFFICES ASSUME TypeOK, [Next]_vars
             PROVE  TypeOK'
  OBVIOUS
<1>1. ASSUME NEW n \in Node, Step(n)
      PROVE  TypeOK'
  BY <1>1, TypeStep
<1>2. ASSUME NEW n \in Node, Deliver(n)
      PROVE  TypeOK'
  <2>1. \A m \in Node : Heard(m, n, node[n].out) \in NodeState
    BY HeardType DEF TypeOK, NodeState
  <2>2. [node[n] EXCEPT !.out = NoMsg] \in NodeState
    BY NoMsgType DEF TypeOK, NodeState
  <2> QED
    BY <1>2, <2>1, <2>2, OffType DEF Deliver, TypeOK
<1>3. ASSUME NEW n \in Node, Lose(n)
      PROVE  TypeOK'
  <2>1. Msg("garbled", {}) \in Message
    BY DEF Msg, Message, MsgType
  <2>2. \A m \in Node : Heard(m, n, Msg("garbled", {})) \in NodeState
    BY <2>1, HeardType
  <2>3. [node[n] EXCEPT !.out = NoMsg] \in NodeState
    BY NoMsgType DEF TypeOK, NodeState
  <2> QED
    BY <1>3, <2>2, <2>3 DEF Lose, TypeOK
<1>4. ASSUME NEW n \in Node, PowerOn(n)
      PROVE  TypeOK'
  <2>1. \A age \in {0, MaxAge} : Boot(age) \in NodeState
    BY ZeroAge, NoMsgType, TimeAssumption
       DEF Boot, NodeState, St, Job, Age, MaxAge
  <2> QED
    BY <1>4, <2>1 DEF PowerOn, TypeOK
<1>5. ASSUME NEW n \in Node, PowerOff(n)
      PROVE  TypeOK'
  BY <1>5, OffType DEF PowerOff, TypeOK
<1>6. CASE Tick
  BY <1>6, AgeCapped DEF Tick, TypeOK, NodeState
<1>7. CASE UNCHANGED vars
  BY <1>7 DEF vars, TypeOK
<1> QED
  BY <1>1, <1>2, <1>3, <1>4, <1>5, <1>6, <1>7 DEF Next

\* Every variable keeps its type, whatever the constants are.
THEOREM TypeCorrect == Spec => []TypeOK
<1> QED
  BY TypeInit, TypeNext, PTL DEF Spec

-----------------------------------------------------------------------------
(* What hearing a frame does to a node, role by role.                      *)

LEMMA ContenderHears ==
    ASSUME TypeOK, NEW m \in Node, NEW k \in Node, NEW msg \in Message,
           node[m].st \in Contending, m \in FFD
    PROVE  LET h == Heard(m, k, msg) IN
           /\ h.st \in Contending \cup {"ANClient"}
           /\ h.out = node[m].out
           /\ h.age = 0 \/ h.age = node[m].age
           /\ h.st = "Waiting" =>
                  node[m].st = "Waiting" /\ msg.type = "ANUCVER" /\ m \notin Sub
           /\ msg.type = "ANUCVER" => h.age = 0
           /\ h.st \in Becoming => h.age = 0 \/ h.st = node[m].st
<1>1. node[m] \in NodeState
  BY DEF TypeOK
<1>2. Heard(m, k, msg) = HearContending(m, k, msg)
  BY DEF Heard, Contending
<1>3. CASE msg.type = "ANUCVER"
  <2>1. Heard(m, k, msg) = BecomeClient(m, k)
    BY <1>2, <1>3 DEF HearContending
  <2>2. CASE Comp(Version[m], Version[k]) > 0
    BY <1>1, <1>3, <2>1, <2>2 DEF BecomeClient, NodeState, Contending, Becoming
  <2>3. CASE ~(Comp(Version[m], Version[k]) > 0)
    BY <1>1, <1>3, <2>1, <2>3 DEF BecomeClient, NodeState, Contending, Becoming
  <2> QED
    BY <2>2, <2>3
<1>4. CASE msg.type # "ANUCVER"
  BY <1>1, <1>2, <1>4 DEF HearContending, Restart, NodeState, Contending, Becoming
<1> QED
  BY <1>3, <1>4

LEMMA ServerHears ==
    ASSUME TypeOK, NEW m \in Node, NEW k \in Node, NEW msg \in Message,
           node[m].st = "ANServer", node[m].job \in ServerJob
    PROVE  LET h == Heard(m, k, msg) IN
           /\ h.st \in {"ANServer", "ANClient"}
           /\ h.out = node[m].out \/ (h.out.type = "NDSCVRY" /\ h.out # NoMsg)
           /\ h.age = 0 \/ (h.out = node[m].out /\ h.age = node[m].age)
           /\ h.st = "ANServer" => h.job \in ServerJob
           /\ node[m].job \in {"poll", "found"} => h = node[m]
           /\ msg.type = "ANUCVER" /\ h.st = "ANServer" =>
                  node[m].job \in {"poll", "found", "assign", "lost"}
<1>1. node[m] \in NodeState
  BY DEF TypeOK
<1>2. Heard(m, k, msg) = HearServer(m, msg)
  BY DEF Heard, Contending
<1>3. Msg("NDSCVRY", Node) # NoMsg
  BY DEF Msg, NoMsg
<1> QED
  BY <1>1, <1>2, <1>3 DEF HearServer, HearDiscover, NodeState, ServerJob, Msg

LEMMA OthersHear ==
    ASSUME TypeOK, NEW m \in Node, NEW k \in Node, NEW msg \in Message,
           node[m].st # "ANServer", ~(node[m].st \in Contending /\ m \in FFD)
    PROVE  LET h == Heard(m, k, msg) IN
           /\ h.st = node[m].st
           /\ h.age = 0 \/ (h.out = node[m].out /\ h.age = node[m].age)
<1>1. node[m] \in NodeState
  BY DEF TypeOK
<1>2. CASE node[m].st = "ANClient" /\ node[m].job # "tail" /\ node[m].enrolled
  BY <1>1, <1>2 DEF Heard, HearEnrolled, Reply, NodeState, Contending
<1>3. CASE node[m].st = "ANClient" /\ node[m].job # "tail" /\ ~node[m].enrolled
  BY <1>1, <1>3 DEF Heard, HearUnenrolled, Reply, NodeState, Contending
<1>4. CASE ~(node[m].st = "ANClient" /\ node[m].job # "tail")
  BY <1>1, <1>4 DEF Heard, NodeState
<1> QED
  BY <1>2, <1>3, <1>4

-----------------------------------------------------------------------------
(* IInv is inductive.  Its parts are disturbed by few actions:             *)
(*   Fresh          by whoever hears, and by time                          *)
(*   RoleOK         by Claim, Win, what is heard, and time                 *)
(*   HeardClaim     by whoever hears, and by time                          *)
(*   BothClaim      by Claim and by whoever hears                          *)
(*   ClaimAnswered  by Claim, Win, what is heard, and time                 *)

LEMMA Shape ==
    ASSUME TypeOK, NEW n \in Node
    PROVE  /\ node[n] \in NodeState
           /\ node[n].age \in Nat
           /\ node[n].slot = 0 \/ node[n].slot >= SlotLo
           /\ node[n].slot \in Nat
           /\ node[n].out \in Message
BY TimeAssumption DEF TypeOK, NodeState, Age, SlotTime, Slot, MaxAge

LEMMA ClaimIsMessage == \A to : Msg("ANUCVER", to) # NoMsg
BY DEF Msg, NoMsg

LEMMA InvInit == Init => IInv
<1> SUFFICES ASSUME Init
             PROVE  IInv
  OBVIOUS
<1>1. TypeOK
  BY TypeInit
<1>2. \A n \in Node : node[n].st = "Off" /\ node[n].out = NoMsg
  BY DEF Init, OffNode, Boot
<1>3. Fresh /\ RoleOK /\ HeardClaim /\ BothClaim /\ ClaimAnswered /\ OneClaimant
      /\ ExclusiveCoordinator
  BY <1>2 DEF Fresh, RoleOK, HeardClaim, BothClaim, ClaimAnswered, OneClaimant,
              ExclusiveCoordinator, Coordinators
<1> QED
  BY <1>1, <1>3 DEF IInv

\* mishap only grows: what is ruled out in a step was ruled out before it.
LEMMA MishapGrows ==
    ASSUME TypeOK, [Next]_vars
    PROVE  mishap \subseteq mishap'
BY DEF Next, Step, vars, PickSlot, SubordinateOnly, ListenTimeout, Claim, Win,
       Sends, Discover, DiscoverTimeout, Poll, Assign, AssignTimeout, EndTail, Answer,
       AwaitTimeout, LeaveNetwork, Deliver, Lose, PowerOn, PowerOff, Tick

\* A node that has contended longer than its slot has waited longer than anybody
\* who waits for the answer to a claim: that one's claim is not out yet, or was lost.
LEMMA NobodyWaits ==
    ASSUME SlotsExceedWait, IInv, Without({"loss"}),
           NEW n \in Node, node[n].st \in Becoming, SlotOver(n),
           NEW m \in Node, node[m].st = "Waiting"
    PROVE  node[m].out.type = "ANUCVER"
<1>1. m # n
  BY DEF Becoming
<1>2. node[m].age <= ResponseTimeout + 1
  BY DEF IInv, RoleOK
<1>3. node[n].age > ResponseTimeout + 1
  BY Shape, TimeAssumption DEF IInv, SlotOver, SlotsExceedWait
<1>4. node[n].age \in Nat /\ node[m].age \in Nat
  BY Shape DEF IInv
<1> QED
  BY <1>1, <1>2, <1>3, <1>4, TimeAssumption DEF IInv, HeardClaim, Becoming

\* A claim is sent when nobody else waits, except for claims sent at once.
LEMMA InvClaim ==
    ASSUME SlotsExceedWait, IInv, TypeOK', NEW n \in Node, Claim(n)
    PROVE  IInv'
<1> DEFINE claim == Msg("ANUCVER", Node)
<1>1. /\ n \in FFD /\ node[n].st \in Becoming /\ SlotOver(n)
      /\ node'[n].st = "Waiting" /\ node'[n].age = 0 /\ node'[n].out = claim
      /\ node'[n].job = node[n].job
      /\ \A m \in Node \ {n} : node'[m] = node[m]
      /\ mishap \subseteq mishap'
      /\ ClaimUnderWay(n) => "overlap" \in mishap'
  BY DEF Claim, IInv, TypeOK, NodeState, Becoming
<1>2. claim.type = "ANUCVER" /\ claim # NoMsg
  BY DEF Msg, NoMsg
<1>3. ASSUME NEW m \in Node \ {n}, node[m].st = "Waiting", Without({"loss"})'
      PROVE  node[m].out.type = "ANUCVER"
  BY <1>1, <1>3, NobodyWaits DEF Without
<1>4. Fresh'
  BY <1>1, <1>2 DEF IInv, Fresh
<1>5. RoleOK'
  BY <1>1, <1>2, TimeAssumption DEF IInv, RoleOK
<1>6. HeardClaim'
  BY <1>1, <1>2 DEF IInv, HeardClaim, Without
<1>7. BothClaim'
  BY <1>1, <1>2, <1>3 DEF IInv, BothClaim, Clean, Without
<1>8. ClaimAnswered'
  BY <1>1, <1>2, TimeAssumption
     DEF IInv, ClaimAnswered, Clean, Without, WillBeHeard
<1>9. OneClaimant'
  BY <1>1, <1>3 DEF IInv, OneClaimant, Without, ClaimUnderWay
<1>10. ExclusiveCoordinator'
  BY <1>1 DEF IInv, ExclusiveCoordinator, Coordinators, Without
<1> QED
  BY <1>4, <1>5, <1>6, <1>7, <1>8, <1>9, <1>10 DEF IInv

\* A step of node n alone keeps IInv if n neither waits nor coordinates after it.
LEMMA InvQuiet ==
    ASSUME IInv, TypeOK', NEW n \in Node, NEW s \in NodeState,
           node' = [node EXCEPT ![n] = s], mishap \subseteq mishap',
           s.st \notin {"Waiting", "ANServer"},
           s.st \in Becoming =>
               n \in FFD /\ (s.age = 0 \/ (node[n].st \in Becoming /\ s.age = node[n].age)),
           s.out # NoMsg => s.age = 0
    PROVE  IInv'
<1>1. node'[n] = s /\ \A m \in Node \ {n} : node'[m] = node[m]
  BY DEF IInv, TypeOK
<1>2. Fresh'
  BY <1>1 DEF IInv, Fresh
<1>3. RoleOK'
  BY <1>1 DEF IInv, RoleOK, Becoming
<1>4. HeardClaim'
  <2>1. \A k \in Node : node[k].age >= 0
    BY Shape DEF IInv
  <2> QED
    BY <1>1, <2>1 DEF IInv, HeardClaim, Without, Becoming
<1>5. BothClaim'
  BY <1>1 DEF IInv, BothClaim, Clean, Without
<1>6. ClaimAnswered'
  BY <1>1 DEF IInv, ClaimAnswered, Clean, Without, WillBeHeard
<1>7. OneClaimant'
  BY <1>1 DEF IInv, OneClaimant, Without
<1>8. ExclusiveCoordinator'
  BY <1>1 DEF IInv, ExclusiveCoordinator, Coordinators, Without
<1> QED
  BY <1>2, <1>3, <1>4, <1>5, <1>6, <1>7, <1>8 DEF IInv

\* A step of a coordinator n keeps IInv if it sends, or if n did not poll before it.
LEMMA InvServer ==
    ASSUME IInv, TypeOK', NEW n \in Node, NEW s \in NodeState,
           node' = [node EXCEPT ![n] = s], UNCHANGED mishap,
           node[n].st = "ANServer", s.st = "ANServer", s.job \in ServerJob,
           s.out.type # "ANUCVER",
           s.out # NoMsg => s.age = 0,
           s.out # NoMsg \/ (s.out = node[n].out /\ node[n].job \notin {"poll", "found"})
    PROVE  IInv'
<1>1. node'[n] = s /\ \A m \in Node \ {n} : node'[m] = node[m]
  BY DEF IInv, TypeOK
<1>2. Fresh'
  BY <1>1 DEF IInv, Fresh
<1>3. RoleOK'
  BY <1>1 DEF IInv, RoleOK
<1>4. HeardClaim'
  BY <1>1 DEF IInv, HeardClaim, Without
<1>5. BothClaim'
  BY <1>1 DEF IInv, BothClaim, Clean, Without
<1>6. ClaimAnswered'
  BY <1>1 DEF IInv, ClaimAnswered, Clean, Without, WillBeHeard
<1>7. OneClaimant'
  BY <1>1 DEF IInv, OneClaimant, Without
<1>8. ExclusiveCoordinator'
  BY <1>1 DEF IInv, ExclusiveCoordinator, Coordinators, Without
<1> QED
  BY <1>2, <1>3, <1>4, <1>5, <1>6, <1>7, <1>8 DEF IInv

\* Nobody becomes coordinator while another one coordinates or waits: either would
\* have been heard within RESPONSE_TIMEOUT of the claim.
LEMMA InvWin ==
    ASSUME IInv, TypeOK', NEW n \in Node, Win(n)
    PROVE  IInv'
<1>1. /\ node[n].st = "Waiting" /\ node[n].age > ResponseTimeout
      /\ node'[n].st = "ANServer" /\ node'[n].job = "start"
      /\ node'[n].out = node[n].out /\ node'[n].age = node[n].age
      /\ \A m \in Node \ {n} : node'[m] = node[m]
      /\ mishap' = mishap
  BY DEF Win, IInv, TypeOK, NodeState
<1>2. node[n].out = NoMsg
  BY <1>1, TimeAssumption DEF IInv, Fresh
<1>3. NoMsg.type # "ANUCVER"
  BY DEF NoMsg, Msg
<1>4. Clean => \A m \in Node \ {n} : node[m].st # "Waiting"
  BY <1>1, <1>2, <1>3 DEF IInv, BothClaim
<1>5. Clean /\ Without({"deaf"}) => \A m \in Node : node[m].st # "ANServer"
  BY <1>1, TimeAssumption, Shape DEF IInv, ClaimAnswered
<1>6. Fresh'
  BY <1>1 DEF IInv, Fresh
<1>7. RoleOK'
  BY <1>1, <1>2, <1>3 DEF IInv, RoleOK, ServerJob
<1>8. HeardClaim'
  BY <1>1 DEF IInv, HeardClaim, Without
<1>9. BothClaim'
  BY <1>1 DEF IInv, BothClaim, Clean, Without
<1>10. ClaimAnswered'
  BY <1>1, <1>4 DEF IInv, ClaimAnswered, Clean, Without, WillBeHeard
<1>11. OneClaimant'
  BY <1>1 DEF IInv, OneClaimant, Without
<1>12. ExclusiveCoordinator'
  BY <1>1, <1>5 DEF IInv, ExclusiveCoordinator, Coordinators, Without, Clean
<1> QED
  BY <1>6, <1>7, <1>8, <1>9, <1>10, <1>11, <1>12 DEF IInv

LEMMA InvTick ==
    ASSUME IInv, TypeOK', Tick
    PROVE  IInv'
<1>1. \A n \in Node : /\ node[n].out = NoMsg
                      /\ node[n].st = "Waiting" => node[n].age <= ResponseTimeout
                      /\ Polling(n) => node[n].age < ResponseTimeout
  BY Shape, TimeAssumption DEF IInv, Tick, Overdue
<1>2. \A n \in Node : /\ node'[n].st = node[n].st /\ node'[n].out = node[n].out
                      /\ node'[n].job = node[n].job
                      /\ node'[n].age = IF node[n].st = "Off" THEN node[n].age
                                        ELSE AgeOf(node[n].age + 1)
  BY DEF Tick, IInv, TypeOK, NodeState
<1>3. \A n \in Node : node[n].age \in Nat /\ node[n].age <= MaxAge
  BY TimeAssumption DEF IInv, TypeOK, NodeState, Age, MaxAge
<1>4. NoMsg.type # "ANUCVER"
  BY DEF NoMsg, Msg
<1>5. mishap' = mishap
  BY DEF Tick
<1>6. Fresh'
  BY <1>1, <1>2 DEF Fresh
<1>7. RoleOK'
  BY <1>1, <1>2, <1>3, TimeAssumption DEF IInv, RoleOK, AgeOf, MaxAge
<1>8. HeardClaim'
  BY <1>2, <1>3, <1>5, TimeAssumption
     DEF IInv, HeardClaim, Without, AgeOf, MaxAge
<1>9. BothClaim'
  BY <1>2, <1>5 DEF IInv, BothClaim, Clean, Without
<1>10. ClaimAnswered'
  <2> SUFFICES ASSUME Clean, Without({"deaf"}), NEW m \in Node, NEW n \in Node,
                      node[m].st = "ANServer", node[n].st = "Waiting"
               PROVE  node'[n].age <= ResponseTimeout /\ WillBeHeard(m, n)'
    BY <1>2, <1>5 DEF ClaimAnswered, Clean, Without
  <2>1. node[m].job \in {"poll", "found"} /\ node[n].age <= node[m].age
    BY <1>1, <1>4 DEF IInv, ClaimAnswered, WillBeHeard
  <2>2. node[m].age < ResponseTimeout
    BY <1>1, <2>1 DEF Polling
  <2> QED
    BY <1>2, <1>3, <2>1, <2>2, TimeAssumption DEF WillBeHeard, AgeOf, MaxAge
<1>11. OneClaimant'
  BY <1>2, <1>5 DEF IInv, OneClaimant, Without
<1>12. ExclusiveCoordinator'
  BY <1>2, <1>5 DEF IInv, ExclusiveCoordinator, Coordinators, Without
<1> QED
  BY <1>6, <1>7, <1>8, <1>9, <1>10, <1>11, <1>12 DEF IInv

\* What a frame does to the state of whoever is wired to the line: it is heard
\* by node m, or it stops m.
HearsOrStops(m, n, msg) ==
    \/ node'[m] = Heard(m, n, msg)
    \/ node'[m] = node[m]
    \/ node'[m] = OffNode

\* Fresh and RoleOK do not depend on what is heard.
LEMMA InvHeard ==
    ASSUME IInv, NEW n \in Node, NEW msg \in Message,
           node'[n] = [node[n] EXCEPT !.out = NoMsg],
           \A m \in Node \ {n} : HearsOrStops(m, n, msg)
    PROVE  Fresh' /\ RoleOK'
<1>1. NoMsg.type # "ANUCVER"
  BY DEF NoMsg, Msg
<1>2. /\ node'[n].out = NoMsg /\ node'[n].st = node[n].st
      /\ node'[n].age = node[n].age /\ node'[n].job = node[n].job
  BY DEF IInv, TypeOK, NodeState
<1>3. ASSUME NEW m \in Node \ {n}
      PROVE  /\ node'[m].out # NoMsg => node'[m].age = 0
             /\ node'[m].st \in {"BecomingA", "BecomingB", "Waiting"} => m \in FFD
             /\ node'[m].st = "Waiting" => node'[m].age <= ResponseTimeout + 1
             /\ node'[m].st = "ANServer" =>
                    node'[m].job \in ServerJob /\ node'[m].out.type # "ANUCVER"
  <2>1. CASE node'[m] = node[m]
    BY <2>1 DEF IInv, Fresh, RoleOK
  <2>2. CASE node'[m] = OffNode
    BY <2>2 DEF OffNode, Boot
  <2>3. CASE node'[m] = Heard(m, n, msg)
    <3>1. CASE node[m].st \in Contending /\ m \in FFD
      BY <2>3, <3>1, ContenderHears, TimeAssumption
         DEF IInv, Fresh, RoleOK, Contending
    <3>2. CASE node[m].st = "ANServer"
      BY <2>3, <3>2, ServerHears, <1>1 DEF IInv, Fresh, RoleOK
    <3>3. CASE node[m].st # "ANServer" /\ ~(node[m].st \in Contending /\ m \in FFD)
      BY <2>3, <3>3, OthersHear DEF IInv, Fresh, RoleOK, Contending
    <3> QED
      BY <3>1, <3>2, <3>3
  <2> QED
    BY <2>1, <2>2, <2>3 DEF HearsOrStops
<1> QED
  BY <1>1, <1>2, <1>3 DEF IInv, Fresh, RoleOK

LEMMA InvLose ==
    ASSUME IInv, TypeOK', NEW n \in Node, Lose(n)
    PROVE  IInv'
<1>1. Msg("garbled", {}) \in Message
  BY DEF Msg, Message, MsgType
<1>2. /\ node'[n] = [node[n] EXCEPT !.out = NoMsg]
      /\ \A m \in Node \ {n} : HearsOrStops(m, n, Msg("garbled", {}))
  BY DEF Lose, HearsOrStops
<1>3. ~Without({"loss"})' /\ ~Without({"loss", "overlap"})' /\ ~Without({"loss", "deaf"})'
  BY DEF Lose, Without
<1>4. Fresh' /\ RoleOK'
  BY <1>1, <1>2, InvHeard
<1> QED
  BY <1>3, <1>4
     DEF IInv, HeardClaim, BothClaim, ClaimAnswered, Clean, OneClaimant, ExclusiveCoordinator

LEMMA InvDeliver ==
    ASSUME IInv, TypeOK', NEW n \in Node, Deliver(n)
    PROVE  IInv'
<1> DEFINE msg == node[n].out
<1>1. /\ msg \in Message /\ msg # NoMsg
      /\ node'[n] = [node[n] EXCEPT !.out = NoMsg]
      /\ mishap \subseteq mishap'
      /\ \A m \in Node \ {n} :
            \/ node'[m] = Heard(m, n, msg)
            \/ node'[m] = OffNode
  BY Shape DEF Deliver, IInv
<1>2. /\ node'[n].out = NoMsg /\ node'[n].st = node[n].st
      /\ node'[n].age = 0 /\ node[n].age = 0 /\ node'[n].job = node[n].job
  BY <1>1 DEF IInv, TypeOK, NodeState, Fresh
<1>3. \A kinds : Without(kinds)' => Without(kinds)
  BY <1>1 DEF Without
<1>4. Fresh' /\ RoleOK'
  BY <1>1, InvHeard DEF HearsOrStops
\* Who waits after the frame waited before it; it is the sender, or it has heard
\* another claim and has no subordinate.
<1>5. ASSUME NEW m \in Node \ {n}, node'[m].st = "Waiting"
      PROVE  /\ node[m].st = "Waiting" /\ msg.type = "ANUCVER"
             /\ node'[m].age = 0 /\ m \notin Sub
             /\ node'[m].out = node[m].out
  <2>1. node'[m] = Heard(m, n, msg)
    BY <1>1, <1>5 DEF OffNode, Boot
  <2>2. node[m].st \in Contending /\ m \in FFD
    BY <1>1, <1>5, <2>1, ServerHears, OthersHear DEF IInv, RoleOK, Contending
  <2> QED
    BY <1>1, <1>5, <2>1, <2>2, ContenderHears DEF IInv, Contending
<1>6. ASSUME NEW m \in Node \ {n}, node'[m].st \in Becoming
      PROVE  \/ node'[m].age = 0
             \/ /\ node[m].st \in Becoming /\ node'[m].age = node[m].age
                /\ msg.type # "ANUCVER"
  <2>1. node'[m] = Heard(m, n, msg)
    BY <1>1, <1>6 DEF OffNode, Boot, Becoming
  <2>2. node[m].st \in Contending /\ m \in FFD
    BY <1>1, <1>6, <2>1, ServerHears, OthersHear
       DEF IInv, RoleOK, Contending, Becoming
  <2> QED
    BY <1>1, <1>6, <2>1, <2>2, ContenderHears DEF IInv
<1>7. ASSUME NEW m \in Node \ {n}, node'[m].st = "ANServer"
      PROVE  /\ node[m].st = "ANServer"
             /\ node'[m].out = node[m].out \/ node'[m].out # NoMsg
             /\ node[m].job \in {"poll", "found"} => node'[m] = node[m]
             /\ msg.type = "ANUCVER" /\ Without({"deaf"})' =>
                    node[m].job \in {"poll", "found"}
  <2>1. node'[m] = Heard(m, n, msg)
    BY <1>1, <1>7 DEF OffNode, Boot
  <2>2. node[m].st = "ANServer"
    BY <1>1, <1>7, <2>1, ContenderHears, OthersHear DEF IInv, Contending
  <2>3. /\ node'[m].out = node[m].out \/ node'[m].out # NoMsg
        /\ node[m].job \in {"poll", "found"} => node'[m] = node[m]
        /\ msg.type = "ANUCVER" => node[m].job \in {"poll", "found", "assign", "lost"}
    BY <1>1, <1>7, <2>1, <2>2, ServerHears DEF IInv, RoleOK
  <2>4. msg.type = "ANUCVER" /\ Without({"deaf"})' => ~InSetAddress(m)
    BY <2>2 DEF Deliver, Without, Hearers
  <2> QED
    BY <2>2, <2>3, <2>4 DEF InSetAddress
<1>8. HeardClaim'
  <2> SUFFICES ASSUME Without({"loss"})', NEW m \in Node, NEW k \in Node, m # k,
                      node'[k].st = "Waiting", node'[k].out.type # "ANUCVER",
                      node'[m].st \in Becoming
               PROVE  node'[m].age <= node'[k].age
    BY DEF HeardClaim, Becoming
  <2>1. CASE m = n
    BY <1>2, <1>5, <2>1
  <2>2. CASE m # n /\ node'[m].age = 0
    BY <2>2, Shape DEF TypeOK, NodeState, Age
  <2>3. CASE m # n /\ node'[m].age # 0
    <3>1. node[m].st \in Becoming /\ node'[m].age = node[m].age /\ msg.type # "ANUCVER"
      BY <1>6, <2>3
    <3>2. k = n
      BY <1>5, <3>1
    <3>3. Without({"loss"}) /\ node[k].st = "Waiting"
      BY <1>2, <1>3, <3>2
    <3>4. node[m].age <= node[k].age
      BY <3>1, <3>2, <3>3 DEF IInv, HeardClaim, Becoming
    <3> QED
      BY <1>2, <3>1, <3>2, <3>4
  <2> QED
    BY <2>1, <2>2, <2>3
<1>9. OneClaimant'
  <2> SUFFICES ASSUME Without({"loss", "overlap"})', NEW m \in Node, NEW k \in Node,
                      node'[m].st = "Waiting", node'[k].st = "Waiting"
               PROVE  m = k
    BY DEF OneClaimant
  <2>1. node[m].st = "Waiting" /\ node[k].st = "Waiting"
    BY <1>2, <1>5
  <2>2. Without({"loss", "overlap"})
    BY <1>3
  <2> QED
    BY <2>1, <2>2 DEF IInv, OneClaimant
<1>10. Clean' =>
         \A m, k \in Node :
            m # k /\ node'[m].st = "Waiting" /\ node'[k].st = "Waiting" => FALSE
  <2> SUFFICES ASSUME Clean', NEW m \in Node, NEW k \in Node, m # k,
                      node'[m].st = "Waiting", node'[k].st = "Waiting"
               PROVE  FALSE
    OBVIOUS
  <2>1. \E j \in {m, k} : j \notin Sub
    BY <1>5
  <2>2. Without({"loss", "overlap"})'
    BY <2>1 DEF Clean, Without
  <2> QED
    BY <1>9, <2>2 DEF OneClaimant
<1>11. BothClaim'
  BY <1>10 DEF BothClaim
<1>12. ClaimAnswered'
  <2> SUFFICES ASSUME Clean', Without({"deaf"})', NEW m \in Node, NEW k \in Node,
                      node'[m].st = "ANServer", node'[k].st = "Waiting"
               PROVE  node'[k].age <= ResponseTimeout /\ WillBeHeard(m, k)'
    BY DEF ClaimAnswered
  <2>1. Clean /\ Without({"deaf"})
    BY <1>1 DEF Clean, Without
  <2>2. node[m].st = "ANServer" /\ node[k].st = "Waiting"
    BY <1>2, <1>5, <1>7
  <2>3. node[k].age <= ResponseTimeout /\ WillBeHeard(m, k)
    BY <2>1, <2>2 DEF IInv, ClaimAnswered
  <2>4. CASE k = n
    <3>1. m # n
      BY <2>2, <2>4
    <3>2. CASE msg.type = "ANUCVER"
      <4>1. node[m].job \in {"poll", "found"} /\ node'[m] = node[m]
        BY <1>7, <3>1, <3>2
      <4>2. node[m].age >= 0
        BY Shape DEF IInv
      <4> QED
        BY <1>2, <2>4, <4>1, <4>2, TimeAssumption DEF WillBeHeard
    <3>3. CASE msg.type # "ANUCVER"
      <4>1. node'[k].age <= ResponseTimeout
        BY <1>2, <2>4, TimeAssumption
      <4>2. CASE node[m].out # NoMsg
        BY <1>7, <3>1, <4>1, <4>2 DEF WillBeHeard
      <4>3. CASE node[m].job \in {"poll", "found"} /\ node[k].age <= node[m].age
        BY <1>2, <1>7, <2>4, <3>1, <4>1, <4>3 DEF WillBeHeard
      <4> QED
        BY <2>3, <2>4, <3>3, <4>2, <4>3 DEF WillBeHeard
    <3> QED
      BY <3>2, <3>3
  <2>5. CASE k # n
    <3>1. msg.type = "ANUCVER" /\ node'[k].age = 0 /\ node'[k].out = node[k].out
      BY <1>5, <2>5
    <3>2. m # n
      BY <2>2, <3>1 DEF IInv, RoleOK
    <3> QED
      BY <1>7, <2>3, <3>1, <3>2, TimeAssumption, Shape DEF WillBeHeard, IInv
  <2> QED
    BY <2>4, <2>5
<1>13. ExclusiveCoordinator'
  <2>1. \A m \in Coordinators' : m \in Coordinators
    BY <1>2, <1>7 DEF Coordinators
  <2> QED
    BY <1>3, <2>1 DEF IInv, ExclusiveCoordinator
<1> QED
  BY <1>4, <1>8, <1>9, <1>11, <1>12, <1>13 DEF IInv

LEMMA InvStep ==
    ASSUME SlotsExceedWait, IInv, TypeOK', NEW n \in Node, Step(n)
    PROVE  IInv'
<1> DEFINE now == node'[n]
<1>1. /\ node[n] \in NodeState /\ now \in NodeState
      /\ node[n].out # NoMsg => node[n].age = 0
      /\ node[n].st \in Becoming => n \in FFD
      /\ node[n].st = "ANServer" =>
             node[n].job \in ServerJob /\ node[n].out.type # "ANUCVER"
  BY DEF IInv, TypeOK, Fresh, RoleOK, Becoming
<1> DEFINE
      Quiet  == /\ node' = [node EXCEPT ![n] = now] /\ mishap \subseteq mishap'
                /\ now.st \notin {"Waiting", "ANServer"}
                /\ now.st \in Becoming =>
                       /\ n \in FFD
                       /\ \/ now.age = 0
                          \/ node[n].st \in Becoming /\ now.age = node[n].age
                /\ now.out # NoMsg => now.age = 0
      Server == /\ node' = [node EXCEPT ![n] = now] /\ UNCHANGED mishap
                /\ node[n].st = "ANServer" /\ now.st = "ANServer"
                /\ now.job \in ServerJob /\ now.out.type # "ANUCVER"
                /\ now.out # NoMsg => now.age = 0
                /\ \/ now.out # NoMsg
                   \/ now.out = node[n].out /\ node[n].job \notin {"poll", "found"}
<1>2. Quiet => IInv'
  BY <1>1, InvQuiet
<1>3. Server => IInv'
  BY <1>1, InvServer
<1> HIDE DEF Quiet, Server
<1>4. CASE PickSlot(n)
  <2> Quiet
    BY <1>1, <1>4 DEF Quiet, PickSlot, Draws, IInv, TypeOK, NodeState, Contending, Becoming
  <2> QED
    BY <1>2
<1>5. CASE SubordinateOnly(n)
  <2> Quiet
    BY <1>1, <1>5 DEF Quiet, SubordinateOnly, IInv, TypeOK, NodeState, Becoming
  <2> QED
    BY <1>2
<1>6. CASE ListenTimeout(n)
  <2> Quiet
    BY <1>1, <1>6 DEF Quiet, ListenTimeout, IInv, TypeOK, NodeState, Becoming
  <2> QED
    BY <1>2
<1>7. CASE Claim(n)
  BY <1>7, InvClaim
<1>8. CASE Win(n)
  BY <1>8, InvWin
\* A message that is not a claim, and not "none".
<1>9. ASSUME NEW msg \in Message, msg.type \notin {"none", "ANUCVER"},
             NEW job \in Job, Sends(n, msg, job),
             \/ node[n].st = "ANServer" /\ job \in ServerJob
             \/ node[n].st = "ANClient"
      PROVE  IInv'
  <2>1. /\ node' = [node EXCEPT ![n] = now] /\ UNCHANGED mishap
        /\ now.out = msg /\ now.age = 0 /\ now.job = job /\ now.st = node[n].st
    BY <1>1, <1>9 DEF Sends, IInv, TypeOK, NodeState
  <2>2. msg # NoMsg
    BY <1>9 DEF NoMsg, Msg
  <2>3. CASE node[n].st = "ANServer" /\ job \in ServerJob
    BY <1>3, <1>9, <2>1, <2>2, <2>3 DEF Server
  <2>4. CASE node[n].st = "ANClient"
    BY <1>2, <2>1, <2>4 DEF Quiet, Becoming
  <2> QED
    BY <1>9, <2>3, <2>4
<1>10. CASE Discover(n)
  <2>1. Msg("NDSCVRY", Node) \in Message /\ Msg("NDSCVRY", Node).type = "NDSCVRY"
    BY DEF Msg, Message, MsgType
  <2> QED
    BY <1>9, <1>10, <2>1 DEF Discover, Job, ServerJob
<1>11. CASE DiscoverTimeout(n)
  <2> Server
    BY <1>1, <1>11 DEF Server, DiscoverTimeout, IInv, TypeOK, NodeState, ServerJob
  <2> QED
    BY <1>3
<1>12. CASE Poll(n)
  <2>1. PICK to \in {{}} \cup {{m} : m \in Node \ {n}}, type \in {"R2R", "ADDRCNFM"} :
            Sends(n, Msg(type, to), node[n].job)
    BY <1>12 DEF Poll
  <2>2. Msg(type, to) \in Message /\ Msg(type, to).type = type
    BY DEF Msg, Message, MsgType
  <2>3. node[n].job \in Job
    BY <1>1 DEF NodeState
  <2>4. \/ node[n].st = "ANServer" /\ node[n].job \in ServerJob
        \/ node[n].st = "ANClient"
    BY <1>1, <1>12 DEF Poll, Polling
  <2> QED
    BY <1>9, <2>1, <2>2, <2>3, <2>4
<1>13. CASE Assign(n)
  <2>1. PICK m \in Node \ {n} : Sends(n, Msg("SADDR", {m}), "assign")
    BY <1>13 DEF Assign
  <2>2. Msg("SADDR", {m}) \in Message /\ Msg("SADDR", {m}).type = "SADDR"
    BY DEF Msg, Message, MsgType
  <2> QED
    BY <1>9, <1>13, <2>1, <2>2 DEF Assign, Job, ServerJob
<1>14. CASE AssignTimeout(n)
  <2> Server
    BY <1>1, <1>14 DEF Server, AssignTimeout, IInv, TypeOK, NodeState, ServerJob
  <2> QED
    BY <1>3
<1>15. CASE EndTail(n)
  <2> Quiet
    BY <1>1, <1>15 DEF Quiet, EndTail, IInv, TypeOK, NodeState, Becoming
  <2> QED
    BY <1>2
<1>16. CASE Answer(n)
  <2>1. Msg("NDSCVRY_RESP", {}) \in Message
        /\ Msg("NDSCVRY_RESP", {}).type = "NDSCVRY_RESP"
    BY DEF Msg, Message, MsgType
  <2> QED
    BY <1>9, <1>16, <2>1 DEF Answer, Job
<1>17. CASE AwaitTimeout(n)
  <2> Quiet
    BY <1>1, <1>17 DEF Quiet, AwaitTimeout, IInv, TypeOK, NodeState, Becoming
  <2> QED
    BY <1>2
<1>18. CASE LeaveNetwork(n)
  <2> Quiet
    BY <1>1, <1>18 DEF Quiet, LeaveNetwork, IInv, TypeOK, NodeState, Becoming
  <2> QED
    BY <1>2
<1> QED
  BY <1>4, <1>5, <1>6, <1>7, <1>8, <1>10, <1>11, <1>12, <1>13, <1>14, <1>15, <1>16,
     <1>17, <1>18 DEF Step

LEMMA InvPower ==
    ASSUME IInv, TypeOK', NEW n \in Node, PowerOn(n) \/ PowerOff(n)
    PROVE  IInv'
<1>1. PICK s \in {OffNode, Boot(0), Boot(MaxAge)} :
          node' = [node EXCEPT ![n] = s] /\ mishap \subseteq mishap'
  BY DEF PowerOn, PowerOff
<1>2. s.st \in {"Off", "None"} /\ s.out = NoMsg
  BY DEF OffNode, Boot
<1>3. s \in NodeState
  BY <1>1 DEF TypeOK, IInv
<1> QED
  BY <1>1, <1>2, <1>3, InvQuiet DEF Becoming

LEMMA InvNext ==
    ASSUME SlotsExceedWait
    PROVE  IInv /\ [Next]_vars => IInv'
<1> SUFFICES ASSUME IInv, [Next]_vars
             PROVE  IInv'
  OBVIOUS
<1>1. TypeOK'
  BY TypeNext DEF IInv
<1>2. CASE Next
  BY <1>1, <1>2, InvStep, InvDeliver, InvLose, InvPower, InvTick DEF Next
<1>3. CASE UNCHANGED vars
  BY <1>3 DEF vars, IInv, TypeOK, Fresh, RoleOK, HeardClaim, BothClaim, Clean,
              ClaimAnswered, WillBeHeard, OneClaimant, ExclusiveCoordinator,
              Coordinators, Without
<1> QED
  BY <1>2, <1>3

\* IInv is an invariant when every slot delay is longer than RESPONSE_TIMEOUT.
THEOREM Invariant ==
    ASSUME SlotsExceedWait
    PROVE  Spec => []IInv
<1> QED
  BY InvInit, InvNext, PTL DEF Spec

\* Two devices never wait for the answer to their own claim at once, unless a
\* frame was destroyed or two claims were under way together.
THEOREM OneClaimantHolds ==
    ASSUME SlotsExceedWait
    PROVE  Spec => []OneClaimant
<1>1. IInv => OneClaimant
  BY DEF IInv
<1> QED
  BY <1>1, Invariant, PTL

\* There is one coordinator at most, unless a frame was destroyed, a claim reached
\* a coordinator inside reqRespSetAddress, or two claims were under way together
\* while some device has no subordinate.
THEOREM ExclusiveCoordinatorHolds ==
    ASSUME SlotsExceedWait
    PROVE  Spec => []ExclusiveCoordinator
<1>1. IInv => ExclusiveCoordinator
  BY DEF IInv
<1> QED
  BY <1>1, Invariant, PTL

-----------------------------------------------------------------------------
(* A coordinator or a contender steps down only for a live claim.          *)

Unharmed == Without({"loss", "overlap", "outage"})

\* Whoever has a claim on its way to the line is the only one, has power, and
\* has not become a client meanwhile.
ClaimIsLive ==
    Unharmed =>
        \A n \in Node :
            node[n].out.type = "ANUCVER" =>
                /\ n \in FFD /\ node[n].st \notin {"Off", "ANClient"}
                /\ ~ClaimUnderWay(n)

SInv == TypeOK /\ ClaimIsLive /\ SomeoneContends

LEMMA SInvInit == Init => SInv
<1> SUFFICES ASSUME Init
             PROVE  SInv
  OBVIOUS
<1>1. \A n \in Node : node[n].st = "Off" /\ node[n].out.type = "none"
  BY DEF Init, OffNode, Boot, NoMsg, Msg
<1>2. PoweredFFD = {}
  BY <1>1, NodeAssumption DEF PoweredFFD
<1> QED
  BY <1>1, <1>2, TypeInit DEF SInv, ClaimIsLive, SomeoneContends

\* A step of one node alone that neither claims, nor makes a client of a node
\* able to coordinate, nor switches it off.
LEMMA SInvAlone ==
    ASSUME SInv, TypeOK', NEW n \in Node, NEW s,
           node' = [node EXCEPT ![n] = s], mishap \subseteq mishap',
           s.st = "ANClient" /\ n \in FFD => node[n].st = "ANClient",
           s.st = "Off" => node[n].st = "Off",
           s.out.type = "ANUCVER" => node[n].out.type = "ANUCVER"
    PROVE  SInv'
<1>1. node'[n] = s /\ \A m \in Node \ {n} : node'[m] = node[m]
  BY DEF SInv, TypeOK
<1>2. Unharmed' => Unharmed
  BY DEF Unharmed, Without
<1>3. ClaimIsLive'
  BY <1>1, <1>2 DEF SInv, ClaimIsLive, ClaimUnderWay
<1>4. SomeoneContends'
  <2> SUFFICES ASSUME Unharmed', PoweredFFD' # {}
               PROVE  \E w \in PoweredFFD' : node'[w].st # "ANClient"
    BY DEF SomeoneContends, Unharmed
  <2>1. CASE PoweredFFD = {}
    <3>1. PICK w \in PoweredFFD' : TRUE
      OBVIOUS
    <3>2. w = n /\ w \in FFD /\ node[n].st = "Off"
      BY <1>1, <2>1, <3>1, NodeAssumption DEF PoweredFFD
    <3> QED
      BY <1>1, <3>1, <3>2
  <2>2. CASE PoweredFFD # {}
    <3>1. PICK w \in PoweredFFD : node[w].st # "ANClient"
      BY <1>2, <2>2 DEF SInv, SomeoneContends, Unharmed
    <3>2. w \in FFD /\ w \in Node /\ node[w].st # "Off"
      BY <3>1, NodeAssumption DEF PoweredFFD
    <3>3. node'[w].st # "ANClient" /\ node'[w].st # "Off"
      BY <1>1, <3>1, <3>2
    <3> QED
      BY <3>2, <3>3 DEF PoweredFFD
  <2> QED
    BY <2>1, <2>2
<1> QED
  BY <1>3, <1>4 DEF SInv

\* What of a node that hears a frame matters here.
LEMMA HearingClaims ==
    ASSUME TypeOK, NEW m \in Node, NEW k \in Node, NEW msg \in Message
    PROVE  LET h == Heard(m, k, msg) IN
           /\ h.st = "Off" <=> node[m].st = "Off"
           /\ h.st = "ANClient" => node[m].st = "ANClient" \/ msg.type = "ANUCVER"
           /\ h.out.type = "ANUCVER" => node[m].out.type = "ANUCVER"
<1>1. node[m] \in NodeState
  BY DEF TypeOK
<1>2. CASE node[m].st \in Contending /\ m \in FFD
  <2>1. Heard(m, k, msg) = HearContending(m, k, msg)
    BY <1>2 DEF Heard, Contending
  <2>2. CASE msg.type = "ANUCVER"
    <3>1. Heard(m, k, msg) = BecomeClient(m, k)
      BY <2>1, <2>2 DEF HearContending
    <3> QED
      BY <1>1, <1>2, <2>2, <3>1 DEF BecomeClient, NodeState, Contending
  <2>3. CASE msg.type # "ANUCVER"
    BY <1>1, <1>2, <2>1, <2>3 DEF HearContending, Restart, NodeState, Contending
  <2> QED
    BY <2>2, <2>3
<1>3. CASE node[m].st = "ANServer"
  <2>1. Heard(m, k, msg) = HearServer(m, msg)
    BY <1>3 DEF Heard, Contending
  <2> QED
    BY <1>1, <1>3, <2>1 DEF HearServer, HearDiscover, NodeState, Msg
<1>4. CASE node[m].st = "ANClient" /\ node[m].job # "tail" /\ node[m].enrolled
  BY <1>1, <1>4 DEF Heard, HearEnrolled, Reply, NodeState, Contending, Msg
<1>5. CASE node[m].st = "ANClient" /\ node[m].job # "tail" /\ ~node[m].enrolled
  BY <1>1, <1>5 DEF Heard, HearUnenrolled, Reply, NodeState, Contending, Msg
<1>6. CASE ~(node[m].st \in Contending /\ m \in FFD) /\ node[m].st # "ANServer"
           /\ ~(node[m].st = "ANClient" /\ node[m].job # "tail")
  BY <1>1, <1>6 DEF Heard
<1> QED
  BY <1>2, <1>3, <1>4, <1>5, <1>6

\* Whoever steps down when a claim is delivered leaves the claimant contending.
LEMMA SInvDeliver ==
    ASSUME SInv, TypeOK', NEW n \in Node, Deliver(n)
    PROVE  SInv'
<1> SUFFICES ASSUME Unharmed'
             PROVE  ClaimIsLive' /\ SomeoneContends'
  BY DEF SInv, ClaimIsLive, SomeoneContends, Unharmed
<1> DEFINE msg == node[n].out
<1>1. /\ msg \in Message
      /\ node'[n] = [node[n] EXCEPT !.out = NoMsg]
      /\ \A m \in Node \ {n} : node'[m] = Heard(m, n, msg)
      /\ Unharmed
  <2>1. mishap \subseteq mishap' /\ "outage" \notin mishap'
    BY DEF Deliver, Unharmed, Without
  <2>2. \A m \in Node \ {n} : node'[m] = Heard(m, n, msg)
    BY <2>1 DEF Deliver
  <2> QED
    BY <2>1, <2>2, Shape DEF Deliver, Unharmed, Without, SInv
<1>2. node'[n].st = node[n].st /\ node'[n].out.type = "none"
  BY <1>1 DEF SInv, TypeOK, NodeState, NoMsg, Msg
<1>3. \A m \in Node \ {n} :
        /\ node'[m].st = "Off" <=> node[m].st = "Off"
        /\ node'[m].st = "ANClient" => node[m].st = "ANClient" \/ msg.type = "ANUCVER"
        /\ node'[m].out.type = "ANUCVER" => node[m].out.type = "ANUCVER"
  BY <1>1, HearingClaims DEF SInv
<1>4. CASE msg.type = "ANUCVER"
  <2>1. n \in FFD /\ node[n].st \notin {"Off", "ANClient"} /\ ~ClaimUnderWay(n)
    BY <1>1, <1>4 DEF SInv, ClaimIsLive
  <2>2. \A m \in Node : node'[m].out.type # "ANUCVER"
    BY <1>2, <1>3, <2>1 DEF ClaimUnderWay
  <2>3. n \in PoweredFFD' /\ node'[n].st # "ANClient"
    BY <1>2, <2>1 DEF PoweredFFD
  <2> QED
    BY <2>2, <2>3 DEF ClaimIsLive, SomeoneContends
<1>5. CASE msg.type # "ANUCVER"
  <2>1. ClaimIsLive'
    BY <1>1, <1>2, <1>3, <1>5 DEF SInv, ClaimIsLive, ClaimUnderWay
  <2>2. SomeoneContends'
    <3> SUFFICES ASSUME PoweredFFD' # {}
                 PROVE  \E w \in PoweredFFD' : node'[w].st # "ANClient"
      BY DEF SomeoneContends
    <3>1. PoweredFFD' = PoweredFFD
      BY <1>2, <1>3, NodeAssumption DEF PoweredFFD
    <3>2. PICK w \in PoweredFFD : node[w].st # "ANClient"
      BY <1>1, <3>1 DEF SInv, SomeoneContends, Unharmed
    <3>3. w \in Node
      BY NodeAssumption DEF PoweredFFD
    <3> QED
      BY <1>2, <1>3, <1>5, <3>1, <3>2, <3>3
  <2> QED
    BY <2>1, <2>2
<1> QED
  BY <1>4, <1>5

LEMMA SInvClaim ==
    ASSUME SInv, TypeOK', NEW n \in Node, Claim(n)
    PROVE  SInv'
<1> SUFFICES ASSUME Unharmed'
             PROVE  ClaimIsLive' /\ SomeoneContends'
  BY DEF SInv, ClaimIsLive, SomeoneContends, Unharmed
<1>1. /\ n \in FFD /\ node'[n].st = "Waiting"
      /\ \A m \in Node \ {n} : node'[m] = node[m]
  BY DEF Claim, SInv, TypeOK, NodeState
<1>2. ~ClaimUnderWay(n)
  BY DEF Claim, Unharmed, Without
<1>3. ClaimIsLive'
  BY <1>1, <1>2 DEF ClaimIsLive, ClaimUnderWay
<1>4. n \in PoweredFFD' /\ node'[n].st # "ANClient"
  BY <1>1 DEF PoweredFFD
<1> QED
  BY <1>3, <1>4 DEF SomeoneContends

LEMMA SInvStep ==
    ASSUME SInv, TypeOK', NEW n \in Node, Step(n)
    PROVE  SInv'
<1> DEFINE now == node'[n]
      Alone == /\ node' = [node EXCEPT ![n] = now] /\ mishap \subseteq mishap'
               /\ now.st = "ANClient" /\ n \in FFD => node[n].st = "ANClient"
               /\ now.st = "Off" => node[n].st = "Off"
               /\ now.out.type = "ANUCVER" => node[n].out.type = "ANUCVER"
<1>1. Alone => SInv'
  BY SInvAlone
<1>2. node[n] \in NodeState /\ node \in [Node -> NodeState]
  BY DEF SInv, TypeOK
<1> HIDE DEF Alone
<1>3. CASE PickSlot(n)
  BY <1>1, <1>2, <1>3 DEF Alone, PickSlot, NodeState
<1>4. CASE SubordinateOnly(n)
  BY <1>1, <1>2, <1>4 DEF Alone, SubordinateOnly, NodeState
<1>5. CASE ListenTimeout(n)
  BY <1>1, <1>2, <1>5 DEF Alone, ListenTimeout, NodeState
<1>6. CASE Claim(n)
  BY <1>6, SInvClaim
<1>7. CASE Win(n)
  BY <1>1, <1>2, <1>7 DEF Alone, Win, NodeState
<1>8. ASSUME NEW msg, NEW job, msg.type # "ANUCVER", Sends(n, msg, job)
      PROVE  SInv'
  BY <1>1, <1>2, <1>8 DEF Alone, Sends, NodeState
<1>9. CASE Discover(n)
  BY <1>8, <1>9 DEF Discover, Msg
<1>10. CASE DiscoverTimeout(n)
  BY <1>1, <1>2, <1>10 DEF Alone, DiscoverTimeout, NodeState
<1>11. CASE Poll(n)
  BY <1>8, <1>11 DEF Poll, Msg
<1>12. CASE Assign(n)
  BY <1>8, <1>12 DEF Assign, Msg
<1>13. CASE AssignTimeout(n)
  BY <1>1, <1>2, <1>13 DEF Alone, AssignTimeout, NodeState
<1>14. CASE EndTail(n)
  BY <1>1, <1>2, <1>14 DEF Alone, EndTail, NodeState
<1>15. CASE Answer(n)
  BY <1>8, <1>15 DEF Answer, Msg
<1>16. CASE AwaitTimeout(n)
  BY <1>1, <1>2, <1>16 DEF Alone, AwaitTimeout, NodeState
<1>17. CASE LeaveNetwork(n)
  BY <1>1, <1>2, <1>17 DEF Alone, LeaveNetwork, NodeState
<1> QED
  BY <1>3, <1>4, <1>5, <1>6, <1>7, <1>9, <1>10, <1>11, <1>12, <1>13, <1>14, <1>15,
     <1>16, <1>17 DEF Step

LEMMA SInvNext == SInv /\ [Next]_vars => SInv'
<1> SUFFICES ASSUME SInv, [Next]_vars
             PROVE  SInv'
  OBVIOUS
<1>1. TypeOK'
  BY TypeNext DEF SInv
<1>2. ASSUME NEW n \in Node, Lose(n)
      PROVE  SInv'
  <2>1. ~Unharmed'
    BY <1>2 DEF Lose, Unharmed, Without
  <2> QED
    BY <1>1, <2>1 DEF SInv, ClaimIsLive, SomeoneContends, Unharmed
<1>3. ASSUME NEW n \in Node, PowerOn(n)
      PROVE  SInv'
  <2>1. PICK age \in {0, MaxAge} : node' = [node EXCEPT ![n] = Boot(age)]
    BY <1>3 DEF PowerOn
  <2>2. Boot(age).st = "None" /\ Boot(age).out.type = "none"
    BY DEF Boot, NoMsg, Msg
  <2> QED
    BY <1>1, <1>3, <2>1, <2>2, SInvAlone DEF PowerOn
<1>4. ASSUME NEW n \in Node, PowerOff(n)
      PROVE  SInv'
  <2>1. ~Unharmed'
    BY <1>4 DEF PowerOff, Unharmed, Without
  <2> QED
    BY <1>1, <2>1 DEF SInv, ClaimIsLive, SomeoneContends, Unharmed
<1>5. ASSUME \A n \in Node : node'[n].st = node[n].st /\ node'[n].out = node[n].out,
             mishap' = mishap
      PROVE  SInv'
  <2>1. PoweredFFD' = PoweredFFD
    BY <1>5, NodeAssumption DEF PoweredFFD
  <2>2. ClaimIsLive'
    BY <1>5 DEF SInv, ClaimIsLive, ClaimUnderWay, Unharmed, Without
  <2>3. SomeoneContends'
    BY <1>5, <2>1, NodeAssumption DEF SInv, SomeoneContends, Without, PoweredFFD
  <2> QED
    BY <1>1, <2>2, <2>3 DEF SInv
<1>6. CASE Tick
  <2>1. \A n \in Node : node'[n].st = node[n].st /\ node'[n].out = node[n].out
    BY <1>6 DEF Tick, SInv, TypeOK, NodeState
  <2> QED
    BY <1>5, <1>6, <2>1 DEF Tick
<1>7. CASE UNCHANGED vars
  BY <1>5, <1>7 DEF vars
<1> QED
  BY <1>1, <1>2, <1>3, <1>4, <1>6, <1>7, SInvStep, SInvDeliver DEF Next

\* While no frame is destroyed, no claims overlap and nobody loses power, the
\* powered devices able to coordinate never all end up as clients, whatever the
\* timing: the coordinator or contender that steps down hears a live claim.
THEOREM SomeoneContendsHolds == Spec => []SomeoneContends
<1>1. SInv => SomeoneContends
  BY DEF SInv
<1> QED
  BY <1>1, SInvInit, SInvNext, PTL DEF Spec

=============================================================================
