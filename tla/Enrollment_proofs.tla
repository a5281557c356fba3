------------------------- MODULE Enrollment_proofs -------------------------
(***************************************************************************)
(* For any devices, addresses and sessions, and whatever is lost: the      *)
(* loopServer of Enrollment keeps to the table of NodeTable, and as long   *)
(* as none of the mishaps happens every client that holds an address is    *)
(* listed there, so that no two hold the same.                             *)
(***************************************************************************)
EXTENDS Enrollment, NodeTable_proofs

-----------------------------------------------------------------------------
(* Every step is a step of NodeTable or leaves the table alone.            *)

LEMMA ExchangeImplements ==
    ASSUME NEW i \in list \ {0}, Exchange(i)
    PROVE  [Next]_vars
BY DEF Exchange, Answered, Unanswered, Next

LEMMA PrimaryEnrollable ==
    ASSUME Primary \in list
    PROVE  Primary \in list \ {0}
BY DEF Primary

LEMMA ServerImplements ==
    ASSUME NetIInv, Server
    PROVE  [Next]_vars
<1>1. CASE StartPoll \/ DiscoveryTimeout \/ TellAddress \/ OfferToken \/ EndTokens \/ EndNet2
  BY <1>1 DEF StartPoll, DiscoveryTimeout, TellAddress, OfferToken, EndTokens, EndNet2
<1>2. CASE StartCycle \/ SeekPrimary \/ NodeIdTimeout \/ ReplyTimeout \/ IssueList \/ RollOn
  BY <1>2 DEF StartCycle, SeekPrimary, NodeIdTimeout, ReplyTimeout, IssueList, RollOn,
              Next, Timeout
<1>3. CASE AskThenDiscover
  BY <1>3, PrimaryEnrollable, ExchangeImplements DEF AskThenDiscover
<1>4. CASE TokenTurn
  BY <1>4, ExchangeImplements DEF TokenTurn
<1>5. CASE AskNet2
  BY <1>5, ExchangeImplements DEF AskNet2, Exchange
<1>6. CASE AskRolled
  BY <1>6, ExchangeImplements DEF AskRolled, NetIInv
<1> QED
  BY <1>1, <1>2, <1>3, <1>4, <1>5, <1>6 DEF Server

LEMMA NextJobs == NextJob \in {"poll", "assign"}
BY DEF NextJob

LEMMA StepImplements ==
    ASSUME NetIInv, [NetNext]_netVars
    PROVE  [Next]_vars
<1>1. CASE Server
  BY <1>1, ServerImplements
<1>2. ASSUME NEW c \in Library, AnswerDiscovery(c)
      PROVE  [Next]_vars
  <2>1. c \in Device
    BY EnrollmentAssumption
  <2>2. \E s \in Session : Discovered(c, s, NextJob)
    BY <1>2 DEF AnswerDiscovery
  <2> QED
    BY <2>1, <2>2, NextJobs DEF Next
<1>3. ASSUME NEW c \in Library,
             Reply(c) \/ LoseAnswer(c) \/ AwaitTimeout(c) \/ Leave(c) \/ Reboot(c)
      PROVE  [Next]_vars
  BY <1>3 DEF Reply, LoseAnswer, AwaitTimeout, Leave, Reboot, Next
<1>4. ASSUME NEW d \in Device, ForeignDiscovery(d) \/ ForeignNodeId(d)
      PROVE  [Next]_vars
  <2>1. CASE ForeignDiscovery(d)
    <3>1. \E s \in Session : Discovered(d, s, NextJob)
      BY <2>1 DEF ForeignDiscovery
    <3> QED
      BY <3>1, NextJobs DEF Next
  <2>2. CASE ForeignNodeId(d)
    BY <2>2 DEF ForeignNodeId, Next
  <2> QED
    BY <1>4, <2>1, <2>2
<1>5. CASE ForeignReply \/ TimePasses \/ Intrude \/ RestartServer
  BY <1>5 DEF ForeignReply, TimePasses, Intrude, RestartServer, Next
<1>6. CASE UNCHANGED netVars
  BY <1>6 DEF netVars
<1> QED
  BY <1>1, <1>2, <1>3, <1>4, <1>5, <1>6 DEF NetNext, Client, Foreign

-----------------------------------------------------------------------------
(* What happens to the entries of the enrolled clients.                    *)

\* Index j still holds the device that it held, on line.
Lives(j) ==
    /\ j \in list'
    /\ nodes'[j].dev = nodes[j].dev
    /\ nodes'[j].session = nodes[j].session
    /\ nodes[j].status # "OffLine" => nodes'[j].status # "OffLine"

\* The search of nodeExists returns an entry of the device it was made for.
LEMMA NodeExistsMatches ==
    ASSUME TypeOK, NEW d, NEW s, NodeExists(d, s) # 0
    PROVE  nodes[NodeExists(d, s)].dev = d
<1> DEFINE found == {i \in list \ {0} : nodes[i].dev = d /\ nodes[i].session = s}
<1>1. found \in SUBSET Nat
  <2>1. list \subseteq Nat
    BY NodeTableAssumption DEF TypeOK, Address
  <2> QED
    BY <2>1
<1>2. found # {}
  BY DEF NodeExists, First
<1>3. First(found) \in found
  BY <1>1, <1>2, FirstIn
<1> QED
  BY <1>3 DEF NodeExists

LEMMA UnchangedLives ==
    ASSUME NEW j \in list, UNCHANGED table
    PROVE  Lives(j)
BY DEF table, Lives

LEMMA AddedElsewhereLives ==
    ASSUME TypeOK, NEW n, NEW i, AddNode(n, i), NEW j \in list, j # i
    PROVE  Lives(j)
<1>1. j \in Address
  BY DEF TypeOK
<1>2. nodes'[j] = nodes[j] /\ j \in list'
  BY <1>1 DEF AddNode, TypeOK
<1> QED
  BY <1>2 DEF Lives

\* An answer to a discovery request leaves all entries alone, and what is found
\* for it is no entry of another device.
LEMMA DiscoveredLives ==
    ASSUME TypeOK, NEW d \in Device, NEW s, NEW next, Discovered(d, s, next),
           NEW j \in list \ {0}
    PROVE  Lives(j) /\ (at' = j => nodes[j].dev = d)
<1>1. CASE NodeExists(d, s) # 0
  <2>1. at' = NodeExists(d, s) /\ UNCHANGED table
    BY <1>1 DEF Discovered
  <2> QED
    BY <1>1, <2>1, NodeExistsMatches, UnchangedLives
<1>2. CASE NodeExists(d, s) = 0 /\ NextNodeLocation(d) = 0
  <2>1. at' = 0 /\ UNCHANGED table
    BY <1>2 DEF Discovered
  <2> QED
    BY <2>1, UnchangedLives
<1>3. CASE NodeExists(d, s) = 0 /\ NextNodeLocation(d) # 0
  <2>1. /\ at' = NextNodeLocation(d)
        /\ AddNode(NewNode(d, s, "Unverified"), NextNodeLocation(d))
    BY <1>3 DEF Discovered
  <2>2. NextNodeLocation(d) \notin list
    BY <1>3, NextNodeLocationFree
  <2> QED
    BY <2>1, <2>2, AddedElsewhereLives
<1> QED
  BY <1>1, <1>2, <1>3

LEMMA AskAnsweredLives ==
    ASSUME TypeOK, NEW d \in Device, NEW s, AskAnswered(d, s), NEW j \in list \ {0},
           ~ (j = at /\ job \in {"poll", "assign"})
    PROVE  Lives(j)
<1>1. CASE UNCHANGED table
  BY <1>1, UnchangedLives
<1>2. ASSUME job = "reassign", NextNodeLocation(d) # 0, NEW n,
             AddNode(n, NextNodeLocation(d))
      PROVE  Lives(j)
  <2>1. NextNodeLocation(d) \notin list
    BY <1>2, NextNodeLocationFree
  <2> QED
    BY <1>2, <2>1, AddedElsewhereLives
<1>3. ASSUME job \in {"poll", "assign"}, NEW n, AddNode(n, at)
      PROVE  Lives(j)
  BY <1>3, AddedElsewhereLives
<1> QED
  BY <1>1, <1>2, <1>3 DEF AskAnswered

LEMMA AskTimeoutLives ==
    ASSUME TableInv, AskTimeout, NEW j \in list \ {0}
    PROVE  Lives(j)
<1>1. j \in Address /\ list' = list /\ nodes \in [Address -> Node \cup {NoNode}]
  BY DEF TableInv, TypeOK, AskTimeout
<1>2. CASE UNCHANGED nodes
  BY <1>1, <1>2 DEF Lives
<1>3. CASE job = "poll" /\ nodes' = [nodes EXCEPT ![at].status = "Verified"]
  <2>1. nodes[at] \in Node /\ at \in Address
    BY <1>3 DEF TableInv, PointersAgree, TypeOK
  <2>2. nodes'[j] = IF j = at THEN [nodes[at] EXCEPT !.status = "Verified"] ELSE nodes[j]
    BY <1>1, <1>3, <2>1
  <2> QED
    BY <1>1, <2>1, <2>2 DEF Lives, Node
<1> QED
  BY <1>2, <1>3 DEF AskTimeout

LEMMA FallSilentLives ==
    ASSUME TableInv, NEW i \in list \ {0}, FallSilent(i), NEW j \in list \ {0},
           i # j \/ nodes[i].status = "OffLine"
    PROVE  Lives(j)
<1>1. j \in Address /\ i \in Address /\ list' = list /\ nodes[i] \in Node
  BY DEF TableInv, TypeOK, PointersAgree, FallSilent
<1>2. nodes'[j] = IF j = i THEN [nodes[i] EXCEPT !.status = "OffLine"] ELSE nodes[j]
  BY <1>1 DEF TableInv, TypeOK, FallSilent
<1> QED
  BY <1>1, <1>2 DEF Lives, Node

LEMMA RemoveOfflineLives ==
    ASSUME TableInv, RemoveOfflineDevices, NEW j \in list \ {0}, nodes[j].status # "OffLine"
    PROVE  Lives(j)
<1>1. j \in Address /\ j \notin Offline
  BY DEF TableInv, TypeOK, Offline
<1>2. \E gone \in SUBSET Offline :
         /\ list' = list \ gone
         /\ nodes' = [i \in Address |-> IF i \in gone THEN NoNode ELSE nodes[i]]
  BY DEF RemoveOfflineDevices, DelNodes
<1> QED
  BY <1>1, <1>2 DEF Lives

-----------------------------------------------------------------------------
(* The parts of the invariant.                                             *)

Typed ==
    /\ addr \in [Library -> Address]
    /\ sess \in [Library -> Session]
    /\ wait \in [Library -> Wait]
    /\ fresh \subseteq Library
    /\ phase \in Phase
    /\ poll \in Poll
    /\ mishap \subseteq Mishaps

Phases ==
    /\ phase = "tell" => job = "set"
    /\ phase = "ask" => rolled \in list \ {0}

Waits == \A c \in Library : wait[c] \in {"slot", "await"} => addr[c] = 0

LEMMA Parts == NetIInv <=> TableInv /\ Typed /\ Phases /\ Waits /\ Agreement /\ NobodyAt
BY DEF NetIInv, NetTypeOK, TableInv, Typed, Phases, Waits

LEMMA PartsNext ==
    NetIInv' <=> TableInv' /\ Typed' /\ Phases' /\ Waits' /\ Agreement' /\ NobodyAt'
BY DEF NetIInv, NetTypeOK, TableInv, Typed, Phases, Waits

\* No mishap has happened, now or before.
Fine == mishap' = {} => mishap = {}

LEMMA AgreementKept ==
    ASSUME NetIInv, Fine,
           \A c \in Library : \/ addr'[c] = 0
                              \/ /\ addr'[c] = addr[c] /\ sess'[c] = sess[c]
                                 /\ mishap' = {} => Lives(addr[c])
    PROVE  Agreement'
<1> SUFFICES ASSUME mishap' = {}, NEW c \in Library, addr'[c] # 0
             PROVE  Registered(c)'
  BY DEF Agreement
<1>1. addr'[c] = addr[c] /\ sess'[c] = sess[c] /\ Lives(addr[c])
  OBVIOUS
<1>2. Registered(c)
  BY <1>1 DEF NetIInv, Agreement, Fine
<1> QED
  BY <1>1, <1>2 DEF Registered, Lives, IsFor

\* The device that answers or does not, and the enrolled clients.
LEMMA ExchangeOK ==
    ASSUME NetIInv, NEW i \in list \ {0}, Exchange(i)
    PROVE  /\ fresh' \subseteq Library
           /\ mishap' \subseteq Mishaps
           /\ Fine
           /\ UNCHANGED <<list, highest, cursor, job, at, rolled, answers>>
           /\ mishap' = {} => \A c \in Library : addr[c] # 0 => Lives(addr[c])
<1>1. CASE Answered(i)
  <2>1. UNCHANGED <<vars, mishap>>
    BY <1>1 DEF Answered
  <2>2. fresh' \subseteq Library
    BY <1>1 DEF Answered, Refresh, Holders, NetIInv, NetTypeOK
  <2>3. ASSUME mishap = {}, NEW c \in Library, addr[c] # 0
        PROVE  Lives(addr[c])
    <3>1. addr[c] \in list
      BY <2>3 DEF NetIInv, Agreement, Registered
    <3> QED
      BY <2>1, <3>1, UnchangedLives DEF vars, table
  <2> QED
    BY <2>1, <2>2, <2>3 DEF vars, Fine, NetIInv, NetTypeOK
<1>2. CASE Unanswered(i)
  <2> DEFINE there == IF nodes[i].status = "OffLine" THEN {} ELSE Holders(i)
  <2>1. /\ there # {} => "silenced" \in Mishaps
        /\ mishap' = IF there # {} THEN mishap \cup {"silenced"} ELSE mishap
        /\ \E heard \in SUBSET there : Refresh(heard)
        /\ FallSilent(i)
    BY <1>2 DEF Unanswered
  <2>2. there \subseteq Library
    BY DEF Holders
  <2> HIDE DEF there
  <2>3. fresh' \subseteq Library /\ mishap' \subseteq Mishaps /\ Fine
    BY <2>1, <2>2 DEF Refresh, NetIInv, NetTypeOK, Fine
  <2>4. ASSUME mishap' = {}, NEW c \in Library, addr[c] # 0
        PROVE  Lives(addr[c])
    <3>1. Registered(c)
      BY <2>3, <2>4 DEF Fine, NetIInv, Agreement
    <3>2. there = {}
      BY <2>1, <2>4
    <3>3. i # addr[c] \/ nodes[i].status = "OffLine"
      <4>1. CASE i = addr[c] /\ nodes[i].status # "OffLine"
        <5>1. nodes[i].dev \notin V1
          BY <3>1, <4>1, EnrollmentAssumption DEF Registered, IsFor
        <5>2. c \in Holders(i)
          BY <4>1, <5>1 DEF Holders
        <5> QED
          BY <3>2, <4>1, <5>2 DEF there
      <4> QED
        BY <4>1
    <3> QED
      BY <2>1, <3>1, <3>3, FallSilentLives DEF Registered, NetIInv
  <2> QED
    BY <2>1, <2>3, <2>4 DEF FallSilent
<1> QED
  BY <1>1, <1>2 DEF Exchange

-----------------------------------------------------------------------------
(* The steps.                                                              *)

\* What is to be shown of a step besides TableInv'.
Kept == Typed' /\ Phases' /\ Waits' /\ Agreement' /\ NobodyAt'

\* Who holds an address keeps it, and its session, or gives it up.
Quiet ==
    \A c \in Library : addr'[c] = 0 \/ (addr'[c] = addr[c] /\ sess'[c] = sess[c])

LEMMA QuietKept ==
    ASSUME NetIInv, Quiet, UNCHANGED <<table, mishap>>
    PROVE  Agreement'
<1>1. Fine
  BY DEF Fine
<1>2. ASSUME NEW c \in Library, mishap = {}, addr[c] # 0
      PROVE  Lives(addr[c])
  <2>1. addr[c] \in list
    BY <1>2 DEF NetIInv, Agreement, Registered
  <2> QED
    BY <2>1, UnchangedLives
<1> QED
  BY <1>1, <1>2, AgreementKept DEF Quiet

LEMMA NobodyAtKept ==
    ASSUME NetIInv, Quiet, UNCHANGED <<job, at, mishap>>
    PROVE  NobodyAt'
<1> SUFFICES ASSUME mishap' = {}, job' \in {"poll", "assign"}, NEW c \in Library
             PROVE  addr'[c] # 0 => addr'[c] # at'
  BY DEF NobodyAt
<1>1. addr[c] # 0 => addr[c] # at
  BY DEF NetIInv, NobodyAt
<1> QED
  BY <1>1 DEF Quiet

LEMMA HearDiscoveryOK ==
    ASSUME NetIInv, NEW heard \in SUBSET Library, HearDiscovery(heard), UNCHANGED addr
    PROVE  wait' \in [Library -> Wait] /\ Waits'
BY DEF HearDiscovery, NetIInv, NetTypeOK, Wait, Waits

\* Steps that leave the table alone.
LEMMA AloneOK ==
    ASSUME NetIInv,
           \/ StartPoll \/ DiscoveryTimeout \/ OfferToken \/ EndTokens \/ EndNet2
           \/ TimePasses
           \/ \E c \in Library :
                 Leave(c) \/ LoseAnswer(c) \/ AwaitTimeout(c) \/ Reboot(c)
    PROVE  Kept
<1>1. UNCHANGED <<vars, mishap>>
  BY DEF StartPoll, DiscoveryTimeout, OfferToken, EndTokens, EndNet2, TimePasses,
         Leave, LoseAnswer, AwaitTimeout, Reboot
<1>2. Typed /\ Phases /\ Waits
  BY Parts
<1>3. CASE StartPoll
  <2>1. wait' \in [Library -> Wait] /\ Waits'
    BY <1>3, HearDiscoveryOK DEF StartPoll
  <2>2. Typed' /\ Phases' /\ Quiet
    BY <1>1, <1>2, <1>3, <2>1 DEF StartPoll, Typed, Phases, Phase, Poll, Quiet, vars
  <2> QED
    BY <1>1, <2>1, <2>2, QuietKept, NobodyAtKept DEF Kept, vars, table
<1>4. CASE DiscoveryTimeout \/ OfferToken \/ EndTokens \/ EndNet2 \/ TimePasses
  <2>1. UNCHANGED <<addr, sess, wait>> /\ Waits'
    BY <1>2, <1>4
       DEF DiscoveryTimeout, OfferToken, EndTokens, EndNet2, TimePasses, client, Waits
  <2>2. fresh' \subseteq Library /\ phase' \in Phase \ {"tell", "ask"} /\ poll' \in Poll
    BY <1>2, <1>4
       DEF DiscoveryTimeout, OfferToken, EndTokens, EndNet2, TimePasses, client,
           Refresh, Typed, Phase, Poll
  <2>3. Typed' /\ Phases' /\ Quiet
    BY <1>1, <1>2, <2>1, <2>2 DEF Typed, Phases, Quiet
  <2> QED
    BY <1>1, <2>1, <2>3, QuietKept, NobodyAtKept DEF Kept, vars, table
<1>5. ASSUME NEW c \in Library,
             Leave(c) \/ LoseAnswer(c) \/ AwaitTimeout(c) \/ Reboot(c)
      PROVE  Kept
  <2>1. UNCHANGED <<phase, poll>> /\ fresh' \subseteq fresh
    BY <1>5 DEF Leave, LoseAnswer, AwaitTimeout, Reboot
  <2>2. /\ addr' \in [Library -> Address]
        /\ wait' \in [Library -> Wait]
        /\ sess' \in [Library -> Session]
    <3>1. 0 \in Address
      BY NodeTableAssumption DEF Address
    <3> QED
      BY <1>2, <1>5, <3>1 DEF Leave, LoseAnswer, AwaitTimeout, Reboot, Typed, Wait
  <2>3. Quiet /\ Waits'
    BY <1>2, <1>5 DEF Leave, LoseAnswer, AwaitTimeout, Reboot, Quiet, Waits, Typed
  <2>4. Typed' /\ Phases'
    BY <1>1, <1>2, <2>1, <2>2 DEF Typed, Phases, vars
  <2> QED
    BY <1>1, <2>3, <2>4, QuietKept, NobodyAtKept DEF Kept, vars, table
<1> QED
  BY <1>3, <1>4, <1>5

\* Steps on jobs that leave the entries alone.
LEMMA JobOK ==
    ASSUME NetIInv,
           \/ SeekPrimary \/ ReplyTimeout \/ ForeignReply \/ IssueList \/ RollOn
           \/ \E c \in Library : Reply(c)
    PROVE  Kept
<1>1. UNCHANGED <<table, mishap, addr, sess, fresh, poll>>
  BY DEF SeekPrimary, ReplyTimeout, ForeignReply, IssueList, RollOn, Reply, client,
         AskPrimary, SetAddressTimeout, SetAddressAnswered, Issue, Roll
<1>2. Typed /\ Phases /\ Waits /\ Quiet
  BY <1>1, Parts DEF Quiet
<1>3. Agreement'
  BY <1>1, <1>2, QuietKept
<1>4. CASE SeekPrimary
  <2>1. UNCHANGED wait /\ phase' = "top" /\ at' = Primary /\ Primary \notin list
    BY <1>4 DEF SeekPrimary, AskPrimary, client
  <2>2. NobodyAt'
    BY <1>1, <2>1 DEF NobodyAt, NetIInv, Agreement, Registered, Primary
  <2> QED
    BY <1>1, <1>2, <1>3, <2>1, <2>2 DEF Kept, Typed, Phases, Waits, Phase
<1>5. CASE ReplyTimeout \/ ForeignReply \/ \E c \in Library : Reply(c)
  <2>1. phase = "top" /\ phase' = phase /\ job' \in {"cycle", "issue"}
    BY <1>5 DEF ReplyTimeout, ForeignReply, Reply, SetAddressTimeout, SetAddressAnswered
  <2>2. wait' \in [Library -> Wait] /\ Waits'
    BY <1>1, <1>2, <1>5 DEF ReplyTimeout, ForeignReply, Reply, client, Typed, Wait, Waits
  <2>3. NobodyAt'
    BY <2>1 DEF NobodyAt
  <2> QED
    BY <1>1, <1>2, <1>3, <2>1, <2>2, <2>3 DEF Kept, Typed, Phases
<1>6. CASE IssueList
  <2>1. UNCHANGED <<wait, phase, rolled, list>> /\ job = "issue" /\ job' = "cycle"
    BY <1>6 DEF IssueList, Issue, client, table
  <2> QED
    BY <1>1, <1>2, <1>3, <2>1 DEF Kept, Typed, Phases, Waits, NobodyAt
<1>7. CASE RollOn
  <2>1. UNCHANGED wait /\ phase' = (IF rolled' = 0 THEN "top" ELSE "ask") /\ Roll
    BY <1>7 DEF RollOn, client
  <2>2. job' = "cycle"
    BY <2>1 DEF Roll
  <2>3. rolled' # 0 => rolled' \in list \ {0}
    <3> DEFINE from == IF cursor > highest \/ cursor < Primary THEN Primary ELSE cursor
               next2 == {j \in from..highest : InNet2(j)}
    <3>1. rolled' = First(next2)
      BY <2>1 DEF Roll
    <3>2. next2 \in SUBSET list
      BY DEF InNet2
    <3>3. list \in SUBSET Nat
      BY NodeTableAssumption DEF NetIInv, TableInv, TypeOK, Address
    <3> HIDE DEF next2
    <3>4. next2 # {} => First(next2) \in next2
      BY <3>2, <3>3, FirstIn
    <3>5. next2 = {} => First(next2) = 0
      BY DEF First
    <3> QED
      BY <3>1, <3>2, <3>4, <3>5
  <2>4. Typed' /\ Waits' /\ NobodyAt'
    BY <1>1, <1>2, <2>1, <2>2 DEF Typed, Waits, NobodyAt, Phase
  <2>5. Phases'
    BY <1>1, <2>1, <2>3 DEF Phases, table
  <2> QED
    BY <1>3, <2>4, <2>5 DEF Kept
<1> QED
  BY <1>4, <1>5, <1>6, <1>7

\* Steps that find a device on line or not.
LEMMA SpokenOK ==
    ASSUME NetIInv, AskThenDiscover \/ TokenTurn \/ AskNet2 \/ AskRolled
    PROVE  Kept
<1> DEFINE Outcome ==
       /\ fresh' \subseteq Library
       /\ mishap' \subseteq Mishaps
       /\ Fine
       /\ UNCHANGED <<list, highest, cursor, job, at, rolled, answers>>
       /\ mishap' = {} => \A c \in Library : addr[c] # 0 => Lives(addr[c])
<1>1. Typed /\ Phases /\ Waits /\ NobodyAt
  BY Parts
<1>2. ASSUME NEW i \in list \ {0}, Exchange(i)
      PROVE  Outcome
  BY <1>2, ExchangeOK
<1>3. Outcome
  <2>1. CASE AskThenDiscover
    BY <1>2, <2>1, PrimaryEnrollable DEF AskThenDiscover
  <2>2. CASE TokenTurn
    BY <1>2, <2>2 DEF TokenTurn
  <2>3. CASE AskNet2
    BY <1>2, <2>3 DEF AskNet2, Exchange
  <2>4. CASE AskRolled
    BY <1>1, <1>2, <2>4 DEF AskRolled, Phases
  <2> QED
    BY <2>1, <2>2, <2>3, <2>4
<1>4. UNCHANGED <<addr, sess>> /\ phase' \in Phase \ {"tell", "ask"} /\ poll' \in Poll
  BY <1>1 DEF AskThenDiscover, TokenTurn, AskNet2, AskRolled, Typed, Phase, Poll
<1>5. wait' \in [Library -> Wait] /\ Waits'
  <2>1. CASE AskThenDiscover
    BY <1>4, <2>1, HearDiscoveryOK DEF AskThenDiscover
  <2>2. CASE UNCHANGED wait
    BY <1>1, <1>4, <2>2 DEF Typed, Waits
  <2> QED
    BY <2>1, <2>2 DEF TokenTurn, AskNet2, AskRolled
<1>6. Typed' /\ Phases'
  BY <1>1, <1>3, <1>4, <1>5 DEF Typed, Phases
<1>7. Agreement'
  BY <1>3, <1>4, AgreementKept
<1>8. NobodyAt'
  BY <1>1, <1>3, <1>4 DEF NobodyAt, Fine
<1> QED
  BY <1>5, <1>6, <1>7, <1>8 DEF Kept

\* Steps in which a device answers a discovery request.
LEMMA AnsweredOK ==
    ASSUME NetIInv, NEW d \in Device, NEW s \in Session, Discovered(d, s, NextJob),
           d \in Library => addr[d] = 0,
           \A c \in Library : c # d => sess'[c] = sess[c],
           sess' \in [Library -> Session],
           wait' \in [Library -> Wait],
           \A c \in Library : wait'[c] \in {"slot", "await"} =>
                                 c = d \/ wait[c] \in {"slot", "await"},
           phase' = AfterDiscovery,
           UNCHANGED <<addr, fresh, poll, mishap>>
    PROVE  Kept
<1>1. Typed /\ Waits /\ Agreement /\ TypeOK
  BY Parts DEF TableInv
<1>2. ASSUME NEW j \in list \ {0}
      PROVE  Lives(j) /\ (at' = j => nodes[j].dev = d)
  BY <1>1, <1>2, NextJobs, DiscoveredLives
<1>3. ASSUME mishap = {}, NEW c \in Library, addr[c] # 0
      PROVE  Lives(addr[c]) /\ addr[c] # at'
  <2>1. addr[c] \in list \ {0} /\ nodes[addr[c]].dev = c
    BY <1>1, <1>3 DEF Agreement, Registered, IsFor
  <2> QED
    BY <1>2, <1>3, <2>1
<1>4. Agreement'
  <2>1. Fine
    BY DEF Fine
  <2> QED
    BY <1>3, <2>1, AgreementKept
<1>5. NobodyAt'
  BY <1>3 DEF NobodyAt
<1>6. phase' \in {"top", "tell", "tokens"} /\ (phase' = "tell" => job' = "set")
  BY DEF AfterDiscovery, GoOn
<1>7. Typed' /\ Phases' /\ Waits'
  BY <1>1, <1>6 DEF Typed, Phases, Waits, Phase
<1> QED
  BY <1>4, <1>5, <1>7 DEF Kept

LEMMA DiscoveryOK ==
    ASSUME NetIInv,
           \/ \E c \in Library : AnswerDiscovery(c)
           \/ \E d \in Device : ForeignDiscovery(d)
    PROVE  Kept
<1>1. Typed /\ Waits
  BY Parts
<1>2. ASSUME NEW c \in Library, AnswerDiscovery(c)
      PROVE  Kept
  <2>1. PICK s \in Session : Discovered(c, s, NextJob) /\ sess' = [sess EXCEPT ![c] = s]
    BY <1>2 DEF AnswerDiscovery
  <2>2. c \in Device
    BY EnrollmentAssumption
  <2>3. addr[c] = 0
    BY <1>1, <1>2 DEF AnswerDiscovery, Waits
  <2>4. wait' \in [Library -> Wait]
    BY <1>1, <1>2 DEF AnswerDiscovery, GiveUp, Typed, Wait
  <2>5. \A x \in Library : wait'[x] \in {"slot", "await"} =>
                               x = c \/ wait[x] \in {"slot", "await"}
    BY <1>2 DEF AnswerDiscovery, GiveUp
  <2>6. sess' \in [Library -> Session] /\ \A x \in Library : x # c => sess'[x] = sess[x]
    BY <1>1, <2>1 DEF Typed
  <2>7. phase' = AfterDiscovery /\ UNCHANGED <<addr, fresh, poll, mishap>>
    BY <1>2 DEF AnswerDiscovery
  <2> QED
    BY <2>1, <2>2, <2>3, <2>4, <2>5, <2>6, <2>7, AnsweredOK
<1>3. ASSUME NEW d \in Device, ForeignDiscovery(d)
      PROVE  Kept
  <2>1. PICK s \in Session : Discovered(d, s, NextJob)
    BY <1>3 DEF ForeignDiscovery
  <2>2. d \notin Library /\ UNCHANGED sess
    BY <1>3 DEF ForeignDiscovery
  <2>3. wait' \in [Library -> Wait]
    BY <1>1, <1>3 DEF ForeignDiscovery, GiveUp, Typed, Wait
  <2>4. \A x \in Library : wait'[x] \in {"slot", "await"} => wait[x] \in {"slot", "await"}
    BY <1>3 DEF ForeignDiscovery, GiveUp
  <2>5. phase' = AfterDiscovery /\ UNCHANGED <<addr, fresh, poll, mishap>>
    BY <1>3 DEF ForeignDiscovery
  <2> QED
    BY <1>1, <2>1, <2>2, <2>3, <2>4, <2>5, AnsweredOK DEF Typed
<1> QED
  BY <1>2, <1>3

LEMMA StartCycleOK ==
    ASSUME NetIInv, StartCycle
    PROVE  Kept
<1>1. Typed /\ Phases /\ Waits /\ Agreement /\ TableInv
  BY Parts
<1>2. RemoveOfflineDevices /\ phase' = "primary" /\ UNCHANGED <<client, poll, mishap, job>>
  BY DEF StartCycle, RemoveOfflineDevices
<1>3. ASSUME mishap = {}, NEW c \in Library, addr[c] # 0
      PROVE  Lives(addr[c])
  BY <1>1, <1>2, <1>3, RemoveOfflineLives DEF Agreement, Registered
<1>4. Agreement'
  <2>1. Fine
    BY <1>2 DEF Fine
  <2> QED
    BY <1>2, <1>3, <2>1, AgreementKept DEF client
<1>5. NobodyAt'
  BY <1>2 DEF StartCycle, Idle, NobodyAt
<1> QED
  BY <1>1, <1>2, <1>4, <1>5 DEF Kept, Typed, Phases, Waits, Phase, client

\* The poll or assignNewNode has its answer, or none.
LEMMA NodeIdOK ==
    ASSUME NetIInv, NodeIdTimeout \/ \E d \in Device : ForeignNodeId(d)
    PROVE  Kept
<1>1. Typed /\ Phases /\ Waits /\ Agreement /\ NobodyAt /\ TableInv /\ TypeOK
  BY Parts DEF TableInv
<1>2. phase' = GoOn("top") /\ UNCHANGED <<client, poll, mishap>>
  BY DEF NodeIdTimeout, ForeignNodeId
<1>3. ASSUME mishap = {}, NEW c \in Library, addr[c] # 0
      PROVE  Lives(addr[c])
  <2>1. addr[c] \in list \ {0}
    BY <1>1, <1>3 DEF Agreement, Registered
  <2>2. CASE NodeIdTimeout
    BY <1>1, <2>1, <2>2, AskTimeoutLives DEF NodeIdTimeout
  <2>3. ASSUME NEW d \in Device, NEW s \in Session, AskAnswered(d, s)
        PROVE  Lives(addr[c])
    <3>1. ~ (addr[c] = at /\ job \in {"poll", "assign"})
      BY <1>1, <1>3 DEF NobodyAt
    <3> QED
      BY <1>1, <2>1, <2>3, <3>1, AskAnsweredLives
  <2> QED
    BY <2>2, <2>3 DEF ForeignNodeId
<1>4. Agreement'
  <2>1. Fine
    BY <1>2 DEF Fine
  <2> QED
    BY <1>2, <1>3, <2>1, AgreementKept DEF client
<1>5. job' \notin {"poll", "assign"}
  BY DEF NodeIdTimeout, ForeignNodeId, AskTimeout, AskAnswered
<1>6. phase' \in {"top", "tell"} /\ (phase' = "tell" => job' = "set")
  BY <1>2 DEF GoOn
<1> QED
  BY <1>1, <1>2, <1>4, <1>5, <1>6 DEF Kept, Typed, Phases, Waits, NobodyAt, Phase, client

\* Whoever takes the index it is told is the device of the entry there.
LEMMA TellAddressOK ==
    ASSUME NetIInv, TellAddress
    PROVE  Kept
<1>1. Typed /\ Phases /\ Waits /\ Agreement /\ TableInv
  BY Parts
<1>2. PICK heard \in SUBSET Library : HearAddress(heard, at)
  BY DEF TellAddress
<1> DEFINE told == {c \in heard : Takes(c) /\ IsFor(c, nodes[at])}
           to == Told(nodes[at], at)
<1>3. job = "set" /\ phase' = "top" /\ UNCHANGED <<vars, poll, mishap>>
  BY <1>1 DEF TellAddress, Phases
<1>4. at \in list \ {0} /\ at \in Address /\ 0 \in Address
  BY <1>1, <1>3, NodeTableAssumption DEF TableInv, PointersAgree, TypeOK, Address
<1>5. addr' = [c \in Library |-> IF c \in told THEN to ELSE addr[c]] /\ UNCHANGED sess
  BY <1>2 DEF HearAddress
<1>6. PICK answering \in SUBSET told :
         wait' = [c \in Library |-> IF c \in answering THEN "reply"
                                    ELSE IF c \in heard THEN "no" ELSE wait[c]]
  BY <1>2 DEF HearAddress
<1>7. to \in {0, at} /\ (to # 0 => nodes[at].status = "Verified")
  BY DEF Told
<1>8. fresh' \subseteq Library
  BY <1>1, <1>2 DEF HearAddress, Typed
<1>9. Typed' /\ Waits'
  <2>1. addr' \in [Library -> Address]
    BY <1>1, <1>4, <1>5, <1>7 DEF Typed
  <2>2. wait' \in [Library -> Wait]
    BY <1>1, <1>6 DEF Typed, Wait
  <2>3. Waits'
    BY <1>1, <1>5, <1>6 DEF Waits
  <2> QED
    BY <1>1, <1>3, <1>5, <1>8, <2>1, <2>2, <2>3 DEF Typed, Phase
<1>10. Agreement'
  <2> SUFFICES ASSUME mishap = {}, NEW c \in Library, addr'[c] # 0
               PROVE  Registered(c)'
    BY <1>3 DEF Agreement
  <2>1. CASE c \in told
    <3>1. addr'[c] = at /\ nodes[at].status = "Verified" /\ IsFor(c, nodes[at])
      BY <1>5, <1>7, <2>1
    <3> QED
      BY <1>3, <1>4, <1>5, <3>1 DEF Registered, IsFor, vars
  <2>2. CASE c \notin told
    <3>1. addr'[c] = addr[c]
      BY <1>5, <2>2
    <3> QED
      BY <1>1, <1>3, <1>5, <3>1 DEF Agreement, Registered, IsFor, vars
  <2> QED
    BY <2>1, <2>2
<1> QED
  BY <1>3, <1>9, <1>10 DEF Kept, Phases, NobodyAt, vars

\* After a mishap nothing is promised.
LEMMA MishapOK ==
    ASSUME NetIInv, Intrude \/ RestartServer
    PROVE  Kept
<1>1. Typed /\ Phases /\ Waits
  BY Parts
<1>2. UNCHANGED client /\ phase' = "top" /\ poll' \in {poll, "due"}
  BY DEF Intrude, RestartServer
<1>3. mishap' \subseteq Mishaps /\ mishap' # {}
  BY <1>1 DEF Intrude, RestartServer, Typed
<1> QED
  BY <1>1, <1>2, <1>3
     DEF Kept, Typed, Phases, Waits, Agreement, NobodyAt, Phase, Poll, client

LEMMA NetStepKept ==
    ASSUME NetIInv, [NetNext]_netVars
    PROVE  Kept
<1>1. CASE Server
  BY <1>1, AloneOK, JobOK, SpokenOK, StartCycleOK, NodeIdOK, TellAddressOK DEF Server
<1>2. CASE Client
  BY <1>2, AloneOK, JobOK, DiscoveryOK DEF Client
<1>3. CASE Foreign
  BY <1>3, DiscoveryOK, NodeIdOK, JobOK DEF Foreign
<1>4. CASE TimePasses \/ (\E c \in Library : Reboot(c)) \/ Intrude \/ RestartServer
  BY <1>4, AloneOK, MishapOK
<1>5. CASE UNCHANGED netVars
  <2>1. UNCHANGED <<vars, client, phase, poll, mishap>>
    BY <1>5 DEF netVars
  <2>2. Typed /\ Phases /\ Waits
    BY Parts
  <2>3. Typed' /\ Phases' /\ Waits' /\ Quiet
    BY <2>1, <2>2 DEF Typed, Phases, Waits, Quiet, vars, client
  <2>4. Agreement' /\ NobodyAt'
    BY <2>1, <2>3, QuietKept, NobodyAtKept DEF vars, table
  <2> QED
    BY <2>3, <2>4 DEF Kept
<1> QED
  BY <1>1, <1>2, <1>3, <1>4, <1>5 DEF NetNext

LEMMA NetStepOK ==
    ASSUME NetIInv, [NetNext]_netVars
    PROVE  NetIInv'
<1>1. TableInv'
  BY StepImplements, StepOK, Parts
<1> QED
  BY <1>1, NetStepKept, PartsNext DEF Kept

LEMMA NetInitOK == NetInit => NetIInv
<1> SUFFICES ASSUME NetInit
             PROVE  NetIInv
  OBVIOUS
<1>1. TableInv
  BY InitOK DEF NetInit
<1>2. 0 \in Address
  BY NodeTableAssumption DEF Address
<1>3. Typed /\ Phases /\ Waits /\ Agreement /\ NobodyAt
  BY <1>2 DEF NetInit, Typed, Phases, Waits, Agreement, NobodyAt, Wait, Phase, Poll
<1> QED
  BY <1>1, <1>3, Parts

\* The table, the phases of loopServer and the clients stay consistent: NetIInv
\* is inductive.
THEOREM NetworkInvariant == NetSpec => []NetIInv
BY NetInitOK, NetStepOK, PTL DEF NetSpec

-----------------------------------------------------------------------------
(* What it promises.                                                       *)

\* As long as no mishap has happened, every client that holds an address is
\* listed at that index as the device it is, on line.
THEOREM ClientsAreListed == NetSpec => []Agreement
<1>1. NetIInv => Agreement
  BY DEF NetIInv
<1> QED
  BY <1>1, NetworkInvariant, PTL

\* As long as no mishap has happened, no two clients hold the same address.
THEOREM AddressesStayUnique == NetSpec => []AddressUnique
<1>1. NetIInv => AddressUnique
  BY DEF NetIInv, Agreement, Registered, IsFor, AddressUnique
<1> QED
  BY <1>1, NetworkInvariant, PTL

\* Every step of the network is one of NodeTable on the table, or none, so that
\* what has been proved of the table alone is true of it here.
LEMMA TableImplemented == NetSpec => Spec
<1>1. NetInit => Init
  BY DEF NetInit
<1> QED
  BY <1>1, StepImplements, NetworkInvariant, PTL DEF NetSpec, Spec

\* An enrolment in the network never replaces another device's entry.
THEOREM NetworkKeepsEntries == NetSpec => OthersKept
BY TableImplemented, EntriesKept, PTL

=============================================================================
