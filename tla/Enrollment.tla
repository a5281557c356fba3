----------------------------- MODULE Enrollment -----------------------------
(***************************************************************************)
(* A coordinator and its clients: loopServer in the order in which it does *)
(* things, on the table of NodeTable, and loopClient as the holder of an   *)
(* address.  The devices of Library run this code; the others are devices  *)
(* of other makers, which answer when they like.                           *)
(*                                                                         *)
(* A request and what the clients do on hearing it are one step, for a     *)
(* frame takes 0.1 s and the waits are seconds.  Hearing may fail for any  *)
(* of them, and any answer may be lost.                                    *)
(***************************************************************************)
EXTENDS NodeTable

CONSTANTS
    Library,  \* the devices that run this code, all of version 2
    Mishaps   \* which of AllMishaps may happen

\* silenced: three copies of a message or their answers are lost, though the
\* device is there; intruded: a frame out of turn reaches reqRespSetAddress;
\* restart: the coordinator loses its power, and with it the table.
AllMishaps == {"silenced", "intruded", "restart"}

ASSUME EnrollmentAssumption ==
    /\ Library \subseteq Device \ V1
    /\ Mishaps \subseteq AllMishaps

VARIABLES
    addr,    \* addr[c]: nodeId of client c, 0 while it is not enrolled
    sess,    \* sess[c]: its sessionId
    wait,    \* wait[c]: where loopClient waits
    fresh,   \* the enrolled clients spoken to since time last passed
    phase,   \* what loopServer does next
    poll,    \* how long ago the last discovery was: lastNodeListPoll
    mishap   \* history: the mishaps that have happened

client == <<addr, sess, wait, fresh>>
netVars == <<vars, client, phase, poll, mishap>>

(***************************************************************************)
(* slot    in the slot delay before the answer to a discovery request      *)
(* await   waiting for its address, behind a filter                        *)
(* reply   its address response is on the way                              *)
(***************************************************************************)
Wait == {"no", "slot", "await", "reply"}

(***************************************************************************)
(* top       about to enter loopServer, or in one of the jobs of NodeTable *)
(* tell      about to send the address message of reqRespSetAddress        *)
(* polling   in the discovery of the poll for new nodes                    *)
(* primary   offline devices are removed                                   *)
(* discover  in the discovery of the dataflow cycle                        *)
(* tokens, net2, roll   the later parts of the cycle                       *)
(* token     about to send to the device that has taken the token          *)
(* ask       about to send to the device that the rolling list returned    *)
(***************************************************************************)
Phase == {"top", "tell", "polling", "primary", "discover", "tokens", "token",
          "net2", "roll", "ask"}

\* How long ago lastNodeListPoll is; due: more than NODELIST_REPOLLTIME, or never.
Poll == {"recent", "old", "due"}

NetTypeOK ==
    /\ TypeOK
    /\ addr \in [Library -> Address]
    /\ sess \in [Library -> Session]
    /\ wait \in [Library -> Wait]
    /\ fresh \subseteq Library
    /\ phase \in Phase
    /\ poll \in Poll
    /\ mishap \subseteq Mishaps

NetInit ==
    /\ Init
    /\ addr = [c \in Library |-> 0]
    /\ sess \in [Library -> Session]
    /\ wait = [c \in Library |-> "no"]
    /\ fresh = {}
    /\ phase = "top"
    /\ poll = "due"
    /\ mishap = {}

-----------------------------------------------------------------------------
(* What the clients make of a request.  "heard" are those that hear it.    *)

\* The clients to which a request to index i is addressed: own nodeId, Subnet 3.
Holders(i) == {c \in Library : addr[c] = i /\ i \in list /\ nodes[i].dev \notin V1}

\* A discovery request starts the slot delay of whoever is not enrolled.
HearDiscovery(heard) ==
    wait' = [c \in Library |->
                IF c \in heard /\ addr[c] = 0 /\ wait[c] = "no" THEN "slot" ELSE wait[c]]

\* Somebody answers: whoever is in its slot delay gives up.
GiveUp == [c \in Library |-> IF wait[c] = "slot" THEN "no" ELSE wait[c]]

\* What reqRespSetAddress tells the device of entry n at index i.
Told(n, i) == IF n.status = "Verified" THEN i ELSE 0

\* Mutant of IsFor: the MAC address is not compared.
IsForAnyDevice(c, n) == n.session = sess[c]

\* getNodeAddress: the MAC address and the session are the client's own.
IsFor(c, n) == n.dev = c /\ n.session = sess[c]

Takes(c) == wait[c] = "await" \/ (addr[c] # 0 /\ wait[c] = "no")

\* The address message for the entry at index i.  A client that awaits its
\* address stops at any address message; one that is told 0 follows a NULL
\* pointer before it can answer: it stops and starts again, or answers.
HearAddress(heard, i) ==
    LET told == {c \in heard : Takes(c) /\ IsFor(c, nodes[i])}
        to == Told(nodes[i], i)
    IN  /\ addr' = [c \in Library |-> IF c \in told THEN to ELSE addr[c]]
        /\ \E answering \in {told} \cup (IF to = 0 THEN {{}} ELSE {}) :
              wait' = [c \in Library |->
                          IF c \in answering THEN "reply"
                          ELSE IF c \in heard THEN "no" ELSE wait[c]]
        /\ fresh' = IF to = 0 THEN fresh \ told ELSE fresh \cup told
        /\ UNCHANGED sess

-----------------------------------------------------------------------------
(* Exchanges with an enrolled device.                                      *)

\* The clients in S are spoken to.
Refresh(S) == fresh' = fresh \cup S

\* routePacket: the device at index i answers.  Whether it is the right one is
\* looked up and forgotten (isR2RACKValid).
Answered(i) ==
    /\ nodes[i].status # "OffLine"
    /\ IF Holders(i) = {}
       THEN nodes[i].dev \notin Library /\ Refresh({})
       ELSE \E heard \in SUBSET Holders(i) \ {{}} : Refresh(heard)
    /\ UNCHANGED <<vars, mishap>>

\* routePacket: nobody does, or three copies are lost.
Unanswered(i) ==
    LET there == IF nodes[i].status = "OffLine" THEN {} ELSE Holders(i) IN
    /\ there # {} => "silenced" \in Mishaps
    /\ mishap' = IF there # {} THEN mishap \cup {"silenced"} ELSE mishap
    /\ \E heard \in SUBSET there : Refresh(heard)
    /\ FallSilent(i)

Exchange(i) == Answered(i) \/ Unanswered(i)

-----------------------------------------------------------------------------
(* loopServer.                                                             *)

Idle == job = "cycle"

\* Poll for new nodes.
StartPoll ==
    /\ phase = "top" /\ Idle /\ poll = "due"
    /\ \E heard \in SUBSET Library : HearDiscovery(heard)
    /\ phase' = "polling"
    /\ poll' = "recent"
    /\ UNCHANGED <<vars, addr, sess, fresh, mishap>>

StartCycle ==
    /\ phase = "top" /\ Idle /\ poll # "due"
    /\ RemoveOfflineDevices
    /\ phase' = "primary"
    /\ UNCHANGED <<client, poll, mishap>>

\* Mutant of SeekPrimary: asking for a primary node counts as a poll.
SeekPrimaryPolls ==
    /\ phase = "primary"
    /\ AskPrimary
    /\ phase' = "top"
    /\ poll' = "recent"
    /\ UNCHANGED <<client, mishap>>

SeekPrimary ==
    /\ phase = "primary"
    /\ AskPrimary
    /\ phase' = "top"
    /\ UNCHANGED <<client, poll, mishap>>

\* The primary node has its turn, and then a discovery request goes out, which
\* counts as a poll for new nodes.
AskThenDiscover ==
    /\ phase = "primary"
    /\ Primary \in list
    /\ Exchange(Primary)
    /\ \E heard \in SUBSET Library : HearDiscovery(heard)
    /\ phase' = "discover"
    /\ poll' = "recent"
    /\ UNCHANGED <<addr, sess>>

Discovering == phase \in {"polling", "discover"}

\* Where loopServer goes on.  A full table is no response to the dataflow cycle.
GoOn(next) == IF job' = "set" THEN "tell" ELSE next

AfterDiscovery == IF at' = 0 /\ phase = "discover" THEN "tokens" ELSE GoOn("top")

NextJob == IF phase = "polling" THEN "poll" ELSE "assign"

\* A client's slot delay is over: it draws a session id and answers.
AnswerDiscovery(c) ==
    /\ Discovering
    /\ wait[c] = "slot"
    /\ \E s \in Session :
          /\ Discovered(c, s, NextJob)
          /\ sess' = [sess EXCEPT ![c] = s]
    /\ wait' = [GiveUp EXCEPT ![c] = "await"]
    /\ phase' = AfterDiscovery
    /\ UNCHANGED <<addr, fresh, poll, mishap>>

ForeignDiscovery(d) ==
    /\ Discovering
    /\ d \notin Library
    /\ \E s \in Session : Discovered(d, s, NextJob)
    /\ wait' = GiveUp
    /\ phase' = AfterDiscovery
    /\ UNCHANGED <<addr, sess, fresh, poll, mishap>>

\* Slot delays are shorter than the wait for a response.
DiscoveryTimeout ==
    /\ Discovering
    /\ \A c \in Library : wait[c] # "slot"
    /\ phase' = IF phase = "polling" THEN "top" ELSE "tokens"
    /\ UNCHANGED <<vars, client, poll, mishap>>

\* Devices of other makers answer node id requests; clients of this library
\* leave them unanswered.
ForeignNodeId(d) ==
    /\ d \notin Library
    /\ \E s \in Session : AskAnswered(d, s)
    /\ phase' = GoOn("top")
    /\ UNCHANGED <<client, poll, mishap>>

NodeIdTimeout ==
    /\ AskTimeout
    /\ phase' = GoOn("top")
    /\ UNCHANGED <<client, poll, mishap>>

TellAddress ==
    /\ phase = "tell"
    /\ \E heard \in SUBSET Library : HearAddress(heard, at)
    /\ phase' = "top"
    /\ UNCHANGED <<vars, poll, mishap>>

\* Any address response will do.
Reply(c) ==
    /\ phase = "top"
    /\ wait[c] = "reply"
    /\ SetAddressAnswered
    /\ wait' = [wait EXCEPT ![c] = "no"]
    /\ UNCHANGED <<addr, sess, fresh, phase, poll, mishap>>

ForeignReply ==
    /\ phase = "top"
    /\ nodes[at] # NoNode => nodes[at].dev \notin Library
    /\ SetAddressAnswered
    /\ UNCHANGED <<client, phase, poll, mishap>>

\* Answers are given at once.
ReplyTimeout ==
    /\ phase = "top"
    /\ \A c \in Library : wait[c] # "reply"
    /\ SetAddressTimeout
    /\ UNCHANGED <<client, phase, poll, mishap>>

Intrude ==
    /\ "intruded" \in Mishaps
    /\ phase = "top"
    /\ SetAddressOther
    /\ mishap' = mishap \cup {"intruded"}
    /\ UNCHANGED <<client, phase, poll>>

\* The node list is broadcast on Subnet 3, where clients ignore broadcast lists.
IssueList ==
    /\ Issue
    /\ UNCHANGED <<client, phase, poll, mishap>>

InNet2Now == \E i \in 1..highest : InNet2(i)

\* Mutant of OfferToken: whether or not there is a device on Subnet 3.
OfferTokenAlways ==
    /\ phase = "tokens"
    /\ \E heard \in SUBSET {c \in Library : addr[c] # 0} : Refresh(heard)
    /\ phase' = "token"
    /\ UNCHANGED <<vars, addr, sess, wait, poll, mishap>>

\* The token is offered if there is a device on Subnet 3: all enrolled clients
\* take it for a sign of life.
OfferToken ==
    /\ phase = "tokens"
    /\ InNet2Now
    /\ \E heard \in SUBSET {c \in Library : addr[c] # 0} : Refresh(heard)
    /\ phase' = "token"
    /\ UNCHANGED <<vars, addr, sess, wait, poll, mishap>>

\* The winner must be listed as what it says it is.
TokenTurn ==
    /\ phase = "token"
    /\ \E i \in list \ {0} :
          /\ InNet2(i)
          /\ nodes[i].dev \in Library => \E c \in fresh : addr[c] = i /\ IsFor(c, nodes[i])
          /\ Exchange(i)
    /\ phase' \in {"tokens", "net2"}
    /\ UNCHANGED <<addr, sess, wait, poll>>

\* There is nobody to offer it to, or nobody takes it.
EndTokens ==
    /\ phase = "token" \/ (phase = "tokens" /\ ~ InNet2Now)
    /\ phase' = "net2"
    /\ UNCHANGED <<vars, client, poll, mishap>>

\* R2R to each device of Subnet 2.
AskNet2 ==
    /\ phase = "net2"
    /\ \E i \in list \ {0} : nodes[i].dev \in V1 /\ Unanswered(i)
    /\ UNCHANGED <<addr, sess, wait, phase, poll>>

EndNet2 ==
    /\ phase = "net2"
    /\ phase' = "roll"
    /\ UNCHANGED <<vars, client, poll, mishap>>

RollOn ==
    /\ phase = "roll"
    /\ Roll
    /\ phase' = IF rolled' = 0 THEN "top" ELSE "ask"
    /\ UNCHANGED <<client, poll, mishap>>

AskRolled ==
    /\ phase = "ask"
    /\ Exchange(rolled)
    /\ phase' = "top"
    /\ UNCHANGED <<addr, sess, wait, poll>>

-----------------------------------------------------------------------------
(* Time and failures.                                                      *)

\* Time is counted where a dataflow cycle has begun, and where it may take long,
\* for a poll is over before NODELIST_REPOLLTIME has passed since it began.
TimePasses ==
    /\ phase \in {"primary", "net2"}
    /\ fresh' = {}
    /\ poll' = IF poll = "recent" THEN "old" ELSE "due"
    /\ UNCHANGED <<vars, addr, sess, wait, phase, mishap>>

\* PROLONGED_SILENCE, which is longer, has passed for a client: it cannot have
\* been spoken to since time last passed.
Leave(c) ==
    /\ addr[c] # 0 /\ wait[c] = "no" /\ c \notin fresh
    /\ addr' = [addr EXCEPT ![c] = 0]
    /\ UNCHANGED <<vars, sess, wait, fresh, phase, poll, mishap>>

\* An answer is lost, or comes when nobody waits for it.
LoseAnswer(c) ==
    /\ \/ /\ wait[c] = "slot"
          /\ wait' = [wait EXCEPT ![c] = "await"]
          /\ \E s \in Session : sess' = [sess EXCEPT ![c] = s]
       \/ /\ wait[c] = "reply"
          /\ wait' = [wait EXCEPT ![c] = "no"]
          /\ UNCHANGED sess
    /\ UNCHANGED <<vars, addr, fresh, phase, poll, mishap>>

\* 1.2 RESPONSE_TIMEOUT after its answer a client has not heard its address; the
\* node id request of the coordinator lasts 1.0 RESPONSE_TIMEOUT.
AwaitTimeout(c) ==
    /\ wait[c] = "await"
    /\ phase # "tell" /\ job \notin {"poll", "assign", "reassign"}
    /\ wait' = [wait EXCEPT ![c] = "no"]
    /\ UNCHANGED <<vars, addr, sess, fresh, phase, poll, mishap>>

\* A client loses its power and comes back.
Reboot(c) ==
    /\ addr' = [addr EXCEPT ![c] = 0]
    /\ wait' = [wait EXCEPT ![c] = "no"]
    /\ fresh' = fresh \ {c}
    /\ UNCHANGED <<vars, sess, phase, poll, mishap>>

\* At most one restart is explored.
RestartServer ==
    /\ "restart" \in Mishaps \ mishap
    /\ Restart
    /\ phase' = "top"
    /\ poll' = "due"
    /\ mishap' = mishap \cup {"restart"}
    /\ UNCHANGED client

-----------------------------------------------------------------------------
Server ==
    \/ StartPoll \/ StartCycle \/ SeekPrimary \/ AskThenDiscover
    \/ DiscoveryTimeout \/ NodeIdTimeout \/ TellAddress \/ ReplyTimeout \/ IssueList
    \/ OfferToken \/ TokenTurn \/ EndTokens \/ AskNet2 \/ EndNet2 \/ RollOn \/ AskRolled

Client ==
    \E c \in Library :
        AnswerDiscovery(c) \/ Reply(c) \/ LoseAnswer(c) \/ AwaitTimeout(c) \/ Leave(c)

Foreign ==
    \/ \E d \in Device : ForeignDiscovery(d) \/ ForeignNodeId(d)
    \/ ForeignReply

NetNext ==
    \/ Server \/ Client \/ Foreign \/ TimePasses
    \/ \E c \in Library : Reboot(c)
    \/ Intrude \/ RestartServer

NetSpec == NetInit /\ [][NetNext]_netVars

\* Every wait of loopServer is bounded and it is called for ever; slot delays
\* end, time passes, and a client that is left alone leaves.  The loop that
\* offers the token is bounded by R2R_LOOPS_PERDATACYCLE.
NetFair ==
    /\ NetSpec
    /\ WF_netVars(Server)
    /\ SF_netVars(EndTokens)
    /\ SF_netVars(TimePasses)
    /\ \A c \in Library : WF_netVars(LoseAnswer(c)) /\ WF_netVars(Leave(c))

-----------------------------------------------------------------------------
(* Properties.                                                             *)

\* The coordinator lists client c, as what it is, at the index c holds.
Registered(c) ==
    LET i == addr[c] IN
        i \in list \ {0} /\ IsFor(c, nodes[i]) /\ nodes[i].status # "OffLine"

\* A client that holds an address is listed there: nobody else is given it, and
\* the coordinator forgets no client that is alive.  It takes one of the mishaps
\* for that.
Agreement == mishap = {} => \A c \in Library : addr[c] # 0 => Registered(c)

\* The device that a node id request may replace is no enrolled client.
NobodyAt ==
    mishap = {} /\ job \in {"poll", "assign"} =>
        \A c \in Library : addr[c] # 0 => addr[c] # at

NetIInv ==
    /\ NetTypeOK
    /\ TableInv
    /\ phase = "tell" => job = "set"
    /\ phase = "ask" => rolled \in list \ {0}
    /\ \A c \in Library : wait[c] \in {"slot", "await"} => addr[c] = 0
    /\ Agreement
    /\ NobodyAt

\* No two clients hold the same address.
AddressUnique ==
    mishap = {} =>
        \A c, d \in Library : addr[c] # 0 /\ addr[c] = addr[d] => c = d

\* "Note: broadcast node list to subnet 3 is required to ensure a node that
\* considers itself as being addressed": a client that the coordinator has
\* forgotten leaves in the end, unless there are devices on Subnet 3 for whom
\* tokens are offered.
ForgottenLeave ==
    \A c \in Library : []<>(addr[c] = 0 \/ Registered(c) \/ InNet2Now)

\* The poll, the only way for a client to get an address, comes back as long as
\* there is no primary node.
PollsAgain == []<>(phase = "polling") \/ []<>(Primary \in list)

\* An index of Subnet 3 that nobody holds any more is freed, as long as the
\* rolling list reaches it.
Ghost(i) == InTurn(i) /\ nodes[i].dev \in Library /\ Holders(i) = {}

GhostsGo == \A i \in Address \ {0, Primary} : Ghost(i) ~> ~ Ghost(i)
=============================================================================
