---------------------------- MODULE Arbitration ----------------------------
(***************************************************************************)
(* How the devices on one RS-485 line decide which of them coordinates the *)
(* network: Net485Network::loop, warmStart and becomeClient, the step-down *)
(* in reqRespNodeDiscover, and as much of loopServer and loopClient as     *)
(* decides who speaks on the line and when.                                *)
(*                                                                         *)
(* Time is discrete.  One Tick stands for RESPONSE_TIMEOUT divided by the  *)
(* constant ResponseTimeout; the loops poll every 2 ms and a frame takes   *)
(* about 0.1 s, so whatever happens between two Ticks happens "at once":   *)
(* its order is arbitrary and Tick waits until every frame has left its    *)
(* sender and no node has an expired timer.                                *)
(***************************************************************************)
EXTENDS Naturals, FiniteSets

CONSTANTS
    Node,             \* the devices wired to the line
    FFD,              \* those built with _coordinatorCapable = true
    Sub,              \* those with an internal subordinate (sub # NULL)
    Version,          \* Version[n]: version.revision of node n, as one number
    ResponseTimeout,  \* RESPONSE_TIMEOUT in ticks
    SlotLo, SlotHi,   \* ANET_SLOTLO and ANET_SLOTHI in ticks
    Silence,          \* PROLONGED_SILENCE in ticks
    Faults            \* which of AllFaults may happen

\* What the line and the hardware may do to the nodes: a frame is destroyed by
\* noise or by two nodes talking at once, two claims are under way at once, a
\* node loses its power, and a NULL dereference stops the process.
AllFaults == {"loss", "overlap", "outage", "trap"}

ASSUME NodeAssumption ==
    /\ FFD \subseteq Node
    /\ Sub \subseteq Node
    /\ Version \in [Node -> Nat]
    /\ Faults \subseteq AllFaults

ASSUME TimeAssumption ==
    /\ ResponseTimeout \in Nat \ {0}
    /\ SlotLo \in Nat \ {0}
    /\ SlotHi \in Nat
    /\ Silence \in Nat
    /\ SlotLo <= SlotHi
    /\ SlotHi < Silence
    /\ ResponseTimeout < Silence

VARIABLES
    node,    \* node[n]: the state of Net485Network in device n
    mishap   \* history: which mishaps have happened so far

vars == <<node, mishap>>

\* Ages above MaxAge are not told apart: PROLONGED_SILENCE is the longest
\* interval any comparison asks about.
MaxAge == Silence + 1

Age == 0..MaxAge

Slot == SlotLo..SlotHi

AgeOf(t) == IF t < MaxAge THEN t ELSE MaxAge

-----------------------------------------------------------------------------
(* Messages.  "to" is the set of nodes a frame concerns; a broadcast that  *)
(* every node treats alike has to = Node.  R2R stands for any request of   *)
(* the dataflow cycle to one node, ADDRCNFM carries a node list and "to"   *)
(* are the nodes whose own list differs from it.                           *)

MsgType == {"none", "ANUCVER", "NDSCVRY", "NDSCVRY_RESP", "SADDR",
            "SADDR_RESP", "R2R", "R2R_ACK", "ADDRCNFM", "garbled"}

Msg(type, to) == [type |-> type, to |-> to]

NoMsg == Msg("none", {})

-----------------------------------------------------------------------------
(* The state of a node.  "st" is Net485State (plus Off), "slot" slotTime   *)
(* with 0 for "to be drawn", "age" the time since lasttimeOfMessage,       *)
(* "enrolled" nodeId > 0, "out" a frame handed to the driver that is not   *)
(* on the line yet (the driver waits INTER_PACKET_DELAY first).  "job" is  *)
(* where the code waits inside loopServer or loopClient:                   *)
(*   start    a coordinator that has not sent anything yet                 *)
(*   poll     a coordinator in its dataflow cycle                          *)
(*   discover in reqRespNodeDiscover                                       *)
(*   found    as poll, with an answered discovery in hand                  *)
(*   assign   in reqRespSetAddress                                         *)
(*   lost     in reqRespSetAddress after delNode freed the node            *)
(*   tail     an ex-coordinator finishing the loopServer call it is in     *)
(*   answer   a client in its slot delay before a discovery response       *)
(*   await    a client waiting for its address                             *)

St == {"Off", "None", "ANClient", "BecomingA", "BecomingB", "Waiting",
       "ANServer"}

Job == {"idle", "start", "poll", "discover", "found", "assign", "lost",
        "tail", "answer", "await"}

Boot(age) == [st |-> "None", slot |-> 0, age |-> age, job |-> "idle",
              enrolled |-> FALSE, out |-> NoMsg]

OffNode == [Boot(0) EXCEPT !.st = "Off"]

Contending == {"None", "BecomingA", "BecomingB", "Waiting"}

Message == [type : MsgType, to : SUBSET Node]

SlotTime == {0} \cup Slot

NodeState == [st : St, slot : SlotTime, age : Age, job : Job,
              enrolled : BOOLEAN, out : Message]

TypeOK ==
    /\ node \in [Node -> NodeState]
    /\ mishap \subseteq {"loss", "overlap", "outage", "deaf"}

Init ==
    /\ node = [n \in Node |-> OffNode]
    /\ mishap = {}

-----------------------------------------------------------------------------
(* Hearing a frame.  Every powered node but the sender hears it at once.   *)

\* Net485DataVersion::comp returns a uint8_t, so its -1 is 255.
Comp(left, right) == IF left > right THEN 1 ELSE IF left = right THEN 0 ELSE 255

\* Mutant of BecomeClient: lasttimeOfMessage is not updated.
BecomeClientKeepsAge(n, from) ==
    IF Comp(Version[n], Version[from]) > 0
    THEN [node[n] EXCEPT !.st = "BecomingB", !.slot = 0]
    ELSE [node[n] EXCEPT !.st = IF n \in Sub THEN "ANClient" ELSE @,
                         !.enrolled = FALSE]

\* becomeClient, for the claim of node "from" heard by the contender n.
BecomeClient(n, from) ==
    IF Comp(Version[n], Version[from]) > 0
    THEN [node[n] EXCEPT !.st = "BecomingB", !.slot = 0, !.age = 0]
    ELSE [node[n] EXCEPT !.st = IF n \in Sub THEN "ANClient" ELSE @,
                         !.age = 0, !.enrolled = FALSE]

\* Mutants of Restart: a node waiting after its claim gives up when it hears
\* anything, instead of starting over; it goes on waiting.
RestartGivesUp(st, type) ==
    CASE st = "None"      -> IF type = "NDSCVRY" THEN "BecomingA" ELSE "None"
      [] st = "BecomingA" -> IF type = "NDSCVRY" THEN "None" ELSE "BecomingA"
      [] st = "BecomingB" -> "None"
      [] st = "Waiting"   -> "ANClient"

RestartGoesOn(st, type) ==
    CASE st = "None"      -> IF type = "NDSCVRY" THEN "BecomingA" ELSE "None"
      [] st = "BecomingA" -> IF type = "NDSCVRY" THEN "None" ELSE "BecomingA"
      [] st = "BecomingB" -> "None"
      [] st = "Waiting"   -> "Waiting"

\* Where a contender restarts from after another frame than a claim; a state
\* that ignores the frame is mapped to itself.  In state None the driver passes
\* only ANUCVER and NDSCVRY on (msgTypeVerDiscFilterList).
Restart(st, type) ==
    CASE st = "None"      -> IF type = "NDSCVRY" THEN "BecomingA" ELSE "None"
      [] st = "BecomingA" -> IF type = "NDSCVRY" THEN "None" ELSE "BecomingA"
      [] st = "BecomingB" -> "None"
      [] st = "Waiting"   -> "BecomingB"

HearContending(n, from, msg) ==
    LET st == Restart(node[n].st, msg.type) IN
    IF msg.type = "ANUCVER" THEN BecomeClient(n, from)
    ELSE IF st = node[n].st THEN node[n]
    ELSE [node[n] EXCEPT !.st = st, !.slot = 0, !.age = 0]

\* Mutant of HearDiscover: the coordinator that hears a claim contends again
\* instead of becoming a client.
HearDiscoverContends(n, msg) ==
    IF msg.type = "ANUCVER"
    THEN [node[n] EXCEPT !.st = "None", !.job = "idle", !.slot = 0, !.age = 0]
    ELSE [node[n] EXCEPT !.age = 0,
             !.job = IF msg.type = "NDSCVRY_RESP" THEN "found" ELSE "poll"]

\* What reqRespNodeDiscover makes of the first frame it hears.
HearDiscover(n, msg) ==
    IF msg.type = "ANUCVER"
    THEN [node[n] EXCEPT !.st = "ANClient", !.job = "tail", !.age = 0]
    ELSE [node[n] EXCEPT !.age = 0,
             !.job = IF msg.type = "NDSCVRY_RESP" THEN "found" ELSE "poll"]

\* A coordinator takes any frame as the answer it waits for.  Only
\* reqRespNodeDiscover looks for a claim; everywhere else the claim is dropped.
\* In job start the frame stays in the ring buffer until the first discovery
\* request has been handed to the driver.
HearServer(n, msg) ==
    CASE node[n].job = "start" ->
            [HearDiscover(n, msg) EXCEPT !.out = Msg("NDSCVRY", Node)]
      [] node[n].job = "discover" -> HearDiscover(n, msg)
      [] node[n].job = "assign" ->
            [node[n] EXCEPT !.age = 0,
                !.job = IF msg.type = "SADDR_RESP" THEN "poll" ELSE "lost"]
      [] node[n].job = "lost" ->
            [node[n] EXCEPT !.age = 0, !.job = IF msg.type = "SADDR_RESP" THEN "poll" ELSE @]
      [] OTHER -> node[n]

Reply(n, type) == [node[n] EXCEPT !.out = Msg(type, {}), !.age = 0]

\* A client that is not enrolled waits for a discovery request, and then for
\* its address behind msgTypeAssignNodeFilterList; a frame heard in the slot
\* delay ends the delay and is handled by the next loopClient.
HearUnenrolled(n, msg) ==
    CASE node[n].job = "await" /\ msg.type = "SADDR" /\ n \in msg.to ->
            [Reply(n, "SADDR_RESP") EXCEPT !.enrolled = TRUE, !.job = "idle"]
      [] node[n].job = "await" /\ msg.type = "SADDR" /\ n \notin msg.to ->
            [node[n] EXCEPT !.job = "idle", !.age = 0]
      [] node[n].job = "await" /\ msg.type # "SADDR" ->
            [node[n] EXCEPT !.age = 0]
      [] node[n].job # "await" ->
            IF msg.type = "NDSCVRY"
            THEN [node[n] EXCEPT !.job = "answer", !.slot = 0, !.age = 0]
            ELSE [node[n] EXCEPT !.job = "idle"]

HearEnrolled(n, msg) ==
    CASE msg.type = "R2R" /\ n \in msg.to -> Reply(n, "R2R_ACK")
      [] msg.type = "SADDR" /\ n \in msg.to -> Reply(n, "SADDR_RESP")
      [] msg.type = "ADDRCNFM" /\ n \in msg.to ->
            [node[n] EXCEPT !.enrolled = FALSE]
      [] OTHER -> node[n]

Heard(n, from, msg) ==
    CASE node[n].st \in Contending /\ n \in FFD -> HearContending(n, from, msg)
      [] node[n].st = "ANServer" -> HearServer(n, msg)
      [] node[n].st = "ANClient" /\ node[n].job # "tail" ->
            IF node[n].enrolled THEN HearEnrolled(n, msg) ELSE HearUnenrolled(n, msg)
      [] OTHER -> node[n]

-----------------------------------------------------------------------------
(* The line.                                                               *)

Hearers(n) == {m \in Node \ {n} : node[m].st # "Off"}

InSetAddress(m) == node[m].st = "ANServer" /\ node[m].job \in {"assign", "lost"}

\* The frame of n reaches every other node.  A coordinator that has already
\* deleted the node it is assigning an address to writes through a NULL pointer:
\* the process is stopped ("trap") or, on hardware without one, goes on.
Deliver(n) ==
    /\ node[n].out # NoMsg
    /\ \E dead \in SUBSET {m \in Hearers(n) : node[m].job = "lost" /\ "trap" \in Faults} :
        /\ node' = [m \in Node |->
                       IF m = n THEN [node[n] EXCEPT !.out = NoMsg]
                       ELSE IF m \in dead THEN OffNode
                       ELSE Heard(m, n, node[n].out)]
        /\ mishap' = mishap
             \cup (IF dead # {} THEN {"outage"} ELSE {})
             \cup (IF /\ node[n].out.type = "ANUCVER"
                      /\ \E m \in Hearers(n) : InSetAddress(m)
                   THEN {"deaf"} ELSE {})

\* The frame of n is destroyed; the others hear nothing, or something that the
\* driver, which checks no checksum, hands on as a packet of an unknown type.
Lose(n) ==
    /\ "loss" \in Faults
    /\ node[n].out # NoMsg
    /\ \E garbled \in BOOLEAN :
        node' = [m \in Node |->
                    IF m = n THEN [node[n] EXCEPT !.out = NoMsg]
                    ELSE IF garbled THEN Heard(m, n, Msg("garbled", {}))
                    ELSE node[m]]
    /\ mishap' = mishap \cup {"loss"}

PowerOn(n) ==
    /\ node[n].st = "Off"
    /\ \E age \in {0, MaxAge} :   \* millis() counts from the host's boot on macOS
        node' = [node EXCEPT ![n] = Boot(age)]
    /\ UNCHANGED mishap

\* At most one outage is explored.
PowerOff(n) ==
    /\ "outage" \in Faults \ mishap
    /\ node[n].st # "Off"
    /\ node' = [node EXCEPT ![n] = OffNode]
    /\ mishap' = mishap \cup {"outage"}

-----------------------------------------------------------------------------
(* warmStart.                                                              *)

Draws(n) ==
    /\ node[n].slot = 0
    /\ \/ node[n].st \in Contending \ {"Waiting"} /\ n \in FFD
       \/ node[n].st = "ANClient" /\ node[n].job = "answer"

\* Mutant of PickSlot: the upper bound is off by one.
PickSlotTooLong(n) ==
    /\ Draws(n)
    /\ \E s \in SlotLo..(SlotHi + 1) : node' = [node EXCEPT ![n].slot = s]
    /\ UNCHANGED mishap

PickSlot(n) ==
    /\ Draws(n)
    /\ \E s \in Slot : node' = [node EXCEPT ![n].slot = s]
    /\ UNCHANGED mishap

\* Mutant of SubordinateOnly: isFFD is not looked at.
AnySubordinate(n) ==
    /\ node[n].st = "None"
    /\ n \in Sub
    /\ node' = [node EXCEPT ![n].st = "ANClient"]
    /\ UNCHANGED mishap

\* isFFD = false: a subordinate from the start.
SubordinateOnly(n) ==
    /\ node[n].st = "None"
    /\ n \in Sub \ FFD
    /\ node' = [node EXCEPT ![n].st = "ANClient"]
    /\ UNCHANGED mishap

SlotOver(n) == node[n].slot # 0 /\ node[n].age > node[n].slot

ListenTimeout(n) ==
    /\ node[n].st = "None" /\ n \in FFD
    /\ SlotOver(n)
    /\ node' = [node EXCEPT ![n] = [@ EXCEPT !.st = "BecomingB", !.slot = 0, !.age = 0]]
    /\ UNCHANGED mishap

ClaimUnderWay(n) == \E m \in Node \ {n} : node[m].out.type = "ANUCVER"

Claim(n) ==
    /\ node[n].st \in {"BecomingA", "BecomingB"} /\ n \in FFD
    /\ SlotOver(n)
    /\ ClaimUnderWay(n) => "overlap" \in Faults
    /\ node' = [node EXCEPT ![n] = [@ EXCEPT !.st = "Waiting", !.age = 0,
                            !.out = Msg("ANUCVER", Node)]]
    /\ mishap' = IF ClaimUnderWay(n) THEN mishap \cup {"overlap"} ELSE mishap

Win(n) ==
    /\ node[n].st = "Waiting"
    /\ node[n].age > ResponseTimeout
    /\ node' = [node EXCEPT ![n] = [@ EXCEPT !.st = "ANServer", !.job = "start"]]
    /\ UNCHANGED mishap

-----------------------------------------------------------------------------
(* loopServer, as far as the line hears of it.  Between two discoveries a  *)
(* coordinator sends something at least every RESPONSE_TIMEOUT: each       *)
(* request waits that long for its answer and the next one follows.        *)

Polling(n) ==
    \/ node[n].st = "ANServer" /\ node[n].job \in {"poll", "found"}
    \/ node[n].st = "ANClient" /\ node[n].job = "tail"

Sends(n, msg, job) ==
    /\ node[n].out = NoMsg
    /\ node' = [node EXCEPT ![n] = [@ EXCEPT !.out = msg, !.age = 0, !.job = job]]
    /\ UNCHANGED mishap

Discover(n) ==
    /\ node[n].st = "ANServer"
    /\ node[n].job \in {"start", "poll", "found"}
    /\ Sends(n, Msg("NDSCVRY", Node), "discover")

DiscoverTimeout(n) ==
    /\ node[n].st = "ANServer" /\ node[n].job = "discover"
    /\ node[n].age >= SlotHi
    /\ node' = [node EXCEPT ![n].job = "poll"]
    /\ UNCHANGED mishap

Poll(n) ==
    /\ Polling(n)
    /\ \E to \in {{}} \cup {{m} : m \in Node \ {n}}, type \in {"R2R", "ADDRCNFM"} :
          Sends(n, Msg(type, to), node[n].job)

Assign(n) ==
    /\ node[n].st = "ANServer" /\ node[n].job = "found"
    /\ \E m \in Node \ {n} : Sends(n, Msg("SADDR", {m}), "assign")

AssignTimeout(n) ==
    /\ node[n].st = "ANServer" /\ node[n].job \in {"assign", "lost"}
    /\ node[n].age >= ResponseTimeout
    /\ node' = [node EXCEPT ![n].job = "poll"]
    /\ UNCHANGED mishap

EndTail(n) ==
    /\ node[n].st = "ANClient" /\ node[n].job = "tail"
    /\ node' = [node EXCEPT ![n].job = "idle"]
    /\ UNCHANGED mishap

-----------------------------------------------------------------------------
(* loopClient, and the silence check of loop.                              *)

Answer(n) ==
    /\ node[n].st = "ANClient" /\ node[n].job = "answer"
    /\ node[n].slot # 0 /\ node[n].age >= node[n].slot
    /\ Sends(n, Msg("NDSCVRY_RESP", {}), "await")

\* The client waits 1.2 times RESPONSE_TIMEOUT.
AwaitTimeout(n) ==
    /\ node[n].st = "ANClient" /\ node[n].job = "await"
    /\ node[n].age > ResponseTimeout
    /\ node' = [node EXCEPT ![n].job = "idle"]
    /\ UNCHANGED mishap

\* Mutant of LeaveNetwork: the silence timer restarts, nodeId is kept.
StayInNetwork(n) ==
    /\ node[n].st = "ANClient" /\ node[n].job # "tail"
    /\ node[n].enrolled
    /\ node[n].age > Silence
    /\ node' = [node EXCEPT ![n].age = 0]
    /\ UNCHANGED mishap

LeaveNetwork(n) ==
    /\ node[n].st = "ANClient" /\ node[n].job # "tail"
    /\ node[n].enrolled
    /\ node[n].age > Silence
    /\ node' = [node EXCEPT ![n].enrolled = FALSE]
    /\ UNCHANGED mishap

-----------------------------------------------------------------------------
\* A node that must act before time goes on: its loop runs every 2 ms.
Overdue(n) ==
    \/ node[n].out # NoMsg
    \/ Draws(n)
    \/ node[n].st = "None" /\ n \in Sub \ FFD
    \/ node[n].st \in {"None", "BecomingA", "BecomingB"} /\ n \in FFD /\ SlotOver(n)
    \/ node[n].st = "Waiting" /\ node[n].age > ResponseTimeout
    \/ node[n].st = "ANServer" /\ node[n].job = "start"
    \/ node[n].st = "ANServer" /\ node[n].job = "discover" /\ node[n].age >= SlotHi
    \/ Polling(n) /\ node[n].age >= ResponseTimeout
    \/ InSetAddress(n) /\ node[n].age > ResponseTimeout
    \/ /\ node[n].st = "ANClient"
       /\ \/ node[n].job = "answer" /\ node[n].age >= node[n].slot
          \/ node[n].job = "await" /\ node[n].age > ResponseTimeout
          \/ node[n].enrolled /\ node[n].job # "tail" /\ node[n].age > Silence

Tick ==
    /\ \A n \in Node : ~Overdue(n)
    /\ node' = [n \in Node |->
                   IF node[n].st = "Off" THEN node[n]
                   ELSE [node[n] EXCEPT !.age = AgeOf(@ + 1)]]
    /\ UNCHANGED mishap

\* What node n does on its own.
Step(n) ==
    \/ PickSlot(n) \/ SubordinateOnly(n) \/ ListenTimeout(n) \/ Claim(n) \/ Win(n)
    \/ Discover(n) \/ DiscoverTimeout(n) \/ Poll(n) \/ Assign(n) \/ AssignTimeout(n)
    \/ EndTail(n) \/ Answer(n) \/ AwaitTimeout(n) \/ LeaveNetwork(n)

Next ==
    \/ \E n \in Node : Step(n) \/ Deliver(n) \/ Lose(n) \/ PowerOn(n) \/ PowerOff(n)
    \/ Tick

Spec == Init /\ [][Next]_vars

\* The loops run for ever, frames leave, time goes on, and a loopServer call
\* ends: a coordinator comes back to its discovery, an ex-coordinator to loop.
Fairness ==
    /\ SF_vars(Tick)
    /\ \A n \in Node : /\ WF_vars(Step(n))
                       /\ WF_vars(Deliver(n) \/ Lose(n))
                       /\ SF_vars(Discover(n))
                       /\ SF_vars(EndTail(n))

FairSpec == Spec /\ Fairness

-----------------------------------------------------------------------------
(* Properties.                                                             *)

Coordinators == {n \in Node : node[n].st = "ANServer"}

PoweredFFD == {n \in FFD : node[n].st # "Off"}

Without(kinds) == mishap \cap kinds = {}

\* Two devices never wait for an answer to their own claim at once, unless the
\* two claims were under way together or a frame was destroyed: a slot is longer
\* than the wait, and every claim restarts the slot of whoever hears it.
OneClaimant ==
    Without({"loss", "overlap"}) =>
        \A m, n \in Node :
            node[m].st = "Waiting" /\ node[n].st = "Waiting" => m = n

\* There is one coordinator at most.  Exactly three things break it: a destroyed
\* frame, a claim that reaches a coordinator inside reqRespSetAddress, and two
\* claims under way together when some device has no subordinate.
ExclusiveCoordinator ==
    Without({"loss", "deaf"}) /\ (Sub = Node \/ Without({"overlap"})) =>
        \A m, n \in Coordinators : m = n

\* As long as no frame is destroyed, no claims overlap and nobody loses power,
\* the powered devices able to coordinate never all end up as clients, a state
\* only a reset leaves: a coordinator steps down for a live claim only.
SomeoneContends ==
    Without({"loss", "overlap", "outage"}) /\ PoweredFFD # {} =>
        \E n \in PoweredFFD : node[n].st # "ANClient"

Outage == "outage" \in mishap

\* Once a device able to coordinate has power there is, some time, a coordinator.
\* Not so after an outage: the clients that are left wait for the one that died.
EventuallyCoordinated ==
    PoweredFFD # {} ~> Coordinators # {} \/ Outage

\* Usurpations end: from some point on one device coordinates for ever.
CoordinatorSettles ==
    PoweredFFD # {} ~> (\E n \in Node : [](node[n].st = "ANServer")) \/ Outage

\* The silence check of loop: clients of a coordinator that is gone leave its
\* network, unless a new coordinator appears first.
OrphansLeave ==
    \A n \in Node :
        node[n].enrolled ~> Coordinators # {} \/ ~node[n].enrolled

(* What a comment of the source says, and the code does not do.            *)

\* becomeClient: "Is Net CAVA < own CAVA 1.2 Yes".  A contender that hears a
\* claim of at least its own version becomes a client.
YieldsToVersion ==
    [][\A m, n \in Node :
         /\ m # n
         /\ node[m].out.type = "ANUCVER" /\ node'[m].out = NoMsg
         /\ node[n].st \in Contending /\ n \in FFD \cap Sub
         /\ Version[m] >= Version[n]
         => node'[n].st = "ANClient"]_vars

-----------------------------------------------------------------------------
(* The inductive invariant behind OneClaimant and ExclusiveCoordinator.    *)

\* No time passes while a frame has not left its sender.
Fresh == \A n \in Node : node[n].out # NoMsg => node[n].age = 0

ServerJob == {"start", "poll", "discover", "found", "assign", "lost"}

RoleOK ==
    \A n \in Node :
        /\ node[n].st \in {"BecomingA", "BecomingB", "Waiting"} => n \in FFD
        /\ node[n].st = "Waiting" => node[n].age <= ResponseTimeout + 1
        /\ node[n].st = "ANServer" =>
               node[n].job \in ServerJob /\ node[n].out.type # "ANUCVER"

\* Whoever is in its slot delay while n waits, the claim of n being out, has
\* restarted its timer since.
HeardClaim ==
    Without({"loss"}) =>
        \A m, n \in Node :
            (/\ m # n
             /\ node[n].st = "Waiting" /\ node[n].out.type # "ANUCVER"
             /\ node[m].st \in {"BecomingA", "BecomingB"})
            => node[m].age <= node[n].age

Clean == Without({"loss"}) /\ (Sub = Node \/ Without({"overlap"}))

\* Two devices that both wait are about to hear each other's claim.
BothClaim ==
    Clean =>
        \A m, n \in Node :
            m # n /\ node[m].st = "Waiting" /\ node[n].st = "Waiting"
            => node[m].out.type = "ANUCVER"

\* A coordinator m that keeps its role has spoken since n's claim, or will
\* before n's wait is over.
WillBeHeard(m, n) ==
    \/ node[m].out # NoMsg
    \/ node[n].out.type = "ANUCVER"
    \/ node[m].job \in {"poll", "found"} /\ node[n].age <= node[m].age

ClaimAnswered ==
    Clean /\ Without({"deaf"}) =>
        \A m, n \in Node :
            node[m].st = "ANServer" /\ node[n].st = "Waiting"
            => node[n].age <= ResponseTimeout /\ WillBeHeard(m, n)

IInv ==
    /\ TypeOK
    /\ Fresh
    /\ RoleOK
    /\ HeardClaim
    /\ BothClaim
    /\ ClaimAnswered
    /\ OneClaimant
    /\ ExclusiveCoordinator

=============================================================================
