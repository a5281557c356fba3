----------------------------- MODULE MCWorkQueue -----------------------------
(* Instances of WorkQueue for TLC.                                         *)
EXTENDS WorkQueue

\* A thermostat of version 2, a furnace and an air conditioner of version 1; 3 is the
\* type of the coordinator.
Types == (0 :> 3) @@ (1 :> 1) @@ (2 :> 2) @@ (3 :> 4)

\* One command, for which a device of a type that is missing comes first.
Priorities == (1 :> <<9, 2>>)

Request(method, param, dest) ==
    [kind |-> "request", method |-> method, param |-> param, dest |-> dest]

\* To the furnace as the priority device.
AllRequests == {Request("priority", 1, 0)}

\* The furnace answers R2Rs with R2Rs, and requests with requests, to itself or to a
\* type that is missing.
AllForeign ==
    AllRequests \cup
        {Request("type", 9, 0),
         [kind |-> "r2r", method |-> "socket", param |-> 2, dest |-> Coord]}
=============================================================================
