---------------------------- MODULE MCCarplayRuntime ----------------------------
(* Three events in all, over flows of one or two events each. *)
EXTENDS CarplayRuntime

MCCapacity == [f \in Flows |-> IF f = "bt" THEN 2 ELSE 1]
MCLimit == [rfcomm |-> 2, bt |-> 3, rpc |-> 2, hostapd |-> 2, ui |-> 1]
=============================================================================
