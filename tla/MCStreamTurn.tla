----------------------------- MODULE MCStreamTurn -----------------------------
(* Instances of StreamTurn: a listing tool (1 identical call) and another. *)
EXTENDS StreamTurn

MCSigs == {"list", "write"}
MCLimit == [s \in MCSigs |-> IF s = "list" THEN 1 ELSE 2]
==============================================================================
