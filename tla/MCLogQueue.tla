---- MODULE MCLogQueue ----
(* LogQueue for TLC: four nodes; both logs fill up and both drain. *)
EXTENDS LogQueue, TLC

MCLimit == [t \in Type |-> IF t = "NORMAL" THEN 3 ELSE 2]

NodeSymmetry == Permutations(Node)

====
