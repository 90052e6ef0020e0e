---- MODULE MCServer ----
(* Server for TLC: connections and threads are model values. *)
EXTENDS Server, TLC

Interchangeable == Permutations(Req) \cup Permutations(Chk)
                   \cup Permutations(Cmd) \cup Permutations(Tid)

====
