---- MODULE MCTaskStore ----
(***************************************************************************)
(* Two buckets: the keys 1 and 3 share one, and "zero" stands for a text   *)
(* whose key is 0.                                                         *)
(***************************************************************************)
EXTENDS TaskStore

MCSymmetry == Permutations(Replica)

MCKeyOf == [a |-> 1, b |-> 2, c |-> 3, zero |-> 0]
MCTaskLen == [a |-> 1, b |-> 2, c |-> 4, zero |-> 1]
MCTask == DOMAIN MCKeyOf
====
