-------------------------- MODULE MCTaskManifests --------------------------
(***************************************************************************)
(* Every data set of two shards with up to two records each.               *)
(***************************************************************************)
EXTENDS TaskManifests

ThreeQuestions == 1 .. 3

(* One task of each difficulty, or an easy one only. *)
OneOrTwo == {[easy |-> 1, hard |-> 1], [easy |-> 1, hard |-> 0]}
=============================================================================
