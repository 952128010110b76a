---------------------------- MODULE MCSessionLog ----------------------------
(***************************************************************************)
(* Two threads; files of one or two lines and a budget of one.             *)
(***************************************************************************)
EXTENDS SessionLog, TLC

MCSymmetry == Permutations(Threads)

MCSettings == {[entries |-> 2, keep |-> 1], [entries |-> 1, keep |-> 1]}
=============================================================================
