---------------------------- MODULE MCDurableRun ----------------------------
(***************************************************************************)
(* DurableRun on small instances.  Command ids are interchangeable: no     *)
(* action or property distinguishes one from another, so permuting them is *)
(* a symmetry.                                                             *)
(***************************************************************************)
EXTENDS DurableRun, TLC

CommandSymmetry == Permutations(Command)

\* Search constraint of the longest counterexample: the host never pauses.
NeverPaused == \A i \in DOMAIN run.log : run.log[i].op # "pause"
=============================================================================
