--------------------------- MODULE MCDurableWorker ---------------------------
(***************************************************************************)
(* DurableWorker in small settings: with a truthful operator, over a store *)
(* that never fails and whose clock only moves forward; without one, over  *)
(* a store that may answer a committed swap with an I/O error and whose    *)
(* clock may be set back; and with neither, for what calls do by           *)
(* themselves.                                                             *)
(***************************************************************************)
EXTENDS DurableWorker, TLC

Supervised == [operators |-> Operator, stepsBack |-> FALSE, maxTime |-> 4, maxFaults |-> 0]

Faulty == [operators |-> {}, stepsBack |-> TRUE, maxTime |-> 3, maxFaults |-> 1]

Quiet == [operators |-> {}, stepsBack |-> FALSE, maxTime |-> 3, maxFaults |-> 0]

SupervisedOrFaulty == {Supervised, Faulty}

QuietOnly == {Quiet}

WorkerSymmetry == Permutations(Worker)
=============================================================================
