----------------------------- MODULE MCOrderTx -----------------------------
(* Instances of OrderTx for model checking.                                *)
EXTENDS OrderTx, TLC

(* The goroutines of one kind run the same code.                           *)
Symmetry == Permutations(Request) \cup Permutations(Worker) \cup Permutations(Sweeper) \cup Permutations(Product)
=============================================================================
