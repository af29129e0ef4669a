---------------------------- MODULE MCCustomers ----------------------------
(* Instances of Customers for model checking.                              *)
EXTENDS Customers, TLC

(* Every arm without the cache, and one with it.                           *)
AllDeployments == [arm : {"baseline", "reserve-last", "cte"}, cached : {FALSE}]
                      \cup [arm : {"baseline"}, cached : {TRUE}]

(* Two tokens, up to the names of the users.                               *)
Renamed(T) == {{[t EXCEPT !.sub = f[@]] : t \in T} : f \in Permutations(Subject)}
TwoTokens == {CHOOSE U \in Renamed(T) : TRUE : T \in {S \in SUBSET Token : Cardinality(S) = 2}}
=============================================================================
