---------------------------- MODULE MCOrderBook ----------------------------
(* OrderBook on three orders and two products of at most two units.        *)
EXTENDS OrderBook, TLC

(* Order ids, products and customers are interchangeable: no operation     *)
(* compares two of them except for equality.                               *)
Symmetry == Permutations(OrderId) \cup Permutations(Product)
=============================================================================
