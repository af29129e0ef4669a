--------------------------- MODULE MCIdempotency ---------------------------
(* Instances of Idempotency for model checking.                            *)
EXTENDS Idempotency
=============================================================================
