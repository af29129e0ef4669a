------------------------------ MODULE MCInbox ------------------------------
(* Instances of Inbox for model checking.                                  *)
EXTENDS Inbox
=============================================================================
