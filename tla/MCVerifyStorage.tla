--------------------------- MODULE MCVerifyStorage ---------------------------
(***************************************************************************)
(* VerifyStorage for TLC: the five blocks of the test against a remote    *)
(* store whose calls time out and are retried.                             *)
(***************************************************************************)
EXTENDS VerifyStorage

=============================================================================
