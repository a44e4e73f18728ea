---------------------------- MODULE MCSubaccounts ----------------------------
(* Instances of Subaccounts for TLC; all constants are given in the .cfg.   *)
EXTENDS Subaccounts

=============================================================================
