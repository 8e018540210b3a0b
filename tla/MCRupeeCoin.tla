---------------------------- MODULE MCRupeeCoin ----------------------------
(***************************************************************************)
(* The coin contract alone, called by everyone in every order.             *)
(***************************************************************************)
EXTENDS RupeeCoin

CONSTANTS zero, deployer, holder   \* model values

MCAddresses == {zero, deployer, holder}
MCAmounts == 0 .. MaxUint
=============================================================================
