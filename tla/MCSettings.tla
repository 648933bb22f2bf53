----------------------------- MODULE MCSettings -----------------------------
(***************************************************************************)
(* Settings with two of the keys of saveConfig, in their order.            *)
(***************************************************************************)
EXTENDS Settings

TwoKeys == <<"mode", "burn_safe">>
=============================================================================
