----------------------------- MODULE PaidMedia -----------------------------
(***************************************************************************)
(* What the store of paid requests and the store of bought assets have in  *)
(* common: the purchases, the tokens of their claims and assets, and the   *)
(* receipts a buyer acknowledges with.  create_asset_token is random, so   *)
(* an asset has the token of the claim that downloaded it.                 *)
(***************************************************************************)
EXTENDS Integers

CONSTANTS
  Turns,     \* purchases
  MaxTokens, \* bound: tokens issued
  Archives,  \* archive receipts a client may acknowledge with
  NoTurn, NoArchive

ASSUME MediaConstants ==
  /\ NoTurn \notin Turns /\ NoArchive \notin Archives /\ MaxTokens \in Nat

Tokens == 1..MaxTokens
=============================================================================
