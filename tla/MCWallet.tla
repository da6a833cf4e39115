------------------------------ MODULE MCWallet ------------------------------
(* One account that signs and one that is watch-only; two prompts, so that  *)
(* the second supersedes the first; a watch that stands down after two.     *)
EXTENDS WalletWatch

CONSTANTS a, w
=============================================================================
