----------------------------- MODULE MCRegister -----------------------------
(* Two names, two accounts in the user's wallet, and a rival.               *)
EXTENDS RegisterPage
=============================================================================
