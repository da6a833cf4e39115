------------------------------ MODULE MCNames ------------------------------
(***************************************************************************)
(* Instance of the registry for its name, record and reverse accounts: no  *)
(* price is offered, so the marketplace instructions are all rejected.     *)
(***************************************************************************)
EXTENDS AnsRegistry, TLC

\* Addresses are interchangeable.
Symmetry == Permutations(Users)
=============================================================================
