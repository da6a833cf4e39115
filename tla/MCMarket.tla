------------------------------ MODULE MCMarket ------------------------------
(***************************************************************************)
(* Instance of the registry for its marketplace: three addresses compete   *)
(* for one name.  Record and primary instructions are left out of this     *)
(* next-state relation; they touch neither listings nor offers, and        *)
(* MCNames checks them.                                                    *)
(***************************************************************************)
EXTENDS RegistryMarket, TLC

MarketNext ==
    \/ \E s \in Users :
         \/ initialize_registry(s)
         \/ \E n \in Names :
              \/ register(s, n)
              \/ \E new_owner \in Users : transfer(s, n, new_owner)
    \/ MarketInstruction

MarketSpec == Init /\ [][MarketNext]_vars

\* Addresses are interchangeable: nothing distinguishes one wallet from another.
Symmetry == Permutations(Users)
=============================================================================
