----------------------------- MODULE MCResolve -----------------------------
(***************************************************************************)
(* Instance of ResolveClient: two addresses, one name, one record slot     *)
(* that is written and queried, and rent of zero, so that balances do not  *)
(* multiply the states.                                                    *)
(***************************************************************************)
EXTENDS ResolveClient, TLC

SlotInstruction ==
    \E s \in Users, n \in Names, k \in FreeKeys, expected_revision \in U64 :
        \/ \E value \in RecordValue : set_record(s, n, k, value, expected_revision)
        \/ delete_record(s, n, k, expected_revision)

SlotNext ==
    \/ \E q \in RecordQuery \cup PrimaryQuery :
         /\ q.kind = "record" => q.key \in FreeKeys
         /\ Ask(q) \/ fetchNameProfile(q)
    \/ readName \/ readOther \/ Resolve
    \/ (NameInstruction \/ SlotInstruction) /\ observe

SlotSpec == ClientInit /\ [][SlotNext]_<<vars, client>>

\* Addresses are interchangeable, and so are values of the same size.
Symmetry == Permutations(Users) \cup Permutations(Texts)
=============================================================================
