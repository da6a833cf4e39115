---------------------------- MODULE AnsProtocol ----------------------------
(***************************************************************************)
(* The account types of the `.arch` registry and the pure functions on     *)
(* them: the state transitions the program applies to an account, the      *)
(* validation of record values, and the resolution predicates that clients *)
(* and the program share.  No variables: AnsRegistry and the client        *)
(* modules build on this one.                                              *)
(*                                                                         *)
(* Account headers, canonical labels, hashes and address derivation are    *)
(* abstracted: an account is identified by the seeds of its address, so a  *)
(* name is a member of Names and a record is addressed by a name and a     *)
(* record key.                                                             *)
(***************************************************************************)
EXTENDS Integers

CONSTANTS
    Users,      \* Arch addresses that may own names, sign and pay
    Names,      \* canonical labels (one name PDA each)
    FreeKeys,   \* record slots whose value does not depend on the owner:
                \*   BitcoinTaproot and one slot per Text key
    Texts,      \* well-formed values of those slots
    LongTexts,  \* the well-formed values with the longer encoding
    Prices,     \* prices instructions may carry, zero included
    MaxU64,     \* the largest u64: counters saturate here
    Rent,       \* minimum_rent of an account of the common size
    None        \* an account with no data

ASSUME CountersAssumption == MaxU64 \in Nat /\ MaxU64 >= 1
ASSUME RentAssumption == Rent \in Nat
ASSUME PricesAssumption == Prices \subseteq Nat
ASSUME TextsAssumption == LongTexts \subseteq Texts

-----------------------------------------------------------------------------
(* Accounts                                                                *)

U64 == 0..MaxU64

QuoteCurrency == {"ARCH", "BTC"}

RecordKeys == {"ArchOwner", "TokenAta"} \cup FreeKeys

RecordValue == Users \cup Texts

RegistryConfig == [namespace_authority : Users, paused : BOOLEAN]

NameAccount == [owner : Users, record_epoch : U64, primary_binding_nonce : U64]

RecordAccount ==
    [owner_snapshot : Users, record_epoch : U64, revision : U64, value : RecordValue]

ReverseAccount == [owner : Users, primary_name : Names, binding_nonce : U64]

ListingAccount ==
    [seller : Users, currency : QuoteCurrency, price : Prices, active : BOOLEAN]

OfferAccount == [currency : QuoteCurrency, price : Prices, active : BOOLEAN]

\* An account without data is told apart from every account with data.
ASSUME NoneAssumption ==
    /\ None \notin RegistryConfig /\ None \notin NameAccount
    /\ None \notin RecordAccount /\ None \notin ReverseAccount
    /\ None \notin ListingAccount /\ None \notin OfferAccount
    /\ None \notin Users
    /\ None \notin [currency : QuoteCurrency, price : Prices]

-----------------------------------------------------------------------------
(* Transitions of a single account                                         *)

saturating_add_1(c) == IF c < MaxU64 THEN c + 1 ELSE MaxU64

new_name(owner) ==
    [owner |-> owner, record_epoch |-> 1, primary_binding_nonce |-> 0]

\* A transfer that forgets to start a new record epoch.
transfer_keeps_epoch(name, new_owner) ==
    [name EXCEPT !.owner = new_owner,
                 !.primary_binding_nonce = saturating_add_1(@)]

\* A transfer that forgets to retire the primary binding.
transfer_keeps_nonce(name, new_owner) ==
    [name EXCEPT !.owner = new_owner,
                 !.record_epoch = saturating_add_1(@)]

transferred(name, new_owner) ==
    [name EXCEPT !.owner = new_owner,
                 !.record_epoch = saturating_add_1(@),
                 !.primary_binding_nonce = saturating_add_1(@)]

\* Compare-and-set on the revision; a slot without data is at revision 0.
revision_of(record) == IF record = None THEN 0 ELSE record.revision

new_record(name, record, value) ==
    [owner_snapshot |-> name.owner,
     record_epoch   |-> name.record_epoch,
     revision       |-> IF record = None THEN 1 ELSE saturating_add_1(record.revision),
     value          |-> value]

with_primary(name) == [name EXCEPT !.primary_binding_nonce = saturating_add_1(@)]

new_reverse(name, n) ==
    [owner |-> name.owner, primary_name |-> n,
     binding_nonce |-> name.primary_binding_nonce]

create_listing(seller, currency, price) ==
    [seller |-> seller, currency |-> currency, price |-> price, active |-> TRUE]

create_offer(currency, price) ==
    [currency |-> currency, price |-> price, active |-> TRUE]

deactivate(account) == [account EXCEPT !.active = FALSE]

is_active(account) == account # None /\ account.active

-----------------------------------------------------------------------------
(* Validation and resolution                                               *)

\* Any well-formed address accepted for an ArchOwner record.
any_owner_value(owner, key, value) ==
    \/ key = "ArchOwner" /\ value \in Users
    \/ key \in FreeKeys /\ value \in Texts

\* TokenAta has no disjunct: the value must derive under one of the
\* configured token programs and initialize_registry configures none.
validate_record_value(owner, key, value) ==
    \/ key = "ArchOwner" /\ value = owner
    \/ key \in FreeKeys /\ value \in Texts

\* The record carries the snapshot of the name's current owner and epoch.
bound_to(name, record) ==
    /\ record.owner_snapshot = name.owner
    /\ record.record_epoch = name.record_epoch

\* Registrations are permanent (expires_at_slot is u64::MAX), so a registered
\* name is active at every slot.
resolve_record_ok(name, key, record) ==
    /\ name # None
    /\ record # None
    /\ bound_to(name, record)
    /\ validate_record_value(name.owner, key, record.value)

\* Resolution of a reverse account read together with the name it points to.
resolve_primary_ok(reverse, name) ==
    /\ reverse # None
    /\ name # None
    /\ name.owner = reverse.owner
    /\ name.primary_binding_nonce = reverse.binding_nonce

\* Encoded size of a record account, in rent.
record_rent(value) == IF value \in LongTexts THEN Rent + 1 ELSE Rent
=============================================================================
