---------------------------- MODULE AnsRegistry ----------------------------
(***************************************************************************)
(* The on-chain registry program: one action per instruction it accepts.   *)
(* A transaction is atomic (any error rolls every account back), so the    *)
(* guard of an action is the conjunction of the handler's checks and a     *)
(* rejected instruction is a stuttering step.  Renew, ReclaimExpired and   *)
(* UpdateConfig are rejected by the dispatcher and have no action.         *)
(*                                                                         *)
(* The state is the account table: the data of every program-derived       *)
(* account, the lamports of every account, and the aBTC balances kept by   *)
(* the token program.                                                      *)
(***************************************************************************)
EXTENDS AnsProtocol

CONSTANTS
    Funds,       \* lamports of each wallet at the start
    TokenFunds   \* aBTC units of each wallet at the start

ASSUME FundsAssumption == Funds \in Nat /\ TokenFunds \in Nat

VARIABLES
    config,     \* the RegistryConfig account, or None
    names,      \* names[n]: the NameAccount of n, or None
    records,    \* records[n][k]: the RecordAccount of key k of n, or None
    reverse,    \* reverse[u]: the ReverseAccount of address u, or None
    listings,   \* listings[n]: the ListingAccount of n, or None
    offers,     \* offers[n][b]: the OfferAccount of buyer b for n, or None
    lamports,   \* lamports[a]: the balance of account a
    tokens      \* tokens[u]: aBTC units in the token account of u

vars == <<config, names, records, reverse, listings, offers, lamports, tokens>>

-----------------------------------------------------------------------------
(* Account addresses                                                       *)

Wallet(u) == <<"wallet", u>>
ConfigPda == <<"config">>
NamePda(n) == <<"name", n>>
RecordPda(n, k) == <<"record", n, k>>
ReversePda(u) == <<"reverse", u>>
ListingPda(n) == <<"listing", n>>
OfferPda(n, b) == <<"offer", n, b>>

Accounts ==
    {Wallet(u) : u \in Users} \cup {ConfigPda} \cup {NamePda(n) : n \in Names}
        \cup {RecordPda(n, k) : n \in Names, k \in RecordKeys}
        \cup {ReversePda(u) : u \in Users} \cup {ListingPda(n) : n \in Names}
        \cup {OfferPda(n, b) : n \in Names, b \in Users}

-----------------------------------------------------------------------------
(* Lamports.  Each operator maps a balance table to the next one; an       *)
(* instruction that touches several accounts chains them in code order.    *)

\* The debit first: paying oneself changes nothing.
moved(l, from, to, amount) == [[l EXCEPT ![from] = @ - amount] EXCEPT ![to] = @ + amount]

shortfall(l, account, rent) == IF l[account] >= rent THEN 0 ELSE rent - l[account]

\* A top-up that is not checked against the payer's balance.
always_affordable(l, payer, account, rent) == TRUE

\* store (and create_pda before it, for a fresh account): the payer tops the
\* account up to the minimum rent of its new size.
can_store(l, payer, account, rent) ==
    l[Wallet(payer)] >= shortfall(l, account, rent)

\* A store that writes without topping up an account that already has rent.
store_without_top_up(l, payer, account, rent) ==
    IF l[account] > 0 THEN l
    ELSE moved(l, Wallet(payer), account, shortfall(l, account, rent))

\* A top-up that credits the account and does not debit the payer.
store_minting(l, payer, account, rent) ==
    [l EXCEPT ![account] = @ + shortfall(l, account, rent)]

stored(l, payer, account, rent) ==
    moved(l, Wallet(payer), account, shortfall(l, account, rent))

-----------------------------------------------------------------------------
(* Initial states.  An earlier failed create may have left the config or a *)
(* name PDA allocated, blank and short of rent; the handlers resume it.    *)

Init ==
    /\ config = None
    /\ names = [n \in Names |-> None]
    /\ records = [n \in Names |-> [k \in RecordKeys |-> None]]
    /\ reverse = [u \in Users |-> None]
    /\ listings = [n \in Names |-> None]
    /\ offers = [n \in Names |-> [b \in Users |-> None]]
    /\ \E incomplete \in SUBSET ({ConfigPda} \cup {NamePda(n) : n \in Names}) :
         lamports = [a \in Accounts |->
                       IF a \in {Wallet(u) : u \in Users} THEN Funds
                       ELSE IF a \in incomplete THEN 1 ELSE 0]
    /\ tokens = [u \in Users |-> TokenFunds]

-----------------------------------------------------------------------------
(* Guards shared by the handlers                                           *)

config_loads == config # None

ensure_unpaused == config_loads /\ ~config.paused

\* load_name followed by require_signer and require_owner.
signed_by_owner(s, n) == names[n] # None /\ names[n].owner = s

-----------------------------------------------------------------------------
(* Names and records                                                       *)

initialize_registry(s) ==
    /\ config = None
    /\ can_store(lamports, s, ConfigPda, Rent)
    /\ config' = [namespace_authority |-> s, paused |-> FALSE]
    /\ lamports' = stored(lamports, s, ConfigPda, Rent)
    /\ UNCHANGED <<names, records, reverse, listings, offers, tokens>>

\* Registration without the availability check on the name PDA.
register_over_existing(s, n) ==
    /\ ensure_unpaused
    /\ can_store(lamports, s, NamePda(n), Rent)
    /\ names' = [names EXCEPT ![n] = new_name(s)]
    /\ lamports' = stored(lamports, s, NamePda(n), Rent)
    /\ UNCHANGED <<config, records, reverse, listings, offers, tokens>>

register(s, n) ==
    /\ ensure_unpaused
    /\ names[n] = None
    /\ can_store(lamports, s, NamePda(n), Rent)
    /\ names' = [names EXCEPT ![n] = new_name(s)]
    /\ lamports' = stored(lamports, s, NamePda(n), Rent)
    /\ UNCHANGED <<config, records, reverse, listings, offers, tokens>>

\* A transfer that does not look at the listing.
transfer_while_listed(s, n, new_owner) ==
    /\ ensure_unpaused
    /\ signed_by_owner(s, n)
    /\ can_store(lamports, s, NamePda(n), Rent)
    /\ names' = [names EXCEPT ![n] = transferred(@, new_owner)]
    /\ lamports' = stored(lamports, s, NamePda(n), Rent)
    /\ UNCHANGED <<config, records, reverse, listings, offers, tokens>>

transfer(s, n, new_owner) ==
    /\ ensure_unpaused
    /\ signed_by_owner(s, n)
    /\ ~is_active(listings[n])
    /\ can_store(lamports, s, NamePda(n), Rent)
    /\ names' = [names EXCEPT ![n] = transferred(@, new_owner)]
    /\ lamports' = stored(lamports, s, NamePda(n), Rent)
    /\ UNCHANGED <<config, records, reverse, listings, offers, tokens>>

set_record(s, n, k, value, expected_revision) ==
    /\ config_loads
    /\ signed_by_owner(s, n)
    /\ validate_record_value(names[n].owner, k, value)
    /\ revision_of(records[n][k]) = expected_revision
    /\ can_store(lamports, s, RecordPda(n, k), record_rent(value))
    /\ records' = [records EXCEPT ![n][k] = new_record(names[n], @, value)]
    /\ lamports' = stored(lamports, s, RecordPda(n, k), record_rent(value))
    /\ UNCHANGED <<config, names, reverse, listings, offers, tokens>>

\* The account keeps its lamports: realloc(0) drops the data only.
delete_record(s, n, k, expected_revision) ==
    /\ config_loads
    /\ signed_by_owner(s, n)
    /\ records[n][k] # None
    /\ records[n][k].revision = expected_revision
    /\ bound_to(names[n], records[n][k])
    /\ records' = [records EXCEPT ![n][k] = None]
    /\ UNCHANGED <<config, names, reverse, listings, offers, lamports, tokens>>

set_primary(s, n) ==
    LET name == with_primary(names[n])
        l    == stored(lamports, s, NamePda(n), Rent)
    IN  /\ config_loads
        /\ signed_by_owner(s, n)
        /\ can_store(lamports, s, NamePda(n), Rent)
        /\ can_store(l, s, ReversePda(s), Rent)
        /\ names' = [names EXCEPT ![n] = name]
        /\ reverse' = [reverse EXCEPT ![s] = new_reverse(name, n)]
        /\ lamports' = stored(l, s, ReversePda(s), Rent)
        /\ UNCHANGED <<config, records, listings, offers, tokens>>

\* The handler accepts any reverse account of the program whose owner field
\* is the signer; u is the address the supplied account was derived from.
clear_primary(s, u) ==
    /\ reverse[u] # None
    /\ reverse[u].owner = s
    /\ reverse' = [reverse EXCEPT ![u] = None]
    /\ UNCHANGED <<config, names, records, listings, offers, lamports, tokens>>

-----------------------------------------------------------------------------
(* Marketplace                                                             *)

list_name(s, n, currency, price) ==
    /\ price > 0
    /\ ensure_unpaused
    /\ signed_by_owner(s, n)
    /\ ~is_active(listings[n])
    /\ can_store(lamports, s, ListingPda(n), Rent)
    /\ listings' = [listings EXCEPT ![n] = create_listing(names[n].owner, currency, price)]
    /\ lamports' = stored(lamports, s, ListingPda(n), Rent)
    /\ UNCHANGED <<config, names, records, reverse, offers, tokens>>

cancel_listing(s, n) ==
    /\ ensure_unpaused
    /\ signed_by_owner(s, n)
    /\ is_active(listings[n])
    /\ listings[n].seller = names[n].owner
    /\ can_store(lamports, s, ListingPda(n), Rent)
    /\ listings' = [listings EXCEPT ![n] = deactivate(@)]
    /\ lamports' = stored(lamports, s, ListingPda(n), Rent)
    /\ UNCHANGED <<config, names, records, reverse, offers, tokens>>

\* The quoted currency decides who is debited: lamports in the program
\* itself, aBTC by a token-program call authorised by the payer.  The program
\* does not tie the destination token account to the seller, so payee is any
\* address.
can_pay(currency, amount, from, payer) ==
    IF currency = "ARCH" THEN lamports[from] >= amount ELSE tokens[payer] >= amount

lamports_after(currency, amount, from, to) ==
    IF currency = "ARCH" THEN moved(lamports, from, to, amount) ELSE lamports

tokens_after(currency, amount, payer, payee) ==
    IF currency = "BTC" THEN moved(tokens, payer, payee, amount) ELSE tokens

\* A sale that leaves the listing active.
buy_keeps_listing(b, n, payee) ==
    LET ask == listings[n]
    IN  /\ ensure_unpaused
        /\ names[n] # None
        /\ is_active(ask)
        /\ names[n].owner = ask.seller
        /\ b # ask.seller
        /\ can_pay(ask.currency, ask.price, Wallet(b), b)
        /\ names' = [names EXCEPT ![n] = transferred(@, b)]
        /\ lamports' = lamports_after(ask.currency, ask.price, Wallet(b), Wallet(ask.seller))
        /\ tokens' = tokens_after(ask.currency, ask.price, b, payee)
        /\ UNCHANGED <<config, records, reverse, listings, offers>>

\* A sale that hands the name over and moves no money.
buy_without_paying(b, n, payee) ==
    /\ ensure_unpaused
    /\ names[n] # None
    /\ is_active(listings[n])
    /\ b # listings[n].seller
    /\ names' = [names EXCEPT ![n] = transferred(@, b)]
    /\ listings' = [listings EXCEPT ![n] = deactivate(@)]
    /\ UNCHANGED <<config, records, reverse, offers, lamports, tokens>>

buy_name(b, n, payee) ==
    LET ask == listings[n]
        l1  == lamports_after(ask.currency, ask.price, Wallet(b), Wallet(ask.seller))
        l2  == stored(l1, b, NamePda(n), Rent)
    IN  /\ ensure_unpaused
        /\ names[n] # None
        /\ is_active(ask)
        /\ names[n].owner = ask.seller
        /\ b # ask.seller
        /\ can_pay(ask.currency, ask.price, Wallet(b), b)
        /\ can_store(l1, b, NamePda(n), Rent)
        /\ can_store(l2, b, ListingPda(n), Rent)
        /\ names' = [names EXCEPT ![n] = transferred(@, b)]
        /\ listings' = [listings EXCEPT ![n] = deactivate(@)]
        /\ lamports' = stored(l2, b, ListingPda(n), Rent)
        /\ tokens' = tokens_after(ask.currency, ask.price, b, payee)
        /\ UNCHANGED <<config, records, reverse, offers>>

\* An offer that replaces the buyer's earlier active offer.
make_offer_over_active(b, n, currency, price) ==
    LET l == stored(lamports, b, OfferPda(n, b), Rent)
    IN  /\ price > 0
        /\ ensure_unpaused
        /\ names[n] # None
        /\ names[n].owner # b
        /\ can_store(lamports, b, OfferPda(n, b), Rent)
        /\ currency = "ARCH" => l[Wallet(b)] >= price
        /\ offers' = [offers EXCEPT ![n][b] = create_offer(currency, price)]
        /\ lamports' = IF currency = "ARCH"
                       THEN moved(l, Wallet(b), OfferPda(n, b), price) ELSE l
        /\ UNCHANGED <<config, names, records, reverse, listings, tokens>>

make_offer(b, n, currency, price) ==
    LET l == stored(lamports, b, OfferPda(n, b), Rent)
    IN  /\ price > 0
        /\ ensure_unpaused
        /\ names[n] # None
        /\ names[n].owner # b
        /\ ~is_active(offers[n][b])
        /\ can_store(lamports, b, OfferPda(n, b), Rent)
        /\ currency = "ARCH" => l[Wallet(b)] >= price
        /\ offers' = [offers EXCEPT ![n][b] = create_offer(currency, price)]
        /\ lamports' = IF currency = "ARCH"
                       THEN moved(l, Wallet(b), OfferPda(n, b), price) ELSE l
        /\ UNCHANGED <<config, names, records, reverse, listings, tokens>>

\* ARCH escrow is refunded; the name itself is not loaded.
cancel_offer(b, n) ==
    LET bid == offers[n][b]
        l   == IF bid.currency = "ARCH"
               THEN moved(lamports, OfferPda(n, b), Wallet(b), bid.price) ELSE lamports
    IN  /\ ensure_unpaused
        /\ is_active(bid)
        /\ bid.currency = "ARCH" => lamports[OfferPda(n, b)] >= bid.price
        /\ can_store(l, b, OfferPda(n, b), Rent)
        /\ offers' = [offers EXCEPT ![n][b] = deactivate(@)]
        /\ lamports' = stored(l, b, OfferPda(n, b), Rent)
        /\ UNCHANGED <<config, names, records, reverse, listings, tokens>>

\* Acceptance that leaves the seller's own listing standing.
accept_keeps_listing(s, b, n, payee) ==
    LET bid == offers[n][b]
    IN  /\ ensure_unpaused
        /\ signed_by_owner(s, n)
        /\ is_active(bid)
        /\ can_pay(bid.currency, bid.price, OfferPda(n, b), b)
        /\ names' = [names EXCEPT ![n] = transferred(@, b)]
        /\ offers' = [offers EXCEPT ![n][b] = deactivate(@)]
        /\ lamports' = lamports_after(bid.currency, bid.price, OfferPda(n, b), Wallet(s))
        /\ tokens' = tokens_after(bid.currency, bid.price, b, payee)
        /\ UNCHANGED <<config, records, reverse, listings>>

\* The seller signs; a BTC offer also needs the buyer's signature, and the
\* buyer's token account is debited.  An active listing ends with the sale.
accept_offer(s, b, n, payee) ==
    LET bid == offers[n][b]
        l1  == lamports_after(bid.currency, bid.price, OfferPda(n, b), Wallet(s))
        l2  == IF is_active(listings[n])
               THEN stored(l1, s, ListingPda(n), Rent) ELSE l1
        l3  == stored(l2, s, NamePda(n), Rent)
    IN  /\ ensure_unpaused
        /\ signed_by_owner(s, n)
        /\ is_active(bid)
        /\ can_pay(bid.currency, bid.price, OfferPda(n, b), b)
        /\ is_active(listings[n]) => can_store(l1, s, ListingPda(n), Rent)
        /\ can_store(l2, s, NamePda(n), Rent)
        /\ can_store(l3, s, OfferPda(n, b), Rent)
        /\ names' = [names EXCEPT ![n] = transferred(@, b)]
        /\ offers' = [offers EXCEPT ![n][b] = deactivate(@)]
        /\ listings' = IF is_active(listings[n])
                       THEN [listings EXCEPT ![n] = deactivate(@)] ELSE listings
        /\ lamports' = stored(l3, s, OfferPda(n, b), Rent)
        /\ tokens' = tokens_after(bid.currency, bid.price, b, payee)
        /\ UNCHANGED <<config, records, reverse>>

-----------------------------------------------------------------------------
(* Specification                                                           *)

NameInstruction ==
    \E s \in Users :
        \/ initialize_registry(s)
        \/ \E n \in Names :
             \/ register(s, n)
             \/ \E new_owner \in Users : transfer(s, n, new_owner)
             \/ set_primary(s, n)
        \/ \E u \in Users : clear_primary(s, u)

RecordInstruction ==
    \E s \in Users, n \in Names, k \in RecordKeys, expected_revision \in U64 :
        \/ \E value \in RecordValue : set_record(s, n, k, value, expected_revision)
        \/ delete_record(s, n, k, expected_revision)

MarketInstruction ==
    \E s \in Users, n \in Names :
        \/ \E currency \in QuoteCurrency, price \in Prices :
             \/ list_name(s, n, currency, price)
             \/ make_offer(s, n, currency, price)
        \/ cancel_listing(s, n)
        \/ cancel_offer(s, n)
        \/ \E payee \in Users :
             \/ buy_name(s, n, payee)
             \/ \E b \in Users : accept_offer(s, b, n, payee)

Next == NameInstruction \/ RecordInstruction \/ MarketInstruction

Spec == Init /\ [][Next]_vars

-----------------------------------------------------------------------------
(* Invariants                                                              *)

\* Every account holds a value of its type and no balance is negative: no
\* handler's unchecked subtraction on lamports can underflow.
TypeOK ==
    /\ config \in RegistryConfig \cup {None}
    /\ names \in [Names -> NameAccount \cup {None}]
    /\ records \in [Names -> [RecordKeys -> RecordAccount \cup {None}]]
    /\ reverse \in [Users -> ReverseAccount \cup {None}]
    /\ listings \in [Names -> ListingAccount \cup {None}]
    /\ offers \in [Names -> [Users -> OfferAccount \cup {None}]]
    /\ lamports \in [Accounts -> Nat]
    /\ tokens \in [Users -> Nat]

\* set_record, transfer, buy_name and accept_offer: a record never carries an
\* epoch its name has not reached, and below the counter's limit the epoch
\* alone determines the owner snapshot, so a record with the name's epoch was
\* written by the name's present owner.
EpochFixesOwner ==
    \A n \in Names, k \in RecordKeys :
        records[n][k] # None =>
            /\ names[n] # None
            /\ records[n][k].record_epoch <= names[n].record_epoch
            /\ (/\ records[n][k].record_epoch = names[n].record_epoch
                /\ names[n].record_epoch < MaxU64)
                  => records[n][k].owner_snapshot = names[n].owner

\* set_record against resolve_record: whatever set_record accepted resolves
\* for as long as the record is bound to the name's owner and epoch; the
\* re-validation on the read path never turns a live record away.
BoundRecordResolves ==
    \A n \in Names, k \in RecordKeys :
        (records[n][k] # None /\ bound_to(names[n], records[n][k]))
            => resolve_record_ok(names[n], k, records[n][k])

\* set_primary and clear_primary: a reverse account sits at its own owner's
\* address, points to a registered name and never runs ahead of its nonce.
ReverseBehindName ==
    \A u \in Users :
        reverse[u] # None =>
            /\ reverse[u].owner = u
            /\ names[reverse[u].primary_name] # None
            /\ reverse[u].binding_nonce
                 <= names[reverse[u].primary_name].primary_binding_nonce

\* list_name, transfer, buy_name and accept_offer: an active listing always
\* belongs to the name's present owner, so a buyer never pays a past owner and
\* the mismatch checks of cancel_listing and buy_name never fire.
ListingBelongsToOwner ==
    \A n \in Names :
        is_active(listings[n]) =>
            /\ names[n] # None
            /\ listings[n].seller = names[n].owner
            /\ listings[n].price > 0

\* make_offer, cancel_offer and accept_offer: an offer PDA holds its rent and
\* exactly the price of an active ARCH offer, so a refund or a payout can
\* always be made and nothing is left behind in a closed offer.
EscrowMatchesOffer ==
    \A n \in Names, b \in Users :
        lamports[OfferPda(n, b)] =
            IF offers[n][b] = None THEN 0
            ELSE IF offers[n][b].active /\ offers[n][b].currency = "ARCH"
            THEN Rent + offers[n][b].price ELSE Rent

\* store and fund_rent_exempt: every account that holds data holds the rent of
\* its present size, also after a record was overwritten with a longer value
\* or recreated in an account that delete_record had emptied.
RentExempt ==
    /\ config # None => lamports[ConfigPda] >= Rent
    /\ \A n \in Names :
          /\ names[n] # None => lamports[NamePda(n)] >= Rent
          /\ listings[n] # None => lamports[ListingPda(n)] >= Rent
          /\ \A k \in RecordKeys :
                records[n][k] # None =>
                    lamports[RecordPda(n, k)] >= record_rent(records[n][k].value)
    /\ \A u \in Users : reverse[u] # None => lamports[ReversePda(u)] >= Rent

-----------------------------------------------------------------------------
(* Action properties                                                       *)

record_resolves(n, k) == resolve_record_ok(names[n], k, records[n][k])

primary_resolves(u) ==
    reverse[u] # None /\ resolve_primary_ok(reverse[u], names[reverse[u].primary_name])

record_revival_is_a_write ==
    \A n \in Names, k \in RecordKeys :
        (/\ ~record_resolves(n, k)
         /\ record_resolves(n, k)'
         /\ names[n] # None
         /\ names[n].record_epoch < MaxU64)
           => records'[n][k] # records[n][k]

\* transfer, buy_name and accept_offer with resolve_record: a record that does
\* not resolve starts to resolve only by being written; no change of owner,
\* not even back to the address that wrote it, revives an old record while
\* the epoch counter is below its limit.
NoRecordRevival == [][record_revival_is_a_write]_vars

primary_revival_is_a_write ==
    \A u \in Users :
        (/\ reverse[u] # None
         /\ ~primary_resolves(u)
         /\ primary_resolves(u)'
         /\ names[reverse[u].primary_name].primary_binding_nonce < MaxU64)
           => reverse'[u] # reverse[u]

\* The same for resolve_primary: a primary name that stopped resolving
\* resolves again only after a new set_primary by that address.
NoPrimaryRevival == [][primary_revival_is_a_write]_vars

tenures_advance ==
    \A n \in Names :
        names[n] # None =>
          /\ names'[n] # None
          /\ names'[n].record_epoch >= names[n].record_epoch
          /\ names'[n].primary_binding_nonce >= names[n].primary_binding_nonce
          /\ names'[n].owner # names[n].owner =>
               /\ names'[n].record_epoch = saturating_add_1(names[n].record_epoch)
               /\ names'[n].primary_binding_nonce
                    = saturating_add_1(names[n].primary_binding_nonce)

\* register, transfer, set_primary, buy_name and accept_offer: a registered
\* name is never free again, its counters never go back, and its owner changes
\* only together with a new epoch and a new nonce (below their limits).
RegistrationIsPermanent == [][tenures_advance]_vars

sale_settles ==
    \A n \in Names :
        (is_active(listings[n]) /\ names'[n].owner # names[n].owner) =>
          LET seller == Wallet(names[n].owner)
              buyer  == names'[n].owner
              bid    == offers[n][buyer]
              closed == is_active(bid) /\ ~is_active(offers'[n][buyer])
              quote  == IF closed THEN bid ELSE listings[n]
          IN  /\ ~is_active(listings'[n])
              /\ quote.currency = "ARCH" =>
                   lamports'[seller] = lamports[seller] + quote.price

\* buy_name and accept_offer: when a name that is listed changes hands, the
\* listing ends in the same transaction, and the former owner's wallet grows
\* by the ARCH ask, or by the price of the buyer's ARCH offer if that offer is
\* what the sale closes: no rent top-up or second offer eats into it.
SaleSettles == [][sale_settles]_vars
=============================================================================
