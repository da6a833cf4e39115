------------------------- MODULE AnsRegistryProofs -------------------------
(***************************************************************************)
(* Theorems about the registry program, the market it implements, the      *)
(* clients that resolve against it and the pages that save its records,    *)
(* for every set of addresses, names, record keys, values and prices,      *)
(* every number of pages, saves and polls and every counter limit.         *)
(***************************************************************************)
EXTENDS RegistryMarket, ResolveClient, RecordEditor, FiniteSetTheorems, TLAPS

-----------------------------------------------------------------------------
(* Lemmas about the operators                                              *)

\* A saturating increment stays in u64, never decreases, and strictly
\* increases below the limit.
LEMMA SaturatingAdd ==
    ASSUME NEW c \in U64
    PROVE  /\ saturating_add_1(c) \in U64
           /\ saturating_add_1(c) >= c
           /\ c < MaxU64 => saturating_add_1(c) = c + 1
           /\ c = MaxU64 => saturating_add_1(c) = c
  BY CountersAssumption DEF saturating_add_1, U64

\* transition::register and transition::transfer yield name accounts.
LEMMA NameTransitions ==
    /\ \A u \in Users : new_name(u) \in NameAccount
    /\ \A name \in NameAccount, u \in Users : transferred(name, u) \in NameAccount
    /\ \A name \in NameAccount : with_primary(name) \in NameAccount
  <1>1. 0 \in U64 /\ 1 \in U64
    BY CountersAssumption DEF U64
  <1>2. \A u \in Users : new_name(u) \in NameAccount
    BY <1>1 DEF new_name, NameAccount
  <1>3. ASSUME NEW name \in NameAccount
        PROVE  with_primary(name) \in NameAccount
    BY SaturatingAdd DEF with_primary, NameAccount
  <1>4. ASSUME NEW name \in NameAccount, NEW u \in Users
        PROVE  transferred(name, u) \in NameAccount
    BY SaturatingAdd DEF transferred, NameAccount
  <1> QED
    BY <1>2, <1>3, <1>4

\* moved never takes a balance below zero when the source can pay.
LEMMA MovedType ==
    ASSUME NEW l \in [Accounts -> Nat], NEW from \in Accounts, NEW to \in Accounts,
           NEW amount \in Nat, l[from] >= amount
    PROVE  moved(l, from, to, amount) \in [Accounts -> Nat]
  BY DEF moved

\* The rent top-up keeps balances natural and leaves every account but the
\* payer's wallet and the stored account alone.
LEMMA StoredType ==
    ASSUME NEW l \in [Accounts -> Nat], NEW payer \in Users, NEW a \in Accounts,
           NEW rent \in Nat, can_store(l, payer, a, rent)
    PROVE  /\ stored(l, payer, a, rent) \in [Accounts -> Nat]
           /\ \A x \in Accounts : x # a /\ x # Wallet(payer) =>
                stored(l, payer, a, rent)[x] = l[x]
           /\ a # Wallet(payer) /\ l[a] >= rent => stored(l, payer, a, rent)[a] = l[a]
           /\ a # Wallet(payer) /\ l[a] <= rent => stored(l, payer, a, rent)[a] = rent
  <1>1. Wallet(payer) \in Accounts
    BY DEF Accounts
  <1>2. shortfall(l, a, rent) \in Nat
    BY DEF shortfall
  <1> QED
    BY <1>1, <1>2, MovedType DEF stored, can_store, moved, shortfall

\* Addresses derived from different seeds are different.
LEMMA Addresses ==
    /\ \A u \in Users : Wallet(u) \in Accounts /\ ReversePda(u) \in Accounts
    /\ ConfigPda \in Accounts
    /\ \A n \in Names : NamePda(n) \in Accounts /\ ListingPda(n) \in Accounts
    /\ \A n \in Names, k \in RecordKeys : RecordPda(n, k) \in Accounts
    /\ \A n \in Names, b \in Users : OfferPda(n, b) \in Accounts
  BY DEF Accounts

LEMMA OfferPdaIsDistinct ==
    ASSUME NEW n, NEW b
    PROVE  /\ \A u : OfferPda(n, b) # Wallet(u) /\ OfferPda(n, b) # ReversePda(u)
           /\ OfferPda(n, b) # ConfigPda
           /\ \A m : OfferPda(n, b) # NamePda(m) /\ OfferPda(n, b) # ListingPda(m)
           /\ \A m, k : OfferPda(n, b) # RecordPda(m, k)
           /\ \A m, u : OfferPda(m, u) = OfferPda(n, b) => m = n /\ u = b
  BY DEF OfferPda, Wallet, ReversePda, ConfigPda, NamePda, ListingPda, RecordPda

\* The accounts the other transitions produce.
LEMMA RecordTransitions ==
    ASSUME NEW name \in NameAccount, NEW n \in Names,
           NEW old \in RecordAccount \cup {None}, NEW value \in RecordValue
    PROVE  /\ new_record(name, old, value) \in RecordAccount
           /\ new_reverse(name, n) \in ReverseAccount
  <1>1. (IF old = None THEN 1 ELSE saturating_add_1(old.revision)) \in U64
    <2>1. CASE old = None
      BY <2>1, CountersAssumption DEF U64
    <2>2. CASE old # None
      BY <2>2, SaturatingAdd DEF RecordAccount
    <2> QED BY <2>1, <2>2
  <1> QED
    BY <1>1 DEF new_record, new_reverse, NameAccount, RecordAccount, ReverseAccount

LEMMA MarketTransitions ==
    /\ \A u \in Users, c \in QuoteCurrency, p \in Prices :
         create_listing(u, c, p) \in ListingAccount /\ create_offer(c, p) \in OfferAccount
    /\ \A a \in ListingAccount : deactivate(a) \in ListingAccount
    /\ \A a \in OfferAccount : deactivate(a) \in OfferAccount
  BY DEF create_listing, create_offer, deactivate, ListingAccount, OfferAccount

\* The price a buyer owes moves balances only when the source covers it.
LEMMA PaymentType ==
    ASSUME TypeOK, NEW c \in QuoteCurrency, NEW p \in Nat, NEW from \in Accounts,
           NEW to \in Accounts, NEW payer \in Users, NEW payee \in Users,
           can_pay(c, p, from, payer)
    PROVE  /\ lamports_after(c, p, from, to) \in [Accounts -> Nat]
           /\ tokens_after(c, p, payer, payee) \in [Users -> Nat]
  <1>1. lamports_after(c, p, from, to) \in [Accounts -> Nat]
    BY MovedType DEF lamports_after, can_pay, TypeOK
  <1>2. tokens_after(c, p, payer, payee) \in [Users -> Nat]
    BY DEF tokens_after, moved, can_pay, TypeOK, QuoteCurrency
  <1> QED BY <1>1, <1>2

\* The balances after a store that the payer can afford.
LEMMA StoreBalances ==
    ASSUME NEW l \in [Accounts -> Nat], NEW payer \in Users, NEW a \in Accounts,
           can_store(l, payer, a, Rent)
    PROVE  stored(l, payer, a, Rent) \in [Accounts -> Nat]
  BY StoredType, RentAssumption

-----------------------------------------------------------------------------
(* Type correctness                                                        *)

\* Every instruction preserves the types.
LEMMA TypeStep == TypeOK /\ [Next]_vars => TypeOK'
  <1> SUFFICES ASSUME TypeOK, [Next]_vars PROVE TypeOK'
    OBVIOUS
  <1> USE Addresses
  <1>1. ASSUME NEW s \in Users, initialize_registry(s) PROVE TypeOK'
    <2>1. lamports' \in [Accounts -> Nat]
      BY <1>1, StoreBalances DEF initialize_registry, TypeOK
    <2> QED BY <1>1, <2>1 DEF initialize_registry, TypeOK, RegistryConfig
  <1>2. ASSUME NEW s \in Users, NEW n \in Names, register(s, n) PROVE TypeOK'
    <2>1. lamports' \in [Accounts -> Nat]
      BY <1>2, StoreBalances DEF register, TypeOK
    <2> QED BY <1>2, <2>1, NameTransitions DEF register, TypeOK
  <1>3. ASSUME NEW s \in Users, NEW n \in Names, NEW u \in Users, transfer(s, n, u)
        PROVE  TypeOK'
    <2>1. lamports' \in [Accounts -> Nat]
      BY <1>3, StoreBalances DEF transfer, TypeOK
    <2>2. transferred(names[n], u) \in NameAccount
      BY <1>3, NameTransitions DEF transfer, signed_by_owner, TypeOK
    <2> QED BY <1>3, <2>1, <2>2 DEF transfer, TypeOK
  <1>4. ASSUME NEW s \in Users, NEW n \in Names, set_primary(s, n) PROVE TypeOK'
    <2> DEFINE name == with_primary(names[n])
               l    == stored(lamports, s, NamePda(n), Rent)
    <2>1. l \in [Accounts -> Nat]
      BY <1>4, StoreBalances DEF set_primary, TypeOK
    <2>2. lamports' \in [Accounts -> Nat]
      BY <1>4, <2>1, StoreBalances DEF set_primary
    <2>3. name \in NameAccount
      BY <1>4, NameTransitions DEF set_primary, signed_by_owner, TypeOK
    <2>4. new_reverse(name, n) \in ReverseAccount
      BY <2>3 DEF new_reverse, NameAccount, ReverseAccount
    <2> QED BY <1>4, <2>2, <2>3, <2>4 DEF set_primary, TypeOK
  <1>5. ASSUME NEW s \in Users, NEW u \in Users, clear_primary(s, u) PROVE TypeOK'
    BY <1>5 DEF clear_primary, TypeOK
  <1>6. ASSUME NEW s \in Users, NEW n \in Names, NEW k \in RecordKeys, NEW r \in U64,
               NEW value \in RecordValue, set_record(s, n, k, value, r)
        PROVE  TypeOK'
    <2>1. record_rent(value) \in Nat
      BY RentAssumption DEF record_rent
    <2>2. lamports' \in [Accounts -> Nat]
      BY <1>6, <2>1, StoredType DEF set_record, TypeOK
    <2>3. new_record(names[n], records[n][k], value) \in RecordAccount
      BY <1>6, RecordTransitions DEF set_record, signed_by_owner, TypeOK
    <2> QED BY <1>6, <2>2, <2>3 DEF set_record, TypeOK
  <1>7. ASSUME NEW s \in Users, NEW n \in Names, NEW k \in RecordKeys, NEW r \in U64,
               delete_record(s, n, k, r)
        PROVE  TypeOK'
    BY <1>7 DEF delete_record, TypeOK
  <1>8. ASSUME NEW s \in Users, NEW n \in Names, NEW c \in QuoteCurrency,
               NEW p \in Prices, list_name(s, n, c, p)
        PROVE  TypeOK'
    <2>1. lamports' \in [Accounts -> Nat]
      BY <1>8, StoreBalances DEF list_name, TypeOK
    <2>2. create_listing(names[n].owner, c, p) \in ListingAccount
      BY <1>8, MarketTransitions DEF list_name, signed_by_owner
    <2> QED BY <1>8, <2>1, <2>2 DEF list_name, TypeOK
  <1>9. ASSUME NEW s \in Users, NEW n \in Names, NEW c \in QuoteCurrency,
               NEW p \in Prices, make_offer(s, n, c, p)
        PROVE  TypeOK'
    <2> DEFINE l == stored(lamports, s, OfferPda(n, s), Rent)
    <2>1. l \in [Accounts -> Nat]
      BY <1>9, StoreBalances DEF make_offer, TypeOK
    <2>2. lamports' \in [Accounts -> Nat]
      BY <1>9, <2>1, MovedType, PricesAssumption DEF make_offer
    <2>3. create_offer(c, p) \in OfferAccount
      BY MarketTransitions DEF create_offer, OfferAccount
    <2> QED BY <1>9, <2>2, <2>3 DEF make_offer, TypeOK
  <1>10. ASSUME NEW s \in Users, NEW n \in Names, cancel_listing(s, n) PROVE TypeOK'
    <2>1. lamports' \in [Accounts -> Nat]
      BY <1>10, StoreBalances DEF cancel_listing, TypeOK
    <2>2. deactivate(listings[n]) \in ListingAccount
      BY <1>10, MarketTransitions DEF cancel_listing, is_active, TypeOK
    <2> QED BY <1>10, <2>1, <2>2 DEF cancel_listing, TypeOK
  <1>11. ASSUME NEW b \in Users, NEW n \in Names, cancel_offer(b, n) PROVE TypeOK'
    <2> DEFINE bid == offers[n][b]
               l   == IF bid.currency = "ARCH"
                      THEN moved(lamports, OfferPda(n, b), Wallet(b), bid.price)
                      ELSE lamports
    <2>1. bid \in OfferAccount
      BY <1>11 DEF cancel_offer, is_active, TypeOK
    <2>2. bid.price \in Nat
      BY <2>1, PricesAssumption DEF OfferAccount
    <2>3. l \in [Accounts -> Nat]
      BY <1>11, <2>2, MovedType DEF cancel_offer, TypeOK
    <2>4. lamports' \in [Accounts -> Nat]
      BY <1>11, <2>3, StoreBalances DEF cancel_offer
    <2>5. deactivate(bid) \in OfferAccount
      BY <2>1, MarketTransitions
    <2> QED BY <1>11, <2>4, <2>5 DEF cancel_offer, TypeOK
  <1>12. ASSUME NEW b \in Users, NEW n \in Names, NEW payee \in Users,
                buy_name(b, n, payee)
         PROVE  TypeOK'
    <2> DEFINE ask == listings[n]
               l1  == lamports_after(ask.currency, ask.price, Wallet(b), Wallet(ask.seller))
               l2  == stored(l1, b, NamePda(n), Rent)
    <2>1. ask \in ListingAccount
      BY <1>12 DEF buy_name, is_active, TypeOK
    <2>2. ask.price \in Nat /\ ask.currency \in QuoteCurrency /\ ask.seller \in Users
      BY <2>1, PricesAssumption DEF ListingAccount
    <2>3. /\ l1 \in [Accounts -> Nat]
          /\ tokens' \in [Users -> Nat]
      BY <1>12, <2>2, PaymentType DEF buy_name
    <2>4. l2 \in [Accounts -> Nat]
      BY <1>12, <2>3, StoreBalances DEF buy_name
    <2>5. lamports' \in [Accounts -> Nat]
      BY <1>12, <2>4, StoreBalances DEF buy_name
    <2>6. deactivate(ask) \in ListingAccount
      BY <2>1, MarketTransitions
    <2>7. transferred(names[n], b) \in NameAccount
      BY <1>12, NameTransitions DEF buy_name, TypeOK
    <2> QED BY <1>12, <2>3, <2>5, <2>6, <2>7 DEF buy_name, TypeOK
  <1>13. ASSUME NEW s \in Users, NEW b \in Users, NEW n \in Names, NEW payee \in Users,
                accept_offer(s, b, n, payee)
         PROVE  TypeOK'
    <2> DEFINE bid == offers[n][b]
               l1  == lamports_after(bid.currency, bid.price, OfferPda(n, b), Wallet(s))
               l2  == IF is_active(listings[n])
                      THEN stored(l1, s, ListingPda(n), Rent) ELSE l1
               l3  == stored(l2, s, NamePda(n), Rent)
    <2>1. bid \in OfferAccount
      BY <1>13 DEF accept_offer, is_active, TypeOK
    <2>2. bid.price \in Nat /\ bid.currency \in QuoteCurrency
      BY <2>1, PricesAssumption DEF OfferAccount
    <2>3. /\ l1 \in [Accounts -> Nat]
          /\ tokens' \in [Users -> Nat]
      BY <1>13, <2>2, PaymentType DEF accept_offer
    <2>4. l2 \in [Accounts -> Nat]
      BY <1>13, <2>3, StoreBalances DEF accept_offer
    <2>5. l3 \in [Accounts -> Nat]
      BY <1>13, <2>4, StoreBalances DEF accept_offer
    <2>6. lamports' \in [Accounts -> Nat]
      BY <1>13, <2>5, StoreBalances DEF accept_offer
    <2>7. is_active(listings[n]) => deactivate(listings[n]) \in ListingAccount
      BY MarketTransitions DEF is_active, TypeOK
    <2>8. deactivate(bid) \in OfferAccount /\ transferred(names[n], b) \in NameAccount
      BY <1>13, <2>1, MarketTransitions, NameTransitions
      DEF accept_offer, signed_by_owner, TypeOK
    <2> QED BY <1>13, <2>3, <2>6, <2>7, <2>8 DEF accept_offer, TypeOK
  <1>14. CASE UNCHANGED vars
    BY <1>14 DEF vars, TypeOK
  <1> QED
    BY <1>1, <1>2, <1>3, <1>4, <1>5, <1>6, <1>7, <1>8, <1>9, <1>10, <1>11, <1>12,
       <1>13, <1>14
    DEF Next, NameInstruction, RecordInstruction, MarketInstruction

\* TypeOK holds in every reachable state: accounts keep their types and no
\* balance goes below zero whatever instructions are executed.
THEOREM TypeCorrect == Spec => []TypeOK
  <1>1. Init => TypeOK
    <2>1. ASSUME NEW incomplete,
                 lamports = [a \in Accounts |->
                               IF a \in {Wallet(u) : u \in Users} THEN Funds
                               ELSE IF a \in incomplete THEN 1 ELSE 0]
          PROVE  lamports \in [Accounts -> Nat]
      BY <2>1, FundsAssumption
    <2> QED
      BY <2>1, FundsAssumption DEF Init, TypeOK
  <1> QED
    BY <1>1, TypeStep, PTL DEF Spec

-----------------------------------------------------------------------------
(* Names, records and reverse accounts                                     *)

\* What one instruction can do to a name account.
LEMMA NameStep ==
    ASSUME TypeOK, [Next]_vars, NEW n \in Names
    PROVE  \/ names'[n] = names[n]
           \/ names[n] = None /\ \E u \in Users : names'[n] = new_name(u)
           \/ names[n] # None /\ names'[n] = with_primary(names[n])
           \/ names[n] # None /\ \E u \in Users : names'[n] = transferred(names[n], u)
  <1>1. CASE UNCHANGED vars
    BY <1>1 DEF vars
  <1>2. CASE NameInstruction
    BY <1>2
    DEF NameInstruction, initialize_registry, register, transfer, set_primary,
        clear_primary, signed_by_owner, TypeOK
  <1>3. CASE RecordInstruction
    BY <1>3 DEF RecordInstruction, set_record, delete_record
  <1>4. CASE MarketInstruction
    BY <1>4
    DEF MarketInstruction, list_name, make_offer, cancel_listing, cancel_offer, buy_name,
        accept_offer, signed_by_owner, TypeOK
  <1> QED
    BY <1>1, <1>2, <1>3, <1>4 DEF Next

\* How the counters and the owner move along those cases.
LEMMA Counters ==
    ASSUME NEW name \in NameAccount
    PROVE  /\ with_primary(name).owner = name.owner
           /\ with_primary(name).record_epoch = name.record_epoch
           /\ with_primary(name).primary_binding_nonce
                = saturating_add_1(name.primary_binding_nonce)
           /\ \A u \in Users :
                /\ transferred(name, u).owner = u
                /\ transferred(name, u).record_epoch = saturating_add_1(name.record_epoch)
                /\ transferred(name, u).primary_binding_nonce
                     = saturating_add_1(name.primary_binding_nonce)
  BY DEF with_primary, transferred, NameAccount

\* Every instruction keeps a registered name and moves its counters forward.
LEMMA TenureStep == TypeOK /\ [Next]_vars => tenures_advance
  <1> SUFFICES ASSUME TypeOK, [Next]_vars, NEW n \in Names, names[n] # None
               PROVE  /\ names'[n] # None
                      /\ names'[n].record_epoch >= names[n].record_epoch
                      /\ names'[n].primary_binding_nonce
                           >= names[n].primary_binding_nonce
                      /\ names'[n].owner # names[n].owner =>
                           /\ names'[n].record_epoch
                                = saturating_add_1(names[n].record_epoch)
                           /\ names'[n].primary_binding_nonce
                                = saturating_add_1(names[n].primary_binding_nonce)
    BY DEF tenures_advance
  <1>1. names[n] \in NameAccount
    BY DEF TypeOK
  <1>2. names[n].record_epoch \in U64 /\ names[n].primary_binding_nonce \in U64
    BY <1>1 DEF NameAccount
  <1>3. CASE names'[n] = names[n]
    BY <1>2, <1>3 DEF U64
  <1>4. CASE names'[n] = with_primary(names[n])
    <2>1. names'[n] # None
      BY <1>1, <1>4, NameTransitions, NoneAssumption
    <2> QED
      BY <1>1, <1>2, <1>4, <2>1, Counters, SaturatingAdd DEF U64
  <1>5. ASSUME NEW u \in Users, names'[n] = transferred(names[n], u)
        PROVE  /\ names'[n] # None
               /\ names'[n].record_epoch = saturating_add_1(names[n].record_epoch)
               /\ names'[n].primary_binding_nonce
                    = saturating_add_1(names[n].primary_binding_nonce)
    BY <1>1, <1>5, Counters, NameTransitions, NoneAssumption
  <1> QED
    BY <1>2, <1>3, <1>4, <1>5, NameStep, SaturatingAdd

\* A registered name stays registered, its counters never decrease and a new
\* owner starts at the next epoch and the next nonce.
THEOREM RegistrationIsPermanentThm == Spec => RegistrationIsPermanent
  BY TenureStep, TypeCorrect, PTL DEF Spec, RegistrationIsPermanent

\* What one instruction can do to a record account: nothing, a write at the
\* name's present owner and epoch that leaves the name alone, or a deletion.
LEMMA RecordStep ==
    ASSUME TypeOK, [Next]_vars, NEW n \in Names, NEW k \in RecordKeys
    PROVE  \/ records'[n][k] = records[n][k]
           \/ records'[n][k] = None
           \/ /\ names' = names
              /\ names[n] # None
              /\ \E value \in RecordValue :
                   /\ validate_record_value(names[n].owner, k, value)
                   /\ records'[n][k] = new_record(names[n], records[n][k], value)
  <1>1. CASE UNCHANGED vars
    BY <1>1 DEF vars
  <1>2. CASE NameInstruction
    BY <1>2
    DEF NameInstruction, initialize_registry, register, transfer, set_primary, clear_primary
  <1>3. CASE RecordInstruction
    <2>1. ASSUME NEW s \in Users, NEW m \in Names, NEW j \in RecordKeys, NEW r \in U64,
                 NEW value \in RecordValue, set_record(s, m, j, value, r)
          PROVE  \/ records'[n][k] = records[n][k]
                 \/ /\ names' = names
                    /\ names[n] # None
                    /\ validate_record_value(names[n].owner, k, value)
                    /\ records'[n][k] = new_record(names[n], records[n][k], value)
      BY <2>1 DEF set_record, signed_by_owner, TypeOK
    <2>2. ASSUME NEW s \in Users, NEW m \in Names, NEW j \in RecordKeys, NEW r \in U64,
                 delete_record(s, m, j, r)
          PROVE  records'[n][k] = records[n][k] \/ records'[n][k] = None
      BY <2>2 DEF delete_record, TypeOK
    <2> QED
      BY <1>3, <2>1, <2>2 DEF RecordInstruction
  <1>4. CASE MarketInstruction
    BY <1>4
    DEF MarketInstruction, list_name, make_offer, cancel_listing, cancel_offer, buy_name,
        accept_offer
  <1> QED
    BY <1>1, <1>2, <1>3, <1>4 DEF Next

\* No record is ahead of its name's epoch, and a record at the name's epoch
\* was written by the name's present owner.  The invariant is inductive with
\* TypeOK: a change of owner moves the epoch past every existing record.
THEOREM EpochFixesOwnerThm == Spec => []EpochFixesOwner
  <1>1. Init => EpochFixesOwner
    BY DEF Init, EpochFixesOwner
  <1>2. TypeOK /\ EpochFixesOwner /\ [Next]_vars => EpochFixesOwner'
    <2> SUFFICES ASSUME TypeOK, EpochFixesOwner, [Next]_vars,
                        NEW n \in Names, NEW k \in RecordKeys, records'[n][k] # None
                 PROVE  /\ names'[n] # None
                        /\ records'[n][k].record_epoch <= names'[n].record_epoch
                        /\ (/\ records'[n][k].record_epoch = names'[n].record_epoch
                            /\ names'[n].record_epoch < MaxU64)
                              => records'[n][k].owner_snapshot = names'[n].owner
      BY DEF EpochFixesOwner
    <2>1. ASSUME names' = names, names[n] # None, NEW value \in RecordValue,
                 records'[n][k] = new_record(names[n], records[n][k], value)
          PROVE  /\ names'[n] # None
                 /\ records'[n][k].record_epoch <= names'[n].record_epoch
                 /\ records'[n][k].owner_snapshot = names'[n].owner
      <3>1. names[n] \in NameAccount
        BY <2>1 DEF TypeOK
      <3>2. /\ records'[n][k].record_epoch = names[n].record_epoch
            /\ records'[n][k].owner_snapshot = names[n].owner
        BY <2>1 DEF new_record
      <3> QED
        BY <2>1, <3>1, <3>2 DEF NameAccount, U64
    <2>2. CASE records'[n][k] = records[n][k]
      <3>1. /\ names[n] # None
            /\ records[n][k].record_epoch <= names[n].record_epoch
            /\ (/\ records[n][k].record_epoch = names[n].record_epoch
                /\ names[n].record_epoch < MaxU64)
                  => records[n][k].owner_snapshot = names[n].owner
        BY <2>2 DEF EpochFixesOwner
      <3>2. names[n] \in NameAccount /\ records[n][k] \in RecordAccount
        BY <2>2, <3>1 DEF TypeOK
      <3>3. names[n].record_epoch \in U64 /\ records[n][k].record_epoch \in U64
        BY <3>2 DEF NameAccount, RecordAccount
      <3>4. CASE names'[n] = names[n]
        BY <2>2, <3>1, <3>4
      <3>5. CASE names'[n] = with_primary(names[n])
        BY <2>2, <3>1, <3>2, <3>5, Counters, NameTransitions, NoneAssumption
      <3>6. ASSUME NEW u \in Users, names'[n] = transferred(names[n], u)
            PROVE  /\ names'[n] # None
                   /\ records'[n][k].record_epoch <= names'[n].record_epoch
                   /\ (/\ records'[n][k].record_epoch = names'[n].record_epoch
                       /\ names'[n].record_epoch < MaxU64)
                         => records'[n][k].owner_snapshot = names'[n].owner
        <4>1. names'[n] # None
          BY <3>2, <3>6, NameTransitions, NoneAssumption
        <4>2. names'[n].record_epoch = saturating_add_1(names[n].record_epoch)
          BY <3>2, <3>6, Counters
        <4> QED
          BY <2>2, <3>1, <3>3, <4>1, <4>2, CountersAssumption
          DEF saturating_add_1, U64
      <3> QED
        BY <3>1, <3>4, <3>5, <3>6, NameStep
    <2> QED
      BY <2>1, <2>2, RecordStep
  <1> QED
    BY <1>1, <1>2, TypeCorrect, PTL DEF Spec

\* The strengthening behind BoundRecordResolves: a stored value was valid for
\* the owner that wrote it.
ValidForWriter ==
    \A n \in Names, k \in RecordKeys :
        records[n][k] # None =>
            validate_record_value(records[n][k].owner_snapshot, k, records[n][k].value)

\* A record bound to its name's owner and epoch always passes the validation
\* that resolution repeats.
THEOREM BoundRecordResolvesThm == Spec => []BoundRecordResolves
  <1>1. Init => ValidForWriter
    BY DEF Init, ValidForWriter
  <1>2. TypeOK /\ ValidForWriter /\ [Next]_vars => ValidForWriter'
    <2> SUFFICES ASSUME TypeOK, ValidForWriter, [Next]_vars,
                        NEW n \in Names, NEW k \in RecordKeys, records'[n][k] # None
                 PROVE  validate_record_value(records'[n][k].owner_snapshot, k,
                                              records'[n][k].value)
      BY DEF ValidForWriter, validate_record_value
    <2>1. ASSUME NEW value \in RecordValue,
                 validate_record_value(names[n].owner, k, value),
                 records'[n][k] = new_record(names[n], records[n][k], value)
          PROVE  validate_record_value(records'[n][k].owner_snapshot, k,
                                       records'[n][k].value)
      BY <2>1 DEF new_record
    <2>2. CASE records'[n][k] = records[n][k]
      BY <2>2 DEF ValidForWriter
    <2> QED
      BY <2>1, <2>2, RecordStep
  <1>3. EpochFixesOwner /\ ValidForWriter => BoundRecordResolves
    BY DEF EpochFixesOwner, ValidForWriter, BoundRecordResolves, bound_to, resolve_record_ok
  <1> QED
    BY <1>1, <1>2, <1>3, TypeCorrect, EpochFixesOwnerThm, PTL DEF Spec

\* No change of owner, and nothing else but a write, makes a record resolve
\* that did not, while the epoch is below the counter's limit.
THEOREM NoRecordRevivalThm == Spec => NoRecordRevival
  <1>1. TypeOK /\ EpochFixesOwner /\ [Next]_vars => record_revival_is_a_write
    <2> SUFFICES ASSUME TypeOK, EpochFixesOwner, [Next]_vars,
                        NEW n \in Names, NEW k \in RecordKeys,
                        ~record_resolves(n, k), record_resolves(n, k)',
                        names[n] # None, names[n].record_epoch < MaxU64,
                        records'[n][k] = records[n][k]
                 PROVE  FALSE
      BY DEF record_revival_is_a_write
    <2>1. /\ records[n][k] # None
          /\ records[n][k].owner_snapshot = names'[n].owner
          /\ records[n][k].record_epoch = names'[n].record_epoch
          /\ validate_record_value(names'[n].owner, k, records[n][k].value)
      BY DEF record_resolves, resolve_record_ok, bound_to, validate_record_value
    <2>2. names[n] \in NameAccount /\ records[n][k] \in RecordAccount
      BY <2>1 DEF TypeOK
    <2>3. names[n].record_epoch \in U64 /\ records[n][k].record_epoch \in U64
      BY <2>2 DEF NameAccount, RecordAccount
    <2>4. names'[n].owner = names[n].owner /\ names'[n].record_epoch = names[n].record_epoch
          => FALSE
      BY <2>1 DEF record_resolves, resolve_record_ok, bound_to, validate_record_value
    <2>5. CASE names'[n] = with_primary(names[n])
      BY <2>2, <2>4, <2>5, Counters
    <2>6. ASSUME NEW u \in Users, names'[n] = transferred(names[n], u) PROVE FALSE
      <3>1. names'[n].record_epoch = names[n].record_epoch + 1
        BY <2>2, <2>3, <2>6, Counters, SaturatingAdd
      <3>2. records[n][k].record_epoch <= names[n].record_epoch
        BY <2>1 DEF EpochFixesOwner
      <3> QED
        BY <2>1, <2>3, <3>1, <3>2 DEF U64
    <2> QED
      BY <2>4, <2>5, <2>6, NameStep
  <1> QED
    BY <1>1, TypeCorrect, EpochFixesOwnerThm, PTL DEF Spec, NoRecordRevival

\* What one instruction can do to a reverse account: nothing, a deletion, or a
\* new binding at the nonce the same instruction gives the name.
LEMMA ReverseStep ==
    ASSUME TypeOK, [Next]_vars, NEW u \in Users
    PROVE  \/ reverse'[u] = reverse[u]
           \/ reverse'[u] = None
           \/ \E n \in Names :
                /\ names[n] # None
                /\ names[n].owner = u
                /\ names'[n] = with_primary(names[n])
                /\ reverse'[u] = new_reverse(names'[n], n)
  <1>1. CASE UNCHANGED vars
    BY <1>1 DEF vars
  <1>2. CASE NameInstruction
    <2>1. ASSUME NEW s \in Users, NEW n \in Names, set_primary(s, n)
          PROVE  \/ reverse'[u] = reverse[u]
                 \/ /\ names[n] # None
                    /\ names[n].owner = u
                    /\ names'[n] = with_primary(names[n])
                    /\ reverse'[u] = new_reverse(names'[n], n)
      BY <2>1 DEF set_primary, signed_by_owner, TypeOK
    <2>2. ASSUME NEW s \in Users, NEW v \in Users, clear_primary(s, v)
          PROVE  reverse'[u] = reverse[u] \/ reverse'[u] = None
      BY <2>2 DEF clear_primary, TypeOK
    <2>3. ASSUME NEW s \in Users,
                 \/ initialize_registry(s)
                 \/ \E n \in Names : \/ register(s, n)
                                     \/ \E v \in Users : transfer(s, n, v)
          PROVE  reverse' = reverse
      BY <2>3 DEF initialize_registry, register, transfer
    <2> QED
      BY <1>2, <2>1, <2>2, <2>3 DEF NameInstruction
  <1>3. CASE RecordInstruction
    BY <1>3 DEF RecordInstruction, set_record, delete_record
  <1>4. CASE MarketInstruction
    BY <1>4
    DEF MarketInstruction, list_name, make_offer, cancel_listing, cancel_offer, buy_name,
        accept_offer
  <1> QED
    BY <1>1, <1>2, <1>3, <1>4 DEF Next

\* A reverse account belongs to the address it is derived from and its nonce
\* never exceeds the nonce of the name it points to.
THEOREM ReverseBehindNameThm == Spec => []ReverseBehindName
  <1>1. Init => ReverseBehindName
    BY DEF Init, ReverseBehindName
  <1>2. TypeOK /\ ReverseBehindName /\ tenures_advance /\ [Next]_vars => ReverseBehindName'
    <2> SUFFICES ASSUME TypeOK, ReverseBehindName, tenures_advance, [Next]_vars, TypeOK',
                        NEW u \in Users, reverse'[u] # None
                 PROVE  /\ reverse'[u].owner = u
                        /\ names'[reverse'[u].primary_name] # None
                        /\ reverse'[u].binding_nonce
                             <= names'[reverse'[u].primary_name].primary_binding_nonce
      BY TypeStep DEF ReverseBehindName
    <2>1. CASE reverse'[u] = reverse[u]
      <3> DEFINE m == reverse[u].primary_name
      <3>1. m \in Names /\ reverse[u].binding_nonce \in U64
        BY <2>1 DEF TypeOK, ReverseAccount
      <3>2. /\ reverse[u].owner = u
            /\ names[m] # None
            /\ reverse[u].binding_nonce <= names[m].primary_binding_nonce
        BY <2>1 DEF ReverseBehindName
      <3>3. names'[m] # None
        BY <3>1, <3>2 DEF tenures_advance
      <3>4. names[m] \in NameAccount /\ names'[m] \in NameAccount
        BY <3>1, <3>2, <3>3 DEF TypeOK
      <3>5. names'[m].primary_binding_nonce >= names[m].primary_binding_nonce
        BY <3>1, <3>2 DEF tenures_advance
      <3>6. names[m].primary_binding_nonce \in U64 /\ names'[m].primary_binding_nonce \in U64
        BY <3>4 DEF NameAccount
      <3> QED
        BY <2>1, <3>1, <3>2, <3>3, <3>5, <3>6 DEF U64
    <2>2. ASSUME NEW n \in Names, names[n] # None, names[n].owner = u,
                 names'[n] = with_primary(names[n]),
                 reverse'[u] = new_reverse(names'[n], n)
          PROVE  /\ reverse'[u].owner = u
                 /\ names'[reverse'[u].primary_name] # None
                 /\ reverse'[u].binding_nonce
                      <= names'[reverse'[u].primary_name].primary_binding_nonce
      <3>1. names[n] \in NameAccount
        BY <2>2 DEF TypeOK
      <3>2. names'[n] \in NameAccount /\ names'[n] # None /\ names'[n].owner = u
        BY <2>2, <3>1, Counters, NameTransitions, NoneAssumption
      <3>3. names'[n].primary_binding_nonce \in U64
        BY <3>2 DEF NameAccount
      <3> QED
        BY <2>2, <3>2, <3>3 DEF new_reverse, U64
    <2> QED
      BY <2>1, <2>2, ReverseStep
  <1>3. TypeOK /\ [Next]_vars => tenures_advance
    BY TenureStep
  <1> QED
    BY <1>1, <1>2, <1>3, TypeCorrect, PTL DEF Spec

\* A primary name that stopped resolving does not resolve again without a new
\* set_primary, while the nonce is below the counter's limit.
THEOREM NoPrimaryRevivalThm == Spec => NoPrimaryRevival
  <1>1. TypeOK /\ ReverseBehindName /\ [Next]_vars => primary_revival_is_a_write
    <2> SUFFICES ASSUME TypeOK, ReverseBehindName, [Next]_vars, NEW u \in Users,
                        reverse[u] # None, ~primary_resolves(u), primary_resolves(u)',
                        names[reverse[u].primary_name].primary_binding_nonce < MaxU64,
                        reverse'[u] = reverse[u]
                 PROVE  FALSE
      BY DEF primary_revival_is_a_write
    <2> DEFINE m == reverse[u].primary_name
    <2>1. m \in Names /\ reverse[u].binding_nonce \in U64
      BY DEF TypeOK, ReverseAccount
    <2>2. names[m] # None /\ reverse[u].binding_nonce <= names[m].primary_binding_nonce
      BY DEF ReverseBehindName
    <2>3. names[m] \in NameAccount
      BY <2>1, <2>2 DEF TypeOK
    <2>4. names[m].primary_binding_nonce \in U64
      BY <2>3 DEF NameAccount
    <2>5. /\ names'[m].owner = reverse[u].owner
          /\ names'[m].primary_binding_nonce = reverse[u].binding_nonce
      BY DEF primary_resolves, resolve_primary_ok
    <2>6. names'[m] # names[m]
      BY <2>2, <2>5 DEF primary_resolves, resolve_primary_ok
    <2>7. names'[m].primary_binding_nonce = names[m].primary_binding_nonce + 1
      BY <2>1, <2>2, <2>3, <2>4, <2>6, NameStep, Counters, SaturatingAdd
    <2> QED
      BY <2>1, <2>2, <2>4, <2>5, <2>7 DEF U64
  <1> QED
    BY <1>1, TypeCorrect, ReverseBehindNameThm, PTL DEF Spec, NoPrimaryRevival

-----------------------------------------------------------------------------
(* Rent                                                                    *)

\* The accounts that never pay for anything: every PDA but the offers.
DataAccounts ==
    {ConfigPda} \cup {NamePda(n) : n \in Names} \cup {ListingPda(n) : n \in Names}
        \cup {RecordPda(n, k) : n \in Names, k \in RecordKeys}
        \cup {ReversePda(u) : u \in Users}

LEMMA DataAccountsAreDistinct ==
    /\ DataAccounts \subseteq Accounts
    /\ \A a \in DataAccounts, u \in Users : a # Wallet(u)
    /\ \A a \in DataAccounts, n \in Names, b \in Users : a # OfferPda(n, b)
  <1>1. DataAccounts \subseteq Accounts
    BY DEF DataAccounts, Accounts
  <1>2. ASSUME NEW a \in DataAccounts, NEW u \in Users PROVE a # Wallet(u)
    BY DEF DataAccounts, Wallet, ConfigPda, NamePda, ListingPda, RecordPda, ReversePda
  <1>3. ASSUME NEW a \in DataAccounts, NEW n \in Names, NEW b \in Users
        PROVE  a # OfferPda(n, b)
    BY DEF DataAccounts, OfferPda, ConfigPda, NamePda, ListingPda, RecordPda, ReversePda
  <1> QED BY <1>1, <1>2, <1>3

\* A payment out of a wallet or an escrow lowers no data account.
LEMMA MovedKeepsRent ==
    ASSUME NEW l \in [Accounts -> Nat], NEW from \in Accounts, NEW to \in Accounts,
           NEW amount \in Nat, from \notin DataAccounts
    PROVE  \A x \in DataAccounts : moved(l, from, to, amount)[x] >= l[x]
  BY DataAccountsAreDistinct DEF moved

\* A store funds its account and lowers no data account.
LEMMA StoreFunds ==
    ASSUME NEW l \in [Accounts -> Nat], NEW payer \in Users, NEW a \in Accounts,
           NEW rent \in Nat, can_store(l, payer, a, rent), a # Wallet(payer)
    PROVE  /\ stored(l, payer, a, rent) \in [Accounts -> Nat]
           /\ stored(l, payer, a, rent)[a] >= rent
           /\ \A x \in DataAccounts : stored(l, payer, a, rent)[x] >= l[x]
  <1>1. Wallet(payer) \in Accounts /\ Wallet(payer) \notin DataAccounts
    BY Addresses, DataAccountsAreDistinct
  <1>2. shortfall(l, a, rent) \in Nat
    BY DEF shortfall
  <1>3. \A x \in DataAccounts : stored(l, payer, a, rent)[x] >= l[x]
    BY <1>1, <1>2, MovedKeepsRent DEF stored
  <1>4. /\ stored(l, payer, a, rent) \in [Accounts -> Nat]
        /\ stored(l, payer, a, rent)[a] >= rent
    BY StoredType
  <1> QED BY <1>3, <1>4

\* The step lowers no data account, and whatever data account it fills for the
\* first time, or with another record, leaves the step with its rent.
balances_keep == \A x \in DataAccounts : lamports'[x] >= lamports[x]

fills_with_rent ==
    /\ config' # None => config # None \/ lamports'[ConfigPda] >= Rent
    /\ \A n \in Names :
         /\ names'[n] # None => names[n] # None \/ lamports'[NamePda(n)] >= Rent
         /\ listings'[n] # None => listings[n] # None \/ lamports'[ListingPda(n)] >= Rent
         /\ \A k \in RecordKeys :
               records'[n][k] # None =>
                   \/ records'[n][k] = records[n][k]
                   \/ lamports'[RecordPda(n, k)] >= record_rent(records'[n][k].value)
    /\ \A u \in Users : reverse'[u] # None =>
         reverse[u] # None \/ lamports'[ReversePda(u)] >= Rent

\* Two stores, one after the other, as the instructions with two accounts do.
LEMMA StoresFund ==
    ASSUME NEW l \in [Accounts -> Nat], NEW payer \in Users, NEW a \in Accounts,
           NEW b \in Accounts, a # Wallet(payer), b # Wallet(payer),
           can_store(l, payer, a, Rent), can_store(stored(l, payer, a, Rent), payer, b, Rent)
    PROVE  /\ stored(stored(l, payer, a, Rent), payer, b, Rent) \in [Accounts -> Nat]
           /\ stored(stored(l, payer, a, Rent), payer, b, Rent)[b] >= Rent
           /\ \A x \in DataAccounts :
                stored(stored(l, payer, a, Rent), payer, b, Rent)[x] >= l[x]
  <1> DEFINE m == stored(l, payer, a, Rent)
             r == stored(m, payer, b, Rent)
  <1>1. m \in [Accounts -> Nat] /\ \A x \in DataAccounts : m[x] >= l[x]
    BY StoreFunds, RentAssumption
  <1> HIDE DEF m
  <1>2. /\ r \in [Accounts -> Nat] /\ r[b] >= Rent
        /\ \A x \in DataAccounts : r[x] >= m[x]
    <2>1. can_store(m, payer, b, Rent)
      BY DEF m
    <2> QED BY <1>1, <2>1, StoreFunds, RentAssumption
  <1> HIDE DEF r
  <1>3. \A x \in DataAccounts : r[x] >= l[x]
    <2> TAKE x \in DataAccounts
    <2>1. x \in Accounts
      BY DataAccountsAreDistinct
    <2>2. r[x] \in Nat /\ m[x] \in Nat /\ l[x] \in Nat
      BY <1>1, <1>2, <2>1
    <2> QED BY <1>1, <1>2, <2>2
  <1> QED BY <1>2, <1>3 DEF m, r

LEMMA NameRentStep == TypeOK /\ NameInstruction => balances_keep /\ fills_with_rent
  <1> SUFFICES ASSUME TypeOK, NameInstruction PROVE balances_keep /\ fills_with_rent
    OBVIOUS
  <1>0. lamports \in [Accounts -> Nat] /\ Rent \in Nat
    BY RentAssumption DEF TypeOK
  <1>a. /\ ConfigPda \in DataAccounts /\ \A n \in Names : NamePda(n) \in DataAccounts
        /\ \A u \in Users : ReversePda(u) \in DataAccounts
    BY DEF DataAccounts
  <1>b. /\ \A x \in DataAccounts : x \in Accounts
        /\ \A x \in DataAccounts, u \in Users : x # Wallet(u)
    BY DataAccountsAreDistinct
  <1>1. ASSUME NEW s \in Users, initialize_registry(s) PROVE balances_keep /\ fills_with_rent
    <2>1. balances_keep /\ lamports'[ConfigPda] >= Rent
      BY <1>0, <1>1, <1>a, <1>b, StoreFunds DEF initialize_registry, balances_keep
    <2> QED BY <1>1, <2>1 DEF initialize_registry, fills_with_rent
  <1>2. ASSUME NEW s \in Users, NEW n \in Names, register(s, n)
        PROVE  balances_keep /\ fills_with_rent
    <2>1. balances_keep /\ lamports'[NamePda(n)] >= Rent
      BY <1>0, <1>2, <1>a, <1>b, StoreFunds DEF register, balances_keep
    <2>2. \A m \in Names : m # n => names'[m] = names[m]
      BY <1>2 DEF register, TypeOK
    <2> QED BY <1>2, <2>1, <2>2 DEF register, fills_with_rent
  <1>3. ASSUME NEW s \in Users, NEW n \in Names, NEW u \in Users, transfer(s, n, u)
        PROVE  balances_keep /\ fills_with_rent
    <2>1. balances_keep
      BY <1>0, <1>3, <1>a, <1>b, StoreFunds DEF transfer, balances_keep
    <2>2. (\A m \in Names : m # n => names'[m] = names[m]) /\ names[n] # None
      BY <1>3 DEF transfer, TypeOK, signed_by_owner
    <2> QED BY <1>3, <2>1, <2>2 DEF transfer, fills_with_rent
  <1>4. ASSUME NEW s \in Users, NEW n \in Names, set_primary(s, n)
        PROVE  balances_keep /\ fills_with_rent
    <2>1. balances_keep /\ lamports'[ReversePda(s)] >= Rent
      BY <1>0, <1>4, <1>a, <1>b, StoresFund DEF set_primary, balances_keep
    <2>2. (\A m \in Names : m # n => names'[m] = names[m]) /\ names[n] # None
      BY <1>4 DEF set_primary, TypeOK, signed_by_owner
    <2>3. \A u \in Users : u # s => reverse'[u] = reverse[u]
      BY <1>4 DEF set_primary, TypeOK
    <2> QED BY <1>4, <2>1, <2>2, <2>3 DEF set_primary, fills_with_rent
  <1>5. ASSUME NEW s \in Users, NEW u \in Users, clear_primary(s, u)
        PROVE  balances_keep /\ fills_with_rent
    <2>1. balances_keep
      BY <1>0, <1>5, <1>b DEF clear_primary, balances_keep
    <2>2. \A v \in Users : reverse'[v] = reverse[v] \/ reverse'[v] = None
      BY <1>5 DEF clear_primary, TypeOK
    <2> QED BY <1>5, <2>1, <2>2 DEF clear_primary, fills_with_rent
  <1> QED BY <1>1, <1>2, <1>3, <1>4, <1>5 DEF NameInstruction

LEMMA RecordRentStep == TypeOK /\ RecordInstruction => balances_keep /\ fills_with_rent
  <1> SUFFICES ASSUME TypeOK, RecordInstruction PROVE balances_keep /\ fills_with_rent
    OBVIOUS
  <1>0. lamports \in [Accounts -> Nat] /\ Rent \in Nat
    BY RentAssumption DEF TypeOK
  <1>a. \A n \in Names, k \in RecordKeys : RecordPda(n, k) \in DataAccounts
    BY DEF DataAccounts
  <1>b. /\ \A x \in DataAccounts : x \in Accounts
        /\ \A x \in DataAccounts, u \in Users : x # Wallet(u)
    BY DataAccountsAreDistinct
  <1>1. ASSUME NEW s \in Users, NEW n \in Names, NEW k \in RecordKeys, NEW r \in U64,
               NEW value \in RecordValue, set_record(s, n, k, value, r)
        PROVE  balances_keep /\ fills_with_rent
    <2>1. record_rent(value) \in Nat
      BY <1>0 DEF record_rent
    <2>2. balances_keep /\ lamports'[RecordPda(n, k)] >= record_rent(value)
      BY <1>0, <1>1, <1>a, <1>b, <2>1, StoreFunds DEF set_record, balances_keep
    <2>3. /\ records'[n][k] = new_record(names[n], records[n][k], value)
          /\ \A m \in Names, j \in RecordKeys : ~(m = n /\ j = k) => records'[m][j] = records[m][j]
      BY <1>1 DEF set_record, TypeOK
    <2>4. records'[n][k].value = value
      BY <2>3 DEF new_record
    <2> QED BY <1>1, <2>2, <2>3, <2>4 DEF set_record, fills_with_rent
  <1>2. ASSUME NEW s \in Users, NEW n \in Names, NEW k \in RecordKeys, NEW r \in U64,
               delete_record(s, n, k, r)
        PROVE  balances_keep /\ fills_with_rent
    <2>1. balances_keep
      BY <1>0, <1>2, <1>b DEF delete_record, balances_keep
    <2>2. \A m \in Names, j \in RecordKeys :
            records'[m][j] = records[m][j] \/ records'[m][j] = None
      BY <1>2 DEF delete_record, TypeOK
    <2> QED BY <1>2, <2>1, <2>2 DEF delete_record, fills_with_rent
  <1> QED BY <1>1, <1>2 DEF RecordInstruction

\* Tables of balances in which no data account is lower.
above(l, m) == \A x \in DataAccounts : l[x] >= m[x]

LEMMA AboveTransitive ==
    ASSUME NEW l \in [Accounts -> Nat], NEW m \in [Accounts -> Nat],
           NEW r \in [Accounts -> Nat], above(r, m), above(m, l)
    PROVE  above(r, l)
  <1> SUFFICES ASSUME NEW x \in DataAccounts PROVE r[x] >= l[x]
    BY DEF above
  <1>1. x \in Accounts
    BY DataAccountsAreDistinct
  <1>2. r[x] \in Nat /\ m[x] \in Nat /\ l[x] \in Nat /\ r[x] >= m[x] /\ m[x] >= l[x]
    BY <1>1 DEF above
  <1> QED BY <1>2

LEMMA AboveReflexive ==
    ASSUME NEW l \in [Accounts -> Nat]
    PROVE  above(l, l)
  BY DataAccountsAreDistinct DEF above

\* The payment of a sale or of a refund.
LEMMA PaymentKeepsRent ==
    ASSUME TypeOK, NEW c, NEW p \in Nat, NEW from \in Accounts, NEW to \in Accounts,
           from \notin DataAccounts, c = "ARCH" => lamports[from] >= p
    PROVE  /\ lamports_after(c, p, from, to) \in [Accounts -> Nat]
           /\ above(lamports_after(c, p, from, to), lamports)
  <1>0. lamports \in [Accounts -> Nat]
    BY DEF TypeOK
  <1>1. CASE c = "ARCH"
    <2>1. lamports_after(c, p, from, to) = moved(lamports, from, to, p)
      BY <1>1 DEF lamports_after
    <2>2. moved(lamports, from, to, p) \in [Accounts -> Nat]
      BY <1>0, <1>1, MovedType
    <2>3. above(moved(lamports, from, to, p), lamports)
      BY <1>0, MovedKeepsRent DEF above
    <2> QED BY <2>1, <2>2, <2>3
  <1>2. CASE c # "ARCH"
    BY <1>0, <1>2, AboveReflexive DEF lamports_after
  <1> QED BY <1>1, <1>2

LEMMA MarketRentStep == TypeOK /\ MarketInstruction => balances_keep /\ fills_with_rent
  <1> SUFFICES ASSUME TypeOK, MarketInstruction PROVE balances_keep /\ fills_with_rent
    OBVIOUS
  <1>0. lamports \in [Accounts -> Nat] /\ Rent \in Nat
    BY RentAssumption DEF TypeOK
  <1>a. \A n \in Names : NamePda(n) \in DataAccounts /\ ListingPda(n) \in DataAccounts
    BY DEF DataAccounts
  <1>b. /\ \A x \in DataAccounts : x \in Accounts
        /\ \A x \in DataAccounts, u \in Users : x # Wallet(u)
    BY DataAccountsAreDistinct
  <1>c. \A n \in Names, b, u \in Users :
          /\ Wallet(u) \in Accounts /\ Wallet(u) \notin DataAccounts
          /\ OfferPda(n, b) \in Accounts /\ OfferPda(n, b) \notin DataAccounts
          /\ OfferPda(n, b) # Wallet(u)
    BY DataAccountsAreDistinct, Addresses, OfferPdaIsDistinct
  <1>d. above(lamports', lamports) => balances_keep
    BY DEF above, balances_keep
  <1>1. ASSUME NEW s \in Users, NEW n \in Names, NEW c \in QuoteCurrency,
               NEW p \in Prices, list_name(s, n, c, p)
        PROVE  balances_keep /\ fills_with_rent
    <2>1. balances_keep /\ lamports'[ListingPda(n)] >= Rent
      BY <1>0, <1>1, <1>a, <1>b, StoreFunds DEF list_name, balances_keep
    <2>2. \A m \in Names : m # n => listings'[m] = listings[m]
      BY <1>1 DEF list_name, TypeOK
    <2> QED BY <1>1, <2>1, <2>2 DEF list_name, fills_with_rent
  <1>2. ASSUME NEW s \in Users, NEW n \in Names, cancel_listing(s, n)
        PROVE  balances_keep /\ fills_with_rent
    <2>1. balances_keep
      BY <1>0, <1>2, <1>a, <1>b, StoreFunds DEF cancel_listing, balances_keep
    <2>2. (\A m \in Names : m # n => listings'[m] = listings[m]) /\ listings[n] # None
      BY <1>2 DEF cancel_listing, TypeOK, is_active
    <2> QED BY <1>2, <2>1, <2>2 DEF cancel_listing, fills_with_rent
  <1>3. ASSUME NEW b \in Users, NEW n \in Names, NEW c \in QuoteCurrency,
               NEW p \in Prices, make_offer(b, n, c, p)
        PROVE  balances_keep /\ fills_with_rent
    <2> DEFINE l == stored(lamports, b, OfferPda(n, b), Rent)
    <2>1. l \in [Accounts -> Nat] /\ above(l, lamports)
      BY <1>0, <1>3, <1>c, StoreFunds DEF make_offer, above
    <2>2. /\ c = "ARCH" => l[Wallet(b)] >= p
          /\ lamports' = IF c = "ARCH" THEN moved(l, Wallet(b), OfferPda(n, b), p) ELSE l
      BY <1>3 DEF make_offer
    <2>3. p \in Nat
      BY PricesAssumption
    <2> HIDE DEF l
    <2>4. lamports' \in [Accounts -> Nat] /\ above(lamports', l)
      <3>1. CASE c = "ARCH"
        BY <1>c, <2>1, <2>2, <2>3, <3>1, MovedType, MovedKeepsRent DEF above
      <3>2. CASE c # "ARCH"
        BY <2>1, <2>2, <3>2, AboveReflexive
      <3> QED BY <3>1, <3>2
    <2>5. balances_keep
      BY <1>0, <1>d, <2>1, <2>4, AboveTransitive
    <2> QED BY <1>3, <2>5 DEF make_offer, fills_with_rent
  <1>4. ASSUME NEW b \in Users, NEW n \in Names, cancel_offer(b, n)
        PROVE  balances_keep /\ fills_with_rent
    <2> DEFINE bid == offers[n][b]
               l == lamports_after(bid.currency, bid.price, OfferPda(n, b), Wallet(b))
    <2>1. bid \in OfferAccount
      BY <1>4 DEF cancel_offer, is_active, TypeOK
    <2>2. bid.price \in Nat
      BY <2>1, PricesAssumption DEF OfferAccount
    <2>3. /\ bid.currency = "ARCH" => lamports[OfferPda(n, b)] >= bid.price
          /\ can_store(l, b, OfferPda(n, b), Rent)
          /\ lamports' = stored(l, b, OfferPda(n, b), Rent)
      BY <1>4 DEF cancel_offer, lamports_after
    <2>4. l \in [Accounts -> Nat] /\ above(l, lamports)
      BY <1>c, <2>2, <2>3, PaymentKeepsRent
    <2> HIDE DEF l, bid
    <2>5. lamports' \in [Accounts -> Nat] /\ above(lamports', l)
      BY <1>0, <1>c, <2>3, <2>4, StoreFunds DEF above
    <2>6. balances_keep
      BY <1>0, <1>d, <2>4, <2>5, AboveTransitive
    <2> QED BY <1>4, <2>6 DEF cancel_offer, fills_with_rent
  <1>5. ASSUME NEW b \in Users, NEW n \in Names, NEW payee \in Users, buy_name(b, n, payee)
        PROVE  balances_keep /\ fills_with_rent
    <2> DEFINE ask == listings[n]
               l1  == lamports_after(ask.currency, ask.price, Wallet(b), Wallet(ask.seller))
               l2  == stored(l1, b, NamePda(n), Rent)
    <2>1. ask \in ListingAccount
      BY <1>5 DEF buy_name, is_active, TypeOK
    <2>2. ask.price \in Nat /\ ask.seller \in Users
      BY <2>1, PricesAssumption DEF ListingAccount
    <2>3. /\ ask.currency = "ARCH" => lamports[Wallet(b)] >= ask.price
          /\ can_store(l1, b, NamePda(n), Rent) /\ can_store(l2, b, ListingPda(n), Rent)
          /\ lamports' = stored(l2, b, ListingPda(n), Rent)
      BY <1>5 DEF buy_name, can_pay
    <2>4. l1 \in [Accounts -> Nat] /\ above(l1, lamports)
      BY <1>c, <2>2, <2>3, PaymentKeepsRent
    <2> HIDE DEF l1, ask
    <2>5. lamports' \in [Accounts -> Nat] /\ above(lamports', l1)
      BY <1>a, <1>b, <2>3, <2>4, StoresFund DEF above
    <2>6. balances_keep
      BY <1>0, <1>d, <2>4, <2>5, AboveTransitive
    <2>7. \A m \in Names : m # n => listings'[m] = listings[m] /\ names'[m] = names[m]
      BY <1>5 DEF buy_name, TypeOK
    <2>8. names[n] # None /\ listings[n] # None
      BY <1>5 DEF buy_name, is_active
    <2> QED BY <1>5, <2>6, <2>7, <2>8 DEF buy_name, fills_with_rent
  <1>6. ASSUME NEW s \in Users, NEW b \in Users, NEW n \in Names, NEW payee \in Users,
               accept_offer(s, b, n, payee)
        PROVE  balances_keep /\ fills_with_rent
    <2> DEFINE bid == offers[n][b]
               l1  == lamports_after(bid.currency, bid.price, OfferPda(n, b), Wallet(s))
               l2  == IF is_active(listings[n])
                      THEN stored(l1, s, ListingPda(n), Rent) ELSE l1
               l3  == stored(l2, s, NamePda(n), Rent)
    <2>1. bid \in OfferAccount
      BY <1>6 DEF accept_offer, is_active, TypeOK
    <2>2. bid.price \in Nat
      BY <2>1, PricesAssumption DEF OfferAccount
    <2>3. /\ bid.currency = "ARCH" => lamports[OfferPda(n, b)] >= bid.price
          /\ is_active(listings[n]) => can_store(l1, s, ListingPda(n), Rent)
          /\ can_store(l2, s, NamePda(n), Rent) /\ can_store(l3, s, OfferPda(n, b), Rent)
          /\ lamports' = stored(l3, s, OfferPda(n, b), Rent)
      BY <1>6 DEF accept_offer, can_pay
    <2>4. l1 \in [Accounts -> Nat] /\ above(l1, lamports)
      BY <1>c, <2>2, <2>3, PaymentKeepsRent
    <2>5. l2 \in [Accounts -> Nat] /\ above(l2, l1)
      <3> HIDE DEF l1
      <3>1. CASE is_active(listings[n])
        BY <1>0, <1>a, <1>b, <2>3, <2>4, <3>1, StoreFunds DEF above
      <3>2. CASE ~is_active(listings[n])
        BY <2>4, <3>2, AboveReflexive
      <3> QED BY <3>1, <3>2
    <2> HIDE DEF l1, l2, bid
    <2>6. lamports' \in [Accounts -> Nat] /\ above(lamports', l2)
      BY <1>a, <1>b, <1>c, <2>3, <2>5, StoresFund DEF above
    <2>7. above(l2, lamports)
      BY <1>0, <2>4, <2>5, AboveTransitive
    <2>8. balances_keep
      BY <1>0, <1>d, <2>5, <2>6, <2>7, AboveTransitive
    <2>9. \A m \in Names : m # n => listings'[m] = listings[m] /\ names'[m] = names[m]
      BY <1>6 DEF accept_offer, TypeOK
    <2>10. names[n] # None /\ (listings'[n] # None => listings[n] # None)
      BY <1>6 DEF accept_offer, signed_by_owner, is_active
    <2> QED BY <1>6, <2>8, <2>9, <2>10 DEF accept_offer, fills_with_rent
  <1> QED BY <1>1, <1>2, <1>3, <1>4, <1>5, <1>6 DEF MarketInstruction

LEMMA RentStep == TypeOK /\ RentExempt /\ [Next]_vars => RentExempt'
  <1> SUFFICES ASSUME TypeOK, RentExempt, [Next]_vars PROVE RentExempt'
    OBVIOUS
  <1>0. TypeOK'
    BY TypeStep
  <1>1. balances_keep /\ fills_with_rent
    <2>1. CASE UNCHANGED vars
      BY <2>1, DataAccountsAreDistinct DEF vars, balances_keep, fills_with_rent, TypeOK
    <2> QED
      BY <2>1, NameRentStep, RecordRentStep, MarketRentStep DEF Next
  <1>2. /\ lamports \in [Accounts -> Nat] /\ lamports' \in [Accounts -> Nat] /\ Rent \in Nat
        /\ \A value : record_rent(value) \in Nat
    BY <1>0, RentAssumption DEF TypeOK, record_rent
  <1>3. \A x \in DataAccounts, rent \in Nat : lamports[x] >= rent => lamports'[x] >= rent
    <2> TAKE x \in DataAccounts, rent \in Nat
    <2>1. x \in Accounts /\ lamports'[x] >= lamports[x]
      BY <1>1, DataAccountsAreDistinct DEF balances_keep
    <2>2. lamports[x] \in Nat /\ lamports'[x] \in Nat
      BY <1>2, <2>1
    <2> QED BY <2>1, <2>2
  <1>4. config' # None => lamports'[ConfigPda] >= Rent
    <2>1. ConfigPda \in DataAccounts
      BY DEF DataAccounts
    <2> QED BY <1>1, <1>2, <1>3, <2>1 DEF RentExempt, fills_with_rent
  <1>5. ASSUME NEW n \in Names
        PROVE  /\ names'[n] # None => lamports'[NamePda(n)] >= Rent
               /\ listings'[n] # None => lamports'[ListingPda(n)] >= Rent
    <2>1. NamePda(n) \in DataAccounts /\ ListingPda(n) \in DataAccounts
      BY DEF DataAccounts
    <2> QED BY <1>1, <1>2, <1>3, <2>1 DEF RentExempt, fills_with_rent
  <1>6. ASSUME NEW n \in Names, NEW k \in RecordKeys, records'[n][k] # None
        PROVE  lamports'[RecordPda(n, k)] >= record_rent(records'[n][k].value)
    <2>1. RecordPda(n, k) \in DataAccounts
      BY DEF DataAccounts
    <2> QED BY <1>1, <1>2, <1>3, <1>6, <2>1 DEF RentExempt, fills_with_rent
  <1>7. ASSUME NEW u \in Users, reverse'[u] # None PROVE lamports'[ReversePda(u)] >= Rent
    <2>1. ReversePda(u) \in DataAccounts
      BY DEF DataAccounts
    <2> QED BY <1>1, <1>2, <1>3, <1>7, <2>1 DEF RentExempt, fills_with_rent
  <1> QED BY <1>4, <1>5, <1>6, <1>7 DEF RentExempt

\* store and fund_rent_exempt: every account that holds data holds the rent of
\* its present size, whatever instructions filled, overwrote or resumed it.
THEOREM RentExemptThm == Spec => []RentExempt
  <1>1. Init => RentExempt
    <2> SUFFICES ASSUME Init PROVE RentExempt
      OBVIOUS
    <2>1. /\ config = None /\ \A n \in Names : names[n] = None /\ listings[n] = None
          /\ \A n \in Names, k \in RecordKeys : records[n][k] = None
          /\ \A u \in Users : reverse[u] = None
      BY DEF Init
    <2> QED BY <2>1 DEF RentExempt
  <1> QED
    BY <1>1, RentStep, TypeCorrect, PTL DEF Spec

-----------------------------------------------------------------------------
(* Listings                                                                *)

\* Every instruction keeps active listings with the present owner: transfer is
\* refused while one is active and both sale instructions end it.
LEMMA ListingStep ==
    TypeOK /\ ListingBelongsToOwner /\ [Next]_vars => ListingBelongsToOwner'
  <1> SUFFICES ASSUME TypeOK, ListingBelongsToOwner, [Next]_vars, TypeOK',
                      NEW n \in Names, is_active(listings'[n])
               PROVE  /\ names'[n] # None
                      /\ listings'[n].seller = names'[n].owner
                      /\ listings'[n].price > 0
    BY TypeStep DEF ListingBelongsToOwner, is_active
  <1> DEFINE Goal == /\ names'[n] # None
                     /\ listings'[n].seller = names'[n].owner
                     /\ listings'[n].price > 0
  <1>1. ASSUME listings'[n] = listings[n], names'[n] = names[n] PROVE Goal
    BY <1>1 DEF ListingBelongsToOwner, is_active
  <1>2. ASSUME NEW s \in Users, NEW m \in Names, register(s, m) PROVE Goal
    BY <1>1, <1>2 DEF register, TypeOK, ListingBelongsToOwner, is_active
  <1>3. ASSUME NEW s \in Users, NEW m \in Names, NEW u \in Users, transfer(s, m, u)
        PROVE  Goal
    BY <1>1, <1>3 DEF transfer, TypeOK
  <1>4. ASSUME NEW s \in Users, NEW m \in Names, set_primary(s, m) PROVE Goal
    <2>1. CASE m = n
      <3>1. names[n] \in NameAccount
        BY <1>4, <2>1 DEF set_primary, signed_by_owner, TypeOK
      <3>2. names'[n] = with_primary(names[n]) /\ listings'[n] = listings[n]
        BY <1>4, <2>1 DEF set_primary, TypeOK
      <3>3. names'[n] # None /\ names'[n].owner = names[n].owner
        BY <3>1, <3>2, Counters, NameTransitions, NoneAssumption
      <3> QED BY <3>2, <3>3 DEF ListingBelongsToOwner, is_active
    <2>2. CASE m # n
      BY <1>1, <1>4, <2>2 DEF set_primary, TypeOK
    <2> QED BY <2>1, <2>2
  <1>5. ASSUME NEW s \in Users, NEW m \in Names, NEW c \in QuoteCurrency,
               NEW p \in Prices, list_name(s, m, c, p)
        PROVE  Goal
    <2>1. CASE m = n
      <3>1. /\ listings'[n] = create_listing(names[n].owner, c, p)
            /\ names' = names /\ names[n] # None /\ p > 0
        BY <1>5, <2>1 DEF list_name, signed_by_owner, TypeOK
      <3> QED BY <3>1 DEF create_listing
    <2>2. CASE m # n
      BY <1>1, <1>5, <2>2 DEF list_name, TypeOK
    <2> QED BY <2>1, <2>2
  <1>6. ASSUME NEW s \in Users, NEW m \in Names, cancel_listing(s, m) PROVE Goal
    <2>1. CASE m = n
      <3>1. listings'[n] = deactivate(listings[n]) /\ listings[n] \in ListingAccount
        BY <1>6, <2>1 DEF cancel_listing, is_active, TypeOK
      <3> QED BY <3>1 DEF deactivate, is_active, ListingAccount
    <2>2. CASE m # n
      BY <1>1, <1>6, <2>2 DEF cancel_listing, TypeOK
    <2> QED BY <2>1, <2>2
  <1>7. ASSUME NEW b \in Users, NEW m \in Names, NEW payee \in Users,
               buy_name(b, m, payee)
        PROVE  Goal
    <2>1. CASE m = n
      <3>1. listings'[n] = deactivate(listings[n]) /\ listings[n] \in ListingAccount
        BY <1>7, <2>1 DEF buy_name, is_active, TypeOK
      <3> QED BY <3>1 DEF deactivate, is_active, ListingAccount
    <2>2. CASE m # n
      BY <1>1, <1>7, <2>2 DEF buy_name, TypeOK
    <2> QED BY <2>1, <2>2
  <1>8. ASSUME NEW s \in Users, NEW b \in Users, NEW m \in Names, NEW payee \in Users,
               accept_offer(s, b, m, payee)
        PROVE  Goal
    <2>1. CASE m = n
      <3>1. CASE is_active(listings[n])
        <4>1. listings'[n] = deactivate(listings[n]) /\ listings[n] \in ListingAccount
          BY <1>8, <2>1, <3>1 DEF accept_offer, is_active, TypeOK
        <4> QED BY <4>1 DEF deactivate, is_active, ListingAccount
      <3>2. CASE ~is_active(listings[n])
        BY <1>8, <2>1, <3>2 DEF accept_offer
      <3> QED BY <3>1, <3>2
    <2>2. CASE m # n
      BY <1>1, <1>8, <2>2 DEF accept_offer, TypeOK
    <2> QED BY <2>1, <2>2
  <1>9. CASE UNCHANGED <<names, listings>>
    BY <1>1, <1>9
  <1>10. CASE RecordInstruction
    BY <1>9, <1>10 DEF RecordInstruction, set_record, delete_record
  <1>11. CASE NameInstruction
    BY <1>2, <1>3, <1>4, <1>9, <1>11
    DEF NameInstruction, initialize_registry, clear_primary
  <1>12. CASE MarketInstruction
    BY <1>5, <1>6, <1>7, <1>8, <1>9, <1>12
    DEF MarketInstruction, make_offer, cancel_offer
  <1> QED
    BY <1>9, <1>10, <1>11, <1>12 DEF Next, vars

\* An active listing always belongs to the name's present owner.
THEOREM ListingBelongsToOwnerThm == Spec => []ListingBelongsToOwner
  <1>1. Init => ListingBelongsToOwner
    BY DEF Init, ListingBelongsToOwner, is_active
  <1> QED
    BY <1>1, ListingStep, TypeCorrect, PTL DEF Spec

-----------------------------------------------------------------------------
(* Escrow                                                                  *)

\* A store paid from a wallet into an account that is not an offer PDA leaves
\* every escrow balance alone.
LEMMA StoreKeepsEscrow ==
    ASSUME NEW l \in [Accounts -> Nat], NEW payer \in Users, NEW a \in Accounts,
           NEW rent \in Nat, can_store(l, payer, a, rent),
           NEW n \in Names, NEW b \in Users, OfferPda(n, b) # a
    PROVE  stored(l, payer, a, rent)[OfferPda(n, b)] = l[OfferPda(n, b)]
  BY StoredType, OfferPdaIsDistinct, Addresses

\* The same for all offer PDAs at once, for the two accounts a sale stores.
LEMMA StoreKeepsAllEscrow ==
    ASSUME NEW l \in [Accounts -> Nat], NEW payer \in Users, NEW m \in Names,
           NEW a \in {NamePda(m), ListingPda(m)}, can_store(l, payer, a, Rent)
    PROVE  /\ stored(l, payer, a, Rent) \in [Accounts -> Nat]
           /\ \A i \in Names, j \in Users :
                stored(l, payer, a, Rent)[OfferPda(i, j)] = l[OfferPda(i, j)]
  <1>1. a \in Accounts /\ Rent \in Nat
    BY Addresses, RentAssumption
  <1>2. ASSUME NEW i \in Names, NEW j \in Users
        PROVE  stored(l, payer, a, Rent)[OfferPda(i, j)] = l[OfferPda(i, j)]
    <2>1. OfferPda(i, j) # a
      BY OfferPdaIsDistinct
    <2> QED BY <1>1, <2>1, StoreKeepsEscrow
  <1> QED BY <1>1, <1>2, StoredType

\* A store into an account that already holds the rent moves nothing at all.
LEMMA StoreIsIdle ==
    ASSUME NEW l \in [Accounts -> Nat], NEW payer \in Users, NEW a \in Accounts,
           l[a] >= Rent
    PROVE  stored(l, payer, a, Rent) = l
  BY Addresses, RentAssumption DEF stored, moved, shortfall

\* Every instruction keeps the lamports of the offer PDAs in step with the
\* offers.
LEMMA EscrowStep ==
    TypeOK /\ EscrowMatchesOffer /\ [Next]_vars => EscrowMatchesOffer'
  <1> SUFFICES ASSUME TypeOK, EscrowMatchesOffer, [Next]_vars,
                      NEW n \in Names, NEW b \in Users
               PROVE  lamports'[OfferPda(n, b)] =
                        IF offers'[n][b] = None THEN 0
                        ELSE IF offers'[n][b].active /\ offers'[n][b].currency = "ARCH"
                        THEN Rent + offers'[n][b].price ELSE Rent
    BY DEF EscrowMatchesOffer
  <1> DEFINE pda  == OfferPda(n, b)
             Held(bid) == IF bid = None THEN 0
                          ELSE IF bid.active /\ bid.currency = "ARCH"
                          THEN Rent + bid.price ELSE Rent
             Goal == lamports'[pda] = Held(offers'[n][b])
  <1>a. lamports[pda] = Held(offers[n][b]) /\ pda \in Accounts
    BY Addresses DEF EscrowMatchesOffer
  <1>b. lamports \in [Accounts -> Nat] /\ Rent \in Nat
    BY RentAssumption DEF TypeOK
  <1>1. ASSUME lamports'[pda] = lamports[pda], offers'[n][b] = offers[n][b] PROVE Goal
    BY <1>1, <1>a
  <1>2. ASSUME NEW s \in Users, NEW a \in Accounts, NEW rent \in Nat, pda # a,
               can_store(lamports, s, a, rent),
               lamports' = stored(lamports, s, a, rent), offers' = offers
        PROVE  Goal
    BY <1>1, <1>2, <1>b, StoreKeepsEscrow
  <1>3. CASE NameInstruction
    <2>1. ASSUME NEW s \in Users, initialize_registry(s) PROVE Goal
      BY <1>2, <1>b, <2>1, Addresses, OfferPdaIsDistinct DEF initialize_registry
    <2>2. ASSUME NEW s \in Users, NEW m \in Names, register(s, m) PROVE Goal
      BY <1>2, <1>b, <2>2, Addresses, OfferPdaIsDistinct DEF register
    <2>3. ASSUME NEW s \in Users, NEW m \in Names, NEW u \in Users, transfer(s, m, u)
          PROVE  Goal
      BY <1>2, <1>b, <2>3, Addresses, OfferPdaIsDistinct DEF transfer
    <2>4. ASSUME NEW s \in Users, NEW m \in Names, set_primary(s, m) PROVE Goal
      <3> DEFINE l == stored(lamports, s, NamePda(m), Rent)
      <3>1. l \in [Accounts -> Nat] /\ l[pda] = lamports[pda]
        BY <1>b, <2>4, StoredType, StoreKeepsEscrow, Addresses, OfferPdaIsDistinct
        DEF set_primary
      <3>2. lamports'[pda] = l[pda] /\ offers' = offers
        BY <1>b, <2>4, <3>1, StoreKeepsEscrow, Addresses, OfferPdaIsDistinct
        DEF set_primary
      <3> QED BY <1>1, <3>1, <3>2
    <2>5. ASSUME NEW s \in Users, NEW u \in Users, clear_primary(s, u) PROVE Goal
      BY <1>1, <2>5 DEF clear_primary
    <2> QED BY <1>3, <2>1, <2>2, <2>3, <2>4, <2>5 DEF NameInstruction
  <1>4. CASE RecordInstruction
    <2>1. ASSUME NEW s \in Users, NEW m \in Names, NEW k \in RecordKeys, NEW r \in U64,
                 NEW value \in RecordValue, set_record(s, m, k, value, r)
          PROVE  Goal
      <3>1. record_rent(value) \in Nat
        BY <1>b DEF record_rent
      <3> QED BY <1>2, <2>1, <3>1, Addresses, OfferPdaIsDistinct DEF set_record
    <2>2. ASSUME NEW s \in Users, NEW m \in Names, NEW k \in RecordKeys, NEW r \in U64,
                 delete_record(s, m, k, r)
          PROVE  Goal
      BY <1>1, <2>2 DEF delete_record
    <2> QED BY <1>4, <2>1, <2>2 DEF RecordInstruction
  <1>5. ASSUME NEW s \in Users, NEW m \in Names, NEW c \in QuoteCurrency,
               NEW p \in Prices, list_name(s, m, c, p)
        PROVE  Goal
    BY <1>2, <1>b, <1>5, Addresses, OfferPdaIsDistinct DEF list_name
  <1>6. ASSUME NEW s \in Users, NEW m \in Names, cancel_listing(s, m) PROVE Goal
    BY <1>2, <1>b, <1>6, Addresses, OfferPdaIsDistinct DEF cancel_listing
  <1>7. ASSUME NEW s \in Users, NEW m \in Names, NEW c \in QuoteCurrency,
               NEW p \in Prices, make_offer(s, m, c, p)
        PROVE  Goal
    <2> DEFINE l == stored(lamports, s, OfferPda(m, s), Rent)
    <2>1. p \in Nat
      BY PricesAssumption
    <2>2. l \in [Accounts -> Nat] /\ can_store(lamports, s, OfferPda(m, s), Rent)
      BY <1>7, <1>b, StoredType, Addresses DEF make_offer
    <2>3. CASE m = n /\ s = b
      <3>1. lamports[pda] <= Rent
        BY <1>7, <1>a, <1>b, <2>3 DEF make_offer, is_active
      <3>2. l[pda] = Rent
        BY <1>a, <1>b, <2>2, <2>3, <3>1, StoredType, OfferPdaIsDistinct
      <3>3. offers'[n][b] = create_offer(c, p)
        BY <1>7, <2>3 DEF make_offer, TypeOK
      <3>4. create_offer(c, p) # None
        BY MarketTransitions, NoneAssumption DEF create_offer, OfferAccount
      <3>5. CASE c = "ARCH"
        <4>1. lamports' = moved(l, Wallet(b), pda, p)
          BY <1>7, <2>3, <3>5 DEF make_offer
        <4>2. lamports'[pda] = Rent + p
          BY <1>a, <1>b, <2>1, <2>2, <3>2, <4>1, OfferPdaIsDistinct, Addresses DEF moved
        <4> QED BY <3>3, <3>4, <3>5, <4>2 DEF create_offer
      <3>6. CASE c # "ARCH"
        <4>1. lamports' = l
          BY <1>7, <2>3, <3>6 DEF make_offer
        <4> QED BY <3>2, <3>3, <3>4, <3>6, <4>1 DEF create_offer
      <3> QED BY <3>5, <3>6
    <2>4. CASE ~(m = n /\ s = b)
      <3>1. OfferPda(m, s) # pda
        BY <2>4, OfferPdaIsDistinct
      <3>2. l[pda] = lamports[pda]
        BY <1>b, <2>2, <3>1, StoreKeepsEscrow, Addresses
      <3>3. lamports'[pda] = l[pda]
        BY <1>7, <1>a, <2>2, <3>1, OfferPdaIsDistinct, Addresses DEF make_offer, moved
      <3>4. offers'[n][b] = offers[n][b]
        BY <1>7, <2>4 DEF make_offer, TypeOK
      <3> QED BY <1>1, <3>2, <3>3, <3>4
    <2> QED BY <2>3, <2>4
  <1>8. ASSUME NEW s \in Users, NEW m \in Names, cancel_offer(s, m) PROVE Goal
    <2> DEFINE bid == offers[m][s]
               l   == IF bid.currency = "ARCH"
                      THEN moved(lamports, OfferPda(m, s), Wallet(s), bid.price)
                      ELSE lamports
    <2>1. bid \in OfferAccount /\ bid # None /\ bid.active
      BY <1>8 DEF cancel_offer, is_active, TypeOK
    <2>2. bid.price \in Nat
      BY <2>1, PricesAssumption DEF OfferAccount
    <2>3. lamports[OfferPda(m, s)] = IF bid.currency = "ARCH" THEN Rent + bid.price ELSE Rent
      BY <2>1 DEF EscrowMatchesOffer
    <2>4. l \in [Accounts -> Nat]
      BY <1>8, <1>b, <2>2, MovedType, Addresses DEF cancel_offer
    <2>5. l[OfferPda(m, s)] = Rent
      BY <1>b, <2>2, <2>3, OfferPdaIsDistinct, Addresses DEF moved
    <2>6. lamports' = l
      BY <1>8, <1>b, <2>4, <2>5, StoreIsIdle, Addresses DEF cancel_offer
    <2>7. CASE m = n /\ s = b
      <3>1. offers'[n][b] = deactivate(bid)
        BY <1>8, <2>7 DEF cancel_offer, TypeOK
      <3>2. ~offers'[n][b].active /\ offers'[n][b] # None
        BY <2>1, <3>1, MarketTransitions, NoneAssumption DEF deactivate, OfferAccount
      <3> QED BY <2>5, <2>6, <2>7, <3>2
    <2>8. CASE ~(m = n /\ s = b)
      <3>1. l[pda] = lamports[pda]
        BY <1>a, <1>b, <2>2, <2>8, OfferPdaIsDistinct, Addresses DEF moved
      <3>2. offers'[n][b] = offers[n][b]
        BY <1>8, <2>8 DEF cancel_offer, TypeOK
      <3> QED BY <1>1, <2>6, <3>1, <3>2
    <2> QED BY <2>7, <2>8
  <1>9. ASSUME NEW s \in Users, NEW m \in Names, NEW payee \in Users,
               buy_name(s, m, payee)
        PROVE  Goal
    <2> DEFINE ask == listings[m]
               l1  == lamports_after(ask.currency, ask.price, Wallet(s), Wallet(ask.seller))
               l2  == stored(l1, s, NamePda(m), Rent)
    <2>1. ask \in ListingAccount
      BY <1>9 DEF buy_name, is_active, TypeOK
    <2>2. ask.price \in Nat /\ ask.currency \in QuoteCurrency /\ ask.seller \in Users
      BY <2>1, PricesAssumption DEF ListingAccount
    <2>3. l1 \in [Accounts -> Nat]
      BY <1>9, <2>2, PaymentType, Addresses DEF buy_name
    <2>4. l1[pda] = lamports[pda]
      BY <1>a, <1>b, <2>2, OfferPdaIsDistinct, Addresses DEF lamports_after, moved
    <2>5. l2 \in [Accounts -> Nat] /\ l2[pda] = l1[pda]
      BY <1>9, <1>b, <2>3, StoredType, StoreKeepsEscrow, Addresses, OfferPdaIsDistinct
      DEF buy_name
    <2>6. lamports'[pda] = l2[pda] /\ offers' = offers
      BY <1>9, <1>b, <2>5, StoreKeepsEscrow, Addresses, OfferPdaIsDistinct DEF buy_name
    <2> QED BY <1>1, <2>4, <2>5, <2>6
  <1>10. ASSUME NEW s \in Users, NEW u \in Users, NEW m \in Names, NEW payee \in Users,
                accept_offer(s, u, m, payee)
         PROVE  Goal
    <2> DEFINE bid == offers[m][u]
               l1  == lamports_after(bid.currency, bid.price, OfferPda(m, u), Wallet(s))
               l2  == IF is_active(listings[m])
                      THEN stored(l1, s, ListingPda(m), Rent) ELSE l1
               l3  == stored(l2, s, NamePda(m), Rent)
    <2>1. bid \in OfferAccount /\ bid # None /\ bid.active
      BY <1>10 DEF accept_offer, is_active, TypeOK
    <2>2. bid.price \in Nat /\ bid.currency \in QuoteCurrency
      BY <2>1, PricesAssumption DEF OfferAccount
    <2>3. lamports[OfferPda(m, u)] = IF bid.currency = "ARCH" THEN Rent + bid.price ELSE Rent
      BY <2>1 DEF EscrowMatchesOffer
    <2>4. l1 \in [Accounts -> Nat]
      BY <1>10, <2>2, PaymentType, Addresses DEF accept_offer
    <2>5. l1[OfferPda(m, u)] = Rent
      BY <1>b, <2>2, <2>3, OfferPdaIsDistinct, Addresses DEF lamports_after, moved
    <2>6. /\ l2 \in [Accounts -> Nat]
          /\ \A i \in Names, j \in Users : l2[OfferPda(i, j)] = l1[OfferPda(i, j)]
      <3>1. CASE is_active(listings[m])
        <4>1. l2 = stored(l1, s, ListingPda(m), Rent) /\ can_store(l1, s, ListingPda(m), Rent)
          BY <1>10, <3>1 DEF accept_offer
        <4> HIDE DEF l1, l2
        <4> QED
          BY <2>4, <4>1, StoreKeepsAllEscrow
      <3>2. CASE ~is_active(listings[m])
        BY <2>4, <3>2
      <3> QED BY <3>1, <3>2
    <2>7. /\ l3 \in [Accounts -> Nat]
          /\ \A i \in Names, j \in Users : l3[OfferPda(i, j)] = l2[OfferPda(i, j)]
      <3>1. can_store(l2, s, NamePda(m), Rent)
        BY <1>10 DEF accept_offer
      <3> HIDE DEF l2
      <3> QED
        BY <2>6, <3>1, StoreKeepsAllEscrow
    <2>8. lamports' = l3
      <3>1. l3[OfferPda(m, u)] >= Rent
        BY <1>b, <2>5, <2>6, <2>7
      <3> QED BY <1>10, <2>7, <3>1, StoreIsIdle, Addresses DEF accept_offer
    <2>9. CASE m = n /\ u = b
      <3>1. offers'[n][b] = deactivate(bid)
        BY <1>10, <2>9 DEF accept_offer, TypeOK
      <3>2. ~offers'[n][b].active /\ offers'[n][b] # None
        BY <2>1, <3>1, MarketTransitions, NoneAssumption DEF deactivate, OfferAccount
      <3> QED BY <2>5, <2>6, <2>7, <2>8, <2>9, <3>2
    <2>10. CASE ~(m = n /\ u = b)
      <3>1. l1[pda] = lamports[pda]
        BY <1>a, <1>b, <2>2, <2>10, OfferPdaIsDistinct, Addresses DEF lamports_after, moved
      <3>2. offers'[n][b] = offers[n][b]
        BY <1>10, <2>10 DEF accept_offer, TypeOK
      <3> QED BY <1>1, <2>6, <2>7, <2>8, <3>1, <3>2
    <2> QED BY <2>9, <2>10
  <1>11. CASE MarketInstruction
    BY <1>5, <1>6, <1>7, <1>8, <1>9, <1>10, <1>11 DEF MarketInstruction
  <1>12. CASE UNCHANGED vars
    BY <1>1, <1>12 DEF vars
  <1> QED
    BY <1>3, <1>4, <1>11, <1>12 DEF Next

\* An offer PDA holds its rent and exactly the price of an active ARCH offer.
THEOREM EscrowMatchesOfferThm == Spec => []EscrowMatchesOffer
  <1>1. Init => EscrowMatchesOffer
    <2> SUFFICES ASSUME Init, NEW n \in Names, NEW b \in Users
                 PROVE  lamports[OfferPda(n, b)] = 0 /\ offers[n][b] = None
      BY DEF EscrowMatchesOffer
    <2>1. PICK incomplete \in SUBSET ({ConfigPda} \cup {NamePda(m) : m \in Names}) :
            lamports = [a \in Accounts |->
                          IF a \in {Wallet(u) : u \in Users} THEN Funds
                          ELSE IF a \in incomplete THEN 1 ELSE 0]
      BY DEF Init
    <2>2. OfferPda(n, b) \notin {Wallet(u) : u \in Users} /\ OfferPda(n, b) \notin incomplete
      BY OfferPdaIsDistinct
    <2> QED BY <2>1, <2>2, Addresses DEF Init
  <1> QED
    BY <1>1, EscrowStep, TypeCorrect, PTL DEF Spec

-----------------------------------------------------------------------------
(* Sales                                                                   *)

LEMMA WalletsAreDistinct ==
    ASSUME NEW u, NEW v, Wallet(u) = Wallet(v)
    PROVE  u = v
  BY DEF Wallet

\* A store after a payment between wallets and escrows: the account had its
\* rent before, so the payer is charged nothing.
LEMMA PaidStoreIsIdle ==
    ASSUME TypeOK, NEW l \in [Accounts -> Nat], NEW payer \in Users, NEW a \in DataAccounts,
           above(l, lamports), lamports[a] >= Rent
    PROVE  stored(l, payer, a, Rent) = l
  <1>1. a \in Accounts /\ l[a] >= lamports[a]
    BY DataAccountsAreDistinct DEF above
  <1>2. lamports[a] \in Nat /\ l[a] \in Nat /\ Rent \in Nat
    BY <1>1, RentAssumption DEF TypeOK
  <1>3. l[a] >= Rent
    BY <1>1, <1>2
  <1> QED BY <1>1, <1>3, StoreIsIdle

LEMMA BuySettles ==
    ASSUME TypeOK, ListingBelongsToOwner, RentExempt,
           NEW b \in Users, NEW n \in Names, NEW payee \in Users, buy_name(b, n, payee)
    PROVE  /\ names'[n].owner = b /\ ~is_active(listings'[n]) /\ offers' = offers
           /\ listings[n].currency = "ARCH" =>
                lamports'[Wallet(names[n].owner)]
                  = lamports[Wallet(names[n].owner)] + listings[n].price
  <1> DEFINE ask == listings[n]
             l1  == lamports_after(ask.currency, ask.price, Wallet(b), Wallet(ask.seller))
             l2  == stored(l1, b, NamePda(n), Rent)
  <1>0. /\ ask \in ListingAccount /\ ask # None /\ names[n] \in NameAccount /\ names[n] # None
        /\ names[n].owner = ask.seller /\ b # ask.seller /\ offers' = offers
    BY DEF buy_name, is_active, TypeOK
  <1>1. ask.price \in Nat /\ ask.seller \in Users
    BY <1>0, PricesAssumption DEF ListingAccount
  <1>2. /\ ask.currency = "ARCH" => lamports[Wallet(b)] >= ask.price
        /\ lamports' = stored(l2, b, ListingPda(n), Rent)
    BY DEF buy_name, can_pay
  <1>3. l1 \in [Accounts -> Nat] /\ above(l1, lamports)
    <2>1. Wallet(b) \in Accounts /\ Wallet(ask.seller) \in Accounts /\ Wallet(b) \notin DataAccounts
      BY <1>1, Addresses, DataAccountsAreDistinct
    <2> QED BY <1>1, <1>2, <2>1, PaymentKeepsRent
  <1>4. /\ lamports[NamePda(n)] >= Rent /\ lamports[ListingPda(n)] >= Rent
        /\ NamePda(n) \in DataAccounts /\ ListingPda(n) \in DataAccounts
    BY <1>0 DEF RentExempt, DataAccounts
  <1>5. lamports' = l1
    <2> HIDE DEF l1
    <2>1. l2 = l1
      BY <1>3, <1>4, PaidStoreIsIdle
    <2>2. stored(l1, b, ListingPda(n), Rent) = l1
      BY <1>3, <1>4, PaidStoreIsIdle
    <2> QED BY <1>2, <2>1, <2>2
  <1>6. ask.currency = "ARCH" =>
          lamports'[Wallet(ask.seller)] = lamports[Wallet(ask.seller)] + ask.price
    <2>1. Wallet(b) # Wallet(ask.seller)
      BY <1>0, WalletsAreDistinct
    <2>2. Wallet(b) \in Accounts /\ Wallet(ask.seller) \in Accounts
          /\ lamports \in [Accounts -> Nat]
      BY <1>1, Addresses DEF TypeOK
    <2> QED BY <1>1, <1>5, <2>1, <2>2 DEF lamports_after, moved
  <1>7. names'[n].owner = b
    <2>1. names'[n] = transferred(names[n], b)
      BY DEF buy_name, TypeOK
    <2> QED BY <1>0, <2>1 DEF transferred, NameAccount
  <1>8. ~is_active(listings'[n])
    <2>1. listings'[n] = deactivate(ask)
      BY DEF buy_name, TypeOK
    <2> QED BY <1>0, <2>1 DEF deactivate, is_active, ListingAccount
  <1> QED BY <1>0, <1>6, <1>7, <1>8

LEMMA AcceptSettles ==
    ASSUME TypeOK, EscrowMatchesOffer, RentExempt, NEW s \in Users, NEW b \in Users,
           NEW n \in Names, NEW payee \in Users, accept_offer(s, b, n, payee)
    PROVE  /\ names'[n].owner = b /\ names[n].owner = s
           /\ is_active(listings[n]) => ~is_active(listings'[n])
           /\ is_active(offers[n][b]) /\ ~is_active(offers'[n][b])
           /\ offers[n][b].currency = "ARCH" =>
                lamports'[Wallet(s)] = lamports[Wallet(s)] + offers[n][b].price
  <1> DEFINE bid == offers[n][b]
             pda == OfferPda(n, b)
             l1  == lamports_after(bid.currency, bid.price, pda, Wallet(s))
             l2  == IF is_active(listings[n]) THEN stored(l1, s, ListingPda(n), Rent) ELSE l1
             l3  == stored(l2, s, NamePda(n), Rent)
  <1>0. /\ bid \in OfferAccount /\ bid # None /\ bid.active /\ is_active(bid)
        /\ names[n] \in NameAccount /\ names[n] # None /\ names[n].owner = s
    BY DEF accept_offer, is_active, TypeOK, signed_by_owner
  <1>1. bid.price \in Nat /\ Rent \in Nat /\ lamports \in [Accounts -> Nat]
    BY <1>0, PricesAssumption, RentAssumption DEF OfferAccount, TypeOK
  <1>2. /\ bid.currency = "ARCH" => lamports[pda] >= bid.price
        /\ lamports' = stored(l3, s, pda, Rent)
    BY DEF accept_offer, can_pay
  <1>3. /\ pda \in Accounts /\ pda \notin DataAccounts /\ Wallet(s) \in Accounts
        /\ pda # Wallet(s)
    BY Addresses, DataAccountsAreDistinct, OfferPdaIsDistinct
  <1>4. lamports[pda] = IF bid.currency = "ARCH" THEN Rent + bid.price ELSE Rent
    BY <1>0 DEF EscrowMatchesOffer
  <1>5. l1[pda] >= Rent
    BY <1>1, <1>3, <1>4 DEF lamports_after, moved
  <1>6. bid.currency = "ARCH" => l1[Wallet(s)] = lamports[Wallet(s)] + bid.price
    BY <1>1, <1>3 DEF lamports_after, moved
  <1>7. l1 \in [Accounts -> Nat] /\ above(l1, lamports)
    <2> HIDE DEF bid, pda
    <2> QED BY <1>1, <1>2, <1>3, PaymentKeepsRent
  <1>8. lamports' = l1
    <2> HIDE DEF l1
    <2>1. l2 = l1
      <3>1. CASE is_active(listings[n])
        <4>1. lamports[ListingPda(n)] >= Rent /\ ListingPda(n) \in DataAccounts
          BY <3>1 DEF RentExempt, DataAccounts, is_active
        <4> QED BY <1>7, <3>1, <4>1, PaidStoreIsIdle
      <3>2. CASE ~is_active(listings[n])
        BY <3>2
      <3> QED BY <3>1, <3>2
    <2>2. lamports[NamePda(n)] >= Rent /\ NamePda(n) \in DataAccounts
      BY <1>0 DEF RentExempt, DataAccounts
    <2>3. stored(l1, s, NamePda(n), Rent) = l1
      BY <1>7, <2>2, PaidStoreIsIdle
    <2>4. stored(l1, s, pda, Rent) = l1
      BY <1>3, <1>5, <1>7, StoreIsIdle
    <2> QED BY <1>2, <2>1, <2>3, <2>4
  <1>9. names'[n].owner = b
    <2>1. names'[n] = transferred(names[n], b)
      BY DEF accept_offer, TypeOK
    <2> QED BY <1>0, <2>1 DEF transferred, NameAccount
  <1>10. is_active(listings[n]) => ~is_active(listings'[n])
    <2> SUFFICES ASSUME is_active(listings[n]) PROVE ~is_active(listings'[n])
      OBVIOUS
    <2>1. listings'[n] = deactivate(listings[n]) /\ listings[n] \in ListingAccount
      BY DEF accept_offer, is_active, TypeOK
    <2> QED BY <2>1 DEF deactivate, is_active, ListingAccount
  <1>11. ~is_active(offers'[n][b])
    <2>1. offers'[n][b] = deactivate(bid)
      BY DEF accept_offer, TypeOK
    <2> QED BY <1>0, <2>1 DEF deactivate, is_active, OfferAccount
  <1> QED BY <1>0, <1>6, <1>8, <1>9, <1>10, <1>11

LEMMA SaleStep ==
    TypeOK /\ ListingBelongsToOwner /\ EscrowMatchesOffer /\ RentExempt /\ [Next]_vars
      => sale_settles
  <1> SUFFICES ASSUME TypeOK, ListingBelongsToOwner, EscrowMatchesOffer, RentExempt,
                      [Next]_vars, NEW n \in Names, is_active(listings[n]),
                      names'[n].owner # names[n].owner
               PROVE  LET seller == Wallet(names[n].owner)
                          buyer  == names'[n].owner
                          bid    == offers[n][buyer]
                          closed == is_active(bid) /\ ~is_active(offers'[n][buyer])
                          quote  == IF closed THEN bid ELSE listings[n]
                      IN  /\ ~is_active(listings'[n])
                          /\ quote.currency = "ARCH" =>
                               lamports'[seller] = lamports[seller] + quote.price
    BY DEF sale_settles
  <1>0. names[n] \in NameAccount /\ names[n] # None
    BY DEF ListingBelongsToOwner, TypeOK
  <1>1. ASSUME NEW b \in Users, NEW payee \in Users, buy_name(b, n, payee)
        PROVE  /\ ~is_active(listings'[n])
               /\ offers' = offers
               /\ listings[n].currency = "ARCH" =>
                    lamports'[Wallet(names[n].owner)]
                      = lamports[Wallet(names[n].owner)] + listings[n].price
    BY <1>1, BuySettles
  <1>2. \/ \E b, payee \in Users : buy_name(b, n, payee)
        \/ \E s, b, payee \in Users : accept_offer(s, b, n, payee)
    <2>1. names'[n] # names[n]
      OBVIOUS
    <2>2. CASE UNCHANGED names
      BY <2>1, <2>2
    <2>3. ASSUME NEW s \in Users, NEW m \in Names, register(s, m) PROVE FALSE
      BY <1>0, <2>1, <2>3 DEF register, TypeOK
    <2>4. ASSUME NEW s \in Users, NEW m \in Names, NEW u \in Users, transfer(s, m, u) PROVE FALSE
      BY <2>1, <2>4 DEF transfer, TypeOK
    <2>5. ASSUME NEW s \in Users, NEW m \in Names, set_primary(s, m) PROVE FALSE
      <3>1. CASE m = n
        <4>1. names'[n] = with_primary(names[n])
          BY <2>5, <3>1 DEF set_primary, TypeOK
        <4> QED BY <1>0, <4>1 DEF with_primary, NameAccount
      <3>2. CASE m # n
        BY <2>1, <2>5, <3>2 DEF set_primary, TypeOK
      <3> QED BY <3>1, <3>2
    <2>6. CASE NameInstruction
      BY <2>2, <2>3, <2>4, <2>5, <2>6 DEF NameInstruction, initialize_registry, clear_primary
    <2>7. CASE RecordInstruction
      BY <2>2, <2>7 DEF RecordInstruction, set_record, delete_record
    <2>8. CASE MarketInstruction
      <3>1. ASSUME NEW m \in Names, NEW b \in Users, NEW payee \in Users, buy_name(b, m, payee)
            PROVE  m = n
        BY <2>1, <3>1 DEF buy_name, TypeOK
      <3>2. ASSUME NEW m \in Names, NEW s \in Users, NEW b \in Users, NEW payee \in Users,
                   accept_offer(s, b, m, payee)
            PROVE  m = n
        BY <2>1, <3>2 DEF accept_offer, TypeOK
      <3> QED
        BY <2>2, <2>8, <3>1, <3>2
        DEF MarketInstruction, list_name, make_offer, cancel_listing, cancel_offer
    <2> QED BY <2>2, <2>6, <2>7, <2>8 DEF Next, vars
  <1>3. ASSUME NEW b \in Users, NEW payee \in Users, buy_name(b, n, payee)
        PROVE  ~(is_active(offers[n][b]) /\ ~is_active(offers'[n][b]))
    BY <1>1, <1>3
  <1>4. CASE \E b, payee \in Users : buy_name(b, n, payee)
    <2>1. PICK b \in Users, payee \in Users : buy_name(b, n, payee)
      BY <1>4
    <2>2. names'[n].owner = b
      BY <2>1, BuySettles
    <2> QED BY <1>1, <1>3, <2>1, <2>2
  <1>5. CASE \E s, b, payee \in Users : accept_offer(s, b, n, payee)
    <2>1. PICK s \in Users, b \in Users, payee \in Users : accept_offer(s, b, n, payee)
      BY <1>5
    <2>2. /\ names'[n].owner = b /\ names[n].owner = s
          /\ ~is_active(listings'[n])
          /\ is_active(offers[n][b]) /\ ~is_active(offers'[n][b])
          /\ offers[n][b].currency = "ARCH" =>
               lamports'[Wallet(s)] = lamports[Wallet(s)] + offers[n][b].price
      BY <2>1, AcceptSettles
    <2> QED BY <2>2
  <1> QED BY <1>2, <1>4, <1>5

\* buy_name and accept_offer: when a listed name changes hands the listing ends
\* with it and the seller's wallet grows by the whole ARCH price.  The rent of
\* the accounts the seller stores is already there (RentExempt) and the escrow
\* covers price and rent (EscrowMatchesOffer), so no top-up is taken from it.
THEOREM SaleSettlesThm == Spec => SaleSettles
  <1> QED
    BY SaleStep, TypeCorrect, ListingBelongsToOwnerThm, EscrowMatchesOfferThm, RentExemptThm,
       PTL DEF Spec, SaleSettles

-----------------------------------------------------------------------------
(* Sums over the accounts.  Induction over a finite set, in terms of sets: *)
(* a family of its subsets has a smallest member.                          *)

LEMMA SmallestSet ==
    ASSUME NEW S, IsFiniteSet(S), NEW F, F \subseteq SUBSET S, F # {}
    PROVE  \E X \in F : \A Y \in F : Y \subseteq X => Y = X
  <1>1. F \subseteq FiniteSubsetsOf(S)
    BY FS_FiniteSubsetsOfFinite
  <1>2. PICK X \in F : \A Y \in F : <<Y, X>> \notin StrictSubsetOrdering(S)
    BY <1>1, FS_StrictSubsetOrderingWellFounded, WFMin
  <1>3. ASSUME NEW Y \in F, Y \subseteq X, Y # X PROVE FALSE
    <2>1. <<Y, X>> \in (SUBSET S) \X (SUBSET S)
      OBVIOUS
    <2>2. <<Y, X>> \in StrictSubsetOrdering(S)
      BY <2>1, <1>3 DEF StrictSubsetOrdering
    <2> QED BY <1>2, <2>2
  <1> QED BY <1>3

\* The element a fold takes out of a set next, and the sums of a table over
\* the subsets of T that it comes to.
Taken(s) == CHOOSE x \in s : TRUE
Sums(f, t, T) ==
    /\ f \in [SUBSET T -> Int]
    /\ \A s \in SUBSET T : f[s] = IF s = {} THEN 0 ELSE t[Taken(s)] + f[s \ {Taken(s)}]

LEMMA TakenOut ==
    ASSUME NEW s, s # {}
    PROVE  Taken(s) \in s /\ s \ {Taken(s)} \subseteq s /\ s \ {Taken(s)} # s
  <1>1. Taken(s) \in s
    BY DEF Taken
  <1> QED BY <1>1

\* Changing one entry by d changes the sums that include it by d.
Differs(u, t, S, x, d) == \A y \in S : u[y] = IF y = x THEN t[y] + d ELSE t[y]
Shifts(g, f, s, x, d) == g[s] = f[s] + (IF x \in s THEN d ELSE 0)

LEMMA SumsChange ==
    ASSUME NEW S, IsFiniteSet(S), NEW T \in SUBSET S, NEW U \in SUBSET S,
           NEW t \in [S -> Int], NEW u \in [S -> Int], NEW x, NEW d \in Int,
           Differs(u, t, S, x, d),
           NEW f, NEW g, Sums(f, t, T), Sums(g, u, U),
           NEW s, s \subseteq T, s \subseteq U
    PROVE  Shifts(g, f, s, x, d)
  <1> DEFINE good(r) == g[r] = f[r] + (IF x \in r THEN d ELSE 0)
             F == {r \in SUBSET S : r \subseteq T /\ r \subseteq U /\ ~good(r)}
  <1>1. ASSUME F # {} PROVE FALSE
    <2>1. F \subseteq SUBSET S
      OBVIOUS
    <2>2. PICK r \in F : \A q \in F : q \subseteq r => q = r
      <3> HIDE DEF F
      <3> QED BY <1>1, <2>1, SmallestSet
    <2>3. r \in SUBSET T /\ r \in SUBSET U /\ r \in SUBSET S /\ ~good(r)
      BY <2>2
    <2>4. CASE r = {}
      <3>1. f[r] = 0 /\ g[r] = 0
        BY <2>3, <2>4 DEF Sums
      <3> QED BY <2>3, <2>4, <3>1
    <2>5. CASE r # {}
      <3> DEFINE y == Taken(r)
                 q == r \ {y}
      <3>1. y \in r /\ q \subseteq r /\ q # r
        BY <2>5, TakenOut
      <3>2. q \in SUBSET T /\ q \in SUBSET U /\ q \in SUBSET S /\ y \in S
        BY <2>3, <3>1
      <3>3. good(q)
        BY <2>2, <3>1, <3>2
      <3>4. f[r] = t[y] + f[q] /\ g[r] = u[y] + g[q]
        BY <2>3, <2>5 DEF Sums
      <3>5. x \in r <=> x \in q \/ x = y
        BY <3>1
      <3>6. ~(x \in q /\ x = y)
        OBVIOUS
      <3>7. t[y] \in Int /\ f[q] \in Int /\ u[y] = IF y = x THEN t[y] + d ELSE t[y]
        BY <3>2 DEF Sums, Differs
      <3> HIDE DEF y, q
      <3> QED BY <2>3, <3>3, <3>4, <3>5, <3>6, <3>7
    <2> QED BY <2>4, <2>5
  <1>2. s \in SUBSET S
    OBVIOUS
  <1> QED BY <1>1, <1>2 DEF Shifts

LEMMA SumsSame ==
    ASSUME NEW S, IsFiniteSet(S), NEW T \in SUBSET S, NEW U \in SUBSET S,
           NEW t \in [S -> Int], NEW f, NEW g, Sums(f, t, T), Sums(g, t, U),
           NEW s, s \subseteq T, s \subseteq U
    PROVE  g[s] = f[s]
  <1> DEFINE d == 0
  <1>1. Differs(t, t, S, s, d)
    BY DEF Differs
  <1>2. d \in Int /\ f[s] \in Int
    BY DEF Sums
  <1> HIDE DEF d
  <1>3. Shifts(g, f, s, s, d)
    BY <1>1, <1>2, SumsChange
  <1> QED BY <1>2, <1>3 DEF d, Shifts

\* The sums exist.
LEMMA SumsExist ==
    ASSUME NEW S, IsFiniteSet(S), NEW t \in [S -> Int]
    PROVE  \E f : Sums(f, t, S)
  <1> DEFINE F == {T \in SUBSET S : \A f : ~Sums(f, t, T)}
  <1>1. ASSUME F # {} PROVE FALSE
    <2>1. F \subseteq SUBSET S
      OBVIOUS
    <2>2. PICK T \in F : \A Q \in F : Q \subseteq T => Q = T
      <3> HIDE DEF F
      <3> QED BY <1>1, <2>1, SmallestSet
    <2> DEFINE pick(s) == CHOOSE f : Sums(f, t, s)
               rest(s) == s \ {Taken(s)}
               value(s) == IF s = {} THEN 0 ELSE t[Taken(s)] + pick(rest(s))[rest(s)]
               g == [s \in SUBSET T |-> value(s)]
    <2>3. \A s \in SUBSET T : s # T => Sums(pick(s), t, s)
      <3> TAKE s \in SUBSET T
      <3> HAVE s # T
      <3>1. s \in SUBSET S /\ s \notin F
        BY <2>2
      <3>2. \E f : Sums(f, t, s)
        BY <3>1
      <3> QED BY <3>2
    <2> HIDE DEF pick
    <2>4. \A s \in SUBSET T : s # {} =>
            /\ rest(s) \in SUBSET T /\ rest(s) # T /\ Taken(s) \in S
            /\ pick(rest(s))[rest(s)] \in Int
      <3> TAKE s \in SUBSET T
      <3> HAVE s # {}
      <3>1. Taken(s) \in s /\ rest(s) \subseteq s /\ rest(s) # s
        BY TakenOut
      <3>2. rest(s) \in SUBSET T /\ rest(s) # T /\ Taken(s) \in S
        BY <3>1, <2>2
      <3> HIDE DEF rest
      <3>3. Sums(pick(rest(s)), t, rest(s))
        BY <3>2, <2>3
      <3> QED BY <3>2, <3>3 DEF Sums
    <2>5. g \in [SUBSET T -> Int]
      <3> HIDE DEF rest
      <3> QED BY <2>4
    \* A smaller set has the same sum whichever function gave it.
    <2>6. \A s \in SUBSET T : s # T => pick(s)[s] = value(s)
      <3> TAKE s \in SUBSET T
      <3> HAVE s # T
      <3>1. Sums(pick(s), t, s)
        BY <2>3
      <3>2. CASE s = {}
        BY <3>1, <3>2 DEF Sums
      <3>3. CASE s # {}
        <4>1. rest(s) \subseteq s /\ rest(s) \in SUBSET T /\ rest(s) # T
          BY <3>3, <2>4
        <4>2. pick(s)[s] = t[Taken(s)] + pick(s)[rest(s)]
          BY <3>1, <3>3 DEF Sums
        <4>3. Sums(pick(rest(s)), t, rest(s))
          <5> HIDE DEF rest
          <5> QED BY <4>1, <2>3
        <4>4. pick(rest(s))[rest(s)] = pick(s)[rest(s)]
          <5>1. rest(s) \in SUBSET S /\ s \in SUBSET S
            BY <4>1, <2>2
          <5> DEFINE q == rest(s)
          <5>2. Sums(pick(q), t, q) /\ q \subseteq s /\ q \subseteq q /\ q \in SUBSET S
            BY <4>1, <4>3, <5>1
          <5> HIDE DEF q
          <5>3. pick(q)[q] = pick(s)[q]
            <6>1. PICK f, h : f = pick(s) /\ h = pick(q)
              OBVIOUS
            <6>2. Sums(f, t, s) /\ Sums(h, t, q) /\ s \in SUBSET S /\ q \in SUBSET S
              BY <3>1, <5>1, <5>2, <6>1
            <6>3. h[q] = f[q]
              BY <5>2, <6>2, SumsSame
            <6> QED BY <6>1, <6>3
          <5> QED BY <5>3 DEF q
        <4> HIDE DEF rest
        <4> QED BY <3>3, <4>2, <4>4
      <3> QED BY <3>2, <3>3
    <2>7. \A s \in SUBSET T : g[s] = IF s = {} THEN 0 ELSE t[Taken(s)] + g[s \ {Taken(s)}]
      <3> TAKE s \in SUBSET T
      <3>1. CASE s = {}
        BY <3>1
      <3>2. CASE s # {}
        <4>1. rest(s) \in SUBSET T /\ rest(s) # T
          BY <3>2, <2>4
        <4>2. g[rest(s)] = pick(rest(s))[rest(s)]
          <5> HIDE DEF rest
          <5> QED BY <4>1, <2>6
        <4> QED BY <3>2, <4>2
      <3> QED BY <3>1, <3>2
    <2>8. Sums(g, t, T)
      <3> HIDE DEF g
      <3> QED BY <2>5, <2>7 DEF Sums
    <2> HIDE DEF g
    <2> QED BY <2>2, <2>8
  <1>2. S \in SUBSET S
    OBVIOUS
  <1> QED BY <1>1, <1>2

\* What the library's sum of a table is.
LEMMA SumFound ==
    ASSUME NEW S, IsFiniteSet(S), NEW t \in [S -> Int]
    PROVE  \E f : Sums(f, t, S) /\ SumFunction(t) = f[S]
  <1> DEFINE it(g) == g = [s \in SUBSET S |->
                             IF s = {} THEN 0 ELSE t[Taken(s)] + g[s \ {Taken(s)}]]
             sum == CHOOSE g : it(g)
  <1>1. PICK f : Sums(f, t, S)
    BY SumsExist
  <1>2. it(f)
    BY <1>1 DEF Sums
  <1>3. it(sum)
    BY <1>2
  <1> HIDE DEF sum
  <1> DEFINE F == {s \in SUBSET S : sum[s] \notin Int}
  <1>5. ASSUME F # {} PROVE FALSE
    <2>1. F \subseteq SUBSET S
      OBVIOUS
    <2>2. PICK r \in F : \A q \in F : q \subseteq r => q = r
      <3> HIDE DEF F
      <3> QED BY <1>5, <2>1, SmallestSet
    <2>3. r \in SUBSET S /\ sum[r] = IF r = {} THEN 0 ELSE t[Taken(r)] + sum[r \ {Taken(r)}]
      BY <1>3, <2>2
    <2>4. r # {}
      BY <2>2, <2>3
    <2>5. Taken(r) \in r /\ r \ {Taken(r)} \subseteq r /\ r \ {Taken(r)} # r
      BY <2>4, TakenOut
    <2>6. sum[r \ {Taken(r)}] \in Int /\ t[Taken(r)] \in Int
      BY <2>2, <2>3, <2>5
    <2> QED BY <2>2, <2>3, <2>4, <2>6
  <1>6. Sums(sum, t, S)
    <2>1. sum = [s \in SUBSET S |-> sum[s]] /\ \A s \in SUBSET S : sum[s] \in Int
      BY <1>3, <1>5
    <2> QED BY <1>3, <2>1 DEF Sums
  <1>4. SumFunction(t) = sum[S]
    <2>1. DOMAIN t = S
      OBVIOUS
    <2> QED BY <2>1 DEF SumFunction, SumFunctionOnSet, FoldFunctionOnSet, MapThenFoldSet, Taken, sum
  <1> QED BY <1>4, <1>6

\* A transfer between two entries of a table keeps its sum.
LEMMA SumKept ==
    ASSUME NEW S, IsFiniteSet(S), NEW t \in [S -> Int], NEW from \in S, NEW to \in S,
           NEW d \in Int
    PROVE  SumFunction(moved(t, from, to, d)) = SumFunction(t)
  <1> DEFINE less == 0 - d
             u == [t EXCEPT ![from] = @ + less]
             v == [u EXCEPT ![to] = @ + d]
  <1>1. u \in [S -> Int] /\ v \in [S -> Int] /\ less \in Int
    OBVIOUS
  <1>2. moved(t, from, to, d) = v
    <2> DEFINE w == [t EXCEPT ![from] = @ - d]
    <2>1. t[from] \in Int /\ t[from] - d = t[from] + less
      OBVIOUS
    <2>2. w = u
      BY <2>1
    <2>3. moved(t, from, to, d) = [w EXCEPT ![to] = @ + d]
      BY DEF moved
    <2> HIDE DEF w, u
    <2> QED BY <2>2, <2>3
  <1>3. Differs(u, t, S, from, less)
    BY DEF Differs
  <1>4. Differs(v, u, S, to, d)
    <2> HIDE DEF u
    <2> QED BY <1>1 DEF Differs
  <1> HIDE DEF u, v, less
  <1>5. PICK f : Sums(f, t, S) /\ SumFunction(t) = f[S]
    BY SumFound
  <1>6. PICK g : Sums(g, u, S) /\ SumFunction(u) = g[S]
    BY <1>1, SumFound
  <1>7. PICK h : Sums(h, v, S) /\ SumFunction(v) = h[S]
    BY <1>1, SumFound
  <1>8. S \in SUBSET S /\ S \subseteq S
    OBVIOUS
  <1>9. Shifts(g, f, S, from, less)
    BY <1>1, <1>3, <1>5, <1>6, <1>8, SumsChange
  <1>10. Shifts(h, g, S, to, d)
    BY <1>1, <1>4, <1>6, <1>7, <1>8, SumsChange
  <1>11. f[S] \in Int
    BY <1>5, <1>8 DEF Sums
  <1>12. g[S] = f[S] + less /\ h[S] = g[S] + d
    BY <1>9, <1>10 DEF Shifts
  <1>13. h[S] = f[S]
    BY <1>11, <1>12 DEF less
  <1> QED BY <1>2, <1>5, <1>7, <1>13

\* A table of balances that adds up to what table l does.
Rebalanced(m, l) == m \in [Accounts -> Nat] /\ SumFunction(m) = SumFunction(l)

LEMMA MovedKeepsTotal ==
    ASSUME NEW S, IsFiniteSet(S), NEW l \in [S -> Nat], NEW from \in S, NEW to \in S,
           NEW amount \in Nat
    PROVE  SumFunction(moved(l, from, to, amount)) = SumFunction(l)
  <1>1. l \in [S -> Int] /\ amount \in Int
    OBVIOUS
  <1> QED BY <1>1, SumKept

LEMMA StoreRebalances ==
    ASSUME NEW l \in [Accounts -> Nat], NEW payer \in Users, NEW a \in Accounts,
           NEW rent \in Nat, can_store(l, payer, a, rent)
    PROVE  Rebalanced(stored(l, payer, a, rent), l)
  <1>1. Wallet(payer) \in Accounts /\ shortfall(l, a, rent) \in Nat
    BY Addresses DEF shortfall
  <1>2. SumFunction(stored(l, payer, a, rent)) = SumFunction(l)
    BY <1>1, MovedKeepsTotal, AccountsAssumption DEF stored
  <1> QED BY <1>2, StoredType DEF Rebalanced

LEMMA PaymentRebalances ==
    ASSUME TypeOK, NEW c \in QuoteCurrency, NEW p \in Nat, NEW from \in Accounts,
           NEW to \in Accounts, NEW payer \in Users, NEW payee \in Users,
           can_pay(c, p, from, payer)
    PROVE  /\ Rebalanced(lamports_after(c, p, from, to), lamports)
           /\ SumFunction(tokens_after(c, p, payer, payee)) = SumFunction(tokens)
  <1>1. SumFunction(lamports_after(c, p, from, to)) = SumFunction(lamports)
    BY MovedKeepsTotal, AccountsAssumption DEF lamports_after, TypeOK
  <1>2. SumFunction(tokens_after(c, p, payer, payee)) = SumFunction(tokens)
    BY MovedKeepsTotal, AccountsAssumption DEF tokens_after, TypeOK
  <1> QED BY <1>1, <1>2, PaymentType DEF Rebalanced

LEMMA TotalsStep == TypeOK /\ [Next]_vars => totals_kept
  <1> SUFFICES ASSUME TypeOK, [Next]_vars PROVE totals_kept
    OBVIOUS
  <1> USE Addresses, RentAssumption
  <1>0. lamports \in [Accounts -> Nat]
    BY DEF TypeOK
  \* One store of one account.
  <1>1. ASSUME NEW s \in Users, NEW a \in Accounts, NEW rent \in Nat,
               can_store(lamports, s, a, rent), lamports' = stored(lamports, s, a, rent),
               tokens' = tokens
        PROVE  totals_kept
    BY <1>0, <1>1, StoreRebalances DEF Rebalanced, totals_kept
  <1>2. CASE NameInstruction
    <2>1. ASSUME NEW s \in Users, NEW n \in Names, set_primary(s, n) PROVE totals_kept
      <3> DEFINE l == stored(lamports, s, NamePda(n), Rent)
      <3>1. Rebalanced(l, lamports)
        BY <1>0, <2>1, StoreRebalances DEF set_primary
      <3>2. Rebalanced(lamports', l)
        BY <2>1, <3>1, StoreRebalances DEF set_primary, Rebalanced
      <3> QED BY <2>1, <3>1, <3>2 DEF set_primary, Rebalanced, totals_kept
    <2>2. ASSUME NEW s \in Users, NEW u \in Users, clear_primary(s, u) PROVE totals_kept
      BY <2>2 DEF clear_primary, totals_kept
    <2>3. ASSUME NEW s \in Users, initialize_registry(s) PROVE totals_kept
      BY <1>1, <2>3 DEF initialize_registry
    <2>4. ASSUME NEW s \in Users, NEW n \in Names, register(s, n) PROVE totals_kept
      BY <1>1, <2>4 DEF register
    <2>5. ASSUME NEW s \in Users, NEW n \in Names, NEW u \in Users, transfer(s, n, u)
          PROVE  totals_kept
      BY <1>1, <2>5 DEF transfer
    <2> QED BY <1>2, <2>1, <2>2, <2>3, <2>4, <2>5 DEF NameInstruction
  <1>3. CASE RecordInstruction
    <2>1. ASSUME NEW s \in Users, NEW n \in Names, NEW k \in RecordKeys, NEW r \in U64,
                 NEW value \in RecordValue, set_record(s, n, k, value, r)
          PROVE  totals_kept
      <3>1. record_rent(value) \in Nat
        BY DEF record_rent
      <3> QED BY <1>1, <2>1, <3>1 DEF set_record
    <2>2. ASSUME NEW s \in Users, NEW n \in Names, NEW k \in RecordKeys, NEW r \in U64,
                 delete_record(s, n, k, r)
          PROVE  totals_kept
      BY <2>2 DEF delete_record, totals_kept
    <2> QED BY <1>3, <2>1, <2>2 DEF RecordInstruction
  <1>4. ASSUME NEW s \in Users, NEW n \in Names, NEW c \in QuoteCurrency, NEW p \in Prices,
               list_name(s, n, c, p)
        PROVE  totals_kept
    BY <1>1, <1>4 DEF list_name
  <1>5. ASSUME NEW s \in Users, NEW n \in Names, cancel_listing(s, n) PROVE totals_kept
    BY <1>1, <1>5 DEF cancel_listing
  <1>6. ASSUME NEW b \in Users, NEW n \in Names, NEW c \in QuoteCurrency, NEW p \in Prices,
               make_offer(b, n, c, p)
        PROVE  totals_kept
    <2> DEFINE l == stored(lamports, b, OfferPda(n, b), Rent)
    <2>1. Rebalanced(l, lamports)
      BY <1>0, <1>6, StoreRebalances DEF make_offer
    <2> HIDE DEF l
    <2>2. p \in Nat /\ l \in [Accounts -> Nat]
      BY <2>1, PricesAssumption DEF Rebalanced
    <2>3. SumFunction(moved(l, Wallet(b), OfferPda(n, b), p)) = SumFunction(l)
      BY <2>2, MovedKeepsTotal, AccountsAssumption
    <2>4. tokens' = tokens /\ lamports' \in {l, moved(l, Wallet(b), OfferPda(n, b), p)}
      BY <1>6 DEF make_offer, l
    <2> QED BY <2>1, <2>3, <2>4 DEF Rebalanced, totals_kept
  <1>7. ASSUME NEW b \in Users, NEW n \in Names, cancel_offer(b, n) PROVE totals_kept
    <2> DEFINE bid == offers[n][b]
               l   == IF bid.currency = "ARCH"
                      THEN moved(lamports, OfferPda(n, b), Wallet(b), bid.price)
                      ELSE lamports
    <2>1. bid.price \in Nat
      BY <1>7, PricesAssumption DEF cancel_offer, is_active, TypeOK, OfferAccount
    <2>2. l \in [Accounts -> Nat]
      BY <1>0, <1>7, <2>1, MovedType DEF cancel_offer
    <2>3. SumFunction(l) = SumFunction(lamports)
      BY <1>0, <2>1, MovedKeepsTotal, AccountsAssumption
    <2>4. Rebalanced(lamports', l)
      BY <1>7, <2>2, StoreRebalances DEF cancel_offer
    <2> QED BY <1>7, <2>3, <2>4 DEF cancel_offer, Rebalanced, totals_kept
  <1>8. ASSUME NEW b \in Users, NEW n \in Names, NEW payee \in Users, buy_name(b, n, payee)
        PROVE  totals_kept
    <2> DEFINE ask == listings[n]
               l1  == lamports_after(ask.currency, ask.price, Wallet(b), Wallet(ask.seller))
               l2  == stored(l1, b, NamePda(n), Rent)
    <2>1. ask.price \in Nat /\ ask.currency \in QuoteCurrency /\ ask.seller \in Users
      BY <1>8, PricesAssumption DEF buy_name, is_active, TypeOK, ListingAccount
    <2>2. Rebalanced(l1, lamports) /\ SumFunction(tokens') = SumFunction(tokens)
      BY <1>8, <2>1, PaymentRebalances DEF buy_name
    <2>3. Rebalanced(l2, l1)
      BY <1>8, <2>2, StoreRebalances DEF buy_name, Rebalanced
    <2>4. Rebalanced(lamports', l2)
      BY <1>8, <2>3, StoreRebalances DEF buy_name, Rebalanced
    <2> HIDE DEF l1, l2
    <2> QED BY <2>2, <2>3, <2>4 DEF Rebalanced, totals_kept
  <1>9. ASSUME NEW s \in Users, NEW b \in Users, NEW n \in Names, NEW payee \in Users,
               accept_offer(s, b, n, payee)
        PROVE  totals_kept
    <2> DEFINE bid == offers[n][b]
               l1  == lamports_after(bid.currency, bid.price, OfferPda(n, b), Wallet(s))
               l2  == IF is_active(listings[n])
                      THEN stored(l1, s, ListingPda(n), Rent) ELSE l1
               l3  == stored(l2, s, NamePda(n), Rent)
    <2>1. bid.price \in Nat /\ bid.currency \in QuoteCurrency
      BY <1>9, PricesAssumption DEF accept_offer, is_active, TypeOK, OfferAccount
    <2>2. Rebalanced(l1, lamports) /\ SumFunction(tokens') = SumFunction(tokens)
      BY <1>9, <2>1, PaymentRebalances DEF accept_offer
    <2>3. Rebalanced(l2, l1)
      BY <1>9, <2>2, StoreRebalances DEF accept_offer, Rebalanced
    <2>4. Rebalanced(l3, l2)
      BY <1>9, <2>3, StoreRebalances DEF accept_offer, Rebalanced
    <2>5. Rebalanced(lamports', l3)
      BY <1>9, <2>4, StoreRebalances DEF accept_offer, Rebalanced
    <2> HIDE DEF l1, l2, l3
    <2> QED BY <2>2, <2>3, <2>4, <2>5 DEF Rebalanced, totals_kept
  <1>10. CASE UNCHANGED vars
    BY <1>10 DEF vars, totals_kept
  <1> QED BY <1>2, <1>3, <1>4, <1>5, <1>6, <1>7, <1>8, <1>9, <1>10 DEF Next, MarketInstruction

\* No instruction creates or destroys lamports or aBTC units, for any number
\* of accounts; a buyer who names their own token account as the payee's gains
\* nothing by it.
THEOREM ConservationThm == Spec => Conservation
  <1> QED BY TotalsStep, TypeCorrect, PTL DEF Spec, Conservation

-----------------------------------------------------------------------------
(* The registry implements NameMarket                                      *)

\* What the refinement mapping makes of the account transitions.
LEMMA MappedNames ==
    /\ owner_of(None) = None
    /\ \A name \in NameAccount : owner_of(name) = name.owner /\ owner_of(name) # None
    /\ \A u \in Users : owner_of(new_name(u)) = u
    /\ \A name \in NameAccount, u \in Users : owner_of(transferred(name, u)) = u
    /\ \A name \in NameAccount : owner_of(with_primary(name)) = owner_of(name)
  <1>1. \A name \in NameAccount : owner_of(name) = name.owner /\ owner_of(name) # None
    BY NoneAssumption DEF owner_of, NameAccount
  <1>2. \A u \in Users : owner_of(new_name(u)) = u
    BY <1>1, NameTransitions DEF new_name
  <1> QED
    BY <1>1, <1>2, NameTransitions, Counters DEF owner_of

LEMMA MappedQuotes ==
    /\ \A a \in ListingAccount \cup OfferAccount :
         /\ is_active(a) => quote_of(a) # None
         /\ quote_of(deactivate(a)) = None
    /\ \A a : ~is_active(a) => quote_of(a) = None
    /\ \A u \in Users, c \in QuoteCurrency, p \in Prices :
         /\ quote_of(create_listing(u, c, p)) = [currency |-> c, price |-> p]
         /\ quote_of(create_offer(c, p)) = [currency |-> c, price |-> p]
  <1>1. ASSUME NEW a \in ListingAccount, is_active(a) PROVE quote_of(a) # None
    <2>1. [currency |-> a.currency, price |-> a.price] \in [currency : QuoteCurrency, price : Prices]
      BY DEF ListingAccount
    <2> QED BY <1>1, <2>1, NoneAssumption DEF quote_of
  <1>2. ASSUME NEW a \in OfferAccount, is_active(a) PROVE quote_of(a) # None
    <2>1. [currency |-> a.currency, price |-> a.price] \in [currency : QuoteCurrency, price : Prices]
      BY DEF OfferAccount
    <2> QED BY <1>2, <2>1, NoneAssumption DEF quote_of
  <1>3. \A a \in ListingAccount \cup OfferAccount : quote_of(deactivate(a)) = None
    BY DEF deactivate, quote_of, is_active, ListingAccount, OfferAccount
  <1>4. \A a : ~is_active(a) => quote_of(a) = None
    BY DEF quote_of
  <1>5. ASSUME NEW u \in Users, NEW c \in QuoteCurrency, NEW p \in Prices
        PROVE  /\ quote_of(create_listing(u, c, p)) = [currency |-> c, price |-> p]
               /\ quote_of(create_offer(c, p)) = [currency |-> c, price |-> p]
    <2>1. create_listing(u, c, p) # None /\ create_offer(c, p) # None
      <3>1. create_listing(u, c, p) \in ListingAccount
        BY MarketTransitions
      <3>2. create_offer(c, p) \in OfferAccount
        BY DEF create_offer, OfferAccount
      <3> QED BY <3>1, <3>2, NoneAssumption
    <2> QED BY <2>1 DEF quote_of, is_active, create_listing, create_offer
  <1> QED BY <1>1, <1>2, <1>3, <1>4, <1>5

\* The offers read alike after a step except for bidder b's on name n, which reads q.
BidsDiffer(n, b, q) ==
    \A m \in Names, u \in Users : quote_of(offers'[m][u]) =
        IF m = n /\ u = b THEN q ELSE quote_of(offers[m][u])

\* The market's table of bids is updated at that one place.
BidsUpdated(n, b, q) ==
    [m \in Names |-> [u \in Users |-> quote_of(offers'[m][u])]]
      = [[m \in Names |-> [u \in Users |-> quote_of(offers[m][u])]] EXCEPT ![n][b] = q]

\* A write to one offer account is the update of one bid of the market.
LEMMA MappedBids ==
    \A n \in Names, b \in Users : \A q : BidsDiffer(n, b, q) => BidsUpdated(n, b, q)
  <1> TAKE n \in Names, b \in Users
  <1> TAKE q
  <1> HAVE BidsDiffer(n, b, q)
  <1> DEFINE old == [m \in Names |-> [u \in Users |-> quote_of(offers[m][u])]]
             new == [m \in Names |-> [u \in Users |-> quote_of(offers'[m][u])]]
  <1>1. \A m \in Names : new[m] = [old EXCEPT ![n][b] = q][m]
    <2> TAKE m \in Names
    <2>1. CASE m = n
      <3>1. [old EXCEPT ![n][b] = q][m] = [old[n] EXCEPT ![b] = q]
        BY <2>1
      <3>2. new[m] = [u \in Users |-> quote_of(offers'[n][u])]
        BY <2>1
      <3>3. old[n] = [u \in Users |-> quote_of(offers[n][u])]
        OBVIOUS
      <3> HIDE DEF old, new
      <3> QED BY <2>1, <3>1, <3>2, <3>3 DEF BidsDiffer
    <2>2. CASE m # n
      BY <2>2 DEF BidsDiffer
    <2> QED BY <2>1, <2>2
  <1>2. new = [old EXCEPT ![n][b] = q]
    BY <1>1
  <1> QED BY <1>2 DEF BidsUpdated

\* Every instruction is a step of the market or leaves it unchanged.
LEMMA MarketStep == TypeOK /\ [Next]_vars => [Market!Next]_(Market!vars)
  <1> SUFFICES ASSUME TypeOK, [Next]_vars PROVE [Market!Next]_(Market!vars)
    OBVIOUS
  <1> USE DEF Market!vars
  <1>1. ASSUME \A m \in Names : owner_of(names'[m]) = owner_of(names[m]),
               UNCHANGED <<listings, offers>>
        PROVE  UNCHANGED Market!vars
    BY <1>1
  <1>2. ASSUME NEW s \in Users, NEW n \in Names, register(s, n)
        PROVE  Market!Register(n, s)
    <2>1. names[n] = None /\ UNCHANGED <<listings, offers>>
      BY <1>2 DEF register
    <2>2. \A m \in Names : owner_of(names'[m]) = IF m = n THEN s ELSE owner_of(names[m])
      BY <1>2, MappedNames DEF register, TypeOK
    <2> QED BY <2>1, <2>2, MappedNames DEF Market!Register
  <1>3. ASSUME NEW s \in Users, NEW n \in Names, NEW u \in Users, transfer(s, n, u)
        PROVE  Market!Give(n, u)
    <2>1. /\ names[n] \in NameAccount /\ ~is_active(listings[n])
          /\ UNCHANGED <<listings, offers>>
      BY <1>3 DEF transfer, signed_by_owner, TypeOK
    <2>2. \A m \in Names : owner_of(names'[m]) = IF m = n THEN u ELSE owner_of(names[m])
      BY <1>3, <2>1, MappedNames DEF transfer, TypeOK
    <2> QED BY <2>1, <2>2, MappedNames, MappedQuotes DEF Market!Give
  <1>4. ASSUME NEW s \in Users, NEW n \in Names, set_primary(s, n)
        PROVE  UNCHANGED Market!vars
    <2>1. names[n] \in NameAccount /\ UNCHANGED <<listings, offers>>
      BY <1>4 DEF set_primary, signed_by_owner, TypeOK
    <2>2. \A m \in Names : owner_of(names'[m]) = owner_of(names[m])
      BY <1>4, <2>1, MappedNames DEF set_primary, TypeOK
    <2> QED BY <1>1, <2>1, <2>2
  <1>5. ASSUME NEW s \in Users, NEW n \in Names, NEW c \in QuoteCurrency,
               NEW p \in Prices, list_name(s, n, c, p)
        PROVE  Market!Ask(n, [currency |-> c, price |-> p])
    <2>1. /\ names[n] \in NameAccount /\ ~is_active(listings[n])
          /\ names[n].owner \in Users /\ UNCHANGED <<names, offers>>
      BY <1>5 DEF list_name, signed_by_owner, TypeOK
    <2>2. \A m \in Names : quote_of(listings'[m]) =
            IF m = n THEN [currency |-> c, price |-> p] ELSE quote_of(listings[m])
      BY <1>5, <2>1, MappedQuotes DEF list_name, TypeOK
    <2> QED BY <2>1, <2>2, MappedNames, MappedQuotes DEF Market!Ask
  <1>6. ASSUME NEW s \in Users, NEW n \in Names, cancel_listing(s, n)
        PROVE  Market!Withdraw(n)
    <2>1. /\ listings[n] \in ListingAccount /\ is_active(listings[n])
          /\ UNCHANGED <<names, offers>>
      BY <1>6 DEF cancel_listing, is_active, TypeOK
    <2>2. \A m \in Names : quote_of(listings'[m]) = IF m = n THEN None ELSE quote_of(listings[m])
      BY <1>6, <2>1, MappedQuotes DEF cancel_listing, TypeOK
    <2> QED BY <2>1, <2>2, MappedQuotes DEF Market!Withdraw
  <1>7. ASSUME NEW b \in Users, NEW n \in Names, NEW payee \in Users, buy_name(b, n, payee)
        PROVE  Market!Sell(n, b)
    <2>1. /\ listings[n] \in ListingAccount /\ is_active(listings[n])
          /\ names[n] \in NameAccount /\ names[n].owner # b
          /\ UNCHANGED offers
      BY <1>7 DEF buy_name, is_active, TypeOK
    <2>2. \A m \in Names : quote_of(listings'[m]) = IF m = n THEN None ELSE quote_of(listings[m])
      BY <1>7, <2>1, MappedQuotes DEF buy_name, TypeOK
    <2>3. \A m \in Names : owner_of(names'[m]) = IF m = n THEN b ELSE owner_of(names[m])
      BY <1>7, <2>1, MappedNames DEF buy_name, TypeOK
    <2> QED BY <2>1, <2>2, <2>3, MappedNames, MappedQuotes DEF Market!Sell
  <1>8. ASSUME NEW b \in Users, NEW n \in Names, NEW c \in QuoteCurrency,
               NEW p \in Prices, make_offer(b, n, c, p)
        PROVE  Market!Bid(n, b, [currency |-> c, price |-> p])
    <2>1. /\ names[n] \in NameAccount /\ names[n].owner # b
          /\ ~is_active(offers[n][b]) /\ UNCHANGED <<names, listings>>
      BY <1>8 DEF make_offer, TypeOK
    <2>2. \A m \in Names, u \in Users : quote_of(offers'[m][u]) =
            IF m = n /\ u = b THEN [currency |-> c, price |-> p] ELSE quote_of(offers[m][u])
      BY <1>8, MappedQuotes DEF make_offer, TypeOK
    <2>3. owner_of(names[n]) \notin {None, b} /\ quote_of(offers[n][b]) = None
      BY <2>1, MappedNames, MappedQuotes
    <2>4. BidsUpdated(n, b, [currency |-> c, price |-> p])
      <3>1. BidsDiffer(n, b, [currency |-> c, price |-> p])
        BY <2>2 DEF BidsDiffer
      <3> QED BY <3>1, MappedBids, Zenon
    <2> QED BY <2>1, <2>3, <2>4 DEF BidsUpdated, Market!Bid
  <1>9. ASSUME NEW b \in Users, NEW n \in Names, cancel_offer(b, n)
        PROVE  Market!Retract(n, b)
    <2>1. /\ offers[n][b] \in OfferAccount /\ is_active(offers[n][b])
          /\ UNCHANGED <<names, listings>>
      BY <1>9 DEF cancel_offer, is_active, TypeOK
    <2>2. \A m \in Names, u \in Users : quote_of(offers'[m][u]) =
            IF m = n /\ u = b THEN None ELSE quote_of(offers[m][u])
      BY <1>9, <2>1, MappedQuotes DEF cancel_offer, TypeOK
    <2>3. quote_of(offers[n][b]) # None
      BY <2>1, MappedQuotes
    <2>4. BidsDiffer(n, b, None)
      BY <2>2 DEF BidsDiffer
    <2>5. BidsUpdated(n, b, None)
      BY <2>4, MappedBids, Zenon
    <2> QED BY <2>1, <2>3, <2>5 DEF BidsUpdated, Market!Retract
  <1>10. ASSUME NEW s \in Users, NEW b \in Users, NEW n \in Names, NEW payee \in Users,
                accept_offer(s, b, n, payee)
         PROVE  Market!Accept(n, b)
    <2>1. /\ offers[n][b] \in OfferAccount /\ is_active(offers[n][b])
          /\ names[n] \in NameAccount
      BY <1>10 DEF accept_offer, signed_by_owner, is_active, TypeOK
    <2>2. \A m \in Names : quote_of(listings'[m]) = IF m = n THEN None ELSE quote_of(listings[m])
      <3>1. CASE is_active(listings[n])
        <4>1. listings[n] \in ListingAccount
          BY <3>1 DEF is_active, TypeOK
        <4> QED BY <1>10, <3>1, <4>1, MappedQuotes DEF accept_offer, TypeOK
      <3>2. CASE ~is_active(listings[n])
        BY <1>10, <3>2, MappedQuotes DEF accept_offer
      <3> QED BY <3>1, <3>2
    <2>3. \A m \in Names : owner_of(names'[m]) = IF m = n THEN b ELSE owner_of(names[m])
      BY <1>10, <2>1, MappedNames DEF accept_offer, TypeOK
    <2>4. \A m \in Names, u \in Users : quote_of(offers'[m][u]) =
            IF m = n /\ u = b THEN None ELSE quote_of(offers[m][u])
      BY <1>10, <2>1, MappedQuotes DEF accept_offer, TypeOK
    <2>5. owner_of(names[n]) # None /\ quote_of(offers[n][b]) # None
      BY <2>1, MappedNames, MappedQuotes
    <2>6. [m \in Names |-> quote_of(listings'[m])]
            = [[m \in Names |-> quote_of(listings[m])] EXCEPT ![n] = None]
      BY <2>2
    <2>7. [m \in Names |-> owner_of(names'[m])]
            = [[m \in Names |-> owner_of(names[m])] EXCEPT ![n] = b]
      BY <2>3
    <2>8. BidsUpdated(n, b, None)
      <3>1. BidsDiffer(n, b, None)
        BY <2>4 DEF BidsDiffer
      <3> QED BY <3>1, MappedBids, Zenon
    <2> QED BY <2>5, <2>6, <2>7, <2>8 DEF BidsUpdated, Market!Accept
  <1>11. CASE UNCHANGED <<names, listings, offers>>
    BY <1>1, <1>11
  <1>12. CASE NameInstruction
    BY <1>2, <1>3, <1>4, <1>11, <1>12
    DEF NameInstruction, initialize_registry, clear_primary, Market!Next
  <1>13. CASE RecordInstruction
    BY <1>11, <1>13 DEF RecordInstruction, set_record, delete_record
  <1>14. CASE MarketInstruction
    <2>1. \A c \in QuoteCurrency, p \in Prices :
            p > 0 => [currency |-> c, price |-> p]
                       \in [currency : QuoteCurrency, price : Prices \ {0}]
      OBVIOUS
    <2>2. ASSUME NEW s \in Users, NEW n \in Names, NEW c \in QuoteCurrency,
                 NEW p \in Prices, list_name(s, n, c, p) \/ make_offer(s, n, c, p)
          PROVE  Market!Next
      <3>1. p > 0
        BY <2>2 DEF list_name, make_offer
      <3>2. PICK q \in [currency : QuoteCurrency, price : Prices \ {0}] :
              q = [currency |-> c, price |-> p]
        BY <2>1, <3>1
      <3>3. Market!Ask(n, q) \/ Market!Bid(n, s, q)
        BY <1>5, <1>8, <2>2, <3>2
      <3> QED BY <3>3 DEF Market!Next
    <2> QED BY <1>6, <1>7, <1>9, <1>10, <1>14, <2>2 DEF MarketInstruction, Market!Next
  <1> QED
    BY <1>11, <1>12, <1>13, <1>14 DEF Next, vars

\* The registry program implements the market for names.
THEOREM ImplementsMarketThm == Spec => ImplementsMarket
  <1>1. Init => Market!Init
    BY DEF Init, Market!Init, owner_of, quote_of, is_active
  <1> QED
    BY <1>1, MarketStep, TypeCorrect, PTL DEF Spec, ImplementsMarket, Market!Spec

-----------------------------------------------------------------------------
(* Resolution by clients                                                   *)

\* Two accounts that together pass the checks of a resolution, what it would
\* answer, and the counter the answer depends on.
fits(q, name, other) ==
    IF q.kind = "record" THEN resolve_record_ok(name, q.key, other)
    ELSE resolve_primary_ok(other, name) /\ other.primary_name = q.name

value_of(q, other) == IF q.kind = "record" THEN other.value ELSE other.primary_name

counter_of(q, name) ==
    IF q.kind = "record" THEN name.record_epoch ELSE name.primary_binding_nonce

backed(q, name, other) ==
    fits(q, name, other) /\ counter_of(q, name) < MaxU64 => value_of(q, other) \in lived

\* What the client has of an account: its copy, or what it would read now.
now_name == IF "name" \in got THEN name_copy ELSE names[query.name]
now_other == IF "other" \in got THEN other_copy ELSE other_account(query)

\* A copy of a record or a reverse account is not ahead of the name on chain.
behind(q, other) ==
    /\ q.kind = "record" /\ other # None =>
         /\ names[q.name] # None /\ other.record_epoch \in U64
         /\ other.record_epoch <= names[q.name].record_epoch
    /\ q.kind # "record" /\ other # None /\ other.primary_name = q.name =>
         /\ names[q.name] # None /\ other.binding_nonce \in U64
         /\ other.binding_nonce <= names[q.name].primary_binding_nonce

\* From its first read on, whatever a query could answer with the accounts it
\* has or would read now has been a right answer since that read.
ClientInv ==
    /\ query # None => query \in RecordQuery \cup PrimaryQuery
    /\ got \in SUBSET {"name", "other"}
    /\ query = None => got = {}
    /\ "other" \in got => behind(query, other_copy)
    /\ got # {} => backed(query, now_name, now_other)
    /\ ResolvedWasLive

\* The accounts as they are now are backed by what is right now.
LEMMA PresentIsBacked ==
    ASSUME NEW q \in RecordQuery \cup PrimaryQuery, fits(q, names[q.name], other_account(q))
    PROVE  value_of(q, other_account(q)) \in right_answers(q)
  <1>1. CASE q.kind = "record"
    BY <1>1 DEF fits, value_of, other_account, right_answers, record_resolves
  <1>2. CASE q.kind # "record"
    <2>1. q.kind = "primary"
      BY <1>2 DEF RecordQuery, PrimaryQuery
    <2> QED BY <1>2, <2>1 DEF fits, value_of, other_account, right_answers, primary_resolves,
                              resolve_primary_ok
  <1> QED BY <1>1, <1>2

LEMMA PresentIsBehind ==
    ASSUME TypeOK, EpochFixesOwner, ReverseBehindName,
           NEW q \in RecordQuery \cup PrimaryQuery
    PROVE  behind(q, other_account(q))
  <1>1. CASE q \in RecordQuery
    <2>1. q.kind = "record" /\ q.name \in Names /\ q.key \in RecordKeys
      BY <1>1 DEF RecordQuery
    <2>2. records[q.name][q.key] # None =>
            /\ names[q.name] # None /\ records[q.name][q.key] \in RecordAccount
            /\ records[q.name][q.key].record_epoch <= names[q.name].record_epoch
      BY <2>1 DEF EpochFixesOwner, TypeOK
    <2> QED BY <2>1, <2>2 DEF behind, other_account, RecordAccount
  <1>2. CASE q \in PrimaryQuery
    <2>1. q.kind = "primary" /\ q.name \in Names /\ q.owner \in Users
      BY <1>2 DEF PrimaryQuery
    <2>2. reverse[q.owner] # None =>
            /\ reverse[q.owner] \in ReverseAccount
            /\ names[reverse[q.owner].primary_name] # None
            /\ reverse[q.owner].binding_nonce
                 <= names[reverse[q.owner].primary_name].primary_binding_nonce
      BY <2>1 DEF ReverseBehindName, TypeOK
    <2> QED BY <2>1, <2>2 DEF behind, other_account, ReverseAccount
  <1> QED BY <1>1, <1>2

\* The two reads take what the client would read anyway.
LEMMA ReadStep ==
    ASSUME TypeOK, EpochFixesOwner, ReverseBehindName, ClientInv, readName \/ readOther
    PROVE  ClientInv'
  <1>0. /\ query # None /\ query \in RecordQuery \cup PrimaryQuery /\ UNCHANGED <<vars, query, answer>>
        /\ lived' = lived \cup right_answers(query)
        /\ got' \in SUBSET {"name", "other"} /\ got \subseteq got' /\ got \in SUBSET {"name", "other"}
    BY DEF ClientInv, readName, readOther
  <1>1. UNCHANGED <<names, records, reverse>>
    BY <1>0 DEF vars
  <1>2. now_name' = now_name
    <2>1. CASE readName
      BY <2>1 DEF readName, now_name
    <2>2. CASE readOther
      BY <1>0, <1>1, <2>2 DEF readOther, now_name
    <2> QED BY <2>1, <2>2
  <1>3. now_other' = now_other
    <2>1. CASE readName
      BY <1>0, <1>1, <2>1 DEF readName, now_other, other_account
    <2>2. CASE readOther
      BY <2>2 DEF readOther, now_other
    <2> QED BY <2>1, <2>2
  <1>4. backed(query, now_name, now_other)'
    <2> SUFFICES ASSUME fits(query, now_name, now_other), counter_of(query, now_name) < MaxU64
                 PROVE  value_of(query, now_other) \in lived'
      BY <1>0, <1>2, <1>3 DEF backed, fits, counter_of, value_of
    <2>1. CASE got # {}
      BY <1>0, <2>1 DEF ClientInv, backed
    <2>2. CASE got = {}
      <3>1. now_name = names[query.name] /\ now_other = other_account(query)
        BY <2>2 DEF now_name, now_other
      <3> QED BY <1>0, <3>1, PresentIsBacked
    <2> QED BY <2>1, <2>2
  <1>5. "other" \in got' => behind(query, other_copy)'
    <2>1. CASE readName
      BY <1>0, <1>1, <2>1 DEF readName, ClientInv, behind
    <2>2. CASE readOther
      <3>1. other_copy' = other_account(query)
        BY <2>2 DEF readOther
      <3>2. behind(query, other_account(query))
        BY <1>0, PresentIsBehind
      <3> QED BY <1>0, <1>1, <3>1, <3>2 DEF behind
    <2> QED BY <2>1, <2>2
  <1>6. ResolvedWasLive'
    BY <1>0 DEF ClientInv, ResolvedWasLive
  <1> QED BY <1>0, <1>4, <1>5, <1>6 DEF ClientInv

\* The client's own other steps.
LEMMA AnswerStep ==
    ASSUME ClientInv,
           \/ \E q \in RecordQuery \cup PrimaryQuery : Ask(q) \/ fetchNameProfile(q)
           \/ Resolve
    PROVE  ClientInv'
  <1>1. ASSUME NEW q \in RecordQuery \cup PrimaryQuery, Ask(q) PROVE ClientInv'
    <2>1. got = {} /\ got' = {} /\ query' = q /\ answer' = None
      BY <1>1 DEF Ask, ClientInv
    <2> QED BY <2>1 DEF ClientInv, ResolvedWasLive
  <1>2. ASSUME NEW q \in RecordQuery \cup PrimaryQuery, fetchNameProfile(q) PROVE ClientInv'
    <2>1. got = {} /\ got' = {} /\ query' = None /\ answer'.by = "profile"
      BY <1>2 DEF fetchNameProfile, ClientInv
    <2> QED BY <2>1 DEF ClientInv, ResolvedWasLive
  <1>3. CASE Resolve
    <2>1. /\ query # None /\ got = {"name", "other"} /\ got' = {} /\ query' = None
          /\ UNCHANGED lived
      BY <1>3 DEF Resolve
    <2>2. backed(query, name_copy, other_copy)
      BY <2>1 DEF ClientInv, now_name, now_other
    <2>3. ResolvedWasLive'
      <3>1. CASE resolves(query)
        <4>1. answer' = [by |-> "resolve",
                         value |-> IF query.kind = "record"
                                   THEN other_copy.value ELSE other_copy.primary_name,
                         tenure |-> tenure(query)]
          BY <1>3, <3>1 DEF Resolve
        <4>2. answer'.value = value_of(query, other_copy)
              /\ answer'.tenure = counter_of(query, name_copy)
          BY <4>1 DEF value_of, counter_of, tenure
        <4>3. fits(query, name_copy, other_copy)
          BY <3>1 DEF resolves, fits
        <4> QED BY <2>1, <2>2, <4>2, <4>3 DEF ResolvedWasLive, backed
      <3>2. CASE ~resolves(query)
        BY <1>3, <3>2 DEF Resolve, ResolvedWasLive
      <3> QED BY <3>1, <3>2
    <2> QED BY <2>1, <2>3 DEF ClientInv
  <1> QED BY <1>1, <1>2, <1>3

\* A record or reverse account that changes is gone, or it holds a right answer
\* from now on.
LEMMA OtherMoves ==
    ASSUME TypeOK, [Next]_vars, NEW q \in RecordQuery \cup PrimaryQuery,
           other_account(q)' # other_account(q), other_account(q)' # None
    PROVE  value_of(q, other_account(q))' \in right_answers(q)'
  <1>1. CASE q \in RecordQuery
    <2>1. q.kind = "record" /\ q.name \in Names /\ q.key \in RecordKeys
      BY <1>1 DEF RecordQuery
    <2>2. records'[q.name][q.key] # records[q.name][q.key] /\ records'[q.name][q.key] # None
      BY <2>1 DEF other_account
    <2>3. PICK value \in RecordValue :
            /\ names' = names /\ names[q.name] # None
            /\ validate_record_value(names[q.name].owner, q.key, value)
            /\ records'[q.name][q.key] = new_record(names[q.name], records[q.name][q.key], value)
      BY <2>1, <2>2, RecordStep
    <2>4. record_resolves(q.name, q.key)'
      BY <2>2, <2>3
      DEF record_resolves, resolve_record_ok, bound_to, new_record, validate_record_value
    <2> QED BY <2>1, <2>4 DEF value_of, other_account, right_answers
  <1>2. CASE q \in PrimaryQuery
    <2>1. q.kind = "primary" /\ q.name \in Names /\ q.owner \in Users
      BY <1>2 DEF PrimaryQuery
    <2>2. reverse'[q.owner] # reverse[q.owner] /\ reverse'[q.owner] # None
      BY <2>1 DEF other_account
    <2>3. PICK n \in Names :
            /\ names[n] # None /\ names'[n] = with_primary(names[n])
            /\ reverse'[q.owner] = new_reverse(names'[n], n)
      BY <2>1, <2>2, ReverseStep
    <2>4. names[n] \in NameAccount
      BY <2>3 DEF TypeOK
    <2>5. names'[n] # None
      BY <2>3, <2>4, NameTransitions, NoneAssumption
    <2>6. primary_resolves(q.owner)'
      BY <2>2, <2>3, <2>5 DEF primary_resolves, resolve_primary_ok, new_reverse
    <2> QED BY <2>1, <2>6 DEF value_of, other_account, right_answers
  <1> QED BY <1>1, <1>2

\* A name that fits a copy taken earlier, below the counter's limit, fitted it
\* before the step as well: a tenure that passed does not come back.
LEMMA NameMoves ==
    ASSUME TypeOK, [Next]_vars, NEW q \in RecordQuery \cup PrimaryQuery, NEW other,
           behind(q, other),
           fits(q, names'[q.name], other), counter_of(q, names'[q.name]) < MaxU64
    PROVE  fits(q, names[q.name], other) /\ counter_of(q, names[q.name]) < MaxU64
  <1> DEFINE a == names[q.name]
             b == names'[q.name]
  <1>1. q.name \in Names /\ (q.kind = "record" \/ q.kind = "primary")
    BY DEF RecordQuery, PrimaryQuery
  <1>2. tenures_advance /\ TypeOK'
    BY TenureStep, TypeStep
  <1>3. other # None /\ b # None
    BY DEF fits, resolve_record_ok, resolve_primary_ok
  <1>4. a # None
    BY <1>3 DEF behind, fits
  <1>5. a \in NameAccount /\ b \in NameAccount
    BY <1>1, <1>2, <1>3, <1>4 DEF TypeOK
  <1>6. /\ a.record_epoch \in U64 /\ a.primary_binding_nonce \in U64
        /\ b.record_epoch \in U64 /\ b.primary_binding_nonce \in U64
    BY <1>5 DEF NameAccount
  <1>7. /\ b.record_epoch >= a.record_epoch
        /\ b.primary_binding_nonce >= a.primary_binding_nonce
        /\ b.owner # a.owner =>
             /\ b.record_epoch = saturating_add_1(a.record_epoch)
             /\ b.primary_binding_nonce = saturating_add_1(a.primary_binding_nonce)
    BY <1>1, <1>2, <1>4 DEF tenures_advance
  <1> HIDE DEF a, b
  <1>8. CASE q.kind = "record"
    <2>1. /\ other.owner_snapshot = b.owner /\ other.record_epoch = b.record_epoch
          /\ validate_record_value(b.owner, q.key, other.value)
          /\ b.record_epoch < MaxU64
      BY <1>8 DEF b, fits, resolve_record_ok, bound_to, counter_of
    <2>2. other.record_epoch <= a.record_epoch
      BY <1>3, <1>8 DEF a, behind
    <2>3. a.record_epoch = b.record_epoch
      BY <1>6, <1>7, <2>1, <2>2 DEF U64
    <2>4. a.owner = b.owner
      BY <1>6, <1>7, <2>1, <2>3, SaturatingAdd DEF U64
    <2> QED BY <1>3, <1>4, <1>8, <2>1, <2>3, <2>4 DEF a, fits, resolve_record_ok, bound_to, counter_of
  <1>9. CASE q.kind # "record"
    <2>1. /\ other.owner = b.owner /\ other.binding_nonce = b.primary_binding_nonce
          /\ other.primary_name = q.name /\ b.primary_binding_nonce < MaxU64
      BY <1>9 DEF b, fits, resolve_primary_ok, counter_of
    <2>2. other.binding_nonce <= a.primary_binding_nonce
      BY <1>3, <1>9, <2>1 DEF a, behind
    <2>3. a.primary_binding_nonce = b.primary_binding_nonce
      BY <1>6, <1>7, <2>1, <2>2 DEF U64
    <2>4. a.owner = b.owner
      BY <1>6, <1>7, <2>1, <2>3, SaturatingAdd DEF U64
    <2> QED BY <1>3, <1>4, <1>9, <2>1, <2>3, <2>4 DEF a, fits, resolve_primary_ok, counter_of
  <1> QED BY <1>8, <1>9

\* A copy stays behind the name it was read for.
LEMMA BehindStays ==
    ASSUME TypeOK, [Next]_vars, NEW q \in RecordQuery \cup PrimaryQuery, NEW other,
           behind(q, other)
    PROVE  behind(q, other)'
  <1>1. q.name \in Names
    BY DEF RecordQuery, PrimaryQuery
  <1>2. tenures_advance /\ TypeOK'
    BY TenureStep, TypeStep
  <1> SUFFICES ASSUME names[q.name] # None PROVE behind(q, other)'
    BY DEF behind
  <1>3. names'[q.name] # None
    BY <1>1, <1>2 DEF tenures_advance
  <1>4. names[q.name] \in NameAccount /\ names'[q.name] \in NameAccount
    BY <1>1, <1>2, <1>3 DEF TypeOK
  <1>5. /\ names[q.name].record_epoch \in U64 /\ names[q.name].primary_binding_nonce \in U64
        /\ names'[q.name].record_epoch \in U64 /\ names'[q.name].primary_binding_nonce \in U64
    BY <1>4 DEF NameAccount
  <1>6. /\ names'[q.name].record_epoch >= names[q.name].record_epoch
        /\ names'[q.name].primary_binding_nonce >= names[q.name].primary_binding_nonce
    BY <1>1, <1>2 DEF tenures_advance
  <1> QED BY <1>3, <1>5, <1>6 DEF behind, U64

\* An instruction that lands between the reads.
LEMMA LandedStep ==
    ASSUME TypeOK, ClientInv, RegistryStep
    PROVE  ClientInv'
  <1>1. [Next]_vars /\ UNCHANGED <<query, got, name_copy, other_copy, answer>>
    BY DEF RegistryStep, observe, Next
  <1>2. lived \subseteq lived'
    BY DEF RegistryStep, observe
  <1>3. ResolvedWasLive'
    BY <1>1, <1>2 DEF ClientInv, ResolvedWasLive
  <1>4. CASE got = {}
    BY <1>1, <1>3, <1>4 DEF ClientInv
  <1>5. CASE got # {}
    <2>1. query # None
      BY <1>5 DEF ClientInv
    <2>2. PICK q \in RecordQuery \cup PrimaryQuery : q = query
      BY <2>1 DEF ClientInv
    <2>3. query' = q /\ got' = got /\ got # {} /\ got \in SUBSET {"name", "other"}
      BY <1>1, <1>5, <2>2 DEF ClientInv
    <2>4. right_answers(q)' \subseteq lived'
      <3>1. lived' = lived \cup right_answers(query)'
        BY <1>5, <2>1 DEF RegistryStep, observe
      <3>2. right_answers(query)' = right_answers(q)'
        BY <2>3 DEF right_answers, record_resolves, primary_resolves
      <3> QED BY <3>1, <3>2
    <2>5. backed(q, now_name, now_other)
      BY <1>5, <2>2 DEF ClientInv
    <2>6. "other" \in got => behind(q, other_copy)'
      <3> SUFFICES ASSUME "other" \in got PROVE behind(q, other_copy)'
        OBVIOUS
      <3>1. PICK other : other = other_copy
        OBVIOUS
      <3>2. behind(q, other)
        BY <2>2, <3>1 DEF ClientInv
      <3>3. behind(q, other)'
        BY <1>1, <3>2, BehindStays
      <3> QED BY <1>1, <3>1, <3>3 DEF behind
    <2>7. backed(q, now_name, now_other)'
      <3> SUFFICES ASSUME fits(q, now_name, now_other)', counter_of(q, now_name)' < MaxU64
                   PROVE  value_of(q, now_other)' \in lived'
        BY DEF backed
      <3>1. CASE "other" \notin got
        <4>1. "name" \in got
          BY <2>3, <3>1
        <4>2. /\ now_name = name_copy /\ now_name' = name_copy
              /\ now_other = other_account(q) /\ now_other' = other_account(q)'
          BY <1>1, <2>2, <2>3, <3>1, <4>1 DEF now_name, now_other, other_account
        <4>3. CASE other_account(q)' = other_account(q)
          BY <1>2, <2>5, <4>2, <4>3 DEF backed, fits, counter_of, value_of
        <4>4. CASE other_account(q)' # other_account(q)
          <5>1. other_account(q)' # None
            BY <4>2 DEF fits, resolve_record_ok, resolve_primary_ok
          <5>2. value_of(q, other_account(q))' \in right_answers(q)'
            BY <1>1, <4>4, <5>1, OtherMoves
          <5> QED BY <2>4, <4>2, <5>2 DEF value_of
        <4> QED BY <4>3, <4>4
      <3>2. CASE "other" \in got /\ "name" \in got
        <4>1. now_name' = now_name /\ now_other' = now_other
          BY <1>1, <3>2 DEF now_name, now_other
        <4> QED BY <1>2, <2>5, <4>1 DEF backed, fits, counter_of, value_of
      <3>3. CASE "other" \in got /\ "name" \notin got
        <4>1. /\ now_name = names[q.name] /\ now_name' = names'[q.name]
              /\ now_other = other_copy /\ now_other' = other_copy
          BY <1>1, <2>2, <2>3, <3>3 DEF now_name, now_other
        <4>2. PICK other : other = other_copy
          OBVIOUS
        <4>3. behind(q, other)
          BY <2>2, <3>3, <4>2 DEF ClientInv
        <4>4. fits(q, names'[q.name], other) /\ counter_of(q, names'[q.name]) < MaxU64
          BY <4>1, <4>2 DEF fits, counter_of
        <4>5. fits(q, names[q.name], other) /\ counter_of(q, names[q.name]) < MaxU64
          BY <1>1, <4>3, <4>4, NameMoves
        <4> QED BY <1>2, <2>5, <4>1, <4>2, <4>5 DEF backed, value_of
      <3> QED BY <3>1, <3>2, <3>3
    <2>8. backed(query, now_name, now_other)'
      BY <2>3, <2>7 DEF backed, fits, counter_of, value_of
    <2>9. "other" \in got' => behind(query, other_copy)'
      BY <2>3, <2>6 DEF behind
    <2> QED BY <1>3, <2>1, <2>2, <2>3, <2>8, <2>9 DEF ClientInv
  <1> QED BY <1>4, <1>5

\* A behaviour of the client contains a behaviour of the registry.
LEMMA ClientRunsRegistry == ClientSpec => Spec
  <1>1. ClientInit => Init
    BY DEF ClientInit
  <1>2. [ClientNext]_<<vars, client>> => [Next]_vars
    <2>1. ClientStep => UNCHANGED vars
      BY DEF ClientStep, Ask, fetchNameProfile, readName, readOther, Resolve
    <2>2. RegistryStep => Next
      BY DEF RegistryStep, Next
    <2> QED BY <2>1, <2>2 DEF ClientNext
  <1> QED BY <1>1, <1>2, PTL DEF ClientSpec, Spec

\* A value that resolveRecord or resolvePrimary returns, below the counters'
\* limit, was the right answer at some moment since the older of the two reads.
THEOREM ResolvedWasLiveThm == ClientSpec => []ResolvedWasLive
  <1>1. ClientInit => ClientInv
    BY DEF ClientInit, ClientInv, ResolvedWasLive
  <1>2. TypeOK /\ EpochFixesOwner /\ ReverseBehindName /\ ClientInv
        /\ [ClientNext]_<<vars, client>> => ClientInv'
    <2> SUFFICES ASSUME TypeOK, EpochFixesOwner, ReverseBehindName, ClientInv,
                        [ClientNext]_<<vars, client>>
                 PROVE  ClientInv'
      OBVIOUS
    <2>1. CASE ClientStep
      BY <2>1, ReadStep, AnswerStep DEF ClientStep
    <2>2. CASE RegistryStep
      BY <2>2, LandedStep
    <2>3. CASE UNCHANGED <<vars, client>>
      BY <2>3 DEF vars, client, ClientInv, ResolvedWasLive, backed, behind, fits, counter_of,
                  value_of, now_name, now_other, other_account
    <2> QED BY <2>1, <2>2, <2>3 DEF ClientNext
  <1>3. ClientInv => ResolvedWasLive
    BY DEF ClientInv
  <1> QED
    BY <1>1, <1>2, <1>3, ClientRunsRegistry, TypeCorrect, EpochFixesOwnerThm,
       ReverseBehindNameThm, PTL DEF ClientSpec

-----------------------------------------------------------------------------
(* Saving a record from several pages: the inductive invariant             *)

RecordOrNone == RecordAccount \cup {None}

Statuses == {"unsent", "sent", "applied", "failed"}

EditorType ==
    /\ record \in RecordOrNone
    /\ version \in Nat
    /\ deleted \in Nat
    /\ tx \in [Texts -> Statuses]
    /\ read \in [Texts -> Snapshot]
    /\ tab \in [Tabs -> TabState]
    /\ batches \subseteq BatchAnswer

\* A snapshot is a state of the record's past: it is the present record if no
\* write or deletion came after it, and unless a deletion did, the revision has
\* only moved forward since, strictly so below the counter's limit.
past(s) ==
    /\ s.version <= version
    /\ s.version = version => s.record = record
    /\ (deleted <= s.version /\ s.version < version) =>
          \/ revision_of(s.record) < revision_of(record)
          \/ revision_of(record) = MaxU64

\* The record before anyone wrote it: what a declined save leaves in read.
unwritten == [record |-> None, version |-> 0]

History ==
    /\ deleted <= version
    /\ past(unwritten)
    /\ \A v \in Texts : past(read[v])
    /\ \A t \in Tabs : past(tab[t].cache)
    /\ \A b \in batches : past(b.answer)

\* A page whose draft is a save of its own: it is under way, or the node has
\* named its transaction.
saving(t) == tab[t].pc # "idle" \/ tab[t].txid

\* No two pages share a save, a save has left its page once it is past the
\* wallet's prompt, and it has no outcome before its wait ends.
Drafts ==
    \A t \in Tabs : saving(t) =>
        /\ tab[t].draft \in Texts
        /\ tab[t].pc = "signing" <=> tx[tab[t].draft] = "unsent"
        /\ tab[t].pc # "idle" => tab[t].outcome = "none"
        /\ tab[t].pc = "signing" => ~tab[t].txid
        /\ \A u \in Tabs : (saving(u) /\ tab[u].draft = tab[t].draft) => u = t

EditorInv ==
    /\ EditorType
    /\ History
    /\ Drafts
    /\ FailureIsDefinite

-----------------------------------------------------------------------------
(* Lemmas                                                                  *)

\* A slot is at a u64 revision, 0 without data.
LEMMA RevisionType ==
    ASSUME NEW r \in RecordOrNone PROVE revision_of(r) \in U64
  <1>1. CASE r = None
    BY <1>1, CountersAssumption DEF revision_of, U64
  <1>2. CASE r # None
    BY <1>2 DEF revision_of, RecordOrNone, RecordAccount
  <1> QED BY <1>1, <1>2

\* A write makes a record account and moves the revision forward until the
\* counter saturates.
LEMMA Written ==
    ASSUME NEW r \in RecordOrNone, NEW v \in Texts
    PROVE  /\ new_record(the_name, r, v) \in RecordAccount
           /\ \/ revision_of(r) < revision_of(new_record(the_name, r, v))
              \/ revision_of(new_record(the_name, r, v)) = MaxU64
  <1> DEFINE w == new_record(the_name, r, v)
             n == IF r = None THEN 1 ELSE saturating_add_1(r.revision)
  <1>1. n \in U64 /\ (revision_of(r) < n \/ n = MaxU64)
    <2>1. CASE r = None
      BY <2>1, CountersAssumption DEF revision_of, U64
    <2>2. CASE r # None
      <3>1. r.revision \in U64 /\ revision_of(r) = r.revision
        BY <2>2 DEF revision_of, RecordOrNone, RecordAccount
      <3> QED BY <2>2, <3>1, CountersAssumption DEF saturating_add_1, U64
    <2> QED BY <2>1, <2>2
  <1>2. the_name.owner \in Users /\ the_name.record_epoch \in U64
    BY EditorAssumption, CountersAssumption DEF the_name, new_name, U64
  <1>3. w \in RecordAccount /\ w.revision = n
    BY <1>1, <1>2 DEF new_record, RecordAccount, RecordValue
  <1>4. revision_of(w) = n
    BY <1>3, NoneAssumption DEF revision_of
  <1> QED BY <1>1, <1>3, <1>4

\* The present is a snapshot of the past.
LEMMA NowIsPast == EditorType => past(now) /\ now \in Snapshot
  BY DEF EditorType, past, now, Snapshot, RecordOrNone

\* A write keeps every snapshot in the past.
LEMMA PastThroughWrite ==
    ASSUME EditorType, deleted <= version, NEW v \in Texts,
           record' = new_record(the_name, record, v), version' = version + 1,
           deleted' = deleted, NEW s \in Snapshot, past(s)
    PROVE  past(s)'
  <1> DEFINE w == new_record(the_name, record, v)
  <1>1. revision_of(record) \in U64 /\ revision_of(s.record) \in U64
    BY RevisionType DEF EditorType, Snapshot, RecordOrNone
  <1>2. w \in RecordOrNone /\ revision_of(w) \in U64
    BY Written, RevisionType DEF EditorType, RecordOrNone
  <1>3. revision_of(record) < revision_of(w) \/ revision_of(w) = MaxU64
    BY Written DEF EditorType
  <1>4. s.version \in Nat /\ version \in Nat /\ deleted \in Nat
    BY DEF EditorType, Snapshot
  <1>5. (deleted <= s.version) =>
            revision_of(s.record) <= revision_of(record) \/ revision_of(record) = MaxU64
    BY <1>1, <1>4 DEF past, U64
  <1> HIDE DEF w
  <1>6. revision_of(record)' = revision_of(w)
    BY DEF revision_of, w
  <1>7. (s.version <= version)' /\ s.version # version'
    BY <1>4 DEF past
  <1>8. (deleted <= s.version) =>
            revision_of(s.record) < revision_of(w) \/ revision_of(w) = MaxU64
    BY <1>1, <1>2, <1>3, <1>5, CountersAssumption DEF U64
  <1> QED BY <1>6, <1>7, <1>8 DEF past

\* So does a deletion, which is later than every snapshot.
LEMMA PastThroughDeletion ==
    ASSUME EditorType, version' = version + 1, deleted' = version + 1,
           NEW s \in Snapshot, past(s)
    PROVE  past(s)'
  BY DEF EditorType, Snapshot, past

\* A step that leaves the record alone does not touch the past.
LEMMA PastThroughOthers ==
    ASSUME UNCHANGED <<record, version, deleted>>, NEW s, past(s)
    PROVE  past(s)'
  BY DEF past

-----------------------------------------------------------------------------
(* What the actions do                                                     *)

\* The answers a page can read are snapshots of the past.
LEMMA ReadsArePast ==
    ASSUME EditorInv, NEW t \in Tabs, NEW seen \in readAccountInfo(t)
    PROVE  seen \in Snapshot /\ past(seen)
  BY NowIsPast DEF EditorInv, EditorType, History, readAccountInfo, TabState

\* Picking an unused value is possible when there is one.
LEMMA UnusedPick ==
    ASSUME unused # {}
    PROVE  /\ (CHOOSE v \in unused : TRUE) \in Texts
           /\ tx[CHOOSE v \in unused : TRUE] = "unsent"
           /\ \A t \in Tabs : tab[t].draft # (CHOOSE v \in unused : TRUE)
  <1>1. (CHOOSE v \in unused : TRUE) \in unused
    OBVIOUS
  <1> QED BY <1>1 DEF unused

\* The state cur of a page after a step of its polling loop.
polled(t, cur) ==
    /\ cur \in TabState
    /\ cur.draft = tab[t].draft
    /\ cur.txid = tab[t].txid
    /\ cur.pc \in {"idle", "probing", "lookup"}
    /\ cur.cache \in readAccountInfo(t)
    /\ cur.pc # "idle" => cur.outcome = tab[t].outcome
    /\ cur.pc = "idle" =>
          \/ cur.outcome = "unconfirmed"
          \/ cur.outcome = "failed" /\ tx[tab[t].draft] = "failed"
          \/ /\ cur.outcome = "confirmed"
             /\ recordRevisionPast(cur.cache.record, read[tab[t].draft].record)

\* A step of the polling loop changes its page and nothing else.
LEMMA WaitStep ==
    ASSUME EditorInv, NEW t \in Tabs, wait_step(t)
    PROVE  /\ UNCHANGED <<chain, read, batches>>
           /\ tab[t].pc \in {"probing", "lookup"}
           /\ \E cur : polled(t, cur) /\ tab' = [tab EXCEPT ![t] = cur]
  <1>1. tab[t] \in TabState /\ tab \in [Tabs -> TabState]
    BY DEF EditorInv, EditorType
  <1>2. tab[t].cache \in readAccountInfo(t)
    BY DEF readAccountInfo
  <1>3. \A seen \in readAccountInfo(t) : seen \in Snapshot
    BY ReadsArePast
  <1>z. 0 \in 0..Polls
    BY EditorAssumption
  <1>4. ASSUME isComplete(t)
        PROVE  /\ UNCHANGED <<chain, read, batches>>
               /\ tab[t].pc \in {"probing", "lookup"}
               /\ \E cur : polled(t, cur) /\ tab' = [tab EXCEPT ![t] = cur]
    <2>1. PICK seen \in readAccountInfo(t) :
            tab' = IF recordRevisionPast(seen.record, read[tab[t].draft].record)
                   THEN [tab EXCEPT ![t].pc = "idle", ![t].outcome = "confirmed",
                                    ![t].polls = 0, ![t].cache = seen]
                   ELSE [tab EXCEPT ![t].pc = "lookup", ![t].cache = seen]
      BY <1>4 DEF isComplete
    <2> DEFINE done == [tab[t] EXCEPT !.pc = "idle", !.outcome = "confirmed", !.polls = 0,
                                      !.cache = seen]
               more == [tab[t] EXCEPT !.pc = "lookup", !.cache = seen]
    <2>2. CASE recordRevisionPast(seen.record, read[tab[t].draft].record)
      <3>1. polled(t, done)
        BY <1>1, <1>3, <1>z, <2>2 DEF polled, TabState
      <3>2. tab' = [tab EXCEPT ![t] = done]
        BY <1>1, <2>1, <2>2
      <3> QED BY <1>4, <3>1, <3>2 DEF isComplete
    <2>3. CASE ~recordRevisionPast(seen.record, read[tab[t].draft].record)
      <3>1. polled(t, more)
        BY <1>1, <1>3, <2>3 DEF polled, TabState
      <3>2. tab' = [tab EXCEPT ![t] = more]
        BY <1>1, <2>1, <2>3
      <3> QED BY <1>4, <3>1, <3>2 DEF isComplete
    <2> QED BY <2>2, <2>3
  <1>5. ASSUME probe_throws(t)
        PROVE  /\ UNCHANGED <<chain, read, batches>>
               /\ tab[t].pc \in {"probing", "lookup"}
               /\ \E cur : polled(t, cur) /\ tab' = [tab EXCEPT ![t] = cur]
    <2> DEFINE more == [tab[t] EXCEPT !.pc = "lookup"]
    <2>1. polled(t, more) /\ tab' = [tab EXCEPT ![t] = more]
      BY <1>1, <1>2, <1>5 DEF probe_throws, polled, TabState
    <2> QED BY <1>5, <2>1 DEF probe_throws
  <1>6. ASSUME getProcessedTransaction(t)
        PROVE  /\ UNCHANGED <<chain, read, batches>>
               /\ tab[t].pc \in {"probing", "lookup"}
               /\ \E cur : polled(t, cur) /\ tab' = [tab EXCEPT ![t] = cur]
    <2> DEFINE late == [tab[t] EXCEPT !.pc = "idle", !.outcome = "unconfirmed"]
               more == [tab[t] EXCEPT !.pc = "probing", !.polls = @ - 1]
               lost == [tab[t] EXCEPT !.pc = "idle", !.outcome = "failed", !.polls = 0]
    <2>1. CASE next_poll(t) /\ tab[t].polls = 0
      <3>1. polled(t, late) /\ tab' = [tab EXCEPT ![t] = late]
        BY <1>1, <1>2, <2>1 DEF next_poll, polled, TabState
      <3> QED BY <1>6, <2>1, <3>1 DEF next_poll, getProcessedTransaction
    <2>2. CASE next_poll(t) /\ tab[t].polls # 0
      <3>1. tab[t].polls - 1 \in 0..Polls
        BY <1>1, <2>2, EditorAssumption DEF TabState
      <3>2. polled(t, more) /\ tab' = [tab EXCEPT ![t] = more]
        BY <1>1, <1>2, <2>2, <3>1 DEF next_poll, polled, TabState
      <3> QED BY <1>6, <2>2, <3>2 DEF next_poll, getProcessedTransaction
    <2>3. CASE tx[tab[t].draft] = "failed" /\ failed(t)
      <3>1. polled(t, lost) /\ tab' = [tab EXCEPT ![t] = lost]
        BY <1>1, <1>2, <1>z, <2>3 DEF failed, polled, TabState
      <3> QED BY <1>6, <2>3, <3>1 DEF failed, getProcessedTransaction
    <2> QED BY <1>6, <2>1, <2>2, <2>3 DEF getProcessedTransaction
  <1> QED BY <1>4, <1>5, <1>6 DEF wait_step

\* A write is accepted or rejected; a rejection only marks the transaction.
LEMMA WriteCases ==
    ASSUME NEW v \in Texts, set_record_lands(v)
    PROVE  /\ tx[v] = "sent"
           /\ UNCHANGED <<deleted, read, tab, batches>>
           /\ \/ /\ record' = new_record(the_name, record, v)
                 /\ version' = version + 1
                 /\ tx' = [tx EXCEPT ![v] = "applied"]
                 /\ revision_of(record) = revision_of(read[v].record)
              \/ /\ tx' = [tx EXCEPT ![v] = "failed"]
                 /\ UNCHANGED <<record, version>>
  BY DEF set_record_lands

\* A step of a page: its answer arrives, its save moves on, or it polls.
page_step(t) ==
    \/ loadNameProfile(t) \/ saveRow(t) \/ decline(t)
    \/ signAndSendInstruction(t) \/ send_answer_lost(t) \/ wait_step(t)

\* A step of the node, which leaves the pages alone.
node_step ==
    \/ delete_record_lands
    \/ \E v \in Texts : set_record_lands(v)
    \/ \E t \in Tabs : get_multiple_accounts(t)

\* What a page's step makes of the page's save: cur is the page afterwards.
loaded(t, cur) ==
    /\ cur.pc = tab[t].pc /\ cur.outcome = tab[t].outcome
    /\ cur.draft = tab[t].draft /\ cur.txid = tab[t].txid
    /\ read' = read /\ tx' = tx

saved(t, cur) ==
    /\ tab[t].pc = "idle"
    /\ cur.pc = "signing" /\ cur.outcome = "none" /\ cur.txid = FALSE
    /\ cur.draft \in Texts /\ tx[cur.draft] = "unsent"
    /\ \A u \in Tabs : tab[u].draft # cur.draft
    /\ read' = [read EXCEPT ![cur.draft] = cur.cache] /\ tx' = tx

declined(t, cur) ==
    /\ tab[t].pc = "signing"
    /\ cur.pc = "idle" /\ cur.txid = tab[t].txid /\ cur.outcome = "failed"
    /\ read' = [read EXCEPT ![tab[t].draft] = unwritten] /\ tx' = tx

dispatched(t, cur) ==
    /\ tab[t].pc = "signing"
    /\ cur.draft = tab[t].draft
    /\ \/ cur.pc = "probing" /\ cur.outcome = tab[t].outcome
       \/ cur.pc = "idle" /\ cur.txid = tab[t].txid /\ cur.outcome = "failed"
    /\ tx' = [tx EXCEPT ![tab[t].draft] = "sent"] /\ read' = read

waited(t, cur) ==
    /\ tab[t].pc \in {"probing", "lookup"}
    /\ polled(t, cur)
    /\ read' = read /\ tx' = tx

effect(t, cur) ==
    /\ cur \in TabState /\ past(cur.cache)
    /\ tab' = [tab EXCEPT ![t] = cur]
    /\ UNCHANGED <<record, version, deleted>>
    /\ batches' \subseteq batches
    /\ \/ loaded(t, cur) \/ saved(t, cur) \/ declined(t, cur)
       \/ dispatched(t, cur) \/ waited(t, cur)

LEMMA LoadStep ==
    ASSUME EditorInv, NEW t \in Tabs, loadNameProfile(t)
    PROVE  \E cur : effect(t, cur)
  <1>1. tab[t] \in TabState /\ tab \in [Tabs -> TabState]
    BY DEF EditorInv, EditorType
  <1>2. PICK b \in batches :
          /\ batches' = batches \ {b}
          /\ \E c \in {b.answer, tab[t].cache} : tab' = [tab EXCEPT ![t].cache = c]
    BY DEF loadNameProfile
  <1>a. PICK c \in {b.answer, tab[t].cache} : tab' = [tab EXCEPT ![t].cache = c]
    BY <1>2
  <1>3. c \in Snapshot /\ past(c)
    BY <1>1, <1>a DEF EditorInv, EditorType, History, BatchAnswer, TabState
  <1> DEFINE cur == [tab[t] EXCEPT !.cache = c]
  <1>4. /\ cur \in TabState /\ cur.cache = c
        /\ cur.pc = tab[t].pc /\ cur.outcome = tab[t].outcome
        /\ cur.draft = tab[t].draft /\ cur.txid = tab[t].txid
        /\ tab' = [tab EXCEPT ![t] = cur]
    BY <1>1, <1>a, <1>3 DEF TabState
  <1>5. UNCHANGED <<chain, read>>
    BY DEF loadNameProfile
  <1> HIDE DEF cur
  <1> QED BY <1>2, <1>3, <1>4, <1>5 DEF effect, loaded, chain

LEMMA SaveStep ==
    ASSUME EditorInv, NEW t \in Tabs, saveRow(t)
    PROVE  \E cur : effect(t, cur)
  <1>1. tab[t] \in TabState /\ tab \in [Tabs -> TabState]
    BY DEF EditorInv, EditorType
  <1> DEFINE value == CHOOSE v \in unused : TRUE
  <1>2. PICK seen \in readAccountInfo(t) :
          /\ read' = [read EXCEPT ![value] = seen]
          /\ tab' = [tab EXCEPT ![t].pc = "signing", ![t].draft = value,
                                ![t].cache = seen, ![t].txid = FALSE,
                                ![t].outcome = "none"]
    BY DEF saveRow
  <1>3. value \in Texts /\ tx[value] = "unsent" /\ \A u \in Tabs : tab[u].draft # value
    BY UnusedPick DEF saveRow
  <1>4. seen \in Snapshot /\ past(seen)
    BY ReadsArePast
  <1> HIDE DEF value
  <1> DEFINE cur == [tab[t] EXCEPT !.pc = "signing", !.draft = value,
                                   !.cache = seen, !.txid = FALSE, !.outcome = "none"]
  <1>5. /\ cur \in TabState /\ cur.cache = seen /\ cur.pc = "signing"
        /\ cur.draft = value /\ cur.txid = FALSE /\ cur.outcome = "none"
    BY <1>1, <1>3, <1>4 DEF TabState
  <1>6. tab' = [tab EXCEPT ![t] = cur]
    BY <1>1, <1>2
  <1>7. tab[t].pc = "idle" /\ UNCHANGED <<chain, batches>>
    BY DEF saveRow
  <1> HIDE DEF cur
  <1> QED BY <1>2, <1>3, <1>4, <1>5, <1>6, <1>7 DEF effect, saved, chain

LEMMA DeclineStep ==
    ASSUME EditorInv, NEW t \in Tabs, decline(t)
    PROVE  \E cur : effect(t, cur)
  <1>1. tab[t] \in TabState /\ tab \in [Tabs -> TabState] /\ past(tab[t].cache)
    BY DEF EditorInv, EditorType, History
  <1> DEFINE cur == [tab[t] EXCEPT !.pc = "idle", !.draft = None, !.outcome = "failed"]
  <1>2. /\ cur \in TabState /\ cur.cache = tab[t].cache /\ cur.pc = "idle"
        /\ cur.txid = tab[t].txid /\ cur.outcome = "failed"
        /\ tab' = [tab EXCEPT ![t] = cur]
    BY <1>1 DEF decline, TabState
  <1>3. /\ tab[t].pc = "signing" /\ UNCHANGED <<chain, batches>>
        /\ read' = [read EXCEPT ![tab[t].draft] = unwritten]
    BY DEF decline, unwritten
  <1> HIDE DEF cur
  <1> QED BY <1>1, <1>2, <1>3 DEF effect, declined, chain

LEMMA SendStep ==
    ASSUME EditorInv, NEW t \in Tabs, signAndSendInstruction(t) \/ send_answer_lost(t)
    PROVE  \E cur : effect(t, cur)
  <1>1. tab[t] \in TabState /\ tab \in [Tabs -> TabState] /\ past(tab[t].cache)
    BY DEF EditorInv, EditorType, History
  <1>2. Polls \in 0..Polls
    BY EditorAssumption
  <1> DEFINE on  == [tab[t] EXCEPT !.pc = "probing", !.polls = Polls, !.txid = TRUE]
             off == [tab[t] EXCEPT !.pc = "idle", !.outcome = "failed"]
  <1>3. /\ on \in TabState /\ on.cache = tab[t].cache /\ on.pc = "probing"
        /\ on.outcome = tab[t].outcome /\ on.draft = tab[t].draft
    BY <1>1, <1>2 DEF TabState
  <1>4. /\ off \in TabState /\ off.cache = tab[t].cache /\ off.pc = "idle"
        /\ off.outcome = "failed" /\ off.draft = tab[t].draft /\ off.txid = tab[t].txid
    BY <1>1 DEF TabState
  <1>5. /\ tab[t].pc = "signing" /\ tx' = [tx EXCEPT ![tab[t].draft] = "sent"]
        /\ UNCHANGED <<record, version, deleted, read, batches>>
    BY DEF signAndSendInstruction, send_answer_lost
  <1>6. CASE signAndSendInstruction(t)
    <2>1. tab' = [tab EXCEPT ![t] = on]
      BY <1>1, <1>6 DEF signAndSendInstruction
    <2> HIDE DEF on
    <2> QED BY <1>1, <1>3, <1>5, <2>1 DEF effect, dispatched
  <1>7. CASE send_answer_lost(t)
    <2>1. tab' = [tab EXCEPT ![t] = off]
      BY <1>1, <1>7 DEF send_answer_lost
    <2> HIDE DEF off
    <2> QED BY <1>1, <1>4, <1>5, <2>1 DEF effect, dispatched
  <1> QED BY <1>6, <1>7

\* Every step of a page has one of these effects.
LEMMA PageStep ==
    ASSUME EditorInv, NEW t \in Tabs, page_step(t)
    PROVE  \E cur : effect(t, cur)
  <1>1. CASE wait_step(t)
    <2>1. PICK cur : polled(t, cur) /\ tab' = [tab EXCEPT ![t] = cur]
      BY <1>1, WaitStep
    <2>2. past(cur.cache) /\ cur \in TabState
      BY <2>1, ReadsArePast DEF polled
    <2>3. UNCHANGED <<chain, read, batches>> /\ tab[t].pc \in {"probing", "lookup"}
      BY <1>1, WaitStep
    <2> QED BY <2>1, <2>2, <2>3 DEF effect, waited, chain
  <1> QED BY <1>1, LoadStep, SaveStep, DeclineStep, SendStep DEF page_step

\* A node's step leaves pages and reads alone, and a settled save stays so.
LEMMA NodeStep ==
    ASSUME EditorInv, node_step \/ UNCHANGED editor
    PROVE  /\ UNCHANGED <<read, tab>>
           /\ \A v \in Texts : /\ tx[v] = "failed" => tx'[v] = "failed"
                               /\ tx'[v] = "unsent" <=> tx[v] = "unsent"
  <1>0. EditorType
    BY DEF EditorInv
  <1>1. CASE delete_record_lands
    BY <1>0, <1>1 DEF delete_record_lands, EditorType
  <1>2. ASSUME NEW v \in Texts, set_record_lands(v)
        PROVE  /\ UNCHANGED <<read, tab>>
               /\ \A w \in Texts : /\ tx[w] = "failed" => tx'[w] = "failed"
                                   /\ tx'[w] = "unsent" <=> tx[w] = "unsent"
    <2>1. \A w \in Texts : w # v => tx'[w] = tx[w]
      BY <1>0, <1>2, WriteCases DEF EditorType
    <2>2. tx'[v] \in {"applied", "failed"} /\ tx[v] = "sent"
      BY <1>0, <1>2, WriteCases DEF EditorType
    <2> QED BY <1>2, <2>1, <2>2, WriteCases
  <1>3. CASE (\E t \in Tabs : get_multiple_accounts(t)) \/ UNCHANGED editor
    BY <1>0, <1>3 DEF get_multiple_accounts, chain, editor, EditorType
  <1> QED BY <1>1, <1>2, <1>3 DEF node_step

LEMMA EditorSteps ==
    [EditorNext]_editor <=>
        node_step \/ (\E t \in Tabs : page_step(t)) \/ UNCHANGED editor
  BY DEF EditorNext, node_step, page_step

-----------------------------------------------------------------------------
(* The invariant is inductive                                              *)

\* Every step keeps the types.
LEMMA EditorTypeStep == EditorInv /\ [EditorNext]_editor => EditorType'
  <1> SUFFICES ASSUME EditorInv, [EditorNext]_editor PROVE EditorType'
    OBVIOUS
  <1>0. EditorType /\ Drafts
    BY DEF EditorInv
  <1>1. CASE delete_record_lands
    BY <1>0, <1>1 DEF delete_record_lands, RecordOrNone, EditorType
  <1>2. ASSUME NEW v \in Texts, set_record_lands(v) PROVE EditorType'
    <2>1. new_record(the_name, record, v) \in RecordOrNone
      BY <1>0, Written DEF RecordOrNone, EditorType
    <2> QED BY <1>0, <1>2, <2>1, WriteCases DEF Statuses, EditorType
  <1>3. ASSUME NEW t \in Tabs, get_multiple_accounts(t) PROVE EditorType'
    <2>1. [tab |-> t, answer |-> now] \in BatchAnswer
      BY <1>0, NowIsPast DEF BatchAnswer
    <2> QED BY <1>0, <1>3, <2>1 DEF get_multiple_accounts, chain, EditorType
  <1>4. ASSUME NEW t \in Tabs, page_step(t) PROVE EditorType'
    <2>1. PICK cur : effect(t, cur)
      BY <1>4, PageStep
    <2>2. tab' \in [Tabs -> TabState] /\ batches' \subseteq BatchAnswer
      BY <1>0, <2>1 DEF effect, EditorType
    <2>3. UNCHANGED <<record, version, deleted>>
      BY <2>1 DEF effect
    <2>4. unwritten \in Snapshot /\ cur.cache \in Snapshot
      BY <2>1 DEF effect, unwritten, Snapshot, TabState
    <2>5. read' \in [Texts -> Snapshot] /\ tx' \in [Texts -> Statuses]
      BY <1>0, <2>1, <2>4 DEF effect, loaded, saved, declined, dispatched, waited,
                              EditorType, Statuses
    <2> QED BY <1>0, <2>2, <2>3, <2>5 DEF EditorType
  <1>5. CASE UNCHANGED editor
    BY <1>0, <1>5 DEF editor, EditorType
  <1> QED BY <1>1, <1>2, <1>3, <1>4, <1>5, EditorSteps DEF node_step

\* Every step keeps the snapshots in the past.
LEMMA HistoryStep == EditorInv /\ [EditorNext]_editor => History'
  <1> SUFFICES ASSUME EditorInv, [EditorNext]_editor PROVE History'
    OBVIOUS
  <1>0. EditorType /\ History
    BY DEF EditorInv
  <1>a. /\ unwritten \in Snapshot /\ past(unwritten)
        /\ \A v \in Texts : read[v] \in Snapshot /\ past(read[v])
        /\ \A t \in Tabs : tab[t].cache \in Snapshot /\ past(tab[t].cache)
        /\ \A b \in batches : b.answer \in Snapshot /\ past(b.answer)
    BY <1>0 DEF EditorType, History, TabState, BatchAnswer, unwritten, Snapshot
  <1>b. version \in Nat /\ deleted \in Nat /\ deleted <= version
    BY <1>0 DEF EditorType, History
  <1>c. ASSUME \A s \in Snapshot : past(s) => past(s)', UNCHANGED <<read, tab, batches>>,
               deleted' <= version'
        PROVE  History'
    BY <1>a, <1>c DEF History, unwritten
  <1>1. CASE delete_record_lands
    BY <1>0, <1>1, <1>b, <1>c, PastThroughDeletion DEF delete_record_lands
  <1>2. ASSUME NEW v \in Texts, set_record_lands(v) PROVE History'
    <2>1. CASE UNCHANGED <<record, version>>
      BY <1>2, <1>b, <1>c, <2>1, PastThroughOthers, WriteCases
    <2>2. CASE record' = new_record(the_name, record, v) /\ version' = version + 1
      BY <1>0, <1>2, <1>b, <1>c, <2>2, PastThroughWrite, WriteCases
    <2> QED BY <1>2, <2>1, <2>2, WriteCases
  <1>3. ASSUME NEW t \in Tabs, get_multiple_accounts(t) PROVE History'
    <2>1. past(now)
      BY <1>0, NowIsPast
    <2>2. \A b \in batches' : past(b.answer)
      BY <1>3, <1>a, <2>1 DEF get_multiple_accounts
    <2> QED BY <1>3, <1>a, <1>b, <2>2 DEF get_multiple_accounts, chain, History, past, unwritten
  <1>4. ASSUME NEW t \in Tabs, page_step(t) PROVE History'
    <2>1. PICK cur : effect(t, cur)
      BY <1>4, PageStep
    <2>2. UNCHANGED <<record, version, deleted>>
      BY <2>1 DEF effect
    <2>3. \A u \in Tabs : past(tab'[u].cache)
      BY <1>0, <1>a, <2>1 DEF effect, EditorType
    <2>4. \A v \in Texts : past(read'[v])
      BY <1>0, <1>a, <2>1 DEF effect, loaded, saved, declined, dispatched, waited, EditorType
    <2>5. \A b \in batches' : past(b.answer)
      BY <1>a, <2>1 DEF effect
    <2> QED BY <1>a, <1>b, <2>2, <2>3, <2>4, <2>5 DEF History, past, unwritten
  <1>5. CASE UNCHANGED editor
    BY <1>5, <1>b, <1>c, PastThroughOthers DEF editor
  <1> QED BY <1>1, <1>2, <1>3, <1>4, <1>5, EditorSteps DEF node_step

\* Two saves never share a value: a page takes an unused one, and a value is
\* unsent exactly while its page waits for the wallet.
LEMMA DraftsStep == EditorInv /\ [EditorNext]_editor => Drafts'
  <1> SUFFICES ASSUME EditorInv, [EditorNext]_editor PROVE Drafts'
    OBVIOUS
  <1>0. EditorType /\ Drafts
    BY DEF EditorInv
  <1>1. CASE node_step \/ UNCHANGED editor
    BY <1>0, <1>1, NodeStep DEF Drafts, saving
  <1>2. ASSUME NEW t \in Tabs, page_step(t) PROVE Drafts'
    <2>1. PICK cur : effect(t, cur)
      BY <1>2, PageStep
    <2>2. tab'[t] = cur /\ \A u \in Tabs : u # t => tab'[u] = tab[u]
      BY <1>0, <2>1 DEF effect, EditorType
    <2>3. CASE loaded(t, cur)
      <3>1. tx' = tx /\ \A u \in Tabs : /\ tab'[u].pc = tab[u].pc /\ tab'[u].outcome = tab[u].outcome
                                        /\ tab'[u].draft = tab[u].draft /\ tab'[u].txid = tab[u].txid
        BY <2>2, <2>3 DEF loaded
      <3> QED BY <1>0, <3>1 DEF Drafts, saving
    <2>4. CASE saved(t, cur)
      BY <1>0, <2>2, <2>4 DEF Drafts, saving, saved
    <2>5. CASE declined(t, cur)
      BY <1>0, <2>2, <2>5 DEF Drafts, saving, declined
    <2>6. CASE dispatched(t, cur)
      <3>1. saving(t) /\ tab[t].draft \in Texts
        BY <1>0, <2>6 DEF Drafts, saving, dispatched
      <3>2. /\ tx'[tab[t].draft] = "sent"
            /\ \A v \in Texts : v # tab[t].draft => tx'[v] = tx[v]
        BY <1>0, <2>6, <3>1 DEF EditorType, dispatched
      <3> QED BY <1>0, <2>2, <2>6, <3>1, <3>2 DEF Drafts, saving, dispatched
    <2>7. CASE waited(t, cur)
      BY <1>0, <2>2, <2>7 DEF Drafts, saving, waited, polled
    <2> QED BY <2>1, <2>3, <2>4, <2>5, <2>6, <2>7 DEF effect
  <1> QED BY <1>1, <1>2, EditorSteps

\* A page that knows its transaction says "failed" when it looked the failure
\* up, and a failure is final.
LEMMA FailureStep == EditorInv /\ [EditorNext]_editor => FailureIsDefinite'
  <1> SUFFICES ASSUME EditorInv, [EditorNext]_editor PROVE FailureIsDefinite'
    OBVIOUS
  <1>0. EditorType /\ Drafts /\ FailureIsDefinite
    BY DEF EditorInv
  <1>1. CASE node_step \/ UNCHANGED editor
    BY <1>0, <1>1, NodeStep DEF FailureIsDefinite, Drafts, saving
  <1>2. ASSUME NEW t \in Tabs, page_step(t) PROVE FailureIsDefinite'
    <2>1. PICK cur : effect(t, cur)
      BY <1>2, PageStep
    <2>2. tab'[t] = cur /\ \A u \in Tabs : u # t => tab'[u] = tab[u]
      BY <1>0, <2>1 DEF effect, EditorType
    <2>3. ASSUME NEW u \in Tabs, u # t, tab'[u].outcome = "failed", tab'[u].txid
          PROVE  tx'[tab'[u].draft] = "failed"
      <3>1. tab'[u] = tab[u] /\ saving(u) /\ tab[u].draft \in Texts
        BY <1>0, <2>2, <2>3 DEF Drafts, saving
      <3>2. tx[tab[u].draft] = "failed"
        BY <1>0, <2>3, <3>1 DEF FailureIsDefinite
      <3>3. CASE dispatched(t, cur)
        <4>1. tab[t].draft \in Texts /\ tab[t].draft # tab[u].draft
          BY <1>0, <2>3, <3>1, <3>3 DEF Drafts, saving, dispatched
        <4> QED BY <1>0, <3>1, <3>2, <3>3, <4>1 DEF dispatched, EditorType
      <3>4. CASE ~dispatched(t, cur)
        BY <2>1, <3>1, <3>2, <3>4 DEF effect, loaded, saved, declined, waited
      <3> QED BY <3>3, <3>4
    <2>4. ASSUME tab'[t].outcome = "failed", tab'[t].txid
          PROVE  tx'[tab'[t].draft] = "failed"
      <3>1. CASE loaded(t, cur)
        BY <1>0, <2>2, <2>4, <3>1 DEF FailureIsDefinite, loaded
      <3>2. CASE saved(t, cur)
        BY <2>2, <2>4, <3>2 DEF saved
      <3>3. CASE declined(t, cur) \/ dispatched(t, cur)
        BY <1>0, <2>2, <2>4, <3>3 DEF declined, dispatched, Drafts, saving
      <3>4. CASE waited(t, cur)
        BY <1>0, <2>2, <2>4, <3>4 DEF waited, polled, Drafts, saving
      <3> QED BY <2>1, <3>1, <3>2, <3>3, <3>4 DEF effect
    <2> QED BY <2>3, <2>4 DEF FailureIsDefinite
  <1> QED BY <1>1, <1>2, EditorSteps

\* The slot holds nothing or what it held before, no save is under way and the
\* pages are idle.
LEMMA EditorStarts == EditorInit => EditorInv
  <1> SUFFICES ASSUME EditorInit PROVE EditorInv
    OBVIOUS
  <1>1. former \in Texts
    BY EditorAssumption DEF former
  <1>2. /\ record \in RecordOrNone /\ version \in Nat /\ deleted = 0
        /\ version = 0 => record = None
        /\ version = 1 => revision_of(record) = 1
        /\ version \in {0, 1}
    <2>1. CASE record = None /\ version = 0
      BY <2>1 DEF EditorInit, RecordOrNone
    <2>2. CASE record = new_record(the_name, None, former) /\ version = 1
      <3>1. record \in RecordAccount
        BY <1>1, <2>2, Written DEF RecordOrNone
      <3>2. record.revision = 1
        BY <2>2 DEF new_record
      <3> QED BY <2>2, <3>1, <3>2, NoneAssumption DEF EditorInit, RecordOrNone, revision_of
    <2> QED BY <2>1, <2>2 DEF EditorInit
  <1>3. past(unwritten)
    BY <1>2 DEF past, unwritten, revision_of
  <1>4. now \in Snapshot /\ past(now)
    BY <1>2 DEF now, past, Snapshot, RecordOrNone
  <1>5. \A t \in Tabs : /\ tab[t] \in TabState /\ tab[t].pc = "idle" /\ tab[t].txid = FALSE
                        /\ tab[t].outcome = "none" /\ tab[t].cache = now
    BY <1>4, EditorAssumption DEF EditorInit, TabState
  <1>6. tab \in [Tabs -> TabState]
    BY <1>5 DEF EditorInit
  <1>7. read \in [Texts -> Snapshot] /\ \A v \in Texts : read[v] = now
    BY <1>4 DEF EditorInit
  <1>8. EditorType
    <2>1. tx \in [Texts -> Statuses]
      BY DEF EditorInit, Statuses
    <2>2. batches \subseteq BatchAnswer
      BY DEF EditorInit
    <2> QED BY <1>2, <1>6, <1>7, <2>1, <2>2 DEF EditorType
  <1>9. History
    BY <1>2, <1>3, <1>4, <1>5, <1>7 DEF EditorInit, History
  <1>10. Drafts /\ FailureIsDefinite
    BY <1>5 DEF Drafts, saving, FailureIsDefinite
  <1> QED BY <1>8, <1>9, <1>10 DEF EditorInv

-----------------------------------------------------------------------------
(* Theorems                                                                *)

\* The invariant behind the promises below holds in every state: every answer
\* a page or a builder holds, and every batch answer still under way, is a
\* state of the record's past, though not in the order they were served; no two
\* pages own the same save.
THEOREM EditorInvariant == EditorSpec => []EditorInv
  <1>1. EditorInv /\ [EditorNext]_editor => EditorInv'
    BY EditorTypeStep, HistoryStep, DraftsStep, FailureStep DEF EditorInv
  <1> QED BY <1>1, EditorStarts, PTL DEF EditorSpec

\* A save whose transaction the node has named is reported as failed only when
\* the chain rejected it, for any number of pages, saves and polls.
THEOREM FailureIsDefiniteAlways == EditorSpec => []FailureIsDefinite
  <1>1. EditorInv => FailureIsDefinite
    BY DEF EditorInv
  <1> QED BY <1>1, EditorInvariant, PTL

\* A save is reported as confirmed when it landed or the record changed since
\* the builder read it, or on the strength of an answer from before a deletion
\* the builder had seen.
THEOREM ConfirmedOrOvertakenAlways == EditorSpec => ConfirmedOrOvertaken
  <1>1. EditorInv /\ [EditorNext]_editor => confirmed_or_overtaken
    <2> SUFFICES ASSUME EditorInv, [EditorNext]_editor, NEW t \in Tabs, confirms(t)
                 PROVE  \/ version > read[tab[t].draft].version
                        \/ /\ tab'[t].cache.version < deleted
                           /\ deleted <= read[tab[t].draft].version
      BY DEF confirmed_or_overtaken
    <2>0. EditorType /\ History /\ Drafts
      BY DEF EditorInv
    <2> DEFINE r    == read[tab[t].draft]
               seen == tab'[t].cache
    <2>1. /\ tab[t].pc # "idle" /\ seen \in Snapshot /\ past(seen)
          /\ recordRevisionPast(seen.record, r.record)
      <3>1. CASE node_step \/ UNCHANGED editor
        BY <3>1, NodeStep DEF confirms
      <3>2. ASSUME NEW u \in Tabs, page_step(u)
            PROVE  /\ tab[t].pc # "idle" /\ seen \in Snapshot /\ past(seen)
                   /\ recordRevisionPast(seen.record, r.record)
        <4>1. PICK cur : effect(u, cur)
          BY <3>2, PageStep
        <4>2. u = t /\ tab'[t] = cur
          BY <2>0, <4>1 DEF effect, EditorType, confirms
        <4>3. waited(t, cur)
          BY <4>1, <4>2 DEF effect, confirms, loaded, saved, declined, dispatched,
                            EditorInv, Drafts, saving
        <4>4. tab[t].outcome = "none"
          BY <2>0, <4>3 DEF waited, Drafts, saving
        <4>5. cur.cache \in Snapshot /\ past(cur.cache)
          BY <4>1 DEF effect, TabState
        <4> QED BY <4>2, <4>3, <4>4, <4>5 DEF waited, polled, confirms
      <3> QED BY <3>1, <3>2, EditorSteps
    <2>2. tab[t].draft \in Texts
      BY <2>0, <2>1 DEF Drafts, saving
    <2>3. r \in Snapshot /\ past(r)
      BY <2>0, <2>2 DEF EditorType, History
    <2> HIDE DEF r, seen
    <2>4. revision_of(seen.record) > revision_of(r.record)
      BY <2>1 DEF recordRevisionPast, revision_of
    <2>5. revision_of(r.record) \in U64 /\ revision_of(seen.record) \in U64
      BY <2>1, <2>3, RevisionType DEF Snapshot, RecordOrNone
    <2>6. /\ version \in Nat /\ deleted \in Nat /\ deleted <= version
          /\ r.version \in Nat /\ seen.version \in Nat
      BY <2>0, <2>1, <2>3 DEF EditorType, History, Snapshot
    <2>7. CASE r.version = version
      <3>1. r.record = record
        BY <2>3, <2>7 DEF past
      <3>2. seen.version # version
        BY <2>1, <2>4, <2>5, <3>1, CountersAssumption DEF past, U64
      <3>3. ~(deleted <= seen.version)
        BY <2>1, <2>4, <2>5, <2>6, <3>1, <3>2, CountersAssumption DEF past, U64
      <3> QED BY <2>6, <2>7, <3>3 DEF r, seen
    <2>8. CASE r.version # version
      BY <2>3, <2>6, <2>8 DEF past, r
    <2> QED BY <2>7, <2>8
  <1> QED BY <1>1, EditorInvariant, PTL DEF ConfirmedOrOvertaken, EditorSpec

\* The compare-and-set across pages: below the counter's limit an accepted
\* write replaces the very record its builder read, unless a deletion came in
\* between.
THEOREM WritesReplaceWhatWasRead == EditorSpec => WriteReplacesWhatWasRead
  <1>1. EditorInv /\ [EditorNext]_editor => write_replaces_read
    <2> SUFFICES ASSUME EditorInv, [EditorNext]_editor, NEW v \in Texts, accepted(v),
                        revision_of(record) < MaxU64, ~(deleted > read[v].version)
                 PROVE  record = read[v].record
      BY DEF write_replaces_read
    <2>1. read[v] \in Snapshot /\ past(read[v])
      BY DEF EditorInv, EditorType, History
    <2>2. revision_of(record) = revision_of(read[v].record)
      <3>1. tx \in [Texts -> Statuses] /\ tx[v] = "sent" /\ tx'[v] = "applied"
        BY DEF EditorInv, EditorType, accepted
      <3>2. CASE \E w \in Texts : set_record_lands(w)
        <4>1. PICK w \in Texts : set_record_lands(w)
          BY <3>2
        <4>2. CASE w = v
          BY <3>1, <4>1, <4>2, WriteCases
        <4>3. CASE w # v
          BY <3>1, <4>1, <4>3, WriteCases
        <4> QED BY <4>2, <4>3
      <3>3. CASE delete_record_lands \/ (\E t \in Tabs : get_multiple_accounts(t))
                   \/ UNCHANGED editor
        BY <3>1, <3>3 DEF delete_record_lands, get_multiple_accounts, chain, editor
      <3>4. ASSUME NEW t \in Tabs, page_step(t) PROVE FALSE
        <4>1. PICK cur : effect(t, cur)
          BY <3>4, PageStep
        <4> QED BY <3>1, <4>1 DEF effect, loaded, saved, declined, dispatched, waited
      <3> QED BY <3>2, <3>3, <3>4, EditorSteps DEF node_step
    <2>3. revision_of(record) \in Nat /\ MaxU64 \in Nat
      BY RevisionType, CountersAssumption DEF EditorInv, EditorType, U64
    <2>4. /\ version \in Nat /\ read[v].version \in Nat
          /\ deleted <= read[v].version
      BY <2>1 DEF EditorInv, EditorType, Snapshot
    <2>5. read[v].version = version
      BY <2>1, <2>2, <2>3, <2>4 DEF past
    <2> QED BY <2>1, <2>5 DEF past
  <1> QED BY <1>1, EditorInvariant, PTL DEF WriteReplacesWhatWasRead, EditorSpec
=============================================================================
