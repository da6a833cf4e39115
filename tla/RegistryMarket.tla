--------------------------- MODULE RegistryMarket ---------------------------
(***************************************************************************)
(* The registry program seen as a market for names: a listing or an offer  *)
(* counts while its account is active, whoever its seller field names.     *)
(***************************************************************************)
EXTENDS AnsRegistry, FiniteSets, Functions

\* The chain holds finitely many accounts.
ASSUME AccountsAssumption == IsFiniteSet(Accounts) /\ IsFiniteSet(Users)

quote_of(account) ==
    IF is_active(account)
    THEN [currency |-> account.currency, price |-> account.price] ELSE None

owner_of(account) == IF account = None THEN None ELSE account.owner

Market == INSTANCE NameMarket WITH
    Quotes <- [currency : QuoteCurrency, price : Prices \ {0}],
    owner  <- [n \in Names |-> owner_of(names[n])],
    ask    <- [n \in Names |-> quote_of(listings[n])],
    bid    <- [n \in Names |-> [b \in Users |-> quote_of(offers[n][b])]]

\* Every instruction of the program is a step of NameMarket or changes nothing
\* a market sees: asks belong to the present owner, a name on sale leaves its
\* owner only by a sale, and bids are consumed once.
ImplementsMarket == Market!Spec

\* transfer_lamports, fund_rent_exempt, create_pda and transfer_abtc: no
\* instruction creates or destroys lamports or aBTC units; every credit is
\* someone's debit in the same transaction.
totals_kept ==
    /\ SumFunction(lamports') = SumFunction(lamports)
    /\ SumFunction(tokens') = SumFunction(tokens)
Conservation == [][totals_kept]_vars
=============================================================================
