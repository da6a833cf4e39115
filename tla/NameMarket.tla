----------------------------- MODULE NameMarket -----------------------------
(***************************************************************************)
(* What the registry promises about ownership and trade, without accounts, *)
(* lamports, epochs or signatures: who owns a name, what its owner asks    *)
(* for it, and what others bid.  An ask carries no seller, because it is   *)
(* always the present owner's; a bid outlives changes of owner.            *)
(***************************************************************************)
CONSTANTS Users, Names, Quotes, None

VARIABLES
    owner,  \* owner[n]: the owner of n, or None
    ask,    \* ask[n]: the quote n is on sale for, or None
    bid     \* bid[n][b]: the quote b bids for n, or None

vars == <<owner, ask, bid>>

Init ==
    /\ owner = [n \in Names |-> None]
    /\ ask = [n \in Names |-> None]
    /\ bid = [n \in Names |-> [b \in Users |-> None]]

Register(n, u) ==
    /\ owner[n] = None
    /\ owner' = [owner EXCEPT ![n] = u]
    /\ UNCHANGED <<ask, bid>>

\* A name on sale cannot be given away.
Give(n, u) ==
    /\ owner[n] # None
    /\ ask[n] = None
    /\ owner' = [owner EXCEPT ![n] = u]
    /\ UNCHANGED <<ask, bid>>

Ask(n, q) ==
    /\ owner[n] # None
    /\ ask[n] = None
    /\ ask' = [ask EXCEPT ![n] = q]
    /\ UNCHANGED <<owner, bid>>

Withdraw(n) ==
    /\ ask[n] # None
    /\ ask' = [ask EXCEPT ![n] = None]
    /\ UNCHANGED <<owner, bid>>

Sell(n, u) ==
    /\ ask[n] # None
    /\ owner[n] # u
    /\ owner' = [owner EXCEPT ![n] = u]
    /\ ask' = [ask EXCEPT ![n] = None]
    /\ UNCHANGED bid

Bid(n, u, q) ==
    /\ owner[n] \notin {None, u}
    /\ bid[n][u] = None
    /\ bid' = [bid EXCEPT ![n][u] = q]
    /\ UNCHANGED <<owner, ask>>

Retract(n, u) ==
    /\ bid[n][u] # None
    /\ bid' = [bid EXCEPT ![n][u] = None]
    /\ UNCHANGED <<owner, ask>>

Accept(n, u) ==
    /\ owner[n] # None
    /\ bid[n][u] # None
    /\ owner' = [owner EXCEPT ![n] = u]
    /\ ask' = [ask EXCEPT ![n] = None]
    /\ bid' = [bid EXCEPT ![n][u] = None]

Next ==
    \E n \in Names :
        \/ Withdraw(n)
        \/ \E q \in Quotes : Ask(n, q)
        \/ \E u \in Users :
             \/ Register(n, u) \/ Give(n, u) \/ Sell(n, u)
             \/ Retract(n, u) \/ Accept(n, u)
             \/ \E q \in Quotes : Bid(n, u, q)

Spec == Init /\ [][Next]_vars
=============================================================================
