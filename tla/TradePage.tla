------------------------------ MODULE TradePage ------------------------------
(***************************************************************************)
(* The page of one name in the manager (ViewNameView): it loads the owner  *)
(* through the profile cache, the listing and the offers, and sends the    *)
(* viewer's trades.  Under it is the market the registry implements        *)
(* (NameMarket), on which others trade meanwhile; the wallet may change    *)
(* accounts at any moment.  A render and its effects are one step.         *)
(***************************************************************************)
EXTENDS Naturals, FiniteSets

CONSTANTS
    Users,        \* Arch accounts
    Name,         \* the name of the page
    Quotes,       \* records [currency, price], the quotes users type
    None,
    Waiting,      \* an answer that is not there yet
    MaxSteps,     \* bound: transactions that change the market
    MaxSwitches,  \* bound: changes of the wallet
    MaxTrades     \* bound: trades the viewer starts on the page

Currencies == {"Arch", "Btc"}

Viewers == Users \cup {None}

\* A profile as the page keeps it, an active listing or its absence, the offers
\* of all users, and a load with the answers it has so far.
Answer == [viewer : Viewers, owner : Viewers, fresh : BOOLEAN]
Listing == [quote : Quotes \cup {None}]
Offers == [Users -> Quotes \cup {None}]
Load == [viewer : Viewers, profile : Answer \cup {Waiting},
         listing : Listing \cup {Waiting}, offers : Offers \cup {Waiting}]

\* A trade: how far it is, what was clicked and seen, who signs it.
Kinds == {"BuyName", "MakeOffer", "CancelOffer", "AcceptOffer"}
Act == [step : {"refresh", "submit", "wait"}, kind : Kinds, quote : Quotes \cup {None},
        row : Viewers, seller : Viewers, actor : Viewers,
        result : {None, "landed", "rejected"}]

ASSUME TradeAssumption ==
    /\ Users # {}
    /\ None # Waiting
    /\ \A v \in {None, Waiting} :
         /\ v \notin Users /\ v \notin Quotes
         /\ v \notin Answer /\ v \notin Listing /\ v \notin Offers
         /\ v \notin Load /\ v \notin Act
    /\ Quotes \subseteq [currency : Currencies, price : Nat \ {0}]
    /\ MaxSteps \in Nat /\ MaxSwitches \in Nat /\ MaxTrades \in Nat

VARIABLES
    owner, ask, bid,  \* the market
    wallet,           \* the account the extension reports and signs with, or None
    cache,            \* cache[a]: the profile cached for viewer a, or None
    inflight,         \* the viewers whose profile is being requested
    page,             \* account, error, what is shown
    load,             \* the load effect under way, or None
    act,              \* the trade under way, or None
    mempool,          \* instructions sent that may still land
    steps, switches, trades,
    own               \* the page saw a trade of its own move the name

market == <<owner, ask, bid>>
vars == <<market, wallet, cache, inflight, page, load, act, mempool,
          steps, switches, trades, own>>

M == INSTANCE NameMarket WITH Names <- {Name}

-----------------------------------------------------------------------------
(* The instructions the client builds, and what the program makes of them. *)

buildRegister(u) == [kind |-> "Register", signer |-> u]
buildTransfer(u, v) == [kind |-> "Transfer", signer |-> u, to |-> v]
buildListName(u, q) == [kind |-> "ListName", signer |-> u, quote |-> q]
buildCancelListing(u) == [kind |-> "CancelListing", signer |-> u]
\* Token accounts passed whatever the price shown is in.
buildBuyName_with_tokens(u, seller, currency) ==
    [kind |-> "BuyName", signer |-> u, seller |-> seller, tokens |-> TRUE]
\* The token accounts of buyer and seller are passed for an aBTC price only;
\* the price itself is not part of the instruction.
buildBuyName(u, seller, currency) ==
    [kind |-> "BuyName", signer |-> u, seller |-> seller, tokens |-> currency = "Btc"]
buildMakeOffer(u, q) == [kind |-> "MakeOffer", signer |-> u, quote |-> q]
buildCancelOffer(u) == [kind |-> "CancelOffer", signer |-> u]
\* The page accepts ARCH offers only: the buyer does not sign.
buildAcceptOffer(u, buyer) == [kind |-> "AcceptOffer", signer |-> u, buyer |-> buyer]

executes(t) ==
    \/ t.kind = "Register" /\ M!Register(Name, t.signer)
    \/ t.kind = "Transfer" /\ owner[Name] = t.signer /\ M!Give(Name, t.to)
    \/ t.kind = "ListName" /\ owner[Name] = t.signer /\ M!Ask(Name, t.quote)
    \/ t.kind = "CancelListing" /\ owner[Name] = t.signer /\ M!Withdraw(Name)
    \/ /\ t.kind = "BuyName"
       /\ ask[Name] # None
       /\ owner[Name] = t.seller
       /\ ask[Name].currency = "Btc" => t.tokens
       /\ M!Sell(Name, t.signer)
    \/ t.kind = "MakeOffer" /\ M!Bid(Name, t.signer, t.quote)
    \/ t.kind = "CancelOffer" /\ M!Retract(Name, t.signer)
    \/ /\ t.kind = "AcceptOffer"
       /\ owner[Name] = t.signer
       /\ bid[Name][t.buyer] # None
       /\ bid[Name][t.buyer].currency = "Arch"
       /\ M!Accept(Name, t.buyer)

\* Everything another tab or another user may send.
Instructions ==
    {buildRegister(u) : u \in Users}
    \cup {buildTransfer(p[1], p[2]) : p \in {q \in Users \X Users : q[1] # q[2]}}
    \cup {buildListName(u, q) : u \in Users, q \in Quotes}
    \cup {buildCancelListing(u) : u \in Users}
    \cup {buildBuyName(u, v, c) : u \in Users, v \in Users, c \in Currencies}
    \cup {buildMakeOffer(u, q) : u \in Users, q \in Quotes}
    \cup {buildCancelOffer(u) : u \in Users}
    \cup {buildAcceptOffer(u, v) : u \in Users, v \in Users}

-----------------------------------------------------------------------------
(* The load effect: Promise.all of the profile, the listing and the offers *)

\* The profile comes from the cache, or joins or sends a request; the load
\* starts with the effect's resets and supersedes the last one.
load_effect(a) ==
    /\ load' = [viewer |-> a, profile |-> IF cache[a] = None THEN Waiting ELSE cache[a],
                listing |-> Waiting, offers |-> Waiting]
    /\ inflight' = IF cache[a] = None THEN inflight \cup {a} ELSE inflight

\* The answer for any viewer completes the profile of the present load.
delivered_to_any(a, answer) ==
    IF load # None /\ load.profile = Waiting
    THEN [load EXCEPT !.profile = answer] ELSE load

\* The present load waits for the profile of its own viewer.
delivered(a, answer) ==
    IF load # None /\ load.profile = Waiting /\ load.viewer = a
    THEN [load EXCEPT !.profile = answer] ELSE load

\* The answer is read when it arrives; answers that travel while the chain
\* moves on are ProfileCache's subject.
profile_answers(a) ==
    LET answer == [viewer |-> a, owner |-> owner[Name], fresh |-> TRUE]
    IN  /\ a \in inflight
        /\ cache' = [cache EXCEPT ![a] = answer]
        /\ inflight' = inflight \ {a}
        /\ load' = delivered(a, answer)
        /\ UNCHANGED <<market, wallet, page, act, mempool, steps, switches, trades, own>>

\* The time to live of a cached profile runs out.
expires(a) ==
    /\ cache[a] # None
    /\ cache' = [cache EXCEPT ![a] = None]
    /\ UNCHANGED <<market, wallet, inflight, page, load, act, mempool,
                   steps, switches, trades, own>>

\* A request fails, and with it the load that waits for it.
profile_fails(a) ==
    /\ a \in inflight
    /\ inflight' = inflight \ {a}
    /\ LET waits == load # None /\ load.profile = Waiting /\ load.viewer = a
       IN  /\ load' = IF waits THEN None ELSE load
           /\ page' = IF waits THEN [page EXCEPT !.error = "failed"] ELSE page
    /\ UNCHANGED <<market, wallet, cache, act, mempool, steps, switches, trades, own>>

\* The active listing, or a failed request and with it a failed load.
fetchListing ==
    /\ load # None /\ load.listing = Waiting
    /\ \/ /\ load' = [load EXCEPT !.listing = [quote |-> ask[Name]]]
          /\ UNCHANGED page
       \/ /\ load' = None
          /\ page' = [page EXCEPT !.error = "failed"]
    /\ UNCHANGED <<market, wallet, cache, inflight, act, mempool,
                   steps, switches, trades, own>>

\* The offers are scanned afresh; a failed scan counts as no offers.
listOffersForName ==
    /\ load # None /\ load.offers = Waiting
    /\ \E ok \in BOOLEAN :
         load' = [load EXCEPT !.offers =
                    IF ok THEN bid[Name] ELSE [u \in Users |-> None]]
    /\ UNCHANGED <<market, wallet, cache, inflight, page, act, mempool,
                   steps, switches, trades, own>>

\* All three are there: shown, or reported as not registered.
load_completes ==
    /\ load # None
    /\ Waiting \notin {load.profile, load.listing, load.offers}
    /\ page' = IF load.profile.owner = None THEN [page EXCEPT !.error = "not registered"]
               ELSE [page EXCEPT !.shown = load]
    /\ load' = None
    /\ UNCHANGED <<market, wallet, cache, inflight, act, mempool,
                   steps, switches, trades, own>>

\* The effects after a render with account a; resets included.
effects(a) ==
    /\ page' = [page EXCEPT !.account = a, !.error = "none", !.shown = None]
    /\ load_effect(a)

-----------------------------------------------------------------------------
(* The trades                                                              *)

ownedByViewer ==
    /\ page.shown # None
    /\ page.account # None
    /\ page.shown.profile.owner = page.account

\* What the page renders.
face ==
    CASE load # None -> "loading"
      [] load = None /\ page.error = "not registered" -> "available"
      [] load = None /\ page.error = "failed" -> "error"
      [] load = None /\ page.error = "none" /\ page.shown # None -> "name"
      [] OTHER -> "blank"

canBuy ==
    /\ page.shown.listing.quote # None
    /\ page.account # None
    /\ ~ownedByViewer

\* The buttons beside the price, in the offer form and in the rows of offers.
buy_offered == face = "name" /\ canBuy

offer_form == face = "name" /\ page.account # None /\ ~ownedByViewer

row_actions(buyer) ==
    IF face # "name" \/ page.shown.offers[buyer] = None THEN {}
    ELSE {x \in {"cancel", "accept"} :
            \/ x = "cancel" /\ buyer = page.account
            \/ x = "accept" /\ ownedByViewer /\ page.shown.offers[buyer].currency = "Arch"}

\* A button starts a trade unless another one is under way.
clicked(kind, quote, row) ==
    /\ act = None
    /\ trades < MaxTrades
    /\ trades' = trades + 1
    /\ act' = [step |-> "refresh", kind |-> kind, quote |-> quote, row |-> row,
               seller |-> page.shown.profile.owner, actor |-> None, result |-> None]
    /\ UNCHANGED <<market, wallet, cache, inflight, page, load, mempool,
                   steps, switches, own>>

onBuy ==
    /\ buy_offered
    /\ clicked("BuyName", page.shown.listing.quote, None)

\* The check of the amount against the balance is PageLoads' subject.
onMakeOffer(q) ==
    /\ offer_form
    /\ clicked("MakeOffer", q, None)

onCancelOffer ==
    /\ \E u \in Users : "cancel" \in row_actions(u)
    /\ clicked("CancelOffer", None, None)

onAcceptOffer(buyer) ==
    /\ "accept" \in row_actions(buyer)
    /\ clicked("AcceptOffer", None, buyer)

\* The probe of the wallet before the trade; the page learns its answer too.
withWalletActor ==
    /\ act # None /\ act.step = "refresh"
    /\ act' = IF wallet = None THEN None ELSE [act EXCEPT !.step = "submit", !.actor = wallet]
    /\ IF wallet = page.account THEN UNCHANGED <<page, load, inflight>>
       ELSE effects(wallet)
    /\ UNCHANGED <<market, wallet, cache, mempool, steps, switches, trades, own>>

\* The builders close over the account the probe found.
instruction ==
    CASE act.kind = "BuyName" -> buildBuyName(act.actor, act.seller, act.quote.currency)
      [] act.kind = "MakeOffer" -> buildMakeOffer(act.actor, act.quote)
      [] act.kind = "CancelOffer" -> buildCancelOffer(act.actor)
      [] act.kind = "AcceptOffer" -> buildAcceptOffer(act.actor, act.row)

\* submitWithWindowArch up to the node's answer: refused, or accepted when the
\* wallet still signs as the account the instruction was built for.
submitWithWindowArch ==
    /\ act # None /\ act.step = "submit"
    /\ \/ /\ wallet = act.actor
          /\ mempool' = mempool \cup {[id |-> trades, ix |-> instruction, seen |-> act]}
          /\ act' = [act EXCEPT !.step = "wait"]
       \/ /\ act' = None
          /\ UNCHANGED mempool
    /\ UNCHANGED <<market, wallet, cache, inflight, page, load, steps, switches,
                   trades, own>>

\* nameOwnedBy: the mutation's own effect; offers are confirmed by receipt only.
confirmEffect ==
    \/ act.kind = "BuyName" /\ owner[Name] = act.actor
    \/ act.kind = "AcceptOffer" /\ owner[Name] = act.row

changes_owner(kind) == kind \in {"BuyName", "AcceptOffer"}

\* The wait ends: confirmed, still pending, or failed.  The first two reload.
trade_settles ==
    /\ act # None /\ act.step = "wait"
    /\ act' = None
    /\ \/ /\ effects(page.account)
          /\ own' = (own \/ (act.result = "landed" /\ changes_owner(act.kind)))
       \/ /\ act.result = "rejected" /\ ~confirmEffect
          /\ UNCHANGED <<page, load, inflight, own>>
    /\ UNCHANGED <<market, wallet, cache, mempool, steps, switches, trades>>

-----------------------------------------------------------------------------
(* The surroundings                                                        *)

noted(t, result) ==
    act' = IF act # None /\ act.step = "wait" /\ t.id = trades
           THEN [act EXCEPT !.result = result] ELSE act

\* Once a trade of the page moved the name, profiles read before are old.
aged(profile) ==
    IF profile \in {None, Waiting} THEN profile ELSE [profile EXCEPT !.fresh = FALSE]

all_age ==
    /\ cache' = [v \in Viewers |-> aged(cache[v])]
    /\ load' = IF load = None THEN load ELSE [load EXCEPT !.profile = aged(@)]
    /\ page' = IF page.shown = None THEN page
               ELSE [page EXCEPT !.shown.profile = aged(@)]

transaction_lands(t) ==
    /\ steps < MaxSteps
    /\ executes(t.ix)
    /\ steps' = steps + 1
    /\ mempool' = mempool \ {t}
    /\ noted(t, "landed")
    /\ IF changes_owner(t.ix.kind) THEN all_age ELSE UNCHANGED <<cache, load, page>>
    /\ UNCHANGED <<wallet, inflight, switches, trades, own>>

\* Rejected by the program or the runtime, or never included.
transaction_fails(t) ==
    /\ mempool' = mempool \ {t}
    /\ noted(t, "rejected")
    /\ UNCHANGED <<market, wallet, cache, inflight, page, load, steps, switches,
                   trades, own>>

\* Another tab or another user trades.
elsewhere ==
    /\ steps < MaxSteps
    /\ \E t \in Instructions : executes(t)
    /\ steps' = steps + 1
    /\ UNCHANGED <<wallet, cache, inflight, page, load, act, mempool, switches,
                   trades, own>>

wallet_switches ==
    /\ switches < MaxSwitches
    /\ switches' = switches + 1
    /\ \E a \in Viewers \ {wallet} : wallet' = a
    /\ UNCHANGED <<market, cache, inflight, page, load, act, mempool, steps, trades, own>>

\* The page's next status read finds the change.
page_learns ==
    /\ wallet # page.account
    /\ effects(wallet)
    /\ UNCHANGED <<market, wallet, cache, act, mempool, steps, switches, trades, own>>

Init ==
    /\ owner \in [{Name} -> Viewers]
    /\ ask \in [{Name} -> Quotes \cup {None}]
    /\ owner[Name] = None <=> ask[Name] = None
    /\ bid = [n \in {Name} |-> [b \in Users |-> None]]
    /\ wallet = CHOOSE u \in Users : TRUE
    /\ page = [account |-> wallet, error |-> "none", shown |-> None]
    /\ cache = [v \in Viewers |-> None]
    /\ load = [viewer |-> wallet, profile |-> Waiting, listing |-> Waiting, offers |-> Waiting]
    /\ inflight = {wallet}
    /\ act = None
    /\ mempool = {}
    /\ steps = 0 /\ switches = 0 /\ trades = 0
    /\ own = FALSE

Network ==
    \/ \E v \in Viewers : profile_answers(v) \/ profile_fails(v)
    \/ fetchListing
    \/ listOffersForName
    \/ load_completes

Trade == withWalletActor \/ submitWithWindowArch \/ trade_settles

Click ==
    \/ onBuy \/ onCancelOffer
    \/ \E q \in Quotes : onMakeOffer(q)
    \/ \E u \in Users : onAcceptOffer(u)

Next ==
    \/ Network \/ Trade \/ Click
    \/ \E v \in Viewers : expires(v)
    \/ \E t \in mempool : transaction_lands(t) \/ transaction_fails(t)
    \/ elsewhere \/ wallet_switches \/ page_learns

Spec == Init /\ [][Next]_vars

-----------------------------------------------------------------------------
(* Properties                                                              *)

\* ViewNameView's load effect: however the loads of two accounts overlap, what
\* is on screen was loaded for the account the page shows now, all of it by
\* one load, and the page is never blank: it shows a name, an error or a load.
ShownForViewer ==
    /\ page.shown # None => /\ page.shown.viewer = page.account
                            /\ page.shown.profile.viewer = page.account
    /\ face # "blank"

landed(t) == t \notin mempool' /\ steps' > steps

settles_as_shown ==
    \A t \in mempool : landed(t) =>
        LET seen == t.seen IN
        /\ seen.kind = "BuyName" =>
             /\ owner[Name] = seen.seller
             /\ ask[Name].currency = "Btc" => seen.quote.currency = "Btc"
        /\ seen.kind = "AcceptOffer" =>
             /\ owner'[Name] = seen.row
             /\ bid[Name][seen.row].currency = "Arch"
        /\ seen.kind = "MakeOffer" => bid'[Name][seen.actor] = seen.quote

\* onBuy, onMakeOffer and onAcceptOffer with the program's checks: the parts of
\* the page were read at different moments and may be stale, but a trade that
\* lands pays the seller the page showed, spends aBTC only if the page showed
\* an aBTC price, sells only to the buyer whose row was clicked and only for
\* escrowed ARCH, and bids exactly what was typed.
TradeSettlesAsShown == [][settles_as_shown]_vars

at_rest == load = None /\ act = None /\ page.shown # None

\* invalidateNameProfile: "Drop cached profiles after a successful mutation so
\* the next load is fresh."
FreshAfterTrade == at_rest /\ own => page.shown.profile.fresh
=============================================================================
