-------------------------- MODULE TradePageProofs --------------------------
(***************************************************************************)
(* Proofs about the page of one name: what it shows was loaded for the     *)
(* account it has, and a trade that lands is the trade that was clicked,   *)
(* for any users, quotes, account changes, failures and rival trades.      *)
(***************************************************************************)
EXTENDS TradePage, TLAPS

Errors == {"none", "failed", "not registered"}

\* A load that has all its answers.
Loaded == [viewer : Viewers, profile : Answer, listing : Listing, offers : Offers]

Page == [account : Viewers, error : Errors, shown : Loaded \cup {None}]

MarketType ==
    /\ owner \in [{Name} -> Viewers]
    /\ ask \in [{Name} -> Quotes \cup {None}]
    /\ bid \in [{Name} -> Offers]

PageType ==
    /\ cache \in [Viewers -> Answer \cup {None}]
    /\ inflight \subseteq Viewers
    /\ page \in Page
    /\ load \in Load \cup {None}

\* Every profile is filed under the account it was read for, and the load under
\* way is the one of the page's present account.
LoadForViewer ==
    /\ \A v \in Viewers : cache[v] # None => cache[v].viewer = v
    /\ load # None => /\ load.viewer = page.account
                      /\ load.profile # Waiting => load.profile.viewer = load.viewer

PageInv == PageType /\ LoadForViewer /\ ShownForViewer

\* A trade has what its instruction is built from, and an account once the
\* wallet was probed.
complete(a) ==
    /\ a.kind = "MakeOffer" => a.quote \in Quotes
    /\ a.kind = "AcceptOffer" => a.row \in Users
    /\ a.step # "refresh" => a.actor \in Users

\* The instruction is the one the client builds for what was clicked.
built(ix, a) ==
    CASE a.kind = "BuyName" -> ix = buildBuyName(a.actor, a.seller, a.quote.currency)
      [] a.kind = "MakeOffer" -> ix = buildMakeOffer(a.actor, a.quote)
      [] a.kind = "CancelOffer" -> ix = buildCancelOffer(a.actor)
      [] a.kind = "AcceptOffer" -> ix = buildAcceptOffer(a.actor, a.row)

ActInv ==
    /\ act \in Act \cup {None}
    /\ act # None => complete(act)
    /\ \A t \in mempool :
         t.seen \in Act /\ complete(t.seen) /\ t.seen.actor \in Users /\ built(t.ix, t.seen)

TradeInv ==
    /\ MarketType /\ PageInv /\ ActInv
    /\ wallet \in Viewers /\ steps \in Nat

-----------------------------------------------------------------------------
(* What the page renders                                                   *)

LEMMA BlankFace ==
    ASSUME PageType
    PROVE  face = "blank" <=> load = None /\ page.error = "none" /\ page.shown = None
  <1>1. page.error \in Errors
    BY DEF PageType, Page
  <1> QED BY <1>1 DEF face, Errors

LEMMA NameFace ==
    ASSUME PageType, face = "name"
    PROVE  page.shown \in Loaded
  BY DEF PageType, Page, face

-----------------------------------------------------------------------------
(* The page and its loads                                                  *)

LEMMA InitPage == Init => PageInv
  <1> SUFFICES ASSUME Init PROVE PageInv
    OBVIOUS
  <1>1. wallet \in Viewers /\ wallet \in Users
    BY TradeAssumption DEF Init, Viewers
  <1>2. page = [account |-> wallet, error |-> "none", shown |-> None]
    BY DEF Init
  <1>3. page \in Page /\ page.shown = None /\ page.account = wallet
    BY <1>1, <1>2 DEF Page, Errors
  <1>4. load = [viewer |-> wallet, profile |-> Waiting, listing |-> Waiting, offers |-> Waiting]
    BY DEF Init
  <1>5. load \in Load /\ load.viewer = wallet /\ load.profile = Waiting
    BY <1>1, <1>4 DEF Load
  <1>6. load # None
    BY <1>5, TradeAssumption
  <1>7. PageType
    BY <1>1, <1>3, <1>5 DEF Init, PageType
  <1>8. LoadForViewer
    BY <1>3, <1>5 DEF Init, LoadForViewer
  <1>9. ShownForViewer
    BY <1>3, <1>6, <1>7, BlankFace DEF ShownForViewer
  <1> QED BY <1>7, <1>8, <1>9 DEF PageInv

LEMMA PageKept ==
    ASSUME PageInv, UNCHANGED <<cache, inflight, page, load>>
    PROVE  PageInv'
  BY DEF PageInv, PageType, LoadForViewer, ShownForViewer, face

\* The resets of the effects and the load they start.
LEMMA EffectsStep ==
    ASSUME PageInv, NEW a \in Viewers, effects(a), UNCHANGED cache
    PROVE  PageInv'
  <1> DEFINE p == IF cache[a] = None THEN Waiting ELSE cache[a]
  <1>0. /\ page \in Page /\ cache \in [Viewers -> Answer \cup {None}] /\ inflight \subseteq Viewers
        /\ \A v \in Viewers : cache[v] # None => cache[v].viewer = v
    BY DEF PageInv, PageType, LoadForViewer
  <1>1. p \in Answer \cup {Waiting} /\ (p # Waiting => p.viewer = a)
    BY <1>0
  <1>2. load' = [viewer |-> a, profile |-> p, listing |-> Waiting, offers |-> Waiting]
    BY DEF effects, load_effect
  <1> HIDE DEF p
  <1>3. load' \in Load /\ load'.viewer = a /\ load'.profile = p
    BY <1>1, <1>2 DEF Load
  <1>4. load' # None
    BY <1>3, TradeAssumption
  <1>5. page' \in Page /\ page'.account = a /\ page'.shown = None
    BY <1>0 DEF effects, Page, Errors
  <1>6. inflight' \subseteq Viewers
    BY <1>0 DEF effects, load_effect
  <1>7. PageType'
    BY <1>0, <1>3, <1>5, <1>6 DEF PageType
  <1>8. LoadForViewer'
    BY <1>0, <1>1, <1>3, <1>5 DEF LoadForViewer
  <1>9. ShownForViewer'
    <2>1. face' # "blank"
      BY <1>4 DEF face
    <2> QED BY <1>5, <2>1 DEF ShownForViewer
  <1> QED BY <1>7, <1>8, <1>9 DEF PageInv

\* The load under way gets an answer and stays the load of the same account.
LEMMA AnsweredStep ==
    ASSUME PageInv, UNCHANGED page, load # None,
           load' \in Load, load'.viewer = load.viewer,
           load'.profile # Waiting => load'.profile.viewer = load'.viewer,
           inflight' \subseteq Viewers, cache' \in [Viewers -> Answer \cup {None}],
           \A v \in Viewers : cache'[v] # None => cache'[v].viewer = v
    PROVE  PageInv'
  <1>1. load' # None
    BY TradeAssumption
  <1>2. PageType'
    BY DEF PageInv, PageType
  <1>3. LoadForViewer'
    BY DEF PageInv, LoadForViewer
  <1>4. face' # "blank"
    BY <1>1 DEF face
  <1> QED BY <1>2, <1>3, <1>4 DEF PageInv, ShownForViewer

\* The load fails: the page says so.
LEMMA FailedStep ==
    ASSUME PageInv, load' = None, page' = [page EXCEPT !.error = "failed"],
           inflight' \subseteq Viewers, UNCHANGED cache
    PROVE  PageInv'
  <1>0. page \in Page
    BY DEF PageInv, PageType
  <1>1. /\ page' \in Page /\ page'.error = "failed"
        /\ page'.account = page.account /\ page'.shown = page.shown
    BY <1>0 DEF Page, Errors
  <1>2. PageType'
    BY <1>1 DEF PageInv, PageType
  <1>3. LoadForViewer'
    BY DEF PageInv, LoadForViewer
  <1>4. face' # "blank"
    BY <1>1 DEF face
  <1> QED BY <1>1, <1>2, <1>3, <1>4 DEF PageInv, ShownForViewer

LEMMA ProfileStep ==
    ASSUME PageInv, MarketType, NEW a \in Viewers, profile_answers(a) \/ profile_fails(a)
    PROVE  PageInv'
  <1>0. /\ load \in Load \cup {None} /\ cache \in [Viewers -> Answer \cup {None}]
        /\ inflight \subseteq Viewers /\ owner[Name] \in Viewers
        /\ \A v \in Viewers : cache[v] # None => cache[v].viewer = v
    BY DEF PageInv, PageType, MarketType, LoadForViewer
  <1>1. CASE profile_answers(a)
    <2> DEFINE answer == [viewer |-> a, owner |-> owner[Name], fresh |-> TRUE]
    <2>1. /\ cache' = [cache EXCEPT ![a] = answer] /\ inflight' = inflight \ {a}
          /\ load' = delivered(a, answer) /\ UNCHANGED page
      BY <1>1 DEF profile_answers
    <2>2. answer \in Answer /\ answer.viewer = a
      BY <1>0 DEF Answer
    <2> HIDE DEF answer
    <2>3. /\ cache' \in [Viewers -> Answer \cup {None}] /\ inflight' \subseteq Viewers
          /\ \A v \in Viewers : cache'[v] # None => cache'[v].viewer = v
      BY <1>0, <2>1, <2>2
    <2>4. CASE load # None /\ load.profile = Waiting /\ load.viewer = a
      <3>1. load' = [load EXCEPT !.profile = answer]
        BY <2>1, <2>4 DEF delivered
      <3>2. load' \in Load /\ load'.viewer = load.viewer /\ load'.profile = answer
        BY <1>0, <2>2, <2>4, <3>1 DEF Load
      <3> QED BY <2>1, <2>2, <2>3, <2>4, <3>2, AnsweredStep
    <2>5. CASE load # None /\ ~(load.profile = Waiting /\ load.viewer = a)
      <3>1. load' = load
        BY <2>1, <2>5 DEF delivered
      <3>2. load.profile # Waiting => load.profile.viewer = load.viewer
        BY <2>5 DEF PageInv, LoadForViewer
      <3> QED BY <1>0, <2>1, <2>3, <2>5, <3>1, <3>2, AnsweredStep
    <2>6. CASE load = None
      <3>1. load' = load
        BY <2>1, <2>6 DEF delivered
      <3>2. PageType' /\ LoadForViewer' /\ ShownForViewer'
        BY <2>1, <2>3, <2>6, <3>1
          DEF PageInv, PageType, LoadForViewer, ShownForViewer, face
      <3> QED BY <3>2 DEF PageInv
    <2> QED BY <2>4, <2>5, <2>6
  <1>2. CASE profile_fails(a)
    <2>1. inflight' \subseteq Viewers /\ UNCHANGED cache
      BY <1>0, <1>2 DEF profile_fails
    <2>2. CASE load # None /\ load.profile = Waiting /\ load.viewer = a
      <3>1. load' = None /\ page' = [page EXCEPT !.error = "failed"]
        BY <1>2, <2>2 DEF profile_fails
      <3> QED BY <2>1, <3>1, FailedStep
    <2>3. CASE ~(load # None /\ load.profile = Waiting /\ load.viewer = a)
      <3>1. UNCHANGED <<load, page>>
        BY <1>2, <2>3 DEF profile_fails
      <3>2. PageType' /\ LoadForViewer' /\ ShownForViewer'
        BY <2>1, <3>1 DEF PageInv, PageType, LoadForViewer, ShownForViewer, face
      <3> QED BY <3>2 DEF PageInv
    <2> QED BY <2>2, <2>3
  <1> QED BY <1>1, <1>2

LEMMA FetchStep ==
    ASSUME PageInv, MarketType, fetchListing \/ listOffersForName
    PROVE  PageInv'
  <1>0. /\ load \in Load /\ load # None /\ UNCHANGED <<cache, inflight>>
        /\ ask[Name] \in Quotes \cup {None} /\ bid[Name] \in Offers
        /\ cache \in [Viewers -> Answer \cup {None}] /\ inflight \subseteq Viewers
        /\ \A v \in Viewers : cache[v] # None => cache[v].viewer = v
        /\ load.profile # Waiting => load.profile.viewer = load.viewer
    BY DEF PageInv, PageType, MarketType, LoadForViewer, fetchListing, listOffersForName
  <1>1. CASE fetchListing
    <2>1. CASE load' = [load EXCEPT !.listing = [quote |-> ask[Name]]] /\ UNCHANGED page
      <3> DEFINE x == [quote |-> ask[Name]]
      <3>1. x \in Listing /\ load' = [load EXCEPT !.listing = x]
        BY <1>0, <2>1 DEF Listing
      <3> HIDE DEF x
      <3>2. load' \in Load /\ load'.viewer = load.viewer /\ load'.profile = load.profile
        BY <1>0, <3>1 DEF Load
      <3> QED BY <1>0, <2>1, <3>2, AnsweredStep
    <2>2. CASE load' = None /\ page' = [page EXCEPT !.error = "failed"]
      BY <1>0, <2>2, FailedStep
    <2> QED BY <1>1, <2>1, <2>2 DEF fetchListing
  <1>2. CASE listOffersForName
    <2>1. PICK ok \in BOOLEAN :
            load' = [load EXCEPT !.offers = IF ok THEN bid[Name] ELSE [u \in Users |-> None]]
      BY <1>2 DEF listOffersForName
    <2> DEFINE x == IF ok THEN bid[Name] ELSE [u \in Users |-> None]
    <2>2. x \in Offers /\ load' = [load EXCEPT !.offers = x]
      BY <1>0, <2>1 DEF Offers
    <2> HIDE DEF x
    <2>3. load' \in Load /\ load'.viewer = load.viewer /\ load'.profile = load.profile
      BY <1>0, <2>2 DEF Load
    <2>4. UNCHANGED page
      BY <1>2 DEF listOffersForName
    <2> QED BY <1>0, <2>3, <2>4, AnsweredStep
  <1> QED BY <1>1, <1>2

LEMMA CompletesStep == PageInv /\ load_completes => PageInv'
  <1> SUFFICES ASSUME PageInv, load_completes PROVE PageInv'
    OBVIOUS
  <1>0. /\ load \in Load /\ load # None /\ page \in Page /\ load' = None
        /\ UNCHANGED <<cache, inflight>>
        /\ load.viewer = page.account
        /\ load.profile # Waiting /\ load.listing # Waiting /\ load.offers # Waiting
        /\ load.profile.viewer = page.account
    BY DEF PageInv, PageType, LoadForViewer, load_completes
  <1>1. load \in Loaded
    BY <1>0 DEF Load, Loaded
  <1>2. load # None
    BY <1>0
  <1>3. CASE page' = [page EXCEPT !.error = "not registered"]
    <2>1. /\ page' \in Page /\ page'.error = "not registered"
          /\ page'.account = page.account /\ page'.shown = page.shown
      BY <1>0, <1>3 DEF Page, Errors
    <2>2. PageType' /\ LoadForViewer'
      BY <1>0, <2>1 DEF PageInv, PageType, LoadForViewer
    <2>3. face' # "blank"
      BY <2>1 DEF face
    <2> QED BY <2>1, <2>2, <2>3 DEF PageInv, ShownForViewer
  <1>4. CASE page' = [page EXCEPT !.shown = load]
    <2>1. /\ page' \in Page /\ page'.shown = load /\ page'.error = page.error
          /\ page'.account = page.account
      BY <1>0, <1>1, <1>4 DEF Page
    <2>2. PageType' /\ LoadForViewer'
      BY <1>0, <2>1 DEF PageInv, PageType, LoadForViewer
    <2>3. face' # "blank"
      <3>1. page'.error \in Errors
        BY <2>1 DEF Page
      <3> QED BY <1>0, <2>1, <3>1 DEF face, Errors
    <2> QED BY <1>0, <2>1, <2>2, <2>3 DEF PageInv, ShownForViewer
  <1> QED BY <1>3, <1>4 DEF load_completes

LEMMA ExpiresStep ==
    ASSUME PageInv, NEW a \in Viewers, expires(a)
    PROVE  PageInv'
  <1>1. cache' = [cache EXCEPT ![a] = None] /\ UNCHANGED <<inflight, page, load>>
    BY DEF expires
  <1>2. PageType' /\ LoadForViewer' /\ ShownForViewer'
    BY <1>1 DEF PageInv, PageType, LoadForViewer, ShownForViewer, face
  <1> QED BY <1>2 DEF PageInv

-----------------------------------------------------------------------------
(* Aging: profiles keep the account they were read for                     *)

LEMMA Aged ==
    /\ \A x \in Answer : aged(x) \in Answer /\ aged(x).viewer = x.viewer
    /\ aged(None) = None /\ aged(Waiting) = Waiting
  <1>1. ASSUME NEW x \in Answer PROVE aged(x) \in Answer /\ aged(x).viewer = x.viewer
    <2>1. x # None /\ x # Waiting
      BY TradeAssumption
    <2>2. aged(x) = [x EXCEPT !.fresh = FALSE]
      BY <2>1 DEF aged
    <2> QED BY <2>2 DEF Answer
  <1>2. aged(None) = None /\ aged(Waiting) = Waiting
    BY DEF aged
  <1> QED BY <1>1, <1>2

LEMMA AgeStep ==
    ASSUME PageInv, all_age, UNCHANGED inflight
    PROVE  PageInv'
  <1>0. /\ load \in Load \cup {None} /\ page \in Page /\ inflight \subseteq Viewers
        /\ cache \in [Viewers -> Answer \cup {None}]
        /\ \A v \in Viewers : cache[v] # None => cache[v].viewer = v
        /\ LoadForViewer /\ ShownForViewer /\ PageType
    BY DEF PageInv, PageType, LoadForViewer
  <1>1. /\ cache' \in [Viewers -> Answer \cup {None}]
        /\ \A v \in Viewers : cache'[v] # None => cache'[v].viewer = v
    BY <1>0, Aged DEF all_age
  <1>2. /\ load = None => load' = None
        /\ load # None => /\ load' \in Load /\ load'.viewer = load.viewer
                          /\ load'.profile # Waiting =>
                               load.profile # Waiting /\ load'.profile.viewer = load.profile.viewer
    <2>1. CASE load = None
      BY <2>1 DEF all_age
    <2>2. CASE load # None
      <3> DEFINE p == aged(load.profile)
      <3>1. load' = [load EXCEPT !.profile = p]
        BY <2>2 DEF all_age
      <3>2. load.profile \in Answer \cup {Waiting} /\ load \in Load
        BY <1>0, <2>2 DEF Load
      <3>3. p \in Answer \cup {Waiting}
            /\ (p # Waiting => load.profile # Waiting /\ p.viewer = load.profile.viewer)
        BY <3>2, Aged
      <3> HIDE DEF p
      <3>4. load' \in Load /\ load'.viewer = load.viewer /\ load'.profile = p
        BY <3>1, <3>2, <3>3 DEF Load
      <3> QED BY <2>2, <3>3, <3>4
    <2> QED BY <2>1, <2>2
  <1>3. /\ page' \in Page /\ page'.account = page.account /\ page'.error = page.error
        /\ page.shown = None => page'.shown = None
        /\ page.shown # None => /\ page'.shown # None /\ page'.shown.viewer = page.shown.viewer
                                /\ page'.shown.profile.viewer = page.shown.profile.viewer
    <2>1. CASE page.shown = None
      <3>1. page' = page
        BY <2>1 DEF all_age
      <3> QED BY <1>0, <2>1, <3>1
    <2>2. CASE page.shown # None
      <3> DEFINE p == aged(page.shown.profile)
                 l == [page.shown EXCEPT !.profile = p]
      <3>1. page' = [page EXCEPT !.shown = l]
        BY <2>2 DEF all_age
      <3>2. page.shown \in Loaded /\ page.shown.profile \in Answer
        BY <1>0, <2>2 DEF Page, Loaded
      <3>3. p \in Answer /\ p.viewer = page.shown.profile.viewer
        BY <3>2, Aged
      <3> HIDE DEF p
      <3>4. l \in Loaded /\ l.viewer = page.shown.viewer /\ l.profile = p
        BY <3>2, <3>3 DEF Loaded
      <3>5. l \in Load
        BY <3>4 DEF Load, Loaded
      <3>6. l # None
        BY <3>5, TradeAssumption
      <3> HIDE DEF l
      <3>7. /\ page' \in Page /\ page'.account = page.account /\ page'.error = page.error
            /\ page'.shown = l
        BY <1>0, <3>1, <3>4 DEF Page
      <3> QED BY <2>2, <3>3, <3>4, <3>6, <3>7
    <2> QED BY <2>1, <2>2
  <1>4. PageType'
    BY <1>0, <1>1, <1>2, <1>3 DEF PageType
  <1>5. LoadForViewer'
    BY <1>0, <1>1, <1>2, <1>3 DEF LoadForViewer
  <1>6. ShownForViewer'
    <2>1. load' = None => load = None
      BY <1>2, TradeAssumption
    <2>2. ~(load' = None /\ page'.error = "none" /\ page'.shown = None)
      BY <1>0, <1>3, <2>1, BlankFace DEF ShownForViewer
    <2>3. page'.error \in Errors
      BY <1>3 DEF Page
    <2>4. face' # "blank"
      BY <2>2, <2>3 DEF face, Errors
    <2> QED BY <1>0, <1>3, <2>4 DEF ShownForViewer
  <1> QED BY <1>4, <1>5, <1>6 DEF PageInv

-----------------------------------------------------------------------------
(* The market                                                              *)

\* An instruction with accounts and quotes of the market.
proper(t) ==
    /\ t.kind \in {"Register", "BuyName"} => t.signer \in Users
    /\ t.kind = "Transfer" => t.to \in Users
    /\ t.kind = "ListName" => t.quote \in Quotes
    /\ t.kind = "MakeOffer" => t.signer \in Users /\ t.quote \in Quotes
    /\ t.kind = "CancelOffer" => t.signer \in Users
    /\ t.kind = "AcceptOffer" => t.buyer \in Users

LEMMA MarketStep ==
    ASSUME MarketType, NEW t, proper(t), executes(t)
    PROVE  MarketType'
  <1>0. /\ owner \in [{Name} -> Viewers] /\ ask \in [{Name} -> Quotes \cup {None}]
        /\ bid \in [{Name} -> [Users -> Quotes \cup {None}]]
    BY DEF MarketType, Offers
  <1>1. \A u \in Users, q \in Quotes \cup {None} :
          [bid EXCEPT ![Name][u] = q] \in [{Name} -> [Users -> Quotes \cup {None}]]
    BY <1>0
  <1>2. CASE t.kind = "Register" /\ M!Register(Name, t.signer)
    BY <1>0, <1>2 DEF MarketType, Offers, proper, M!Register, Viewers
  <1>3. CASE t.kind = "Transfer" /\ M!Give(Name, t.to)
    BY <1>0, <1>3 DEF MarketType, Offers, proper, M!Give, Viewers
  <1>4. CASE t.kind = "ListName" /\ M!Ask(Name, t.quote)
    BY <1>0, <1>4 DEF MarketType, Offers, proper, M!Ask
  <1>5. CASE t.kind = "CancelListing" /\ M!Withdraw(Name)
    BY <1>0, <1>5 DEF MarketType, Offers, M!Withdraw
  <1>6. CASE t.kind = "BuyName" /\ M!Sell(Name, t.signer)
    BY <1>0, <1>6 DEF MarketType, Offers, proper, M!Sell, Viewers
  <1>7. CASE t.kind = "MakeOffer" /\ M!Bid(Name, t.signer, t.quote)
    BY <1>0, <1>1, <1>7 DEF MarketType, Offers, proper, M!Bid
  <1>8. CASE t.kind = "CancelOffer" /\ M!Retract(Name, t.signer)
    BY <1>0, <1>1, <1>8 DEF MarketType, Offers, proper, M!Retract
  <1>9. CASE t.kind = "AcceptOffer" /\ M!Accept(Name, t.buyer)
    BY <1>0, <1>1, <1>9 DEF MarketType, Offers, proper, M!Accept, Viewers
  <1> QED BY <1>2, <1>3, <1>4, <1>5, <1>6, <1>7, <1>8, <1>9 DEF executes

LEMMA ProperInstructions == \A t \in Instructions : proper(t)
  BY DEF Instructions, proper, buildRegister, buildTransfer, buildListName,
         buildCancelListing, buildBuyName, buildMakeOffer, buildCancelOffer, buildAcceptOffer

LEMMA ProperTrades ==
    ASSUME NEW a \in Act, complete(a), a.actor \in Users, NEW ix, built(ix, a)
    PROVE  proper(ix)
  <1>1. a.kind \in Kinds
    BY DEF Act
  <1>2. CASE a.kind = "BuyName"
    BY <1>2 DEF built, proper, buildBuyName
  <1>3. CASE a.kind = "MakeOffer"
    BY <1>3 DEF built, proper, complete, buildMakeOffer
  <1>4. CASE a.kind = "CancelOffer"
    BY <1>4 DEF built, proper, buildCancelOffer
  <1>5. CASE a.kind = "AcceptOffer"
    BY <1>5 DEF built, proper, complete, buildAcceptOffer
  <1> QED BY <1>1, <1>2, <1>3, <1>4, <1>5 DEF Kinds

-----------------------------------------------------------------------------
(* The trade under way and the instructions sent                           *)

\* Instructions leave the mempool, and the trade is over or still complete.
LEMMA ActStep ==
    ASSUME ActInv, mempool' \subseteq mempool,
           act' = None \/ (act' \in Act /\ complete(act'))
    PROVE  ActInv'
  BY DEF ActInv

LEMMA ClickStep ==
    ASSUME PageInv, ActInv, NEW kind \in Kinds, NEW quote \in Quotes \cup {None},
           NEW row \in Viewers, page.shown \in Loaded, clicked(kind, quote, row),
           kind = "MakeOffer" => quote \in Quotes, kind = "AcceptOffer" => row \in Users
    PROVE  ActInv'
  <1>1. page.shown.profile.owner \in Viewers
    BY DEF Loaded, Answer
  <1>2. act' = [step |-> "refresh", kind |-> kind, quote |-> quote, row |-> row,
                seller |-> page.shown.profile.owner, actor |-> None, result |-> None]
    BY DEF clicked
  <1>3. act' \in Act /\ act'.step = "refresh" /\ act'.kind = kind /\ act'.quote = quote
        /\ act'.row = row
    BY <1>1, <1>2 DEF Act, Viewers
  <1>4. complete(act')
    BY <1>3 DEF complete
  <1> QED BY <1>3, <1>4, ActStep DEF clicked

LEMMA ClicksStep == PageInv /\ ActInv /\ Click => ActInv'
  <1> SUFFICES ASSUME PageInv, ActInv, Click PROVE ActInv'
    OBVIOUS
  <1>0. PageType /\ None \in Viewers
    BY DEF PageInv, Viewers
  <1>1. face = "name" => page.shown \in Loaded
    BY <1>0, NameFace
  <1>2. CASE onBuy
    <2>1. face = "name" /\ clicked("BuyName", page.shown.listing.quote, None)
      BY <1>2 DEF onBuy, buy_offered
    <2>2. page.shown.listing.quote \in Quotes \cup {None}
      BY <1>1, <2>1 DEF Loaded, Listing
    <2> QED BY <1>0, <1>1, <2>1, <2>2, ClickStep DEF Kinds
  <1>3. CASE onCancelOffer
    <2>1. clicked("CancelOffer", None, None)
      BY <1>3 DEF onCancelOffer
    <2>2. face = "name"
      BY <1>3 DEF onCancelOffer, row_actions
    <2> QED BY <1>0, <1>1, <2>1, <2>2, ClickStep DEF Kinds
  <1>4. ASSUME NEW q \in Quotes, onMakeOffer(q) PROVE ActInv'
    <2>1. face = "name" /\ clicked("MakeOffer", q, None)
      BY <1>4 DEF onMakeOffer, offer_form
    <2> QED BY <1>0, <1>1, <2>1, ClickStep DEF Kinds
  <1>5. ASSUME NEW u \in Users, onAcceptOffer(u) PROVE ActInv'
    <2>1. clicked("AcceptOffer", None, u) /\ u \in Viewers
      BY <1>5 DEF onAcceptOffer, Viewers
    <2>2. face = "name"
      BY <1>5 DEF onAcceptOffer, row_actions
    <2> QED BY <1>0, <1>1, <2>1, <2>2, ClickStep DEF Kinds
  <1> QED BY <1>2, <1>3, <1>4, <1>5 DEF Click

LEMMA ProbeStep ==
    ASSUME ActInv, wallet \in Viewers, withWalletActor
    PROVE  ActInv'
  <1>1. CASE wallet = None
    <2>1. act' = None /\ UNCHANGED mempool
      BY <1>1 DEF withWalletActor
    <2> QED BY <2>1, ActStep
  <1>2. CASE wallet # None
    <2>1. /\ act' = [act EXCEPT !.step = "submit", !.actor = wallet] /\ UNCHANGED mempool
          /\ act \in Act /\ complete(act) /\ wallet \in Users
      BY <1>2 DEF withWalletActor, ActInv, Viewers
    <2>2. act' \in Act /\ act'.actor = wallet /\ act'.kind = act.kind /\ act'.quote = act.quote
          /\ act'.row = act.row
      BY <2>1 DEF Act, Viewers
    <2>3. complete(act')
      BY <2>1, <2>2 DEF complete
    <2> QED BY <2>1, <2>2, <2>3, ActStep
  <1> QED BY <1>1, <1>2

LEMMA SubmitStep == ActInv /\ submitWithWindowArch => ActInv'
  <1> SUFFICES ASSUME ActInv, submitWithWindowArch PROVE ActInv'
    OBVIOUS
  <1>0. act \in Act /\ act # None /\ act.step = "submit" /\ complete(act) /\ act.actor \in Users
    BY DEF ActInv, submitWithWindowArch, complete
  <1>1. CASE act' = None /\ UNCHANGED mempool
    BY <1>1, ActStep
  <1>2. CASE /\ mempool' = mempool \cup {[id |-> trades, ix |-> instruction, seen |-> act]}
             /\ act' = [act EXCEPT !.step = "wait"]
    <2> DEFINE t == [id |-> trades, ix |-> instruction, seen |-> act]
    <2>1. act.kind \in Kinds
      BY <1>0 DEF Act
    <2>2. built(instruction, act)
      BY <2>1 DEF built, instruction, Kinds
    <2>3. t.seen = act /\ t.ix = instruction /\ mempool' = mempool \cup {t}
      BY <1>2
    <2> HIDE DEF t
    <2>4. act' \in Act /\ act'.actor = act.actor /\ act'.kind = act.kind
          /\ act'.quote = act.quote /\ act'.row = act.row
      BY <1>0, <1>2 DEF Act
    <2>5. complete(act')
      BY <1>0, <2>4 DEF complete
    <2>6. \A x \in mempool' :
            x.seen \in Act /\ complete(x.seen) /\ x.seen.actor \in Users /\ built(x.ix, x.seen)
      BY <1>0, <2>2, <2>3 DEF ActInv
    <2> QED BY <2>4, <2>5, <2>6 DEF ActInv
  <1> QED BY <1>1, <1>2 DEF submitWithWindowArch

LEMMA NotedStep ==
    ASSUME ActInv, NEW t, NEW result \in {"landed", "rejected"}, noted(t, result),
           mempool' \subseteq mempool
    PROVE  ActInv'
  <1>1. CASE act' = act
    BY <1>1, ActStep DEF ActInv
  <1>2. CASE act # None /\ act' = [act EXCEPT !.result = result]
    <2>1. act \in Act /\ complete(act)
      BY <1>2 DEF ActInv
    <2>2. act' \in Act /\ act'.actor = act.actor /\ act'.kind = act.kind /\ act'.step = act.step
          /\ act'.quote = act.quote /\ act'.row = act.row
      BY <1>2, <2>1 DEF Act
    <2>3. complete(act')
      BY <2>1, <2>2 DEF complete
    <2> QED BY <2>2, <2>3, ActStep
  <1> QED BY <1>1, <1>2 DEF noted

-----------------------------------------------------------------------------
(* The invariant                                                           *)

LEMMA InitEstablishes == Init => TradeInv
  <1> SUFFICES ASSUME Init PROVE TradeInv
    OBVIOUS
  <1>1. wallet \in Viewers
    BY TradeAssumption DEF Init, Viewers
  <1>2. MarketType
    BY DEF Init, MarketType, Offers
  <1>3. ActInv
    BY DEF Init, ActInv
  <1> QED BY <1>1, <1>2, <1>3, InitPage DEF Init, TradeInv

LEMMA NetworkStep == TradeInv /\ Network => TradeInv'
  <1> SUFFICES ASSUME TradeInv, Network PROVE TradeInv'
    OBVIOUS
  <1>1. UNCHANGED <<market, wallet, act, mempool, steps>>
    BY DEF Network, profile_answers, profile_fails, fetchListing, listOffersForName,
           load_completes
  <1>2. MarketType' /\ ActInv' /\ wallet' \in Viewers /\ steps' \in Nat
    BY <1>1 DEF TradeInv, MarketType, ActInv, market
  <1>3. PageInv'
    BY ProfileStep, FetchStep, CompletesStep DEF TradeInv, Network
  <1> QED BY <1>2, <1>3 DEF TradeInv

LEMMA TradeStep == TradeInv /\ (Trade \/ Click) => TradeInv'
  <1> SUFFICES ASSUME TradeInv, Trade \/ Click PROVE TradeInv'
    OBVIOUS
  <1>0. UNCHANGED <<market, wallet, steps, cache>>
    BY DEF Trade, Click, withWalletActor, submitWithWindowArch, trade_settles, onBuy,
           onCancelOffer, onMakeOffer, onAcceptOffer, clicked
  <1>1. MarketType' /\ wallet' \in Viewers /\ steps' \in Nat
    BY <1>0 DEF TradeInv, MarketType, market
  <1>2. page.account \in Viewers
    BY DEF TradeInv, PageInv, PageType, Page
  <1>3. CASE withWalletActor
    <2>1. ActInv'
      BY <1>3, ProbeStep DEF TradeInv
    <2>2. effects(wallet) \/ UNCHANGED <<page, load, inflight>>
      BY <1>3 DEF withWalletActor
    <2>3. PageInv'
      BY <1>0, <2>2, EffectsStep, PageKept DEF TradeInv
    <2> QED BY <1>1, <2>1, <2>3 DEF TradeInv
  <1>4. CASE submitWithWindowArch
    <2>1. ActInv'
      BY <1>4, SubmitStep DEF TradeInv
    <2>2. PageInv'
      BY <1>4, PageKept DEF TradeInv, submitWithWindowArch
    <2> QED BY <1>1, <2>1, <2>2 DEF TradeInv
  <1>5. CASE trade_settles
    <2>1. act' = None /\ UNCHANGED mempool
      BY <1>5 DEF trade_settles
    <2>2. ActInv'
      BY <2>1, ActStep DEF TradeInv
    <2>3. effects(page.account) \/ UNCHANGED <<page, load, inflight>>
      BY <1>5 DEF trade_settles
    <2>4. PageInv'
      BY <1>0, <1>2, <2>3, EffectsStep, PageKept DEF TradeInv
    <2> QED BY <1>1, <2>2, <2>4 DEF TradeInv
  <1>6. CASE Click
    <2>1. ActInv'
      BY <1>6, ClicksStep DEF TradeInv
    <2>2. UNCHANGED <<cache, inflight, page, load>>
      BY <1>6 DEF Click, onBuy, onCancelOffer, onMakeOffer, onAcceptOffer, clicked
    <2>3. PageInv'
      BY <2>2, PageKept DEF TradeInv
    <2> QED BY <1>1, <2>1, <2>3 DEF TradeInv
  <1> QED BY <1>3, <1>4, <1>5, <1>6 DEF Trade

LEMMA MempoolStep ==
    ASSUME TradeInv, NEW t \in mempool, transaction_lands(t) \/ transaction_fails(t)
    PROVE  TradeInv'
  <1>0. UNCHANGED <<wallet, inflight>> /\ mempool' \subseteq mempool
    BY DEF transaction_lands, transaction_fails
  <1>1. proper(t.ix)
    BY ProperTrades DEF TradeInv, ActInv
  <1>2. CASE transaction_lands(t)
    <2>1. MarketType'
      BY <1>1, <1>2, MarketStep DEF TradeInv, transaction_lands
    <2>2. ActInv'
      BY <1>0, <1>2, NotedStep DEF TradeInv, transaction_lands
    <2>3. all_age \/ UNCHANGED <<cache, load, page>>
      BY <1>2 DEF transaction_lands
    <2>4. PageInv'
      BY <1>0, <2>3, AgeStep, PageKept DEF TradeInv
    <2>5. steps' \in Nat
      BY <1>2 DEF TradeInv, transaction_lands
    <2> QED BY <1>0, <2>1, <2>2, <2>4, <2>5 DEF TradeInv
  <1>3. CASE transaction_fails(t)
    <2>1. UNCHANGED <<market, cache, page, load, steps>>
      BY <1>3 DEF transaction_fails
    <2>2. ActInv'
      BY <1>0, <1>3, NotedStep DEF TradeInv, transaction_fails
    <2>3. PageInv'
      BY <1>0, <2>1, PageKept DEF TradeInv
    <2>4. MarketType'
      BY <2>1 DEF TradeInv, MarketType, market
    <2> QED BY <1>0, <2>1, <2>2, <2>3, <2>4 DEF TradeInv
  <1> QED BY <1>2, <1>3

LEMMA OthersStep ==
    ASSUME TradeInv,
           (\E v \in Viewers : expires(v)) \/ elsewhere \/ wallet_switches \/ page_learns
             \/ UNCHANGED vars
    PROVE  TradeInv'
  <1>1. ASSUME NEW v \in Viewers, expires(v) PROVE TradeInv'
    <2>1. PageInv'
      BY <1>1, ExpiresStep DEF TradeInv
    <2>2. UNCHANGED <<market, wallet, act, mempool, steps>>
      BY <1>1 DEF expires
    <2> QED BY <2>1, <2>2 DEF TradeInv, MarketType, ActInv, market
  <1>2. CASE elsewhere
    <2>1. PICK t \in Instructions : executes(t)
      BY <1>2 DEF elsewhere
    <2>2. MarketType'
      BY <2>1, ProperInstructions, MarketStep DEF TradeInv
    <2>3. UNCHANGED <<wallet, cache, inflight, page, load, act, mempool>>
      BY <1>2 DEF elsewhere
    <2>4. PageInv'
      BY <2>3, PageKept DEF TradeInv
    <2>5. steps' \in Nat
      BY <1>2 DEF elsewhere, TradeInv
    <2> QED BY <2>2, <2>3, <2>4, <2>5 DEF TradeInv, ActInv
  <1>3. CASE wallet_switches
    <2>1. UNCHANGED <<market, cache, inflight, page, load, act, mempool, steps>>
          /\ wallet' \in Viewers
      BY <1>3 DEF wallet_switches
    <2>2. PageInv'
      BY <2>1, PageKept DEF TradeInv
    <2> QED BY <2>1, <2>2 DEF TradeInv, MarketType, ActInv, market
  <1>4. CASE page_learns
    <2>1. effects(wallet) /\ UNCHANGED <<market, wallet, cache, act, mempool, steps>>
      BY <1>4 DEF page_learns
    <2>2. PageInv'
      BY <2>1, EffectsStep DEF TradeInv
    <2> QED BY <2>1, <2>2 DEF TradeInv, MarketType, ActInv, market
  <1>5. CASE UNCHANGED vars
    <2>1. PageInv'
      BY <1>5, PageKept DEF TradeInv, vars
    <2> QED BY <1>5, <2>1 DEF vars, TradeInv, MarketType, ActInv, market
  <1> QED BY <1>1, <1>2, <1>3, <1>4, <1>5

\* The page, the market under it and the instructions it sent always fit
\* together: loads belong to the page's account and every instruction in the
\* mempool is the one built for what was clicked.
THEOREM TradeInvariant == Spec => []TradeInv
  <1>1. TradeInv /\ [Next]_vars => TradeInv'
    BY NetworkStep, TradeStep, MempoolStep, OthersStep DEF Next
  <1> QED BY <1>1, InitEstablishes, PTL DEF Spec

\* ViewNameView's load effect: what is on screen was loaded for the account the
\* page has now, by one load, and the page is never blank.
THEOREM ShownForViewerAlways == Spec => []ShownForViewer
  <1>1. TradeInv => ShownForViewer
    BY DEF TradeInv, PageInv
  <1> QED BY <1>1, TradeInvariant, PTL

-----------------------------------------------------------------------------
(* What lands                                                              *)

LEMMA LandsAsShown ==
    ASSUME TradeInv, NEW t \in mempool, executes(t.ix)
    PROVE  /\ t.seen.kind = "BuyName" =>
                /\ owner[Name] = t.seen.seller
                /\ ask[Name].currency = "Btc" => t.seen.quote.currency = "Btc"
           /\ t.seen.kind = "AcceptOffer" =>
                /\ owner'[Name] = t.seen.row
                /\ bid[Name][t.seen.row].currency = "Arch"
           /\ t.seen.kind = "MakeOffer" => bid'[Name][t.seen.actor] = t.seen.quote
  <1>0. /\ t.seen \in Act /\ complete(t.seen) /\ t.seen.actor \in Users /\ built(t.ix, t.seen)
        /\ owner \in [{Name} -> Viewers] /\ bid \in [{Name} -> [Users -> Quotes \cup {None}]]
    BY DEF TradeInv, ActInv, MarketType, Offers
  <1>1. CASE t.seen.kind = "BuyName"
    <2>1. /\ t.ix.kind = "BuyName" /\ t.ix.seller = t.seen.seller
          /\ t.ix.tokens = (t.seen.quote.currency = "Btc")
      BY <1>0, <1>1 DEF built, buildBuyName
    <2>2. owner[Name] = t.ix.seller /\ (ask[Name].currency = "Btc" => t.ix.tokens)
      BY <2>1 DEF executes
    <2> QED BY <1>1, <2>1, <2>2
  <1>2. CASE t.seen.kind = "AcceptOffer"
    <2>1. t.ix.kind = "AcceptOffer" /\ t.ix.buyer = t.seen.row
      BY <1>0, <1>2 DEF built, buildAcceptOffer
    <2>2. M!Accept(Name, t.seen.row) /\ bid[Name][t.seen.row].currency = "Arch"
      BY <2>1 DEF executes
    <2> QED BY <1>0, <1>2, <2>2 DEF M!Accept
  <1>3. CASE t.seen.kind = "MakeOffer"
    <2>1. /\ t.ix.kind = "MakeOffer" /\ t.ix.signer = t.seen.actor
          /\ t.ix.quote = t.seen.quote
      BY <1>0, <1>3 DEF built, buildMakeOffer
    <2>2. M!Bid(Name, t.seen.actor, t.seen.quote)
      BY <2>1 DEF executes
    <2> QED BY <1>0, <1>3, <2>2 DEF M!Bid
  <1> QED BY <1>1, <1>2, <1>3

\* Only the step that executes an instruction both takes it out of the mempool
\* and moves the market.
LEMMA OnlyLanding ==
    ASSUME TradeInv, [Next]_vars, NEW t \in mempool, landed(t)
    PROVE  transaction_lands(t)
  <1>0. steps \in Nat /\ steps' > steps /\ t \notin mempool'
    BY DEF TradeInv, landed
  <1>1. ~(steps' = steps) /\ ~(mempool' = mempool)
    BY <1>0
  <1>2. /\ ~Network /\ ~Click /\ ~elsewhere /\ ~wallet_switches /\ ~page_learns
        /\ ~UNCHANGED vars /\ \A v \in Viewers : ~expires(v)
    BY <1>1 DEF Network, profile_answers, profile_fails, fetchListing, listOffersForName,
                load_completes, Click, onBuy, onCancelOffer, onMakeOffer, onAcceptOffer, clicked,
                elsewhere, wallet_switches, page_learns, vars, expires
  <1>3. ~Trade
    BY <1>1 DEF Trade, withWalletActor, submitWithWindowArch, trade_settles
  <1>4. \A x \in mempool : ~transaction_fails(x)
    BY <1>1 DEF transaction_fails
  <1>5. PICK x \in mempool : transaction_lands(x)
    BY <1>2, <1>3, <1>4 DEF Next
  <1> QED BY <1>0, <1>5 DEF transaction_lands

\* onBuy, onMakeOffer and onAcceptOffer: a trade that lands pays the seller and
\* in the currency the page showed, or sells to the buyer whose row was clicked
\* for escrowed ARCH, or bids what was typed, whatever rivals did meanwhile.
THEOREM TradeSettlesAsShownAlways == Spec => TradeSettlesAsShown
  <1>1. TradeInv /\ [Next]_vars => [settles_as_shown]_vars
    <2> SUFFICES ASSUME TradeInv, [Next]_vars, NEW t \in mempool, landed(t)
                 PROVE  /\ t.seen.kind = "BuyName" =>
                             /\ owner[Name] = t.seen.seller
                             /\ ask[Name].currency = "Btc" => t.seen.quote.currency = "Btc"
                        /\ t.seen.kind = "AcceptOffer" =>
                             /\ owner'[Name] = t.seen.row
                             /\ bid[Name][t.seen.row].currency = "Arch"
                        /\ t.seen.kind = "MakeOffer" =>
                             bid'[Name][t.seen.actor] = t.seen.quote
      BY DEF settles_as_shown
    <2>1. executes(t.ix)
      BY OnlyLanding DEF transaction_lands
    <2> QED BY <2>1, LandsAsShown
  <1> QED BY <1>1, TradeInvariant, PTL DEF Spec, TradeSettlesAsShown
=============================================================================
