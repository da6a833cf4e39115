------------------------------ MODULE PageLoads ------------------------------
(***************************************************************************)
(* The manager's pages that only read: the latest registrations            *)
(* (SearchView), the marketplace (ExploreView), the wallet's names         *)
(* (MyNamesView) and the balance under an offer (ViewNameView).  Each      *)
(* joins several reads of a registry that moves on between them, any read  *)
(* may fail, and the loads of a page overlap.                              *)
(*                                                                         *)
(* The registry goes through one history of transactions: its state at a   *)
(* moment, and the Explorer's feed at that moment, are functions of the    *)
(* first k rows, so what a read returned is the moment k it was served at. *)
(* Account reads are answered as of now; the Explorer's feed is as of what *)
(* its indexer has ingested, which lags behind.                            *)
(***************************************************************************)
EXTENDS Integers, Sequences, FiniteSets, SequencesExt, FiniteSetsExt

CONSTANTS
    Names,          \* 1..n: a name is its place in the alphabet
    LabelLength,    \* the length of each name's label
    Accounts,
    Histories,      \* records [rows, start, funds, views]: what happens, how much of it
                    \* already has, what funds[k][a][c] account a holds of currency c
                    \* after k rows, and on which pages it is watched
    Sessions,       \* records [wallet, known]: the wallet the tab is opened with
    QuoteDecimals,  \* decimals of each currency (9 and 8, made smaller)
    Reserve,        \* ARCH_OFFER_RESERVE_LAMPORTS
    Amounts,        \* records [n, digits]: n * 10^-digits, as typed
    PageSize, Pages, RecentLimit,
    None, Waiting, Failed,
    MaxLag,         \* bound: transactions the indexer, or a cached account, is behind
    MaxFlight,      \* bound: loads of a page under way at once
    MaxFails,       \* bound: reads that fail
    MaxSwitches     \* bound: changes of the wallet

Views == {"search", "explore", "mine", "name"}
Currencies == {"Arch", "Btc"}
Quotes == [currency : Currencies, price : Nat]
Kinds == {"Register", "ListName", "CancelListing", "BuyName", "SetRecord"}

\* What the program lets happen: a name is registered once, and nothing else
\* is done with it before.
Registers(rows, i, n) == rows[i].ok /\ rows[i].kind = "Register" /\ rows[i].name = n
Accepted(rows) ==
    \A i \in 1 .. Len(rows) : LET r == rows[i] IN
      /\ r.kind \in Kinds /\ r.name \in Names /\ r.by \in Accounts
      /\ r.ok \in BOOLEAN /\ r.dated \in BOOLEAN
      /\ r.kind = "ListName" => r.quote \in Quotes
      /\ r.ok => \E j \in 1 .. i : Registers(rows, j, r.name)
      /\ \A j \in 1 .. Len(rows) :
           Registers(rows, i, r.name) /\ Registers(rows, j, r.name) => i = j

ASSUME PageAssumption ==
    /\ Names \subseteq Nat /\ LabelLength \in [Names -> Nat]
    /\ \A h \in Histories :
         /\ h.rows \in Seq(Range(h.rows)) /\ h.start \in 0 .. Len(h.rows) /\ Accepted(h.rows)
         /\ h.views \subseteq Views
         /\ h.funds \in [0 .. Len(h.rows) -> [Accounts -> [Currencies -> Nat]]]
    /\ \A s \in Sessions : s.wallet \in s.known \cup {None} /\ s.known \subseteq Accounts
    /\ QuoteDecimals \in [Currencies -> Nat]
    /\ {PageSize, Pages, RecentLimit, MaxFlight} \subseteq Nat \ {0}
    /\ {MaxLag, MaxFails, MaxSwitches, Reserve} \subseteq Nat

\* What the search page and the marketplace show, and a row of the latter.
Feed == Seq(Nat) \cup {Failed}
Latest == [names : Nat, feed : Feed]
Market == [names : Nat, listings : Nat, labels : Nat, feed : Feed]
Entry == [name : Names, owner : Accounts, registeredAt : Nat \cup {None},
          listing : Quotes \cup {None}, listedAt : Nat \cup {None}]

ASSUME NoneAssumption ==
    None \notin Nat /\ None \notin Latest /\ None \notin Market /\ None \notin Entry

VARIABLES
    hist,      \* the rows of this run's history
    funds,     \* the balances before the first of them and after each
    now,       \* how many of them have happened
    ingested,  \* how many of them the Explorer's indexer has
    since,     \* what it had, or an account cached by the tab was of, on opening
    page,      \* the page the tab shows
    opened,    \* the moment it was opened
    loads,     \* its loads under way, oldest first
    shown,     \* what the last applied load put on screen, or None
    loading, error,
    hidden,    \* document.hidden
    fails,
    wallet,    \* the account the extension reports, or None
    reported,  \* the account the page knows of
    known,     \* the accounts this browser has seen (the signer registry)
    auto,      \* My names: autoLoadedAccount
    currency,  \* the offer form's currency
    accountCache, \* [a, c]: the moment of the transport's last answer, or None
    switches

chain == <<hist, funds, now, ingested, since>>
browser == <<wallet, reported, known, switches, accountCache>>
vars == <<chain, page, opened, loads, shown, loading, error, hidden, fails,
          browser, auto, currency>>

-----------------------------------------------------------------------------
(* The registry after k transactions.                                      *)

Done(n, kinds, k) ==
    {i \in 1 .. k : hist[i].ok /\ hist[i].name = n /\ hist[i].kind \in kinds}

Owner(n, k) ==
    LET S == Done(n, {"Register", "BuyName"}, k)
    IN  IF S = {} THEN None ELSE hist[Max(S)].by

\* A listing account outlives its cancellation and its sale, inactive.
Listing(n, k) ==
    LET S == Done(n, {"ListName"}, k)
    IN  IF S = {} THEN None
        ELSE [quote |-> hist[Max(S)].quote,
              active |-> Done(n, {"CancelListing", "BuyName"}, k) \cap Max(S) .. k = {}]

-----------------------------------------------------------------------------
(* The SDK's scans.                                                        *)

listNameAccounts(k) == {n \in Names : Owner(n, k) # None}

listOwnedNames(a, k) == {n \in listNameAccounts(k) : Owner(n, k) = a}

\* Every listing account, as if a closed sale were still one.
listActiveListings_any(kListings, kNames) ==
    [n \in {m \in listNameAccounts(kNames) : Listing(m, kListings) # None}
        |-> Listing(n, kListings).quote]
\* Listing accounts read first, then the names that give them their labels.
listActiveListings(kListings, kNames) ==
    [n \in {m \in listNameAccounts(kNames) :
              Listing(m, kListings) # None /\ Listing(m, kListings).active}
        |-> Listing(n, kListings).quote]

-----------------------------------------------------------------------------
(* The Explorer's feed, newest first, page by page; each page is served at *)
(* a moment of its own, and a new transaction shifts what later ones hold. *)
(* A page at moment 0 is empty, and so is one that is not found (404).     *)

fetchTransactionRows(k, p) ==
    LET last == k - (p - 1) * PageSize
    IN  [i \in 1 .. Max({0, Min({PageSize, last})}) |-> last - i + 1]

feed_read_short(feed) == feed # Failed => Len(feed) >= 1
\* Reading stops after the last page wanted, or at a page that is not full.
feed_read(feed) ==
    feed # Failed =>
      \/ Len(feed) = Pages
      \/ \E p \in DOMAIN feed : Len(fetchTransactionRows(feed[p], p)) < PageSize

isFailedStatus(i) == ~hist[i].ok

\* The row at a place <<page, line>> of the pages that were read.
Row(feed, s) == fetchTransactionRows(feed[s[1]], s[1])[s[2]]

\* Where the pages hold a row of a kind about a name.
Sightings(feed, kind, n) ==
    IF feed = Failed THEN {}
    ELSE {s \in (1 .. Len(feed)) \X (1 .. PageSize) :
            /\ s[2] <= Len(fetchTransactionRows(feed[s[1]], s[1]))
            /\ LET i == Row(feed, s)
               IN  ~isFailedStatus(i) /\ hist[i].kind = kind /\ hist[i].name = n}

\* The first of some places in reading order: page by page, from the top.
First(S) == CHOOSE s \in S : \A t \in S : s[1] < t[1] \/ (s[1] = t[1] /\ s[2] <= t[2])

\* fetchRegistryTimeline's two maps: the first sighting of a registration,
\* dated or not; the first dated sighting of a listing.
registeredAt(feed, n) ==
    LET S == Sightings(feed, "Register", n)
    IN  IF S = {} \/ ~hist[Row(feed, First(S))].dated THEN None ELSE Row(feed, First(S))
listedAt(feed, n) ==
    LET S == {s \in Sightings(feed, "ListName", n) : hist[Row(feed, s)].dated}
    IN  IF S = {} THEN None ELSE Row(feed, First(S))

\* A set in the order of a relation: an element stands behind those before it.
Ordered(S, R) ==
    [i \in 1 .. Cardinality(S) |->
       CHOOSE x \in S : Cardinality({y \in S : <<y, x>> \in R}) = i - 1]

\* The first rows of a list, at most limit.
cut(s, limit) == SubSeq(s, 1, Min({limit, Len(s)}))

\* Dated names, newest first, then the others, against the alphabet.
orderNamesByRegistration(at, limit) ==
    LET before(m, n) ==
          \/ at[m] # None /\ at[n] = None
          \/ None \notin {at[m], at[n]} /\ at[m] > at[n]
          \/ at[m] = at[n] /\ IF at[m] = None THEN m > n ELSE m < n
    IN  cut(Ordered(DOMAIN at, {p \in (DOMAIN at) \X (DOMAIN at) : before(p[1], p[2])}), limit)

-----------------------------------------------------------------------------
(* Search: the latest registrations, reloaded by a timer.                  *)

search_load(first) == [first |-> first, names |-> Waiting, feed |-> <<>>]

recent == orderNamesByRegistration(
    [n \in listNameAccounts(shown.names) |-> registeredAt(shown.feed, n)], RecentLimit)

search_empty ==
    /\ page = "search" /\ ~loading /\ ~error
    /\ shown = None \/ listNameAccounts(shown.names) = {}

\* A load that fails is passed over in silence, or only the first one is
\* told; a load that succeeds always replaces the list and clears an error.
search_applies_stuck(l) ==
    /\ loading' = (loading /\ ~l.first)
    /\ IF l.names = Failed
       THEN error' = (error \/ l.first) /\ UNCHANGED shown
       ELSE shown' = [names |-> l.names, feed |-> l.feed] /\ UNCHANGED error
search_applies(l) ==
    /\ loading' = (loading /\ ~l.first)
    /\ IF l.names = Failed
       THEN error' = (error \/ l.first) /\ UNCHANGED shown
       ELSE shown' = [names |-> l.names, feed |-> l.feed] /\ error' = FALSE

search_settled(l) == l.names # Failed => (l.names # Waiting /\ feed_read(l.feed))

-----------------------------------------------------------------------------
(* Explore: names, listings and dates joined into the marketplace's rows.  *)

explore_load ==
    [names |-> Waiting, listings |-> Waiting, labels |-> Waiting, feed |-> <<>>]

explore_settled(l) ==
    \/ Failed \in {l.names, l.listings, l.labels}
    \/ Waiting \notin {l.names, l.listings, l.labels} /\ feed_read(l.feed)

explore_applies(l) ==
    /\ loading' = FALSE
    /\ IF Failed \in {l.names, l.listings, l.labels}
       THEN error' = TRUE /\ UNCHANGED shown
       ELSE shown' = l /\ UNCHANGED error

\* The rows on screen; none before a load is applied.
entries ==
    IF shown = None THEN {}
    ELSE LET asks == listActiveListings(shown.listings, shown.labels)
         IN  {[name |-> n, owner |-> Owner(n, shown.names),
               registeredAt |-> registeredAt(shown.feed, n),
               listing |-> IF n \in DOMAIN asks THEN asks[n] ELSE None,
               listedAt |-> IF n \in DOMAIN asks THEN listedAt(shown.feed, n) ELSE None]
                : n \in listNameAccounts(shown.names)}

listedEntries(E) == {e \in E : e.listing # None}

Collections == {"all", "1-char", "2-char", "3-char", "4-char", "5-plus"}

entryMatchesCollection(e, id) ==
    LET len == LabelLength[e.name]
    IN  CASE id = "all" -> TRUE
          [] id = "5-plus" -> len >= 5
          [] OTHER -> len = CHOOSE i \in 1 .. 4 : id = <<"1-char", "2-char", "3-char", "4-char">>[i]

\* 10n ** BigInt(d)
pow10[d \in Nat] == IF d = 0 THEN 1 ELSE 10 * pow10[d - 1]

\* The displayed amount in hundred-millionths, cut to a whole number.
listingPriceSortKey(q) ==
    (q.price * pow10[QuoteDecimals["Btc"]]) \div pow10[QuoteDecimals[q.currency]]

\* Known times first, newest first; 0 hands over to the next key.
compareRecency(s, t) ==
    CASE s = None /\ t = None -> 0
      [] s = None /\ t # None -> 1
      [] s # None /\ t = None -> -1
      [] OTHER -> t - s

\* The slots the program stamps are all 0, so a tie falls to the name.
\* (Unlisted rows follow listed ones under "listed-recent" as well.)
sortMarketplaceEntries(E, sort) ==
    LET key(e) == listingPriceSortKey(e.listing)
        by(d, e, f) == d < 0 \/ (d = 0 /\ e.name < f.name)
        before(e, f) ==
          CASE sort \in {"price-asc", "price-desc"} ->
                 IF e.listing = None \/ f.listing = None
                 THEN by((IF e.listing = None THEN 1 ELSE 0)
                           - (IF f.listing = None THEN 1 ELSE 0), e, f)
                 ELSE by(IF sort = "price-asc" THEN key(e) - key(f)
                                               ELSE key(f) - key(e), e, f)
            [] sort = "listed-recent" ->
                 LET d == compareRecency(e.listedAt, f.listedAt)
                 IN  IF d # 0 THEN d < 0
                     ELSE by((IF e.listing = None THEN 1 ELSE 0)
                               - (IF f.listing = None THEN 1 ELSE 0), e, f)
            [] sort = "recent" -> by(compareRecency(e.registeredAt, f.registeredAt), e, f)
            [] sort = "name-desc" -> e.name > f.name
            [] sort = "length-asc" -> by(LabelLength[e.name] - LabelLength[f.name], e, f)
            [] sort = "length-desc" -> by(LabelLength[f.name] - LabelLength[e.name], e, f)
            [] OTHER -> e.name < f.name
    IN  Ordered(E, {p \in E \X E : before(p[1], p[2])})

topListingsByPrice(E, direction, limit) ==
    cut(sortMarketplaceEntries(listedEntries(E), direction), limit)

newestListings(E, limit) ==
    cut(sortMarketplaceEntries(listedEntries(E), "listed-recent"), limit)

\* The lowest ask of each currency, found row by row; an earlier row of the
\* scan wins a tie.
floors_after(rows) ==
    LET f[i \in 0 .. Len(rows)] ==
          IF i = 0 THEN [c \in Currencies |-> None]
          ELSE LET c == rows[i].listing.currency
               IN  IF f[i - 1][c] = None \/ rows[i].listing.price < f[i - 1][c].listing.price
                   THEN [f[i - 1] EXCEPT ![c] = rows[i]] ELSE f[i - 1]
    IN  f
marketplaceFloors(E) ==
    LET rows == sortMarketplaceEntries(listedEntries(E), "name-asc")
    IN  floors_after(rows)[Len(rows)]

\* Collections with a listing, and their cheapest row.
collectionFloors(E) ==
    LET of(id) == {e \in E : entryMatchesCollection(e, id)}
    IN  [id \in {i \in Collections \ {"all"} : listedEntries(of(i)) # {}}
           |-> topListingsByPrice(of(id), "price-asc", 1)[1]]

\* The numbers at the top, and the highlights, which need a listing.
globalStats(E) ==
    [registered |-> Cardinality(E), owners |-> Cardinality({e.owner : e \in E}),
     listed |-> Cardinality(listedEntries(E)), floors |-> marketplaceFloors(E)]
pulse(E) ==
    [lowest |-> topListingsByPrice(E, "price-asc", 3),
     highest |-> topListingsByPrice(E, "price-desc", 3),
     newest |-> newestListings(E, 3), collectionFloors |-> collectionFloors(E)]

visible(E, id, listedOnly, sort) ==
    sortMarketplaceEntries(
      {e \in E : entryMatchesCollection(e, id) /\ (listedOnly => e.listing # None)}, sort)

\* "No names in this collection yet."  (A load that failed says so above it.)
explore_empty(id) ==
    page = "explore" /\ ~loading /\ visible(entries, id, FALSE, "price-asc") = <<>>

-----------------------------------------------------------------------------
(* My names: every account the wallet has reported, each read by itself.   *)

nameLookupAccounts(a) == {a} \cup known

\* The lookup has failed, or it and the reads after it are there.
looked_up(r) ==
    r # Failed => (r # Waiting /\ r.counted # Waiting /\ r.primary # Waiting)

\* A failed lookup taken for an empty one.
loadForAccount_empty(a, answer) ==
    IF answer = Failed THEN [scan |-> 0, counted |-> TRUE, primary |-> FALSE]
    ELSE [scan |-> answer, primary |-> Waiting,
          counted |-> IF listOwnedNames(a, answer) = {} THEN TRUE ELSE Waiting]
\* The names first; the record counts and the primary name only follow a
\* lookup that succeeded, and their failures do not touch the names.
loadForAccount(a, answer) ==
    IF answer = Failed THEN Failed
    ELSE [scan |-> answer, primary |-> Waiting,
          counted |-> IF listOwnedNames(a, answer) = {} THEN TRUE ELSE Waiting]

mine_settled(l) == l.account # Waiting /\ \A a \in DOMAIN l.lookups : looked_up(l.lookups[a])

firstLookupError == \E a \in DOMAIN shown.lookups : shown.lookups[a] = Failed
connectedAccountNames == shown.lookups[shown.account]
otherAccountNames ==
    {a \in DOMAIN shown.lookups \ {shown.account} :
       shown.lookups[a] # Failed /\ listOwnedNames(a, shown.lookups[a].scan) # {}}

\* "No names on ...", the one outcome that reads like the truth.
mine_none ==
    /\ page = "mine" /\ ~loading /\ shown # None
    /\ connectedAccountNames # Failed
    /\ listOwnedNames(shown.account, connectedAccountNames.scan) = {}

mine_load == [account |-> Waiting, lookups |-> <<>>]

-----------------------------------------------------------------------------
(* The balance under the offer form.                                       *)

\* An amount of n * 10^-digits in base units; None with too many decimals.
parseQuoteAmount(v, c) ==
    IF v.digits > QuoteDecimals[c] THEN None ELSE v.n * pow10[QuoteDecimals[c] - v.digits]

\* Base units as an amount without trailing zeros.
formatQuoteBaseUnits(x, c) ==
    LET ds == {d \in 0 .. QuoteDecimals[c] : x % pow10[QuoteDecimals[c] - d] = 0}
    IN  [n |-> x \div pow10[QuoteDecimals[c] - Min(ds)], digits |-> Min(ds)]

\* ARCH keeps the offer account's rent and the fee back.
spendableFrom(a, c, k) ==
    LET reserved == IF c = "Arch" THEN Reserve ELSE 0
        total == funds[k][a][c]
    IN  IF total > reserved THEN total - reserved ELSE 0

balance_load(a, c) == [account |-> a, currency |-> c, live |-> TRUE, read |-> Waiting]

\* The effect: an older load is cancelled, no account means no balance.  The
\* old balance stays on screen meanwhile.
balance_effect(a, c) ==
    LET old == [i \in DOMAIN loads |-> [loads[i] EXCEPT !.live = FALSE]]
    IN  IF a = None
        THEN loads' = old /\ shown' = None /\ UNCHANGED loading
        ELSE loads' = Append(old, balance_load(a, c)) /\ loading' = TRUE /\ UNCHANGED shown

delivered_to_any(l) == TRUE
delivered(l) == l.live

\* The form's test of an amount; without a balance only its form counts.
offerAmountValid(v) ==
    LET x == parseQuoteAmount(v, currency)
    IN  x # None /\ x > 0 /\ (shown = None \/ x <= shown.spendable)

-----------------------------------------------------------------------------
(* Steps.                                                                  *)

\* A page is opened and starts its first load; My names waits for its effect.
\* The model ends where the page is left, which cancels what it asked for.
Init ==
    /\ \E h \in Histories :
         /\ hist = h.rows /\ funds = h.funds /\ now = h.start /\ opened = h.start
         /\ page \in h.views
         /\ since \in IF page = "mine" THEN {h.start} ELSE Max({0, h.start - MaxLag}) .. h.start
    /\ ingested = since
    /\ \E s \in Sessions : wallet = s.wallet /\ known = s.known
    /\ reported = wallet
    /\ shown = None /\ error = FALSE /\ hidden = FALSE
    /\ auto = None /\ currency = "Arch"
    /\ accountCache \in {[x \in Accounts \X Currencies |-> k] :
                           k \in {None} \cup (IF page = "name" THEN {since} ELSE {})}
    /\ loads = CASE page = "search" -> <<search_load(TRUE)>>
                 [] page = "explore" -> <<explore_load>>
                 [] page = "name" /\ reported # None -> <<balance_load(reported, "Arch")>>
                 [] OTHER -> <<>>
    /\ loading = (loads # <<>>)
    /\ fails = MaxFails /\ switches = MaxSwitches

\* The next transaction of the history.
transaction_lands ==
    /\ now < Len(hist)
    /\ page \in {"search", "explore"} => now - ingested < MaxLag
    /\ now' = now + 1
    /\ UNCHANGED <<hist, funds, ingested, since, page, opened, loads, shown, loading, error,
                   hidden, fails, browser, auto, currency>>

\* The indexer takes up the next of them; only two pages read its feed.
indexer_ingests ==
    /\ page \in {"search", "explore"} /\ ingested < now
    /\ ingested' = ingested + 1
    /\ UNCHANGED <<hist, funds, now, since, page, opened, loads, shown, loading, error,
                   hidden, fails, browser, auto, currency>>

visibility_changes ==
    /\ page = "search"
    /\ hidden' = ~hidden
    /\ UNCHANGED <<chain, page, opened, loads, shown, loading, error, fails,
                   browser, auto, currency>>

\* The timer's refresh; a hidden tab skips it.
refresh_timer ==
    /\ page = "search" /\ ~hidden /\ Len(loads) < MaxFlight
    /\ loads' = Append(loads, search_load(FALSE))
    /\ UNCHANGED <<chain, page, opened, shown, loading, error, hidden, fails,
                   browser, auto, currency>>

\* A read is answered as of a moment, or fails.
answers_as_of(k, v) ==
    \/ v = k /\ UNCHANGED fails
    \/ v = Failed /\ fails > 0 /\ fails' = fails - 1

answers(v) == answers_as_of(now, v)

\* Only some of the steps below change more than the load i itself.
reads(i, l) ==
    /\ loads' = [loads EXCEPT ![i] = l]
    /\ UNCHANGED <<chain, page, opened, shown, loading, error, hidden, auto, currency>>

\* Search and Explore: the scan of the names.
names_read(i) ==
    /\ page \in {"search", "explore"} /\ loads[i].names = Waiting
    /\ \E v \in {now, Failed} : answers(v) /\ reads(i, [loads[i] EXCEPT !.names = v])
    /\ UNCHANGED browser

\* Explore: the listings, then the names again for their labels.
listings_read(i) ==
    /\ page = "explore"
    /\ \E v \in {now, Failed} :
         /\ answers(v)
         /\ \/ loads[i].listings = Waiting
               /\ reads(i, [loads[i] EXCEPT !.listings = v])
            \/ loads[i].listings \notin {Waiting, Failed} /\ loads[i].labels = Waiting
               /\ reads(i, [loads[i] EXCEPT !.labels = v])
    /\ UNCHANGED browser

\* Search and Explore: one page of the feed, as the indexer has it; a failure
\* costs all dates, but a page that is not found is taken for an empty one.
feed_page_read(i) ==
    /\ page \in {"search", "explore"} /\ ~feed_read(loads[i].feed)
    /\ \E v \in {ingested, Failed} :
         /\ answers_as_of(ingested, v)
         /\ \E f \in IF v = Failed THEN {Failed, Append(loads[i].feed, 0)}
                      ELSE {Append(loads[i].feed, v)} :
              reads(i, [loads[i] EXCEPT !.feed = f])
    /\ UNCHANGED browser

\* All reads are there, or one that counts has failed.
list_settles(i) ==
    /\ \/ page = "search" /\ search_settled(loads[i]) /\ search_applies(loads[i])
       \/ page = "explore" /\ explore_settled(loads[i]) /\ explore_applies(loads[i])
    /\ loads' = RemoveAt(loads, i)
    /\ UNCHANGED <<chain, page, opened, hidden, fails, browser, auto, currency>>

\* My names: the effect on the reported account, and the Refresh button,
\* which a load under way disables.
load_mine ==
    /\ page = "mine" /\ reported # None /\ Len(loads) < MaxFlight
    /\ reported # auto \/ ~loading
    /\ auto' = reported
    /\ loads' = Append(loads, mine_load)
    /\ loading' = TRUE /\ error' = FALSE /\ shown' = None
    /\ UNCHANGED <<chain, page, opened, hidden, fails, browser, currency>>

\* refresh() answers with the wallet's account of now; none ends the load.
mine_refreshes(i) ==
    /\ page = "mine" /\ loads[i].account = Waiting
    /\ reported' = wallet /\ known' = known \cup ({wallet} \ {None})
    /\ IF wallet = None
       THEN /\ loads' = RemoveAt(loads, i) /\ error' = TRUE /\ loading' = FALSE
       ELSE /\ loads' = [loads EXCEPT ![i] = [account |-> wallet,
                           lookups |-> [a \in nameLookupAccounts(wallet) |-> Waiting]]]
            /\ UNCHANGED <<error, loading>>
    /\ UNCHANGED <<chain, page, opened, shown, hidden, fails, wallet, switches, accountCache,
                   auto, currency>>

\* The account's names; then its record counts; then its primary name.
mine_reads(i) ==
    /\ page = "mine" /\ loads[i].account # Waiting
    /\ \E a \in DOMAIN loads[i].lookups, v \in {now, Failed} :
         LET r == loads[i].lookups[a]
             put(s) == reads(i, [loads[i] EXCEPT !.lookups[a] = s])
         IN  /\ answers(v)
             /\ \/ r = Waiting /\ put(loadForAccount(a, v))
                \/ r \notin {Waiting, Failed} /\ r.counted = Waiting
                     /\ put([r EXCEPT !.counted = (v # Failed)])
                \/ r \notin {Waiting, Failed} /\ r.counted # Waiting /\ r.primary = Waiting
                     /\ put([r EXCEPT !.primary = (v # Failed)])
    /\ UNCHANGED browser

mine_settles(i) ==
    /\ page = "mine" /\ mine_settled(loads[i])
    /\ shown' = loads[i] /\ loading' = FALSE
    /\ loads' = RemoveAt(loads, i)
    /\ UNCHANGED <<chain, page, opened, error, hidden, fails, browser, auto, currency>>

\* readAccountInfo: the node's answer of now; or the last one for this account
\* and currency, from the cache or from the request the load has joined.
balance_read(i) ==
    LET key == <<loads[i].account, loads[i].currency>>
    IN  /\ page = "name" /\ loads[i].read = Waiting
        /\ \E k \in {now, accountCache[key]} \ {None} : \E v \in {k, Failed} :
             /\ answers_as_of(k, v)
             /\ reads(i, [loads[i] EXCEPT !.read = v])
             /\ accountCache' = IF v = Failed THEN accountCache
                                ELSE [accountCache EXCEPT ![key] = v]
        /\ UNCHANGED <<wallet, reported, known, switches>>

\* The balance arrives or its read fails; a cancelled load changes nothing.
balance_settles(i) ==
    LET l == loads[i]
    IN  /\ page = "name" /\ l.read # Waiting
        /\ IF delivered(l)
           THEN /\ shown' = IF l.read = Failed THEN None
                            ELSE [spendable |-> spendableFrom(l.account, l.currency, l.read)]
                /\ loading' = FALSE
           ELSE UNCHANGED <<shown, loading>>
        /\ loads' = RemoveAt(loads, i)
        /\ UNCHANGED <<chain, page, opened, error, hidden, fails, browser, auto, currency>>

\* A purchase or an offer of the page is confirmed (refreshKey).
balance_refreshes ==
    /\ page = "name" /\ Len(loads) < MaxFlight
    /\ balance_effect(reported, currency)
    /\ UNCHANGED <<chain, page, opened, error, hidden, fails, browser, auto, currency>>

\* The user picks the other currency.
currency_changes ==
    /\ page = "name" /\ Len(loads) < MaxFlight
    /\ currency' \in Currencies \ {currency}
    /\ balance_effect(reported, currency')
    /\ UNCHANGED <<chain, page, opened, error, hidden, fails, browser, auto>>

\* The wallet changes its account or lets the site go; the page hears of it
\* at once or with its next read of the status.
wallet_switches ==
    /\ page \in {"mine", "name"} \* the pages that ask for it
    /\ switches > 0 /\ switches' = switches - 1
    /\ wallet' \in (Accounts \cup {None}) \ {wallet}
    /\ UNCHANGED <<chain, page, opened, loads, shown, loading, error, hidden, fails,
                   reported, known, accountCache, auto, currency>>

page_learns ==
    /\ reported # wallet /\ Len(loads) < MaxFlight
    /\ reported' = wallet /\ known' = known \cup ({wallet} \ {None})
    /\ IF page = "name" THEN balance_effect(wallet, currency)
       ELSE UNCHANGED <<loads, shown, loading>>
    /\ UNCHANGED <<chain, page, opened, error, hidden, fails, wallet, switches, accountCache,
                   auto, currency>>

\* A step of load i.
load_step(i) ==
    \/ names_read(i) \/ listings_read(i) \/ feed_page_read(i) \/ list_settles(i)
    \/ mine_refreshes(i) \/ mine_reads(i) \/ mine_settles(i)
    \/ balance_read(i) \/ balance_settles(i)

Next ==
    \/ transaction_lands \/ indexer_ingests
    \/ visibility_changes \/ refresh_timer \/ load_mine
    \/ currency_changes \/ balance_refreshes \/ wallet_switches \/ page_learns
    \/ \E i \in DOMAIN loads : load_step(i)

\* Requests are answered or fail in the end, so the oldest load moves on; the
\* timer keeps firing.
Fairness == WF_vars(loads # <<>> /\ load_step(1)) /\ WF_vars(refresh_timer)

Spec == Init /\ [][Next]_vars /\ Fairness

-----------------------------------------------------------------------------
(* Properties.                                                             *)

\* The time of a name's registration, and whether a row is in the feed's window.
TrueTime(n, k) == Max(Done(n, {"Register"}, k))

\* A page that says there is nothing tells what was so at a moment since it
\* was opened: "No names registered yet" (SearchView) and "No names on ..."
\* (MyNamesView) are never what a failed read looks like.
EmptyClaimsTrue ==
    /\ search_empty => \E k \in opened .. now : listNameAccounts(k) = {}
    /\ (explore_empty("all") /\ ~error) => \E k \in opened .. now : listNameAccounts(k) = {}
    /\ mine_none => \E k \in opened .. now : listOwnedNames(shown.account, k) = {}

\* A date on screen is that of a transaction that succeeded: a name's one
\* registration, a listing's newest dated one at a moment the indexer has been
\* at since the page was opened (fetchRegistryTimeline), however the feed's
\* pages shifted meanwhile.
DatesTrue ==
    (page \in {"search", "explore"} /\ shown # None) =>
      \A n \in listNameAccounts(shown.names) :
        /\ LET t == registeredAt(shown.feed, n)
           IN  t # None => t = TrueTime(n, now)
        /\ LET t == listedAt(shown.feed, n)
           IN  t # None => \E k \in since .. ingested :
                 LET S == {i \in Done(n, {"ListName"}, k) : hist[i].dated}
                 IN  t \in S /\ t = Max(S)

\* The pages of the feed leave no gap: a name whose registration the indexer
\* had when the page was opened and that is still among the newest
\* Pages * PageSize transactions it has got its date, though the pages were
\* read at different moments; unless one of them was not found.
WindowCovered ==
    (/\ page \in {"search", "explore"} /\ shown # None
     /\ shown.feed # Failed /\ 0 \notin Range(shown.feed)) =>
      \A n \in listNameAccounts(shown.names) :
        LET t == TrueTime(n, now)
        IN  (t <= since /\ t > ingested - Pages * PageSize /\ hist[t].dated)
              => registeredAt(shown.feed, n) # None

\* The latest registrations run from the newest to the oldest that have a
\* date, then the others, and what the limit cuts off is never newer than
\* what is shown (orderNamesByRegistration); so do the newest listings.
NewestFirst ==
    /\ (page = "search" /\ shown # None) =>
         LET list == recent
             at == [n \in listNameAccounts(shown.names) |-> registeredAt(shown.feed, n)]
             newer(m, n) == at[m] # None /\ (at[n] = None \/ TrueTime(m, now) > TrueTime(n, now))
         IN  \A j \in DOMAIN list, m \in DOMAIN at :
               newer(m, list[j]) => \E i \in 1 .. j - 1 : list[i] = m
    /\ page = "explore" =>
         LET s == pulse(entries).newest
         IN  \A i, j \in DOMAIN s : (s[i].listedAt # None /\
                (s[j].listedAt = None \/ s[i].listedAt > s[j].listedAt)) => i < j

\* fetchRegistryTimeline and orderNamesByRegistration together.
TimelineTrue == DatesTrue /\ WindowCovered /\ NewestFirst

\* A name offered for sale on the marketplace was for sale at that price at a
\* moment since the page was opened (listActiveListings), though its listing,
\* its label and its owner were read at three different moments.
ForSaleTrue ==
    page = "explore" =>
      \A e \in listedEntries(entries) : \E k \in opened .. now :
        Listing(e.name, k) = [quote |-> e.listing, active |-> TRUE]

\* The floors the marketplace shows are the lowest asks of their currency,
\* and the lowest asks and a collection's floor are ones that no other ask
\* undercuts by more than the sort key tells apart (marketplace.ts).
FloorsLowest ==
    page = "explore" =>
      LET E == listedEntries(entries)
          f == globalStats(entries).floors
          g == pulse(entries).collectionFloors
          low == pulse(entries).lowest
      IN  /\ E # {} => low # <<>> /\ \A e \in E :
               listingPriceSortKey(low[1].listing) <= listingPriceSortKey(e.listing)
          /\ \A c \in Currencies :
               LET of == {e \in E : e.listing.currency = c}
               IN  IF of = {} THEN f[c] = None
                   ELSE f[c] \in of /\ \A e \in of : f[c].listing.price <= e.listing.price
          /\ \A e \in E, id \in Collections \ {"all"} :
               entryMatchesCollection(e, id) =>
                 /\ id \in DOMAIN g /\ g[id] \in E /\ entryMatchesCollection(g[id], id)
                 /\ e.listing.currency = g[id].listing.currency =>
                      listingPriceSortKey(e.listing) >= listingPriceSortKey(g[id].listing)

\* The marketplace: what is for sale, and what the lowest asks are.
MarketTrue == ForSaleTrue /\ FloorsLowest

\* A balance that was the connected account's, in the chosen currency, at a
\* moment since the page was opened, or since the tab cached it: the amounts
\* the form accepts could be paid from it then, and so could MAX.
BalanceHeld ==
    \E k \in since .. now :
      LET spendable == spendableFrom(reported, currency, k)
      IN  /\ \A v \in Amounts : offerAmountValid(v) => parseQuoteAmount(v, currency) <= spendable
          /\ spendable > 0 => offerAmountValid(formatQuoteBaseUnits(shown.spendable, currency))

\* The balance under the offer form is that of the account that is connected
\* now in the currency that is chosen now; or the page says that it loads one,
\* and a read of that very balance is under way and will be delivered
\* (ViewNameView's balance effect).  A wallet or currency left behind never
\* stays on the form, whatever its own reads still bring.
OfferAffordable ==
    (page = "name" /\ reported # None) =>
      \/ shown # None /\ BalanceHeld
      \/ shown = None /\ ~loading
      \/ /\ loading
         /\ \E i \in DOMAIN loads :
              loads[i].live /\ loads[i].account = reported /\ loads[i].currency = currency

\* The same without the way out while it loads: every amount the form accepts
\* is covered by a balance of the connected account.  Refuted by TLC and in no
\* run: until the new balance is there, amounts are compared with the one of
\* the previous account or currency, and without a balance with none.
OfferAlwaysAffordable ==
    (page = "name" /\ reported # None) =>
      \A v \in Amounts : offerAmountValid(v) =>
        \E k \in since .. now :
          parseQuoteAmount(v, currency) <= spendableFrom(reported, currency, k)

\* A search page left open and visible ends up showing the registry as it is:
\* no failed read, first or later, leaves it on an error or an old list.
LatestShown ==
    <>[]~hidden =>
    <>[](page = "search" =>
           /\ ~loading /\ ~error /\ shown # None
           /\ listNameAccounts(shown.names) = listNameAccounts(now))
=============================================================================
