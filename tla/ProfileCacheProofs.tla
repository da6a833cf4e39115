------------------------- MODULE ProfileCacheProofs -------------------------
(***************************************************************************)
(* Proofs about the profile cache: what a key's entry holds is never older *)
(* than an answer the key already had, and a page at rest shows the        *)
(* profile of the account that is connected now, for any accounts and any  *)
(* number of requests, writes and account changes.                         *)
(***************************************************************************)
EXTENDS ProfileCache, TLAPS

Page == [account : Accounts, txid : BOOLEAN, due : BOOLEAN,
         awaits : Requests \cup {None}, error : BOOLEAN]

\* The types of the state.
CacheType ==
    /\ chain \in Nat
    /\ cache \in [Accounts -> Entry \cup {None}]
    /\ inflight \in [Requests -> Flight \cup {None}]
    /\ page \in Page
    /\ shown \in Profile \cup {None}
    /\ newest \in [Accounts -> Nat]

\* loadNameProfile's pending map: two requests under way have different keys.
OnePerKey ==
    \A r, s \in Requests :
        inflight[r] # None /\ inflight[s] # None /\ inflight[r].key = inflight[s].key
            => r = s

\* No answer is newer than the chain, and what a request has read is at least as
\* new as every earlier answer for its key: they are read one after the other.
ReadsInOrder ==
    /\ \A k \in Accounts : newest[k] <= chain
    /\ \A r \in Requests : inflight[r] # None /\ inflight[r].read # None =>
         newest[inflight[r].key] <= inflight[r].read /\ inflight[r].read <= chain

\* The page waits for a request that is under way, for the connected account
\* unless its next effect is due and will cancel the wait.
AwaitsLive ==
    page.awaits # None =>
        /\ inflight[page.awaits] # None
        /\ ~page.due => inflight[page.awaits].key = page.account

\* LoadsSettle's first half: what a page at rest has on screen.
rest_shows_account == at_rest => shown # None /\ shown.key = page.account

CacheInv ==
    CacheType /\ OnePerKey /\ ReadsInOrder /\ CacheMovesForward /\ AwaitsLive
      /\ rest_shows_account

-----------------------------------------------------------------------------
(* The steps of the surroundings                                           *)

LEMMA InitEstablishes == Init => CacheInv
  <1> SUFFICES ASSUME Init PROVE CacheInv
    OBVIOUS
  <1>1. CacheType
    <2>1. page \in Page
      BY DEF Init, Page
    <2> QED BY <2>1 DEF Init, CacheType
  <1>2. OnePerKey /\ ReadsInOrder /\ CacheMovesForward
    BY DEF Init, OnePerKey, ReadsInOrder, CacheMovesForward
  <1>3. AwaitsLive /\ rest_shows_account
    BY DEF Init, AwaitsLive, rest_shows_account, at_rest
  <1> QED BY <1>1, <1>2, <1>3 DEF CacheInv

\* The time to live ends, and a write lands: no request and no page moves.
LEMMA ExpireStep ==
    ASSUME CacheInv, NEW k \in Accounts, expire(k)
    PROVE  CacheInv'
  <1>0. /\ cache \in [Accounts -> Entry \cup {None}] /\ cache[k] \in Entry
        /\ UNCHANGED <<chain, inflight, page, shown, newest>>
    BY DEF CacheInv, CacheType, expire
  <1>1. cache' = [cache EXCEPT ![k] = [cache[k] EXCEPT !.live = FALSE]]
    BY DEF expire
  <1>2. /\ [cache[k] EXCEPT !.live = FALSE] \in Entry
        /\ [cache[k] EXCEPT !.live = FALSE].version = cache[k].version
    BY <1>0 DEF Entry
  <1>3. /\ cache' \in [Accounts -> Entry \cup {None}]
        /\ \A j \in Accounts : cache'[j] # None =>
             cache[j] # None /\ cache'[j].version = cache[j].version
    BY <1>0, <1>1, <1>2, CacheAssumption
  <1>4. CacheMovesForward'
    BY <1>0, <1>3 DEF CacheInv, CacheMovesForward
  <1>5. CacheType' /\ OnePerKey' /\ ReadsInOrder' /\ AwaitsLive' /\ rest_shows_account'
    BY <1>0, <1>3
      DEF CacheInv, CacheType, OnePerKey, ReadsInOrder, AwaitsLive, rest_shows_account, at_rest
  <1> QED BY <1>4, <1>5 DEF CacheInv

LEMMA LandsStep == CacheInv /\ save_lands => CacheInv'
  <1> SUFFICES ASSUME CacheInv, save_lands PROVE CacheInv'
    OBVIOUS
  <1>0. /\ chain \in Nat /\ chain' = chain + 1 /\ newest \in [Accounts -> Nat]
        /\ inflight \in [Requests -> Flight \cup {None}]
        /\ UNCHANGED <<cache, inflight, page, shown, newest>>
    BY DEF CacheInv, CacheType, save_lands
  <1>1. CacheType'
    BY <1>0 DEF CacheInv, CacheType
  <1>2. ReadsInOrder'
    <2>1. \A k \in Accounts : newest[k] <= chain + 1
      BY <1>0 DEF CacheInv, ReadsInOrder
    <2>2. ASSUME NEW r \in Requests, inflight[r] # None, inflight[r].read # None
          PROVE  newest[inflight[r].key] <= inflight[r].read /\ inflight[r].read <= chain + 1
      <3>1. inflight[r].read \in Nat
        BY <1>0, <2>2 DEF Flight
      <3> QED BY <1>0, <2>2, <3>1 DEF CacheInv, ReadsInOrder
    <2> QED BY <1>0, <2>1, <2>2 DEF ReadsInOrder
  <1>3. OnePerKey' /\ CacheMovesForward' /\ AwaitsLive' /\ rest_shows_account'
    BY <1>0
      DEF CacheInv, OnePerKey, CacheMovesForward, AwaitsLive, rest_shows_account, at_rest
  <1> QED BY <1>1, <1>2, <1>3 DEF CacheInv

\* The page renders without a load: what it waits for stays, its rest ends or
\* nothing it rests on changes.
LEMMA PageStep ==
    ASSUME CacheInv, page' \in Page, page'.awaits = page.awaits,
           page'.due \/ (~page.due /\ page'.account = page.account /\ page'.error = page.error),
           UNCHANGED <<chain, cache, inflight, shown, newest>>
    PROVE  CacheInv'
  <1>1. CacheType'
    BY DEF CacheInv, CacheType
  <1>2. OnePerKey' /\ ReadsInOrder' /\ CacheMovesForward'
    BY DEF CacheInv, OnePerKey, ReadsInOrder, CacheMovesForward
  <1>3. AwaitsLive' /\ rest_shows_account'
    BY DEF CacheInv, AwaitsLive, rest_shows_account, at_rest
  <1> QED BY <1>1, <1>2, <1>3 DEF CacheInv

LEMMA ViewStep ==
    ASSUME CacheInv,
           \/ run \/ run_returns \/ run_throws
           \/ (\E k \in Accounts : switch_account(k)) \/ UNCHANGED vars
    PROVE  CacheInv'
  <1>0. page \in Page
    BY DEF CacheInv, CacheType
  <1>1. CASE run
    <2>1. /\ page' = [page EXCEPT !.txid = FALSE, !.due = page.due \/ page.txid]
          /\ UNCHANGED <<chain, cache, inflight, shown, newest>>
      BY <1>1 DEF run
    <2>2. page.due \in BOOLEAN /\ page.txid \in BOOLEAN
      BY <1>0 DEF Page
    <2>3. (page.due \/ page.txid) \in BOOLEAN
      OBVIOUS
    <2>4. /\ page' \in Page /\ page'.awaits = page.awaits /\ page'.account = page.account
          /\ page'.error = page.error /\ page'.due = (page.due \/ page.txid)
      BY <1>0, <2>1, <2>3 DEF Page
    <2>5. page'.due \/ ~page.due
      BY <2>2, <2>4
    <2> QED BY <2>1, <2>4, <2>5, PageStep
  <1>2. CASE run_returns
    <2>1. /\ page' = [page EXCEPT !.txid = TRUE, !.due = TRUE]
          /\ UNCHANGED <<chain, cache, inflight, shown, newest>>
      BY <1>2 DEF run_returns
    <2>2. page' \in Page /\ page'.awaits = page.awaits /\ page'.due
      BY <1>0, <2>1 DEF Page
    <2> QED BY <2>1, <2>2, PageStep
  <1>3. ASSUME NEW k \in Accounts, switch_account(k) PROVE CacheInv'
    <2>1. /\ page' = [page EXCEPT !.account = k, !.due = TRUE]
          /\ UNCHANGED <<chain, cache, inflight, shown, newest>>
      BY <1>3 DEF switch_account
    <2>2. page' \in Page /\ page'.awaits = page.awaits /\ page'.due
      BY <1>0, <2>1 DEF Page
    <2> QED BY <2>1, <2>2, PageStep
  <1>4. CASE run_throws \/ UNCHANGED vars
    BY <1>4
      DEF run_throws, vars, CacheInv, CacheType, OnePerKey, ReadsInOrder, CacheMovesForward, AwaitsLive,
          rest_shows_account, at_rest
  <1> QED BY <1>1, <1>2, <1>3, <1>4

-----------------------------------------------------------------------------
(* The requests                                                            *)

\* A request leaves: the others keep their keys and what they read.
LEMMA Leaves ==
    ASSUME NEW r \in Requests, CacheType, OnePerKey, inflight' = [inflight EXCEPT ![r] = None]
    PROVE  /\ inflight' \in [Requests -> Flight \cup {None}]
           /\ OnePerKey'
           /\ \A s \in Requests : inflight'[s] # None => s # r /\ inflight'[s] = inflight[s]
           /\ \A s \in Requests : s # r => inflight'[s] = inflight[s]
  BY DEF CacheType, OnePerKey

LEMMA NodeReadsStep ==
    ASSUME CacheInv, NEW r \in Requests, node_reads(r)
    PROVE  CacheInv'
  <1>0. /\ inflight \in [Requests -> Flight \cup {None}] /\ inflight[r] \in Flight
        /\ chain \in Nat /\ newest \in [Accounts -> Nat]
        /\ UNCHANGED <<chain, cache, page, shown, newest>>
    BY DEF CacheInv, CacheType, node_reads
  <1> DEFINE f == [inflight[r] EXCEPT !.read = chain]
  <1>1. inflight' = [inflight EXCEPT ![r] = f]
    BY DEF node_reads
  <1>2. f \in Flight /\ f.key = inflight[r].key /\ f.read = chain /\ f.key \in Accounts
    BY <1>0 DEF Flight
  <1> HIDE DEF f
  <1>3. /\ inflight' \in [Requests -> Flight \cup {None}]
        /\ \A s \in Requests : inflight'[s] # None <=> inflight[s] # None
        /\ \A s \in Requests : inflight[s] # None => inflight'[s].key = inflight[s].key
        /\ inflight'[r] = f
        /\ \A s \in Requests : s # r => inflight'[s] = inflight[s]
    BY <1>0, <1>1, <1>2, CacheAssumption
  <1>4. CacheType'
    BY <1>0, <1>3 DEF CacheInv, CacheType
  <1>5. OnePerKey'
    BY <1>3 DEF CacheInv, OnePerKey
  <1>6. ReadsInOrder'
    <2>1. \A k \in Accounts : newest[k] <= chain
      BY DEF CacheInv, ReadsInOrder
    <2>2. ASSUME NEW s \in Requests, inflight'[s] # None, inflight'[s].read # None
          PROVE  newest[inflight'[s].key] <= inflight'[s].read /\ inflight'[s].read <= chain
      <3>1. CASE s = r
        BY <1>0, <1>2, <1>3, <2>1, <3>1
      <3>2. CASE s # r
        BY <1>3, <2>2, <3>2 DEF CacheInv, ReadsInOrder
      <3> QED BY <3>1, <3>2
    <2> QED BY <1>0, <2>1, <2>2 DEF ReadsInOrder
  <1>7. CacheMovesForward' /\ rest_shows_account'
    BY <1>0 DEF CacheInv, CacheMovesForward, rest_shows_account, at_rest
  <1>8. AwaitsLive'
    <2>1. page.awaits \in Requests \cup {None}
      BY DEF CacheInv, CacheType, Page
    <2> QED BY <1>0, <1>3, <2>1 DEF CacheInv, AwaitsLive
  <1> QED BY <1>4, <1>5, <1>6, <1>7, <1>8 DEF CacheInv

\* A request ends: the page that waited for it shows its profile or an error,
\* any other page goes on as it was.
LEMMA LeaveStep ==
    ASSUME CacheInv, NEW r \in Requests, inflight[r] # None,
           inflight' = [inflight EXCEPT ![r] = None],
           page' \in Page, shown' \in Profile \cup {None}, UNCHANGED chain,
           page.awaits # r => page' = page /\ shown' = shown,
           page.awaits = r =>
             /\ page'.awaits = None /\ page'.due = page.due /\ page'.account = page.account
             /\ page'.error \/ (shown' \in Profile /\ shown'.key = inflight[r].key),
           cache' \in [Accounts -> Entry \cup {None}], newest' \in [Accounts -> Nat],
           ReadsInOrder', CacheMovesForward'
    PROVE  CacheInv'
  <1>0. CacheType /\ OnePerKey /\ AwaitsLive /\ rest_shows_account
    BY DEF CacheInv
  <1>1. /\ inflight' \in [Requests -> Flight \cup {None}]
        /\ OnePerKey'
        /\ \A s \in Requests : s # r => inflight'[s] = inflight[s]
    BY <1>0, Leaves
  <1>2. CacheType'
    BY <1>0, <1>1 DEF CacheType
  <1>3. page.awaits \in Requests \cup {None}
    BY <1>0 DEF CacheType, Page
  <1>4. AwaitsLive'
    BY <1>0, <1>1, <1>3 DEF AwaitsLive
  <1>5. rest_shows_account'
    <2>1. CASE page.awaits = r
      <3>1. r # None
        BY CacheAssumption
      <3>2. ~page.due => inflight[r].key = page.account
        BY <1>0, <2>1, <3>1 DEF AwaitsLive
      <3> QED BY <2>1, <3>2, CacheAssumption DEF rest_shows_account, at_rest
    <2>2. CASE page.awaits # r
      BY <1>0, <2>2 DEF rest_shows_account, at_rest
    <2> QED BY <2>1, <2>2
  <1> QED BY <1>1, <1>2, <1>4, <1>5 DEF CacheInv

LEMMA FailsStep ==
    ASSUME CacheInv, NEW r \in Requests, request_fails(r)
    PROVE  CacheInv'
  <1>0. CacheType /\ OnePerKey /\ page \in Page
    BY DEF CacheInv, CacheType
  <1>1. /\ inflight[r] # None /\ inflight' = [inflight EXCEPT ![r] = None]
        /\ page' = IF page.awaits = r
                   THEN [page EXCEPT !.awaits = None, !.error = TRUE] ELSE page
        /\ UNCHANGED <<chain, cache, shown, newest>>
    BY DEF request_fails
  <1>2. page' \in Page
    BY <1>0, <1>1 DEF Page
  <1>3. page.awaits = r => /\ page'.awaits = None /\ page'.due = page.due
                           /\ page'.account = page.account /\ page'.error
    BY <1>0, <1>1 DEF Page
  <1>4. ReadsInOrder'
    <2>1. \A s \in Requests : inflight'[s] # None => inflight'[s] = inflight[s]
      BY <1>0, <1>1, Leaves
    <2> QED BY <1>1, <2>1 DEF CacheInv, ReadsInOrder
  <1>5. /\ CacheMovesForward' /\ shown' \in Profile \cup {None}
        /\ cache' \in [Accounts -> Entry \cup {None}] /\ newest' \in [Accounts -> Nat]
    BY <1>1 DEF CacheInv, CacheMovesForward, CacheType
  <1> QED BY <1>1, <1>2, <1>3, <1>4, <1>5, LeaveStep

LEMMA ArrivesStep ==
    ASSUME CacheInv, NEW r \in Requests, loadProfileUncached(r)
    PROVE  CacheInv'
  <1> DEFINE k == inflight[r].key
             v == inflight[r].read
             e == [version |-> v, live |-> TRUE]
             n == IF v > newest[k] THEN v ELSE newest[k]
             p == [key |-> k, version |-> v]
  <1>0. CacheType /\ OnePerKey /\ ReadsInOrder /\ CacheMovesForward /\ page \in Page
    BY DEF CacheInv, CacheType
  <1>1. /\ inflight[r] # None /\ v # None /\ inflight' = [inflight EXCEPT ![r] = None]
        /\ page' = IF page.awaits = r THEN [page EXCEPT !.awaits = None] ELSE page
        /\ cache' = [cache EXCEPT ![k] = e]
        /\ newest' = [newest EXCEPT ![k] = n]
        /\ shown' = IF page.awaits = r THEN p ELSE shown
        /\ UNCHANGED chain
    BY DEF loadProfileUncached
  <1>2. k \in Accounts /\ v \in Nat
    BY <1>0, <1>1 DEF CacheType, Flight
  <1>3. newest[k] <= v /\ v <= chain /\ newest[k] \in Nat
    BY <1>0, <1>1, <1>2 DEF ReadsInOrder, CacheType
  <1>4. n = v
    BY <1>2, <1>3
  <1>5. e \in Entry /\ e.version = v /\ p \in Profile /\ p.key = inflight[r].key
    BY <1>2 DEF Entry, Profile
  <1>6. inflight[r].key = k /\ inflight[r].read = v
    OBVIOUS
  <1> HIDE DEF k, v, e, n, p
  <1>7. /\ cache' \in [Accounts -> Entry \cup {None}] /\ cache'[k] = e
        /\ \A j \in Accounts : j # k => cache'[j] = cache[j]
    BY <1>0, <1>1, <1>2, <1>5 DEF CacheType
  <1>8. /\ newest' \in [Accounts -> Nat] /\ newest'[k] = v
        /\ \A j \in Accounts : j # k => newest'[j] = newest[j]
    BY <1>0, <1>1, <1>2, <1>4 DEF CacheType
  <1>9. CacheMovesForward'
    <2>1. ASSUME NEW j \in Accounts, cache'[j] # None
          PROVE  cache'[j].version >= newest'[j]
      <3>1. CASE j = k
        BY <1>2, <1>5, <1>7, <1>8, <3>1
      <3>2. CASE j # k
        BY <1>0, <1>7, <1>8, <2>1, <3>2 DEF CacheMovesForward
      <3> QED BY <3>1, <3>2
    <2> QED BY <2>1 DEF CacheMovesForward
  <1>10. ReadsInOrder'
    <2>1. \A j \in Accounts : newest'[j] <= chain
      BY <1>0, <1>3, <1>8 DEF ReadsInOrder
    <2>2. ASSUME NEW s \in Requests, inflight'[s] # None, inflight'[s].read # None
          PROVE  newest'[inflight'[s].key] <= inflight'[s].read /\ inflight'[s].read <= chain
      <3>1. s # r /\ inflight'[s] = inflight[s]
        BY <1>0, <1>1, <2>2, Leaves
      <3>2. inflight[s].key \in Accounts
        BY <1>0, <2>2, <3>1 DEF CacheType, Flight
      <3>3. inflight[s].key # k
        BY <1>0, <1>1, <1>6, <2>2, <3>1 DEF OnePerKey
      <3> QED BY <1>0, <1>8, <2>2, <3>1, <3>2, <3>3 DEF ReadsInOrder
    <2> QED BY <1>1, <2>1, <2>2 DEF ReadsInOrder
  <1>11. /\ page' \in Page
         /\ page.awaits = r => /\ page'.awaits = None /\ page'.due = page.due
                               /\ page'.account = page.account
         /\ page.awaits # r => page' = page
    BY <1>0, <1>1 DEF Page
  <1>12. /\ shown' \in Profile \cup {None}
         /\ page.awaits = r => shown' \in Profile /\ shown'.key = inflight[r].key
         /\ page.awaits # r => shown' = shown
    BY <1>0, <1>1, <1>5 DEF CacheType
  <1> QED BY <1>1, <1>7, <1>8, <1>9, <1>10, <1>11, <1>12, LeaveStep

-----------------------------------------------------------------------------
(* The load effect                                                         *)

\* The effect leaves a page that is not due: it shows the account's profile, or
\* waits for a request for it.
LEMMA LoadedStep ==
    ASSUME CacheInv, NEW entries, NEW w \in Requests \cup {None},
           entries \in [Accounts -> Entry \cup {None}],
           \A k \in Accounts : entries[k] = None \/ entries[k] = cache[k],
           cache' = entries,
           page' = [page EXCEPT !.due = FALSE, !.error = FALSE, !.awaits = w],
           UNCHANGED <<chain, newest>>,
           inflight' \in [Requests -> Flight \cup {None}], OnePerKey', ReadsInOrder',
           w # None => inflight'[w] # None /\ inflight'[w].key = page.account,
           shown' \in Profile \cup {None},
           w = None => shown' \in Profile /\ shown'.key = page.account
    PROVE  CacheInv'
  <1>0. page \in Page
    BY DEF CacheInv, CacheType
  <1>1. /\ page' \in Page /\ page'.awaits = w /\ page'.account = page.account /\ ~page'.due
    BY <1>0 DEF Page
  <1>2. CacheType'
    BY <1>1 DEF CacheInv, CacheType
  <1>3. CacheMovesForward'
    BY DEF CacheInv, CacheMovesForward
  <1>4. AwaitsLive' /\ rest_shows_account'
    BY <1>1, CacheAssumption DEF AwaitsLive, rest_shows_account, at_rest
  <1> QED BY <1>2, <1>3, <1>4 DEF CacheInv

LEMMA LoadStep == CacheInv /\ load_effect => CacheInv'
  <1> SUFFICES ASSUME CacheInv, load_effect PROVE CacheInv'
    OBVIOUS
  <1> DEFINE k == page.account
             settled == [page EXCEPT !.due = FALSE, !.error = FALSE, !.awaits = None]
  <1>0. /\ CacheType /\ OnePerKey /\ ReadsInOrder /\ page \in Page /\ k \in Accounts
        /\ cache \in [Accounts -> Entry \cup {None}]
        /\ inflight \in [Requests -> Flight \cup {None}]
    BY DEF CacheInv, CacheType, Page
  <1>1. /\ cache' \in [Accounts -> Entry \cup {None}]
        /\ \A j \in Accounts : cache'[j] = None \/ cache'[j] = cache[j]
        /\ UNCHANGED <<chain, newest>>
    BY <1>0 DEF load_effect, invalidateNameProfile
  <1>2. \A w \in Requests \cup {None} :
          [settled EXCEPT !.awaits = w]
            = [page EXCEPT !.due = FALSE, !.error = FALSE, !.awaits = w]
    BY <1>0 DEF Page
  <1>3. CASE /\ cache'[k] # None
             /\ shown' = [key |-> k, version |-> cache'[k].version]
             /\ page' = settled
             /\ UNCHANGED inflight
    <2>1. cache'[k].version \in Nat
      BY <1>0, <1>1, <1>3 DEF Entry
    <2>2. shown' \in Profile /\ shown'.key = page.account
      BY <1>0, <1>3, <2>1 DEF Profile
    <2>3. OnePerKey' /\ ReadsInOrder'
      BY <1>0, <1>1, <1>3 DEF OnePerKey, ReadsInOrder
    <2> QED BY <1>0, <1>1, <1>3, <2>2, <2>3, LoadedStep
  <1>4. CASE /\ \E r \in pending(k) : page' = [settled EXCEPT !.awaits = r]
             /\ UNCHANGED <<shown, inflight>>
    <2>1. PICK r \in pending(k) : page' = [settled EXCEPT !.awaits = r]
      BY <1>4
    <2>2. r \in Requests /\ inflight[r] # None /\ inflight[r].key = page.account /\ r # None
      BY CacheAssumption DEF pending
    <2>3. OnePerKey' /\ ReadsInOrder'
      BY <1>0, <1>1, <1>4 DEF OnePerKey, ReadsInOrder
    <2>4. shown' \in Profile \cup {None}
      BY <1>0, <1>4 DEF CacheType
    <2>5. page' = [page EXCEPT !.due = FALSE, !.error = FALSE, !.awaits = r]
      BY <1>2, <2>1, <2>2
    <2> QED BY <1>0, <1>1, <1>4, <2>2, <2>3, <2>4, <2>5, LoadedStep
  <1>5. CASE /\ pending(k) = {}
             /\ \E r \in Requests :
                  /\ inflight[r] = None
                  /\ inflight' = [inflight EXCEPT ![r] = [key |-> k, read |-> None]]
                  /\ page' = [settled EXCEPT !.awaits = r]
             /\ UNCHANGED shown
    <2> DEFINE f == [key |-> k, read |-> None]
    <2>1. PICK r \in Requests :
            /\ inflight' = [inflight EXCEPT ![r] = f]
            /\ page' = [settled EXCEPT !.awaits = r]
      BY <1>5
    <2>2. f \in Flight /\ f.key = k /\ f.read = None /\ f # None
      BY <1>0, CacheAssumption DEF Flight
    <2> HIDE DEF f
    <2>3. /\ inflight' \in [Requests -> Flight \cup {None}] /\ inflight'[r] = f
          /\ \A s \in Requests : s # r => inflight'[s] = inflight[s]
      BY <1>0, <2>1, <2>2
    <2>4. \A s \in Requests : inflight[s] # None => inflight[s].key # k
      BY <1>5 DEF pending
    <2>5. OnePerKey'
      BY <1>0, <2>2, <2>3, <2>4 DEF OnePerKey
    <2>6. ReadsInOrder'
      BY <1>0, <1>1, <2>2, <2>3 DEF ReadsInOrder
    <2>7. shown' \in Profile \cup {None}
      BY <1>0, <1>5 DEF CacheType
    <2>8. page' = [page EXCEPT !.due = FALSE, !.error = FALSE, !.awaits = r]
      BY <1>2, <2>1
    <2>9. r # None /\ inflight'[r] # None /\ inflight'[r].key = page.account
      BY <2>2, <2>3, CacheAssumption
    <2> QED BY <1>1, <2>3, <2>5, <2>6, <2>7, <2>8, <2>9, LoadedStep
  <1> QED BY <1>3, <1>4, <1>5 DEF load_effect, loadNameProfile

-----------------------------------------------------------------------------
(* The theorems                                                            *)

\* The cache, the requests and the page always fit together: at most one
\* request per key, answers read in the order they arrive in, and a page that
\* waits for a request that is under way.
THEOREM CacheInvariant == Spec => []CacheInv
  <1>1. CacheInv /\ [Next]_vars => CacheInv'
    <2> SUFFICES ASSUME CacheInv, [Next]_vars PROVE CacheInv'
      OBVIOUS
    <2>1. ASSUME NEW r \in Requests, node_reads(r) \/ loadProfileUncached(r) \/ request_fails(r)
          PROVE  CacheInv'
      BY <2>1, NodeReadsStep, ArrivesStep, FailsStep
    <2>2. CASE load_effect
      BY <2>2, LoadStep
    <2>3. CASE save_lands
      BY <2>3, LandsStep
    <2>4. ASSUME NEW k \in Accounts, expire(k) PROVE CacheInv'
      BY <2>4, ExpireStep
    <2>5. CASE \/ run \/ run_returns \/ run_throws
               \/ (\E k \in Accounts : switch_account(k)) \/ UNCHANGED vars
      BY <2>5, ViewStep
    <2> QED BY <2>1, <2>2, <2>3, <2>4, <2>5 DEF Next, Network
  <1> QED BY <1>1, InitEstablishes, PTL DEF Spec

\* loadNameProfile: what the cache holds for an account is never older than an
\* answer that account's key already had, however its loads, its failures and
\* its invalidations interleave.
THEOREM CacheMovesForwardAlways == Spec => []CacheMovesForward
  <1>1. CacheInv => CacheMovesForward
    BY DEF CacheInv
  <1> QED BY <1>1, CacheInvariant, PTL

\* ManageView: a page at rest shows the profile of the account connected now,
\* the safety half of LoadsSettle.
THEOREM RestShowsAccountAlways == Spec => []rest_shows_account
  <1>1. CacheInv => rest_shows_account
    BY DEF CacheInv
  <1> QED BY <1>1, CacheInvariant, PTL
=============================================================================
