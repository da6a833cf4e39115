--------------------------- MODULE TransportProofs ---------------------------
(***************************************************************************)
(* Theorems about the transport, for every number of accounts and readers, *)
(* every time to live, delay and number of retries.                        *)
(***************************************************************************)
EXTENDS Transport, TLAPS

-----------------------------------------------------------------------------
(* The inductive invariant                                                 *)

Cached == [value : Nat, expiresAt : Nat]

Request == [value : Nat \cup {Waiting, Failed}, since : Nat]

BatchRequest == [values : [Keys -> Nat] \cup {Waiting}, since : Nat]

SingleOps == (RpcOps \cup FeedOps) \ {"readAccountInfo", "getMultipleAccounts"}

RestCall == [op : RestOps, attempt : Nat, state : {"request", "delay", "body"}]

Result == [outcome : {"value", "null", "error"}, status : Statuses, sent : Nat]

TransportType ==
    /\ now \in Nat
    /\ writes \in [Keys -> SUBSET Nat]
    /\ cache \in [Keys -> Cached \cup {None}]
    /\ pending \in [Keys -> Request \cup {None}]
    /\ batch \in BatchRequest \cup {None}
    /\ plain \in SingleOps \cup {None}
    /\ rest \in RestCall \cup {None}
    /\ result \in Result \cup {None}

\* An account has a latest write, in the past.
WritesPast ==
    \A k \in Keys :
        /\ \E m \in writes[k] : \A w \in writes[k] : m >= w
        /\ \A w \in writes[k] : w <= now

\* A request is at most MaxDelay old.
under_way(since) == since <= now /\ now <= since + MaxDelay

\* Whatever was written over the value v of account k was written at t or later.
overwritten_since(k, v, t) == \A w \in writes[k] : v < w => t <= w

\* An answer was current when or after its request was sent.
request_current(k) ==
    pending[k] # None =>
        /\ under_way(pending[k].since)
        /\ pending[k].value \notin {Waiting, Failed} =>
              overwritten_since(k, pending[k].value, pending[k].since)

batch_current ==
    batch # None =>
        /\ under_way(batch.since)
        /\ batch.values # Waiting =>
              \A k \in Keys : overwritten_since(k, batch.values[k], batch.since)

RequestsCurrent == (\A k \in Keys : request_current(k)) /\ batch_current

\* An entry was current at most TTL + MaxDelay before it expires.
EntriesCurrent ==
    \A k \in Keys : cache[k] # None =>
        /\ cache[k].expiresAt <= now + TTL
        /\ overwritten_since(k, cache[k].value, cache[k].expiresAt - TTL - MaxDelay)

\* A retry is scheduled only while tries are left.
RetriesLeft == rest # None /\ rest.state = "delay" => rest.attempt < Retries

TransportInv ==
    /\ TransportType
    /\ WritesPast
    /\ RequestsCurrent
    /\ EntriesCurrent
    /\ RetriesLeft
    /\ retries_counted

-----------------------------------------------------------------------------
(* Lemmas                                                                  *)

\* Every call of the manager has a route the proxy lets through.
LEMMA RoutesAllowed ==
    \A op \in RpcOps \cup FeedOps \cup RestOps : handler(route(op)) = "upstream"
  <1> SUFFICES ASSUME NEW op \in RpcOps \cup FeedOps \cup RestOps
               PROVE  handler(route(op)) = "upstream"
    OBVIOUS
  <1> USE DEF route, handler, ALLOWED_RPC_METHODS, ALLOWED_REST_PREFIXES
  <1>1. CASE op = "readAccountInfo" BY <1>1
  <1>2. CASE op = "getMultipleAccounts" BY <1>2
  <1>3. CASE op = "getProgramAccounts" BY <1>3
  <1>4. CASE op = "sendTransaction" BY <1>4
  <1>5. CASE op = "createAccountWithFaucet" BY <1>5
  <1>6. CASE op = "getCurrentSlot" BY <1>6
  <1>7. CASE op = "getBestBlockHash" BY <1>7
  <1>8. CASE op = "getProcessedTransaction" BY <1>8
  <1>9. CASE op = "fetchTransactionRows" BY <1>9
  <1> QED BY <1>1, <1>2, <1>3, <1>4, <1>5, <1>6, <1>7, <1>8, <1>9
          DEF RpcOps, FeedOps, RestOps

\* An account's current content is its latest write.
LEMMA CurrentIsLatest ==
    ASSUME TransportType, WritesPast, NEW k \in Keys
    PROVE  /\ Current(k) \in writes[k] /\ Current(k) \in Nat
           /\ \A w \in writes[k] : Current(k) >= w
  <1>1. PICK m \in writes[k] : \A w \in writes[k] : m >= w
    BY DEF WritesPast
  <1>2. /\ Current(k) \in writes[k]
        /\ \A w \in writes[k] : Current(k) >= w
    BY <1>1 DEF Current, Max
  <1> QED BY <1>2 DEF TransportType

\* What the node serves now has been overwritten by nothing yet.
LEMMA ServedIsCurrent ==
    ASSUME TransportType, WritesPast, NEW k \in Keys, NEW t
    PROVE  overwritten_since(k, Current(k), t)
  <1>1. \A w \in writes[k] : w \in Nat
    BY DEF TransportType
  <1> QED BY <1>1, CurrentIsLatest DEF overwritten_since

-----------------------------------------------------------------------------
(* The invariant is inductive                                              *)

\* The steps that neither write an account nor move the clock touch the
\* requests and the entries one at a time.
LEMMA ReadStep ==
    ASSUME TransportInv, UNCHANGED <<now, writes>>,
           pending' \in [Keys -> Request \cup {None}],
           batch' \in BatchRequest \cup {None},
           cache' \in [Keys -> Cached \cup {None}],
           UNCHANGED <<plain, rest, result>>,
           \A k \in Keys : \/ pending'[k] \in {pending[k], None}
                            \/ /\ under_way(pending'[k].since)
                               /\ pending'[k].value \notin {Waiting, Failed} =>
                                     overwritten_since(k, pending'[k].value, pending'[k].since),
           \/ batch' \in {batch, None}
           \/ /\ under_way(batch'.since)
              /\ batch'.values # Waiting =>
                    \A k \in Keys : overwritten_since(k, batch'.values[k], batch'.since),
           \A k \in Keys : \/ cache'[k] = cache[k]
                            \/ /\ cache'[k].expiresAt <= now + TTL
                               /\ overwritten_since(k, cache'[k].value,
                                                    cache'[k].expiresAt - TTL - MaxDelay)
    PROVE  TransportInv'
  <1>1. TransportType'
    BY DEF TransportInv, TransportType
  <1>2. WritesPast'
    BY DEF TransportInv, WritesPast
  <1>3. RequestsCurrent'
    <2>1. ASSUME NEW k \in Keys PROVE request_current(k)'
      BY DEF TransportInv, RequestsCurrent, request_current, under_way, overwritten_since
    <2>2. batch_current'
      BY DEF TransportInv, RequestsCurrent, batch_current, under_way, overwritten_since
    <2> QED BY <2>1, <2>2 DEF RequestsCurrent
  <1>4. EntriesCurrent'
    BY DEF TransportInv, EntriesCurrent, overwritten_since
  <1>5. RetriesLeft' /\ retries_counted'
    BY DEF TransportInv, RetriesLeft, retries_counted
  <1> QED BY <1>1, <1>2, <1>3, <1>4, <1>5 DEF TransportInv

LEMMA JoinStep ==
    ASSUME TransportInv, NEW r \in Readers, NEW k \in Keys, readAccountInfo(r, k)
    PROVE  TransportInv'
  <1>1. /\ UNCHANGED <<now, writes, plain, rest, result, cache, batch>>
        /\ \/ pending' = pending
           \/ pending' = [pending EXCEPT ![k] = [value |-> Waiting, since |-> now]]
    BY DEF readAccountInfo, read_step
  <1>2. [value |-> Waiting, since |-> now] \in Request /\ under_way(now)
    BY TransportAssumption DEF TransportInv, TransportType, Request, under_way
  <1>3. pending' \in [Keys -> Request \cup {None}]
    BY <1>1, <1>2 DEF TransportInv, TransportType
  <1>4. \A j \in Keys : \/ pending'[j] = pending[j]
                        \/ pending'[j].value = Waiting /\ pending'[j].since = now
    BY <1>1 DEF TransportInv, TransportType
  <1> QED BY <1>1, <1>2, <1>3, <1>4, ReadStep DEF TransportInv, TransportType

LEMMA ServeStep == ASSUME TransportInv, NEW k \in Keys, node_serves(k) PROVE TransportInv'
  <1> DEFINE q == [pending[k] EXCEPT !.value = Current(k)]
  <1>1. /\ UNCHANGED <<now, writes, plain, rest, result, cache, batch>>
        /\ pending[k] # None
    BY DEF node_serves, read_step
  <1>2. pending[k] \in Request
    BY <1>1 DEF TransportInv, TransportType
  <1>3. pending' = [pending EXCEPT ![k] = q]
    BY DEF node_serves, TransportInv, TransportType
  <1>4. q \in Request /\ q.value = Current(k) /\ under_way(q.since)
    BY <1>1, <1>2, CurrentIsLatest DEF TransportInv, RequestsCurrent, request_current, batch_current, Request
  <1>5. overwritten_since(k, q.value, q.since)
    BY <1>4, ServedIsCurrent DEF TransportInv
  <1> HIDE DEF q
  <1>6. /\ pending' \in [Keys -> Request \cup {None}]
        /\ \A j \in Keys : pending'[j] = IF j = k THEN q ELSE pending[j]
    BY <1>3, <1>4 DEF TransportInv, TransportType
  <1> QED BY <1>1, <1>4, <1>5, <1>6, ReadStep DEF TransportInv, TransportType

LEMMA SettleStep == ASSUME TransportInv, NEW k \in Keys, read_settles(k) PROVE TransportInv'
  <1> DEFINE e == [value |-> pending[k].value, expiresAt |-> now + TTL]
  <1>1. /\ UNCHANGED <<now, writes, plain, rest, result, batch>>
        /\ pending[k] # None /\ pending[k].value \notin {Waiting, Failed}
        /\ pending' = [pending EXCEPT ![k] = None]
        /\ cache' = [cache EXCEPT ![k] = e]
    BY DEF read_settles, read_step
  <1>2. pending[k] \in Request /\ pending[k].value \in Nat /\ pending[k].since \in Nat
    BY <1>1 DEF TransportInv, TransportType, Request
  <1>3. /\ under_way(pending[k].since)
        /\ overwritten_since(k, pending[k].value, pending[k].since)
    BY <1>1 DEF TransportInv, RequestsCurrent, request_current, batch_current
  <1>4. e \in Cached /\ e.value = pending[k].value /\ e.expiresAt = now + TTL
    BY <1>2, TransportAssumption DEF TransportInv, TransportType, Cached
  <1>5. overwritten_since(k, e.value, e.expiresAt - TTL - MaxDelay)
    <2>1. SUFFICES ASSUME NEW w \in writes[k], e.value < w
                   PROVE  e.expiresAt - TTL - MaxDelay <= w
      BY DEF overwritten_since
    <2>2. w \in Nat /\ now \in Nat
      BY DEF TransportInv, TransportType
    <2>3. pending[k].since <= w /\ now <= pending[k].since + MaxDelay
      BY <1>3, <1>4, <2>1 DEF overwritten_since, under_way
    <2> QED BY <1>2, <1>4, <2>2, <2>3, TransportAssumption
  <1>6. e.expiresAt <= now + TTL
    BY <1>4, TransportAssumption DEF TransportInv, TransportType
  <1> HIDE DEF e
  <1>7. /\ cache' \in [Keys -> Cached \cup {None}]
        /\ \A j \in Keys : cache'[j] = IF j = k THEN e ELSE cache[j]
    BY <1>1, <1>4 DEF TransportInv, TransportType
  <1>8. /\ pending' \in [Keys -> Request \cup {None}]
        /\ \A j \in Keys : pending'[j] \in {pending[j], None}
    BY <1>1 DEF TransportInv, TransportType
  <1> QED BY <1>1, <1>5, <1>6, <1>7, <1>8, ReadStep DEF TransportInv, TransportType

LEMMA FailStep == ASSUME TransportInv, NEW k \in Keys, read_fails(k) PROVE TransportInv'
  <1>1. /\ UNCHANGED <<now, writes, plain, rest, result, batch, cache>>
        /\ pending' = [pending EXCEPT ![k] = None]
    BY DEF read_fails, read_step
  <1>2. /\ pending' \in [Keys -> Request \cup {None}]
        /\ \A j \in Keys : pending'[j] \in {pending[j], None}
    BY <1>1 DEF TransportInv, TransportType
  <1> QED BY <1>1, <1>2, ReadStep DEF TransportInv, TransportType

LEMMA BatchStep ==
    ASSUME TransportInv, getMultipleAccounts \/ batch_served \/ batch_settles
    PROVE  TransportInv'
  <1>0. /\ pending \in [Keys -> Request \cup {None}] /\ cache \in [Keys -> Cached \cup {None}]
        /\ batch \in BatchRequest \cup {None} /\ now \in Nat
    BY DEF TransportInv, TransportType
  <1>1. CASE getMultipleAccounts
    <2>1. /\ UNCHANGED <<now, writes, plain, rest, result, cache, pending>>
          /\ batch' = [values |-> Waiting, since |-> now]
      BY <1>1 DEF getMultipleAccounts
    <2>2. batch' \in BatchRequest /\ batch'.values = Waiting /\ under_way(batch'.since)
      BY <1>0, <2>1, TransportAssumption DEF BatchRequest, under_way
    <2> QED BY <1>0, <2>1, <2>2, ReadStep
  <1>2. CASE batch_served
    <2> DEFINE vs == [k \in Keys |-> Current(k)]
    <2>1. /\ UNCHANGED <<now, writes, plain, rest, result, cache, pending>>
          /\ batch # None /\ batch' = [batch EXCEPT !.values = vs]
      BY <1>2 DEF batch_served, read_step
    <2>2. vs \in [Keys -> Nat]
      BY CurrentIsLatest DEF TransportInv
    <2>3. \A k \in Keys : overwritten_since(k, vs[k], batch.since)
      BY ServedIsCurrent DEF TransportInv
    <2> HIDE DEF vs
    <2>4. batch' \in BatchRequest /\ batch'.values = vs /\ batch'.since = batch.since
      BY <1>0, <2>1, <2>2 DEF BatchRequest
    <2>5. under_way(batch.since)
      BY <2>1 DEF TransportInv, RequestsCurrent, request_current, batch_current
    <2> QED BY <1>0, <2>1, <2>3, <2>4, <2>5, ReadStep
  <1>3. CASE batch_settles
    <2>1. /\ UNCHANGED <<now, writes, plain, rest, result, pending>>
          /\ batch # None /\ batch' = None
          /\ \/ UNCHANGED cache
             \/ /\ batch.values # Waiting
                /\ cache' = [k \in Keys |-> [value |-> batch.values[k], expiresAt |-> now + TTL]]
      BY <1>3 DEF batch_settles, read_step
    <2>2. CASE UNCHANGED cache
      BY <1>0, <2>1, <2>2, ReadStep
    <2>3. CASE /\ batch.values # Waiting
               /\ cache' = [k \in Keys |-> [value |-> batch.values[k], expiresAt |-> now + TTL]]
      <3>1. batch.values \in [Keys -> Nat] /\ batch.since \in Nat
        BY <1>0, <2>1, <2>3 DEF BatchRequest
      <3>2. now + TTL \in Nat /\ now + TTL <= now + TTL
        BY <1>0, TransportAssumption
      <3>3. cache' \in [Keys -> Cached \cup {None}]
        BY <2>3, <3>1, <3>2 DEF Cached
      <3>4. \A k \in Keys : cache'[k].value = batch.values[k] /\ cache'[k].expiresAt = now + TTL
        BY <2>3
      <3>5. \A k \in Keys : overwritten_since(k, cache'[k].value,
                                             cache'[k].expiresAt - TTL - MaxDelay)
        <4> SUFFICES ASSUME NEW k \in Keys, NEW w \in writes[k], cache'[k].value < w
                     PROVE  cache'[k].expiresAt - TTL - MaxDelay <= w
          BY DEF overwritten_since
        <4>0. batch.values[k] < w /\ cache'[k].expiresAt = now + TTL
          BY <3>4
        <4>1. w \in Nat
          BY DEF TransportInv, TransportType
        <4>2. batch.since <= w /\ now <= batch.since + MaxDelay
          BY <2>1, <2>3, <4>0
             DEF TransportInv, RequestsCurrent, batch_current, overwritten_since, under_way
        <4> QED BY <1>0, <3>1, <4>0, <4>1, <4>2, TransportAssumption
      <3> QED BY <1>0, <2>1, <3>2, <3>3, <3>4, <3>5, ReadStep
    <2> QED BY <2>1, <2>2, <2>3
  <1> QED BY <1>1, <1>2, <1>3

\* A write happens now, later than everything a request or an entry has seen.
LEMMA WriteStep == ASSUME TransportInv, NEW k \in Keys, write(k) PROVE TransportInv'
  <1>0. TransportType /\ WritesPast /\ now \in Nat
    BY DEF TransportInv, TransportType
  <1>1. /\ UNCHANGED <<now, cache, pending, batch, plain, rest, result>>
        /\ now > Current(k)
        /\ writes' = [writes EXCEPT ![k] = @ \cup {now}]
    BY DEF write
  <1>2. /\ writes' \in [Keys -> SUBSET Nat]
        /\ \A j \in Keys : writes'[j] = IF j = k THEN writes[j] \cup {now} ELSE writes[j]
    BY <1>0, <1>1 DEF TransportType
  <1>3. TransportType'
    BY <1>0, <1>1, <1>2 DEF TransportType
  <1>4. \A j \in Keys : \A w \in writes[j] : w \in Nat
    BY <1>0 DEF TransportType
  <1>5. WritesPast'
    <2>1. \A w \in writes'[k] : now >= w
      BY <1>0, <1>1, <1>2, <1>4 DEF WritesPast
    <2>2. now \in writes'[k]
      BY <1>2
    <2> QED BY <1>0, <1>1, <1>2, <1>4, <2>1, <2>2 DEF WritesPast
  <1>6. \A j \in Keys : \A w \in writes'[j] : w \in writes[j] \/ w = now
    BY <1>2
  <1>7. RequestsCurrent'
    <2>1. ASSUME NEW j \in Keys PROVE request_current(j)'
      BY <1>1, <1>6 DEF TransportInv, RequestsCurrent, request_current, under_way,
                        overwritten_since
    <2>2. batch_current'
      BY <1>1, <1>6 DEF TransportInv, RequestsCurrent, batch_current, under_way,
                        overwritten_since
    <2> QED BY <2>1, <2>2 DEF RequestsCurrent
  <1>8. EntriesCurrent'
    <2>1. SUFFICES ASSUME NEW j \in Keys, cache[j] # None
                   PROVE  /\ cache[j].expiresAt <= now + TTL
                          /\ \A w \in writes'[j] : cache[j].value < w =>
                                cache[j].expiresAt - TTL - MaxDelay <= w
      BY <1>1 DEF EntriesCurrent, overwritten_since
    <2>2. cache[j].expiresAt \in Nat
      BY <1>0, <2>1 DEF TransportType, Cached
    <2>3. /\ cache[j].expiresAt <= now + TTL
          /\ overwritten_since(j, cache[j].value, cache[j].expiresAt - TTL - MaxDelay)
      BY <2>1 DEF TransportInv, EntriesCurrent
    <2>4. cache[j].expiresAt - TTL - MaxDelay <= now
      BY <1>0, <2>2, <2>3, TransportAssumption
    <2> QED BY <1>6, <2>3, <2>4 DEF overwritten_since
  <1>9. RetriesLeft' /\ retries_counted'
    BY <1>1 DEF TransportInv, RetriesLeft, retries_counted
  <1> QED BY <1>3, <1>5, <1>7, <1>8, <1>9 DEF TransportInv

\* The clock does not overtake a request.
LEMMA TickStep == ASSUME TransportInv, tick PROVE TransportInv'
  <1>1. /\ UNCHANGED <<writes, cache, pending, batch, plain, rest, result>>
        /\ now' = now + 1 /\ now \in Nat
    BY DEF tick, reads, TransportInv, TransportType
  <1>2. TransportType'
    BY <1>1 DEF TransportInv, TransportType
  <1>3. WritesPast'
    <2>1. \A k \in Keys : \A w \in writes[k] : w \in Nat
      BY DEF TransportInv, TransportType
    <2> QED BY <1>1, <2>1 DEF TransportInv, WritesPast
  <1>4. RequestsCurrent'
    <2>1. \A k \in Keys : pending[k] # None => pending[k].since \in Nat
      BY DEF TransportInv, TransportType, Request
    <2>2. batch # None => batch.since \in Nat
      BY DEF TransportInv, TransportType, BatchRequest
    <2>3. \A k \in Keys : pending[k] # None => under_way(pending[k].since)'
      BY <1>1, <2>1, TransportAssumption
         DEF tick, TransportInv, RequestsCurrent, request_current, under_way
    <2>4. batch # None => under_way(batch.since)'
      BY <1>1, <2>2, TransportAssumption
         DEF tick, TransportInv, RequestsCurrent, batch_current, under_way
    <2>5. ASSUME NEW k \in Keys PROVE request_current(k)'
      BY <1>1, <2>3 DEF TransportInv, RequestsCurrent, request_current, under_way,
                        overwritten_since
    <2>6. batch_current'
      BY <1>1, <2>4 DEF TransportInv, RequestsCurrent, batch_current, under_way,
                        overwritten_since
    <2> QED BY <2>5, <2>6 DEF RequestsCurrent
  <1>5. EntriesCurrent'
    <2>1. \A k \in Keys : cache[k] # None => cache[k].expiresAt \in Nat
      BY DEF TransportInv, TransportType, Cached
    <2>2. \A k \in Keys : cache[k] # None => cache[k].expiresAt <= now' + TTL
      BY <1>1, <2>1, TransportAssumption DEF TransportInv, EntriesCurrent
    <2> QED BY <1>1, <2>2 DEF TransportInv, EntriesCurrent, overwritten_since
  <1>6. RetriesLeft' /\ retries_counted'
    BY <1>1 DEF TransportInv, RetriesLeft, retries_counted
  <1> QED BY <1>2, <1>3, <1>4, <1>5, <1>6 DEF TransportInv

\* The other calls do not touch the account reads.
LEMMA CallStep ==
    ASSUME TransportInv, UNCHANGED <<now, writes, cache, pending, batch>>,
           plain' \in SingleOps \cup {None},
           rest' \in RestCall \cup {None}, result' \in Result \cup {None},
           RetriesLeft', retries_counted'
    PROVE  TransportInv'
  <1>1. TransportType'
    BY DEF TransportInv, TransportType
  <1>2. WritesPast'
    BY DEF TransportInv, WritesPast
  <1>3. RequestsCurrent'
    <2>1. ASSUME NEW k \in Keys PROVE request_current(k)'
      BY DEF TransportInv, RequestsCurrent, request_current, under_way, overwritten_since
    <2>2. batch_current'
      BY DEF TransportInv, RequestsCurrent, batch_current, under_way, overwritten_since
    <2> QED BY <2>1, <2>2 DEF RequestsCurrent
  <1>4. EntriesCurrent'
    BY DEF TransportInv, EntriesCurrent, overwritten_since
  <1> QED BY <1>1, <1>2, <1>3, <1>4 DEF TransportInv

LEMMA SingleStep ==
    ASSUME TransportInv, single_settles \/ \E op \in SingleOps : single_calls(op)
    PROVE  TransportInv'
  <1>1. /\ UNCHANGED <<now, writes, cache, pending, batch, rest, result>>
        /\ plain' \in SingleOps \cup {None}
    BY DEF single_settles, single_calls, reads
  <1>2. RetriesLeft' /\ retries_counted'
    BY <1>1 DEF TransportInv, RetriesLeft, retries_counted
  <1> QED BY <1>1, <1>2, CallStep DEF TransportInv, TransportType

LEMMA RestStep ==
    ASSUME TransportInv,
           \/ \E op \in RestOps : rest_calls(op)
           \/ \E s \in Statuses : rest_responds(s)
           \/ rest_retries \/ rest_body
    PROVE  TransportInv'
  <1>0. /\ rest # None => rest \in RestCall /\ rest.attempt \in Nat /\ rest.attempt <= Retries
        /\ result \in Result \cup {None} /\ plain \in SingleOps \cup {None}
    BY DEF TransportInv, TransportType, RestCall, retries_counted
  <1>a. Retries \in Nat
    BY TransportAssumption
  <1>b. /\ UNCHANGED <<now, writes, cache, pending, batch, plain>>
    BY DEF rest_calls, rest_responds, rest_retries, rest_body, reads
  <1>1. ASSUME NEW op \in RestOps, rest_calls(op) PROVE TransportInv'
    <2>1. rest' = [op |-> op, attempt |-> 0, state |-> "request"] /\ result' = None
      BY <1>1 DEF rest_calls
    <2>2. rest' \in RestCall /\ rest'.attempt = 0 /\ rest'.state = "request"
      BY <2>1 DEF RestCall
    <2>3. RetriesLeft' /\ retries_counted'
      BY <1>a, <2>1, <2>2 DEF RetriesLeft, retries_counted
    <2> QED BY <1>0, <1>b, <2>1, <2>2, <2>3, CallStep
  <1>2. ASSUME NEW s \in Statuses, rest_responds(s) PROVE TransportInv'
    <2>1. rest # None /\ rest \in RestCall
      BY <1>0, <1>2 DEF rest_responds
    <2>2. CASE s = "ok"
      <3>1. rest' = [rest EXCEPT !.state = "body"] /\ result' = result
        BY <1>2, <2>2 DEF rest_responds, Passing
      <3>2. rest' \in RestCall /\ rest'.attempt = rest.attempt /\ rest'.state = "body"
        BY <2>1, <3>1 DEF RestCall
      <3>3. RetriesLeft' /\ retries_counted'
        BY <1>0, <2>1, <3>1, <3>2 DEF TransportInv, RetriesLeft, retries_counted
      <3> QED BY <1>0, <1>b, <3>1, <3>2, <3>3, CallStep
    <2>3. CASE s \in Passing /\ tries_left(rest.attempt)
      <3>1. rest' = [rest EXCEPT !.state = "delay"] /\ result' = result
        BY <1>2, <2>3 DEF rest_responds, Passing
      <3>2. rest' \in RestCall /\ rest'.attempt = rest.attempt /\ rest'.state = "delay"
        BY <2>1, <3>1 DEF RestCall
      <3>3. RetriesLeft' /\ retries_counted'
        BY <1>0, <2>1, <2>3, <3>1, <3>2
           DEF TransportInv, RetriesLeft, retries_counted, tries_left
      <3> QED BY <1>0, <1>b, <3>1, <3>2, <3>3, CallStep
    <2>4. CASE s # "ok" /\ ~(s \in Passing /\ tries_left(rest.attempt))
      <3> DEFINE o == IF s = "404" /\ rest.op = "getProcessedTransaction"
                      THEN "null" ELSE "error"
      <3>1. rest' = None /\ result' = [outcome |-> o, status |-> s, sent |-> rest.attempt + 1]
        BY <1>2, <2>4 DEF rest_responds
      <3>2. PICK n \in Nat : n = rest.attempt + 1
        BY <1>0, <2>1
      <3>3. o \in {"value", "null", "error"}
        OBVIOUS
      <3> HIDE DEF o
      <3>4. result' \in Result /\ result'.status = s /\ result'.sent = rest.attempt + 1
        BY <3>1, <3>2, <3>3 DEF Result
      <3>5. s \in Passing => rest.attempt + 1 = Retries + 1
        BY <1>0, <1>a, <2>1, <2>4 DEF tries_left
      <3>6. RetriesLeft' /\ retries_counted'
        BY <3>1, <3>4, <3>5 DEF RetriesLeft, retries_counted
      <3> QED BY <1>0, <1>b, <3>1, <3>4, <3>6, CallStep
    <2> QED BY <2>2, <2>3, <2>4
  <1>3. CASE rest_retries
    <2>1. /\ rest # None /\ rest \in RestCall /\ rest.state = "delay"
          /\ rest' = [rest EXCEPT !.attempt = @ + 1, !.state = "request"]
          /\ result' = result
      BY <1>0, <1>3 DEF rest_retries
    <2>2. PICK n \in Nat : n = rest.attempt + 1
      BY <1>0, <2>1
    <2>3. rest' = [rest EXCEPT !.attempt = n, !.state = "request"]
      BY <2>1, <2>2
    <2>4. rest' \in RestCall /\ rest'.attempt = n /\ rest'.state = "request"
      BY <2>1, <2>3 DEF RestCall
    <2>5. n <= Retries
      BY <1>0, <1>a, <2>1, <2>2 DEF TransportInv, RetriesLeft
    <2>6. RetriesLeft' /\ retries_counted'
      BY <2>1, <2>4, <2>5 DEF TransportInv, RetriesLeft, retries_counted
    <2> QED BY <1>0, <1>b, <2>1, <2>4, <2>6, CallStep
  <1>4. CASE rest_body
    <2>1. rest # None /\ rest \in RestCall /\ rest' = None
      BY <1>0, <1>4 DEF rest_body
    <2>2. PICK o \in {"value", "error"} :
            result' = [outcome |-> o, status |-> "ok", sent |-> rest.attempt + 1]
      BY <1>4 DEF rest_body
    <2>3. PICK n \in Nat : n = rest.attempt + 1
      BY <1>0, <2>1
    <2>4. result' \in Result /\ result'.status = "ok"
      BY <2>2, <2>3 DEF Result, Statuses
    <2>5. RetriesLeft' /\ retries_counted'
      BY <2>1, <2>4 DEF RetriesLeft, retries_counted, Passing
    <2> QED BY <1>0, <1>b, <2>1, <2>4, <2>5, CallStep
  <1> QED BY <1>1, <1>2, <1>3, <1>4

LEMMA TransportInit == Init => TransportInv
  <1> SUFFICES ASSUME Init PROVE TransportInv
    OBVIOUS
  <1>1. TransportType
    BY DEF Init, TransportType
  <1>2. WritesPast
    BY DEF Init, WritesPast
  <1>3. RequestsCurrent /\ EntriesCurrent
    BY DEF Init, RequestsCurrent, request_current, batch_current, EntriesCurrent
  <1>4. RetriesLeft /\ retries_counted
    BY DEF Init, RetriesLeft, retries_counted
  <1> QED BY <1>1, <1>2, <1>3, <1>4 DEF TransportInv

-----------------------------------------------------------------------------
(* Theorems                                                                *)

\* The invariant behind the promises below: every answer under way and every
\* entry of the cache was current within its window, and retries are counted.
THEOREM TransportInvariant == Spec => []TransportInv
  <1>1. TransportInv /\ [Next]_vars => TransportInv'
    <2> SUFFICES ASSUME TransportInv, [Next]_vars PROVE TransportInv'
      OBVIOUS
    <2>1. ASSUME NEW r \in Readers, NEW k \in Keys, readAccountInfo(r, k) PROVE TransportInv'
      BY <2>1, JoinStep
    <2>2. ASSUME NEW k \in Keys, node_serves(k) \/ read_settles(k) \/ read_fails(k) \/ write(k)
          PROVE  TransportInv'
      BY <2>2, ServeStep, SettleStep, FailStep, WriteStep
    <2>3. CASE UNCHANGED vars
      <3>1. /\ UNCHANGED <<now, writes, cache, pending, batch, plain, rest, result>>
        BY <2>3 DEF vars, reads
      <3>2. RetriesLeft' /\ retries_counted'
        BY <3>1 DEF TransportInv, RetriesLeft, retries_counted
      <3> QED BY <3>1, <3>2, CallStep DEF TransportInv, TransportType
    <2> QED BY <2>1, <2>2, <2>3, BatchStep, SingleStep, RestStep, TickStep
        DEF Next, SingleOps
  <1> QED BY <1>1, TransportInit, PTL DEF Spec

\* What the cache hands out was the account's content less than TTL + MaxDelay
\* ago, for any number of readers, batches and writes that overlap.
THEOREM CacheFreshAlways == Spec => []CacheFresh
  <1>1. TransportInv => CacheFresh
    <2> SUFFICES ASSUME TransportInv, NEW k \in Keys, cached(k), NEW w \in writes[k],
                        cache[k].value < w, w <= now - TTL - MaxDelay
                 PROVE  FALSE
      BY DEF CacheFresh
    <2>1. /\ cache[k] # None /\ cache[k].expiresAt > now
          /\ cache[k].expiresAt - TTL - MaxDelay <= w
      BY DEF cached, TransportInv, EntriesCurrent, overwritten_since
    <2>2. cache[k].expiresAt \in Nat /\ w \in Nat /\ now \in Nat
      BY <2>1 DEF TransportInv, TransportType, Cached
    <2> QED BY <2>1, <2>2, TransportAssumption
  <1> QED BY <1>1, TransportInvariant, PTL

\* No request under way is one the proxy turns away.
THEOREM ReachesUpstreamAlways == Spec => []ReachesUpstream
  <1>1. TransportInv => ReachesUpstream
    <2> SUFFICES ASSUME TransportInv PROVE ReachesUpstream
      OBVIOUS
    <2>1. plain # None => plain \in RpcOps \cup FeedOps
      BY DEF TransportInv, TransportType, SingleOps
    <2>2. rest # None => rest.op \in RestOps
      BY DEF TransportInv, TransportType, RestCall
    <2>3. "getMultipleAccounts" \in RpcOps /\ "readAccountInfo" \in RpcOps
      BY DEF RpcOps
    <2> QED BY <2>1, <2>2, <2>3, RoutesAllowed DEF ReachesUpstream
  <1> QED BY <1>1, TransportInvariant, PTL

\* requestJson never sends more than Retries further requests, and reports a
\* failure that may pass only after all of them.
THEOREM RetriesCounted == Spec => []retries_counted
  <1>1. TransportInv => retries_counted
    BY DEF TransportInv
  <1> QED BY <1>1, TransportInvariant, PTL
=============================================================================
