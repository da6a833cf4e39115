------------------------------ MODULE Transport ------------------------------
(***************************************************************************)
(* The SDK's transport as the manager uses it (createSplitAnsTransport):   *)
(* JSON-RPC with a short-lived cache of account reads and shared requests, *)
(* Explorer REST with retries, and the proxy both pass through.            *)
(*                                                                         *)
(* Time is counted in ticks.  An account's content is the tick it was last *)
(* written at (0: as it was, or absent).                                   *)
(***************************************************************************)
EXTENDS Integers, FiniteSets, FiniteSetsExt

CONSTANTS
    Keys, Readers,
    TTL,        \* ACCOUNT_CACHE_TTL_MS
    Retries,    \* DEFAULT_RETRIES
    MaxDelay,   \* assumed: an RPC request is answered or fails within this time
    None, Waiting, Failed,
    MaxTime,    \* bound: ticks
    MaxFails,   \* bound: RPC requests that fail
    MaxWrites,  \* bound: writes to an account
    MaxCalls    \* bound: calls other than account reads

ASSUME TransportAssumption ==
    /\ {TTL, Retries, MaxDelay, MaxTime, MaxFails, MaxWrites, MaxCalls} \subseteq Nat
    /\ TTL > 0 /\ MaxDelay > 0

VARIABLES
    now,
    writes,   \* writes[k]: the ticks account k was written at
    cache,    \* accountCache: value and expiry, or None
    pending,  \* inflightReads: the value once the node served it, and its start
    batch,    \* a get_multiple_accounts request, or None
    waiting,  \* waiting[r]: the account reader r waits for, or None
    got,      \* got[r]: whether r's last read returned "ok" or Failed; None: no read yet
    plain,    \* another JSON-RPC call under way, or None
    rest,     \* an Explorer REST call under way, or None
    result,   \* the outcome of the last REST call, or None
    fails, calls

reads == <<writes, cache, pending, batch, waiting, got>>
vars == <<now, reads, plain, rest, result, fails, calls>>

-----------------------------------------------------------------------------
(* Routes of the split transport, and the proxy's allowlists.              *)

RpcOps == {"readAccountInfo", "getMultipleAccounts", "getProgramAccounts",
           "sendTransaction", "createAccountWithFaucet"}
\* createExplorerRestTransport's calls, and the activity feeds' own GET.
RestOps == {"getCurrentSlot", "getBestBlockHash", "getProcessedTransaction"}
FeedOps == {"fetchTransactionRows"}

\* Every call on JSON-RPC, as the plain RPC transport does it.
route_all_rpc(op) ==
    CASE op = "getProcessedTransaction" -> [path |-> "/rpc", verb |-> "POST", what |-> "get_processed_transaction"]
      [] op = "getCurrentSlot" -> [path |-> "/rpc", verb |-> "POST", what |-> "get_slot"]
      [] op = "getBestBlockHash" -> [path |-> "/rpc", verb |-> "POST", what |-> "get_best_block_hash"]
      [] OTHER -> [path |-> "/rpc", verb |-> "POST", what |-> "read_account_info"]
\* What a call puts on the wire.
route(op) ==
    CASE op = "readAccountInfo" -> [path |-> "/rpc", verb |-> "POST", what |-> "read_account_info"]
      [] op = "getMultipleAccounts" -> [path |-> "/rpc", verb |-> "POST", what |-> "get_multiple_accounts"]
      [] op = "getProgramAccounts" -> [path |-> "/rpc", verb |-> "POST", what |-> "get_program_accounts"]
      [] op = "sendTransaction" -> [path |-> "/rpc", verb |-> "POST", what |-> "send_transaction"]
      [] op = "createAccountWithFaucet" -> [path |-> "/rpc", verb |-> "POST", what |-> "create_account_with_faucet"]
      [] op = "getCurrentSlot" -> [path |-> "/explorer", verb |-> "GET", what |-> "network/"]
      [] op = "getBestBlockHash" -> [path |-> "/explorer", verb |-> "GET", what |-> "blocks/"]
      [] op = "getProcessedTransaction" -> [path |-> "/explorer", verb |-> "GET", what |-> "transactions/"]
      [] op = "fetchTransactionRows" -> [path |-> "/explorer", verb |-> "GET", what |-> "accounts/"]

ALLOWED_RPC_METHODS == {"create_account_with_faucet", "get_multiple_accounts",
                        "get_program_accounts", "read_account_info", "send_transaction"}
\* A path is its first segment: "blocks" itself counts as "blocks/".
ALLOWED_REST_PREFIXES == {"accounts/", "programs/", "search", "network/", "blocks/", "transactions/"}

\* The status the proxy answers by itself, or "upstream".
handler(q) ==
    CASE q.path = "/rpc" ->
           IF q.verb # "POST" THEN "405"
           ELSE IF q.what \in ALLOWED_RPC_METHODS THEN "upstream" ELSE "400"
      [] q.path = "/explorer" ->
           IF q.verb \notin {"GET", "HEAD"} THEN "405"
           ELSE IF q.what \in ALLOWED_REST_PREFIXES THEN "upstream" ELSE "403"
      [] OTHER -> "404"

-----------------------------------------------------------------------------
Current(k) == Max(writes[k])

Init ==
    /\ now = 0 /\ writes = [k \in Keys |-> {0}]
    /\ cache = [k \in Keys |-> None] /\ pending = [k \in Keys |-> None] /\ batch = None
    /\ waiting = [r \in Readers |-> None] /\ got = [r \in Readers |-> None]
    /\ plain = None /\ rest = None /\ result = None
    /\ fails = 0 /\ calls = 0

\* Account reads and other calls do not touch one another.
read_step == UNCHANGED <<now, plain, rest, result, calls>>

cached(k) == cache[k] # None /\ cache[k].expiresAt > now

\* A cached answer, each use of which makes it last longer.
readAccountInfo_sliding(r, k) ==
    /\ waiting[r] = None
    /\ IF cached(k)
       THEN /\ got' = [got EXCEPT ![r] = "ok"]
            /\ cache' = [cache EXCEPT ![k].expiresAt = now + TTL]
            /\ UNCHANGED <<waiting, pending>>
       ELSE /\ waiting' = [waiting EXCEPT ![r] = k]
            /\ pending' = IF pending[k] # None THEN pending
                          ELSE [pending EXCEPT ![k] = [value |-> Waiting, since |-> now]]
            /\ UNCHANGED <<got, cache>>
    /\ read_step /\ UNCHANGED <<writes, batch, fails>>
\* The cached answer, or the request that is under way, or a new one.  A
\* request that is there but has failed hands its failure on.
readAccountInfo(r, k) ==
    /\ waiting[r] = None
    /\ IF cached(k) THEN got' = [got EXCEPT ![r] = "ok"] /\ UNCHANGED <<waiting, pending>>
       ELSE IF pending[k] # None /\ pending[k].value = Failed
       THEN got' = [got EXCEPT ![r] = Failed] /\ UNCHANGED <<waiting, pending>>
       ELSE /\ waiting' = [waiting EXCEPT ![r] = k]
            /\ pending' = IF pending[k] # None THEN pending
                          ELSE [pending EXCEPT ![k] = [value |-> Waiting, since |-> now]]
            /\ UNCHANGED got
    /\ read_step /\ UNCHANGED <<writes, cache, batch, fails>>

\* Everyone who waits for k is answered with v.
answered(k, v) ==
    /\ got' = [r \in Readers |-> IF waiting[r] = k THEN v ELSE got[r]]
    /\ waiting' = [r \in Readers |-> IF waiting[r] = k THEN None ELSE waiting[r]]

node_serves(k) ==
    /\ pending[k] # None /\ pending[k].value = Waiting
    /\ pending' = [pending EXCEPT ![k].value = Current(k)]
    /\ read_step /\ UNCHANGED <<writes, cache, batch, waiting, got, fails>>

\* The answer arrives: cached for TTL from now, and handed out.
read_settles(k) ==
    /\ pending[k] # None /\ pending[k].value \notin {Waiting, Failed}
    /\ cache' = [cache EXCEPT ![k] = [value |-> pending[k].value, expiresAt |-> now + TTL]]
    /\ pending' = [pending EXCEPT ![k] = None]
    /\ answered(k, "ok")
    /\ read_step /\ UNCHANGED <<writes, batch, fails>>

\* The failed request stays where later reads find it.
read_fails_kept(k) ==
    /\ pending[k] # None /\ pending[k].value # Failed /\ fails < MaxFails
    /\ fails' = fails + 1
    /\ pending' = [pending EXCEPT ![k].value = Failed]
    /\ answered(k, Failed)
    /\ read_step /\ UNCHANGED <<writes, cache, batch>>
\* Nothing is cached, and the request is forgotten as well.
read_fails(k) ==
    /\ pending[k] # None /\ pending[k].value # Failed /\ fails < MaxFails
    /\ fails' = fails + 1
    /\ pending' = [pending EXCEPT ![k] = None]
    /\ answered(k, Failed)
    /\ read_step /\ UNCHANGED <<writes, cache, batch>>

\* getMultipleAccounts asks neither the cache nor the reads under way, and
\* its answer goes into the cache; failing, it leaves nothing behind.
getMultipleAccounts ==
    /\ batch = None /\ calls < MaxCalls /\ calls' = calls + 1
    /\ batch' = [values |-> Waiting, since |-> now]
    /\ UNCHANGED <<now, plain, rest, result, writes, cache, pending, waiting, got, fails>>

batch_served ==
    /\ batch # None /\ batch.values = Waiting
    /\ batch' = [batch EXCEPT !.values = [k \in Keys |-> Current(k)]]
    /\ read_step /\ UNCHANGED <<writes, cache, pending, waiting, got, fails>>

batch_settles ==
    /\ batch # None
    /\ batch' = None
    /\ \/ /\ batch.values # Waiting
          /\ cache' = [k \in Keys |-> [value |-> batch.values[k], expiresAt |-> now + TTL]]
          /\ UNCHANGED fails
       \/ fails < MaxFails /\ fails' = fails + 1 /\ UNCHANGED cache
    /\ read_step /\ UNCHANGED <<writes, pending, waiting, got>>

\* getProgramAccounts, sendTransaction, the faucet call and the feeds' GET:
\* one request each, never repeated.
single_calls(op) ==
    /\ plain = None /\ calls < MaxCalls /\ calls' = calls + 1
    /\ plain' = op
    /\ UNCHANGED <<now, reads, rest, result, fails>>

single_settles ==
    /\ plain # None /\ plain' = None
    /\ UNCHANGED <<now, reads, rest, result, fails, calls>>

-----------------------------------------------------------------------------
(* requestJson: one GET, tried again after a failure that may pass.        *)

Passing == {"network", "timeout", "429", "5xx"}
Statuses == Passing \cup {"404", "4xx", "ok"}

rest_calls(op) ==
    /\ rest = None /\ calls < MaxCalls /\ calls' = calls + 1
    /\ rest' = [op |-> op, attempt |-> 0, state |-> "request"] /\ result' = None
    /\ UNCHANGED <<now, reads, plain, fails>>

tries_left(attempt) == attempt < Retries

rest_responds(s) ==
    /\ rest # None /\ rest.state = "request"
    /\ CASE s = "ok" -> rest' = [rest EXCEPT !.state = "body"] /\ UNCHANGED result
         [] s \in Passing /\ tries_left(rest.attempt) ->
              rest' = [rest EXCEPT !.state = "delay"] /\ UNCHANGED result
         [] OTHER -> /\ rest' = None   \* a 404 means "no such transaction", or nothing to read
                     /\ result' = [outcome |-> IF s = "404" /\ rest.op = "getProcessedTransaction"
                                              THEN "null" ELSE "error",
                                   status |-> s, sent |-> rest.attempt + 1]
    /\ UNCHANGED <<now, reads, plain, fails, calls>>

\* A retry that counts as the first attempt again.
rest_retries_uncounted ==
    /\ rest # None /\ rest.state = "delay"
    /\ rest' = [rest EXCEPT !.state = "request"]
    /\ UNCHANGED <<now, reads, plain, result, fails, calls>>
rest_retries ==
    /\ rest # None /\ rest.state = "delay"
    /\ rest' = [rest EXCEPT !.attempt = @ + 1, !.state = "request"]
    /\ UNCHANGED <<now, reads, plain, result, fails, calls>>

\* The body is read after the timeout has been cleared, and only once.
rest_body ==
    /\ rest # None /\ rest.state = "body"
    /\ rest' = None
    /\ \E o \in {"value", "error"} :
         result' = [outcome |-> o, status |-> "ok", sent |-> rest.attempt + 1]
    /\ UNCHANGED <<now, reads, plain, fails, calls>>

-----------------------------------------------------------------------------
\* Time passes, but no RPC request outlives MaxDelay.
tick ==
    /\ now < MaxTime
    /\ \A k \in Keys : pending[k] # None => now < pending[k].since + MaxDelay
    /\ batch # None => now < batch.since + MaxDelay
    /\ now' = now + 1
    /\ UNCHANGED <<reads, plain, rest, result, fails, calls>>

write(k) ==
    /\ now > Current(k) /\ Cardinality(writes[k]) <= MaxWrites
    /\ writes' = [writes EXCEPT ![k] = @ \cup {now}]
    /\ UNCHANGED <<now, cache, pending, batch, waiting, got, plain, rest, result, fails, calls>>

Next ==
    \/ \E r \in Readers, k \in Keys : readAccountInfo(r, k)
    \/ \E k \in Keys : node_serves(k) \/ read_settles(k) \/ read_fails(k) \/ write(k)
    \/ getMultipleAccounts \/ batch_served \/ batch_settles
    \/ \E op \in (RpcOps \cup FeedOps) \ {"readAccountInfo", "getMultipleAccounts"} : single_calls(op)
    \/ single_settles
    \/ \E op \in RestOps : rest_calls(op)
    \/ \E s \in Statuses : rest_responds(s)
    \/ rest_retries \/ rest_body
    \/ tick

\* Readers ask again, and the node answers.
Fairness ==
    /\ \A r \in Readers, k \in Keys : WF_vars(readAccountInfo(r, k) /\ (got' # got \/ waiting' # waiting))
    /\ \A k \in Keys : WF_vars(node_serves(k)) /\ WF_vars(read_settles(k))
    /\ WF_vars(\E s \in Statuses : rest_responds(s)) /\ WF_vars(rest_retries) /\ WF_vars(rest_body)

Spec == Init /\ [][Next]_vars /\ Fairness

-----------------------------------------------------------------------------
(* Properties.                                                             *)

\* readAccountInfo and getMultipleAccounts: what the cache hands out was the
\* account's content less than TTL + MaxDelay ago, whichever of the requests
\* that overlapped filled it.
CacheFresh ==
    \A k \in Keys : cached(k) =>
        ~\E w \in writes[k] : cache[k].value < w /\ w <= now - TTL - MaxDelay

\* readAccountInfo's shared requests: a failure reaches those who waited for
\* it and nobody after; once requests succeed, reads do too.
ReadsRecover == <>[](\A r \in Readers : got[r] # Failed)

retries_counted ==
    /\ rest # None => rest.attempt <= Retries
    /\ (result # None /\ result.outcome = "error" /\ result.status \in Passing)
          => result.sent = Retries + 1

\* requestJson: a failure that may pass is reported only after Retries
\* further requests, no more are sent, and the loop ends whatever comes back.
RetriesBounded ==
    /\ []retries_counted
    /\ rest # None ~> rest = None

\* createSplitAnsTransport with the proxy: no call of the manager is one that
\* the proxy turns away.
ReachesUpstream ==
    /\ plain # None => handler(route(plain)) = "upstream"
    /\ rest # None => handler(route(rest.op)) = "upstream"
    /\ batch # None => handler(route("getMultipleAccounts")) = "upstream"
    /\ (\E k \in Keys : pending[k] # None) => handler(route("readAccountInfo")) = "upstream"

=============================================================================
