---------------------------- MODULE ProfileCache ----------------------------
(***************************************************************************)
(* The profile cache of the manager (name-profile.ts) and the page that    *)
(* loads through it: an entry per connected account with a time to live,   *)
(* at most one request in flight per entry, and an invalidation after the  *)
(* page's own mutations.  One name; a profile is abstracted to the version *)
(* of the chain's state it was read from.                                  *)
(***************************************************************************)
EXTENDS Naturals

CONSTANTS
    Accounts,    \* connected accounts: each one has its own cache key
    Requests,    \* identities of requests in flight
    None,        \* a value that stands for nothing there
    MaxWrites,   \* bound: writes to the name
    MaxSwitches  \* bound: changes of the connected account

\* An entry of the cache, a request and what the node has read for it so far,
\* and a profile on the page.
Entry == [version : Nat, live : BOOLEAN]
Flight == [key : Accounts, read : Nat \cup {None}]
Profile == [key : Accounts, version : Nat]

ASSUME CacheAssumption ==
    /\ None \notin Accounts /\ None \notin Requests /\ None \notin Nat
    /\ None \notin Entry /\ None \notin Flight /\ None \notin Profile
    /\ MaxWrites \in Nat /\ MaxSwitches \in Nat

VARIABLES
    chain,     \* version of the name's accounts
    cache,     \* cache[k]: the entry of key k, or None
    inflight,  \* inflight[r]: the request r, or None
    page,      \* ManageView: account, txid shown, effect due, request awaited
    shown,     \* the profile on the page, or None
    save,      \* the page's own mutation: "none", "sent" or "landed"
    own,       \* version when the page last saw its mutation confirmed
    newest,    \* newest[k]: the newest version a response for k carried
    switches

vars == <<chain, cache, inflight, page, shown, save, own, newest, switches>>

Init ==
    /\ chain = 0
    /\ cache = [k \in Accounts |-> None]
    /\ inflight = [r \in Requests |-> None]
    /\ \E k \in Accounts :
         page = [account |-> k, txid |-> FALSE, due |-> TRUE, awaits |-> None, error |-> FALSE]
    /\ shown = None
    /\ save = "none"
    /\ own = 0
    /\ newest = [k \in Accounts |-> 0]
    /\ switches = 0

-----------------------------------------------------------------------------
(* name-profile.ts                                                         *)

invalidateNameProfile(entries) == [k \in Accounts |-> None]

\* Every load that misses the cache sends a request of its own.
pending_never(k) == {}

\* The requests a load of key k joins instead of sending one.
pending(k) == {r \in Requests : inflight[r] # None /\ inflight[r].key = k}

\* The page's load after the invalidation, if any, has left `entries`.
loadNameProfile(entries) ==
    LET k == page.account
        hit == entries[k] # None /\ entries[k].live
        settled == [page EXCEPT !.due = FALSE, !.error = FALSE, !.awaits = None]
    IN  \/ /\ hit
           /\ shown' = [key |-> k, version |-> entries[k].version]
           /\ page' = settled
           /\ UNCHANGED inflight
        \/ /\ ~hit
           /\ \E r \in pending(k) : page' = [settled EXCEPT !.awaits = r]
           /\ UNCHANGED <<shown, inflight>>
        \/ /\ ~hit
           /\ pending(k) = {}
           /\ \E r \in Requests :
                /\ inflight[r] = None
                /\ inflight' = [inflight EXCEPT ![r] = [key |-> k, read |-> None]]
                /\ page' = [settled EXCEPT !.awaits = r]
           /\ UNCHANGED shown

\* The time to live of an entry runs out.
expire(k) ==
    /\ cache[k] # None /\ cache[k].live
    /\ cache' = [cache EXCEPT ![k].live = FALSE]
    /\ UNCHANGED <<chain, inflight, page, shown, save, own, newest, switches>>

-----------------------------------------------------------------------------
(* The requests: the node reads its state at one moment, the response      *)
(* arrives at a later one.                                                 *)

node_reads(r) ==
    /\ inflight[r] # None /\ inflight[r].read = None
    /\ inflight' = [inflight EXCEPT ![r].read = chain]
    /\ UNCHANGED <<chain, cache, page, shown, save, own, newest, switches>>

\* A response the page applies whether or not its effect was cancelled.
loadProfileUncached_uncancelled(r) ==
    /\ inflight[r] # None /\ inflight[r].read # None
    /\ LET k == inflight[r].key  v == inflight[r].read
       IN  /\ cache' = [cache EXCEPT ![k] = [version |-> v, live |-> TRUE]]
           /\ newest' = [newest EXCEPT ![k] = IF v > @ THEN v ELSE @]
           /\ shown' = [key |-> k, version |-> v]
    /\ page' = IF page.awaits = r THEN [page EXCEPT !.awaits = None] ELSE page
    /\ inflight' = [inflight EXCEPT ![r] = None]
    /\ UNCHANGED <<chain, save, own, switches>>

\* The response is cached; the page shows it unless a later effect cancelled
\* the one that asked for it.
loadProfileUncached(r) ==
    /\ inflight[r] # None /\ inflight[r].read # None
    /\ LET k == inflight[r].key  v == inflight[r].read
       IN  /\ cache' = [cache EXCEPT ![k] = [version |-> v, live |-> TRUE]]
           /\ newest' = [newest EXCEPT ![k] = IF v > @ THEN v ELSE @]
           /\ shown' = IF page.awaits = r THEN [key |-> k, version |-> v] ELSE shown
    /\ page' = IF page.awaits = r THEN [page EXCEPT !.awaits = None] ELSE page
    /\ inflight' = [inflight EXCEPT ![r] = None]
    /\ UNCHANGED <<chain, save, own, switches>>

request_fails(r) ==
    /\ inflight[r] # None
    /\ inflight' = [inflight EXCEPT ![r] = None]
    /\ page' = IF page.awaits = r THEN [page EXCEPT !.awaits = None, !.error = TRUE] ELSE page
    /\ UNCHANGED <<chain, cache, shown, save, own, newest, switches>>

-----------------------------------------------------------------------------
(* ManageView                                                              *)

\* The load effect, after a render with another account or another txid.
load_effect ==
    /\ page.due
    /\ cache' = IF page.txid THEN invalidateNameProfile(cache) ELSE cache
    /\ loadNameProfile(cache')
    /\ UNCHANGED <<chain, save, own, newest, switches>>

\* run: the page's own mutation is signed and sent.
run ==
    /\ save = "none"
    /\ chain < MaxWrites
    /\ save' = "sent"
    /\ page' = [page EXCEPT !.txid = FALSE, !.due = @ \/ page.txid]
    /\ UNCHANGED <<chain, cache, inflight, shown, own, newest, switches>>

save_lands ==
    /\ save = "sent"
    /\ chain < MaxWrites
    /\ chain' = chain + 1
    /\ save' = "landed"
    /\ UNCHANGED <<cache, inflight, page, shown, own, newest, switches>>

\* run returns: the mutation was seen on chain, or it is not confirmed yet.
run_returns ==
    /\ save \in {"sent", "landed"}
    /\ save' = "none"
    /\ own' = IF save = "landed" THEN chain ELSE own
    /\ page' = [page EXCEPT !.txid = TRUE, !.due = TRUE]
    /\ UNCHANGED <<chain, cache, inflight, shown, newest, switches>>

\* run throws: refused, rejected, or its answer was lost; the txid stays out.
run_throws ==
    /\ save \in {"sent", "landed"}
    /\ save' = "none"
    /\ UNCHANGED <<chain, cache, inflight, page, shown, own, newest, switches>>

\* The wallet reports another account.
switch_account(k) ==
    /\ switches < MaxSwitches
    /\ k # page.account
    /\ switches' = switches + 1
    /\ page' = [page EXCEPT !.account = k, !.due = TRUE]
    /\ UNCHANGED <<chain, cache, inflight, shown, save, own, newest>>

Network == \E r \in Requests : node_reads(r) \/ loadProfileUncached(r) \/ request_fails(r)

Next ==
    \/ Network
    \/ load_effect \/ run \/ save_lands \/ run_returns \/ run_throws
    \/ \E k \in Accounts : expire(k) \/ switch_account(k)

\* A render is followed by its effects, and every request is answered or fails.
Spec ==
    /\ Init /\ [][Next]_vars
    /\ WF_vars(load_effect)
    /\ WF_vars(Network)

-----------------------------------------------------------------------------
(* Properties                                                              *)

at_rest == ~page.due /\ page.awaits = None /\ ~page.error

\* loadNameProfile joins a request in flight instead of racing it, so what the
\* cache holds for a key is never older than a response the key already had.
CacheMovesForward ==
    \A k \in Accounts : cache[k] # None => cache[k].version >= newest[k]

\* ManageView and loadNameProfile: a load ends with a profile or an error (it
\* does not wait on a request that is gone), and a page at rest shows the
\* profile of the account that is connected now, however the loads of two
\* accounts overlap.
LoadsSettle ==
    /\ [](at_rest => shown # None /\ shown.key = page.account)
    /\ (page.awaits # None) ~> (page.awaits = None)

\* invalidateNameProfile: cached profiles are dropped "after a successful
\* mutation so the next load is fresh".  Refuted by TLC and in no run: a load
\* joins a request that was in flight before the mutation.
FreshAfterMutation == at_rest => shown.version >= own
=============================================================================
