---------------------------- MODULE RegisterPage ----------------------------
(***************************************************************************)
(* From a search to a registration: SearchView's lookup, the handoff of    *)
(* the label, and RegisterView's form, wallet recovery and registration,   *)
(* while others register names and the label stays editable.  Submitting   *)
(* (SubmitFlow) is seen from the page: a signer, a transaction that may    *)
(* land, and an answer that may be lost.                                   *)
(***************************************************************************)
EXTENDS Naturals, Sequences, FiniteSets

CONSTANTS
    Names,
    Accounts,      \* the user's
    Rival,
    None,          \* also: no label, or one that is not valid
    Missing, Blank, Junk,  \* a name account that is not there, zeroed, not ours
    Uncached,
    MaxRuns,       \* bound: registrations the user starts
    MaxEdits,      \* bound: edits of the label
    MaxSwitches,   \* bound: times the wallet stops being ready
    MaxSearches    \* bound: searches

Owners == Accounts \cup {Rival}
Slots == Owners \cup {Missing, Blank, Junk}

ASSUME RegisterAssumption ==
    /\ Cardinality({None, Missing, Blank, Junk, Uncached}) = 5
    /\ Rival \notin {None, Missing, Blank, Junk, Uncached}
    /\ {None, Missing, Blank, Junk, Uncached, Rival} \cap (Names \cup Accounts) = {}
    /\ {MaxRuns, MaxEdits, MaxSwitches, MaxSearches} \subseteq Nat

VARIABLES
    slot,      \* slot[n]: the name account of n
    cache,     \* cache[n]: the SDK's cached read of it, or Uncached
    txs,       \* the registrations sent, in order: name, signer, status
    ready,     \* the wallet can sign
    search,    \* the search form: name and state
    page,      \* "search" or "register"
    label,
    busy,
    running,   \* the calls of runRegister under way
    working,   \* the wallet recovery under way: action and the click's label
    notice,    \* the success notice, or None
    error,     \* the failure on screen, or None
    runs, edits, switches, searches

form == <<label, busy, running, working, notice, error>>
bounds == <<runs, edits, switches, searches>>
vars == <<slot, cache, txs, ready, search, page, form, bounds>>

-----------------------------------------------------------------------------
(* Availability.                                                           *)

\* Missing and zeroed accounts are free, initialized ones taken, others unusable.
classifyNameAccountData(s) ==
    CASE s \in {Missing, Blank} -> "available"
      [] s \in Owners -> "taken"
      [] OTHER -> "unavailable"

\* A read through the SDK's account cache, which keeps what it fetched.
readAccountInfo(n, s) ==
    /\ s = IF cache[n] = Uncached THEN slot[n] ELSE cache[n]
    /\ cache' = [cache EXCEPT ![n] = s]

\* Confirmed once the name exists, whoever has it.
nameRegisteredTo_anyone(s, actor) == s \in Owners
nameRegisteredTo(s, actor) == s \in Owners /\ s = actor

-----------------------------------------------------------------------------
(* Init.                                                                   *)

Init ==
    /\ slot \in [Names -> {Missing, Blank, Junk}] /\ cache = [n \in Names |-> Uncached]
    /\ txs = <<>> /\ ready \in BOOLEAN
    /\ search = [name |-> None, state |-> "idle"] /\ page \in {"search", "register"}
    /\ label = None /\ busy = FALSE /\ running = <<>> /\ working = None
    /\ notice = None /\ error = None
    /\ runs = 0 /\ edits = 0 /\ switches = 0 /\ searches = 0

-----------------------------------------------------------------------------
(* Searching, and the handoff to the register page.                        *)

onSearch(n) ==
    /\ page = "search" /\ search.state # "loading" /\ searches < MaxSearches
    /\ searches' = searches + 1
    /\ search' = [name |-> n, state |-> "loading"]
    /\ UNCHANGED <<slot, cache, txs, ready, page, form, runs, edits, switches>>

\* No account and a zeroed one are offered; junk and a failed read are errors.
search_answers ==
    /\ page = "search" /\ search.state = "loading"
    /\ search' \in {[search EXCEPT !.state =
                       CASE classifyNameAccountData(slot[search.name]) = "available" -> "available"
                         [] classifyNameAccountData(slot[search.name]) = "taken" -> "registered"
                         [] OTHER -> "error"],
                    [search EXCEPT !.state = "error"]}
    /\ UNCHANGED <<slot, cache, txs, ready, page, form, bounds>>

\* The link under "is available": /register?label=...
registerPathForLabel ==
    /\ page = "search" /\ search.state = "available"
    /\ page' = "register" /\ label' = search.name
    /\ UNCHANGED <<slot, cache, txs, ready, search, busy, running, working, notice, error, bounds>>

\* The label stays editable whatever is under way; a change clears the notices.
edit_label(l) ==
    /\ page = "register" /\ edits < MaxEdits /\ l # label
    /\ edits' = edits + 1
    /\ label' = l /\ error' = None /\ notice' = None
    /\ UNCHANGED <<slot, cache, txs, ready, search, page, busy, running, working,
                   runs, switches, searches>>

-----------------------------------------------------------------------------
(* The button, and recovering the wallet first.                            *)

starts_run(l) ==
    /\ runs' = runs + 1 /\ busy' = TRUE
    /\ running' = Append(running, [name |-> l, stage |-> "refresh", actor |-> None, tx |-> 0])
    /\ notice' = None /\ error' = None

\* Pressed although a recovery is still under way.
may_click_impatient == ~busy /\ (ready => label # None)
may_click == ~busy /\ working = None /\ (ready => label # None)

\* One click, one wallet request: the recovery of a wallet that cannot sign,
\* or the registration.
onRegister ==
    /\ page = "register" /\ may_click /\ runs < MaxRuns
    /\ IF ready THEN starts_run(label) /\ UNCHANGED working
       ELSE /\ working' = [action |-> "connect", label |-> label]
            /\ error' = None /\ UNCHANGED <<busy, running, notice, runs>>
    /\ UNCHANGED <<slot, cache, txs, ready, search, page, label, edits, switches, searches>>

\* The notice of a signer mismatch offers to adopt the wallet's account.
adopt_clicked ==
    /\ page = "register" /\ error # None /\ error.blocker /\ ~busy /\ working = None
    /\ runs < MaxRuns
    /\ working' = [action |-> "adopt", label |-> label] /\ error' = None
    /\ UNCHANGED <<slot, cache, txs, ready, search, page, label, busy, running, notice, bounds>>

\* An adopted account registers at once, what the form said at the click.
handleRecovery ==
    /\ working # None
    /\ working' = None
    /\ \/ /\ ready' = TRUE
          /\ CASE working.action # "adopt" -> UNCHANGED <<busy, running, notice, error, runs>>
               [] working.label # None -> starts_run(working.label)
               [] OTHER -> /\ error' = [name |-> None, why |-> "label", blocker |-> FALSE, tx |-> 0]
                           /\ notice' = None /\ UNCHANGED <<busy, running, runs>>
       \/ /\ error' = [name |-> working.label, why |-> "wallet", blocker |-> TRUE, tx |-> 0]
          /\ UNCHANGED <<ready, busy, running, notice, runs>>
    /\ UNCHANGED <<slot, cache, txs, search, page, label, edits, switches, searches>>

-----------------------------------------------------------------------------
(* runRegister, call i of those under way.                                 *)

\* Whatever ends a call gives the button back ("finally").
ends(i) == running' = SubSeq(running, 1, i - 1) \o SubSeq(running, i + 1, Len(running))

fails(i, why, blocker) ==
    /\ ends(i) /\ busy' = FALSE /\ UNCHANGED notice
    /\ error' = [name |-> running[i].name, why |-> why, blocker |-> blocker, tx |-> running[i].tx]

goes_on(i, r) == running' = [running EXCEPT ![i] = r] /\ UNCHANGED <<busy, notice, error>>

completes(i, confirmed) ==
    /\ ends(i) /\ busy' = FALSE /\ UNCHANGED error
    /\ notice' = [name |-> running[i].name, actor |-> running[i].actor, confirmed |-> confirmed]

\* The wallet is read again right before the mutation.
wallet_checked(i) ==
    /\ running[i].stage = "refresh"
    /\ IF ready THEN goes_on(i, [running[i] EXCEPT !.stage = "check"])
       ELSE fails(i, "wallet", TRUE)
    /\ UNCHANGED <<slot, cache, txs, ready, search, page, label, working, bounds>>

\* fetchNameAccount, cached reads included; the read itself may fail.
name_checked(i) ==
    /\ running[i].stage = "check"
    /\ \/ \E s \in Slots :
            /\ readAccountInfo(running[i].name, s)
            /\ CASE classifyNameAccountData(s) = "available" ->
                      goes_on(i, [running[i] EXCEPT !.stage = "sign"])
                 [] OTHER -> fails(i, classifyNameAccountData(s), FALSE)
       \/ fails(i, "read", FALSE) /\ UNCHANGED cache
    /\ UNCHANGED <<slot, txs, ready, search, page, label, working, bounds>>

\* submitWithWindowArch up to the answer of send_transaction: declined or a
\* signer that does not match; sent and accepted; the answer lost, whether or
\* not the transaction arrived.
submitted(i) ==
    /\ running[i].stage = "sign"
    /\ \/ /\ fails(i, "wallet", TRUE) /\ UNCHANGED txs
       \/ \E a \in Accounts, status \in {"sent", "lost"}, answered \in BOOLEAN :
            /\ answered => status = "sent"
            /\ txs' = Append(txs, [name |-> running[i].name, signer |-> a, status |-> status])
            /\ LET r == [running[i] EXCEPT !.stage = "confirm", !.actor = a, !.tx = Len(txs) + 1]
               IN  IF answered THEN goes_on(i, r)
                   ELSE /\ ends(i) /\ busy' = FALSE /\ UNCHANGED notice
                        /\ error' = [name |-> r.name, why |-> "send", blocker |-> FALSE, tx |-> r.tx]
    /\ UNCHANGED <<slot, cache, ready, search, page, label, working, bounds>>

\* Waiting: the effect is there (a receipt of success does not count), the
\* receipt says it failed, or the deadline passes and the outcome is pending.
confirmed(i) ==
    /\ running[i].stage = "confirm"
    /\ \/ \E s \in Slots : readAccountInfo(running[i].name, s)
            /\ IF nameRegisteredTo(s, running[i].actor) THEN completes(i, TRUE)
               ELSE goes_on(i, running[i])
       \/ /\ UNCHANGED cache
          /\ \/ txs[running[i].tx].status = "failed" /\ fails(i, "rejected", FALSE)
             \/ completes(i, FALSE)
    /\ UNCHANGED <<slot, txs, ready, search, page, label, working, bounds>>

-----------------------------------------------------------------------------
(* The world.                                                              *)

transaction_lands(t) ==
    /\ txs[t].status = "sent"
    /\ LET n == txs[t].name
           free == slot[n] \in {Missing, Blank}
       IN  /\ txs' = [txs EXCEPT ![t].status = IF free THEN "ok" ELSE "failed"]
           /\ slot' = IF free THEN [slot EXCEPT ![n] = txs[t].signer] ELSE slot
    /\ UNCHANGED <<cache, ready, search, page, form, bounds>>

rival_registers(n) ==
    /\ slot[n] \in {Missing, Blank}
    /\ slot' = [slot EXCEPT ![n] = Rival]
    /\ UNCHANGED <<cache, txs, ready, search, page, form, bounds>>

cache_expires(n) ==
    /\ cache[n] # Uncached
    /\ cache' = [cache EXCEPT ![n] = Uncached]
    /\ UNCHANGED <<slot, txs, ready, search, page, form, bounds>>

wallet_locks ==
    /\ ready /\ switches < MaxSwitches
    /\ ready' = FALSE /\ switches' = switches + 1
    /\ UNCHANGED <<slot, cache, txs, search, page, form, runs, edits, searches>>

run_step(i) == wallet_checked(i) \/ name_checked(i) \/ submitted(i) \/ confirmed(i)

Next ==
    \/ search_answers \/ registerPathForLabel
    \/ \E n \in Names : onSearch(n) \/ rival_registers(n) \/ cache_expires(n)
    \/ \E l \in Names \cup {None} : edit_label(l)
    \/ onRegister \/ adopt_clicked \/ handleRecovery \/ wallet_locks
    \/ \E i \in DOMAIN running : run_step(i)
    \/ \E t \in DOMAIN txs : transaction_lands(t)

\* The wallet's prompts and the requests are answered in the end, and the
\* wait for a confirmation is bounded.
Fairness == WF_vars(running # <<>> /\ run_step(1) /\ running' # running)

Spec == Init /\ [][Next]_vars /\ Fairness

-----------------------------------------------------------------------------
(* Properties.                                                             *)

\* runRegister with nameRegisteredTo and classifyNameAccountData: "Name
\* registered" is said of a name its signer has, and a name refused as taken is
\* taken (one left zeroed by an unfinished creation is not), though others race
\* for it and reads are cached.
NoticesTrue ==
    /\ (notice # None /\ notice.confirmed) => slot[notice.name] = notice.actor
    /\ (error # None /\ error.why = "taken") => slot[error.name] \in Owners

\* RegisterView's button and recovery: one registration is under way at a time,
\* each asking for a signature, also when a recovery resubmits by itself; and
\* however it ends, the button returns.
RunsOneAtATime ==
    /\ [](Len(running) <= 1)
    /\ busy ~> ~busy

\* "The name was not registered." (RegisterView's failure message): what is
\* reported as failed has not registered the name.  Refuted by TLC and in no
\* run: the answer to send_transaction may be lost.
FailedMeansNot ==
    (error # None /\ ~error.blocker /\ error.tx # 0) => txs[error.tx].status # "ok"
=============================================================================
