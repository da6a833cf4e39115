----------------------------- MODULE WalletWatch -----------------------------
(***************************************************************************)
(* What the manager believes about the wallet.  The extension can be       *)
(* unlocked, locked, connected or reloaded behind the page's back; the     *)
(* page learns of it from reads (getAccount, queued and shared), from      *)
(* prompts (connect, issued at once and possibly repeated before the first *)
(* is answered) and from a watch that reads on a timer while the app is    *)
(* blocked.  A read is answered by the extension in one step and reaches   *)
(* the page in another, so it may be out of date when it is applied.       *)
(***************************************************************************)
EXTENDS Naturals, Sequences, FiniteSets, SequencesExt

CONSTANTS
    Accounts,              \* accounts the wallet may offer
    WatchOnly,             \* those it cannot sign with
    None,                  \* a value that is no account
    WALLET_POLL_ATTEMPTS,  \* reads before the watch stands down (40 in the code)
    DETECT_ATTEMPTS,       \* looks for the injected provider (40 in the code)
    MaxEvents,             \* bound: changes in the extension
    MaxClicks,             \* bound: clicks, focus changes and submissions
    MaxPrompts             \* bound: prompts

ASSUME WalletAssumption == WatchOnly \subseteq Accounts /\ None \notin Accounts
ASSUME WatchBounds ==
    {WALLET_POLL_ATTEMPTS, DETECT_ATTEMPTS, MaxEvents, MaxClicks, MaxPrompts} \subseteq Nat

VARIABLES
    ext,         \* the extension: injected, keystore, unlocked, the account this
                 \* site is connected to (None when it is not), mode
    archStatus,  \* the status the page keeps for the extension
    poll,        \* the watch: reads taken, timer set, own read under way
    known,       \* "connect() has reported that no keystore exists"
    queue,       \* requests to the extension, the first one is with it
    refreshing,  \* some refresh() awaits the account read in the queue
    prompts,     \* the prompts issued, by id
    latest,      \* latestPromptId
    connecting, error,
    working,     \* the recovery action under way and what it waits for
    picker,      \* the wallet picker: open, and an entry of it busy
    kit,         \* another wallet is connected through the kit
    detect,      \* looks taken by the detection timer, None when it is off
    visible,     \* the tab is visible
    events, clicks

vars == <<ext, archStatus, poll, known, queue, refreshing, prompts, latest, connecting,
          error, working, picker, kit, detect, visible, events, clicks>>
gateway == <<queue, refreshing>>
conn == <<prompts, latest, connecting, error>>
page == <<working, picker, kit, detect, visible>>
env == <<ext, events, clicks>>

-----------------------------------------------------------------------------
(* Statuses                                                                *)

Intents == {"unlock", "connect"}
Plain == {"detecting", "no_extension", "not_initialized", "locked", "not_connected",
          "stale_extension", "unavailable"}

WalletStatus ==
         [state : Plain]
    \cup [state : {"awaiting_wallet"}, intent : Intents, canReprompt : BOOLEAN]
    \cup [state : {"prompt_unanswered"}, intent : Intents]
    \cup [state : {"connected", "unsupported_account"}, account : Accounts]

is(s) == [state |-> s]

isSignableAccount(a) == a \notin WatchOnly

accountStatus(a) ==
    [state |-> IF isSignableAccount(a) THEN "connected" ELSE "unsupported_account",
     account |-> a]

statusAccount(s) ==
    IF s.state \in {"connected", "unsupported_account"} THEN s.account ELSE None

\* What the extension's rejections mean; the kinds stand for its messages.
Rejections == {"locked", "site", "gone", "stale", "empty", "rejected", "timeout", "other"}

classifyWalletBlocker(e) ==
    CASE e = "stale" -> "stale_extension"
      [] e = "locked" -> "locked"
      [] e = "site" -> "not_connected"
      [] e = "gone" -> "needs_reconnect"
      [] OTHER -> "none"

statusFromError(e) ==
    LET blocker == classifyWalletBlocker(e)
    IN  CASE blocker = "none" /\ e = "empty" -> is("not_initialized")
          [] blocker \in {"locked", "stale_extension"} -> is(blocker)
          [] blocker \in {"not_connected", "needs_reconnect"} -> is("not_connected")
          [] OTHER -> is("unavailable")

classifyWalletPromptFailure(e) == e \in {"rejected", "timeout"}

promptFailureStatus(e, intent) ==
    IF \/ classifyWalletPromptFailure(e)
       \/ statusFromError(e).state \in {"locked", "not_connected", "unavailable"}
    THEN [state |-> "prompt_unanswered", intent |-> intent]
    ELSE statusFromError(e)

\* The latch, after an observation of the wallet.
noteInitializationEvidence(s) ==
    CASE s.state = "not_initialized" -> TRUE
      [] s.state \in {"connected", "unsupported_account", "not_connected"} -> FALSE
      [] OTHER -> known

resolveAmbiguousLock(s) ==
    IF s.state = "locked" /\ known THEN is("not_initialized") ELSE s

-----------------------------------------------------------------------------
(* The watch and what it may overwrite                                     *)

isBlockedWalletStatus(s) ==
    s.state \notin {"connected", "detecting", "no_extension", "stale_extension"}

narratesPrompt(s) == s.state \in {"awaiting_wallet", "prompt_unanswered"}

\* Whatever a read says replaces what is on screen.
shouldAdoptProbe_always(current, probed) == TRUE

shouldAdoptProbe(current, probed) ==
    \/ statusAccount(probed) # None
    \/ ~narratesPrompt(current)
    \/ probed.state \in {"no_extension", "not_initialized", "stale_extension"}

adopted(current, probed) == IF shouldAdoptProbe(current, probed) THEN probed ELSE current

blocked(s, k) == ~k /\ isBlockedWalletStatus(s)

NoWatch == [attempt |-> 0, timer |-> FALSE, reading |-> FALSE]

schedule(p, vis) == [p EXCEPT !.timer = p.attempt < WALLET_POLL_ATTEMPTS /\ vis]

\* The watch starts when the app becomes blocked and is disposed when it is not.
rewatched(s, k) ==
    CASE ~blocked(s, k) -> NoWatch
      [] blocked(s, k) /\ ~blocked(archStatus, kit) -> schedule(NoWatch, visible)
      [] OTHER -> poll

setArchStatus(s, k) == archStatus' = s /\ poll' = rewatched(s, k)

-----------------------------------------------------------------------------
(* The gateway's queue                                                     *)

Request == [key : {"get-account", "sign", "disconnect", "connect"}, answered : BOOLEAN,
            answer : Accounts \cup Rejections \cup {None}]

request(key) == [key |-> key, answered |-> FALSE, answer |-> None]

in_flight(q, key) == \E i \in DOMAIN q : q[i].key = key

\* Keyed requests share the one in flight; signatures never do.
walletRequest(q, key) ==
    IF key # "sign" /\ in_flight(q, key) THEN q ELSE Append(q, request(key))

refresh(q) == queue' = walletRequest(q, "get-account") /\ refreshing' = TRUE

at_head(key) == Len(queue) > 0 /\ queue[1].key = key

-----------------------------------------------------------------------------
(* What the page offers                                                    *)

status == IF kit THEN is("kit") ELSE archStatus

walletStatusCta(s) ==
    CASE s.state \in {"kit", "connected"} -> "none"
      [] s.state \in {"detecting", "unavailable"} -> "retry"
      [] s.state \in {"no_extension", "not_connected"} -> "choose_wallet"
      [] s.state = "not_initialized" -> "connect"
      [] s.state = "locked" -> "unlock"
      [] narratesPrompt(s) -> s.intent
      [] s.state = "stale_extension" -> "reload"
      [] s.state = "unsupported_account" -> "reconnect"

secondaryAction(s) == IF s.state \in {"not_initialized", "locked"} THEN "retry" ELSE "none"

\* The recovery a failed submission offers, whatever the status is by then.
walletBlockerNotice(kind) ==
    CASE kind = "locked" -> {"unlock"}
      [] kind = "not_connected" -> {"connect"}
      [] kind = "needs_reconnect" -> {"adopt", "reconnect"}
      [] kind = "signer_mismatch" -> {"retry"}
      [] kind = "stale_extension" -> {"reload"}
      [] kind = "unsupported_kind" -> {"reconnect"}

walletCtaDisabled(s, is_busy) ==
    CASE s.state = "detecting" -> TRUE
      [] s.state = "awaiting_wallet" -> ~s.canReprompt
      [] OTHER -> is_busy

Idle == [action |-> "none", phase |-> "none"]

busy == connecting \/ working # Idle

\* The entries of the picker; one may be busy itself.
picker_disabled == connecting \/ picker.busy

BlockerKinds == {"locked", "not_connected", "needs_reconnect", "signer_mismatch",
                 "stale_extension", "unsupported_kind"}

offered(action) ==
    \/ action = walletStatusCta(status) /\ ~walletCtaDisabled(status, busy)
    \/ action = secondaryAction(status) /\ ~busy
    \/ /\ working = Idle
       /\ \E kind \in BlockerKinds : action \in walletBlockerNotice(kind)

clicked == clicks < MaxClicks /\ clicks' = clicks + 1

-----------------------------------------------------------------------------
(* Prompts                                                                 *)

NoPrompt == [phase |-> "unused", intent |-> "connect", next |-> is("detecting")]

pending(id) == id > 0 /\ prompts[id].phase \in {"open", "probing"}

connect(intent, k) ==
    /\ latest < MaxPrompts
    /\ latest' = latest + 1
    /\ prompts' = [prompts EXCEPT ![latest + 1] =
                     [NoPrompt EXCEPT !.phase = "open", !.intent = intent]]
    /\ error' = "none"
    /\ connecting' = TRUE
    /\ setArchStatus([state |-> "awaiting_wallet", intent |-> intent, canReprompt |-> FALSE], k)

\* Six seconds into the current prompt.
offerReprompt ==
    /\ pending(latest)
    /\ archStatus.state = "awaiting_wallet" /\ ~archStatus.canReprompt
    /\ archStatus' = [archStatus EXCEPT !.canReprompt = TRUE]
    /\ UNCHANGED <<poll, known, gateway, conn, page, env>>

\* The extension ends a prompt: at once when it cannot ask, else as the user
\* or its deadline decides.  Approving unlocks it and connects the site.
prompt_answers ==
    CASE ext.mode = "stale" -> {"stale"}
      [] ext.mode = "failing" -> {"other"}
      [] ext.mode = "ok" /\ ~ext.keystore -> {"empty"}
      [] OTHER -> Accounts \cup {"rejected", "timeout"}

approved(answer) ==
    IF answer \in Accounts
    THEN [ext EXCEPT !.unlocked = TRUE, !.account = answer] ELSE ext

startWalletConnect(answer, intent) ==
    IF answer \in Accounts THEN accountStatus(answer) ELSE promptFailureStatus(answer, intent)

\* The recovery that waited for one of these prompts is over.
unlock_done(ids) ==
    IF working.action = "unlock" /\ \E id \in ids : prompts[id].intent = "unlock"
    THEN Idle ELSE working

\* The spinner left on.
connect_ends_spinning(id, next) ==
    /\ setArchStatus(next, kit)
    /\ picker' = [open |-> FALSE, busy |-> FALSE]
    /\ working' = unlock_done({id})
    /\ UNCHANGED <<connecting, error>>

\* connect() returns an account: the status and the spinner are its own.
connect_ends(id, next) ==
    /\ setArchStatus(next, kit)
    /\ connecting' = FALSE
    /\ picker' = [open |-> FALSE, busy |-> FALSE]
    /\ working' = unlock_done({id})
    /\ UNCHANGED error

finished == [NoPrompt EXCEPT !.phase = "done"]

\* A prompt ends and connect() resumes.  A superseded one only reports that it
\* was replaced; one that did not connect is followed by a read before it is
\* believed.
prompt_ends(id) ==
    \E answer \in prompt_answers :
      LET next == startWalletConnect(answer, prompts[id].intent)
      IN  /\ prompts[id].phase = "open"
          /\ ext' = approved(answer)
          /\ known' = noteInitializationEvidence(next)
          /\ \/ /\ id # latest
                /\ prompts' = [prompts EXCEPT ![id] = finished]
                /\ error' = "superseded"
                /\ working' = unlock_done({id})
                /\ picker' = [picker EXCEPT !.busy = FALSE]
                /\ UNCHANGED <<archStatus, poll, gateway, connecting>>
             \/ /\ id = latest /\ next.state = "connected"
                /\ prompts' = [prompts EXCEPT ![id] = finished]
                /\ connect_ends(id, next)
                /\ UNCHANGED gateway
             \/ /\ id = latest /\ next.state # "connected"
                /\ prompts' = [prompts EXCEPT ![id].phase = "probing", ![id].next = next]
                /\ queue' = walletRequest(queue, "get-account")
                /\ UNCHANGED <<archStatus, poll, refreshing, connecting, error, working, picker>>
          /\ UNCHANGED <<latest, kit, detect, visible, events, clicks>>

-----------------------------------------------------------------------------
(* Reads                                                                   *)

getAccount ==
    CASE ext.mode = "stale" -> "stale"
      [] ext.mode = "failing" -> "other"
      [] ext.mode = "ok" /\ ~ext.unlocked -> "locked"
      [] ext.mode = "ok" /\ ext.unlocked /\ ext.account = None -> "site"
      [] OTHER -> ext.account

read_answered ==
    /\ at_head("get-account") /\ ~queue[1].answered
    /\ queue' = [queue EXCEPT ![1].answered = TRUE, ![1].answer = getAccount]
    /\ UNCHANGED <<archStatus, poll, known, refreshing, conn, page, env>>

observed(answer) == IF answer \in Accounts THEN accountStatus(answer) ELSE statusFromError(answer)

probeWalletStatus(answer) == resolveAmbiguousLock(observed(answer))

\* Prompts that took this read before believing their own answer.
probing == {id \in 1..latest : prompts[id].phase = "probing"}

prompt_next(id, r) ==
    IF r.state \in {"connected", "unsupported_account"} THEN r ELSE prompts[id].next

\* refresh() and a prompt may share the read; the later one to ask runs last.
statuses_after(r) ==
    LET own == IF latest \in probing THEN prompt_next(latest, r) ELSE archStatus
    IN  IF ~refreshing THEN {own}
        ELSE {adopted(own, r)} \cup (IF latest \in probing THEN {own} ELSE {})

watch_after(s) ==
    LET p == rewatched(s, kit)
    IN  IF p.reading THEN schedule([p EXCEPT !.reading = FALSE], visible) ELSE p

\* A recovery that waited for this read: adopt and reconnect take a usable
\* account and read again; reconnect drops the connection when there is none.
recovery_after(r, q) ==
    LET usable == r.state = "connected"
    IN  CASE working.phase = "read" /\ usable ->
               /\ working' = [working EXCEPT !.phase = "refresh"]
               /\ refresh(q)
          [] working.phase = "read" /\ ~usable /\ working.action = "reconnect" ->
               /\ working' = [working EXCEPT !.phase = "disconnect"]
               /\ queue' = walletRequest(q, "disconnect")
               /\ refreshing' = FALSE
          [] OTHER ->
               /\ working' = IF working.phase \in {"read", "refresh"} THEN Idle
                             ELSE unlock_done(probing)
               /\ queue' = q
               /\ refreshing' = FALSE

read_arrives ==
    LET answer == queue[1].answer
        r == probeWalletStatus(answer)
        connects == probing # {} /\ \E id \in probing : prompt_next(id, r).state = "connected"
    IN  /\ at_head("get-account") /\ queue[1].answered
        /\ known' = noteInitializationEvidence(observed(answer))
        /\ \E s \in statuses_after(r) : archStatus' = s /\ poll' = watch_after(s)
        /\ prompts' = [id \in DOMAIN prompts |->
                         IF id \in probing THEN finished ELSE prompts[id]]
        /\ connecting' = (connecting /\ latest \notin probing)
        /\ error' = IF \E id \in probing : prompt_next(id, r).state # "connected"
                    THEN "failed" ELSE error
        /\ picker' = IF connects THEN [open |-> FALSE, busy |-> FALSE]
                     ELSE IF probing # {} THEN [picker EXCEPT !.busy = FALSE] ELSE picker
        /\ recovery_after(r, Tail(queue))
        /\ UNCHANGED <<latest, kit, detect, visible, env>>

-----------------------------------------------------------------------------
(* The other requests of the queue                                         *)

\* A submission's signature parks in the queue until the user deals with it.
signMessageHash ==
    /\ ext.present /\ clicked
    /\ queue' = walletRequest(queue, "sign")
    /\ UNCHANGED <<ext, archStatus, poll, known, refreshing, conn, page, events>>

sign_ends ==
    /\ at_head("sign")
    /\ queue' = Tail(queue)
    /\ UNCHANGED <<archStatus, poll, known, refreshing, conn, page, env>>

\* reconnectArchWallet goes on whether or not the disconnect worked.
disconnect_ends ==
    /\ at_head("disconnect")
    /\ ext' = IF ext.mode = "ok" THEN [ext EXCEPT !.account = None] ELSE ext
    /\ queue' = walletRequest(Tail(queue), "connect")
    /\ working' = [working EXCEPT !.phase = "connect"]
    /\ UNCHANGED <<archStatus, poll, known, refreshing, conn, picker, kit, detect, visible,
                   events, clicks>>

\* Its connect is queued like a read; the latch does not see the answer.
reconnect_ends ==
    /\ at_head("connect")
    /\ \E answer \in prompt_answers :
         /\ ext' = approved(answer)
         /\ IF answer \in Accounts /\ isSignableAccount(answer)
            THEN working' = [working EXCEPT !.phase = "refresh"] /\ refresh(Tail(queue))
            ELSE working' = Idle /\ queue' = Tail(queue) /\ UNCHANGED refreshing
    /\ UNCHANGED <<archStatus, poll, known, conn, picker, kit, detect, visible, events, clicks>>

-----------------------------------------------------------------------------
(* useWalletRecovery                                                       *)

open_picker == picker' = [open |-> TRUE, busy |-> FALSE] /\ error' = "none"

run_picker ==
    /\ \E action \in {"choose_wallet", "connect"} : offered(action)
    /\ ~picker.open
    /\ clicked
    /\ open_picker
    /\ UNCHANGED <<ext, archStatus, poll, known, gateway, prompts, latest, connecting,
                   working, kit, detect, visible, events>>

run_unlock ==
    /\ offered("unlock") /\ clicked
    /\ ext.present
    /\ connect("unlock", kit)
    /\ working' = [action |-> "unlock", phase |-> "prompt"]
    /\ UNCHANGED <<ext, known, gateway, picker, kit, detect, visible, events>>

run_retry ==
    /\ offered("retry") /\ clicked
    /\ ext.present
    /\ refresh(queue)
    /\ working' = [action |-> "retry", phase |-> "refresh"]
    /\ UNCHANGED <<ext, archStatus, poll, known, conn, picker, kit, detect, visible, events>>

\* adopt and reconnect both begin by reading the account the wallet offers; a
\* kit session answers for itself and only the refresh is left.
run_rebind(action) ==
    /\ offered(action) /\ clicked
    /\ ext.present
    /\ \/ /\ kit /\ action = "adopt"
          /\ refresh(queue)
          /\ working' = [action |-> action, phase |-> "refresh"]
       \/ /\ ~kit \/ action = "reconnect"
          /\ queue' = walletRequest(queue, "get-account")
          /\ working' = [action |-> action, phase |-> "read"]
          /\ UNCHANGED refreshing
    /\ UNCHANGED <<ext, archStatus, poll, known, conn, picker, kit, detect, visible, events>>

\* A fresh document: the page starts over, the provider is injected again.
fresh_page(e) ==
    /\ archStatus' = is("detecting")
    /\ poll' = NoWatch
    /\ known' = FALSE
    /\ queue' = IF e.present THEN <<request("get-account")>> ELSE <<>>
    /\ refreshing' = e.present
    /\ prompts' = [id \in 1..MaxPrompts |-> NoPrompt]
    /\ latest' = 0
    /\ connecting' = FALSE
    /\ error' = "none"
    /\ working' = Idle
    /\ picker' = [open |-> FALSE, busy |-> FALSE]
    /\ kit' = FALSE
    /\ detect' = 0
    /\ visible' = TRUE

run_reload ==
    /\ offered("reload") /\ clicked
    /\ ext' = [ext EXCEPT !.mode = IF @ = "stale" THEN "ok" ELSE @]
    /\ fresh_page(ext)
    /\ UNCHANGED events

-----------------------------------------------------------------------------
(* The picker and sessions of other wallets                                *)

\* Arch Wallet: drops a kit session, whose effects then read the extension.
pick_arch ==
    /\ picker.open /\ ~picker_disabled
    /\ ext.present
    /\ clicked
    /\ connect("connect", FALSE)
    /\ picker' = [picker EXCEPT !.busy = TRUE]
    /\ kit' = FALSE
    /\ detect' = IF kit THEN 0 ELSE detect
    /\ IF kit THEN refresh(queue) ELSE UNCHANGED gateway
    /\ UNCHANGED <<ext, known, working, visible, events>>

\* Another wallet connects; the extension's effects are taken down.
pick_kit ==
    /\ picker.open /\ ~picker_disabled
    /\ kit' = TRUE
    /\ detect' = None
    /\ poll' = NoWatch
    /\ picker' = [open |-> FALSE, busy |-> FALSE]
    /\ UNCHANGED <<ext, archStatus, known, gateway, conn, working, visible, events, clicks>>

closeWalletPicker ==
    /\ picker.open
    /\ picker' = [open |-> FALSE, busy |-> FALSE]
    /\ UNCHANGED <<ext, archStatus, poll, known, gateway, conn, working, kit, detect,
                   visible, events, clicks>>

-----------------------------------------------------------------------------
(* Effects of the provider component                                       *)

\* Detection that looks for the provider without giving up.
detect_tick_forever ==
    /\ detect # None /\ ext.present
    /\ detect' = None
    /\ refresh(queue)
    /\ UNCHANGED <<archStatus, poll, known, conn, working, picker, kit, visible, env>>

\* The detection timer, every 250 ms until the provider is there.
detect_tick ==
    /\ detect # None
    /\ \/ /\ ext.present
          /\ detect' = None
          /\ refresh(queue)
          /\ UNCHANGED <<archStatus, poll>>
       \/ /\ ~ext.present /\ detect + 1 < DETECT_ATTEMPTS
          /\ detect' = detect + 1
          /\ UNCHANGED <<archStatus, poll, gateway>>
       \/ /\ ~ext.present /\ detect + 1 >= DETECT_ATTEMPTS
          /\ detect' = None
          /\ setArchStatus(is("no_extension"), kit)
          /\ UNCHANGED gateway
    /\ UNCHANGED <<known, conn, working, picker, kit, visible, env>>

\* A poll that does not come back.
run_once ==
    /\ poll.timer
    /\ poll' = [poll EXCEPT !.timer = FALSE, !.attempt = @ + 1]
    /\ refresh(queue)
    /\ UNCHANGED <<archStatus, known, conn, page, env>>

\* The poll's timer fires; it is set again when the read has come back.
run ==
    /\ poll.timer
    /\ poll' = [poll EXCEPT !.timer = FALSE, !.attempt = @ + 1, !.reading = TRUE]
    /\ refresh(queue)
    /\ UNCHANGED <<archStatus, known, conn, page, env>>

restart(p, vis) == IF blocked(archStatus, kit) THEN schedule([p EXCEPT !.attempt = 0], vis) ELSE p

\* Focus reads at once and restarts the watch; a pointer press only restarts it.
focus ==
    /\ clicked /\ visible
    /\ poll' = restart(poll, visible)
    /\ IF ext.present /\ ~kit THEN refresh(queue) ELSE UNCHANGED gateway
    /\ UNCHANGED <<ext, archStatus, known, conn, page, events>>

onVisibility ==
    /\ clicked
    /\ visible' = ~visible
    /\ poll' = IF visible THEN [poll EXCEPT !.timer = FALSE] ELSE restart(poll, TRUE)
    /\ IF ~visible /\ ext.present /\ ~kit THEN refresh(queue) ELSE UNCHANGED gateway
    /\ UNCHANGED <<ext, archStatus, known, conn, working, picker, kit, detect, events>>

-----------------------------------------------------------------------------
(* The extension and its user                                              *)

\* The provider appears and announces itself.
provider_injected ==
    /\ ~ext.present
    /\ ext' = [ext EXCEPT !.present = TRUE]
    /\ IF kit THEN UNCHANGED gateway ELSE refresh(queue)
    /\ UNCHANGED <<archStatus, poll, known, conn, page, events, clicks>>

\* Set up, unlocked, locked, revoked, switched, reloaded, failing for a while.
wallet_changes ==
    /\ ext.present
    /\ events < MaxEvents
    /\ events' = events + 1
    /\ \/ ~ext.keystore /\ ext' = [ext EXCEPT !.keystore = TRUE, !.unlocked = TRUE]
       \/ ext.keystore /\ ~ext.unlocked /\ ext' = [ext EXCEPT !.unlocked = TRUE]
       \/ ext.unlocked /\ ext' = [ext EXCEPT !.unlocked = FALSE]
       \/ ext.mode = "ok" /\ \E m \in {"stale", "failing"} : ext' = [ext EXCEPT !.mode = m]
       \/ ext.mode = "failing" /\ ext' = [ext EXCEPT !.mode = "ok"]
       \/ /\ ext.unlocked /\ ext.account # None
          /\ \E x \in (Accounts \cup {None}) \ {ext.account} : ext' = [ext EXCEPT !.account = x]
    /\ UNCHANGED <<archStatus, poll, known, gateway, conn, page, clicks>>

-----------------------------------------------------------------------------

Wallets ==
    {e \in [present : BOOLEAN, keystore : BOOLEAN, unlocked : BOOLEAN,
            account : Accounts \cup {None}, mode : {"ok"}] :
        (e.unlocked => e.keystore) /\ (e.account # None => e.keystore)}

Init ==
    /\ ext \in Wallets
    /\ archStatus = is("detecting")
    /\ poll = NoWatch
    /\ known = FALSE
    /\ queue = IF ext.present THEN <<request("get-account")>> ELSE <<>>
    /\ refreshing = ext.present
    /\ prompts = [id \in 1..MaxPrompts |-> NoPrompt]
    /\ latest = 0
    /\ connecting = FALSE
    /\ error = "none"
    /\ working = Idle
    /\ picker = [open |-> FALSE, busy |-> FALSE]
    /\ kit = FALSE
    /\ detect = 0
    /\ visible = TRUE
    /\ events = 0
    /\ clicks = 0

PromptStep == \E id \in 1..latest : prompt_ends(id)
QueueStep == read_answered \/ read_arrives \/ sign_ends \/ disconnect_ends \/ reconnect_ends
TimerStep == offerReprompt \/ detect_tick \/ run
Click ==
    \/ run_picker \/ run_unlock \/ run_retry \/ run_reload
    \/ \E action \in {"adopt", "reconnect"} : run_rebind(action)
    \/ pick_arch \/ pick_kit \/ closeWalletPicker
    \/ signMessageHash \/ focus \/ onVisibility

Next == PromptStep \/ QueueStep \/ TimerStep \/ Click \/ provider_injected \/ wallet_changes

\* Prompts and queued requests end by the provider's own deadline, answers
\* arrive and timers fire; nothing is assumed of the user.
Fairness ==
    /\ \A id \in 1..MaxPrompts : WF_vars(id <= latest /\ prompt_ends(id))
    /\ WF_vars(QueueStep)
    /\ WF_vars(offerReprompt) /\ WF_vars(detect_tick) /\ WF_vars(run)

Spec == Init /\ [][Next]_vars /\ Fairness

-----------------------------------------------------------------------------
(* Properties                                                              *)

\* A spinner has something to wait for: "waiting for Arch Wallet" and the
\* connecting flag stand exactly as long as the latest prompt is out, however
\* prompts are repeated and whichever of them is answered first.
PromptAccounted ==
    /\ connecting <=> pending(latest)
    /\ archStatus.state = "awaiting_wallet" => connecting

\* "Locked" is never put on screen by a read that knows less than the page:
\* once connect() has reported an extension without a wallet, no read makes the
\* page say "locked" until an observation clears that; and a prompt that is out,
\* or ended without an answer, is not turned back into "locked" or "not
\* connected" (the loop wallet-watch.ts describes).
LockNeverFromStaleRead ==
    /\ [][known /\ archStatus'.state = "locked" => archStatus.state = "locked"]_vars
    /\ [][narratesPrompt(archStatus)
            /\ (latest \in probing => narratesPrompt(prompts[latest].next))
            => archStatus'.state \notin {"locked", "not_connected", "unavailable"}]_vars

Serves == ext.present /\ ext.mode = "ok" /\ ext.unlocked /\ ext.account # None

\* While the watch has reads left, a wallet that serves this site again is noticed
\* with no event in the page, unless it stops serving or the tab is hidden before.
\* One read is not enough: it may be spent on sharing a read answered earlier.
WatchNotices ==
    (Serves /\ blocked(archStatus, kit) /\ poll.attempt + 1 < WALLET_POLL_ATTEMPTS)
        ~> (statusAccount(archStatus) # None \/ ~Serves \/ ~visible \/ kit)

\* The one button of a blocked page is never off for good.
ButtonReturns == walletCtaDisabled(status, busy) ~> ~walletCtaDisabled(status, busy)
=============================================================================
