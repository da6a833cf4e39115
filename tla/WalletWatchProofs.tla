------------------------- MODULE WalletWatchProofs -------------------------
(***************************************************************************)
(* Theorems about what the manager believes of the wallet, for every set   *)
(* of accounts and any number of prompts, reads, clicks and changes in the *)
(* extension.                                                              *)
(***************************************************************************)
EXTENDS WalletWatch, TLAPS

-----------------------------------------------------------------------------
(* The inductive invariant                                                 *)

Prompt ==
    [phase : {"unused", "open", "probing", "done"}, intent : Intents, next : WalletStatus]

WatchType ==
    /\ archStatus \in WalletStatus
    /\ latest \in 0 .. MaxPrompts
    /\ prompts \in [1 .. MaxPrompts -> Prompt]
    /\ connecting \in BOOLEAN

\* What a prompt that waits for a read before it is believed can have said.
ProbedFailures == {"not_initialized", "stale_extension", "prompt_unanswered", "unsupported_account"}

ProbingFailed ==
    \A id \in 1 .. MaxPrompts :
        prompts[id].phase = "probing" => prompts[id].next.state \in ProbedFailures

WatchInv == WatchType /\ ProbingFailed /\ PromptAccounted

-----------------------------------------------------------------------------
(* Lemmas about statuses                                                   *)

\* What a read can say, and what a prompt can.
ReadStates == {"connected", "unsupported_account", "not_initialized", "locked",
               "stale_extension", "not_connected", "unavailable"}

LEMMA PlainStatus ==
    ASSUME NEW s \in Plain
    PROVE  is(s) \in WalletStatus /\ is(s).state = s
  BY DEF is, WalletStatus, Plain

LEMMA AccountStatus ==
    ASSUME NEW a \in Accounts
    PROVE  /\ accountStatus(a) \in WalletStatus
           /\ accountStatus(a).state \in {"connected", "unsupported_account"}
  BY DEF accountStatus, WalletStatus

LEMMA ErrorStatus ==
    ASSUME NEW e
    PROVE  /\ statusFromError(e) \in WalletStatus
           /\ statusFromError(e).state \in {"not_initialized", "locked", "stale_extension",
                                            "not_connected", "unavailable"}
  <1> DEFINE b == classifyWalletBlocker(e)
  <1>1. b \in {"stale_extension", "locked", "not_connected", "needs_reconnect", "none"}
    BY DEF classifyWalletBlocker
  <1> HIDE DEF b
  <1>2. \E s \in {"not_initialized", "locked", "stale_extension", "not_connected",
                  "unavailable"} : statusFromError(e) = is(s)
    <2>1. CASE b = "none" /\ e = "empty"
      BY <2>1 DEF statusFromError, b
    <2>2. CASE b = "none" /\ e # "empty"
      BY <2>2 DEF statusFromError, b
    <2>3. CASE b = "locked"
      BY <2>3 DEF statusFromError, b
    <2>4. CASE b = "stale_extension"
      BY <2>4 DEF statusFromError, b
    <2>5. CASE b \in {"not_connected", "needs_reconnect"}
      BY <2>5 DEF statusFromError, b
    <2> QED BY <1>1, <2>1, <2>2, <2>3, <2>4, <2>5
  <1> QED BY <1>2, PlainStatus DEF Plain

\* A read that found the wallet locked is not repeated as such once connect()
\* has reported that there is no keystore.
LEMMA ProbeStatus ==
    ASSUME NEW answer
    PROVE  /\ probeWalletStatus(answer) \in WalletStatus
           /\ probeWalletStatus(answer).state \in ReadStates
           /\ known => probeWalletStatus(answer).state # "locked"
  <1>1. observed(answer) \in WalletStatus /\ observed(answer).state \in ReadStates
    BY AccountStatus, ErrorStatus DEF observed, ReadStates
  <1>2. is("not_initialized") \in WalletStatus /\ is("not_initialized").state = "not_initialized"
    BY PlainStatus DEF Plain
  <1> QED BY <1>1, <1>2 DEF probeWalletStatus, resolveAmbiguousLock, ReadStates

\* A prompt ends connected, or in a status that narrates it or names what the
\* prompt can see for itself.
LEMMA PromptStatus ==
    ASSUME NEW answer, NEW intent \in Intents
    PROVE  /\ startWalletConnect(answer, intent) \in WalletStatus
           /\ \/ startWalletConnect(answer, intent).state = "connected"
              \/ startWalletConnect(answer, intent).state \in ProbedFailures
  <1>1. CASE answer \in Accounts
    BY <1>1, AccountStatus DEF startWalletConnect, ProbedFailures
  <1>2. CASE answer \notin Accounts
    <2>1. startWalletConnect(answer, intent) = promptFailureStatus(answer, intent)
      BY <1>2 DEF startWalletConnect
    <2>2. [state |-> "prompt_unanswered", intent |-> intent] \in WalletStatus
      BY DEF WalletStatus
    <2>3. \/ promptFailureStatus(answer, intent) = [state |-> "prompt_unanswered", intent |-> intent]
          \/ /\ promptFailureStatus(answer, intent) = statusFromError(answer)
             /\ statusFromError(answer).state \notin {"locked", "not_connected", "unavailable"}
      BY DEF promptFailureStatus
    <2> QED BY <2>1, <2>2, <2>3, ErrorStatus DEF ProbedFailures
  <1> QED BY <1>1, <1>2

LEMMA BlankPrompt == NoPrompt \in Prompt /\ finished \in Prompt /\ finished.phase = "done"
                     /\ NoPrompt.phase = "unused"
  <1>1. is("detecting") \in WalletStatus
    BY PlainStatus DEF Plain
  <1> QED BY <1>1 DEF NoPrompt, finished, Prompt, Intents

-----------------------------------------------------------------------------
(* The steps                                                               *)

LEMMA NoPromptYet ==
    /\ MaxPrompts \in Nat /\ 0 \in 0 .. MaxPrompts
    /\ [id \in 1 .. MaxPrompts |-> NoPrompt] \in [1 .. MaxPrompts -> Prompt]
  <1>1. MaxPrompts \in Nat
    BY WatchBounds
  <1>2. 0 \in 0 .. MaxPrompts
    BY <1>1
  <1> QED BY <1>1, <1>2, BlankPrompt

watched == <<archStatus, prompts, latest, connecting>>

LEMMA Kept == WatchInv /\ UNCHANGED watched => WatchInv'
  BY DEF watched, WatchInv, WatchType, ProbingFailed, PromptAccounted, pending

\* A status that claims no prompt may be set beside one at any time.
LEMMA Restated ==
    ASSUME WatchInv, NEW s \in WalletStatus, s.state # "awaiting_wallet",
           archStatus' = s, UNCHANGED <<prompts, latest, connecting>>
    PROVE  WatchInv'
  BY DEF WatchInv, WatchType, ProbingFailed, PromptAccounted, pending

\* connect() issues a prompt, which is then the latest.
LEMMA ConnectStep ==
    ASSUME WatchInv, NEW intent \in Intents, NEW k, connect(intent, k)
    PROVE  WatchInv'
  <1> DEFINE s == [state |-> "awaiting_wallet", intent |-> intent, canReprompt |-> FALSE]
             p == [NoPrompt EXCEPT !.phase = "open", !.intent = intent]
  <1>1. s \in WalletStatus
    BY DEF WalletStatus
  <1>2. p \in Prompt /\ p.phase = "open"
    BY BlankPrompt DEF Prompt
  <1>3. /\ latest \in 0 .. MaxPrompts /\ latest < MaxPrompts /\ latest' = latest + 1
        /\ prompts' = [prompts EXCEPT ![latest + 1] = p]
        /\ connecting' = TRUE /\ archStatus' = s
    BY DEF connect, setArchStatus, WatchInv, WatchType
  <1> HIDE DEF s, p
  <1>4. latest' \in 1 .. MaxPrompts
    BY <1>3, WatchBounds
  <1>5. /\ prompts' \in [1 .. MaxPrompts -> Prompt]
        /\ prompts'[latest'].phase = "open"
        /\ \A id \in 1 .. MaxPrompts : id # latest' => prompts'[id] = prompts[id]
    BY <1>2, <1>3, <1>4 DEF WatchInv, WatchType
  <1>6. WatchType'
    BY <1>1, <1>3, <1>4, <1>5, WatchBounds DEF WatchType
  <1>7. ProbingFailed'
    BY <1>5 DEF WatchInv, ProbingFailed
  <1>8. PromptAccounted'
    BY <1>3, <1>4, <1>5 DEF PromptAccounted, pending
  <1> QED BY <1>6, <1>7, <1>8 DEF WatchInv

LEMMA FreshPageStep ==
    ASSUME NEW e, fresh_page(e)
    PROVE  WatchInv'
  <1>1. archStatus' = is("detecting") /\ is("detecting") \in WalletStatus
        /\ is("detecting").state = "detecting"
    BY PlainStatus DEF fresh_page, Plain
  <1>2. /\ prompts' = [id \in 1 .. MaxPrompts |-> NoPrompt]
        /\ latest' = 0 /\ connecting' = FALSE
    BY DEF fresh_page
  <1>3. WatchType'
    BY <1>1, <1>2, NoPromptYet DEF WatchType
  <1>4. ProbingFailed'
    BY <1>2, BlankPrompt DEF ProbingFailed
  <1>5. PromptAccounted'
    BY <1>1, <1>2 DEF PromptAccounted, pending
  <1> QED BY <1>3, <1>4, <1>5 DEF WatchInv

LEMMA InitStep == Init => WatchInv
  <1> SUFFICES ASSUME Init PROVE WatchInv
    OBVIOUS
  <1>1. archStatus = is("detecting") /\ is("detecting") \in WalletStatus
        /\ is("detecting").state = "detecting"
    BY PlainStatus DEF Init, Plain
  <1>2. /\ prompts = [id \in 1 .. MaxPrompts |-> NoPrompt]
        /\ latest = 0 /\ connecting = FALSE
    BY DEF Init
  <1>3. WatchType
    BY <1>1, <1>2, NoPromptYet DEF WatchType
  <1>4. ProbingFailed
    BY <1>2, BlankPrompt DEF ProbingFailed
  <1>5. PromptAccounted
    BY <1>1, <1>2 DEF PromptAccounted, pending
  <1> QED BY <1>3, <1>4, <1>5 DEF WatchInv

LEMMA RepromptStep ==
    ASSUME WatchInv, offerReprompt
    PROVE  WatchInv' /\ archStatus'.state = "awaiting_wallet"
  <1>1. /\ archStatus \in WalletStatus /\ archStatus.state = "awaiting_wallet"
        /\ archStatus' = [archStatus EXCEPT !.canReprompt = TRUE]
        /\ UNCHANGED <<prompts, latest, connecting>>
    BY DEF offerReprompt, WatchInv, WatchType, conn
  <1>2. archStatus \in [state : {"awaiting_wallet"}, intent : Intents, canReprompt : BOOLEAN]
    BY <1>1 DEF WalletStatus, Plain
  <1>3. archStatus' \in [state : {"awaiting_wallet"}, intent : Intents, canReprompt : BOOLEAN]
    BY <1>1, <1>2
  <1>4. archStatus' \in WalletStatus /\ archStatus'.state = "awaiting_wallet"
    BY <1>3 DEF WalletStatus
  <1> QED BY <1>1, <1>4 DEF WatchInv, WatchType, ProbingFailed, PromptAccounted, pending

\* A prompt ends: a superseded one changes nothing on screen, the latest one
\* connects or waits for a read.
LEMMA PromptEndsStep ==
    ASSUME WatchInv, NEW id \in 1 .. latest, prompt_ends(id)
    PROVE  WatchInv' /\ (archStatus' = archStatus \/ archStatus'.state = "connected")
  <1>0. /\ latest \in 0 .. MaxPrompts /\ MaxPrompts \in Nat /\ id \in 1 .. MaxPrompts
        /\ prompts \in [1 .. MaxPrompts -> Prompt]
    BY NoPromptYet DEF WatchInv, WatchType
  <1>1. prompts[id] \in Prompt /\ prompts[id].intent \in Intents
    BY <1>0 DEF Prompt
  <1>2. PICK answer \in prompt_answers :
          LET next == startWalletConnect(answer, prompts[id].intent)
          IN  /\ prompts[id].phase = "open"
              /\ \/ /\ id # latest
                    /\ prompts' = [prompts EXCEPT ![id] = finished]
                    /\ UNCHANGED <<archStatus, connecting>>
                 \/ /\ id = latest /\ next.state = "connected"
                    /\ prompts' = [prompts EXCEPT ![id] = finished]
                    /\ archStatus' = next /\ connecting' = FALSE
                 \/ /\ id = latest /\ next.state # "connected"
                    /\ prompts' = [prompts EXCEPT ![id].phase = "probing", ![id].next = next]
                    /\ UNCHANGED <<archStatus, connecting>>
              /\ UNCHANGED latest
    BY DEF prompt_ends, connect_ends, setArchStatus
  <1> DEFINE next == startWalletConnect(answer, prompts[id].intent)
  <1>3. next \in WalletStatus /\ (next.state = "connected" \/ next.state \in ProbedFailures)
    BY <1>1, PromptStatus
  <1>4. (connecting /\ pending(latest)) \/ id # latest
    BY <1>0, <1>2 DEF WatchInv, PromptAccounted, pending
  <1> HIDE DEF next
  <1>5. CASE id # latest
    <2>1. /\ prompts' = [prompts EXCEPT ![id] = finished]
          /\ UNCHANGED <<archStatus, connecting, latest>>
      BY <1>2, <1>5 DEF next
    <2>2. /\ prompts' \in [1 .. MaxPrompts -> Prompt] /\ prompts'[id].phase = "done"
          /\ \A j \in 1 .. MaxPrompts : j # id => prompts'[j] = prompts[j]
      BY <1>0, <2>1, BlankPrompt
    <2>3. latest > 0 => latest \in 1 .. MaxPrompts
      BY <1>0
    <2> QED BY <1>5, <2>1, <2>2, <2>3
        DEF WatchInv, WatchType, ProbingFailed, PromptAccounted, pending
  <1>6. CASE id = latest /\ next.state = "connected"
    <2>1. /\ prompts' = [prompts EXCEPT ![id] = finished] /\ archStatus' = next
          /\ connecting' = FALSE /\ UNCHANGED latest
      BY <1>2, <1>6 DEF next
    <2>2. /\ prompts' \in [1 .. MaxPrompts -> Prompt] /\ prompts'[id].phase = "done"
          /\ \A j \in 1 .. MaxPrompts : j # id => prompts'[j] = prompts[j]
      BY <1>0, <2>1, BlankPrompt
    <2> QED BY <1>3, <1>6, <2>1, <2>2
        DEF WatchInv, WatchType, ProbingFailed, PromptAccounted, pending
  <1>7. CASE id = latest /\ next.state # "connected"
    <2>1. /\ prompts' = [prompts EXCEPT ![id].phase = "probing", ![id].next = next]
          /\ UNCHANGED <<archStatus, connecting, latest>>
      BY <1>2, <1>7 DEF next
    <2>2. prompts'[id] = [prompts[id] EXCEPT !.phase = "probing", !.next = next]
          /\ \A j \in 1 .. MaxPrompts : j # id => prompts'[j] = prompts[j]
      BY <1>0, <2>1
    <2>3. prompts'[id] \in Prompt /\ prompts'[id].phase = "probing" /\ prompts'[id].next = next
      BY <1>1, <1>3, <2>2 DEF Prompt
    <2>4. prompts' \in [1 .. MaxPrompts -> Prompt]
      BY <1>0, <2>1, <2>2, <2>3
    <2>5. ProbingFailed'
      BY <1>3, <1>7, <2>2, <2>3 DEF WatchInv, ProbingFailed
    <2>6. PromptAccounted'
      BY <1>4, <1>7, <2>1, <2>3 DEF WatchInv, PromptAccounted, pending
    <2> QED BY <2>1, <2>4, <2>5, <2>6 DEF WatchInv, WatchType
  <1> QED BY <1>5, <1>6, <1>7

\* A read that arrives ends the prompts that waited for it.  It shows what it
\* says or what a prompt said, never "locked" when the latch is set, and does
\* not undo a status that narrates a prompt.
LEMMA ReadArrivesStep ==
    ASSUME WatchInv, read_arrives
    PROVE  /\ WatchInv'
           /\ known /\ archStatus'.state = "locked" => archStatus.state = "locked"
           /\ (/\ narratesPrompt(archStatus)
               /\ latest \in probing => narratesPrompt(prompts[latest].next))
                => archStatus'.state \notin {"locked", "not_connected", "unavailable"}
  <1> DEFINE r == probeWalletStatus(queue[1].answer)
             own == IF latest \in probing THEN prompt_next(latest, r) ELSE archStatus
  <1>0. /\ latest \in 0 .. MaxPrompts /\ MaxPrompts \in Nat
        /\ prompts \in [1 .. MaxPrompts -> Prompt]
        /\ probing \subseteq 1 .. MaxPrompts /\ (latest \in probing => latest \in 1 .. MaxPrompts)
    BY NoPromptYet DEF WatchInv, WatchType, probing
  <1>1. /\ r \in WalletStatus /\ r.state \in ReadStates
        /\ known => r.state # "locked"
    BY ProbeStatus
  <1>2. /\ archStatus' \in statuses_after(r)
        /\ prompts' = [id \in DOMAIN prompts |->
                         IF id \in probing THEN finished ELSE prompts[id]]
        /\ connecting' = (connecting /\ latest \notin probing)
        /\ UNCHANGED latest
    BY DEF read_arrives
  <1>3. archStatus' = own \/ (archStatus' = r /\ shouldAdoptProbe(own, r))
    BY <1>2 DEF statuses_after, adopted
  <1>4. latest \in probing =>
          /\ prompts[latest].phase = "probing" /\ prompts[latest] \in Prompt
          /\ prompts[latest].next \in WalletStatus
          /\ prompts[latest].next.state \in ProbedFailures
          /\ \/ own = prompts[latest].next
             \/ own = r /\ r.state \in {"connected", "unsupported_account"}
    <2> SUFFICES ASSUME latest \in probing
                 PROVE  /\ prompts[latest].phase = "probing" /\ prompts[latest] \in Prompt
                        /\ prompts[latest].next \in WalletStatus
                        /\ prompts[latest].next.state \in ProbedFailures
                        /\ \/ own = prompts[latest].next
                           \/ own = r /\ r.state \in {"connected", "unsupported_account"}
      OBVIOUS
    <2>1. latest \in 1 .. MaxPrompts /\ prompts[latest].phase = "probing"
      BY <1>0 DEF probing
    <2>2. prompts[latest] \in Prompt
      BY <1>0, <2>1
    <2>3. prompts[latest].next \in WalletStatus
      BY <2>2 DEF Prompt
    <2>4. prompts[latest].next.state \in ProbedFailures
      BY <2>1 DEF WatchInv, ProbingFailed
    <2> QED BY <2>1, <2>2, <2>3, <2>4 DEF prompt_next
  <1>5. latest \notin probing => own = archStatus
    OBVIOUS
  <1> HIDE DEF r, own
  <1>6. archStatus' \in WalletStatus
    BY <1>1, <1>3, <1>4, <1>5 DEF WatchInv, WatchType
  <1>7. /\ prompts' \in [1 .. MaxPrompts -> Prompt]
        /\ \A id \in 1 .. MaxPrompts :
             IF id \in probing THEN prompts'[id].phase = "done" ELSE prompts'[id] = prompts[id]
    BY <1>0, <1>2, BlankPrompt
  <1>8. archStatus'.state = "awaiting_wallet" =>
          latest \notin probing /\ archStatus.state = "awaiting_wallet"
    BY <1>1, <1>3, <1>4, <1>5 DEF ReadStates, ProbedFailures
  <1>9. PromptAccounted'
    <2>1. CASE latest \in probing
      BY <1>0, <1>2, <1>7, <1>8, <2>1 DEF PromptAccounted, pending
    <2>2. CASE latest \notin probing
      <3>1. pending(latest)' <=> pending(latest)
        <4>1. latest > 0 => latest \in 1 .. MaxPrompts
          BY <1>0
        <4> QED BY <1>2, <1>7, <2>2, <4>1 DEF pending
      <3>2. connecting' = connecting
        BY <1>2, <2>2 DEF WatchInv, WatchType
      <3> QED BY <1>8, <3>1, <3>2 DEF WatchInv, PromptAccounted
    <2> QED BY <2>1, <2>2
  <1>10. ProbingFailed'
    BY <1>7 DEF WatchInv, ProbingFailed
  <1>11. connecting' \in BOOLEAN
    BY <1>2
  <1>12. WatchInv'
    BY <1>0, <1>2, <1>6, <1>7, <1>9, <1>10, <1>11 DEF WatchInv, WatchType
  <1>13. known /\ archStatus'.state = "locked" => archStatus.state = "locked"
    BY <1>1, <1>3, <1>4, <1>5 DEF ProbedFailures
  <1>14. ASSUME narratesPrompt(archStatus),
                latest \in probing => narratesPrompt(prompts[latest].next)
         PROVE  archStatus'.state \notin {"locked", "not_connected", "unavailable"}
    <2>1. narratesPrompt(own) \/ (own = r /\ r.state \in {"connected", "unsupported_account"})
      BY <1>4, <1>5, <1>14
    <2>2. own.state \notin {"locked", "not_connected", "unavailable"}
      BY <2>1 DEF narratesPrompt
    <2>3. shouldAdoptProbe(own, r) =>
            r.state \notin {"locked", "not_connected", "unavailable"}
      <3>1. CASE own = r
        BY <2>2, <3>1
      <3>2. CASE narratesPrompt(own)
        BY <3>2 DEF shouldAdoptProbe, statusAccount
      <3> QED BY <2>1, <3>1, <3>2
    <2> QED BY <1>3, <2>2, <2>3
  <1> QED BY <1>12, <1>13, <1>14

\* What a step may put on screen: see LockNeverFromStaleRead.
honest ==
    /\ known /\ archStatus'.state = "locked" => archStatus.state = "locked"
    /\ (/\ narratesPrompt(archStatus)
        /\ latest \in probing => narratesPrompt(prompts[latest].next))
         => archStatus'.state \notin {"locked", "not_connected", "unavailable"}

LEMMA HonestStatus ==
    ASSUME \/ archStatus' = archStatus
           \/ archStatus'.state \in {"awaiting_wallet", "connected", "detecting", "no_extension"}
    PROVE  honest
  BY DEF honest, narratesPrompt

LEMMA NextStep == WatchInv /\ [Next]_vars => WatchInv' /\ honest
  <1> SUFFICES ASSUME WatchInv, [Next]_vars PROVE WatchInv' /\ honest
    OBVIOUS
  <1>1. ASSUME UNCHANGED watched PROVE WatchInv' /\ honest
    BY <1>1, Kept, HonestStatus DEF watched
  <1>2. ASSUME NEW intent \in Intents, NEW k, connect(intent, k) PROVE WatchInv' /\ honest
    <2>1. archStatus'.state = "awaiting_wallet"
      BY <1>2 DEF connect, setArchStatus
    <2> QED BY <1>2, <2>1, ConnectStep, HonestStatus
  <1>3. CASE PromptStep
    BY <1>3, PromptEndsStep, HonestStatus DEF PromptStep
  <1>4. CASE QueueStep
    <2>1. CASE read_arrives
      BY <2>1, ReadArrivesStep DEF honest
    <2>2. CASE read_answered \/ sign_ends \/ disconnect_ends \/ reconnect_ends
      BY <1>1, <2>2
      DEF read_answered, sign_ends, disconnect_ends, reconnect_ends, conn, watched
    <2> QED BY <1>4, <2>1, <2>2 DEF QueueStep
  <1>5. CASE TimerStep
    <2>1. CASE offerReprompt
      BY <2>1, RepromptStep, HonestStatus
    <2>2. CASE detect_tick
      <3>1. UNCHANGED <<prompts, latest, connecting>>
        BY <2>2 DEF detect_tick, conn
      <3>2. archStatus' = archStatus \/ archStatus' = is("no_extension")
        BY <2>2 DEF detect_tick, setArchStatus
      <3>3. is("no_extension") \in WalletStatus /\ is("no_extension").state = "no_extension"
        BY PlainStatus DEF Plain
      <3>4. CASE archStatus' = archStatus
        BY <1>1, <3>1, <3>4 DEF watched
      <3>5. CASE archStatus' = is("no_extension")
        BY <3>1, <3>3, <3>5, Restated, HonestStatus
      <3> QED BY <3>2, <3>4, <3>5
    <2>3. CASE run
      BY <1>1, <2>3 DEF run, conn, watched
    <2> QED BY <1>5, <2>1, <2>2, <2>3 DEF TimerStep
  <1>6. CASE Click
    <2>1. CASE run_unlock
      BY <1>2, <2>1 DEF run_unlock, Intents
    <2>2. CASE pick_arch
      BY <1>2, <2>2 DEF pick_arch, Intents
    <2>3. CASE run_reload
      <3>1. archStatus'.state = "detecting"
        BY <2>3 DEF run_reload, fresh_page, is
      <3> QED BY <2>3, <3>1, FreshPageStep, HonestStatus DEF run_reload
    <2>4. CASE run_picker \/ run_retry \/ \E action \in {"adopt", "reconnect"} : run_rebind(action)
      BY <1>1, <2>4 DEF run_picker, run_retry, run_rebind, conn, watched
    <2>5. CASE pick_kit \/ closeWalletPicker \/ signMessageHash \/ focus \/ onVisibility
      BY <1>1, <2>5
      DEF pick_kit, closeWalletPicker, signMessageHash, focus, onVisibility, conn, watched
    <2> QED BY <1>6, <2>1, <2>2, <2>3, <2>4, <2>5 DEF Click
  <1>7. CASE provider_injected \/ wallet_changes
    BY <1>1, <1>7 DEF provider_injected, wallet_changes, conn, watched
  <1>8. CASE UNCHANGED vars
    BY <1>1, <1>8 DEF vars, watched
  <1> QED BY <1>3, <1>4, <1>5, <1>6, <1>7, <1>8 DEF Next

-----------------------------------------------------------------------------
(* Theorems                                                                *)

\* The inductive invariant: at every moment the connecting flag is the latest
\* prompt's, and a prompt that waits for a read has not said "locked".
THEOREM WatchInvariant == Spec => []WatchInv
  BY InitStep, NextStep, PTL DEF Spec

\* connect() and its ids: the spinner stands exactly as long as the latest
\* prompt is out, however prompts are repeated and answered.
THEOREM PromptAccountedAlways == Spec => []PromptAccounted
  <1>1. WatchInv => PromptAccounted
    BY DEF WatchInv
  <1> QED BY <1>1, WatchInvariant, PTL

\* shouldAdoptProbe and the latch: no read, however old, puts "locked" on screen
\* against a connect() that reported an empty extension, or turns a prompt that
\* is out or ended unanswered back into "locked" or "not connected".
THEOREM LockNeverFromStaleReadAlways == Spec => LockNeverFromStaleRead
  <1>1. honest =>
          /\ known /\ archStatus'.state = "locked" => archStatus.state = "locked"
          /\ narratesPrompt(archStatus)
             /\ (latest \in probing => narratesPrompt(prompts[latest].next))
               => archStatus'.state \notin {"locked", "not_connected", "unavailable"}
    BY DEF honest
  <1> QED BY <1>1, NextStep, WatchInvariant, PTL DEF Spec, LockNeverFromStaleRead
=============================================================================
