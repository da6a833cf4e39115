----------------------------- MODULE SubmitFlow -----------------------------
(***************************************************************************)
(* submitWithWindowArch of the manager: one mutation is signed by a wallet *)
(* that reports one account to the page and signs with whichever account   *)
(* is active in it.  The flow pins a fee payer, creates its account with   *)
(* the faucet when it has none, checks every signature locally, and starts *)
(* over once with the key that really signed.  The user may switch or lock *)
(* the wallet at any moment in between.                                    *)
(*                                                                         *)
(* A signature is abstracted to the key that made it and to whether its    *)
(* shape is one the local check understands.                               *)
(***************************************************************************)
EXTENDS Naturals, Sequences, FiniteSets, SequencesExt

CONSTANTS
    Keys,        \* the accounts of the wallet
    WatchOnly,   \* the accounts the wallet holds no key for
    None,        \* a value that is no key
    MaxSeen,     \* length of the list of seen accounts (8 in the code)
    MaxCalls,    \* bound: calls of submitWithWindowArch
    MaxSwitches  \* bound: changes the user makes in the wallet

Signers == Keys \ WatchOnly

\* A signature: who made it, its shape, and the account the wallet named when
\* it was asked for.
Signature == [by : Signers, shape : {"schnorr", "other"}, told : Keys]

\* What the browser remembers: who signed while the wallet reported an account.
Observation == [reported : Keys, signer : Keys]

OutcomeKind ==
    {"failed", "unsupported", "account_changed", "signer_mismatch", "confirmed", "pending"}

Outcome == [kind : OutcomeKind, actor : Keys \cup {None}]

ASSUME KeysAssumption == WatchOnly \subseteq Keys /\ Keys # WatchOnly
ASSUME NoneAssumption ==
    /\ None \notin Keys
    /\ None \notin Signature /\ None \notin Observation /\ None \notin Outcome
ASSUME BoundsAssumption == MaxSeen \in Nat \ {0} /\ MaxCalls \in Nat /\ MaxSwitches \in Nat

VARIABLES
    wallet,        \* the extension: account reported, account active, locked
    seen,          \* localStorage: accounts reported so far, latest first
    observation,   \* localStorage: who signed for a reported account, or None
    onchain,       \* Arch accounts that exist
    in_transit,    \* account creations accepted and not yet visible
    flow,          \* the call under way, Idle when there is none
    sig,           \* the last signature returned by the wallet, or None
    sent,          \* the transactions this call handed to the network
    outcome,       \* how the last call ended, or None
    learned_from,  \* the signature behind the observation
    steady,        \* no change in the wallet since this call's pin
    settled,       \* no change since a successful call's pin
    calls, switches

vars == <<wallet, seen, observation, onchain, in_transit, flow, sig, sent, outcome,
          learned_from, steady, settled, calls, switches>>

-----------------------------------------------------------------------------
(* The signer registry                                                     *)

rememberSeenAccount(list, k) ==
    LET moved_up == <<k>> \o SelectSeq(list, LAMBDA a : a # k)
    IN  SubSeq(moved_up, 1, IF Len(moved_up) <= MaxSeen THEN Len(moved_up) ELSE MaxSeen)

\* Always starting with the reported account.
preferredSigner_unlearned(r) == r

preferredSigner(r) ==
    IF observation # None /\ observation.reported = r /\ observation.signer # r
    THEN observation.signer ELSE r

signerCandidates(exclude, r) ==
    ({r} \cup ToSet(seen)
         \cup (IF observation = None THEN {} ELSE {observation.signer})) \ {exclude}

\* The two accounts of an observation confused.
rememberSignerObservation_swapped(r, s) ==
    /\ observation' = [reported |-> s, signer |-> r]
    /\ seen' = rememberSeenAccount(seen, s)
    /\ learned_from' = sig'

rememberSignerObservation(r, s) ==
    /\ observation' = [reported |-> r, signer |-> s]
    /\ seen' = rememberSeenAccount(seen, s)
    /\ learned_from' = sig'

-----------------------------------------------------------------------------
(* Signatures                                                              *)

checkArchSignature(k, s) ==
    IF s.shape = "other" THEN "unverifiable" ELSE IF s.by = k THEN "match" ELSE "mismatch"

\* Some candidate other than the payer made the signature.
identifySigner(payer, r, s) ==
    \E k \in signerCandidates(payer, r) : checkArchSignature(k, s) = "match"

-----------------------------------------------------------------------------
(* The call                                                                *)

Idle == [step |-> "idle"]

Init ==
    /\ \E r \in Keys, a \in Signers :
         wallet = [reported |-> r, active |-> a, locked |-> FALSE]
    /\ onchain \in SUBSET Signers
    /\ seen \in {<<>>} \cup {<<k>> : k \in Keys}
    /\ observation = None
    /\ in_transit = {}
    /\ flow = Idle
    /\ sig = None
    /\ sent = <<>>
    /\ outcome = None
    /\ learned_from = None
    /\ steady = TRUE
    /\ settled = FALSE
    /\ calls = 0
    /\ switches = 0

ends(kind) ==
    /\ flow' = Idle
    /\ outcome' = [kind |-> kind, actor |-> None]

\* The wallet names its account unless it is locked; a kit session owns the
\* account itself and neither probes the extension nor remembers.
probe_names(kit) == kit \/ ~wallet.locked

noted(kit) == IF kit \/ wallet.locked THEN seen ELSE rememberSeenAccount(seen, wallet.reported)

call_with(kit, r) ==
    [step |-> "begin", kit |-> kit, reported |-> r, told |-> r,
     actor |-> IF kit THEN r ELSE preferredSigner(r),
     attempt |-> 1, approvals |-> 0, phase |-> "mutation", proven |-> FALSE]

\* Pins the fee payer with a probe of the wallet, or with the kit's account.
submitWithWindowArch(kit) ==
    /\ flow.step = "idle"
    /\ calls < MaxCalls
    /\ calls' = calls + 1
    /\ seen' = noted(kit)
    /\ sent' = <<>>
    /\ sig' = None
    /\ steady' = TRUE
    /\ \/ /\ probe_names(kit)
          /\ kit \/ wallet.reported \notin WatchOnly
          /\ flow' = call_with(kit, wallet.reported)
          /\ outcome' = None
       \/ /\ ~probe_names(kit)
          /\ ends("failed")
       \/ /\ probe_names(kit)
          /\ ~kit /\ wallet.reported \in WatchOnly
          /\ ends("unsupported")
    /\ UNCHANGED <<wallet, observation, onchain, in_transit, learned_from, settled, switches>>

\* The first read of an attempt: is the payer's account missing?  The answer
\* may come from the transport's cache and miss an account created just now.
runSubmitAttempt ==
    /\ flow.step = "begin"
    /\ \E needsAccountSetup \in BOOLEAN :
         /\ flow.actor \notin onchain => needsAccountSetup
         /\ flow' = [flow EXCEPT !.step = "approve", !.approvals = 0, !.proven = FALSE,
                       !.phase = IF needsAccountSetup THEN "account-setup" ELSE "mutation"]
    /\ UNCHANGED <<wallet, seen, observation, onchain, in_transit, sig, sent, outcome,
                   learned_from, steady, settled, calls, switches>>

\* A read, the faucet or the instruction builder fails before the approval.
request_fails ==
    /\ flow.step \in {"begin", "approve"}
    /\ ends("failed")
    /\ UNCHANGED <<wallet, seen, observation, onchain, in_transit, sig, sent,
                   learned_from, steady, settled, calls, switches>>

\* The check before every approval.  A changed account stops the flow only
\* when an approval was already given.
requireConnectedArchAccount ==
    /\ flow.step = "approve"
    /\ seen' = noted(flow.kit)
    /\ \/ /\ ~probe_names(flow.kit)
          /\ ends("failed")
       \/ /\ probe_names(flow.kit)
          /\ flow.approvals > 0 /\ wallet.reported # flow.reported
          /\ ends("account_changed")
       \/ /\ probe_names(flow.kit)
          /\ flow.approvals = 0 \/ wallet.reported = flow.reported
          /\ ~flow.kit /\ wallet.reported \in WatchOnly
          /\ ends("unsupported")
       \/ /\ probe_names(flow.kit)
          /\ flow.approvals = 0 \/ wallet.reported = flow.reported
          /\ flow.kit \/ wallet.reported \notin WatchOnly
          /\ flow' = [flow EXCEPT !.step = "sign", !.approvals = @ + 1,
                                  !.told = wallet.reported]
          /\ UNCHANGED outcome
    /\ UNCHANGED <<wallet, observation, onchain, in_transit, sig, sent, learned_from,
                   steady, settled, calls, switches>>

\* The user rejects the approval, or the request to the wallet times out.
approval_refused ==
    /\ flow.step = "sign"
    /\ ends("failed")
    /\ UNCHANGED <<wallet, seen, observation, onchain, in_transit, sig, sent,
                   learned_from, steady, settled, calls, switches>>

\* Refusing a mismatch only when the signer was identified this time.
refuses_forgetful(s) == identifySigner(flow.actor, flow.reported, s)

\* A mismatch is refused once some key has verified in this attempt.
refuses(s) == flow.proven \/ identifySigner(flow.actor, flow.reported, s)

starts_over(s) ==
    /\ ~flow.kit
    /\ flow.attempt = 1
    /\ identifySigner(flow.actor, flow.reported, s)

\* The wallet signs with its active account and the page checks the result.
signWithActor(shape) ==
    LET s == [by |-> wallet.active, shape |-> shape, told |-> flow.told]
        check == checkArchSignature(flow.actor, s)
    IN  /\ flow.step = "sign"
        /\ sig' = s
        /\ \/ /\ check # "mismatch"
              /\ flow' = [flow EXCEPT !.step = "send", !.proven = @ \/ check = "match"]
              /\ UNCHANGED <<seen, observation, learned_from, outcome>>
           \/ /\ check = "mismatch" /\ ~refuses(s)
              /\ flow' = [flow EXCEPT !.step = "send"]
              /\ UNCHANGED <<seen, observation, learned_from, outcome>>
           \/ /\ check = "mismatch" /\ refuses(s) /\ starts_over(s)
              /\ rememberSignerObservation(flow.reported, s.by)
              /\ flow' = [flow EXCEPT !.step = "begin", !.actor = s.by, !.attempt = @ + 1]
              /\ UNCHANGED outcome
           \/ /\ check = "mismatch" /\ refuses(s) /\ ~starts_over(s)
              /\ ends("signer_mismatch")
              /\ UNCHANGED <<seen, observation, learned_from>>
        /\ UNCHANGED <<wallet, onchain, in_transit, sent, steady, settled, calls, switches>>

transaction ==
    [phase |-> flow.phase, payer |-> flow.actor, by |-> sig.by, shape |-> sig.shape,
     proven |-> flow.proven]

\* send_transaction.  The node checks the signature against the fee payer; the
\* answer may also be lost, whether or not the transaction arrived.
accepted == sig.by = flow.actor

\* Starting over after any failed send, a lost answer included.
sendTransaction_retrying ==
    /\ flow.step = "send"
    /\ sent' = Append(sent, transaction)
    /\ flow' = IF flow.attempt = 1 THEN [flow EXCEPT !.step = "begin", !.attempt = 2]
               ELSE [flow EXCEPT !.step = "settle"]
    /\ UNCHANGED <<wallet, seen, observation, onchain, in_transit, sig, outcome,
                   learned_from, steady, settled, calls, switches>>

sendTransaction ==
    /\ flow.step = "send"
    /\ sent' = Append(sent, transaction)
    /\ \E arrives \in BOOLEAN, answered \in BOOLEAN :
         /\ in_transit' = IF arrives /\ accepted /\ flow.phase = "account-setup"
                             /\ flow.actor \notin onchain
                          THEN in_transit \cup {flow.actor} ELSE in_transit
         /\ IF arrives /\ answered /\ accepted
            THEN flow' = [flow EXCEPT !.step = "settle"] /\ UNCHANGED outcome
            ELSE ends("failed")
    /\ UNCHANGED <<wallet, seen, observation, onchain, sig, learned_from, steady,
                   settled, calls, switches>>

\* A wait for the account without a deadline.
createArchAccountWithFaucet_patient ==
    /\ flow.step = "settle"
    /\ flow.phase = "account-setup"
    /\ flow.actor \in onchain
    /\ flow' = [flow EXCEPT !.step = "approve", !.phase = "mutation"]
    /\ UNCHANGED <<wallet, seen, observation, onchain, in_transit, sig, sent, outcome,
                   learned_from, steady, settled, calls, switches>>

\* The wait of the account creation: visible, or out of time.
createArchAccountWithFaucet ==
    /\ flow.step = "settle"
    /\ flow.phase = "account-setup"
    /\ \/ /\ flow.actor \in onchain
          /\ flow' = [flow EXCEPT !.step = "approve", !.phase = "mutation"]
          /\ UNCHANGED outcome
       \/ ends("failed")
    /\ UNCHANGED <<wallet, seen, observation, onchain, in_transit, sig, sent,
                   learned_from, steady, settled, calls, switches>>

outcome_of(result) == [kind |-> result, actor |-> flow.actor]

\* The wait of the mutation: confirmed, still pending, or failed on chain.
signAndSendInstruction(result) ==
    /\ flow.step = "settle"
    /\ flow.phase = "mutation"
    /\ flow' = Idle
    /\ \/ /\ result \in {"confirmed", "pending"}
          /\ outcome' = outcome_of(result)
          /\ UNCHANGED sig
          /\ IF flow.kit
             THEN UNCHANGED <<seen, observation, learned_from, settled>>
             ELSE /\ rememberSignerObservation(flow.reported, flow.actor)
                  /\ settled' = steady
       \/ /\ result = "failed"
          /\ outcome' = [kind |-> "failed", actor |-> None]
          /\ UNCHANGED <<seen, observation, learned_from, settled, sig>>
    /\ UNCHANGED <<wallet, onchain, in_transit, sent, steady, calls, switches>>

FlowStep ==
    \/ runSubmitAttempt
    \/ request_fails
    \/ requireConnectedArchAccount
    \/ approval_refused
    \/ \E shape \in {"schnorr", "other"} : signWithActor(shape)
    \/ sendTransaction
    \/ createArchAccountWithFaucet
    \/ \E result \in {"confirmed", "pending", "failed"} : signAndSendInstruction(result)

-----------------------------------------------------------------------------
(* The surroundings                                                        *)

\* The user switches the connected or the active account, locks or unlocks.
switch_wallet ==
    /\ switches < MaxSwitches
    /\ switches' = switches + 1
    /\ \E r \in Keys, a \in Signers, locked \in BOOLEAN :
         wallet' = [reported |-> r, active |-> a, locked |-> locked]
    /\ wallet' # wallet
    /\ steady' = FALSE
    /\ settled' = FALSE
    /\ UNCHANGED <<seen, observation, onchain, in_transit, flow, sig, sent, outcome,
                   learned_from, calls>>

\* An accepted account creation becomes visible.
account_lands ==
    /\ \E k \in in_transit :
         /\ onchain' = onchain \cup {k}
         /\ in_transit' = in_transit \ {k}
    /\ UNCHANGED <<wallet, seen, observation, flow, sig, sent, outcome, learned_from,
                   steady, settled, calls, switches>>

Next ==
    \/ \E kit \in BOOLEAN : submitWithWindowArch(kit)
    \/ FlowStep
    \/ switch_wallet
    \/ account_lands

Spec == Init /\ [][Next]_vars

\* Every wait of the flow has a deadline: the provider's own request deadline
\* for an approval, waitForTransaction's for a confirmation.
FairSpec == Spec /\ WF_vars(FlowStep)

-----------------------------------------------------------------------------
(* Properties                                                              *)

\* runSubmitAttempt: once any key has verified in an attempt, a signature known
\* to be another account's is never handed to the network, whatever the user
\* does in the wallet between the two approvals.
ProvenVerifierGuards ==
    \A i \in DOMAIN sent :
        (sent[i].proven /\ sent[i].shape = "schnorr") => sent[i].by = sent[i].payer

\* submitWithWindowArch: the second attempt never repeats a mutation that was
\* already handed to the network, even when the answer to it was lost.
OneMutationPerCall ==
    \A i, j \in DOMAIN sent :
        (sent[i].phase = "mutation" /\ sent[j].phase = "mutation") => i = j

\* createArchAccountWithFaucet and archAccountExists: a mutation is sent only
\* when the account that pays for it exists.
MutationPayerExists ==
    \A i \in DOMAIN sent : sent[i].phase = "mutation" => sent[i].payer \in onchain

\* rememberSignerObservation: what the browser learns is backed by a signature
\* of exactly that key, checked here or accepted by the node.
ObservationSigned ==
    observation # None => learned_from # None /\ learned_from.by = observation.signer

\* submitWithWindowArch "costs one extra approval the first time and none
\* afterwards": as long as the user leaves the wallet alone after a successful
\* call, no later call needs a second attempt.
LearnedSignerTriedFirst ==
    (settled /\ flow.step # "idle" /\ ~flow.kit) => flow.attempt = 1

\* SubmitOutcome: the account named in a successful outcome paid for and signed
\* the mutation that was sent.
OutcomeActorPaid ==
    (outcome # None /\ outcome.kind \in {"confirmed", "pending"})
        => /\ sent # <<>>
           /\ LET t == sent[Len(sent)]
              IN  t.phase = "mutation" /\ t.payer = outcome.actor /\ t.by = outcome.actor

\* Every call ends, with an outcome or an error.
SubmitEnds == flow.step # "idle" ~> flow.step = "idle"

\* WalletAccountChangedError and SignerMismatchError: a call that was refused,
\* also in its second attempt, has sent no mutation (an account creation may
\* have gone out before).
RefusedSendsNoMutation ==
    (outcome # None /\ outcome.kind \in {"account_changed", "signer_mismatch"})
        => \A i \in DOMAIN sent : sent[i].phase # "mutation"

\* signer-registry.ts: the observation says that "last time the wallet reported
\* R, the signature was actually produced by S".  Refuted by TLC and in no run:
\* the report is read again after the signature.
ObservationMatchesReport ==
    observation # None => learned_from.told = observation.reported

\* submitWithWindowArch: a call hands at most one mutation to the network, none
\* when it refused, and only for a payer that exists.
MutationsAccounted == OneMutationPerCall /\ RefusedSendsNoMutation /\ MutationPayerExists

\* SubmitOutcome and rememberSignerObservation: the account the page names and
\* the one the browser remembers are accounts that signed.
SignersToldTrue == ObservationSigned /\ OutcomeActorPaid
=============================================================================
