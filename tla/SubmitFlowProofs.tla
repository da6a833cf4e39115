-------------------------- MODULE SubmitFlowProofs --------------------------
(***************************************************************************)
(* Theorems about submitWithWindowArch, for every wallet, every number of  *)
(* calls and every number of changes the user makes meanwhile.             *)
(***************************************************************************)
EXTENDS SubmitFlow, TLAPS

-----------------------------------------------------------------------------
(* The inductive invariant                                                 *)

Steps == {"begin", "approve", "sign", "send", "settle"}

Phases == {"account-setup", "mutation"}

FlowState ==
    [step : Steps, kit : BOOLEAN, reported : Keys, told : Keys, actor : Keys,
     attempt : Nat, approvals : Nat, phase : Phases, proven : BOOLEAN]

Transaction ==
    [phase : Phases, payer : Keys, by : Keys, shape : {"schnorr", "other"},
     proven : BOOLEAN]

SubmitType ==
    /\ wallet \in [reported : Keys, active : Signers, locked : BOOLEAN]
    /\ observation \in Observation \cup {None}
    /\ flow \in FlowState \cup {Idle}
    /\ sig \in Signature \cup {None}
    /\ learned_from \in Signature \cup {None}
    /\ outcome \in Outcome \cup {None}
    /\ sent \in Seq(Transaction)
    /\ steady \in BOOLEAN
    /\ settled \in BOOLEAN

\* What is known of the signature about to be sent, and of the one sent last.
SignatureChecked ==
    /\ flow.step = "send" =>
          /\ sig \in Signature
          /\ (flow.proven /\ sig.shape = "schnorr") => sig.by = flow.actor
    /\ flow.step = "settle" => sig \in Signature /\ sig.by = flow.actor

\* A call has sent its mutation exactly when it waits for it or is over, and
\* its outcome is open until then.
MutationPending ==
    /\ flow.step # "idle" => outcome = None
    /\ (flow.step \in {"begin", "approve", "sign", "send"}
          \/ (flow.step = "settle" /\ flow.phase = "account-setup")) =>
             \A i \in DOMAIN sent : sent[i].phase # "mutation"
    /\ (flow.step = "settle" /\ flow.phase = "mutation") =>
          /\ sent # <<>>
          /\ LET t == sent[Len(sent)]
             IN  t.phase = "mutation" /\ t.payer = flow.actor /\ t.by = flow.actor

\* From the first approval of a mutation on, its payer has an account.
PayerReady ==
    (flow.step \in {"approve", "sign", "send", "settle"} /\ flow.phase = "mutation")
        => flow.actor \in onchain

\* While the wallet is left alone, a call works with the account it reports,
\* and its active account is the one that signs.
SteadyCall ==
    steady =>
        /\ flow.step # "idle" => flow.reported = wallet.reported
        /\ flow.step \in {"send", "settle"} => sig.by = wallet.active

\* After a successful call and until the next change in the wallet, the
\* observation names the active account and calls start with it.
SettledWallet ==
    settled =>
        /\ steady
        /\ observation = [reported |-> wallet.reported, signer |-> wallet.active]
        /\ (flow.step # "idle" /\ ~flow.kit) =>
              flow.actor = wallet.active /\ flow.attempt = 1

SubmitInv ==
    /\ SubmitType
    /\ SignatureChecked
    /\ MutationPending
    /\ PayerReady
    /\ SteadyCall
    /\ SettledWallet
    /\ ProvenVerifierGuards
    /\ MutationsAccounted
    /\ SignersToldTrue

-----------------------------------------------------------------------------
(* Lemmas                                                                  *)

\* A call under way has all the fields of one.
LEMMA Running == ASSUME SubmitType, flow.step # "idle" PROVE flow \in FlowState
  BY DEF SubmitType, Idle

\* A transaction is added at the end of what was sent.
LEMMA SentAppend ==
    ASSUME sent \in Seq(Transaction), NEW x \in Transaction, sent' = Append(sent, x)
    PROVE  /\ sent' \in Seq(Transaction) /\ sent' # <<>>
           /\ Len(sent) \in Nat /\ Len(sent') = Len(sent) + 1
           /\ DOMAIN sent = 1..Len(sent)
           /\ DOMAIN sent' = DOMAIN sent \cup {Len(sent')}
           /\ sent'[Len(sent')] = x
           /\ \A i \in DOMAIN sent : i # Len(sent') /\ sent'[i] = sent[i]
  OBVIOUS

\* What was said of past transactions, of the observation and of the outcome
\* stays true while they stay.
LEMMA PromisesKept ==
    ASSUME SubmitInv, UNCHANGED <<sent, observation, learned_from, outcome>>,
           onchain \subseteq onchain'
    PROVE  ProvenVerifierGuards' /\ MutationsAccounted' /\ SignersToldTrue'
  <1>1. ProvenVerifierGuards'
    BY DEF SubmitInv, ProvenVerifierGuards
  <1>2. MutationsAccounted'
    BY DEF SubmitInv, MutationsAccounted, OneMutationPerCall, RefusedSendsNoMutation,
           MutationPayerExists
  <1>3. SignersToldTrue'
    BY DEF SubmitInv, SignersToldTrue, ObservationSigned, OutcomeActorPaid
  <1> QED BY <1>1, <1>2, <1>3

Refusals == {"account_changed", "signer_mismatch"}

\* A call that ends without success claims nothing, and one that ends with a
\* refusal had not come to its mutation.
LEMMA EndStep ==
    ASSUME SubmitInv, NEW kind \in Refusals \cup {"failed", "unsupported"}, ends(kind),
           UNCHANGED <<wallet, onchain, sent, observation, learned_from, steady, settled>>,
           sig' \in Signature \cup {None},
           kind \in Refusals => flow.step \in {"begin", "approve", "sign", "send"}
    PROVE  SubmitInv'
  <1>1. flow' = Idle /\ flow'.step = "idle"
    BY DEF ends, Idle
  <1>2. outcome' \in Outcome /\ outcome'.kind = kind
    BY DEF ends, Outcome, OutcomeKind, Refusals
  <1>3. SubmitType'
    BY <1>1, <1>2 DEF SubmitInv, SubmitType
  <1>4. SignatureChecked' /\ MutationPending' /\ PayerReady'
    BY <1>1 DEF SignatureChecked, MutationPending, PayerReady
  <1>5. SteadyCall' /\ SettledWallet'
    BY <1>1 DEF SubmitInv, SteadyCall, SettledWallet
  <1>6. ProvenVerifierGuards'
    BY DEF SubmitInv, ProvenVerifierGuards
  <1>7. MutationsAccounted'
    <2>1. OneMutationPerCall' /\ MutationPayerExists'
      BY DEF SubmitInv, MutationsAccounted, OneMutationPerCall, MutationPayerExists
    <2>2. RefusedSendsNoMutation'
      BY <1>2 DEF SubmitInv, MutationPending, RefusedSendsNoMutation, Refusals
    <2> QED BY <2>1, <2>2 DEF MutationsAccounted
  <1>8. SignersToldTrue'
    <2>1. ObservationSigned'
      BY DEF SubmitInv, SignersToldTrue, ObservationSigned
    <2>2. OutcomeActorPaid'
      BY <1>2 DEF OutcomeActorPaid, Refusals
    <2> QED BY <2>1, <2>2 DEF SignersToldTrue
  <1> QED BY <1>3, <1>4, <1>5, <1>6, <1>7, <1>8 DEF SubmitInv

-----------------------------------------------------------------------------
(* The invariant is inductive                                              *)

\* A new call forgets what the last one sent and starts with the account the
\* wallet reports, or with the one that signed for it last time.
LEMMA SubmitStep ==
    ASSUME SubmitInv, NEW kit \in BOOLEAN, submitWithWindowArch(kit)
    PROVE  SubmitInv'
  <1> DEFINE r == wallet.reported
  <1>1. SubmitType
    BY DEF SubmitInv
  <1>2. r \in Keys /\ wallet.active \in Keys
    BY <1>1 DEF SubmitType, Signers
  <1>3. /\ sent' = <<>> /\ sig' = None /\ steady' = TRUE
        /\ UNCHANGED <<wallet, observation, onchain, learned_from, settled>>
        /\ flow.step = "idle"
    BY DEF submitWithWindowArch
  <1>4. ProvenVerifierGuards'
    BY <1>3 DEF ProvenVerifierGuards
  <1>5. MutationsAccounted'
    BY <1>3 DEF MutationsAccounted, OneMutationPerCall, RefusedSendsNoMutation,
                MutationPayerExists
  <1>6. ObservationSigned'
    BY <1>3 DEF SubmitInv, SignersToldTrue, ObservationSigned
  <1>7. CASE flow' = Idle /\ \E kind \in {"failed", "unsupported"} :
                outcome' = [kind |-> kind, actor |-> None]
    <2>1. flow'.step = "idle"
      BY <1>7 DEF Idle
    <2>2. outcome' \in Outcome /\ outcome'.kind \in {"failed", "unsupported"}
      BY <1>7 DEF Outcome, OutcomeKind
    <2>3. SubmitType'
      BY <1>1, <1>3, <1>7, <2>2 DEF SubmitType
    <2>4. SignatureChecked' /\ MutationPending' /\ PayerReady'
      BY <2>1 DEF SignatureChecked, MutationPending, PayerReady
    <2>5. SteadyCall' /\ SettledWallet'
      BY <1>3, <2>1 DEF SubmitInv, SteadyCall, SettledWallet
    <2>6. OutcomeActorPaid'
      BY <2>2 DEF OutcomeActorPaid
    <2> QED BY <1>4, <1>5, <1>6, <2>3, <2>4, <2>5, <2>6 DEF SubmitInv, SignersToldTrue
  <1>8. CASE flow' = call_with(kit, r) /\ outcome' = None
    <2> DEFINE actor == IF kit THEN r ELSE preferredSigner(r)
    <2>1. actor \in Keys /\ (settled /\ ~kit => actor = wallet.active)
      <3>1. observation # None => observation \in Observation /\ observation.signer \in Keys
        BY <1>1 DEF SubmitType, Observation
      <3>2. settled => /\ observation # None /\ observation.reported = r
                       /\ observation.signer = wallet.active
        BY <1>2, NoneAssumption DEF SubmitInv, SettledWallet, Observation
      <3> QED BY <1>2, <3>1, <3>2 DEF preferredSigner
    <2> HIDE DEF actor
    <2>2. flow' = [step |-> "begin", kit |-> kit, reported |-> r, told |-> r,
                   actor |-> actor, attempt |-> 1, approvals |-> 0,
                   phase |-> "mutation", proven |-> FALSE]
      BY <1>8 DEF call_with, actor
    <2>3. flow' \in FlowState
      BY <1>2, <2>1, <2>2 DEF FlowState, Steps, Phases
    <2>4. /\ flow'.step = "begin" /\ flow'.reported = r /\ flow'.actor = actor
          /\ flow'.attempt = 1 /\ (flow'.kit <=> kit)
      BY <2>2
    <2>5. SubmitType'
      BY <1>1, <1>3, <1>8, <2>3 DEF SubmitType
    <2>6. SignatureChecked' /\ PayerReady' /\ MutationPending'
      BY <1>3, <1>8, <2>4 DEF SignatureChecked, PayerReady, MutationPending
    <2>7. SteadyCall'
      BY <1>3, <2>4 DEF SteadyCall
    <2>8. SettledWallet'
      BY <1>3, <2>1, <2>4 DEF SubmitInv, SettledWallet
    <2>9. OutcomeActorPaid'
      BY <1>8 DEF OutcomeActorPaid
    <2> QED BY <1>4, <1>5, <1>6, <2>5, <2>6, <2>7, <2>8, <2>9 DEF SubmitInv, SignersToldTrue
  <1> QED BY <1>7, <1>8 DEF submitWithWindowArch, ends

\* A call that moves on towards its next signature, with the same payer and
\* nothing sent.
LEMMA MoveStep ==
    ASSUME SubmitInv, flow.step # "idle", flow' \in FlowState,
           ~(flow.step = "settle" /\ flow.phase = "mutation"),
           flow'.step \in {"approve", "sign", "send"},
           flow'.kit = flow.kit, flow'.reported = flow.reported,
           flow'.actor = flow.actor, flow'.attempt = flow.attempt,
           UNCHANGED <<wallet, onchain, sent, observation, learned_from, outcome,
                       steady, settled>>,
           sig' \in Signature \cup {None},
           flow'.phase = "mutation" => flow.actor \in onchain,
           flow'.step = "send" =>
               /\ sig' \in Signature /\ sig'.by = wallet.active
               /\ (flow'.proven /\ sig'.shape = "schnorr") => sig'.by = flow.actor
    PROVE  SubmitInv'
  <1>1. flow \in FlowState /\ flow.step \in Steps /\ flow.phase \in Phases
    BY Running DEF SubmitInv, FlowState
  <1>2. SubmitType'
    BY DEF SubmitInv, SubmitType
  <1>3. SignatureChecked' /\ PayerReady'
    BY DEF SignatureChecked, PayerReady
  <1>4. MutationPending'
    BY <1>1 DEF SubmitInv, MutationPending, Steps, Phases
  <1>5. SteadyCall'
    BY DEF SubmitInv, SteadyCall
  <1>6. SettledWallet'
    BY DEF SubmitInv, SettledWallet
  <1> QED BY <1>2, <1>3, <1>4, <1>5, <1>6, PromisesKept DEF SubmitInv

LEMMA AttemptStep == ASSUME SubmitInv, runSubmitAttempt PROVE SubmitInv'
  <1>1. flow.step = "begin" /\ flow \in FlowState
    BY Running DEF SubmitInv, runSubmitAttempt
  <1>2. PICK setup \in BOOLEAN :
          /\ flow.actor \notin onchain => setup
          /\ flow' = [flow EXCEPT !.step = "approve", !.approvals = 0, !.proven = FALSE,
                        !.phase = IF setup THEN "account-setup" ELSE "mutation"]
    BY DEF runSubmitAttempt
  <1>3. flow' \in FlowState
    BY <1>1, <1>2 DEF FlowState, Steps, Phases
  <1>4. /\ flow'.step = "approve" /\ flow'.kit = flow.kit /\ flow'.reported = flow.reported
        /\ flow'.actor = flow.actor /\ flow'.attempt = flow.attempt
        /\ flow'.phase = "mutation" => flow.actor \in onchain
    BY <1>1, <1>2 DEF FlowState
  <1> QED BY <1>1, <1>3, <1>4, MoveStep DEF runSubmitAttempt, SubmitInv, SubmitType

LEMMA ApprovalStep == ASSUME SubmitInv, requireConnectedArchAccount PROVE SubmitInv'
  <1>1. flow.step = "approve" /\ flow \in FlowState
    BY Running DEF SubmitInv, requireConnectedArchAccount
  <1>2. UNCHANGED <<wallet, observation, onchain, sig, sent, learned_from, steady, settled>>
    BY DEF requireConnectedArchAccount
  <1>3. CASE \E kind \in {"failed", "account_changed", "unsupported"} : ends(kind)
    <2>1. PICK kind \in {"failed", "account_changed", "unsupported"} : ends(kind)
      BY <1>3
    <2> QED BY <1>1, <1>2, <2>1, EndStep DEF SubmitInv, SubmitType, Refusals
  <1>4. CASE /\ flow' = [flow EXCEPT !.step = "sign", !.approvals = @ + 1,
                                     !.told = wallet.reported]
             /\ UNCHANGED outcome
    <2>1. wallet.reported \in Keys
      BY DEF SubmitInv, SubmitType
    <2>2. flow' \in FlowState
      <3>1. PICK n \in Nat : n = flow.approvals + 1
        BY <1>1 DEF FlowState
      <3>2. flow' = [flow EXCEPT !.step = "sign", !.approvals = n, !.told = wallet.reported]
        BY <1>4, <3>1
      <3> QED BY <1>1, <2>1, <3>2 DEF FlowState, Steps
    <2>3. /\ flow'.step = "sign" /\ flow'.kit = flow.kit /\ flow'.reported = flow.reported
          /\ flow'.actor = flow.actor /\ flow'.attempt = flow.attempt
          /\ flow'.phase = flow.phase
      BY <1>1, <1>4 DEF FlowState
    <2>4. flow.phase = "mutation" => flow.actor \in onchain
      BY <1>1 DEF SubmitInv, PayerReady
    <2> QED BY <1>1, <1>2, <1>4, <2>2, <2>3, <2>4, MoveStep DEF SubmitInv, SubmitType
  <1> QED BY <1>3, <1>4 DEF requireConnectedArchAccount

LEMMA SignStep ==
    ASSUME SubmitInv, NEW shape \in {"schnorr", "other"}, signWithActor(shape)
    PROVE  SubmitInv'
  <1> DEFINE s == [by |-> wallet.active, shape |-> shape, told |-> flow.told]
             check == checkArchSignature(flow.actor, s)
  <1>1. flow.step = "sign" /\ flow \in FlowState
    BY Running DEF SubmitInv, signWithActor
  <1>2. s \in Signature /\ s.by = wallet.active /\ s.shape = shape
    BY <1>1 DEF SubmitInv, SubmitType, Signature, FlowState
  <1>3. s.by \in Keys
    BY <1>2 DEF Signature, Signers
  <1>4. /\ check = "mismatch" <=> (shape = "schnorr" /\ s.by # flow.actor)
        /\ check = "match" <=> (shape = "schnorr" /\ s.by = flow.actor)
    BY DEF checkArchSignature
  <1>5. /\ UNCHANGED <<wallet, onchain, sent, steady, settled>>
        /\ sig' = s
        /\ \/ /\ check # "mismatch"
              /\ flow' = [flow EXCEPT !.step = "send", !.proven = @ \/ check = "match"]
              /\ UNCHANGED <<observation, learned_from, outcome>>
           \/ /\ check = "mismatch" /\ ~refuses(s)
              /\ flow' = [flow EXCEPT !.step = "send"]
              /\ UNCHANGED <<observation, learned_from, outcome>>
           \/ /\ check = "mismatch" /\ starts_over(s)
              /\ rememberSignerObservation(flow.reported, s.by)
              /\ flow' = [flow EXCEPT !.step = "begin", !.actor = s.by, !.attempt = @ + 1]
              /\ UNCHANGED outcome
           \/ /\ ends("signer_mismatch")
              /\ UNCHANGED <<observation, learned_from>>
    BY DEF signWithActor
  <1>6. flow.phase = "mutation" => flow.actor \in onchain
    BY <1>1 DEF SubmitInv, PayerReady
  <1> HIDE DEF s, check
  <1>7. CASE /\ check # "mismatch"
             /\ flow' = [flow EXCEPT !.step = "send", !.proven = @ \/ check = "match"]
             /\ UNCHANGED <<observation, learned_from, outcome>>
    <2>1. flow' \in FlowState
      BY <1>1, <1>7 DEF FlowState, Steps
    <2>2. /\ flow'.step = "send" /\ flow'.kit = flow.kit /\ flow'.reported = flow.reported
          /\ flow'.actor = flow.actor /\ flow'.attempt = flow.attempt
          /\ flow'.phase = flow.phase
      BY <1>1, <1>7 DEF FlowState
    <2> QED BY <1>1, <1>2, <1>4, <1>5, <1>6, <1>7, <2>1, <2>2, MoveStep
  <1>8. CASE /\ check = "mismatch" /\ ~refuses(s)
             /\ flow' = [flow EXCEPT !.step = "send"]
             /\ UNCHANGED <<observation, learned_from, outcome>>
    <2>1. flow' \in FlowState
      BY <1>1, <1>8 DEF FlowState, Steps
    <2>2. /\ flow'.step = "send" /\ flow'.kit = flow.kit /\ flow'.reported = flow.reported
          /\ flow'.actor = flow.actor /\ flow'.attempt = flow.attempt
          /\ flow'.phase = flow.phase /\ flow'.proven = flow.proven
      BY <1>1, <1>8 DEF FlowState
    <2>3. ~flow'.proven
      BY <1>8, <2>2 DEF refuses
    <2> QED BY <1>1, <1>2, <1>5, <1>6, <1>8, <2>1, <2>2, <2>3, MoveStep
  <1>9. CASE /\ check = "mismatch" /\ starts_over(s)
             /\ rememberSignerObservation(flow.reported, s.by)
             /\ flow' = [flow EXCEPT !.step = "begin", !.actor = s.by, !.attempt = @ + 1]
             /\ UNCHANGED outcome
    <2>1. flow' \in FlowState
      <3>1. PICK n \in Nat : n = flow.attempt + 1
        BY <1>1 DEF FlowState
      <3>2. flow' = [flow EXCEPT !.step = "begin", !.actor = s.by, !.attempt = n]
        BY <1>9, <3>1
      <3> QED BY <1>1, <1>3, <3>2 DEF FlowState, Steps
    <2>2. flow'.step = "begin" /\ flow'.reported = flow.reported
      BY <1>1, <1>9 DEF FlowState
    <2>3. /\ observation' \in Observation /\ observation'.signer = s.by
          /\ learned_from' = s
      BY <1>1, <1>3, <1>5, <1>9 DEF rememberSignerObservation, Observation, FlowState
    <2>4. ~settled
      BY <1>1, <1>2, <1>4, <1>9 DEF starts_over, SubmitInv, SettledWallet
    <2>5. SubmitType'
      BY <1>2, <1>5, <1>9, <2>1, <2>3 DEF SubmitInv, SubmitType
    <2>6. SignatureChecked' /\ PayerReady'
      BY <2>2 DEF SignatureChecked, PayerReady
    <2>7. MutationPending'
      BY <1>1, <1>5, <1>9, <2>2 DEF SubmitInv, MutationPending
    <2>8. SteadyCall' /\ SettledWallet'
      BY <1>1, <1>5, <2>2, <2>4 DEF SubmitInv, SteadyCall, SettledWallet
    <2>9. ProvenVerifierGuards' /\ MutationsAccounted'
      BY <1>5, <1>9 DEF SubmitInv, ProvenVerifierGuards, MutationsAccounted,
             OneMutationPerCall, RefusedSendsNoMutation, MutationPayerExists
    <2>10. SignersToldTrue'
      <3>1. ObservationSigned'
        BY <1>2, <2>3, NoneAssumption DEF ObservationSigned
      <3>2. OutcomeActorPaid'
        BY <1>5, <1>9 DEF SubmitInv, SignersToldTrue, OutcomeActorPaid
      <3> QED BY <3>1, <3>2 DEF SignersToldTrue
    <2> QED BY <2>5, <2>6, <2>7, <2>8, <2>9, <2>10 DEF SubmitInv
  <1>10. CASE ends("signer_mismatch") /\ UNCHANGED <<observation, learned_from>>
    BY <1>1, <1>2, <1>5, <1>10, EndStep DEF Refusals
  <1> QED BY <1>5, <1>7, <1>8, <1>9, <1>10

LEMMA SendStep == ASSUME SubmitInv, sendTransaction PROVE SubmitInv'
  <1>1. flow.step = "send" /\ flow \in FlowState
    BY Running DEF SubmitInv, sendTransaction
  <1>2. /\ sig \in Signature
        /\ (flow.proven /\ sig.shape = "schnorr") => sig.by = flow.actor
    BY <1>1 DEF SubmitInv, SignatureChecked
  <1> DEFINE x == transaction
  <1>3. /\ x \in Transaction
        /\ x.phase = flow.phase /\ x.payer = flow.actor /\ x.by = sig.by
        /\ x.shape = sig.shape /\ x.proven = flow.proven
    BY <1>1, <1>2 DEF transaction, Transaction, FlowState, Signature, Signers
  <1> HIDE DEF x
  <1>4. sent \in Seq(Transaction) /\ sent' = Append(sent, x)
    BY DEF SubmitInv, SubmitType, sendTransaction, x
  <1>5. /\ sent' \in Seq(Transaction) /\ sent' # <<>>
        /\ DOMAIN sent' = DOMAIN sent \cup {Len(sent')}
        /\ sent'[Len(sent')] = x
        /\ \A i \in DOMAIN sent : i # Len(sent') /\ sent'[i] = sent[i]
    BY <1>3, <1>4, SentAppend
  <1>6. \A i \in DOMAIN sent : sent[i].phase # "mutation"
    BY <1>1 DEF SubmitInv, MutationPending
  <1>7. /\ UNCHANGED <<wallet, observation, onchain, sig, learned_from, steady, settled>>
        /\ \/ ends("failed")
           \/ /\ accepted
              /\ flow' = [flow EXCEPT !.step = "settle"]
              /\ UNCHANGED outcome
    BY DEF sendTransaction
  <1>8. ProvenVerifierGuards'
    BY <1>2, <1>3, <1>5 DEF SubmitInv, ProvenVerifierGuards
  <1>9. OneMutationPerCall'
    BY <1>5, <1>6 DEF OneMutationPerCall
  <1>10. MutationPayerExists'
    BY <1>1, <1>3, <1>5, <1>6, <1>7 DEF MutationPayerExists, SubmitInv, PayerReady
  <1>11. ObservationSigned'
    BY <1>7 DEF SubmitInv, SignersToldTrue, ObservationSigned
  <1>12. CASE ends("failed")
    <2>1. flow' = Idle /\ flow'.step = "idle"
      BY <1>12 DEF ends, Idle
    <2>2. outcome' \in Outcome /\ outcome'.kind = "failed"
      BY <1>12 DEF ends, Outcome, OutcomeKind
    <2>3. SubmitType'
      BY <1>5, <1>7, <2>1, <2>2 DEF SubmitInv, SubmitType
    <2>4. SignatureChecked' /\ MutationPending' /\ PayerReady'
      BY <2>1 DEF SignatureChecked, MutationPending, PayerReady
    <2>5. SteadyCall' /\ SettledWallet'
      BY <1>7, <2>1 DEF SubmitInv, SteadyCall, SettledWallet
    <2>6. RefusedSendsNoMutation' /\ OutcomeActorPaid'
      BY <2>2 DEF RefusedSendsNoMutation, OutcomeActorPaid
    <2> QED BY <1>8, <1>9, <1>10, <1>11, <2>3, <2>4, <2>5, <2>6
        DEF SubmitInv, MutationsAccounted, SignersToldTrue
  <1>13. CASE accepted /\ flow' = [flow EXCEPT !.step = "settle"] /\ UNCHANGED outcome
    <2>1. flow' \in FlowState
      BY <1>1, <1>13 DEF FlowState, Steps
    <2>2. /\ flow'.step = "settle" /\ flow'.kit = flow.kit /\ flow'.reported = flow.reported
          /\ flow'.actor = flow.actor /\ flow'.attempt = flow.attempt
          /\ flow'.phase = flow.phase
      BY <1>1, <1>13 DEF FlowState
    <2>3. sig.by = flow.actor /\ outcome = None
      BY <1>1, <1>13 DEF accepted, SubmitInv, MutationPending
    <2>4. SubmitType'
      BY <1>5, <1>7, <1>13, <2>1 DEF SubmitInv, SubmitType
    <2>5. SignatureChecked'
      BY <1>2, <1>7, <2>2, <2>3 DEF SignatureChecked
    <2>6. MutationPending'
      <3>1. flow.phase = "mutation" => x.phase = "mutation" /\ x.payer = flow.actor /\ x.by = flow.actor
        BY <1>3, <2>3
      <3>2. flow.phase = "account-setup" => \A i \in DOMAIN sent' : sent'[i].phase # "mutation"
        BY <1>3, <1>5, <1>6
      <3> QED BY <1>5, <1>13, <2>2, <2>3, <3>1, <3>2 DEF MutationPending
    <2>7. PayerReady'
      BY <1>1, <1>7, <2>2 DEF SubmitInv, PayerReady
    <2>8. SteadyCall'
      BY <1>1, <1>7, <2>2 DEF SubmitInv, SteadyCall
    <2>9. SettledWallet'
      BY <1>1, <1>7, <2>2 DEF SubmitInv, SettledWallet
    <2>10. RefusedSendsNoMutation' /\ OutcomeActorPaid'
      BY <1>13, <2>3 DEF RefusedSendsNoMutation, OutcomeActorPaid
    <2> QED BY <1>8, <1>9, <1>10, <1>11, <2>4, <2>5, <2>6, <2>7, <2>8, <2>9, <2>10
        DEF SubmitInv, MutationsAccounted, SignersToldTrue
  <1> QED BY <1>7, <1>12, <1>13

LEMMA FaucetStep == ASSUME SubmitInv, createArchAccountWithFaucet PROVE SubmitInv'
  <1>1. flow.step = "settle" /\ flow.phase = "account-setup" /\ flow \in FlowState
    BY Running DEF SubmitInv, createArchAccountWithFaucet
  <1>2. UNCHANGED <<wallet, observation, onchain, sig, sent, learned_from, steady, settled>>
    BY DEF createArchAccountWithFaucet
  <1>3. CASE ends("failed")
    BY <1>2, <1>3, EndStep DEF SubmitInv, SubmitType, Refusals
  <1>4. CASE /\ flow.actor \in onchain
             /\ flow' = [flow EXCEPT !.step = "approve", !.phase = "mutation"]
             /\ UNCHANGED outcome
    <2>1. flow' \in FlowState
      BY <1>1, <1>4 DEF FlowState, Steps, Phases
    <2>2. /\ flow'.step = "approve" /\ flow'.kit = flow.kit /\ flow'.reported = flow.reported
          /\ flow'.actor = flow.actor /\ flow'.attempt = flow.attempt
      BY <1>1, <1>4 DEF FlowState
    <2> QED BY <1>1, <1>2, <1>4, <2>1, <2>2, MoveStep DEF SubmitInv, SubmitType
  <1> QED BY <1>3, <1>4 DEF createArchAccountWithFaucet

LEMMA SettleStep ==
    ASSUME SubmitInv, NEW result \in {"confirmed", "pending", "failed"},
           signAndSendInstruction(result)
    PROVE  SubmitInv'
  <1>1. flow.step = "settle" /\ flow.phase = "mutation" /\ flow \in FlowState
    BY Running DEF SubmitInv, signAndSendInstruction
  <1>2. UNCHANGED <<wallet, onchain, sent, sig, steady>>
    BY DEF signAndSendInstruction
  <1>3. CASE result = "failed"
    <2>1. ends("failed") /\ UNCHANGED <<observation, learned_from, settled>>
      BY <1>3 DEF signAndSendInstruction, ends
    <2> QED BY <1>2, <2>1, EndStep DEF SubmitInv, SubmitType, Refusals
  <1>4. CASE result \in {"confirmed", "pending"}
    <2>1. flow' = Idle /\ flow'.step = "idle"
      BY DEF signAndSendInstruction, Idle
    <2>2. outcome' \in Outcome /\ outcome'.kind = result /\ outcome'.actor = flow.actor
      BY <1>1, <1>4 DEF signAndSendInstruction, outcome_of, Outcome, OutcomeKind, FlowState
    <2>3. sig \in Signature /\ sig.by = flow.actor
      BY <1>1 DEF SubmitInv, SignatureChecked
    <2>4. \/ UNCHANGED <<observation, learned_from, settled>>
          \/ /\ observation' = [reported |-> flow.reported, signer |-> flow.actor]
             /\ learned_from' = sig
             /\ settled' = steady
      BY <1>4 DEF signAndSendInstruction, rememberSignerObservation
    <2>5. [reported |-> flow.reported, signer |-> flow.actor] \in Observation
      BY <1>1 DEF FlowState, Observation
    <2>6. SubmitType'
      <3>1. observation' \in Observation \cup {None}
        BY <2>4, <2>5 DEF SubmitInv, SubmitType
      <3>2. learned_from' \in Signature \cup {None} /\ settled' \in BOOLEAN
        BY <2>3, <2>4 DEF SubmitInv, SubmitType
      <3> QED BY <1>2, <2>1, <2>2, <3>1, <3>2 DEF SubmitInv, SubmitType
    <2>7. SignatureChecked' /\ MutationPending' /\ PayerReady'
      BY <2>1 DEF SignatureChecked, MutationPending, PayerReady
    <2>8. SteadyCall'
      BY <2>1 DEF SteadyCall
    <2>9. SettledWallet'
      <3>1. steady => flow.reported = wallet.reported /\ flow.actor = wallet.active
        BY <1>1, <2>3 DEF SubmitInv, SteadyCall
      <3> QED BY <1>2, <2>1, <2>4, <3>1 DEF SubmitInv, SettledWallet
    <2>10. ProvenVerifierGuards' /\ MutationsAccounted'
      BY <1>2, <1>4, <2>2 DEF SubmitInv, ProvenVerifierGuards, MutationsAccounted,
             OneMutationPerCall, RefusedSendsNoMutation, MutationPayerExists
    <2>11. ObservationSigned'
      BY <2>3, <2>4, <2>5, NoneAssumption
         DEF SubmitInv, SignersToldTrue, ObservationSigned, Observation
    <2>12. OutcomeActorPaid'
      BY <1>1, <1>2, <2>2 DEF SubmitInv, MutationPending, OutcomeActorPaid
    <2> QED BY <2>6, <2>7, <2>8, <2>9, <2>10, <2>11, <2>12 DEF SubmitInv, SignersToldTrue
  <1> QED BY <1>3, <1>4

\* A change in the wallet ends what was known about it, nothing else.
LEMMA SwitchStep == ASSUME SubmitInv, switch_wallet PROVE SubmitInv'
  <1>1. /\ wallet' \in [reported : Keys, active : Signers, locked : BOOLEAN]
        /\ steady' = FALSE /\ settled' = FALSE
        /\ UNCHANGED <<observation, onchain, flow, sig, sent, outcome, learned_from>>
    BY DEF switch_wallet
  <1>2. SubmitType'
    BY <1>1 DEF SubmitInv, SubmitType
  <1>3. SignatureChecked' /\ MutationPending' /\ PayerReady'
    BY <1>1 DEF SubmitInv, SignatureChecked, MutationPending, PayerReady
  <1>4. SteadyCall' /\ SettledWallet'
    BY <1>1 DEF SteadyCall, SettledWallet
  <1> QED BY <1>1, <1>2, <1>3, <1>4, PromisesKept DEF SubmitInv

LEMMA LandStep ==
    ASSUME SubmitInv, onchain \subseteq onchain',
           UNCHANGED <<wallet, observation, flow, sig, sent, outcome, learned_from, steady, settled>>
    PROVE  SubmitInv'
  <1>1. SubmitType'
    BY DEF SubmitInv, SubmitType
  <1>2. SignatureChecked' /\ MutationPending' /\ PayerReady'
    BY DEF SubmitInv, SignatureChecked, MutationPending, PayerReady
  <1>3. SteadyCall' /\ SettledWallet'
    BY DEF SubmitInv, SteadyCall, SettledWallet
  <1> QED BY <1>1, <1>2, <1>3, PromisesKept DEF SubmitInv

LEMMA SubmitInit == Init => SubmitInv
  <1> SUFFICES ASSUME Init PROVE SubmitInv
    OBVIOUS
  <1>1. SubmitType
    <2>1. wallet \in [reported : Keys, active : Signers, locked : BOOLEAN]
      BY DEF Init
    <2>2. sent \in Seq(Transaction)
      BY DEF Init
    <2>3. steady \in BOOLEAN /\ settled \in BOOLEAN
      BY DEF Init
    <2>4. /\ observation = None /\ flow = Idle /\ sig = None /\ learned_from = None
          /\ outcome = None
      BY DEF Init
    <2> QED BY <2>1, <2>2, <2>3, <2>4 DEF SubmitType
  <1>2. flow.step = "idle" /\ outcome = None /\ sent = <<>> /\ observation = None /\ ~settled
    BY DEF Init, Idle
  <1>3. SignatureChecked /\ MutationPending /\ PayerReady /\ SteadyCall /\ SettledWallet
    BY <1>2 DEF SignatureChecked, MutationPending, PayerReady, SteadyCall, SettledWallet
  <1>4. ProvenVerifierGuards /\ MutationsAccounted /\ SignersToldTrue
    BY <1>2 DEF ProvenVerifierGuards, MutationsAccounted, OneMutationPerCall,
         RefusedSendsNoMutation, MutationPayerExists, SignersToldTrue, ObservationSigned,
         OutcomeActorPaid
  <1> QED BY <1>1, <1>3, <1>4 DEF SubmitInv

-----------------------------------------------------------------------------
(* Theorems                                                                *)

\* The invariant behind the promises below holds in every state of every call.
THEOREM SubmitInvariant == Spec => []SubmitInv
  <1>1. SubmitInv /\ [Next]_vars => SubmitInv'
    <2> SUFFICES ASSUME SubmitInv, [Next]_vars PROVE SubmitInv'
      OBVIOUS
    <2>1. ASSUME NEW kit \in BOOLEAN, submitWithWindowArch(kit) PROVE SubmitInv'
      BY <2>1, SubmitStep
    <2>2. CASE request_fails
      BY <2>2, EndStep DEF request_fails, SubmitInv, SubmitType, Refusals
    <2>3. CASE approval_refused
      BY <2>3, EndStep DEF approval_refused, SubmitInv, SubmitType, Refusals
    <2>4. ASSUME NEW shape \in {"schnorr", "other"}, signWithActor(shape) PROVE SubmitInv'
      BY <2>4, SignStep
    <2>5. ASSUME NEW result \in {"confirmed", "pending", "failed"},
                 signAndSendInstruction(result)
          PROVE  SubmitInv'
      BY <2>5, SettleStep
    <2>6. CASE account_lands
      BY <2>6, LandStep DEF account_lands
    <2>7. CASE UNCHANGED vars
      BY <2>7, LandStep DEF vars
    <2> QED
      BY <2>1, <2>2, <2>3, <2>4, <2>5, <2>6, <2>7, AttemptStep, ApprovalStep, SendStep,
         FaucetStep, SwitchStep DEF Next, FlowStep
  <1> QED BY <1>1, SubmitInit, PTL DEF Spec

\* Once a key has verified in an attempt, no signature of another key is sent,
\* whatever the user does in the wallet and however often.
THEOREM ProvenVerifierGuardsAlways == Spec => []ProvenVerifierGuards
  <1>1. SubmitInv => ProvenVerifierGuards
    BY DEF SubmitInv
  <1> QED BY <1>1, SubmitInvariant, PTL

\* Every call sends at most one mutation, none when it refuses, and only for a
\* payer whose account exists.
THEOREM MutationsAccountedAlways == Spec => []MutationsAccounted
  <1>1. SubmitInv => MutationsAccounted
    BY DEF SubmitInv
  <1> QED BY <1>1, SubmitInvariant, PTL

\* The account a successful outcome names paid and signed, and the account the
\* browser remembers has signed.
THEOREM SignersToldTrueAlways == Spec => []SignersToldTrue
  <1>1. SubmitInv => SignersToldTrue
    BY DEF SubmitInv
  <1> QED BY <1>1, SubmitInvariant, PTL

\* After a successful call no later one needs a second attempt, as long as the
\* user leaves the wallet alone.
THEOREM LearnedSignerTriedFirstAlways == Spec => []LearnedSignerTriedFirst
  <1>1. SubmitInv => LearnedSignerTriedFirst
    BY DEF SubmitInv, SettledWallet, LearnedSignerTriedFirst
  <1> QED BY <1>1, SubmitInvariant, PTL
=============================================================================
