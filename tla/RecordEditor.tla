---------------------------- MODULE RecordEditor ----------------------------
(***************************************************************************)
(* Saving one record from the manager: several pages of the owner of a     *)
(* name edit the same record slot.  A page shows the record, builds a      *)
(* SetRecord against the revision it reads at that moment, has it approved *)
(* and submitted, and then polls until the change is confirmed, definitely *)
(* failed, or the deadline passes.  The chain applies submitted            *)
(* transactions in any order, also after the page gave up, or never.       *)
(* Loads of the profile are answered while a save is under way.            *)
(*                                                                         *)
(* Every save carries a value of its own, so a value also stands for the   *)
(* transaction that writes it.                                             *)
(***************************************************************************)
EXTENDS AnsProtocol, FiniteSets

CONSTANTS
    Tabs,      \* manager pages open on the same name and slot
    Polls,     \* poll intervals that fit before the confirmation deadline
    MaxBatches, \* bound: answers to batch reads under way at once
    MaxVersion  \* bound: the version from which nothing more is deleted

ASSUME EditorAssumption ==
    /\ {Polls, MaxBatches, MaxVersion} \subseteq Nat
    /\ Users # {} /\ Texts # {}

VARIABLES
    record,    \* the record account on chain, or None
    version,   \* number of accepted writes and deletions
    deleted,   \* the version made by the latest deletion, or 0
    tx,        \* tx[v]: what has become of the transaction that writes v
    read,      \* read[v]: the snapshot that transaction was built against
    tab,       \* tab[t]: the state of a page
    batches    \* the node's answers to the pages' batch reads, under way

editor == <<record, version, deleted, tx, read, tab, batches>>

chain == <<record, version, deleted, tx>>

\* The name is registered once and keeps its owner while the pages are open.
the_name == new_name(CHOOSE u \in Users : TRUE)

\* What a read of the record account returns, with its place in the history.
Snapshot == [record : RecordAccount \cup {None}, version : Nat]

now == [record |-> record, version |-> version]

TabState ==
    [pc      : {"idle", "signing", "probing", "lookup"},
     cache   : Snapshot,                   \* the transport's account cache
     draft   : Texts \cup {None},          \* the value being saved
     txid    : BOOLEAN,                    \* the node has named the transaction
     polls   : 0..Polls,
     outcome : {"none", "confirmed", "unconfirmed", "failed"}]

BatchAnswer == [tab : Tabs, answer : Snapshot]

\* The value of the slot before the pages were opened, if it had one.
former == CHOOSE v \in Texts : TRUE

EditorInit ==
    /\ \/ record = None /\ version = 0
       \/ record = new_record(the_name, None, former) /\ version = 1
    /\ deleted = 0
    /\ tx = [v \in Texts |-> IF v = former THEN "applied" ELSE "unsent"]
    /\ read = [v \in Texts |-> now]
    /\ tab = [t \in Tabs |->
                [pc |-> "idle", cache |-> now, draft |-> None, txid |-> FALSE,
                 polls |-> 0, outcome |-> "none"]]
    /\ batches = {}

\* The node serves a batch read of the profile, at any time: the effect runs
\* again when the account or the transaction on screen changes.
get_multiple_accounts(t) ==
    /\ Cardinality(batches) < MaxBatches
    /\ batches' = batches \cup {[tab |-> t, answer |-> now]}
    /\ UNCHANGED <<chain, read, tab>>

\* Its answer arrives in the cache, whatever was read since; or it is lost, or
\* overwritten by a single read that was served before it and arrives after.
\* What it puts on screen is not used by a save.
loadNameProfile(t) ==
    /\ \E b \in batches :
         /\ b.tab = t
         /\ batches' = batches \ {b}
         /\ \E c \in {b.answer, tab[t].cache} : tab' = [tab EXCEPT ![t].cache = c]
    /\ UNCHANGED <<chain, read>>

\* The answers a single read can give: the cached one until it expires, the
\* chain's afterwards.  Submitting a transaction does not drop the cache.
readAccountInfo(t) == {tab[t].cache, now}

\* saveRow: the builder reads the record for its revision, whatever the page
\* displays.  Which unused value the save carries makes no difference.
unused == {v \in Texts : tx[v] = "unsent"} \ {tab[t].draft : t \in Tabs}

saveRow(t) ==
    /\ tab[t].pc = "idle"
    /\ unused # {}
    /\ \E seen \in readAccountInfo(t) :
         LET value == CHOOSE v \in unused : TRUE
         IN  /\ read' = [read EXCEPT ![value] = seen]
             /\ tab' = [tab EXCEPT ![t].pc = "signing", ![t].draft = value,
                                   ![t].cache = seen, ![t].txid = FALSE,
                                   ![t].outcome = "none"]
    /\ UNCHANGED <<chain, batches>>

\* The prompt is declined, or the transaction does not reach the node or is
\* refused: nothing was sent, and the page says so.  (A builder whose read
\* fails ends alike.)
decline(t) ==
    /\ tab[t].pc = "signing"
    /\ read' = [read EXCEPT ![tab[t].draft] = [record |-> None, version |-> 0]]
    /\ tab' = [tab EXCEPT ![t].pc = "idle", ![t].draft = None, ![t].outcome = "failed"]
    /\ UNCHANGED <<chain, batches>>

signAndSendInstruction(t) ==
    /\ tab[t].pc = "signing"
    /\ tx' = [tx EXCEPT ![tab[t].draft] = "sent"]
    /\ tab' = [tab EXCEPT ![t].pc = "probing", ![t].polls = Polls, ![t].txid = TRUE]
    /\ UNCHANGED <<record, version, deleted, read, batches>>

\* The node has taken the transaction and its answer is lost: sendTransaction
\* throws, and to the page this is like a decline.
send_answer_lost(t) ==
    /\ tab[t].pc = "signing"
    /\ tx' = [tx EXCEPT ![tab[t].draft] = "sent"]
    /\ tab' = [tab EXCEPT ![t].pc = "idle", ![t].outcome = "failed"]
    /\ UNCHANGED <<record, version, deleted, read, batches>>

-----------------------------------------------------------------------------
(* The chain                                                               *)

\* A write applied without comparing revisions.
set_record_blind(v) ==
    /\ tx[v] = "sent"
    /\ record' = new_record(the_name, record, v)
    /\ version' = version + 1
    /\ tx' = [tx EXCEPT ![v] = "applied"]
    /\ UNCHANGED <<deleted, read, tab, batches>>

set_record_lands(v) ==
    /\ tx[v] = "sent"
    /\ IF revision_of(record) = revision_of(read[v].record)
       THEN /\ record' = new_record(the_name, record, v)
            /\ version' = version + 1
            /\ tx' = [tx EXCEPT ![v] = "applied"]
       ELSE /\ tx' = [tx EXCEPT ![v] = "failed"]
            /\ UNCHANGED <<record, version>>
    /\ UNCHANGED <<deleted, read, tab, batches>>

\* Another client of the owner deletes the record.
delete_record_lands ==
    /\ record # None
    /\ version < MaxVersion
    /\ record' = None
    /\ version' = version + 1
    /\ deleted' = version + 1
    /\ UNCHANGED <<tx, read, tab, batches>>

-----------------------------------------------------------------------------
(* waitForTransaction                                                      *)

\* A probe that is satisfied by the revision the write was built against.
revision_reached(seen, builtAgainst) ==
    seen # None /\ seen.revision >= revision_of(builtAgainst)

recordRevisionPast(seen, builtAgainst) ==
    seen # None /\ seen.revision > revision_of(builtAgainst)

\* isComplete: a read, which may fail and is then retried at the next poll.
isComplete(t) ==
    /\ tab[t].pc = "probing"
    /\ \E seen \in readAccountInfo(t) :
         tab' = IF recordRevisionPast(seen.record, read[tab[t].draft].record)
                THEN [tab EXCEPT ![t].pc = "idle", ![t].outcome = "confirmed",
                                 ![t].polls = 0, ![t].cache = seen]
                ELSE [tab EXCEPT ![t].pc = "lookup", ![t].cache = seen]
    /\ UNCHANGED <<chain, read, batches>>

probe_throws(t) ==
    /\ tab[t].pc = "probing"
    /\ tab' = [tab EXCEPT ![t].pc = "lookup"]
    /\ UNCHANGED <<chain, read, batches>>

\* The end of an iteration: past the deadline the wait reports a timeout.
next_poll(t) ==
    /\ tab' = IF tab[t].polls = 0
              THEN [tab EXCEPT ![t].pc = "idle", ![t].outcome = "unconfirmed"]
              ELSE [tab EXCEPT ![t].pc = "probing", ![t].polls = @ - 1]
    /\ UNCHANGED <<chain, read, batches>>

failed(t) ==
    /\ tab' = [tab EXCEPT ![t].pc = "idle", ![t].outcome = "failed", ![t].polls = 0]
    /\ UNCHANGED <<chain, read, batches>>

\* A lookup that takes a transaction nobody knows of for a failed one.
unindexed_is_failed(t) ==
    /\ tab[t].pc = "lookup"
    /\ IF tx[tab[t].draft] = "applied" THEN next_poll(t) ELSE failed(t)

\* A lookup after which the deadline is not consulted.
lookup_without_deadline(t) ==
    /\ tab[t].pc = "lookup"
    /\ tab' = [tab EXCEPT ![t].pc = "probing"]
    /\ UNCHANGED <<chain, read, batches>>

\* Only a Failed status ends the wait; a receipt does not, because a probe was
\* given, and neither does a lookup that throws or finds nothing, which is all
\* the indexer has to say until it has ingested the transaction.
getProcessedTransaction(t) ==
    /\ tab[t].pc = "lookup"
    /\ \/ next_poll(t)
       \/ tx[tab[t].draft] = "failed" /\ failed(t)

wait_step(t) == isComplete(t) \/ probe_throws(t) \/ getProcessedTransaction(t)

EditorNext ==
    \/ delete_record_lands
    \/ \E v \in Texts : set_record_lands(v)
    \/ \E t \in Tabs :
         \/ get_multiple_accounts(t) \/ loadNameProfile(t) \/ saveRow(t) \/ decline(t)
         \/ signAndSendInstruction(t) \/ send_answer_lost(t) \/ wait_step(t)

\* Once submitted, a page's polling loop keeps running: each iteration is a
\* read, a lookup and a timer of the page.  Nothing is assumed of the user,
\* the wallet, the chain or the indexer.
EditorSpec == EditorInit /\ [][EditorNext]_editor /\ \A t \in Tabs : WF_editor(wait_step(t))

-----------------------------------------------------------------------------
(* Properties                                                              *)

\* waitForTransaction and signAndSendInstruction: once the node has named a
\* transaction, its save is reported as failed only when the chain rejected
\* it; a lookup that throws or a transaction the indexer has not seen never
\* looks like a failure.
FailureIsDefinite ==
    \A t \in Tabs : (tab[t].outcome = "failed" /\ tab[t].txid) => tx[tab[t].draft] = "failed"

\* The answer that ends a wait is in the cache after the step.
confirms(t) == tab[t].outcome # "confirmed" /\ tab'[t].outcome = "confirmed"

confirmed_or_overtaken ==
    \A t \in Tabs : confirms(t) =>
        LET built == read[tab[t].draft].version
        IN  \/ tx[tab[t].draft] = "applied"
            \/ version > built
            \/ tab'[t].cache.version < deleted /\ deleted <= built

\* recordRevisionPast: a save that is reported as confirmed was applied, or
\* the record was changed by somebody else since the builder read it.  The one
\* exception is an answer from before a deletion that the builder had seen: a
\* batch read cached after the builder's own.
ConfirmedOrOvertaken == [][confirmed_or_overtaken]_editor

accepted(v) == tx[v] = "sent" /\ tx'[v] = "applied"

write_replaces_read ==
    \A v \in Texts :
        (accepted(v) /\ revision_of(record) < MaxU64)
            => record = read[v].record \/ deleted > read[v].version

\* set_record's compare-and-set across pages: while the revision is below its
\* limit, an accepted write replaces exactly the record its builder read, also
\* when that read came from the cache and when the page has given up on it,
\* unless the record was deleted in between.
WriteReplacesWhatWasRead == [][write_replaces_read]_editor

\* waitForTransaction: every confirmation wait ends, whatever the chain, the
\* indexer and the other pages do.
WaitEnds ==
    \A t \in Tabs : (tab[t].pc \in {"probing", "lookup"}) ~> (tab[t].pc = "idle")

\* saveRow's comment on the revision it built against: a save reported as
\* confirmed is a save that landed.  Refuted by TLC and in no run: another
\* page's write moves the revision past as well (ConfirmedOrOvertaken).
ConfirmedMeansLanded ==
    \A t \in Tabs : tab[t].outcome = "confirmed" => tx[tab[t].draft] = "applied"

\* The same without the exception of ConfirmedOrOvertaken.  Refuted by TLC and
\* in no run.
ConfirmedMeansChanged ==
    \A t \in Tabs : tab[t].outcome = "confirmed" =>
        tx[tab[t].draft] = "applied" \/ version > read[tab[t].draft].version

\* ManageView's "No change was made.": a save reported as failed is not
\* applied.  Refuted by TLC and in no run: the answer to send_transaction may
\* be lost (send_answer_lost).
FailedMeansNoChange ==
    \A t \in Tabs : (tab[t].outcome = "failed" /\ tab[t].draft # None)
                        => tx[tab[t].draft] # "applied"
=============================================================================
