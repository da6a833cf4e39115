--------------------------- MODULE ResolveClient ---------------------------
(***************************************************************************)
(* A client of the SDK resolving records and primary names while the       *)
(* registry changes.  A resolution needs two accounts and reads them one   *)
(* by one: a name and a record, or a reverse account and the name it       *)
(* points to.  The reads are concurrent and may be answered from the       *)
(* transport's cache, so the two copies have arbitrary ages, in either     *)
(* order.  The manager's profile loads the accounts in one batch instead.  *)
(*                                                                         *)
(* `lived` collects what resolved on chain at some moment since the older  *)
(* copy was taken; it is what an answer is compared with.                  *)
(***************************************************************************)
EXTENDS AnsRegistry

VARIABLES
    query,       \* the query being answered, or None
    got,         \* which of the two accounts have been read
    name_copy,   \* the name account as read
    other_copy,  \* the record or reverse account as read
    lived,       \* answers that were right at some moment of the query
    answer       \* the latest answer, or None

client == <<query, got, name_copy, other_copy, lived, answer>>

RecordQuery == [kind : {"record"}, name : Names, key : RecordKeys]
PrimaryQuery == [kind : {"primary"}, name : Names, owner : Users]

\* What a query about the present state of the registry should return.
right_answers(q) ==
    CASE q.kind = "record" ->
           IF record_resolves(q.name, q.key) THEN {records[q.name][q.key].value} ELSE {}
      [] q.kind = "primary" ->
           IF primary_resolves(q.owner) THEN {reverse[q.owner].primary_name} ELSE {}

ClientInit ==
    /\ Init
    /\ query = None
    /\ got = {}
    /\ name_copy = None
    /\ other_copy = None
    /\ lived = {}
    /\ answer = None

\* A query starts with its older copy still to be taken.  For a primary query
\* the name is a guess until the reverse account is read: a cached copy of it
\* may be older than the reverse account.
Ask(q) ==
    /\ query = None
    /\ query' = q
    /\ lived' = {}
    /\ answer' = None
    /\ UNCHANGED <<vars, got, name_copy, other_copy>>

other_account(q) == IF q.kind = "record" THEN records[q.name][q.key] ELSE reverse[q.owner]

readName ==
    /\ query # None
    /\ "name" \notin got
    /\ name_copy' = names[query.name]
    /\ got' = got \cup {"name"}
    /\ lived' = lived \cup right_answers(query)
    /\ UNCHANGED <<vars, query, other_copy, answer>>

readOther ==
    /\ query # None
    /\ "other" \notin got
    /\ other_copy' = other_account(query)
    /\ got' = got \cup {"other"}
    /\ lived' = lived \cup right_answers(query)
    /\ UNCHANGED <<vars, query, name_copy, answer>>

\* Resolution that does not compare the record with the name's tenure.
resolves_unbound(q) ==
    IF q.kind = "record"
    THEN /\ name_copy # None /\ other_copy # None
         /\ validate_record_value(name_copy.owner, q.key, other_copy.value)
    ELSE /\ resolve_primary_ok(other_copy, name_copy)
         /\ other_copy.primary_name = q.name

\* Both copies together pass the checks of resolveRecord or resolvePrimary.
resolves(q) ==
    IF q.kind = "record"
    THEN resolve_record_ok(name_copy, q.key, other_copy)
    ELSE /\ resolve_primary_ok(other_copy, name_copy)
         /\ other_copy.primary_name = q.name

\* The counter below whose limit an old binding cannot come back.
tenure(q) ==
    IF q.kind = "record" THEN name_copy.record_epoch ELSE name_copy.primary_binding_nonce

Resolve ==
    /\ query # None
    /\ got = {"name", "other"}
    /\ answer' = IF resolves(query)
                 THEN [by     |-> "resolve",
                       value  |-> IF query.kind = "record"
                                  THEN other_copy.value ELSE other_copy.primary_name,
                       tenure |-> tenure(query)]
                 ELSE None
    /\ query' = None
    /\ got' = {}
    /\ name_copy' = None
    /\ other_copy' = None
    /\ UNCHANGED <<vars, lived>>

\* The profile shows every record account that decodes, as it was read.
fetchNameProfile(q) ==
    /\ query = None
    /\ q.kind = "record"
    /\ names[q.name] # None
    /\ records[q.name][q.key] # None
    /\ answer' = [by |-> "profile", value |-> records[q.name][q.key].value,
                  tenure |-> names[q.name].record_epoch]
    /\ lived' = right_answers(q)
    /\ UNCHANGED <<vars, query, got, name_copy, other_copy>>

ClientStep ==
    \/ \E q \in RecordQuery \cup PrimaryQuery : Ask(q) \/ fetchNameProfile(q)
    \/ readName \/ readOther \/ Resolve

\* What the client's side records of an instruction that lands in between.
observe ==
    /\ UNCHANGED <<query, got, name_copy, other_copy, answer>>
    /\ lived' = IF query # None /\ got # {}
                THEN lived \cup right_answers(query)' ELSE lived

RegistryStep == (NameInstruction \/ RecordInstruction \/ MarketInstruction) /\ observe

ClientNext == ClientStep \/ RegistryStep

ClientSpec == ClientInit /\ [][ClientNext]_<<vars, client>>

-----------------------------------------------------------------------------
(* Properties                                                              *)

\* resolveRecord and resolvePrimary with two reads of different ages: while
\* the counters are below their limit, a value they return was the right
\* answer at some moment since the older read.  Transfers, sales, rewrites and
\* deletions between the reads never combine into an answer nobody published.
ResolvedWasLive ==
    (answer # None /\ answer.by = "resolve" /\ answer.tenure < MaxU64)
        => answer.value \in lived

\* PROTOCOL.md on transfers and on what clients must check: a record value
\* shown to a user is one that resolves.  Refuted by TLC and in no run:
\* fetchNameProfile does not compare owner and epoch.
ProfileShowsLive ==
    (answer # None /\ answer.by = "profile") => answer.value \in lived
=============================================================================
