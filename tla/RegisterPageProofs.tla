------------------------- MODULE RegisterPageProofs -------------------------
(***************************************************************************)
(* Theorems about the register page, for every set of names and accounts   *)
(* and any number of searches, edits, wallet changes and registrations.    *)
(***************************************************************************)
EXTENDS RegisterPage, SequenceTheorems, TLAPS

-----------------------------------------------------------------------------
(* The inductive invariant                                                 *)

Label == Names \cup {None}

Run ==
    [name : Names, stage : {"refresh", "check", "sign", "confirm"},
     actor : Accounts \cup {None}, tx : Nat]

Transaction ==
    [name : Names, signer : Accounts, status : {"sent", "lost", "ok", "failed"}]

Notice == [name : Names, actor : Accounts \cup {None}, confirmed : BOOLEAN]

Failure ==
    [name : Label, blocker : BOOLEAN, tx : Nat,
     why : {"taken", "unavailable", "label", "wallet", "read", "send", "rejected"}]

RegisterType ==
    /\ slot \in [Names -> Slots]
    /\ cache \in [Names -> Slots \cup {Uncached}]
    /\ txs \in Seq(Transaction)
    /\ search \in [name : Label, state : {"idle", "loading", "available", "registered", "error"}]
    /\ label \in Label
    /\ busy \in BOOLEAN
    /\ running \in Seq(Run)
    /\ working \in [action : {"connect", "adopt"}, label : Label] \cup {None}
    /\ notice \in Notice \cup {None}
    /\ error \in Failure \cup {None}

\* An owner the cache still names has the name: it is never taken away.
CacheTrue == \A n \in Names : cache[n] \in Owners => slot[n] = cache[n]

\* The button is given back exactly when the only run is over, and a recovery
\* and a run exclude one another.
Button ==
    /\ IF busy THEN Len(running) = 1 ELSE running = <<>>
    /\ working # None => ~busy

\* What the page says names a name.
Named ==
    /\ search.state # "idle" => search.name \in Names
    /\ (error # None /\ error.why = "taken") => error.name \in Names

\* A confirmation names an account of the user.
Confirmed == (notice # None /\ notice.confirmed) => notice.actor \in Owners

RegisterInv ==
    /\ RegisterType
    /\ CacheTrue
    /\ Button
    /\ Named
    /\ Confirmed
    /\ NoticesTrue

-----------------------------------------------------------------------------
(* Lemmas                                                                  *)

\* Marks of an account that is not there are no owners, and no label is no name.
LEMMA Distinct ==
    /\ Missing \notin Owners /\ Blank \notin Owners /\ Junk \notin Owners
    /\ Uncached \notin Owners /\ None \notin Names
  BY RegisterAssumption DEF Owners

\* What a cached read says of an owner is true.
LEMMA ReadTrue ==
    ASSUME RegisterInv, NEW n \in Names, NEW s \in Slots, readAccountInfo(n, s),
           UNCHANGED slot
    PROVE  /\ cache' \in [Names -> Slots \cup {Uncached}]
           /\ CacheTrue'
           /\ s \in Owners => slot[n] = s
  <1>1. /\ s = slot[n] \/ s = cache[n]
        /\ cache' = [cache EXCEPT ![n] = s]
    BY DEF readAccountInfo
  <1>2. /\ cache' \in [Names -> Slots \cup {Uncached}]
        /\ \A m \in Names : cache'[m] = IF m = n THEN s ELSE cache[m]
    BY <1>1 DEF RegisterInv, RegisterType
  <1>3. s \in Owners => slot[n] = s
    BY <1>1 DEF RegisterInv, CacheTrue
  <1> QED BY <1>2, <1>3 DEF RegisterInv, CacheTrue

\* A run under way is the only one, and its end leaves none.
LEMMA OnlyRun ==
    ASSUME RegisterInv, NEW i \in DOMAIN running
    PROVE  /\ busy /\ i = 1 /\ Len(running) = 1 /\ running[i] \in Run
           /\ ends(i) => running' = <<>>
  <1>1. running \in Seq(Run)
    BY DEF RegisterInv, RegisterType
  <1>2. running # <<>>
    BY <1>1
  <1>3. busy /\ Len(running) = 1
    BY <1>2 DEF RegisterInv, Button
  <1>4. i = 1 /\ running[i] \in Run
    BY <1>1, <1>3
  <1>5. ASSUME ends(i) PROVE running' = <<>>
    <2>1. SubSeq(running, 1, 0) = <<>> /\ SubSeq(running, 2, 1) = <<>>
      BY <1>1
    <2>2. running' = SubSeq(running, 1, 0) \o SubSeq(running, 2, 1)
      BY <1>3, <1>4, <1>5 DEF ends
    <2> QED BY <2>1, <2>2
  <1> QED BY <1>3, <1>4, <1>5

-----------------------------------------------------------------------------
(* The invariant is inductive                                              *)

\* A name that has an owner keeps it, and what the page says stays true.
LEMMA WorldStep ==
    ASSUME RegisterInv, UNCHANGED <<search, label, busy, running, working, notice, error>>,
           slot' \in [Names -> Slots], txs' \in Seq(Transaction),
           \A n \in Names : slot[n] \in Owners => slot'[n] = slot[n],
           cache' \in [Names -> Slots \cup {Uncached}],
           \A n \in Names : cache'[n] = cache[n] \/ cache'[n] = Uncached
    PROVE  RegisterInv'
  <1>1. RegisterType'
    BY DEF RegisterInv, RegisterType
  <1>2. CacheTrue'
    BY Distinct DEF RegisterInv, CacheTrue
  <1>3. Button' /\ Named' /\ Confirmed'
    BY DEF RegisterInv, Button, Named, Confirmed
  <1>4. NoticesTrue'
    <2>1. (notice # None /\ notice.confirmed) =>
            notice.name \in Names /\ slot[notice.name] = notice.actor
      BY DEF RegisterInv, NoticesTrue, RegisterType, Notice
    <2>2. (error # None /\ error.why = "taken") =>
            error.name \in Names /\ slot[error.name] \in Owners
      BY DEF RegisterInv, NoticesTrue, Named
    <2>3. (notice # None /\ notice.confirmed) => notice.actor \in Owners
      BY DEF RegisterInv, Confirmed
    <2> QED BY <2>1, <2>2, <2>3 DEF NoticesTrue
  <1> QED BY <1>1, <1>2, <1>3, <1>4 DEF RegisterInv

Search == [name : Label, state : {"idle", "loading", "available", "registered", "error"}]

Recovery == [action : {"connect", "adopt"}, label : Label]

\* A step of the form clears what it said, or adds a failure that is not about
\* the name being taken.
LEMMA FormStep ==
    ASSUME RegisterInv, UNCHANGED <<slot, cache, txs>>,
           search' \in Search, search'.state # "idle" => search'.name \in Names,
           label' \in Label, busy' \in BOOLEAN, running' \in Seq(Run),
           working' \in Recovery \cup {None}, Button',
           notice' \in {notice, None},
           \/ error' \in {error, None}
           \/ error' \in Failure /\ error'.why # "taken"
    PROVE  RegisterInv'
  <1>1. RegisterType'
    BY DEF RegisterInv, RegisterType, Search, Recovery
  <1>2. CacheTrue'
    BY DEF RegisterInv, CacheTrue
  <1>3. Named' /\ Confirmed'
    BY DEF RegisterInv, Named, Confirmed
  <1>4. NoticesTrue'
    BY DEF RegisterInv, NoticesTrue
  <1> QED BY <1>1, <1>2, <1>3, <1>4 DEF RegisterInv

\* A run that starts is the only one.
LEMMA StartStep ==
    ASSUME RegisterInv, NEW n \in Names, starts_run(n), ~busy
    PROVE  /\ busy' = TRUE /\ running' \in Seq(Run) /\ Len(running') = 1
           /\ notice' = None /\ error' = None
  <1>1. running = <<>>
    BY DEF RegisterInv, Button
  <1> DEFINE r == [name |-> n, stage |-> "refresh", actor |-> None, tx |-> 0]
  <1>2. r \in Run
    BY DEF Run
  <1>3. running' = Append(<<>>, r) /\ busy' = TRUE /\ notice' = None /\ error' = None
    BY <1>1 DEF starts_run
  <1> HIDE DEF r
  <1>4. running' \in Seq(Run) /\ Len(running') = 1
    BY <1>2, <1>3
  <1> QED BY <1>3, <1>4

LEMMA PageStep ==
    ASSUME RegisterInv,
           \/ search_answers \/ registerPathForLabel
           \/ \E n \in Names : onSearch(n)
           \/ \E l \in Label : edit_label(l)
    PROVE  RegisterInv'
  <1>0. /\ search \in Search /\ (search.state # "idle" => search.name \in Names)
        /\ label \in Label /\ busy \in BOOLEAN /\ running \in Seq(Run)
        /\ working \in Recovery \cup {None}
    BY DEF RegisterInv, RegisterType, Named, Search, Recovery
  <1>1. CASE search_answers
    <2>1. UNCHANGED <<slot, cache, txs, label, busy, running, working, notice, error>>
      BY <1>1 DEF search_answers, form
    <2>2. PICK st \in {"available", "registered", "error"} :
            search' = [search EXCEPT !.state = st]
      BY <1>1 DEF search_answers
    <2>3. search' \in Search /\ search'.name = search.name /\ search.name \in Names
      BY <1>0, <1>1, <2>2 DEF Search, search_answers
    <2>4. Button'
      BY <2>1 DEF RegisterInv, Button
    <2> QED BY <1>0, <2>1, <2>3, <2>4, FormStep
  <1>2. CASE registerPathForLabel
    <2>1. /\ UNCHANGED <<slot, cache, txs, search, busy, running, working, notice, error>>
          /\ label' = search.name /\ search.state = "available"
      BY <1>2 DEF registerPathForLabel
    <2>2. Button'
      BY <2>1 DEF RegisterInv, Button
    <2>3. label' \in Label
      BY <1>0, <2>1 DEF Label
    <2> QED BY <1>0, <2>1, <2>2, <2>3, FormStep
  <1>3. ASSUME NEW n \in Names, onSearch(n) PROVE RegisterInv'
    <2>1. /\ UNCHANGED <<slot, cache, txs, label, busy, running, working, notice, error>>
          /\ search' = [name |-> n, state |-> "loading"]
      BY <1>3 DEF onSearch, form
    <2>2. search' \in Search /\ search'.name \in Names
      BY <2>1 DEF Search, Label
    <2>3. Button'
      BY <2>1 DEF RegisterInv, Button
    <2> QED BY <1>0, <2>1, <2>2, <2>3, FormStep
  <1>4. ASSUME NEW l \in Label, edit_label(l) PROVE RegisterInv'
    <2>1. /\ UNCHANGED <<slot, cache, txs, search, busy, running, working>>
          /\ label' = l /\ notice' = None /\ error' = None
      BY <1>4 DEF edit_label
    <2>2. Button'
      BY <2>1 DEF RegisterInv, Button
    <2> QED BY <1>0, <2>1, <2>2, FormStep
  <1> QED BY <1>1, <1>2, <1>3, <1>4

LEMMA ClickStep ==
    ASSUME RegisterInv, onRegister \/ adopt_clicked \/ handleRecovery
    PROVE  RegisterInv'
  <1>0. /\ search \in Search /\ (search.state # "idle" => search.name \in Names)
        /\ label \in Label /\ busy \in BOOLEAN /\ running \in Seq(Run)
        /\ working \in Recovery \cup {None}
    BY DEF RegisterInv, RegisterType, Named, Search, Recovery
  <1>1. CASE onRegister
    <2>0. /\ UNCHANGED <<slot, cache, txs, search, label>>
          /\ ~busy /\ working = None
      BY <1>1 DEF onRegister, may_click
    <2>1. CASE ready
      <3>1. starts_run(label) /\ working' = working /\ label \in Names
        BY <1>0, <1>1, <2>1 DEF onRegister, may_click, Label
      <3>2. /\ busy' = TRUE /\ running' \in Seq(Run) /\ Len(running') = 1
            /\ notice' = None /\ error' = None
        BY <2>0, <3>1, StartStep
      <3>3. Button'
        BY <2>0, <3>1, <3>2 DEF Button
      <3> QED BY <1>0, <2>0, <3>1, <3>2, <3>3, FormStep
    <2>2. CASE ~ready
      <3>1. /\ working' = [action |-> "connect", label |-> label] /\ error' = None
            /\ UNCHANGED <<busy, running, notice>>
        BY <1>1, <2>2 DEF onRegister
      <3>2. working' \in Recovery
        BY <1>0, <3>1 DEF Recovery
      <3>3. Button'
        BY <2>0, <3>1 DEF RegisterInv, Button
      <3> QED BY <1>0, <2>0, <3>1, <3>2, <3>3, FormStep
    <2> QED BY <2>1, <2>2
  <1>2. CASE adopt_clicked
    <2>1. /\ UNCHANGED <<slot, cache, txs, search, label, busy, running, notice>>
          /\ ~busy /\ error' = None
          /\ working' = [action |-> "adopt", label |-> label]
      BY <1>2 DEF adopt_clicked
    <2>2. working' \in Recovery
      BY <1>0, <2>1 DEF Recovery
    <2>3. Button'
      BY <2>1 DEF RegisterInv, Button
    <2> QED BY <1>0, <2>1, <2>2, <2>3, FormStep
  <1>3. CASE handleRecovery
    <2>0. /\ UNCHANGED <<slot, cache, txs, search, label>>
          /\ working \in Recovery /\ working.label \in Label /\ working' = None /\ ~busy
      BY <1>0, <1>3 DEF handleRecovery, Recovery, RegisterInv, Button
    <2>1. CASE working.label # None /\ starts_run(working.label)
      <3>1. working.label \in Names
        BY <2>0, <2>1 DEF Label
      <3>2. /\ busy' = TRUE /\ running' \in Seq(Run) /\ Len(running') = 1
            /\ notice' = None /\ error' = None
        BY <2>0, <2>1, <3>1, StartStep
      <3>3. Button'
        BY <2>0, <3>2 DEF Button
      <3> QED BY <1>0, <2>0, <3>2, <3>3, FormStep
    <2>2. CASE UNCHANGED <<busy, running, notice, error>>
      <3>1. Button'
        BY <2>0, <2>2 DEF RegisterInv, Button
      <3> QED BY <1>0, <2>0, <2>2, <3>1, FormStep
    <2>3. CASE /\ error' = [name |-> None, why |-> "label", blocker |-> FALSE, tx |-> 0]
               /\ notice' = None /\ UNCHANGED <<busy, running>>
      <3>1. error' \in Failure /\ error'.why # "taken"
        BY <2>3 DEF Failure, Label
      <3>2. Button'
        BY <2>0, <2>3 DEF RegisterInv, Button
      <3> QED BY <1>0, <2>0, <2>3, <3>1, <3>2, FormStep
    <2>4. CASE /\ error' = [name |-> working.label, why |-> "wallet", blocker |-> TRUE, tx |-> 0]
               /\ UNCHANGED <<busy, running, notice>>
      <3>1. error' \in Failure /\ error'.why # "taken"
        BY <2>0, <2>4 DEF Failure
      <3>2. Button'
        BY <2>0, <2>4 DEF RegisterInv, Button
      <3> QED BY <1>0, <2>0, <2>4, <3>1, <3>2, FormStep
    <2> QED BY <1>3, <2>1, <2>2, <2>3, <2>4 DEF handleRecovery
  <1> QED BY <1>1, <1>2, <1>3

-----------------------------------------------------------------------------
(* Steps of a run                                                          *)

\* What a run does to the page: it goes on, fails, or completes.
run_effect(i) ==
    \/ \E r \in Run : goes_on(i, r)
    \/ /\ ends(i) /\ busy' = FALSE /\ UNCHANGED notice
       /\ error' \in Failure
       /\ error'.why = "taken" => error'.name \in Names /\ slot[error'.name] \in Owners
    \/ /\ ends(i) /\ busy' = FALSE /\ UNCHANGED error
       /\ notice' \in Notice
       /\ notice'.confirmed => slot[notice'.name] = notice'.actor /\ notice'.actor \in Owners

LEMMA RunStep ==
    ASSUME RegisterInv, NEW i \in DOMAIN running, run_effect(i),
           UNCHANGED <<slot, search, label, working>>,
           cache' \in [Names -> Slots \cup {Uncached}], CacheTrue',
           txs' \in Seq(Transaction)
    PROVE  RegisterInv'
  <1>0. /\ busy /\ i = 1 /\ Len(running) = 1 /\ running \in Seq(Run)
        /\ ends(i) => running' = <<>>
    BY OnlyRun DEF RegisterInv, RegisterType
  <1>1. ASSUME NEW r \in Run, goes_on(i, r) PROVE RegisterInv'
    <2>1. running' = [running EXCEPT ![i] = r] /\ UNCHANGED <<busy, notice, error>>
      BY <1>1 DEF goes_on
    <2>2. running' \in Seq(Run) /\ Len(running') = 1
      <3>1. i \in 1..Len(running) /\ running \in Seq(Run) /\ Len(running) = 1
        BY <1>0
      <3>2. /\ [running EXCEPT ![i] = r] \in Seq(Run)
            /\ Len([running EXCEPT ![i] = r]) = Len(running)
        BY <3>1, ExceptSeq
      <3> QED BY <2>1, <3>1, <3>2
    <2>3. RegisterType'
      BY <2>1, <2>2 DEF RegisterInv, RegisterType
    <2>4. Button'
      BY <1>0, <2>1, <2>2 DEF RegisterInv, Button
    <2>5. Named' /\ Confirmed' /\ NoticesTrue'
      BY <2>1 DEF RegisterInv, Named, Confirmed, NoticesTrue
    <2> QED BY <2>3, <2>4, <2>5 DEF RegisterInv
  <1>2. CASE /\ ends(i) /\ busy' = FALSE /\ UNCHANGED notice
             /\ error' \in Failure
             /\ error'.why = "taken" =>
                   error'.name \in Names /\ slot[error'.name] \in Owners
    <2>1. running' = <<>> /\ running' \in Seq(Run)
      BY <1>0, <1>2
    <2>2. RegisterType'
      BY <1>2, <2>1 DEF RegisterInv, RegisterType
    <2>3. Button'
      BY <1>2, <2>1 DEF Button
    <2>4. Named' /\ Confirmed' /\ NoticesTrue'
      BY <1>2 DEF RegisterInv, Named, Confirmed, NoticesTrue
    <2> QED BY <2>2, <2>3, <2>4 DEF RegisterInv
  <1>3. CASE /\ ends(i) /\ busy' = FALSE /\ UNCHANGED error
             /\ notice' \in Notice
             /\ notice'.confirmed =>
                   slot[notice'.name] = notice'.actor /\ notice'.actor \in Owners
    <2>1. running' = <<>> /\ running' \in Seq(Run)
      BY <1>0, <1>3
    <2>2. RegisterType'
      BY <1>3, <2>1 DEF RegisterInv, RegisterType
    <2>3. Button'
      BY <1>3, <2>1 DEF Button
    <2>4. Named' /\ Confirmed' /\ NoticesTrue'
      BY <1>3 DEF RegisterInv, Named, Confirmed, NoticesTrue
    <2> QED BY <2>2, <2>3, <2>4 DEF RegisterInv
  <1> QED BY <1>1, <1>2, <1>3 DEF run_effect

\* A failure that does not blame the name, or blames it truly.
LEMMA FailsEffect ==
    ASSUME RegisterInv, NEW i \in DOMAIN running, NEW blocker \in BOOLEAN,
           NEW why \in {"taken", "unavailable", "wallet", "read", "rejected"},
           fails(i, why, blocker), why = "taken" => slot[running[i].name] \in Owners
    PROVE  run_effect(i)
  <1>1. running[i] \in Run /\ running[i].name \in Names /\ running[i].tx \in Nat
    BY OnlyRun DEF Run
  <1>2. /\ error' = [name |-> running[i].name, why |-> why, blocker |-> blocker,
                     tx |-> running[i].tx]
        /\ ends(i) /\ busy' = FALSE /\ UNCHANGED notice
    BY DEF fails
  <1>3. error' \in Failure /\ error'.why = why /\ error'.name = running[i].name
    BY <1>1, <1>2 DEF Failure, Label
  <1> QED BY <1>1, <1>2, <1>3 DEF run_effect

\* A completed run, confirmed only when its signer has the name.
LEMMA CompletesEffect ==
    ASSUME RegisterInv, NEW i \in DOMAIN running, NEW c \in BOOLEAN, completes(i, c),
           c => /\ slot[running[i].name] = running[i].actor
                /\ running[i].actor \in Owners
    PROVE  run_effect(i)
  <1>1. /\ running[i] \in Run /\ running[i].name \in Names
        /\ running[i].actor \in Accounts \cup {None}
    BY OnlyRun DEF Run
  <1>2. /\ notice' = [name |-> running[i].name, actor |-> running[i].actor, confirmed |-> c]
        /\ ends(i) /\ busy' = FALSE /\ UNCHANGED error
    BY DEF completes
  <1>3. /\ notice' \in Notice /\ (notice'.confirmed <=> c)
        /\ notice'.name = running[i].name /\ notice'.actor = running[i].actor
    BY <1>1, <1>2 DEF Notice
  <1> QED BY <1>2, <1>3 DEF run_effect

LEMMA CheckStep ==
    ASSUME RegisterInv, NEW i \in DOMAIN running, wallet_checked(i) \/ name_checked(i)
    PROVE  RegisterInv'
  <1>0. running[i] \in Run /\ running[i].name \in Names
    BY OnlyRun DEF Run
  <1>a. /\ [running[i] EXCEPT !.stage = "check"] \in Run
        /\ [running[i] EXCEPT !.stage = "sign"] \in Run
    BY <1>0 DEF Run
  <1>1. CASE wallet_checked(i)
    <2>1. run_effect(i)
      <3>1. CASE goes_on(i, [running[i] EXCEPT !.stage = "check"])
        BY <1>a, <3>1 DEF run_effect
      <3>2. CASE fails(i, "wallet", TRUE)
        BY <3>2, FailsEffect
      <3> QED BY <1>1, <3>1, <3>2 DEF wallet_checked
    <2>2. UNCHANGED <<slot, cache, txs, search, label, working>>
      BY <1>1 DEF wallet_checked
    <2> QED BY <2>1, <2>2, RunStep DEF RegisterInv, RegisterType, CacheTrue
  <1>2. CASE name_checked(i)
    <2>1. UNCHANGED <<slot, txs, search, label, working>>
      BY <1>2 DEF name_checked
    <2>2. CASE fails(i, "read", FALSE) /\ UNCHANGED cache
      <3>1. run_effect(i)
        BY <2>2, FailsEffect
      <3> QED BY <2>1, <2>2, <3>1, RunStep DEF RegisterInv, RegisterType, CacheTrue
    <2>3. ASSUME NEW s \in Slots, readAccountInfo(running[i].name, s),
                 CASE classifyNameAccountData(s) = "available" ->
                        goes_on(i, [running[i] EXCEPT !.stage = "sign"])
                   [] OTHER -> fails(i, classifyNameAccountData(s), FALSE)
          PROVE  RegisterInv'
      <3>1. /\ cache' \in [Names -> Slots \cup {Uncached}] /\ CacheTrue'
            /\ s \in Owners => slot[running[i].name] = s
        BY <1>0, <2>1, <2>3, ReadTrue
      <3>2. CASE classifyNameAccountData(s) = "available"
        <4>1. run_effect(i)
          BY <1>a, <2>3, <3>2 DEF run_effect
        <4> QED BY <2>1, <3>1, <4>1, RunStep DEF RegisterInv, RegisterType
      <3>3. CASE classifyNameAccountData(s) # "available"
        <4>1. /\ classifyNameAccountData(s) \in {"taken", "unavailable"}
              /\ classifyNameAccountData(s) = "taken" => s \in Owners
          BY <3>3, Distinct DEF classifyNameAccountData
        <4>2. fails(i, classifyNameAccountData(s), FALSE)
          BY <2>3, <3>3
        <4>3. run_effect(i)
          BY <3>1, <4>1, <4>2, FailsEffect
        <4> QED BY <2>1, <3>1, <4>3, RunStep DEF RegisterInv, RegisterType
      <3> QED BY <3>2, <3>3
    <2> QED BY <1>2, <2>2, <2>3 DEF name_checked
  <1> QED BY <1>1, <1>2

LEMMA SubmittedStep ==
    ASSUME RegisterInv, NEW i \in DOMAIN running, submitted(i)
    PROVE  RegisterInv'
  <1>0. running[i] \in Run /\ running[i].name \in Names /\ txs \in Seq(Transaction)
    BY OnlyRun DEF Run, RegisterInv, RegisterType
  <1>1. UNCHANGED <<slot, cache, search, label, working>>
    BY DEF submitted
  <1>2. CASE fails(i, "wallet", TRUE) /\ UNCHANGED txs
    <2>1. run_effect(i)
      BY <1>2, FailsEffect
    <2> QED BY <1>0, <1>1, <1>2, <2>1, RunStep DEF RegisterInv, RegisterType, CacheTrue
  <1>3. ASSUME NEW a \in Accounts, NEW status \in {"sent", "lost"}, NEW answered \in BOOLEAN,
               txs' = Append(txs, [name |-> running[i].name, signer |-> a, status |-> status]),
               LET r == [running[i] EXCEPT !.stage = "confirm", !.actor = a, !.tx = Len(txs) + 1]
               IN  IF answered THEN goes_on(i, r)
                   ELSE /\ ends(i) /\ busy' = FALSE /\ UNCHANGED notice
                        /\ error' = [name |-> r.name, why |-> "send", blocker |-> FALSE, tx |-> r.tx]
        PROVE  RegisterInv'
    <2> DEFINE x == [name |-> running[i].name, signer |-> a, status |-> status]
               r == [running[i] EXCEPT !.stage = "confirm", !.actor = a, !.tx = Len(txs) + 1]
    <2>1. x \in Transaction
      BY <1>0 DEF Transaction
    <2>2. txs' \in Seq(Transaction)
      <3> HIDE DEF x
      <3>1. txs' = Append(txs, x)
        BY <1>3 DEF x
      <3> QED BY <1>0, <2>1, <3>1
    <2>3. PICK n \in Nat : n = Len(txs) + 1
      BY <1>0
    <2>4. r = [running[i] EXCEPT !.stage = "confirm", !.actor = a, !.tx = n]
      BY <2>3
    <2> HIDE DEF r
    <2>5. r \in Run /\ r.name \in Names /\ r.tx \in Nat
      BY <1>0, <2>4 DEF Run
    <2>6. \/ goes_on(i, r)
          \/ /\ ends(i) /\ busy' = FALSE /\ UNCHANGED notice
             /\ error' = [name |-> r.name, why |-> "send", blocker |-> FALSE, tx |-> r.tx]
      BY <1>3 DEF r
    <2>7. run_effect(i)
      <3>1. CASE goes_on(i, r)
        BY <2>5, <3>1 DEF run_effect
      <3>2. CASE /\ ends(i) /\ busy' = FALSE /\ UNCHANGED notice
                 /\ error' = [name |-> r.name, why |-> "send", blocker |-> FALSE, tx |-> r.tx]
        <4>1. error' \in Failure /\ error'.why = "send"
          BY <2>5, <3>2 DEF Failure, Label
        <4> QED BY <3>2, <4>1 DEF run_effect
      <3> QED BY <2>6, <3>1, <3>2
    <2> QED BY <1>1, <2>2, <2>7, RunStep DEF RegisterInv, RegisterType, CacheTrue
  <1> QED BY <1>2, <1>3 DEF submitted

LEMMA ConfirmedStep ==
    ASSUME RegisterInv, NEW i \in DOMAIN running, confirmed(i)
    PROVE  RegisterInv'
  <1>0. running[i] \in Run /\ running[i].name \in Names /\ txs \in Seq(Transaction)
    BY OnlyRun DEF Run, RegisterInv, RegisterType
  <1>1. UNCHANGED <<slot, txs, search, label, working>>
    BY DEF confirmed
  <1>2. ASSUME NEW s \in Slots, readAccountInfo(running[i].name, s),
               IF nameRegisteredTo(s, running[i].actor) THEN completes(i, TRUE)
               ELSE goes_on(i, running[i])
        PROVE  RegisterInv'
    <2>1. /\ cache' \in [Names -> Slots \cup {Uncached}] /\ CacheTrue'
          /\ s \in Owners => slot[running[i].name] = s
      BY <1>0, <1>1, <1>2, ReadTrue
    <2>2. run_effect(i)
      <3>1. CASE nameRegisteredTo(s, running[i].actor)
        <4>1. completes(i, TRUE) /\ s \in Owners /\ s = running[i].actor
          BY <1>2, <3>1 DEF nameRegisteredTo
        <4> QED BY <2>1, <4>1, CompletesEffect
      <3>2. CASE ~nameRegisteredTo(s, running[i].actor)
        BY <1>0, <1>2, <3>2 DEF run_effect
      <3> QED BY <3>1, <3>2
    <2> QED BY <1>0, <1>1, <2>1, <2>2, RunStep
  <1>3. CASE UNCHANGED cache /\ (fails(i, "rejected", FALSE) \/ completes(i, FALSE))
    <2>1. run_effect(i)
      BY <1>3, FailsEffect, CompletesEffect
    <2> QED BY <1>0, <1>1, <1>3, <2>1, RunStep DEF RegisterInv, RegisterType, CacheTrue
  <1> QED BY <1>2, <1>3 DEF confirmed

LEMMA LandsStep ==
    ASSUME RegisterInv, NEW t \in DOMAIN txs, transaction_lands(t)
    PROVE  RegisterInv'
  <1>a. txs \in Seq(Transaction) /\ slot \in [Names -> Slots]
    BY DEF RegisterInv, RegisterType
  <1>b. txs[t] \in Transaction /\ t \in 1..Len(txs)
    BY <1>a
  <1>0. txs[t].name \in Names /\ txs[t].signer \in Accounts
    BY <1>b DEF Transaction
  <1> DEFINE n == txs[t].name
             free == slot[n] \in {Missing, Blank}
             st == IF free THEN "ok" ELSE "failed"
             x == [txs[t] EXCEPT !.status = st]
  <1>1. /\ UNCHANGED <<cache, search, label, busy, running, working, notice, error>>
        /\ txs' = [txs EXCEPT ![t].status = st]
        /\ slot' = IF free THEN [slot EXCEPT ![n] = txs[t].signer] ELSE slot
    BY DEF transaction_lands, form
  <1>2. x \in Transaction
    BY <1>b DEF Transaction
  <1>3. txs' = [txs EXCEPT ![t] = x]
    BY <1>a, <1>b, <1>1
  <1>4. txs' \in Seq(Transaction)
    <2> HIDE DEF x
    <2> QED BY <1>a, <1>b, <1>2, <1>3, ExceptSeq
  <1>5. /\ slot' \in [Names -> Slots]
        /\ \A m \in Names : slot[m] \in Owners => slot'[m] = slot[m]
    BY <1>a, <1>0, <1>1, Distinct DEF Slots, Owners
  <1> QED BY <1>1, <1>4, <1>5, WorldStep DEF RegisterInv, RegisterType

LEMMA OthersStep ==
    ASSUME RegisterInv,
           wallet_locks \/ (\E n \in Names : rival_registers(n) \/ cache_expires(n))
             \/ UNCHANGED vars
    PROVE  RegisterInv'
  <1>0. /\ txs \in Seq(Transaction) /\ slot \in [Names -> Slots]
        /\ cache \in [Names -> Slots \cup {Uncached}]
    BY DEF RegisterInv, RegisterType
  <1>1. ASSUME NEW n \in Names, rival_registers(n) PROVE RegisterInv'
    <2>1. /\ UNCHANGED <<cache, txs, search, label, busy, running, working, notice, error>>
          /\ slot[n] \in {Missing, Blank} /\ slot' = [slot EXCEPT ![n] = Rival]
      BY <1>1 DEF rival_registers, form
    <2>2. /\ slot' \in [Names -> Slots]
          /\ \A m \in Names : slot[m] \in Owners => slot'[m] = slot[m]
      BY <1>0, <2>1, Distinct DEF Slots, Owners
    <2> QED BY <1>0, <2>1, <2>2, WorldStep
  <1>2. ASSUME NEW n \in Names, cache_expires(n) PROVE RegisterInv'
    <2>1. /\ UNCHANGED <<slot, txs, search, label, busy, running, working, notice, error>>
          /\ cache' = [cache EXCEPT ![n] = Uncached]
      BY <1>2 DEF cache_expires, form
    <2>2. /\ cache' \in [Names -> Slots \cup {Uncached}]
          /\ \A m \in Names : cache'[m] = cache[m] \/ cache'[m] = Uncached
      BY <1>0, <2>1
    <2> QED BY <1>0, <2>1, <2>2, WorldStep
  <1>3. CASE wallet_locks \/ UNCHANGED vars
    <2>1. UNCHANGED <<slot, cache, txs, search, label, busy, running, working, notice, error>>
      BY <1>3 DEF wallet_locks, vars, form
    <2> QED BY <1>0, <2>1, WorldStep
  <1> QED BY <1>1, <1>2, <1>3

LEMMA RegisterInit == Init => RegisterInv
  <1> SUFFICES ASSUME Init PROVE RegisterInv
    OBVIOUS
  <1>1. RegisterType
    <2>1. slot \in [Names -> Slots] /\ cache \in [Names -> Slots \cup {Uncached}]
      BY DEF Init, Slots
    <2>2. txs \in Seq(Transaction) /\ running \in Seq(Run)
      BY DEF Init
    <2>3. search \in Search
      BY DEF Init, Search, Label
    <2>4. /\ label \in Label /\ busy \in BOOLEAN
          /\ working = None /\ notice = None /\ error = None
      BY DEF Init, Label
    <2> QED BY <2>1, <2>2, <2>3, <2>4 DEF RegisterType, Search
  <1>2. CacheTrue
    BY Distinct DEF Init, CacheTrue
  <1>3. Button /\ Named /\ Confirmed /\ NoticesTrue
    BY DEF Init, Button, Named, Confirmed, NoticesTrue
  <1> QED BY <1>1, <1>2, <1>3 DEF RegisterInv

-----------------------------------------------------------------------------
(* Theorems                                                                *)

\* The invariant behind the promises below: an owner the cache names has the
\* name, and the button, a recovery and a run exclude one another.
THEOREM RegisterInvariant == Spec => []RegisterInv
  <1>1. RegisterInv /\ [Next]_vars => RegisterInv'
    <2> SUFFICES ASSUME RegisterInv, [Next]_vars PROVE RegisterInv'
      OBVIOUS
    <2>1. ASSUME NEW i \in DOMAIN running, run_step(i) PROVE RegisterInv'
      BY <2>1, CheckStep, SubmittedStep, ConfirmedStep DEF run_step
    <2>2. ASSUME NEW t \in DOMAIN txs, transaction_lands(t) PROVE RegisterInv'
      BY <2>2, LandsStep
    <2> QED BY <2>1, <2>2, PageStep, ClickStep, OthersStep DEF Next, Label
  <1> QED BY <1>1, RegisterInit, PTL DEF Spec

\* "Name registered" and "taken" are true of the chain whenever the page says
\* them, though reads are cached and others race for the name.
THEOREM NoticesTrueAlways == Spec => []NoticesTrue
  <1>1. RegisterInv => NoticesTrue
    BY DEF RegisterInv
  <1> QED BY <1>1, RegisterInvariant, PTL

\* The safety part of RunsOneAtATime: never two registrations under way, also
\* when a recovery resubmits by itself.
THEOREM OneRunAlways == Spec => [](Len(running) <= 1)
  <1>1. RegisterInv => Len(running) <= 1
    <2> SUFFICES ASSUME RegisterInv PROVE Len(running) <= 1
      OBVIOUS
    <2>1. CASE Len(running) = 1
      BY <2>1
    <2>2. CASE running = <<>>
      <3>1. Len(running) = 0
        BY <2>2
      <3> QED BY <3>1
    <2> QED BY <2>1, <2>2 DEF RegisterInv, Button
  <1> QED BY <1>1, RegisterInvariant, PTL
=============================================================================
