# TLA+ specifications of the Arch Name Service

This directory holds TLA+ models of the `.arch` name registry and of the clients
that read and change it, the TLC configurations that check them, and proofs
checked by TLAPS. `PROJECT.json` maps every definition to the source lines it
models, and lists the runs, mutants, findings, hazards and theorems.

## 1. The system

| Part | State it keeps | Operations | Hard part |
|---|---|---|---|
| `crates/ans-protocol` | none (types, validation, resolution) | `validate_record_value`, `resolve_record`, `resolve_primary`, address derivation | resolution must agree with what the program wrote |
| `programs/ans-registry`: names | config, name, record and reverse accounts, lamports | InitializeRegistry, Register, Transfer, SetRecord, DeleteRecord, SetPrimary, ClearPrimary | tenures (epoch, nonce), revisions, rent, resumed creates |
| `programs/ans-registry`: market | listing and offer accounts, escrow, aBTC token accounts | ListName, CancelListing, BuyName, MakeOffer, CancelOffer, AcceptOffer | one name is listed, bid on, sold and given away in any order |
| `programs/ans-registry`: IDL | the IDL account | create, write, resize, authority | a chunked upload that may be interrupted |
| `packages/ans-sdk`: client | none | `resolveOwner/Record/Primary`, `fetchNameProfile`, listings | answers are put together from reads of different ages |
| `packages/ans-sdk`: transport | 5 s account cache, reads in flight, REST attempts | `readAccountInfo`, `getMultipleAccounts`, `requestJson` | shared failures, overlapping single and batch reads, bounded retries |
| `packages/ans-sdk`: transactions | the transaction being confirmed | `signAndSendInstruction`, `waitForTransaction` | deadline against late landing, failed lookups |
| manager: record editing | what the page shows, drafts | load, save | two pages, optimistic revisions, confirmation by effect |
| manager: submission | pinned account, attempt, local storage (seen accounts, one observation) | `submitWithWindowArch`, account creation | the wallet signs with another account than it reports, and may change in between |
| manager: profile cache | entries with TTL, requests in flight | `loadNameProfile`, `invalidateNameProfile` | late responses, invalidation |
| manager: wallet status | status on screen, prompts, read queue, "not initialised" latch | probe, connect, watch | reads that race prompts, bounded polling |
| manager: name page | the load under way, what is shown, the trade under way | load, buy, bid, cancel, accept | trades built from reads that are stale when they land |
| manager: lists | loads under way, what is shown, the feed's window | load and refresh of the search, marketplace and my-names pages, balance of an offer | several reads joined into one claim, failed reads, overlapping loads |
| manager: registration | label, run and recovery under way, notices | search, hand-off, register, recover and resubmit | rivals, cached reads, lost answers, an editable form |
| `infra/cdk` | cached API key | request filter | allowlists that must agree with the client's routes |
| `tools/`, `scripts/` | none | deploy, smoke tests, key bootstrap | resumable IDL upload |

How the parts interact: clients derive account addresses, read accounts over
JSON-RPC (through a cache and, in production, the indexer proxy), build an
instruction, have the wallet sign its message hash, send it and poll. The program
sees one transaction at a time; everything a client knows may be outdated when
its transaction executes. The program protects itself with signer and owner
checks, with `expected_revision` on records, and with two counters on the name
(`record_epoch`, `primary_binding_nonce`) that every change of owner increments,
so that records and reverse accounts left behind stop resolving without being
touched. Those counters, the escrow of ARCH offers, and the client's treatment of
stale reads are where mistakes would be costly and hard to test, so they come
first.

What makes each part correct:

- names: a registered name never becomes free; the owner changes only together
  with a new tenure; a record or primary name of an earlier tenure never resolves
  again without a new write; accounts stay rent exempt.
- market: a listing is always the present owner's; an offer account holds exactly
  what it promises; nothing is created or lost; a sale pays and closes at once.
- pages: what is on screen was true for the account shown at some moment since
  the page was opened; "none" never means "could not read"; a trade settles with
  the counterparty shown; buttons come back; the wallet status follows the wallet.
- clients: an answer was true at some moment of the query; a failure message
  means failure; a mutation is never sent twice by one click; the payer and the
  signer agree; waits end.

## 2. Modules

| Module | Models | Remarks |
|---|---|---|
| `AnsProtocol` | account types, transitions of `transition.rs` and `marketplace.rs`, `validate.rs`, `resolve.rs` | constants and operators only |
| `AnsRegistry` | the program, one action per accepted instruction | a transaction is atomic, so a rejected instruction is a stuttering step and a handler's checks are the action's guard; balances are chained in code order (store before or after payment as in the handler) |
| `NameMarket` | the abstract market: owner, ask and bids | no accounts, money, counters or sellers |
| `RegistryMarket` | the program seen as a market | refinement mapping to `NameMarket` |
| `ResolveClient` | SDK readers beside the running program | extends `AnsRegistry` |
| `RecordEditor` | manager pages saving one record slot, the confirmation loop, the chain applying transactions in any order | uses `AnsProtocol` |
| `SubmitFlow` | `submitWithWindowArch` with wallet, faucet and local storage | signatures abstracted to who made them and whether the local check can read them |
| `ProfileCache` | `name-profile.ts` and the load effect of `ManageView` | a profile is the version of the chain it was read from |
| `WalletWatch` | `useArchWallet`, `wallet-status`, `wallet-gateway`, `wallet-watch`, the latch of `wallet-initialization`, the picker and the recovery buttons | the extension changes behind the page's back |
| `TradePage` | `ViewNameView`'s loads and trades, the SDK's instruction builders | on top of `NameMarket` (`INSTANCE`), the market the program implements |
| `PageLoads` | `SearchView`, `ExploreView`, `MyNamesView` and the offer form's balance; `registry-activity`, `marketplace`, `owned-names`, `quote-*`, the SDK's account scans | the registry is one history of transactions and a read is the moment it was served at |
| `RegisterPage` | `SearchView`'s lookup, the hand-off, `RegisterView` | `SubmitFlow` seen from the page |
| `Transport` | the split transport, its cache and retries, the proxy | time in ticks |
| `AnsRegistryProofs` | theorems about the program, its market, the resolution by clients and record editing | section 5 |
| `SubmitFlowProofs`, `TransportProofs`, `RegisterPageProofs`, `ProfileCacheProofs`, `TradePageProofs`, `WalletWatchProofs`, `PageLoadsProofs` | theorems about the clients | section 5 |
| `MC*` | instances for TLC | section 3 |

Correspondence of state and code:

- `AnsRegistry`: `names[n]`, `records[n][k]`, `reverse[u]`, `listings[n]` and
  `offers[n][b]` are the decoded data of the program-derived account with those
  seeds, `None` for an account with no data; `lamports` has one entry per account
  and wallet; `tokens` are the aBTC balances of the token program. A handler's
  `store` is `can_store` in the guard and `stored` in the effect. Slots, expiry
  (`PERMANENT_EXPIRY`), account headers, bumps and the namespace are constant in
  every reachable state and left out. An account left allocated by an interrupted
  create is a balance of 1 on an account with no data in `Init`; `register` and
  `initialize_registry` complete it, as `availability.rs` allows. `paused` is kept
  although no instruction sets it.
- Labels, hashes and derivation: two names are two members of `Names`; that
  different labels derive different addresses is assumed.
- `ResolveClient`: each of the two accounts of a resolution is copied by a step of
  its own, in either order, because the transport's cache can make either copy the
  older one. `lived` collects what resolved on chain since the older copy.
- `RecordEditor`: a page's `cache` is the transport's account cache; every read may
  be answered from it or from the chain. `batches` are the node's answers to the
  pages' profile loads that are still under way: they arrive at any time, also during
  a save, and may put an older record into the cache than a single read did. A save's
  value is unique and stands for its transaction; `txid` says whether the node has
  named it. The answer to `send_transaction` may be lost (`send_answer_lost`): the page
  reports a failure and the transaction may land. The slot is empty at first or holds
  a `former` value; deletion by another client is included.
- `SubmitFlow`: `wallet.reported` is what `getAccount()` answers, `wallet.active`
  is the key the extension signs with; both may change between any two steps.
  `kit` calls are the sessions of other wallets, with a fixed account, no probe of
  the extension and a single attempt. Sending may lose the transaction or the
  answer. `told` is the account the last probe of the call named.
- `ProfileCache`: a request is sent, read by the node and answered in three steps;
  the page's own save lands and is confirmed in two, or `run` throws, landed or not.

- `WalletWatch`: `queue` is the tail of promises of `wallet-gateway` (the first
  request is with the extension, account reads are shared), `prompts` are the
  calls of `connect()` by id, of which only the latest may write a status. A read
  is answered by the extension in one step and reaches the page in another.
- `TradePage`: `load` is the load effect with its three reads, `cache` and
  `inflight` are `name-profile.ts`, `act` is the call of `withWalletActor`,
  `mempool` what was sent and may land late. Listings, bids and sales by others
  are the actions of `NameMarket`.
- `PageLoads`: `loads` are the loads a page has under way, each with the moments
  its reads were served at; `shown` is the load applied last. Names, dates, rows,
  floors and pulse lists are operators of those moments, so a page's claim can be
  compared with what the registry held. Account reads are served as of `now`. The feed
  is served as of `ingested`, what the Explorer's indexer has, which lags behind
  (`confirm-effects.ts` and `arch-rpc.ts` say so); `since` is what it had when the page
  was opened. A feed page that is not found (404) is an empty one, which ends the
  reading. Balances (`funds`) change with the history; a balance read is of now or of
  the transport's last answer (`accountCache`), which may be from before the page was
  opened. `balance_refreshes` is the `refreshKey` of the page's own trades. While a
  balance loads the previous one stays on screen, as in the code.
- `RegisterPage`: `slot[n]` is the name account: missing, zeroed by an interrupted
  creation, not a registration, or an owner. `running` are the calls of
  `runRegister`, `working` the recovery under way with the label of its click.
- `Transport`: `cache` and `pending` are `accountCache` and `inflightReads`;
  `batch` a `get_multiple_accounts` request; an account's content is the tick it
  was written at. `route` is what a call puts on the wire, `handler` the proxy's
  answer to it. Calls without state of their own (`getProgramAccounts`,
  `sendTransaction`, the faucet and the feeds) are one action.

Outside `src/`, modelled from its use and marked external in the map: the node's
signature check, the wallet extension, the faucet and the RPC node's reads.

## 3. Runs

| Run | Instance and bounds | Checks |
|---|---|---|
| `names` | 2 addresses, 1 name, 3 record keys (one free), a short and a long value, counters saturating at 3, funds that run out | types and balances, `EpochFixesOwner`, `RentExempt`, `NoRecordRevival`, `NoPrimaryRevival`, `RegistrationIsPermanent` |
| `market` | 3 addresses, 1 name, prices 0 and 1 in both currencies, funds that run out | `ListingBelongsToOwner`, `EscrowMatchesOffer`, `Conservation`, `SaleSettles`, `ImplementsMarket` |
| `resolve` | 2 addresses, 1 name, 2 values, counters to 3 | `ResolvedWasLive` |
| `record_editor` | 2 pages, a slot that is empty or has a former value, 2 saves, deletions up to version 3, 1 poll interval, 1 batch answer under way | `FailureIsDefinite`, `ConfirmedOrOvertaken`, `WriteReplacesWhatWasRead`, `WaitEnds` |
| `submit` | 2 keys and a watch-only account, 2 calls, 2 changes in the wallet, a list of seen accounts of length 2 | `ProvenVerifierGuards`, `MutationsAccounted` (`OneMutationPerCall`, `RefusedSendsNoMutation`, `MutationPayerExists`), `SignersToldTrue` (`ObservationSigned`, `OutcomeActorPaid`), `LearnedSignerTriedFirst`, `SubmitEnds` |
| `profile_cache` | 2 accounts, 2 writes, 2 account changes | `LoadsSettle`, `CacheMovesForward` |
| `wallet` | a signing and a watch-only account, 2 prompts, a watch of 2 reads, 1 change in the extension beside the initial states, 2 clicks | `PromptAccounted`, `LockNeverFromStaleRead`, `WatchNotices`, `ButtonReturns` |
| `trade` | 2 users who both view and trade, one quote per currency, 3 market steps, 1 trade of the page, 1 wallet change | `ShownForViewer`, `TradeSettlesAsShown` |
| `pages` | 3 names, 2 accounts, four histories (an empty registry, changing balances, a moving feed window, a book in both currencies), an indexer and a cached balance at most 1 transaction behind, feed of 2 pages of 2, 2 loads at once, 1 failed or not found read | `EmptyClaimsTrue`, `TimelineTrue` (`DatesTrue`, `WindowCovered`, `NewestFirst`), `MarketTrue` (`ForSaleTrue`, `FloorsLowest`), `OfferAffordable`, `LatestShown` |
| `register` | 2 names, 2 accounts and a rival, 2 registrations, 2 edits, 1 search, 1 lock | `NoticesTrue`, `RunsOneAtATime` |
| `transport` | 1 account, 2 readers, cache of 2 ticks, answers within 1 tick, 4 ticks, 1 failure, 2 retries | `CacheFresh`, `ReadsRecover`, `RetriesBounded`, `ReachesUpstream` |
| `trade_fresh` | as `trade`; expected to be violated | `FreshAfterTrade` (section 4) |

What the newer runs show:

- `wallet`: "waiting for Arch Wallet" and the connecting flag stand exactly as long
  as the latest prompt is out; a read never turns a prompt back into "locked"; a
  wallet without a keystore is not called locked again; a wallet that serves the
  site again is noticed while the watch has reads left; the button of a blocked
  page always comes back.
- `trade`: whatever others do between the page's reads and the landing of its
  transaction, a trade that lands is with the seller, the bidder and the kind of
  money on screen. It is *not* the price on screen: `BuyName` carries no price, so
  a listing that is cancelled and listed again is bought at the new price, and the
  property does not claim otherwise.
- `pages`: a page that says "none" was right at a moment since it was opened. A date
  is that of the name's one registration, or of its newest listing *as of a moment the
  indexer has been at*: while the indexer lags, a name registered just before has no
  date and a name listed again shows its earlier listing's, and the properties claim
  no more; a registration the indexer had when the page was opened gets its date
  although feed pages shift between reads. Listings on the market page were offered
  at that price, floors are lowest up to the digit the sort key drops, and a search
  page left open and visible ends up current. The balance an offer is compared with
  was the connected account's, in the chosen currency, at a moment since the tab may
  have cached it; or none is on screen; or the form says that it loads one, and a read
  of that very balance is under way. Until it arrives, and when there is none, the
  form accepts amounts the account cannot pay (section 4).
- `record_editor`: once the node has named a transaction, failure is reported only if
  the chain rejected it. A save is reported as confirmed when it landed or the record
  has changed since its builder read it, with one exception: a batch answer from
  before a deletion that the builder had already seen.
- `register`: "Name registered" is only said of a name its signer has; "taken" is
  only said of a taken name; an adopted account never makes two registrations run
  at once; the button comes back.
- `transport`: a cached answer is never older than the cache's time plus the time of
  one request, also when a single read overtaken by a batch read is cached last; a
  shared failure reaches only those who waited for it; retries are spent and end;
  the proxy admits every call the manager makes.

Why the bounds suffice. Names do not influence one another in the program except
through balances and through reverse accounts, and the proofs cover any number of
them. Two addresses give the return of a name to an earlier owner; a third one in
the market gives a bidder who is neither buyer nor seller. Counters that saturate
at 3 reach both sides of the limit, which is where the properties change. Funds
are small so that every payment and top-up is also refused in some state. In the
editor, a former value and two saves are the least that let two pages overwrite each
other, a deletion is followed by a new write, and one batch answer under way is enough
to be overtaken by both pages' reads. In the submission, two keys suffice for a stale observation, and the
second wallet change happens between two approvals. The list of seen accounts is
shorter than the number of accounts so that it overflows. In the wallet, the
second prompt supersedes the first, and two reads are the least with which the
watch can spend one on a shared, older answer and still notice; the code's 40 only
repeat this. In `trade`, three market steps are a listing, a cancellation and a
new listing or sale between the page's read and its own trade. In `pages` the
histories are chosen so that rows cross the boundary of a feed page and leave the
window, the newest registration may not be ingested yet, names are sold and repriced between the reads of one load, and decimals
are 2 and 1 instead of 9 and 8, which keeps the digit the sort key drops. In
`transport`, accounts do not touch one another, so one is enough; four ticks are
what it takes for a write to be older than `TTL + MaxDelay`.

`names`, `market` and `resolve` use symmetry in the addresses, which nothing in the
program tells apart; they check no liveness. Deadlock is not checked where the
system may stop: when the funds or the bounded calls are used up.

Fairness. The runs without a liveness property have none. `record_editor` assumes that a page's
polling loop keeps running (`waitForTransaction` has a wall-clock deadline and
every lookup returns or throws); nothing is assumed of the chain, which may never
apply a transaction. `submit` assumes that a step of the flow that can be taken is
taken: approvals end by the provider's own 120 s deadline, confirmations by
theirs; nothing is assumed of the user, the faucet or the landing of accounts.
`profile_cache` assumes that effects run after a render and that a request is
answered or fails. `wallet` assumes that prompts and queued requests end (the
provider has its own 120 s deadline, and the gateway stops counting a prompt after
130 s) and that timers fire; nothing of the user or the extension's state. `register`
assumes that a step of the page's own call that can be taken is taken, for the
reasons given for `submit`; `trade` has no liveness property and no fairness. `pages` assumes that the oldest load
moves on and the refresh timer fires; it does not assume that reads succeed beyond
the bound on failures, and `LatestShown` is conditional on a visible tab.
`transport` assumes that readers ask again after a failure, that the node answers
and that the retry loop runs; failures of account reads are bounded, REST failures
are not.

Each property has a mutant: a plausible mistake in one mapped definition under
which the same run fails.

## 4. Disagreements between code and words

`trade_fresh` is expected to be violated: after its own confirmed purchase the page
reloads through the profile cache, which nothing has invalidated, and shows the
previous owner; `name-profile.ts` says cached profiles are dropped after a
successful mutation "so the next load is fresh".

Eight further statements are written down as definitions next to the properties, and
are in no run: TLC refutes each of them when it is added to the configuration of
its module (`RecordEditor`, `ResolveClient`, `SubmitFlow`, `ProfileCache`,
`RegisterPage`, `PageLoads`). Where something weaker holds, the run checks that instead.

- `ConfirmedMeansLanded`: a save that was rejected as stale is reported as
  confirmed, because the competing write moved the revision past the expected one.
  What holds is `ConfirmedOrOvertaken`.
- `ConfirmedMeansChanged`: a save is reported as confirmed although it has not landed
  and nothing has changed since it was built. A batch answer from before a deletion is
  cached after the builder read the empty slot, and its revision is past 0. The
  exception in `ConfirmedOrOvertaken` is exactly this case.
- `FailedMeansNoChange`: when the answer to `send_transaction` is lost, `ManageView`
  says "No change was made." and the record may still change. What holds is
  `FailureIsDefinite`, from the moment the node has named the transaction.
- `OfferAlwaysAffordable`: the offer form accepts an amount no balance of the connected
  account covers. While a balance loads, `ViewNameView` compares with the one of the
  previous account or currency; when there is none, with nothing. What holds is
  `OfferAffordable`.
- `ProfileShowsLive`: the profile shows records of the previous owner after a
  transfer; PROTOCOL.md asks clients to validate owner and epoch.
- `ObservationMatchesReport`: switching accounts between click and first approval
  makes the browser remember that the old account is served by the new one. What
  holds is `ObservationSigned`, a part of `SignersToldTrue`.
- `FreshAfterMutation`: a request in flight survives the invalidation after a save
  and refills the cache with the state before it.
- `FailedMeansNot`: when the answer to `send_transaction` is lost, `RegisterView`
  says "The name was not registered." and the transaction may still land.

`saveRow` reads the revision again when it builds the transaction, so a save may
replace a value its page never showed, where PROTOCOL.md says that `expected_revision`
prevents this. What holds, below the revision's limit, is `WriteReplacesWhatWasRead`.

The messages of `WalletAccountChangedError` and `SignerMismatchError` say that
nothing was submitted; an account creation may have been. What holds, and is
checked, is `RefusedSendsNoMutation`, a part of `MutationsAccounted`.

## 5. Proofs

Proved by TLAPS for every value of the constants: any sets of addresses, names,
keys, values, prices, pages, readers and requests, any counter limit of at least 1,
any rent and funds, any time to live, delay and number of retries. The theorems rest
on the named assumptions of the modules and nothing else. Those of `AnsProtocol` and
`AnsRegistry`: `MaxU64 >= 1`, rent, prices and funds are naturals, long values are
values, and `None` is no account; that of `RegistryMarket`: the chain has finitely
many accounts. The client modules assume that bounds are naturals,
that some user exists, that a time to live and a delay are at least one tick, and
that the marks of absence (`None`, `Waiting`, `Failed` and the like) are none of the
values they stand beside, which is how the code's `null` and `undefined` behave. `PageLoads` further assumes of
a history what the program ensures: a name is registered once, and nothing succeeds
with a name before it is registered (`Accepted`). TLC
evaluates every one of them in the runs. The inductive invariants were themselves
checked by TLC as well, with the constants of the component's run.

`AnsRegistryProofs`

- `TypeCorrect`: `TypeOK` is inductive. The work is in the balances: every
  subtraction is covered by the guard `can_store` or `can_pay`, also when payer,
  seller and topped-up account coincide (lemmas `MovedType`, `StoredType`,
  `PaymentType`, one step per instruction in `TypeStep`).
- `NameStep`, `RecordStep` and `ReverseStep` say the only ways a name, record or
  reverse account can change in a step; `Counters` and `SaturatingAdd` what that
  does to the counters. Everything below rests on them.
- `RegistrationIsPermanentThm`: an action property from `NameStep`.
- `EpochFixesOwnerThm`: inductive together with `TypeOK` and the monotonic epochs.
  Only the bound `record.record_epoch <= name.record_epoch` makes it inductive: a
  change of owner increments the name's epoch past every existing record's, unless
  the counter is at its limit, which is why the conclusion about the owner is
  limited to epochs below it.
- `BoundRecordResolvesThm` (proved, and in no run): `set_record` validated the value against the owner the
  record is bound to.
- `NoRecordRevivalThm`: a step that makes an unchanged record resolve would have to
  bring the name back to the record's epoch; epochs only grow, and at the same
  epoch `EpochFixesOwner` fixes the owner.
- `ReverseBehindNameThm` (proved, and in no run) and `NoPrimaryRevivalThm`: the same
  argument with the nonce.
- `RentExemptThm`: `balances_keep` (no instruction takes lamports from an account
  with data other than an offer's) and `fills_with_rent` (an account that is given
  data has the rent of that data after the step) together carry `RentExempt` over a
  step. The first is where payments could go wrong: every debit is of a wallet or an
  offer account, and `DataAccountsAreDistinct` keeps these apart from the rest
  (`NameRentStep`, `RecordRentStep`, `MarketRentStep`).
- `ListingBelongsToOwnerThm`: inductive; the owner changes only by `transfer`,
  which requires no active listing, and by the two sales, which close it.
- `EscrowMatchesOfferThm`: an offer account is only stored to by its own offer's
  instructions, when the balance is at least the rent, so no top-up mixes with the
  escrow (`StoreKeepsEscrow`, `StoreIsIdle`).
- `ImplementsMarketThm`: `Spec => NameMarket!Spec` under the mapping of
  `RegistryMarket`. `MappedNames`, `MappedQuotes` and `MappedBids` turn changes of
  accounts into changes of the mapped functions, `MarketStep` gives each
  instruction its market step or a stutter. No owner check on listings is needed
  for the mapping, because a quote does not mention its seller.
- `SaleSettlesThm`: the stores of a sale draw no rent from the seller who is paid,
  because by `RentExempt` the accounts written already hold theirs
  (`PaidStoreIsIdle`); `ListingBelongsToOwner` makes the listing's seller the former
  owner and `EscrowMatchesOffer` makes the escrow the price. One lemma per way of
  selling (`BuySettles`, `AcceptSettles`).
- `ResolvedWasLiveThm`, about `ResolveClient`: the invariant `ClientInv` speaks of the
  accounts the client has *or would read now* (`now_name`, `now_other`): if the two
  fit below the counter's limit, the value has been right since the first read. It
  is inductive because a record or reverse account that changes while the name is in
  hand is gone or right from then on (`OtherMoves`), and a name that changes while
  the other copy is in hand never comes back to that copy's tenure (`NameMoves`,
  from `behind`: the copy's counter is not ahead of the name's, and counters only
  grow). `ClientRunsRegistry` lets the theorems about the program be used here.
- `ConservationThm`: the totals are the library's `SumFunction`. What it computes is
  shown in sets instead of by the library's induction theorem: the partial sums are
  the smallest relation closed under adding one account (`SmallestSet`, `SumsExist`),
  which gives that a function changed at one point has its sum changed by as much
  (`SumsChange`, `SumKept`). Every instruction's balances are a chain of moves between
  two accounts (`MovedKeepsTotal`, `StoreRebalances`, `PaymentRebalances`), also when
  the two coincide, as for a buyer who names their own token account as the payee's.

About record editing, in the same module, invariant `EditorInv`: every snapshot a page
or a transaction holds, or a batch answer under way brings, is a state of the record's
past (`past`): the same version is the same record, and without a deletion in between a
later version has a greater revision. Without it the compare-and-set on revisions would
say nothing about what was replaced. Nothing is said of the order in which answers
arrive: a page may poll behind what it built against. `Drafts` keeps the saves of two
pages apart. From it: `FailureIsDefiniteAlways`,
`ConfirmedOrOvertakenAlways`, and the action property `WritesReplaceWhatWasRead`. The
proof showed that the latter needs the revision to be below its limit: at `MaxU64`
the counter stays and the comparison no longer tells two records apart. The property
says so.

`SubmitFlowProofs`, invariant `SubmitInv`: what is known of the signature in hand
(`SignatureChecked`), that a call has sent its mutation exactly when it waits for it
(`MutationPending`), that its payer exists from the first approval on (`PayerReady`),
and, while the wallet is left alone, that observation, active account and call agree
(`SteadyCall`, `SettledWallet`). From it: `ProvenVerifierGuardsAlways`,
`MutationsAccountedAlways`, `SignersToldTrueAlways`, `LearnedSignerTriedFirstAlways`.

`TransportProofs`, invariant `TransportInv`: whatever was written over a value under
way was written after its request started, and a request is at most `MaxDelay` old
(`RequestsCurrent`); an entry's expiry therefore dates its value (`EntriesCurrent`),
also when an older single read is stored after a batch. From it: `CacheFreshAlways`;
beside it `ReachesUpstreamAlways` (`RoutesAllowed`, over all calls) and
`RetriesCounted`, the safety half of `RetriesBounded`.

`RegisterPageProofs`, invariant `RegisterInv`: an owner named by the cache has the
name (`CacheTrue`; names are never freed), the button is given back exactly when the
only run is over and a recovery excludes a run (`Button`). From it:
`NoticesTrueAlways` and `OneRunAlways`, the safety half of `RunsOneAtATime`.

`ProfileCacheProofs`, invariant `CacheInv`: one request per key (`OnePerKey`) makes the
answers of a key come in the order of their reads (`ReadsInOrder`), and a page only
waits for a request that exists and is of its account (`AwaitsLive`). From it:
`CacheMovesForwardAlways` and `RestShowsAccountAlways`, the safety half of
`LoadsSettle`.

`TradePageProofs`, invariant `TradeInv`: profiles are filed under the account they
were read for and the load is the present account's (`LoadForViewer`); a trade keeps
what was clicked and its instruction is the one built for that (`complete`, `built`),
up to the mempool. From it: `ShownForViewerAlways` and, with the checks the market
makes when the instruction lands, `TradeSettlesAsShownAlways`.

`WalletWatchProofs`, invariant `WatchInv`: `PromptAccounted` together with
`ProbingFailed`, what a prompt can have said that waits for a read before it is
believed. The latter is needed because the read ends the prompt: the status it then
puts on screen must not claim that a prompt is out, nor be "locked". From it:
`PromptAccountedAlways` and the action property `LockNeverFromStaleReadAlways`. No
fact about the request queue or the extension is used, so both hold whatever a read
answers and however late. The proof also showed that the latch alone suffices for the
first half of `LockNeverFromStaleRead`; the property no longer asks that the keystore
is missing.

`PageLoadsProofs`, invariant `PagesInv`: every account read in a load and on screen is
of a moment since the page was opened (`Moments`), the pages of a feed are of moments
the indexer has been at since then, read one after the other up to one that was not
found (`FeedMoments`, `FeedPages`), a balance is of a moment since the tab may have
cached it (`BalanceMoments`, `Caches`), a list that is not there is loading or told to
have failed (`AbsenceTold`), the only balance load that may still deliver is of the
account and the currency of now (`BalanceLoad`), and there is one while the form says
that it loads (`LoadIsLive`). The steps of the registry and of its indexer are one
lemma (`OnwardKeeps`: moments only become more). The properties speak of what is computed from
these answers, and none is inductive by itself. From it:

- `OffersAreAffordable`: a balance on screen that is not being replaced is the present
  account's and currency's, of one of its moments; taking a cancelled load out of the
  list leaves the live one in it (`SeqKeeps`). That what MAX fills in is accepted needs that formatting and parsing an amount give
  back its base units for any decimals (`PowerOfTen`, `FormatParses`).
- `EmptyClaimsAreTrue`: the scans behind a claim are of one of the page's moments; an
  empty marketplace is an empty scan because sorting a set loses no row
  (`OrderedSorts`), and a failed lookup is not an empty one.
- `TimelinesAreTrue`: the feed shifts by what is ingested between two pages, so a row
  may be seen twice but none is skipped: page `p + 1`, served at a later moment, reaches up to
  where page `p` ended (`NoGap`, `Covered`). A name is registered once, so its first
  sighting is its registration (`RegistrationDate`); the first dated sighting of a
  listing is the newest as of a moment the indexer has been at (`ListingDate`). The
  orders of the lists are strict and total, so a list is sorted (`RecentSorted`,
  `SortedByDate`, `NewestStands`).
- `MarketIsTrue`: an ask was active when the listings were read, and names are never
  freed, so the later read of the labels does not change that (`SalesStand`). The floors
  are those of a scan row by row, whose invariant is that it holds the lowest ask so far
  (`FloorsUnfold`, `FloorsScan`, `FloorsStand`); the lowest asks and a collection's floor
  head lists sorted by the key (`SortedByPrice`, `LowestFirst`, `LowestStand`).

What recursive functions compute is proved here without an operator parameter: the set
of the naturals for which a statement holds contains all of them when it is closed
under successor (`Induction`), and a recursive function exists because the set of its
approximations does (`Recursion`). The statement is a set in every use.

Only model-checked:

- liveness, which is out of this prover's reach: `WaitEnds`, `SubmitEnds`,
  `WatchNotices`, `ButtonReturns`, `LatestShown`, `ReadsRecover`, and the liveness
  halves of `LoadsSettle`, `RunsOneAtATime` and `RetriesBounded`.

Every invariant and every action property of a run is stated by a theorem.

## 6. Not modelled

- The byte layout of accounts and instructions, label rules, hashing and the
  parameter encodings of `rpc-params.ts`: pure functions with no state, covered in
  the repository by golden fixtures shared by both languages.
- The IDL account and the deployment tools: one operator's one-shot uploads, apart
  from the registry's state.
- The per-name activity tab and its labels, the record catalog, error copy, markup
  and styling of the views; the success notice's link is therefore not modelled
  either.
- The proxy's query filter and API key, and the cloud resources.
- The token program beyond balances: an aBTC sale pays the token account named in
  the instruction, whoever owns it, as the handler does. The
  handlers compare the mint account's key and not the mint the token accounts
  belong to (`lib.rs:571`, `784`); `tokens` is the balances of aBTC accounts only, so
  token accounts of another mint are outside the model.
- `fetchNameProfile`'s primary name, which no property speaks of.
- Leaving the register page while a registration is under way and coming back, which
  starts with a fresh page and a live button; `RunsOneAtATime` is about one page.
- In `PageLoads` only the feed and the cached balance are behind the chain; a scan of
  accounts is answered as of now. A balance read that fails leaves "Loading balance…"
  on screen although nothing loads (`QuoteAmountSelector.tsx:69`); in the model this is no balance and not loading.
- JSON-RPC requests that never return: the code has no timeout for them, and one
  that hangs blocks the later reads of its account; `Transport` assumes an answer
  or a failure within `MaxDelay`.

## 7. Plan

1. `IdlAccount` with the uploader of `tools/ans-deploy`: chunked writes, resize,
   interruption and resumption; that a finished upload is one version.
2. Labels and record validation as operators against reference definitions.
