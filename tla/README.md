# A verification development for simpleXRPL

simpleXRPL is a TypeScript SDK through which an application writes to the XRP
Ledger (XRPL) with keys it need not hold: a write is built by a *vertical*
(`client.xrp`, `client.iou`, ...), sent through a *pipeline*, and signed and
submitted by a *custodian* (Ripple Custody, Palisade, a local wallet, an external
KMS). This directory holds TLA+ models of the parts whose correctness depends on
order, time, failure or concurrency, the TLC configurations that check them on
small instances, and TLAPS proofs of the properties that matter most.
Paths below are relative to `src/src/`.

## Inventory

| part | state | operations | what is hard about it | what makes it correct |
|---|---|---|---|---|
| Ripple Custody native submission (`custodians/ripple/ripple-custody.ts`, `submission/`, `custodians/on-ledger-result.ts`) | none of its own; the intent, its order's transactions and the ledger hold it | `submitAndWait`, `submitAsync`, the handle's `poll`/`wait` | lost answers, late proposals, a lagging read model, fee bumps, `tec` results, three loops with a deadline each, retries under one key | a write is applied at most once; success and death are only reported when they are true; every call returns |
| Custody API and intent inspector (`ripple/api.ts`, `api-call.ts`, `client/intent-inspector.ts`) | none; the intent holds it | `propose`, `proposeTransactionOrder`, `proposeAndWait`, `waitForIntent`, `approve`, `reject`; `status`, `await`, `outcome`, `awaitOnChain` | an intent is readable in one domain of one instance only, and late; unanswered proposals; an id only the caller has; the inspector asks the first custodian | what is said of an intent is true; proposing again under its id makes no second one; asked in the right place it is found |
| Palisade submission (`palisade/palisade-custody.ts`, `tx-tracker.ts`) | the wallet context | `submitAndWait`, `submitAsync`, handles | only payments carry a key; the id is known from the answer alone; a fallback to raw signing; handles that do not look at the ledger | the same for payments; for the rest, for callers that rule the last attempt out first |
| Signed writes (`ripple/submission/raw-*.ts`, `local/`, `external/`, `PalisadeCustody.sign`) | wallets | autofill, sign or have signed, submit, wait | `Sequence` and `LastLedgerSequence` fixed long before the signature; rivals for the `Sequence` | applied once; a signature is submitted only with what it was made for; a call's answer is about its own transaction |
| Pipeline, dispatch, guards (`pipeline/`, `context-guards.ts`, `ripple/versioning/`) | the version the guard knows | validate, dispatch, autofill, the custodian's choice | two places decide a path; controls must be honoured on each; the instance is upgraded | what is asked for is honoured or refused; nothing is signed unfilled; a refusal has no effect |
| Operations (`verticals/`, `orchestration/multi-step.ts`) | the committed results | every writing method; `runMultiStep` | partial failure without rollback; retries of unkeyed steps | steps stay in order, what is reported committed is, no step is applied twice |
| Request mapping (`*/mapping/`) | none | one function per transactor and custodian | a field without a slot | taken over, refused or signed whole, never dropped |
| Bearer tokens (`ripple/auth/custody-auth.service.ts`, `palisade/auth/palisade-auth.service.ts`), HTTP clients (`*/transport/`) | cached token and expiry, the shared refresh promise | `getToken`, `forceRefresh`, `send` with one 401 replay | many requests, one promise; a `finally` that runs late; 401s in bunches | the shared promise is pending, a replay's token is new, requests end |
| Account index (`client/account-index.ts`, `client/client.ts`) | `accountIndex`, the signers' contexts | `init`, `refreshAccounts`, `registerLocalAccount`, `resolveAccount` | rebuilt across many requests while accounts change; rebuilds overlap with one another and with registrations | an address resolves to its signer on this network, a removed one to nothing, a registered one until the next rebuild |
| Discovery, pagination (`*/discovery/`, `ripple/pagination.ts`, `ripple/construction.ts`) | a cursor | create, list, page through | collections that change while walked; cursors that point back, to themselves or further | a listing is exact about what stood throughout; walks that are not led in circles end |
| Polling schedule (`custodians/poll-schedule.ts` and its users) | deadline, attempt | `pollDelayMs` | deadlines against doubling delays, slow reads, reads that time out and late timers; budgets that are no number | no outcome that a read could have shown is missed; the loop ends on time; reads are few |
| Reads (`reads/`, `verticals/*.reads.ts`) and what is done upon them | none | `list...`, `retrieve...`; the checks before `Token.destroy`, `IOU.authorize`, `IOU.clawback`; the issuance id after `Token.issue` | the ledger moves between a read and the write it justifies; a failed read; an offer converted back and forth | what is told is so; a listed offer can be placed again |
| Ledger port (`ledger/xrpl-ledger.ts`) | a connection | connect lazily, autofill, submit | its wait may lapse before it has looked | as used by the submissions above |
| Envelopes, keys, values, ids, logging, errors, generated clients | none | translate, sign | sequential data code | not modelled but for what the rows above name, see the end |

How they interact: a vertical resolves its account in the account index, builds
one transaction or several and runs the pipeline for each; the pipeline dispatches
on the owning custodian's capabilities and calls `submitAndWait` or `submitAsync`; a
custodian maps the transaction to its own form and talks to its backend through an
HTTP client, which takes its bearer token from the auth service; the submission then
polls the backend, and in the end the ledger. Everything concurrent is concurrency
between calls of one Node process (control changes hands at every `await`), between
processes that use one idempotency key, and between the SDK and its backends.
`PROJECT.json` lists every part with its files, and under `hazards` the places where
the code could go wrong in a way a test would hardly reach.

## Modules

| module | what it is | uses |
|---|---|---|
| `AtMostOnceWrite` | what a submission promises its callers, as a specification | |
| `CustodySubmission` | native submission through Ripple Custody, with Custody and the ledger around it | implements `AtMostOnceWrite` |
| `PalisadeSubmission` | native submission through Palisade | implements `AtMostOnceWrite` for payments |
| `SignedWrite` | writes the SDK submits to the ledger itself, whoever signs | implements `AtMostOnceWrite` for each write a custodian signs |
| `WriteRoute` | one write from the pipeline to its first request | |
| `Requests` | the transactions each operation builds | |
| `NativeForms` | what each custodian makes of a transaction | `Requests` |
| `MultiStep` | an operation from its options to the ledger, and the callers that retry and resume it | `NativeForms` |
| `TokenRefresh` | the token cache, the shared refresh and the 401 replay | |
| `AccountIndex` | the rebuilds of the address index | |
| `Discovery` | the walks over a custodian's collections | |
| `Intents` | one proposal through the Custody API and the inspector, with the people who decide on it | |
| `Offers` | codes, tickers, directions and prices of listed and placed offers, as operators | |
| `LedgerReads` | operations that read the ledger and act on what they read | `Offers` |
| `PollLoop` | the clock arithmetic of the polling loops | |
| `CustodySubmissionProofs`, `PalisadeSubmissionProofs`, `SignedWriteProofs`, `MultiStepProofs`, `AccountIndexProofs`, `IntentsProofs` | TLAPS proofs about the module of that name | that module |
| `WriteProofs` | TLAPS proofs about the route of a write and the promise of its submission | `WriteRoute`, `AtMostOnceWrite` |
| `BackendProofs` | TLAPS proofs about the four parts that ask a backend and conclude from its answers | `Discovery`, `TokenRefresh`, `PollLoop`, `LedgerReads` |
| `MC...` | the instance of each for TLC, one `.cfg` per run | |

The modules meet at what each shows of the next: a step of `MultiStep` ends in one of the
answers the submissions are shown to give, the request at the end of `WriteRoute` is where
the submissions start, a record `AccountIndex` reads is a listing of `Discovery`, one
iteration of a loop in `CustodySubmission` or `Intents` is an iteration of `PollLoop` with its
clock reduced to a budget, and the `submitted` of `LedgerReads` is any of the submissions.

Operators described as "Defect kept for comparison" are plausible bugs of the
operator that follows them; no specification uses one. With one put in place of the
operator it stands beside, TLC finds the property it was written against violated.
Modules that share a proof module have no name in common: `TokenRefresh`, `PollLoop`,
`LedgerReads` and `WriteRoute` prefix what every specification has (`TokenInit`, `LoopNext`,
`ReadsSpec`, `routeVars`, ...).
Each module has its inductive invariant (`SubmissionInv`, `NativeInv`, `StepInv`, ...), of which
types are a conjunct. These are proved and in no run: TLC has found
them true of the instances below, and the properties they were found for are in the runs.

### CustodySubmission

Several workers, which may be processes or concurrent calls, drive *one* logical
write. A worker's call is a program counter (`pc`) with the locals the code keeps
across its awaits: the key, the mode (`sync` for `submitAndWait`, `wait` for the
handle or `intent.await`, `onChain` for `intent.awaitOnChain`), the time left in
its current loop and what its last read said. An action named `Serve...` is the
backend answering a request, its successor is the code handling the answer; between
the two anything may happen, so every value a call acts on may be stale.

| code | actions |
|---|---|
| `RippleCustody.submitNative`, `submitAsync` | `Submit`, `Refuse`, `DryRunPasses` |
| `postNativeIntent` (POST, 409 absorbed) | `ServePost`, `PostUnanswered`, `HandlePost` |
| `waitForIntentOutcome`, `pollIntentUntilExecuted` | `ServeIntent`, `ReadFails`, `IntentExecuted`, `IntentDead`, `IntentAgain`, `IntentPending` |
| `pollTransactionOnChain` | `ServeTx`, `TxDead`, `TxConfirmed`, `TxAgain`, `TxPending` |
| `assertOnLedgerSuccess` | `ServeLedger`, `LedgerSuccess`, `LedgerFailure`, `LedgerAgain`, `LedgerPending` |
| the application | `Return`, `Crash` |
| Ripple Custody, the ledger (external) | `LatePost`, `Reveal`, `Decide`, `Register`, `Replace`, `GiveUp`, `Apply`, `Report` |

Assumed of the environment, because the code or its comments rely on it: Custody
creates at most one intent per id and answers 409 to a second POST; the attempts of
an order share an account `Sequence`, so the ledger takes one of them; an attempt is
marked `Replaced` only when another one stands for the order or is about to, and
never when it is itself on the ledger; Custody gives an order up only when its last
attempt can no longer apply. Assumed of the application is the rule the SDK documents:
a fresh key only after a terminal error, and otherwise the same key. A crash loses
everything but the key in use, which the application is told to keep.

### AtMostOnceWrite

The key in use, the fate of each key (open, applied, dead) and the definite answer
each caller has been given. `CustodySubmission` implements it under the mapping
stated at the end of that module, `PalisadeSubmission` for the writes that carry their key
(its `AppliedUnder` and `DeadUnder` leave the others a write that nobody has begun).
`SignedWrite` implements it once for each write, under an instance that has the write as its
parameter (`Write(v)`): a key is dead when its manifest came to nothing, applied when the
transaction signed for it is validated with `tesSUCCESS`.

### PalisadeSubmission

The same shape as `CustodySubmission`, with Palisade's differences: a transaction's id
comes from Palisade, so a call whose POST is unanswered cannot ask after it (`unknown`);
only a `Payment` (`operation = "transfer"`) carries the key, as `externalId`, and an
answer may then be the transaction of an earlier POST; an operation without a native form
is refused or, with raw signing allowed, left to `SignedWrite` (`FallBack`). A handle's
`wait` ends at `CONFIRMED` (`confirmed`), `submitAndWait` looks at the ledger (`ok`).
`EndsAreTrue` says what each end means: `ok` that the write was applied with `tesSUCCESS`,
`confirmed` that its transaction is on the ledger, dead that it never will be, and a
fallback to raw signing that nothing was posted natively.
For operations that carry no key the properties speak of careful callers, who send again
under the same key only when the last attempt is known to be dead.

### SignedWrite

All writes are of one account and compete for its `Sequence`. `backend` says who signs:
a wallet or KMS at once, people who approve a Ripple Custody manifest, or Palisade. The
custodian signs the *first* request under a key, so a retry that carries new network
fields may be answered with a signature for the old ones. A blob is a transaction with
the transaction its signature was made for. `Compete` is another writer of the account,
`Close` the ledger advancing past `LastLedgerSequence`. Autofill
finds the first `Sequence` that is not spent (`IsNextSeq`), or one behind transactions that
are broadcast and not applied.

### WriteRoute

One worker's write through validation, dispatch (`Dispatch`), autofill (`Resolve`), the
custodian's own choice (`ChooseLocal`, `ChooseRipple`, `ChoosePalisade`), the version guard
(`Admits`), the dry-run and the request (`Post`, `Broadcast`), for every kind of custodian
and every combination of options. `guard` is the version known since construction,
`served` the one the instance runs (`Upgrade`). `sent` collects the requests with what
they carried.

### Requests, NativeForms and MultiStep

`Requests` has one operator for each builder of the verticals. A transaction is its type
and the *set of parts* it has, a flag being a part; what an amount is worth is left out,
whether it is XRP, an IOU or an MPT is not. `Build(call)` is the sequence of steps of a
call: who signs, the transaction, and whether the caller's idempotency key is passed on
(in `IOU.issue`, `lock`, `unlock` and the settings changes after `activate` and `fund` it is
not). `NativeForms` gives, per transactor and custodian, the slots of the custodian's
form and the parts its mapping looks for in order to refuse them; a part in neither is
dropped.

`MultiStep` runs the steps of a call on the custodians of its two accounts. A step is one
run of the pipeline, reduced to the three ways the submissions are shown to end: applied,
without effect, in doubt. Every call posts its own request for a step; one that reaches the
custodian (`Arrive`) makes an order, or finds the one made before it, if the key was passed
*and* the request has a place for it (`CarriesKey`). A careful caller settles a doubtful step
before resuming at or after it with the matching single operation; any other calls again from
the top (`careful` remembers which). `KeyedOnce` does not ask the model whether a step has the
key: it names the operations that never pass it (`Keyless`) and the custodians that take it
(`TakesKey`), and says that everywhere else the first step is applied once.

### TokenRefresh

A refresh is a process of its own (`Issue`, `Obtain` or `Break`, then `Clear`, the
`finally`), numbered in the order of starting; a request takes the cached token or
awaits a refresh, and replays one 401 after `ForceRefresh`. `stale` is
`isTokenExpired()`; the server may reject any token it issued (`Revoke`). A request starts at
most one refresh per send and sends at most twice, so `MaxRefresh` of twice the requests
bounds nothing. The machine is the one of both clients, but that requests end
(`RippleFairSpec`) is said of Ripple Custody's alone, whose port has a timeout.

### AccountIndex

A rebuild reads the custodians' records one by one, may probe the node for its
network, then installs a whole map, while the custodians' lists change. Two rebuilds may
overlap, though not before `init` has returned, and `registerLocalAccount` writes into the
map under them. `Live` separates a custodian that lists afresh (Ripple Custody) from one
that answers from what it found when it was constructed (Palisade). History variables for
the properties: `same` and `settled`, the records whose listing has not changed since a
rebuild began, and since the one began that installed the index; `kept`, the registrations
since then; `blind`, whether that rebuild chose without knowing the network. The promises
are therefore measured at the rebuild installed *last*, which of two that overlap may be
the one that read first. A signer's primary address is routed to that signer (`RoutedTo`)
where `PrimaryIsAddressable` can say so: if the signer answers from memory, or lists afresh and
has listed it throughout. A rebuild checks the primary before it installs
(`assertPrimaryOnNetwork`), but a custodian that lists afresh need not list it any more, and
then it resolves only if another one does.

### Discovery

`RippleCustody.create` (with or without a configured domain), `listAccounts` and
`PalisadeCustody.create` as walks: `Page` is one page with its cursor, which leads on, back to
itself (`PointedBack`, where `paginate` throws and Palisade's walk does not notice) or, from a
faulty server, to an earlier place, which nothing notices (`PageAstray`); `Resolve...` is what
the code does at the end of a collection. Accounts and addresses come and go and ledgers
are enabled and disabled between any two pages. `steady` and `been` are history: what has
stood unchanged since a listing began, and what has been there at some time since.

### Intents

One proposal, the custodian it goes through and the domain it targets (`order`), and what
its application knows of the id (`known`): a caller may supply one, and learns one from an
answer, from a 409 or from the `CustodyTimeoutError`. A call's `route` is the method, its
`via` the custodian asked. Custody keeps an intent's status and a read model that follows it
(`visible`); `Readable` says where an intent can be read at all: in its own domain, of the
instance that has it.

| code | actions |
|---|---|
| `CustodyApi.propose`, `proposeTransactionOrder`, `proposeAndWait` | `Propose`, `Refuse`, `Post`, `ServePost`, `PostRefused`, `PostTimesOut`, `PostBreaks`, `HandlePost` |
| `CustodyApi.waitForIntent`, `IntentInspector.await`, `outcome`, `status` | `Ask`, `ServeRead`, `ReadTimesOut`, `ReadFails`, `WaitConcludes`, `WaitAgain`, `WaitRunsOut`, `Status` |
| `CustodyApi.approve`, `reject` | `Decide`, `NotDecided`, `SignDecision`, `ServeDecision`, `DecisionUnanswered` |
| Ripple Custody and its people (external) | `Arrive`, `Reveal`, `Settle` |

Unlike the submission of a transaction, `propose` lets the 409 through. An approval does not
execute an intent by itself: it is one reason for `Settle`, which is also policy, execution
and, at the latest, the envelope's `expiryAt`. Not every caller can be helped: `blind` marks
the calls that end without the id they proposed under, and `ProposedOnce` leaves them out:
those whose POST broke or was answered with a 5xx (`PostBreaks`), of which the intent may have
been made all the same, while the other errors (`PostRefused`) mean that none was.
`AskingConcludes` is about those who ask where the intent is (`AsksRightly`).

### Offers and LedgerReads

`Offers` has the conversions between an offer of the ledger, its summary in a listing and
the offer `IOU.buyOffer` or `sellOffer` places: `decodeCurrency` and `encodeCurrencyCode`,
`orient` and `shapeOffer`, `priceToLedgerAmount` and `placeOffer`. A currency code is a text
and whether it is in hex; of a value only its number of digits matters, since the SDK
refuses issued values of more than fifteen.

`LedgerReads` is one call of five operations against a ledger that moves (`Circulate`,
`SetFlag`, `Cross`): `Token.destroy` reads the issuance, `IOU.authorize` and `clawback` the
issuer's flags, then submit (`Check`, `Land`); `Token.issue` looks for the id of its issuance
in the metadata, at the primary custodian and on the ledger, in this order (`FromMetadata`,
`PollPrimary`, `FromLedger`); and a caller lists an offer, in a book or as the account's own,
and places it again (`ListBook`, `ListAccount`, `Place`). `met`, `moved` and `unread` are
history: that the obstacle was there while the call ran, that the ledger has moved since
the call read it, that a read failed.

### PollLoop

Discrete time, with reads that take up to `MaxRead` (Palisade's, which have no timeout, any
time) and timers late by up to `MaxLate`, for each of four loops: the two of Ripple Custody
shorten the last sleep to the deadline, those of Palisade and of the wait for the ledger's
result give up rather than sleep to it. A read that fails is no answer, and the loop goes on
or gives up (`Unanswered`: a timeout in Ripple's loops, a 404 in that of the intent, anything
in the wait for the ledger), or it ends the loop (`ReadThrows`). So a loop may report as
unfinished what settled long ago, if the reads since timed out: `SettledInTimeIsReported` is
about the last read that was answered (`heardAt`), and about the deadline only if that was the
last of all. A
caller's budget may be `NaN`, of which every comparison is false; `Math.min` of a delay and
`NaN` is `NaN`, for which a timer fires at once. `PollDelay` is the smaller of the ceiling and
the delay that has doubled with every poll (`Growth`, a recursive function). Numbers here have
no limit; in the code the product may overflow to `Infinity`, of which `Math.min` makes the
ceiling as well.

## Runs

| run | question | bounds, and why they are enough |
|---|---|---|
| `submission_feebump` | is a write applied at most once, are success and death reported truthfully, does the submission implement `AtMostOnceWrite`, does every call return, does retrying conclude? | one caller, two keys, so that a key can be left behind while its order is still in someone's hands; two attempts per order, for a fee bump; two further reads per loop: longer loops repeat these. Callers side by side are left to the proofs, which take any number |
| `palisade_native` | the same safety for Palisade, and is every end of an attempt true, the fallback to raw signing among them? | two interchangeable callers, two keys, two transactions: with a second key, or without any, that is one too many; one further read |
| `signed_account` | is a signed write applied once, under its own signature, with its own answer, and do calls return whose requests are answered or time out? | one write with two keys against rivals for two `Sequence` numbers, four ledgers with a window of one: each transaction may make it, lose its number, or lapse |
| `route_controls` | is everything asked for honoured or refused, on every path? A fee on the raw path of Ripple Custody is the exception `ControlsHonoured` states | a transactor both custodians model, one each that only one does, one that neither does; four versions, which differ in the operations and intents they take; one write at a time, since writes share only the guard |
| `multistep_steps` | order, no double application for a careful caller, nor, for any caller, of the first step of an operation that passes the key on, no field dropped but by Palisade's offers (`FormIsWhole` states the exception) | every operation with every combination of options; operations of several steps between six pairs of custodians, the others on each of five; three calls, so that a resumed call can fail again |
| `multistep_retry` | does the key de-duplicate an `IOU.issue`, as documented? | violated |
| `token_revoked` | what is shared, the replay and, for Ripple Custody's client, the end of requests, with tokens rejected at any moment | two requests, four refreshes, so that the bound is never reached |
| `index_refresh` | what rebuilds promise while lists change, accounts are registered and another rebuild is under way | two rebuilds; two custodians; an address listed on two networks; two addresses, each the primary of one custodian, that the other may come to claim; two changes, one for each rebuild to miss; one created account |
| `discovery_walks` | is a listing exact, is the domain the only one, do walks end that are not led in circles for ever? | two domains, two ledgers, an account on each in one domain and one in the other, with places up to three, so that a cursor can point further back than to itself; pages of at most one item, so that every collection of two is read across a gap; three changes, since an entry that leaves and returns takes two |
| `intents_places` | is what is said of an intent true, is it proposed once, does asking conclude? | a caller, who calls again and again, and an approver, whose decisions may come late; three domains, of which the first custodian reaches two and the second a third, so that each of an intent's own domain, another of its instance and another instance occurs; two generated ids beside the caller's; one further read; one request in the network |
| `ledger_moving` | is what is told of a moving ledger so, and is a listed offer placed again as the same exchange? | two moves, so that an obstacle can come and go; one text of each kind, in hex and plain, two issuers, every offer of two such amounts or of one and XRP |
| `poll_loops` | are outcomes in time reported, do loops end on time, are reads few? | delays 1, 2, 4, 6, 6, ... against a budget of 21, or of no number, pass through doubling, ceiling and the last, shortened sleep, and any of the reads may fail; nine instants beyond the deadline leave room for a late timer and two reads |

`CHECK_DEADLOCK FALSE` is set where the system stops of itself: when all requests have
ended, a loop, a walk or a call has ended, a caller has no calls left, or the bounds on
keys or ledgers are used up.

### Fairness

`FairSpec` of `CustodySubmission` assumes weak fairness of each call's own steps: a request ends, at
the latest by its timeout (`CustodyHttpClient` passes one to every request; the ledger requests have
xrpl.js's own), and a timer fires. Nothing is assumed of Custody or the ledger for `CallsReturn`.
`RetriesConclude` adds that callers keep submitting (strong fairness, since a call in progress
disables the next), that Custody decides intents, registers and reports transactions, and that the
ledger settles them; it speaks of behaviours in which crashes, refusals and unanswered requests stop
at some point. `TokenRefresh` assumes, of Ripple Custody's client only (`RippleFairSpec`), that
exchanges are answered or time out and that continuations run. `SignedWrite` assumes that ledgers
close and that a call takes its next step where its requests end (`Bounded`): those to Ripple
Custody, and anybody's to the ledger once there is a signature. `Discovery` assumes that a request
to Ripple Custody is answered or times out; nothing is assumed of a server that leads a walk in a
circle, and `WalksEnd` speaks of behaviours in which that stops. `Intents` assumes the same of a
call's own steps as `CustodySubmission`; that the read model comes to show an intent (the loops'
treatment of a 404 rests on it); and that an intent ends, which its `expiryAt` sees to (a day from
the proposal, unless the caller says otherwise). `AskingConcludes` needs no fairness of the callers
and speaks of behaviours in which reads stop timing out. Of Palisade no liveness is claimed anywhere
but for what follows a signature: its HTTP port has no timeout
(`palisade/transport/fetch-http-port.ts:18`), so nothing in the code ends a request.

## Proofs

All are for any values of the constants, from the assumptions of each module about its constants
(`BoundsAssumption`, `RouteAssumption`, ...), which TLC evaluates on every run. Each invariant that
a run checks is a theorem; each rests on an inductive invariant, which the theorem `...Correct`
states and which is needed because the properties are not inductive by themselves: they compare an
answer with what is true when it is given, and the answer was prepared steps before. What these
invariants have in common is that they say of every point of a call which of the things it has read
can no longer change.

`CustodySubmissionProofs`: `TypeCorrect`, `SubmissionCorrect` (`[]SubmissionInv`),
`WriteAppliedAtMostOnce`, `SuccessIsReal`, `DeadIsFinal`, for any number of concurrent
callers. `AppliedAtMostOnce` is not inductive: a state in which one key has applied the
write and a caller is about to be told that it is dead satisfies it, and its successor's
successor does not. The inductive invariant adds

- `OrderInv`: an order's attempts, their results and its intent fit together (one attempt
  on the ledger, no live attempt in an order given up, nothing registered before the
  intent is executed);
- `KeysInv`: every key left behind is dead, no key ahead has been used;
- `ReadingInv`: what a call has *read*, where it is a verdict, is still true when it acts
  on it, because verdicts are about what can no longer change. This is the part that
  makes stale reads harmless, and the reason the indefinite readings are not in it.

The step lemmas go by who acts: a worker changes Custody only by creating an intent or
leaving a proposal in the network (`WorkerFrames`), so orders and dead keys keep
(`WorkerKeepsOrders`, `WorkerKeepsKeys`), it reads true (`WorkerReadsTrue`), and other
workers' readings stand (`OthersReadTrue`); Custody keeps orders consistent and verdicts
final (`CustodyKeepsOrders`, `CustodyFrames`, `CustodyKeepsTheRest`).
`SubmissionImplementsWrite` then shows every step to be one of `AtMostOnceWrite` or none: a
worker's step answers its caller, takes note of an answer or is invisible (`WorkerRefines`);
a step of Custody or the ledger settles the fate of the key in use at most (`CustodyRefines`).

`CallsAreFinite`, of each of the two submissions and of the intents, is what can be said without
fairness of calls that end: the part of `CallsReturn` and `AskingConcludes` that fairness does
not bring, and all there is for Palisade. `StepsLeft` gives every point of a call the most
steps it can still take; a loop goes round only with less of its budget, so each step of the call
lowers it, and no step of another call or of the backend raises it. What fairness adds is that
a step is taken at all: that a request ends, which Ripple Custody's timeout ensures and nothing
in the code does for Palisade.

`PalisadeSubmissionProofs`: `NativeCorrect` (`[]NativeInv`), and from it
`NativeAppliedAtMostOnce`, `NativeEndsAreTrue` and `TransferImplementsWrite`. Palisade names a
transaction in its answer only, so the invariant ties three things together: which keys
have a transaction (`TxInv`, `KeysInv`), that a key has one at most (`OneEach`), and
what a call that knows its transaction's id may say about it (`CallInv`). For operations that carry
no key `OneEach` needs a careful caller and says more: while a POST is unanswered
nothing else is under way with its key. That is the induction hypothesis the code leaves to
the application, and the theorem has it where the code's documentation does.

`SignedWriteProofs`: `SignedCorrect` (`[]SignedInv`), and from it `SignaturesCover`,
`AnswersAreOfTheirOwnWrite`, `SignedWriteAppliedOnce`. `ChainInv` says what a spent `Sequence` stands
for, `RequestInv` that the request under each earlier key came to nothing (failed, or signed and
turned down by the ledger, so never applied again), `NetInv` that whatever was broadcast through
a custodian was signed under one of its write's keys. A wallet signs at once and
leaves no request, so for it `LocalInv` counts transactions instead: all but one of a careful
writer's are `Gone`, past their `LastLedgerSequence` or failed on the ledger.
`SignedWriteImplementsWrite` takes one write out of those that compete for the account: each step
of its caller, of another caller, of the custodian or of the ledger settles a key of it, answers,
takes note, or is invisible to it. It is about the writes a custodian signs. A wallet keeps no
record of its signatures under which a retry could be recognised, so a local write is mapped
to one nobody has begun and only `SignedWriteAppliedOnce` speaks of it. TLC cannot evaluate
an instance with a parameter as a temporal property, so no run states this one.

`WriteProofs`: `RouteCorrect` (`[]RouteInv`), and from it `ControlsAlwaysHonoured`,
`SignedAlwaysFilled`, `RefusalAlwaysHarmless`, `GuardAlwaysExact`. What has been sent
satisfies the properties only because of what was decided steps earlier, so the invariant
says of every point on the way what it stands for: the path is the one the transactor and
the signer give (`PathInv`), the method chosen is one whose controls are honoured
(`ChoiceInv`), which methods come with filled-in fields (`FilledInv`), that a dry-run asked
for has passed by then (`DryRunInv`), what a sent request carried (`SentInv`), and why a
blocked write is blocked (`BlockInv`).
Of `AtMostOnceWrite` it has `WriteCorrect`, `WriteIsAtMostOnce` and `AnswersAlwaysHold`, for any
`MaxKey` above zero (which the submissions assume): what a submission gains by implementing it.
`SettledIsFinal` adds that nothing said of a key goes stale: a fate once settled stays, and callers
move from a key to the next, only when it is dead.

`MultiStepProofs`: `StepsCorrect` (`[]StepInv`), and from it `StepsAreBarriers`,
`CommittedAlwaysApplied`, `KeyedAppliedOnce` and `CarefulAppliedOnce`, for any calls on any
custodians and any number of retries. That a step is a barrier follows from what the
call has committed (`ProgressInv`); that keyed steps are applied once, from the custodian's
making one order under a key (`KeyInv`) and from the code's passing it: the first transaction
of each operation but the four of `Keyless` has the key, by the builders of the verticals
(`CallsPassTheKey`), and the form it takes at a custodian of `TakesKey` has a place for it
(`TakersCarryTheKey`). `AppliedOnce` is not inductive: a late order may be applied at
any time after its call has failed, so `CarefulInv` says that by the time a step may be
posted again no older order of it is live, or the key finds it. Of the operations these
use only that a call has at least one step and finitely many (`CallsHaveSteps`).
`FormsAreWhole` is about the rest of them: a transaction is `Expressed` if each of its parts is a
slot or a refusal of each native form of its type, and every step of every operation, with any
options, builds such a transaction (`CallsAreExpressible`, by the builders of the verticals and
one lemma per transactor); what is requested of it then carries it whole
(`RequestsAreWhole`). That the steps remain those of the call is `FormsInv`.

`AccountIndexProofs`: `IndexCorrect` (`[]IndexInv`), and from it `RemovedAccountsAreGone`,
`ListedAccountsAreAddressable`, `RegisteredAccountsAreKept`, `PrimariesAreAddressable`,
`AddressesAreRoutedRight`, for any custodians and records and any number of overlapping rebuilds.
A rebuild installs what it read some requests ago, so `ListingInv` says of each rebuild under
way which of its records are still so: those whose listing has not changed since it began.
`InstallKeepsPromises` turns that into the promises, from what the choice of a record
does (`BoundIsAClaim`, `ListedIsBound`, `ClaimedIsBoundOrScoped`). That a primary leads to its
own signer follows from the check before the installation: a custodian that answers from memory
lists its primary always, so that a rebuild throws if another custodian claims it too or if it
is on other networks only, and installs it otherwise.

`IntentsProofs`: `IntentsCorrect` (`[]IntentInv`), and from it `ReportsAreTrue` and
`NeverProposedTwice`, for any callers, approvers, domains and custodians. `ReadingInv` plays the part it
has in the submission. `ProposedOnce` needs to know who has the id: while nobody does, one call at
most proposes and whatever exists is of its doing; once somebody does, every proposal that
exists, is on its way or may still arrive is under that id (`KnowledgeInv`).

`BackendProofs`, for four specifications:

- Discovery: `DiscoveryCorrect` (`[]DiscoveryInv`), `ListingsAreExact`,
  `LookedUpDomainIsTheOnlyOne`, for any entries, page sizes and changes between pages. No walk passes
  by an item that stands (`WalkInv`: what is behind the cursor and has stood is in what was
  read), and what stands is in what one walk hands to the next (`HandedInv`). `WalksAreFinite` is
  the part of `WalksEnd` that needs no fairness: `StepsLeft` counts the pages and the walks a
  listing of Ripple Custody can still have, each of its own steps lowers it (a page advances the cursor,
  ends the walk, or points back to itself, after which `paginate` throws; a joined account is one fewer
  to join), no change of the accounts raises it, and `PageAstray` alone does.
- TokenRefresh: `RefreshInvariant` (`[]RefreshInv`), `SharedAlwaysPending`, `ReplayAlwaysFresh`.
  Refreshes are numbered as they start (`NumberingInv`); a request waits for one that was
  started, and a 401 lies in the past and is answered on the second attempt (`WaitingInv`).
  These make the two properties inductive: a `finally` forgets the shared promise only while
  it is its own, and a refresh forced by a 401 has a greater number than any there was at
  that 401. `RequestsAreFinite` is the part of `RequestsEnd` that needs no fairness: a request is
  replayed once. `RefreshesAreFew` counts the sends for which a refresh was asked (`AskedFor`), of
  which a request has two, so that a `MaxRefresh` of twice the requests bounds nothing.
- PollLoop: `LoopCorrect` (`[]ClockInv`), `SettledInTime`, `LoopsEndOnTime`, for any delays, budgets,
  durations and lateness. A read begins at most one late timer past the deadline and no sleep
  is planned past it (`ReadInv`, `SleepInv`); what was not terminal when it was read has not been since
  before the read began, and a read that failed shows nothing (`OutcomeInv`), of which the delays matter only as times (`DelayIsTime`).
  `ReadsSpaced` (from `SpacingInv`) and `ReadsAreFew` are about the delays themselves: they grow and reach the
  ceiling (`DelaysGrow`, `RampEnds`), so that every read after the ramp is at least the ceiling later than the one
  before, and a loop makes as many as fit in its budget, however long they take. That the recursive function is
  what its equation says, and what it is for every number, takes induction. The library's induction theorems
  have an operator as a parameter; `InductionOnNat` has a set in its place, and follows from a nonempty
  set of numbers having a least element.
- LedgerReads: `ReadsCorrect` (`[]ReadsInv`), `WhatIsToldIsSo`, `OffersAreReplacedAsListed`, for any
  currency codes, issuers and moves of the ledger. `CheckInv` keeps what a check has seen up to
  the moment the ledger moves; `ShapedInv` keeps the offer a summary was shaped from,
  and `PlacedAgain` follows a summary through `placeOffer` back to that offer.

Only model-checked are the liveness properties (`CallsReturn`, `RetriesConclude`, `RequestsEnd`,
`WalksEnd`, `AskingConcludes`), since TLAPS proves nothing from fairness; a measure that
falls with each step is proved for all of them but `RetriesConclude` and the `CallsReturn` of
`SignedWrite`.
`RetryDoesNotDuplicate` is false, see below.

## Findings

Checked by a run that finds the documented behaviour violated: `IOU.issue`, `lock` and
`unlock` ignore `idempotencyKey` (`verticals/iou.ts:107`, `:408`), which `iou.types.ts:29-31`
offers for retries. `multistep_retry` shows a second distribution.

Stated as the exception of a property that otherwise holds:

- Ripple Custody's raw path neither applies nor refuses a fee
  (`ripple/submission/raw-flow.ts:137`), which `context-guards.ts:3-14` calls "the dangerous
  default" (`ControlsHonoured`).
- Palisade's `mapOfferCreate` drops `DomainID` and `tfHybrid`
  (`palisade/mapping/offer-create.ts:31`), where `submit-operations.ts:67-69` says such fields
  throw: an offer restricted to a permissioned domain is placed on the open DEX
  (`FormIsWhole`).
- A listed offer is said to be "directly composable" into a new one (`reads/offers.ts:28`),
  but the base becomes the placing account's own IOU, a price in a 40-digit code that stands
  for three characters becomes one in the plain code of that name, and `tfSell` follows the direction
  instead of the listed offer (`ReplacedAsListed`).
- With a budget that is no number the intent loop has no deadline and reads as fast as it is
  answered (`ripple/submission/intent-polling.ts:235`), Palisade's has no deadline, and the
  transaction loop ends after one read (`EndsOnTime`, `ReadsAreSpaced`).
- A transport error that is not a timeout leaves the caller of `propose` without the id it
  proposed under; so do a 5xx, after which the intent may exist, and a read that fails under
  `proposeAndWait` (`ProposedOnce`).
- A last read that times out, or several, make `waitForIntentOutcome` and
  `pollTransactionOnChain` report as unfinished what settled long before
  (`ripple/submission/intent-polling.ts:156`, `transaction-polling.ts:145`;
  `SettledInTimeIsReported`).
- A faulty server that hands back cursors in a circle longer than one keeps `paginate` walking for
  ever (`ripple/pagination.ts:64`; `WalksEnd`).
- `client.intent` asks the first Ripple Custody signer, so an intent of another instance, or of
  another domain of which `outcome` is not told, stays "not readable yet" until the time is up
  (`AskingConcludes`; `client/intent-inspector.ts:162`).

Observed while modelling, without a property of their own:

- `awaitOnChain` documents a `Replaced` transaction as provably dead
  (`client/intent-inspector.ts:124-127`); the code skips replaced attempts and reads on
  (`transaction-polling.ts:91`). The code is right: with the documented behaviour
  `SubmissionInv` fails (`ReplacedListingIsDead`).
- Concurrent 401s each start a refresh (`custody-auth.service.ts:138`), where the comments at
  `:86` and `:152` promise one in flight. No request is harmed.
- `refreshAccounts` says that accounts "removed upstream are gone on next lookup"
  (`client/client.ts:229-230`), of every custodian. Palisade's `listAccounts` answers with what it
  found when it was constructed (`palisade/palisade-custody.ts:210`), so a wallet removed since is
  bound again by each rebuild, and a new one never is: `RemovedIsGone` and `NewIsAddressable` are
  about custodians that list afresh. Of two overlapping calls of `refreshAccounts` the one with the
  older reading may install last (`client.ts:241`); a registered account is dropped by the next one
  that succeeds (`client.ts:241` against `pipeline/host.ts:17`), also in the middle of
  `Account.activate`, which looks the new account up only after its payment
  (`verticals/account.ts:186`).
- The raw path throws Custody's 409 (`raw-flow.ts:145`), so a retry under the key of an accepted
  manifest fails, where `domain/model.ts:178-180` promises that it resolves to the first.
- `IOU.lock` and `unlock` cannot complete on a Ripple Custody account: deep freeze has no slot
  (`ripple/mapping/trust-set.ts:57-62`), a `TrustSet` never goes raw, and the first step is
  committed by then; `docs/connector-routing.md:73-74` lists both as native.
- `mapPayment` of Ripple Custody ignores `SourceTag`; no vertical sets one, a caller of
  `submitTransaction` can.
- A lost answer to a Palisade POST leaves the caller without an id; its operations other than
  payments are not de-duplicated, which their documentation admits. A handle's `wait`
  resolves at `CONFIRMED` without looking at the ledger. Its HTTP port has no timeout, so its
  polling loop's last read may end long after the deadline, or never.
- The version guard knows the version the instance had at construction: after an upgrade it may
  refuse what is supported by now, or let through what no longer is (`GuardIsExact` is about a
  guard that is up to date).
- An account that disappears between the pages of a listing makes the whole listing throw;
  Palisade's walk notices not even a cursor that points back to itself.
- `Token.issue` may throw from looking up the issuance id after the write has succeeded
  (`PollThrows`). It asks the primary signer also for orders of another custodian
  (`verticals/token.ts:139`), which costs the whole timeout before the ledger is asked.
- `ledgerEntryNode` takes any error for an entry that does not exist, so `Token.destroy` goes
  ahead on a read that failed; the ledger then refuses it. The list reads of the ledger take
  its first page only, where their comments say "List every".
- A second `propose` under one id throws Custody's 409, where `mapping/propose-envelope.ts:52-53`
  says that it "resolves to the same intent". `proposeAndWait` throws what a read throws, other
  than a 404 or a timeout, where `api.ts:447` says that "the wait itself only reports".
- An approval or rejection reads the intent in the domain of the custodian's own context and is
  signed whatever the intent's status is.

## Not modelled, and why

Values: amounts (but for an offer's digits), percentages, metadata, addresses. The layout of
envelopes, signatures and encodings, logging, typed errors and generated clients are sequential
data code without state. Configuration is read once before anything is shared. The reads that
justify no write are single queries of the node. `findNewIssuanceId` and
`listMptIssuanceIds` (`verticals/token.helpers.ts`) are called from nowhere.

Of some 68,000 lines of implementation about 45,000 are clients generated from OpenAPI
documents and 3,000 are release and build scripts; they have nothing to model. What the
modules cover, some 6,000 lines, is to be held against the 19,000 written by hand, of which
nearly half are comments and blank.

## Plan

What would come next:

1. Proofs: that an order of `MultiStep` is a write of `AtMostOnceWrite`; that the conversions of
   `Offers` undo one another for every text.
2. Percentages and decimal amounts as operators against a reference definition.
