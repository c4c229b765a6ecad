# Verification of spark-ln-address

TLA+ models of the Lightning-address service in `src/`: a NestJS server that
registers usernames by LNURL-auth, answers LNURL-pay callbacks with Lightning
invoices, converts incoming payments to USDB through a provider (Flashnet), and
keeps a queue of recovery cases for operators. TLC checks the models on small
instances, TLAPS proves the safety properties for every instance.
`PROJECT.json` maps each definition to the lines it models.

## 1. Inventory

| Component | State | Operations | Module |
|---|---|---|---|
| Order state machine (`swap/swap-state-machine.ts`) | none | transition table, `classifyTransition`, `mapEventToStatus` | `OrderStateMachine` |
| Settlement tables (`swap/swap.service.ts`) | `flashnet_orders`, `webhook_events` | `initiateLightningQuote`, `applyWebhookEvent` | `SwapService` |
| Recovery cases (`refund-case/`) | `refund_cases` | `createRefundCase`, `markPaid`, `markAbandoned` | `RefundCaseService` |
| Webhook intake (`swap/flashnet-webhook.controller.ts`) | none | verify, parse, apply | `Settlement` (`HandleWebhook`) |
| Quote reconciler (`swap/quote-reconciler.service.ts`) | cursors and batch, in memory | `run`, `reconcileBatch` | `Settlement` (what a visit does), `QuoteReconciler` (which rows it reaches) |
| Accounts and names (`username/`) | `users`, `usernames` | `changeUsername`, `grantExtraChanges` | `UsernameRegistry` (the tables), `UsernameAnswers` (what callers are told) |
| LNURL-auth (`auth/auth.service.ts`, nonce purge) | `auth_nonces` | challenge, `register`, purge | `UsernameRegistry` |
| Signature guard (`auth/spark-signature.guard.ts`) | replay cache, in memory | `canActivate`, `rejectReplay`, sweep | `ReplayGuard` |
| LNURL-pay callback (`lnurl/`) | `invoices` | `handleLnurlCallback` and the quote it asks for | `LnurlCallback` |
| Currency preference | `users.currencyPreference` | `setPreference` | `LnurlCallback` (`SetPreference`) |
| Query API (`query/`) | none | lookup by key, search by name | not modelled, section 7 |
| Flashnet and Lightspark clients | external | quote, order lookup, invoice | provider steps of `Settlement` and `LnurlCallback` |
| Quote validation, BOLT11 tags (`flashnet/lightning-quote-validation.ts`, `common/bolt11-*.ts`) | none | `readBolt11Tags`, `bolt11DescriptionHash`, `validateLightningQuote` | `Bolt11` |
| Reserved names (`common/reserved-usernames.ts`) | none | `isReservedUsername` | `ReservedUsernames` |
| secp256k1 utilities (`auth/secp256k1.utils.ts`) | none | `verifySignature`, `derToCompact`, the encodings of a key | `SignatureFormats`, `UsernameRegistry` (`EquivalentPubKeyForms`) |
| Rate limits, controllers, DTOs, configuration, logging | none of their own | framework wiring | not modelled, section 7 |

**Interaction.** The callback asks the provider for a quote and stores Invoice
and order in one transaction before the payer sees the invoice. From then on
two writers move the order through the same function, `applyWebhookEvent`: the
webhook controller, and the reconciler, which composes an event from a snapshot
it polled. The function opens recovery cases; operators close them over HTTP.
Names, keys and nonces are shared by registration and by the name changes.
Signed requests pass the guard, whose cache is local to the process.

**What is hard here.** Webhooks are lost, repeated, late and out of order, and
carry stamps that need not be those of the polled snapshots. A row, a snapshot,
a quota, a key check or a cache decision is read, awaited on and used later. A
transaction may fail or commit unheard, the process may die between any two
awaits, and the reconciler's memory goes with it. The list, line by line, is
`hazards` in `PROJECT.json`.

**What makes each part correct.**

* Settlement: a payment settles once, as the provider settled it, with the
  amount told of its own order if one was told; it settles even if no webhook arrives; a failure or a
  hold gets a case, a settled payment never gets a new one.
* Names: an account has exactly one active name, a name is never taken away, a
  challenge makes at most one account, a stored key names one account.
* Answers: success, refusal and quota are true of the tables when they are
  said.
* Guard: a protected request is accepted once within its window.
* Callback: a payer never holds an invoice the service has no record of, and no
  payment reaches the settlement before its order row.
* Pure functions: the tag reader returns the fields of the body and nothing
  else; an accepted quote is payable for exactly the amount asked; a dressed-up
  reserved name is reserved; a canonical signature is accepted in either writing.

## 2. Plan

Written: the modules of section 3, in the order in which money depends on them:
settlement tables, settlement end to end, recovery cases, names, guard, reconciler
pages, callback; then callback and settlement in one module, the answers of
username changes, and the pure algorithms against reference definitions.

Proved: the safety properties of every module but one, the two refinements, the
exactness of the pure functions, that the reconciler's visits suffice for
settlement, and under which condition each sentence of section 5 does hold
(section 6). What is left is what the prover cannot reach, and is checked by
TLC: that fairness makes the visits recur, and the one property that depends on
the contents of the word lists.

## 3. Modules and how they correspond to the code

`OrderStateMachine` is constant-level: the table, the classifier, the event
mapping, and `Decide`, the decision of `applyWebhookEvent` around them (an
unfunded row counts as processing; a terminal status wins over the table).

`SwapService` holds the tables: `orders` (status, bound order id, amount),
`seen`/`processed` (`webhook_events` rows and their `processedAt`).
`applyWebhookEvent` is one Serializable transaction, so each outcome is one
step: `Redelivered`, `UnknownOrder`, `Consume` (with `HoldForRecovery`, `Ignore`
or `Advance`), and `ApplyThrows`, after which nothing remains. It accepts *any*
set of events in any order. `RefundCaseService` has `cases` and the operator
requests in flight: reading the row and updating it are two steps, as in the
code.

`PaymentLifecycle` is the abstract specification: a payment is none, awaiting,
active or has an outcome; its review is none, open or closed. `SwapService` is
shown to implement it (`ImplementsLifecycle`).

`Settlement` extends `SwapService` with a provider, webhooks that are never
removed from `net` once sent (hence lost, late, repeated and reordered), the
reconciler's steps between its awaits, crashes and failed calls. A stamp of a
webhook is either the snapshot's or one of its own (`Shifts`), because
idempotency keys include it. The amount of a completed order may be null
(`flashnet.types.ts:141`), in the order itself or only in its webhooks:
`applyWebhookEvent` records it only if it is there (`swap.service.ts:321`).

`QuoteReconciler` has the three queues, their pages and cursors, and rows that
appear, age, become bound and settle under them. `wait` is a
history variable; its count stops at `MaxWait`, no less than what it is compared
with. `CurrentNotDelayed` bounds it by the pages of current quotes alone; a sweep
may need one more query than it has full pages, which `SweepLength` counts.

`UsernameRegistry` has names with owner, key, active flag and the nullable
`activePubKey` on which the unique index stands; nonces; grants; and requests in
flight with what they read. Registration is four steps (challenge check, key
check, name check, transaction), a change up to three. `via` is a history
variable.

`ReplayGuard` has the clock, the buckets, and requests between skew check and
cache check. `granted` is a history variable.

`UsernameAnswers` leaves the registry's steps as they are and adds what is said:
a request that met a conflict waits in `pend` for its second read
(`convergedResponse`), `reply` is the answer of the last step. `since` is a
history variable: what `loadState` returned to each change, and the names its
account has been on from then on.

`LnurlCallback` has one step per await of the callback, the two issuers, and the
rows stored; `revealed` records what payers saw.

`PaymentPath` composes the two halves of a payment: it extends `Settlement` and
instantiates `LnurlCallback`, whose Flashnet invoices are the settlement's
quotes. The transaction of `initiateLightningQuote` is one step of both
(`StoreQuote`), a crash ends callbacks and reconciler together (`ProcessCrash`),
and a payer can pay only what it was given (`Pay`). In `Settlement` alone "paid
only after it is stored" is a guard of the provider; here it is a consequence,
`ImplementsSettlement`.

Three modules are one call of a function each, stepped where the code loops.
`Bolt11` reads an invoice field by field and states the decisions of its two
callers; base, widths, tags and the
largest safe integer are parameters. `ReservedUsernames` writes the
foldings of a name as operators and the segmentation as the table the code fills,
one prefix per step. `SignatureFormats` has the choice between compact and DER,
the conversion, and the two readings of a message. `MCFunctions` puts the three
in one run.

A definition whose comment begins "Mutant" is no part of a specification: it is
a plausible slip of the code and records which property notices it.

## 4. Runs

All passing runs explore the whole state space of their instance.

| Run | Instance | Shows |
|---|---|---|
| `swap_tables` | 2 payments, 2 order ids, 14 events, 1 operator | Conflicting and repeated bindings, holds, settlement, an amount told twice, texts that do not fit: uniqueness and permanence of bindings, finality, cases, idempotence, that what is marked processed has had its effect, refinement |
| `payment_path` | 1 callback, 1 quote, 1 sats invoice, 2 provider updates over 3 statuses with and without holds, webhook stamps of their own, 1 fault | A payment from request to settlement: the path is a behaviour of `Settlement`; local settlement is the provider's, in status and order, and of a delivery in an amount it told, with completions that carry the amount, lack it, or lack it in the webhook only; cases have a cause; the reconciler visits an unsettled payment to the end again and again, and alone settles what the provider settled and finds a lasting hold |
| `reconciler_sweeps` | 3 rows, 1 of them archived, pages of 1, 1 fault | A current quote waits for current quotes only; every unsettled row is visited again and again |
| `username_answers` | 2 accounts, 4 names, 2 keys, 2 nonces, 2 requests | One active name, single-use nonce, one account per key, permanence; answers and quota figures are true |
| `replay_cache` | 2 keys, 4 messages, 2 requests, cap 2, sweep above 1 bucket | Cache exact and bounded, no replay in the window |
| `lnurl_callback` | 2 callbacks, 3 invoices, 2 amounts | No untracked invoice is revealed; an order row is a validated quote |
| `pure_functions` | names of up to 4 characters and dressed-up compounds of 3 words; invoice bodies of up to 7 words or 4 fields; signatures of 5-byte integers, up to and past half the order and the order of the curve | The segmentation table, the tag reader, the acceptance of a quote and of a signature against definitions that do not follow the code's order |

**Why the bounds suffice.** Two payments and two order ids are what a wrong
binding needs; a third only repeats one of them. The end-to-end run has one
payment: `swap_tables` shows, for arbitrary events, that an event of one payment
does not reach another. Two provider updates are a status overtaken by a
terminal one, seen by webhook and poll in either order, each with its own stamp.
Operators and the settings that route callbacks are left to `swap_tables` and
`lnurl_callback`: they change no row of the path. One fault can fall between any
two steps; a second one restarts from a state the first one already reaches.
Pages of one row make every row a page boundary. Two requests in flight are the
smallest race, four names let each of two accounts change once and the two meet
at one name, and the proofs of section 6 cover any number. Three invoices let
both callbacks run and one of them fall back from USDB to sats. For the tag
reader seven words hold a whole field and a second one cut off at every place,
four fields every combination of the tags that are looked at. Five-byte integers
have every pattern of leading zeros and high bits that the conversion
distinguishes, and make DER longer than compact as 32 bytes do. Symmetry is used
where no constant singles an element out, and never with liveness.

**Deadlock** is checked except in the registry's runs and in `pure_functions`:
when all nonces are used, every name claimed and every grant spent, a bounded
instance has nothing left to do, and a function that has returned is done. In
the others some step (a redelivery, a batch, a restart) is always
possible.

**Fairness.** Only the reconciler is assumed to run: weak fairness of its query
and of its visits to each row (`Settlement`, `PaymentPath`), of its steps (`QuoteReconciler`).
`run` is a loop with a 30 s pause, its errors are caught, its lookups have a
timeout. No webhook has to arrive, no operator has to act, and the provider need
not progress. Faults are finite in number; if every call failed for ever nothing
could be promised.

## 5. Where the code and its documents differ

| Run | Observation |
|---|---|
| `failure_visible` | "Failed deliveries and recovery holds open an ops case" (`swap.service.ts:176`): hold, case closed by an operator, failure: `createRefundCase` returns the closed row and the failure is in no open queue. |
| `long_error` | "Any failed payment needs an ops case" (`swap.service.ts:366`): the provider's error text goes to VARCHAR(191) columns unshortened. A long one makes the transaction throw in every delivery and every batch. |
| `case_race` | "Throws BadRequestException when the row is not OPEN" (`refund-case.service.ts:128`): two operators at once both pass the check and the second overwrites the first. |
| `quota_race` | "rejected once the ceiling is reached" (`username.service.ts:73`): the quota is checked before the transaction. If another claim and a switch back commit in between, the retired row is active again and the claim succeeds over the ceiling. |
| `key_encodings` | "One active name per key" (`auth.service.ts:57`): two concurrent registrations with the two encodings of one key both pass the check, and the index compares strings. |

Each is a run whose property TLC refutes; the trace is such a history. The
proofs say how far each sentence carries:

* `failure_visible`: the step that fails a payment leaves an open case unless an
  operator had closed it before (`FailureQueued`).
* `long_error`: as long as texts fit their column (`TextsFit`), every failed
  payment gets its case (`VisitsQueueFailures`).
* `case_race`: with at most one operator a resolution is final
  (`ResolutionFinal`).
* `quota_race`: the ceiling is exceeded by less than the number of requests in
  flight at once (`QuotaExcessBounded`), so not at all one at a time
  (`QuotaHoldsSerially`).
* `key_encodings`: it takes two requests in flight (`KeysUniqueSerially`) and two
  stored encodings of the key (`KeysUniqueInOneEncoding`).

Some things the models make visible and no run states:

* The transition table alone decides whether an event is stale. DELIVERING to
  CONFIRMING is a legal edge, so a late `confirming` moves an unsettled order
  back until the next update.
* `usernameSkeleton` folds a name as a whole. Words that meet in `rn` or `vv`
  are folded there too (`operator` followed by `news`), and of a doubled letter
  half replaced by a lookalike the two halves no longer collapse (`r0ot` has the
  skeleton `root`, the word `root` has `rot`). Digits before or after a name
  that itself begins or ends in a lookalike digit are read all one way.
  `ImitationsAreReserved` is about the imitations without these.
* `validateLightningQuote` tells a wrong description hash before it looks at the
  signature and the invoice's own expiry, so that answer does not mean that the
  quote was otherwise valid.
* A DER signature of at most 64 bytes is taken for compact and refused, and so
  is a valid signature whose `s` is in the upper half of the order: `verify` is
  called without options (`secp256k1.utils.ts:168`, `176`) and the library's
  default demands a low `s`. A wallet that does not normalise `s` fails on about
  every other signature.
* The first completed event that applies decides the amount. If it carries none,
  `actualOut` stays null although a later webhook or poll has the amount: the row
  is settled, its later events are ignored, and the reconciler's queues no longer
  hold it.
* "a user registered with uppercase hex is invisible to an exact-match query"
  (`username.service.ts:317-322`, and `docs/username-change.md:434-436`). Keys are
  stored as sent and the lookup lowercases its input, but the migrations create
  the tables with the collation `utf8mb4_unicode_ci`, under which the comparison
  ignores case: the user is found, and the unique index on `activePubKey` also
  treats both spellings as one key. The sentence would be true under a binary
  collation. No run states it: it is about the collation, not about a step.

## 6. Proofs

`SwapServiceProofs`, for any quotes, order ids, events, stamps and operators.
The inductive invariant `SwapInv` is the type invariant with `OrderBoundOnce`,
`ProgressIsBound`, `FailedHasCase` and two strengthenings: `AbsentIsUnbound` (a
row that is not stored has no order id; otherwise storing it could reuse one)
and `RequestHasCase` (an operator's request in flight is for an existing case;
otherwise its update could create one). `ConsumeEffect` says once what consuming
an event can do to its row and to the others; everything else follows from it:
`SwapInvariant`, `TypeCorrect`, `BindingUnique`, `ProgressBound`,
`FailureHasCase`, `SettlementFinality`, `CasesPrecedeSettlement`,
`BindingPermanence`, `Idempotence` (nothing changes unless a new event is marked
as processed), and `Refinement`, that every step is a step of `PaymentLifecycle`
or leaves it unchanged. All of it is proved of `TablesStep`, a step of the tables
under any event whatever, or a restart; so it holds of the larger modules too.
The assumption is `SwapAssumption`: the null values are no values, events are
well typed.

The other half of idempotence is `ProcessedHadEffect`: the key of a settling
event is marked only when its payment is settled, that of a hold only when there
is a case or a settlement. It is inductive with `SwapInv`, because settlement is
final and cases stay (`TablesStepConsumed`), and it is what makes it safe to skip
a delivery as a duplicate. `ResolutionFinal` and `FailureQueued` are section 5's.

`SettlementProofs`, for any quotes, updates, deliveries and crashes. That a row
agrees with the provider is not inductive: what was sent or polled long ago can
still be applied. `SettlementInv` therefore says of everything that can reach
the tables that applying it now would be right. `NetTrue`: an event in `net`
names its own order, an outcome in it is the provider's, and the amount with a
completion, or the lack of it, is one the provider told (`Told`).
`WorkTrue`: the same of the snapshot in the reconciler's hands, whatever its age
and stage. Both stay true because the provider's terminal statuses, with their
amount, are final and a quote has one order; its other statuses may go anywhere. `ProviderAnnounced`: a failure or a hold was announced,
which is the cause `CaseHasCause` asks for. `RowsTrue` then carries
`SettlementAgrees` through every step, with `SwapInv` for the tables. The
theorems are `SettlementInvariant`, `SettlementTyped`, `SettlementAgreement`,
`CasesHaveCause`; `SettlementKeepsTables` and `SettlementRefinesLifecycle` hand
over what `TablesStep` has, so finality, permanence, idempotence and the abstract
lifecycle hold end to end. For `PaymentPath` the invariant of `LnurlCallback` is
used through an instance of its proofs, and `PathLink` ties an invoice a payer
holds to its order row. It is what makes `Pay` a legal step of the provider:
`PathInvariant`, `PathRefinesSettlement`, `PathAgrees`. `SettlementsAttributed`
reads the link backwards: whatever settles or gets a case was given to a payer
who asked for it, and has one Invoice row, with that name and amount
(`PaidWasGiven` follows payments and webhooks back to the answer).

Liveness is split in two. That rows which stay unsettled are visited again and
again, `KeepsVisiting`, is what fairness gives, and TLC checks it. That this is
enough is `VisitsSuffice`, with `EventuallySettled` and `HoldIsDetected` as
conclusions, and `VisitsQueueFailures`; neither mentions fairness. A visit may
fail to settle a payment for three reasons. Its snapshot may be older than the
outcome (`Outdated`): then the visit after it is not, since a terminal status
stays (`StaysDone`). Its event may be marked processed already: then its effect
is there (`AppliedEffect`, from `ConsumedHadEffect`). Or it throws: not with a
text that fits (`DoesNotThrow`, hence the premise `TextsFit`, and `long_error`
shows that it is needed). `VisitInv` adds that a paid quote is stored, that a
snapshot in hand is of a paid one, and that a visit which has come to the hold
has applied the status. `VisitAchieves` puts this together, and the temporal
steps follow from it and what stays true. `PathSettles` carries the result over
to `PaymentPath`.

`QuoteReconcilerProofs`, for any rows, archive and page sizes:
`ReconcilerInvariant`, `TypeCorrect`, `CurrentReached` (`CurrentNotDelayed`). The
bound is not inductive, a row's wait says nothing of what is ahead of it. `Left`
is the number of pages that may still pass the row over, between the cursor and
the row, around the end of the queue if the row is behind the cursor. `WaitInv`
says that wait and `Left` together stay within a sweep per fault and one more: a
page that passes the row over moves one from `Left` to the wait, a crash resets
the cursor and adds a sweep, and no archived or newly arrived row enters the
count, because the fresh queue holds current quotes only. The first form of
`SweepLength` did not count a final partial page and the proof did not go
through; it was wrong for pages of two rows, which the instance, with pages of
one, does not show.

`FunctionsProofs`, for any body, tags, amounts, widths, names and word lists.

* Tag reader. `ReaderInv` says that the fields read so far are a chain from the
  start of the body. A chain is determined by the body, field after field, so
  the reader's division is the only one (`ReaderReadsTheBody`), and the two
  callers see the same description hash (`CallersAgree`).
* Acceptance. `AcceptedArePayable`: an accepted quote asks for the amount to the
  tenth of a msat, and its stored expiry is in the future and outlives neither
  the quote nor the signed invoice. The value of a run of words is a
  recursive function; that it exists and is a natural number is shown by a least
  counterexample, which needs no induction rule.
* Signatures. `FormatsAccept`: DER's minimal integers, read by `derToCompact`, are
  the bytes that were signed, so what is left to decide is the library's: the
  key, the message, and that the signature is `Canonical` (`r` and `s` in range,
  `s` not in the upper half). `MinimalRead` and `Padded` say that trimming and
  padding are inverse for every width, `Places` where the integers lie.
* Reserved names. `TableExact`: an entry of the table is right if the earlier ones
  are. `ExtendCut` and `SplitCut` turn a division of a prefix into one of a
  shorter prefix and back. `VerdictExact` goes on to the answer: a name is refused
  exactly if one of its candidate skeletons splits into protected words and
  fillers with a protected word among them.

`UsernameRegistryProofs`, for any number of requests, names, accounts and
nonces. At most one name is active because the index on `activePubKey` is unique
(`IndexUnique`), it mirrors the active flag (`Mirrored`), and all names of an
account carry one key (`OneKeyPerAccount`); at least one because of `HasActive`.
A change writes rows it read long before, so `ReadRowsOwned` says what of a stale
read is still true: the row it saw active and an owned target still belong to its
account. From it `TypeCorrect`, `ActiveNameUnique`,
`SingleUseNonce`, `KeyOwner`, `NamePermanence`.

The quota is checked when a change starts and used up when it commits.
`QuotaInv` therefore counts the names of an account together with its claims in
flight (`Claims`): their sum stays within the ceiling plus the number of
requests, since a start is admitted only below the ceiling, a commit turns a
claim into a name, and grants only raise the ceiling. The only assumption is
that requests are finitely many. `SerialInv`, for one request at a time, says
that the check for an active key is still true when the registration commits,
and that the name a change retires is still the active one.

`UsernameAnswersProofs`, for any number of requests, accounts and (finitely many)
names. `AnswersImplementRegistry`: answering is no step of the tables, so the
registry's invariant carries over. `AnswersInv` adds what a change in flight may
still rely on: the rows and the limit it read are behind the tables, never ahead
of them (names and grants only grow), and it remembers the name its account was
on (`ChangeFacts`); and of a change waiting for its second read, that the
conflict it met is still there, and that its account has been on two names if
the conflict was on `activePubKey` (`PendFacts`). The step that needs thought is
the violated `activePubKey` index: by `ExactlyOneActive` the row in its way is
another name of the same account, hence `InProgressTrue`. The others are
`AnswersTyped`, `AnswersTrue`, `QuotaTrue`.

`LnurlCallbackProofs`, for any callbacks, names, amounts and invoices. The two
properties are about rows and answers and say nothing of a callback between
them; `CallbackInv` follows the invoice in its hand: it is one its issuer made
(`HeldIssued`), in one hand only (`HeldOnce`), without a row until it is stored
(`NotStored`) and with one afterwards (`IsStored`), validated if it is a quote
(`FromIssuer`). `NotStored` is why a row is unique although a transaction may
commit unheard. From it `TypeCorrect`, `Tracked`, `ValidOrders`.

`ReplayGuardProofs`, for any skew, cap, threshold and clock bound. `GuardInv`
joins type, exactness, finite buckets (the cap compares cardinalities) and the
cap. `CurrentFacts` is the lemma that pruning and sweeping keep exactly what has
not expired. From it `TypeCorrect`, `CacheIsExact`, `CacheIsBounded`,
`ReplayRejected`.

**Only model-checked.** What follows from fairness is outside the prover's reach:
`KeepsVisiting`, on which `EventuallySettled` and `HoldIsDetected` are proved to
rest, and `EveryRowVisited`.
`ImitationsAreReserved` is no theorem about every word list: whether a dressed-up
word still folds to the word depends on the words (section 5, `rn` and doubled
letters), and what the folds compute would need induction over the name. The
properties of section 5 are false as they stand, and TLC shows it.

## 7. Assumptions and what is not modelled

* A Serializable transaction is atomic, and a unique violation in it rolls it
  back. MySQL runs in strict mode, so a text too long for its column is an error.
* One process (the PM2 configuration starts one); its clock does not step back.
* The provider has one order per quote and its terminal statuses are final, and
  so is the amount it then states or does not state; before delivery there is
  none (`flashnet.types.ts:140`). A webhook has the order's amount or none.
  That a quote is paid only after it is stored is shown, not assumed
  (`ImplementsSettlement`): the payer sees the invoice after that.
* An update of an order is announced by at least one webhook (`Shifts # {}`),
  which need not arrive. `CaseHasCause` is stated by what was sent.
* The controller's refusals (stale timestamp, bad HMAC, unreadable body) change
  no state and are deliveries that do not happen.
* Names and keys compare as the unique indexes compare them, spellings that
  differ in case being equal under the tables' collation; the two encodings of a
  key are two strings of one point.
* Harmless simplifications: the unique index on `orderId` (`schema.prisma:92`) is
  no further guard of a binding, `OrderBoundOnce` holds without it; the two
  parallel reads of `loadState` (`username.service.ts:351`) are one step, what they
  read only grows; and `validateLightningQuote` reads the clock once.
* In the guard signature verification is an oracle: a request whose signature is
  bad ends without an effect. `SignatureFormats` and `Bolt11` model what happens
  around the curve: key recovery is the library's, one flag; `verify` is modelled
  from its call, by whether key and message are those of the signature and by the
  library's conditions on `r` and `s` (`@noble/secp256k1` 3, default options,
  whose source is not in the repository).
  DER that is not minimal is outside `AcceptsTheSignature`.
* Amounts in whole BTC (an invoice prefix without a unit) exceed TLC's integers
  and are not among the checked prefixes; `AcceptedArePayable` covers them.
* The assumptions on the pure functions are types: words and bytes are numbers in
  range, a prefix has one of the five units (`Bolt11Assumption`), a signature is
  two integers of `Width` bytes, at least one, and half the order of the curve is
  less than the order (`FormatsAssumption`).
* Left out: fees, route and error columns once stored; wire formats and wording;
  read-only endpoints (the query API filters active rows by key or by name, and
  that a key has one is `ExactlyOneActive` with `KeyNamesOneAccount`); the HMAC
  of webhooks; rate limits (windows and counters are the framework's throttler,
  the repository only configures it); configuration, logging, validation of
  request fields; hashing, hex and the curve.
