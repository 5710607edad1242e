# Football IQ Challenge: a TLA+ development

Football IQ Challenge is a prediction contest with money in it. A user deposits,
pays an entry fee into a contest's escrow and predicts ten outcomes; matches end,
predictions are scored, the escrow is divided between the winners and the
platform, and winners withdraw. The API (`src/apps/api`) is a NestJS application
over Postgres and Redis: request handlers, a transactional outbox relayed into
a BullMQ queue, and workers.

The code has one habit that decides what can go wrong in it. **A service reads
and checks outside any transaction, and writes in a later one, usually by id.**
What holds a state together then is whatever the transaction itself insists on:
the ledger's idempotency keys, its non-negative balances, a few unique keys, a
few compare-and-set updates, one advisory lock. The models keep reads and
writes apart wherever the code does, so that these few things have to carry the
properties, as they do in production.

Paths below are relative to `src/apps/api/src/modules` unless they say otherwise.

## 1. Inventory

| Part | State | Operations | Hard because | What makes it correct |
|---|---|---|---|---|
| Ledger `wallet/ledger/ledger.service.ts` | `LedgerAccount.balanceMinor`, `JournalEntry` by idempotency key, lines | `post` | concurrent transactions, crossing row locks, two calls under one key, rollback halfway | whole postings, once per key; no guarded account below zero; balances equal the journal; every call ends |
| Contest lifecycle `contests/` | `Contest.status`, `lockAt`, escrow account, delayed lock job | publish, lock (job, admin), cancel | stale checks, job scheduled after the commit | nobody's fee is lost; every published contest ends |
| Entries `predictions/entries.service.ts` | `Entry`, predictions | submitSlip | checks before the transaction, several tabs of one user, idempotency keys the client chooses | at most one fee per entry and none without one, one entry per user |
| Scoring `scoring/scoring.service.ts` | prediction points, entry totals, `Contest.status` | onResultFinalized | events repeated and out of order, two matches at once | SCORED only when complete; totals are the sum of the points; nothing moves after SCORED |
| Settlement `settlement/` | prizes, ranks, entry and contest status | distribute | two deliveries at once, cancellation in between, rounding | the escrow is paid out exactly, once, and to the entries not refunded |
| Withdrawals `withdrawals/withdrawals.service.ts` | `Withdrawal.status`, pending account | request, approve, reject, payout, settle, reverse | two admins deciding at once, the gateway's answer racing its webhook, a payment taken back, lost answers | a hold goes one way, the way the bank says; no approved withdrawal is left behind |
| Deposits and webhooks `payments/` | `PaymentIntent`, `WebhookEvent` | initiate, settle (callback, webhook), webhook receipt | callback and webhook at once, failed processing | one credit per payment, and always one |
| Fixtures and results `sports/` | `Fixture` rows, `resultFinalizedAt` | poller, admin finalize, sync | a fetch written back later, two finalizations | a finished match becomes final, and a final result stays |
| Outbox and queue `../infrastructure/outbox` | `OutboxEvent`, jobs by event id | emit, relay ticks, attempts | a stop between adding a job and marking its event, two relays on the same rows | every committed event is settled, once; a handler runs again only after a failure |
| Fixture catalog `sports/sync.service.ts`, `difficulty/` | leagues, teams, fixtures, stars | syncDate, computeForFixture | two syncs of one day, the event in a statement of its own | every fixture gets its stars |
| Sessions, codes, users `auth/`, `admin/users-admin.controller.ts`, web `lib/api.ts`, `lib/auth.tsx` | refresh tokens in families, OTPs, `User.status`, a browser's cookie | register, login, rotate, logout, verify, reset, suspend, reactivate | rotation beside revocation, guesses at once, a verification beside a suspension | a revoked session stays dead, attempts are bounded, a suspension ends by an admin |
| Settings `admin/settings-admin.controller.ts`, web `app/admin/settings/page.tsx` | versioned rule and weight sets, a form beside a cached list | create, activate, edit, save | overlapping transactions, stale forms | an active version, no lost numbers |
| Audit log `audit/audit.service.ts` | hash chain | record | unlocked last row, a stop after the mutation | every mutation recorded |
| Leaderboard, live updates `leaderboard/`, `live/`, web `lib/live.ts` | Redis entry, rooms, an open page | read through the cache, remove, publish, refetch | a late reader fills the cache, lost pushes | a page ends up with the standings there are |
| Statistics `stats/stats.service.ts` | a row per player | recompute | overlapping recomputations | the row is that of the settled contests |
| Markets, slips, risk `packages/contracts`, `predictions/slip-validator.ts`, `scoring/engine`, web `components/prediction-builder.tsx` | none, and the builder's choices | pick, submit, validate, score | another market under a selection, boundaries of a market | what the builder sends is what was shown and is accepted; one selection wins |
| Ranking and prizes `settlement/ranking.ts` | none | compareEntries, computePrizes | ties, rounding | a total order; the pool paid out to the last unit |
| Provider adapters, difficulty engine `sports/adapters`, `difficulty/difficulty-engine.ts` | none | toCanonical, form, head-to-head, computeStars | null goals, stoppage time, missing signals | both providers tell the same story |
| Wallet accounts, fraud score, notifications, reports, payment adapters, bootstrap, other screens | rows, queries, wiring | | | left out |

How they interact: every money movement of contests, deposits and withdrawals is
a `LedgerService.post` inside the caller's transaction. `MatchResultFinalized`
goes from results to scoring, `ContestScored` from scoring to settlement and
`PaymentWebhookReceived` from webhooks to withdrawals, all through the outbox.
The lock job goes to a queue of its own, outside any transaction. `fixture.synced`
leads from the sync to the difficulty service, `prizes.distributed` to the
statistics, and both scoring and settlement events make the worker remove the cached
leaderboard and push to the contest's room.

`PROJECT.json` lists each component with its status, and every hazard with its
line and the properties that would catch it.

## 2. Modules

| Module | Models | Builds on |
|---|---|---|
| `Ledger` | what `post` promises: one atomic posting per key | |
| `LedgerTx` | `post` statement by statement in concurrent ReadCommitted transactions | refines `Ledger` |
| `LedgerTxProofs` | theorems about `LedgerTx` and `Ledger` | `DataLemmas` |
| `Prizes` | pool, shares, prizes in minor units (operators) | |
| `Contest` | one contest from draft to settlement, its entries and its escrow | `Ledger` as `Books`, `Prizes` |
| `ContestProofs` | theorems about `Contest` and about the rows of `Tables` | `Contest`, `Tables`, `DataLemmas` |
| `Results` | poller, admin finalization, sync, scoring under the advisory lock | |
| `Withdrawals` | the withdrawals of one user, admins, the gateway and its webhooks | `Ledger` as `Books` |
| `Deposits` | the deposits of one user, the checkout, callback and webhook | `Ledger` as `Books` |
| `Delivery` | what the outbox promises: an event owed is settled, once | |
| `Outbox` | emitted rows, the relays' ticks, the queue's jobs with their attempts | refines `Delivery` |
| `Catalog` | syncs that create fixtures and announce them, and the stars | composes with `Outbox` |
| `Accounts` | one account: registration, codes, sessions, tabs, admins | |
| `Settings` | versions of a rule or weight set, two admins' pages, the audit chain | |
| `ReadModels` | leaderboard cache, live page and statistics of two contests | |
| `Markets`, `Slips` | markets, picks, scorers, rule sets; drafts, the builder, validation, risk (operators) | `Slips` extends `Markets` |
| `Feeds`, `Difficulty` | the two adapters' translations; the difficulty engine (operators) | |
| `Ranking` | the tie-break chain over sets of entries (operators) | |
| `DataLemmas` | lemmas about sums, finite sets, division and rows of a table | |
| `Tables` | inputs of the pure parts as rows, a contest that fills up, a slip that is built; what the operators promise | `Prizes`, `Ranking`, `Slips`, `Difficulty` |
| `WithdrawalsProofs`, `DepositsProofs`, `ResultsProofs` | theorems about the module each is named for | `DataLemmas` |
| `AccountsSettingsProofs` | theorems about `Accounts` and `Settings`, which share no state | `DataLemmas` |
| `WorkerProofs` | theorems about what the worker does beside the money: `Outbox` with `Catalog`, and `ReadModels` | `DataLemmas` |
| `MCTables` | the bounded rows for TLC, the providers' reports, and the versions of `Settings` beside them | `Tables`, `Feeds`, `Settings` |
| other `MC*` | values of the constants for TLC | |

### From code to actions

*Ledger.* `LedgerTx` has one action per statement of `post`: `FindExisting` (:51),
`InsertEntry` (:60, waits for another transaction's uncommitted row with the
same key, then conflicts if that one committed), `UpdateLine` (:78, takes the row lock
and checks the new balance) and `Commit`. `Abort` is anything that rolls back;
`BreakDeadlock` is Postgres ending one transaction of a wait cycle. Which locks
a transaction holds follows from how far it has come. The domain modules use
`Ledger` instead, one step per posting: that is what `ImplementsLedger` licenses.

*Contest.* `PublishCheck`/`PublishCommit`/`ScheduleLock`, `SubmitCheck`/`SubmitCommit`,
`CancelRead`/`CancelCommit` and `DistributeRead`/`DistributeOpen`/`DistributePay` are one
call each, cut where the code leaves or enters a transaction. A scoring job is
`SelectContest`, `ScoreMatch`, `CountPending`, `MarkScored`. Each has a `...Fails`
action for a thrown error or a stopped process. Rows written by id are written
whatever they have become (`CancelCommit`, `CloseContest`), compare-and-set updates
test first (`Lock`, `MarkScored`). The escrow account's existence and the unique
`(contestId, userId)` are guards. A submission carries any of `ClientKeys`: the schema asks
for a uuid and ties it to no user or contest, so a key may have been used by another tab, another
user, or a submission to another contest (`ChargeElsewhere`, a journal entry that moves
nothing of this one). Under a used key `ChargeFee` moves nothing and the entry is made all the same,
`Entry.feeJournalId` not being unique. `Charged`, `Replayed` and `Refunded` read off the journal
and the entries who paid, who entered on a used key, and who was refunded.

*Results.* A poll tick is `PollSelect`, `PollAsk`, then `PollLive` or the same
`FinalizeCheck`/`FinalizeWrite` an admin's request runs. A sync fetches everything
(`SyncFetch`) and then writes row after row what it fetched (`SyncWrite`), never
touching `resultFinalizedAt`. A scoring job reads the row (`JobRead`), takes the
contest's advisory lock (`ScoreLock`), computes the totals (`Recompute`) and
commits. `overwritten` is a history variable.

*Withdrawals.* `call[c]` is the step at which an admin request or a worker is, and on
which withdrawal. Approval is `ApproveRead`, `ApproveCommit`, `InitiatePayout`,
`RecordPayout` and, for an immediate payment, `SettleRead` and `Capture`; a webhook
enters at `SettleRead`. `ReverseHold` serves rejection, refusal, failure and a payment the bank took
back. `transfer` is the bank's side, and `events` what its webhooks left for the worker: one per kind
(success, failed, reversed), since the dedupe key has the event's name. `interrupted` (a call or an event
failed) and `contested` (two admins were deciding it at once) are history variables.

*Deposits.* `InitiateCreate`/`InitiateOpen`, then `SettleRead`, `AskProvider` and
`Credit` or `RecordFailure`, run by callbacks (`Verify`) and webhook requests
(`ReceiveWebhook`, which records the event first). `dropped` is a history variable.

*Outbox and catalog.* A relay's tick is `RelayRead` (the batch of unpublished rows),
then `RelayAdd` and `RelayMark` per row, with `RelayAddFails` and `RelayStops` in between.
A job is `JobStarts`, then the composing module's handler with `JobDone`, or `JobFails`.
`Catalog` has one action per statement of `upsertFixture` (`FindRef`, `Resolve`,
`CreateParent`, `WriteFixture`, `EmitSynced`), because none of them share a
transaction; `unannounced` and `synced` are history variables.

*Accounts.* A request of a tab is a process: `RotateRead`, then `RotateBurn` or
`RotateConsume` and `Issue`; `ConsumeRead`, then `ConsumeMiss`, or `ConsumeUse` and the
write it allows (`VerifyWrite`, `ResetWrite`). `jar` is the cookie all tabs of a browser
share, `access` the tabs with a fresh access token. `changes` counts the times all
sessions were revoked and `overlapped` the families a call that began before such a
change went on to continue after it.

*Settings.* A creation or activation is a two-statement transaction under ReadCommitted:
the first statement finds the active versions (`CreateDeactivate`,
`ActivateDeactivate`), the commit switches (`Switched`). The audit record comes after it, a read
(`RecordRead`) and an insert (`RecordWrite`). On the page, `SeededForm` is what the form
is filled with and `Dirty` when it can be saved.

*ReadModels.* A job of the worker (`tasks`) is at `distribute`, `recompute`, `predictions`, `upsert`,
`push` or `publish`; a failure returns it to the first. The leaderboard's request is
`get` and, on a miss, `set`. `late` and `beside` are history variables.

*Tables.* A row is an input of one of the pure parts. `Choose` is a change a player makes in the
browser to a slip (`MarketsOffered`, `SelectionsOffered`, `SetMarket`, `SetSelection`), `Join` an
entrant more in a contest; the other rows have no step. `MCTables` starts slips from every draft
`DraftRefused` lets through, and adds the matches the two adapters report.

### What is abstracted

* Amounts are small integers; the arithmetic that matters is in `Prizes` and is exact.
* A prediction is right or wrong for a scoreline in `Results`; the scorers are in `Markets`.
* `Rank` in `Contest` is an arbitrary total order of the users: `RankTotal`,
  `RankTransitive` and `RankAsymmetric` prove that the chain of ranking.ts is one, the
  sha256 draw being injective (`Draw`).
* `UNDER_REVIEW` is merged into `REQUESTED`; all operations treat them alike. The
  self-approval check, notifications, audit records and logs have no state here.
* `CountPending` reads its two counts at once. A finalization or a scoring between
  them only makes one count larger than it would have been later or is
  followed by a job of its own.
* `CancelCommit` checks the escrow and commits in one step, since its postings hold
  the escrow row from the first refund on. With no entry to refund the check is a
  plain read; what can commit between it and the update is what can commit after.
* Rule sets and difficulty weight sets are one model: the code is the same twice.
* Expiry of refresh tokens and codes is left out (a request that finds one does nothing),
  access tokens do expire; the migration of tokens from localStorage is left out.
* The standings in `ReadModels` change by scoring and settlement only; new entries push too.
* Risks, stars and weights are exact rationals where the code has floating point.
* `Compute` in `Catalog` always ends with stars. difficulty.service.ts:56-59 returns null without an active
  weight set; the seed activates one and no operation leaves none active (`SomeVersionActive`).
* Wallets and the escrow in `Contest` show this contest's movements only: a fee another contest charges under
  the same key moves no account of the model.
* HTTP, throttling, form caches and the mock provider of the adapters have no state here.
* Fixture creation is in `Catalog` and not in `Results`; postponed matches, `firstToScore` and kickoff
  times are left out of `Results`; `Contest` has one kickoff.

## 3. Runs

| Run | Instance | Shows |
|---|---|---|
| `ledger_tx` | 3 accounts, 5 callers: two fees (one retried) and a refund that cross on wallet and escrow; webhook and verify under one key | `TypeOK`, `NonNegative`, `ImplementsLedger`, `OneJournalPerAnswer`, `EveryCallEnds` |
| `contest_money` | 2 users with 2 tabs each, 2 client keys (symmetric), 2 admins, 2 settlement workers, 1 match, faults | `TypeOK`, `EscrowBacksEntries`, `WalletExact`, `RefundXorPrize`, `SettledOwesNothing` |
| `contest_outcome` | 2 users, 2 client keys, 1 admin, 1 worker, 2 matches, fairness | `ScoredWhenComplete`, `EventuallyResolved` |
| `results` | 2 matches, a poller, an admin, a sync, 2 scoring workers (symmetric) | `TotalsAddUp`, `Converged`, `ScoredIsStable` |
| `withdrawals` | 2 withdrawals of 1 and 2 on funds of 3, 2 admins (symmetric), 1 worker, failures of one withdrawal | `MoneyFollowsBank`, `PendingBacksOpen`, `StatusTellsMoney`, `NoneStranded` |
| `deposits` | 2 intents, a client, 2 webhook requests, faults, fairness | `WalletHoldsPayments`, `SucceededIsCredited`, `PaidIsCredited` |
| `tables` | fees to 13, up to 7 entrants, 4 commissions, 3 templates; 3 entries that tie in every way; all results to 6 goals a side, and 10; all slips of a three-slot contest; matches to 3 goals as both providers report them; forms and weights. Beside them, from one row, the versions of a rule set: 2 admins (symmetric), 2 numbers of 2 values, 3 versions, 1 activation, 1 stop | `PoolFullyDistributed`, `OneSelectionWins`, `SubmittedAsShown`, `OnlyFullSlipsAccepted`, `FeedsAgree`, `StarsFollowSignals`, `OneActive`, `AuditTrail`, `UntouchedUnlessStale` |
| `accounts` | 2 tabs of one browser (symmetric), 1 admin, 2 sessions, 2 codes, 2 admin calls | `RevocationHolds`, `AttemptsBounded`, `LiftedKnowingly` |
| `read_models` | 2 contests of a player, one of them watched, 2 requests, 1 failed attempt, fairness | `CacheFresh`, `StatsConverge`, `BoardCatchesUp` |
| `catalog` | 2 fixtures under one league, 2 syncs, 2 relays, 2 attempts, 1 stop, fairness | `RunsOnce`, `StarsFollow`, `DeliveryKept` |
| `cancel_late` | `Contest` without `Prompt` | violates `CancelEmptiesEscrow` |
| `double_spent` | `withdrawals` without failures | violates `NeverDoubleSpent` |

**Bounds and why they are enough.** Two of each kind of actor is what the hazards
need: two tabs for a double charge, two admins for a double cancellation or
decision, two settlement workers for a double payout, two matches scored at once
for a lost update or a premature SCORED, two withdrawals so that one's hold can pay
for the other. Two ranked users leave the third position of the template unpaid,
which exercises renormalization. The first user's wallet could pay the fee twice
and the second's just once, so both a double charge and an overdraft are possible.
Two client keys give each entrant a fresh one, or the same one to both, or
used ones: whether a used key was another user's, another contest's or a retry makes no difference
to what `post` does. In `contest_outcome`, where amounts do not matter, the winner takes it all.
In `ledger_tx` the wallet covers one fee and not two. Two tabs on one cookie make every
race of one refresh token, and with an attempt limit of one the two of them can pass
the limit together. Two relays and two syncs are the pods that overlap in production.
Three slots of three tiers have every kind of slot: more slots of a tier repeat the
same choices. The difficulty rows have every signal present on both sides, on one, and
on neither. `MaxCalls`, `MaxSyncs`, `MaxFee`, `MaxEntrants`, `MaxGoals`, `MaxSessions`,
`MaxCodes`, `MaxSuspensions`, `MaxSets`, `MaxActivations`, `MaxStops` and `MaxFails` bound
counters, `MaxInterrupted` the withdrawals whose calls and events fail (one of the two, so that the other
must come through); nothing else is bounded. `MaxAttempts` is the code's limit (5), made smaller.
`CHECK_DEADLOCK FALSE` is set where a system may have nothing left to do (every
call made, the contest resolved, nothing pending).

**Assumptions in constants.**

* `Prompt` (Contest): calls that began before kickoff, and the lock job due then, have
  ended before the first result, which comes some two hours later. `contest_money`
  and `contest_outcome` assume it: without it an entry can appear after the contest
  was settled, and be neither scored nor paid. `cancel_late` does without it, and so do
  the theorems, except `RefundOrPrize`, `SettledInFull` and `ScoredComplete`, which name
  it in their statement.
* `ScorelinesAssumption` (Markets): the ten thousand scorelines up to 99-99 are ten thousand
  strings, that is, decimal printing tells numbers apart. TLC computes it; the provers cannot, as
  `ToString` has no definition for them. `OneAlwaysWins` rests on it for the correct-score market.
* `TemplateAssumption` (Contest): the payout template gives position 1 a positive share,
  as the seeded one does. Nothing in the code checks a template, or changes one.
* `Faults` (Contest, Deposits): processes stop, jobs are lost, providers err. On in the runs about money;
  off in `contest_outcome`, because a lost lock job (contests.service.ts:150) does strand
  a contest until an admin locks it. Failures of a call, and retries, are always on.

**Fairness.** A call in progress goes on (weak fairness per call or per transaction):
nothing in the code waits without a time-out but row locks, and those end. Matches
kick off and end. A queued event that is not
lost has its turn, and the job of one is not failed at the same step for ever: strong
fairness for what follows the first read, since the attempt may fail in between. BullMQ gives an event five attempts,
so this is the assumption that five are enough. No client, user or admin
is ever obliged to act, except that `contest_outcome` needs no admin either. In `catalog` a
sync that has begun goes on, some relay ticks (there is one in every process, twice a
second) and the worker takes its jobs: weak fairness, for any one of them and not
for each. In `read_models` the worker takes its jobs, the API answers its requests, Redis
lets entries expire and the open page's interval runs (`refetchInterval`).

## 4. Where the code does not do what it says

With a run:

* `CancelEmptiesEscrow` (`cancel_late`). contests.service.ts:170-171 promises an
  escrow of exactly zero after a cancellation. A submission that passed its checks before
  it commits its fee after it (contests.service.ts:175, entries.service.ts:47).
* `NeverDoubleSpent` (`double_spent`). withdrawals.service.ts:32 says the funds are "never in limbo
  and never double-spendable". approve (:152-167) and reject (:182-188) read the status and write by id
  later, without a lock or a compare-and-set. Two admins who decide one withdrawal both ways at once both
  read REQUESTED; the bank pays and the hold goes back to the wallet. Both postings come out of the
  pending account, so another withdrawal's hold is short afterwards, and what was to settle that one
  is refused (`Overdraft`). `MoneyFollowsBank`, `StatusTellsMoney` and `PendingBacksOpen` say what holds
  all the same: they except the withdrawals so decided (`contested`, `Doubled`) by name, and no other.

Met while modelling, without a run of their own. Where a property has to leave one of
these out, its statement says so:

* The idempotency key of an entry fee is the client's (`entry:${dto.idempotencyKey}`,
  entries.service.ts:92), tied to no user or contest. Under a key used before, by whomever and for
  whichever contest, `post` returns the old journal's id and moves nothing (ledger.service.ts:51-58), and
  the entry is created ACTIVE all the same, as `Entry.feeJournalId` is not unique: an entry that paid nothing.
  entries.service.ts says "charge entry fee into contest escrow". The pool that is settled is what
  the escrow holds (settlement.service.ts:64), so prizes shrink against the shown pool, which
  counts entries (`PoolFullyDistributed` is about as many fees as entries); and a cancellation
  that must refund such an entry finds the escrow short and fails as a whole. `EscrowBacksEntries` and
  `WalletExact` state the fees that were charged (`Charged`), and the rest of the promise for
  contests without such an entry (`Replayed`).
* A `transfer.reversed` can follow a `transfer.success`, its dedupe key being its own
  (webhooks.service.ts:30). Handled first, it returns the hold; handled after the success was
  settled, settle ends at :233 and the withdrawal stays PAID with the platform holding the money the
  bank gave back (the exception `reversed` in `StatusTellsMoney`, and in `MoneyFollowsBank`). Handled
  beside the success, both may post, as with two admins.
* The webhook's dedupe row commits first, so a processing that fails is never repeated
  (webhooks.service.ts:32; the exception `dropped` in `PaidIsCredited`).
* A sync that sees the final whistle first writes FINISHED, and the poller looks at
  SCHEDULED and LIVE rows only (results-poller.ts:9-10). The sync 15 seconds after every
  start comes before the first poll, after two minutes.
* A sync writes over final rows, with data as old as its fetch (the exception
  `overwritten` in `Converged`).
* publish and cancel write the status by id, so a publish that read DRAFT can publish
  a cancelled contest, and a stale cancel can cancel a contest being scored.
* maxEntries is checked before the transaction only; two calls can both take the last place.
* A webhook can settle a withdrawal before the approving call writes PROCESSING, which
  then stays (withdrawals.service.ts:222; the exception in `StatusTellsMoney`).
* A stop around the gateway call leaves a withdrawal APPROVED for good, and a webhook whose processing
  failed leaves it PROCESSING (the exception `interrupted` in `NoneStranded`).
* A FAILED verdict fetched before a second attempt succeeded is written over SUCCEEDED
  (deposits.service.ts:69; the exception in `SucceededIsCredited`). The money is right.
* An intent between its creation and the provider's answer has providerRef `''`, which
  is unique per provider, so other users' deposits are refused meanwhile, or for good if
  the call dies (deposits.service.ts:35).
* lockAt is not recomputed when a sync moves a kickoff (sync.service.ts:57).
* auth.service.ts:127 says a reset "kills every live session". A rotation or a login that
  read before it issues a live session after it (`overlapped` in `RevocationHolds`).
* Two tabs that refresh with the same cookie at once look like a theft: the second finds
  the token consumed and burns the family, the first tab's new session included.
* verifyEmail writes ACTIVE over a suspension made since the request was let in
  (auth.service.ts:101; the second case of `LiftedKnowingly`).
* otp.service.ts:53 reads the attempts and :57 counts them, so guesses made at once pass
  the limit together (`AttemptsBounded` is what remains).
* stats.service.ts:7-9, "always converges to truth": of two overlapping recomputations the
  older reading may be written last, and nothing recomputes it (`beside` in
  `StatsConverge`). schema.prisma describes `monthlyBreakdown` as points, contests and
  winnings; the code stores totals, hits and points.
* outbox.service.ts:9, "ALWAYS call emit with the SAME tx": the sync does not
  (sync.service.ts:81), and a stop in between costs a fixture its stars, since later syncs
  find the row (`unannounced` in `StarsFollow`).
* audit.service.ts, "Every admin/financial mutation must call record": creating, publishing
  and locking a contest are not recorded, a stop between commit and record loses the
  record, and concurrent records fork the chain (`AuditTrail`).
* After a save the settings page fills its form from the list it cached before the save;
  saving again takes the numbers back (`UntouchedUnlessStale`).
* Two activations at once leave two versions active (`OneActive`); a contest is created on
  whichever the query finds first.
* A socket that reconnects does not join its room again (lib/live.ts); the page's
  interval is all that is left then, and what `BoardCatchesUp` rests on.
* `removeOnComplete: 10_000` (outbox.relay.ts) ends the deduplication by job id for events
  that many jobs later.
* risk.ts:8-10 says the server recomputes "the identical value". It does under the launch
  rule set (`SubmittedAsShown`); under another one the builder still weighs by the launch
  defaults, and the stored figure differs.
* football-data.adapter.ts:210, "WITHOUT guessing": a goal without a minute sorts before
  every other (`GoalKey`).

## 5. Proofs

TLAPS proves the following for every value of the constants that satisfies the
named assumption of the module: any number of users, tabs, admins, workers, callers,
matches, versions or withdrawals, any amounts, and faults anywhere. An invariant that a
run checks is seldom inductive, so each module of proofs defines a stronger `IInv`, shows
it of the initial states and of every step, action by action, and takes the theorems from
it.

| Module | Theorems | Stated property of a run |
|---|---|---|
| `LedgerTxProofs` | `TypeCorrect`, `NeverOverdrawn`, `AnswersJournaled`, `Implementation` | `TypeOK`, `NonNegative`, `OneJournalPerAnswer`, `ImplementsLedger` |
| | `BooksReconcile`, `JournalAppendOnly` | |
| `ContestProofs` | `TypeCorrect`, `EscrowAlwaysBacked`, `WalletsExact` | `TypeOK`, `EscrowBacksEntries`, `WalletExact` |
| | `RefundOrPrize`, `SettledInFull`, `ScoredComplete` (under `Prompt`) | `RefundXorPrize`, `SettledOwesNothing`, `ScoredWhenComplete` |
| | `PoolIsPaidOut`, `PoolDivided`, `RankAsymmetric`, `RankTransitive`, `RankTotal` | |
| | `PoolAlwaysDistributed`, `OneAlwaysWins` | `PoolFullyDistributed`, `OneSelectionWins` |
| | `SlipsSubmittedAsShown`, `FullSlipsAccepted` | `SubmittedAsShown`, `OnlyFullSlipsAccepted` |
| | `StarsBetweenSignals` | `StarsFollowSignals` |
| `WithdrawalsProofs` | `HoldsFollowBank`, `OpenIsBacked`, `StatusBacked`, `NothingStranded` | `MoneyFollowsBank`, `PendingBacksOpen`, `StatusTellsMoney`, `NoneStranded` |
| | `SettlementsCovered` | |
| `DepositsProofs` | `WalletIsPaid`, `SucceededBacked` | `WalletHoldsPayments`, `SucceededIsCredited` |
| | `CreditsAreFinal` | |
| `ResultsProofs` | `TotalsAreSums`, `ReplayConverges`, `ScoredNeverRescored` | `TotalsAddUp`, `Converged`, `ScoredIsStable` |
| `AccountsSettingsProofs` | `RevocationIsComplete`, `TriesAreBounded`, `SuspensionLifted` | `RevocationHolds`, `AttemptsBounded`, `LiftedKnowingly` |
| | `SomeVersionActive`, `ChangesAreAudited`, `NothingUntouchedChanges` | `OneActive`, `AuditTrail`, `UntouchedUnlessStale` |
| `WorkerProofs` | `HandlerRunsOnce`, `BoardIsFresh`, `StatsAreTruth` | `RunsOnce`, `CacheFresh`, `StatsConverge` |
| | `CatalogInvariant`, `RunsBounded`, `NoEventLost`, `DeliverySafe`, `StarsAreAccounted` | |

The theorems of a contest's tables are about `TablesSpec`, whose initial rows are all those the code can
have: any fee, commission and template, any set of entries, any result `FinalizeResultRequest` accepts, any
slots `validateSlotConfiguration` accepts, any slip a client sends, any acceptable weights. TLC's
`Spec` starts from some of them.

**Ledger.** Transactions under row locks and a unique index implement the atomic ledger
(`Implementation`), for any lines, unbalanced ones included. `NonNegative` is not inductive: a
line is checked when it is incremented, long before the commit that makes it count. `IInv`
therefore says what a transaction under way has established: its lines are valid
(`RunningValid`), the guarded accounts it has incremented stay covered (`LocksCovered`), no two
transactions have the same row locked (`RowsExclusive`) or the same key uncommitted
(`KeysExclusive`, also: that key is not in the journal). From `LocksCovered` and exclusivity
the commit is a `Post` of the abstract ledger; every other step leaves balance and
journal alone. `BooksReconcile` and `JournalAppendOnly` are proved of the abstract ledger and come
down through the refinement: every entry sums to zero, every balance is the opening balance and
its lines, the total over all accounts never changes, no entry is ever rewritten.

**Contest.** To its properties the invariant adds that what calls have read in the meantime still consists
of entered users (`SeenEntered`, `RankedEntered`), that a refund key is used only for entries
that left play, and for all that did while every entry paid (`RefundsTracked`), and that the ACTIVE entries
account for every fee in escrow without those a settlement of an empty escrow is about to close
(`EscrowCovered`). The last two rule out a second
refund paid by a late entry's fee, and a settlement that closes a paid entry unpaid. A submission is
two cases throughout, a charge and a replay: a replay adds an ACTIVE entry and no money, which the upper bound on the
escrow allows and its exact value does not, hence the condition on `Replayed`. What needs `Prompt` has an invariant on top
(`PromptInv`): which calls can be under way in which phase (`PhaseInv`), that refunds leave nothing
to settle (`RefundEnds`), that prizes and refunds exclude
each other (`PrizesOut`) and that what a settlement read
is still what the escrow holds (`GrossStands`).
`SettledInFull` fails without it, as section 3 says. `PoolIsPaidOut` holds without it: whatever the
entries are when a settlement posts, the users get the pool of the fees charged and not returned, which are
those of all ACTIVE entries if none was made on a used key.

**Prizes and ranking.** `PoolDivided` is about `ComputePrizes` for any pool, template and number of
entrants: each paid position gets the floor of its share of the pool, the floors lose less
than one unit per paid position, and the first position gets just that. The arithmetic is `Floored`,
summed by `SumScaled` and `SumMonotone`. `PoolIsPaidOut` carries it to the ledger: positions are a
bijection with the ranked entries (`PositionsAssigned`), so the sum over users is the sum over
positions (`SumRenamed`). The `Rank...` theorems say that the tie-break chain of ranking.ts orders
any entries with different ids totally, if the draw is injective; under that `Contest` takes
a constant order `Rank`.

`PoolAlwaysDistributed` says the same of the pool the list of contests shows, and that the ranks of any entries
are a bijection with the positions (`RanksAssigned`): each rank is one more than the number of entries before it, so
ranks strictly increase along a total order, and a one-to-one map of a finite set into itself is onto.

**Slips, markets, stars.** `TablesInv` is what a row is. Only slips need more than a type: that whatever a player
changed in what order, each slot has a market of its tier and no pick or one of that market's (`ChoicesFit`).
It is inductive since another market clears the pick (`ChangesFit`) and every offer is a selection of the market
(`SelectionsFit`). From it a submitted slip is full and accepted, and the two risk
figures are one expression (`SlipShown`). That no slip beats the maximum is a sum over slots rearranged by tier
(`SumByGroup`, `ScoreBounded`). `FullSlipsOnly` is the pigeonhole: as many predictions as slots and every slot
among them leave no slot twice. `OneWinner` goes through the markets; `WinnersCounted` adds that two of the three double chances
hold and that a scoreline is one pair of goals. `StarsBetween`: the stars are a weighted average cut
into fifths, and a sum of weighted signals lies between the weights' sum times the extremes.

**Withdrawals.** A call acts on a status it read long ago, so the invariant is about the bank's side,
which only moves on: `Knows` gives, for every step of a call, what it may rely on of its transfer
(a call about to capture works on one that was paid, if perhaps reversed since), `Unsent` that nothing goes to
the bank before an approval, and `AdminsApart` that two calls decide one withdrawal only if it is on record
as `contested`. `OpenIsBacked` is a sum over the open withdrawals, and one over the doubled ones: a first
posting takes a withdrawal out of the open ones, a second on the same hold puts it among the doubled.
`SettlementsCovered` follows: while nothing is doubled, the hold a posting releases is part of the sum, so the overdraft
check cannot refuse it. `WorkIsLeft` names, for every state of the transfer, the call or the event that is
still to resolve the withdrawal, and every step either does that or leaves it there; `NothingStranded` is
its reading for approved withdrawals.

**Deposits.** Only an opened checkout has a charge (`ChargedOpen`), and a call about to
credit has seen it paid (`CreditingPaid`); a charge once paid stays paid, so acting on an old verdict is safe.

**Results.** `LockInv`: the one holder of the advisory lock has summed predictions as they still are.
`JobsCarryResult`: a job carries the goals of a final row, or the row was overwritten on the record.
`PointsFollowRow` and `CompleteInv` say what that means for the points there are and for a contest counted as complete.

**Accounts.** Every request carries what it saw. `Fits` relates that to the account as it is: no
request has seen a revocation that has not happened, one that saw the last one works in a family that is
current, and while the user is suspended every verification under way began before that.
What a step may do to sessions and codes is `Grows` (rows are added, the dead stay dead), and keeps `Fits` for
everybody else. `TriesCovered` counts the wrong guesses read but not yet written, each by a tab of its own.

**Settings.** `CallFits`: a transaction between its two statements that has seen the last commit found
exactly the active versions. `FormFits`: a form is its base version but for what its admin
changed. `ChainInv` counts, for each row of the log, the rows hashed with it and the calls about to write one:
together never more than there are admins. `CountInv` does the same for changes without a row.

**Outbox and catalog.** What relays, syncs and the worker have read is soon old, but what they rely on is
never undone: an emitted row, an added job, a created fixture. `NoneLost` ties the four together (a
batch and a job are of emitted events; a published row, and one about to be marked, has its job),
`RunsCounted` counts a handler's starts against its job's attempts, and `Announced` makes the one sync that created a
fixture the only one to emit its event, so that an event has one row. `RunsOnce` follows: the
queue keeps a done job's id, so adding it again changes nothing. `DeliverySafe` is the refinement of `Delivery` step by step: a
sync's `EmitSynced` is an `Emit`, the end of a job a `Settle`, and everything else stutters.
`StarsAreAccounted` is the state `StarsFollow` leads out of: a fixture without stars is announced, owed, or on record as dropped.

**Read models.** `ReadersCovered`: a request that read before the last change has the change's removal of the cache
still to come, or a removal has passed it, and what it then caches is on record (`late`). `ReadsCurrent`: as
long as no two recomputations ran beside one another (`beside`), one is still to start, or the one that runs
has read every settlement, or the row is that of them all. A failure starts a job over, so neither depends on attempts succeeding.

**Sums and induction.** The folds of the community modules (`SumFunctionOnSet`) are opaque to the
provers. `DataLemmas` unfolds them once (`FoldUnfolds`) by an induction over finite sets in the form of a
least counterexample (`SubsetInduction`: a set of good sets instead of a predicate, from `WFMin`), and
everything else is by cited lemmas: an index taken out or put in, sums of sums, sums scaled, bounded or renamed.

Checked by TLC only, and why:

* Liveness, for which there is no prover here: `EveryCallEnds`, `EventuallyResolved`, `PaidIsCredited`,
  `StarsFollow`, `BoardCatchesUp`, and `DeliveryKept`, whose safety half is `DeliverySafe`.
* That an approved withdrawal is resolved in the end is not stated as liveness: with overlapping admins and reversals
  the state graph is too large for it. `NoneStranded` is the safety form, checked and proved: something that is
  bound to happen (a call goes on, the bank answers, an event is delivered) is always there to resolve it.
* `FeedsAgree`: it is about two translations of one match, between sequences of goals in different orders,
  and the rows it needs (`MCTables`) are a bounded enumeration; its general form would be an induction over them.

Each property has a mutant: a definition `...` changed the way a plausible bug would
change it, kept beside the original under a comment that starts with "Mutant", for which
TLC finds the property violated in the same run.

## 6. Not modelled

* Wallet accounts (find-or-create), bank accounts, the fraud score, notifications,
  reports, health: rows beside the modelled transactions, or queries.
* Payment adapters and the providers' HTTP: the provider is an external process. The
  sports adapters' throttle and caches decide when a call is made, not its outcome.
* The web application but for the session, the prediction builder, the settings page and
  the leaderboard page: forms and lists that keep no state of their own.
* Postponed and abandoned matches, rescheduled kickoffs.

## 7. Plan

Done: ledger, contest, results, withdrawals, deposits, tables, accounts, settings, read
models, outbox and catalog; the proofs of section 5.

Every safety property a run checks is also proved, `FeedsAgree` aside. What could come next:

1. Moved kickoffs and postponed matches in `Contest` and `Results`.
2. The provider adapters' throttle and caches.
