# campus-market: specifications, model checking and proofs

campus-market is a second-hand market for students: a Go server (Gin, GORM,
MySQL 8) and a Vue client. Users post products, order them, confirm the trade
from both sides, review each other, and may appeal a review; reviews move a
credit score between 0 and 300. They also swap books, talk about products and
sign in behind a rate limiter. This directory holds TLA+ modules of the server
and of the parts of the client that keep state, TLC runs over small instances,
and TLAPS proofs for all instances.

Paths below are relative to `src/backend/internal/` unless they start with `src/`.

## 1. The system

| component | state | operations | hard part |
|---|---|---|---|
| Credit arithmetic (`util/credit_calculator.go`) | none | `CreditDelta`, `ClampCredit`, `AppliedDelta` | the bounds |
| Reviews, credit (`service/review_service.go`, `repository/user_repository.go`) | `reviews`, `users.credit_score` | `Create`, `AddCredit` | an unlocked read of a score that is written later under a lock |
| Appeals (`service/appeal_service.go`) | `review_appeals` | `Submit`, `Review` | double submits, double decisions, the rollback at a bound |
| Transactions (`repository/gorm.go`) | none | `Transaction`, `lockForUpdate` | retry after deadlock or lock-wait timeout, at most 8 attempts |
| Trade orders (`service/trade_order_service.go`) | `trade_orders` | `Create`, `BuyerConfirm`, `SellerConfirm`, `Cancel` | check first, write later, mostly outside a transaction |
| Products (`service/product_service.go`) | `products` | `Create`, `Remove` | one product, many orders |
| Book exchange (`service/book_exchange_service.go`) | `book_exchanges` | `Create` (and match), `Close` | two posts match one, posts that miss each other, closing while matching |
| Migration and start-up (`migration/migration.go`, `src/backend/cmd/server/`) | `schema_migrations`, `reviews.credit_delta`, seed rows | `Run`, the backfill, `seed` | a crash between rows, two servers, users who did not start at 100 |
| Accounts (`service/user_service.go`) | `users` | `Register`, `Login`, `UpdateProfile` | the unique phone, a lost profile update |
| Rate limiter (`middleware/rate_limiter.go`) | buckets per client | `allow` | the window boundary |
| Conversations (`service/conversation_service.go`) | `conversations`, `messages` | `Create`, `SendMessage`, `ListMessages` | find-or-create, stamps out of order or equal |
| Message page (`src/frontend/src/hooks/useConversations.ts`) | the open thread and what it shows | `open`, `fetch` | answers out of order |
| Session (`src/frontend/src/stores/authStore.ts`, `utils/request.ts`, `router/guards.ts`) | token and user, in memory and in `localStorage` | sign in and out, 401, reload, guards | two keys, several tabs, late answers |

How they interact: every request is a goroutine of its own that runs a handler,
a service method and repository statements; requests share nothing in memory
but the rate limiter and meet in the database. A review needs a completed
order, an appeal needs a review, a decision moves the score the review moved,
and a new server first replays those reviews. In the browser, tabs share only
`localStorage`, and a tab's state changes by clicks and by answers, which come
in any order or not at all.

**The database.** Production is MySQL 8 / InnoDB at its default isolation,
REPEATABLE READ, and the DSN does not set `clientFoundRows`, so `RowsAffected`
counts rows that were *changed*. A plain `SELECT` reads a snapshot of committed
rows; `INSERT`, `UPDATE` and `SELECT ... FOR UPDATE` act on the latest
committed row and wait for the transaction that holds it. The tests run on
SQLite, where `lockForUpdate` is a no-op, a stale snapshot is refused as
"database is locked" and `RowsAffected` counts rows that were *matched*: the
tests cannot show the interleavings modelled here.

**What must hold** (and, in `PROJECT.json` under `hazards`, where it could
fail): no credit change is lost or made twice; one review per trade and
reviewer, one appeal per review, one decision per appeal; a review's recorded
delta is what it did, and an approval undoes just that; transactions do not
deadlock and retries end; a product is sold once; orders move forward; matched
posts want each other's books; the backfill happens once and as a whole; an
account belongs to one registrant; a buyer has one thread per product, and a
page shows the thread it says it shows; a tab shows the user it acts as.

## 2. Modules

| module | what it is |
|---|---|
| `Credit` | the arithmetic, as operators shared by the others |
| `CreditBook` | abstract: reviews, appeals and decisions each happen at once |
| `CreditLedger` | detailed: the three transactions, statement by statement, run by concurrent requests; implements `CreditBook` |
| `Marketplace` | abstract: an order completes in the instant in which its product is sold |
| `TradeOrder` | orders and products under concurrent requests; implements `Marketplace` |
| `ExchangeBoard` | abstract: a post appears, alone or matched on both sides at once, and is closed |
| `BookExchange` | publishing with its search and updates, and closing, under concurrent requests; implements `ExchangeBoard` |
| `Startup` | servers that start, migrate, seed, serve, crash and restart on one database |
| `RateLimiter` | the fixed window per client |
| `Accounts` | composes `RateLimiter` with registration, login and profile updates |
| `Chat` | conversations and messages on the server, together with the message page |
| `Session` | the tabs of one browser, their storage and their requests in flight |
| `CreditLedgerProofs`, `TradeOrderProofs`, `BookExchangeProofs`, `AccountsProofs`, `SessionProofs`, `StartupProofs`, `ChatProofs` | the theorems about the module each is named after |
| `SumLemmas` | what the proofs share: induction over numbers and finite sets, and sums over a set |
| `MCCreditLedger`, `MCTradeOrder`, `MCBookExchange`, `MCStartup`, `MCAccounts`, `MCChat`, `MCSession` | model values, instances and symmetry for TLC |

Operators named `Bug...` or `Twisted...` stand before the definition they
disfigure: each is a plausible mistake in that piece of code, and `PROJECT.json`
(`mutants`) says which property TLC finds broken when it takes the place of the
definition. The specifications do not use them.

### CreditLedger

`score`, `review` and `appeal` are the *committed* rows (`users.credit_score`,
`reviews`, `review_appeals`); `trade` is the status of an order as the review
handler sees it. `call[r]` holds the locals of request `r`: how far it has come
(`pc`), which review it is about (`key`: trade and reviewer, the unique index),
its argument (rating or decision), the delta it means to apply (`want`), the
score it read under its lock (`base`) and the attempts made. Uncommitted writes
stay in `call` and reach the tables in the commit action, all together. A row
lock is not a variable: who holds it follows from `pc` (`HoldsUser`,
`HoldsReview`, `HoldsAppeal`). `seed`, `applied` and `undone` are history: where
a score began, and what each review and each approval really did to it.

| code | actions |
|---|---|
| `ReviewService.Create` | `ReviewStart` (order check) `ReviewRead` (snapshot: duplicate check, score, delta) `ReviewInsert` (unique index) `ReviewCredit` (`AddCredit`: lock and read) `ReviewCommit` |
| `AppealService.Submit` | `SubmitStart` `SubmitInsert` (`CreateIfAbsent`) `SubmitCommit` |
| `AppealService.Review` | `DecideStart` `DecideLock` (`FindByIDForUpdate`) `DecideClaim` (`DecideIfPending`) `DecideCredit` (`AddCredit`) `DecideCommitReject` / `DecideCommitEmpty` / `DecideCommitRollback` |
| `repository.Transaction` | `LockError` (retry or give up), `Fail` (any other error, a cancelled context, the end of the process: rolled back) |
| `TradeOrderService` | `CompleteTrade`, `CancelTrade` |

A lost commit acknowledgement needs no action of its own: the commit happened
and the request is over, whatever the client was told, and `Transaction` does
not retry that error.

### TradeOrder

`product`, `order` are committed rows; the timestamps are kept as "is it set".
`BuyerConfirm` and `Cancel` are a read and one autocommitted `UPDATE`, so they
are two actions each (`SetRow` is the `UPDATE`); `Create` is a read, a look-up
and an `INSERT`; `SellerConfirm` reads outside its transaction, whose two
`UPDATE`s and commit are three more (`SellerOrder`, `SellerProduct`,
`SellerCommit`). Create's look-up checks only `err == nil`, so a failed query
counts as "no order": that is a branch of `CreateLookup`. `takenDown` and
`unseen` are history. `Marketplace` sees the committed rows without the
confirmations (`Deals`).

### BookExchange

`post` are the committed rows. `Create` is `PublishInsert`, `PublishFind`
(`FindMatch`, in the transaction's snapshot), `PublishMark` (the `UPDATE` of the
older post, which waits for its holder) and `PublishCommit` (both rows at once).
An attempt that is begun again inserts under the id gorm left in the record, so
`post` of a call survives `LockError`; `NextId` is AUTO_INCREMENT. `Close` is a
read and an `UPDATE` by id alone. `seen` and `free` are history: what a
publisher's search could see, and what of it was open. `ExchangeBoard` has the
same rows; it promises a match on both sides, and does not promise that the
older post was still free, because the code does not.

### Startup

`review`, `score`, `version`, `seeded` and `signedUp` are committed rows; what a
server's migration wrote stays in `server[s].wrote` until `Commit`.
`main` is `Boot`, `Check` (the applied versions, outside the transaction),
`ReadLegacy` (the transaction's snapshot), `ReplayRow` per review, `NextUser`,
`Record` (the `INSERT` into `schema_migrations`: it waits for another's, and
fails on it), `Commit`, then `SeedCount`, `SeedUsers`, `SeedProducts`,
`SeedExchanges`, each committed by itself. `LockError` ends the process: the
step is not retried. A serving server takes registrations (`SignUp`) and
reviews (`PostReview`, as one step; `CreditLedger` is about its inside).
`past` and `effect` are history: what earlier releases left, and what each
review truly did. `Owed` is what the step writes by what it reads: it takes every
zero for a legacy row, so that a true zero of a later release (a good review of
a seeded user at 300) is replaced as well.

### Accounts and RateLimiter

`allow` runs under one mutex, so it is one step, `Pass` or `Refuse`; `Counted`
stops one past the limit, beyond which the answer no longer depends on the
count. `RegisterArrives` and `LoginArrives` join a `Pass` to a request;
`RegisterLookup`/`RegisterInsert` are the check and the `INSERT` that the unique
phone decides; `UpdateStart`/`UpdateWrite` are the read of the profile and the
`UPDATE` of all its three fields. A registration gives a nickname and a campus and
stores a blank avatar (`Required`, `Registered`). The profile route has the API limiter in front of
it, which is another instance of `RateLimiter` and not part of the composition.

### Chat

`CreateLookup`/`CreateInsert` find or create a thread. `SendStart` stamps the
message and `SendInsert` commits it, so a later stamp may commit first. `clock`
moves on between two stamps by any amount, or not at all: `created_at` is the
server's time to the millisecond (`DATETIME(3)`, `src/database/init.sql:52`), so
stamps may be equal, and `Listings` has every order of a thread's rows that
`ORDER BY created_at ASC` allows (`conversation_repository.go:60`), of which each
answer gets one. The clock is never set back. `message` holds the rows in the
order of their `INSERT`s, and `since` notes how many there were when a row was
stamped. In the page, `Open` marks a thread active and asks for its messages,
`Serve` is the answer's content, `Show` its arrival, `Lose` a failure; nothing
orders the answers of two clicks. `last` notes what became of the last click
(`Fate`): its answer is awaited, shown, overtaken by an earlier click's, or lost.

### Session

`tab[t]` is a tab's memory and `storage` the two keys. A store action changes
memory at once and storage in two steps (`SaveToken`, `SaveUser`), and a load
reads in two steps, because other tabs are other processes. `Deliver` is the
response interceptor with the continuation of whoever asked: 401 signs out,
login signs in, a profile replaces the user. `late` and `crossed` are history:
a profile that arrived for a session replaced meanwhile, and two tabs between
the two keys at once.

## 3. Properties and runs

| run | instance | what it shows |
|---|---|---|
| `credit_concurrent` (pass) | 2 trades of one seller at 5 points, 2 requests, 2 attempts, ratings good and bad | all safety of the ledger and its refinement |
| `credit_one_trade` (pass) | 1 trade, both sides review, seller at 5 and buyer at 295, 2 requests | `CallsFinish`, and `RecordedIsActual` while no two reviews of one user overlap |
| `credit_overlap` (violation) | 2 trades of one seller at 15, 2 requests | overlapping reviews record what they did not do |
| `credit_rollback` (violation) | 1 request at a time, seller at 5 | a clamped rollback is recorded unclamped |
| `trade_race` (pass) | 1 product, 2 buyers, 2 orders, 3 requests, 2 attempts | the order properties and the refinement of `Marketplace` |
| `trade_cancel` (violation) | 2 requests | `Cancel` cancels an order that is no longer pending |
| `exchange_race` (pass) | 2 titles, 3 posts, 2 requests, 2 attempts, empty and seeded table | the exchange's properties and the refinement of `ExchangeBoard` |
| `startup` (pass) | 2 servers, 2 crashes, 5 databases, 2 reviews posted meanwhile | the backfill and the seed under races and restarts, and that every server comes to serve |
| `backfill_seeded` (violation) | 1 server, a seeded user at 300 | the backfill writes what did not happen |
| `accounts` (pass) | 1 address, 1 phone, 2 passwords, 2 requests, limit 2, window 2, clock to 5 | accounts and the limiter in front of them |
| `session` (pass) | 2 tabs, 2 accounts, 2 requests in flight, 2 tokens | what a tab shows and acts as |
| `chat` (pass) | 2 users, 2 products, 2 requests, 3 messages, 2 times, 2 clicks | threads, and what the page shows of them |

CreditLedger:

- `LocksExclude`, `ReadsStayTrue`: nobody writes over a row another holds, and
  what a transaction relied on is still so when it commits.
- `EffectWithinRecorded`: however reviews overlap, a review moves the score no
  further than it records and in that direction, and likewise an approval. This
  is what is left of "recorded = actual" under concurrency.
- `ScoreExplained`: score = start + posted effects + approved rollbacks: no
  `AddCredit` is lost or counted twice.
- `AppealRowsSound`, `SettledForGood`: an appeal tells its story and a settled
  row never changes, whatever is repeated or retried.
- `NoLockCycle`: the lock orders (index entry, user) and (appeal, user) have no
  cycle. This is about the locks the module names: InnoDB's gap locks, and the
  shared lock a failed INSERT takes on the duplicate entry, can still close a
  cycle, which the transactions see as the deadlock error of `LockError`.
- `ImplementsBook`: the tables move as the atomic specification says.
- `CallsFinish`: each call ends; the attempts are bounded.
- `RecordedIsActual`, `RollbackIsApplied`: what comments in the code promise.
  The first holds when no two reviews of one user overlap; the second fails at a
  bound even then.

TradeOrder: `StatusTellsConfirmations`, `SellerReadsStayTrue`, `EverySaleSells`
(completed orders of a product = times it was sold; it rests on `RowsAffected`
counting changed rows, as its mutant shows), `DuplicatesExplained` (two active
orders of one buyer need racing requests or a failed look-up),
`ImplementsMarketplace` (an order's status moves forward, no late confirmation
revives a cancelled order, completion and sale are one step),
`CancelOnlyPending` (what the comment says; violated).

BookExchange: `PartnersSound` (partners want each other's books, and one of the
two was there and open when the other searched), `MissedOnlyByOverlap` (two open
posts that mirror each other were published at once), `StolenOnlyByOverlap` (a
post loses its partner only to a publication under way when they were matched),
`ImplementsBoard`.

Startup: `BackfillAtomic` (all or nothing, and nobody serves before it),
`ExactForRegistered` (for users who began at 100 it finds the true effects,
also at the bounds), `DeltasSettled` (no recorded delta is rewritten, also not
by a server whose replay comes late), `SeededOnce`, `ServesEventually`,
`BackfillIsActual` (what the comment says; violated for seeded users).

Accounts: `TypeOK` (a registered user has a nickname and a campus; the avatar may
be blank), `LimiterHonest` (in any span of one window's length less than twice
the limit gets in, and nobody is refused who was not let in up to the limit
within the last window), `RegistrantSignsIn`, `ChangesKept` (a lost change needs
overlapping updates).

Chat: `OneThread`; `ShownIsActive` (a page shows another thread's messages than
those of the one it marks only while the last click is being answered, after its
answer was overtaken by an earlier click's, or after it was lost: the first two
are what `useConversations.ts:15` does when answers cross, and the property says
that there is no third way); `ShownStaysInPlace` (a message is read again where
it was shown, unless another one of the thread has the same stamp, or one that
was being sent when it was inserted, stamped earlier, came in after it). The code
allows all of these exceptions, and the run reaches each.

Session: `SessionCoherent` (a tab shows the user whose token it holds),
`AdminPageHonest` (a tab on an administrator's page acts as one), both unless a
profile came late or two tabs touched storage at once; `NeverThrownOut` (a good
session ends without being asked to only by a 401 meant for another).

**Bounds.** Two requests are what a race needs, and with two attempts each a
retry races too; three in `trade_race` add a third party (a removal or a
cancellation) to two confirmations. Two trades of one seller are the least with
two reviews of one score. Scores are multiples of 5 from the default of 100, so
starts at 5, 15 and 295 put both bounds one or two reviews away. `Submitted`
bounds what is posted, `MaxOrders` the orders table, `MaxTxRetries` the
attempts (8 in the code). Three posts are the least with two publications that
steal one partner. The databases of `startup` are an empty one, one whose first
user falls to the floor and stays there for a review (sixteen reviews, all of
them or the first twelve legacy) and one of seeded users, whose reviews are
legacy or already carry a delta, a true zero at the ceiling among them; the
second crash can strike the restart after the first. A clock to 5 covers two windows of 2 and
their boundary. Two clicks let an answer be overtaken or lost; three messages on
two times are the least with two that tie and one that does not, or with one
that comes in above two others. Two tokens
make one session replace another. The proofs need none of these numbers.

Symmetry: requests, tabs, places for requests in flight and titles are alike;
trades with their buyers, and buyers, are alike where the configuration treats
them so; the two runs with liveness (`credit_one_trade`, `startup`) use none.
`CHECK_DEADLOCK` is off: within the bounds all that can be posted may be done,
and then nothing is left to do. Lock waits are `NoLockCycle`'s business.

**Fairness.** `CreditLedger!FairSpec` assumes `WF(Proceed(r))` for each request:
a statement gets an answer, or its lock wait ends in the error InnoDB raises
after `innodb_lock_wait_timeout`. `Startup!FairSpec` assumes that for a server's
steps (`WF(Step(s))`), and `WF(Boot(s))`: `src/docker-compose.yml` restarts the
container "unless-stopped". Nothing is assumed about who gets a contended lock,
about arrivals, about crashes (they are bounded in number, as no server comes
to serve that always crashes), or about failures.

**Findings** (`PROJECT.json`, `findings`):
1. `service/review_service.go:60`: the delta is computed from an unlocked read;
   overlapping reviews near a bound record a delta that did not take effect.
2. `service/appeal_service.go:191`: the rollback recorded is not the one applied
   when `AddCredit` clamps.
3. `service/trade_order_service.go:131`: `Cancel`'s `UPDATE` has no condition on
   the status, so a confirmed or completed order can end cancelled.
4. `migration/migration.go:104`: the backfill replays every user from 100, but
   seeded users start elsewhere; it then writes deltas that never happened.

## 4. Proofs

Eight modules hold theorems, each for any number of requests, users, trades,
products, posts, titles and attempts that the named assumptions of its module
allow. All have the same shape: one inductive invariant `IInv`, a lemma per
action or per group of actions that it survives, and theorems that follow.
Every safety property of a passing run is a theorem.

**SumLemmas**: sums over a finite set (`SumFunctionOnSet` of the community
modules, which is defined by recursion over the set): that they exist, do not
depend on the order, change by what one element changes by, and add up over
disjoint sets. The library's induction theorems take a predicate; here the
induction is over a *set* of numbers or of subsets (`NumberInduction`,
`FiniteInduction`, from the library's well-founded order on the naturals), which
says the same and is within the provers' reach.

**CreditLedgerProofs**: `TypeOK`, `LocksExclude`, `ReadsStayTrue`,
`AppealRowsSound`, `EffectWithinRecorded`, `NoLockCycle`, `SettledForGood`,
`ScoreExplained`, `RecordedIsActual` under a condition, and that `CreditLedger`
implements `CreditBook`. Assumed: buyer and seller of a trade are different
users, trades are finitely many, what is submitted is well formed, at least one
attempt is made, seeds are scores.

    IInv = TypeOK /\ CallsWellFormed /\ LocksExclude /\ ReadsStayTrue
           /\ AppealRowsSound /\ EffectWithinRecorded

None of these is inductive alone. A commit writes `base + want`, so its effect
is bounded only if `base` is still the score (`ReadsStayTrue`); that stays so
only because no other transaction can commit to the same user meanwhile
(`LocksExclude`); and an approval's amount is the review's only because the
review was there before and never changes. Steps that only move a call share one
lemma (`CallStep`: it is enough that the new locals are well formed, true, and
conflict with nobody's locks); the four committing steps have a lemma each.
`NoLockCycle` follows from `IInv` by cases on who holds the user's lock, and the
refinement maps each commit to one action of `CreditBook` and every other step
to a stutter. `ScoreExplained` adds one thing to `IInv`: a commit moves a score by
just what it writes to `applied` or `undone` for one review of that user.

`RecordedIsActual` is false in general (`credit_overlap`). Two theorems say when
it holds. `ApartRecordsAreActual` assumes of the behaviour that between a
review's plain read of a score and its commit no other call writes that score
(`Apart`): then the recorded delta is the real one, whatever else happens, so
the overlap in the finding is the only way to a wrong record.
`SingleRecordsAreActual` assumes of the instance that nobody is reviewed twice,
as in `credit_one_trade`, and follows without `Apart`: repeated requests for one
review meet at the unique index.

**TradeOrderProofs**: `TypeOK`, `StatusTellsConfirmations`, `EverySaleSells`,
`DuplicatesExplained`, `SellerReadsStayTrue`, and that `TradeOrder` implements
`Marketplace`. Assumed: finitely many requests, at least one attempt.

    IInv = types, CallsPointToRows, OrdersPointToProducts, LocksExclude,
           StatusTellsConfirmations, the seller's reads

`SellerCommit` writes over rows it matched two steps earlier: `LocksExclude`
says no one else can be between those steps on the same row, so what it matched
is still there. Given that, a sale adds one order to `Sales(p)` and finds `p`
unsold, which with the library's facts on cardinality is `EverySaleSells`.
`DuplicatesExplained` counts: a request about to insert is one that found
nothing, and its INSERT turns one waiting request into one active order.

**BookExchangeProofs**: `TypeOK`, `PartnersSound`, `MissedOnlyByOverlap`,
`StolenOnlyByOverlap`, and that `BookExchange` implements `ExchangeBoard`.
Assumed: at least one attempt, and a table that starts empty or with open posts.

    IInv = types, CallsSound, IdsApart, SearchesSound, RowsSound
           and the three properties

`IdsApart` (no two publications under one id, nor under a committed one) is what
makes a commit add a row and not overwrite one; `SearchesSound` ties `seen` and
`free` to rows that are still published; `CallsSound` says a found partner still
mirrors the post, because titles never change.

**AccountsProofs**: `TypeOK`, `RegistrantSignsIn`, `ChangesKept`,
`LimiterHonest`. Assumed: the limit is an integer and a window longer than
nothing, forms and bodies are well formed, and no name that is given is blank.
`TypeOK` asks for a nickname and a campus only: `Register` stores no avatar. The
invariant adds that an update that is not `stale` still holds the row's current profile, and that
history speaks of accounts that exist.

`LimiterHonest` has an invariant of its own (`ClientSound`): the window a bucket
is for lets in as many as the bucket counts, up to the limit; and the span of a
window's length *before* it fewer than the limit. The second part is what makes
two windows back to back stay below twice the limit: a new window opens after
the whole of the old one and one instant more, so its first request is outside
any span that reaches it from later. A span that holds the present request lies
within those two, and what it holds is a sum that `SumLemmas` splits in two.

**SessionProofs**: `TypeOK`, `SessionCoherent`, `AdminPageHonest`,
`NeverThrownOut`. Assumed: tokens and accounts are told from `None`. The invariant
adds `CallsSound` (a request that was sent with a good token was sent with one
that the server issued) and `SessionSound`: while no profile came late and no two
tabs crossed, at most one tab is between its two storage accesses, and the key
that it has already read or written is as it left it. The second half is what
makes the tab coherent once it has touched the other key.

**StartupProofs**: `TypeOK`, `SeededOnce`, `DeltasSettled`, `BackfillAtomic`,
`ExactForRegistered`. Assumed: the past is a sequence of ratings of known users
with scores to start from, and ratings are posted. For the seed, only one server can be past the INSERT
of the users, and it alone adds the rest. For the backfill, `MigrationsSound`: no
two transactions hold one review, a row that one has written and not committed
is held and its committed value is still zero, and only one is past the INSERT
of the version, which is then unrecorded. So a commit replaces zeros only.

`Backfilled` says what a replay under way has in hand: its score is what a replay
of the rows as they were before any delta arrives at before the row it stands
at, and what it has written is what those rows ask for. It needs the committed
rows to be as the past left them until the version is there, and that needs
`MigrationsSound`. At the commit the rows it wrote become `Owed`. That a partly
filled-in history gives the same replay as a bare one is why the servers may
race and crash; `ExactForRegistered` follows, because a user who started at the
baseline has the replay's score at each of his reviews. The length of a past is
not bounded: `Standing` is a recursive function, and what it yields for rows with
equal users and ratings is shown equal by `NumberInduction`.

**ChatProofs**: `TypeOK`, `OneThread`, `ShownIsActive`, `ShownStaysInPlace`. The
unique index keeps rows apart and rows never change, so an answer stays true and
a second one can only name the same row. For the page, the invariant numbers the
clicks: an answer in flight numbered as the last click is about the active
thread (`AskSound`), and `last` tells what is shown and what is in flight
(`LastSound`): a click that is asked about has its request there, and a page
whose last click was shown shows the active thread. For the order, a message is
stamped no earlier than those that were there when it was (`Posted`): so those
stamped before a row that come in after it were being sent when it was inserted.
What a page was served are all the messages of the thread up to some moment, in
an order of their stamps (`ServedOf`). A row that no other ties with has in any
such list as many rows above it as were stamped before it (`PlaceOf`, by counting
both), and these are the same ones then and now. Nothing is assumed about ties.

Only model-checked: `CallsFinish` and `ServesEventually`, which are liveness
under fairness and out of the prover's reach, and the violated properties of the
four findings, which are false.

## 5. Not modelled

- Handlers, routes, DTOs, configuration, logging, signatures of tokens and
  `RequireRole`: each works on its own request and keeps no state. The handlers'
  and services' participant checks appear as the choice of inputs. Texts, prices
  and images. Reads that change nothing (`ListMy`, `GetProfile`, ...).
- The SQLite dialect. Two servers on one database behave like one with more
  requests, except for the rate limiter, which each keeps for itself.
- Phantom and gap locks: they can only add waits and deadlock errors, and
  `LockError` may strike at any statement that waits.
- The growth of the limiter's map (`middleware/rate_limiter.go:37`): no code
  ever removes a bucket, so there is nothing to check but the absence.
- In `Startup`: legacy reviews with approved appeals in the replayed history
  (the code replays reviews only), `SEEDING_ENABLED=false`, and an old release
  that still writes reviews beside a new one.
- In the client: the stores and hooks that hold the last list fetched, the
  pages' layout and forms. The message page's own send button hands the click
  event to `send` (`src/frontend/src/pages/Messages.vue`), which the server
  refuses, so messages come from other clients of the API. A message's sender,
  text and `read` flag, on which nothing in `Chat` depends.
- A server clock that is set back: `Chat` stamps with a clock that only moves on.
- A crash between the `INSERT`s of the seed leaves it half done for good
  (`src/backend/cmd/server/seed.go:14`): `Startup` reaches that and `SeededOnce`
  allows it, so no property covers it.
- `service/book_exchange_service.go:73` calls `Close` a step for open exchanges,
  and the code also closes matched ones: `CloseStart` does what the code does.

## 6. Plan

1. Done: `Credit`, `CreditBook`, `CreditLedger`, `TradeOrder`, `Marketplace`,
   `BookExchange`, `ExchangeBoard`, `Accounts` with `RateLimiter`, `Startup`,
   `Chat` and `Session`, and proofs of all their safety properties.
2. `Market`: `TradeOrder` composed with `CreditLedger`, so that a review's order
   is the order the handlers move.
3. What liveness rests on, as safety: that each call's remaining steps and
   attempts only go down, so that fairness alone is left to TLC.
