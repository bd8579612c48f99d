---------------------------- MODULE CreditLedger ----------------------------
(***************************************************************************)
(* Reviews, appeals and credit scores as the server keeps them in MySQL:   *)
(* ReviewService.Create, AppealService.Submit and AppealService.Review,    *)
(* statement by statement, run by concurrent requests.                     *)
(*                                                                         *)
(* score, review and appeal are the COMMITTED rows.  What a transaction    *)
(* has written and not yet committed is in its request's call record; its  *)
(* row locks follow from how far the call has come (pc).  A plain SELECT   *)
(* sees committed rows; under REPEATABLE READ all plain SELECTs of one     *)
(* transaction see the same instant, so the two that ReviewService.Create  *)
(* makes are one step.  An INSERT or a SELECT ... FOR UPDATE sees the      *)
(* latest committed row and waits for whoever holds it.                    *)
(***************************************************************************)
EXTENDS Credit, FiniteSets, Functions

CONSTANTS
    User,          \* accounts with a credit score
    Trade,         \* trade orders
    BuyerOf,       \* [Trade -> User]: trade_orders.buyer_id
    SellerOf,      \* [Trade -> User]: trade_orders.seller_id
    Request,       \* HTTP requests the server may be serving at once
    MaxTxRetries,  \* attempts Transaction makes (8 in the code)
    Submitted,     \* the (key, rating) pairs users post; a bound on the inputs
    Seeds          \* [User -> Scores]s the users may stand at to begin with

ASSUME PartiesAssumption ==
    /\ BuyerOf \in [Trade -> User]
    /\ SellerOf \in [Trade -> User]
    /\ \A t \in Trade : BuyerOf[t] # SellerOf[t]

ASSUME TradesAssumption == IsFiniteSet(Trade)

ASSUME SubmittedAssumption == Submitted \subseteq (Trade \X User) \X Ratings

ASSUME RetriesAssumption == MaxTxRetries \in Nat \ {0}

ASSUME SeedsAssumption == Seeds \subseteq [User -> Scores]

\* The unique index uniq_review_trade_reviewer: a review is named by its trade
\* and by which of the two parties wrote it.
Key == {k \in Trade \X User : k[2] \in {BuyerOf[k[1]], SellerOf[k[1]]}}

\* The other party of the trade.
Reviewee == [k \in Key |->
    IF k[2] = SellerOf[k[1]] THEN BuyerOf[k[1]] ELSE SellerOf[k[1]]]

VARIABLES
    trade,     \* [Trade -> status], moved by the order endpoints (TradeOrder)
    score,     \* users.credit_score
    review,    \* reviews: [Key -> [rating, creditDelta]]
    appeal,    \* review_appeals: [Key -> [status, creditReversed, creditDelta]]
    call,      \* the local state of each request
    seed,      \* history: the scores the users started with
    applied,   \* history: [Key -> what posting the review did to the score]
    undone     \* history: [Key -> what approving the appeal did to the score]

tables == <<score, review, appeal>>
history == <<seed, applied, undone>>
vars == <<trade, tables, call, history>>

Book == INSTANCE CreditBook

NoReview == Book!NoReview
NoAppeal == Book!NoAppeal
WithStatus(a, status) == Book!WithStatus(a, status)

TradeStatus == {"open", "completed", "cancelled"}
AppealStatus == {"pending", "approved", "rejected"}
Decisions == {"approve", "reject"}

\* The locals of a request at the beginning of its attempt: what it was asked,
\* and nothing read yet.  want is the credit delta it means to apply and base
\* the score AddCredit read under its lock.
Fresh(pc, k, arg, attempt) ==
    [pc |-> pc, key |-> k, arg |-> arg, want |-> 0, base |-> 0, attempt |-> attempt]

\* A request that has answered, or has not begun.
Idle == Fresh("idle", <<>>, "none", 0)

\* The same call, gone on to pc.
Onward(c, pc, want, base) ==
    [pc |-> pc, key |-> c.key, arg |-> c.arg, want |-> want, base |-> base,
     attempt |-> c.attempt]

ReviewSteps == {"review_read", "review_insert", "review_credit", "review_commit"}
SubmitSteps == {"appeal_insert", "appeal_commit"}
DecideSteps == {"decide_lock", "decide_claim", "decide_credit", "decide_commit"}
Steps == ReviewSteps \cup SubmitSteps \cup DecideSteps

\* Where a call's (re)tried transaction begins.
Begin(pc) ==
    IF pc \in ReviewSteps THEN "review_read"
    ELSE IF pc \in SubmitSteps THEN "appeal_insert" ELSE "decide_lock"

-----------------------------------------------------------------------------
(* Locks, as held by a transaction that has come as far as its pc.          *)

\* The reviewee's score is read with FOR SHARE, and the lock upgraded later.
BugHoldsUser(c, u) ==
    /\ c.pc \in {"review_insert", "review_credit", "review_commit"}
    /\ Reviewee[c.key] = u

\* X lock on the users row: from SELECT ... FOR UPDATE in AddCredit to commit.
HoldsUser(c, u) ==
    /\ c.pc \in {"review_commit", "decide_commit"}
    /\ Reviewee[c.key] = u
    /\ c.pc = "decide_commit" => c.arg = "approve" /\ c.want # 0

\* The uncommitted index entry an INSERT of a review leaves.
HoldsReview(c, k) == c.pc \in {"review_credit", "review_commit"} /\ c.key = k

\* The uncommitted entry of an INSERTed appeal, or the X lock of
\* FindByIDForUpdate on a committed one.
HoldsAppeal(c, k) ==
    /\ c.pc \in {"appeal_commit", "decide_claim", "decide_credit", "decide_commit"}
    /\ c.key = k

Others(r) == Request \ {r}

UserFree(r, u)   == \A q \in Others(r) : ~HoldsUser(call[q], u)
ReviewFree(r, k) == \A q \in Others(r) : ~HoldsReview(call[q], k)
AppealFree(r, k) == \A q \in Others(r) : ~HoldsAppeal(call[q], k)

\* The request answers its client, and its locals are gone.
Return(r) == call' = [call EXCEPT ![r] = Idle]

Go(r, pc, want, base) == call' = [call EXCEPT ![r] = Onward(@, pc, want, base)]

Goto(r, pc) == Go(r, pc, call[r].want, call[r].base)

Start(r, pc, k, arg) ==
    /\ call[r] = Idle
    /\ call' = [call EXCEPT ![r] = Fresh(pc, k, arg, 0)]

-----------------------------------------------------------------------------
Init ==
    /\ trade = [t \in Trade |-> "open"]
    /\ score \in Seeds
    /\ review = [k \in Key |-> NoReview]
    /\ appeal = [k \in Key |-> NoAppeal]
    /\ call = [r \in Request |-> Idle]
    /\ seed = score
    /\ applied = [k \in Key |-> 0]
    /\ undone = [k \in Key |-> 0]

\* TradeOrderService.SellerConfirm and Cancel, as this module sees them.  A
\* Cancel that read the order while it was pending still cancels it after it
\* completed, so both statuses lead to "cancelled".
CompleteTrade(t) ==
    /\ trade[t] = "open"
    /\ trade' = [trade EXCEPT ![t] = "completed"]
    /\ UNCHANGED <<tables, call, history>>

CancelTrade(t) ==
    /\ trade[t] # "cancelled"
    /\ trade' = [trade EXCEPT ![t] = "cancelled"]
    /\ UNCHANGED <<tables, call, history>>

-----------------------------------------------------------------------------
(* ReviewService.Create                                                     *)

\* The order is looked up before the transaction: not completed is a 409, and
\* a caller who is no party (no Key) a 403.
ReviewStart(r, k, rating) ==
    /\ trade[k[1]] = "completed"
    /\ Start(r, "review_read", k, rating)
    /\ UNCHANGED <<trade, tables, history>>

\* The transaction's plain reads: FindByTradeAndReviewer, which answers 409 for
\* a review that is there, then the reviewee's score and the delta it allows.
ReviewRead(r) ==
    LET k == call[r].key IN
    /\ call[r].pc = "review_read"
    /\ \/ review[k] # NoReview /\ Return(r)
       \/ /\ review[k] = NoReview
          /\ Go(r, "review_insert",
                AppliedDelta(score[Reviewee[k]], CreditDelta(call[r].arg)), 0)
    /\ UNCHANGED <<trade, tables, history>>

\* The INSERT does not wait for an uncommitted row of the same key.
BugReviewInsert(r) ==
    /\ call[r].pc = "review_insert"
    /\ review[call[r].key] = NoReview
    /\ Goto(r, "review_credit")
    /\ UNCHANGED <<trade, tables, history>>

\* The INSERT waits for an uncommitted row of the same key, and fails (500) on
\* a committed one.
ReviewInsert(r) ==
    LET k == call[r].key IN
    /\ call[r].pc = "review_insert"
    /\ ReviewFree(r, k)
    /\ \/ review[k] # NoReview /\ Return(r)
       \/ review[k] = NoReview /\ Goto(r, "review_credit")
    /\ UNCHANGED <<trade, tables, history>>

\* AddCredit without SELECT ... FOR UPDATE.
BugReviewCredit(r) ==
    /\ call[r].pc = "review_credit"
    /\ Go(r, "review_commit", call[r].want, score[Reviewee[call[r].key]])
    /\ UNCHANGED <<trade, tables, history>>

\* AddCredit locks the users row, reads the score it will write over, and
\* issues the UPDATE; a medium review passes here too, with a delta of 0.
ReviewCredit(r) ==
    LET u == Reviewee[call[r].key] IN
    /\ call[r].pc = "review_credit"
    /\ UserFree(r, u)
    /\ Go(r, "review_commit", call[r].want, score[u])
    /\ UNCHANGED <<trade, tables, history>>

\* AddCredit is given the nominal delta of the rating.
BugReviewCommit(r) ==
    LET k == call[r].key
        new == ClampCredit(call[r].base + CreditDelta(call[r].arg)) IN
    /\ call[r].pc = "review_commit"
    /\ review' = [review EXCEPT ![k] =
          [rating |-> call[r].arg, creditDelta |-> call[r].want]]
    /\ score' = [score EXCEPT ![Reviewee[k]] = new]
    /\ applied' = [applied EXCEPT ![k] = new - call[r].base]
    /\ Return(r)
    /\ UNCHANGED <<trade, appeal, seed, undone>>

\* The commit makes the review and the new score visible together.  Whether the
\* acknowledgement reaches the server is immaterial: a lost one is an error
\* Transaction does not retry.
ReviewCommit(r) ==
    LET k == call[r].key
        new == ClampCredit(call[r].base + call[r].want) IN
    /\ call[r].pc = "review_commit"
    /\ review' = [review EXCEPT ![k] =
          [rating |-> call[r].arg, creditDelta |-> call[r].want]]
    /\ score' = [score EXCEPT ![Reviewee[k]] = new]
    /\ applied' = [applied EXCEPT ![k] = new - call[r].base]
    /\ Return(r)
    /\ UNCHANGED <<trade, appeal, seed, undone>>

-----------------------------------------------------------------------------
(* AppealService.Submit                                                     *)

\* The review must exist (404) and the caller be its reviewee (403).
SubmitStart(r, k) ==
    /\ review[k] # NoReview
    /\ Start(r, "appeal_insert", k, "none")
    /\ UNCHANGED <<trade, tables, history>>

\* ON CONFLICT DO UPDATE: an appeal that is there is filed anew.
BugSubmitInsert(r) ==
    /\ call[r].pc = "appeal_insert"
    /\ AppealFree(r, call[r].key)
    /\ Goto(r, "appeal_commit")
    /\ UNCHANGED <<trade, tables, history>>

\* CreateIfAbsent: INSERT ... ON CONFLICT DO NOTHING waits for an uncommitted
\* appeal of the review, and answers 409 when one is there.
SubmitInsert(r) ==
    LET k == call[r].key IN
    /\ call[r].pc = "appeal_insert"
    /\ AppealFree(r, k)
    /\ \/ appeal[k] # NoAppeal /\ Return(r)
       \/ appeal[k] = NoAppeal /\ Goto(r, "appeal_commit")
    /\ UNCHANGED <<trade, tables, history>>

SubmitCommit(r) ==
    /\ call[r].pc = "appeal_commit"
    /\ appeal' = [appeal EXCEPT ![call[r].key] = WithStatus(@, "pending")]
    /\ Return(r)
    /\ UNCHANGED <<trade, score, review, history>>

-----------------------------------------------------------------------------
(* AppealService.Review                                                     *)

\* An administrator decides an appeal that exists (404 otherwise).
DecideStart(r, k, action) ==
    /\ appeal[k] # NoAppeal
    /\ Start(r, "decide_lock", k, action)
    /\ UNCHANGED <<trade, tables, history>>

\* FindByIDForUpdate takes the appeal's row lock, then the review is read; its
\* row never changes after it was inserted.
DecideLock(r) ==
    LET k == call[r].key IN
    /\ call[r].pc = "decide_lock"
    /\ AppealFree(r, k)
    /\ Go(r, "decide_claim", -review[k].creditDelta, 0)
    /\ UNCHANGED <<trade, tables, history>>

\* The status flip without its "AND status = 'pending'".
BugDecideClaim(r) ==
    /\ call[r].pc = "decide_claim"
    /\ Goto(r, IF call[r].arg = "approve" /\ call[r].want # 0
               THEN "decide_credit" ELSE "decide_commit")
    /\ UNCHANGED <<trade, tables, history>>

\* DecideIfPending: the compare-and-swap that only a pending appeal passes; the
\* rest answer 409.  An approval goes on to the score unless the review moved
\* nothing.
DecideClaim(r) ==
    LET pending == appeal[call[r].key].status = "pending"
        credit  == call[r].arg = "approve" /\ call[r].want # 0 IN
    /\ call[r].pc = "decide_claim"
    /\ \/ ~pending /\ Return(r)
       \/ pending /\ credit /\ Goto(r, "decide_credit")
       \/ pending /\ ~credit /\ Goto(r, "decide_commit")
    /\ UNCHANGED <<trade, tables, history>>

\* AddCredit of the rollback.
DecideCredit(r) ==
    LET u == Reviewee[call[r].key] IN
    /\ call[r].pc = "decide_credit"
    /\ UserFree(r, u)
    /\ Go(r, "decide_commit", call[r].want, score[u])
    /\ UNCHANGED <<trade, tables, history>>

DecideCommitReject(r) ==
    /\ call[r].pc = "decide_commit"
    /\ call[r].arg = "reject"
    /\ appeal' = [appeal EXCEPT ![call[r].key] = WithStatus(@, "rejected")]
    /\ Return(r)
    /\ UNCHANGED <<trade, score, review, history>>

\* MarkCreditRollback is skipped along with AddCredit when there is nothing to
\* take back.
DecideCommitEmpty(r) ==
    /\ call[r].pc = "decide_commit"
    /\ call[r].arg = "approve"
    /\ call[r].want = 0
    /\ appeal' = [appeal EXCEPT ![call[r].key] = WithStatus(@, "approved")]
    /\ Return(r)
    /\ UNCHANGED <<trade, score, review, history>>

\* The rollback is taken from the nominal delta of the rating.
BugDecideCommitRollback(r) ==
    LET k == call[r].key
        new == ClampCredit(call[r].base - CreditDelta(review[k].rating)) IN
    /\ call[r].pc = "decide_commit"
    /\ call[r].arg = "approve"
    /\ call[r].want # 0
    /\ appeal' = [appeal EXCEPT ![k] = [status |-> "approved",
          creditReversed |-> TRUE, creditDelta |-> call[r].want]]
    /\ score' = [score EXCEPT ![Reviewee[k]] = new]
    /\ undone' = [undone EXCEPT ![k] = @ + new - call[r].base]
    /\ Return(r)
    /\ UNCHANGED <<trade, review, seed, applied>>

\* The commit of an approval: status, rollback mark and score together.
DecideCommitRollback(r) ==
    LET k == call[r].key
        new == ClampCredit(call[r].base + call[r].want) IN
    /\ call[r].pc = "decide_commit"
    /\ call[r].arg = "approve"
    /\ call[r].want # 0
    /\ appeal' = [appeal EXCEPT ![k] = [status |-> "approved",
          creditReversed |-> TRUE, creditDelta |-> call[r].want]]
    /\ score' = [score EXCEPT ![Reviewee[k]] = new]
    /\ undone' = [undone EXCEPT ![k] = @ + new - call[r].base]
    /\ Return(r)
    /\ UNCHANGED <<trade, review, seed, applied>>

-----------------------------------------------------------------------------
(* repository.Transaction                                                   *)

\* The statements that may wait for a lock, and so may end in a deadlock (1213)
\* or a lock-wait timeout (1205).
Waits == {"review_insert", "review_credit", "appeal_insert", "decide_lock", "decide_credit"}

\* A retry loop that forgets to count.
BugLockError(r) ==
    /\ call[r].pc \in Waits
    /\ call' = [call EXCEPT ![r] = Fresh(Begin(@.pc), @.key, @.arg, 0)]
    /\ UNCHANGED <<trade, tables, history>>

\* A lock failure rolls the transaction back; it is begun again until the
\* attempts are spent, and then the request fails.
LockError(r) ==
    LET c == call[r] IN
    /\ c.pc \in Waits
    /\ \/ /\ c.attempt + 1 < MaxTxRetries
          /\ call' = [call EXCEPT ![r] =
                Fresh(Begin(c.pc), c.key, c.arg, c.attempt + 1)]
       \/ c.attempt + 1 >= MaxTxRetries /\ Return(r)
    /\ UNCHANGED <<trade, tables, history>>

\* Any other failure, a cancelled context, a dropped connection or the end of
\* the server process: the database rolls the transaction back.
Fail(r) ==
    /\ call[r].pc \in Steps
    /\ Return(r)
    /\ UNCHANGED <<trade, tables, history>>

-----------------------------------------------------------------------------
\* The request goes on: its statement answers, or its wait ends in an error.
Proceed(r) ==
    \/ ReviewRead(r) \/ ReviewInsert(r) \/ ReviewCredit(r) \/ ReviewCommit(r)
    \/ SubmitInsert(r) \/ SubmitCommit(r)
    \/ DecideLock(r) \/ DecideClaim(r) \/ DecideCredit(r)
    \/ DecideCommitReject(r) \/ DecideCommitEmpty(r) \/ DecideCommitRollback(r)
    \/ LockError(r)

Arrive(r) ==
    \E k \in Key :
        \/ \E rating \in Ratings : <<k, rating>> \in Submitted /\ ReviewStart(r, k, rating)
        \/ SubmitStart(r, k)
        \/ \E action \in Decisions : DecideStart(r, k, action)

Next ==
    \/ \E t \in Trade : CompleteTrade(t) \/ CancelTrade(t)
    \/ \E r \in Request : Arrive(r) \/ Proceed(r) \/ Fail(r)

Spec == Init /\ [][Next]_vars

\* A statement answers or its lock wait times out (innodb_lock_wait_timeout):
\* nothing is assumed about who is granted a contended lock.
FairSpec == Spec /\ \A r \in Request : WF_vars(Proceed(r))

-----------------------------------------------------------------------------
(* What must hold.                                                          *)

Calls == [pc : Steps \cup {"idle"}, key : Key \cup {<<>>},
          arg : Ratings \cup Decisions \cup {"none"},
          want : -10..10, base : Scores, attempt : 0..(MaxTxRetries - 1)]

\* Every column and every request local stays in its domain; in particular no
\* committed score ever leaves 0..300.
TypeOK ==
    /\ trade \in [Trade -> TradeStatus]
    /\ score \in [User -> Scores]
    /\ review \in [Key -> [rating : Ratings \cup {"none"}, creditDelta : -10..5]]
    /\ appeal \in [Key -> [status : AppealStatus \cup {"none"},
                           creditReversed : BOOLEAN, creditDelta : -5..10]]
    /\ call \in [Request -> Calls]
    /\ seed \in [User -> Scores]
    /\ applied \in [Key -> Int]
    /\ undone \in [Key -> Int]

\* A request in the middle of a call has that call's arguments.
WellFormed(c) ==
    /\ c = Idle \/ (c.pc \in Steps /\ c.key \in Key)
    /\ c.pc \in ReviewSteps => c.arg \in Ratings
    /\ c.pc \in DecideSteps => c.arg \in Decisions

CallsWellFormed == \A r \in Request : WellFormed(call[r])

\* No row is locked by two transactions: the row locks and the unique indexes
\* serialize the writers of one score, one review and one appeal.
LocksExclude ==
    \A r \in Request : \A q \in Others(r) :
        /\ \A u \in User : ~(HoldsUser(call[r], u) /\ HoldsUser(call[q], u))
        /\ \A k \in Key : ~(HoldsReview(call[r], k) /\ HoldsReview(call[q], k))
        /\ \A k \in Key : ~(HoldsAppeal(call[r], k) /\ HoldsAppeal(call[q], k))

\* What a transaction found when it took its locks is still so when it commits:
\* the score AddCredit read, the absence of the review or of the appeal, the
\* pending status DecideIfPending matched and the amount to be taken back.
ReadsTrue(c) ==
    /\ \A u \in User : HoldsUser(c, u) => c.base = score[u]
    /\ c.pc \in {"review_insert", "review_credit", "review_commit"} =>
          Within(c.want, CreditDelta(c.arg))
    /\ c.pc \in {"review_credit", "review_commit"} => review[c.key] = NoReview
    /\ c.pc \in SubmitSteps => review[c.key] # NoReview
    /\ c.pc = "appeal_commit" => appeal[c.key] = NoAppeal
    /\ c.pc \in DecideSteps => appeal[c.key] # NoAppeal
    /\ c.pc \in {"decide_claim", "decide_credit", "decide_commit"} =>
          c.want = -review[c.key].creditDelta
    /\ c.pc \in {"decide_credit", "decide_commit"} =>
          appeal[c.key].status = "pending"
    /\ c.pc = "decide_credit" => c.arg = "approve" /\ c.want # 0

ReadsStayTrue == \A r \in Request : ReadsTrue(call[r])

\* The row of an appeal tells its story: there is a review behind it, and
\* exactly an approval of a review that moved the score is marked reversed,
\* with the review's recorded amount, taken back.
AppealRowsSound ==
    \A k \in Key : LET a == appeal[k]  d == review[k].creditDelta IN
        /\ a # NoAppeal => review[k] # NoReview /\ a.status # "none"
        /\ a.creditReversed <=> (a.status = "approved" /\ d # 0)
        /\ a.creditDelta = IF a.creditReversed THEN -d ELSE 0

\* However the reviews of one user interleave, a review never moves the score
\* further than it records, nor the other way, and an appeal never gives back
\* more than it records; without a row there is no effect.
EffectWithinRecorded ==
    \A k \in Key :
        /\ Within(review[k].creditDelta, CreditDelta(review[k].rating))
        /\ Within(applied[k], review[k].creditDelta)
        /\ Within(undone[k], appeal[k].creditDelta)

\* Every point of every score is accounted for by a posted review or an
\* approved appeal: no concurrent AddCredit is lost and none counts twice.
ScoreExplained ==
    \A u \in User :
        LET about == {k \in Key : Reviewee[k] = u} IN
        score[u] = seed[u] + SumFunctionOnSet(applied, about)
                           + SumFunctionOnSet(undone, about)

\* The locks named above never wait in a circle: while some call is under way,
\* some call can go on without waiting.  (InnoDB's gap locks, and the shared lock
\* a duplicate key leaves behind, are not among them; LockError stands for those.)
Blocked(r) ==
    LET c == call[r] IN
    \/ c.pc = "review_insert" /\ ~ReviewFree(r, c.key)
    \/ c.pc \in {"review_credit", "decide_credit"} /\ ~UserFree(r, Reviewee[c.key])
    \/ c.pc \in {"appeal_insert", "decide_lock"} /\ ~AppealFree(r, c.key)

NoLockCycle ==
    (\E r \in Request : call[r] # Idle) =>
        \E r \in Request : call[r] # Idle /\ ~Blocked(r)

\* What is settled stays settled: a posted review and its effect never change,
\* and neither do a decided appeal and what it took back, whatever is retried,
\* repeated or decided again.
KeepsSettled ==
    \A k \in Key :
        /\ review[k] # NoReview =>
              review'[k] = review[k] /\ applied'[k] = applied[k]
        /\ appeal[k].status \in {"approved", "rejected"} =>
              appeal'[k] = appeal[k] /\ undone'[k] = undone[k]

SettledForGood == [][KeepsSettled]_vars

\* The transactions appear to happen at once: the tables move as CreditBook
\* says, and only so.
ImplementsBook == Book!Spec

\* Every call ends, the attempts of a retried one included.
CallsFinish == \A r \in Request : (call[r] # Idle) ~> (call[r] = Idle)

\* model/review.go:13: "CreditDelta is the score change this review ACTUALLY
\* caused".  True as long as no two reviews of one user overlap.
RecordedIsActual == \A k \in Key : applied[k] = review[k].creditDelta

\* review_appeal_repository.go:97: the rollback mark is "the applied rollback
\* amount after a successful credit adjustment".
RollbackIsApplied == \A k \in Key : undone[k] = appeal[k].creditDelta

=============================================================================
