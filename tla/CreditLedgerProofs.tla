------------------------- MODULE CreditLedgerProofs -------------------------
(***************************************************************************)
(* Proofs about CreditLedger for any users, trades, requests and retries.  *)
(* The inductive invariant is the safety invariants taken together with    *)
(* the shape of a call: a commit is right because what its transaction     *)
(* read under its locks is still true (ReadsStayTrue), and that survives   *)
(* the other transactions because no lock is held twice (LocksExclude).    *)
(***************************************************************************)
EXTENDS CreditLedger, SumLemmas, TLAPS

IInv ==
    /\ TypeOK
    /\ CallsWellFormed
    /\ LocksExclude
    /\ ReadsStayTrue
    /\ AppealRowsSound
    /\ EffectWithinRecorded

-----------------------------------------------------------------------------
(* The arithmetic of credit_calculator.go.                                  *)

\* Whatever is added to it, a clamped score is a score.
LEMMA ClampIsScore ==
  ASSUME NEW s, s \in Int
  PROVE  ClampCredit(s) \in Scores
BY DEF ClampCredit, Scores, MaxCredit

\* The clamp only ever shortens a change: it never reverses nor extends it.
LEMMA ClampShortens ==
  ASSUME NEW s, s \in Scores, NEW d, d \in Int
  PROVE  /\ ClampCredit(s + d) - s \in Int
         /\ Within(ClampCredit(s + d) - s, d)
BY DEF ClampCredit, Scores, MaxCredit, Within

LEMMA NominalDeltas ==
  ASSUME NEW rating
  PROVE  CreditDelta(rating) \in {-10, 0, 5}
BY DEF CreditDelta

\* What AppliedDelta promises is within the nominal effect of the rating.
LEMMA AppliedWithinNominal ==
  ASSUME NEW s \in Scores, NEW rating
  PROVE  /\ AppliedDelta(s, CreditDelta(rating)) \in -10..5
         /\ Within(AppliedDelta(s, CreditDelta(rating)), CreditDelta(rating))
BY NominalDeltas DEF AppliedDelta, ClampCredit, Scores, MaxCredit, Within

LEMMA WithinNominal ==
  ASSUME NEW d, d \in Int, NEW rating, Within(d, CreditDelta(rating))
  PROVE  d \in -10..5
BY NominalDeltas DEF Within

\* Every review is about a user.
LEMMA RevieweeType == Reviewee \in [Key -> User]
BY PartiesAssumption DEF Reviewee, Key

LEMMA IdleFacts ==
  /\ Idle \in Calls
  /\ Idle.pc = "idle"
  /\ WellFormed(Idle)
BY RetriesAssumption DEF Idle, Fresh, Calls, WellFormed, Scores, MaxCredit, Steps,
   ReviewSteps, SubmitSteps, DecideSteps

\* A request that is not in a call holds nothing and has read nothing.
LEMMA IdleHoldsNothing ==
  /\ \A u : ~HoldsUser(Idle, u)
  /\ \A k : ~HoldsReview(Idle, k)
  /\ \A k : ~HoldsAppeal(Idle, k)
  /\ ReadsTrue(Idle) /\ ReadsTrue(Idle)'
BY IdleFacts DEF HoldsUser, HoldsReview, HoldsAppeal, ReadsTrue, SubmitSteps, DecideSteps

-----------------------------------------------------------------------------
(* Steps that touch no table.                                               *)

\* A request may go on to any call whose locks are free and whose reads are
\* true: nothing else of the invariant depends on it.
LEMMA CallStep ==
  ASSUME IInv, UNCHANGED <<trade, tables, history>>,
         NEW r \in Request, NEW c \in Calls,
         call' = [call EXCEPT ![r] = c],
         WellFormed(c), ReadsTrue(c),
         \A u \in User : HoldsUser(c, u) => UserFree(r, u),
         \A k \in Key : HoldsReview(c, k) => ReviewFree(r, k),
         \A k \in Key : HoldsAppeal(c, k) => AppealFree(r, k)
  PROVE  IInv'
<1>1. call \in [Request -> Calls]
  BY DEF IInv, TypeOK
<1>2. call'[r] = c /\ \A q \in Others(r) : call'[q] = call[q]
  BY <1>1 DEF Others
<1>3. TypeOK'
  BY <1>1 DEF IInv, TypeOK, tables, history
<1>4. CallsWellFormed'
  BY <1>2 DEF IInv, CallsWellFormed, Others
<1>5. LocksExclude'
  BY <1>2 DEF IInv, LocksExclude, Others, UserFree, ReviewFree, AppealFree
<1>6. ReadsStayTrue'
  BY <1>2 DEF IInv, ReadsStayTrue, ReadsTrue, Others, tables
<1>7. AppealRowsSound' /\ EffectWithinRecorded'
  BY DEF IInv, AppealRowsSound, EffectWithinRecorded, tables, history
<1> QED
  BY <1>3, <1>4, <1>5, <1>6, <1>7 DEF IInv

\* Answering the client, early or late, is always such a step.
LEMMA ReturnStep ==
  ASSUME IInv, UNCHANGED <<trade, tables, history>>, NEW r \in Request, Return(r)
  PROVE  IInv'
BY IdleFacts, IdleHoldsNothing, CallStep DEF Return

\* The facts every step below starts from.
LEMMA CallFacts ==
  ASSUME IInv, NEW r \in Request
  PROVE  /\ call[r] \in Calls
         /\ WellFormed(call[r])
         /\ ReadsTrue(call[r])
         /\ call[r].pc # "idle" => call[r].key \in Key /\ Reviewee[call[r].key] \in User
         /\ score \in [User -> Scores]
BY RevieweeType, IdleFacts
   DEF IInv, TypeOK, CallsWellFormed, ReadsStayTrue, WellFormed

LEMMA StartStep ==
  ASSUME IInv, UNCHANGED <<trade, tables, history>>,
         NEW r \in Request, NEW k \in Key, NEW pc, NEW arg, Start(r, pc, k, arg),
         \/ pc = "review_read" /\ arg \in Ratings
         \/ pc = "appeal_insert" /\ arg = "none" /\ review[k] # NoReview
         \/ pc = "decide_lock" /\ arg \in Decisions /\ appeal[k] # NoAppeal
  PROVE  IInv'
<1> DEFINE c == Fresh(pc, k, arg, 0)
<1>1. c \in Calls /\ c.pc = pc /\ c.key = k /\ c.arg = arg
  BY RetriesAssumption DEF Calls, Fresh, Steps, ReviewSteps, SubmitSteps, DecideSteps,
     Scores, MaxCredit
<1>2. WellFormed(c)
  BY <1>1 DEF WellFormed, Steps, ReviewSteps, SubmitSteps, DecideSteps
<1>3. ReadsTrue(c)
  BY <1>1 DEF ReadsTrue, HoldsUser, SubmitSteps, DecideSteps
<1>4. /\ \A u \in User : ~HoldsUser(c, u)
      /\ \A h \in Key : ~HoldsReview(c, h) /\ ~HoldsAppeal(c, h)
  BY <1>1 DEF HoldsUser, HoldsReview, HoldsAppeal
<1>5. call' = [call EXCEPT ![r] = c]
  BY DEF Start
<1> QED
  BY ONLY IInv, UNCHANGED <<trade, tables, history>>, r \in Request,
     <1>1, <1>2, <1>3, <1>4, <1>5, CallStep

\* A review's call that goes on keeps its domains.
LEMMA OnwardReview ==
  ASSUME NEW c \in Calls, WellFormed(c), c.pc \in ReviewSteps,
         NEW pc \in ReviewSteps, NEW want \in -10..10, NEW base \in Scores
  PROVE  Onward(c, pc, want, base) \in Calls /\ WellFormed(Onward(c, pc, want, base))
<1>1. PICK o : o = Onward(c, pc, want, base)
  OBVIOUS
<1>2. c.key \in Key /\ c.arg \in Ratings
  BY DEF WellFormed, Idle, Fresh, ReviewSteps
<1>3. o.pc = pc /\ o.key = c.key /\ o.arg = c.arg
  BY <1>1 DEF Onward
<1>4. o \in Calls
  BY <1>1 DEF Onward, Calls, Steps
<1>5. pc \in Steps /\ pc \notin DecideSteps
  BY DEF Steps, ReviewSteps, DecideSteps
<1>6. WellFormed(o)
  BY <1>2, <1>3, <1>5 DEF WellFormed
<1> QED
  BY <1>1, <1>4, <1>6

LEMMA ReviewReadStep ==
  ASSUME IInv, NEW r \in Request, ReviewRead(r)
  PROVE  IInv'
<1> DEFINE k == call[r].key
           d == AppliedDelta(score[Reviewee[k]], CreditDelta(call[r].arg))
           c == Onward(call[r], "review_insert", d, 0)
<1>1. UNCHANGED <<trade, tables, history>> /\ call[r].pc = "review_read"
  BY DEF ReviewRead
<1>2. CASE Return(r)
  BY <1>1, <1>2, ReturnStep
<1>3. CASE call' = [call EXCEPT ![r] = c]
  <2>1. d \in -10..5 /\ Within(d, CreditDelta(call[r].arg))
    BY <1>1, CallFacts, AppliedWithinNominal
  <2>2. c \in Calls /\ WellFormed(c) /\ c.pc = "review_insert" /\ c.arg = call[r].arg
        /\ c.want = d
    <3>1. d \in -10..10 /\ 0 \in Scores
      BY <2>1 DEF Scores, MaxCredit
    <3>2. call[r].pc \in ReviewSteps /\ "review_insert" \in ReviewSteps
      BY <1>1 DEF ReviewSteps
    <3> HIDE DEF d
    <3>3. c \in Calls /\ WellFormed(c)
      BY <3>1, <3>2, CallFacts, OnwardReview
    <3> QED
      BY <3>3 DEF Onward
  <2>3. ReadsTrue(c)
    BY <2>1, <2>2 DEF ReadsTrue, HoldsUser, SubmitSteps, DecideSteps
  <2>4. /\ \A u \in User : ~HoldsUser(c, u)
        /\ \A h \in Key : ~HoldsReview(c, h) /\ ~HoldsAppeal(c, h)
    BY <2>2 DEF HoldsUser, HoldsReview, HoldsAppeal
  <2> QED
    BY ONLY IInv, r \in Request, <1>1, <1>3, <2>2, <2>3, <2>4, CallStep
<1> QED
  BY <1>2, <1>3 DEF ReviewRead, Go

LEMMA ReviewInsertStep ==
  ASSUME IInv, NEW r \in Request, ReviewInsert(r)
  PROVE  IInv'
<1> DEFINE c == Onward(call[r], "review_credit", call[r].want, call[r].base)
<1>1. UNCHANGED <<trade, tables, history>> /\ call[r].pc = "review_insert"
  BY DEF ReviewInsert
<1>2. CASE Return(r)
  BY <1>1, <1>2, ReturnStep
<1>3. CASE review[call[r].key] = NoReview /\ call' = [call EXCEPT ![r] = c]
  <2>1. c \in Calls /\ WellFormed(c) /\ c.pc = "review_credit" /\ c.arg = call[r].arg
        /\ c.want = call[r].want /\ c.key = call[r].key
    BY <1>1, CallFacts DEF Onward, Calls, WellFormed, Idle, Fresh, Steps, ReviewSteps, SubmitSteps, DecideSteps
  <2>2. ReadsTrue(c)
    BY <1>1, <1>3, <2>1, CallFacts DEF ReadsTrue, HoldsUser, SubmitSteps, DecideSteps
  <2>3. /\ \A u \in User : ~HoldsUser(c, u)
        /\ \A h \in Key : HoldsReview(c, h) => ReviewFree(r, h)
        /\ \A h \in Key : ~HoldsAppeal(c, h)
    BY <2>1 DEF HoldsUser, HoldsReview, HoldsAppeal, ReviewInsert
  <2> QED
    BY ONLY IInv, r \in Request, <1>1, <1>3, <2>1, <2>2, <2>3, CallStep
<1> QED
  BY <1>2, <1>3 DEF ReviewInsert, Goto, Go

LEMMA ReviewCreditStep ==
  ASSUME IInv, NEW r \in Request, ReviewCredit(r)
  PROVE  IInv'
<1> DEFINE u == Reviewee[call[r].key]
           c == Onward(call[r], "review_commit", call[r].want, score[u])
<1>1. /\ UNCHANGED <<trade, tables, history>>
      /\ call[r].pc = "review_credit"
      /\ UserFree(r, u)
      /\ call' = [call EXCEPT ![r] = c]
  BY DEF ReviewCredit, Go
<1>2. /\ c \in Calls /\ WellFormed(c)
      /\ c.pc = "review_commit" /\ c.arg = call[r].arg /\ c.want = call[r].want
      /\ c.key = call[r].key /\ c.base = score[u]
  BY <1>1, CallFacts DEF Onward, Calls, WellFormed, Idle, Fresh, Steps, ReviewSteps, SubmitSteps, DecideSteps
<1>3. ReadsTrue(c)
  <2>1. \A v \in User : HoldsUser(c, v) => c.base = score[v]
    BY <1>2 DEF HoldsUser
  <2>2. Within(c.want, CreditDelta(c.arg))
    BY <1>1, <1>2, CallFacts DEF ReadsTrue
  <2>3. review[c.key] = NoReview
    BY <1>1, <1>2, CallFacts DEF ReadsTrue
  <2> QED
    BY <1>2, <2>1, <2>2, <2>3 DEF ReadsTrue, SubmitSteps, DecideSteps
<1>4. HoldsReview(call[r], call[r].key)
  BY <1>1 DEF HoldsReview
<1>5. ReviewFree(r, call[r].key)
  BY <1>1, <1>4, CallFacts DEF IInv, LocksExclude, ReviewFree, Others
<1>6. /\ \A v \in User : HoldsUser(c, v) => UserFree(r, v)
      /\ \A h \in Key : HoldsReview(c, h) => ReviewFree(r, h)
      /\ \A h \in Key : ~HoldsAppeal(c, h)
  BY <1>1, <1>2, <1>5 DEF HoldsUser, HoldsReview, HoldsAppeal
<1> QED
  BY ONLY IInv, r \in Request, <1>1, <1>2, <1>3, <1>6, CallStep

LEMMA SubmitInsertStep ==
  ASSUME IInv, NEW r \in Request, SubmitInsert(r)
  PROVE  IInv'
<1> DEFINE c == Onward(call[r], "appeal_commit", call[r].want, call[r].base)
<1>1. UNCHANGED <<trade, tables, history>> /\ call[r].pc = "appeal_insert"
  BY DEF SubmitInsert
<1>2. CASE Return(r)
  BY <1>1, <1>2, ReturnStep
<1>3. CASE appeal[call[r].key] = NoAppeal /\ call' = [call EXCEPT ![r] = c]
  <2>1. c \in Calls /\ WellFormed(c) /\ c.pc = "appeal_commit" /\ c.key = call[r].key
    BY <1>1, CallFacts DEF Onward, Calls, WellFormed, Idle, Fresh, Steps, ReviewSteps, SubmitSteps, DecideSteps
  <2>2. ReadsTrue(c)
    BY <1>1, <1>3, <2>1, CallFacts DEF ReadsTrue, HoldsUser, SubmitSteps, DecideSteps
  <2>3. /\ \A u \in User : ~HoldsUser(c, u)
        /\ \A h \in Key : ~HoldsReview(c, h)
        /\ \A h \in Key : HoldsAppeal(c, h) => AppealFree(r, h)
    BY <2>1 DEF HoldsUser, HoldsReview, HoldsAppeal, SubmitInsert
  <2> QED
    BY ONLY IInv, r \in Request, <1>1, <1>3, <2>1, <2>2, <2>3, CallStep
<1> QED
  BY <1>2, <1>3 DEF SubmitInsert, Goto, Go

LEMMA DecideLockStep ==
  ASSUME IInv, NEW r \in Request, DecideLock(r)
  PROVE  IInv'
<1> DEFINE k == call[r].key
           c == Onward(call[r], "decide_claim", -review[k].creditDelta, 0)
<1>1. /\ UNCHANGED <<trade, tables, history>>
      /\ call[r].pc = "decide_lock"
      /\ AppealFree(r, k)
      /\ call' = [call EXCEPT ![r] = c]
  BY DEF DecideLock, Go
<1>2. -review[k].creditDelta \in -10..10
  BY <1>1, CallFacts DEF IInv, TypeOK
<1>3. /\ c \in Calls /\ WellFormed(c)
      /\ c.pc = "decide_claim" /\ c.key = k /\ c.want = -review[k].creditDelta
  BY <1>1, <1>2, CallFacts DEF Onward, Calls, WellFormed, Idle, Fresh, Steps, ReviewSteps, SubmitSteps, DecideSteps, Scores, MaxCredit
<1>4. ReadsTrue(c)
  BY <1>1, <1>3, CallFacts DEF ReadsTrue, HoldsUser, SubmitSteps, DecideSteps
<1>5. /\ \A u \in User : ~HoldsUser(c, u)
      /\ \A h \in Key : ~HoldsReview(c, h)
      /\ \A h \in Key : HoldsAppeal(c, h) => AppealFree(r, h)
  BY <1>1, <1>3 DEF HoldsUser, HoldsReview, HoldsAppeal
<1> QED
  BY ONLY IInv, r \in Request, <1>1, <1>3, <1>4, <1>5, CallStep

\* A call that holds its appeal keeps it from the others.
LEMMA AppealHeld ==
  ASSUME IInv, NEW r \in Request, call[r].pc \in {"decide_claim", "decide_credit", "decide_commit"}
  PROVE  AppealFree(r, call[r].key)
<1>1. HoldsAppeal(call[r], call[r].key) /\ call[r].key \in Key
  BY CallFacts DEF HoldsAppeal
<1> QED
  BY <1>1 DEF IInv, LocksExclude, AppealFree, Others

LEMMA DecideClaimStep ==
  ASSUME IInv, NEW r \in Request, DecideClaim(r)
  PROVE  IInv'
<1> DEFINE C(pc) == Onward(call[r], pc, call[r].want, call[r].base)
<1>1. UNCHANGED <<trade, tables, history>> /\ call[r].pc = "decide_claim"
  BY DEF DecideClaim
<1>2. CASE Return(r)
  BY <1>1, <1>2, ReturnStep
<1>3. ASSUME NEW pc \in {"decide_credit", "decide_commit"},
             appeal[call[r].key].status = "pending",
             (call[r].arg = "approve" /\ call[r].want # 0) <=> pc = "decide_credit",
             call' = [call EXCEPT ![r] = C(pc)]
      PROVE  IInv'
  <2>1. /\ C(pc) \in Calls /\ WellFormed(C(pc))
        /\ C(pc).pc = pc /\ C(pc).key = call[r].key /\ C(pc).arg = call[r].arg
        /\ C(pc).want = call[r].want
    BY <1>1, CallFacts DEF Onward, Calls, WellFormed, Idle, Fresh, Steps, ReviewSteps, SubmitSteps, DecideSteps
  <2>2. \A u \in User : ~HoldsUser(C(pc), u)
    BY <1>3, <2>1 DEF HoldsUser
  <2>3. ReadsTrue(C(pc))
    BY <1>1, <1>3, <2>1, <2>2, CallFacts DEF ReadsTrue, SubmitSteps, DecideSteps
  <2>4. /\ \A h \in Key : ~HoldsReview(C(pc), h)
        /\ \A h \in Key : HoldsAppeal(C(pc), h) => AppealFree(r, h)
    BY <1>1, <2>1, AppealHeld DEF HoldsReview, HoldsAppeal
  <2> QED
    BY ONLY IInv, r \in Request, <1>1, <1>3, <2>1, <2>2, <2>3, <2>4, CallStep
<1> QED
  BY <1>2, <1>3 DEF DecideClaim, Goto, Go

LEMMA DecideCreditStep ==
  ASSUME IInv, NEW r \in Request, DecideCredit(r)
  PROVE  IInv'
<1> DEFINE u == Reviewee[call[r].key]
           c == Onward(call[r], "decide_commit", call[r].want, score[u])
<1>1. /\ UNCHANGED <<trade, tables, history>>
      /\ call[r].pc = "decide_credit"
      /\ UserFree(r, u)
      /\ call' = [call EXCEPT ![r] = c]
  BY DEF DecideCredit, Go
<1>2. /\ c \in Calls /\ WellFormed(c)
      /\ c.pc = "decide_commit" /\ c.arg = call[r].arg /\ c.want = call[r].want
      /\ c.key = call[r].key /\ c.base = score[u]
  BY <1>1, CallFacts DEF Onward, Calls, WellFormed, Idle, Fresh, Steps, ReviewSteps, SubmitSteps, DecideSteps
<1>3. ReadsTrue(c)
  BY <1>1, <1>2, CallFacts DEF ReadsTrue, HoldsUser, SubmitSteps, DecideSteps
<1>4. /\ \A v \in User : HoldsUser(c, v) => UserFree(r, v)
      /\ \A h \in Key : ~HoldsReview(c, h)
      /\ \A h \in Key : HoldsAppeal(c, h) => AppealFree(r, h)
  BY <1>1, <1>2, AppealHeld DEF HoldsUser, HoldsReview, HoldsAppeal
<1> QED
  BY ONLY IInv, r \in Request, <1>1, <1>2, <1>3, <1>4, CallStep

LEMMA LockErrorStep ==
  ASSUME IInv, NEW r \in Request, LockError(r)
  PROVE  IInv'
<1> DEFINE c == Fresh(Begin(call[r].pc), call[r].key, call[r].arg, call[r].attempt + 1)
<1>1. UNCHANGED <<trade, tables, history>> /\ call[r].pc \in Waits
  BY DEF LockError
<1>2. CASE Return(r)
  BY <1>1, <1>2, ReturnStep
<1>3. CASE call[r].attempt + 1 < MaxTxRetries /\ call' = [call EXCEPT ![r] = c]
  <2>1. /\ c \in Calls
        /\ c.pc = Begin(call[r].pc) /\ c.key = call[r].key /\ c.arg = call[r].arg
    BY <1>1, <1>3, CallFacts, RetriesAssumption
       DEF Fresh, Begin, Waits, Calls, Steps, ReviewSteps, SubmitSteps, DecideSteps,
           Scores, MaxCredit
  <2>2. WellFormed(c)
    BY <1>1, <2>1, CallFacts DEF Begin, Waits, WellFormed, Idle, Fresh, Steps,
       ReviewSteps, SubmitSteps, DecideSteps
  <2>3. c.pc \in {"review_read", "appeal_insert", "decide_lock"}
    BY <2>1 DEF Begin
  <2>4. ReadsTrue(c)
    BY <1>1, <2>1, <2>3, CallFacts DEF Begin, Waits, ReadsTrue, HoldsUser, ReviewSteps,
       SubmitSteps, DecideSteps
  <2>5. /\ \A u \in User : ~HoldsUser(c, u)
        /\ \A h \in Key : ~HoldsReview(c, h) /\ ~HoldsAppeal(c, h)
    BY <2>3 DEF HoldsUser, HoldsReview, HoldsAppeal
  <2> QED
    BY ONLY IInv, r \in Request, <1>1, <1>3, <2>1, <2>2, <2>4, <2>5, CallStep
<1> QED
  BY <1>2, <1>3 DEF LockError

-----------------------------------------------------------------------------
(* Commits.                                                                 *)

\* The committing request drops its locks; no other call changes.
LEMMA Committed ==
  ASSUME IInv, NEW r \in Request, Return(r)
  PROVE  /\ call' \in [Request -> Calls]
         /\ call'[r] = Idle
         /\ \A q \in Others(r) : call'[q] = call[q]
         /\ CallsWellFormed'
         /\ LocksExclude'
<1>1. call \in [Request -> Calls] /\ Idle \in Calls
  BY IdleFacts DEF IInv, TypeOK
<1>2. call'[r] = Idle /\ \A q \in Others(r) : call'[q] = call[q]
  BY <1>1 DEF Return, Others
<1>3. CallsWellFormed'
  BY <1>2, IdleFacts DEF IInv, CallsWellFormed, Others
<1>4. LocksExclude'
  BY <1>2, IdleHoldsNothing DEF IInv, LocksExclude, Others
<1> QED
  BY <1>1, <1>2, <1>3, <1>4 DEF Return

LEMMA ReviewCommitStep ==
  ASSUME IInv, NEW r \in Request, ReviewCommit(r)
  PROVE  IInv'
<1> DEFINE c == call[r]
           k == call[r].key
           u == Reviewee[k]
           new == ClampCredit(c.base + c.want)
           row == [rating |-> c.arg, creditDelta |-> c.want]
<1>1. /\ c.pc = "review_commit" /\ Return(r)
      /\ review' = [review EXCEPT ![k] = row]
      /\ score' = [score EXCEPT ![u] = new]
      /\ applied' = [applied EXCEPT ![k] = new - c.base]
      /\ UNCHANGED <<trade, appeal, seed, undone>>
  BY DEF ReviewCommit
<1>2. /\ c \in Calls /\ k \in Key /\ u \in User /\ c.arg \in Ratings
      /\ review[k] = NoReview
      /\ Within(c.want, CreditDelta(c.arg))
  BY <1>1, CallFacts DEF ReadsTrue, WellFormed, ReviewSteps
<1>3. c.base \in Scores /\ c.want \in Int /\ c.want \in -10..5
  <2>1. c.base \in Scores /\ c.want \in Int
    BY <1>2 DEF Calls
  <2> QED
    BY <1>2, <2>1, WithinNominal, Zenon
<1>4. new \in Scores /\ new - c.base \in Int /\ Within(new - c.base, c.want)
  <2>1. c.base + c.want \in Int
    BY <1>3 DEF Scores, MaxCredit
  <2> QED
    BY <1>3, <2>1, ClampIsScore, ClampShortens, Zenon
<1>5. appeal[k] = NoAppeal
  BY <1>2 DEF IInv, AppealRowsSound
<1>6. row # NoReview /\ row.rating = c.arg /\ row.creditDelta = c.want
  BY <1>2 DEF NoReview, Book!NoReview, Ratings
<1>7. TypeOK'
  BY <1>1, <1>2, <1>3, <1>4, Committed DEF IInv, TypeOK
<1>8. ReadsStayTrue'
  <2> SUFFICES ASSUME NEW q \in Others(r)
               PROVE  ReadsTrue(call[q])'
    BY <1>1, Committed, IdleHoldsNothing DEF ReadsStayTrue, Others
  <2>1. q \in Request /\ q # r /\ call'[q] = call[q]
    BY <1>1, Committed DEF Others
  <2>2. \A v \in User : HoldsUser(call[q], v) => v # u
    <3>1. HoldsUser(c, u)
      BY <1>1 DEF HoldsUser
    <3> QED
      BY <2>1, <3>1, <1>2 DEF IInv, LocksExclude, Others
  <2>3. HoldsReview(call[q], call[q].key) => call[q].key # k
    BY <1>1, <1>2, <2>1 DEF HoldsReview, IInv, LocksExclude, Others
  <2>4. \A v \in User : HoldsUser(call'[q], v) => call'[q].base = score'[v]
    BY <1>1, <2>1, <2>2, CallFacts DEF ReadsTrue
  <2>5. call[q].pc \in DecideSteps => call[q].key # k
    BY <1>5, <2>1, CallFacts DEF ReadsTrue
  <2>6. call[q].pc # "idle" => call[q].key \in Key
    BY <2>1, CallFacts
  <2>7. review \in [Key -> [rating : Ratings \cup {"none"}, creditDelta : -10..5]]
    BY DEF IInv, TypeOK
  <2> QED
    BY <1>1, <1>6, <2>1, <2>3, <2>4, <2>5, <2>6, <2>7, CallFacts
       DEF ReadsTrue, HoldsReview, SubmitSteps, DecideSteps
<1>9. AppealRowsSound'
  <2>1. review \in [Key -> [rating : Ratings \cup {"none"}, creditDelta : -10..5]]
    BY DEF IInv, TypeOK
  <2> QED
    BY <1>1, <1>2, <1>5, <1>6, <2>1
       DEF IInv, AppealRowsSound, NoAppeal, Book!NoAppeal
<1>10. EffectWithinRecorded'
  <2>1. /\ review \in [Key -> [rating : Ratings \cup {"none"}, creditDelta : -10..5]]
        /\ applied \in [Key -> Int]
    BY DEF IInv, TypeOK
  <2> QED
    BY <1>1, <1>2, <1>4, <1>6, <2>1 DEF IInv, EffectWithinRecorded
<1> QED
  BY <1>1, <1>7, <1>8, <1>9, <1>10, Committed DEF IInv

LEMMA SubmitCommitStep ==
  ASSUME IInv, NEW r \in Request, SubmitCommit(r)
  PROVE  IInv'
<1> DEFINE c == call[r]
           k == call[r].key
           row == WithStatus(appeal[k], "pending")
<1>1. /\ c.pc = "appeal_commit" /\ Return(r)
      /\ appeal' = [appeal EXCEPT ![k] = row]
      /\ UNCHANGED <<trade, score, review, history>>
  BY DEF SubmitCommit
<1>2. /\ k \in Key
      /\ review[k] # NoReview
      /\ appeal[k] = NoAppeal
  BY <1>1, CallFacts DEF ReadsTrue, SubmitSteps
<1>3. /\ row = [status |-> "pending", creditReversed |-> FALSE, creditDelta |-> 0]
      /\ row # NoAppeal
  BY <1>2 DEF NoAppeal, Book!NoAppeal, WithStatus, Book!WithStatus
<1>4. appeal \in [Key -> [status : AppealStatus \cup {"none"},
                          creditReversed : BOOLEAN, creditDelta : -5..10]]
  BY DEF IInv, TypeOK
<1>5. TypeOK'
  <2>1. row \in [status : AppealStatus \cup {"none"},
                  creditReversed : BOOLEAN, creditDelta : -5..10]
    BY <1>2, <1>4 DEF AppealStatus, WithStatus, Book!WithStatus
  <2>2. appeal' \in [Key -> [status : AppealStatus \cup {"none"},
                             creditReversed : BOOLEAN, creditDelta : -5..10]]
    <3> HIDE DEF row
    <3> QED
      BY <1>1, <1>2, <1>4, <2>1
  <2> QED
    BY <1>1, <2>2, Committed DEF IInv, TypeOK, history
<1>6. ReadsStayTrue'
  <2> SUFFICES ASSUME NEW q \in Others(r)
               PROVE  ReadsTrue(call[q])'
    BY <1>1, Committed, IdleHoldsNothing DEF ReadsStayTrue, Others
  <2>1. q \in Request /\ q # r /\ call'[q] = call[q]
    BY <1>1, Committed DEF Others
  <2>2. HoldsAppeal(call[q], call[q].key) => call[q].key # k
    BY <1>1, <1>2, <2>1 DEF HoldsAppeal, IInv, LocksExclude, Others
  <2>3. call[q].pc # "idle" => call[q].key \in Key
    BY <2>1, CallFacts
  <2> QED
    BY <1>1, <1>3, <1>4, <2>1, <2>2, <2>3, CallFacts
       DEF ReadsTrue, HoldsUser, HoldsAppeal, SubmitSteps, DecideSteps
<1>7. AppealRowsSound'
  BY <1>1, <1>2, <1>3, <1>4 DEF IInv, AppealRowsSound
<1>8. EffectWithinRecorded'
  BY <1>1, <1>2, <1>3, <1>4
     DEF IInv, EffectWithinRecorded, history, NoAppeal, Book!NoAppeal
<1> QED
  BY <1>1, <1>5, <1>6, <1>7, <1>8, Committed DEF IInv

\* A decided appeal is nobody else's business: only its holder was past the
\* claim, so the reads of the others do not depend on its status.
LEMMA DecidedUnseen ==
  ASSUME IInv, NEW r \in Request, call[r].pc = "decide_commit", Return(r),
         NEW row, row.status # "none",
         appeal' = [appeal EXCEPT ![call[r].key] = row],
         review' = review,
         \A q \in Others(r) : \A v \in User :
            HoldsUser(call[q], v) => call[q].base = score'[v]
  PROVE  ReadsStayTrue'
<1> DEFINE k == call[r].key
<1>1. /\ k \in Key
      /\ appeal \in [Key -> [status : AppealStatus \cup {"none"},
                             creditReversed : BOOLEAN, creditDelta : -5..10]]
  BY CallFacts DEF IInv, TypeOK
<1>2. row # NoAppeal
  BY DEF NoAppeal, Book!NoAppeal
<1>3. appeal[k] # NoAppeal
  BY CallFacts DEF ReadsTrue, DecideSteps
<1> SUFFICES ASSUME NEW q \in Others(r)
             PROVE  ReadsTrue(call[q])'
  BY Committed, IdleHoldsNothing DEF ReadsStayTrue, Others
<1>4. q \in Request /\ q # r /\ call'[q] = call[q]
  BY Committed DEF Others
<1>5. HoldsAppeal(call[q], call[q].key) => call[q].key # k
  BY <1>1, <1>4 DEF HoldsAppeal, IInv, LocksExclude, Others
<1>6. call[q].pc # "idle" => call[q].key \in Key
  BY <1>4, CallFacts
<1>7. \A v \in User : HoldsUser(call'[q], v) => call'[q].base = score'[v]
  BY <1>4
<1> QED
  BY <1>1, <1>2, <1>3, <1>4, <1>5, <1>6, <1>7, CallFacts
     DEF ReadsTrue, HoldsAppeal, SubmitSteps, DecideSteps

\* The decisions that leave the score alone.
LEMMA DecideCommitPlainStep ==
  ASSUME IInv, NEW r \in Request, DecideCommitReject(r) \/ DecideCommitEmpty(r)
  PROVE  IInv'
<1> DEFINE k == call[r].key
<1>1. /\ call[r].pc = "decide_commit" /\ Return(r)
      /\ UNCHANGED <<trade, score, review, history>>
  BY DEF DecideCommitReject, DecideCommitEmpty
<1>2. /\ k \in Key
      /\ review[k] # NoReview
      /\ appeal[k].status = "pending"
      /\ call[r].want = -review[k].creditDelta
  BY <1>1, CallFacts DEF ReadsTrue, DecideSteps, IInv, AppealRowsSound
<1>3. /\ appeal \in [Key -> [status : AppealStatus \cup {"none"},
                             creditReversed : BOOLEAN, creditDelta : -5..10]]
      /\ review \in [Key -> [rating : Ratings \cup {"none"}, creditDelta : -10..5]]
      /\ ~appeal[k].creditReversed /\ appeal[k].creditDelta = 0
  BY <1>2 DEF IInv, TypeOK, AppealRowsSound
<1>4. PICK status \in {"approved", "rejected"} :
         /\ appeal' = [appeal EXCEPT ![k] = WithStatus(@, status)]
         /\ status = "approved" => review[k].creditDelta = 0
  BY <1>2, <1>3 DEF DecideCommitReject, DecideCommitEmpty
<1> DEFINE row == WithStatus(appeal[k], status)
<1>5. /\ row \in [status : AppealStatus \cup {"none"},
                  creditReversed : BOOLEAN, creditDelta : -5..10]
      /\ row.status = status /\ row.creditReversed = FALSE /\ row.creditDelta = 0
      /\ appeal' = [appeal EXCEPT ![k] = row]
  BY <1>2, <1>3, <1>4 DEF AppealStatus, WithStatus, Book!WithStatus
<1>6. TypeOK'
  <2>1. appeal' \in [Key -> [status : AppealStatus \cup {"none"},
                             creditReversed : BOOLEAN, creditDelta : -5..10]]
    BY <1>2, <1>3, <1>5
  <2> QED
    BY <1>1, <2>1, Committed DEF IInv, TypeOK, history
<1>7. ReadsStayTrue'
  <2>1. \A q \in Others(r) : \A v \in User :
           HoldsUser(call[q], v) => call[q].base = score'[v]
    BY <1>1, CallFacts DEF ReadsTrue, Others
  <2>2. review' = review /\ row.status # "none"
    BY <1>1, <1>5
  <2> HIDE DEF row
  <2> QED
    BY <1>1, <1>5, <2>1, <2>2, DecidedUnseen
<1>8. AppealRowsSound'
  BY <1>1, <1>2, <1>3, <1>4, <1>5 DEF IInv, AppealRowsSound
<1>9. EffectWithinRecorded'
  BY <1>1, <1>2, <1>3, <1>5 DEF IInv, EffectWithinRecorded, history
<1> QED
  BY <1>1, <1>6, <1>7, <1>8, <1>9, Committed DEF IInv

\* The decision that takes the recorded amount back.
LEMMA DecideCommitRollbackStep ==
  ASSUME IInv, NEW r \in Request, DecideCommitRollback(r)
  PROVE  IInv'
<1> DEFINE c == call[r]
           k == call[r].key
           u == Reviewee[k]
           new == ClampCredit(c.base + c.want)
           row == [status |-> "approved", creditReversed |-> TRUE, creditDelta |-> c.want]
<1>1. /\ c.pc = "decide_commit" /\ c.arg = "approve" /\ c.want # 0 /\ Return(r)
      /\ appeal' = [appeal EXCEPT ![k] = row]
      /\ score' = [score EXCEPT ![u] = new]
      /\ undone' = [undone EXCEPT ![k] = @ + new - c.base]
      /\ UNCHANGED <<trade, review, seed, applied>>
  BY DEF DecideCommitRollback
<1>2. /\ c \in Calls /\ k \in Key /\ u \in User
      /\ review[k] # NoReview
      /\ appeal[k].status = "pending"
      /\ c.want = -review[k].creditDelta
  BY <1>1, CallFacts DEF ReadsTrue, DecideSteps, IInv, AppealRowsSound
<1>3. /\ appeal \in [Key -> [status : AppealStatus \cup {"none"},
                             creditReversed : BOOLEAN, creditDelta : -5..10]]
      /\ review \in [Key -> [rating : Ratings \cup {"none"}, creditDelta : -10..5]]
      /\ undone \in [Key -> Int]
      /\ score \in [User -> Scores]
  BY DEF IInv, TypeOK
<1>4. c.base \in Scores /\ c.want \in Int /\ c.want \in -5..10
  <2>1. c.base \in Scores /\ c.want \in Int
    BY <1>2 DEF Calls
  <2>2. review[k].creditDelta \in -10..5
    BY <1>2, <1>3
  <2> QED
    BY <1>2, <2>1, <2>2
<1>5. new \in Scores /\ new - c.base \in Int /\ Within(new - c.base, c.want)
  <2>1. c.base + c.want \in Int
    BY <1>4 DEF Scores, MaxCredit
  <2> QED
    BY <1>4, <2>1, ClampIsScore, ClampShortens, Zenon
<1>6. undone[k] = 0
  BY <1>2, <1>3 DEF IInv, AppealRowsSound, EffectWithinRecorded, Within
<1>7. undone' = [undone EXCEPT ![k] = new - c.base]
  <2>1. undone[k] + new - c.base = new - c.base
    BY <1>4, <1>5, <1>6 DEF Scores, MaxCredit
  <2> QED
    BY <1>1, <2>1
<1>8. TypeOK'
  <2>1. row \in [status : AppealStatus \cup {"none"},
                  creditReversed : BOOLEAN, creditDelta : -5..10]
    BY <1>4 DEF AppealStatus
  <2>2. appeal' \in [Key -> [status : AppealStatus \cup {"none"},
                             creditReversed : BOOLEAN, creditDelta : -5..10]]
    BY <1>1, <1>2, <1>3, <2>1
  <2>3. score' \in [User -> Scores] /\ undone' \in [Key -> Int]
    BY <1>1, <1>2, <1>3, <1>5, <1>7
  <2> QED
    BY <1>1, <2>2, <2>3, Committed DEF IInv, TypeOK
<1>9. ReadsStayTrue'
  <2>1. ASSUME NEW q \in Others(r), NEW v \in User, HoldsUser(call[q], v)
        PROVE  call[q].base = score'[v]
    <3>1. q \in Request /\ q # r
      BY DEF Others
    <3>2. HoldsUser(c, u)
      BY <1>1 DEF HoldsUser
    <3>3. v # u
      BY <2>1, <3>1, <3>2, <1>2 DEF IInv, LocksExclude, Others
    <3>4. call[q].base = score[v]
      BY <2>1, <3>1, CallFacts DEF ReadsTrue
    <3> QED
      BY <1>1, <1>3, <3>3, <3>4
  <2>2. review' = review /\ row.status # "none"
    BY <1>1
  <2> HIDE DEF row
  <2> QED
    BY <1>1, <2>1, <2>2, DecidedUnseen
<1>10. AppealRowsSound'
  <2>1. /\ appeal'[k] = row
        /\ \A h \in Key : h # k => appeal'[h] = appeal[h]
        /\ review' = review
    BY <1>1, <1>2, <1>3
  <2>2. review[k].creditDelta # 0 /\ c.want = -review[k].creditDelta
    BY <1>1, <1>2, <1>3
  <2>3. row.status = "approved" /\ row.creditReversed /\ row.creditDelta = c.want
    OBVIOUS
  <2> HIDE DEF row
  <2> QED
    BY <1>2, <2>1, <2>2, <2>3 DEF IInv, AppealRowsSound
<1>11. EffectWithinRecorded'
  BY <1>1, <1>2, <1>3, <1>5, <1>7 DEF IInv, EffectWithinRecorded
<1> QED
  BY <1>1, <1>8, <1>9, <1>10, <1>11, Committed DEF IInv

-----------------------------------------------------------------------------
(* The invariant.                                                           *)

LEMMA InitInv == Init => IInv
<1> SUFFICES ASSUME Init PROVE IInv
  OBVIOUS
<1>1. /\ \A r \in Request : call[r] = Idle
      /\ \A k \in Key : review[k] = NoReview /\ appeal[k] = NoAppeal
                        /\ applied[k] = 0 /\ undone[k] = 0
  BY DEF Init
<1>2. TypeOK
  BY IdleFacts, SeedsAssumption
     DEF Init, TypeOK, TradeStatus, NoReview, NoAppeal, Book!NoReview, Book!NoAppeal
<1>3. CallsWellFormed /\ LocksExclude /\ ReadsStayTrue
  BY <1>1, IdleFacts, IdleHoldsNothing DEF CallsWellFormed, LocksExclude, ReadsStayTrue, Others
<1>4. AppealRowsSound
  BY <1>1 DEF AppealRowsSound, NoReview, NoAppeal, Book!NoReview, Book!NoAppeal
<1>5. EffectWithinRecorded
  BY <1>1 DEF EffectWithinRecorded, Within, CreditDelta, NoReview, NoAppeal,
     Book!NoReview, Book!NoAppeal
<1> QED
  BY <1>2, <1>3, <1>4, <1>5 DEF IInv

\* Orders moving under the reviews, and steps of other parts of the system.
LEMMA TradeStep ==
  ASSUME IInv, UNCHANGED <<tables, call, history>>, trade' \in [Trade -> TradeStatus]
  PROVE  IInv'
BY DEF IInv, TypeOK, CallsWellFormed, LocksExclude, ReadsStayTrue, ReadsTrue,
   AppealRowsSound, EffectWithinRecorded, tables, history

LEMMA NextInv == IInv /\ [Next]_vars => IInv'
<1> SUFFICES ASSUME IInv, [Next]_vars
             PROVE  IInv'
  OBVIOUS
<1>1. ASSUME NEW t \in Trade, CompleteTrade(t) \/ CancelTrade(t)
      PROVE  IInv'
  BY <1>1, TradeStep DEF CompleteTrade, CancelTrade, IInv, TypeOK, TradeStatus
<1>2. ASSUME NEW r \in Request, Arrive(r)
      PROVE  IInv'
  <2>1. ASSUME NEW k \in Key, NEW rating \in Ratings, ReviewStart(r, k, rating)
        PROVE  IInv'
    BY <2>1, StartStep DEF ReviewStart
  <2>2. ASSUME NEW k \in Key, SubmitStart(r, k)
        PROVE  IInv'
    BY <2>2, StartStep DEF SubmitStart
  <2>3. ASSUME NEW k \in Key, NEW action \in Decisions, DecideStart(r, k, action)
        PROVE  IInv'
    BY <2>3, StartStep DEF DecideStart
  <2> QED
    BY <1>2, <2>1, <2>2, <2>3 DEF Arrive
<1>3. ASSUME NEW r \in Request, Proceed(r)
      PROVE  IInv'
  BY <1>3, ReviewReadStep, ReviewInsertStep, ReviewCreditStep, ReviewCommitStep,
     SubmitInsertStep, SubmitCommitStep, DecideLockStep, DecideClaimStep, DecideCreditStep,
     DecideCommitPlainStep, DecideCommitRollbackStep, LockErrorStep
     DEF Proceed
<1>4. ASSUME NEW r \in Request, Fail(r)
      PROVE  IInv'
  BY <1>4, ReturnStep DEF Fail
<1>5. CASE UNCHANGED vars
  BY <1>5, TradeStep DEF vars, IInv, TypeOK
<1> QED
  BY <1>1, <1>2, <1>3, <1>4, <1>5 DEF Next

THEOREM Invariance == Spec => []IInv
<1> QED
  BY InitInv, NextInv, PTL DEF Spec

\* Every column stays in its domain: no committed score leaves 0..300.
THEOREM TypeCorrect == Spec => []TypeOK
<1>1. IInv => TypeOK
  BY DEF IInv
<1> QED
  BY <1>1, Invariance, PTL

\* No score, review or appeal is ever being written by two transactions.
THEOREM LocksAreExclusive == Spec => []LocksExclude
<1>1. IInv => LocksExclude
  BY DEF IInv
<1> QED
  BY <1>1, Invariance, PTL

\* A commit finds the rows as its transaction read them under its locks.
THEOREM CommitsAreCurrent == Spec => []ReadsStayTrue
<1>1. IInv => ReadsStayTrue
  BY DEF IInv
<1> QED
  BY <1>1, Invariance, PTL

\* An appeal's row is marked reversed exactly when it was approved and its
\* review had moved the score.
THEOREM AppealsAreSound == Spec => []AppealRowsSound
<1>1. IInv => AppealRowsSound
  BY DEF IInv
<1> QED
  BY <1>1, Invariance, PTL

\* A review never moves a score further than it records, and an approval never
\* gives back more than it records, however many requests overlap.
THEOREM EffectsAreBounded == Spec => []EffectWithinRecorded
<1>1. IInv => EffectWithinRecorded
  BY DEF IInv
<1> QED
  BY <1>1, Invariance, PTL

-----------------------------------------------------------------------------
(* What a step may never do.                                                *)

\* Only these steps write a row.
LEMMA WritersOnly ==
  ASSUME [Next]_vars,
         \A r \in Request :
            /\ ~ReviewCommit(r) /\ ~SubmitCommit(r) /\ ~DecideCommitReject(r)
            /\ ~DecideCommitEmpty(r) /\ ~DecideCommitRollback(r)
  PROVE  UNCHANGED <<tables, history>>
BY DEF Next, vars, CompleteTrade, CancelTrade, Arrive, ReviewStart, SubmitStart, DecideStart,
   Proceed, ReviewRead, ReviewInsert, ReviewCredit, SubmitInsert, DecideLock, DecideClaim,
   DecideCredit, LockError, Fail

\* What a committing decision has established about its appeal.
LEMMA DecisionFacts ==
  ASSUME IInv, NEW r \in Request, call[r].pc = "decide_commit"
  PROVE  /\ call[r].key \in Key
         /\ appeal[call[r].key].status = "pending"
         /\ call[r].want = -review[call[r].key].creditDelta
         /\ call[r].arg \in Decisions
BY CallFacts DEF ReadsTrue, WellFormed, DecideSteps

LEMMA StepKeepsSettled == IInv /\ [Next]_vars => [KeepsSettled]_vars
<1> SUFFICES ASSUME IInv, [Next]_vars
             PROVE  KeepsSettled
  OBVIOUS
<1>1. /\ \A k \in Key : appeal[k].status \in {"approved", "rejected"} => appeal[k] # NoAppeal
      /\ appeal \in [Key -> [status : AppealStatus \cup {"none"},
                             creditReversed : BOOLEAN, creditDelta : -5..10]]
      /\ review \in [Key -> [rating : Ratings \cup {"none"}, creditDelta : -10..5]]
      /\ applied \in [Key -> Int] /\ undone \in [Key -> Int]
  BY DEF IInv, TypeOK, NoAppeal, Book!NoAppeal
<1>2. ASSUME NEW r \in Request, ReviewCommit(r)
      PROVE  KeepsSettled
  <2>1. review[call[r].key] = NoReview
    BY <1>2, CallFacts DEF ReviewCommit, ReadsTrue
  <2> QED
    BY <1>1, <1>2, <2>1 DEF ReviewCommit, KeepsSettled
<1>3. ASSUME NEW r \in Request, SubmitCommit(r)
      PROVE  KeepsSettled
  <2>1. appeal[call[r].key] = NoAppeal
    BY <1>3, CallFacts DEF SubmitCommit, ReadsTrue
  <2> QED
    BY <1>1, <1>3, <2>1 DEF SubmitCommit, KeepsSettled, history
<1>4. ASSUME NEW r \in Request,
             DecideCommitReject(r) \/ DecideCommitEmpty(r) \/ DecideCommitRollback(r)
      PROVE  KeepsSettled
  <2>1. appeal[call[r].key].status = "pending"
    BY <1>4, DecisionFacts DEF DecideCommitReject, DecideCommitEmpty, DecideCommitRollback
  <2> QED
    BY <1>1, <1>4, <2>1 DEF DecideCommitReject, DecideCommitEmpty, DecideCommitRollback,
       KeepsSettled, history
<1>5. CASE UNCHANGED <<tables, history>>
  BY <1>5 DEF KeepsSettled, tables, history
<1> QED
  BY <1>2, <1>3, <1>4, <1>5, WritersOnly

\* A posted review and its effect never change, and neither do a decided appeal
\* and what it took back.
THEOREM SettledIsFinal == Spec => SettledForGood
<1> QED
  BY Invariance, StepKeepsSettled, PTL DEF Spec, SettledForGood

-----------------------------------------------------------------------------
(* The ledger implements the book: a commit is the book's operation, and     *)
(* every other step is no step of it.                                       *)

LEMMA InitImplements == Init => Book!Init
BY SeedsAssumption
   DEF Init, NoReview, NoAppeal, Book!Init, Book!NoReview, Book!NoAppeal, Scores, MaxCredit,
       Book!Scores, Book!MaxCredit

LEMMA PostImplements ==
  ASSUME IInv, NEW r \in Request, ReviewCommit(r)
  PROVE  Book!Next
<1> DEFINE c == call[r]
           k == call[r].key
           u == Reviewee[k]
<1>1. /\ c \in Calls /\ k \in Key /\ u \in User /\ c.arg \in Ratings
      /\ review[k] = NoReview
      /\ Within(c.want, CreditDelta(c.arg))
      /\ c.base = score[u]
  BY CallFacts DEF ReviewCommit, ReadsTrue, WellFormed, ReviewSteps, HoldsUser
<1>2. c.want \in -10..5
  <2>1. c.want \in Int
    BY <1>1 DEF Calls
  <2> QED
    BY <1>1, <2>1, WithinNominal, Zenon
<1>3. score' = [score EXCEPT ![u] = ClampCredit(score[u] + c.want)]
  BY <1>1 DEF ReviewCommit
<1>4. Book!PostReview(k, c.arg)
  BY <1>1, <1>2, <1>3
     DEF ReviewCommit, NoReview, Book!PostReview, Book!NoReview, Book!Move, Book!Amounts,
         Within, Book!Within, CreditDelta, Book!CreditDelta, ClampCredit, Book!ClampCredit,
         MaxCredit, Book!MaxCredit
<1> QED
  BY <1>1, <1>4 DEF Book!Next, Ratings, Book!Ratings

LEMMA FileImplements ==
  ASSUME IInv, NEW r \in Request, SubmitCommit(r)
  PROVE  Book!Next
<1>1. /\ call[r].key \in Key
      /\ review[call[r].key] # NoReview
      /\ appeal[call[r].key] = NoAppeal
  BY CallFacts DEF SubmitCommit, ReadsTrue, SubmitSteps
<1>2. Book!FileAppeal(call[r].key)
  BY <1>1 DEF SubmitCommit, NoReview, NoAppeal, WithStatus, Book!FileAppeal
<1> QED
  BY <1>1, <1>2 DEF Book!Next

LEMMA RejectImplements ==
  ASSUME IInv, NEW r \in Request, DecideCommitReject(r)
  PROVE  Book!Next
<1>1. Book!Reject(call[r].key) /\ call[r].key \in Key
  BY DecisionFacts DEF DecideCommitReject, WithStatus, Book!Reject
<1> QED
  BY <1>1 DEF Book!Next

\* An approval with nothing to take back is the book's approval all the same:
\* a clamped score stays where it is when 0 is added to it.
LEMMA EmptyImplements ==
  ASSUME IInv, NEW r \in Request, DecideCommitEmpty(r)
  PROVE  Book!Next
<1> DEFINE k == call[r].key
           u == Reviewee[k]
<1>1. /\ k \in Key /\ u \in User
      /\ appeal[k].status = "pending"
      /\ review[k].creditDelta = 0 /\ -review[k].creditDelta = 0
      /\ score \in [User -> Scores]
  <2>1. k \in Key /\ u \in User /\ score \in [User -> Scores]
    BY DecisionFacts, RevieweeType DEF DecideCommitEmpty, IInv, TypeOK
  <2>2. review[k].creditDelta \in -10..5
    BY <2>1 DEF IInv, TypeOK
  <2> QED
    BY <2>1, <2>2, DecisionFacts DEF DecideCommitEmpty
<1>2. ~appeal[k].creditReversed /\ appeal[k].creditDelta = 0
  BY <1>1 DEF IInv, AppealRowsSound
<1>3. appeal[k].creditReversed = FALSE
  BY <1>1, <1>2 DEF IInv, TypeOK
<1>4. ClampCredit(score[u] + 0) = score[u] /\ Book!ClampCredit(score[u] + 0) = score[u]
  BY <1>1 DEF ClampCredit, Scores, MaxCredit, Book!ClampCredit, Book!MaxCredit
<1>5. score' = [score EXCEPT ![u] = Book!ClampCredit(score[u] + 0)]
  BY <1>1, <1>4 DEF DecideCommitEmpty
<1>6. appeal' = [appeal EXCEPT ![k] =
         [status |-> "approved", creditReversed |-> FALSE, creditDelta |-> 0]]
  BY <1>2, <1>3 DEF DecideCommitEmpty, WithStatus, Book!WithStatus
<1>7. Book!Approve(k)
  BY <1>1, <1>5, <1>6 DEF DecideCommitEmpty, Book!Approve, Book!Move
<1> QED
  BY <1>1, <1>7 DEF Book!Next

LEMMA RollbackImplements ==
  ASSUME IInv, NEW r \in Request, DecideCommitRollback(r)
  PROVE  Book!Next
<1> DEFINE c == call[r]
           k == call[r].key
           u == Reviewee[k]
<1>1. /\ k \in Key /\ u \in User
      /\ appeal[k].status = "pending"
      /\ c.want = -review[k].creditDelta /\ c.want # 0
      /\ c.base = score[u]
  BY DecisionFacts, CallFacts, RevieweeType
     DEF DecideCommitRollback, ReadsTrue, HoldsUser
<1>2. score' = [score EXCEPT ![u] = Book!ClampCredit(score[u] + c.want)]
  BY <1>1 DEF DecideCommitRollback, ClampCredit, MaxCredit, Book!ClampCredit, Book!MaxCredit
<1>3. Book!Approve(k)
  BY <1>1, <1>2 DEF DecideCommitRollback, Book!Approve, Book!Move
<1> QED
  BY <1>1, <1>3 DEF Book!Next

LEMMA NextImplements == IInv /\ [Next]_vars => [Book!Next]_Book!bookVars
<1> SUFFICES ASSUME IInv, [Next]_vars
             PROVE  Book!Next \/ UNCHANGED Book!bookVars
  OBVIOUS
<1>1. CASE UNCHANGED <<tables, history>>
  BY <1>1 DEF tables, Book!bookVars
<1> QED
  BY <1>1, WritersOnly, PostImplements, FileImplements, RejectImplements, EmptyImplements,
     RollbackImplements

\* Reviews, appeals and decisions take effect as if each happened at once.
THEOREM LedgerImplementsBook == Spec => ImplementsBook
<1> QED
  BY Invariance, InitImplements, NextImplements, PTL DEF Spec, ImplementsBook, Book!Spec

-----------------------------------------------------------------------------
(* Locks.                                                                   *)

\* The users row is the last lock every transaction takes.
LEMMA UserLockIsLast ==
  ASSUME NEW r \in Request, call[r].pc \in {"review_credit", "decide_credit"}, Blocked(r)
  PROVE  \E q \in Request : call[q] # Idle /\ ~Blocked(q)
<1>1. PICK q \in Others(r) : HoldsUser(call[q], Reviewee[call[r].key])
  BY DEF Blocked, UserFree
<1>2. call[q].pc \in {"review_commit", "decide_commit"}
  BY <1>1 DEF HoldsUser
<1>3. call[q] # Idle /\ ~Blocked(q)
  BY <1>2, IdleFacts DEF Blocked
<1> QED
  BY <1>3 DEF Others

\* Whoever a blocked request waits for holds its first lock: it can go on, or
\* waits for a users row, whose holder can.
LEMMA BlockedByUnblocked ==
  ASSUME NEW r \in Request, Blocked(r)
  PROVE  \E q \in Request : call[q] # Idle /\ ~Blocked(q)
<1>1. CASE call[r].pc \in {"review_credit", "decide_credit"}
  BY <1>1, UserLockIsLast
<1>2. CASE call[r].pc \notin {"review_credit", "decide_credit"}
  <2>1. PICK q \in Others(r) : HoldsReview(call[q], call[r].key)
                               \/ HoldsAppeal(call[q], call[r].key)
    BY <1>2 DEF Blocked, ReviewFree, AppealFree
  <2>2. q \in Request /\ call[q].pc \in {"review_credit", "review_commit", "appeal_commit",
           "decide_claim", "decide_credit", "decide_commit"}
    BY <2>1 DEF HoldsReview, HoldsAppeal, Others
  <2>3. CASE Blocked(q)
    <3>1. call[q].pc \in {"review_credit", "decide_credit"}
      BY <2>2, <2>3 DEF Blocked
    <3> QED
      BY <2>2, <2>3, <3>1, UserLockIsLast
  <2>4. CASE ~Blocked(q)
    BY <2>2, <2>4, IdleFacts
  <2> QED
    BY <2>3, <2>4
<1> QED
  BY <1>1, <1>2

\* The three transactions cannot deadlock among themselves.
THEOREM LocksNeverCycle == Spec => []NoLockCycle
<1>1. NoLockCycle
  BY BlockedByUnblocked DEF NoLockCycle
<1> QED
  BY <1>1, PTL

-----------------------------------------------------------------------------
(* The account of every score.                                              *)

\* There are as many reviews to add up as two for each trade.
LEMMA KeysFinite == IsFiniteSet(Key)
<1> DEFINE B == {BuyerOf[t] : t \in Trade}
           S == {SellerOf[t] : t \in Trade}
<1>1. IsFiniteSet(B) /\ IsFiniteSet(S)
  <2>1. BuyerOf \in Surjection(Trade, B) /\ SellerOf \in Surjection(Trade, S)
    BY PartiesAssumption DEF Surjection
  <2> QED
    BY <2>1, TradesAssumption, FS_Surjection
<1>2. IsFiniteSet(Trade \X (B \cup S))
  BY <1>1, TradesAssumption, FS_Union, FS_Product
<1>3. Key \subseteq Trade \X (B \cup S)
  BY DEF Key
<1> QED
  BY <1>2, <1>3, FS_Subset

\* The sums are of integers.
LEMMA Whole ==
  ASSUME IInv
  PROVE  /\ applied \in [Key -> Int] /\ undone \in [Key -> Int]
         /\ score \in [User -> Int] /\ seed \in [User -> Int]
<1>1. Scores \subseteq Int
  BY DEF Scores, MaxCredit
<1>2. applied \in [Key -> Int] /\ undone \in [Key -> Int]
      /\ score \in [User -> Scores] /\ seed \in [User -> Scores]
  BY DEF IInv, TypeOK
<1> HIDE DEF Scores
<1> QED
  BY <1>1, <1>2

About(u) == {k \in Key : Reviewee[k] = u}

\* A score that moves by what is put down for one review stays explained.
LEMMA MoveExplained ==
  ASSUME IInv, ScoreExplained, applied' \in [Key -> Int], undone' \in [Key -> Int],
         NEW k \in Key, NEW d \in Int, seed' = seed,
         \A h \in Key : h # k => applied'[h] = applied[h] /\ undone'[h] = undone[h],
         applied'[k] - applied[k] + undone'[k] - undone[k] = d,
         score' = [score EXCEPT ![Reviewee[k]] = @ + d]
  PROVE  ScoreExplained'
<1> SUFFICES ASSUME NEW u \in User
             PROVE  score'[u] = seed[u] + SumFunctionOnSet(applied', About(u))
                                        + SumFunctionOnSet(undone', About(u))
  BY DEF ScoreExplained, About
<1>1. /\ applied \in [Key -> Int] /\ undone \in [Key -> Int]
      /\ score \in [User -> Int] /\ seed \in [User -> Int]
  BY Whole
<1>2. IsFiniteSet(About(u)) /\ About(u) \subseteq Key
  BY KeysFinite, FS_Subset DEF About
<1>3. SumFunctionOnSet(applied, About(u)) \in Int /\ SumFunctionOnSet(undone, About(u)) \in Int
  BY <1>1, <1>2, SumInt
<1>4. SumFunctionOnSet(applied', About(u)) =
         SumFunctionOnSet(applied, About(u)) + (IF k \in About(u) THEN applied'[k] - applied[k] ELSE 0)
  BY <1>1, <1>2, SumUpdate
<1>5. SumFunctionOnSet(undone', About(u)) =
         SumFunctionOnSet(undone, About(u)) + (IF k \in About(u) THEN undone'[k] - undone[k] ELSE 0)
  BY <1>1, <1>2, SumUpdate
<1>6. score[u] = seed[u] + SumFunctionOnSet(applied, About(u)) + SumFunctionOnSet(undone, About(u))
  BY DEF ScoreExplained, About
<1>7. score'[u] = score[u] + (IF k \in About(u) THEN d ELSE 0)
  BY <1>1 DEF About
<1>8. /\ applied[k] \in Int /\ undone[k] \in Int /\ applied'[k] \in Int /\ undone'[k] \in Int
      /\ score[u] \in Int /\ seed[u] \in Int
  BY <1>1
<1> HIDE DEF About
<1> QED
  BY <1>3, <1>4, <1>5, <1>6, <1>7, <1>8

LEMMA PostExplained ==
  ASSUME IInv, IInv', ScoreExplained, NEW r \in Request, ReviewCommit(r)
  PROVE  ScoreExplained'
<1> DEFINE c == call[r]
           k == call[r].key
           new == ClampCredit(c.base + c.want)
<1>1. /\ k \in Key /\ Reviewee[k] \in User /\ c.base = score[Reviewee[k]]
      /\ review[k] = NoReview
  BY CallFacts DEF ReviewCommit, ReadsTrue, HoldsUser
<1>2. /\ applied \in [Key -> Int] /\ undone \in [Key -> Int] /\ score \in [User -> Int]
      /\ applied' \in [Key -> Int] /\ undone' \in [Key -> Int] /\ score' \in [User -> Int]
  <2>1. applied' \in [Key -> Int] /\ undone' \in [Key -> Int] /\ score' \in [User -> Scores]
    BY DEF IInv, TypeOK
  <2>2. Scores \subseteq Int
    BY DEF Scores, MaxCredit
  <2> QED
    BY <2>1, <2>2, Whole
<1>3. applied[k] = 0
  BY <1>1, <1>2 DEF IInv, EffectWithinRecorded, NoReview, Book!NoReview, Within
<1>4. applied'[k] = new - c.base /\ score'[Reviewee[k]] = new
  BY <1>1, <1>2 DEF ReviewCommit
<1>5. new \in Int
  BY <1>1, <1>2, <1>4
<1>6. score' = [score EXCEPT ![Reviewee[k]] = @ + (new - c.base)]
  <2>1. score[Reviewee[k]] + (new - c.base) = new
    BY <1>1, <1>2, <1>5
  <2> QED
    BY <1>1, <2>1 DEF ReviewCommit
<1>7. /\ \A h \in Key : h # k => applied'[h] = applied[h]
      /\ undone' = undone /\ seed' = seed
  BY <1>2 DEF ReviewCommit
<1>8. applied'[k] - applied[k] + undone'[k] - undone[k] = new - c.base /\ new - c.base \in Int
  BY <1>1, <1>2, <1>3, <1>4, <1>5, <1>7
<1> QED
  BY ONLY IInv, ScoreExplained, <1>1, <1>2, <1>6, <1>7, <1>8, MoveExplained

LEMMA RollbackExplained ==
  ASSUME IInv, IInv', ScoreExplained, NEW r \in Request, DecideCommitRollback(r)
  PROVE  ScoreExplained'
<1> DEFINE c == call[r]
           k == call[r].key
           new == ClampCredit(c.base + c.want)
<1>1. k \in Key /\ Reviewee[k] \in User /\ c.base = score[Reviewee[k]]
  BY CallFacts DEF DecideCommitRollback, ReadsTrue, HoldsUser
<1>2. /\ applied \in [Key -> Int] /\ undone \in [Key -> Int] /\ score \in [User -> Int]
      /\ applied' \in [Key -> Int] /\ undone' \in [Key -> Int] /\ score' \in [User -> Int]
  <2>1. applied' \in [Key -> Int] /\ undone' \in [Key -> Int] /\ score' \in [User -> Scores]
    BY DEF IInv, TypeOK
  <2>2. Scores \subseteq Int
    BY DEF Scores, MaxCredit
  <2> QED
    BY <2>1, <2>2, Whole
<1>3. undone'[k] = undone[k] + new - c.base /\ score'[Reviewee[k]] = new
  BY <1>1, <1>2 DEF DecideCommitRollback
<1>4. new \in Int
  BY <1>1, <1>2, <1>3
<1>5. score' = [score EXCEPT ![Reviewee[k]] = @ + (new - c.base)]
  <2>1. score[Reviewee[k]] + (new - c.base) = new
    BY <1>1, <1>2, <1>4
  <2> QED
    BY <1>1, <2>1 DEF DecideCommitRollback
<1>6. /\ \A h \in Key : h # k => undone'[h] = undone[h]
      /\ applied' = applied /\ seed' = seed
  BY <1>2 DEF DecideCommitRollback
<1>7. applied'[k] - applied[k] + undone'[k] - undone[k] = new - c.base /\ new - c.base \in Int
  BY <1>1, <1>2, <1>3, <1>4, <1>6
<1> QED
  BY ONLY IInv, ScoreExplained, <1>1, <1>2, <1>5, <1>6, <1>7, MoveExplained

LEMMA InitExplained == Init => ScoreExplained
<1> SUFFICES ASSUME Init, NEW u \in User
             PROVE  score[u] = seed[u] + SumFunctionOnSet(applied, About(u))
                                       + SumFunctionOnSet(undone, About(u))
  BY DEF ScoreExplained, About
<1>1. IsFiniteSet(About(u)) /\ \A k \in About(u) : applied[k] = 0 /\ undone[k] = 0
  BY KeysFinite, FS_Subset DEF About, Init
<1>2. SumFunctionOnSet(applied, About(u)) = 0 /\ SumFunctionOnSet(undone, About(u)) = 0
  BY <1>1, SumZero
<1>3. score[u] = seed[u] /\ seed[u] \in Int
  BY InitInv, Whole DEF Init
<1> QED
  BY <1>2, <1>3

LEMMA StepExplained == IInv /\ IInv' /\ ScoreExplained /\ [Next]_vars => ScoreExplained'
<1> SUFFICES ASSUME IInv, IInv', ScoreExplained, [Next]_vars
             PROVE  ScoreExplained'
  OBVIOUS
<1>1. ASSUME UNCHANGED <<score, history>>
      PROVE  ScoreExplained'
  BY <1>1 DEF ScoreExplained, history
<1>2. ASSUME NEW r \in Request,
             SubmitCommit(r) \/ DecideCommitReject(r) \/ DecideCommitEmpty(r)
      PROVE  UNCHANGED <<score, history>>
  BY <1>2 DEF SubmitCommit, DecideCommitReject, DecideCommitEmpty
<1>3. CASE UNCHANGED <<tables, history>>
  BY <1>1, <1>3 DEF tables
<1> QED
  BY <1>1, <1>2, <1>3, WritersOnly, PostExplained, RollbackExplained

\* Every point of every score is accounted for by a posted review or an approved
\* appeal: no concurrent AddCredit is lost and none counts twice.
THEOREM ScoresAreExplained == Spec => []ScoreExplained
<1> QED
  BY Invariance, InitExplained, StepExplained, PTL DEF Spec

-----------------------------------------------------------------------------
(* When a record says what happened.                                        *)

\* A review between its plain read of the score and its commit.
Measured(c) == c.pc \in {"review_insert", "review_credit", "review_commit"}

\* While a review waits to be written, no other review of its user, and no
\* rollback of one, is writing the score it was measured against.
Apart ==
    \A r \in Request : \A q \in Others(r) :
        Measured(call[r]) /\ HoldsUser(call[q], Reviewee[call[r].key]) =>
            call[q].key = call[r].key

\* The change a measured review means to record is the one it will make.
Accurate(c) ==
    Measured(c) /\ review[c.key] = NoReview =>
        c.want = AppliedDelta(score[Reviewee[c.key]], CreditDelta(c.arg))

AInv == RecordedIsActual /\ \A r \in Request : Accurate(call[r])

LEMMA ClampAgain ==
  ASSUME NEW s \in Scores, NEW rating
  PROVE  ClampCredit(s + AppliedDelta(s, CreditDelta(rating))) - s =
            AppliedDelta(s, CreditDelta(rating))
BY NominalDeltas DEF AppliedDelta, ClampCredit, Scores, MaxCredit

\* A call that goes on leaves the records alone.
LEMMA AccurateCall ==
  ASSUME IInv, AInv, UNCHANGED <<tables, history>>,
         NEW r \in Request, NEW c, Accurate(c), call' = [call EXCEPT ![r] = c]
  PROVE  AInv'
<1>1. \A q \in Request : call'[q] = IF q = r THEN c ELSE call[q]
  BY DEF IInv, TypeOK
<1>2. RecordedIsActual'
  BY DEF AInv, RecordedIsActual, tables, history
<1> QED
  BY <1>1, <1>2 DEF AInv, Accurate, tables

LEMMA ProceedAccurate ==
  ASSUME IInv, AInv, NEW r \in Request, Proceed(r) \/ Arrive(r) \/ Fail(r),
         UNCHANGED <<tables, history>>
  PROVE  AInv'
<1>1. ASSUME NEW c, ~Measured(c), call' = [call EXCEPT ![r] = c]
      PROVE  AInv'
  BY <1>1, AccurateCall DEF Accurate
<1>2. ~Measured(Idle)
  BY IdleFacts DEF Measured
<1>3. CASE Return(r)
  BY <1>1, <1>2, <1>3 DEF Return
<1>4. CASE Arrive(r)
  <2>1. PICK k \in Key, pc \in {"review_read", "appeal_insert", "decide_lock"},
             arg \in Ratings \cup Decisions \cup {"none"} :
                call' = [call EXCEPT ![r] = Fresh(pc, k, arg, 0)]
    BY <1>4 DEF Arrive, ReviewStart, SubmitStart, DecideStart, Start
  <2>2. ~Measured(Fresh(pc, k, arg, 0))
    BY DEF Measured, Fresh
  <2> QED
    BY <1>1, <2>1, <2>2
<1>5. CASE ReviewRead(r) /\ ~Return(r)
  <2> DEFINE k == call[r].key
             d == AppliedDelta(score[Reviewee[k]], CreditDelta(call[r].arg))
             c == Onward(call[r], "review_insert", d, 0)
  <2>1. call' = [call EXCEPT ![r] = c]
    BY <1>5 DEF ReviewRead, Go
  <2>2. c.want = d /\ c.key = k /\ c.arg = call[r].arg
    BY DEF Onward
  <2>3. Accurate(c)
    BY <2>2 DEF Accurate
  <2> HIDE DEF c
  <2> QED
    BY <2>1, <2>3, AccurateCall
<1>6. CASE (ReviewInsert(r) /\ ~Return(r)) \/ ReviewCredit(r)
  <2>1. PICK pc \in {"review_credit", "review_commit"}, base \in Scores :
           call' = [call EXCEPT ![r] = Onward(call[r], pc, call[r].want, base)]
    <3>1. call[r].base \in Scores /\ (ReviewCredit(r) => score[Reviewee[call[r].key]] \in Scores)
      BY CallFacts DEF Calls, ReviewCredit
    <3> QED
      BY <1>6, <3>1 DEF ReviewInsert, ReviewCredit, Goto, Go
  <2> DEFINE c == Onward(call[r], pc, call[r].want, base)
  <2>2. /\ c.want = call[r].want /\ c.key = call[r].key /\ c.arg = call[r].arg
        /\ Measured(call[r])
    BY <1>6 DEF Onward, Measured, ReviewInsert, ReviewCredit
  <2>3. Accurate(c)
    BY <2>2 DEF Accurate, AInv
  <2> HIDE DEF c
  <2> QED
    BY <2>1, <2>3, AccurateCall DEF c
<1>7. CASE (SubmitInsert(r) \/ DecideLock(r) \/ DecideClaim(r) \/ DecideCredit(r)) /\ ~Return(r)
  <2>1. \E want, base : \E pc \in {"appeal_commit", "decide_claim", "decide_credit", "decide_commit"} :
           call' = [call EXCEPT ![r] = Onward(call[r], pc, want, base)]
    BY <1>7 DEF SubmitInsert, DecideLock, DecideClaim, DecideCredit, Goto, Go
  <2>2. ASSUME NEW want, NEW base,
               NEW pc \in {"appeal_commit", "decide_claim", "decide_credit", "decide_commit"}
        PROVE  ~Measured(Onward(call[r], pc, want, base))
    BY DEF Onward, Measured
  <2> QED
    BY <1>1, <2>1, <2>2
<1>8. CASE LockError(r) /\ ~Return(r)
  <2> DEFINE c == Fresh(Begin(call[r].pc), call[r].key, call[r].arg, call[r].attempt + 1)
  <2>1. call' = [call EXCEPT ![r] = c]
    BY <1>8 DEF LockError
  <2>2. ~Measured(c)
    BY DEF Measured, Fresh, Begin
  <2> HIDE DEF c
  <2> QED
    BY <1>1, <2>1, <2>2
<1>9. (ReviewCommit(r) \/ SubmitCommit(r) \/ DecideCommitReject(r) \/ DecideCommitEmpty(r)
        \/ DecideCommitRollback(r) \/ Fail(r)) => Return(r)
  BY DEF ReviewCommit, SubmitCommit, DecideCommitReject, DecideCommitEmpty,
     DecideCommitRollback, Fail
<1> QED
  BY <1>3, <1>4, <1>5, <1>6, <1>7, <1>8, <1>9 DEF Proceed

\* A commit writes the score of one user; the reviews measured against it are
\* of the same key, and so no longer to be written.
LEMMA CommitAccurate ==
  ASSUME IInv, AInv, Apart, NEW r \in Request,
         ReviewCommit(r) \/ DecideCommitRollback(r)
  PROVE  AInv'
<1> DEFINE k == call[r].key
           c == call[r]
<1>1. /\ k \in Key /\ HoldsUser(c, Reviewee[k]) /\ c.base = score[Reviewee[k]]
      /\ c.base \in Scores /\ Reviewee \in [Key -> User]
      /\ call[r].pc # "idle" /\ Return(r)
  BY CallFacts, RevieweeType DEF ReviewCommit, DecideCommitRollback, HoldsUser, ReadsTrue, Calls
<1>2. /\ review \in [Key -> [rating : Ratings \cup {"none"}, creditDelta : -10..5]]
      /\ score \in [User -> Scores] /\ applied \in [Key -> Int]
  BY DEF IInv, TypeOK
<1>3. review'[k] # NoReview
  <2>1. CASE ReviewCommit(r)
    <3>1. c.arg \in Ratings
      BY <2>1, CallFacts DEF ReviewCommit, WellFormed, ReviewSteps
    <3> QED
      BY <1>1, <1>2, <2>1, <3>1 DEF ReviewCommit, NoReview, Book!NoReview, Ratings
  <2>2. CASE DecideCommitRollback(r)
    BY <1>1, <2>2, CallFacts DEF DecideCommitRollback, ReadsTrue, DecideSteps, IInv, AppealRowsSound
  <2> QED
    BY <2>1, <2>2
<1>4. \A q \in Request : call'[q] = IF q = r THEN Idle ELSE call[q]
  BY <1>1 DEF Return, IInv, TypeOK
<1>5. ASSUME NEW q \in Request
      PROVE  Accurate(call[q])'
  <2>1. CASE q = r
    BY <1>4, <2>1, IdleFacts DEF Accurate, Measured
  <2>2. CASE q # r /\ Measured(call[q])
    <3>1. call[q].key \in Key
      BY <2>2, CallFacts DEF Measured
    <3>2. CASE Reviewee[call[q].key] = Reviewee[k]
      <4>1. call[q].key = k
        BY <1>1, <2>2, <3>2 DEF Apart, Others
      <4> QED
        BY <1>3, <1>4, <2>2, <4>1 DEF Accurate
    <3>3. CASE Reviewee[call[q].key] # Reviewee[k]
      <4>1. call[q].key # k
        BY <3>3
      <4>2. score'[Reviewee[call[q].key]] = score[Reviewee[call[q].key]]
        BY <1>1, <1>2, <3>1, <3>3 DEF ReviewCommit, DecideCommitRollback
      <4>3. review'[call[q].key] = review[call[q].key]
        BY <1>1, <1>2, <3>1, <4>1 DEF ReviewCommit, DecideCommitRollback
      <4> QED
        BY <1>4, <2>2, <4>2, <4>3 DEF Accurate, AInv
    <3> QED
      BY <3>2, <3>3
  <2>3. CASE q # r /\ ~Measured(call[q])
    BY <1>4, <2>3 DEF Accurate
  <2> QED
    BY <2>1, <2>2, <2>3
<1>6. RecordedIsActual'
  <2>1. CASE ReviewCommit(r)
    <3>1. c.want = AppliedDelta(c.base, CreditDelta(c.arg))
      BY <1>1, <2>1, CallFacts DEF AInv, Accurate, Measured, ReviewCommit, ReadsTrue
    <3>2. ClampCredit(c.base + c.want) - c.base = c.want
      BY <1>1, <3>1, ClampAgain
    <3>3. applied'[k] = review'[k].creditDelta
      BY <1>1, <1>2, <2>1, <3>2 DEF ReviewCommit
    <3>4. \A h \in Key : h # k => applied'[h] = applied[h] /\ review'[h] = review[h]
      BY <1>2, <2>1 DEF ReviewCommit
    <3> QED
      BY <3>3, <3>4 DEF AInv, RecordedIsActual
  <2>2. CASE DecideCommitRollback(r)
    BY <2>2 DEF DecideCommitRollback, AInv, RecordedIsActual
  <2> QED
    BY <2>1, <2>2
<1> QED
  BY <1>5, <1>6 DEF AInv

LEMMA StepAccurate == IInv /\ Apart /\ AInv /\ [Next]_vars => AInv'
<1> SUFFICES ASSUME IInv, Apart, AInv, [Next]_vars
             PROVE  AInv'
  OBVIOUS
<1>1. ASSUME UNCHANGED <<score, review, call, applied>>
      PROVE  AInv'
  BY <1>1 DEF AInv, RecordedIsActual, Accurate
<1>2. ASSUME NEW r \in Request,
             SubmitCommit(r) \/ DecideCommitReject(r) \/ DecideCommitEmpty(r)
      PROVE  AInv'
  <2>1. UNCHANGED <<score, review, applied>> /\ Return(r)
    BY <1>2 DEF SubmitCommit, DecideCommitReject, DecideCommitEmpty, history
  <2>2. \A q \in Request : call'[q] = IF q = r THEN Idle ELSE call[q]
    BY <2>1 DEF Return, IInv, TypeOK
  <2> QED
    BY <2>1, <2>2, IdleFacts DEF AInv, RecordedIsActual, Accurate, Measured
<1>3. CASE UNCHANGED <<tables, history>>
  <2>1. ASSUME NEW r \in Request, Proceed(r) \/ Arrive(r) \/ Fail(r)
        PROVE  AInv'
    BY <1>3, <2>1, ProceedAccurate
  <2>2. ASSUME NEW t \in Trade, CompleteTrade(t) \/ CancelTrade(t)
        PROVE  AInv'
    BY <1>1, <2>2 DEF CompleteTrade, CancelTrade, tables, history
  <2>3. CASE UNCHANGED vars
    BY <1>1, <2>3 DEF vars, tables, history
  <2> QED
    BY <2>1, <2>2, <2>3 DEF Next
<1> QED
  BY <1>2, <1>3, WritersOnly, CommitAccurate

\* model/review.go:13 holds for as long as no other writer of the reviewee's
\* score comes between the read a review is measured by and its commit: the
\* recorded change is then the change made.
THEOREM ApartRecordsAreActual == Spec /\ []Apart => []RecordedIsActual
<1>1. Init => AInv
  BY IdleFacts DEF Init, AInv, RecordedIsActual, Accurate, Measured, NoReview, Book!NoReview
<1>2. AInv => RecordedIsActual
  BY DEF AInv
<1> QED
  BY <1>1, <1>2, Invariance, StepAccurate, PTL DEF Spec

\* So it holds when no user is reviewed more than once, however often the review
\* is posted, retried and appealed.
OneReviewEach == \A k, l \in Key : Reviewee[k] = Reviewee[l] => k = l

THEOREM SingleRecordsAreActual == OneReviewEach => (Spec => []RecordedIsActual)
<1> SUFFICES ASSUME OneReviewEach
             PROVE  Spec => []RecordedIsActual
  OBVIOUS
<1>1. IInv => Apart
  <2> SUFFICES ASSUME IInv, NEW r \in Request, NEW q \in Others(r), Measured(call[r]),
                      HoldsUser(call[q], Reviewee[call[r].key])
               PROVE  call[q].key = call[r].key
    BY DEF Apart
  <2>1. q \in Request /\ call[q].key \in Key /\ call[r].key \in Key
    BY CallFacts DEF Measured, HoldsUser, Others
  <2> QED
    BY <2>1 DEF OneReviewEach, HoldsUser
<1> QED
  BY <1>1, Invariance, ApartRecordsAreActual, PTL

=============================================================================
