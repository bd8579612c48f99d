------------------------------ MODULE Startup ------------------------------
(***************************************************************************)
(* How a server starts: AutoMigrate, migration.Run with its one step, the  *)
(* backfill of reviews.credit_delta, then seed, then it serves.  Servers   *)
(* on one database may start at once, crash anywhere and are restarted by  *)
(* docker.                                                                 *)
(*                                                                         *)
(* review and version are the COMMITTED rows of reviews and                *)
(* schema_migrations; what a server's migration has written is in its own  *)
(* record until it commits.  Each statement of seed commits by itself.     *)
(***************************************************************************)
EXTENDS Credit, Sequences

CONSTANTS
    Server,       \* server processes on the one database
    Users,        \* 1..Users are the ids of the accounts that carry reviews
    Pasts,        \* what earlier releases may have left: see PastsAssumption
    Posted,       \* ratings that users post to a running server; a bound on the inputs
    MaxPosted,    \* bound: reviews posted to running servers
    MaxCrashes    \* bound: how often servers may crash

User == 1..Users

\* A past is the reviews in the order of their ids, the scores the users had
\* before the first, and the number of them written before the column existed.
ASSUME PastsAssumption ==
    \A h \in Pasts : /\ h.rows \in Seq(User \X Ratings)
                     /\ h.start \in [User -> Scores]
                     /\ h.legacy \in 0..Len(h.rows)

ASSUME StartupBounds ==
    /\ Users \in Nat /\ MaxPosted \in Nat /\ MaxCrashes \in Nat
    /\ Posted \subseteq Ratings

VARIABLES
    review,    \* reviews, by id: [user, rating, creditDelta]
    score,     \* users.credit_score
    version,   \* whether schema_migrations has the row of version 1
    server,    \* the local state of each server
    seeded,    \* how often each part of the seed was inserted
    signedUp,  \* whether users has rows other than the seed's
    crashes,   \* how many crashes there were
    past,      \* history: the past this database has, of Pasts
    effect     \* history, by id: what each review did to the score

database == <<review, score, version, seeded, signedUp>>
history == <<past, effect>>
vars == <<database, server, crashes, history>>

\* registrationBaseline.
Baseline == 100

Review(u, rating, d) == [user |-> u, rating |-> rating, creditDelta |-> d]

\* Where u stands after each of the reviews in rows, having started at base.
Standing(rows, u, base) ==
    LET after[n \in 0..Len(rows)] ==
            IF n = 0 THEN base
            ELSE IF rows[n].user # u THEN after[n - 1]
            ELSE ClampCredit(after[n - 1] + CreditDelta(rows[n].rating))
    IN after

\* What the n-th review does to its reviewee, who started at base.
EffectOf(rows, n, base) ==
    AppliedDelta(Standing(rows, rows[n].user, base)[n - 1], CreditDelta(rows[n].rating))

Blank == [pc |-> "down", snap |-> <<>>, user |-> 0, row |-> 0, score |-> 0, wrote |-> <<>>]

At(pc) == [Blank EXCEPT !.pc = pc]

Boots == {"check", "read", "replay", "record", "commit",
          "seed_count", "seed_users", "seed_products", "seed_exchanges"}

\* The reviews of the past, before any delta is written to them.
Bare == [n \in DOMAIN past.rows |-> Review(past.rows[n][1], past.rows[n][2], 0)]

Init ==
    /\ past \in Pasts
    /\ effect = [n \in DOMAIN Bare |-> EffectOf(Bare, n, past.start[Bare[n].user])]
    /\ review = [n \in DOMAIN Bare |->
          Review(Bare[n].user, Bare[n].rating, IF n <= past.legacy THEN 0 ELSE effect[n])]
    /\ score = [u \in User |-> Standing(Bare, u, past.start[u])[Len(Bare)]]
    /\ version = FALSE
    /\ server = [s \in Server |-> Blank]
    /\ seeded = [users |-> 0, products |-> 0, exchanges |-> 0]
    /\ signedUp = (past.rows # <<>>)
    /\ crashes = 0

Goto(s, pc) == server' = [server EXCEPT ![s] = At(pc)]

\* The transaction goes on: the snapshot stays.
Replay(s, pc, u, n, standing, wrote) ==
    server' = [server EXCEPT ![s] = [pc |-> pc, snap |-> @.snap, user |-> u, row |-> n,
                                     score |-> standing, wrote |-> wrote]]

-----------------------------------------------------------------------------
(* migration.Run                                                            *)

\* docker starts the process; AutoMigrate finds or makes the tables, and gives
\* a new column its default.
Boot(s) ==
    /\ server[s].pc = "down"
    /\ Goto(s, "check")
    /\ UNCHANGED <<database, crashes, history>>

\* The versions are not looked up.
BugCheck(s) ==
    /\ server[s].pc = "check"
    /\ Goto(s, "read")
    /\ UNCHANGED <<database, crashes, history>>

\* The applied versions are read outside the step's transaction.
Check(s) ==
    /\ server[s].pc = "check"
    /\ Goto(s, IF version THEN "seed_count" ELSE "read")
    /\ UNCHANGED <<database, crashes, history>>

\* The transaction's first SELECT fixes the snapshot that the later ones see.
\* The reviewees come in the order of the index on reviewee_id.
ReadLegacy(s) ==
    /\ server[s].pc = "read"
    /\ server' = [server EXCEPT ![s] =
          [pc |-> "replay", snap |-> review, user |-> 1, row |-> 0, score |-> Baseline,
           wrote |-> [n \in DOMAIN review |-> 0]]]
    /\ UNCHANGED <<database, crashes, history>>

\* The row the replay looks at next: the first of the user's after c.row, if any.
Due(c) ==
    LET later == {n \in DOMAIN c.snap : n > c.row /\ c.snap[n].user = c.user}
    IN {n \in later : \A m \in later : n <= m}

\* X lock on a review: from the UPDATE that looked at it to the end of the
\* transaction, whether or not it had a zero to replace.
HoldsRow(c, n) ==
    /\ c.pc \in {"replay", "record", "commit"}
    /\ n \in DOMAIN c.snap
    /\ c.snap[n].creditDelta = 0
    /\ c.snap[n].user < c.user \/ (c.snap[n].user = c.user /\ n <= c.row)

RowFree(s, n) == \A t \in Server \ {s} : ~HoldsRow(server[t], n)

\* The replay of the next user goes on from the last one's score.
BugNextUser(s) ==
    LET c == server[s] IN
    /\ c.pc = "replay"
    /\ c.user \in User
    /\ Due(c) = {}
    /\ Replay(s, "replay", c.user + 1, 0, c.score, c.wrote)
    /\ UNCHANGED <<database, crashes, history>>

\* The user's history is done: the next one's is replayed from the baseline.
NextUser(s) ==
    LET c == server[s] IN
    /\ c.pc = "replay"
    /\ c.user \in User
    /\ Due(c) = {}
    /\ Replay(s, "replay", c.user + 1, 0, Baseline, c.wrote)
    /\ UNCHANGED <<database, crashes, history>>

\* The UPDATEs are committed one by one.
BugReplayRow(s) ==
    LET c == server[s] IN
    /\ c.pc = "replay"
    /\ \E n \in Due(c) :
          LET actual == AppliedDelta(c.score, CreditDelta(c.snap[n].rating)) IN
          /\ RowFree(s, n)
          /\ review' = [review EXCEPT ![n].creditDelta = IF @ = 0 THEN actual ELSE @]
          /\ Replay(s, "replay", c.user, n, ClampCredit(c.score + actual), c.wrote)
    /\ UNCHANGED <<score, version, seeded, signedUp, crashes, history>>

\* The next review of the user: a zero is replaced by the delta that the replay
\* arrives at, if it is still zero once its lock is granted; any other value is
\* left alone.  The replay goes on by its own delta.
ReplayRow(s) ==
    LET c == server[s] IN
    /\ c.pc = "replay"
    /\ \E n \in Due(c) :
          LET actual == AppliedDelta(c.score, CreditDelta(c.snap[n].rating))
              zero   == c.snap[n].creditDelta = 0 IN
          /\ zero => RowFree(s, n)
          /\ Replay(s, "replay", c.user, n, ClampCredit(c.score + actual),
                [c.wrote EXCEPT ![n] = IF zero /\ review[n].creditDelta = 0 THEN actual ELSE @])
    /\ UNCHANGED <<database, crashes, history>>

ReplayDone(s) ==
    LET c == server[s] IN
    /\ c.pc = "replay"
    /\ c.user > Users
    /\ Replay(s, "record", c.user, c.row, c.score, c.wrote)
    /\ UNCHANGED <<database, crashes, history>>

VersionFree(s) == \A t \in Server \ {s} : server[t].pc # "commit"

\* INSERT IGNORE INTO schema_migrations.
BugRecord(s) ==
    LET c == server[s] IN
    /\ c.pc = "record"
    /\ Replay(s, "commit", c.user, c.row, c.score, c.wrote)
    /\ UNCHANGED <<database, crashes, history>>

\* The INSERT into schema_migrations waits for another's uncommitted row of the
\* version; on a committed one it fails, and main exits.
Record(s) ==
    LET c == server[s] IN
    /\ c.pc = "record"
    /\ VersionFree(s)
    /\ \/ version /\ Goto(s, "down")
       \/ ~version /\ Replay(s, "commit", c.user, c.row, c.score, c.wrote)
    /\ UNCHANGED <<database, crashes, history>>

\* The deltas and the version become visible together.
Commit(s) ==
    LET c == server[s] IN
    /\ c.pc = "commit"
    /\ review' = [n \in DOMAIN review |->
          IF n \in DOMAIN c.wrote /\ c.wrote[n] # 0
          THEN [review[n] EXCEPT !.creditDelta = c.wrote[n]] ELSE review[n]]
    /\ version' = TRUE
    /\ Goto(s, "seed_count")
    /\ UNCHANGED <<score, seeded, signedUp, crashes, history>>

\* A wait that ends in a lock failure: the step is not retried, main exits.
LockError(s) ==
    LET c == server[s] IN
    /\ \/ /\ c.pc = "replay"
          /\ \E n \in Due(c) : c.snap[n].creditDelta = 0 /\ ~RowFree(s, n)
       \/ c.pc = "record" /\ ~VersionFree(s)
    /\ Goto(s, "down")
    /\ UNCHANGED <<database, crashes, history>>

-----------------------------------------------------------------------------
(* seed                                                                     *)

\* Any row of users is a reason not to seed.
SeedCount(s) ==
    /\ server[s].pc = "seed_count"
    /\ Goto(s, IF seeded.users > 0 \/ signedUp THEN "serving" ELSE "seed_users")
    /\ UNCHANGED <<database, crashes, history>>

\* The INSERT ignores phones that are there.
BugSeedUsers(s) ==
    /\ server[s].pc = "seed_users"
    /\ seeded' = [seeded EXCEPT !.users = 1]
    /\ Goto(s, "seed_products")
    /\ UNCHANGED <<review, score, version, signedUp, crashes, history>>

\* One INSERT of all seeded users; their phones are unique, so it fails when
\* another server was first.
SeedUsers(s) ==
    /\ server[s].pc = "seed_users"
    /\ \/ seeded.users > 0 /\ Goto(s, "serving") /\ UNCHANGED seeded
       \/ /\ seeded.users = 0
          /\ seeded' = [seeded EXCEPT !.users = 1]
          /\ Goto(s, "seed_products")
    /\ UNCHANGED <<review, score, version, signedUp, crashes, history>>

SeedProducts(s) ==
    /\ server[s].pc = "seed_products"
    /\ seeded' = [seeded EXCEPT !.products = @ + 1]
    /\ Goto(s, "seed_exchanges")
    /\ UNCHANGED <<review, score, version, signedUp, crashes, history>>

SeedExchanges(s) ==
    /\ server[s].pc = "seed_exchanges"
    /\ seeded' = [seeded EXCEPT !.exchanges = @ + 1]
    /\ Goto(s, "serving")
    /\ UNCHANGED <<review, score, version, signedUp, crashes, history>>

\* A seeding that fails is logged and the server serves all the same.
SeedFail(s) ==
    /\ server[s].pc \in {"seed_count", "seed_users", "seed_products", "seed_exchanges"}
    /\ Goto(s, "serving")
    /\ UNCHANGED <<database, crashes, history>>

-----------------------------------------------------------------------------
(* A running server, and its end                                            *)

SignUp(s) ==
    /\ server[s].pc = "serving"
    /\ signedUp' = TRUE
    /\ UNCHANGED <<review, score, version, seeded, server, crashes, history>>

\* ReviewService.Create, one at a time: the review records what it does.
PostReview(s, u, rating) ==
    LET d == AppliedDelta(score[u], CreditDelta(rating)) IN
    /\ server[s].pc = "serving"
    /\ signedUp
    /\ Len(review) < Len(past.rows) + MaxPosted
    /\ review' = Append(review, Review(u, rating, d))
    /\ effect' = Append(effect, d)
    /\ score' = [score EXCEPT ![u] = @ + d]
    /\ UNCHANGED <<version, server, seeded, signedUp, crashes, past>>

\* The database rolls back what the process had not committed.
Crash(s) ==
    /\ server[s].pc # "down"
    /\ crashes < MaxCrashes
    /\ crashes' = crashes + 1
    /\ Goto(s, "down")
    /\ UNCHANGED <<database, history>>

Step(s) ==
    \/ Check(s)
    \/ ReadLegacy(s) \/ NextUser(s) \/ ReplayRow(s) \/ ReplayDone(s)
    \/ Record(s) \/ Commit(s) \/ LockError(s)
    \/ SeedCount(s) \/ SeedUsers(s) \/ SeedProducts(s) \/ SeedExchanges(s) \/ SeedFail(s)

Next ==
    \E s \in Server :
        \/ Boot(s) \/ Step(s) \/ Crash(s)
        \/ SignUp(s)
        \/ \E u \in User, rating \in Posted : PostReview(s, u, rating)

Spec == Init /\ [][Next]_vars

\* A statement answers or its wait times out, and docker restarts what exits
\* ("restart: unless-stopped").
FairSpec == Spec /\ \A s \in Server : WF_vars(Boot(s)) /\ WF_vars(Step(s))

-----------------------------------------------------------------------------
(* What must hold.                                                          *)

\* Rows and the locals of the servers stay in their domains.
TypeOK ==
    /\ review \in Seq([user : User, rating : Ratings, creditDelta : -10..5])
    /\ score \in [User -> Scores]
    /\ version \in BOOLEAN
    /\ \A s \in Server :
          /\ server[s].pc \in Boots \cup {"down", "serving"}
          /\ server[s].user \in 0..(Users + 1)
          /\ server[s].row \in 0..Len(server[s].snap)
          /\ server[s].score \in Scores
          /\ server[s].wrote \in Seq(-10..5)
    /\ signedUp \in BOOLEAN
    /\ crashes \in 0..MaxCrashes
    /\ effect \in Seq(-10..5)

\* The delta the backfill owes the n-th review of the past: the one it has, or
\* for a zero, also a true one of a later release, what the replay arrives at.
Owed(n) ==
    IF n > past.legacy /\ effect[n] # 0 THEN effect[n] ELSE EffectOf(Bare, n, Baseline)

Untouched ==
    /\ \A n \in 1..past.legacy : review[n].creditDelta = 0
    /\ \A s \in Server : server[s].pc # "serving"

\* All or nothing, whoever crashes and whoever else starts: without the version
\* no legacy row is touched and nobody serves; with it every row of the past has
\* what the replay owes it.
BackfillAtomic ==
    /\ version => \A n \in DOMAIN past.rows : review[n].creditDelta = Owed(n)
    /\ ~version => Untouched

\* For a user who started at the baseline the backfill finds the true effect of
\* every review, also of those that met the floor or the ceiling.
ExactForRegistered ==
    version => \A n \in DOMAIN review :
        past.start[review[n].user] = Baseline => review[n].creditDelta = effect[n]

\* The seed is inserted at most once, and in its order, however many servers
\* find the table of users empty.
SeededOnce ==
    /\ seeded.users <= 1
    /\ seeded.products <= seeded.users
    /\ seeded.exchanges <= seeded.products

\* A delta that is not zero never changes, and after the version is recorded none
\* does: a late server's replay does not rewrite the zero of a review posted since.
KeepsDeltas ==
    \A n \in DOMAIN review :
        version \/ review[n].creditDelta # 0 => review'[n].creditDelta = review[n].creditDelta

DeltasSettled == [][KeepsDeltas]_vars

\* A server that lost the race for the version, or crashed, comes to serve.
ServesEventually ==
    \A s \in Server : server[s].pc = "down" ~> server[s].pc = "serving"

\* migration.go:79: "backfillReviewCreditDelta reconstructs the ACTUAL per-review
\* credit delta for rows written before reviews.credit_delta existed".
BackfillIsActual ==
    version => \A n \in 1..past.legacy : review[n].creditDelta = effect[n]

=============================================================================
