---------------------------- MODULE StartupProofs ----------------------------
(***************************************************************************)
(* Proofs about Startup for any servers, crashes and pasts.  The seed is   *)
(* inserted by the one server whose users went in (SeedSound).  What a     *)
(* migration has written but not committed is under its row locks, so the  *)
(* row is still untouched when it commits, and it is the only one at its   *)
(* commit (MigrationsSound).                                               *)
(***************************************************************************)
EXTENDS Startup, SequenceTheorems, SumLemmas, TLAPS

Seeding(s) == server[s].pc \in {"seed_products", "seed_exchanges"}

\* How far the seed is, and who is at it.
SeedSound ==
    /\ DOMAIN server = Server
    /\ seeded \in [users : 0..1, products : 0..1, exchanges : 0..1]
    /\ \A s \in Server, t \in Server : Seeding(s) /\ Seeding(t) => s = t
    /\ \A s \in Server :
          /\ server[s].pc = "seed_products" =>
                seeded = [users |-> 1, products |-> 0, exchanges |-> 0]
          /\ server[s].pc = "seed_exchanges" =>
                seeded = [users |-> 1, products |-> 1, exchanges |-> 0]
    /\ SeededOnce

LEMMA AtFacts ==
  \A pc : At(pc) = [pc |-> pc, snap |-> <<>>, user |-> 0, row |-> 0, score |-> 0, wrote |-> <<>>]
BY DEF Blank, At

\* Who moves server s leaves the others where they are.
LEMMA StepFacts ==
  ASSUME DOMAIN server = Server, NEW s \in Server
  PROVE  /\ \A pc : Goto(s, pc) => /\ DOMAIN server' = Server /\ server'[s] = At(pc)
                                  /\ \A t \in Server \ {s} : server'[t] = server[t]
         /\ ReadLegacy(s) => /\ DOMAIN server' = Server
                             /\ server'[s] = [pc |-> "replay", snap |-> review, user |-> 1, row |-> 0,
                                             score |-> Baseline, wrote |-> [n \in DOMAIN review |-> 0]]
                             /\ \A t \in Server \ {s} : server'[t] = server[t]
BY DEF Goto, ReadLegacy

LEMMA ReplayFacts ==
  ASSUME DOMAIN server = Server, NEW s \in Server,
         NEW pc, NEW u, NEW n, NEW standing, NEW wrote, Replay(s, pc, u, n, standing, wrote)
  PROVE  /\ DOMAIN server' = Server
         /\ server'[s] = [pc |-> pc, snap |-> server[s].snap, user |-> u, row |-> n,
                         score |-> standing, wrote |-> wrote]
         /\ \A t \in Server \ {s} : server'[t] = server[t]
BY DEF Replay

\* A step of one server that inserts nothing leaves the seed as it was, unless it
\* comes to insert the products or the exchanges.
LEMMA SeedQuiet ==
  ASSUME SeedSound, UNCHANGED seeded, DOMAIN server' = Server,
         \A s \in Server : server'[s].pc \in {"seed_products", "seed_exchanges"} =>
                              server'[s].pc = server[s].pc
  PROVE  SeedSound'
BY DEF SeedSound, Seeding, SeededOnce


LEMMA SeedKeeps == SeedSound /\ [Next]_vars => SeedSound'
<1> SUFFICES ASSUME SeedSound, [Next]_vars PROVE SeedSound'
  OBVIOUS
<1>1. CASE UNCHANGED vars
  BY <1>1, SeedQuiet DEF vars, database, SeedSound
<1>2. ASSUME NEW s \in Server, NEW pc, Goto(s, pc)
      PROVE  /\ server'[s].pc = pc /\ DOMAIN server' = Server
             /\ \A t \in Server \ {s} : server'[t] = server[t]
  BY <1>2, AtFacts, StepFacts DEF SeedSound
<1>3. ASSUME NEW s \in Server, UNCHANGED seeded,
             \/ UNCHANGED server
             \/ \E pc \in {"check", "seed_count", "read", "down", "serving", "seed_users"} : Goto(s, pc)
      PROVE  SeedSound'
  BY <1>2, <1>3, SeedQuiet DEF SeedSound
<1>4. ASSUME NEW s \in Server,
             \/ Boot(s) \/ Check(s) \/ Commit(s) \/ LockError(s) \/ SeedCount(s) \/ SeedFail(s)
             \/ Crash(s) \/ SignUp(s)
             \/ \E u \in User, rating \in Posted : PostReview(s, u, rating)
      PROVE  SeedSound'
  BY <1>3, <1>4
     DEF Boot, Check, Commit, LockError, SeedCount, SeedFail, Crash, SignUp, PostReview, database
<1>5. ASSUME NEW s \in Server,
             ReadLegacy(s) \/ NextUser(s) \/ ReplayRow(s) \/ ReplayDone(s) \/ Record(s)
      PROVE  SeedSound'
  <2>1. \/ ReadLegacy(s)
        \/ \E pc \in {"replay", "record", "commit"} : \E u, n, standing, wrote :
              Replay(s, pc, u, n, standing, wrote)
        \/ Goto(s, "down")
    BY <1>5 DEF NextUser, ReplayRow, ReplayDone, Record
  <2>2. /\ DOMAIN server' = Server /\ \A t \in Server \ {s} : server'[t] = server[t]
        /\ server'[s].pc \notin {"seed_products", "seed_exchanges"}
    <3>1. DOMAIN server = Server
      BY DEF SeedSound
    <3>2. CASE ReadLegacy(s)
      BY <3>1, <3>2, StepFacts
    <3>3. ASSUME NEW pc \in {"replay", "record", "commit"}, NEW u, NEW n, NEW standing, NEW wrote,
                 Replay(s, pc, u, n, standing, wrote)
          PROVE  /\ DOMAIN server' = Server /\ \A t \in Server \ {s} : server'[t] = server[t]
                 /\ server'[s].pc = pc
      <4>1. server'[s] = [pc |-> pc, snap |-> server[s].snap, user |-> u, row |-> n,
                         score |-> standing, wrote |-> wrote]
        BY <3>1, <3>3, ReplayFacts
      <4>2. DOMAIN server' = Server /\ \A t \in Server \ {s} : server'[t] = server[t]
        BY <3>1, <3>3, ReplayFacts
      <4> QED
        BY <4>1, <4>2
    <3>4. CASE Goto(s, "down")
      BY <3>4, <1>2
    <3> QED
      BY <2>1, <3>2, <3>3, <3>4
  <2>3. UNCHANGED seeded
    BY <1>5 DEF ReadLegacy, NextUser, ReplayRow, ReplayDone, Record, database
  <2> QED
    BY <2>2, <2>3, SeedQuiet
<1>6. ASSUME NEW s \in Server, SeedUsers(s)
      PROVE  SeedSound'
  BY <1>2, <1>3, <1>6 DEF SeedUsers, SeedSound, Seeding, SeededOnce
<1>7. ASSUME NEW s \in Server, SeedProducts(s)
      PROVE  SeedSound'
  BY <1>2, <1>7 DEF SeedProducts, SeedSound, Seeding, SeededOnce
<1>8. ASSUME NEW s \in Server, SeedExchanges(s)
      PROVE  SeedSound'
  BY <1>2, <1>8 DEF SeedExchanges, SeedSound, Seeding, SeededOnce
<1> QED
  BY <1>1, <1>4, <1>5, <1>6, <1>7, <1>8 DEF Next, Step

\* However many servers find no users, crash between the INSERTs of seed or start
\* again, each part of the seed is inserted at most once, and in its order.
THEOREM SeedsOnce == Spec => []SeededOnce
<1>1. Init => SeedSound
  BY AtFacts DEF Init, SeedSound, Seeding, SeededOnce, Blank
<1>2. SeedSound => SeededOnce
  BY DEF SeedSound
<1> QED
  BY <1>1, <1>2, SeedKeeps, PTL DEF Spec

-----------------------------------------------------------------------------
(* The migration.                                                           *)

Migrating(s) == server[s].pc \in {"replay", "record", "commit"}

\* What a migration has seen and written: only rows that it holds, which are
\* still untouched.
MigrationSound(c) ==
    /\ c.user \in Nat /\ c.row \in Nat
    /\ DOMAIN c.snap \subseteq DOMAIN review
    /\ \A n \in DOMAIN c.snap : c.snap[n].user \in Nat \ {0}
    /\ DOMAIN c.wrote = DOMAIN c.snap
    /\ \A n \in DOMAIN c.snap :
          c.wrote[n] # 0 => HoldsRow(c, n) /\ review[n].creditDelta = 0
    /\ c.pc = "commit" => ~version

HasUser(x) == "user" \in DOMAIN x /\ x.user \in Nat \ {0}

Rows == {review[n] : n \in DOMAIN review}

MigrationsSound ==
    /\ DOMAIN server = Server
    /\ review \in Seq(Rows)
    /\ \A n \in DOMAIN review : HasUser(review[n])
    /\ \A s \in Server : Migrating(s) => MigrationSound(server[s])
    /\ \A s \in Server, t \in Server :
          server[s].pc = "commit" /\ server[t].pc = "commit" => s = t
    /\ \A s \in Server, t \in Server, n \in DOMAIN review :
          HoldsRow(server[s], n) /\ HoldsRow(server[t], n) => s = t

\* One server moves: what is left to show is that it keeps its own promises.
LEMMA OneMoves ==
  ASSUME MigrationsSound, UNCHANGED <<review, version>>, NEW s \in Server,
         DOMAIN server' = Server, \A t \in Server \ {s} : server'[t] = server[t],
         Migrating(s)' => MigrationSound(server'[s]),
         server'[s].pc = "commit" => \A t \in Server \ {s} : server[t].pc # "commit",
         \A n \in DOMAIN review : HoldsRow(server'[s], n) =>
            \A t \in Server \ {s} : ~HoldsRow(server[t], n)
  PROVE  MigrationsSound'
<1>1. ASSUME NEW t \in Server, Migrating(t)'
      PROVE  MigrationSound(server'[t])
  BY <1>1 DEF MigrationsSound, Migrating
<1>2. \A c : MigrationSound(c) => MigrationSound(c)'
  BY DEF MigrationSound, HoldsRow
<1>3. ASSUME NEW t \in Server, NEW u \in Server, server'[t].pc = "commit", server'[u].pc = "commit"
      PROVE  t = u
  BY <1>3 DEF MigrationsSound
<1>4. ASSUME NEW t \in Server, NEW u \in Server, NEW n \in DOMAIN review,
             HoldsRow(server'[t], n), HoldsRow(server'[u], n)
      PROVE  t = u
  BY <1>4 DEF MigrationsSound
<1>5. review' \in Seq(Rows') /\ \A n \in DOMAIN review' : HasUser(review'[n])
  BY DEF MigrationsSound, Rows
<1> QED
  BY <1>1, <1>2, <1>3, <1>4, <1>5 DEF MigrationsSound, MigrationSound, HoldsRow

LEMMA NothingMoves ==
  ASSUME MigrationsSound, UNCHANGED <<review, version, server>>
  PROVE  MigrationsSound'
<1>1. \A c : MigrationSound(c) => MigrationSound(c)'
  BY DEF MigrationSound, HoldsRow
<1>2. Rows' = Rows /\ \A s : Migrating(s)' <=> Migrating(s)
  BY DEF Rows, Migrating
<1> QED
  BY <1>1, <1>2 DEF MigrationsSound, HoldsRow

LEMMA NoMoreLocks ==
  ASSUME MigrationsSound, UNCHANGED <<review, version>>, NEW s \in Server,
         DOMAIN server' = Server, \A t \in Server \ {s} : server'[t] = server[t],
         ~Migrating(s)'
  PROVE  MigrationsSound'
<1>1. (\A n \in DOMAIN review : ~HoldsRow(server'[s], n)) /\ server'[s].pc # "commit"
  BY DEF HoldsRow, Migrating
<1> QED
  BY <1>1, OneMoves

LEMMA ReadLegacyKeeps ==
  ASSUME MigrationsSound, NEW s \in Server, ReadLegacy(s)
  PROVE  MigrationsSound'
<1>1. /\ DOMAIN server' = Server /\ \A t \in Server \ {s} : server'[t] = server[t]
      /\ server'[s] = [pc |-> "replay", snap |-> review, user |-> 1, row |-> 0,
                      score |-> Baseline, wrote |-> [n \in DOMAIN review |-> 0]]
  BY StepFacts DEF MigrationsSound
<1>2. UNCHANGED <<review, version>>
  BY DEF ReadLegacy, database
<1>3. DOMAIN review \subseteq Nat \ {0} /\ \A n \in DOMAIN review : review[n].user \in Nat \ {0}
  BY LenProperties DEF MigrationsSound, HasUser
<1>4. MigrationSound(server'[s])
  BY <1>1, <1>3 DEF MigrationSound
<1>5. ASSUME NEW n \in DOMAIN review, HoldsRow(server'[s], n)
      PROVE  FALSE
  BY <1>1, <1>3, <1>5 DEF HoldsRow
<1> QED
  BY <1>1, <1>2, <1>3, <1>4, <1>5, OneMoves

\* The transaction goes on, with what it had and the locks it had.
LEMMA SameLocks ==
  ASSUME MigrationsSound, UNCHANGED <<review, version>>, NEW s \in Server, Migrating(s),
         NEW pc \in {"replay", "record", "commit"}, NEW u \in Nat, NEW n \in Nat, NEW standing,
         Replay(s, pc, u, n, standing, server[s].wrote),
         \A m \in DOMAIN server[s].snap :
            LET z == server[s].snap[m] IN
            (z.user < u \/ (z.user = u /\ m <= n)) <=>
               (z.user < server[s].user \/ (z.user = server[s].user /\ m <= server[s].row)),
         pc = "commit" => ~version /\ \A t \in Server \ {s} : server[t].pc # "commit"
  PROVE  MigrationsSound'
<1>1. /\ DOMAIN server' = Server /\ \A t \in Server \ {s} : server'[t] = server[t]
      /\ server'[s] = [pc |-> pc, snap |-> server[s].snap, user |-> u, row |-> n,
                      score |-> standing, wrote |-> server[s].wrote]
  BY ReplayFacts DEF MigrationsSound
<1>2. MigrationSound(server[s])
  BY DEF MigrationsSound
<1>3. \A m : HoldsRow(server'[s], m) <=> HoldsRow(server[s], m)
  BY <1>1 DEF HoldsRow, Migrating
<1>4. MigrationSound(server'[s])
  BY <1>1, <1>2, <1>3 DEF MigrationSound
<1>5. \A m \in DOMAIN review : HoldsRow(server[s], m) =>
         \A t \in Server \ {s} : ~HoldsRow(server[t], m)
  BY DEF MigrationsSound
<1> QED
  BY <1>1, <1>3, <1>4, <1>5, OneMoves

LEMMA NextUserKeeps ==
  ASSUME MigrationsSound, NEW s \in Server, NextUser(s)
  PROVE  MigrationsSound'
<1>1. Migrating(s) /\ UNCHANGED <<review, version>>
  BY DEF NextUser, Migrating, database
<1>2. PICK c : c = server[s]
  OBVIOUS
<1>3. MigrationSound(c) /\ DOMAIN c.snap \subseteq Nat /\ c.user \in Nat /\ c.row \in Nat
  BY <1>1, <1>2, LenProperties DEF MigrationsSound, MigrationSound
<1>4. {m \in DOMAIN c.snap : m > c.row /\ c.snap[m].user = c.user} = {}
  <2>1. Due(c) = {}
    BY <1>2 DEF NextUser
  <2> QED
    BY <1>3, <2>1, LeastNumber DEF Due
<1>5. \A m \in DOMAIN c.snap :
         (c.snap[m].user < c.user + 1 \/ (c.snap[m].user = c.user + 1 /\ m <= 0)) <=>
            (c.snap[m].user < c.user \/ (c.snap[m].user = c.user /\ m <= c.row))
  <2> SUFFICES ASSUME NEW m \in DOMAIN c.snap
               PROVE  (c.snap[m].user < c.user + 1 \/ (c.snap[m].user = c.user + 1 /\ m <= 0)) <=>
                         (c.snap[m].user < c.user \/ (c.snap[m].user = c.user /\ m <= c.row))
    OBVIOUS
  <2>1. m \in Nat \ {0} /\ c.snap[m].user \in Nat
    BY <1>3, LenProperties DEF MigrationsSound, MigrationSound
  <2>2. c.snap[m].user = c.user => m <= c.row
    BY <1>3, <1>4, <2>1
  <2> QED
    BY <1>3, <2>1, <2>2
<1>6. Replay(s, "replay", server[s].user + 1, 0, Baseline, server[s].wrote)
  BY DEF NextUser
<1>7. \A m \in DOMAIN server[s].snap :
         LET z == server[s].snap[m] IN
         (z.user < server[s].user + 1 \/ (z.user = server[s].user + 1 /\ m <= 0)) <=>
            (z.user < server[s].user \/ (z.user = server[s].user /\ m <= server[s].row))
  BY <1>2, <1>5
<1>8. server[s].user + 1 \in Nat /\ 0 \in Nat
  BY <1>2, <1>3
<1> QED
  BY <1>1, <1>6, <1>7, <1>8, SameLocks

LEMMA ReplayDoneKeeps ==
  ASSUME MigrationsSound, NEW s \in Server, ReplayDone(s)
  PROVE  MigrationsSound'
<1>1. Migrating(s) /\ UNCHANGED <<review, version>>
  BY DEF ReplayDone, Migrating, database
<1>2. server[s].user \in Nat /\ server[s].row \in Nat
  BY <1>1 DEF MigrationsSound, MigrationSound
<1> QED
  BY <1>1, <1>2, SameLocks DEF ReplayDone

LEMMA RecordKeeps ==
  ASSUME MigrationsSound, NEW s \in Server, Record(s)
  PROVE  MigrationsSound'
<1>1. Migrating(s) /\ UNCHANGED <<review, version>>
  BY DEF Record, Migrating, database
<1>2. server[s].user \in Nat /\ server[s].row \in Nat
  BY <1>1 DEF MigrationsSound, MigrationSound
<1>3. CASE ~version
  BY <1>1, <1>2, <1>3, SameLocks DEF Record, VersionFree
<1>4. CASE Goto(s, "down")
  <2>1. /\ DOMAIN server' = Server /\ \A t \in Server \ {s} : server'[t] = server[t]
        /\ server'[s].pc = "down"
    BY <1>4, StepFacts, AtFacts DEF MigrationsSound
  <2> QED
    BY <1>1, <2>1, NoMoreLocks DEF Migrating
<1> QED
  BY <1>3, <1>4 DEF Record


\* A row is locked if it had a zero, and written only if it still has it.
LEMMA ReplayRowKeeps ==
  ASSUME MigrationsSound, NEW s \in Server, ReplayRow(s)
  PROVE  MigrationsSound'
<1>1. Migrating(s) /\ UNCHANGED <<review, version>>
  BY DEF ReplayRow, Migrating, database
<1>2. PICK c : c = server[s]
  OBVIOUS
<1>3. PICK n, standing, actual :
         /\ n \in Due(c)
         /\ c.snap[n].creditDelta = 0 => RowFree(s, n)
         /\ Replay(s, "replay", c.user, n, standing,
                   [c.wrote EXCEPT ![n] = IF c.snap[n].creditDelta = 0 /\ review[n].creditDelta = 0
                                          THEN actual ELSE @])
  BY <1>2 DEF ReplayRow
<1>4. PICK d : d = [pc |-> "replay", snap |-> c.snap, user |-> c.user, row |-> n,
                    score |-> standing,
                    wrote |-> [c.wrote EXCEPT ![n] =
                        IF c.snap[n].creditDelta = 0 /\ review[n].creditDelta = 0
                        THEN actual ELSE @]]
  OBVIOUS
<1>5. /\ DOMAIN server' = Server /\ \A t \in Server \ {s} : server'[t] = server[t]
      /\ server'[s] = d
  BY <1>2, <1>3, <1>4, ReplayFacts DEF MigrationsSound
<1>6. /\ MigrationSound(c) /\ DOMAIN c.snap \subseteq Nat /\ c.pc = "replay"
      /\ c.user \in Nat /\ c.row \in Nat
  BY <1>1, <1>2, LenProperties DEF MigrationsSound, MigrationSound, ReplayRow
<1>7. /\ n \in DOMAIN c.snap /\ n > c.row /\ c.snap[n].user = c.user
      /\ \A m \in DOMAIN c.snap : m > c.row /\ c.snap[m].user = c.user => n <= m
  BY <1>3 DEF Due
<1>8. \A m : HoldsRow(d, m) => HoldsRow(c, m) \/ (m = n /\ c.snap[n].creditDelta = 0)
  BY <1>4, <1>6, <1>7 DEF HoldsRow, MigrationSound
<1>9. /\ \A m : HoldsRow(c, m) => HoldsRow(d, m)
      /\ c.snap[n].creditDelta = 0 => HoldsRow(d, n)
  BY <1>4, <1>6, <1>7 DEF HoldsRow, MigrationSound
<1>10. MigrationSound(d)
  <2>1. \A m \in DOMAIN c.snap :
           d.wrote[m] # 0 =>
              \/ c.wrote[m] # 0
              \/ m = n /\ c.snap[n].creditDelta = 0 /\ review[n].creditDelta = 0
    <3>1. DOMAIN c.wrote = DOMAIN c.snap
      BY <1>6 DEF MigrationSound
    <3>2. d.wrote = [c.wrote EXCEPT ![n] =
                        IF c.snap[n].creditDelta = 0 /\ review[n].creditDelta = 0
                        THEN actual ELSE @]
      BY <1>4
    <3>3. \A m \in DOMAIN c.snap : m # n => d.wrote[m] = c.wrote[m]
      BY <3>1, <3>2
    <3>4. d.wrote[n] = IF c.snap[n].creditDelta = 0 /\ review[n].creditDelta = 0
                      THEN actual ELSE c.wrote[n]
      BY <1>7, <3>1, <3>2
    <3> QED
      BY <3>3, <3>4
  <2>2. /\ d.pc = "replay" /\ d.snap = c.snap /\ d.user = c.user /\ d.row = n
        /\ DOMAIN d.wrote = DOMAIN c.snap
    BY <1>4, <1>6 DEF MigrationSound
  <2>3. n \in Nat
    BY <1>6, <1>7
  <2> QED
    BY <1>6, <1>9, <2>1, <2>2, <2>3 DEF MigrationSound
<1>11. \A m \in DOMAIN review : HoldsRow(d, m) => \A t \in Server \ {s} : ~HoldsRow(server[t], m)
  BY <1>2, <1>3, <1>8 DEF MigrationsSound, RowFree
<1> QED
  BY <1>1, <1>4, <1>5, <1>10, <1>11, OneMoves

LEMMA RangeSeq ==
  ASSUME NEW S, NEW q \in Seq(S)
  PROVE  q \in Seq({q[n] : n \in DOMAIN q})
<1>1. Len(q) \in Nat /\ q \in [1..Len(q) -> S] /\ DOMAIN q = 1..Len(q)
  BY LenProperties
<1>2. q \in [1..Len(q) -> {q[n] : n \in DOMAIN q}]
  BY <1>1
<1> QED
  BY <1>1, <1>2, SeqDef

\* A review that is posted touches no row that is there.
LEMMA PostReviewKeeps ==
  ASSUME MigrationsSound, NEW s \in Server, NEW u \in User, NEW rating, PostReview(s, u, rating)
  PROVE  MigrationsSound'
<1>1. PICK x : HasUser(x) /\ review' = Append(review, x)
  BY StartupBounds DEF PostReview, Review, User, HasUser
<1>2. review \in Seq(Rows \cup {x})
  BY SeqMonotonic DEF MigrationsSound
<1>3. /\ review' \in Seq(Rows \cup {x})
      /\ Len(review') = Len(review) + 1
      /\ \A i \in 1..Len(review) : review'[i] = review[i]
      /\ review'[Len(review) + 1] = x
  BY <1>1, <1>2, AppendProperties
<1>4. /\ Len(review) \in Nat
      /\ DOMAIN review = 1..Len(review) /\ DOMAIN review' = 1..(Len(review) + 1)
  BY <1>2, <1>3, LenProperties
<1>5. review' \in Seq(Rows')
  BY <1>3, RangeSeq DEF Rows
<1>6. \A n \in DOMAIN review' : HasUser(review'[n])
  BY <1>1, <1>3, <1>4 DEF MigrationsSound
<1>7. UNCHANGED <<server, version>>
  BY DEF PostReview
<1>8. \A c : MigrationSound(c) => MigrationSound(c)'
  BY <1>3, <1>4, <1>7 DEF MigrationSound, HoldsRow
<1>9. ASSUME NEW t \in Server, NEW v \in Server, NEW n \in DOMAIN review',
             HoldsRow(server[t], n), HoldsRow(server[v], n)
      PROVE  t = v
  <2>1. n \in DOMAIN server[t].snap /\ Migrating(t)
    BY <1>9 DEF HoldsRow, Migrating
  <2>2. n \in DOMAIN review
    BY <2>1 DEF MigrationsSound, MigrationSound
  <2> QED
    BY <1>9, <2>2 DEF MigrationsSound
<1> QED
  BY <1>5, <1>6, <1>7, <1>8, <1>9 DEF MigrationsSound, Migrating, HoldsRow

\* A commit writes to rows that it holds, and it is the only one at its commit.
LEMMA CommitKeeps ==
  ASSUME MigrationsSound, NEW s \in Server, Commit(s)
  PROVE  MigrationsSound' /\ KeepsDeltas
<1>1. /\ DOMAIN server' = Server /\ \A t \in Server \ {s} : server'[t] = server[t]
      /\ server'[s].pc = "seed_count"
  BY StepFacts, AtFacts DEF Commit, MigrationsSound
<1>2. PICK c : c = server[s]
  OBVIOUS
<1>3. MigrationSound(c) /\ c.pc = "commit"
  BY <1>2 DEF MigrationsSound, Commit, Migrating
<1>4. /\ DOMAIN review' = DOMAIN review
      /\ \A n \in DOMAIN review :
            review'[n] = IF n \in DOMAIN c.wrote /\ c.wrote[n] # 0
                         THEN [review[n] EXCEPT !.creditDelta = c.wrote[n]] ELSE review[n]
      /\ review' = [n \in DOMAIN review |-> review'[n]]
  BY <1>2 DEF Commit
<1>5. ASSUME NEW n \in DOMAIN review, ~(n \in DOMAIN c.wrote /\ c.wrote[n] # 0)
      PROVE  review'[n] = review[n]
  BY <1>4, <1>5
<1>6. ASSUME NEW n \in DOMAIN review, n \in DOMAIN c.wrote, c.wrote[n] # 0
      PROVE  /\ HoldsRow(c, n) /\ review[n].creditDelta = 0
  BY <1>3, <1>6 DEF MigrationSound
<1>7. KeepsDeltas
  BY <1>3, <1>5, <1>6 DEF KeepsDeltas, MigrationSound
<1>8. review' \in Seq(Rows')
  <2>1. Len(review) \in Nat /\ DOMAIN review = 1..Len(review)
    BY LenProperties DEF MigrationsSound
  <2>2. review' \in [1..Len(review) -> Rows']
    BY <1>4, <2>1 DEF Rows
  <2> QED
    BY <2>1, <2>2, SeqDef
<1>9. \A n \in DOMAIN review' : HasUser(review'[n])
  BY <1>4 DEF MigrationsSound, HasUser
<1>10. ASSUME NEW t \in Server \ {s}, Migrating(t)
       PROVE  MigrationSound(server[t])'
  <2>1. MigrationSound(server[t]) /\ server[t].pc # "commit" /\ server'[t] = server[t]
    BY <1>1, <1>2, <1>3, <1>10 DEF MigrationsSound
  <2>2. ASSUME NEW n \in DOMAIN server[t].snap, server[t].wrote[n] # 0
        PROVE  HoldsRow(server[t], n) /\ review'[n].creditDelta = 0
    <3>1. HoldsRow(server[t], n) /\ review[n].creditDelta = 0 /\ n \in DOMAIN review
      BY <2>1, <2>2 DEF MigrationSound
    <3>2. ~HoldsRow(c, n)
      BY <1>2, <3>1 DEF MigrationsSound
    <3> QED
      BY <1>5, <1>6, <3>1, <3>2
  <2> QED
    BY <1>4, <2>1, <2>2 DEF MigrationSound, HoldsRow
<1>11. ~Migrating(s)' /\ \A n : ~HoldsRow(server'[s], n)
  BY <1>1 DEF Migrating, HoldsRow
<1>12. \A t \in Server : Migrating(t)' => MigrationSound(server[t])'
  BY <1>1, <1>10, <1>11 DEF Migrating
<1>13. \A t \in Server, u \in Server :
          server'[t].pc = "commit" /\ server'[u].pc = "commit" => t = u
  BY <1>1 DEF MigrationsSound
<1>14. ASSUME NEW t \in Server, NEW u \in Server, NEW n \in DOMAIN review',
              HoldsRow(server'[t], n), HoldsRow(server'[u], n)
       PROVE  t = u
  BY <1>1, <1>4, <1>11, <1>14 DEF MigrationsSound
<1> QED
  BY <1>1, <1>7, <1>8, <1>9, <1>12, <1>13, <1>14 DEF MigrationsSound, HoldsRow

LEMMA MigrationsKeep == MigrationsSound /\ [Next]_vars => MigrationsSound' /\ [KeepsDeltas]_vars
<1> SUFFICES ASSUME MigrationsSound, [Next]_vars PROVE MigrationsSound' /\ KeepsDeltas
  OBVIOUS
<1>1. UNCHANGED review => KeepsDeltas
  BY DEF KeepsDeltas
<1>2. CASE UNCHANGED vars
  BY <1>1, <1>2, NothingMoves DEF vars, database
<1>3. ASSUME NEW s \in Server, UNCHANGED <<review, version>>,
             \/ UNCHANGED server
             \/ \E pc \in {"check", "seed_count", "read", "down", "serving", "seed_users",
                           "seed_products", "seed_exchanges"} : Goto(s, pc)
      PROVE  MigrationsSound'
  <2>1. CASE UNCHANGED server
    BY <1>3, <2>1, NothingMoves
  <2>2. ASSUME NEW pc \in {"check", "seed_count", "read", "down", "serving", "seed_users",
                          "seed_products", "seed_exchanges"}, Goto(s, pc)
        PROVE  MigrationsSound'
    <3>1. /\ DOMAIN server' = Server /\ \A t \in Server \ {s} : server'[t] = server[t]
          /\ server'[s].pc = pc
      BY <2>2, StepFacts, AtFacts DEF MigrationsSound
    <3> QED
      BY <1>3, <3>1, NoMoreLocks DEF Migrating
  <2> QED
    BY <1>3, <2>1, <2>2
<1>4. ASSUME NEW s \in Server,
             \/ Boot(s) \/ Check(s) \/ LockError(s) \/ SeedCount(s) \/ SeedFail(s)
             \/ Crash(s) \/ SignUp(s) \/ SeedUsers(s) \/ SeedProducts(s) \/ SeedExchanges(s)
      PROVE  MigrationsSound' /\ UNCHANGED review
  BY <1>3, <1>4
     DEF Boot, Check, LockError, SeedCount, SeedFail, Crash, SignUp, SeedUsers, SeedProducts,
         SeedExchanges, database
<1>5. ASSUME NEW s \in Server,
             ReadLegacy(s) \/ NextUser(s) \/ ReplayRow(s) \/ ReplayDone(s) \/ Record(s)
      PROVE  MigrationsSound' /\ UNCHANGED review
  BY <1>5, ReadLegacyKeeps, NextUserKeeps, ReplayRowKeeps, ReplayDoneKeeps, RecordKeeps
     DEF ReadLegacy, NextUser, ReplayRow, ReplayDone, Record, database
<1>6. ASSUME NEW s \in Server, NEW u \in User, NEW rating \in Posted, PostReview(s, u, rating)
      PROVE  MigrationsSound' /\ KeepsDeltas
  <2>1. PICK x : review' = Append(review, x)
    BY <1>6 DEF PostReview
  <2>2. review \in Seq(Rows \cup {x})
    BY SeqMonotonic DEF MigrationsSound
  <2>3. \A i \in DOMAIN review : review'[i] = review[i]
    BY <2>1, <2>2, AppendProperties, LenProperties
  <2> QED
    BY <1>6, <2>3, PostReviewKeeps DEF KeepsDeltas
<1> QED
  BY <1>1, <1>2, <1>4, <1>5, <1>6, CommitKeeps DEF Next, Step

LEMMA MigrationsStart == Init => MigrationsSound
<1> SUFFICES ASSUME Init PROVE MigrationsSound
  OBVIOUS
<1>1. /\ past \in Pasts /\ DOMAIN server = Server /\ \A s \in Server : server[s].pc = "down"
      /\ DOMAIN review = DOMAIN past.rows
      /\ \A n \in DOMAIN review : "user" \in DOMAIN review[n] /\ review[n].user = past.rows[n][1]
  BY DEF Init, Blank, Review, Bare
<1>2. past.rows \in Seq(User \X Ratings)
  BY <1>1, PastsAssumption
<1>3. /\ Len(past.rows) \in Nat /\ DOMAIN past.rows = 1..Len(past.rows)
      /\ \A n \in DOMAIN past.rows : past.rows[n][1] \in User
  BY <1>2, LenProperties, ElementOfSeq
<1>4. review \in Seq(Rows)
  <2>1. review = [n \in DOMAIN review |-> review[n]]
    BY DEF Init
  <2>2. review \in [1..Len(past.rows) -> Rows]
    BY <1>1, <1>3, <2>1 DEF Rows
  <2> QED
    BY <1>3, <2>2, SeqDef
<1>5. \A n \in DOMAIN review : HasUser(review[n])
  BY <1>1, <1>3, StartupBounds DEF User, HasUser
<1> QED
  BY <1>1, <1>4, <1>5 DEF MigrationsSound, Migrating, HoldsRow

\* Whoever crashes and however many servers migrate at once: a delta that a review
\* has is never changed, and after the version is recorded not even a zero is
\* (the UPDATE's "AND credit_delta = 0", and one transaction for rows and version).
THEOREM DeltasSettle == Spec => DeltasSettled
<1>1. Spec => []MigrationsSound
  BY MigrationsStart, MigrationsKeep, PTL DEF Spec
<1>2. MigrationsSound /\ [Next]_vars => [KeepsDeltas]_vars
  BY MigrationsKeep
<1> QED
  BY <1>1, <1>2, PTL DEF Spec, DeltasSettled

-----------------------------------------------------------------------------
(* Before the version.                                                      *)

Seeds == {"seed_count", "seed_users", "seed_products", "seed_exchanges", "serving"}

\* A server is past the migration only when the version is recorded.
Unmigrated ==
    /\ DOMAIN server = Server
    /\ ~version => Untouched /\ \A s \in Server : server[s].pc \notin Seeds

\* Until the version is recorded nobody serves and no row of an earlier release
\* has been touched, however many migrations have run halfway.
LEMMA AlwaysUnmigrated == Spec => []Unmigrated
<1>1. Init => Unmigrated
  <2> SUFFICES ASSUME Init PROVE Unmigrated
    OBVIOUS
  <2>1. /\ past.rows \in Seq(User \X Ratings) /\ past.legacy \in 0..Len(past.rows)
        /\ DOMAIN review = DOMAIN past.rows
    BY PastsAssumption DEF Init, Bare
  <2>2. 1..past.legacy \subseteq DOMAIN past.rows /\ \A n \in 1..past.legacy : n <= past.legacy
    BY <2>1, LenProperties
  <2>3. \A n \in DOMAIN review :
           review[n].creditDelta = IF n <= past.legacy THEN 0 ELSE effect[n]
    BY DEF Init, Review
  <2>4. \A n \in 1..past.legacy : review[n].creditDelta = 0
    BY <2>1, <2>2, <2>3
  <2> QED
    BY <2>4, AtFacts DEF Init, Unmigrated, Untouched, Blank, Seeds
<1>2. Unmigrated /\ [Next]_vars => Unmigrated'
  <2> SUFFICES ASSUME Unmigrated, [Next]_vars PROVE Unmigrated'
    OBVIOUS
  <2>1. CASE UNCHANGED vars
    BY <2>1 DEF vars, database, history, Unmigrated, Untouched
  <2>2. ASSUME NEW s \in Server, UNCHANGED <<review, version, past>>,
               DOMAIN server' = Server, \A t \in Server \ {s} : server'[t] = server[t],
               ~version => server'[s].pc \notin Seeds
        PROVE  Unmigrated'
    BY <2>2 DEF Unmigrated, Untouched, Seeds
  <2>3. ASSUME NEW s \in Server, NEW pc, Goto(s, pc)
        PROVE  /\ server'[s].pc = pc /\ DOMAIN server' = Server
               /\ \A t \in Server \ {s} : server'[t] = server[t]
    BY <2>3, AtFacts, StepFacts DEF Unmigrated
  <2>4. ASSUME NEW s \in Server, Boot(s) \/ Check(s) \/ LockError(s) \/ Crash(s)
        PROVE  Unmigrated'
    <3>1. UNCHANGED <<review, version, past>>
      BY <2>4 DEF Boot, Check, LockError, Crash, database, history
    <3>2. PICK pc : Goto(s, pc) /\ (~version => pc \notin Seeds)
      BY <2>4 DEF Boot, Check, LockError, Crash, Seeds
    <3> QED
      BY <2>2, <2>3, <3>1, <3>2
  <2>5. ASSUME NEW s \in Server,
               \/ SeedCount(s) \/ SeedFail(s) \/ SeedUsers(s) \/ SeedProducts(s)
               \/ SeedExchanges(s)
        PROVE  Unmigrated'
    <3>1. UNCHANGED <<review, version, past>> /\ server[s].pc \in Seeds
      BY <2>5 DEF SeedCount, SeedFail, SeedUsers, SeedProducts, SeedExchanges, database, history,
                  Seeds
    <3>2. PICK pc : Goto(s, pc)
      BY <2>5 DEF SeedCount, SeedFail, SeedUsers, SeedProducts, SeedExchanges
    <3>3. version
      BY <3>1 DEF Unmigrated
    <3> QED
      BY <2>2, <2>3, <3>1, <3>2, <3>3
  <2>6. ASSUME NEW s \in Server,
               \/ SignUp(s)
               \/ \E u \in User, rating \in Posted : PostReview(s, u, rating)
        PROVE  Unmigrated'
    <3>1. version /\ UNCHANGED <<version, server>>
      BY <2>6 DEF SignUp, PostReview, Unmigrated, Seeds
    <3> QED
      BY <3>1 DEF Unmigrated
  <2>7. ASSUME NEW s \in Server,
               ReadLegacy(s) \/ NextUser(s) \/ ReplayRow(s) \/ ReplayDone(s) \/ Record(s)
        PROVE  Unmigrated'
    <3>1. UNCHANGED <<review, version, past>>
      BY <2>7 DEF ReadLegacy, NextUser, ReplayRow, ReplayDone, Record, database, history
    <3>2. DOMAIN server = Server
      BY DEF Unmigrated
    <3>3. CASE ReadLegacy(s)
      BY <2>2, <3>1, <3>2, <3>3, StepFacts DEF Seeds
    <3>4. ASSUME NEW pc \in {"replay", "record", "commit"}, NEW u, NEW n, NEW standing, NEW wrote,
                 Replay(s, pc, u, n, standing, wrote)
          PROVE  Unmigrated'
      <4>1. /\ DOMAIN server' = Server /\ \A t \in Server \ {s} : server'[t] = server[t]
            /\ server'[s] = [pc |-> pc, snap |-> server[s].snap, user |-> u, row |-> n,
                            score |-> standing, wrote |-> wrote]
        BY <3>2, <3>4, ReplayFacts
      <4>2. server'[s].pc \notin Seeds
        BY <4>1 DEF Seeds
      <4> QED
        BY <2>2, <3>1, <4>1, <4>2
    <3>5. CASE Goto(s, "down")
      BY <2>2, <2>3, <3>1, <3>5 DEF Seeds
    <3> QED
      BY <2>7, <3>3, <3>4, <3>5 DEF NextUser, ReplayRow, ReplayDone, Record
  <2>8. ASSUME NEW s \in Server, Commit(s)
        PROVE  Unmigrated'
    BY <2>3, <2>8 DEF Commit, Unmigrated
  <2> QED
    BY <2>1, <2>4, <2>5, <2>6, <2>7, <2>8 DEF Next, Step
<1> QED
  BY <1>1, <1>2, PTL DEF Spec

-----------------------------------------------------------------------------
(* Replaying a history.                                                     *)

LEMMA NominalDeltas ==
  ASSUME NEW rating
  PROVE  CreditDelta(rating) \in {-10, 0, 5}
BY DEF CreditDelta

\* A review moves a score by no more than its rating says, and to a score.
LEMMA OneReview ==
  ASSUME NEW s \in Scores, NEW rating
  PROVE  /\ AppliedDelta(s, CreditDelta(rating)) \in -10..5
         /\ ClampCredit(s + CreditDelta(rating)) \in Scores
         /\ s + AppliedDelta(s, CreditDelta(rating)) = ClampCredit(s + CreditDelta(rating))
         /\ ClampCredit(s + AppliedDelta(s, CreditDelta(rating))) =
               ClampCredit(s + CreditDelta(rating))
BY NominalDeltas DEF AppliedDelta, ClampCredit, Scores, MaxCredit

\* The replay step by step.
Stands(g, k, rows, u, base) ==
    /\ g[0] = base
    /\ \A n \in 1..k : g[n] = IF rows[n].user # u THEN g[n - 1]
                              ELSE ClampCredit(g[n - 1] + CreditDelta(rows[n].rating))

LEMMA StandsExists ==
  ASSUME NEW rows, NEW u, NEW base, NEW k \in Nat
  PROVE  \E g : Stands(g, k, rows, u, base)
<1> DEFINE T == {n \in Nat : \E g : Stands(g, n, rows, u, base)}
<1>1. 0 \in T
  <2>1. Stands([m \in {0} |-> base], 0, rows, u, base)
    BY DEF Stands
  <2> QED
    BY <2>1
<1>2. ASSUME NEW n \in Nat, n \in T
      PROVE  n + 1 \in T
  <2>1. PICK g : Stands(g, n, rows, u, base)
    BY <1>2
  <2> DEFINE last == IF rows[n + 1].user # u THEN g[n]
                     ELSE ClampCredit(g[n] + CreditDelta(rows[n + 1].rating))
             h == [m \in 0..(n + 1) |-> IF m = n + 1 THEN last ELSE g[m]]
  <2>2. h[n + 1] = last /\ \A m \in 0..n : h[m] = g[m]
    OBVIOUS
  <2>3. ASSUME NEW m \in 1..(n + 1)
        PROVE  h[m] = IF rows[m].user # u THEN h[m - 1]
                      ELSE ClampCredit(h[m - 1] + CreditDelta(rows[m].rating))
    <3>1. CASE m = n + 1
      BY <2>2, <3>1
    <3>2. CASE m # n + 1
      <4>1. m \in 1..n /\ m - 1 \in 0..n /\ m \in 0..n
        BY <3>2
      <4> HIDE DEF h
      <4> QED
        BY <2>1, <2>2, <4>1 DEF Stands
    <3> QED
      BY <3>1, <3>2
  <2>4. h[0] = base
    BY <2>1, <2>2 DEF Stands
  <2> HIDE DEF h
  <2>5. Stands(h, n + 1, rows, u, base)
    BY <2>3, <2>4 DEF Stands
  <2> QED
    BY <2>5
<1> HIDE DEF T
<1>3. k \in T
  BY <1>1, <1>2, NumberInduction
<1> QED
  BY <1>3 DEF T

LEMMA StandingIs ==
  ASSUME NEW rows, Len(rows) \in Nat, NEW u, NEW base
  PROVE  Stands(Standing(rows, u, base), Len(rows), rows, u, base)
<1> DEFINE body(g) == [n \in 0..Len(rows) |->
              IF n = 0 THEN base
              ELSE IF rows[n].user # u THEN g[n - 1]
              ELSE ClampCredit(g[n - 1] + CreditDelta(rows[n].rating))]
<1>1. Standing(rows, u, base) = CHOOSE g : g = body(g)
  BY Zenon DEF Standing
<1>2. PICK g : Stands(g, Len(rows), rows, u, base)
  BY StandsExists
<1>3. PICK f : f = [n \in 0..Len(rows) |-> g[n]]
  OBVIOUS
<1>4. f = body(f)
  <2>1. ASSUME NEW n \in 0..Len(rows)
        PROVE  f[n] = body(f)[n]
    <3>1. CASE n = 0
      BY <1>2, <1>3, <3>1 DEF Stands
    <3>2. CASE n # 0
      <4>1. n \in 1..Len(rows) /\ n - 1 \in 0..Len(rows)
        BY <3>2
      <4> QED
        BY <1>2, <1>3, <3>2, <4>1 DEF Stands
    <3> QED
      BY <3>1, <3>2
  <2> HIDE DEF body
  <2>2. f = [n \in 0..Len(rows) |-> f[n]]
    BY <1>3
  <2>3. body(f) = [n \in 0..Len(rows) |-> body(f)[n]]
    BY DEF body
  <2> QED
    BY <2>1, <2>2, <2>3
<1>5. PICK h : h = body(h) /\ Standing(rows, u, base) = h
  BY <1>1, <1>4, Zenon
<1>6. Stands(h, Len(rows), rows, u, base)
  <2>1. \A n \in 0..Len(rows) : h[n] = body(h)[n]
    BY <1>5
  <2>2. h[0] = base
    BY <2>1
  <2>3. ASSUME NEW n \in 1..Len(rows)
        PROVE  h[n] = IF rows[n].user # u THEN h[n - 1]
                      ELSE ClampCredit(h[n - 1] + CreditDelta(rows[n].rating))
    <3>1. n \in 0..Len(rows) /\ n # 0
      OBVIOUS
    <3> QED
      BY <2>1, <3>1
  <2> QED
    BY <2>2, <2>3 DEF Stands
<1> QED
  BY <1>5, <1>6

\* Who starts at a score stands at one after every review.
LEMMA StandingIsScore ==
  ASSUME NEW rows, Len(rows) \in Nat, NEW u, NEW base \in Scores, NEW n \in 0..Len(rows)
  PROVE  Standing(rows, u, base)[n] \in Scores
<1>1. PICK a : a = Standing(rows, u, base)
  OBVIOUS
<1>2. Stands(a, Len(rows), rows, u, base)
  BY <1>1, StandingIs
<1> DEFINE T == {k \in Nat : k <= Len(rows) => a[k] \in Scores}
<1>3. 0 \in T
  BY <1>2 DEF Stands
<1>4. ASSUME NEW k \in Nat, k \in T
      PROVE  k + 1 \in T
  <2> SUFFICES ASSUME k + 1 <= Len(rows) PROVE a[k + 1] \in Scores
    OBVIOUS
  <2>1. a[k] \in Scores /\ k + 1 \in 1..Len(rows) /\ (k + 1) - 1 = k
    BY <1>4
  <2>2. a[k + 1] = IF rows[k + 1].user # u THEN a[k]
                   ELSE ClampCredit(a[k] + CreditDelta(rows[k + 1].rating))
    BY <1>2, <2>1 DEF Stands
  <2> QED
    BY <2>1, <2>2, OneReview
<1> HIDE DEF T
<1>5. n \in T
  BY <1>3, <1>4, NumberInduction
<1> QED
  BY <1>1, <1>5 DEF T

\* The reviews of others leave a user where it stands.
LEMMA StandingStays ==
  ASSUME NEW rows, Len(rows) \in Nat, NEW u, NEW base,
         NEW m \in 0..Len(rows), NEW n \in m..Len(rows),
         \A k \in (m + 1)..n : rows[k].user # u
  PROVE  Standing(rows, u, base)[n] = Standing(rows, u, base)[m]
<1>1. PICK a : a = Standing(rows, u, base)
  OBVIOUS
<1>2. Stands(a, Len(rows), rows, u, base)
  BY <1>1, StandingIs
<1> DEFINE T == {k \in Nat : m <= k /\ k <= n => a[k] = a[m]}
<1>3. 0 \in T
  OBVIOUS
<1>4. ASSUME NEW k \in Nat, k \in T
      PROVE  k + 1 \in T
  <2> SUFFICES ASSUME m <= k + 1, k + 1 <= n PROVE a[k + 1] = a[m]
    OBVIOUS
  <2>1. CASE m = k + 1
    BY <2>1
  <2>2. CASE m <= k
    <3>1. a[k] = a[m] /\ k + 1 \in 1..Len(rows) /\ (k + 1) - 1 = k /\ k + 1 \in (m + 1)..n
      BY <1>4, <2>2
    <3> QED
      BY <1>2, <3>1 DEF Stands
  <2> QED
    BY <2>1, <2>2
<1> HIDE DEF T
<1>5. n \in T
  BY <1>3, <1>4, NumberInduction
<1> QED
  BY <1>1, <1>5 DEF T

LEMMA EffectIsSmall ==
  ASSUME NEW rows, Len(rows) \in Nat, NEW base \in Scores, NEW n \in 1..Len(rows)
  PROVE  EffectOf(rows, n, base) \in -10..5
<1>1. n - 1 \in 0..Len(rows)
  OBVIOUS
<1>2. Standing(rows, rows[n].user, base)[n - 1] \in Scores
  BY <1>1, StandingIsScore
<1> QED
  BY <1>2, OneReview DEF EffectOf

-----------------------------------------------------------------------------
(* Types.                                                                   *)

\* A row of reviews.
ReviewRow == [user : User, rating : Ratings, creditDelta : -10..5]

ServerOK(c) ==
    /\ c.pc \in Boots \cup {"down", "serving"}
    /\ c.user \in 0..(Users + 1)
    /\ c.row \in 0..Len(c.snap)
    /\ c.score \in Scores
    /\ c.wrote \in Seq(-10..5)

TypeSound ==
    /\ TypeOK
    /\ DOMAIN server = Server
    /\ past \in Pasts
    /\ \A s \in Server : server[s].snap \in Seq(ReviewRow)

LEMMA BareFacts ==
  ASSUME past \in Pasts
  PROVE  /\ Len(past.rows) \in Nat /\ past.legacy \in 0..Len(past.rows)
         /\ past.start \in [User -> Scores]
         /\ DOMAIN Bare = 1..Len(past.rows) /\ Len(Bare) = Len(past.rows)
         /\ \A n \in 1..Len(past.rows) :
               /\ Bare[n].user \in User /\ Bare[n].rating \in Ratings
               /\ Bare[n].creditDelta = 0
<1>1. past.rows \in Seq(User \X Ratings) /\ past.legacy \in 0..Len(past.rows)
      /\ past.start \in [User -> Scores]
  BY PastsAssumption
<1>2. /\ Len(past.rows) \in Nat /\ DOMAIN past.rows = 1..Len(past.rows)
      /\ \A n \in 1..Len(past.rows) : past.rows[n] \in User \X Ratings
  BY <1>1, LenProperties, ElementOfSeq
<1>3. /\ DOMAIN Bare = 1..Len(past.rows)
      /\ \A n \in 1..Len(past.rows) : Bare[n] = Review(past.rows[n][1], past.rows[n][2], 0)
  BY <1>2 DEF Bare
<1>4. \A n \in 1..Len(past.rows) :
         Bare[n].user \in User /\ Bare[n].rating \in Ratings /\ Bare[n].creditDelta = 0
  <2>1. \A n \in 1..Len(past.rows) : past.rows[n][1] \in User /\ past.rows[n][2] \in Ratings
    BY <1>2
  <2> SUFFICES ASSUME NEW n \in 1..Len(past.rows)
               PROVE  /\ Bare[n].user \in User /\ Bare[n].rating \in Ratings
                      /\ Bare[n].creditDelta = 0
    OBVIOUS
  <2>2. Bare[n] = Review(past.rows[n][1], past.rows[n][2], 0)
    BY <1>3
  <2> QED
    BY <2>1, <2>2 DEF Review
<1>5. Bare \in Seq({Bare[n] : n \in 1..Len(past.rows)})
  <2>1. Bare = [n \in 1..Len(past.rows) |-> Bare[n]]
    BY <1>2 DEF Bare
  <2>2. Bare \in [1..Len(past.rows) -> {Bare[n] : n \in 1..Len(past.rows)}]
    BY <2>1
  <2> QED
    BY <1>2, <2>2, SeqDef
<1>6. Len(Bare) = Len(past.rows)
  BY <1>2, <1>3, <1>5, LenProperties
<1> QED
  BY <1>1, <1>2, <1>3, <1>4, <1>6

LEMMA InitTypes == Init => TypeSound
<1> SUFFICES ASSUME Init PROVE TypeSound
  OBVIOUS
<1> DEFINE N == Len(past.rows)
<1>1. /\ past \in Pasts /\ version = FALSE /\ crashes = 0 /\ signedUp \in BOOLEAN
      /\ server = [s \in Server |-> Blank]
      /\ effect = [n \in DOMAIN Bare |-> EffectOf(Bare, n, past.start[Bare[n].user])]
      /\ review = [n \in DOMAIN Bare |->
            Review(Bare[n].user, Bare[n].rating, IF n <= past.legacy THEN 0 ELSE effect[n])]
      /\ score = [u \in User |-> Standing(Bare, u, past.start[u])[Len(Bare)]]
  BY DEF Init
<1>2. /\ N \in Nat /\ past.start \in [User -> Scores]
      /\ DOMAIN Bare = 1..N /\ Len(Bare) = N
      /\ \A n \in 1..N : Bare[n].user \in User /\ Bare[n].rating \in Ratings
  BY <1>1, BareFacts
<1>3. ASSUME NEW n \in 1..N
      PROVE  effect[n] \in -10..5
  <2>1. EffectOf(Bare, n, past.start[Bare[n].user]) \in -10..5
    BY <1>2, EffectIsSmall
  <2> QED
    BY <1>1, <1>2, <2>1
<1>4. effect \in Seq(-10..5)
  <2>1. effect \in [1..N -> -10..5]
    BY <1>1, <1>2, <1>3
  <2> QED
    BY <1>2, <2>1, SeqDef
<1>5. review \in Seq(ReviewRow)
  <2>1. ASSUME NEW n \in 1..N
        PROVE  Review(Bare[n].user, Bare[n].rating, IF n <= past.legacy THEN 0 ELSE effect[n])
                  \in ReviewRow
    BY <1>2, <1>3 DEF Review, ReviewRow
  <2>2. review \in [1..N -> ReviewRow]
    BY <1>1, <1>2, <2>1
  <2> QED
    BY <1>2, <2>2, SeqDef
<1>6. score \in [User -> Scores]
  <2>1. ASSUME NEW u \in User
        PROVE  Standing(Bare, u, past.start[u])[Len(Bare)] \in Scores
    BY <1>2, StandingIsScore
  <2> QED
    BY <1>1, <2>1
<1>7. ASSUME NEW s \in Server
      PROVE  ServerOK(server[s]) /\ server[s].snap \in Seq(ReviewRow)
  <2>1. server[s] = At("down")
    BY <1>1, AtFacts DEF Blank
  <2>2. /\ server[s].pc = "down" /\ server[s].user = 0 /\ server[s].row = 0
        /\ server[s].score = 0 /\ server[s].snap = <<>> /\ server[s].wrote = <<>>
    BY <2>1, AtFacts
  <2>3. Len(<<>>) = 0 /\ <<>> \in Seq(ReviewRow) /\ <<>> \in Seq(-10..5)
    BY EmptySeq
  <2> QED
    BY <2>2, <2>3, StartupBounds DEF ServerOK, Scores, MaxCredit
<1>8. TypeOK
  <2>1. crashes \in 0..MaxCrashes /\ version \in BOOLEAN
    <3>1. crashes = 0 /\ version = FALSE
      BY <1>1
    <3>2. crashes \in 0..MaxCrashes
      BY <3>1, StartupBounds
    <3> QED
      BY <3>1, <3>2, Zenon
  <2> QED
    BY <1>1, <1>4, <1>5, <1>6, <1>7, <2>1 DEF TypeOK, ServerOK, ReviewRow
<1> QED
  BY <1>1, <1>7, <1>8 DEF TypeSound

\* One server moves, and nothing that it has not committed is seen.
LEMMA TypesOneMoves ==
  ASSUME TypeSound, UNCHANGED <<review, score, version, past, effect>>,
         signedUp' \in BOOLEAN, crashes' \in 0..MaxCrashes,
         NEW s \in Server, DOMAIN server' = Server,
         \A t \in Server \ {s} : server'[t] = server[t],
         ServerOK(server'[s]), server'[s].snap \in Seq(ReviewRow)
  PROVE  TypeSound'
<1>1. \A t \in Server : ServerOK(server'[t]) /\ server'[t].snap \in Seq(ReviewRow)
  BY DEF TypeSound, TypeOK, ServerOK
<1> QED
  BY <1>1 DEF TypeSound, TypeOK, ServerOK, ReviewRow

LEMMA AtIsOK ==
  ASSUME NEW pc \in Boots \cup {"down", "serving"}
  PROVE  ServerOK(At(pc)) /\ At(pc).snap \in Seq(ReviewRow)
<1>1. /\ At(pc).pc = pc /\ At(pc).user = 0 /\ At(pc).row = 0
      /\ At(pc).score = 0 /\ At(pc).snap = <<>> /\ At(pc).wrote = <<>>
  BY AtFacts
<1>2. Len(<<>>) = 0 /\ <<>> \in Seq(ReviewRow) /\ <<>> \in Seq(-10..5)
  BY EmptySeq
<1> QED
  BY <1>1, <1>2, StartupBounds DEF ServerOK, Scores, MaxCredit

LEMMA TypesReplay ==
  ASSUME TypeSound, UNCHANGED <<database, crashes, history>>, NEW s \in Server,
         NEW pc \in Boots, NEW u \in 0..(Users + 1), NEW n \in 0..Len(server[s].snap),
         NEW standing \in Scores, NEW wrote \in Seq(-10..5), Replay(s, pc, u, n, standing, wrote)
  PROVE  TypeSound'
<1>1. DOMAIN server = Server /\ crashes \in 0..MaxCrashes /\ signedUp \in BOOLEAN
      /\ server[s].snap \in Seq(ReviewRow)
  BY DEF TypeSound, TypeOK
<1>2. /\ DOMAIN server' = Server /\ \A t \in Server \ {s} : server'[t] = server[t]
      /\ server'[s] = [pc |-> pc, snap |-> server[s].snap, user |-> u, row |-> n,
                      score |-> standing, wrote |-> wrote]
  BY <1>1, ReplayFacts
<1>3. ServerOK(server'[s]) /\ server'[s].snap \in Seq(ReviewRow)
  BY <1>1, <1>2 DEF ServerOK
<1> QED
  BY <1>1, <1>2, <1>3, TypesOneMoves DEF database, history

LEMMA TypesKeep == TypeSound /\ [Next]_vars => TypeSound'
<1> SUFFICES ASSUME TypeSound, [Next]_vars PROVE TypeSound'
  OBVIOUS
<1>0. DOMAIN server = Server /\ crashes \in 0..MaxCrashes /\ signedUp \in BOOLEAN
      /\ review \in Seq(ReviewRow) /\ \A s \in Server : ServerOK(server[s]) /\ server[s].snap \in Seq(ReviewRow)
  BY DEF TypeSound, TypeOK, ServerOK, ReviewRow
<1>1. CASE UNCHANGED vars
  BY <1>1 DEF vars, database, history, TypeSound, TypeOK, ReviewRow
<1>2. ASSUME NEW s \in Server, NEW pc \in Boots \cup {"down", "serving"}, Goto(s, pc)
      PROVE  /\ ServerOK(server'[s]) /\ server'[s].snap \in Seq(ReviewRow)
             /\ DOMAIN server' = Server /\ \A t \in Server \ {s} : server'[t] = server[t]
  BY <1>0, <1>2, AtIsOK, StepFacts
<1>3. ASSUME NEW s \in Server,
             UNCHANGED <<review, score, version, past, effect, signedUp>>,
             crashes' \in 0..MaxCrashes,
             NEW pc \in Boots \cup {"down", "serving"}, Goto(s, pc)
      PROVE  TypeSound'
  BY <1>0, <1>2, <1>3, TypesOneMoves
<1>4. ASSUME NEW s \in Server,
             \/ Boot(s) \/ Check(s) \/ LockError(s) \/ SeedCount(s) \/ SeedFail(s)
             \/ SeedUsers(s) \/ SeedProducts(s) \/ SeedExchanges(s) \/ Crash(s)
      PROVE  TypeSound'
  <2>1. UNCHANGED <<review, score, version, past, effect, signedUp>>
    BY <1>4 DEF Boot, Check, LockError, SeedCount, SeedFail, SeedUsers, SeedProducts,
       SeedExchanges, Crash, database, history
  <2>2. crashes' \in 0..MaxCrashes
    BY <1>0, <1>4, StartupBounds DEF Boot, Check, LockError, SeedCount, SeedFail, SeedUsers,
       SeedProducts, SeedExchanges, Crash
  <2>3. PICK pc \in Boots \cup {"down", "serving"} : Goto(s, pc)
    BY <1>4 DEF Boot, Check, LockError, SeedCount, SeedFail, SeedUsers, SeedProducts,
       SeedExchanges, Crash, Boots
  <2> QED
    BY <1>3, <2>1, <2>2, <2>3
<1>5. ASSUME NEW s \in Server, ReadLegacy(s)
      PROVE  TypeSound'
  <2>1. /\ DOMAIN server' = Server /\ \A t \in Server \ {s} : server'[t] = server[t]
        /\ server'[s] = [pc |-> "replay", snap |-> review, user |-> 1, row |-> 0,
                        score |-> Baseline, wrote |-> [n \in DOMAIN review |-> 0]]
    BY <1>0, <1>5, StepFacts
  <2>2. Len(review) \in Nat /\ DOMAIN review = 1..Len(review)
    BY <1>0, LenProperties
  <2>3. [n \in DOMAIN review |-> 0] \in Seq(-10..5)
    <3>1. [n \in DOMAIN review |-> 0] \in [1..Len(review) -> -10..5]
      BY <2>2
    <3> QED
      BY <2>2, <3>1, SeqDef
  <2>4. ServerOK(server'[s]) /\ server'[s].snap \in Seq(ReviewRow)
    BY <1>0, <2>1, <2>2, <2>3, StartupBounds DEF ServerOK, Boots, Baseline, Scores, MaxCredit
  <2> QED
    BY <1>0, <1>5, <2>1, <2>4, TypesOneMoves DEF ReadLegacy, database, history
<1>6. ASSUME NEW s \in Server, NextUser(s)
      PROVE  TypeSound'
  <2>1. server[s].user + 1 \in 0..(Users + 1) /\ 0 \in 0..Len(server[s].snap)
        /\ Baseline \in Scores /\ server[s].wrote \in Seq(-10..5)
    BY <1>0, <1>6, LenProperties, StartupBounds DEF NextUser, User, Baseline, Scores, MaxCredit, ServerOK
  <2> QED
    BY <1>6, <2>1, TypesReplay DEF NextUser, Boots
<1>7. ASSUME NEW s \in Server, ReplayRow(s)
      PROVE  TypeSound'
  <2>1. PICK c : c = server[s]
    OBVIOUS
  <2>2. PICK n \in Due(c) :
           LET actual == AppliedDelta(c.score, CreditDelta(c.snap[n].rating))
               zero   == c.snap[n].creditDelta = 0
           IN  Replay(s, "replay", c.user, n, ClampCredit(c.score + actual),
                 [c.wrote EXCEPT ![n] = IF zero /\ review[n].creditDelta = 0 THEN actual ELSE @])
    BY <1>7, <2>1 DEF ReplayRow
  <2> DEFINE actual == AppliedDelta(c.score, CreditDelta(c.snap[n].rating))
             wrote == [c.wrote EXCEPT ![n] =
                IF c.snap[n].creditDelta = 0 /\ review[n].creditDelta = 0 THEN actual ELSE @]
  <2>3. ServerOK(c) /\ c.snap \in Seq(ReviewRow)
    BY <1>0, <2>1
  <2>4. n \in 0..Len(c.snap)
    BY <2>2, <2>3, LenProperties DEF Due
  <2>5. actual \in -10..5 /\ ClampCredit(c.score + actual) \in Scores
    BY <2>3, OneReview DEF ServerOK
  <2>6. wrote \in Seq(-10..5)
    <3>1. Len(c.wrote) \in Nat /\ c.wrote \in [1..Len(c.wrote) -> -10..5]
      BY <2>3, LenProperties DEF ServerOK
    <3>2. wrote \in [1..Len(c.wrote) -> -10..5]
      <4> HIDE DEF actual
      <4> QED
        BY <2>5, <3>1
    <3> HIDE DEF wrote
    <3> QED
      BY <3>1, <3>2, SeqDef
  <2>7. c.user \in 0..(Users + 1)
    BY <2>3 DEF ServerOK
  <2>8. Replay(s, "replay", c.user, n, ClampCredit(c.score + actual), wrote)
    BY <2>2
  <2>9. UNCHANGED <<database, crashes, history>>
    BY <1>7 DEF ReplayRow
  <2> HIDE DEF actual, wrote
  <2> QED
    BY <2>1, <2>4, <2>5, <2>6, <2>7, <2>8, <2>9, TypesReplay DEF Boots
<1>8. ASSUME NEW s \in Server, ReplayDone(s) \/ Record(s)
      PROVE  TypeSound'
  <2>1. CASE Goto(s, "down")
    BY <1>0, <1>3, <1>8, <2>1 DEF ReplayDone, Record, database, history
  <2>2. ServerOK(server[s])
    BY <1>0
  <2> QED
    BY <1>8, <2>1, <2>2, TypesReplay DEF ReplayDone, Record, ServerOK, Boots
<1>9. ASSUME NEW s \in Server, Commit(s)
      PROVE  TypeSound'
  <2>1. PICK c : c = server[s]
    OBVIOUS
  <2>2. ServerOK(c)
    BY <1>0, <2>1
  <2>3. Len(review) \in Nat /\ review \in [1..Len(review) -> ReviewRow] /\ DOMAIN review = 1..Len(review)
    BY <1>0, LenProperties
  <2>4. review' = [n \in DOMAIN review |->
           IF n \in DOMAIN c.wrote /\ c.wrote[n] # 0
           THEN [review[n] EXCEPT !.creditDelta = c.wrote[n]] ELSE review[n]]
    BY <1>9, <2>1 DEF Commit
  <2>5. \A n \in DOMAIN c.wrote : c.wrote[n] \in -10..5
    BY <2>2, LenProperties DEF ServerOK
  <2>6. ASSUME NEW n \in 1..Len(review), n \in DOMAIN c.wrote
        PROVE  [review[n] EXCEPT !.creditDelta = c.wrote[n]] \in ReviewRow
    BY <2>3, <2>5, <2>6 DEF ReviewRow
  <2>7. review' \in [1..Len(review) -> ReviewRow]
    <3> HIDE DEF ReviewRow
    <3> QED
      BY <2>3, <2>4, <2>6
  <2>8. review' \in Seq(ReviewRow)
    BY <2>3, <2>7, SeqDef
  <2>9. \A t \in Server : ServerOK(server'[t]) /\ server'[t].snap \in Seq(ReviewRow)
    BY <1>0, <1>2, <1>9 DEF Commit, Boots
  <2>10. DOMAIN server' = Server /\ UNCHANGED <<score, signedUp, crashes, past, effect>> /\ version' = TRUE
    BY <1>2, <1>9 DEF Commit, Boots, history
  <2> QED
    BY <2>8, <2>9, <2>10 DEF TypeSound, TypeOK, ServerOK, ReviewRow
<1>10. ASSUME NEW s \in Server, SignUp(s)
       PROVE  TypeSound'
  BY <1>10 DEF SignUp, TypeSound, TypeOK, history, ReviewRow
<1>11. ASSUME NEW s \in Server, NEW u \in User, NEW rating \in Posted, PostReview(s, u, rating)
       PROVE  TypeSound'
  <2> DEFINE d == AppliedDelta(score[u], CreditDelta(rating))
  <2>1. /\ score \in [User -> Scores] /\ effect \in Seq(-10..5) /\ score[u] \in Scores
        /\ rating \in Ratings
    BY StartupBounds DEF TypeSound, TypeOK
  <2>2. d \in -10..5 /\ score[u] + d \in Scores
    BY <2>1, OneReview
  <2>3. /\ review' = Append(review, Review(u, rating, d)) /\ effect' = Append(effect, d)
        /\ score' = [score EXCEPT ![u] = score[u] + d]
        /\ UNCHANGED <<version, server, seeded, signedUp, crashes, past>>
    BY <1>11 DEF PostReview
  <2> HIDE DEF d
  <2>4. review' \in Seq(ReviewRow)
    <3>1. Review(u, rating, d) \in ReviewRow
      BY <2>1, <2>2 DEF Review, ReviewRow
    <3> QED
      BY <1>0, <2>3, <3>1, AppendProperties
  <2>5. effect' \in Seq(-10..5)
    BY <2>1, <2>2, <2>3, AppendProperties
  <2>6. score' \in [User -> Scores]
    BY <2>1, <2>2, <2>3
  <2> QED
    BY <2>3, <2>4, <2>5, <2>6 DEF TypeSound, TypeOK, ReviewRow
<1> QED
  BY <1>1, <1>4, <1>5, <1>6, <1>7, <1>8, <1>9, <1>10, <1>11 DEF Next, Step

\* Rows and the locals of the servers stay in their domains: no replay, however
\* often it is begun again, arrives at a score outside 0..300.
THEOREM StartupTypes == Spec => []TypeOK
<1>1. TypeSound => TypeOK
  BY DEF TypeSound
<1> QED
  BY <1>1, InitTypes, TypesKeep, PTL DEF Spec

-----------------------------------------------------------------------------
(* What the backfill arrives at.                                            *)

\* A migration that is under way replays the rows as they are: it stands where
\* the replay of its user stands, and has written what is owed to the rows it
\* has passed and locked.
ReplayTrue(c, rows, bare) ==
    /\ c.snap = rows
    /\ c.user \in 1..(Users + 1)
    /\ c.pc = "replay" /\ c.user \in User =>
          c.score = Standing(bare, c.user, Baseline)[c.row]
    /\ c.pc # "replay" => c.user > Users
    /\ \A m \in DOMAIN rows :
          c.wrote[m] = IF HoldsRow(c, m) THEN EffectOf(bare, m, Baseline) ELSE 0

\* The rows of the past, before and after the version, and those posted since.
PastKept ==
    /\ Len(effect) = Len(review)
    /\ Len(past.rows) <= Len(review)
    /\ \A n \in 1..Len(past.rows) :
          /\ review[n].user = Bare[n].user /\ review[n].rating = Bare[n].rating
          /\ effect[n] = EffectOf(Bare, n, past.start[Bare[n].user])
    /\ \A n \in (Len(past.rows) + 1)..Len(review) : review[n].creditDelta = effect[n]

Backfilled ==
    /\ PastKept
    /\ ~version =>
          /\ Len(review) = Len(past.rows)
          /\ \A n \in 1..Len(past.rows) :
                review[n].creditDelta = IF n <= past.legacy THEN 0 ELSE effect[n]
          /\ \A s \in Server : Migrating(s) => ReplayTrue(server[s], review, Bare)
    /\ version => \A n \in 1..Len(past.rows) : review[n].creditDelta = Owed(n)

BackfillInv == TypeSound /\ MigrationsSound /\ Unmigrated /\ Backfilled

LEMMA RowFacts ==
  ASSUME TypeSound
  PROVE  /\ Len(review) \in Nat /\ DOMAIN review = 1..Len(review)
         /\ Len(effect) \in Nat /\ DOMAIN effect = 1..Len(effect)
         /\ \A n \in 1..Len(review) : review[n].user \in User /\ review[n].creditDelta \in -10..5
         /\ Len(past.rows) \in Nat /\ past.legacy \in 0..Len(past.rows)
         /\ Len(Bare) = Len(past.rows)
<1>1. review \in Seq(ReviewRow) /\ effect \in Seq(-10..5) /\ past \in Pasts
  BY DEF TypeSound, TypeOK, ReviewRow
<1>2. \A n \in 1..Len(review) : review[n] \in ReviewRow
  BY <1>1, ElementOfSeq
<1> QED
  BY <1>1, <1>2, LenProperties, BareFacts DEF ReviewRow

LEMMA BackfillStarts == Init => Backfilled
<1> SUFFICES ASSUME Init PROVE Backfilled
  OBVIOUS
<1>1. TypeSound
  BY InitTypes
<1>2. /\ DOMAIN Bare = 1..Len(past.rows)
      /\ effect = [n \in DOMAIN Bare |-> EffectOf(Bare, n, past.start[Bare[n].user])]
      /\ review = [n \in DOMAIN Bare |->
            Review(Bare[n].user, Bare[n].rating, IF n <= past.legacy THEN 0 ELSE effect[n])]
      /\ ~version
  BY <1>1, BareFacts DEF Init, TypeSound
<1>3. Len(review) = Len(past.rows) /\ Len(effect) = Len(past.rows)
  <2>1. 1..Len(review) = 1..Len(past.rows) /\ 1..Len(effect) = 1..Len(past.rows)
    BY <1>1, <1>2, RowFacts
  <2> QED
    BY <1>1, <2>1, RowFacts
<1>4. ASSUME NEW n \in 1..Len(past.rows)
      PROVE  /\ review[n].user = Bare[n].user /\ review[n].rating = Bare[n].rating
             /\ review[n].creditDelta = IF n <= past.legacy THEN 0 ELSE effect[n]
             /\ effect[n] = EffectOf(Bare, n, past.start[Bare[n].user])
  <2>1. review[n] = Review(Bare[n].user, Bare[n].rating, IF n <= past.legacy THEN 0 ELSE effect[n])
    BY <1>2
  <2>2. effect[n] = EffectOf(Bare, n, past.start[Bare[n].user])
    BY <1>2
  <2> QED
    BY <2>1, <2>2 DEF Review
<1>5. \A s \in Server : ~Migrating(s)
  <2>1. \A s \in Server : server[s].pc = "down"
    BY AtFacts DEF Init, Blank
  <2> QED
    BY <2>1 DEF Migrating
<1>6. PastKept
  BY <1>1, <1>3, <1>4, RowFacts DEF PastKept
<1> QED
  BY <1>2, <1>3, <1>4, <1>5, <1>6 DEF Backfilled

\* One server moves, and commits nothing.
LEMMA BackfillOneMoves ==
  ASSUME Backfilled, UNCHANGED <<review, version, past, effect>>,
         NEW s \in Server, \A t \in Server \ {s} : server'[t] = server[t],
         ~version /\ Migrating(s)' => ReplayTrue(server'[s], review, Bare)
  PROVE  Backfilled'
<1>1. Bare' = Bare
  BY DEF Bare
<1>2. PastKept'
  BY <1>1 DEF Backfilled, PastKept
<1>3. \A n : Owed(n)' = Owed(n)
  BY <1>1 DEF Owed
<1>4. ASSUME NEW t \in Server, ~version, Migrating(t)'
      PROVE  ReplayTrue(server'[t], review', Bare')
  <2>1. CASE t = s
    BY <1>1, <1>4, <2>1
  <2>2. CASE t # s
    BY <1>1, <1>4, <2>2 DEF Backfilled, Migrating
  <2> QED
    BY <2>1, <2>2
<1> QED
  BY <1>1, <1>2, <1>3, <1>4 DEF Backfilled

\* What the steps of a replay start from.
LEMMA ReplayStarts ==
  ASSUME BackfillInv, NEW s \in Server, Migrating(s), ~version
  PROVE  /\ ReplayTrue(server[s], review, Bare)
         /\ DOMAIN server[s].wrote = DOMAIN review
         /\ server[s].row \in 0..Len(review) /\ server[s].score \in Scores
         /\ Len(review) = Len(past.rows)
         /\ \A n \in 1..Len(review) : review[n].user = Bare[n].user /\ review[n].rating = Bare[n].rating
BY DEF BackfillInv, Backfilled, PastKept, ReplayTrue, MigrationsSound, MigrationSound, TypeSound, TypeOK

LEMMA BackfillReads ==
  ASSUME BackfillInv, NEW s \in Server, ReadLegacy(s)
  PROVE  Backfilled'
<1>1. /\ \A t \in Server \ {s} : server'[t] = server[t]
      /\ server'[s] = [pc |-> "replay", snap |-> review, user |-> 1, row |-> 0,
                      score |-> Baseline, wrote |-> [n \in DOMAIN review |-> 0]]
  BY StepFacts DEF BackfillInv, TypeSound
<1>2. ReplayTrue(server'[s], review, Bare)
  <2>1. PICK c : c = server'[s]
    OBVIOUS
  <2>2. /\ c.pc = "replay" /\ c.snap = review /\ c.user = 1 /\ c.row = 0 /\ c.score = Baseline
        /\ \A n \in DOMAIN review : c.wrote[n] = 0
    BY <1>1, <2>1
  <2>3. Standing(Bare, 1, Baseline)[0] = Baseline
    BY RowFacts, StandingIs DEF Stands, BackfillInv
  <2>4. ASSUME NEW m \in DOMAIN review, HoldsRow(c, m)
        PROVE  FALSE
    BY <2>2, <2>4, RowFacts DEF HoldsRow, User, BackfillInv
  <2>5. 1 \in 1..(Users + 1)
    BY StartupBounds
  <2> QED
    BY <2>1, <2>2, <2>3, <2>4, <2>5 DEF ReplayTrue
<1> QED
  BY <1>1, <1>2, BackfillOneMoves DEF ReadLegacy, database, history, BackfillInv

\* What holds of every step within the transaction.
LEMMA BackfillReplays ==
  ASSUME BackfillInv, NEW s \in Server, UNCHANGED <<database, crashes, history>>,
         NEW pc, NEW u, NEW n, NEW standing, NEW wrote, Replay(s, pc, u, n, standing, wrote),
         ~version => ReplayTrue([pc |-> pc, snap |-> server[s].snap, user |-> u, row |-> n,
                                 score |-> standing, wrote |-> wrote], review, Bare)
  PROVE  Backfilled'
<1>1. /\ \A t \in Server \ {s} : server'[t] = server[t]
      /\ server'[s] = [pc |-> pc, snap |-> server[s].snap, user |-> u, row |-> n,
                      score |-> standing, wrote |-> wrote]
  BY ReplayFacts DEF BackfillInv, TypeSound
<1> QED
  BY <1>1, BackfillOneMoves DEF BackfillInv, database, history

LEMMA BackfillNextUser ==
  ASSUME BackfillInv, NEW s \in Server, NextUser(s)
  PROVE  Backfilled'
<1>1. PICK c : c = server[s]
  OBVIOUS
<1>2. /\ UNCHANGED <<database, crashes, history>> /\ Migrating(s)
      /\ Replay(s, "replay", c.user + 1, 0, Baseline, c.wrote)
      /\ c.pc = "replay" /\ c.user \in User /\ Due(c) = {}
  BY <1>1 DEF NextUser, Migrating
<1>3. PICK d : d = [pc |-> "replay", snap |-> c.snap, user |-> c.user + 1, row |-> 0,
                    score |-> Baseline, wrote |-> c.wrote]
  OBVIOUS
<1>4. /\ d.pc = "replay" /\ d.snap = c.snap /\ d.user = c.user + 1 /\ d.row = 0
      /\ d.score = Baseline /\ d.wrote = c.wrote
  BY <1>3
<1>5. ASSUME ~version
      PROVE  ReplayTrue(d, review, Bare)
  <2>1. ReplayTrue(c, review, Bare) /\ c.row \in 0..Len(review) /\ c.snap = review
        /\ c.user \in User
    BY <1>1, <1>2, <1>5, ReplayStarts DEF ReplayTrue
  <2>2. {m \in 1..Len(review) : m > c.row /\ review[m].user = c.user} = {}
    <3>1. {m \in 1..Len(review) : m > c.row /\ review[m].user = c.user} \subseteq Nat
      OBVIOUS
    <3> QED
      BY <1>2, <2>1, <3>1, LeastNumber, RowFacts DEF Due, BackfillInv
  <2>3. \A m \in DOMAIN review : HoldsRow(d, m) <=> HoldsRow(c, m)
    <3> SUFFICES ASSUME NEW m \in 1..Len(review)
                 PROVE  HoldsRow(d, m) <=> HoldsRow(c, m)
      BY RowFacts DEF BackfillInv
    <3>1. review[m].user \in User /\ (review[m].user = c.user => m <= c.row)
      BY <2>1, <2>2, RowFacts DEF BackfillInv
    <3> QED
      BY <1>2, <1>4, <2>1, <3>1 DEF HoldsRow, User
  <2>4. Standing(Bare, d.user, Baseline)[0] = Baseline
    BY RowFacts, StandingIs DEF Stands, BackfillInv
  <2>5. d.user \in 1..(Users + 1)
    BY <1>4, <2>1, StartupBounds DEF User
  <2> QED
    BY <1>4, <2>1, <2>3, <2>4, <2>5 DEF ReplayTrue
<1> QED
  BY <1>1, <1>2, <1>3, <1>5, BackfillReplays

\* The row that is due is passed: the replay stands where it leaves the user, and
\* a zero has been given what the replay arrived at.
LEMMA BackfillRow ==
  ASSUME BackfillInv, NEW s \in Server, ReplayRow(s)
  PROVE  Backfilled'
<1>1. PICK c : c = server[s]
  OBVIOUS
<1>2. UNCHANGED <<database, crashes, history>> /\ Migrating(s) /\ c.pc = "replay"
  BY <1>1 DEF ReplayRow, Migrating
<1>3. PICK n \in Due(c) :
         LET actual == AppliedDelta(c.score, CreditDelta(c.snap[n].rating))
             zero   == c.snap[n].creditDelta = 0
         IN  Replay(s, "replay", c.user, n, ClampCredit(c.score + actual),
               [c.wrote EXCEPT ![n] = IF zero /\ review[n].creditDelta = 0 THEN actual ELSE @])
  BY <1>1 DEF ReplayRow
<1>4. PICK actual : actual = AppliedDelta(c.score, CreditDelta(c.snap[n].rating))
  OBVIOUS
<1>5. PICK wrote : wrote = [c.wrote EXCEPT ![n] =
          IF c.snap[n].creditDelta = 0 /\ review[n].creditDelta = 0 THEN actual ELSE @]
  OBVIOUS
<1>6. PICK standing : standing = ClampCredit(c.score + actual)
  OBVIOUS
<1>7. Replay(s, "replay", c.user, n, standing, wrote)
  BY <1>3, <1>4, <1>5, <1>6
<1>8. PICK d : d = [pc |-> "replay", snap |-> c.snap, user |-> c.user, row |-> n,
                    score |-> standing, wrote |-> wrote]
  OBVIOUS
<1>9. /\ d.pc = "replay" /\ d.snap = c.snap /\ d.user = c.user /\ d.row = n
      /\ d.score = standing /\ d.wrote = wrote
  BY <1>8
<1>10. ASSUME ~version
       PROVE  ReplayTrue(d, review, Bare)
  <2>1. /\ ReplayTrue(c, review, Bare) /\ c.row \in 0..Len(review) /\ c.snap = review
        /\ c.score \in Scores /\ DOMAIN c.wrote = 1..Len(review)
        /\ Len(review) = Len(past.rows)
        /\ \A m \in 1..Len(review) : review[m].user = Bare[m].user /\ review[m].rating = Bare[m].rating
    BY <1>1, <1>2, <1>10, ReplayStarts, RowFacts DEF ReplayTrue, BackfillInv
  <2>2. /\ Len(review) \in Nat /\ DOMAIN review = 1..Len(review) /\ Len(Bare) = Len(review)
        /\ \A m \in 1..Len(review) : review[m].user \in User
    BY <2>1, RowFacts DEF BackfillInv
  <2>3. /\ n \in 1..Len(review) /\ n > c.row /\ review[n].user = c.user
        /\ \A m \in 1..Len(review) : m > c.row /\ review[m].user = c.user => n <= m
    BY <1>3, <2>1, <2>2 DEF Due
  <2>4. c.user \in User /\ Bare[n].user = c.user /\ Bare[n].rating = review[n].rating
    BY <2>1, <2>2, <2>3
  <2>5. c.score = Standing(Bare, c.user, Baseline)[n - 1]
    <3>1. c.score = Standing(Bare, c.user, Baseline)[c.row]
      BY <1>2, <2>1, <2>4 DEF ReplayTrue
    <3>2. /\ Len(Bare) \in Nat /\ c.row \in 0..Len(Bare) /\ n - 1 \in c.row..Len(Bare)
          /\ \A k \in (c.row + 1)..(n - 1) : Bare[k].user # c.user
      <4>1. Len(Bare) \in Nat /\ c.row \in 0..Len(Bare) /\ n \in 1..Len(Bare) /\ c.row < n
        BY <2>1, <2>2, <2>3
      <4>2. n - 1 \in c.row..Len(Bare)
        BY ONLY <4>1
      <4>3. ASSUME NEW k \in (c.row + 1)..(n - 1)
            PROVE  Bare[k].user # c.user
        <5>1. k \in 1..Len(review) /\ k > c.row /\ k < n
          BY <2>2, <4>1
        <5> QED
          BY <2>1, <2>3, <5>1
      <4> QED
        BY <4>1, <4>2, <4>3
    <3>3. Standing(Bare, c.user, Baseline)[n - 1] = Standing(Bare, c.user, Baseline)[c.row]
      <4>1. PICK m \in 0..Len(Bare) : m = c.row
        BY <3>2
      <4>2. PICK k \in m..Len(Bare) : k = n - 1
        BY <3>2, <4>1
      <4>3. \A j \in (m + 1)..k : Bare[j].user # c.user
        BY <3>2, <4>1, <4>2
      <4>4. Standing(Bare, c.user, Baseline)[k] = Standing(Bare, c.user, Baseline)[m]
        BY ONLY Len(Bare) \in Nat, <3>2, <4>3, StandingStays
      <4> QED
        BY <4>1, <4>2, <4>4
    <3> QED
      BY <3>1, <3>3
  <2>6. actual = EffectOf(Bare, n, Baseline)
    BY <1>4, <2>1, <2>4, <2>5 DEF EffectOf
  <2>7. standing = Standing(Bare, c.user, Baseline)[n]
    <3>1. Stands(Standing(Bare, c.user, Baseline), Len(Bare), Bare, c.user, Baseline)
      BY <2>2, StandingIs
    <3>2. Standing(Bare, c.user, Baseline)[n] = ClampCredit(c.score + CreditDelta(Bare[n].rating))
      BY <2>2, <2>3, <2>4, <2>5, <3>1 DEF Stands
    <3> QED
      BY <1>4, <1>6, <2>1, <2>4, <3>2, OneReview
  <2>8. \A m \in 1..Len(review) :
           HoldsRow(d, m) <=> HoldsRow(c, m) \/ (m = n /\ review[n].creditDelta = 0)
    <3> SUFFICES ASSUME NEW m \in 1..Len(review)
                 PROVE  HoldsRow(d, m) <=> HoldsRow(c, m) \/ (m = n /\ review[n].creditDelta = 0)
      OBVIOUS
    <3>1. review[m].user = c.user => (m <= n <=> m <= c.row \/ m = n)
      BY <2>1, <2>3
    <3> QED
      BY <1>2, <1>9, <2>1, <2>2, <2>3, <3>1 DEF HoldsRow
  <2>9. ASSUME NEW m \in 1..Len(review)
        PROVE  d.wrote[m] = IF HoldsRow(d, m) THEN EffectOf(Bare, m, Baseline) ELSE 0
    <3>1. c.wrote[m] = IF HoldsRow(c, m) THEN EffectOf(Bare, m, Baseline) ELSE 0
      BY <2>1, <2>2 DEF ReplayTrue
    <3>2. CASE m = n
      <4>1. d.wrote[n] = IF review[n].creditDelta = 0 THEN actual ELSE c.wrote[n]
        BY <1>5, <1>9, <2>1, <2>3
      <4>2. HoldsRow(c, n) => review[n].creditDelta = 0
        BY <2>1 DEF HoldsRow
      <4> QED
        BY <2>6, <2>8, <3>1, <3>2, <4>1, <4>2
    <3>3. CASE m # n
      <4>1. d.wrote[m] = c.wrote[m]
        BY <1>5, <1>9, <2>1, <3>3
      <4> QED
        BY <2>8, <3>1, <3>3, <4>1
    <3> QED
      BY <3>2, <3>3
  <2>10. c.user \in 1..(Users + 1)
    BY <2>1 DEF ReplayTrue
  <2> QED
    BY <1>9, <2>1, <2>2, <2>7, <2>9, <2>10 DEF ReplayTrue
<1> QED
  BY <1>1, <1>2, <1>7, <1>8, <1>10, BackfillReplays

LEMMA BackfillEnds ==
  ASSUME BackfillInv, NEW s \in Server, ReplayDone(s) \/ Record(s)
  PROVE  Backfilled'
<1>1. PICK c : c = server[s]
  OBVIOUS
<1>2. UNCHANGED <<database, crashes, history>> /\ Migrating(s)
  BY DEF ReplayDone, Record, Migrating
<1>3. CASE Goto(s, "down")
  <2>1. /\ \A t \in Server \ {s} : server'[t] = server[t]
        /\ server'[s].pc = "down"
    BY <1>3, StepFacts, AtFacts DEF BackfillInv, TypeSound
  <2> QED
    BY <1>2, <2>1, BackfillOneMoves DEF BackfillInv, Migrating, database, history
<1>4. ASSUME NEW pc \in {"record", "commit"},
             Replay(s, pc, c.user, c.row, c.score, c.wrote),
             c.pc = "record" \/ (c.pc = "replay" /\ c.user > Users)
      PROVE  Backfilled'
  <2>1. PICK d : d = [pc |-> pc, snap |-> c.snap, user |-> c.user, row |-> c.row,
                      score |-> c.score, wrote |-> c.wrote]
    OBVIOUS
  <2>2. /\ d.pc = pc /\ d.snap = c.snap /\ d.user = c.user /\ d.row = c.row
        /\ d.score = c.score /\ d.wrote = c.wrote
    BY <2>1
  <2>3. ASSUME ~version
        PROVE  ReplayTrue(d, review, Bare)
    <3>1. ReplayTrue(c, review, Bare)
      BY <1>1, <1>2, <2>3, ReplayStarts
    <3>2. \A m : HoldsRow(d, m) <=> HoldsRow(c, m)
      BY <1>4, <2>2 DEF HoldsRow
    <3> QED
      BY <1>4, <2>2, <3>1, <3>2 DEF ReplayTrue
  <2> QED
    BY <1>1, <1>2, <1>4, <2>1, <2>3, BackfillReplays
<1> QED
  BY <1>1, <1>3, <1>4 DEF ReplayDone, Record

\* The commit gives every zero of the past what the replay arrived at.
LEMMA BackfillCommits ==
  ASSUME BackfillInv, NEW s \in Server, Commit(s)
  PROVE  Backfilled'
<1>1. PICK c : c = server[s]
  OBVIOUS
<1>2. /\ c.pc = "commit" /\ Migrating(s) /\ version' = TRUE /\ UNCHANGED <<past, effect>>
      /\ review' = [n \in DOMAIN review |->
            IF n \in DOMAIN c.wrote /\ c.wrote[n] # 0
            THEN [review[n] EXCEPT !.creditDelta = c.wrote[n]] ELSE review[n]]
  BY <1>1 DEF Commit, Migrating, history
<1>3. ~version
  BY <1>1, <1>2 DEF BackfillInv, MigrationsSound, MigrationSound
<1>4. /\ ReplayTrue(c, review, Bare) /\ DOMAIN c.wrote = DOMAIN review
      /\ Len(review) = Len(past.rows)
  BY <1>1, <1>2, <1>3, ReplayStarts
<1>5. /\ Len(review) \in Nat /\ DOMAIN review = 1..Len(review)
      /\ review \in Seq(ReviewRow)
      /\ \A n \in 1..Len(review) : review[n].user \in User
  BY RowFacts DEF BackfillInv, TypeSound, TypeOK, ReviewRow
<1>6. Bare' = Bare /\ \A n : Owed(n)' = Owed(n)
  <2>1. Bare' = Bare
    BY <1>2 DEF Bare
  <2> QED
    BY <1>2, <2>1 DEF Owed
<1>7. DOMAIN review' = 1..Len(review) /\ Len(review') = Len(review)
  <2>1. review' \in Seq(ReviewRow)
    BY TypesKeep DEF BackfillInv, TypeSound, TypeOK, ReviewRow, Next, Step
  <2> QED
    BY <1>2, <1>5, <2>1, LenProperties
<1>8. ASSUME NEW n \in 1..Len(review)
      PROVE  /\ review'[n].user = review[n].user /\ review'[n].rating = review[n].rating
             /\ review'[n].creditDelta = Owed(n)
  <2>1. review[n] \in ReviewRow
    BY <1>5, ElementOfSeq
  <2>2. review'[n] = IF c.wrote[n] # 0 THEN [review[n] EXCEPT !.creditDelta = c.wrote[n]]
                     ELSE review[n]
    BY <1>2, <1>4, <1>5
  <2>3. /\ review'[n].user = review[n].user /\ review'[n].rating = review[n].rating
        /\ review'[n].creditDelta = IF c.wrote[n] # 0 THEN c.wrote[n] ELSE review[n].creditDelta
    BY <2>1, <2>2 DEF ReviewRow
  <2>4. HoldsRow(c, n) <=> review[n].creditDelta = 0
    <3>1. c.user > Users /\ c.snap = review /\ review[n].user <= Users /\ c.user \in Int
          /\ review[n].user \in Int /\ Users \in Int
      BY <1>2, <1>4, <1>5, StartupBounds DEF ReplayTrue, User
    <3> QED
      BY <1>2, <1>5, <3>1 DEF HoldsRow
  <2>5. c.wrote[n] = IF HoldsRow(c, n) THEN EffectOf(Bare, n, Baseline) ELSE 0
    BY <1>4, <1>5 DEF ReplayTrue
  <2>6. review[n].creditDelta = IF n <= past.legacy THEN 0 ELSE effect[n]
    BY <1>3, <1>4 DEF BackfillInv, Backfilled
  <2>7. n \in Nat /\ past.legacy \in Nat
    BY RowFacts DEF BackfillInv
  <2>8. review'[n].creditDelta = Owed(n)
    BY <2>3, <2>4, <2>5, <2>6, <2>7 DEF Owed
  <2> QED
    BY <2>3, <2>8
<1>9. PastKept'
  <2>1. PastKept
    BY DEF BackfillInv, Backfilled
  <2> QED
    BY <1>2, <1>4, <1>5, <1>6, <1>7, <1>8, <2>1 DEF PastKept
<1>10. \A n \in 1..Len(past.rows) : review'[n].creditDelta = Owed(n)'
  BY <1>4, <1>6, <1>8
<1> QED
  BY <1>2, <1>9, <1>10 DEF Backfilled

\* A review that is posted records what it does.
LEMMA BackfillPosts ==
  ASSUME BackfillInv, NEW s \in Server, NEW u \in User, NEW rating \in Posted,
         PostReview(s, u, rating)
  PROVE  Backfilled'
<1>1. version
  BY DEF PostReview, BackfillInv, Unmigrated, Untouched
<1>2. PICK x, d : /\ review' = Append(review, x) /\ x.creditDelta = d
                  /\ effect' = Append(effect, d)
                  /\ UNCHANGED <<version, past>>
  BY DEF PostReview, Review
<1>3. /\ review \in Seq(ReviewRow) /\ effect \in Seq(-10..5)
      /\ review \in Seq(ReviewRow \cup {x}) /\ effect \in Seq((-10..5) \cup {d})
  BY SeqMonotonic DEF BackfillInv, TypeSound, TypeOK, ReviewRow
<1>4. /\ Len(review) \in Nat /\ Len(effect) = Len(review)
      /\ Len(past.rows) \in Nat /\ Len(past.rows) <= Len(review) /\ past.legacy \in Nat
  BY RowFacts DEF BackfillInv, Backfilled, PastKept
<1>5. /\ Len(review') = Len(review) + 1 /\ Len(effect') = Len(review) + 1
      /\ \A n \in 1..Len(review) : review'[n] = review[n] /\ effect'[n] = effect[n]
      /\ review'[Len(review) + 1] = x /\ effect'[Len(review) + 1] = d
  BY <1>2, <1>3, <1>4, AppendProperties
<1>6. Bare' = Bare
  BY <1>2 DEF Bare
<1>7. \A n \in 1..Len(past.rows) : Owed(n)' = Owed(n)
  BY <1>2, <1>4, <1>5, <1>6 DEF Owed
<1>8. PastKept'
  <2>1. PastKept
    BY DEF BackfillInv, Backfilled
  <2>2. ASSUME NEW n \in (Len(past.rows) + 1)..(Len(review) + 1)
        PROVE  review'[n].creditDelta = effect'[n]
    <3>1. CASE n = Len(review) + 1
      BY <1>2, <1>5, <3>1
    <3>2. CASE n # Len(review) + 1
      <4>1. n \in 1..Len(review) /\ n \in (Len(past.rows) + 1)..Len(review)
        BY <1>4, <3>2
      <4> QED
        BY <1>5, <2>1, <4>1 DEF PastKept
    <3> QED
      BY <3>1, <3>2
  <2>3. \A n \in 1..Len(past.rows) : review'[n] = review[n] /\ effect'[n] = effect[n]
    BY <1>4, <1>5
  <2> QED
    BY <1>2, <1>4, <1>5, <1>6, <2>1, <2>2, <2>3 DEF PastKept
<1>9. \A n \in 1..Len(past.rows) : review'[n].creditDelta = Owed(n)'
  BY <1>1, <1>4, <1>5, <1>7 DEF BackfillInv, Backfilled
<1> QED
  BY <1>1, <1>2, <1>8, <1>9 DEF Backfilled

LEMMA BackfillKeeps == BackfillInv /\ [Next]_vars => Backfilled'
<1> SUFFICES ASSUME BackfillInv, [Next]_vars PROVE Backfilled'
  OBVIOUS
<1>1. CASE UNCHANGED <<review, version, past, effect, server>>
  <2>1. Bare' = Bare
    BY <1>1 DEF Bare
  <2>2. \A n : Owed(n)' = Owed(n)
    BY <1>1, <2>1 DEF Owed
  <2> QED
    BY <1>1, <2>1, <2>2 DEF BackfillInv, Backfilled, PastKept, Migrating
<1>2. ASSUME NEW s \in Server,
             \/ Boot(s) \/ Check(s) \/ LockError(s) \/ SeedCount(s) \/ SeedFail(s)
             \/ SeedUsers(s) \/ SeedProducts(s) \/ SeedExchanges(s) \/ Crash(s)
      PROVE  Backfilled'
  <2>1. UNCHANGED <<review, version, past, effect>>
    BY <1>2 DEF Boot, Check, LockError, SeedCount, SeedFail, SeedUsers, SeedProducts,
       SeedExchanges, Crash, database, history
  <2>2. PICK pc \in {"check", "seed_count", "read", "down", "serving", "seed_users",
                     "seed_products", "seed_exchanges"} : Goto(s, pc)
    BY <1>2 DEF Boot, Check, LockError, SeedCount, SeedFail, SeedUsers, SeedProducts,
       SeedExchanges, Crash
  <2>3. (\A t \in Server \ {s} : server'[t] = server[t]) /\ server'[s].pc = pc
    BY <2>2, StepFacts, AtFacts DEF BackfillInv, TypeSound
  <2> QED
    BY <2>1, <2>3, BackfillOneMoves DEF BackfillInv, Migrating
<1>3. ASSUME NEW s \in Server, SignUp(s)
      PROVE  UNCHANGED <<review, version, past, effect, server>>
  BY <1>3 DEF SignUp, history
<1>4. CASE UNCHANGED vars
  BY <1>1, <1>4 DEF vars, database, history
<1> QED
  BY <1>1, <1>2, <1>3, <1>4, BackfillReads, BackfillNextUser, BackfillRow, BackfillEnds,
     BackfillCommits, BackfillPosts DEF Next, Step

LEMMA AlwaysBackfilled == Spec => []BackfillInv
<1>1. Spec => [](TypeSound /\ MigrationsSound /\ Unmigrated)
  BY InitTypes, TypesKeep, MigrationsStart, MigrationsKeep, AlwaysUnmigrated, PTL DEF Spec
<1>2. BackfillInv <=> (TypeSound /\ MigrationsSound /\ Unmigrated) /\ Backfilled
  BY DEF BackfillInv
<1> QED
  BY <1>1, <1>2, BackfillStarts, BackfillKeeps, PTL DEF Spec

\* All or nothing, whoever crashes and whoever else starts: without the version no
\* legacy row is touched and nobody serves; with it every row of the past has what
\* the replay from the baseline owes it.
THEOREM BackfillIsAtomic == Spec => []BackfillAtomic
<1>1. BackfillInv => BackfillAtomic
  <2> SUFFICES ASSUME BackfillInv PROVE BackfillAtomic
    OBVIOUS
  <2>1. DOMAIN past.rows = 1..Len(past.rows)
    <3>1. past.rows \in Seq(User \X Ratings)
      BY PastsAssumption DEF BackfillInv, TypeSound
    <3> QED
      BY <3>1, LenProperties
  <2> QED
    BY <2>1 DEF BackfillInv, Backfilled, Unmigrated, BackfillAtomic
<1> QED
  BY <1>1, AlwaysBackfilled, PTL

\* For a user who started at the baseline the replay finds the true effect of
\* every review, also of those that met the floor or the ceiling.
THEOREM RegisteredAreExact == Spec => []ExactForRegistered
<1>1. BackfillInv => ExactForRegistered
  <2> SUFFICES ASSUME BackfillInv, version, NEW n \in DOMAIN review,
                      past.start[review[n].user] = Baseline
               PROVE  review[n].creditDelta = effect[n]
    BY DEF ExactForRegistered
  <2>1. n \in 1..Len(review) /\ Len(review) \in Nat /\ Len(past.rows) \in Nat
    BY RowFacts DEF BackfillInv
  <2>2. CASE n \in 1..Len(past.rows)
    <3>1. effect[n] = EffectOf(Bare, n, Baseline) /\ review[n].creditDelta = Owed(n)
      BY <2>2 DEF BackfillInv, Backfilled, PastKept
    <3> QED
      BY <3>1 DEF Owed
  <2>3. CASE n \notin 1..Len(past.rows)
    <3>1. n \in (Len(past.rows) + 1)..Len(review)
      BY <2>1, <2>3
    <3> QED
      BY <3>1 DEF BackfillInv, Backfilled, PastKept
  <2> QED
    BY <2>2, <2>3
<1> QED
  BY <1>1, AlwaysBackfilled, PTL

=============================================================================
