---------------------------- MODULE BookExchange ----------------------------
(***************************************************************************)
(* BookExchangeService, run by concurrent requests.  Create inserts a post *)
(* and looks for an open one that mirrors it in one transaction; Close     *)
(* reads a post and updates it, without one.                               *)
(*                                                                         *)
(* post holds the COMMITTED rows.  Create's SELECT sees the rows committed *)
(* when it runs; its UPDATE of the row it found is by id alone and sees,   *)
(* after waiting for its holder, whatever that row has become.             *)
(***************************************************************************)
EXTENDS Integers, FiniteSets

CONSTANTS
    Book,          \* titles offered and wanted
    MaxPosts,      \* bound: posts the table may come to hold
    Request,       \* HTTP requests the server may be serving at once
    MaxTxRetries,  \* attempts Transaction makes (8 in the code)
    Boards         \* the tables the server may start with: empty or seeded

ASSUME ExchangeBounds == MaxPosts \in Nat /\ MaxTxRetries \in Nat \ {0}

Post == 1..MaxPosts

VARIABLES
    post,      \* book_exchanges: [Post -> row], NoPost before the commit
    call,      \* the local state of each request
    seen,      \* history: [Post -> posts committed when its publisher searched]
    free       \* history: [Post -> those of them that were open]

vars == <<post, call, seen, free>>

Board == INSTANCE ExchangeBoard WITH Post <- Post, Book <- Book, board <- post

NoPost == Board!NoPost
Row(offer, want, status, partner) == Board!Row(offer, want, status, partner)
Published(p) == Board!Published(p)
Mirrored(x, y) == Board!Mirrored(x, y)

ASSUME BoardsAssumption ==
    Boards \subseteq [Post -> {NoPost} \cup {Row(o, w, "open", 0) : o \in Book, w \in Book}]

Idle == [pc |-> "idle", post |-> 0, offer |-> "none", want |-> "none", match |-> 0, attempt |-> 0]

PublishSteps == {"insert", "find", "mark", "commit"}
Steps == PublishSteps \cup {"close_write"}

Goto(r, pc, p, match) ==
    call' = [call EXCEPT ![r] = [pc |-> pc, post |-> p, offer |-> @.offer, want |-> @.want,
                                 match |-> match, attempt |-> @.attempt]]

Return(r) == call' = [call EXCEPT ![r] = Idle]

\* An attempt that is rolled back leaves no post, and so no search of it.
Forget(p) ==
    /\ seen' = [q \in Post |-> IF q = p THEN {} ELSE seen[q]]
    /\ free' = [q \in Post |-> IF q = p THEN {} ELSE free[q]]

-----------------------------------------------------------------------------
\* The X lock of MarkMatched on the row it found, from the UPDATE to the
\* commit.  (Nobody else reads or waits for the uncommitted post.)
Holds(c, p) == c.pc = "commit" /\ c.match = p

RowFree(r, p) == \A q \in Request \ {r} : ~Holds(call[q], p)

Init ==
    /\ post \in Boards
    /\ call = [r \in Request |-> Idle]
    /\ seen = [p \in Post |-> {}]
    /\ free = [p \in Post |-> {}]

-----------------------------------------------------------------------------
(* BookExchangeService.Create                                               *)

\* Any signed-in user may post; the two titles are not compared.
PublishStart(r, offer, want) ==
    /\ call[r] = Idle
    /\ call' = [call EXCEPT ![r] = [pc |-> "insert", post |-> 0, offer |-> offer,
                                    want |-> want, match |-> 0, attempt |-> 0]]
    /\ UNCHANGED <<post, seen, free>>

\* The ids in use: committed, or taken by an INSERT under way.
Taken == {p \in Post : Published(p)} \cup {call[q].post : q \in {q \in Request : call[q].pc \in PublishSteps}}

NextId(p) == (\A n \in Taken : n < p) /\ (p = 1 \/ p - 1 \in Taken)

\* The INSERT takes the next AUTO_INCREMENT id; an attempt begun again inserts
\* under the id gorm left in the record.
PublishInsert(r) ==
    /\ call[r].pc = "insert"
    /\ \E p \in Post :
          /\ IF call[r].post = 0 THEN NextId(p) ELSE p = call[r].post
          /\ Goto(r, "find", p, 0)
    /\ UNCHANGED <<post, seen, free>>

\* FindMatch without "status = 'open'".
BugMatches(c) ==
    {p \in Post \ {c.post} : /\ Published(p)
                             /\ post[p].offer = c.want
                             /\ post[p].want = c.offer}

\* FindMatch with its two titles passed in the wrong order.
TwistedMatches(c) ==
    {p \in Post \ {c.post} : /\ post[p].status = "open"
                             /\ post[p].offer = c.offer
                             /\ post[p].want = c.want}

\* The open posts that mirror c's.
Matches(c) ==
    {p \in Post \ {c.post} : /\ post[p].status = "open"
                             /\ post[p].offer = c.want
                             /\ post[p].want = c.offer}

\* FindMatch: the first of them by id; none is not an error.
PublishFind(r) ==
    LET p == call[r].post  found == Matches(call[r]) IN
    /\ call[r].pc = "find"
    /\ seen' = [seen EXCEPT ![p] = {q \in Post : Published(q)}]
    /\ free' = [free EXCEPT ![p] = {q \in Post : post[q].status = "open"}]
    /\ \/ found = {} /\ Goto(r, "commit", p, 0)
       \/ \E q \in found : (\A n \in found : q <= n) /\ Goto(r, "mark", p, q)
    /\ UNCHANGED post

\* MarkMatched on the row found; on the publisher's own row it waits for nobody.
PublishMark(r) ==
    /\ call[r].pc = "mark"
    /\ RowFree(r, call[r].match)
    /\ Goto(r, "commit", call[r].post, call[r].match)
    /\ UNCHANGED <<post, seen, free>>

\* The second MarkMatched is left out.
BugPublishCommit(r) ==
    LET c == call[r] IN
    /\ c.pc = "commit"
    /\ post' = [post EXCEPT ![c.post] =
          Row(c.offer, c.want, IF c.match = 0 THEN "open" ELSE "matched", c.match)]
    /\ Return(r)
    /\ UNCHANGED <<seen, free>>

\* The new post and the row it matched become visible together.
PublishCommit(r) ==
    LET c == call[r] IN
    /\ c.pc = "commit"
    /\ \/ c.match = 0 /\ post' = [post EXCEPT ![c.post] = Row(c.offer, c.want, "open", 0)]
       \/ /\ c.match # 0
          /\ post' = [post EXCEPT ![c.post] = Row(c.offer, c.want, "matched", c.match),
                                  ![c.match] = Board!Matched(@, c.post)]
    /\ Return(r)
    /\ UNCHANGED <<seen, free>>

-----------------------------------------------------------------------------
(* BookExchangeService.Close                                                *)

\* The owner's post is read; only one that is closed already is refused (409).
CloseStart(r, p) ==
    /\ call[r] = Idle
    /\ Published(p)
    /\ post[p].status # "closed"
    /\ call' = [call EXCEPT ![r] = [pc |-> "close_write", post |-> p, offer |-> "none",
                                    want |-> "none", match |-> 0, attempt |-> 0]]
    /\ UNCHANGED <<post, seen, free>>

\* UpdateStatus, by id alone: the status found then is overwritten, the
\* partner stays.
CloseWrite(r) ==
    LET p == call[r].post IN
    /\ call[r].pc = "close_write"
    /\ RowFree(r, p)
    /\ post' = [post EXCEPT ![p] = Row(@.offer, @.want, "closed", @.partner)]
    /\ Return(r)
    /\ UNCHANGED <<seen, free>>

-----------------------------------------------------------------------------
\* One attempt too many.
BugLockError(r) ==
    /\ call[r].pc \in {"insert", "mark"}
    /\ call[r].attempt < MaxTxRetries
    /\ call' = [call EXCEPT ![r] = [pc |-> "insert", post |-> @.post, offer |-> @.offer,
                                    want |-> @.want, match |-> 0, attempt |-> @.attempt + 1]]
    /\ Forget(call[r].post)
    /\ UNCHANGED post

\* A lock failure in Create's transaction: it is begun again, with the record
\* as the failed attempt left it, until the attempts are spent.
LockError(r) ==
    LET c == call[r] IN
    /\ c.pc \in {"insert", "mark"}
    /\ \/ /\ c.attempt + 1 < MaxTxRetries
          /\ call' = [call EXCEPT ![r] = [pc |-> "insert", post |-> c.post, offer |-> c.offer,
                                          want |-> c.want, match |-> 0, attempt |-> c.attempt + 1]]
       \/ c.attempt + 1 >= MaxTxRetries /\ Return(r)
    /\ Forget(c.post)
    /\ UNCHANGED post

\* Any other failure, or the end of the server process.
Fail(r) ==
    /\ call[r].pc \in Steps
    /\ Return(r)
    /\ IF call[r].pc = "close_write" THEN UNCHANGED <<seen, free>> ELSE Forget(call[r].post)
    /\ UNCHANGED post

Next ==
    \E r \in Request :
        \/ \E offer \in Book, want \in Book : PublishStart(r, offer, want)
        \/ \E p \in Post : CloseStart(r, p)
        \/ PublishInsert(r) \/ PublishFind(r) \/ PublishMark(r) \/ PublishCommit(r)
        \/ CloseWrite(r)
        \/ LockError(r) \/ Fail(r)

Spec == Init /\ [][Next]_vars

-----------------------------------------------------------------------------
(* What must hold.                                                          *)

\* Rows and request locals stay in their domains.
TypeOK ==
    /\ post \in [Post -> [offer : Book \cup {"none"}, want : Book \cup {"none"},
                          status : {"none", "open", "matched", "closed"},
                          partner : Post \cup {0}]]
    /\ call \in [Request -> [pc : Steps \cup {"idle"}, post : Post \cup {0},
                             offer : Book \cup {"none"}, want : Book \cup {"none"},
                             match : Post \cup {0}, attempt : 0..(MaxTxRetries - 1)]]
    /\ seen \in [Post -> SUBSET Post]
    /\ free \in [Post -> SUBSET Post]

\* A match joins two different posts that want each other's books, and at least
\* one of the two searched when the other was there and open: a post that was
\* closed, or matched, before the search is never given away.
PartnersSound ==
    \A p \in Post : LET q == post[p].partner IN
        /\ post[p].status = "matched" => q # 0
        /\ q # 0 => /\ q # p
                    /\ Published(q)
                    /\ Mirrored(post[p], post[q])
                    /\ q \in free[p] \/ p \in free[q]

\* Two open posts that mirror each other wait side by side only when neither
\* could see the other: their publications overlapped, or both were seeded.
MissedOnlyByOverlap ==
    \A p \in Post, q \in Post :
        (p # q /\ post[p].status = "open" /\ post[q].status = "open" /\ Mirrored(post[p], post[q]))
            => q \notin seen[p] /\ p \notin seen[q]

\* A post loses its partner to a third one only when the third could not see it
\* was taken: it had searched before the first match was committed.
StolenOnlyByOverlap ==
    \A p \in Post : LET q == post[p].partner IN
        q # 0 /\ post[q].partner # p => p \notin seen[post[q].partner]

\* The transactions appear to happen at once.
ImplementsBoard == Board!Spec

=============================================================================
