-------------------------------- MODULE Chat --------------------------------
(***************************************************************************)
(* Conversations and messages: ConversationService behind its handler, and *)
(* the message page that shows one conversation at a time                  *)
(* (useConversations.ts).                                                  *)
(*                                                                         *)
(* There is no transaction: each statement commits by itself, and each     *)
(* INSERT carries the time at which the server stamped its row, kept to    *)
(* the millisecond: two rows may carry the same, and ORDER BY created_at   *)
(* lists them either way.  The server's clock is never set back.  The page *)
(* asks for a thread when it is clicked and shows whatever answer comes;   *)
(* answers may come in any order.  Messages are posted by other clients of *)
(* the API: the page's own button hands send the click instead of the text *)
(* (Messages.vue), which the server refuses.                               *)
(***************************************************************************)
EXTENDS Integers, FiniteSets, SequencesExt

CONSTANTS
    User,
    Product,
    SellerOf,       \* [Product -> User]
    Request,        \* HTTP requests the server may be serving at once
    Reader,         \* the users whose message page is open
    Click,          \* places for a page's requests in flight
    MaxThreads,     \* bound: rows of conversations
    MaxMessages,    \* bound: messages, those being sent included
    MaxTime,        \* bound: the clock
    MaxClicks       \* bound: clicks on a thread, per page

ASSUME ChatAssumption ==
    /\ SellerOf \in [Product -> User] /\ Reader \subseteq User
    /\ MaxThreads \in Nat /\ MaxMessages \in Nat
    /\ MaxTime \in Nat /\ MaxClicks \in Nat

VARIABLES
    thread,    \* conversations, in the order of their ids: [product, buyer]
    message,   \* messages, in the order of their INSERTs: [thread, stamp, since],
               \* stamp for created_at; since is history: how many came before the stamp
    clock,     \* the time of the last stamp given
    call,      \* the local state of each request
    page,      \* [Reader -> [list, active, shown, clicks, last]]; shown holds positions
               \* in message; last is history: what became of the last click
    opening,   \* [Reader -> [Click -> a GET .../messages in flight, or NoClick]]
    opened     \* history: the <<product, buyer, thread>> that Create answered with

server == <<thread, message, clock, call, opened>>
browser == <<page, opening>>
vars == <<server, browser>>

Thread == 1..Len(thread)
SellerIn(t) == SellerOf[thread[t].product]
TakesPart(u, t) == u \in {thread[t].buyer, SellerIn(t)}

Idle == [pc |-> "idle", product |-> "none", user |-> "none", thread |-> 0,
         stamp |-> 0, since |-> 0]
NoClick == [thread |-> 0, number |-> 0, served |-> FALSE, rows |-> <<>>]

\* ListMessages: a thread's rows.
RowsOf(t) == {n \in DOMAIN message : message[n].thread = t}

\* The newest first.
BugListings(t) ==
    {q \in SetToSeqs(RowsOf(t)) : \A i, j \in DOMAIN q :
        i < j => message[q[i]].stamp >= message[q[j]].stamp}

\* ORDER BY created_at ASC: rows of one stamp come in any order, and not always
\* the same.
Listings(t) ==
    {q \in SetToSeqs(RowsOf(t)) : \A i, j \in DOMAIN q :
        i < j => message[q[i]].stamp <= message[q[j]].stamp}

Init ==
    /\ thread = <<>> /\ message = <<>> /\ clock = 0
    /\ call = [r \in Request |-> Idle]
    /\ page = [u \in Reader |->
          [list |-> {}, active |-> 0, shown |-> <<>>, clicks |-> 0, last |-> "none"]]
    /\ opening = [u \in Reader |-> [k \in Click |-> NoClick]]
    /\ opened = {}

Return(r) == call' = [call EXCEPT ![r] = Idle]

-----------------------------------------------------------------------------
(* POST /conversations                                                      *)

Triple(p, u) == {t \in Thread : thread[t].product = p /\ thread[t].buyer = u}

\* Any user asks about any product, his own too; the answer is the thread that
\* is there.  A look-up that fails for another reason is taken for an absent row.
CreateLookup(r, p, u) ==
    /\ call[r] = Idle
    /\ \/ \E t \in Triple(p, u) : opened' = opened \cup {<<p, u, t>>} /\ UNCHANGED call
       \/ /\ call' = [call EXCEPT ![r] = [Idle EXCEPT !.pc = "insert",
                                                      !.product = p, !.user = u]]
          /\ UNCHANGED opened
    /\ UNCHANGED <<thread, message, clock, browser>>

\* Without uniq_conversation_triple.
BugRefused(p, u) == FALSE

\* The unique index on product, buyer and seller.
Refused(p, u) == Triple(p, u) # {}

\* The INSERT; the index fails it (500) when the thread has come in between.
CreateInsert(r) ==
    LET c == call[r] IN
    /\ c.pc = "insert"
    /\ \/ Refused(c.product, c.user) /\ UNCHANGED <<thread, opened>>
       \/ /\ ~Refused(c.product, c.user)
          /\ Len(thread) < MaxThreads
          /\ thread' = Append(thread, [product |-> c.product, buyer |-> c.user])
          /\ opened' = opened \cup {<<c.product, c.user, Len(thread) + 1>>}
    /\ Return(r)
    /\ UNCHANGED <<message, clock, browser>>

-----------------------------------------------------------------------------
(* POST /conversations/:id/messages                                         *)

Sending == {r \in Request : call[r].pc = "send"}

\* FindByID and the check of who takes part; then gorm stamps the row.  The
\* clock may have moved on since the last stamp, or not.
SendStart(r, u, t) ==
    /\ call[r] = Idle /\ Len(message) + Cardinality(Sending) < MaxMessages
    /\ TakesPart(u, t)
    /\ \E now \in clock..MaxTime :
          /\ clock' = now
          /\ call' = [call EXCEPT ![r] = [Idle EXCEPT !.pc = "send", !.thread = t,
                                           !.stamp = now, !.since = Len(message)]]
    /\ UNCHANGED <<thread, message, opened, browser>>

SendInsert(r) ==
    LET c == call[r] IN
    /\ c.pc = "send"
    /\ message' = Append(message, [thread |-> c.thread, stamp |-> c.stamp, since |-> c.since])
    /\ Return(r)
    /\ UNCHANGED <<thread, clock, opened, browser>>

\* A statement fails, or the connection is lost before it.
Fail(r) ==
    /\ call[r] # Idle
    /\ Return(r)
    /\ UNCHANGED <<thread, message, clock, opened, browser>>

-----------------------------------------------------------------------------
(* The message page                                                         *)

\* Without the WHERE of ListByUser.
BugListMy(u) == Thread

\* ListByUser.
ListMy(u) == {t \in Thread : TakesPart(u, t)}

\* The page is mounted and its GET /conversations/me answered.
Mount(u) ==
    /\ opening[u] = [k \in Click |-> NoClick]
    /\ page' = [page EXCEPT ![u] =
          [list |-> ListMy(u), active |-> 0, shown |-> <<>>,
           clicks |-> @.clicks, last |-> "none"]]
    /\ UNCHANGED <<server, opening>>

\* A thread stays active once it is.
BugOpen(u, k, t) ==
    /\ t \in page[u].list /\ opening[u][k] = NoClick /\ page[u].clicks < MaxClicks
    /\ page' = [page EXCEPT ![u].active = IF @ = 0 THEN t ELSE @, ![u].clicks = @ + 1,
                             ![u].last = "asked"]
    /\ opening' = [opening EXCEPT ![u][k] = [NoClick EXCEPT !.thread = t,
                                                            !.number = page[u].clicks + 1]]
    /\ UNCHANGED server

\* open: the thread becomes the active one at once, and its messages are asked
\* for.  A click on the active thread asks again.
Open(u, k, t) ==
    /\ t \in page[u].list /\ opening[u][k] = NoClick /\ page[u].clicks < MaxClicks
    /\ page' = [page EXCEPT ![u].active = t, ![u].clicks = @ + 1, ![u].last = "asked"]
    /\ opening' = [opening EXCEPT ![u][k] = [NoClick EXCEPT !.thread = t,
                                                            !.number = page[u].clicks + 1]]
    /\ UNCHANGED server

\* ListMessages on the server: who takes part gets the rows.
Serve(u, k) ==
    LET c == opening[u][k] IN
    /\ c # NoClick /\ ~c.served /\ TakesPart(u, c.thread)
    /\ \E q \in Listings(c.thread) :
          opening' = [opening EXCEPT ![u][k].served = TRUE, ![u][k].rows = q]
    /\ UNCHANGED <<server, page>>

\* What becomes of the last click when an answer is shown: its own, or another
\* one that writes over it.
Fate(p, c) ==
    CASE c.number = p.clicks -> "shown"
      [] c.number # p.clicks /\ p.last = "shown" -> "overtaken"
      [] OTHER -> p.last

\* The answer replaces what is shown; no one looks at what is active by now.
Show(u, k) ==
    LET c == opening[u][k] IN
    /\ c.served
    /\ page' = [page EXCEPT ![u].shown = c.rows, ![u].last = Fate(page[u], c)]
    /\ opening' = [opening EXCEPT ![u][k] = NoClick]
    /\ UNCHANGED server

\* The request or its answer is lost, late or an error: the page keeps the rows.
Lose(u, k) ==
    LET c == opening[u][k] IN
    /\ c # NoClick
    /\ page' = [page EXCEPT ![u].last = IF c.number = page[u].clicks THEN "lost" ELSE @]
    /\ opening' = [opening EXCEPT ![u][k] = NoClick]
    /\ UNCHANGED server

-----------------------------------------------------------------------------
Handle(r) ==
    \/ \E u \in User :
          \/ \E p \in Product : CreateLookup(r, p, u)
          \/ \E t \in Thread : SendStart(r, u, t)
    \/ CreateInsert(r) \/ SendInsert(r) \/ Fail(r)

Browse(u) ==
    \/ Mount(u)
    \/ \E k \in Click :
          \/ \E t \in page[u].list : Open(u, k, t)
          \/ Serve(u, k) \/ Show(u, k) \/ Lose(u, k)

Next == (\E r \in Request : Handle(r)) \/ \E u \in Reader : Browse(u)

Spec == Init /\ [][Next]_vars

-----------------------------------------------------------------------------
(* What must hold.                                                          *)

\* Rows stay in their domains, messages belong to threads, and a page lists and
\* shows only threads its user takes part in.
TypeOK ==
    /\ thread \in Seq([product : Product, buyer : User]) /\ Len(thread) <= MaxThreads
    /\ message \in Seq([thread : Thread, stamp : 0..clock, since : Nat])
    /\ \A r \in Request : call[r].pc \in {"idle", "insert", "send"}
    /\ \A u \in Reader :
          /\ page[u].last \in {"none", "asked", "shown", "overtaken", "lost"}
          /\ \A t \in page[u].list : TakesPart(u, t)
          /\ \A i \in DOMAIN page[u].shown :
                /\ page[u].shown[i] \in DOMAIN message
                /\ message[page[u].shown[i]].thread \in page[u].list

\* However many of a buyer's requests race for one product, every one that is
\* answered gets the same thread, and the answer leads to it.
OneThread ==
    \A x, y \in opened :
        /\ thread[x[3]] = [product |-> x[1], buyer |-> x[2]]
        /\ x[1] = y[1] /\ x[2] = y[2] => x[3] = y[3]

\* The last click's request is in flight.
Awaited(u) ==
    \E k \in Click : opening[u][k] # NoClick /\ opening[u][k].number = page[u].clicks

\* A page shows messages of another thread than the one marked active only while
\* the last click is being answered, when an earlier click's answer came after the
\* last one's and wrote over it, or when the last click's was lost.
ShownIsActive ==
    \A u \in Reader : \A i \in DOMAIN page[u].shown :
        message[page[u].shown[i]].thread # page[u].active =>
            Awaited(u) \/ page[u].last \in {"overtaken", "lost"}

\* A page that asks again gets each message it shows in the place where it shows
\* it: unless another one has the same stamp, or one that was being sent when it
\* was inserted, with an earlier stamp, has come in after it.
ShownStaysInPlace ==
    \A u \in Reader : \A i \in DOMAIN page[u].shown :
        LET m == page[u].shown[i]
            rows == RowsOf(message[m].thread) IN
        \/ \A q \in Listings(message[m].thread) : i \in DOMAIN q /\ q[i] = m
        \/ \E n \in rows \ {m} : message[n].stamp = message[m].stamp
        \/ \E n \in rows : /\ message[n].stamp < message[m].stamp
                           /\ message[n].since < m /\ m < n

=============================================================================
