----------------------------- MODULE ChatProofs -----------------------------
(***************************************************************************)
(* Proofs about Chat for any users, products and requests.  The unique     *)
(* index keeps the rows of conversations apart, rows never change, and a   *)
(* request is answered with a row of its product and buyer.  A message is  *)
(* stamped no earlier than those that were there when it was (Posted), so  *)
(* that one that no other ties with or was sent beside keeps its place:    *)
(* the number of rows stamped before it (PlaceOf).                         *)
(***************************************************************************)
EXTENDS Chat, FiniteSetTheorems, SequenceTheorems, TLAPS

Row == [product : Product, buyer : User]

\* No two rows are one thread, and every answer given is about its row.
IInv ==
    /\ thread \in Seq(Row)
    /\ \A i \in Thread, j \in Thread : thread[i] = thread[j] => i = j
    /\ \A x \in opened :
          /\ x[3] \in Thread
          /\ thread[x[3]] = [product |-> x[1], buyer |-> x[2]]
    /\ DOMAIN call = Request
    /\ \A r \in Request :
          call[r].pc = "insert" => call[r].product \in Product /\ call[r].user \in User

LEMMA ThreadFacts ==
  ASSUME thread \in Seq(Row)
  PROVE  /\ Len(thread) \in Nat /\ DOMAIN thread = Thread
         /\ \A i \in Thread : thread[i] \in Row
BY LenProperties, ElementOfSeq DEF Thread

LEMMA IdleFacts == Idle.pc = "idle"
BY DEF Idle

\* A request that only moves its locals, and not to its INSERT.
LEMMA ReturnKeeps ==
  ASSUME IInv, UNCHANGED <<thread, opened>>, NEW r \in Request,
         DOMAIN call' = Request, \A q \in Request \ {r} : call'[q] = call[q],
         call'[r].pc # "insert"
  PROVE  IInv'
BY DEF IInv, Thread

LEMMA LookupKeeps ==
  ASSUME IInv, NEW r \in Request, NEW p \in Product, NEW u \in User, CreateLookup(r, p, u)
  PROVE  IInv'
<1>1. UNCHANGED thread
  BY DEF CreateLookup
<1>2. ASSUME NEW t \in Triple(p, u), opened' = opened \cup {<<p, u, t>>}, UNCHANGED call
      PROVE  IInv'
  <2>1. t \in Thread /\ thread[t] \in Row /\ thread[t].product = p /\ thread[t].buyer = u
    BY <1>2, ThreadFacts DEF IInv, Triple
  <2>2. thread[t] = [product |-> p, buyer |-> u]
    BY <2>1 DEF Row
  <2> QED
    BY <1>1, <1>2, <2>1, <2>2 DEF IInv, Thread
<1>3. CASE UNCHANGED opened /\ call' = [call EXCEPT ![r] = [Idle EXCEPT !.pc = "insert",
                                                             !.product = p, !.user = u]]
  <2>1. /\ DOMAIN call' = Request /\ \A q \in Request \ {r} : call'[q] = call[q]
        /\ call'[r].product = p /\ call'[r].user = u
    BY <1>3 DEF IInv, Idle
  <2> QED
    BY <1>1, <1>3, <2>1 DEF IInv, Thread
<1> QED
  BY <1>2, <1>3 DEF CreateLookup

LEMMA InsertKeeps ==
  ASSUME IInv, NEW r \in Request, CreateInsert(r)
  PROVE  IInv'
<1>1. /\ DOMAIN call' = Request /\ \A q \in Request \ {r} : call'[q] = call[q]
      /\ call'[r].pc # "insert"
  BY IdleFacts DEF CreateInsert, Return, IInv
<1>2. PICK p, u : p = call[r].product /\ u = call[r].user
  OBVIOUS
<1>3. p \in Product /\ u \in User
  BY <1>2 DEF IInv, CreateInsert
<1>4. CASE UNCHANGED <<thread, opened>>
  BY <1>1, <1>4, ReturnKeeps
<1>5. CASE /\ ~Refused(p, u)
           /\ thread' = Append(thread, [product |-> p, buyer |-> u])
           /\ opened' = opened \cup {<<p, u, Len(thread) + 1>>}
  <2> DEFINE new == [product |-> p, buyer |-> u]
  <2>1. new \in Row /\ thread \in Seq(Row)
    BY <1>3 DEF Row, IInv
  <2>2. /\ thread' \in Seq(Row)
        /\ Len(thread') = Len(thread) + 1 /\ Len(thread) \in Nat
        /\ \A i \in Thread : thread'[i] = thread[i]
        /\ thread'[Len(thread) + 1] = new
    BY <1>5, <2>1, AppendProperties, LenProperties DEF Thread
  <2>3. Thread' = Thread \cup {Len(thread) + 1} /\ Len(thread) + 1 \notin Thread
    BY <2>2 DEF Thread
  <2>4. \A i \in Thread : thread[i] # new
    BY <1>5 DEF Refused, Triple
  <2>5. \A i \in Thread', j \in Thread' : thread'[i] = thread'[j] => i = j
    BY <2>2, <2>3, <2>4 DEF IInv
  <2>6. ASSUME NEW x \in opened'
        PROVE  x[3] \in Thread' /\ thread'[x[3]] = [product |-> x[1], buyer |-> x[2]]
    <3>1. CASE x \in opened
      BY <2>2, <2>3, <3>1 DEF IInv
    <3>2. CASE x = <<p, u, Len(thread) + 1>>
      <4>1. x[1] = p /\ x[2] = u /\ x[3] = Len(thread) + 1
        BY <3>2
      <4> QED
        BY <2>2, <2>3, <4>1
    <3> QED
      BY <1>5, <3>1, <3>2
  <2>7. \A q \in Request : call'[q].pc = "insert" =>
                              call'[q].product \in Product /\ call'[q].user \in User
    BY <1>1 DEF IInv
  <2> QED
    BY <1>1, <2>2, <2>5, <2>6, <2>7 DEF IInv
<1> QED
  BY <1>2, <1>4, <1>5 DEF CreateInsert

LEMMA StepKeeps == IInv /\ [Next]_vars => IInv'
<1> SUFFICES ASSUME IInv, [Next]_vars PROVE IInv'
  OBVIOUS
<1>1. UNCHANGED <<thread, opened, call>> => IInv'
  BY DEF IInv, Thread
<1>2. ASSUME NEW r \in Request, NEW u \in User, NEW t \in Thread, SendStart(r, u, t)
      PROVE  IInv'
  <2>1. /\ DOMAIN call' = Request /\ \A q \in Request \ {r} : call'[q] = call[q]
        /\ call'[r].pc = "send" /\ UNCHANGED <<thread, opened>>
    BY <1>2 DEF SendStart, IInv, Idle
  <2> QED
    BY <2>1, ReturnKeeps
<1>3. ASSUME NEW r \in Request, SendInsert(r) \/ Fail(r)
      PROVE  IInv'
  <2>1. /\ DOMAIN call' = Request /\ \A q \in Request \ {r} : call'[q] = call[q]
        /\ call'[r].pc # "insert" /\ UNCHANGED <<thread, opened>>
    BY <1>3, IdleFacts DEF SendInsert, Fail, Return, IInv
  <2> QED
    BY <2>1, ReturnKeeps
<1>4. ASSUME NEW u \in Reader, Browse(u)
      PROVE  UNCHANGED <<thread, opened, call>>
  BY <1>4 DEF Browse, Mount, Open, Serve, Show, Lose, server
<1> QED
  BY <1>1, <1>2, <1>3, <1>4, LookupKeeps, InsertKeeps DEF Next, Handle, vars, server

\* Whoever races to ask about a product: all of a buyer's requests that are
\* answered get one and the same thread, the one between him and the product's
\* seller (find-or-create on the unique index).
THEOREM ThreadsAreOne == Spec => []OneThread
<1>1. Init => IInv
  BY IdleFacts DEF Init, IInv, Thread
<1>2. IInv => OneThread
  BY DEF IInv, OneThread
<1> QED
  BY <1>1, <1>2, StepKeeps, PTL DEF Spec

-----------------------------------------------------------------------------
(* Places in a list ordered by stamps.                                      *)

\* The n rows of q, out of S, are in the order of their stamps f.
Ordered(q, n, S, f) ==
    /\ n \in Nat /\ q \in [1..n -> S] /\ f \in [S -> Nat]
    /\ \A i \in 1..n, j \in 1..n : i < j => q[i] # q[j] /\ f[q[i]] <= f[q[j]]

Untied(q, n, f, i) == \A k \in 1..n : k # i => f[q[k]] # f[q[i]]

\* B are the rows stamped before the i-th.
AreEarlier(B, q, n, f, i) ==
    \A x : x \in B <=> \E k \in 1..n : x = q[k] /\ f[q[k]] < f[q[i]]

\* A row whose stamp no other has comes after those with earlier ones.
LEMMA PlaceOf ==
  ASSUME NEW S, NEW q, NEW n, NEW f, NEW i \in 1..n, NEW B,
         Ordered(q, n, S, f), Untied(q, n, f, i), AreEarlier(B, q, n, f, i)
  PROVE  Cardinality(B) = i - 1
<1> DEFINE D == 1..(i - 1)
           g == [k \in D |-> q[k]]
<1> USE DEF Ordered, Untied, AreEarlier
<1>1. n \in Nat /\ \A k \in 1..n : f[q[k]] \in Nat
  OBVIOUS
<1>2. \A k \in 1..n : f[q[k]] < f[q[i]] <=> k < i
  <2> SUFFICES ASSUME NEW k \in 1..n PROVE f[q[k]] < f[q[i]] <=> k < i
    OBVIOUS
  <2>1. CASE k < i
    <3>1. f[q[k]] <= f[q[i]] /\ f[q[k]] # f[q[i]]
      BY <2>1
    <3> QED
      BY <1>1, <2>1, <3>1
  <2>2. CASE k = i
    BY <1>1, <2>2
  <2>3. CASE i < k
    <3>1. f[q[i]] <= f[q[k]]
      BY <2>3
    <3> QED
      BY <1>1, <2>3, <3>1
  <2> QED
    BY <2>1, <2>2, <2>3
<1>3. \A k \in D : k \in 1..n /\ k < i
  OBVIOUS
<1>4. \A x : x \in B <=> \E k \in D : x = g[k]
  <2>1. \A x : x \in B => \E k \in D : x = g[k]
    <3> SUFFICES ASSUME NEW x \in B PROVE \E k \in D : x = g[k]
      OBVIOUS
    <3>1. PICK k \in 1..n : x = q[k] /\ f[q[k]] < f[q[i]]
      OBVIOUS
    <3>2. k \in D
      BY <1>2, <3>1
    <3> QED
      BY <3>1, <3>2
  <2>2. \A k \in D : g[k] \in B
    BY <1>2, <1>3
  <2> QED
    BY <2>1, <2>2
<1>5. g \in [D -> B]
  BY <1>4
<1>6. \A j \in D, k \in D : g[j] = g[k] => j = k
  <2> SUFFICES ASSUME NEW j \in D, NEW k \in D, j # k PROVE g[j] # g[k]
    OBVIOUS
  <2>1. j < k \/ k < j
    OBVIOUS
  <2> QED
    BY <1>3, <2>1
<1>7. g \in Injection(D, B) /\ g \in Surjection(D, B)
  <2> HIDE DEF g, D
  <2>1. g \in Injection(D, B)
    BY <1>5, <1>6 DEF Injection, IsInjective
  <2>2. g \in Surjection(D, B)
    BY <1>4, <1>5 DEF Surjection
  <2> QED
    BY <2>1, <2>2
<1>8. IsFiniteSet(D) /\ Cardinality(D) = i - 1
  <2>1. 1 \in Int /\ i - 1 \in Int /\ (IF 1 > i - 1 THEN 0 ELSE i - 1 - 1 + 1) = i - 1
    OBVIOUS
  <2> QED
    BY <2>1, FS_Interval
<1> HIDE DEF g, D
<1>9. Cardinality(B) = Cardinality(D)
  BY <1>7, <1>8, FS_Surjection
<1> QED
  BY <1>8, <1>9

-----------------------------------------------------------------------------
(* Rows and pages.                                                          *)

Message == [thread : Thread, stamp : 0..clock, since : Nat]

Page == [list : SUBSET Nat, active : Nat, shown : Seq(Nat), clicks : Nat,
         last : {"none", "asked", "shown", "overtaken", "lost"}]

Ask == [thread : Nat, number : Nat, served : BOOLEAN, rows : Seq(Nat)]

\* The first k rows are stamped by then.
StampedBy(rows, k, stamp) == \A m \in 1..k : rows[m].stamp <= stamp

\* A message is stamped no earlier than the ones that were there by then, and so
\* is one about to be inserted.
Posted ==
    /\ clock \in Nat /\ Len(thread) <= MaxThreads
    /\ message \in Seq(Message)
    /\ \A n \in 1..Len(message) :
          message[n].since < n /\ StampedBy(message, message[n].since, message[n].stamp)
    /\ \A r \in Request :
          /\ call[r].pc \in {"idle", "insert", "send"}
          /\ call[r].pc = "send" =>
                /\ call[r].thread \in Thread /\ call[r].stamp \in 0..clock
                /\ call[r].since \in 0..Len(message)
                /\ StampedBy(message, call[r].since, call[r].stamp)

\* The rows are those of thread t among the first w messages, by their stamps.
ServedOf(w, rows, t) ==
    /\ rows \in Seq(Nat)
    /\ \A i \in 1..Len(rows) : rows[i] \in 1..w /\ message[rows[i]].thread = t
    /\ \A n \in 1..w : message[n].thread = t => \E i \in 1..Len(rows) : rows[i] = n
    /\ \A i \in 1..Len(rows), j \in 1..Len(rows) :
          i < j => rows[i] # rows[j] /\ message[rows[i]].stamp <= message[rows[j]].stamp

Served(rows, t) == \E w \in 0..Len(message) : ServedOf(w, rows, t)

\* A click numbered as the last one is about the active thread.
AskSound(c, p) ==
    c # NoClick =>
        /\ c.thread \in p.list /\ c.number <= p.clicks
        /\ c.number = p.clicks => c.thread = p.active
        /\ c.served => Served(c.rows, c.thread)

\* What the fate of the last click says of the rows shown and of the requests.
LastSound(p, o) ==
    /\ p.last = "none" => p.shown = <<>> /\ \A k \in Click : o[k] = NoClick
    /\ p.last = "asked" => \E k \in Click : o[k] # NoClick /\ o[k].number = p.clicks
    /\ p.last = "shown" => Served(p.shown, p.active)

PageSound(u, p, o) ==
    /\ p \in Page /\ o \in [Click -> Ask]
    /\ \A t \in p.list : t \in Thread /\ TakesPart(u, t)
    /\ p.shown # <<>> => \E t \in p.list : Served(p.shown, t)
    /\ LastSound(p, o)
    /\ \A k \in Click : AskSound(o[k], p)

PagesSound ==
    /\ DOMAIN page = Reader /\ DOMAIN opening = Reader
    /\ \A u \in Reader : PageSound(u, page[u], opening[u])

CInv == IInv /\ Posted /\ PagesSound

LEMMA MessageFacts ==
  ASSUME Posted
  PROVE  /\ Len(message) \in Nat /\ DOMAIN message = 1..Len(message)
         /\ \A n \in 1..Len(message) : /\ message[n].thread \in Thread
                                       /\ message[n].stamp \in 0..clock /\ message[n].stamp \in Nat
                                       /\ message[n].since \in Nat
<1>1. message \in Seq(Message) /\ clock \in Nat
  BY DEF Posted
<1>2. Len(message) \in Nat /\ DOMAIN message = 1..Len(message)
  BY <1>1, LenProperties
<1>3. \A n \in 1..Len(message) : message[n] \in Message
  BY <1>1, ElementOfSeq
<1> QED
  BY <1>1, <1>2, <1>3 DEF Message

\* Messages are only added, and never change.
MessagesStay ==
    /\ Len(message) <= Len(message')
    /\ \A n \in 1..Len(message) : message'[n] = message[n]

LEMMA ServedStays ==
  ASSUME Posted, Posted', MessagesStay, NEW rows, NEW t, Served(rows, t)
  PROVE  Served(rows, t)'
<1>1. Len(message) \in Nat /\ Len(message') \in Nat
  BY MessageFacts DEF Posted
<1>2. PICK w \in 0..Len(message) : ServedOf(w, rows, t)
  BY DEF Served
<1>3. w \in 0..Len(message')
  BY <1>1 DEF MessagesStay
<1>4. \A n \in 1..w : message'[n] = message[n]
  BY <1>1 DEF MessagesStay
<1>5. \A i \in 1..Len(rows) : rows[i] \in 1..w /\ message'[rows[i]] = message[rows[i]]
  BY <1>2, <1>4 DEF ServedOf
<1>6. ServedOf(w, rows, t)'
  BY <1>2, <1>4, <1>5 DEF ServedOf
<1> QED
  BY <1>3, <1>6 DEF Served

\* The rest of a page's state is about rows of conversations that do not change.
LEMMA PageKept ==
  ASSUME NEW u, NEW p, NEW o, PageSound(u, p, o),
         Thread \subseteq Thread', \A t \in Thread : thread'[t] = thread[t],
         \A rows, t : Served(rows, t) => Served(rows, t)'
  PROVE  PageSound(u, p, o)'
<1>1. \A t \in Thread : TakesPart(u, t) => TakesPart(u, t)'
  BY DEF TakesPart, SellerIn
<1>2. \A k \in Click : AskSound(o[k], p) => AskSound(o[k], p)'
  BY DEF AskSound
<1>3. LastSound(p, o) => LastSound(p, o)'
  BY DEF LastSound
<1> QED
  BY <1>1, <1>2, <1>3 DEF PageSound

\* A listing is what is served of all messages.
LEMMA ListingServed ==
  ASSUME Posted, NEW t, NEW q \in Listings(t)
  PROVE  /\ Served(q, t) /\ q \in [1..Cardinality(RowsOf(t)) -> RowsOf(t)]
         /\ Cardinality(RowsOf(t)) \in Nat /\ Len(q) = Cardinality(RowsOf(t))
         /\ \A x \in RowsOf(t) : \E i \in 1..Len(q) : q[i] = x
<1>1. PICK S, n, w : S = RowsOf(t) /\ n = Cardinality(S) /\ w = Len(message)
  OBVIOUS
<1>2. w \in Nat /\ DOMAIN message = 1..w
  BY <1>1, MessageFacts
<1>3. S \subseteq 1..w /\ \A x : x \in S <=> x \in 1..w /\ message[x].thread = t
  BY <1>1, <1>2 DEF RowsOf
<1>4. IsFiniteSet(S) /\ n \in Nat
  <2>1. IsFiniteSet(1..w)
    BY <1>2, FS_Interval
  <2>2. IsFiniteSet(S)
    BY <1>3, <2>1, FS_Subset
  <2> QED
    BY <1>1, <2>2, FS_CardinalityType
<1>5. /\ q \in [1..n -> S]
      /\ \A i \in 1..n, j \in 1..n : i # j => q[i] # q[j]
      /\ \A i \in 1..n, j \in 1..n : i < j => message[q[i]].stamp <= message[q[j]].stamp
  <2>1. q \in SetToSeqs(S) /\ \A i, j \in DOMAIN q : i < j => message[q[i]].stamp <= message[q[j]].stamp
    BY <1>1 DEF Listings
  <2>2. q \in [1..n -> S] /\ \A i \in 1..n, j \in 1..n : i # j => q[i] # q[j]
    BY <1>1, <2>1 DEF SetToSeqs
  <2> QED
    BY <2>1, <2>2
<1>6. q \in Seq(Nat) /\ Len(q) = n
  <2>1. q \in [1..n -> Nat]
    BY <1>2, <1>3, <1>5
  <2> QED
    BY <1>4, <2>1
<1>7. \A x \in S : \E i \in 1..n : q[i] = x
  <2>1. IsFiniteSet(1..n) /\ Cardinality(1..n) = Cardinality(S)
    BY <1>1, <1>4, FS_Interval
  <2>2. q \in Injection(1..n, S)
    BY <1>5 DEF Injection, IsInjective
  <2>3. q \in Surjection(1..n, S)
    BY <1>4, <2>1, <2>2, FS_Injection
  <2> QED
    BY <2>3 DEF Surjection
<1>8. \A i \in 1..n, j \in 1..n : i < j => q[i] # q[j]
  BY <1>4, <1>5
<1>9. ServedOf(w, q, t)
  BY <1>3, <1>5, <1>6, <1>7, <1>8 DEF ServedOf
<1>10. Served(q, t)
  BY <1>1, <1>2, <1>9 DEF Served
<1> QED
  BY <1>1, <1>4, <1>5, <1>6, <1>7, <1>10

-----------------------------------------------------------------------------
(* A page's steps.                                                          *)

LEMMA NoClickFacts ==
  /\ NoClick.thread = 0 /\ NoClick.number = 0 /\ NoClick.served = FALSE /\ NoClick.rows = <<>>
  /\ NoClick \in Ask /\ <<>> \in Seq(Nat) /\ Len(<<>>) = 0
BY EmptySeq DEF NoClick, Ask

LEMMA MountSound ==
  ASSUME IInv, NEW u, NEW p, NEW o, PageSound(u, p, o), \A k \in Click : o[k] = NoClick
  PROVE  PageSound(u, [list |-> ListMy(u), active |-> 0, shown |-> <<>>,
                       clicks |-> p.clicks, last |-> "none"], o)
<1>1. PICK q : q = [list |-> ListMy(u), active |-> 0, shown |-> <<>>,
                    clicks |-> p.clicks, last |-> "none"]
  OBVIOUS
<1>2. /\ q.list = ListMy(u) /\ q.active = 0 /\ q.shown = <<>>
      /\ q.clicks = p.clicks /\ q.last = "none"
  BY <1>1
<1>3. ListMy(u) \subseteq Nat /\ \A t \in ListMy(u) : t \in Thread /\ TakesPart(u, t)
  BY ThreadFacts DEF ListMy, Thread, IInv
<1>4. p.clicks \in Nat
  BY DEF PageSound, Page
<1>5. q \in Page
  BY <1>1, <1>3, <1>4, NoClickFacts DEF Page
<1>6. \A k \in Click : AskSound(o[k], q)
  BY DEF AskSound
<1>7. LastSound(q, o)
  BY <1>2 DEF LastSound
<1>8. PageSound(u, q, o)
  BY <1>2, <1>3, <1>5, <1>6, <1>7 DEF PageSound
<1> QED
  BY <1>1, <1>8

LEMMA OpenSound ==
  ASSUME IInv, NEW u, NEW p, NEW o, PageSound(u, p, o), NEW k \in Click, NEW t \in p.list,
         NEW q \in Page, q.list = p.list, q.active = t, q.shown = p.shown,
         q.clicks = p.clicks + 1, q.last = "asked",
         NEW c \in Ask, c.thread = t, c.number = p.clicks + 1, ~c.served
  PROVE  PageSound(u, q, [o EXCEPT ![k] = c])
<1>1. p \in Page /\ p.clicks \in Nat /\ t \in Nat /\ o \in [Click -> Ask]
  BY DEF PageSound, Page
<1>2. PICK e : e = [o EXCEPT ![k] = c]
  OBVIOUS
<1>3. e \in [Click -> Ask] /\ e[k] = c /\ \A j \in Click : j # k => e[j] = o[j]
  BY <1>1, <1>2
<1>4. AskSound(c, q)
  BY <1>1 DEF AskSound
<1>5. ASSUME NEW j \in Click, j # k
      PROVE  AskSound(o[j], q)
  <2>1. o[j].number \in Nat /\ AskSound(o[j], p)
    BY <1>1 DEF PageSound, Ask
  <2>2. o[j] # NoClick => o[j].number <= q.clicks /\ o[j].number # q.clicks
    BY <1>1, <2>1 DEF AskSound
  <2> QED
    BY <2>1, <2>2 DEF AskSound
<1>6. \A j \in Click : AskSound(e[j], q)
  BY <1>3, <1>4, <1>5
<1>7. e[k] # NoClick /\ e[k].number = q.clicks
  <2>1. c.number # 0
    BY <1>1
  <2> QED
    BY <1>3, <2>1, NoClickFacts
<1>8. LastSound(q, e)
  BY <1>7 DEF LastSound
<1>9. PageSound(u, q, e)
  BY <1>3, <1>6, <1>8 DEF PageSound
<1> QED
  BY <1>2, <1>9

LEMMA ServeSound ==
  ASSUME Posted, NEW u, NEW p, NEW o, PageSound(u, p, o), NEW k \in Click,
         o[k] # NoClick, ~o[k].served, NEW rows \in Listings(o[k].thread)
  PROVE  PageSound(u, p, [o EXCEPT ![k].served = TRUE, ![k].rows = rows])
<1>1. PICK e : e = [o EXCEPT ![k].served = TRUE, ![k].rows = rows]
  OBVIOUS
<1>2. o \in [Click -> Ask] /\ o[k] \in Ask /\ AskSound(o[k], p) /\ LastSound(p, o)
  BY DEF PageSound
<1>3. Served(rows, o[k].thread) /\ rows \in Seq(Nat)
  BY ListingServed DEF Served, ServedOf
<1>4. /\ e[k].thread = o[k].thread /\ e[k].number = o[k].number
      /\ e[k].served = TRUE /\ e[k].rows = rows /\ e[k] \in Ask
      /\ e \in [Click -> Ask] /\ \A j \in Click : j # k => e[j] = o[j]
  BY <1>1, <1>2, <1>3 DEF Ask
<1>5. AskSound(e[k], p)
  BY <1>2, <1>3, <1>4 DEF AskSound
<1>6. e[k] # NoClick
  BY <1>4, NoClickFacts
<1>7. LastSound(p, e)
  <2>1. p.last # "none"
    BY <1>2 DEF LastSound
  <2>2. ASSUME NEW j \in Click, o[j] # NoClick, o[j].number = p.clicks
        PROVE  e[j] # NoClick /\ e[j].number = p.clicks
    BY <1>4, <1>6, <2>2
  <2> QED
    BY <1>2, <2>1, <2>2 DEF LastSound
<1>8. PageSound(u, p, e)
  BY <1>4, <1>5, <1>7 DEF PageSound
<1> QED
  BY <1>1, <1>8

\* Taking request k away leaves the others, the last click's among them unless
\* it is k.
LEMMA OthersWait ==
  ASSUME NEW p, NEW o \in [Click -> Ask], NEW k \in Click, LastSound(p, o),
         o[k].number # p.clicks, p.last = "asked"
  PROVE  \E j \in Click : /\ [o EXCEPT ![k] = NoClick][j] # NoClick
                          /\ [o EXCEPT ![k] = NoClick][j].number = p.clicks
<1>1. PICK j \in Click : o[j] # NoClick /\ o[j].number = p.clicks
  BY DEF LastSound
<1>2. j # k
  BY <1>1
<1>3. [o EXCEPT ![k] = NoClick][j] = o[j]
  BY <1>2
<1> QED
  BY <1>1, <1>3

LEMMA ShowSound ==
  ASSUME NEW u, NEW p, NEW o, PageSound(u, p, o), NEW k \in Click, o[k].served,
         NEW q \in Page, q.list = p.list, q.active = p.active, q.clicks = p.clicks,
         q.shown = o[k].rows, q.last = Fate(p, o[k])
  PROVE  PageSound(u, q, [o EXCEPT ![k] = NoClick])
<1>1. PICK c, e : c = o[k] /\ e = [o EXCEPT ![k] = NoClick]
  OBVIOUS
<1>2. /\ p \in Page /\ c \in Ask /\ o \in [Click -> Ask] /\ AskSound(c, p) /\ LastSound(p, o)
      /\ c # NoClick
  BY <1>1, NoClickFacts DEF PageSound
<1>3. q.shown = c.rows /\ q.last = Fate(p, c) /\ c.served
  BY <1>1
<1>4. /\ c.thread \in p.list /\ Served(c.rows, c.thread)
      /\ c.number = p.clicks => c.thread = p.active
  BY <1>2, <1>3 DEF AskSound
<1>5. e \in [Click -> Ask] /\ \A j \in Click : AskSound(e[j], p)
  BY <1>1, <1>2, NoClickFacts DEF PageSound, AskSound
<1>6. \A j \in Click : AskSound(e[j], q)
  BY <1>3, <1>5 DEF AskSound
<1>7. p.last # "none"
  BY <1>1, <1>2 DEF LastSound
<1>8. LastSound(q, e)
  <2>1. CASE c.number = p.clicks
    <3>1. q.last = "shown" /\ Served(q.shown, q.active)
      BY <1>3, <1>4, <2>1 DEF Fate
    <3> QED
      BY <3>1 DEF LastSound
  <2>2. CASE c.number # p.clicks /\ p.last = "shown"
    <3>1. q.last = "overtaken"
      BY <1>3, <2>2 DEF Fate
    <3> QED
      BY <3>1 DEF LastSound
  <2>3. CASE c.number # p.clicks /\ p.last # "shown"
    <3>1. q.last = p.last
      BY <1>3, <2>3 DEF Fate
    <3>2. p.last = "asked" => \E j \in Click : e[j] # NoClick /\ e[j].number = p.clicks
      BY <1>1, <1>2, <2>3, OthersWait
    <3> QED
      BY <1>7, <2>3, <3>1, <3>2 DEF LastSound
  <2> QED
    BY <2>1, <2>2, <2>3
<1>9. PageSound(u, q, e)
  BY <1>3, <1>4, <1>5, <1>6, <1>8 DEF PageSound
<1> QED
  BY <1>1, <1>9

LEMMA LoseSound ==
  ASSUME NEW u, NEW p, NEW o, PageSound(u, p, o), NEW k \in Click, o[k] # NoClick,
         NEW q \in Page, q.list = p.list, q.active = p.active, q.clicks = p.clicks,
         q.shown = p.shown, q.last = IF o[k].number = p.clicks THEN "lost" ELSE p.last
  PROVE  PageSound(u, q, [o EXCEPT ![k] = NoClick])
<1>1. PICK e : e = [o EXCEPT ![k] = NoClick]
  OBVIOUS
<1>2. o \in [Click -> Ask] /\ LastSound(p, o)
  BY DEF PageSound
<1>3. e \in [Click -> Ask] /\ \A j \in Click : AskSound(e[j], q)
  BY <1>1, <1>2, NoClickFacts DEF PageSound, AskSound
<1>4. LastSound(q, e)
  <2>1. CASE o[k].number = p.clicks
    BY <2>1 DEF LastSound
  <2>2. CASE o[k].number # p.clicks
    <3>1. p.last = "asked" => \E j \in Click : e[j] # NoClick /\ e[j].number = p.clicks
      BY <1>1, <1>2, <2>2, OthersWait
    <3> QED
      BY <1>2, <2>2, <3>1 DEF LastSound
  <2> QED
    BY <2>1, <2>2
<1>5. PageSound(u, q, e)
  BY <1>3, <1>4 DEF PageSound
<1> QED
  BY <1>1, <1>5

LEMMA BrowseKeeps ==
  ASSUME CInv, NEW u \in Reader, Browse(u)
  PROVE  PageSound(u, page'[u], opening'[u])
<1>1. PICK p, o : p = page[u] /\ o = opening[u]
  OBVIOUS
<1>2. IInv /\ Posted /\ PageSound(u, p, o) /\ u \in DOMAIN page /\ u \in DOMAIN opening
  BY <1>1 DEF CInv, PagesSound
<1>3. CASE Mount(u)
  <2>1. /\ page'[u] = [list |-> ListMy(u), active |-> 0, shown |-> <<>>,
                       clicks |-> p.clicks, last |-> "none"]
        /\ opening'[u] = o
        /\ \A k \in Click : o[k] = NoClick
    BY <1>1, <1>2, <1>3 DEF Mount
  <2> QED
    BY <1>2, <2>1, MountSound
<1>4. ASSUME NEW k \in Click, NEW t \in page[u].list, Open(u, k, t)
      PROVE  PageSound(u, page'[u], opening'[u])
  <2>1. PICK q, c : /\ q = [p EXCEPT !.active = t, !.clicks = @ + 1, !.last = "asked"]
                    /\ c = [NoClick EXCEPT !.thread = t, !.number = p.clicks + 1]
    OBVIOUS
  <2>2. page'[u] = q /\ t \in p.list
    BY <1>1, <1>2, <1>4, <2>1 DEF Open
  <2>3. opening'[u] = [o EXCEPT ![k] = c]
    BY <1>1, <1>2, <1>4, <2>1 DEF Open
  <2>4. p \in Page /\ t \in Nat /\ p.clicks + 1 \in Nat
    BY <1>2, <2>2 DEF PageSound, Page
  <2>5. /\ q \in Page /\ q.list = p.list /\ q.active = t /\ q.shown = p.shown
        /\ q.clicks = p.clicks + 1 /\ q.last = "asked"
    BY <2>1, <2>4 DEF Page
  <2>6. c = [thread |-> t, number |-> p.clicks + 1, served |-> FALSE, rows |-> <<>>]
    BY <2>1 DEF NoClick
  <2>7. c \in Ask /\ c.thread = t /\ c.number = p.clicks + 1 /\ ~c.served
    BY <2>4, <2>6, NoClickFacts DEF Ask
  <2>8. PageSound(u, q, [o EXCEPT ![k] = c])
    BY <1>2, <2>2, <2>5, <2>7, OpenSound
  <2> QED
    BY <2>2, <2>3, <2>8
<1>5. ASSUME NEW k \in Click, Serve(u, k)
      PROVE  PageSound(u, page'[u], opening'[u])
  <2>1. PICK rows \in Listings(o[k].thread) :
           opening' = [opening EXCEPT ![u][k].served = TRUE, ![u][k].rows = rows]
    BY <1>1, <1>5 DEF Serve
  <2>2. /\ page'[u] = p /\ o[k] # NoClick /\ ~o[k].served
        /\ opening'[u] = [o EXCEPT ![k].served = TRUE, ![k].rows = rows]
    BY <1>1, <1>2, <1>5, <2>1 DEF Serve
  <2> QED
    BY <1>2, <2>1, <2>2, ServeSound
<1>6. ASSUME NEW k \in Click, Show(u, k)
      PROVE  PageSound(u, page'[u], opening'[u])
  <2>1. PICK q : q = [p EXCEPT !.shown = o[k].rows, !.last = Fate(p, o[k])]
    OBVIOUS
  <2>2. page'[u] = q /\ o[k].served /\ opening'[u] = [o EXCEPT ![k] = NoClick]
    BY <1>1, <1>2, <1>6, <2>1 DEF Show
  <2>3. p \in Page /\ o[k] \in Ask /\ Fate(p, o[k]) \in {"shown", "overtaken", p.last}
    BY <1>2 DEF PageSound, Fate
  <2>4. /\ q \in Page /\ q.list = p.list /\ q.active = p.active /\ q.clicks = p.clicks
        /\ q.shown = o[k].rows /\ q.last = Fate(p, o[k])
    BY <2>1, <2>3 DEF Page, Ask
  <2>5. PageSound(u, q, [o EXCEPT ![k] = NoClick])
    BY <1>2, <2>2, <2>4, ShowSound
  <2> QED
    BY <2>2, <2>5
<1>7. ASSUME NEW k \in Click, Lose(u, k)
      PROVE  PageSound(u, page'[u], opening'[u])
  <2>1. PICK q : q = [p EXCEPT !.last = IF o[k].number = p.clicks THEN "lost" ELSE @]
    OBVIOUS
  <2>2. page'[u] = q /\ o[k] # NoClick /\ opening'[u] = [o EXCEPT ![k] = NoClick]
    BY <1>1, <1>2, <1>7, <2>1 DEF Lose
  <2>3. p \in Page
    BY <1>2 DEF PageSound
  <2>4. /\ q \in Page /\ q.list = p.list /\ q.active = p.active /\ q.clicks = p.clicks
        /\ q.shown = p.shown /\ q.last = IF o[k].number = p.clicks THEN "lost" ELSE p.last
    BY <2>1, <2>3 DEF Page
  <2>5. PageSound(u, q, [o EXCEPT ![k] = NoClick])
    BY <1>2, <2>2, <2>4, LoseSound
  <2> QED
    BY <2>2, <2>5
<1> QED
  BY <1>3, <1>4, <1>5, <1>6, <1>7 DEF Browse

-----------------------------------------------------------------------------
(* The server's steps.                                                      *)

\* Rows of conversations are only added, and never change.
ThreadsStay == Thread \subseteq Thread' /\ \A t \in Thread : thread'[t] = thread[t]

LEMMA ThreadsDoStay == IInv /\ [Next]_vars => ThreadsStay
<1> SUFFICES ASSUME IInv, [Next]_vars PROVE ThreadsStay
  OBVIOUS
<1>1. UNCHANGED thread => ThreadsStay
  BY DEF ThreadsStay, Thread
<1>2. ASSUME NEW r \in Request, CreateInsert(r)
      PROVE  ThreadsStay
  <2>1. PICK p, u : p = call[r].product /\ u = call[r].user
    OBVIOUS
  <2>2. CASE UNCHANGED thread
    BY <1>1, <2>2
  <2>3. CASE thread' = Append(thread, [product |-> p, buyer |-> u])
    <3>1. p \in Product /\ u \in User
      BY <1>2, <2>1 DEF IInv, CreateInsert
    <3>2. [product |-> p, buyer |-> u] \in Row /\ thread \in Seq(Row)
      BY <3>1 DEF Row, IInv
    <3> QED
      BY <2>3, <3>2, AppendProperties, LenProperties DEF ThreadsStay, Thread
  <2> QED
    BY <1>2, <2>1, <2>2, <2>3 DEF CreateInsert
<1>3. CASE UNCHANGED vars
  BY <1>1, <1>3 DEF vars, server
<1>4. ASSUME NEW u \in Reader, Browse(u)
      PROVE  UNCHANGED thread
  BY <1>4 DEF Browse, Mount, Open, Serve, Show, Lose, server
<1>5. ASSUME NEW r \in Request, Handle(r), ~CreateInsert(r)
      PROVE  UNCHANGED thread
  BY <1>5 DEF Handle, CreateLookup, SendStart, SendInsert, Fail
<1> QED
  BY <1>1, <1>2, <1>3, <1>4, <1>5 DEF Next

LEMMA MessagesUnchanged == Posted /\ UNCHANGED message => MessagesStay
BY MessageFacts DEF MessagesStay

\* A request that takes no stamp.
LEMMA PostedKept ==
  ASSUME Posted, ThreadsStay, Len(thread') <= MaxThreads, UNCHANGED <<message, clock>>,
         NEW r \in Request, \A q \in Request \ {r} : call'[q] = call[q],
         call'[r].pc \in {"idle", "insert"}
  PROVE  Posted'
<1>1. ASSUME NEW q \in Request, call'[q].pc = "send"
      PROVE  call'[q] = call[q]
  BY <1>1
<1>2. Message \subseteq Message'
  BY DEF Message, ThreadsStay
<1>3. message' \in Seq(Message')
  BY <1>2, SeqMonotonic DEF Posted
<1>4. \A q \in Request : call'[q].pc \in {"idle", "insert", "send"}
  BY DEF Posted
<1>5. ASSUME NEW q \in Request, call'[q].pc = "send"
      PROVE  /\ call'[q].thread \in Thread' /\ call'[q].stamp \in 0..clock'
             /\ call'[q].since \in 0..Len(message')
             /\ StampedBy(message', call'[q].since, call'[q].stamp)
  BY <1>1, <1>5 DEF Posted, ThreadsStay, StampedBy
<1>6. \A n \in 1..Len(message') :
         message'[n].since < n /\ StampedBy(message', message'[n].since, message'[n].stamp)
  BY DEF Posted, StampedBy
<1> QED
  BY <1>3, <1>4, <1>5, <1>6 DEF Posted

\* The clock is not behind any stamp that was given.
LEMMA StartKeeps ==
  ASSUME IInv, Posted, ThreadsStay, NEW r \in Request, NEW u \in User, NEW t \in Thread,
         SendStart(r, u, t)
  PROVE  Posted'
<1>1. PICK now \in clock..MaxTime :
         /\ clock' = now
         /\ call' = [call EXCEPT ![r] = [Idle EXCEPT !.pc = "send", !.thread = t,
                                         !.stamp = now, !.since = Len(message)]]
  BY DEF SendStart
<1>2. /\ \A q \in Request \ {r} : call'[q] = call[q]
      /\ call'[r].pc = "send" /\ call'[r].thread = t
      /\ call'[r].stamp = now /\ call'[r].since = Len(message)
      /\ clock \in Nat /\ UNCHANGED <<message, thread>>
  BY <1>1 DEF SendStart, IInv, Idle, Posted
<1>3. clock' \in Nat /\ clock <= clock' /\ 0..clock \subseteq 0..clock'
  BY <1>1, <1>2, ChatAssumption
<1>4. Message \subseteq Message'
  BY <1>3 DEF Message, ThreadsStay
<1>5. message' \in Seq(Message')
  BY <1>2, <1>4, SeqMonotonic DEF Posted
<1>6. \A q \in Request : call'[q].pc \in {"idle", "insert", "send"}
  BY <1>2 DEF Posted
<1>7. ASSUME NEW q \in Request, call'[q].pc = "send"
      PROVE  /\ call'[q].thread \in Thread' /\ call'[q].stamp \in 0..clock'
             /\ call'[q].since \in 0..Len(message')
             /\ StampedBy(message', call'[q].since, call'[q].stamp)
  <2>1. CASE q = r
    <3>1. call'[q].thread \in Thread' /\ call'[q].stamp \in 0..clock'
      BY <1>1, <1>2, <1>3, <2>1 DEF ThreadsStay
    <3>2. call'[q].since \in 0..Len(message')
      BY <1>2, <2>1, MessageFacts
    <3>3. \A m \in 1..Len(message) : message[m].stamp <= now
      BY <1>1, <1>2, <1>3, MessageFacts
    <3>4. StampedBy(message', call'[q].since, call'[q].stamp)
      BY <1>2, <2>1, <3>3 DEF StampedBy
    <3> QED
      BY <3>1, <3>2, <3>4
  <2>2. CASE q # r
    <3>1. call'[q] = call[q] /\ call[q].pc = "send"
      BY <1>2, <1>7, <2>2
    <3> QED
      BY <1>2, <1>3, <3>1 DEF Posted, ThreadsStay, StampedBy
  <2> QED
    BY <2>1, <2>2
<1>8. \A n \in 1..Len(message') :
         message'[n].since < n /\ StampedBy(message', message'[n].since, message'[n].stamp)
  BY <1>2 DEF Posted, StampedBy
<1>9. Len(thread') <= MaxThreads
  BY <1>2 DEF Posted
<1> QED
  BY <1>3, <1>5, <1>6, <1>7, <1>8, <1>9 DEF Posted

LEMMA PostKeeps ==
  ASSUME IInv, Posted, ThreadsStay, NEW r \in Request, SendInsert(r)
  PROVE  Posted' /\ MessagesStay
<1>1. PICK c, m, l : /\ c = call[r] /\ l = Len(message)
                     /\ m = [thread |-> c.thread, stamp |-> c.stamp, since |-> c.since]
  OBVIOUS
<1>2. /\ c.pc = "send" /\ message' = Append(message, m)
      /\ UNCHANGED <<thread, clock>>
      /\ \A q \in Request \ {r} : call'[q] = call[q]
      /\ call'[r].pc = "idle"
  BY <1>1, IdleFacts DEF SendInsert, Return, IInv
<1>3. /\ c.thread \in Thread /\ c.stamp \in 0..clock /\ c.since \in 0..l
      /\ StampedBy(message, c.since, c.stamp) /\ l \in Nat
  BY <1>1, <1>2, MessageFacts DEF Posted
<1>4. m \in Message /\ m.thread = c.thread /\ m.stamp = c.stamp /\ m.since = c.since
  BY <1>1, <1>3 DEF Message
<1>5. /\ message' \in Seq(Message) /\ Len(message') = l + 1 /\ message'[l + 1] = m
      /\ \A n \in 1..l : message'[n] = message[n]
  BY <1>1, <1>2, <1>4, AppendProperties DEF Posted
<1>6. Message' = Message
  BY <1>2 DEF Message, Thread
<1>7. \A k \in 0..l : \A s : StampedBy(message, k, s) => StampedBy(message', k, s)
  <2> SUFFICES ASSUME NEW k \in 0..l, NEW s, StampedBy(message, k, s) PROVE StampedBy(message', k, s)
    OBVIOUS
  <2>1. \A n \in 1..k : n \in 1..l
    BY <1>3
  <2> QED
    BY <1>5, <2>1 DEF StampedBy
<1>8. ASSUME NEW n \in 1..Len(message')
      PROVE  message'[n].since < n /\ StampedBy(message', message'[n].since, message'[n].stamp)
  <2>1. CASE n = l + 1
    <3>1. message'[n].since = c.since /\ message'[n].stamp = c.stamp
      BY <1>4, <1>5, <2>1
    <3>2. c.since < n
      BY <1>3, <2>1
    <3> QED
      BY <1>3, <1>7, <3>1, <3>2
  <2>2. CASE n \in 1..l
    <3>1. message'[n] = message[n] /\ message[n].since \in Nat /\ message[n].since < n
      BY <1>1, <1>5, <2>2, MessageFacts DEF Posted
    <3>2. message[n].since \in 0..l
      BY <1>3, <2>2, <3>1
    <3>3. StampedBy(message, message[n].since, message[n].stamp)
      BY <1>1, <2>2 DEF Posted
    <3> QED
      BY <1>7, <3>1, <3>2, <3>3
  <2> QED
    BY <1>3, <1>5, <2>1, <2>2
<1>9. ASSUME NEW q \in Request, call'[q].pc = "send"
      PROVE  /\ call'[q].thread \in Thread' /\ call'[q].stamp \in 0..clock'
             /\ call'[q].since \in 0..Len(message')
             /\ StampedBy(message', call'[q].since, call'[q].stamp)
  <2>1. call'[q] = call[q] /\ call[q].pc = "send"
    BY <1>2, <1>9
  <2>2. call[q].since \in 0..l
    BY <1>1, <2>1 DEF Posted
  <2>3. call[q].since \in 0..Len(message')
    BY <1>3, <1>5, <2>2
  <2> QED
    BY <1>2, <1>7, <2>1, <2>2, <2>3 DEF Posted, ThreadsStay
<1>10. /\ \A q \in Request : call'[q].pc \in {"idle", "insert", "send"}
       /\ clock' \in Nat /\ Len(thread') <= MaxThreads
  BY <1>2 DEF Posted
<1>11. Posted'
  BY <1>5, <1>6, <1>8, <1>9, <1>10 DEF Posted
<1>12. MessagesStay
  BY <1>1, <1>3, <1>5 DEF MessagesStay
<1> QED
  BY <1>11, <1>12

LEMMA PagesKept ==
  ASSUME Posted, Posted', PagesSound, ThreadsStay, MessagesStay, UNCHANGED browser
  PROVE  PagesSound'
<1>1. page' = page /\ opening' = opening
  BY DEF browser
<1>2. \A rows, t : Served(rows, t) => Served(rows, t)'
  BY ServedStays
<1>3. ASSUME NEW u \in Reader
      PROVE  PageSound(u, page[u], opening[u])'
  <2>1. PICK p, o : p = page[u] /\ o = opening[u]
    OBVIOUS
  <2>2. PageSound(u, p, o)
    BY <2>1 DEF PagesSound
  <2>3. PageSound(u, p, o)'
    BY <1>2, <2>2, PageKept DEF ThreadsStay
  <2> QED
    BY <1>1, <2>1, <2>3
<1> QED
  BY <1>1, <1>3 DEF PagesSound

LEMMA ReadersKeep ==
  ASSUME CInv, NEW u \in Reader, Browse(u)
  PROVE  Posted' /\ PagesSound'
<1>1. UNCHANGED <<thread, message, clock, call>>
  BY DEF Browse, Mount, Open, Serve, Show, Lose, server
<1>2. Posted'
  BY <1>1 DEF CInv, Posted, Thread, Message, StampedBy
<1>3. ThreadsStay /\ MessagesStay
  BY <1>1, MessagesUnchanged DEF ThreadsStay, Thread, CInv
<1>4. \A rows, t : Served(rows, t) => Served(rows, t)'
  BY <1>2, <1>3, ServedStays DEF CInv
<1>5. /\ DOMAIN page' = Reader /\ DOMAIN opening' = Reader
      /\ \A v \in Reader : v # u => page'[v] = page[v] /\ opening'[v] = opening[v]
  BY DEF CInv, PagesSound, Browse, Mount, Open, Serve, Show, Lose
<1>6. ASSUME NEW v \in Reader
      PROVE  PageSound(v, page[v], opening[v])'
  <2>1. PICK p, o : p = page'[v] /\ o = opening'[v]
    OBVIOUS
  <2>2. PageSound(v, p, o)
    <3>1. CASE v = u
      BY <2>1, <3>1, BrowseKeeps
    <3>2. CASE v # u
      BY <1>5, <2>1, <3>2 DEF CInv, PagesSound
    <3> QED
      BY <3>1, <3>2
  <2>3. PageSound(v, p, o)'
    BY <1>3, <1>4, <2>2, PageKept DEF ThreadsStay
  <2> QED
    BY <2>1, <2>3
<1> QED
  BY <1>2, <1>5, <1>6 DEF PagesSound

LEMMA ChatStep == CInv /\ [Next]_vars => CInv'
<1> SUFFICES ASSUME CInv, [Next]_vars PROVE CInv'
  OBVIOUS
<1>1. IInv /\ Posted /\ PagesSound /\ IInv' /\ ThreadsStay
  BY StepKeeps, ThreadsDoStay DEF CInv
<1>2. Posted' /\ UNCHANGED <<message, browser>> => PagesSound'
  BY <1>1, MessagesUnchanged, PagesKept
<1>3. CASE UNCHANGED vars
  <2>1. UNCHANGED <<thread, message, clock, call, browser>>
    BY <1>3 DEF vars, server
  <2>2. Posted'
    BY <1>1, <2>1 DEF Posted, Thread, Message, StampedBy
  <2> QED
    BY <1>1, <1>2, <2>1, <2>2 DEF CInv
<1>4. ASSUME NEW u \in Reader, Browse(u)
      PROVE  CInv'
  BY <1>1, <1>4, ReadersKeep DEF CInv
<1>5. ASSUME NEW r \in Request, NEW u \in User, NEW p \in Product, CreateLookup(r, p, u)
      PROVE  CInv'
  <2>1. /\ \A q \in Request \ {r} : call'[q] = call[q]
        /\ call'[r].pc \in {"idle", "insert"}
        /\ UNCHANGED <<thread, message, clock, browser>>
    BY <1>1, <1>5, IdleFacts DEF CreateLookup, IInv, Idle
  <2>2. Posted'
    BY <1>1, <2>1, PostedKept DEF Posted
  <2> QED
    BY <1>1, <1>2, <2>1, <2>2 DEF CInv
<1>6. ASSUME NEW r \in Request, CreateInsert(r) \/ Fail(r)
      PROVE  CInv'
  <2>1. /\ \A q \in Request \ {r} : call'[q] = call[q]
        /\ call'[r].pc = "idle"
        /\ UNCHANGED <<message, clock, browser>>
    BY <1>1, <1>6, IdleFacts DEF CreateInsert, Fail, Return, IInv
  <2>2. Len(thread') <= MaxThreads
    <3>1. CASE UNCHANGED thread
      BY <1>1, <3>1 DEF Posted
    <3>2. ASSUME NEW x, thread' = Append(thread, x), Len(thread) < MaxThreads, x \in Row
          PROVE  Len(thread') <= MaxThreads
      BY <1>1, <3>2, AppendProperties, LenProperties, ChatAssumption DEF IInv
    <3>3. CASE CreateInsert(r) /\ ~(UNCHANGED thread)
      <4>1. PICK p, u : p = call[r].product /\ u = call[r].user
        OBVIOUS
      <4>2. p \in Product /\ u \in User
        BY <1>1, <3>3, <4>1 DEF IInv, CreateInsert
      <4>3. thread' = Append(thread, [product |-> p, buyer |-> u]) /\ Len(thread) < MaxThreads
        BY <3>3, <4>1 DEF CreateInsert
      <4> QED
        BY <3>2, <4>2, <4>3 DEF Row
    <3> QED
      BY <1>6, <3>1, <3>3 DEF Fail
  <2>3. Posted'
    BY <1>1, <2>1, <2>2, PostedKept
  <2> QED
    BY <1>1, <1>2, <2>1, <2>3 DEF CInv
<1>7. ASSUME NEW r \in Request, NEW u \in User, NEW t \in Thread, SendStart(r, u, t)
      PROVE  CInv'
  <2>1. Posted'
    BY <1>1, <1>7, StartKeeps
  <2>2. UNCHANGED <<message, browser>>
    BY <1>7 DEF SendStart
  <2> QED
    BY <1>1, <1>2, <2>1, <2>2 DEF CInv
<1>8. ASSUME NEW r \in Request, SendInsert(r)
      PROVE  CInv'
  <2>1. Posted' /\ MessagesStay
    BY <1>1, <1>8, PostKeeps
  <2>2. UNCHANGED browser
    BY <1>8 DEF SendInsert
  <2> QED
    BY <1>1, <2>1, <2>2, PagesKept DEF CInv
<1> QED
  BY <1>3, <1>4, <1>5, <1>6, <1>7, <1>8 DEF Next, Handle

LEMMA ChatStarts == Init => CInv
<1> SUFFICES ASSUME Init PROVE CInv
  OBVIOUS
<1>1. IInv
  BY IdleFacts DEF Init, IInv, Thread
<1>2. Posted
  <2>1. message = <<>> /\ Len(message) = 0 /\ message \in Seq(Message)
    BY EmptySeq DEF Init
  <2>2. \A r \in Request : call[r].pc = "idle"
    BY IdleFacts DEF Init
  <2>3. clock \in Nat /\ Len(thread) <= MaxThreads
    BY ChatAssumption, EmptySeq DEF Init
  <2> QED
    BY <2>1, <2>2, <2>3 DEF Posted
<1>3. ASSUME NEW u \in Reader
      PROVE  PageSound(u, page[u], opening[u])
  <2>1. PICK p, o : p = page[u] /\ o = opening[u]
    OBVIOUS
  <2>2. /\ p.list = {} /\ p.active = 0 /\ p.shown = <<>> /\ p.clicks = 0 /\ p.last = "none"
        /\ p \in Page /\ o \in [Click -> Ask] /\ \A k \in Click : o[k] = NoClick
    BY <2>1, NoClickFacts DEF Init, Page
  <2>3. LastSound(p, o)
    BY <2>2 DEF LastSound
  <2> QED
    BY <2>1, <2>2, <2>3 DEF PageSound, AskSound
<1> QED
  BY <1>1, <1>2, <1>3 DEF CInv, PagesSound, Init

LEMMA ChatSound == Spec => []CInv
BY ChatStarts, ChatStep, PTL DEF Spec

\* Rows of conversations and messages stay in their domains, messages belong to
\* threads, and a page lists and shows only threads its user takes part in: for
\* any users, products and numbers of requests, clicks and rows.
THEOREM ChatTypes == Spec => []TypeOK
<1>1. CInv => TypeOK
  <2> SUFFICES ASSUME CInv PROVE TypeOK
    OBVIOUS
  <2>1. ASSUME NEW u \in Reader
        PROVE  /\ page[u].last \in {"none", "asked", "shown", "overtaken", "lost"}
               /\ \A t \in page[u].list : TakesPart(u, t)
               /\ \A i \in DOMAIN page[u].shown :
                     /\ page[u].shown[i] \in DOMAIN message
                     /\ message[page[u].shown[i]].thread \in page[u].list
    <3>1. PICK p : p = page[u]
      OBVIOUS
    <3>2. PageSound(u, p, opening[u])
      BY <3>1 DEF CInv, PagesSound
    <3>3. p.shown \in Seq(Nat) /\ DOMAIN p.shown = 1..Len(p.shown)
      BY <3>2, LenProperties DEF PageSound, Page
    <3>4. ASSUME NEW i \in 1..Len(p.shown)
          PROVE  p.shown[i] \in DOMAIN message /\ message[p.shown[i]].thread \in p.list
      <4>1. p.shown # <<>>
        BY NoClickFacts
      <4>2. PICK t \in p.list : Served(p.shown, t)
        BY <3>2, <4>1 DEF PageSound
      <4>3. PICK w \in 0..Len(message) : ServedOf(w, p.shown, t)
        BY <4>2 DEF Served
      <4>4. p.shown[i] \in 1..w /\ message[p.shown[i]].thread = t
        BY <4>3 DEF ServedOf
      <4> QED
        BY <4>3, <4>4, MessageFacts DEF CInv
    <3> QED
      BY <3>1, <3>2, <3>3, <3>4 DEF PageSound, Page
  <2> QED
    BY <2>1 DEF CInv, TypeOK, IInv, Posted, Row, Message
<1> QED
  BY <1>1, ChatSound, PTL

\* A page shows messages of another thread than the active one only while the last
\* click's request is in flight, after its answer was overtaken by an earlier
\* click's, or after it was lost: in no other way do the two part
\* (useConversations open).
THEOREM ShownFollowsTheClick == Spec => []ShownIsActive
<1>1. CInv => ShownIsActive
  <2> SUFFICES ASSUME CInv, NEW u \in Reader, NEW i \in DOMAIN page[u].shown,
                      message[page[u].shown[i]].thread # page[u].active
               PROVE  Awaited(u) \/ page[u].last \in {"overtaken", "lost"}
    BY DEF ShownIsActive
  <2>1. PICK p, o : p = page[u] /\ o = opening[u]
    OBVIOUS
  <2>2. PageSound(u, p, o) /\ LastSound(p, o)
    BY <2>1 DEF CInv, PagesSound, PageSound
  <2>3. DOMAIN p.shown = 1..Len(p.shown)
    BY <2>2, LenProperties DEF PageSound, Page
  <2>4. p.last # "none"
    BY <2>1, <2>2, <2>3, NoClickFacts DEF LastSound
  <2>5. p.last # "shown"
    <3> SUFFICES ASSUME Served(p.shown, p.active) PROVE FALSE
      BY <2>2 DEF LastSound
    <3>1. \A j \in 1..Len(p.shown) : message[p.shown[j]].thread = p.active
      BY DEF Served, ServedOf
    <3> QED
      BY <2>1, <2>3, <3>1
  <2>6. p.last = "asked" => Awaited(u)
    BY <2>1, <2>2 DEF LastSound, Awaited
  <2>7. p.last \in {"none", "asked", "shown", "overtaken", "lost"}
    BY <2>2 DEF PageSound, Page
  <2> QED
    BY <2>1, <2>4, <2>5, <2>6, <2>7
<1> QED
  BY <1>1, ChatSound, PTL

\* A message that no other of its thread ties with, and before which none came in
\* that was being sent when it was inserted, is where it was when it was served.
LEMMA KeepsPlace ==
  ASSUME Posted, NEW rows, NEW t, Served(rows, t), NEW i \in 1..Len(rows),
         NEW m, m = rows[i],
         \A n \in RowsOf(t) \ {m} : message[n].stamp # message[m].stamp,
         \A n \in RowsOf(t) :
            ~(message[n].stamp < message[m].stamp /\ message[n].since < m /\ m < n),
         NEW q \in Listings(t)
  PROVE  i \in DOMAIN q /\ q[i] = m
<1>1. PICK w \in 0..Len(message) : ServedOf(w, rows, t)
  BY DEF Served
<1>2. PICK l, S, c : l = Len(message) /\ S = RowsOf(t) /\ c = Cardinality(S)
  OBVIOUS
<1>3. l \in Nat /\ DOMAIN message = 1..l /\ w \in 0..l
  BY <1>1, <1>2, MessageFacts
<1>4. \A x : x \in S <=> x \in 1..l /\ message[x].thread = t
  BY <1>2, <1>3 DEF RowsOf
<1>5. PICK f : f = [x \in S |-> message[x].stamp]
  OBVIOUS
<1>6. f \in [S -> Nat] /\ \A x \in S : f[x] = message[x].stamp
  BY <1>2, <1>4, <1>5, MessageFacts
<1>7. PICK r : r = Len(rows)
  OBVIOUS
<1>8. r \in Nat /\ i \in 1..r /\ rows \in [1..r -> S]
  <2>1. rows \in Seq(Nat)
    BY <1>1 DEF ServedOf
  <2>2. r \in Nat /\ rows \in [1..r -> Nat]
    BY <1>7, <2>1, LenProperties, ElementOfSeq
  <2>3. \A j \in 1..r : rows[j] \in S
    BY <1>1, <1>3, <1>4, <1>7 DEF ServedOf
  <2> QED
    BY <1>7, <2>2, <2>3
<1>9. m \in S /\ m \in 1..w /\ m \in Nat
  <2>1. m \in S
    BY <1>8
  <2>2. m \in 1..w
    BY <1>1 DEF ServedOf
  <2> QED
    BY <1>3, <2>1, <2>2
<1>10. \A x \in S : x # m => f[x] # f[m]
  BY <1>2, <1>6, <1>9
<1>11. PICK B : B = {x \in S : f[x] < f[m]}
  OBVIOUS
<1>12. \A x \in B : x \in 1..w
  <2> SUFFICES ASSUME NEW x \in B, ~(x \in 1..w) PROVE FALSE
    OBVIOUS
  <2>1. x \in S /\ message[x].stamp < message[m].stamp
    BY <1>6, <1>9, <1>11
  <2>2. m < x
    BY <1>3, <1>4, <1>9, <2>1
  <2>3. ~(message[x].since < m)
    BY <1>2, <2>1, <2>2
  <2>4. /\ message[x].since \in Nat /\ message[x].stamp \in Nat /\ message[m].stamp \in Nat
        /\ StampedBy(message, message[x].since, message[x].stamp)
    BY <1>2, <1>4, <1>9, <2>1, MessageFacts DEF Posted
  <2>5. m \in 1..message[x].since
    BY <1>9, <2>3, <2>4
  <2>6. message[m].stamp <= message[x].stamp
    BY <2>4, <2>5 DEF StampedBy
  <2> QED
    BY <2>1, <2>4, <2>6
<1>13. Cardinality(B) = i - 1
  <2>1. Ordered(rows, r, S, f)
    <3> SUFFICES ASSUME NEW j \in 1..r, NEW k \in 1..r, j < k
                 PROVE  rows[j] # rows[k] /\ f[rows[j]] <= f[rows[k]]
      BY <1>6, <1>8 DEF Ordered
    <3>1. rows[j] # rows[k] /\ message[rows[j]].stamp <= message[rows[k]].stamp
      BY <1>1, <1>7 DEF ServedOf
    <3>2. rows[j] \in S /\ rows[k] \in S
      BY <1>8
    <3> QED
      BY <1>6, <3>1, <3>2
  <2>2. \A k \in 1..r : k # i => rows[k] # m
    <3> SUFFICES ASSUME NEW k \in 1..r, k # i PROVE rows[k] # m
      OBVIOUS
    <3>1. k < i \/ i < k
      BY <1>8
    <3> QED
      BY <1>8, <2>1, <3>1 DEF Ordered
  <2>3. Untied(rows, r, f, i)
    BY <1>8, <1>10, <2>2 DEF Untied
  <2>4. AreEarlier(B, rows, r, f, i)
    <3>1. ASSUME NEW x \in B
          PROVE  \E k \in 1..r : x = rows[k] /\ f[rows[k]] < f[rows[i]]
      <4>1. x \in 1..w /\ x \in S /\ f[x] < f[m]
        BY <1>11, <1>12
      <4>2. \E k \in 1..r : rows[k] = x
        BY <1>1, <1>4, <1>7, <4>1 DEF ServedOf
      <4> QED
        BY <4>1, <4>2
    <3>2. ASSUME NEW k \in 1..r, f[rows[k]] < f[rows[i]]
          PROVE  rows[k] \in B
      BY <1>8, <1>11, <3>2
    <3> QED
      BY <3>1, <3>2 DEF AreEarlier
  <2> QED
    BY <1>8, <2>1, <2>3, <2>4, PlaceOf
<1>14. /\ c \in Nat /\ q \in [1..c -> S] /\ Len(q) = c
       /\ \A x \in S : \E j \in 1..c : q[j] = x
       /\ Ordered(q, c, S, f)
  <2>1. /\ c \in Nat /\ q \in [1..c -> S] /\ Len(q) = c
        /\ \A x \in S : \E j \in 1..c : q[j] = x
    BY <1>2, ListingServed
  <2>2. PICK v \in 0..Len(message) : ServedOf(v, q, t)
    BY ListingServed DEF Served
  <2>3. \A j \in 1..c, k \in 1..c :
           j < k => q[j] # q[k] /\ message[q[j]].stamp <= message[q[k]].stamp
    BY <2>1, <2>2 DEF ServedOf
  <2>4. Ordered(q, c, S, f)
    <3> SUFFICES ASSUME NEW j \in 1..c, NEW k \in 1..c, j < k
                 PROVE  q[j] # q[k] /\ f[q[j]] <= f[q[k]]
      BY <1>6, <2>1 DEF Ordered
    <3>1. q[j] \in S /\ q[k] \in S
      BY <2>1
    <3> QED
      BY <1>6, <2>3, <3>1
  <2> QED
    BY <2>1, <2>4
<1>15. PICK j \in 1..c : q[j] = m
  BY <1>9, <1>14
<1>16. Cardinality(B) = j - 1
  <2>1. \A k \in 1..c : k # j => q[k] # m
    <3> SUFFICES ASSUME NEW k \in 1..c, k # j PROVE q[k] # m
      OBVIOUS
    <3>1. k < j \/ j < k
      BY <1>14
    <3> QED
      BY <1>14, <1>15, <3>1 DEF Ordered
  <2>2. Untied(q, c, f, j)
    BY <1>10, <1>14, <1>15, <2>1 DEF Untied
  <2>3. AreEarlier(B, q, c, f, j)
    <3>1. ASSUME NEW x \in B
          PROVE  \E k \in 1..c : x = q[k] /\ f[q[k]] < f[q[j]]
      <4>1. x \in S /\ f[x] < f[m]
        BY <1>11
      <4>2. PICK k \in 1..c : q[k] = x
        BY <1>14, <4>1
      <4> QED
        BY <1>15, <4>1, <4>2
    <3>2. ASSUME NEW k \in 1..c, f[q[k]] < f[q[j]]
          PROVE  q[k] \in B
      BY <1>11, <1>14, <1>15, <3>2
    <3> QED
      BY <3>1, <3>2 DEF AreEarlier
  <2> QED
    BY <1>14, <2>2, <2>3, PlaceOf
<1>17. i = j /\ DOMAIN q = 1..c
  BY <1>8, <1>13, <1>14, <1>16
<1> QED
  BY <1>15, <1>17

\* Reading a thread again shows each message where the page shows it, however many
\* others tie with one another or have come since, unless one ties with it or one
\* that was being sent when it was inserted came in before it (ListMessages orders
\* by a time stamped before the INSERT).
THEOREM ShownKeepsItsPlace == Spec => []ShownStaysInPlace
<1>1. CInv => ShownStaysInPlace
  <2> SUFFICES ASSUME CInv, NEW u \in Reader, NEW i \in DOMAIN page[u].shown,
                      NEW m, m = page[u].shown[i], NEW t, t = message[m].thread,
                      \A n \in RowsOf(t) \ {m} : message[n].stamp # message[m].stamp,
                      \A n \in RowsOf(t) : ~(/\ message[n].stamp < message[m].stamp
                                             /\ message[n].since < m /\ m < n)
               PROVE  \A q \in Listings(t) : i \in DOMAIN q /\ q[i] = m
    BY DEF ShownStaysInPlace
  <2>1. PICK rows : rows = page[u].shown
    OBVIOUS
  <2>2. PageSound(u, page[u], opening[u]) /\ Posted
    BY DEF CInv, PagesSound
  <2>3. DOMAIN rows = 1..Len(rows) /\ i \in 1..Len(rows)
    BY <2>1, <2>2, LenProperties DEF PageSound, Page
  <2>4. rows # <<>>
    BY <2>3, NoClickFacts
  <2>5. PICK s : Served(rows, s)
    BY <2>1, <2>2, <2>4 DEF PageSound
  <2>6. s = t
    BY <2>1, <2>3, <2>5 DEF Served, ServedOf
  <2> QED
    BY <2>1, <2>2, <2>3, <2>5, <2>6, KeepsPlace
<1> QED
  BY <1>1, ChatSound, PTL

=============================================================================
