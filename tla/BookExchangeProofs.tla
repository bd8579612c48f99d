------------------------- MODULE BookExchangeProofs -------------------------
(***************************************************************************)
(* Proofs about BookExchange for any titles, posts, requests and retries.  *)
(* The publications run side by side and lock little; what saves them is   *)
(* that rows only grow old: titles never change, no row becomes open       *)
(* again, and a search cannot have seen a post that was published later    *)
(* (SearchesSound, CallsSound).                                            *)
(***************************************************************************)
EXTENDS BookExchange, TLAPS

Rows == [offer : Book \cup {"none"}, want : Book \cup {"none"},
         status : {"none", "open", "matched", "closed"}, partner : Post \cup {0}]

Calls == [pc : Steps \cup {"idle"}, post : Post \cup {0},
          offer : Book \cup {"none"}, want : Book \cup {"none"},
          match : Post \cup {0}, attempt : 0..(MaxTxRetries - 1)]

searches == <<seen, free>>

Searched == {"mark", "commit"}

\* A publication knows titles and holds an id nobody has used; what it matched
\* is a post that wants its book, was open when it searched and was then no
\* partner of a post it saw; what it did not match does not mirror it.
CallSound(c) ==
    /\ c.pc \in PublishSteps => c.offer \in Book /\ c.want \in Book
    /\ c.pc \in PublishSteps /\ c.post # 0 => post[c.post].status = "none"
    /\ c.pc \in {"find", "mark", "commit"} => c.post # 0
    /\ c.pc = "mark" => c.match # 0
    /\ c.pc \in Searched /\ c.match # 0 =>
          /\ c.match # c.post
          /\ post[c.match].status # "none"
          /\ post[c.match].offer = c.want /\ post[c.match].want = c.offer
          /\ c.match \in free[c.post]
          /\ \A p \in seen[c.post] : post[p].partner # c.match
    /\ c.pc = "commit" /\ c.match = 0 =>
          \A p \in seen[c.post] :
             post[p].status = "open" => ~(post[p].offer = c.want /\ post[p].want = c.offer)
    /\ c.pc = "close_write" => c.post # 0 /\ post[c.post].status # "none"

CallsSound == \A r \in Request : CallSound(call[r])

\* Two publications under way never hold the same id.
IdsApart ==
    \A r \in Request : \A q \in Request \ {r} :
        /\ call[r].pc \in PublishSteps
        /\ call[q].pc \in PublishSteps
        /\ call[r].post # 0
        => call[r].post # call[q].post

\* A search finds posts that are there, and not the one it is made for.
SearchesSound ==
    \A p \in Post : \A q \in seen[p] : q # p /\ post[q].status # "none"

\* A row is there exactly when it has a status; an open one is nobody's partner
\* and has none.
RowsSound ==
    \A p \in Post :
        /\ post[p].status = "none" => post[p] = NoPost
        /\ post[p].status = "open" => /\ post[p].partner = 0
                                      /\ \A q \in Post : post[q].partner # p
        /\ post[p].partner # 0 => post[post[p].partner].partner # 0

IInv ==
    /\ TypeOK
    /\ CallsSound
    /\ IdsApart
    /\ SearchesSound
    /\ RowsSound
    /\ PartnersSound
    /\ MissedOnlyByOverlap
    /\ StolenOnlyByOverlap

-----------------------------------------------------------------------------
(* What the invariant says of one call and one row.                         *)

LEMMA IdleFacts ==
  /\ Idle \in Calls /\ Idle.pc = "idle"
  /\ CallSound(Idle) /\ CallSound(Idle)'
BY ExchangeBounds DEF Idle, Calls, CallSound, PublishSteps, Searched, Steps

LEMMA Types ==
  ASSUME TypeOK
  PROVE  /\ post \in [Post -> Rows]
         /\ call \in [Request -> Calls]
         /\ seen \in [Post -> SUBSET Post]
         /\ free \in [Post -> SUBSET Post]
BY DEF TypeOK, Rows, Calls

LEMMA CallFacts ==
  ASSUME IInv, NEW r \in Request
  PROVE  call[r] \in Calls /\ CallSound(call[r])
BY Types DEF IInv, CallsSound

\* A row is published exactly when it has a status.
LEMMA PublishedFacts ==
  ASSUME IInv, NEW p \in Post
  PROVE  Published(p) <=> post[p].status # "none"
BY DEF IInv, RowsSound, Published, Board!Published, NoPost, Board!NoPost

\* 0 is no id: a post without a partner has none.
LEMMA ZeroIsNoPost == 0 \notin Post
BY ExchangeBounds DEF Post

-----------------------------------------------------------------------------
(* Steps that leave the table alone.                                        *)

SearchStays(p) == seen'[p] = seen[p] /\ free'[p] = free[p]

\* p is an id of r's own, searched for anew or not any more.
MaySearch(r, p) ==
    /\ post[p].status = "none"
    /\ \A q \in Request \ {r} : call[q].pc \in PublishSteps => call[q].post # p
    /\ \A q \in seen'[p] : q # p /\ post[q].status # "none"

\* A request goes on to a call that is sound and holds nobody else's id; only
\* the search of an id that nobody else holds may change.
LEMMA CallStep ==
  ASSUME IInv, UNCHANGED post,
         NEW r \in Request, NEW c \in Calls,
         call' = [call EXCEPT ![r] = c], CallSound(c)',
         seen' \in [Post -> SUBSET Post], free' \in [Post -> SUBSET Post],
         \A p \in Post : SearchStays(p) \/ MaySearch(r, p),
         c.pc \in PublishSteps /\ c.post # 0 =>
            \A q \in Request \ {r} : call[q].pc \in PublishSteps => call[q].post # c.post
  PROVE  IInv'
<1>1. /\ post \in [Post -> Rows] /\ call \in [Request -> Calls]
      /\ seen \in [Post -> SUBSET Post] /\ free \in [Post -> SUBSET Post]
  BY Types DEF IInv
<1>2. call'[r] = c /\ \A q \in Request \ {r} : call'[q] = call[q]
  BY <1>1
<1>3. TypeOK'
  BY <1>1 DEF TypeOK, Calls, Rows
<1>4. CallsSound'
  <2> SUFFICES ASSUME NEW q \in Request \ {r}
               PROVE  CallSound(call[q])'
    BY <1>2 DEF CallsSound
  <2>1. CallSound(call[q]) /\ call[q] \in Calls /\ call'[q] = call[q]
    BY <1>2, CallFacts
  <2>2. CASE call[q].pc \in PublishSteps /\ call[q].post # 0
    <3>1. call[q].post \in Post
      BY <2>1, <2>2 DEF Calls
    <3>2. seen'[call[q].post] = seen[call[q].post] /\ free'[call[q].post] = free[call[q].post]
      BY <2>2, <3>1 DEF SearchStays, MaySearch
    <3> QED
      BY <2>1, <3>2 DEF CallSound
  <2>3. CASE ~(call[q].pc \in PublishSteps /\ call[q].post # 0)
    BY <2>1, <2>3 DEF CallSound, PublishSteps, Searched
  <2> QED
    BY <2>2, <2>3
<1>5. IdsApart'
  BY <1>2 DEF IInv, IdsApart
<1>6. SearchesSound'
  <2> SUFFICES ASSUME NEW p \in Post, NEW q \in seen'[p]
               PROVE  q # p /\ post[q].status # "none"
    BY DEF SearchesSound
  <2>1. CASE MaySearch(r, p)
    BY <2>1 DEF MaySearch
  <2>2. CASE SearchStays(p)
    BY <2>2 DEF IInv, SearchesSound, SearchStays
  <2> QED
    BY <2>1, <2>2
<1>7. RowsSound'
  BY DEF IInv, RowsSound, NoPost, Board!NoPost
<1>8. \A p \in Post : post[p].status # "none" =>
         seen'[p] = seen[p] /\ free'[p] = free[p]
  BY DEF SearchStays, MaySearch
<1>9. PartnersSound'
  <2>1. \A p \in Post : Published(p)' = Published(p)
    BY DEF Published, Board!Published, Board!NoPost
  <2>2. \A p \in Post : post[p].partner # 0 => post[p].status # "none"
    BY <1>1, ZeroIsNoPost DEF IInv, RowsSound, NoPost, Board!NoPost
  <2>3. \A p \in Post : post[p].partner # 0 => post[p].partner \in Post
    BY <1>1 DEF Rows
  <2>4. \A p \in Post : Published(p) => post[p].status # "none"
    BY PublishedFacts
  <2> QED
    BY <1>8, <2>1, <2>2, <2>3, <2>4 DEF IInv, PartnersSound, Mirrored, Board!Mirrored
<1>10. MissedOnlyByOverlap'
  BY <1>8 DEF IInv, MissedOnlyByOverlap, Mirrored, Board!Mirrored
<1>11. StolenOnlyByOverlap'
  <2> SUFFICES ASSUME NEW p \in Post, post[p].partner # 0,
                      post[post[p].partner].partner # p
               PROVE  p \notin seen'[post[post[p].partner].partner]
    BY DEF StolenOnlyByOverlap
  <2> DEFINE t == post[post[p].partner].partner
  <2>1. post[p].partner \in Post /\ t # 0
    BY <1>1 DEF IInv, RowsSound, Rows
  <2>2. t \in Post
    BY <1>1, <2>1 DEF Rows
  <2>3. post[t].status # "none"
    BY <2>1, <2>2, PublishedFacts DEF IInv, PartnersSound
  <2>4. p \notin seen[t]
    BY DEF IInv, StolenOnlyByOverlap
  <2> QED
    BY <1>8, <2>2, <2>3, <2>4
<1> QED
  BY <1>3, <1>4, <1>5, <1>6, <1>7, <1>9, <1>10, <1>11 DEF IInv

-----------------------------------------------------------------------------
(* Steps that write the table.                                              *)

\* Rows grow old: the one that is new, if any, appears; the others keep their
\* titles, are not opened again, and get no other new partner than it.
GrowOld(new) ==
    \A p \in Post :
        /\ post[p].status = "none" /\ p # new => post'[p] = post[p]
        /\ post[p].status # "none" =>
              /\ post'[p].offer = post[p].offer /\ post'[p].want = post[p].want
              /\ post'[p].status # "none"
              /\ post'[p].status = "open" => post[p].status = "open"
              /\ post'[p].partner \in {post[p].partner, new}

LEMMA TableStep ==
  ASSUME IInv, UNCHANGED searches, NEW r \in Request, Return(r),
         NEW new \in Post \cup {0}, GrowOld(new),
         new # 0 => /\ post[new].status = "none"
                    /\ \A q \in Request \ {r} :
                          call[q].pc \in PublishSteps => call[q].post # new
  PROVE  CallsSound' /\ IdsApart' /\ SearchesSound' /\ call' \in [Request -> Calls]
<1>1. /\ post \in [Post -> Rows] /\ call \in [Request -> Calls]
      /\ seen \in [Post -> SUBSET Post] /\ free \in [Post -> SUBSET Post]
  BY Types DEF IInv
<1>2. call'[r] = Idle /\ \A q \in Request \ {r} : call'[q] = call[q]
  BY <1>1 DEF Return
<1>3. CallsSound'
  <2> SUFFICES ASSUME NEW q \in Request \ {r}
               PROVE  CallSound(call[q])'
    BY <1>2, IdleFacts DEF CallsSound
  <2> DEFINE c == call[q]
  <2>1. CallSound(c) /\ c \in Calls /\ call'[q] = c
    BY <1>2, CallFacts
  <2>2. /\ c.pc \in PublishSteps => c.offer \in Book /\ c.want \in Book
        /\ c.pc \in {"find", "mark", "commit"} => c.post # 0
        /\ c.pc = "mark" => c.match # 0
    BY <2>1 DEF CallSound
  <2>3. c.pc \in PublishSteps /\ c.post # 0 => post'[c.post].status = "none"
    BY <2>1 DEF CallSound, GrowOld, Calls
  <2>4. ASSUME c.pc \in Searched, c.match # 0
        PROVE  /\ c.match # c.post
               /\ post'[c.match].status # "none"
               /\ post'[c.match].offer = c.want /\ post'[c.match].want = c.offer
               /\ c.match \in free'[c.post]
               /\ \A p \in seen'[c.post] : post'[p].partner # c.match
    <3>1. /\ c.match # c.post /\ c.match \in Post
          /\ post[c.match].status # "none"
          /\ post[c.match].offer = c.want /\ post[c.match].want = c.offer
          /\ c.match \in free[c.post]
          /\ \A p \in seen[c.post] : post[p].partner # c.match
          /\ c.post \in Post
      BY <2>1, <2>2, <2>4 DEF CallSound, Calls, Searched
    <3>2. seen[c.post] \subseteq Post /\ \A p \in seen[c.post] : post[p].status # "none"
      BY <1>1, <3>1 DEF IInv, SearchesSound
    <3>3. c.match # new
      BY <3>1, ZeroIsNoPost
    <3> QED
      BY <3>1, <3>2, <3>3 DEF GrowOld, searches
  <2>5. ASSUME c.pc = "commit", c.match = 0, NEW p \in seen'[c.post], post'[p].status = "open"
        PROVE  ~(post'[p].offer = c.want /\ post'[p].want = c.offer)
    <3>1. c.post \in Post
      BY <2>1, <2>2, <2>5 DEF Calls
    <3>2. p \in seen[c.post] /\ p \in Post /\ post[p].status # "none"
      BY <1>1, <2>5, <3>1 DEF IInv, SearchesSound, searches
    <3> QED
      BY <2>1, <2>5, <3>2 DEF CallSound, GrowOld
  <2>6. c.pc = "close_write" => c.post # 0 /\ post'[c.post].status # "none"
    BY <2>1 DEF CallSound, GrowOld, Calls
  <2> HIDE DEF c
  <2> QED
    BY <2>1, <2>2, <2>3, <2>4, <2>5, <2>6 DEF CallSound, c
<1>4. IdsApart'
  BY <1>2, IdleFacts DEF IInv, IdsApart, PublishSteps
<1>5. SearchesSound'
  BY <1>1 DEF IInv, SearchesSound, GrowOld, searches
<1> QED
  BY <1>1, <1>3, <1>4, <1>5, IdleFacts DEF Return

\* A post is closed: it keeps its titles and its partner.
LEMMA CloseWriteKeeps ==
  ASSUME IInv, NEW r \in Request, CloseWrite(r)
  PROVE  IInv'
<1>1. PICK p \in Post : p = call[r].post /\ post[p].status # "none"
  BY CallFacts DEF CloseWrite, CallSound, Calls
<1>2. /\ post \in [Post -> Rows]
      /\ seen \in [Post -> SUBSET Post] /\ free \in [Post -> SUBSET Post]
  BY Types DEF IInv
<1>3. /\ post'[p] = Row(post[p].offer, post[p].want, "closed", post[p].partner)
      /\ \A q \in Post \ {p} : post'[q] = post[q]
      /\ post' \in [Post -> Rows]
  <2>1. Row(post[p].offer, post[p].want, "closed", post[p].partner) \in Rows
    BY <1>2 DEF Rows, Row, Board!Row
  <2>2. post' = [post EXCEPT ![p] = Row(post[p].offer, post[p].want, "closed", post[p].partner)]
    BY <1>1 DEF CloseWrite
  <2> QED
    BY <1>2, <2>1, <2>2
<1>4. \A q \in Post : /\ post'[q].offer = post[q].offer /\ post'[q].want = post[q].want
                      /\ post'[q].partner = post[q].partner
                      /\ post'[q].status = IF q = p THEN "closed" ELSE post[q].status
  BY <1>3 DEF Row, Board!Row
<1>5. UNCHANGED searches /\ Return(r)
  BY DEF CloseWrite, searches
<1>6. GrowOld(0)
  BY <1>1, <1>3, <1>4 DEF GrowOld
<1>7. CallsSound' /\ IdsApart' /\ SearchesSound' /\ call' \in [Request -> Calls]
  BY <1>5, <1>6, TableStep
<1>8. TypeOK'
  BY <1>2, <1>3, <1>5, <1>7 DEF TypeOK, Rows, Calls, searches
<1>9. RowsSound'
  BY <1>1, <1>2, <1>3, <1>4 DEF IInv, RowsSound, Rows, NoPost, Board!NoPost
<1>10. \A q \in Post : Published(q) => Published(q)'
  BY <1>1, <1>3, <1>4, PublishedFacts DEF Published, Board!Published, Board!NoPost
<1>11. PartnersSound'
  BY <1>2, <1>4, <1>5, <1>10 DEF IInv, PartnersSound, Mirrored, Board!Mirrored, searches, Rows
<1>12. MissedOnlyByOverlap'
  BY <1>4, <1>5 DEF IInv, MissedOnlyByOverlap, Mirrored, Board!Mirrored, searches
<1>13. StolenOnlyByOverlap'
  BY <1>2, <1>4, <1>5 DEF IInv, StolenOnlyByOverlap, searches, Rows
<1> QED
  BY <1>7, <1>8, <1>9, <1>11, <1>12, <1>13 DEF IInv

\* What a publication about to commit knows.
LEMMA CommitFacts ==
  ASSUME IInv, NEW r \in Request, call[r].pc = "commit"
  PROVE  /\ call[r].post \in Post /\ post[call[r].post] = NoPost
         /\ call[r].offer \in Book /\ call[r].want \in Book
         /\ call[r].match \in Post \cup {0}
         /\ \A q \in Request \ {r} : call[q].pc \in PublishSteps => call[q].post # call[r].post
         /\ \A p \in Post : call[r].post \notin seen[p] /\ post[p].partner # call[r].post
<1> DEFINE c == call[r]
<1>1. /\ c.post \in Post /\ post[c.post].status = "none"
      /\ c.offer \in Book /\ c.want \in Book /\ c.match \in Post \cup {0}
  BY CallFacts DEF CallSound, Calls, PublishSteps
<1>2. post[c.post] = NoPost
  BY <1>1 DEF IInv, RowsSound
<1>3. \A q \in Request \ {r} : call[q].pc \in PublishSteps => call[q].post # c.post
  BY <1>1, ZeroIsNoPost DEF IInv, IdsApart, PublishSteps
<1>4. \A p \in Post : c.post \notin seen[p]
  BY <1>1 DEF IInv, SearchesSound
<1>5. \A p \in Post : post[p].partner # c.post
  BY <1>1, <1>2, ZeroIsNoPost DEF IInv, RowsSound, NoPost, Board!NoPost
<1> QED
  BY <1>1, <1>2, <1>3, <1>4, <1>5

\* A post appears open: what it saw does not mirror it, and who did not see it
\* could not.
LEMMA CommitAloneKeeps ==
  ASSUME IInv, NEW r \in Request, PublishCommit(r), call[r].match = 0
  PROVE  IInv'
<1>1. PICK p \in Post, o \in Book, w \in Book :
         /\ p = call[r].post /\ o = call[r].offer /\ w = call[r].want
         /\ post[p] = NoPost
         /\ \A q \in Request \ {r} : call[q].pc \in PublishSteps => call[q].post # p
         /\ \A q \in Post : p \notin seen[q] /\ post[q].partner # p
  BY CommitFacts DEF PublishCommit
<1>2. /\ post \in [Post -> Rows]
      /\ seen \in [Post -> SUBSET Post] /\ free \in [Post -> SUBSET Post]
  BY Types DEF IInv
<1>3. /\ post'[p] = Row(o, w, "open", 0)
      /\ \A q \in Post \ {p} : post'[q] = post[q]
      /\ post' \in [Post -> Rows]
  <2>1. Row(o, w, "open", 0) \in Rows
    BY DEF Rows, Row, Board!Row
  <2>2. post' = [post EXCEPT ![p] = Row(o, w, "open", 0)]
    BY <1>1, ZeroIsNoPost DEF PublishCommit
  <2> QED
    BY <1>2, <2>1, <2>2
<1>4. /\ post'[p].offer = o /\ post'[p].want = w
      /\ post'[p].status = "open" /\ post'[p].partner = 0
      /\ post[p].status = "none" /\ post[p].partner = 0
  BY <1>1, <1>3 DEF Row, Board!Row, NoPost, Board!NoPost
<1>5. UNCHANGED searches /\ Return(r)
  BY DEF PublishCommit, searches
<1>6. GrowOld(p)
  BY <1>3, <1>4 DEF GrowOld
<1>7. CallsSound' /\ IdsApart' /\ SearchesSound' /\ call' \in [Request -> Calls]
  BY <1>1, <1>4, <1>5, <1>6, TableStep
<1>8. TypeOK'
  BY <1>2, <1>3, <1>5, <1>7 DEF TypeOK, Rows, Calls, searches
<1>9. RowsSound'
  <2> SUFFICES ASSUME NEW q \in Post
               PROVE  /\ post'[q].status = "none" => post'[q] = NoPost
                      /\ post'[q].status = "open" => /\ post'[q].partner = 0
                                                     /\ \A z \in Post : post'[z].partner # q
                      /\ post'[q].partner # 0 => post'[post'[q].partner].partner # 0
    BY DEF RowsSound, NoPost, Board!NoPost
  <2>1. CASE q = p
    BY <1>1, <1>3, <1>4, <2>1, ZeroIsNoPost
  <2>2. CASE q # p
    BY <1>1, <1>2, <1>3, <1>4, <2>2, ZeroIsNoPost DEF IInv, RowsSound, Rows
  <2> QED
    BY <2>1, <2>2
<1>10. \A q \in Post : post'[q].status = "matched" => post'[q].partner # 0
  BY <1>3, <1>4 DEF IInv, PartnersSound
<1>11. PartnersSound'
  <2> SUFFICES ASSUME NEW q \in Post, NEW z \in Post, post'[q].partner = z
               PROVE  /\ z # q
                      /\ post'[z] # NoPost
                      /\ Mirrored(post'[q], post'[z])
                      /\ z \in free[q] \/ q \in free[z]
    BY <1>3, <1>5, <1>10, ZeroIsNoPost DEF PartnersSound, Mirrored, Board!Mirrored,
       Published, Board!Published, NoPost, Board!NoPost, searches, Rows
  <2>1. q # p /\ post'[q] = post[q]
    BY <1>3, <1>4, ZeroIsNoPost
  <2>2. z # p /\ post'[z] = post[z]
    BY <1>1, <1>3, <2>1
  <2> QED
    BY <2>1, <2>2, ZeroIsNoPost DEF IInv, PartnersSound, Mirrored, Board!Mirrored,
       Published, Board!Published, NoPost
<1>12. MissedOnlyByOverlap'
  <2>1. \A q \in seen[p] : post[q].status = "open" => ~(post[q].offer = w /\ post[q].want = o)
    BY <1>1, CallFacts DEF CallSound, PublishCommit
  <2> QED
    BY <1>1, <1>3, <1>4, <1>5, <2>1
       DEF IInv, MissedOnlyByOverlap, Mirrored, Board!Mirrored, searches
<1>13. StolenOnlyByOverlap'
  <2> SUFFICES ASSUME NEW q \in Post, post'[q].partner # 0,
                      post'[post'[q].partner].partner # q
               PROVE  q \notin seen[post'[post'[q].partner].partner]
    BY <1>5 DEF StolenOnlyByOverlap, searches
  <2>1. q # p /\ post'[q] = post[q] /\ post[q].partner \in Post \ {p}
    BY <1>1, <1>2, <1>3, <1>4 DEF Rows
  <2> QED
    BY <1>3, <2>1 DEF IInv, StolenOnlyByOverlap
<1> QED
  BY <1>7, <1>8, <1>9, <1>11, <1>12, <1>13 DEF IInv

\* A post appears matched, and the post it matched with it, whatever that one
\* has become since the search.
LEMMA CommitMatchedKeeps ==
  ASSUME IInv, NEW r \in Request, PublishCommit(r), call[r].match # 0
  PROVE  IInv'
<1>1. PICK p \in Post, o \in Book, w \in Book :
         /\ p = call[r].post /\ o = call[r].offer /\ w = call[r].want
         /\ post[p] = NoPost
         /\ \A z \in Request \ {r} : call[z].pc \in PublishSteps => call[z].post # p
         /\ \A z \in Post : p \notin seen[z] /\ post[z].partner # p
  BY CommitFacts DEF PublishCommit
<1>2. PICK q \in Post :
         /\ q = call[r].match /\ q # p
         /\ post[q].status # "none"
         /\ post[q].offer = w /\ post[q].want = o
         /\ q \in free[p]
         /\ \A z \in seen[p] : post[z].partner # q
  BY <1>1, CallFacts, CommitFacts DEF PublishCommit, CallSound, Searched
<1>3. /\ post \in [Post -> Rows]
      /\ seen \in [Post -> SUBSET Post] /\ free \in [Post -> SUBSET Post]
  BY Types DEF IInv
<1>4. /\ post'[p] = Row(o, w, "matched", q)
      /\ post'[q] = Row(w, o, "matched", p)
      /\ \A z \in Post \ {p, q} : post'[z] = post[z]
      /\ post' \in [Post -> Rows]
  <2>1. Row(o, w, "matched", q) \in Rows /\ Row(w, o, "matched", p) \in Rows
    BY DEF Rows, Row, Board!Row
  <2>2. post' = [post EXCEPT ![p] = Row(o, w, "matched", q), ![q] = Row(w, o, "matched", p)]
    BY <1>1, <1>2, <1>3 DEF PublishCommit, Board!Matched, Row
  <2> QED
    BY <1>2, <1>3, <2>1, <2>2
<1>5. /\ post'[p].offer = o /\ post'[p].want = w
      /\ post'[p].status = "matched" /\ post'[p].partner = q
      /\ post'[q].offer = w /\ post'[q].want = o
      /\ post'[q].status = "matched" /\ post'[q].partner = p
      /\ post[p].status = "none" /\ post[p].partner = 0
  BY <1>1, <1>4 DEF Row, Board!Row, NoPost, Board!NoPost
<1>6. UNCHANGED searches /\ Return(r)
  BY DEF PublishCommit, searches
<1>7. GrowOld(p)
  BY <1>2, <1>4, <1>5 DEF GrowOld
<1>8. CallsSound' /\ IdsApart' /\ SearchesSound' /\ call' \in [Request -> Calls]
  BY <1>1, <1>5, <1>6, <1>7, TableStep
<1>9. TypeOK'
  BY <1>3, <1>4, <1>6, <1>8 DEF TypeOK, Rows, Calls, searches
<1>10. RowsSound'
  <2> SUFFICES ASSUME NEW z \in Post
               PROVE  /\ post'[z].status = "none" => post'[z] = NoPost
                      /\ post'[z].status = "open" => /\ post'[z].partner = 0
                                                     /\ \A y \in Post : post'[y].partner # z
                      /\ post'[z].partner # 0 => post'[post'[z].partner].partner # 0
    BY DEF RowsSound, NoPost, Board!NoPost
  <2>1. CASE z \in {p, q}
    BY <1>4, <1>5, <2>1, ZeroIsNoPost
  <2>2. CASE z \notin {p, q}
    <3>1. post'[z] = post[z]
      BY <1>4, <2>2
    <3>2. post[z].status = "open" => \A y \in Post : post'[y].partner # z
      BY <1>4, <1>5, <2>2 DEF IInv, RowsSound
    <3>3. post[z].partner # 0 => post'[post[z].partner].partner # 0
      BY <1>1, <1>3, <1>4, <1>5, ZeroIsNoPost DEF IInv, RowsSound, Rows
    <3> QED
      BY <3>1, <3>2, <3>3 DEF IInv, RowsSound
  <2> QED
    BY <2>1, <2>2
<1>11. \A z \in Post : post'[z].status = "matched" => post'[z].partner # 0
  BY <1>4, <1>5, ZeroIsNoPost DEF IInv, PartnersSound
<1>12. \A z \in Post \ {p} : post'[z].offer = post[z].offer /\ post'[z].want = post[z].want
  BY <1>2, <1>4, <1>5
<1>13. PartnersSound'
  <2> SUFFICES ASSUME NEW z \in Post, NEW y \in Post, post'[z].partner = y
               PROVE  /\ y # z
                      /\ post'[y] # NoPost
                      /\ Mirrored(post'[z], post'[y])
                      /\ y \in free[z] \/ z \in free[y]
    BY <1>4, <1>6, <1>11, ZeroIsNoPost DEF PartnersSound, Mirrored, Board!Mirrored,
       Published, Board!Published, NoPost, Board!NoPost, searches, Rows
  <2>1. CASE z \in {p, q}
    BY <1>2, <1>5, <2>1 DEF Mirrored, Board!Mirrored, NoPost, Board!NoPost
  <2>2. CASE z \notin {p, q}
    <3>1. post'[z] = post[z] /\ post[z].partner = y /\ y # p
      BY <1>1, <1>4, <2>2
    <3>2. /\ y # z /\ post[y] # NoPost
          /\ Mirrored(post[z], post[y])
          /\ y \in free[z] \/ z \in free[y]
      BY <3>1, ZeroIsNoPost DEF IInv, PartnersSound, Published, Board!Published, NoPost
    <3>3. post'[y] # NoPost
      BY <1>4, <1>5, <3>1, <3>2 DEF NoPost, Board!NoPost
    <3> QED
      BY <1>12, <2>2, <3>1, <3>2, <3>3 DEF Mirrored, Board!Mirrored
  <2> QED
    BY <2>1, <2>2
<1>14. MissedOnlyByOverlap'
  BY <1>4, <1>5, <1>6 DEF IInv, MissedOnlyByOverlap, Mirrored, Board!Mirrored, searches
<1>15. StolenOnlyByOverlap'
  <2> SUFFICES ASSUME NEW z \in Post, post'[z].partner # 0,
                      post'[post'[z].partner].partner # z
               PROVE  z \notin seen[post'[post'[z].partner].partner]
    BY <1>6 DEF StolenOnlyByOverlap, searches
  <2>1. z \notin {p, q} /\ post'[z] = post[z] /\ post[z].partner \in Post \ {p}
    BY <1>1, <1>3, <1>4, <1>5 DEF Rows
  <2>2. CASE post[z].partner = q
    BY <1>2, <1>5, <2>1, <2>2
  <2>3. CASE post[z].partner # q
    BY <1>4, <2>1, <2>3 DEF IInv, StolenOnlyByOverlap
  <2> QED
    BY <2>2, <2>3
<1> QED
  BY <1>8, <1>9, <1>10, <1>13, <1>14, <1>15 DEF IInv

-----------------------------------------------------------------------------
(* The invariant, action by action.                                         *)

\* Giving up the search of one's own id.
LEMMA ForgetFacts ==
  ASSUME IInv, NEW r \in Request, call[r].pc \in PublishSteps, Forget(call[r].post)
  PROVE  \A p \in Post : SearchStays(p) \/ MaySearch(r, p)
<1> SUFFICES ASSUME NEW p \in Post
             PROVE  SearchStays(p) \/ MaySearch(r, p)
  OBVIOUS
<1>1. CASE p = call[r].post
  <2>1. post[p].status = "none" /\ seen'[p] = {}
    BY <1>1, CallFacts, ZeroIsNoPost DEF CallSound, Forget
  <2>2. \A q \in Request \ {r} : call[q].pc \in PublishSteps => call[q].post # p
    BY <1>1, ZeroIsNoPost DEF IInv, IdsApart
  <2> QED
    BY <2>1, <2>2 DEF MaySearch
<1>2. CASE p # call[r].post
  BY <1>2 DEF Forget, SearchStays
<1> QED
  BY <1>1, <1>2

\* Answering the client, with the searches as they are or without those of an
\* id the request gives up.
LEMMA ReturnStep ==
  ASSUME IInv, UNCHANGED post, NEW r \in Request, Return(r),
         \/ UNCHANGED searches
         \/ call[r].pc \in PublishSteps /\ Forget(call[r].post)
  PROVE  IInv'
<1>1. /\ seen \in [Post -> SUBSET Post] /\ free \in [Post -> SUBSET Post]
  BY Types DEF IInv
<1>2. /\ call' = [call EXCEPT ![r] = Idle] /\ Idle \in Calls /\ CallSound(Idle)'
      /\ Idle.pc \notin PublishSteps
  BY IdleFacts DEF Return, PublishSteps
<1>3. CASE UNCHANGED searches
  BY <1>1, <1>2, <1>3, CallStep DEF searches, SearchStays
<1>4. CASE call[r].pc \in PublishSteps /\ Forget(call[r].post)
  <2>1. seen' \in [Post -> SUBSET Post] /\ free' \in [Post -> SUBSET Post]
    BY <1>1, <1>4 DEF Forget
  <2>2. \A p \in Post : SearchStays(p) \/ MaySearch(r, p)
    BY <1>1, <1>4, ForgetFacts
  <2> QED
    BY <1>2, <2>1, <2>2, CallStep
<1> QED
  BY <1>3, <1>4

LEMMA StartKeeps ==
  ASSUME IInv, NEW r \in Request,
         \/ \E o \in Book, w \in Book : PublishStart(r, o, w)
         \/ \E p \in Post : CloseStart(r, p)
  PROVE  IInv'
<1>1. /\ seen \in [Post -> SUBSET Post] /\ free \in [Post -> SUBSET Post]
  BY Types DEF IInv
<1>2. ASSUME NEW o \in Book, NEW w \in Book, PublishStart(r, o, w)
      PROVE  IInv'
  <2> DEFINE c == [pc |-> "insert", post |-> 0, offer |-> o, want |-> w, match |-> 0,
                   attempt |-> 0]
  <2>1. c \in Calls /\ c.pc = "insert" /\ c.post = 0 /\ c.offer = o /\ c.want = w
    BY ExchangeBounds DEF Calls, Steps, PublishSteps
  <2>2. CallSound(c)'
    BY <2>1 DEF CallSound, PublishSteps, Searched
  <2>3. call' = [call EXCEPT ![r] = c] /\ UNCHANGED <<post, seen, free>>
    BY <1>2 DEF PublishStart
  <2> HIDE DEF c
  <2> QED
    BY <1>1, <2>1, <2>2, <2>3, CallStep DEF SearchStays
<1>3. ASSUME NEW p \in Post, CloseStart(r, p)
      PROVE  IInv'
  <2> DEFINE c == [pc |-> "close_write", post |-> p, offer |-> "none", want |-> "none",
                   match |-> 0, attempt |-> 0]
  <2>1. c \in Calls /\ c.pc = "close_write" /\ c.post = p
    BY ExchangeBounds DEF Calls, Steps
  <2>2. call' = [call EXCEPT ![r] = c] /\ UNCHANGED <<post, seen, free>>
    BY <1>3 DEF CloseStart
  <2>3. post[p].status # "none"
    BY <1>3, PublishedFacts DEF CloseStart
  <2> HIDE DEF c
  <2>4. CallSound(c)'
    BY <2>1, <2>2, <2>3, ZeroIsNoPost DEF CallSound, PublishSteps, Searched
  <2> QED
    BY <1>1, <2>1, <2>2, <2>4, CallStep DEF PublishSteps, SearchStays
<1> QED
  BY <1>2, <1>3

\* The next id is above all that are in use.
LEMMA InsertKeeps ==
  ASSUME IInv, NEW r \in Request, PublishInsert(r)
  PROVE  IInv'
<1>1. PICK p \in Post : /\ IF call[r].post = 0 THEN NextId(p) ELSE p = call[r].post
                        /\ Goto(r, "find", p, 0)
  BY DEF PublishInsert
<1> DEFINE c == call[r]
<1>2. c \in Calls /\ CallSound(c) /\ c.pc = "insert"
  BY CallFacts DEF PublishInsert
<1>3. /\ post[p].status = "none"
      /\ \A q \in Request \ {r} : call[q].pc \in PublishSteps => call[q].post # p
  <2>1. CASE c.post = 0
    <3>1. p \notin Taken
      BY <1>1, <2>1 DEF NextId, Post
    <3> QED
      BY <3>1, PublishedFacts DEF Taken
  <2>2. CASE c.post # 0
    BY <1>1, <1>2, <2>2 DEF CallSound, IInv, IdsApart, PublishSteps
  <2> QED
    BY <2>1, <2>2
<1>4. PICK d \in Calls : /\ call' = [call EXCEPT ![r] = d]
                         /\ d.pc = "find" /\ d.post = p
                         /\ d.offer = c.offer /\ d.want = c.want
  <2> DEFINE e == [pc |-> "find", post |-> p, offer |-> c.offer, want |-> c.want,
                   match |-> 0, attempt |-> c.attempt]
  <2>1. e \in Calls
    BY <1>2 DEF Calls, Steps, PublishSteps
  <2>2. call' = [call EXCEPT ![r] = e]
    BY <1>1 DEF Goto
  <2> QED
    BY <2>1, <2>2
<1>5. UNCHANGED <<post, seen, free>>
  BY DEF PublishInsert
<1>6. /\ seen \in [Post -> SUBSET Post] /\ free \in [Post -> SUBSET Post]
  BY Types DEF IInv
<1>7. CallSound(d)'
  BY <1>2, <1>3, <1>4, <1>5, ZeroIsNoPost DEF CallSound, PublishSteps, Searched
<1> QED
  BY <1>3, <1>4, <1>5, <1>6, <1>7, CallStep DEF SearchStays

\* The search sees what is committed; nobody else knows the id it is made for.
LEMMA FindKeeps ==
  ASSUME IInv, NEW r \in Request, PublishFind(r)
  PROVE  IInv'
<1> DEFINE c == call[r]
<1>1. PICK p \in Post : p = c.post /\ post[p].status = "none"
  BY CallFacts DEF PublishFind, CallSound, Calls, PublishSteps
<1>2. c \in Calls /\ c.pc = "find" /\ c.offer \in Book /\ c.want \in Book
  BY CallFacts DEF PublishFind, CallSound, PublishSteps
<1>3. \A q \in Request \ {r} : call[q].pc \in PublishSteps => call[q].post # p
  BY <1>1, <1>2, ZeroIsNoPost DEF IInv, IdsApart, PublishSteps
<1>4. /\ seen' \in [Post -> SUBSET Post] /\ free' \in [Post -> SUBSET Post]
      /\ seen'[p] = {q \in Post : Published(q)}
      /\ free'[p] = {q \in Post : post[q].status = "open"}
      /\ \A q \in Post \ {p} : seen'[q] = seen[q] /\ free'[q] = free[q]
      /\ UNCHANGED post
  BY <1>1, Types DEF IInv, PublishFind
<1>5. PICK pc \in {"mark", "commit"}, q \in Post \cup {0} :
         /\ Goto(r, pc, p, q)
         /\ pc = "commit" => q = 0 /\ Matches(c) = {}
         /\ pc = "mark" => q \in Matches(c)
  BY <1>1 DEF PublishFind, Matches
<1>6. PICK d \in Calls : /\ call' = [call EXCEPT ![r] = d]
                         /\ d.pc = pc /\ d.post = p /\ d.match = q
                         /\ d.offer = c.offer /\ d.want = c.want
  <2> DEFINE e == [pc |-> pc, post |-> p, offer |-> c.offer, want |-> c.want, match |-> q,
                   attempt |-> c.attempt]
  <2>1. e \in Calls
    BY <1>2 DEF Calls, Steps, PublishSteps
  <2>2. call' = [call EXCEPT ![r] = e]
    BY <1>5 DEF Goto
  <2> QED
    BY <2>1, <2>2
<1>7. CallSound(d)'
  <2>1. CASE pc = "commit"
    <3>1. \A z \in Post : post[z].status = "open" =>
             ~(post[z].offer = c.want /\ post[z].want = c.offer)
      BY <1>1, <1>5, <2>1 DEF Matches
    <3>2. \A z \in seen'[p] : post'[z].status = "open" =>
             ~(post'[z].offer = c.want /\ post'[z].want = c.offer)
      BY <1>4, <3>1
    <3> QED
      BY <1>1, <1>2, <1>4, <1>5, <1>6, <2>1, <3>2, ZeroIsNoPost
         DEF CallSound, PublishSteps, Searched
  <2>2. CASE pc = "mark"
    <3>1. /\ q \in Post \ {p} /\ post[q].status = "open"
          /\ post[q].offer = c.want /\ post[q].want = c.offer
      BY <1>1, <1>5, <2>2 DEF Matches
    <3>2. \A z \in seen'[p] : post[z].partner # q
      BY <1>4, <3>1 DEF IInv, RowsSound
    <3> QED
      BY <1>1, <1>2, <1>4, <1>6, <2>2, <3>1, <3>2, ZeroIsNoPost
         DEF CallSound, PublishSteps, Searched
  <2> QED
    BY <2>1, <2>2
<1>8. \A z \in Post : SearchStays(z) \/ MaySearch(r, z)
  BY <1>1, <1>3, <1>4, PublishedFacts DEF SearchStays, MaySearch
<1>9. d.pc \in PublishSteps /\ d.post # 0 =>
         \A z \in Request \ {r} : call[z].pc \in PublishSteps => call[z].post # d.post
  BY <1>3, <1>6
<1> QED
  BY <1>4, <1>6, <1>7, <1>8, <1>9, CallStep

LEMMA MarkKeeps ==
  ASSUME IInv, NEW r \in Request, PublishMark(r)
  PROVE  IInv'
<1> DEFINE c == call[r]
<1>1. c \in Calls /\ CallSound(c) /\ c.pc = "mark"
  BY CallFacts DEF PublishMark
<1>2. PICK d \in Calls : /\ call' = [call EXCEPT ![r] = d]
                         /\ d.pc = "commit" /\ d.post = c.post /\ d.match = c.match
                         /\ d.offer = c.offer /\ d.want = c.want
  <2> DEFINE e == [pc |-> "commit", post |-> c.post, offer |-> c.offer, want |-> c.want,
                   match |-> c.match, attempt |-> c.attempt]
  <2>1. e \in Calls
    BY <1>1 DEF Calls, Steps, PublishSteps
  <2>2. call' = [call EXCEPT ![r] = e]
    BY DEF PublishMark, Goto
  <2> QED
    BY <2>1, <2>2
<1>3. UNCHANGED <<post, seen, free>>
  BY DEF PublishMark
<1>4. /\ seen \in [Post -> SUBSET Post] /\ free \in [Post -> SUBSET Post]
  BY Types DEF IInv
<1>5. CallSound(d)'
  BY <1>1, <1>2, <1>3 DEF CallSound, PublishSteps, Searched
<1>6. d.pc \in PublishSteps /\ d.post # 0 =>
         \A q \in Request \ {r} : call[q].pc \in PublishSteps => call[q].post # d.post
  BY <1>1, <1>2 DEF IInv, IdsApart, PublishSteps
<1>7. /\ seen' \in [Post -> SUBSET Post] /\ free' \in [Post -> SUBSET Post]
      /\ \A q \in Post : SearchStays(q)
  BY <1>3, <1>4 DEF SearchStays
<1> QED
  BY <1>2, <1>3, <1>5, <1>6, <1>7, CallStep

\* A retry begins with the id of the failed attempt, and without its search.
LEMMA LockErrorKeeps ==
  ASSUME IInv, NEW r \in Request, LockError(r)
  PROVE  IInv'
<1> DEFINE c == call[r]
           e == [pc |-> "insert", post |-> c.post, offer |-> c.offer, want |-> c.want,
                 match |-> 0, attempt |-> c.attempt + 1]
<1>1. /\ c \in Calls /\ CallSound(c) /\ c.pc \in {"insert", "mark"}
      /\ UNCHANGED post /\ Forget(c.post)
  BY CallFacts DEF LockError
<1>2. CASE Return(r)
  BY <1>1, <1>2, ReturnStep DEF PublishSteps
<1>3. CASE c.attempt + 1 < MaxTxRetries /\ call' = [call EXCEPT ![r] = e]
  <2>1. PICK d \in Calls : /\ call' = [call EXCEPT ![r] = d]
                           /\ d.pc = "insert" /\ d.post = c.post
                           /\ d.offer = c.offer /\ d.want = c.want
    <3>1. e \in Calls
      BY <1>1, <1>3, ExchangeBounds DEF Calls, Steps, PublishSteps
    <3> QED
      BY <1>3, <3>1
  <2>2. seen' \in [Post -> SUBSET Post] /\ free' \in [Post -> SUBSET Post]
    BY <1>1, Types DEF IInv, Forget
  <2>3. \A p \in Post : SearchStays(p) \/ MaySearch(r, p)
    BY <1>1, ForgetFacts DEF PublishSteps
  <2>4. CallSound(d)'
    BY <1>1, <2>1 DEF CallSound, PublishSteps, Searched
  <2>5. d.pc \in PublishSteps /\ d.post # 0 =>
           \A q \in Request \ {r} : call[q].pc \in PublishSteps => call[q].post # d.post
    BY <1>1, <2>1 DEF IInv, IdsApart, PublishSteps
  <2> QED
    BY <1>1, <2>1, <2>2, <2>3, <2>4, <2>5, CallStep
<1> QED
  BY <1>2, <1>3 DEF LockError

LEMMA FailKeeps ==
  ASSUME IInv, NEW r \in Request, Fail(r)
  PROVE  IInv'
BY ReturnStep DEF Fail, searches, Steps

\* The boards the table may start with: open posts without partners.
LEMMA BoardFacts ==
  ASSUME Init
  PROVE  /\ post \in [Post -> Rows]
         /\ \A p \in Post : /\ post[p].partner = 0
                            /\ post[p].status \in {"none", "open"}
                            /\ post[p].status = "none" => post[p] = NoPost
<1>1. post \in [Post -> {NoPost} \cup {Row(o, w, "open", 0) : o \in Book, w \in Book}]
  BY BoardsAssumption DEF Init
<1>2. ASSUME NEW p \in Post
      PROVE  /\ post[p] \in Rows
             /\ post[p].partner = 0
             /\ post[p].status \in {"none", "open"}
             /\ post[p].status = "none" => post[p] = NoPost
  <2>1. CASE post[p] = NoPost
    BY <2>1 DEF NoPost, Board!NoPost, Rows
  <2>2. CASE post[p] # NoPost
    <3>1. PICK o \in Book, w \in Book : post[p] = Row(o, w, "open", 0)
      BY <1>1, <2>2
    <3> QED
      BY <3>1 DEF Row, Board!Row, Rows
  <2> QED
    BY <2>1, <2>2
<1> QED
  BY <1>1, <1>2

LEMMA InitKeeps == Init => IInv
<1> SUFFICES ASSUME Init
             PROVE  IInv
  OBVIOUS
<1>1. TypeOK
  BY BoardFacts, IdleFacts DEF Init, TypeOK, Rows, Calls
<1>2. CallsSound /\ IdsApart
  BY IdleFacts DEF Init, CallsSound, IdsApart, PublishSteps
<1>3. SearchesSound /\ MissedOnlyByOverlap
  BY DEF Init, SearchesSound, MissedOnlyByOverlap
<1>4. RowsSound /\ PartnersSound /\ StolenOnlyByOverlap
  BY BoardFacts, ZeroIsNoPost DEF RowsSound, PartnersSound, StolenOnlyByOverlap
<1> QED
  BY <1>1, <1>2, <1>3, <1>4 DEF IInv

LEMMA NextKeeps == IInv /\ [Next]_vars => IInv'
<1> SUFFICES ASSUME IInv, [Next]_vars
             PROVE  IInv'
  OBVIOUS
<1>1. CASE UNCHANGED vars
  BY <1>1 DEF vars, IInv, TypeOK, CallsSound, CallSound, IdsApart, SearchesSound, RowsSound,
     PartnersSound, MissedOnlyByOverlap, StolenOnlyByOverlap, Mirrored, Board!Mirrored,
     Published, Board!Published, NoPost, Board!NoPost
<1>2. CASE Next
  BY <1>2, StartKeeps, InsertKeeps, FindKeeps, MarkKeeps, CommitAloneKeeps,
     CommitMatchedKeeps, CloseWriteKeeps, LockErrorKeeps, FailKeeps DEF Next
<1> QED
  BY <1>1, <1>2

LEMMA Invariance == Spec => []IInv
BY InitKeeps, NextKeeps, PTL DEF Spec

\* Rows and requests keep their types, for any number of posts and requests.
THEOREM TypeCorrect == Spec => []TypeOK
<1>1. IInv => TypeOK
  BY DEF IInv
<1> QED
  BY Invariance, <1>1, PTL

\* Every match joins two posts that want each other, one of which was free when
\* the other one searched.
THEOREM PartnersAreSound == Spec => []PartnersSound
<1>1. IInv => PartnersSound
  BY DEF IInv
<1> QED
  BY Invariance, <1>1, PTL

\* Two posts that fit are both left open only if neither could see the other.
THEOREM MissesAreOverlaps == Spec => []MissedOnlyByOverlap
<1>1. IInv => MissedOnlyByOverlap
  BY DEF IInv
<1> QED
  BY Invariance, <1>1, PTL

\* A post loses its partner only to one that could not see it had been matched.
THEOREM ThievesAreOverlaps == Spec => []StolenOnlyByOverlap
<1>1. IInv => StolenOnlyByOverlap
  BY DEF IInv
<1> QED
  BY Invariance, <1>1, PTL

-----------------------------------------------------------------------------
(* Refinement.                                                              *)

LEMMA InitImplements == Init => Board!Init
BY BoardsAssumption DEF Init, Board!Init, NoPost, Row

LEMMA CommitImplements ==
  ASSUME IInv, NEW r \in Request, PublishCommit(r)
  PROVE  Board!Next
<1> DEFINE c == call[r]
<1>1. /\ c.post \in Post /\ ~Board!Published(c.post)
      /\ c.offer \in Book /\ c.want \in Book
  BY CommitFacts DEF PublishCommit, Board!Published, NoPost
<1>2. CASE c.match = 0
  <2>1. Board!Publish(c.post, c.offer, c.want)
    BY <1>1, <1>2 DEF PublishCommit, Board!Publish, Row
  <2> QED
    BY <1>1, <2>1 DEF Board!Next
<1>3. CASE c.match # 0
  <2>1. /\ c.match \in Post /\ post[c.match].status # "none"
        /\ post[c.match].offer = c.want /\ post[c.match].want = c.offer
    BY <1>3, CallFacts, CommitFacts DEF PublishCommit, CallSound, Searched
  <2>2. Board!Published(c.match)
    BY <2>1, PublishedFacts DEF Published
  <2>3. Board!Mirrored(post[c.match], Board!Row(c.offer, c.want, "open", 0))
    BY <2>1 DEF Board!Mirrored, Board!Row
  <2>4. Board!PublishMatched(c.post, c.offer, c.want, c.match)
    BY <1>1, <1>3, <2>2, <2>3 DEF PublishCommit, Board!PublishMatched, Row
  <2> QED
    BY <1>1, <2>1, <2>4 DEF Board!Next
<1> QED
  BY <1>2, <1>3

LEMMA CloseImplements ==
  ASSUME IInv, NEW r \in Request, CloseWrite(r)
  PROVE  Board!Next
<1>1. call[r].post \in Post /\ post[call[r].post].status # "none"
  BY CallFacts DEF CloseWrite, CallSound, Calls
<1>2. Board!Published(call[r].post)
  BY <1>1, PublishedFacts DEF Published
<1>3. Board!Close(call[r].post)
  BY <1>2 DEF CloseWrite, Board!Close, Row
<1> QED
  BY <1>1, <1>3 DEF Board!Next

LEMMA NextImplements == IInv /\ [Next]_vars => [Board!Next]_post
<1> SUFFICES ASSUME IInv, [Next]_vars
             PROVE  Board!Next \/ UNCHANGED post
  OBVIOUS
<1>1. CASE \E r \in Request : PublishCommit(r)
  BY <1>1, CommitImplements
<1>2. CASE \E r \in Request : CloseWrite(r)
  BY <1>2, CloseImplements
<1> QED
  BY <1>1, <1>2 DEF Next, vars, PublishStart, CloseStart, PublishInsert, PublishFind,
     PublishMark, LockError, Fail

\* Publications and closings change the table as if each happened at once.
THEOREM ExchangeImplementsBoard == Spec => ImplementsBoard
<1> QED
  BY Invariance, InitImplements, NextImplements, PTL DEF Spec, ImplementsBoard, Board!Spec

=============================================================================
