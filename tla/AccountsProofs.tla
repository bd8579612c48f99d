--------------------------- MODULE AccountsProofs ---------------------------
(***************************************************************************)
(* Proofs about Accounts for any phones, passwords, names, requests and    *)
(* limits.  One INSERT makes an account and nothing changes its password   *)
(* (AccountsSound); an update writes back what it read, which is the row   *)
(* as it is until another update overtakes it (CallsSound).                *)
(***************************************************************************)
EXTENDS Accounts, SumLemmas, TLAPS

Users == [password : Password \cup {"none"}, profile : Profile]

Calls == [pc : {"idle", "register_lookup", "register_insert", "login", "update"},
          phone : Phone \cup {"none"}, password : Password \cup {"none"},
          body : Profile, read : Profile, stale : BOOLEAN]

Buckets == [count : 0..(IF Limit < 0 THEN 1 ELSE Limit + 1), resetAt : -1..(now + Window)]

\* The profiles of registered users.
Named == {q \in Profile : \A f \in Required : q[f] # ""}

HistoryOK ==
    /\ welcomed \in [Phone -> SUBSET Password]
    /\ asked \in [Phone -> Profile]

\* A password that was welcomed or signed in with is that of an account.
AccountsSound ==
    \A p \in Phone :
        /\ Exists(p) => user[p].password \in Password
        /\ \A w \in Password :
              w \in welcomed[p] \/ <<p, w>> \in signedIn => Exists(p) /\ user[p].password = w

\* An update that nobody overtook has read the row as it is.
CallSound(c) ==
    /\ c.pc # "idle" => c.phone \in Phone
    /\ c.pc \in {"register_lookup", "register_insert"} =>
          c.password \in Password /\ c.body \in Named
    /\ c.pc = "login" => c.password \in Password
    /\ c.pc = "update" => /\ Exists(c.phone)
                          /\ c.read \in Named
                          /\ ~c.stale => c.read = user[c.phone].profile

CallsSound == \A r \in Request : CallSound(call[r])

IInv ==
    /\ TypeOK
    /\ HistoryOK
    /\ AccountsSound
    /\ CallsSound
    /\ ChangesKept

-----------------------------------------------------------------------------
LEMMA ProfileFacts ==
  /\ NoProfile \in Profile
  /\ Named \subseteq Profile
  /\ \A body \in Profile, read \in Named : Filled(body, read) \in Named
  /\ \A form \in Forms : Registered(form) \in Named
<1>1. NoProfile \in Profile /\ Named \subseteq Profile
  BY DEF NoProfile, Profile, Named
<1>2. ASSUME NEW body \in Profile, NEW read \in Named
      PROVE  Filled(body, read) \in Named
  <2>1. read \in Profile /\ \A f \in Required : read[f] # ""
    BY DEF Named
  <2>2. Filled(body, read) = [f \in Fields |-> IF body[f] = "" THEN read[f] ELSE body[f]]
    BY DEF Filled
  <2>3. Filled(body, read) \in Profile
    BY <2>1, <2>2 DEF Profile
  <2>4. ASSUME NEW f \in Required
        PROVE  Filled(body, read)[f] # ""
    BY <2>1, <2>2 DEF Required, Fields
  <2> QED
    BY <2>3, <2>4 DEF Named
<1>3. ASSUME NEW form \in Forms
      PROVE  Registered(form) \in Named
  <2>1. form \in [Required -> Name] /\ "" \notin Name
    BY InputsAssumption
  <2>2. Registered(form) = [f \in Fields |-> IF f \in Required THEN form[f] ELSE ""]
    BY DEF Registered
  <2>3. Registered(form) \in Profile
    BY <2>1, <2>2 DEF Profile
  <2>4. ASSUME NEW f \in Required
        PROVE  Registered(form)[f] # ""
    <3>1. f \in Fields
      BY DEF Required, Fields
    <3>2. form[f] \in Name /\ "" \notin Name
      BY <2>1
    <3>3. Registered(form)[f] = form[f]
      BY <2>2, <3>1
    <3> QED
      BY <3>2, <3>3
  <2> QED
    BY <2>3, <2>4 DEF Named
<1> QED
  BY <1>1, <1>2, <1>3

LEMMA IdleFacts ==
  /\ Idle \in Calls /\ Idle.pc = "idle"
  /\ CallSound(Idle) /\ CallSound(Idle)'
BY ProfileFacts DEF Idle, Calls, CallSound

LEMMA Types ==
  ASSUME IInv
  PROVE  /\ user \in [Phone -> Users] /\ call \in [Request -> Calls]
         /\ \A p \in Phone : Exists(p) => user[p].profile \in Named
         /\ welcomed \in [Phone -> SUBSET Password]
         /\ asked \in [Phone -> Profile] /\ overlapped \subseteq Phone
<1>1. /\ user \in [Phone -> Users] /\ call \in [Request -> Calls]
      /\ welcomed \in [Phone -> SUBSET Password]
      /\ asked \in [Phone -> Profile] /\ overlapped \subseteq Phone
  BY DEF IInv, TypeOK, HistoryOK, Users, Calls
<1>2. ASSUME NEW p \in Phone, Exists(p)
      PROVE  user[p].profile \in Named
  <2>1. user[p].profile \in Profile
    BY <1>1 DEF Users
  <2>2. \A f \in Required : user[p].profile[f] # ""
    BY <1>2 DEF IInv, TypeOK
  <2> QED
    BY <2>1, <2>2 DEF Named
<1> QED
  BY <1>1, <1>2

LEMMA CallFacts ==
  ASSUME IInv, NEW r \in Request
  PROVE  call[r] \in Calls /\ CallSound(call[r])
BY Types DEF IInv, CallsSound

\* The limiter's part of the types: a window ends at most a window from now.
LEMMA LimiterKeeps ==
  ASSUME IInv, \/ Tick
               \/ \E c \in Client : Pass(c) \/ Refuse(c)
               \/ UNCHANGED limiter
  PROVE  now' \in Times /\ bucket' \in [Client -> Buckets']
<1>1. now \in Times /\ bucket \in [Client -> Buckets]
  BY DEF IInv, TypeOK, Buckets
<1>2. Limit \in Int /\ Window \in Nat \ {0} /\ MaxTime \in Nat
  BY LimiterAssumption
<1>3. CASE Tick
  <2>1. now' \in Times /\ bucket' = bucket
    BY <1>1, <1>2, <1>3 DEF Tick, Times
  <2>2. Buckets \subseteq Buckets'
    BY <1>1, <1>2, <1>3 DEF Tick, Times, Buckets
  <2> QED
    BY <1>1, <2>1, <2>2
<1>4. ASSUME NEW c \in Client, Pass(c) \/ Refuse(c)
      PROVE  now' \in Times /\ bucket' \in [Client -> Buckets']
  <2>1. UNCHANGED now /\ bucket' = [bucket EXCEPT ![c] = Counted(bucket[c])]
    BY <1>4 DEF Pass, Refuse
  <2>2. Buckets' = Buckets
    BY <2>1 DEF Buckets
  <2>3. Counted(bucket[c]) \in Buckets
    <3>1. bucket[c].count \in 0..(IF Limit < 0 THEN 1 ELSE Limit + 1)
          /\ bucket[c].resetAt \in -1..(now + Window) /\ now \in Nat
      BY <1>1, <1>2 DEF Buckets, Times
    <3> QED
      BY <1>2, <3>1 DEF Counted, Expired, Buckets
  <2> QED
    BY <1>1, <2>1, <2>2, <2>3
<1>5. CASE UNCHANGED limiter
  BY <1>1, <1>5 DEF limiter, Buckets
<1> QED
  BY <1>3, <1>4, <1>5

-----------------------------------------------------------------------------
\* A step that changes no account and no history: a request goes on to a call
\* that is sound.
LEMMA CallStep ==
  ASSUME IInv, UNCHANGED users, now' \in Times, bucket' \in [Client -> Buckets'],
         NEW r \in Request, NEW c \in Calls, CallSound(c),
         call' = [call EXCEPT ![r] = c]
  PROVE  IInv'
<1>1. call \in [Request -> Calls]
  BY Types
<1>2. TypeOK' /\ HistoryOK'
  BY <1>1 DEF IInv, TypeOK, HistoryOK, Exists, users, Calls, Buckets
<1>3. AccountsSound' /\ ChangesKept'
  BY DEF IInv, AccountsSound, ChangesKept, Exists, users
<1>4. CallsSound'
  BY <1>1 DEF IInv, CallsSound, CallSound, Exists, users
<1> QED
  BY <1>2, <1>3, <1>4 DEF IInv

LEMMA ReturnStep ==
  ASSUME IInv, UNCHANGED <<limiter, users>>, NEW r \in Request, Return(r)
  PROVE  IInv'
BY IdleFacts, LimiterKeeps, CallStep DEF Return

LEMMA ArriveKeeps ==
  ASSUME IInv, NEW r \in Request, Arrive(r)
  PROVE  IInv'
<1>1. ASSUME NEW p \in Phone, NEW k \in Client, NEW w \in Password, NEW form \in Forms,
             NEW pc \in {"register_lookup", "login"},
             NEW body \in Profile, body = Registered(form) \/ pc = "login",
             Pass(k), Start(r, pc, p, w, body, NoProfile), UNCHANGED users
      PROVE  IInv'
  <2> DEFINE c == [pc |-> pc, phone |-> p, password |-> w, body |-> body,
                   read |-> NoProfile, stale |-> FALSE]
  <2>1. c \in Calls /\ CallSound(c)
    BY <1>1, ProfileFacts, InputsAssumption DEF Calls, CallSound
  <2> QED
    BY <1>1, <2>1, LimiterKeeps, CallStep DEF Start
<1>2. ASSUME NEW p \in Phone, NEW body \in Puts, UpdateStart(r, p, body)
      PROVE  IInv'
  <2> DEFINE c == [pc |-> "update", phone |-> p, password |-> "none", body |-> body,
                   read |-> user[p].profile, stale |-> FALSE]
  <2>1. Exists(p)
    BY <1>2 DEF UpdateStart, IInv, AccountsSound
  <2>2. c \in Calls /\ CallSound(c)
    BY <1>2, <2>1, Types, ProfileFacts, InputsAssumption DEF Calls, CallSound
  <2> QED
    BY <1>2, <2>2, LimiterKeeps, CallStep DEF UpdateStart, Start
<1>3. ASSUME NEW p \in Phone, NEW k \in Client, NEW w \in Password, LoginArrives(r, k, p, w)
      PROVE  IInv'
  <2> DEFINE c == [pc |-> "login", phone |-> p, password |-> w, body |-> NoProfile,
                   read |-> NoProfile, stale |-> FALSE]
  <2>1. c \in Calls /\ CallSound(c)
    BY ProfileFacts DEF Calls, CallSound
  <2> QED
    BY <1>3, <2>1, LimiterKeeps, CallStep DEF LoginArrives, Start
<1> QED
  BY <1>1, <1>2, <1>3, InputsAssumption, ProfileFacts DEF Arrive, RegisterArrives

LEMMA RegisterLookupKeeps ==
  ASSUME IInv, NEW r \in Request, RegisterLookup(r)
  PROVE  IInv'
<1> DEFINE c == [call[r] EXCEPT !.pc = "register_insert"]
<1>1. CASE Return(r)
  BY <1>1, ReturnStep DEF RegisterLookup
<1>2. CASE call' = [call EXCEPT ![r].pc = "register_insert"]
  <2>1. call[r] \in Calls /\ CallSound(call[r]) /\ call[r].pc = "register_lookup"
    BY CallFacts DEF RegisterLookup
  <2>2. c \in Calls /\ CallSound(c)
    BY <2>1 DEF Calls, CallSound
  <2>3. call' = [call EXCEPT ![r] = c]
    BY <1>2
  <2> QED
    BY <2>2, <2>3, LimiterKeeps, CallStep DEF RegisterLookup
<1> QED
  BY <1>1, <1>2 DEF RegisterLookup

\* The account is made: it was not there, so that nobody has been welcomed to it
\* or is about to update it.
LEMMA RegisterInsertKeeps ==
  ASSUME IInv, NEW r \in Request, RegisterInsert(r)
  PROVE  IInv'
<1>1. CASE Exists(call[r].phone)
  BY <1>1, ReturnStep DEF RegisterInsert, users
<1>2. CASE ~Exists(call[r].phone)
  <2>1. PICK p \in Phone, w \in Password, form \in Named :
           p = call[r].phone /\ w = call[r].password /\ form = call[r].body
    BY CallFacts DEF RegisterInsert, CallSound
  <2>2. /\ ~Exists(p) /\ w # "none" /\ form \in Profile
        /\ user' = [user EXCEPT ![p] = [password |-> w, profile |-> form]]
        /\ welcomed' = [welcomed EXCEPT ![p] = welcomed[p] \cup {w}]
        /\ asked' = [asked EXCEPT ![p] = form]
        /\ call' = [call EXCEPT ![r] = Idle]
        /\ UNCHANGED <<limiter, signedIn, overlapped>>
    BY <1>2, <2>1, InputsAssumption, ProfileFacts DEF RegisterInsert, Welcome, Return
  <2>3. /\ user' \in [Phone -> Users] /\ call' \in [Request -> Calls]
        /\ user'[p] = [password |-> w, profile |-> form]
        /\ \A q \in Phone \ {p} : user'[q] = user[q]
    BY <2>1, <2>2, Types, IdleFacts DEF Users
  <2>4. Exists(p)' /\ \A q \in Phone : Exists(q) => q # p /\ Exists(q)' /\ user'[q] = user[q]
    BY <2>2, <2>3 DEF Exists, NoUser
  <2>5. TypeOK'
    <3>1. ASSUME NEW q \in Phone, Exists(q)', NEW f \in Required
          PROVE  user'[q].profile[f] # ""
      <4>1. CASE q = p
        <5>1. user'[q].profile = form
          BY <2>3, <4>1
        <5>2. \A g \in Required : form[g] # ""
          BY DEF Named
        <5> QED
          BY <5>1, <5>2
      <4>2. CASE q # p
        <5>1. user'[q] = user[q] /\ Exists(q)
          BY <2>3, <3>1, <4>2 DEF Exists
        <5> QED
          BY <5>1, Types DEF Named
      <4> QED
        BY <4>1, <4>2
    <3>2. now' \in Times /\ bucket' \in [Client -> Buckets'] /\ overlapped' \subseteq Phone
      BY <2>2, LimiterKeeps, Types
    <3> QED
      BY <2>3, <3>1, <3>2 DEF TypeOK, Users, Calls, Buckets
  <2>6. HistoryOK'
    BY <2>2, Types DEF HistoryOK
  <2>7. AccountsSound'
    BY <2>1, <2>2, <2>3, <2>4, Types DEF IInv, AccountsSound, Exists
  <2>8. CallsSound'
    BY <2>2, <2>4, Types, IdleFacts DEF IInv, CallsSound, CallSound, Exists
  <2>9. ChangesKept'
    BY <2>1, <2>2, <2>3, Types DEF IInv, ChangesKept
  <2> QED
    BY <2>5, <2>6, <2>7, <2>8, <2>9 DEF IInv
<1> QED
  BY <1>1, <1>2

LEMMA LoginKeeps ==
  ASSUME IInv, NEW r \in Request, Login(r)
  PROVE  IInv'
<1>1. UNCHANGED <<limiter, user, welcomed, asked, overlapped>>
      /\ call' = [call EXCEPT ![r] = Idle]
  BY DEF Login, Return
<1>2. call' \in [Request -> Calls]
  BY <1>1, Types, IdleFacts
<1>3. TypeOK' /\ HistoryOK'
  BY <1>1, <1>2 DEF IInv, TypeOK, HistoryOK, Exists, Calls, limiter
<1>4. AccountsSound'
  BY <1>1 DEF Login, IInv, AccountsSound, Exists
<1>5. CallsSound'
  BY <1>1, Types, IdleFacts DEF IInv, CallsSound, CallSound, Exists
<1>6. ChangesKept'
  BY <1>1 DEF IInv, ChangesKept
<1> QED
  BY <1>3, <1>4, <1>5, <1>6 DEF IInv

\* The row becomes what was read, filled in; whoever else has read it is marked.
LEMMA UpdateWriteKeeps ==
  ASSUME IInv, NEW r \in Request, UpdateWrite(r)
  PROVE  IInv'
<1>1. PICK p \in Phone, body \in Profile, read \in Named :
         /\ p = call[r].phone /\ body = call[r].body /\ read = call[r].read
         /\ Exists(p)
         /\ ~call[r].stale => read = user[p].profile
  BY CallFacts DEF UpdateWrite, CallSound, Calls
<1> DEFINE new == Filled(body, read)
<1>2. /\ user' = [user EXCEPT ![p] = [password |-> user[p].password, profile |-> new]]
      /\ new \in Named /\ new \in Profile
  <2>1. user' = [user EXCEPT ![p] = [password |-> user[p].password, profile |-> new]]
    BY <1>1 DEF UpdateWrite
  <2> QED
    BY <2>1, ProfileFacts
<1>3. /\ asked' = [asked EXCEPT ![p] = [f \in Fields |-> IF body[f] # "" THEN body[f] ELSE asked[p][f]]]
      /\ overlapped' = IF call[r].stale THEN overlapped \cup {p} ELSE overlapped
      /\ UNCHANGED <<limiter, welcomed, signedIn>>
  BY <1>1 DEF UpdateWrite
<1>4. /\ user' \in [Phone -> Users]
      /\ user'[p].password = user[p].password /\ user'[p].profile = new
      /\ \A q \in Phone \ {p} : user'[q] = user[q]
  <2> HIDE DEF new
  <2> QED
    BY <1>2, Types DEF Users
<1>5. \A q \in Phone : Exists(q)' <=> Exists(q)
  <2>1. user[p].password \in Password /\ user'[p].password # "none"
    BY <1>1, <1>4, InputsAssumption DEF IInv, AccountsSound
  <2> QED
    BY <1>1, <1>4, <2>1 DEF Exists, NoUser
<1>6. \A q \in Request :
         /\ call'[q] \in Calls
         /\ call'[q] = Idle \/ /\ call'[q].pc = call[q].pc /\ call'[q].phone = call[q].phone
                               /\ call'[q].password = call[q].password
                               /\ call'[q].body = call[q].body /\ call'[q].read = call[q].read
                               /\ IF q \in Updates(p) THEN call'[q].stale
                                  ELSE call'[q].stale = call[q].stale
  <2> TAKE q \in Request
  <2>1. call'[q] = IF q = r THEN Idle
                   ELSE IF q \in Updates(p) THEN [call[q] EXCEPT !.stale = TRUE] ELSE call[q]
    BY <1>1 DEF UpdateWrite
  <2>2. call[q] \in Calls
    BY CallFacts
  <2> QED
    BY <2>1, <2>2, IdleFacts DEF Calls
<1>7. call' \in [Request -> Calls]
  <2>1. call' = [q \in Request |-> call'[q]]
    BY DEF UpdateWrite
  <2> QED
    BY <1>6, <2>1
<1>8. TypeOK'
  <2>1. ASSUME NEW q \in Phone, Exists(q)', NEW f \in Required
        PROVE  user'[q].profile[f] # ""
    <3>1. CASE q = p
      BY <1>2, <1>4, <3>1 DEF Named
    <3>2. CASE q # p
      <4>1. user'[q] = user[q] /\ Exists(q)
        BY <1>4, <1>5, <2>1, <3>2
      <4> QED
        BY <4>1, Types DEF Named
    <3> QED
      BY <3>1, <3>2
  <2>2. now' \in Times /\ bucket' \in [Client -> Buckets'] /\ overlapped' \subseteq Phone
    BY <1>3, LimiterKeeps, Types
  <2> QED
    BY <1>4, <1>7, <2>1, <2>2 DEF TypeOK, Users, Calls, Buckets
<1>9. HistoryOK'
  <2>1. [f \in Fields |-> IF body[f] # "" THEN body[f] ELSE asked[p][f]] \in Profile
    <3>1. asked[p] \in Profile /\ body \in Profile
      BY Types
    <3>2. \A f \in Fields : (IF body[f] # "" THEN body[f] ELSE asked[p][f]) \in Name \cup {""}
      BY <3>1 DEF Profile
    <3> QED
      BY <3>2 DEF Profile
  <2> QED
    BY <1>3, <2>1, Types DEF HistoryOK
<1>10. AccountsSound'
  BY <1>3, <1>4, <1>5, InputsAssumption DEF IInv, AccountsSound
<1>11. CallsSound'
  <2> SUFFICES ASSUME NEW q \in Request, call'[q] # Idle
               PROVE  CallSound(call[q])'
    BY IdleFacts DEF CallsSound
  <2>1. CallSound(call[q]) /\ call[q] \in Calls
    BY CallFacts
  <2>2. /\ call'[q].pc = call[q].pc /\ call'[q].phone = call[q].phone
        /\ call'[q].password = call[q].password
        /\ call'[q].body = call[q].body /\ call'[q].read = call[q].read
        /\ IF q \in Updates(p) THEN call'[q].stale ELSE call'[q].stale = call[q].stale
    BY <1>6
  <2>3. call[q].pc = "update" /\ q \notin Updates(p) => call[q].phone \in Phone \ {p}
    BY <2>1 DEF CallSound, Updates
  <2> QED
    BY <1>4, <1>5, <2>1, <2>2, <2>3 DEF CallSound
<1>12. ChangesKept'
  <2> SUFFICES ASSUME NEW q \in Phone \ overlapped'
               PROVE  user'[q].profile = asked'[q]
    BY DEF ChangesKept
  <2>1. q \notin overlapped /\ user[q].profile = asked[q]
    BY <1>3 DEF IInv, ChangesKept
  <2>2. CASE q = p
    <3>1. read = asked[p]
      BY <1>1, <1>3, <2>1, <2>2
    <3>2. new = [f \in Fields |-> IF body[f] # "" THEN body[f] ELSE asked[p][f]]
      BY <3>1 DEF Filled
    <3>3. asked'[p] = [f \in Fields |-> IF body[f] # "" THEN body[f] ELSE asked[p][f]]
      BY <1>3, Types
    <3> QED
      BY <1>4, <2>2, <3>2, <3>3
  <2>3. CASE q # p
    BY <1>3, <1>4, <2>1, <2>3, Types
  <2> QED
    BY <2>2, <2>3
<1> QED
  BY <1>8, <1>9, <1>10, <1>11, <1>12 DEF IInv

-----------------------------------------------------------------------------
LEMMA InitKeeps == Init => IInv
<1> SUFFICES ASSUME Init
             PROVE  IInv
  OBVIOUS
<1>1. TypeOK
  <2>1. bucket \in [Client -> Buckets] /\ now \in Times
    BY LimiterAssumption DEF Init, LimiterInit, NoBucket, Buckets, Times
  <2> QED
    BY <2>1, IdleFacts, ProfileFacts DEF Init, TypeOK, Buckets, Calls, NoUser, Exists
<1>2. HistoryOK /\ AccountsSound /\ CallsSound /\ ChangesKept
  BY IdleFacts, ProfileFacts
     DEF Init, HistoryOK, AccountsSound, CallsSound, ChangesKept, Exists, NoUser
<1> QED
  BY <1>1, <1>2 DEF IInv

LEMMA NextKeeps == IInv /\ [Next]_vars => IInv'
<1> SUFFICES ASSUME IInv, [Next]_vars
             PROVE  IInv'
  OBVIOUS
<1>1. CASE UNCHANGED <<users, call>> /\ (Tick \/ (\E c \in Client : Refuse(c)) \/ UNCHANGED limiter)
  <2>1. now' \in Times /\ bucket' \in [Client -> Buckets']
    BY <1>1, LimiterKeeps
  <2>2. UNCHANGED <<user, welcomed, signedIn, asked, overlapped, call>>
    BY <1>1 DEF users
  <2>3. TypeOK' /\ HistoryOK'
    BY <2>1, <2>2 DEF IInv, TypeOK, HistoryOK, Exists, Buckets
  <2>4. AccountsSound' /\ ChangesKept'
    BY <2>2 DEF IInv, AccountsSound, ChangesKept, Exists
  <2>5. CallsSound'
    BY <2>2 DEF IInv, CallsSound, CallSound, Exists
  <2> QED
    BY <2>3, <2>4, <2>5 DEF IInv
<1>2. ASSUME NEW r \in Request, Fail(r)
      PROVE  IInv'
  BY <1>2, ReturnStep DEF Fail
<1>3. ASSUME NEW r \in Request, Arrive(r) \/ Proceed(r)
      PROVE  IInv'
  BY <1>2, <1>3, ArriveKeeps, RegisterLookupKeeps, RegisterInsertKeeps, LoginKeeps,
     UpdateWriteKeeps DEF Proceed
<1> QED
  BY <1>1, <1>3 DEF Next, TurnedAway, vars

LEMMA Invariance == Spec => []IInv
BY InitKeeps, NextKeeps, PTL DEF Spec

\* Rows, buckets and requests keep their types, and neither the nickname nor the
\* campus of a registered user is ever blank, whatever the limit and however many
\* requests there are.  (Of the avatar it says that it is a name or blank.)
THEOREM TypeCorrect == Spec => []TypeOK
<1>1. IInv => TypeOK
  BY DEF IInv
<1> QED
  BY Invariance, <1>1, PTL

\* An account belongs to the one registrant who was told so: nobody signs in to
\* it with another password, however many register the phone at once.
THEOREM RegistrantOwns == Spec => []RegistrantSignsIn
<1>1. IInv => RegistrantSignsIn
  BY DEF IInv, AccountsSound, RegistrantSignsIn
<1> QED
  BY Invariance, <1>1, PTL

\* An acknowledged change of a profile is lost only where updates overlapped.
THEOREM ChangesStay == Spec => []ChangesKept
<1>1. IInv => ChangesKept
  BY DEF IInv
<1> QED
  BY Invariance, <1>1, PTL

-----------------------------------------------------------------------------
(* What the limiter lets in.                                                *)

\* At least one request passes in a window, whatever the limit.
PerWindow == IF Limit <= 1 THEN 1 ELSE Limit

Most == IF Limit <= 1 THEN 1 ELSE 2 * Limit - 1

Sums(f, span) == SumFunctionOnSet(f, span \cap Times)

\* f counts the requests that a client got through, b is its bucket and n the
\* time: a window holds as many requests as its bucket says, and the span before
\* it fewer than a window may.
ClientSound(f, b, n) ==
    /\ f \in [Times -> Nat]
    /\ b.count \in Nat /\ b.resetAt \in Int
    /\ \A t \in Times : t > n => f[t] = 0
    /\ \/ b = NoBucket /\ \A t \in Times : f[t] = 0
       \/ LET s == b.resetAt - Window IN
          /\ s \in 0..n /\ b.count > 0 /\ f[s] > 0
          /\ \A t \in Times : t > b.resetAt => f[t] = 0
          /\ Sums(f, s..b.resetAt) = IF b.count < PerWindow THEN b.count ELSE PerWindow
          /\ Sums(f, (s - Window)..(s - 1)) < PerWindow
    /\ \A t \in Times : Sums(f, t..(t + Window)) <= Most

LimiterSound ==
    /\ now \in Times
    /\ DOMAIN bucket = Client /\ DOMAIN passed = Client
    /\ \A c \in Client : ClientSound(passed[c], bucket[c], now)

LEMMA TimesFinite == IsFiniteSet(Times) /\ \A span : IsFiniteSet(span \cap Times)
<1>1. IsFiniteSet(Times)
  BY FS_Interval, LimiterAssumption DEF Times
<1> QED
  BY <1>1, FS_Subset

LEMMA SumsCovered ==
  ASSUME NEW f \in [Times -> Nat], NEW S, NEW T, \A t \in (S \cap Times) \ T : f[t] = 0
  PROVE  Sums(f, S) <= Sums(f, T)
<1>1. \A t \in (S \cap Times) \cup (T \cap Times) : f[t] \in Nat
  OBVIOUS
<1>2. \A t \in (S \cap Times) \ (T \cap Times) : f[t] = 0
  OBVIOUS
<1> QED
  BY <1>1, <1>2, TimesFinite, SumCovered DEF Sums

LEMMA SumsNat == \A f \in [Times -> Nat] : \A S : Sums(f, S) \in Nat
<1> SUFFICES ASSUME NEW f \in [Times -> Nat], NEW S PROVE Sums(f, S) \in Nat
  OBVIOUS
<1>1. \A t \in S \cap Times : f[t] \in Nat
  OBVIOUS
<1> QED
  BY <1>1, TimesFinite, SumNat DEF Sums

\* One more request is counted in the spans that it falls into.
LEMMA SumsOneMore ==
  ASSUME NEW f \in [Times -> Nat], NEW n \in Times, NEW S
  PROVE  Sums([f EXCEPT ![n] = @ + 1], S) = Sums(f, S) + (IF n \in S THEN 1 ELSE 0)
<1> DEFINE g == [f EXCEPT ![n] = @ + 1]
<1>1. \A t \in Times : g[t] = IF t = n THEN f[n] + 1 ELSE f[t]
  OBVIOUS
<1>2. \A t \in S \cap Times : f[t] \in Int /\ g[t] \in Int /\ (t # n => g[t] = f[t])
  BY <1>1
<1>3. g[n] - f[n] = 1
  BY <1>1
<1> HIDE DEF g
<1>4. SumFunctionOnSet(g, S \cap Times) =
         SumFunctionOnSet(f, S \cap Times) + (IF n \in S \cap Times THEN g[n] - f[n] ELSE 0)
  BY <1>2, TimesFinite, SumUpdate
<1>5. Sums(g, S) = Sums(f, S) + (IF n \in S THEN 1 ELSE 0)
  BY <1>3, <1>4 DEF Sums
<1> QED
  BY <1>5 DEF g

\* The request that opens a window.
LEMMA WindowOpens ==
  ASSUME NEW f, NEW b, NEW n \in Times, ClientSound(f, b, n), n > b.resetAt
  PROVE  ClientSound([f EXCEPT ![n] = @ + 1], [count |-> 1, resetAt |-> n + Window], n)
<1>1. /\ f \in [Times -> Nat] /\ n \in Nat /\ Window \in Nat \ {0} /\ Times \subseteq Nat
      /\ Limit \in Int /\ PerWindow \in Nat \ {0} /\ Most \in Nat /\ PerWindow <= Most
  BY LimiterAssumption DEF ClientSound, Times, PerWindow, Most
<1>2. PICK g : g = [f EXCEPT ![n] = @ + 1]
  OBVIOUS
<1>3. PICK d : d = [count |-> 1, resetAt |-> n + Window]
  OBVIOUS
<1>4. /\ g \in [Times -> Nat] /\ g[n] > 0
      /\ \A t \in Times : t # n => g[t] = f[t]
  <2>1. f[n] \in Nat
    BY <1>1
  <2> QED
    BY <1>1, <1>2, <2>1
<1>12. ASSUME NEW S
       PROVE  /\ n \in S => Sums(g, S) = Sums(f, S) + 1
              /\ n \notin S => Sums(g, S) = Sums(f, S)
  <2>1. Sums(g, S) = Sums(f, S) + (IF n \in S THEN 1 ELSE 0) /\ Sums(f, S) \in Nat
    BY <1>1, <1>2, SumsOneMore, SumsNat
  <2> QED
    BY <2>1
<1>5. \A t \in Times : t >= n => f[t] = 0
  BY <1>1 DEF ClientSound
<1>6. Sums(f, {}) = 0
  BY SumEmpty DEF Sums
<1>7. Sums(f, (n - Window)..(n - 1)) < PerWindow
  <2>1. CASE b = NoBucket /\ \A t \in Times : f[t] = 0
    <3>1. Sums(f, (n - Window)..(n - 1)) <= Sums(f, {})
      BY <1>1, <2>1, SumsCovered
    <3> QED
      BY <1>1, <1>6, <3>1, SumsNat
  <2>2. CASE ~(b = NoBucket /\ \A t \in Times : f[t] = 0)
    <3>1. PICK s : s = b.resetAt - Window
      OBVIOUS
    <3>2. /\ s \in 0..n /\ f[s] > 0 /\ b.resetAt \in Int
          /\ \A t \in Times : t > b.resetAt => f[t] = 0
          /\ Sums(f, s..b.resetAt) <= PerWindow
      BY <1>1, <2>2, <3>1 DEF ClientSound
    <3>3. s \in Times /\ s \in s..b.resetAt /\ s < n - Window
      BY <1>1, <3>1, <3>2, LimiterAssumption DEF Times
    <3>4. Sums(f, (n - Window)..(n - 1)) <= Sums(f, (s + 1)..b.resetAt)
      <4>1. \A t \in ((n - Window)..(n - 1) \cap Times) \ ((s + 1)..b.resetAt) : f[t] = 0
        BY <1>1, <3>2, <3>3
      <4> QED
        BY <1>1, <4>1, SumsCovered
    <3>5. Sums(f, s..b.resetAt) = f[s] + Sums(f, (s + 1)..b.resetAt)
      <4>1. ((s..b.resetAt) \cap Times) \ {s} = ((s + 1)..b.resetAt) \cap Times
        BY <1>1, <3>2, <3>3
      <4>2. \A t \in (s..b.resetAt) \cap Times : f[t] \in Int
        BY <1>1
      <4>3. s \in (s..b.resetAt) \cap Times
        BY <3>3
      <4> QED
        BY <4>1, <4>2, <4>3, TimesFinite, SumRemove DEF Sums
    <3>6. /\ Sums(f, (s + 1)..b.resetAt) \in Nat /\ Sums(f, (n - Window)..(n - 1)) \in Nat
          /\ Sums(f, s..b.resetAt) \in Nat
      BY <1>1, SumsNat
    <3> QED
      BY <1>1, <3>2, <3>3, <3>4, <3>5, <3>6
  <2> QED
    BY <2>1, <2>2
<1>8. Sums(g, n..(n + Window)) = 1
  <2>1. Sums(f, n..(n + Window)) <= Sums(f, {})
    BY <1>1, <1>5, SumsCovered
  <2>2. n \in n..(n + Window) /\ Sums(f, n..(n + Window)) \in Nat
    BY <1>1, SumsNat
  <2> QED
    <3>1. Sums(g, n..(n + Window)) = Sums(f, n..(n + Window)) + 1
      BY <1>12, <2>2
    <3> QED
      BY <1>6, <2>1, <2>2, <3>1
<1>9. Sums(g, (n - Window)..(n - 1)) < PerWindow
  <2>1. n \notin (n - Window)..(n - 1)
    BY <1>1
  <2> QED
    BY <1>7, <1>12, <2>1
<1>10. ASSUME NEW t \in Times
       PROVE  Sums(g, t..(t + Window)) <= Most
  <2>1. t \in Nat /\ Sums(f, t..(t + Window)) \in Nat
    BY <1>1, SumsNat
  <2>2. CASE n \in t..(t + Window)
    <3>1. \A m \in (t..(t + Window) \cap Times) \ ((n - Window)..(n - 1)) : f[m] = 0
      BY <1>1, <1>5, <2>1, <2>2
    <3>2. Sums(f, t..(t + Window)) <= Sums(f, (n - Window)..(n - 1))
      BY <1>1, <3>1, SumsCovered
    <3>3. Sums(f, (n - Window)..(n - 1)) \in Nat
      BY <1>1, SumsNat
    <3> QED
      <4>1. Sums(g, t..(t + Window)) = Sums(f, t..(t + Window)) + 1
        BY <1>12, <2>2
      <4> QED
        BY <1>1, <1>7, <2>1, <3>2, <3>3, <4>1
  <2>3. CASE n \notin t..(t + Window)
    <3>1. Sums(f, t..(t + Window)) <= Most
      BY DEF ClientSound
    <3> QED
      BY <1>12, <2>3, <3>1
  <2> QED
    BY <2>2, <2>3
<1>11. ClientSound(g, d, n)
  <2>1. d.count = 1 /\ d.resetAt = n + Window
    BY <1>3
  <2>2. \A t \in Times : t > n => g[t] = 0
    BY <1>1, <1>4, <1>5
  <2>3. \A t \in Times : t > d.resetAt => g[t] = 0
    BY <1>1, <2>1, <2>2
  <2>4. d.resetAt - Window = n /\ n \in 0..n
    BY <1>1, <2>1
  <2>5. Sums(g, (d.resetAt - Window)..d.resetAt) =
           IF d.count < PerWindow THEN d.count ELSE PerWindow
    BY <1>1, <1>8, <2>1, <2>4
  <2>6. Sums(g, (d.resetAt - Window - Window)..(d.resetAt - Window - 1)) < PerWindow
    BY <1>9, <2>4
  <2>7. d.count \in Nat /\ d.count > 0 /\ d.resetAt \in Int
    BY <1>1, <2>1
  <2> QED
    BY <1>4, <1>10, <2>2, <2>3, <2>4, <2>5, <2>6, <2>7 DEF ClientSound
<1> QED
  BY <1>2, <1>3, <1>11

\* A further request of the window: only a limit above 1 lets it in.
LEMMA WindowGoesOn ==
  ASSUME NEW f, NEW b, NEW n \in Times, ClientSound(f, b, n), ~(n > b.resetAt), b.count < Limit
  PROVE  ClientSound([f EXCEPT ![n] = @ + 1],
                     [count |-> b.count + 1, resetAt |-> b.resetAt], n)
<1>1. /\ f \in [Times -> Nat] /\ n \in Nat /\ Window \in Nat \ {0} /\ Times \subseteq Nat
      /\ Limit \in Int /\ b.count \in Nat /\ b.resetAt \in Int
  BY LimiterAssumption DEF ClientSound, Times
<1>2. PICK s : s = b.resetAt - Window
  OBVIOUS
<1>3. /\ s \in 0..n /\ b.count > 0 /\ f[s] > 0 /\ s \in Int
      /\ \A t \in Times : t > b.resetAt => f[t] = 0
      /\ Sums(f, s..b.resetAt) = IF b.count < PerWindow THEN b.count ELSE PerWindow
      /\ Sums(f, (s - Window)..(s - 1)) < PerWindow
  <2>1. b # NoBucket
    BY <1>1 DEF NoBucket
  <2> QED
    BY <1>2, <2>1 DEF ClientSound
<1>13. n >= s /\ b.resetAt = s + Window
  <2>1. PICK x, w : x = b.resetAt /\ w = Window
    OBVIOUS
  <2>2. x \in Int /\ w \in Int /\ s = x - w
    BY <1>1, <1>2, <2>1
  <2>3. x = s + w
    BY <2>2
  <2> QED
    BY <1>1, <1>3, <2>1, <2>3
<1>4. PerWindow = Limit /\ Most = 2 * Limit - 1 /\ Limit > 1
  BY <1>1, <1>3 DEF PerWindow, Most
<1>5. PICK g : g = [f EXCEPT ![n] = @ + 1]
  OBVIOUS
<1>6. PICK d : d = [count |-> b.count + 1, resetAt |-> b.resetAt]
  OBVIOUS
<1>7. /\ g \in [Times -> Nat]
      /\ \A t \in Times : g[t] = IF t = n THEN f[n] + 1 ELSE f[t]
  <2>1. f[n] \in Nat
    BY <1>1
  <2> QED
    BY <1>1, <1>5, <2>1
<1>12. ASSUME NEW S
       PROVE  /\ n \in S => Sums(g, S) = Sums(f, S) + 1
              /\ n \notin S => Sums(g, S) = Sums(f, S)
  <2>1. Sums(g, S) = Sums(f, S) + (IF n \in S THEN 1 ELSE 0) /\ Sums(f, S) \in Nat
    BY <1>1, <1>5, SumsOneMore, SumsNat
  <2> QED
    BY <2>1
<1>8. Sums(g, s..b.resetAt) = b.count + 1
  <2>1. n \in s..b.resetAt
    BY <1>1, <1>3
  <2> QED
    <3>1. Sums(g, s..b.resetAt) = Sums(f, s..b.resetAt) + 1
      BY <1>12, <2>1
    <3> QED
      BY <1>1, <1>3, <1>4, <3>1
<1>9. Sums(g, (s - Window)..(s - 1)) < PerWindow
  <2>1. n \notin (s - Window)..(s - 1)
    BY <1>1, <1>3
  <2> QED
    BY <1>3, <1>12, <2>1
<1>10. ASSUME NEW t \in Times
       PROVE  Sums(g, t..(t + Window)) <= Most
  <2>1. t \in Nat /\ Sums(f, t..(t + Window)) \in Nat
    BY <1>1, SumsNat
  <2>2. CASE n \in t..(t + Window)
    <3> DEFINE A == (s - Window)..(s - 1)
               B == s..b.resetAt
    <3>1. (A \cap Times) \cap (B \cap Times) = {}
      BY <1>1, <1>3
    <3>2. Sums(g, A \cup B) = Sums(g, A) + Sums(g, B)
      <4>1. (A \cup B) \cap Times = (A \cap Times) \cup (B \cap Times)
        OBVIOUS
      <4>2. \A m \in (A \cap Times) \cup (B \cap Times) : g[m] \in Int
        BY <1>7
      <4>3. PICK P, Q : P = A \cap Times /\ Q = B \cap Times
        OBVIOUS
      <4> HIDE DEF A, B
      <4>4. IsFiniteSet(P) /\ IsFiniteSet(Q) /\ P \cap Q = {}
        BY <3>1, <4>3, TimesFinite
      <4>5. \A m \in P \cup Q : g[m] \in Int
        BY <4>2, <4>3
      <4>6. SumFunctionOnSet(g, P \cup Q) = SumFunctionOnSet(g, P) + SumFunctionOnSet(g, Q)
        BY <4>4, <4>5, SumUnion
      <4> QED
        BY <4>1, <4>3, <4>6 DEF Sums
    <3>3. \A m \in (t..(t + Window) \cap Times) \ (A \cup B) : g[m] = 0
      <4> SUFFICES ASSUME NEW m \in t..(t + Window), m \in Times, m \notin A, m \notin B
                   PROVE  g[m] = 0
        OBVIOUS
      <4>1. m > b.resetAt
        <5>1. m \in Nat /\ m <= t + Window /\ t <= n /\ n <= t + Window
          BY <1>1, <2>1, <2>2
        <5>2. ~(m >= s /\ m <= b.resetAt) /\ ~(m >= s - Window /\ m <= s - 1)
          BY <1>1, <1>3, <5>1
        <5>3. m >= t
          BY <2>1
        <5> QED
          <6>1. t \in Int /\ m \in Int /\ n >= s /\ b.resetAt = s + Window /\ Window \in Nat
            <7>1. t \in Int /\ m \in Int /\ Window \in Nat
              BY <1>1, <2>1, <5>1
            <7> QED
              BY <1>13, <7>1
          <6>2. m >= s - Window
            BY <1>1, <1>3, <5>1, <5>3, <6>1
          <6>3. m >= s
            BY <1>3, <5>2, <6>1, <6>2
          <6> QED
            BY <1>1, <1>3, <5>2, <6>1, <6>3
      <4>2. m # n
        BY <1>1, <4>1
      <4> QED
        BY <1>3, <1>7, <4>1, <4>2
    <3>4. Sums(g, t..(t + Window)) <= Sums(g, A \cup B)
      BY <1>7, <3>3, SumsCovered
    <3>5. Sums(g, t..(t + Window)) \in Nat /\ Sums(g, A) \in Nat
      BY <1>7, SumsNat
    <3>6. Sums(g, A) < Limit /\ Sums(g, B) <= Limit /\ Sums(g, B) \in Int
      <4>1. Sums(g, A) < Limit
        BY <1>4, <1>9
      <4>2. Sums(g, B) = b.count + 1
        BY <1>8
      <4> HIDE DEF A, B
      <4> QED
        BY <1>1, <4>1, <4>2
    <3> HIDE DEF A, B
    <3> QED
      BY <1>1, <1>4, <3>2, <3>4, <3>5, <3>6
  <2>3. CASE n \notin t..(t + Window)
    <3>1. Sums(f, t..(t + Window)) <= Most
      BY DEF ClientSound
    <3> QED
      BY <1>12, <2>3, <3>1
  <2> QED
    BY <2>2, <2>3
<1>11. ClientSound(g, d, n)
  <2>1. d.count = b.count + 1 /\ d.resetAt = b.resetAt
    BY <1>6
  <2>2. \A t \in Times : t > n => g[t] = 0
    BY <1>1, <1>7 DEF ClientSound
  <2>3. \A t \in Times : t > d.resetAt => g[t] = 0
    <3> SUFFICES ASSUME NEW t \in Times, t > b.resetAt PROVE g[t] = 0
      BY <2>1
    <3>1. t # n
      BY <1>1
    <3>2. f[t] = 0
      BY <1>3
    <3> QED
      BY <1>7, <3>1, <3>2
  <2>4. d.resetAt - Window = s /\ s \in Times /\ g[s] > 0
    <3>1. s \in Times
      BY <1>1, <1>3, LimiterAssumption DEF Times
    <3>2. f[s] \in Nat /\ f[n] \in Nat
      BY <1>1, <3>1
    <3> QED
      BY <1>2, <1>3, <1>7, <2>1, <3>1, <3>2
  <2>5. Sums(g, s..d.resetAt) = IF d.count < PerWindow THEN d.count ELSE PerWindow
    BY <1>1, <1>4, <1>8, <2>1
  <2>6. d.count \in Nat /\ d.count > 0 /\ d.resetAt \in Int
    BY <1>1, <2>1
  <2> QED
    BY <1>3, <1>7, <1>9, <1>10, <2>2, <2>3, <2>4, <2>5, <2>6 DEF ClientSound
<1> QED
  BY <1>5, <1>6, <1>11

\* A refused request is only counted, past the limit.
LEMMA WindowRefuses ==
  ASSUME NEW f, NEW b, NEW n \in Times, ClientSound(f, b, n), ~(n > b.resetAt), b.count >= Limit,
         NEW count \in Nat, count >= b.count
  PROVE  ClientSound(f, [count |-> count, resetAt |-> b.resetAt], n)
<1>1. PICK d : d = [count |-> count, resetAt |-> b.resetAt]
  OBVIOUS
<1>2. d.count = count /\ d.resetAt = b.resetAt
  BY <1>1
<1>3. n \in Nat /\ b.resetAt \in Int /\ b.count \in Nat /\ Limit \in Int
  BY LimiterAssumption DEF ClientSound, Times
<1>4. b # NoBucket
  BY <1>3 DEF NoBucket
<1>5. b.count > 0
  BY <1>4 DEF ClientSound
<1>6. PerWindow <= b.count /\ PerWindow <= count /\ PerWindow \in Int
  BY <1>3, <1>5 DEF PerWindow
<1>7. (IF b.count < PerWindow THEN b.count ELSE PerWindow) =
         (IF d.count < PerWindow THEN d.count ELSE PerWindow)
  BY <1>2, <1>3, <1>6
<1>8. d.count > 0
  BY <1>2, <1>3, <1>5
<1>9. ClientSound(f, d, n)
  BY <1>2, <1>4, <1>7, <1>8 DEF ClientSound
<1> QED
  BY <1>1, <1>9

LEMMA LimiterStarts == Init => LimiterSound
<1> SUFFICES ASSUME Init, NEW c \in Client
             PROVE  ClientSound(passed[c], bucket[c], now)
  BY LimiterAssumption DEF LimiterSound, Init, LimiterInit, Times
<1>1. PICK f : f = passed[c]
  OBVIOUS
<1>2. f \in [Times -> Nat] /\ (\A t \in Times : f[t] = 0) /\ bucket[c] = NoBucket
  BY <1>1 DEF Init, LimiterInit
<1>3. ASSUME NEW span
      PROVE  Sums(f, span) = 0
  BY <1>2, TimesFinite, SumZero DEF Sums
<1>4. Most \in Nat
  BY LimiterAssumption DEF Most
<1>5. NoBucket.count = 0 /\ NoBucket.resetAt = -1
  BY DEF NoBucket
<1> QED
  BY <1>1, <1>2, <1>3, <1>4, <1>5 DEF ClientSound

LEMMA LimiterMoves ==
  ASSUME LimiterSound, Tick \/ (\E c \in Client : Pass(c) \/ Refuse(c)) \/ UNCHANGED limiter
  PROVE  LimiterSound'
<1>1. CASE UNCHANGED limiter
  BY <1>1 DEF limiter, LimiterSound
<1>2. CASE Tick
  <2>1. now' \in Times /\ now' > now /\ UNCHANGED <<bucket, passed>> /\ now \in Nat /\ now' \in Nat
    BY <1>2, LimiterAssumption DEF Tick, LimiterSound, Times
  <2>2. ASSUME NEW c \in Client
        PROVE  ClientSound(passed[c], bucket[c], now')
    <3>1. ClientSound(passed[c], bucket[c], now)
      BY DEF LimiterSound
    <3>2. \A t \in Times : t > now' => t > now
      BY <2>1 DEF Times
    <3>3. 0..now \subseteq 0..now'
      BY <2>1
    <3> QED
      BY <3>1, <3>2, <3>3 DEF ClientSound
  <2> QED
    BY <2>1, <2>2 DEF LimiterSound
<1>3. ASSUME NEW c \in Client, Pass(c) \/ Refuse(c),
             ClientSound(passed'[c], bucket'[c], now)
      PROVE  LimiterSound'
  <2>1. /\ now' = now /\ DOMAIN bucket' = Client /\ DOMAIN passed' = Client
        /\ \A d \in Client : d # c => bucket'[d] = bucket[d] /\ passed'[d] = passed[d]
    BY <1>3 DEF Pass, Refuse, LimiterSound
  <2> QED
    BY <1>3, <2>1 DEF LimiterSound
<1>4. ASSUME NEW c \in Client, Pass(c) \/ Refuse(c)
      PROVE  ClientSound(passed'[c], bucket'[c], now)
  <2>1. PICK f, b : f = passed[c] /\ b = bucket[c]
    OBVIOUS
  <2>2. ClientSound(f, b, now) /\ now \in Times /\ b.count \in Nat /\ b.resetAt \in Int
    BY <2>1 DEF LimiterSound, ClientSound
  <2>3. bucket'[c] = Counted(b)
    BY <1>4, <2>1 DEF Pass, Refuse, LimiterSound
  <2>4. CASE Pass(c)
    <3>1. passed'[c] = [f EXCEPT ![now] = @ + 1] /\ LetsIn(b)
      BY <2>1, <2>4 DEF Pass, LimiterSound
    <3>2. CASE now > b.resetAt
      BY <2>2, <2>3, <3>1, <3>2, WindowOpens DEF Counted, Expired
    <3>3. CASE ~(now > b.resetAt)
      <4>1. b.count < Limit
        BY <3>1, <3>3 DEF LetsIn, Expired
      <4>2. ~(b.count > Limit)
        BY <2>2, <4>1, LimiterAssumption
      <4> QED
        BY <2>2, <2>3, <3>1, <3>3, <4>1, <4>2, WindowGoesOn DEF Counted, Expired
    <3> QED
      BY <3>2, <3>3
  <2>5. CASE Refuse(c)
    <3>1. passed'[c] = f /\ ~LetsIn(b)
      BY <2>1, <2>5 DEF Refuse, LimiterSound
    <3>2. ~(now > b.resetAt) /\ ~(b.count < Limit)
      BY <3>1 DEF LetsIn, Expired
    <3>3. PICK count : count = IF b.count > Limit THEN b.count ELSE b.count + 1
      OBVIOUS
    <3>4. count \in Nat /\ count >= b.count /\ b.count >= Limit
      BY <2>2, <3>2, <3>3, LimiterAssumption
    <3>5. Counted(b) = [count |-> count, resetAt |-> b.resetAt]
      BY <3>2, <3>3 DEF Counted, Expired
    <3> QED
      BY <2>2, <2>3, <3>1, <3>2, <3>4, <3>5, WindowRefuses
  <2> QED
    BY <1>4, <2>4, <2>5
<1> QED
  BY <1>1, <1>2, <1>3, <1>4

LEMMA LimiterStep == LimiterSound /\ [Next]_vars => LimiterSound'
<1> SUFFICES ASSUME LimiterSound, [Next]_vars PROVE LimiterSound'
  OBVIOUS
<1>1. Tick \/ (\E c \in Client : Pass(c) \/ Refuse(c)) \/ UNCHANGED limiter
  BY DEF Next, vars, TurnedAway, Arrive, LoginArrives, RegisterArrives, UpdateStart, Proceed,
     RegisterLookup, RegisterInsert, Login, UpdateWrite, Fail
<1> QED
  BY <1>1, LimiterMoves

\* In any span of one window's length fewer than twice the limit get through, and
\* whoever is refused has been let in up to the limit within the last window: for
\* every limit, also one that is not positive, and any clients and lengths.
THEOREM LimiterIsHonest == Spec => []LimiterHonest
<1>1. LimiterSound => SpanBound
  BY DEF LimiterSound, ClientSound, SpanBound, PassedDuring, Sums, Most
<1>2. LimiterSound => NoFalseRefusal
  <2> SUFFICES ASSUME LimiterSound, NEW c \in Client, ~LetsIn(bucket[c])
               PROVE  PassedDuring(c, (now - Window)..now) >= Limit
    BY DEF NoFalseRefusal
  <2>1. PICK f, b : f = passed[c] /\ b = bucket[c]
    OBVIOUS
  <2>2. /\ ClientSound(f, b, now) /\ now \in Nat /\ Window \in Nat /\ Limit \in Int
        /\ b.resetAt \in Int /\ b.count \in Nat
        /\ ~(now > b.resetAt) /\ ~(b.count < Limit)
    <3>1. ClientSound(f, b, now) /\ now \in Times /\ ~LetsIn(b)
      BY <2>1 DEF LimiterSound
    <3>2. b.resetAt \in Int /\ b.count \in Nat
      BY <3>1 DEF ClientSound
    <3>3. ~(now > b.resetAt) /\ ~(b.count < Limit)
      BY <3>1 DEF LetsIn, Expired
    <3> QED
      BY <3>1, <3>2, <3>3, LimiterAssumption DEF Times
  <2>3. PICK s : s = b.resetAt - Window
    OBVIOUS
  <2>4. b # NoBucket
    BY <2>2 DEF NoBucket
  <2>5. /\ f \in [Times -> Nat] /\ s \in 0..now /\ b.count > 0
        /\ Sums(f, s..b.resetAt) = IF b.count < PerWindow THEN b.count ELSE PerWindow
        /\ \A t \in Times : t > now => f[t] = 0
    BY <2>2, <2>3, <2>4 DEF ClientSound
  <2>6. Sums(f, s..b.resetAt) >= Limit
    BY <2>2, <2>5 DEF PerWindow
  <2>7. Sums(f, s..b.resetAt) <= Sums(f, (now - Window)..now)
    <3>1. \A t \in (s..b.resetAt \cap Times) \ ((now - Window)..now) : f[t] = 0
      <4> SUFFICES ASSUME NEW t \in s..b.resetAt, t \in Times, t \notin (now - Window)..now
                   PROVE  f[t] = 0
        OBVIOUS
      <4>1. t > now
        BY <2>2, <2>3, <2>5
      <4> QED
        BY <2>5, <4>1
    <3> QED
      BY <2>5, <3>1, SumsCovered
  <2>8. Sums(f, (now - Window)..now) >= Limit
    <3>1. Sums(f, s..b.resetAt) \in Nat /\ Sums(f, (now - Window)..now) \in Nat
      BY <2>5, SumsNat
    <3> QED
      BY <2>2, <2>6, <2>7, <3>1
  <2> QED
    BY <2>1, <2>8 DEF PassedDuring, Sums
<1>3. LimiterSound => LimiterHonest
  BY <1>1, <1>2 DEF LimiterHonest
<1> QED
  BY <1>3, LimiterStarts, LimiterStep, PTL DEF Spec

=============================================================================
