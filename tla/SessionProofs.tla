---------------------------- MODULE SessionProofs ----------------------------
(***************************************************************************)
(* Proofs about Session for any tabs, requests in flight, accounts and     *)
(* tokens.  As long as nothing came late and nobody crossed, at most one   *)
(* tab is in the middle of its two storage accesses, and nobody else has   *)
(* touched the key it has already read or written (SessionSound).          *)
(***************************************************************************)
EXTENDS Session, TLAPS

Sessions == [token : Issued \cup {None}, user : Account \cup {None}]

Tabs == [token : Issued \cup {None}, user : Account \cup {None}, page : Page,
         pc : {"idle", "load_user", "save_token", "save_user"}]

Calls == [kind : {"none", "login", "restore", "refresh"}, token : Issued \cup {None},
          account : Account \cup {None}, good : BOOLEAN]

\* A request whose token was good was sent with one; a login names an account.
CallsSound ==
    \A t \in Tab, s \in Slot :
        /\ call[t][s].good => call[t][s].token \in Issued
        /\ call[t][s].kind = "login" => call[t][s].account \in Account

\* Between the two keys.
Midway(t) == tab[t].pc \in {"load_user", "save_user"}

SessionSound ==
    ~late /\ ~crossed =>
        /\ \A t \in Tab, u \in Tab : Midway(t) /\ Midway(u) => t = u
        /\ \A t \in Tab : Midway(t) => storage.token = tab[t].token
        /\ (\A t \in Tab : tab[t].pc # "save_user") => Coherent(storage)
        /\ \A t \in Tab : tab[t].pc # "load_user" => Coherent(tab[t])

IInv ==
    /\ TypeOK
    /\ CallsSound
    /\ SessionSound
    /\ AdminPageHonest

-----------------------------------------------------------------------------
(* Domains.                                                                 *)

LEMMA Apart ==
  /\ None \notin Token /\ None \notin Issued /\ None \notin Account /\ Issued \subseteq Token
BY SessionAssumption DEF Token, Issued

LEMMA Types ==
  ASSUME TypeOK
  PROVE  /\ storage \in Sessions /\ tab \in [Tab -> Tabs]
         /\ call \in [Tab -> [Slot -> Calls]]
         /\ owner \in [Token -> Account \cup {None}] /\ expired \subseteq Issued
BY DEF TypeOK, Sessions, Tabs, Calls

LEMMA TypesBack ==
  ASSUME storage' \in Sessions', tab' \in [Tab -> Tabs'], call' \in [Tab -> [Slot -> Calls']],
         owner' \in [Token -> Account \cup {None}], expired' \subseteq Issued'
  PROVE  TypeOK'
BY DEF TypeOK, Sessions, Tabs, Calls

LEMMA FreeFacts == Free \in Calls /\ ~Free.good /\ Free.kind = "none"
BY DEF Free, Calls

LEMMA RequestFacts ==
  ASSUME NEW kind \in {"login", "restore", "refresh"}, NEW token \in Issued \cup {None},
         NEW account \in Account \cup {None}
  PROVE  /\ Request(kind, token, account) \in Calls
         /\ Request(kind, token, account).good => Request(kind, token, account).token \in Issued
         /\ Request(kind, token, account).kind = kind
         /\ Request(kind, token, account).account = account
<1>1. (token \in Issued \ expired) \in BOOLEAN
  OBVIOUS
<1>2. Request(kind, token, account) \in Calls
  BY <1>1 DEF Request, Calls
<1> QED
  BY <1>2 DEF Request

\* What an answer does, and what it answers.
LEMMA Answered ==
  ASSUME TypeOK, NEW t \in Tab, NEW s \in Slot, Deliver(t, s)
  PROVE  /\ tab[t].pc = "idle"
         /\ call' = [call EXCEPT ![t][s] = Free]
         /\ UNCHANGED expired
         /\ \/ /\ SignOut(t)
               /\ \/ call[t][s].kind = "login"
                  \/ call[t][s].token = None
                  \/ call[t][s].token \in expired
            \/ call[t][s].kind = "login" /\ SignIn(t, call[t][s].account)
            \/ call[t][s].good /\ TakeProfile(t, call[t][s])
            \/ UNCHANGED <<storage, tab, owner, late, crossed>>
<1>1. PICK answer \in Answers(call[t][s]) :
         \/ EndsSession(answer) /\ SignOut(t)
         \/ ~EndsSession(answer) /\ answer = "ok" /\
               IF call[t][s].kind = "login" THEN SignIn(t, call[t][s].account)
               ELSE TakeProfile(t, call[t][s])
         \/ /\ ~EndsSession(answer) /\ answer = "error"
            /\ UNCHANGED <<storage, tab, owner, late, crossed>>
  BY DEF Deliver
<1>2. answer = "401" => \/ call[t][s].kind = "login"
                        \/ call[t][s].token = None
                        \/ call[t][s].token \in expired
  BY DEF Answers
<1>3. answer = "ok" => call[t][s].kind = "login" \/ call[t][s].good
  BY DEF Answers
<1> QED
  BY <1>1, <1>2, <1>3 DEF Deliver, EndsSession, Idle

-----------------------------------------------------------------------------
(* Types.                                                                   *)

\* No token is taken back.
LEMMA OwnersStay ==
  ASSUME TypeOK, [Next]_vars
  PROVE  /\ Issued \subseteq Issued' /\ owner' \in [Token -> Account \cup {None}]
         /\ \A n \in Issued : owner'[n] = owner[n]
<1>1. owner \in [Token -> Account \cup {None}]
  BY Types
<1>2. CASE UNCHANGED owner
  BY <1>1, <1>2 DEF Issued
<1>3. CASE \E t \in Tab, account \in Account \cup {None} : SignIn(t, account)
  BY <1>1, <1>3 DEF SignIn, Issued
<1>4. ASSUME NEW t \in Tab, NEW s \in Slot, Deliver(t, s), owner' # owner
      PROVE  \E account \in Account \cup {None} : SignIn(t, account)
  <2>1. call[t][s].account \in Account \cup {None}
    BY Types DEF Calls
  <2> QED
    BY <1>4, <2>1, Answered DEF SignOut, TakeProfile
<1> QED
  BY <1>2, <1>3, <1>4
     DEF Next, Act, vars, LoadToken, LoadUser, SaveToken, SaveUser, ClickLogout, Navigate,
         Send, Lose, Expire


Sound(c) == (c.good => c.token \in Issued) /\ (c.kind = "login" => c.account \in Account)

\* Requests are sent, answered and dropped; none changes otherwise.
LEMMA CallsKeep ==
  ASSUME IInv, [Next]_vars,
         \/ UNCHANGED call
         \/ \E t \in Tab : call' = [call EXCEPT ![t] = [s \in Slot |-> Free]]
         \/ \E t \in Tab, s \in Slot, c \in Calls : Sound(c) /\ call' = [call EXCEPT ![t][s] = c]
  PROVE  call' \in [Tab -> [Slot -> Calls']] /\ CallsSound'
<1>1. Issued \subseteq Issued' /\ Calls \subseteq Calls'
  BY OwnersStay DEF IInv, Calls
<1>2. call \in [Tab -> [Slot -> Calls]] /\ CallsSound
  BY Types DEF IInv
<1>3. CASE UNCHANGED call
  BY <1>1, <1>2, <1>3 DEF CallsSound
<1>4. CASE \E t \in Tab : call' = [call EXCEPT ![t] = [s \in Slot |-> Free]]
  BY <1>1, <1>2, <1>4, FreeFacts DEF CallsSound
<1>5. CASE \E t \in Tab, s \in Slot, c \in Calls :
              Sound(c) /\ call' = [call EXCEPT ![t][s] = c]
  BY <1>1, <1>2, <1>5 DEF CallsSound, Sound
<1> QED
  BY <1>3, <1>4, <1>5

\* A session in its domain stays there.
LEMMA TabsKeep ==
  ASSUME TypeOK, [Next]_vars
  PROVE  Sessions \subseteq Sessions' /\ Tabs \subseteq Tabs'
BY OwnersStay DEF Sessions, Tabs

\* Who touches storage without crossing finds all others idle.
LEMMA TouchFacts ==
  ASSUME IInv, NEW t \in Tab, Touch(t), ~late, ~crossed'
  PROVE  /\ \A u \in Tab \ {t} : tab[u].pc = "idle"
         /\ Midway(t) => storage.token = tab[t].token
         /\ tab[t].pc # "save_user" => Coherent(storage)
         /\ \A u \in Tab : tab[u].pc # "load_user" => Coherent(tab[u])
BY DEF IInv, SessionSound, Touch, Midway

-----------------------------------------------------------------------------
(* The store.                                                               *)

LEMMA LoadTokenKeeps ==
  ASSUME IInv, NEW t \in Tab, LoadToken(t)
  PROVE  IInv'
<1>1. [Next]_vars
  BY DEF Next, Act
<1>2. /\ storage \in Sessions /\ tab \in [Tab -> Tabs]
      /\ owner \in [Token -> Account \cup {None}] /\ expired \subseteq Issued
  BY Types DEF IInv
<1>3. call' \in [Tab -> [Slot -> Calls']] /\ CallsSound'
  BY <1>1, CallsKeep DEF LoadToken
<1>4. tab'[t] \in Tabs /\ \A u \in Tab \ {t} : tab'[u] = tab[u]
  BY <1>2 DEF LoadToken, Tabs, Sessions, Page
<1>5. TypeOK'
  BY <1>1, <1>2, <1>3, <1>4, TabsKeep, TypesBack DEF IInv, LoadToken, Issued
<1>6. SessionSound'
  BY <1>2 DEF IInv, LoadToken, SessionSound, Midway, Touch, Coherent, Idle
<1>7. AdminPageHonest'
  BY <1>2 DEF IInv, LoadToken, AdminPageHonest, Touch
<1> QED
  BY <1>3, <1>5, <1>6, <1>7 DEF IInv

LEMMA LoadUserKeeps ==
  ASSUME IInv, NEW t \in Tab, LoadUser(t)
  PROVE  IInv'
<1>1. [Next]_vars
  BY DEF Next, Act
<1>2. /\ storage \in Sessions /\ tab \in [Tab -> Tabs] /\ call \in [Tab -> [Slot -> Calls]]
      /\ owner \in [Token -> Account \cup {None}] /\ expired \subseteq Issued
  BY Types DEF IInv
<1>3. call' \in [Tab -> [Slot -> Calls']] /\ CallsSound'
  <2>1. CASE UNCHANGED call
    BY <1>1, <2>1, CallsKeep
  <2>2. CASE \E s \in Slot : call' = [call EXCEPT ![t][s] = Request("restore", tab[t].token, None)]
    <3>1. tab[t].token \in Issued \cup {None}
      BY <1>2 DEF Tabs
    <3>2. /\ Request("restore", tab[t].token, None) \in Calls
          /\ Sound(Request("restore", tab[t].token, None))
      BY <3>1, RequestFacts DEF Sound
    <3> QED
      BY <1>1, <2>2, <3>2, CallsKeep
  <2> QED
    BY <2>1, <2>2 DEF LoadUser
<1>4. /\ tab'[t] = [token |-> tab[t].token, user |-> storage.user, page |-> tab[t].page, pc |-> "idle"]
      /\ \A u \in Tab \ {t} : tab'[u] = tab[u]
  BY <1>2 DEF LoadUser, Tabs
<1>5. tab' \in [Tab -> Tabs]
  BY <1>2, <1>4 DEF LoadUser, Tabs, Sessions
<1>6. TypeOK'
  BY <1>1, <1>2, <1>3, <1>5, TabsKeep, TypesBack DEF IInv, LoadUser, Issued
<1>7. UNCHANGED <<storage, owner, late>> /\ Touch(t) /\ (crossed => crossed') /\ tab[t].pc = "load_user"
  BY DEF LoadUser, Touch
<1>8. SessionSound'
  <2> SUFFICES ASSUME ~late, ~crossed'
               PROVE  SessionSound'
    BY <1>7 DEF SessionSound
  <2>1. /\ \A u \in Tab \ {t} : tab[u].pc = "idle" /\ Coherent(tab[u])
        /\ storage.token = tab[t].token /\ Coherent(storage)
    BY <1>7, TouchFacts DEF Midway
  <2> QED
    BY <2>1, <1>4, <1>7 DEF SessionSound, Midway, Coherent
<1>9. AdminPageHonest'
  BY <1>4, <1>7 DEF IInv, AdminPageHonest
<1> QED
  BY <1>3, <1>6, <1>8, <1>9 DEF IInv

LEMMA SaveTokenKeeps ==
  ASSUME IInv, NEW t \in Tab, SaveToken(t)
  PROVE  IInv'
<1>1. [Next]_vars
  BY DEF Next, Act
<1>2. /\ storage \in Sessions /\ tab \in [Tab -> Tabs] /\ call \in [Tab -> [Slot -> Calls]]
      /\ owner \in [Token -> Account \cup {None}] /\ expired \subseteq Issued
  BY Types DEF IInv
<1>3. call' \in [Tab -> [Slot -> Calls']] /\ CallsSound'
  BY <1>1, CallsKeep DEF SaveToken
<1>4. /\ tab'[t].token = tab[t].token /\ tab'[t].user = tab[t].user
      /\ tab'[t].page = tab[t].page /\ tab'[t].pc = "save_user"
      /\ \A u \in Tab \ {t} : tab'[u] = tab[u]
      /\ tab' \in [Tab -> Tabs]
  BY <1>2 DEF SaveToken, Tabs
<1>5. /\ storage' \in Sessions
      /\ storage'.token = tab[t].token /\ storage'.user = storage.user
  BY <1>2 DEF SaveToken, Sessions, Tabs
<1>6. TypeOK'
  BY <1>1, <1>2, <1>3, <1>4, <1>5, TabsKeep, TypesBack DEF IInv, SaveToken, Issued
<1>7. UNCHANGED <<owner, late>> /\ Touch(t) /\ (crossed => crossed') /\ tab[t].pc = "save_token"
  BY DEF SaveToken, Touch
<1>8. SessionSound'
  <2> SUFFICES ASSUME ~late, ~crossed'
               PROVE  SessionSound'
    BY <1>7 DEF SessionSound
  <2>1. /\ \A u \in Tab \ {t} : tab[u].pc = "idle" /\ Coherent(tab[u])
        /\ Midway(t) => storage.token = tab[t].token
        /\ Coherent(tab[t])
    BY <1>7, TouchFacts
  <2> QED
    BY <2>1, <1>4, <1>5, <1>7 DEF SessionSound, Midway, Coherent
<1>9. AdminPageHonest'
  BY <1>4, <1>7 DEF IInv, AdminPageHonest
<1> QED
  BY <1>3, <1>6, <1>8, <1>9 DEF IInv

LEMMA SaveUserKeeps ==
  ASSUME IInv, NEW t \in Tab, SaveUser(t)
  PROVE  IInv'
<1>1. [Next]_vars
  BY DEF Next, Act
<1>2. /\ storage \in Sessions /\ tab \in [Tab -> Tabs] /\ call \in [Tab -> [Slot -> Calls]]
      /\ owner \in [Token -> Account \cup {None}] /\ expired \subseteq Issued
  BY Types DEF IInv
<1>3. call' \in [Tab -> [Slot -> Calls']] /\ CallsSound'
  BY <1>1, CallsKeep DEF SaveUser
<1>4. /\ tab'[t].token = tab[t].token /\ tab'[t].user = tab[t].user
      /\ tab'[t].page = tab[t].page /\ tab'[t].pc = "idle"
      /\ \A u \in Tab \ {t} : tab'[u] = tab[u]
      /\ tab' \in [Tab -> Tabs]
  BY <1>2 DEF SaveUser, Tabs
<1>5. /\ storage' \in Sessions
      /\ storage'.token = storage.token /\ storage'.user = tab[t].user
  BY <1>2 DEF SaveUser, Sessions, Tabs
<1>6. TypeOK'
  BY <1>1, <1>2, <1>3, <1>4, <1>5, TabsKeep, TypesBack DEF IInv, SaveUser, Issued
<1>7. UNCHANGED <<owner, late>> /\ Touch(t) /\ (crossed => crossed') /\ tab[t].pc = "save_user"
  BY DEF SaveUser, Touch
<1>8. SessionSound'
  <2> SUFFICES ASSUME ~late, ~crossed'
               PROVE  SessionSound'
    BY <1>7 DEF SessionSound
  <2>1. /\ \A u \in Tab \ {t} : tab[u].pc = "idle" /\ Coherent(tab[u])
        /\ Midway(t) => storage.token = tab[t].token
        /\ Coherent(tab[t])
    BY <1>7, TouchFacts
  <2> QED
    BY <2>1, <1>4, <1>5, <1>7 DEF SessionSound, Midway, Coherent
<1>9. AdminPageHonest'
  BY <1>4, <1>7 DEF IInv, AdminPageHonest
<1> QED
  BY <1>3, <1>6, <1>8, <1>9 DEF IInv

LEMMA ClickLogoutKeeps ==
  ASSUME IInv, NEW t \in Tab, ClickLogout(t)
  PROVE  IInv'
<1>1. [Next]_vars
  BY DEF Next, Act
<1>2. /\ storage \in Sessions /\ tab \in [Tab -> Tabs] /\ call \in [Tab -> [Slot -> Calls]]
      /\ owner \in [Token -> Account \cup {None}] /\ expired \subseteq Issued
  BY Types DEF IInv
<1>3. call' \in [Tab -> [Slot -> Calls']] /\ CallsSound'
  BY <1>1, CallsKeep DEF ClickLogout
<1>4. /\ tab'[t] = [token |-> None, user |-> None, page |-> "open", pc |-> "save_token"]
      /\ \A u \in Tab \ {t} : tab'[u] = tab[u]
      /\ tab' \in [Tab -> Tabs]
  BY <1>2 DEF ClickLogout, Tabs, Page
<1>5. TypeOK'
  BY <1>1, <1>2, <1>3, <1>4, TabsKeep, TypesBack DEF IInv, ClickLogout, Issued
<1>6. SessionSound'
  BY <1>2, <1>4 DEF IInv, ClickLogout, SessionSound, Midway, Coherent, Idle
<1>7. AdminPageHonest'
  BY <1>2, <1>4 DEF IInv, ClickLogout, AdminPageHonest
<1> QED
  BY <1>3, <1>5, <1>6, <1>7 DEF IInv

\* The guard lets in who shows an administrator; by SessionSound he is one.
LEMMA NavigateKeeps ==
  ASSUME IInv, NEW t \in Tab, NEW page \in Page, Navigate(t, page)
  PROVE  IInv'
<1>1. [Next]_vars
  BY DEF Next, Act
<1>2. /\ storage \in Sessions /\ tab \in [Tab -> Tabs] /\ call \in [Tab -> [Slot -> Calls]]
      /\ owner \in [Token -> Account \cup {None}] /\ expired \subseteq Issued
  BY Types DEF IInv
<1>3. call' \in [Tab -> [Slot -> Calls']] /\ CallsSound'
  BY <1>1, CallsKeep DEF Navigate
<1>4. /\ tab'[t].token = tab[t].token /\ tab'[t].user = tab[t].user /\ tab'[t].pc = "idle"
      /\ tab'[t].page = IF Allowed(t, page) THEN page ELSE "open"
      /\ \A u \in Tab \ {t} : tab'[u] = tab[u]
      /\ tab' \in [Tab -> Tabs]
  BY <1>2 DEF Navigate, Tabs, Page, Idle
<1>5. TypeOK'
  BY <1>1, <1>2, <1>3, <1>4, TabsKeep, TypesBack DEF IInv, Navigate, Issued
<1>6. SessionSound'
  BY <1>2, <1>4 DEF IInv, Navigate, SessionSound, Midway, Coherent, Idle
<1>7. AdminPageHonest'
  BY <1>2, <1>4 DEF IInv, Navigate, AdminPageHonest, SessionSound, Allowed, Coherent, Idle
<1> QED
  BY <1>3, <1>5, <1>6, <1>7 DEF IInv

-----------------------------------------------------------------------------
(* Requests and answers.                                                    *)

\* Nothing but the requests in flight, or the tokens' age, changes.
LEMMA QuietKeeps ==
  ASSUME IInv, [Next]_vars, UNCHANGED <<storage, tab, owner, late, crossed>>,
         expired' \subseteq Issued,
         \/ UNCHANGED call
         \/ \E t \in Tab, s \in Slot, c \in Calls : Sound(c) /\ call' = [call EXCEPT ![t][s] = c]
  PROVE  IInv'
<1>1. /\ storage \in Sessions /\ tab \in [Tab -> Tabs]
      /\ owner \in [Token -> Account \cup {None}] /\ Issued' = Issued
  BY Types DEF IInv, Issued
<1>2. call' \in [Tab -> [Slot -> Calls']] /\ CallsSound'
  BY CallsKeep
<1>3. TypeOK'
  BY <1>1, <1>2, TabsKeep, TypesBack DEF IInv
<1>4. SessionSound' /\ AdminPageHonest'
  BY DEF IInv, SessionSound, Midway, Coherent, AdminPageHonest
<1> QED
  BY <1>2, <1>3, <1>4 DEF IInv

LEMMA SendKeeps ==
  ASSUME IInv, NEW t \in Tab, NEW s \in Slot,
         \/ \E account \in Account : Send(t, s, Request("login", None, account))
         \/ Send(t, s, Request("refresh", tab[t].token, None))
  PROVE  IInv'
<1>1. [Next]_vars
  BY DEF Next, Act
<1>2. tab[t].token \in Issued \cup {None} /\ expired \subseteq Issued
  BY Types DEF IInv, Tabs
<1>3. \E c \in Calls : Sound(c) /\ Send(t, s, c)
  <2>1. ASSUME NEW account \in Account, Send(t, s, Request("login", None, account))
        PROVE  \E c \in Calls : Sound(c) /\ Send(t, s, c)
    BY <2>1, RequestFacts DEF Sound
  <2>2. ASSUME Send(t, s, Request("refresh", tab[t].token, None))
        PROVE  \E c \in Calls : Sound(c) /\ Send(t, s, c)
    BY <1>2, <2>2, RequestFacts DEF Sound
  <2> QED
    BY <2>1, <2>2
<1> QED
  BY <1>1, <1>2, <1>3, QuietKeeps DEF Send

LEMMA LoseKeeps ==
  ASSUME IInv, NEW t \in Tab, NEW s \in Slot, Lose(t, s)
  PROVE  IInv'
<1>1. [Next]_vars
  BY DEF Next, Act
<1>2. Sound(Free) /\ Free \in Calls /\ expired \subseteq Issued
  BY FreeFacts, Types DEF Sound, IInv
<1> QED
  BY <1>1, <1>2, QuietKeeps DEF Lose

LEMMA ExpireKeeps ==
  ASSUME IInv, NEW n \in Token, Expire(n)
  PROVE  IInv'
<1>1. [Next]_vars
  BY DEF Next
<1>2. expired \subseteq Issued
  BY Types DEF IInv
<1> QED
  BY <1>1, <1>2, QuietKeeps DEF Expire

\* What the answers do to the tab that gets them.
LEMMA SignOutKeeps ==
  ASSUME IInv, [Next]_vars, NEW t \in Tab, tab[t].pc = "idle", SignOut(t),
         call' \in [Tab -> [Slot -> Calls']], CallsSound', UNCHANGED expired
  PROVE  IInv'
<1>1. /\ storage \in Sessions /\ tab \in [Tab -> Tabs]
      /\ owner \in [Token -> Account \cup {None}] /\ expired \subseteq Issued
  BY Types DEF IInv
<1>2. /\ tab'[t].token = None /\ tab'[t].user = None /\ tab'[t].pc = "save_token"
      /\ \A u \in Tab \ {t} : tab'[u] = tab[u]
      /\ tab' \in [Tab -> Tabs]
  BY <1>1 DEF SignOut, Tabs
<1>3. UNCHANGED <<storage, owner, late, crossed>>
  BY DEF SignOut
<1>4. TypeOK'
  BY <1>1, <1>2, <1>3, TabsKeep, TypesBack DEF IInv, Issued
<1>5. SessionSound'
  BY <1>2, <1>3 DEF IInv, SessionSound, Midway, Coherent
<1>6. AdminPageHonest'
  BY <1>2, <1>3 DEF IInv, AdminPageHonest
<1> QED
  BY <1>4, <1>5, <1>6 DEF IInv

LEMMA SignInKeeps ==
  ASSUME IInv, [Next]_vars, NEW t \in Tab, NEW account \in Account, tab[t].pc = "idle",
         SignIn(t, account),
         call' \in [Tab -> [Slot -> Calls']], CallsSound', UNCHANGED expired
  PROVE  IInv'
<1>1. /\ storage \in Sessions /\ tab \in [Tab -> Tabs]
      /\ owner \in [Token -> Account \cup {None}] /\ expired \subseteq Issued
  BY Types DEF IInv
<1>2. PICK n \in Token :
         /\ owner' = [owner EXCEPT ![n] = account]
         /\ tab' = [tab EXCEPT ![t] = [token |-> n, user |-> account,
                                      page |-> "open", pc |-> "save_token"]]
  BY DEF SignIn
<1>3. n \in Issued' /\ owner'[n] = account /\ n # None
  BY <1>1, <1>2, Apart DEF Issued
<1>4. /\ tab'[t] = [token |-> n, user |-> account, page |-> "open", pc |-> "save_token"]
      /\ \A u \in Tab \ {t} : tab'[u] = tab[u]
  BY <1>1, <1>2
<1>5. /\ Issued \subseteq Issued' /\ owner' \in [Token -> Account \cup {None}]
      /\ \A m \in Issued : owner'[m] = owner[m]
  BY OwnersStay DEF IInv
<1>6. tab' \in [Tab -> Tabs']
  BY <1>1, <1>2, <1>3, <1>5, TabsKeep DEF IInv, Tabs, Page
<1>7. UNCHANGED <<storage, late, crossed>>
  BY DEF SignIn
<1>8. TypeOK'
  BY <1>1, <1>5, <1>6, <1>7, TabsKeep, TypesBack DEF IInv
<1>9. /\ Coherent(storage) => Coherent(storage)'
      /\ \A u \in Tab \ {t} : Coherent(tab[u]) => Coherent(tab[u])'
  BY <1>1, <1>4, <1>5, <1>7 DEF Coherent, Sessions, Tabs
<1>10. Coherent(tab[t])'
  BY <1>3, <1>4 DEF Coherent
<1>11. SessionSound'
  BY <1>4, <1>7, <1>9, <1>10 DEF IInv, SessionSound, Midway
<1>12. AdminPageHonest'
  BY <1>1, <1>4, <1>5, <1>7 DEF IInv, AdminPageHonest, Tabs
<1> QED
  BY <1>8, <1>11, <1>12 DEF IInv

LEMMA TakeProfileKeeps ==
  ASSUME IInv, [Next]_vars, NEW t \in Tab, NEW c \in Calls, c.token \in Issued,
         tab[t].pc = "idle", TakeProfile(t, c),
         call' \in [Tab -> [Slot -> Calls']], CallsSound', UNCHANGED expired
  PROVE  IInv'
<1>1. /\ storage \in Sessions /\ tab \in [Tab -> Tabs]
      /\ owner \in [Token -> Account \cup {None}] /\ expired \subseteq Issued
  BY Types DEF IInv
<1>2. owner[c.token] \in Account /\ c.token # None
  BY <1>1, Apart DEF Issued
<1>3. /\ tab'[t].token = tab[t].token /\ tab'[t].user = owner[c.token]
      /\ tab'[t].page = tab[t].page /\ tab'[t].pc = "idle"
      /\ \A u \in Tab \ {t} : tab'[u] = tab[u]
      /\ tab' \in [Tab -> Tabs]
  BY <1>1, <1>2 DEF TakeProfile, Tabs
<1>4. /\ UNCHANGED owner /\ (late => late')
      /\ ~late' => tab[t].token = c.token
  BY DEF TakeProfile
<1>5. \/ UNCHANGED <<storage, crossed>>
      \/ /\ Touch(t)
         /\ ~late' => storage.token = c.token
         /\ storage' \in Sessions
         /\ storage'.token = storage.token /\ storage'.user = owner[c.token]
  BY <1>1, <1>2 DEF TakeProfile, Sessions
<1>6. TypeOK'
  BY <1>1, <1>3, <1>4, <1>5, TabsKeep, TypesBack DEF IInv, Issued
<1>7. crossed => crossed'
  BY <1>5 DEF Touch
<1>8. SessionSound'
  <2> SUFFICES ASSUME ~late', ~crossed'
               PROVE  SessionSound'
    BY DEF SessionSound
  <2>1. Coherent(tab[t])'
    BY <1>2, <1>3, <1>4 DEF Coherent
  <2>2. CASE UNCHANGED <<storage, crossed>>
    <3>1. /\ \A u \in Tab, v \in Tab : Midway(u) /\ Midway(v) => u = v
          /\ \A u \in Tab : Midway(u) => storage.token = tab[u].token
          /\ (\A u \in Tab : tab[u].pc # "save_user") => Coherent(storage)
          /\ \A u \in Tab : tab[u].pc # "load_user" => Coherent(tab[u])
      BY <1>4, <2>2 DEF IInv, SessionSound
    <3>2. /\ Coherent(storage)' = Coherent(storage)
          /\ \A u \in Tab \ {t} : Coherent(tab[u])' = Coherent(tab[u])
      BY <1>3, <1>4, <2>2 DEF Coherent
    <3>3. \A u \in Tab : /\ tab'[u].pc = tab[u].pc /\ tab'[u].token = tab[u].token
                         /\ Midway(u)' = Midway(u)
      BY <1>3 DEF Midway
    <3> QED
      BY <2>1, <2>2, <3>1, <3>2, <3>3 DEF SessionSound
  <2>3. CASE ~(UNCHANGED <<storage, crossed>>)
    <3>1. \A u \in Tab \ {t} : tab[u].pc = "idle" /\ Coherent(tab[u])
      BY <1>4, <1>5, <2>3, TouchFacts
    <3>2. Coherent(storage)'
      BY <1>2, <1>4, <1>5, <2>3 DEF Coherent
    <3> QED
      BY <1>3, <1>4, <2>1, <3>1, <3>2 DEF SessionSound, Midway, Coherent
  <2> QED
    BY <2>2, <2>3
<1>9. AdminPageHonest'
  BY <1>3, <1>4, <1>7 DEF IInv, AdminPageHonest
<1> QED
  BY <1>6, <1>8, <1>9 DEF IInv

LEMMA DeliverKeeps ==
  ASSUME IInv, NEW t \in Tab, NEW s \in Slot, Deliver(t, s)
  PROVE  IInv'
<1>1. [Next]_vars
  BY DEF Next, Act
<1>2. Sound(Free) /\ Free \in Calls /\ expired \subseteq Issued
  BY FreeFacts, Types DEF Sound, IInv
<1>3. /\ tab[t].pc = "idle" /\ UNCHANGED expired
      /\ call' = [call EXCEPT ![t][s] = Free]
  BY Answered DEF IInv
<1>4. call' \in [Tab -> [Slot -> Calls']] /\ CallsSound'
  BY <1>1, <1>2, <1>3, CallsKeep
<1>5. call[t][s] \in Calls /\ Sound(call[t][s])
  BY Types DEF IInv, CallsSound, Sound
<1>6. CASE SignOut(t)
  BY <1>1, <1>3, <1>4, <1>6, SignOutKeeps
<1>7. CASE call[t][s].kind = "login" /\ SignIn(t, call[t][s].account)
  BY <1>1, <1>3, <1>4, <1>5, <1>7, SignInKeeps DEF Sound
<1>8. CASE call[t][s].good /\ TakeProfile(t, call[t][s])
  BY <1>1, <1>3, <1>4, <1>5, <1>8, TakeProfileKeeps DEF Sound
<1>9. CASE UNCHANGED <<storage, tab, owner, late, crossed>>
  BY <1>1, <1>2, <1>3, <1>9, QuietKeeps
<1> QED
  BY <1>6, <1>7, <1>8, <1>9, Answered DEF IInv

-----------------------------------------------------------------------------
(* The theorems.                                                            *)

LEMMA InitHolds == Init => IInv
<1> SUFFICES ASSUME Init PROVE IInv
  OBVIOUS
<1>1. /\ storage \in Sessions /\ tab \in [Tab -> Tabs] /\ call \in [Tab -> [Slot -> Calls]]
      /\ owner \in [Token -> Account \cup {None}] /\ expired \subseteq Issued
  BY FreeFacts DEF Init, SignedOut, Sessions, Tabs, Page
<1>2. TypeOK
  BY <1>1 DEF TypeOK, Sessions, Tabs, Calls
<1>3. CallsSound
  BY FreeFacts DEF Init, CallsSound
<1>4. SessionSound /\ AdminPageHonest
  BY DEF Init, SignedOut, SessionSound, Midway, Coherent, AdminPageHonest
<1> QED
  BY <1>2, <1>3, <1>4 DEF IInv

LEMMA NextKeeps == IInv /\ [Next]_vars => IInv'
<1> SUFFICES ASSUME IInv, [Next]_vars PROVE IInv'
  OBVIOUS
<1>1. CASE UNCHANGED vars
  <2>1. expired \subseteq Issued
    BY Types DEF IInv
  <2> QED
    BY <1>1, <2>1, QuietKeeps DEF vars
<1>2. ASSUME NEW t \in Tab, Act(t)
      PROVE  IInv'
  BY <1>2, LoadTokenKeeps, LoadUserKeeps, SaveTokenKeeps, SaveUserKeeps, ClickLogoutKeeps,
     NavigateKeeps, SendKeeps, DeliverKeeps, LoseKeeps DEF Act
<1>3. ASSUME NEW n \in Token, Expire(n)
      PROVE  IInv'
  BY <1>3, ExpireKeeps
<1> QED
  BY <1>1, <1>2, <1>3 DEF Next

LEMMA Invariance == Spec => []IInv
BY InitHolds, NextKeeps, PTL DEF Spec

\* Storage, tabs and requests keep to their domains, and every token a tab holds
\* or sends was issued by the server: authStore.ts and request.ts make up none.
THEOREM TypeCorrect == Spec => []TypeOK
<1>1. IInv => TypeOK
  BY DEF IInv
<1> QED
  BY <1>1, Invariance, PTL

\* However many tabs there are, each shows the user whose token it holds, unless a
\* profile came late or two tabs touched the two keys of authStore.ts at once.
THEOREM TabsAreCoherent == Spec => []SessionCoherent
<1>1. IInv => SessionCoherent
  BY DEF IInv, SessionSound, SessionCoherent, Idle
<1> QED
  BY <1>1, Invariance, PTL

\* A tab that the guards of guards.ts let onto an administrator's page acts with an
\* administrator's token, under the same proviso.
THEOREM AdminsOnly == Spec => []AdminPageHonest
<1>1. IInv => AdminPageHonest
  BY DEF IInv
<1> QED
  BY <1>1, Invariance, PTL

\* The interceptor of request.ts ends a good session only on the 401 of a request
\* that was not sent with it.
THEOREM OnlyStrangersThrowOut == Spec => NeverThrownOut
<1>1. IInv /\ [Next]_vars => [NotThrownOut]_vars
  <2> SUFFICES ASSUME IInv, [Next]_vars, NEW t \in Tab, NEW s \in Slot,
                      tab[t].token \in Issued \ expired,
                      tab'[t].token = None, tab'[t].pc = "save_token",
                      call[t][s] # Free, call'[t][s] = Free
               PROVE  \E q \in Slot :
                         /\ call[t][q] # Free /\ call'[t][q] = Free
                         /\ \/ call[t][q].kind = "login"
                            \/ call[t][q].token = None
                            \/ call[t][q].token \in expired
    BY DEF NotThrownOut
  <2>1. /\ tab \in [Tab -> Tabs] /\ call \in [Tab -> [Slot -> Calls]]
        /\ tab[t].token # None
    BY Types, Apart DEF IInv
  <2>2. \E q \in Slot : Deliver(t, q)
    <3>1. CASE UNCHANGED tab
      BY <2>1, <3>1
    <3>2. CASE UNCHANGED call
      BY <3>2
    <3>3. ASSUME NEW u \in Tab, LoadToken(u)
          PROVE  FALSE
      BY <2>1, <3>3 DEF LoadToken
    <3>4. ASSUME NEW u \in Tab, LoadUser(u)
          PROVE  FALSE
      BY <2>1, <3>4 DEF LoadUser, Tabs
    <3>5. ASSUME NEW u \in Tab, u # t, NEW q \in Slot, Deliver(u, q)
          PROVE  FALSE
      BY <2>1, <3>5, Answered DEF IInv
    <3> QED
      BY <3>1, <3>2, <3>3, <3>4, <3>5
         DEF Next, Act, vars, SaveToken, SaveUser, ClickLogout, Navigate, Send, Lose, Expire
  <2>3. PICK q \in Slot : Deliver(t, q)
    BY <2>2
  <2>4. \/ call[t][q].kind = "login" \/ call[t][q].token = None
        \/ call[t][q].token \in expired
    <3>1. CASE SignIn(t, call[t][q].account)
      BY <2>1, <3>1, Apart DEF SignIn
    <3>2. CASE TakeProfile(t, call[t][q])
      BY <2>1, <3>2 DEF TakeProfile, Tabs
    <3> QED
      BY <2>1, <2>3, <3>1, <3>2, Answered DEF IInv
  <2> QED
    BY <2>1, <2>3, <2>4, Answered DEF Deliver
<1> QED
  BY <1>1, Invariance, PTL DEF Spec, NeverThrownOut

=============================================================================
