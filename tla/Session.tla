------------------------------ MODULE Session ------------------------------
(***************************************************************************)
(* The signed-in session in the browser: authStore.ts, the interceptors of *)
(* request.ts, the route guards and the two pages that fetch a profile.    *)
(*                                                                         *)
(* The tabs of one browser share two localStorage keys, and each tab keeps *)
(* a copy that it reads only when it is loaded.  A tab runs one handler at *)
(* a time; another tab may read or write storage between the handler's     *)
(* accesses to the two keys.  Answers arrive whenever they like, also      *)
(* after the session they were asked for has gone.                         *)
(***************************************************************************)
EXTENDS Integers, FiniteSetsExt

CONSTANTS
    Tab,          \* tabs of one browser
    Slot,         \* places for a tab's requests in flight
    MaxInFlight,  \* bound: requests in flight from all tabs
    Account,      \* users of the site
    Admin,        \* those with role "admin"
    None,         \* '' for the token, null for the user
    MaxTokens     \* bound: tokens the server issues

ASSUME SessionAssumption ==
    /\ Admin \subseteq Account /\ None \notin Account /\ None \notin Nat
    /\ MaxTokens \in Nat /\ MaxInFlight \in Nat

VARIABLES
    storage,   \* localStorage: [token, user]
    tab,       \* [Tab -> [token, user, page, pc]]; pc is the storage access that is due
    call,      \* [Tab -> [Slot -> a request in flight, or Free]]
    owner,     \* the account each token was issued for, None before that
    expired,   \* tokens past their exp claim
    late,      \* history: a profile came for a token that tab or storage had replaced
    crossed    \* history: a tab touched storage while another was between the two keys

vars == <<storage, tab, call, owner, expired, late, crossed>>

Token == 1..MaxTokens
Issued == {n \in Token : owner[n] # None}
Free == [kind |-> "none", token |-> None, account |-> None, good |-> FALSE]

\* "good": the token would have been accepted when the request was sent.
Request(kind, token, account) ==
    [kind |-> kind, token |-> token, account |-> account, good |-> token \in Issued \ expired]

SignedOut == [token |-> None, user |-> None]

Init ==
    /\ storage = SignedOut
    /\ tab = [t \in Tab |-> [token |-> None, user |-> None, page |-> "open", pc |-> "idle"]]
    /\ call = [t \in Tab |-> [s \in Slot |-> Free]]
    /\ owner = [n \in Token |-> None]
    /\ expired = {}
    /\ late = FALSE
    /\ crossed = FALSE

\* Notes whether tab t touches storage in the middle of another's two accesses.
Touch(t) == crossed' = (crossed \/ \E u \in Tab \ {t} : tab[u].pc # "idle")

Idle(t) == tab[t].pc = "idle"

InFlight == {x \in Tab \X Slot : call[x[1]][x[2]] # Free}
HasRoom == Cardinality(InFlight) < MaxInFlight

-----------------------------------------------------------------------------
(* The store: two keys, one after the other                                 *)

\* The tab is opened or reloaded: what was in flight is gone, and the guard has
\* yet to let it in anywhere.
LoadToken(t) ==
    /\ Idle(t)
    /\ tab' = [tab EXCEPT ![t] = [token |-> storage.token, user |-> None,
                                  page |-> "open", pc |-> "load_user"]]
    /\ call' = [call EXCEPT ![t] = [s \in Slot |-> Free]]
    /\ Touch(t)
    /\ UNCHANGED <<storage, owner, expired, late>>

\* restore asks for the profile when a token came without a user.
LoadUser(t) ==
    /\ tab[t].pc = "load_user"
    /\ tab' = [tab EXCEPT ![t].user = storage.user, ![t].pc = "idle"]
    /\ IF tab[t].token # None /\ storage.user = None
       THEN \E s \in Slot :
                call' = [call EXCEPT ![t][s] = Request("restore", tab[t].token, None)]
       ELSE UNCHANGED call
    /\ Touch(t)
    /\ UNCHANGED <<storage, owner, expired, late>>

\* The user is left out of storage.
BugSaveUser(t) ==
    /\ tab[t].pc = "save_user"
    /\ tab' = [tab EXCEPT ![t].pc = "idle"]
    /\ Touch(t)
    /\ UNCHANGED <<storage, call, owner, expired, late>>

\* setSession's and logout's statements on storage; the memory is already set.
SaveToken(t) ==
    /\ tab[t].pc = "save_token"
    /\ storage' = [storage EXCEPT !.token = tab[t].token]
    /\ tab' = [tab EXCEPT ![t].pc = "save_user"]
    /\ Touch(t)
    /\ UNCHANGED <<call, owner, expired, late>>

SaveUser(t) ==
    /\ tab[t].pc = "save_user"
    /\ storage' = [storage EXCEPT !.user = tab[t].user]
    /\ tab' = [tab EXCEPT ![t].pc = "idle"]
    /\ Touch(t)
    /\ UNCHANGED <<call, owner, expired, late>>

\* App.vue's logout: signs out and goes to the open product list.
ClickLogout(t) ==
    /\ Idle(t) /\ tab[t].token # None
    /\ tab' = [tab EXCEPT ![t] = [token |-> None, user |-> None, page |-> "open",
                                  pc |-> "save_token"]]
    /\ UNCHANGED <<storage, call, owner, expired, late, crossed>>

-----------------------------------------------------------------------------
(* The route guards                                                         *)

\* A page that only asks whether somebody is signed in.
BugAllowed(t, page) == page = "open" \/ tab[t].token # None

\* Both the token and the user's role are asked for.
Allowed(t, page) == page = "open" \/ (tab[t].token # None /\ tab[t].user \in Admin)

\* Who is not let in goes to the login page or to the products.  The pages that
\* only ask for a token are not told from the open ones.
Navigate(t, page) ==
    /\ Idle(t)
    /\ tab' = [tab EXCEPT ![t].page = IF Allowed(t, page) THEN page ELSE "open"]
    /\ UNCHANGED <<storage, call, owner, expired, late, crossed>>

-----------------------------------------------------------------------------
(* Requests and their answers                                               *)

\* A page sends a request; the interceptor gives it the tab's token, which only
\* login does not look at.  "refresh"
\* is the getProfile of MyAppeals and userStore, and stands for every other call
\* behind AuthRequired: they only matter here by their 401.
Send(t, s, request) ==
    /\ Idle(t) /\ call[t][s] = Free /\ HasRoom
    /\ call' = [call EXCEPT ![t][s] = request]
    /\ UNCHANGED <<storage, tab, owner, expired, late, crossed>>

\* What the server may have answered by now.  AuthRequired's 401 is for no token
\* or an expired one; who passes may still get an error (403, 404, 500, ...).
Answers(c) ==
    IF c.kind = "login" THEN {"ok", "401"}
    ELSE (IF c.good THEN {"ok", "error"} ELSE {})
         \cup (IF c.token = None \/ c.token \in expired THEN {"401"} ELSE {})

\* Every error answer signs out.
BugEndsSession(answer) == answer \in {"401", "error"}

EndsSession(answer) == answer = "401"

\* The response interceptor: the session goes that the tab has by now, and the
\* page stays where it is.
SignOut(t) ==
    /\ tab' = [tab EXCEPT ![t].token = None, ![t].user = None, ![t].pc = "save_token"]
    /\ UNCHANGED <<storage, owner, late, crossed>>

\* The session is set with a token the server does not vouch for.
BugSignIn(t, account) ==
    /\ \E n \in Token :
          tab' = [tab EXCEPT ![t] = [token |-> n, user |-> account,
                                     page |-> "open", pc |-> "save_token"]]
    /\ UNCHANGED <<storage, owner, late, crossed>>

\* Login.vue's continuation, with a token the server issued for the account.
SignIn(t, account) ==
    /\ \E n \in Token :
          /\ owner[n] = None /\ \A m \in 1..(n - 1) : owner[m] # None
          /\ owner' = [owner EXCEPT ![n] = account]
          /\ tab' = [tab EXCEPT ![t] = [token |-> n, user |-> account,
                                        page |-> "open", pc |-> "save_token"]]
    /\ UNCHANGED <<storage, late, crossed>>

\* The profile of the account the request was sent for; only restore stores it.
TakeProfile(t, c) ==
    /\ tab' = [tab EXCEPT ![t].user = owner[c.token]]
    /\ IF c.kind = "restore"
       THEN storage' = [storage EXCEPT !.user = owner[c.token]] /\ Touch(t)
       ELSE UNCHANGED <<storage, crossed>>
    /\ late' = \/ late
               \/ tab[t].token # c.token
               \/ (c.kind = "restore" /\ storage.token # c.token)
    /\ UNCHANGED owner

Deliver(t, s) ==
    LET c == call[t][s] IN
    /\ Idle(t) /\ c # Free
    /\ call' = [call EXCEPT ![t][s] = Free]
    /\ \E answer \in Answers(c) :
          \/ EndsSession(answer) /\ SignOut(t)
          \/ ~EndsSession(answer) /\ answer = "ok" /\
                IF c.kind = "login" THEN SignIn(t, c.account) ELSE TakeProfile(t, c)
          \/ /\ ~EndsSession(answer) /\ answer = "error"
             /\ UNCHANGED <<storage, tab, owner, late, crossed>>
    /\ UNCHANGED expired

\* The request or its answer is lost, or takes longer than ten seconds.
Lose(t, s) ==
    /\ Idle(t) /\ call[t][s] # Free
    /\ call' = [call EXCEPT ![t][s] = Free]
    /\ UNCHANGED <<storage, tab, owner, expired, late, crossed>>

Expire(n) ==
    /\ n \in Issued \ expired
    /\ expired' = expired \cup {n}
    /\ UNCHANGED <<storage, tab, call, owner, late, crossed>>

-----------------------------------------------------------------------------
Page == {"open", "admin"}

Act(t) ==
    \/ LoadToken(t) \/ LoadUser(t) \/ SaveToken(t) \/ SaveUser(t) \/ ClickLogout(t)
    \/ \E page \in Page : Navigate(t, page)
    \/ \E s \in Slot :
          \/ \E account \in Account : Send(t, s, Request("login", None, account))
          \/ Send(t, s, Request("refresh", tab[t].token, None))
          \/ Deliver(t, s) \/ Lose(t, s)

Next == (\E t \in Tab : Act(t)) \/ \E n \in Token : Expire(n)

Spec == Init /\ [][Next]_vars

-----------------------------------------------------------------------------
(* What must hold.                                                          *)

\* Storage, tabs and requests stay in their domains; every token a tab holds or
\* sends was issued.
TypeOK ==
    /\ storage \in [token : Issued \cup {None}, user : Account \cup {None}]
    /\ tab \in [Tab -> [token : Issued \cup {None}, user : Account \cup {None}, page : Page,
                        pc : {"idle", "load_user", "save_token", "save_user"}]]
    /\ call \in [Tab -> [Slot ->
          [kind : {"none", "login", "restore", "refresh"}, token : Issued \cup {None},
           account : Account \cup {None}, good : BOOLEAN]]]
    /\ owner \in [Token -> Account \cup {None}]
    /\ expired \subseteq Issued

Coherent(x) == IF x.token = None THEN x.user = None ELSE x.user = owner[x.token]

\* While no tab is between its two storage accesses, every tab and the storage
\* show the user whose token they hold, and nobody without one: unless a
\* profile was delivered after its session had been replaced, or two tabs
\* touched storage at once.  Nothing in the code repairs it after that.
SessionCoherent ==
    ~late /\ ~crossed =>
        /\ (\A t \in Tab : Idle(t)) => Coherent(storage)
        /\ \A t \in Tab : tab[t].pc # "load_user" => Coherent(tab[t])

\* A tab on an admin page that acts with a token has an administrator's, under
\* the same proviso: navigation checks the user, requests carry the token, and
\* neither the user nor the page is renewed when the token is.
AdminPageHonest ==
    ~late /\ ~crossed =>
        \A t \in Tab : tab[t].page = "admin" /\ tab[t].token # None => owner[tab[t].token] \in Admin

\* Nobody whose token is still good is signed out without asking for it, except
\* by a 401 to a request that was not sent with that token: the answer to a
\* session that is gone, or to a wrong password.
NotThrownOut ==
    \A t \in Tab :
        /\ tab[t].token \in Issued \ expired
        /\ tab'[t].token = None /\ tab'[t].pc = "save_token"
        /\ \E s \in Slot : call[t][s] # Free /\ call'[t][s] = Free
        => \E s \in Slot :
              /\ call[t][s] # Free /\ call'[t][s] = Free
              /\ \/ call[t][s].kind = "login"
                 \/ call[t][s].token = None
                 \/ call[t][s].token \in expired

NeverThrownOut == [][NotThrownOut]_vars

=============================================================================
