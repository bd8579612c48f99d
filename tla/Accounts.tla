------------------------------ MODULE Accounts ------------------------------
(***************************************************************************)
(* UserService behind its routes: registration and login pass the login    *)
(* limiter and then look at users; a profile is read, filled in and        *)
(* written back.  There is no transaction: each statement commits by       *)
(* itself.                                                                 *)
(***************************************************************************)
EXTENDS RateLimiter

CONSTANTS
    Phone,       \* users.phone, under a unique index
    Password,
    Name,        \* what nicknames, avatars and campuses are called
    Forms,       \* the forms people register with; a bound on the inputs
    Puts,        \* the bodies of profile updates; a bound on the inputs
    Request      \* HTTP requests the server may be serving at once

Fields == {"nickname", "avatar", "campus"}

\* "" is a field that a body leaves out, and what is stored for no avatar.
Profile == [Fields -> Name \cup {""}]

\* What a registration must give; it has no avatar.
Required == {"nickname", "campus"}

\* The DTOs ask for a password and for names that are not blank.
ASSUME InputsAssumption ==
    /\ "none" \notin Password /\ "" \notin Name
    /\ Forms \subseteq [Required -> Name] /\ Puts \subseteq Profile

VARIABLES
    user,        \* users: [Phone -> [password, profile]], NoUser before the registration
    call,        \* the local state of each request
    welcomed,    \* history: [Phone -> passwords whose registration was answered OK]
    signedIn,    \* history: the (phone, password) pairs given a token
    asked,       \* history: [Phone -> what its updates asked for, one after the other]
    overlapped   \* history: the phones of which two updates overlapped

users == <<user, welcomed, signedIn, asked, overlapped>>
vars == <<limiter, users, call>>

NoProfile == [f \in Fields |-> ""]
NoUser == [password |-> "none", profile |-> NoProfile]

Idle == [pc |-> "idle", phone |-> "none", password |-> "none", body |-> NoProfile,
         read |-> NoProfile, stale |-> FALSE]

Exists(p) == user[p] # NoUser

Return(r) == call' = [call EXCEPT ![r] = Idle]

Start(r, pc, p, password, body, read) ==
    /\ call[r] = Idle
    /\ call' = [call EXCEPT ![r] = [pc |-> pc, phone |-> p, password |-> password,
                                    body |-> body, read |-> read, stale |-> FALSE]]

Init ==
    /\ LimiterInit
    /\ user = [p \in Phone |-> NoUser]
    /\ call = [r \in Request |-> Idle]
    /\ welcomed = [p \in Phone |-> {}]
    /\ signedIn = {}
    /\ asked = [p \in Phone |-> NoProfile]
    /\ overlapped = {}

-----------------------------------------------------------------------------
(* The login limiter in front of POST /users/register and /users/login      *)

\* The profile of a new row: Register stores a blank avatar.
Registered(form) == [f \in Fields |-> IF f \in Required THEN form[f] ELSE ""]

RegisterArrives(r, c, p, password, form) ==
    /\ Pass(c)
    /\ Start(r, "register_lookup", p, password, Registered(form), NoProfile)
    /\ UNCHANGED users

LoginArrives(r, c, p, password) ==
    /\ Pass(c)
    /\ Start(r, "login", p, password, NoProfile, NoProfile)
    /\ UNCHANGED users

TurnedAway(c) == Refuse(c) /\ UNCHANGED <<users, call>>

-----------------------------------------------------------------------------
(* UserService.Register and Login                                           *)

\* FindByPhone: a phone that is there is a 409.
RegisterLookup(r) ==
    /\ call[r].pc = "register_lookup"
    /\ \/ Exists(call[r].phone) /\ Return(r)
       \/ ~Exists(call[r].phone) /\ call' = [call EXCEPT ![r].pc = "register_insert"]
    /\ UNCHANGED <<limiter, users>>

Welcome(c) ==
    /\ user' = [user EXCEPT ![c.phone] = [password |-> c.password, profile |-> c.body]]
    /\ welcomed' = [welcomed EXCEPT ![c.phone] = @ \cup {c.password}]
    /\ asked' = [asked EXCEPT ![c.phone] = c.body]

\* ON DUPLICATE KEY UPDATE: the later registration takes the account over.
BugRegisterInsert(r) ==
    /\ call[r].pc = "register_insert"
    /\ Welcome(call[r])
    /\ Return(r)
    /\ UNCHANGED <<limiter, signedIn, overlapped>>

\* The INSERT; on a phone registered since the look-up the unique index fails
\* it (500).
RegisterInsert(r) ==
    /\ call[r].pc = "register_insert"
    /\ \/ Exists(call[r].phone) /\ UNCHANGED <<user, welcomed, asked>>
       \/ ~Exists(call[r].phone) /\ Welcome(call[r])
    /\ Return(r)
    /\ UNCHANGED <<limiter, signedIn, overlapped>>

\* An unknown phone and a wrong password are one and the same 401.
Login(r) ==
    LET c == call[r] IN
    /\ c.pc = "login"
    /\ signedIn' = IF Exists(c.phone) /\ user[c.phone].password = c.password
                   THEN signedIn \cup {<<c.phone, c.password>>} ELSE signedIn
    /\ Return(r)
    /\ UNCHANGED <<limiter, user, welcomed, asked, overlapped>>

-----------------------------------------------------------------------------
(* UserService.UpdateProfile                                                *)

\* Every field is taken from the body.
BugFilled(body, read) == body

\* A field the body leaves out keeps the value that was read.
Filled(body, read) == [f \in Fields |-> IF body[f] = "" THEN read[f] ELSE body[f]]

\* A signed-in user's PUT reads the row.  (The api limiter in front of it is
\* another RateLimiter, and not part of this module.)
UpdateStart(r, p, body) ==
    /\ \E password \in Password : <<p, password>> \in signedIn
    /\ Start(r, "update", p, "none", body, user[p].profile)
    /\ UNCHANGED <<limiter, users>>

Updates(p) == {q \in Request : call[q].pc = "update" /\ call[q].phone = p}

\* The UPDATE writes all three fields.  The other updates of the row have now read an
\* old one.
UpdateWrite(r) ==
    LET c == call[r] IN
    /\ c.pc = "update"
    /\ user' = [user EXCEPT ![c.phone] = [password |-> @.password,
                                          profile |-> Filled(c.body, c.read)]]
    /\ asked' = [asked EXCEPT ![c.phone] =
          [f \in Fields |-> IF c.body[f] # "" THEN c.body[f] ELSE @[f]]]
    /\ overlapped' = IF c.stale THEN overlapped \cup {c.phone} ELSE overlapped
    /\ call' = [q \in Request |->
          IF q = r THEN Idle
          ELSE IF q \in Updates(c.phone) THEN [call[q] EXCEPT !.stale = TRUE] ELSE call[q]]
    /\ UNCHANGED <<limiter, welcomed, signedIn>>

\* A statement fails, or the connection or the client is lost before it.
Fail(r) ==
    /\ call[r] # Idle
    /\ Return(r)
    /\ UNCHANGED <<limiter, users>>

-----------------------------------------------------------------------------
Arrive(r) ==
    \E p \in Phone :
        \/ \E c \in Client, password \in Password :
              \/ LoginArrives(r, c, p, password)
              \/ \E form \in Forms : RegisterArrives(r, c, p, password, form)
        \/ \E body \in Puts : UpdateStart(r, p, body)

Proceed(r) == RegisterLookup(r) \/ RegisterInsert(r) \/ Login(r) \/ UpdateWrite(r) \/ Fail(r)

Next ==
    \/ Tick /\ UNCHANGED <<users, call>>
    \/ \E c \in Client : TurnedAway(c)
    \/ \E r \in Request : Arrive(r) \/ Proceed(r)

Spec == Init /\ [][Next]_vars

-----------------------------------------------------------------------------
(* What must hold.                                                          *)

\* Buckets, rows and request locals stay in their domains, and the nickname and
\* the campus of a registered user are never blank.  The avatar is, until an
\* update gives one.
TypeOK ==
    /\ now \in Times
    /\ bucket \in [Client -> [count : 0..(IF Limit < 0 THEN 1 ELSE Limit + 1),
                              resetAt : -1..(now + Window)]]
    /\ user \in [Phone -> [password : Password \cup {"none"}, profile : Profile]]
    /\ \A p \in Phone : Exists(p) => \A f \in Required : user[p].profile[f] # ""
    /\ call \in [Request -> [pc : {"idle", "register_lookup", "register_insert", "login", "update"},
                             phone : Phone \cup {"none"}, password : Password \cup {"none"},
                             body : Profile, read : Profile, stale : BOOLEAN]]
    /\ overlapped \subseteq Phone

\* However many people register one phone at once, one of them is told that it
\* worked, and nobody else ever signs in to the account.
RegistrantSignsIn ==
    \A p \in Phone, w \in Password :
        w \in welcomed[p] \/ <<p, w>> \in signedIn => user[p].password = w

\* A profile is what its updates asked for, in their order, unless two of them
\* overlapped: only then is an acknowledged change written over with the value
\* from before it.
ChangesKept == \A p \in Phone \ overlapped : user[p].profile = asked[p]

=============================================================================
