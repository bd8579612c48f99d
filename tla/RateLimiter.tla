---------------------------- MODULE RateLimiter ----------------------------
(***************************************************************************)
(* middleware/rate_limiter.go: a fixed window per client address, held in  *)
(* memory under one mutex, so that one call of allow is one step.  A       *)
(* window opens with the first request after the last one has passed.      *)
(***************************************************************************)
EXTENDS Integers, Functions

CONSTANTS
    Client,    \* client addresses
    Limit,     \* requests let in per window, as configured: any integer
    Window,    \* length of a window (one minute in router.go)
    MaxTime    \* bound on the clock

ASSUME LimiterAssumption ==
    Limit \in Int /\ Window \in Nat \ {0} /\ MaxTime \in Nat

VARIABLES
    now,       \* time.Now()
    bucket,    \* the map of buckets: [Client -> [count, resetAt]], NoBucket when absent
    passed     \* history: [Client -> [time -> requests let in]]

limiter == <<now, bucket, passed>>

Times == 0..MaxTime

\* An absent bucket and an expired one are treated alike.
NoBucket == [count |-> 0, resetAt |-> -1]

LimiterInit ==
    /\ now = 0
    /\ bucket = [c \in Client |-> NoBucket]
    /\ passed = [c \in Client |-> [t \in Times |-> 0]]

Tick ==
    /\ now < MaxTime
    /\ now' = now + 1
    /\ UNCHANGED <<bucket, passed>>

\* now.After(b.resetAt).
Expired(b) == now > b.resetAt

\* A refused request opens a new window.
BugCounted(b) ==
    IF Expired(b) THEN [count |-> 1, resetAt |-> now + Window]
    ELSE [count |-> IF b.count > Limit THEN b.count ELSE b.count + 1, resetAt |-> now + Window]

\* The bucket after one more request.  Counting stops one past the limit: what
\* allow answers does not change beyond it.
Counted(b) ==
    IF Expired(b) THEN [count |-> 1, resetAt |-> now + Window]
    ELSE [count |-> IF b.count > Limit THEN b.count ELSE b.count + 1, resetAt |-> b.resetAt]

\* A window's first request is let in whatever the limit.
LetsIn(b) == Expired(b) \/ b.count < Limit

\* The request of c reaches its handler.
Pass(c) ==
    /\ LetsIn(bucket[c])
    /\ bucket' = [bucket EXCEPT ![c] = Counted(@)]
    /\ passed' = [passed EXCEPT ![c][now] = @ + 1]
    /\ UNCHANGED now

\* The request of c is answered 429.
Refuse(c) ==
    /\ ~LetsIn(bucket[c])
    /\ bucket' = [bucket EXCEPT ![c] = Counted(@)]
    /\ UNCHANGED <<now, passed>>

-----------------------------------------------------------------------------
PassedDuring(c, span) == SumFunctionOnSet(passed[c], span \cap Times)

\* Two windows back to back let less than twice the limit through in any span of
\* one window's length, and a limit of nothing still lets one request in.
SpanBound ==
    \A c \in Client, t \in Times :
        PassedDuring(c, t..(t + Window)) <= IF Limit <= 1 THEN 1 ELSE 2 * Limit - 1

\* A client is refused only after being let in up to the limit within the last
\* window: refused requests do not prolong the wait.
NoFalseRefusal ==
    \A c \in Client :
        ~LetsIn(bucket[c]) => PassedDuring(c, (now - Window)..now) >= Limit

\* Neither too many requests of a client are let in, nor too many refused.
LimiterHonest == SpanBound /\ NoFalseRefusal

=============================================================================
