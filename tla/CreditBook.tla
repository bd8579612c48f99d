----------------------------- MODULE CreditBook -----------------------------
(***************************************************************************)
(* What the reviews, appeals and credit scores promise their users, with   *)
(* no transaction, lock, request or retry in sight.  Three things happen,  *)
(* each at once: a review is posted, an appeal is filed, an appeal is      *)
(* decided.                                                                *)
(*                                                                         *)
(* The promise on amounts is the one the code keeps under concurrency: a   *)
(* review records SOME amount between nothing and its nominal effect, and  *)
(* the score moves by that amount as far as the bounds allow.  That the    *)
(* recorded amount is exactly the one that took effect is a stronger       *)
(* statement, which holds only when reviews of one user do not overlap     *)
(* (see CreditLedger).                                                     *)
(***************************************************************************)
EXTENDS Credit

CONSTANTS
    User,      \* the accounts that carry a credit score
    Key,       \* a (trade, reviewer) pair: one review each
    Reviewee   \* [Key -> User]: whose score the review moves

VARIABLES
    score,     \* users.credit_score
    review,    \* reviews: [Key -> [rating, creditDelta]]
    appeal     \* review_appeals: [Key -> [status, creditReversed, creditDelta]]

bookVars == <<score, review, appeal>>

NoReview == [rating |-> "none", creditDelta |-> 0]
NoAppeal == [status |-> "none", creditReversed |-> FALSE, creditDelta |-> 0]

\* The appeal's row, its status column updated.
WithStatus(a, status) ==
    [status |-> status, creditReversed |-> a.creditReversed, creditDelta |-> a.creditDelta]

\* Every nominal effect lies here, so every recorded one does.
Amounts == CreditDelta("bad")..CreditDelta("good")

Init ==
    /\ score \in [User -> Scores]
    /\ review = [k \in Key |-> NoReview]
    /\ appeal = [k \in Key |-> NoAppeal]

Move(u, delta) == score' = [score EXCEPT ![u] = ClampCredit(@ + delta)]

\* A review is posted once per key and moves the reviewee's score with it.
PostReview(k, rating) ==
    /\ review[k] = NoReview
    /\ \E d \in Amounts :
          /\ Within(d, CreditDelta(rating))
          /\ review' = [review EXCEPT ![k] = [rating |-> rating, creditDelta |-> d]]
          /\ Move(Reviewee[k], d)
    /\ UNCHANGED appeal

\* A posted review may be appealed once, ever.
FileAppeal(k) ==
    /\ review[k] # NoReview
    /\ appeal[k] = NoAppeal
    /\ appeal' = [appeal EXCEPT ![k] = WithStatus(@, "pending")]
    /\ UNCHANGED <<score, review>>

\* An appeal is decided once; a rejection leaves the score alone.
Reject(k) ==
    /\ appeal[k].status = "pending"
    /\ appeal' = [appeal EXCEPT ![k] = WithStatus(@, "rejected")]
    /\ UNCHANGED <<score, review>>

\* An approval takes the recorded amount back in the same instant.
Approve(k) ==
    /\ appeal[k].status = "pending"
    /\ LET d == -review[k].creditDelta IN
          /\ appeal' = [appeal EXCEPT ![k] =
                [status |-> "approved", creditReversed |-> d # 0, creditDelta |-> d]]
          /\ Move(Reviewee[k], d)
    /\ UNCHANGED review

Next ==
    \E k \in Key :
        \/ \E rating \in Ratings : PostReview(k, rating)
        \/ FileAppeal(k)
        \/ Reject(k)
        \/ Approve(k)

Spec == Init /\ [][Next]_bookVars

=============================================================================
