------------------------------- MODULE Credit -------------------------------
(***************************************************************************)
(* The credit arithmetic of util/credit_calculator.go.  A rating has a     *)
(* nominal effect on the reviewee's score; a score never leaves 0..300, so *)
(* near a bound the effect is smaller than the nominal one.                *)
(***************************************************************************)
EXTENDS Integers

\* The bounds ClampCredit and AddCredit both write out as 0 and 300.
MaxCredit == 300

Scores == 0..MaxCredit

Ratings == {"good", "medium", "bad"}

\* The nominal effect of a rating; an unknown rating counts for nothing.
CreditDelta(rating) ==
    IF rating = "good" THEN 5 ELSE IF rating = "bad" THEN -10 ELSE 0

\* A clamp that only knows the ceiling.
BugClampCredit(score) == IF score > MaxCredit THEN MaxCredit ELSE score

ClampCredit(score) ==
    IF score < 0 THEN 0 ELSE IF score > MaxCredit THEN MaxCredit ELSE score

\* The nominal effect, with the bounds forgotten.
BugAppliedDelta(score, nominalDelta) == nominalDelta

\* The effect nominalDelta would have on a user who stands at score.
AppliedDelta(score, nominalDelta) == ClampCredit(score + nominalDelta) - score

\* d lies between 0 and n, on whichever side of 0 n is.
Within(d, n) == (0 <= d /\ d <= n) \/ (n <= d /\ d <= 0)

=============================================================================
