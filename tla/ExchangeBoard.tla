--------------------------- MODULE ExchangeBoard ---------------------------
(***************************************************************************)
(* What the book exchange promises: posts appear, matched to an older one  *)
(* or on their own, and are closed.  A match is made in one instant, on    *)
(* both sides, between two posts that want each other's books.             *)
(*                                                                         *)
(* It does not promise that the older post was still free: two posts that  *)
(* are published at once may be given the same partner, and the later one  *)
(* keeps it.                                                               *)
(***************************************************************************)
EXTENDS Integers

CONSTANTS
    Post,    \* ids of book_exchanges
    Book     \* titles offered and wanted

VARIABLE board   \* [Post -> [offer, want, status, partner]], NoPost before it is published

NoPost == [offer |-> "none", want |-> "none", status |-> "none", partner |-> 0]

Row(offer, want, status, partner) ==
    [offer |-> offer, want |-> want, status |-> status, partner |-> partner]

\* x, its status and partner updated.
Matched(x, partner) == Row(x.offer, x.want, "matched", partner)

\* The two want each other's books.
Mirrored(x, y) == x.offer = y.want /\ x.want = y.offer

Published(p) == board[p] # NoPost

\* The posts the table starts with are open, whatever they want.
Init ==
    board \in [Post -> {NoPost} \cup {Row(offer, want, "open", 0) : offer \in Book, want \in Book}]

Publish(p, offer, want) ==
    /\ ~Published(p)
    /\ board' = [board EXCEPT ![p] = Row(offer, want, "open", 0)]

PublishMatched(p, offer, want, older) ==
    /\ ~Published(p)
    /\ Published(older)
    /\ Mirrored(board[older], Row(offer, want, "open", 0))
    /\ board' = [board EXCEPT ![p] = Row(offer, want, "matched", older),
                              ![older] = Matched(@, p)]

\* A closed post is done with, but its partner is not told.
Close(p) ==
    /\ Published(p)
    /\ board' = [board EXCEPT ![p] = Row(@.offer, @.want, "closed", @.partner)]

Next ==
    \E p \in Post :
        \/ Close(p)
        \/ \E offer \in Book, want \in Book :
              \/ Publish(p, offer, want)
              \/ \E older \in Post : PublishMatched(p, offer, want, older)

Spec == Init /\ [][Next]_board

=============================================================================
