---------------------------- MODULE Marketplace ----------------------------
(***************************************************************************)
(* What products and trade orders promise together: an order is agreed on, *)
(* received, and then completed in the same instant in which its product   *)
(* becomes sold.  A product that is sold is not sold again until its       *)
(* seller has taken it down.                                               *)
(*                                                                         *)
(* It does not promise that an order is agreed on while the product is     *)
(* still there, nor that a completed order stays completed.                *)
(***************************************************************************)

CONSTANTS
    Product,
    Buyer,
    Order     \* ids of trade_orders

VARIABLES
    shelf,    \* [Product -> status], "none" before it is offered
    deal      \* [Order -> [product, buyer, status]], NoDeal before it is agreed on

market == <<shelf, deal>>

Deal(p, b, status) == [product |-> p, buyer |-> b, status |-> status]
NoDeal == Deal("none", "none", "none")

Init ==
    /\ shelf = [p \in Product |-> "none"]
    /\ deal = [o \in Order |-> NoDeal]

\* Order o is now in another status.
Move(o, status) ==
    deal' = [deal EXCEPT ![o] = Deal(deal[o].product, deal[o].buyer, status)]

Offer(p) ==
    /\ shelf[p] = "none"
    /\ shelf' = [shelf EXCEPT ![p] = "on_sale"]
    /\ UNCHANGED deal

TakeDown(p) ==
    /\ shelf[p] # "none"
    /\ shelf' = [shelf EXCEPT ![p] = "removed"]
    /\ UNCHANGED deal

\* The product has been offered once.
Agree(o, p, b) ==
    /\ deal[o] = NoDeal
    /\ shelf[p] # "none"
    /\ deal' = [deal EXCEPT ![o] = Deal(p, b, "pending")]
    /\ UNCHANGED shelf

Receive(o) ==
    /\ deal[o].status = "pending"
    /\ Move(o, "confirmed")
    /\ UNCHANGED shelf

Complete(o) ==
    /\ deal[o].status = "confirmed"
    /\ shelf[deal[o].product] # "sold"
    /\ Move(o, "completed")
    /\ shelf' = [shelf EXCEPT ![deal[o].product] = "sold"]

CallOff(o) ==
    /\ deal[o].status \in {"pending", "confirmed", "completed"}
    /\ Move(o, "cancelled")
    /\ UNCHANGED shelf

Next ==
    \/ \E p \in Product : Offer(p) \/ TakeDown(p)
    \/ \E o \in Order :
          \/ \E p \in Product, b \in Buyer : Agree(o, p, b)
          \/ Receive(o) \/ Complete(o) \/ CallOff(o)

Spec == Init /\ [][Next]_market

=============================================================================
