----------------------------- MODULE TradeOrder -----------------------------
(***************************************************************************)
(* Products and trade orders: TradeOrderService, and the parts of          *)
(* ProductService that move a product's status.                            *)
(*                                                                         *)
(* Every handler reads first, checks what it read, and writes later; only  *)
(* SellerConfirm's writes are in a transaction, and its read is not.  The  *)
(* variables are committed rows; row locks follow from pc.  An UPDATE sees *)
(* the latest committed row and waits for its holder.                      *)
(***************************************************************************)
EXTENDS Integers, FiniteSets

CONSTANTS
    Product,       \* product ids
    Buyer,         \* users other than the products' sellers
    MaxOrders,     \* bound: orders the table may come to hold
    Request,       \* HTTP requests the server may be serving at once
    MaxTxRetries   \* attempts Transaction makes (8 in the code)

ASSUME BoundsAssumption ==
    MaxOrders \in Nat /\ MaxTxRetries \in Nat \ {0} /\ IsFiniteSet(Request)

Order == 1..MaxOrders

VARIABLES
    product,   \* [Product -> products.status], "none" before it is published
    order,     \* [Order -> row of trade_orders], NoOrder before the insert
    call,      \* the local state of each request
    takenDown, \* history: [Product -> times it was removed after being sold]
    unseen     \* history: the orders inserted after a look-up that failed

vars == <<product, order, call, takenDown, unseen>>

ProductStatus == {"none", "on_sale", "sold", "removed"}
OrderStatus == {"none", "pending", "confirmed", "completed", "cancelled"}

\* The timestamps are kept as "is it set"; completed_at is set together with
\* seller_confirmed_at and never apart from it.
NoOrder == [product |-> "none", buyer |-> "none", status |-> "none",
            buyerConfirmed |-> FALSE, sellerConfirmed |-> FALSE]

\* FindByProductAndBuyer counts these as orders of b for p.
Active(p, b) ==
    {o \in Order : /\ order[o].product = p
                   /\ order[o].buyer = b
                   /\ order[o].status \in {"pending", "confirmed"}}

Idle == [pc |-> "idle", order |-> 0, product |-> "none", buyer |-> "none", attempt |-> 0]

CreateSteps == {"order_lookup", "order_insert", "order_insert_unseen"}
OrderSteps == {"buyer_write", "cancel_write", "seller_order", "seller_product", "seller_commit"}
Steps == CreateSteps \cup OrderSteps \cup {"remove_write"}

-----------------------------------------------------------------------------
\* The X locks of SellerConfirm's transaction, between its UPDATEs and commit.
HoldsOrder(c, o) == c.pc \in {"seller_product", "seller_commit"} /\ c.order = o
HoldsProduct(c, p) == c.pc = "seller_commit" /\ c.product = p

Others(r) == Request \ {r}

OrderFree(r, o)   == \A q \in Others(r) : ~HoldsOrder(call[q], o)
ProductFree(r, p) == \A q \in Others(r) : ~HoldsProduct(call[q], p)

Start(r, pc, o, p, b) ==
    /\ call[r] = Idle
    /\ call' = [call EXCEPT ![r] = [pc |-> pc, order |-> o, product |-> p,
                                    buyer |-> b, attempt |-> 0]]

Goto(r, pc) ==
    call' = [call EXCEPT ![r] = [pc |-> pc, order |-> @.order, product |-> @.product,
                                 buyer |-> @.buyer, attempt |-> @.attempt]]

Return(r) == call' = [call EXCEPT ![r] = Idle]

\* One UPDATE of row o: its status and confirmations.
SetRow(o, status, bought, sold) ==
    order' = [order EXCEPT ![o] =
        [product |-> order[o].product, buyer |-> order[o].buyer, status |-> status,
         buyerConfirmed |-> bought, sellerConfirmed |-> sold]]

Init ==
    /\ product = [p \in Product |-> "none"]
    /\ order = [o \in Order |-> NoOrder]
    /\ call = [r \in Request |-> Idle]
    /\ takenDown = [p \in Product |-> 0]
    /\ unseen = {}

-----------------------------------------------------------------------------
(* ProductService                                                           *)

\* Create: one INSERT, on sale at once.
Publish(p) ==
    /\ product[p] = "none"
    /\ product' = [product EXCEPT ![p] = "on_sale"]
    /\ UNCHANGED <<order, call, takenDown, unseen>>

\* Remove reads the product to see that the caller sells it, whatever its status.
RemoveStart(r, p) ==
    /\ product[p] # "none"
    /\ Start(r, "remove_write", 0, p, "none")
    /\ UNCHANGED <<product, order, takenDown, unseen>>

\* UpdateStatus(removed): a product already removed is a row not changed, and
\* the call fails; nothing else stops it.
RemoveWrite(r) ==
    LET p == call[r].product IN
    /\ call[r].pc = "remove_write"
    /\ ProductFree(r, p)
    /\ product' = [product EXCEPT ![p] = "removed"]
    /\ takenDown' = [takenDown EXCEPT ![p] = IF product[p] = "sold" THEN @ + 1 ELSE @]
    /\ Return(r)
    /\ UNCHANGED <<order, unseen>>

-----------------------------------------------------------------------------
(* TradeOrderService.Create                                                 *)

\* The product must be on sale when it is read (409 otherwise).
CreateStart(r, p, b) ==
    /\ product[p] = "on_sale"
    /\ Start(r, "order_lookup", 0, p, b)
    /\ UNCHANGED <<product, order, takenDown, unseen>>

\* The look-up of an earlier order by this buyer is left out.
BugCreateLookup(r) ==
    /\ call[r].pc = "order_lookup"
    /\ Goto(r, "order_insert")
    /\ UNCHANGED <<product, order, takenDown, unseen>>

\* An active order of this buyer for this product is a 409.  The handler only
\* looks at err == nil: a query that failed counts as no order found.
CreateLookup(r) ==
    LET mine == Active(call[r].product, call[r].buyer) IN
    /\ call[r].pc = "order_lookup"
    /\ \/ mine # {} /\ Return(r)
       \/ mine = {} /\ Goto(r, "order_insert")
       \/ Goto(r, "order_insert_unseen")
    /\ UNCHANGED <<product, order, takenDown, unseen>>

\* The INSERT, under the next id; no index and no check stands in its way.
CreateInsert(r) ==
    /\ call[r].pc \in {"order_insert", "order_insert_unseen"}
    /\ \E o \in Order :
          /\ order[o] = NoOrder
          /\ \A n \in 1..(o - 1) : order[n] # NoOrder
          /\ order' = [order EXCEPT ![o] =
                [product |-> call[r].product, buyer |-> call[r].buyer, status |-> "pending",
                 buyerConfirmed |-> FALSE, sellerConfirmed |-> FALSE]]
          /\ unseen' = IF call[r].pc = "order_insert" THEN unseen ELSE unseen \cup {o}
    /\ Return(r)
    /\ UNCHANGED <<product, takenDown>>

-----------------------------------------------------------------------------
(* TradeOrderService.BuyerConfirm                                           *)

BuyerStart(r, o) ==
    /\ order[o].status = "pending"
    /\ Start(r, "buyer_write", o, "none", "none")
    /\ UNCHANGED <<product, order, takenDown, unseen>>

\* UpdateBuyerConfirmed without its "AND status = 'pending'".
BugBuyerWrite(r) ==
    LET o == call[r].order IN
    /\ call[r].pc = "buyer_write"
    /\ OrderFree(r, o)
    /\ SetRow(o, "confirmed", TRUE, order[o].sellerConfirmed)
    /\ Return(r)
    /\ UNCHANGED <<product, takenDown, unseen>>

\* UpdateBuyerConfirmed: only a row still pending is changed; the rest fail.
BuyerWrite(r) ==
    LET o == call[r].order IN
    /\ call[r].pc = "buyer_write"
    /\ OrderFree(r, o)
    /\ \/ /\ order[o].status = "pending"
          /\ SetRow(o, "confirmed", TRUE, order[o].sellerConfirmed)
       \/ order[o].status # "pending" /\ UNCHANGED order
    /\ Return(r)
    /\ UNCHANGED <<product, takenDown, unseen>>

-----------------------------------------------------------------------------
(* TradeOrderService.SellerConfirm                                          *)

\* The order is read, and its product noted, before the transaction.
SellerStart(r, o) ==
    /\ order[o].status = "confirmed"
    /\ Start(r, "seller_order", o, order[o].product, "none")
    /\ UNCHANGED <<product, order, takenDown, unseen>>

\* UpdateSellerConfirmed without its "AND status = 'confirmed'".
BugSellerOrder(r) ==
    /\ call[r].pc = "seller_order"
    /\ OrderFree(r, call[r].order)
    /\ Goto(r, "seller_product")
    /\ UNCHANGED <<product, order, takenDown, unseen>>

\* UpdateSellerConfirmed changes only a row still confirmed, and locks it; a
\* lost race is a 409.
SellerOrder(r) ==
    LET o == call[r].order IN
    /\ call[r].pc = "seller_order"
    /\ OrderFree(r, o)
    /\ \/ order[o].status # "confirmed" /\ Return(r)
       \/ order[o].status = "confirmed" /\ Goto(r, "seller_product")
    /\ UNCHANGED <<product, order, takenDown, unseen>>

\* RowsAffected counts the rows matched, as with clientFoundRows=true in the DSN.
BugSellerProduct(r) ==
    /\ call[r].pc = "seller_product"
    /\ ProductFree(r, call[r].product)
    /\ Goto(r, "seller_commit")
    /\ UNCHANGED <<product, order, takenDown, unseen>>

\* ProductRepository.UpdateStatus(sold).  The MySQL driver reports rows CHANGED:
\* for a product that is sold already it is 0, UpdateStatus says not found, and
\* the transaction is rolled back.
SellerProduct(r) ==
    LET p == call[r].product IN
    /\ call[r].pc = "seller_product"
    /\ ProductFree(r, p)
    /\ \/ product[p] = "sold" /\ Return(r)
       \/ product[p] # "sold" /\ Goto(r, "seller_commit")
    /\ UNCHANGED <<product, order, takenDown, unseen>>

SellerCommit(r) ==
    LET o == call[r].order IN
    /\ call[r].pc = "seller_commit"
    /\ SetRow(o, "completed", order[o].buyerConfirmed, TRUE)
    /\ product' = [product EXCEPT ![call[r].product] = "sold"]
    /\ Return(r)
    /\ UNCHANGED <<takenDown, unseen>>

-----------------------------------------------------------------------------
(* TradeOrderService.Cancel                                                 *)

CancelStart(r, o) ==
    /\ order[o].status = "pending"
    /\ Start(r, "cancel_write", o, "none", "none")
    /\ UNCHANGED <<product, order, takenDown, unseen>>

\* UpdateStatus(cancelled) has no condition on the status it overwrites.
CancelWrite(r) ==
    LET o == call[r].order IN
    /\ call[r].pc = "cancel_write"
    /\ OrderFree(r, o)
    /\ SetRow(o, "cancelled", order[o].buyerConfirmed, order[o].sellerConfirmed)
    /\ Return(r)
    /\ UNCHANGED <<product, takenDown, unseen>>

-----------------------------------------------------------------------------
\* One attempt too many.
BugLockError(r) ==
    /\ call[r].pc \in {"seller_order", "seller_product"}
    /\ call[r].attempt < MaxTxRetries
    /\ call' = [call EXCEPT ![r] =
          [pc |-> "seller_order", order |-> @.order, product |-> @.product,
           buyer |-> @.buyer, attempt |-> @.attempt + 1]]
    /\ UNCHANGED <<product, order, takenDown, unseen>>

\* A deadlock or lock-wait timeout in SellerConfirm's transaction: it is begun
\* again, from its first UPDATE, until the attempts are spent.
LockError(r) ==
    LET c == call[r] IN
    /\ c.pc \in {"seller_order", "seller_product"}
    /\ \/ /\ c.attempt + 1 < MaxTxRetries
          /\ call' = [call EXCEPT ![r] =
                [pc |-> "seller_order", order |-> c.order, product |-> c.product,
                 buyer |-> c.buyer, attempt |-> c.attempt + 1]]
       \/ c.attempt + 1 >= MaxTxRetries /\ Return(r)
    /\ UNCHANGED <<product, order, takenDown, unseen>>

\* Any other failure, or the end of the server process: nothing was committed.
Fail(r) ==
    /\ call[r].pc \in Steps
    /\ Return(r)
    /\ UNCHANGED <<product, order, takenDown, unseen>>

Arrive(r) ==
    \/ \E p \in Product :
          \/ RemoveStart(r, p)
          \/ \E b \in Buyer : CreateStart(r, p, b)
    \/ \E o \in Order : BuyerStart(r, o) \/ SellerStart(r, o) \/ CancelStart(r, o)

Proceed(r) ==
    \/ RemoveWrite(r)
    \/ CreateLookup(r) \/ CreateInsert(r)
    \/ BuyerWrite(r)
    \/ SellerOrder(r) \/ SellerProduct(r) \/ SellerCommit(r)
    \/ CancelWrite(r)
    \/ LockError(r)

Next ==
    \/ \E p \in Product : Publish(p)
    \/ \E r \in Request : Arrive(r) \/ Proceed(r) \/ Fail(r)

Spec == Init /\ [][Next]_vars

-----------------------------------------------------------------------------
(* What must hold.                                                          *)

\* Rows and request locals stay in their domains.
TypeOK ==
    /\ product \in [Product -> ProductStatus]
    /\ order \in [Order -> [product : Product \cup {"none"}, buyer : Buyer \cup {"none"},
                            status : OrderStatus,
                            buyerConfirmed : BOOLEAN, sellerConfirmed : BOOLEAN]]
    /\ call \in [Request -> [pc : Steps \cup {"idle"}, order : Order \cup {0},
                             product : Product \cup {"none"}, buyer : Buyer \cup {"none"},
                             attempt : 0..(MaxTxRetries - 1)]]
    /\ takenDown \in [Product -> Nat]
    /\ unseen \subseteq Order

\* The confirmations come in their order, and the status agrees with them; only
\* a cancelled order may carry any.
StatusTellsConfirmations ==
    \A o \in Order : LET x == order[o] IN
        /\ x.sellerConfirmed => x.buyerConfirmed
        /\ x.status \in {"none", "pending"} => ~x.buyerConfirmed
        /\ x.status = "confirmed" => x.buyerConfirmed /\ ~x.sellerConfirmed
        /\ x.status = "completed" => x.sellerConfirmed

Sales(p) == {o \in Order : order[o].product = p /\ order[o].sellerConfirmed}

\* Every completed order sold its product: a product is sold once, or once more
\* for each time its seller took it down after a sale.  Two buyers' confirmed
\* orders for one product therefore never both complete, whoever races.
EverySaleSells ==
    \A p \in Product :
        Cardinality(Sales(p)) = takenDown[p] + IF product[p] = "sold" THEN 1 ELSE 0

\* A buyer's active orders for one product are no more than requests can race,
\* and those whose look-up failed: Create's look-up stops every other one.
DuplicatesExplained ==
    \A p \in Product, b \in Buyer :
        Cardinality(Active(p, b) \ unseen)
          + Cardinality({r \in Request : /\ call[r].pc = "order_insert"
                                         /\ call[r].product = p
                                         /\ call[r].buyer = b})
            <= Cardinality(Request)

\* A transaction that took its locks commits over the rows it matched: the order
\* is still confirmed and its product still unsold.
SellerReadsStayTrue ==
    \A r \in Request :
        /\ HoldsOrder(call[r], call[r].order) =>
              /\ order[call[r].order].status = "confirmed"
              /\ order[call[r].order].product = call[r].product
        /\ HoldsProduct(call[r], call[r].product) => product[call[r].product] # "sold"

\* The rows as the abstract market sees them.
Deals == [o \in Order |-> [product |-> order[o].product, buyer |-> order[o].buyer,
                           status |-> order[o].status]]

Market == INSTANCE Marketplace WITH shelf <- product, deal <- Deals

\* Whoever races, the committed rows only change as in Marketplace: an order's
\* status moves forward, or to cancelled, where it stays; it completes in one
\* step with the sale of a product that was not sold.  No late confirmation
\* revives a cancelled order, and no retry sells twice.
ImplementsMarketplace == Market!Spec

\* trade_order_service.go:119: "Cancel cancels a pending order."
CancelsPending ==
    \A o \in Order : order[o].status # "cancelled" /\ order'[o].status = "cancelled" =>
                        order[o].status = "pending"

CancelOnlyPending == [][CancelsPending]_vars

=============================================================================
