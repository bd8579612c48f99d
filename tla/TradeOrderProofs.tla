-------------------------- MODULE TradeOrderProofs --------------------------
(***************************************************************************)
(* Proofs about TradeOrder for any products, buyers, orders, requests and  *)
(* retries.  A sale is right because the two rows its transaction locked   *)
(* are still as it found them (SellerReadsStayTrue); they are, because no  *)
(* other call writes a row that is locked (LocksExclude), and because the  *)
(* rows a call points to are there and stay those of the same product      *)
(* (CallsPointToRows).                                                     *)
(***************************************************************************)
EXTENDS TradeOrder, TLAPS, FiniteSetTheorems

OrderRows == [product : Product \cup {"none"}, buyer : Buyer \cup {"none"},
              status : OrderStatus, buyerConfirmed : BOOLEAN, sellerConfirmed : BOOLEAN]

Calls == [pc : Steps \cup {"idle"}, order : Order \cup {0}, product : Product \cup {"none"},
          buyer : Buyer \cup {"none"}, attempt : 0..(MaxTxRetries - 1)]

rows == <<product, order>>
others == <<takenDown, unseen>>

SellerSteps == {"seller_order", "seller_product", "seller_commit"}

\* What a call keeps names rows that are there.
PointsToRows(c) ==
    /\ c.pc \in CreateSteps \cup {"remove_write"} =>
          c.product \in Product /\ product[c.product] # "none"
    /\ c.pc \in CreateSteps => c.buyer \in Buyer
    /\ c.pc \in OrderSteps => c.order \in Order /\ order[c.order].status # "none"
    /\ c.pc \in SellerSteps => c.product = order[c.order].product

\* What a call read under its locks is still so.
ReadsTrue(c) ==
    /\ HoldsOrder(c, c.order) => order[c.order].status = "confirmed"
    /\ HoldsProduct(c, c.product) => product[c.product] # "sold"

CallsPointToRows == \A r \in Request : PointsToRows(call[r]) /\ ReadsTrue(call[r])

OrdersPointToProducts ==
    \A o \in Order : order[o].status # "none" =>
        order[o].product \in Product /\ product[order[o].product] # "none"

LocksExclude ==
    \A r \in Request : \A q \in Others(r) :
        /\ \A o \in Order : ~(HoldsOrder(call[r], o) /\ HoldsOrder(call[q], o))
        /\ \A p \in Product : ~(HoldsProduct(call[r], p) /\ HoldsProduct(call[q], p))

\* StatusTellsConfirmations of one row.
Consistent(x) ==
    /\ x.sellerConfirmed => x.buyerConfirmed
    /\ x.status \in {"none", "pending"} => ~x.buyerConfirmed
    /\ x.status = "confirmed" => x.buyerConfirmed /\ ~x.sellerConfirmed
    /\ x.status = "completed" => x.sellerConfirmed

IInv ==
    /\ TypeOK
    /\ CallsPointToRows
    /\ OrdersPointToProducts
    /\ LocksExclude
    /\ StatusTellsConfirmations

-----------------------------------------------------------------------------
(* What the invariant says of one call and one row.                         *)

LEMMA IdleFacts ==
  /\ Idle \in Calls /\ Idle.pc = "idle"
  /\ \A o : ~HoldsOrder(Idle, o)
  /\ \A p : ~HoldsProduct(Idle, p)
  /\ PointsToRows(Idle) /\ PointsToRows(Idle)'
  /\ ReadsTrue(Idle) /\ ReadsTrue(Idle)'
BY BoundsAssumption DEF Idle, Calls, HoldsOrder, HoldsProduct, PointsToRows, ReadsTrue,
   CreateSteps, OrderSteps, SellerSteps, Steps

LEMMA Types ==
  ASSUME TypeOK
  PROVE  /\ product \in [Product -> ProductStatus]
         /\ order \in [Order -> OrderRows]
         /\ call \in [Request -> Calls]
BY DEF TypeOK, OrderRows, Calls

LEMMA CallFacts ==
  ASSUME IInv, NEW r \in Request
  PROVE  call[r] \in Calls /\ PointsToRows(call[r]) /\ ReadsTrue(call[r])
BY Types DEF IInv, CallsPointToRows

LEMMA RowFacts ==
  ASSUME IInv, NEW o \in Order
  PROVE  order[o] \in OrderRows /\ Consistent(order[o])
BY Types DEF IInv, StatusTellsConfirmations, Consistent

\* The rows a transaction has locked.
LEMMA LockedFacts ==
  ASSUME IInv, NEW r \in Request, call[r].pc \in {"seller_product", "seller_commit"}
  PROVE  /\ call[r].order \in Order
         /\ order[call[r].order].status = "confirmed"
         /\ order[call[r].order].product = call[r].product
         /\ call[r].product \in Product
<1>1. /\ call[r].order \in Order
      /\ order[call[r].order].status = "confirmed"
      /\ order[call[r].order].product = call[r].product
  BY CallFacts DEF PointsToRows, ReadsTrue, HoldsOrder, OrderSteps, SellerSteps
<1> QED
  BY <1>1 DEF IInv, OrdersPointToProducts

-----------------------------------------------------------------------------
(* Steps by what they write.                                                *)

\* A request may go on to any call that names rows that are there and takes
\* locks that are free.
LEMMA CallStep ==
  ASSUME IInv, UNCHANGED <<rows, others>>,
         NEW r \in Request, NEW c \in Calls,
         call' = [call EXCEPT ![r] = c],
         PointsToRows(c), ReadsTrue(c),
         \A o \in Order : HoldsOrder(c, o) => OrderFree(r, o),
         \A p \in Product : HoldsProduct(c, p) => ProductFree(r, p)
  PROVE  IInv'
<1>1. call \in [Request -> Calls]
  BY Types DEF IInv
<1>2. call'[r] = c /\ \A q \in Others(r) : call'[q] = call[q]
  BY <1>1 DEF Others
<1>3. TypeOK'
  BY <1>1 DEF IInv, TypeOK, Calls, rows, others
<1>4. CallsPointToRows'
  BY <1>2 DEF IInv, CallsPointToRows, PointsToRows, ReadsTrue, Others, rows
<1>5. LocksExclude'
  BY <1>2 DEF IInv, LocksExclude, Others, OrderFree, ProductFree
<1>6. OrdersPointToProducts' /\ StatusTellsConfirmations'
  BY DEF IInv, OrdersPointToProducts, StatusTellsConfirmations, rows
<1> QED
  BY <1>3, <1>4, <1>5, <1>6 DEF IInv

\* Answering the client is always such a step.
LEMMA ReturnStep ==
  ASSUME IInv, UNCHANGED <<rows, others>>, NEW r \in Request, Return(r)
  PROVE  IInv'
BY IdleFacts, CallStep DEF Return

\* A request's next call keeps its product, its buyer and its order.
LEMMA GotoStep ==
  ASSUME IInv, UNCHANGED <<rows, others>>, NEW r \in Request, NEW pc \in Steps, Goto(r, pc),
         LET c == call[r] IN
           \/ c.pc = "order_lookup" /\ pc \in {"order_insert", "order_insert_unseen"}
           \/ /\ c.pc = "seller_order" /\ pc = "seller_product"
              /\ order[c.order].status = "confirmed"
              /\ OrderFree(r, c.order)
           \/ /\ c.pc = "seller_product" /\ pc = "seller_commit"
              /\ product[c.product] # "sold"
              /\ ProductFree(r, c.product)
  PROVE  IInv'
<1> DEFINE c == call[r]
           d == [pc |-> pc, order |-> c.order, product |-> c.product,
                 buyer |-> c.buyer, attempt |-> c.attempt]
<1>1. c \in Calls /\ PointsToRows(c) /\ ReadsTrue(c)
  BY CallFacts
<1>2. /\ d \in Calls /\ d.pc = pc /\ d.order = c.order /\ d.product = c.product
      /\ d.buyer = c.buyer
  BY <1>1 DEF Calls
<1>3. PointsToRows(d)
  BY <1>1, <1>2 DEF PointsToRows, CreateSteps, OrderSteps, SellerSteps
<1>4. ReadsTrue(d)
  BY <1>1, <1>2 DEF ReadsTrue, HoldsOrder, HoldsProduct
<1>5. \A o \in Order : HoldsOrder(d, o) => OrderFree(r, o)
  BY <1>1, <1>2 DEF IInv, LocksExclude, HoldsOrder, OrderFree
<1>6. \A p \in Product : HoldsProduct(d, p) => ProductFree(r, p)
  BY <1>1, <1>2 DEF HoldsProduct
<1>7. call' = [call EXCEPT ![r] = d]
  BY DEF Goto
<1> HIDE DEF d
<1> QED
  BY <1>2, <1>3, <1>4, <1>5, <1>6, <1>7, CallStep

\* A row of trade_orders that no other request has locked is inserted or written;
\* a row once there stays that of its product.
LEMMA OrderStep ==
  ASSUME IInv, UNCHANGED <<product, takenDown>>, unseen' \subseteq Order,
         NEW r \in Request, Return(r),
         NEW o \in Order, NEW x \in OrderRows, order' = [order EXCEPT ![o] = x],
         OrderFree(r, o),
         Consistent(x), x.status # "none",
         x.product \in Product, product[x.product] # "none",
         order[o].status # "none" => x.product = order[o].product
  PROVE  IInv'
<1>1. call \in [Request -> Calls] /\ order \in [Order -> OrderRows]
  BY Types DEF IInv
<1>2. call'[r] = Idle /\ \A q \in Others(r) : call'[q] = call[q]
  BY <1>1 DEF Return, Others
<1>3. order'[o] = x /\ \A p \in Order \ {o} : order'[p] = order[p]
  BY <1>1
<1>4. TypeOK'
  BY <1>1, IdleFacts DEF Return, IInv, TypeOK, Calls, OrderRows
<1>5. CallsPointToRows'
  <2> SUFFICES ASSUME NEW q \in Others(r)
               PROVE  PointsToRows(call[q])' /\ ReadsTrue(call[q])'
    BY <1>2, IdleFacts DEF CallsPointToRows, Others
  <2>1. PointsToRows(call[q]) /\ ReadsTrue(call[q]) /\ ~HoldsOrder(call[q], o)
    BY DEF IInv, CallsPointToRows, OrderFree, Others
  <2>2. PointsToRows(call[q])'
    BY <1>2, <1>3, <2>1 DEF PointsToRows, OrderSteps, SellerSteps
  <2>3. ReadsTrue(call[q])'
    BY <1>2, <1>3, <2>1 DEF ReadsTrue, HoldsOrder, HoldsProduct, PointsToRows, OrderSteps
  <2> QED
    BY <2>2, <2>3
<1>6. LocksExclude'
  BY <1>2, IdleFacts DEF IInv, LocksExclude, Others
<1>7. OrdersPointToProducts' /\ StatusTellsConfirmations'
  BY <1>3 DEF IInv, OrdersPointToProducts, StatusTellsConfirmations, Consistent
<1> QED
  BY <1>4, <1>5, <1>6, <1>7 DEF IInv

\* A product is published or removed: nobody relies on its being anything but
\* unsold.
LEMMA ProductStep ==
  ASSUME IInv, UNCHANGED <<order, unseen>>, takenDown' \in [Product -> Nat],
         NEW p \in Product, NEW s \in {"on_sale", "removed"},
         product' = [product EXCEPT ![p] = s],
         call' = call \/ \E r \in Request : Return(r)
  PROVE  IInv'
<1>1. call \in [Request -> Calls] /\ product \in [Product -> ProductStatus]
  BY Types DEF IInv
<1>2. \A q \in Request : call'[q] \in {Idle, call[q]}
  BY <1>1 DEF Return
<1>3. \A z \in Product : /\ product[z] # "none" => product'[z] # "none"
                         /\ product[z] # "sold" => product'[z] # "sold"
  BY <1>1
<1>4. TypeOK'
  <2>1. product' \in [Product -> ProductStatus]
    BY <1>1 DEF ProductStatus
  <2>2. call' \in [Request -> Calls]
    BY <1>1, IdleFacts DEF Return
  <2> QED
    BY <2>1, <2>2 DEF IInv, TypeOK, Calls
<1>5. CallsPointToRows'
  <2> SUFFICES ASSUME NEW q \in Request
               PROVE  PointsToRows(call[q])' /\ ReadsTrue(call[q])'
    BY DEF CallsPointToRows
  <2>1. CASE call'[q] = Idle
    BY <2>1, IdleFacts
  <2>2. CASE call'[q] = call[q]
    <3>1. PointsToRows(call[q]) /\ ReadsTrue(call[q])
      BY DEF IInv, CallsPointToRows
    <3>2. PointsToRows(call[q])'
      BY <1>3, <2>2, <3>1 DEF PointsToRows
    <3>3. HoldsProduct(call[q], call[q].product) => call[q].product \in Product
      BY LockedFacts DEF HoldsProduct
    <3>4. ReadsTrue(call[q])'
      BY <1>3, <2>2, <3>1, <3>3 DEF ReadsTrue, HoldsOrder, HoldsProduct
    <3> QED
      BY <3>2, <3>4
  <2> QED
    BY <1>2, <2>1, <2>2
<1>6. LocksExclude'
  BY <1>2, IdleFacts DEF IInv, LocksExclude, Others
<1>7. OrdersPointToProducts' /\ StatusTellsConfirmations'
  BY <1>3 DEF IInv, OrdersPointToProducts, StatusTellsConfirmations
<1> QED
  BY <1>4, <1>5, <1>6, <1>7 DEF IInv

-----------------------------------------------------------------------------
(* The invariant, action by action.                                         *)

LEMMA StartStep ==
  ASSUME IInv, UNCHANGED <<rows, others>>, NEW r \in Request,
         NEW pc \in Steps, NEW o \in Order \cup {0}, NEW p \in Product \cup {"none"},
         NEW b \in Buyer \cup {"none"}, Start(r, pc, o, p, b),
         \/ pc = "remove_write" /\ p \in Product /\ product[p] # "none"
         \/ pc = "order_lookup" /\ p \in Product /\ product[p] # "none" /\ b \in Buyer
         \/ pc \in {"buyer_write", "cancel_write"} /\ o \in Order /\ order[o].status # "none"
         \/ pc = "seller_order" /\ o \in Order /\ order[o].status # "none" /\ p = order[o].product
  PROVE  IInv'
<1> DEFINE c == [pc |-> pc, order |-> o, product |-> p, buyer |-> b, attempt |-> 0]
<1>1. /\ c \in Calls /\ c.pc = pc /\ c.order = o /\ c.product = p /\ c.buyer = b
  BY BoundsAssumption DEF Calls
<1>2. PointsToRows(c) /\ ReadsTrue(c)
  BY <1>1 DEF PointsToRows, ReadsTrue, HoldsOrder, HoldsProduct, CreateSteps, OrderSteps,
     SellerSteps
<1>3. (\A z \in Order : ~HoldsOrder(c, z)) /\ (\A z \in Product : ~HoldsProduct(c, z))
  BY <1>1 DEF HoldsOrder, HoldsProduct
<1>4. call' = [call EXCEPT ![r] = c]
  BY DEF Start
<1> HIDE DEF c
<1> QED
  BY <1>1, <1>2, <1>3, <1>4, CallStep

LEMMA ArriveKeeps ==
  ASSUME IInv, NEW r \in Request, Arrive(r)
  PROVE  IInv'
<1> USE DEF rows, others, Steps, CreateSteps, OrderSteps
<1>1. CASE \E p \in Product : RemoveStart(r, p)
  BY <1>1, StartStep DEF RemoveStart
<1>2. CASE \E p \in Product, b \in Buyer : CreateStart(r, p, b)
  BY <1>2, StartStep DEF CreateStart
<1>3. CASE \E o \in Order : BuyerStart(r, o)
  BY <1>3, StartStep DEF BuyerStart
<1>4. CASE \E o \in Order : CancelStart(r, o)
  BY <1>4, StartStep DEF CancelStart
<1>5. CASE \E o \in Order : SellerStart(r, o)
  BY <1>5, StartStep, RowFacts DEF SellerStart, OrderRows
<1> QED
  BY <1>1, <1>2, <1>3, <1>4, <1>5 DEF Arrive

LEMMA PublishKeeps ==
  ASSUME IInv, NEW p \in Product, Publish(p)
  PROVE  IInv'
BY ProductStep DEF Publish, IInv, TypeOK

LEMMA RemoveWriteKeeps ==
  ASSUME IInv, NEW r \in Request, RemoveWrite(r)
  PROVE  IInv'
<1>1. call[r].product \in Product
  BY CallFacts DEF RemoveWrite, PointsToRows
<1>2. takenDown' \in [Product -> Nat]
  BY <1>1 DEF RemoveWrite, IInv, TypeOK
<1> QED
  BY <1>1, <1>2, ProductStep DEF RemoveWrite

LEMMA CreateLookupKeeps ==
  ASSUME IInv, NEW r \in Request, CreateLookup(r)
  PROVE  IInv'
<1>1. CASE Return(r)
  BY <1>1, ReturnStep DEF CreateLookup, rows, others
<1>2. CASE Goto(r, "order_insert") \/ Goto(r, "order_insert_unseen")
  BY <1>2, GotoStep DEF CreateLookup, rows, others, Steps, CreateSteps
<1> QED
  BY <1>1, <1>2 DEF CreateLookup

LEMMA CreateInsertKeeps ==
  ASSUME IInv, NEW r \in Request, CreateInsert(r)
  PROVE  IInv'
<1> DEFINE x == [product |-> call[r].product, buyer |-> call[r].buyer, status |-> "pending",
                 buyerConfirmed |-> FALSE, sellerConfirmed |-> FALSE]
<1>1. PICK o \in Order : /\ order[o] = NoOrder
                         /\ order' = [order EXCEPT ![o] = x]
                         /\ unseen' \in {unseen, unseen \cup {o}}
  BY DEF CreateInsert
<1>2. /\ call[r].product \in Product /\ product[call[r].product] # "none"
      /\ call[r].buyer \in Buyer
  BY CallFacts DEF CreateInsert, PointsToRows, CreateSteps
<1>3. x \in OrderRows /\ Consistent(x) /\ x.status # "none" /\ x.product = call[r].product
  BY <1>2 DEF OrderRows, OrderStatus, Consistent
<1>4. OrderFree(r, o)
  BY <1>1, CallFacts
     DEF NoOrder, OrderFree, Others, HoldsOrder, PointsToRows, OrderSteps
<1>5. unseen' \subseteq Order
  BY <1>1 DEF IInv, TypeOK
<1>6. order[o].status = "none"
  BY <1>1 DEF NoOrder
<1>7. Return(r) /\ UNCHANGED <<product, takenDown>>
  BY DEF CreateInsert
<1> HIDE DEF x
<1> QED
  BY <1>1, <1>2, <1>3, <1>4, <1>5, <1>6, <1>7, OrderStep

\* One UPDATE of a row that is there, to a row that tells its confirmations.
LEMMA SetRowKeeps ==
  ASSUME IInv, UNCHANGED <<product, takenDown, unseen>>, NEW r \in Request, Return(r),
         NEW o \in Order, order[o].status # "none", OrderFree(r, o),
         NEW status \in OrderStatus \ {"none"}, NEW bought \in BOOLEAN, NEW sold \in BOOLEAN,
         SetRow(o, status, bought, sold),
         Consistent([product |-> order[o].product, buyer |-> order[o].buyer, status |-> status,
                     buyerConfirmed |-> bought, sellerConfirmed |-> sold])
  PROVE  IInv'
<1> DEFINE x == [product |-> order[o].product, buyer |-> order[o].buyer, status |-> status,
                 buyerConfirmed |-> bought, sellerConfirmed |-> sold]
<1>1. x \in OrderRows /\ x.status # "none" /\ x.product = order[o].product
  BY RowFacts DEF OrderRows
<1>2. order[o].product \in Product /\ product[order[o].product] # "none"
  BY DEF IInv, OrdersPointToProducts
<1>3. order' = [order EXCEPT ![o] = x] /\ Consistent(x)
  BY DEF SetRow
<1>4. unseen' \subseteq Order
  BY DEF IInv, TypeOK
<1> HIDE DEF x
<1> QED
  BY <1>1, <1>2, <1>3, <1>4, OrderStep

LEMMA BuyerWriteKeeps ==
  ASSUME IInv, NEW r \in Request, BuyerWrite(r)
  PROVE  IInv'
<1> DEFINE o == call[r].order
<1>1. o \in Order
  BY CallFacts DEF BuyerWrite, PointsToRows, OrderSteps
<1>2. CASE order[o].status = "pending"
  <2>1. order[o].sellerConfirmed \in BOOLEAN /\ ~order[o].sellerConfirmed
    BY <1>1, <1>2, RowFacts DEF OrderRows, Consistent
  <2>2. Consistent([product |-> order[o].product, buyer |-> order[o].buyer,
                    status |-> "confirmed", buyerConfirmed |-> TRUE,
                    sellerConfirmed |-> order[o].sellerConfirmed])
    BY <2>1 DEF Consistent
  <2>3. SetRow(o, "confirmed", TRUE, order[o].sellerConfirmed)
    BY <1>2 DEF BuyerWrite
  <2> QED
    BY <1>1, <1>2, <2>1, <2>2, <2>3, SetRowKeeps DEF BuyerWrite, OrderStatus
<1>3. CASE order[o].status # "pending"
  BY <1>3, ReturnStep DEF BuyerWrite, rows, others
<1> QED
  BY <1>2, <1>3

LEMMA CancelWriteKeeps ==
  ASSUME IInv, NEW r \in Request, CancelWrite(r)
  PROVE  IInv'
<1> DEFINE o == call[r].order
<1>1. o \in Order /\ order[o].status # "none"
  BY CallFacts DEF CancelWrite, PointsToRows, OrderSteps
<1>2. /\ order[o].buyerConfirmed \in BOOLEAN /\ order[o].sellerConfirmed \in BOOLEAN
      /\ order[o].sellerConfirmed => order[o].buyerConfirmed
  BY <1>1, RowFacts DEF OrderRows, Consistent
<1>3. Consistent([product |-> order[o].product, buyer |-> order[o].buyer,
                  status |-> "cancelled", buyerConfirmed |-> order[o].buyerConfirmed,
                  sellerConfirmed |-> order[o].sellerConfirmed])
  BY <1>2 DEF Consistent
<1> QED
  BY <1>1, <1>2, <1>3, SetRowKeeps DEF CancelWrite, OrderStatus

LEMMA SellerUpdatesKeep ==
  ASSUME IInv, NEW r \in Request, SellerOrder(r) \/ SellerProduct(r)
  PROVE  IInv'
<1>1. CASE Return(r)
  BY <1>1, ReturnStep DEF SellerOrder, SellerProduct, rows, others
<1>2. CASE SellerOrder(r) /\ ~Return(r)
  BY <1>2, GotoStep DEF SellerOrder, rows, others, Steps, OrderSteps
<1>3. CASE SellerProduct(r) /\ ~Return(r)
  BY <1>3, GotoStep DEF SellerProduct, rows, others, Steps, OrderSteps
<1> QED
  BY <1>1, <1>2, <1>3

\* The only step that writes both tables: no other transaction has locked
\* either row.
LEMMA SellerCommitKeeps ==
  ASSUME IInv, NEW r \in Request, SellerCommit(r)
  PROVE  IInv'
<1> DEFINE o == call[r].order
           p == call[r].product
           x == [product |-> order[o].product, buyer |-> order[o].buyer,
                 status |-> "completed", buyerConfirmed |-> order[o].buyerConfirmed,
                 sellerConfirmed |-> TRUE]
<1>1. /\ o \in Order /\ p \in Product
      /\ order[o].status = "confirmed" /\ order[o].product = p
  BY LockedFacts DEF SellerCommit
<1>2. x \in OrderRows /\ Consistent(x) /\ x.product = p /\ x.status = "completed"
  BY <1>1, RowFacts DEF OrderRows, OrderStatus, Consistent
<1>3. order' = [order EXCEPT ![o] = x]
  BY DEF SellerCommit, SetRow
<1> HIDE DEF x
<1>4. /\ product \in [Product -> ProductStatus] /\ order \in [Order -> OrderRows]
      /\ call \in [Request -> Calls]
  BY Types DEF IInv
<1>5. /\ order'[o] = x /\ \A z \in Order \ {o} : order'[z] = order[z]
      /\ product'[p] = "sold" /\ \A z \in Product \ {p} : product'[z] = product[z]
  BY <1>1, <1>3, <1>4 DEF SellerCommit
<1>6. call'[r] = Idle /\ \A q \in Others(r) : call'[q] = call[q]
  BY <1>4 DEF SellerCommit, Return, Others
<1>7. TypeOK'
  <2>1. product' \in [Product -> ProductStatus]
    BY <1>4 DEF SellerCommit, ProductStatus
  <2>2. order' \in [Order -> OrderRows]
    BY <1>2, <1>3, <1>4
  <2>3. call' \in [Request -> Calls]
    BY <1>4, IdleFacts DEF SellerCommit, Return
  <2> QED
    BY <2>1, <2>2, <2>3 DEF SellerCommit, IInv, TypeOK, Calls, OrderRows
<1>8. CallsPointToRows'
  <2> SUFFICES ASSUME NEW q \in Others(r)
               PROVE  PointsToRows(call[q])' /\ ReadsTrue(call[q])'
    BY <1>6, IdleFacts DEF CallsPointToRows, Others
  <2>1. PointsToRows(call[q]) /\ ReadsTrue(call[q]) /\ call'[q] = call[q]
    BY <1>6 DEF IInv, CallsPointToRows, Others
  <2>2. ~HoldsOrder(call[q], o) /\ ~HoldsProduct(call[q], p)
    BY <1>1 DEF IInv, LocksExclude, SellerCommit, HoldsOrder, HoldsProduct
  <2>3. HoldsProduct(call[q], call[q].product) => call[q].product \in Product
    BY LockedFacts DEF HoldsProduct, Others
  <2>4. PointsToRows(call[q])'
    BY <1>1, <1>2, <1>5, <2>1 DEF PointsToRows, OrderSteps, SellerSteps
  <2>5. ReadsTrue(call[q])'
    BY <1>5, <2>1, <2>2, <2>3 DEF ReadsTrue, HoldsOrder, HoldsProduct, PointsToRows, OrderSteps
  <2> QED
    BY <2>4, <2>5
<1>9. LocksExclude'
  BY <1>6, IdleFacts DEF IInv, LocksExclude, Others
<1>10. OrdersPointToProducts'
  BY <1>1, <1>2, <1>5 DEF IInv, OrdersPointToProducts
<1>11. StatusTellsConfirmations'
  BY <1>2, <1>5 DEF IInv, StatusTellsConfirmations, Consistent
<1> QED
  BY <1>7, <1>8, <1>9, <1>10, <1>11 DEF IInv

LEMMA LockErrorKeeps ==
  ASSUME IInv, NEW r \in Request, LockError(r)
  PROVE  IInv'
<1> DEFINE c == call[r]
           d == [pc |-> "seller_order", order |-> c.order, product |-> c.product,
                 buyer |-> c.buyer, attempt |-> c.attempt + 1]
<1>1. CASE Return(r)
  BY <1>1, ReturnStep DEF LockError, rows, others
<1>2. CASE c.attempt + 1 < MaxTxRetries /\ call' = [call EXCEPT ![r] = d]
  <2>1. c \in Calls /\ PointsToRows(c) /\ c.pc \in {"seller_order", "seller_product"}
    BY CallFacts DEF LockError
  <2>2. /\ d \in Calls /\ d.pc = "seller_order" /\ d.order = c.order
        /\ d.product = c.product
    BY <1>2, <2>1, BoundsAssumption DEF Calls, Steps, OrderSteps
  <2>3. PointsToRows(d) /\ ReadsTrue(d)
    BY <2>1, <2>2 DEF PointsToRows, ReadsTrue, HoldsOrder, HoldsProduct, CreateSteps,
       OrderSteps, SellerSteps
  <2>4. (\A z \in Order : ~HoldsOrder(d, z)) /\ (\A z \in Product : ~HoldsProduct(d, z))
    BY <2>2 DEF HoldsOrder, HoldsProduct
  <2> HIDE DEF d
  <2> QED
    BY <1>2, <2>2, <2>3, <2>4, CallStep DEF LockError, rows, others
<1> QED
  BY <1>1, <1>2 DEF LockError

LEMMA InitKeeps == Init => IInv
<1> SUFFICES ASSUME Init
             PROVE  IInv
  OBVIOUS
<1>1. TypeOK
  BY IdleFacts DEF Init, TypeOK, NoOrder, ProductStatus, OrderStatus, Calls
<1>2. CallsPointToRows /\ LocksExclude
  BY IdleFacts DEF Init, CallsPointToRows, LocksExclude, Others
<1>3. OrdersPointToProducts /\ StatusTellsConfirmations
  BY DEF Init, OrdersPointToProducts, StatusTellsConfirmations, NoOrder
<1> QED
  BY <1>1, <1>2, <1>3 DEF IInv

LEMMA NextKeeps == IInv /\ [Next]_vars => IInv'
<1> SUFFICES ASSUME IInv, [Next]_vars
             PROVE  IInv'
  OBVIOUS
<1>1. CASE UNCHANGED vars
  BY <1>1 DEF vars, IInv, TypeOK, CallsPointToRows, PointsToRows, ReadsTrue,
     OrdersPointToProducts, LocksExclude, StatusTellsConfirmations
<1>2. ASSUME NEW r \in Request, Fail(r)
      PROVE  IInv'
  BY <1>2, ReturnStep DEF Fail, rows, others
<1>3. ASSUME NEW r \in Request, Proceed(r)
      PROVE  IInv'
  BY <1>3, RemoveWriteKeeps, CreateLookupKeeps, CreateInsertKeeps, BuyerWriteKeeps,
     SellerUpdatesKeep, SellerCommitKeeps, CancelWriteKeeps, LockErrorKeeps DEF Proceed
<1> QED
  BY <1>1, <1>2, <1>3, PublishKeeps, ArriveKeeps DEF Next

LEMMA Invariance == Spec => []IInv
BY InitKeeps, NextKeeps, PTL DEF Spec

\* Rows and requests keep their types, for any number of orders and requests.
THEOREM TypeCorrect == Spec => []TypeOK
<1>1. IInv => TypeOK
  BY DEF IInv
<1> QED
  BY Invariance, <1>1, PTL

\* A row's status and its two confirmations always tell the same story.
THEOREM StatusAlwaysTells == Spec => []StatusTellsConfirmations
<1>1. IInv => StatusTellsConfirmations
  BY DEF IInv
<1> QED
  BY Invariance, <1>1, PTL

\* Whatever SellerConfirm's transaction has matched and locked stays so until it
\* commits, though its order was read before it began.
THEOREM SellerReadsRemainTrue == Spec => []SellerReadsStayTrue
<1>1. IInv => SellerReadsStayTrue
  <2> SUFFICES ASSUME IInv
               PROVE  SellerReadsStayTrue
    OBVIOUS
  <2>1. ASSUME NEW r \in Request, HoldsOrder(call[r], call[r].order)
        PROVE  /\ order[call[r].order].status = "confirmed"
               /\ order[call[r].order].product = call[r].product
    BY <2>1, LockedFacts DEF HoldsOrder
  <2>2. ASSUME NEW r \in Request, HoldsProduct(call[r], call[r].product)
        PROVE  product[call[r].product] # "sold"
    BY <2>2, CallFacts DEF ReadsTrue
  <2> QED
    BY <2>1, <2>2 DEF SellerReadsStayTrue
<1> QED
  BY Invariance, <1>1, PTL

-----------------------------------------------------------------------------
(* One sale at a time.                                                      *)

\* Completing an order adds it to the sales of its product, and only to these.
LEMMA SaleCounted ==
  ASSUME IInv, EverySaleSells, NEW r \in Request, SellerCommit(r)
  PROVE  EverySaleSells'
<1>1. PICK o \in Order, p \in Product :
         /\ o = call[r].order /\ p = call[r].product
         /\ order[o].status = "confirmed" /\ order[o].product = p
  BY LockedFacts DEF SellerCommit
<1>2. product[p] # "sold" /\ ~order[o].sellerConfirmed
  BY <1>1, CallFacts, RowFacts DEF SellerCommit, ReadsTrue, HoldsProduct, Consistent
<1>3. /\ product \in [Product -> ProductStatus] /\ order \in [Order -> OrderRows]
      /\ takenDown \in [Product -> Nat]
  BY Types DEF IInv, TypeOK
<1>4. /\ order'[o].product = p /\ order'[o].sellerConfirmed
      /\ \A z \in Order \ {o} : order'[z] = order[z]
      /\ product'[p] = "sold" /\ \A z \in Product \ {p} : product'[z] = product[z]
      /\ takenDown' = takenDown
  BY <1>1, <1>3 DEF SellerCommit, SetRow
<1>5. SUFFICES ASSUME NEW z \in Product
               PROVE  Cardinality(Sales(z)') =
                         takenDown'[z] + IF product'[z] = "sold" THEN 1 ELSE 0
  BY DEF EverySaleSells
<1>6. Cardinality(Sales(z)) = takenDown[z] + IF product[z] = "sold" THEN 1 ELSE 0
  BY DEF EverySaleSells
<1>7. CASE z = p
  <2>1. Sales(p)' = Sales(p) \cup {o} /\ o \notin Sales(p)
    BY <1>1, <1>2, <1>4 DEF Sales
  <2>2. IsFiniteSet(Sales(p))
    <3>1. IsFiniteSet(Order)
      BY FS_Interval, BoundsAssumption DEF Order
    <3> QED
      BY <3>1, FS_Subset DEF Sales
  <2>3. Cardinality(Sales(p)') = Cardinality(Sales(p)) + 1
    BY <2>1, <2>2, FS_AddElement
  <2> QED
    BY <1>2, <1>3, <1>4, <1>6, <1>7, <2>3
<1>8. CASE z # p
  <2>1. Sales(z)' = Sales(z)
    BY <1>1, <1>4, <1>8 DEF Sales
  <2> QED
    BY <1>4, <1>6, <1>8, <2>1
<1> QED
  BY <1>7, <1>8

\* Taking a sold product down moves its sale from the product to the count.
LEMMA RemovalCounted ==
  ASSUME IInv, EverySaleSells, NEW r \in Request, RemoveWrite(r)
  PROVE  EverySaleSells'
<1> DEFINE p == call[r].product
<1>1. p \in Product
  BY CallFacts DEF RemoveWrite, PointsToRows
<1>2. product \in [Product -> ProductStatus] /\ takenDown \in [Product -> Nat]
  BY DEF IInv, TypeOK
<1>3. /\ product'[p] = "removed" /\ \A z \in Product \ {p} : product'[z] = product[z]
      /\ takenDown'[p] = takenDown[p] + IF product[p] = "sold" THEN 1 ELSE 0
      /\ \A z \in Product \ {p} : takenDown'[z] = takenDown[z]
  BY <1>1, <1>2 DEF RemoveWrite
<1>4. \A z : Sales(z)' = Sales(z)
  BY DEF Sales, RemoveWrite
<1> QED
  BY <1>2, <1>3, <1>4 DEF EverySaleSells

\* No other step sets or clears a seller's confirmation, or sells or removes.
LEMMA SalesUnmoved ==
  ASSUME IInv, EverySaleSells, UNCHANGED takenDown,
         \A z \in Product : product'[z] = "sold" <=> product[z] = "sold",
         \A o \in Order : /\ order'[o].sellerConfirmed <=> order[o].sellerConfirmed
                          /\ order[o].sellerConfirmed => order'[o].product = order[o].product
  PROVE  EverySaleSells'
<1>1. \A z : Sales(z)' = Sales(z)
  BY DEF Sales
<1> QED
  BY <1>1 DEF EverySaleSells

LEMMA OrderWritesUnmoved ==
  ASSUME IInv, EverySaleSells, NEW r \in Request,
         CreateInsert(r) \/ BuyerWrite(r) \/ CancelWrite(r)
  PROVE  EverySaleSells'
<1>1. order \in [Order -> OrderRows]
  BY Types DEF IInv
<1>2. UNCHANGED <<product, takenDown>>
  BY DEF CreateInsert, BuyerWrite, CancelWrite
<1>3. \A o \in Order : /\ order'[o].sellerConfirmed <=> order[o].sellerConfirmed
                       /\ order[o].sellerConfirmed => order'[o].product = order[o].product
  <2>1. CASE CreateInsert(r)
    BY <1>1, <2>1 DEF CreateInsert, NoOrder
  <2>2. CASE BuyerWrite(r)
    BY <1>1, <2>2 DEF BuyerWrite, SetRow
  <2>3. CASE CancelWrite(r)
    BY <1>1, <2>3 DEF CancelWrite, SetRow
  <2> QED
    BY <2>1, <2>2, <2>3
<1> QED
  BY <1>2, <1>3, SalesUnmoved

LEMMA SalesKeep == IInv /\ EverySaleSells /\ [Next]_vars => EverySaleSells'
<1> SUFFICES ASSUME IInv, EverySaleSells, [Next]_vars
             PROVE  EverySaleSells'
  OBVIOUS
<1>1. CASE UNCHANGED <<rows, takenDown>>
  BY <1>1, SalesUnmoved DEF rows
<1>2. CASE \E p \in Product : Publish(p)
  <2>1. product \in [Product -> ProductStatus]
    BY DEF IInv, TypeOK
  <2> QED
    BY <1>2, <2>1, SalesUnmoved DEF Publish
<1>3. CASE \E r \in Request : Arrive(r) \/ Fail(r)
  BY <1>1, <1>3 DEF Arrive, Fail, RemoveStart, CreateStart, BuyerStart, SellerStart,
     CancelStart, rows
<1>4. ASSUME NEW r \in Request, Proceed(r)
      PROVE  EverySaleSells'
  <2>1. CASE CreateLookup(r) \/ SellerOrder(r) \/ SellerProduct(r) \/ LockError(r)
    BY <1>1, <2>1 DEF CreateLookup, SellerOrder, SellerProduct, LockError, rows
  <2> QED
    BY <1>4, <2>1, SaleCounted, RemovalCounted, OrderWritesUnmoved DEF Proceed
<1> QED
  BY <1>1, <1>2, <1>3, <1>4 DEF Next, vars, rows

\* A product is sold once, and once more for each time its seller takes it down
\* after a sale, however many buyers, orders and confirmations race.
THEOREM SoldOnce == Spec => []EverySaleSells
<1>1. Init => EverySaleSells
  <2> SUFFICES ASSUME Init
               PROVE  EverySaleSells
    OBVIOUS
  <2>1. \A p \in Product : Sales(p) = {}
    BY DEF Init, NoOrder, Sales
  <2> QED
    BY <2>1, FS_EmptySet DEF Init, EverySaleSells
<1> QED
  BY <1>1, Invariance, SalesKeep, PTL DEF Spec

-----------------------------------------------------------------------------
(* Duplicate orders.                                                        *)

Waiting(p, b) == {r \in Request : /\ call[r].pc = "order_insert"
                                  /\ call[r].product = p
                                  /\ call[r].buyer = b}

Known(p, b) == Active(p, b) \ unseen

LEMMA SetFacts ==
  ASSUME NEW p, NEW b
  PROVE  /\ IsFiniteSet(Known(p, b)) /\ Cardinality(Known(p, b)) \in Nat
         /\ IsFiniteSet(Waiting(p, b)) /\ Cardinality(Waiting(p, b)) \in Nat
         /\ Cardinality(Waiting(p, b)) <= Cardinality(Request)
         /\ Cardinality(Request) \in Nat
<1>1. IsFiniteSet(Order) /\ IsFiniteSet(Request)
  BY FS_Interval, BoundsAssumption DEF Order
<1>2. Known(p, b) \in SUBSET Order /\ Waiting(p, b) \in SUBSET Request
  BY DEF Known, Active, Waiting
<1> QED
  BY <1>1, <1>2, FS_Subset, FS_CardinalityType

\* One buyer's orders for one product and the requests about to insert another:
\* as long as neither set grows, nothing is to be shown.
LEMMA NeitherGrows ==
  ASSUME DuplicatesExplained, NEW p \in Product, NEW b \in Buyer,
         NEW K \in SUBSET Known(p, b), NEW W \in SUBSET Waiting(p, b)
  PROVE  Cardinality(K) + Cardinality(W) <= Cardinality(Request)
<1>1. Cardinality(Known(p, b)) + Cardinality(Waiting(p, b)) <= Cardinality(Request)
  BY DEF DuplicatesExplained, Known, Waiting
<1>2. /\ IsFiniteSet(K) /\ Cardinality(K) \in Nat
      /\ Cardinality(K) <= Cardinality(Known(p, b))
  BY SetFacts, FS_Subset, FS_CardinalityType
<1>3. /\ IsFiniteSet(W) /\ Cardinality(W) \in Nat
      /\ Cardinality(W) <= Cardinality(Waiting(p, b))
  BY SetFacts, FS_Subset, FS_CardinalityType
<1> QED
  BY <1>1, <1>2, <1>3, SetFacts

\* No row becomes active, and no request comes to insert.
LEMMA QuietStep ==
  ASSUME DuplicatesExplained,
         unseen \subseteq unseen',
         \A o \in Order : order'[o].status \in {"pending", "confirmed"} /\ o \notin unseen' =>
            /\ order[o].status \in {"pending", "confirmed"}
            /\ order'[o].product = order[o].product /\ order'[o].buyer = order[o].buyer,
         \A r \in Request : call'[r].pc = "order_insert" => call'[r] = call[r]
  PROVE  DuplicatesExplained'
<1> SUFFICES ASSUME NEW p \in Product, NEW b \in Buyer
             PROVE  Cardinality(Known(p, b)') + Cardinality(Waiting(p, b)') <= Cardinality(Request)
  BY DEF DuplicatesExplained, Known, Waiting
<1>1. Known(p, b)' \subseteq Known(p, b)
  BY DEF Known, Active
<1>2. Waiting(p, b)' \subseteq Waiting(p, b)
  BY DEF Waiting
<1> QED
  BY <1>1, <1>2, NeitherGrows

\* The look-up found nothing: from here only requests can race.
LEMMA LookupExplained ==
  ASSUME IInv, DuplicatesExplained, NEW r \in Request, CreateLookup(r)
  PROVE  DuplicatesExplained'
<1>1. call \in [Request -> Calls]
  BY Types DEF IInv
<1>2. CASE Active(call[r].product, call[r].buyer) = {} /\ Goto(r, "order_insert")
  <2>1. PICK q, c : q = call[r].product /\ c = call[r].buyer
    OBVIOUS
  <2>2. /\ call'[r].product = q /\ call'[r].buyer = c
        /\ \A z \in Request \ {r} : call'[z] = call[z]
        /\ UNCHANGED <<order, unseen>>
    BY <1>1, <1>2, <2>1 DEF Goto, CreateLookup
  <2> SUFFICES ASSUME NEW p \in Product, NEW b \in Buyer
               PROVE  Cardinality(Known(p, b)') + Cardinality(Waiting(p, b)')
                         <= Cardinality(Request)
    BY DEF DuplicatesExplained, Known, Waiting
  <2>3. Known(p, b)' = Known(p, b)
    BY <2>2 DEF Known, Active
  <2>4. CASE p = q /\ b = c
    <3>1. Known(p, b) = {}
      BY <1>2, <2>1, <2>4 DEF Known
    <3>2. Cardinality(Known(p, b)') = 0
      BY <2>3, <3>1, FS_EmptySet
    <3>3. Waiting(p, b)' \in SUBSET Request
      BY DEF Waiting
    <3>4. IsFiniteSet(Request)
      BY BoundsAssumption
    <3>5. /\ Cardinality(Waiting(p, b)') <= Cardinality(Request)
          /\ Cardinality(Waiting(p, b)') \in Nat
      BY <3>3, <3>4, FS_Subset, FS_CardinalityType
    <3> QED
      BY <3>2, <3>5
  <2>5. CASE ~(p = q /\ b = c)
    <3>1. Waiting(p, b)' \subseteq Waiting(p, b)
      BY <2>2, <2>5 DEF Waiting
    <3> QED
      BY <2>3, <3>1, NeitherGrows
  <2> QED
    BY <2>4, <2>5
<1>3. CASE Return(r) \/ Goto(r, "order_insert_unseen")
  <2>1. call'[r].pc # "order_insert" /\ \A z \in Request \ {r} : call'[z] = call[z]
    BY <1>1, <1>3, IdleFacts DEF Goto, Return
  <2> QED
    BY <2>1, QuietStep DEF CreateLookup
<1> QED
  BY <1>2, <1>3 DEF CreateLookup

\* The INSERT makes one order of one waiting request; an order whose look-up
\* failed is not counted.
LEMMA InsertExplained ==
  ASSUME IInv, DuplicatesExplained, NEW r \in Request, CreateInsert(r)
  PROVE  DuplicatesExplained'
<1>1. call \in [Request -> Calls] /\ order \in [Order -> OrderRows]
  BY Types DEF IInv
<1>2. call'[r].pc = "idle" /\ \A z \in Request \ {r} : call'[z] = call[z]
  BY <1>1, IdleFacts DEF CreateInsert, Return
<1>3. PICK o \in Order, q \in Product, c \in Buyer :
         /\ q = call[r].product /\ c = call[r].buyer
         /\ order'[o].product = q /\ order'[o].buyer = c
         /\ \A z \in Order \ {o} : order'[z] = order[z]
         /\ unseen' = IF call[r].pc = "order_insert" THEN unseen ELSE unseen \cup {o}
  <2>1. call[r].product \in Product /\ call[r].buyer \in Buyer
    BY CallFacts DEF CreateInsert, PointsToRows, CreateSteps
  <2>2. PICK o \in Order :
           /\ order' = [order EXCEPT ![o] =
                 [product |-> call[r].product, buyer |-> call[r].buyer, status |-> "pending",
                  buyerConfirmed |-> FALSE, sellerConfirmed |-> FALSE]]
           /\ unseen' = IF call[r].pc = "order_insert" THEN unseen ELSE unseen \cup {o}
    BY DEF CreateInsert
  <2>3. /\ order'[o].product = call[r].product /\ order'[o].buyer = call[r].buyer
        /\ \A z \in Order \ {o} : order'[z] = order[z]
    BY <1>1, <2>2
  <2> QED
    BY <2>1, <2>2, <2>3
<1>4. CASE call[r].pc = "order_insert_unseen"
  BY <1>2, <1>3, <1>4, QuietStep
<1>5. CASE call[r].pc = "order_insert"
  <2> SUFFICES ASSUME NEW p \in Product, NEW b \in Buyer
               PROVE  Cardinality(Known(p, b)') + Cardinality(Waiting(p, b)')
                         <= Cardinality(Request)
    BY DEF DuplicatesExplained, Known, Waiting
  <2>1. CASE p = q /\ b = c
    <3>1. Known(p, b)' \in SUBSET (Known(p, b) \cup {o})
      BY <1>3, <1>5 DEF Known, Active
    <3>2. r \in Waiting(p, b) /\ Waiting(p, b)' = Waiting(p, b) \ {r}
      BY <1>2, <1>3, <1>5, <2>1 DEF Waiting
    <3>3. /\ IsFiniteSet(Known(p, b) \cup {o})
          /\ Cardinality(Known(p, b) \cup {o}) <= Cardinality(Known(p, b)) + 1
          /\ Cardinality(Known(p, b) \cup {o}) \in Nat
      <4>1. IsFiniteSet(Known(p, b)) /\ Cardinality(Known(p, b)) \in Nat
        BY SetFacts
      <4>2. PICK K : K = Known(p, b)
        OBVIOUS
      <4>3. IsFiniteSet(K) /\ Cardinality(K) \in Nat
        BY <4>1, <4>2
      <4>4. /\ IsFiniteSet(K \cup {o})
            /\ Cardinality(K \cup {o}) = IF o \in K THEN Cardinality(K) ELSE Cardinality(K) + 1
        BY <4>3, FS_AddElement
      <4> QED
        BY <4>2, <4>3, <4>4
    <3>4. /\ Cardinality(Known(p, b)') <= Cardinality(Known(p, b) \cup {o})
          /\ Cardinality(Known(p, b)') \in Nat
      BY <3>1, <3>3, FS_Subset, FS_CardinalityType
    <3>5. Cardinality(Waiting(p, b)') = Cardinality(Waiting(p, b)) - 1
      BY <3>2, SetFacts, FS_RemoveElement
    <3>6. Cardinality(Known(p, b)) + Cardinality(Waiting(p, b)) <= Cardinality(Request)
      BY DEF DuplicatesExplained, Known, Waiting
    <3> QED
      BY <3>3, <3>4, <3>5, <3>6, SetFacts
  <2>2. CASE ~(p = q /\ b = c)
    <3>1. Known(p, b)' \subseteq Known(p, b)
      BY <1>3, <1>5, <2>2 DEF Known, Active
    <3>2. Waiting(p, b)' \subseteq Waiting(p, b)
      BY <1>2 DEF Waiting
    <3> QED
      BY <3>1, <3>2, NeitherGrows
  <2> QED
    BY <2>1, <2>2
<1> QED
  BY <1>4, <1>5 DEF CreateInsert

\* The other steps activate no row, and leave no request about to insert.
LEMMA OthersQuiet ==
  ASSUME IInv, DuplicatesExplained, NEW r \in Request,
         \/ Arrive(r) \/ Fail(r)
         \/ RemoveWrite(r) \/ BuyerWrite(r) \/ CancelWrite(r)
         \/ SellerOrder(r) \/ SellerProduct(r) \/ SellerCommit(r) \/ LockError(r)
  PROVE  DuplicatesExplained'
<1>1. call \in [Request -> Calls] /\ order \in [Order -> OrderRows]
  BY Types DEF IInv
<1>2. UNCHANGED unseen
  BY DEF Arrive, RemoveStart, CreateStart, BuyerStart, SellerStart, CancelStart, Fail,
     RemoveWrite, BuyerWrite, CancelWrite, SellerOrder, SellerProduct, SellerCommit, LockError
<1>3. \A o \in Order : order'[o].status \in {"pending", "confirmed"} =>
         /\ order[o].status \in {"pending", "confirmed"}
         /\ order'[o].product = order[o].product /\ order'[o].buyer = order[o].buyer
  <2>1. CASE UNCHANGED order
    BY <2>1
  <2>2. CASE BuyerWrite(r) /\ order[call[r].order].status = "pending"
    BY <1>1, <2>2 DEF BuyerWrite, SetRow
  <2>3. CASE CancelWrite(r)
    BY <1>1, <2>3 DEF CancelWrite, SetRow
  <2>4. CASE SellerCommit(r)
    BY <1>1, <2>4 DEF SellerCommit, SetRow
  <2> QED
    BY <2>1, <2>2, <2>3, <2>4
       DEF Arrive, RemoveStart, CreateStart, BuyerStart, SellerStart, CancelStart, Fail,
           RemoveWrite, BuyerWrite, SellerOrder, SellerProduct, LockError
<1>4. /\ call'[r].pc # "order_insert"
      /\ \A q \in Request \ {r} : call'[q] = call[q]
  <2>1. CASE Return(r)
    BY <1>1, <2>1, IdleFacts DEF Return
  <2>2. CASE Arrive(r)
    BY <1>1, <2>2
       DEF Arrive, RemoveStart, CreateStart, BuyerStart, SellerStart, CancelStart, Start
  <2>3. CASE Goto(r, "seller_product") \/ Goto(r, "seller_commit")
    BY <1>1, <2>3 DEF Goto
  <2>4. CASE LockError(r) /\ ~Return(r)
    BY <1>1, <2>4 DEF LockError
  <2> QED
    BY <2>1, <2>2, <2>3, <2>4
       DEF Fail, RemoveWrite, BuyerWrite, CancelWrite, SellerOrder, SellerProduct, SellerCommit
<1> QED
  BY <1>2, <1>3, <1>4, QuietStep

LEMMA DuplicatesKeep == IInv /\ DuplicatesExplained /\ [Next]_vars => DuplicatesExplained'
<1> SUFFICES ASSUME IInv, DuplicatesExplained, [Next]_vars
             PROVE  DuplicatesExplained'
  OBVIOUS
<1>1. CASE UNCHANGED vars
  BY <1>1, QuietStep DEF vars
<1>2. CASE \E p \in Product : Publish(p)
  <2>1. UNCHANGED <<order, call, unseen>>
    BY <1>2 DEF Publish
  <2> QED
    BY <2>1, QuietStep
<1>3. ASSUME NEW r \in Request, Arrive(r) \/ Proceed(r) \/ Fail(r)
      PROVE  DuplicatesExplained'
  BY <1>3, LookupExplained, InsertExplained, OthersQuiet DEF Proceed
<1> QED
  BY <1>1, <1>2, <1>3 DEF Next

\* A buyer's active orders for one product are at most as many as requests can
\* race, but for those whose look-up failed.
THEOREM DuplicatesAreRaces == Spec => []DuplicatesExplained
<1>1. Init => DuplicatesExplained
  <2> SUFFICES ASSUME Init, NEW p \in Product, NEW b \in Buyer
               PROVE  Cardinality(Known(p, b)) + Cardinality(Waiting(p, b)) <= Cardinality(Request)
    BY DEF DuplicatesExplained, Known, Waiting
  <2>1. Known(p, b) = {}
    BY DEF Init, NoOrder, Known, Active
  <2>2. Cardinality(Known(p, b)) = 0
    BY <2>1, FS_EmptySet
  <2> QED
    BY <2>2, SetFacts
<1> QED
  BY <1>1, Invariance, DuplicatesKeep, PTL DEF Spec

-----------------------------------------------------------------------------
(* Refinement.                                                              *)

LEMMA InitImplements == Init => Market!Init
BY DEF Init, Deals, NoOrder, Market!Init, Market!NoDeal, Market!Deal

\* A row of trade_orders is written: one deal changes, and it alone.
LEMMA DealStep ==
  ASSUME IInv, NEW o \in Order, NEW x, order' = [order EXCEPT ![o] = x]
  PROVE  Deals' = [Deals EXCEPT ![o] = Market!Deal(x.product, x.buyer, x.status)]
<1>1. order \in [Order -> OrderRows]
  BY Types DEF IInv
<1>2. order'[o] = x /\ \A z \in Order \ {o} : order'[z] = order[z]
  BY <1>1
<1> QED
  BY <1>2 DEF Deals, Market!Deal

LEMMA DealFacts ==
  ASSUME NEW o \in Order
  PROVE  /\ Deals[o].product = order[o].product
         /\ Deals[o].buyer = order[o].buyer
         /\ Deals[o].status = order[o].status
BY DEF Deals

LEMMA SetRowMoves ==
  ASSUME IInv, NEW o \in Order, NEW status, NEW bought, NEW sold,
         SetRow(o, status, bought, sold)
  PROVE  Market!Move(o, status)
<1> DEFINE x == [product |-> order[o].product, buyer |-> order[o].buyer, status |-> status,
                 buyerConfirmed |-> bought, sellerConfirmed |-> sold]
<1>1. order' = [order EXCEPT ![o] = x]
  BY DEF SetRow
<1>2. x.product = order[o].product /\ x.buyer = order[o].buyer /\ x.status = status
  OBVIOUS
<1> HIDE DEF x
<1>3. Deals' = [Deals EXCEPT ![o] = Market!Deal(x.product, x.buyer, x.status)]
  BY <1>1, DealStep, Zenon
<1> QED
  BY <1>2, <1>3, DealFacts DEF Market!Move

LEMMA RemoveImplements ==
  ASSUME IInv, NEW r \in Request, RemoveWrite(r)
  PROVE  Market!Next
<1>1. call[r].product \in Product /\ product[call[r].product] # "none"
  BY CallFacts DEF RemoveWrite, PointsToRows
<1>2. Market!TakeDown(call[r].product)
  BY <1>1 DEF RemoveWrite, Deals, Market!TakeDown
<1> QED
  BY <1>1, <1>2 DEF Market!Next

LEMMA InsertImplements ==
  ASSUME IInv, NEW r \in Request, CreateInsert(r)
  PROVE  Market!Next
<1> DEFINE p == call[r].product
           b == call[r].buyer
           x == [product |-> p, buyer |-> b, status |-> "pending",
                 buyerConfirmed |-> FALSE, sellerConfirmed |-> FALSE]
<1>1. p \in Product /\ b \in Buyer /\ product[p] # "none"
  BY CallFacts DEF CreateInsert, PointsToRows, CreateSteps
<1>2. PICK o \in Order : order[o] = NoOrder /\ order' = [order EXCEPT ![o] = x]
  BY DEF CreateInsert
<1>3. x.product = p /\ x.buyer = b /\ x.status = "pending"
  OBVIOUS
<1>4. Deals[o] = Market!NoDeal
  BY <1>2 DEF Deals, NoOrder, Market!NoDeal, Market!Deal
<1>5. UNCHANGED product
  BY DEF CreateInsert
<1> HIDE DEF x
<1>6. Deals' = [Deals EXCEPT ![o] = Market!Deal(x.product, x.buyer, x.status)]
  BY <1>2, DealStep, Zenon
<1>7. Market!Agree(o, p, b)
  BY <1>1, <1>3, <1>4, <1>5, <1>6 DEF Market!Agree
<1> QED
  BY <1>1, <1>7 DEF Market!Next

LEMMA BuyerImplements ==
  ASSUME IInv, NEW r \in Request, BuyerWrite(r)
  PROVE  Market!Next \/ UNCHANGED Market!market
<1> DEFINE o == call[r].order
<1>1. o \in Order
  BY CallFacts DEF BuyerWrite, PointsToRows, OrderSteps
<1>2. CASE order[o].status = "pending"
  <2>1. Market!Receive(o)
    BY <1>1, <1>2, SetRowMoves, DealFacts DEF BuyerWrite, Market!Receive
  <2> QED
    BY <1>1, <2>1 DEF Market!Next
<1>3. CASE order[o].status # "pending"
  BY <1>3 DEF BuyerWrite, Deals, Market!market
<1> QED
  BY <1>2, <1>3

LEMMA CommitImplements ==
  ASSUME IInv, NEW r \in Request, SellerCommit(r)
  PROVE  Market!Next
<1> DEFINE o == call[r].order
<1>1. /\ o \in Order /\ order[o].status = "confirmed"
      /\ order[o].product = call[r].product
  BY LockedFacts DEF SellerCommit
<1>2. product[call[r].product] # "sold"
  BY CallFacts DEF SellerCommit, ReadsTrue, HoldsProduct
<1>3. Market!Complete(o)
  BY <1>1, <1>2, SetRowMoves, DealFacts DEF SellerCommit, Market!Complete
<1> QED
  BY <1>1, <1>3 DEF Market!Next

\* A late Cancel of an order that is cancelled already changes nothing.
LEMMA CancelImplements ==
  ASSUME IInv, NEW r \in Request, CancelWrite(r)
  PROVE  Market!Next \/ UNCHANGED Market!market
<1> DEFINE o == call[r].order
<1>1. o \in Order /\ order[o].status \in OrderStatus \ {"none"}
  BY CallFacts, RowFacts DEF CancelWrite, PointsToRows, OrderSteps, OrderRows
<1>2. CASE order[o].status = "cancelled"
  <2>1. order' = order
    <3>1. order \in [Order -> OrderRows]
      BY Types DEF IInv
    <3>2. order[o] = [product |-> order[o].product, buyer |-> order[o].buyer,
                      status |-> "cancelled", buyerConfirmed |-> order[o].buyerConfirmed,
                      sellerConfirmed |-> order[o].sellerConfirmed]
      BY <1>1, <1>2, <3>1 DEF OrderRows
    <3> QED
      BY <3>1, <3>2 DEF CancelWrite, SetRow
  <2> QED
    BY <2>1 DEF CancelWrite, Deals, Market!market
<1>3. CASE order[o].status # "cancelled"
  <2>1. Market!CallOff(o)
    BY <1>1, <1>3, SetRowMoves, DealFacts DEF CancelWrite, OrderStatus, Market!CallOff
  <2> QED
    BY <1>1, <2>1 DEF Market!Next
<1> QED
  BY <1>2, <1>3

LEMMA NextImplements == IInv /\ [Next]_vars => [Market!Next]_Market!market
<1> SUFFICES ASSUME IInv, [Next]_vars
             PROVE  Market!Next \/ UNCHANGED Market!market
  OBVIOUS
<1>1. CASE UNCHANGED rows
  BY <1>1 DEF rows, Deals, Market!market
<1>2. CASE \E p \in Product : Publish(p)
  BY <1>2 DEF Publish, Deals, Market!Offer, Market!Next
<1>3. CASE \E r \in Request : Arrive(r) \/ Fail(r)
  BY <1>1, <1>3 DEF Arrive, Fail, RemoveStart, CreateStart, BuyerStart, SellerStart,
     CancelStart, rows
<1>4. ASSUME NEW r \in Request, Proceed(r)
      PROVE  Market!Next \/ UNCHANGED Market!market
  <2>1. CASE CreateLookup(r) \/ SellerOrder(r) \/ SellerProduct(r) \/ LockError(r)
    BY <1>1, <2>1 DEF CreateLookup, SellerOrder, SellerProduct, LockError, rows
  <2> QED
    BY <1>4, <2>1, RemoveImplements, InsertImplements, BuyerImplements, CommitImplements,
       CancelImplements DEF Proceed
<1> QED
  BY <1>1, <1>2, <1>3, <1>4 DEF Next, vars, rows

\* Orders and products move as if each decision were taken at once.
THEOREM TradeImplementsMarketplace == Spec => ImplementsMarketplace
<1> QED
  BY Invariance, InitImplements, NextImplements, PTL
     DEF Spec, ImplementsMarketplace, Market!Spec

=============================================================================
