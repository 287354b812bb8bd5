---------------------------- MODULE CheckoutProofs ----------------------------
(***************************************************************************)
(* Proofs about the checkout for every value of its constants: any number  *)
(* of concurrent requests, ticket types, orders, keys and faults.  Types   *)
(* first, then stock, payment and claims.                                  *)
(***************************************************************************)
EXTENDS CheckoutInvariants, TLAPS

USE TicketingAssumption, OrdersAssumption, PaymentsAssumption

(***************************************************************************)
(* Type correctness: what the shared pieces of the handlers do to a copy   *)
(***************************************************************************)
\* The row a ticket type has before it is created is a row.
LEMMA NoTypeIsRow == NoType \in TypeRow
  BY DEF NoType, TypeRow

\* The row an order has before it is created is a row.
LEMMA NoOrderIsRow == NoOrder \in OrderRow
  BY DEF NoOrder, OrderRow

\* A handler that loads a well-typed ticket type keeps the copies typed.
LEMMA HoldTypeTyped ==
  ASSUME TypeOK, NEW w \in Workers, NEW t \in Types, NEW row \in TypeRow,
         NEW name \in OpNames, HoldType(w, t, row, name)
  PROVE  /\ types' \in [Types -> TypeRow]
         /\ typeCopy' \in [Workers -> [Types -> TypeRow]]
         /\ op' \in [Workers -> OpNames]
  BY DEF TypeOK, HoldType

\* A handler that ends forgets its copy of the ticket types.
LEMMA DropTypesTyped ==
  ASSUME TypeOK, NEW w \in Workers, DropTypes(w)
  PROVE  typeCopy' \in [Workers -> [Types -> TypeRow]]
  BY NoTypeIsRow DEF TypeOK, DropTypes

\* A handler that ends leaves its goroutine idle.
LEMMA FinishTyped ==
  ASSUME TypeOK, NEW w \in Workers, Finish(w)
  PROVE  op' \in [Workers -> OpNames]
  BY DEF TypeOK, Finish, OpNames

\* A handler that loads well-typed orders keeps the copies typed.
LEMMA HoldOrdersTyped ==
  ASSUME TypeOK, NEW w \in Workers, NEW rows \in [OrderIds -> OrderRow],
         NEW name \in OpNames, HoldOrders(w, rows, name)
  PROVE  /\ orderCopy' \in [Workers -> [OrderIds -> OrderRow]]
         /\ op' \in [Workers -> OpNames]
  BY DEF TypeOK, HoldOrders

\* The same for a handler that loads one order.
LEMMA HoldOrderTyped ==
  ASSUME TypeOK, NEW w \in Workers, NEW o \in OrderIds, NEW row \in OrderRow,
         NEW name \in OpNames, HoldOrder(w, o, row, name)
  PROVE  /\ orderCopy' \in [Workers -> [OrderIds -> OrderRow]]
         /\ op' \in [Workers -> OpNames]
  BY HoldOrdersTyped, NoOrderIsRow DEF HoldOrder

\* A handler that ends forgets its copies of the orders.
LEMMA DropOrdersTyped ==
  ASSUME TypeOK, NEW w \in Workers, DropOrders(w)
  PROVE  orderCopy' \in [Workers -> [OrderIds -> OrderRow]]
  BY NoOrderIsRow DEF TypeOK, DropOrders

\* Moving quantity_sold by n keeps the table typed when the sum is no less
\* than zero; an unknown id updates no row.
LEMMA AddSoldTyped ==
  ASSUME TypeOK, NEW t, NEW n \in Int, AddSold(t, n),
         t \in Types => types[t].sold + n >= 0
  PROVE  types' \in [Types -> TypeRow]
<1>1. CASE t \in Types
  <2>1. types[t] \in TypeRow /\ types \in [Types -> TypeRow]
    BY <1>1 DEF TypeOK
  <2>2. types[t].sold + n \in Nat
    BY <1>1, <2>1 DEF TypeRow
  <2>3. [types[t] EXCEPT !.sold = types[t].sold + n] \in TypeRow
    BY <2>1, <2>2 DEF TypeRow
  <2>4. types' = [types EXCEPT ![t] = [types[t] EXCEPT !.sold = types[t].sold + n]]
    BY DEF AddSold
  <2>5. QED
    BY <2>1, <2>3, <2>4
<1>2. CASE t \notin Types
  BY <1>2 DEF TypeOK, AddSold
<1>3. QED
  BY <1>1, <1>2

\* ReserveTx and ReleaseTx keep the ticket_types table typed.
LEMMA ReserveTxTyped ==
  ASSUME TypeOK, NEW t, NEW n \in Nat, ReserveTx(t, n)
  PROVE  types' \in [Types -> TypeRow]
<1>1. t \in Types => types[t].sold + n >= 0
  BY DEF TypeOK, TypeRow
<1>2. QED
  BY <1>1, AddSoldTyped DEF ReserveTx

\* ReleaseTx keeps the ticket_types table typed: it never goes below zero.
LEMMA ReleaseTxTyped ==
  ASSUME TypeOK, NEW t, NEW n \in Nat, ReleaseTx(t, n)
  PROVE  types' \in [Types -> TypeRow]
<1>1. t \in Types => types[t].sold + (-n) >= 0
  BY DEF TypeOK, TypeRow, ReleaseTx, CanRelease
<1>2. QED
  BY <1>1, AddSoldTyped DEF ReleaseTx

\* An organiser's handler, or its write, keeps every table and copy typed.
LEMMA TicketingTyped ==
  ASSUME TypeOK, TicketingNext, UNCHANGED <<orderVars, paymentVars>>
  PROVE  TypeOK'
<1> DEFINE Typed == /\ types' \in [Types -> TypeRow]
                    /\ typeCopy' \in [Workers -> [Types -> TypeRow]]
                    /\ op' \in [Workers -> OpNames]
<1> SUFFICES Typed
  BY DEF TypeOK, orderVars, paymentVars
<1>1. PICK w \in Workers :
        \/ \E t \in Types :
            \/ \E qty \in Totals, free \in Prices :
                CreateType(w, t, qty, free) \/ UpdateType(w, t, qty, free)
            \/ Activate(w, t)
            \/ Pause(w, t)
            \/ DeleteType(w, t)
        \/ SaveType(w)
        \/ CommitDelete(w)
  BY DEF TicketingNext
<1>2. ASSUME NEW t \in Types, NEW qty \in Totals, NEW free \in Prices,
             CreateType(w, t, qty, free)
      PROVE  Typed
  <2>1. [NoType EXCEPT !.status = "DRAFT", !.total = qty, !.free = free] \in TypeRow
    BY DEF NoType, TypeRow, TicketStatus
  <2>2. QED
    BY <1>2, <2>1, HoldTypeTyped DEF CreateType, OpNames
<1>3. ASSUME NEW t \in Types, NEW qty \in Totals, NEW free \in Prices,
             UpdateType(w, t, qty, free)
      PROVE  Typed
  <2> types[t] \in TypeRow
    BY DEF TypeOK
  <2>1. [types[t] EXCEPT !.total = qty, !.free = free] \in TypeRow
    BY DEF TypeRow
  <2>2. QED
    BY <1>3, <2>1, HoldTypeTyped DEF UpdateType, OpNames
<1>4. ASSUME NEW t \in Types, NEW to \in TicketStatus, NEW from,
             SetStatus(w, t, to, from)
      PROVE  Typed
  <2> types[t] \in TypeRow
    BY DEF TypeOK
  <2>1. [types[t] EXCEPT !.status = to] \in TypeRow
    BY DEF TypeRow
  <2>2. QED
    BY <1>4, <2>1, HoldTypeTyped DEF SetStatus, OpNames
<1>5. ASSUME NEW t \in Types, Activate(w, t) \/ Pause(w, t)
      PROVE  Typed
  <2>1. "ACTIVE" \in TicketStatus /\ "PAUSED" \in TicketStatus
    BY DEF TicketStatus
  <2>2. QED
    BY <1>4, <1>5, <2>1 DEF Activate, Pause
<1>6. ASSUME NEW t \in Types, DeleteType(w, t)
      PROVE  Typed
  <2>1. types[t] \in TypeRow
    BY DEF TypeOK
  <2>2. QED
    BY <1>6, <2>1, HoldTypeTyped DEF DeleteType, OpNames
<1>7. CASE SaveType(w)
  <2>1. types' \in [Types -> TypeRow]
    <3>1. PICK t \in Types : types' = [types EXCEPT ![t] = typeCopy[w][t]]
      BY <1>7 DEF SaveType
    <3>2. typeCopy[w][t] \in TypeRow
      BY DEF TypeOK
    <3>3. QED
      BY <3>1, <3>2 DEF TypeOK
  <2>2. DropTypes(w) /\ Finish(w)
    BY <1>7 DEF SaveType
  <2>3. QED
    BY <2>1, <2>2, DropTypesTyped, FinishTyped
<1>8. CASE CommitDelete(w)
  <2>1. types' \in [Types -> TypeRow]
    <3>1. PICK t \in Types : types' = [types EXCEPT ![t].deleted = TRUE]
      BY <1>8 DEF CommitDelete
    <3>2. types[t] \in TypeRow
      BY DEF TypeOK
    <3>3. [types[t] EXCEPT !.deleted = TRUE] \in TypeRow
      BY <3>2 DEF TypeRow
    <3>4. QED
      BY <3>1, <3>3 DEF TypeOK
  <2>2. DropTypes(w) /\ Finish(w)
    BY <1>8 DEF CommitDelete
  <2>3. QED
    BY <2>1, <2>2, DropTypesTyped, FinishTyped
<1>9. QED
  BY <1>1, <1>2, <1>3, <1>5, <1>6, <1>7, <1>8

\* Save of a well-typed copy keeps the orders table typed.
LEMMA UpdateOrderTyped ==
  ASSUME TypeOK, NEW o \in OrderIds, NEW row \in OrderRow, UpdateOrder(o, row)
  PROVE  orders' \in [OrderIds -> OrderRow]
  BY DEF TypeOK, UpdateOrder

\* Changing the columns the order handlers change keeps a row a row.
LEMMA OrderRowUpdates ==
  ASSUME NEW row \in OrderRow, NEW status \in OrderStatus
  PROVE  /\ [row EXCEPT !.status = status] \in OrderRow
         /\ [row EXCEPT !.session = TRUE] \in OrderRow
         /\ [row EXCEPT !.status = status, !.session = TRUE, !.paid = TRUE] \in OrderRow
  BY DEF OrderRow

\* The copy a request holds of an order is a row; its quantity is a number.
LEMMA CopyIsRow ==
  ASSUME TypeOK, NEW w \in Workers, NEW o \in OrderIds
  PROVE  orderCopy[w][o] \in OrderRow /\ orderCopy[w][o].qty \in Nat
<1>1. orderCopy[w][o] \in OrderRow
  BY DEF TypeOK
<1>2. QED
  BY <1>1 DEF OrderRow

\* Minting writes REGISTERED or keeps what a seat has.
LEMMA MintTyped ==
  ASSUME TypeOK, NEW o \in OrderIds, NEW qty \in Nat, MintForOrder(o, qty)
  PROVE  seats' \in [OrderIds -> [Units -> {"NONE", "REGISTERED", "CANCELLED"}]]
  BY DEF TypeOK, MintForOrder

\* A step of the sweeper's loop keeps the copies and the program typed.
LEMMA NextOfBatchTyped ==
  ASSUME TypeOK, NEW w \in Workers, NEW o \in OrderIds, NextOfBatch(w, o)
  PROVE  /\ orderCopy' \in [Workers -> [OrderIds -> OrderRow]]
         /\ op' \in [Workers -> OpNames]
  BY NoOrderIsRow DEF TypeOK, NextOfBatch, OpNames

\* A handler that has only read, or gives up, keeps everything typed.
LEMMA ReadOnlyTyped ==
  ASSUME TypeOK, UNCHANGED <<types, typeCopy, orders, lapsed, seats, mailed, paymentVars>>,
         orderCopy' \in [Workers -> [OrderIds -> OrderRow]],
         op' \in [Workers -> OpNames]
  PROVE  TypeOK'
  BY DEF TypeOK, paymentVars

\* CreateOrder and its transaction keep every table and copy typed.
LEMMA CreateOrderTyped ==
  ASSUME TypeOK, UNCHANGED paymentVars, NEW w \in Workers,
         \/ \E o \in OrderIds, t \in Types, qty \in 1..MaxPerOrder,
              k \in Keys \cup {NoKey} : CreateOrder(w, o, t, qty, k)
         \/ CommitOrder(w) \/ RollbackOrder(w)
  PROVE  TypeOK'
<1>1. ASSUME NEW o \in OrderIds, NEW t \in Types, NEW qty \in 1..MaxPerOrder,
             NEW k \in Keys \cup {NoKey}, CreateOrder(w, o, t, qty, k)
      PROVE  TypeOK'
  <2> DEFINE row == [status |-> IF types[t].free THEN "CONFIRMED" ELSE "PENDING_PAYMENT",
                     ty |-> t, qty |-> qty, free |-> types[t].free, key |-> k,
                     session |-> FALSE, paid |-> FALSE]
  <2>1. types[t].free \in BOOLEAN
    BY DEF TypeOK, TypeRow
  <2>2. row \in OrderRow
    BY <2>1 DEF OrderRow, OrderStatus
  <2>3. HoldOrder(w, o, row, "createOrder")
    BY <1>1 DEF CreateOrder
  <2>4. "createOrder" \in OpNames
    BY DEF OpNames
  <2> HIDE DEF row
  <2>5. /\ orderCopy' \in [Workers -> [OrderIds -> OrderRow]]
        /\ op' \in [Workers -> OpNames]
    BY <2>2, <2>3, <2>4, HoldOrderTyped
  <2>6. QED
    BY <1>1, <2>5, ReadOnlyTyped DEF CreateOrder
<1>2. CASE CommitOrder(w)
  <2>1. PICK o \in OrderIds :
          /\ ReserveTx(orderCopy[w][o].ty, orderCopy[w][o].qty)
          /\ UpdateOrder(o, orderCopy[w][o])
          /\ \/ MintForOrder(o, orderCopy[w][o].qty) /\ mailed' = mailed \cup {o}
             \/ UNCHANGED <<seats, mailed>>
    BY <1>2 DEF CommitOrder, Loaded
  <2>2. types' \in [Types -> TypeRow]
    BY <2>1, CopyIsRow, ReserveTxTyped
  <2>3. orders' \in [OrderIds -> OrderRow]
    BY <2>1, CopyIsRow, UpdateOrderTyped
  <2>4. seats' \in [OrderIds -> [Units -> {"NONE", "REGISTERED", "CANCELLED"}]]
    BY <2>1, CopyIsRow, MintTyped DEF TypeOK
  <2>5. mailed' \in SUBSET OrderIds
    BY <2>1 DEF TypeOK
  <2>6. DropOrders(w) /\ Finish(w) /\ UNCHANGED <<typeCopy, lapsed>>
    BY <1>2 DEF CommitOrder
  <2>7. /\ orderCopy' \in [Workers -> [OrderIds -> OrderRow]]
        /\ op' \in [Workers -> OpNames]
    BY <2>6, DropOrdersTyped, FinishTyped
  <2>8. QED
    BY <2>2, <2>3, <2>4, <2>5, <2>6, <2>7 DEF TypeOK, paymentVars
<1>3. CASE RollbackOrder(w)
  <2>1. DropOrders(w) /\ Finish(w)
    BY <1>3 DEF RollbackOrder
  <2>2. QED
    BY <1>3, <2>1, DropOrdersTyped, FinishTyped, ReadOnlyTyped DEF RollbackOrder
<1>4. QED
  BY <1>1, <1>2, <1>3

\* CancelOrder and its transaction keep every table and copy typed.
LEMMA CancelOrderTyped ==
  ASSUME TypeOK, UNCHANGED paymentVars, NEW w \in Workers,
         \/ \E o \in OrderIds : CancelOrder(w, o)
         \/ CommitCancel(w) \/ RollbackCancel(w)
  PROVE  TypeOK'
<1>1. ASSUME NEW o \in OrderIds, CancelOrder(w, o)
      PROVE  TypeOK'
  <2>1. orders[o] \in OrderRow /\ "cancelOrder" \in OpNames
    BY DEF TypeOK, OpNames
  <2>2. HoldOrder(w, o, orders[o], "cancelOrder")
    BY <1>1 DEF CancelOrder
  <2>3. QED
    BY <1>1, <2>1, <2>2, HoldOrderTyped, ReadOnlyTyped DEF CancelOrder
<1>2. CASE CommitCancel(w)
  <2>1. PICK o \in OrderIds :
          /\ ReleaseTx(orderCopy[w][o].ty, orderCopy[w][o].qty)
          /\ UpdateOrder(o, [orderCopy[w][o] EXCEPT !.status = "CANCELLED"])
    BY <1>2 DEF CommitCancel, Loaded
  <2>2. types' \in [Types -> TypeRow]
    BY <2>1, CopyIsRow, ReleaseTxTyped
  <2>3. "CANCELLED" \in OrderStatus
    BY DEF OrderStatus
  <2>4. orders' \in [OrderIds -> OrderRow]
    BY <2>1, <2>3, CopyIsRow, OrderRowUpdates, UpdateOrderTyped
  <2>5. DropOrders(w) /\ Finish(w) /\ UNCHANGED <<typeCopy, lapsed, seats, mailed>>
    BY <1>2 DEF CommitCancel
  <2>6. QED
    BY <2>2, <2>4, <2>5, DropOrdersTyped, FinishTyped DEF TypeOK, paymentVars
<1>3. CASE RollbackCancel(w)
  <2>1. DropOrders(w) /\ Finish(w)
    BY <1>3 DEF RollbackCancel
  <2>2. QED
    BY <1>3, <2>1, DropOrdersTyped, FinishTyped, ReadOnlyTyped DEF RollbackCancel
<1>4. QED
  BY <1>1, <1>2, <1>3

\* The deadline and the sweeper keep every table and copy typed.
LEMMA SweepTyped ==
  ASSUME TypeOK, UNCHANGED paymentVars,
         \/ \E o \in OrderIds : HoldLapses(o)
         \/ \E w \in Workers : SweepExpired(w)
         \/ \E w \in Workers, o \in OrderIds : ExpireOne(w, o) \/ SkipOne(w, o)
  PROVE  TypeOK'
<1>1. ASSUME NEW o \in OrderIds, HoldLapses(o)
      PROVE  TypeOK'
  BY <1>1 DEF TypeOK, HoldLapses, ticketingVars, paymentVars
<1>2. ASSUME NEW w \in Workers, SweepExpired(w)
      PROVE  TypeOK'
  <2>1. PICK batch \in SUBSET ExpiredPending :
          HoldOrders(w, [o \in OrderIds |-> IF o \in batch THEN orders[o] ELSE NoOrder], "sweep")
    BY <1>2 DEF SweepExpired
  <2> DEFINE rows == [o \in OrderIds |-> IF o \in batch THEN orders[o] ELSE NoOrder]
  <2>2. rows \in [OrderIds -> OrderRow]
    BY NoOrderIsRow DEF TypeOK
  <2>3. "sweep" \in OpNames
    BY DEF OpNames
  <2>4. HoldOrders(w, rows, "sweep")
    BY <2>1
  <2> HIDE DEF rows
  <2>5. /\ orderCopy' \in [Workers -> [OrderIds -> OrderRow]]
        /\ op' \in [Workers -> OpNames]
    BY <2>2, <2>3, <2>4, HoldOrdersTyped
  <2>6. QED
    BY <1>2, <2>5, ReadOnlyTyped DEF SweepExpired
<1>3. ASSUME NEW w \in Workers, NEW o \in OrderIds, ExpireOne(w, o)
      PROVE  TypeOK'
  <2>1. /\ ReleaseTx(orderCopy[w][o].ty, orderCopy[w][o].qty)
        /\ UpdateOrder(o, [orderCopy[w][o] EXCEPT !.status = "EXPIRED"])
        /\ NextOfBatch(w, o)
        /\ UNCHANGED <<typeCopy, lapsed, seats, mailed>>
    BY <1>3 DEF ExpireOne
  <2>2. types' \in [Types -> TypeRow]
    BY <2>1, CopyIsRow, ReleaseTxTyped
  <2>3. "EXPIRED" \in OrderStatus
    BY DEF OrderStatus
  <2>4. orders' \in [OrderIds -> OrderRow]
    BY <2>1, <2>3, CopyIsRow, OrderRowUpdates, UpdateOrderTyped
  <2>5. QED
    BY <2>1, <2>2, <2>4, NextOfBatchTyped DEF TypeOK, paymentVars
<1>4. ASSUME NEW w \in Workers, NEW o \in OrderIds, SkipOne(w, o)
      PROVE  TypeOK'
  BY <1>4, NextOfBatchTyped, ReadOnlyTyped DEF SkipOne
<1>5. QED
  BY <1>1, <1>2, <1>3, <1>4

\* The order domain's steps keep every table and copy typed.
LEMMA OrdersTyped ==
  ASSUME TypeOK, OrdersNext, UNCHANGED paymentVars
  PROVE  TypeOK'
<1>1. ASSUME NEW o \in OrderIds, NEW u \in Units, CancelMine(o, u)
      PROVE  TypeOK'
  <2>1. seats' = [seats EXCEPT ![o][u] = "CANCELLED"]
    BY <1>1 DEF CancelMine
  <2>2. seats' \in [OrderIds -> [Units -> {"NONE", "REGISTERED", "CANCELLED"}]]
    BY <2>1 DEF TypeOK
  <2>3. QED
    BY <1>1, <2>2 DEF TypeOK, CancelMine, ticketingVars, paymentVars
<1>2. QED
  BY <1>1, CreateOrderTyped, CancelOrderTyped, SweepTyped DEF OrdersNext

\* The payment domain's steps, Stripe's and the faults keep the types.
LEMMA PaymentsTyped ==
  ASSUME TypeOK, PaymentsNext
  PROVE  TypeOK'
<1>1. ASSUME NEW w \in Workers, NEW o \in OrderIds, CreateCheckout(w, o)
      PROVE  TypeOK'
  <2>1. orders[o] \in OrderRow /\ "checkout" \in OpNames
    BY DEF TypeOK, OpNames
  <2>2. HoldOrder(w, o, orders[o], "checkout")
    BY <1>1 DEF CreateCheckout
  <2>3. QED
    BY <1>1, <2>1, <2>2, HoldOrderTyped, ReadOnlyTyped DEF CreateCheckout
<1>2. ASSUME NEW w \in Workers, SetStripeSession(w)
      PROVE  TypeOK'
  <2>1. PICK o \in OrderIds :
          orderCopy' = [orderCopy EXCEPT ![w][o] = [orders[o] EXCEPT !.session = TRUE]]
    BY <1>2 DEF SetStripeSession, Loaded
  <2>2. orders[o] \in OrderRow
    BY DEF TypeOK
  <2>3. [orders[o] EXCEPT !.session = TRUE] \in OrderRow
    BY <2>2 DEF OrderRow
  <2>4. orderCopy' \in [Workers -> [OrderIds -> OrderRow]]
    BY <2>1, <2>3 DEF TypeOK
  <2>5. op' \in [Workers -> OpNames]
    BY <1>2 DEF SetStripeSession, TypeOK, OpNames
  <2>6. QED
    BY <1>2, <2>4, <2>5, ReadOnlyTyped DEF SetStripeSession
<1>3. ASSUME NEW w \in Workers, RejectSession(w)
      PROVE  TypeOK'
  <2>1. DropOrders(w) /\ Finish(w)
    BY <1>3 DEF RejectSession
  <2>2. QED
    BY <1>3, <2>1, DropOrdersTyped, FinishTyped, ReadOnlyTyped DEF RejectSession
<1>4. ASSUME NEW w \in Workers, CommitSession(w)
      PROVE  TypeOK'
  <2>1. PICK o \in OrderIds :
          /\ UpdateOrder(o, orderCopy[w][o])
          /\ stripe' = [stripe EXCEPT ![o] = IF stripe[o] = "none" THEN "open" ELSE stripe[o]]
    BY <1>4 DEF CommitSession, Loaded
  <2>2. orders' \in [OrderIds -> OrderRow]
    BY <2>1, CopyIsRow, UpdateOrderTyped
  <2>3. stripe' \in [OrderIds -> {"none", "open", "paid"}]
    BY <2>1 DEF TypeOK
  <2>4. /\ DropOrders(w) /\ Finish(w)
        /\ UNCHANGED <<types, typeCopy, lapsed, seats, mailed, unacked, faults>>
    BY <1>4 DEF CommitSession
  <2>5. QED
    BY <2>2, <2>3, <2>4, DropOrdersTyped, FinishTyped DEF TypeOK
<1>5. ASSUME NEW w \in Workers, NEW o \in OrderIds, MarkPaid(w, o)
      PROVE  TypeOK'
  <2> DEFINE row == [orders[o] EXCEPT !.status = "CONFIRMED",
                                      !.session = TRUE, !.paid = TRUE]
  <2>1. orders[o] \in OrderRow /\ "markPaid" \in OpNames /\ "CONFIRMED" \in OrderStatus
    BY DEF TypeOK, OpNames, OrderStatus
  <2>2. row \in OrderRow
    BY <2>1, OrderRowUpdates
  <2>3. HoldOrder(w, o, row, "markPaid")
    BY <1>5 DEF MarkPaid
  <2> HIDE DEF row
  <2>4. QED
    BY <1>5, <2>1, <2>2, <2>3, HoldOrderTyped, ReadOnlyTyped DEF MarkPaid
<1>6. ASSUME NEW w \in Workers, NEW o \in OrderIds, IgnorePaid(w, o)
      PROVE  TypeOK'
  BY <1>6 DEF TypeOK, IgnorePaid, ticketingVars, orderVars
<1>7. ASSUME NEW w \in Workers, CommitPaid(w)
      PROVE  TypeOK'
  <2>1. PICK o \in OrderIds :
          UpdateOrder(o, orderCopy[w][o]) /\ unacked' = unacked \ {o}
    BY <1>7 DEF CommitPaid, Loaded
  <2>2. orders' \in [OrderIds -> OrderRow]
    BY <2>1, CopyIsRow, UpdateOrderTyped
  <2>3. unacked' \in SUBSET OrderIds
    BY <2>1 DEF TypeOK
  <2>4. /\ DropOrders(w) /\ Finish(w)
        /\ UNCHANGED <<types, typeCopy, lapsed, seats, mailed, stripe, faults>>
    BY <1>7 DEF CommitPaid
  <2>5. QED
    BY <2>2, <2>3, <2>4, DropOrdersTyped, FinishTyped DEF TypeOK
<1>8. ASSUME NEW w \in Workers, Crash(w)
      PROVE  TypeOK'
  <2>1. DropTypes(w) /\ DropOrders(w) /\ Finish(w)
    BY <1>8 DEF Crash
  <2>2. faults' \in 0..MaxFaults
    BY <1>8 DEF Crash, TypeOK
  <2>3. UNCHANGED <<types, orders, lapsed, seats, mailed, stripe, unacked>>
    BY <1>8 DEF Crash
  <2>4. QED
    BY <2>1, <2>2, <2>3, DropTypesTyped, DropOrdersTyped, FinishTyped DEF TypeOK
<1>9. ASSUME NEW w \in Workers, FailPaid(w)
      PROVE  TypeOK'
  <2>1. DropOrders(w) /\ Finish(w) /\ unacked' = unacked \ Loaded(w)
    BY <1>9 DEF FailPaid
  <2>2. faults' \in 0..MaxFaults
    BY <1>9 DEF FailPaid, TypeOK
  <2>3. UNCHANGED <<types, typeCopy, orders, lapsed, seats, mailed, stripe>>
    BY <1>9 DEF FailPaid
  <2>4. QED
    BY <2>1, <2>2, <2>3, DropOrdersTyped, FinishTyped DEF TypeOK
<1>10. ASSUME NEW o \in OrderIds, BuyerPays(o)
       PROVE  TypeOK'
  BY <1>10 DEF TypeOK, BuyerPays, ticketingVars, orderVars
<1>11. QED
  BY <1>1, <1>2, <1>3, <1>4, <1>5, <1>6, <1>7, <1>8, <1>9, <1>10 DEF PaymentsNext

\* Initially every table is empty and every goroutine idle.
LEMMA InitTyped == Init => TypeOK
  BY NoTypeIsRow, NoOrderIsRow
  DEF Init, TicketingInit, OrdersInit, PaymentsInit, TypeOK, OpNames

\* Every step of the composed system keeps TypeOK.
LEMMA NextTyped == TypeOK /\ [Next]_vars => TypeOK'
<1> SUFFICES ASSUME TypeOK, [Next]_vars PROVE TypeOK'
  OBVIOUS
<1>1. CASE UNCHANGED vars
  BY <1>1 DEF TypeOK, vars, ticketingVars, orderVars, paymentVars
<1>2. QED
  BY <1>1, TicketingTyped, OrdersTyped, PaymentsTyped DEF Next

\* However many requests, deliveries and jobs run at once, rows and the
\* copies handlers hold of them keep their types: in particular ReleaseTx
\* and the whole-row Saves never leave a negative quantity_sold.
THEOREM TypeCorrect == Spec => []TypeOK
  BY InitTyped, NextTyped, PTL DEF Spec

(***************************************************************************)
(* quantity_sold stays within quantity_total for any number of requests,   *)
(* although organisers' Saves overwrite it with old values: a copy that    *)
(* was within its total when it was read or edited is within it when it is *)
(* saved, and ReserveTx and ReleaseTx check the stored row they lock.      *)
(***************************************************************************)
\* A request that loads a row within its total keeps the copies in stock.
LEMMA HoldTypeInStock ==
  ASSUME TypeOK, StockInv, NEW w \in Workers, NEW t \in Types, NEW row,
         row.sold \in 0..row.total, NEW name, HoldType(w, t, row, name)
  PROVE  StockInv'
<1>1. typeCopy' = [typeCopy EXCEPT ![w][t] = row] /\ types' = types
  BY DEF HoldType
<1>2. ASSUME NEW v \in Workers, NEW s \in Types
      PROVE  typeCopy'[v][s] = IF v = w /\ s = t THEN row ELSE typeCopy[v][s]
  BY <1>1 DEF TypeOK
<1>3. CopiesInStock'
  BY <1>2 DEF CopiesInStock, StockInv
<1>4. QED
  BY <1>1, <1>3 DEF StockInv, SoldWithinTotal

\* A request that ends keeps the other requests' copies in stock.
LEMMA DropTypesInStock ==
  ASSUME TypeOK, CopiesInStock, NEW w \in Workers, DropTypes(w)
  PROVE  CopiesInStock'
<1>1. ASSUME NEW v \in Workers, NEW s \in Types
      PROVE  typeCopy'[v][s] = IF v = w THEN NoType ELSE typeCopy[v][s]
  BY DEF TypeOK, DropTypes
<1>2. NoType.sold \in 0..NoType.total
  BY DEF NoType
<1>3. QED
  BY <1>1, <1>2 DEF CopiesInStock

\* Replacing a stored row by one within its total keeps the table in stock.
LEMMA PutInStock ==
  ASSUME TypeOK, SoldWithinTotal, NEW t \in Types, NEW row,
         row.sold \in 0..row.total, types' = [types EXCEPT ![t] = row]
  PROVE  SoldWithinTotal'
<1>1. ASSUME NEW s \in Types
      PROVE  types'[s] = IF s = t THEN row ELSE types[s]
  BY DEF TypeOK
<1>2. QED
  BY <1>1 DEF SoldWithinTotal

\* AddSold keeps the table in stock when the sum is within the total.
LEMMA AddSoldInStock ==
  ASSUME TypeOK, SoldWithinTotal, NEW t, NEW n \in Int, AddSold(t, n),
         t \in Types => types[t].sold + n \in 0..types[t].total
  PROVE  SoldWithinTotal'
<1>1. CASE t \in Types
  <2> DEFINE row == [types[t] EXCEPT !.sold = types[t].sold + n]
  <2>1. types[t] \in TypeRow
    BY <1>1 DEF TypeOK
  <2>2. row.sold = types[t].sold + n /\ row.total = types[t].total
    BY <2>1 DEF TypeRow
  <2>3. types' = [types EXCEPT ![t] = row]
    BY DEF AddSold
  <2> HIDE DEF row
  <2>4. QED
    BY <1>1, <2>2, <2>3, PutInStock
<1>2. CASE t \notin Types
  <2>1. types' = types
    BY <1>2 DEF TypeOK, AddSold
  <2>2. QED
    BY <2>1 DEF SoldWithinTotal
<1>3. QED
  BY <1>1, <1>2

\* The locked check of ReserveTx is enough.
LEMMA ReserveInStock ==
  ASSUME TypeOK, SoldWithinTotal, NEW t, NEW n \in Nat, ReserveTx(t, n)
  PROVE  SoldWithinTotal'
<1>1. t \in Types => types[t].sold + n \in 0..types[t].total
  BY DEF TypeOK, TypeRow, ReserveTx, CanReserve
<1>2. QED
  BY <1>1, AddSoldInStock DEF ReserveTx

\* The locked check of ReleaseTx is enough.
LEMMA ReleaseInStock ==
  ASSUME TypeOK, SoldWithinTotal, NEW t, NEW n \in Nat, ReleaseTx(t, n)
  PROVE  SoldWithinTotal'
<1>1. t \in Types => types[t].sold + (-n) \in 0..types[t].total
  BY DEF TypeOK, TypeRow, ReleaseTx, CanRelease, SoldWithinTotal
<1>2. QED
  BY <1>1, AddSoldInStock DEF ReleaseTx

\* An organiser's handler, or its write, keeps rows and copies in stock.
LEMMA TicketingInStock ==
  ASSUME TypeOK, StockInv, TicketingNext
  PROVE  StockInv'
<1>1. PICK w \in Workers :
        \/ \E t \in Types :
            \/ \E qty \in Totals, free \in Prices :
                CreateType(w, t, qty, free) \/ UpdateType(w, t, qty, free)
            \/ Activate(w, t)
            \/ Pause(w, t)
            \/ DeleteType(w, t)
        \/ SaveType(w)
        \/ CommitDelete(w)
  BY DEF TicketingNext
<1>2. ASSUME NEW t \in Types, NEW qty \in Totals, NEW free \in Prices,
             CreateType(w, t, qty, free)
      PROVE  StockInv'
  <2> DEFINE row == [NoType EXCEPT !.status = "DRAFT", !.total = qty, !.free = free]
  <2>1. row.sold \in 0..row.total
    BY TicketingAssumption DEF NoType
  <2>2. HoldType(w, t, row, "saveType")
    BY <1>2 DEF CreateType
  <2> HIDE DEF row
  <2>3. QED
    BY <2>1, <2>2, HoldTypeInStock
<1>3. ASSUME NEW t \in Types, NEW qty \in Totals, NEW free \in Prices,
             UpdateType(w, t, qty, free)
      PROVE  StockInv'
  <2> DEFINE row == [types[t] EXCEPT !.total = qty, !.free = free]
  <2>1. types[t] \in TypeRow
    BY DEF TypeOK
  <2>2. row.sold = types[t].sold /\ row.total = qty
    BY <2>1 DEF TypeRow
  <2>3. HoldType(w, t, row, "saveType") /\ qty >= types[t].sold
    BY <1>3 DEF UpdateType
  <2>4. row.sold \in 0..row.total
    BY <2>1, <2>2, <2>3 DEF TypeRow
  <2> HIDE DEF row
  <2>5. QED
    BY <2>3, <2>4, HoldTypeInStock
<1>4. ASSUME NEW t \in Types, NEW to, NEW from, SetStatus(w, t, to, from)
      PROVE  StockInv'
  <2> DEFINE row == [types[t] EXCEPT !.status = to]
  <2>1. types[t] \in TypeRow /\ types[t].sold \in 0..types[t].total
    BY DEF TypeOK, StockInv, SoldWithinTotal
  <2>2. row.sold \in 0..row.total
    BY <2>1 DEF TypeRow
  <2>3. HoldType(w, t, row, "saveType")
    BY <1>4 DEF SetStatus
  <2> HIDE DEF row
  <2>4. QED
    BY <2>2, <2>3, HoldTypeInStock
<1>5. ASSUME NEW t \in Types, Activate(w, t) \/ Pause(w, t)
      PROVE  StockInv'
  BY <1>4, <1>5 DEF Activate, Pause
<1>6. ASSUME NEW t \in Types, DeleteType(w, t)
      PROVE  StockInv'
  BY <1>6, HoldTypeInStock DEF DeleteType, StockInv, SoldWithinTotal
<1>7. CASE SaveType(w)
  <2>1. PICK t \in Types : types' = [types EXCEPT ![t] = typeCopy[w][t]]
    BY <1>7 DEF SaveType
  <2>2. typeCopy[w][t].sold \in 0..typeCopy[w][t].total
    BY DEF StockInv, CopiesInStock
  <2>3. SoldWithinTotal'
    BY <2>1, <2>2, PutInStock DEF StockInv
  <2>4. QED
    BY <1>7, <2>3, DropTypesInStock DEF SaveType, StockInv
<1>8. CASE CommitDelete(w)
  <2>1. PICK t \in Types : types' = [types EXCEPT ![t].deleted = TRUE]
    BY <1>8 DEF CommitDelete
  <2> DEFINE row == [types[t] EXCEPT !.deleted = TRUE]
  <2>2. types[t] \in TypeRow /\ types[t].sold \in 0..types[t].total
    BY DEF TypeOK, StockInv, SoldWithinTotal
  <2>3. row.sold \in 0..row.total
    BY <2>2 DEF TypeRow
  <2>4. types' = [types EXCEPT ![t] = row]
    BY <2>1
  <2> HIDE DEF row
  <2>5. SoldWithinTotal'
    BY <2>3, <2>4, PutInStock DEF StockInv
  <2>6. QED
    BY <1>8, <2>5, DropTypesInStock DEF CommitDelete, StockInv
<1>9. QED
  BY <1>1, <1>2, <1>3, <1>5, <1>6, <1>7, <1>8

\* The order domain reaches the table through ReserveTx and ReleaseTx only.
LEMMA OrdersInStock ==
  ASSUME TypeOK, StockInv, OrdersNext
  PROVE  StockInv'
<1> DEFINE Same == UNCHANGED <<types, typeCopy>>
<1>1. CASE Same
  BY <1>1 DEF StockInv, SoldWithinTotal, CopiesInStock
<1>2. ASSUME NEW w \in Workers, CommitOrder(w)
      PROVE  StockInv'
  <2>1. PICK o \in OrderIds : ReserveTx(orderCopy[w][o].ty, orderCopy[w][o].qty)
    BY <1>2 DEF CommitOrder, Loaded
  <2>2. SoldWithinTotal'
    BY <2>1, CopyIsRow, ReserveInStock DEF StockInv
  <2>3. QED
    BY <1>2, <2>2 DEF CommitOrder, StockInv, CopiesInStock
<1>3. ASSUME NEW w \in Workers, CommitCancel(w)
      PROVE  StockInv'
  <2>1. PICK o \in OrderIds : ReleaseTx(orderCopy[w][o].ty, orderCopy[w][o].qty)
    BY <1>3 DEF CommitCancel, Loaded
  <2>2. SoldWithinTotal'
    BY <2>1, CopyIsRow, ReleaseInStock DEF StockInv
  <2>3. QED
    BY <1>3, <2>2 DEF CommitCancel, StockInv, CopiesInStock
<1>4. ASSUME NEW w \in Workers, NEW o \in OrderIds, ExpireOne(w, o)
      PROVE  StockInv'
  <2>1. ReleaseTx(orderCopy[w][o].ty, orderCopy[w][o].qty)
    BY <1>4 DEF ExpireOne
  <2>2. SoldWithinTotal'
    BY <2>1, CopyIsRow, ReleaseInStock DEF StockInv
  <2>3. QED
    BY <1>4, <2>2 DEF ExpireOne, StockInv, CopiesInStock
<1>5. ASSUME NEW w \in Workers, NEW o \in OrderIds, CancelOrder(w, o) \/ SkipOne(w, o)
      PROVE  Same
  BY <1>5 DEF CancelOrder, SkipOne
<1>6. ASSUME NEW w \in Workers,
             RollbackOrder(w) \/ RollbackCancel(w) \/ SweepExpired(w)
      PROVE  Same
  BY <1>6 DEF RollbackOrder, RollbackCancel, SweepExpired
<1>7. ASSUME NEW w \in Workers, NEW o \in OrderIds, NEW t \in Types,
             NEW qty \in 1..MaxPerOrder, NEW k \in Keys \cup {NoKey},
             CreateOrder(w, o, t, qty, k)
      PROVE  Same
  BY <1>7 DEF CreateOrder
<1>8. ASSUME NEW o \in OrderIds, NEW u \in Units, CancelMine(o, u)
      PROVE  Same
  BY <1>8 DEF CancelMine, ticketingVars
<1>9. ASSUME NEW o \in OrderIds, HoldLapses(o)
      PROVE  Same
  BY <1>9 DEF HoldLapses, ticketingVars
<1> HIDE DEF Same
<1>10. QED
  BY <1>1, <1>2, <1>3, <1>4, <1>5, <1>6, <1>7, <1>8, <1>9 DEF OrdersNext

\* The payment domain never touches the ticket types; a crash drops copies.
LEMMA PaymentsInStock ==
  ASSUME TypeOK, StockInv, PaymentsNext
  PROVE  StockInv'
<1> DEFINE Same == UNCHANGED <<types, typeCopy>>
<1>1. CASE Same
  BY <1>1 DEF StockInv, SoldWithinTotal, CopiesInStock
<1>2. ASSUME NEW w \in Workers, Crash(w)
      PROVE  StockInv'
  <2>1. DropTypes(w) /\ types' = types
    BY <1>2 DEF Crash
  <2>2. QED
    BY <2>1, DropTypesInStock DEF StockInv, SoldWithinTotal
<1>3. PaymentsNext => Same \/ \E w \in Workers : Crash(w)
  BY DEF PaymentsNext, CreateCheckout, MarkPaid, IgnorePaid, SetStripeSession,
         RejectSession, CommitSession, CommitPaid, FailPaid, BuyerPays, ticketingVars
<1> HIDE DEF Same
<1>4. QED
  BY <1>1, <1>2, <1>3

\* Every step keeps rows and copies in stock.
LEMMA NextInStock == TypeOK /\ StockInv /\ [Next]_vars => StockInv'
<1> SUFFICES ASSUME TypeOK, StockInv, [Next]_vars PROVE StockInv'
  OBVIOUS
<1>1. CASE UNCHANGED vars
  BY <1>1 DEF StockInv, SoldWithinTotal, CopiesInStock, vars, ticketingVars
<1>2. QED
  BY <1>1, TicketingInStock, OrdersInStock, PaymentsInStock DEF Next

\* Nothing is sold initially.
LEMMA InitInStock == Init => StockInv
  BY DEF Init, TicketingInit, StockInv, SoldWithinTotal, CopiesInStock, NoType

\* For any number of concurrent requests and any interleaving of claims,
\* cancellations, sweeps, organiser edits and deletions with their stale
\* whole-row Saves, the stored quantity_sold never leaves 0..quantity_total.
THEOREM NeverOversoldInTable == Spec => []SoldWithinTotal
<1>1. StockInv => SoldWithinTotal
  BY DEF StockInv
<1>2. QED
  BY <1>1, TypeCorrect, InitInStock, NextInStock, PTL DEF Spec

(***************************************************************************)
(* What survives the unlocked read-then-Save of order rows, for any number *)
(* of requests.  Columns that every handler copies through (the claim) and *)
(* facts that only ever become true (Stripe was paid) are safe in a stale  *)
(* copy; the argument is that every copy already satisfies what is wanted  *)
(* of the row it may replace.                                              *)
(***************************************************************************)
(***************************************************************************)
(* CONFIRMED means paid                                                    *)
(***************************************************************************)
\* A row that may be stored for o without confirming an unpaid order.
Settled(o, row) == row.status = "CONFIRMED" /\ ~row.free => stripe[o] = "paid"

\* A step that leaves only settled rows and copies, and takes no payment
\* back, preserves PaidInv.
LEMMA SettledStep ==
  ASSUME \A o \in OrderIds : stripe[o] = "paid" => stripe'[o] = "paid",
         \A o \in OrderIds : Settled(o, orders'[o]),
         \A w \in Workers, o \in OrderIds : Settled(o, orderCopy'[w][o])
  PROVE  PaidInv'
  BY DEF PaidInv, ConfirmedIsPaid, CopiesPaid, Settled

\* Loading settled rows leaves settled copies.
LEMMA HoldSettled ==
  ASSUME TypeOK, PaidInv, NEW w \in Workers, NEW rows,
         \A o \in OrderIds : Settled(o, rows[o]),
         NEW name, HoldOrders(w, rows, name)
  PROVE  \A v \in Workers, o \in OrderIds : Settled(o, orderCopy'[v][o])
<1>1. \A v \in Workers : orderCopy'[v] = IF v = w THEN rows ELSE orderCopy[v]
  BY DEF TypeOK, HoldOrders
<1>2. QED
  BY <1>1 DEF PaidInv, CopiesPaid, Settled

\* Loading one settled row leaves settled copies.
LEMMA HoldOneSettled ==
  ASSUME TypeOK, PaidInv, NEW w \in Workers, NEW o \in OrderIds, NEW row,
         Settled(o, row), NEW name, HoldOrder(w, o, row, name)
  PROVE  \A v \in Workers, i \in OrderIds : Settled(i, orderCopy'[v][i])
<1> DEFINE rows == [[i \in OrderIds |-> NoOrder] EXCEPT ![o] = row]
<1>1. \A i \in OrderIds : Settled(i, rows[i])
  BY DEF Settled, NoOrder
<1>2. HoldOrders(w, rows, name)
  BY DEF HoldOrder
<1> HIDE DEF rows
<1>3. QED
  BY <1>1, <1>2, HoldSettled

\* Dropping copies leaves settled copies.
LEMMA DropSettled ==
  ASSUME TypeOK, PaidInv, NEW w \in Workers, DropOrders(w)
  PROVE  \A v \in Workers, o \in OrderIds : Settled(o, orderCopy'[v][o])
<1>1. \A v \in Workers, o \in OrderIds :
        orderCopy'[v][o] = IF v = w THEN NoOrder ELSE orderCopy[v][o]
  BY DEF TypeOK, DropOrders
<1>2. NoOrder.status # "CONFIRMED"
  BY DEF NoOrder
<1>3. QED
  BY <1>1, <1>2 DEF PaidInv, CopiesPaid, Settled

\* The sweeper moving on leaves settled copies.
LEMMA NextOfBatchSettled ==
  ASSUME TypeOK, PaidInv, NEW w \in Workers, NEW i \in OrderIds, NextOfBatch(w, i)
  PROVE  \A v \in Workers, o \in OrderIds : Settled(o, orderCopy'[v][o])
<1>1. \A v \in Workers, o \in OrderIds :
        orderCopy'[v][o] = IF v = w /\ o = i THEN NoOrder ELSE orderCopy[v][o]
  BY DEF TypeOK, NextOfBatch
<1>2. NoOrder.status # "CONFIRMED"
  BY DEF NoOrder
<1>3. QED
  BY <1>1, <1>2 DEF PaidInv, CopiesPaid, Settled

\* Saving a settled row leaves settled rows.
LEMMA SaveSettled ==
  ASSUME TypeOK, PaidInv, NEW i \in OrderIds, NEW row, Settled(i, row),
         UpdateOrder(i, row)
  PROVE  \A o \in OrderIds : Settled(o, orders'[o])
<1>1. \A o \in OrderIds : orders'[o] = IF o = i THEN row ELSE orders[o]
  BY DEF TypeOK, UpdateOrder
<1>2. QED
  BY <1>1 DEF PaidInv, ConfirmedIsPaid, Settled

\* The stored rows and the copies are settled now.
LEMMA NowSettled ==
  ASSUME PaidInv
  PROVE  /\ \A o \in OrderIds : Settled(o, orders[o])
         /\ \A w \in Workers, o \in OrderIds : Settled(o, orderCopy[w][o])
  BY DEF PaidInv, ConfirmedIsPaid, CopiesPaid, Settled

\* A handler that cancels or expires an order saves a settled row.
LEMMA DeadIsSettled ==
  ASSUME TypeOK, NEW w \in Workers, NEW o \in OrderIds,
         NEW status \in {"CANCELLED", "EXPIRED"}
  PROVE  Settled(o, [orderCopy[w][o] EXCEPT !.status = status])
<1>1. orderCopy[w][o] \in OrderRow
  BY CopyIsRow
<1>2. [orderCopy[w][o] EXCEPT !.status = status].status = status
  BY <1>1 DEF OrderRow
<1>3. QED
  BY <1>2 DEF Settled

\* The order domain never confirms an unpaid priced order.
LEMMA OrdersSettled ==
  ASSUME TypeOK, PaidInv, OrdersNext, UNCHANGED paymentVars
  PROVE  PaidInv'
<1>0. \A o \in OrderIds : stripe[o] = "paid" => stripe'[o] = "paid"
  BY DEF paymentVars
<1>1. ASSUME NEW w \in Workers, NEW o \in OrderIds, NEW t \in Types,
             NEW qty, NEW k, CreateOrder(w, o, t, qty, k)
      PROVE  PaidInv'
  <2> DEFINE row == [status |-> IF types[t].free THEN "CONFIRMED" ELSE "PENDING_PAYMENT",
                     ty |-> t, qty |-> qty, free |-> types[t].free, key |-> k,
                     session |-> FALSE, paid |-> FALSE]
  <2>1. Settled(o, row)
    BY DEF Settled
  <2>2. HoldOrder(w, o, row, "createOrder") /\ orders' = orders
    BY <1>1 DEF CreateOrder
  <2> HIDE DEF row
  <2>3. QED
    BY <1>0, <2>1, <2>2, HoldOneSettled, NowSettled, SettledStep
<1>2. ASSUME NEW w \in Workers, CommitOrder(w)
      PROVE  PaidInv'
  <2>1. PICK o \in OrderIds : UpdateOrder(o, orderCopy[w][o])
    BY <1>2 DEF CommitOrder, Loaded
  <2>2. DropOrders(w)
    BY <1>2 DEF CommitOrder
  <2>3. QED
    BY <1>0, <2>1, <2>2, DropSettled, NowSettled, SaveSettled, SettledStep
<1>3. ASSUME NEW w \in Workers, RollbackOrder(w) \/ RollbackCancel(w)
      PROVE  PaidInv'
  <2>1. DropOrders(w) /\ orders' = orders
    BY <1>3 DEF RollbackOrder, RollbackCancel
  <2>2. QED
    BY <1>0, <2>1, DropSettled, NowSettled, SettledStep
<1>4. ASSUME NEW w \in Workers, NEW o \in OrderIds, CancelOrder(w, o)
      PROVE  PaidInv'
  <2>1. HoldOrder(w, o, orders[o], "cancelOrder") /\ orders' = orders
    BY <1>4 DEF CancelOrder
  <2>2. QED
    BY <1>0, <2>1, HoldOneSettled, NowSettled, SettledStep
<1>5. ASSUME NEW w \in Workers, CommitCancel(w)
      PROVE  PaidInv'
  <2>1. PICK o \in OrderIds :
          UpdateOrder(o, [orderCopy[w][o] EXCEPT !.status = "CANCELLED"])
    BY <1>5 DEF CommitCancel, Loaded
  <2>2. DropOrders(w)
    BY <1>5 DEF CommitCancel
  <2>3. QED
    BY <1>0, <2>1, <2>2, DropSettled, DeadIsSettled, SaveSettled, SettledStep
<1>6. ASSUME NEW w \in Workers, SweepExpired(w)
      PROVE  PaidInv'
  <2>1. PICK batch \in SUBSET ExpiredPending :
          HoldOrders(w, [o \in OrderIds |-> IF o \in batch THEN orders[o] ELSE NoOrder], "sweep")
    BY <1>6 DEF SweepExpired
  <2> DEFINE rows == [o \in OrderIds |-> IF o \in batch THEN orders[o] ELSE NoOrder]
  <2>2. \A o \in OrderIds : Settled(o, rows[o])
    BY NowSettled DEF Settled, NoOrder
  <2>3. HoldOrders(w, rows, "sweep")
    BY <2>1
  <2> HIDE DEF rows
  <2>4. orders' = orders
    BY <1>6 DEF SweepExpired
  <2>5. QED
    BY <1>0, <2>2, <2>3, <2>4, HoldSettled, NowSettled, SettledStep
<1>7. ASSUME NEW w \in Workers, NEW o \in OrderIds, ExpireOne(w, o)
      PROVE  PaidInv'
  <2>1. /\ UpdateOrder(o, [orderCopy[w][o] EXCEPT !.status = "EXPIRED"])
        /\ NextOfBatch(w, o)
    BY <1>7 DEF ExpireOne
  <2>2. QED
    BY <1>0, <2>1, NextOfBatchSettled, DeadIsSettled, SaveSettled, SettledStep
<1>8. ASSUME NEW w \in Workers, NEW o \in OrderIds, SkipOne(w, o)
      PROVE  PaidInv'
  <2>1. NextOfBatch(w, o) /\ orders' = orders
    BY <1>8 DEF SkipOne
  <2>2. QED
    BY <1>0, <2>1, NextOfBatchSettled, NowSettled, SettledStep
<1>9. ASSUME NEW o \in OrderIds, NEW u \in Units, CancelMine(o, u)
      PROVE  PaidInv'
  <2>1. orders' = orders /\ orderCopy' = orderCopy
    BY <1>9 DEF CancelMine
  <2>2. QED
    BY <1>0, <2>1, NowSettled, SettledStep
<1>10. ASSUME NEW o \in OrderIds, HoldLapses(o)
       PROVE  PaidInv'
  <2>1. orders' = orders /\ orderCopy' = orderCopy
    BY <1>10 DEF HoldLapses
  <2>2. QED
    BY <1>0, <2>1, NowSettled, SettledStep
<1>11. QED
  BY <1>1, <1>2, <1>3, <1>4, <1>5, <1>6, <1>7, <1>8, <1>9, <1>10 DEF OrdersNext

\* The payment domain confirms only what Stripe reports as paid.
LEMMA PaymentsSettled ==
  ASSUME TypeOK, PaidInv, PaymentsNext
  PROVE  PaidInv'
<1>1. ASSUME NEW w \in Workers, NEW o \in OrderIds, CreateCheckout(w, o)
      PROVE  PaidInv'
  <2>1. HoldOrder(w, o, orders[o], "checkout") /\ orders' = orders /\ stripe' = stripe
    BY <1>1 DEF CreateCheckout, paymentVars
  <2>2. QED
    BY <2>1, HoldOneSettled, NowSettled, SettledStep
<1>2. ASSUME NEW w \in Workers, SetStripeSession(w)
      PROVE  PaidInv'
  <2>1. PICK i \in OrderIds :
          orderCopy' = [orderCopy EXCEPT ![w][i] = [orders[i] EXCEPT !.session = TRUE]]
    BY <1>2 DEF SetStripeSession, Loaded
  <2> DEFINE row == [orders[i] EXCEPT !.session = TRUE]
  <2>2. orders[i] \in OrderRow /\ orderCopy \in [Workers -> [OrderIds -> OrderRow]]
    BY DEF TypeOK
  <2>3. row.status = orders[i].status /\ row.free = orders[i].free
    BY <2>2 DEF OrderRow
  <2>4. Settled(i, row)
    BY <2>3, NowSettled DEF Settled
  <2>5. orderCopy' = [orderCopy EXCEPT ![w][i] = row]
    BY <2>1
  <2> HIDE DEF row
  <2>6. \A v \in Workers, o \in OrderIds :
          orderCopy'[v][o] = IF v = w /\ o = i THEN row ELSE orderCopy[v][o]
    BY <2>2, <2>5
  <2>7. \A v \in Workers, o \in OrderIds : Settled(o, orderCopy'[v][o])
    BY <2>4, <2>6, NowSettled
  <2>8. orders' = orders /\ stripe' = stripe
    BY <1>2 DEF SetStripeSession, paymentVars
  <2>9. QED
    BY <2>7, <2>8, NowSettled, SettledStep
<1>3. ASSUME NEW w \in Workers, RejectSession(w) \/ FailPaid(w) \/ Crash(w)
      PROVE  PaidInv'
  <2>1. DropOrders(w) /\ orders' = orders /\ stripe' = stripe
    BY <1>3 DEF RejectSession, FailPaid, Crash, paymentVars
  <2>2. QED
    BY <2>1, DropSettled, NowSettled, SettledStep
<1>4. ASSUME NEW w \in Workers, CommitSession(w) \/ CommitPaid(w)
      PROVE  PaidInv'
  <2>1. PICK o \in OrderIds :
          /\ UpdateOrder(o, orderCopy[w][o])
          /\ \/ stripe' = stripe
             \/ stripe' = [stripe EXCEPT ![o] = IF stripe[o] = "none" THEN "open" ELSE stripe[o]]
    BY <1>4 DEF CommitSession, CommitPaid, Loaded
  <2>2. DropOrders(w)
    BY <1>4 DEF CommitSession, CommitPaid
  <2>3. \A i \in OrderIds : stripe[i] = "paid" => stripe'[i] = "paid"
    BY <2>1 DEF TypeOK
  <2>4. QED
    BY <2>1, <2>2, <2>3, DropSettled, NowSettled, SaveSettled, SettledStep
<1>5. ASSUME NEW w \in Workers, NEW o \in OrderIds, MarkPaid(w, o)
      PROVE  PaidInv'
  <2> DEFINE row == [orders[o] EXCEPT !.status = "CONFIRMED",
                                      !.session = TRUE, !.paid = TRUE]
  <2>1. Settled(o, row)
    BY <1>5 DEF MarkPaid, Settled
  <2>2. HoldOrder(w, o, row, "markPaid") /\ orders' = orders /\ stripe' = stripe
    BY <1>5 DEF MarkPaid, paymentVars
  <2> HIDE DEF row
  <2>3. QED
    BY <2>1, <2>2, HoldOneSettled, NowSettled, SettledStep
<1>6. ASSUME NEW w \in Workers, NEW o \in OrderIds, IgnorePaid(w, o)
      PROVE  PaidInv'
  <2>1. orders' = orders /\ orderCopy' = orderCopy /\ stripe' = stripe
    BY <1>6 DEF IgnorePaid, orderVars
  <2>2. QED
    BY <2>1, NowSettled, SettledStep
<1>7. ASSUME NEW o \in OrderIds, BuyerPays(o)
      PROVE  PaidInv'
  <2>1. orders' = orders /\ orderCopy' = orderCopy
    BY <1>7 DEF BuyerPays, orderVars
  <2>2. \A i \in OrderIds : stripe[i] = "paid" => stripe'[i] = "paid"
    BY <1>7 DEF BuyerPays, TypeOK
  <2>3. QED
    BY <2>1, <2>2, NowSettled, SettledStep
<1>8. QED
  BY <1>1, <1>2, <1>3, <1>4, <1>5, <1>6, <1>7 DEF PaymentsNext

\* Every step preserves PaidInv.
LEMMA NextSettled == TypeOK /\ PaidInv /\ [Next]_vars => PaidInv'
<1> SUFFICES ASSUME TypeOK, PaidInv, [Next]_vars PROVE PaidInv'
  OBVIOUS
<1>1. CASE TicketingNext /\ UNCHANGED <<orderVars, paymentVars>>
  BY <1>1, NowSettled, SettledStep DEF orderVars, paymentVars
<1>2. CASE UNCHANGED vars
  BY <1>2, NowSettled, SettledStep DEF vars, orderVars, paymentVars
<1>3. QED
  BY <1>1, <1>2, OrdersSettled, PaymentsSettled DEF Next

\* No order is confirmed initially.
LEMMA InitSettled == Init => PaidInv
  BY DEF Init, OrdersInit, PaidInv, ConfirmedIsPaid, CopiesPaid, NoOrder

\* For any number of requests, webhook deliveries and sweeps in flight, no
\* stale Save of a cancellation, an expiry or a checkout link ever stores
\* CONFIRMED for a priced order Stripe was not paid for.
THEOREM NoFreeRide == Spec => []ConfirmedIsPaid
<1>1. PaidInv => ConfirmedIsPaid
  BY DEF PaidInv
<1>2. QED
  BY <1>1, TypeCorrect, InitSettled, NextSettled, PTL DEF Spec

(***************************************************************************)
(* The claim of an order (type, quantity, price, idempotency key) is fixed *)
(* by the transaction that inserts it, for any number of requests.  All    *)
(* handlers but CreateOrder work on copies of existing orders and carry    *)
(* the claim through; the claim transaction alone creates a row, checks    *)
(* the key again and mints the attendees of a free order with it.          *)
(***************************************************************************)
\* The step creates no order and rewrites no claim.
KeepsClaims ==
    \A o \in OrderIds :
        /\ orders[o] = NoOrder <=> orders'[o] = NoOrder
        /\ Claim(orders'[o]) = Claim(orders[o])

\* Each copy after the step was dropped, was there before, or was made from
\* an existing order with its claim.
KeepsCopy(w, o) ==
    \/ orderCopy'[w][o] = NoOrder
    \/ /\ orderCopy'[w][o] = orderCopy[w][o]
       /\ op'[w] = "createOrder" <=> op[w] = "createOrder"
    \/ /\ op'[w] # "createOrder"
       /\ orders[o] # NoOrder
       /\ Claim(orderCopy'[w][o]) = Claim(orders[o])

KeepsCopies == \A w \in Workers, o \in OrderIds : KeepsCopy(w, o)

\* No attendee row appears or vanishes and no e-mail is unsent.
KeepsSeats ==
    /\ \A o \in OrderIds, u \in Units : seats[o][u] = "NONE" <=> seats'[o][u] = "NONE"
    /\ mailed \subseteq mailed'

\* Equal claims have equal columns.
LEMMA ClaimColumns ==
  ASSUME NEW r, NEW s, Claim(r) = Claim(s)
  PROVE  r.ty = s.ty /\ r.qty = s.qty /\ r.free = s.free /\ r.key = s.key
  BY DEF Claim

\* Steps of these three kinds preserve the invariant.
LEMMA KeepingStep ==
  ASSUME TypeOK, ClaimInv, KeepsClaims, KeepsCopies, KeepsSeats
  PROVE  ClaimInv'
<1>1. CopiesMatch'
  <2> SUFFICES ASSUME NEW w \in Workers, NEW o \in OrderIds,
                      orderCopy'[w][o] # NoOrder, op'[w] # "createOrder"
               PROVE  orders'[o] # NoOrder /\ Claim(orderCopy'[w][o]) = Claim(orders'[o])
    BY DEF CopiesMatch, Loaded
  <2>1. KeepsCopy(w, o)
    BY DEF KeepsCopies
  <2>2. orders[o] # NoOrder /\ Claim(orderCopy'[w][o]) = Claim(orders[o])
    BY <2>1 DEF KeepsCopy, ClaimInv, CopiesMatch, Loaded
  <2>3. QED
    BY <2>2 DEF KeepsClaims
<1>2. DraftsAreFresh'
  <2> SUFFICES ASSUME NEW w \in Workers, NEW o \in OrderIds,
                      orderCopy'[w][o] # NoOrder, op'[w] = "createOrder"
               PROVE  /\ orders'[o] = NoOrder
                      /\ \A v \in Workers \ {w} : orderCopy'[v][o] = NoOrder
                      /\ orderCopy'[w][o].free <=> orderCopy'[w][o].status = "CONFIRMED"
                      /\ orderCopy'[w][o].qty \in 1..MaxPerOrder
    BY DEF DraftsAreFresh, Loaded
  <2>1. orderCopy'[w][o] = orderCopy[w][o] /\ op[w] = "createOrder"
    BY DEF KeepsCopies, KeepsCopy
  <2>2. /\ orders[o] = NoOrder
        /\ \A v \in Workers \ {w} : orderCopy[v][o] = NoOrder
        /\ orderCopy[w][o].free <=> orderCopy[w][o].status = "CONFIRMED"
        /\ orderCopy[w][o].qty \in 1..MaxPerOrder
    BY <2>1 DEF ClaimInv, DraftsAreFresh, Loaded
  <2>3. \A v \in Workers \ {w} : orderCopy'[v][o] = NoOrder
    BY <2>2 DEF KeepsCopies, KeepsCopy
  <2>4. orders'[o] = NoOrder
    BY <2>2 DEF KeepsClaims
  <2>5. QED
    BY <2>1, <2>2, <2>3, <2>4
<1>3. \A o \in OrderIds : /\ orders'[o].qty = orders[o].qty
                          /\ orders'[o].free = orders[o].free
                          /\ orders'[o].key = orders[o].key
  BY ClaimColumns DEF KeepsClaims
<1>4. OneOrderPerKey'
  BY <1>3 DEF ClaimInv, OneOrderPerKey
<1>5. NoOrderNoSeats'
  BY DEF ClaimInv, NoOrderNoSeats, KeepsClaims, KeepsSeats
<1>6. FreeOrderComplete'
  <2> SUFFICES ASSUME NEW o \in OrderIds, orders'[o].free
               PROVE  /\ o \in mailed'
                      /\ {u \in Units : seats'[o][u] # "NONE"} = 0..(orders'[o].qty - 1)
    BY DEF FreeOrderComplete
  <2>1. orders[o].free /\ orders'[o].qty = orders[o].qty
    BY <1>3
  <2>2. /\ o \in mailed
        /\ {u \in Units : seats[o][u] # "NONE"} = 0..(orders[o].qty - 1)
    BY <2>1 DEF ClaimInv, FreeOrderComplete
  <2>3. {u \in Units : seats'[o][u] # "NONE"} = {u \in Units : seats[o][u] # "NONE"}
    BY DEF KeepsSeats
  <2>4. QED
    BY <2>1, <2>2, <2>3 DEF KeepsSeats
<1>7. QED
  BY <1>1, <1>2, <1>4, <1>5, <1>6 DEF ClaimInv

(***************************************************************************)
(* The shared pieces of the handlers keep copies and claims                *)
(***************************************************************************)
\* Loading rows of existing orders.
LEMMA HoldKeepsCopies ==
  ASSUME TypeOK, NEW w \in Workers, NEW rows, NEW name \in OpNames \ {"createOrder"},
         HoldOrders(w, rows, name),
         \A o \in OrderIds : \/ rows[o] = NoOrder
                             \/ orders[o] # NoOrder /\ Claim(rows[o]) = Claim(orders[o])
  PROVE  KeepsCopies
<1>1. \A v \in Workers : /\ orderCopy'[v] = IF v = w THEN rows ELSE orderCopy[v]
                         /\ op'[v] = IF v = w THEN name ELSE op[v]
  BY DEF TypeOK, HoldOrders
<1>2. QED
  BY <1>1 DEF KeepsCopies, KeepsCopy

\* Loading one row of an existing order.
LEMMA HoldOneKeepsCopies ==
  ASSUME TypeOK, NEW w \in Workers, NEW o \in OrderIds, NEW row,
         NEW name \in OpNames \ {"createOrder"}, HoldOrder(w, o, row, name),
         orders[o] # NoOrder, Claim(row) = Claim(orders[o])
  PROVE  KeepsCopies
<1> DEFINE rows == [[i \in OrderIds |-> NoOrder] EXCEPT ![o] = row]
<1>1. \A i \in OrderIds : \/ rows[i] = NoOrder
                          \/ orders[i] # NoOrder /\ Claim(rows[i]) = Claim(orders[i])
  OBVIOUS
<1>2. HoldOrders(w, rows, name)
  BY DEF HoldOrder
<1> HIDE DEF rows
<1>3. QED
  BY <1>1, <1>2, HoldKeepsCopies

\* Ending a request.
LEMMA DropKeepsCopies ==
  ASSUME TypeOK, NEW w \in Workers, DropOrders(w), Finish(w)
  PROVE  KeepsCopies
<1>1. \A v \in Workers, o \in OrderIds :
        /\ orderCopy'[v][o] = IF v = w THEN NoOrder ELSE orderCopy[v][o]
        /\ op'[v] = IF v = w THEN "idle" ELSE op[v]
  BY DEF TypeOK, DropOrders, Finish
<1>2. QED
  BY <1>1 DEF KeepsCopies, KeepsCopy

\* The sweeper moving on.
LEMMA NextOfBatchKeepsCopies ==
  ASSUME TypeOK, NEW w \in Workers, NEW i \in OrderIds, op[w] = "sweep", NextOfBatch(w, i)
  PROVE  KeepsCopies
<1>1. \A v \in Workers, o \in OrderIds :
        orderCopy'[v][o] = IF v = w /\ o = i THEN NoOrder ELSE orderCopy[v][o]
  BY DEF TypeOK, NextOfBatch
<1>2. \A v \in Workers : op'[v] = "createOrder" <=> op[v] = "createOrder"
  BY DEF TypeOK, NextOfBatch
<1>3. QED
  BY <1>1, <1>2 DEF KeepsCopies, KeepsCopy

\* Saving a copy of an existing order.
LEMMA SaveKeepsClaims ==
  ASSUME TypeOK, ClaimInv, NEW w \in Workers, NEW i \in OrderIds, i \in Loaded(w),
         op[w] # "createOrder", NEW row, Claim(row) = Claim(orderCopy[w][i]),
         row # NoOrder, UpdateOrder(i, row)
  PROVE  KeepsClaims
<1>1. orders[i] # NoOrder /\ Claim(orderCopy[w][i]) = Claim(orders[i])
  BY DEF ClaimInv, CopiesMatch
<1>2. \A o \in OrderIds : orders'[o] = IF o = i THEN row ELSE orders[o]
  BY DEF TypeOK, UpdateOrder
<1>3. QED
  BY <1>1, <1>2 DEF KeepsClaims

\* Changing the status, session and payment columns changes no claim.
LEMMA ClaimOfUpdates ==
  ASSUME NEW row \in OrderRow, NEW status \in OrderStatus
  PROVE  /\ Claim([row EXCEPT !.status = status]) = Claim(row)
         /\ Claim([row EXCEPT !.session = TRUE]) = Claim(row)
         /\ Claim([row EXCEPT !.status = status, !.session = TRUE, !.paid = TRUE]) = Claim(row)
         /\ [row EXCEPT !.status = status] # NoOrder
  BY DEF OrderRow, Claim, NoOrder, OrderStatus

\* A step that leaves the attendees and the e-mails alone keeps seats.
LEMMA SameSeats ==
  ASSUME UNCHANGED <<seats, mailed>>
  PROVE  KeepsSeats
  BY DEF KeepsSeats

\* A step that leaves the orders alone keeps claims.
LEMMA SameOrders ==
  ASSUME UNCHANGED orders
  PROVE  KeepsClaims
  BY DEF KeepsClaims

(***************************************************************************)
(* CreateOrder                                                             *)
(***************************************************************************)
\* Building an order in memory: the id is new, so nobody else knows it.
LEMMA DraftStep ==
  ASSUME TypeOK, ClaimInv, NEW w \in Workers, NEW o \in OrderIds, NEW t \in Types,
         NEW qty \in 1..MaxPerOrder, NEW k \in Keys \cup {NoKey},
         CreateOrder(w, o, t, qty, k)
  PROVE  ClaimInv'
<1> DEFINE row == [status |-> IF types[t].free THEN "CONFIRMED" ELSE "PENDING_PAYMENT",
                   ty |-> t, qty |-> qty, free |-> types[t].free, key |-> k,
                   session |-> FALSE, paid |-> FALSE]
<1>1. types[t].free \in BOOLEAN
  BY DEF TypeOK, TypeRow
<1>2. (row.free <=> row.status = "CONFIRMED") /\ row.qty \in 1..MaxPerOrder
  BY <1>1
<1>3. /\ orders[o] = NoOrder
      /\ \A v \in Workers : orderCopy[v][o] = NoOrder
      /\ HoldOrder(w, o, row, "createOrder")
      /\ UNCHANGED <<orders, seats, mailed>>
  BY DEF CreateOrder
<1> HIDE DEF row
<1>4. \A v \in Workers, i \in OrderIds :
        /\ orderCopy'[v][i] = IF v = w THEN IF i = o THEN row ELSE NoOrder
                                       ELSE orderCopy[v][i]
        /\ op'[v] = IF v = w THEN "createOrder" ELSE op[v]
  BY <1>3 DEF TypeOK, HoldOrder, HoldOrders
<1>5. CopiesMatch'
  BY <1>3, <1>4 DEF ClaimInv, CopiesMatch, Loaded
<1>6. DraftsAreFresh'
  <2> SUFFICES ASSUME NEW v \in Workers, NEW i \in OrderIds,
                      orderCopy'[v][i] # NoOrder, op'[v] = "createOrder"
               PROVE  /\ orders'[i] = NoOrder
                      /\ \A x \in Workers \ {v} : orderCopy'[x][i] = NoOrder
                      /\ orderCopy'[v][i].free <=> orderCopy'[v][i].status = "CONFIRMED"
                      /\ orderCopy'[v][i].qty \in 1..MaxPerOrder
    BY DEF DraftsAreFresh, Loaded
  <2>1. CASE v = w
    <3>1. i = o /\ orderCopy'[v][i] = row
      BY <1>4, <2>1
    <3>2. QED
      BY <1>2, <1>3, <1>4, <2>1, <3>1
  <2>2. CASE v # w
    <3>1. orderCopy'[v][i] = orderCopy[v][i] /\ op[v] = "createOrder"
      BY <1>4, <2>2
    <3>2. /\ orders[i] = NoOrder
          /\ \A x \in Workers \ {v} : orderCopy[x][i] = NoOrder
          /\ orderCopy[v][i].free <=> orderCopy[v][i].status = "CONFIRMED"
          /\ orderCopy[v][i].qty \in 1..MaxPerOrder
      BY <3>1 DEF ClaimInv, DraftsAreFresh, Loaded
    <3>3. i # o
      BY <1>3, <3>1
    <3>4. QED
      BY <1>3, <1>4, <3>1, <3>2, <3>3
  <2>3. QED
    BY <2>1, <2>2
<1>7. OneOrderPerKey' /\ NoOrderNoSeats' /\ FreeOrderComplete'
  BY <1>3 DEF ClaimInv, OneOrderPerKey, NoOrderNoSeats, FreeOrderComplete
<1>8. QED
  BY <1>5, <1>6, <1>7 DEF ClaimInv

\* Minting for an order without attendees makes exactly its units.
LEMMA MintMakesUnits ==
  ASSUME TypeOK, NEW o \in OrderIds, NEW qty \in 1..MaxPerOrder,
         \A u \in Units : seats[o][u] = "NONE", MintForOrder(o, qty)
  PROVE  /\ {u \in Units : seats'[o][u] # "NONE"} = 0..(qty - 1)
         /\ \A i \in OrderIds : i # o => seats'[i] = seats[i]
<1>1. \A i \in OrderIds : i # o => seats'[i] = seats[i]
  BY DEF TypeOK, MintForOrder
<1>2. \A u \in Units : seats'[o][u] = IF u < qty THEN "REGISTERED" ELSE "NONE"
  BY DEF TypeOK, MintForOrder
<1>3. {u \in Units : seats'[o][u] # "NONE"} = {u \in Units : u < qty}
  BY <1>2
<1>4. {u \in Units : u < qty} = 0..(qty - 1)
  BY TicketingAssumption DEF Units
<1>5. QED
  BY <1>1, <1>3, <1>4

\* The claim transaction inserts one order: the key is checked again and,
\* when the order is free, its attendees and its e-mail come with it.
LEMMA InsertStep ==
  ASSUME TypeOK, ClaimInv, NEW w \in Workers, CommitOrder(w)
  PROVE  /\ ClaimInv'
         /\ \A o \in OrderIds : orders[o] # NoOrder => orders'[o] = orders[o]
<1>1. PICK o \in Loaded(w) :
        /\ ~UniqueViolation(orderCopy[w][o].key)
        /\ UpdateOrder(o, orderCopy[w][o])
        /\ IF orderCopy[w][o].status = "CONFIRMED"
           THEN MintForOrder(o, orderCopy[w][o].qty) /\ mailed' = mailed \cup {o}
           ELSE UNCHANGED <<seats, mailed>>
  BY DEF CommitOrder
<1> DEFINE row == orderCopy[w][o]
<1>2. o \in OrderIds /\ row # NoOrder /\ op[w] = "createOrder"
  BY DEF Loaded, CommitOrder
<1>3. /\ orders[o] = NoOrder
      /\ \A v \in Workers \ {w} : orderCopy[v][o] = NoOrder
      /\ row.free <=> row.status = "CONFIRMED"
      /\ row.qty \in 1..MaxPerOrder
  BY <1>2 DEF ClaimInv, DraftsAreFresh, Loaded
<1>4. \A i \in OrderIds : orders'[i] = IF i = o THEN row ELSE orders[i]
  BY <1>1 DEF TypeOK, UpdateOrder
<1>5. \A v \in Workers, i \in OrderIds :
        /\ orderCopy'[v][i] = IF v = w THEN NoOrder ELSE orderCopy[v][i]
        /\ op'[v] = IF v = w THEN "idle" ELSE op[v]
  BY DEF TypeOK, CommitOrder, DropOrders, Finish
<1>6. \A u \in Units : seats[o][u] = "NONE"
  BY <1>2, <1>3 DEF ClaimInv, NoOrderNoSeats
<1>7. CopiesMatch'
  <2> SUFFICES ASSUME NEW v \in Workers, NEW i \in OrderIds,
                      orderCopy'[v][i] # NoOrder, op'[v] # "createOrder"
               PROVE  orders'[i] # NoOrder /\ Claim(orderCopy'[v][i]) = Claim(orders'[i])
    BY DEF CopiesMatch, Loaded
  <2>1. v # w /\ i # o
    BY <1>3, <1>5
  <2>2. QED
    BY <1>4, <1>5, <2>1 DEF ClaimInv, CopiesMatch, Loaded
<1>8. DraftsAreFresh'
  <2> SUFFICES ASSUME NEW v \in Workers, NEW i \in OrderIds,
                      orderCopy'[v][i] # NoOrder, op'[v] = "createOrder"
               PROVE  /\ orders'[i] = NoOrder
                      /\ \A x \in Workers \ {v} : orderCopy'[x][i] = NoOrder
                      /\ orderCopy'[v][i].free <=> orderCopy'[v][i].status = "CONFIRMED"
                      /\ orderCopy'[v][i].qty \in 1..MaxPerOrder
    BY DEF DraftsAreFresh, Loaded
  <2>1. v # w /\ i # o
    BY <1>3, <1>5
  <2>2. /\ orders[i] = NoOrder
        /\ \A x \in Workers \ {v} : orderCopy[x][i] = NoOrder
        /\ orderCopy[v][i].free <=> orderCopy[v][i].status = "CONFIRMED"
        /\ orderCopy[v][i].qty \in 1..MaxPerOrder
    BY <1>5, <2>1 DEF ClaimInv, DraftsAreFresh, Loaded
  <2>3. QED
    BY <1>4, <1>5, <2>1, <2>2
<1>9. OneOrderPerKey'
  <2>1. row.key = NoKey \/ \A i \in OrderIds : orders[i].key # row.key
    BY <1>1 DEF UniqueViolation, KeyTaken
  <2>2. QED
    BY <1>2, <1>4, <2>1 DEF ClaimInv, OneOrderPerKey
<1>10. CASE row.status = "CONFIRMED"
  <2>1. /\ {u \in Units : seats'[o][u] # "NONE"} = 0..(row.qty - 1)
        /\ \A i \in OrderIds : i # o => seats'[i] = seats[i]
        /\ mailed' = mailed \cup {o}
    BY <1>1, <1>2, <1>3, <1>6, <1>10, MintMakesUnits
  <2>2. NoOrderNoSeats'
    BY <1>2, <1>4, <2>1 DEF ClaimInv, NoOrderNoSeats
  <2>3. FreeOrderComplete'
    BY <1>2, <1>4, <2>1 DEF ClaimInv, FreeOrderComplete
  <2>4. QED
    BY <1>3, <1>4, <1>7, <1>8, <1>9, <2>2, <2>3 DEF ClaimInv
<1>11. CASE row.status # "CONFIRMED"
  <2>1. UNCHANGED <<seats, mailed>>
    BY <1>1, <1>11
  <2>2. NoOrderNoSeats'
    BY <1>2, <1>4, <2>1 DEF ClaimInv, NoOrderNoSeats
  <2>3. FreeOrderComplete'
    BY <1>2, <1>3, <1>4, <1>11, <2>1 DEF ClaimInv, FreeOrderComplete
  <2>4. QED
    BY <1>3, <1>4, <1>7, <1>8, <1>9, <2>2, <2>3 DEF ClaimInv
<1>12. QED
  BY <1>10, <1>11

(***************************************************************************)
(* Every other step keeps claims, copies and seats                         *)
(***************************************************************************)
Keeps == KeepsClaims /\ KeepsCopies /\ KeepsSeats

\* Organisers' handlers hold no orders.
LEMMA TicketingKeeps ==
  ASSUME TypeOK, TicketingNext, UNCHANGED orderVars
  PROVE  Keeps
<1>1. UNCHANGED <<orders, orderCopy, seats, mailed>>
  BY DEF orderVars
<1>2. PICK w \in Workers, name \in OpNames \ {"createOrder"} :
        op[w] # "createOrder" /\ op' = [op EXCEPT ![w] = name]
  <2>1. ASSUME NEW w \in Workers, SaveType(w) \/ CommitDelete(w)
        PROVE  op[w] # "createOrder" /\ op' = [op EXCEPT ![w] = "idle"]
    BY <2>1 DEF SaveType, CommitDelete, Finish
  <2>2. \A row, name : \A w \in Workers, t \in Types :
            HoldType(w, t, row, name) => op[w] # "createOrder" /\ op' = [op EXCEPT ![w] = name]
    BY DEF HoldType, Idle
  <2>3. PICK w \in Workers :
            \/ SaveType(w) \/ CommitDelete(w)
            \/ \E t \in Types : \E row :
                HoldType(w, t, row, "saveType") \/ HoldType(w, t, row, "deleteType")
    BY DEF TicketingNext, CreateType, UpdateType, Activate, Pause, SetStatus, DeleteType
  <2>4. {"idle", "saveType", "deleteType"} \subseteq OpNames \ {"createOrder"}
    BY DEF OpNames
  <2>5. QED
    BY <2>1, <2>2, <2>3, <2>4
<1>3. KeepsCopies
  BY <1>1, <1>2 DEF TypeOK, KeepsCopies, KeepsCopy
<1>4. QED
  BY <1>1, <1>3, SameOrders, SameSeats DEF Keeps

\* A request that gives up, or crashes, keeps everything.
LEMMA GiveUpKeeps ==
  ASSUME TypeOK, NEW w \in Workers, DropOrders(w), Finish(w),
         UNCHANGED <<orders, seats, mailed>>
  PROVE  Keeps
  BY DropKeepsCopies, SameOrders, SameSeats DEF Keeps

\* A request that reads one existing order keeps everything.
LEMMA ReadKeeps ==
  ASSUME TypeOK, NEW w \in Workers, NEW o \in OrderIds, NEW row,
         NEW name \in OpNames \ {"createOrder"}, HoldOrder(w, o, row, name),
         orders[o] # NoOrder, Claim(row) = Claim(orders[o]),
         UNCHANGED <<orders, seats, mailed>>
  PROVE  Keeps
  BY HoldOneKeepsCopies, SameOrders, SameSeats DEF Keeps

\* A request that saves its copy and ends keeps everything.
LEMMA WriteKeeps ==
  ASSUME TypeOK, ClaimInv, NEW w \in Workers, NEW o \in OrderIds, o \in Loaded(w),
         op[w] # "createOrder", NEW row, Claim(row) = Claim(orderCopy[w][o]),
         row # NoOrder, UpdateOrder(o, row), DropOrders(w), Finish(w),
         UNCHANGED <<seats, mailed>>
  PROVE  Keeps
  BY DropKeepsCopies, SaveKeepsClaims, SameSeats DEF Keeps

\* Cancelling, lapsing and sweeping keep everything.
LEMMA OrdersKeep ==
  ASSUME TypeOK, ClaimInv, OrdersNext,
         ~ \E w \in Workers : CommitOrder(w),
         ~ \E w \in Workers, o \in OrderIds, t \in Types, qty \in 1..MaxPerOrder,
              k \in Keys \cup {NoKey} : CreateOrder(w, o, t, qty, k)
  PROVE  Keeps
<1>1. ASSUME NEW w \in Workers, RollbackOrder(w) \/ RollbackCancel(w)
      PROVE  Keeps
  <2>1. DropOrders(w) /\ Finish(w) /\ UNCHANGED <<orders, seats, mailed>>
    BY <1>1 DEF RollbackOrder, RollbackCancel
  <2>2. QED
    BY <2>1, GiveUpKeeps
<1>2. ASSUME NEW w \in Workers, NEW o \in OrderIds, CancelOrder(w, o)
      PROVE  Keeps
  <2>1. /\ HoldOrder(w, o, orders[o], "cancelOrder")
        /\ orders[o] # NoOrder
        /\ UNCHANGED <<orders, seats, mailed>>
    BY <1>2 DEF CancelOrder, GetOrderByID
  <2>2. "cancelOrder" \in OpNames \ {"createOrder"}
    BY DEF OpNames
  <2>3. QED
    BY <2>1, <2>2, ReadKeeps
<1>3. ASSUME NEW w \in Workers, CommitCancel(w)
      PROVE  Keeps
  <2>1. PICK o \in Loaded(w) :
          UpdateOrder(o, [orderCopy[w][o] EXCEPT !.status = "CANCELLED"])
    BY <1>3 DEF CommitCancel
  <2> DEFINE row == [orderCopy[w][o] EXCEPT !.status = "CANCELLED"]
  <2>2. o \in OrderIds
    BY DEF Loaded
  <2>3. Claim(row) = Claim(orderCopy[w][o]) /\ row # NoOrder
    BY <2>2, CopyIsRow, ClaimOfUpdates DEF OrderStatus
  <2>4. /\ op[w] # "createOrder" /\ DropOrders(w) /\ Finish(w)
        /\ UNCHANGED <<seats, mailed>>
    BY <1>3 DEF CommitCancel
  <2>5. UpdateOrder(o, row)
    BY <2>1
  <2> HIDE DEF row
  <2>6. QED
    BY <2>2, <2>3, <2>4, <2>5, WriteKeeps
<1>4. ASSUME NEW w \in Workers, SweepExpired(w)
      PROVE  Keeps
  <2>1. PICK batch \in SUBSET ExpiredPending :
          HoldOrders(w, [o \in OrderIds |-> IF o \in batch THEN orders[o] ELSE NoOrder], "sweep")
    BY <1>4 DEF SweepExpired
  <2> DEFINE rows == [o \in OrderIds |-> IF o \in batch THEN orders[o] ELSE NoOrder]
  <2>2. \A o \in OrderIds : \/ rows[o] = NoOrder
                            \/ orders[o] # NoOrder /\ Claim(rows[o]) = Claim(orders[o])
    BY DEF Claim
  <2>3. "sweep" \in OpNames \ {"createOrder"}
    BY DEF OpNames
  <2>4. HoldOrders(w, rows, "sweep")
    BY <2>1
  <2> HIDE DEF rows
  <2>5. KeepsCopies
    BY <2>2, <2>3, <2>4, HoldKeepsCopies
  <2>6. QED
    BY <1>4, <2>5, SameOrders, SameSeats DEF SweepExpired, Keeps
<1>5. ASSUME NEW w \in Workers, NEW o \in OrderIds, ExpireOne(w, o)
      PROVE  Keeps
  <2> DEFINE row == [orderCopy[w][o] EXCEPT !.status = "EXPIRED"]
  <2>1. Claim(row) = Claim(orderCopy[w][o]) /\ row # NoOrder
    BY CopyIsRow, ClaimOfUpdates DEF OrderStatus
  <2>2. /\ op[w] = "sweep" /\ o \in Loaded(w) /\ UpdateOrder(o, row)
        /\ NextOfBatch(w, o) /\ UNCHANGED <<seats, mailed>>
    BY <1>5 DEF ExpireOne
  <2> HIDE DEF row
  <2>3. QED
    BY <2>1, <2>2, NextOfBatchKeepsCopies, SaveKeepsClaims, SameSeats DEF Keeps
<1>6. ASSUME NEW w \in Workers, NEW o \in OrderIds, SkipOne(w, o)
      PROVE  Keeps
  BY <1>6, NextOfBatchKeepsCopies, SameOrders, SameSeats DEF SkipOne, Keeps
<1>7. ASSUME UNCHANGED <<orders, orderCopy, op>>, KeepsSeats
      PROVE  Keeps
  BY <1>7, SameOrders DEF Keeps, KeepsCopies, KeepsCopy
<1>8. ASSUME NEW o \in OrderIds, HoldLapses(o)
      PROVE  Keeps
  BY <1>7, <1>8, SameSeats DEF HoldLapses, ticketingVars
<1>9. ASSUME NEW o \in OrderIds, NEW u \in Units, CancelMine(o, u)
      PROVE  Keeps
  <2>1. /\ seats[o][u] = "REGISTERED"
        /\ seats' = [seats EXCEPT ![o][u] = "CANCELLED"]
        /\ UNCHANGED <<orders, orderCopy, op, mailed>>
    BY <1>9 DEF CancelMine, ticketingVars
  <2>2. KeepsSeats
    BY <2>1 DEF TypeOK, KeepsSeats
  <2>3. QED
    BY <1>7, <2>1, <2>2
<1>10. QED
  BY <1>1, <1>2, <1>3, <1>4, <1>5, <1>6, <1>8, <1>9 DEF OrdersNext

\* Checkout, webhooks, payments and faults keep everything.
LEMMA PaymentsKeep ==
  ASSUME TypeOK, ClaimInv, PaymentsNext
  PROVE  Keeps
<1>1. ASSUME NEW w \in Workers, NEW o \in OrderIds, CreateCheckout(w, o)
      PROVE  Keeps
  <2>1. /\ HoldOrder(w, o, orders[o], "checkout")
        /\ orders[o] # NoOrder
        /\ UNCHANGED <<orders, seats, mailed>>
    BY <1>1 DEF CreateCheckout, GetOrderByID
  <2>2. "checkout" \in OpNames \ {"createOrder"}
    BY DEF OpNames
  <2>3. QED
    BY <2>1, <2>2, ReadKeeps
<1>2. ASSUME NEW w \in Workers, SetStripeSession(w)
      PROVE  Keeps
  <2>1. PICK i \in OrderIds :
          /\ orders[i].status \in Live
          /\ orderCopy' = [orderCopy EXCEPT ![w][i] = [orders[i] EXCEPT !.session = TRUE]]
    BY <1>2 DEF SetStripeSession, Loaded
  <2> DEFINE row == [orders[i] EXCEPT !.session = TRUE]
  <2>2. orders[i] \in OrderRow
    BY DEF TypeOK
  <2>3. Claim(row) = Claim(orders[i]) /\ orders[i] # NoOrder
    BY <2>1, <2>2 DEF OrderRow, Claim, NoOrder, Live
  <2>4. orderCopy' = [orderCopy EXCEPT ![w][i] = row]
    BY <2>1
  <2> HIDE DEF row
  <2>5. /\ op[w] = "checkout" /\ op' = [op EXCEPT ![w] = "linkSession"]
        /\ UNCHANGED <<orders, seats, mailed>>
    BY <1>2 DEF SetStripeSession
  <2>6. \A v \in Workers, o \in OrderIds :
          /\ orderCopy'[v][o] = IF v = w /\ o = i THEN row ELSE orderCopy[v][o]
          /\ op'[v] = IF v = w THEN "linkSession" ELSE op[v]
    BY <2>4, <2>5 DEF TypeOK
  <2>7. KeepsCopies
    BY <2>3, <2>5, <2>6 DEF KeepsCopies, KeepsCopy
  <2>8. QED
    BY <2>5, <2>7, SameOrders, SameSeats DEF Keeps
<1>3. ASSUME NEW w \in Workers, RejectSession(w) \/ Crash(w) \/ FailPaid(w)
      PROVE  Keeps
  <2>1. DropOrders(w) /\ Finish(w) /\ UNCHANGED <<orders, seats, mailed>>
    BY <1>3 DEF RejectSession, Crash, FailPaid
  <2>2. QED
    BY <2>1, GiveUpKeeps
<1>4. ASSUME NEW w \in Workers, CommitSession(w) \/ CommitPaid(w)
      PROVE  Keeps
  <2>1. PICK o \in Loaded(w) : UpdateOrder(o, orderCopy[w][o])
    BY <1>4 DEF CommitSession, CommitPaid
  <2>2. o \in OrderIds /\ orderCopy[w][o] # NoOrder
    BY DEF Loaded
  <2>3. /\ op[w] # "createOrder" /\ DropOrders(w) /\ Finish(w)
        /\ UNCHANGED <<seats, mailed>>
    BY <1>4 DEF CommitSession, CommitPaid
  <2>4. QED
    BY <2>1, <2>2, <2>3, WriteKeeps
<1>5. ASSUME NEW w \in Workers, NEW o \in OrderIds, MarkPaid(w, o)
      PROVE  Keeps
  <2> DEFINE row == [orders[o] EXCEPT !.status = "CONFIRMED",
                                      !.session = TRUE, !.paid = TRUE]
  <2>1. orders[o] \in OrderRow
    BY DEF TypeOK
  <2>2. Claim(row) = Claim(orders[o])
    BY <2>1, ClaimOfUpdates DEF OrderStatus
  <2>3. /\ HoldOrder(w, o, row, "markPaid")
        /\ orders[o] # NoOrder
        /\ UNCHANGED <<orders, seats, mailed>>
    BY <1>5 DEF MarkPaid, GetOrderByID
  <2> HIDE DEF row
  <2>4. "markPaid" \in OpNames \ {"createOrder"}
    BY DEF OpNames
  <2>5. QED
    BY <2>2, <2>3, <2>4, ReadKeeps
<1>6. ASSUME UNCHANGED <<ticketingVars, orderVars>>
      PROVE  Keeps
  BY <1>6, SameOrders, SameSeats
  DEF Keeps, KeepsCopies, KeepsCopy, ticketingVars, orderVars
<1>7. ASSUME NEW w \in Workers, NEW o \in OrderIds, IgnorePaid(w, o)
      PROVE  Keeps
  BY <1>6, <1>7 DEF IgnorePaid
<1>8. ASSUME NEW o \in OrderIds, BuyerPays(o)
      PROVE  Keeps
  BY <1>6, <1>8 DEF BuyerPays
<1>9. QED
  BY <1>1, <1>2, <1>3, <1>4, <1>5, <1>7, <1>8 DEF PaymentsNext

(***************************************************************************)
(* The theorems                                                            *)
(***************************************************************************)
\* Claims of existing orders are the same after the step.
ClaimsKept == \A o \in OrderIds : orders[o] # NoOrder => Claim(orders'[o]) = Claim(orders[o])

\* Every step preserves ClaimInv and rewrites no claim.
LEMMA NextClaims == TypeOK /\ ClaimInv /\ [Next]_vars => ClaimInv' /\ ClaimsKept
<1> SUFFICES ASSUME TypeOK, ClaimInv, [Next]_vars PROVE ClaimInv' /\ ClaimsKept
  OBVIOUS
<1>1. ASSUME Keeps PROVE ClaimInv' /\ ClaimsKept
  BY <1>1, KeepingStep DEF Keeps, KeepsClaims, ClaimsKept
<1>2. ASSUME NEW w \in Workers, CommitOrder(w)
      PROVE  ClaimInv' /\ ClaimsKept
  BY <1>2, InsertStep DEF ClaimsKept
<1>3. ASSUME NEW w \in Workers, NEW o \in OrderIds, NEW t \in Types,
             NEW qty \in 1..MaxPerOrder, NEW k \in Keys \cup {NoKey},
             CreateOrder(w, o, t, qty, k)
      PROVE  ClaimInv' /\ ClaimsKept
  <2>1. ClaimInv'
    BY <1>3, DraftStep
  <2>2. orders' = orders
    BY <1>3 DEF CreateOrder
  <2>3. QED
    BY <2>1, <2>2 DEF ClaimsKept
<1>4. CASE UNCHANGED vars
  BY <1>1, <1>4, SameOrders, SameSeats
  DEF Keeps, KeepsCopies, KeepsCopy, vars, ticketingVars, orderVars
<1>5. CASE TicketingNext /\ UNCHANGED <<orderVars, paymentVars>>
  BY <1>1, <1>5, TicketingKeeps
<1>6. CASE OrdersNext
  BY <1>1, <1>2, <1>3, <1>6, OrdersKeep
<1>7. CASE PaymentsNext
  BY <1>1, <1>7, PaymentsKeep
<1>8. QED
  BY <1>4, <1>5, <1>6, <1>7 DEF Next

\* Nothing is ordered initially.
LEMMA InitClaims == Init => ClaimInv
  BY DEF Init, TicketingInit, OrdersInit, ClaimInv, CopiesMatch, DraftsAreFresh, Loaded,
         OneOrderPerKey, NoOrderNoSeats, FreeOrderComplete, NoOrder

\* The claim invariant holds throughout, whatever runs concurrently.
THEOREM ClaimsHold == Spec => []ClaimInv
  BY TypeCorrect, InitClaims, NextClaims, PTL DEF Spec

\* However many times a client sends one idempotency key, and however the
\* deliveries overlap, at most one order carries it.
THEOREM ReplaysAreSafe == Spec => []OneOrderPerKey
<1>1. ClaimInv => OneOrderPerKey
  BY DEF ClaimInv
<1>2. QED
  BY <1>1, ClaimsHold, PTL

\* A free order always has one attendee row per unit and its e-mail.
THEOREM FreeOrdersAreComplete == Spec => []FreeOrderComplete
<1>1. ClaimInv => FreeOrderComplete
  BY DEF ClaimInv
<1>2. QED
  BY <1>1, ClaimsHold, PTL

\* Type, quantity, price and key of an order are written once, although
\* every later Save stores all its columns from a copy read without a lock.
THEOREM ClaimsAreImmutable == Spec => ClaimNeverRewritten
<1>1. TypeOK /\ ClaimInv /\ [Next]_vars => [ClaimsKept]_vars
  BY NextClaims
<1>2. Spec => [][ClaimsKept]_vars
  BY <1>1, TypeCorrect, ClaimsHold, PTL DEF Spec
<1>3. QED
  BY <1>2 DEF ClaimNeverRewritten, ClaimsKept

\* The whole invariant of the checkout, the one FreeClaims model-checks: stock,
\* payments and claims together, in the tables and in every copy held in memory.
THEOREM CheckoutIsSound == Spec => []CheckoutInv
<1>1. Spec => []StockInv
  BY TypeCorrect, InitInStock, NextInStock, PTL DEF Spec
<1>2. Spec => []PaidInv
  BY TypeCorrect, InitSettled, NextSettled, PTL DEF Spec
<1>3. StockInv /\ PaidInv /\ ClaimInv => CheckoutInv
  BY DEF CheckoutInv
<1>4. QED
  BY <1>1, <1>2, <1>3, ClaimsHold, PTL
=============================================================================
