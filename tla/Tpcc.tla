-------------------------------- MODULE Tpcc --------------------------------
(***************************************************************************)
(* The TPC-C tables of the server and the six transactions on them         *)
(* (Server/manager.c, Server/dataTable).  A transaction is one step: the   *)
(* STM makes it atomic.  A delivery is one transaction per district, so    *)
(* other transactions, other deliveries among them, run in between.        *)
(* There is one warehouse, number 1.  Random choices are existential.      *)
(* Amounts of money are 32-bit floats in the code; here they are floats    *)
(* with a shorter significand that hold whole units, as the client's       *)
(* payments are (Client.c:105 divides a long), and every addition rounds.  *)
(***************************************************************************)
EXTENDS Integers, Sequences, FiniteSets, FiniteSetsExt, SequencesExt

CONSTANTS
    NumDistricts,   \* districts of the warehouse (10)
    NumCustomers,   \* customers of a district, and orders it starts with (3000)
    Delivered,      \* orders that are delivered from the start (2100)
    Recent,         \* orders that the stock level looks at (20)
    ItemIds,        \* items, with a stock row each (1 .. 100000)
    Price,          \* item -> price
    LastName,           \* customer -> last name, in every district
    LineCounts,     \* lines an order may have (5 .. 14)
    Quantities,     \* quantities a line may have (1 .. 10)
    Amounts,        \* payments
    Deliverers,     \* workers that may run a delivery
    RowWarehouses,  \* warehouse numbers written in the initial new-order rows
    MaxOrders,      \* bound: orders of a district
    FloatBits,      \* bits of a float's significand (24)
    MaxPayments     \* bound: payments

ASSUME TpccAssumption ==
    /\ {NumDistricts, NumCustomers, Recent, MaxOrders} \subseteq Nat \ {0}
    /\ Delivered \in 0 .. NumCustomers /\ Recent <= NumCustomers
    /\ NumCustomers <= MaxOrders /\ {FloatBits, MaxPayments} \subseteq Nat
    /\ LineCounts \subseteq Nat \ {0} /\ Quantities \subseteq 1 .. 10
    /\ Amounts \subseteq Nat /\ RowWarehouses \subseteq {0, 1}
    /\ Price \in [ItemIds -> Nat] /\ DOMAIN LastName = 1 .. NumCustomers

Districts == 1 .. NumDistricts
Customers == 1 .. NumCustomers

VARIABLES
    wYtd,       \* W_YTD
    district,   \* district -> [next, ytd] (D_NEXT_O_ID, D_YTD)
    customer,   \* <<district, customer>> -> [balance, paid, cnt, delivered, last]
    orders,     \* district -> sequence of [c, carrier, lines], by O_ID
    neworder,   \* the list of undelivered orders: [o, d, w]
    stock,      \* item -> [q, ytd, cnt]
    delivery,   \* worker -> 0, or the district its delivery is at
    stuck       \* a transaction found a row missing that it waits for

tpccVars == <<wYtd, district, customer, orders, neworder, stock, delivery, stuck>>

-----------------------------------------------------------------------------
(* Floating-point addition of whole numbers.                               *)

(* The unit in the last place of a number of magnitude n.                  *)
Ulp[n \in Nat] == IF n < 2^FloatBits THEN 1 ELSE 2 * Ulp[n \div 2]

Magnitude(x) == IF x < 0 THEN -x ELSE x

(* The nearest float; of two, the one with the even significand.           *)
Float(x) ==
    LET m == Magnitude(x)
        u == Ulp[m]
        kept == m \div u
        rest == m % u
        up == 2 * rest > u \/ (2 * rest = u /\ kept % 2 = 1)
        rounded == u * (IF up THEN kept + 1 ELSE kept)
    IN  IF x < 0 THEN -rounded ELSE rounded

-----------------------------------------------------------------------------
(* The initial rows.  Old orders are delivered and cost nothing; orders go *)
(* to the customers in turn, starting from any of them.                    *)

(* fill_orderline                                                          *)
Line(i, q, a, done) == [item |-> i, q |-> q, amount |-> a, done |-> done]

(* fill_order2: customer of order o when order 1 goes to customer c.       *)
NextCustomer(c) == IF (c + 1) % NumCustomers = 0 THEN NumCustomers ELSE (c + 1) % NumCustomers

CustomerOf[o \in Nat, c \in Customers] ==
    IF o <= 1 THEN c ELSE NextCustomer(CustomerOf[o - 1, c])

FirstItem == CHOOSE i \in ItemIds : TRUE

InitialOrder(o, c) ==
    [c |-> CustomerOf[o, c], carrier |-> IF o <= Delivered THEN 1 ELSE -1,
     lines |-> <<Line(FirstItem, 5, IF o <= Delivered THEN 0 ELSE 1, o <= Delivered)>>]

FreshDistrict == [next |-> NumCustomers + 1, ytd |-> 30]

(* The customer with no payment but the first; o is his last order.        *)
FreshCustomer(o) == [balance |-> -10, paid |-> 10, cnt |-> 1, delivered |-> 0, last |-> o]

(* One row for each undelivered order, district after district.            *)
NewOrderRows(w) ==
    LET n == NumCustomers - Delivered IN
    [k \in 1 .. NumDistricts * n |->
        [o |-> Delivered + 1 + ((k - 1) % n), d |-> 1 + ((k - 1) \div n), w |-> w]]

FreshStock == {[q |-> q, ytd |-> 0, cnt |-> 0] : q \in {10, 20}}

TpccInit ==
    /\ wYtd = 30 * NumDistricts
    /\ district = [d \in Districts |-> FreshDistrict]
    /\ \E c \in [Districts -> Customers] :
          /\ orders = [d \in Districts |-> [o \in Customers |-> InitialOrder(o, c[d])]]
          /\ customer = [x \in Districts \X Customers |->
                FreshCustomer(CHOOSE o \in Customers : CustomerOf[o, c[x[1]]] = x[2])]
    /\ \E w \in RowWarehouses : neworder = NewOrderRows(w)
    /\ stock \in [ItemIds -> FreshStock]
    /\ delivery = [x \in Deliverers |-> 0]
    /\ stuck = FALSE

-----------------------------------------------------------------------------
(* A transaction given a warehouse, district or customer that does not     *)
(* exist commits without effect and returns -1.                            *)
Exists(w, d, c) == w = 1 /\ d \in Districts /\ c \in Customers

NoEffect == UNCHANGED tpccVars

(* The stock row after a line takes q of it.                               *)
Restocked(q) == IF q <= 10 THEN q + 91 ELSE q

Sold(s, q) == [q |-> Restocked(s.q - q), ytd |-> s.ytd + q, cnt |-> s.cnt + 1]

SoldAll(st, lines) ==
    FoldLeft(LAMBDA s, l : [s EXCEPT ![l.item] = Sold(@, l.q)], st, lines)

(* The lines a new order may get: a random item and quantity each.         *)
NewLines(n) ==
    {[k \in 1 .. n |-> Line(f[k][1], f[k][2], Float(f[k][2] * Price[f[k][1]]), FALSE)] :
        f \in [1 .. n -> ItemIds \X Quantities]}

NumberReused(d, o) == district

(* The order is inserted under the district's next number, which is then   *)
(* incremented, and becomes the customer's last one.                       *)
NumberTaken(d, o) == [district EXCEPT ![d].next = o + 1]

PlaceOrder(d, c, lines) ==
    LET o == district[d].next IN
    /\ o <= MaxOrders
    /\ district' = NumberTaken(d, o)
    /\ orders' = [orders EXCEPT ![d] = Append(@, [c |-> c, carrier |-> -1, lines |-> lines])]
    /\ customer' = [customer EXCEPT ![<<d, c>>].last = o]
    /\ stock' = SoldAll(stock, lines)

manager_newordertransaction(w, d, c) ==
    IF Exists(w, d, c)
    THEN /\ \E n \in LineCounts : \E lines \in NewLines(n) : PlaceOrder(d, c, lines)
         /\ UNCHANGED <<wYtd, neworder, delivery, stuck>>
    ELSE NoEffect

(* With C_ID = -1 the payer is the first customer with a random last name; *)
(* a payer that is not found restarts the transaction.                     *)
Payer(c, name) ==
    IF c # -1 THEN {c} \cap Customers
    ELSE {x \in Customers : LastName[x] = name /\ \A y \in Customers : LastName[y] = name => x <= y}

Pay(d, c, h) ==
    /\ wYtd' = Float(wYtd + h)
    /\ district' = [district EXCEPT ![d].ytd = Float(@ + h)]
    /\ customer' = [customer EXCEPT ![<<d, c>>] =
          [@ EXCEPT !.balance = Float(@ - h), !.paid = Float(@ + h), !.cnt = @ + 1]]

(* Payments made so far; a customer starts with one.                       *)
Payments == MapThenSumSet(LAMBDA x : customer[x].cnt - 1, Districts \X Customers)

manager_paymenttransaction(w, d, c, h) ==
    IF w = 1 /\ d \in Districts
    THEN /\ Payments < MaxPayments
         /\ \E name \in Range(LastName) : \E x \in Payer(c, name) : Pay(d, x, h)
         /\ UNCHANGED <<orders, neworder, stock, delivery, stuck>>
    ELSE NoEffect

(* The lines of the customer's last order are looked up one by one; a      *)
(* missing line restarts the transaction, which finds the same rows again. *)
manager_orderstatustransaction(w, d, c) ==
    IF Exists(w, d, c)
    THEN LET o == customer[<<d, c>>].last IN
         /\ stuck' = (stuck \/ o \notin DOMAIN orders[d] \/ orders[d][o].lines = <<>>)
         /\ UNCHANGED <<wYtd, district, customer, orders, neworder, stock, delivery>>
    ELSE NoEffect

(* Every recent order is looked up again and again until it is found.      *)
WaitsForOrder(d) ==
    ~ (district'[d].next - Recent) .. (district'[d].next - 1) \subseteq DOMAIN orders'[d]

manager_stockleveltransaction(w, d) ==
    IF w = 1 /\ d \in Districts
    THEN /\ UNCHANGED <<wYtd, district, customer, orders, neworder, stock, delivery>>
         /\ stuck' = (stuck \/ WaitsForOrder(d))
    ELSE NoEffect

(* Built with NEWQUAGLIA: a new order and a stock level in one             *)
(* transaction, in districts and for a customer drawn from its arguments.  *)
QuagliaOrder == \E d \in Districts, c \in Customers, n \in LineCounts :
    \E lines \in NewLines(n) : PlaceOrder(d, c, lines)

QuagliaStockLevel == \E d \in Districts : stuck' = (stuck \/ WaitsForOrder(d))

manager_newquagliatransaction(w) ==
    IF w = 1
    THEN QuagliaOrder /\ QuagliaStockLevel /\ UNCHANGED <<wYtd, neworder, delivery>>
    ELSE NoEffect

-----------------------------------------------------------------------------
(* Delivery: in each district one undelivered order gets its carrier, its  *)
(* lines a date and its customer the amount, and its row leaves the list.  *)
(* The list is sorted by the address of the rows, so any of the district's *)
(* rows may be the first.                                                  *)
Pending(d) == {k \in DOMAIN neworder : neworder[k].d = d /\ neworder[k].w = 1}

Total(lines) == FoldLeft(LAMBDA s, l : Float(s + l.amount), 0, lines)

MarkedDelivered(r, carrier) ==
    [r EXCEPT !.carrier = carrier,
              !.lines = [k \in DOMAIN r.lines |-> [r.lines[k] EXCEPT !.done = TRUE]]]

RowRemoved(k) == RemoveAt(neworder, k)

DeliverOrder(d, k, carrier) ==
    LET o == neworder[k].o
        r == orders[d][o] IN
    /\ neworder' = RowRemoved(k)
    /\ orders' = [orders EXCEPT ![d][o] = MarkedDelivered(@, carrier)]
    /\ customer' = [customer EXCEPT ![<<d, r.c>>] =
          [@ EXCEPT !.balance = Float(@ + Total(r.lines)), !.delivered = @ + 1]]

(* The call: the first transaction finds no warehouse and returns, or the  *)
(* loop over the districts starts.                                         *)
StartDelivery(x, w) ==
    IF w # 1 THEN NoEffect
    ELSE /\ delivery[x] = 0
         /\ delivery' = [delivery EXCEPT ![x] = 1]
         /\ UNCHANGED <<wYtd, district, customer, orders, neworder, stock, stuck>>

(* One district's transaction of a delivery, and the next district.        *)
manager_deliverytransaction(x) ==
    LET d == delivery[x] IN
    /\ d \in Districts
    /\ \/ \E k \in Pending(d) : DeliverOrder(d, k, 2)
       \/ Pending(d) = {} /\ UNCHANGED <<neworder, orders, customer>>
    /\ delivery' = [delivery EXCEPT ![x] = IF d = NumDistricts THEN 0 ELSE d + 1]
    /\ UNCHANGED <<wYtd, district, stock, stuck>>

-----------------------------------------------------------------------------
TpccNext ==
    \/ \E w \in {0, 1}, d \in 0 .. NumDistricts :
          \/ \E c \in 0 .. NumCustomers : \/ manager_newordertransaction(w, d, c)
                                          \/ manager_orderstatustransaction(w, d, c)
          \/ \E c \in -1 .. NumCustomers, h \in Amounts : manager_paymenttransaction(w, d, c, h)
          \/ manager_stockleveltransaction(w, d)
    \/ \E w \in {0, 1} : manager_newquagliatransaction(w)
    \/ \E x \in Deliverers : (\E w \in {0, 1} : StartDelivery(x, w)) \/ manager_deliverytransaction(x)

TpccSpec == TpccInit /\ [][TpccNext]_tpccVars

-----------------------------------------------------------------------------
(* "W_YTD = sum(D_YTD)" (manager.c:165, checkConsistency1).  Floats do not *)
(* keep it: the warehouse's sum needs more digits than the districts' and  *)
(* starts to round first.                                                  *)
DistrictsPaid == MapThenSumSet(LAMBDA d : district[d].ytd, Districts)

YtdEqual == wYtd = DistrictsPaid

(* What was delivered to a customer, exactly.                              *)
DeliveredTo(d, c) ==
    FoldLeft(LAMBDA s, r : IF r.c = c /\ r.carrier # -1
                           THEN FoldLeft(LAMBDA t, l : t + l.amount, s, r.lines) ELSE s,
             0, orders[d])

(* Money is exact as long as floats are, whatever payments and deliveries  *)
(* interleave: while W_YTD is below the number from which on floats have   *)
(* gaps it is the sum of its districts', and a customer's balance is what  *)
(* was delivered to him minus what he paid.                                *)
(* Beyond that nothing is lost but by rounding: a payment moves W_YTD and  *)
(* the sum of the D_YTD apart by half a unit in the last place of each at  *)
(* most.                                                                   *)
MoneyConsistent ==
    /\ wYtd < 2^FloatBits => YtdEqual
    /\ 2 * Magnitude(wYtd - DistrictsPaid)
          <= Payments * (Ulp[wYtd] + Max({Ulp[district[d].ytd] : d \in Districts}))
    /\ \A x \in Districts \X Customers :
          customer[x].paid + DeliveredTo(x[1], x[2]) < 2^FloatBits
          => customer[x].balance = DeliveredTo(x[1], x[2]) - customer[x].paid

(* D_NEXT_O_ID is one more than the number of orders, every order between  *)
(* exists, and a customer's lastOrder is the newest order placed for him:  *)
(* so order status and stock level never wait for a row.                   *)
OrdersConsistent ==
    /\ ~ stuck
    /\ \A d \in Districts : Len(orders[d]) = district[d].next - 1
    /\ \A x \in Districts \X Customers :
          LET mine == {o \in DOMAIN orders[x[1]] : orders[x[1]][o].c = x[2]} IN
          customer[x].last = Max(mine)

(* An order is delivered once: it is on the list of new orders or its      *)
(* lines are marked, never both, and each delivery counts for the customer.*)
DeliveredOnce ==
    \A d \in Districts :
        /\ \A k \in DOMAIN neworder : neworder[k].d = d =>
              \A l \in ToSet(orders[d][neworder[k].o].lines) : ~ l.done
        /\ \A c \in Customers :
              customer[<<d, c>>].delivered =
                  Cardinality({o \in DOMAIN orders[d] :
                      o > Delivered /\ orders[d][o].c = c /\ orders[d][o].carrier # -1})

(* The stock rows account for every line sold, and a quantity never leaves *)
(* the range that keeps the next sale from going below zero.               *)
LinesOf(i) ==
    LET new(d) == SubSeq(orders[d], NumCustomers + 1, Len(orders[d])) IN
    MapThenSumSet(LAMBDA d :
        FoldLeft(LAMBDA s, r : s + FoldLeft(LAMBDA t, l : IF l.item = i THEN t + l.q ELSE t,
                                            0, r.lines), 0, new(d)), Districts)

StockConsistent ==
    \A i \in ItemIds : /\ stock[i].ytd = LinesOf(i)
                     /\ stock[i].q \in 10 .. 101

(* A delivery delivers "one order x district" (manager.c:744): when it     *)
(* goes past a district that has a new-order row, one such row goes.       *)
DeliveryDelivers ==
    [][\A x \in Deliverers, d \in Districts :
         delivery[x] = d /\ delivery'[x] # d /\ (\E k \in DOMAIN neworder : neworder[k].d = d)
         => Len(neworder') = Len(neworder) - 1]_tpccVars

(* The consistency conditions that tie the tables of TPC-C together after  *)
(* any sequence of transactions: money, orders, deliveries and stock.      *)
TablesConsistent ==
    MoneyConsistent /\ OrdersConsistent /\ DeliveredOnce /\ StockConsistent
=============================================================================
