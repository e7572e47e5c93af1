---------------------------- MODULE OrderStock ----------------------------
(***************************************************************************)
(* Checkout, the stock of the products and the life of the orders:         *)
(* initiateCheckout with createOrder and rollbackOrders, updateOrderStatus *)
(* with the restocking of cancelled and returned orders, the capture that  *)
(* confirms orders, and the courier that delivers them.                    *)
(*                                                                         *)
(* Each store access is a step of a worker, a request the server handles.  *)
(* With a replica set createOrder is one transaction; on a standalone      *)
(* MongoDB it undoes by hand what it did. Mongoose's save() writes the     *)
(* paths whose value the handler changed and looks at no version, so an    *)
(* order's status replaces whatever the stored one has become, and is not  *)
(* written when the handler had read the same one.                         *)
(***************************************************************************)
EXTENDS Integers, FiniteSets, OrderStatus

CONSTANTS
    Workers,         \* requests the server may be handling at the same time
    Checkouts,       \* submissions of a cart
    Keys,            \* values of the Idempotency-Key header
    Orders,          \* one per seller of a cart
    Products,
    Variants,        \* variants of products
    ProductOf,       \* the product of a variant
    CheckoutOf,      \* the checkout that makes an order
    Quantity,        \* units of each product in an order
    Wants,           \* the variant that an order's line of a product names, or NoVariant
    Shelf,           \* units of each product at the start
    Rack,            \* units of each variant at the start
    Deployments,     \* some of "replica" and "standalone"
    Targets,         \* statuses that sellers, customers and admins ask for
    MaxEvents        \* bound: status updates (but for the return that was requested),
                     \* deliveries, removed variants, failed store accesses, crashes and
                     \* locks that expire under their holder, together

Free == "free"
Orphan == "orphan"
Nobody == "none"
NoVariant == "plain"

VariantsOf(p) == {v \in Variants : ProductOf[v] = p}
Varied == {p \in Products : VariantsOf(p) # {}}

UnitsOf(count, of) == UNION {{x} \X (1 .. count[x]) : x \in of}
Shortage(count, of) == UNION {{x} \X (1 .. (0 - count[x])) : x \in of}
\* The sum of the counts, which may be negative
Total(count, of) == Cardinality(UnitsOf(count, of)) - Cardinality(Shortage(count, of))

ASSUME OrderStockAssumption ==
    /\ IsFiniteSet(Orders) /\ IsFiniteSet(Products) /\ IsFiniteSet(Variants)
    /\ ProductOf \in [Variants -> Products] /\ NoVariant \notin Variants
    /\ CheckoutOf \in [Orders -> Checkouts]
    /\ Quantity \in [Orders -> [Products -> Nat]]
    /\ Wants \in [Orders -> [Products -> Variants \cup {NoVariant}]]
    \* the cart puts a variant on every line of a product that has variants
    /\ \A o \in Orders : \A p \in Products :
          Wants[o][p] \in IF p \in Varied /\ Quantity[o][p] > 0 THEN VariantsOf(p) ELSE {NoVariant}
    \* a product has one seller, so one order of a checkout
    /\ \A o1, o2 \in Orders : \A p \in Products :
          o1 # o2 /\ CheckoutOf[o1] = CheckoutOf[o2] => Quantity[o1][p] = 0 \/ Quantity[o2][p] = 0
    /\ Shelf \in [Products -> Nat] /\ Rack \in [Variants -> Nat]
    /\ \A p \in Varied : Shelf[p] = Total(Rack, VariantsOf(p))
    /\ Deployments \subseteq {"replica", "standalone"}
    /\ Targets \subseteq OrderStatuses
    /\ MaxEvents \in Nat
    /\ {Free, Orphan} \cap Workers = {} /\ Nobody \notin Checkouts \cup Orders

VARIABLES
    deployment,    \* does MongoDB have transactions
    key,           \* the Idempotency-Key that a checkout is sent with
    stock,         \* countInStock of each product
    units,         \* countInStock of each variant, as long as it is listed
    listed,        \* the variants that products have
    status,        \* orderStatus of each order, "ABSENT" before it is created
    pay,           \* paymentStatus of each order
    items,         \* the products on orderItems of the order document that still exist
    intent,        \* the orders of the PaymentIntent with a key, {} before it exists
    outcome,       \* how far each checkout has come
    answer,        \* the checkout whose response is stored under a key
    holder,        \* holder of checkout:idempotency:<key>
    worker,        \* what each worker is doing
    claim,         \* ghost: units taken for an order and not put back
    withdrawn,     \* ghost: units of each product that went with a removed variant
    calm,          \* ghost: orders that only whole operations, one at a time, have touched,
                   \* and whose variants are listed
    expired,       \* ghost: keys whose lock expired under its holder or after its death
    events

offer == <<listed, withdrawn>>
storeVars == <<stock, units, listed, withdrawn, status, pay, items, claim>>
keyVars == <<intent, outcome, answer, holder, expired>>
vars == <<deployment, key, storeVars, keyVars, worker, calm, events>>

Steps == {"idle", "again", "validate", "transaction", "create", "deduct", "attach", "undo",
          "undo_items", "undo_orders", "intent", "roll", "roll_put", "roll_save",
          "record", "unlock", "put", "save", "capture"}
OrderIds == Orders \cup {Nobody}
CheckoutIds == Checkouts \cup {Nobody}
Outcomes == {"new", "running", "placed", "refused", "replayed"}
OrderDocs == OrderStatuses \cup {"ABSENT"}
Lines == Orders \X Products
Worker ==
    [pc: Steps, checkout: CheckoutIds, order: OrderIds, target: OrderDocs,
     todo: SUBSET Lines, done: SUBSET Lines, left: SUBSET Orders]
Idle == [pc |-> "idle", checkout |-> Nobody, order |-> Nobody, target |-> "ABSENT",
         todo |-> {}, done |-> {}, left |-> {}]

OrdersOf(k) == {o \in Orders : CheckoutOf[o] = k}
ProductsOf(o) == {p \in Products : Quantity[o][p] > 0}
LinesOf(os) == {l \in Lines : l[1] \in os /\ Quantity[l[1]][l[2]] > 0}
Exists(o) == status[o] # "ABSENT"

Init ==
    /\ deployment \in Deployments
    /\ key \in [Checkouts -> Keys]
    /\ stock = Shelf /\ units = Rack /\ listed = Variants
    /\ status = [o \in Orders |-> "ABSENT"]
    /\ pay = [o \in Orders |-> "PENDING"]
    /\ items = [o \in Orders |-> {}]
    /\ intent = [i \in Keys |-> {}]
    /\ outcome = [k \in Checkouts |-> "new"]
    /\ answer = [i \in Keys |-> Nobody]
    /\ holder = [i \in Keys |-> Free]
    /\ worker = [w \in Workers |-> Idle]
    /\ claim = [o \in Orders |-> [p \in Products |-> 0]]
    /\ withdrawn = [p \in Products |-> 0]
    /\ calm = Orders
    /\ expired = {}
    /\ events = 0

-----------------------------------------------------------------------------
At(w, step) == worker[w].pc = step
Set(w, locals) == worker' = [worker EXCEPT ![w] = locals]
Goto(w, step) == Set(w, [worker[w] EXCEPT !.pc = step])
\* A checkout goes on and what it kept in memory is not used again.
Proceed(w, step) == Set(w, [Idle EXCEPT !.pc = step, !.checkout = worker[w].checkout])
Finish(w) == Set(w, Idle)

\* The orders a worker is in the middle of.
Scope(w) ==
    LET at == worker[w]
    IN  IF at.pc = "idle" THEN {}
        ELSE IF at.checkout # Nobody THEN OrdersOf(at.checkout) ELSE {at.order} \cap Orders
InUse == UNION {Scope(w) : w \in Workers}
Touch(o) == calm' = IF o \in InUse THEN calm \ {o} ELSE calm

\* The status that save() will write for a handler that now reads the order and sets it.
Written(o, next) == IF status[o] = next THEN "ABSENT" ELSE next
Write(o, written) ==
    status' = [status EXCEPT ![o] = IF written = "ABSENT" THEN @ ELSE written]

\* Whether an event counts towards the bound.
Counted(counts) ==
    IF counts THEN events < MaxEvents /\ events' = events + 1 ELSE UNCHANGED events

\* $inc of countInStock by the quantity of a line, up or down
Move(o, p, sign) ==
    /\ stock' = [stock EXCEPT ![p] = @ + sign * Quantity[o][p]]
    /\ claim' = [claim EXCEPT ![o][p] = @ - sign * Quantity[o][p]]

\* The units of a line, and the variant it names
Units(l) == Quantity[l[1]][l[2]]
VariantOf(l) == Wants[l[1]][l[2]]
ListedOf(p) == VariantsOf(p) \cap listed

\* What createOrder reads of a line's product before it writes anything
InStock(l) ==
    IF VariantOf(l) = NoVariant THEN stock[l[2]] >= Units(l)
    ELSE VariantOf(l) \in listed /\ units[VariantOf(l)] >= Units(l)

\* The variants that the positional $ of a deduction may stand for. Its filter asks for
\* the line's variant and for a variant with enough units, not for both in one element
\* of the array, and the place in the array is that of either condition.
Matched(l) ==
    LET enough == {v \in ListedOf(l[2]) : units[v] >= Units(l)}
    IN  IF VariantOf(l) \in listed /\ enough # {} THEN enough \cup {VariantOf(l)} ELSE {}

\* The deduction: the product's count is a condition for a line without a variant only.
MayTake(l) == IF VariantOf(l) = NoVariant THEN stock[l[2]] >= Units(l) ELSE Matched(l) # {}
Take(l) ==
    /\ MayTake(l)
    /\ Move(l[1], l[2], -1)
    /\ IF VariantOf(l) = NoVariant THEN UNCHANGED units
       ELSE \E v \in Matched(l) : units' = [units EXCEPT ![v] = @ - Units(l)]

\* The update that puts a line's units back. For a variant that its product no longer
\* has, it matches nothing and the units are lost without an error.
PutBack(l) ==
    IF VariantOf(l) \in listed \cup {NoVariant}
    THEN /\ Move(l[1], l[2], 1)
         /\ units' = [v \in Variants |-> units[v] + IF v = VariantOf(l) THEN Units(l) ELSE 0]
    ELSE UNCHANGED <<stock, units, claim>>

-----------------------------------------------------------------------------
\* initiateCheckout takes the lock. (A request that does not get it, or that sees a
\* stored answer even before, returns and changes nothing.)
Begin(w, k) ==
    /\ At(w, "idle") /\ outcome[k] = "new" /\ holder[key[k]] = Free
    /\ holder' = [holder EXCEPT ![key[k]] = w]
    /\ outcome' = [outcome EXCEPT ![k] = "running"]
    /\ Set(w, [Idle EXCEPT !.pc = "again", !.checkout = k])
    /\ UNCHANGED <<deployment, key, storeVars, intent, answer, expired, calm, events>>

\* A mutant of Again: the answer is not looked for again under the lock
NotAgain(w) ==
    /\ At(w, "again")
    /\ Goto(w, IF deployment = "replica" THEN "transaction" ELSE "validate")
    /\ UNCHANGED outcome
    /\ UNCHANGED <<deployment, key, storeVars, intent, answer, holder, expired, calm, events>>

\* The second look for a stored answer, under the lock.
Again(w) ==
    /\ At(w, "again")
    /\ LET k == worker[w].checkout
       IN  IF answer[key[k]] # Nobody
           THEN /\ Goto(w, "unlock")
                /\ outcome' = [outcome EXCEPT ![k] = "replayed"]
           ELSE /\ Goto(w, IF deployment = "replica" THEN "transaction" ELSE "validate")
                /\ UNCHANGED outcome
    /\ UNCHANGED <<deployment, key, storeVars, intent, answer, holder, expired, calm, events>>

Refuse(w) ==
    /\ Proceed(w, "unlock")
    /\ outcome' = [outcome EXCEPT ![worker[w].checkout] = "refused"]

\* createOrder as a transaction: all of its writes, or an error and none of them.
Sells(k, p) == \E o \in OrdersOf(k) : Quantity[o][p] > 0
OrderWith(k, p) == CHOOSE o \in OrdersOf(k) : Quantity[o][p] > 0
Need(k, p) == IF Sells(k, p) THEN Quantity[OrderWith(k, p)][p] ELSE 0

PickedFor(k, p, v) ==
    IF Sells(k, p) /\ p \in Varied
    THEN v \in Matched(<<OrderWith(k, p), p>>) ELSE v = NoVariant

Transact(w) ==
    /\ At(w, "transaction")
    /\ LET k == worker[w].checkout
       IN  \/ /\ \A l \in LinesOf(OrdersOf(k)) : InStock(l)
              /\ \E pick \in [Products -> Variants \cup {NoVariant}] :
                    /\ \A p \in Products : PickedFor(k, p, pick[p])
                    /\ units' = [v \in Variants |-> units[v] -
                                   IF pick[ProductOf[v]] = v THEN Need(k, ProductOf[v]) ELSE 0]
              /\ stock' = [p \in Products |-> stock[p] - Need(k, p)]
              /\ claim' = [o \in Orders |-> IF o \in OrdersOf(k) THEN Quantity[o] ELSE claim[o]]
              /\ status' = [o \in Orders |-> IF o \in OrdersOf(k) THEN "CONFIRMED" ELSE status[o]]
              /\ items' = [o \in Orders |-> IF o \in OrdersOf(k) THEN ProductsOf(o) ELSE items[o]]
              /\ Goto(w, "intent") /\ UNCHANGED outcome
           \/ Refuse(w) /\ UNCHANGED <<stock, units, claim, status, items>>
    /\ UNCHANGED <<deployment, key, offer, pay, intent, answer, holder, expired, calm, events>>

-----------------------------------------------------------------------------
\* createOrder without transactions: the stock of every line is read first (nothing
\* is written, and each line is checked again when it is taken: one step),
Validate(w) ==
    /\ At(w, "validate")
    /\ IF \A l \in LinesOf(OrdersOf(worker[w].checkout)) : InStock(l)
       THEN /\ Set(w, [worker[w] EXCEPT !.pc = "create", !.left = OrdersOf(worker[w].checkout)])
            /\ UNCHANGED outcome
       ELSE Refuse(w)
    /\ UNCHANGED <<deployment, key, storeVars, intent, answer, holder, expired, calm, events>>

\* then each seller's order is created, with no items yet,
Create(w) ==
    /\ At(w, "create")
    /\ \E o \in worker[w].left :
          /\ status' = [status EXCEPT ![o] = "CONFIRMED"]
          /\ Set(w, [worker[w] EXCEPT !.pc = "deduct", !.order = o, !.todo = LinesOf({o}),
                         !.left = @ \ {o}])
    /\ UNCHANGED <<deployment, key, stock, units, offer, pay, items, claim, keyVars, calm, events>>

Undoing(w) == IF worker[w].done = {} THEN "undo_items" ELSE "undo"

\* A mutant of Deduct: the $inc of a product's count without the $gte condition
DeductBlindly(w) ==
    /\ At(w, "deduct")
    /\ \E l \in worker[w].todo :
          /\ IF VariantOf(l) = NoVariant THEN Move(l[1], l[2], -1) /\ UNCHANGED units ELSE Take(l)
          /\ Set(w, [worker[w] EXCEPT !.todo = @ \ {l}, !.done = @ \cup {l},
                         !.pc = IF worker[w].todo = {l} THEN "attach" ELSE "deduct"])
    /\ UNCHANGED <<deployment, key, offer, status, pay, items, keyVars, calm, events>>

\* its units are taken, line by line, if they are still there,
Deduct(w) ==
    /\ At(w, "deduct")
    /\ \E l \in worker[w].todo :
          \/ /\ Take(l)
             /\ Set(w, [worker[w] EXCEPT !.todo = @ \ {l}, !.done = @ \cup {l},
                            !.pc = IF worker[w].todo = {l} THEN "attach" ELSE "deduct"])
          \/ ~MayTake(l) /\ Goto(w, Undoing(w)) /\ UNCHANGED <<stock, units, claim>>
    /\ UNCHANGED <<deployment, key, offer, status, pay, items, keyVars, calm, events>>

\* and its items are saved with it.
Attach(w) ==
    /\ At(w, "attach")
    /\ LET o == worker[w].order
       IN  items' = [items EXCEPT ![o] = ProductsOf(o)]
    /\ IF worker[w].left = {} THEN Proceed(w, "intent") ELSE Goto(w, "create")
    /\ UNCHANGED <<deployment, key, stock, units, offer, status, pay, claim, keyVars, calm, events>>

\* A store access of createOrder fails, OrderItem.create between two steps included.
CreateFails(w) ==
    /\ worker[w].pc \in {"create", "deduct", "attach"} /\ events < MaxEvents
    /\ events' = events + 1
    /\ Goto(w, Undoing(w))
    /\ UNCHANGED <<deployment, key, storeVars, keyVars, calm>>

\* createOrder reads its orders once more at its end; an error of this leaves them as
\* they are, with the units taken.
PopulateFails(w) ==
    /\ At(w, "intent") /\ events < MaxEvents
    /\ events' = events + 1
    /\ calm' = calm \ OrdersOf(worker[w].checkout)
    /\ Refuse(w)
    /\ UNCHANGED <<deployment, key, storeVars, intent, answer, holder, expired>>

Made(w) == OrdersOf(worker[w].checkout) \ worker[w].left

\* A mutant of Undo: the units of the line that comes last are not put back
UndoAllButLast(w) ==
    /\ At(w, "undo")
    /\ \E l \in worker[w].done :
          /\ IF worker[w].done = {l} THEN UNCHANGED <<stock, units, claim>> ELSE PutBack(l)
          /\ Set(w, [worker[w] EXCEPT !.done = @ \ {l},
                         !.pc = IF worker[w].done = {l} THEN "undo_items" ELSE "undo"])
    /\ UNCHANGED <<deployment, key, offer, status, pay, items, keyVars, calm, events>>

\* The compensation: each line is put back (an error is logged and the units are
\* lost), then the items and the orders are deleted (an error is ignored).
Undo(w) ==
    /\ At(w, "undo")
    /\ \E l \in worker[w].done :
          /\ \/ PutBack(l) /\ UNCHANGED <<events, calm>>
             \/ /\ events < MaxEvents /\ events' = events + 1
                /\ calm' = calm \ {l[1]}
                /\ UNCHANGED <<stock, units, claim>>
          /\ Set(w, [worker[w] EXCEPT !.done = @ \ {l},
                         !.pc = IF worker[w].done = {l} THEN "undo_items" ELSE "undo"])
    /\ UNCHANGED <<deployment, key, offer, status, pay, items, keyVars>>

UndoItems(w) ==
    /\ At(w, "undo_items")
    /\ \/ /\ items' = [o \in Orders |-> IF o \in Made(w) THEN {} ELSE items[o]]
          /\ UNCHANGED <<events, calm>>
       \/ /\ events < MaxEvents /\ events' = events + 1
          /\ calm' = calm \ Made(w)
          /\ UNCHANGED items
    /\ Goto(w, "undo_orders")
    /\ UNCHANGED <<deployment, key, stock, units, offer, status, pay, claim, keyVars>>

UndoOrders(w) ==
    /\ At(w, "undo_orders")
    /\ \/ /\ status' = [o \in Orders |-> IF o \in Made(w) THEN "ABSENT" ELSE status[o]]
          /\ UNCHANGED <<events, calm>>
       \/ /\ events < MaxEvents /\ events' = events + 1
          /\ calm' = calm \ Made(w)
          /\ UNCHANGED status
    /\ Refuse(w)
    /\ UNCHANGED <<deployment, key, stock, units, offer, pay, items, claim, intent, answer, holder, expired>>

-----------------------------------------------------------------------------
RollBack(w) ==
    Set(w, [worker[w] EXCEPT !.pc = "roll", !.left = OrdersOf(worker[w].checkout)])

\* A mutant of CreateIntent: the intent of any key is taken for the one of this key
CreateAnyIntent(w) ==
    /\ At(w, "intent")
    /\ LET i == key[worker[w].checkout]
       IN  \/ RollBack(w) /\ UNCHANGED intent
           \/ /\ intent' = [intent EXCEPT ![i] =
                               IF \E j \in Keys : intent[j] # {}
                               THEN intent[CHOOSE j \in Keys : intent[j] # {}]
                               ELSE OrdersOf(worker[w].checkout)]
              /\ RollBack(w) \/ Goto(w, "record")
    /\ UNCHANGED <<deployment, key, storeVars, outcome, answer, holder, expired, calm, events>>

\* initializeCheckout: pricing and risk may refuse; createIntent returns the intent
\* that has the key already, whatever orders it is for; then reserveFunds for the
\* wallet's share, if there is one, may refuse too.
CreateIntent(w) ==
    /\ At(w, "intent")
    /\ LET i == key[worker[w].checkout]
       IN  \/ RollBack(w) /\ UNCHANGED intent
           \/ /\ intent' = [intent EXCEPT ![i] =
                               IF @ = {} THEN OrdersOf(worker[w].checkout) ELSE @]
              /\ RollBack(w) \/ Goto(w, "record")
    /\ UNCHANGED <<deployment, key, storeVars, outcome, answer, holder, expired, calm, events>>

\* The rollback goes on with the next order, or ends and the error is answered.
NextOrder(w, left) ==
    IF left = {} THEN Refuse(w)
    ELSE /\ Set(w, [Idle EXCEPT !.pc = "roll", !.checkout = worker[w].checkout, !.left = left])
         /\ UNCHANGED outcome

\* rollbackOrders reads each order with its items,
Roll(w) ==
    /\ At(w, "roll")
    /\ \E o \in worker[w].left :
          IF ~Exists(o)
          THEN NextOrder(w, worker[w].left \ {o})
          ELSE /\ Set(w, [worker[w] EXCEPT !.left = @ \ {o}, !.order = o, !.todo = {o} \X items[o],
                             !.target = Written(o, "CANCELLED"),
                             !.pc = IF items[o] = {} THEN "roll_save" ELSE "roll_put"])
               /\ UNCHANGED outcome
    /\ UNCHANGED <<deployment, key, storeVars, intent, answer, holder, expired, calm, events>>

\* puts its units back,
RollPut(w) ==
    /\ At(w, "roll_put")
    /\ \E l \in worker[w].todo :
          /\ PutBack(l)
          /\ Set(w, [worker[w] EXCEPT !.todo = @ \ {l},
                         !.pc = IF worker[w].todo = {l} THEN "roll_save" ELSE "roll_put"])
    /\ UNCHANGED <<deployment, key, offer, status, pay, items, keyVars, calm, events>>

\* A mutant of RollSave: the payment is marked, the order is not
RollSavePayment(w) ==
    /\ At(w, "roll_save")
    /\ pay' = [pay EXCEPT ![worker[w].order] = "FAILED"]
    /\ NextOrder(w, worker[w].left)
    /\ UNCHANGED <<deployment, key, stock, units, offer, status, items, claim, intent, answer, holder, expired,
                   calm, events>>

\* and saves it as cancelled;
RollSave(w) ==
    /\ At(w, "roll_save")
    /\ LET o == worker[w].order
       IN  IF Exists(o)
           THEN /\ Write(o, worker[w].target)
                /\ pay' = [pay EXCEPT ![o] = "FAILED"]
           ELSE UNCHANGED <<status, pay>>
    /\ NextOrder(w, worker[w].left)
    /\ UNCHANGED <<deployment, key, stock, units, offer, items, claim, intent, answer, holder, expired,
                   calm, events>>

\* an error with one order is logged, and the next one is taken.
RollFails(w) ==
    /\ worker[w].pc \in {"roll_put", "roll_save"} /\ events < MaxEvents
    /\ events' = events + 1
    /\ calm' = calm \ {worker[w].order}
    /\ NextOrder(w, worker[w].left)
    /\ UNCHANGED <<deployment, key, storeVars, intent, answer, holder, expired>>

\* recordResult stores the response under the key.
Record(w) ==
    /\ At(w, "record")
    /\ LET k == worker[w].checkout
       IN  /\ answer' = [answer EXCEPT ![key[k]] = k]
           /\ outcome' = [outcome EXCEPT ![k] = "placed"]
    /\ Goto(w, "unlock")
    /\ UNCHANGED <<deployment, key, storeVars, intent, holder, expired, calm, events>>

Unlock(w) ==
    /\ At(w, "unlock")
    /\ LET i == key[worker[w].checkout]
       IN  holder' = [holder EXCEPT ![i] = IF @ = w THEN Free ELSE @]
    /\ Finish(w)
    /\ UNCHANGED <<deployment, key, storeVars, intent, outcome, answer, expired, calm, events>>

-----------------------------------------------------------------------------
\* A mutant of Update: the payment of an order that ships is not looked at
UpdateUnpaid(w, o, target) ==
    /\ At(w, "idle") /\ Counted(target # "RETURNED")
    /\ Exists(o) /\ OrderMayBecome(status[o], target)
    /\ Set(w, [Idle EXCEPT !.order = o, !.target = target,
                   !.todo = IF PutsBack(target) THEN {o} \X items[o] ELSE {},
                   !.pc = IF PutsBack(target) /\ items[o] # {} THEN "put" ELSE "save"])
    /\ Touch(o)
    /\ UNCHANGED <<deployment, key, storeVars, keyVars>>

\* updateOrderStatus, by a seller, an admin or, for cancelOrder and requestReturn,
\* the customer, reads the order with its items. (The order has no paymentMethod,
\* so every order counts as prepaid.)
Update(w, o, target) ==
    /\ At(w, "idle") /\ Counted(target # "RETURNED")
    /\ Exists(o) /\ OrderMayBecome(status[o], target)
    /\ target \in {"SHIPPED", "DELIVERED"} => pay[o] = "CAPTURED"
    /\ Set(w, [Idle EXCEPT !.order = o, !.target = target,
                   !.todo = IF PutsBack(target) THEN {o} \X items[o] ELSE {},
                   !.pc = IF PutsBack(target) /\ items[o] # {} THEN "put" ELSE "save"])
    /\ Touch(o)
    /\ UNCHANGED <<deployment, key, storeVars, keyVars>>

\* A cancelled or returned order's units are put back, line by line.
Put(w) ==
    /\ At(w, "put")
    /\ \E l \in worker[w].todo :
          /\ PutBack(l)
          /\ Set(w, [worker[w] EXCEPT !.todo = @ \ {l},
                         !.pc = IF worker[w].todo = {l} THEN "save" ELSE "put"])
    /\ UNCHANGED <<deployment, key, offer, status, pay, items, keyVars, calm, events>>

Save(w) ==
    /\ At(w, "save")
    /\ LET o == worker[w].order
       IN  IF Exists(o) THEN Write(o, worker[w].target) ELSE UNCHANGED status
    /\ Finish(w)
    /\ UNCHANGED <<deployment, key, stock, units, offer, pay, items, claim, keyVars, calm, events>>

\* An error of updateOrderStatus ends it where it is.
UpdateFails(w) ==
    /\ worker[w].pc \in {"put", "save"} /\ events < MaxEvents
    /\ events' = events + 1
    /\ calm' = calm \ {worker[w].order}
    /\ Finish(w)
    /\ UNCHANGED <<deployment, key, storeVars, keyVars>>

\* The customer of a recorded checkout pays the intent it was given; for each order
\* of the intent, handleAttemptCapture reads it
Capture(w, i, o) ==
    /\ At(w, "idle") /\ answer[i] # Nobody /\ o \in intent[i]
    /\ Exists(o) /\ pay[o] # "CAPTURED"
    /\ Set(w, [Idle EXCEPT !.pc = "capture", !.order = o, !.target = Written(o, "CONFIRMED")])
    /\ Touch(o)
    /\ UNCHANGED <<deployment, key, storeVars, keyVars, events>>

\* and saves it as paid and, unless it had read so, confirmed, whatever has happened to it.
Confirm(w) ==
    /\ At(w, "capture")
    /\ LET o == worker[w].order
       IN  IF Exists(o)
           THEN /\ pay' = [pay EXCEPT ![o] = "CAPTURED"]
                /\ Write(o, worker[w].target)
                /\ calm' = IF status[o] \in Restocked THEN calm \ {o} ELSE calm
           ELSE UNCHANGED <<pay, status, calm>>
    /\ Finish(w)
    /\ UNCHANGED <<deployment, key, stock, units, offer, items, claim, keyVars, events>>

\* A delivered shipment sets its order to DELIVERED, from any status.
Deliver(o) ==
    /\ events < MaxEvents /\ events' = events + 1
    /\ Exists(o) /\ status[o] # "DELIVERED"
    /\ status' = [status EXCEPT ![o] = "DELIVERED"]
    /\ calm' = IF o \in InUse \/ status[o] \in Restocked THEN calm \ {o} ELSE calm
    /\ UNCHANGED <<deployment, key, stock, units, offer, pay, items, claim, keyVars, worker>>

\* A seller's update of a product leaves one of its variants out, and the product's
\* count becomes the sum of the others. (It fails when no variant is left.)
RemoveVariant(v) ==
    /\ events < MaxEvents /\ events' = events + 1
    /\ v \in listed
    /\ LET product == ProductOf[v]
           others == ListedOf(product) \ {v}
       IN  /\ others # {}
           /\ listed' = listed \ {v}
           /\ stock' = [stock EXCEPT ![product] = Total(units, others)]
           /\ withdrawn' = [withdrawn EXCEPT ![product] = @ + units[v]]
           /\ calm' = calm \ {o \in Orders : Wants[o][product] = v}
    /\ UNCHANGED <<deployment, key, units, status, pay, items, claim, keyVars, worker>>

-----------------------------------------------------------------------------
Crash(w) ==
    /\ ~At(w, "idle") /\ events < MaxEvents
    /\ events' = events + 1
    /\ calm' = calm \ Scope(w)
    /\ holder' = [i \in Keys |-> IF holder[i] = w THEN Orphan ELSE holder[i]]
    /\ Finish(w)
    /\ UNCHANGED <<deployment, key, storeVars, intent, outcome, answer, expired>>

\* The lock has a time to live of 15 s and is not renewed.
Expire(i) ==
    /\ holder[i] # Free /\ Counted(holder[i] # Orphan)
    /\ holder' = [holder EXCEPT ![i] = Free]
    /\ expired' = expired \cup {i}
    /\ UNCHANGED <<deployment, key, storeVars, intent, outcome, answer, worker, calm>>

Checkout(w) ==
    \/ Again(w) \/ Transact(w) \/ Validate(w) \/ Create(w) \/ Deduct(w) \/ Attach(w)
    \/ Undo(w) \/ UndoItems(w) \/ UndoOrders(w) \/ CreateIntent(w)
    \/ Roll(w) \/ RollPut(w) \/ RollSave(w) \/ Record(w) \/ Unlock(w)
Advance(w) == Checkout(w) \/ Put(w) \/ Save(w) \/ Confirm(w)
Fail(w) == CreateFails(w) \/ PopulateFails(w) \/ RollFails(w) \/ UpdateFails(w) \/ Crash(w)

Start(w) ==
    \/ \E k \in Checkouts : Begin(w, k)
    \/ \E o \in Orders : \E target \in Targets : Update(w, o, target)
    \/ \E i \in Keys : \E o \in Orders : Capture(w, i, o)

Next ==
    \/ \E w \in Workers : Start(w) \/ Advance(w) \/ Fail(w)
    \/ \E o \in Orders : Deliver(o)
    \/ \E v \in Variants : RemoveVariant(v)
    \/ \E i \in Keys : Expire(i)

Spec == Init /\ [][Next]_vars

-----------------------------------------------------------------------------
TypeOK ==
    /\ deployment \in Deployments
    /\ key \in [Checkouts -> Keys]
    /\ stock \in [Products -> Int]
    /\ \A p \in Products : p \notin Varied => stock[p] >= 0
    /\ units \in [Variants -> Int] /\ listed \subseteq Variants
    /\ withdrawn \in [Products -> Int]
    /\ status \in [Orders -> OrderDocs]
    /\ pay \in [Orders -> {"PENDING", "CAPTURED", "FAILED"}]
    /\ items \in [Orders -> SUBSET Products]
    /\ intent \in [Keys -> SUBSET Orders]
    /\ outcome \in [Checkouts -> Outcomes]
    /\ answer \in [Keys -> CheckoutIds]
    /\ holder \in [Keys -> Workers \cup {Free, Orphan}]
    /\ worker \in [Workers -> Worker]
    /\ claim \in [Orders -> [Products -> Int]]
    /\ calm \subseteq Orders /\ expired \subseteq Keys
    /\ events \in Nat

AtRest(o) == o \notin InUse
Live(o) == Exists(o) /\ status[o] \notin Restocked

\* The units of a product that are taken for orders, less those put back more than once
Taken(p) == Total([o \in Orders |-> claim[o][p]], Orders)

\* No unit of the stock is lost or made, also when a variant is oversold, another one than
\* the customer's is counted down, or nothing is put back: what is not in a product's count
\* has been taken for some order or went with a variant the seller removed. And an order
\* that one operation at a time has worked on, and whose variants are still there, has
\* exactly its units off the shelf while it lives, and none when its checkout failed, it
\* was rolled back, cancelled or returned, with or without transactions, whatever other
\* orders do.
UnitsFollowStatus ==
    /\ \A p \in Products : stock[p] + Taken(p) + withdrawn[p] = Shelf[p]
    /\ \A o \in calm : AtRest(o) =>
          \A p \in Products : claim[o][p] = IF Live(o) THEN Quantity[o][p] ELSE 0

\* createOrder and rollbackOrders together are all or nothing: a checkout that was
\* answered with an error leaves no live or paid order, one that was placed
\* has every order with all its items.
CheckoutIsAtomic ==
    \A k \in Checkouts : \A o \in OrdersOf(k) \cap calm :
        AtRest(o) =>
            /\ outcome[k] = "refused" => ~Live(o) /\ pay[o] # "CAPTURED"
            /\ outcome[k] = "placed" => Exists(o) /\ items[o] = ProductsOf(o)

\* Two submissions with one Idempotency-Key do not both place orders, as long as
\* the lock of the key has not expired.
KeyPlacesOnce ==
    \A k1, k2 \in Checkouts :
        outcome[k1] = "placed" /\ outcome[k2] = "placed" /\ key[k1] = key[k2]
            => k1 = k2 \/ key[k1] \in expired

\* The customer never pays for orders that were rolled back, except when the failed
\* checkout was submitted again with its key and given the intent it had left.
StrayCaptureNeedsRetry ==
    \A o \in Orders : \A k \in Checkouts :
        k = CheckoutOf[o] /\ pay[o] = "CAPTURED" /\ outcome[k] = "refused"
            => \E j \in Checkouts : j # k /\ key[j] = key[k] /\ outcome[j] = "placed"

\* "Orders cannot be shipped before authoritative payment confirmation": also not
\* when the payment, a rollback and the shipping overlap, as long as the lock of the
\* checkout's key has not expired.
ShippedIsPaid ==
    \A o \in Orders :
        status[o] = "SHIPPED" => pay[o] = "CAPTURED" \/ key[CheckoutOf[o]] \in expired

\* A cancelled order comes back to life only through a late capture, a courier, or an
\* operation that had read it before it was cancelled.
CancelledStays ==
    [][\A o \in calm : status[o] = "CANCELLED" /\ status'[o] # "CANCELLED" => o \notin calm']_vars
=============================================================================
