-------------------------- MODULE OrderCalmProofs --------------------------
(***************************************************************************)
(* What OrderStock promises of an order that whole operations touch one at *)
(* a time: its units are off the shelf exactly while it lives, its checkout*)
(* made all of it or nothing, and it stays cancelled.                      *)
(*                                                                         *)
(* While an operation is at work on the order these do not hold. CalmInv   *)
(* says instead what it has done so far: which units a checkout has taken, *)
(* which of them an undo, a rollback or a cancellation has still to put    *)
(* back (Doing), and that nobody else is at work on the order; AllOffered, *)
(* that its variants are there, so that putting units back matches one.    *)
(* StockInv adds that the stock and the units of all orders, calm or not,  *)
(* add up, and that a product's count is the sum of those of its variants. *)
(***************************************************************************)
EXTENDS OrderProofs

Making == {"create", "deduct", "attach"}
Undoes == {"undo", "undo_items", "undo_orders"}
RollsBack == {"roll", "roll_put", "roll_save"}
Updating == {"put", "save"}

Claims(o, lines) == \A p \in Products : claim[o][p] = IF <<o, p>> \in lines THEN Quantity[o][p] ELSE 0
Unpaid(o) == pay[o] # "CAPTURED"
Fresh(o) == status[o] = "ABSENT" /\ Claims(o, {}) /\ Unpaid(o)
Complete(o) == status[o] = "CONFIRMED" /\ items[o] = ProductsOf(o) /\ Unpaid(o)
Whole(o) == Complete(o) /\ Claims(o, LinesOf({o}))
RolledBack(o) == status[o] = "CANCELLED" /\ items[o] = ProductsOf(o) /\ Unpaid(o) /\ Claims(o, {})

\* No operation is in the middle of it.
Settled(o) ==
    /\ Claims(o, IF Live(o) THEN LinesOf({o}) ELSE {})
    /\ Exists(o) => items[o] = ProductsOf(o)
    /\ outcome[CheckoutOf[o]] = "refused" => ~Live(o) /\ Unpaid(o)
    /\ outcome[CheckoutOf[o]] = "placed" => Exists(o)

\* What a worker with the locals q has done to an order that only it is at work on:
\* a checkout before and while it makes the order or undoes that,
Prepares(q, o) == q.pc \in {"again", "validate", "transaction"} => Fresh(o)
HalfMade(q, o) ==
    q.pc \in Making \cup Undoes =>
        IF o \in q.left THEN Fresh(o)
        ELSE status[o] = "CONFIRMED" /\ Unpaid(o) /\ Claims(o, q.done)
Takes(q, o) ==
    /\ q.pc \in Making /\ o \notin q.left /\ (q.pc = "create" \/ o # q.order) =>
          LinesOf({o}) \subseteq q.done /\ items[o] = ProductsOf(o)
    /\ q.pc = "attach" /\ o = q.order => LinesOf({o}) \subseteq q.done
    /\ q.pc = "deduct" /\ o = q.order => LinesOf({o}) = q.todo \cup (q.done \cap LinesOf({o}))
    /\ q.pc = "deduct" => q.todo \cap q.done = {}
\* when it has made it, and while it rolls it back,
HasMade(q, o) == q.pc \in {"intent", "record"} => Whole(o)
RollingBack(q, o) ==
    q.pc \in RollsBack =>
        IF o \in q.left THEN Whole(o)
        ELSE IF q.pc = "roll" \/ o # q.order THEN RolledBack(o)
        ELSE Complete(o) /\ Claims(o, q.todo) /\ q.target = "CANCELLED"
\* an update of its status,
Updates(q, o) ==
    q.pc \in Updating =>
        /\ Exists(o) /\ items[o] = ProductsOf(o)
        /\ Claims(o, IF q.target \in Restocked THEN q.todo ELSE LinesOf({o}))
        /\ outcome[CheckoutOf[o]] = "refused" => q.target \in Restocked /\ Unpaid(o)
        /\ status[o] # "CANCELLED"
\* and one that changes nothing of this.
Spares(q, o) == q.pc \in {"capture", "unlock"} => Settled(o)

Doing(q, o) ==
    /\ Prepares(q, o) /\ HalfMade(q, o) /\ Takes(q, o) /\ HasMade(q, o)
    /\ RollingBack(q, o) /\ Updates(q, o) /\ Spares(q, o)

\* What holds of a worker's locals also when others have touched its orders
Tidy(q) ==
    /\ q.pc \in {"again", "validate", "transaction", "undo_items", "undo_orders"} => q.done = {}
    /\ q.pc \in Making \cup Undoes => q.done \subseteq LinesOf(OrdersOf(q.checkout) \ q.left)
    /\ q.pc \in {"deduct", "attach"} => q.order \in OrdersOf(q.checkout) \ q.left
    /\ q.pc = "deduct" => q.todo \subseteq LinesOf({q.order})
    /\ q.pc \in {"roll_put", "roll_save"} => q.order \in OrdersOf(q.checkout) \ q.left
    /\ q.pc \in {"roll_put", "put"} => q.todo \subseteq {q.order} \X Products
    /\ q.pc \in {"roll_save", "save"} => q.todo = {}
    /\ q.pc \in Updating => q.target \in OrderStatuses
    /\ q.pc = "put" => q.target \in Restocked
    /\ q.pc \in Updating \cup {"capture"} => outcome[CheckoutOf[q.order]] # "new"

CalmInv ==
    /\ \A w \in Workers : Tidy(worker[w])
    /\ \A o \in Orders : outcome[CheckoutOf[o]] = "new" => Fresh(o)
    /\ \A o \in calm :
          /\ \A v, w \in Workers : o \in Scope(v) /\ o \in Scope(w) => v = w
          /\ \A w \in Workers : o \in Scope(w) => Doing(worker[w], o)
          /\ o \notin InUse => Settled(o)

\* The variants that the lines of a calm order name are there.
Offered(o) == \A p \in Products : Wants[o][p] \in listed \cup {NoVariant}
AllOffered == \A o \in calm : Offered(o)

-----------------------------------------------------------------------------
(* How a step of one worker leaves the orders of the others alone.         *)

\* What a property of an order o depends on
Same(o) ==
    /\ status'[o] = status[o] /\ pay'[o] = pay[o] /\ items'[o] = items[o] /\ claim'[o] = claim[o]
    /\ outcome'[CheckoutOf[o]] = outcome[CheckoutOf[o]]

LEMMA SameStays ==
    ASSUME NEW o, Same(o)
    PROVE  /\ Fresh(o) => Fresh(o)'
           /\ Settled(o) => Settled(o)'
           /\ \A w \in Workers : worker'[w] = worker[w] /\ Doing(worker[w], o) => Doing(worker[w], o)'
<1>1. \A lines : Claims(o, lines) => Claims(o, lines)'
  BY DEF Same, Claims
<1>2. Fresh(o) => Fresh(o)'
  BY <1>1 DEF Same, Fresh, Unpaid
<1>3. Whole(o) => Whole(o)'
  BY <1>1 DEF Same, Whole, Complete, Unpaid
<1>4. (Complete(o) => Complete(o)') /\ (RolledBack(o) => RolledBack(o)')
  BY <1>1 DEF Same, Complete, RolledBack, Unpaid
<1>5. (Live(o)' <=> Live(o)) /\ (Exists(o)' <=> Exists(o)) /\ (Unpaid(o)' <=> Unpaid(o))
  BY DEF Same, Live, Exists, Unpaid
<1>6. Settled(o) => Settled(o)'
  BY <1>1, <1>5 DEF Same, Settled
<1>7. ASSUME NEW w \in Workers, worker'[w] = worker[w], Doing(worker[w], o)
      PROVE  Doing(worker[w], o)'
  <2>1. Prepares(worker[w], o)' /\ HalfMade(worker[w], o)'
    BY <1>1, <1>2, <1>5, <1>7 DEF Doing, Prepares, HalfMade, Same
  <2>2. Takes(worker[w], o)'
    BY <1>7 DEF Doing, Takes, Same
  <2>3. HasMade(worker[w], o)' /\ Spares(worker[w], o)'
    BY <1>3, <1>6, <1>7 DEF Doing, HasMade, Spares
  <2>4. RollingBack(worker[w], o)'
    BY <1>1, <1>3, <1>4, <1>7 DEF Doing, RollingBack
  <2>5. Updates(worker[w], o)'
    <3> DEFINE lines == IF worker[w].target \in Restocked THEN worker[w].todo ELSE LinesOf({o})
    <3>1. lines' = lines
      BY <1>7
    <3>2. Claims(o, lines) => Claims(o, lines)'
      BY <1>1, <3>1 DEF Claims
    <3> QED BY <1>5, <1>7, <3>2 DEF Doing, Updates, Same
  <2> QED BY <2>1, <2>2, <2>3, <2>4, <2>5 DEF Doing
<1> QED BY <1>2, <1>6, <1>7

LEMMA ScopeIs ==
    ASSUME OrderInv, NEW w \in Workers
    PROVE  /\ worker[w].pc \in CheckoutSteps =>
                /\ Scope(w) = OrdersOf(worker[w].checkout)
                /\ worker[w].checkout \in Checkouts /\ outcome[worker[w].checkout] # "new"
           /\ worker[w].pc \in Updating \cup {"capture"} =>
                Scope(w) = {worker[w].order} /\ worker[w].order \in Orders
           /\ worker[w].pc = "idle" => Scope(w) = {}
           /\ worker[w].pc \in CheckoutSteps \cup Updating \cup {"idle", "capture"}
<1>1. /\ worker[w].pc \in CheckoutSteps <=> worker[w].checkout # Nobody
      /\ worker[w].pc \in Updating \cup {"capture"} => worker[w].order \in Orders
      /\ worker[w].checkout # Nobody => outcome[worker[w].checkout] # "new"
  BY DEF OrderInv, Knows, Updating, CheckoutSteps
<1>2. worker[w].pc \in Steps /\ worker[w].checkout \in Checkouts \cup {Nobody}
  BY KeyTypes DEF OrderInv, Worker
<1>3. worker[w].pc \in CheckoutSteps \cup Updating \cup {"idle", "capture"}
  BY <1>2 DEF Steps, CheckoutSteps, Updating
<1>4. "idle" \notin CheckoutSteps \cup Updating \cup {"capture"}
      /\ \A s \in Updating \cup {"capture"} : s \notin CheckoutSteps
  BY DEF CheckoutSteps, Updating
<1> QED BY <1>1, <1>2, <1>3, <1>4 DEF Scope

LEMMA ScopeNotNew ==
    ASSUME OrderInv, CalmInv, NEW w \in Workers, NEW o \in Scope(w)
    PROVE  o \in Orders /\ outcome[CheckoutOf[o]] # "new"
<1>1. CASE worker[w].pc \in CheckoutSteps
  BY <1>1, ScopeIs DEF OrdersOf
<1>2. CASE worker[w].pc \in Updating \cup {"capture"}
  <2>1. Tidy(worker[w]) /\ o = worker[w].order /\ o \in Orders
    BY <1>2, ScopeIs DEF CalmInv
  <2> QED BY <1>2, <2>1 DEF Tidy
<1>3. CASE worker[w].pc = "idle"
  BY <1>3, ScopeIs
<1> QED BY <1>1, <1>2, <1>3, ScopeIs

\* A step of w that changes only the orders it has or takes up
LEMMA CalmKeeps ==
    ASSUME OrderInv, CalmInv, NEW w \in Workers, TypeOK',
           \A v \in Workers \ {w} : worker'[v] = worker[v],
           calm' \subseteq calm,
           \A k \in Checkouts : outcome[k] # "new" => outcome'[k] # "new",
           \A o \in Orders : o \in Scope(w) \/ o \in Scope(w)' \/ Same(o),
           \A o \in Scope(w)' : o \in Scope(w) \/ o \notin InUse \/ o \notin calm',
           \A o \in Scope(w)' : o \in Orders /\ outcome'[CheckoutOf[o]] # "new",
           Tidy(worker[w])',
           \A o \in calm' : o \in Scope(w)' => Doing(worker[w], o)',
           \A o \in calm' : o \in Scope(w) /\ o \notin Scope(w)' => Settled(o)'
    PROVE  CalmInv'
<1>1. ASSUME NEW v \in Workers PROVE Tidy(worker[v])'
  <2>1. CASE v = w
    BY <2>1
  <2>2. CASE v # w
    <3>1. worker[v].pc \in Updating \cup {"capture"} => CheckoutOf[worker[v].order] \in Checkouts
      BY ScopeIs, KeyTypes DEF OrderInv
    <3> QED BY <2>2, <3>1 DEF CalmInv, Tidy
  <2> QED BY <2>1, <2>2
<1>2. ASSUME NEW v \in Workers, v # w PROVE Scope(v)' = Scope(v)
  BY <1>2 DEF Scope
<1>3. ASSUME NEW o \in Orders, outcome'[CheckoutOf[o]] = "new" PROVE Fresh(o)'
  <2>1. CheckoutOf[o] \in Checkouts
    BY KeyTypes DEF OrderInv
  <2>2. outcome[CheckoutOf[o]] = "new"
    BY <1>3, <2>1
  <2>3. Same(o)
    BY <1>3, <2>2, ScopeNotNew
  <2> QED BY <2>2, <2>3, SameStays DEF CalmInv
<1>4. ASSUME NEW o \in calm'
      PROVE  /\ \A u, v \in Workers : o \in Scope(u)' /\ o \in Scope(v)' => u = v
             /\ \A v \in Workers : o \in Scope(v)' => Doing(worker[v], o)'
             /\ o \notin InUse' => Settled(o)'
  <2>1. o \in calm /\ o \in Orders
    BY DEF OrderInv, TypeOK
  <2>2. \A u, v \in Workers : o \in Scope(u) /\ o \in Scope(v) => u = v
    BY <2>1 DEF CalmInv
  <2>3. o \in Scope(w) \/ o \in Scope(w)' => \A v \in Workers \ {w} : o \notin Scope(v)
    BY <2>2 DEF InUse
  <2>4. CASE o \in Scope(w)'
    BY <1>2, <2>3, <2>4 DEF InUse
  <2>5. CASE o \in Scope(w) /\ o \notin Scope(w)'
    BY <1>2, <2>3, <2>5 DEF InUse
  <2>6. CASE o \notin Scope(w) /\ o \notin Scope(w)'
    <3>1. Same(o)
      BY <2>1, <2>6
    <3>2. \A v \in Workers : o \in Scope(v)' => v # w /\ o \in Scope(v) /\ worker'[v] = worker[v]
      BY <1>2, <2>6
    <3>3. o \notin InUse' => o \notin InUse
      BY <1>2, <2>6 DEF InUse
    <3>4. \A v \in Workers : o \in Scope(v) => Doing(worker[v], o)
      BY <2>1 DEF CalmInv
    <3>5. o \notin InUse => Settled(o)
      BY <2>1 DEF CalmInv
    <3> QED BY <2>2, <3>1, <3>2, <3>3, <3>4, <3>5, SameStays
  <2> QED BY <2>4, <2>5, <2>6
<1> QED BY <1>1, <1>3, <1>4 DEF CalmInv

\* A step of a checkout that goes on changes only its own orders.
LEMMA CheckoutStays ==
    ASSUME OrderInv, CalmInv, NEW w \in Workers, TypeOK', worker[w].pc \in CheckoutSteps,
           \A v \in Workers \ {w} : worker'[v] = worker[v],
           worker'[w].pc # "idle", worker'[w].checkout = worker[w].checkout,
           calm' \subseteq calm,
           \A k \in Checkouts \ {worker[w].checkout} : outcome'[k] = outcome[k],
           outcome'[worker[w].checkout] # "new",
           \A o \in Orders \ OrdersOf(worker[w].checkout) :
               status'[o] = status[o] /\ pay'[o] = pay[o] /\ items'[o] = items[o] /\ claim'[o] = claim[o],
           Tidy(worker[w])',
           \A o \in calm' : o \in OrdersOf(worker[w].checkout) /\ Doing(worker[w], o) => Doing(worker[w], o)'
    PROVE  CalmInv'
<1> DEFINE k == worker[w].checkout
<1>1. Scope(w) = OrdersOf(k) /\ k \in Checkouts /\ k # Nobody
  BY ScopeIs, KeyTypes DEF OrderInv, OrdersOf
<1>2. Scope(w)' = OrdersOf(k)
  BY <1>1 DEF Scope, OrdersOf
<1>3. \A j \in Checkouts : outcome[j] # "new" => outcome'[j] # "new"
  OBVIOUS
<1>4. \A o \in Orders : o \in Scope(w) \/ Same(o)
  <2>1. \A o \in Orders \ OrdersOf(k) : CheckoutOf[o] \in Checkouts \ {k}
    BY KeyTypes DEF OrderInv, OrdersOf
  <2> QED BY <1>1, <2>1 DEF Same
<1>5. \A o \in Scope(w)' : o \in Orders /\ outcome'[CheckoutOf[o]] # "new"
  BY <1>2 DEF OrdersOf
<1>6. \A o \in calm' : o \in Scope(w)' => Doing(worker[w], o)'
  BY <1>1, <1>2 DEF CalmInv
<1> HIDE DEF k
<1> QED BY <1>1, <1>2, <1>3, <1>4, <1>5, <1>6, CalmKeeps

LEMMA SetIs ==
    ASSUME OrderInv, NEW w \in Workers, NEW q, Set(w, q)
    PROVE  worker'[w] = q /\ \A v \in Workers \ {w} : worker'[v] = worker[v]
BY DEF OrderInv, TypeOK, Set

LEMMA ProceedIs ==
    ASSUME OrderInv, NEW w \in Workers, NEW step, Proceed(w, step)
    PROVE  /\ worker'[w].pc = step /\ worker'[w].checkout = worker[w].checkout
           /\ worker'[w].done = {} /\ worker'[w].left = {}
           /\ \A v \in Workers \ {w} : worker'[v] = worker[v]
<1> DEFINE q == [Idle EXCEPT !.pc = step, !.checkout = worker[w].checkout]
<1>1. q.pc = step /\ q.checkout = worker[w].checkout /\ q.done = {} /\ q.left = {}
  BY DEF Idle
<1>2. Set(w, q)
  BY DEF Proceed
<1> HIDE DEF q
<1> QED BY <1>1, <1>2, SetIs

\* A worker that only has its lock to give back
LEMMA UnlocksCalm ==
    ASSUME NEW w \in Workers, worker'[w].pc = "unlock"
    PROVE  Tidy(worker[w])' /\ \A o : Settled(o)' => Doing(worker[w], o)'
BY DEF Tidy, Doing, Prepares, HalfMade, Takes, HasMade, RollingBack, Updates, Spares,
       Making, Undoes, RollsBack, Updating

\* A checkout that is answered with an error
LEMMA RefuseCalm ==
    ASSUME OrderInv, CalmInv, NEW w \in Workers, TypeOK', worker[w].pc \in CheckoutSteps,
           Refuse(w), calm' \subseteq calm,
           \A o \in Orders \ OrdersOf(worker[w].checkout) :
               status'[o] = status[o] /\ pay'[o] = pay[o] /\ items'[o] = items[o] /\ claim'[o] = claim[o],
           \A o \in calm' : o \in OrdersOf(worker[w].checkout) /\ Doing(worker[w], o) =>
               Fresh(o)' \/ RolledBack(o)'
    PROVE  CalmInv'
<1>1. worker[w].checkout \in Checkouts
  BY ScopeIs
<1>2. /\ outcome'[worker[w].checkout] = "refused"
      /\ \A k \in Checkouts \ {worker[w].checkout} : outcome'[k] = outcome[k]
  BY <1>1 DEF Refuse, OrderInv, TypeOK
<1>3. worker'[w].pc = "unlock" /\ worker'[w].checkout = worker[w].checkout
      /\ \A v \in Workers \ {w} : worker'[v] = worker[v]
  BY ProceedIs DEF Refuse
<1>4. ASSUME NEW o \in OrdersOf(worker[w].checkout), Fresh(o)' \/ RolledBack(o)' PROVE Settled(o)'
  BY <1>2, <1>4 DEF OrdersOf, Settled, Fresh, RolledBack, Live, Exists, Restocked, Claims, Unpaid
<1> QED BY <1>2, <1>3, <1>4, CheckoutStays, UnlocksCalm

LEMMA GotoIs ==
    ASSUME OrderInv, NEW w \in Workers, NEW step, Goto(w, step)
    PROVE  /\ worker'[w] = [worker[w] EXCEPT !.pc = step]
           /\ worker'[w].pc = step /\ worker'[w].checkout = worker[w].checkout
           /\ worker'[w].done = worker[w].done /\ worker'[w].left = worker[w].left
           /\ worker'[w].todo = worker[w].todo /\ worker'[w].order = worker[w].order
           /\ \A v \in Workers \ {w} : worker'[v] = worker[v]
<1>1. worker'[w] = [worker[w] EXCEPT !.pc = step] /\ \A v \in Workers \ {w} : worker'[v] = worker[v]
  BY SetIs DEF Goto
<1>2. worker[w] \in Worker
  BY DEF OrderInv, TypeOK
<1> QED BY <1>1, <1>2 DEF Worker

LEMMA LineIs ==
    ASSUME NEW o \in Orders, NEW p \in Products
    PROVE  <<o, p>> \in LinesOf({o}) <=> Quantity[o][p] > 0
<1>1. <<o, p>> \in Lines /\ <<o, p>>[1] = o /\ <<o, p>>[2] = p
  BY DEF Lines
<1> QED BY <1>1 DEF LinesOf

LEMMA BeforeCalm ==
    ASSUME OrderInv, CalmInv, NEW w \in Workers, TypeOK', Again(w) \/ Transact(w) \/ Validate(w)
    PROVE  CalmInv'
<1> USE DEF storeVars, offer, keyVars
<1>0. worker[w].pc \in {"again", "transaction", "validate"} /\ worker[w].pc \in CheckoutSteps
  BY DEF Again, Transact, Validate, At, CheckoutSteps
<1>1. worker[w].checkout \in Checkouts /\ outcome[worker[w].checkout] # "new"
  BY <1>0, ScopeIs
<1>2. worker[w].done = {} /\ outcome \in [Checkouts -> Outcomes]
  BY <1>0 DEF CalmInv, Tidy, OrderInv, TypeOK
<1>3. \A o : Doing(worker[w], o) => Fresh(o)
  BY <1>0 DEF Doing, Prepares
<1>4. CASE Again(w)
  <2>1. UNCHANGED <<status, pay, items, claim, calm>>
    BY <1>4 DEF Again
  <2>2. \A k \in Checkouts \ {worker[w].checkout} : outcome'[k] = outcome[k]
    BY <1>1, <1>2, <1>4 DEF Again
  <2>3. \A o : Fresh(o) => Fresh(o)'
    BY <2>1 DEF Fresh, Claims, Unpaid
  <2>4. CASE answer[key[worker[w].checkout]] # Nobody
    <3>1. outcome'[worker[w].checkout] = "replayed" /\ Goto(w, "unlock")
      BY <1>1, <1>2, <1>4, <2>4 DEF Again
    <3>2. ASSUME NEW o \in OrdersOf(worker[w].checkout), Fresh(o) PROVE Settled(o)'
      BY <2>3, <3>1, <3>2 DEF OrdersOf, Settled, Fresh, Live, Exists, Claims
    <3>3. /\ worker'[w].pc = "unlock" /\ worker'[w].checkout = worker[w].checkout
          /\ \A v \in Workers \ {w} : worker'[v] = worker[v]
      BY <3>1, GotoIs
    <3>4. Tidy(worker[w])' /\ \A o : Settled(o)' => Doing(worker[w], o)'
      BY <3>3, UnlocksCalm
    <3> QED BY <1>0, <1>3, <2>1, <2>2, <3>1, <3>2, <3>3, <3>4, CheckoutStays
  <2>5. CASE answer[key[worker[w].checkout]] = Nobody
    <3>1. UNCHANGED outcome /\ Goto(w, IF deployment = "replica" THEN "transaction" ELSE "validate")
      BY <1>4, <2>5 DEF Again
    <3>2. /\ worker'[w].pc \in {"transaction", "validate"} /\ worker'[w].checkout = worker[w].checkout
          /\ worker'[w].done = {} /\ \A v \in Workers \ {w} : worker'[v] = worker[v]
      BY <1>2, <3>1, GotoIs
    <3>3. Tidy(worker[w])'
      BY <3>2 DEF Tidy, Making, Undoes, Updating
    <3>4. \A o : Fresh(o) => Doing(worker[w], o)'
      BY <2>3, <3>2 DEF Doing, Prepares, HalfMade, Takes, HasMade, RollingBack, Updates, Spares,
         Making, Undoes, RollsBack, Updating
    <3> QED BY <1>0, <1>1, <1>3, <2>1, <2>2, <3>1, <3>2, <3>3, <3>4, CheckoutStays
  <2> QED BY <2>4, <2>5
<1> DEFINE Refuses == Refuse(w) /\ UNCHANGED <<status, pay, items, claim, calm>>
<1>5. CASE Refuses
  <2>1. \A o : Fresh(o) => Fresh(o)'
    BY <1>5 DEF Fresh, Claims, Unpaid
  <2> QED BY <1>0, <1>3, <1>5, <2>1, RefuseCalm
<1>6. CASE Transact(w) /\ ~Refuses
  <2> DEFINE os == OrdersOf(worker[w].checkout)
  <2>1. /\ claim' = [o \in Orders |-> IF o \in os THEN Quantity[o] ELSE claim[o]]
        /\ status' = [o \in Orders |-> IF o \in os THEN "CONFIRMED" ELSE status[o]]
        /\ items' = [o \in Orders |-> IF o \in os THEN ProductsOf(o) ELSE items[o]]
        /\ Goto(w, "intent") /\ UNCHANGED <<pay, outcome, calm>>
    BY <1>6 DEF Transact
  <2>2. os \subseteq Orders
    BY DEF OrdersOf
  <2>3. /\ worker'[w].pc = "intent" /\ worker'[w].checkout = worker[w].checkout
        /\ \A v \in Workers \ {w} : worker'[v] = worker[v]
    BY <2>1, GotoIs
  <2>4. Tidy(worker[w])'
    BY <2>3 DEF Tidy, Making, Undoes, Updating
  <2>5. ASSUME NEW o \in os, Fresh(o) PROVE Whole(o)'
    <3> HIDE DEF os
    <3>1. claim'[o] = Quantity[o] /\ status'[o] = "CONFIRMED" /\ items'[o] = ProductsOf(o)
      BY <2>1, <2>2
    <3>2. Claims(o, LinesOf({o}))'
      <4>1. ASSUME NEW p \in Products PROVE claim'[o][p] = IF <<o, p>> \in LinesOf({o}) THEN Quantity[o][p] ELSE 0
        <5>1. <<o, p>> \in LinesOf({o}) <=> Quantity[o][p] > 0
          BY <2>2, LineIs
        <5>2. Quantity[o][p] > 0 \/ Quantity[o][p] = 0
          BY <2>2, OrderStockAssumption
        <5>3. claim'[o][p] = Quantity[o][p]
          BY <3>1
        <5> QED BY <5>1, <5>2, <5>3
      <4>2. LinesOf({o})' = LinesOf({o})
        BY DEF LinesOf, Lines
      <4> QED BY <4>1, <4>2 DEF Claims
    <3> QED BY <2>1, <2>5, <3>1, <3>2 DEF Whole, Complete, Fresh, Unpaid
  <2>6. \A o \in os : Fresh(o) => Doing(worker[w], o)'
    BY <2>3, <2>5 DEF Doing, Prepares, HalfMade, Takes, HasMade, RollingBack, Updates, Spares,
       Making, Undoes, RollsBack, Updating
  <2> QED BY <1>0, <1>1, <1>3, <2>1, <2>3, <2>4, <2>6, CheckoutStays
<1>7. CASE Validate(w) /\ ~Refuses
  <2> DEFINE q == [worker[w] EXCEPT !.pc = "create", !.left = OrdersOf(worker[w].checkout)]
  <2>1. Set(w, q) /\ UNCHANGED <<status, pay, items, claim, outcome, calm>>
    BY <1>7 DEF Validate
  <2>2. q.pc = "create" /\ q.left = OrdersOf(worker[w].checkout) /\ q.done = {}
        /\ q.checkout = worker[w].checkout
    BY <1>2 DEF OrderInv, TypeOK, Worker
  <2> HIDE DEF q
  <2>3. worker'[w] = q /\ \A v \in Workers \ {w} : worker'[v] = worker[v]
    BY <2>1, SetIs
  <2>4. Tidy(worker[w])'
    BY <2>2, <2>3 DEF Tidy, Making, Undoes, Updating
  <2>5. \A o : Fresh(o) => Fresh(o)'
    BY <2>1 DEF Fresh, Claims, Unpaid
  <2>6. \A o \in OrdersOf(worker[w].checkout) : Fresh(o) => Doing(worker[w], o)'
    BY <2>2, <2>3, <2>5 DEF Doing, Prepares, HalfMade, Takes, HasMade, RollingBack, Updates, Spares,
       Making, Undoes, RollsBack, Updating
  <2>7. worker'[w].pc # "idle" /\ worker'[w].checkout = worker[w].checkout
    BY <2>2, <2>3
  <2> QED BY <1>0, <1>1, <1>3, <2>1, <2>3, <2>4, <2>6, <2>7, CheckoutStays
<1> HIDE DEF Refuses
<1> QED BY <1>4, <1>5, <1>6, <1>7

-----------------------------------------------------------------------------
(* createOrder without transactions *)

\* What is claimed for an order after a step
ClaimsAfter(o, lines) ==
    \A p \in Products : claim'[o][p] = IF <<o, p>> \in lines THEN Quantity[o][p] ELSE 0

LEMMA LinesAre ==
    /\ \A os : \A l \in LinesOf(os) : l \in Lines /\ l[1] \in os /\ l[1] \in Orders /\ l[2] \in Products
    /\ \A os, more : os \subseteq more => LinesOf(os) \subseteq LinesOf(more)
    /\ \A l \in Lines : l = <<l[1], l[2]>>
BY DEF LinesOf, Lines

\* The units of one line move off the shelf or back.
LEMMA MoveClaims ==
    ASSUME TypeOK, NEW l \in Lines, NEW sign \in {-1, 1}, Move(l[1], l[2], sign)
    PROVE  /\ claim'[l[1]][l[2]] = claim[l[1]][l[2]] - sign * Quantity[l[1]][l[2]]
           /\ \A x \in Orders : \A p \in Products : <<x, p>> # l => claim'[x][p] = claim[x][p]
           /\ \A x \in Orders : x # l[1] => claim'[x] = claim[x]
<1>1. l[1] \in Orders /\ l[2] \in Products /\ l = <<l[1], l[2]>>
  BY DEF Lines
<1> DEFINE o == l[1]
<1> DEFINE r == l[2]
<1> DEFINE n == claim[o][r] - sign * Quantity[o][r]
<1>2. claim' = [claim EXCEPT ![o] = [claim[o] EXCEPT ![r] = n]]
  BY DEF Move
<1>3. claim \in [Orders -> [Products -> Int]] /\ claim[o] \in [Products -> Int]
  BY <1>1 DEF TypeOK
<1> HIDE DEF n
<1>4. claim'[o] = [claim[o] EXCEPT ![r] = n] /\ \A x \in Orders : x # o => claim'[x] = claim[x]
  BY <1>1, <1>2, <1>3
<1>5. claim'[o][r] = n /\ \A p \in Products : p # r => claim'[o][p] = claim[o][p]
  BY <1>1, <1>3, <1>4
<1> QED BY <1>1, <1>4, <1>5 DEF n

LEMMA PutBackClaims ==
    ASSUME TypeOK, NEW l \in Lines, PutBack(l)
    PROVE  /\ \A x \in Orders : x # l[1] => claim'[x] = claim[x]
           /\ Offered(l[1]) => Move(l[1], l[2], 1)
<1>1. l[2] \in Products
  BY LineVariant
<1>2. Offered(l[1]) => VariantOf(l) \in listed \cup {NoVariant}
  BY <1>1 DEF Offered, VariantOf
<1> QED BY <1>2, MoveClaims DEF PutBack

LEMMA TakesLine ==
    ASSUME TypeOK, NEW l \in Lines, Move(l[1], l[2], -1), NEW x \in Orders,
           NEW lines, Claims(x, lines), l \notin lines
    PROVE  ClaimsAfter(x, lines \cup {l})
<1> SUFFICES ASSUME NEW p \in Products
             PROVE  claim'[x][p] = IF <<x, p>> \in lines \cup {l} THEN Quantity[x][p] ELSE 0
  BY DEF ClaimsAfter
<1>1. /\ claim'[l[1]][l[2]] = claim[l[1]][l[2]] - (-1) * Quantity[l[1]][l[2]]
      /\ <<x, p>> # l => claim'[x][p] = claim[x][p]
  BY MoveClaims
<1>2. claim[x][p] = IF <<x, p>> \in lines THEN Quantity[x][p] ELSE 0
  BY DEF Claims
<1>3. CASE <<x, p>> = l
  <2>1. l[1] = x /\ l[2] = p /\ claim[x][p] = 0
    BY <1>2, <1>3
  <2>2. claim'[x][p] = claim[x][p] - (-1) * Quantity[x][p]
    BY <1>1, <2>1
  <2>3. claim'[x][p] = Quantity[x][p]
    BY <2>1, <2>2, OrderStockAssumption
  <2> QED BY <1>3, <2>3
<1>4. CASE <<x, p>> # l
  BY <1>1, <1>2, <1>4
<1> QED BY <1>3, <1>4

LEMMA PutsLine ==
    ASSUME TypeOK, NEW l \in Lines, Move(l[1], l[2], 1), NEW x \in Orders,
           NEW lines, Claims(x, lines), l \in lines
    PROVE  ClaimsAfter(x, lines \ {l})
<1> SUFFICES ASSUME NEW p \in Products
             PROVE  claim'[x][p] = IF <<x, p>> \in lines \ {l} THEN Quantity[x][p] ELSE 0
  BY DEF ClaimsAfter
<1>1. /\ claim'[l[1]][l[2]] = claim[l[1]][l[2]] - 1 * Quantity[l[1]][l[2]]
      /\ <<x, p>> # l => claim'[x][p] = claim[x][p]
  BY MoveClaims
<1>2. claim[x][p] = IF <<x, p>> \in lines THEN Quantity[x][p] ELSE 0
  BY DEF Claims
<1>3. CASE <<x, p>> = l
  <2>1. l[1] = x /\ l[2] = p /\ claim[x][p] = Quantity[x][p]
    BY <1>2, <1>3
  <2>2. claim'[x][p] = claim[x][p] - 1 * Quantity[x][p]
    BY <1>1, <2>1
  <2>3. claim'[x][p] = 0
    BY <2>1, <2>2, OrderStockAssumption
  <2> QED BY <1>3, <2>3
<1>4. CASE <<x, p>> # l
  BY <1>1, <1>2, <1>4
<1> QED BY <1>3, <1>4

LEMMA KeepsClaims ==
    ASSUME NEW o, NEW lines, NEW same, claim'[o] = claim[o], Claims(o, lines),
           \A p \in Products : <<o, p>> \in lines <=> <<o, p>> \in same
    PROVE  ClaimsAfter(o, same)
BY DEF Claims, ClaimsAfter

\* What a worker that makes or undoes an order has to show
LEMMA MakingDoes ==
    ASSUME NEW w \in Workers, worker'[w].pc \in Making \cup Undoes, NEW o,
           o \in worker'[w].left => Fresh(o)',
           o \notin worker'[w].left =>
               status'[o] = "CONFIRMED" /\ Unpaid(o)' /\ ClaimsAfter(o, worker'[w].done),
           worker'[w].pc \in Making => Takes(worker[w], o)'
    PROVE  Doing(worker[w], o)'
<1>1. HalfMade(worker[w], o)'
  BY DEF HalfMade, Claims, ClaimsAfter
<1>2. worker'[w].pc \notin Making => Takes(worker[w], o)'
  BY DEF Takes, Making
<1>3. /\ Prepares(worker[w], o)' /\ HasMade(worker[w], o)' /\ RollingBack(worker[w], o)'
      /\ Updates(worker[w], o)' /\ Spares(worker[w], o)'
  BY DEF Prepares, HasMade, RollingBack, Updates, Spares, Making, Undoes, RollsBack, Updating
<1> QED BY <1>1, <1>2, <1>3 DEF Doing

\* What holds of a worker that makes or undoes the orders of its checkout
LEMMA MakerIs ==
    ASSUME OrderInv, CalmInv, NEW w \in Workers, worker[w].pc \in Making \cup Undoes
    PROVE  /\ worker[w].pc \in CheckoutSteps
           /\ worker[w].checkout \in Checkouts /\ outcome[worker[w].checkout] # "new"
           /\ worker[w].done \subseteq LinesOf(OrdersOf(worker[w].checkout) \ worker[w].left)
           /\ worker[w].left \subseteq OrdersOf(worker[w].checkout)
           /\ OrdersOf(worker[w].checkout) \subseteq Orders
           /\ worker[w] \in Worker
<1>1. worker[w].pc \in CheckoutSteps
  BY DEF Making, Undoes, CheckoutSteps
<1>2. worker[w].checkout \in Checkouts /\ outcome[worker[w].checkout] # "new"
  BY <1>1, ScopeIs
<1>3. worker[w].done \subseteq LinesOf(OrdersOf(worker[w].checkout) \ worker[w].left)
  BY DEF CalmInv, Tidy
<1>4. worker[w].left \subseteq OrdersOf(worker[w].checkout) /\ worker[w] \in Worker
  BY DEF OrderInv, Knows, TypeOK
<1> QED BY <1>1, <1>2, <1>3, <1>4 DEF OrdersOf

LEMMA HalfMadeIs ==
    ASSUME NEW w \in Workers, worker[w].pc \in Making \cup Undoes, NEW o, Doing(worker[w], o)
    PROVE  /\ o \in worker[w].left => Fresh(o)
           /\ o \notin worker[w].left =>
                  status[o] = "CONFIRMED" /\ Unpaid(o) /\ Claims(o, worker[w].done)
           /\ Takes(worker[w], o)
BY DEF Doing, HalfMade

LEMMA CreateCalm ==
    ASSUME OrderInv, CalmInv, NEW w \in Workers, TypeOK', Create(w)
    PROVE  CalmInv'
<1> USE DEF storeVars, offer, keyVars
<1> DEFINE k == worker[w].checkout
<1> DEFINE left == worker[w].left
<1> DEFINE done == worker[w].done
<1>1. PICK o \in left :
        /\ status' = [status EXCEPT ![o] = "CONFIRMED"]
        /\ Set(w, [worker[w] EXCEPT !.pc = "deduct", !.order = o, !.todo = LinesOf({o}),
                       !.left = @ \ {o}])
  BY DEF Create
<1>2. worker[w].pc = "create" /\ UNCHANGED <<pay, items, claim, outcome, calm>>
  BY DEF Create, At
<1>3. worker[w].pc \in Making \cup Undoes
  BY <1>2 DEF Making
<1>4. /\ worker[w].pc \in CheckoutSteps /\ k \in Checkouts /\ outcome[k] # "new"
      /\ done \subseteq LinesOf(OrdersOf(k) \ left) /\ left \subseteq OrdersOf(k)
      /\ OrdersOf(k) \subseteq Orders /\ worker[w] \in Worker
  BY <1>3, MakerIs
<1> DEFINE q == [worker[w] EXCEPT !.pc = "deduct", !.order = o, !.todo = LinesOf({o}),
                       !.left = @ \ {o}]
<1>5. /\ q.pc = "deduct" /\ q.order = o /\ q.todo = LinesOf({o}) /\ q.left = left \ {o}
      /\ q.done = done /\ q.checkout = k
  BY <1>4 DEF Worker
<1> HIDE DEF q
<1>6. worker'[w] = q /\ \A v \in Workers \ {w} : worker'[v] = worker[v]
  BY <1>1, SetIs DEF q
<1>7. status'[o] = "CONFIRMED" /\ \A x \in Orders : x # o => status'[x] = status[x]
  BY <1>1, <1>4 DEF OrderInv, TypeOK
<1> HIDE DEF k, left, done
<1>8. Tidy(worker[w])'
  <2>1. LinesOf(OrdersOf(k) \ left) \subseteq LinesOf(OrdersOf(k) \ (left \ {o}))
    BY LinesAre
  <2> QED BY <1>1, <1>4, <1>5, <1>6, <2>1 DEF Tidy, Undoes, Updating, OrdersOf, LinesOf, Lines
<1>9. ASSUME NEW x \in OrdersOf(k), Doing(worker[w], x) PROVE Doing(worker[w], x)'
  <2>1. /\ x \in left => Fresh(x)
        /\ x \notin left => status[x] = "CONFIRMED" /\ Unpaid(x) /\ Claims(x, done)
        /\ Takes(worker[w], x)
    BY <1>3, <1>9, HalfMadeIs DEF left, done
  <2>2. \A p \in Products : <<x, p>> \in done => x \notin left
    <3>1. \A p \in Products : <<x, p>> \in done => <<x, p>>[1] \notin left
      BY <1>4, LinesAre
    <3> QED BY <3>1
  <2>3. x \in left => Claims(x, {}) /\ Unpaid(x)
    BY <2>1 DEF Fresh
  <2>4. Unpaid(x)' <=> Unpaid(x)
    BY <1>2 DEF Unpaid
  <2>5. ClaimsAfter(x, done)
    <3>1. CASE x \in left
      BY <1>2, <2>2, <2>3, <3>1, KeepsClaims
    <3>2. CASE x \notin left
      BY <1>2, <2>1, <3>2, KeepsClaims
    <3> QED BY <3>1, <3>2
  <2>6. x \in left \ {o} => Fresh(x)'
    BY <1>2, <1>4, <1>7, <2>1 DEF Fresh, Claims, Unpaid
  <2>7. x \notin left \ {o} => status'[x] = "CONFIRMED" /\ Unpaid(x)'
    BY <1>4, <1>7, <2>1, <2>3, <2>4
  <2>8. Takes(worker[w], x)'
    <3>1. x \notin left => LinesOf({x}) \subseteq done /\ items[x] = ProductsOf(x)
      BY <1>2, <2>1 DEF Takes, Making, left, done
    <3>2. LinesOf({o}) \cap done = {}
      BY <1>1, <1>4, LinesAre
    <3> QED BY <1>2, <1>5, <1>6, <3>1, <3>2 DEF Takes
  <2> QED BY <1>5, <1>6, <2>5, <2>6, <2>7, <2>8, MakingDoes DEF Making
<1>10. worker'[w].pc # "idle" /\ worker'[w].checkout = k
  BY <1>5, <1>6
<1>11. \A x \in Orders \ OrdersOf(k) :
         status'[x] = status[x] /\ pay'[x] = pay[x] /\ items'[x] = items[x] /\ claim'[x] = claim[x]
  BY <1>1, <1>2, <1>4, <1>7
<1> QED BY <1>2, <1>4, <1>6, <1>8, <1>9, <1>10, <1>11, CheckoutStays DEF k

\* createOrder gives up: what it has done is still to be undone.
LEMMA GivesUpCalm ==
    ASSUME OrderInv, CalmInv, NEW w \in Workers, TypeOK', worker[w].pc \in Making,
           Goto(w, Undoing(w)), UNCHANGED <<status, pay, items, claim, outcome, calm>>
    PROVE  CalmInv'
<1> DEFINE k == worker[w].checkout
<1> DEFINE left == worker[w].left
<1> DEFINE done == worker[w].done
<1>1. /\ worker[w].pc \in CheckoutSteps /\ k \in Checkouts /\ outcome[k] # "new"
      /\ done \subseteq LinesOf(OrdersOf(k) \ left)
  BY MakerIs
<1>2. /\ worker'[w].pc = Undoing(w) /\ worker'[w].checkout = k
      /\ worker'[w].done = done /\ worker'[w].left = left
      /\ \A v \in Workers \ {w} : worker'[v] = worker[v]
  BY GotoIs
<1>3. worker'[w].pc \in {"undo_items", "undo"} /\ (worker'[w].pc = "undo_items" => done = {})
  BY <1>2 DEF Undoing
<1>4. Tidy(worker[w])'
  BY <1>1, <1>2, <1>3 DEF Tidy, Making, Undoes, Updating, OrdersOf, LinesOf, Lines
<1>5. ASSUME NEW x \in OrdersOf(k), Doing(worker[w], x) PROVE Doing(worker[w], x)'
  <2>1. /\ x \in left => Fresh(x)
        /\ x \notin left => status[x] = "CONFIRMED" /\ Unpaid(x) /\ Claims(x, done)
    BY <1>5, HalfMadeIs
  <2>2. x \in left => Fresh(x)'
    BY <2>1 DEF Fresh, Claims, Unpaid
  <2>3. x \notin left => status'[x] = "CONFIRMED" /\ Unpaid(x)' /\ ClaimsAfter(x, done)
    BY <2>1 DEF Claims, ClaimsAfter, Unpaid
  <2>4. worker'[w].pc \in Making \cup Undoes /\ worker'[w].pc \notin Making
    BY <1>3 DEF Making, Undoes
  <2> HIDE DEF left, done
  <2> QED BY <1>2, <2>2, <2>3, <2>4, MakingDoes
<1> HIDE DEF k, left, done
<1> QED BY <1>1, <1>2, <1>3, <1>4, <1>5, CheckoutStays DEF k

LEMMA DeductCalm ==
    ASSUME OrderInv, CalmInv, NEW w \in Workers, TypeOK', Deduct(w)
    PROVE  CalmInv'
<1> USE DEF storeVars, offer, keyVars
<1> DEFINE k == worker[w].checkout
<1> DEFINE left == worker[w].left
<1> DEFINE done == worker[w].done
<1> DEFINE todo == worker[w].todo
<1> DEFINE o == worker[w].order
<1>1. worker[w].pc = "deduct" /\ UNCHANGED <<status, pay, items, outcome, calm>>
  BY DEF Deduct, At
<1>2. worker[w].pc \in Making /\ worker[w].pc \in Making \cup Undoes
  BY <1>1 DEF Making
<1>3. /\ worker[w].pc \in CheckoutSteps /\ k \in Checkouts /\ outcome[k] # "new"
      /\ done \subseteq LinesOf(OrdersOf(k) \ left) /\ left \subseteq OrdersOf(k)
      /\ OrdersOf(k) \subseteq Orders /\ worker[w] \in Worker
  BY <1>2, MakerIs
<1>4. PICK l \in todo :
        \/ /\ Move(l[1], l[2], -1)
           /\ Set(w, [worker[w] EXCEPT !.todo = @ \ {l}, !.done = @ \cup {l},
                          !.pc = IF worker[w].todo = {l} THEN "attach" ELSE "deduct"])
        \/ Goto(w, Undoing(w)) /\ UNCHANGED claim
  BY DEF Deduct, Take
<1>5. CASE Goto(w, Undoing(w)) /\ UNCHANGED claim
  BY <1>1, <1>2, <1>5, GivesUpCalm
<1>6. ASSUME Move(l[1], l[2], -1),
             Set(w, [worker[w] EXCEPT !.todo = @ \ {l}, !.done = @ \cup {l},
                          !.pc = IF worker[w].todo = {l} THEN "attach" ELSE "deduct"])
      PROVE  CalmInv'
  <2> DEFINE step == IF todo = {l} THEN "attach" ELSE "deduct"
  <2> DEFINE q == [worker[w] EXCEPT !.todo = @ \ {l}, !.done = @ \cup {l}, !.pc = step]
  <2>1. /\ q.pc = step /\ q.order = o /\ q.todo = todo \ {l} /\ q.left = left
        /\ q.done = done \cup {l} /\ q.checkout = k
    BY <1>3 DEF Worker
  <2> HIDE DEF q
  <2>2. worker'[w] = q /\ \A v \in Workers \ {w} : worker'[v] = worker[v]
    BY <1>6, SetIs DEF q
  <2>3. step \in {"attach", "deduct"} /\ (step = "attach" => todo = {l})
    OBVIOUS
  <2>4. o \in OrdersOf(k) \ left /\ todo \subseteq LinesOf({o})
    BY <1>1 DEF CalmInv, Tidy
  <2> HIDE DEF k, left, done, todo, o, step
  <2>5. l \in LinesOf({o}) /\ l \in Lines /\ l[1] = o
    BY <2>4, LinesAre
  <2>6. l \in LinesOf(OrdersOf(k) \ left)
    BY <2>4, <2>5, LinesAre
  <2>7. Tidy(worker[w])'
    BY <1>3, <2>1, <2>2, <2>3, <2>4, <2>6 DEF Tidy, Undoes, Updating, OrdersOf, LinesOf, Lines
  <2>8. \A x \in Orders : x # o => claim'[x] = claim[x]
    BY <1>6, <2>5, MoveClaims DEF OrderInv
  <2>9. ASSUME NEW x \in OrdersOf(k), Doing(worker[w], x) PROVE Doing(worker[w], x)'
    <3>1. /\ x \in left => Fresh(x)
          /\ x \notin left => status[x] = "CONFIRMED" /\ Unpaid(x) /\ Claims(x, done)
          /\ Takes(worker[w], x)
      BY <1>2, <2>9, HalfMadeIs DEF left, done
    <3>2. x \in left => Fresh(x)'
      BY <1>1, <1>3, <2>4, <2>8, <3>1 DEF Fresh, Claims, Unpaid
    <3>3. /\ x \notin left /\ x # o => LinesOf({x}) \subseteq done /\ items[x] = ProductsOf(x)
          /\ x = o => LinesOf({x}) = todo \cup (done \cap LinesOf({x}))
          /\ todo \cap done = {}
      BY <1>1, <3>1 DEF Takes, Making, left, done, todo, o
    <3>4. x \notin left => ClaimsAfter(x, done \cup {l})
      <4>1. l \notin done
        BY <3>3
      <4> QED BY <1>3, <1>6, <2>5, <3>1, <4>1, TakesLine DEF OrderInv
    <3>5. x \notin left => status'[x] = "CONFIRMED" /\ Unpaid(x)'
      BY <1>1, <3>1 DEF Unpaid
    <3>6. Takes(worker[w], x)'
      <4>1. x = o => LinesOf({x}) = (todo \ {l}) \cup ((done \cup {l}) \cap LinesOf({x}))
        BY <2>5, <3>3
      <4>2. (todo \ {l}) \cap (done \cup {l}) = {}
        BY <3>3
      <4>3. step = "attach" /\ x = o => LinesOf({x}) \subseteq done \cup {l}
        BY <2>3, <3>3
      <4> QED BY <1>1, <2>1, <2>2, <2>3, <3>3, <4>1, <4>2, <4>3 DEF Takes
    <3>7. worker'[w].pc \in Making \cup Undoes
      BY <2>1, <2>2, <2>3 DEF Making
    <3> QED BY <2>1, <2>2, <3>2, <3>4, <3>5, <3>6, <3>7, MakingDoes
  <2>10. worker'[w].pc # "idle" /\ worker'[w].checkout = k
    BY <2>1, <2>2, <2>3
  <2>11. \A x \in Orders \ OrdersOf(k) :
           status'[x] = status[x] /\ pay'[x] = pay[x] /\ items'[x] = items[x] /\ claim'[x] = claim[x]
    BY <1>1, <2>4, <2>8
  <2> QED BY <1>1, <1>3, <2>2, <2>7, <2>9, <2>10, <2>11, CheckoutStays DEF k
<1> QED BY <1>4, <1>5, <1>6

\* What a checkout that has made all of its orders has to show
LEMMA MadeDoes ==
    ASSUME NEW w \in Workers, worker'[w].pc \in {"intent", "record"}
    PROVE  Tidy(worker[w])' /\ \A o : Whole(o)' => Doing(worker[w], o)'
BY DEF Tidy, Doing, Prepares, HalfMade, Takes, HasMade, RollingBack, Updates, Spares,
       Making, Undoes, RollsBack, Updating

LEMMA AttachCalm ==
    ASSUME OrderInv, CalmInv, NEW w \in Workers, TypeOK', Attach(w)
    PROVE  CalmInv'
<1> USE DEF storeVars, offer, keyVars
<1> DEFINE k == worker[w].checkout
<1> DEFINE left == worker[w].left
<1> DEFINE done == worker[w].done
<1> DEFINE o == worker[w].order
<1>1. /\ worker[w].pc = "attach" /\ UNCHANGED <<status, pay, claim, outcome, calm>>
      /\ items' = [items EXCEPT ![o] = ProductsOf(o)]
      /\ left = {} => Proceed(w, "intent")
      /\ left # {} => Goto(w, "create")
  BY DEF Attach, At
<1>2. worker[w].pc \in Making /\ worker[w].pc \in Making \cup Undoes
  BY <1>1 DEF Making
<1>3. /\ worker[w].pc \in CheckoutSteps /\ k \in Checkouts /\ outcome[k] # "new"
      /\ done \subseteq LinesOf(OrdersOf(k) \ left) /\ left \subseteq OrdersOf(k)
      /\ OrdersOf(k) \subseteq Orders /\ worker[w] \in Worker
  BY <1>2, MakerIs
<1>4. o \in OrdersOf(k) \ left
  BY <1>1 DEF CalmInv, Tidy
<1>5. items'[o] = ProductsOf(o) /\ \A x \in Orders : x # o => items'[x] = items[x]
  BY <1>1, <1>3, <1>4 DEF OrderInv, TypeOK
<1>6. ASSUME NEW x \in OrdersOf(k), Doing(worker[w], x)
      PROVE  /\ x \in left => Fresh(x)'
             /\ x \notin left =>
                   /\ status'[x] = "CONFIRMED" /\ Unpaid(x)' /\ Claims(x, done)
                   /\ LinesOf({x}) \subseteq done /\ items'[x] = ProductsOf(x)
  <2>1. /\ x \in left => Fresh(x)
        /\ x \notin left => status[x] = "CONFIRMED" /\ Unpaid(x) /\ Claims(x, done)
        /\ Takes(worker[w], x)
    BY <1>2, <1>6, HalfMadeIs
  <2>2. /\ x \notin left /\ x # o => LinesOf({x}) \subseteq done /\ items[x] = ProductsOf(x)
        /\ x = o => LinesOf({x}) \subseteq done
    BY <1>1, <2>1 DEF Takes, Making
  <2>3. x \notin left => items'[x] = ProductsOf(x)
    BY <1>3, <1>5, <2>2
  <2> QED BY <1>1, <2>1, <2>2, <2>3 DEF Fresh, Claims, Unpaid
<1>7. \A x \in Orders \ OrdersOf(k) :
        status'[x] = status[x] /\ pay'[x] = pay[x] /\ items'[x] = items[x] /\ claim'[x] = claim[x]
  BY <1>1, <1>4, <1>5
<1>8. CASE left = {}
  <2>1. /\ worker'[w].pc = "intent" /\ worker'[w].checkout = k
        /\ \A v \in Workers \ {w} : worker'[v] = worker[v]
    BY <1>1, <1>8, ProceedIs
  <2>2. ASSUME NEW x \in OrdersOf(k), Doing(worker[w], x) PROVE Whole(x)'
    <3>1. /\ status'[x] = "CONFIRMED" /\ Unpaid(x)' /\ Claims(x, done)
          /\ LinesOf({x}) \subseteq done /\ items'[x] = ProductsOf(x)
      BY <1>6, <1>8, <2>2
    <3>2. \A p \in Products : <<x, p>> \in done <=> <<x, p>> \in LinesOf({x})
      <4>1. ASSUME NEW p \in Products, <<x, p>> \in done PROVE <<x, p>> \in LinesOf({x})
        <5>1. Quantity[x][p] > 0
          BY <1>3, <4>1 DEF LinesOf
        <5>2. x \in Orders
          BY <1>3
        <5> QED BY <5>1, <5>2, LineIs
      <4> QED BY <3>1, <4>1
    <3>3. ClaimsAfter(x, LinesOf({x}))
      BY <1>1, <3>1, <3>2, KeepsClaims
    <3>4. LinesOf({x})' = LinesOf({x})
      BY DEF LinesOf, Lines
    <3>5. Claims(x, LinesOf({x}))'
      BY <3>3, <3>4 DEF Claims, ClaimsAfter
    <3> QED BY <3>1, <3>5 DEF Whole, Complete
  <2>3. Tidy(worker[w])' /\ \A x : Whole(x)' => Doing(worker[w], x)'
    BY <2>1, MadeDoes
  <2> HIDE DEF k
  <2> QED BY <1>1, <1>3, <1>7, <2>1, <2>2, <2>3, CheckoutStays DEF k
<1>9. CASE left # {}
  <2>1. /\ worker'[w].pc = "create" /\ worker'[w].checkout = k
        /\ worker'[w].done = done /\ worker'[w].left = left
        /\ \A v \in Workers \ {w} : worker'[v] = worker[v]
    BY <1>1, <1>9, GotoIs
  <2>2. Tidy(worker[w])'
    BY <1>3, <2>1 DEF Tidy, Making, Undoes, Updating, OrdersOf, LinesOf, Lines
  <2>3. ASSUME NEW x \in OrdersOf(k), Doing(worker[w], x) PROVE Doing(worker[w], x)'
    <3>1. /\ x \in left => Fresh(x)'
          /\ x \notin left =>
                /\ status'[x] = "CONFIRMED" /\ Unpaid(x)' /\ Claims(x, done)
                /\ LinesOf({x}) \subseteq done /\ items'[x] = ProductsOf(x)
      BY <1>6, <2>3
    <3> HIDE DEF left, done
    <3>2. x \notin left => ClaimsAfter(x, done)
      BY <1>1, <3>1 DEF Claims, ClaimsAfter
    <3>3. Takes(worker[w], x)'
      BY <2>1, <3>1 DEF Takes
    <3>4. worker'[w].pc \in Making \cup Undoes
      BY <2>1 DEF Making
    <3> QED BY <2>1, <3>1, <3>2, <3>3, <3>4, MakingDoes
  <2> HIDE DEF k
  <2> QED BY <1>1, <1>3, <1>7, <2>1, <2>2, <2>3, CheckoutStays DEF k
<1> QED BY <1>8, <1>9

\* An error of a store access within createOrder, and one at its end
LEMMA CreateFailsCalm ==
    ASSUME OrderInv, CalmInv, NEW w \in Workers, TypeOK', CreateFails(w) \/ PopulateFails(w)
    PROVE  CalmInv'
<1> USE DEF storeVars, offer, keyVars
<1>1. CASE CreateFails(w)
  <2>1. worker[w].pc \in Making
    BY <1>1 DEF CreateFails, Making
  <2> QED BY <1>1, <2>1, GivesUpCalm DEF CreateFails
<1>2. CASE PopulateFails(w)
  <2>1. worker[w].pc \in CheckoutSteps /\ UNCHANGED <<status, pay, items, claim>>
    BY <1>2 DEF PopulateFails, At, CheckoutSteps
  <2>2. calm' = calm \ OrdersOf(worker[w].checkout) /\ Refuse(w)
    BY <1>2 DEF PopulateFails
  <2> QED BY <2>1, <2>2, RefuseCalm
<1> QED BY <1>1, <1>2

LEMMA UndoCalm ==
    ASSUME OrderInv, CalmInv, AllOffered, NEW w \in Workers, TypeOK', Undo(w)
    PROVE  CalmInv'
<1> USE DEF storeVars, offer, keyVars
<1> DEFINE k == worker[w].checkout
<1> DEFINE left == worker[w].left
<1> DEFINE done == worker[w].done
<1>1. worker[w].pc = "undo" /\ UNCHANGED <<status, pay, items, outcome>>
  BY DEF Undo, At
<1>2. worker[w].pc \in Making \cup Undoes
  BY <1>1 DEF Undoes
<1>3. /\ worker[w].pc \in CheckoutSteps /\ k \in Checkouts /\ outcome[k] # "new"
      /\ done \subseteq LinesOf(OrdersOf(k) \ left) /\ left \subseteq OrdersOf(k)
      /\ OrdersOf(k) \subseteq Orders /\ worker[w] \in Worker
  BY <1>2, MakerIs
<1>4. PICK l \in done :
        /\ \/ PutBack(l) /\ UNCHANGED calm
           \/ calm' = calm \ {l[1]} /\ UNCHANGED claim
        /\ Set(w, [worker[w] EXCEPT !.done = @ \ {l},
                       !.pc = IF worker[w].done = {l} THEN "undo_items" ELSE "undo"])
  BY DEF Undo
<1> DEFINE step == IF done = {l} THEN "undo_items" ELSE "undo"
<1> DEFINE q == [worker[w] EXCEPT !.done = @ \ {l}, !.pc = step]
<1>5. q.pc = step /\ q.left = left /\ q.done = done \ {l} /\ q.checkout = k
  BY <1>3 DEF Worker
<1> HIDE DEF q
<1>6. worker'[w] = q /\ \A v \in Workers \ {w} : worker'[v] = worker[v]
  BY <1>4, SetIs DEF q
<1>7. step \in {"undo_items", "undo"} /\ (step = "undo_items" => done \ {l} = {})
  OBVIOUS
<1> HIDE DEF k, left, done, step
<1>8. l \in Lines /\ l[1] \in OrdersOf(k) \ left /\ l = <<l[1], l[2]>>
  BY <1>3, <1>4, LinesAre
<1>9. \A x \in Orders : x # l[1] => claim'[x] = claim[x]
  BY <1>4, <1>8, PutBackClaims DEF OrderInv
<1>10. Tidy(worker[w])'
  BY <1>3, <1>5, <1>6, <1>7 DEF Tidy, Making, Undoes, Updating, OrdersOf, LinesOf, Lines
<1>11. ASSUME NEW x \in calm', x \in OrdersOf(k), Doing(worker[w], x) PROVE Doing(worker[w], x)'
  <2>1. /\ x \in left => Fresh(x)
        /\ x \notin left => status[x] = "CONFIRMED" /\ Unpaid(x) /\ Claims(x, done)
    BY <1>2, <1>11, HalfMadeIs DEF left, done
  <2>2. x \in left => Fresh(x)'
    BY <1>1, <1>3, <1>8, <1>9, <2>1 DEF Fresh, Claims, Unpaid
  <2>3. x \notin left => status'[x] = "CONFIRMED" /\ Unpaid(x)'
    BY <1>1, <2>1 DEF Unpaid
  <2>4. x \notin left => ClaimsAfter(x, done \ {l})
    <3>1. CASE PutBack(l) /\ UNCHANGED calm
      <4>1. CASE l[1] = x
        <5>1. Offered(l[1])
          BY <1>11, <3>1, <4>1 DEF AllOffered
        <5>2. Move(l[1], l[2], 1)
          BY <1>8, <3>1, <5>1, PutBackClaims DEF OrderInv
        <5> QED BY <1>3, <1>4, <1>8, <1>11, <2>1, <5>2, PutsLine DEF OrderInv
      <4>2. CASE l[1] # x
        <5>1. \A p \in Products : <<x, p>> \in done <=> <<x, p>> \in done \ {l}
          BY <4>2
        <5> QED BY <1>3, <1>9, <1>11, <2>1, <4>2, <5>1, KeepsClaims
      <4> QED BY <4>1, <4>2
    <3>2. CASE calm' = calm \ {l[1]} /\ UNCHANGED claim
      <4>1. \A p \in Products : <<x, p>> \in done <=> <<x, p>> \in done \ {l}
        <5>1. \A p \in Products : <<x, p>> # l
          BY <1>8, <1>11, <3>2
        <5> QED BY <5>1
      <4> QED BY <2>1, <3>2, <4>1, KeepsClaims
    <3> QED BY <1>4, <3>1, <3>2
  <2>5. worker'[w].pc \in Making \cup Undoes /\ worker'[w].pc \notin Making
    BY <1>5, <1>6, <1>7 DEF Making, Undoes
  <2> QED BY <1>5, <1>6, <2>2, <2>3, <2>4, <2>5, MakingDoes
<1>12. worker'[w].pc # "idle" /\ worker'[w].checkout = k
  BY <1>5, <1>6, <1>7
<1>13. \A x \in Orders \ OrdersOf(k) :
         status'[x] = status[x] /\ pay'[x] = pay[x] /\ items'[x] = items[x] /\ claim'[x] = claim[x]
  BY <1>1, <1>8, <1>9
<1>14. calm' \subseteq calm
  BY <1>4
<1> QED BY <1>1, <1>3, <1>6, <1>10, <1>11, <1>12, <1>13, <1>14, CheckoutStays DEF k

LEMMA UndoRestCalm ==
    ASSUME OrderInv, CalmInv, NEW w \in Workers, TypeOK', UndoItems(w) \/ UndoOrders(w)
    PROVE  CalmInv'
<1> USE DEF storeVars, offer, keyVars
<1> DEFINE k == worker[w].checkout
<1> DEFINE left == worker[w].left
<1>1. worker[w].pc \in {"undo_items", "undo_orders"} /\ worker[w].pc \in Making \cup Undoes
  BY DEF UndoItems, UndoOrders, At, Undoes
<1>2. /\ worker[w].pc \in CheckoutSteps /\ k \in Checkouts /\ outcome[k] # "new"
      /\ left \subseteq OrdersOf(k) /\ OrdersOf(k) \subseteq Orders
  BY <1>1, MakerIs
<1>3. worker[w].done = {}
  BY <1>1 DEF CalmInv, Tidy
<1>4. ASSUME NEW x, Doing(worker[w], x)
      PROVE  /\ x \in left => Fresh(x)
             /\ x \notin left => status[x] = "CONFIRMED" /\ Unpaid(x) /\ Claims(x, {})
  BY <1>1, <1>3, <1>4, HalfMadeIs
<1>5. Made(w) = OrdersOf(k) \ left
  BY DEF Made
<1>6. CASE UndoItems(w)
  <2>1. /\ UNCHANGED <<status, pay, claim, outcome>> /\ calm' \subseteq calm
        /\ Goto(w, "undo_orders")
        /\ \A x \in Orders \ OrdersOf(k) : items'[x] = items[x]
    BY <1>5, <1>6 DEF UndoItems
  <2>2. /\ worker'[w].pc = "undo_orders" /\ worker'[w].checkout = k
        /\ worker'[w].done = {} /\ worker'[w].left = left
        /\ \A v \in Workers \ {w} : worker'[v] = worker[v]
    BY <1>3, <2>1, GotoIs
  <2>3. Tidy(worker[w])'
    BY <2>2 DEF Tidy, Making, Undoes, Updating
  <2>4. ASSUME NEW x, Doing(worker[w], x) PROVE Doing(worker[w], x)'
    <3>1. x \in left => Fresh(x)'
      BY <1>4, <2>1, <2>4 DEF Fresh, Claims, Unpaid
    <3>2. x \notin left => status'[x] = "CONFIRMED" /\ Unpaid(x)' /\ ClaimsAfter(x, {})
      BY <1>4, <2>1, <2>4 DEF Claims, ClaimsAfter, Unpaid
    <3>3. worker'[w].pc \in Making \cup Undoes /\ worker'[w].pc \notin Making
      BY <2>2 DEF Making, Undoes
    <3> HIDE DEF left
    <3> QED BY <2>2, <3>1, <3>2, <3>3, MakingDoes
  <2> HIDE DEF k, left
  <2> QED BY <1>2, <2>1, <2>2, <2>3, <2>4, CheckoutStays DEF k
<1>7. CASE UndoOrders(w)
  <2>1. UNCHANGED <<pay, items, claim>> /\ calm' \subseteq calm /\ Refuse(w)
    BY <1>7 DEF UndoOrders
  <2>2. \/ status' = [x \in Orders |-> IF x \in OrdersOf(k) \ left THEN "ABSENT" ELSE status[x]]
        \/ calm' = calm \ (OrdersOf(k) \ left) /\ UNCHANGED status
    BY <1>5, <1>7 DEF UndoOrders
  <2>3. \A x \in Orders \ OrdersOf(k) : status'[x] = status[x]
    BY <2>2
  <2>4. ASSUME NEW x \in calm', x \in OrdersOf(k), Doing(worker[w], x) PROVE Fresh(x)'
    <3>1. status'[x] = "ABSENT"
      <4>1. CASE x \in left
        BY <1>2, <1>4, <2>2, <2>4, <4>1 DEF Fresh
      <4>2. CASE x \notin left
        BY <1>2, <2>2, <2>4, <4>2
      <4> QED BY <4>1, <4>2
    <3>2. Claims(x, {}) /\ Unpaid(x)
      BY <1>4, <2>4 DEF Fresh
    <3> QED BY <2>1, <3>1, <3>2 DEF Fresh, Claims, Unpaid
  <2> HIDE DEF k, left
  <2> QED BY <1>2, <2>1, <2>3, <2>4, RefuseCalm DEF k
<1> QED BY <1>6, <1>7

-----------------------------------------------------------------------------
(* initializeCheckout and rollbackOrders *)

LEMMA LaterIs ==
    ASSUME OrderInv, NEW w \in Workers, worker[w].pc \in {"intent", "record"} \cup RollsBack
    PROVE  /\ worker[w].pc \in CheckoutSteps
           /\ worker[w].checkout \in Checkouts /\ outcome[worker[w].checkout] # "new"
           /\ worker[w].left \subseteq OrdersOf(worker[w].checkout)
           /\ OrdersOf(worker[w].checkout) \subseteq Orders
           /\ worker[w] \in Worker
<1>1. worker[w].pc \in CheckoutSteps
  BY DEF RollsBack, CheckoutSteps
<1>2. worker[w].checkout \in Checkouts /\ outcome[worker[w].checkout] # "new"
  BY <1>1, ScopeIs
<1>3. worker[w].left \subseteq OrdersOf(worker[w].checkout) /\ worker[w] \in Worker
  BY DEF OrderInv, Knows, TypeOK
<1> QED BY <1>1, <1>2, <1>3 DEF OrdersOf

LEMMA RollingDoes ==
    ASSUME NEW w \in Workers, worker'[w].pc \in RollsBack, NEW o,
           RollingBack(worker[w], o)'
    PROVE  Doing(worker[w], o)'
BY DEF Doing, Prepares, HalfMade, Takes, HasMade, Updates, Spares, Making, Undoes, RollsBack, Updating

LEMMA OneStays ==
    ASSUME NEW o, status'[o] = status[o], pay'[o] = pay[o], items'[o] = items[o], claim'[o] = claim[o]
    PROVE  (Whole(o) => Whole(o)') /\ (RolledBack(o) => RolledBack(o)')
<1>1. LinesOf({o})' = LinesOf({o})
  BY DEF LinesOf, Lines
<1>2. \A lines : Claims(o, lines) => ClaimsAfter(o, lines)
  BY DEF Claims, ClaimsAfter
<1>3. ClaimsAfter(o, LinesOf({o})) => Claims(o, LinesOf({o}))'
  BY <1>1 DEF Claims, ClaimsAfter
<1>4. ClaimsAfter(o, {}) => Claims(o, {})'
  BY DEF Claims, ClaimsAfter
<1>5. Whole(o) => Whole(o)'
  BY <1>2, <1>3 DEF Whole, Complete, Unpaid
<1>6. RolledBack(o) => RolledBack(o)'
  BY <1>2, <1>4 DEF RolledBack, Unpaid
<1> QED BY <1>5, <1>6

LEMMA WholeStays ==
    ASSUME NEW o, UNCHANGED <<status, pay, items, claim>>
    PROVE  (Whole(o) => Whole(o)') /\ (RolledBack(o) => RolledBack(o)')
BY OneStays

LEMMA IntentCalm ==
    ASSUME OrderInv, CalmInv, NEW w \in Workers, TypeOK', CreateIntent(w)
    PROVE  CalmInv'
<1> USE DEF storeVars, offer, keyVars
<1> DEFINE k == worker[w].checkout
<1>1. worker[w].pc = "intent" /\ UNCHANGED <<status, pay, items, claim, outcome, calm>>
  BY DEF CreateIntent, At
<1>2. /\ worker[w].pc \in CheckoutSteps /\ k \in Checkouts /\ outcome[k] # "new"
      /\ worker[w] \in Worker
  BY <1>1, LaterIs
<1>3. \A o : Doing(worker[w], o) => Whole(o)'
  BY <1>1, WholeStays DEF Doing, HasMade
<1>4. CASE Goto(w, "record")
  <2>1. /\ worker'[w].pc = "record" /\ worker'[w].checkout = k
        /\ \A v \in Workers \ {w} : worker'[v] = worker[v]
    BY <1>4, GotoIs
  <2>2. Tidy(worker[w])' /\ \A o : Whole(o)' => Doing(worker[w], o)'
    BY <2>1, MadeDoes
  <2> HIDE DEF k
  <2> QED BY <1>1, <1>2, <1>3, <2>1, <2>2, CheckoutStays DEF k
<1>5. CASE RollBack(w)
  <2> DEFINE q == [worker[w] EXCEPT !.pc = "roll", !.left = OrdersOf(k)]
  <2>1. q.pc = "roll" /\ q.left = OrdersOf(k) /\ q.checkout = k
    BY <1>2 DEF Worker
  <2>2. Set(w, q)
    BY <1>5 DEF RollBack
  <2> HIDE DEF q, k
  <2>3. worker'[w] = q /\ \A v \in Workers \ {w} : worker'[v] = worker[v]
    BY <2>2, SetIs
  <2>4. Tidy(worker[w])'
    BY <2>1, <2>3 DEF Tidy, Making, Undoes, Updating
  <2>5. ASSUME NEW o \in OrdersOf(k), Doing(worker[w], o) PROVE Doing(worker[w], o)'
    <3>1. RollingBack(worker[w], o)'
      BY <1>3, <2>1, <2>3, <2>5 DEF RollingBack
    <3> QED BY <2>1, <2>3, <3>1, RollingDoes DEF RollsBack
  <2>6. worker'[w].pc # "idle" /\ worker'[w].checkout = k
    BY <2>1, <2>3
  <2> QED BY <1>1, <1>2, <2>3, <2>4, <2>5, <2>6, CheckoutStays DEF k
<1> QED BY <1>4, <1>5 DEF CreateIntent

\* The rollback goes on with the next order or ends.
LEMMA NextOrderCalm ==
    ASSUME OrderInv, CalmInv, NEW w \in Workers, TypeOK', worker[w].pc \in RollsBack, NEW left,
           NextOrder(w, left), calm' \subseteq calm,
           \A o \in Orders \ OrdersOf(worker[w].checkout) :
               status'[o] = status[o] /\ pay'[o] = pay[o] /\ items'[o] = items[o] /\ claim'[o] = claim[o],
           \A o \in calm' : o \in OrdersOf(worker[w].checkout) /\ Doing(worker[w], o) =>
               /\ o \in left => Whole(o)'
               /\ o \notin left => RolledBack(o)'
    PROVE  CalmInv'
<1> DEFINE k == worker[w].checkout
<1>1. worker[w].pc \in CheckoutSteps /\ k \in Checkouts /\ outcome[k] # "new"
  BY LaterIs
<1>2. CASE left = {}
  BY <1>1, <1>2, RefuseCalm DEF NextOrder
<1>3. CASE left # {}
  <2> DEFINE q == [Idle EXCEPT !.pc = "roll", !.checkout = k, !.left = left]
  <2>1. q.pc = "roll" /\ q.checkout = k /\ q.left = left
    BY DEF Idle
  <2>2. Set(w, q) /\ UNCHANGED outcome
    BY <1>3 DEF NextOrder
  <2> HIDE DEF q, k
  <2>3. worker'[w] = q /\ \A v \in Workers \ {w} : worker'[v] = worker[v]
    BY <2>2, SetIs
  <2>4. Tidy(worker[w])'
    BY <2>1, <2>3 DEF Tidy, Making, Undoes, Updating
  <2>5. ASSUME NEW o \in calm', o \in OrdersOf(k), Doing(worker[w], o) PROVE Doing(worker[w], o)'
    <3>1. (o \in left => Whole(o)') /\ (o \notin left => RolledBack(o)')
      BY <2>5 DEF k
    <3>2. RollingBack(worker[w], o)'
      BY <2>1, <2>3, <3>1 DEF RollingBack
    <3> QED BY <2>1, <2>3, <3>2, RollingDoes DEF RollsBack
  <2>6. worker'[w].pc # "idle" /\ worker'[w].checkout = k
    BY <2>1, <2>3
  <2> QED BY <1>1, <2>2, <2>3, <2>4, <2>5, <2>6, CheckoutStays DEF k
<1> QED BY <1>2, <1>3

LEMMA RollCalm ==
    ASSUME OrderInv, CalmInv, NEW w \in Workers, TypeOK', Roll(w)
    PROVE  CalmInv'
<1> USE DEF storeVars, offer, keyVars
<1> DEFINE k == worker[w].checkout
<1> DEFINE left == worker[w].left
<1>1. worker[w].pc = "roll" /\ UNCHANGED <<status, pay, items, claim, calm>>
  BY DEF Roll, At
<1>2. worker[w].pc \in RollsBack
  BY <1>1 DEF RollsBack
<1>3. /\ worker[w].pc \in CheckoutSteps /\ k \in Checkouts /\ outcome[k] # "new"
      /\ left \subseteq OrdersOf(k) /\ OrdersOf(k) \subseteq Orders /\ worker[w] \in Worker
  BY <1>2, LaterIs
<1>4. ASSUME NEW o, Doing(worker[w], o)
      PROVE  (o \in left => Whole(o)) /\ (o \notin left => RolledBack(o))
  BY <1>1, <1>2, <1>4 DEF Doing, RollingBack
<1>5. PICK o \in left :
        \/ ~Exists(o) /\ NextOrder(w, left \ {o})
        \/ /\ Set(w, [worker[w] EXCEPT !.left = @ \ {o}, !.order = o, !.todo = {o} \X items[o],
                             !.target = Written(o, "CANCELLED"),
                             !.pc = IF items[o] = {} THEN "roll_save" ELSE "roll_put"])
           /\ UNCHANGED outcome
  BY DEF Roll
<1>6. ASSUME ~Exists(o), NextOrder(w, left \ {o}) PROVE CalmInv'
  <2>1. ASSUME NEW x, Doing(worker[w], x)
        PROVE  (x \in left \ {o} => Whole(x)') /\ (x \notin left \ {o} => RolledBack(x)')
    <3>1. x # o
      BY <1>4, <1>5, <1>6, <2>1 DEF Whole, Complete, Exists
    <3> QED BY <1>1, <1>4, <2>1, <3>1, WholeStays
  <2> HIDE DEF left
  <2> QED BY <1>1, <1>2, <1>6, <2>1, NextOrderCalm
<1>7. ASSUME UNCHANGED outcome,
             Set(w, [worker[w] EXCEPT !.left = @ \ {o}, !.order = o, !.todo = {o} \X items[o],
                             !.target = Written(o, "CANCELLED"),
                             !.pc = IF items[o] = {} THEN "roll_save" ELSE "roll_put"])
      PROVE  CalmInv'
  <2> DEFINE step == IF items[o] = {} THEN "roll_save" ELSE "roll_put"
  <2> DEFINE lines == {o} \X items[o]
  <2> DEFINE q == [worker[w] EXCEPT !.left = @ \ {o}, !.order = o, !.todo = lines,
                       !.target = Written(o, "CANCELLED"), !.pc = step]
  <2>1. /\ q.pc = step /\ q.order = o /\ q.todo = lines /\ q.left = left \ {o}
        /\ q.target = Written(o, "CANCELLED") /\ q.checkout = k
    BY <1>3 DEF Worker
  <2> HIDE DEF q
  <2>2. worker'[w] = q /\ \A v \in Workers \ {w} : worker'[v] = worker[v]
    BY <1>7, SetIs DEF q
  <2>3. step \in {"roll_save", "roll_put"} /\ (step = "roll_save" => lines = {})
    OBVIOUS
  <2>4. o \in Orders /\ items[o] \subseteq Products
    BY <1>3, <1>5 DEF OrderInv, TypeOK
  <2>5. lines \subseteq {o} \X Products
    BY <2>4
  <2> HIDE DEF k, left, step, lines
  <2>6. Tidy(worker[w])'
    BY <1>3, <1>5, <2>1, <2>2, <2>3, <2>5 DEF Tidy, Making, Undoes, Updating, OrdersOf
  <2>7. ASSUME NEW x \in OrdersOf(k), Doing(worker[w], x) PROVE Doing(worker[w], x)'
    <3>1. (x \in left => Whole(x)') /\ (x \notin left => RolledBack(x)')
      BY <1>1, <1>4, <2>7, WholeStays
    <3>2. x = o => Complete(o)' /\ Written(o, "CANCELLED") = "CANCELLED"
      BY <1>1, <1>5, <3>1 DEF Whole, Complete, Written
    <3>3. x = o => ClaimsAfter(o, lines)
      <4>1. SUFFICES ASSUME x = o PROVE ClaimsAfter(o, lines)
        OBVIOUS
      <4>2. Whole(o)
        BY <1>4, <1>5, <2>7, <4>1
      <4>3. \A p \in Products : <<o, p>> \in LinesOf({o}) <=> <<o, p>> \in lines
        BY <2>4, <4>2, LineIs DEF Whole, Complete, ProductsOf, lines
      <4> QED BY <1>1, <4>2, <4>3, KeepsClaims DEF Whole
    <3>4. RollingBack(worker[w], x)'
      BY <1>5, <2>1, <2>2, <2>3, <3>1, <3>2, <3>3 DEF RollingBack, Claims, ClaimsAfter
    <3> QED BY <2>1, <2>2, <2>3, <3>4, RollingDoes DEF RollsBack
  <2>8. worker'[w].pc # "idle" /\ worker'[w].checkout = k
    BY <2>1, <2>2, <2>3
  <2> QED BY <1>1, <1>3, <1>7, <2>2, <2>6, <2>7, <2>8, CheckoutStays DEF k
<1> QED BY <1>5, <1>6, <1>7

LEMMA RollPutCalm ==
    ASSUME OrderInv, CalmInv, AllOffered, NEW w \in Workers, TypeOK', RollPut(w)
    PROVE  CalmInv'
<1> USE DEF storeVars, offer, keyVars
<1> DEFINE k == worker[w].checkout
<1> DEFINE left == worker[w].left
<1> DEFINE todo == worker[w].todo
<1> DEFINE o == worker[w].order
<1> DEFINE target == worker[w].target
<1>1. worker[w].pc = "roll_put" /\ UNCHANGED <<status, pay, items, outcome, calm>>
  BY DEF RollPut, At
<1>2. worker[w].pc \in RollsBack
  BY <1>1 DEF RollsBack
<1>3. /\ worker[w].pc \in CheckoutSteps /\ k \in Checkouts /\ outcome[k] # "new"
      /\ left \subseteq OrdersOf(k) /\ OrdersOf(k) \subseteq Orders /\ worker[w] \in Worker
  BY <1>2, LaterIs
<1>4. o \in OrdersOf(k) \ left /\ todo \subseteq {o} \X Products
  BY <1>1 DEF CalmInv, Tidy
<1>5. PICK l \in todo :
        /\ PutBack(l)
        /\ Set(w, [worker[w] EXCEPT !.todo = @ \ {l},
                       !.pc = IF worker[w].todo = {l} THEN "roll_save" ELSE "roll_put"])
  BY DEF RollPut
<1> DEFINE step == IF todo = {l} THEN "roll_save" ELSE "roll_put"
<1> DEFINE q == [worker[w] EXCEPT !.todo = @ \ {l}, !.pc = step]
<1>6. /\ q.pc = step /\ q.left = left /\ q.todo = todo \ {l} /\ q.checkout = k /\ q.order = o
      /\ q.target = target
  BY <1>3 DEF Worker
<1> HIDE DEF q
<1>7. worker'[w] = q /\ \A v \in Workers \ {w} : worker'[v] = worker[v]
  BY <1>5, SetIs DEF q
<1>8. step \in {"roll_save", "roll_put"} /\ (step = "roll_save" => todo \ {l} = {})
  OBVIOUS
<1>9. ASSUME NEW x, Doing(worker[w], x)
      PROVE  /\ x \in left => Whole(x)
             /\ x \notin left /\ x # o => RolledBack(x)
             /\ x = o => Complete(o) /\ Claims(o, todo) /\ target = "CANCELLED"
  BY <1>1, <1>2, <1>4, <1>9 DEF Doing, RollingBack
<1> HIDE DEF k, left, todo, o, step, target
<1>10. l \in Lines /\ l[1] = o
  BY <1>3, <1>4, <1>5 DEF Lines
<1>11. \A x \in Orders : x # o => claim'[x] = claim[x]
  BY <1>5, <1>10, PutBackClaims DEF OrderInv
<1>12. Tidy(worker[w])'
  BY <1>3, <1>4, <1>6, <1>7, <1>8 DEF Tidy, Making, Undoes, Updating, OrdersOf
<1>13. ASSUME NEW x \in calm', x \in OrdersOf(k), Doing(worker[w], x) PROVE Doing(worker[w], x)'
  <2>1. x # o => claim'[x] = claim[x]
    BY <1>3, <1>11, <1>13
  <2>2. x # o => (Whole(x) => Whole(x)') /\ (RolledBack(x) => RolledBack(x)')
    BY <1>1, <2>1, OneStays
  <2>3. x \in left => Whole(x)'
    BY <1>4, <1>9, <1>13, <2>2
  <2>4. x \notin left /\ x # o => RolledBack(x)'
    BY <1>9, <1>13, <2>2
  <2>5. x = o => Complete(x)' /\ target = "CANCELLED"
    BY <1>1, <1>9, <1>13 DEF Complete, Unpaid
  <2>6. x = o => ClaimsAfter(o, todo \ {l})
    <3>1. x = o => Move(l[1], l[2], 1)
      BY <1>1, <1>5, <1>10, <1>13, PutBackClaims DEF OrderInv, AllOffered
    <3> QED BY <1>3, <1>5, <1>9, <1>10, <1>13, <3>1, PutsLine DEF OrderInv
  <2>7. RollingBack(worker[w], x)'
    <3>1. x = o => Claims(x, worker[w].todo)'
      BY <1>6, <1>7, <2>6 DEF Claims, ClaimsAfter
    <3> QED BY <1>4, <1>6, <1>7, <1>8, <2>3, <2>4, <2>5, <3>1 DEF RollingBack
  <2> QED BY <1>6, <1>7, <1>8, <2>7, RollingDoes DEF RollsBack
<1>14. worker'[w].pc # "idle" /\ worker'[w].checkout = k
  BY <1>6, <1>7, <1>8
<1>15. \A x \in Orders \ OrdersOf(k) :
         status'[x] = status[x] /\ pay'[x] = pay[x] /\ items'[x] = items[x] /\ claim'[x] = claim[x]
  BY <1>1, <1>4, <1>11
<1> QED BY <1>1, <1>3, <1>7, <1>12, <1>13, <1>14, <1>15, CheckoutStays DEF k

LEMMA RollEndsCalm ==
    ASSUME OrderInv, CalmInv, NEW w \in Workers, TypeOK', RollSave(w) \/ RollFails(w)
    PROVE  CalmInv'
<1> USE DEF storeVars, offer, keyVars
<1> DEFINE k == worker[w].checkout
<1> DEFINE left == worker[w].left
<1> DEFINE o == worker[w].order
<1>1. worker[w].pc \in {"roll_put", "roll_save"} /\ worker[w].pc \in RollsBack /\ NextOrder(w, left)
  BY DEF RollSave, RollFails, At, RollsBack
<1>2. o \in OrdersOf(k) \ left /\ OrdersOf(k) \subseteq Orders
  BY <1>1 DEF CalmInv, Tidy, OrdersOf
<1>3. ASSUME NEW x, Doing(worker[w], x)
      PROVE  /\ x \in left => Whole(x)
             /\ x \notin left /\ x # o => RolledBack(x)
             /\ x = o => Complete(o) /\ Claims(o, worker[w].todo) /\ worker[w].target = "CANCELLED"
  BY <1>1, <1>2, <1>3 DEF Doing, RollingBack
<1>4. CASE RollFails(w)
  <2>1. UNCHANGED <<status, pay, items, claim>> /\ calm' = calm \ {o}
    BY <1>4 DEF RollFails
  <2>2. ASSUME NEW x \in calm', Doing(worker[w], x)
        PROVE  (x \in left => Whole(x)') /\ (x \notin left => RolledBack(x)')
    BY <1>3, <2>1, <2>2, WholeStays
  <2> HIDE DEF left
  <2> QED BY <1>1, <2>1, <2>2, NextOrderCalm
<1>5. CASE RollSave(w)
  <2>1. worker[w].pc = "roll_save" /\ UNCHANGED <<items, claim, calm>>
        /\ (Exists(o) => Write(o, worker[w].target) /\ pay' = [pay EXCEPT ![o] = "FAILED"])
        /\ (~Exists(o) => UNCHANGED <<status, pay>>)
    BY <1>5 DEF RollSave, At
  <2>2. worker[w].todo = {}
    BY <2>1 DEF CalmInv, Tidy
  <2>3. \A x \in Orders : x # o => status'[x] = status[x] /\ pay'[x] = pay[x]
    BY <2>1 DEF Write, OrderInv, TypeOK
  <2>4. ASSUME NEW x \in OrdersOf(k), Doing(worker[w], x)
        PROVE  (x \in left => Whole(x)') /\ (x \notin left => RolledBack(x)')
    <3>1. CASE x # o
      <4>1. (Whole(x) => Whole(x)') /\ (RolledBack(x) => RolledBack(x)')
        BY <1>2, <2>1, <2>3, <3>1, OneStays
      <4> QED BY <1>3, <2>4, <3>1, <4>1
    <3>2. CASE x = o
      <4>1. Complete(o) /\ Claims(o, {}) /\ worker[w].target = "CANCELLED"
        BY <1>3, <2>2, <2>4, <3>2
      <4>2. Write(o, "CANCELLED") /\ pay' = [pay EXCEPT ![o] = "FAILED"]
        BY <2>1, <4>1 DEF Complete, Exists
      <4>3. status'[o] = "CANCELLED" /\ pay'[o] = "FAILED"
        BY <1>2, <4>2 DEF Write, OrderInv, TypeOK
      <4> QED BY <1>2, <2>1, <3>2, <4>1, <4>3 DEF Complete, RolledBack, Claims, Unpaid
    <3> QED BY <3>1, <3>2
  <2>5. \A x \in Orders \ OrdersOf(k) :
          status'[x] = status[x] /\ pay'[x] = pay[x] /\ items'[x] = items[x] /\ claim'[x] = claim[x]
    BY <1>2, <2>1, <2>3
  <2> HIDE DEF left, k
  <2> QED BY <1>1, <2>1, <2>4, <2>5, NextOrderCalm DEF k
<1> QED BY <1>4, <1>5

LEMMA RecordCalm ==
    ASSUME OrderInv, CalmInv, NEW w \in Workers, TypeOK', Record(w)
    PROVE  CalmInv'
<1> USE DEF storeVars, offer, keyVars
<1> DEFINE k == worker[w].checkout
<1>1. worker[w].pc = "record" /\ UNCHANGED <<status, pay, items, claim, calm>> /\ Goto(w, "unlock")
      /\ outcome' = [outcome EXCEPT ![k] = "placed"]
  BY DEF Record, At
<1>2. worker[w].pc \in CheckoutSteps /\ k \in Checkouts
  BY <1>1, LaterIs
<1>3. outcome'[k] = "placed" /\ \A j \in Checkouts \ {k} : outcome'[j] = outcome[j]
  BY <1>1, <1>2 DEF OrderInv, TypeOK
<1>4. /\ worker'[w].pc = "unlock" /\ worker'[w].checkout = k
      /\ \A v \in Workers \ {w} : worker'[v] = worker[v]
  BY <1>1, GotoIs
<1>5. ASSUME NEW o \in OrdersOf(k), Doing(worker[w], o) PROVE Settled(o)'
  <2>1. Whole(o)'
    BY <1>1, <1>5, WholeStays DEF Doing, HasMade
  <2>2. Live(o)' /\ Exists(o)'
    BY <2>1 DEF Whole, Complete, Live, Exists, Restocked
  <2>3. outcome'[CheckoutOf[o]] = "placed"
    BY <1>3 DEF OrdersOf
  <2> QED BY <2>1, <2>2, <2>3 DEF Settled, Whole, Complete
<1>6. Tidy(worker[w])' /\ \A o : Settled(o)' => Doing(worker[w], o)'
  BY <1>4, UnlocksCalm
<1> HIDE DEF k
<1> QED BY <1>1, <1>2, <1>3, <1>4, <1>5, <1>6, CheckoutStays DEF k

-----------------------------------------------------------------------------
(* Taking orders up, leaving them, and the status of one order *)

LEMMA LeavesCalm ==
    ASSUME OrderInv, CalmInv, NEW w \in Workers, TypeOK', Finish(w),
           calm' \subseteq calm, UNCHANGED outcome,
           \A o \in Orders : o \in Scope(w) \/ Same(o),
           \A o \in calm' : o \in Scope(w) /\ Doing(worker[w], o) => Settled(o)'
    PROVE  CalmInv'
<1>1. worker'[w] = Idle /\ \A v \in Workers \ {w} : worker'[v] = worker[v]
  BY SetIs DEF Finish
<1>2. worker'[w].pc = "idle"
  BY <1>1 DEF Idle
<1>3. Scope(w)' = {}
  BY <1>2 DEF Scope
<1>4. Tidy(worker[w])'
  BY <1>2 DEF Tidy, Making, Undoes, Updating
<1>5. \A o \in calm' : o \in Scope(w) => Settled(o)'
  BY DEF CalmInv
<1> QED BY <1>1, <1>3, <1>4, <1>5, CalmKeeps

LEMMA UnlockCalm ==
    ASSUME OrderInv, CalmInv, NEW w \in Workers, TypeOK', Unlock(w) \/ UpdateFails(w) \/ Crash(w)
    PROVE  CalmInv'
<1> USE DEF storeVars, offer, keyVars
<1>1. Finish(w) /\ UNCHANGED <<status, pay, items, claim, outcome>> /\ calm' \subseteq calm
  BY DEF Unlock, UpdateFails, Crash
<1>2. \A o : Same(o)
  BY <1>1 DEF Same
<1>3. ASSUME NEW o \in calm', o \in Scope(w), Doing(worker[w], o) PROVE Settled(o)'
  <2>1. CASE Unlock(w)
    BY <1>2, <1>3, <2>1, SameStays DEF Unlock, At, Doing, Spares
  <2>2. CASE UpdateFails(w)
    <3>1. worker[w].pc \in Updating /\ calm' = calm \ {worker[w].order}
      BY <2>2 DEF UpdateFails, Updating
    <3> QED BY <1>3, <3>1, ScopeIs
  <2>3. CASE Crash(w)
    BY <1>3, <2>3 DEF Crash
  <2> QED BY <2>1, <2>2, <2>3
<1> QED BY <1>1, <1>2, <1>3, LeavesCalm

LEMMA SaveCalm ==
    ASSUME OrderInv, CalmInv, NEW w \in Workers, TypeOK', Save(w)
    PROVE  CalmInv'
<1> USE DEF storeVars, offer, keyVars
<1> DEFINE o == worker[w].order
<1> DEFINE target == worker[w].target
<1>1. /\ worker[w].pc = "save" /\ Finish(w) /\ UNCHANGED <<pay, items, claim, outcome, calm>>
      /\ Exists(o) => Write(o, target)
      /\ ~Exists(o) => UNCHANGED status
  BY DEF Save, At
<1>2. worker[w].pc \in Updating
  BY <1>1 DEF Updating
<1>3. Scope(w) = {o} /\ o \in Orders
  BY <1>2, ScopeIs
<1>4. target \in OrderStatuses /\ worker[w].todo = {}
  BY <1>1, <1>2 DEF CalmInv, Tidy
<1>5. target # "ABSENT"
  BY <1>4 DEF OrderStatuses
<1>6. (Exists(o) => status'[o] = target) /\ \A x \in Orders : x # o => status'[x] = status[x]
  BY <1>1, <1>3, <1>5 DEF Write, OrderInv, TypeOK
<1>7. \A x \in Orders : x \in Scope(w) \/ Same(x)
  BY <1>1, <1>3, <1>6 DEF Same
<1>8. ASSUME NEW x \in Scope(w), Doing(worker[w], x) PROVE Settled(x)'
  <2>1. x = o
    BY <1>3, <1>8
  <2>2. /\ Exists(x) /\ items[x] = ProductsOf(x)
        /\ Claims(x, IF target \in Restocked THEN {} ELSE LinesOf({x}))
        /\ outcome[CheckoutOf[x]] = "refused" => target \in Restocked /\ Unpaid(x)
    BY <1>2, <1>4, <1>8 DEF Doing, Updates
  <2>3. Exists(x)' /\ (Live(x)' <=> target \notin Restocked) /\ (Unpaid(x)' <=> Unpaid(x))
    BY <1>1, <1>5, <1>6, <2>1, <2>2 DEF Exists, Live, Unpaid
  <2>4. LinesOf({x})' = LinesOf({x})
    BY DEF LinesOf, Lines
  <2>5. Claims(x, IF Live(x) THEN LinesOf({x}) ELSE {})'
    BY <1>1, <2>2, <2>3, <2>4 DEF Claims
  <2> QED BY <1>1, <2>2, <2>3, <2>5 DEF Settled
<1> QED BY <1>1, <1>7, <1>8, LeavesCalm

LEMMA ConfirmCalm ==
    ASSUME OrderInv, CalmInv, NEW w \in Workers, TypeOK', Confirm(w)
    PROVE  CalmInv'
<1> USE DEF storeVars, offer, keyVars
<1> DEFINE o == worker[w].order
<1> DEFINE target == worker[w].target
<1>1. /\ worker[w].pc = "capture" /\ Finish(w) /\ UNCHANGED <<items, claim, outcome>>
      /\ calm' \subseteq calm /\ (Exists(o) /\ status[o] \in Restocked => o \notin calm')
      /\ Exists(o) => Write(o, target) /\ pay' = [pay EXCEPT ![o] = "CAPTURED"]
      /\ ~Exists(o) => UNCHANGED <<pay, status>>
  BY DEF Confirm, At
<1>2. Scope(w) = {o} /\ o \in Orders
  BY <1>1, ScopeIs
<1>3. target \in {"CONFIRMED", "ABSENT"}
  BY <1>1 DEF OrderInv, Knows
<1>4. /\ Exists(o) => status'[o] = status[o] \/ status'[o] = "CONFIRMED"
      /\ \A x \in Orders : x # o => status'[x] = status[x] /\ pay'[x] = pay[x]
  BY <1>1, <1>2, <1>3 DEF Write, OrderInv, TypeOK
<1>5. \A x \in Orders : x \in Scope(w) \/ Same(x)
  BY <1>1, <1>2, <1>4 DEF Same
<1>6. ASSUME NEW x \in calm', x \in Scope(w), Doing(worker[w], x) PROVE Settled(x)'
  <2>1. x = o
    BY <1>2, <1>6
  <2>2. Settled(x)
    BY <1>1, <1>6 DEF Doing, Spares
  <2>3. CASE Exists(x)
    <3>1. Live(x) /\ Live(x)' /\ Exists(x)'
      BY <1>1, <1>4, <1>6, <2>1, <2>3 DEF Exists, Live, Restocked
    <3>2. LinesOf({x})' = LinesOf({x})
      BY DEF LinesOf, Lines
    <3>3. Claims(x, IF Live(x) THEN LinesOf({x}) ELSE {})'
      BY <1>1, <2>2, <3>1, <3>2 DEF Claims, Settled
    <3> QED BY <1>1, <2>2, <2>3, <3>1, <3>3 DEF Settled
  <2>4. CASE ~Exists(x)
    <3>1. Same(x)
      BY <1>1, <2>1, <2>4 DEF Same
    <3> QED BY <2>2, <3>1, SameStays
  <2> QED BY <2>3, <2>4
<1> QED BY <1>1, <1>5, <1>6, LeavesCalm

\* A worker that takes up, or stays with, the status of one order
LEMMA UpdatingDoes ==
    ASSUME NEW w \in Workers, worker'[w].pc \in Updating, NEW o, Updates(worker[w], o)'
    PROVE  Doing(worker[w], o)'
BY DEF Doing, Prepares, HalfMade, Takes, HasMade, RollingBack, Spares, Making, Undoes, RollsBack, Updating

LEMMA PutCalm ==
    ASSUME OrderInv, CalmInv, AllOffered, NEW w \in Workers, TypeOK', Put(w)
    PROVE  CalmInv'
<1> USE DEF storeVars, offer, keyVars
<1> DEFINE o == worker[w].order
<1> DEFINE todo == worker[w].todo
<1> DEFINE target == worker[w].target
<1>1. worker[w].pc = "put" /\ UNCHANGED <<status, pay, items, outcome, calm>>
  BY DEF Put, At
<1>2. worker[w].pc \in Updating
  BY <1>1 DEF Updating
<1>3. Scope(w) = {o} /\ o \in Orders /\ worker[w].checkout = Nobody /\ worker[w] \in Worker
  BY <1>1, <1>2, ScopeIs DEF OrderInv, Knows, CheckoutSteps, TypeOK
<1>4. /\ todo \subseteq {o} \X Products /\ target \in Restocked /\ target \in OrderStatuses
      /\ outcome[CheckoutOf[o]] # "new"
  BY <1>1, <1>2 DEF CalmInv, Tidy
<1>5. PICK l \in todo :
        /\ PutBack(l)
        /\ Set(w, [worker[w] EXCEPT !.todo = @ \ {l},
                       !.pc = IF worker[w].todo = {l} THEN "save" ELSE "put"])
  BY DEF Put
<1> DEFINE step == IF todo = {l} THEN "save" ELSE "put"
<1> DEFINE q == [worker[w] EXCEPT !.todo = @ \ {l}, !.pc = step]
<1>6. q.pc = step /\ q.todo = todo \ {l} /\ q.checkout = Nobody /\ q.order = o /\ q.target = target
  BY <1>3 DEF Worker
<1> HIDE DEF q
<1>7. worker'[w] = q /\ \A v \in Workers \ {w} : worker'[v] = worker[v]
  BY <1>5, SetIs DEF q
<1>8. step \in {"save", "put"} /\ (step = "save" => todo \ {l} = {})
  OBVIOUS
<1> HIDE DEF o, todo, target, step
<1>9. l \in Lines /\ l[1] = o
  BY <1>3, <1>4, <1>5 DEF Lines
<1>10. \A x \in Orders : x # o => claim'[x] = claim[x]
  BY <1>5, <1>9, PutBackClaims DEF OrderInv
<1>11. Scope(w)' = {o}
  BY <1>3, <1>6, <1>7, <1>8 DEF Scope
<1>12. Tidy(worker[w])'
  BY <1>1, <1>4, <1>6, <1>7, <1>8 DEF Tidy, Making, Undoes, Updating
<1>13. \A x \in Orders : x \in Scope(w) \/ Same(x)
  BY <1>1, <1>3, <1>10 DEF Same
<1>14. ASSUME NEW x \in calm', x \in Scope(w)' PROVE Doing(worker[w], x)'
  <2>1. x = o /\ Doing(worker[w], x)
    BY <1>1, <1>3, <1>11, <1>14 DEF CalmInv
  <2>2. /\ Exists(x) /\ items[x] = ProductsOf(x) /\ status[x] # "CANCELLED"
        /\ Claims(x, todo)
        /\ outcome[CheckoutOf[x]] = "refused" => Unpaid(x)
    BY <1>2, <1>4, <2>1 DEF Doing, Updates, target, todo
  <2>3. ClaimsAfter(x, todo \ {l})
    <3>1. Move(l[1], l[2], 1)
      BY <1>1, <1>5, <1>9, <1>14, <2>1, PutBackClaims DEF OrderInv, AllOffered
    <3> QED BY <1>3, <1>5, <1>9, <2>1, <2>2, <3>1, PutsLine DEF OrderInv
  <2>4. worker'[w].target = target /\ worker'[w].todo = todo \ {l} /\ worker'[w].pc \in Updating
    BY <1>6, <1>7, <1>8 DEF Updating
  <2>5. Claims(x, IF worker[w].target \in Restocked THEN worker[w].todo ELSE LinesOf({x}))'
    BY <1>4, <2>3, <2>4 DEF Claims, ClaimsAfter
  <2>6. Exists(x)' /\ (Unpaid(x)' <=> Unpaid(x))
    BY <1>1, <2>2 DEF Exists, Unpaid
  <2>7. Updates(worker[w], x)'
    BY <1>1, <1>4, <2>2, <2>4, <2>5, <2>6 DEF Updates
  <2> QED BY <2>4, <2>7, UpdatingDoes
<1> QED BY <1>1, <1>3, <1>4, <1>7, <1>11, <1>12, <1>13, <1>14, CalmKeeps

LEMMA ExistsIsNotNew ==
    ASSUME OrderInv, CalmInv, NEW o \in Orders, Exists(o)
    PROVE  outcome[CheckoutOf[o]] # "new"
BY DEF CalmInv, Fresh, Exists

LEMMA NoSuccessor ==
    ASSUME NEW s, NEW t, OrderMayBecome(s, t)
    PROVE  /\ s # "CANCELLED"
           /\ s \in Restocked => t = "REFUNDED"
           /\ t = "REFUNDED" => s \in Restocked
BY DEF OrderMayBecome, OrderSuccessors, Restocked

LEMMA UpdateCalm ==
    ASSUME OrderInv, CalmInv, NEW w \in Workers, TypeOK', NEW o \in Orders, NEW target \in Targets,
           Update(w, o, target)
    PROVE  CalmInv'
<1> USE DEF storeVars, offer, keyVars
<1> DEFINE step == IF PutsBack(target) /\ items[o] # {} THEN "put" ELSE "save"
<1> DEFINE lines == IF PutsBack(target) THEN {o} \X items[o] ELSE {}
<1> DEFINE q == [Idle EXCEPT !.order = o, !.target = target, !.todo = lines, !.pc = step]
<1>1. /\ worker[w].pc = "idle" /\ UNCHANGED <<status, pay, items, claim, outcome>>
      /\ Exists(o) /\ OrderMayBecome(status[o], target) /\ Touch(o) /\ Set(w, q)
  BY DEF Update, At
<1>2. q.pc = step /\ q.order = o /\ q.target = target /\ q.todo = lines /\ q.checkout = Nobody
  <2> HIDE DEF step, lines
  <2> QED BY DEF Idle
<1> HIDE DEF q
<1>3. worker'[w] = q /\ \A v \in Workers \ {w} : worker'[v] = worker[v]
  BY <1>1, SetIs
<1>4. step \in {"put", "save"} /\ (step = "put" => target \in Restocked) /\ (step = "save" => lines = {})
  BY DEF PutsBack, Restocked
<1>5. lines \subseteq {o} \X Products /\ target \in OrderStatuses
  BY OrderStockAssumption DEF OrderInv, TypeOK
<1>6. target \in Restocked => target = "REFUNDED" \/ lines = {o} \X items[o]
  BY DEF PutsBack, Restocked
<1>7. target = "REFUNDED" => lines = {}
  BY DEF PutsBack
<1> HIDE DEF step, lines
<1>8. Scope(w) = {} /\ Scope(w)' = {o}
  BY <1>1, <1>2, <1>3, <1>4 DEF Scope
<1>9. outcome[CheckoutOf[o]] # "new"
  BY <1>1, ExistsIsNotNew
<1>10. Tidy(worker[w])'
  BY <1>1, <1>2, <1>3, <1>4, <1>5, <1>9 DEF Tidy, Making, Undoes, Updating
<1>11. calm' \subseteq calm /\ (o \in calm' => o \notin InUse)
  BY <1>1 DEF Touch
<1>12. \A x \in Orders : Same(x)
  BY <1>1 DEF Same
<1>13. ASSUME o \in calm' PROVE Doing(worker[w], o)'
  <2>1. Settled(o)
    BY <1>11, <1>13 DEF CalmInv
  <2>2. status[o] # "CANCELLED" /\ (~Live(o) => target = "REFUNDED") /\ (target = "REFUNDED" => ~Live(o))
    BY <1>1, NoSuccessor DEF Live
  <2>3. items[o] = ProductsOf(o)
    BY <1>1, <2>1 DEF Settled
  <2>4. Claims(o, IF target \in Restocked THEN lines ELSE LinesOf({o}))
    <3>1. CASE Live(o) /\ target \in Restocked
      <4>1. Claims(o, LinesOf({o})) /\ lines = {o} \X items[o]
        BY <1>6, <2>1, <2>2, <3>1 DEF Settled
      <4>2. \A p \in Products : <<o, p>> \in LinesOf({o}) <=> <<o, p>> \in lines
        BY <2>3, <4>1, LineIs DEF ProductsOf
      <4> QED BY <3>1, <4>1, <4>2 DEF Claims
    <3>2. CASE Live(o) /\ target \notin Restocked
      BY <2>1, <3>2 DEF Settled
    <3>3. CASE ~Live(o)
      <4>1. lines = {} /\ target \in Restocked
        BY <1>7, <2>2, <3>3 DEF Restocked
      <4> QED BY <2>1, <3>3, <4>1 DEF Settled
    <3> QED BY <3>1, <3>2, <3>3
  <2>5. outcome[CheckoutOf[o]] = "refused" => target \in Restocked /\ Unpaid(o)
    BY <2>1, <2>2 DEF Settled, Restocked
  <2>6. worker'[w].target = target /\ worker'[w].todo = lines /\ worker'[w].pc \in Updating
    BY <1>2, <1>3, <1>4 DEF Updating
  <2>7. LinesOf({o})' = LinesOf({o})
    BY DEF LinesOf, Lines
  <2>8. Claims(o, IF worker[w].target \in Restocked THEN worker[w].todo ELSE LinesOf({o}))'
    BY <1>1, <2>4, <2>6, <2>7 DEF Claims
  <2>9. Exists(o)' /\ (Unpaid(o)' <=> Unpaid(o))
    BY <1>1 DEF Exists, Unpaid
  <2>10. Updates(worker[w], o)'
    BY <1>1, <2>2, <2>3, <2>5, <2>6, <2>8, <2>9 DEF Updates
  <2> QED BY <2>6, <2>10, UpdatingDoes
<1> QED BY <1>1, <1>3, <1>8, <1>9, <1>10, <1>11, <1>12, <1>13, CalmKeeps

LEMMA CaptureCalm ==
    ASSUME OrderInv, CalmInv, NEW w \in Workers, TypeOK', NEW i \in Keys, NEW o \in Orders,
           Capture(w, i, o)
    PROVE  CalmInv'
<1> USE DEF storeVars, offer, keyVars
<1> DEFINE q == [Idle EXCEPT !.pc = "capture", !.order = o, !.target = Written(o, "CONFIRMED")]
<1>1. /\ worker[w].pc = "idle" /\ UNCHANGED <<status, pay, items, claim, outcome>>
      /\ Exists(o) /\ Touch(o) /\ Set(w, q)
  BY DEF Capture, At
<1>2. q.pc = "capture" /\ q.order = o /\ q.checkout = Nobody
  BY DEF Idle
<1> HIDE DEF q
<1>3. worker'[w] = q /\ \A v \in Workers \ {w} : worker'[v] = worker[v]
  BY <1>1, SetIs
<1>4. Scope(w) = {} /\ Scope(w)' = {o}
  BY <1>1, <1>2, <1>3 DEF Scope
<1>5. outcome[CheckoutOf[o]] # "new"
  BY <1>1, ExistsIsNotNew
<1>6. Tidy(worker[w])'
  BY <1>1, <1>2, <1>3, <1>5 DEF Tidy, Making, Undoes, Updating
<1>7. calm' \subseteq calm /\ (o \in calm' => o \notin InUse)
  BY <1>1 DEF Touch
<1>8. \A x \in Orders : Same(x)
  BY <1>1 DEF Same
<1>9. ASSUME o \in calm' PROVE Doing(worker[w], o)'
  <2>1. Settled(o)'
    BY <1>7, <1>8, <1>9, SameStays DEF CalmInv
  <2> QED BY <1>2, <1>3, <2>1 DEF Doing, Prepares, HalfMade, Takes, HasMade, RollingBack, Updates,
       Spares, Making, Undoes, RollsBack, Updating
<1> QED BY <1>1, <1>3, <1>4, <1>5, <1>6, <1>7, <1>8, <1>9, CalmKeeps

LEMMA BeginCalm ==
    ASSUME OrderInv, CalmInv, NEW w \in Workers, TypeOK', NEW k \in Checkouts, Begin(w, k)
    PROVE  CalmInv'
<1> USE DEF storeVars, offer, keyVars
<1> DEFINE q == [Idle EXCEPT !.pc = "again", !.checkout = k]
<1>1. /\ worker[w].pc = "idle" /\ UNCHANGED <<status, pay, items, claim, calm>>
      /\ outcome[k] = "new" /\ outcome' = [outcome EXCEPT ![k] = "running"] /\ Set(w, q)
  BY DEF Begin, At
<1>2. q.pc = "again" /\ q.checkout = k /\ q.done = {}
  BY DEF Idle
<1> HIDE DEF q
<1>3. worker'[w] = q /\ \A v \in Workers \ {w} : worker'[v] = worker[v]
  BY <1>1, SetIs
<1>4. outcome'[k] = "running" /\ \A j \in Checkouts : j # k => outcome'[j] = outcome[j]
  BY <1>1 DEF OrderInv, TypeOK
<1>5. Scope(w) = {} /\ Scope(w)' = OrdersOf(k)
  BY <1>1, <1>2, <1>3, KeyTypes DEF Scope, OrdersOf, OrderInv
<1>6. Tidy(worker[w])'
  BY <1>2, <1>3 DEF Tidy, Making, Undoes, Updating
<1>7. \A o \in OrdersOf(k) : o \in Orders /\ CheckoutOf[o] = k
  BY DEF OrdersOf
<1>8. \A o \in OrdersOf(k) : o \notin InUse /\ Fresh(o)
  BY <1>1, <1>7, ScopeNotNew DEF InUse, CalmInv
<1>9. \A o \in Orders : o \in Scope(w)' \/ Same(o)
  <2>1. \A o \in Orders : CheckoutOf[o] \in Checkouts
    BY KeyTypes DEF OrderInv
  <2> QED BY <1>1, <1>4, <1>5, <2>1 DEF Same, OrdersOf
<1>10. ASSUME NEW o \in OrdersOf(k) PROVE Doing(worker[w], o)'
  <2>1. Fresh(o)'
    BY <1>1, <1>8 DEF Fresh, Claims, Unpaid
  <2> QED BY <1>2, <1>3, <2>1 DEF Doing, Prepares, HalfMade, Takes, HasMade, RollingBack, Updates,
       Spares, Making, Undoes, RollsBack, Updating
<1>11. \A j \in Checkouts : outcome[j] # "new" => outcome'[j] # "new"
  BY <1>4
<1>12. \A o \in Scope(w)' : o \in Orders /\ outcome'[CheckoutOf[o]] # "new"
  BY <1>4, <1>5, <1>7
<1> QED BY <1>1, <1>3, <1>5, <1>6, <1>8, <1>9, <1>10, <1>11, <1>12, CalmKeeps

\* What happens beside the workers
LEMMA BesideCalm ==
    ASSUME OrderInv, CalmInv, UNCHANGED <<worker, outcome>>, calm' \subseteq calm,
           \A o \in Orders : Same(o) \/ outcome[CheckoutOf[o]] # "new",
           \A o \in calm' : Same(o) \/ (o \notin InUse /\ (Settled(o) => Settled(o)'))
    PROVE  CalmInv'
<1>1. \A w \in Workers : Scope(w)' = Scope(w)
  BY DEF Scope
<1>2. InUse' = InUse
  BY <1>1 DEF InUse
<1>3. ASSUME NEW w \in Workers PROVE Tidy(worker[w])'
  BY DEF CalmInv, Tidy
<1>4. ASSUME NEW o \in Orders, outcome'[CheckoutOf[o]] = "new" PROVE Fresh(o)'
  BY <1>4, SameStays DEF CalmInv
<1>5. ASSUME NEW o \in calm'
      PROVE  /\ \A u, v \in Workers : o \in Scope(u)' /\ o \in Scope(v)' => u = v
             /\ \A v \in Workers : o \in Scope(v)' => Doing(worker[v], o)'
             /\ o \notin InUse' => Settled(o)'
  <2>1. /\ \A u, v \in Workers : o \in Scope(u) /\ o \in Scope(v) => u = v
        /\ \A v \in Workers : o \in Scope(v) => Doing(worker[v], o)
        /\ o \notin InUse => Settled(o)
    BY DEF CalmInv
  <2>2. CASE Same(o)
    BY <1>1, <1>2, <2>1, <2>2, SameStays
  <2>3. CASE o \notin InUse /\ (Settled(o) => Settled(o)')
    BY <1>1, <1>2, <2>1, <2>3 DEF InUse
  <2> QED BY <2>2, <2>3
<1> QED BY <1>3, <1>4, <1>5 DEF CalmInv

LEMMA DeliverCalm ==
    ASSUME OrderInv, CalmInv, NEW o \in Orders, Deliver(o)
    PROVE  CalmInv'
<1> USE DEF keyVars
<1>1. /\ UNCHANGED <<pay, items, claim, worker, outcome>> /\ calm' \subseteq calm /\ Exists(o)
      /\ o \in calm' => o \notin InUse /\ status[o] \notin Restocked
      /\ status' = [status EXCEPT ![o] = "DELIVERED"]
  BY DEF Deliver
<1>2. status'[o] = "DELIVERED" /\ \A x \in Orders : x # o => status'[x] = status[x]
  BY <1>1 DEF OrderInv, TypeOK
<1>3. \A x \in Orders : x # o => Same(x)
  BY <1>1, <1>2 DEF Same
<1>4. ASSUME o \in calm', Settled(o) PROVE Settled(o)'
  <2>1. Live(o) /\ Live(o)' /\ Exists(o)'
    BY <1>1, <1>2, <1>4 DEF Live, Exists, Restocked
  <2>2. LinesOf({o})' = LinesOf({o})
    BY DEF LinesOf, Lines
  <2>3. Claims(o, IF Live(o) THEN LinesOf({o}) ELSE {})'
    BY <1>1, <1>4, <2>1, <2>2 DEF Claims, Settled
  <2> QED BY <1>1, <1>4, <2>1, <2>3 DEF Settled
<1>5. calm' \subseteq Orders
  BY <1>1 DEF OrderInv, TypeOK
<1> QED BY <1>1, <1>3, <1>4, <1>5, ExistsIsNotNew, BesideCalm

\* The operations that set a status never find a cancelled order of which they are alone at work.
LEMMA KeepsCancelled ==
    ASSUME OrderInv, CalmInv, NEW w \in Workers, NEW o \in calm, o \in calm', status[o] = "CANCELLED",
           Start(w) \/ Advance(w) \/ Fail(w)
    PROVE  status'[o] = "CANCELLED"
<1> USE DEF storeVars, offer, keyVars
<1>0. o \in Orders /\ status \in [Orders -> OrderDocs] /\ (o \in Scope(w) => Doing(worker[w], o))
  BY DEF OrderInv, TypeOK, CalmInv
<1>1. CASE Transact(w)
  <2>1. worker[w].pc = "transaction" /\ worker[w].pc \in CheckoutSteps
    BY <1>1 DEF Transact, At, CheckoutSteps
  <2>2. o \notin OrdersOf(worker[w].checkout)
    BY <1>0, <2>1, ScopeIs DEF Doing, Prepares, Fresh
  <2> QED BY <1>0, <1>1, <2>2 DEF Transact
<1>2. ASSUME worker[w].pc \in Making \cup Undoes PROVE o \notin OrdersOf(worker[w].checkout)
  <2>1. Scope(w) = OrdersOf(worker[w].checkout)
    BY <1>2, MakerIs, ScopeIs
  <2> QED BY <1>0, <1>2, <2>1, HalfMadeIs DEF Fresh
<1>3. CASE Create(w) \/ UndoOrders(w)
  <2>1. worker[w].pc \in Making \cup Undoes
    BY <1>3 DEF Create, UndoOrders, At, Making, Undoes
  <2>2. o \notin OrdersOf(worker[w].checkout) /\ worker[w].left \subseteq OrdersOf(worker[w].checkout)
    BY <1>2, <2>1, MakerIs
  <2> QED BY <1>0, <1>3, <2>2 DEF Create, UndoOrders, Made
<1>4. CASE RollSave(w)
  <2>1. worker[w].pc = "roll_save" /\ worker[w].pc \in RollsBack
    BY <1>4 DEF RollSave, At, RollsBack
  <2>2. Scope(w) = OrdersOf(worker[w].checkout)
    BY <2>1, LaterIs, ScopeIs
  <2>3. worker[w].order \in OrdersOf(worker[w].checkout) \ worker[w].left
    BY <2>1 DEF CalmInv, Tidy
  <2>4. o # worker[w].order
    BY <1>0, <2>1, <2>2, <2>3 DEF Doing, RollingBack, Complete
  <2> QED BY <1>0, <1>4, <2>4 DEF RollSave, Write
<1>5. CASE Save(w)
  <2>1. worker[w].pc \in Updating
    BY <1>5 DEF Save, At, Updating
  <2>2. o # worker[w].order
    BY <1>0, <2>1, ScopeIs DEF Doing, Updates
  <2> QED BY <1>0, <1>5, <2>2 DEF Save, Write
<1>6. CASE Confirm(w)
  <2>1. o # worker[w].order
    BY <1>6 DEF Confirm, Exists, Restocked
  <2> QED BY <1>0, <1>6, <2>1 DEF Confirm, Write
<1>7. CASE UNCHANGED status
  BY <1>7
<1>8. CASE \/ Again(w) \/ Validate(w) \/ Deduct(w) \/ Attach(w) \/ Undo(w) \/ UndoItems(w)
           \/ CreateIntent(w) \/ Roll(w) \/ RollPut(w) \/ Record(w) \/ Unlock(w) \/ Put(w)
  <2>1. Again(w) \/ Validate(w) \/ Deduct(w) \/ Attach(w) \/ Undo(w) => UNCHANGED status
    BY DEF Again, Validate, Deduct, Attach, Undo
  <2>2. UndoItems(w) \/ CreateIntent(w) \/ Roll(w) \/ RollPut(w) => UNCHANGED status
    BY DEF UndoItems, CreateIntent, Roll, RollPut
  <2>3. Record(w) \/ Unlock(w) \/ Put(w) => UNCHANGED status
    BY DEF Record, Unlock, Put
  <2> QED BY <1>7, <1>8, <2>1, <2>2, <2>3
<1>9. CASE Start(w)
  <2>1. ASSUME NEW k \in Checkouts, Begin(w, k) PROVE UNCHANGED status
    BY <2>1 DEF Begin
  <2>2. ASSUME NEW x \in Orders, NEW target \in Targets, Update(w, x, target) PROVE UNCHANGED status
    BY <2>2 DEF Update
  <2>3. ASSUME NEW i \in Keys, NEW x \in Orders, Capture(w, i, x) PROVE UNCHANGED status
    BY <2>3 DEF Capture
  <2> QED BY <1>7, <1>9, <2>1, <2>2, <2>3 DEF Start
<1>10. CASE Fail(w)
  <2>1. CreateFails(w) \/ PopulateFails(w) \/ RollFails(w) => UNCHANGED status
    BY DEF CreateFails, PopulateFails, RollFails
  <2>2. UpdateFails(w) \/ Crash(w) => UNCHANGED status
    BY DEF UpdateFails, Crash
  <2> QED BY <1>7, <1>10, <2>1, <2>2 DEF Fail
<1> QED BY <1>1, <1>3, <1>4, <1>5, <1>6, <1>8, <1>9, <1>10 DEF Advance, Checkout

-----------------------------------------------------------------------------
LEMMA InitCalm == Init => CalmInv
<1> SUFFICES ASSUME Init PROVE CalmInv
  OBVIOUS
<1>1. ASSUME NEW w \in Workers PROVE worker[w].pc = "idle" /\ Scope(w) = {}
  BY DEF Init, Idle, Scope
<1>2. ASSUME NEW w \in Workers PROVE Tidy(worker[w])
  BY <1>1 DEF Tidy, Making, Undoes, Updating
<1>3. ASSUME NEW o \in Orders PROVE Fresh(o) /\ outcome[CheckoutOf[o]] = "new"
  BY KeyTypes, TypeInit DEF Init, Fresh, Claims, Unpaid
<1>4. ASSUME NEW o \in Orders PROVE Settled(o)
  BY <1>3 DEF Settled, Fresh, Live, Exists
<1>5. calm = Orders
  BY DEF Init
<1> QED BY <1>1, <1>2, <1>3, <1>4, <1>5 DEF CalmInv

LEMMA NextCalm == OrderInv /\ CalmInv /\ AllOffered /\ [Next]_vars => CalmInv'
<1> SUFFICES ASSUME OrderInv, CalmInv, AllOffered, [Next]_vars PROVE CalmInv'
  OBVIOUS
<1>1. TypeOK'
  BY TypeStep DEF OrderInv
<1>2. ASSUME NEW w \in Workers, Start(w) PROVE CalmInv'
  BY <1>1, <1>2, BeginCalm, UpdateCalm, CaptureCalm DEF Start
<1>3. ASSUME NEW w \in Workers, Advance(w) PROVE CalmInv'
  <2>1. CASE Again(w) \/ Transact(w) \/ Validate(w) \/ Create(w) \/ Deduct(w) \/ Attach(w)
    BY <1>1, <2>1, BeforeCalm, CreateCalm, DeductCalm, AttachCalm
  <2>2. CASE Undo(w) \/ UndoItems(w) \/ UndoOrders(w) \/ CreateIntent(w)
    BY <1>1, <2>2, UndoCalm, UndoRestCalm, IntentCalm
  <2>3. CASE Roll(w) \/ RollPut(w) \/ RollSave(w) \/ Record(w) \/ Unlock(w)
    BY <1>1, <2>3, RollCalm, RollPutCalm, RollEndsCalm, RecordCalm, UnlockCalm
  <2>4. CASE Put(w) \/ Save(w) \/ Confirm(w)
    BY <1>1, <2>4, PutCalm, SaveCalm, ConfirmCalm
  <2> QED BY <1>3, <2>1, <2>2, <2>3, <2>4 DEF Advance, Checkout
<1>4. ASSUME NEW w \in Workers, Fail(w) PROVE CalmInv'
  BY <1>1, <1>4, CreateFailsCalm, RollEndsCalm, UnlockCalm DEF Fail
<1>5. ASSUME NEW o \in Orders, Deliver(o) PROVE CalmInv'
  BY <1>5, DeliverCalm
<1>6. ASSUME UNCHANGED <<worker, outcome, status, pay, items, claim>>, calm' \subseteq calm
      PROVE  CalmInv'
  BY <1>6, BesideCalm DEF Same
<1>7. ASSUME NEW i \in Keys, Expire(i) PROVE CalmInv'
  BY <1>6, <1>7 DEF Expire, storeVars
<1>8. ASSUME NEW v \in Variants, RemoveVariant(v) PROVE CalmInv'
  BY <1>6, <1>8 DEF RemoveVariant, keyVars
<1>9. CASE UNCHANGED vars
  BY <1>6, <1>9 DEF vars, storeVars, keyVars
<1> QED BY <1>2, <1>3, <1>4, <1>5, <1>7, <1>8, <1>9 DEF Next

\* A seller who removes a variant makes the orders that want it calm no more.
LEMMA NextOffered == OrderInv /\ AllOffered /\ [Next]_vars => AllOffered'
<1> SUFFICES ASSUME OrderInv, AllOffered, [Next]_vars PROVE AllOffered'
  OBVIOUS
<1> USE DEF storeVars, offer
<1>1. ASSUME listed' = listed, calm' \subseteq calm PROVE AllOffered'
  BY <1>1 DEF AllOffered, Offered
<1>2. ASSUME NEW w \in Workers, Start(w) PROVE AllOffered'
  <2>1. ASSUME NEW k \in Checkouts, Begin(w, k) PROVE AllOffered'
    BY <1>1, <2>1 DEF Begin
  <2>2. ASSUME NEW o \in Orders, NEW target \in Targets, Update(w, o, target) PROVE AllOffered'
    BY <1>1, <2>2 DEF Update, Touch
  <2>3. ASSUME NEW i \in Keys, NEW o \in Orders, Capture(w, i, o) PROVE AllOffered'
    BY <1>1, <2>3 DEF Capture, Touch
  <2> QED BY <1>2, <2>1, <2>2, <2>3 DEF Start
<1>3. ASSUME NEW w \in Workers, Advance(w) PROVE AllOffered'
  <2>1. CASE Again(w) \/ Transact(w) \/ Validate(w) \/ Create(w) \/ Deduct(w) \/ Attach(w)
    BY <1>1, <2>1 DEF Again, Transact, Validate, Create, Deduct, Attach
  <2>2. CASE Undo(w) \/ UndoItems(w) \/ UndoOrders(w) \/ CreateIntent(w)
    BY <1>1, <2>2 DEF Undo, UndoItems, UndoOrders, CreateIntent
  <2>3. CASE Roll(w) \/ RollPut(w) \/ RollSave(w) \/ Record(w) \/ Unlock(w)
    BY <1>1, <2>3 DEF Roll, RollPut, RollSave, Record, Unlock
  <2>4. CASE Put(w) \/ Save(w) \/ Confirm(w)
    BY <1>1, <2>4 DEF Put, Save, Confirm
  <2> QED BY <1>3, <2>1, <2>2, <2>3, <2>4 DEF Advance, Checkout
<1>4. ASSUME NEW w \in Workers, Fail(w) PROVE AllOffered'
  BY <1>1, <1>4 DEF Fail, CreateFails, PopulateFails, RollFails, UpdateFails, Crash
<1>5. ASSUME NEW o \in Orders, Deliver(o) PROVE AllOffered'
  BY <1>1, <1>5 DEF Deliver
<1>6. ASSUME NEW v \in Variants, RemoveVariant(v) PROVE AllOffered'
  <2>1. /\ listed' = listed \ {v} /\ v \in Variants /\ ProductOf[v] \in Products
        /\ calm' = calm \ {o \in Orders : Wants[o][ProductOf[v]] = v}
    BY <1>6, OrderStockAssumption DEF RemoveVariant
  <2>2. ASSUME NEW o \in calm', NEW p \in Products PROVE Wants[o][p] \in listed' \cup {NoVariant}
    <3>1. o \in Orders /\ o \in calm /\ Wants[o][p] \in listed \cup {NoVariant}
      BY <2>1 DEF AllOffered, Offered, OrderInv, TypeOK
    <3>2. Wants[o][p] = v => p = ProductOf[v]
      <4> DEFINE l == <<o, p>>
      <4>1. l \in Lines /\ l[1] = o /\ l[2] = p
        BY <3>1 DEF Lines
      <4> HIDE DEF l
      <4> QED BY <2>1, <4>1, LineVariant DEF VariantOf
    <3> QED BY <2>1, <3>1, <3>2
  <2> QED BY <2>2 DEF AllOffered, Offered
<1>7. ASSUME NEW i \in Keys, Expire(i) PROVE AllOffered'
  BY <1>1, <1>7 DEF Expire
<1>8. CASE UNCHANGED vars
  BY <1>1, <1>8 DEF vars
<1> QED BY <1>2, <1>3, <1>4, <1>5, <1>6, <1>7, <1>8 DEF Next

LEMMA InitOffered == Init => AllOffered
BY OrderStockAssumption DEF Init, AllOffered, Offered

LEMMA CalmInvariant == Spec => [](OrderInv /\ CalmInv /\ AllOffered)
<1>1. Init => OrderInv /\ CalmInv /\ AllOffered
  BY InitOrderInv, InitCalm, InitOffered
<1>2. OrderInv /\ CalmInv /\ AllOffered /\ [Next]_vars => (OrderInv /\ CalmInv /\ AllOffered)'
  BY NextOrderInv, NextCalm, NextOffered
<1> QED BY <1>1, <1>2, PTL DEF Spec

-----------------------------------------------------------------------------
(***************************************************************************)
(* The stock. A step moves units of a product between the shelf and one    *)
(* order, so the stock and the claims of the orders add up (AddsUp). For   *)
(* the transaction, which sets the claims of all orders of a checkout at   *)
(* once, they must have been zero before: nobody has moved a unit for an   *)
(* order whose checkout has not begun (Unbegun).                           *)
(***************************************************************************)

AddsUp(p) == stock[p] + Taken(p) + withdrawn[p] = Shelf[p]

\* A product's count is that of its variants.
CountIsSum(p) == stock[p] = Total(units, ListedOf(p))

\* Units of a product stay where they are, or move between the shelf and one order,
Shifts(p) ==
    \/ stock'[p] = stock[p] /\ \A x \in Orders : claim'[x][p] = claim[x][p]
    \/ \E o \in Orders :
          /\ \A x \in Orders \ {o} : claim'[x][p] = claim[x][p]
          /\ stock'[p] + claim'[o][p] = stock[p] + claim[o][p]

\* and to or from one of its variants.
Follows(p) ==
    \/ stock'[p] = stock[p] /\ \A v \in ListedOf(p) : units'[v] = units[v]
    \/ \E v \in ListedOf(p) :
          /\ \A x \in ListedOf(p) \ {v} : units'[x] = units[x]
          /\ stock'[p] - units'[v] = stock[p] - units[v]

LEMMA AddsUpStill ==
    ASSUME TypeOK, TypeOK', NEW p \in Products, Shifts(p), AddsUp(p), withdrawn'[p] = withdrawn[p]
    PROVE  AddsUp(p)'
<1> DEFINE c == [x \in Orders |-> claim[x][p]]
           d == [x \in Orders |-> claim'[x][p]]
<1>1. c \in [Orders -> Int] /\ d \in [Orders -> Int] /\ IsFiniteSet(Orders)
  BY OrderStockAssumption DEF TypeOK
<1>2. Taken(p) = Total(c, Orders) /\ Taken(p)' = Total(d, Orders)
  BY DEF Taken, Total, UnitsOf, Shortage
<1>3. Total(c, Orders) \in Int /\ Total(d, Orders) \in Int
  BY <1>1, TotalType
<1>4. stock[p] \in Int /\ stock'[p] \in Int /\ Shelf[p] \in Nat /\ withdrawn[p] \in Int
  BY OrderStockAssumption DEF TypeOK
<1>5. CASE stock'[p] = stock[p] /\ \A x \in Orders : claim'[x][p] = claim[x][p]
  <2>1. \A x \in Orders : d[x] = c[x]
    BY <1>5
  <2> HIDE DEF c, d
  <2>2. Total(d, Orders) = Total(c, Orders)
    BY <2>1, TotalSame
  <2> QED BY <1>2, <1>5, <2>2 DEF AddsUp
<1>6. ASSUME NEW o \in Orders, \A x \in Orders \ {o} : claim'[x][p] = claim[x][p],
             stock'[p] + claim'[o][p] = stock[p] + claim[o][p]
      PROVE  AddsUp(p)'
  <2>1. \A x \in Orders \ {o} : d[x] = c[x]
    BY <1>6
  <2>2. c[o] = claim[o][p] /\ d[o] = claim'[o][p] /\ c[o] \in Int /\ d[o] \in Int
    BY <1>1
  <2> HIDE DEF c, d
  <2>3. Total(d, Orders) = Total(c, Orders) + d[o] - c[o]
    BY <1>1, <2>1, TotalShift
  <2>4. stock'[p] + Total(d, Orders) + withdrawn'[p] = Shelf[p]
    BY <1>2, <1>3, <1>4, <1>6, <2>2, <2>3 DEF AddsUp
  <2> QED BY <1>2, <2>4 DEF AddsUp
<1> QED BY <1>5, <1>6 DEF Shifts

LEMMA CountStill ==
    ASSUME TypeOK, TypeOK', NEW p \in Products, Follows(p), CountIsSum(p), listed' = listed
    PROVE  CountIsSum(p)'
<1>1. PICK S \in SUBSET Variants : S = ListedOf(p)
  BY DEF ListedOf, VariantsOf
<1>2. ListedOf(p)' = S
  BY <1>1 DEF ListedOf
<1>3. PICK c \in [Variants -> Int], d \in [Variants -> Int] : c = units /\ d = units'
  BY DEF TypeOK
<1>4. IsFiniteSet(Variants) /\ stock[p] \in Int /\ stock'[p] \in Int
  BY OrderStockAssumption DEF TypeOK
<1>5. CASE stock'[p] = stock[p] /\ \A v \in S : d[v] = c[v]
  <2>1. Total(d, S) = Total(c, S)
    BY <1>5, TotalSame
  <2> QED BY <1>1, <1>2, <1>3, <1>5, <2>1 DEF CountIsSum, Total, UnitsOf, Shortage
<1>6. ASSUME NEW v \in S, \A x \in S \ {v} : d[x] = c[x], stock'[p] - d[v] = stock[p] - c[v]
      PROVE  CountIsSum(p)'
  <2>1. Total(d, S) = Total(c, S) + d[v] - c[v]
    BY <1>4, <1>6, TotalShift
  <2>2. Total(c, S) \in Int /\ c[v] \in Int /\ d[v] \in Int
    BY <1>4, <1>6, TotalType
  <2>3. stock[p] = Total(c, S)
    BY <1>1, <1>3 DEF CountIsSum
  <2>4. stock'[p] = Total(d, S)
    <3>1. stock'[p] - d[v] = stock[p] - c[v] /\ Total(d, S) \in Int
      BY <1>4, <1>6, TotalType
    <3> QED BY <1>4, <2>1, <2>2, <2>3, <3>1
  <2> QED BY <1>2, <1>3, <2>4 DEF CountIsSum, Total, UnitsOf, Shortage
<1> QED BY <1>1, <1>3, <1>5, <1>6 DEF Follows

-----------------------------------------------------------------------------
(* Which steps move units, and whose.                                      *)

Early == {"again", "validate", "transaction"}

\* A checkout that has not begun to make its orders
Unbegun(k) ==
    \/ outcome[k] = "new"
    \/ \E w \in Workers : worker[w].checkout = k /\ worker[w].pc \in Early

StockInv ==
    /\ \A o \in Orders : Unbegun(CheckoutOf[o]) =>
          ~Exists(o) /\ \A p \in Products : claim[o][p] = 0
    /\ \A w \in Workers : worker[w].pc = "put" => ~Unbegun(CheckoutOf[worker[w].order])
    /\ \A o \in Orders : \A p \in Products : Quantity[o][p] = 0 => claim[o][p] = 0
    /\ \A p \in Products : AddsUp(p)
    /\ \A p \in Varied : CountIsSum(p)
    /\ \A p \in Products : p \notin Varied => withdrawn[p] = 0

\* A worker that is past the beginning is alone with its checkout.
LEMMA MakerHasBegun ==
    ASSUME OrderInv, NEW w \in Workers, worker[w].pc \in CheckoutSteps \ Early
    PROVE  worker[w].checkout \in Checkouts /\ ~Unbegun(worker[w].checkout)
<1>1. worker[w].checkout \in Checkouts /\ worker[w].checkout # Nobody /\ outcome[worker[w].checkout] # "new"
  BY ScopeIs, KeyTypes DEF OrderInv, Knows
<1>2. \A v \in Workers \ {w} : worker[v].checkout # worker[w].checkout
  BY <1>1 DEF OrderInv, Single
<1> QED BY <1>1, <1>2 DEF Unbegun, Early

\* What a step of a worker makes of its checkout
LEMMA BeginsOnce ==
    ASSUME OrderInv, NEW w \in Workers,
           \A v \in Workers \ {w} : worker'[v] = worker[v],
           \A k \in Checkouts : outcome'[k] = "new" => outcome[k] = "new",
           worker'[w].pc \in Early =>
               \/ worker[w].pc \in Early /\ worker'[w].checkout = worker[w].checkout
               \/ outcome[worker'[w].checkout] = "new"
    PROVE  \A k \in Checkouts : Unbegun(k)' => Unbegun(k)
BY DEF Unbegun

\* What the workers' locals contribute
LEMMA PutsBegun ==
    ASSUME OrderInv, StockInv, TypeOK', NEW w \in Workers,
           \A v \in Workers \ {w} : worker'[v] = worker[v],
           worker'[w].pc = "put" =>
               \/ worker[w].pc = "put" /\ worker'[w].order = worker[w].order
               \/ worker'[w].order \in Orders /\ Exists(worker'[w].order),
           \A k \in Checkouts : Unbegun(k)' => Unbegun(k)
    PROVE  \A v \in Workers : worker'[v].pc = "put" => ~Unbegun(CheckoutOf[worker[v].order])'
<1> SUFFICES ASSUME NEW v \in Workers, worker'[v].pc = "put"
             PROVE  ~Unbegun(CheckoutOf[worker[v].order])'
  OBVIOUS
<1>1. PICK o \in OrderIds : o = worker'[v].order
  BY DEF TypeOK, Worker
<1>2. o \in Orders /\ ~Unbegun(CheckoutOf[o])
  <2>1. CASE worker[v].pc = "put" /\ worker[v].order = o
    BY <2>1 DEF StockInv, OrderInv, Knows
  <2>2. CASE o \in Orders /\ Exists(o)
    BY <2>2 DEF StockInv
  <2>3. CASE v # w
    <3>1. worker'[v] = worker[v]
      BY <2>3
    <3> QED BY <1>1, <2>1, <3>1
  <2>4. CASE v = w
    BY <1>1, <2>1, <2>2, <2>4
  <2> QED BY <2>3, <2>4
<1>3. CheckoutOf[o] \in Checkouts
  BY <1>2, OrderStockAssumption
<1>4. ~Unbegun(CheckoutOf[o])'
  BY <1>2, <1>3
<1> QED BY <1>1, <1>4

\* Steps that move no units and make no order
LEMMA StillAddsUp ==
    ASSUME OrderInv, StockInv, TypeOK',
           \A v \in Workers : worker'[v].pc = "put" => ~Unbegun(CheckoutOf[worker[v].order])',
           \A k \in Checkouts : Unbegun(k)' => Unbegun(k),
           UNCHANGED <<stock, units, claim>>, UNCHANGED offer,
           \A o \in Orders : Exists(o)' => Exists(o) \/ ~Unbegun(CheckoutOf[o])
    PROVE  StockInv'
<1>1. \A o \in Orders : CheckoutOf[o] \in Checkouts
  BY OrderStockAssumption
<1>2. ASSUME NEW o \in Orders, Unbegun(CheckoutOf[o])'
      PROVE  ~Exists(o)' /\ \A p \in Products : claim'[o][p] = 0
  BY <1>1, <1>2 DEF StockInv
<1>3. \A o \in Orders : \A p \in Products : Quantity[o][p] = 0 => claim'[o][p] = 0
  BY DEF StockInv
<1>4. ASSUME NEW p \in Products PROVE AddsUp(p)'
  BY AddsUpStill DEF StockInv, OrderInv, Shifts, offer
<1>5. ASSUME NEW p \in Varied PROVE CountIsSum(p)'
  BY CountStill DEF StockInv, OrderInv, Follows, offer, Varied
<1>6. \A p \in Products : p \notin Varied => withdrawn'[p] = 0
  BY DEF StockInv, offer
<1> QED BY <1>2, <1>3, <1>4, <1>5, <1>6 DEF StockInv

\* The units that a line moves are also those of one of its product's variants.
LEMMA LineFollows ==
    ASSUME TypeOK, NEW l \in Lines, NEW sign \in {-1, 1}, Move(l[1], l[2], sign),
           \/ VariantOf(l) = NoVariant /\ units' = units
           \/ \E v \in ListedOf(l[2]) : units' = [units EXCEPT ![v] = units[v] + sign * Units(l)],
           NEW p \in Varied
    PROVE  Follows(p)
<1>1. /\ l[1] \in Orders /\ l[2] \in Products /\ Units(l) \in Nat /\ p \in Products
      /\ VariantOf(l) = NoVariant => l[2] \notin Varied \/ Units(l) = 0
  BY LineVariant, OrderStockAssumption DEF Varied
<1>2. /\ stock[l[2]] \in Int /\ stock'[l[2]] = stock[l[2]] + sign * Units(l)
      /\ \A q \in Products \ {l[2]} : stock'[q] = stock[q]
  BY <1>1, MoveType DEF Units
<1>3. CASE VariantOf(l) = NoVariant /\ units' = units
  <2>1. CASE p = l[2]
    <3>1. Units(l) = 0
      BY <1>1, <1>3, <2>1
    <3>2. stock'[p] = stock[p]
      BY <1>2, <2>1, <3>1
    <3> QED BY <1>3, <3>2 DEF Follows
  <2>2. CASE p # l[2]
    BY <1>1, <1>2, <1>3, <2>2 DEF Follows
  <2> QED BY <2>1, <2>2
<1>4. ASSUME NEW v \in ListedOf(l[2]), units' = [units EXCEPT ![v] = units[v] + sign * Units(l)]
      PROVE  Follows(p)
  <2>1. v \in Variants /\ ProductOf[v] = l[2] /\ units[v] \in Int
    BY DEF ListedOf, VariantsOf, TypeOK
  <2> DEFINE n == sign * Units(l)
  <2>2. n \in Int /\ stock'[l[2]] = stock[l[2]] + n /\ units' = [units EXCEPT ![v] = units[v] + n]
    BY <1>1, <1>2, <1>4
  <2> HIDE DEF n
  <2>3. units'[v] = units[v] + n /\ \A x \in Variants \ {v} : units'[x] = units[x]
    BY <2>1, <2>2 DEF TypeOK
  <2>4. \A q \in Products : \A x \in ListedOf(q) : x \in Variants /\ ProductOf[x] = q
    BY DEF ListedOf, VariantsOf
  <2>5. CASE p = l[2]
    <3>1. stock'[p] - units'[v] = stock[p] - units[v]
      BY <1>2, <2>1, <2>2, <2>3, <2>5
    <3>2. \A x \in ListedOf(p) \ {v} : units'[x] = units[x]
      BY <1>1, <2>3, <2>4
    <3> QED BY <2>5, <3>1, <3>2 DEF Follows
  <2>6. CASE p # l[2]
    <3>1. \A x \in ListedOf(p) : units'[x] = units[x]
      BY <1>1, <2>1, <2>3, <2>4, <2>6
    <3> QED BY <1>1, <1>2, <2>6, <3>1 DEF Follows
  <2> QED BY <2>5, <2>6
<1> QED BY <1>3, <1>4

\* Steps that move the units of a line of an order whose checkout has begun
LEMMA MoveAddsUp ==
    ASSUME OrderInv, StockInv, TypeOK',
           \A v \in Workers : worker'[v].pc = "put" => ~Unbegun(CheckoutOf[worker[v].order])',
           \A k \in Checkouts : Unbegun(k)' => Unbegun(k),
           NEW l \in Lines, NEW sign \in {-1, 1}, Move(l[1], l[2], sign),
           \/ VariantOf(l) = NoVariant /\ units' = units
           \/ \E v \in ListedOf(l[2]) : units' = [units EXCEPT ![v] = units[v] + sign * Units(l)],
           ~Unbegun(CheckoutOf[l[1]]), UNCHANGED <<status, offer>>
    PROVE  StockInv'
<1>1. \A o \in Orders : CheckoutOf[o] \in Checkouts
  BY OrderStockAssumption
<1>2. l[1] \in Orders /\ l[2] \in Products /\ l = <<l[1], l[2]>>
  BY DEF Lines
<1>3. /\ claim'[l[1]][l[2]] = claim[l[1]][l[2]] - sign * Quantity[l[1]][l[2]]
      /\ \A x \in Orders : \A p \in Products : <<x, p>> # l => claim'[x][p] = claim[x][p]
  BY MoveClaims DEF OrderInv
<1>4. /\ stock'[l[2]] = stock[l[2]] + sign * Quantity[l[1]][l[2]]
      /\ \A p \in Products : p # l[2] => stock'[p] = stock[p]
  BY <1>2 DEF Move, OrderInv, TypeOK
<1>5. /\ Quantity[l[1]][l[2]] \in Nat /\ stock[l[2]] \in Int /\ claim[l[1]][l[2]] \in Int
  BY <1>2, OrderStockAssumption DEF OrderInv, TypeOK
<1>6. ASSUME NEW o \in Orders, Unbegun(CheckoutOf[o])'
      PROVE  ~Exists(o)' /\ \A p \in Products : claim'[o][p] = 0
  <2>1. Unbegun(CheckoutOf[o]) /\ o # l[1]
    BY <1>1, <1>2, <1>6
  <2>2. \A p \in Products : claim'[o][p] = claim[o][p]
    BY <1>2, <1>3, <2>1
  <2> QED BY <2>1, <2>2 DEF StockInv, Exists
<1>7. ASSUME NEW o \in Orders, NEW p \in Products, Quantity[o][p] = 0 PROVE claim'[o][p] = 0
  <2>1. CASE <<o, p>> = l
    <3>1. o = l[1] /\ p = l[2] /\ claim[l[1]][l[2]] = 0
      BY <1>2, <1>7, <2>1 DEF StockInv
    <3> QED BY <1>3, <1>5, <1>7, <3>1
  <2>2. CASE <<o, p>> # l
    BY <1>3, <1>7, <2>2 DEF StockInv
  <2> QED BY <2>1, <2>2
<1>8. ASSUME NEW p \in Products PROVE Shifts(p)
  <2>1. CASE p = l[2]
    <3>1. \A x \in Orders \ {l[1]} : claim'[x][p] = claim[x][p]
      BY <1>2, <1>3
    <3>2. stock'[p] + claim'[l[1]][p] = stock[p] + claim[l[1]][p]
      <4>1. CASE sign = 1
        BY <1>3, <1>4, <1>5, <2>1, <4>1
      <4>2. CASE sign = -1
        BY <1>3, <1>4, <1>5, <2>1, <4>2
      <4> QED BY <4>1, <4>2
    <3> QED BY <1>2, <3>1, <3>2 DEF Shifts
  <2>2. CASE p # l[2]
    <3>1. \A x \in Orders : <<x, p>> # l
      BY <1>2, <2>2
    <3> QED BY <1>3, <1>4, <2>2, <3>1 DEF Shifts
  <2> QED BY <2>1, <2>2
<1>9. ASSUME NEW p \in Products PROVE AddsUp(p)'
  BY <1>8, AddsUpStill DEF StockInv, OrderInv, offer
<1>10. ASSUME NEW p \in Varied PROVE CountIsSum(p)'
  <2>1. Follows(p)
    BY LineFollows DEF OrderInv
  <2> QED BY <2>1, CountStill DEF StockInv, OrderInv, offer, Varied
<1>11. \A p \in Products : p \notin Varied => withdrawn'[p] = 0
  BY DEF StockInv, offer
<1> QED BY <1>6, <1>7, <1>9, <1>10, <1>11 DEF StockInv

\* A deduction, and an update that puts units back
LEMMA LineAddsUp ==
    ASSUME OrderInv, StockInv, TypeOK',
           \A v \in Workers : worker'[v].pc = "put" => ~Unbegun(CheckoutOf[worker[v].order])',
           \A k \in Checkouts : Unbegun(k)' => Unbegun(k),
           NEW l \in Lines, Take(l) \/ PutBack(l) \/ UNCHANGED <<stock, units, claim>>,
           ~Unbegun(CheckoutOf[l[1]]), UNCHANGED <<status, offer>>
    PROVE  StockInv'
<1>1. TypeOK
  BY DEF OrderInv
<1>2. CASE UNCHANGED <<stock, units, claim>>
  BY <1>2, StillAddsUp DEF Exists
<1>3. CASE Take(l)
  <2>1. Move(l[1], l[2], -1) /\ Units(l) \in Nat
    BY <1>1, <1>3, TakeMoves
  <2>2. CASE VariantOf(l) = NoVariant /\ units' = units
    BY <2>1, <2>2, MoveAddsUp
  <2>3. ASSUME NEW v \in ListedOf(l[2]), units' = [units EXCEPT ![v] = units[v] - Units(l)]
        PROVE  StockInv'
    <3>1. v \in Variants
      BY DEF ListedOf, VariantsOf
    <3>2. units[v] - Units(l) = units[v] + (-1) * Units(l)
      BY <1>1, <2>1, <3>1 DEF TypeOK
    <3>3. units' = [units EXCEPT ![v] = units[v] + (-1) * Units(l)]
      BY <2>3, <3>2
    <3> QED BY <2>1, <3>3, MoveAddsUp
  <2> QED BY <1>1, <1>3, <2>2, <2>3, TakeMoves
<1>4. CASE PutBack(l) /\ ~UNCHANGED <<stock, units, claim>>
  <2>1. Move(l[1], l[2], 1) /\ Units(l) \in Nat
    BY <1>1, <1>4, PutBackMoves
  <2>2. CASE VariantOf(l) = NoVariant /\ units' = units
    BY <2>1, <2>2, MoveAddsUp
  <2>3. ASSUME NEW v \in ListedOf(l[2]), units' = [units EXCEPT ![v] = units[v] + Units(l)]
        PROVE  StockInv'
    <3>1. units[v] + Units(l) = units[v] + 1 * Units(l)
      BY <2>1
    <3>2. units' = [units EXCEPT ![v] = units[v] + 1 * Units(l)]
      BY <2>3, <3>1
    <3> QED BY <2>1, <3>2, MoveAddsUp
  <2> QED BY <1>1, <1>4, <2>2, <2>3, PutBackMoves
<1> QED BY <1>2, <1>3, <1>4

\* How a step of a worker begins and ends
Onward(w) ==
    /\ \A v \in Workers \ {w} : worker'[v] = worker[v]
    /\ \A k \in Checkouts : outcome'[k] = "new" => outcome[k] = "new"
    /\ worker'[w].pc \in Early =>
          \/ worker[w].pc \in Early /\ worker'[w].checkout = worker[w].checkout
          \/ outcome[worker'[w].checkout] = "new"
    /\ worker'[w].pc = "put" =>
          \/ worker[w].pc = "put" /\ worker'[w].order = worker[w].order
          \/ worker'[w].order \in Orders /\ Exists(worker'[w].order)

LEMMA OnwardIs ==
    ASSUME OrderInv, NEW w \in Workers, NEW q, Set(w, q),
           \A k \in Checkouts : outcome'[k] = "new" => outcome[k] = "new",
           q.pc \notin Early, q.pc # "put"
    PROVE  Onward(w)
BY SetIs DEF Onward

LEMMA GoOnward ==
    ASSUME OrderInv, NEW w \in Workers, NEW step, Goto(w, step) \/ Proceed(w, step),
           \A k \in Checkouts : outcome'[k] = "new" => outcome[k] = "new",
           step \notin Early \/ worker[w].pc \in Early, step # "put"
    PROVE  Onward(w)
<1>1. /\ worker'[w].pc = step /\ worker'[w].checkout = worker[w].checkout
      /\ \A v \in Workers \ {w} : worker'[v] = worker[v]
  BY GotoIs, ProceedIs
<1> QED BY <1>1 DEF Onward

LEMMA RefuseOnward ==
    ASSUME OrderInv, NEW w \in Workers, Refuse(w)
    PROVE  Onward(w)
<1>1. \A k \in Checkouts : outcome'[k] = "new" => outcome[k] = "new"
  BY DEF Refuse, OrderInv, TypeOK
<1> QED BY <1>1, GoOnward DEF Refuse, Early

LEMMA NextOnward ==
    ASSUME OrderInv, NEW w \in Workers, NEW left, NextOrder(w, left)
    PROVE  Onward(w)
<1>1. CASE left = {}
  BY <1>1, RefuseOnward DEF NextOrder
<1>2. CASE left # {}
  <2> DEFINE q == [Idle EXCEPT !.pc = "roll", !.checkout = worker[w].checkout, !.left = left]
  <2>1. q.pc = "roll"
    BY DEF Idle
  <2>2. Set(w, q) /\ outcome' = outcome
    BY <1>2 DEF NextOrder
  <2> HIDE DEF q
  <2> QED BY <2>1, <2>2, OnwardIs DEF Early
<1> QED BY <1>1, <1>2

LEMMA MakesOnward ==
    ASSUME OrderInv, NEW w \in Workers,
           Again(w) \/ Transact(w) \/ Validate(w) \/ Create(w) \/ Deduct(w) \/ Attach(w)
    PROVE  Onward(w)
<1> USE DEF keyVars, Early
<1>0. worker[w] \in Worker
  BY DEF OrderInv, TypeOK
<1>1. CASE Again(w)
  <2>1. worker[w].pc \in Early /\ \A k \in Checkouts : outcome'[k] = "new" => outcome[k] = "new"
    BY <1>1 DEF Again, At, OrderInv, TypeOK
  <2>2. Goto(w, "unlock") \/ Goto(w, "transaction") \/ Goto(w, "validate")
    BY <1>1 DEF Again
  <2> QED BY <2>1, <2>2, GoOnward
<1>2. CASE Transact(w)
  <2>1. CASE Goto(w, "intent") /\ outcome' = outcome
    BY <2>1, GoOnward
  <2> QED BY <1>2, <2>1, RefuseOnward DEF Transact
<1>3. CASE Validate(w)
  <2> DEFINE q == [worker[w] EXCEPT !.pc = "create", !.left = OrdersOf(worker[w].checkout)]
  <2>1. q.pc = "create"
    BY <1>0 DEF Worker
  <2>2. Refuse(w) \/ (Set(w, q) /\ outcome' = outcome)
    BY <1>3 DEF Validate
  <2> HIDE DEF q
  <2> QED BY <2>1, <2>2, OnwardIs, RefuseOnward
<1>4. CASE Create(w)
  <2>1. PICK o \in worker[w].left :
          Set(w, [worker[w] EXCEPT !.pc = "deduct", !.order = o, !.todo = LinesOf({o}), !.left = @ \ {o}])
    BY <1>4 DEF Create
  <2> DEFINE q == [worker[w] EXCEPT !.pc = "deduct", !.order = o, !.todo = LinesOf({o}), !.left = @ \ {o}]
  <2>2. q.pc = "deduct" /\ Set(w, q) /\ outcome' = outcome
    BY <1>0, <1>4, <2>1 DEF Worker, Create
  <2> HIDE DEF q
  <2> QED BY <2>2, OnwardIs
<1>5. CASE Deduct(w)
  <2>1. PICK l \in worker[w].todo :
          \/ Goto(w, Undoing(w))
          \/ Set(w, [worker[w] EXCEPT !.todo = @ \ {l}, !.done = @ \cup {l},
                         !.pc = IF worker[w].todo = {l} THEN "attach" ELSE "deduct"])
    BY <1>5 DEF Deduct
  <2> DEFINE q == [worker[w] EXCEPT !.todo = @ \ {l}, !.done = @ \cup {l},
                      !.pc = IF worker[w].todo = {l} THEN "attach" ELSE "deduct"]
  <2>2. q.pc \in {"attach", "deduct"} /\ outcome' = outcome
    BY <1>0, <1>5 DEF Worker, Deduct
  <2>3. Set(w, q) \/ Goto(w, Undoing(w))
    BY <2>1
  <2> HIDE DEF q
  <2> QED BY <2>2, <2>3, OnwardIs, GoOnward DEF Undoing
<1>6. CASE Attach(w)
  BY <1>6, GoOnward DEF Attach
<1> QED BY <1>1, <1>2, <1>3, <1>4, <1>5, <1>6

LEMMA UnmakesOnward ==
    ASSUME OrderInv, NEW w \in Workers,
           \/ Undo(w) \/ UndoItems(w) \/ UndoOrders(w) \/ CreateIntent(w)
           \/ Roll(w) \/ RollPut(w) \/ RollSave(w) \/ Record(w) \/ Unlock(w)
    PROVE  Onward(w)
<1> USE DEF keyVars, Early
<1>0. worker[w] \in Worker
  BY DEF OrderInv, TypeOK
<1>1. CASE Undo(w)
  <2>1. PICK l \in worker[w].done :
          Set(w, [worker[w] EXCEPT !.done = @ \ {l},
                     !.pc = IF worker[w].done = {l} THEN "undo_items" ELSE "undo"])
    BY <1>1 DEF Undo
  <2> DEFINE q == [worker[w] EXCEPT !.done = @ \ {l},
                      !.pc = IF worker[w].done = {l} THEN "undo_items" ELSE "undo"]
  <2>2. q.pc \in {"undo_items", "undo"} /\ Set(w, q) /\ outcome' = outcome
    BY <1>0, <1>1, <2>1 DEF Worker, Undo
  <2> HIDE DEF q
  <2> QED BY <2>2, OnwardIs
<1>2. CASE UndoItems(w)
  BY <1>2, GoOnward DEF UndoItems
<1>3. CASE UndoOrders(w)
  BY <1>3, RefuseOnward DEF UndoOrders
<1>4. CASE CreateIntent(w)
  <2> DEFINE q == [worker[w] EXCEPT !.pc = "roll", !.left = OrdersOf(worker[w].checkout)]
  <2>1. q.pc = "roll" /\ outcome' = outcome
    BY <1>0, <1>4 DEF Worker, CreateIntent
  <2>2. Set(w, q) \/ Goto(w, "record")
    BY <1>4 DEF CreateIntent, RollBack
  <2> HIDE DEF q
  <2> QED BY <2>1, <2>2, OnwardIs, GoOnward
<1>5. CASE Roll(w)
  <2>1. PICK o \in worker[w].left :
          \/ NextOrder(w, worker[w].left \ {o})
          \/ /\ Set(w, [worker[w] EXCEPT !.left = @ \ {o}, !.order = o, !.todo = {o} \X items[o],
                           !.target = Written(o, "CANCELLED"),
                           !.pc = IF items[o] = {} THEN "roll_save" ELSE "roll_put"])
             /\ outcome' = outcome
    BY <1>5 DEF Roll
  <2> DEFINE q == [worker[w] EXCEPT !.left = @ \ {o}, !.order = o, !.todo = {o} \X items[o],
                           !.target = Written(o, "CANCELLED"),
                           !.pc = IF items[o] = {} THEN "roll_save" ELSE "roll_put"]
  <2>2. q.pc \in {"roll_save", "roll_put"}
    BY <1>0 DEF Worker
  <2>3. NextOrder(w, worker[w].left \ {o}) \/ (Set(w, q) /\ outcome' = outcome)
    BY <2>1
  <2> HIDE DEF q
  <2> QED BY <2>2, <2>3, OnwardIs, NextOnward
<1>6. CASE RollPut(w)
  <2>1. PICK l \in worker[w].todo :
          Set(w, [worker[w] EXCEPT !.todo = @ \ {l},
                     !.pc = IF worker[w].todo = {l} THEN "roll_save" ELSE "roll_put"])
    BY <1>6 DEF RollPut
  <2> DEFINE q == [worker[w] EXCEPT !.todo = @ \ {l},
                      !.pc = IF worker[w].todo = {l} THEN "roll_save" ELSE "roll_put"]
  <2>2. q.pc \in {"roll_save", "roll_put"} /\ Set(w, q) /\ outcome' = outcome
    BY <1>0, <1>6, <2>1 DEF Worker, RollPut
  <2> HIDE DEF q
  <2> QED BY <2>2, OnwardIs
<1>7. CASE RollSave(w)
  BY <1>7, NextOnward DEF RollSave
<1>8. CASE Record(w)
  <2>1. \A k \in Checkouts : outcome'[k] = "new" => outcome[k] = "new"
    BY <1>8 DEF Record, OrderInv, TypeOK
  <2> QED BY <1>8, <2>1, GoOnward DEF Record
<1>9. CASE Unlock(w)
  BY <1>9, OnwardIs DEF Unlock, Finish, Idle
<1> QED BY <1>1, <1>2, <1>3, <1>4, <1>5, <1>6, <1>7, <1>8, <1>9

LEMMA UpdatesOnward ==
    ASSUME OrderInv, NEW w \in Workers, Start(w) \/ Put(w) \/ Save(w) \/ Confirm(w) \/ Fail(w)
    PROVE  Onward(w)
<1> USE DEF keyVars, Early
<1>0. worker[w] \in Worker
  BY DEF OrderInv, TypeOK
<1>1. ASSUME NEW k \in Checkouts, Begin(w, k) PROVE Onward(w)
  <2> DEFINE q == [Idle EXCEPT !.pc = "again", !.checkout = k]
  <2>1. q.pc = "again" /\ q.checkout = k /\ Set(w, q) /\ outcome[k] = "new"
    BY <1>1 DEF Begin, Idle
  <2>2. \A j \in Checkouts : outcome'[j] = "new" => outcome[j] = "new"
    BY <1>1 DEF Begin, OrderInv, TypeOK
  <2> HIDE DEF q
  <2> QED BY <2>1, <2>2, SetIs DEF Onward
<1>2. ASSUME NEW o \in Orders, NEW target \in Targets, Update(w, o, target) PROVE Onward(w)
  <2> DEFINE q == [Idle EXCEPT !.order = o, !.target = target,
                     !.todo = IF PutsBack(target) THEN {o} \X items[o] ELSE {},
                     !.pc = IF PutsBack(target) /\ items[o] # {} THEN "put" ELSE "save"]
  <2>1. q.pc \in {"put", "save"} /\ q.order = o /\ Set(w, q) /\ outcome' = outcome /\ Exists(o)
    BY <1>2 DEF Update, Idle
  <2> HIDE DEF q
  <2> QED BY <2>1, SetIs DEF Onward
<1>3. ASSUME NEW i \in Keys, NEW o \in Orders, Capture(w, i, o) PROVE Onward(w)
  <2> DEFINE q == [Idle EXCEPT !.pc = "capture", !.order = o, !.target = Written(o, "CONFIRMED")]
  <2>1. q.pc = "capture" /\ Set(w, q) /\ outcome' = outcome
    BY <1>3 DEF Capture, Idle
  <2> HIDE DEF q
  <2> QED BY <2>1, OnwardIs
<1>4. CASE Put(w)
  <2>1. PICK l \in worker[w].todo :
          Set(w, [worker[w] EXCEPT !.todo = @ \ {l},
                     !.pc = IF worker[w].todo = {l} THEN "save" ELSE "put"])
    BY <1>4 DEF Put
  <2> DEFINE q == [worker[w] EXCEPT !.todo = @ \ {l},
                      !.pc = IF worker[w].todo = {l} THEN "save" ELSE "put"]
  <2>2. /\ q.pc \in {"save", "put"} /\ q.order = worker[w].order /\ Set(w, q) /\ outcome' = outcome
        /\ worker[w].pc = "put"
    BY <1>0, <1>4, <2>1 DEF Worker, Put, At
  <2> HIDE DEF q
  <2> QED BY <2>2, SetIs DEF Onward
<1>5. CASE Save(w) \/ Confirm(w) \/ UpdateFails(w) \/ Crash(w)
  <2>1. Finish(w) /\ outcome' = outcome
    BY <1>5 DEF Save, Confirm, UpdateFails, Crash
  <2> QED BY <2>1, OnwardIs DEF Finish, Idle
<1>6. CASE CreateFails(w)
  BY <1>6, GoOnward DEF CreateFails, Undoing
<1>7. CASE PopulateFails(w)
  BY <1>7, RefuseOnward DEF PopulateFails
<1>8. CASE RollFails(w)
  BY <1>8, NextOnward DEF RollFails
<1> QED BY <1>1, <1>2, <1>3, <1>4, <1>5, <1>6, <1>7, <1>8 DEF Start, Fail

LEMMA OnwardKeeps ==
    ASSUME OrderInv, StockInv, TypeOK', NEW w \in Workers, Onward(w)
    PROVE  /\ \A k \in Checkouts : Unbegun(k)' => Unbegun(k)
           /\ \A v \in Workers : worker'[v].pc = "put" => ~Unbegun(CheckoutOf[worker[v].order])'
<1>1. \A k \in Checkouts : Unbegun(k)' => Unbegun(k)
  BY BeginsOnce DEF Onward
<1> QED BY <1>1, PutsBegun DEF Onward

LEMMA OnwardAddsUp ==
    ASSUME OrderInv, StockInv, TypeOK', NEW w \in Workers, Onward(w),
           UNCHANGED <<stock, units, claim>>, UNCHANGED offer,
           \A o \in Orders : Exists(o)' => Exists(o) \/ ~Unbegun(CheckoutOf[o])
    PROVE  StockInv'
BY OnwardKeeps, StillAddsUp

\* createOrder as a transaction
LEMMA TransactFollows ==
    ASSUME TypeOK, NEW k \in Checkouts, NEW pick \in [Products -> Variants \cup {NoVariant}],
           \A p \in Products : PickedFor(k, p, pick[p]),
           units' = [v \in Variants |-> units[v] -
                       IF pick[ProductOf[v]] = v THEN Need(k, ProductOf[v]) ELSE 0],
           stock' = [p \in Products |-> stock[p] - Need(k, p)],
           NEW p \in Varied
    PROVE  Follows(p)
<1>1. p \in Products /\ NoVariant \notin Variants /\ PickedFor(k, p, pick[p])
  BY OrderStockAssumption DEF Varied
<1>2. \A v \in ListedOf(p) : v \in Variants /\ ProductOf[v] = p
  BY DEF ListedOf, VariantsOf
<1>3. stock'[p] = stock[p] - Need(k, p) /\ stock[p] \in Int
  BY <1>1 DEF TypeOK
<1>4. \A v \in ListedOf(p) : units'[v] = units[v] - (IF pick[p] = v THEN Need(k, p) ELSE 0) /\ units[v] \in Int
  BY <1>2 DEF TypeOK
<1>5. CASE Sells(k, p)
  <2> DEFINE o == OrderWith(k, p)
             l == <<o, p>>
  <2>1. o \in OrdersOf(k) /\ o \in Orders /\ Need(k, p) = Quantity[o][p]
    BY <1>5 DEF Sells, OrderWith, Need, OrdersOf
  <2>2. l \in Lines /\ l[2] = p /\ pick[p] \in Matched(l)
    BY <1>1, <1>5, <2>1 DEF Lines, PickedFor
  <2>3. Need(k, p) \in Nat
    BY <1>1, <2>1, OrderStockAssumption
  <2> HIDE DEF l, o
  <2>4. pick[p] \in ListedOf(p)
    <3>1. pick[p] \in ListedOf(p) \/ (pick[p] = VariantOf(l) /\ VariantOf(l) \in listed)
      BY <2>2 DEF Matched
    <3>2. VariantOf(l) \in listed => VariantOf(l) \in ListedOf(p)
      BY <2>2, LineVariant DEF TypeOK, ListedOf, VariantsOf
    <3> QED BY <3>1, <3>2
  <2>5. stock'[p] - units'[pick[p]] = stock[p] - units[pick[p]]
    BY <1>3, <1>4, <2>3, <2>4
  <2>6. \A x \in ListedOf(p) \ {pick[p]} : units'[x] = units[x]
    BY <1>4
  <2> QED BY <2>4, <2>5, <2>6 DEF Follows
<1>6. CASE ~Sells(k, p)
  <2>1. pick[p] = NoVariant /\ Need(k, p) = 0
    BY <1>1, <1>6 DEF PickedFor, Need
  <2>2. stock'[p] = stock[p] /\ \A v \in ListedOf(p) : units'[v] = units[v]
    BY <1>1, <1>2, <1>3, <1>4, <2>1
  <2> QED BY <2>2 DEF Follows
<1> QED BY <1>5, <1>6

LEMMA TransactAddsUp ==
    ASSUME OrderInv, StockInv, TypeOK', NEW w \in Workers, Transact(w)
    PROVE  StockInv'
<1>0. Onward(w) /\ worker[w].pc = "transaction"
  BY MakesOnward DEF Transact, At
<1>1. PICK k \in Checkouts : k = worker[w].checkout /\ k # Nobody /\ Unbegun(k) /\ outcome[k] # "new"
  BY <1>0, ScopeIs, KeyTypes DEF OrderInv, CheckoutSteps, Unbegun, Early
<1>2. CASE Refuse(w) /\ UNCHANGED <<stock, units, claim, status, items>>
  BY <1>0, <1>2, OnwardAddsUp DEF Exists, Transact
<1>3. CASE /\ \E pick \in [Products -> Variants \cup {NoVariant}] :
                 /\ \A p \in Products : PickedFor(k, p, pick[p])
                 /\ units' = [v \in Variants |-> units[v] -
                                IF pick[ProductOf[v]] = v THEN Need(k, ProductOf[v]) ELSE 0]
           /\ stock' = [p \in Products |-> stock[p] - Need(k, p)]
           /\ claim' = [o \in Orders |-> IF o \in OrdersOf(k) THEN Quantity[o] ELSE claim[o]]
           /\ status' = [o \in Orders |-> IF o \in OrdersOf(k) THEN "CONFIRMED" ELSE status[o]]
           /\ Goto(w, "intent") /\ UNCHANGED outcome
  <2>0. listed' = listed /\ withdrawn' = withdrawn
    BY DEF Transact, offer
  <2>1. ~Unbegun(k)'
    <3>1. worker'[w].pc = "intent" /\ \A v \in Workers \ {w} : worker'[v] = worker[v]
      BY <1>3, GotoIs
    <3>2. \A v \in Workers \ {w} : worker[v].checkout # k
      BY <1>1 DEF OrderInv, Single
    <3> QED BY <1>1, <1>3, <3>1, <3>2 DEF Unbegun, Early
  <2>2. \A o \in OrdersOf(k) : o \in Orders /\ CheckoutOf[o] = k /\ \A p \in Products : claim[o][p] = 0
    BY <1>1 DEF OrdersOf, StockInv
  <2>3. /\ \A k1 \in Checkouts : Unbegun(k1)' => Unbegun(k1)
        /\ \A v \in Workers : worker'[v].pc = "put" => ~Unbegun(CheckoutOf[worker[v].order])'
    BY <1>0, OnwardKeeps
  <2>4. ASSUME NEW o \in Orders, Unbegun(CheckoutOf[o])'
        PROVE  ~Exists(o)' /\ \A p \in Products : claim'[o][p] = 0
    <3>1. o \notin OrdersOf(k)
      BY <2>1, <2>4 DEF OrdersOf
    <3>2. CheckoutOf[o] \in Checkouts
      BY OrderStockAssumption
    <3>3. status'[o] = status[o] /\ claim'[o] = claim[o] /\ Unbegun(CheckoutOf[o])
      BY <1>3, <2>3, <2>4, <3>1, <3>2
    <3> QED BY <3>3 DEF StockInv, Exists
  <2>5. ASSUME NEW o \in Orders, NEW p \in Products, Quantity[o][p] = 0 PROVE claim'[o][p] = 0
    BY <1>3, <2>5 DEF StockInv
  <2>6. ASSUME NEW p \in Products PROVE Shifts(p)
    <3>1. stock'[p] = stock[p] - Need(k, p) /\ stock[p] \in Int
      BY <1>3 DEF OrderInv, TypeOK
    <3>2. \A x \in Orders : claim'[x][p] = IF x \in OrdersOf(k) THEN Quantity[x][p] ELSE claim[x][p]
      BY <1>3
    <3>3. CASE Sells(k, p)
      <4> DEFINE o == OrderWith(k, p)
      <4>1. o \in OrdersOf(k) /\ Quantity[o][p] > 0
        BY <3>3 DEF Sells, OrderWith
      <4>2. Need(k, p) = Quantity[o][p] /\ o \in Orders
        BY <2>2, <3>3, <4>1 DEF Need
      <4> HIDE DEF o
      <4>3. Quantity[o][p] \in Nat /\ Quantity[o][p] # 0
        BY <4>1, <4>2, OrderStockAssumption
      <4>4. \A x \in OrdersOf(k) : x # o => Quantity[x][p] = 0
        BY <2>2, <4>1, <4>3, OrderStockAssumption
      <4>5. \A x \in Orders \ {o} : claim'[x][p] = claim[x][p]
        BY <2>2, <3>2, <4>4
      <4>6. claim'[o][p] = Quantity[o][p] /\ claim[o][p] = 0
        BY <2>2, <3>2, <4>1
      <4>7. stock'[p] + claim'[o][p] = stock[p] + claim[o][p]
        BY <3>1, <4>2, <4>3, <4>6
      <4> QED BY <4>2, <4>5, <4>7 DEF Shifts
    <3>4. CASE ~Sells(k, p)
      <4>1. \A x \in OrdersOf(k) : Quantity[x][p] = 0
        BY <2>2, <3>4, OrderStockAssumption DEF Sells
      <4>2. Need(k, p) = 0
        BY <3>4 DEF Need
      <4> QED BY <2>2, <3>1, <3>2, <4>1, <4>2 DEF Shifts
    <3> QED BY <3>3, <3>4
  <2>7. ASSUME NEW p \in Products PROVE AddsUp(p)'
    BY <2>0, <2>6, AddsUpStill DEF StockInv, OrderInv
  <2>8. ASSUME NEW p \in Varied PROVE CountIsSum(p)'
    <3>1. Follows(p)
      BY <1>3, <2>8, TransactFollows DEF OrderInv
    <3> QED BY <2>0, <3>1, CountStill DEF StockInv, OrderInv, Varied
  <2>9. \A p \in Products : p \notin Varied => withdrawn'[p] = 0
    BY <2>0 DEF StockInv
  <2> QED BY <2>3, <2>4, <2>5, <2>7, <2>8, <2>9 DEF StockInv
<1> QED BY <1>1, <1>2, <1>3 DEF Transact

\* createOrder without transactions
LEMMA MakesAddUp ==
    ASSUME OrderInv, CalmInv, StockInv, TypeOK', NEW w \in Workers,
           Create(w) \/ Deduct(w) \/ Undo(w) \/ RollPut(w)
    PROVE  StockInv'
<1> DEFINE k == worker[w].checkout
<1>0. Onward(w) /\ worker[w].pc \in CheckoutSteps \ Early
  BY MakesOnward, UnmakesOnward DEF Create, Deduct, Undo, RollPut, At, CheckoutSteps, Early
<1>1. k \in Checkouts /\ ~Unbegun(k)
  BY <1>0, MakerHasBegun
<1>2. \A o \in OrdersOf(k) : CheckoutOf[o] = k /\ o \in Orders
  BY DEF OrdersOf
<1>3. Tidy(worker[w]) /\ worker[w].left \subseteq OrdersOf(k)
  BY DEF CalmInv, OrderInv, Knows
<1>4. CASE Create(w)
  <2>1. PICK o \in worker[w].left : status' = [status EXCEPT ![o] = "CONFIRMED"]
    BY <1>4 DEF Create
  <2>2. \A x \in Orders : Exists(x)' => Exists(x) \/ ~Unbegun(CheckoutOf[x])
    BY <1>1, <1>2, <1>3, <2>1 DEF Exists, OrderInv, TypeOK
  <2> QED BY <1>0, <1>4, <2>2, OnwardAddsUp DEF Create
<1>5. ASSUME NEW l \in Lines, Take(l) \/ PutBack(l) \/ UNCHANGED <<stock, units, claim>>,
             l[1] \in OrdersOf(k), UNCHANGED <<status, offer>>
      PROVE  StockInv'
  BY <1>0, <1>1, <1>2, <1>5, OnwardKeeps, LineAddsUp
<1>6. CASE Deduct(w)
  <2>1. UNCHANGED <<status, offer>> /\ worker[w].pc = "deduct"
    BY <1>6 DEF Deduct, At
  <2>2. PICK l \in worker[w].todo : Take(l) \/ UNCHANGED <<stock, units, claim>>
    BY <1>6 DEF Deduct
  <2>3. l \in Lines /\ l[1] \in OrdersOf(k)
    BY <1>3, <2>1, <2>2, LinesAre DEF Tidy
  <2> QED BY <1>5, <2>1, <2>2, <2>3
<1>7. CASE Undo(w)
  <2>1. UNCHANGED <<status, offer>> /\ worker[w].pc = "undo"
    BY <1>7 DEF Undo, At
  <2>2. PICK l \in worker[w].done : PutBack(l) \/ UNCHANGED <<stock, units, claim>>
    BY <1>7 DEF Undo
  <2>3. l \in Lines /\ l[1] \in OrdersOf(k)
    BY <1>3, <2>1, <2>2, LinesAre DEF Tidy, Undoes
  <2> QED BY <1>5, <2>1, <2>2, <2>3
<1>8. CASE RollPut(w)
  <2>1. UNCHANGED <<status, offer>> /\ worker[w].pc = "roll_put"
    BY <1>8 DEF RollPut, At
  <2>2. PICK l \in worker[w].todo : PutBack(l)
    BY <1>8 DEF RollPut
  <2>3. l \in Lines
    BY <2>2 DEF OrderInv, TypeOK, Worker
  <2>4. l[1] \in OrdersOf(k)
    BY <1>3, <2>1, <2>2 DEF Tidy
  <2> QED BY <1>5, <2>1, <2>2, <2>3, <2>4
<1> QED BY <1>4, <1>6, <1>7, <1>8

\* updateOrderStatus puts units back.
LEMMA PutAddsUp ==
    ASSUME OrderInv, CalmInv, StockInv, TypeOK', NEW w \in Workers, Put(w)
    PROVE  StockInv'
<1>1. Onward(w) /\ worker[w].pc = "put" /\ UNCHANGED <<status, offer>>
  BY UpdatesOnward DEF Put, At
<1>2. PICK l \in worker[w].todo : PutBack(l)
  BY DEF Put
<1>3. l \in Lines
  BY <1>2 DEF OrderInv, TypeOK, Worker
<1>4. worker[w].todo \subseteq {worker[w].order} \X Products
  BY <1>1 DEF CalmInv, Tidy
<1>5. l[1] = worker[w].order
  BY <1>2, <1>4
<1>6. ~Unbegun(CheckoutOf[l[1]])
  BY <1>1, <1>5 DEF StockInv
<1> QED BY <1>1, <1>2, <1>3, <1>6, OnwardKeeps, LineAddsUp

\* The other steps move no units.
LEMMA RestAddsUp ==
    ASSUME OrderInv, StockInv, TypeOK', NEW w \in Workers,
           \/ Again(w) \/ Validate(w) \/ Attach(w) \/ UndoItems(w) \/ UndoOrders(w)
           \/ CreateIntent(w) \/ Roll(w) \/ RollSave(w) \/ Record(w) \/ Unlock(w)
           \/ Save(w) \/ Confirm(w) \/ Start(w) \/ Fail(w)
    PROVE  StockInv'
<1> USE DEF storeVars, offer
<1>1. Onward(w)
  BY MakesOnward, UnmakesOnward, UpdatesOnward
<1>2. UNCHANGED <<stock, units, claim>> /\ UNCHANGED offer
  BY DEF Again, Validate, Attach, UndoItems, UndoOrders, CreateIntent, Roll, RollSave, Record, Unlock,
         Save, Confirm, Start, Begin, Update, Capture, Fail, CreateFails, PopulateFails, RollFails,
         UpdateFails, Crash
<1>3. ASSUME NEW o \in Orders, Exists(o)' PROVE Exists(o)
  <2>1. CASE status' = status
    BY <1>3, <2>1 DEF Exists
  <2>2. CASE UndoOrders(w)
    BY <1>3, <2>2 DEF UndoOrders, Exists, OrderInv, TypeOK
  <2>3. ASSUME NEW x, NEW written, Exists(x), Write(x, written) PROVE Exists(o)
    BY <1>3, <2>3 DEF Write, Exists, OrderInv, TypeOK
  <2>4. CASE RollSave(w)
    BY <2>1, <2>3, <2>4 DEF RollSave
  <2>5. CASE Save(w)
    BY <2>1, <2>3, <2>5 DEF Save
  <2>6. CASE Confirm(w)
    BY <2>1, <2>3, <2>6 DEF Confirm
  <2>7. CASE Again(w) \/ Validate(w) \/ Attach(w) \/ UndoItems(w) \/ CreateIntent(w) \/ Roll(w)
             \/ Record(w) \/ Unlock(w) \/ Start(w) \/ Fail(w)
    BY <2>1, <2>7 DEF Again, Validate, Attach, UndoItems, CreateIntent, Roll, Record, Unlock,
         Start, Begin, Update, Capture, Fail, CreateFails, PopulateFails, RollFails, UpdateFails, Crash
  <2> QED BY <2>2, <2>4, <2>5, <2>6, <2>7
<1> QED BY <1>1, <1>2, <1>3, OnwardAddsUp

LEMMA BesideAddsUp ==
    ASSUME OrderInv, StockInv, TypeOK', UNCHANGED <<stock, units, claim, worker, outcome>>, UNCHANGED offer,
           \A o \in Orders : Exists(o)' => Exists(o)
    PROVE  StockInv'
<1>1. \A k \in Checkouts : Unbegun(k)' => Unbegun(k)
  BY DEF Unbegun
<1>2. ASSUME NEW v \in Workers, worker'[v].pc = "put" PROVE ~Unbegun(CheckoutOf[worker[v].order])'
  BY <1>2 DEF StockInv, Unbegun
<1> QED BY <1>1, <1>2, StillAddsUp

LEMMA InitAddsUp == Init => StockInv
<1> SUFFICES ASSUME Init PROVE StockInv
  OBVIOUS
<1>1. \A w \in Workers : worker[w].pc = "idle"
  BY DEF Init, Idle
<1>2. ASSUME NEW o \in Orders PROVE ~Exists(o) /\ \A p \in Products : claim[o][p] = 0
  BY DEF Init, Exists
<1>3. ASSUME NEW p \in Products PROVE AddsUp(p)
  <2> DEFINE c == [o \in Orders |-> claim[o][p]]
  <2>1. \A o \in Orders : c[o] = 0
    BY <1>2
  <2> HIDE DEF c
  <2>2. UnitsOf(c, Orders) = {} /\ Shortage(c, Orders) = {}
    <3>1. \A o \in Orders : 1 .. c[o] = {} /\ 1 .. (0 - c[o]) = {}
      BY <2>1
    <3> QED BY <3>1 DEF UnitsOf, Shortage
  <2>3. Total(c, Orders) = 0
    BY <2>2, FS_EmptySet DEF Total
  <2>4. stock[p] = Shelf[p] /\ Shelf[p] \in Nat /\ withdrawn[p] = 0
    BY OrderStockAssumption DEF Init
  <2> QED BY <2>3, <2>4 DEF c, AddsUp, Taken
<1>4. ASSUME NEW p \in Varied PROVE CountIsSum(p)
  <2>1. ListedOf(p) = VariantsOf(p)
    BY DEF Init, ListedOf, VariantsOf
  <2> QED BY <2>1, OrderStockAssumption DEF Init, CountIsSum
<1>5. \A p \in Products : withdrawn[p] = 0
  BY DEF Init
<1> QED BY <1>1, <1>2, <1>3, <1>4, <1>5 DEF StockInv

\* A seller removes a variant: the units that it had are withdrawn.
LEMMA RemoveAddsUp ==
    ASSUME OrderInv, StockInv, TypeOK', NEW v \in Variants, RemoveVariant(v)
    PROVE  StockInv'
<1>1. PICK r \in Products : r = ProductOf[v]
  BY OrderStockAssumption
<1>2. PICK S \in SUBSET Variants : S = ListedOf(r)
  BY DEF ListedOf, VariantsOf
<1>3. /\ v \in S /\ listed' = listed \ {v}
      /\ stock' = [stock EXCEPT ![r] = Total(units, S \ {v})]
      /\ withdrawn' = [withdrawn EXCEPT ![r] = @ + units[v]]
      /\ UNCHANGED <<units, status, claim, worker>> /\ outcome' = outcome
  BY <1>1, <1>2 DEF RemoveVariant, ListedOf, VariantsOf, keyVars
<1>4. /\ stock \in [Products -> Int] /\ withdrawn \in [Products -> Int] /\ units \in [Variants -> Int]
      /\ IsFiniteSet(Variants) /\ Shelf[r] \in Nat
  BY OrderStockAssumption DEF OrderInv, TypeOK
<1>5. r \in Varied
  BY <1>1 DEF Varied, VariantsOf
<1>6. Taken(r) \in Int /\ \A p \in Products : Taken(p)' = Taken(p)
  <2> DEFINE c == [x \in Orders |-> claim[x][r]]
  <2>1. c \in [Orders -> Int] /\ IsFiniteSet(Orders)
    BY OrderStockAssumption DEF OrderInv, TypeOK
  <2> HIDE DEF c
  <2>2. Total(c, Orders) \in Int
    BY <2>1, TotalType
  <2> QED BY <1>3, <2>2 DEF c, Taken, Total, UnitsOf, Shortage
<1>7. ASSUME NEW p \in Products PROVE AddsUp(p)'
  <2>1. CASE p = r
    <3>1. /\ Total(units, S) = Total(units, S \ {v}) + units[v]
          /\ Total(units, S \ {v}) \in Int /\ units[v] \in Int
      BY <1>3, <1>4, TotalSplit, TotalType
    <3>2. stock[r] = Total(units, S) /\ stock[r] + Taken(r) + withdrawn[r] = Shelf[r]
      BY <1>2, <1>5 DEF StockInv, CountIsSum, AddsUp
    <3>3. stock'[r] = Total(units, S \ {v}) /\ withdrawn'[r] = withdrawn[r] + units[v]
      BY <1>3, <1>4
    <3>4. stock'[r] + Taken(r) + withdrawn'[r] = Shelf[r]
      BY <1>4, <1>6, <3>1, <3>2, <3>3
    <3> QED BY <1>6, <2>1, <3>4 DEF AddsUp
  <2>2. CASE p # r
    <3>1. stock'[p] = stock[p] /\ withdrawn'[p] = withdrawn[p]
      BY <1>3, <1>4, <2>2
    <3> QED BY <1>6, <3>1 DEF AddsUp, StockInv
  <2> QED BY <2>1, <2>2
<1>8. ASSUME NEW p \in Varied PROVE CountIsSum(p)'
  <2>1. CASE p = r
    <3>1. ListedOf(p)' = S \ {v}
      BY <1>2, <1>3, <2>1 DEF ListedOf
    <3>2. stock'[p] = Total(units, S \ {v})
      BY <1>3, <1>4, <2>1
    <3> QED BY <1>3, <3>1, <3>2 DEF CountIsSum, Total, UnitsOf, Shortage
  <2>2. CASE p # r
    <3>1. ListedOf(p)' = ListedOf(p)
      BY <1>1, <1>3, <2>2 DEF ListedOf, VariantsOf
    <3>2. stock'[p] = stock[p]
      BY <1>3, <1>4, <2>2 DEF Varied
    <3> QED BY <1>3, <3>1, <3>2 DEF CountIsSum, StockInv, Total, UnitsOf, Shortage
  <2> QED BY <2>1, <2>2
<1>9. \A p \in Products : p \notin Varied => withdrawn'[p] = 0
  BY <1>3, <1>4, <1>5 DEF StockInv
<1>10. \A k \in Checkouts : Unbegun(k)' => Unbegun(k)
  BY <1>3 DEF Unbegun
<1>11. ASSUME NEW o \in Orders, Unbegun(CheckoutOf[o])'
       PROVE  ~Exists(o)' /\ \A p \in Products : claim'[o][p] = 0
  BY <1>3, <1>10, <1>11, OrderStockAssumption DEF StockInv, Exists
<1>12. \A w \in Workers : worker'[w].pc = "put" => ~Unbegun(CheckoutOf[worker[w].order])'
  BY <1>3 DEF StockInv, Unbegun
<1>13. \A o \in Orders : \A p \in Products : Quantity[o][p] = 0 => claim'[o][p] = 0
  BY <1>3 DEF StockInv
<1> QED BY <1>7, <1>8, <1>9, <1>11, <1>12, <1>13 DEF StockInv

LEMMA NextAddsUp == OrderInv /\ CalmInv /\ StockInv /\ [Next]_vars => StockInv'
<1> SUFFICES ASSUME OrderInv, CalmInv, StockInv, [Next]_vars PROVE StockInv'
  OBVIOUS
<1>1. TypeOK'
  BY TypeStep DEF OrderInv
<1>2. ASSUME NEW w \in Workers, Advance(w) \/ Start(w) \/ Fail(w) PROVE StockInv'
  BY <1>1, <1>2, TransactAddsUp, MakesAddUp, PutAddsUp, RestAddsUp DEF Advance, Checkout
<1>3. ASSUME NEW o \in Orders, Deliver(o) PROVE StockInv'
  <2>1. \A x \in Orders : Exists(x)' => Exists(x)
    BY <1>3 DEF Deliver, Exists, OrderInv, TypeOK
  <2> QED BY <1>1, <1>3, <2>1, BesideAddsUp DEF Deliver, keyVars
<1>4. ASSUME NEW v \in Variants, RemoveVariant(v) PROVE StockInv'
  BY <1>1, <1>4, RemoveAddsUp
<1>5. ASSUME NEW i \in Keys, Expire(i) PROVE StockInv'
  BY <1>1, <1>5, BesideAddsUp DEF Expire, storeVars, offer, Exists
<1>6. CASE UNCHANGED vars
  BY <1>1, <1>6, BesideAddsUp DEF vars, storeVars, offer, keyVars, Exists
<1> QED BY <1>2, <1>3, <1>4, <1>5, <1>6 DEF Next

LEMMA StockInvariance == Spec => [](OrderInv /\ CalmInv /\ StockInv)
<1>1. Init => StockInv
  BY InitAddsUp
<1>2. StockInv /\ (OrderInv /\ CalmInv /\ AllOffered) /\ [Next]_vars => StockInv'
  BY NextAddsUp
<1> QED BY <1>1, <1>2, CalmInvariant, PTL DEF Spec

LEMMA CalmClaims ==
    ASSUME OrderInv, CalmInv, NEW o \in calm, o \notin InUse, NEW p \in Products
    PROVE  claim[o][p] = IF Live(o) THEN Quantity[o][p] ELSE 0
<1>1. o \in Orders /\ Claims(o, IF Live(o) THEN LinesOf({o}) ELSE {})
  BY DEF OrderInv, TypeOK, CalmInv, Settled
<1>2. <<o, p>> \in LinesOf({o}) <=> Quantity[o][p] > 0
  BY <1>1, LineIs
<1>3. Quantity[o][p] > 0 \/ Quantity[o][p] = 0
  BY <1>1, OrderStockAssumption
<1> QED BY <1>1, <1>2, <1>3 DEF Claims

\* createOrder with its compensation, rollbackOrders and the restocking of updateOrderStatus
\* lose no unit and make none in a product's count, whichever variant they count down and
\* whether or not their updates match one, and keep the units of an order whose variants are
\* there and its status together, whatever the other orders do.
THEOREM UnitsAreTaken == Spec => []UnitsFollowStatus
<1>1. ASSUME OrderInv, CalmInv, StockInv PROVE UnitsFollowStatus
  <2>1. ASSUME NEW o \in calm, o \notin InUse, NEW p \in Products
        PROVE  claim[o][p] = IF Live(o) THEN Quantity[o][p] ELSE 0
    BY <1>1, <2>1, CalmClaims
  <2>2. \A p \in Products : stock[p] + Taken(p) + withdrawn[p] = Shelf[p]
    BY <1>1 DEF StockInv, AddsUp
  <2> QED BY <2>1, <2>2 DEF UnitsFollowStatus, AtRest
<1> QED BY <1>1, StockInvariance, PTL

\* The units of a product in the orders that live
Sold(p) == UNION {{o} \X (1 .. Quantity[o][p]) : o \in {x \in Orders : Live(x)}}

\* What the live orders have of a product, what its count says is on the shelf and what went
\* with removed variants are together what was there at first, unless operations overlapped
\* on one of its orders, one failed there half-way, or the variant of one was removed. So
\* no more of a product without variants is sold than there was. (Of one with variants there
\* may be: its count is then negative by as many units.)
NothingOversold ==
    \A p \in Products :
        (\A o \in Orders : Quantity[o][p] > 0 => o \in calm /\ AtRest(o)) =>
            /\ stock[p] + Cardinality(Sold(p)) + withdrawn[p] = Shelf[p]
            /\ p \notin Varied => Cardinality(Sold(p)) <= Shelf[p]

\* The $gte deduction, the transaction, the compensation, the roll-back and the restocking
\* together keep the stock of a product true, whatever happens to other products' orders,
\* and never sell a product without variants more often than it was there.
THEOREM PlainStockIsNeverOversold == Spec => []NothingOversold
<1>1. ASSUME OrderInv, CalmInv, StockInv PROVE NothingOversold
  <2> SUFFICES ASSUME NEW p \in Products,
                      \A o \in Orders : Quantity[o][p] > 0 => o \in calm /\ o \notin InUse
               PROVE  /\ stock[p] + Cardinality(Sold(p)) + withdrawn[p] = Shelf[p]
                      /\ p \notin Varied => Cardinality(Sold(p)) <= Shelf[p]
    BY DEF NothingOversold, AtRest
  <2> DEFINE c == [o \in Orders |-> claim[o][p]]
  <2>1. ASSUME NEW o \in Orders
        PROVE  c[o] = (IF Live(o) THEN Quantity[o][p] ELSE 0) /\ Quantity[o][p] \in Nat
    <3>1. Quantity[o][p] \in Nat
      BY OrderStockAssumption
    <3>2. CASE Quantity[o][p] > 0
      BY <1>1, <3>1, <3>2, CalmClaims
    <3>3. CASE Quantity[o][p] = 0
      BY <1>1, <3>1, <3>3 DEF StockInv
    <3> QED BY <3>1, <3>2, <3>3
  <2>2. c \in [Orders -> Int] /\ IsFiniteSet(Orders) /\ Taken(p) = Total(c, Orders)
    BY <1>1, OrderStockAssumption DEF OrderInv, TypeOK, Taken
  <2> HIDE DEF c
  <2>3. Shortage(c, Orders) = {}
    <3>1. \A o \in Orders : 1 .. (0 - c[o]) = {}
      BY <2>1
    <3> QED BY <3>1 DEF Shortage
  <2>4. UnitsOf(c, Orders) = Sold(p)
    <3>1. \A o \in Orders : ~Live(o) => 1 .. c[o] = {}
      BY <2>1
    <3>2. \A o \in Orders : Live(o) => c[o] = Quantity[o][p]
      BY <2>1
    <3> QED BY <3>1, <3>2 DEF UnitsOf, Sold
  <2>5. Cardinality(Sold(p)) \in Nat
    BY <2>2, <2>4, UnitsAreFinite
  <2>6. Taken(p) = Cardinality(Sold(p))
    BY <2>2, <2>3, <2>4, <2>5, FS_EmptySet DEF Total
  <2>7. stock[p] + Cardinality(Sold(p)) + withdrawn[p] = Shelf[p]
    BY <1>1, <2>6 DEF StockInv, AddsUp
  <2>8. stock[p] \in Int /\ Shelf[p] \in Nat /\ (p \notin Varied => stock[p] >= 0 /\ withdrawn[p] = 0)
    BY <1>1, OrderStockAssumption DEF OrderInv, TypeOK, StockInv
  <2> QED BY <2>5, <2>7, <2>8
<1> QED BY <1>1, StockInvariance, PTL

\* A checkout makes every order with all its items or leaves none, with and without
\* transactions.
THEOREM CheckoutsAreAtomic == Spec => []CheckoutIsAtomic
<1>1. OrderInv /\ CalmInv => CheckoutIsAtomic
  BY DEF CheckoutIsAtomic, CalmInv, Settled, AtRest, OrdersOf, Unpaid
<1> QED BY <1>1, CalmInvariant, PTL

\* No step of an operation that works alone on an order takes it out of CANCELLED.
THEOREM CancelledOrdersStay == Spec => CancelledStays
<1>1. OrderInv /\ CalmInv /\ [Next]_vars =>
        [\A o \in calm : status[o] = "CANCELLED" /\ status'[o] # "CANCELLED" => o \notin calm']_vars
  <2> SUFFICES ASSUME OrderInv, CalmInv, Next, NEW o \in calm, status[o] = "CANCELLED", o \in calm'
               PROVE  status'[o] = "CANCELLED"
    OBVIOUS
  <2>1. ASSUME NEW w \in Workers, Start(w) \/ Advance(w) \/ Fail(w) PROVE status'[o] = "CANCELLED"
    BY <2>1, KeepsCancelled
  <2>2. ASSUME NEW x \in Orders, Deliver(x) PROVE status'[o] = "CANCELLED"
    <3>1. x # o
      BY <2>2 DEF Deliver, Restocked
    <3> QED BY <2>2, <3>1 DEF Deliver, OrderInv, TypeOK
  <2>3. ASSUME NEW i \in Keys, Expire(i) PROVE status'[o] = "CANCELLED"
    BY <2>3 DEF Expire, storeVars
  <2>4. ASSUME NEW v \in Variants, RemoveVariant(v) PROVE status'[o] = "CANCELLED"
    BY <2>4 DEF RemoveVariant
  <2> QED BY <2>1, <2>2, <2>3, <2>4 DEF Next
<1> QED BY <1>1, CalmInvariant, PTL DEF Spec, CancelledStays
=============================================================================
