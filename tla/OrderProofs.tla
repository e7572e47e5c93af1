---------------------------- MODULE OrderProofs ----------------------------
(***************************************************************************)
(* Theorems about OrderStock: its type invariant (with the stock of every  *)
(* product without variants at least zero), KeyPlacesOnce,                 *)
(* StrayCaptureNeedsRetry and ShippedIsPaid, for every set of workers,     *)
(* carts, keys and products.                                               *)
(*                                                                         *)
(* None of the last three is inductive: what a worker writes at a later    *)
(* step rests on what it read before. OrderInv adds what each worker knows *)
(* at its step (Knows), that it holds its lock until that expires          *)
(* (Locked), and how intents, answers and outcomes agree (Stored,          *)
(* Recorded). Frame says what a step of one worker may change of what the  *)
(* others rely on.                                                         *)
(***************************************************************************)
EXTENDS OrderStock, FiniteSetTheorems, TLAPS

\* The steps of initiateCheckout, and those of them at which it has found no stored answer
CheckoutSteps ==
    {"again", "validate", "transaction", "create", "deduct", "attach", "undo", "undo_items",
     "undo_orders", "intent", "roll", "roll_put", "roll_save", "record", "unlock"}
Placing == CheckoutSteps \ {"again", "unlock"}

Answered(o) == answer[key[CheckoutOf[o]]] # Nobody
PaidFor(o) == pay[o] = "CAPTURED" \/ key[CheckoutOf[o]] \in expired

\* What a worker knows at its step
Knows(w) ==
    /\ worker[w].pc \in CheckoutSteps <=> worker[w].checkout # Nobody
    /\ worker[w].pc \in CheckoutSteps \ {"unlock"} => outcome[worker[w].checkout] = "running"
    /\ worker[w].pc = "unlock" => outcome[worker[w].checkout] # "new"
    /\ worker[w].left \subseteq OrdersOf(worker[w].checkout)
    /\ worker[w].pc \in {"roll_put", "roll_save"} =>
          worker[w].order \in OrdersOf(worker[w].checkout) /\ worker[w].target \in {"CANCELLED", "ABSENT"}
    /\ worker[w].pc = "capture" =>
          /\ worker[w].order \in Orders /\ Answered(worker[w].order)
          /\ worker[w].target \in {"CONFIRMED", "ABSENT"}
    /\ worker[w].pc \in {"put", "save"} =>
          /\ worker[w].order \in Orders
          /\ worker[w].target = "SHIPPED" => PaidFor(worker[w].order)

\* It holds the lock of its checkout's key until that expires, and looks for an answer under it.
Locked(w) ==
    worker[w].checkout # Nobody /\ key[worker[w].checkout] \notin expired =>
        /\ holder[key[worker[w].checkout]] = w
        /\ worker[w].pc \in Placing => answer[key[worker[w].checkout]] = Nobody

\* No two workers handle one checkout.
Single ==
    \A v, w \in Workers :
        v # w /\ worker[v].checkout # Nobody => worker[w].checkout # worker[v].checkout

\* What is stored under a key
Stored(i) ==
    /\ \A o \in intent[i] : key[CheckoutOf[o]] = i
    /\ answer[i] # Nobody => outcome[answer[i]] = "placed" /\ key[answer[i]] = i

\* The answer under a key is that of the checkout that was placed.
Recorded(k) == outcome[k] = "placed" /\ key[k] \notin expired => answer[key[k]] = k

\* Only an order of a key with an answer is paid.
PaidIsAnswered == \A o \in Orders : pay[o] = "CAPTURED" => Answered(o)

OrderInv ==
    /\ TypeOK
    /\ \A w \in Workers : Knows(w) /\ Locked(w)
    /\ Single
    /\ \A i \in Keys : Stored(i)
    /\ \A k \in Checkouts : Recorded(k)
    /\ PaidIsAnswered
    /\ ShippedIsPaid

-----------------------------------------------------------------------------
LEMMA IdleType == Idle \in Worker
BY DEF Worker, Idle, Steps, OrderIds, CheckoutIds, OrderDocs

LEMMA Locals ==
    /\ Idle \in Worker
    /\ \A q \in Worker : \A step \in Steps : [q EXCEPT !.pc = step] \in Worker
    /\ \A c \in CheckoutIds : \A step \in Steps : [Idle EXCEPT !.pc = step, !.checkout = c] \in Worker
<1>1. Idle \in Worker
  BY IdleType
<1>2. ASSUME NEW q \in Worker, NEW step \in Steps PROVE [q EXCEPT !.pc = step] \in Worker
  BY DEF Worker
<1>3. ASSUME NEW c \in CheckoutIds, NEW step \in Steps
      PROVE  [Idle EXCEPT !.pc = step, !.checkout = c] \in Worker
  BY <1>1 DEF Worker
<1> QED BY <1>1, <1>2, <1>3

LEMMA TypeInit == Init => TypeOK
<1> SUFFICES ASSUME Init PROVE TypeOK
  OBVIOUS
<1>1. worker \in [Workers -> Worker]
  BY Locals DEF Init
<1>2. /\ deployment \in Deployments /\ key \in [Checkouts -> Keys]
      /\ stock \in [Products -> Int] /\ (\A p \in Products : p \notin Varied => stock[p] >= 0)
      /\ units \in [Variants -> Int] /\ listed \subseteq Variants
      /\ withdrawn \in [Products -> Int] /\ claim \in [Orders -> [Products -> Int]]
      /\ items \in [Orders -> SUBSET Products] /\ intent \in [Keys -> SUBSET Orders]
      /\ answer \in [Keys -> CheckoutIds] /\ holder \in [Keys -> Workers \cup {Free, Orphan}]
      /\ calm \subseteq Orders /\ expired \subseteq Keys /\ events \in Nat
  BY OrderStockAssumption DEF Init, CheckoutIds
<1>3. /\ status \in [Orders -> OrderDocs] /\ pay \in [Orders -> {"PENDING", "CAPTURED", "FAILED"}]
      /\ outcome \in [Checkouts -> Outcomes]
  BY DEF Init, OrderDocs, Outcomes
<1> QED BY <1>1, <1>2, <1>3 DEF TypeOK

LEMMA SetType ==
    ASSUME TypeOK, NEW w \in Workers, NEW q \in Worker, Set(w, q)
    PROVE  worker' \in [Workers -> Worker]
BY DEF TypeOK, Set

LEMMA GoType ==
    ASSUME TypeOK, NEW w \in Workers, NEW step \in Steps, Goto(w, step) \/ Proceed(w, step)
    PROVE  worker' \in [Workers -> Worker]
<1>1. worker[w] \in Worker /\ worker[w].checkout \in CheckoutIds
  BY DEF TypeOK, Worker
<1>2. CASE Goto(w, step)
  BY <1>1, <1>2, Locals, SetType DEF Goto
<1>3. CASE Proceed(w, step)
  BY <1>1, <1>3, Locals, SetType DEF Proceed
<1> QED BY <1>2, <1>3

LEMMA RefuseType ==
    ASSUME TypeOK, NEW w \in Workers, Refuse(w)
    PROVE  worker' \in [Workers -> Worker] /\ outcome' \in [Checkouts -> Outcomes]
<1>1. worker' \in [Workers -> Worker]
  BY GoType DEF Refuse, Steps
<1> QED BY <1>1 DEF Refuse, TypeOK, Outcomes

-----------------------------------------------------------------------------
(* Sums of counts that may be negative.                                    *)

LEMMA OwnUnits ==
    ASSUME NEW o, NEW n \in Int
    PROVE  /\ IsFiniteSet({o} \X (1 .. n))
           /\ Cardinality({o} \X (1 .. n)) = IF n > 0 THEN n ELSE 0
<1>1. IsFiniteSet(1 .. n) /\ Cardinality(1 .. n) = IF n > 0 THEN n ELSE 0
  BY FS_Interval
<1>2. IsFiniteSet({o}) /\ Cardinality({o}) = 1
  BY FS_Singleton
<1>3. /\ IsFiniteSet({o} \X (1 .. n))
      /\ Cardinality({o} \X (1 .. n)) = 1 * Cardinality(1 .. n)
  BY <1>1, <1>2, FS_Product
<1> QED BY <1>1, <1>3

LEMMA UnitsAreFinite ==
    ASSUME NEW I, IsFiniteSet(I), NEW c \in [I -> Int], NEW S \in SUBSET I
    PROVE  IsFiniteSet(UnitsOf(c, S)) /\ Cardinality(UnitsOf(c, S)) \in Nat
<1> DEFINE Own(x) == {x} \X (1 .. c[x])
           f == [x \in S |-> Own(x)]
           T == {Own(x) : x \in S}
<1>1. IsFiniteSet(S)
  BY FS_Subset
<1>2. f \in Surjection(S, T)
  BY DEF Surjection
<1>3. IsFiniteSet(T)
  BY <1>1, <1>2, FS_Surjection
<1>4. \A x \in S : IsFiniteSet(Own(x))
  BY OwnUnits
<1>5. IsFiniteSet(UNION T)
  BY <1>3, <1>4, FS_UNION
<1> QED BY <1>5, FS_CardinalityType DEF UnitsOf

LEMMA UnitsSplit ==
    ASSUME NEW I, IsFiniteSet(I), NEW c \in [I -> Int], NEW S \in SUBSET I, NEW i \in S
    PROVE  Cardinality(UnitsOf(c, S)) =
             Cardinality(UnitsOf(c, S \ {i})) + (IF c[i] > 0 THEN c[i] ELSE 0)
<1> DEFINE Own == {i} \X (1 .. c[i])
           Rest == UnitsOf(c, S \ {i})
<1>1. IsFiniteSet(Own) /\ Cardinality(Own) = IF c[i] > 0 THEN c[i] ELSE 0
  BY OwnUnits
<1>2. IsFiniteSet(Rest) /\ Cardinality(Rest) \in Nat
  BY UnitsAreFinite
<1>3. UnitsOf(c, S) = Rest \cup Own
  BY DEF UnitsOf
<1>4. Rest \cap Own = {}
  <2>1. \A u \in Rest : u[1] # i
    BY DEF UnitsOf
  <2> QED BY <2>1
<1> HIDE DEF Own, Rest
<1>5. Cardinality(Rest \cup Own) = Cardinality(Rest) + Cardinality(Own) - Cardinality({})
  BY <1>1, <1>2, <1>4, FS_Union
<1>6. Cardinality({}) = 0
  BY FS_EmptySet
<1>7. Cardinality(UnitsOf(c, S)) = Cardinality(Rest) + Cardinality(Own)
  BY <1>1, <1>2, <1>3, <1>5, <1>6
<1> QED BY <1>1, <1>7 DEF Rest

LEMMA TotalType ==
    ASSUME NEW I, IsFiniteSet(I), NEW c \in [I -> Int], NEW S \in SUBSET I
    PROVE  Total(c, S) \in Int
<1> DEFINE minus == [x \in I |-> 0 - c[x]]
<1>0. minus \in [I -> Int]
  OBVIOUS
<1>1. Shortage(c, S) = UnitsOf(minus, S)
  BY DEF Shortage, UnitsOf
<1>2. Cardinality(UnitsOf(c, S)) \in Nat /\ Cardinality(UnitsOf(minus, S)) \in Nat
  BY <1>0, UnitsAreFinite
<1> HIDE DEF minus
<1> QED BY <1>1, <1>2 DEF Total

\* A sum is that of the others and the count itself.
LEMMA TotalSplit ==
    ASSUME NEW I, IsFiniteSet(I), NEW c \in [I -> Int], NEW S \in SUBSET I, NEW i \in S
    PROVE  Total(c, S) = Total(c, S \ {i}) + c[i]
<1> DEFINE minus == [x \in I |-> 0 - c[x]]
           R == S \ {i}
<1>1. /\ minus \in [I -> Int] /\ minus[i] = 0 - c[i] /\ c[i] \in Int
      /\ Shortage(c, S) = UnitsOf(minus, S) /\ Shortage(c, R) = UnitsOf(minus, R)
  BY DEF Shortage, UnitsOf
<1>2. Cardinality(UnitsOf(c, R)) \in Nat /\ Cardinality(UnitsOf(minus, R)) \in Nat
  BY <1>1, UnitsAreFinite
<1>3. /\ Cardinality(UnitsOf(c, S)) = Cardinality(UnitsOf(c, R)) + (IF c[i] > 0 THEN c[i] ELSE 0)
      /\ Cardinality(UnitsOf(minus, S)) =
           Cardinality(UnitsOf(minus, R)) + (IF minus[i] > 0 THEN minus[i] ELSE 0)
  BY <1>1, UnitsSplit
<1>4. /\ Total(c, S) = Cardinality(UnitsOf(c, S)) - Cardinality(UnitsOf(minus, S))
      /\ Total(c, R) = Cardinality(UnitsOf(c, R)) - Cardinality(UnitsOf(minus, R))
  BY <1>1 DEF Total
<1> HIDE DEF minus, R
<1>5. Total(c, S) = Total(c, R) + c[i]
  BY <1>1, <1>2, <1>3, <1>4
<1> QED BY <1>5 DEF R

\* It depends on the counts of its set only,
LEMMA TotalSame ==
    ASSUME NEW S, NEW c, NEW d, \A x \in S : d[x] = c[x]
    PROVE  Total(d, S) = Total(c, S)
<1>1. UnitsOf(d, S) = UnitsOf(c, S)
  BY DEF UnitsOf
<1>2. Shortage(d, S) = Shortage(c, S)
  BY DEF Shortage
<1> QED BY <1>1, <1>2 DEF Total

\* and when one of them changes, so does the sum.
LEMMA TotalShift ==
    ASSUME NEW I, IsFiniteSet(I), NEW c \in [I -> Int], NEW d \in [I -> Int], NEW S \in SUBSET I,
           NEW i \in S, \A x \in S \ {i} : d[x] = c[x]
    PROVE  Total(d, S) = Total(c, S) + d[i] - c[i]
<1>1. Total(d, S \ {i}) = Total(c, S \ {i})
  BY TotalSame
<1>2. Total(c, S) = Total(c, S \ {i}) + c[i] /\ Total(d, S) = Total(d, S \ {i}) + d[i]
  BY TotalSplit
<1>3. Total(c, S \ {i}) \in Int /\ c[i] \in Int /\ d[i] \in Int
  BY TotalType
<1> QED BY <1>1, <1>2, <1>3

-----------------------------------------------------------------------------
(* The types                                                               *)

\* The part of TypeOK about the stock, which the moves of units keep
StockOK ==
    /\ stock \in [Products -> Int]
    /\ \A p \in Products : p \notin Varied => stock[p] >= 0
    /\ units \in [Variants -> Int] /\ listed \subseteq Variants
    /\ withdrawn \in [Products -> Int]
    /\ claim \in [Orders -> [Products -> Int]]

LEMMA MoveType ==
    ASSUME TypeOK, NEW o \in Orders, NEW p \in Products, NEW sign \in {-1, 1}, Move(o, p, sign)
    PROVE  /\ stock' \in [Products -> Int] /\ claim' \in [Orders -> [Products -> Int]]
           /\ Quantity[o][p] \in Nat /\ stock[p] \in Int
           /\ stock'[p] = stock[p] + sign * Quantity[o][p]
           /\ \A q \in Products \ {p} : stock'[q] = stock[q]
<1>1. Quantity[o][p] \in Nat
  BY OrderStockAssumption
<1>2. stock[p] \in Int /\ claim[o][p] \in Int /\ claim[o] \in [Products -> Int]
  BY DEF TypeOK
<1> DEFINE n == sign * Quantity[o][p]
<1>3. n \in Int
  BY <1>1
<1>4. n = sign * Quantity[o][p]
  OBVIOUS
<1>5. stock' = [stock EXCEPT ![p] = stock[p] + n]
      /\ claim' = [claim EXCEPT ![o] = [claim[o] EXCEPT ![p] = claim[o][p] - n]]
  BY DEF Move
<1> HIDE DEF n
<1>6. stock[p] + n \in Int /\ claim[o][p] - n \in Int
  BY <1>2, <1>3
<1>7. [claim[o] EXCEPT ![p] = claim[o][p] - n] \in [Products -> Int]
  BY <1>2, <1>6
<1>8. stock' \in [Products -> Int] /\ claim' \in [Orders -> [Products -> Int]]
  BY <1>5, <1>6, <1>7 DEF TypeOK
<1>9. stock'[p] = stock[p] + n /\ \A q \in Products \ {p} : stock'[q] = stock[q]
  BY <1>5 DEF TypeOK
<1> QED BY <1>1, <1>2, <1>4, <1>8, <1>9

\* A line names a variant of its product if the product has variants and it asks for units.
LEMMA LineVariant ==
    ASSUME NEW l \in Lines
    PROVE  /\ l[1] \in Orders /\ l[2] \in Products /\ l = <<l[1], l[2]>> /\ Units(l) \in Nat
           /\ VariantOf(l) \in Variants =>
                /\ l[2] \in Varied /\ ProductOf[VariantOf(l)] = l[2] /\ VariantOf(l) # NoVariant
           /\ VariantOf(l) \notin Variants =>
                VariantOf(l) = NoVariant /\ (l[2] \notin Varied \/ Units(l) = 0)
<1>1. l[1] \in Orders /\ l[2] \in Products /\ l = <<l[1], l[2]>>
  BY DEF Lines
<1>2. /\ Quantity[l[1]][l[2]] \in Nat /\ NoVariant \notin Variants
      /\ Wants[l[1]][l[2]] \in IF l[2] \in Varied /\ Quantity[l[1]][l[2]] > 0 THEN VariantsOf(l[2])
                               ELSE {NoVariant}
  BY <1>1, OrderStockAssumption
<1>3. CASE l[2] \in Varied /\ Quantity[l[1]][l[2]] > 0
  BY <1>1, <1>2, <1>3 DEF Units, VariantOf, VariantsOf
<1>4. CASE ~(l[2] \in Varied /\ Quantity[l[1]][l[2]] > 0)
  BY <1>1, <1>2, <1>4 DEF Units, VariantOf
<1> QED BY <1>3, <1>4

\* A deduction takes the units from the product's count and, for a line that names a variant,
\* from one of its variants.
LEMMA TakeMoves ==
    ASSUME TypeOK, NEW l \in Lines, Take(l)
    PROVE  /\ Move(l[1], l[2], -1) /\ Units(l) \in Nat
           /\ \/ VariantOf(l) = NoVariant /\ stock[l[2]] >= Units(l) /\ units' = units
              \/ \E v \in ListedOf(l[2]) :
                    l[2] \in Varied /\ units' = [units EXCEPT ![v] = units[v] - Units(l)]
<1>1. Move(l[1], l[2], -1) /\ Units(l) \in Nat
  BY LineVariant DEF Take
<1>2. CASE VariantOf(l) = NoVariant
  BY <1>1, <1>2 DEF Take, MayTake
<1>3. CASE VariantOf(l) # NoVariant
  <2>1. PICK v \in Matched(l) : units' = [units EXCEPT ![v] = units[v] - Units(l)]
    BY <1>3 DEF Take
  <2>2. VariantOf(l) \in Variants /\ l[2] \in Varied /\ ProductOf[VariantOf(l)] = l[2]
    BY <1>3, LineVariant
  <2>3. v \in ListedOf(l[2])
    BY <2>2 DEF Matched, ListedOf, VariantsOf
  <2> QED BY <1>1, <2>1, <2>2, <2>3
<1> QED BY <1>2, <1>3

LEMMA PutBackMoves ==
    ASSUME TypeOK, NEW l \in Lines, PutBack(l)
    PROVE  \/ UNCHANGED <<stock, units, claim>>
           \/ /\ Move(l[1], l[2], 1) /\ Units(l) \in Nat
              /\ \/ VariantOf(l) = NoVariant /\ units' = units
                 \/ \E v \in ListedOf(l[2]) :
                       l[2] \in Varied /\ units' = [units EXCEPT ![v] = units[v] + Units(l)]
<1>1. CASE VariantOf(l) \notin listed \cup {NoVariant}
  BY <1>1 DEF PutBack
<1>2. CASE VariantOf(l) \in listed \cup {NoVariant}
  <2>1. /\ Move(l[1], l[2], 1) /\ Units(l) \in Nat
        /\ units' = [v \in Variants |-> units[v] + IF v = VariantOf(l) THEN Units(l) ELSE 0]
    BY <1>2, LineVariant DEF PutBack
  <2>2. units \in [Variants -> Int] /\ NoVariant \notin Variants
    BY OrderStockAssumption DEF TypeOK
  <2>3. CASE VariantOf(l) = NoVariant
    <3>1. \A v \in Variants : units'[v] = units[v]
      BY <2>1, <2>2, <2>3
    <3>2. units' = units
      BY <2>1, <2>2, <3>1
    <3> QED BY <2>1, <2>3, <3>2
  <2>4. CASE VariantOf(l) \in listed
    <3>1. PICK v \in Variants : v = VariantOf(l)
      BY <2>4 DEF TypeOK
    <3>2. v \in ListedOf(l[2]) /\ l[2] \in Varied
      BY <2>4, <3>1, LineVariant DEF ListedOf, VariantsOf
    <3>3. \A x \in Variants : units'[x] = [units EXCEPT ![v] = units[v] + Units(l)][x]
      BY <2>1, <2>2, <3>1
    <3>4. units' = [units EXCEPT ![v] = units[v] + Units(l)]
      BY <2>1, <2>2, <3>3
    <3> QED BY <2>1, <3>2, <3>4
  <2> QED BY <1>2, <2>3, <2>4
<1> QED BY <1>1, <1>2

LEMMA TakeType ==
    ASSUME TypeOK, NEW l \in Lines, Take(l), UNCHANGED offer
    PROVE  StockOK'
<1>1. /\ stock' \in [Products -> Int] /\ claim' \in [Orders -> [Products -> Int]]
      /\ Units(l) \in Nat /\ stock[l[2]] \in Int /\ stock'[l[2]] = stock[l[2]] + (-1) * Units(l)
      /\ \A q \in Products \ {l[2]} : stock'[q] = stock[q]
  BY TakeMoves, MoveType, LineVariant DEF Units
<1>2. listed' \subseteq Variants /\ withdrawn' \in [Products -> Int]
  BY DEF offer, TypeOK
<1>3. CASE VariantOf(l) = NoVariant /\ stock[l[2]] >= Units(l) /\ units' = units
  <2>1. stock'[l[2]] >= 0
    BY <1>1, <1>3
  <2>2. \A p \in Products : p \notin Varied => stock'[p] >= 0
    BY <1>1, <2>1 DEF TypeOK
  <2> QED BY <1>1, <1>2, <1>3, <2>2 DEF StockOK, TypeOK
<1>4. ASSUME NEW v \in ListedOf(l[2]), l[2] \in Varied, units' = [units EXCEPT ![v] = units[v] - Units(l)]
      PROVE  StockOK'
  <2>1. \A p \in Products : p \notin Varied => stock'[p] >= 0
    BY <1>1, <1>4 DEF TypeOK
  <2>2. v \in Variants
    BY DEF ListedOf, VariantsOf
  <2>3. units' \in [Variants -> Int]
    BY <1>1, <1>4, <2>2 DEF TypeOK
  <2> QED BY <1>1, <1>2, <2>1, <2>3 DEF StockOK
<1> QED BY <1>3, <1>4, TakeMoves

LEMMA PutBackType ==
    ASSUME TypeOK, NEW l \in Lines, PutBack(l) \/ UNCHANGED <<stock, units, claim>>, UNCHANGED offer
    PROVE  StockOK'
<1>1. listed' \subseteq Variants /\ withdrawn' \in [Products -> Int]
  BY DEF offer, TypeOK
<1>2. CASE UNCHANGED <<stock, units, claim>>
  BY <1>1, <1>2 DEF StockOK, TypeOK
<1>3. ASSUME Move(l[1], l[2], 1), Units(l) \in Nat, units' \in [Variants -> Int]
      PROVE  StockOK'
  <2>1. /\ stock' \in [Products -> Int] /\ claim' \in [Orders -> [Products -> Int]]
        /\ stock[l[2]] \in Int /\ stock'[l[2]] = stock[l[2]] + 1 * Units(l)
        /\ \A q \in Products \ {l[2]} : stock'[q] = stock[q]
    BY <1>3, MoveType, LineVariant DEF Units
  <2>2. stock[l[2]] >= 0 => stock'[l[2]] >= 0
    BY <1>3, <2>1
  <2>3. \A p \in Products : p \notin Varied => stock'[p] >= 0
    BY <2>1, <2>2 DEF TypeOK
  <2> QED BY <1>1, <1>3, <2>1, <2>3 DEF StockOK
<1>4. ASSUME Move(l[1], l[2], 1), Units(l) \in Nat, NEW v \in ListedOf(l[2]),
             units' = [units EXCEPT ![v] = units[v] + Units(l)]
      PROVE  StockOK'
  <2>1. v \in Variants
    BY DEF ListedOf, VariantsOf
  <2>2. units' \in [Variants -> Int]
    BY <1>4, <2>1 DEF TypeOK
  <2> QED BY <1>3, <1>4, <2>2
<1>5. units' = units => units' \in [Variants -> Int]
  BY DEF TypeOK
<1> QED BY <1>2, <1>3, <1>4, <1>5, PutBackMoves

\* createOrder as a transaction: the same for all lines of a checkout
LEMMA TransactType ==
    ASSUME TypeOK, NEW w \in Workers, Transact(w)
    PROVE  StockOK'
<1> DEFINE k == worker[w].checkout
<1>1. listed' \subseteq Variants /\ withdrawn' \in [Products -> Int]
  BY DEF Transact, offer, TypeOK
<1>2. \A p \in Products : Need(k, p) \in Nat
  BY OrderStockAssumption DEF Need, Sells, OrderWith, OrdersOf
<1>3. CASE UNCHANGED <<stock, units, claim>>
  BY <1>1, <1>3 DEF StockOK, TypeOK
<1>4. ASSUME \A l \in LinesOf(OrdersOf(k)) : InStock(l),
             NEW pick \in [Products -> Variants \cup {NoVariant}],
             units' = [v \in Variants |-> units[v] -
                         IF pick[ProductOf[v]] = v THEN Need(k, ProductOf[v]) ELSE 0],
             stock' = [p \in Products |-> stock[p] - Need(k, p)],
             claim' = [o \in Orders |-> IF o \in OrdersOf(k) THEN Quantity[o] ELSE claim[o]]
      PROVE  StockOK'
  <2>1. claim' \in [Orders -> [Products -> Int]]
    <3>1. \A o \in Orders : Quantity[o] \in [Products -> Int] /\ claim[o] \in [Products -> Int]
      BY OrderStockAssumption DEF TypeOK
    <3> QED BY <1>4, <3>1 DEF TypeOK
  <2>2. units' \in [Variants -> Int]
    BY <1>2, <1>4, OrderStockAssumption DEF TypeOK
  <2>3. stock' \in [Products -> Int]
    BY <1>2, <1>4 DEF TypeOK
  <2>4. ASSUME NEW p \in Products, p \notin Varied PROVE stock'[p] >= 0
    <3>1. stock[p] \in Int /\ stock[p] >= 0 /\ stock'[p] = stock[p] - Need(k, p) /\ Need(k, p) \in Nat
      BY <1>2, <1>4, <2>4 DEF TypeOK
    <3>2. CASE Sells(k, p)
      <4> DEFINE o == OrderWith(k, p)
                 l == <<o, p>>
      <4>1. o \in OrdersOf(k) /\ Quantity[o][p] > 0 /\ o \in Orders
        BY <3>2 DEF Sells, OrderWith, OrdersOf
      <4>2. Need(k, p) = Quantity[o][p]
        BY <3>2 DEF Need
      <4> HIDE DEF o
      <4>3. l \in LinesOf(OrdersOf(k)) /\ l \in Lines /\ l[1] = o /\ l[2] = p
        BY <4>1 DEF LinesOf, Lines
      <4>4. VariantOf(l) = NoVariant
        BY <2>4, <4>3, LineVariant
      <4>5. stock[p] >= Quantity[o][p]
        BY <1>4, <4>3, <4>4 DEF InStock, Units
      <4> QED BY <3>1, <4>2, <4>5
    <3>3. CASE ~Sells(k, p)
      BY <3>1, <3>3 DEF Need
    <3> QED BY <3>2, <3>3
  <2> QED BY <1>1, <2>1, <2>2, <2>3, <2>4 DEF StockOK
<1> QED BY <1>3, <1>4 DEF Transact

LEMMA CheckoutTypes ==
    ASSUME TypeOK, NEW w \in Workers, Again(w) \/ Transact(w) \/ Validate(w) \/ Create(w) \/ Deduct(w) \/ Attach(w)
    PROVE  TypeOK'
<1> USE DEF storeVars, keyVars, offer
<1>0. worker[w] \in Worker
  BY DEF TypeOK
<1>1. CASE Again(w)
  <2>1. worker' \in [Workers -> Worker]
    BY <1>1, GoType DEF Again, Steps
  <2>2. outcome' \in [Checkouts -> Outcomes]
    BY <1>1 DEF Again, TypeOK, Outcomes
  <2> QED BY <1>1, <2>1, <2>2 DEF Again, TypeOK
<1>2. CASE Transact(w)
  <2>1. worker' \in [Workers -> Worker] /\ outcome' \in [Checkouts -> Outcomes]
    BY <1>2, GoType, RefuseType DEF Transact, Steps, TypeOK
  <2>2. StockOK'
    BY <1>2, TransactType
  <2>4. status' \in [Orders -> OrderDocs]
    BY <1>2 DEF Transact, TypeOK, OrderDocs, OrderStatuses
  <2>5. items' \in [Orders -> SUBSET Products]
    <3>1. items' = items \/ items' = [o \in Orders |-> IF o \in OrdersOf(worker[w].checkout)
                                                    THEN ProductsOf(o) ELSE items[o]]
      BY <1>2 DEF Transact
    <3> QED BY <3>1 DEF TypeOK, ProductsOf
  <2> QED BY <1>2, <2>1, <2>2, <2>4, <2>5 DEF Transact, TypeOK, StockOK
<1>3. CASE Validate(w)
  <2>1. OrdersOf(worker[w].checkout) \subseteq Orders
    BY DEF OrdersOf
  <2>2. [worker[w] EXCEPT !.pc = "create", !.left = OrdersOf(worker[w].checkout)] \in Worker
    BY <1>0, <2>1 DEF Worker, Steps
  <2>3. worker' \in [Workers -> Worker] /\ outcome' \in [Checkouts -> Outcomes]
    BY <1>3, <2>2, SetType, RefuseType DEF Validate, TypeOK
  <2> QED BY <1>3, <2>3 DEF Validate, TypeOK
<1>4. CASE Create(w)
  <2>1. PICK o \in worker[w].left :
          /\ status' = [status EXCEPT ![o] = "CONFIRMED"]
          /\ Set(w, [worker[w] EXCEPT !.pc = "deduct", !.order = o, !.todo = LinesOf({o}),
                         !.left = @ \ {o}])
    BY <1>4 DEF Create
  <2>2. o \in Orders /\ LinesOf({o}) \subseteq Lines
    BY <1>0 DEF Worker, LinesOf
  <2>3. [worker[w] EXCEPT !.pc = "deduct", !.order = o, !.todo = LinesOf({o}), !.left = @ \ {o}] \in Worker
    BY <1>0, <2>2 DEF Worker, Steps, OrderIds
  <2>4. worker' \in [Workers -> Worker]
    BY <2>1, <2>3, SetType
  <2>5. status' \in [Orders -> OrderDocs]
    BY <2>1 DEF TypeOK, OrderDocs, OrderStatuses
  <2> QED BY <1>4, <2>4, <2>5 DEF Create, TypeOK
<1>5. CASE Deduct(w)
  <2>1. PICK l \in worker[w].todo :
          \/ /\ Take(l)
             /\ Set(w, [worker[w] EXCEPT !.todo = @ \ {l}, !.done = @ \cup {l},
                            !.pc = IF worker[w].todo = {l} THEN "attach" ELSE "deduct"])
          \/ Goto(w, Undoing(w)) /\ UNCHANGED <<stock, units, claim>>
    BY <1>5 DEF Deduct
  <2>2. l \in Lines /\ l[1] \in Orders /\ l[2] \in Products
    BY <1>0 DEF Worker, Lines
  <2>3. [worker[w] EXCEPT !.todo = @ \ {l}, !.done = @ \cup {l},
                   !.pc = IF worker[w].todo = {l} THEN "attach" ELSE "deduct"] \in Worker
    BY <1>0, <2>2 DEF Worker, Steps
  <2>4. worker' \in [Workers -> Worker]
    BY <2>1, <2>3, SetType, GoType DEF Undoing, Steps
  <2>5. StockOK'
    BY <1>5, <2>1, <2>2, TakeType, PutBackType DEF Deduct
  <2> QED BY <1>5, <2>4, <2>5 DEF Deduct, TypeOK, StockOK
<1>6. CASE Attach(w)
  <2>1. worker' \in [Workers -> Worker]
    BY <1>6, GoType DEF Attach, Steps
  <2>2. items' \in [Orders -> SUBSET Products]
    BY <1>6 DEF Attach, TypeOK, ProductsOf
  <2> QED BY <1>6, <2>1, <2>2 DEF Attach, TypeOK
<1> QED BY <1>1, <1>2, <1>3, <1>4, <1>5, <1>6

LEMMA UndoTypes ==
    ASSUME TypeOK, NEW w \in Workers, Undo(w) \/ UndoItems(w) \/ UndoOrders(w)
    PROVE  TypeOK'
<1> USE DEF storeVars, keyVars, offer
<1>0. worker[w] \in Worker
  BY DEF TypeOK
<1>1. CASE Undo(w)
  <2>1. PICK l \in worker[w].done :
          /\ PutBack(l) \/ UNCHANGED <<stock, units, claim>>
          /\ Set(w, [worker[w] EXCEPT !.done = @ \ {l},
                         !.pc = IF worker[w].done = {l} THEN "undo_items" ELSE "undo"])
    BY <1>1 DEF Undo
  <2>2. l \in Lines
    BY <1>0 DEF Worker
  <2>3. [worker[w] EXCEPT !.done = @ \ {l},
                   !.pc = IF worker[w].done = {l} THEN "undo_items" ELSE "undo"] \in Worker
    BY <1>0 DEF Worker, Steps
  <2>4. worker' \in [Workers -> Worker]
    BY <2>1, <2>3, SetType
  <2>5. StockOK'
    BY <1>1, <2>1, <2>2, PutBackType DEF Undo
  <2>6. calm' \subseteq Orders /\ events' \in Nat
    <3>1. events' = events \/ events' = events + 1
      BY <1>1 DEF Undo
    <3>2. calm' \subseteq calm
      BY <1>1 DEF Undo
    <3> QED BY <3>1, <3>2 DEF TypeOK
  <2> QED BY <1>1, <2>4, <2>5, <2>6 DEF Undo, TypeOK, StockOK
<1>2. CASE UndoItems(w)
  <2>1. worker' \in [Workers -> Worker]
    BY <1>2, GoType DEF UndoItems, Steps
  <2>2. items' \in [Orders -> SUBSET Products]
    BY <1>2 DEF UndoItems, TypeOK
  <2>3. calm' \subseteq Orders /\ events' \in Nat
    BY <1>2 DEF UndoItems, TypeOK
  <2> QED BY <1>2, <2>1, <2>2, <2>3 DEF UndoItems, TypeOK
<1>3. CASE UndoOrders(w)
  <2>1. worker' \in [Workers -> Worker] /\ outcome' \in [Checkouts -> Outcomes]
    BY <1>3, RefuseType DEF UndoOrders
  <2>2. status' \in [Orders -> OrderDocs] /\ calm' \subseteq Orders /\ events' \in Nat
    BY <1>3 DEF UndoOrders, TypeOK, OrderDocs
  <2> QED BY <1>3, <2>1, <2>2 DEF UndoOrders, TypeOK
<1> QED BY <1>1, <1>2, <1>3

LEMMA NextOrderType ==
    ASSUME TypeOK, NEW w \in Workers, NEW left \in SUBSET Orders, NextOrder(w, left)
    PROVE  worker' \in [Workers -> Worker] /\ outcome' \in [Checkouts -> Outcomes]
<1>1. worker[w].checkout \in CheckoutIds
  BY DEF TypeOK, Worker
<1>2. [Idle EXCEPT !.pc = "roll", !.checkout = worker[w].checkout, !.left = left] \in Worker
  BY <1>1, IdleType DEF Worker, Steps
<1> QED BY <1>2, SetType, RefuseType DEF NextOrder, TypeOK

LEMMA WriteType ==
    ASSUME TypeOK, NEW o, NEW written \in OrderDocs, Write(o, written)
    PROVE  status' \in [Orders -> OrderDocs]
BY DEF Write, TypeOK

LEMMA RollTypes ==
    ASSUME TypeOK, NEW w \in Workers,
           CreateIntent(w) \/ Roll(w) \/ RollPut(w) \/ RollSave(w) \/ Record(w) \/ Unlock(w)
    PROVE  TypeOK'
<1> USE DEF storeVars, keyVars, offer
<1>0. worker[w] \in Worker
  BY DEF TypeOK
<1>1. CASE CreateIntent(w)
  <2>1. OrdersOf(worker[w].checkout) \subseteq Orders
    BY DEF OrdersOf
  <2>2. [worker[w] EXCEPT !.pc = "roll", !.left = OrdersOf(worker[w].checkout)] \in Worker
    BY <1>0, <2>1 DEF Worker, Steps
  <2>3. worker' \in [Workers -> Worker]
    BY <1>1, <2>2, SetType, GoType DEF CreateIntent, RollBack, Steps
  <2>4. intent' \in [Keys -> SUBSET Orders]
    BY <1>1, <2>1 DEF CreateIntent, TypeOK
  <2> QED BY <1>1, <2>3, <2>4 DEF CreateIntent, TypeOK
<1>2. CASE Roll(w)
  <2>1. PICK o \in worker[w].left :
          IF ~Exists(o)
          THEN NextOrder(w, worker[w].left \ {o})
          ELSE /\ Set(w, [worker[w] EXCEPT !.left = @ \ {o}, !.order = o, !.todo = {o} \X items[o],
                             !.target = Written(o, "CANCELLED"),
                             !.pc = IF items[o] = {} THEN "roll_save" ELSE "roll_put"])
               /\ UNCHANGED outcome
    BY <1>2 DEF Roll
  <2>2. o \in Orders /\ worker[w].left \ {o} \in SUBSET Orders
    BY <1>0 DEF Worker
  <2>3. items[o] \subseteq Products /\ Written(o, "CANCELLED") \in OrderDocs
    BY <2>2 DEF TypeOK, Written, OrderDocs, OrderStatuses
  <2>4. [worker[w] EXCEPT !.left = @ \ {o}, !.order = o, !.todo = {o} \X items[o],
                             !.target = Written(o, "CANCELLED"),
                             !.pc = IF items[o] = {} THEN "roll_save" ELSE "roll_put"] \in Worker
    BY <1>0, <2>2, <2>3 DEF Worker, Steps, OrderIds, Lines
  <2>5. worker' \in [Workers -> Worker] /\ outcome' \in [Checkouts -> Outcomes]
    BY <2>1, <2>2, <2>4, SetType, NextOrderType DEF TypeOK
  <2> QED BY <1>2, <2>5 DEF Roll, TypeOK
<1>3. CASE RollPut(w)
  <2>1. PICK l \in worker[w].todo :
          /\ PutBack(l)
          /\ Set(w, [worker[w] EXCEPT !.todo = @ \ {l},
                         !.pc = IF worker[w].todo = {l} THEN "roll_save" ELSE "roll_put"])
    BY <1>3 DEF RollPut
  <2>2. l \in Lines
    BY <1>0 DEF Worker
  <2>3. [worker[w] EXCEPT !.todo = @ \ {l},
                         !.pc = IF worker[w].todo = {l} THEN "roll_save" ELSE "roll_put"] \in Worker
    BY <1>0 DEF Worker, Steps
  <2>4. worker' \in [Workers -> Worker]
    BY <2>1, <2>3, SetType
  <2>5. StockOK'
    BY <1>3, <2>1, <2>2, PutBackType DEF RollPut
  <2> QED BY <1>3, <2>4, <2>5 DEF RollPut, TypeOK, StockOK
<1>4. CASE RollSave(w)
  <2>1. worker[w].target \in OrderDocs /\ worker[w].left \in SUBSET Orders
    BY <1>0 DEF Worker
  <2>2. worker' \in [Workers -> Worker] /\ outcome' \in [Checkouts -> Outcomes]
    BY <1>4, <2>1, NextOrderType DEF RollSave
  <2>3. status' \in [Orders -> OrderDocs]
    BY <1>4, <2>1, WriteType DEF RollSave, TypeOK
  <2>4. pay' \in [Orders -> {"PENDING", "CAPTURED", "FAILED"}]
    BY <1>4 DEF RollSave, TypeOK
  <2> QED BY <1>4, <2>2, <2>3, <2>4 DEF RollSave, TypeOK
<1>5. CASE Record(w)
  <2>1. worker' \in [Workers -> Worker]
    BY <1>5, GoType DEF Record, Steps
  <2>2. worker[w].checkout \in CheckoutIds
    BY <1>0 DEF Worker
  <2>3. answer' \in [Keys -> CheckoutIds] /\ outcome' \in [Checkouts -> Outcomes]
    BY <1>5, <2>2 DEF Record, TypeOK, Outcomes
  <2> QED BY <1>5, <2>1, <2>3 DEF Record, TypeOK
<1>6. CASE Unlock(w)
  <2>1. worker' \in [Workers -> Worker]
    BY <1>6, Locals, SetType DEF Unlock, Finish
  <2>2. holder' \in [Keys -> Workers \cup {Free, Orphan}]
    BY <1>6 DEF Unlock, TypeOK
  <2> QED BY <1>6, <2>1, <2>2 DEF Unlock, TypeOK
<1> QED BY <1>1, <1>2, <1>3, <1>4, <1>5, <1>6

LEMMA TouchType == ASSUME TypeOK, NEW o, Touch(o) PROVE calm' \subseteq Orders
BY DEF Touch, TypeOK

LEMMA UpdateTypes ==
    ASSUME TypeOK, NEW w \in Workers, Put(w) \/ Save(w) \/ Confirm(w) \/ Start(w)
    PROVE  TypeOK'
<1> USE DEF storeVars, keyVars, offer
<1>0. worker[w] \in Worker
  BY DEF TypeOK
<1>1. CASE Put(w)
  <2>1. PICK l \in worker[w].todo :
          /\ PutBack(l)
          /\ Set(w, [worker[w] EXCEPT !.todo = @ \ {l},
                         !.pc = IF worker[w].todo = {l} THEN "save" ELSE "put"])
    BY <1>1 DEF Put
  <2>2. l \in Lines
    BY <1>0 DEF Worker
  <2>3. [worker[w] EXCEPT !.todo = @ \ {l},
                   !.pc = IF worker[w].todo = {l} THEN "save" ELSE "put"] \in Worker
    BY <1>0 DEF Worker, Steps
  <2>4. worker' \in [Workers -> Worker]
    BY <2>1, <2>3, SetType
  <2>5. StockOK'
    BY <1>1, <2>1, <2>2, PutBackType DEF Put
  <2> QED BY <1>1, <2>4, <2>5 DEF Put, TypeOK, StockOK
<1>2. CASE Save(w)
  <2>1. worker[w].target \in OrderDocs
    BY <1>0 DEF Worker
  <2>2. worker' \in [Workers -> Worker]
    BY <1>2, Locals, SetType DEF Save, Finish
  <2>3. status' \in [Orders -> OrderDocs]
    BY <1>2, <2>1, WriteType DEF Save, TypeOK
  <2> QED BY <1>2, <2>2, <2>3 DEF Save, TypeOK
<1>3. CASE Confirm(w)
  <2>1. worker[w].target \in OrderDocs
    BY <1>0 DEF Worker
  <2>2. worker' \in [Workers -> Worker]
    BY <1>3, Locals, SetType DEF Confirm, Finish
  <2>3. status' \in [Orders -> OrderDocs]
    BY <1>3, <2>1, WriteType DEF Confirm, TypeOK
  <2>4. pay' \in [Orders -> {"PENDING", "CAPTURED", "FAILED"}] /\ calm' \subseteq Orders
    BY <1>3 DEF Confirm, TypeOK
  <2> QED BY <1>3, <2>2, <2>3, <2>4 DEF Confirm, TypeOK
<1>4. ASSUME NEW k \in Checkouts, Begin(w, k) PROVE TypeOK'
  <2>1. worker' \in [Workers -> Worker]
    BY <1>4, Locals, SetType DEF Begin, CheckoutIds, Steps
  <2>2. holder' \in [Keys -> Workers \cup {Free, Orphan}] /\ outcome' \in [Checkouts -> Outcomes]
    BY <1>4 DEF Begin, TypeOK, Outcomes
  <2> QED BY <1>4, <2>1, <2>2 DEF Begin, TypeOK
<1>5. ASSUME NEW o \in Orders, NEW target \in Targets, Update(w, o, target) PROVE TypeOK'
  <2>1. items[o] \subseteq Products /\ target \in OrderDocs
    BY OrderStockAssumption DEF TypeOK, OrderDocs
  <2>2. [Idle EXCEPT !.order = o, !.target = target,
                   !.todo = IF PutsBack(target) THEN {o} \X items[o] ELSE {},
                   !.pc = IF PutsBack(target) /\ items[o] # {} THEN "put" ELSE "save"] \in Worker
    BY <2>1, IdleType DEF Worker, Steps, OrderIds, Lines
  <2>3. worker' \in [Workers -> Worker]
    BY <1>5, <2>2, SetType DEF Update
  <2>4. calm' \subseteq Orders /\ events' \in Nat
    BY <1>5, TouchType DEF Update, Counted, TypeOK
  <2> QED BY <1>5, <2>3, <2>4 DEF Update, TypeOK
<1>6. ASSUME NEW i \in Keys, NEW o \in Orders, Capture(w, i, o) PROVE TypeOK'
  <2>1. Written(o, "CONFIRMED") \in OrderDocs
    BY DEF Written, OrderDocs, OrderStatuses
  <2>2. [Idle EXCEPT !.pc = "capture", !.order = o, !.target = Written(o, "CONFIRMED")] \in Worker
    BY <2>1, IdleType DEF Worker, Steps, OrderIds
  <2>3. worker' \in [Workers -> Worker]
    BY <1>6, <2>2, SetType DEF Capture
  <2>4. calm' \subseteq Orders
    BY <1>6, TouchType DEF Capture
  <2> QED BY <1>6, <2>3, <2>4 DEF Capture, TypeOK
<1> QED BY <1>1, <1>2, <1>3, <1>4, <1>5, <1>6 DEF Start

LEMMA FailTypes ==
    ASSUME TypeOK, NEW w \in Workers, Fail(w)
    PROVE  TypeOK'
<1> USE DEF storeVars, keyVars, offer
<1>0. worker[w] \in Worker /\ worker[w].left \in SUBSET Orders
  BY DEF TypeOK, Worker
<1>1. calm' \subseteq Orders /\ events' \in Nat
  BY DEF Fail, CreateFails, PopulateFails, RollFails, UpdateFails, Crash, TypeOK
<1>2. CASE CreateFails(w)
  <2>1. worker' \in [Workers -> Worker]
    BY <1>2, GoType DEF CreateFails, Undoing, Steps
  <2> QED BY <1>1, <1>2, <2>1 DEF CreateFails, TypeOK
<1>3. CASE PopulateFails(w)
  BY <1>1, <1>3, RefuseType DEF PopulateFails, TypeOK
<1>4. CASE RollFails(w)
  BY <1>0, <1>1, <1>4, NextOrderType DEF RollFails, TypeOK
<1>5. CASE UpdateFails(w)
  <2>1. worker' \in [Workers -> Worker]
    BY <1>5, Locals, SetType DEF UpdateFails, Finish
  <2> QED BY <1>1, <1>5, <2>1 DEF UpdateFails, TypeOK
<1>6. CASE Crash(w)
  <2>1. worker' \in [Workers -> Worker]
    BY <1>6, Locals, SetType DEF Crash, Finish
  <2>2. holder' \in [Keys -> Workers \cup {Free, Orphan}]
    BY <1>6 DEF Crash, TypeOK
  <2> QED BY <1>1, <1>6, <2>1, <2>2 DEF Crash, TypeOK
<1> QED BY <1>2, <1>3, <1>4, <1>5, <1>6 DEF Fail

LEMMA TypeStep == TypeOK /\ [Next]_vars => TypeOK'
<1> SUFFICES ASSUME TypeOK, [Next]_vars PROVE TypeOK'
  OBVIOUS
<1>1. ASSUME NEW w \in Workers, Start(w) \/ Advance(w) PROVE TypeOK'
  BY <1>1, CheckoutTypes, UndoTypes, RollTypes, UpdateTypes DEF Advance, Checkout
<1>2. ASSUME NEW o \in Orders, Deliver(o) PROVE TypeOK'
  <2>1. status' \in [Orders -> OrderDocs] /\ calm' \subseteq Orders /\ events' \in Nat
    BY <1>2 DEF Deliver, TypeOK, OrderDocs, OrderStatuses
  <2> QED BY <1>2, <2>1 DEF Deliver, TypeOK, keyVars, offer
<1>3. ASSUME NEW i \in Keys, Expire(i) PROVE TypeOK'
  BY <1>3 DEF Expire, Counted, TypeOK, storeVars
<1>4. CASE UNCHANGED vars
  BY <1>4 DEF TypeOK, vars, storeVars, keyVars
<1>5. ASSUME NEW v \in Variants, RemoveVariant(v) PROVE TypeOK'
  <2> DEFINE p == ProductOf[v]
             rest == Total(units, ListedOf(p) \ {v})
  <2>1. p \in Products /\ p \in Varied /\ ListedOf(p) \ {v} \subseteq Variants /\ IsFiniteSet(Variants)
    BY OrderStockAssumption DEF Varied, ListedOf, VariantsOf
  <2>2. rest \in Int /\ units[v] \in Int
    BY <2>1, TotalType DEF TypeOK
  <2>3. stock' = [stock EXCEPT ![p] = rest] /\ withdrawn' = [withdrawn EXCEPT ![p] = withdrawn[p] + units[v]]
    BY <1>5 DEF RemoveVariant
  <2> HIDE DEF p, rest
  <2>4. stock' \in [Products -> Int] /\ \A x \in Products : x \notin Varied => stock'[x] >= 0
    BY <2>1, <2>2, <2>3 DEF TypeOK
  <2>5. withdrawn' \in [Products -> Int]
    BY <2>1, <2>2, <2>3 DEF TypeOK
  <2>6. listed' \subseteq Variants /\ calm' \subseteq Orders /\ events' \in Nat
    BY <1>5 DEF RemoveVariant, TypeOK
  <2> QED BY <1>5, <2>4, <2>5, <2>6 DEF RemoveVariant, TypeOK, keyVars
<1> QED BY <1>1, <1>2, <1>3, <1>4, <1>5, FailTypes DEF Next
-----------------------------------------------------------------------------
(* How a step of one worker leaves the others alone.                       *)

\* What a step of w may change of what others go by
Frame(w) ==
    /\ \A v \in Workers \ {w} : worker'[v] = worker[v]
    /\ key' = key /\ expired \subseteq expired'
    /\ \A k \in Checkouts : k # worker[w].checkout /\ outcome[k] # "new" => outcome'[k] = outcome[k]
    /\ \A i \in Keys : answer'[i] = answer[i] \/ (answer'[i] # Nobody /\ (i \in expired \/ holder[i] = w))
    /\ \A i \in Keys : holder'[i] = holder[i] \/ holder[i] \in {w, Free} \/ i \in expired'
    /\ \A o \in Orders : PaidFor(o) => PaidFor(o)'

LEMMA KeyTypes ==
    ASSUME TypeOK
    PROVE  /\ \A w \in Workers : worker[w] \in Worker /\ worker[w].checkout \in Checkouts \cup {Nobody}
           /\ \A k \in Checkouts : key[k] \in Keys
           /\ \A o \in Orders : CheckoutOf[o] \in Checkouts /\ key[CheckoutOf[o]] \in Keys
           /\ Nobody \notin Checkouts /\ Nobody \notin Orders
           /\ Free \notin Workers /\ Orphan \notin Workers
BY OrderStockAssumption DEF TypeOK, Worker, CheckoutIds

LEMMA OthersKnow ==
    ASSUME OrderInv, NEW w \in Workers, Frame(w), NEW v \in Workers, v # w
    PROVE  Knows(v)' /\ Locked(v)'
<1>1. worker'[v] = worker[v] /\ key' = key /\ Knows(v) /\ Locked(v)
  BY DEF Frame, OrderInv
<1>2. worker[v].checkout # Nobody =>
        /\ worker[v].checkout \in Checkouts /\ worker[v].checkout # worker[w].checkout
        /\ key[worker[v].checkout] \in Keys
  BY KeyTypes DEF OrderInv, Single
<1>3. worker[v].checkout # Nobody => outcome'[worker[v].checkout] = outcome[worker[v].checkout]
  BY <1>1, <1>2 DEF Knows, Frame, CheckoutSteps
<1>4. \A o \in Orders : Answered(o) => Answered(o)'
  BY <1>1, KeyTypes DEF OrderInv, Answered, Frame
<1>5. \A o \in Orders : PaidFor(o) => PaidFor(o)'
  BY DEF Frame
<1>6. Knows(v)'
  BY <1>1, <1>3, <1>4, <1>5 DEF Knows, CheckoutSteps
<1>7. Locked(v)'
  <2> SUFFICES ASSUME worker[v].checkout # Nobody, key[worker[v].checkout] \notin expired'
               PROVE  /\ holder'[key[worker[v].checkout]] = v
                      /\ worker[v].pc \in Placing => answer'[key[worker[v].checkout]] = Nobody
    BY <1>1 DEF Locked
  <2>1. /\ holder[key[worker[v].checkout]] = v
        /\ worker[v].pc \in Placing => answer[key[worker[v].checkout]] = Nobody
        /\ key[worker[v].checkout] \notin expired
    BY <1>1 DEF Locked, Frame
  <2>2. v # Free
    BY KeyTypes DEF OrderInv
  <2> QED BY <1>2, <2>1, <2>2 DEF Frame
<1> QED BY <1>6, <1>7

\* A step of w that stores no answer and no intent
LEMMA Keeps ==
    ASSUME OrderInv, TypeOK', NEW w \in Workers, Frame(w), Knows(w)', Locked(w)',
           \/ worker'[w].checkout \in {Nobody, worker[w].checkout}
           \/ outcome[worker'[w].checkout] = "new",
           \A i \in Keys : Stored(i)', \A k \in Checkouts : Recorded(k)',
           \A o \in Orders : pay'[o] = "CAPTURED" => pay[o] = "CAPTURED" \/ Answered(o),
           \A o \in Orders : status'[o] = "SHIPPED" => status[o] = "SHIPPED" \/ PaidFor(o)
    PROVE  OrderInv'
<1>1. \A v \in Workers : Knows(v)' /\ Locked(v)'
  BY OthersKnow
<1>2. Single'
  <2> SUFFICES ASSUME NEW u \in Workers, NEW v \in Workers, u # v, worker'[u].checkout # Nobody
               PROVE  worker'[v].checkout # worker'[u].checkout
    BY DEF Single
  <2>1. \A x \in Workers : worker[x].checkout # Nobody => outcome[worker[x].checkout] # "new"
    BY DEF OrderInv, Knows, CheckoutSteps
  <2>2. \A x \in Workers \ {w} : worker'[x] = worker[x]
    BY DEF Frame
  <2>3. \A x, y \in Workers :
          x # y /\ worker[x].checkout # Nobody => worker[y].checkout # worker[x].checkout
    BY DEF OrderInv, Single
  <2>4. CASE u = w
    BY <2>1, <2>2, <2>3, <2>4
  <2>5. CASE v = w
    BY <2>1, <2>2, <2>3, <2>5
  <2>6. CASE u # w /\ v # w
    BY <2>2, <2>3, <2>6
  <2> QED BY <2>4, <2>5, <2>6
<1>3. PaidIsAnswered'
  BY KeyTypes DEF OrderInv, PaidIsAnswered, Answered, Frame
<1>4. ShippedIsPaid'
  BY DEF OrderInv, ShippedIsPaid, PaidFor, Frame
<1> QED BY <1>1, <1>2, <1>3, <1>4 DEF OrderInv

LEMMA SameKeys ==
    ASSUME OrderInv, UNCHANGED <<key, answer>>, expired \subseteq expired',
           \A i \in Keys : \A o \in intent'[i] : o \in intent[i] \/ key[CheckoutOf[o]] = i,
           \A k \in Checkouts : outcome'[k] = "placed" <=> outcome[k] = "placed"
    PROVE  (\A i \in Keys : Stored(i)') /\ (\A k \in Checkouts : Recorded(k)')
<1>1. \A i \in Keys : Stored(i)'
  <2> TAKE i \in Keys
  <2>1. answer[i] # Nobody => answer[i] \in Checkouts
    BY DEF OrderInv, TypeOK, CheckoutIds
  <2> QED BY <2>1 DEF OrderInv, Stored
<1>2. \A k \in Checkouts : Recorded(k)'
  BY DEF OrderInv, Recorded
<1> QED BY <1>1, <1>2

\* A checkout goes on, or ends with an error or a stored answer.
LEMMA PlaceKeeps ==
    ASSUME OrderInv, TypeOK', NEW w \in Workers, NEW q \in Worker, Set(w, q),
           worker[w].pc \in CheckoutSteps \ {"unlock"}, q.checkout = worker[w].checkout,
           UNCHANGED <<key, answer, holder, expired>>,
           \A o \in Orders :
              \/ pay'[o] = pay[o]
              \/ pay'[o] = "FAILED" /\ (pay[o] = "CAPTURED" => key[CheckoutOf[o]] \in expired),
           \A i \in Keys : \A o \in intent'[i] : o \in intent[i] \/ key[CheckoutOf[o]] = i,
           \/ /\ q.pc \in Placing /\ UNCHANGED outcome
              /\ worker[w].pc = "again" => answer[key[worker[w].checkout]] = Nobody
           \/ /\ q.pc = "unlock"
              /\ \E x \in {"refused", "replayed"} : outcome' = [outcome EXCEPT ![worker[w].checkout] = x],
           q.left \subseteq OrdersOf(worker[w].checkout),
           q.pc \in {"roll_put", "roll_save"} =>
              q.order \in OrdersOf(worker[w].checkout) /\ q.target \in {"CANCELLED", "ABSENT"},
           \A o \in Orders : status'[o] = "SHIPPED" => status[o] = "SHIPPED"
    PROVE  OrderInv'
<1>1. worker'[w] = q /\ \A v \in Workers \ {w} : worker'[v] = worker[v]
  BY DEF Set, OrderInv, TypeOK
<1>2. /\ worker[w].checkout # Nobody /\ worker[w].checkout \in Checkouts
      /\ outcome[worker[w].checkout] = "running"
  BY KeyTypes DEF OrderInv, Knows
<1>3. outcome \in [Checkouts -> Outcomes]
  BY DEF OrderInv, TypeOK
<1>4. \A k \in Checkouts : k # worker[w].checkout => outcome'[k] = outcome[k]
  BY <1>2, <1>3
<1>5. /\ q.pc \in Placing => outcome'[worker[w].checkout] = "running"
      /\ q.pc = "unlock" => outcome'[worker[w].checkout] \in {"refused", "replayed"}
  BY <1>2, <1>3 DEF Placing
<1>6. q.pc \in Placing \cup {"unlock"}
  OBVIOUS
<1>7. Frame(w)
  BY <1>1, <1>4 DEF Frame, PaidFor
<1>8. Knows(w)'
  BY <1>1, <1>2, <1>5, <1>6 DEF Knows, Placing, CheckoutSteps, OrdersOf
<1>9. Locked(w)'
  BY <1>1, <1>6 DEF Locked, OrderInv, Placing, CheckoutSteps
<1>10. \A k \in Checkouts : outcome'[k] = "placed" <=> outcome[k] = "placed"
  BY <1>2, <1>4, <1>5, <1>6
<1>11. (\A i \in Keys : Stored(i)') /\ (\A k \in Checkouts : Recorded(k)')
  BY <1>10, SameKeys
<1> QED BY <1>1, <1>7, <1>8, <1>9, <1>11, Keeps

\* As above, for the ways in which the handlers say it
LEMMA GoKeeps ==
    ASSUME OrderInv, TypeOK', NEW w \in Workers, NEW step \in Placing \ {"roll_put", "roll_save"},
           Goto(w, step) \/ Proceed(w, step),
           worker[w].pc \in CheckoutSteps \ {"unlock"},
           worker[w].pc = "again" => answer[key[worker[w].checkout]] = Nobody,
           UNCHANGED <<key, pay, outcome, answer, holder, expired>>,
           \A i \in Keys : \A o \in intent'[i] : o \in intent[i] \/ key[CheckoutOf[o]] = i,
           \A o \in Orders : status'[o] = "SHIPPED" => status[o] = "SHIPPED"
    PROVE  OrderInv'
<1>1. worker[w] \in Worker /\ worker[w].checkout \in CheckoutIds /\ step \in Steps
      /\ worker[w].left \subseteq OrdersOf(worker[w].checkout)
  BY DEF OrderInv, TypeOK, Worker, Placing, CheckoutSteps, Steps, Knows
<1>2. CASE Goto(w, step)
  <2> DEFINE q == [worker[w] EXCEPT !.pc = step]
  <2>1. q \in Worker /\ q.pc = step /\ q.checkout = worker[w].checkout /\ q.left = worker[w].left
    BY <1>1, Locals DEF Worker
  <2>2. Set(w, q)
    BY <1>2 DEF Goto
  <2> HIDE DEF q
  <2> QED BY <1>1, <2>1, <2>2, PlaceKeeps
<1>3. CASE Proceed(w, step)
  <2> DEFINE q == [Idle EXCEPT !.pc = step, !.checkout = worker[w].checkout]
  <2>1. q \in Worker
    BY <1>1, Locals
  <2>2. q.pc = step /\ q.checkout = worker[w].checkout /\ q.left = {}
    BY DEF Idle
  <2>3. Set(w, q)
    BY <1>3 DEF Proceed
  <2> HIDE DEF q
  <2> QED BY <2>1, <2>2, <2>3, PlaceKeeps
<1> QED BY <1>2, <1>3

LEMMA EndKeeps ==
    ASSUME OrderInv, TypeOK', NEW w \in Workers,
           Refuse(w) \/ (Goto(w, "unlock") /\ outcome' = [outcome EXCEPT ![worker[w].checkout] = "replayed"]),
           worker[w].pc \in CheckoutSteps \ {"unlock"},
           UNCHANGED <<key, pay, intent, answer, holder, expired>>,
           \A o \in Orders : status'[o] = "SHIPPED" => status[o] = "SHIPPED"
    PROVE  OrderInv'
<1>1. worker[w] \in Worker /\ worker[w].checkout \in CheckoutIds
      /\ worker[w].left \subseteq OrdersOf(worker[w].checkout)
  BY DEF OrderInv, TypeOK, Worker, Knows
<1>2. CASE Refuse(w)
  <2> DEFINE q == [Idle EXCEPT !.pc = "unlock", !.checkout = worker[w].checkout]
  <2>1. q \in Worker
    BY <1>1, Locals DEF Steps
  <2>2. q.pc = "unlock" /\ q.checkout = worker[w].checkout /\ q.left = {}
    BY DEF Idle
  <2>3. Set(w, q) /\ outcome' = [outcome EXCEPT ![worker[w].checkout] = "refused"]
    BY <1>2 DEF Refuse, Proceed
  <2> HIDE DEF q
  <2> QED BY <2>1, <2>2, <2>3, PlaceKeeps
<1>3. CASE Goto(w, "unlock") /\ outcome' = [outcome EXCEPT ![worker[w].checkout] = "replayed"]
  <2> DEFINE q == [worker[w] EXCEPT !.pc = "unlock"]
  <2>1. q \in Worker /\ q.pc = "unlock" /\ q.checkout = worker[w].checkout /\ q.left = worker[w].left
    BY <1>1 DEF Worker, Steps
  <2>2. Set(w, q)
    BY <1>3 DEF Goto
  <2> HIDE DEF q
  <2> QED BY <1>1, <1>3, <2>1, <2>2, PlaceKeeps
<1> QED BY <1>2, <1>3

LEMMA CreateOrderKeeps ==
    ASSUME OrderInv, TypeOK', NEW w \in Workers,
           Again(w) \/ Transact(w) \/ Validate(w) \/ Create(w) \/ Deduct(w) \/ Attach(w)
    PROVE  OrderInv'
<1> USE DEF storeVars, keyVars, offer, Placing, CheckoutSteps
<1>0. /\ worker[w] \in Worker /\ status \in [Orders -> OrderDocs]
      /\ worker[w].left \subseteq OrdersOf(worker[w].checkout)
  BY DEF OrderInv, TypeOK, Knows
<1>1. CASE Again(w)
  BY <1>1, GoKeeps, EndKeeps DEF Again, At
<1>2. CASE Transact(w)
  <2>1. \A o \in Orders : status'[o] = "SHIPPED" => status[o] = "SHIPPED"
    BY <1>0, <1>2 DEF Transact
  <2> QED BY <1>2, <2>1, GoKeeps, EndKeeps DEF Transact, At
<1>3. CASE Validate(w)
  <2> DEFINE q == [worker[w] EXCEPT !.pc = "create", !.left = OrdersOf(worker[w].checkout)]
  <2>1. q \in Worker /\ q.pc = "create" /\ q.checkout = worker[w].checkout
        /\ q.left = OrdersOf(worker[w].checkout)
    BY <1>0 DEF Worker, Steps, OrdersOf
  <2>2. (Set(w, q) /\ UNCHANGED outcome) \/ Refuse(w)
    BY <1>3 DEF Validate
  <2> HIDE DEF q
  <2> QED BY <1>3, <2>1, <2>2, PlaceKeeps, EndKeeps DEF Validate, At
<1>4. CASE Create(w)
  <2>1. PICK o \in worker[w].left :
          /\ status' = [status EXCEPT ![o] = "CONFIRMED"]
          /\ Set(w, [worker[w] EXCEPT !.pc = "deduct", !.order = o, !.todo = LinesOf({o}),
                         !.left = @ \ {o}])
    BY <1>4 DEF Create
  <2> DEFINE q == [worker[w] EXCEPT !.pc = "deduct", !.order = o, !.todo = LinesOf({o}), !.left = @ \ {o}]
  <2>2. o \in Orders /\ LinesOf({o}) \subseteq Lines
    BY <1>0 DEF Worker, LinesOf
  <2>3. q \in Worker /\ q.pc = "deduct" /\ q.checkout = worker[w].checkout /\ q.left \subseteq worker[w].left
    BY <1>0, <2>2 DEF Worker, Steps, OrderIds
  <2>4. Set(w, q)
    BY <2>1
  <2> HIDE DEF q
  <2>5. \A x \in Orders : status'[x] = "SHIPPED" => status[x] = "SHIPPED"
    BY <1>0, <2>1
  <2> QED BY <1>0, <1>4, <2>3, <2>4, <2>5, PlaceKeeps DEF Create, At
<1>5. CASE Deduct(w)
  <2>1. CASE Goto(w, Undoing(w)) /\ UNCHANGED <<stock, claim>>
    BY <1>5, <2>1, GoKeeps DEF Deduct, At, Undoing
  <2>2. ASSUME NEW l \in worker[w].todo,
               Set(w, [worker[w] EXCEPT !.todo = @ \ {l}, !.done = @ \cup {l},
                              !.pc = IF worker[w].todo = {l} THEN "attach" ELSE "deduct"])
        PROVE  OrderInv'
    <3> DEFINE q == [worker[w] EXCEPT !.todo = @ \ {l}, !.done = @ \cup {l},
                              !.pc = IF worker[w].todo = {l} THEN "attach" ELSE "deduct"]
    <3>1. q \in Worker /\ q.pc \in {"attach", "deduct"} /\ q.checkout = worker[w].checkout
          /\ q.left = worker[w].left
      BY <1>0 DEF Worker, Steps
    <3>2. Set(w, q)
      BY <2>2
    <3> HIDE DEF q
    <3> QED BY <1>0, <1>5, <3>1, <3>2, PlaceKeeps DEF Deduct, At
  <2> QED BY <1>5, <2>1, <2>2 DEF Deduct
<1>6. CASE Attach(w)
  BY <1>6, GoKeeps DEF Attach, At
<1> QED BY <1>1, <1>2, <1>3, <1>4, <1>5, <1>6

LEMMA UndoKeeps ==
    ASSUME OrderInv, TypeOK', NEW w \in Workers,
           Undo(w) \/ UndoItems(w) \/ UndoOrders(w) \/ CreateFails(w) \/ PopulateFails(w)
    PROVE  OrderInv'
<1> USE DEF storeVars, keyVars, offer, Placing, CheckoutSteps
<1>0. /\ worker[w] \in Worker /\ status \in [Orders -> OrderDocs]
      /\ worker[w].left \subseteq OrdersOf(worker[w].checkout)
  BY DEF OrderInv, TypeOK, Knows
<1>1. CASE Undo(w)
  <2>1. PICK l \in worker[w].done :
          Set(w, [worker[w] EXCEPT !.done = @ \ {l},
                         !.pc = IF worker[w].done = {l} THEN "undo_items" ELSE "undo"])
    BY <1>1 DEF Undo
  <2> DEFINE q == [worker[w] EXCEPT !.done = @ \ {l},
                         !.pc = IF worker[w].done = {l} THEN "undo_items" ELSE "undo"]
  <2>2. q \in Worker /\ q.pc \in {"undo_items", "undo"} /\ q.checkout = worker[w].checkout
        /\ q.left = worker[w].left
    BY <1>0 DEF Worker, Steps
  <2>3. Set(w, q)
    BY <2>1
  <2> HIDE DEF q
  <2> QED BY <1>0, <1>1, <2>2, <2>3, PlaceKeeps DEF Undo, At
<1>2. CASE UndoItems(w)
  BY <1>2, GoKeeps DEF UndoItems, At
<1>3. CASE UndoOrders(w)
  <2>1. \A o \in Orders : status'[o] = "SHIPPED" => status[o] = "SHIPPED"
    BY <1>0, <1>3 DEF UndoOrders
  <2> QED BY <1>3, <2>1, EndKeeps DEF UndoOrders, At
<1>4. CASE CreateFails(w)
  BY <1>4, GoKeeps DEF CreateFails, Undoing
<1>5. CASE PopulateFails(w)
  BY <1>5, EndKeeps DEF PopulateFails, At
<1> QED BY <1>1, <1>2, <1>3, <1>4, <1>5

LEMMA NextKeeps ==
    ASSUME OrderInv, TypeOK', NEW w \in Workers, NEW left \in SUBSET worker[w].left,
           NextOrder(w, left), worker[w].pc \in {"roll", "roll_put", "roll_save"},
           UNCHANGED <<key, intent, answer, holder, expired>>,
           \A o \in Orders :
              \/ pay'[o] = pay[o]
              \/ pay'[o] = "FAILED" /\ (pay[o] = "CAPTURED" => key[CheckoutOf[o]] \in expired),
           \A o \in Orders : status'[o] = "SHIPPED" => status[o] = "SHIPPED"
    PROVE  OrderInv'
<1>1. worker[w] \in Worker /\ worker[w].checkout \in CheckoutIds
      /\ worker[w].left \subseteq OrdersOf(worker[w].checkout) /\ left \in SUBSET Orders
  BY DEF OrderInv, TypeOK, Worker, Knows
<1>2. CASE Refuse(w)
  <2> DEFINE q == [Idle EXCEPT !.pc = "unlock", !.checkout = worker[w].checkout]
  <2>1. q \in Worker
    BY <1>1, Locals DEF Steps
  <2>2. q.pc = "unlock" /\ q.checkout = worker[w].checkout /\ q.left = {}
    BY DEF Idle
  <2>3. Set(w, q) /\ outcome' = [outcome EXCEPT ![worker[w].checkout] = "refused"]
    BY <1>2 DEF Refuse, Proceed
  <2> HIDE DEF q
  <2> QED BY <2>1, <2>2, <2>3, PlaceKeeps DEF CheckoutSteps
<1>3. CASE left # {}
  <2> DEFINE q == [Idle EXCEPT !.pc = "roll", !.checkout = worker[w].checkout, !.left = left]
  <2>1. q \in Worker
    BY <1>1, IdleType DEF Worker, Steps
  <2>2. q.pc = "roll" /\ q.checkout = worker[w].checkout /\ q.left = left
    BY DEF Idle
  <2>3. Set(w, q) /\ UNCHANGED outcome
    BY <1>3 DEF NextOrder
  <2> HIDE DEF q
  <2> QED BY <1>1, <2>1, <2>2, <2>3, PlaceKeeps DEF CheckoutSteps, Placing
<1> QED BY <1>2, <1>3 DEF NextOrder

\* While the lock of its key has not expired, nobody pays for the orders of a checkout
\* that is still being made.
LEMMA NotYetPaid ==
    ASSUME OrderInv, NEW w \in Workers, worker[w].pc \in Placing,
           NEW o \in OrdersOf(worker[w].checkout), pay[o] = "CAPTURED"
    PROVE  key[CheckoutOf[o]] \in expired
<1>1. worker[w].checkout # Nobody /\ CheckoutOf[o] = worker[w].checkout /\ o \in Orders
  BY DEF OrderInv, Knows, Placing, OrdersOf
<1> QED BY <1>1 DEF OrderInv, Locked, PaidIsAnswered, Answered

LEMMA RollKeeps ==
    ASSUME OrderInv, TypeOK', NEW w \in Workers,
           CreateIntent(w) \/ Roll(w) \/ RollPut(w) \/ RollSave(w) \/ RollFails(w)
    PROVE  OrderInv'
<1> USE DEF storeVars, keyVars, offer, Placing, CheckoutSteps
<1>0. /\ worker[w] \in Worker /\ status \in [Orders -> OrderDocs]
      /\ worker[w].left \subseteq OrdersOf(worker[w].checkout)
      /\ worker[w].left \subseteq Orders
  BY DEF OrderInv, TypeOK, Knows, OrdersOf
<1>1. CASE CreateIntent(w)
  <2>1. \A i \in Keys : \A o \in intent'[i] : o \in intent[i] \/ key[CheckoutOf[o]] = i
    <3> DEFINE j == key[worker[w].checkout]
               os == OrdersOf(worker[w].checkout)
    <3>1. intent' = intent \/ intent' = [intent EXCEPT ![j] = IF intent[j] = {} THEN os ELSE intent[j]]
      BY <1>1 DEF CreateIntent
    <3>2. \A o \in os : key[CheckoutOf[o]] = j
      BY DEF OrdersOf
    <3> HIDE DEF j, os
    <3> QED BY <3>1, <3>2 DEF OrderInv, TypeOK
  <2> DEFINE q == [worker[w] EXCEPT !.pc = "roll", !.left = OrdersOf(worker[w].checkout)]
  <2>2. q \in Worker /\ q.pc = "roll" /\ q.checkout = worker[w].checkout
        /\ q.left = OrdersOf(worker[w].checkout)
    BY <1>0 DEF Worker, Steps, OrdersOf
  <2>3. CASE RollBack(w)
    <3>1. Set(w, q)
      BY <2>3 DEF RollBack
    <3> HIDE DEF q
    <3> QED BY <1>1, <2>1, <2>2, <3>1, PlaceKeeps DEF CreateIntent, At
  <2>4. CASE Goto(w, "record")
    BY <1>1, <2>1, <2>4, GoKeeps DEF CreateIntent, At
  <2> QED BY <1>1, <2>3, <2>4 DEF CreateIntent
<1>2. CASE Roll(w)
  <2>1. PICK o \in worker[w].left :
          IF ~Exists(o)
          THEN NextOrder(w, worker[w].left \ {o})
          ELSE /\ Set(w, [worker[w] EXCEPT !.left = @ \ {o}, !.order = o, !.todo = {o} \X items[o],
                             !.target = Written(o, "CANCELLED"),
                             !.pc = IF items[o] = {} THEN "roll_save" ELSE "roll_put"])
               /\ UNCHANGED outcome
    BY <1>2 DEF Roll
  <2>2. CASE NextOrder(w, worker[w].left \ {o})
    BY <1>2, <2>2, NextKeeps DEF Roll, At
  <2>3. CASE Exists(o)
    <3> DEFINE step == IF items[o] = {} THEN "roll_save" ELSE "roll_put"
    <3> DEFINE lines == {o} \X items[o]
    <3> DEFINE new == Written(o, "CANCELLED")
    <3> DEFINE left == worker[w].left \ {o}
    <3> DEFINE q == [worker[w] EXCEPT !.left = left, !.order = o, !.todo = lines, !.target = new, !.pc = step]
    <3>1. items[o] \subseteq Products /\ Written(o, "CANCELLED") \in {"CANCELLED", "ABSENT"} \cap OrderDocs
      BY <1>0 DEF OrderInv, TypeOK, Written, OrderDocs, OrderStatuses
    <3>2. o \in OrderIds /\ lines \in SUBSET Lines /\ left \in SUBSET Orders /\ new \in OrderDocs
      BY <1>0, <3>1 DEF OrderIds, Lines
    <3>3. step \in {"roll_save", "roll_put"} /\ step \in Steps
      BY DEF Steps
    <3>4. /\ q \in Worker /\ q.pc = step /\ q.checkout = worker[w].checkout
          /\ q.left = left /\ q.order = o /\ q.target = new
      <4> HIDE DEF step, lines, new, left
      <4>1. q \in Worker
        BY <1>0, <3>2, <3>3 DEF Worker
      <4>2. /\ q.pc = step /\ q.checkout = worker[w].checkout
            /\ q.left = left /\ q.order = o /\ q.target = new
        BY <1>0 DEF Worker
      <4> QED BY <4>1, <4>2
    <3>5. Set(w, q) /\ UNCHANGED outcome
      BY <2>1, <2>3
    <3>6. /\ worker[w].pc = "roll" /\ o \in OrdersOf(worker[w].checkout)
          /\ UNCHANGED <<storeVars, key, intent, answer, holder, expired>>
      BY <1>0, <1>2 DEF Roll, At
    <3>7. /\ q \in Worker /\ q.checkout = worker[w].checkout
          /\ q.pc \in {"roll_save", "roll_put"} /\ q.left \subseteq OrdersOf(worker[w].checkout)
          /\ q.order \in OrdersOf(worker[w].checkout) /\ q.target \in {"CANCELLED", "ABSENT"}
      BY <1>0, <3>1, <3>3, <3>4, <3>6
    <3> HIDE DEF q, step, lines, new, left
    <3> QED BY <3>5, <3>6, <3>7, PlaceKeeps
  <2> QED BY <2>1, <2>2, <2>3
<1>3. CASE RollPut(w)
  <2>1. PICK l \in worker[w].todo :
          Set(w, [worker[w] EXCEPT !.todo = @ \ {l},
                         !.pc = IF worker[w].todo = {l} THEN "roll_save" ELSE "roll_put"])
    BY <1>3 DEF RollPut
  <2> DEFINE q == [worker[w] EXCEPT !.todo = @ \ {l},
                         !.pc = IF worker[w].todo = {l} THEN "roll_save" ELSE "roll_put"]
  <2>2. /\ q \in Worker /\ q.pc \in {"roll_save", "roll_put"} /\ q.checkout = worker[w].checkout
        /\ q.left = worker[w].left /\ q.order = worker[w].order /\ q.target = worker[w].target
    BY <1>0 DEF Worker, Steps
  <2>3. Set(w, q)
    BY <2>1
  <2>4. worker[w].order \in OrdersOf(worker[w].checkout) /\ worker[w].target \in {"CANCELLED", "ABSENT"}
    BY <1>3 DEF RollPut, At, OrderInv, Knows
  <2> HIDE DEF q
  <2> QED BY <1>0, <1>3, <2>2, <2>3, <2>4, PlaceKeeps DEF RollPut, At
<1>4. CASE RollSave(w)
  <2>1. worker[w].order \in OrdersOf(worker[w].checkout) /\ worker[w].target \in {"CANCELLED", "ABSENT"}
    BY <1>4 DEF RollSave, At, OrderInv, Knows
  <2>2. \A o \in Orders : status'[o] = "SHIPPED" => status[o] = "SHIPPED"
    BY <1>0, <1>4, <2>1 DEF RollSave, Write
  <2>3. pay \in [Orders -> {"PENDING", "CAPTURED", "FAILED"}]
    BY DEF OrderInv, TypeOK
  <2>4. \A o \in Orders :
          \/ pay'[o] = pay[o]
          \/ pay'[o] = "FAILED" /\ (pay[o] = "CAPTURED" => key[CheckoutOf[o]] \in expired)
    <3>1. \A o \in Orders : pay'[o] = pay[o] \/ (pay'[o] = "FAILED" /\ o = worker[w].order)
      BY <1>4, <2>3 DEF RollSave
    <3> QED BY <1>4, <2>1, <3>1, NotYetPaid DEF RollSave, At
  <2> QED BY <1>4, <2>2, <2>4, NextKeeps DEF RollSave, At
<1>5. CASE RollFails(w)
  BY <1>5, NextKeeps DEF RollFails
<1> QED BY <1>1, <1>2, <1>3, <1>4, <1>5

\* What a worker does outside a checkout
LEMMA OtherKeeps ==
    ASSUME OrderInv, TypeOK', NEW w \in Workers, NEW q \in Worker, Set(w, q),
           q.checkout = Nobody, q.pc \notin CheckoutSteps, q.left = {},
           UNCHANGED <<key, intent, outcome, answer>>, expired \subseteq expired',
           \A i \in Keys : holder'[i] = holder[i] \/ holder[i] = w,
           q.pc = "capture" =>
              q.order \in Orders /\ Answered(q.order) /\ q.target \in {"CONFIRMED", "ABSENT"},
           q.pc \in {"put", "save"} =>
              q.order \in Orders /\ (q.target = "SHIPPED" => PaidFor(q.order)),
           \A o \in Orders : PaidFor(o) => PaidFor(o)',
           \A o \in Orders : pay'[o] = "CAPTURED" => pay[o] = "CAPTURED" \/ Answered(o),
           \A o \in Orders : status'[o] = "SHIPPED" => status[o] = "SHIPPED" \/ PaidFor(o)
    PROVE  OrderInv'
<1>1. worker'[w] = q /\ \A v \in Workers \ {w} : worker'[v] = worker[v]
  BY DEF Set, OrderInv, TypeOK
<1>2. Frame(w)
  BY <1>1 DEF Frame
<1>3. Knows(w)'
  BY <1>1, KeyTypes DEF Knows, Answered, CheckoutSteps, OrderInv
<1>4. Locked(w)'
  BY <1>1 DEF Locked
<1>5. (\A i \in Keys : Stored(i)') /\ (\A k \in Checkouts : Recorded(k)')
  BY SameKeys
<1> QED BY <1>1, <1>2, <1>3, <1>4, <1>5, Keeps

LEMMA IdleKeeps ==
    ASSUME OrderInv, TypeOK', NEW w \in Workers, Finish(w),
           UNCHANGED <<key, intent, outcome, answer>>, expired \subseteq expired',
           \A i \in Keys : holder'[i] = holder[i] \/ holder[i] = w,
           \A o \in Orders : PaidFor(o) => PaidFor(o)',
           \A o \in Orders : pay'[o] = "CAPTURED" => pay[o] = "CAPTURED" \/ Answered(o),
           \A o \in Orders : status'[o] = "SHIPPED" => status[o] = "SHIPPED" \/ PaidFor(o)
    PROVE  OrderInv'
<1>1. Set(w, Idle) /\ Idle \in Worker
  BY IdleType DEF Finish
<1>2. Idle.checkout = Nobody /\ Idle.left = {} /\ Idle.pc = "idle"
  BY DEF Idle
<1>3. "idle" \notin CheckoutSteps \cup {"capture", "put", "save"}
  BY DEF CheckoutSteps
<1> HIDE DEF Idle
<1> QED BY <1>1, <1>2, <1>3, OtherKeeps

LEMMA StatusKeeps ==
    ASSUME OrderInv, TypeOK', NEW w \in Workers,
           Put(w) \/ Save(w) \/ UpdateFails(w) \/ \E o \in Orders : \E target \in Targets : Update(w, o, target)
    PROVE  OrderInv'
<1> USE DEF storeVars, keyVars, offer
<1>0. /\ worker[w] \in Worker /\ status \in [Orders -> OrderDocs]
      /\ worker[w].pc \in {"put", "save"} =>
            /\ worker[w].checkout = Nobody /\ worker[w].order \in Orders
            /\ worker[w].left = {}
            /\ worker[w].target = "SHIPPED" => PaidFor(worker[w].order)
  <2>1. OrdersOf(Nobody) = {}
    BY OrderStockAssumption DEF OrdersOf
  <2> QED BY <2>1 DEF OrderInv, TypeOK, Knows, CheckoutSteps
<1>1. CASE Put(w)
  <2>1. PICK l \in worker[w].todo :
          Set(w, [worker[w] EXCEPT !.todo = @ \ {l},
                         !.pc = IF worker[w].todo = {l} THEN "save" ELSE "put"])
    BY <1>1 DEF Put
  <2> DEFINE q == [worker[w] EXCEPT !.todo = @ \ {l},
                         !.pc = IF worker[w].todo = {l} THEN "save" ELSE "put"]
  <2>2. /\ q \in Worker /\ q.pc \in {"save", "put"} /\ q.checkout = worker[w].checkout
        /\ q.left = worker[w].left /\ q.order = worker[w].order /\ q.target = worker[w].target
    BY <1>0 DEF Worker, Steps
  <2>3. Set(w, q)
    BY <2>1
  <2>4. q.pc \notin CheckoutSteps
    BY <2>2 DEF CheckoutSteps
  <2> HIDE DEF q
  <2>5. UNCHANGED <<key, intent, outcome, answer, expired, holder, pay, status>>
    BY <1>1 DEF Put
  <2>6. worker[w].pc = "put"
    BY <1>1 DEF Put, At
  <2> QED BY <1>0, <2>2, <2>3, <2>4, <2>5, <2>6, OtherKeeps DEF PaidFor
<1>2. CASE Save(w)
  <2>1. \A o \in Orders : status'[o] = "SHIPPED" => status[o] = "SHIPPED" \/ PaidFor(o)
    BY <1>0, <1>2 DEF Save, At, Write
  <2> QED BY <1>2, <2>1, IdleKeeps DEF Save, PaidFor
<1>3. CASE UpdateFails(w)
  BY <1>3, IdleKeeps DEF UpdateFails, PaidFor
<1>4. ASSUME NEW o \in Orders, NEW target \in Targets, Update(w, o, target) PROVE OrderInv'
  <2> DEFINE step == IF PutsBack(target) /\ items[o] # {} THEN "put" ELSE "save"
  <2> DEFINE lines == IF PutsBack(target) THEN {o} \X items[o] ELSE {}
  <2> DEFINE q == [Idle EXCEPT !.order = o, !.target = target, !.todo = lines, !.pc = step]
  <2>1. step \in {"put", "save"} /\ step \in Steps
    BY DEF Steps
  <2>2. items[o] \subseteq Products
    BY DEF OrderInv, TypeOK
  <2>3. lines \in SUBSET Lines /\ target \in OrderDocs /\ o \in OrderIds
    BY <2>2, OrderStockAssumption DEF Lines, OrderDocs, OrderIds
  <2>4. Set(w, q) /\ (target = "SHIPPED" => pay[o] = "CAPTURED")
    BY <1>4 DEF Update
  <2>5. /\ q \in Worker /\ q.checkout = Nobody /\ q.left = {} /\ q.pc = step
        /\ q.order = o /\ q.target = target
    <3> HIDE DEF step, lines
    <3>1. q \in Worker
      BY <2>1, <2>3, IdleType DEF Worker
    <3>2. q.checkout = Nobody /\ q.left = {} /\ q.pc = step /\ q.order = o /\ q.target = target
      BY DEF Idle
    <3> QED BY <3>1, <3>2
  <2>6. step \notin CheckoutSteps
    BY DEF CheckoutSteps
  <2>7. UNCHANGED <<key, intent, outcome, answer, expired, holder, pay, status>>
    BY <1>4 DEF Update
  <2> HIDE DEF q, step, lines
  <2> QED BY <2>1, <2>4, <2>5, <2>6, <2>7, OtherKeeps DEF PaidFor
<1> QED BY <1>1, <1>2, <1>3, <1>4

LEMMA CaptureKeeps ==
    ASSUME OrderInv, TypeOK', NEW w \in Workers,
           Confirm(w) \/ \E i \in Keys : \E o \in Orders : Capture(w, i, o)
    PROVE  OrderInv'
<1> USE DEF storeVars, keyVars, offer
<1>1. CASE Confirm(w)
  <2>1. /\ worker[w].order \in Orders /\ Answered(worker[w].order)
        /\ worker[w].target \in {"CONFIRMED", "ABSENT"}
    BY <1>1 DEF Confirm, At, OrderInv, Knows
  <2>2. /\ status \in [Orders -> OrderDocs] /\ pay \in [Orders -> {"PENDING", "CAPTURED", "FAILED"}]
    BY DEF OrderInv, TypeOK
  <2>3. \A o \in Orders : pay'[o] = pay[o] \/ (pay'[o] = "CAPTURED" /\ o = worker[w].order)
    BY <1>1, <2>2 DEF Confirm
  <2>4. \A o \in Orders : status'[o] = "SHIPPED" => status[o] = "SHIPPED"
    BY <1>1, <2>1, <2>2 DEF Confirm, Write
  <2> QED BY <1>1, <2>1, <2>3, <2>4, IdleKeeps DEF Confirm, PaidFor
<1>2. ASSUME NEW i \in Keys, NEW o \in Orders, Capture(w, i, o) PROVE OrderInv'
  <2> DEFINE new == Written(o, "CONFIRMED")
  <2> DEFINE q == [Idle EXCEPT !.pc = "capture", !.order = o, !.target = new]
  <2>1. new \in {"CONFIRMED", "ABSENT"} /\ new \in OrderDocs /\ o \in OrderIds /\ "capture" \in Steps
    BY DEF Written, OrderDocs, OrderStatuses, OrderIds, Steps
  <2>2. Set(w, q)
    BY <1>2 DEF Capture
  <2>3. Answered(o)
    BY <1>2 DEF Capture, OrderInv, Stored, Answered
  <2>4. /\ q \in Worker /\ q.checkout = Nobody /\ q.left = {} /\ q.pc = "capture"
        /\ q.order = o /\ q.target = new
    <3> HIDE DEF new
    <3>1. q \in Worker
      BY <2>1, IdleType DEF Worker
    <3>2. q.checkout = Nobody /\ q.left = {} /\ q.pc = "capture" /\ q.order = o /\ q.target = new
      BY DEF Idle
    <3> QED BY <3>1, <3>2
  <2>5. UNCHANGED <<key, intent, outcome, answer, expired, holder, pay, status>>
    BY <1>2 DEF Capture
  <2>6. "capture" \notin CheckoutSteps
    BY DEF CheckoutSteps
  <2> HIDE DEF q, new
  <2> QED BY <2>1, <2>2, <2>3, <2>4, <2>5, <2>6, OtherKeeps DEF PaidFor
<1> QED BY <1>1, <1>2

LEMMA LeaveKeeps ==
    ASSUME OrderInv, TypeOK', NEW w \in Workers, Unlock(w) \/ Crash(w)
    PROVE  OrderInv'
<1> USE DEF storeVars, keyVars, offer
<1>1. holder \in [Keys -> Workers \cup {Free, Orphan}]
  BY DEF OrderInv, TypeOK
<1>2. CASE Unlock(w)
  BY <1>1, <1>2, IdleKeeps DEF Unlock, PaidFor
<1>3. CASE Crash(w)
  BY <1>1, <1>3, IdleKeeps DEF Crash, PaidFor
<1> QED BY <1>2, <1>3

LEMMA BeginKeeps ==
    ASSUME OrderInv, TypeOK', NEW w \in Workers, NEW k \in Checkouts, Begin(w, k)
    PROVE  OrderInv'
<1> USE DEF storeVars, keyVars, offer
<1> DEFINE q == [Idle EXCEPT !.pc = "again", !.checkout = k]
<1>1. q.pc = "again" /\ q.checkout = k /\ q.left = {}
  BY DEF Idle
<1>2. Set(w, q)
  BY DEF Begin
<1> HIDE DEF q
<1>3. worker'[w] = q /\ \A v \in Workers \ {w} : worker'[v] = worker[v]
  BY <1>2 DEF Set, OrderInv, TypeOK
<1>4. /\ key[k] \in Keys /\ k # Nobody
      /\ outcome \in [Checkouts -> Outcomes] /\ holder \in [Keys -> Workers \cup {Free, Orphan}]
  BY KeyTypes DEF OrderInv, TypeOK
<1>5. /\ outcome[k] = "new" /\ outcome'[k] = "running"
      /\ \A j \in Checkouts \ {k} : outcome'[j] = outcome[j]
      /\ holder'[key[k]] = w /\ holder[key[k]] = Free
      /\ \A i \in Keys \ {key[k]} : holder'[i] = holder[i]
      /\ UNCHANGED <<key, intent, answer, expired, pay, status>>
  BY <1>4 DEF Begin
<1>6. Frame(w)
  BY <1>3, <1>5 DEF Frame, PaidFor
<1>7. Knows(w)'
  BY <1>1, <1>3, <1>4, <1>5 DEF Knows, CheckoutSteps
<1>8. Locked(w)'
  BY <1>1, <1>3, <1>5 DEF Locked, Placing
<1>9. \A j \in Checkouts : outcome'[j] = "placed" <=> outcome[j] = "placed"
  BY <1>5
<1>10. (\A i \in Keys : Stored(i)') /\ (\A j \in Checkouts : Recorded(j)')
  BY <1>5, <1>9, SameKeys
<1> QED BY <1>1, <1>3, <1>5, <1>6, <1>7, <1>8, <1>10, Keeps

LEMMA RecordKeeps ==
    ASSUME OrderInv, TypeOK', NEW w \in Workers, Record(w)
    PROVE  OrderInv'
<1> USE DEF storeVars, keyVars, offer
<1> DEFINE k == worker[w].checkout
<1> DEFINE q == [worker[w] EXCEPT !.pc = "unlock"]
<1>1. /\ q.pc = "unlock" /\ q.checkout = k /\ q.left = worker[w].left /\ worker[w].pc = "record"
      /\ worker[w].left \subseteq OrdersOf(k)
  BY DEF OrderInv, TypeOK, Worker, Record, At, Knows
<1>2. worker'[w] = q /\ \A v \in Workers \ {w} : worker'[v] = worker[v]
  BY DEF Record, Goto, Set, OrderInv, TypeOK
<1>3. k \in Checkouts /\ k # Nobody /\ key[k] \in Keys
  BY <1>1, KeyTypes DEF OrderInv, Knows, CheckoutSteps
<1>4. key[k] \notin expired => holder[key[k]] = w /\ answer[key[k]] = Nobody
  BY <1>1, <1>3 DEF OrderInv, Locked, Placing, CheckoutSteps
<1> HIDE DEF q
<1>5. /\ outcome'[k] = "placed" /\ \A j \in Checkouts \ {k} : outcome'[j] = outcome[j]
      /\ answer'[key[k]] = k /\ \A i \in Keys \ {key[k]} : answer'[i] = answer[i]
      /\ UNCHANGED <<key, intent, holder, expired, pay, status>>
  BY <1>3 DEF Record, OrderInv, TypeOK
<1> HIDE DEF k
<1>6. Frame(w)
  BY <1>2, <1>3, <1>4, <1>5 DEF Frame, PaidFor, k
<1>7. Knows(w)'
  BY <1>1, <1>2, <1>3, <1>5 DEF Knows, CheckoutSteps, OrdersOf
<1>8. Locked(w)'
  BY <1>1, <1>2, <1>4, <1>5 DEF Locked, Placing
<1>9. ASSUME NEW i \in Keys PROVE Stored(i)'
  <2>1. Stored(i) /\ answer[i] \in Checkouts \cup {Nobody}
    BY DEF OrderInv, TypeOK, CheckoutIds
  <2>2. CASE i = key[k]
    BY <1>3, <1>5, <2>1, <2>2 DEF Stored
  <2>3. CASE i # key[k]
    BY <1>3, <1>5, <2>1, <2>3 DEF Stored
  <2> QED BY <2>2, <2>3
<1>10. ASSUME NEW j \in Checkouts PROVE Recorded(j)'
  <2>1. Recorded(j) /\ j # Nobody /\ key[j] \in Keys
    BY KeyTypes DEF OrderInv
  <2>2. CASE j = k
    BY <1>5, <2>2 DEF Recorded
  <2>3. CASE j # k
    BY <1>3, <1>4, <1>5, <2>1, <2>3 DEF Recorded
  <2> QED BY <2>2, <2>3
<1> QED BY <1>1, <1>2, <1>5, <1>6, <1>7, <1>8, <1>9, <1>10, Keeps DEF k

\* What happens beside the workers
LEMMA BesideKeeps ==
    ASSUME OrderInv, TypeOK', UNCHANGED <<key, worker, pay, intent, outcome, answer>>,
           expired \subseteq expired',
           \A i \in Keys : holder'[i] = holder[i] \/ i \in expired',
           \A o \in Orders : status'[o] = "SHIPPED" => status[o] = "SHIPPED"
    PROVE  OrderInv'
<1>1. ASSUME NEW w \in Workers PROVE Knows(w)' /\ Locked(w)'
  <2>1. Knows(w)'
    BY DEF OrderInv, Knows, Answered, PaidFor
  <2>2. Locked(w)'
    BY KeyTypes DEF OrderInv, Locked
  <2> QED BY <2>1, <2>2
<1>2. Single' /\ PaidIsAnswered'
  BY DEF OrderInv, Single, PaidIsAnswered, Answered
<1>3. ShippedIsPaid'
  BY DEF OrderInv, ShippedIsPaid
<1>4. (\A i \in Keys : Stored(i)') /\ (\A k \in Checkouts : Recorded(k)')
  BY SameKeys DEF OrderInv, Stored
<1> QED BY <1>1, <1>2, <1>3, <1>4 DEF OrderInv
-----------------------------------------------------------------------------
LEMMA InitOrderInv == Init => OrderInv
<1> SUFFICES ASSUME Init PROVE OrderInv
  OBVIOUS
<1>1. TypeOK
  BY TypeInit
<1>2. ASSUME NEW w \in Workers PROVE Knows(w) /\ Locked(w)
  <2>1. worker[w] = Idle
    BY DEF Init
  <2>2. Idle.pc = "idle" /\ Idle.checkout = Nobody /\ Idle.left = {}
    BY DEF Idle
  <2> QED BY <2>1, <2>2 DEF Knows, Locked, CheckoutSteps
<1>3. Single
  BY DEF Init, Idle, Single
<1>4. (\A i \in Keys : Stored(i)) /\ (\A k \in Checkouts : Recorded(k))
  BY DEF Init, Stored, Recorded
<1>5. PaidIsAnswered /\ ShippedIsPaid
  BY DEF Init, PaidIsAnswered, ShippedIsPaid
<1> QED BY <1>1, <1>2, <1>3, <1>4, <1>5 DEF OrderInv

LEMMA NextOrderInv == OrderInv /\ [Next]_vars => OrderInv'
<1> SUFFICES ASSUME OrderInv, [Next]_vars PROVE OrderInv'
  OBVIOUS
<1>1. TypeOK'
  BY TypeStep DEF OrderInv
<1>2. ASSUME NEW w \in Workers, Start(w) PROVE OrderInv'
  BY <1>1, <1>2, BeginKeeps, StatusKeeps, CaptureKeeps DEF Start
<1>3. ASSUME NEW w \in Workers, Advance(w) PROVE OrderInv'
  BY <1>1, <1>3, CreateOrderKeeps, UndoKeeps, RollKeeps, RecordKeeps, LeaveKeeps, StatusKeeps,
     CaptureKeeps DEF Advance, Checkout
<1>4. ASSUME NEW w \in Workers, Fail(w) PROVE OrderInv'
  BY <1>1, <1>4, UndoKeeps, RollKeeps, StatusKeeps, LeaveKeeps DEF Fail
<1>5. ASSUME NEW o \in Orders, Deliver(o) PROVE OrderInv'
  <2>1. \A x \in Orders : status'[x] = "SHIPPED" => status[x] = "SHIPPED"
    BY <1>5 DEF Deliver, OrderInv, TypeOK
  <2> QED BY <1>1, <1>5, <2>1, BesideKeeps DEF Deliver, keyVars
<1>6. ASSUME NEW i \in Keys, Expire(i) PROVE OrderInv'
  <2>1. \A j \in Keys : holder'[j] = holder[j] \/ j \in expired'
    BY <1>6 DEF Expire, OrderInv, TypeOK
  <2> QED BY <1>1, <1>6, <2>1, BesideKeeps DEF Expire, storeVars
<1>7. ASSUME NEW v \in Variants, RemoveVariant(v) PROVE OrderInv'
  BY <1>1, <1>7, BesideKeeps DEF RemoveVariant, keyVars
<1>8. CASE UNCHANGED vars
  BY <1>1, <1>8, BesideKeeps DEF vars, storeVars, keyVars
<1> QED BY <1>2, <1>3, <1>4, <1>5, <1>6, <1>7, <1>8 DEF Next

LEMMA OrderInvariant == Spec => []OrderInv
BY InitOrderInv, NextOrderInv, PTL DEF Spec

\* The stores hold documents of their schemas and the stock of no product without
\* variants goes below zero, whatever checkouts, status updates and captures overlap.
\* (Nothing of the kind holds for variants: their deductions do not look at the count.)
THEOREM OrderTypeCorrect == Spec => []TypeOK
<1>1. OrderInv => TypeOK
  BY DEF OrderInv
<1> QED BY <1>1, OrderInvariant, PTL

\* initiateCheckout places at most one order per Idempotency-Key while the lock of
\* the key has not expired: the second look for an answer happens under the lock.
THEOREM KeysPlaceOnce == Spec => []KeyPlacesOnce
<1>1. OrderInv => KeyPlacesOnce
  BY DEF OrderInv, Recorded, KeyPlacesOnce
<1> QED BY <1>1, OrderInvariant, PTL

\* A payment for orders that were rolled back needs another checkout with their key
\* that was placed and handed out the intent the failed one had left.
THEOREM StrayCapturesNeedRetry == Spec => []StrayCaptureNeedsRetry
<1>1. ASSUME OrderInv PROVE StrayCaptureNeedsRetry
  <2> SUFFICES ASSUME NEW o \in Orders, NEW k \in Checkouts, k = CheckoutOf[o],
                      pay[o] = "CAPTURED", outcome[k] = "refused"
               PROVE  \E j \in Checkouts : j # k /\ key[j] = key[k] /\ outcome[j] = "placed"
    BY DEF StrayCaptureNeedsRetry
  <2>1. answer[key[k]] # Nobody /\ key[k] \in Keys
    BY <1>1, KeyTypes DEF OrderInv, PaidIsAnswered, Answered
  <2>2. answer[key[k]] \in Checkouts
    BY <1>1, <2>1 DEF OrderInv, TypeOK, CheckoutIds
  <2>3. outcome[answer[key[k]]] = "placed" /\ key[answer[key[k]]] = key[k]
    BY <1>1, <2>1 DEF OrderInv, Stored
  <2> QED BY <2>2, <2>3
<1> QED BY <1>1, OrderInvariant, PTL

\* No unpaid order ships while the lock of its checkout's key has not expired: a
\* rollback that marks the payment failed never runs beside the customer's payment.
THEOREM ShippedArePaid == Spec => []ShippedIsPaid
<1>1. OrderInv => ShippedIsPaid
  BY DEF OrderInv
<1> QED BY <1>1, OrderInvariant, PTL
=============================================================================
