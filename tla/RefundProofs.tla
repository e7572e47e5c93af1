---------------------------- MODULE RefundProofs ----------------------------
(***************************************************************************)
(* The safety properties of Refund for every set of requests, keys, amounts*)
(* and chargebacks and any number of failures, lost answers and crashes.   *)
(*                                                                         *)
(* None of them is inductive. Knows says what a request knows of its       *)
(* refund at each of its steps; it keeps knowing it because the unique key *)
(* lets no two requests process one refund (Apart), and, for the answers,  *)
(* because two requests for one refund mean that it was asked for again    *)
(* (Noticed). The ceiling needs the lock besides.                          *)
(***************************************************************************)
EXTENDS Refund, TLAPS, FiniteSetTheorems

\* The steps that come after the unique index has let the refund in, ...
Processing == {"dispatch", "header", "postings", "credit", "gateway", "complete", "fail"}
\* ... those before it, ...
Deciding == {"find", "sum", "create"}
\* ... and all steps of a request for a refund
Refunding == Processing \cup Deciding \cup {"enqueue", "release", "record"}
Disputing == {"resolve", "book"}

\* What the request with the locals q knows at its step
Knows(q) ==
    /\ q.pc \in Disputing <=> q.dispute # "none"
    /\ q.pc \in Disputing => q.outcome \in {"CHARGEBACK_WON", "CHARGEBACK_LOST"}
    /\ q.pc \in Deciding /\ Created(q.key) => q.key \in asked
    /\ q.pc = "dispatch" => refund[q.key] = "REQUESTED"
    /\ q.pc \in Processing \ {"dispatch"} => refund[q.key] = "PROCESSING"
    /\ q.pc \in {"dispatch", "gateway", "credit"} => paid[q.key] = 0
    /\ q.pc = "gateway" => Destination[q.key] # "WALLET"
    /\ q.pc \in {"header", "postings"}
          => paid[q.key] = IF Destination[q.key] = "WALLET" THEN 0 ELSE 1
    /\ q.pc \in {"credit", "complete"} => journal[q.key] = "full"
    /\ q.pc = "complete" => paid[q.key] = 1
    /\ q.pc = "enqueue" => refund[q.key] = "COMPLETED"
    /\ q.pc \in Deciding \cup Processing => ~q.ok
    /\ q.pc = "record" => q.ok
    /\ q.pc \in {"release", "record"} /\ q.ok =>
          q.key \in asked \/ refund[q.key] = "COMPLETED"

\* No two requests process one refund.
Apart ==
    \A r, s \in Requests :
        r # s /\ req[r].pc \in Processing /\ req[s].pc \in Processing => req[r].key # req[s].key

\* A refund that two requests are at work for was asked for again.
Noticed ==
    \A r, s \in Requests :
        r # s /\ req[r].pc \in Refunding /\ req[s].pc \in Refunding /\ req[r].key = req[s].key
            => req[r].key \in asked

\* What holds of a refund, whoever is at work on it
Books(k) ==
    /\ paid[k] <= 1
    /\ ~Created(k) => paid[k] = 0
    /\ refund[k] = "COMPLETED" => paid[k] = 1 /\ journal[k] = "full"

RefundInv ==
    /\ TypeOK
    /\ \A r \in Requests : Knows(req[r])
    /\ Apart /\ Noticed
    /\ \A k \in Refunds : Books(k)
    /\ SuccessIsCompleted

USE DEF Processing, Deciding, Refunding, Disputing

-----------------------------------------------------------------------------
(* How a step of one request leaves the others alone.                      *)

\* A step of r leaves the locals of the other requests alone.
Moves(r) == req' = [req EXCEPT ![r] = req'[r]]

\* It changes only the refund it processes, or the one it creates.
Owns(r, k) ==
    /\ k = req[r].key
    /\ req[r].pc \in Processing \/ (req[r].pc = "create" /\ ~Created(k))
Unchanged(k) ==
    refund'[k] = refund[k] /\ paid'[k] = paid[k] /\ journal'[k] = journal[k]
Confined(r) == \A k \in Refunds : Unchanged(k) \/ (Owns(r, k) /\ Created(k)')

LEMMA StaysCompleted ==
    ASSUME RefundInv, NEW r \in Requests, Confined(r), NEW k \in Refunds
    PROVE  /\ Created(k) => Created(k)'
           /\ refund[k] = "COMPLETED" => refund'[k] = "COMPLETED"
<1>1. Knows(req[r])
  BY DEF RefundInv
<1> QED BY <1>1 DEF Confined, Unchanged, Owns, Knows, Created

LEMMA StillKnows ==
    ASSUME RefundInv, NEW r \in Requests, Confined(r), asked \subseteq asked',
           NEW s \in Requests \ {r}, req'[s] = req[s]
    PROVE  Knows(req[s])'
<1> DEFINE k == req[s].key
<1>1. Knows(req[s]) /\ req[s] \in Request /\ k \in Refunds
  BY DEF RefundInv, TypeOK, Request
<1>2. req[s].pc \in Processing => Unchanged(k)
  BY <1>1 DEF RefundInv, Apart, Confined, Owns, Knows, Created
<1>3. req[s].pc \in Deciding /\ Created(k)' => k \in asked'
  <2>1. CASE Created(k)
    BY <1>1, <2>1 DEF Knows
  <2>2. CASE ~Created(k)
    BY <1>1, <2>2 DEF Confined, Unchanged, Owns, Created, RefundInv, Noticed
  <2> QED BY <2>1, <2>2
<1>4. refund[k] = "COMPLETED" => refund'[k] = "COMPLETED"
  BY <1>1, StaysCompleted
<1> HIDE DEF k
<1> QED BY <1>1, <1>2, <1>3, <1>4 DEF Knows, Unchanged, k

\* A step of r keeps the invariant if it is confined, if its own locals know what they
\* must, and if the refund it is about keeps its books.
LEMMA Keeps ==
    ASSUME RefundInv, NEW r \in Requests, Moves(r), Confined(r), asked \subseteq asked',
           TypeOK', Knows(req[r])', \A k \in Refunds : Owns(r, k) => Books(k)',
           req'[r].pc \in Processing =>
              Owns(r, req'[r].key),
           req'[r].pc \in Refunding =>
              \/ req[r].pc \in Refunding /\ req'[r].key = req[r].key
              \/ \A s \in Requests \ {r} : req[s].pc \in Refunding /\ req[s].key = req'[r].key
                    => req'[r].key \in asked',
           \A k \in answered' : k \in answered \/ k \in asked' \/ refund'[k] = "COMPLETED"
    PROVE  RefundInv'
<1>1. \A s \in Requests \ {r} : req'[s] = req[s]
  BY DEF Moves, RefundInv, TypeOK
<1>2. \A s \in Requests : Knows(req[s])'
  BY <1>1, StillKnows
<1>3. \A s \in Requests : req[s].key \in Refunds
  BY DEF RefundInv, TypeOK, Request
<1>4. Apart'
  <2>1. ASSUME NEW s \in Requests \ {r}, req'[r].pc \in Processing, req[s].pc \in Processing
        PROVE  req'[r].key # req[s].key
    <3>1. Created(req[s].key)
      BY <2>1 DEF RefundInv, Knows, Created
    <3> QED BY <2>1, <3>1 DEF Owns, RefundInv, Apart
  <2> QED BY <1>1, <2>1 DEF Apart, RefundInv
<1>5. Noticed'
  <2>1. ASSUME NEW s \in Requests \ {r}, req'[r].pc \in Refunding, req[s].pc \in Refunding,
               req'[r].key = req[s].key
        PROVE  req'[r].key \in asked'
    BY <2>1 DEF RefundInv, Noticed
  <2> QED BY <1>1, <2>1 DEF Noticed, RefundInv
<1>6. \A k \in Refunds : Books(k)'
  <2> TAKE k \in Refunds
  <2>1. CASE Unchanged(k)
    BY <2>1 DEF RefundInv, Books, Unchanged, Created
  <2> QED BY <2>1 DEF Confined
<1>7. SuccessIsCompleted'
  <2>1. ASSUME NEW k \in answered', k \notin asked' PROVE refund'[k] = "COMPLETED"
    <3>1. CASE k \in answered
      <4>1. k \in Refunds /\ refund[k] = "COMPLETED"
        BY <2>1, <3>1 DEF RefundInv, SuccessIsCompleted, TypeOK, Refunds
      <4> QED BY <4>1, StaysCompleted
    <3> QED BY <2>1, <3>1
  <2> QED BY <2>1 DEF SuccessIsCompleted
<1> QED BY <1>2, <1>4, <1>5, <1>6, <1>7 DEF RefundInv

LEMMA Stepping ==
    ASSUME RefundInv, NEW r \in Requests, NEW q \in Request, Set(r, q)
    PROVE  Moves(r) /\ req'[r] = q /\ req' \in [Requests -> Request]
BY DEF Set, Moves, RefundInv, TypeOK

LEMMA AtStep ==
    ASSUME RefundInv, NEW r \in Requests
    PROVE  /\ req[r] \in Request /\ Knows(req[r]) /\ req[r].key \in Refunds
           /\ Books(req[r].key)
BY DEF RefundInv, TypeOK, Request

\* The same for a step that leaves the refunds and their ledger alone
LEMMA KeepsRefunds ==
    ASSUME RefundInv, NEW r \in Requests, Moves(r), UNCHANGED <<refund, paid, journal, asked>>,
           TypeOK', Knows(req[r])',
           req'[r].pc \in Processing => req[r].pc \in Processing /\ req'[r].key = req[r].key,
           req'[r].pc \in Refunding => req[r].pc \in Refunding /\ req'[r].key = req[r].key,
           \A k \in answered' : k \in answered \/ k \in asked \/ refund[k] = "COMPLETED"
    PROVE  RefundInv'
<1>1. Confined(r)
  BY DEF Confined, Unchanged
<1>2. \A k \in Refunds : Books(k)'
  BY DEF RefundInv, Books, Created
<1> QED BY <1>1, <1>2, Keeps DEF Owns

LEMMA Going ==
    ASSUME RefundInv, NEW r \in Requests, NEW step \in Steps, Goto(r, step)
    PROVE  /\ Moves(r) /\ req'[r] \in Request /\ req' \in [Requests -> Request]
           /\ req'[r].pc = step /\ req'[r].key = req[r].key /\ req'[r].ok = req[r].ok
           /\ req'[r].dispute = req[r].dispute /\ req'[r].outcome = req[r].outcome
<1>1. req[r] \in Request
  BY AtStep
<1>2. [req[r] EXCEPT !.pc = step] \in Request
  BY <1>1 DEF Request
<1>3. Moves(r) /\ req'[r] = [req[r] EXCEPT !.pc = step] /\ req' \in [Requests -> Request]
  BY <1>2, Stepping DEF Goto
<1> QED BY <1>1, <1>2, <1>3 DEF Request

LEMMA Finishing ==
    ASSUME RefundInv, NEW r \in Requests, Finish(r)
    PROVE  /\ Moves(r) /\ req' \in [Requests -> Request]
           /\ req'[r] = Idle /\ Idle.pc = "idle" /\ Idle.dispute = "none"
<1>1. Idle \in Request /\ Idle.pc = "idle" /\ Idle.dispute = "none"
  BY DEF Idle, Request, Steps, DisputeStatuses, Refunds
<1> QED BY <1>1, Stepping DEF Finish

\* A step that changes only the refund k the request is at work on
LEMMA Works ==
    ASSUME RefundInv, NEW r \in Requests, NEW k \in Refunds, Owns(r, k),
           Moves(r), req'[r].key = k, TypeOK', UNCHANGED <<answered, asked>>,
           \A j \in Refunds \ {k} : Unchanged(j),
           Knows(req[r])', Books(k)', Created(k)'
    PROVE  RefundInv'
<1>1. Confined(r)
  BY DEF Confined
<1>2. req[r].pc \in Refunding /\ req'[r].key = req[r].key
  BY DEF Owns
<1>3. \A j \in Refunds : Owns(r, j) => Books(j)'
  BY DEF Owns
<1> QED BY <1>1, <1>2, <1>3, Keeps

-----------------------------------------------------------------------------
(* One lemma for each step.                                                *)

LEMMA AskKeeps ==
    ASSUME RefundInv, NEW r \in Requests, NEW k \in Refunds, Ask(r, k)
    PROVE  RefundInv'
<1> DEFINE locals == [Idle EXCEPT !.pc = "find", !.key = k]
<1>1. /\ locals \in Request /\ locals.pc = "find" /\ locals.key = k
      /\ locals.dispute = "none" /\ ~locals.ok
  BY DEF Idle, Request, Steps, DisputeStatuses
<1>2. Set(r, locals)
  BY DEF Ask
<1> HIDE DEF locals
<1>3. Moves(r) /\ req'[r] = locals /\ req' \in [Requests -> Request]
  BY <1>1, <1>2, Stepping
<1>4. Confined(r) /\ asked \subseteq asked' /\ asked' \subseteq Refunds
  BY DEF Ask, Confined, Unchanged, RefundInv, TypeOK
<1>5. TypeOK'
  BY <1>3, <1>4 DEF Ask, RefundInv, TypeOK, disputeVars
<1>6. Knows(req[r])'
  BY <1>1, <1>3 DEF Knows, Ask, Created
<1>7. \A s \in Requests \ {r} : req[s].pc \in Refunding /\ req[s].key = k => k \in asked'
  <2> TAKE s \in Requests \ {r}
  <2>1. HAVE req[s].pc \in Refunding /\ req[s].key = k
  <2>2. Knows(req[s])
    BY AtStep
  <2>3. \E p \in Working : req[p].key = k /\ req[p].dispute = "none"
    BY <2>1, <2>2 DEF Knows, Working, At
  <2>4. asked' = asked \cup {k}
    BY <2>3 DEF Ask
  <2> QED BY <2>4
<1>8. \A j \in Refunds : Books(j)'
  BY DEF Ask, Books, Created, RefundInv
<1> QED BY <1>1, <1>3, <1>4, <1>5, <1>6, <1>7, <1>8, Keeps DEF Ask

LEMMA FindKeeps ==
    ASSUME RefundInv, NEW r \in Requests, Find(r)
    PROVE  RefundInv'
<1>1. req[r] \in Request /\ Knows(req[r]) /\ req[r].pc = "find"
  BY AtStep DEF Find, At
<1>2. PICK q \in Request :
         /\ Set(r, q) /\ q.key = req[r].key /\ q.dispute = req[r].dispute
         /\ \/ q.pc = "release" /\ Created(q.key)
            \/ q.pc = "sum" /\ q.ok = req[r].ok
  <2>1. CASE req[r].key # NoKey /\ Created(req[r].key)
    <3> DEFINE locals == [req[r] EXCEPT !.pc = "release", !.ok = TRUE]
    <3>1. Set(r, locals)
      BY <2>1 DEF Find
    <3>2. /\ locals \in Request /\ locals.pc = "release" /\ locals.key = req[r].key
          /\ locals.dispute = req[r].dispute
      BY <1>1 DEF Request, Steps
    <3> HIDE DEF locals
    <3> QED BY <2>1, <3>1, <3>2
  <2>2. CASE ~(req[r].key # NoKey /\ Created(req[r].key))
    <3> DEFINE locals == [req[r] EXCEPT !.pc = "sum"]
    <3>1. Set(r, locals)
      BY <2>2 DEF Find, Goto
    <3>2. /\ locals \in Request /\ locals.pc = "sum" /\ locals.key = req[r].key
          /\ locals.dispute = req[r].dispute /\ locals.ok = req[r].ok
      BY <1>1 DEF Request, Steps
    <3> HIDE DEF locals
    <3> QED BY <3>1, <3>2
  <2> QED BY <2>1, <2>2
<1>3. Moves(r) /\ req'[r] = q /\ req' \in [Requests -> Request]
  BY <1>2, Stepping
<1>4. TypeOK' /\ UNCHANGED <<refund, paid, journal, asked, answered>>
  BY <1>3 DEF Find, RefundInv, TypeOK, refundVars, disputeVars
<1>5. Knows(req[r])'
  BY <1>1, <1>2, <1>3, <1>4 DEF Knows, Created
<1> QED BY <1>1, <1>2, <1>3, <1>4, <1>5, KeepsRefunds

LEMMA SumKeeps ==
    ASSUME RefundInv, NEW r \in Requests, Sum(r)
    PROVE  RefundInv'
<1>1. Knows(req[r]) /\ req[r].pc = "sum"
  BY AtStep DEF Sum, At
<1>2. PICK step \in {"release", "create"} : Goto(r, step)
  BY DEF Sum
<1>3. /\ Moves(r) /\ req' \in [Requests -> Request] /\ req'[r].pc = step
      /\ req'[r].key = req[r].key /\ req'[r].ok = req[r].ok /\ req'[r].dispute = req[r].dispute
  BY <1>2, Going DEF Steps
<1>4. TypeOK' /\ UNCHANGED <<refund, paid, journal, asked, answered>>
  BY <1>3 DEF Sum, RefundInv, TypeOK, refundVars, disputeVars
<1>5. Knows(req[r])'
  BY <1>1, <1>3, <1>4 DEF Knows, Created
<1> QED BY <1>1, <1>3, <1>4, <1>5, KeepsRefunds

LEMMA CreateKeeps ==
    ASSUME RefundInv, NEW r \in Requests, Create(r)
    PROVE  RefundInv'
<1>1. PICK k \in Refunds : k = req[r].key
  BY AtStep
<1>2. Knows(req[r]) /\ Books(k) /\ req[r].pc = "create"
  BY <1>1, AtStep DEF Create, At
<1>3. CASE Created(k)
  <2>1. Goto(r, "release")
    BY <1>1, <1>3 DEF Create
  <2>2. /\ Moves(r) /\ req' \in [Requests -> Request] /\ req'[r].pc = "release"
        /\ req'[r].key = k /\ req'[r].ok = req[r].ok /\ req'[r].dispute = req[r].dispute
    BY <1>1, <2>1, Going DEF Steps
  <2>3. TypeOK' /\ UNCHANGED <<refund, paid, journal, asked, answered>>
    BY <1>1, <1>3, <2>2 DEF Create, RefundInv, TypeOK, disputeVars
  <2>4. Knows(req[r])'
    BY <1>2, <2>2, <2>3 DEF Knows, Created
  <2> QED BY <1>1, <1>2, <2>2, <2>3, <2>4, KeepsRefunds
<1>4. CASE ~Created(k)
  <2>1. Goto(r, "dispatch") /\ refund' = [refund EXCEPT ![k] = "REQUESTED"]
        /\ UNCHANGED <<paid, journal, answered, asked>>
    BY <1>1, <1>4 DEF Create, SetStatus
  <2>2. /\ Moves(r) /\ req' \in [Requests -> Request] /\ req'[r].pc = "dispatch"
        /\ req'[r].key = k /\ req'[r].ok = req[r].ok /\ req'[r].dispute = req[r].dispute
    BY <1>1, <2>1, Going DEF Steps
  <2>3. Owns(r, k)
    BY <1>1, <1>2, <1>4 DEF Owns
  <2>4. TypeOK' /\ refund'[k] = "REQUESTED" /\ \A j \in Refunds \ {k} : Unchanged(j)
    BY <2>1, <2>2 DEF Create, RefundInv, TypeOK, Unchanged, disputeVars, RefundStatuses
  <2>5. Knows(req[r])'
    BY <1>1, <1>2, <1>4, <2>1, <2>2, <2>4 DEF Knows, Books
  <2>6. Books(k)' /\ Created(k)'
    BY <1>2, <1>4, <2>1, <2>4 DEF Books, Created
  <2> QED BY <2>1, <2>2, <2>3, <2>4, <2>5, <2>6, Works
<1> QED BY <1>3, <1>4

LEMMA DispatchKeeps ==
    ASSUME RefundInv, NEW r \in Requests, Dispatch(r)
    PROVE  RefundInv'
<1>1. PICK k \in Refunds : k = req[r].key
  BY AtStep
<1>2. Knows(req[r]) /\ Books(k) /\ req[r].pc = "dispatch" /\ Owns(r, k)
  BY <1>1, AtStep DEF Dispatch, At, Owns
<1>3. /\ refund' = [refund EXCEPT ![k] = "PROCESSING"]
      /\ UNCHANGED <<paid, journal, answered, asked>>
  BY <1>1 DEF Dispatch, SetStatus
<1>4. PICK step \in {"header", "gateway"} :
         Goto(r, step) /\ (step = "header" <=> Destination[k] = "WALLET")
  BY <1>1 DEF Dispatch
<1>5. /\ Moves(r) /\ req' \in [Requests -> Request] /\ req'[r].pc = step
      /\ req'[r].key = k /\ req'[r].ok = req[r].ok /\ req'[r].dispute = req[r].dispute
  BY <1>1, <1>4, Going DEF Steps
<1>6. TypeOK' /\ refund'[k] = "PROCESSING" /\ \A j \in Refunds \ {k} : Unchanged(j)
  BY <1>3, <1>5 DEF Dispatch, RefundInv, TypeOK, Unchanged, disputeVars, RefundStatuses
<1>7. Knows(req[r])'
  BY <1>1, <1>2, <1>3, <1>4, <1>5, <1>6 DEF Knows
<1>8. Books(k)' /\ Created(k)'
  BY <1>1, <1>2, <1>3, <1>6 DEF Books, Created, Knows
<1> QED BY <1>2, <1>3, <1>5, <1>6, <1>7, <1>8, Works

LEMMA HeaderKeeps ==
    ASSUME RefundInv, NEW r \in Requests, Header(r)
    PROVE  RefundInv'
<1>1. PICK k \in Refunds : k = req[r].key
  BY AtStep
<1>2. Knows(req[r]) /\ Books(k) /\ req[r].pc = "header" /\ Owns(r, k)
  BY <1>1, AtStep DEF Header, At, Owns
<1>3. /\ journal' = [journal EXCEPT ![k] = "header"] /\ Goto(r, "postings")
      /\ UNCHANGED <<refund, paid, answered, asked>>
  BY <1>1 DEF Header
<1>4. /\ Moves(r) /\ req' \in [Requests -> Request] /\ req'[r].pc = "postings"
      /\ req'[r].key = k /\ req'[r].ok = req[r].ok /\ req'[r].dispute = req[r].dispute
  BY <1>1, <1>3, Going DEF Steps
<1>5. TypeOK' /\ \A j \in Refunds \ {k} : Unchanged(j)
  BY <1>3, <1>4 DEF Header, RefundInv, TypeOK, Unchanged, disputeVars
<1>6. Knows(req[r])'
  BY <1>1, <1>2, <1>3, <1>4 DEF Knows
<1>7. Books(k)' /\ Created(k)'
  BY <1>1, <1>2, <1>3 DEF Books, Created, Knows
<1> QED BY <1>2, <1>3, <1>4, <1>5, <1>6, <1>7, Works

LEMMA PostingsKeeps ==
    ASSUME RefundInv, NEW r \in Requests, Postings(r)
    PROVE  RefundInv'
<1>1. PICK k \in Refunds : k = req[r].key
  BY AtStep
<1>2. Knows(req[r]) /\ Books(k) /\ req[r].pc = "postings" /\ Owns(r, k)
  BY <1>1, AtStep DEF Postings, At, Owns
<1>3. /\ journal' = [journal EXCEPT ![k] = "full"]
      /\ UNCHANGED <<refund, paid, answered, asked>>
  BY <1>1 DEF Postings
<1>4. PICK step \in {"credit", "complete"} :
         Goto(r, step) /\ (step = "credit" <=> Destination[k] = "WALLET")
  BY <1>1 DEF Postings
<1>5. /\ Moves(r) /\ req' \in [Requests -> Request] /\ req'[r].pc = step
      /\ req'[r].key = k /\ req'[r].ok = req[r].ok /\ req'[r].dispute = req[r].dispute
  BY <1>1, <1>4, Going DEF Steps
<1>6. TypeOK' /\ journal'[k] = "full" /\ \A j \in Refunds \ {k} : Unchanged(j)
  BY <1>3, <1>5 DEF Postings, RefundInv, TypeOK, Unchanged, disputeVars
<1>7. Knows(req[r])'
  BY <1>1, <1>2, <1>3, <1>4, <1>5, <1>6 DEF Knows
<1>8. Books(k)' /\ Created(k)'
  BY <1>1, <1>2, <1>3 DEF Books, Created, Knows
<1> QED BY <1>2, <1>3, <1>5, <1>6, <1>7, <1>8, Works

LEMMA CreditKeeps ==
    ASSUME RefundInv, NEW r \in Requests, Credit(r)
    PROVE  RefundInv'
<1>1. PICK k \in Refunds : k = req[r].key
  BY AtStep
<1>2. Knows(req[r]) /\ Books(k) /\ req[r].pc = "credit" /\ Owns(r, k)
  BY <1>1, AtStep DEF Credit, At, Owns
<1>3. /\ paid' = [paid EXCEPT ![k] = @ + 1] /\ Goto(r, "complete")
      /\ UNCHANGED <<refund, journal, answered, asked>>
  BY <1>1 DEF Credit, Pay
<1>4. /\ Moves(r) /\ req' \in [Requests -> Request] /\ req'[r].pc = "complete"
      /\ req'[r].key = k /\ req'[r].ok = req[r].ok /\ req'[r].dispute = req[r].dispute
  BY <1>1, <1>3, Going DEF Steps
<1>5. TypeOK' /\ paid'[k] = 1 /\ \A j \in Refunds \ {k} : Unchanged(j)
  BY <1>1, <1>2, <1>3, <1>4 DEF Credit, RefundInv, TypeOK, Unchanged, disputeVars, Knows
<1>6. Knows(req[r])'
  BY <1>1, <1>2, <1>3, <1>4, <1>5 DEF Knows
<1>7. Books(k)' /\ Created(k)'
  BY <1>1, <1>2, <1>3, <1>5 DEF Books, Created, Knows
<1> QED BY <1>2, <1>3, <1>4, <1>5, <1>6, <1>7, Works

LEMMA GatewayRefundKeeps ==
    ASSUME RefundInv, NEW r \in Requests, GatewayRefund(r)
    PROVE  RefundInv'
<1>1. PICK k \in Refunds : k = req[r].key
  BY AtStep
<1>2. Knows(req[r]) /\ Books(k) /\ req[r].pc = "gateway" /\ Owns(r, k)
  BY <1>1, AtStep DEF GatewayRefund, At, Owns
<1>3. UNCHANGED <<refund, journal, answered, asked>>
  BY DEF GatewayRefund
<1>4. PICK step \in {"header", "fail"} :
         Goto(r, step) /\ paid' = IF step = "header" THEN [paid EXCEPT ![k] = @ + 1] ELSE paid
  BY <1>1 DEF GatewayRefund, Pay
<1>5. /\ Moves(r) /\ req' \in [Requests -> Request] /\ req'[r].pc = step
      /\ req'[r].key = k /\ req'[r].ok = req[r].ok /\ req'[r].dispute = req[r].dispute
  BY <1>1, <1>4, Going DEF Steps
<1>6. /\ TypeOK' /\ paid'[k] = (IF step = "header" THEN 1 ELSE 0)
      /\ \A j \in Refunds \ {k} : Unchanged(j)
  BY <1>1, <1>2, <1>3, <1>4, <1>5
     DEF GatewayRefund, RefundInv, TypeOK, Unchanged, disputeVars, Knows
<1>7. Knows(req[r])'
  BY <1>1, <1>2, <1>3, <1>5, <1>6 DEF Knows
<1>8. Books(k)' /\ Created(k)'
  BY <1>1, <1>2, <1>3, <1>6 DEF Books, Created, Knows
<1> QED BY <1>2, <1>3, <1>5, <1>6, <1>7, <1>8, Works

LEMMA AnswerLostKeeps ==
    ASSUME RefundInv, NEW r \in Requests, AnswerLost(r)
    PROVE  RefundInv'
<1>1. PICK k \in Refunds : k = req[r].key
  BY AtStep
<1>2. Knows(req[r]) /\ Books(k) /\ req[r].pc \in {"gateway", "credit"} /\ Owns(r, k)
  BY <1>1, AtStep DEF AnswerLost, At, Owns
<1>3. /\ paid' = [paid EXCEPT ![k] = @ + 1] /\ Goto(r, "fail")
      /\ UNCHANGED <<refund, journal, answered, asked>>
  BY <1>1 DEF AnswerLost, Pay
<1>4. /\ Moves(r) /\ req' \in [Requests -> Request] /\ req'[r].pc = "fail"
      /\ req'[r].key = k /\ req'[r].ok = req[r].ok /\ req'[r].dispute = req[r].dispute
  BY <1>1, <1>3, Going DEF Steps
<1>5. TypeOK' /\ paid'[k] = 1 /\ \A j \in Refunds \ {k} : Unchanged(j)
  BY <1>1, <1>2, <1>3, <1>4 DEF AnswerLost, RefundInv, TypeOK, Unchanged, disputeVars, Knows
<1>6. Knows(req[r])'
  BY <1>1, <1>2, <1>3, <1>4, <1>5 DEF Knows
<1>7. Books(k)' /\ Created(k)'
  BY <1>1, <1>2, <1>3, <1>5 DEF Books, Created, Knows
<1> QED BY <1>2, <1>3, <1>4, <1>5, <1>6, <1>7, Works

LEMMA CompleteKeeps ==
    ASSUME RefundInv, NEW r \in Requests, Complete(r)
    PROVE  RefundInv'
<1>1. PICK k \in Refunds : k = req[r].key
  BY AtStep
<1>2. Knows(req[r]) /\ Books(k) /\ req[r].pc = "complete" /\ Owns(r, k)
  BY <1>1, AtStep DEF Complete, At, Owns
<1>3. /\ refund' = [refund EXCEPT ![k] = "COMPLETED"] /\ Goto(r, "enqueue")
      /\ UNCHANGED <<paid, journal, answered, asked>>
  BY <1>1 DEF Complete, SetStatus
<1>4. /\ Moves(r) /\ req' \in [Requests -> Request] /\ req'[r].pc = "enqueue"
      /\ req'[r].key = k /\ req'[r].ok = req[r].ok /\ req'[r].dispute = req[r].dispute
  BY <1>1, <1>3, Going DEF Steps
<1>5. TypeOK' /\ refund'[k] = "COMPLETED" /\ \A j \in Refunds \ {k} : Unchanged(j)
  BY <1>3, <1>4 DEF Complete, RefundInv, TypeOK, Unchanged, disputeVars, RefundStatuses
<1>6. Knows(req[r])'
  BY <1>1, <1>2, <1>3, <1>4, <1>5 DEF Knows
<1>7. Books(k)' /\ Created(k)'
  BY <1>1, <1>2, <1>3, <1>5 DEF Books, Created, Knows
<1> QED BY <1>2, <1>3, <1>4, <1>5, <1>6, <1>7, Works

LEMMA MarkFailedKeeps ==
    ASSUME RefundInv, NEW r \in Requests, MarkFailed(r)
    PROVE  RefundInv'
<1>1. PICK k \in Refunds : k = req[r].key
  BY AtStep
<1>2. Knows(req[r]) /\ Books(k) /\ req[r].pc = "fail" /\ Owns(r, k)
  BY <1>1, AtStep DEF MarkFailed, At, Owns
<1>3. /\ refund' = [refund EXCEPT ![k] = "FAILED"] /\ Goto(r, "release")
      /\ UNCHANGED <<paid, journal, answered, asked>>
  BY <1>1 DEF MarkFailed, SetStatus
<1>4. /\ Moves(r) /\ req' \in [Requests -> Request] /\ req'[r].pc = "release"
      /\ req'[r].key = k /\ req'[r].ok = req[r].ok /\ req'[r].dispute = req[r].dispute
  BY <1>1, <1>3, Going DEF Steps
<1>5. TypeOK' /\ refund'[k] = "FAILED" /\ \A j \in Refunds \ {k} : Unchanged(j)
  BY <1>3, <1>4 DEF MarkFailed, RefundInv, TypeOK, Unchanged, disputeVars, RefundStatuses
<1>6. Knows(req[r])'
  BY <1>1, <1>2, <1>3, <1>4, <1>5 DEF Knows
<1>7. Books(k)' /\ Created(k)'
  BY <1>1, <1>2, <1>3, <1>5 DEF Books, Created, Knows
<1> QED BY <1>2, <1>3, <1>4, <1>5, <1>6, <1>7, Works

LEMMA EnqueueKeeps ==
    ASSUME RefundInv, NEW r \in Requests, Enqueue(r)
    PROVE  RefundInv'
<1>1. req[r] \in Request /\ Knows(req[r]) /\ req[r].key \in Refunds /\ req[r].pc = "enqueue"
  BY AtStep DEF Enqueue, At
<1> DEFINE locals == [req[r] EXCEPT !.pc = "release", !.ok = TRUE]
<1>2. /\ locals \in Request /\ locals.pc = "release" /\ locals.key = req[r].key
      /\ locals.dispute = req[r].dispute
  BY <1>1 DEF Request, Steps
<1>3. Set(r, locals)
  BY DEF Enqueue
<1> HIDE DEF locals
<1>4. Moves(r) /\ req'[r] = locals /\ req' \in [Requests -> Request]
  BY <1>2, <1>3, Stepping
<1>5. UNCHANGED <<refund, paid, journal, asked, answered>>
  BY DEF Enqueue
<1>6. TypeOK'
  BY <1>1, <1>4, <1>5 DEF Enqueue, RefundInv, TypeOK, disputeVars
<1>7. Knows(req[r])'
  BY <1>1, <1>2, <1>4, <1>5 DEF Knows
<1> QED BY <1>1, <1>2, <1>4, <1>5, <1>6, <1>7, KeepsRefunds

LEMMA AccessFailsKeeps ==
    ASSUME RefundInv, NEW r \in Requests, AccessFails(r)
    PROVE  RefundInv'
<1>1. Knows(req[r]) /\ req[r].pc \in Processing \cup Deciding
  BY AtStep DEF AccessFails
<1>2. UNCHANGED <<refund, paid, journal, answered, asked>>
  BY DEF AccessFails, refundVars
<1>3. PICK step \in {"release", "fail"} :
         Goto(r, step) /\ (step = "fail" => req[r].pc \in Processing \ {"dispatch"})
  BY DEF AccessFails
<1>4. /\ Moves(r) /\ req' \in [Requests -> Request] /\ req'[r].pc = step
      /\ req'[r].key = req[r].key /\ req'[r].ok = req[r].ok /\ req'[r].dispute = req[r].dispute
  BY <1>3, Going DEF Steps
<1>5. TypeOK'
  BY <1>2, <1>4 DEF AccessFails, RefundInv, TypeOK, refundVars, disputeVars
<1>6. Knows(req[r])'
  BY <1>1, <1>2, <1>3, <1>4 DEF Knows
<1> QED BY <1>1, <1>2, <1>3, <1>4, <1>5, <1>6, KeepsRefunds

LEMMA ReleaseKeeps ==
    ASSUME RefundInv, NEW r \in Requests, Release(r)
    PROVE  RefundInv'
<1>1. Knows(req[r]) /\ req[r].pc = "release"
  BY AtStep DEF Release, At
<1>2. UNCHANGED <<refund, paid, journal, answered, asked>>
  BY DEF Release, refundVars
<1>3. /\ Moves(r) /\ req' \in [Requests -> Request]
      /\ \/ req'[r] = Idle /\ Idle.pc = "idle" /\ Idle.dispute = "none"
         \/ /\ req[r].ok /\ req'[r].pc = "record" /\ req'[r].key = req[r].key
            /\ req'[r].ok = req[r].ok /\ req'[r].dispute = req[r].dispute
  BY Going, Finishing DEF Release, Steps
<1>4. TypeOK'
  BY <1>2, <1>3 DEF Release, RefundInv, TypeOK, refundVars, disputeVars
<1>5. Knows(req[r])'
  BY <1>1, <1>2, <1>3 DEF Knows
<1> QED BY <1>1, <1>2, <1>3, <1>4, <1>5, KeepsRefunds

LEMMA RecordKeeps ==
    ASSUME RefundInv, NEW r \in Requests, Record(r)
    PROVE  RefundInv'
<1>1. Knows(req[r]) /\ req[r].pc = "record" /\ req[r].key \in Refunds
  BY AtStep DEF Record, At
<1>2. UNCHANGED <<refund, paid, journal, asked>>
  BY DEF Record
<1>3. /\ Moves(r) /\ req' \in [Requests -> Request] /\ req'[r] = Idle
      /\ Idle.pc = "idle" /\ Idle.dispute = "none"
  BY Finishing DEF Record
<1>4. TypeOK'
  BY <1>1, <1>2, <1>3 DEF Record, RefundInv, TypeOK, disputeVars, Refunds
<1>5. Knows(req[r])'
  BY <1>3 DEF Knows
<1>6. \A k \in answered' : k \in answered \/ k \in asked \/ refund[k] = "COMPLETED"
  BY <1>1 DEF Record, Knows
<1> QED BY <1>2, <1>3, <1>4, <1>5, <1>6, KeepsRefunds

-----------------------------------------------------------------------------
(* The steps of chargebacks, crashes and the end of the lock.              *)

LEMMA ResolveChargebackKeeps ==
    ASSUME RefundInv, NEW r \in Requests, NEW d \in Disputes,
           NEW outcome \in {"CHARGEBACK_WON", "CHARGEBACK_LOST"}, ResolveChargeback(r, d, outcome)
    PROVE  RefundInv'
<1> DEFINE locals == [Idle EXCEPT !.pc = "resolve", !.dispute = d, !.outcome = outcome]
<1>1. /\ locals \in Request /\ locals.pc = "resolve" /\ locals.dispute = d
      /\ locals.outcome = outcome /\ d # "none"
  BY RefundAssumption DEF Idle, Request, Steps, DisputeStatuses, Refunds
<1>2. Set(r, locals)
  BY DEF ResolveChargeback
<1> HIDE DEF locals
<1>3. Moves(r) /\ req'[r] = locals /\ req' \in [Requests -> Request]
  BY <1>1, <1>2, Stepping
<1>4. UNCHANGED <<refund, paid, journal, asked, answered>>
  BY DEF ResolveChargeback, refundVars
<1>5. TypeOK'
  BY <1>3 DEF ResolveChargeback, RefundInv, TypeOK, refundVars
<1>6. Knows(req[r])'
  BY <1>1, <1>3 DEF Knows
<1> QED BY <1>1, <1>3, <1>4, <1>5, <1>6, KeepsRefunds

LEMMA SaveOutcomeKeeps ==
    ASSUME RefundInv, NEW r \in Requests, SaveOutcome(r)
    PROVE  RefundInv'
<1>1. Knows(req[r]) /\ req[r].pc = "resolve" /\ req[r] \in Request
  BY AtStep DEF SaveOutcome, At
<1>2. UNCHANGED <<refund, paid, journal, asked, answered>>
  BY DEF SaveOutcome, refundVars
<1>3. /\ Moves(r) /\ req' \in [Requests -> Request]
      /\ \/ req'[r] = Idle /\ Idle.pc = "idle" /\ Idle.dispute = "none"
         \/ /\ req'[r].pc = "book" /\ req'[r].dispute = req[r].dispute
            /\ req'[r].outcome = req[r].outcome
  BY Going, Finishing DEF SaveOutcome, Steps
<1>4. TypeOK'
  BY <1>1, <1>2, <1>3 DEF SaveOutcome, RefundInv, TypeOK, refundVars, Request
<1>5. Knows(req[r])'
  BY <1>1, <1>3 DEF Knows
<1> QED BY <1>2, <1>3, <1>4, <1>5, KeepsRefunds

\* A request that ends without an answer
LEMMA FinishKeeps ==
    ASSUME RefundInv, NEW r \in Requests, Finish(r), UNCHANGED refundVars, TypeOK'
    PROVE  RefundInv'
<1>1. /\ Moves(r) /\ req' \in [Requests -> Request] /\ req'[r] = Idle
      /\ Idle.pc = "idle" /\ Idle.dispute = "none"
  BY Finishing
<1>2. Knows(req[r])'
  BY <1>1 DEF Knows
<1> QED BY <1>1, <1>2, KeepsRefunds DEF refundVars

LEMMA EndKeeps ==
    ASSUME RefundInv, NEW r \in Requests, BookLoss(r) \/ ResolveFails(r) \/ Crash(r)
    PROVE  RefundInv'
<1>1. Finish(r) /\ UNCHANGED refundVars
  BY DEF BookLoss, ResolveFails, Crash
<1>2. req' \in [Requests -> Request]
  BY <1>1, Finishing
<1>3. booked' \in [Disputes -> Nat]
  BY DEF BookLoss, ResolveFails, Crash, RefundInv, TypeOK, disputeVars
<1>4. TypeOK'
  BY <1>1, <1>2, <1>3 DEF BookLoss, ResolveFails, Crash, RefundInv, TypeOK, refundVars, disputeVars
<1> QED BY <1>1, <1>4, FinishKeeps

LEMMA AsideKeeps ==
    ASSUME RefundInv, UNCHANGED <<refundVars, req>>, TypeOK'
    PROVE  RefundInv'
BY DEF RefundInv, refundVars, Knows, Created, Apart, Noticed, Books, SuccessIsCompleted

LEMMA InitRefundInv == Init => RefundInv
<1> SUFFICES ASSUME Init PROVE RefundInv
  OBVIOUS
<1>1. Idle \in Request /\ Idle.pc = "idle" /\ Idle.dispute = "none"
  BY DEF Idle, Request, Steps, DisputeStatuses, Refunds
<1>2. TypeOK
  BY <1>1 DEF Init, TypeOK, RefundStatuses, DisputeStatuses
<1> HIDE DEF Idle
<1>3. \A r \in Requests : req[r] = Idle
  BY DEF Init
<1>4. \A r \in Requests : Knows(req[r])
  BY <1>1, <1>3 DEF Knows
<1>5. Apart /\ Noticed
  BY <1>1, <1>3 DEF Apart, Noticed
<1>6. (\A k \in Refunds : Books(k)) /\ SuccessIsCompleted
  BY DEF Init, Books, Created, SuccessIsCompleted
<1> QED BY <1>2, <1>4, <1>5, <1>6 DEF RefundInv

LEMMA NextRefundInv == RefundInv /\ [Next]_vars => RefundInv'
<1> SUFFICES ASSUME RefundInv, [Next]_vars PROVE RefundInv'
  OBVIOUS
<1>1. ASSUME NEW r \in Requests, Start(r) PROVE RefundInv'
  BY <1>1, AskKeeps, ResolveChargebackKeeps DEF Start
<1>2. ASSUME NEW r \in Requests, Process(r) PROVE RefundInv'
  BY <1>2, FindKeeps, SumKeeps, CreateKeeps, DispatchKeeps, HeaderKeeps, PostingsKeeps,
     CreditKeeps, GatewayRefundKeeps, CompleteKeeps, EnqueueKeeps, MarkFailedKeeps,
     ReleaseKeeps, RecordKeeps DEF Process
<1>3. ASSUME NEW r \in Requests, Advance(r) \/ Fail(r) PROVE RefundInv'
  BY <1>2, <1>3, SaveOutcomeKeeps, EndKeeps, AnswerLostKeeps, AccessFailsKeeps DEF Advance, Fail
<1>4. ASSUME NEW d \in Disputes, OpenChargeback(d) \/ MoveChargeback(d) PROVE RefundInv'
  <2>1. UNCHANGED <<refundVars, req>>
    BY <1>4 DEF OpenChargeback, MoveChargeback
  <2>2. TypeOK'
    BY <1>4, <2>1
       DEF OpenChargeback, MoveChargeback, RefundInv, TypeOK, refundVars, DisputeStatuses
  <2> QED BY <2>1, <2>2, AsideKeeps
<1>5. CASE Expire
  <2>1. UNCHANGED <<refundVars, req>>
    BY <1>5 DEF Expire
  <2>2. lock' = Free /\ UNCHANGED disputeVars
    BY <1>5 DEF Expire
  <2>3. doubtful' = doubtful \/ doubtful' = TRUE
    BY <1>5 DEF Expire
  <2>4. events' = events \/ events' = events + 1
    BY <1>5 DEF Expire
  <2>5. TypeOK /\ doubtful' \in BOOLEAN
    BY <2>3 DEF RefundInv, TypeOK
  <2>6. events' \in Nat
    BY <2>4, <2>5 DEF TypeOK
  <2>7. TypeOK'
    BY <2>1, <2>2, <2>5, <2>6 DEF TypeOK, refundVars, disputeVars
  <2> QED BY <2>1, <2>7, AsideKeeps
<1>6. CASE UNCHANGED vars
  BY <1>6, AsideKeeps DEF vars, refundVars, disputeVars, RefundInv, TypeOK
<1> QED BY <1>1, <1>3, <1>4, <1>5, <1>6 DEF Next

LEMMA RefundInvariant == Spec => []RefundInv
BY InitRefundInv, NextRefundInv, PTL DEF Spec

-----------------------------------------------------------------------------
\* The type invariant of the model of RefundService
THEOREM RefundTypeCorrect == Spec => []TypeOK
<1>1. RefundInv => TypeOK
  BY DEF RefundInv
<1> QED BY <1>1, RefundInvariant, PTL

\* createRefund pays a refund at most once, whatever the number of requests with its
\* key, of crashes, lost answers and expired locks, and only when it is saved.
THEOREM RefundsPaidOnce == Spec => []PaidOnce
<1>1. RefundInv => PaidOnce
  BY DEF RefundInv, Books, PaidOnce, TypeOK
<1> QED BY <1>1, RefundInvariant, PTL

\* processRefund completes no refund before the money has moved and the journal and its
\* postings are in the ledger.
THEOREM CompletedAreBooked == Spec => []CompletedIsBooked
<1>1. RefundInv => CompletedIsBooked
  BY DEF RefundInv, Books, CompletedIsBooked
<1> QED BY <1>1, RefundInvariant, PTL

\* requestRefund stores success only for a completed refund, unless the key was sent
\* again while or after the refund was made.
THEOREM SuccessMeansCompleted == Spec => []SuccessIsCompleted
<1>1. RefundInv => SuccessIsCompleted
  BY DEF RefundInv
<1> QED BY <1>1, RefundInvariant, PTL

-----------------------------------------------------------------------------
(***************************************************************************)
(* The other two need more than what each request knows of its own refund: *)
(* the ceiling holds because the order's lock keeps what one request has   *)
(* summed up true until it has created its refund; the booking of a lost   *)
(* chargeback is protected by no lock. Money is counted as units.          *)
(***************************************************************************)

LEMMA UnitsOfOne ==
    ASSUME NEW k \in Refunds
    PROVE  LET Own == {k} \X (1 .. Amount[k])
           IN  IsFiniteSet(Own) /\ Cardinality(Own) = Amount[k] /\ Amount[k] \in Nat
<1>1. Amount[k] \in Nat \ {0}
  BY RefundAssumption
<1>2. IsFiniteSet(1 .. Amount[k]) /\ Cardinality(1 .. Amount[k]) = Amount[k]
  BY <1>1, FS_Interval
<1>3. IsFiniteSet({k}) /\ Cardinality({k}) = 1
  BY FS_Singleton
<1>4. /\ IsFiniteSet({k} \X (1 .. Amount[k]))
      /\ Cardinality({k} \X (1 .. Amount[k])) = Cardinality({k}) * Cardinality(1 .. Amount[k])
  BY <1>2, <1>3, FS_Product
<1> QED BY <1>1, <1>2, <1>3, <1>4

LEMMA UnitsFinite == IsFiniteSet(Units)
<1> DEFINE Own(k) == {k} \X (1 .. Amount[k])
           f == [k \in Refunds |-> Own(k)]
           T == {Own(k) : k \in Refunds}
<1>1. IsFiniteSet(Refunds)
  BY RefundAssumption, FS_AddElement DEF Refunds
<1>2. f \in Surjection(Refunds, T)
  BY DEF Surjection
<1>3. IsFiniteSet(T)
  BY <1>1, <1>2, FS_Surjection
<1>4. \A k \in Refunds : IsFiniteSet(Own(k))
  BY UnitsOfOne
<1> QED BY <1>3, <1>4, FS_UNION DEF Units

\* The units of the refunds that count for the ceiling
Live == {u \in Units : refund[u[1]] \in {"REQUESTED", "PROCESSING", "COMPLETED"}}
Refunded == Cardinality(Live)

LEMMA LiveFinite == IsFiniteSet(Live) /\ Refunded \in Nat
<1>1. IsFiniteSet(Live)
  BY UnitsFinite, FS_Subset DEF Live
<1> QED BY <1>1, FS_CardinalityType DEF Refunded

LEMMA LiveFinitePrime == IsFiniteSet(Live') /\ Refunded' \in Nat
<1>1. IsFiniteSet(Live')
  BY UnitsFinite, FS_Subset DEF Live
<1> QED BY <1>1, FS_CardinalityType DEF Refunded

\* What is refunded does not grow if no refund becomes live, ...
LEMMA RefundedKept ==
    ASSUME \A k \in Refunds :
              refund'[k] \in {"REQUESTED", "PROCESSING", "COMPLETED"}
                  => refund[k] \in {"REQUESTED", "PROCESSING", "COMPLETED"}
    PROVE  Refunded' <= Refunded
<1>1. Live' \subseteq Live
  BY DEF Live, Units
<1> QED BY <1>1, LiveFinite, FS_Subset DEF Refunded

\* ... and grows by the amount of a refund that does.
LEMMA RefundedGrows ==
    ASSUME NEW k \in Refunds, refund \in [Refunds -> RefundStatuses],
           NEW status, refund' = [refund EXCEPT ![k] = status]
    PROVE  Refunded' <= Refunded + Amount[k]
<1> DEFINE Own == {k} \X (1 .. Amount[k])
<1>1. IsFiniteSet(Own) /\ Cardinality(Own) = Amount[k] /\ Amount[k] \in Nat
  BY UnitsOfOne
<1>2. Live' \subseteq Live \cup Own
  <2> SUFFICES ASSUME NEW u \in Live' PROVE u \in Live \/ u \in Own
    OBVIOUS
  <2>1. PICK j \in Refunds : u \in {j} \X (1 .. Amount[j])
    BY DEF Live, Units
  <2>2. u[1] = j /\ u \in Units
    BY <2>1 DEF Live
  <2>3. CASE j = k
    BY <2>1, <2>3
  <2>4. CASE j # k
    BY <2>2, <2>4 DEF Live
  <2> QED BY <2>3, <2>4
<1> HIDE DEF Own
<1>3. /\ IsFiniteSet(Live \cup Own)
      /\ Cardinality(Live \cup Own) = Cardinality(Live) + Cardinality(Own) - Cardinality(Live \cap Own)
  BY <1>1, LiveFinite, FS_Union
<1>4. Cardinality(Live \cap Own) \in Nat
  <2>1. IsFiniteSet(Live \cap Own)
    BY <1>1, FS_Subset
  <2> QED BY <2>1, FS_CardinalityType
<1>5. Cardinality(Live') <= Cardinality(Live \cup Own)
  BY <1>2, <1>3, FS_Subset
<1> QED BY <1>1, <1>3, <1>4, <1>5, LiveFinite, LiveFinitePrime DEF Refunded

LEMMA AmountsOfLive == AmountsOf({"REQUESTED", "PROCESSING", "COMPLETED"}) = Refunded
BY DEF AmountsOf, Refunded, Live

-----------------------------------------------------------------------------
(* The steps of requests for refunds and their locals.                     *)

Refunder(r) ==
    (\E k \in Refunds : Ask(r, k)) \/ Process(r) \/ AnswerLost(r) \/ AccessFails(r)

\* A step of r leaves the other requests alone and has to do with refunds only.
LEMMA RefunderStep ==
    ASSUME RefundInv, NEW r \in Requests, Refunder(r)
    PROVE  /\ \A s \in Requests \ {r} : req'[s] = req[s]
           /\ req[r].dispute = "none" /\ req'[r].dispute = "none"
           /\ UNCHANGED disputeVars
<1>1. /\ \/ \E step \in Steps : Goto(r, step)
         \/ Finish(r)
         \/ Set(r, [req[r] EXCEPT !.pc = "release", !.ok = TRUE])
         \/ \E k \in Refunds : Set(r, [Idle EXCEPT !.pc = "find", !.key = k])
      /\ req[r].pc \notin Disputing /\ UNCHANGED disputeVars
  <2>1. CASE \E k \in Refunds : Ask(r, k)
    BY <2>1 DEF Ask, At
  <2>2. CASE Find(r) \/ Sum(r) \/ Create(r) \/ Dispatch(r)
    BY <2>2 DEF Find, Sum, Create, Dispatch, Steps, At
  <2>3. CASE Header(r) \/ Postings(r) \/ Credit(r) \/ GatewayRefund(r) \/ AnswerLost(r)
    BY <2>3 DEF Header, Postings, Credit, GatewayRefund, AnswerLost, Steps, At
  <2>4. CASE Complete(r) \/ Enqueue(r) \/ MarkFailed(r)
    BY <2>4 DEF Complete, Enqueue, MarkFailed, Steps, At
  <2>5. CASE AccessFails(r) \/ Release(r) \/ Record(r)
    BY <2>5 DEF AccessFails, Release, Record, Steps, At
  <2> QED BY <2>1, <2>2, <2>3, <2>4, <2>5 DEF Refunder, Process
<1>2. UNCHANGED disputeVars
  BY <1>1
<1>3. req[r] \in Request /\ Knows(req[r]) /\ req \in [Requests -> Request]
  BY AtStep DEF RefundInv, TypeOK
<1>4. req[r].pc \notin Disputing
  BY <1>1
<1>5. req[r].dispute = "none"
  BY <1>3, <1>4 DEF Knows
<1>6. Idle.dispute = "none"
  BY DEF Idle
<1>7. req'[r].dispute = "none"
  <2>1. CASE \E step \in Steps : Goto(r, step)
    BY <1>5, <2>1, Going
  <2>2. CASE Finish(r)
    BY <2>2, Finishing
  <2>3. CASE Set(r, [req[r] EXCEPT !.pc = "release", !.ok = TRUE])
    BY <1>3, <1>5, <2>3 DEF Set, Request
  <2>4. ASSUME NEW k \in Refunds, Set(r, [Idle EXCEPT !.pc = "find", !.key = k])
        PROVE  req'[r].dispute = "none"
    BY <1>3, <2>4 DEF Set, Idle
  <2> QED BY <1>1, <2>1, <2>2, <2>3, <2>4
<1>8. \A s \in Requests \ {r} : req'[s] = req[s]
  BY <1>1, <1>3 DEF Goto, Finish, Set
<1> QED BY <1>2, <1>5, <1>7, <1>8

-----------------------------------------------------------------------------
(* The ceiling.                                                            *)

\* Until the lock has expired under its holder, a request that is at work for a refund
\* holds it, and one that has compared the amounts has room for its own.
LockInv ==
    ~doubtful =>
        /\ \A r \in Requests : req[r].pc \in Refunding \ {"record"} => lock = r
        /\ Refunded <= OrderTotal
        /\ \A r \in Requests :
              req[r].pc = "create" => Refunded + Amount[req[r].key] <= OrderTotal

LEMMA Locked ==
    ASSUME RefundInv, LockInv, NEW r \in Requests,
           \A s \in Requests \ {r} : req'[s] = req[s] /\ (lock = s => lock' = s),
           doubtful' = doubtful,
           ~doubtful /\ req'[r].pc \in Refunding \ {"record"} => lock' = r,
           ~doubtful => lock = r \/ Refunded' <= Refunded,
           ~doubtful => Refunded' <= OrderTotal,
           ~doubtful /\ req'[r].pc = "create" => Refunded' + Amount[req'[r].key] <= OrderTotal
    PROVE  LockInv'
<1> SUFFICES ASSUME ~doubtful
             PROVE  /\ \A s \in Requests : req'[s].pc \in Refunding \ {"record"} => lock' = s
                    /\ \A s \in Requests :
                          req'[s].pc = "create" => Refunded' + Amount[req'[s].key] <= OrderTotal
  BY DEF LockInv
<1>1. ASSUME NEW s \in Requests, req'[s].pc \in Refunding \ {"record"} PROVE lock' = s
  BY <1>1 DEF LockInv
<1>2. ASSUME NEW s \in Requests, req'[s].pc = "create"
      PROVE  Refunded' + Amount[req'[s].key] <= OrderTotal
  <2>1. CASE s = r
    BY <1>2, <2>1
  <2>2. CASE s # r
    <3>1. lock = s /\ Refunded + Amount[req[s].key] <= OrderTotal /\ req'[s] = req[s]
      BY <1>2, <2>2 DEF LockInv
    <3>2. Refunded' <= Refunded
      BY <2>2, <3>1
    <3>3. Amount[req[s].key] \in Nat
      BY AtStep, UnitsOfOne
    <3> QED BY <3>1, <3>2, <3>3, LiveFinite, LiveFinitePrime, RefundAssumption
  <2> QED BY <2>1, <2>2
<1> QED BY <1>1, <1>2

\* A step that leaves the amounts alone and does not decide about one
LEMMA LockedQuiet ==
    ASSUME RefundInv, LockInv, NEW r \in Requests,
           \A s \in Requests \ {r} : req'[s] = req[s] /\ (lock = s => lock' = s),
           doubtful' = doubtful, refund' = refund, req'[r].pc # "create",
           ~doubtful /\ req'[r].pc \in Refunding \ {"record"} => lock' = r
    PROVE  LockInv'
<1>1. Refunded' = Refunded
  BY DEF Refunded, Live
<1>2. Refunded' <= Refunded
  BY <1>1, LiveFinite
<1>3. ~doubtful => Refunded' <= OrderTotal
  BY <1>1 DEF LockInv
<1> QED BY <1>2, <1>3, Locked

\* The same for any change of the status of the refund r works for
LEMMA LockedStatus ==
    ASSUME RefundInv, LockInv, NEW r \in Requests, req[r].pc \in Refunding \ {"record"},
           NEW step \in Steps \ {"create"}, Goto(r, step), Refunder(r),
           UNCHANGED <<lock, doubtful>>,
           NEW status \in RefundStatuses, refund' = [refund EXCEPT ![req[r].key] = status],
           refund[req[r].key] \in {"REQUESTED", "PROCESSING", "COMPLETED"}
    PROVE  LockInv'
<1>1. Refunded' <= Refunded
  BY RefundedKept, AtStep DEF RefundInv, TypeOK
<1>2. ~doubtful => Refunded' <= OrderTotal
  BY <1>1, LiveFinite, LiveFinitePrime, RefundAssumption DEF LockInv
<1>3. req'[r].pc # "create"
  BY Going
<1>4. ~doubtful => lock' = r
  BY DEF LockInv
<1> QED BY <1>1, <1>2, <1>3, <1>4, RefunderStep, Locked

LEMMA RefunderKeepsLock ==
    ASSUME RefundInv, LockInv, NEW r \in Requests, Refunder(r)
    PROVE  LockInv'
<1>1. \A s \in Requests \ {r} : req'[s] = req[s]
  BY RefunderStep
<1>2. Knows(req[r]) /\ req[r] \in Request /\ req[r].key \in Refunds
  BY AtStep
<1>3. Free \notin Requests
  BY RefundAssumption
<1>4. ASSUME NEW k \in Refunds, Ask(r, k) PROVE LockInv'
  <2>1. lock = Free /\ lock' = r /\ UNCHANGED <<refund, doubtful>>
    BY <1>4 DEF Ask
  <2>2. req'[r].pc = "find"
    BY <1>4 DEF Ask, Set, Idle, RefundInv, TypeOK
  <2> QED BY <1>1, <1>3, <2>1, <2>2, LockedQuiet
<1>5. CASE \/ Find(r) \/ Header(r) \/ Postings(r) \/ Credit(r) \/ GatewayRefund(r)
           \/ AnswerLost(r) \/ Enqueue(r) \/ AccessFails(r)
  <2>1. UNCHANGED <<refund, lock, doubtful>> /\ req[r].pc \in Refunding \ {"record"}
    BY <1>5 DEF Find, Header, Postings, Credit, GatewayRefund, AnswerLost, Enqueue,
                AccessFails, refundVars, At
  <2>2. \/ \E step \in Steps \ {"create"} : Goto(r, step)
        \/ Set(r, [req[r] EXCEPT !.pc = "release", !.ok = TRUE])
    BY <1>5 DEF Find, Header, Postings, Credit, GatewayRefund, AnswerLost, Enqueue,
                AccessFails, Steps
  <2>3. req'[r].pc # "create"
    <3>1. CASE \E step \in Steps \ {"create"} : Goto(r, step)
      BY <3>1, Going
    <3>2. CASE Set(r, [req[r] EXCEPT !.pc = "release", !.ok = TRUE])
      BY <1>2, <3>2 DEF Set, Request, RefundInv, TypeOK
    <3> QED BY <2>2, <3>1, <3>2
  <2>4. ~doubtful => lock' = r
    BY <2>1 DEF LockInv
  <2> QED BY <1>1, <2>1, <2>3, <2>4, LockedQuiet
<1>6. CASE Sum(r)
  <2>1. UNCHANGED <<refund, lock, doubtful>> /\ req[r].pc = "sum"
    BY <1>6 DEF Sum, refundVars, At
  <2>2. PICK step \in {"release", "create"} :
           /\ Goto(r, step)
           /\ step = "create" => ~(Amount[req[r].key] > OrderTotal - Refunded)
    BY <1>6, AmountsOfLive DEF Sum
  <2>3. req'[r].pc = step /\ req'[r].key = req[r].key
    BY <2>2, Going DEF Steps
  <2>4. ~doubtful => lock' = r
    BY <2>1 DEF LockInv
  <2>5. Refunded' = Refunded
    BY <2>1 DEF Refunded, Live
  <2>6. req'[r].pc = "create" => Refunded' + Amount[req'[r].key] <= OrderTotal
    BY <1>2, <2>2, <2>3, <2>5, LiveFinite, UnitsOfOne, RefundAssumption
  <2>7. Refunded' <= Refunded /\ (~doubtful => Refunded' <= OrderTotal)
    BY <2>5, LiveFinite DEF LockInv
  <2> QED BY <1>1, <2>1, <2>4, <2>6, <2>7, Locked
<1>7. CASE Create(r)
  <2>1. UNCHANGED <<lock, doubtful>> /\ req[r].pc = "create"
    BY <1>7 DEF Create, At
  <2>2. ~doubtful => lock' = r /\ lock = r
    BY <2>1 DEF LockInv
  <2>3. req'[r].pc # "create"
    BY <1>7, Going DEF Create, Steps
  <2>4. CASE refund' = refund
    BY <1>1, <2>1, <2>2, <2>3, <2>4, LockedQuiet
  <2>5. CASE refund' = [refund EXCEPT ![req[r].key] = "REQUESTED"]
    <3>1. Refunded' <= Refunded + Amount[req[r].key]
      BY <1>2, <2>5, RefundedGrows DEF RefundInv, TypeOK
    <3>2. ~doubtful => Refunded' <= OrderTotal
      BY <1>2, <2>1, <3>1, LiveFinite, LiveFinitePrime, UnitsOfOne, RefundAssumption DEF LockInv
    <3> QED BY <1>1, <2>1, <2>2, <2>3, <3>2, Locked
  <2> QED BY <1>7, <2>4, <2>5 DEF Create, SetStatus
<1>8. CASE Dispatch(r)
  <2>1. UNCHANGED <<lock, doubtful>> /\ req[r].pc = "dispatch"
        /\ refund' = [refund EXCEPT ![req[r].key] = "PROCESSING"]
    BY <1>8 DEF Dispatch, At, SetStatus
  <2>2. PICK step \in Steps \ {"create"} : Goto(r, step)
    BY <1>8 DEF Dispatch, Steps
  <2>3. Refunder(r) /\ refund[req[r].key] \in {"REQUESTED", "PROCESSING", "COMPLETED"}
    BY <1>2, <1>8, <2>1 DEF Knows, Refunder, Process
  <2> QED BY <2>1, <2>2, <2>3, LockedStatus DEF RefundStatuses
<1>9. CASE Complete(r)
  <2>1. UNCHANGED <<lock, doubtful>> /\ req[r].pc = "complete"
        /\ refund' = [refund EXCEPT ![req[r].key] = "COMPLETED"]
    BY <1>9 DEF Complete, At, SetStatus
  <2>2. PICK step \in Steps \ {"create"} : Goto(r, step)
    BY <1>9 DEF Complete, Steps
  <2>3. Refunder(r) /\ refund[req[r].key] \in {"REQUESTED", "PROCESSING", "COMPLETED"}
    BY <1>2, <1>9, <2>1 DEF Knows, Refunder, Process
  <2> QED BY <2>1, <2>2, <2>3, LockedStatus DEF RefundStatuses
<1>10. CASE MarkFailed(r)
  <2>1. UNCHANGED <<lock, doubtful>> /\ req[r].pc = "fail"
        /\ refund' = [refund EXCEPT ![req[r].key] = "FAILED"]
    BY <1>10 DEF MarkFailed, At, SetStatus
  <2>2. PICK step \in Steps \ {"create"} : Goto(r, step)
    BY <1>10 DEF MarkFailed, Steps
  <2>3. Refunder(r) /\ refund[req[r].key] \in {"REQUESTED", "PROCESSING", "COMPLETED"}
    BY <1>2, <1>10, <2>1 DEF Knows, Refunder, Process
  <2> QED BY <2>1, <2>2, <2>3, LockedStatus DEF RefundStatuses
<1>11. CASE Release(r) \/ Record(r)
  <2>1. UNCHANGED <<refund, doubtful>> /\ (lock' = lock \/ lock = r)
    BY <1>11 DEF Release, Record, refundVars, At
  <2>2. req'[r].pc \in {"record", "idle"}
    BY <1>11, Going, Finishing DEF Release, Record, Steps
  <2> QED BY <1>1, <2>1, <2>2, LockedQuiet
<1> QED BY <1>4, <1>5, <1>6, <1>7, <1>8, <1>9, <1>10, <1>11 DEF Refunder, Process

LEMMA DisputerKeepsLock ==
    ASSUME RefundInv, LockInv, NEW r \in Requests,
           \/ \E d \in Disputes : \E outcome \in {"CHARGEBACK_WON", "CHARGEBACK_LOST"} :
                 ResolveChargeback(r, d, outcome)
           \/ SaveOutcome(r) \/ BookLoss(r) \/ ResolveFails(r) \/ Crash(r)
    PROVE  LockInv'
<1>1. UNCHANGED <<refund, doubtful>> /\ (lock' = lock \/ lock = r)
  BY DEF ResolveChargeback, SaveOutcome, BookLoss, ResolveFails, Crash, refundVars
<1>2. /\ req'[r].pc \in {"resolve", "book", "idle"}
      /\ \A s \in Requests \ {r} : req'[s] = req[s]
  <2>1. CASE Finish(r)
    BY <2>1, Finishing DEF Finish, Set, RefundInv, TypeOK
  <2>2. CASE Goto(r, "book")
    BY <2>2, Going DEF Goto, Set, RefundInv, TypeOK, Steps
  <2>3. ASSUME NEW d \in Disputes, NEW outcome,
               Set(r, [Idle EXCEPT !.pc = "resolve", !.dispute = d, !.outcome = outcome])
        PROVE  /\ req'[r].pc \in {"resolve", "book", "idle"}
               /\ \A s \in Requests \ {r} : req'[s] = req[s]
    BY <2>3 DEF Set, Idle, RefundInv, TypeOK
  <2> QED BY <2>1, <2>2, <2>3 DEF ResolveChargeback, SaveOutcome, BookLoss, ResolveFails, Crash
<1> QED BY <1>1, <1>2, LockedQuiet

LEMMA InitLockInv == Init => LockInv
<1> SUFFICES ASSUME Init PROVE LockInv
  OBVIOUS
<1>1. Live = {}
  BY DEF Init, Live, Units
<1>2. Refunded = 0
  BY <1>1, FS_EmptySet DEF Refunded
<1>3. Idle.pc = "idle" /\ \A r \in Requests : req[r] = Idle
  BY DEF Init, Idle
<1> HIDE DEF Idle
<1> QED BY <1>2, <1>3, RefundAssumption DEF LockInv

LEMMA NextLockInv == RefundInv /\ LockInv /\ [Next]_vars => LockInv'
<1> SUFFICES ASSUME RefundInv, LockInv, [Next]_vars PROVE LockInv'
  OBVIOUS
<1>1. ASSUME NEW r \in Requests, Start(r) \/ Advance(r) \/ Fail(r) PROVE LockInv'
  BY <1>1, RefunderKeepsLock, DisputerKeepsLock DEF Start, Advance, Fail, Refunder
<1>2. CASE UNCHANGED <<refund, lock, req, doubtful>>
  BY <1>2 DEF LockInv, Refunded, Live
<1>3. CASE Expire
  <2>1. CASE lock = Orphan
    <3>1. UNCHANGED <<refund, req>> /\ \A r \in Requests : lock # r
      BY <1>3, <2>1, RefundAssumption DEF Expire, refundVars
    <3>2. doubtful' = doubtful \/ doubtful' = TRUE
      BY <1>3 DEF Expire
    <3>3. Refunded' = Refunded
      BY <3>1 DEF Refunded, Live
    <3> QED BY <3>1, <3>2, <3>3 DEF LockInv
  <2>2. CASE lock # Orphan
    BY <1>3, <2>2 DEF Expire, LockInv
  <2> QED BY <2>1, <2>2
<1> QED BY <1>1, <1>2, <1>3
        DEF Next, OpenChargeback, MoveChargeback, vars, refundVars

\* createRefund's ceiling: until the order's lock has expired under its holder, what is
\* paid out for refunds that did not fail is within the order's total.
THEOREM RefundsWithinTotal == Spec => []RefundCeiling
<1>1. RefundInv /\ LockInv => RefundCeiling
  <2> SUFFICES ASSUME RefundInv, LockInv, ~doubtful
               PROVE  Cardinality({u \in Units : paid[u[1]] > 0 /\ refund[u[1]] # "FAILED"})
                         <= OrderTotal
    BY DEF RefundCeiling
  <2> DEFINE Out == {u \in Units : paid[u[1]] > 0 /\ refund[u[1]] # "FAILED"}
  <2>1. Out \subseteq Live
    <3> SUFFICES ASSUME NEW u \in Out PROVE u \in Live
      OBVIOUS
    <3>1. u \in Units /\ u[1] \in Refunds
      BY DEF Units
    <3>2. Books(u[1]) /\ refund[u[1]] \in RefundStatuses
      BY <3>1 DEF RefundInv, TypeOK
    <3>3. paid[u[1]] # 0 /\ refund[u[1]] # "FAILED"
      BY <3>1 DEF RefundInv, TypeOK
    <3> QED BY <3>1, <3>2, <3>3 DEF Live, Books, Created, RefundStatuses
  <2>2. IsFiniteSet(Out) /\ Cardinality(Out) <= Refunded
    BY <2>1, LiveFinite, FS_Subset DEF Refunded
  <2>3. Cardinality(Out) \in Nat
    BY <2>2, FS_CardinalityType
  <2> QED BY <2>2, <2>3, LiveFinite, RefundAssumption DEF LockInv
<1> QED BY <1>1, InitLockInv, NextLockInv, RefundInvariant, PTL DEF Spec

-----------------------------------------------------------------------------
(* The outcome of a chargeback.                                            *)

\* Nothing but the request that resolves an orderly chargeback moves it, and that request
\* has found it open.
Sound(d) ==
    /\ \A r, s \in Requests : req[r].dispute = d /\ req[s].dispute = d => r = s
    /\ \A r \in Requests :
          req[r].dispute = d /\ req[r].pc = "resolve" => dispute[d] \in Resolvable

DisputeInv == \A d \in orderly : Sound(d)

\* Only the request r moves and has had or gets nothing to do with d.
LEMMA SoundElsewhere ==
    ASSUME NEW r \in Requests, \A s \in Requests \ {r} : req'[s] = req[s],
           NEW d \in Disputes, req[r].dispute # d, req'[r].dispute # d,
           dispute'[d] = dispute[d], Sound(d)
    PROVE  Sound(d)'
BY DEF Sound

LEMMA RefunderKeepsOutcome ==
    ASSUME RefundInv, DisputeInv, NEW r \in Requests, Refunder(r)
    PROVE  DisputeInv'
<1> SUFFICES ASSUME NEW d \in orderly' PROVE Sound(d)'
  BY DEF DisputeInv
<1>1. UNCHANGED disputeVars /\ d \in Disputes /\ "none" # d
  BY RefunderStep, RefundAssumption DEF RefundInv, TypeOK, disputeVars
<1> QED BY <1>1, RefunderStep, SoundElsewhere DEF DisputeInv, disputeVars

LEMMA ResolveKeepsOutcome ==
    ASSUME RefundInv, DisputeInv, NEW r \in Requests, NEW e \in Disputes,
           NEW outcome \in {"CHARGEBACK_WON", "CHARGEBACK_LOST"}, ResolveChargeback(r, e, outcome)
    PROVE  DisputeInv'
<1> SUFFICES ASSUME NEW d \in orderly' PROVE Sound(d)'
  BY DEF DisputeInv
<1>1. /\ d \in orderly /\ (d = e => ~Resolving(d))
      /\ dispute' = dispute /\ dispute[e] \in Resolvable
  BY DEF ResolveChargeback
<1>2. Sound(d) /\ d \in Disputes /\ d # "none"
  BY <1>1, RefundAssumption DEF DisputeInv, RefundInv, TypeOK
<1>3. /\ \A s \in Requests \ {r} : req'[s] = req[s]
      /\ req'[r].dispute = e /\ req'[r].pc = "resolve"
  BY DEF ResolveChargeback, Set, Idle, RefundInv, TypeOK
<1>4. req[r].dispute = "none"
  BY AtStep DEF ResolveChargeback, At, Knows
<1>5. CASE d # e
  BY <1>1, <1>2, <1>3, <1>4, <1>5, SoundElsewhere
<1>6. CASE d = e
  <2>1. \A s \in Requests : req'[s].dispute = d => s = r
    BY <1>1, <1>3, <1>6 DEF Resolving
  <2> QED BY <1>1, <1>3, <1>6, <2>1 DEF Sound
<1> QED BY <1>5, <1>6

LEMMA SaveOutcomeKeepsOutcome ==
    ASSUME RefundInv, DisputeInv, NEW r \in Requests, SaveOutcome(r)
    PROVE  DisputeInv'
<1> SUFFICES ASSUME NEW d \in orderly' PROVE Sound(d)'
  BY DEF DisputeInv
<1>1. /\ req[r].pc = "resolve" /\ req[r] \in Request /\ Knows(req[r])
      /\ dispute \in [Disputes -> DisputeStatuses]
  BY AtStep DEF SaveOutcome, At, RefundInv, TypeOK
<1>2. PICK e \in Disputes : e = req[r].dispute
  BY <1>1 DEF Knows, Request
<1>3. Sound(d) /\ d \in Disputes /\ d # "none"
  BY RefundAssumption DEF DisputeInv, SaveOutcome, RefundInv, TypeOK
<1>4. dispute' = [dispute EXCEPT ![e] = req[r].outcome]
  BY <1>2 DEF SaveOutcome
<1>5. /\ \A s \in Requests \ {r} : req'[s] = req[s]
      /\ req'[r].pc # "resolve" /\ req'[r].dispute \in {e, "none"}
  <2>1. CASE req[r].outcome = "CHARGEBACK_LOST"
    <3>1. Goto(r, "book")
      BY <2>1 DEF SaveOutcome
    <3> QED BY <1>2, <2>1, <3>1, Going DEF Goto, Set, RefundInv, TypeOK, Steps
  <2>2. CASE req[r].outcome # "CHARGEBACK_LOST"
    <3>1. Finish(r)
      BY <2>2 DEF SaveOutcome
    <3> QED BY <3>1, Finishing DEF Finish, Set, RefundInv, TypeOK
  <2> QED BY <2>1, <2>2
<1>6. CASE d # e
  BY <1>2, <1>3, <1>4, <1>5, <1>6, SoundElsewhere
<1>7. CASE d = e
  <2>1. \A s \in Requests \ {r} : req'[s].dispute # d
    BY <1>2, <1>3, <1>5, <1>7 DEF Sound
  <2> QED BY <1>5, <2>1 DEF Sound
<1> QED BY <1>6, <1>7

\* A request that ends, or stops, has nothing to do with its chargeback any more.
LEMMA EndKeepsOutcome ==
    ASSUME RefundInv, DisputeInv, NEW r \in Requests, BookLoss(r) \/ ResolveFails(r) \/ Crash(r)
    PROVE  DisputeInv'
<1> SUFFICES ASSUME NEW d \in orderly' PROVE Sound(d)'
  BY DEF DisputeInv
<1>1. dispute' = dispute /\ orderly' = orderly /\ Finish(r)
  BY DEF BookLoss, ResolveFails, Crash, disputeVars
<1>2. (\A s \in Requests \ {r} : req'[s] = req[s]) /\ req'[r].dispute = "none"
  BY <1>1, Finishing DEF Finish, Set, RefundInv, TypeOK
<1>3. Sound(d) /\ d # "none"
  BY <1>1, RefundAssumption DEF DisputeInv, RefundInv, TypeOK
<1>4. \A s \in Requests : req'[s].dispute = d => s # r /\ req'[s] = req[s]
  BY <1>2, <1>3
<1> QED BY <1>1, <1>3, <1>4 DEF Sound

LEMMA ChargebackKeepsOutcome ==
    ASSUME RefundInv, DisputeInv, NEW e \in Disputes, OpenChargeback(e) \/ MoveChargeback(e)
    PROVE  DisputeInv'
<1> SUFFICES ASSUME NEW d \in orderly' PROVE Sound(d)'
  BY DEF DisputeInv
<1>1. req' = req /\ d \in orderly
  BY DEF OpenChargeback, MoveChargeback
<1>2. Sound(d) /\ d \in Disputes /\ dispute \in [Disputes -> DisputeStatuses]
  BY <1>1 DEF DisputeInv, RefundInv, TypeOK
<1>3. PICK status \in {"CHARGEBACK_OPEN", "SUBMITTED", "EXPIRED"} :
         dispute' = [dispute EXCEPT ![e] = status]
  BY DEF OpenChargeback, MoveChargeback
<1>4. CASE dispute'[d] = dispute[d] \/ dispute'[d] \in Resolvable
  BY <1>1, <1>2, <1>4 DEF Sound
<1>5. CASE d = e /\ MoveChargeback(e)
  <2>1. ~Resolving(d)
    BY <1>5 DEF MoveChargeback
  <2> QED BY <1>1, <2>1 DEF Sound, Resolving
<1>6. CASE d = e /\ OpenChargeback(e)
  <2>1. dispute'[d] = "CHARGEBACK_OPEN"
    BY <1>2, <1>6 DEF OpenChargeback
  <2> QED BY <1>4, <2>1 DEF Resolvable
<1>7. CASE d # e
  BY <1>2, <1>3, <1>4, <1>7
<1> QED BY <1>5, <1>6, <1>7

LEMMA InitDisputeInv == Init => DisputeInv
<1> SUFFICES ASSUME Init PROVE DisputeInv
  OBVIOUS
<1>1. Idle.dispute = "none" /\ \A r \in Requests : req[r] = Idle
  BY DEF Init, Idle
<1> HIDE DEF Idle
<1> QED BY <1>1, RefundAssumption DEF Init, DisputeInv, Sound

LEMMA NextDisputeInv == RefundInv /\ DisputeInv /\ [Next]_vars => DisputeInv'
<1> SUFFICES ASSUME RefundInv, DisputeInv, [Next]_vars PROVE DisputeInv'
  OBVIOUS
<1>1. ASSUME NEW r \in Requests, Start(r) PROVE DisputeInv'
  BY <1>1, RefunderKeepsOutcome, ResolveKeepsOutcome DEF Start, Refunder
<1>2. ASSUME NEW r \in Requests, Advance(r) \/ Fail(r) PROVE DisputeInv'
  BY <1>2, RefunderKeepsOutcome, SaveOutcomeKeepsOutcome, EndKeepsOutcome
     DEF Advance, Fail, Refunder
<1>3. ASSUME NEW d \in Disputes, OpenChargeback(d) \/ MoveChargeback(d) PROVE DisputeInv'
  BY <1>3, ChargebackKeepsOutcome
<1>4. CASE UNCHANGED <<disputeVars, req>>
  BY <1>4 DEF DisputeInv, Sound, disputeVars
<1> QED BY <1>1, <1>2, <1>3, <1>4 DEF Next, Expire, vars

\* resolveChargeback does not change what became of a chargeback.
THEOREM OutcomesStand == Spec => OutcomeStands
<1>1. RefundInv /\ DisputeInv /\ [Next]_vars
         => [\A d \in orderly' : dispute[d] \in Over => dispute'[d] = dispute[d]]_vars
  <2> SUFFICES ASSUME RefundInv, DisputeInv, Next, NEW d \in orderly', dispute[d] \in Over
               PROVE  dispute'[d] = dispute[d]
    OBVIOUS
  <2>1. dispute \in [Disputes -> DisputeStatuses] /\ orderly \subseteq Disputes
    BY DEF RefundInv, TypeOK
  <2>2. ASSUME NEW r \in Requests, SaveOutcome(r) PROVE dispute'[d] = dispute[d]
    <3>1. d \in Disputes /\ Sound(d)
      BY <2>1, <2>2 DEF SaveOutcome, DisputeInv
    <3>2. req[r].dispute # d
      BY <2>2, <3>1 DEF SaveOutcome, At, Sound, Resolvable, Over
    <3> QED BY <2>1, <2>2, <3>1, <3>2 DEF SaveOutcome
  <2>3. ASSUME NEW e \in Disputes, OpenChargeback(e) \/ MoveChargeback(e)
        PROVE  dispute'[d] = dispute[d]
    <3>1. d # e
      BY <2>1, <2>3 DEF OpenChargeback, MoveChargeback, Over
    <3> QED BY <2>1, <2>3, <3>1 DEF OpenChargeback, MoveChargeback
  <2>4. ASSUME NEW r \in Requests, Refunder(r) PROVE dispute' = dispute
    BY <2>4, RefunderStep DEF disputeVars
  <2>5. ASSUME NEW r \in Requests,
               BookLoss(r) \/ ResolveFails(r) \/ Crash(r)
               \/ \E e \in Disputes : \E outcome \in {"CHARGEBACK_WON", "CHARGEBACK_LOST"} :
                     ResolveChargeback(r, e, outcome)
        PROVE  dispute' = dispute
    BY <2>5 DEF BookLoss, ResolveFails, Crash, ResolveChargeback, disputeVars
  <2>6. CASE Expire
    BY <2>6 DEF Expire, disputeVars
  <2> QED BY <2>2, <2>3, <2>4, <2>5, <2>6 DEF Next, Start, Advance, Fail, Refunder
<1> QED BY <1>1, InitDisputeInv, NextDisputeInv, RefundInvariant, PTL DEF Spec, OutcomeStands

-----------------------------------------------------------------------------
(* The promise (module RefundPromise). What it needs besides: the ledger   *)
(* has nothing of a refund until the request that processes it gets there. *)

Unposted ==
    /\ \A k \in Refunds : ~Created(k) => journal[k] = "none"
    /\ \A r \in Requests :
          /\ req[r].pc \in {"dispatch", "gateway", "header"} => journal[req[r].key] = "none"
          /\ req[r].pc = "postings" => journal[req[r].key] = "header"

\* A step of r posts only for the refund it processes.
LEMMA UnpostedStep ==
    ASSUME RefundInv, Unposted, NEW r \in Requests, Moves(r),
           \A k \in Refunds : journal'[k] = journal[k] \/ (k = req[r].key /\ req[r].pc \in Processing),
           \A k \in Refunds : Created(k) => Created(k)',
           req'[r].pc \in {"dispatch", "gateway", "header"} => journal'[req'[r].key] = "none",
           req'[r].pc = "postings" => journal'[req'[r].key] = "header"
    PROVE  Unposted'
<1>1. ASSUME NEW s \in Requests \ {r}, req[s].pc \in {"dispatch", "gateway", "header", "postings"}
      PROVE  journal'[req[s].key] = journal[req[s].key]
  <2>1. req[s].key \in Refunds
    BY AtStep
  <2> QED BY <1>1, <2>1 DEF RefundInv, Apart
<1>2. \A s \in Requests \ {r} : req'[s] = req[s]
  BY DEF Moves, RefundInv, TypeOK
<1>3. ASSUME NEW s \in Requests
      PROVE  /\ req'[s].pc \in {"dispatch", "gateway", "header"} => journal'[req'[s].key] = "none"
             /\ req'[s].pc = "postings" => journal'[req'[s].key] = "header"
  <2>1. CASE s = r
    BY <2>1
  <2>2. CASE s # r
    BY <1>1, <1>2, <2>2 DEF Unposted
  <2> QED BY <2>1, <2>2
<1>4. ASSUME NEW k \in Refunds, ~Created(k)' PROVE journal'[k] = "none"
  <2>1. ~Created(k) /\ journal[k] = "none"
    BY <1>4 DEF Unposted
  <2>2. ~(k = req[r].key /\ req[r].pc \in Processing)
    BY <2>1, AtStep DEF Knows, Created
  <2> QED BY <2>1, <2>2
<1> QED BY <1>3, <1>4 DEF Unposted

\* Statuses are saved over statuses.
LEMMA CreatedStays ==
    ASSUME RefundInv, NEW k \in Refunds, NEW status \in RefundStatuses \ {"NONE"},
           SetStatus(k, status)
    PROVE  \A j \in Refunds : Created(j) => Created(j)'
BY DEF SetStatus, Created, RefundInv, TypeOK

LEMMA JournalKept ==
    ASSUME RefundInv, Unposted, NEW r \in Requests, Moves(r), UNCHANGED journal,
           \A k \in Refunds : Created(k) => Created(k)',
           req'[r].pc \in {"dispatch", "gateway", "header"} => journal[req'[r].key] = "none",
           req'[r].pc # "postings"
    PROVE  Unposted'
BY UnpostedStep

LEMMA UnpostedProcess ==
    ASSUME RefundInv, Unposted, NEW r \in Requests, Process(r) \/ AnswerLost(r) \/ AccessFails(r)
    PROVE  Unposted'
<1> DEFINE k == req[r].key
<1>0. k \in Refunds /\ Knows(req[r]) /\ req[r] \in Request /\ journal \in [Refunds -> {"none", "header", "full"}]
  BY AtStep DEF RefundInv, TypeOK
<1>1. CASE Find(r)
  <2>1. UNCHANGED <<refund, journal>> /\ Moves(r) /\ req'[r].pc \in {"release", "sum"}
    <3>1. CASE Goto(r, "sum")
      BY <1>1, <3>1, Going DEF Find, refundVars, Steps
    <3>2. CASE Set(r, [req[r] EXCEPT !.pc = "release", !.ok = TRUE])
      <4> DEFINE q == [req[r] EXCEPT !.pc = "release", !.ok = TRUE]
      <4>1. q \in Request /\ q.pc = "release"
        BY <1>0 DEF Request, Steps
      <4>2. Set(r, q)
        BY <3>2
      <4> HIDE DEF q
      <4>3. Moves(r) /\ req'[r] = q
        BY <4>1, <4>2, Stepping
      <4> QED BY <1>1, <4>1, <4>3 DEF Find, refundVars
    <3> QED BY <1>1, <3>1, <3>2 DEF Find
  <2> QED BY <2>1, JournalKept DEF Created
<1>2. CASE Sum(r)
  <2>1. PICK step \in {"release", "create"} : Goto(r, step)
    BY <1>2 DEF Sum
  <2>2. UNCHANGED <<refund, journal>> /\ Moves(r) /\ req'[r].pc = step
    BY <1>2, <2>1, Going DEF Sum, refundVars, Steps
  <2> QED BY <2>2, JournalKept DEF Created
<1>3. CASE Create(r)
  <2>1. CASE Created(k)
    <3>1. UNCHANGED <<refund, journal>> /\ Moves(r) /\ req'[r].pc = "release"
      BY <1>3, <2>1, Going DEF Create, Steps
    <3> QED BY <3>1, JournalKept DEF Created
  <2>2. CASE ~Created(k)
    <3>1. SetStatus(k, "REQUESTED") /\ UNCHANGED journal /\ Goto(r, "dispatch")
      BY <1>3, <2>2 DEF Create
    <3>2. Moves(r) /\ req'[r].pc = "dispatch" /\ req'[r].key = k /\ journal[k] = "none"
      BY <1>0, <2>2, <3>1, Going DEF Steps, Unposted
    <3>3. \A j \in Refunds : Created(j) => Created(j)'
      BY <1>0, <3>1, CreatedStays DEF RefundStatuses
    <3> QED BY <3>1, <3>2, <3>3, JournalKept
  <2> QED BY <2>1, <2>2
<1>4. CASE Dispatch(r)
  <2>1. PICK step \in {"header", "gateway"} : Goto(r, step)
    BY <1>4 DEF Dispatch
  <2>2. SetStatus(k, "PROCESSING") /\ UNCHANGED journal /\ req[r].pc = "dispatch"
    BY <1>4 DEF Dispatch, At
  <2>3. Moves(r) /\ req'[r].pc = step /\ req'[r].key = k /\ journal[k] = "none"
    BY <2>1, <2>2, Going DEF Steps, Unposted
  <2>4. \A j \in Refunds : Created(j) => Created(j)'
    BY <1>0, <2>2, CreatedStays DEF RefundStatuses
  <2> QED BY <2>2, <2>3, <2>4, JournalKept
<1>5. CASE Header(r)
  <2>1. Goto(r, "postings") /\ UNCHANGED refund /\ req[r].pc = "header"
        /\ journal' = [journal EXCEPT ![k] = "header"]
    BY <1>5 DEF Header, At
  <2>2. Moves(r) /\ req'[r].pc = "postings" /\ req'[r].key = k
    BY <2>1, Going DEF Steps
  <2> QED BY <1>0, <2>1, <2>2, UnpostedStep DEF Created
<1>6. CASE Postings(r)
  <2>1. PICK step \in {"credit", "complete"} : Goto(r, step)
    BY <1>6 DEF Postings
  <2>2. UNCHANGED refund /\ req[r].pc = "postings" /\ journal' = [journal EXCEPT ![k] = "full"]
    BY <1>6 DEF Postings, At
  <2>3. Moves(r) /\ req'[r].pc = step
    BY <2>1, Going DEF Steps
  <2> QED BY <1>0, <2>2, <2>3, UnpostedStep DEF Created
<1>7. CASE GatewayRefund(r)
  <2>1. PICK step \in {"header", "fail"} : Goto(r, step)
    BY <1>7 DEF GatewayRefund
  <2>2. UNCHANGED <<refund, journal>> /\ req[r].pc = "gateway"
    BY <1>7 DEF GatewayRefund, At
  <2>3. Moves(r) /\ req'[r].pc = step /\ req'[r].key = k /\ journal[k] = "none"
    BY <2>1, <2>2, Going DEF Steps, Unposted
  <2> QED BY <2>2, <2>3, JournalKept DEF Created
<1>8. CASE Credit(r) \/ AnswerLost(r) \/ AccessFails(r)
  <2>1. PICK step \in {"complete", "fail", "release"} : Goto(r, step)
    BY <1>8 DEF Credit, AnswerLost, AccessFails
  <2>2. UNCHANGED <<refund, journal>>
    BY <1>8 DEF Credit, AnswerLost, AccessFails, refundVars
  <2>3. Moves(r) /\ req'[r].pc = step
    BY <2>1, Going DEF Steps
  <2> QED BY <2>2, <2>3, JournalKept DEF Created
<1>9. CASE Complete(r) \/ MarkFailed(r)
  <2>1. PICK status \in {"COMPLETED", "FAILED"} : SetStatus(k, status)
    BY <1>9 DEF Complete, MarkFailed
  <2>2. PICK step \in {"enqueue", "release"} : Goto(r, step)
    BY <1>9 DEF Complete, MarkFailed
  <2>3. UNCHANGED journal
    BY <1>9 DEF Complete, MarkFailed
  <2>4. Moves(r) /\ req'[r].pc = step
    BY <2>2, Going DEF Steps
  <2>5. \A j \in Refunds : Created(j) => Created(j)'
    BY <1>0, <2>1, CreatedStays DEF RefundStatuses
  <2> QED BY <2>3, <2>4, <2>5, JournalKept
<1>10. CASE Enqueue(r)
  <2> DEFINE q == [req[r] EXCEPT !.pc = "release", !.ok = TRUE]
  <2>1. q \in Request /\ q.pc = "release"
    BY <1>0 DEF Request, Steps
  <2>2. Set(r, q) /\ UNCHANGED <<refund, journal>>
    BY <1>10 DEF Enqueue
  <2> HIDE DEF q
  <2>3. Moves(r) /\ req'[r] = q
    BY <2>1, <2>2, Stepping
  <2> QED BY <2>1, <2>2, <2>3, JournalKept DEF Created
<1>11. CASE Release(r) \/ Record(r)
  <2>1. UNCHANGED <<refund, journal>>
    BY <1>11 DEF Release, Record, refundVars
  <2>2. Goto(r, "record") \/ Finish(r)
    BY <1>11 DEF Release, Record
  <2>3. Moves(r) /\ req'[r].pc \in {"record", "idle"}
    BY <2>2, Going, Finishing DEF Steps
  <2> QED BY <2>1, <2>3, JournalKept DEF Created
<1> QED BY <1>1, <1>2, <1>3, <1>4, <1>5, <1>6, <1>7, <1>8, <1>9, <1>10, <1>11 DEF Process

LEMMA UnpostedAside ==
    ASSUME RefundInv, Unposted, NEW r \in Requests,
           Start(r) \/ SaveOutcome(r) \/ BookLoss(r) \/ ResolveFails(r) \/ Crash(r)
    PROVE  Unposted'
<1>1. UNCHANGED <<refund, journal>>
  BY DEF Start, Ask, ResolveChargeback, SaveOutcome, BookLoss, ResolveFails, Crash, refundVars
<1>2. CASE Start(r)
  <2>1. PICK q \in Request : Set(r, q) /\ q.pc \in {"find", "resolve"}
    <3>1. Idle \in Request /\ Idle.pc = "idle" /\ Idle.dispute = "none"
      BY DEF Idle, Request, Steps, DisputeStatuses, Refunds
    <3>2. ASSUME NEW k \in Refunds, Ask(r, k)
          PROVE  \E q \in Request : Set(r, q) /\ q.pc \in {"find", "resolve"}
      <4> DEFINE q == [Idle EXCEPT !.pc = "find", !.key = k]
      <4>1. q \in Request /\ q.pc = "find"
        BY <3>1 DEF Request, Steps
      <4> QED BY <3>2, <4>1 DEF Ask
    <3>3. ASSUME NEW d \in Disputes, NEW outcome \in {"CHARGEBACK_WON", "CHARGEBACK_LOST"},
                 ResolveChargeback(r, d, outcome)
          PROVE  \E q \in Request : Set(r, q) /\ q.pc \in {"find", "resolve"}
      <4> DEFINE q == [Idle EXCEPT !.pc = "resolve", !.dispute = d, !.outcome = outcome]
      <4>1. q \in Request /\ q.pc = "resolve"
        BY <3>1 DEF Request, Steps, DisputeStatuses
      <4> QED BY <3>3, <4>1 DEF ResolveChargeback
    <3> QED BY <1>2, <3>2, <3>3 DEF Start
  <2>2. Moves(r) /\ req'[r].pc \in {"find", "resolve"}
    BY <2>1, Stepping
  <2> QED BY <1>1, <2>2, JournalKept DEF Created
<1>3. CASE SaveOutcome(r) \/ BookLoss(r) \/ ResolveFails(r) \/ Crash(r)
  <2>1. Goto(r, "book") \/ Finish(r)
    BY <1>3 DEF SaveOutcome, BookLoss, ResolveFails, Crash
  <2>2. Moves(r) /\ req'[r].pc \in {"book", "idle"}
    BY <2>1, Going, Finishing DEF Steps
  <2> QED BY <1>1, <2>2, JournalKept DEF Created
<1> QED BY <1>2, <1>3

LEMMA InitUnposted == Init => Unposted
<1> SUFFICES ASSUME Init PROVE Unposted
  OBVIOUS
<1>1. Idle.pc = "idle" /\ \A r \in Requests : req[r] = Idle
  BY DEF Init, Idle
<1> HIDE DEF Idle
<1> QED BY <1>1 DEF Init, Unposted

LEMMA NextUnposted == RefundInv /\ Unposted /\ [Next]_vars => Unposted'
<1> SUFFICES ASSUME RefundInv, Unposted, [Next]_vars PROVE Unposted'
  OBVIOUS
<1>1. ASSUME NEW r \in Requests, Start(r) \/ Advance(r) \/ Fail(r) PROVE Unposted'
  BY <1>1, UnpostedProcess, UnpostedAside DEF Advance, Fail
<1>2. CASE UNCHANGED <<refund, journal, req>>
  BY <1>2 DEF Unposted, Created
<1>3. (\E d \in Disputes : OpenChargeback(d) \/ MoveChargeback(d)) \/ Expire \/ UNCHANGED vars
        => UNCHANGED <<refund, journal, req>>
  BY DEF OpenChargeback, MoveChargeback, Expire, vars, refundVars
<1> QED BY <1>1, <1>2, <1>3 DEF Next

-----------------------------------------------------------------------------
(* Each step is a step of the promise or leaves what it talks about alone. *)

State(k) == Stage(refund[k])
Open == {"REQUESTED", "PROCESSING"}

LEMMA PromisedStates ==
    ASSUME RefundInv, NEW k \in Refunds
    PROVE  /\ State(k) = "OPEN" <=> refund[k] \in Open
           /\ State(k) = "COMPLETED" <=> refund[k] = "COMPLETED"
           /\ State(k) = "NONE" <=> refund[k] = "NONE"
BY DEF State, Stage, Open, RefundInv, TypeOK, RefundStatuses

\* One refund gets another status.
LEMMA PromisedStatus ==
    ASSUME RefundInv, NEW k \in Refunds, NEW status, SetStatus(k, status)
    PROVE  [j \in Refunds |-> Stage(refund[j])]' =
              [[j \in Refunds |-> Stage(refund[j])] EXCEPT ![k] = Stage(status)]
BY DEF SetStatus, RefundInv, TypeOK

\* One journal gets its postings.
LEMMA PromisedJournal ==
    ASSUME RefundInv, NEW k \in Refunds, journal' = [journal EXCEPT ![k] = "full"]
    PROVE  {j \in Refunds : journal[j] = "full"}' = {j \in Refunds : journal[j] = "full"} \cup {k}
BY DEF RefundInv, TypeOK

\* The money of a refund that is opened, together with what counts already
LEMMA PromisedMoney ==
    ASSUME RefundInv, NEW k \in Refunds
    PROVE  Promise!Money(Promise!Counting \cup {k}) <= Refunded + Amount[k]
<1> DEFINE Own(j) == {j} \X (1 .. Amount[j])
           All == UNION {Own(j) : j \in Promise!Counting \cup {k}}
<1>1. IsFiniteSet(Own(k)) /\ Cardinality(Own(k)) = Amount[k] /\ Amount[k] \in Nat
  BY UnitsOfOne
<1>2. All \subseteq Live \cup Own(k)
  <2> SUFFICES ASSUME NEW u \in All PROVE u \in Live \/ u \in Own(k)
    OBVIOUS
  <2>1. PICK j \in Promise!Counting \cup {k} : u \in Own(j)
    OBVIOUS
  <2>2. CASE j = k
    BY <2>1, <2>2
  <2>3. CASE j # k
    <3>1. j \in Refunds /\ Stage(refund[j]) \in {"OPEN", "COMPLETED"}
      BY <2>1, <2>3 DEF Promise!Counting
    <3>2. refund[j] \in Open \cup {"COMPLETED"}
      BY <3>1, PromisedStates DEF State
    <3>3. u \in Units /\ u[1] = j
      BY <2>1, <3>1 DEF Units
    <3> QED BY <3>2, <3>3 DEF Live, Open
  <2> QED BY <2>2, <2>3
<1>3. Promise!Money(Promise!Counting \cup {k}) = Cardinality(All)
  BY DEF Promise!Money, Promise!Cardinality, Cardinality
<1> HIDE DEF Own, All
<1>4. /\ IsFiniteSet(Live \cup Own(k))
      /\ Cardinality(Live \cup Own(k)) =
            Cardinality(Live) + Cardinality(Own(k)) - Cardinality(Live \cap Own(k))
  BY <1>1, LiveFinite, FS_Union
<1>5. Cardinality(Live \cap Own(k)) \in Nat
  <2>1. IsFiniteSet(Live \cap Own(k))
    BY <1>1, FS_Subset
  <2> QED BY <2>1, FS_CardinalityType
<1>6. Cardinality(All) <= Cardinality(Live \cup Own(k)) /\ Cardinality(All) \in Nat
  BY <1>2, <1>4, FS_Subset, FS_CardinalityType
<1> QED BY <1>1, <1>3, <1>4, <1>5, <1>6, LiveFinite DEF Refunded

Tellable == <<refund, paid, journal, outbox, doubtful>>

LEMMA PromisedStutter ==
    ASSUME UNCHANGED Tellable
    PROVE  UNCHANGED Promise!promiseVars
BY DEF Tellable, Promise!promiseVars

LEMMA CreatePromised ==
    ASSUME RefundInv, LockInv, NEW r \in Requests, Create(r)
    PROVE  [Promise!Next]_(Promise!promiseVars)
<1> DEFINE k == req[r].key
<1>1. k \in Refunds /\ req[r].pc = "create" /\ UNCHANGED <<paid, journal, outbox, doubtful>>
  BY AtStep DEF Create, At
<1>2. CASE Created(k)
  BY <1>1, <1>2, PromisedStutter DEF Create, Tellable
<1>3. CASE ~Created(k)
  <2>1. SetStatus(k, "REQUESTED") /\ State(k) = "NONE" /\ Stage("REQUESTED") = "OPEN"
    BY <1>1, <1>3, PromisedStates DEF Create, Created, Stage
  <2>2. ~doubtful => Promise!Money(Promise!Counting \cup {k}) <= OrderTotal
    <3>1. Amount[k] \in Nat /\ Refunded \in Nat
      BY <1>1, UnitsOfOne, LiveFinite
    <3>2. Promise!Money(Promise!Counting \cup {k}) \in Nat
      <4> DEFINE Own(j) == {j} \X (1 .. Amount[j])
                 All == UNION {Own(j) : j \in Promise!Counting \cup {k}}
      <4>1. Promise!Counting \cup {k} \subseteq Refunds
        BY <1>1 DEF Promise!Counting
      <4>2. All \subseteq Units
        BY <4>1 DEF Units
      <4>3. IsFiniteSet(All)
        BY <4>2, UnitsFinite, FS_Subset
      <4>4. Promise!Money(Promise!Counting \cup {k}) = Cardinality(All)
        BY DEF Promise!Money, Promise!Cardinality, Cardinality
      <4> QED BY <4>3, <4>4, FS_CardinalityType
    <3>3. ~doubtful => Refunded + Amount[k] <= OrderTotal
      BY <1>1 DEF LockInv
    <3>4. Promise!Money(Promise!Counting \cup {k}) <= Refunded + Amount[k]
      BY <1>1, PromisedMoney
    <3> QED BY <3>1, <3>2, <3>3, <3>4, RefundAssumption
  <2>3. [j \in Refunds |-> Stage(refund[j])]' =
           [[j \in Refunds |-> Stage(refund[j])] EXCEPT ![k] = "OPEN"]
    BY <1>1, <2>1, PromisedStatus
  <2>4. Promise!Open(k)
    BY <1>1, <2>1, <2>2, <2>3 DEF Promise!Open, State
  <2> QED BY <1>1, <2>4 DEF Promise!Next
<1> QED BY <1>2, <1>3

\* The status moves within OPEN, or from there to the end.
LEMMA StatusPromised ==
    ASSUME RefundInv, NEW r \in Requests, Dispatch(r) \/ Complete(r) \/ MarkFailed(r)
    PROVE  [Promise!Next]_(Promise!promiseVars)
<1> DEFINE k == req[r].key
<1>1. k \in Refunds /\ Knows(req[r]) /\ UNCHANGED <<paid, journal, outbox, doubtful>>
  BY AtStep DEF Dispatch, Complete, MarkFailed
<1>2. CASE Dispatch(r)
  <2>1. SetStatus(k, "PROCESSING") /\ State(k) = "OPEN" /\ Stage("PROCESSING") = "OPEN"
    BY <1>1, <1>2, PromisedStates DEF Dispatch, At, Knows, Open, Stage
  <2>2. [j \in Refunds |-> Stage(refund[j])]' = [j \in Refunds |-> Stage(refund[j])]
    BY <1>1, <2>1, PromisedStatus DEF State
  <2> QED BY <1>1, <2>2 DEF Promise!promiseVars
<1>3. CASE Complete(r)
  <2>1. SetStatus(k, "COMPLETED") /\ State(k) = "OPEN" /\ Stage("COMPLETED") = "COMPLETED"
        /\ paid[k] = 1 /\ journal[k] = "full"
    BY <1>1, <1>3, PromisedStates DEF Complete, At, Knows, Open, Stage
  <2>2. [j \in Refunds |-> Stage(refund[j])]' =
           [[j \in Refunds |-> Stage(refund[j])] EXCEPT ![k] = "COMPLETED"]
    BY <1>1, <2>1, PromisedStatus
  <2>3. Promise!Complete(k)
    BY <1>1, <2>1, <2>2 DEF Promise!Complete, State
  <2> QED BY <1>1, <2>3 DEF Promise!Next
<1>4. CASE MarkFailed(r)
  <2>1. SetStatus(k, "FAILED") /\ State(k) = "OPEN" /\ Stage("FAILED") = "FAILED"
    BY <1>1, <1>4, PromisedStates DEF MarkFailed, At, Knows, Open, Stage
  <2>2. [j \in Refunds |-> Stage(refund[j])]' =
           [[j \in Refunds |-> Stage(refund[j])] EXCEPT ![k] = "FAILED"]
    BY <1>1, <2>1, PromisedStatus
  <2>3. Promise!Fail(k)
    BY <1>1, <2>1, <2>2 DEF Promise!Fail, State
  <2> QED BY <1>1, <2>3 DEF Promise!Next
<1> QED BY <1>2, <1>3, <1>4

LEMMA MoneyPromised ==
    ASSUME RefundInv, NEW r \in Requests, Credit(r) \/ GatewayRefund(r) \/ AnswerLost(r)
    PROVE  [Promise!Next]_(Promise!promiseVars)
<1> DEFINE k == req[r].key
<1>1. /\ k \in Refunds /\ Knows(req[r]) /\ UNCHANGED <<refund, journal, outbox, doubtful>>
      /\ req[r].pc \in {"credit", "gateway"} /\ (Pay(k) \/ UNCHANGED paid)
  BY AtStep DEF Credit, GatewayRefund, AnswerLost, At
<1>2. paid[k] = 0 /\ State(k) = "OPEN" /\ paid \in [Refunds -> Nat]
  BY <1>1, PromisedStates DEF Knows, Open, RefundInv, TypeOK
<1>3. CASE Pay(k)
  <2>1. Promise!Pay(k)
    BY <1>1, <1>2, <1>3 DEF Promise!Pay, Pay, State
  <2> QED BY <1>1, <2>1 DEF Promise!Next
<1>4. CASE UNCHANGED paid
  BY <1>1, <1>4, PromisedStutter DEF Tellable
<1> QED BY <1>1, <1>3, <1>4

LEMMA LedgerPromised ==
    ASSUME RefundInv, Unposted, NEW r \in Requests, Header(r) \/ Postings(r)
    PROVE  [Promise!Next]_(Promise!promiseVars)
<1>0. PICK k \in Refunds : k = req[r].key
  BY AtStep
<1>1. /\ Knows(req[r]) /\ UNCHANGED <<refund, paid, outbox, doubtful>>
      /\ journal \in [Refunds -> {"none", "header", "full"}]
  BY AtStep DEF Header, Postings, RefundInv, TypeOK
<1>2. CASE Header(r)
  <2>1. journal[k] # "full" /\ journal' = [journal EXCEPT ![k] = "header"]
    BY <1>0, <1>2 DEF Header, At, Unposted
  <2>2. {j \in Refunds : journal[j] = "full"}' = {j \in Refunds : journal[j] = "full"}
    BY <1>1, <2>1
  <2> QED BY <1>1, <2>2 DEF Promise!promiseVars
<1>3. CASE Postings(r)
  <2>1. journal[k] # "full" /\ journal' = [journal EXCEPT ![k] = "full"] /\ req[r].pc = "postings"
    BY <1>0, <1>3 DEF Postings, At, Unposted
  <2>2. State(k) = "OPEN" /\ (k \in {j \in Refunds : Destination[j] # "WALLET"} => paid[k] = 1)
    BY <1>0, <1>1, <2>1, PromisedStates DEF Knows, Open
  <2>3. {j \in Refunds : journal[j] = "full"}' = {j \in Refunds : journal[j] = "full"} \cup {k}
    BY <2>1, PromisedJournal
  <2>4. Promise!Book(k)
    BY <1>1, <2>1, <2>2, <2>3 DEF Promise!Book, State
  <2> QED BY <2>4 DEF Promise!Next
<1> QED BY <1>2, <1>3

LEMMA EnqueuePromised ==
    ASSUME RefundInv, NEW r \in Requests, Enqueue(r)
    PROVE  [Promise!Next]_(Promise!promiseVars)
<1> DEFINE k == req[r].key
<1>1. /\ k \in Refunds /\ Knows(req[r]) /\ req[r].pc = "enqueue"
      /\ UNCHANGED <<refund, paid, journal, doubtful>>
      /\ outbox' = outbox \cup {k} \/ outbox' = outbox
  BY AtStep DEF Enqueue, At
<1>2. State(k) = "COMPLETED"
  BY <1>1, PromisedStates DEF Knows
<1>3. CASE outbox' = outbox
  BY <1>1, <1>3, PromisedStutter DEF Tellable
<1>4. CASE outbox' = outbox \cup {k} /\ k \notin outbox
  <2>1. Promise!Tell(k)
    BY <1>1, <1>2, <1>4 DEF Promise!Tell, State
  <2> QED BY <1>1, <2>1 DEF Promise!Next
<1> QED BY <1>1, <1>3, <1>4

\* RefundService keeps its promise, whatever crashes, is retried, overlaps or loses its
\* lock: a refund is opened within the order's total if the lock held, pays once and while
\* it is open, is booked once and after a gateway's payment, and is told about when it is
\* complete.
THEOREM RefundKeepsPromise == Spec => KeepsPromise
<1>1. Init => Promise!Init
  BY DEF Init, Promise!Init, Stage
<1>2. RefundInv /\ LockInv /\ Unposted /\ [Next]_vars => [Promise!Next]_(Promise!promiseVars)
  <2> SUFFICES ASSUME RefundInv, LockInv, Unposted, [Next]_vars
               PROVE  [Promise!Next]_(Promise!promiseVars)
    OBVIOUS
  <2>1. ASSUME NEW r \in Requests, Process(r) \/ AnswerLost(r)
        PROVE  UNCHANGED Tellable \/ [Promise!Next]_(Promise!promiseVars)
    <3>1. Find(r) \/ Sum(r) \/ Release(r) \/ Record(r) => UNCHANGED Tellable
      BY DEF Find, Sum, Release, Record, Tellable, refundVars
    <3> QED BY <2>1, <3>1, CreatePromised, StatusPromised, MoneyPromised, LedgerPromised,
               EnqueuePromised DEF Process
  <2>2. ASSUME NEW r \in Requests,
               Start(r) \/ SaveOutcome(r) \/ BookLoss(r) \/ AccessFails(r) \/ ResolveFails(r) \/ Crash(r)
        PROVE  UNCHANGED Tellable
    <3>1. CASE Start(r)
      BY <3>1 DEF Start, Ask, ResolveChargeback, Tellable, refundVars
    <3> QED BY <2>2, <3>1 DEF SaveOutcome, BookLoss, AccessFails, ResolveFails, Crash,
               Tellable, refundVars
  <2>3. ASSUME NEW d \in Disputes, OpenChargeback(d) \/ MoveChargeback(d) PROVE UNCHANGED Tellable
    BY <2>3 DEF OpenChargeback, MoveChargeback, Tellable, refundVars
  <2>4. CASE Expire
    <3>1. UNCHANGED <<refund, paid, journal, outbox>> /\ (UNCHANGED doubtful \/ doubtful' = TRUE)
      BY <2>4 DEF Expire, refundVars
    <3>2. CASE UNCHANGED doubtful
      BY <3>1, <3>2, PromisedStutter DEF Tellable
    <3>3. CASE doubtful = FALSE /\ doubtful' = TRUE
      <4>1. Promise!Doubt
        BY <3>1, <3>3 DEF Promise!Doubt
      <4> QED BY <4>1 DEF Promise!Next
    <3>4. doubtful \in BOOLEAN
      BY DEF RefundInv, TypeOK
    <3> QED BY <3>1, <3>2, <3>3, <3>4
  <2>5. CASE UNCHANGED vars
    BY <2>5, PromisedStutter DEF vars, Tellable, refundVars
  <2> QED BY <2>1, <2>2, <2>3, <2>4, <2>5, PromisedStutter DEF Next, Advance, Fail
<1> QED BY <1>1, <1>2, InitRefundInv, NextRefundInv, InitLockInv, NextLockInv, InitUnposted,
           NextUnposted, PTL DEF Spec, KeepsPromise, Promise!Spec
=============================================================================
