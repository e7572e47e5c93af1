------------------------------- MODULE Refund -------------------------------
(***************************************************************************)
(* The refunds of one order (RefundService.createRefund and                *)
(* processRefund, behind requestRefund) and its chargebacks (opened, given *)
(* evidence, expired, resolved).                                           *)
(*                                                                         *)
(* A refund is known by its Idempotency-Key: the unique index of the       *)
(* collection allows one document for each key, and one with no key at     *)
(* all, because the missing key is stored as null. Each store, gateway or  *)
(* wallet access of a request is a step.                                   *)
(***************************************************************************)
EXTENDS Integers, FiniteSets, LedgerSchema

CONSTANTS
    Requests,        \* requests the server may be handling at the same time
    Keys,            \* the Idempotency-Keys of refunds
    NoKey,           \* a request without one
    Amount,          \* the amount a refund is asked for
    Destination,     \* and where it goes: to the wallet or back to the card
    OrderTotal,      \* totalSellingPrice of the order
    Disputes,        \* references of chargebacks
    MaxEvents        \* bound: failed accesses, lost answers, crashes, expired locks
                     \* and moved chargebacks, together

Refunds == Keys \cup {NoKey}
Destinations == {"WALLET", "ORIGINAL_PAYMENT_METHOD"}
Free == "free"
Orphan == "orphan"
\* The money of each refund, unit by unit, so that a sum of amounts is a cardinality.
Units == UNION {{k} \X (1 .. Amount[k]) : k \in Refunds}

ASSUME RefundAssumption ==
    /\ IsFiniteSet(Keys)
    /\ Amount \in [Refunds -> Nat \ {0}] /\ Destination \in [Refunds -> Destinations]
    /\ OrderTotal \in Nat /\ MaxEvents \in Nat
    /\ {Free, Orphan} \cap Requests = {} /\ "none" \notin Disputes

VARIABLES
    refund,        \* status of the Refund document of each key, or of none
    paid,          \* how often the wallet or the gateway has paid a refund out
    journal,       \* its ledger journal: none, the header alone, or with its postings
    outbox,        \* refunds with a PaymentRefunded event
    answered,      \* keys whose success response is stored
    dispute,       \* status of each chargeback
    booked,        \* how often a lost chargeback is in the ledger
    lock,          \* holder of refund:order:<id>
    req,           \* what each request is doing
    asked,         \* ghost: refunds asked for more than once
    doubtful,      \* ghost: has the lock expired under its holder
    orderly,       \* ghost: chargebacks operated on one at a time and not after their end
    events

refundVars == <<refund, paid, journal, outbox, answered, asked>>
disputeVars == <<dispute, booked, orderly>>
vars == <<refundVars, disputeVars, lock, req, doubtful, events>>

RefundStatuses == {"NONE", "REQUESTED", "PROCESSING", "COMPLETED", "FAILED"}
DisputeStatuses ==
    {"NONE", "CHARGEBACK_OPEN", "SUBMITTED", "CHARGEBACK_WON", "CHARGEBACK_LOST", "EXPIRED"}

Steps == {"idle", "find", "sum", "create", "dispatch", "header", "postings", "credit",
          "gateway", "complete", "fail", "enqueue", "release", "record",
          "resolve", "book"}
Request ==
    [pc: Steps, key: Refunds, ok: BOOLEAN, dispute: Disputes \cup {"none"},
     outcome: DisputeStatuses]
Idle == [pc |-> "idle", key |-> NoKey, ok |-> FALSE, dispute |-> "none", outcome |-> "NONE"]

Init ==
    /\ refund = [k \in Refunds |-> "NONE"]
    /\ paid = [k \in Refunds |-> 0]
    /\ journal = [k \in Refunds |-> "none"]
    /\ outbox = {} /\ answered = {} /\ asked = {}
    /\ dispute = [d \in Disputes |-> "NONE"]
    /\ booked = [d \in Disputes |-> 0]
    /\ orderly = Disputes
    /\ lock = Free
    /\ req = [r \in Requests |-> Idle]
    /\ doubtful = FALSE
    /\ events = 0

-----------------------------------------------------------------------------
At(r, step) == req[r].pc = step
Set(r, locals) == req' = [req EXCEPT ![r] = locals]
Goto(r, step) == Set(r, [req[r] EXCEPT !.pc = step])
Finish(r) == Set(r, Idle)

Created(k) == refund[k] # "NONE"
SetStatus(k, status) == refund' = [refund EXCEPT ![k] = status]
Working == {r \in Requests : ~At(r, "idle")}

\* requestRefund, and the lock of the order. A request whose answer is stored, or
\* that does not get the lock, changes nothing.
Ask(r, k) ==
    /\ At(r, "idle") /\ lock = Free
    /\ k \notin answered
    /\ lock' = r
    /\ asked' = IF Created(k) \/ \E q \in Working : req[q].key = k /\ req[q].dispute = "none"
                THEN asked \cup {k} ELSE asked
    /\ Set(r, [Idle EXCEPT !.pc = "find", !.key = k])
    /\ UNCHANGED <<refund, paid, journal, outbox, answered, disputeVars, doubtful, events>>

\* A refund with the key is returned as it is, whatever its status and amount.
Find(r) ==
    /\ At(r, "find")
    /\ IF req[r].key # NoKey /\ Created(req[r].key)
       THEN Set(r, [req[r] EXCEPT !.pc = "release", !.ok = TRUE])
       ELSE Goto(r, "sum")
    /\ UNCHANGED <<refundVars, disputeVars, lock, doubtful, events>>

AmountsOf(statuses) == Cardinality({u \in Units : refund[u[1]] \in statuses})

\* A mutant of Sum: a refund that is under way does not count yet
SumCompleted(r) ==
    /\ At(r, "sum")
    /\ Goto(r, IF Amount[req[r].key] > OrderTotal - AmountsOf({"COMPLETED"}) THEN "release" ELSE "create")
    /\ UNCHANGED <<refundVars, disputeVars, lock, doubtful, events>>

\* The ceiling: what is left of the order's total after the refunds that have not failed.
Sum(r) ==
    /\ At(r, "sum")
    /\ LET refunded == AmountsOf({"REQUESTED", "PROCESSING", "COMPLETED"})
       IN  Goto(r, IF Amount[req[r].key] > OrderTotal - refunded THEN "release" ELSE "create")
    /\ UNCHANGED <<refundVars, disputeVars, lock, doubtful, events>>

\* A mutant of Create: no unique index
CreateAgain(r) ==
    /\ At(r, "create")
    /\ SetStatus(req[r].key, "REQUESTED")
    /\ Goto(r, "dispatch")
    /\ UNCHANGED <<paid, journal, outbox, answered, asked, disputeVars, lock, doubtful, events>>

Create(r) ==
    /\ At(r, "create")
    /\ IF Created(req[r].key)
       THEN Goto(r, "release") /\ UNCHANGED refund
       ELSE SetStatus(req[r].key, "REQUESTED") /\ Goto(r, "dispatch")
    /\ UNCHANGED <<paid, journal, outbox, answered, asked, disputeVars, lock, doubtful, events>>

\* processRefund saves PROCESSING before any money moves.
Dispatch(r) ==
    /\ At(r, "dispatch")
    /\ SetStatus(req[r].key, "PROCESSING")
    /\ Goto(r, IF Destination[req[r].key] = "WALLET" THEN "header" ELSE "gateway")
    /\ UNCHANGED <<paid, journal, outbox, answered, asked, disputeVars, lock, doubtful, events>>

\* postJournal, for the wallet before the balance and for the gateway after it has
\* paid: the header is unique for the refund, the postings come after it.
Header(r) ==
    /\ At(r, "header")
    /\ LET k == req[r].key
       IN  /\ journal' = [journal EXCEPT ![k] = "header"]
           /\ Goto(r, "postings")
    /\ UNCHANGED <<refund, paid, outbox, answered, asked, disputeVars, lock, doubtful, events>>

Postings(r) ==
    /\ At(r, "postings")
    /\ LET k == req[r].key
       IN  /\ journal' = [journal EXCEPT ![k] = "full"]
           /\ Goto(r, IF Destination[req[r].key] = "WALLET" THEN "credit" ELSE "complete")
    /\ UNCHANGED <<refund, paid, outbox, answered, asked, disputeVars, lock, doubtful, events>>

Pay(k) == paid' = [paid EXCEPT ![k] = @ + 1]

Credit(r) ==
    /\ At(r, "credit")
    /\ Pay(req[r].key)
    /\ Goto(r, "complete")
    /\ UNCHANGED <<refund, journal, outbox, answered, asked, disputeVars, lock, doubtful, events>>

\* A mutant of GatewayRefund: a refund is complete when the gateway has paid, and what
\* becomes of its journal is not waited for
GatewayRefundUnbooked(r) ==
    /\ At(r, "gateway")
    /\ \/ Pay(req[r].key) /\ Goto(r, "complete")
       \/ Goto(r, "fail") /\ UNCHANGED paid
    /\ UNCHANGED <<refund, journal, outbox, answered, asked, disputeVars, lock, doubtful, events>>

\* adapter.refund pays, and its journal is next, or declines.
GatewayRefund(r) ==
    /\ At(r, "gateway")
    /\ \/ Pay(req[r].key) /\ Goto(r, "header")
       \/ Goto(r, "fail") /\ UNCHANGED paid
    /\ UNCHANGED <<refund, journal, outbox, answered, asked, disputeVars, lock, doubtful, events>>

\* The answer of the gateway, or of the store after an update, is lost.
AnswerLost(r) ==
    /\ At(r, "gateway") \/ At(r, "credit")
    /\ events < MaxEvents /\ events' = events + 1
    /\ Pay(req[r].key)
    /\ Goto(r, "fail")
    /\ UNCHANGED <<refund, journal, outbox, answered, asked, disputeVars, lock, doubtful>>

\* A mutant of Complete: a status that is not one of RefundStatus
CompleteAsSuccess(r) ==
    /\ At(r, "complete")
    /\ SetStatus(req[r].key, "SUCCESS")
    /\ Goto(r, "enqueue")
    /\ UNCHANGED <<paid, journal, outbox, answered, asked, disputeVars, lock, doubtful, events>>

Complete(r) ==
    /\ At(r, "complete")
    /\ SetStatus(req[r].key, "COMPLETED")
    /\ Goto(r, "enqueue")
    /\ UNCHANGED <<paid, journal, outbox, answered, asked, disputeVars, lock, doubtful, events>>

\* enqueueEvent; its errors are swallowed.
Enqueue(r) ==
    /\ At(r, "enqueue")
    /\ \/ outbox' = outbox \cup {req[r].key} /\ UNCHANGED events
       \/ events < MaxEvents /\ events' = events + 1 /\ UNCHANGED outbox
    /\ Set(r, [req[r] EXCEPT !.pc = "release", !.ok = TRUE])
    /\ UNCHANGED <<refund, paid, journal, answered, asked, disputeVars, lock, doubtful>>

\* A mutant of MarkFailed: the error is recorded and not thrown again
MarkFailedQuietly(r) ==
    /\ At(r, "fail")
    /\ SetStatus(req[r].key, "FAILED")
    /\ Set(r, [req[r] EXCEPT !.pc = "release", !.ok = TRUE])
    /\ UNCHANGED <<paid, journal, outbox, answered, asked, disputeVars, lock, doubtful, events>>

\* The catch block of processRefund saves FAILED and throws the error again.
MarkFailed(r) ==
    /\ At(r, "fail")
    /\ SetStatus(req[r].key, "FAILED")
    /\ Goto(r, "release")
    /\ UNCHANGED <<paid, journal, outbox, answered, asked, disputeVars, lock, doubtful, events>>

\* A store access fails, or the wallet's lock is taken. The try block begins after
\* the save of PROCESSING; the catch block's own save may fail as well.
AccessFails(r) ==
    /\ events < MaxEvents /\ events' = events + 1
    /\ \/ /\ req[r].pc \in {"find", "sum", "create", "dispatch", "fail"}
          /\ Goto(r, "release")
       \/ /\ req[r].pc \in {"header", "postings", "credit", "complete"}
          /\ Goto(r, "fail")
    /\ UNCHANGED <<refundVars, disputeVars, lock, doubtful>>

Release(r) ==
    /\ At(r, "release")
    /\ lock' = IF lock = r THEN Free ELSE lock
    /\ IF req[r].ok THEN Goto(r, "record") ELSE Finish(r)
    /\ UNCHANGED <<refundVars, disputeVars, doubtful, events>>

\* recordResult: the success response, under the key if there is one
Record(r) ==
    /\ At(r, "record")
    /\ answered' = answered \cup ({req[r].key} \ {NoKey})
    /\ Finish(r)
    /\ UNCHANGED <<refund, paid, journal, outbox, asked, disputeVars, lock, doubtful, events>>

-----------------------------------------------------------------------------
Over == {"CHARGEBACK_WON", "CHARGEBACK_LOST", "EXPIRED"}
Resolvable == {"CHARGEBACK_OPEN", "SUBMITTED"}
Resolving(d) == \E r \in Requests : req[r].dispute = d

\* openChargeback: one record for a reference, not counted by the ceiling of refunds
OpenChargeback(d) ==
    /\ dispute[d] = "NONE"
    /\ dispute' = [dispute EXCEPT ![d] = "CHARGEBACK_OPEN"]
    /\ UNCHANGED <<refundVars, booked, orderly, lock, req, doubtful, events>>

\* submitChargebackEvidence and expireChargeback set their status from any other.
MoveChargeback(d) ==
    /\ dispute[d] # "NONE" /\ events < MaxEvents
    /\ events' = events + 1
    /\ \E status \in {"SUBMITTED", "EXPIRED"} : dispute' = [dispute EXCEPT ![d] = status]
    /\ orderly' = IF dispute[d] \in Over \/ Resolving(d) THEN orderly \ {d} ELSE orderly
    /\ UNCHANGED <<refundVars, booked, lock, req, doubtful>>

\* A mutant of ResolveChargeback: one that is resolved is resolved again
ResolveChargebackAgain(r, d, outcome) ==
    /\ At(r, "idle") /\ dispute[d] # "NONE"
    /\ Set(r, [Idle EXCEPT !.pc = "resolve", !.dispute = d, !.outcome = outcome])
    /\ orderly' = IF Resolving(d) THEN orderly \ {d} ELSE orderly
    /\ UNCHANGED <<refundVars, dispute, booked, lock, doubtful, events>>

\* resolveChargeback reads the record and refuses one that is resolved,
ResolveChargeback(r, d, outcome) ==
    /\ At(r, "idle") /\ dispute[d] \in Resolvable
    /\ Set(r, [Idle EXCEPT !.pc = "resolve", !.dispute = d, !.outcome = outcome])
    /\ orderly' = IF Resolving(d) THEN orderly \ {d} ELSE orderly
    /\ UNCHANGED <<refundVars, dispute, booked, lock, doubtful, events>>

\* saves the outcome,
SaveOutcome(r) ==
    /\ At(r, "resolve")
    /\ dispute' = [dispute EXCEPT ![req[r].dispute] = req[r].outcome]
    /\ IF req[r].outcome = "CHARGEBACK_LOST" THEN Goto(r, "book") ELSE Finish(r)
    /\ UNCHANGED <<refundVars, booked, orderly, lock, doubtful, events>>

\* and posts the journal of a loss, unless it is posted. The schemas of the ledger list
\* neither this type of journal nor the party SYSTEM: the handler ends with an error.
BookLoss(r) ==
    /\ At(r, "book")
    /\ booked' = IF Accepts("CHARGEBACK_LOST", {"SYSTEM", "GATEWAY", "SELLER"})
                 THEN [booked EXCEPT ![req[r].dispute] = 1] ELSE booked
    /\ Finish(r)
    /\ UNCHANGED <<refundVars, dispute, orderly, lock, doubtful, events>>

\* A store access fails: the outcome is not saved, or it is and the journal is not tried.
ResolveFails(r) ==
    /\ req[r].pc \in {"resolve", "book"} /\ events < MaxEvents
    /\ events' = events + 1
    /\ Finish(r)
    /\ UNCHANGED <<refundVars, disputeVars, lock, doubtful>>

-----------------------------------------------------------------------------
Crash(r) ==
    /\ ~At(r, "idle") /\ events < MaxEvents
    /\ events' = events + 1
    /\ lock' = IF lock = r THEN Orphan ELSE lock
    /\ Finish(r)
    /\ UNCHANGED <<refundVars, disputeVars, doubtful>>

\* The lock has a time to live of 15 s and is not renewed.
Expire ==
    /\ lock # Free
    /\ \/ lock = Orphan /\ UNCHANGED <<events, doubtful>>
       \/ /\ lock # Orphan /\ events < MaxEvents
          /\ events' = events + 1 /\ doubtful' = TRUE
    /\ lock' = Free
    /\ UNCHANGED <<refundVars, disputeVars, req>>

Process(r) ==
    \/ Find(r) \/ Sum(r) \/ Create(r) \/ Dispatch(r) \/ Header(r)
    \/ Postings(r) \/ Credit(r) \/ GatewayRefund(r) \/ Complete(r) \/ Enqueue(r)
    \/ MarkFailed(r) \/ Release(r) \/ Record(r)
Advance(r) == Process(r) \/ SaveOutcome(r) \/ BookLoss(r)
Fail(r) == AnswerLost(r) \/ AccessFails(r) \/ ResolveFails(r) \/ Crash(r)

Start(r) ==
    \/ \E k \in Refunds : Ask(r, k)
    \/ \E d \in Disputes : \E outcome \in {"CHARGEBACK_WON", "CHARGEBACK_LOST"} :
          ResolveChargeback(r, d, outcome)

Next ==
    \/ \E r \in Requests : Start(r) \/ Advance(r) \/ Fail(r)
    \/ \E d \in Disputes : OpenChargeback(d) \/ MoveChargeback(d)
    \/ Expire

Spec == Init /\ [][Next]_vars

-----------------------------------------------------------------------------
TypeOK ==
    /\ refund \in [Refunds -> RefundStatuses]
    /\ paid \in [Refunds -> Nat]
    /\ journal \in [Refunds -> {"none", "header", "full"}]
    /\ outbox \subseteq Refunds /\ answered \subseteq Keys /\ asked \subseteq Refunds
    /\ dispute \in [Disputes -> DisputeStatuses]
    /\ booked \in [Disputes -> Nat]
    /\ orderly \subseteq Disputes
    /\ lock \in Requests \cup {Free, Orphan}
    /\ req \in [Requests -> Request]
    /\ doubtful \in BOOLEAN /\ events \in Nat

\* "Cumulative Refund Financial Invariant": what has been paid out for refunds that did
\* not fail stays within the order's total, with any mix of keys and destinations,
\* errors and crashes, as long as the lock of the order does not expire under its holder.
RefundCeiling ==
    ~doubtful =>
        Cardinality({u \in Units : paid[u[1]] > 0 /\ refund[u[1]] # "FAILED"}) <= OrderTotal

\* A refund is paid at most once, however often it is asked for again, also after a
\* crash in the middle, a lost answer or an expired lock, and never before it is saved.
PaidOnce == \A k \in Refunds : paid[k] <= 1 /\ (paid[k] = 1 => Created(k))

\* A refund that is COMPLETED has been paid, and the ledger has its journal and postings.
CompletedIsBooked ==
    \A k \in Refunds :
        refund[k] = "COMPLETED" => paid[k] = 1 /\ journal[k] = "full"

\* Success is answered for a refund that was made, unless the key was sent again while
\* or after the refund went wrong: then the refund is returned as it is.
SuccessIsCompleted ==
    \A k \in answered : k \notin asked => refund[k] = "COMPLETED"

\* What became of a chargeback stands: whatever is tried on it later, by retries of a
\* resolution that ended with an error or crashed, won does not turn into lost nor lost
\* into won, unless two operations on it overlap or one of them sets it aside again.
OutcomeStands ==
    [][\A d \in orderly' : dispute[d] \in Over => dispute'[d] = dispute[d]]_vars

-----------------------------------------------------------------------------
\* The state of a refund, without the steps in between
Stage(status) == IF status \in {"REQUESTED", "PROCESSING"} THEN "OPEN" ELSE status

Promise == INSTANCE RefundPromise WITH
    PaidFirst <- {k \in Refunds : Destination[k] # "WALLET"},
    state <- [k \in Refunds |-> Stage(refund[k])],
    paidOut <- paid,
    inLedger <- {k \in Refunds : journal[k] = "full"},
    told <- outbox,
    guarded <- ~doubtful

\* Whatever crashes, is retried, overlaps or loses its lock, each refund is opened once,
\* within the order's total if the lock held, pays once and while it is open, is
\* booked after that if a gateway pays, and is told about only when it is complete.
KeepsPromise == Promise!Spec
=============================================================================
