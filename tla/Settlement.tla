----------------------------- MODULE Settlement -----------------------------
(***************************************************************************)
(* The settlement batches of the sellers (SettlementService, behind the    *)
(* admin's controller): generated, submitted to the bank, inquired about   *)
(* after an ambiguous answer, and marked as paid with the bank's UTR.      *)
(*                                                                         *)
(* Every access to the store and to the bank is a step of a request.       *)
(* Nothing locks a batch. Mongoose's save() writes the paths whose value   *)
(* the handler changed, whatever the stored document has become. The       *)
(* indexes on payoutReference and utrNumber are unique, and the schema     *)
(* stores a missing value as null, which counts as a value.                *)
(***************************************************************************)
EXTENDS Integers, FiniteSets, LedgerSchema

CONSTANTS
    Requests,     \* requests the server may be handling at the same time
    Batches,      \* settlement batches that may be generated
    Nothing,      \* null
    MaxEvents     \* bound: failed accesses, lost answers, crashes and mistaken UTRs, together

ASSUME SettlementAssumption ==
    /\ IsFiniteSet(Batches)
    /\ Nothing \notin Batches
    /\ MaxEvents \in Nat

VARIABLES
    status,       \* of each batch, "ABSENT" before it is generated
    reference,    \* has the batch a payoutReference
    utr,          \* its utrNumber: the transfer it belongs to, or Nothing
    bank,         \* what the bank knows of the transfer of each batch
    transfers,    \* how often it has paid it
    journal,      \* the batches whose payout is in the ledger
    req,          \* what each request is doing
    calm,         \* ghost: batches that one whole operation at a time has touched
    events

batchVars == <<status, reference, utr>>
bankVars == <<bank, transfers>>
vars == <<batchVars, bankVars, journal, req, calm, events>>

BatchStatuses ==
    {"ABSENT", "CALCULATED", "REVIEW_REQUIRED", "SUBMITTING", "SUBMITTED", "PROCESSING",
     "STATUS_CHECK_REQUIRED", "PAID", "FAILED"}
Steps == {"idle", "create", "review", "submitting", "call", "answer", "inquire", "found",
          "settle", "paid", "journal"}
Request ==
    [pc: Steps, on: Batches \cup {Nothing}, seen: BatchStatuses, had: Batches \cup {Nothing},
     next: BatchStatuses, utr: Batches \cup {Nothing}]
Idle == [pc |-> "idle", on |-> Nothing, seen |-> "ABSENT", had |-> Nothing, next |-> "ABSENT",
         utr |-> Nothing]

Init ==
    /\ status = [b \in Batches |-> "ABSENT"]
    /\ reference = [b \in Batches |-> FALSE]
    /\ utr = [b \in Batches |-> Nothing]
    /\ bank = [b \in Batches |-> "none"]
    /\ transfers = [b \in Batches |-> 0]
    /\ journal = {}
    /\ req = [r \in Requests |-> Idle]
    /\ calm = Batches
    /\ events = 0

-----------------------------------------------------------------------------
At(r, step) == req[r].pc = step
Set(r, locals) == req' = [req EXCEPT ![r] = locals]
Goto(r, step) == Set(r, [req[r] EXCEPT !.pc = step])
Finish(r) == Set(r, Idle)

InUse(b) == \E r \in Requests : req[r].on = b
Exists(b) == status[b] # "ABSENT"
Event == events < MaxEvents /\ events' = events + 1

\* An operation on a batch begins.
Touch(b) == calm' = IF InUse(b) THEN calm \ {b} ELSE calm

\* save() of a status, by a handler that holds the batch in memory as seen
Write(r, b, next) ==
    status' = [status EXCEPT ![b] = IF req[r].seen = next THEN @ ELSE next]

\* The unique indexes: would another document have the same value
ReferenceTaken(b) == \E c \in Batches \ {b} : Exists(c) /\ ~reference[c]
UtrTaken(b, u) == \E c \in Batches \ {b} : Exists(c) /\ utr[c] = u

-----------------------------------------------------------------------------
\* generateSettlementBatch reads the delivered orders (which no batch marks, so they
\* are there again for the next one) and the primary beneficiary, which may change,
Generate(r, b) ==
    /\ At(r, "idle") /\ ~Exists(b) /\ ~InUse(b)
    /\ Set(r, [Idle EXCEPT !.pc = "create", !.on = b])
    /\ UNCHANGED <<batchVars, bankVars, journal, calm, events>>

\* A mutant of Create: the indexes skip a missing value
CreateBeside(r) ==
    /\ At(r, "create")
    /\ LET b == req[r].on
       IN  status' = [status EXCEPT ![b] = "CALCULATED"]
    /\ Finish(r)
    /\ UNCHANGED <<reference, utr, bankVars, journal, calm, events>>

\* and creates the batch, with no reference and no UTR.
Create(r) ==
    /\ At(r, "create")
    /\ LET b == req[r].on
       IN  IF ReferenceTaken(b) \/ UtrTaken(b, Nothing)
           THEN UNCHANGED status
           ELSE status' = [status EXCEPT ![b] = "CALCULATED"]
    /\ Finish(r)
    /\ UNCHANGED <<reference, utr, bankVars, journal, calm, events>>

-----------------------------------------------------------------------------
\* The bank may have an instruction for the batch already, or be about to get one.
Unsure(b) == status[b] \in {"SUBMITTING", "SUBMITTED", "PROCESSING", "STATUS_CHECK_REQUIRED"}

Load(b, step) == [Idle EXCEPT !.pc = step, !.on = b, !.seen = status[b]]

\* A mutant of Execute: a batch that is paid is executed again
ExecutePaid(r, b) ==
    /\ At(r, "idle") /\ Exists(b)
    /\ \/ Set(r, Load(b, "review"))
       \/ Set(r, [Load(b, "submitting") EXCEPT !.had = utr[b]])
    /\ calm' = IF InUse(b) \/ Unsure(b) THEN calm \ {b} ELSE calm
    /\ UNCHANGED <<batchVars, bankVars, journal, events>>

\* executeBatchPayout reads the batch with its beneficiary, who is verified at this time
\* or is not (verifySellerBeneficiary may say either at any time). It asks for no
\* approval, and does not look whether an earlier instruction is still open.
Execute(r, b) ==
    /\ At(r, "idle") /\ Exists(b) /\ status[b] # "PAID"
    /\ \/ Set(r, Load(b, "review"))
       \/ Set(r, [Load(b, "submitting") EXCEPT !.had = utr[b]])
    /\ calm' = IF InUse(b) \/ Unsure(b) THEN calm \ {b} ELSE calm
    /\ UNCHANGED <<batchVars, bankVars, journal, events>>

\* A batch with no verified beneficiary is set aside.
SaveReview(r) ==
    /\ At(r, "review")
    /\ Write(r, req[r].on, "REVIEW_REQUIRED")
    /\ Finish(r)
    /\ UNCHANGED <<reference, utr, bankVars, journal, calm, events>>

\* SUBMITTING is saved before the bank is called.
SaveSubmitting(r) ==
    /\ At(r, "submitting")
    /\ Write(r, req[r].on, "SUBMITTING")
    /\ Set(r, [req[r] EXCEPT !.pc = "call", !.seen = "SUBMITTING"])
    /\ UNCHANGED <<reference, utr, bankVars, journal, calm, events>>

Answer(r, next, u) == Set(r, [req[r] EXCEPT !.pc = "answer", !.next = next, !.utr = u])

\* External: the bank takes an instruction it does not know, and makes the transfer now or later.
Transfer(b) ==
    /\ bank' = [bank EXCEPT ![b] = "success"]
    /\ transfers' = [transfers EXCEPT ![b] = @ + 1]
Take(b) ==
    IF bank[b] # "none" THEN UNCHANGED bankVars
    ELSE Transfer(b) \/ (bank' = [bank EXCEPT ![b] = "pending"] /\ UNCHANGED transfers)
UtrNow(b) == IF bank'[b] = "success" THEN b ELSE Nothing

\* A mutant of Call: an error of the bank is taken for a refusal
CallOrFail(r) ==
    /\ At(r, "call")
    /\ LET b == req[r].on
       IN  /\ Take(b)
           /\ \/ Answer(r, "SUBMITTED", UtrNow(b)) /\ UNCHANGED events
              \/ Event /\ Answer(r, "FAILED", Nothing)
    /\ UNCHANGED <<batchVars, journal, calm>>

\* createPayout with the key of the batch: the bank takes the instruction, or knows
\* it from before, and tells the UTR of a transfer it has made; it may refuse for
\* want of credentials; the call may fail, before the bank got it or after.
Call(r) ==
    /\ At(r, "call")
    /\ LET b == req[r].on
       IN  \/ /\ Take(b) /\ UNCHANGED events
              /\ Answer(r, IF bank[b] = "none" THEN "SUBMITTED" ELSE "PROCESSING", UtrNow(b))
           \/ Answer(r, "FAILED", Nothing) /\ UNCHANGED <<bankVars, events>>
           \/ /\ Event /\ Answer(r, "STATUS_CHECK_REQUIRED", Nothing)
              /\ Take(b) \/ UNCHANGED bankVars
    /\ UNCHANGED <<batchVars, journal, calm>>

\* The answer is saved. Only an accepted instruction sets the reference and the UTR,
\* and an index may refuse it: then the second save, in the catch block, is refused too.
SaveAnswer(r) ==
    /\ At(r, "answer")
    /\ LET b == req[r].on
           Accepted == req[r].next \in {"SUBMITTED", "PROCESSING"}
           Changed == req[r].utr # req[r].had
       IN  IF Accepted /\ Changed /\ UtrTaken(b, req[r].utr)
           THEN UNCHANGED batchVars
           ELSE /\ Write(r, b, req[r].next)
                /\ reference' = [reference EXCEPT ![b] = @ \/ Accepted]
                /\ utr' = [utr EXCEPT ![b] = IF Accepted /\ Changed THEN req[r].utr ELSE @]
    /\ Finish(r)
    /\ UNCHANGED <<bankVars, journal, calm, events>>

\* External: the bank makes the transfer, or declines it, in its own time.
BankSettles(b) ==
    /\ bank[b] = "pending"
    /\ \/ Transfer(b)
       \/ bank' = [bank EXCEPT ![b] = "failed"] /\ UNCHANGED transfers
    /\ UNCHANGED <<batchVars, journal, req, calm, events>>

-----------------------------------------------------------------------------
\* recoverAmbiguousPayout reads the batch,
Recover(r, b) ==
    /\ At(r, "idle") /\ Exists(b) /\ status[b] # "PAID"
    /\ Set(r, Load(b, "inquire"))
    /\ Touch(b)
    /\ UNCHANGED <<batchVars, bankVars, journal, events>>

\* asks the bank, which may not answer,
Inquire(r) ==
    /\ At(r, "inquire")
    /\ LET b == req[r].on
       IN  \/ Finish(r)
           \/ bank[b] = "success" /\ Set(r, [Idle EXCEPT !.pc = "settle", !.on = b, !.utr = b])
           \/ bank[b] = "pending" /\ Set(r, [req[r] EXCEPT !.pc = "found", !.next = "PROCESSING"])
           \/ /\ bank[b] \in {"none", "failed"}
              /\ Set(r, [req[r] EXCEPT !.pc = "found", !.next = "FAILED"])
    /\ UNCHANGED <<batchVars, bankVars, journal, calm, events>>

\* A mutant of SaveFound: what the bank says is saved as it is
SaveFoundAsSaid(r) ==
    /\ At(r, "found")
    /\ Write(r, req[r].on, IF bank[req[r].on] = "none" THEN "NOT_FOUND" ELSE req[r].next)
    /\ Finish(r)
    /\ UNCHANGED <<reference, utr, bankVars, journal, calm, events>>

\* and saves what the bank says of a transfer that was not made.
SaveFound(r) ==
    /\ At(r, "found")
    /\ Write(r, req[r].on, req[r].next)
    /\ Finish(r)
    /\ UNCHANGED <<reference, utr, bankVars, journal, calm, events>>

\* markBatchSettled, by an admin who has a UTR from the bank, of this batch or, by
\* mistake, of another one,
Mark(r, b, u) ==
    /\ At(r, "idle") /\ Exists(b) /\ bank[u] = "success"
    /\ IF u = b THEN UNCHANGED events ELSE Event
    /\ Set(r, [Idle EXCEPT !.pc = "settle", !.on = b, !.utr = u])
    /\ Touch(b)
    /\ UNCHANGED <<batchVars, bankVars, journal>>

\* reads the batch, and refuses one that is paid or was never submitted,
Settle(r) ==
    /\ At(r, "settle")
    /\ LET b == req[r].on
       IN  IF status[b] \in {"PAID", "CALCULATED"}
           THEN Finish(r)
           ELSE Set(r, [Load(b, "paid") EXCEPT !.had = utr[b], !.utr = req[r].utr])
    /\ UNCHANGED <<batchVars, bankVars, journal, calm, events>>

\* A mutant of SavePaid: no unique index on the UTR
SavePaidTwice(r) ==
    /\ At(r, "paid")
    /\ Write(r, req[r].on, "PAID")
    /\ utr' = [utr EXCEPT ![req[r].on] = req[r].utr]
    /\ Goto(r, "journal")
    /\ UNCHANGED <<reference, bankVars, journal, calm, events>>

\* saves it as paid, unless another batch has the UTR,
SavePaid(r) ==
    /\ At(r, "paid")
    /\ LET b == req[r].on
       IN  IF req[r].utr # req[r].had /\ UtrTaken(b, req[r].utr)
           THEN Finish(r) /\ UNCHANGED <<status, utr>>
           ELSE /\ Write(r, b, "PAID")
                /\ utr' = [utr EXCEPT ![b] = IF req[r].utr # req[r].had THEN req[r].utr ELSE @]
                /\ Goto(r, "journal")
    /\ UNCHANGED <<reference, bankVars, journal, calm, events>>

\* and posts the journal of the batch, which the schema of the ledger refuses: the handler
\* ends with an error, its batch PAID, and is told nothing but that when it is tried again.
PostJournal(r) ==
    /\ At(r, "journal")
    /\ journal' = IF Accepts("SELLER_BATCH_SETTLEMENT", {"SELLER", "BANK"})
                  THEN journal \cup {req[r].on} ELSE journal
    /\ Finish(r)
    /\ UNCHANGED <<batchVars, bankVars, calm, events>>

-----------------------------------------------------------------------------
\* A store access fails, or the server crashes: the operation ends where it is.
Fail(r) ==
    /\ ~At(r, "idle") /\ Event
    /\ calm' = calm \ {req[r].on}
    /\ Finish(r)
    /\ UNCHANGED <<batchVars, bankVars, journal>>

Payout(r) == SaveReview(r) \/ SaveSubmitting(r) \/ Call(r) \/ SaveAnswer(r)
Inquiry(r) == Inquire(r) \/ SaveFound(r)
Settling(r) == Settle(r) \/ SavePaid(r) \/ PostJournal(r)

Start(r) ==
    \/ \E b \in Batches : Generate(r, b) \/ Execute(r, b) \/ Recover(r, b)
    \/ \E b \in Batches : \E u \in Batches : Mark(r, b, u)

Next ==
    \/ \E r \in Requests :
          Start(r) \/ Create(r) \/ Payout(r) \/ Inquiry(r) \/ Settling(r) \/ Fail(r)
    \/ \E b \in Batches : BankSettles(b)

Spec == Init /\ [][Next]_vars

-----------------------------------------------------------------------------
TypeOK ==
    /\ status \in [Batches -> BatchStatuses]
    /\ reference \in [Batches -> BOOLEAN]
    /\ utr \in [Batches -> Batches \cup {Nothing}]
    /\ bank \in [Batches -> {"none", "pending", "success", "failed"}]
    /\ transfers \in [Batches -> Nat]
    /\ journal \subseteq Batches
    /\ req \in [Requests -> Request]
    /\ calm \subseteq Batches
    /\ events \in Nat

\* At most one batch has no UTR yet. The same delivered orders are selected for every
\* batch of their seller, and this is all that keeps two batches with them from being
\* paid side by side: the next one begins when this one has its UTR.
OneOpenBatch ==
    \A b, c \in Batches :
        Exists(b) /\ Exists(c) /\ utr[b] = Nothing /\ utr[c] = Nothing => b = c

\* A payout that the bank has taken is not lost sight of: the batch is not put down as
\* failed, under review or not submitted while the bank has a transfer for it, made or
\* to be made, also after an ambiguous answer, when operations on it come one after the
\* other and it is not executed again before it is known what became of the first time.
PayoutStaysInSight ==
    \A b \in calm :
        ~InUse(b) /\ bank[b] \in {"pending", "success"} => Unsure(b) \/ status[b] = "PAID"

\* A paid batch stays paid, unless an operation had read it before it was.
PaidStays ==
    [][\A b \in calm : status[b] = "PAID" => status'[b] = "PAID"]_vars

\* Each batch is paid out at most once, and put down as paid only after the bank has paid
\* it, with overlapping operations, ambiguous answers, crashes, blind repetitions and the
\* UTR of another batch's transfer entered for it by mistake. Only a batch on which
\* operations overlapped may be put down as unpaid again.
Promise == INSTANCE PayoutPromise WITH
    paidOut <- transfers,
    closed <- {b \in Batches : status[b] = "PAID"},
    calm <- calm
KeepsPromise == Promise!Spec
=============================================================================
