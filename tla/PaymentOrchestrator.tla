------------------------ MODULE PaymentOrchestrator ------------------------
(***************************************************************************)
(* One payment intent and the requests that act on it: checkout attempts   *)
(* (PaymentOrchestratorService.submitPaymentAttempt), gateway webhooks     *)
(* (PaymentWebhookService.processWebhook) and status polls                 *)
(* (checkAndRecoverAttemptStatus), which all end in handleAttemptCapture   *)
(* or handleAttemptFailure.                                                *)
(*                                                                         *)
(* A request is a process of the Node server. Every await is a point where *)
(* another request may run, so each store or gateway access is a step.     *)
(* Mongoose's save() writes the fields that were set on the document in    *)
(* memory: the status check looks at the copy a handler has read, and the  *)
(* write replaces whatever the stored status has become since.             *)
(***************************************************************************)
EXTENDS Integers, FiniteSets, PaymentStatus

CONSTANTS
    Requests,        \* requests the server may be handling at the same time
    Providers,       \* gateways that PaymentRoutingService may choose
    Orders,          \* the orders of the checkout, one per seller
    Shares,          \* what the wallet may pay: some of "none", "part" and "full"
    NoIsFinal,       \* a gateway that declined or timed out never captures after all
    MaxAttempts,     \* bound: attempts made for the intent
    MaxCrashes,      \* bound: requests that die half-way
    MaxExpiries,     \* bound: locks that expire under a running request
    MaxLapses        \* bound: steps of the code at which a call fails and is caught

Attempts == 1 .. MaxAttempts
NoAttempt == 0
Free == "free"
Orphan == "orphan"
Wallet == "WALLET"

ASSUME OrchestratorAssumption ==
    /\ Shares \subseteq {"none", "part", "full"} /\ NoIsFinal \in BOOLEAN
    /\ {MaxAttempts, MaxCrashes, MaxExpiries, MaxLapses} \subseteq Nat /\ MaxAttempts > 0
    /\ {Free, Orphan} \cap Requests = {}
    /\ Wallet \notin Providers

VARIABLES
    share,         \* what the wallet pays: splitConfig of the PaymentIntent document
    intent,        \* status of the PaymentIntent document
    attempt,       \* status of each PaymentAttempt document, "NONE" before it exists
    provider,      \* the gateway an attempt is bound to
    referenced,    \* attempts whose providerReference has been saved
    gateway,       \* what has happened at the gateway, per attempt
    event,         \* status of the PaymentWebhookEvent of an attempt and an outcome
    reservation,   \* status of the wallet reservation of the intent
    journal,       \* attempts with a capture journal in the ledger
    orders,        \* payment status of each order
    reported,      \* how often each order was added to its seller's report
    outbox,        \* events enqueued: an attempt, an outcome and the order in the payload
    lock,          \* holder of attempt:intent:<id>
    req,           \* what each request is doing
    lapses,        \* the steps at which a wallet, ledger, report or outbox call has failed
    crashes, expiries

docVars == <<share, intent, attempt, provider, referenced>>
effectVars == <<reservation, journal, orders, reported, outbox>>
boundVars == <<lapses, crashes, expiries>>
vars == <<docVars, gateway, event, effectVars, lock, req, boundVars>>

Outcomes == {"CAPTURED", "FAILED"}
EventStatuses == {"NONE", "PROCESSING", "PROCESSED", "FAILED"}
GatewayFacts == {"opened", "declined", "captured"}
FactOf(outcome) == IF outcome = "CAPTURED" THEN "captured" ELSE "declined"

\* The locals of a request: its job, the attempt and the outcome it works on, the
\* statuses that its documents show, the provider, and the orders left to do.
Jobs == {"none", "submit", "webhook", "poll"}
Steps == {"idle", "locking", "reserve", "route", "count", "insert", "process", "call",
          "save", "match", "rail",
          "c_attempt_read", "c_intent_read", "c_attempt", "c_intent", "c_wallet", "c_ledger",
          "c_order_read", "c_order", "c_report", "c_outbox",
          "f_attempt_read", "f_intent_read", "f_attempt", "f_intent", "f_release", "f_outbox",
          "processed", "failed", "unlock"}

AttemptIds == Attempts \cup {NoAttempt}
Answers == Outcomes \cup {"none"}
AttemptDocs == AttemptStatuses \cup {"NONE"}
IntentDocs == IntentStatuses \cup {"NONE"}
Bindings == Providers \cup {Wallet, "none"}

Request ==
    [pc: Steps, job: Jobs, att: AttemptIds, outcome: Answers, eventDoc: EventStatuses,
     attDoc: AttemptDocs, intentDoc: IntentDocs, prov: Bindings, todo: SUBSET Orders]

Idle == [pc |-> "idle", job |-> "none", att |-> NoAttempt, outcome |-> "none",
         eventDoc |-> "NONE", attDoc |-> "NONE", intentDoc |-> "NONE", prov |-> "none", todo |-> {}]

Init ==
    /\ share \in Shares
    /\ intent = "CREATED"
    /\ attempt = [a \in Attempts |-> "NONE"]
    /\ provider = [a \in Attempts |-> "none"]
    /\ referenced = {}
    /\ gateway = [a \in Attempts |-> {}]
    /\ event = [e \in Attempts \X Outcomes |-> "NONE"]
    \* initializeCheckout has reserved the wallet's share
    /\ reservation = IF share = "none" THEN "NONE" ELSE "RESERVED"
    /\ journal = {} /\ outbox = {}
    /\ orders = [o \in Orders |-> "PENDING"]
    /\ reported = [o \in Orders |-> 0]
    /\ lock = Free
    /\ req = [r \in Requests |-> Idle]
    /\ lapses = {} /\ crashes = 0 /\ expiries = 0

-----------------------------------------------------------------------------
At(r, step) == req[r].pc = step
Set(r, locals) == req' = [req EXCEPT ![r] = locals]
Goto(r, step) == Set(r, [req[r] EXCEPT !.pc = step])
Finish(r) == Set(r, Idle)

\* Where a handler goes when it returns, and when one of its awaits throws:
\* submitPaymentAttempt releases its lock either way, processWebhook marks its
\* event, and checkAndRecoverAttemptStatus catches the error.
Return(r) ==
    CASE req[r].job = "submit" -> Goto(r, "unlock")
      [] req[r].job = "webhook" -> Goto(r, "processed")
      [] OTHER -> Finish(r)
Throw(r) ==
    CASE req[r].job = "submit" -> Goto(r, "unlock")
      [] req[r].job = "webhook" -> Goto(r, "failed")
      [] OTHER -> Finish(r)

Capturing(r, a) == [req[r] EXCEPT !.pc = "c_attempt_read", !.att = a]
Failing(r, a) == [req[r] EXCEPT !.pc = "f_attempt_read", !.att = a]

\* A call that fails and whose error the caller catches: the wallet is locked by another
\* request, or the store does not answer.
Lapse(r) ==
    /\ Cardinality(lapses \cup {req[r].pc}) <= MaxLapses
    /\ lapses' = lapses \cup {req[r].pc}

InFlight == {a \in Attempts : attempt[a] = "INITIATED"}

\* The controller takes attempt:intent:<id> before the service reads the intent;
\* the service's own lock intent:<id> has the same length and the same holder.
\* A request that finds the lock taken answers 409 and changes nothing.
Submit(r) ==
    /\ At(r, "idle") /\ lock = Free
    /\ \E a \in Attempts : attempt[a] = "NONE"
    /\ lock' = r
    /\ Set(r, [Idle EXCEPT !.pc = "locking", !.job = "submit"])
    /\ UNCHANGED <<docVars, gateway, event, effectVars, boundVars>>

\* getIntentById: the copy that the SUCCEEDED check and the transition to
\* PROCESSING will look at.
ReadIntent(r) ==
    /\ At(r, "locking")
    /\ IF intent = "SUCCEEDED"
       THEN Goto(r, "unlock")
       ELSE Set(r, [req[r] EXCEPT !.intentDoc = intent,
                        !.pc = IF share = "none" THEN "route" ELSE "reserve"])
    /\ UNCHANGED <<docVars, gateway, event, effectVars, lock, boundVars>>

AfterReserve == IF share = "full" THEN "count" ELSE "route"

\* reserveFunds is idempotent on RESERVED and throws on COMMITTED; after a
\* RELEASE it may find that another checkout has spent the balance.
Reserve(r) ==
    /\ At(r, "reserve")
    /\ \/ /\ reservation \in {"RESERVED", "RELEASED"}
          /\ reservation' = "RESERVED"
          /\ Set(r, [req[r] EXCEPT !.pc = AfterReserve,
                         !.prov = IF share = "full" THEN Wallet ELSE "none"])
          /\ UNCHANGED lapses
       \/ /\ reservation \in {"COMMITTED", "RELEASED"}
          /\ Throw(r) /\ UNCHANGED <<reservation, lapses>>
       \/ /\ Lapse(r) /\ Throw(r) /\ UNCHANGED reservation
    /\ UNCHANGED <<docVars, gateway, event, journal, orders, reported, outbox, lock,
                   crashes, expiries>>

\* A mutant of Route: no look at the attempts in flight
RouteUnguarded(r) ==
    /\ At(r, "route")
    /\ \E p \in Providers : Set(r, [req[r] EXCEPT !.pc = "count", !.prov = p])
    /\ UNCHANGED <<docVars, gateway, event, effectVars, lock, boundVars>>

\* The failover guard: attempts in flight with another provider are polled. What
\* the poll returns ("SUCCESS", or the stale document's status) never matches
\* what the caller compares it with, so the request ends with
\* FAILOVER_BLOCKED_UNCONFIRMED_ATTEMPT after the first one,
\* whichever find(), which sorts nothing, puts first.
Route(r) ==
    /\ At(r, "route")
    /\ \E p \in Providers :
          LET others == {a \in InFlight : provider[a] # p}
          IN  \/ others = {} /\ Set(r, [req[r] EXCEPT !.pc = "count", !.prov = p])
              \/ \E a \in others : Set(r, [req[r] EXCEPT !.pc = "rail", !.att = a])
    /\ UNCHANGED <<docVars, gateway, event, effectVars, lock, boundVars>>

\* createAttempt: countDocuments + 1, then an insert under a unique index
Count(r) ==
    /\ At(r, "count")
    /\ LET n == Cardinality({a \in Attempts : attempt[a] # "NONE"}) + 1
       IN  IF n \in Attempts
           THEN Set(r, [req[r] EXCEPT !.pc = "insert", !.att = n])
           ELSE Throw(r)
    /\ UNCHANGED <<docVars, gateway, event, effectVars, lock, boundVars>>

Insert(r) ==
    /\ At(r, "insert")
    /\ LET a == req[r].att
       IN  IF attempt[a] # "NONE"
           THEN Throw(r) /\ UNCHANGED docVars
           ELSE /\ attempt' = [attempt EXCEPT ![a] = "INITIATED"]
                /\ provider' = [provider EXCEPT ![a] = req[r].prov]
                /\ Set(r, IF share = "full" THEN Capturing(r, a)
                           ELSE [req[r] EXCEPT !.pc = "process", !.prov = "none"])
                /\ UNCHANGED <<share, intent, referenced>>
    /\ UNCHANGED <<gateway, event, effectVars, lock, boundVars>>

\* PaymentIntentService.transitionStatus on the copy in memory
SetIntent(r, to, next) ==
    IF ~IntentMayBecome(req[r].intentDoc, to)
    THEN Throw(r) /\ UNCHANGED intent
    ELSE /\ intent' = IF req[r].intentDoc = to THEN intent ELSE to
         /\ Set(r, [req[r] EXCEPT !.pc = next, !.intentDoc = "NONE"])

\* PaymentAttemptService.transitionStatus on the copy in memory
SetAttempt(r, to, next) ==
    IF ~AttemptMayBecome(req[r].attDoc, to)
    THEN Throw(r) /\ UNCHANGED attempt
    ELSE /\ attempt' = IF req[r].attDoc = to THEN attempt ELSE [attempt EXCEPT ![req[r].att] = to]
         /\ Set(r, [req[r] EXCEPT !.pc = next, !.attDoc = "NONE"])

Process(r) ==
    /\ At(r, "process")
    /\ SetIntent(r, "PROCESSING", "call")
    /\ UNCHANGED <<share, attempt, provider, referenced, gateway, event, effectVars, lock, boundVars>>

\* What adapter.createIntent may come to, and what the gateway has done by then: it
\* opens the payment, captures it or declines it at once. TIMED_OUT is handled as
\* FAILED, although the payment may have been opened (unless NoIsFinal). The call
\* may also throw, before or after the gateway acted.
Replies ==
    {[facts |-> {"opened"}, answer |-> "none"],
     [facts |-> {"opened", "captured"}, answer |-> "CAPTURED"],
     [facts |-> {"opened", "declined"}, answer |-> "FAILED"],
     [facts |-> IF NoIsFinal THEN {} ELSE {"opened"}, answer |-> "FAILED"],
     [facts |-> {}, answer |-> "error"],
     [facts |-> {"opened"}, answer |-> "error"]}

Call(r) ==
    /\ At(r, "call")
    /\ \E reply \in Replies :
          /\ gateway' = [gateway EXCEPT ![req[r].att] = reply.facts]
          /\ IF reply.answer = "error"
             THEN Throw(r)
             ELSE Set(r, [req[r] EXCEPT !.pc = "save", !.outcome = reply.answer])
    /\ UNCHANGED <<docVars, event, effectVars, lock, boundVars>>

\* attempt.save() stores the provider's reference, then the answer is handled.
Save(r) ==
    /\ At(r, "save")
    /\ LET a == req[r].att
       IN  /\ referenced' = referenced \cup {a}
           /\ CASE req[r].outcome = "CAPTURED" -> Set(r, Capturing(r, a))
                [] req[r].outcome = "FAILED" -> Set(r, Failing(r, a))
                [] OTHER -> Goto(r, "unlock")
    /\ UNCHANGED <<share, intent, attempt, provider, gateway, event, effectVars, lock, boundVars>>

Unlock(r) ==
    /\ At(r, "unlock")
    /\ lock' = IF lock = r THEN Free ELSE lock
    /\ Finish(r)
    /\ UNCHANGED <<docVars, gateway, event, effectVars, boundVars>>

-----------------------------------------------------------------------------
\* A mutant of Deliver: an event that was recorded is a duplicate, processed or not
DeliverOnce(r, a, outcome) ==
    /\ At(r, "idle")
    /\ FactOf(outcome) \in gateway[a] /\ event[<<a, outcome>>] = "NONE"
    /\ event' = [event EXCEPT ![<<a, outcome>>] = "PROCESSING"]
    /\ Set(r, [Idle EXCEPT !.pc = "match", !.job = "webhook", !.att = a, !.outcome = outcome,
                   !.eventDoc = "PROCESSING"])
    /\ UNCHANGED <<docVars, gateway, effectVars, lock, boundVars>>

\* processWebhook: the event is recorded, or found unprocessed on a redelivery.
\* A PROCESSED event is answered as a duplicate and changes nothing. The lock
\* webhook:<provider>:<event> is requested, but the answer is not looked at.
Deliver(r, a, outcome) ==
    /\ At(r, "idle")
    /\ FactOf(outcome) \in gateway[a] /\ event[<<a, outcome>>] # "PROCESSED"
    /\ event' = [event EXCEPT ![<<a, outcome>>] = IF @ = "NONE" THEN "PROCESSING" ELSE @]
    /\ Set(r, [Idle EXCEPT !.pc = "match", !.job = "webhook", !.att = a, !.outcome = outcome,
                   !.eventDoc = event'[<<a, outcome>>]])
    /\ UNCHANGED <<docVars, gateway, effectVars, lock, boundVars>>

\* A mutant of Match: the outcome of the event is not looked at
MatchAsCapture(r) ==
    /\ At(r, "match")
    /\ IF req[r].att \notin referenced THEN Throw(r) ELSE Set(r, Capturing(r, req[r].att))
    /\ UNCHANGED <<docVars, gateway, event, effectVars, lock, boundVars>>

\* The attempt is found by its reference. A captured attempt is left alone.
Match(r) ==
    /\ At(r, "match")
    /\ LET a == req[r].att
       IN  CASE a \notin referenced -> Throw(r)
             [] a \in referenced /\ attempt[a] = "CAPTURED" -> Return(r)
             [] OTHER -> Set(r, IF req[r].outcome = "CAPTURED" THEN Capturing(r, a)
                                                               ELSE Failing(r, a))
    /\ UNCHANGED <<docVars, gateway, event, effectVars, lock, boundVars>>

\* A mutant of CloseEvent: the catch block closes the event like the try block
CloseAsProcessed(r) ==
    /\ At(r, "processed") \/ At(r, "failed")
    /\ event' = [event EXCEPT ![<<req[r].att, req[r].outcome>>] = "PROCESSED"]
    /\ Finish(r)
    /\ UNCHANGED <<docVars, gateway, effectVars, lock, boundVars>>

\* save() writes a status only if it differs from the one that was read.
CloseEvent(r) ==
    /\ At(r, "processed") \/ At(r, "failed")
    /\ LET status == IF At(r, "processed") THEN "PROCESSED" ELSE "FAILED"
       IN  event' = [event EXCEPT ![<<req[r].att, req[r].outcome>>] =
                        IF req[r].eventDoc = status THEN @ ELSE status]
    /\ Finish(r)
    /\ UNCHANGED <<docVars, gateway, effectVars, lock, boundVars>>

\* getAttemptStatus and handleLegacyVerification
Poll(r, a) ==
    /\ At(r, "idle") /\ attempt[a] = "INITIATED"
    /\ Set(r, [Idle EXCEPT !.pc = "rail", !.job = "poll", !.att = a])
    /\ UNCHANGED <<docVars, gateway, event, effectVars, lock, boundVars>>

\* adapter.getStatus: without a reference the adapter answers with the attempt's
\* own status; it may also answer PENDING, or fail, and then nothing happens.
Rail(r) ==
    /\ At(r, "rail")
    /\ LET a == req[r].att
           answered == a \in referenced
       IN  \/ Return(r)
           \/ answered /\ "captured" \in gateway[a] /\ Set(r, Capturing(r, a))
           \/ /\ answered /\ "declined" \in gateway[a] /\ "captured" \notin gateway[a]
              /\ Set(r, Failing(r, a))
    /\ UNCHANGED <<docVars, gateway, event, effectVars, lock, boundVars>>

-----------------------------------------------------------------------------
\* Both handlers read the attempt and then the intent.
ReadAttempt(r) ==
    /\ At(r, "c_attempt_read") \/ At(r, "f_attempt_read")
    /\ Set(r, [req[r] EXCEPT !.attDoc = attempt[req[r].att],
                   !.pc = IF At(r, "c_attempt_read") THEN "c_intent_read" ELSE "f_intent_read"])
    /\ UNCHANGED <<docVars, gateway, event, effectVars, lock, boundVars>>

RereadIntent(r) ==
    /\ At(r, "c_intent_read") \/ At(r, "f_intent_read")
    /\ Set(r, [req[r] EXCEPT !.intentDoc = intent,
                   !.pc = IF At(r, "c_intent_read") THEN "c_attempt" ELSE "f_attempt"])
    /\ UNCHANGED <<docVars, gateway, event, effectVars, lock, boundVars>>

SaveAttempt(r) ==
    /\ \/ At(r, "c_attempt") /\ SetAttempt(r, "CAPTURED", "c_intent")
       \/ At(r, "f_attempt") /\ SetAttempt(r, "FAILED", "f_intent")
    /\ UNCHANGED <<share, intent, provider, referenced, gateway, event, effectVars, lock, boundVars>>

SaveIntent(r) ==
    /\ \/ At(r, "c_intent") /\ SetIntent(r, "SUCCEEDED", "c_wallet")
       \/ At(r, "f_intent") /\ SetIntent(r, "REQUIRES_PAYMENT_METHOD", "f_release")
    /\ UNCHANGED <<share, attempt, provider, referenced, gateway, event, effectVars, lock, boundVars>>

\* commitDebit and releaseReservation. A wallet that is locked, and a reservation
\* that has gone the other way, are errors which the handler logs and ignores.
WalletStep(r) ==
    /\ At(r, "c_wallet") \/ At(r, "f_release")
    /\ LET capture == At(r, "c_wallet")
       IN  /\ \/ /\ reservation' = IF reservation = "RESERVED"
                                   THEN IF capture THEN "COMMITTED" ELSE "RELEASED"
                                   ELSE reservation
                 /\ UNCHANGED lapses
              \/ share # "none" /\ Lapse(r) /\ UNCHANGED reservation
           /\ Goto(r, IF capture THEN "c_ledger" ELSE "f_outbox")
    /\ UNCHANGED <<docVars, gateway, event, journal, orders, reported, outbox, lock,
                   crashes, expiries>>

\* A mutant of PostCapture: a checkout has one order
PostCaptureOneOrder(r) ==
    /\ At(r, "c_ledger")
    /\ journal' = journal \cup {req[r].att}
    /\ Set(r, [req[r] EXCEPT !.pc = "c_order_read", !.todo = {CHOOSE o \in Orders : TRUE}])
    /\ UNCHANGED <<docVars, gateway, event, reservation, orders, reported, outbox, lock, boundVars>>

\* postJournal under the key led_cap_<attempt>; its error is logged, and the handler goes on
PostCapture(r) ==
    /\ At(r, "c_ledger")
    /\ \/ journal' = journal \cup {req[r].att} /\ UNCHANGED lapses
       \/ Lapse(r) /\ UNCHANGED journal
    /\ Set(r, [req[r] EXCEPT !.pc = "c_order_read", !.todo = Orders])
    /\ UNCHANGED <<docVars, gateway, event, reservation, orders, reported, outbox, lock,
                   crashes, expiries>>

\* The orders of the intent, one after the other; a captured one is skipped.
ReadOrder(r) ==
    /\ At(r, "c_order_read")
    /\ IF req[r].todo = {}
       THEN Return(r)
       ELSE LET o == CHOOSE x \in req[r].todo : TRUE
            IN  IF orders[o] = "CAPTURED"
                THEN Set(r, [req[r] EXCEPT !.todo = @ \ {o}])
                ELSE Goto(r, "c_order")
    /\ UNCHANGED <<docVars, gateway, event, effectVars, lock, boundVars>>

Current(r) == CHOOSE x \in req[r].todo : TRUE

\* A mutant of SaveOrder: paymentStatus and orderStatus are mixed up
SaveOrderStatus(r) ==
    /\ At(r, "c_order")
    /\ orders' = [orders EXCEPT ![Current(r)] = "CONFIRMED"]
    /\ Goto(r, "c_report")
    /\ UNCHANGED <<docVars, gateway, event, reservation, journal, reported, outbox, lock, boundVars>>

SaveOrder(r) ==
    /\ At(r, "c_order")
    /\ orders' = [orders EXCEPT ![Current(r)] = "CAPTURED"]
    /\ Goto(r, "c_report")
    /\ UNCHANGED <<docVars, gateway, event, reservation, journal, reported, outbox, lock, boundVars>>

\* A mutant of Report: the loop goes on without the outbox
ReportAndSkip(r) ==
    /\ At(r, "c_report")
    /\ reported' = [reported EXCEPT ![Current(r)] = @ + 1]
    /\ Set(r, [req[r] EXCEPT !.pc = "c_order_read", !.todo = @ \ {Current(r)}])
    /\ UNCHANGED <<docVars, gateway, event, reservation, journal, orders, outbox, lock, boundVars>>

\* The transaction log and the seller's report
Report(r) ==
    /\ At(r, "c_report")
    /\ \/ reported' = [reported EXCEPT ![Current(r)] = @ + 1] /\ UNCHANGED lapses
       \/ Lapse(r) /\ UNCHANGED reported
    /\ Goto(r, "c_outbox")
    /\ UNCHANGED <<docVars, gateway, event, reservation, journal, orders, outbox, lock,
                   crashes, expiries>>

\* enqueueEvent under the key outbox_captured_<attempt> or outbox_failed_<attempt>:
\* a second order of the same attempt finds the key of the first one.
Enqueued(a, outcome) == \E o \in Orders \cup {"none"} : <<a, outcome, o>> \in outbox
EnqueueOnce(r, outcome, o) ==
    \/ /\ outbox' = IF Enqueued(req[r].att, outcome)
                    THEN outbox
                    ELSE outbox \cup {<<req[r].att, outcome, o>>}
       /\ UNCHANGED lapses
    \/ Lapse(r) /\ UNCHANGED outbox

Enqueue(r) ==
    /\ \/ /\ At(r, "c_outbox")
          /\ EnqueueOnce(r, "CAPTURED", Current(r))
          /\ Set(r, [req[r] EXCEPT !.pc = "c_order_read", !.todo = @ \ {Current(r)}])
       \/ /\ At(r, "f_outbox")
          /\ EnqueueOnce(r, "FAILED", "none")
          /\ Return(r)
    /\ UNCHANGED <<docVars, gateway, event, reservation, journal, orders, reported, lock,
                   crashes, expiries>>

-----------------------------------------------------------------------------
\* The customer pays, or is declined, on the gateway's page.
GatewayCaptures(a) ==
    /\ "opened" \in gateway[a] /\ "captured" \notin gateway[a]
    /\ NoIsFinal => "declined" \notin gateway[a]
    /\ gateway' = [gateway EXCEPT ![a] = @ \cup {"captured"}]
    /\ UNCHANGED <<docVars, event, effectVars, lock, req, boundVars>>

GatewayDeclines(a) ==
    /\ gateway[a] = {"opened"}
    /\ gateway' = [gateway EXCEPT ![a] = @ \cup {"declined"}]
    /\ UNCHANGED <<docVars, event, effectVars, lock, req, boundVars>>

Crash(r) ==
    /\ ~At(r, "idle") /\ crashes < MaxCrashes
    /\ crashes' = crashes + 1
    /\ lock' = IF lock = r THEN Orphan ELSE lock
    /\ Finish(r)
    /\ UNCHANGED <<docVars, gateway, event, effectVars, lapses, expiries>>

Reclaim ==
    /\ lock = Orphan /\ lock' = Free
    /\ UNCHANGED <<docVars, gateway, event, effectVars, req, boundVars>>

Expire ==
    /\ lock \in Requests /\ expiries < MaxExpiries
    /\ lock' = Free /\ expiries' = expiries + 1
    /\ UNCHANGED <<docVars, gateway, event, effectVars, req, lapses, crashes>>

Submission(r) ==
    \/ ReadIntent(r) \/ Reserve(r) \/ Route(r) \/ Count(r) \/ Insert(r)
    \/ Process(r) \/ Call(r) \/ Save(r) \/ Unlock(r)
Handler(r) ==
    \/ ReadAttempt(r) \/ RereadIntent(r) \/ SaveAttempt(r) \/ SaveIntent(r) \/ WalletStep(r)
    \/ PostCapture(r) \/ ReadOrder(r) \/ SaveOrder(r) \/ Report(r) \/ Enqueue(r)
Advance(r) == Submission(r) \/ Match(r) \/ CloseEvent(r) \/ Rail(r) \/ Handler(r)

Start(r) ==
    \/ Submit(r)
    \/ \E a \in Attempts : Poll(r, a) \/ \E outcome \in Outcomes : Deliver(r, a, outcome)

Next ==
    \/ \E r \in Requests : Start(r) \/ Advance(r) \/ Crash(r)
    \/ \E a \in Attempts : GatewayCaptures(a) \/ GatewayDeclines(a)
    \/ Reclaim \/ Expire

Spec == Init /\ [][Next]_vars

\* A handler is resumed when its store or gateway answers, and a gateway sends the
\* event of a capture again until it gets a 2xx, which only a PROCESSED event gives.
\* The strong fairness stands for that: Requests bounds what the model runs at a
\* time, the server refuses no delivery for being busy with polls.
Fairness ==
    /\ \A r \in Requests : WF_vars(Advance(r))
    /\ \A a \in Attempts : SF_vars(\E r \in Requests : Deliver(r, a, "CAPTURED"))
FairSpec == Spec /\ Fairness

-----------------------------------------------------------------------------
TypeOK ==
    /\ share \in Shares
    /\ intent \in IntentStatuses
    /\ attempt \in [Attempts -> AttemptDocs]
    /\ provider \in [Attempts -> Bindings]
    /\ referenced \subseteq Attempts
    /\ gateway \in [Attempts -> SUBSET GatewayFacts]
    /\ event \in [Attempts \X Outcomes -> EventStatuses]
    /\ reservation \in {"NONE", "RESERVED", "COMMITTED", "RELEASED"}
    /\ journal \subseteq Attempts /\ outbox \subseteq Attempts \X Outcomes \X (Orders \cup {"none"})
    /\ orders \in [Orders -> {"PENDING", "CAPTURED"}]
    /\ reported \in [Orders -> Nat]
    /\ lock \in Requests \cup {Free, Orphan}
    /\ req \in [Requests -> Request]
    /\ lapses \subseteq Steps /\ crashes \in Nat /\ expiries \in Nat

-----------------------------------------------------------------------------
Idling == \A r \in Requests : At(r, "idle")
PaidAt(a) == "captured" \in gateway[a]
Confirmed(o) == orders[o] = "CAPTURED"
\* A capture's journal was not written, and the handler went on.
Slipped == "c_ledger" \in lapses

\* No order is confirmed, and no wallet money is taken, on anything but a capture
\* that a gateway has made, in whatever order answers, webhooks and polls arrive:
\* the confirmed order has its capture journal, unless the ledger did not answer,
\* and the journal its money.
ConfirmedMeansPaid ==
    /\ \A a \in journal : PaidAt(a)
    /\ (\E o \in Orders : Confirmed(o))
           => (\E a \in Attempts : PaidAt(a)) /\ (journal # {} \/ Slipped)
    /\ reservation = "COMMITTED" => \E a \in Attempts : PaidAt(a)

\* "Guard against failover double-charging": the attempts that are in flight are
\* all bound to one gateway, as long as the submission lock outlives its holder.
OneLiveProvider ==
    expiries = 0 => \A a, b \in InFlight : provider[a] = provider[b]

\* The customer of a confirmed order is told: the event that makes the e-mail is
\* in the outbox once nobody is between saving the order and enqueueing it.
ConfirmedIsAnnounced ==
    \A o \in Orders :
        crashes = 0 /\ "c_outbox" \notin lapses /\ Confirmed(o)
            => \/ \E a \in Attempts : Enqueued(a, "CAPTURED")
               \/ \E r \in Requests : req[r].pc \in {"c_report", "c_outbox"}

\* An intent that is SUCCEEDED is never ahead of its orders: every order is confirmed, the
\* ledger has a capture and the customer is told, unless a request dies half-way or the
\* very call that writes the journal or the event fails.
SucceededIsReconciled ==
    crashes = 0 /\ Idling /\ intent = "SUCCEEDED"
        => /\ \A o \in Orders : Confirmed(o)
           /\ journal # {} \/ Slipped
           /\ Orders # {} => "c_outbox" \in lapses \/ \E a \in Attempts : Enqueued(a, "CAPTURED")

\* The first attempt's capture, delivered any number of times and mixed with polls,
\* leaves everything reconciled once the gateway's event counts as processed: no
\* second attempt, no crash, no gateway that says no and captures after all.
LoneCaptureReconciled ==
    /\ crashes = 0 /\ NoIsFinal /\ share # "full" /\ Idling
    /\ \A a \in Attempts : a # 1 => attempt[a] = "NONE"
    /\ event[<<1, "CAPTURED">>] = "PROCESSED"
    => /\ intent = "SUCCEEDED" /\ attempt[1] = "CAPTURED"
       /\ \A o \in Orders : Confirmed(o)
       /\ "c_wallet" \notin lapses /\ share = "part" => reservation = "COMMITTED"

\* What the customer has paid for, is delivered to the orders in the end: a capture
\* of an attempt whose reference is stored confirms every order of the checkout,
\* if no request dies and the checkout needs one attempt only.
CaptureConfirms ==
    \A o \in Orders :
        (MaxAttempts = 1 /\ NoIsFinal /\ 1 \in referenced /\ PaidAt(1))
            ~> (Confirmed(o) \/ crashes > 0)

Promise == INSTANCE PaymentPromise WITH
    paid <- {a \in Attempts : PaidAt(a)},
    inLedger <- journal,
    slipped <- Slipped,
    confirmed <- {o \in Orders : Confirmed(o)},
    hold <- reservation,
    told <- {t \in Attempts \X Orders : <<t[1], "CAPTURED", t[2]>> \in outbox}

\* Money before books before goods before mail: however answers, webhooks, polls, retries
\* and crashes interleave, nothing of it happens before its cause, twice, or is undone.
KeepsPromise == Promise!Spec

-----------------------------------------------------------------------------
\* The four properties below are what the source says and the code does not do.

\* Provider Failover Double-Charge Prevention: no two gateways take the customer's
\* money for one intent.
NoFailoverDoubleCharge ==
    expiries = 0 => \A a, b \in Attempts : PaidAt(a) /\ PaidAt(b) => provider[a] = provider[b]

\* "Never regress an already CAPTURED payment": a FAILED event that arrives out of
\* order does not overwrite a capture.
FailedEventKeepsCapture ==
    [][\A r \in Requests :
          LET a == req[r].att
          IN  req[r].job = "webhook" /\ At(r, "f_attempt") /\ req'[r] # req[r]
                 => (attempt[a] = "CAPTURED" => attempt'[a] = "CAPTURED")]_vars

\* Idempotent reconciliation: the gateway is told to stop sending a capture
\* only when the orders are confirmed, also when an earlier attempt was declined.
ProcessedMeansConfirmed ==
    crashes = 0 /\ NoIsFinal /\ share # "full" /\ Idling
        => \A a \in Attempts : event[<<a, "CAPTURED">>] = "PROCESSED"
              => \A o \in Orders : Confirmed(o)

\* "Commits wallet debits, updates orders": a capture of a payment that the wallet
\* makes alone has taken its money and confirmed every order.
WalletPaysOrders ==
    crashes = 0 /\ lapses = {} /\ share = "full" /\ Idling
        => \A a \in Attempts : attempt[a] = "CAPTURED"
              => reservation = "COMMITTED" /\ \A o \in Orders : Confirmed(o)
=============================================================================
