--------------------------- MODULE PaymentProofs ---------------------------
(***************************************************************************)
(* Safety of PaymentOrchestrator for any number of requests, gateways,     *)
(* orders and attempts, any share of the wallet, and any number of crashes,*)
(* expired locks, and calls of the wallet, the ledger or the outbox that   *)
(* fail.                                                                   *)
(*                                                                         *)
(* ConfirmedMeansPaid is not inductive: a handler that is about to post or *)
(* to confirm must know that its attempt is paid. Sound says what a        *)
(* request knows at each step, and WalletAlone why the one path into the   *)
(* capture handler without a gateway, a payment from the wallet alone,     *)
(* never gets past the intent.                                             *)
(***************************************************************************)
EXTENDS PaymentOrchestrator, TLAPS

Submitting == {"locking", "reserve", "route", "count", "insert", "process", "call", "save"}
Opening == {"process", "call"}
OrderSteps == {"c_order_read", "c_order", "c_report", "c_outbox"}
CaptureSteps == OrderSteps \cup
    {"c_attempt_read", "c_intent_read", "c_attempt", "c_intent", "c_wallet", "c_ledger"}
FailureSteps ==
    {"f_attempt_read", "f_intent_read", "f_attempt", "f_intent", "f_release", "f_outbox"}
Attached == CaptureSteps \cup FailureSteps \cup Opening \cup
    {"insert", "save", "match", "rail", "processed", "failed"}

\* The steps a request may reach when the wallet pays everything
WalletOnly == {"idle", "locking", "reserve", "count", "insert", "rail", "unlock",
               "c_attempt_read", "c_intent_read", "c_attempt", "c_intent"}

\* What the request with the locals q knows at its step
Sound(q) ==
    /\ q.pc \in Submitting => q.job = "submit"
    /\ q.pc \in Attached \/ q.job = "webhook" => q.att \in Attempts
    /\ q.pc \in {"c_order", "c_report", "c_outbox"} => q.todo # {}
    /\ q.pc \in OrderSteps => q.att \in journal \/ Slipped
    /\ q.pc \in Opening => attempt[q.att] # "NONE" /\ gateway[q.att] = {}
    /\ q.pc \in CaptureSteps => share = "full" \/ PaidAt(q.att)
    /\ q.pc \in {"save", "match"} /\ q.outcome = "CAPTURED" => PaidAt(q.att)
    /\ share = "full" => /\ q.pc \in WalletOnly /\ q.job # "webhook"
                         /\ q.intentDoc \in {"NONE", "CREATED"}

\* No two requests open the same attempt at its gateway.
Apart ==
    \A r, s \in Requests :
        r # s /\ req[r].pc \in Opening /\ req[s].pc \in Opening => req[r].att # req[s].att

\* An attempt that does not exist is unknown to every gateway.
Unopened == \A a \in Attempts : attempt[a] = "NONE" => gateway[a] = {}

WalletAlone ==
    share = "full" => /\ intent = "CREATED" /\ referenced = {} /\ journal = {}
                      /\ \A a \in Attempts : gateway[a] = {}

IInv ==
    /\ TypeOK /\ ConfirmedMeansPaid
    /\ \A r \in Requests : Sound(req[r])
    /\ Apart /\ Unopened /\ WalletAlone

\* While no lock has expired, a submission holds the lock, and one that is about to
\* make an attempt has a provider that the attempts in flight share.
Routed ==
    /\ share = "full" => \A a \in InFlight : provider[a] = Wallet
    /\ \A r \in Requests : share = "full" /\ req[r].pc \in {"count", "insert"} => req[r].prov = Wallet
    /\ expiries = 0 =>
        /\ \A r \in Requests : req[r].job = "submit" => lock = r
        /\ \A r \in Requests : req[r].pc \in {"count", "insert"}
              => \A a \in InFlight : provider[a] = req[r].prov

RInv == IInv /\ Routed /\ OneLiveProvider

-----------------------------------------------------------------------------
(* How a step changes the locals of its request.                           *)

USE DEF Submitting, Opening, OrderSteps, CaptureSteps, FailureSteps, Attached, WalletOnly

\* A step of r leaves the locals of the other requests alone.
Moves(r) == req' = [req EXCEPT ![r] = req'[r]]

\* A request that does not move knows what it knew, if payments, journals and attempts
\* are only added and no gateway acts on an attempt that it is about to open.
LEMMA StillKnows ==
    ASSUME IInv, NEW s \in Requests, req'[s] = req[s],
           share' = share, journal \subseteq journal', lapses \subseteq lapses',
           \A a \in Attempts : PaidAt(a) => PaidAt(a)',
           \A a \in Attempts : attempt[a] # "NONE" => attempt'[a] # "NONE",
           req[s].pc \in Opening => gateway'[req[s].att] = gateway[req[s].att]
    PROVE  Sound(req[s])'
<1>1. Sound(req[s])
  BY DEF IInv
<1>2. req[s].pc \in {"save", "match"} \cup CaptureSteps \cup Opening => req[s].att \in Attempts
  BY <1>1 DEF Sound
<1> QED BY <1>1, <1>2 DEF Sound, Slipped

\* A step of the request r keeps the invariant if what it adds to the shared state
\* does, and if its own locals are sound and open no attempt that another opens.
LEMMA Keeps ==
    ASSUME IInv, NEW r \in Requests, Moves(r),
           share' = share, journal \subseteq journal', lapses \subseteq lapses',
           \A a \in Attempts : PaidAt(a) => PaidAt(a)',
           \A a \in Attempts : attempt[a] # "NONE" => attempt'[a] # "NONE",
           \A s \in Requests \ {r} :
              req[s].pc \in Opening => gateway'[req[s].att] = gateway[req[s].att],
           req'[r].pc \in Opening =>
              \A s \in Requests \ {r} : req[s].pc \in Opening => req[s].att # req'[r].att,
           TypeOK', Sound(req[r])', ConfirmedMeansPaid', Unopened', WalletAlone'
    PROVE  IInv'
<1>1. \A s \in Requests \ {r} : req'[s] = req[s] /\ Sound(req[s])'
  <2> TAKE s \in Requests \ {r}
  <2>1. req'[s] = req[s]
    BY DEF Moves, IInv, TypeOK
  <2> QED BY <2>1, StillKnows
<1>2. \A s \in Requests : Sound(req[s])'
  BY <1>1
<1>3. Apart'
  BY <1>1 DEF Apart, IInv
<1> QED BY <1>2, <1>3 DEF IInv

Ledgers == <<share, intent, attempt, referenced, gateway, journal, orders>>

\* The same for a step that leaves documents, gateways, journals and orders alone
LEMMA KeepsLocal ==
    ASSUME IInv, NEW r \in Requests, Moves(r), UNCHANGED Ledgers, lapses \subseteq lapses',
           reservation' = "COMMITTED" => reservation = "COMMITTED" \/ \E a \in Attempts : PaidAt(a),
           req'[r].pc \notin Opening, TypeOK', Sound(req[r])'
    PROVE  IInv'
<1> USE DEF Ledgers
<1>1. \A a \in Attempts : PaidAt(a)' = PaidAt(a)
  BY DEF PaidAt
<1>2. \A o \in Orders : Confirmed(o)' = Confirmed(o)
  BY DEF Confirmed
<1>3. ConfirmedMeansPaid'
  BY <1>1, <1>2 DEF ConfirmedMeansPaid, Slipped, IInv, TypeOK
<1>4. Unopened' /\ WalletAlone'
  BY DEF Unopened, WalletAlone, IInv
<1> QED BY <1>1, <1>3, <1>4, Keeps

\* The same for a step that only adds attempts, and whose documents WalletAlone allows
LEMMA KeepsPayments ==
    ASSUME IInv, NEW r \in Requests, Moves(r),
           UNCHANGED <<share, gateway, journal, orders, reservation, lapses>>,
           share = "full" => UNCHANGED <<intent, referenced>>,
           \A a \in Attempts : attempt[a] # "NONE" => attempt'[a] # "NONE",
           req'[r].pc \in Opening =>
              \A s \in Requests \ {r} : req[s].pc \in Opening => req[s].att # req'[r].att,
           TypeOK', Sound(req[r])'
    PROVE  IInv'
<1>1. \A a \in Attempts : PaidAt(a)' = PaidAt(a)
  BY DEF PaidAt
<1>2. \A o \in Orders : Confirmed(o)' = Confirmed(o)
  BY DEF Confirmed
<1>3. ConfirmedMeansPaid'
  BY <1>1, <1>2 DEF ConfirmedMeansPaid, Slipped, IInv, TypeOK
<1>4. Unopened' /\ WalletAlone'
  BY DEF Unopened, WalletAlone, IInv
<1> QED BY <1>1, <1>3, <1>4, Keeps

\* The same for a step that changes nothing but the locals
LEMMA KeepsQuiet ==
    ASSUME IInv, NEW r \in Requests, Moves(r), req'[r] \in Request,
           UNCHANGED <<docVars, gateway, event, effectVars, lock, boundVars>>,
           req'[r].pc \notin Opening, Sound(req[r])'
    PROVE  IInv'
<1> USE DEF docVars, effectVars, boundVars
<1>1. TypeOK'
  BY DEF IInv, TypeOK, Moves
<1>2. UNCHANGED Ledgers /\ reservation' = reservation /\ lapses' = lapses
  BY DEF Ledgers
<1> QED BY <1>1, <1>2, KeepsLocal DEF boundVars

\* How a handler ends: idle, unlocking its submission or closing its event
Ended == {"idle", "unlock", "processed", "failed"}

LEMMA Ending ==
    ASSUME IInv, NEW r \in Requests, Return(r) \/ Throw(r), share' = share
    PROVE  /\ Moves(r) /\ req'[r] \in Request /\ Sound(req[r])'
           /\ req'[r].pc \in Ended /\ req'[r].job \in {"none", req[r].job}
<1> USE DEF Moves, Set, Goto, Finish, Ended
<1>1. req[r] \in Request /\ Sound(req[r]) /\ req \in [Requests -> Request]
  BY DEF IInv, TypeOK
<1>2. ASSUME NEW p \in {"unlock", "processed", "failed"},
             p \in {"processed", "failed"} => req[r].job = "webhook",
             Goto(r, p)
      PROVE  /\ Moves(r) /\ req'[r] \in Request /\ Sound(req[r])'
             /\ req'[r].pc \in Ended /\ req'[r].job = req[r].job
  <2>1. Moves(r) /\ req'[r] = [req[r] EXCEPT !.pc = p]
    BY <1>1, <1>2
  <2>2. /\ req'[r] \in Request /\ req'[r].pc = p /\ req'[r].job = req[r].job
        /\ req'[r].att = req[r].att /\ req'[r].intentDoc = req[r].intentDoc
    BY <1>1, <2>1 DEF Request, Steps
  <2>3. Sound(req[r])'
    BY <1>1, <1>2, <2>2 DEF Sound
  <2> QED BY <2>1, <2>2, <2>3
<1>3. CASE req[r].job = "submit"
  BY <1>2, <1>3 DEF Return, Throw
<1>4. CASE req[r].job = "webhook"
  <2>1. Goto(r, "processed") \/ Goto(r, "failed")
    BY <1>4 DEF Return, Throw
  <2> QED BY <1>2, <1>4, <2>1
<1>5. CASE req[r].job \notin {"submit", "webhook"}
  <2>1. Moves(r) /\ req'[r] = Idle
    BY <1>1, <1>5 DEF Return, Throw
  <2> QED BY <2>1 DEF Idle, Sound, Request, Steps, Jobs, EventStatuses, AttemptIds, Answers,
                    AttemptDocs, IntentDocs, Bindings
<1> QED BY <1>3, <1>4, <1>5

LEMMA EndingQuiet ==
    ASSUME IInv, NEW r \in Requests, Return(r) \/ Throw(r),
           UNCHANGED <<docVars, gateway, event, effectVars, lock, boundVars>>
    PROVE  IInv'
<1>1. Moves(r) /\ req'[r] \in Request /\ Sound(req[r])' /\ req'[r].pc \in Ended
  BY Ending DEF docVars
<1> QED BY <1>1, KeepsQuiet DEF Ended

\* Into the capture handler goes who has seen the capture, or a wallet that pays
\* everything; into the failure handler nobody whom the wallet pays.
LEMMA Entering ==
    ASSUME IInv, NEW r \in Requests, NEW a \in Attempts,
           \/ Set(r, Capturing(r, a)) /\ (share = "full" \/ PaidAt(a))
           \/ Set(r, Failing(r, a)) /\ share # "full",
           UNCHANGED <<share, gateway>>
    PROVE  /\ Moves(r) /\ req'[r] \in Request /\ Sound(req[r])'
           /\ req'[r].pc \in {"c_attempt_read", "f_attempt_read"} /\ req'[r].job = req[r].job
<1> USE DEF Set, Capturing, Failing
<1>1. req[r] \in Request /\ Sound(req[r]) /\ req \in [Requests -> Request]
  BY DEF IInv, TypeOK
<1>2. PICK p \in {"c_attempt_read", "f_attempt_read"} :
         /\ req' = [req EXCEPT ![r] = [req[r] EXCEPT !.pc = p, !.att = a]]
         /\ IF p = "c_attempt_read" THEN share = "full" \/ PaidAt(a) ELSE share # "full"
  OBVIOUS
<1>3. Moves(r) /\ req'[r] = [req[r] EXCEPT !.pc = p, !.att = a]
  BY <1>1, <1>2 DEF Moves
<1>4. /\ req'[r] \in Request /\ req'[r].pc = p /\ req'[r].job = req[r].job
      /\ req'[r].att = a /\ req'[r].intentDoc = req[r].intentDoc
  BY <1>1, <1>3 DEF Request, Steps, AttemptIds
<1>5. Sound(req[r])'
  BY <1>1, <1>2, <1>4 DEF Sound, PaidAt
<1> QED BY <1>3, <1>4, <1>5

-----------------------------------------------------------------------------
(* The steps that change nothing but the locals of their request.          *)

LEMMA ReadIntentKeeps ==
    ASSUME IInv, NEW r \in Requests, ReadIntent(r)
    PROVE  IInv'
<1> USE DEF At
<1>1. req[r] \in Request /\ Sound(req[r]) /\ intent \in IntentStatuses /\ req \in [Requests -> Request]
  BY DEF IInv, TypeOK
<1>2. UNCHANGED <<docVars, gateway, event, effectVars, lock, boundVars>> /\ share' = share
  BY DEF ReadIntent, docVars
<1>3. /\ Moves(r) /\ req'[r] \in Request /\ req'[r].job = req[r].job
      /\ req'[r].pc \in {"unlock", "route", "reserve"}
      /\ share = "full" => /\ req'[r].pc \in {"unlock", "reserve"}
                           /\ req'[r].intentDoc \in {intent, req[r].intentDoc}
  <2>1. CASE intent = "SUCCEEDED"
    BY <1>1, <2>1 DEF ReadIntent, Moves, Set, Goto, Request, Steps
  <2>2. CASE intent # "SUCCEEDED"
    <3> DEFINE next == IF share = "none" THEN "route" ELSE "reserve"
    <3>1. req' = [req EXCEPT ![r] = [req[r] EXCEPT !.intentDoc = intent, !.pc = next]]
      BY <2>2 DEF ReadIntent, Set
    <3>2. next \in {"route", "reserve"} /\ (share = "full" => next = "reserve")
      OBVIOUS
    <3> HIDE DEF next
    <3> QED BY <1>1, <3>1, <3>2 DEF Moves, Request, Steps, IntentDocs
  <2> QED BY <2>1, <2>2
<1>4. Sound(req[r])'
  BY <1>1, <1>2, <1>3 DEF Sound, ReadIntent, IInv, WalletAlone
<1> QED BY <1>2, <1>3, <1>4, KeepsQuiet

LEMMA RouteKeeps ==
    ASSUME IInv, NEW r \in Requests, Route(r)
    PROVE  IInv'
<1> USE DEF At
<1>1. req[r] \in Request /\ Sound(req[r]) /\ req \in [Requests -> Request]
  BY DEF IInv, TypeOK
<1>2. UNCHANGED <<docVars, gateway, event, effectVars, lock, boundVars>> /\ share' = share
  BY DEF Route, docVars
<1>3. /\ Moves(r) /\ req'[r] \in Request /\ req'[r].job = req[r].job
      /\ \/ req'[r].pc = "count"
         \/ req'[r].pc = "rail" /\ req'[r].att \in Attempts
  <2>1. CASE \E p \in Providers : Set(r, [req[r] EXCEPT !.pc = "count", !.prov = p])
    <3>1. PICK p \in Providers : req' = [req EXCEPT ![r] = [req[r] EXCEPT !.pc = "count", !.prov = p]]
      BY <2>1 DEF Set
    <3>2. Moves(r) /\ req'[r] = [req[r] EXCEPT !.pc = "count", !.prov = p]
      BY <1>1, <3>1 DEF Moves
    <3>3. req'[r] \in Request
      BY <1>1, <3>2 DEF Request, Steps, Bindings
    <3>4. req'[r].pc = "count" /\ req'[r].job = req[r].job
      BY <1>1, <3>2 DEF Request
    <3> QED BY <3>2, <3>3, <3>4
  <2>2. CASE \E a \in InFlight : Set(r, [req[r] EXCEPT !.pc = "rail", !.att = a])
    <3>1. PICK a \in InFlight : req' = [req EXCEPT ![r] = [req[r] EXCEPT !.pc = "rail", !.att = a]]
      BY <2>2 DEF Set
    <3> QED BY <1>1, <3>1 DEF Moves, Request, Steps, InFlight, AttemptIds
  <2> QED BY <2>1, <2>2 DEF Route
<1>4. Sound(req[r])'
  BY <1>1, <1>2, <1>3 DEF Sound, Route
<1> QED BY <1>2, <1>3, <1>4, KeepsQuiet

LEMMA CountKeeps ==
    ASSUME IInv, NEW r \in Requests, Count(r)
    PROVE  IInv'
<1> USE DEF At
<1>1. req[r] \in Request /\ Sound(req[r]) /\ req \in [Requests -> Request]
  BY DEF IInv, TypeOK
<1>2. UNCHANGED <<docVars, gateway, event, effectVars, lock, boundVars>> /\ share' = share
  BY DEF Count, docVars
<1>3. CASE Throw(r)
  BY <1>2, <1>3, EndingQuiet
<1>4. CASE \E n \in Attempts : Set(r, [req[r] EXCEPT !.pc = "insert", !.att = n])
  <2>1. PICK n \in Attempts : req' = [req EXCEPT ![r] = [req[r] EXCEPT !.pc = "insert", !.att = n]]
    BY <1>4 DEF Set
  <2>2. /\ Moves(r) /\ req'[r] \in Request /\ req'[r].pc = "insert" /\ req'[r].att = n
        /\ req'[r].job = req[r].job /\ req'[r].intentDoc = req[r].intentDoc
    BY <1>1, <2>1 DEF Moves, Request, Steps, AttemptIds
  <2>3. Sound(req[r])'
    BY <1>1, <1>2, <2>2 DEF Sound, Count
  <2> QED BY <1>2, <2>2, <2>3, KeepsQuiet
<1> QED BY <1>3, <1>4 DEF Count

LEMMA MatchKeeps ==
    ASSUME IInv, NEW r \in Requests, Match(r)
    PROVE  IInv'
<1> USE DEF At
<1> DEFINE a == req[r].att
<1>1. Sound(req[r])
  BY DEF IInv
<1>2. UNCHANGED <<docVars, gateway, event, effectVars, lock, boundVars>> /\ UNCHANGED <<share, gateway>>
  BY DEF Match, docVars
<1>3. a \in Attempts /\ share # "full" /\ (req[r].outcome = "CAPTURED" => PaidAt(a))
  BY <1>1 DEF Match, Sound
<1>4. CASE Return(r) \/ Throw(r)
  BY <1>2, <1>4, EndingQuiet
<1>5. CASE \/ req[r].outcome = "CAPTURED" /\ Set(r, Capturing(r, a))
           \/ Set(r, Failing(r, a))
  BY <1>2, <1>3, <1>5, Entering, KeepsQuiet
<1> QED BY <1>4, <1>5 DEF Match

LEMMA PollKeeps ==
    ASSUME IInv, NEW r \in Requests, NEW a \in Attempts, Poll(r, a)
    PROVE  IInv'
<1>1. req \in [Requests -> Request]
  BY DEF IInv, TypeOK
<1>2. UNCHANGED <<docVars, gateway, event, effectVars, lock, boundVars>> /\ share' = share
  BY DEF Poll, docVars
<1>3. Moves(r) /\ req'[r] = [Idle EXCEPT !.pc = "rail", !.job = "poll", !.att = a]
  BY <1>1 DEF Poll, Set, Moves
<1>4. /\ req'[r] \in Request /\ req'[r].pc = "rail" /\ req'[r].job = "poll" /\ req'[r].att = a
      /\ req'[r].intentDoc = "NONE"
  BY <1>3 DEF Idle, Request, Steps, Jobs, EventStatuses, AttemptIds, Answers, AttemptDocs,
              IntentDocs, Bindings
<1>5. Sound(req[r])'
  BY <1>4 DEF Sound
<1> QED BY <1>2, <1>3, <1>4, <1>5, KeepsQuiet

LEMMA RailKeeps ==
    ASSUME IInv, NEW r \in Requests, Rail(r)
    PROVE  IInv'
<1> USE DEF At
<1> DEFINE a == req[r].att
<1>1. Sound(req[r])
  BY DEF IInv
<1>2. UNCHANGED <<docVars, gateway, event, effectVars, lock, boundVars>> /\ UNCHANGED <<share, gateway>>
  BY DEF Rail, docVars
<1>3. a \in Attempts
  BY <1>1 DEF Rail, Sound
<1>4. CASE Return(r)
  BY <1>2, <1>4, EndingQuiet
<1>5. CASE /\ a \in referenced
           /\ \/ "captured" \in gateway[a] /\ Set(r, Capturing(r, a))
              \/ Set(r, Failing(r, a))
  <2>1. share # "full"
    BY <1>5 DEF IInv, WalletAlone
  <2> QED BY <1>2, <1>3, <1>5, <2>1, Entering, KeepsQuiet DEF PaidAt
<1> QED BY <1>4, <1>5 DEF Rail

LEMMA ReadAttemptKeeps ==
    ASSUME IInv, NEW r \in Requests, ReadAttempt(r)
    PROVE  IInv'
<1> USE DEF At
<1>1. /\ req[r] \in Request /\ Sound(req[r]) /\ req \in [Requests -> Request]
      /\ attempt[req[r].att] \in AttemptDocs
  BY DEF IInv, TypeOK, ReadAttempt, Sound
<1>2. UNCHANGED <<docVars, gateway, event, effectVars, lock, boundVars>> /\ UNCHANGED <<share, gateway>>
  BY DEF ReadAttempt, docVars
<1>3. PICK p \in {"c_intent_read", "f_intent_read"} :
         /\ req' = [req EXCEPT ![r] = [req[r] EXCEPT !.attDoc = attempt[req[r].att], !.pc = p]]
         /\ req[r].pc = IF p = "c_intent_read" THEN "c_attempt_read" ELSE "f_attempt_read"
  BY DEF ReadAttempt, Set
<1>4. Moves(r) /\ req'[r] = [req[r] EXCEPT !.attDoc = attempt[req[r].att], !.pc = p]
  BY <1>1, <1>3 DEF Moves
<1>5. /\ req'[r] \in Request /\ req'[r].pc = p /\ req'[r].att = req[r].att
      /\ req'[r].job = req[r].job /\ req'[r].intentDoc = req[r].intentDoc
  BY <1>1, <1>4 DEF Request, Steps
<1>6. Sound(req[r])'
  BY <1>1, <1>2, <1>3, <1>5 DEF Sound, PaidAt
<1> QED BY <1>2, <1>4, <1>5, <1>6, KeepsQuiet

LEMMA RereadIntentKeeps ==
    ASSUME IInv, NEW r \in Requests, RereadIntent(r)
    PROVE  IInv'
<1> USE DEF At
<1>1. /\ req[r] \in Request /\ Sound(req[r]) /\ req \in [Requests -> Request]
      /\ intent \in IntentDocs /\ (share = "full" => intent = "CREATED")
  BY DEF IInv, TypeOK, IntentDocs, WalletAlone
<1>2. UNCHANGED <<docVars, gateway, event, effectVars, lock, boundVars>> /\ UNCHANGED <<share, gateway>>
  BY DEF RereadIntent, docVars
<1>3. PICK p \in {"c_attempt", "f_attempt"} :
         /\ req' = [req EXCEPT ![r] = [req[r] EXCEPT !.intentDoc = intent, !.pc = p]]
         /\ req[r].pc = IF p = "c_attempt" THEN "c_intent_read" ELSE "f_intent_read"
  BY DEF RereadIntent, Set
<1>4. Moves(r) /\ req'[r] = [req[r] EXCEPT !.intentDoc = intent, !.pc = p]
  BY <1>1, <1>3 DEF Moves
<1>5. /\ req'[r] \in Request /\ req'[r].pc = p /\ req'[r].att = req[r].att
      /\ req'[r].job = req[r].job /\ req'[r].intentDoc = intent
  BY <1>1, <1>4 DEF Request, Steps
<1>6. Sound(req[r])'
  BY <1>1, <1>2, <1>3, <1>5 DEF Sound, PaidAt
<1> QED BY <1>2, <1>4, <1>5, <1>6, KeepsQuiet

LEMMA ReadOrderKeeps ==
    ASSUME IInv, NEW r \in Requests, ReadOrder(r)
    PROVE  IInv'
<1> USE DEF At
<1> DEFINE o == CHOOSE y \in req[r].todo : TRUE
<1>1. req[r] \in Request /\ Sound(req[r]) /\ req \in [Requests -> Request]
  BY DEF IInv, TypeOK
<1>2. /\ UNCHANGED <<docVars, gateway, event, effectVars, lock, boundVars>>
      /\ UNCHANGED <<share, gateway, journal, lapses>>
  BY DEF ReadOrder, docVars, effectVars, boundVars
<1>3. CASE Return(r)
  BY <1>2, <1>3, EndingQuiet
<1>4. CASE Set(r, [req[r] EXCEPT !.todo = @ \ {o}])
  <2> HIDE DEF o
  <2>1. Moves(r) /\ req'[r] = [req[r] EXCEPT !.todo = req[r].todo \ {o}]
    BY <1>1, <1>4 DEF Moves, Set
  <2>2. /\ req'[r] \in Request /\ req'[r].pc = "c_order_read" /\ req'[r].att = req[r].att
        /\ req'[r].job = req[r].job /\ req'[r].intentDoc = req[r].intentDoc
    BY <1>1, <2>1 DEF Request, ReadOrder
  <2>3. Sound(req[r])'
    BY <1>1, <1>2, <2>2 DEF Sound, Slipped, PaidAt, ReadOrder
  <2> QED BY <1>2, <2>1, <2>2, <2>3, KeepsQuiet
<1>5. CASE req[r].todo # {} /\ Goto(r, "c_order")
  <2>1. Moves(r) /\ req'[r] = [req[r] EXCEPT !.pc = "c_order"]
    BY <1>1, <1>5 DEF Moves, Set, Goto
  <2>2. /\ req'[r] \in Request /\ req'[r].pc = "c_order" /\ req'[r].att = req[r].att
        /\ req'[r].job = req[r].job /\ req'[r].intentDoc = req[r].intentDoc
        /\ req'[r].todo = req[r].todo
    BY <1>1, <2>1 DEF Request, Steps
  <2>3. Sound(req[r])'
    BY <1>1, <1>2, <1>5, <2>2 DEF Sound, Slipped, PaidAt, ReadOrder
  <2> QED BY <1>2, <2>1, <2>2, <2>3, KeepsQuiet
<1> QED BY <1>3, <1>4, <1>5 DEF ReadOrder

-----------------------------------------------------------------------------
(* The steps that touch the lock, the wallet, an event, a report or the outbox. *)

\* Types are kept by a step that leaves documents, gateways, journals and orders alone
LEMMA TypesKept ==
    ASSUME TypeOK, NEW r \in Requests, Moves(r), req'[r] \in Request,
           UNCHANGED <<docVars, gateway, journal, orders>>,
           event' \in [Attempts \X Outcomes -> EventStatuses],
           reservation' \in {"NONE", "RESERVED", "COMMITTED", "RELEASED"},
           outbox' \subseteq Attempts \X Outcomes \X (Orders \cup {"none"}),
           reported' \in [Orders -> Nat],
           lock' \in Requests \cup {Free, Orphan},
           lapses' \subseteq Steps, crashes' \in Nat, expiries' \in Nat
    PROVE  TypeOK' /\ UNCHANGED Ledgers
BY DEF TypeOK, Moves, docVars, Ledgers

LEMMA SubmitKeeps ==
    ASSUME IInv, NEW r \in Requests, Submit(r)
    PROVE  IInv'
<1>1. TypeOK /\ req \in [Requests -> Request]
  BY DEF IInv, TypeOK
<1>2. /\ UNCHANGED <<docVars, gateway, journal, orders>> /\ UNCHANGED <<share, reservation>>
      /\ UNCHANGED <<event, outbox, reported, boundVars>> /\ lock' = r
  BY DEF Submit, docVars, effectVars
<1>3. Moves(r) /\ req'[r] = [Idle EXCEPT !.pc = "locking", !.job = "submit"]
  BY <1>1 DEF Submit, Set, Moves
<1>4. /\ req'[r] \in Request /\ req'[r].pc = "locking" /\ req'[r].job = "submit"
      /\ req'[r].intentDoc = "NONE"
  BY <1>3 DEF Idle, Request, Steps, Jobs, EventStatuses, AttemptIds, Answers, AttemptDocs,
              IntentDocs, Bindings
<1>5. Sound(req[r])'
  BY <1>4 DEF Sound
<1>6. TypeOK' /\ UNCHANGED Ledgers
  BY <1>1, <1>2, <1>3, <1>4, TypesKept DEF TypeOK, boundVars
<1> QED BY <1>2, <1>3, <1>4, <1>5, <1>6, KeepsLocal DEF boundVars

LEMMA ReserveKeeps ==
    ASSUME IInv, NEW r \in Requests, Reserve(r)
    PROVE  IInv'
<1> USE DEF At
<1>1. TypeOK /\ req[r] \in Request /\ Sound(req[r]) /\ req \in [Requests -> Request]
  BY DEF IInv, TypeOK
<1>2. /\ UNCHANGED <<docVars, gateway, journal, orders>> /\ share' = share
      /\ UNCHANGED <<event, outbox, reported, lock, crashes, expiries>>
      /\ reservation' \in {reservation, "RESERVED"} /\ lapses \subseteq lapses' /\ lapses' \subseteq Steps
  BY <1>1 DEF Reserve, Lapse, docVars, TypeOK, Request
<1>3. /\ Moves(r) /\ req'[r] \in Request /\ Sound(req[r])'
      /\ req'[r].pc \in Ended \cup {"count", "route"}
  <2>1. CASE Throw(r)
    BY <1>2, <2>1, Ending
  <2>2. CASE Set(r, [req[r] EXCEPT !.pc = AfterReserve,
                         !.prov = IF share = "full" THEN Wallet ELSE "none"])
    <3>1. PICK p \in {"count", "route"}, w \in Bindings :
             /\ req' = [req EXCEPT ![r] = [req[r] EXCEPT !.pc = p, !.prov = w]]
             /\ share = "full" => p = "count"
      BY <2>2 DEF Set, AfterReserve, Bindings
    <3>2. /\ Moves(r) /\ req'[r] \in Request /\ req'[r].pc = p
          /\ req'[r].job = req[r].job /\ req'[r].intentDoc = req[r].intentDoc
      BY <1>1, <3>1 DEF Moves, Request, Steps
    <3>3. Sound(req[r])'
      BY <1>1, <1>2, <3>1, <3>2 DEF Sound, Reserve
    <3> QED BY <3>2, <3>3
  <2> QED BY <2>1, <2>2 DEF Reserve
<1>4. TypeOK' /\ UNCHANGED Ledgers
  BY <1>1, <1>2, <1>3, TypesKept DEF TypeOK
<1> QED BY <1>2, <1>3, <1>4, KeepsLocal DEF Ended

LEMMA UnlockKeeps ==
    ASSUME IInv, NEW r \in Requests, Unlock(r)
    PROVE  IInv'
<1>1. TypeOK /\ req \in [Requests -> Request]
  BY DEF IInv, TypeOK
<1>2. /\ UNCHANGED <<docVars, gateway, journal, orders>> /\ UNCHANGED <<share, reservation>>
      /\ UNCHANGED <<event, outbox, reported, boundVars>> /\ lock' \in {Free, lock}
  BY DEF Unlock, docVars, effectVars
<1>3. Moves(r) /\ req'[r] = Idle
  BY <1>1 DEF Unlock, Finish, Set, Moves
<1>4. req'[r] \in Request /\ req'[r].pc = "idle" /\ Sound(req[r])'
  BY <1>3 DEF Idle, Sound, Request, Steps, Jobs, EventStatuses, AttemptIds, Answers,
              AttemptDocs, IntentDocs, Bindings
<1>5. TypeOK' /\ UNCHANGED Ledgers
  BY <1>1, <1>2, <1>3, <1>4, TypesKept DEF TypeOK, boundVars
<1> QED BY <1>2, <1>3, <1>4, <1>5, KeepsLocal DEF boundVars

LEMMA CrashKeeps ==
    ASSUME IInv, NEW r \in Requests, Crash(r)
    PROVE  IInv'
<1>1. TypeOK /\ req \in [Requests -> Request]
  BY DEF IInv, TypeOK
<1>2. /\ UNCHANGED <<docVars, gateway, journal, orders>> /\ UNCHANGED <<share, reservation>>
      /\ UNCHANGED <<event, outbox, reported, expiries, lapses>> /\ lock' \in {Orphan, lock}
      /\ crashes' \in Nat
  BY <1>1 DEF Crash, docVars, effectVars, TypeOK
<1>3. Moves(r) /\ req'[r] = Idle
  BY <1>1 DEF Crash, Finish, Set, Moves
<1>4. req'[r] \in Request /\ req'[r].pc = "idle" /\ Sound(req[r])'
  BY <1>3 DEF Idle, Sound, Request, Steps, Jobs, EventStatuses, AttemptIds, Answers,
              AttemptDocs, IntentDocs, Bindings
<1>5. TypeOK' /\ UNCHANGED Ledgers
  BY <1>1, <1>2, <1>3, <1>4, TypesKept DEF TypeOK
<1> QED BY <1>2, <1>3, <1>4, <1>5, KeepsLocal DEF boundVars

LEMMA DeliverKeeps ==
    ASSUME IInv, NEW r \in Requests, NEW a \in Attempts, NEW outcome \in Outcomes,
           Deliver(r, a, outcome)
    PROVE  IInv'
<1>1. TypeOK /\ req \in [Requests -> Request]
  BY DEF IInv, TypeOK
<1>2. /\ UNCHANGED <<docVars, gateway, journal, orders>> /\ UNCHANGED <<share, reservation>>
      /\ UNCHANGED <<outbox, reported, lock, boundVars>>
  BY DEF Deliver, docVars, effectVars
<1>3. /\ event' \in [Attempts \X Outcomes -> EventStatuses]
      /\ event'[<<a, outcome>>] \in EventStatuses
  BY <1>1 DEF Deliver, TypeOK, EventStatuses
<1>4. Moves(r) /\ req'[r] = [Idle EXCEPT !.pc = "match", !.job = "webhook", !.att = a,
                                !.outcome = outcome, !.eventDoc = event'[<<a, outcome>>]]
  BY <1>1 DEF Deliver, Set, Moves
<1>5. /\ req'[r] \in Request /\ req'[r].pc = "match" /\ req'[r].job = "webhook"
      /\ req'[r].att = a /\ req'[r].outcome = outcome /\ req'[r].intentDoc = "NONE"
  BY <1>3, <1>4 DEF Idle, Request, Steps, Jobs, AttemptIds, Answers, AttemptDocs, IntentDocs,
                    Bindings
<1>6. share # "full" /\ (outcome = "CAPTURED" => PaidAt(a))
  BY DEF Deliver, IInv, WalletAlone, FactOf, PaidAt
<1>7. Sound(req[r])'
  BY <1>2, <1>5, <1>6 DEF Sound, PaidAt
<1>8. TypeOK' /\ UNCHANGED Ledgers
  BY <1>1, <1>2, <1>3, <1>4, <1>5, TypesKept DEF TypeOK, boundVars
<1> QED BY <1>2, <1>4, <1>5, <1>7, <1>8, KeepsLocal DEF boundVars

LEMMA CloseEventKeeps ==
    ASSUME IInv, NEW r \in Requests, CloseEvent(r)
    PROVE  IInv'
<1>1. TypeOK /\ req \in [Requests -> Request] /\ req[r] \in Request
  BY DEF IInv, TypeOK
<1>2. /\ UNCHANGED <<docVars, gateway, journal, orders>> /\ UNCHANGED <<share, reservation>>
      /\ UNCHANGED <<outbox, reported, lock, boundVars>>
  BY DEF CloseEvent, docVars, effectVars
<1>3. event' \in [Attempts \X Outcomes -> EventStatuses]
  BY <1>1 DEF CloseEvent, TypeOK, EventStatuses
<1>4. Moves(r) /\ req'[r] = Idle
  BY <1>1 DEF CloseEvent, Finish, Set, Moves
<1>5. req'[r] \in Request /\ req'[r].pc = "idle" /\ Sound(req[r])'
  BY <1>4 DEF Idle, Sound, Request, Steps, Jobs, EventStatuses, AttemptIds, Answers,
              AttemptDocs, IntentDocs, Bindings
<1>6. TypeOK' /\ UNCHANGED Ledgers
  BY <1>1, <1>2, <1>3, <1>4, <1>5, TypesKept DEF TypeOK, boundVars
<1> QED BY <1>2, <1>4, <1>5, <1>6, KeepsLocal DEF boundVars

LEMMA WalletStepKeeps ==
    ASSUME IInv, NEW r \in Requests, WalletStep(r)
    PROVE  IInv'
<1> USE DEF At
<1>1. TypeOK /\ req[r] \in Request /\ Sound(req[r]) /\ req \in [Requests -> Request]
  BY DEF IInv, TypeOK
<1>2. /\ UNCHANGED <<docVars, gateway, journal, orders>> /\ UNCHANGED <<share, gateway>>
      /\ UNCHANGED <<event, outbox, reported, lock, crashes, expiries>>
      /\ reservation' \in {reservation, "COMMITTED", "RELEASED"}
      /\ lapses \subseteq lapses' /\ lapses' \subseteq Steps
  BY <1>1 DEF WalletStep, Lapse, docVars, TypeOK, Request
<1>3. reservation' = "COMMITTED" => reservation = "COMMITTED" \/ \E a \in Attempts : PaidAt(a)
  BY <1>1 DEF WalletStep, Sound
<1>4. PICK p \in {"c_ledger", "f_outbox"} :
         /\ req' = [req EXCEPT ![r] = [req[r] EXCEPT !.pc = p]]
         /\ req[r].pc = IF p = "c_ledger" THEN "c_wallet" ELSE "f_release"
  BY DEF WalletStep, Goto, Set
<1>5. /\ Moves(r) /\ req'[r] \in Request /\ req'[r].pc = p /\ req'[r].att = req[r].att
      /\ req'[r].job = req[r].job /\ req'[r].intentDoc = req[r].intentDoc
  BY <1>1, <1>4 DEF Moves, Request, Steps
<1>6. Sound(req[r])'
  BY <1>1, <1>2, <1>4, <1>5 DEF Sound, PaidAt
<1>7. TypeOK' /\ UNCHANGED Ledgers
  BY <1>1, <1>2, <1>5, TypesKept DEF TypeOK
<1> QED BY <1>2, <1>3, <1>5, <1>6, <1>7, KeepsLocal

LEMMA CurrentIsAnOrder ==
    ASSUME IInv, NEW r \in Requests, req[r].pc \in {"c_order", "c_report", "c_outbox"}
    PROVE  Current(r) \in req[r].todo /\ Current(r) \in Orders
<1>1. req[r].todo # {} /\ req[r].todo \subseteq Orders
  BY DEF IInv, TypeOK, Sound, Request
<1> QED BY <1>1 DEF Current

LEMMA ReportKeeps ==
    ASSUME IInv, NEW r \in Requests, Report(r)
    PROVE  IInv'
<1> USE DEF At
<1>1. TypeOK /\ req[r] \in Request /\ Sound(req[r]) /\ req \in [Requests -> Request]
  BY DEF IInv, TypeOK
<1>2. /\ UNCHANGED <<docVars, gateway, journal, orders>> /\ UNCHANGED <<share, gateway, journal>>
      /\ UNCHANGED <<event, reservation, outbox, lock, crashes, expiries>>
      /\ lapses \subseteq lapses' /\ lapses' \subseteq Steps
  BY <1>1 DEF Report, Lapse, docVars, TypeOK, Request
<1>3. reported' \in [Orders -> Nat]
  BY <1>1, CurrentIsAnOrder DEF Report, TypeOK
<1>4. Moves(r) /\ req'[r] = [req[r] EXCEPT !.pc = "c_outbox"]
  BY <1>1 DEF Report, Moves, Goto, Set
<1>5. /\ req'[r] \in Request /\ req'[r].pc = "c_outbox" /\ req'[r].att = req[r].att
      /\ req'[r].job = req[r].job /\ req'[r].intentDoc = req[r].intentDoc
      /\ req'[r].todo = req[r].todo
  BY <1>1, <1>4 DEF Request, Steps
<1>6. Sound(req[r])'
  BY <1>1, <1>2, <1>5 DEF Sound, Slipped, PaidAt, Report
<1>7. TypeOK' /\ UNCHANGED Ledgers
  BY <1>1, <1>2, <1>3, <1>4, <1>5, TypesKept DEF TypeOK, boundVars
<1> QED BY <1>2, <1>4, <1>5, <1>6, <1>7, KeepsLocal DEF boundVars

LEMMA EnqueueKeeps ==
    ASSUME IInv, NEW r \in Requests, Enqueue(r)
    PROVE  IInv'
<1> USE DEF At
<1>1. TypeOK /\ req[r] \in Request /\ Sound(req[r]) /\ req \in [Requests -> Request]
  BY DEF IInv, TypeOK
<1>2. /\ UNCHANGED <<docVars, gateway, journal, orders>> /\ UNCHANGED <<share, gateway, journal>>
      /\ UNCHANGED <<event, reservation, reported, lock, crashes, expiries>>
      /\ lapses \subseteq lapses' /\ lapses' \subseteq Steps
  BY <1>1 DEF Enqueue, EnqueueOnce, Lapse, docVars, TypeOK, Request
<1>3. /\ outbox' \subseteq Attempts \X Outcomes \X (Orders \cup {"none"})
      /\ Moves(r) /\ req'[r] \in Request /\ Sound(req[r])' /\ req'[r].pc \in Ended \cup {"c_order_read"}
  <2>0. req[r].att \in Attempts /\ outbox \subseteq Attempts \X Outcomes \X (Orders \cup {"none"})
    BY <1>1 DEF Enqueue, Sound, TypeOK
  <2>1. CASE /\ At(r, "c_outbox") /\ EnqueueOnce(r, "CAPTURED", Current(r))
             /\ Set(r, [req[r] EXCEPT !.pc = "c_order_read", !.todo = @ \ {Current(r)}])
    <3>1. outbox' \subseteq Attempts \X Outcomes \X (Orders \cup {"none"})
      BY <2>0, <2>1, CurrentIsAnOrder DEF EnqueueOnce, Outcomes
    <3>2. Moves(r) /\ req'[r] = [req[r] EXCEPT !.pc = "c_order_read",
                                               !.todo = req[r].todo \ {Current(r)}]
      BY <1>1, <2>1 DEF Moves, Set
    <3>3. /\ req'[r] \in Request /\ req'[r].pc = "c_order_read" /\ req'[r].att = req[r].att
          /\ req'[r].job = req[r].job /\ req'[r].intentDoc = req[r].intentDoc
      BY <1>1, <3>2 DEF Request, Steps
    <3>4. Sound(req[r])'
      BY <1>1, <1>2, <2>1, <3>3 DEF Sound, Slipped, PaidAt
    <3> QED BY <3>1, <3>2, <3>3, <3>4
  <2>2. CASE At(r, "f_outbox") /\ EnqueueOnce(r, "FAILED", "none") /\ Return(r)
    <3>1. outbox' \subseteq Attempts \X Outcomes \X (Orders \cup {"none"})
      BY <2>0, <2>2 DEF EnqueueOnce, Outcomes
    <3> QED BY <1>2, <2>2, <3>1, Ending
  <2> QED BY <2>1, <2>2 DEF Enqueue
<1>4. TypeOK' /\ UNCHANGED Ledgers
  BY <1>1, <1>2, <1>3, TypesKept DEF TypeOK, boundVars
<1> QED BY <1>2, <1>3, <1>4, KeepsLocal DEF Ended

-----------------------------------------------------------------------------
(* The steps that write the documents.                                     *)

LEMMA InsertKeeps ==
    ASSUME IInv, NEW r \in Requests, Insert(r)
    PROVE  IInv'
<1> USE DEF At
<1> DEFINE a == req[r].att
<1>1. TypeOK /\ req[r] \in Request /\ Sound(req[r]) /\ req \in [Requests -> Request]
  BY DEF IInv, TypeOK
<1>2. a \in Attempts
  BY <1>1 DEF Insert, Sound
<1>3. CASE attempt[a] # "NONE"
  <2>1. Throw(r) /\ UNCHANGED <<docVars, gateway, event, effectVars, lock, boundVars>>
    BY <1>3 DEF Insert
  <2> QED BY <2>1, EndingQuiet
<1>4. CASE attempt[a] = "NONE"
  <2>1. /\ UNCHANGED <<share, gateway, journal, orders, reservation>> /\ UNCHANGED <<intent, referenced>>
        /\ UNCHANGED <<event, outbox, reported, lock, boundVars>>
        /\ attempt' = [attempt EXCEPT ![a] = "INITIATED"]
        /\ provider' = [provider EXCEPT ![a] = req[r].prov]
    BY <1>4 DEF Insert, effectVars
  <2>2. gateway[a] = {}
    BY <1>2, <1>4 DEF IInv, Unopened
  <2>3. /\ Moves(r) /\ req'[r] \in Request /\ Sound(req[r])'
        /\ req'[r].pc \in Opening => req'[r].att = a
    <3>1. CASE share = "full"
      <4>1. Set(r, Capturing(r, a))
        BY <1>4, <3>1 DEF Insert
      <4> QED BY <1>2, <2>1, <3>1, <4>1, Entering
    <3>2. CASE share # "full"
      <4>1. req' = [req EXCEPT ![r] = [req[r] EXCEPT !.pc = "process", !.prov = "none"]]
        BY <1>4, <3>2 DEF Insert, Set
      <4>2. Moves(r) /\ req'[r] = [req[r] EXCEPT !.pc = "process", !.prov = "none"]
        BY <1>1, <4>1 DEF Moves
      <4>3. /\ req'[r] \in Request /\ req'[r].pc = "process" /\ req'[r].att = a
            /\ req'[r].job = req[r].job
        BY <1>1, <4>2 DEF Request, Steps, Bindings
      <4>4. attempt'[a] # "NONE" /\ gateway'[a] = {}
        BY <1>1, <1>2, <2>1, <2>2 DEF TypeOK
      <4>5. Sound(req[r])'
        BY <1>1, <1>2, <2>1, <3>2, <4>3, <4>4 DEF Sound, Insert
      <4> QED BY <4>2, <4>3, <4>5
    <3> QED BY <3>1, <3>2
  <2>4. /\ \A b \in Attempts : attempt[b] # "NONE" => attempt'[b] # "NONE"
        /\ \A s \in Requests \ {r} : req[s].pc \in Opening => req[s].att # a
    <3>1. \A s \in Requests : req[s].pc \in Opening => attempt[req[s].att] # "NONE"
      BY DEF IInv, Sound
    <3> QED BY <1>1, <1>4, <2>1, <3>1 DEF TypeOK
  <2>5. TypeOK'
    <3>1. attempt' \in [Attempts -> AttemptDocs] /\ provider' \in [Attempts -> Bindings]
      BY <1>1, <2>1 DEF TypeOK, AttemptDocs, AttemptStatuses, Concluded, AfterCapture, Request
    <3> QED BY <1>1, <2>1, <2>3, <3>1 DEF TypeOK, Moves, boundVars
  <2> QED BY <2>1, <2>3, <2>4, <2>5, KeepsPayments DEF boundVars
<1> QED BY <1>3, <1>4

\* PaymentIntentService.transitionStatus: the handler gives up, or goes on
LEMMA SetIntentMoves ==
    ASSUME IInv, NEW r \in Requests, NEW to \in IntentStatuses, NEW next \in Steps,
           SetIntent(r, to, next)
    PROVE  \/ Throw(r) /\ UNCHANGED intent
           \/ /\ IntentMayBecome(req[r].intentDoc, to) /\ intent' \in IntentStatuses
              /\ Moves(r) /\ req'[r] \in Request /\ req'[r].pc = next /\ req'[r].att = req[r].att
              /\ req'[r].job = req[r].job /\ req'[r].intentDoc = "NONE"
<1>1. req[r] \in Request /\ req \in [Requests -> Request] /\ intent \in IntentStatuses
  BY DEF IInv, TypeOK
<1>2. CASE ~IntentMayBecome(req[r].intentDoc, to)
  BY <1>2 DEF SetIntent
<1>3. CASE IntentMayBecome(req[r].intentDoc, to)
  <2>1. /\ intent' \in IntentStatuses
        /\ req' = [req EXCEPT ![r] = [req[r] EXCEPT !.pc = next, !.intentDoc = "NONE"]]
    BY <1>1, <1>3 DEF SetIntent, Set
  <2>2. "NONE" \in IntentDocs
    BY DEF IntentDocs
  <2> QED BY <1>1, <1>3, <2>1, <2>2 DEF Moves, Request
<1> QED BY <1>2, <1>3

\* PaymentAttemptService.transitionStatus, likewise
LEMMA SetAttemptMoves ==
    ASSUME IInv, NEW r \in Requests, NEW to \in AttemptStatuses, NEW next \in Steps,
           SetAttempt(r, to, next)
    PROVE  \/ Throw(r) /\ UNCHANGED attempt
           \/ /\ attempt' \in {attempt, [attempt EXCEPT ![req[r].att] = to]}
              /\ Moves(r) /\ req'[r] \in Request /\ req'[r].pc = next /\ req'[r].att = req[r].att
              /\ req'[r].job = req[r].job /\ req'[r].intentDoc = req[r].intentDoc
<1>1. req[r] \in Request /\ req \in [Requests -> Request]
  BY DEF IInv, TypeOK
<1>2. CASE ~AttemptMayBecome(req[r].attDoc, to)
  BY <1>2 DEF SetAttempt
<1>3. CASE AttemptMayBecome(req[r].attDoc, to)
  <2>1. /\ attempt' \in {attempt, [attempt EXCEPT ![req[r].att] = to]}
        /\ req' = [req EXCEPT ![r] = [req[r] EXCEPT !.pc = next, !.attDoc = "NONE"]]
    BY <1>3 DEF SetAttempt, Set
  <2>2. "NONE" \in AttemptDocs
    BY DEF AttemptDocs
  <2> QED BY <1>1, <2>1, <2>2 DEF Moves, Request
<1> QED BY <1>2, <1>3

LEMMA ProcessKeeps ==
    ASSUME IInv, NEW r \in Requests, Process(r)
    PROVE  IInv'
<1> USE DEF At
<1>1. TypeOK /\ Sound(req[r])
  BY DEF IInv, TypeOK
<1>2. /\ UNCHANGED <<share, gateway, journal, orders, reservation>>
      /\ UNCHANGED <<attempt, provider, referenced, event, outbox, reported, lock, boundVars>>
      /\ share # "full"
  BY <1>1 DEF Process, effectVars, Sound
<1>3. CASE Throw(r) /\ UNCHANGED intent
  BY <1>2, <1>3, EndingQuiet DEF docVars, effectVars
<1>4. CASE /\ intent' \in IntentStatuses
           /\ Moves(r) /\ req'[r] \in Request /\ req'[r].pc = "call" /\ req'[r].att = req[r].att
           /\ req'[r].job = req[r].job
  <2>1. Sound(req[r])'
    BY <1>1, <1>2, <1>4 DEF Sound, Process
  <2>2. TypeOK'
    BY <1>1, <1>2, <1>4 DEF TypeOK, Moves, boundVars
  <2>3. \A s \in Requests \ {r} : req[s].pc \in Opening => req[s].att # req'[r].att
    BY <1>4 DEF IInv, Apart, Process
  <2> QED BY <1>2, <1>4, <2>1, <2>2, <2>3, KeepsPayments DEF boundVars
<1>5. "PROCESSING" \in IntentStatuses /\ "call" \in Steps
  BY DEF IntentStatuses, Steps
<1> QED BY <1>3, <1>4, <1>5, SetIntentMoves DEF Process

LEMMA SaveIntentKeeps ==
    ASSUME IInv, NEW r \in Requests, SaveIntent(r)
    PROVE  IInv'
<1> USE DEF At
<1>1. TypeOK /\ Sound(req[r])
  BY DEF IInv, TypeOK
<1>2. /\ UNCHANGED <<share, gateway, journal, orders, reservation>>
      /\ UNCHANGED <<attempt, provider, referenced, event, outbox, reported, lock, boundVars>>
  BY DEF SaveIntent, effectVars
<1>3. CASE Throw(r) /\ UNCHANGED intent
  BY <1>2, <1>3, EndingQuiet DEF docVars, effectVars
<1>4. CASE /\ share # "full" /\ intent' \in IntentStatuses
           /\ Moves(r) /\ req'[r] \in Request /\ req'[r].att = req[r].att
           /\ req'[r].job = req[r].job
           /\ \/ req[r].pc = "c_intent" /\ req'[r].pc = "c_wallet"
              \/ req[r].pc = "f_intent" /\ req'[r].pc = "f_release"
  <2>1. Sound(req[r])'
    BY <1>1, <1>2, <1>4 DEF Sound, PaidAt
  <2>2. TypeOK'
    BY <1>1, <1>2, <1>4 DEF TypeOK, Moves, boundVars
  <2> QED BY <1>2, <1>4, <2>1, <2>2, KeepsPayments DEF boundVars
<1>5. /\ {"SUCCEEDED", "REQUIRES_PAYMENT_METHOD"} \subseteq IntentStatuses
      /\ {"c_wallet", "f_release"} \subseteq Steps
  BY DEF IntentStatuses, Steps
<1>6. CASE req[r].pc = "c_intent" /\ SetIntent(r, "SUCCEEDED", "c_wallet")
  <2>1. share = "full" => ~IntentMayBecome(req[r].intentDoc, "SUCCEEDED")
    BY <1>1 DEF Sound, IntentMayBecome, IntentSuccessors, IntentStops
  <2> QED BY <1>3, <1>4, <1>5, <1>6, <2>1, SetIntentMoves
<1>7. CASE req[r].pc = "f_intent" /\ SetIntent(r, "REQUIRES_PAYMENT_METHOD", "f_release")
  <2>1. share # "full"
    BY <1>1, <1>7 DEF Sound
  <2> QED BY <1>3, <1>4, <1>5, <1>7, <2>1, SetIntentMoves
<1> QED BY <1>6, <1>7 DEF SaveIntent

LEMMA SaveAttemptKeeps ==
    ASSUME IInv, NEW r \in Requests, SaveAttempt(r)
    PROVE  IInv'
<1> USE DEF At
<1>1. TypeOK /\ Sound(req[r])
  BY DEF IInv, TypeOK
<1>2. /\ UNCHANGED <<share, gateway, journal, orders, reservation>>
      /\ UNCHANGED <<intent, provider, referenced, event, outbox, reported, lock, boundVars>>
  BY DEF SaveAttempt, effectVars
<1>3. CASE Throw(r) /\ UNCHANGED attempt
  BY <1>2, <1>3, EndingQuiet DEF docVars, effectVars
<1>4. CASE \E to \in {"CAPTURED", "FAILED"} :
           /\ attempt' \in {attempt, [attempt EXCEPT ![req[r].att] = to]}
           /\ Moves(r) /\ req'[r] \in Request /\ req'[r].att = req[r].att
           /\ req'[r].job = req[r].job /\ req'[r].intentDoc = req[r].intentDoc
           /\ \/ req[r].pc = "c_attempt" /\ req'[r].pc = "c_intent"
              \/ req[r].pc = "f_attempt" /\ req'[r].pc = "f_intent"
  <2>1. Sound(req[r])'
    BY <1>1, <1>2, <1>4 DEF Sound, PaidAt
  <2>2. /\ attempt' \in [Attempts -> AttemptDocs]
        /\ \A b \in Attempts : attempt[b] # "NONE" => attempt'[b] # "NONE"
    BY <1>1, <1>4 DEF TypeOK, AttemptDocs, AttemptStatuses, Concluded, AfterCapture
  <2>3. TypeOK'
    BY <1>1, <1>2, <1>4, <2>2 DEF TypeOK, Moves, boundVars
  <2> QED BY <1>2, <1>4, <2>1, <2>2, <2>3, KeepsPayments DEF boundVars
<1>5. {"CAPTURED", "FAILED"} \subseteq AttemptStatuses /\ {"c_intent", "f_intent"} \subseteq Steps
  BY DEF AttemptStatuses, Concluded, AfterCapture, Steps
<1>6. CASE req[r].pc = "c_attempt" /\ SetAttempt(r, "CAPTURED", "c_intent")
  BY <1>3, <1>4, <1>5, <1>6, SetAttemptMoves
<1>7. CASE req[r].pc = "f_attempt" /\ SetAttempt(r, "FAILED", "f_intent")
  BY <1>3, <1>4, <1>5, <1>7, SetAttemptMoves
<1> QED BY <1>6, <1>7 DEF SaveAttempt

LEMMA SaveKeeps ==
    ASSUME IInv, NEW r \in Requests, Save(r)
    PROVE  IInv'
<1> USE DEF At
<1> DEFINE a == req[r].att
<1>1. TypeOK /\ req[r] \in Request /\ Sound(req[r]) /\ req \in [Requests -> Request]
  BY DEF IInv, TypeOK
<1>2. /\ UNCHANGED <<share, gateway, journal, orders, reservation>>
      /\ UNCHANGED <<intent, attempt, provider, event, outbox, reported, lock, boundVars>>
      /\ referenced' = referenced \cup {a}
  BY DEF Save, effectVars
<1>3. a \in Attempts /\ share # "full" /\ (req[r].outcome = "CAPTURED" => PaidAt(a))
  BY <1>1 DEF Save, Sound
<1>4. /\ Moves(r) /\ req'[r] \in Request /\ Sound(req[r])'
      /\ req'[r].pc \in {"unlock", "c_attempt_read", "f_attempt_read"}
  <2>1. CASE Goto(r, "unlock")
    <3>1. Moves(r) /\ req'[r] = [req[r] EXCEPT !.pc = "unlock"]
      BY <1>1, <2>1 DEF Goto, Set, Moves
    <3>2. /\ req'[r] \in Request /\ req'[r].pc = "unlock" /\ req'[r].job = req[r].job
          /\ req'[r].att = a
      BY <1>1, <3>1 DEF Request, Steps
    <3>3. Sound(req[r])'
      BY <1>1, <1>2, <1>3, <3>2 DEF Sound
    <3> QED BY <3>1, <3>2, <3>3
  <2>2. CASE \/ req[r].outcome = "CAPTURED" /\ Set(r, Capturing(r, a))
             \/ Set(r, Failing(r, a))
    BY <1>2, <1>3, <2>2, Entering
  <2> QED BY <2>1, <2>2 DEF Save
<1>5. TypeOK'
  BY <1>1, <1>2, <1>3, <1>4 DEF TypeOK, Moves, boundVars
<1> QED BY <1>2, <1>3, <1>4, <1>5, KeepsPayments DEF boundVars

-----------------------------------------------------------------------------
(* The steps that change what is paid, posted or confirmed.                *)

LEMMA CallKeeps ==
    ASSUME IInv, NEW r \in Requests, Call(r)
    PROVE  IInv'
<1> USE DEF At
<1> DEFINE a == req[r].att
<1>1. TypeOK /\ req[r] \in Request /\ Sound(req[r]) /\ req \in [Requests -> Request]
  BY DEF IInv, TypeOK
<1>2. PICK reply \in Replies :
         /\ gateway' = [gateway EXCEPT ![a] = reply.facts]
         /\ IF reply.answer = "error"
            THEN Throw(r)
            ELSE Set(r, [req[r] EXCEPT !.pc = "save", !.outcome = reply.answer])
  BY DEF Call
<1>3. /\ reply.facts \subseteq GatewayFacts /\ reply.answer \in Answers \cup {"error"}
      /\ reply.answer = "CAPTURED" => "captured" \in reply.facts
  BY DEF Replies, GatewayFacts, Answers, Outcomes
<1>4. /\ UNCHANGED <<share, journal, orders, reservation>> /\ UNCHANGED <<intent, attempt, referenced>>
      /\ UNCHANGED <<provider, event, outbox, reported, lock, boundVars>>
  BY DEF Call, docVars, effectVars
<1>5. a \in Attempts /\ share # "full" /\ attempt[a] # "NONE" /\ gateway[a] = {}
  BY <1>1 DEF Call, Sound
<1>6. /\ gateway' \in [Attempts -> SUBSET GatewayFacts] /\ gateway'[a] = reply.facts
      /\ \A b \in Attempts \ {a} : gateway'[b] = gateway[b]
  BY <1>1, <1>2, <1>3, <1>5 DEF TypeOK
<1>7. \A b \in Attempts : PaidAt(b) => PaidAt(b)'
  BY <1>5, <1>6 DEF PaidAt
<1>8. /\ Moves(r) /\ req'[r] \in Request /\ Sound(req[r])' /\ req'[r].pc \notin Opening
  <2>1. CASE Throw(r)
    BY <1>4, <2>1, Ending DEF Ended
  <2>2. CASE reply.answer # "error" /\ Set(r, [req[r] EXCEPT !.pc = "save", !.outcome = reply.answer])
    <3>1. Moves(r) /\ req'[r] = [req[r] EXCEPT !.pc = "save", !.outcome = reply.answer]
      BY <1>1, <2>2 DEF Set, Moves
    <3>2. /\ req'[r] \in Request /\ req'[r].pc = "save" /\ req'[r].job = req[r].job
          /\ req'[r].att = a /\ req'[r].outcome = reply.answer
      BY <1>1, <1>3, <2>2, <3>1 DEF Request, Steps
    <3>3. Sound(req[r])'
      BY <1>1, <1>3, <1>4, <1>5, <1>6, <3>2 DEF Sound, PaidAt, Call
    <3> QED BY <3>1, <3>2, <3>3
  <2> QED BY <1>2, <2>1, <2>2
<1>9. TypeOK'
  BY <1>1, <1>4, <1>6, <1>8 DEF TypeOK, Moves, boundVars
<1>10. ConfirmedMeansPaid' /\ Unopened' /\ WalletAlone'
  BY <1>1, <1>4, <1>5, <1>6, <1>7 DEF IInv, TypeOK, ConfirmedMeansPaid, Slipped, Confirmed, Unopened, WalletAlone,
      boundVars
<1>11. \A s \in Requests \ {r} : req[s].pc \in Opening => gateway'[req[s].att] = gateway[req[s].att]
  <2>1. \A s \in Requests \ {r} : req[s].pc \in Opening => req[s].att \in Attempts \ {a}
    BY DEF IInv, Sound, Apart, Call
  <2> QED BY <1>6, <2>1
<1> QED BY <1>4, <1>7, <1>8, <1>9, <1>10, <1>11, Keeps DEF boundVars

LEMMA PostCaptureKeeps ==
    ASSUME IInv, NEW r \in Requests, PostCapture(r)
    PROVE  IInv'
<1> USE DEF At
<1> DEFINE a == req[r].att
<1>1. TypeOK /\ req[r] \in Request /\ Sound(req[r]) /\ req \in [Requests -> Request]
  BY DEF IInv, TypeOK
<1>2. /\ UNCHANGED <<share, gateway, orders, reservation>> /\ UNCHANGED <<intent, attempt, referenced>>
      /\ UNCHANGED <<provider, event, outbox, reported, lock, crashes, expiries>>
      /\ \/ journal' = journal \cup {a}
         \/ journal' = journal /\ Slipped'
      /\ lapses \subseteq lapses' /\ lapses' \subseteq Steps
  BY <1>1 DEF PostCapture, Lapse, Slipped, docVars, TypeOK, Request
<1>3. a \in Attempts /\ share # "full" /\ PaidAt(a)
  BY <1>1 DEF PostCapture, Sound
<1>4. Moves(r) /\ req'[r] = [req[r] EXCEPT !.pc = "c_order_read", !.todo = Orders]
  BY <1>1 DEF PostCapture, Set, Moves
<1>5. /\ req'[r] \in Request /\ req'[r].pc = "c_order_read" /\ req'[r].job = req[r].job
      /\ req'[r].att = a
  BY <1>1, <1>4 DEF Request, Steps
<1>6. Sound(req[r])'
  BY <1>1, <1>2, <1>3, <1>5 DEF Sound, PaidAt
<1>7. TypeOK'
  BY <1>1, <1>2, <1>3, <1>4, <1>5 DEF TypeOK, Moves
<1>8. ConfirmedMeansPaid' /\ Unopened' /\ WalletAlone'
  BY <1>1, <1>2, <1>3 DEF IInv, TypeOK, ConfirmedMeansPaid, Slipped, Confirmed, Unopened, WalletAlone, PaidAt
<1> QED BY <1>2, <1>4, <1>5, <1>6, <1>7, <1>8, Keeps DEF PaidAt, boundVars

LEMMA SaveOrderKeeps ==
    ASSUME IInv, NEW r \in Requests, SaveOrder(r)
    PROVE  IInv'
<1> USE DEF At
<1>1. TypeOK /\ req[r] \in Request /\ Sound(req[r]) /\ req \in [Requests -> Request]
  BY DEF IInv, TypeOK
<1>2. /\ UNCHANGED <<share, gateway, journal, reservation>> /\ UNCHANGED <<intent, attempt, referenced>>
      /\ UNCHANGED <<provider, event, outbox, reported, lock, boundVars>>
      /\ orders' = [orders EXCEPT ![Current(r)] = "CAPTURED"]
  BY DEF SaveOrder, docVars
<1>3. /\ \E a \in Attempts : PaidAt(a)
      /\ journal # {} \/ Slipped
      /\ share # "full"
  BY <1>1 DEF SaveOrder, Sound
<1>4. Moves(r) /\ req'[r] = [req[r] EXCEPT !.pc = "c_report"]
  BY <1>1 DEF SaveOrder, Goto, Set, Moves
<1>5. /\ req'[r] \in Request /\ req'[r].pc = "c_report" /\ req'[r].job = req[r].job
      /\ req'[r].att = req[r].att /\ req'[r].todo = req[r].todo
  BY <1>1, <1>4 DEF Request, Steps
<1>6. Sound(req[r])'
  BY <1>1, <1>2, <1>3, <1>5 DEF Sound, Slipped, PaidAt, SaveOrder, boundVars
<1>7. TypeOK'
  <2>1. orders' \in [Orders -> {"PENDING", "CAPTURED"}]
    BY <1>1, <1>2 DEF TypeOK
  <2> QED BY <1>1, <1>2, <1>4, <1>5, <2>1 DEF TypeOK, Moves, boundVars
<1>8. ConfirmedMeansPaid' /\ Unopened' /\ WalletAlone'
  BY <1>1, <1>2, <1>3 DEF IInv, TypeOK, ConfirmedMeansPaid, Slipped, Unopened, WalletAlone, PaidAt, boundVars
<1> QED BY <1>2, <1>4, <1>5, <1>6, <1>7, <1>8, Keeps DEF PaidAt, boundVars

-----------------------------------------------------------------------------
(* The steps that no request takes.                                        *)

LEMMA GatewayKeeps ==
    ASSUME IInv, NEW a \in Attempts, GatewayCaptures(a) \/ GatewayDeclines(a)
    PROVE  IInv'
<1>1. TypeOK
  BY DEF IInv
<1>2. /\ UNCHANGED <<docVars, effectVars, event, lock, req, boundVars>>
      /\ UNCHANGED <<share, intent, attempt, referenced, journal, orders, reservation, req, lapses>>
  BY DEF GatewayCaptures, GatewayDeclines, docVars, effectVars, boundVars
<1>3. /\ gateway[a] # {} /\ gateway' \in [Attempts -> SUBSET GatewayFacts]
      /\ gateway[a] \subseteq gateway'[a]
      /\ \A b \in Attempts \ {a} : gateway'[b] = gateway[b]
  <2>1. PICK fact \in GatewayFacts : gateway' = [gateway EXCEPT ![a] = @ \cup {fact}]
    BY DEF GatewayCaptures, GatewayDeclines, GatewayFacts
  <2>2. "opened" \in gateway[a]
    BY DEF GatewayCaptures, GatewayDeclines
  <2> QED BY <1>1, <2>1, <2>2 DEF TypeOK
<1>4. \A b \in Attempts : PaidAt(b) => PaidAt(b)'
  BY <1>3 DEF PaidAt
<1>5. ASSUME NEW s \in Requests
      PROVE  Sound(req[s])'
  <2>1. req[s].pc \in Opening => req[s].att \in Attempts \ {a}
    BY <1>3 DEF IInv, Sound
  <2> QED BY <1>2, <1>3, <1>4, <2>1, StillKnows
<1>6. TypeOK'
  BY <1>1, <1>2, <1>3 DEF TypeOK, docVars, effectVars, boundVars
<1>7. ConfirmedMeansPaid' /\ Unopened' /\ WalletAlone' /\ Apart'
  BY <1>1, <1>2, <1>3, <1>4
  DEF IInv, TypeOK, ConfirmedMeansPaid, Slipped, Confirmed, Unopened, WalletAlone, Apart
<1> QED BY <1>5, <1>6, <1>7 DEF IInv

LEMMA LockKeeps ==
    ASSUME IInv, Reclaim \/ Expire
    PROVE  IInv'
<1>1. /\ UNCHANGED <<docVars, gateway, event, effectVars, req, lapses, crashes>>
      /\ UNCHANGED <<share, intent, attempt, referenced, gateway, journal, orders, reservation, req>>
      /\ lock' = Free /\ expiries' \in Nat
  BY DEF Reclaim, Expire, docVars, effectVars, boundVars, IInv, TypeOK
<1>2. TypeOK'
  BY <1>1 DEF IInv, TypeOK, docVars, effectVars
<1>3. \A s \in Requests : Sound(req[s])'
  BY <1>1, StillKnows DEF PaidAt
<1>4. ConfirmedMeansPaid' /\ Unopened' /\ WalletAlone' /\ Apart'
  BY <1>1 DEF IInv, ConfirmedMeansPaid, Slipped, Confirmed, PaidAt, Unopened, WalletAlone, Apart
<1> QED BY <1>2, <1>3, <1>4 DEF IInv

-----------------------------------------------------------------------------
LEMMA InitIInv == Init => IInv
<1> SUFFICES ASSUME Init PROVE IInv
  OBVIOUS
<1> USE DEF Init
<1>1. Idle \in Request /\ Sound(Idle) /\ Idle.pc = "idle"
  BY DEF Idle, Sound, Request, Steps, Jobs, EventStatuses, AttemptIds, Answers,
         AttemptDocs, IntentDocs, Bindings
<1>2. TypeOK
  BY <1>1, OrchestratorAssumption
  DEF TypeOK, IntentStatuses, AttemptDocs, Bindings, EventStatuses
<1>3. \A r \in Requests : req[r] = Idle
  OBVIOUS
<1>4. ConfirmedMeansPaid
  BY DEF ConfirmedMeansPaid, Confirmed
<1> QED BY <1>1, <1>2, <1>3, <1>4 DEF IInv, Apart, Unopened, WalletAlone

LEMMA NextIInv == IInv /\ [Next]_vars => IInv'
<1> SUFFICES ASSUME IInv, [Next]_vars PROVE IInv'
  OBVIOUS
<1>1. ASSUME NEW r \in Requests, Start(r) PROVE IInv'
  BY <1>1, SubmitKeeps, PollKeeps, DeliverKeeps DEF Start
<1>2. ASSUME NEW r \in Requests, Submission(r) PROVE IInv'
  BY <1>2, ReadIntentKeeps, ReserveKeeps, RouteKeeps, CountKeeps, InsertKeeps, ProcessKeeps,
     CallKeeps, SaveKeeps, UnlockKeeps DEF Submission
<1>3. ASSUME NEW r \in Requests, Handler(r) PROVE IInv'
  BY <1>3, ReadAttemptKeeps, RereadIntentKeeps, SaveAttemptKeeps, SaveIntentKeeps,
     WalletStepKeeps, PostCaptureKeeps, ReadOrderKeeps, SaveOrderKeeps, ReportKeeps, EnqueueKeeps
  DEF Handler
<1>4. ASSUME NEW r \in Requests, Advance(r) PROVE IInv'
  BY <1>2, <1>3, <1>4, MatchKeeps, CloseEventKeeps, RailKeeps DEF Advance
<1>5. CASE UNCHANGED vars
  <2>1. UNCHANGED <<docVars, gateway, event, effectVars, lock, req, boundVars>>
        /\ UNCHANGED <<share, intent, attempt, referenced, gateway, journal, orders, reservation, req, lapses>>
    BY <1>5 DEF vars, docVars, effectVars, boundVars
  <2>2. TypeOK'
    BY <2>1 DEF IInv, TypeOK, docVars, effectVars, boundVars
  <2>3. \A s \in Requests : Sound(req[s])'
    BY <2>1, StillKnows DEF PaidAt
  <2>4. ConfirmedMeansPaid' /\ Unopened' /\ WalletAlone' /\ Apart'
    BY <2>1 DEF IInv, ConfirmedMeansPaid, Slipped, Confirmed, PaidAt, Unopened, WalletAlone, Apart
  <2> QED BY <2>2, <2>3, <2>4 DEF IInv
<1> QED BY <1>1, <1>4, <1>5, CrashKeeps, GatewayKeeps, LockKeeps DEF Next

LEMMA Invariance == Spec => []IInv
BY InitIInv, NextIInv, PTL DEF Spec

\* Types are kept whatever the requests, the gateways and the locks do.
THEOREM PaymentTypeCorrect == Spec => []TypeOK
<1>1. IInv => TypeOK
  BY DEF IInv
<1> QED BY <1>1, Invariance, PTL

\* No order is confirmed, no capture is posted and no wallet money is taken without
\* a capture at a gateway: for any number of concurrent handlers that read, wait
\* and write, of crashes and of locks that expire (handleAttemptCapture).
THEOREM ConfirmationsArePaid == Spec => []ConfirmedMeansPaid
<1>1. IInv => ConfirmedMeansPaid
  BY DEF IInv
<1> QED BY <1>1, Invariance, PTL

-----------------------------------------------------------------------------
(* The failover guard. It holds while no lock expires under its holder.    *)

\* A step of r that makes no attempt, takes or keeps its lock, and knows a provider
\* that the attempts in flight share when it goes on to make one
LEMMA RoutedKept ==
    ASSUME RInv, NEW r \in Requests, Moves(r), UNCHANGED <<share, provider, expiries>>,
           \A a \in Attempts : attempt'[a] = "INITIATED" => attempt[a] = "INITIATED",
           \A s \in Requests \ {r} : lock = s => lock' = s,
           expiries = 0 /\ req'[r].job = "submit" => lock' = r,
           req'[r].pc \in {"count", "insert"} =>
              /\ share = "full" => req'[r].prov = Wallet
              /\ expiries = 0 => \A a \in InFlight : provider[a] = req'[r].prov
    PROVE  Routed' /\ OneLiveProvider'
<1>1. \A s \in Requests \ {r} : req'[s] = req[s]
  BY DEF Moves, RInv, IInv, TypeOK
<1>2. \A a \in InFlight' : a \in InFlight /\ provider'[a] = provider[a]
  BY DEF InFlight
<1>3. OneLiveProvider'
  BY <1>2 DEF RInv, OneLiveProvider
<1>4. Routed'
  BY <1>1, <1>2 DEF RInv, Routed
<1> QED BY <1>3, <1>4

\* A step of r that has nothing to do with locks or providers
Proceeds(r) ==
    /\ Moves(r) /\ req'[r].pc \notin {"count", "insert"}
    /\ req'[r].job = "submit" => req[r].job = "submit"

LEMMA RoutedProceeds ==
    ASSUME RInv, NEW r \in Requests, Proceeds(r), UNCHANGED <<share, provider, expiries, lock>>,
           \A a \in Attempts : attempt'[a] = "INITIATED" => attempt[a] = "INITIATED"
    PROVE  Routed' /\ OneLiveProvider'
<1>1. expiries = 0 /\ req[r].job = "submit" => lock = r
  BY DEF RInv, Routed
<1> QED BY <1>1, RoutedKept DEF Proceeds

LEMMA EndingProceeds ==
    ASSUME IInv, NEW r \in Requests, Return(r) \/ Throw(r), share' = share
    PROVE  Proceeds(r)
BY Ending DEF Proceeds, Ended

LEMMA EnteringProceeds ==
    ASSUME IInv, NEW r \in Requests, NEW a,
           Set(r, Capturing(r, a)) \/ Set(r, Failing(r, a))
    PROVE  Proceeds(r)
<1>1. req[r] \in Request /\ req \in [Requests -> Request]
  BY DEF IInv, TypeOK
<1>2. PICK p \in {"c_attempt_read", "f_attempt_read"} :
         req' = [req EXCEPT ![r] = [req[r] EXCEPT !.pc = p, !.att = a]]
  BY DEF Set, Capturing, Failing
<1> QED BY <1>1, <1>2 DEF Proceeds, Moves, Request

LEMMA SubmissionRouted ==
    ASSUME RInv, NEW r \in Requests,
           ReadIntent(r) \/ Process(r) \/ Call(r) \/ Save(r)
    PROVE  Routed' /\ OneLiveProvider'
<1>1. IInv /\ req[r] \in Request /\ req \in [Requests -> Request]
  BY DEF RInv, IInv, TypeOK
<1>2. UNCHANGED <<share, attempt, provider, expiries, lock>>
  BY DEF ReadIntent, Process, Call, Save, docVars, boundVars
<1>3. CASE ReadIntent(r)
  <2>1. \/ req' = [req EXCEPT ![r] = [req[r] EXCEPT !.pc = "unlock"]]
        \/ \E p \in {"route", "reserve"} :
              req' = [req EXCEPT ![r] = [req[r] EXCEPT !.intentDoc = intent, !.pc = p]]
    BY <1>3 DEF ReadIntent, Set, Goto
  <2>2. Proceeds(r)
    BY <1>1, <2>1 DEF Proceeds, Moves, Request
  <2> QED BY <1>2, <2>2, RoutedProceeds
<1>4. CASE Process(r)
  <2>1. "PROCESSING" \in IntentStatuses /\ "call" \in Steps
    BY DEF IntentStatuses, Steps
  <2>2. Proceeds(r)
    BY <1>1, <1>2, <1>4, <2>1, SetIntentMoves, EndingProceeds DEF Process, Proceeds
  <2> QED BY <1>2, <2>2, RoutedProceeds
<1>5. CASE Call(r)
  <2>1. Throw(r) \/ \E x : Set(r, [req[r] EXCEPT !.pc = "save", !.outcome = x])
    BY <1>5 DEF Call
  <2>2. ASSUME NEW x, Set(r, [req[r] EXCEPT !.pc = "save", !.outcome = x])
        PROVE  Proceeds(r)
    BY <1>1, <2>2 DEF Proceeds, Moves, Set, Request
  <2>3. Proceeds(r)
    BY <1>1, <1>2, <2>1, <2>2, EndingProceeds
  <2> QED BY <1>2, <2>3, RoutedProceeds
<1>6. CASE Save(r)
  <2>1. Goto(r, "unlock") => Proceeds(r)
    BY <1>1 DEF Proceeds, Moves, Goto, Set, Request
  <2>2. Proceeds(r)
    BY <1>1, <1>6, <2>1, EnteringProceeds DEF Save
  <2> QED BY <1>2, <2>2, RoutedProceeds
<1> QED BY <1>3, <1>4, <1>5, <1>6

LEMMA ReserveRouted ==
    ASSUME RInv, NEW r \in Requests, Reserve(r)
    PROVE  Routed' /\ OneLiveProvider'
<1>1. IInv /\ req[r] \in Request /\ req \in [Requests -> Request]
  BY DEF RInv, IInv, TypeOK
<1>2. UNCHANGED <<share, attempt, provider, expiries, lock>>
  BY DEF Reserve, docVars
<1>3. CASE Throw(r)
  BY <1>1, <1>2, <1>3, EndingProceeds, RoutedProceeds
<1>4. CASE Set(r, [req[r] EXCEPT !.pc = AfterReserve,
                       !.prov = IF share = "full" THEN Wallet ELSE "none"])
  <2>1. /\ share = "full" => req' = [req EXCEPT ![r] = [req[r] EXCEPT !.pc = "count", !.prov = Wallet]]
        /\ share # "full" => req' = [req EXCEPT ![r] = [req[r] EXCEPT !.pc = "route", !.prov = "none"]]
    BY <1>4 DEF Set, AfterReserve
  <2>2. /\ Moves(r) /\ req'[r].job = req[r].job
        /\ share # "full" => req'[r].pc = "route"
        /\ share = "full" => req'[r].prov = Wallet
    BY <1>1, <2>1 DEF Moves, Request
  <2>3. /\ share = "full" => \A a \in InFlight : provider[a] = Wallet
        /\ expiries = 0 /\ req[r].job = "submit" => lock = r
    BY DEF RInv, Routed
  <2> QED BY <1>2, <2>2, <2>3, RoutedKept
<1> QED BY <1>3, <1>4 DEF Reserve

\* The guard itself: a provider is chosen that no attempt in flight contradicts.
LEMMA RouteRouted ==
    ASSUME RInv, NEW r \in Requests, Route(r)
    PROVE  Routed' /\ OneLiveProvider'
<1>1. /\ req[r] \in Request /\ Sound(req[r]) /\ req \in [Requests -> Request]
      /\ req[r].job = "submit" /\ share # "full"
  BY DEF RInv, IInv, TypeOK, Sound, Route, At
<1>2. UNCHANGED <<share, attempt, provider, expiries, lock>>
  BY DEF Route, docVars, boundVars
<1>3. expiries = 0 => lock = r
  BY <1>1 DEF RInv, Routed
<1>4. CASE \E a \in InFlight : Set(r, [req[r] EXCEPT !.pc = "rail", !.att = a])
  <2>1. PICK a \in InFlight : req' = [req EXCEPT ![r] = [req[r] EXCEPT !.pc = "rail", !.att = a]]
    BY <1>4 DEF Set
  <2>2. Proceeds(r)
    BY <1>1, <2>1 DEF Proceeds, Moves, Request
  <2> QED BY <1>2, <2>2, RoutedProceeds
<1>5. CASE \E p \in Providers : /\ {a \in InFlight : provider[a] # p} = {}
                                /\ Set(r, [req[r] EXCEPT !.pc = "count", !.prov = p])
  <2>1. PICK p \in Providers :
           /\ \A a \in InFlight : provider[a] = p
           /\ req' = [req EXCEPT ![r] = [req[r] EXCEPT !.pc = "count", !.prov = p]]
    BY <1>5 DEF Set
  <2>2. Moves(r) /\ req'[r].job = req[r].job /\ req'[r].prov = p
    BY <1>1, <2>1 DEF Moves, Request
  <2> QED BY <1>1, <1>2, <1>3, <2>1, <2>2, RoutedKept
<1> QED BY <1>4, <1>5 DEF Route

LEMMA CountRouted ==
    ASSUME RInv, NEW r \in Requests, Count(r)
    PROVE  Routed' /\ OneLiveProvider'
<1>1. IInv /\ req[r] \in Request /\ req \in [Requests -> Request]
  BY DEF RInv, IInv, TypeOK
<1>2. UNCHANGED <<share, attempt, provider, expiries, lock>> /\ req[r].pc = "count"
  BY DEF Count, docVars, boundVars, At
<1>3. CASE Throw(r)
  BY <1>1, <1>2, <1>3, EndingProceeds, RoutedProceeds
<1>4. CASE \E n \in Attempts : Set(r, [req[r] EXCEPT !.pc = "insert", !.att = n])
  <2>1. PICK n \in Attempts : req' = [req EXCEPT ![r] = [req[r] EXCEPT !.pc = "insert", !.att = n]]
    BY <1>4 DEF Set
  <2>2. Moves(r) /\ req'[r].job = req[r].job /\ req'[r].prov = req[r].prov
    BY <1>1, <2>1 DEF Moves, Request
  <2>3. /\ share = "full" => req[r].prov = Wallet
        /\ expiries = 0 => /\ \A a \in InFlight : provider[a] = req[r].prov
                           /\ req[r].job = "submit" => lock = r
    BY <1>2 DEF RInv, Routed
  <2> QED BY <1>2, <2>2, <2>3, RoutedKept
<1> QED BY <1>3, <1>4 DEF Count

\* The new attempt has the provider of the others, and its maker holds the lock.
LEMMA InsertRouted ==
    ASSUME RInv, NEW r \in Requests, Insert(r)
    PROVE  Routed' /\ OneLiveProvider'
<1> USE DEF At
<1> DEFINE a == req[r].att
<1>1. IInv /\ TypeOK /\ req[r] \in Request /\ req \in [Requests -> Request] /\ a \in Attempts
      /\ req[r].job = "submit" /\ req[r].pc = "insert"
  BY DEF RInv, IInv, TypeOK, Sound, Insert
<1>2. UNCHANGED <<share, expiries, lock>>
  BY DEF Insert, docVars, boundVars
<1>3. CASE attempt[a] # "NONE"
  <2>1. Throw(r) /\ UNCHANGED <<attempt, provider>>
    BY <1>3 DEF Insert, docVars
  <2> QED BY <1>1, <1>2, <2>1, EndingProceeds, RoutedProceeds
<1>4. CASE attempt[a] = "NONE"
  <2>1. /\ attempt' = [attempt EXCEPT ![a] = "INITIATED"]
        /\ provider' = [provider EXCEPT ![a] = req[r].prov]
    BY <1>4 DEF Insert
  <2>2. Proceeds(r)
    <3>1. CASE share = "full"
      BY <1>1, <1>4, <3>1, EnteringProceeds DEF Insert
    <3>2. CASE share # "full"
      <4>1. req' = [req EXCEPT ![r] = [req[r] EXCEPT !.pc = "process", !.prov = "none"]]
        BY <1>4, <3>2 DEF Insert, Set
      <4> QED BY <1>1, <4>1 DEF Proceeds, Moves, Request
    <3> QED BY <3>1, <3>2
  <2>3. /\ provider'[a] = req[r].prov
        /\ \A b \in InFlight' : b = a \/ (b \in InFlight /\ provider'[b] = provider[b])
    BY <1>1, <2>1 DEF TypeOK, InFlight
  <2>4. /\ share = "full" => req[r].prov = Wallet
        /\ expiries = 0 => \A b \in InFlight : provider[b] = req[r].prov
    BY <1>1 DEF RInv, Routed
  <2>5. OneLiveProvider'
    BY <1>2, <2>3, <2>4 DEF OneLiveProvider
  <2>6. /\ \A s \in Requests \ {r} : req'[s] = req[s]
        /\ req'[r].pc \notin {"count", "insert"}
        /\ expiries = 0 => lock = r
        /\ \A s \in Requests : expiries = 0 /\ req[s].job = "submit" => lock = s
        /\ \A s \in Requests : req[s].pc \in {"count", "insert"} => req[s].job = "submit"
    BY <1>1, <2>2 DEF Proceeds, Moves, RInv, Routed, IInv, Sound
  <2>7. Routed'
    <3>1. \A b \in InFlight' : share' = "full" => provider'[b] = Wallet
      BY <1>2, <2>3, <2>4 DEF RInv, Routed
    <3>2. \A s \in Requests : share' = "full" /\ req'[s].pc \in {"count", "insert"} => req'[s].prov = Wallet
      BY <1>2, <2>6 DEF RInv, Routed
    <3>3. ASSUME expiries' = 0, NEW s \in Requests
          PROVE  /\ req'[s].job = "submit" => lock' = s
                 /\ req'[s].pc \notin {"count", "insert"}
      BY <1>1, <1>2, <2>2, <2>6, <3>3 DEF Proceeds
    <3> QED BY <3>1, <3>2, <3>3 DEF Routed
  <2> QED BY <2>5, <2>7
<1> QED BY <1>3, <1>4

LEMMA LockRouted ==
    ASSUME RInv, NEW r \in Requests, Submit(r) \/ Unlock(r) \/ Crash(r)
    PROVE  Routed' /\ OneLiveProvider'
<1>1. req \in [Requests -> Request]
  BY DEF RInv, IInv, TypeOK
<1>2. UNCHANGED <<share, attempt, provider, expiries>>
  BY DEF Submit, Unlock, Crash, docVars, boundVars
<1>3. Moves(r) /\ req'[r].pc \notin {"count", "insert"} /\ (req'[r].job = "submit" => lock' = r)
  <2>1. \/ req' = [req EXCEPT ![r] = Idle]
        \/ req' = [req EXCEPT ![r] = [Idle EXCEPT !.pc = "locking", !.job = "submit"]] /\ lock' = r
    BY DEF Submit, Unlock, Crash, Set, Finish
  <2>2. \/ Moves(r) /\ req'[r] = Idle
        \/ Moves(r) /\ req'[r] = [Idle EXCEPT !.pc = "locking", !.job = "submit"] /\ lock' = r
    BY <1>1, <2>1 DEF Moves
  <2>3. Idle.pc = "idle" /\ Idle.job = "none"
    BY DEF Idle
  <2>4. [Idle EXCEPT !.pc = "locking", !.job = "submit"].pc = "locking"
    BY DEF Idle
  <2> QED BY <2>2, <2>3, <2>4
<1>4. \A s \in Requests \ {r} : lock = s => lock' = s
  BY OrchestratorAssumption DEF Submit, Unlock, Crash
<1> QED BY <1>2, <1>3, <1>4, RoutedKept

LEMMA EventRouted ==
    ASSUME RInv, NEW r \in Requests,
           \/ \E a \in Attempts : Poll(r, a) \/ \E outcome \in Outcomes : Deliver(r, a, outcome)
           \/ Match(r) \/ CloseEvent(r) \/ Rail(r)
    PROVE  Routed' /\ OneLiveProvider'
<1>1. IInv /\ req[r] \in Request /\ req \in [Requests -> Request]
  BY DEF RInv, IInv, TypeOK
<1>2. UNCHANGED <<share, attempt, provider, expiries, lock>>
  BY DEF Poll, Deliver, Match, CloseEvent, Rail, docVars, boundVars
<1>3. CASE \E a \in Attempts : Poll(r, a)
  <2>1. PICK a \in Attempts :
           req' = [req EXCEPT ![r] = [Idle EXCEPT !.pc = "rail", !.job = "poll", !.att = a]]
    BY <1>3 DEF Poll, Set
  <2>2. Proceeds(r)
    BY <1>1, <2>1 DEF Proceeds, Moves, Idle
  <2> QED BY <1>2, <2>2, RoutedProceeds
<1>4. CASE \E a \in Attempts, outcome \in Outcomes : Deliver(r, a, outcome)
  <2>1. PICK a \in Attempts, outcome \in Outcomes :
           req' = [req EXCEPT ![r] = [Idle EXCEPT !.pc = "match", !.job = "webhook", !.att = a,
                                         !.outcome = outcome, !.eventDoc = event'[<<a, outcome>>]]]
    BY <1>4 DEF Deliver, Set
  <2>2. Proceeds(r)
    BY <1>1, <2>1 DEF Proceeds, Moves, Idle
  <2> QED BY <1>2, <2>2, RoutedProceeds
<1>5. CASE Match(r) \/ Rail(r)
  <2>1. \/ Return(r) \/ Throw(r)
        \/ Set(r, Capturing(r, req[r].att)) \/ Set(r, Failing(r, req[r].att))
    BY <1>5 DEF Match, Rail
  <2> QED BY <1>1, <1>2, <2>1, EndingProceeds, EnteringProceeds, RoutedProceeds
<1>6. CASE CloseEvent(r)
  <2>1. Proceeds(r)
    BY <1>1, <1>6 DEF CloseEvent, Finish, Set, Idle, Proceeds, Moves
  <2> QED BY <1>2, <2>1, RoutedProceeds
<1> QED BY <1>3, <1>4, <1>5, <1>6

LEMMA HandlerRouted ==
    ASSUME RInv, NEW r \in Requests, Handler(r)
    PROVE  Routed' /\ OneLiveProvider'
<1> USE DEF At
<1>1. IInv /\ TypeOK /\ req[r] \in Request /\ req \in [Requests -> Request]
  BY DEF RInv, IInv, TypeOK
<1>2. UNCHANGED <<share, provider, expiries, lock>>
  BY DEF Handler, ReadAttempt, RereadIntent, SaveAttempt, SaveIntent, WalletStep, PostCapture,
         ReadOrder, SaveOrder, Report, Enqueue, docVars, boundVars
<1>3. CASE ReadAttempt(r) \/ RereadIntent(r)
  <2>1. \E p \in {"c_intent_read", "f_intent_read", "c_attempt", "f_attempt"} :
           \/ req' = [req EXCEPT ![r] = [req[r] EXCEPT !.attDoc = attempt[req[r].att], !.pc = p]]
           \/ req' = [req EXCEPT ![r] = [req[r] EXCEPT !.intentDoc = intent, !.pc = p]]
    BY <1>3 DEF ReadAttempt, RereadIntent, Set
  <2>2. Proceeds(r)
    BY <1>1, <2>1 DEF Proceeds, Moves, Request
  <2> QED BY <1>2, <1>3, <2>2, RoutedProceeds DEF ReadAttempt, RereadIntent, docVars
<1>4. CASE SaveAttempt(r)
  <2>1. {"CAPTURED", "FAILED"} \subseteq AttemptStatuses /\ {"c_intent", "f_intent"} \subseteq Steps
    BY DEF AttemptStatuses, Concluded, AfterCapture, Steps
  <2>2. \/ Throw(r) /\ UNCHANGED attempt
        \/ /\ \E to \in {"CAPTURED", "FAILED"} :
                 attempt' \in {attempt, [attempt EXCEPT ![req[r].att] = to]}
           /\ Proceeds(r)
    BY <1>1, <1>4, <2>1, SetAttemptMoves DEF SaveAttempt, Proceeds
  <2>3. Proceeds(r)
    BY <1>1, <1>2, <2>2, EndingProceeds
  <2>4. \A a \in Attempts : attempt'[a] = "INITIATED" => attempt[a] = "INITIATED"
    BY <1>1, <2>2 DEF TypeOK
  <2> QED BY <1>2, <2>3, <2>4, RoutedProceeds
<1>5. CASE SaveIntent(r)
  <2>1. /\ {"SUCCEEDED", "REQUIRES_PAYMENT_METHOD"} \subseteq IntentStatuses
        /\ {"c_wallet", "f_release"} \subseteq Steps
    BY DEF IntentStatuses, Steps
  <2>2. Throw(r) \/ Proceeds(r)
    BY <1>1, <1>5, <2>1, SetIntentMoves DEF SaveIntent, Proceeds
  <2>3. Proceeds(r)
    BY <1>1, <1>2, <2>2, EndingProceeds
  <2> QED BY <1>2, <1>5, <2>3, RoutedProceeds DEF SaveIntent
<1>6. CASE WalletStep(r) \/ SaveOrder(r) \/ Report(r)
  <2>1. \E p \in {"c_ledger", "f_outbox", "c_report", "c_outbox"} :
           req' = [req EXCEPT ![r] = [req[r] EXCEPT !.pc = p]]
    BY <1>6 DEF WalletStep, SaveOrder, Report, Goto, Set
  <2>2. Proceeds(r)
    BY <1>1, <2>1 DEF Proceeds, Moves, Request
  <2> QED BY <1>2, <1>6, <2>2, RoutedProceeds DEF WalletStep, SaveOrder, Report, docVars
<1>7. CASE PostCapture(r) \/ ReadOrder(r) \/ Enqueue(r)
  <2>1. \/ Return(r)
        \/ req[r].pc = "c_order_read" /\ \E t : req' = [req EXCEPT ![r] = [req[r] EXCEPT !.todo = t]]
        \/ req' = [req EXCEPT ![r] = [req[r] EXCEPT !.pc = "c_order"]]
        \/ \E t : req' = [req EXCEPT ![r] = [req[r] EXCEPT !.pc = "c_order_read", !.todo = t]]
    <3>1. CASE PostCapture(r)
      BY <3>1 DEF PostCapture, Set
    <3>2. CASE ReadOrder(r)
      BY <3>2 DEF ReadOrder, Goto, Set
    <3>3. CASE Enqueue(r)
      BY <3>3 DEF Enqueue, Set
    <3> QED BY <1>7, <3>1, <3>2, <3>3
  <2>2. Proceeds(r)
    <3>1. ASSUME NEW t, req[r].pc = "c_order_read", req' = [req EXCEPT ![r] = [req[r] EXCEPT !.todo = t]]
          PROVE  Proceeds(r)
      BY <1>1, <3>1 DEF Proceeds, Moves, Request
    <3>2. ASSUME NEW t, req' = [req EXCEPT ![r] = [req[r] EXCEPT !.pc = "c_order_read", !.todo = t]]
          PROVE  Proceeds(r)
      BY <1>1, <3>2 DEF Proceeds, Moves, Request
    <3>3. ASSUME req' = [req EXCEPT ![r] = [req[r] EXCEPT !.pc = "c_order"]]
          PROVE  Proceeds(r)
      BY <1>1, <3>3 DEF Proceeds, Moves, Request
    <3> QED BY <1>1, <1>2, <2>1, <3>1, <3>2, <3>3, EndingProceeds
  <2> QED BY <1>2, <1>7, <2>2, RoutedProceeds DEF PostCapture, ReadOrder, Enqueue, docVars
<1> QED BY <1>3, <1>4, <1>5, <1>6, <1>7 DEF Handler

LEMMA EnvironmentRouted ==
    ASSUME RInv, \/ \E a \in Attempts : GatewayCaptures(a) \/ GatewayDeclines(a)
                 \/ Reclaim \/ Expire \/ UNCHANGED vars
    PROVE  Routed' /\ OneLiveProvider'
<1>1. UNCHANGED <<share, attempt, provider, req>>
  BY DEF GatewayCaptures, GatewayDeclines, Reclaim, Expire, vars, docVars
<1>2. expiries' = 0 => /\ expiries = 0
                       /\ \A s \in Requests : lock = s => lock' = s
  BY OrchestratorAssumption
  DEF GatewayCaptures, GatewayDeclines, Reclaim, Expire, vars, boundVars, RInv, IInv, TypeOK
<1>3. InFlight' = InFlight
  BY <1>1 DEF InFlight
<1> QED BY <1>1, <1>2, <1>3 DEF RInv, Routed, OneLiveProvider

LEMMA RoutedInvariance == Spec => []RInv
<1>1. Init => RInv
  BY InitIInv DEF Init, Idle, RInv, Routed, OneLiveProvider, InFlight
<1>2. RInv /\ [Next]_vars => RInv'
  <2> SUFFICES ASSUME RInv, [Next]_vars PROVE Routed' /\ OneLiveProvider'
    BY NextIInv DEF RInv
  <2>1. ASSUME NEW r \in Requests, Start(r) \/ Advance(r) \/ Crash(r)
        PROVE  Routed' /\ OneLiveProvider'
    BY <2>1, SubmissionRouted, ReserveRouted, RouteRouted, CountRouted, InsertRouted, LockRouted,
       EventRouted, HandlerRouted DEF Start, Advance, Submission
  <2> QED BY <2>1, EnvironmentRouted DEF Next
<1> QED BY <1>1, <1>2, PTL DEF Spec

\* The failover guard of submitPaymentAttempt: while no lock expires, all attempts in
\* flight are bound to one gateway. The guard alone does not give it: what it has
\* seen is still true when the attempt is inserted because its request holds
\* attempt:intent:<id> until then.
THEOREM LiveProviderUnique == Spec => []OneLiveProvider
<1>1. RInv => OneLiveProvider
  BY DEF RInv
<1> QED BY <1>1, RoutedInvariance, PTL

-----------------------------------------------------------------------------
(* The announcement of a confirmed order.                                  *)

\* A step of r writes the locals of r and of no other request.
LEMMA OthersStay ==
    ASSUME IInv, NEW r \in Requests, Start(r) \/ Advance(r) \/ Crash(r)
    PROVE  \A s \in Requests \ {r} : req'[s] = req[s]
<1> SUFFICES ASSUME NEW s \in Requests \ {r} PROVE req'[s] = req[s]
  OBVIOUS
<1>0. req \in [Requests -> Request]
  BY DEF IInv, TypeOK
<1>1. ASSUME Return(r) \/ Throw(r) \/ Finish(r) PROVE req'[s] = req[s]
  <2>1. Finish(r) \/ \E p \in {"unlock", "processed", "failed"} : Goto(r, p)
    BY <1>1 DEF Return, Throw
  <2> QED BY <1>0, <2>1 DEF Goto, Finish, Set
<1>2. CASE Start(r)
  BY <1>0, <1>2 DEF Start, Submit, Poll, Deliver, Set
<1>3. CASE Submission(r)
  <2>1. CASE ReadIntent(r)
    <3>1. \/ Goto(r, "unlock")
          \/ Set(r, [req[r] EXCEPT !.intentDoc = intent,
                        !.pc = IF share = "none" THEN "route" ELSE "reserve"])
      BY <2>1 DEF ReadIntent
    <3> QED BY <1>0, <3>1 DEF Goto, Set
  <2>2. CASE Reserve(r)
    <3>1. \/ Throw(r)
          \/ Set(r, [req[r] EXCEPT !.pc = AfterReserve,
                        !.prov = IF share = "full" THEN Wallet ELSE "none"])
      BY <2>2 DEF Reserve
    <3> QED BY <1>0, <1>1, <3>1 DEF Set
  <2>3. CASE Route(r)
    BY <1>0, <2>3 DEF Route, Set
  <2>4. CASE Count(r)
    <3>1. Throw(r) \/ \E n \in Attempts : Set(r, [req[r] EXCEPT !.pc = "insert", !.att = n])
      BY <2>4 DEF Count
    <3> QED BY <1>0, <1>1, <3>1 DEF Set
  <2>5. CASE Insert(r)
    <3>1. \/ Throw(r) \/ Set(r, Capturing(r, req[r].att))
          \/ Set(r, [req[r] EXCEPT !.pc = "process", !.prov = "none"])
      BY <2>5 DEF Insert
    <3> QED BY <1>0, <1>1, <3>1 DEF Set
  <2>6. CASE Process(r)
    BY <1>0, <1>1, <2>6 DEF Process, SetIntent, Set
  <2>7. CASE Call(r)
    <3>1. Throw(r) \/ \E reply \in Replies : Set(r, [req[r] EXCEPT !.pc = "save", !.outcome = reply.answer])
      BY <2>7 DEF Call
    <3> QED BY <1>0, <1>1, <3>1 DEF Set
  <2>8. CASE Save(r) \/ Unlock(r)
    <3>1. \/ Set(r, Capturing(r, req[r].att)) \/ Set(r, Failing(r, req[r].att))
          \/ Goto(r, "unlock") \/ Finish(r)
      BY <2>8 DEF Save, Unlock
    <3> QED BY <1>0, <3>1 DEF Goto, Finish, Set
  <2> QED BY <1>3, <2>1, <2>2, <2>3, <2>4, <2>5, <2>6, <2>7, <2>8 DEF Submission
<1>4. CASE Match(r) \/ Rail(r) \/ CloseEvent(r) \/ Crash(r)
  <2>1. \/ Return(r) \/ Throw(r) \/ Finish(r)
        \/ Set(r, Capturing(r, req[r].att)) \/ Set(r, Failing(r, req[r].att))
    BY <1>4 DEF Match, Rail, CloseEvent, Crash
  <2> QED BY <1>0, <1>1, <2>1 DEF Set
<1>5. CASE Handler(r)
  <2>1. CASE ReadAttempt(r) \/ RereadIntent(r) \/ PostCapture(r)
    BY <1>0, <2>1 DEF ReadAttempt, RereadIntent, PostCapture, Set
  <2>2. CASE SaveAttempt(r) \/ SaveIntent(r)
    BY <1>0, <1>1, <2>2 DEF SaveAttempt, SaveIntent, SetAttempt, SetIntent, Set
  <2>3. CASE WalletStep(r) \/ SaveOrder(r) \/ Report(r)
    BY <1>0, <2>3 DEF WalletStep, SaveOrder, Report, Goto, Set
  <2>4. CASE ReadOrder(r) \/ Enqueue(r)
    BY <1>0, <1>1, <2>4 DEF ReadOrder, Enqueue, Goto, Set
  <2> QED BY <1>5, <2>1, <2>2, <2>3, <2>4 DEF Handler
<1> QED BY <1>2, <1>3, <1>4, <1>5 DEF Advance

\* What keeps an announcement: the event stays in the outbox, and who is about to
\* enqueue it stays about to.
LEMMA AnnouncedStays ==
    ASSUME ConfirmedIsAnnounced, orders' = orders, crashes' = crashes, lapses \subseteq lapses',
           outbox \subseteq outbox',
           \A s \in Requests : req[s].pc \in {"c_report", "c_outbox"} => req'[s] = req[s]
    PROVE  ConfirmedIsAnnounced'
<1>1. \A a \in Attempts : Enqueued(a, "CAPTURED") => Enqueued(a, "CAPTURED")'
  BY DEF Enqueued
<1> QED BY <1>1 DEF ConfirmedIsAnnounced, Confirmed

LEMMA AnnouncementKept ==
    ASSUME IInv, ConfirmedIsAnnounced, [Next]_vars
    PROVE  ConfirmedIsAnnounced'
<1> USE DEF At
<1>1. ASSUME NEW r \in Requests, Crash(r) PROVE ConfirmedIsAnnounced'
  <2>1. crashes \in Nat /\ crashes' = crashes + 1
    BY <1>1 DEF Crash, IInv, TypeOK
  <2> QED BY <2>1 DEF ConfirmedIsAnnounced
<1>2. ASSUME NEW r \in Requests, SaveOrder(r) \/ Report(r) PROVE ConfirmedIsAnnounced'
  <2>1. req \in [Requests -> Request]
    BY DEF IInv, TypeOK
  <2>2. \E p \in {"c_report", "c_outbox"} : req' = [req EXCEPT ![r] = [req[r] EXCEPT !.pc = p]]
    BY <1>2 DEF SaveOrder, Report, Goto, Set
  <2>3. req'[r].pc \in {"c_report", "c_outbox"}
    BY <2>1, <2>2 DEF Request
  <2> QED BY <2>3 DEF ConfirmedIsAnnounced
<1>3. ASSUME NEW r \in Requests, Enqueue(r) PROVE ConfirmedIsAnnounced'
  <2>1. UNCHANGED <<orders, crashes>>
    BY <1>3 DEF Enqueue
  <2>2. CASE req[r].pc = "c_outbox"
    <3>1. EnqueueOnce(r, "CAPTURED", Current(r)) /\ req[r].pc = "c_outbox"
      BY <1>3, <2>2 DEF Enqueue
    <3>2. Current(r) \in Orders /\ req[r].att \in Attempts
      BY <2>2, CurrentIsAnOrder DEF IInv, Sound
    <3>3. "c_outbox" \in lapses' \/ \E a \in Attempts : Enqueued(a, "CAPTURED")'
      BY <3>1, <3>2 DEF EnqueueOnce, Lapse, Enqueued
    <3> QED BY <3>3 DEF ConfirmedIsAnnounced
  <2>3. CASE req[r].pc = "f_outbox"
    <3>1. EnqueueOnce(r, "FAILED", "none")
      BY <1>3, <2>3 DEF Enqueue
    <3>2. outbox \subseteq outbox' /\ lapses \subseteq lapses'
      BY <3>1 DEF EnqueueOnce, Lapse
    <3>3. \A s \in Requests \ {r} : req'[s] = req[s]
      BY <1>3, OthersStay DEF Advance, Handler
    <3> QED BY <2>1, <2>3, <3>2, <3>3, AnnouncedStays
  <2> QED BY <1>3, <2>2, <2>3 DEF Enqueue
<1>4. ASSUME NEW r \in Requests, Start(r) \/ Advance(r),
             ~SaveOrder(r), ~Report(r), ~Enqueue(r)
      PROVE  ConfirmedIsAnnounced'
  <2>1. /\ UNCHANGED <<orders, crashes, outbox>> /\ lapses \subseteq lapses'
        /\ req[r].pc \notin {"c_report", "c_outbox"}
    BY <1>4 DEF Lapse, Start, Submit, Poll, Deliver, Advance, Submission, ReadIntent, Reserve, Route,
       Count, Insert, Process, Call, Save, Unlock, Match, CloseEvent, Rail, Handler,
       ReadAttempt, RereadIntent, SaveAttempt, SaveIntent, WalletStep, PostCapture, ReadOrder,
       effectVars, boundVars
  <2>2. \A s \in Requests \ {r} : req'[s] = req[s]
    BY <1>4, OthersStay
  <2> QED BY <2>1, <2>2, AnnouncedStays
<1>5. CASE \/ \E a \in Attempts : GatewayCaptures(a) \/ GatewayDeclines(a)
           \/ Reclaim \/ Expire \/ UNCHANGED vars
  <2>1. UNCHANGED <<orders, crashes, lapses, outbox, req>>
    BY <1>5 DEF GatewayCaptures, GatewayDeclines, Reclaim, Expire, vars, effectVars, boundVars
  <2> QED BY <2>1, AnnouncedStays
<1> QED BY <1>1, <1>2, <1>3, <1>4, <1>5 DEF Next

\* Whoever confirms an order goes on to enqueue its event: while no request dies, a
\* confirmed order has an event of a capture in the outbox, or a handler that is about
\* to put one there, however many handlers overlap.
THEOREM ConfirmationsAreAnnounced == Spec => []ConfirmedIsAnnounced
<1>1. Init => ConfirmedIsAnnounced
  BY DEF Init, ConfirmedIsAnnounced, Confirmed
<1>2. IInv /\ ConfirmedIsAnnounced /\ [Next]_vars => ConfirmedIsAnnounced'
  BY AnnouncementKept
<1> QED BY Invariance, <1>1, <1>2, PTL DEF Spec

-----------------------------------------------------------------------------
(* The promise (module PaymentPromise). What it needs besides: the order   *)
(* that a handler is about to announce is confirmed.                       *)

Announcing == {"c_report", "c_outbox"}
Saved == \A r \in Requests : req[r].pc \in Announcing => Confirmed(Current(r))

\* Nobody gets to the announcement but from saving the order.
LEMMA Arrivals ==
    ASSUME IInv, NEW r \in Requests, Start(r) \/ Advance(r) \/ Crash(r),
           ~SaveOrder(r), ~Report(r)
    PROVE  req'[r].pc \notin Announcing
<1> USE DEF Announcing
<1>0. req \in [Requests -> Request] /\ req[r] \in Request
  BY DEF IInv, TypeOK
<1>1. ASSUME NEW q, Set(r, q), q.pc \notin Announcing PROVE req'[r].pc \notin Announcing
  BY <1>0, <1>1 DEF Set
<1>2. ASSUME NEW p \in Steps \ Announcing, Goto(r, p) PROVE req'[r].pc \notin Announcing
  BY <1>0, <1>2 DEF Goto, Set, Request
<1>3. ASSUME Return(r) \/ Throw(r) \/ Finish(r) PROVE req'[r].pc \notin Announcing
  <2>1. Finish(r) \/ \E p \in {"unlock", "processed", "failed"} : Goto(r, p)
    BY <1>3 DEF Return, Throw
  <2>2. Finish(r) => req'[r].pc \notin Announcing
    BY <1>1 DEF Finish, Idle
  <2> QED BY <1>2, <2>1, <2>2 DEF Steps
<1>4. ASSUME NEW a, Set(r, Capturing(r, a)) \/ Set(r, Failing(r, a))
      PROVE  req'[r].pc \notin Announcing
  <2>1. Capturing(r, a).pc = "c_attempt_read" /\ Failing(r, a).pc = "f_attempt_read"
    BY <1>0 DEF Capturing, Failing, Request
  <2> QED BY <1>1, <1>4, <2>1
<1>5. CASE Start(r)
  <2>1. Idle.pc = "idle"
    BY DEF Idle
  <2>2. CASE Submit(r)
    BY <1>0, <2>2 DEF Submit, Set, Idle
  <2>3. CASE \E a \in Attempts : Poll(r, a)
    BY <1>0, <2>3 DEF Poll, Set, Idle
  <2>4. CASE \E a \in Attempts : \E outcome \in Outcomes : Deliver(r, a, outcome)
    BY <1>0, <2>4 DEF Deliver, Set, Idle
  <2> QED BY <1>5, <2>2, <2>3, <2>4 DEF Start
<1>6. CASE Submission(r)
  <2>1. CASE ReadIntent(r)
    <3>1. CASE Goto(r, "unlock")
      BY <1>2, <3>1 DEF Steps
    <3>2. CASE Set(r, [req[r] EXCEPT !.intentDoc = intent,
                         !.pc = IF share = "none" THEN "route" ELSE "reserve"])
      BY <1>0, <3>2 DEF Set, Request
    <3> QED BY <2>1, <3>1, <3>2 DEF ReadIntent
  <2>2. CASE Reserve(r)
    <3>1. AfterReserve \in {"count", "route"}
      BY DEF AfterReserve
    <3>2. CASE Set(r, [req[r] EXCEPT !.pc = AfterReserve,
                         !.prov = IF share = "full" THEN Wallet ELSE "none"])
      BY <1>0, <3>1, <3>2 DEF Set, Request
    <3> QED BY <1>3, <2>2, <3>2 DEF Reserve
  <2>3. CASE Route(r)
    <3>1. ASSUME NEW p, Set(r, [req[r] EXCEPT !.pc = "count", !.prov = p])
          PROVE  req'[r].pc \notin Announcing
      BY <1>0, <3>1 DEF Set, Request
    <3>2. ASSUME NEW a, Set(r, [req[r] EXCEPT !.pc = "rail", !.att = a])
          PROVE  req'[r].pc \notin Announcing
      BY <1>0, <3>2 DEF Set, Request
    <3> QED BY <2>3, <3>1, <3>2 DEF Route
  <2>4. CASE Count(r)
    <3>1. CASE \E n \in Attempts : Set(r, [req[r] EXCEPT !.pc = "insert", !.att = n])
      BY <1>0, <3>1 DEF Set, Request
    <3> QED BY <1>3, <2>4, <3>1 DEF Count
  <2>5. CASE Insert(r)
    <3>1. CASE Set(r, [req[r] EXCEPT !.pc = "process", !.prov = "none"])
      BY <1>0, <3>1 DEF Set, Request
    <3>2. \/ Throw(r) \/ Set(r, Capturing(r, req[r].att))
          \/ Set(r, [req[r] EXCEPT !.pc = "process", !.prov = "none"])
      BY <2>5 DEF Insert
    <3> QED BY <1>3, <1>4, <3>1, <3>2
  <2>6. CASE Process(r)
    <3>1. CASE Set(r, [req[r] EXCEPT !.pc = "call", !.intentDoc = "NONE"])
      BY <1>0, <3>1 DEF Set, Request
    <3> QED BY <1>3, <2>6, <3>1 DEF Process, SetIntent
  <2>7. CASE Call(r)
    <3>1. ASSUME NEW answer, Set(r, [req[r] EXCEPT !.pc = "save", !.outcome = answer])
          PROVE  req'[r].pc \notin Announcing
      BY <1>0, <3>1 DEF Set, Request
    <3>2. Throw(r) \/ \E answer : Set(r, [req[r] EXCEPT !.pc = "save", !.outcome = answer])
      BY <2>7 DEF Call
    <3> QED BY <1>3, <3>1, <3>2
  <2>8. CASE Save(r) \/ Unlock(r)
    <3>1. \/ Set(r, Capturing(r, req[r].att)) \/ Set(r, Failing(r, req[r].att))
          \/ Goto(r, "unlock") \/ Finish(r)
      BY <2>8 DEF Save, Unlock
    <3> QED BY <1>2, <1>3, <1>4, <3>1 DEF Steps
  <2> QED BY <1>6, <2>1, <2>2, <2>3, <2>4, <2>5, <2>6, <2>7, <2>8 DEF Submission
<1>7. CASE Match(r) \/ Rail(r) \/ CloseEvent(r) \/ Crash(r)
  <2>1. \/ Return(r) \/ Throw(r) \/ Finish(r)
        \/ Set(r, Capturing(r, req[r].att)) \/ Set(r, Failing(r, req[r].att))
    BY <1>7 DEF Match, Rail, CloseEvent, Crash
  <2> QED BY <1>3, <1>4, <2>1
<1>8. CASE Handler(r)
  <2>1. CASE ReadAttempt(r) \/ RereadIntent(r) \/ PostCapture(r)
    BY <1>0, <2>1 DEF ReadAttempt, RereadIntent, PostCapture, Set, Request
  <2>2. CASE SaveAttempt(r)
    <3>1. CASE \E p \in {"c_intent", "f_intent"} : Set(r, [req[r] EXCEPT !.pc = p, !.attDoc = "NONE"])
      BY <1>0, <3>1 DEF Set, Request
    <3> QED BY <1>3, <2>2, <3>1 DEF SaveAttempt, SetAttempt
  <2>3. CASE SaveIntent(r)
    <3>1. CASE \E p \in {"c_wallet", "f_release"} : Set(r, [req[r] EXCEPT !.pc = p, !.intentDoc = "NONE"])
      BY <1>0, <3>1 DEF Set, Request
    <3> QED BY <1>3, <2>3, <3>1 DEF SaveIntent, SetIntent
  <2>4. CASE WalletStep(r)
    <3>1. Goto(r, "c_ledger") \/ Goto(r, "f_outbox")
      BY <2>4 DEF WalletStep
    <3> QED BY <1>2, <3>1 DEF Steps
  <2>5. CASE ReadOrder(r)
    <3>1. ASSUME NEW o, Set(r, [req[r] EXCEPT !.todo = @ \ {o}])
          PROVE  req'[r].pc \notin Announcing
      BY <1>0, <2>5, <3>1 DEF Set, Request, ReadOrder, At
    <3>2. \/ Return(r) \/ Goto(r, "c_order")
          \/ \E o : Set(r, [req[r] EXCEPT !.todo = @ \ {o}])
      BY <2>5 DEF ReadOrder
    <3> QED BY <1>2, <1>3, <3>1, <3>2 DEF Steps
  <2>6. CASE Enqueue(r)
    <3>1. CASE Set(r, [req[r] EXCEPT !.pc = "c_order_read", !.todo = @ \ {Current(r)}])
      BY <1>0, <3>1 DEF Set, Request
    <3> QED BY <1>3, <2>6, <3>1 DEF Enqueue
  <2> QED BY <1>8, <2>1, <2>2, <2>3, <2>4, <2>5, <2>6 DEF Handler
<1> QED BY <1>5, <1>6, <1>7, <1>8 DEF Advance

\* Orders are confirmed one at a time and stay so.
LEMMA OrdersSaved ==
    ASSUME IInv, [Next]_vars
    PROVE  \/ UNCHANGED orders
           \/ \E r \in Requests : SaveOrder(r)
<1>1. ASSUME NEW r \in Requests, Start(r) \/ Advance(r) \/ Crash(r), ~SaveOrder(r)
      PROVE  UNCHANGED orders
  BY <1>1 DEF Start, Submit, Poll, Deliver, Advance, Submission, ReadIntent, Reserve, Route,
     Count, Insert, Process, Call, Save, Unlock, Match, CloseEvent, Rail, Handler,
     ReadAttempt, RereadIntent, SaveAttempt, SaveIntent, WalletStep, PostCapture, ReadOrder,
     Report, Enqueue, Crash, effectVars
<1>2. CASE UNCHANGED effectVars
  BY <1>2 DEF effectVars
<1> QED BY <1>1, <1>2 DEF Next, GatewayCaptures, GatewayDeclines, Reclaim, Expire, vars

LEMMA ConfirmedStays ==
    ASSUME IInv, [Next]_vars, NEW o \in Orders, Confirmed(o)
    PROVE  Confirmed(o)'
<1>1. ASSUME NEW r \in Requests, SaveOrder(r) PROVE Confirmed(o)'
  BY <1>1 DEF SaveOrder, Confirmed, IInv, TypeOK
<1> QED BY <1>1, OrdersSaved DEF Confirmed

LEMMA SavedKept == IInv /\ Saved /\ [Next]_vars => Saved'
<1> SUFFICES ASSUME IInv, Saved, [Next]_vars, NEW s \in Requests, req'[s].pc \in Announcing
             PROVE  Confirmed(Current(s))'
  BY DEF Saved
<1>0. req \in [Requests -> Request] /\ req[s] \in Request
  BY DEF IInv, TypeOK
<1>1. CASE req'[s] = req[s]
  <2>1. Confirmed(Current(s)) /\ Current(s) \in Orders
    BY <1>1, CurrentIsAnOrder DEF Saved, Announcing
  <2>2. Current(s)' = Current(s)
    BY <1>1 DEF Current
  <2> QED BY <2>1, <2>2, ConfirmedStays DEF Confirmed
<1>2. CASE SaveOrder(s)
  <2>1. /\ orders' = [orders EXCEPT ![Current(s)] = "CAPTURED"]
        /\ req' = [req EXCEPT ![s] = [req[s] EXCEPT !.pc = "c_report"]]
        /\ req[s].pc = "c_order"
    BY <1>2 DEF SaveOrder, Goto, Set, At
  <2>2. Current(s)' = Current(s)
    BY <1>0, <2>1 DEF Current, Request
  <2> QED BY <2>1, <2>2, CurrentIsAnOrder DEF Confirmed, IInv, TypeOK
<1>3. CASE Report(s)
  <2>1. /\ UNCHANGED orders /\ req[s].pc = "c_report"
        /\ req' = [req EXCEPT ![s] = [req[s] EXCEPT !.pc = "c_outbox"]]
    BY <1>3 DEF Report, Goto, Set, At
  <2>2. Current(s)' = Current(s)
    BY <1>0, <2>1 DEF Current, Request
  <2> QED BY <2>1, <2>2 DEF Saved, Announcing, Confirmed
<1>4. CASE ~SaveOrder(s) /\ ~Report(s) /\ req'[s] # req[s]
  <2>1. ASSUME NEW r \in Requests, Start(r) \/ Advance(r) \/ Crash(r) PROVE FALSE
    BY <1>4, <2>1, OthersStay, Arrivals
  <2>2. UNCHANGED req
    BY <2>1 DEF Next, GatewayCaptures, GatewayDeclines, Reclaim, Expire, vars
  <2> QED BY <1>4, <2>2
<1> QED BY <1>1, <1>2, <1>3, <1>4

-----------------------------------------------------------------------------
(* Each step is a step of the promise or leaves what it talks about alone. *)

Promised == <<gateway, journal, Slipped, orders, reservation, outbox>>

LEMMA PromisedStutter ==
    ASSUME UNCHANGED Promised
    PROVE  UNCHANGED Promise!promiseVars
BY DEF Promised, Promise!promiseVars, PaidAt, Confirmed

\* What a gateway adds to an attempt is at most a capture.
LEMMA GatewayPromised ==
    ASSUME IInv, NEW a \in Attempts, NEW facts, gateway' = [gateway EXCEPT ![a] = facts],
           PaidAt(a) => "captured" \in facts, UNCHANGED <<journal, Slipped, orders, reservation, outbox>>
    PROVE  [Promise!Next]_(Promise!promiseVars)
<1>1. gateway \in [Attempts -> SUBSET GatewayFacts]
  BY DEF IInv, TypeOK
<1>2. \A b \in Attempts : PaidAt(b)' <=> (PaidAt(b) \/ (b = a /\ "captured" \in facts))
  BY <1>1 DEF PaidAt
<1>3. UNCHANGED {o \in Orders : Confirmed(o)}
  BY DEF Confirmed
<1>4. CASE PaidAt(a) \/ "captured" \notin facts
  <2>1. {b \in Attempts : PaidAt(b)}' = {b \in Attempts : PaidAt(b)}
    BY <1>2, <1>4
  <2> QED BY <1>3, <2>1 DEF Promise!promiseVars
<1>5. CASE ~PaidAt(a) /\ "captured" \in facts
  <2>1. {b \in Attempts : PaidAt(b)}' = {b \in Attempts : PaidAt(b)} \cup {a}
    BY <1>2, <1>5
  <2>2. Promise!Capture(a)
    BY <1>3, <1>5, <2>1 DEF Promise!Capture
  <2> QED BY <2>2 DEF Promise!Next
<1> QED BY <1>4, <1>5

LEMMA CallPromised ==
    ASSUME IInv, NEW r \in Requests, Call(r)
    PROVE  [Promise!Next]_(Promise!promiseVars)
<1>1. PICK a \in Attempts : a = req[r].att
  BY DEF Call, At, IInv, Sound
<1>2. gateway[a] = {}
  BY <1>1 DEF Call, At, IInv, Sound
<1>3. PICK reply \in Replies : gateway' = [gateway EXCEPT ![a] = reply.facts]
  BY <1>1 DEF Call
<1>4. UNCHANGED <<journal, Slipped, orders, reservation, outbox>>
  BY DEF Call, Slipped, effectVars, boundVars
<1> QED BY <1>2, <1>3, <1>4, GatewayPromised DEF PaidAt

LEMMA CapturePromised ==
    ASSUME IInv, NEW a \in Attempts, GatewayCaptures(a) \/ GatewayDeclines(a)
    PROVE  [Promise!Next]_(Promise!promiseVars)
<1>1. PICK fact \in {"captured", "declined"} :
         gateway' = [gateway EXCEPT ![a] = gateway[a] \cup {fact}]
  BY DEF GatewayCaptures, GatewayDeclines
<1>2. UNCHANGED <<journal, Slipped, orders, reservation, outbox>>
  BY DEF GatewayCaptures, GatewayDeclines, Slipped, effectVars, boundVars
<1> QED BY <1>1, <1>2, GatewayPromised DEF PaidAt

LEMMA PostCapturePromised ==
    ASSUME IInv, NEW r \in Requests, PostCapture(r)
    PROVE  [Promise!Next]_(Promise!promiseVars)
<1>1. PICK a \in Attempts : a = req[r].att
  BY DEF PostCapture, At, IInv, Sound
<1>2. PaidAt(a)
  BY <1>1 DEF PostCapture, At, IInv, Sound
<1>3. /\ UNCHANGED <<gateway, orders, reservation, outbox>>
      /\ \/ journal' = journal \cup {a} /\ Slipped' = Slipped
         \/ journal' = journal /\ Slipped'
  BY <1>1 DEF PostCapture, Lapse, At, Slipped
<1>4. /\ UNCHANGED {b \in Attempts : PaidAt(b)}
      /\ UNCHANGED {o \in Orders : Confirmed(o)}
  BY <1>3 DEF PaidAt, Confirmed
<1>5. CASE journal' = journal /\ Slipped' = Slipped
  BY <1>3, <1>5, PromisedStutter DEF Promised
<1>6. CASE journal' = journal \cup {a} /\ a \notin journal /\ Slipped' = Slipped
  <2>1. Promise!Book(a)
    BY <1>2, <1>3, <1>4, <1>6 DEF Promise!Book
  <2> QED BY <2>1 DEF Promise!Next
<1>7. CASE journal' = journal /\ Slipped' /\ ~Slipped
  <2>1. Promise!Slip
    BY <1>2, <1>3, <1>4, <1>7 DEF Promise!Slip, Slipped
  <2> QED BY <2>1 DEF Promise!Next
<1> QED BY <1>3, <1>5, <1>6, <1>7 DEF Slipped

LEMMA SaveOrderPromised ==
    ASSUME IInv, NEW r \in Requests, SaveOrder(r)
    PROVE  [Promise!Next]_(Promise!promiseVars)
<1>1. PICK o \in Orders : o = Current(r)
  BY CurrentIsAnOrder DEF SaveOrder, At
<1>2. /\ \E a \in Attempts : PaidAt(a)
      /\ journal # {} \/ Slipped
      /\ orders \in [Orders -> {"PENDING", "CAPTURED"}]
  BY DEF SaveOrder, At, IInv, Sound, TypeOK
<1>3. /\ orders' = [orders EXCEPT ![o] = "CAPTURED"]
      /\ UNCHANGED <<gateway, journal, Slipped, reservation, outbox>>
  BY <1>1 DEF SaveOrder, Slipped, boundVars
<1>4. UNCHANGED {b \in Attempts : PaidAt(b)}
  BY <1>3 DEF PaidAt
<1>5. {p \in Orders : Confirmed(p)}' = {p \in Orders : Confirmed(p)} \cup {o}
  BY <1>2, <1>3 DEF Confirmed
<1>6. CASE Confirmed(o)
  BY <1>3, <1>4, <1>5, <1>6 DEF Promise!promiseVars
<1>7. CASE ~Confirmed(o)
  <2>1. Promise!Confirm(o)
    BY <1>2, <1>3, <1>4, <1>5, <1>7 DEF Promise!Confirm
  <2> QED BY <2>1 DEF Promise!Next
<1> QED BY <1>6, <1>7

LEMMA EnqueuePromised ==
    ASSUME IInv, Saved, NEW r \in Requests, Enqueue(r)
    PROVE  [Promise!Next]_(Promise!promiseVars)
<1> DEFINE Told == {t \in Attempts \X Orders : <<t[1], "CAPTURED", t[2]>> \in outbox}
<1>1. UNCHANGED <<gateway, journal, Slipped, orders, reservation>>
  BY DEF Enqueue, EnqueueOnce, Lapse, At, Slipped
<1>2. PICK a \in Attempts : a = req[r].att
  BY DEF Enqueue, At, IInv, Sound
<1>3. /\ UNCHANGED {b \in Attempts : PaidAt(b)}
      /\ UNCHANGED {p \in Orders : Confirmed(p)}
  BY <1>1 DEF PaidAt, Confirmed
<1>4. CASE outbox' = outbox
  BY <1>1, <1>4, PromisedStutter DEF Promised
<1>5. CASE At(r, "f_outbox") /\ outbox' = outbox \cup {<<a, "FAILED", "none">>}
  <2>1. Told' = Told
    BY <1>5
  <2> QED BY <1>1, <1>3, <2>1 DEF Promise!promiseVars
<1>6. CASE /\ At(r, "c_outbox") /\ ~Enqueued(a, "CAPTURED")
           /\ outbox' = outbox \cup {<<a, "CAPTURED", Current(r)>>}
  <2>1. PICK o \in Orders : o = Current(r)
    BY <1>6, CurrentIsAnOrder DEF At
  <2>2. Confirmed(o) /\ PaidAt(a) /\ (a \in journal \/ Slipped)
    BY <1>2, <1>6, <2>1 DEF Saved, Announcing, At, IInv, Sound
  <2>3. \A t \in Told : t[1] # a
    BY <1>6 DEF Enqueued
  <2>4. Told' = Told \cup {<<a, o>>}
    BY <1>6, <2>1
  <2>5. Promise!Tell(a, o)
    BY <1>1, <1>3, <2>2, <2>3, <2>4 DEF Promise!Tell
  <2> QED BY <2>5 DEF Promise!Next
<1>7. \/ At(r, "c_outbox") /\ EnqueueOnce(r, "CAPTURED", Current(r))
      \/ At(r, "f_outbox") /\ EnqueueOnce(r, "FAILED", "none")
  BY <1>2 DEF Enqueue
<1> QED BY <1>2, <1>4, <1>5, <1>6, <1>7 DEF EnqueueOnce

LEMMA HoldPromised ==
    ASSUME IInv, NEW r \in Requests, Reserve(r) \/ WalletStep(r)
    PROVE  [Promise!Next]_(Promise!promiseVars)
<1>1. UNCHANGED <<gateway, journal, Slipped, orders, outbox>>
  BY DEF Reserve, WalletStep, Lapse, At, Slipped
<1>2. /\ UNCHANGED {b \in Attempts : PaidAt(b)}
      /\ UNCHANGED {p \in Orders : Confirmed(p)}
  BY <1>1 DEF PaidAt, Confirmed
<1>3. CASE reservation' = reservation
  BY <1>1, <1>3, PromisedStutter DEF Promised
<1>4. CASE reservation' # reservation
  <2>1. CASE Reserve(r)
    BY <1>1, <1>2, <1>4, <2>1 DEF Reserve, Promise!MoveHold, Promise!Next
  <2>2. CASE WalletStep(r)
    <3>1. reservation = "RESERVED" /\ reservation' = IF At(r, "c_wallet") THEN "COMMITTED" ELSE "RELEASED"
      BY <1>4, <2>2 DEF WalletStep
    <3>2. At(r, "c_wallet") => \E a \in Attempts : PaidAt(a)
      BY DEF At, IInv, Sound
    <3>3. Promise!MoveHold
      BY <1>1, <1>2, <3>1, <3>2 DEF Promise!MoveHold
    <3> QED BY <3>3 DEF Promise!Next
  <2> QED BY <2>1, <2>2
<1> QED BY <1>3, <1>4

\* The checkout keeps its promise for any number of requests, attempts and orders, of
\* crashes, expired locks and failing calls: a gateway's capture comes before its journal,
\* a journal (or the failure to write one) before a confirmed order, the confirmed order
\* before its one event, and the wallet's share is spent only on a capture and stays spent.
THEOREM PaymentKeepsPromise == Spec => KeepsPromise
<1>1. Init => Promise!Init
  BY DEF Init, Promise!Init, PaidAt, Confirmed, Slipped
<1>2. Init => Saved
  <2>1. Idle.pc = "idle"
    BY DEF Idle
  <2> QED BY <2>1 DEF Init, Saved, Announcing
<1>3. IInv /\ Saved /\ [Next]_vars => [Promise!Next]_(Promise!promiseVars)
  <2> SUFFICES ASSUME IInv, Saved, [Next]_vars PROVE [Promise!Next]_(Promise!promiseVars)
    OBVIOUS
  <2>1. ASSUME NEW r \in Requests, Start(r) \/ Advance(r) \/ Crash(r), ~Call(r), ~PostCapture(r),
               ~SaveOrder(r), ~Enqueue(r), ~Reserve(r), ~WalletStep(r)
        PROVE  UNCHANGED Promised
    <3>1. CASE Report(r)
      BY <3>1 DEF Report, Lapse, At, Promised, Slipped
    <3>2. CASE ~Report(r)
      <4>1. UNCHANGED <<gateway, journal, orders, reservation, outbox, lapses>>
        BY <2>1, <3>2 DEF Start, Submit, Poll, Deliver, Advance, Submission, ReadIntent, Route,
           Count, Insert, Process, Save, Unlock, Match, CloseEvent, Rail, Handler, ReadAttempt,
           RereadIntent, SaveAttempt, SaveIntent, ReadOrder, Crash, effectVars, boundVars
      <4> QED BY <4>1 DEF Promised, Slipped
    <3> QED BY <3>1, <3>2
  <2>2. CASE Reclaim \/ Expire \/ UNCHANGED vars
    BY <2>2, PromisedStutter DEF Promised, Slipped, Reclaim, Expire, vars, effectVars, boundVars
  <2> QED BY <2>1, <2>2, PromisedStutter, CallPromised, CapturePromised, PostCapturePromised,
             SaveOrderPromised, EnqueuePromised, HoldPromised DEF Next
<1> QED BY <1>1, <1>2, <1>3, Invariance, SavedKept, PTL DEF Spec, KeepsPromise, Promise!Spec

-----------------------------------------------------------------------------
(* The reconciliation of an intent that has succeeded, by any number of    *)
(* attempts. The handler that saves SUCCEEDED throws no more until it has  *)
(* been through all orders: each is confirmed or on somebody's list.       *)

Bound(r) == req[r].pc \in {"c_wallet", "c_ledger"}
Listed(r, o) == req[r].pc \in OrderSteps /\ o \in req[r].todo
Reconciling ==
    crashes = 0 /\ intent = "SUCCEEDED" =>
        /\ journal # {} \/ Slipped \/ \E r \in Requests : Bound(r)
        /\ \A o \in Orders : Confirmed(o) \/ \E r \in Requests : Bound(r) \/ Listed(r, o)

\* A step of r keeps that if what it takes from its list is confirmed.
LEMMA ReconcilingStep ==
    ASSUME IInv, Reconciling, [Next]_vars, NEW r \in Requests,
           \A s \in Requests \ {r} : req'[s] = req[s],
           intent' = "SUCCEEDED" => intent = "SUCCEEDED",
           crashes' = crashes, journal \subseteq journal', lapses \subseteq lapses',
           Bound(r) => \/ Bound(r)'
                       \/ (journal' # {} \/ Slipped') /\ \A o \in Orders : Listed(r, o)',
           \A o \in Orders : Listed(r, o) => Listed(r, o)' \/ Confirmed(o)'
    PROVE  Reconciling'
<1> SUFFICES ASSUME crashes = 0, intent = "SUCCEEDED"
             PROVE  /\ journal' # {} \/ Slipped' \/ \E s \in Requests : Bound(s)'
                    /\ \A o \in Orders : Confirmed(o)' \/ \E s \in Requests : Bound(s)' \/ Listed(s, o)'
  BY DEF Reconciling
<1>1. \A s \in Requests \ {r} :
         (Bound(s) => Bound(s)') /\ \A o \in Orders : Listed(s, o) => Listed(s, o)'
  BY DEF Bound, Listed
<1>2. journal' # {} \/ Slipped' \/ \E s \in Requests : Bound(s)'
  BY <1>1 DEF Reconciling, Slipped
<1>3. ASSUME NEW o \in Orders PROVE Confirmed(o)' \/ \E s \in Requests : Bound(s)' \/ Listed(s, o)'
  <2>1. CASE Confirmed(o)
    BY <2>1, ConfirmedStays
  <2>2. CASE \E s \in Requests : Bound(s) \/ Listed(s, o)
    BY <1>1, <2>2
  <2> QED BY <2>1, <2>2 DEF Reconciling
<1> QED BY <1>2, <1>3

LEMMA ReconcilingHandler ==
    ASSUME IInv, Saved, Reconciling, [Next]_vars, NEW r \in Requests,
           WalletStep(r) \/ PostCapture(r) \/ ReadOrder(r) \/ SaveOrder(r) \/ Report(r) \/ Enqueue(r)
    PROVE  Reconciling'
<1> USE DEF At, Bound, Listed
<1>0. req \in [Requests -> Request] /\ req[r] \in Request
  BY DEF IInv, TypeOK
<1>1. \A s \in Requests \ {r} : req'[s] = req[s]
  BY OthersStay DEF Advance, Handler
<1>2. UNCHANGED <<intent, crashes>> /\ journal \subseteq journal' /\ lapses \subseteq lapses'
  BY DEF WalletStep, PostCapture, ReadOrder, SaveOrder, Report, Enqueue, EnqueueOnce, Lapse,
     docVars, boundVars, effectVars
<1>3. CASE WalletStep(r)
  <2>1. Bound(r) => Goto(r, "c_ledger")
    BY <1>3 DEF WalletStep
  <2>2. Bound(r) => Bound(r)'
    BY <1>0, <2>1 DEF Goto, Set, Request
  <2>3. req[r].pc \notin OrderSteps
    BY <1>3 DEF WalletStep
  <2> QED BY <1>1, <1>2, <2>2, <2>3, ReconcilingStep
<1>4. CASE PostCapture(r)
  <2>1. /\ req'[r].pc = "c_order_read" /\ req'[r].todo = Orders /\ req[r].pc = "c_ledger"
        /\ journal' # {} \/ Slipped'
    BY <1>0, <1>4 DEF PostCapture, Lapse, Slipped, Set, Request
  <2> QED BY <1>1, <1>2, <2>1, ReconcilingStep
<1>5. CASE ReadOrder(r)
  <2>1. CASE req[r].todo = {}
    BY <1>1, <1>2, <1>5, <2>1, ReconcilingStep DEF ReadOrder
  <2>2. CASE req[r].todo # {}
    <3>1. PICK o \in req[r].todo :
             IF Confirmed(o) THEN Set(r, [req[r] EXCEPT !.todo = @ \ {o}]) ELSE Goto(r, "c_order")
      BY <1>5, <2>2 DEF ReadOrder, Confirmed
    <3>2. UNCHANGED orders /\ req[r].pc = "c_order_read"
      BY <1>5 DEF ReadOrder, effectVars
    <3>3. CASE Confirmed(o)
      <4>1. req'[r].pc = "c_order_read" /\ req'[r].todo = req[r].todo \ {o} /\ Confirmed(o)'
        BY <1>0, <3>1, <3>2, <3>3 DEF Set, Request, Confirmed
      <4> QED BY <1>1, <1>2, <3>2, <4>1, ReconcilingStep
    <3>4. CASE ~Confirmed(o)
      <4>1. req'[r].pc = "c_order" /\ req'[r].todo = req[r].todo
        BY <1>0, <3>1, <3>4 DEF Goto, Set, Request
      <4> QED BY <1>1, <1>2, <3>2, <4>1, ReconcilingStep
    <3> QED BY <3>3, <3>4
  <2> QED BY <2>1, <2>2
<1>6. CASE SaveOrder(r) \/ Report(r)
  <2>1. /\ req'[r].pc \in {"c_report", "c_outbox"} /\ req'[r].todo = req[r].todo
        /\ req[r].pc \in {"c_order", "c_report"}
    BY <1>0, <1>6 DEF SaveOrder, Report, Goto, Set, Request
  <2> QED BY <1>1, <1>2, <2>1, ReconcilingStep
<1>7. CASE Enqueue(r)
  <2>1. CASE req[r].pc = "c_outbox"
    <3>1. req'[r].pc = "c_order_read" /\ req'[r].todo = req[r].todo \ {Current(r)}
      BY <1>0, <1>7, <2>1 DEF Enqueue, Set, Request
    <3>2. PICK o \in Orders : o = Current(r) /\ Confirmed(o)
      BY <2>1, CurrentIsAnOrder DEF Saved, Announcing
    <3>3. Confirmed(o)'
      BY <3>2, ConfirmedStays
    <3> QED BY <1>1, <1>2, <2>1, <3>1, <3>2, <3>3, ReconcilingStep
  <2>2. CASE req[r].pc = "f_outbox"
    BY <1>1, <1>2, <2>2, ReconcilingStep
  <2> QED BY <1>7, <2>1, <2>2 DEF Enqueue
<1> QED BY <1>3, <1>4, <1>5, <1>6, <1>7

LEMMA ReconcilingKept == IInv /\ Saved /\ Reconciling /\ [Next]_vars => Reconciling'
<1> SUFFICES ASSUME IInv, Saved, Reconciling, [Next]_vars PROVE Reconciling'
  OBVIOUS
<1> USE DEF At
<1>1. ASSUME NEW r \in Requests, Start(r) \/ Advance(r), ~SaveIntent(r), ~Process(r),
             ~WalletStep(r), ~PostCapture(r), ~ReadOrder(r), ~SaveOrder(r), ~Report(r), ~Enqueue(r)
      PROVE  Reconciling'
  <2>1. /\ UNCHANGED <<intent, journal, crashes>> /\ lapses \subseteq lapses'
        /\ req[r].pc \notin OrderSteps \cup {"c_wallet", "c_ledger"}
    BY <1>1 DEF Lapse, Start, Submit, Poll, Deliver, Advance, Submission, ReadIntent, Reserve, Route,
       Count, Insert, Call, Save, Unlock, Match, CloseEvent, Rail, Handler, ReadAttempt,
       RereadIntent, SaveAttempt, docVars, effectVars, boundVars
  <2>2. \A s \in Requests \ {r} : req'[s] = req[s]
    BY <1>1, OthersStay
  <2> QED BY <2>1, <2>2, ReconcilingStep DEF Bound, Listed
<1>2. ASSUME NEW r \in Requests, Process(r) \/ SaveIntent(r) PROVE Reconciling'
  <2>1. /\ UNCHANGED <<journal, crashes, lapses>>
        /\ req[r].pc \notin OrderSteps \cup {"c_wallet", "c_ledger"}
    BY <1>2 DEF Process, SaveIntent, effectVars, boundVars
  <2>2. \A s \in Requests \ {r} : req'[s] = req[s]
    BY <1>2, OthersStay DEF Advance, Submission, Handler
  <2>3. CASE intent' = "SUCCEEDED" => intent = "SUCCEEDED"
    BY <2>1, <2>2, <2>3, ReconcilingStep DEF Bound, Listed
  <2>4. CASE intent' = "SUCCEEDED" /\ intent # "SUCCEEDED"
    <3>1. SetIntent(r, "SUCCEEDED", "c_wallet")
      BY <1>2, <2>4 DEF Process, SaveIntent, SetIntent
    <3>2. req'[r].pc = "c_wallet"
      BY <2>4, <3>1, SetIntentMoves DEF IntentStatuses, Steps
    <3> QED BY <3>2 DEF Reconciling, Bound
  <2> QED BY <2>3, <2>4
<1>3. ASSUME NEW r \in Requests, Crash(r) PROVE Reconciling'
  <2>1. crashes' = crashes + 1 /\ crashes \in Nat
    BY <1>3 DEF Crash, IInv, TypeOK
  <2> QED BY <2>1 DEF Reconciling
<1>4. CASE \/ \E a \in Attempts : GatewayCaptures(a) \/ GatewayDeclines(a)
           \/ Reclaim \/ Expire \/ UNCHANGED vars
  <2>1. UNCHANGED <<intent, journal, Slipped, orders, crashes, req>>
    BY <1>4 DEF GatewayCaptures, GatewayDeclines, Reclaim, Expire, Slipped, vars, docVars,
       effectVars, boundVars
  <2> QED BY <2>1 DEF Reconciling, Bound, Listed, Confirmed
<1> QED BY <1>1, <1>2, <1>3, <1>4, ReconcilingHandler DEF Next

\* handleAttemptCapture leaves no intent SUCCEEDED with an order that is not confirmed, nor
\* with a ledger or a customer who knows of no capture, whatever the number of attempts and
\* of handlers that overlap and fail, when no request dies between its awaits: only a call
\* that fails itself leaves its own record out.
THEOREM SucceededAreReconciled == Spec => []SucceededIsReconciled
<1>1. Init => Reconciling /\ Saved
  <2>1. Idle.pc = "idle"
    BY DEF Idle
  <2> QED BY <2>1 DEF Init, Reconciling, Saved, Announcing
<1>2. Reconciling /\ ConfirmedIsAnnounced => SucceededIsReconciled
  BY DEF Reconciling, ConfirmedIsAnnounced, SucceededIsReconciled, Idling, At, Bound, Listed
<1>3. Init => ConfirmedIsAnnounced
  BY DEF Init, ConfirmedIsAnnounced, Confirmed
<1>4. IInv /\ ConfirmedIsAnnounced /\ [Next]_vars => ConfirmedIsAnnounced'
  BY AnnouncementKept
<1> QED BY <1>1, <1>2, <1>3, <1>4, Invariance, SavedKept, ReconcilingKept, PTL DEF Spec

-----------------------------------------------------------------------------
(* The reconciliation of a lone attempt. A gateway's no is final for an    *)
(* attempt that it has declined, or that was never opened there and that   *)
(* nobody is about to open: Never. Whoever handles a failure knows that,   *)
(* so a handler of a capture and one of a failure never meet.              *)

Working == CaptureSteps \cup FailureSteps \cup {"process", "call", "save", "match", "rail"}
Late == {"c_intent", "c_wallet", "c_ledger"} \cup OrderSteps

Never(a) ==
    /\ attempt[a] # "NONE" /\ ~PaidAt(a)
    /\ \/ "declined" \in gateway[a]
       \/ /\ gateway[a] = {}
          /\ \A r \in Requests : req[r].pc \in Opening => req[r].att # a

Faithful == NoIsFinal => \A a \in Attempts : PaidAt(a) => "declined" \notin gateway[a]

\* What the request with the locals q knows of its attempt, and of its event
Sure(q) ==
    /\ q.pc \in Working => attempt[q.att] # "NONE"
    /\ NoIsFinal => /\ q.pc \in FailureSteps => Never(q.att)
                    /\ q.pc \in {"save", "match"} /\ q.outcome = "FAILED" => Never(q.att)
    /\ q.job = "webhook" => q.pc # "rail" /\ (q.pc \in FailureSteps => q.outcome = "FAILED")
    /\ q.pc = "match" => q.job = "webhook" /\ q.outcome \in Outcomes

\* No request has died, and the checkout has made no attempt but the first.
Lone ==
    /\ crashes = 0 /\ NoIsFinal /\ share # "full"
    /\ \A a \in Attempts : a # 1 => attempt[a] = "NONE"

Waived == "c_wallet" \in lapses
WalletDone == ~Waived /\ share = "part" => reservation = "COMMITTED"
Picked(t) == CHOOSE x \in t : TRUE

\* What the request with the locals q knows as long as the first attempt is alone
Solo(q) ==
    /\ q.pc \in {"reserve", "route", "count", "insert"} /\ attempt[1] = "NONE"
          => q.intentDoc = "CREATED"
    /\ q.pc = "process" => intent = "CREATED" /\ q.intentDoc = "CREATED"
    /\ q.pc = "call" => intent = "PROCESSING"
    /\ q.pc \in {"c_intent_read", "c_attempt"}
          => /\ q.attDoc \in {"INITIATED", "CAPTURED"}
             /\ q.attDoc = "CAPTURED" => attempt[1] = "CAPTURED"
    /\ q.pc \in {"c_attempt", "c_intent"}
          => /\ q.intentDoc \in {"PROCESSING", "SUCCEEDED"}
             /\ q.intentDoc = "SUCCEEDED" => intent = "SUCCEEDED"
    /\ q.pc \in Late => attempt[1] = "CAPTURED"
    /\ q.pc \in Late \ {"c_intent"} => intent = "SUCCEEDED"
    /\ q.pc \in Late \ {"c_intent", "c_wallet"} => WalletDone
    /\ q.pc \in OrderSteps => \A o \in Orders : o \in q.todo \/ Confirmed(o)
    /\ q.pc \in {"c_report", "c_outbox"} => Confirmed(Picked(q.todo))
    /\ q.pc = "processed" /\ q.att = 1 /\ q.outcome = "CAPTURED" => attempt[1] = "CAPTURED"

\* A captured attempt is reconciled, or a handler is on its way to that.
Reconciled == intent = "SUCCEEDED" /\ (\A o \in Orders : Confirmed(o)) /\ WalletDone
Carried == attempt[1] = "CAPTURED" => Reconciled \/ \E r \in Requests : req[r].pc \in Late

\* How intent, attempt, gateway, reservation and event of the checkout agree
Agree ==
    /\ attempt[1] = "NONE" => intent = "CREATED"
    /\ gateway[1] # {} /\ "declined" \notin gateway[1] => intent \in {"PROCESSING", "SUCCEEDED"}
    /\ intent = "SUCCEEDED" => PaidAt(1)
    /\ \/ attempt[1] \in {"NONE", "INITIATED"}
       \/ attempt[1] = "CAPTURED" /\ PaidAt(1)
       \/ attempt[1] = "FAILED" /\ Never(1)
    /\ share = "part" => \/ reservation \in {"RESERVED", "COMMITTED"}
                         \/ reservation = "RELEASED" /\ Never(1)
    /\ event[<<1, "CAPTURED">>] = "PROCESSED" => attempt[1] = "CAPTURED"

LInv ==
    /\ IInv /\ Faithful /\ (\A r \in Requests : Sure(req[r]))
    /\ Lone => Agree /\ Carried /\ (\A r \in Requests : Solo(req[r]))

USE DEF Working, Late

LEMMA FirstAttempt == 1 \in Attempts
  BY OrchestratorAssumption DEF Attempts

\* A step of the request r keeps the invariant if a final no stays one, and if, as
\* long as the first attempt is alone, nothing that others rely on is taken back.
LEMMA LoneKeeps ==
    ASSUME LInv, IInv', NEW r \in Requests,
           \A s \in Requests \ {r} : req'[s] = req[s],
           share' = share, crashes' = 0 => crashes = 0,
           \A a \in Attempts : attempt[a] # "NONE" => attempt'[a] # "NONE",
           \A a \in Attempts : Never(a) => Never(a)',
           Faithful', Sure(req[r])',
           Lone /\ Lone' =>
              /\ Agree' /\ Carried' /\ Solo(req[r])'
              /\ attempt[1] = "CAPTURED" => attempt'[1] = "CAPTURED"
              /\ intent = "SUCCEEDED" => intent' = "SUCCEEDED"
              /\ WalletDone => WalletDone'
              /\ \A o \in Orders : Confirmed(o) => Confirmed(o)'
              /\ \A s \in Requests \ {r} : req[s].pc \in Opening => intent' = intent
    PROVE  LInv'
<1>1. ASSUME NEW s \in Requests \ {r} PROVE Sure(req[s])'
  <2>1. req'[s] = req[s] /\ Sure(req[s]) /\ Sound(req[s])
    BY DEF LInv, IInv
  <2> QED BY <2>1 DEF Sure, Sound
<1>2. Lone' => Lone
  BY DEF Lone
<1>3. ASSUME Lone', NEW s \in Requests \ {r} PROVE Solo(req[s])'
  <2>1. Lone /\ req'[s] = req[s] /\ Solo(req[s]) /\ Sound(req[s]) /\ req[s] \in Request
    BY <1>2, <1>3 DEF LInv, IInv, TypeOK
  <2>2. req[s].pc \in {"c_report", "c_outbox"} => Picked(req[s].todo) \in Orders
    <3>1. req[s].todo \subseteq Orders /\ (req[s].pc \in {"c_report", "c_outbox"} => req[s].todo # {})
      BY <2>1 DEF Request, Sound
    <3> QED BY <3>1 DEF Picked
  <2> QED BY <1>3, <2>1, <2>2, FirstAttempt DEF Solo
<1> QED BY <1>1, <1>2, <1>3 DEF LInv
\* What a request may rely on when its step begins
LEMMA LoneFacts ==
    ASSUME LInv, NEW r \in Requests
    PROVE  /\ IInv /\ req \in [Requests -> Request] /\ req[r] \in Request
           /\ Sound(req[r]) /\ Sure(req[r])
           /\ Lone => /\ Agree /\ Carried /\ Solo(req[r])
                      /\ req[r].pc \in Working => req[r].att = 1 /\ attempt[1] # "NONE"
<1>1. /\ IInv /\ req \in [Requests -> Request] /\ req[r] \in Request
      /\ Sound(req[r]) /\ Sure(req[r]) /\ (Lone => Agree /\ Carried /\ Solo(req[r]))
  BY DEF LInv, IInv, TypeOK
<1>2. ASSUME Lone, req[r].pc \in Working PROVE req[r].att = 1 /\ attempt[1] # "NONE"
  <2>1. req[r].att \in Attempts /\ attempt[req[r].att] # "NONE"
    BY <1>1, <1>2 DEF Sound, Sure
  <2> QED BY <1>2, <2>1 DEF Lone
<1> QED BY <1>1, <1>2

\* A final no stays one if no gateway acts, and who is about to open an attempt
\* is so already or has just made it.
LEMMA NeverStays ==
    ASSUME IInv, NEW r \in Requests, \A s \in Requests \ {r} : req'[s] = req[s], gateway' = gateway,
           \A a \in Attempts : attempt[a] # "NONE" => attempt'[a] # "NONE",
           req'[r].pc \in Opening => \/ attempt[req'[r].att] = "NONE"
                                     \/ req[r].pc \in Opening /\ req'[r].att = req[r].att,
           NEW a \in Attempts, Never(a)
    PROVE  Never(a)'
  BY DEF Never, PaidAt

\* What a step must leave alone to be of no concern to the others
LoneVars == <<share, intent, attempt, gateway, event, reservation, orders, Waived, crashes>>

\* A step of r that writes nothing but its locals keeps the invariant, unless r was
\* on its way to reconcile a capture and turns back.
LEMMA LoneQuiet ==
    ASSUME LInv, IInv', NEW r \in Requests, \A s \in Requests \ {r} : req'[s] = req[s],
           UNCHANGED LoneVars, req'[r].pc \in Opening => req[r].pc \in Opening /\ req'[r].att = req[r].att,
           Sure(req[r])', Lone => Solo(req[r])',
           Lone /\ req[r].pc \in Late => Reconciled \/ req'[r].pc \in Late
    PROVE  LInv'
<1> USE DEF LoneVars
<1>1. \A a \in Attempts : Never(a) => Never(a)'
  BY NeverStays DEF LInv
<1>2. Faithful'
  BY DEF LInv, Faithful, PaidAt
<1>3. (Lone' => Lone) /\ (Reconciled => Reconciled') /\ (WalletDone => WalletDone')
  BY DEF Lone, Reconciled, WalletDone, Confirmed
<1>4. \A o \in Orders : Confirmed(o) => Confirmed(o)'
  BY DEF Confirmed
<1>5. ASSUME Lone PROVE Agree' /\ Carried'
  <2>1. Agree /\ Carried
    BY <1>5 DEF LInv
  <2>2. Agree'
    BY <1>1, <2>1, FirstAttempt DEF Agree, PaidAt
  <2>3. Carried'
    BY <1>3, <1>5, <2>1 DEF Carried
  <2> QED BY <2>2, <2>3
<1> QED BY <1>1, <1>2, <1>3, <1>4, <1>5, LoneKeeps

\* A handler that returns, or throws
LEMMA EndingLone ==
    ASSUME LInv, NEW r \in Requests, share' = share,
           \/ Throw(r)
           \/ /\ Return(r)
              /\ Lone /\ req[r].job = "webhook" /\ req[r].att = 1 /\ req[r].outcome = "CAPTURED"
                    => attempt'[1] = "CAPTURED"
    PROVE  /\ req'[r].pc \in Ended /\ Sure(req[r])' /\ (Lone => Solo(req[r])')
           /\ \A s \in Requests \ {r} : req'[s] = req[s]
<1> USE DEF Ended
<1>1. req \in [Requests -> Request] /\ req[r] \in Request
  BY LoneFacts
<1>2. /\ req'[r].pc \in Ended /\ \A s \in Requests \ {r} : req'[s] = req[s]
      /\ req'[r].pc = "processed" => /\ req[r].job = "webhook" /\ ~Throw(r)
                                     /\ req'[r].att = req[r].att /\ req'[r].outcome = req[r].outcome
  <2>1. CASE req[r].job = "submit"
    <3>1. req' = [req EXCEPT ![r] = [req[r] EXCEPT !.pc = "unlock"]]
      BY <2>1 DEF Return, Throw, Goto, Set
    <3> QED BY <1>1, <3>1 DEF Request
  <2>2. CASE req[r].job = "webhook"
    <3>1. CASE Throw(r)
      <4>1. req' = [req EXCEPT ![r] = [req[r] EXCEPT !.pc = "failed"]]
        BY <2>2, <3>1 DEF Throw, Goto, Set
      <4> QED BY <1>1, <4>1 DEF Request
    <3>2. CASE ~Throw(r)
      <4>1. req' = [req EXCEPT ![r] = [req[r] EXCEPT !.pc = "processed"]]
        BY <2>2, <3>2 DEF Return, Goto, Set
      <4> QED BY <1>1, <2>2, <3>2, <4>1 DEF Request
    <3> QED BY <3>1, <3>2
  <2>3. CASE req[r].job \notin {"submit", "webhook"}
    <3>1. req' = [req EXCEPT ![r] = Idle]
      BY <2>3 DEF Return, Throw, Finish, Set
    <3> QED BY <1>1, <3>1 DEF Idle
  <2> QED BY <2>1, <2>2, <2>3
<1>3. Sure(req[r])'
  BY <1>2 DEF Sure
<1>4. Lone => Solo(req[r])'
  BY <1>2 DEF Solo
<1> QED BY <1>2, <1>3, <1>4

\* Into the capture handler, or into the failure handler after a final no
LEMMA EnteringLone ==
    ASSUME LInv, NEW r \in Requests, NEW a \in Attempts, attempt'[a] # "NONE",
           \/ Set(r, Capturing(r, a))
           \/ /\ Set(r, Failing(r, a))
              /\ NoIsFinal => Never(a)'
              /\ req[r].job = "webhook" => req[r].outcome = "FAILED"
    PROVE  /\ req'[r].pc \in {"c_attempt_read", "f_attempt_read"}
           /\ Sure(req[r])' /\ (Lone => Solo(req[r])')
           /\ \A s \in Requests \ {r} : req'[s] = req[s]
<1>1. req \in [Requests -> Request] /\ req[r] \in Request
  BY LoneFacts
<1>2. PICK p \in {"c_attempt_read", "f_attempt_read"} :
         /\ req' = [req EXCEPT ![r] = [req[r] EXCEPT !.pc = p, !.att = a]]
         /\ p = "f_attempt_read" => /\ NoIsFinal => Never(a)'
                                    /\ req[r].job = "webhook" => req[r].outcome = "FAILED"
  BY DEF Set, Capturing, Failing
<1>3. /\ req'[r].pc = p /\ req'[r].att = a /\ req'[r].job = req[r].job
      /\ req'[r].outcome = req[r].outcome
      /\ \A s \in Requests \ {r} : req'[s] = req[s]
  BY <1>1, <1>2 DEF Request
<1>4. Sure(req[r])'
  BY <1>2, <1>3 DEF Sure
<1>5. Lone => Solo(req[r])'
  BY <1>3 DEF Solo
<1> QED BY <1>3, <1>4, <1>5

LEMMA FailingLone ==
    ASSUME LInv, IInv', NEW r \in Requests, NEW a \in Attempts, attempt[a] # "NONE",
           UNCHANGED LoneVars, req[r].pc \notin Late,
           Set(r, Failing(r, a)), NoIsFinal => Never(a),
           req[r].job = "webhook" => req[r].outcome = "FAILED"
    PROVE  LInv'
<1>1. /\ req'[r].pc = "f_attempt_read"
      /\ \A s \in Requests \ {r} : req'[s] = req[s]
  BY LoneFacts DEF Set, Failing, Request
<1>2. attempt'[a] # "NONE" /\ (NoIsFinal => Never(a)')
  BY <1>1, NeverStays DEF LoneVars, LInv
<1>3. Sure(req[r])' /\ (Lone => Solo(req[r])')
  BY <1>2, EnteringLone
<1> QED BY <1>1, <1>3, LoneQuiet

LEMMA LoneInit == Init => LInv
<1> SUFFICES ASSUME Init PROVE LInv
  OBVIOUS
<1>1. IInv
  BY InitIInv
<1>2. \A r \in Requests : req[r] = Idle
  BY DEF Init
<1>3. \A r \in Requests : Sure(req[r]) /\ Solo(req[r])
  BY <1>2 DEF Sure, Solo, Idle
<1>4. Faithful /\ Agree /\ Carried
  BY FirstAttempt DEF Init, Faithful, Agree, Carried, PaidAt, Outcomes
<1> QED BY <1>1, <1>3, <1>4 DEF LInv

-----------------------------------------------------------------------------
(* The steps of a lone attempt that others do not notice                   *)

LEMMA StartsLone ==
    ASSUME LInv, IInv', NEW r \in Requests, Submit(r) \/ \E a \in Attempts : Poll(r, a)
    PROVE  LInv'
<1> USE DEF At
<1>1. req \in [Requests -> Request] /\ req[r].pc = "idle"
  BY LoneFacts DEF Submit, Poll
<1>2. UNCHANGED LoneVars
  BY DEF Submit, Poll, LoneVars, Waived, docVars, effectVars, boundVars
<1>3. \/ req' = [req EXCEPT ![r] = [Idle EXCEPT !.pc = "locking", !.job = "submit"]]
      \/ \E a \in Attempts : /\ attempt[a] = "INITIATED"
                             /\ req' = [req EXCEPT ![r] = [Idle EXCEPT !.pc = "rail", !.job = "poll", !.att = a]]
  BY DEF Submit, Poll, Set
<1>4. /\ req'[r].pc \in {"locking", "rail"} /\ req'[r].job \in {"submit", "poll"}
      /\ req'[r].pc = "rail" => attempt'[req'[r].att] # "NONE"
  BY <1>1, <1>2, <1>3 DEF Idle, LoneVars
<1>5. Sure(req[r])' /\ Solo(req[r])'
  BY <1>4 DEF Sure, Solo
<1>6. \A s \in Requests \ {r} : req'[s] = req[s]
  BY <1>1, <1>3
<1> QED BY <1>1, <1>2, <1>4, <1>5, <1>6, LoneQuiet

LEMMA ReadIntentLone ==
    ASSUME LInv, IInv', NEW r \in Requests, ReadIntent(r)
    PROVE  LInv'
<1> USE DEF At
<1>1. req \in [Requests -> Request] /\ req[r] \in Request /\ req[r].pc = "locking" /\ req[r].job = "submit"
  BY LoneFacts DEF ReadIntent, Sound
<1>2. UNCHANGED LoneVars
  BY DEF ReadIntent, LoneVars, Waived, docVars, effectVars, boundVars
<1>3. \/ req' = [req EXCEPT ![r] = [req[r] EXCEPT !.pc = "unlock"]]
      \/ \E p \in {"route", "reserve"} :
            req' = [req EXCEPT ![r] = [req[r] EXCEPT !.intentDoc = intent, !.pc = p]]
  BY DEF ReadIntent, Goto, Set
<1>4. /\ req'[r].job = "submit"
      /\ \/ req'[r].pc = "unlock"
         \/ req'[r].pc \in {"route", "reserve"} /\ req'[r].intentDoc = intent
  BY <1>1, <1>3 DEF Request
<1>5. Sure(req[r])'
  BY <1>4 DEF Sure
<1>6. Lone => Solo(req[r])'
  BY <1>2, <1>4, LoneFacts DEF Solo, Agree, LoneVars
<1>7. \A s \in Requests \ {r} : req'[s] = req[s]
  BY <1>1, <1>3
<1> QED BY <1>1, <1>2, <1>4, <1>5, <1>6, <1>7, LoneQuiet

LEMMA RouteLone ==
    ASSUME LInv, IInv', NEW r \in Requests, Route(r)
    PROVE  LInv'
<1> USE DEF At
<1>1. /\ req \in [Requests -> Request] /\ req[r] \in Request /\ req[r].pc = "route"
      /\ req[r].job = "submit" /\ (Lone => Solo(req[r]))
  BY LoneFacts DEF Route, Sound
<1>2. UNCHANGED LoneVars
  BY DEF Route, LoneVars, Waived, docVars, effectVars, boundVars
<1>3. \/ \E p \in Providers : req' = [req EXCEPT ![r] = [req[r] EXCEPT !.pc = "count", !.prov = p]]
      \/ \E a \in InFlight : req' = [req EXCEPT ![r] = [req[r] EXCEPT !.pc = "rail", !.att = a]]
  BY DEF Route, Set
<1>4. /\ req'[r].job = "submit" /\ req'[r].intentDoc = req[r].intentDoc
      /\ req'[r].pc \in {"count", "rail"}
      /\ req'[r].pc = "rail" => attempt'[req'[r].att] # "NONE"
  BY <1>1, <1>2, <1>3 DEF Request, InFlight, LoneVars
<1>5. Sure(req[r])'
  BY <1>4 DEF Sure
<1>6. Lone => Solo(req[r])'
  BY <1>1, <1>2, <1>4 DEF Solo, LoneVars
<1>7. \A s \in Requests \ {r} : req'[s] = req[s]
  BY <1>1, <1>3
<1> QED BY <1>1, <1>2, <1>4, <1>5, <1>6, <1>7, LoneQuiet

LEMMA CountLone ==
    ASSUME LInv, IInv', NEW r \in Requests, Count(r)
    PROVE  LInv'
<1> USE DEF At
<1>1. /\ req \in [Requests -> Request] /\ req[r] \in Request /\ req[r].pc = "count"
      /\ req[r].job = "submit" /\ (Lone => Solo(req[r]))
  BY LoneFacts DEF Count, Sound
<1>2. UNCHANGED LoneVars
  BY DEF Count, LoneVars, Waived, docVars, effectVars, boundVars
<1>3. CASE Throw(r)
  BY <1>1, <1>2, <1>3, EndingLone, LoneQuiet DEF LoneVars, Ended
<1>4. CASE \E n \in Attempts : req' = [req EXCEPT ![r] = [req[r] EXCEPT !.pc = "insert", !.att = n]]
  <2>1. /\ req'[r].job = "submit" /\ req'[r].intentDoc = req[r].intentDoc /\ req'[r].pc = "insert"
        /\ \A s \in Requests \ {r} : req'[s] = req[s]
    BY <1>1, <1>4 DEF Request
  <2>2. Sure(req[r])'
    BY <2>1 DEF Sure
  <2>3. Lone => Solo(req[r])'
    BY <1>1, <1>2, <2>1 DEF Solo, LoneVars
  <2> QED BY <1>1, <1>2, <2>1, <2>2, <2>3, LoneQuiet
<1> QED BY <1>3, <1>4 DEF Count, Set

LEMMA UnlockLone ==
    ASSUME LInv, IInv', NEW r \in Requests, Unlock(r)
    PROVE  LInv'
<1>1. req \in [Requests -> Request] /\ req[r].pc = "unlock" /\ req' = [req EXCEPT ![r] = Idle]
  BY LoneFacts DEF Unlock, At, Finish, Set
<1>2. UNCHANGED LoneVars
  BY DEF Unlock, LoneVars, Waived, docVars, effectVars, boundVars
<1>3. req'[r] = Idle /\ \A s \in Requests \ {r} : req'[s] = req[s]
  BY <1>1
<1>4. Sure(req[r])' /\ Solo(req[r])'
  BY <1>3 DEF Sure, Solo, Idle
<1> QED BY <1>1, <1>2, <1>3, <1>4, LoneQuiet DEF Idle

\* A captured attempt is left alone, so its event is closed only when it is captured.
LEMMA MatchLone ==
    ASSUME LInv, IInv', NEW r \in Requests, Match(r)
    PROVE  LInv'
<1> USE DEF At
<1>1. /\ IInv /\ req[r].pc = "match" /\ req[r].att \in Attempts /\ attempt[req[r].att] # "NONE"
      /\ Sure(req[r]) /\ (Lone => req[r].att = 1)
  BY LoneFacts DEF Match, Sound, Sure
<1>2. UNCHANGED LoneVars
  BY DEF Match, LoneVars, Waived, docVars, effectVars, boundVars
<1>3. CASE Throw(r) \/ (Return(r) /\ attempt[req[r].att] = "CAPTURED")
  <2>1. /\ req'[r].pc \in Ended /\ Sure(req[r])' /\ (Lone => Solo(req[r])')
        /\ \A s \in Requests \ {r} : req'[s] = req[s]
    BY <1>2, <1>3, EndingLone DEF LoneVars
  <2> QED BY <1>1, <1>2, <2>1, LoneQuiet DEF Ended
<1>4. CASE Set(r, Capturing(r, req[r].att))
  BY <1>1, <1>2, <1>4, EnteringLone, LoneQuiet DEF LoneVars
<1>5. CASE Set(r, Failing(r, req[r].att)) /\ req[r].outcome # "CAPTURED"
  <2> PICK a \in Attempts : a = req[r].att
    BY <1>1
  <2>1. req[r].outcome = "FAILED" /\ (NoIsFinal => Never(a)) /\ attempt'[a] # "NONE"
    BY <1>1, <1>2, <1>5 DEF Sure, Outcomes, LoneVars
  <2> QED BY <1>1, <1>2, <1>5, <2>1, FailingLone
<1> QED BY <1>3, <1>4, <1>5 DEF Match

\* A poll ends in the failure handler only if the gateway declined and has not captured.
LEMMA RailLone ==
    ASSUME LInv, IInv', NEW r \in Requests, Rail(r)
    PROVE  LInv'
<1> USE DEF At
<1>1. /\ IInv /\ req[r].pc = "rail" /\ req[r].att \in Attempts /\ attempt[req[r].att] # "NONE"
      /\ req[r].job # "webhook"
  BY LoneFacts DEF Rail, Sound, Sure
<1>2. UNCHANGED LoneVars
  BY DEF Rail, LoneVars, Waived, docVars, effectVars, boundVars
<1>3. CASE Return(r)
  <2>1. /\ req'[r].pc \in Ended /\ Sure(req[r])' /\ (Lone => Solo(req[r])')
        /\ \A s \in Requests \ {r} : req'[s] = req[s]
    BY <1>1, <1>2, <1>3, EndingLone DEF LoneVars
  <2> QED BY <1>1, <1>2, <2>1, LoneQuiet DEF Ended
<1>4. CASE Set(r, Capturing(r, req[r].att))
  BY <1>1, <1>2, <1>4, EnteringLone, LoneQuiet DEF LoneVars
<1>5. CASE /\ Set(r, Failing(r, req[r].att))
           /\ "declined" \in gateway[req[r].att] /\ "captured" \notin gateway[req[r].att]
  <2> PICK a \in Attempts : a = req[r].att
    BY <1>1
  <2>1. Never(a)
    BY <1>1, <1>5 DEF Never, PaidAt
  <2> QED BY <1>1, <1>2, <1>5, <2>1, FailingLone
<1> QED BY <1>3, <1>4, <1>5 DEF Rail

LEMMA SaveLone ==
    ASSUME LInv, IInv', NEW r \in Requests, Save(r)
    PROVE  LInv'
<1> USE DEF At
<1>1. /\ IInv /\ req \in [Requests -> Request] /\ req[r] \in Request
      /\ req[r].pc = "save" /\ req[r].att \in Attempts /\ attempt[req[r].att] # "NONE"
      /\ req[r].job = "submit" /\ Sure(req[r])
  BY LoneFacts DEF Save, Sound, Sure
<1>2. UNCHANGED LoneVars
  BY DEF Save, LoneVars, Waived, docVars, effectVars, boundVars
<1>3. CASE Set(r, Capturing(r, req[r].att))
  BY <1>1, <1>2, <1>3, EnteringLone, LoneQuiet DEF LoneVars
<1>4. CASE Set(r, Failing(r, req[r].att)) /\ req[r].outcome = "FAILED"
  <2> PICK a \in Attempts : a = req[r].att
    BY <1>1
  <2>1. NoIsFinal => Never(a)
    BY <1>1, <1>4 DEF Sure
  <2> QED BY <1>1, <1>2, <1>4, <2>1, FailingLone
<1>5. CASE Goto(r, "unlock")
  <2>1. req'[r].pc = "unlock" /\ req'[r].job = "submit" /\ \A s \in Requests \ {r} : req'[s] = req[s]
    BY <1>1, <1>5 DEF Goto, Set, Request
  <2>2. Sure(req[r])' /\ Solo(req[r])'
    BY <2>1 DEF Sure, Solo
  <2> QED BY <1>1, <1>2, <2>1, <2>2, LoneQuiet
<1> QED BY <1>3, <1>4, <1>5 DEF Save

\* A handler of a capture reads an attempt that is in flight or captured already.
LEMMA ReadAttemptLone ==
    ASSUME LInv, IInv', NEW r \in Requests, ReadAttempt(r)
    PROVE  LInv'
<1> USE DEF At
<1>1. /\ IInv /\ req \in [Requests -> Request] /\ req[r] \in Request /\ Sound(req[r]) /\ Sure(req[r])
      /\ req[r].pc \in {"c_attempt_read", "f_attempt_read"}
      /\ Lone => Agree /\ req[r].att = 1 /\ attempt[1] # "NONE"
  BY LoneFacts DEF ReadAttempt
<1>2. UNCHANGED LoneVars
  BY DEF ReadAttempt, LoneVars, Waived, docVars, effectVars, boundVars
<1>3. PICK p \in {"c_intent_read", "f_intent_read"} :
         /\ p = "c_intent_read" <=> req[r].pc = "c_attempt_read"
         /\ req' = [req EXCEPT ![r] = [req[r] EXCEPT !.attDoc = attempt[req[r].att], !.pc = p]]
  BY <1>1 DEF ReadAttempt, Set
<1>4. /\ req'[r].pc = p /\ req'[r].job = req[r].job /\ req'[r].att = req[r].att
      /\ req'[r].outcome = req[r].outcome /\ req'[r].attDoc = attempt[req[r].att]
      /\ \A s \in Requests \ {r} : req'[s] = req[s]
  BY <1>1, <1>3 DEF Request
<1>5. Sure(req[r])'
  <2>1. req[r].att \in Attempts
    BY <1>1 DEF Sound
  <2>2. Never(req[r].att) => Never(req[r].att)'
    BY <1>1, <1>2, <1>4, <2>1, NeverStays DEF LoneVars
  <2> QED BY <1>1, <1>2, <1>3, <1>4, <2>2 DEF Sure, LoneVars
<1>6. Lone => Solo(req[r])'
  <2>1. Lone /\ p = "c_intent_read" => PaidAt(1)
    BY <1>1, <1>3 DEF Sound, Lone
  <2> QED BY <1>1, <1>2, <1>4, <2>1 DEF Solo, Agree, Never, LoneVars
<1> QED BY <1>1, <1>2, <1>4, <1>5, <1>6, LoneQuiet

\* and an intent that is being processed or has succeeded.
LEMMA RereadIntentLone ==
    ASSUME LInv, IInv', NEW r \in Requests, RereadIntent(r)
    PROVE  LInv'
<1> USE DEF At
<1>1. /\ IInv /\ req \in [Requests -> Request] /\ req[r] \in Request /\ Sound(req[r]) /\ Sure(req[r])
      /\ req[r].pc \in {"c_intent_read", "f_intent_read"}
      /\ Lone => Agree /\ Solo(req[r]) /\ req[r].att = 1
  BY LoneFacts DEF RereadIntent
<1>2. UNCHANGED LoneVars
  BY DEF RereadIntent, LoneVars, Waived, docVars, effectVars, boundVars
<1>3. PICK p \in {"c_attempt", "f_attempt"} :
         /\ p = "c_attempt" <=> req[r].pc = "c_intent_read"
         /\ req' = [req EXCEPT ![r] = [req[r] EXCEPT !.intentDoc = intent, !.pc = p]]
  BY <1>1 DEF RereadIntent, Set
<1>4. /\ req'[r].pc = p /\ req'[r].job = req[r].job /\ req'[r].att = req[r].att
      /\ req'[r].outcome = req[r].outcome /\ req'[r].attDoc = req[r].attDoc
      /\ req'[r].intentDoc = intent
      /\ \A s \in Requests \ {r} : req'[s] = req[s]
  BY <1>1, <1>3 DEF Request
<1>5. Sure(req[r])'
  <2>1. req[r].att \in Attempts
    BY <1>1 DEF Sound
  <2>2. Never(req[r].att) => Never(req[r].att)'
    BY <1>1, <1>2, <1>4, <2>1, NeverStays DEF LoneVars
  <2> QED BY <1>1, <1>2, <1>3, <1>4, <2>2 DEF Sure, LoneVars
<1>6. Lone => Solo(req[r])'
  <2>1. Lone /\ p = "c_attempt" => "captured" \in gateway[1] /\ "declined" \notin gateway[1]
    BY <1>1, <1>3, FirstAttempt DEF Sound, Lone, PaidAt, LInv, Faithful
  <2> QED BY <1>1, <1>2, <1>3, <1>4, <2>1 DEF Solo, Agree, LoneVars
<1> QED BY <1>1, <1>2, <1>4, <1>5, <1>6, LoneQuiet

LEMMA PostCaptureLone ==
    ASSUME LInv, IInv', NEW r \in Requests, PostCapture(r)
    PROVE  LInv'
<1>1. /\ req \in [Requests -> Request] /\ req[r] \in Request /\ Sure(req[r])
      /\ req[r].pc = "c_ledger" /\ (Lone => Solo(req[r]))
  BY LoneFacts DEF PostCapture, At
<1>2. UNCHANGED LoneVars
  BY DEF PostCapture, Lapse, At, LoneVars, Waived, docVars
<1>3. /\ req'[r].pc = "c_order_read" /\ req'[r].todo = Orders /\ req'[r].att = req[r].att
      /\ req'[r].job = req[r].job /\ \A s \in Requests \ {r} : req'[s] = req[s]
  BY <1>1 DEF PostCapture, Set, Request
<1>4. Sure(req[r])'
  BY <1>1, <1>2, <1>3 DEF Sure, LoneVars
<1>5. WalletDone => WalletDone'
  BY <1>2 DEF WalletDone, LoneVars
<1>6. Lone => Solo(req[r])'
  BY <1>1, <1>2, <1>3, <1>5 DEF Solo, LoneVars
<1> QED BY <1>1, <1>2, <1>3, <1>4, <1>6, LoneQuiet

\* Who goes through the orders returns when each of them is confirmed.
LEMMA ReadOrderLone ==
    ASSUME LInv, IInv', NEW r \in Requests, ReadOrder(r)
    PROVE  LInv'
<1> DEFINE o == Picked(req[r].todo)
<1>1. /\ req \in [Requests -> Request] /\ req[r] \in Request /\ Sure(req[r])
      /\ req[r].pc = "c_order_read" /\ (Lone => Solo(req[r]))
  BY LoneFacts DEF ReadOrder, At
<1>2. UNCHANGED LoneVars
  BY DEF ReadOrder, LoneVars, Waived, docVars, effectVars, boundVars
<1>3. (WalletDone => WalletDone') /\ \A x \in Orders : Confirmed(x)' = Confirmed(x)
  BY <1>2 DEF WalletDone, Confirmed, LoneVars
<1>4. CASE req[r].todo = {}
  <2>1. Lone => Reconciled /\ attempt'[1] = "CAPTURED"
    BY <1>1, <1>2, <1>4 DEF Solo, Reconciled, LoneVars
  <2>2. Return(r)
    BY <1>4 DEF ReadOrder
  <2>3. /\ req'[r].pc \in Ended /\ Sure(req[r])' /\ (Lone => Solo(req[r])')
        /\ \A s \in Requests \ {r} : req'[s] = req[s]
    BY <1>2, <2>1, <2>2, EndingLone DEF LoneVars
  <2> QED BY <1>2, <2>1, <2>3, LoneQuiet DEF Ended
<1>5. CASE req[r].todo # {}
  <2>1. \/ orders[o] = "CAPTURED" /\ req' = [req EXCEPT ![r] = [req[r] EXCEPT !.todo = @ \ {o}]]
        \/ req' = [req EXCEPT ![r] = [req[r] EXCEPT !.pc = "c_order"]]
    BY <1>5 DEF ReadOrder, Set, Goto, Picked
  <2>2. /\ req'[r].pc \in {"c_order_read", "c_order"} /\ req'[r].att = req[r].att
        /\ req'[r].job = req[r].job /\ req'[r].outcome = req[r].outcome
        /\ \A x \in Orders : x \in req[r].todo => x \in req'[r].todo \/ Confirmed(x)
        /\ \A s \in Requests \ {r} : req'[s] = req[s]
    BY <1>1, <2>1 DEF Request, Confirmed
  <2>3. Sure(req[r])'
    BY <1>1, <1>2, <2>2 DEF Sure, LoneVars
  <2>4. Lone => Solo(req[r])'
    BY <1>1, <1>2, <1>3, <2>2 DEF Solo, LoneVars
  <2> QED BY <1>2, <2>2, <2>3, <2>4, LoneQuiet
<1> QED BY <1>4, <1>5

LEMMA ReportLone ==
    ASSUME LInv, IInv', NEW r \in Requests, Report(r)
    PROVE  LInv'
<1>1. /\ req \in [Requests -> Request] /\ req[r] \in Request /\ Sure(req[r])
      /\ req[r].pc = "c_report" /\ (Lone => Solo(req[r]))
  BY LoneFacts DEF Report, At
<1>2. UNCHANGED LoneVars
  BY DEF Report, Lapse, At, LoneVars, Waived, docVars
<1>3. /\ req'[r].pc = "c_outbox" /\ req'[r].todo = req[r].todo /\ req'[r].att = req[r].att
      /\ req'[r].job = req[r].job /\ \A s \in Requests \ {r} : req'[s] = req[s]
  BY <1>1 DEF Report, Goto, Set, Request
<1>4. Sure(req[r])'
  BY <1>1, <1>2, <1>3 DEF Sure, LoneVars
<1>5. WalletDone' = WalletDone /\ \A x : Confirmed(x)' = Confirmed(x)
  BY <1>2 DEF WalletDone, Confirmed, LoneVars
<1>6. Lone => Solo(req[r])'
  BY <1>1, <1>2, <1>3, <1>5 DEF Solo, LoneVars
<1> QED BY <1>1, <1>2, <1>3, <1>4, <1>6, LoneQuiet

LEMMA EnqueueLone ==
    ASSUME LInv, IInv', NEW r \in Requests, Enqueue(r)
    PROVE  LInv'
<1> USE DEF At
<1> DEFINE o == Picked(req[r].todo)
<1>1. /\ req \in [Requests -> Request] /\ req[r] \in Request /\ Sure(req[r])
      /\ (Lone => Solo(req[r]))
  BY LoneFacts
<1>2. UNCHANGED LoneVars
  BY DEF Enqueue, EnqueueOnce, Lapse, At, LoneVars, Waived, docVars
<1>3. (WalletDone => WalletDone') /\ \A x \in Orders : Confirmed(x)' = Confirmed(x)
  BY <1>2 DEF WalletDone, Confirmed, LoneVars
<1>4. CASE req[r].pc = "c_outbox"
  <2>1. req' = [req EXCEPT ![r] = [req[r] EXCEPT !.pc = "c_order_read", !.todo = @ \ {o}]]
    BY <1>4 DEF Enqueue, Set, Current, Picked
  <2>2. /\ req'[r].pc = "c_order_read" /\ req'[r].att = req[r].att
        /\ req'[r].job = req[r].job /\ req'[r].todo = req[r].todo \ {o}
        /\ \A s \in Requests \ {r} : req'[s] = req[s]
    BY <1>1, <2>1 DEF Request
  <2>3. Sure(req[r])'
    BY <1>1, <1>2, <1>4, <2>2 DEF Sure, LoneVars
  <2>4. Lone => Solo(req[r])'
    BY <1>1, <1>2, <1>3, <1>4, <2>2 DEF Solo, LoneVars
  <2> QED BY <1>2, <2>2, <2>3, <2>4, LoneQuiet
<1>5. CASE req[r].pc = "f_outbox"
  <2>1. Return(r) /\ (req[r].job = "webhook" => req[r].outcome = "FAILED")
    BY <1>1, <1>5 DEF Enqueue, Sure
  <2>2. /\ req'[r].pc \in Ended /\ Sure(req[r])' /\ (Lone => Solo(req[r])')
        /\ \A s \in Requests \ {r} : req'[s] = req[s]
    BY <1>2, <2>1, EndingLone DEF LoneVars
  <2> QED BY <1>2, <1>5, <2>2, LoneQuiet DEF Ended
<1> QED BY <1>4, <1>5 DEF Enqueue

-----------------------------------------------------------------------------
(* The steps of a lone attempt that write what others rely on              *)

\* An event is taken up again until it is closed as processed.
LEMMA DeliverLone ==
    ASSUME LInv, IInv', NEW r \in Requests, NEW a \in Attempts, NEW outcome \in Outcomes,
           Deliver(r, a, outcome)
    PROVE  LInv'
<1> DEFINE e == <<a, outcome>>
<1>1. /\ IInv /\ req \in [Requests -> Request] /\ req[r].pc = "idle"
      /\ Unopened /\ event \in [Attempts \X Outcomes -> EventStatuses]
  BY LoneFacts DEF Deliver, At, IInv, TypeOK
<1>2. UNCHANGED <<share, intent, attempt, gateway, reservation, orders, Waived, crashes>>
  BY DEF Deliver, docVars, effectVars, boundVars, Waived
<1>3. FactOf(outcome) \in gateway[a] /\ attempt[a] # "NONE"
  BY <1>1 DEF Deliver, Unopened
<1>4. /\ req'[r].pc = "match" /\ req'[r].job = "webhook" /\ req'[r].att = a
      /\ req'[r].outcome = outcome /\ \A s \in Requests \ {r} : req'[s] = req[s]
  BY <1>1 DEF Deliver, Set, Idle
<1>5. \A b \in Attempts : Never(b) => Never(b)'
  BY <1>1, <1>2, <1>4, NeverStays
<1>6. Faithful'
  BY <1>2 DEF LInv, Faithful, PaidAt
<1>7. Sure(req[r])'
  <2>1. NoIsFinal /\ outcome = "FAILED" => Never(a)
    BY <1>3 DEF FactOf, Never, LInv, Faithful
  <2> QED BY <1>2, <1>3, <1>4, <1>5, <2>1 DEF Sure
<1>8. Solo(req[r])'
  BY <1>4 DEF Solo
<1>9. (Reconciled => Reconciled') /\ (WalletDone => WalletDone')
  BY <1>2 DEF Reconciled, WalletDone, Confirmed
<1>10. ASSUME Lone PROVE Agree' /\ Carried'
  <2>1. Agree /\ Carried
    BY <1>10, LoneFacts
  <2>2. event'[<<1, "CAPTURED">>] = "PROCESSED" => event[<<1, "CAPTURED">>] = "PROCESSED"
    <3>1. event' = [event EXCEPT ![e] = IF @ = "NONE" THEN "PROCESSING" ELSE @]
      BY DEF Deliver
    <3> QED BY <1>1, <3>1
  <2>3. Agree'
    BY <1>2, <1>5, <2>1, <2>2, FirstAttempt DEF Agree, PaidAt
  <2>4. Carried'
    BY <1>1, <1>2, <1>4, <1>9, <2>1 DEF Carried
  <2> QED BY <2>3, <2>4
<1> QED BY <1>2, <1>4, <1>5, <1>6, <1>7, <1>8, <1>9, <1>10, LoneKeeps DEF Confirmed

\* The event is closed as processed by who has seen the attempt captured.
LEMMA CloseEventLone ==
    ASSUME LInv, IInv', NEW r \in Requests, CloseEvent(r)
    PROVE  LInv'
<1> DEFINE e == <<req[r].att, req[r].outcome>>
<1>1. /\ IInv /\ req \in [Requests -> Request] /\ req[r].pc \in {"processed", "failed"}
      /\ event \in [Attempts \X Outcomes -> EventStatuses] /\ (Lone => Solo(req[r]))
  BY LoneFacts DEF CloseEvent, At, IInv, TypeOK
<1>2. UNCHANGED <<share, intent, attempt, gateway, reservation, orders, Waived, crashes>>
  BY DEF CloseEvent, docVars, effectVars, boundVars, Waived
<1>3. req'[r] = Idle /\ \A s \in Requests \ {r} : req'[s] = req[s]
  BY <1>1 DEF CloseEvent, Finish, Set
<1>4. \A b \in Attempts : Never(b) => Never(b)'
  BY <1>1, <1>2, <1>3, NeverStays DEF Idle
<1>5. Faithful'
  BY <1>2 DEF LInv, Faithful, PaidAt
<1>6. Sure(req[r])' /\ Solo(req[r])'
  BY <1>3 DEF Sure, Solo, Idle
<1>7. (Reconciled => Reconciled') /\ (WalletDone => WalletDone')
  BY <1>2 DEF Reconciled, WalletDone, Confirmed
<1>8. ASSUME Lone PROVE Agree' /\ Carried'
  <2>1. Agree /\ Carried
    BY <1>8, LoneFacts
  <2>2. event'[<<1, "CAPTURED">>] = "PROCESSED" => attempt[1] = "CAPTURED"
    <3> DEFINE status == IF req[r].pc = "processed" THEN "PROCESSED" ELSE "FAILED"
    <3>1. event' = [event EXCEPT ![e] = IF req[r].eventDoc = status THEN @ ELSE status]
      BY DEF CloseEvent, At
    <3>2. CASE e = <<1, "CAPTURED">> /\ req[r].eventDoc # status
      <4>1. req[r].att = 1 /\ req[r].outcome = "CAPTURED" /\ e \in Attempts \X Outcomes
        BY <3>2, FirstAttempt DEF Outcomes
      <4>2. event'[<<1, "CAPTURED">>] = status
        BY <1>1, <3>1, <3>2, <4>1
      <4> QED BY <1>1, <1>8, <4>1, <4>2 DEF Solo
    <3>3. CASE ~(e = <<1, "CAPTURED">> /\ req[r].eventDoc # status)
      <4>1. event'[<<1, "CAPTURED">>] = event[<<1, "CAPTURED">>]
        BY <1>1, <3>1, <3>3, FirstAttempt DEF Outcomes
      <4> QED BY <2>1, <4>1 DEF Agree
    <3> QED BY <3>2, <3>3
  <2>3. Agree'
    BY <1>2, <1>4, <2>1, <2>2, FirstAttempt DEF Agree, PaidAt
  <2>4. Carried'
    BY <1>1, <1>2, <1>3, <1>7, <2>1 DEF Carried
  <2> QED BY <2>3, <2>4
<1> QED BY <1>2, <1>3, <1>4, <1>5, <1>6, <1>7, <1>8, LoneKeeps DEF Confirmed

\* A checkout that retries reserves again what was released; a committed reservation
\* makes it fail.
LEMMA ReserveLone ==
    ASSUME LInv, IInv', NEW r \in Requests, Reserve(r)
    PROVE  LInv'
<1>1. /\ IInv /\ req \in [Requests -> Request] /\ req[r] \in Request /\ req[r].pc = "reserve"
      /\ req[r].job = "submit" /\ (Lone => Solo(req[r]))
  BY LoneFacts DEF Reserve, At, Sound, IInv, TypeOK
<1>2. UNCHANGED <<share, intent, attempt, gateway, event, orders, Waived, crashes>>
  BY <1>1 DEF Reserve, Lapse, Waived, docVars
<1>3. \/ /\ reservation \in {"RESERVED", "RELEASED"} /\ reservation' = "RESERVED"
         /\ req' = [req EXCEPT ![r] = [req[r] EXCEPT !.pc = AfterReserve,
                                          !.prov = IF share = "full" THEN Wallet ELSE "none"]]
      \/ Throw(r) /\ reservation' = reservation
  BY DEF Reserve, Set
<1>4. /\ Sure(req[r])' /\ (Lone => Solo(req[r])') /\ req'[r].pc \notin Opening
      /\ \A s \in Requests \ {r} : req'[s] = req[s]
  <2>1. CASE Throw(r)
    BY <1>2, <2>1, EndingLone DEF Ended
  <2>2. CASE ~Throw(r)
    <3>1. /\ req'[r].pc \in {"count", "route"} /\ req'[r].job = "submit"
          /\ req'[r].intentDoc = req[r].intentDoc
          /\ \A s \in Requests \ {r} : req'[s] = req[s]
      BY <1>1, <1>3, <2>2 DEF Request, AfterReserve
    <3>2. Sure(req[r])'
      BY <3>1 DEF Sure
    <3>3. Lone => Solo(req[r])'
      BY <1>1, <1>2, <3>1 DEF Solo
    <3> QED BY <3>1, <3>2, <3>3
  <2> QED BY <2>1, <2>2
<1>5. \A b \in Attempts : Never(b) => Never(b)'
  BY <1>1, <1>2, <1>4, NeverStays
<1>6. Faithful'
  BY <1>2 DEF LInv, Faithful, PaidAt
<1>7. WalletDone => WalletDone'
  BY <1>1, <1>2, <1>3 DEF WalletDone
<1>8. Reconciled => Reconciled'
  BY <1>2, <1>7 DEF Reconciled, Confirmed
<1>9. ASSUME Lone PROVE Agree' /\ Carried'
  <2>1. Agree /\ Carried
    BY <1>9, LoneFacts
  <2>2. Agree'
    BY <1>2, <1>3, <1>5, <2>1, FirstAttempt DEF Agree, PaidAt
  <2>3. Carried'
    BY <1>1, <1>2, <1>4, <1>8, <2>1 DEF Carried
  <2> QED BY <2>2, <2>3
<1> QED BY <1>2, <1>4, <1>5, <1>6, <1>7, <1>9, LoneKeeps DEF Confirmed

\* The attempt that a submission makes is the first: the intent is as it was created.
LEMMA InsertLone ==
    ASSUME LInv, IInv', NEW r \in Requests, Insert(r)
    PROVE  LInv'
<1> USE DEF At
<1>1. /\ IInv /\ req \in [Requests -> Request] /\ req[r] \in Request /\ req[r].pc = "insert"
      /\ req[r].job = "submit" /\ req[r].att \in Attempts /\ attempt \in [Attempts -> AttemptDocs]
      /\ (Lone => Solo(req[r]))
  BY LoneFacts DEF Insert, Sound, IInv, TypeOK
<1>2. UNCHANGED <<share, intent, gateway, event, reservation, orders, Waived, crashes>>
  BY DEF Insert, docVars, effectVars, boundVars, Waived
<1>3. CASE attempt[req[r].att] # "NONE"
  <2>1. Throw(r) /\ UNCHANGED LoneVars
    BY <1>2, <1>3 DEF Insert, docVars, LoneVars
  <2> QED BY <1>1, <2>1, EndingLone, LoneQuiet DEF LoneVars, Ended
<1>4. CASE attempt[req[r].att] = "NONE"
  <2> PICK a \in Attempts : a = req[r].att
    BY <1>1
  <2>1. attempt' = [attempt EXCEPT ![a] = "INITIATED"]
    BY <1>4 DEF Insert
  <2>2. \A b \in Attempts : attempt'[b] = IF b = a THEN "INITIATED" ELSE attempt[b]
    BY <1>1, <2>1
  <2>3. /\ Sure(req[r])' /\ (Lone /\ Lone' => Solo(req[r])')
        /\ req'[r].pc \in Opening => req'[r].att = a
        /\ req[r].pc \notin Late
        /\ \A s \in Requests \ {r} : req'[s] = req[s]
    <3>1. CASE share = "full"
      <4>1. Set(r, Capturing(r, a)) /\ attempt'[a] # "NONE"
        BY <1>4, <2>2, <3>1 DEF Insert
      <4>2. /\ req'[r].pc \in {"c_attempt_read", "f_attempt_read"}
            /\ Sure(req[r])' /\ (Lone => Solo(req[r])')
            /\ \A s \in Requests \ {r} : req'[s] = req[s]
        BY <4>1, EnteringLone
      <4> QED BY <1>1, <4>2
    <3>2. CASE share # "full"
      <4>1. req' = [req EXCEPT ![r] = [req[r] EXCEPT !.pc = "process", !.prov = "none"]]
        BY <1>4, <3>2 DEF Insert, Set
      <4>2. /\ req'[r].pc = "process" /\ req'[r].job = "submit" /\ req'[r].att = a
            /\ req'[r].intentDoc = req[r].intentDoc
            /\ \A s \in Requests \ {r} : req'[s] = req[s]
        BY <1>1, <4>1 DEF Request
      <4>3. Sure(req[r])'
        BY <2>2, <4>2 DEF Sure
      <4>4. ASSUME Lone, Lone' PROVE Solo(req[r])'
        <5>1. a = 1
          BY <2>2, <4>4 DEF Lone
        <5>2. attempt[1] = "NONE" /\ intent = "CREATED" /\ req[r].intentDoc = "CREATED"
          BY <1>1, <1>4, <4>4, <5>1, LoneFacts DEF Solo, Agree
        <5> QED BY <1>2, <4>2, <5>2 DEF Solo
      <4> QED BY <1>1, <4>2, <4>3, <4>4
    <3> QED BY <3>1, <3>2
  <2>4. \A b \in Attempts : Never(b) => Never(b)'
    BY <1>1, <1>2, <1>4, <2>2, <2>3, NeverStays
  <2>5. Faithful'
    BY <1>2 DEF LInv, Faithful, PaidAt
  <2>6. (WalletDone => WalletDone') /\ (Reconciled => Reconciled')
    BY <1>2 DEF WalletDone, Reconciled, Confirmed
  <2>7. ASSUME Lone, Lone' PROVE Agree' /\ Carried'
    <3>1. Agree /\ a = 1
      BY <2>2, <2>7, LoneFacts DEF Lone
    <3>2. attempt[1] = "NONE" /\ attempt'[1] = "INITIATED" /\ intent = "CREATED" /\ ~Never(1)
      BY <1>4, <2>2, <3>1 DEF Agree, Never
    <3>3. Agree'
      BY <1>2, <3>1, <3>2 DEF Agree, PaidAt
    <3> QED BY <3>2, <3>3 DEF Carried
  <2>8. ASSUME Lone PROVE attempt[1] = "CAPTURED" => attempt'[1] = "CAPTURED"
    BY <1>4, <2>2, FirstAttempt
  <2>9. \A b \in Attempts : attempt[b] # "NONE" => attempt'[b] # "NONE"
    BY <2>2
  <2> QED BY <1>2, <2>3, <2>4, <2>5, <2>6, <2>7, <2>8, <2>9, LoneKeeps DEF Confirmed
<1> QED BY <1>3, <1>4

\* Only the lone attempt's submission takes the intent from CREATED to PROCESSING.
LEMMA ProcessLone ==
    ASSUME LInv, IInv', NEW r \in Requests, Process(r)
    PROVE  LInv'
<1>1. /\ IInv /\ req \in [Requests -> Request] /\ req[r] \in Request /\ req[r].pc = "process"
      /\ req[r].job = "submit" /\ Sound(req[r]) /\ Sure(req[r])
      /\ Lone => Agree /\ Carried /\ Solo(req[r]) /\ req[r].att = 1 /\ attempt[1] # "NONE"
  BY LoneFacts DEF Process, At, Sound
<1>2. UNCHANGED <<share, attempt, gateway, event, reservation, orders, Waived, crashes>>
  BY DEF Process, effectVars, boundVars, Waived
<1>3. CASE Throw(r) /\ UNCHANGED intent
  BY <1>1, <1>2, <1>3, EndingLone, LoneQuiet DEF LoneVars, Ended
<1>4. CASE ~(Throw(r) /\ UNCHANGED intent)
  <2>1. /\ req' = [req EXCEPT ![r] = [req[r] EXCEPT !.pc = "call", !.intentDoc = "NONE"]]
        /\ intent' = IF req[r].intentDoc = "PROCESSING" THEN intent ELSE "PROCESSING"
    BY <1>4 DEF Process, SetIntent, Set
  <2>2. /\ req'[r].pc = "call" /\ req'[r].att = req[r].att /\ req'[r].job = "submit"
        /\ \A s \in Requests \ {r} : req'[s] = req[s]
    BY <1>1, <2>1 DEF Request
  <2>3. Lone => intent = "CREATED" /\ intent' = "PROCESSING" /\ gateway[1] = {}
    BY <1>1, <2>1 DEF Solo, Sound
  <2>4. Sure(req[r])' /\ (Lone => Solo(req[r])')
    BY <1>1, <1>2, <2>2, <2>3 DEF Sure, Solo
  <2>5. \A b \in Attempts : Never(b) => Never(b)'
    BY <1>1, <1>2, <2>2, NeverStays
  <2>6. Faithful' /\ (WalletDone => WalletDone')
    BY <1>2 DEF LInv, Faithful, PaidAt, WalletDone
  <2>7. ASSUME Lone PROVE Agree' /\ Carried'
    <3>1. Agree'
      BY <1>1, <1>2, <2>3, <2>5, <2>7, FirstAttempt DEF Agree, PaidAt
    <3>2. attempt'[1] # "CAPTURED"
      BY <1>1, <1>2, <2>3, <2>7 DEF Agree, PaidAt
    <3> QED BY <3>1, <3>2 DEF Carried
  <2>8. ASSUME Lone, NEW s \in Requests \ {r} PROVE req[s].pc \notin Opening
    BY <1>1, <2>8, LoneFacts DEF IInv, Apart
  <2> QED BY <1>2, <2>2, <2>3, <2>4, <2>5, <2>6, <2>7, <2>8, LoneKeeps DEF Confirmed
<1> QED BY <1>3, <1>4

\* The gateway's first answer: a no is final, and comes before any capture.
LEMMA CallLone ==
    ASSUME LInv, IInv', NEW r \in Requests, Call(r)
    PROVE  LInv'
<1> PICK a : a = req[r].att
  OBVIOUS
<1>1. /\ IInv /\ req \in [Requests -> Request] /\ req[r] \in Request /\ req[r].pc = "call"
      /\ req[r].job = "submit" /\ a \in Attempts /\ attempt[a] # "NONE" /\ gateway[a] = {}
      /\ gateway \in [Attempts -> SUBSET GatewayFacts]
      /\ Lone => Agree /\ Carried /\ Solo(req[r]) /\ a = 1
  BY LoneFacts DEF Call, At, Sound, IInv, TypeOK
<1>2. UNCHANGED <<share, intent, attempt, event, reservation, orders, Waived, crashes>>
  BY DEF Call, docVars, effectVars, boundVars, Waived
<1>3. PICK reply \in Replies :
         /\ gateway' = [gateway EXCEPT ![a] = reply.facts]
         /\ IF reply.answer = "error"
            THEN Throw(r)
            ELSE req' = [req EXCEPT ![r] = [req[r] EXCEPT !.pc = "save", !.outcome = reply.answer]]
  BY DEF Call, Set
<1>4. \A b \in Attempts : gateway'[b] = IF b = a THEN reply.facts ELSE gateway[b]
  BY <1>1, <1>3
<1>5. /\ \A s \in Requests \ {r} : req'[s] = req[s]
      /\ \/ Throw(r) /\ req'[r].pc \in Ended
         \/ /\ req'[r].pc = "save" /\ req'[r].att = a /\ req'[r].job = "submit"
            /\ req'[r].outcome = reply.answer
  <2>1. CASE Throw(r)
    BY <1>2, <2>1, EndingLone
  <2>2. CASE ~Throw(r)
    BY <1>1, <1>3, <2>2 DEF Request
  <2> QED BY <2>1, <2>2
<1>6. req'[r].pc \notin Opening
  BY <1>5 DEF Ended
<1>7. \A b \in Attempts : Never(b) => b # a
  BY <1>1 DEF Never
<1>8. \A b \in Attempts : Never(b) => Never(b)'
  BY <1>2, <1>4, <1>5, <1>6, <1>7 DEF Never, PaidAt
<1>9. Faithful'
  <2>1. NoIsFinal /\ "captured" \in reply.facts => "declined" \notin reply.facts
    BY DEF Replies
  <2> QED BY <1>4, <2>1 DEF LInv, Faithful, PaidAt
<1>10. Sure(req[r])' /\ (Lone => Solo(req[r])')
  <2>1. NoIsFinal /\ reply.answer = "FAILED" => Never(a)'
    <3>1. NoIsFinal /\ reply.answer = "FAILED"
            => "captured" \notin reply.facts /\ ("declined" \in reply.facts \/ reply.facts = {})
      BY DEF Replies
    <3>2. \A s \in Requests : req'[s].pc \in Opening => req'[s].att # a
      BY <1>1, <1>5, <1>6 DEF IInv, Apart
    <3> QED BY <1>1, <1>2, <1>4, <3>1, <3>2 DEF Never, PaidAt
  <2>2. CASE req'[r].pc = "save"
    BY <1>1, <1>2, <1>5, <2>1, <2>2 DEF Sure, Solo, Ended
  <2>3. CASE req'[r].pc # "save"
    BY <1>2, <1>3, <1>5, <2>3, EndingLone
  <2> QED BY <2>2, <2>3
<1>11. (WalletDone => WalletDone') /\ \A o \in Orders : Confirmed(o)' = Confirmed(o)
  BY <1>2 DEF WalletDone, Confirmed
<1>12. ASSUME Lone PROVE Agree' /\ Carried'
  <2>1. Agree /\ intent = "PROCESSING" /\ attempt[1] = "INITIATED" /\ ~Never(1)
    BY <1>1, <1>7, <1>12, FirstAttempt DEF Solo, Agree, PaidAt
  <2>2. Agree'
    BY <1>2, <2>1 DEF Agree
  <2> QED BY <1>2, <2>1, <2>2 DEF Carried
<1> QED BY <1>2, <1>5, <1>8, <1>9, <1>10, <1>11, <1>12, LoneKeeps

\* A capture and a final no are never written for one attempt.
LEMMA SaveAttemptLone ==
    ASSUME LInv, IInv', NEW r \in Requests, SaveAttempt(r)
    PROVE  LInv'
<1> PICK a : a = req[r].att
  OBVIOUS
<1> PICK to \in {"CAPTURED", "FAILED"} :
      to = IF req[r].pc = "c_attempt" THEN "CAPTURED" ELSE "FAILED"
  OBVIOUS
<1> DEFINE next == IF to = "CAPTURED" THEN "c_intent" ELSE "f_intent"
<1>1. /\ IInv /\ req \in [Requests -> Request] /\ req[r] \in Request /\ a \in Attempts
      /\ req[r].pc \in {"c_attempt", "f_attempt"} /\ attempt[a] # "NONE"
      /\ Sound(req[r]) /\ Sure(req[r]) /\ attempt \in [Attempts -> AttemptDocs]
      /\ Lone => Agree /\ Carried /\ Solo(req[r]) /\ a = 1
  BY LoneFacts DEF SaveAttempt, At, Sound, Sure, IInv, TypeOK
<1>2. UNCHANGED <<share, intent, gateway, event, reservation, orders, Waived, crashes>>
  BY DEF SaveAttempt, effectVars, boundVars, Waived
<1>3. SetAttempt(r, to, next)
  BY DEF SaveAttempt, At
<1>4. CASE Throw(r) /\ UNCHANGED attempt
  BY <1>1, <1>2, <1>4, EndingLone, LoneQuiet DEF LoneVars, Ended
<1>5. CASE ~(Throw(r) /\ UNCHANGED attempt)
  <2>1. /\ req' = [req EXCEPT ![r] = [req[r] EXCEPT !.pc = next, !.attDoc = "NONE"]]
        /\ attempt' = IF req[r].attDoc = to THEN attempt ELSE [attempt EXCEPT ![a] = to]
    BY <1>3, <1>5 DEF SetAttempt, Set
  <2>2. /\ req'[r].pc = next /\ req'[r].att = a /\ req'[r].job = req[r].job
        /\ req'[r].outcome = req[r].outcome /\ req'[r].intentDoc = req[r].intentDoc
        /\ \A s \in Requests \ {r} : req'[s] = req[s]
    BY <1>1, <2>1 DEF Request
  <2>3. /\ \A b \in Attempts : attempt[b] # "NONE" => attempt'[b] # "NONE"
        /\ attempt'[a] \in {attempt[a], to} /\ \A b \in Attempts \ {a} : attempt'[b] = attempt[b]
        /\ req[r].attDoc # to => attempt'[a] = to
    BY <1>1, <2>1
  <2>4. req'[r].pc \notin Opening
    BY <2>2
  <2>5. \A b \in Attempts : Never(b) => Never(b)'
    BY <1>1, <1>2, <2>2, <2>3, <2>4, NeverStays
  <2>6. Faithful' /\ (WalletDone => WalletDone') /\ \A o \in Orders : Confirmed(o)' = Confirmed(o)
    BY <1>2 DEF LInv, Faithful, PaidAt, WalletDone, Confirmed
  <2>7. Sure(req[r])'
    <3>1. to = "FAILED" => req[r].pc = "f_attempt"
      BY <1>1
    <3> QED BY <1>1, <2>2, <2>3, <2>5, <3>1 DEF Sure
  <2>8. CASE to = "CAPTURED"
    <3>1. Lone => PaidAt(1) /\ attempt'[1] = "CAPTURED" /\ req'[r].pc = "c_intent"
      BY <1>1, <2>2, <2>3, <2>8 DEF Sound, Solo, Lone
    <3>2. Lone => Solo(req[r])'
      BY <1>1, <1>2, <2>2, <2>8, <3>1 DEF Solo
    <3>3. Lone => Agree' /\ Carried'
      BY <1>1, <1>2, <2>5, <3>1 DEF Agree, Carried, PaidAt
    <3> QED BY <1>2, <2>2, <2>3, <2>5, <2>6, <2>7, <3>1, <3>2, <3>3, LoneKeeps
  <2>9. CASE to = "FAILED"
    <3>1. Lone => /\ Never(1) /\ attempt[1] # "CAPTURED" /\ attempt'[1] \in {attempt[1], "FAILED"}
                  /\ req'[r].pc = "f_intent"
      BY <1>1, <2>2, <2>3, <2>9 DEF Sure, Lone, Agree, Never
    <3>2. Lone => Solo(req[r])'
      BY <2>2, <2>9 DEF Solo
    <3>3. Lone => Agree' /\ Carried'
      BY <1>1, <1>2, <2>5, <3>1, FirstAttempt DEF Agree, Carried, PaidAt
    <3> QED BY <1>2, <2>2, <2>3, <2>5, <2>6, <2>7, <3>1, <3>2, <3>3, LoneKeeps
  <2> QED BY <2>8, <2>9
<1> QED BY <1>4, <1>5

LEMMA SaveIntentLone ==
    ASSUME LInv, IInv', NEW r \in Requests, SaveIntent(r)
    PROVE  LInv'
<1> PICK a : a = req[r].att
  OBVIOUS
<1>1. /\ IInv /\ req \in [Requests -> Request] /\ req[r] \in Request /\ a \in Attempts
      /\ req[r].pc \in {"c_intent", "f_intent"} /\ attempt[a] # "NONE"
      /\ Sound(req[r]) /\ Sure(req[r])
      /\ Lone => Agree /\ Carried /\ Solo(req[r]) /\ a = 1
  BY LoneFacts DEF SaveIntent, At, Sound, Sure
<1>2. UNCHANGED <<share, attempt, gateway, event, reservation, orders, Waived, crashes>>
  BY DEF SaveIntent, effectVars, boundVars, Waived
<1>3. Faithful' /\ (WalletDone => WalletDone') /\ \A o \in Orders : Confirmed(o)' = Confirmed(o)
  BY <1>2 DEF LInv, Faithful, PaidAt, WalletDone, Confirmed
<1>4. ASSUME Lone, NEW s \in Requests \ {r}, req[s].pc \in Opening PROVE ~PaidAt(1) /\ ~Never(1)
  <2>1. req[s].att = 1 /\ gateway[1] = {}
    BY <1>4, LoneFacts DEF Sound
  <2> QED BY <1>4, <2>1 DEF Never, PaidAt
<1>5. CASE Throw(r) /\ UNCHANGED intent
  <2>1. Lone => req[r].pc = "f_intent"
    <3>1. ASSUME Lone, req[r].pc = "c_intent" PROVE FALSE
      <4>1. SetIntent(r, "SUCCEEDED", "c_wallet") /\ IntentMayBecome(req[r].intentDoc, "SUCCEEDED")
        BY <1>1, <3>1 DEF SaveIntent, At, Solo, IntentMayBecome, IntentSuccessors
      <4>2. req'[r].pc = "c_wallet"
        BY <1>1, <4>1 DEF SetIntent, Set, Request
      <4> QED BY <1>2, <1>5, <4>2, EndingLone DEF Ended
    <3> QED BY <1>1, <3>1
  <2> QED BY <1>1, <1>2, <1>5, <2>1, EndingLone, LoneQuiet DEF LoneVars, Ended
<1>6. CASE req[r].pc = "c_intent" /\ ~(Throw(r) /\ UNCHANGED intent)
  <2>1. /\ req' = [req EXCEPT ![r] = [req[r] EXCEPT !.pc = "c_wallet", !.intentDoc = "NONE"]]
        /\ intent' = IF req[r].intentDoc = "SUCCEEDED" THEN intent ELSE "SUCCEEDED"
    BY <1>6 DEF SaveIntent, At, SetIntent, Set
  <2>2. /\ req'[r].pc = "c_wallet" /\ req'[r].att = a /\ req'[r].job = req[r].job
        /\ \A s \in Requests \ {r} : req'[s] = req[s]
    BY <1>1, <2>1 DEF Request
  <2>3. Lone => PaidAt(1) /\ intent' = "SUCCEEDED" /\ attempt[1] = "CAPTURED"
    BY <1>1, <1>6, <2>1 DEF Sound, Solo, Lone
  <2>4. \A b \in Attempts : Never(b) => Never(b)'
    BY <1>1, <1>2, <2>2, NeverStays
  <2>5. Sure(req[r])' /\ (Lone => Solo(req[r])')
    BY <1>1, <1>2, <2>2, <2>3 DEF Sure, Solo
  <2>6. Lone => Agree' /\ Carried'
    BY <1>1, <1>2, <2>2, <2>3, <2>4, FirstAttempt DEF Agree, Carried, PaidAt
  <2> QED BY <1>2, <1>3, <1>4, <2>2, <2>3, <2>4, <2>5, <2>6, LoneKeeps
<1>7. CASE req[r].pc = "f_intent" /\ ~(Throw(r) /\ UNCHANGED intent)
  <2>1. req' = [req EXCEPT ![r] = [req[r] EXCEPT !.pc = "f_release", !.intentDoc = "NONE"]]
    BY <1>7 DEF SaveIntent, At, SetIntent, Set
  <2>2. /\ intent' \in {intent, "REQUIRES_PAYMENT_METHOD"}
        /\ req'[r].pc = "f_release" /\ req'[r].att = a /\ req'[r].job = req[r].job
        /\ req'[r].outcome = req[r].outcome
        /\ \A s \in Requests \ {r} : req'[s] = req[s]
    BY <1>1, <1>7, <2>1 DEF Request, SaveIntent, At, SetIntent
  <2>3. Lone => Never(1) /\ ~PaidAt(1) /\ attempt[1] # "CAPTURED" /\ intent # "SUCCEEDED"
    BY <1>1, <1>7 DEF Sure, Lone, Never, Agree
  <2>4. \A b \in Attempts : Never(b) => Never(b)'
    BY <1>1, <1>2, <2>2, NeverStays
  <2>5. Sure(req[r])' /\ (Lone => Solo(req[r])')
    BY <1>1, <1>2, <1>7, <2>2, <2>4 DEF Sure, Solo
  <2>6. ASSUME Lone PROVE Agree' /\ Carried'
    <3>1. attempt[1] # "NONE" /\ (gateway[1] # {} => "declined" \in gateway[1])
      BY <2>3, <2>6 DEF Never
    <3> QED BY <1>1, <1>2, <2>2, <2>3, <2>4, <2>6, <3>1, FirstAttempt DEF Agree, Carried, PaidAt
  <2> QED BY <1>2, <1>3, <1>4, <2>2, <2>3, <2>4, <2>5, <2>6, LoneKeeps
<1> QED BY <1>1, <1>5, <1>6, <1>7

\* The wallet is debited or released; both never happen for one attempt.
LEMMA WalletStepLone ==
    ASSUME LInv, IInv', NEW r \in Requests, WalletStep(r)
    PROVE  LInv'
<1> PICK a : a = req[r].att
  OBVIOUS
<1>1. /\ IInv /\ req \in [Requests -> Request] /\ req[r] \in Request /\ a \in Attempts
      /\ req[r].pc \in {"c_wallet", "f_release"} /\ attempt[a] # "NONE"
      /\ Sound(req[r]) /\ Sure(req[r])
      /\ reservation \in {"NONE", "RESERVED", "COMMITTED", "RELEASED"}
      /\ Lone => Agree /\ Carried /\ Solo(req[r]) /\ a = 1
  BY LoneFacts DEF WalletStep, At, Sound, Sure, IInv, TypeOK
<1>2. UNCHANGED <<share, intent, attempt, gateway, event, orders, crashes>>
  BY DEF WalletStep, docVars
<1>3. /\ req'[r].pc = IF req[r].pc = "c_wallet" THEN "c_ledger" ELSE "f_outbox"
      /\ req'[r].att = a /\ req'[r].job = req[r].job /\ req'[r].outcome = req[r].outcome
      /\ \A s \in Requests \ {r} : req'[s] = req[s]
  BY <1>1 DEF WalletStep, At, Goto, Set, Request
<1>4. \/ /\ reservation' = IF reservation = "RESERVED"
                           THEN IF req[r].pc = "c_wallet" THEN "COMMITTED" ELSE "RELEASED"
                           ELSE reservation
         /\ Waived' = Waived
      \/ /\ reservation' = reservation
         /\ Waived' = (Waived \/ req[r].pc = "c_wallet")
  BY <1>1 DEF WalletStep, Lapse, Waived, At
<1>5. req'[r].pc \notin Opening
  BY <1>3
<1>6. \A b \in Attempts : Never(b) => Never(b)'
  BY <1>1, <1>2, <1>3, <1>5, NeverStays
<1>7. Faithful' /\ \A o \in Orders : Confirmed(o)' = Confirmed(o)
  BY <1>2 DEF LInv, Faithful, PaidAt, Confirmed
<1>8. WalletDone => WalletDone'
  BY <1>1, <1>2, <1>4 DEF WalletDone
<1>9. Sure(req[r])'
  BY <1>1, <1>2, <1>3, <1>6 DEF Sure
<1>10. CASE req[r].pc = "c_wallet"
  <2>1. ASSUME Lone PROVE WalletDone' /\ PaidAt(1) /\ ~Never(1)
    <3>1. PaidAt(1) /\ ~Never(1)
      BY <1>1, <1>10, <2>1 DEF Sound, Lone, Never
    <3> QED BY <1>1, <1>2, <1>4, <1>10, <2>1, <3>1 DEF WalletDone, Agree
  <2>2. Lone => Solo(req[r])'
    BY <1>1, <1>2, <1>3, <1>10, <2>1 DEF Solo
  <2>3. Lone => Agree' /\ Carried'
    BY <1>1, <1>2, <1>3, <1>4, <1>10, <2>1, FirstAttempt DEF Agree, Carried, PaidAt
  <2> QED BY <1>2, <1>3, <1>6, <1>7, <1>8, <1>9, <2>2, <2>3, LoneKeeps
<1>11. CASE req[r].pc = "f_release"
  <2>1. Lone => Never(1) /\ Never(1)' /\ ~PaidAt(1) /\ attempt'[1] # "CAPTURED"
    BY <1>1, <1>2, <1>6, <1>11 DEF Sure, Lone, Never, Agree
  <2>2. Lone => Solo(req[r])'
    BY <1>3, <1>11 DEF Solo
  <2>3. Lone => Agree' /\ Carried'
    BY <1>1, <1>2, <1>4, <1>11, <2>1 DEF Agree, Carried, PaidAt
  <2> QED BY <1>2, <1>3, <1>6, <1>7, <1>8, <1>9, <2>2, <2>3, LoneKeeps
<1> QED BY <1>1, <1>10, <1>11

LEMMA SaveOrderLone ==
    ASSUME LInv, IInv', NEW r \in Requests, SaveOrder(r)
    PROVE  LInv'
<1> DEFINE o == Picked(req[r].todo)
<1>1. /\ IInv /\ req \in [Requests -> Request] /\ req[r] \in Request
      /\ req[r].pc = "c_order" /\ Sure(req[r]) /\ o \in Orders
      /\ orders \in [Orders -> {"PENDING", "CAPTURED"}]
      /\ Lone => Agree /\ Carried /\ Solo(req[r])
  <2>1. req[r].pc = "c_order" /\ req[r].todo # {} /\ req[r].todo \subseteq Orders
    BY LoneFacts DEF SaveOrder, At, Sound, Request
  <2>2. o \in Orders
    BY <2>1 DEF Picked
  <2> QED BY <2>1, <2>2, LoneFacts DEF IInv, TypeOK
<1>2. UNCHANGED <<share, intent, attempt, gateway, event, reservation, Waived, crashes>>
  BY DEF SaveOrder, docVars, boundVars, Waived
<1>3. orders' = [orders EXCEPT ![o] = "CAPTURED"]
  BY DEF SaveOrder, Current, Picked
<1>4. Confirmed(o)' /\ \A x \in Orders : Confirmed(x) => Confirmed(x)'
  <2>1. orders'[o] = "CAPTURED" /\ \A x \in Orders : orders[x] = "CAPTURED" => orders'[x] = "CAPTURED"
    BY <1>1, <1>3
  <2>2. req'[r].todo = req[r].todo
    BY <1>1 DEF SaveOrder, Goto, Set, Request
  <2> QED BY <2>1, <2>2 DEF Confirmed
<1>5. /\ req'[r].pc = "c_report" /\ req'[r].todo = req[r].todo /\ req'[r].att = req[r].att
      /\ req'[r].job = req[r].job /\ \A s \in Requests \ {r} : req'[s] = req[s]
  BY <1>1 DEF SaveOrder, Goto, Set, Request
<1>6. \A b \in Attempts : Never(b) => Never(b)'
  BY <1>1, <1>2, <1>5, NeverStays
<1>7. Faithful' /\ (WalletDone => WalletDone') /\ (Reconciled => Reconciled')
  BY <1>2, <1>4 DEF LInv, Faithful, PaidAt, WalletDone, Reconciled
<1>8. Sure(req[r])'
  BY <1>1, <1>2, <1>5 DEF Sure
<1>9. Lone => Solo(req[r])'
  BY <1>1, <1>2, <1>4, <1>5, <1>7 DEF Solo
<1>10. Lone => Agree' /\ Carried'
  BY <1>1, <1>2, <1>5, <1>6, FirstAttempt DEF Agree, Carried, PaidAt
<1> QED BY <1>2, <1>4, <1>5, <1>6, <1>7, <1>8, <1>9, <1>10, LoneKeeps

\* A death ends what the invariant says of a lone attempt.
LEMMA CrashLone ==
    ASSUME LInv, IInv', NEW r \in Requests, Crash(r)
    PROVE  LInv'
<1>1. IInv /\ req \in [Requests -> Request] /\ crashes \in Nat
  BY LoneFacts DEF IInv, TypeOK
<1>2. UNCHANGED <<share, attempt, gateway>> /\ crashes' = crashes + 1
  BY DEF Crash, docVars
<1>3. req'[r] = Idle /\ \A s \in Requests \ {r} : req'[s] = req[s]
  BY <1>1 DEF Crash, Finish, Set
<1>4. \A b \in Attempts : Never(b) => Never(b)'
  BY <1>1, <1>2, <1>3, NeverStays DEF Idle
<1>5. Faithful' /\ Sure(req[r])' /\ ~Lone' /\ (crashes' = 0 => crashes = 0)
  BY <1>1, <1>2, <1>3 DEF LInv, Faithful, PaidAt, Sure, Idle, Lone
<1> QED BY <1>2, <1>3, <1>4, <1>5, LoneKeeps

\* Gateways act on payments that were opened, so a final no stays one.
LEMMA EnvironmentLone ==
    ASSUME LInv, IInv',
           \/ \E a \in Attempts : GatewayCaptures(a) \/ GatewayDeclines(a)
           \/ Reclaim \/ Expire \/ UNCHANGED vars
    PROVE  LInv'
<1>1. UNCHANGED <<share, intent, attempt, event, reservation, orders, req, crashes, Waived>>
  BY DEF GatewayCaptures, GatewayDeclines, Reclaim, Expire, vars, docVars, effectVars, boundVars, Waived
<1>2. gateway \in [Attempts -> SUBSET GatewayFacts]
  BY DEF LInv, IInv, TypeOK
<1>3. PICK fact \in {"captured", "declined"} :
         \A b \in Attempts :
            \/ gateway'[b] = gateway[b]
            \/ /\ gateway'[b] = gateway[b] \cup {fact} /\ "opened" \in gateway[b]
               /\ fact = "captured" /\ NoIsFinal => "declined" \notin gateway[b]
               /\ fact = "declined" => gateway[b] = {"opened"}
  BY <1>2 DEF GatewayCaptures, GatewayDeclines, Reclaim, Expire, vars
<1>4. \A b \in Attempts : PaidAt(b) => PaidAt(b)'
  BY <1>3 DEF PaidAt
<1>5. \A b \in Attempts : NoIsFinal /\ Never(b) => Never(b)'
  BY <1>1, <1>3 DEF Never, PaidAt
<1>6. Faithful'
  BY <1>3 DEF LInv, Faithful, PaidAt
<1>7. ASSUME NEW s \in Requests PROVE Sure(req[s])'
  <2>1. Sure(req[s]) /\ Sound(req[s])
    BY DEF LInv, IInv
  <2> QED BY <1>1, <1>5, <2>1 DEF Sure, Sound
<1>8. ASSUME Lone PROVE Agree' /\ Carried' /\ \A s \in Requests : Solo(req[s])'
  <2>1. Agree /\ Carried /\ NoIsFinal /\ \A s \in Requests : Solo(req[s])
    BY <1>8 DEF LInv, Lone
  <2>2. Carried' /\ \A s \in Requests : Solo(req[s])'
    BY <1>1, <2>1 DEF Carried, Reconciled, Solo, WalletDone, Confirmed
  <2>3. Agree'
    BY <1>1, <1>3, <1>4, <1>5, <2>1, FirstAttempt DEF Agree
  <2> QED BY <2>2, <2>3
<1>9. Lone' => Lone
  BY <1>1 DEF Lone
<1> QED BY <1>6, <1>7, <1>8, <1>9 DEF LInv

LEMMA LoneInvariance == Spec => []LInv
<1>1. ASSUME LInv, [Next]_vars PROVE LInv'
  <2>1. IInv'
    BY <1>1, NextIInv DEF LInv
  <2>2. ASSUME NEW r \in Requests, Start(r) PROVE LInv'
    BY <1>1, <2>1, <2>2, StartsLone, DeliverLone DEF Start
  <2>3. ASSUME NEW r \in Requests, Submission(r) PROVE LInv'
    BY <1>1, <2>1, <2>3, ReadIntentLone, ReserveLone, RouteLone, CountLone, InsertLone,
       ProcessLone, CallLone, SaveLone, UnlockLone DEF Submission
  <2>4. ASSUME NEW r \in Requests, Match(r) \/ CloseEvent(r) \/ Rail(r) PROVE LInv'
    BY <1>1, <2>1, <2>4, MatchLone, CloseEventLone, RailLone
  <2>5. ASSUME NEW r \in Requests, Handler(r) PROVE LInv'
    BY <1>1, <2>1, <2>5, ReadAttemptLone, RereadIntentLone, SaveAttemptLone, SaveIntentLone,
       WalletStepLone, PostCaptureLone, ReadOrderLone, SaveOrderLone, ReportLone, EnqueueLone
       DEF Handler
  <2>6. ASSUME NEW r \in Requests, Crash(r) PROVE LInv'
    BY <1>1, <2>1, <2>6, CrashLone
  <2>7. CASE \/ \E a \in Attempts : GatewayCaptures(a) \/ GatewayDeclines(a)
             \/ Reclaim \/ Expire \/ UNCHANGED vars
    BY <1>1, <2>1, <2>7, EnvironmentLone
  <2> QED BY <1>1, <2>2, <2>3, <2>4, <2>5, <2>6, <2>7 DEF Next, Advance
<1> QED BY <1>1, LoneInit, PTL DEF Spec

\* The first attempt's capture, delivered any number of times, by webhooks and polls at
\* once, leaves intent, orders and wallet reconciled when the gateway's event counts as
\* processed, for any number of requests and orders: no second attempt, no crash.
THEOREM LoneCapturesReconciled == Spec => []LoneCaptureReconciled
<1>1. LInv => LoneCaptureReconciled
  <2> SUFFICES ASSUME LInv, Lone, Idling, event[<<1, "CAPTURED">>] = "PROCESSED"
               PROVE  attempt[1] = "CAPTURED" /\ Reconciled
    BY DEF LoneCaptureReconciled, Lone, Reconciled, WalletDone, Waived
  <2>1. attempt[1] = "CAPTURED" /\ Carried
    BY DEF LInv, Agree
  <2> QED BY <2>1 DEF Carried, Idling, At
<1> QED BY <1>1, LoneInvariance, PTL
=============================================================================
