----------------------- MODULE SettlementCalmProofs -----------------------
(***************************************************************************)
(* What Settlement promises of a batch that whole operations touch one at  *)
(* a time: it stays paid, and a transfer that the bank has taken is not    *)
(* lost sight of; and that the settlement implements its promise.          *)
(***************************************************************************)
EXTENDS SettlementProofs

Taken(b) == bank[b] \in {"pending", "success"}

\* What a request at work on a batch alone knows of it
Sees(q) ==
    /\ q.pc \in {"review", "submitting", "call", "answer", "inquire", "found", "paid"} =>
          status[q.on] = q.seen /\ q.seen # "PAID"
    /\ q.pc \in {"call", "answer"} => q.seen = "SUBMITTING"
    /\ q.pc \in {"review", "submitting", "call"} => ~Taken(q.on)
    /\ q.pc \in {"answer", "found"} /\ q.next = "FAILED" => ~Taken(q.on)

InSight(b) == Taken(b) => Unsure(b) \/ status[b] = "PAID"

Calm(b) ==
    /\ \A r, s \in Requests : req[r].on = b /\ req[s].on = b => r = s
    /\ \A r \in Requests : req[r].on = b => Sees(req[r])
    /\ InSight(b)

CalmInv == \A b \in calm : Calm(b)

-----------------------------------------------------------------------------
\* A step of r leaves a batch alone that r has nothing to do with.
LEMMA CalmElsewhere ==
    ASSUME NEW r \in Requests, Moves(r), NEW c \in Batches, Calm(c),
           req[r].on # c, req'[r].on # c,
           status'[c] = status[c], bank'[c] = bank[c]
    PROVE  Calm(c)'
<1>1. \A s \in Requests : req'[s].on = c => s # r /\ req'[s] = req[s]
  BY DEF Moves
<1>2. InSight(c)'
  BY DEF Calm, InSight, Taken, Unsure
<1>3. \A s \in Requests : req'[s].on = c => Sees(req[s])'
  BY <1>1 DEF Calm, Sees, Taken
<1> QED BY <1>1, <1>2, <1>3 DEF Calm

\* The batch that r alone is at work on
LEMMA CalmOwn ==
    ASSUME NEW r \in Requests, Moves(r), NEW b \in Batches,
           \A s \in Requests \ {r} : req[s].on # b,
           req'[r].on = b => Sees(req[r])', InSight(b)'
    PROVE  Calm(b)'
BY DEF Calm, Moves

LEMMA OnlyOne ==
    ASSUME NEW r \in Requests, NEW b \in Batches, Calm(b), req[r].on = b
    PROVE  (\A s \in Requests \ {r} : req[s].on # b) /\ Sees(req[r]) /\ InSight(b)
BY DEF Calm

\* Steps that change the status of at most the batch r is at work on, or begins with
Confined(r) ==
    /\ Moves(r)
    /\ \A b \in Batches :
          b # req[r].on => status'[b] = status[b] /\ bank'[b] = bank[b]
    /\ calm' \subseteq calm

LEMMA CalmSteps ==
    ASSUME SettlementInv, CalmInv, NEW r \in Requests, Confined(r),
           \A b \in calm' : b \in {req[r].on, req'[r].on} => Calm(b)'
    PROVE  CalmInv'
<1> SUFFICES ASSUME NEW b \in calm', b # req[r].on, b # req'[r].on PROVE Calm(b)'
  BY DEF CalmInv
<1>1. b \in Batches /\ Calm(b)
  BY DEF CalmInv, Confined, SettlementInv, TypeOK
<1> QED BY <1>1, CalmElsewhere DEF Confined

-----------------------------------------------------------------------------
(* The steps that begin an operation.                                      *)

\* Nobody else is at work on a batch that stays calm when an operation begins on it.
LEMMA BeginKeeps ==
    ASSUME SettlementInv, CalmInv, NEW r \in Requests, req[r].pc = "idle",
           NEW b \in Batches, NEW q \in Request, Set(r, q), q.on = b,
           UNCHANGED <<batchVars, bankVars>>, calm' \subseteq calm,
           b \in calm' => ~InUse(b) /\ Sees(q)
    PROVE  CalmInv'
<1>1. Moves(r) /\ req'[r] = q
  BY Stepping
<1>2. req[r].on = Nothing
  BY DEF SettlementInv, Knows
<1>3. Confined(r)
  BY <1>1 DEF Confined, batchVars, bankVars
<1>4. ASSUME b \in calm' PROVE Calm(b)'
  <2>1. Calm(b) /\ ~InUse(b) /\ Sees(q)
    BY <1>4 DEF CalmInv
  <2>2. Sees(req[r])' /\ InSight(b)'
    BY <1>1, <2>1 DEF Sees, Calm, InSight, Taken, Unsure, batchVars, bankVars
  <2>3. \A s \in Requests : req[s].on # b
    BY <2>1 DEF InUse
  <2> QED BY <1>1, <2>2, <2>3, CalmOwn
<1>5. Nothing \notin calm'
  BY SettlementAssumption DEF SettlementInv, TypeOK
<1> QED BY <1>1, <1>2, <1>3, <1>4, <1>5, CalmSteps

LEMMA StartCalm ==
    ASSUME SettlementInv, CalmInv, NEW r \in Requests, Start(r)
    PROVE  CalmInv'
<1>1. ASSUME NEW b \in Batches, Generate(r, b) PROVE CalmInv'
  <2> DEFINE q == [Idle EXCEPT !.pc = "create", !.on = b]
  <2>1. q \in Request /\ q.pc = "create" /\ q.on = b
    BY DEF Idle, Request, Steps, BatchStatuses
  <2> HIDE DEF q
  <2>2. Set(r, q) /\ req[r].pc = "idle" /\ ~InUse(b)
        /\ UNCHANGED <<batchVars, bankVars>> /\ calm' \subseteq calm
    BY <1>1 DEF Generate, q, At
  <2>3. Sees(q)
    BY <2>1 DEF Sees
  <2> QED BY <2>1, <2>2, <2>3, BeginKeeps
<1>2. ASSUME NEW b \in Batches, Execute(r, b), Set(r, Load(b, "review")) PROVE CalmInv'
  <2> DEFINE q == Load(b, "review")
  <2>1. q \in Request /\ q.pc = "review" /\ q.on = b /\ q.seen = status[b]
    BY Loading DEF Steps
  <2> HIDE DEF q
  <2>2. Set(r, q) /\ req[r].pc = "idle" /\ status[b] # "PAID"
        /\ UNCHANGED <<batchVars, bankVars>> /\ calm' \subseteq calm
        /\ (b \in calm' => b \in calm /\ ~InUse(b) /\ ~Unsure(b))
    BY <1>2 DEF Execute, q, At
  <2>3. b \in calm' => Sees(q)
    BY <2>1, <2>2 DEF Sees, CalmInv, Calm, InSight
  <2> QED BY <2>1, <2>2, <2>3, BeginKeeps
<1>3. ASSUME NEW b \in Batches, Execute(r, b),
             Set(r, [Load(b, "submitting") EXCEPT !.had = utr[b]])
      PROVE CalmInv'
  <2> DEFINE q == [Load(b, "submitting") EXCEPT !.had = utr[b]]
  <2>1. /\ Load(b, "submitting") \in Request /\ Load(b, "submitting").pc = "submitting"
        /\ Load(b, "submitting").on = b /\ Load(b, "submitting").seen = status[b]
        /\ utr[b] \in Batches \cup {Nothing}
    BY Loading DEF Steps, SettlementInv, TypeOK
  <2>2. q \in Request /\ q.pc = "submitting" /\ q.on = b /\ q.seen = status[b]
    BY <2>1 DEF Request
  <2> HIDE DEF q
  <2>3. Set(r, q) /\ req[r].pc = "idle" /\ status[b] # "PAID"
        /\ UNCHANGED <<batchVars, bankVars>> /\ calm' \subseteq calm
        /\ (b \in calm' => b \in calm /\ ~InUse(b) /\ ~Unsure(b))
    BY <1>3 DEF Execute, q, At
  <2>4. b \in calm' => Sees(q)
    BY <2>2, <2>3 DEF Sees, CalmInv, Calm, InSight
  <2> QED BY <2>2, <2>3, <2>4, BeginKeeps
<1>4. ASSUME NEW b \in Batches, Recover(r, b) PROVE CalmInv'
  <2> DEFINE q == Load(b, "inquire")
  <2>1. q \in Request /\ q.pc = "inquire" /\ q.on = b /\ q.seen = status[b]
    BY Loading DEF Steps
  <2> HIDE DEF q
  <2>2. Set(r, q) /\ req[r].pc = "idle" /\ status[b] # "PAID"
        /\ UNCHANGED <<batchVars, bankVars>> /\ calm' \subseteq calm
        /\ (b \in calm' => ~InUse(b))
    BY <1>4 DEF Recover, Touch, q, At
  <2>3. Sees(q)
    BY <2>1, <2>2 DEF Sees
  <2> QED BY <2>1, <2>2, <2>3, BeginKeeps
<1>5. ASSUME NEW b \in Batches, NEW u \in Batches, Mark(r, b, u) PROVE CalmInv'
  <2> DEFINE q == [Idle EXCEPT !.pc = "settle", !.on = b, !.utr = u]
  <2>1. q \in Request /\ q.pc = "settle" /\ q.on = b
    BY DEF Idle, Request, Steps, BatchStatuses
  <2> HIDE DEF q
  <2>2. Set(r, q) /\ req[r].pc = "idle"
        /\ UNCHANGED <<batchVars, bankVars>> /\ calm' \subseteq calm
        /\ (b \in calm' => ~InUse(b))
    BY <1>5 DEF Mark, Touch, q, At
  <2>3. Sees(q)
    BY <2>1 DEF Sees
  <2> QED BY <2>1, <2>2, <2>3, BeginKeeps
<1> QED BY <1>1, <1>2, <1>3, <1>4, <1>5 DEF Start, Execute

-----------------------------------------------------------------------------
(* The steps of an operation that is under way.                            *)

LEMMA OwnKeeps ==
    ASSUME SettlementInv, CalmInv, NEW r \in Requests, NEW b \in Batches, req[r].on = b,
           req'[r].on \in {Nothing, b}, Confined(r),
           b \in calm' =>
              InSight(b)' /\ (req'[r].on = b => Sees(req[r])')
    PROVE  CalmInv'
<1>1. b \in calm' => Calm(b)'
  BY OnlyOne, CalmOwn DEF CalmInv, Confined
<1>2. Nothing \notin calm'
  BY SettlementAssumption DEF Confined, SettlementInv, TypeOK
<1> QED BY <1>1, <1>2, CalmSteps

\* What r sees of its batch, if the batch is calm
LEMMA AtBatch ==
    ASSUME SettlementInv, CalmInv, NEW r \in Requests, req[r].pc # "idle"
    PROVE  /\ req[r].on \in Batches /\ Knows(req[r]) /\ req[r] \in Request /\ Books(req[r].on)
           /\ req[r].on \in calm => Sees(req[r]) /\ InSight(req[r].on)
<1>1. req[r].on \in Batches /\ Knows(req[r]) /\ req[r] \in Request /\ Books(req[r].on)
  BY AtStep
<1> QED BY <1>1, OnlyOne DEF CalmInv

\* A handler ends without having changed the batch.
LEMMA EndKeeps ==
    ASSUME SettlementInv, CalmInv, NEW r \in Requests, req[r].pc # "idle",
           Finish(r), UNCHANGED <<status, bankVars>>, calm' \subseteq calm
    PROVE  CalmInv'
<1>1. PICK b \in Batches : b = req[r].on /\ (b \in calm => InSight(b))
  BY AtBatch
<1>2. Moves(r) /\ req'[r].on = Nothing
  BY Finishing
<1>3. Confined(r)
  BY <1>2 DEF Confined, bankVars
<1>4. b \in calm' => InSight(b)'
  BY <1>1 DEF InSight, Taken, Unsure, bankVars
<1> QED BY <1>1, <1>2, <1>3, <1>4, SettlementAssumption, OwnKeeps

\* A handler saves what has become of the batch, and ends.
LEMMA WriteAndEndKeeps ==
    ASSUME SettlementInv, CalmInv, NEW r \in Requests,
           req[r].pc \in {"review", "answer", "found"},
           NEW next \in BatchStatuses \ {"PAID"}, Write(r, req[r].on, next), Finish(r),
           ~Taken(req[r].on) \/ next \in {"SUBMITTED", "PROCESSING", "STATUS_CHECK_REQUIRED"},
           UNCHANGED <<bankVars, calm>>
    PROVE  CalmInv'
<1>1. PICK b \in Batches : b = req[r].on /\ (b \in calm => Sees(req[r]))
  BY AtBatch
<1>2. Moves(r) /\ req'[r].on = Nothing
  BY Finishing
<1>3. status \in [Batches -> BatchStatuses]
  BY DEF SettlementInv, TypeOK
<1>4. Confined(r)
  BY <1>1, <1>2, <1>3 DEF Confined, Write, bankVars
<1>5. b \in calm => status'[b] = next
  BY <1>1, <1>3 DEF Write, Sees
<1>6. b \in calm' => InSight(b)'
  BY <1>1, <1>5 DEF InSight, Taken, Unsure, bankVars
<1> QED BY <1>1, <1>2, <1>4, <1>6, SettlementAssumption, OwnKeeps

LEMMA CreateCalm ==
    ASSUME SettlementInv, CalmInv, NEW r \in Requests, Create(r)
    PROVE  CalmInv'
<1>1. req[r].pc = "create" /\ Finish(r) /\ UNCHANGED <<bankVars, calm>>
  BY DEF Create, At
<1>2. PICK b \in Batches : b = req[r].on /\ Knows(req[r]) /\ Books(b)
  BY <1>1, AtBatch
<1>3. CASE status' = status
  BY <1>1, <1>3, EndKeeps
<1>4. CASE status' = [status EXCEPT ![b] = "CALCULATED"]
  <2>1. Moves(r) /\ req'[r].on = Nothing
    BY <1>1, Finishing
  <2>2. Confined(r)
    BY <1>1, <1>2, <1>4, <2>1 DEF Confined, bankVars, SettlementInv, TypeOK
  <2>3. ~Taken(b) /\ status'[b] = "CALCULATED"
    BY <1>1, <1>2, <1>4 DEF Knows, Books, Taken, SettlementInv, TypeOK
  <2>4. InSight(b)'
    BY <1>1, <2>3 DEF InSight, Taken, bankVars
  <2> QED BY <1>2, <2>1, <2>2, <2>3, <2>4, SettlementAssumption, OwnKeeps
<1> QED BY <1>2, <1>3, <1>4 DEF Create

LEMMA SaveSubmittingCalm ==
    ASSUME SettlementInv, CalmInv, NEW r \in Requests, SaveSubmitting(r)
    PROVE  CalmInv'
<1>1. /\ req[r].pc = "submitting" /\ Write(r, req[r].on, "SUBMITTING")
      /\ UNCHANGED <<reference, utr, bankVars, calm, events>>
  BY DEF SaveSubmitting, At
<1>2. PICK b \in Batches : b = req[r].on /\ req[r] \in Request /\ (b \in calm => Sees(req[r]))
  BY <1>1, AtBatch
<1> DEFINE q == [req[r] EXCEPT !.pc = "call", !.seen = "SUBMITTING"]
<1>3. q \in Request /\ q.pc = "call" /\ q.on = b /\ q.seen = "SUBMITTING"
  BY <1>2 DEF Request, Steps, BatchStatuses
<1>4. Set(r, q)
  BY DEF SaveSubmitting
<1> HIDE DEF q
<1>5. Moves(r) /\ req'[r] = q
  BY <1>3, <1>4, Stepping
<1>6. status \in [Batches -> BatchStatuses]
  BY DEF SettlementInv, TypeOK
<1>7. Confined(r)
  BY <1>1, <1>2, <1>5, <1>6 DEF Confined, Write, bankVars
<1>8. b \in calm => status'[b] = "SUBMITTING" /\ ~Taken(b)
  BY <1>1, <1>2, <1>6 DEF Write, Sees
<1>9. b \in calm' => Sees(req[r])' /\ InSight(b)' /\ status'[b] # "PAID"
  BY <1>1, <1>3, <1>5, <1>8 DEF Sees, InSight, Taken, Unsure, bankVars
<1> QED BY <1>2, <1>3, <1>5, <1>7, <1>9, OwnKeeps

LEMMA CallCalm ==
    ASSUME SettlementInv, CalmInv, NEW r \in Requests, Call(r)
    PROVE  CalmInv'
<1>1. req[r].pc = "call" /\ UNCHANGED <<batchVars, calm>>
  BY DEF Call, At
<1>2. PICK b \in Batches : b = req[r].on /\ req[r] \in Request /\ (b \in calm => Sees(req[r]))
  BY <1>1, AtBatch
<1>3. PICK next \in BatchStatuses, u \in {Nothing, b} :
         Answer(r, next, u) /\ (next = "FAILED" => UNCHANGED bankVars)
  BY <1>2 DEF Call, UtrNow, BatchStatuses
<1> DEFINE q == [req[r] EXCEPT !.pc = "answer", !.next = next, !.utr = u]
<1>4. q \in Request /\ q.pc = "answer" /\ q.on = b /\ q.seen = req[r].seen /\ q.next = next
  BY <1>2 DEF Request, Steps
<1>5. Set(r, q)
  BY <1>3 DEF Answer
<1> HIDE DEF q
<1>6. Moves(r) /\ req'[r] = q
  BY <1>4, <1>5, Stepping
<1>7. bank \in [Batches -> {"none", "pending", "success", "failed"}]
  BY DEF SettlementInv, TypeOK
<1>8. \A c \in Batches \ {b} : bank'[c] = bank[c]
  BY <1>2, <1>7 DEF Call, Take, Transfer, bankVars
<1>9. Confined(r)
  BY <1>1, <1>2, <1>6, <1>8 DEF Confined, batchVars
<1>10. b \in calm => status'[b] = "SUBMITTING"
  BY <1>1, <1>2 DEF Sees, batchVars
<1>11. b \in calm' => Sees(req[r])'
  BY <1>1, <1>2, <1>3, <1>4, <1>6, <1>10 DEF Sees, Taken, batchVars, bankVars
<1>12. b \in calm' => InSight(b)' /\ status'[b] # "PAID"
  BY <1>1, <1>10 DEF InSight, Unsure
<1> QED BY <1>2, <1>4, <1>6, <1>9, <1>11, <1>12, OwnKeeps

LEMMA SaveAnswerCalm ==
    ASSUME SettlementInv, CalmInv, NEW r \in Requests, SaveAnswer(r)
    PROVE  CalmInv'
<1>1. req[r].pc = "answer" /\ Finish(r) /\ UNCHANGED <<bankVars, calm>>
  BY DEF SaveAnswer, At
<1>2. PICK b \in Batches :
         b = req[r].on /\ Knows(req[r]) /\ (b \in calm => Sees(req[r]))
  BY <1>1, AtBatch
<1>3. CASE status' = status
  BY <1>1, <1>3, EndKeeps
<1>4. CASE Write(r, b, req[r].next)
  <2>1. req[r].next \in {"SUBMITTED", "PROCESSING", "STATUS_CHECK_REQUIRED", "FAILED"}
    BY <1>1, <1>2 DEF Knows
  <2>2. CASE ~Taken(b) \/ req[r].next # "FAILED"
    BY <1>1, <1>2, <1>4, <2>1, <2>2, WriteAndEndKeeps DEF BatchStatuses
  <2>3. CASE Taken(b) /\ req[r].next = "FAILED"
    <3>1. b \notin calm'
      BY <1>1, <1>2, <2>3 DEF Sees
    <3>2. Moves(r) /\ req'[r].on = Nothing
      BY <1>1, Finishing
    <3>3. Confined(r)
      BY <1>1, <1>2, <1>4, <3>2 DEF Confined, Write, bankVars, SettlementInv, TypeOK
    <3> QED BY <1>2, <3>1, <3>2, <3>3, OwnKeeps
  <2> QED BY <2>2, <2>3
<1> QED BY <1>2, <1>3, <1>4 DEF SaveAnswer, batchVars

\* A handler saves a status that a calm batch of which the bank has the transfer is not
\* given, and ends.
LEMMA SaveCalm ==
    ASSUME SettlementInv, CalmInv, NEW r \in Requests,
           req[r].pc \in {"review", "answer", "found"},
           NEW next \in BatchStatuses \ {"PAID"}, Write(r, req[r].on, next), Finish(r),
           Sees(req[r]) /\ Taken(req[r].on) => next \in {"SUBMITTED", "PROCESSING", "STATUS_CHECK_REQUIRED"},
           UNCHANGED <<bankVars, calm>>
    PROVE  CalmInv'
<1>1. PICK b \in Batches : b = req[r].on /\ (b \in calm => Sees(req[r]))
  BY AtBatch
<1>2. CASE ~Taken(b) \/ next \in {"SUBMITTED", "PROCESSING", "STATUS_CHECK_REQUIRED"}
  BY <1>1, <1>2, WriteAndEndKeeps
<1>3. CASE Taken(b) /\ next \notin {"SUBMITTED", "PROCESSING", "STATUS_CHECK_REQUIRED"}
  <2>1. b \notin calm'
    BY <1>1, <1>3
  <2>2. Moves(r) /\ req'[r].on = Nothing
    BY Finishing
  <2>3. Confined(r)
    BY <1>1, <2>2 DEF Confined, Write, bankVars, SettlementInv, TypeOK
  <2> QED BY <1>1, <2>1, <2>2, <2>3, OwnKeeps
<1> QED BY <1>2, <1>3

LEMMA SaveReviewCalm ==
    ASSUME SettlementInv, CalmInv, NEW r \in Requests, SaveReview(r)
    PROVE  CalmInv'
<1>1. /\ req[r].pc = "review" /\ Write(r, req[r].on, "REVIEW_REQUIRED") /\ Finish(r)
      /\ UNCHANGED <<bankVars, calm>>
  BY DEF SaveReview, At
<1>2. Sees(req[r]) => ~Taken(req[r].on)
  BY <1>1 DEF Sees
<1>3. "REVIEW_REQUIRED" \in BatchStatuses \ {"PAID"}
  BY DEF BatchStatuses
<1> QED BY <1>1, <1>2, <1>3, SaveCalm

LEMMA SaveFoundCalm ==
    ASSUME SettlementInv, CalmInv, NEW r \in Requests, SaveFound(r)
    PROVE  CalmInv'
<1>1. /\ req[r].pc = "found" /\ Write(r, req[r].on, req[r].next) /\ Finish(r)
      /\ UNCHANGED <<bankVars, calm>>
  BY DEF SaveFound, At
<1>2. req[r].next \in {"PROCESSING", "FAILED"}
  BY <1>1, AtBatch DEF Knows
<1>3. Sees(req[r]) /\ Taken(req[r].on) => req[r].next = "PROCESSING"
  BY <1>1, <1>2 DEF Sees
<1>4. req[r].next \in BatchStatuses \ {"PAID"}
  BY <1>2 DEF BatchStatuses
<1> QED BY <1>1, <1>3, <1>4, SaveCalm

LEMMA InquireCalm ==
    ASSUME SettlementInv, CalmInv, NEW r \in Requests, Inquire(r)
    PROVE  CalmInv'
<1>1. req[r].pc = "inquire" /\ UNCHANGED <<batchVars, bankVars, calm>>
  BY DEF Inquire, At
<1>2. PICK b \in Batches :
         /\ b = req[r].on /\ req[r] \in Request
         /\ b \in calm => Sees(req[r]) /\ InSight(b)
  BY <1>1, AtBatch
<1>3. CASE Finish(r)
  BY <1>1, <1>3, EndKeeps DEF batchVars
<1>4. ASSUME NEW q \in Request, Set(r, q), q.on = b,
             \/ q.pc = "settle"
             \/ q.pc = "found" /\ q.seen = req[r].seen /\ (q.next = "FAILED" => ~Taken(b))
      PROVE  CalmInv'
  <2>1. Moves(r) /\ req'[r] = q
    BY <1>4, Stepping
  <2>2. Confined(r)
    BY <1>1, <2>1 DEF Confined, batchVars, bankVars
  <2>3. b \in calm' => Sees(req[r])'
    BY <1>1, <1>2, <1>4, <2>1 DEF Sees, Taken, batchVars, bankVars
  <2>4. b \in calm' => InSight(b)'
    BY <1>1, <1>2 DEF InSight, Taken, Unsure, batchVars, bankVars
  <2> QED BY <1>2, <1>4, <2>1, <2>2, <2>3, <2>4, OwnKeeps
<1>5. CASE Set(r, [Idle EXCEPT !.pc = "settle", !.on = b, !.utr = b])
  <2> DEFINE q == [Idle EXCEPT !.pc = "settle", !.on = b, !.utr = b]
  <2>1. q \in Request /\ q.pc = "settle" /\ q.on = b
    BY DEF Idle, Request, Steps, BatchStatuses
  <2> HIDE DEF q
  <2>2. Set(r, q)
    BY <1>5 DEF q
  <2> QED BY <1>4, <2>1, <2>2
<1>6. ASSUME NEW next \in {"PROCESSING", "FAILED"}, next = "FAILED" => ~Taken(b),
             Set(r, [req[r] EXCEPT !.pc = "found", !.next = next])
      PROVE  CalmInv'
  <2> DEFINE q == [req[r] EXCEPT !.pc = "found", !.next = next]
  <2>1. q \in Request /\ q.pc = "found" /\ q.on = b /\ q.seen = req[r].seen /\ q.next = next
    BY <1>2 DEF Request, Steps, BatchStatuses
  <2> HIDE DEF q
  <2>2. Set(r, q)
    BY <1>6 DEF q
  <2> QED BY <1>4, <1>6, <2>1, <2>2
<1> QED BY <1>2, <1>3, <1>5, <1>6 DEF Inquire, Taken

LEMMA SettleCalm ==
    ASSUME SettlementInv, CalmInv, NEW r \in Requests, Settle(r)
    PROVE  CalmInv'
<1>1. req[r].pc = "settle" /\ UNCHANGED <<batchVars, bankVars, calm>>
  BY DEF Settle, At
<1>2. PICK b \in Batches :
         /\ b = req[r].on /\ req[r] \in Request
         /\ b \in calm => InSight(b)
  BY <1>1, AtBatch
<1>3. CASE Finish(r)
  BY <1>1, <1>3, EndKeeps DEF batchVars
<1>4. CASE /\ status[b] # "PAID"
           /\ Set(r, [Load(b, "paid") EXCEPT !.had = utr[b], !.utr = req[r].utr])
  <2> DEFINE q == [Load(b, "paid") EXCEPT !.had = utr[b], !.utr = req[r].utr]
  <2>1. /\ Load(b, "paid") \in Request /\ Load(b, "paid").pc = "paid" /\ Load(b, "paid").on = b
        /\ Load(b, "paid").seen = status[b]
        /\ utr[b] \in Batches \cup {Nothing} /\ req[r].utr \in Batches \cup {Nothing}
    BY <1>2, Loading DEF Steps, SettlementInv, TypeOK, Request
  <2>2. q \in Request /\ q.pc = "paid" /\ q.on = b /\ q.seen = status[b]
    BY <2>1 DEF Request
  <2> HIDE DEF q
  <2>3. Set(r, q)
    BY <1>4 DEF q
  <2>4. Moves(r) /\ req'[r] = q
    BY <2>2, <2>3, Stepping
  <2>5. Confined(r)
    BY <1>1, <2>4 DEF Confined, batchVars, bankVars
  <2>6. Sees(req[r])' /\ status'[b] # "PAID"
    BY <1>1, <1>4, <2>2, <2>4 DEF Sees, batchVars
  <2>7. b \in calm' => InSight(b)'
    BY <1>1, <1>2 DEF InSight, Taken, Unsure, batchVars, bankVars
  <2> QED BY <1>2, <2>2, <2>4, <2>5, <2>6, <2>7, OwnKeeps
<1> QED BY <1>2, <1>3, <1>4 DEF Settle

LEMMA SavePaidCalm ==
    ASSUME SettlementInv, CalmInv, NEW r \in Requests, SavePaid(r)
    PROVE  CalmInv'
<1>1. req[r].pc = "paid" /\ UNCHANGED <<reference, bankVars, calm, events>>
  BY DEF SavePaid, At
<1>2. PICK b \in Batches :
         b = req[r].on /\ req[r] \in Request /\ (b \in calm => Sees(req[r]))
  BY <1>1, AtBatch
<1>3. CASE Finish(r) /\ UNCHANGED status
  BY <1>1, <1>3, EndKeeps
<1>4. CASE Write(r, b, "PAID") /\ Goto(r, "journal")
  <2> DEFINE q == [req[r] EXCEPT !.pc = "journal"]
  <2>1. q \in Request /\ q.pc = "journal" /\ q.on = b
    BY <1>2 DEF Request, Steps
  <2>2. Set(r, q)
    BY <1>4 DEF Goto
  <2> HIDE DEF q
  <2>3. Moves(r) /\ req'[r] = q
    BY <2>1, <2>2, Stepping
  <2>4. status \in [Batches -> BatchStatuses]
    BY DEF SettlementInv, TypeOK
  <2>5. Confined(r)
    BY <1>1, <1>2, <1>4, <2>3, <2>4 DEF Confined, Write, bankVars
  <2>6. b \in calm' => status'[b] = "PAID"
    BY <1>1, <1>2, <1>4, <2>4 DEF Write, Sees
  <2>7. Sees(req[r])' /\ (b \in calm' => InSight(b)')
    BY <2>1, <2>3, <2>6 DEF Sees, InSight
  <2> QED BY <1>2, <2>1, <2>3, <2>5, <2>7, OwnKeeps
<1> QED BY <1>2, <1>3, <1>4 DEF SavePaid

LEMMA PostJournalCalm ==
    ASSUME SettlementInv, CalmInv, NEW r \in Requests, PostJournal(r)
    PROVE  CalmInv'
<1>1. req[r].pc = "journal" /\ Finish(r) /\ UNCHANGED <<batchVars, bankVars, calm, events>>
  BY DEF PostJournal, At
<1> QED BY <1>1, EndKeeps DEF batchVars

LEMMA FailCalm ==
    ASSUME SettlementInv, CalmInv, NEW r \in Requests, Fail(r)
    PROVE  CalmInv'
<1>1. /\ req[r].pc # "idle" /\ Finish(r) /\ UNCHANGED <<batchVars, bankVars>>
      /\ calm' = calm \ {req[r].on}
  BY DEF Fail, At
<1>2. PICK b \in Batches : b = req[r].on
  BY <1>1, AtBatch
<1>3. Moves(r) /\ req'[r].on = Nothing
  BY <1>1, Finishing
<1>4. Confined(r)
  BY <1>1, <1>3 DEF Confined, batchVars, bankVars
<1> QED BY <1>1, <1>2, <1>3, <1>4, OwnKeeps

\* The bank goes on from what it has taken.
LEMMA BankSettlesCalm ==
    ASSUME SettlementInv, CalmInv, NEW b \in Batches, BankSettles(b)
    PROVE  CalmInv'
<1> SUFFICES ASSUME NEW c \in calm PROVE Calm(c)'
  BY DEF CalmInv, BankSettles
<1>1. UNCHANGED <<batchVars, req>>
  BY DEF BankSettles
<1>2. c \in Batches /\ Calm(c)
  BY DEF CalmInv, SettlementInv, TypeOK
<1>3. bank \in [Batches -> {"none", "pending", "success", "failed"}]
  BY DEF SettlementInv, TypeOK
<1>4. \A e \in Batches : Taken(e)' => Taken(e)
  BY <1>3 DEF BankSettles, Transfer, Taken
<1>5. InSight(c)'
  BY <1>1, <1>2, <1>4 DEF Calm, InSight, Unsure, batchVars
<1>6. ASSUME NEW r \in Requests, req'[r].on = c PROVE Sees(req[r])'
  BY <1>1, <1>2, <1>4, <1>6 DEF Calm, Sees, batchVars
<1> QED BY <1>1, <1>2, <1>5, <1>6 DEF Calm, batchVars

LEMMA InitCalmInv == Init => CalmInv
<1> SUFFICES ASSUME Init PROVE CalmInv
  OBVIOUS
<1>1. \A r \in Requests : req[r].on = Nothing
  BY IdleFacts DEF Init
<1>2. Nothing \notin Batches
  BY SettlementAssumption
<1> QED BY <1>1, <1>2 DEF Init, CalmInv, Calm, InSight, Taken

LEMMA NextCalmInv == SettlementInv /\ CalmInv /\ [Next]_vars => CalmInv'
<1> SUFFICES ASSUME SettlementInv, CalmInv, [Next]_vars PROVE CalmInv'
  OBVIOUS
<1>1. ASSUME NEW r \in Requests, Start(r) \/ Create(r) PROVE CalmInv'
  BY <1>1, StartCalm, CreateCalm
<1>2. ASSUME NEW r \in Requests, SaveReview(r) \/ SaveFound(r) PROVE CalmInv'
  BY <1>2, SaveReviewCalm, SaveFoundCalm
<1>3. ASSUME NEW r \in Requests, Payout(r) \/ Inquiry(r) PROVE CalmInv'
  BY <1>2, <1>3, SaveSubmittingCalm, CallCalm, SaveAnswerCalm, InquireCalm DEF Payout, Inquiry
<1>4. ASSUME NEW r \in Requests, Settling(r) \/ Fail(r) PROVE CalmInv'
  BY <1>4, SettleCalm, SavePaidCalm, PostJournalCalm, FailCalm DEF Settling
<1>5. ASSUME NEW b \in Batches, BankSettles(b) PROVE CalmInv'
  BY <1>5, BankSettlesCalm
<1>6. CASE UNCHANGED vars
  BY <1>6 DEF CalmInv, Calm, Sees, InSight, Taken, Unsure, vars, batchVars, bankVars
<1> QED BY <1>1, <1>3, <1>4, <1>5, <1>6 DEF Next

LEMMA CalmInvariant == Spec => []CalmInv
BY InitCalmInv, NextCalmInv, SettlementInvariant, PTL DEF Spec

-----------------------------------------------------------------------------
\* executeBatchPayout and recoverAmbiguousPayout do not lose sight of a transfer the bank
\* has taken, when whole operations come one after the other.
THEOREM PayoutsInSight == Spec => []PayoutStaysInSight
<1>1. SettlementInv /\ CalmInv => PayoutStaysInSight
  BY DEF CalmInv, Calm, InSight, Taken, PayoutStaysInSight, SettlementInv, TypeOK
<1> QED BY <1>1, SettlementInvariant, CalmInvariant, PTL

\* No operation takes a batch out of PAID, unless it had read the batch before.
THEOREM PaidForGood == Spec => PaidStays
<1>1. SettlementInv /\ CalmInv /\ [Next]_vars
         => [\A b \in calm : status[b] = "PAID" => status'[b] = "PAID"]_vars
  <2> SUFFICES ASSUME SettlementInv, CalmInv, Next, NEW b \in calm, status[b] = "PAID"
               PROVE  status'[b] = "PAID"
    OBVIOUS
  <2>1. b \in Batches /\ Calm(b) /\ status \in [Batches -> BatchStatuses]
    BY DEF CalmInv, SettlementInv, TypeOK
  <2>2. ASSUME NEW r \in Requests,
               req[r].pc \in {"review", "submitting", "answer", "found"},
               NEW next, Write(r, req[r].on, next) \/ UNCHANGED status
        PROVE  status'[b] = "PAID"
    <3>1. req[r].on # b
      BY <2>1, <2>2 DEF Calm, Sees
    <3> QED BY <2>1, <2>2, <3>1 DEF Write
  <2>3. ASSUME NEW r \in Requests, Payout(r) \/ Inquiry(r) PROVE status'[b] = "PAID"
    BY <2>2, <2>3 DEF Payout, SaveReview, SaveSubmitting, SaveAnswer, Call, Inquiry, Inquire,
                      SaveFound, At, batchVars
  <2>4. ASSUME NEW r \in Requests, Create(r) PROVE status'[b] = "PAID"
    <3>1. req[r].pc = "create" /\ ~Exists(req[r].on)
      BY <2>4, AtBatch DEF Create, At, Knows
    <3> QED BY <2>1, <2>4, <3>1 DEF Create, Exists
  <2>5. ASSUME NEW r \in Requests, Settling(r) PROVE status'[b] = "PAID"
    BY <2>1, <2>5 DEF Settling, Settle, SavePaid, PostJournal, Write, batchVars
  <2>6. ASSUME NEW r \in Requests, Start(r) \/ Fail(r) PROVE status'[b] = "PAID"
    BY <2>6 DEF Start, Generate, Execute, Recover, Mark, Fail, batchVars
  <2>7. ASSUME NEW c \in Batches, BankSettles(c) PROVE status'[b] = "PAID"
    BY <2>7 DEF BankSettles, batchVars
  <2> QED BY <2>3, <2>4, <2>5, <2>6, <2>7 DEF Next
<1> QED BY <1>1, SettlementInvariant, CalmInvariant, PTL DEF Spec, PaidStays

-----------------------------------------------------------------------------
(* Every step of the settlement is a step of its promise, or a stutter.    *)

Closed == {b \in Batches : status[b] = "PAID"}

\* The bank pays a batch.
LEMMA TransferPromised ==
    ASSUME SettlementInv, NEW b \in Batches, bank[b] \in {"none", "pending"}, Transfer(b),
           UNCHANGED <<status, calm>>
    PROVE  Promise!Pay(b)
<1>1. transfers[b] = 0 /\ transfers \in [Batches -> Nat]
  BY DEF SettlementInv, Books, Made, TypeOK
<1> QED BY <1>1 DEF Transfer, Promise!Pay

\* An operation begins, or ends before its time.
LEMMA CalmPromised ==
    ASSUME NEW b \in Batches, calm' \in {calm, calm \ {b}}, UNCHANGED <<status, transfers>>
    PROVE  UNCHANGED <<transfers, Closed, calm>> \/ Promise!Disturb(b)
<1>1. Closed' = Closed
  BY DEF Closed
<1> QED BY <1>1 DEF Promise!Disturb, Closed

\* A handler that does not settle the batch saves a status: only that of a batch on which
\* operations overlapped was PAID.
LEMMA WritePromised ==
    ASSUME SettlementInv, CalmInv, NEW r \in Requests, NEW b \in Batches, req[r].on = b,
           req[r].pc \in {"review", "submitting", "answer", "found"},
           NEW next \in BatchStatuses \ {"PAID"}, Write(r, b, next),
           UNCHANGED <<transfers, calm>>
    PROVE  UNCHANGED <<transfers, Closed, calm>> \/ Promise!Reopen(b)
<1>1. status \in [Batches -> BatchStatuses] /\ calm \subseteq Batches
  BY DEF SettlementInv, TypeOK
<1>2. CASE status[b] # "PAID"
  <2>1. \A c \in Batches : status'[c] = "PAID" <=> status[c] = "PAID"
    BY <1>1, <1>2 DEF Write
  <2> QED BY <2>1 DEF Closed
<1>3. CASE status[b] = "PAID"
  <2>1. b \notin calm
    BY <1>3, AtBatch DEF Sees
  <2>2. Closed' \in {Closed, Closed \ {b}}
    BY <1>1 DEF Write, Closed
  <2> QED BY <1>3, <2>1, <2>2 DEF Promise!Reopen, Closed
<1> QED BY <1>2, <1>3

\* A batch is saved as paid: it has a UTR then, and so the bank has paid it.
LEMMA SavePaidPromised ==
    ASSUME SettlementInv, SettlementInv', NEW r \in Requests, SavePaid(r)
    PROVE  UNCHANGED <<transfers, Closed, calm>> \/ \E b \in Batches : Promise!Close(b)
<1>1. req[r].pc = "paid" /\ req[r] \in Request /\ Knows(req[r])
  BY AtStep DEF SavePaid, At
<1>2. PICK b \in Batches : b = req[r].on
  BY <1>1, AtStep
<1>3. status \in [Batches -> BatchStatuses] /\ utr \in [Batches -> Batches \cup {Nothing}]
  BY DEF SettlementInv, TypeOK
<1>4. transfers' = transfers /\ calm' = calm
  BY DEF SavePaid, bankVars
<1>5. CASE UNCHANGED status
  BY <1>4, <1>5 DEF Closed
<1>6. CASE Write(r, b, "PAID")
           /\ utr' = [utr EXCEPT ![b] = IF req[r].utr # req[r].had THEN req[r].utr ELSE @]
  <2>1. utr'[b] # Nothing
    BY <1>1, <1>2, <1>3, <1>6, SettlementAssumption DEF Knows
  <2>2. transfers[b] = 1
    BY <1>4, <2>1 DEF SettlementInv, Books
  <2>3. Closed' \in {Closed, Closed \cup {b}}
    BY <1>3, <1>6 DEF Write, Closed
  <2>4. CASE Closed' = Closed
    BY <1>4, <2>4
  <2>5. CASE Closed' = Closed \cup {b} /\ b \notin Closed
    BY <1>4, <2>2, <2>5 DEF Promise!Close, Closed
  <2> QED BY <2>3, <2>4, <2>5
<1> QED BY <1>2, <1>5, <1>6 DEF SavePaid

\* The settlement implements its promise: the bank pays each batch at most once, and a
\* batch is put down as paid only when the bank has paid it.
THEOREM SettlementKeepsPromise == Spec => KeepsPromise
<1>1. Init => Promise!Init
  BY DEF Init, Promise!Init
<1>2. SettlementInv /\ CalmInv /\ SettlementInv' /\ [Next]_vars
         => [Promise!Next]_(Promise!promiseVars)
  <2> SUFFICES ASSUME SettlementInv, CalmInv, SettlementInv', Next,
                      ~UNCHANGED <<transfers, Closed, calm>>
               PROVE  Promise!Next
    <3>1. UNCHANGED vars => UNCHANGED <<transfers, Closed, calm>>
      BY DEF vars, batchVars, bankVars, Closed
    <3>2. UNCHANGED <<transfers, Closed, calm>> => UNCHANGED Promise!promiseVars
      BY DEF Promise!promiseVars, Closed
    <3> QED BY <3>1, <3>2
  <2>1. ASSUME NEW r \in Requests, Start(r) PROVE Promise!Next
    BY <2>1, CalmPromised
       DEF Start, Generate, Execute, Recover, Mark, Touch, batchVars, bankVars, Promise!Next
  <2>2. ASSUME NEW r \in Requests, Create(r) PROVE Promise!Next
    <3>1. req[r].pc = "create" /\ ~Exists(req[r].on) /\ req[r].on \in Batches
      BY <2>2, AtStep DEF Create, At, Knows
    <3>2. status' \in {status, [status EXCEPT ![req[r].on] = "CALCULATED"]}
          /\ transfers' = transfers /\ calm' = calm
      BY <2>2 DEF Create, bankVars
    <3>3. status \in [Batches -> BatchStatuses]
      BY DEF SettlementInv, TypeOK
    <3>4. \A c \in Batches : status'[c] = "PAID" <=> status[c] = "PAID"
      BY <3>1, <3>2, <3>3 DEF Exists
    <3> QED BY <3>2, <3>4 DEF Closed
  <2>3. ASSUME NEW r \in Requests, SaveReview(r) \/ SaveSubmitting(r) \/ SaveAnswer(r) \/ SaveFound(r)
        PROVE  Promise!Next
    <3>1. /\ req[r].pc \in {"review", "submitting", "answer", "found"}
          /\ req[r].on \in Batches /\ Knows(req[r])
      BY <2>3, AtStep DEF SaveReview, SaveSubmitting, SaveAnswer, SaveFound, At
    <3>2. transfers' = transfers /\ calm' = calm
      BY <2>3 DEF SaveReview, SaveSubmitting, SaveAnswer, SaveFound, bankVars
    <3>3. status' # status
      BY <3>2 DEF Closed
    <3>4. PICK next \in BatchStatuses \ {"PAID"} : Write(r, req[r].on, next)
      BY <2>3, <3>1, <3>3
         DEF SaveReview, SaveSubmitting, SaveAnswer, SaveFound, At, Knows, BatchStatuses, batchVars
    <3> QED BY <3>1, <3>2, <3>4, WritePromised DEF Promise!Next
  <2>4. ASSUME NEW r \in Requests, Call(r) PROVE Promise!Next
    <3>1. req[r].on \in Batches /\ UNCHANGED <<status, calm>>
      BY <2>4, AtStep DEF Call, At, batchVars
    <3>2. transfers' # transfers
      BY <3>1 DEF Closed
    <3>3. bank[req[r].on] = "none" /\ Transfer(req[r].on)
      BY <2>4, <3>2 DEF Call, Take, bankVars
    <3> QED BY <3>1, <3>3, TransferPromised DEF Promise!Next
  <2>5. ASSUME NEW r \in Requests, Inquire(r) \/ Settle(r) \/ PostJournal(r) PROVE FALSE
    BY <2>5 DEF Inquire, Settle, PostJournal, batchVars, bankVars, Closed
  <2>6. ASSUME NEW r \in Requests, SavePaid(r) PROVE Promise!Next
    BY <2>6, SavePaidPromised DEF Promise!Next
  <2>7. ASSUME NEW r \in Requests, Fail(r) PROVE Promise!Next
    <3>1. req[r].on \in Batches
      BY <2>7, AtStep DEF Fail, At
    <3> QED BY <2>7, <3>1, CalmPromised DEF Fail, batchVars, bankVars, Promise!Next
  <2>8. ASSUME NEW b \in Batches, BankSettles(b) PROVE Promise!Next
    <3>1. UNCHANGED <<status, calm>> /\ bank[b] = "pending"
      BY <2>8 DEF BankSettles, batchVars
    <3>2. transfers' # transfers
      BY <3>1 DEF Closed
    <3> QED BY <2>8, <3>1, <3>2, TransferPromised DEF BankSettles, Promise!Next
  <2> QED BY <2>1, <2>2, <2>3, <2>4, <2>5, <2>6, <2>7, <2>8
          DEF Next, Payout, Inquiry, Settling
<1> QED BY <1>1, <1>2, SettlementInvariant, CalmInvariant, PTL DEF Spec, KeepsPromise, Promise!Spec
=============================================================================
