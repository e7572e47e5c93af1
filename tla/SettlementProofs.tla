------------------------- MODULE SettlementProofs -------------------------
(***************************************************************************)
(* The safety properties of Settlement for every set of requests and       *)
(* batches and any number of ambiguous answers, crashes and mistaken UTRs. *)
(*                                                                         *)
(* The UTRs are the surprising part: nothing compares a UTR with the       *)
(* batch it is entered for. At most one batch is without a UTR, and each   *)
(* UTR is of one batch, so a UTR that is free when the bank has still to   *)
(* pay the batch would be one too many (FreeUtr): a batch with a UTR has   *)
(* been paid, be it the wrong one.                                         *)
(***************************************************************************)
EXTENDS Settlement, TLAPS, FiniteSetTheorems

Accepted(next) == next \in {"SUBMITTED", "PROCESSING"}
Made(b) == bank[b] = "success"

\* What the request with the locals q knows at its step
Knows(q) ==
    /\ q.pc = "idle" <=> q.on = Nothing
    /\ q.pc = "create" => ~Exists(q.on)
    /\ q.pc \notin {"idle", "create"} => Exists(q.on)
    /\ q.had # Nothing => q.pc \notin {"idle", "create"} /\ Made(q.on) /\ utr[q.on] # Nothing
    /\ q.pc = "answer" =>
          /\ q.next \in {"SUBMITTED", "PROCESSING", "STATUS_CHECK_REQUIRED", "FAILED"}
          /\ Accepted(q.next) =>
                \/ q.utr = Nothing /\ q.had = Nothing
                \/ q.utr = q.on /\ Made(q.on)
    /\ q.pc = "found" => q.next \in {"PROCESSING", "FAILED"}
    /\ q.pc \in {"settle", "paid"} => q.utr \in Batches /\ Made(q.utr)
    /\ q.pc = "journal" => utr[q.on] # Nothing

\* A batch is created by one request, and no other is at work on it before.
Alone ==
    \A r, s \in Requests : req[r].pc = "create" /\ req[s].on = req[r].on => r = s

\* The unique index on utrNumber, of which Nothing is a value
Distinct ==
    \A b, c \in Batches : Exists(b) /\ Exists(c) /\ utr[b] = utr[c] => b = c

Books(b) ==
    /\ bank[b] # "none" => Exists(b)
    /\ utr[b] # Nothing => Exists(b) /\ Made(b) /\ Made(utr[b])
    /\ transfers[b] = IF Made(b) THEN 1 ELSE 0

SettlementInv ==
    /\ TypeOK
    /\ \A r \in Requests : Knows(req[r])
    /\ Alone /\ Distinct
    /\ \A b \in Batches : Books(b)

-----------------------------------------------------------------------------
(* The UTR of a transfer is free only when every batch has been paid.      *)

LEMMA FreeUtr ==
    ASSUME SettlementInv, NEW b \in Batches, Exists(b), NEW u \in Batches, Made(u),
           ~UtrTaken(b, u)
    PROVE  Made(b)
<1> SUFFICES ASSUME ~Made(b) PROVE FALSE
  OBVIOUS
<1> DEFINE Paid == {c \in Batches : Made(c)}
           Others == Paid \ {u}
           f == [c \in Paid |-> utr[c]]
<1>1. utr[b] = Nothing
  BY DEF SettlementInv, Books
<1>2. \A c \in Paid : Exists(c) /\ c # b /\ utr[c] # Nothing
  <2> TAKE c \in Paid
  <2>1. Exists(c) /\ c # b
    BY DEF SettlementInv, Books, Made
  <2> QED BY <1>1, <2>1 DEF SettlementInv, Distinct
<1>3. \A c \in Paid : utr[c] \in Others
  <2> TAKE c \in Paid
  <2>1. utr[c] \in Batches /\ Made(utr[c])
    BY <1>2 DEF SettlementInv, Books, TypeOK
  <2>2. utr[c] # u
    BY <1>2 DEF UtrTaken
  <2> QED BY <2>1, <2>2
<1>4. f \in [Paid -> Others]
  BY <1>3
<1>5. IsFiniteSet(Paid)
  BY SettlementAssumption, FS_Subset
<1>6. IsFiniteSet(Others) /\ Cardinality(Others) = Cardinality(Paid) - 1
  BY <1>5, FS_RemoveElement
<1>7. Cardinality(Others) < Cardinality(Paid)
  BY <1>5, <1>6, FS_CardinalityType
<1> HIDE DEF f
<1>8. \E c, d \in Paid : c # d /\ f[c] = f[d]
  BY <1>4, <1>5, <1>6, <1>7, FS_PigeonHole
<1> QED BY <1>2, <1>8 DEF SettlementInv, Distinct, f

-----------------------------------------------------------------------------
(* How a step of one request leaves the others alone.                      *)

\* What only grows
Grows ==
    \A b \in Batches :
        /\ Exists(b) => Exists(b)'
        /\ Made(b) => Made(b)'
        /\ utr[b] # Nothing => utr'[b] # Nothing

\* A step of r
Moves(r) == \A s \in Requests \ {r} : req'[s] = req[s]

LEMMA StillKnows ==
    ASSUME SettlementInv, Grows, NEW s \in Requests, req'[s] = req[s],
           \A b \in Batches : Exists(b)' /\ ~Exists(b) => req[s].on # b
    PROVE  Knows(req[s])'
<1>1. Knows(req[s]) /\ req[s] \in Request
  BY DEF SettlementInv, TypeOK
<1>2. req[s].on \in Batches \cup {Nothing} /\ req[s].utr \in Batches \cup {Nothing}
      /\ (req[s].pc = "idle" <=> req[s].on = Nothing)
  BY <1>1 DEF Request, Knows
<1> QED BY <1>1, <1>2, SettlementAssumption DEF Knows, Grows

\* A step of r keeps the invariant if what it knows and the books are kept.
LEMMA Keeps ==
    ASSUME SettlementInv, NEW r \in Requests, Moves(r), TypeOK', Grows, Knows(req[r])',
           \/ req'[r].on \in {Nothing, req[r].on}
           \/ \A s \in Requests : req[s].pc = "create" => req[s].on # req'[r].on,
           req'[r].pc = "create" => ~InUse(req'[r].on),
           \A b \in Batches : Exists(b)' /\ ~Exists(b) => req[r].pc = "create" /\ req[r].on = b,
           Distinct', \A b \in Batches : Books(b)'
    PROVE  SettlementInv'
<1>1. \A s \in Requests \ {r} : Knows(req[s])'
  BY StillKnows DEF Moves, SettlementInv, Alone
<1>2. Alone'
  <2> SUFFICES ASSUME NEW s \in Requests, NEW t \in Requests,
                      req'[s].pc = "create", req'[t].on = req'[s].on
               PROVE  s = t
    BY DEF Alone
  <2>1. req'[s].on # Nothing
    BY <1>1 DEF Knows
  <2>2. CASE s # r /\ t # r
    BY <2>2 DEF Moves, SettlementInv, Alone
  <2>3. CASE s = r /\ t # r
    BY <2>3 DEF Moves, InUse
  <2>4. CASE s # r /\ t = r
    BY <2>1, <2>4 DEF Moves, SettlementInv, Alone
  <2> QED BY <2>2, <2>3, <2>4
<1> QED BY <1>1, <1>2 DEF SettlementInv

\* A step that changes only the locals of r
LEMMA KeepsLocals ==
    ASSUME SettlementInv, NEW r \in Requests, Moves(r), TypeOK', Knows(req[r])',
           UNCHANGED <<batchVars, bankVars, journal>>,
           \/ req'[r].on \in {Nothing, req[r].on}
           \/ \A s \in Requests : req[s].pc = "create" => req[s].on # req'[r].on,
           req'[r].pc = "create" => ~InUse(req'[r].on)
    PROVE  SettlementInv'
<1>1. Grows /\ \A b \in Batches : Exists(b)' => Exists(b)
  BY DEF Grows, Exists, Made, batchVars, bankVars
<1>2. Distinct'
  BY DEF SettlementInv, Distinct, Exists, batchVars
<1>3. \A b \in Batches : Books(b)'
  BY DEF SettlementInv, Books, Exists, Made, batchVars, bankVars
<1> QED BY <1>1, <1>2, <1>3, Keeps

LEMMA Stepping ==
    ASSUME SettlementInv, NEW r \in Requests, NEW q \in Request, Set(r, q)
    PROVE  Moves(r) /\ req'[r] = q /\ req' \in [Requests -> Request]
BY DEF Set, Moves, SettlementInv, TypeOK

LEMMA IdleFacts ==
    /\ Idle \in Request /\ Idle.pc = "idle" /\ Idle.on = Nothing /\ Idle.had = Nothing
    /\ Idle.utr = Nothing /\ Idle.seen = "ABSENT" /\ Idle.next = "ABSENT"
BY DEF Idle, Request, Steps, BatchStatuses

LEMMA Finishing ==
    ASSUME SettlementInv, NEW r \in Requests, Finish(r)
    PROVE  /\ Moves(r) /\ req' \in [Requests -> Request] /\ req'[r] = Idle
           /\ req'[r].pc = "idle" /\ req'[r].on = Nothing /\ Knows(req[r])'
<1>1. Moves(r) /\ req'[r] = Idle /\ req' \in [Requests -> Request]
  BY IdleFacts, Stepping DEF Finish
<1> QED BY <1>1, IdleFacts DEF Knows

LEMMA AtStep ==
    ASSUME SettlementInv, NEW r \in Requests, req[r].pc # "idle"
    PROVE  /\ req[r] \in Request /\ Knows(req[r]) /\ req[r].on \in Batches
           /\ Books(req[r].on)
BY DEF SettlementInv, TypeOK, Request, Knows

LEMMA Loading ==
    ASSUME SettlementInv, NEW b \in Batches, NEW step \in Steps
    PROVE  LET q == Load(b, step)
           IN  /\ q \in Request /\ q.pc = step /\ q.on = b /\ q.seen = status[b]
               /\ q.had = Nothing /\ q.next = "ABSENT" /\ q.utr = Nothing
BY DEF Load, Idle, Request, BatchStatuses, SettlementInv, TypeOK

\* A saved status neither creates a batch nor removes one.
LEMMA Writing ==
    ASSUME SettlementInv, NEW r \in Requests, NEW b \in Batches, Exists(b),
           NEW next \in BatchStatuses \ {"ABSENT"}, Write(r, b, next)
    PROVE  status' \in [Batches -> BatchStatuses] /\ \A c \in Batches : Exists(c)' <=> Exists(c)
BY DEF Write, Exists, SettlementInv, TypeOK

\* A step that saves a status and nothing else
LEMMA KeepsStatus ==
    ASSUME SettlementInv, NEW r \in Requests, Moves(r), TypeOK', Knows(req[r])',
           UNCHANGED <<utr, bankVars, journal>>,
           \A b \in Batches : Exists(b)' <=> Exists(b),
           req'[r].on \in {Nothing, req[r].on}, req'[r].pc # "create"
    PROVE  SettlementInv'
<1>1. Grows
  BY DEF Grows, Made, bankVars
<1>2. Distinct'
  BY DEF SettlementInv, Distinct
<1>3. \A b \in Batches : Books(b)'
  BY DEF SettlementInv, Books, Made, bankVars
<1> QED BY <1>1, <1>2, <1>3, Keeps

-----------------------------------------------------------------------------
(* One lemma for each step.                                                *)

LEMMA GenerateKeeps ==
    ASSUME SettlementInv, NEW r \in Requests, NEW b \in Batches, Generate(r, b)
    PROVE  SettlementInv'
<1> DEFINE q == [Idle EXCEPT !.pc = "create", !.on = b]
<1>1. q \in Request /\ q.pc = "create" /\ q.on = b /\ q.had = Nothing
  BY DEF Idle, Request, Steps, BatchStatuses
<1>2. Set(r, q)
  BY DEF Generate
<1> HIDE DEF q
<1>3. Moves(r) /\ req'[r] = q /\ req' \in [Requests -> Request]
  BY <1>1, <1>2, Stepping
<1>4. TypeOK'
  BY <1>3 DEF Generate, SettlementInv, TypeOK, batchVars, bankVars
<1>5. Knows(req[r])'
  BY <1>1, <1>3, SettlementAssumption DEF Generate, Knows, Exists, batchVars
<1>6. ~InUse(b) /\ UNCHANGED <<batchVars, bankVars, journal>>
  BY DEF Generate
<1> QED BY <1>1, <1>3, <1>4, <1>5, <1>6, KeepsLocals DEF InUse

\* A request begins on a batch that exists.
LEMMA StartKeeps ==
    ASSUME SettlementInv, NEW r \in Requests, NEW b \in Batches, Exists(b),
           NEW q \in Request, Set(r, q), q.pc \in {"review", "submitting", "inquire", "settle"},
           q.on = b, q.had \in {Nothing, utr[b]},
           q.pc = "settle" => q.utr \in Batches /\ Made(q.utr),
           UNCHANGED <<batchVars, bankVars, journal>>, calm' \subseteq calm, events' \in Nat
    PROVE  SettlementInv'
<1>1. Moves(r) /\ req'[r] = q /\ req' \in [Requests -> Request]
  BY Stepping
<1>2. TypeOK'
  BY <1>1 DEF SettlementInv, TypeOK, batchVars, bankVars
<1>3. q.had # Nothing => Made(b) /\ utr[b] # Nothing
  BY DEF SettlementInv, Books
<1>4. Knows(req[r])'
  BY <1>1, <1>3, SettlementAssumption DEF Knows, Exists, Made, batchVars, bankVars
<1>5. \A s \in Requests : req[s].pc = "create" => req[s].on # b
  BY DEF SettlementInv, Knows
<1> QED BY <1>1, <1>2, <1>4, <1>5, KeepsLocals

LEMMA ExecuteKeeps ==
    ASSUME SettlementInv, NEW r \in Requests, NEW b \in Batches, Execute(r, b)
    PROVE  SettlementInv'
<1>1. /\ Exists(b) /\ UNCHANGED <<batchVars, bankVars, journal>> /\ calm' \subseteq calm
      /\ events' \in Nat
  BY DEF Execute, SettlementInv, TypeOK
<1>2. CASE Set(r, Load(b, "review"))
  <2> DEFINE q == Load(b, "review")
  <2>1. q \in Request /\ q.pc = "review" /\ q.on = b /\ q.had = Nothing
    BY Loading DEF Steps
  <2> HIDE DEF q
  <2>2. Set(r, q)
    BY <1>2 DEF q
  <2> QED BY <1>1, <2>1, <2>2, StartKeeps
<1>3. CASE Set(r, [Load(b, "submitting") EXCEPT !.had = utr[b]])
  <2> DEFINE q == [Load(b, "submitting") EXCEPT !.had = utr[b]]
  <2>1. /\ Load(b, "submitting") \in Request /\ Load(b, "submitting").pc = "submitting"
        /\ Load(b, "submitting").on = b /\ utr[b] \in Batches \cup {Nothing}
    BY Loading DEF Steps, SettlementInv, TypeOK
  <2>2. q \in Request /\ q.pc = "submitting" /\ q.on = b /\ q.had = utr[b]
    BY <2>1 DEF Request
  <2> HIDE DEF q
  <2>3. Set(r, q)
    BY <1>3 DEF q
  <2> QED BY <1>1, <2>2, <2>3, StartKeeps
<1> QED BY <1>2, <1>3 DEF Execute

LEMMA RecoverKeeps ==
    ASSUME SettlementInv, NEW r \in Requests, NEW b \in Batches, Recover(r, b)
    PROVE  SettlementInv'
<1>1. /\ Exists(b) /\ UNCHANGED <<batchVars, bankVars, journal>> /\ calm' \subseteq calm
      /\ events' \in Nat
  BY DEF Recover, Touch, SettlementInv, TypeOK
<1> DEFINE q == Load(b, "inquire")
<1>2. q \in Request /\ q.pc = "inquire" /\ q.on = b /\ q.had = Nothing
  BY Loading DEF Steps
<1>3. Set(r, q)
  BY DEF Recover
<1> HIDE DEF q
<1> QED BY <1>1, <1>2, <1>3, StartKeeps

LEMMA MarkKeeps ==
    ASSUME SettlementInv, NEW r \in Requests, NEW b \in Batches, NEW u \in Batches, Mark(r, b, u)
    PROVE  SettlementInv'
<1>1. /\ Exists(b) /\ UNCHANGED <<batchVars, bankVars, journal>> /\ calm' \subseteq calm
      /\ Made(u)
  BY DEF Mark, Touch, Made
<1>2. events' \in Nat
  BY DEF Mark, Event, SettlementInv, TypeOK
<1> DEFINE q == [Idle EXCEPT !.pc = "settle", !.on = b, !.utr = u]
<1>3. q \in Request /\ q.pc = "settle" /\ q.on = b /\ q.had = Nothing /\ q.utr = u
  BY DEF Idle, Request, Steps, BatchStatuses
<1>4. Set(r, q)
  BY DEF Mark
<1> HIDE DEF q
<1> QED BY <1>1, <1>2, <1>3, <1>4, StartKeeps

LEMMA CreateKeeps ==
    ASSUME SettlementInv, NEW r \in Requests, Create(r)
    PROVE  SettlementInv'
<1>1. req[r].pc = "create" /\ Knows(req[r])
  BY AtStep DEF Create, At
<1>2. PICK b \in Batches : b = req[r].on
  BY <1>1, AtStep
<1>3. /\ Moves(r) /\ req' \in [Requests -> Request] /\ Knows(req[r])'
      /\ req'[r].pc = "idle" /\ req'[r].on = Nothing
  BY Finishing DEF Create
<1>4. UNCHANGED <<utr, reference, bankVars, journal, calm, events>>
  BY DEF Create
<1>5. ~Exists(b) /\ utr[b] = Nothing
  BY <1>1, <1>2 DEF Knows, SettlementInv, Books
<1>6. CASE status' = status
  BY <1>3, <1>4, <1>6, KeepsLocals DEF batchVars, SettlementInv, TypeOK, bankVars
<1>7. CASE ~UtrTaken(b, Nothing) /\ status' = [status EXCEPT ![b] = "CALCULATED"]
  <2>1. TypeOK' /\ \A c \in Batches : Exists(c)' <=> Exists(c) \/ c = b
    BY <1>3, <1>4, <1>7 DEF SettlementInv, TypeOK, bankVars, Exists, BatchStatuses
  <2>2. Grows
    BY <1>4, <2>1 DEF Grows, Made, bankVars
  <2>3. Distinct'
    BY <1>4, <1>5, <1>7, <2>1 DEF SettlementInv, Distinct, UtrTaken
  <2>4. \A c \in Batches : Books(c)'
    BY <1>4, <2>1 DEF SettlementInv, Books, Made, bankVars
  <2> QED BY <1>1, <1>2, <1>3, <2>1, <2>2, <2>3, <2>4, Keeps
<1> QED BY <1>2, <1>6, <1>7 DEF Create

\* A handler saves a status and ends.
LEMMA SaveAndFinishKeeps ==
    ASSUME SettlementInv, NEW r \in Requests, req[r].pc \notin {"idle", "create"},
           NEW next \in BatchStatuses \ {"ABSENT"}, Write(r, req[r].on, next), Finish(r),
           UNCHANGED <<reference, utr, bankVars, journal, calm, events>>
    PROVE  SettlementInv'
<1>1. req[r].on \in Batches /\ Exists(req[r].on)
  BY AtStep DEF Knows
<1>2. status' \in [Batches -> BatchStatuses] /\ \A b \in Batches : Exists(b)' <=> Exists(b)
  BY <1>1, Writing
<1>3. /\ Moves(r) /\ req' \in [Requests -> Request] /\ Knows(req[r])'
      /\ req'[r].pc = "idle" /\ req'[r].on = Nothing
  BY Finishing
<1>4. TypeOK'
  BY <1>2, <1>3 DEF SettlementInv, TypeOK, bankVars
<1> QED BY <1>2, <1>3, <1>4, KeepsStatus

LEMMA SaveReviewKeeps ==
    ASSUME SettlementInv, NEW r \in Requests, SaveReview(r)
    PROVE  SettlementInv'
<1>1. req[r].pc = "review"
  BY DEF SaveReview, At
<1> QED BY <1>1, SaveAndFinishKeeps DEF SaveReview, BatchStatuses

LEMMA SaveFoundKeeps ==
    ASSUME SettlementInv, NEW r \in Requests, SaveFound(r)
    PROVE  SettlementInv'
<1>1. req[r].pc = "found" /\ req[r].next \in {"PROCESSING", "FAILED"}
  BY AtStep DEF SaveFound, At, Knows
<1> QED BY <1>1, SaveAndFinishKeeps DEF SaveFound, BatchStatuses

LEMMA SaveSubmittingKeeps ==
    ASSUME SettlementInv, NEW r \in Requests, SaveSubmitting(r)
    PROVE  SettlementInv'
<1>1. req[r].pc = "submitting" /\ req[r] \in Request /\ Knows(req[r]) /\ req[r].on \in Batches
  BY AtStep DEF SaveSubmitting, At
<1>2. Exists(req[r].on) /\ Write(r, req[r].on, "SUBMITTING")
  BY <1>1 DEF Knows, SaveSubmitting
<1>3. status' \in [Batches -> BatchStatuses] /\ \A b \in Batches : Exists(b)' <=> Exists(b)
  BY <1>1, <1>2, Writing DEF BatchStatuses
<1> DEFINE q == [req[r] EXCEPT !.pc = "call", !.seen = "SUBMITTING"]
<1>4. q \in Request /\ q.pc = "call" /\ q.on = req[r].on /\ q.had = req[r].had
  BY <1>1 DEF Request, Steps, BatchStatuses
<1>5. Set(r, q)
  BY DEF SaveSubmitting
<1> HIDE DEF q
<1>6. Moves(r) /\ req'[r] = q /\ req' \in [Requests -> Request]
  BY <1>4, <1>5, Stepping
<1>7. UNCHANGED <<reference, utr, bankVars, journal, calm, events>>
  BY DEF SaveSubmitting
<1>8. TypeOK'
  BY <1>3, <1>6, <1>7 DEF SettlementInv, TypeOK, bankVars
<1>9. Knows(req[r])'
  BY <1>1, <1>2, <1>3, <1>4, <1>6, <1>7, SettlementAssumption DEF Knows, Made, bankVars
<1> QED BY <1>3, <1>4, <1>6, <1>7, <1>8, <1>9, KeepsStatus

\* What the bank does to the transfer of b, when it takes it or settles it
Banks(b) ==
    \/ UNCHANGED bankVars
    \/ bank[b] \in {"none", "pending"} /\ Transfer(b)
    \/ /\ bank[b] \in {"none", "pending"} /\ UNCHANGED transfers
       /\ \E now \in {"pending", "failed"} : bank' = [bank EXCEPT ![b] = now]

LEMMA Banking ==
    ASSUME SettlementInv, NEW b \in Batches, Exists(b), Banks(b), UNCHANGED <<batchVars, journal>>
    PROVE  /\ Grows /\ Distinct' /\ \A c \in Batches : Books(c)' /\ Exists(c)' = Exists(c)
           /\ bank' \in [Batches -> {"none", "pending", "success", "failed"}]
           /\ transfers' \in [Batches -> Nat]
<1>1. /\ bank \in [Batches -> {"none", "pending", "success", "failed"}]
      /\ transfers \in [Batches -> Nat]
      /\ \A c \in Batches : Books(c)
  BY DEF SettlementInv, TypeOK
<1>2. /\ bank' \in [Batches -> {"none", "pending", "success", "failed"}]
      /\ transfers' \in [Batches -> Nat]
      /\ \A c \in Batches : transfers'[c] = IF Made(c)' THEN 1 ELSE 0
  <2>1. CASE UNCHANGED bankVars
    BY <1>1, <2>1 DEF bankVars, Books, Made
  <2>2. CASE bank[b] \in {"none", "pending"} /\ Transfer(b)
    BY <1>1, <2>2 DEF Transfer, Books, Made
  <2>3. ASSUME NEW now \in {"pending", "failed"}, bank' = [bank EXCEPT ![b] = now],
               bank[b] \in {"none", "pending"}, UNCHANGED transfers
        PROVE  /\ bank' \in [Batches -> {"none", "pending", "success", "failed"}]
               /\ transfers' \in [Batches -> Nat]
               /\ \A c \in Batches : transfers'[c] = IF Made(c)' THEN 1 ELSE 0
    BY <1>1, <2>3 DEF Books, Made
  <2> QED BY <2>1, <2>2, <2>3 DEF Banks
<1>3. \A c \in Batches : (Made(c) => Made(c)') /\ (c # b => bank'[c] = bank[c])
  BY <1>1 DEF Banks, Transfer, Made, bankVars
<1>4. \A c \in Batches : Exists(c)' = Exists(c)
  BY DEF Exists, batchVars
<1>5. Grows
  BY <1>3, <1>4 DEF Grows, batchVars
<1>6. Distinct'
  BY <1>4 DEF SettlementInv, Distinct, batchVars
<1>7. ASSUME NEW c \in Batches PROVE Books(c)'
  <2>1. bank'[c] # "none" => Exists(c)'
    BY <1>1, <1>3, <1>4 DEF Books
  <2>2. utr'[c] # Nothing => Exists(c)' /\ Made(c)' /\ Made(utr[c])'
    <3>1. SUFFICES ASSUME utr[c] # Nothing PROVE Exists(c)' /\ Made(c)' /\ Made(utr[c])'
      BY DEF batchVars
    <3>2. utr[c] \in Batches /\ utr' = utr
      BY <3>1 DEF SettlementInv, TypeOK, batchVars
    <3> QED BY <1>1, <1>3, <1>4, <3>1, <3>2 DEF Books, Made
  <2> QED BY <1>1, <1>2, <2>1, <2>2 DEF Books, batchVars
<1> QED BY <1>2, <1>4, <1>5, <1>6, <1>7

LEMMA CallKeeps ==
    ASSUME SettlementInv, NEW r \in Requests, Call(r)
    PROVE  SettlementInv'
<1>1. req[r].pc = "call" /\ req[r] \in Request /\ Knows(req[r])
  BY AtStep DEF Call, At
<1>2. PICK b \in Batches : b = req[r].on
  BY <1>1, AtStep
<1>3. Exists(b) /\ UNCHANGED <<batchVars, journal, calm>>
  BY <1>1, <1>2 DEF Knows, Call
<1>4. Banks(b)
  BY <1>2 DEF Call, Take, Banks
<1>5. bank \in [Batches -> {"none", "pending", "success", "failed"}]
  BY DEF SettlementInv, TypeOK
<1>6. PICK next \in {"SUBMITTED", "PROCESSING", "STATUS_CHECK_REQUIRED", "FAILED"},
           u \in {Nothing, b} :
         /\ Answer(r, next, u)
         /\ Accepted(next) => u = UtrNow(b)
  BY <1>2, SettlementAssumption DEF Call, UtrNow, Accepted
<1> DEFINE q == [req[r] EXCEPT !.pc = "answer", !.next = next, !.utr = u]
<1>7. q \in Request /\ q.pc = "answer" /\ q.on = b /\ q.had = req[r].had /\ q.next = next /\ q.utr = u
  BY <1>1, <1>2 DEF Request, Steps, BatchStatuses
<1>8. Set(r, q)
  BY <1>6 DEF Answer
<1> HIDE DEF q
<1>9. Moves(r) /\ req'[r] = q /\ req' \in [Requests -> Request]
  BY <1>7, <1>8, Stepping
<1>10. /\ Grows /\ Distinct' /\ \A c \in Batches : Books(c)' /\ Exists(c)' = Exists(c)
       /\ bank' \in [Batches -> {"none", "pending", "success", "failed"}]
       /\ transfers' \in [Batches -> Nat]
  BY <1>3, <1>4, Banking
<1>11. events' \in Nat
  BY DEF Call, Event, SettlementInv, TypeOK
<1>12. TypeOK'
  BY <1>3, <1>9, <1>10, <1>11 DEF SettlementInv, TypeOK, batchVars
<1>13. Accepted(next) => (u = Nothing /\ req[r].had = Nothing) \/ (u = b /\ Made(b)')
  <2>1. req[r].had # Nothing => Made(b)'
    BY <1>1, <1>2, <1>10 DEF Knows, Grows
  <2> QED BY <1>6, <2>1 DEF UtrNow, Made
<1>14. Knows(req[r])'
  BY <1>1, <1>2, <1>3, <1>7, <1>9, <1>10, <1>13, SettlementAssumption DEF Knows, Grows
<1> QED BY <1>2, <1>7, <1>9, <1>10, <1>12, <1>14, Keeps

\* A handler that has the UTR u for its batch saves it, if no other batch has it.
LEMMA SavingUtr ==
    ASSUME SettlementInv, NEW b \in Batches, Exists(b), NEW u \in Batches, Made(u), Made(b),
           utr' = [utr EXCEPT ![b] = u], ~UtrTaken(b, u) \/ utr[b] = u,
           UNCHANGED <<bankVars, journal>>, \A c \in Batches : Exists(c)' <=> Exists(c)
    PROVE  Grows /\ Distinct' /\ \A c \in Batches : Books(c)'
<1>1. utr \in [Batches -> Batches \cup {Nothing}] /\ u # Nothing
  BY SettlementAssumption DEF SettlementInv, TypeOK
<1>2. Grows
  BY <1>1 DEF Grows, Made, bankVars
<1>3. \A c \in Batches \ {b} : Exists(c) => utr[c] # u
  BY DEF UtrTaken, SettlementInv, Distinct
<1>4. Distinct'
  BY <1>1, <1>3 DEF SettlementInv, Distinct
<1>5. \A c \in Batches : Books(c)'
  BY <1>1 DEF SettlementInv, Books, Made, bankVars
<1> QED BY <1>2, <1>4, <1>5

\* A step of r that writes status, reference and UTR of its batch
LEMMA KeepsBatch ==
    ASSUME SettlementInv, NEW r \in Requests, Moves(r), TypeOK', Knows(req[r])',
           Grows, Distinct', \A c \in Batches : Books(c)',
           \A b \in Batches : Exists(b)' <=> Exists(b),
           req'[r].on \in {Nothing, req[r].on}, req'[r].pc # "create"
    PROVE  SettlementInv'
BY Keeps

LEMMA SaveAnswerKeeps ==
    ASSUME SettlementInv, NEW r \in Requests, SaveAnswer(r)
    PROVE  SettlementInv'
<1>1. req[r].pc = "answer" /\ req[r] \in Request /\ Knows(req[r])
  BY AtStep DEF SaveAnswer, At
<1>2. PICK b \in Batches : b = req[r].on
  BY <1>1, AtStep
<1>3. /\ Moves(r) /\ req' \in [Requests -> Request] /\ Knows(req[r])'
      /\ req'[r].pc = "idle" /\ req'[r].on = Nothing
  BY Finishing DEF SaveAnswer
<1>4. UNCHANGED <<bankVars, journal, calm, events>>
  BY DEF SaveAnswer
<1>5. CASE UNCHANGED batchVars
  <2>1. TypeOK'
    BY <1>3, <1>4, <1>5 DEF SettlementInv, TypeOK, batchVars, bankVars
  <2> QED BY <1>3, <1>4, <1>5, <2>1, KeepsLocals
<1>6. CASE /\ Write(r, b, req[r].next)
           /\ reference' = [reference EXCEPT ![b] = @ \/ Accepted(req[r].next)]
           /\ \/ utr' = [utr EXCEPT ![b] = @]
              \/ /\ Accepted(req[r].next) /\ req[r].utr # req[r].had
                 /\ ~UtrTaken(b, req[r].utr) /\ utr' = [utr EXCEPT ![b] = req[r].utr]
  <2>1. Exists(b) /\ req[r].next \in BatchStatuses \ {"ABSENT"}
    BY <1>1, <1>2 DEF Knows, BatchStatuses
  <2>2. status' \in [Batches -> BatchStatuses] /\ \A c \in Batches : Exists(c)' <=> Exists(c)
    BY <1>6, <2>1, Writing
  <2>3. /\ utr \in [Batches -> Batches \cup {Nothing}] /\ reference \in [Batches -> BOOLEAN]
        /\ req[r].utr \in Batches \cup {Nothing}
    BY <1>1 DEF SettlementInv, TypeOK, Request
  <2>4. utr' \in [Batches -> Batches \cup {Nothing}]
    BY <1>6, <2>3
  <2>5. reference' \in [Batches -> BOOLEAN]
    BY <1>6, <2>3 DEF Accepted
  <2>6. TypeOK'
    BY <1>3, <1>4, <2>2, <2>4, <2>5 DEF SettlementInv, TypeOK, bankVars
  <2>7. CASE utr' = utr
    BY <1>3, <1>4, <2>2, <2>6, <2>7, KeepsStatus
  <2>8. CASE /\ Accepted(req[r].next) /\ req[r].utr # req[r].had
             /\ ~UtrTaken(b, req[r].utr) /\ utr' = [utr EXCEPT ![b] = req[r].utr]
    <3>1. req[r].utr = b /\ Made(b)
      BY <1>1, <1>2, <2>8 DEF Knows
    <3>2. Grows /\ Distinct' /\ \A c \in Batches : Books(c)'
      BY <1>4, <2>1, <2>2, <2>8, <3>1, SavingUtr
    <3> QED BY <1>3, <2>2, <2>6, <3>2, KeepsBatch
  <2> QED BY <1>6, <2>3, <2>7, <2>8
<1> QED BY <1>2, <1>5, <1>6 DEF SaveAnswer, Accepted

LEMMA InquireKeeps ==
    ASSUME SettlementInv, NEW r \in Requests, Inquire(r)
    PROVE  SettlementInv'
<1>1. req[r].pc = "inquire" /\ req[r] \in Request /\ Knows(req[r])
  BY AtStep DEF Inquire, At
<1>2. PICK b \in Batches : b = req[r].on
  BY <1>1, AtStep
<1>3. UNCHANGED <<batchVars, bankVars, journal, calm, events>> /\ Exists(b)
  BY <1>1, <1>2 DEF Inquire, Knows
<1>4. CASE Finish(r)
  <2>1. Moves(r) /\ req' \in [Requests -> Request] /\ Knows(req[r])'
        /\ req'[r].pc = "idle" /\ req'[r].on = Nothing
    BY <1>4, Finishing
  <2>2. TypeOK'
    BY <1>3, <2>1 DEF SettlementInv, TypeOK, batchVars, bankVars
  <2> QED BY <1>3, <2>1, <2>2, KeepsLocals
<1>5. CASE bank[b] = "success" /\ Set(r, [Idle EXCEPT !.pc = "settle", !.on = b, !.utr = b])
  <2> DEFINE q == [Idle EXCEPT !.pc = "settle", !.on = b, !.utr = b]
  <2>1. q \in Request /\ q.pc = "settle" /\ q.on = b /\ q.had = Nothing /\ q.utr = b
    BY DEF Idle, Request, Steps, BatchStatuses
  <2> HIDE DEF q
  <2>2. Set(r, q) /\ Made(b)
    BY <1>5 DEF q, Made
  <2>3. events' \in Nat /\ calm' \subseteq calm
    BY <1>3 DEF SettlementInv, TypeOK
  <2> QED BY <1>3, <2>1, <2>2, <2>3, StartKeeps
<1>6. ASSUME NEW next \in {"PROCESSING", "FAILED"},
             Set(r, [req[r] EXCEPT !.pc = "found", !.next = next])
      PROVE  SettlementInv'
  <2> DEFINE q == [req[r] EXCEPT !.pc = "found", !.next = next]
  <2>1. /\ q \in Request /\ q.pc = "found" /\ q.on = b /\ q.had = req[r].had
        /\ q.next = next
    BY <1>1, <1>2 DEF Request, Steps, BatchStatuses
  <2> HIDE DEF q
  <2>2. Set(r, q)
    BY <1>6 DEF q
  <2>3. Moves(r) /\ req'[r] = q /\ req' \in [Requests -> Request]
    BY <2>1, <2>2, Stepping
  <2>4. TypeOK'
    BY <1>3, <2>3 DEF SettlementInv, TypeOK, batchVars, bankVars
  <2>5. Knows(req[r])'
    BY <1>1, <1>2, <1>3, <2>1, <2>3, SettlementAssumption
       DEF Knows, Exists, Made, batchVars, bankVars
  <2> QED BY <1>2, <1>3, <2>1, <2>3, <2>4, <2>5, KeepsLocals
<1> QED BY <1>2, <1>4, <1>5, <1>6 DEF Inquire

LEMMA SettleKeeps ==
    ASSUME SettlementInv, NEW r \in Requests, Settle(r)
    PROVE  SettlementInv'
<1>1. req[r].pc = "settle" /\ req[r] \in Request /\ Knows(req[r])
  BY AtStep DEF Settle, At
<1>2. PICK b \in Batches : b = req[r].on
  BY <1>1, AtStep
<1>3. UNCHANGED <<batchVars, bankVars, journal, calm, events>> /\ Exists(b) /\ Books(b)
  BY <1>1, <1>2 DEF Settle, Knows, SettlementInv
<1>4. CASE Finish(r)
  <2>1. Moves(r) /\ req' \in [Requests -> Request] /\ Knows(req[r])'
        /\ req'[r].pc = "idle" /\ req'[r].on = Nothing
    BY <1>4, Finishing
  <2>2. TypeOK'
    BY <1>3, <2>1 DEF SettlementInv, TypeOK, batchVars, bankVars
  <2> QED BY <1>3, <2>1, <2>2, KeepsLocals
<1>5. CASE Set(r, [Load(b, "paid") EXCEPT !.had = utr[b], !.utr = req[r].utr])
  <2> DEFINE q == [Load(b, "paid") EXCEPT !.had = utr[b], !.utr = req[r].utr]
  <2>1. /\ Load(b, "paid") \in Request /\ Load(b, "paid").pc = "paid" /\ Load(b, "paid").on = b
        /\ utr[b] \in Batches \cup {Nothing} /\ req[r].utr \in Batches /\ Made(req[r].utr)
    BY <1>1, Loading DEF Steps, SettlementInv, TypeOK, Knows
  <2>2. q \in Request /\ q.pc = "paid" /\ q.on = b /\ q.had = utr[b] /\ q.utr = req[r].utr
    BY <2>1 DEF Request
  <2> HIDE DEF q
  <2>3. Set(r, q)
    BY <1>5 DEF q
  <2>4. Moves(r) /\ req'[r] = q /\ req' \in [Requests -> Request]
    BY <2>2, <2>3, Stepping
  <2>5. TypeOK'
    BY <1>3, <2>4 DEF SettlementInv, TypeOK, batchVars, bankVars
  <2>6. Knows(req[r])'
    BY <1>3, <2>1, <2>2, <2>4, SettlementAssumption
       DEF Knows, Books, Exists, Made, batchVars, bankVars
  <2> QED BY <1>2, <1>3, <2>2, <2>4, <2>5, <2>6, KeepsLocals
<1> QED BY <1>2, <1>4, <1>5 DEF Settle

LEMMA SavePaidKeeps ==
    ASSUME SettlementInv, NEW r \in Requests, SavePaid(r)
    PROVE  SettlementInv'
<1>1. req[r].pc = "paid" /\ req[r] \in Request /\ Knows(req[r])
  BY AtStep DEF SavePaid, At
<1>2. PICK b \in Batches : b = req[r].on
  BY <1>1, AtStep
<1>3. UNCHANGED <<reference, bankVars, journal, calm, events>> /\ Exists(b)
  BY <1>1, <1>2 DEF SavePaid, Knows
<1>4. CASE Finish(r) /\ UNCHANGED <<status, utr>>
  <2>1. Moves(r) /\ req' \in [Requests -> Request] /\ Knows(req[r])'
        /\ req'[r].pc = "idle" /\ req'[r].on = Nothing
    BY <1>4, Finishing
  <2>2. TypeOK'
    BY <1>3, <1>4, <2>1 DEF SettlementInv, TypeOK, bankVars
  <2>3. UNCHANGED <<batchVars, bankVars, journal>>
    BY <1>3, <1>4 DEF batchVars
  <2> QED BY <2>1, <2>2, <2>3, KeepsLocals
<1>5. CASE /\ ~(req[r].utr # req[r].had /\ UtrTaken(b, req[r].utr))
           /\ Write(r, b, "PAID") /\ Goto(r, "journal")
           /\ utr' = [utr EXCEPT ![b] = IF req[r].utr # req[r].had THEN req[r].utr ELSE @]
  <2> DEFINE u == req[r].utr
             q == [req[r] EXCEPT !.pc = "journal"]
  <2>1. u \in Batches /\ Made(u) /\ utr \in [Batches -> Batches \cup {Nothing}]
    BY <1>1 DEF Knows, SettlementInv, TypeOK
  <2>2. status' \in [Batches -> BatchStatuses] /\ \A c \in Batches : Exists(c)' <=> Exists(c)
    BY <1>3, <1>5, Writing DEF BatchStatuses
  <2>3. q \in Request /\ q.pc = "journal" /\ q.on = b /\ q.had = req[r].had
    BY <1>1, <1>2 DEF Request, Steps
  <2>4. Set(r, q)
    BY <1>5 DEF Goto
  <2> HIDE DEF q, u
  <2>5. Moves(r) /\ req'[r] = q /\ req' \in [Requests -> Request]
    BY <2>3, <2>4, Stepping
  <2>6. /\ utr' \in [Batches -> Batches \cup {Nothing}] /\ Grows /\ Distinct'
        /\ \A c \in Batches : Books(c)' /\ utr'[b] # Nothing
    <3>1. CASE u # req[r].had
      <4>1. ~UtrTaken(b, u) /\ utr' = [utr EXCEPT ![b] = u]
        BY <1>5, <3>1 DEF u
      <4>2. Made(b)
        BY <1>3, <2>1, <4>1, FreeUtr
      <4> QED BY <1>3, <2>1, <2>2, <4>1, <4>2, SavingUtr, SettlementAssumption
    <3>2. CASE u = req[r].had
      <4>1. utr' = utr /\ utr[b] # Nothing
        BY <1>1, <1>2, <1>5, <2>1, <3>2, SettlementAssumption DEF Knows, u
      <4>2. Made(b) /\ ~UtrTaken(b, utr[b]) /\ utr[b] \in Batches /\ Made(utr[b])
        BY <1>3, <2>1, <4>1 DEF SettlementInv, Books, Distinct, UtrTaken
      <4>3. utr' = [utr EXCEPT ![b] = utr[b]]
        BY <2>1, <4>1
      <4>4. Grows /\ Distinct' /\ \A c \in Batches : Books(c)'
        BY <1>3, <2>2, <4>2, <4>3, SavingUtr
      <4> QED BY <2>1, <4>1, <4>4
    <3> QED BY <3>1, <3>2
  <2>7. TypeOK'
    BY <1>3, <2>2, <2>5, <2>6 DEF SettlementInv, TypeOK, bankVars
  <2>8. Knows(req[r])'
    BY <1>1, <1>2, <1>3, <2>2, <2>3, <2>5, <2>6, SettlementAssumption
       DEF Knows, Made, bankVars
  <2> QED BY <1>2, <2>2, <2>3, <2>5, <2>6, <2>7, <2>8, KeepsBatch
<1> QED BY <1>2, <1>4, <1>5 DEF SavePaid

LEMMA PostJournalKeeps ==
    ASSUME SettlementInv, NEW r \in Requests, PostJournal(r)
    PROVE  SettlementInv'
<1>1. req[r].pc = "journal" /\ Knows(req[r])
  BY AtStep DEF PostJournal, At
<1>2. PICK b \in Batches : b = req[r].on
  BY <1>1, AtStep
<1>3. journal' \in {journal, journal \cup {b}} /\ UNCHANGED <<batchVars, bankVars, calm, events>>
  BY <1>2 DEF PostJournal
<1>4. /\ Moves(r) /\ req' \in [Requests -> Request] /\ Knows(req[r])'
      /\ req'[r].pc = "idle" /\ req'[r].on = Nothing
  BY Finishing DEF PostJournal
<1>5. TypeOK'
  BY <1>3, <1>4 DEF SettlementInv, TypeOK, batchVars, bankVars
<1>6. Grows /\ \A c \in Batches : Exists(c)' <=> Exists(c)
  BY <1>3 DEF Grows, Exists, Made, batchVars, bankVars
<1>7. Distinct'
  BY <1>3, <1>6 DEF SettlementInv, Distinct, batchVars
<1>8. \A c \in Batches : Books(c)'
  BY <1>3, <1>6 DEF SettlementInv, Books, Made, batchVars, bankVars
<1> QED BY <1>4, <1>5, <1>6, <1>7, <1>8, KeepsBatch

LEMMA FailKeeps ==
    ASSUME SettlementInv, NEW r \in Requests, Fail(r)
    PROVE  SettlementInv'
<1>1. UNCHANGED <<batchVars, bankVars, journal>> /\ calm' \subseteq calm /\ events' \in Nat
  BY DEF Fail, Event, SettlementInv, TypeOK
<1>2. /\ Moves(r) /\ req' \in [Requests -> Request] /\ Knows(req[r])'
      /\ req'[r].pc = "idle" /\ req'[r].on = Nothing
  BY Finishing DEF Fail
<1>3. TypeOK'
  BY <1>1, <1>2 DEF SettlementInv, TypeOK, batchVars, bankVars
<1> QED BY <1>1, <1>2, <1>3, KeepsLocals

LEMMA BankSettlesKeeps ==
    ASSUME SettlementInv, NEW b \in Batches, BankSettles(b)
    PROVE  SettlementInv'
<1>1. UNCHANGED <<batchVars, journal, req, calm, events>> /\ Exists(b) /\ Banks(b)
  BY DEF BankSettles, Banks, SettlementInv, Books
<1>2. /\ Grows /\ Distinct' /\ \A c \in Batches : Books(c)' /\ Exists(c)' = Exists(c)
      /\ bank' \in [Batches -> {"none", "pending", "success", "failed"}]
      /\ transfers' \in [Batches -> Nat]
  BY <1>1, Banking
<1>3. TypeOK'
  BY <1>1, <1>2 DEF SettlementInv, TypeOK, batchVars
<1>4. \A r \in Requests : Knows(req[r])'
  BY <1>1, <1>2, StillKnows
<1>5. Alone'
  BY <1>1 DEF SettlementInv, Alone
<1> QED BY <1>2, <1>3, <1>4, <1>5 DEF SettlementInv

LEMMA InitSettlementInv == Init => SettlementInv
<1> SUFFICES ASSUME Init PROVE SettlementInv
  OBVIOUS
<1>1. TypeOK
  BY IdleFacts DEF Init, TypeOK, BatchStatuses
<1>2. \A r \in Requests : req[r] = Idle
  BY DEF Init
<1>3. (\A r \in Requests : Knows(req[r])) /\ Alone
  BY <1>2, IdleFacts DEF Knows, Alone
<1>4. Distinct /\ \A b \in Batches : Books(b)
  BY DEF Init, Distinct, Books, Exists, Made
<1> QED BY <1>1, <1>3, <1>4 DEF SettlementInv

LEMMA NextSettlementInv == SettlementInv /\ [Next]_vars => SettlementInv'
<1> SUFFICES ASSUME SettlementInv, [Next]_vars PROVE SettlementInv'
  OBVIOUS
<1>1. ASSUME NEW r \in Requests, Start(r) \/ Create(r) PROVE SettlementInv'
  BY <1>1, GenerateKeeps, ExecuteKeeps, RecoverKeeps, MarkKeeps, CreateKeeps DEF Start
<1>2. ASSUME NEW r \in Requests, Payout(r) PROVE SettlementInv'
  BY <1>2, SaveReviewKeeps, SaveSubmittingKeeps, CallKeeps, SaveAnswerKeeps DEF Payout
<1>3. ASSUME NEW r \in Requests, Inquiry(r) \/ Settling(r) \/ Fail(r) PROVE SettlementInv'
  BY <1>3, InquireKeeps, SaveFoundKeeps, SettleKeeps, SavePaidKeeps, PostJournalKeeps, FailKeeps
     DEF Inquiry, Settling
<1>4. ASSUME NEW b \in Batches, BankSettles(b) PROVE SettlementInv'
  BY <1>4, BankSettlesKeeps
<1>5. CASE UNCHANGED vars
  <2>1. UNCHANGED <<status, utr, bank, transfers, journal, req, TypeOK>>
    BY <1>5 DEF vars, batchVars, bankVars, TypeOK
  <2> QED BY <2>1 DEF SettlementInv, Knows, Alone, Distinct, Books, Exists, Made
<1> QED BY <1>1, <1>2, <1>3, <1>4, <1>5 DEF Next

LEMMA SettlementInvariant == Spec => []SettlementInv
BY InitSettlementInv, NextSettlementInv, PTL DEF Spec

-----------------------------------------------------------------------------
\* The type invariant of the model of SettlementService
THEOREM SettlementTypeCorrect == Spec => []TypeOK
<1>1. SettlementInv => TypeOK
  BY DEF SettlementInv
<1> QED BY <1>1, SettlementInvariant, PTL

\* generateSettlementBatch leaves at most one batch of all without a UTR.
THEOREM OneBatchOpen == Spec => []OneOpenBatch
<1>1. SettlementInv => OneOpenBatch
  BY DEF SettlementInv, Distinct, OneOpenBatch
<1> QED BY <1>1, SettlementInvariant, PTL
=============================================================================
