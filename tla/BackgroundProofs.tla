-------------------------- MODULE BackgroundProofs --------------------------
(***************************************************************************)
(* The safety properties of the background work, for every number of       *)
(* processes, events, jobs, keys, retries and faults.                      *)
(*                                                                         *)
(* None is inductive. An event counts as dispatched once because who has   *)
(* it has not dispatched it yet, and nobody finds it again when it is      *)
(* published (SweepInv). An e-mail goes out once because, unless a process *)
(* without Redis has sent it, its key is stored or its job is about to     *)
(* store it, or it has lapsed since (KeyInv).                              *)
(***************************************************************************)
EXTENDS Background, TLAPS

Has(p) == sweep[p].todo \cup sweep[p].at
Undispatched(p) == sweep[p].todo \cup (IF sweep[p].pc = "dispatch" THEN sweep[p].at ELSE {})

\* A sweep has nothing before it starts, and one event at a time.
Orderly ==
    \A p \in Processes :
        /\ sweep[p].pc = "idle" => Has(p) = {}
        /\ sweep[p].pc = "next" => sweep[p].at = {}
        /\ sweep[p].todo \cap sweep[p].at = {}
        /\ sweep[p].pc = "retry" => sweep[p].at \cap quiet = {}

\* An event in the hands of one sweep, or of none
Handled(e) ==
    /\ dispatched[e] <= 1
    /\ \A p, q \in Processes : e \in Has(p) /\ e \in Has(q) => p = q
    /\ \A p \in Processes : e \in Undispatched(p) => dispatched[e] = 0
    /\ event[e] # "PUBLISHED" /\ ~Swept(e) => dispatched[e] = 0

SweepInv == Orderly /\ \A e \in quiet : Handled(e)

\* Jobs whose e-mail has gone out and is not yet marked as sent
Unmarked(k) == {j \in Jobs : KeyOf[j] = k /\ place[j] \in {"log", "mark"}}

\* A process without Redis knows, and nobody else does, that the key was used.
Offline(k) ==
    \E p \in Processes \ connected : k \in cached[p] \/ \E j \in Unmarked(k) : home[j] = p

\* A key that is stored anywhere, or about to be, belongs to an e-mail that was sent.
Backed ==
    /\ \A k \in stored : sent[k] > 0
    /\ \A p \in Processes : \A k \in mirror[p] \cup cached[p] : sent[k] > 0
    /\ \A j \in Jobs : place[j] \in {"log", "mark", "duplicate"} => sent[KeyOf[j]] > 0

\* A key whose jobs have met neither each other nor a fault
Once(k) ==
    /\ \A i, j \in Jobs : KeyOf[i] = k /\ KeyOf[j] = k /\ Busy(i) /\ Busy(j) => i = j
    /\ ~Offline(k) =>
          /\ sent[k] <= 1 + lapsed[k]
          /\ sent[k] = 1 + lapsed[k] => k \in stored \/ Unmarked(k) # {}
          /\ \A j \in Jobs : KeyOf[j] = k /\ place[j] = "send" /\ home[j] \in connected
                => sent[k] <= lapsed[k]

KeyInv == \A k \in apart : Once(k)

\* What a sweep has at its last steps, and what is over, has been dispatched.
SentInv ==
    /\ \A p \in Processes : sweep[p].pc \in {"publish", "retry"} =>
          \A e \in sweep[p].at : dispatched[e] > 0
    /\ \A e \in Events : event[e] \in {"PUBLISHED", "FAILED"} => dispatched[e] > 0

OutboxInv == OutboxTypeOK /\ SweepInv
EmailInv == EmailTypeOK /\ Backed /\ KeyInv

-----------------------------------------------------------------------------
(* The outbox                                                              *)

LEMMA SweepType == Resting \in Sweep
  BY DEF Resting, Sweep, EventStatuses

LEMMA OutboxStart == OutboxInit => OutboxInv
<1> SUFFICES ASSUME OutboxInit PROVE OutboxInv
  OBVIOUS
<1>1. OutboxTypeOK
  BY SweepType DEF OutboxInit, OutboxTypeOK, EventStatuses
<1>2. \A p \in Processes : sweep[p].pc = "idle" /\ sweep[p].todo = {} /\ sweep[p].at = {}
  BY DEF OutboxInit, Resting
<1>3. Orderly
  BY <1>2 DEF Orderly, Has
<1>4. SweepInv
  BY <1>2, <1>3 DEF SweepInv, Handled, OutboxInit, Has, Undispatched
<1> QED BY <1>1, <1>4 DEF OutboxInv

\* How the sweep of p may go on without harm to the events that are still quiet: it
\* drops none of them, or only one that is published or was not dispatched.
LEMMA SweepKept ==
    ASSUME OutboxInv, OutboxTypeOK', NEW p \in Processes,
           \A q \in Processes \ {p} : sweep'[q] = sweep[q],
           quiet' \subseteq quiet, dispatched' = dispatched,
           Has(p)' \subseteq Has(p),
           sweep'[p].pc = "idle" => Has(p)' = {},
           sweep'[p].pc = "next" => sweep'[p].at = {},
           sweep'[p].todo \cap sweep'[p].at = {},
           sweep'[p].pc = "retry" => sweep'[p].at \cap quiet' = {},
           \A e \in quiet' :
              /\ e \in Undispatched(p)' => dispatched[e] = 0
              /\ event'[e] = event[e] \/ event'[e] = "PUBLISHED" \/ dispatched[e] = 0
              /\ e \in Has(p) \ Has(p)' => event'[e] = "PUBLISHED" \/ dispatched[e] = 0
    PROVE  OutboxInv'
<1>0. Orderly /\ \A e \in quiet : Handled(e)
  BY DEF OutboxInv, SweepInv
<1>1. \A q \in Processes \ {p} : Has(q)' = Has(q) /\ Undispatched(q)' = Undispatched(q)
  BY DEF Has, Undispatched
<1>2. Orderly'
  <2> SUFFICES ASSUME NEW q \in Processes
               PROVE  /\ sweep'[q].pc = "idle" => Has(q)' = {}
                      /\ sweep'[q].pc = "next" => sweep'[q].at = {}
                      /\ sweep'[q].todo \cap sweep'[q].at = {}
                      /\ sweep'[q].pc = "retry" => sweep'[q].at \cap quiet' = {}
    BY DEF Orderly
  <2>1. CASE q = p
    BY <2>1
  <2>2. CASE q # p
    BY <1>0, <1>1, <2>2 DEF Orderly
  <2> QED BY <2>1, <2>2
<1>3. ASSUME NEW e \in quiet' PROVE Handled(e)'
  <2>1. Handled(e)
    BY <1>0, <1>3
  <2>2. \A q \in Processes : e \in Has(q)' => e \in Has(q)
    BY <1>1
  <2>3. \A q \in Processes : e \in Undispatched(q)' => dispatched[e] = 0
    BY <1>1, <1>3, <2>1 DEF Handled
  <2>4. ASSUME event'[e] # "PUBLISHED", ~Swept(e)', dispatched[e] # 0 PROVE FALSE
    <3>1. event[e] # "PUBLISHED" /\ e \notin Has(p)
      BY <1>3, <2>4 DEF Swept, Has
    <3>2. ~Swept(e)
      BY <1>1, <2>4, <3>1 DEF Swept, Has
    <3> QED BY <2>1, <2>4, <3>1, <3>2 DEF Handled
  <2> QED BY <2>1, <2>2, <2>3, <2>4 DEF Handled
<1> QED BY <1>2, <1>3 DEF OutboxInv, SweepInv

\* The events that are found are at rest, or no longer quiet.
LEMMA StartSweepKept ==
    ASSUME OutboxInv, NEW p \in Processes, StartSweep(p)
    PROVE  OutboxInv'
<1> DEFINE found == {e \in Events : event[e] \in {"PENDING", "PROCESSING"} /\ due[e]}
           start == [pc |-> "next", todo |-> found, at |-> {}, seen |-> event, tries |-> retries]
<1>1. /\ OutboxTypeOK /\ SweepInv /\ sweep \in [Processes -> Sweep]
      /\ sweep[p].pc = "idle" /\ Has(p) = {}
  BY DEF OutboxInv, OutboxTypeOK, SweepInv, Orderly, StartSweep, SweepAt
<1>2. /\ sweep' = [sweep EXCEPT ![p] = start] /\ UNCHANGED <<event, retries, due, dispatched>>
      /\ quiet' = {e \in quiet : e \in found => ~Swept(e)}
  BY DEF StartSweep, SetSweep
<1>3. start \in Sweep
  BY <1>1 DEF Sweep, OutboxTypeOK
<1>4. OutboxTypeOK'
  BY <1>1, <1>2, <1>3 DEF OutboxTypeOK
<1>5. /\ sweep'[p] = start /\ \A q \in Processes \ {p} : sweep'[q] = sweep[q]
  BY <1>1, <1>2
<1>6. /\ Has(p)' = found /\ Undispatched(p)' = found
      /\ \A q \in Processes \ {p} : Has(q)' = Has(q) /\ Undispatched(q)' = Undispatched(q)
  BY <1>5 DEF Has, Undispatched
<1>7. Orderly'
  BY <1>1, <1>2, <1>5, <1>6 DEF SweepInv, Orderly
<1>8. ASSUME NEW e \in quiet' PROVE Handled(e)'
  <2>1. Handled(e) /\ (e \in found => ~Swept(e) /\ event[e] # "PUBLISHED")
    BY <1>1, <1>2, <1>8 DEF SweepInv
  <2>2. \A q, s \in Processes : e \in Has(q)' /\ e \in Has(s)' => q = s
    BY <1>1, <1>6, <2>1 DEF Handled, Swept, Has
  <2>3. \A q \in Processes : e \in Undispatched(q)' => dispatched[e] = 0
    BY <1>6, <2>1 DEF Handled
  <2>4. ~Swept(e)' => ~Swept(e)
    BY <1>1, <1>6 DEF Swept, Has
  <2> QED BY <1>2, <2>1, <2>2, <2>3, <2>4 DEF Handled
<1> QED BY <1>4, <1>7, <1>8 DEF OutboxInv, SweepInv

LEMMA ProcessKept ==
    ASSUME OutboxInv, NEW p \in Processes, Process(p)
    PROVE  OutboxInv'
<1>1. PICK e \in sweep[p].todo :
         /\ sweep' = [sweep EXCEPT ![p] = [sweep[p] EXCEPT !.pc = "dispatch", !.todo = @ \ {e}, !.at = {e}]]
         /\ \/ event' = event
            \/ event' = [event EXCEPT ![e] = IF sweep[p].seen[e] = "PROCESSING" THEN @
                                             ELSE "PROCESSING"]
  BY DEF Process, SetSweep
<1>2. UNCHANGED <<retries, due, dispatched, quiet>> /\ sweep[p].pc = "next"
  BY DEF Process, SweepAt
<1>3. /\ OutboxTypeOK /\ SweepInv /\ sweep[p] \in Sweep /\ sweep[p].at = {} /\ e \in Events
  BY <1>2 DEF OutboxInv, OutboxTypeOK, SweepInv, Orderly, Sweep
<1>4. /\ sweep'[p] \in Sweep /\ sweep'[p].pc = "dispatch" /\ sweep'[p].at = {e}
      /\ sweep'[p].todo = sweep[p].todo \ {e} /\ \A q \in Processes \ {p} : sweep'[q] = sweep[q]
  BY <1>1, <1>3 DEF OutboxTypeOK, Sweep
<1>5. /\ event' \in [Events -> EventStatuses] /\ \A x \in Events \ {e} : event'[x] = event[x]
  BY <1>1, <1>3 DEF OutboxTypeOK, EventStatuses
<1>6. OutboxTypeOK'
  BY <1>1, <1>2, <1>3, <1>4, <1>5 DEF OutboxTypeOK
<1>7. Has(p)' = Has(p) /\ Undispatched(p)' = sweep[p].todo
  BY <1>3, <1>4 DEF Has, Undispatched
<1>8. \A x \in quiet : x \in sweep[p].todo => dispatched[x] = 0
  BY <1>3 DEF SweepInv, Handled, Undispatched
<1>9. quiet \subseteq Events
  BY <1>3 DEF OutboxTypeOK
<1> QED BY <1>2, <1>4, <1>5, <1>6, <1>7, <1>8, <1>9, SweepKept

LEMMA DispatchKept ==
    ASSUME OutboxInv, NEW p \in Processes, Dispatch(p)
    PROVE  OutboxInv'
<1>1. /\ OutboxTypeOK /\ SweepInv /\ sweep[p] \in Sweep /\ sweep[p].pc = "dispatch"
      /\ sweep' = [sweep EXCEPT ![p] = [sweep[p] EXCEPT !.pc = "publish"]]
      /\ UNCHANGED <<event, retries, due, quiet>>
  BY DEF OutboxInv, OutboxTypeOK, Dispatch, SweepAt, SetSweep
<1>2. /\ dispatched' \in [Events -> Nat]
      /\ \A e \in Events : dispatched'[e] = dispatched[e] + (IF e \in sweep[p].at THEN 1 ELSE 0)
  BY <1>1 DEF Dispatch, OutboxTypeOK
<1>3. /\ sweep'[p] \in Sweep /\ sweep'[p].pc = "publish" /\ sweep'[p].at = sweep[p].at
      /\ sweep'[p].todo = sweep[p].todo /\ \A q \in Processes \ {p} : sweep'[q] = sweep[q]
  BY <1>1 DEF OutboxTypeOK, Sweep
<1>4. OutboxTypeOK'
  BY <1>1, <1>2, <1>3 DEF OutboxTypeOK
<1>5. /\ \A q \in Processes : Has(q)' = Has(q)
      /\ Undispatched(p)' = sweep[p].todo
      /\ \A q \in Processes \ {p} : Undispatched(q)' = Undispatched(q)
  BY <1>3 DEF Has, Undispatched
<1>6. Orderly'
  BY <1>1, <1>3, <1>5 DEF SweepInv, Orderly
<1>7. ASSUME NEW e \in quiet' PROVE Handled(e)'
  <2>1. Handled(e) /\ e \in Events /\ dispatched[e] \in Nat
    BY <1>1, <1>7 DEF SweepInv, OutboxTypeOK
  <2>2. Swept(e)' <=> Swept(e)
    BY <1>5 DEF Swept, Has
  <2>3. CASE e \in sweep[p].at
    <3>1. dispatched[e] = 0 /\ dispatched'[e] = 1
      BY <1>1, <1>2, <2>1, <2>3 DEF Handled, Undispatched
    <3>2. e \in Has(p) /\ e \notin sweep[p].todo /\ Swept(e)
      BY <1>1, <2>3 DEF SweepInv, Orderly, Has, Swept
    <3>3. \A q \in Processes : e \notin Undispatched(q)'
      <4>1. \A q \in Processes : e \in Undispatched(q) => e \in Has(q)
        BY DEF Undispatched, Has
      <4> QED BY <1>5, <2>1, <3>2, <4>1 DEF Handled
    <3> QED BY <1>1, <1>5, <2>1, <2>2, <3>1, <3>2, <3>3 DEF Handled
  <2>4. CASE e \notin sweep[p].at
    <3>1. dispatched'[e] = dispatched[e]
      BY <1>2, <2>1, <2>4
    <3>2. \A q \in Processes : e \in Undispatched(q)' => e \in Undispatched(q)
      BY <1>5 DEF Undispatched
    <3> QED BY <1>1, <1>5, <2>1, <2>2, <3>1, <3>2 DEF Handled
  <2> QED BY <2>3, <2>4
<1> QED BY <1>4, <1>6, <1>7 DEF OutboxInv, SweepInv

\* What GoOn makes of the locals: nothing is left, or the next event is to come.
LEMMA GoOnMoves ==
    ASSUME OutboxTypeOK, NEW p \in Processes, GoOn(p) \/ SetSweep(p, Resting)
    PROVE  /\ sweep' \in [Processes -> Sweep] /\ \A q \in Processes \ {p} : sweep'[q] = sweep[q]
           /\ sweep'[p].pc \in {"idle", "next"} /\ sweep'[p].at = {}
           /\ sweep'[p].todo \subseteq sweep[p].todo
           /\ sweep'[p].pc = "idle" => sweep'[p].todo = {}
<1>1. sweep \in [Processes -> Sweep] /\ sweep[p] \in Sweep
  BY DEF OutboxTypeOK
<1>2. CASE sweep' = [sweep EXCEPT ![p] = Resting]
  BY <1>1, <1>2, SweepType DEF Resting
<1>3. CASE sweep' = [sweep EXCEPT ![p] = [sweep[p] EXCEPT !.pc = "next", !.at = {}]]
  BY <1>1, <1>3 DEF Sweep
<1> QED BY <1>2, <1>3 DEF GoOn, SetSweep

LEMMA PublishKept ==
    ASSUME OutboxInv, NEW p \in Processes, Publish(p)
    PROVE  OutboxInv'
<1>1. /\ OutboxTypeOK /\ SweepInv /\ sweep[p] \in Sweep /\ sweep[p].pc = "publish"
      /\ UNCHANGED <<retries, due, dispatched>>
  BY DEF OutboxInv, OutboxTypeOK, Publish, SweepAt
<1>2. sweep[p].todo \cap sweep[p].at = {} /\ \A x \in quiet : x \in sweep[p].todo => dispatched[x] = 0
  BY <1>1 DEF SweepInv, Orderly, Handled, Undispatched
<1>3. CASE /\ event' = [e \in Events |-> IF e \in sweep[p].at THEN "PUBLISHED" ELSE event[e]]
           /\ GoOn(p) /\ UNCHANGED quiet
  <2>1. /\ sweep' \in [Processes -> Sweep] /\ \A q \in Processes \ {p} : sweep'[q] = sweep[q]
        /\ sweep'[p].pc \in {"idle", "next"} /\ sweep'[p].at = {}
        /\ sweep'[p].todo \subseteq sweep[p].todo
        /\ sweep'[p].pc = "idle" => sweep'[p].todo = {}
    BY <1>1, <1>3, GoOnMoves
  <2>2. OutboxTypeOK'
    BY <1>1, <1>3, <2>1 DEF OutboxTypeOK, EventStatuses
  <2>3. Has(p)' = sweep'[p].todo /\ Undispatched(p)' = sweep'[p].todo /\ Has(p)' \subseteq Has(p)
    BY <2>1 DEF Has, Undispatched
  <2>4. \A e \in quiet' : event'[e] = IF e \in sweep[p].at THEN "PUBLISHED" ELSE event[e]
    BY <1>1, <1>3 DEF OutboxTypeOK
  <2>5. \A e \in quiet' : e \in Has(p) \ Has(p)' => event'[e] = "PUBLISHED" \/ dispatched[e] = 0
    BY <1>2, <1>3, <2>4 DEF Has
  <2> QED BY <1>1, <1>2, <1>3, <2>1, <2>2, <2>3, <2>4, <2>5, SweepKept
<1>4. CASE /\ SetSweep(p, [sweep[p] EXCEPT !.pc = "retry"])
           /\ quiet' = quiet \ sweep[p].at /\ UNCHANGED event
  <2>1. /\ sweep'[p] \in Sweep /\ sweep'[p].pc = "retry" /\ sweep'[p].at = sweep[p].at
        /\ sweep'[p].todo = sweep[p].todo /\ \A q \in Processes \ {p} : sweep'[q] = sweep[q]
        /\ sweep' \in [Processes -> Sweep]
    BY <1>1, <1>4 DEF SetSweep, OutboxTypeOK, Sweep
  <2>2. OutboxTypeOK'
    BY <1>1, <1>4, <2>1 DEF OutboxTypeOK
  <2>3. Has(p)' = Has(p) /\ Undispatched(p)' = sweep[p].todo
    BY <2>1 DEF Has, Undispatched
  <2> QED BY <1>1, <1>2, <1>4, <2>1, <2>2, <2>3, SweepKept
<1> QED BY <1>3, <1>4 DEF Publish

LEMMA RetryKept ==
    ASSUME OutboxInv, NEW p \in Processes, Retry(p)
    PROVE  OutboxInv'
<1>1. /\ OutboxTypeOK /\ SweepInv /\ sweep[p] \in Sweep /\ sweep[p].pc = "retry"
      /\ UNCHANGED <<dispatched, quiet>> /\ quiet \subseteq Events
  BY DEF OutboxInv, OutboxTypeOK, Retry, SweepAt
<1>2. /\ sweep[p].at \cap quiet = {}
      /\ \A x \in quiet : x \in sweep[p].todo => dispatched[x] = 0
  BY <1>1 DEF SweepInv, Orderly, Handled, Undispatched
<1>3. /\ sweep' \in [Processes -> Sweep] /\ \A q \in Processes \ {p} : sweep'[q] = sweep[q]
      /\ sweep'[p].pc \in {"idle", "next"} /\ sweep'[p].at = {}
      /\ sweep'[p].todo \subseteq sweep[p].todo
      /\ sweep'[p].pc = "idle" => sweep'[p].todo = {}
  BY <1>1, GoOnMoves DEF Retry
<1>4. /\ retries' \in [Events -> Nat] /\ event' \in [Events -> EventStatuses] /\ due' \in [Events -> BOOLEAN]
      /\ \A x \in quiet : event'[x] = event[x]
  <2>1. PICK e \in sweep[p].at :
           \/ /\ retries' = [retries EXCEPT ![e] = sweep[p].tries[e] + 1]
              /\ \E s \in {"FAILED", "PENDING"} : event' = [event EXCEPT ![e] = s]
              /\ due' = due \/ due' = [due EXCEPT ![e] = FALSE]
           \/ UNCHANGED <<retries, event, due>>
    <3>1. PICK e \in sweep[p].at :
           \/ LET tries == sweep[p].tries[e] + 1
              IN  /\ retries' = [retries EXCEPT ![e] = tries]
                  /\ event' = [event EXCEPT ![e] = IF tries >= MaxRetries THEN "FAILED" ELSE "PENDING"]
                  /\ due' = [due EXCEPT ![e] = IF tries >= MaxRetries THEN @ ELSE FALSE]
           \/ UNCHANGED <<retries, event, due>>
      BY DEF Retry
    <3>2. [due EXCEPT ![e] = @] = due
      BY <1>1 DEF OutboxTypeOK
    <3>3. CASE sweep[p].tries[e] + 1 >= MaxRetries
      BY <3>1, <3>2, <3>3
    <3>4. CASE ~(sweep[p].tries[e] + 1 >= MaxRetries)
      BY <3>1, <3>4
    <3> QED BY <3>3, <3>4
  <2>2. e \in Events /\ sweep[p].tries[e] + 1 \in Nat /\ e \notin quiet
    BY <1>1, <1>2 DEF Sweep
  <2> QED BY <1>1, <2>1, <2>2 DEF OutboxTypeOK, EventStatuses
<1>5. OutboxTypeOK'
  BY <1>1, <1>3, <1>4 DEF OutboxTypeOK
<1>6. Has(p)' = sweep'[p].todo /\ Undispatched(p)' = sweep'[p].todo /\ Has(p)' \subseteq Has(p)
  BY <1>3 DEF Has, Undispatched
<1>7. \A e \in quiet : e \in Has(p) => dispatched[e] = 0
  BY <1>2 DEF Has
<1> QED BY <1>1, <1>2, <1>3, <1>4, <1>5, <1>6, <1>7, SweepKept

LEMMA SweepDiesKept ==
    ASSUME OutboxInv, NEW p \in Processes, SweepDies(p)
    PROVE  OutboxInv'
<1>1. OutboxTypeOK /\ UNCHANGED <<event, retries, due, dispatched>> /\ quiet' = quiet \ Has(p)
  BY DEF OutboxInv, SweepDies, Has
<1>2. /\ sweep' \in [Processes -> Sweep] /\ \A q \in Processes \ {p} : sweep'[q] = sweep[q]
      /\ sweep'[p] = Resting
  BY <1>1, SweepType DEF SweepDies, SetSweep, OutboxTypeOK
<1>3. OutboxTypeOK'
  BY <1>1, <1>2 DEF OutboxTypeOK
<1>4. Has(p)' = {} /\ Undispatched(p)' = {} /\ sweep'[p].pc = "idle" /\ sweep'[p].todo = {} /\ sweep'[p].at = {}
  BY <1>2 DEF Has, Undispatched, Resting
<1> QED BY <1>1, <1>2, <1>3, <1>4, SweepKept

\* Storing an event, and the coming of its time, touch no sweep.
LEMMA EventKept ==
    ASSUME OutboxInv, NEW e \in Events, Enqueue(e) \/ Due(e)
    PROVE  OutboxInv'
<1>1. OutboxTypeOK /\ UNCHANGED <<retries, dispatched, sweep, quiet>>
  BY DEF OutboxInv, Enqueue, Due
<1>2. OutboxTypeOK'
  BY <1>1 DEF Enqueue, Due, OutboxTypeOK, EventStatuses
<1>3. \A x \in Events : event'[x] = event[x] \/ event[x] = "NONE"
  BY <1>1 DEF Enqueue, Due, OutboxTypeOK
<1>4. /\ \A q \in Processes : Has(q)' = Has(q) /\ Undispatched(q)' = Undispatched(q)
      /\ \A x \in Events : Swept(x)' = Swept(x)
  BY <1>1 DEF Has, Undispatched, Swept
<1>5. Orderly'
  BY <1>1, <1>4 DEF OutboxInv, SweepInv, Orderly
<1>6. \A x \in quiet' : Handled(x)'
  BY <1>1, <1>3, <1>4 DEF OutboxInv, SweepInv, Handled, OutboxTypeOK
<1> QED BY <1>2, <1>5, <1>6 DEF OutboxInv, SweepInv

LEMMA OutboxKept ==
    ASSUME OutboxInv, OutboxStep \/ (\E p \in Processes : SweepDies(p)) \/ UNCHANGED outboxVars
    PROVE  OutboxInv'
<1>1. CASE OutboxStep
  BY <1>1, StartSweepKept, ProcessKept, DispatchKept, PublishKept, RetryKept, EventKept
     DEF OutboxStep, SweepStep
<1>2. CASE \E p \in Processes : SweepDies(p)
  BY <1>2, SweepDiesKept
<1>3. CASE UNCHANGED outboxVars
  BY <1>3 DEF outboxVars, OutboxInv, OutboxTypeOK, SweepInv, Orderly, Handled, Has, Undispatched, Swept
<1> QED BY <1>1, <1>2, <1>3

\* Publishing and giving up come after the dispatch.
LEMMA SentKept ==
    ASSUME OutboxTypeOK, SentInv,
           OutboxStep \/ (\E p \in Processes : SweepDies(p)) \/ UNCHANGED outboxVars
    PROVE  SentInv'
<1>0. /\ sweep \in [Processes -> Sweep] /\ event \in [Events -> EventStatuses]
      /\ dispatched \in [Events -> Nat] /\ \A p \in Processes : sweep[p].at \subseteq Events
  BY DEF OutboxTypeOK, Sweep
<1>1. ASSUME NEW p \in Processes, UNCHANGED dispatched,
             \A q \in Processes \ {p} : sweep'[q] = sweep[q],
             sweep'[p].pc \in {"publish", "retry"} =>
                 sweep[p].pc \in {"publish", "retry"} /\ sweep'[p].at = sweep[p].at,
             \A e \in Events : event'[e] \in {"PUBLISHED", "FAILED"} =>
                 dispatched[e] > 0 \/ event[e] \in {"PUBLISHED", "FAILED"}
      PROVE  SentInv'
  BY <1>1 DEF SentInv
<1>2. ASSUME NEW p \in Processes, StartSweep(p) PROVE SentInv'
  <2>1. sweep'[p].pc = "next" /\ \A q \in Processes \ {p} : sweep'[q] = sweep[q]
    BY <1>0, <1>2 DEF StartSweep, SetSweep
  <2> QED BY <1>1, <1>2, <2>1 DEF StartSweep
<1>3. ASSUME NEW p \in Processes, Process(p) PROVE SentInv'
  <2>1. PICK e \in sweep[p].todo :
           /\ SetSweep(p, [sweep[p] EXCEPT !.pc = "dispatch", !.todo = @ \ {e}, !.at = {e}])
           /\ \/ event' = [event EXCEPT ![e] = IF sweep[p].seen[e] = "PROCESSING" THEN @
                                                ELSE "PROCESSING"]
              \/ UNCHANGED event
    BY <1>3 DEF Process
  <2>2. sweep'[p].pc = "dispatch" /\ \A q \in Processes \ {p} : sweep'[q] = sweep[q]
    BY <1>0, <2>1 DEF SetSweep, Sweep
  <2>3. \A x \in Events : event'[x] = event[x] \/ event'[x] = "PROCESSING"
    BY <1>0, <2>1
  <2> QED BY <1>1, <1>3, <2>2, <2>3 DEF Process
<1>4. ASSUME NEW p \in Processes, Dispatch(p) PROVE SentInv'
  <2>1. \A e \in Events : (dispatched[e] > 0 \/ e \in sweep[p].at) => dispatched'[e] > 0
    BY <1>0, <1>4 DEF Dispatch
  <2>2. sweep'[p].at = sweep[p].at /\ \A q \in Processes \ {p} : sweep'[q] = sweep[q]
    BY <1>0, <1>4 DEF Dispatch, SetSweep, Sweep
  <2> QED BY <1>0, <1>4, <2>1, <2>2 DEF Dispatch, SentInv
<1>5. ASSUME NEW p \in Processes, Publish(p) PROVE SentInv'
  <2>1. \A e \in sweep[p].at : dispatched[e] > 0
    BY <1>5 DEF SentInv, Publish, SweepAt
  <2>2. CASE /\ event' = [e \in Events |-> IF e \in sweep[p].at THEN "PUBLISHED" ELSE event[e]]
             /\ GoOn(p)
    <3>1. sweep'[p].pc \in {"idle", "next"} /\ \A q \in Processes \ {p} : sweep'[q] = sweep[q]
      BY <2>2, GoOnMoves
    <3> QED BY <1>1, <1>5, <2>1, <2>2, <3>1 DEF Publish
  <2>3. CASE SetSweep(p, [sweep[p] EXCEPT !.pc = "retry"]) /\ UNCHANGED event
    <3>1. sweep'[p].at = sweep[p].at /\ \A q \in Processes \ {p} : sweep'[q] = sweep[q]
      BY <1>0, <2>3 DEF SetSweep, Sweep
    <3> QED BY <1>1, <1>5, <2>3, <3>1 DEF Publish, SweepAt
  <2> QED BY <1>5, <2>2, <2>3 DEF Publish
<1>6. ASSUME NEW p \in Processes, Retry(p) PROVE SentInv'
  <2>1. sweep'[p].pc \in {"idle", "next"} /\ \A q \in Processes \ {p} : sweep'[q] = sweep[q]
    BY <1>6, GoOnMoves DEF Retry
  <2>2. PICK e \in sweep[p].at :
           event' = event \/ \E s \in {"FAILED", "PENDING"} : event' = [event EXCEPT ![e] = s]
    <3>1. PICK e \in sweep[p].at :
             \/ event' = [event EXCEPT ![e] = IF sweep[p].tries[e] + 1 >= MaxRetries THEN "FAILED"
                                              ELSE "PENDING"]
             \/ UNCHANGED event
      BY <1>6 DEF Retry
    <3>2. CASE sweep[p].tries[e] + 1 >= MaxRetries
      BY <3>1, <3>2
    <3>3. CASE ~(sweep[p].tries[e] + 1 >= MaxRetries)
      BY <3>1, <3>3
    <3> QED BY <3>2, <3>3
  <2>3. dispatched[e] > 0
    BY <1>6, <2>2 DEF SentInv, Retry, SweepAt
  <2>4. \A x \in Events : event'[x] = event[x] \/ x = e
    BY <1>0, <2>2
  <2> QED BY <1>1, <1>6, <2>1, <2>3, <2>4 DEF Retry
<1>7. ASSUME NEW p \in Processes, SweepDies(p) PROVE SentInv'
  <2>1. sweep'[p].pc = "idle" /\ \A q \in Processes \ {p} : sweep'[q] = sweep[q]
    BY <1>0, <1>7, GoOnMoves DEF SweepDies, SetSweep, Resting
  <2> QED BY <1>1, <1>7, <2>1 DEF SweepDies
<1>8. ASSUME NEW e \in Events, Enqueue(e) \/ Due(e) PROVE SentInv'
  <2>1. \A x \in Events : event'[x] = event[x] \/ event'[x] = "PENDING"
    BY <1>0, <1>8 DEF Enqueue, Due
  <2> QED BY <1>8, <2>1 DEF Enqueue, Due, SentInv
<1>9. CASE UNCHANGED outboxVars
  BY <1>9 DEF outboxVars, SentInv
<1> QED BY <1>2, <1>3, <1>4, <1>5, <1>6, <1>7, <1>8, <1>9 DEF OutboxStep, SweepStep

-----------------------------------------------------------------------------
(* The e-mail queue                                                        *)

LEMMA EmailStart == EmailInit => EmailInv
<1> SUFFICES ASSUME EmailInit PROVE EmailInv
  OBVIOUS
<1>1. (CHOOSE p \in Processes : TRUE) \in Processes
  BY ServerProcessAssumption
<1>2. EmailTypeOK
  BY <1>1 DEF EmailInit, EmailTypeOK, Places
<1>3. Backed
  BY DEF EmailInit, Backed
<1>4. KeyInv
  BY DEF EmailInit, KeyInv, Once, Busy
<1> QED BY <1>2, <1>3, <1>4 DEF EmailInv

\* A job that is not at work and not suppressed
Aside(j) == place[j] \in {"new", "queue", "memory", "lost"}

\* The other jobs stay as they are, or aside.
Beside(j) ==
    \A i \in Jobs \ {j} : (place'[i] = place[i] /\ home'[i] = home[i]) \/ (Aside(i) /\ Aside(i)')

\* What the e-mails of the other keys rely on: the job that moves is not one of theirs.
LEMMA OtherKeys ==
    ASSUME EmailTypeOK, NEW j \in Jobs, NEW k \in EmailKeys, k # KeyOf[j], Once(k), connected' = connected,
           Beside(j),
           sent'[k] = sent[k], lapsed'[k] = lapsed[k], k \in stored <=> k \in stored',
           \A p \in Processes : k \in cached[p] <=> k \in cached'[p]
    PROVE  Once(k)'
<1>1. Unmarked(k)' = Unmarked(k) /\ \A i \in Unmarked(k) : home'[i] = home[i]
  BY DEF Unmarked, Beside, Aside
<1>2. Offline(k)' <=> Offline(k)
  BY <1>1 DEF Offline
<1>3. \A i \in Jobs : KeyOf[i] = k =>
         /\ Busy(i)' <=> Busy(i)
         /\ place'[i] = "send" => place[i] = "send" /\ home'[i] = home[i]
  BY DEF Beside, Aside, Busy
<1> QED BY <1>1, <1>2, <1>3 DEF Once

\* A step of one job keeps the invariant if it does so for the key of the job.
LEMMA JobKept ==
    ASSUME EmailInv, EmailTypeOK', NEW j \in Jobs, connected' = connected, Beside(j),
           lapsed' = lapsed,
           \A k \in EmailKeys \ {KeyOf[j]} : sent'[k] = sent[k],
           sent'[KeyOf[j]] >= sent[KeyOf[j]],
           stored' \in {stored, stored \cup {KeyOf[j]}},
           \A p \in Processes : mirror'[p] \in {mirror[p], mirror[p] \cup {KeyOf[j]}},
           \A p \in Processes : cached'[p] \in {cached[p], cached[p] \cup {KeyOf[j]}},
           apart' \subseteq apart,
           \/ place'[j] \in {"log", "mark", "duplicate"}
           \/ stored' # stored
           \/ \E p \in Processes : mirror'[p] # mirror[p]
           \/ \E p \in Processes : cached'[p] # cached[p]
           => sent'[KeyOf[j]] > 0,
           KeyOf[j] \in apart' => Once(KeyOf[j])'
    PROVE  EmailInv'
<1>1. EmailTypeOK /\ Backed /\ KeyInv /\ KeyOf \in [Jobs -> EmailKeys]
  BY EmailAssumption DEF EmailInv
<1>2. \A k \in EmailKeys : sent[k] \in Nat /\ sent'[k] \in Nat /\ sent'[k] >= sent[k]
  BY <1>1 DEF EmailTypeOK
<1>3. Backed'
  <2>1. \A k \in stored' : sent'[k] > 0
    BY <1>1, <1>2 DEF Backed, EmailTypeOK
  <2>2. \A p \in Processes : \A k \in mirror'[p] \cup cached'[p] : sent'[k] > 0
    <3> SUFFICES ASSUME NEW p \in Processes, NEW k \in mirror'[p] \cup cached'[p] PROVE sent'[k] > 0
      OBVIOUS
    <3>1. CASE k \in mirror[p] \cup cached[p]
      <4>1. k \in EmailKeys
        BY <1>1, <3>1 DEF EmailTypeOK
      <4> QED BY <1>1, <1>2, <3>1, <4>1 DEF Backed
    <3>2. CASE k \notin mirror[p] \cup cached[p]
      BY <3>2
    <3> QED BY <3>1, <3>2
  <2>3. \A i \in Jobs : place'[i] \in {"log", "mark", "duplicate"} => sent'[KeyOf[i]] > 0
    BY <1>1, <1>2 DEF Backed, Beside, Aside
  <2> QED BY <2>1, <2>2, <2>3 DEF Backed
<1>4. ASSUME NEW k \in apart' PROVE Once(k)'
  <2>1. k \in EmailKeys /\ Once(k)
    BY <1>1, <1>4 DEF KeyInv, EmailTypeOK
  <2>2. CASE k = KeyOf[j]
    BY <1>4, <2>2
  <2>3. CASE k # KeyOf[j]
    <3>1. \A p \in Processes : k \in cached[p] <=> k \in cached'[p]
      BY <2>3
    <3> QED BY <1>1, <2>1, <2>3, <3>1, OtherKeys
  <2> QED BY <2>2, <2>3
<1> QED BY <1>3, <1>4 DEF EmailInv, KeyInv

LEMMA MoveType ==
    ASSUME EmailTypeOK, NEW j \in Jobs, NEW step \in Places, Move(j, step)
    PROVE  /\ place' \in [Jobs -> Places] /\ place'[j] = step
           /\ \A i \in Jobs \ {j} : place'[i] = place[i]
  BY DEF Move, EmailTypeOK

\* enqueue: the job is no longer at work in a process, and neither is a copy of it.
LEMMA PushKept ==
    ASSUME EmailInv, NEW j \in Jobs, NEW p \in Processes, place[j] \in {"new", "waiting"}, Push(j, p)
    PROVE  EmailInv'
<1>1. EmailTypeOK /\ KeyInv /\ UNCHANGED <<connected, stored, mirror, cached, lapsed, sent, apart>>
  BY DEF EmailInv, Push, keyVars
<1>2. /\ place' \in [Jobs -> Places] /\ place'[j] \in {"queue", "memory"}
      /\ home' \in [Jobs -> Processes]
      /\ \A i \in Jobs \ {j} :
            \/ place'[i] = place[i] /\ home'[i] = home[i]
            \/ place[i] = "new" /\ place'[i] = "memory"
  <2>1. ASSUME NEW step \in {"queue", "memory"}, Move(j, step), home' = [home EXCEPT ![j] = p]
        PROVE  <1>2!:
    BY <1>1, <2>1, MoveType DEF EmailTypeOK, Places, InProcess
  <2>2. ASSUME NEW i \in Jobs \ {j}, place[i] = "new",
               place' = [place EXCEPT ![j] = "queue", ![i] = "memory"],
               home' = [home EXCEPT ![j] = p, ![i] = p]
        PROVE  <1>2!:
    BY <1>1, <2>2 DEF EmailTypeOK, Places, InProcess
  <2> QED BY <2>1, <2>2 DEF Push
<1>3. EmailTypeOK'
  BY <1>1, <1>2 DEF EmailTypeOK
<1>4. Beside(j)
  BY <1>2 DEF Beside, Aside
<1>5. ASSUME KeyOf[j] \in apart' PROVE Once(KeyOf[j])'
  <2> PICK k : k = KeyOf[j]
    OBVIOUS
  <2>1. /\ Once(k)
        /\ \A i \in Jobs : /\ Busy(i)' <=> Busy(i)
                           /\ place'[i] = "send" => place[i] = "send" /\ home'[i] = home[i]
    BY <1>1, <1>2, <1>5 DEF KeyInv, Busy
  <2>2. Unmarked(k)' = Unmarked(k) /\ \A i \in Unmarked(k) : home'[i] = home[i]
    BY <1>2 DEF Unmarked
  <2>3. Offline(k)' <=> Offline(k)
    BY <1>1, <2>2 DEF Offline
  <2> QED BY <1>1, <2>1, <2>2, <2>3 DEF Once
<1>6. KeyOf[j] \in EmailKeys /\ sent[KeyOf[j]] \in Nat
  BY <1>1, EmailAssumption DEF EmailTypeOK
<1> QED BY <1>1, <1>2, <1>3, <1>4, <1>5, <1>6, JobKept

\* dequeue: a job that joins another of its key at work is not apart any more.
LEMMA JoinKept ==
    ASSUME EmailInv, NEW j \in Jobs, place[j] \in {"queue", "memory"}, Move(j, "check"), Join(j),
           home' \in [Jobs -> Processes], \A i \in Jobs \ {j} : home'[i] = home[i],
           UNCHANGED <<connected, keyVars, sent>>
    PROVE  EmailInv'
<1>1. /\ EmailTypeOK /\ KeyInv /\ UNCHANGED <<connected, stored, mirror, cached, lapsed, sent>>
      /\ apart' \subseteq apart
      /\ KeyOf[j] \in apart' => \A i \in Jobs \ {j} : KeyOf[i] = KeyOf[j] => ~Busy(i)
  BY DEF EmailInv, Join, keyVars
<1>2. /\ place' \in [Jobs -> Places] /\ place'[j] = "check"
      /\ \A i \in Jobs \ {j} : place'[i] = place[i]
  BY <1>1, MoveType DEF Places, InProcess
<1>3. EmailTypeOK' /\ Beside(j)
  BY <1>1, <1>2 DEF EmailTypeOK, Beside
<1>4. ASSUME KeyOf[j] \in apart' PROVE Once(KeyOf[j])'
  <2> PICK k : k = KeyOf[j]
    OBVIOUS
  <2>1. Once(k) /\ \A i \in Jobs \ {j} : KeyOf[i] = k => ~Busy(i)'
    BY <1>1, <1>2, <1>4 DEF KeyInv, Busy
  <2>2. Unmarked(k)' = Unmarked(k) /\ \A i \in Unmarked(k) : home'[i] = home[i]
    BY <1>1, <1>2 DEF Unmarked
  <2>3. Offline(k)' <=> Offline(k)
    BY <1>1, <2>2 DEF Offline
  <2> QED BY <1>1, <1>2, <2>1, <2>2, <2>3 DEF Once
<1>5. KeyOf[j] \in EmailKeys /\ sent[KeyOf[j]] \in Nat
  BY <1>1, EmailAssumption DEF EmailTypeOK
<1> QED BY <1>1, <1>2, <1>3, <1>4, <1>5, JobKept

LEMMA TakeKept ==
    ASSUME EmailInv, NEW j \in Jobs, NEW p \in Processes, Take(j, p)
    PROVE  EmailInv'
<1>1. home' \in [Jobs -> Processes] /\ \A i \in Jobs \ {j} : home'[i] = home[i]
  BY DEF Take, EmailInv, EmailTypeOK
<1> QED BY <1>1, JoinKept DEF Take, JobAt

\* A job that Redis has taken out and not delivered is at work nowhere.
LEMMA PopFailsKept ==
    ASSUME EmailInv, NEW p \in Processes, PopFails(p)
    PROVE  EmailInv'
<1>1. EmailTypeOK /\ KeyInv /\ UNCHANGED <<connected, stored, mirror, cached, lapsed, sent>>
  BY DEF EmailInv, PopFails, keyVars
<1>2. ASSUME NEW j \in Jobs, place[j] = "queue", Move(j, "lost"), UNCHANGED <<home, apart>>
      PROVE  EmailInv'
  <2>1. /\ place' \in [Jobs -> Places] /\ place'[j] = "lost"
        /\ \A i \in Jobs \ {j} : place'[i] = place[i]
    BY <1>1, <1>2, MoveType DEF Places
  <2>2. EmailTypeOK' /\ Beside(j)
    BY <1>1, <1>2, <2>1 DEF EmailTypeOK, Beside
  <2>3. ASSUME KeyOf[j] \in apart PROVE Once(KeyOf[j])'
    <3> PICK k : k = KeyOf[j]
      OBVIOUS
    <3>1. Once(k) /\ \A i \in Jobs : Busy(i)' <=> Busy(i)
      BY <1>1, <1>2, <2>1, <2>3 DEF KeyInv, Busy
    <3>2. Unmarked(k)' = Unmarked(k) /\ \A i \in Unmarked(k) : home'[i] = home[i]
      BY <1>2, <2>1 DEF Unmarked
    <3>3. Offline(k)' <=> Offline(k)
      BY <1>1, <3>2 DEF Offline
    <3> QED BY <1>1, <1>2, <2>1, <3>1, <3>2, <3>3 DEF Once
  <2>4. KeyOf[j] \in EmailKeys /\ sent[KeyOf[j]] \in Nat
    BY <1>1, EmailAssumption DEF EmailTypeOK
  <2> QED BY <1>1, <1>2, <2>1, <2>2, <2>3, <2>4, JobKept
<1>3. ASSUME NEW j \in Jobs, JobAt(j, p, "memory"), Move(j, "check"), Join(j), UNCHANGED home
      PROVE  EmailInv'
  BY <1>1, <1>3, JoinKept DEF JobAt, EmailTypeOK, PopFails
<1> QED BY <1>2, <1>3 DEF PopFails

\* What is at work with the key of a job at work, if that is apart
LEMMA AloneAtWork ==
    ASSUME EmailInv, NEW j \in Jobs, Busy(j), KeyOf[j] \in apart
    PROVE  /\ Once(KeyOf[j]) /\ \A i \in Jobs \ {j} : KeyOf[i] = KeyOf[j] => ~Busy(i)
           /\ Unmarked(KeyOf[j]) = IF place[j] \in {"log", "mark"} THEN {j} ELSE {}
<1>1. Once(KeyOf[j]) /\ \A i \in Jobs \ {j} : KeyOf[i] = KeyOf[j] => ~Busy(i)
  BY DEF EmailInv, KeyInv, Once
<1> QED BY <1>1 DEF Unmarked, Busy

\* checkIdempotency: a key that is not stored in Redis was not sent, if it is apart.
LEMMA CheckKept ==
    ASSUME EmailInv, NEW j \in Jobs, NEW p \in Processes, Check(j, p)
    PROVE  EmailInv'
<1> PICK k : k = KeyOf[j]
  OBVIOUS
<1>1. /\ EmailTypeOK /\ Backed /\ UNCHANGED <<connected, home, stored, mirror, cached, lapsed, sent>>
      /\ place[j] = "check" /\ home[j] = p /\ k \in EmailKeys
      /\ sent[k] \in Nat /\ lapsed[k] \in Nat /\ apart' \subseteq apart
  BY EmailAssumption DEF EmailInv, EmailTypeOK, Check, JobAt, Keep, keyVars
<1>2. PICK step \in {"duplicate", "send"} :
         /\ Move(j, step) /\ step \in Places
         /\ step = "duplicate" => k \in KnownTo(p) \cup mirror[p]
         /\ k \in apart' => step = IF k \in KnownTo(p) THEN "duplicate" ELSE "send"
  BY DEF Check, Places, InProcess
<1>3. /\ place' \in [Jobs -> Places] /\ place'[j] = step
      /\ \A i \in Jobs \ {j} : place'[i] = place[i]
  BY <1>1, <1>2, MoveType
<1>4. EmailTypeOK' /\ Beside(j)
  BY <1>1, <1>3 DEF EmailTypeOK, Beside
<1>5. step = "duplicate" => sent[k] > 0
  BY <1>1, <1>2 DEF KnownTo, Backed
<1>6. ASSUME k \in apart' PROVE Once(k)'
  <2>1. /\ Once(k) /\ (\A i \in Jobs \ {j} : KeyOf[i] = k => ~Busy(i)) /\ Unmarked(k) = {}
    BY <1>1, <1>6, AloneAtWork DEF Busy
  <2>2. Unmarked(k)' = {} /\ \A i \in Jobs \ {j} : KeyOf[i] = k => ~Busy(i)'
    BY <1>3, <2>1 DEF Unmarked, Busy
  <2>3. Offline(k)' <=> Offline(k)
    BY <1>1, <2>1, <2>2 DEF Offline
  <2>4. ASSUME ~Offline(k), place'[j] = "send", p \in connected PROVE sent[k] <= lapsed[k]
    BY <1>1, <1>2, <1>3, <1>6, <2>1, <2>4 DEF Once, KnownTo
  <2> QED BY <1>1, <1>3, <2>1, <2>2, <2>3, <2>4 DEF Once, Busy
<1> QED BY <1>1, <1>3, <1>4, <1>5, <1>6, JobKept

\* The e-mail goes out: it is the first of its key, unless a process without Redis sends.
LEMMA SendKept ==
    ASSUME EmailInv, NEW j \in Jobs, NEW p \in Processes, Send(j, p)
    PROVE  EmailInv'
<1> PICK k : k = KeyOf[j]
  OBVIOUS
<1>1. /\ EmailTypeOK /\ UNCHANGED <<connected, home, stored, mirror, cached, lapsed>>
      /\ place[j] = "send" /\ home[j] = p /\ k \in EmailKeys
      /\ sent[k] \in Nat /\ lapsed[k] \in Nat /\ apart' \subseteq apart
  BY EmailAssumption DEF EmailInv, EmailTypeOK, Send, JobAt, Keep, keyVars
<1>2. /\ sent' \in {sent, [sent EXCEPT ![k] = @ + 1]}
      /\ \/ Move(j, "log") /\ sent' = [sent EXCEPT ![k] = @ + 1]
         \/ Move(j, "fail") /\ (k \in apart' => sent' = sent)
  BY DEF Send
<1>3. /\ sent' \in [EmailKeys -> Nat] /\ sent'[k] \in {sent[k], sent[k] + 1}
      /\ \A x \in EmailKeys \ {k} : sent'[x] = sent[x]
  BY <1>1, <1>2 DEF EmailTypeOK
<1>4. /\ place' \in [Jobs -> Places] /\ place'[j] \in {"log", "fail"}
      /\ \A i \in Jobs \ {j} : place'[i] = place[i]
      /\ place'[j] = "log" => sent'[k] = sent[k] + 1
      /\ place'[j] = "fail" /\ k \in apart' => sent'[k] = sent[k]
  BY <1>1, <1>2, MoveType DEF Places, InProcess, EmailTypeOK
<1>5. EmailTypeOK' /\ Beside(j)
  BY <1>1, <1>3, <1>4 DEF EmailTypeOK, Beside
<1>6. ASSUME k \in apart' PROVE Once(k)'
  <2>1. /\ Once(k) /\ (\A i \in Jobs \ {j} : KeyOf[i] = k => ~Busy(i)) /\ Unmarked(k) = {}
    BY <1>1, <1>6, AloneAtWork DEF Busy
  <2>2. \A i \in Jobs \ {j} : KeyOf[i] = k => ~Busy(i)' /\ place'[i] # "send"
    BY <1>4, <2>1 DEF Busy
  <2>3. CASE place'[j] = "log"
    <3>1. Unmarked(k)' = {j}
      BY <1>4, <2>2, <2>3 DEF Unmarked, Busy
    <3>2. ~Offline(k)' => p \in connected /\ ~Offline(k)
      BY <1>1, <2>1, <3>1 DEF Offline
    <3>3. ~Offline(k)' => sent[k] <= lapsed[k]
      BY <1>1, <2>1, <3>2 DEF Once
    <3> QED BY <1>1, <1>4, <2>2, <2>3, <3>1, <3>3 DEF Once
  <2>4. CASE place'[j] = "fail"
    <3>1. Unmarked(k)' = {}
      BY <1>4, <2>2, <2>4 DEF Unmarked, Busy
    <3>2. ~Offline(k)' => ~Offline(k)
      BY <1>1, <2>1, <3>1 DEF Offline
    <3> QED BY <1>1, <1>4, <1>6, <2>1, <2>2, <2>4, <3>1, <3>2 DEF Once, Busy
  <2> QED BY <1>4, <2>3, <2>4
<1> QED BY <1>1, <1>3, <1>4, <1>5, <1>6, JobKept

LEMMA LogKept ==
    ASSUME EmailInv, NEW j \in Jobs, NEW p \in Processes, Log(j, p)
    PROVE  EmailInv'
<1> PICK k : k = KeyOf[j]
  OBVIOUS
<1>1. /\ EmailTypeOK /\ Backed /\ UNCHANGED <<connected, home, stored, mirror, cached, lapsed, sent>>
      /\ place[j] = "log" /\ k \in EmailKeys /\ sent[k] \in Nat /\ sent[k] > 0
      /\ apart' \subseteq apart
  BY EmailAssumption DEF EmailInv, EmailTypeOK, Backed, Log, JobAt, Keep, keyVars
<1>2. Move(j, "mark") \/ (Move(j, "fail") /\ k \notin apart')
  BY DEF Log
<1>3. /\ place' \in [Jobs -> Places] /\ \A i \in Jobs \ {j} : place'[i] = place[i]
      /\ place'[j] = "mark" \/ (place'[j] = "fail" /\ k \notin apart')
  BY <1>1, <1>2, MoveType DEF Places, InProcess
<1>4. EmailTypeOK' /\ Beside(j)
  BY <1>1, <1>3 DEF EmailTypeOK, Beside
<1>5. ASSUME k \in apart' PROVE Once(k)'
  <2>1. Once(k) /\ place'[j] = "mark"
    BY <1>1, <1>3, <1>5 DEF EmailInv, KeyInv
  <2>2. Unmarked(k)' = Unmarked(k) /\ \A i \in Jobs : Busy(i)' <=> Busy(i)
    BY <1>1, <1>3, <2>1 DEF Unmarked, Busy
  <2>3. Offline(k)' <=> Offline(k)
    BY <1>1, <2>2 DEF Offline
  <2> QED BY <1>1, <1>3, <2>1, <2>2, <2>3 DEF Once
<1> QED BY <1>1, <1>3, <1>4, <1>5, JobKept

\* markIdempotent: the key is known where the job was handled.
LEMMA MarkKept ==
    ASSUME EmailInv, NEW j \in Jobs, NEW p \in Processes, Mark(j, p)
    PROVE  EmailInv'
<1> PICK k : k = KeyOf[j]
  OBVIOUS
<1>1. /\ EmailTypeOK /\ Backed /\ UNCHANGED <<connected, home, lapsed, sent>> /\ apart' \subseteq apart
      /\ place[j] = "mark" /\ home[j] = p /\ k \in EmailKeys /\ sent[k] \in Nat /\ sent[k] > 0
  BY EmailAssumption DEF EmailInv, EmailTypeOK, Backed, Mark, JobAt, Store
<1>2. Move(j, "sent") /\ "sent" \in Places
  BY DEF Mark, Places
<1>3. /\ place' \in [Jobs -> Places] /\ place'[j] = "sent"
      /\ \A i \in Jobs \ {j} : place'[i] = place[i]
  BY <1>1, <1>2, MoveType
<1>4. \/ /\ p \in connected /\ stored' = stored \cup {k} /\ cached' = cached
         /\ mirror' = [mirror EXCEPT ![p] = @ \cup {k}]
      \/ /\ p \notin connected /\ stored' = stored /\ cached' = [cached EXCEPT ![p] = @ \cup {k}]
         /\ mirror' = mirror
      \/ /\ p \in connected /\ k \notin apart' /\ stored' = stored /\ cached' = cached
         /\ mirror' = [mirror EXCEPT ![p] = @ \cup {k}]
  BY DEF Mark, Store
<1>5. /\ stored' \in {stored, stored \cup {k}} /\ cached' \in [Processes -> SUBSET EmailKeys]
      /\ mirror' \in [Processes -> SUBSET EmailKeys]
      /\ \A q \in Processes : mirror'[q] \in {mirror[q], mirror[q] \cup {k}}
      /\ \A q \in Processes : cached'[q] \in {cached[q], cached[q] \cup {k}}
      /\ p \notin connected => k \in cached'[p]
  BY <1>1, <1>4 DEF EmailTypeOK
<1>6. EmailTypeOK' /\ Beside(j)
  BY <1>1, <1>3, <1>5 DEF EmailTypeOK, Beside
<1>7. ASSUME k \in apart' PROVE Once(k)'
  <2>1. /\ Once(k) /\ (\A i \in Jobs \ {j} : KeyOf[i] = k => ~Busy(i)) /\ Unmarked(k) = {j}
    BY <1>1, <1>7, AloneAtWork DEF Busy
  <2>2. \A i \in Jobs : KeyOf[i] = k => ~Busy(i)' /\ place'[i] # "send"
    BY <1>3, <2>1 DEF Busy
  <2>3. ~Offline(k)' => p \in connected /\ ~Offline(k) /\ k \in stored'
    BY <1>1, <1>4, <1>5, <1>7, <2>1 DEF Offline
  <2> QED BY <1>1, <2>1, <2>2, <2>3 DEF Once
<1> QED BY <1>1, <1>3, <1>5, <1>6, <1>7, JobKept

LEMMA FailKept ==
    ASSUME EmailInv, NEW j \in Jobs, NEW p \in Processes, Fail(j, p)
    PROVE  EmailInv'
<1> PICK k : k = KeyOf[j]
  OBVIOUS
<1>1. /\ EmailTypeOK /\ UNCHANGED <<connected, home, stored, mirror, cached, lapsed, sent, apart>>
      /\ place[j] = "fail" /\ k \in EmailKeys /\ sent[k] \in Nat
  BY EmailAssumption DEF EmailInv, EmailTypeOK, Fail, JobAt, Keep, keyVars
<1>2. /\ place' \in [Jobs -> Places] /\ place'[j] \in {"waiting", "dead"}
      /\ \A i \in Jobs \ {j} : place'[i] = place[i]
  BY <1>1, MoveType DEF Fail, Places, InProcess
<1>3. EmailTypeOK' /\ Beside(j)
  BY <1>1, <1>2 DEF EmailTypeOK, Beside
<1>4. ASSUME k \in apart' PROVE Once(k)'
  <2>1. Once(k)
    BY <1>1, <1>4 DEF EmailInv, KeyInv
  <2>2. Unmarked(k)' = Unmarked(k) /\ \A i \in Jobs : Busy(i)' <=> Busy(i)
    BY <1>1, <1>2 DEF Unmarked, Busy
  <2>3. Offline(k)' <=> Offline(k)
    BY <1>1, <2>2 DEF Offline
  <2> QED BY <1>1, <1>2, <2>1, <2>2, <2>3 DEF Once
<1> QED BY <1>1, <1>2, <1>3, <1>4, JobKept

\* A process that dies takes along what only it knew, and the keys of that with it.
LEMMA EmailsDieKept ==
    ASSUME EmailInv, NEW p \in Processes, EmailsDie(p)
    PROVE  EmailInv'
<1> DEFINE dying == {j \in Jobs : home[j] = p /\ place[j] \in InProcess}
<1>1. /\ EmailTypeOK /\ Backed /\ KeyInv /\ UNCHANGED <<home, stored, lapsed, sent>>
      /\ mirror' = [mirror EXCEPT ![p] = {}]
      /\ place' = [j \in Jobs |-> IF j \in dying THEN "lost" ELSE place[j]]
      /\ apart' = apart \ (cached[p] \cup {KeyOf[j] : j \in dying})
      /\ cached' = [cached EXCEPT ![p] = {}]
      /\ connected' \in {connected \cup {p}, connected \ {p}}
  BY DEF EmailInv, EmailsDie
<1>2. EmailTypeOK'
  BY <1>1 DEF EmailTypeOK, Places
<1>3. /\ \A j \in Jobs : place'[j] = place[j] \/ place'[j] = "lost"
      /\ \A q \in Processes : cached'[q] = IF q = p THEN {} ELSE cached[q]
      /\ \A q \in Processes : mirror'[q] = IF q = p THEN {} ELSE mirror[q]
  BY <1>1 DEF EmailTypeOK
<1>4. Backed'
  BY <1>1, <1>3 DEF Backed
<1>5. ASSUME NEW k \in apart' PROVE Once(k)'
  <2>1. Once(k) /\ k \notin cached[p] /\ \A j \in Jobs : KeyOf[j] = k => j \notin dying
    BY <1>1, <1>5 DEF KeyInv
  <2>2. \A j \in Jobs : KeyOf[j] = k => place'[j] = place[j]
    BY <1>1, <2>1
  <2>3. Unmarked(k)' = Unmarked(k)
    BY <2>2 DEF Unmarked
  <2>4. \A j \in Jobs : KeyOf[j] = k /\ (Busy(j) \/ j \in Unmarked(k)) => home[j] # p
    BY <2>1 DEF Busy, Unmarked, InProcess
  <2>5. Offline(k) => Offline(k)'
    <3> SUFFICES ASSUME Offline(k) PROVE Offline(k)'
      OBVIOUS
    <3>1. PICK q \in Processes \ connected :
             k \in cached[q] \/ \E j \in Unmarked(k) : home[j] = q
      BY DEF Offline
    <3>2. q # p
      BY <2>1, <2>4, <3>1 DEF Unmarked
    <3>3. q \in Processes \ connected'
      BY <1>1, <3>1, <3>2
    <3> QED BY <1>1, <1>3, <2>3, <3>1, <3>2, <3>3 DEF Offline
  <2>6. \A j \in Jobs : KeyOf[j] = k /\ place'[j] = "send" /\ home'[j] \in connected'
           => place[j] = "send" /\ home[j] \in connected
    BY <1>1, <2>2, <2>4 DEF Busy
  <2>7. \A i \in Jobs : KeyOf[i] = k => (Busy(i)' <=> Busy(i))
    BY <2>2 DEF Busy
  <2> QED BY <1>1, <2>1, <2>3, <2>5, <2>6, <2>7 DEF Once
<1> QED BY <1>2, <1>4, <1>5 DEF EmailInv, KeyInv

\* A key that lapses is new again, and has been sent once less than it may be.
LEMMA LapseKept ==
    ASSUME EmailInv, NEW k \in EmailKeys, Lapse(k)
    PROVE  EmailInv'
<1>1. /\ EmailTypeOK /\ Backed /\ KeyInv
      /\ UNCHANGED <<connected, place, home, mirror, cached, sent, apart>>
      /\ k \in stored /\ stored' = stored \ {k} /\ lapsed' = [lapsed EXCEPT ![k] = @ + 1]
  BY DEF EmailInv, Lapse
<1>2. EmailTypeOK' /\ Backed'
  BY <1>1 DEF EmailTypeOK, Backed
<1>3. ASSUME NEW x \in apart' PROVE Once(x)'
  <2>1. /\ Once(x) /\ x \in EmailKeys /\ sent[x] \in Nat /\ lapsed[x] \in Nat
        /\ lapsed'[x] = (IF x = k THEN lapsed[x] + 1 ELSE lapsed[x])
        /\ x # k => (x \in stored' <=> x \in stored)
    BY <1>1, <1>3 DEF KeyInv, EmailTypeOK
  <2>2. Unmarked(x)' = Unmarked(x) /\ (Offline(x)' <=> Offline(x)) /\ \A j \in Jobs : Busy(j)' <=> Busy(j)
    BY <1>1 DEF Unmarked, Offline, Busy
  <2>3. ~Offline(x) => sent[x] <= lapsed'[x] + (IF x = k THEN 0 ELSE 1)
    BY <2>1 DEF Once
  <2> QED BY <1>1, <2>1, <2>2, <2>3 DEF Once
<1> QED BY <1>2, <1>3 DEF EmailInv, KeyInv

\* What a client of Redis or a dispatcher forgets
LEMMA ForgetKept ==
    ASSUME EmailInv, NEW k \in EmailKeys, NEW p \in Processes, Forget(k, p)
    PROVE  EmailInv'
<1>1. /\ EmailTypeOK /\ Backed /\ KeyInv
      /\ UNCHANGED <<connected, place, home, stored, lapsed, sent>>
      /\ mirror' \in {mirror, [mirror EXCEPT ![p] = @ \ {k}]}
      /\ \/ cached' = cached /\ apart' = apart
         \/ cached' = [cached EXCEPT ![p] = @ \ {k}] /\ apart' = apart \ {k}
  BY DEF EmailInv, Forget
<1>2. EmailTypeOK' /\ Backed'
  BY <1>1 DEF EmailTypeOK, Backed
<1>3. ASSUME NEW x \in apart' PROVE Once(x)'
  <2>1. Once(x) /\ \A q \in Processes : x \in cached'[q] <=> x \in cached[q]
    BY <1>1, <1>3 DEF KeyInv, EmailTypeOK
  <2>2. Unmarked(x)' = Unmarked(x) /\ \A j \in Jobs : Busy(j)' <=> Busy(j)
    BY <1>1 DEF Unmarked, Busy
  <2>3. Offline(x)' <=> Offline(x)
    BY <1>1, <2>1, <2>2 DEF Offline
  <2> QED BY <1>1, <2>1, <2>2, <2>3 DEF Once
<1> QED BY <1>2, <1>3 DEF EmailInv, KeyInv

LEMMA EmailKept ==
    ASSUME EmailInv, EmailStep \/ (\E p \in Processes : EmailsDie(p)) \/ UNCHANGED emailVars
    PROVE  EmailInv'
<1>1. ASSUME NEW j \in Jobs, NEW p \in Processes, Ask(j, p) \/ JobStep(j, p) PROVE EmailInv'
  <2>1. CASE Ask(j, p) \/ Requeue(j, p)
    BY <2>1, PushKept DEF Ask, Requeue, JobAt
  <2> QED BY <1>1, <2>1, TakeKept, CheckKept, SendKept, LogKept, MarkKept, FailKept DEF JobStep
<1>2. ASSUME NEW p \in Processes, LoseRedis(p) PROVE EmailInv'
  BY <1>2 DEF LoseRedis, EmailInv, EmailTypeOK, Backed, KeyInv, keyVars
<1>3. CASE UNCHANGED emailVars
  BY <1>3 DEF emailVars, keyVars, EmailInv, EmailTypeOK, Backed, KeyInv, Once, Offline, Unmarked, Busy
<1> QED BY <1>1, <1>2, <1>3, PopFailsKept, LapseKept, ForgetKept, EmailsDieKept DEF EmailStep

-----------------------------------------------------------------------------
(* Both together                                                           *)

LEMMA FaultsCounted ==
    ASSUME faults \in 0 .. MaxFaults, [Next]_vars
    PROVE  faults' \in 0 .. MaxFaults
<1>1. ASSUME OutboxStep PROVE faults' = faults \/ Fault
  BY <1>1 DEF OutboxStep, SweepStep, StartSweep, Process, Dispatch, Publish, Retry, Enqueue, Due
<1>2. ASSUME NEW j \in Jobs, NEW p \in Processes, Ask(j, p) PROVE faults' = faults \/ Fault
  BY <1>2 DEF Ask, Push
<1>3. ASSUME NEW j \in Jobs, NEW p \in Processes, JobStep(j, p) PROVE faults' = faults \/ Fault
  BY <1>3 DEF JobStep, Requeue, Push, Take, Check, Send, Log, Mark, Fail
<1>4. ASSUME EmailStep PROVE faults' = faults \/ Fault
  BY <1>2, <1>3, <1>4 DEF EmailStep, LoseRedis, PopFails, Lapse, Forget
<1>5. faults' = faults \/ Fault
  BY <1>1, <1>4 DEF Next, Crash, vars
<1> QED BY <1>5, ServerProcessAssumption DEF Fault

BackgroundInv == OutboxInv /\ SentInv /\ EmailInv /\ faults \in 0 .. MaxFaults

LEMMA BackgroundInvariance == Spec => []BackgroundInv
<1>1. Init => BackgroundInv
  <2> SUFFICES ASSUME Init PROVE BackgroundInv
    OBVIOUS
  <2>1. SentInv
    BY DEF Init, OutboxInit, Resting, SentInv
  <2> QED BY <2>1, OutboxStart, EmailStart, ServerProcessAssumption DEF Init, BackgroundInv
<1>2. BackgroundInv /\ [Next]_vars => BackgroundInv'
  <2> SUFFICES ASSUME BackgroundInv, [Next]_vars PROVE BackgroundInv'
    OBVIOUS
  <2>1. OutboxStep \/ (\E p \in Processes : SweepDies(p)) \/ UNCHANGED outboxVars
    BY DEF Next, Crash, vars
  <2>2. EmailStep \/ (\E p \in Processes : EmailsDie(p)) \/ UNCHANGED emailVars
    BY DEF Next, Crash, vars
  <2> QED BY <2>1, <2>2, OutboxKept, SentKept, EmailKept, FaultsCounted DEF BackgroundInv, OutboxInv
<1> QED BY <1>1, <1>2, PTL DEF Spec

\* Outbox, queue, workers and idempotency keys keep their types, and no more faults
\* happen than the bound says.
THEOREM BackgroundTypeCorrect == Spec => []TypeOK
<1>1. BackgroundInv => TypeOK
  BY DEF BackgroundInv, OutboxInv, EmailInv, TypeOK
<1> QED BY <1>1, BackgroundInvariance, PTL

\* processPendingEvents dispatches an event once, however many processes sweep, unless
\* two of them found it at once or one died or failed with it, and calls none published
\* or failed before it has dispatched it.
THEOREM EventsDispatchedOnce == Spec => []DispatchedOnce
<1>1. BackgroundInv => DispatchedOnce
  BY DEF BackgroundInv, OutboxInv, SweepInv, Handled, SentInv, DispatchedOnce
<1> QED BY <1>1, BackgroundInvariance, PTL

\* The dispatcher suppresses a job only if an e-mail with its key went out, wherever the
\* key was found and whatever has crashed since.
THEOREM DuplicatesWereSent == Spec => []DuplicateWasSent
<1>1. BackgroundInv => DuplicateWasSent
  BY DEF BackgroundInv, EmailInv, Backed, DuplicateWasSent
<1> QED BY <1>1, BackgroundInvariance, PTL

\* An e-mail goes out once for each life of its key when every process is connected to
\* Redis, for any number of workers, if its jobs met neither each other nor a fault.
THEOREM EmailsSentOnce == Spec => []SentOnce
<1>1. BackgroundInv => SentOnce
  BY DEF BackgroundInv, EmailInv, KeyInv, Once, Offline, SentOnce
<1> QED BY <1>1, BackgroundInvariance, PTL
=============================================================================
