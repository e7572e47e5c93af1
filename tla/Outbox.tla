------------------------------- MODULE Outbox -------------------------------
(***************************************************************************)
(* The payment outbox (PaymentOutboxService): events are stored with a     *)
(* unique key, and every process sweeps the due ones in the background,    *)
(* marks each as being processed, dispatches it and marks it as published. *)
(* Nothing keeps two sweeps apart: not those of two processes, and not     *)
(* those of one timer, when one outlasts the interval. One sweep at a time *)
(* for each process stands for both.                                       *)
(***************************************************************************)
EXTENDS ServerProcess

CONSTANTS
    Events,         \* outbox events, by their idempotencyKey
    MaxRetries      \* maxRetries of an event

ASSUME OutboxAssumption == MaxRetries \in Nat \ {0}

VARIABLES
    event,          \* status of each event
    retries,        \* its retryCount
    due,            \* has its nextRetryAt come
    dispatched,     \* how often it has been dispatched
    sweep,          \* what the sweep of each process is doing
    quiet           \* ghost: events that no two sweeps and no fault have met at

outboxVars == <<event, retries, due, dispatched, sweep, quiet>>

EventStatuses == {"NONE", "PENDING", "PROCESSING", "PUBLISHED", "FAILED"}
Sweep ==
    [pc: {"idle", "next", "dispatch", "publish", "retry"}, todo: SUBSET Events,
     at: SUBSET Events, seen: [Events -> EventStatuses], tries: [Events -> Nat]]
Resting == [pc |-> "idle", todo |-> {}, at |-> {}, seen |-> [e \in Events |-> "NONE"],
            tries |-> [e \in Events |-> 0]]

OutboxInit ==
    /\ event = [e \in Events |-> "NONE"]
    /\ retries = [e \in Events |-> 0]
    /\ due = [e \in Events |-> FALSE]
    /\ dispatched = [e \in Events |-> 0]
    /\ sweep = [p \in Processes |-> Resting]
    /\ quiet = Events

-----------------------------------------------------------------------------
SweepAt(p, step) == sweep[p].pc = step
SetSweep(p, locals) == sweep' = [sweep EXCEPT ![p] = locals]
Swept(e) == \E p \in Processes : e \in sweep[p].todo \cup sweep[p].at

\* enqueueEvent: with the unique key, an event is stored once.
Enqueue(e) ==
    /\ event[e] = "NONE"
    /\ event' = [event EXCEPT ![e] = "PENDING"]
    /\ due' = [due EXCEPT ![e] = TRUE]
    /\ UNCHANGED <<retries, dispatched, sweep, quiet, faults>>

\* A mutant of StartSweep: what another sweep is at work on is left to it
StartSweepOfPending(p) ==
    /\ SweepAt(p, "idle")
    /\ LET found == {e \in Events : event[e] = "PENDING" /\ due[e]}
       IN  /\ found # {}
           /\ SetSweep(p, [pc |-> "next", todo |-> found, at |-> {}, seen |-> event, tries |-> retries])
           /\ quiet' = {e \in quiet : e \in found => ~Swept(e)}
    /\ UNCHANGED <<event, retries, due, dispatched, faults>>

\* A mutant of StartSweep: the status is not looked at
StartSweepOfAll(p) ==
    /\ SweepAt(p, "idle")
    /\ LET found == {e \in Events : event[e] # "NONE" /\ due[e]}
       IN  /\ found # {}
           /\ SetSweep(p, [pc |-> "next", todo |-> found, at |-> {}, seen |-> event, tries |-> retries])
           /\ quiet' = {e \in quiet : e \in found => ~Swept(e)}
    /\ UNCHANGED <<event, retries, due, dispatched, faults>>

\* processPendingEvents finds the due events, those of a sweep that died included.
StartSweep(p) ==
    /\ SweepAt(p, "idle")
    /\ LET found == {e \in Events : event[e] \in {"PENDING", "PROCESSING"} /\ due[e]}
       IN  /\ found # {}
           /\ SetSweep(p, [pc |-> "next", todo |-> found, at |-> {}, seen |-> event, tries |-> retries])
           /\ quiet' = {e \in quiet : e \in found => ~Swept(e)}
    /\ UNCHANGED <<event, retries, due, dispatched, faults>>

\* The next event is saved as PROCESSING, if it was not read so; an error is ignored.
Process(p) ==
    /\ SweepAt(p, "next")
    /\ \E e \in sweep[p].todo :
          /\ SetSweep(p, [sweep[p] EXCEPT !.pc = "dispatch", !.todo = @ \ {e}, !.at = {e}])
          /\ \/ /\ event' = [event EXCEPT ![e] = IF sweep[p].seen[e] = "PROCESSING" THEN @
                                                 ELSE "PROCESSING"]
                /\ UNCHANGED faults
             \/ Fault /\ UNCHANGED event
    /\ UNCHANGED <<retries, due, dispatched, quiet>>

\* dispatchEvent to the sockets and the e-mail bus; it lets no error out.
Dispatch(p) ==
    /\ SweepAt(p, "dispatch")
    /\ dispatched' = [e \in Events |-> dispatched[e] + (IF e \in sweep[p].at THEN 1 ELSE 0)]
    /\ SetSweep(p, [sweep[p] EXCEPT !.pc = "publish"])
    /\ UNCHANGED <<event, retries, due, quiet, faults>>

\* The sweep takes the next event, or ends.
GoOn(p) ==
    SetSweep(p, IF sweep[p].todo = {} THEN Resting
                ELSE [sweep[p] EXCEPT !.pc = "next", !.at = {}])

Publish(p) ==
    /\ SweepAt(p, "publish")
    /\ \/ /\ event' = [e \in Events |-> IF e \in sweep[p].at THEN "PUBLISHED" ELSE event[e]]
          /\ GoOn(p)
          /\ UNCHANGED <<quiet, faults>>
       \/ /\ Fault
          /\ SetSweep(p, [sweep[p] EXCEPT !.pc = "retry"])
          /\ quiet' = quiet \ sweep[p].at
          /\ UNCHANGED event
    /\ UNCHANGED <<retries, due, dispatched>>

\* A mutant of Retry: a status that is not one
RetryAsRetrying(p) ==
    /\ SweepAt(p, "retry")
    /\ \E e \in sweep[p].at :
          /\ retries' = [retries EXCEPT ![e] = sweep[p].tries[e] + 1]
          /\ event' = [event EXCEPT ![e] = "RETRYING"]
          /\ due' = [due EXCEPT ![e] = FALSE]
    /\ GoOn(p)
    /\ UNCHANGED <<dispatched, quiet, faults>>

\* The catch block: one more try later, or none. An error here ends the sweep.
Retry(p) ==
    /\ SweepAt(p, "retry")
    /\ \E e \in sweep[p].at :
          \/ /\ LET tries == sweep[p].tries[e] + 1
                IN  /\ retries' = [retries EXCEPT ![e] = tries]
                    /\ event' = [event EXCEPT ![e] = IF tries >= MaxRetries THEN "FAILED"
                                                     ELSE "PENDING"]
                    /\ due' = [due EXCEPT ![e] = IF tries >= MaxRetries THEN @ ELSE FALSE]
             /\ GoOn(p)
             /\ UNCHANGED faults
          \/ /\ Fault
             /\ SetSweep(p, Resting)
             /\ UNCHANGED <<retries, event, due>>
    /\ UNCHANGED <<dispatched, quiet>>

\* The time of a retry comes.
Due(e) ==
    /\ ~due[e] /\ event[e] # "NONE"
    /\ due' = [due EXCEPT ![e] = TRUE]
    /\ UNCHANGED <<event, retries, dispatched, sweep, quiet, faults>>

\* The sweep of a process dies with it.
SweepDies(p) ==
    /\ SetSweep(p, Resting)
    /\ quiet' = quiet \ (sweep[p].todo \cup sweep[p].at)
    /\ UNCHANGED <<event, retries, due, dispatched>>

SweepStep(p) == Process(p) \/ Dispatch(p) \/ Publish(p) \/ Retry(p)
OutboxStep ==
    \/ \E p \in Processes : StartSweep(p) \/ SweepStep(p)
    \/ \E e \in Events : Enqueue(e) \/ Due(e)

OutboxTypeOK ==
    /\ event \in [Events -> EventStatuses]
    /\ retries \in [Events -> Nat]
    /\ due \in [Events -> BOOLEAN]
    /\ dispatched \in [Events -> Nat]
    /\ sweep \in [Processes -> Sweep]
    /\ quiet \subseteq Events

-----------------------------------------------------------------------------
\* An event is dispatched a second time only when two sweeps had it at once, or one died or
\* failed with it; and none is over, published or given up, that was never dispatched.
DispatchedOnce ==
    /\ \A e \in quiet : dispatched[e] <= 1
    /\ \A e \in Events : event[e] \in {"PUBLISHED", "FAILED"} => dispatched[e] > 0

\* "never lost": an event that was stored is in the end dispatched and published for good,
\* or failed after the last retry, also when processes die with it.
NeverLost ==
    \A e \in Events : event[e] = "PENDING" ~>
        [](event[e] \in {"PUBLISHED", "FAILED"} /\ (event[e] = "PUBLISHED" => dispatched[e] > 0))
=============================================================================
