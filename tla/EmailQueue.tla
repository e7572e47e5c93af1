----------------------------- MODULE EmailQueue -----------------------------
(***************************************************************************)
(* The e-mail queue, its workers and the dispatcher (modules/email): a job *)
(* is pushed to Redis, or kept in the memory of a process that is not      *)
(* connected to it; a worker takes it out for good, looks for its          *)
(* idempotency key, sends it and stores the key. After a transient error a *)
(* timer of the process puts the payload back as a new job with no         *)
(* attempts made; after any other the job goes to the dead letters. A      *)
(* connection to Redis that is lost is not opened again before a restart.  *)
(* A stored key has a time to live, after which its e-mail is new again.   *)
(***************************************************************************)
EXTENDS ServerProcess

CONSTANTS
    Jobs,         \* e-mails that are asked for
    EmailKeys,    \* their idempotency keys: event, template and entity
    KeyOf,        \* the key of each job
    MaxLapses     \* bound: how often the time to live of a key runs out

ASSUME EmailAssumption == KeyOf \in [Jobs -> EmailKeys] /\ MaxLapses \in Nat

VARIABLES
    connected,    \* processes that are connected to Redis
    place,        \* where each job is
    home,         \* the process that has it, if it is in a process
    stored,       \* idempotency keys stored in Redis
    mirror,       \* keys that the Redis client of each process has in its memory, too
    cached,       \* keys the dispatcher of each process has stored while not connected
    sent,         \* e-mails sent for each key
    lapsed,       \* how often each key has lapsed in Redis
    apart         \* ghost: keys whose jobs met neither each other nor a fault

keyVars == <<stored, mirror, cached, lapsed>>
emailVars == <<connected, place, home, keyVars, sent, apart>>

InProcess == {"memory", "check", "send", "log", "mark", "fail", "waiting"}
Places == {"new", "queue", "sent", "duplicate", "dead", "lost"} \cup InProcess

EmailInit ==
    /\ connected \in {{}, Processes}
    /\ place = [j \in Jobs |-> "new"]
    /\ home = [j \in Jobs |-> CHOOSE p \in Processes : TRUE]
    /\ stored = {}
    /\ mirror = [p \in Processes |-> {}]
    /\ cached = [p \in Processes |-> {}]
    /\ sent = [k \in EmailKeys |-> 0]
    /\ lapsed = [k \in EmailKeys |-> 0]
    /\ apart = EmailKeys

-----------------------------------------------------------------------------
JobAt(j, p, step) == place[j] = step /\ home[j] = p
Move(j, step) == place' = [place EXCEPT ![j] = step]
Busy(j) == place[j] \in {"check", "send", "log", "mark"}
Keep == UNCHANGED <<connected, home, keyVars>>

\* enqueue, in a process, for a new job or for the payload of one that is tried again. A
\* push to Redis that fails leaves the job in memory; when only its answer was lost the
\* job is in Redis as well, and its copy is another job with the key.
Push(j, p) ==
    /\ \/ /\ Move(j, IF p \in connected THEN "queue" ELSE "memory")
          /\ home' = [home EXCEPT ![j] = p]
          /\ UNCHANGED faults
       \/ /\ p \in connected /\ Fault
          /\ Move(j, "memory")
          /\ home' = [home EXCEPT ![j] = p]
       \/ /\ p \in connected /\ Fault
          /\ \E i \in Jobs \ {j} :
                /\ place[i] = "new" /\ KeyOf[i] = KeyOf[j]
                /\ place' = [place EXCEPT ![j] = "queue", ![i] = "memory"]
                /\ home' = [home EXCEPT ![j] = p, ![i] = p]
    /\ UNCHANGED <<connected, keyVars, sent, apart>>

Ask(j, p) == place[j] = "new" /\ Push(j, p)
Requeue(j, p) == JobAt(j, p, "waiting") /\ Push(j, p)

\* A mutant of Take: there is no falling back to the memory of the process
TakeFromRedis(j, p) ==
    /\ p \in connected /\ place[j] = "queue"
    /\ Move(j, "check")
    /\ home' = [home EXCEPT ![j] = p]
    /\ UNCHANGED <<connected, keyVars, sent, apart, faults>>

\* Two jobs of a key that are at work at the same time are not apart.
Join(j) ==
    apart' = IF \E i \in Jobs \ {j} : Busy(i) /\ KeyOf[i] = KeyOf[j]
             THEN apart \ {KeyOf[j]} ELSE apart

\* dequeue takes a job out: from Redis, or from the memory of the process if there is
\* none in Redis or no connection.
Take(j, p) ==
    /\ IF p \in connected /\ \E i \in Jobs : place[i] = "queue"
       THEN place[j] = "queue" ELSE JobAt(j, p, "memory")
    /\ Move(j, "check")
    /\ home' = [home EXCEPT ![j] = p]
    /\ Join(j)
    /\ UNCHANGED <<connected, keyVars, sent, faults>>

\* An RPOP fails: Redis has taken the job out and its answer is lost, or it has not. A job
\* in the memory of the process is taken then, if there is one, at this poll or the next.
PopFails(p) ==
    /\ p \in connected /\ Fault
    /\ \/ \E j \in Jobs : place[j] = "queue" /\ Move(j, "lost") /\ UNCHANGED <<home, apart>>
       \/ \E j \in Jobs : JobAt(j, p, "memory") /\ Move(j, "check") /\ Join(j) /\ UNCHANGED home
    /\ UNCHANGED <<connected, keyVars, sent>>

\* Where a key is looked for: what Redis does not have may be in its client's memory.
KnownTo(p) == IF p \in connected THEN stored \cup mirror[p] ELSE cached[p]

\* where markIdempotent puts a key
Store(k, p) ==
    IF p \in connected
    THEN /\ stored' = stored \cup {k}
         /\ mirror' = [mirror EXCEPT ![p] = @ \cup {k}]
         /\ UNCHANGED <<cached, lapsed>>
    ELSE /\ cached' = [cached EXCEPT ![p] = @ \cup {k}]
         /\ UNCHANGED <<stored, mirror, lapsed>>

\* A mutant of Check: the key is stored when it is found to be new
CheckAndMark(j, p) ==
    /\ JobAt(j, p, "check")
    /\ Move(j, IF KeyOf[j] \in KnownTo(p) THEN "duplicate" ELSE "send")
    /\ Store(KeyOf[j], p)
    /\ UNCHANGED <<connected, home, sent, apart, faults>>

\* checkIdempotency; when Redis fails to answer, the memory of its client does.
Check(j, p) ==
    /\ JobAt(j, p, "check")
    /\ \/ /\ Move(j, IF KeyOf[j] \in KnownTo(p) THEN "duplicate" ELSE "send")
          /\ UNCHANGED <<apart, faults>>
       \/ /\ p \in connected /\ Fault
          /\ Move(j, IF KeyOf[j] \in mirror[p] THEN "duplicate" ELSE "send")
          /\ apart' = apart \ {KeyOf[j]}
    /\ Keep /\ UNCHANGED sent

\* The provider sends it; or an error is thrown, which may hide that it was sent.
Send(j, p) ==
    /\ JobAt(j, p, "send")
    /\ \/ /\ sent' = [sent EXCEPT ![KeyOf[j]] = @ + 1]
          /\ Move(j, "log")
          /\ UNCHANGED <<apart, faults>>
       \/ /\ Fault
          /\ Move(j, "fail")
          /\ \/ UNCHANGED <<sent, apart>>
             \/ /\ sent' = [sent EXCEPT ![KeyOf[j]] = @ + 1]
                /\ apart' = apart \ {KeyOf[j]}
    /\ Keep

\* The audit record is saved; an error of this is one of the job, which was sent.
Log(j, p) ==
    /\ JobAt(j, p, "log")
    /\ \/ Move(j, "mark") /\ UNCHANGED <<apart, faults>>
       \/ Fault /\ Move(j, "fail") /\ apart' = apart \ {KeyOf[j]}
    /\ Keep /\ UNCHANGED sent

\* A mutant of Mark: the key is stored in the memory of the process only
MarkAtHome(j, p) ==
    /\ JobAt(j, p, "mark")
    /\ mirror' = [mirror EXCEPT ![p] = @ \cup {KeyOf[j]}]
    /\ Move(j, "sent")
    /\ UNCHANGED <<connected, home, stored, cached, lapsed, sent, apart, faults>>

\* markIdempotent, in Redis for every process or in the memory of this one. An error of
\* Redis is swallowed: the key is in the memory of its client only.
Mark(j, p) ==
    /\ JobAt(j, p, "mark")
    /\ Move(j, "sent")
    /\ \/ Store(KeyOf[j], p) /\ UNCHANGED <<apart, faults>>
       \/ /\ p \in connected /\ Fault
          /\ mirror' = [mirror EXCEPT ![p] = @ \cup {KeyOf[j]}]
          /\ apart' = apart \ {KeyOf[j]}
          /\ UNCHANGED <<stored, cached, lapsed>>
    /\ UNCHANGED <<connected, home, sent>>

\* A day after it was stored a key lapses in Redis,
Lapse(k) ==
    /\ k \in stored /\ lapsed[k] < MaxLapses
    /\ stored' = stored \ {k}
    /\ lapsed' = [lapsed EXCEPT ![k] = @ + 1]
    /\ UNCHANGED <<connected, place, home, mirror, cached, sent, apart, faults>>

\* and in the memory of a client of Redis, which has stored it at a time of its own; the
\* memory of a dispatcher that is not connected drops its oldest key for the 2001st.
Forget(k, p) ==
    /\ \/ /\ k \in mirror[p]
          /\ mirror' = [mirror EXCEPT ![p] = @ \ {k}]
          /\ UNCHANGED <<cached, apart>>
       \/ /\ k \in cached[p]
          /\ cached' = [cached EXCEPT ![p] = @ \ {k}]
          /\ apart' = apart \ {k}
          /\ UNCHANGED mirror
    /\ UNCHANGED <<connected, place, home, stored, lapsed, sent, faults>>

\* A transient error is retried after a delay, any other is final.
Fail(j, p) ==
    /\ JobAt(j, p, "fail")
    /\ Move(j, "waiting") \/ Move(j, "dead")
    /\ Keep /\ UNCHANGED <<sent, apart, faults>>

\* A connection to Redis is lost, and with it what it knows.
LoseRedis(p) ==
    /\ p \in connected
    /\ Fault
    /\ connected' = connected \ {p}
    /\ apart' = {}
    /\ UNCHANGED <<place, home, keyVars, sent>>

\* What a process has in memory is lost with it: jobs it took, its timers, its queue and
\* its keys. When it is started again it connects, or fails to.
EmailsDie(p) ==
    /\ LET dying == {j \in Jobs : home[j] = p /\ place[j] \in InProcess}
       IN  /\ place' = [j \in Jobs |-> IF j \in dying THEN "lost" ELSE place[j]]
           /\ apart' = apart \ (cached[p] \cup {KeyOf[j] : j \in dying})
    /\ mirror' = [mirror EXCEPT ![p] = {}]
    /\ cached' = [cached EXCEPT ![p] = {}]
    /\ connected' \in {connected \cup {p}, connected \ {p}}
    /\ UNCHANGED <<home, stored, lapsed, sent>>

JobStep(j, p) ==
    \/ Take(j, p) \/ Check(j, p) \/ Send(j, p) \/ Log(j, p) \/ Mark(j, p) \/ Fail(j, p)
    \/ Requeue(j, p)
EmailStep ==
    \/ \E p \in Processes :
          \/ LoseRedis(p) \/ PopFails(p)
          \/ \E k \in EmailKeys : Forget(k, p)
          \/ \E j \in Jobs : Ask(j, p) \/ JobStep(j, p)
    \/ \E k \in EmailKeys : Lapse(k)

EmailTypeOK ==
    /\ connected \subseteq Processes
    /\ place \in [Jobs -> Places]
    /\ home \in [Jobs -> Processes]
    /\ stored \subseteq EmailKeys
    /\ mirror \in [Processes -> SUBSET EmailKeys]
    /\ cached \in [Processes -> SUBSET EmailKeys]
    /\ sent \in [EmailKeys -> Nat] /\ lapsed \in [EmailKeys -> Nat]
    /\ apart \subseteq EmailKeys

-----------------------------------------------------------------------------
\* A job is suppressed as a duplicate only when an e-mail with its key has gone out.
DuplicateWasSent == \A j \in Jobs : place[j] = "duplicate" => sent[KeyOf[j]] > 0

\* When every process is connected to Redis, an e-mail goes out at most once for each
\* life of its key: once, and once more for every time the key has lapsed since. So it is
\* in whichever processes its jobs are handled, if they are handled one after the other
\* and neither a fault nor a crash met them.
SentOnce == \A k \in apart : connected = Processes => sent[k] <= 1 + lapsed[k]

\* A job that was asked for is in the end sent, suppressed or a dead letter, when the
\* errors end, unless the process dies that has it in memory or the answer of Redis is
\* lost with it; or it stays in Redis because every process has lost its connection.
JobSettles ==
    \A j \in Jobs : place[j] \in {"queue", "memory"}
        ~> \/ place[j] \in {"sent", "duplicate", "dead", "lost"}
           \/ place[j] = "queue" /\ connected = {}
=============================================================================
