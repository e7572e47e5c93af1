------------------------------- MODULE Wallet -------------------------------
(***************************************************************************)
(* One customer's wallet as server/src/modules/payment/services/           *)
(* WalletService.js keeps it: the balances of the Wallet document, one     *)
(* WalletReservation document per payment intent, the CUSTOMER_WALLET      *)
(* lines that LedgerService.postJournal writes, and the lock               *)
(* "wallet:<user>" of utils/distributedLock.js.                            *)
(*                                                                         *)
(* A call of the service is a process. It may lose the processor at every  *)
(* store access, so each access is a step of its own: Find reads the       *)
(* reservation, Record writes it, Lookup .. PostSecond write the journal   *)
(* and Move updates the balances. A call may die at any step (Crash), and  *)
(* the lock's time to live may pass while its holder is still running      *)
(* (Expire), because nothing renews it and nothing fences a late writer.   *)
(***************************************************************************)
EXTENDS Integers, FiniteSets

CONSTANTS
    Calls,        \* the service calls that may run at the same time
    Intents,      \* payment intents that pay partly from this wallet
    Credits,      \* idempotency keys of top-ups and of refund credits
    Amount,       \* what each intent reserves and each credit adds, in paise
    MaxSends,     \* bound: how often a client sends the same credit
    MaxCrashes,   \* bound: calls that die half-way
    MaxExpiries   \* bound: locks that expire under a running call

Keys == Intents \cup Credits

Free == "free"       \* no lock document
Orphan == "orphan"   \* the lock of a call that died, until its time to live ends

ASSUME WalletAssumption ==
    /\ IsFiniteSet(Intents)
    /\ Intents \cap Credits = {}
    /\ Amount \in [Keys -> Nat \ {0}]
    /\ {Free, Orphan} \cap Calls = {}
    /\ MaxSends \in Nat /\ MaxCrashes \in Nat /\ MaxExpiries \in Nat

VARIABLES
    available, reserved,  \* balances of the Wallet document
    reservation,          \* status of the WalletReservation of each intent
    headers,              \* idempotency keys of the LedgerJournal documents
    liability,            \* CUSTOMER_WALLET: credit lines minus debit lines
    contra,               \* the other account of the same journals, negated
    lock,                 \* holder of wallet:<user>
    pc, op, arg,          \* where each call is, what it does and for whom
    sends, crashes, expiries

callVars == <<pc, op, arg>>
ledgerVars == <<headers, liability, contra>>
faultVars == <<sends, crashes, expiries>>
vars == <<available, reserved, reservation, ledgerVars, lock, callVars, faultVars>>

Ops == {"reserve", "release", "commit", "credit"}
Steps == {"idle", "find", "record", "lookup", "header", "postings",
          "contra_due", "wallet_due", "move", "unlock"}
Statuses == {"NONE", "RESERVED", "COMMITTED", "RELEASED"}

TypeOK ==
    /\ available \in Nat /\ reserved \in Nat
    /\ reservation \in [Intents -> Statuses]
    /\ headers \subseteq Keys
    /\ liability \in Int /\ contra \in Int
    /\ lock \in Calls \cup {Free, Orphan}
    /\ pc \in [Calls -> Steps]
    /\ op \in [Calls -> Ops]
    /\ arg \in [Calls -> Keys]
    /\ sends \in [Credits -> Nat]
    /\ crashes \in Nat /\ expiries \in Nat
    /\ \A c \in Calls : arg[c] \in IF op[c] = "credit" THEN Credits ELSE Intents

Init ==
    /\ available = 0 /\ reserved = 0
    /\ reservation = [i \in Intents |-> "NONE"]
    /\ headers = {} /\ liability = 0 /\ contra = 0
    /\ lock = Free
    /\ pc = [c \in Calls |-> "idle"]
    /\ \E i \in Intents : arg = [c \in Calls |-> i]
    /\ op = [c \in Calls |-> "reserve"]
    /\ sends = [k \in Credits |-> 0]
    /\ crashes = 0 /\ expiries = 0

-----------------------------------------------------------------------------
Goto(c, step) == pc' = [pc EXCEPT ![c] = step]

\* DistributedLock.acquire: SET NX EX. A call that finds the key throws, and
\* throws before it has written anything, so a busy lock is no step here.
Acquire(c, o, x, first) ==
    /\ pc[c] = "idle" /\ lock = Free
    /\ lock' = c
    /\ op' = [op EXCEPT ![c] = o] /\ arg' = [arg EXCEPT ![c] = x]
    /\ Goto(c, first)
    /\ UNCHANGED <<available, reserved, reservation, ledgerVars, crashes, expiries>>

\* PaymentOrchestratorService.initializeCheckout and submitPaymentAttempt
BeginReserve(c, i) == Acquire(c, "reserve", i, "find") /\ UNCHANGED sends

\* handleAttemptFailure and handleAttemptCapture, the only callers, act for an
\* attempt, and submitPaymentAttempt makes one only after reserveFunds returned.
BeginRelease(c, i) ==
    reservation[i] # "NONE" /\ Acquire(c, "release", i, "find") /\ UNCHANGED sends
BeginCommit(c, i) ==
    reservation[i] # "NONE" /\ Acquire(c, "commit", i, "find") /\ UNCHANGED sends

\* topupWallet and creditRefund; a client that saw no answer sends the key again.
BeginCredit(c, k) ==
    /\ sends[k] < MaxSends
    /\ sends' = [sends EXCEPT ![k] = @ + 1]
    /\ Acquire(c, "credit", k, "lookup")

-----------------------------------------------------------------------------
\* The reservation's status decides whether a call goes on, returns or throws;
\* a return and a throw both end in the finally block that releases the lock.
MayReserve(c) ==
    reservation[arg[c]] \notin {"RESERVED", "COMMITTED"} /\ available >= Amount[arg[c]]
Settled(c) == reservation[arg[c]] \in {"RELEASED", "COMMITTED"}

\* Mutants of AfterFind: a release, a commit that does not look at the status
ReleaseUnchecked(c) ==
    CASE op[c] = "reserve" -> IF MayReserve(c) THEN "move" ELSE "unlock"
      [] op[c] = "release" -> "record"
      [] OTHER -> IF Settled(c) THEN "unlock" ELSE "record"
CommitUnchecked(c) ==
    CASE op[c] = "reserve" -> IF MayReserve(c) THEN "move" ELSE "unlock"
      [] op[c] = "release" -> IF Settled(c) THEN "unlock" ELSE "record"
      [] OTHER -> "record"

AfterFind(c) ==
    IF op[c] = "reserve"
    THEN IF MayReserve(c) THEN "move" ELSE "unlock"
    ELSE IF Settled(c) THEN "unlock" ELSE "record"

Find(c) ==
    /\ pc[c] = "find"
    /\ Goto(c, AfterFind(c))
    /\ UNCHANGED <<available, reserved, reservation, ledgerVars, lock, op, arg, faultVars>>

\* The upsert of reserveFunds, and the save() of a document read by Find: it
\* writes the new status whatever the stored one has become since.
\* AfterRecordUnposted is a mutant of AfterRecord: a commit without a journal.
NewStatus(o) ==
    CASE o = "reserve" -> "RESERVED" [] o = "release" -> "RELEASED" [] OTHER -> "COMMITTED"
AfterRecordUnposted(o) == IF o = "reserve" THEN "unlock" ELSE "move"
AfterRecord(o) ==
    CASE o = "reserve" -> "unlock" [] o = "release" -> "move" [] OTHER -> "lookup"

Record(c) ==
    /\ pc[c] = "record"
    /\ reservation' = [reservation EXCEPT ![arg[c]] = NewStatus(op[c])]
    /\ Goto(c, AfterRecord(op[c]))
    /\ UNCHANGED <<available, reserved, ledgerVars, lock, op, arg, faultVars>>

\* Mutants of Covered: no guard at all, and one that wants more than the amount
CoveredAlways(c) == TRUE
CoveredStrictly(c) ==
    IF op[c] = "credit" THEN TRUE
    ELSE IF op[c] = "reserve" THEN available >= Amount[arg[c]] ELSE reserved > Amount[arg[c]]

\* The three balance updates with a $gte guard and the $inc of a credit.
Covered(c) ==
    CASE op[c] = "credit" -> TRUE
      [] op[c] = "reserve" -> available >= Amount[arg[c]]
      [] OTHER -> reserved >= Amount[arg[c]]
AvailableChange(o) ==
    CASE o = "reserve" -> -1 [] o = "commit" -> 0 [] OTHER -> 1
ReservedChange(o) ==
    CASE o = "reserve" -> 1 [] o = "credit" -> 0 [] OTHER -> -1
AfterMove(c) ==
    IF op[c] = "reserve" /\ Covered(c) THEN "record" ELSE "unlock"

Move(c) ==
    /\ pc[c] = "move"
    /\ IF Covered(c)
       THEN /\ available' = available + AvailableChange(op[c]) * Amount[arg[c]]
            /\ reserved' = reserved + ReservedChange(op[c]) * Amount[arg[c]]
       ELSE UNCHANGED <<available, reserved>>
    /\ Goto(c, AfterMove(c))
    /\ UNCHANGED <<reservation, ledgerVars, lock, op, arg, faultVars>>

-----------------------------------------------------------------------------
\* LedgerService.postJournal: the key is looked up, the header is created under
\* a unique index, then LedgerPosting.create saves the two lines in any order.
\* A journal that exists counts as posted, and the caller goes on either way.
Lookup(c) ==
    /\ pc[c] = "lookup"
    /\ Goto(c, IF arg[c] \in headers THEN "move" ELSE "header")
    /\ UNCHANGED <<available, reserved, reservation, ledgerVars, lock, op, arg, faultVars>>

Header(c) ==
    /\ pc[c] = "header"
    /\ headers' = headers \cup {arg[c]}
    /\ Goto(c, IF arg[c] \in headers THEN "unlock" ELSE "postings")
    /\ UNCHANGED <<available, reserved, reservation, liability, contra, lock, op, arg, faultVars>>

Signed(c) == IF op[c] = "credit" THEN Amount[arg[c]] ELSE -Amount[arg[c]]

\* A mutant of WalletLine: the other line is not saved
WalletLineAlone(c) ==
    /\ pc[c] \in {"postings", "wallet_due"}
    /\ liability' = liability + Signed(c)
    /\ Goto(c, "move")
    /\ UNCHANGED <<available, reserved, reservation, headers, contra, lock, op, arg, faultVars>>

WalletLine(c) ==
    /\ pc[c] \in {"postings", "wallet_due"}
    /\ liability' = liability + Signed(c)
    /\ Goto(c, IF pc[c] = "postings" THEN "contra_due" ELSE "move")
    /\ UNCHANGED <<available, reserved, reservation, headers, contra, lock, op, arg, faultVars>>

ContraLine(c) ==
    /\ pc[c] \in {"postings", "contra_due"}
    /\ contra' = contra + Signed(c)
    /\ Goto(c, IF pc[c] = "postings" THEN "wallet_due" ELSE "move")
    /\ UNCHANGED <<available, reserved, reservation, headers, liability, lock, op, arg, faultVars>>

-----------------------------------------------------------------------------
\* DistributedLock.release compares the token: a lock that expired and was
\* taken by another call stays with that call.
Unlock(c) ==
    /\ pc[c] = "unlock"
    /\ lock' = IF lock = c THEN Free ELSE lock
    /\ Goto(c, "idle")
    /\ UNCHANGED <<available, reserved, reservation, ledgerVars, op, arg, faultVars>>

Crash(c) ==
    /\ pc[c] # "idle" /\ crashes < MaxCrashes
    /\ crashes' = crashes + 1
    /\ lock' = IF lock = c THEN Orphan ELSE lock
    /\ Goto(c, "idle")
    /\ UNCHANGED <<available, reserved, reservation, ledgerVars, op, arg, sends, expiries>>

\* A mutant of Reclaim: SET NX without EX
ReclaimNever == lock = Orphan /\ FALSE /\ UNCHANGED vars

\* The time to live of a dead call's lock ends.
Reclaim ==
    /\ lock = Orphan /\ lock' = Free
    /\ UNCHANGED <<available, reserved, reservation, ledgerVars, callVars, faultVars>>

\* The time to live ends while the holder is still between two steps.
Expire ==
    /\ lock \in Calls /\ expiries < MaxExpiries
    /\ lock' = Free /\ expiries' = expiries + 1
    /\ UNCHANGED <<available, reserved, reservation, ledgerVars, callVars, sends, crashes>>

Advance(c) ==
    \/ Find(c) \/ Record(c) \/ Move(c)
    \/ Lookup(c) \/ Header(c) \/ WalletLine(c) \/ ContraLine(c)
    \/ Unlock(c)

Begin(c) ==
    \/ \E i \in Intents : BeginReserve(c, i) \/ BeginRelease(c, i) \/ BeginCommit(c, i)
    \/ \E k \in Credits : BeginCredit(c, k)

Next ==
    \/ \E c \in Calls : Begin(c) \/ Advance(c) \/ Crash(c)
    \/ Reclaim \/ Expire

Spec == Init /\ [][Next]_vars

\* A running call is resumed when its store answers, and a key with a time to
\* live does disappear; nobody is obliged to start a call or to crash.
Fairness == WF_vars(Reclaim) /\ \A c \in Calls : WF_vars(Advance(c))
FairSpec == Spec /\ Fairness

-----------------------------------------------------------------------------
Held == {i \in Intents : reservation[i] = "RESERVED"}

\* The sum of the amounts of a set of keys, as the size of a set of paise.
Paise(S) == UNION {{k} \X (1 .. Amount[k]) : k \in S}
Total(S) == Cardinality(Paise(S))

Quiet == lock = Free
Exclusive == expiries = 0
NoFault == Exclusive /\ crashes = 0
SentOnce == \A k \in Credits : sends[k] <= 1

\* Funds held for a checkout are there: whatever is interleaved and whoever dies
\* half-way, the reserved balance covers every RESERVED reservation as long as
\* the lock outlives its calls, because each call moves or records in the order
\* that errs on the side of the hold. A crash may strand funds, never lose a hold.
HoldsCovered == Exclusive => reserved >= Total(Held)

\* Without faults nothing is stranded either: between calls the reserved balance
\* is the sum of the open reservations.
HoldsExact == NoFault /\ Quiet => reserved = Total(Held)

\* "Enforces financial truth through double-entry accounting": between calls, the
\* CUSTOMER_WALLET liability of the ledger is what the wallet document shows,
\* when no call died, no lock expired and no credit was sent twice.
LedgerBacksWallet == NoFault /\ SentOnce /\ Quiet => liability = available + reserved

\* The same without the last condition, which the callers do not meet: a client
\* may send a top-up again under the idempotency key of the first one.
LedgerTruth == NoFault /\ Quiet => liability = available + reserved

\* Both lines of every journal of a call that ran to its end are there, even
\* when locks expire and journals are sent twice: the books balance.
BooksBalance == crashes = 0 /\ (\A c \in Calls : pc[c] = "idle") => liability = contra

\* What a checkout has spent stays spent: a COMMITTED reservation is never
\* released or reserved again while the lock outlives its calls, so a late
\* handleAttemptFailure cannot hand committed funds back to the customer.
CommittedIsFinal ==
    [][\A i \in Intents : Exclusive' /\ reservation[i] = "COMMITTED"
                             => reservation'[i] = "COMMITTED"]_vars

\* A wallet is not blocked for ever: whether the call that locked it returns, throws,
\* dies or is overtaken by the time to live, the lock comes free again.
LockComesFree == lock # Free ~> lock = Free
=============================================================================
