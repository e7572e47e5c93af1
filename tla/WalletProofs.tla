---------------------------- MODULE WalletProofs ----------------------------
(***************************************************************************)
(* The safety properties of Wallet for every set of calls, intents and     *)
(* credits, every amount and any number of crashes and repeated credits.   *)
(*                                                                         *)
(* HoldsCovered is not inductive: it says nothing of a call between its    *)
(* write to the reservation and its move of the balance. IInv adds what    *)
(* such a call owns (Surplus, Lead), that only the holder of the lock is   *)
(* at work, and what a call knows of the reservation at each of its steps. *)
(* The same invariant shows that Wallet implements WalletPromise. The      *)
(* books need another one (BooksInv), which holds though locks expire.     *)
(***************************************************************************)
EXTENDS WalletRefinement, TLAPS, FiniteSetTheorems

-----------------------------------------------------------------------------
(* The sum of the amounts of a set of keys, or of a set of calls.          *)

Coins(S, A) == UNION {{k} \X (1 .. A[k]) : k \in S}

LEMMA CoinsFinite ==
    ASSUME NEW S, IsFiniteSet(S), NEW A, \A k \in S : A[k] \in Nat
    PROVE  IsFiniteSet(Coins(S, A)) /\ Cardinality(Coins(S, A)) \in Nat
<1> DEFINE Own(k) == {k} \X (1 .. A[k])
           f == [k \in S |-> Own(k)]
           T == {Own(k) : k \in S}
<1>1. f \in Surjection(S, T)
  BY DEF Surjection
<1>2. IsFiniteSet(T)
  BY <1>1, FS_Surjection
<1>3. ASSUME NEW k \in S PROVE IsFiniteSet(Own(k))
  <2>1. IsFiniteSet(1 .. A[k])
    BY FS_Interval
  <2>2. IsFiniteSet({k})
    BY FS_Singleton
  <2>3. \A P, Q : IsFiniteSet(P) /\ IsFiniteSet(Q) => IsFiniteSet(P \X Q)
    BY FS_Product
  <2> QED BY <2>1, <2>2, <2>3
<1>4. IsFiniteSet(UNION T)
  BY <1>2, <1>3, FS_UNION
<1> QED BY <1>4, FS_CardinalityType DEF Coins

LEMMA CoinsAdd ==
    ASSUME NEW S, IsFiniteSet(S), NEW A, \A k \in S : A[k] \in Nat,
           NEW i, i \notin S, A[i] \in Nat
    PROVE  Cardinality(Coins(S \cup {i}, A)) = Cardinality(Coins(S, A)) + A[i]
<1> DEFINE Own == {i} \X (1 .. A[i])
<1>1. IsFiniteSet(Own) /\ Cardinality(Own) = A[i]
  <2>1. IsFiniteSet(1 .. A[i]) /\ Cardinality(1 .. A[i]) = A[i]
    BY FS_Interval
  <2>2. IsFiniteSet({i}) /\ Cardinality({i}) = 1
    BY FS_Singleton
  <2>3. /\ IsFiniteSet({i} \X (1 .. A[i]))
        /\ Cardinality({i} \X (1 .. A[i])) = Cardinality({i}) * Cardinality(1 .. A[i])
    BY <2>1, <2>2, FS_Product
  <2> QED BY <2>1, <2>2, <2>3
<1>2. Coins(S \cup {i}, A) = Coins(S, A) \cup Own
  BY DEF Coins
<1>3. Coins(S, A) \cap Own = {}
  BY DEF Coins
<1> HIDE DEF Own
<1>4. IsFiniteSet(Coins(S, A)) /\ Cardinality(Coins(S, A)) \in Nat
  BY CoinsFinite
<1>5. Cardinality(Coins(S, A) \cap Own) = 0
  BY <1>3, FS_EmptySet
<1>6. Cardinality(Coins(S, A) \cup Own)
        = Cardinality(Coins(S, A)) + Cardinality(Own) - Cardinality(Coins(S, A) \cap Own)
  BY <1>1, <1>4, FS_Union
<1>7. Cardinality(Coins(S \cup {i}, A)) = Cardinality(Coins(S, A)) + A[i] - 0
  BY <1>1, <1>2, <1>5, <1>6
<1> QED BY <1>4, <1>7

LEMMA PaiseFinite ==
    ASSUME NEW S \in SUBSET Intents
    PROVE  IsFiniteSet(Paise(S)) /\ Total(S) \in Nat
<1>1. IsFiniteSet(S) /\ \A k \in S : Amount[k] \in Nat
  BY WalletAssumption, FS_Subset DEF Keys
<1> QED BY <1>1, CoinsFinite DEF Paise, Total, Coins

LEMMA TotalAdd ==
    ASSUME NEW S \in SUBSET Intents, NEW i \in Intents, i \notin S
    PROVE  Total(S \cup {i}) = Total(S) + Amount[i]
<1>1. IsFiniteSet(S) /\ Amount[i] \in Nat /\ \A k \in S : Amount[k] \in Nat
  BY WalletAssumption, FS_Subset DEF Keys
<1>2. \A R : Total(R) = Cardinality(Coins(R, Amount))
  BY DEF Total, Paise, Coins
<1>3. Cardinality(Coins(S \cup {i}, Amount)) = Cardinality(Coins(S, Amount)) + Amount[i]
  BY <1>1, CoinsAdd
<1> QED BY <1>2, <1>3

LEMMA TotalRemove ==
    ASSUME NEW S \in SUBSET Intents, NEW i \in S
    PROVE  Total(S) = Total(S \ {i}) + Amount[i]
<1>1. S = (S \ {i}) \cup {i} /\ i \in Intents /\ i \notin S \ {i}
  OBVIOUS
<1> QED BY <1>1, TotalAdd

-----------------------------------------------------------------------------
(* The inductive invariant.                                                *)

\* Only the holder of the lock is at work.
OneAtWork == \A c \in Calls : pc[c] # "idle" => lock = c

\* What a call knows at its step, of its operation and of its reservation
Knows(c) ==
    /\ pc[c] \in {"find", "record"} => op[c] # "credit"
    /\ pc[c] \in Posting => op[c] \in {"commit", "credit"}
    /\ pc[c] = "find" /\ op[c] # "reserve" => reservation[arg[c]] # "NONE"
    /\ pc[c] = "record" /\ op[c] # "reserve" => reservation[arg[c]] = "RESERVED"
    /\ pc[c] \in {"record", "move"} /\ op[c] = "reserve"
          => reservation[arg[c]] \notin {"RESERVED", "COMMITTED"}
    /\ pc[c] = "move" /\ op[c] = "release" => reservation[arg[c]] = "RELEASED"

\* A journal of a commit belongs to a COMMITTED reservation, one of a credit to a
\* credit that was sent, and a call that is about to post has not posted before.
JournalsBelong ==
    /\ \A i \in headers \cap Intents : reservation[i] = "COMMITTED"
    /\ \A k \in headers \cap Credits : sends[k] > 0
    /\ \A c \in Calls :
          /\ pc[c] \in {"lookup", "header"} /\ (op[c] = "credit" => SentOnce)
                => arg[c] \notin headers
          /\ pc[c] \in Posting \cup {"move"} /\ op[c] = "commit"
                => reservation[arg[c]] = "COMMITTED"
          /\ pc[c] # "idle" /\ op[c] = "credit" => sends[arg[c]] > 0
          /\ pc[c] \in {"postings", "contra_due", "wallet_due", "move"} /\ op[c] = "credit"
                => arg[c] \in headers

\* Funds in the reserved balance that belong to the call in progress, and not to
\* a RESERVED reservation
Owns(c) ==
    \/ op[c] = "reserve" /\ pc[c] = "record"
    \/ op[c] = "release" /\ pc[c] = "move"
    \/ op[c] = "commit" /\ pc[c] \in Posting \cup {"move"}
Surplus == IF lock \in Calls /\ Owns(lock) THEN Amount[arg[lock]] ELSE 0

\* The wallet line of the call in progress, written before its balance moves
Leads(c) == op[c] \in {"commit", "credit"} /\ pc[c] \in {"contra_due", "move"}
Lead == IF lock \in Calls /\ Leads(lock) THEN Signed(lock) ELSE 0

HoldsAdd ==
    /\ reserved >= Total(Held) + Surplus
    /\ crashes = 0 => reserved = Total(Held) + Surplus

LedgerAdds == crashes = 0 /\ SentOnce => liability = available + reserved + Lead

Alone == OneAtWork /\ (\A c \in Calls : Knows(c)) /\ JournalsBelong /\ HoldsAdd /\ LedgerAdds

IInv == TypeOK /\ (Exclusive => Alone)

-----------------------------------------------------------------------------
LEMMA AmountType == \A x \in Keys : Amount[x] \in Nat /\ Amount[x] > 0
  BY WalletAssumption

LEMMA TypeInit == Init => TypeOK
  BY WalletAssumption DEF Init, TypeOK, Keys, Ops, Steps, Statuses

LEMMA TypeStep == TypeOK /\ [Next]_vars => TypeOK'
<1> SUFFICES ASSUME TypeOK, [Next]_vars PROVE TypeOK'
  OBVIOUS
<1> USE DEF TypeOK, Steps, Ops, ledgerVars, faultVars
<1>1. ASSUME NEW c \in Calls, NEW o \in Ops, NEW x \in Keys, NEW first \in Steps,
             x \in IF o = "credit" THEN Credits ELSE Intents,
             Acquire(c, o, x, first), sends' \in [Credits -> Nat]
      PROVE  TypeOK'
  BY <1>1 DEF Acquire, Goto
<1>2. ASSUME NEW c \in Calls, Begin(c) PROVE TypeOK'
  <2>1. ASSUME NEW i \in Intents, BeginReserve(c, i) \/ BeginRelease(c, i) \/ BeginCommit(c, i)
        PROVE  TypeOK'
    <3>1. i \in Keys /\ sends' = sends
      BY <2>1 DEF BeginReserve, BeginRelease, BeginCommit, Keys
    <3>2. \E o \in {"reserve", "release", "commit"} : Acquire(c, o, i, "find")
      BY <2>1 DEF BeginReserve, BeginRelease, BeginCommit
    <3> QED BY <1>1, <3>1, <3>2
  <2>2. ASSUME NEW k \in Credits, BeginCredit(c, k) PROVE TypeOK'
    <3>1. k \in Keys /\ sends' \in [Credits -> Nat] /\ Acquire(c, "credit", k, "lookup")
      BY <2>2 DEF BeginCredit, Keys
    <3> QED BY <1>1, <3>1
  <2> QED BY <1>2, <2>1, <2>2 DEF Begin
<1>3. ASSUME NEW c \in Calls, Find(c) PROVE TypeOK'
  BY <1>3 DEF Find, Goto, AfterFind
<1>4. ASSUME NEW c \in Calls, Record(c) PROVE TypeOK'
  <2>1. AfterRecord(op[c]) \in Steps /\ NewStatus(op[c]) \in Statuses
    BY DEF AfterRecord, NewStatus, Statuses
  <2> QED BY <1>4, <2>1 DEF Record, Goto
<1>5. ASSUME NEW c \in Calls, Move(c) PROVE TypeOK'
  <2>1. AfterMove(c) \in Steps
    BY DEF AfterMove
  <2>2. Amount[arg[c]] \in Nat
    BY AmountType
  <2>3. available' \in Nat /\ reserved' \in Nat
    BY <1>5, <2>2 DEF Move, Covered, AvailableChange, ReservedChange
  <2> QED BY <1>5, <2>1, <2>3 DEF Move, Goto
<1>6. ASSUME NEW c \in Calls, Lookup(c) PROVE TypeOK'
  BY <1>6 DEF Lookup, Goto
<1>7. ASSUME NEW c \in Calls, Header(c) PROVE TypeOK'
  BY <1>7 DEF Header, Goto
<1>8. ASSUME NEW c \in Calls PROVE Signed(c) \in Int
  BY AmountType DEF Signed
<1>9. ASSUME NEW c \in Calls, WalletLine(c) PROVE TypeOK'
  BY <1>8, <1>9 DEF WalletLine, Goto
<1>10. ASSUME NEW c \in Calls, ContraLine(c) PROVE TypeOK'
  BY <1>8, <1>10 DEF ContraLine, Goto
<1>11. ASSUME NEW c \in Calls, Unlock(c) PROVE TypeOK'
  BY <1>11 DEF Unlock, Goto
<1>12. ASSUME NEW c \in Calls, Crash(c) PROVE TypeOK'
  BY <1>12 DEF Crash, Goto
<1>13. ASSUME Reclaim \/ Expire PROVE TypeOK'
  BY <1>13 DEF Reclaim, Expire, callVars
<1>14. ASSUME UNCHANGED vars PROVE TypeOK'
  BY <1>14 DEF vars, callVars
<1> QED
  BY <1>2, <1>3, <1>4, <1>5, <1>6, <1>7, <1>9, <1>10, <1>11, <1>12, <1>13, <1>14
  DEF Next, Advance

\* In every reachable state the variables have their types: in particular no balance
\* is negative, whatever crashes and whatever expires, because each deduction carries
\* its own $gte guard.
THEOREM TypeCorrect == Spec => []TypeOK
<1>1. TypeOK /\ [Next]_vars => TypeOK'
  BY TypeStep
<1> QED BY TypeInit, <1>1, PTL DEF Spec

-----------------------------------------------------------------------------
(* IInv is inductive. HeldSame serves the steps that write no reservation. *)

LEMMA HeldSame ==
    ASSUME reservation' = reservation
    PROVE  Total(Held)' = Total(Held)
  BY DEF Held, Total, Paise

LEMMA HeldType == Total(Held) \in Nat
  BY PaiseFinite DEF Held

LEMMA InvInit == Init => IInv
<1> SUFFICES ASSUME Init PROVE IInv
  OBVIOUS
<1>1. TypeOK
  BY TypeInit
<1>2. Held = {}
  BY DEF Held, Init
<1>3. Total(Held) = 0
  BY <1>2, FS_EmptySet DEF Total, Paise
<1>4. Surplus = 0 /\ Lead = 0
  BY WalletAssumption DEF Init, Surplus, Lead
<1>5. HoldsAdd /\ LedgerAdds
  BY <1>3, <1>4 DEF HoldsAdd, LedgerAdds, Init
<1>6. OneAtWork /\ (\A c \in Calls : Knows(c)) /\ JournalsBelong
  BY DEF OneAtWork, Knows, JournalsBelong, Init, Posting
<1> QED BY <1>1, <1>5, <1>6 DEF IInv, Alone

LEMMA BeginStep ==
    ASSUME TypeOK, TypeOK', Alone, NEW c \in Calls, Begin(c)
    PROVE  Alone'
<1>1. /\ pc[c] = "idle" /\ lock = Free /\ lock' = c
      /\ UNCHANGED <<available, reserved, reservation, ledgerVars, crashes, expiries>>
      /\ pc' = [pc EXCEPT ![c] = pc'[c]] /\ op' = [op EXCEPT ![c] = op'[c]]
      /\ arg' = [arg EXCEPT ![c] = arg'[c]]
  BY DEF Begin, BeginReserve, BeginRelease, BeginCommit, BeginCredit, Acquire, Goto, TypeOK
<1>2. \/ /\ pc'[c] = "find" /\ op'[c] \in {"reserve", "release", "commit"} /\ sends' = sends
         /\ op'[c] # "reserve" => reservation[arg'[c]] # "NONE"
      \/ /\ pc'[c] = "lookup" /\ op'[c] = "credit" /\ arg'[c] \in Credits
         /\ sends' = [sends EXCEPT ![arg'[c]] = @ + 1]
  BY DEF Begin, BeginReserve, BeginRelease, BeginCommit, BeginCredit, Acquire, Goto, TypeOK
<1>3. \A d \in Calls : pc[d] = "idle"
  BY <1>1, WalletAssumption DEF Alone, OneAtWork
<1>4. \A d \in Calls : d # c => pc'[d] = "idle"
  BY <1>1, <1>3 DEF TypeOK
<1>5. \A k \in Credits : sends'[k] >= sends[k] /\ sends[k] \in Nat
  BY <1>2 DEF TypeOK
<1>6. SentOnce' => SentOnce
  BY <1>5 DEF SentOnce, TypeOK
<1>7. OneAtWork'
  BY <1>1, <1>4 DEF OneAtWork
<1>8. ASSUME NEW d \in Calls PROVE Knows(d)'
  BY <1>1, <1>2, <1>4 DEF Knows, Posting, TypeOK
<1>9. JournalsBelong'
  <2>1. headers' = headers /\ reservation' = reservation
    BY <1>1 DEF ledgerVars
  <2>2. \A k \in headers \cap Credits : sends'[k] > 0
    BY <1>5 DEF Alone, JournalsBelong, TypeOK
  <2>3. pc'[c] = "lookup" /\ SentOnce' => arg'[c] \notin headers
    BY <1>2, <1>5 DEF Alone, JournalsBelong, SentOnce, TypeOK
  <2>4. pc'[c] = "lookup" => sends'[arg'[c]] > 0 /\ op'[c] = "credit"
    BY <1>2, <1>5 DEF TypeOK
  <2>5. pc'[c] = "find" => op'[c] # "credit"
    BY <1>2
  <2>6. pc'[c] \in {"find", "lookup"}
    BY <1>2
  <2> QED BY <1>4, <2>1, <2>2, <2>3, <2>4, <2>5, <2>6 DEF Alone, JournalsBelong, Posting
<1>10. Surplus = 0 /\ Lead = 0 /\ Surplus' = 0 /\ Lead' = 0
  BY <1>1, <1>2, WalletAssumption DEF Surplus, Lead, Owns, Leads, Posting
<1>11. HoldsAdd'
  BY <1>1, <1>10, HeldSame DEF Alone, HoldsAdd
<1>12. LedgerAdds'
  BY <1>1, <1>6, <1>10 DEF Alone, LedgerAdds, ledgerVars
<1> QED BY <1>7, <1>8, <1>9, <1>11, <1>12 DEF Alone

\* A call at work holds the lock, and no other call is at work.
LEMMA AtWork ==
    ASSUME TypeOK, Alone, NEW c \in Calls, pc[c] # "idle"
    PROVE  /\ lock = c /\ \A d \in Calls : d # c => pc[d] = "idle"
           /\ Surplus = IF Owns(c) THEN Amount[arg[c]] ELSE 0
           /\ Lead = IF Leads(c) THEN Signed(c) ELSE 0
<1>1. lock = c /\ \A d \in Calls : d # c => pc[d] = "idle"
  BY DEF Alone, OneAtWork
<1> QED BY <1>1 DEF Surplus, Lead

\* The same after a step of that call that keeps the lock
LEMMA StillAtWork ==
    ASSUME TypeOK, Alone, NEW c \in Calls, pc[c] # "idle",
           UNCHANGED <<lock, op, arg>>, NEW s \in Steps, pc' = [pc EXCEPT ![c] = s]
    PROVE  /\ OneAtWork'
           /\ pc'[c] = s /\ \A d \in Calls : d # c => pc'[d] = "idle"
           /\ Surplus' = IF Owns(c)' THEN Amount[arg[c]] ELSE 0
           /\ Lead' = IF Leads(c)' THEN Signed(c) ELSE 0
<1>1. lock' = c /\ pc'[c] = s /\ \A d \in Calls : d # c => pc'[d] = "idle"
  BY AtWork DEF TypeOK
<1>2. OneAtWork'
  BY <1>1 DEF OneAtWork
<1>3. Signed(c)' = Signed(c)
  BY DEF Signed
<1>4. Surplus' = IF Owns(c)' THEN Amount[arg[c]] ELSE 0
  BY <1>1 DEF Surplus, Owns
<1>5. Lead' = IF Leads(c)' THEN Signed(c) ELSE 0
  BY <1>1, <1>3 DEF Lead, Leads
<1> QED BY <1>1, <1>2, <1>4, <1>5

LEMMA FindStep ==
    ASSUME TypeOK, TypeOK', Alone, NEW c \in Calls, Find(c)
    PROVE  Alone'
<1> DEFINE s == AfterFind(c)
<1>1. /\ pc[c] = "find" /\ pc' = [pc EXCEPT ![c] = s]
      /\ UNCHANGED <<available, reserved, reservation, ledgerVars, lock, op, arg, faultVars>>
  BY DEF Find, Goto
<1>2. \/ s = "unlock"
      \/ s = "move" /\ op[c] = "reserve" /\ reservation[arg[c]] \notin {"RESERVED", "COMMITTED"}
      \/ s = "record" /\ op[c] # "reserve" /\ reservation[arg[c]] \notin {"RELEASED", "COMMITTED"}
  BY DEF AfterFind, MayReserve, Settled
<1>3. s \in Steps
  BY <1>2 DEF Steps
<1> HIDE DEF s
<1>4. OneAtWork' /\ pc'[c] = s /\ \A d \in Calls : d # c => pc'[d] = "idle"
  BY <1>1, <1>3, StillAtWork
<1>5. op[c] # "credit"
  BY <1>1 DEF Alone, Knows
<1>6. s = "record" => reservation[arg[c]] = "RESERVED"
  BY <1>1, <1>2, <1>5 DEF Alone, Knows, TypeOK, Statuses, Ops
<1>7. ASSUME NEW d \in Calls PROVE Knows(d)'
  BY <1>1, <1>2, <1>4, <1>5, <1>6 DEF Knows, Posting
<1>8. JournalsBelong'
  BY <1>1, <1>2, <1>4, <1>5 DEF Alone, JournalsBelong, Posting, ledgerVars, faultVars, SentOnce
<1>9. Surplus = 0 /\ Lead = 0
  BY <1>1, AtWork DEF Owns, Leads, Posting
<1>10. Surplus' = 0 /\ Lead' = 0
  <2>1. ~Owns(c)' /\ ~Leads(c)'
    BY <1>1, <1>2, <1>4, <1>5 DEF Owns, Leads, Posting
  <2> QED BY <1>1, <1>3, <2>1, StillAtWork
<1>11. HoldsAdd'
  BY <1>1, <1>9, <1>10, HeldSame DEF Alone, HoldsAdd, faultVars
<1>12. LedgerAdds'
  BY <1>1, <1>9, <1>10 DEF Alone, LedgerAdds, ledgerVars, faultVars, SentOnce
<1> QED BY <1>4, <1>7, <1>8, <1>11, <1>12 DEF Alone

LEMMA RecordStep ==
    ASSUME TypeOK, TypeOK', Alone, NEW c \in Calls, Record(c)
    PROVE  Alone'
<1> DEFINE s == AfterRecord(op[c])
           i == arg[c]
<1>1. /\ pc[c] = "record" /\ pc' = [pc EXCEPT ![c] = s]
      /\ reservation' = [reservation EXCEPT ![i] = NewStatus(op[c])]
      /\ UNCHANGED <<available, reserved, ledgerVars, lock, op, arg, faultVars>>
  BY DEF Record, Goto
<1>2. op[c] \in {"reserve", "release", "commit"} /\ i \in Intents /\ i \notin Credits
  BY <1>1, WalletAssumption DEF Alone, Knows, TypeOK, Ops
<1>3. s \in Steps
  BY <1>2 DEF Steps, AfterRecord
<1>4. OneAtWork' /\ pc'[c] = s /\ \A d \in Calls : d # c => pc'[d] = "idle"
  BY <1>1, <1>3, StillAtWork
<1>5. reservation'[i] = NewStatus(op[c]) /\ \A j \in Intents : j # i => reservation'[j] = reservation[j]
  BY <1>1, <1>2 DEF TypeOK
<1>6. i \notin headers
  <2>1. reservation[i] # "COMMITTED"
    BY <1>1, <1>2 DEF Alone, Knows
  <2> QED BY <1>2, <2>1 DEF Alone, JournalsBelong
<1>7. ASSUME NEW d \in Calls PROVE Knows(d)'
  BY <1>1, <1>2, <1>4, <1>5 DEF Knows, Posting, AfterRecord, NewStatus
<1>8. JournalsBelong'
  BY <1>1, <1>2, <1>4, <1>5, <1>6
  DEF Alone, JournalsBelong, Posting, ledgerVars, faultVars, SentOnce, AfterRecord, NewStatus
<1>9. Total(Held)' + Surplus' = Total(Held) + Surplus
  <2>1. CASE op[c] = "reserve"
    <3>1. Surplus = Amount[i]
      BY <1>1, <2>1, AtWork DEF Owns
    <3>2. Surplus' = 0
      <4>1. ~Owns(c)'
        BY <1>1, <1>4, <2>1 DEF Owns, AfterRecord, Posting
      <4> QED BY <1>1, <1>3, <4>1, StillAtWork
    <3>3. i \notin Held /\ Held' = Held \cup {i}
      BY <1>1, <1>2, <1>5, <2>1 DEF Held, Alone, Knows, NewStatus
    <3>4. Total(Held \cup {i}) = Total(Held) + Amount[i]
      BY <1>2, <3>3, TotalAdd DEF Held
    <3>5. Total(Held)' = Total(Held) + Amount[i]
      BY <3>3, <3>4 DEF Total, Paise
    <3> QED BY <1>2, <3>1, <3>2, <3>5, HeldType, AmountType DEF Keys
  <2>2. CASE op[c] # "reserve"
    <3>1. Surplus = 0
      BY <1>1, <2>2, AtWork DEF Owns, Posting
    <3>2. Surplus' = Amount[i]
      <4>1. Owns(c)'
        BY <1>1, <1>2, <1>4, <2>2 DEF Owns, AfterRecord, Posting
      <4> QED BY <1>1, <1>3, <4>1, StillAtWork
    <3>3. i \in Held /\ Held' = Held \ {i}
      BY <1>1, <1>2, <1>5, <2>2 DEF Held, Alone, Knows, NewStatus
    <3>4. Total(Held) = Total(Held \ {i}) + Amount[i]
      BY <3>3, TotalRemove DEF Held
    <3>5. Total(Held) = Total(Held)' + Amount[i]
      BY <3>3, <3>4 DEF Total, Paise
    <3>6. Total(Held \ {i}) \in Nat
      BY PaiseFinite DEF Held
    <3>7. Total(Held)' \in Nat
      BY <3>3, <3>6 DEF Total, Paise
    <3> QED BY <1>2, <3>1, <3>2, <3>5, <3>7, AmountType DEF Keys
  <2> QED BY <2>1, <2>2
<1>10. HoldsAdd'
  BY <1>1, <1>9 DEF Alone, HoldsAdd, faultVars
<1>11. Lead = 0 /\ Lead' = 0
  <2>1. ~Leads(c) /\ ~Leads(c)' 
    BY <1>1, <1>2, <1>4 DEF Leads, AfterRecord
  <2> QED BY <1>1, <1>3, <2>1, AtWork, StillAtWork
<1>12. LedgerAdds'
  BY <1>1, <1>11 DEF Alone, LedgerAdds, ledgerVars, faultVars, SentOnce
<1> QED BY <1>4, <1>7, <1>8, <1>10, <1>12 DEF Alone

LEMMA MoveStep ==
    ASSUME TypeOK, TypeOK', Alone, NEW c \in Calls, Move(c)
    PROVE  Alone'
<1> DEFINE s == AfterMove(c)
           x == arg[c]
<1>1. /\ pc[c] = "move" /\ pc' = [pc EXCEPT ![c] = s]
      /\ UNCHANGED <<reservation, ledgerVars, lock, op, arg, faultVars>>
  BY DEF Move, Goto
<1>2. s \in {"record", "unlock"} /\ (s = "record" <=> op[c] = "reserve" /\ Covered(c))
  BY DEF AfterMove
<1>3. s \in Steps
  BY <1>2 DEF Steps
<1> HIDE DEF s
<1>4. OneAtWork' /\ pc'[c] = s /\ \A d \in Calls : d # c => pc'[d] = "idle"
  BY <1>1, <1>3, StillAtWork
<1>5. ASSUME NEW d \in Calls PROVE Knows(d)'
  BY <1>1, <1>2, <1>4 DEF Alone, Knows, Posting
<1>6. JournalsBelong'
  BY <1>1, <1>2, <1>4 DEF Alone, JournalsBelong, Posting, ledgerVars, faultVars, SentOnce
<1>7. Amount[x] \in Nat /\ Amount[x] > 0 /\ available \in Nat /\ reserved \in Nat /\ liability \in Int
  BY AmountType DEF TypeOK
<1>8. Surplus = IF op[c] \in {"release", "commit"} THEN Amount[x] ELSE 0
  BY <1>1, AtWork DEF Owns
<1>9. Surplus' = IF op[c] = "reserve" /\ Covered(c) THEN Amount[x] ELSE 0
  <2>1. Owns(c)' <=> op[c] = "reserve" /\ Covered(c)
    BY <1>1, <1>2, <1>4 DEF Owns, Posting
  <2> QED BY <1>1, <1>3, <2>1, StillAtWork
<1>10. Lead = IF op[c] \in {"commit", "credit"} THEN Signed(c) ELSE 0
  BY <1>1, AtWork DEF Leads
<1>11. Lead' = 0
  <2>1. ~Leads(c)'
    BY <1>1, <1>2, <1>4 DEF Leads
  <2> QED BY <1>1, <1>3, <2>1, StillAtWork
<1>12. Total(Held)' = Total(Held) /\ Total(Held) \in Nat
  BY <1>1, HeldSame, HeldType
<1>13. op[c] \in Ops
  BY DEF TypeOK
<1>14. HoldsAdd'
  <2>1. reserved >= Total(Held) + Surplus /\ (crashes = 0 => reserved = Total(Held) + Surplus)
    BY DEF Alone, HoldsAdd
  <2>2. CASE op[c] = "reserve"
    <3>1. reserved' = reserved + Surplus' /\ Surplus = 0
      BY <1>7, <1>8, <1>9, <2>2 DEF Move, ReservedChange
    <3> QED BY <1>1, <1>7, <1>9, <1>12, <2>1, <3>1 DEF HoldsAdd, faultVars
  <2>3. CASE op[c] \in {"release", "commit"}
    <3>1. Surplus = Amount[x] /\ Surplus' = 0
      BY <1>8, <1>9, <2>3
    <3>2. reserved >= Amount[x]
      BY <1>7, <1>12, <2>1, <3>1
    <3>3. reserved' = reserved - Amount[x]
      BY <1>7, <2>3, <3>2 DEF Move, Covered, ReservedChange
    <3> QED BY <1>1, <1>7, <1>12, <2>1, <3>1, <3>3 DEF HoldsAdd, faultVars
  <2>4. CASE op[c] = "credit"
    <3>1. reserved' = reserved /\ Surplus = 0 /\ Surplus' = 0
      BY <1>7, <1>8, <1>9, <2>4 DEF Move, ReservedChange
    <3> QED BY <1>1, <1>12, <2>1, <3>1 DEF HoldsAdd, faultVars
  <2> QED BY <1>13, <2>2, <2>3, <2>4 DEF Ops
<1>15. LedgerAdds'
  <2>1. SUFFICES ASSUME crashes = 0, SentOnce PROVE liability = available' + reserved'
    <3>1. available' \in Nat /\ reserved' \in Nat
      BY DEF TypeOK
    <3> QED BY <1>1, <1>11, <3>1 DEF LedgerAdds, ledgerVars, faultVars, SentOnce
  <2>2. liability = available + reserved + Lead
    BY <2>1 DEF Alone, LedgerAdds
  <2>3. op[c] # "credit" /\ op[c] # "reserve" => Covered(c)
    BY <1>7, <1>8, <1>12, <1>13, <2>1 DEF Covered, Alone, HoldsAdd, Ops
  <2>4. CASE op[c] = "credit"
    BY <1>7, <1>10, <2>2, <2>4 DEF Move, Covered, AvailableChange, ReservedChange, Signed
  <2>5. CASE op[c] = "commit"
    BY <1>7, <1>10, <2>2, <2>3, <2>5 DEF Move, AvailableChange, ReservedChange, Signed
  <2>6. CASE op[c] \in {"reserve", "release"}
    BY <1>7, <1>10, <2>2, <2>6 DEF Move, AvailableChange, ReservedChange
  <2> QED BY <1>13, <2>4, <2>5, <2>6 DEF Ops
<1> QED BY <1>4, <1>5, <1>6, <1>14, <1>15 DEF Alone

LEMMA LookupStep ==
    ASSUME TypeOK, TypeOK', Alone, NEW c \in Calls, Lookup(c)
    PROVE  Alone'
<1> DEFINE s == IF arg[c] \in headers THEN "move" ELSE "header"
<1>1. /\ pc[c] = "lookup" /\ pc' = [pc EXCEPT ![c] = s] /\ s \in Steps
      /\ UNCHANGED <<available, reserved, reservation, ledgerVars, lock, op, arg, faultVars>>
  BY DEF Lookup, Goto, Steps
<1>2. s \in {"move", "header"} /\ (s = "header" <=> arg[c] \notin headers)
  OBVIOUS
<1> HIDE DEF s
<1>3. OneAtWork' /\ pc'[c] = s /\ \A d \in Calls : d # c => pc'[d] = "idle"
  BY <1>1, StillAtWork
<1>4. op[c] \in {"commit", "credit"}
  BY <1>1 DEF Alone, Knows, Posting
<1>5. ASSUME NEW d \in Calls PROVE Knows(d)'
  BY <1>1, <1>2, <1>3, <1>4 DEF Knows, Posting
<1>6. JournalsBelong'
  BY <1>1, <1>2, <1>3, <1>4 DEF Alone, JournalsBelong, Posting, ledgerVars, faultVars, SentOnce
<1>7. Surplus' = Surplus
  <2>1. Owns(c)' <=> Owns(c)
    BY <1>1, <1>2, <1>3, <1>4 DEF Owns, Posting
  <2>2. CASE Owns(c)
    BY <1>1, <2>1, <2>2, AtWork, StillAtWork
  <2>3. CASE ~Owns(c)
    BY <1>1, <2>1, <2>3, AtWork, StillAtWork
  <2> QED BY <2>2, <2>3
<1>8. HoldsAdd'
  BY <1>1, <1>7, HeldSame DEF Alone, HoldsAdd, faultVars
<1>9. LedgerAdds'
  <2>1. SUFFICES ASSUME SentOnce PROVE Lead' = Lead
    BY <1>1 DEF Alone, LedgerAdds, ledgerVars, faultVars, SentOnce
  <2>2. s = "header"
    BY <1>1, <1>2, <2>1 DEF Alone, JournalsBelong
  <2>3. ~Leads(c) /\ ~Leads(c)'
    BY <1>1, <1>3, <2>2 DEF Leads
  <2> QED BY <1>1, <2>3, AtWork, StillAtWork
<1> QED BY <1>3, <1>5, <1>6, <1>8, <1>9 DEF Alone

LEMMA HeaderStep ==
    ASSUME TypeOK, TypeOK', Alone, NEW c \in Calls, Header(c)
    PROVE  Alone'
<1> DEFINE s == IF arg[c] \in headers THEN "unlock" ELSE "postings"
<1>1. /\ pc[c] = "header" /\ pc' = [pc EXCEPT ![c] = s] /\ s \in Steps
      /\ headers' = headers \cup {arg[c]}
      /\ UNCHANGED <<available, reserved, reservation, liability, contra, lock, op, arg, faultVars>>
  BY DEF Header, Goto, Steps
<1>2. s \in {"unlock", "postings"} /\ (s = "postings" <=> arg[c] \notin headers)
  OBVIOUS
<1> HIDE DEF s
<1>3. OneAtWork' /\ pc'[c] = s /\ \A d \in Calls : d # c => pc'[d] = "idle"
  BY <1>1, StillAtWork
<1>4. op[c] \in {"commit", "credit"}
  BY <1>1 DEF Alone, Knows, Posting
<1>5. /\ op[c] = "commit" => arg[c] \notin Credits /\ reservation[arg[c]] = "COMMITTED"
      /\ op[c] = "credit" => arg[c] \notin Intents /\ sends[arg[c]] > 0
  BY <1>1, WalletAssumption DEF Alone, JournalsBelong, TypeOK, Posting
<1>6. ASSUME NEW d \in Calls PROVE Knows(d)'
  BY <1>1, <1>2, <1>3, <1>4 DEF Knows, Posting
<1>7. JournalsBelong'
  BY <1>1, <1>2, <1>3, <1>4, <1>5 DEF Alone, JournalsBelong, Posting, faultVars, SentOnce
<1>8. Lead = 0 /\ Lead' = 0
  <2>1. ~Leads(c) /\ ~Leads(c)'
    BY <1>1, <1>2, <1>3 DEF Leads
  <2> QED BY <1>1, <2>1, AtWork, StillAtWork
<1>9. Surplus' = Surplus
  <2>1. op[c] = "commit" => s = "postings"
    BY <1>1, <1>2 DEF Alone, JournalsBelong
  <2>2. Owns(c)' <=> Owns(c)
    BY <1>1, <1>2, <1>3, <1>4, <2>1 DEF Owns, Posting
  <2>3. CASE Owns(c)
    BY <1>1, <2>2, <2>3, AtWork, StillAtWork
  <2>4. CASE ~Owns(c)
    BY <1>1, <2>2, <2>4, AtWork, StillAtWork
  <2> QED BY <2>3, <2>4
<1>10. HoldsAdd'
  BY <1>1, <1>9, HeldSame DEF Alone, HoldsAdd, faultVars
<1>11. LedgerAdds'
  BY <1>1, <1>8 DEF Alone, LedgerAdds, faultVars, SentOnce
<1> QED BY <1>3, <1>6, <1>7, <1>10, <1>11 DEF Alone

LEMMA LineStep ==
    ASSUME TypeOK, TypeOK', Alone, NEW c \in Calls, WalletLine(c) \/ ContraLine(c)
    PROVE  Alone'
<1> DEFINE s == pc'[c]
<1>1. /\ pc[c] \in {"postings", "wallet_due", "contra_due"} /\ pc' = [pc EXCEPT ![c] = s]
      /\ s \in {"contra_due", "wallet_due", "move"} /\ s \in Steps
      /\ UNCHANGED <<available, reserved, reservation, headers, lock, op, arg, faultVars>>
  BY DEF WalletLine, ContraLine, Goto, TypeOK, Steps
<1>2. \/ pc[c] = "postings" /\ s = "contra_due" /\ liability' = liability + Signed(c)
      \/ pc[c] = "wallet_due" /\ s = "move" /\ liability' = liability + Signed(c)
      \/ pc[c] = "postings" /\ s = "wallet_due" /\ liability' = liability
      \/ pc[c] = "contra_due" /\ s = "move" /\ liability' = liability
  BY DEF WalletLine, ContraLine, Goto, TypeOK
<1> HIDE DEF s
<1>3. OneAtWork' /\ pc'[c] = s /\ \A d \in Calls : d # c => pc'[d] = "idle"
  BY <1>1, StillAtWork
<1>4. op[c] \in {"commit", "credit"}
  BY <1>1 DEF Alone, Knows, Posting
<1>5. ASSUME NEW d \in Calls PROVE Knows(d)'
  BY <1>1, <1>3, <1>4 DEF Knows, Posting
<1>6. JournalsBelong'
  BY <1>1, <1>3, <1>4 DEF Alone, JournalsBelong, Posting, faultVars, SentOnce
<1>7. Surplus' = Surplus
  <2>1. Owns(c) <=> op[c] = "commit"
    BY <1>1, <1>4 DEF Owns, Posting
  <2>2. Owns(c)' <=> op[c] = "commit"
    BY <1>1, <1>3, <1>4 DEF Owns, Posting
  <2>3. CASE op[c] = "commit"
    BY <1>1, <2>1, <2>2, <2>3, AtWork, StillAtWork
  <2>4. CASE op[c] # "commit"
    BY <1>1, <2>1, <2>2, <2>4, AtWork, StillAtWork
  <2> QED BY <2>3, <2>4
<1>8. HoldsAdd'
  BY <1>1, <1>7, HeldSame DEF Alone, HoldsAdd, faultVars
<1>9. liability' + Lead = liability + Lead' /\ Lead \in Int /\ Lead' \in Int
  <2>1. Signed(c) \in Int /\ liability \in Int
    BY AmountType DEF Signed, TypeOK
  <2>2. Lead = IF pc[c] = "contra_due" THEN Signed(c) ELSE 0
    BY <1>1, <1>4, AtWork DEF Leads
  <2>3. Lead' = IF s \in {"contra_due", "move"} THEN Signed(c) ELSE 0
    BY <1>1, <1>3, <1>4, StillAtWork DEF Leads
  <2> QED BY <1>2, <2>1, <2>2, <2>3
<1>10. /\ available \in Nat /\ reserved \in Nat
       /\ liability \in Int /\ liability' \in Int
  BY DEF TypeOK
<1>11. LedgerAdds'
  <2>1. SUFFICES ASSUME crashes = 0, SentOnce PROVE liability' = available + reserved + Lead'
    BY <1>1 DEF LedgerAdds, faultVars, SentOnce
  <2>2. liability = available + reserved + Lead
    BY <2>1 DEF Alone, LedgerAdds
  <2>3. \A l, m, b, x, y \in Int : l = b + x /\ m + x = l + y => m = b + y
    OBVIOUS
  <2>4. available + reserved \in Int
    BY <1>10
  <2>5. liability' \in Int
    BY <1>10
  <2>6. Lead' \in Int
    BY <1>9
  <2>7. liability \in Int
    BY <1>10
  <2>8. Lead \in Int
    BY <1>9
  <2>9. liability' + Lead = liability + Lead'
    BY <1>9
  <2> QED BY <2>2, <2>3, <2>4, <2>5, <2>6, <2>7, <2>8, <2>9
<1> QED BY <1>3, <1>5, <1>6, <1>8, <1>11 DEF Alone

\* A call that ends or dies owns nothing any more, and leaves the lock free or orphaned.
LEMMA EndStep ==
    ASSUME TypeOK, TypeOK', Alone, NEW c \in Calls, Unlock(c) \/ Crash(c)
    PROVE  Alone'
<1>1. /\ pc[c] # "idle" /\ pc' = [pc EXCEPT ![c] = "idle"]
      /\ UNCHANGED <<available, reserved, reservation, ledgerVars, op, arg, sends, expiries>>
  BY DEF Unlock, Crash, Goto, faultVars
<1>2. lock' \in {Free, Orphan}
  BY <1>1, AtWork DEF Unlock, Crash
<1>3. \A d \in Calls : pc'[d] = "idle"
  BY <1>1, AtWork DEF TypeOK
<1>4. OneAtWork' /\ (\A d \in Calls : Knows(d)')
  BY <1>3 DEF OneAtWork, Knows, Posting
<1>5. JournalsBelong'
  BY <1>1, <1>3 DEF Alone, JournalsBelong, Posting, ledgerVars
<1>6. Surplus' = 0 /\ Lead' = 0
  BY <1>2, WalletAssumption DEF Surplus, Lead
<1>7. /\ crashes' = crashes /\ Surplus = 0 /\ Lead = 0
      \/ crashes' = crashes + 1
  BY AtWork DEF Unlock, Crash, faultVars, Owns, Leads, Posting
<1>8. Surplus \in Nat
  BY AmountType, AtWork, <1>1 DEF TypeOK
<1>9. HoldsAdd'
  <2>1. Total(Held)' = Total(Held) /\ Total(Held) \in Nat
    BY <1>1, HeldSame, HeldType
  <2>2. crashes \in Nat /\ reserved \in Nat
    BY DEF TypeOK
  <2> QED BY <1>1, <1>6, <1>7, <1>8, <2>1, <2>2 DEF Alone, HoldsAdd
<1>10. LedgerAdds'
  <2>1. crashes \in Nat
    BY DEF TypeOK
  <2> QED BY <1>1, <1>6, <1>7, <2>1 DEF Alone, LedgerAdds, ledgerVars, SentOnce
<1> QED BY <1>4, <1>5, <1>9, <1>10 DEF Alone

LEMMA ReclaimStep ==
    ASSUME TypeOK, Alone, Reclaim
    PROVE  Alone'
<1>1. /\ lock = Orphan /\ lock' = Free
      /\ UNCHANGED <<available, reserved, reservation, ledgerVars, callVars, faultVars>>
  BY DEF Reclaim
<1>2. \A d \in Calls : pc[d] = "idle" /\ pc'[d] = "idle"
  BY <1>1, WalletAssumption DEF Alone, OneAtWork, callVars
<1>3. OneAtWork' /\ (\A d \in Calls : Knows(d)')
  BY <1>2 DEF OneAtWork, Knows, Posting
<1>4. JournalsBelong'
  BY <1>1, <1>2 DEF Alone, JournalsBelong, Posting, ledgerVars, callVars, faultVars
<1>5. Surplus = 0 /\ Lead = 0 /\ Surplus' = 0 /\ Lead' = 0
  BY <1>1, WalletAssumption DEF Surplus, Lead
<1>6. HoldsAdd'
  BY <1>1, <1>5, HeldSame DEF Alone, HoldsAdd, faultVars
<1>7. LedgerAdds'
  BY <1>1, <1>5 DEF Alone, LedgerAdds, ledgerVars, faultVars, SentOnce
<1> QED BY <1>3, <1>4, <1>6, <1>7 DEF Alone

LEMMA Stutter ==
    ASSUME Alone, UNCHANGED vars
    PROVE  Alone'
<1>1. UNCHANGED <<available, reserved, reservation, headers, liability, lock, pc, op, arg,
                  sends, crashes>>
  BY DEF vars, ledgerVars, callVars, faultVars
<1>2. OneAtWork' /\ (\A d \in Calls : Knows(d)') /\ JournalsBelong'
  BY <1>1 DEF Alone, OneAtWork, Knows, JournalsBelong, SentOnce
<1>3. Surplus' = Surplus /\ Lead' = Lead
  BY <1>1 DEF Surplus, Lead, Owns, Leads, Signed
<1>4. HoldsAdd' /\ LedgerAdds'
  BY <1>1, <1>3, HeldSame DEF Alone, HoldsAdd, LedgerAdds, SentOnce
<1> QED BY <1>2, <1>4 DEF Alone

LEMMA InvStep == IInv /\ [Next]_vars => IInv'
<1> SUFFICES ASSUME IInv, [Next]_vars PROVE IInv'
  OBVIOUS
<1>1. TypeOK /\ TypeOK'
  BY TypeStep DEF IInv
<1>2. SUFFICES ASSUME Exclusive' PROVE Alone'
  BY <1>1 DEF IInv
<1>3. expiries = 0 /\ ~Expire
  <2>1. expiries \in Nat /\ expiries' = 0
    BY <1>1, <1>2 DEF TypeOK, Exclusive
  <2>2. \/ expiries' = expiries
        \/ expiries' = expiries + 1
    BY DEF Next, vars, faultVars, Begin, BeginReserve, BeginRelease, BeginCommit, BeginCredit,
           Acquire, Advance, Find, Record, Move, Lookup, Header, WalletLine, ContraLine,
           Unlock, Crash, Reclaim, Expire
  <2> QED BY <2>1, <2>2 DEF Expire
<1>4. Alone
  BY <1>3 DEF IInv, Exclusive
<1>5. ASSUME NEW c \in Calls, Begin(c) PROVE Alone'
  BY <1>1, <1>4, <1>5, BeginStep
<1>6. ASSUME NEW c \in Calls, Advance(c) PROVE Alone'
  BY <1>1, <1>4, <1>6, FindStep, RecordStep, MoveStep, LookupStep, HeaderStep, LineStep,
     EndStep DEF Advance
<1>7. ASSUME NEW c \in Calls, Crash(c) PROVE Alone'
  BY <1>1, <1>4, <1>7, EndStep
<1>8. CASE Reclaim
  BY <1>1, <1>4, <1>8, ReclaimStep
<1>9. CASE UNCHANGED vars
  BY <1>4, <1>9, Stutter
<1> QED BY <1>3, <1>5, <1>6, <1>7, <1>8, <1>9 DEF Next

THEOREM Invariance == Spec => []IInv
  BY InvInit, InvStep, PTL DEF Spec

-----------------------------------------------------------------------------
(* The properties.                                                         *)

\* For any number of calls, crashes and repeated requests, the reserved balance covers
\* every open reservation as long as no lock expires under its holder.
THEOREM HoldsAreCovered == Spec => []HoldsCovered
<1>1. IInv => HoldsCovered
  <2> SUFFICES ASSUME IInv, Exclusive PROVE reserved >= Total(Held)
    BY DEF HoldsCovered
  <2>1. reserved >= Total(Held) + Surplus
    BY DEF IInv, Alone, HoldsAdd
  <2>2. Surplus \in Nat
    BY AmountType DEF IInv, TypeOK, Surplus
  <2>3. Total(Held) \in Nat /\ reserved \in Nat
    BY HeldType DEF IInv, TypeOK
  <2> QED BY <2>1, <2>2, <2>3
<1> QED BY Invariance, <1>1, PTL

\* Without faults the reserved balance is, between calls, exactly what is held.
THEOREM HoldsAreExact == Spec => []HoldsExact
<1>1. IInv => HoldsExact
  <2> SUFFICES ASSUME IInv, NoFault, Quiet PROVE reserved = Total(Held)
    BY DEF HoldsExact
  <2>1. reserved = Total(Held) + Surplus
    BY DEF IInv, Alone, HoldsAdd, NoFault
  <2>2. Surplus = 0
    BY WalletAssumption DEF Surplus, Quiet
  <2>3. Total(Held) \in Nat
    BY HeldType
  <2> QED BY <2>1, <2>2, <2>3
<1> QED BY Invariance, <1>1, PTL

\* Without faults the ledger's liability is, between calls, what the wallet shows, for
\* as long as no credit was sent twice.
THEOREM LedgerIsBacked == Spec => []LedgerBacksWallet
<1>1. IInv => LedgerBacksWallet
  <2> SUFFICES ASSUME IInv, NoFault, SentOnce, Quiet PROVE liability = available + reserved
    BY DEF LedgerBacksWallet
  <2>1. liability = available + reserved + Lead
    BY DEF IInv, Alone, LedgerAdds, NoFault
  <2>2. Lead = 0
    BY WalletAssumption DEF Lead, Quiet
  <2>3. available \in Nat /\ reserved \in Nat
    BY DEF IInv, TypeOK
  <2> QED BY <2>1, <2>2, <2>3
<1> QED BY Invariance, <1>1, PTL

\* A COMMITTED reservation stays COMMITTED as long as no lock expires under its holder.
THEOREM CommitmentsAreFinal == Spec => CommittedIsFinal
<1> DEFINE Final == \A i \in Intents : Exclusive' /\ reservation[i] = "COMMITTED"
                                            => reservation'[i] = "COMMITTED"
<1>1. IInv /\ IInv' /\ [Next]_vars => [Final]_vars
  <2> SUFFICES ASSUME IInv, IInv', Next, Exclusive', NEW i \in Intents,
                      reservation[i] = "COMMITTED"
               PROVE  reservation'[i] = "COMMITTED"
    BY DEF vars
  <2>1. CASE \E c \in Calls : Record(c)
    <3>1. PICK c \in Calls : Record(c)
      BY <2>1
    <3>2. expiries = 0
      BY <3>1 DEF Record, faultVars, Exclusive
    <3>3. pc[c] = "record" /\ Knows(c)
      BY <3>1, <3>2 DEF Record, IInv, Alone, Exclusive
    <3>4. reservation[arg[c]] # "COMMITTED"
      BY <3>3 DEF Knows
    <3> QED BY <3>1, <3>4 DEF Record, IInv, TypeOK
  <2>2. CASE ~\E c \in Calls : Record(c)
    <3>1. reservation' = reservation
      BY <2>2 DEF Next, Begin, BeginReserve, BeginRelease, BeginCommit, BeginCredit, Acquire,
                  Advance, Find, Move, Lookup, Header, WalletLine, ContraLine, Unlock, Crash,
                  Reclaim, Expire
    <3> QED BY <3>1
  <2> QED BY <2>1, <2>2
<1> QED BY Invariance, <1>1, PTL DEF Spec, CommittedIsFinal

-----------------------------------------------------------------------------
(* The refinement: each step of a call is a step of WalletPromise or none. *)

\* Between calls the mapping adds nothing to the stored documents.
LEMMA RestMapped ==
    ASSUME lock \notin Calls
    PROVE  FundsTaken = 0 /\ LedgerLead = 0 /\ InProgress = {} /\ \A i \in Intents : ~Settling(i)
  BY DEF FundsTaken, LedgerLead, InProgress, Settling, Running

LEMMA RestMappedNext ==
    ASSUME lock' \notin Calls
    PROVE  FundsTaken' = 0 /\ LedgerLead' = 0 /\ InProgress' = {} /\ \A i \in Intents : ~Settling(i)'
  BY DEF FundsTaken, LedgerLead, InProgress, Settling, Running

\* What the mapping adds for a call at work that does o for x and is at step s
TakenAt(o, x, s) == IF o = "reserve" /\ s = "record" THEN Amount[x] ELSE 0
LeadAt(o, x, s) ==
    IF o \in {"commit", "credit"} /\ s \in {"contra_due", "move"}
    THEN IF o = "credit" THEN Amount[x] ELSE -Amount[x]
    ELSE 0
ProgressAt(o, x, s) ==
    IF o = "credit" /\ s \in {"postings", "contra_due", "wallet_due", "move"} THEN {x} ELSE {}
SettlingAt(o, s) ==
    \/ o = "release" /\ s = "move"
    \/ o = "commit" /\ s \in Posting \cup {"move"}

LEMMA WorkMapped ==
    ASSUME NEW c \in Calls, lock = c
    PROVE  /\ FundsTaken = TakenAt(op[c], arg[c], pc[c])
           /\ LedgerLead = LeadAt(op[c], arg[c], pc[c])
           /\ InProgress = ProgressAt(op[c], arg[c], pc[c])
           /\ \A i \in Intents : Settling(i) <=> SettlingAt(op[c], pc[c]) /\ arg[c] = i
<1>1. FundsTaken = TakenAt(op[c], arg[c], pc[c])
  BY DEF FundsTaken, Running, TakenAt
<1>2. LedgerLead = LeadAt(op[c], arg[c], pc[c])
  BY DEF LedgerLead, Running, LeadAt, Signed
<1>3. InProgress = ProgressAt(op[c], arg[c], pc[c])
  BY DEF InProgress, Running, ProgressAt
<1>4. \A i \in Intents : Settling(i) <=> SettlingAt(op[c], pc[c]) /\ arg[c] = i
  BY DEF Settling, Running, SettlingAt
<1> QED BY <1>1, <1>2, <1>3, <1>4

LEMMA WorkMappedNext ==
    ASSUME NEW c \in Calls, lock' = c
    PROVE  /\ FundsTaken' = TakenAt(op'[c], arg'[c], pc'[c])
           /\ LedgerLead' = LeadAt(op'[c], arg'[c], pc'[c])
           /\ InProgress' = ProgressAt(op'[c], arg'[c], pc'[c])
           /\ \A i \in Intents : Settling(i)' <=> SettlingAt(op'[c], pc'[c]) /\ arg'[c] = i
<1>1. FundsTaken' = TakenAt(op'[c], arg'[c], pc'[c])
  BY DEF FundsTaken, Running, TakenAt
<1>2. LedgerLead' = LeadAt(op'[c], arg'[c], pc'[c])
  BY DEF LedgerLead, Running, LeadAt, Signed
<1>3. InProgress' = ProgressAt(op'[c], arg'[c], pc'[c])
  BY DEF InProgress, Running, ProgressAt
<1>4. \A i \in Intents : Settling(i)' <=> SettlingAt(op'[c], pc'[c]) /\ arg'[c] = i
  BY DEF Settling, Running, SettlingAt
<1> QED BY <1>1, <1>2, <1>3, <1>4

\* The state of a hold as WalletPromise sees it
Hold(i) == IF Settling(i) THEN "RESERVED" ELSE reservation[i]
Funds == available + FundsTaken
Owed == liability - LedgerLead
Credited == (headers \cap Credits) \ InProgress

LEMMA StutterMapped ==
    ASSUME Funds' = Funds, Owed' = Owed, Credited' = Credited,
           \A i \in Intents : Hold(i)' = Hold(i)
    PROVE  UNCHANGED Promise!vars
<1>1. [i \in Intents |-> Hold(i)]' = [i \in Intents |-> Hold(i)]
  OBVIOUS
<1> QED BY <1>1 DEF Promise!vars, Funds, Owed, Credited, Hold

\* A call that begins has not touched anything yet.
LEMMA BeginMapped ==
    ASSUME TypeOK, Alone, NEW c \in Calls, Begin(c)
    PROVE  UNCHANGED Promise!vars
<1>1. /\ lock = Free /\ lock' = c
      /\ UNCHANGED <<available, reserved, reservation, ledgerVars>>
      /\ pc'[c] \in {"find", "lookup"}
  BY DEF Begin, BeginReserve, BeginRelease, BeginCommit, BeginCredit, Acquire, Goto, TypeOK
<1>2. FundsTaken = 0 /\ LedgerLead = 0 /\ InProgress = {} /\ \A i \in Intents : ~Settling(i)
  BY <1>1, RestMapped, WalletAssumption
<1>3. FundsTaken' = 0 /\ LedgerLead' = 0 /\ InProgress' = {} /\ \A i \in Intents : ~Settling(i)'
  <2>1. /\ FundsTaken' = TakenAt(op'[c], arg'[c], pc'[c])
        /\ LedgerLead' = LeadAt(op'[c], arg'[c], pc'[c])
        /\ InProgress' = ProgressAt(op'[c], arg'[c], pc'[c])
        /\ \A i \in Intents : Settling(i)' <=> SettlingAt(op'[c], pc'[c]) /\ arg'[c] = i
    BY <1>1, WorkMappedNext
  <2>2. \/ pc'[c] = "find"
        \/ pc'[c] = "lookup" /\ op'[c] = "credit"
    BY DEF Begin, BeginReserve, BeginRelease, BeginCommit, BeginCredit, Acquire, Goto, TypeOK
  <2>3. ~SettlingAt(op'[c], pc'[c])
    BY <2>2 DEF SettlingAt, Posting
  <2>4. /\ TakenAt(op'[c], arg'[c], pc'[c]) = 0 /\ LeadAt(op'[c], arg'[c], pc'[c]) = 0
        /\ ProgressAt(op'[c], arg'[c], pc'[c]) = {}
    BY <1>1 DEF TakenAt, LeadAt, ProgressAt
  <2> QED BY <2>1, <2>3, <2>4
<1>4. \A i \in Intents : Hold(i)' = Hold(i)
  BY <1>1, <1>2, <1>3 DEF Hold
<1>5. Funds' = Funds /\ Owed' = Owed /\ Credited' = Credited
  BY <1>1, <1>2, <1>3 DEF Funds, Owed, Credited, ledgerVars
<1> QED BY <1>4, <1>5, StutterMapped

\* A reservation takes effect when its document is written; a release and a commit
\* write their status and are still to take effect.
LEMMA RecordMapped ==
    ASSUME TypeOK, Alone, NEW c \in Calls, Record(c)
    PROVE  \/ UNCHANGED Promise!vars
           \/ \E i \in Intents : Promise!Reserve(i)
<1>0. PICK x \in Keys : x = arg[c]
  BY DEF TypeOK
<1> USE <1>0
<1>1. /\ pc[c] = "record" /\ lock = c
      /\ UNCHANGED <<available, ledgerVars, lock, op, arg>>
      /\ pc'[c] = AfterRecord(op[c])
  BY AtWork DEF Record, Goto, TypeOK
<1>2. op[c] \in {"reserve", "release", "commit"} /\ x \in Intents /\ Amount[x] \in Nat
  BY <1>1, AmountType DEF Alone, Knows, TypeOK, Ops
<1>3. reservation' = [reservation EXCEPT ![x] = NewStatus(op[c])]
  BY DEF Record
<1>4. /\ FundsTaken = TakenAt(op[c], x, "record")
      /\ LedgerLead = LeadAt(op[c], x, "record") /\ InProgress = ProgressAt(op[c], x, "record")
      /\ \A i \in Intents : Settling(i) <=> SettlingAt(op[c], "record") /\ x = i
  BY <1>1, WorkMapped
<1>5. /\ FundsTaken' = TakenAt(op[c], x, AfterRecord(op[c]))
      /\ LedgerLead' = LeadAt(op[c], x, AfterRecord(op[c]))
      /\ InProgress' = ProgressAt(op[c], x, AfterRecord(op[c]))
      /\ \A i \in Intents : Settling(i)' <=> SettlingAt(op[c], AfterRecord(op[c])) /\ x = i
  BY <1>1, WorkMappedNext
<1>6. LedgerLead = 0 /\ LedgerLead' = 0 /\ InProgress = {} /\ InProgress' = {}
  BY <1>2, <1>4, <1>5 DEF LeadAt, ProgressAt, AfterRecord
<1>7. \A i \in Intents : ~Settling(i)
  BY <1>2, <1>4 DEF SettlingAt, Posting
<1>8. Owed' = Owed /\ Credited' = Credited
  BY <1>1, <1>6 DEF Owed, Credited, ledgerVars
<1>9. CASE op[c] = "reserve"
  <2>1. FundsTaken = Amount[x] /\ FundsTaken' = 0
    BY <1>4, <1>5, <1>9 DEF TakenAt, AfterRecord
  <2>2. available \in Nat /\ available' = available
    BY <1>1 DEF TypeOK
  <2>3. Funds >= Amount[x] /\ Funds' = Funds - Amount[x]
    BY <1>2, <2>1, <2>2 DEF Funds
  <2>4. \A i \in Intents : ~Settling(i)'
    BY <1>5, <1>9 DEF SettlingAt, AfterRecord, Posting
  <2>5. reservation[x] \in {"NONE", "RELEASED"}
    BY <1>1, <1>2, <1>9 DEF Alone, Knows, TypeOK, Statuses
  <2>6. [i \in Intents |-> Hold(i)] = reservation
    BY <1>7 DEF Hold, TypeOK
  <2>7. [i \in Intents |-> Hold(i)]' = reservation'
    <3>1. \A i \in Intents : Hold(i)' = reservation'[i]
      BY <2>4 DEF Hold
    <3>2. [i \in Intents |-> Hold(i)]' = [i \in Intents |-> reservation'[i]]
      BY <3>1
    <3> QED BY <1>3, <3>2 DEF TypeOK
  <2>8. NewStatus(op[c]) = "RESERVED"
    BY <1>9 DEF NewStatus
  <2>9. Promise!Reserve(x)
    BY <1>3, <1>8, <2>3, <2>5, <2>6, <2>7, <2>8
    DEF Promise!Reserve, Funds, Owed, Credited, Hold
  <2> QED BY <1>2, <2>9
<1>10. CASE op[c] # "reserve"
  <2>1. FundsTaken = 0 /\ FundsTaken' = 0
    BY <1>4, <1>5, <1>10 DEF TakenAt
  <2>2. Funds' = Funds
    BY <1>1, <2>1 DEF Funds
  <2>3. \A i \in Intents : Settling(i)' <=> x = i
    BY <1>2, <1>5, <1>10 DEF SettlingAt, AfterRecord, Posting
  <2>4. reservation[x] = "RESERVED"
    BY <1>1, <1>10 DEF Alone, Knows
  <2>5. \A i \in Intents : Hold(i)' = Hold(i)
    BY <1>2, <1>3, <1>7, <2>3, <2>4 DEF Hold, TypeOK, NewStatus
  <2> QED BY <1>8, <2>2, <2>5, StutterMapped
<1> QED BY <1>9, <1>10

\* The other operations take effect when the balance moves.
LEMMA MoveMapped ==
    ASSUME TypeOK, Alone, NEW c \in Calls, Move(c)
    PROVE  \/ UNCHANGED Promise!vars
           \/ \E k \in Credits : Promise!Credit(k)
           \/ \E i \in Intents : Promise!Release(i) \/ Promise!Commit(i)
<1>0. PICK x \in Keys : x = arg[c]
  BY DEF TypeOK
<1> USE <1>0
<1>1. /\ pc[c] = "move" /\ lock = c
      /\ UNCHANGED <<reservation, headers, liability, lock, op, arg>>
      /\ pc'[c] = AfterMove(c)
  BY AtWork DEF Move, Goto, TypeOK, ledgerVars
<1>2. /\ op[c] \in Ops /\ x \in Keys /\ Amount[x] \in Nat /\ available \in Nat
      /\ reserved \in Nat /\ liability \in Int
      /\ x \in IF op[c] = "credit" THEN Credits ELSE Intents
  BY AmountType DEF TypeOK
<1>3. /\ FundsTaken = TakenAt(op[c], x, "move")
      /\ LedgerLead = LeadAt(op[c], x, "move") /\ InProgress = ProgressAt(op[c], x, "move")
      /\ \A i \in Intents : Settling(i) <=> SettlingAt(op[c], "move") /\ x = i
  BY <1>1, WorkMapped
<1>4. /\ FundsTaken' = TakenAt(op[c], x, AfterMove(c))
      /\ LedgerLead' = LeadAt(op[c], x, AfterMove(c))
      /\ InProgress' = ProgressAt(op[c], x, AfterMove(c))
      /\ \A i \in Intents : Settling(i)' <=> SettlingAt(op[c], AfterMove(c)) /\ x = i
  BY <1>1, WorkMappedNext
<1>5. AfterMove(c) \in {"record", "unlock"} /\ (AfterMove(c) = "record" => op[c] = "reserve")
  BY DEF AfterMove
<1>6. FundsTaken = 0 /\ LedgerLead' = 0 /\ InProgress' = {} /\ \A i \in Intents : ~Settling(i)'
  BY <1>3, <1>4, <1>5 DEF TakenAt, LeadAt, ProgressAt, SettlingAt, Posting
<1>7. op[c] \in {"release", "commit"} => Covered(c)
  <2> SUFFICES ASSUME op[c] \in {"release", "commit"} PROVE reserved >= Amount[x]
    BY DEF Covered
  <2>1. Surplus = Amount[x]
    BY <1>1, AtWork DEF Owns
  <2> QED BY <1>2, <2>1, HeldType DEF Alone, HoldsAdd
<1>8. [i \in Intents |-> Hold(i)]' = reservation
  <2>1. \A i \in Intents : Hold(i)' = reservation[i]
    BY <1>1, <1>6 DEF Hold
  <2>2. [i \in Intents |-> Hold(i)]' = [i \in Intents |-> reservation[i]]
    BY <2>1
  <2> QED BY <2>2 DEF TypeOK
<1>9. CASE op[c] = "reserve"
  <2>1. LedgerLead = 0 /\ InProgress = {} /\ \A i \in Intents : ~Settling(i)
    BY <1>3, <1>9 DEF LeadAt, ProgressAt, SettlingAt
  <2>2. FundsTaken' = IF Covered(c) THEN Amount[x] ELSE 0
    BY <1>4, <1>9 DEF TakenAt, AfterMove
  <2>3. available' = IF Covered(c) THEN available - Amount[x] ELSE available
    BY <1>2, <1>9 DEF Move, AvailableChange
  <2>4. Funds' = Funds
    BY <1>2, <1>6, <2>2, <2>3 DEF Funds
  <2>5. Owed' = Owed /\ Credited' = Credited /\ \A i \in Intents : Hold(i)' = Hold(i)
    BY <1>1, <1>6, <2>1 DEF Owed, Credited, Hold
  <2> QED BY <2>4, <2>5, StutterMapped
<1>10. CASE op[c] = "release"
  <2>1. LedgerLead = 0 /\ InProgress = {} /\ \A i \in Intents : Settling(i) <=> x = i
    BY <1>3, <1>10 DEF LeadAt, ProgressAt, SettlingAt
  <2>2. FundsTaken' = 0
    BY <1>4, <1>10 DEF TakenAt
  <2>3. available' = available + Amount[x]
    BY <1>2, <1>7, <1>10 DEF Move, AvailableChange
  <2>4. Funds' = Funds + Amount[x]
    BY <1>2, <1>6, <2>2, <2>3 DEF Funds
  <2>5. Owed' = Owed /\ Credited' = Credited
    BY <1>1, <1>6, <2>1 DEF Owed, Credited
  <2>6. reservation[x] = "RELEASED" /\ x \in Intents
    BY <1>1, <1>2, <1>10 DEF Alone, Knows
  <2>7. Hold(x) = "RESERVED" /\ \A i \in Intents : i # x => Hold(i) = reservation[i]
    BY <2>1, <2>6 DEF Hold
  <2>8. [i \in Intents |-> Hold(i)]' = [[i \in Intents |-> Hold(i)] EXCEPT ![x] = "RELEASED"]
    BY <1>8, <2>6, <2>7 DEF TypeOK
  <2>9. Promise!Release(x)
    BY <2>4, <2>5, <2>6, <2>7, <2>8 DEF Promise!Release, Funds, Owed, Credited, Hold
  <2> QED BY <2>6, <2>9
<1>11. CASE op[c] = "commit"
  <2>1. LedgerLead = -Amount[x] /\ InProgress = {} /\ \A i \in Intents : Settling(i) <=> x = i
    BY <1>3, <1>11 DEF LeadAt, ProgressAt, SettlingAt
  <2>2. FundsTaken' = 0
    BY <1>4, <1>11 DEF TakenAt
  <2>3. available' = available
    BY <1>2, <1>11 DEF Move, AvailableChange
  <2>4. Funds' = Funds /\ Owed' = Owed - Amount[x] /\ Credited' = Credited
    BY <1>1, <1>2, <1>6, <2>1, <2>2, <2>3 DEF Funds, Owed, Credited
  <2>5. reservation[x] = "COMMITTED" /\ x \in Intents
    BY <1>1, <1>2, <1>11 DEF Alone, JournalsBelong
  <2>6. Hold(x) = "RESERVED" /\ \A i \in Intents : i # x => Hold(i) = reservation[i]
    BY <2>1, <2>5 DEF Hold
  <2>7. [i \in Intents |-> Hold(i)]' = [[i \in Intents |-> Hold(i)] EXCEPT ![x] = "COMMITTED"]
    BY <1>8, <2>5, <2>6 DEF TypeOK
  <2>8. Promise!Commit(x)
    BY <2>4, <2>5, <2>6, <2>7 DEF Promise!Commit, Funds, Owed, Credited, Hold
  <2> QED BY <2>5, <2>8
<1>12. CASE op[c] = "credit"
  <2>1. LedgerLead = Amount[x] /\ InProgress = {x} /\ \A i \in Intents : ~Settling(i)
    BY <1>3, <1>12 DEF LeadAt, ProgressAt, SettlingAt
  <2>2. FundsTaken' = 0
    BY <1>4, <1>12 DEF TakenAt
  <2>3. available' = available + Amount[x]
    BY <1>2, <1>12 DEF Move, Covered, AvailableChange
  <2>4. Funds' = Funds + Amount[x] /\ Owed' = Owed + Amount[x]
    BY <1>1, <1>2, <1>6, <2>1, <2>2, <2>3 DEF Funds, Owed
  <2>5. x \in headers \cap Credits
    BY <1>1, <1>2, <1>12 DEF Alone, JournalsBelong
  <2>6. x \notin Credited /\ Credited' = Credited \cup {x}
    BY <1>1, <1>6, <2>1, <2>5 DEF Credited
  <2>7. [i \in Intents |-> Hold(i)] = reservation
    BY <2>1 DEF Hold, TypeOK
  <2>8. Promise!Credit(x)
    BY <1>8, <2>4, <2>6, <2>7 DEF Promise!Credit, Funds, Owed, Credited, Hold
  <2> QED BY <2>5, <2>8
<1> QED BY <1>2, <1>9, <1>10, <1>11, <1>12 DEF Ops

\* Reading the reservation, writing the journal and handing back the lock stay hidden.
LEMMA HiddenMapped ==
    ASSUME TypeOK, Alone, SentOnce, NEW c \in Calls,
           Find(c) \/ Lookup(c) \/ Header(c) \/ WalletLine(c) \/ ContraLine(c) \/ Unlock(c)
    PROVE  UNCHANGED Promise!vars
<1> DEFINE x == arg[c]
<1>1. /\ pc[c] # "idle" /\ lock = c
      /\ UNCHANGED <<available, reservation, op, arg>>
  BY AtWork DEF Find, Lookup, Header, WalletLine, ContraLine, Unlock, ledgerVars
<1>2. /\ FundsTaken = TakenAt(op[c], x, pc[c])
      /\ LedgerLead = LeadAt(op[c], x, pc[c]) /\ InProgress = ProgressAt(op[c], x, pc[c])
      /\ \A i \in Intents : Settling(i) <=> SettlingAt(op[c], pc[c]) /\ x = i
  BY <1>1, WorkMapped
<1>3. Amount[x] \in Nat /\ liability \in Int /\ x \in Keys
      /\ x \in IF op[c] = "credit" THEN Credits ELSE Intents
  BY AmountType DEF TypeOK
<1>4. CASE Unlock(c)
  <2>1. lock' \notin Calls /\ pc[c] = "unlock" /\ UNCHANGED <<headers, liability>>
    BY <1>1, <1>4, WalletAssumption DEF Unlock, ledgerVars
  <2>2. FundsTaken = 0 /\ LedgerLead = 0 /\ InProgress = {} /\ \A i \in Intents : ~Settling(i)
    BY <1>2, <2>1 DEF TakenAt, LeadAt, ProgressAt, SettlingAt, Posting
  <2>3. FundsTaken' = 0 /\ LedgerLead' = 0 /\ InProgress' = {} /\ \A i \in Intents : ~Settling(i)'
    BY <2>1, RestMappedNext
  <2> QED BY <1>1, <2>1, <2>2, <2>3, StutterMapped DEF Funds, Owed, Credited, Hold
<1>5. ASSUME lock' = lock
      PROVE  /\ FundsTaken' = TakenAt(op[c], x, pc'[c])
             /\ LedgerLead' = LeadAt(op[c], x, pc'[c]) /\ InProgress' = ProgressAt(op[c], x, pc'[c])
             /\ \A i \in Intents : Settling(i)' <=> SettlingAt(op[c], pc'[c]) /\ x = i
  BY <1>1, <1>5, WorkMappedNext
<1>6. CASE Find(c)
  <2>1. /\ lock' = lock /\ UNCHANGED <<headers, liability>>
        /\ pc[c] = "find" /\ pc'[c] = AfterFind(c) /\ op[c] # "credit"
    BY <1>6 DEF Find, Goto, TypeOK, ledgerVars, Alone, Knows
  <2>2. \/ pc'[c] = "unlock"
        \/ pc'[c] = "move" /\ op[c] = "reserve"
        \/ pc'[c] = "record" /\ op[c] # "reserve"
    BY <2>1 DEF AfterFind
  <2>3. FundsTaken = 0 /\ LedgerLead = 0 /\ InProgress = {} /\ \A i \in Intents : ~Settling(i)
    BY <1>2, <2>1 DEF TakenAt, LeadAt, ProgressAt, SettlingAt, Posting
  <2>4. FundsTaken' = 0 /\ LedgerLead' = 0 /\ InProgress' = {} /\ \A i \in Intents : ~Settling(i)'
    BY <1>5, <2>1, <2>2 DEF TakenAt, LeadAt, ProgressAt, SettlingAt, Posting
  <2> QED BY <1>1, <2>1, <2>3, <2>4, StutterMapped DEF Funds, Owed, Credited, Hold
<1>7. CASE Lookup(c) \/ Header(c) \/ WalletLine(c) \/ ContraLine(c)
  <2>1. lock' = lock /\ pc[c] \in Posting /\ op[c] \in {"commit", "credit"}
    BY <1>7 DEF Lookup, Header, WalletLine, ContraLine, Posting, Alone, Knows
  <2>2. pc[c] \in {"lookup", "header"} => x \notin headers
    BY DEF Alone, JournalsBelong
  <2>3. pc'[c] \in Posting \cup {"move"}
    BY <1>7, <2>2 DEF Lookup, Header, WalletLine, ContraLine, Goto, TypeOK, Posting
  <2>4. Funds' = Funds
    BY <1>1, <1>2, <1>5, <2>1 DEF Funds, TakenAt
  <2>5. \A i \in Intents : Settling(i)' <=> Settling(i)
    BY <1>2, <1>5, <2>1, <2>3 DEF SettlingAt
  <2>6. \A i \in Intents : Hold(i)' = Hold(i)
    BY <1>1, <2>5 DEF Hold
  <2>7. Owed' = Owed
    <3>1. CASE Lookup(c) \/ Header(c)
      <4>1. pc[c] \in {"lookup", "header"} /\ pc'[c] \in {"header", "postings"}
        BY <2>2, <3>1 DEF Lookup, Header, Goto, TypeOK
      <4>2. liability' = liability
        BY <3>1 DEF Lookup, Header, ledgerVars
      <4> QED BY <1>2, <1>5, <2>1, <4>1, <4>2 DEF Owed, LeadAt
    <3>2. CASE WalletLine(c)
      <4>1. pc[c] \in {"postings", "wallet_due"} /\ pc'[c] \in {"contra_due", "move"}
        BY <3>2 DEF WalletLine, Goto, TypeOK
      <4>2. LedgerLead = 0 /\ LedgerLead' = Signed(c)
        BY <1>2, <1>5, <2>1, <4>1 DEF LeadAt, Signed
      <4>3. liability' = liability + Signed(c) /\ Signed(c) \in Int
        BY <1>3, <3>2 DEF WalletLine, Signed
      <4> QED BY <1>3, <4>2, <4>3 DEF Owed
    <3>3. CASE ContraLine(c)
      <4>1. \/ pc[c] = "postings" /\ pc'[c] = "wallet_due"
            \/ pc[c] = "contra_due" /\ pc'[c] = "move"
        BY <3>3 DEF ContraLine, Goto, TypeOK
      <4>2. LedgerLead' = LedgerLead
        BY <1>2, <1>5, <2>1, <4>1 DEF LeadAt
      <4>3. liability' = liability
        BY <3>3 DEF ContraLine
      <4> QED BY <4>2, <4>3 DEF Owed
    <3> QED BY <1>7, <3>1, <3>2, <3>3
  <2>8. Credited' = Credited
    <3>1. CASE Header(c)
      <4>1. pc[c] = "header" /\ pc'[c] = "postings" /\ x \notin headers /\ headers' = headers \cup {x}
        BY <2>2, <3>1 DEF Header, Goto, TypeOK
      <4>2. InProgress = {} /\ InProgress' = IF op[c] = "credit" THEN {x} ELSE {}
        BY <1>2, <1>5, <2>1, <4>1 DEF ProgressAt
      <4>3. op[c] = "commit" => x \notin Credits
        BY <1>3, WalletAssumption
      <4> QED BY <2>1, <4>1, <4>2, <4>3 DEF Credited
    <3>2. CASE Lookup(c) \/ WalletLine(c) \/ ContraLine(c)
      <4>1. headers' = headers
        BY <3>2 DEF Lookup, WalletLine, ContraLine, ledgerVars
      <4>2. \/ pc[c] = "lookup" /\ pc'[c] = "header"
            \/ /\ pc[c] \in {"postings", "contra_due", "wallet_due"}
               /\ pc'[c] \in {"contra_due", "wallet_due", "move"}
        BY <2>2, <3>2 DEF Lookup, WalletLine, ContraLine, Goto, TypeOK
      <4>3. InProgress' = InProgress
        BY <1>2, <1>5, <2>1, <4>2 DEF ProgressAt
      <4> QED BY <4>1, <4>3 DEF Credited
    <3> QED BY <1>7, <3>1, <3>2
  <2> QED BY <2>4, <2>6, <2>7, <2>8, StutterMapped
<1> QED BY <1>4, <1>6, <1>7

LEMMA IdleMapped ==
    ASSUME Reclaim \/ UNCHANGED vars
    PROVE  UNCHANGED Promise!vars
<1>1. CASE Reclaim
  <2>1. /\ lock \notin Calls /\ lock' \notin Calls
        /\ UNCHANGED <<available, reservation, headers, liability>>
    BY <1>1, WalletAssumption DEF Reclaim, ledgerVars
  <2>2. FundsTaken = 0 /\ LedgerLead = 0 /\ InProgress = {} /\ \A i \in Intents : ~Settling(i)
    BY <2>1, RestMapped
  <2>3. FundsTaken' = 0 /\ LedgerLead' = 0 /\ InProgress' = {} /\ \A i \in Intents : ~Settling(i)'
    BY <2>1, RestMappedNext
  <2> QED BY <2>1, <2>2, <2>3, StutterMapped DEF Funds, Owed, Credited, Hold
<1>2. CASE UNCHANGED vars
  <2>1. UNCHANGED <<available, reservation, headers, liability, lock, pc, op, arg>>
    BY <1>2 DEF vars, ledgerVars, callVars
  <2>2. FundsTaken' = FundsTaken /\ InProgress' = InProgress /\ LedgerLead' = LedgerLead
    BY <2>1 DEF FundsTaken, InProgress, LedgerLead, Running, Signed
  <2>3. \A i \in Intents : Settling(i)' <=> Settling(i)
    BY <2>1 DEF Settling, Running
  <2> QED BY <2>1, <2>2, <2>3, StutterMapped DEF Funds, Owed, Credited, Hold
<1> QED BY <1>1, <1>2

\* Wallet implements WalletPromise: for any number of calls, intents and credits, every
\* step of the service is one credit, hold, release or commit of the abstract wallet, or
\* changes nothing of it, for as long as no call dies, no lock expires under its holder
\* and no credit is sent twice.
THEOREM WalletKeepsPromise == Spec => KeepsPromise
<1> DEFINE Step == (NoFault /\ SentOnce)' => [Promise!Next]_(Promise!vars)
<1>1. Init => Promise!Init
  <2> SUFFICES ASSUME Init PROVE Promise!Init
    OBVIOUS
  <2>1. FundsTaken = 0 /\ LedgerLead = 0 /\ InProgress = {} /\ \A i \in Intents : ~Settling(i)
    BY RestMapped, WalletAssumption DEF Init
  <2>2. Funds = 0 /\ Owed = 0 /\ Credited = {} /\ \A i \in Intents : Hold(i) = "NONE"
    BY <2>1 DEF Init, Funds, Owed, Credited, Hold
  <2> QED BY <2>2 DEF Promise!Init, Funds, Owed, Credited, Hold
<1>2. IInv /\ IInv' /\ [Next]_vars => [Step]_vars
  <2> SUFFICES ASSUME IInv, IInv', [Next]_vars, NoFault', SentOnce'
               PROVE  Promise!Next \/ UNCHANGED Promise!vars
    OBVIOUS
  <2>1. TypeOK /\ TypeOK'
    BY DEF IInv
  <2>2. /\ crashes' = 0 /\ expiries' = 0 /\ crashes \in Nat /\ expiries \in Nat
        /\ \A k \in Credits : sends[k] \in Nat /\ sends'[k] \in Nat /\ sends'[k] <= 1
    BY <2>1 DEF NoFault, Exclusive, SentOnce, TypeOK
  <2>3. ~Expire /\ \A c \in Calls : ~Crash(c)
    BY <2>2 DEF Expire, Crash
  <2>4. expiries = 0 /\ \A k \in Credits : sends[k] <= sends'[k]
    BY <2>1, <2>2, <2>3 DEF Next, vars, faultVars, Begin, BeginReserve, BeginRelease,
       BeginCommit, BeginCredit, Acquire, Advance, Find, Record, Move, Lookup, Header,
       WalletLine, ContraLine, Unlock, Reclaim, TypeOK
  <2>5. Alone /\ SentOnce
    BY <2>2, <2>4 DEF IInv, Exclusive, SentOnce
  <2>6. ASSUME NEW c \in Calls, Begin(c) PROVE UNCHANGED Promise!vars
    BY <2>1, <2>5, <2>6, BeginMapped
  <2>7. ASSUME NEW c \in Calls, Advance(c) PROVE Promise!Next \/ UNCHANGED Promise!vars
    <3>1. CASE Record(c)
      <4>1. UNCHANGED Promise!vars \/ \E i \in Intents : Promise!Reserve(i)
        BY <2>1, <2>5, <3>1, RecordMapped
      <4> QED BY <4>1 DEF Promise!Next
    <3>2. CASE Move(c)
      <4>1. \/ UNCHANGED Promise!vars
            \/ \E k \in Credits : Promise!Credit(k)
            \/ \E i \in Intents : Promise!Release(i) \/ Promise!Commit(i)
        BY <2>1, <2>5, <3>2, MoveMapped
      <4> QED BY <4>1 DEF Promise!Next
    <3>3. CASE Find(c) \/ Lookup(c) \/ Header(c) \/ WalletLine(c) \/ ContraLine(c) \/ Unlock(c)
      BY <2>1, <2>5, <3>3, HiddenMapped
    <3> QED BY <2>7, <3>1, <3>2, <3>3 DEF Advance
  <2>8. CASE Reclaim \/ UNCHANGED vars
    BY <2>8, IdleMapped
  <2> QED BY <2>3, <2>6, <2>7, <2>8 DEF Next
<1> QED BY <1>1, <1>2, Invariance, PTL DEF Spec, KeepsPromise

-----------------------------------------------------------------------------
(* The books. A call that has written one line of its journal leaves the   *)
(* two accounts apart by its amount until it writes the other one: Over is *)
(* the set of calls that have put the wallet account ahead, Under the set  *)
(* of those that have put it behind. Nothing is assumed of the lock here.  *)

HalfWay == {c \in Calls : pc[c] \in {"contra_due", "wallet_due"}}
Over == {c \in HalfWay : pc[c] = "contra_due" <=> op[c] = "credit"}
Under == HalfWay \ Over
Price == [c \in Calls |-> Amount[arg[c]]]
OverSum == Cardinality(Coins(Over, Price))
UnderSum == Cardinality(Coins(Under, Price))

BooksInv ==
    /\ IsFiniteSet(HalfWay)
    /\ crashes = 0 => liability + UnderSum = contra + OverSum

LEMMA BooksInit == Init => BooksInv
<1> SUFFICES ASSUME Init PROVE BooksInv
  OBVIOUS
<1>1. HalfWay = {} /\ Over = {} /\ Under = {}
  BY DEF Init, HalfWay, Over, Under
<1>2. Coins({}, Price) = {}
  BY DEF Coins
<1>3. OverSum = 0 /\ UnderSum = 0
  BY <1>1, <1>2, FS_EmptySet DEF OverSum, UnderSum
<1> QED BY <1>1, <1>3, FS_EmptySet DEF BooksInv, Init

LEMMA BooksTypes ==
    ASSUME TypeOK, BooksInv
    PROVE  /\ \A c \in Calls : Price[c] \in Nat
           /\ IsFiniteSet(Over) /\ IsFiniteSet(Under)
           /\ OverSum \in Nat /\ UnderSum \in Nat
<1>1. \A c \in Calls : Price[c] \in Nat
  BY AmountType DEF Price, TypeOK
<1>2. IsFiniteSet(Over) /\ IsFiniteSet(Under)
  BY FS_Subset DEF BooksInv, Over, Under
<1>3. Over \subseteq Calls /\ Under \subseteq Calls
  BY DEF Over, Under, HalfWay
<1>4. OverSum \in Nat /\ UnderSum \in Nat
  BY <1>1, <1>2, <1>3, CoinsFinite DEF OverSum, UnderSum
<1> QED BY <1>1, <1>2, <1>4

\* A line that completes no journal and starts none leaves the sums alone.
LEMMA SumsSame ==
    ASSUME Over' = Over, Under' = Under, HalfWay' = HalfWay,
           \A c \in HalfWay : arg'[c] = arg[c]
    PROVE  OverSum' = OverSum /\ UnderSum' = UnderSum
<1>1. Over \subseteq HalfWay /\ Under \subseteq HalfWay /\ HalfWay \subseteq Calls
  BY DEF Over, Under, HalfWay
<1>2. \A c \in HalfWay : Price'[c] = Price[c]
  BY <1>1 DEF Price
<1>3. Coins(Over', Price') = Coins(Over, Price)
  BY <1>1, <1>2 DEF Coins
<1>4. Coins(Under', Price') = Coins(Under, Price)
  BY <1>1, <1>2 DEF Coins
<1> QED BY <1>3, <1>4 DEF OverSum, UnderSum

\* The sums move by the amount of the call that writes one of its two lines.
LEMMA LineSums ==
    ASSUME TypeOK, BooksInv, NEW c \in Calls, UNCHANGED <<op, arg>>,
           NEW s \in Steps, pc' = [pc EXCEPT ![c] = s],
           \/ pc[c] = "postings" /\ s \in {"contra_due", "wallet_due"}
           \/ pc[c] \in {"contra_due", "wallet_due"} /\ s = "move"
    PROVE  /\ IsFiniteSet(HalfWay')
           /\ UnderSum' - OverSum' =
                UnderSum - OverSum
                  + (IF s = "wallet_due" \/ pc[c] = "contra_due" THEN Signed(c) ELSE -Signed(c))
           /\ OverSum' \in Nat /\ UnderSum' \in Nat
<1>1. /\ \A d \in Calls : Price[d] \in Nat
      /\ IsFiniteSet(Over) /\ IsFiniteSet(Under) /\ OverSum \in Nat /\ UnderSum \in Nat
  BY BooksTypes
<1>2. Over \subseteq Calls /\ Under \subseteq Calls /\ Price' = Price /\ Price[c] = Amount[arg[c]]
  BY DEF Over, Under, HalfWay, Price
<1>3. ASSUME NEW S, NEW T, IsFiniteSet(S), S \subseteq Calls, c \notin S, T = S \cup {c}
      PROVE  /\ Cardinality(Coins(T, Price)) = Cardinality(Coins(S, Price)) + Price[c]
             /\ Cardinality(Coins(S, Price)) \in Nat
  BY <1>1, <1>3, CoinsAdd, CoinsFinite
<1>4. pc'[c] = s /\ \A d \in Calls : d # c => pc'[d] = pc[d]
  BY DEF TypeOK
<1>5. CASE pc[c] = "postings" /\ s \in {"contra_due", "wallet_due"}
  <2>1. c \notin HalfWay /\ HalfWay' = HalfWay \cup {c} /\ c \notin Over /\ c \notin Under
    BY <1>4, <1>5 DEF HalfWay, Over, Under
  <2>2. IsFiniteSet(HalfWay')
    BY <2>1, FS_AddElement DEF BooksInv
  <2>3. CASE s = "contra_due" <=> op[c] = "credit"
    <3>1. Over' = Over \cup {c} /\ Under' = Under
      BY <1>4, <1>5, <2>1, <2>3 DEF HalfWay, Over, Under
    <3>2. OverSum' = OverSum + Price[c] /\ UnderSum' = UnderSum
      BY <1>1, <1>2, <1>3, <2>1, <3>1 DEF OverSum, UnderSum
    <3> QED BY <1>1, <1>2, <1>5, <2>2, <2>3, <3>2 DEF Signed
  <2>4. CASE ~(s = "contra_due" <=> op[c] = "credit")
    <3>1. Over' = Over /\ Under' = Under \cup {c}
      BY <1>4, <1>5, <2>1, <2>4 DEF HalfWay, Over, Under
    <3>2. OverSum' = OverSum /\ UnderSum' = UnderSum + Price[c]
      BY <1>1, <1>2, <1>3, <2>1, <3>1 DEF OverSum, UnderSum
    <3> QED BY <1>1, <1>2, <1>5, <2>2, <2>4, <3>2 DEF Signed
  <2> QED BY <2>3, <2>4
<1>6. CASE pc[c] \in {"contra_due", "wallet_due"} /\ s = "move"
  <2>1. c \in HalfWay /\ HalfWay' = HalfWay \ {c}
    BY <1>4, <1>6 DEF HalfWay
  <2>2. IsFiniteSet(HalfWay')
    BY <2>1, FS_Subset DEF BooksInv
  <2>3. CASE pc[c] = "contra_due" <=> op[c] = "credit"
    <3>1. Over = Over' \cup {c} /\ c \notin Over' /\ Under' = Under
      BY <1>4, <2>1, <2>3 DEF HalfWay, Over, Under
    <3>2. IsFiniteSet(Over') /\ Over' \subseteq Calls
      BY <1>1, <1>2, <3>1, FS_Subset
    <3>3. OverSum = OverSum' + Price[c] /\ UnderSum' = UnderSum /\ OverSum' \in Nat
      BY <1>2, <1>3, <3>1, <3>2 DEF OverSum, UnderSum
    <3> QED BY <1>1, <1>2, <1>6, <2>2, <2>3, <3>3 DEF Signed
  <2>4. CASE ~(pc[c] = "contra_due" <=> op[c] = "credit")
    <3>1. Over' = Over /\ Under = Under' \cup {c} /\ c \notin Under'
      BY <1>4, <2>1, <2>4 DEF HalfWay, Over, Under
    <3>2. IsFiniteSet(Under') /\ Under' \subseteq Calls
      BY <1>1, <1>2, <3>1, FS_Subset
    <3>3. UnderSum = UnderSum' + Price[c] /\ OverSum' = OverSum /\ UnderSum' \in Nat
      BY <1>2, <1>3, <3>1, <3>2 DEF OverSum, UnderSum
    <3> QED BY <1>1, <1>2, <1>6, <2>2, <2>4, <3>3 DEF Signed
  <2> QED BY <2>3, <2>4
<1> QED BY <1>5, <1>6

LEMMA BooksLine ==
    ASSUME TypeOK, TypeOK', BooksInv, NEW c \in Calls, WalletLine(c) \/ ContraLine(c)
    PROVE  BooksInv'
<1> DEFINE s == pc'[c]
<1>1. /\ pc' = [pc EXCEPT ![c] = s] /\ s \in Steps /\ UNCHANGED <<op, arg, crashes>>
      /\ \/ pc[c] = "postings" /\ s \in {"contra_due", "wallet_due"}
         \/ pc[c] \in {"contra_due", "wallet_due"} /\ s = "move"
  BY DEF WalletLine, ContraLine, Goto, TypeOK, faultVars
<1>2. liability' - contra' = liability - contra
        + (IF s = "wallet_due" \/ pc[c] = "contra_due" THEN -Signed(c) ELSE Signed(c))
  <2>1. Signed(c) \in Int /\ liability \in Int /\ contra \in Int
    BY AmountType DEF Signed, TypeOK
  <2>2. \/ /\ pc[c] \in {"postings", "wallet_due"} /\ s \in {"contra_due", "move"}
           /\ liability' = liability + Signed(c) /\ contra' = contra
        \/ /\ \/ pc[c] = "postings" /\ s = "wallet_due"
              \/ pc[c] = "contra_due" /\ s = "move"
           /\ contra' = contra + Signed(c) /\ liability' = liability
    BY DEF WalletLine, ContraLine, Goto, TypeOK
  <2> QED BY <2>1, <2>2
<1> HIDE DEF s
<1>3. /\ IsFiniteSet(HalfWay')
      /\ UnderSum' - OverSum' =
           UnderSum - OverSum
             + (IF s = "wallet_due" \/ pc[c] = "contra_due" THEN Signed(c) ELSE -Signed(c))
      /\ OverSum' \in Nat /\ UnderSum' \in Nat
  BY <1>1, LineSums
<1>4. /\ Signed(c) \in Int /\ liability \in Int /\ contra \in Int /\ liability' \in Int
      /\ contra' \in Int /\ OverSum \in Nat /\ UnderSum \in Nat
  BY AmountType, BooksTypes DEF Signed, TypeOK
<1>5. crashes = 0 => liability + UnderSum = contra + OverSum
  BY DEF BooksInv
<1>6. crashes' = 0 => liability' + UnderSum' = contra' + OverSum'
  BY <1>1, <1>2, <1>3, <1>4, <1>5
<1> QED BY <1>3, <1>6 DEF BooksInv

\* Every other step leaves the two accounts, and the calls that are half-way, alone.
LEMMA BooksElse ==
    ASSUME TypeOK, BooksInv,
           UNCHANGED <<liability, contra, crashes>>,
           \A d \in Calls : /\ d \in HalfWay <=> d \in HalfWay'
                            /\ d \in HalfWay => pc'[d] = pc[d] /\ op'[d] = op[d] /\ arg'[d] = arg[d]
    PROVE  BooksInv'
<1>1. HalfWay' = HalfWay
  BY DEF HalfWay
<1>2. Over' = Over /\ Under' = Under
  BY <1>1 DEF Over, Under, HalfWay
<1>3. OverSum' = OverSum /\ UnderSum' = UnderSum
  BY <1>1, <1>2, SumsSame DEF HalfWay
<1> QED BY <1>1, <1>3 DEF BooksInv

LEMMA BooksStep == TypeOK /\ TypeOK' /\ BooksInv /\ [Next]_vars => BooksInv'
<1> SUFFICES ASSUME TypeOK, TypeOK', BooksInv, [Next]_vars PROVE BooksInv'
  OBVIOUS
<1>1. ASSUME NEW c \in Calls, Begin(c) PROVE BooksInv'
  <2>1. /\ UNCHANGED <<liability, contra, crashes>>
        /\ pc[c] = "idle" /\ pc'[c] \in {"find", "lookup"}
        /\ \A d \in Calls : d # c => pc'[d] = pc[d] /\ op'[d] = op[d] /\ arg'[d] = arg[d]
    BY <1>1 DEF Begin, BeginReserve, BeginRelease, BeginCommit, BeginCredit, Acquire, Goto,
                TypeOK, ledgerVars
  <2> QED BY <2>1, BooksElse DEF HalfWay
<1>2. ASSUME NEW c \in Calls,
             Find(c) \/ Record(c) \/ Move(c) \/ Lookup(c) \/ Header(c) \/ Unlock(c)
      PROVE  BooksInv'
  <2>1. /\ UNCHANGED <<liability, contra, crashes, op, arg>>
        /\ pc[c] \notin {"contra_due", "wallet_due"} /\ pc' = [pc EXCEPT ![c] = pc'[c]]
    BY <1>2 DEF Find, Record, Move, Lookup, Header, Unlock, Goto, TypeOK, ledgerVars, faultVars
  <2>2. pc'[c] \notin {"contra_due", "wallet_due"}
    BY <1>2 DEF Find, Record, Move, Lookup, Header, Unlock, Goto, TypeOK, AfterFind,
                AfterRecord, AfterMove
  <2>3. \A d \in Calls : d # c => pc'[d] = pc[d]
    BY <2>1 DEF TypeOK
  <2> QED BY <2>1, <2>2, <2>3, BooksElse DEF HalfWay
<1>3. ASSUME NEW c \in Calls, WalletLine(c) \/ ContraLine(c) PROVE BooksInv'
  BY <1>3, BooksLine
<1>4. ASSUME NEW c \in Calls, Crash(c) PROVE BooksInv'
  <2>1. crashes \in Nat /\ crashes' = crashes + 1 /\ pc' = [pc EXCEPT ![c] = "idle"]
    BY <1>4 DEF Crash, Goto, TypeOK
  <2>2. HalfWay' \subseteq HalfWay
    BY <2>1 DEF HalfWay, TypeOK
  <2> QED BY <2>1, <2>2, FS_Subset DEF BooksInv
<1>5. CASE Reclaim \/ Expire \/ UNCHANGED vars
  <2>1. UNCHANGED <<liability, contra, crashes, pc, op, arg>>
    BY <1>5 DEF Reclaim, Expire, vars, ledgerVars, callVars, faultVars
  <2> QED BY <2>1, BooksElse DEF HalfWay
<1> QED BY <1>1, <1>2, <1>3, <1>4, <1>5 DEF Next, Advance

\* The books balance for any number of calls: whatever locks expire and however often a
\* journal is sent, the two accounts agree whenever no call is running, if none has died.
THEOREM BooksAreBalanced == Spec => []BooksBalance
<1>1. TypeOK /\ BooksInv => BooksBalance
  <2> SUFFICES ASSUME TypeOK, BooksInv, crashes = 0, \A c \in Calls : pc[c] = "idle"
               PROVE  liability = contra
    BY DEF BooksBalance
  <2>1. Over = {} /\ Under = {}
    BY DEF HalfWay, Over, Under
  <2>2. Coins({}, Price) = {}
    BY DEF Coins
  <2>3. OverSum = 0 /\ UnderSum = 0
    BY <2>1, <2>2, FS_EmptySet DEF OverSum, UnderSum
  <2>4. liability + UnderSum = contra + OverSum /\ liability \in Int /\ contra \in Int
    BY DEF BooksInv, TypeOK
  <2> QED BY <2>3, <2>4
<1> QED BY TypeCorrect, BooksInit, BooksStep, <1>1, PTL DEF Spec
=============================================================================
