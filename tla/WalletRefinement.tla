-------------------------- MODULE WalletRefinement --------------------------
(***************************************************************************)
(* Wallet implements WalletPromise. A call takes effect in one step: a     *)
(* reservation when its document is written, the other operations when     *)
(* they move the balance. What a running call has already written, or not  *)
(* yet written, is added or hidden by the mapping.                         *)
(***************************************************************************)
EXTENDS Wallet

Running(o, steps) == lock \in Calls /\ op[lock] = o /\ pc[lock] \in steps

Posting == {"lookup", "header", "postings", "contra_due", "wallet_due"}

\* The call in progress owns funds it has taken and not yet recorded.
FundsTaken == IF Running("reserve", {"record"}) THEN Amount[arg[lock]] ELSE 0

\* A release or commit in progress has written the status it is still to carry out.
Settling(i) ==
    /\ Running("release", {"move"}) \/ Running("commit", Posting \cup {"move"})
    /\ arg[lock] = i

\* The wallet line is written before the balance moves.
LedgerLead ==
    IF Running("credit", {"contra_due", "move"}) \/ Running("commit", {"contra_due", "move"})
    THEN Signed(lock) ELSE 0

InProgress ==
    IF Running("credit", {"postings", "contra_due", "wallet_due", "move"}) THEN {arg[lock]} ELSE {}

Promise == INSTANCE WalletPromise WITH
    funds <- available + FundsTaken,
    hold <- [i \in Intents |-> IF Settling(i) THEN "RESERVED" ELSE reservation[i]],
    owed <- liability - LedgerLead,
    credited <- (headers \cap Credits) \ InProgress

\* Whatever calls are interleaved, the wallet behaves as if each took effect in
\* one step, for as long as no call dies, no lock expires under its holder and
\* no client sends a credit twice.
KeepsPromise ==
    /\ Promise!Init
    /\ [][(NoFault /\ SentOnce)' => [Promise!Next]_(Promise!vars)]_vars
=============================================================================
