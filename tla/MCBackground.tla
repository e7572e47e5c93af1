---------------------------- MODULE MCBackground ----------------------------
(* Two processes, one outbox event, and an e-mail that is asked for twice.   *)
(* The outbox and the queue share nothing but the processes and the count of *)
(* faults, so the interleavings of one with the other show nothing more: in  *)
(* a behaviour of this instance there are events or e-mails, not both.       *)
EXTENDS Background, TLC

CONSTANTS p, q, e1, j1, j2, k1

MCKeyOf == j1 :> k1 @@ j2 :> k1

OneKind == (\A e \in Events : event[e] = "NONE") \/ (\A j \in Jobs : place[j] = "new")

MCSpec == Init /\ [][Next /\ OneKind']_vars /\ Fairness
=============================================================================
