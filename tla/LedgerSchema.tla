---------------------------- MODULE LedgerSchema ----------------------------
(***************************************************************************)
(* What the collections of the ledger accept. postJournal hands the type   *)
(* of its journal and the parties of its lines to the two schemas as they  *)
(* are; an enum that does not list one of them throws, whoever posts.      *)
(***************************************************************************)

\* the enum of LedgerJournal.referenceType
ReferenceTypes ==
    {"PAYMENT_INTENT", "PAYMENT_ATTEMPT", "WALLET_TOPUP", "WALLET_PURCHASE",
     "WALLET_RESERVATION", "WALLET_RELEASE", "REFUND", "SELLER_SETTLEMENT", "COMMISSION",
     "ADJUSTMENT"}

\* and of LedgerPosting.partyType
PartyTypes == {"CUSTOMER", "SELLER", "PLATFORM", "GATEWAY", "BANK", "NONE"}

Accepts(referenceType, partyTypes) ==
    referenceType \in ReferenceTypes /\ partyTypes \subseteq PartyTypes
=============================================================================
