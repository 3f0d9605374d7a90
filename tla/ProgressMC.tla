---------------------------- MODULE ProgressMC -----------------------------
(* What must happen in the end: small instances, for TLC, of the stock with *)
(* its expiry timers and of the phones' outbox.  The two share nothing, so  *)
(* a behaviour is one of a single `part`; the fairness of the part that     *)
(* rests asks for nothing, as none of its actions is possible.              *)
EXTENDS InventoryMC, OfflineCommandsMC

VARIABLE part

ProgressInit == part \in {"STOCK", "OUTBOX"} /\ Init /\ OutboxInit

ProgressNext ==
    /\ UNCHANGED part
    /\ \/ part = "STOCK" /\ Next /\ UNCHANGED outboxVars
       \/ part = "OUTBOX" /\ OutboxNext /\ UNCHANGED vars

ProgressSpec ==
    /\ ProgressInit /\ [][ProgressNext]_<<part, vars, outboxVars>>
    /\ MonitorFairness /\ ReplayFairness /\ CalmInTheEnd
=============================================================================
