------------------------- MODULE OfflineCommandsMC -------------------------
(* Small instances of OfflineCommands for TLC. *)
EXTENDS OfflineCommands, TLC

OneOp == {1}
TwoOps == {1, 2}

(* An instance ends when every operation is settled and every copy gone, so *)
(* these runs do not look for deadlock.                                     *)
=============================================================================
