-------------------------- MODULE BookingLedgerMC --------------------------
(* Small instances of BookingLedger for TLC. *)
EXTENDS BookingLedger, TLC

Prices == {2, 3}
Amounts == {2}

(* Rows of one table and callers are interchangeable. *)
RowSymmetry == Permutations(Payment) \cup Permutations(Booking) \cup Permutations(Staff)

(* An instance ends when its rows are spent and every booking is cancelled, *)
(* so these runs do not look for deadlock.                                  *)
=============================================================================
