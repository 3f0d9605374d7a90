---------------------------- MODULE HandoverMC -----------------------------
(* Small instances of Handover for TLC. *)
EXTENDS Handover, TLC

CONSTANT b1

FlagOn == {TRUE}

(* Callers, clients and the ids of rows are interchangeable. *)
RowSymmetry == Permutations(Alloc) \cup Permutations(Caller) \cup Permutations(Client)
                 \cup Permutations(Booking) \cup Permutations(Xfer)

-----------------------------------------------------------------------------
(* Two stories: a vehicle that is reserved and transferred, and one that is  *)
(* handed over.  Both begin with a unit in stock and its bookings.           *)
Moving ==
    \/ now > 0
    \/ \E r \in Rsv : rsv[r].status # "NONE"
    \/ \E x \in Xfer : xfer[x].status # "NONE"
HandedOver == \E k \in Booking : job[k] # NoJob

(* Bounds: no vehicle has both; one that moves has one booking at most; one  *)
(* to be handed over stands in b1, where it is sold, and changes four times  *)
(* at most.                                                                  *)
Bounds ==
    /\ ~(Moving /\ HandedOver)
    /\ Moving => Cardinality({k \in Booking : booking[k].status # "NONE"}) <= 1
    /\ HandedOver =>
          /\ \A u \in Unit : unit[u].version <= 4 /\ unit[u].branch = b1
          /\ \A k \in Booking : booking[k].branch \in {None, b1}

(* No transfer moves an allocated vehicle out of the branch of its booking.  *)
LinkedAllocationInBranch == Stock!LinkedAllocationInBranch

(* An instance ends when versions and rows are spent, so these runs do not  *)
(* look for deadlock.                                                       *)
=============================================================================
