---------------------------- MODULE InventoryMC ----------------------------
(* Small instances of Inventory for TLC. *)
EXTENDS Inventory, TLC

(* Row ids and clients are interchangeable: nothing orders them.  Not for   *)
(* runs with a liveness property.                                           *)
RowSymmetry == Permutations(Rsv) \cup Permutations(Alloc) \cup Permutations(Xfer)
                 \cup Permutations(Client) \cup Permutations(Booking)
                 \cup Permutations(Unit)

(* A unit that waits at MaxVersion, every row spent and the clock at its     *)
(* bound is the end of the instance, so these runs do not look for deadlock. *)

(* Bound: beside the allocations of a branch, one unit that is reserved, and *)
(* one that is transferred; two units change less often each.                *)
CONSTANT b1
Held == now > 0 \/ \E r \in Rsv : rsv[r].status # "NONE"
Transferred == \E x \in Xfer : xfer[x].status # "NONE"
InBranch ==
    /\ \A u \in Unit : unit[u].branch \in {None, b1}
    /\ \A k \in Booking : booking[k].branch \in {None, b1}
Bounds ==
    LET units == Cardinality({u \in Unit : unit[u].status # "ABSENT"})
        allocated == Cardinality({a \in Alloc : alloc[a].status # "NONE"})
    IN  /\ Held => units <= 1 /\ allocated <= 1 /\ InBranch /\ ~Transferred
        /\ Transferred => units <= 1 /\ allocated = 0
        /\ ~Transferred => InBranch
        /\ units > 1 => \A u \in Unit : unit[u].version <= 4

FlagOn == {TRUE}
FlagOff == {FALSE}
FlagToggles == BOOLEAN
=============================================================================
