---------------------------- MODULE MessagingMC ----------------------------
(* A small instance of Messaging for TLC, and the projection against the    *)
(* loop it stands for.                                                      *)
EXTENDS Messaging, SequencesExt

WorkerSymmetry == Permutations(Worker)

(* projectedDeliveryStatus as it is written: the rows in the order they     *)
(* occurred, one after the other.                                           *)
InOrder(h) ==
    LET order == CHOOSE p \in [DOMAIN h -> DOMAIN h] :
                    \A i, j \in DOMAIN h : i < j => p[i] # p[j] /\ Before(h, p[i], p[j])
    IN  [i \in DOMAIN h |-> h[order[i]].status]

Loop(h) ==
    FoldLeft(LAMBDA projected, status :
                IF \/ status = "FAILED" \/ projected = "FAILED"
                   \/ Rank[status] >= Rank[projected]
                THEN status ELSE projected,
             "QUEUED", InOrder(h))

(* The two agree on every history of up to three rows. *)
ASSUME ProjectionIsTheLoop ==
    \A n \in 0..3 :
        \A h \in [1..n -> [status: {"QUEUED", "SENT", "DELIVERED", "READ", "FAILED"}, at: 0..2]] :
            Projection(h) = Loop(h)
=============================================================================
