-------------------------- MODULE InventoryProofs --------------------------
(* Proofs about Inventory for every set of units, bookings, rows, clients  *)
(* and workers.                                                            *)
EXTENDS Inventory, TLAPS

(* Rows that exist name a unit that exists, an allocation names a booking   *)
(* reference, and a transfer remembers a status a transfer may start from.  *)
RowsPlaced ==
    /\ \A r \in Rsv : rsv[r].status # "NONE" =>
          rsv[r].unit \in Unit /\ unit[rsv[r].unit].status # "ABSENT"
    /\ \A a \in Alloc : alloc[a].status # "NONE" =>
          /\ alloc[a].unit \in Unit /\ unit[alloc[a].unit].status # "ABSENT"
          /\ alloc[a].ref \in Booking
    /\ \A x \in Xfer : xfer[x].status # "NONE" =>
          /\ xfer[x].unit \in Unit /\ unit[xfer[x].unit].status # "ABSENT"
          /\ xfer[x].prior \in MovableStatus

(* A client has read a row that exists, at a version the unit has reached. *)
ReadsPlaced ==
    \A c \in Client :
        /\ \A r \in Rsv : req[c].row = r =>
              rsv[r].status # "NONE" /\ req[c].seen <= unit[rsv[r].unit].version
        /\ \A a \in Alloc : req[c].row = a =>
              alloc[a].status # "NONE" /\ req[c].seen <= unit[alloc[a].unit].version

(* The inductive invariant: a write by id under the lock is safe because a  *)
(* matching version proves the row is the unit's one live row.              *)
IInv == TypeOK /\ RowsPlaced /\ ReadsPlaced /\ StockConsistent /\ StaleReadsRejected

LEMMA InitIInv == ASSUME Init PROVE IInv
<1> USE ConstantsAssumption
<1>1. TypeOK
  BY DEF Init, TypeOK, UnitRow, RsvRow, AllocRow, XferRow, BookingRow, Request,
         Candidates, UnitStatus, RsvStatus, AllocStatus, XferStatus, BookingStatus,
         Idle, NoBatch, NoBooking
<1>2. RowsPlaced
  BY DEF Init, RowsPlaced
<1>3. ReadsPlaced
  BY DEF Init, ReadsPlaced, Idle
<1>4. StockConsistent
  BY DEF Init, StockConsistent, ReservedExplained, AllocatedExplained, TransferExplained,
         OneHoldPerUnit, OneUnitPerBooking, ReservedBy, AllocatedBy, AllocatedFor,
         OpenTransferOf
<1>5. StaleReadsRejected
  BY DEF Init, StaleReadsRejected, Idle
<1> QED
  BY <1>1, <1>2, <1>3, <1>4, <1>5 DEF IInv

(* What Moved does to a unit row. *)
LEMMA MovedRow ==
    ASSUME TypeOK, NEW u \in Unit, NEW s \in UnitStatus
    PROVE  /\ Moved(u, s) \in UnitRow
           /\ Moved(u, s).status = s
           /\ Moved(u, s).version = unit[u].version + 1
           /\ Moved(u, s).branch = unit[u].branch
<1>1. unit[u] \in UnitRow
  BY DEF TypeOK
<1>2. (IF s = "BLOCKED" THEN unit[u].status ELSE unit[u].blockedFrom) \in UnitStatus
  BY <1>1 DEF UnitRow
<1>3. unit[u].version + 1 \in Nat
  BY <1>1 DEF UnitRow
<1> QED
  BY <1>1, <1>2, <1>3 DEF UnitRow, Moved

(* A step that rewrites one unit row, from a status that needs no other row *)
(* to explain it into another such status, and touches no other table.      *)
LEMMA LooseUnitStep ==
    ASSUME IInv, NEW u \in Unit, NEW m \in UnitRow,
           unit' = [unit EXCEPT ![u] = m],
           UNCHANGED <<rsv, alloc, xfer, booking, now, req, batch>>,
           unit[u].status \notin {"RESERVED", "ALLOCATED", "IN_TRANSFER"},
           m.status \notin {"RESERVED", "ALLOCATED", "IN_TRANSFER", "ABSENT"},
           unit[u].status = "ABSENT" \/ m.version = unit[u].version + 1
    PROVE  IInv'
<1>1. TypeOK'
  BY DEF IInv, TypeOK
<1>2. RowsPlaced'
  BY DEF IInv, TypeOK, RowsPlaced
<1>3. ReadsPlaced'
  BY DEF IInv, TypeOK, ReadsPlaced, RowsPlaced, UnitRow, Request
<1>4. StockConsistent'
  BY DEF IInv, TypeOK, StockConsistent, ReservedExplained, AllocatedExplained,
         TransferExplained, OneHoldPerUnit, OneUnitPerBooking, ReservedBy,
         AllocatedBy, AllocatedFor, OpenTransferOf
<1>5. StaleReadsRejected'
  BY DEF IInv, TypeOK, StaleReadsRejected, ReadsPlaced, RowsPlaced, VersionUnchanged,
         UnitRow, Request
<1> QED
  BY <1>1, <1>2, <1>3, <1>4, <1>5 DEF IInv

(* Every write of a hold moves the version of its unit, a hold never changes *)
(* units, and no version goes back.                                          *)
WritesCounted ==
    /\ \A u \in Unit : unit[u].status # "ABSENT" =>
          /\ unit'[u].status # "ABSENT"
          /\ unit'[u].version \in {unit[u].version, unit[u].version + 1}
    /\ \A r \in Rsv : rsv[r].status # "NONE" =>
          /\ rsv'[r].unit = rsv[r].unit /\ rsv'[r].status # "NONE"
          /\ \/ rsv'[r] = rsv[r]
             \/ unit'[rsv[r].unit].version = unit[rsv[r].unit].version + 1
    /\ \A a \in Alloc : alloc[a].status # "NONE" =>
          /\ alloc'[a].unit = alloc[a].unit /\ alloc'[a].status # "NONE"
          /\ \/ alloc'[a].status = alloc[a].status
             \/ unit'[alloc[a].unit].version = unit[alloc[a].unit].version + 1

(* Then what a client has read stays safe to act on. *)
LEMMA ReadsSurvive ==
    ASSUME IInv, WritesCounted,
           \A c \in Client : req'[c] = req[c] \/ req'[c] = Idle
    PROVE  ReadsPlaced' /\ StaleReadsRejected'
<1> USE ConstantsAssumption
<1>1. \A c \in Client, r \in Rsv : req'[c].row = r => req'[c] = req[c]
  BY DEF Idle
<1>2. \A c \in Client, a \in Alloc : req'[c].row = a => req'[c] = req[c]
  BY DEF Idle
<1>3. /\ \A c \in Client : req[c].seen \in Nat
      /\ \A u \in Unit : unit[u].version \in Nat
  BY DEF IInv, TypeOK, UnitRow, Request
<1>4. ReadsPlaced'
  BY <1>1, <1>2, <1>3 DEF IInv, ReadsPlaced, RowsPlaced, WritesCounted
<1>5. ASSUME NEW c \in Client, NEW r \in Rsv,
             req'[c].row = r, VersionUnchanged(c, rsv[r].unit)'
      PROVE  rsv'[r].status = "ACTIVE" /\ rsv'[r].expires = req'[c].expires
  <2>1. req'[c] = req[c] /\ req[c].row = r
    BY <1>1, <1>5
  <2>2. rsv[r].status # "NONE" /\ rsv[r].unit \in Unit
    BY <2>1 DEF IInv, ReadsPlaced, RowsPlaced
  <2>3. req[c].seen <= unit[rsv[r].unit].version
    BY <2>1 DEF IInv, ReadsPlaced
  <2>4. unit'[rsv[r].unit].version = unit[rsv[r].unit].version
    BY <1>3, <1>5, <2>1, <2>2, <2>3 DEF WritesCounted, VersionUnchanged, IInv, RowsPlaced
  <2> QED
    BY <1>3, <1>5, <2>1, <2>2, <2>4 DEF WritesCounted, VersionUnchanged, IInv, StaleReadsRejected
<1>6. ASSUME NEW c \in Client, NEW a \in Alloc,
             req'[c].row = a, VersionUnchanged(c, alloc[a].unit)'
      PROVE  alloc'[a].status = "ACTIVE"
  <2>1. req'[c] = req[c] /\ req[c].row = a
    BY <1>2, <1>6
  <2>2. alloc[a].status # "NONE" /\ alloc[a].unit \in Unit
    BY <2>1 DEF IInv, ReadsPlaced, RowsPlaced
  <2>3. req[c].seen <= unit[alloc[a].unit].version
    BY <2>1 DEF IInv, ReadsPlaced
  <2>4. unit'[alloc[a].unit].version = unit[alloc[a].unit].version
    BY <1>3, <1>6, <2>1, <2>2, <2>3 DEF WritesCounted, VersionUnchanged, IInv, RowsPlaced
  <2> QED
    BY <1>3, <1>6, <2>1, <2>2, <2>4 DEF WritesCounted, VersionUnchanged, IInv, StaleReadsRejected
<1> QED
  BY <1>4, <1>5, <1>6 DEF StaleReadsRejected

(* The change of one unit row, pointwise. *)
UnitMoves(u, s) ==
    /\ unit' \in [Unit -> UnitRow]
    /\ unit'[u].status = s /\ unit'[u].version = unit[u].version + 1
    /\ \A v \in Unit \ {u} : unit'[v] = unit[v]

LEMMA MovePointwise ==
    ASSUME TypeOK, NEW u \in Unit, NEW s \in UnitStatus,
           unit' = [unit EXCEPT ![u] = Moved(u, s)]
    PROVE  UnitMoves(u, s)
<1>1. Moved(u, s) \in UnitRow /\ Moved(u, s).status = s
      /\ Moved(u, s).version = unit[u].version + 1
  BY MovedRow
<1> QED
  BY <1>1 DEF TypeOK, UnitMoves

LEMMA ReserveStep ==
    ASSUME IInv, NEW u \in Unit, NEW r \in Rsv, NEW ref \in Booking \cup {None},
           NEW e \in 0..MaxTime, Reserve(u, r, ref, e)
    PROVE  IInv'
<1>1. UnitMoves(u, "RESERVED")
  BY MovePointwise DEF IInv, Reserve, UnitStatus
<1>2. /\ unit[u].status = "AVAILABLE" /\ rsv[r].status = "NONE"
      /\ UNCHANGED <<alloc, xfer, booking, now, req, batch>>
  BY DEF Reserve, Ready
<1>3. /\ rsv' \in [Rsv -> RsvRow]
      /\ rsv'[r].status = "ACTIVE" /\ rsv'[r].unit = u
      /\ \A q \in Rsv \ {r} : rsv'[q] = rsv[q]
  BY DEF IInv, TypeOK, Reserve, RsvRow, RsvStatus
<1>4. TypeOK'
  BY <1>1, <1>2, <1>3 DEF IInv, TypeOK, UnitMoves
<1>5. RowsPlaced'
  BY <1>1, <1>2, <1>3 DEF IInv, RowsPlaced, UnitMoves
<1>6. WritesCounted
  BY <1>1, <1>2, <1>3 DEF IInv, RowsPlaced, WritesCounted, UnitMoves
<1>7. StockConsistent'
  BY <1>1, <1>2, <1>3 DEF IInv, UnitMoves, StockConsistent, ReservedExplained,
     AllocatedExplained, TransferExplained, OneHoldPerUnit, OneUnitPerBooking,
     ReservedBy, AllocatedBy, AllocatedFor, OpenTransferOf
<1> QED
  BY <1>2, <1>4, <1>5, <1>6, <1>7, ReadsSurvive DEF IInv

LEMMA DeliverStep ==
    ASSUME IInv, NEW u \in Unit, NEW a \in Alloc, Deliver(u, a)
    PROVE  IInv'
<1>1. UnitMoves(u, "DELIVERED")
  BY MovePointwise DEF IInv, Deliver, UnitStatus
<1>2. /\ unit[u].status = "ALLOCATED" /\ alloc[a].status = "ACTIVE" /\ alloc[a].unit = u
      /\ UNCHANGED <<rsv, xfer, booking, now, req, batch>>
  BY DEF Deliver, Ready, AllocatedBy
<1>3. /\ alloc' \in [Alloc -> AllocRow]
      /\ alloc'[a].status = "DELIVERED"
      /\ alloc'[a].unit = alloc[a].unit /\ alloc'[a].ref = alloc[a].ref
      /\ \A o \in Alloc \ {a} : alloc'[o] = alloc[o]
  BY DEF IInv, TypeOK, Deliver, AllocRow, AllocStatus
<1>4. TypeOK'
  BY <1>1, <1>2, <1>3 DEF IInv, TypeOK, UnitMoves
<1>5. RowsPlaced'
  BY <1>1, <1>2, <1>3 DEF IInv, RowsPlaced, UnitMoves
<1>6. WritesCounted
  BY <1>1, <1>2, <1>3 DEF IInv, RowsPlaced, WritesCounted, UnitMoves
<1>7. StockConsistent'
  BY <1>1, <1>2, <1>3 DEF IInv, UnitMoves, StockConsistent, ReservedExplained,
     AllocatedExplained, TransferExplained, OneHoldPerUnit, OneUnitPerBooking,
     ReservedBy, AllocatedBy, AllocatedFor, OpenTransferOf
<1> QED
  BY <1>2, <1>4, <1>5, <1>6, <1>7, ReadsSurvive DEF IInv

LEMMA StartTransferStep ==
    ASSUME IInv, NEW u \in Unit, NEW x \in Xfer, NEW b \in Branch, StartTransfer(u, x, b)
    PROVE  IInv'
<1>1. UnitMoves(u, "IN_TRANSFER")
  BY MovePointwise DEF IInv, StartTransfer, UnitStatus
<1>2. /\ unit[u].status \in MovableStatus /\ xfer[x].status = "NONE"
      /\ UNCHANGED <<rsv, alloc, booking, now, req, batch>>
  BY DEF StartTransfer, Ready
<1>3. /\ xfer' \in [Xfer -> XferRow]
      /\ xfer'[x].status = "OPEN" /\ xfer'[x].unit = u /\ xfer'[x].prior \in MovableStatus
      /\ \A y \in Xfer \ {x} : xfer'[y] = xfer[y]
  BY <1>2 DEF IInv, TypeOK, StartTransfer, XferRow, XferStatus, MovableStatus, UnitStatus
<1>4. TypeOK'
  BY <1>1, <1>2, <1>3 DEF IInv, TypeOK, UnitMoves
<1>5. RowsPlaced'
  BY <1>1, <1>2, <1>3 DEF IInv, RowsPlaced, UnitMoves, MovableStatus
<1>6. WritesCounted
  BY <1>1, <1>2, <1>3 DEF IInv, RowsPlaced, WritesCounted, UnitMoves
<1>7. StockConsistent'
  BY <1>1, <1>2, <1>3 DEF IInv, UnitMoves, MovableStatus, StockConsistent, ReservedExplained,
     AllocatedExplained, TransferExplained, OneHoldPerUnit, OneUnitPerBooking,
     ReservedBy, AllocatedBy, AllocatedFor, OpenTransferOf
<1> QED
  BY <1>2, <1>4, <1>5, <1>6, <1>7, ReadsSurvive DEF IInv

(* Completing a transfer also moves the unit to the other branch, which no  *)
(* part of the invariant mentions.                                          *)
LEMMA EndTransferStep ==
    ASSUME IInv, NEW x \in Xfer, NEW outcome \in {"COMPLETED", "CANCELLED"},
           EndTransfer(x, outcome)
    PROVE  IInv'
<1> DEFINE u == xfer[x].unit
<1> DEFINE m == Moved(u, xfer[x].prior)
<1>a. /\ xfer[x].status = "OPEN" /\ u \in Unit /\ unit[u].status = "IN_TRANSFER"
      /\ xfer[x].prior \in MovableStatus
      /\ UNCHANGED <<rsv, alloc, booking, now, req, batch>>
  BY DEF EndTransfer, NotEnded, Ready, IInv, RowsPlaced
<1>b. /\ m \in UnitRow /\ m.status = xfer[x].prior /\ m.version = unit[u].version + 1
      /\ xfer[x].to \in Branch \cup {None}
  BY <1>a, MovedRow DEF IInv, TypeOK, XferRow, MovableStatus, UnitStatus
<1>c. /\ [m EXCEPT !.branch = xfer[x].to] \in UnitRow
      /\ [m EXCEPT !.branch = xfer[x].to].status = m.status
      /\ [m EXCEPT !.branch = xfer[x].to].version = m.version
  BY <1>b DEF UnitRow
<1>1. UnitMoves(u, xfer[x].prior)
  <2>1. PICK n \in UnitRow : /\ n.status = m.status /\ n.version = m.version
                             /\ unit' = [unit EXCEPT ![u] = n]
    BY <1>b, <1>c DEF EndTransfer
  <2> QED
    BY <1>a, <1>b, <2>1 DEF UnitMoves, IInv, TypeOK
<1> HIDE DEF m
<1>2. /\ unit[u].status = "IN_TRANSFER" /\ xfer[x].status = "OPEN" /\ u \in Unit
      /\ xfer[x].prior \in {"AVAILABLE", "DEMO", "BLOCKED"}
      /\ UNCHANGED <<rsv, alloc, booking, now, req, batch>>
  BY <1>a DEF MovableStatus
<1>3. /\ xfer' \in [Xfer -> XferRow]
      /\ xfer'[x].status \notin {"OPEN", "NONE"}
      /\ xfer'[x].unit = u /\ xfer'[x].prior = xfer[x].prior
      /\ \A y \in Xfer \ {x} : xfer'[y] = xfer[y]
  BY DEF IInv, TypeOK, EndTransfer, XferRow, XferStatus
<1>4. TypeOK'
  BY <1>1, <1>2, <1>3 DEF IInv, TypeOK, UnitMoves
<1>5. RowsPlaced'
  BY <1>1, <1>2, <1>3 DEF IInv, RowsPlaced, UnitMoves
<1>6. WritesCounted
  BY <1>1, <1>2, <1>3 DEF IInv, RowsPlaced, WritesCounted, UnitMoves
<1>7. StockConsistent'
  BY <1>1, <1>2, <1>3 DEF IInv, UnitMoves, StockConsistent, ReservedExplained,
     AllocatedExplained, TransferExplained, OneHoldPerUnit, OneUnitPerBooking,
     ReservedBy, AllocatedBy, AllocatedFor, OpenTransferOf
<1> QED
  BY <1>2, <1>4, <1>5, <1>6, <1>7, ReadsSurvive DEF IInv

(* What the version check gives a command that acts on a reservation or an  *)
(* allocation it read before the lock: the row is still the live one.       *)
LEMMA FreshReservation ==
    ASSUME IInv, NEW c \in Client, NEW r \in Rsv, req[c].row = r,
           VersionUnchanged(c, rsv[r].unit)
    PROVE  rsv[r].status = "ACTIVE" /\ rsv[r].unit \in Unit
  BY DEF IInv, StaleReadsRejected, RowsPlaced

LEMMA FreshAllocation ==
    ASSUME IInv, NEW c \in Client, NEW a \in Alloc, req[c].row = a,
           VersionUnchanged(c, alloc[a].unit)
    PROVE  alloc[a].status = "ACTIVE" /\ alloc[a].unit \in Unit
  BY DEF IInv, StaleReadsRejected, RowsPlaced

LEMMA IdleRequest == ASSUME ConstantsAssumption PROVE Idle \in Request
  BY DEF Idle, Request

LEMMA ExtendReservationStep ==
    ASSUME IInv, NEW c \in Client, NEW r \in Rsv, NEW e \in 0..MaxTime,
           ExtendReservation(c, r, e)
    PROVE  IInv'
<1> DEFINE u == rsv[r].unit
<1>0. rsv[r].status = "ACTIVE" /\ u \in Unit
  BY FreshReservation DEF ExtendReservation
<1>1. UnitMoves(u, "RESERVED")
  BY <1>0, MovePointwise DEF IInv, ExtendReservation, UnitStatus
<1>2. /\ unit[u].status = "RESERVED"
      /\ \A d \in Client : req'[d] = req[d] \/ req'[d] = Idle
      /\ req' \in [Client -> Request]
      /\ UNCHANGED <<alloc, xfer, booking, now, batch>>
  BY <1>0, IdleRequest, ConstantsAssumption DEF ExtendReservation, Ready, IInv, TypeOK
<1>3. /\ rsv' \in [Rsv -> RsvRow]
      /\ rsv'[r].status = "ACTIVE" /\ rsv'[r].unit = u
      /\ \A q \in Rsv \ {r} : rsv'[q] = rsv[q]
  BY <1>0 DEF IInv, TypeOK, ExtendReservation, RsvRow
<1>4. TypeOK'
  BY <1>1, <1>2, <1>3 DEF IInv, TypeOK, UnitMoves
<1>5. RowsPlaced'
  BY <1>0, <1>1, <1>2, <1>3 DEF IInv, RowsPlaced, UnitMoves
<1>6. WritesCounted
  BY <1>0, <1>1, <1>2, <1>3 DEF IInv, RowsPlaced, WritesCounted, UnitMoves
<1>7. StockConsistent'
  BY <1>0, <1>1, <1>2, <1>3 DEF IInv, UnitMoves, StockConsistent, ReservedExplained,
     AllocatedExplained, TransferExplained, OneHoldPerUnit, OneUnitPerBooking,
     ReservedBy, AllocatedBy, AllocatedFor, OpenTransferOf
<1> QED
  BY <1>2, <1>4, <1>5, <1>6, <1>7, ReadsSurvive DEF IInv

LEMMA ReleaseReservationStep ==
    ASSUME IInv, NEW c \in Client, NEW r \in Rsv, ReleaseReservation(c, r)
    PROVE  IInv'
<1> DEFINE u == rsv[r].unit
<1>0. rsv[r].status = "ACTIVE" /\ u \in Unit
  BY FreshReservation DEF ReleaseReservation
<1>1. UnitMoves(u, "AVAILABLE")
  BY <1>0, MovePointwise DEF IInv, ReleaseReservation, UnitStatus
<1>2. /\ unit[u].status = "RESERVED"
      /\ \A d \in Client : req'[d] = req[d] \/ req'[d] = Idle
      /\ req' \in [Client -> Request]
      /\ UNCHANGED <<alloc, xfer, booking, now, batch>>
  BY <1>0, IdleRequest, ConstantsAssumption DEF ReleaseReservation, Ready, IInv, TypeOK
<1>3. /\ rsv' \in [Rsv -> RsvRow]
      /\ rsv'[r].status = "RELEASED" /\ rsv'[r].unit = u
      /\ \A q \in Rsv \ {r} : rsv'[q] = rsv[q]
  BY <1>0 DEF IInv, TypeOK, ReleaseReservation, RsvRow, RsvStatus
<1>4. TypeOK'
  BY <1>1, <1>2, <1>3 DEF IInv, TypeOK, UnitMoves
<1>5. RowsPlaced'
  BY <1>0, <1>1, <1>2, <1>3 DEF IInv, RowsPlaced, UnitMoves
<1>6. WritesCounted
  BY <1>0, <1>1, <1>2, <1>3 DEF IInv, RowsPlaced, WritesCounted, UnitMoves
<1>7. StockConsistent'
  BY <1>0, <1>1, <1>2, <1>3 DEF IInv, UnitMoves, StockConsistent, ReservedExplained,
     AllocatedExplained, TransferExplained, OneHoldPerUnit, OneUnitPerBooking,
     ReservedBy, AllocatedBy, AllocatedFor, OpenTransferOf
<1> QED
  BY <1>2, <1>4, <1>5, <1>6, <1>7, ReadsSurvive DEF IInv

LEMMA ReleaseAllocationStep ==
    ASSUME IInv, NEW c \in Client, NEW a \in Alloc, ReleaseAllocation(c, a)
    PROVE  IInv'
<1> DEFINE u == alloc[a].unit
<1>0. alloc[a].status = "ACTIVE" /\ u \in Unit
  BY FreshAllocation DEF ReleaseAllocation
<1>1. UnitMoves(u, "AVAILABLE")
  BY <1>0, MovePointwise DEF IInv, ReleaseAllocation, UnitStatus
<1>2. /\ unit[u].status = "ALLOCATED"
      /\ \A d \in Client : req'[d] = req[d] \/ req'[d] = Idle
      /\ req' \in [Client -> Request]
      /\ UNCHANGED <<rsv, xfer, booking, now, batch>>
  BY <1>0, IdleRequest, ConstantsAssumption DEF ReleaseAllocation, Ready, IInv, TypeOK
<1>3. /\ alloc' \in [Alloc -> AllocRow]
      /\ alloc'[a].status = "RELEASED" /\ alloc'[a].unit = u /\ alloc'[a].ref = alloc[a].ref
      /\ \A o \in Alloc \ {a} : alloc'[o] = alloc[o]
  BY <1>0 DEF IInv, TypeOK, ReleaseAllocation, AllocRow, AllocStatus
<1>4. TypeOK'
  BY <1>1, <1>2, <1>3 DEF IInv, TypeOK, UnitMoves
<1>5. RowsPlaced'
  BY <1>0, <1>1, <1>2, <1>3 DEF IInv, RowsPlaced, UnitMoves
<1>6. WritesCounted
  BY <1>0, <1>1, <1>2, <1>3 DEF IInv, RowsPlaced, WritesCounted, UnitMoves
<1>7. StockConsistent'
  BY <1>0, <1>1, <1>2, <1>3 DEF IInv, UnitMoves, StockConsistent, ReservedExplained,
     AllocatedExplained, TransferExplained, OneHoldPerUnit, OneUnitPerBooking,
     ReservedBy, AllocatedBy, AllocatedFor, OpenTransferOf
<1> QED
  BY <1>2, <1>4, <1>5, <1>6, <1>7, ReadsSurvive DEF IInv

(* Both live rows named by the guards are unique, so the replacement leaves *)
(* no second holder behind on either unit.                                  *)
LEMMA ReallocateStep ==
    ASSUME IInv, NEW c \in Client, NEW a \in Alloc, NEW n \in Alloc, NEW to \in Unit,
           Reallocate(c, a, to, n)
    PROVE  IInv'
<1> DEFINE from == alloc[a].unit
<1>0. alloc[a].status = "ACTIVE" /\ from \in Unit /\ alloc[a].ref \in Booking
  BY FreshAllocation DEF Reallocate, IInv, RowsPlaced
<1>1. /\ unit[from].status = "ALLOCATED" /\ unit[to].status = "AVAILABLE" /\ to # from
      /\ alloc[n].status = "NONE" /\ n # a
      /\ \A o \in Alloc \ {a} : ~(alloc[o].status = "ACTIVE" /\ alloc[o].ref = alloc[a].ref)
      /\ \A d \in Client : req'[d] = req[d] \/ req'[d] = Idle
      /\ req' \in [Client -> Request]
      /\ UNCHANGED <<rsv, xfer, booking, now, batch>>
  BY <1>0, IdleRequest, ConstantsAssumption
     DEF Reallocate, Ready, AllocatedBy, AllocatedFor, IInv, TypeOK
<1>2. /\ unit' \in [Unit -> UnitRow]
      /\ unit'[from].status = "AVAILABLE" /\ unit'[from].version = unit[from].version + 1
      /\ unit'[to].status = "ALLOCATED" /\ unit'[to].version = unit[to].version + 1
      /\ \A v \in Unit \ {from, to} : unit'[v] = unit[v]
  <2>1. /\ Moved(from, "AVAILABLE") \in UnitRow /\ Moved(from, "AVAILABLE").status = "AVAILABLE"
        /\ Moved(from, "AVAILABLE").version = unit[from].version + 1
    BY <1>0, MovedRow DEF IInv, UnitStatus
  <2>2. /\ Moved(to, "ALLOCATED") \in UnitRow /\ Moved(to, "ALLOCATED").status = "ALLOCATED"
        /\ Moved(to, "ALLOCATED").version = unit[to].version + 1
    BY MovedRow DEF IInv, UnitStatus
  <2> QED
    BY <1>0, <1>1, <2>1, <2>2 DEF Reallocate, IInv, TypeOK
<1>3. /\ alloc' \in [Alloc -> AllocRow]
      /\ alloc'[a].status = "REPLACED" /\ alloc'[a].unit = from
      /\ alloc'[a].ref = alloc[a].ref
      /\ alloc'[n].status = "ACTIVE" /\ alloc'[n].unit = to /\ alloc'[n].ref = alloc[a].ref
      /\ \A o \in Alloc \ {a, n} : alloc'[o] = alloc[o]
  BY <1>0, <1>1 DEF IInv, TypeOK, Reallocate, AllocRow, AllocStatus
<1>4. TypeOK'
  BY <1>1, <1>2, <1>3 DEF IInv, TypeOK
<1>5. RowsPlaced'
  BY <1>0, <1>1, <1>2, <1>3 DEF IInv, RowsPlaced
<1>6. WritesCounted
  BY <1>0, <1>1, <1>2, <1>3 DEF IInv, RowsPlaced, WritesCounted
<1>7. ReservedExplained' /\ TransferExplained'
  BY <1>0, <1>1, <1>2 DEF IInv, StockConsistent, ReservedExplained, TransferExplained,
     ReservedBy, OpenTransferOf
<1>8. AllocatedExplained'
  BY <1>0, <1>1, <1>2, <1>3 DEF IInv, StockConsistent, AllocatedExplained, OneHoldPerUnit,
     AllocatedBy
<1>9. OneHoldPerUnit' /\ OneUnitPerBooking'
  BY <1>0, <1>1, <1>2, <1>3 DEF IInv, StockConsistent, AllocatedExplained, OneHoldPerUnit,
     OneUnitPerBooking, ReservedBy, AllocatedBy, AllocatedFor, OpenTransferOf
<1> QED
  BY <1>1, <1>4, <1>5, <1>6, <1>7, <1>8, <1>9, ReadsSurvive DEF IInv, StockConsistent

LEMMA AllocateStep ==
    ASSUME IInv, NEW u \in Unit, NEW k \in Booking, NEW a \in Alloc,
           NEW billing \in BookingBilling, Allocate(u, k, a, billing)
    PROVE  IInv'
<1>0. billing \in BOOLEAN
  BY ConstantsAssumption
<1>1. UnitMoves(u, "ALLOCATED")
  BY MovePointwise DEF IInv, Allocate, UnitStatus
<1>2. /\ unit[u].status \in {"AVAILABLE", "RESERVED"} /\ alloc[a].status = "NONE"
      /\ \A o \in Alloc : ~(alloc[o].status = "ACTIVE" /\ alloc[o].ref = k)
      /\ UNCHANGED <<xfer, now, req, batch>>
  BY DEF Allocate, Ready, AllocatedFor
<1>3. /\ alloc' \in [Alloc -> AllocRow]
      /\ alloc'[a].status = "ACTIVE" /\ alloc'[a].unit = u /\ alloc'[a].ref = k
      /\ \A o \in Alloc \ {a} : alloc'[o] = alloc[o]
  BY <1>0 DEF IInv, TypeOK, Allocate, AllocRow, AllocStatus
<1>4. booking' \in [Booking -> BookingRow]
  BY <1>0 DEF IInv, TypeOK, Allocate, BookingRow
<1>5. \/ unit[u].status = "AVAILABLE" /\ rsv' = rsv
      \/ /\ unit[u].status = "RESERVED"
         /\ \E r \in Rsv : /\ rsv[r].status = "ACTIVE" /\ rsv[r].unit = u
                           /\ rsv' = [rsv EXCEPT ![r].status = "CONVERTED"]
  BY DEF Allocate, HoldConverts, ReservedBy
<1>6. /\ rsv' \in [Rsv -> RsvRow]
      /\ \A q \in Rsv : /\ rsv'[q].unit = rsv[q].unit
                        /\ rsv'[q] = rsv[q] \/ (rsv[q].unit = u /\ rsv'[q].status = "CONVERTED")
      /\ \A q \in Rsv : rsv[q].status = "ACTIVE" /\ rsv[q].unit = u
            => rsv'[q].status = "CONVERTED"
  <2>1. CASE unit[u].status = "AVAILABLE" /\ rsv' = rsv
    BY <2>1 DEF IInv, TypeOK, StockConsistent, ReservedExplained, ReservedBy
  <2>2. CASE \E r \in Rsv : /\ rsv[r].status = "ACTIVE" /\ rsv[r].unit = u
                            /\ rsv' = [rsv EXCEPT ![r].status = "CONVERTED"]
    <3>1. PICK r \in Rsv : /\ rsv[r].status = "ACTIVE" /\ rsv[r].unit = u
                           /\ rsv' = [rsv EXCEPT ![r].status = "CONVERTED"]
      BY <2>2
    <3>2. /\ rsv' \in [Rsv -> RsvRow]
          /\ rsv'[r].status = "CONVERTED" /\ rsv'[r].unit = rsv[r].unit
          /\ \A q \in Rsv \ {r} : rsv'[q] = rsv[q]
      BY <3>1 DEF IInv, TypeOK, RsvRow, RsvStatus
    <3>3. \A q \in Rsv \ {r} : ~(rsv[q].status = "ACTIVE" /\ rsv[q].unit = u)
      BY <3>1 DEF IInv, StockConsistent, OneHoldPerUnit, ReservedBy
    <3> QED
      BY <3>1, <3>2, <3>3
  <2> QED
    BY <1>5, <2>1, <2>2
<1>7. TypeOK'
  BY <1>1, <1>2, <1>3, <1>4, <1>6 DEF IInv, TypeOK, UnitMoves
<1>8. RowsPlaced'
  BY <1>1, <1>2, <1>3, <1>6 DEF IInv, RowsPlaced, UnitMoves
<1>9. WritesCounted
  <2>1. \A r \in Rsv : rsv[r].status # "NONE" => rsv'[r].status # "NONE"
    BY <1>6
  <2> QED
    BY <1>1, <1>2, <1>3, <1>6, <2>1 DEF IInv, RowsPlaced, WritesCounted, UnitMoves
<1>10. StockConsistent'
  BY <1>1, <1>2, <1>3, <1>6 DEF IInv, UnitMoves, StockConsistent, ReservedExplained,
     AllocatedExplained, TransferExplained, OneHoldPerUnit, OneUnitPerBooking,
     ReservedBy, AllocatedBy, AllocatedFor, OpenTransferOf
<1> QED
  BY <1>2, <1>7, <1>8, <1>9, <1>10, ReadsSurvive DEF IInv

(* Every expiring row is live, so its unit is RESERVED and is given back.   *)
LEMMA ExpireBatchStep ==
    ASSUME IInv, NEW w \in Worker, ExpireBatch(w)
    PROVE  IInv'
<1> DEFINE X == Expiring(w)
<1> DEFINE freed == {u \in Unit : unit[u].status = "RESERVED"
                                    /\ \E r \in X : rsv[r].unit = u}
<1>1. /\ X \subseteq Rsv
      /\ \A r \in X : rsv[r].status = "ACTIVE"
  BY DEF Expiring, StillDue, IInv, TypeOK, Candidates
<1>2. /\ rsv' = [r \in Rsv |-> IF r \in X THEN [rsv[r] EXCEPT !.status = "EXPIRED"]
                                          ELSE rsv[r]]
      /\ unit' = [u \in Unit |-> IF u \in freed THEN Moved(u, "AVAILABLE") ELSE unit[u]]
      /\ batch' = [batch EXCEPT ![w] = NoBatch]
  BY DEF ExpireBatch
<1>u. UNCHANGED <<alloc, xfer, booking, now, req>>
  BY DEF ExpireBatch
<1>3. \A u \in Unit : u \in freed <=> \E r \in X : rsv[r].unit = u
  BY <1>1 DEF IInv, StockConsistent, ReservedExplained, ReservedBy
<1>4. \A u \in freed : unit[u].status = "RESERVED"
  OBVIOUS
<1>5. \A r \in X : rsv[r].unit \in freed
  BY <1>1, <1>3 DEF IInv, RowsPlaced
<1>6. \A r \in Rsv \ X : ~(rsv[r].status = "ACTIVE" /\ rsv[r].unit \in freed)
  BY <1>1, <1>3 DEF IInv, StockConsistent, OneHoldPerUnit, ReservedBy
<1>7. freed \subseteq Unit
  OBVIOUS
<1> HIDE DEF X, freed
<1>8. /\ unit' \in [Unit -> UnitRow]
      /\ \A u \in freed : /\ unit'[u].status = "AVAILABLE"
                          /\ unit'[u].version = unit[u].version + 1
      /\ \A u \in Unit \ freed : unit'[u] = unit[u]
  <2>1. \A u \in freed : /\ Moved(u, "AVAILABLE") \in UnitRow
                         /\ Moved(u, "AVAILABLE").status = "AVAILABLE"
                         /\ Moved(u, "AVAILABLE").version = unit[u].version + 1
    BY <1>7, MovedRow DEF IInv, UnitStatus
  <2> QED
    BY <1>2, <1>7, <2>1 DEF IInv, TypeOK
<1>9. /\ rsv' \in [Rsv -> RsvRow]
      /\ \A r \in X : rsv'[r].status = "EXPIRED" /\ rsv'[r].unit = rsv[r].unit
      /\ \A r \in Rsv \ X : rsv'[r] = rsv[r]
  BY <1>1, <1>2 DEF IInv, TypeOK, RsvRow, RsvStatus
<1>10. batch' \in [Worker -> Candidates]
  BY <1>2, ConstantsAssumption DEF IInv, TypeOK, Candidates, NoBatch
<1>11. TypeOK'
  BY <1>u, <1>8, <1>9, <1>10 DEF IInv, TypeOK
<1>12. RowsPlaced'
  BY <1>u, <1>1, <1>7, <1>8, <1>9 DEF IInv, RowsPlaced
<1>13. WritesCounted
  BY <1>u, <1>1, <1>4, <1>5, <1>7, <1>8, <1>9 DEF IInv, RowsPlaced, WritesCounted, TypeOK, UnitRow
<1>14. ReservedExplained'
  BY <1>1, <1>5, <1>6, <1>7, <1>8, <1>9
     DEF IInv, StockConsistent, ReservedExplained, ReservedBy
<1>15. AllocatedExplained' /\ TransferExplained'
  BY <1>u, <1>4, <1>7, <1>8 DEF IInv, StockConsistent, AllocatedExplained, TransferExplained,
     AllocatedBy, OpenTransferOf
<1>16. OneHoldPerUnit' /\ OneUnitPerBooking'
  BY <1>u, <1>1, <1>9 DEF IInv, StockConsistent, OneHoldPerUnit, OneUnitPerBooking, ReservedBy,
     AllocatedBy, AllocatedFor, OpenTransferOf
<1> QED
  BY <1>u, <1>11, <1>12, <1>13, <1>14, <1>15, <1>16, ReadsSurvive DEF IInv, StockConsistent

(* The read step records a live row together with its unit's version. *)
LEMMA ReadStep ==
    ASSUME IInv, NEW c \in Client,
           \/ \E r \in Rsv : ReadReservation(c, r)
           \/ \E a \in Alloc : ReadAllocation(c, a)
           \/ Abandon(c)
    PROVE  IInv'
<1> USE ConstantsAssumption
<1>1. UNCHANGED <<unit, rsv, alloc, xfer, booking, now, batch>>
  BY DEF ReadReservation, ReadAllocation, Abandon
<1>2. /\ \A d \in Client \ {c} : req'[d] = req[d]
      /\ \/ /\ req'[c].row \in Rsv /\ rsv[req'[c].row].status = "ACTIVE"
            /\ req'[c].seen = unit[rsv[req'[c].row].unit].version
            /\ req'[c].expires = rsv[req'[c].row].expires
         \/ /\ req'[c].row \in Alloc /\ alloc[req'[c].row].status = "ACTIVE"
            /\ req'[c].seen = unit[alloc[req'[c].row].unit].version
            /\ req'[c].expires = 0
         \/ req'[c] = Idle
      /\ req' = [req EXCEPT ![c] = req'[c]]
  BY DEF ReadReservation, ReadAllocation, Abandon, IInv, TypeOK
<1>3. req'[c] \in Request
  <2>1. CASE \E r \in Rsv : ReadReservation(c, r)
    BY <2>1 DEF ReadReservation, IInv, TypeOK, RowsPlaced, RsvRow, UnitRow, Request
  <2>2. CASE \E a \in Alloc : ReadAllocation(c, a)
    BY <2>2 DEF ReadAllocation, IInv, TypeOK, RowsPlaced, UnitRow, Request
  <2>3. CASE Abandon(c)
    BY <2>3, IdleRequest DEF Abandon, IInv, TypeOK
  <2> QED
    BY <2>1, <2>2, <2>3
<1>4. TypeOK'
  BY <1>1, <1>2, <1>3 DEF IInv, TypeOK
<1>5. RowsPlaced' /\ StockConsistent'
  BY <1>1 DEF IInv, RowsPlaced, StockConsistent, ReservedExplained,
     AllocatedExplained, TransferExplained, OneHoldPerUnit, OneUnitPerBooking,
     ReservedBy, AllocatedBy, AllocatedFor, OpenTransferOf
<1>6. ReadsPlaced'
  BY <1>1, <1>2 DEF IInv, ReadsPlaced, TypeOK, UnitRow, RowsPlaced, Idle
<1>7. StaleReadsRejected'
  BY <1>1, <1>2 DEF IInv, StaleReadsRejected, VersionUnchanged, Idle
<1> QED
  BY <1>4, <1>5, <1>6, <1>7 DEF IInv

(* Linking an allocation to a booking writes neither a status nor a unit,   *)
(* so it may skip the unit's lock and version.                              *)
LEMMA CreateBookingStep ==
    ASSUME IInv, NEW k \in Booking, CreateBooking(k)
    PROVE  IInv'
<1>1. unit' = unit /\ rsv' = rsv /\ xfer' = xfer /\ now' = now /\ req' = req /\ batch' = batch
  BY DEF CreateBooking
<1>2. /\ alloc' \in [Alloc -> AllocRow]
      /\ \A a \in Alloc : /\ alloc'[a].status = alloc[a].status
                          /\ alloc'[a].unit = alloc[a].unit
                          /\ alloc'[a].ref = alloc[a].ref
  <2>1. \A a \in Alloc : /\ [alloc[a] EXCEPT !.linked = TRUE] \in AllocRow
                         /\ [alloc[a] EXCEPT !.linked = TRUE].status = alloc[a].status
                         /\ [alloc[a] EXCEPT !.linked = TRUE].unit = alloc[a].unit
                         /\ [alloc[a] EXCEPT !.linked = TRUE].ref = alloc[a].ref
    BY DEF IInv, TypeOK, AllocRow
  <2> QED
    BY <2>1 DEF CreateBooking, IInv, TypeOK
<1>3. TypeOK'
  <2>1. booking' \in [Booking -> BookingRow]
    BY DEF CreateBooking, IInv, TypeOK, BookingRow, BookingStatus
  <2> QED
    BY <1>1, <1>2, <2>1 DEF IInv, TypeOK
<1>5. RowsPlaced' /\ ReadsPlaced'
  BY <1>1, <1>2 DEF IInv, RowsPlaced, ReadsPlaced
<1>4. StockConsistent' /\ StaleReadsRejected'
  BY <1>1, <1>2 DEF IInv, StaleReadsRejected, VersionUnchanged, StockConsistent, ReservedExplained,
     AllocatedExplained, TransferExplained, OneHoldPerUnit, OneUnitPerBooking,
     ReservedBy, AllocatedBy, AllocatedFor, OpenTransferOf
<1> QED
  BY <1>3, <1>4, <1>5 DEF IInv

(* Steps that write none of the stock tables. *)
LEMMA ElsewhereStep ==
    ASSUME IInv,
           \/ \E k \in Booking, b \in Branch : OpenBooking(k, b)
           \/ \E k \in Booking : RollBackBooking(k) \/ CancelBooking(k)
           \/ Tick
           \/ \E w \in Worker, rows \in SUBSET Rsv, scope \in SUBSET Branch :
                ScanDue(w, rows, scope)
           \/ \E w \in Worker : AbortBatch(w)
           \/ UNCHANGED vars
    PROVE  IInv'
<1>1. UNCHANGED <<unit, rsv, alloc, xfer, req>>
  BY DEF OpenBooking, RollBackBooking, CancelBooking, Tick, ScanDue, AbortBatch, vars
<1>2. TypeOK'
  <2>1. CASE \E k \in Booking : RollBackBooking(k) \/ CancelBooking(k)
    BY <2>1, ConstantsAssumption
       DEF RollBackBooking, CancelBooking, NoBooking, IInv, TypeOK, BookingRow, BookingStatus
  <2>6. CASE \E k \in Booking, b \in Branch : OpenBooking(k, b)
    BY <2>6 DEF OpenBooking, IInv, TypeOK, AllocRow, BookingRow, BookingStatus
  <2>2. CASE Tick
    BY <2>2, ConstantsAssumption DEF Tick, IInv, TypeOK
  <2>3. CASE \E w \in Worker, rows \in SUBSET Rsv, scope \in SUBSET Branch :
               ScanDue(w, rows, scope)
    BY <2>3 DEF ScanDue, IInv, TypeOK, Candidates
  <2>4. CASE \E w \in Worker : AbortBatch(w)
    BY <2>4, ConstantsAssumption DEF AbortBatch, IInv, TypeOK, Candidates, NoBatch
  <2>5. CASE UNCHANGED vars
    BY <2>5 DEF IInv, TypeOK, vars
  <2> QED
    BY <2>1, <2>2, <2>3, <2>4, <2>5, <2>6
<1>3. RowsPlaced' /\ ReadsPlaced' /\ StaleReadsRejected'
  BY <1>1 DEF IInv, RowsPlaced, ReadsPlaced, StaleReadsRejected, VersionUnchanged
<1>4. StockConsistent'
  BY <1>1 DEF IInv, StockConsistent, ReservedExplained,
     AllocatedExplained, TransferExplained, OneHoldPerUnit, OneUnitPerBooking,
     ReservedBy, AllocatedBy, AllocatedFor, OpenTransferOf
<1> QED
  BY <1>2, <1>3, <1>4 DEF IInv

(* Creating a unit, and every transition() that has no other row to write.  *)
LEMMA TransitionStep ==
    ASSUME IInv, NEW u \in Unit,
           (\E b \in Branch, s \in UnitStatus : CreateUnit(u, b, s)) \/ Transition(u)
    PROVE  IInv'
<1>1. CASE \E b \in Branch, s \in UnitStatus : CreateUnit(u, b, s)
  <2>1. PICK b \in Branch, s \in UnitStatus : CreateUnit(u, b, s)
    BY <1>1
  <2> DEFINE m == [status |-> s, branch |-> b, version |-> 1, blockedFrom |-> "ABSENT",
                   demo |-> s = "DEMO"]
  <2>2. m \in UnitRow /\ m.status \in {"EXPECTED", "AVAILABLE", "DEMO"}
    <3>1. (s = "DEMO") \in BOOLEAN
      OBVIOUS
    <3> QED
      BY <2>1, <3>1 DEF CreateUnit, UnitRow, UnitStatus
  <2>3. /\ unit[u].status = "ABSENT" /\ unit' = [unit EXCEPT ![u] = m]
        /\ UNCHANGED <<rsv, alloc, xfer, booking, now, req, batch>>
    BY <2>1 DEF CreateUnit
  <2> HIDE DEF m
  <2> QED
    BY <2>2, <2>3, LooseUnitStep
<1>2. CASE Transition(u)
  <2>1. UNCHANGED <<rsv, alloc, xfer, booking, now, req, batch>>
    BY <1>2 DEF Transition
  <2>2. unit[u].status \notin {"RESERVED", "ALLOCATED", "IN_TRANSFER", "ABSENT"}
    BY <1>2 DEF Transition, Receive, DesignateDemo, AuthorizeDemoSale, Block, Unblock,
                CancelUnit, RemoveUnit, Ready
  <2>3. PICK s \in {"AVAILABLE", "DEMO", "BLOCKED", "CANCELLED", "REMOVED"}, d \in BOOLEAN :
          unit' = [unit EXCEPT ![u] = [Moved(u, s) EXCEPT !.demo = d]]
    <3>1. ASSUME NEW s \in UnitStatus
          PROVE  /\ Moved(u, s).demo \in BOOLEAN
                 /\ [Moved(u, s) EXCEPT !.demo = Moved(u, s).demo] = Moved(u, s)
      BY <3>1, MovedRow DEF IInv, UnitRow
    <3>2. CASE DesignateDemo(u)
      BY <3>2 DEF DesignateDemo
    <3>3. CASE AuthorizeDemoSale(u)
      BY <3>3 DEF AuthorizeDemoSale
    <3>4. CASE Receive(u) \/ Block(u) \/ Unblock(u) \/ CancelUnit(u) \/ RemoveUnit(u)
      <4>1. PICK s \in {"AVAILABLE", "DEMO", "BLOCKED", "CANCELLED", "REMOVED"} :
              unit' = [unit EXCEPT ![u] = Moved(u, s)]
        BY <3>4 DEF Receive, Block, Unblock, CancelUnit, RemoveUnit
      <4>2. s \in UnitStatus
        BY <4>1 DEF UnitStatus
      <4> QED
        BY <3>1, <4>1, <4>2
    <3> QED
      BY <1>2, <3>2, <3>3, <3>4 DEF Transition
  <2> DEFINE m == [Moved(u, s) EXCEPT !.demo = d]
  <2>4. s \in UnitStatus
    BY <2>3 DEF UnitStatus
  <2>5. m \in UnitRow /\ m.status = s /\ m.version = unit[u].version + 1
    BY <2>3, <2>4, MovedRow DEF IInv, UnitRow
  <2>6. unit' = [unit EXCEPT ![u] = m]
    BY <2>3
  <2>7. m.status \notin {"RESERVED", "ALLOCATED", "IN_TRANSFER", "ABSENT"}
    BY <2>3, <2>5
  <2> HIDE DEF m
  <2> QED
    BY <2>1, <2>2, <2>5, <2>6, <2>7, LooseUnitStep
<1> QED
  BY <1>1, <1>2

(* Every step of the specification keeps the invariant. *)
LEMMA InductiveStep == ASSUME IInv, [Next]_vars PROVE IInv'
<1>1. CASE UnitNext
  BY <1>1, TransitionStep, DeliverStep, ReserveStep, AllocateStep, StartTransferStep
     DEF UnitNext
<1>2. CASE ClientNext
  BY <1>2, ReadStep, ExtendReservationStep, ReleaseReservationStep, ReleaseAllocationStep,
     ReallocateStep DEF ClientNext
<1>3. CASE TransferNext
  BY <1>3, EndTransferStep DEF TransferNext
<1>4. CASE ExpiryNext
  BY <1>4, ExpireBatchStep, ElsewhereStep DEF ExpiryNext
<1>5. CASE BookingNext
  BY <1>5, CreateBookingStep, ElsewhereStep DEF BookingNext
<1>6. CASE Tick \/ UNCHANGED vars
  BY <1>6, ElsewhereStep
<1> QED
  BY <1>1, <1>2, <1>3, <1>4, <1>5, <1>6 DEF Next

THEOREM Invariance == Spec => []IInv
<1>1. Init => IInv
  BY InitIInv
<1>2. IInv /\ [Next]_vars => IInv'
  BY InductiveStep
<1> QED
  BY <1>1, <1>2, PTL DEF Spec

(* The tables keep their types. *)
THEOREM TypeCorrect == Spec => []TypeOK
<1>1. IInv => TypeOK
  BY DEF IInv
<1> QED
  BY <1>1, Invariance, PTL

(* The status of every unit agrees with the reservations, allocations and   *)
(* transfers, and no unit and no booking is ever served twice, for any      *)
(* number of units, callers and monitors.                                   *)
THEOREM StockIsConsistent == Spec => []StockConsistent
<1>1. IInv => StockConsistent
  BY DEF IInv
<1> QED
  BY <1>1, Invariance, PTL

(* A command that passes the version check acts on the row as it is.        *)
THEOREM StaleReadsAreRejected == Spec => []StaleReadsRejected
<1>1. IInv => StaleReadsRejected
  BY DEF IInv
<1> QED
  BY <1>1, Invariance, PTL

(* The booking commands write nothing of the stock but the links. *)
LEMMA BookingsWriteLinks ==
    ASSUME IInv, BookingNext
    PROVE  /\ UNCHANGED <<unit, rsv, xfer, now, req, batch>>
           /\ \A a \in Alloc : /\ alloc'[a].status = alloc[a].status
                               /\ alloc'[a].unit = alloc[a].unit
                               /\ alloc'[a].ref = alloc[a].ref
<1>1. CASE \E k \in Booking : CreateBooking(k)
  <2>1. \A a \in Alloc : /\ [alloc[a] EXCEPT !.linked = TRUE].status = alloc[a].status
                         /\ [alloc[a] EXCEPT !.linked = TRUE].unit = alloc[a].unit
                         /\ [alloc[a] EXCEPT !.linked = TRUE].ref = alloc[a].ref
    BY DEF IInv, TypeOK, AllocRow
  <2> QED
    BY <1>1, <2>1 DEF CreateBooking
<1>2. CASE \/ \E k \in Booking, b \in Branch : OpenBooking(k, b)
           \/ \E k \in Booking : RollBackBooking(k) \/ CancelBooking(k)
  BY <1>2 DEF OpenBooking, RollBackBooking, CancelBooking
<1> QED
  BY <1>1, <1>2 DEF BookingNext

(* Only live rows are written: by the commands that looked one up under the *)
(* lock, by the re-read of the expiry loop, and by the pre-lock readers     *)
(* because their row is still the live one.                                 *)
LEMMA EndedRowsStep == ASSUME IInv, [Next]_vars PROVE EndedRowsKept
<1>1. CASE UnitNext
  <2> SUFFICES ASSUME NEW u \in Unit,
                      \/ \E b \in Branch, s \in UnitStatus : CreateUnit(u, b, s)
                      \/ Transition(u)
                      \/ \E a \in Alloc : Deliver(u, a)
                      \/ \E r \in Rsv, ref \in Booking \cup {None}, e \in 0..MaxTime :
                            Reserve(u, r, ref, e)
                      \/ \E k \in Booking, a \in Alloc, billing \in BookingBilling :
                            Allocate(u, k, a, billing)
                      \/ \E x \in Xfer, b \in Branch : StartTransfer(u, x, b)
               PROVE  EndedRowsKept
    BY <1>1 DEF UnitNext
  <2>1. CASE (\E b \in Branch, s \in UnitStatus : CreateUnit(u, b, s)) \/ Transition(u)
    BY <2>1 DEF CreateUnit, Transition, EndedRowsKept
  <2>2. CASE \E a \in Alloc : Deliver(u, a)
    BY <2>2 DEF Deliver, AllocatedBy, EndedRowsKept, IInv, TypeOK
  <2>3. CASE \E r \in Rsv, ref \in Booking \cup {None}, e \in 0..MaxTime :
               Reserve(u, r, ref, e)
    BY <2>3 DEF Reserve, EndedRowsKept, IInv, TypeOK
  <2>4. CASE \E k \in Booking, a \in Alloc, billing \in BookingBilling :
               Allocate(u, k, a, billing)
    BY <2>4 DEF Allocate, HoldConverts, ReservedBy, EndedRowsKept, IInv, TypeOK
  <2>5. CASE \E x \in Xfer, b \in Branch : StartTransfer(u, x, b)
    BY <2>5 DEF StartTransfer, EndedRowsKept, IInv, TypeOK
  <2> QED
    BY <2>1, <2>2, <2>3, <2>4, <2>5
<1>2. CASE ClientNext
  <2> SUFFICES ASSUME NEW c \in Client,
                      \/ \E r \in Rsv : ReadReservation(c, r)
                      \/ \E a \in Alloc : ReadAllocation(c, a)
                      \/ \E r \in Rsv, e \in 0..MaxTime : ExtendReservation(c, r, e)
                      \/ \E r \in Rsv : ReleaseReservation(c, r)
                      \/ \E a \in Alloc : ReleaseAllocation(c, a)
                      \/ \E a, n \in Alloc, to \in Unit : Reallocate(c, a, to, n)
                      \/ Abandon(c)
               PROVE  EndedRowsKept
    BY <1>2 DEF ClientNext
  <2>1. CASE \/ \E r \in Rsv : ReadReservation(c, r)
             \/ \E a \in Alloc : ReadAllocation(c, a)
             \/ Abandon(c)
    BY <2>1 DEF ReadReservation, ReadAllocation, Abandon, EndedRowsKept
  <2>2. CASE \E r \in Rsv, e \in 0..MaxTime : ExtendReservation(c, r, e)
    BY <2>2, FreshReservation DEF ExtendReservation, EndedRowsKept, IInv, TypeOK
  <2>3. CASE \E r \in Rsv : ReleaseReservation(c, r)
    BY <2>3, FreshReservation DEF ReleaseReservation, EndedRowsKept, IInv, TypeOK
  <2>4. CASE \E a \in Alloc : ReleaseAllocation(c, a)
    BY <2>4, FreshAllocation DEF ReleaseAllocation, EndedRowsKept, IInv, TypeOK
  <2>5. CASE \E a, n \in Alloc, to \in Unit : Reallocate(c, a, to, n)
    BY <2>5, FreshAllocation DEF Reallocate, EndedRowsKept, IInv, TypeOK
  <2> QED
    BY <2>1, <2>2, <2>3, <2>4, <2>5
<1>3. CASE TransferNext
  BY <1>3 DEF TransferNext, EndTransfer, NotEnded, EndedRowsKept, IInv, TypeOK
<1>4. CASE ExpiryNext
  BY <1>4 DEF ExpiryNext, ScanDue, AbortBatch, ExpireBatch, Expiring, StillDue, EndedRowsKept,
     IInv, TypeOK
<1>5. CASE BookingNext
  <2>1. /\ rsv' = rsv /\ xfer' = xfer
        /\ \A a \in Alloc : /\ alloc'[a].status = alloc[a].status
                            /\ alloc'[a].unit = alloc[a].unit /\ alloc'[a].ref = alloc[a].ref
    BY <1>5, BookingsWriteLinks
  <2> QED
    BY <2>1 DEF EndedRowsKept
<1>6. CASE Tick \/ UNCHANGED vars
  BY <1>6 DEF Tick, vars, EndedRowsKept
<1> QED
  BY <1>1, <1>2, <1>3, <1>4, <1>5, <1>6 DEF Next

(* An outcome that was committed is never rewritten. *)
THEOREM EndedRowsAreFinal == Spec => TerminalRowsFinal
<1>1. IInv /\ [Next]_vars => [EndedRowsKept]_vars
  BY EndedRowsStep
<1> QED
  BY <1>1, Invariance, PTL DEF Spec, TerminalRowsFinal

(* An open expiry transaction captured its time in the past. *)
BatchesPast == \A w \in Worker : batch[w].at <= now

LEMMA BatchesPastInvariant == Spec => []BatchesPast
<1>1. Init => BatchesPast
  BY DEF Init, BatchesPast, NoBatch
<1>2. IInv /\ BatchesPast /\ [Next]_vars => BatchesPast'
  <2> SUFFICES ASSUME IInv, BatchesPast, [Next]_vars PROVE BatchesPast'
    OBVIOUS
  <2>1. now \in Nat /\ \A w \in Worker : batch[w].at \in Nat
    BY ConstantsAssumption DEF IInv, TypeOK, Candidates
  <2>2. CASE Tick
    BY <2>1, <2>2 DEF Tick, BatchesPast
  <2>3. CASE ExpiryNext
    <3>1. PICK w \in Worker : now' = now /\ \A v \in Worker \ {w} : batch'[v] = batch[v]
      BY <2>3 DEF ExpiryNext, ScanDue, AbortBatch, ExpireBatch, IInv, TypeOK
    <3>2. batch'[w].at \in {now, 0} \/ batch'[w] = batch[w]
      BY <2>3 DEF ExpiryNext, ScanDue, AbortBatch, ExpireBatch, NoBatch, IInv, TypeOK
    <3> QED
      BY <2>1, <3>1, <3>2 DEF BatchesPast
  <2>4. CASE now' = now /\ batch' = batch
    BY <2>4 DEF BatchesPast
  <2>5. UnitNext => now' = now /\ batch' = batch
    BY DEF UnitNext, CreateUnit, Transition, Deliver, Reserve, Allocate, StartTransfer
  <2>6. ClientNext => now' = now /\ batch' = batch
    BY DEF ClientNext, ReadReservation, ReadAllocation, ExtendReservation,
       ReleaseReservation, ReleaseAllocation, Reallocate, Abandon
  <2>7. TransferNext \/ BookingNext \/ UNCHANGED vars => now' = now /\ batch' = batch
    BY DEF TransferNext, EndTransfer, BookingNext, OpenBooking, CreateBooking,
       RollBackBooking, CancelBooking, vars
  <2> QED
    BY <2>2, <2>3, <2>4, <2>5, <2>6, <2>7 DEF Next
<1> QED
  BY <1>1, <1>2, Invariance, PTL DEF Spec

LEMMA ExpiryStep == ASSUME IInv, BatchesPast, [Next]_vars PROVE ExpiresOverdueOnly
<1>0. now \in Nat /\ \A w \in Worker : batch[w].at \in Nat
  BY ConstantsAssumption DEF IInv, TypeOK, Candidates
<1>1. CASE \E w \in Worker : ExpireBatch(w)
  <2>1. PICK w \in Worker : ExpireBatch(w)
    BY <1>1
  <2>2. ASSUME NEW r \in Rsv, rsv[r].status = "ACTIVE", rsv'[r].status = "EXPIRED"
        PROVE  rsv[r].expires <= now
    <3>1. r \in Expiring(w)
      BY <2>1, <2>2 DEF ExpireBatch
    <3>2. rsv[r].expires <= batch[w].at /\ batch[w].at <= now
      BY <3>1 DEF Expiring, StillDue, BatchesPast
    <3> QED
      BY <1>0, <3>2, ConstantsAssumption DEF IInv, TypeOK, RsvRow
  <2> QED
    BY <2>2 DEF ExpiresOverdueOnly
<1>2. CASE \/ ClientNext \/ UnitNext
  <2>1. \A r \in Rsv : rsv[r].status = "ACTIVE" => rsv'[r].status # "EXPIRED"
    BY <1>2 DEF ClientNext, UnitNext, CreateUnit, Transition, Deliver, Reserve, Allocate,
       StartTransfer, ReadReservation, ReadAllocation, ExtendReservation, ReleaseReservation,
       ReleaseAllocation, Reallocate, Abandon, IInv, TypeOK, RsvRow
  <2> QED
    BY <2>1 DEF ExpiresOverdueOnly
<1>3. CASE rsv' = rsv
  BY <1>3 DEF ExpiresOverdueOnly
<1>4. TransferNext \/ BookingNext \/ Tick \/ UNCHANGED vars => rsv' = rsv
  BY DEF TransferNext, EndTransfer, BookingNext, OpenBooking, CreateBooking, RollBackBooking,
     CancelBooking, Tick, vars
<1>5. ExpiryNext => rsv' = rsv \/ \E w \in Worker : ExpireBatch(w)
  BY DEF ExpiryNext, ScanDue, AbortBatch
<1> QED
  BY <1>1, <1>2, <1>3, <1>4, <1>5 DEF Next

(* A monitor acts on the deadline a reservation has, not on the one it had. *)
THEOREM ExtensionsAreRespected == Spec => ExpiryRespectsExtension
<1>1. IInv /\ BatchesPast /\ [Next]_vars => [ExpiresOverdueOnly]_vars
  BY ExpiryStep
<1> QED
  BY <1>1, Invariance, BatchesPastInvariant, PTL DEF Spec, ExpiryRespectsExtension

(* A unit reserved by r is RESERVED, and only allocate() may take it then.  *)
LEMMA HoldStep == ASSUME IInv, [Next]_vars PROVE HoldHonoured
<1> SUFFICES ASSUME NEW u \in Unit, NEW r \in Rsv, NEW a \in Alloc,
                    ReservedBy(r, u), rsv[r].ref # None,
                    ~AllocatedBy(a, u), AllocatedBy(a, u)'
             PROVE  alloc'[a].ref = rsv[r].ref /\ rsv[r].expires > now
  BY DEF HoldHonoured
<1>1. unit[u].status = "RESERVED"
  BY DEF IInv, StockConsistent, ReservedExplained
<1>2. /\ ~(alloc[a].status = "ACTIVE" /\ alloc[a].unit = u)
      /\ alloc'[a].status = "ACTIVE" /\ alloc'[a].unit = u
  BY DEF AllocatedBy
<1>3. CASE \E v \in Unit, k \in Booking, o \in Alloc, billing \in BookingBilling :
             Allocate(v, k, o, billing)
  <2>1. PICK v \in Unit, k \in Booking, o \in Alloc, billing \in BookingBilling :
          Allocate(v, k, o, billing)
    BY <1>3
  <2>2. alloc' = [alloc EXCEPT ![o] = [status |-> "ACTIVE", unit |-> v, ref |-> k,
                                       linked |-> billing]]
    BY <2>1 DEF Allocate
  <2>3. o = a /\ v = u /\ alloc'[a].ref = k
    BY <1>2, <2>2 DEF IInv, TypeOK
  <2>4. PICK q \in Rsv : HoldConverts(q, u, k)
    BY <1>1, <2>1, <2>3 DEF Allocate
  <2>5. q = r
    BY <2>4 DEF HoldConverts, IInv, StockConsistent, OneHoldPerUnit
  <2> QED
    BY <2>3, <2>4, <2>5 DEF HoldConverts
<1>4. CASE \E c \in Client, o, n \in Alloc, to \in Unit : Reallocate(c, o, to, n)
  <2>1. PICK c \in Client, o \in Alloc, n \in Alloc, to \in Unit : Reallocate(c, o, to, n)
    BY <1>4
  <2>2. unit[to].status = "AVAILABLE" /\ to # u
    BY <1>1, <2>1 DEF Reallocate, Ready
  <2>3. alloc' = [alloc EXCEPT ![o].status = "REPLACED",
                               ![n] = [status |-> "ACTIVE", unit |-> to,
                                       ref |-> alloc[o].ref, linked |-> FALSE]]
    BY <2>1 DEF Reallocate
  <2>4. a # n
    BY <1>2, <2>2, <2>3 DEF IInv, TypeOK
  <2>5. a = o => alloc'[a].status = "REPLACED"
    BY <2>3, <2>4 DEF IInv, TypeOK, AllocRow
  <2>6. a # o => alloc'[a] = alloc[a]
    BY <2>3, <2>4 DEF IInv, TypeOK
  <2> QED
    BY <1>2, <2>5, <2>6
<1>5. CASE \E o \in Alloc : \/ alloc' = [alloc EXCEPT ![o].status = "RELEASED"]
                            \/ alloc' = [alloc EXCEPT ![o].status = "DELIVERED"]
  BY <1>2, <1>5 DEF IInv, TypeOK, AllocRow
<1>6. CASE alloc' = alloc \/ BookingNext
  BY <1>2, <1>6, BookingsWriteLinks
<1>7. UnitNext => \/ alloc' = alloc
                  \/ \E o \in Alloc : alloc' = [alloc EXCEPT ![o].status = "DELIVERED"]
                  \/ \E v \in Unit, k \in Booking, o \in Alloc, billing \in BookingBilling :
                        Allocate(v, k, o, billing)
  BY DEF UnitNext, CreateUnit, Transition, Deliver, Reserve, StartTransfer
<1>8. ClientNext => \/ alloc' = alloc
                    \/ \E o \in Alloc : alloc' = [alloc EXCEPT ![o].status = "RELEASED"]
                    \/ \E c \in Client, o, n \in Alloc, to \in Unit : Reallocate(c, o, to, n)
  BY DEF ClientNext, ReadReservation, ReadAllocation, ExtendReservation, ReleaseReservation,
     ReleaseAllocation, Abandon
<1>9. TransferNext \/ ExpiryNext \/ Tick \/ UNCHANGED vars => alloc' = alloc
  BY DEF TransferNext, EndTransfer, ExpiryNext, ScanDue, ExpireBatch, AbortBatch, Tick, vars
<1> QED
  BY <1>3, <1>4, <1>5, <1>6, <1>7, <1>8, <1>9 DEF Next

(* Held stock goes to the booking it is held for. *)
THEOREM HoldsAreHonoured == Spec => HeldUnitGoesToHolder
<1>1. IInv /\ [Next]_vars => [HoldHonoured]_vars
  BY HoldStep
<1> QED
  BY <1>1, Invariance, PTL DEF Spec, HeldUnitGoesToHolder

(* An allocation, once inserted, names its unit and its booking for good. *)
LEMMA AllocationsStay ==
    ASSUME IInv, [Next]_vars
    PROVE  \A a \in Alloc : alloc[a].status # "NONE" =>
              /\ alloc'[a].status # "NONE"
              /\ alloc'[a].unit = alloc[a].unit /\ alloc'[a].ref = alloc[a].ref
<1>1. CASE alloc' = alloc
  BY <1>1
<1>2. CASE \E o \in Alloc : \/ alloc' = [alloc EXCEPT ![o].status = "RELEASED"]
                            \/ alloc' = [alloc EXCEPT ![o].status = "DELIVERED"]
  BY <1>2 DEF IInv, TypeOK, AllocRow
<1>3. CASE \E u \in Unit, k \in Booking, a \in Alloc, billing \in BookingBilling :
             Allocate(u, k, a, billing)
  BY <1>3 DEF Allocate, IInv, TypeOK
<1>4. CASE \E c \in Client, a, n \in Alloc, to \in Unit : Reallocate(c, a, to, n)
  <2>1. PICK c \in Client, a \in Alloc, n \in Alloc, to \in Unit : Reallocate(c, a, to, n)
    BY <1>4
  <2>2. /\ alloc[n].status = "NONE"
        /\ alloc' = [alloc EXCEPT ![a].status = "REPLACED",
                                  ![n] = [status |-> "ACTIVE", unit |-> to,
                                          ref |-> alloc[a].ref, linked |-> FALSE]]
    BY <2>1 DEF Reallocate
  <2> QED
    BY <2>2 DEF IInv, TypeOK, AllocRow
<1>5. CASE BookingNext
  BY <1>5, BookingsWriteLinks
<1>6. UnitNext =>
        \/ alloc' = alloc
        \/ \E o \in Alloc : alloc' = [alloc EXCEPT ![o].status = "DELIVERED"]
        \/ \E u \in Unit, k \in Booking, a \in Alloc, billing \in BookingBilling :
              Allocate(u, k, a, billing)
  BY DEF UnitNext, CreateUnit, Transition, Deliver, Reserve, StartTransfer
<1>7. ClientNext =>
        \/ alloc' = alloc
        \/ \E o \in Alloc : alloc' = [alloc EXCEPT ![o].status = "RELEASED"]
        \/ \E c \in Client, a, n \in Alloc, to \in Unit : Reallocate(c, a, to, n)
  BY DEF ClientNext, ReadReservation, ReadAllocation, ExtendReservation, ReleaseReservation,
     ReleaseAllocation, Abandon
<1>8. TransferNext \/ ExpiryNext \/ Tick \/ UNCHANGED vars => alloc' = alloc
  BY DEF TransferNext, EndTransfer, ExpiryNext, ScanDue, ExpireBatch, AbortBatch, Tick, vars
<1> QED
  BY <1>1, <1>2, <1>3, <1>4, <1>5, <1>6, <1>7, <1>8 DEF Next

(* What an open createBooking has found is an allocation of its reference,  *)
(* whatever has become of it, and of the unit the booking will point at.    *)
OpeningPlaced ==
    \A k \in Booking : booking[k].status = "OPENING" /\ booking[k].found # None =>
        /\ alloc[booking[k].found].status # "NONE"
        /\ alloc[booking[k].found].ref = k
        /\ alloc[booking[k].found].unit = booking[k].selected

(* The commands outside the booking service leave an open booking alone:    *)
(* allocate() writes the row of a confirmed one only.                       *)
LEMMA BookingWriters ==
    ASSUME IInv, [Next]_vars
    PROVE  \/ booking' = booking
           \/ BookingNext
           \/ \E u \in Unit, k \in Booking, a \in Alloc, billing \in BookingBilling :
                 Allocate(u, k, a, billing)
<1>1. UnitNext =>
        \/ booking' = booking
        \/ \E u \in Unit, k \in Booking, a \in Alloc, billing \in BookingBilling :
              Allocate(u, k, a, billing)
  BY DEF UnitNext, CreateUnit, Transition, Deliver, Reserve, StartTransfer
<1>2. ClientNext => booking' = booking
  BY DEF ClientNext, ReadReservation, ReadAllocation, ExtendReservation, ReleaseReservation,
     ReleaseAllocation, Reallocate, Abandon
<1>3. TransferNext \/ ExpiryNext \/ Tick \/ UNCHANGED vars => booking' = booking
  BY DEF TransferNext, EndTransfer, ExpiryNext, ScanDue, ExpireBatch, AbortBatch, Tick, vars
<1> QED
  BY <1>1, <1>2, <1>3 DEF Next

LEMMA OpeningStep == ASSUME IInv, OpeningPlaced, [Next]_vars PROVE OpeningPlaced'
<1>0. \A k \in Booking : booking[k].found \in Alloc \cup {None}
  BY DEF IInv, TypeOK, BookingRow
<1>1. \A k \in Booking : booking'[k] = booking[k] =>
        (booking'[k].status = "OPENING" /\ booking'[k].found # None =>
            /\ alloc'[booking'[k].found].status # "NONE"
            /\ alloc'[booking'[k].found].ref = k
            /\ alloc'[booking'[k].found].unit = booking'[k].selected)
  BY <1>0, AllocationsStay DEF OpeningPlaced
<1>2. CASE booking' = booking
  BY <1>1, <1>2 DEF OpeningPlaced
<1>3. CASE \E u \in Unit, k \in Booking, a \in Alloc, billing \in BookingBilling :
             Allocate(u, k, a, billing)
  <2>1. PICK u \in Unit, k \in Booking, a \in Alloc, billing \in BookingBilling :
          Allocate(u, k, a, billing)
    BY <1>3
  <2>2. /\ \A j \in Booking \ {k} : booking'[j] = booking[j]
        /\ booking'[k] = booking[k] \/ booking'[k].status = "CONFIRMED"
    BY <2>1, ConstantsAssumption DEF Allocate, BookingAccepts, IInv, TypeOK, BookingRow
  <2> QED
    BY <1>1, <2>2 DEF OpeningPlaced
<1>4. CASE \E k \in Booking : CreateBooking(k) \/ RollBackBooking(k) \/ CancelBooking(k)
  <2>1. PICK k \in Booking : /\ \A j \in Booking \ {k} : booking'[j] = booking[j]
                             /\ booking'[k].status # "OPENING"
    BY <1>4 DEF CreateBooking, RollBackBooking, CancelBooking, NoBooking, IInv, TypeOK,
       BookingRow
  <2> QED
    BY <1>1, <2>1 DEF OpeningPlaced
<1>5. CASE \E k \in Booking, b \in Branch : OpenBooking(k, b)
  <2>1. PICK k \in Booking, b \in Branch : OpenBooking(k, b)
    BY <1>5
  <2>2. /\ alloc' = alloc
        /\ \A j \in Booking \ {k} : booking'[j] = booking[j]
    BY <2>1 DEF OpenBooking, IInv, TypeOK
  <2>3. \/ booking'[k].found = None
        \/ \E a \in Alloc : /\ AllocatedFor(a, k) /\ booking'[k].found = a
                            /\ booking'[k].selected = alloc[a].unit
    BY <2>1 DEF OpenBooking, IInv, TypeOK
  <2> QED
    BY <1>1, <2>2, <2>3 DEF OpeningPlaced, AllocatedFor
<1> QED
  BY <1>2, <1>3, <1>4, <1>5, BookingWriters DEF BookingNext

(* The link between an allocation and its booking is established from two   *)
(* sides; each side finds no live row of the other that would contradict it. *)
LEMMA LinkStep ==
    ASSUME IInv, OpeningPlaced, LinkedAllocationSelected, [Next]_vars
    PROVE  LinkedAllocationSelected'
<1>0. \A a \in Alloc : alloc[a].status = "ACTIVE" => alloc[a].ref \in Booking
  BY DEF IInv, RowsPlaced
<1>1. CASE \E u \in Unit, k \in Booking, a \in Alloc, billing \in BookingBilling :
             Allocate(u, k, a, billing)
  <2>1. PICK u \in Unit, k \in Booking, a \in Alloc, billing \in BookingBilling :
          Allocate(u, k, a, billing)
    BY <1>1
  <2>2. /\ alloc'[a] = [status |-> "ACTIVE", unit |-> u, ref |-> k, linked |-> billing]
        /\ \A o \in Alloc \ {a} : alloc'[o] = alloc[o]
    BY <2>1 DEF Allocate, IInv, TypeOK
  <2>3. \A o \in Alloc : ~(alloc[o].status = "ACTIVE" /\ alloc[o].ref = k)
    BY <2>1 DEF Allocate, AllocatedFor
  <2>4. /\ billing => booking'[k].status = "CONFIRMED" /\ booking'[k].selected = u
        /\ \A j \in Booking \ {k} : booking'[j] = booking[j]
    BY <2>1, ConstantsAssumption DEF Allocate, BookingAccepts, IInv, TypeOK, BookingRow
  <2> QED
    BY <1>0, <2>2, <2>3, <2>4 DEF LinkedAllocationSelected
<1>2. CASE \E k \in Booking : CreateBooking(k)
  <2>1. PICK k \in Booking : CreateBooking(k)
    BY <1>2
  <2>2. /\ booking[k].status = "OPENING"
        /\ booking'[k].status = "CONFIRMED" /\ booking'[k].selected = booking[k].selected
        /\ \A j \in Booking \ {k} : booking'[j] = booking[j]
    BY <2>1 DEF CreateBooking, IInv, TypeOK
  <2>3. \A a \in Alloc : /\ alloc'[a].status = alloc[a].status
                         /\ alloc'[a].unit = alloc[a].unit /\ alloc'[a].ref = alloc[a].ref
    BY <2>1, BookingsWriteLinks DEF BookingNext
  <2>4. \A a \in Alloc : a # booking[k].found => alloc'[a].linked = alloc[a].linked
    BY <2>1 DEF CreateBooking
  <2>5. ASSUME NEW a \in Alloc, alloc'[a].status = "ACTIVE", alloc'[a].linked
        PROVE  /\ booking'[alloc'[a].ref].status \in {"CONFIRMED", "CANCELLED"}
               /\ booking'[alloc'[a].ref].selected = alloc'[a].unit
    <3>1. CASE a = booking[k].found
      <4>1. alloc[a].ref = k /\ alloc[a].unit = booking[k].selected
        BY <2>2, <3>1, ConstantsAssumption DEF OpeningPlaced
      <4> QED
        BY <2>2, <2>3, <4>1
    <3>2. CASE a # booking[k].found
      <4>1. alloc[a].status = "ACTIVE" /\ alloc[a].linked
        BY <2>3, <2>4, <2>5, <3>2
      <4>2. /\ booking[alloc[a].ref].status \in {"CONFIRMED", "CANCELLED"}
            /\ booking[alloc[a].ref].selected = alloc[a].unit
        BY <4>1 DEF LinkedAllocationSelected
      <4> QED
        BY <1>0, <2>2, <2>3, <4>1, <4>2
    <3> QED
      BY <3>1, <3>2
  <2> QED
    BY <2>5 DEF LinkedAllocationSelected
<1>3. CASE \/ \E k \in Booking, b \in Branch : OpenBooking(k, b)
           \/ \E k \in Booking : RollBackBooking(k) \/ CancelBooking(k)
  <2>1. alloc' = alloc
    BY <1>3 DEF OpenBooking, RollBackBooking, CancelBooking
  <2>2. \A k \in Booking : booking[k].status \in {"CONFIRMED", "CANCELLED"} =>
          /\ booking'[k].status \in {"CONFIRMED", "CANCELLED"}
          /\ booking'[k].selected = booking[k].selected
    <3>1. CASE \E k \in Booking, b \in Branch : OpenBooking(k, b)
      BY <3>1 DEF OpenBooking, IInv, TypeOK
    <3>2. CASE \E k \in Booking : RollBackBooking(k)
      BY <3>2 DEF RollBackBooking, IInv, TypeOK
    <3>3. CASE \E k \in Booking : CancelBooking(k)
      BY <3>3 DEF CancelBooking, IInv, TypeOK, BookingRow
    <3> QED
      BY <1>3, <3>1, <3>2, <3>3
  <2> QED
    BY <1>0, <2>1, <2>2 DEF LinkedAllocationSelected
<1>4. CASE \E c \in Client, a, n \in Alloc, to \in Unit : Reallocate(c, a, to, n)
  <2>1. PICK c \in Client, a \in Alloc, n \in Alloc, to \in Unit : Reallocate(c, a, to, n)
    BY <1>4
  <2>2. /\ alloc' = [alloc EXCEPT ![a].status = "REPLACED",
                                  ![n] = [status |-> "ACTIVE", unit |-> to,
                                          ref |-> alloc[a].ref, linked |-> FALSE]]
        /\ booking' = booking
    BY <2>1 DEF Reallocate
  <2>3. \A o \in Alloc : alloc'[o].status = "ACTIVE" /\ alloc'[o].linked => alloc'[o] = alloc[o]
    BY <2>2 DEF IInv, TypeOK, AllocRow
  <2> QED
    BY <1>0, <2>2, <2>3 DEF LinkedAllocationSelected
<1>5. CASE /\ booking' = booking
           /\ \/ alloc' = alloc
              \/ \E o \in Alloc : \/ alloc' = [alloc EXCEPT ![o].status = "RELEASED"]
                                  \/ alloc' = [alloc EXCEPT ![o].status = "DELIVERED"]
  <2>1. \A o \in Alloc : alloc'[o].status = "ACTIVE" => alloc'[o] = alloc[o]
    BY <1>5 DEF IInv, TypeOK, AllocRow
  <2> QED
    BY <1>0, <1>5, <2>1 DEF LinkedAllocationSelected
<1>6. UnitNext =>
        \/ /\ booking' = booking
           /\ \/ alloc' = alloc
              \/ \E o \in Alloc : alloc' = [alloc EXCEPT ![o].status = "DELIVERED"]
        \/ \E u \in Unit, k \in Booking, a \in Alloc, billing \in BookingBilling :
              Allocate(u, k, a, billing)
  BY DEF UnitNext, CreateUnit, Transition, Deliver, Reserve, StartTransfer
<1>7. ClientNext =>
        \/ /\ booking' = booking
           /\ \/ alloc' = alloc
              \/ \E o \in Alloc : alloc' = [alloc EXCEPT ![o].status = "RELEASED"]
        \/ \E c \in Client, a, n \in Alloc, to \in Unit : Reallocate(c, a, to, n)
  BY DEF ClientNext, ReadReservation, ReadAllocation, ExtendReservation, ReleaseReservation,
     ReleaseAllocation, Abandon
<1>8. TransferNext \/ ExpiryNext \/ Tick \/ UNCHANGED vars
        => alloc' = alloc /\ booking' = booking
  BY DEF TransferNext, EndTransfer, ExpiryNext, ScanDue, ExpireBatch, AbortBatch, Tick, vars
<1> QED
  BY <1>1, <1>2, <1>3, <1>4, <1>5, <1>6, <1>7, <1>8 DEF Next, BookingNext

(* A booking always points at the unit of the live allocation linked to it. *)
THEOREM LinksAgree == Spec => []LinkedAllocationSelected
<1>1. Init => OpeningPlaced /\ LinkedAllocationSelected
  BY DEF Init, OpeningPlaced, LinkedAllocationSelected, NoBooking
<1>2. IInv /\ OpeningPlaced /\ LinkedAllocationSelected /\ [Next]_vars
        => OpeningPlaced' /\ LinkedAllocationSelected'
  BY OpeningStep, LinkStep
<1> QED
  BY <1>1, <1>2, Invariance, PTL DEF Spec

(* Whatever the interleaving of the commands, a unit's status, the rows that *)
(* hold it and the unit its booking selected agree.                          *)
THEOREM StockTellsOneStory == Spec => []StockAgrees
  BY StockIsConsistent, LinksAgree, PTL DEF StockAgrees

=============================================================================
