---------------------------- MODULE FieldProofs ----------------------------
(* Proofs about the test rides, the reminders, the leads and the calls, for  *)
(* every set of them and of workers.                                         *)
EXTENDS TestRides, Reminders, Leads, Calls, FiniteSetTheorems, TLAPS

-----------------------------------------------------------------------------
(* Test rides.                                                               *)
Engaged == {"EXECUTIVE_ASSIGNED", "ACTIVE"}

RowsTyped ==
    /\ rides \in [Ride -> RideRow \cup {NoRide}]
    /\ calendar \in [Ride -> {"NONE", "HELD", "COMPLETED", "RELEASED"}]
    /\ trips \in [Ride -> {"NONE", "OPEN", "STOPPED"}]
    /\ samples \subseteq Ride /\ unitBookings \subseteq Ride /\ stranded \subseteq Ride
    /\ commands \subseteq RideKey
    /\ demoUnits \in [Vehicle -> UnitRow \cup {NoUnit}]
    /\ rideTasks = [w \in RideWorker |-> rideTasks[w]]

(* The rides a run of the expiry listed. *)
ListTyped(t) ==
    /\ DOMAIN t.list \subseteq Ride
    /\ \A r \in DOMAIN t.list : t.list[r] \in RideRow
TaskTyped(t) == IF t.step = "EXPIRING" THEN ListTyped(t) ELSE t \in RideTask

(* What a worker under the lock of a vehicle looked for has stayed absent,   *)
(* in the branch of the lock: a booking that overlaps names the unit where   *)
(* this one does not, and the reference alone where this one names the unit. *)
Clear(r, linked) ==
    \A o \in Ride : /\ calendar[o] = "HELD"
                    /\ rides[o].vehicle = rides[r].vehicle
                    /\ rides[o].branch = rides[r].branch
                    /\ SameHours(o, r)
                    => (o \in unitBookings <=> ~linked)
(* So has what a worker under the lock of an executive looked for, of the    *)
(* lock's branch.                                                            *)
Unengaged(e, r) ==
    \A o \in Ride \ {r} : /\ rides[o].status \in Engaged
                          /\ rides[o].executive = e
                          /\ rides[o].branch = rides[r].branch
                          => ~SameHours(o, r)
TaskPlaced(t) ==
    /\ t.step \in {"READ", "BOOKING", "ASSIGNING", "COMMAND"} =>
           /\ rides[t.ride] # NoRide /\ t.seen.vehicle = rides[t.ride].vehicle
           /\ t.seen.branch = rides[t.ride].branch
    /\ t.step = "BOOKING" => /\ t.seen.status = "REQUESTED"
                             /\ Clear(t.ride, t.seen.linked)
                             /\ t.seen.linked => InItsBranch(t.seen.vehicle, t.seen.branch)
    /\ t.step = "ASSIGNING" => /\ t.seen.status \in {"CUSTOMER_CONFIRMED", "EXECUTIVE_ASSIGNED"}
                               /\ Unengaged(t.executive, t.ride)
    /\ t.step = "COMMAND" => t.seen.status \in Serves(t.type)

(* The locks exclude one another. *)
Apart ==
    \A w, x \in RideWorker : w # x =>
        /\ rideTasks[w].step = "BOOKING" /\ rideTasks[x].step = "BOOKING"
               => \/ rideTasks[w].seen.vehicle # rideTasks[x].seen.vehicle
                  \/ rideTasks[w].seen.branch # rideTasks[x].seen.branch
        /\ rideTasks[w].step = "ASSIGNING" /\ rideTasks[x].step = "ASSIGNING"
               => \/ rideTasks[w].executive # rideTasks[x].executive
                  \/ rideTasks[w].seen.branch # rideTasks[x].seen.branch

(* A booking of the unit is where the unit is, unless the unit has moved.    *)
BookingsPlaced ==
    /\ \A r \in Ride : calendar[r] # "NONE" => rides[r] # NoRide /\ rides[r].status # "REQUESTED"
    /\ \A r \in unitBookings : calendar[r] # "NONE" /\ demoUnits[rides[r].vehicle] # NoUnit
    /\ \A r \in unitBookings \ stranded :
           calendar[r] = "HELD" => demoUnits[rides[r].vehicle].branch = rides[r].branch

(* The half of VehicleBookedOnce that is not about the place of the unit.    *)
BranchBookedOnce ==
    \A a, b \in Ride :
        /\ a # b /\ calendar[a] = "HELD" /\ calendar[b] = "HELD"
        /\ rides[a].vehicle = rides[b].vehicle /\ rides[a].branch = rides[b].branch
        /\ SameHours(a, b)
        => (a \in unitBookings <=> b \notin unitBookings)

IInv ==
    /\ RowsTyped
    /\ \A w \in RideWorker : TaskTyped(rideTasks[w]) /\ TaskPlaced(rideTasks[w])
    /\ Apart /\ BookingsPlaced
    /\ RideHoldsItsVehicle /\ BranchBookedOnce /\ ExecutiveBookedOnce

LEMMA InitIInv == ASSUME RideInit PROVE IInv
<1>1. RowsTyped /\ Apart /\ BookingsPlaced
  BY DEF RideInit, RowsTyped, Apart, BookingsPlaced, NoRide
<1>2. \A w \in RideWorker : TaskTyped(rideTasks[w]) /\ TaskPlaced(rideTasks[w])
  BY DEF RideInit, TaskTyped, TaskPlaced, RideTask
<1>3. RideHoldsItsVehicle /\ BranchBookedOnce /\ ExecutiveBookedOnce
  BY DEF RideInit, RideHoldsItsVehicle, BranchBookedOnce, ExecutiveBookedOnce, NoRide, Holding
<1> QED
  BY <1>1, <1>2, <1>3 DEF IInv

-----------------------------------------------------------------------------
(* A worker takes up a task; the rows of rides stay. *)
LEMMA TaskStep ==
    ASSUME IInv, NEW w \in RideWorker, NEW t,
           Drives(w, t), TaskTyped(t), TaskPlaced(t),
           t.step = "BOOKING" => VehicleOpen(w, t.seen),
           t.step = "ASSIGNING" => ExecutiveOpen(w, t.seen.branch, t.executive),
           UNCHANGED <<rides, calendar, trips, rideUnits>>,
           samples' \subseteq Ride, commands' \subseteq RideKey
    PROVE  IInv'
<1>1. /\ rideTasks'[w] = t
      /\ \A x \in RideWorker \ {w} : rideTasks'[x] = rideTasks[x]
      /\ rideTasks' = [x \in RideWorker |-> rideTasks'[x]]
  BY DEF Drives, IInv, RowsTyped
<1>u. UNCHANGED <<unitBookings, stranded, demoUnits>>
  BY DEF rideUnits
<1>2. RowsTyped' /\ BookingsPlaced'
  BY <1>1, <1>u DEF IInv, RowsTyped, BookingsPlaced
<1>3. ASSUME NEW x \in RideWorker
      PROVE  (TaskTyped(rideTasks[x]) /\ TaskPlaced(rideTasks[x]))'
  <2>1. CASE x = w
    BY <1>1, <1>u, <2>1 DEF TaskTyped, ListTyped, TaskPlaced, Clear, Unengaged, SameHours, InItsBranch
  <2>2. CASE x # w
    BY <1>1, <1>u, <2>2 DEF IInv, TaskTyped, ListTyped, TaskPlaced, Clear, Unengaged, SameHours, InItsBranch
  <2> QED
    BY <2>1, <2>2
<1>4. Apart'
  BY <1>1 DEF IInv, Apart, VehicleOpen, ExecutiveOpen, Busy
<1>5. RideHoldsItsVehicle' /\ BranchBookedOnce' /\ ExecutiveBookedOnce'
  BY <1>u DEF IInv, RideHoldsItsVehicle, BranchBookedOnce, ExecutiveBookedOnce, SameHours
<1> QED
  BY <1>2, <1>3, <1>4, <1>5 DEF IInv

(* One ride becomes `row`, with its booking and its session; workers go on   *)
(* with their tasks or put them aside.                                       *)
LEMMA OneRide ==
    ASSUME IInv, NEW r \in Ride, NEW row \in RideRow,
           rides' = [rides EXCEPT ![r] = row],
           rides[r] # NoRide => /\ row.vehicle = rides[r].vehicle
                                /\ row.branch = rides[r].branch
                                /\ row.slot = rides[r].slot,
           calendar' \in [Ride -> {"NONE", "HELD", "COMPLETED", "RELEASED"}],
           trips' \in [Ride -> {"NONE", "OPEN", "STOPPED"}],
           \A o \in Ride \ {r} : calendar'[o] = calendar[o] /\ trips'[o] = trips[o],
           calendar'[r] = "HELD" <=> row.status \in Holding,
           trips'[r] = "OPEN" <=> row.status = "ACTIVE" /\ row.tracking = "ON",
           samples' \subseteq Ride, commands' \subseteq RideKey,
           UNCHANGED <<stranded, demoUnits>>,
           \/ unitBookings' = unitBookings
           \/ /\ unitBookings' = unitBookings \cup {r}
              /\ calendar[r] # "HELD" /\ calendar'[r] = "HELD",
           calendar'[r] # "NONE" => rides[r] # NoRide /\ row.status # "REQUESTED",
           calendar[r] # "NONE" => calendar'[r] # "NONE",
           rideTasks' = [w \in RideWorker |-> rideTasks'[w]],
           \A w \in RideWorker :
               \/ rideTasks'[w] = rideTasks[w]
               \/ rideTasks'[w] = [step |-> "IDLE"]
               \/ rideTasks'[w].step = "EXPIRING" /\ ListTyped(rideTasks'[w]),
           \* a booking that is new, under the lock of its vehicle
           calendar'[r] = "HELD" =>
               \/ rides[r] # NoRide /\ calendar[r] = "HELD"
               \/ /\ rides[r] # NoRide /\ Clear(r, r \in unitBookings')
                  /\ r \in unitBookings' => InItsBranch(row.vehicle, row.branch)
                  /\ \A w \in RideWorker : rideTasks'[w].step = "BOOKING"
                         => \/ rideTasks'[w].seen.vehicle # row.vehicle
                            \/ rideTasks'[w].seen.branch # row.branch,
           \* an engagement that is new, under the lock of its executive
           row.status \in Engaged =>
               \/ rides[r].status \in Engaged /\ row.executive = rides[r].executive
               \/ /\ rides[r] # NoRide /\ Unengaged(row.executive, r)
                  /\ \A w \in RideWorker : rideTasks'[w].step = "ASSIGNING"
                         => \/ rideTasks'[w].executive # row.executive
                            \/ rideTasks'[w].seen.branch # row.branch
    PROVE  IInv'
<1> USE DEF IInv
<1>1. /\ rides' \in [Ride -> RideRow \cup {NoRide}] /\ rides'[r] = row
      /\ \A o \in Ride \ {r} : rides'[o] = rides[o]
      /\ row # NoRide
  BY DEF RowsTyped, NoRide, RideRow, RideStatus, Holding
<1>2. RowsTyped'
  BY <1>1 DEF RowsTyped
<1>u. /\ unitBookings \subseteq unitBookings' /\ unitBookings' \subseteq unitBookings \cup {r}
      /\ r \in unitBookings' =>
             \/ r \in unitBookings
             \/ calendar[r] # "HELD" /\ calendar'[r] = "HELD"
  OBVIOUS
<1>k. \A o \in Ride : rides[o] # NoRide =>
          /\ rides'[o] # NoRide
          /\ rides'[o].vehicle = rides[o].vehicle /\ rides'[o].slot = rides[o].slot
          /\ rides'[o].branch = rides[o].branch
  BY <1>1
<1>h. \A o \in Ride : calendar[o] = "HELD" => rides[o] # NoRide
  BY DEF RideHoldsItsVehicle, NoRide, Holding
<1>b. BookingsPlaced'
  <2>1. \A o \in Ride : calendar'[o] # "NONE" => rides'[o] # NoRide /\ rides'[o].status # "REQUESTED"
    BY <1>1 DEF BookingsPlaced
  <2>2. ASSUME NEW o \in unitBookings'
        PROVE  calendar'[o] # "NONE" /\ demoUnits'[rides'[o].vehicle] # NoUnit
    <3>1. CASE o \in unitBookings
      <4>1. o \in Ride /\ rides[o] # NoRide /\ demoUnits[rides[o].vehicle] # NoUnit
        BY <3>1 DEF BookingsPlaced, RowsTyped
      <4>2. calendar'[o] # "NONE"
        BY <3>1, <4>1 DEF BookingsPlaced
      <4> QED
        BY <1>k, <4>1, <4>2
    <3>2. CASE o \notin unitBookings
      BY <1>1, <1>u, <3>2 DEF InItsBranch, NoUnit
    <3> QED
      BY <3>1, <3>2
  <2>3. ASSUME NEW o \in unitBookings' \ stranded', calendar'[o] = "HELD"
        PROVE  demoUnits'[rides'[o].vehicle].branch = rides'[o].branch
    <3>1. o \in Ride
      BY <1>2 DEF RowsTyped
    <3>2. CASE o \in unitBookings /\ calendar[o] = "HELD"
      BY <1>h, <1>k, <2>3, <3>1, <3>2 DEF BookingsPlaced
    <3>3. CASE ~(o \in unitBookings /\ calendar[o] = "HELD")
      BY <1>1, <1>u, <2>3, <3>1, <3>3 DEF InItsBranch
    <3> QED
      BY <3>2, <3>3
  <2> QED
    BY <2>1, <2>2, <2>3 DEF BookingsPlaced
<1>e. \A o \in Ride : rides[o].status \in Engaged => rides[o] # NoRide
  BY DEF Engaged, NoRide
<1>3. ASSUME NEW x \in RideWorker
      PROVE  (TaskTyped(rideTasks[x]) /\ TaskPlaced(rideTasks[x]))'
  <2>1. CASE rideTasks'[x] = [step |-> "IDLE"]
    BY <2>1 DEF TaskTyped, TaskPlaced, RideTask
  <2>2. CASE rideTasks'[x].step = "EXPIRING" /\ ListTyped(rideTasks'[x])
    BY <2>2 DEF TaskTyped, ListTyped, TaskPlaced
  <2>3. CASE rideTasks'[x] = rideTasks[x]
    <3> DEFINE t == rideTasks[x]
               q == t.ride
    <3>0. TaskTyped(t) /\ TaskPlaced(t)
      OBVIOUS
    <3>1. (TaskTyped(rideTasks[x]))'
      BY <2>3, <3>0 DEF TaskTyped, ListTyped
    <3>2. ASSUME t.step \in {"READ", "BOOKING", "ASSIGNING", "COMMAND"}
          PROVE  /\ q \in Ride /\ rides[q] # NoRide /\ t.seen.vehicle = rides[q].vehicle
                 /\ t.seen.branch = rides[q].branch
      BY <3>0, <3>2 DEF TaskTyped, RideTask, TaskPlaced
    <3>3. t.step \in {"READ", "BOOKING", "ASSIGNING", "COMMAND"} =>
              /\ rides'[q] # NoRide /\ t.seen.vehicle = rides'[q].vehicle
              /\ t.seen.branch = rides'[q].branch
      BY <1>k, <3>2
    <3>4. ASSUME t.step = "BOOKING"
          PROVE  /\ t.seen.status = "REQUESTED"
                 /\ (Clear(rideTasks[x].ride, rideTasks[x].seen.linked))'
                 /\ t.seen.linked => (InItsBranch(t.seen.vehicle, t.seen.branch))'
      <4>1. /\ t.seen.status = "REQUESTED" /\ Clear(q, t.seen.linked)
            /\ t.seen.linked => InItsBranch(t.seen.vehicle, t.seen.branch)
        BY <3>0, <3>4 DEF TaskPlaced
      <4>2. /\ q \in Ride /\ rides[q] # NoRide /\ t.seen.vehicle = rides[q].vehicle
            /\ t.seen.branch = rides[q].branch
        BY <3>2, <3>4
      <4>3. ASSUME NEW o \in Ride, calendar'[o] = "HELD",
                   rides'[o].vehicle = rides'[q].vehicle, rides'[o].branch = rides'[q].branch,
                   (SameHours(o, rideTasks[x].ride))'
            PROVE  o \in unitBookings' <=> ~t.seen.linked
        <5>1. calendar[o] = "HELD"
          <6>1. CASE o # r
            BY <4>3, <6>1
          <6>2. CASE o = r
            <7>1. /\ rideTasks'[x].seen.vehicle = row.vehicle
                  /\ rideTasks'[x].seen.branch = row.branch
              BY <1>1, <1>k, <2>3, <4>2, <4>3, <6>2
            <7> QED
              BY <2>3, <3>4, <4>3, <6>2, <7>1
          <6> QED
            BY <6>1, <6>2
        <5>2. rides[o] # NoRide
          BY <1>h, <5>1
        <5>3. /\ rides[o].vehicle = rides[q].vehicle /\ rides[o].branch = rides[q].branch
              /\ SameHours(o, q)
          BY <1>k, <2>3, <4>2, <4>3, <5>2 DEF SameHours
        <5>4. o \in unitBookings' <=> o \in unitBookings
          BY <1>u, <5>1
        <5> QED
          BY <4>1, <5>1, <5>3, <5>4 DEF Clear
      <4>4. (Clear(rideTasks[x].ride, rideTasks[x].seen.linked))'
        BY <2>3, <4>3 DEF Clear
      <4> QED
        BY <2>3, <4>1, <4>4 DEF InItsBranch
    <3>5. ASSUME t.step = "ASSIGNING"
          PROVE  /\ t.seen.status \in {"CUSTOMER_CONFIRMED", "EXECUTIVE_ASSIGNED"}
                 /\ (Unengaged(rideTasks[x].executive, rideTasks[x].ride))'
      <4>1. /\ t.seen.status \in {"CUSTOMER_CONFIRMED", "EXECUTIVE_ASSIGNED"}
            /\ Unengaged(t.executive, q)
        BY <3>0, <3>5 DEF TaskPlaced
      <4>2. /\ q \in Ride /\ rides[q] # NoRide /\ t.seen.vehicle = rides[q].vehicle
            /\ t.seen.branch = rides[q].branch
        BY <3>2, <3>5
      <4>3. ASSUME NEW o \in Ride \ {q}, rides'[o].status \in Engaged,
                   rides'[o].executive = t.executive,
                   rides'[o].branch = rides'[q].branch,
                   (SameHours(o, rideTasks[x].ride))'
            PROVE  FALSE
        <5>1. rides[o].status \in Engaged /\ rides[o].executive = t.executive
          <6>1. CASE o # r
            BY <1>1, <4>3, <6>1
          <6>2. CASE o = r
            <7>1. row.status \in Engaged /\ row.executive = t.executive
              BY <1>1, <4>3, <6>2
            <7>2. rideTasks'[x].seen.branch = row.branch
              BY <1>1, <1>k, <2>3, <4>2, <4>3, <6>2
            <7> QED
              BY <2>3, <3>5, <6>2, <7>1, <7>2
          <6> QED
            BY <6>1, <6>2
        <5>2. rides[o] # NoRide
          BY <1>e, <5>1
        <5>3. rides[o].branch = rides[q].branch /\ SameHours(o, q)
          BY <1>k, <2>3, <4>2, <4>3, <5>2 DEF SameHours
        <5> QED
          BY <4>1, <5>1, <5>3 DEF Unengaged
      <4> QED
        BY <2>3, <4>1, <4>3 DEF Unengaged
    <3>6. t.step = "COMMAND" => t.seen.status \in Serves(t.type)
      BY <3>0 DEF TaskPlaced
    <3>7. (TaskPlaced(rideTasks[x]))'
      BY <2>3, <3>3, <3>4, <3>5, <3>6 DEF TaskPlaced
    <3> QED
      BY <3>1, <3>7
  <2> QED
    BY <2>1, <2>2, <2>3
<1>4. Apart'
  <2>1. ASSUME NEW x \in RideWorker, rideTasks'[x].step \in {"BOOKING", "ASSIGNING"}
        PROVE  rideTasks'[x] = rideTasks[x]
    BY <2>1
  <2> QED
    BY <2>1 DEF Apart
<1>5. RideHoldsItsVehicle'
  BY <1>1 DEF RideHoldsItsVehicle
<1>6. BranchBookedOnce'
  <2>1. ASSUME NEW a \in Ride, NEW b \in Ride, a # b, b # r,
               calendar'[a] = "HELD", calendar'[b] = "HELD",
               rides'[a].vehicle = rides'[b].vehicle, rides'[a].branch = rides'[b].branch,
               (SameHours(a, b))'
        PROVE  a \in unitBookings' <=> b \notin unitBookings'
    <3>1. calendar[b] = "HELD" /\ rides[b] # NoRide /\ (b \in unitBookings' <=> b \in unitBookings)
      BY <1>h, <1>u, <2>1
    <3>2. rides[a] # NoRide
      BY <1>h, <2>1
    <3>3. /\ rides[a].vehicle = rides[b].vehicle /\ rides[a].branch = rides[b].branch
          /\ SameHours(a, b) /\ SameHours(b, a)
      BY <1>k, <2>1, <3>1, <3>2 DEF SameHours
    <3>4. CASE calendar[a] = "HELD"
      <4>1. a \in unitBookings' <=> a \in unitBookings
        BY <1>u, <3>4
      <4> QED
        BY <2>1, <3>1, <3>3, <3>4, <4>1 DEF BranchBookedOnce
    <3>5. CASE calendar[a] # "HELD"
      <4>1. a = r /\ Clear(r, r \in unitBookings')
        BY <2>1, <3>5
      <4>2. b \in unitBookings <=> ~(a \in unitBookings')
        BY <3>1, <3>3, <4>1 DEF Clear
      <4> QED
        BY <3>1, <4>2
    <3> QED
      BY <3>4, <3>5
  <2>2. ASSUME NEW a \in Ride, NEW b \in Ride, a # b,
               calendar'[a] = "HELD", calendar'[b] = "HELD",
               rides'[a].vehicle = rides'[b].vehicle, rides'[a].branch = rides'[b].branch,
               (SameHours(a, b))'
        PROVE  a \in unitBookings' <=> b \notin unitBookings'
    <3>1. CASE b # r
      BY <2>1, <2>2, <3>1
    <3>2. CASE a # r
      <4>1. (SameHours(b, a))'
        BY <2>2 DEF SameHours
      <4>2. b \in unitBookings' <=> a \notin unitBookings'
        BY <2>1, <2>2, <3>2, <4>1
      <4> QED
        BY <4>2
    <3> QED
      BY <2>2, <3>1, <3>2
  <2> QED
    BY <2>2 DEF BranchBookedOnce
<1>7. ExecutiveBookedOnce'
  <2>1. ASSUME NEW a \in Ride, NEW b \in Ride, a # b, b # r,
               rides'[a].status \in Engaged, rides'[b].status \in Engaged,
               rides'[a].executive = rides'[b].executive,
               rides'[a].branch = rides'[b].branch,
               (SameHours(a, b))'
        PROVE  FALSE
    <3>1. rides'[b] = rides[b] /\ rides[b] # NoRide /\ rides[b].status \in Engaged
      BY <1>1, <1>e, <2>1
    <3>2. rides[a] # NoRide
      BY <1>1, <1>e, <2>1
    <3>3. /\ rides[a].branch = rides[b].branch
          /\ SameHours(a, b) /\ SameHours(b, a)
      BY <1>k, <2>1, <3>1, <3>2 DEF SameHours
    <3>4. CASE rides[a].status \in Engaged /\ rides'[a].executive = rides[a].executive
      BY <2>1, <3>1, <3>3, <3>4 DEF ExecutiveBookedOnce, Engaged
    <3>5. CASE ~(rides[a].status \in Engaged /\ rides'[a].executive = rides[a].executive)
      <4>1. a = r /\ Unengaged(row.executive, r)
        BY <1>1, <2>1, <3>5
      <4> QED
        BY <1>1, <2>1, <3>1, <3>3, <4>1 DEF Unengaged
    <3> QED
      BY <3>4, <3>5
  <2>2. ASSUME NEW a \in Ride, NEW b \in Ride, a # b,
               rides'[a].status \in Engaged, rides'[b].status \in Engaged,
               rides'[a].executive = rides'[b].executive,
               rides'[a].branch = rides'[b].branch,
               (SameHours(a, b))'
        PROVE  FALSE
    <3>1. CASE b # r
      BY <2>1, <2>2, <3>1
    <3>2. CASE a # r
      <4>1. (SameHours(b, a))'
        BY <2>2 DEF SameHours
      <4> QED
        BY <2>1, <2>2, <3>2, <4>1
    <3> QED
      BY <2>2, <3>1, <3>2
  <2> QED
    BY <2>2 DEF ExecutiveBookedOnce, Engaged
<1> QED
  BY <1>2, <1>b, <1>3, <1>4, <1>5, <1>6, <1>7

-----------------------------------------------------------------------------
(* What a worker at work knows of its ride. *)
LEMMA AtWork ==
    ASSUME IInv, NEW w \in RideWorker,
           rideTasks[w].step \in {"READ", "BOOKING", "ASSIGNING", "COMMAND"}
    PROVE  /\ rideTasks[w].ride \in Ride /\ rideTasks[w].seen \in RideRow
           /\ rides[rideTasks[w].ride] \in RideRow
           /\ rides[rideTasks[w].ride] # NoRide
           /\ rideTasks[w].seen.vehicle = rides[rideTasks[w].ride].vehicle
           /\ rideTasks[w].seen.branch = rides[rideTasks[w].ride].branch
<1>1. rideTasks[w] \in RideTask /\ TaskPlaced(rideTasks[w])
  BY DEF IInv, TaskTyped
<1>2. rideTasks[w].ride \in Ride /\ rideTasks[w].seen \in RideRow
  BY <1>1 DEF RideTask
<1> QED
  BY <1>1, <1>2 DEF IInv, RowsTyped, TaskPlaced

(* What updateStatus writes. *)
LEMMA Updated ==
    ASSUME NEW r \in Ride, NEW seen \in RideRow, NEW row \in RideRow,
           updateStatus(r, seen, row)
    PROVE  \E new \in RideRow :
               /\ rides' = [rides EXCEPT ![r] = new]
               /\ new.status = row.status /\ new.vehicle = row.vehicle
               /\ new.slot = row.slot /\ new.branch = row.branch
               /\ new.executive = row.executive /\ new.tracking = row.tracking
<1> DEFINE new == [row EXCEPT !.version = seen.version + 1]
<1>1. new \in RideRow
  BY RideAssumption DEF updateStatus, RideRow
<1>2. /\ new.status = row.status /\ new.vehicle = row.vehicle
      /\ new.slot = row.slot /\ new.branch = row.branch
      /\ new.executive = row.executive /\ new.tracking = row.tracking
  BY DEF RideRow
<1>3. rides' = [rides EXCEPT ![r] = new]
  BY DEF updateStatus
<1> HIDE DEF new
<1> QED
  BY <1>1, <1>2, <1>3

(* A worker writes the ride it read, and is done. *)
LEMMA RideWritten ==
    ASSUME IInv, NEW w \in RideWorker, NEW r \in Ride, NEW row \in RideRow,
           rideTasks[w].step \in {"READ", "BOOKING", "ASSIGNING", "COMMAND"},
           r = rideTasks[w].ride,
           updateStatus(r, rideTasks[w].seen, row), Parked(w),
           row.vehicle = rides[r].vehicle, row.slot = rides[r].slot,
           row.branch = rides[r].branch,
           calendar' \in [Ride -> {"NONE", "HELD", "COMPLETED", "RELEASED"}],
           trips' \in [Ride -> {"NONE", "OPEN", "STOPPED"}],
           \A o \in Ride \ {r} : calendar'[o] = calendar[o] /\ trips'[o] = trips[o],
           calendar'[r] = "HELD" <=> row.status \in Holding,
           trips'[r] = "OPEN" <=> row.status = "ACTIVE" /\ row.tracking = "ON",
           samples' \subseteq Ride, commands' \subseteq RideKey,
           UNCHANGED <<stranded, demoUnits>>,
           IF rideTasks[w].step = "BOOKING"
           THEN /\ calendar'[r] = "HELD"
                /\ unitBookings' = IF rideTasks[w].seen.linked THEN unitBookings \cup {r}
                                   ELSE unitBookings
           ELSE /\ unitBookings' = unitBookings
                /\ calendar'[r] = "HELD" => calendar[r] = "HELD",
           calendar'[r] # "NONE" => row.status # "REQUESTED",
           calendar[r] # "NONE" => calendar'[r] # "NONE",
           row.status \in Engaged =>
               \/ rides[r].status \in Engaged /\ row.executive = rides[r].executive
               \/ rideTasks[w].step = "ASSIGNING" /\ row.executive = rideTasks[w].executive
    PROVE  IInv'
<1>1. PICK new \in RideRow :
          /\ rides' = [rides EXCEPT ![r] = new]
          /\ new.status = row.status /\ new.vehicle = row.vehicle
          /\ new.slot = row.slot /\ new.branch = row.branch
          /\ new.executive = row.executive /\ new.tracking = row.tracking
  BY AtWork, Updated
<1>2. /\ rides[r] # NoRide
      /\ rideTasks[w].seen.vehicle = rides[r].vehicle
      /\ rideTasks[w].seen.branch = rides[r].branch
  BY AtWork
<1>n. rideTasks[w].step = "BOOKING" =>
          /\ calendar[r] = "NONE" /\ r \notin unitBookings
          /\ r \in unitBookings' <=> rideTasks[w].seen.linked
  <2>1. ASSUME rideTasks[w].step = "BOOKING"
        PROVE  rides[r].status = "REQUESTED"
    BY <2>1 DEF updateStatus, AsRead, IInv, TaskPlaced
  <2>2. rideTasks[w].seen.linked \in BOOLEAN
    BY AtWork DEF RideRow
  <2> QED
    BY <2>1, <2>2 DEF IInv, BookingsPlaced
<1>3. /\ rideTasks'[w] = [step |-> "IDLE"]
      /\ \A x \in RideWorker \ {w} : rideTasks'[x] = rideTasks[x]
      /\ rideTasks' = [x \in RideWorker |-> rideTasks'[x]]
  BY DEF Parked, Drives, IInv, RowsTyped
<1>4. ASSUME calendar'[r] = "HELD", calendar[r] # "HELD"
      PROVE  /\ Clear(r, r \in unitBookings')
             /\ r \in unitBookings' => InItsBranch(new.vehicle, new.branch)
             /\ \A x \in RideWorker : rideTasks'[x].step = "BOOKING"
                    => \/ rideTasks'[x].seen.vehicle # new.vehicle
                       \/ rideTasks'[x].seen.branch # new.branch
  <2>1. rideTasks[w].step = "BOOKING"
    BY <1>4
  <2>2. /\ Clear(r, rideTasks[w].seen.linked)
        /\ rideTasks[w].seen.linked => InItsBranch(new.vehicle, new.branch)
    BY <1>1, <1>2, <2>1 DEF IInv, TaskPlaced
  <2>3. ASSUME NEW x \in RideWorker, rideTasks'[x].step = "BOOKING"
        PROVE  \/ rideTasks'[x].seen.vehicle # new.vehicle
               \/ rideTasks'[x].seen.branch # new.branch
    BY <1>1, <1>2, <1>3, <2>1, <2>3 DEF IInv, Apart
  <2>4. Clear(r, r \in unitBookings')
    BY <1>n, <2>1, <2>2 DEF Clear
  <2> QED
    BY <1>n, <2>1, <2>2, <2>3, <2>4
<1>5. ASSUME new.status \in Engaged,
             ~(rides[r].status \in Engaged /\ new.executive = rides[r].executive)
      PROVE  /\ Unengaged(new.executive, r)
             /\ \A x \in RideWorker : rideTasks'[x].step = "ASSIGNING"
                    => \/ rideTasks'[x].executive # new.executive
                       \/ rideTasks'[x].seen.branch # new.branch
  <2>1. rideTasks[w].step = "ASSIGNING" /\ new.executive = rideTasks[w].executive
    BY <1>1, <1>5
  <2>2. Unengaged(new.executive, r)
    BY <2>1 DEF IInv, TaskPlaced
  <2>3. ASSUME NEW x \in RideWorker, rideTasks'[x].step = "ASSIGNING"
        PROVE  \/ rideTasks'[x].executive # new.executive
               \/ rideTasks'[x].seen.branch # new.branch
    BY <1>1, <1>2, <1>3, <2>1, <2>3 DEF IInv, Apart
  <2> QED
    BY <2>2, <2>3
<1>6. \A x \in RideWorker : \/ rideTasks'[x] = rideTasks[x]
                             \/ rideTasks'[x] = [step |-> "IDLE"]
  BY <1>3
<1>7. /\ new.vehicle = rides[r].vehicle /\ new.slot = rides[r].slot
      /\ new.branch = rides[r].branch
      /\ calendar'[r] = "HELD" <=> new.status \in Holding
      /\ trips'[r] = "OPEN" <=> new.status = "ACTIVE" /\ new.tracking = "ON"
  BY <1>1
<1>8. \A x \in RideWorker :
          \/ rideTasks'[x] = rideTasks[x]
          \/ rideTasks'[x] = [step |-> "IDLE"]
          \/ rideTasks'[x].step = "EXPIRING" /\ ListTyped(rideTasks'[x])
  BY <1>6
<1>9. /\ \/ unitBookings' = unitBookings
         \/ unitBookings' = unitBookings \cup {r} /\ calendar[r] # "HELD" /\ calendar'[r] = "HELD"
      /\ calendar'[r] # "NONE" => rides[r] # NoRide /\ new.status # "REQUESTED"
      /\ calendar[r] # "NONE" => calendar'[r] # "NONE"
  BY <1>1, <1>2, <1>n
<1> QED
  BY <1>1, <1>2, <1>3, <1>4, <1>5, <1>7, <1>8, <1>9, OneRide

-----------------------------------------------------------------------------
LEMMA CreateKeeps ==
    ASSUME IInv, NEW w \in RideWorker, NEW k \in RideKey, NEW r \in Ride,
           NEW s \in Slot, create(w, k, r, s)
    PROVE  IInv'
<1> DEFINE t == rideTasks[w]
           row == [status |-> "REQUESTED", vehicle |-> t.vehicle, branch |-> t.branch,
                   slot |-> s, linked |-> t.linked, executive |-> "NONE",
                   tracking |-> "NEVER", late |-> FALSE, version |-> 1]
<1>1. /\ rideTasks[w].step = "CREATING"
      /\ rides[r] = NoRide /\ rides' = [rides EXCEPT ![r] = row]
      /\ commands' = commands \cup {k} /\ Parked(w)
      /\ UNCHANGED <<calendar, trips, samples, unitBookings, stranded, demoUnits>>
  BY DEF create, Busy, rideUnits
<1>t. t.vehicle \in Vehicle /\ t.branch \in RideBranch /\ t.linked \in BOOLEAN
  BY <1>1 DEF IInv, TaskTyped, RideTask
<1>2. row \in RideRow /\ row.status = "REQUESTED"
  BY <1>t, RideAssumption DEF RideRow, RideStatus
<1> HIDE DEF row
<1>3. calendar[r] = "NONE" /\ trips[r] # "OPEN"
  BY <1>1 DEF IInv, RideHoldsItsVehicle, BookingsPlaced, NoRide, Holding
<1>4. row.status \notin Holding /\ row.status \notin Engaged /\ row.status # "ACTIVE"
  BY <1>2 DEF Holding, Engaged
<1>5. /\ \A x \in RideWorker : rideTasks'[x] = rideTasks[x] \/ rideTasks'[x] = [step |-> "IDLE"]
      /\ rideTasks' = [x \in RideWorker |-> rideTasks'[x]]
  BY <1>1 DEF Parked, Drives, IInv, RowsTyped
<1> QED
  BY <1>1, <1>2, <1>3, <1>4, <1>5, OneRide DEF IInv, RowsTyped

LEMMA TimesOutKeeps ==
    ASSUME IInv, NEW r \in Ride, SessionTimesOut(r)
    PROVE  IInv'
<1> DEFINE row == [rides[r] EXCEPT !.late = TRUE]
<1>1. /\ trips[r] = "OPEN" /\ rides' = [rides EXCEPT ![r] = row]
      /\ UNCHANGED <<calendar, trips, samples, commands, unitBookings, stranded, demoUnits, rideTasks>>
  BY DEF SessionTimesOut, rideUnits
<1>2. rides[r] \in RideRow /\ rides[r] # NoRide
  BY <1>1 DEF IInv, RowsTyped, RideHoldsItsVehicle, NoRide
<1>3. /\ row \in RideRow /\ row.status = rides[r].status /\ row.vehicle = rides[r].vehicle
      /\ row.slot = rides[r].slot /\ row.branch = rides[r].branch
      /\ row.executive = rides[r].executive /\ row.tracking = rides[r].tracking
  BY <1>2 DEF RideRow
<1> HIDE DEF row
<1>4. /\ calendar[r] = "HELD" <=> row.status \in Holding
      /\ trips[r] = "OPEN" <=> row.status = "ACTIVE" /\ row.tracking = "ON"
      /\ calendar[r] # "NONE" => row.status # "REQUESTED"
  BY <1>3 DEF IInv, RideHoldsItsVehicle, BookingsPlaced
<1> QED
  BY <1>1, <1>2, <1>3, <1>4, OneRide DEF IInv, RowsTyped

-----------------------------------------------------------------------------
(* Steps that read, and locks. *)
LEMMA ReadsKeep ==
    ASSUME IInv, NEW w \in RideWorker, NEW r \in Ride,
           accessibleJob(w, r) \/ locations(w, r)
    PROVE  IInv'
<1>1. CASE accessibleJob(w, r)
  <2> DEFINE t == [step |-> "READ", ride |-> r, seen |-> rides[r]]
  <2>1. /\ rides[r] # NoRide /\ Drives(w, t)
        /\ UNCHANGED <<rides, calendar, trips, samples, commands, rideUnits>>
    BY <1>1 DEF accessibleJob, rideRows
  <2>2. rides[r] \in RideRow
    BY <2>1 DEF IInv, RowsTyped
  <2>3. TaskTyped(t) /\ TaskPlaced(t) /\ t.step = "READ"
    BY <2>1, <2>2 DEF TaskTyped, RideTask, TaskPlaced
  <2> HIDE DEF t
  <2> QED
    BY <2>1, <2>3, TaskStep DEF IInv, RowsTyped
<1>2. CASE locations(w, r)
  <2> DEFINE t == [step |-> "SAMPLING", ride |-> r]
  <2>1. /\ Drives(w, t)
        /\ UNCHANGED <<rides, calendar, trips, samples, commands, rideUnits>>
    BY <1>2 DEF locations, rideRows
  <2>2. TaskTyped(t) /\ TaskPlaced(t) /\ t.step = "SAMPLING"
    BY DEF TaskTyped, RideTask, TaskPlaced
  <2> HIDE DEF t
  <2> QED
    BY <2>1, <2>2, TaskStep DEF IInv, RowsTyped
<1> QED
  BY <1>1, <1>2

LEMMA LockVehicleKeeps ==
    ASSUME IInv, NEW w \in RideWorker, LockVehicle(w)
    PROVE  IInv'
<1> DEFINE r == rideTasks[w].ride
           seen == rideTasks[w].seen
           t == [step |-> "BOOKING", ride |-> r, seen |-> seen]
<1>1. /\ rideTasks[w].step = "READ" /\ seen.status = "REQUESTED"
      /\ seen.linked => InItsBranch(seen.vehicle, seen.branch)
      /\ VehicleOpen(w, seen) /\ ~Taken(rideTasks[w])
      /\ Drives(w, [rideTasks[w] EXCEPT !.step = "BOOKING"])
      /\ UNCHANGED <<rides, calendar, trips, samples, commands, rideUnits>>
  BY DEF LockVehicle, Busy, rideRows
<1>2. /\ r \in Ride /\ seen \in RideRow /\ rides[r] # NoRide
      /\ seen.vehicle = rides[r].vehicle /\ seen.branch = rides[r].branch
  BY <1>1, AtWork
<1>3. rideTasks[w] \in [step: {"READ"}, ride: Ride, seen: RideRow]
  BY <1>1 DEF IInv, TaskTyped, RideTask
<1>4. t = [rideTasks[w] EXCEPT !.step = "BOOKING"]
  BY <1>3
<1>5. Clear(r, seen.linked)
  <2> SUFFICES ASSUME NEW o \in Ride, calendar[o] = "HELD",
                      rides[o].vehicle = rides[r].vehicle, rides[o].branch = rides[r].branch,
                      SameHours(o, r)
               PROVE  o \in unitBookings <=> ~seen.linked
    BY DEF Clear
  <2>1. ~(seen.linked => o \in unitBookings)
    BY <1>1, <1>2 DEF Taken
  <2> QED
    BY <2>1, Zenon
<1>6. /\ TaskTyped(t) /\ TaskPlaced(t)
      /\ t.step = "BOOKING" /\ t.seen = seen
  BY <1>1, <1>2, <1>5 DEF TaskTyped, RideTask, TaskPlaced
<1>7. Drives(w, t)
  BY <1>1, <1>4
<1> HIDE DEF t
<1> QED
  BY <1>1, <1>6, <1>7, TaskStep DEF IInv, RowsTyped

LEMMA LockExecutiveKeeps ==
    ASSUME IInv, NEW w \in RideWorker, NEW e \in RideExecutive, LockExecutive(w, e)
    PROVE  IInv'
<1> DEFINE r == rideTasks[w].ride
           seen == rideTasks[w].seen
           t == [step |-> "ASSIGNING", ride |-> r, seen |-> seen, executive |-> e]
<1>1. /\ rideTasks[w].step = "READ"
      /\ seen.status \in {"CUSTOMER_CONFIRMED", "EXECUTIVE_ASSIGNED"}
      /\ ExecutiveOpen(w, seen.branch, e) /\ ~Committed(e, r)
      /\ Drives(w, t)
      /\ UNCHANGED <<rides, calendar, trips, samples, commands, rideUnits>>
  BY DEF LockExecutive, Busy, rideRows
<1>2. /\ r \in Ride /\ seen \in RideRow /\ rides[r] # NoRide
      /\ seen.vehicle = rides[r].vehicle /\ seen.branch = rides[r].branch
  BY <1>1, AtWork
<1>3. Unengaged(e, r)
  BY <1>1 DEF Committed, Unengaged, Engaged, NoRide
<1>4. /\ TaskTyped(t) /\ TaskPlaced(t) /\ t.step = "ASSIGNING"
      /\ t.seen = seen /\ t.executive = e
  BY <1>1, <1>2, <1>3 DEF TaskTyped, RideTask, TaskPlaced
<1> HIDE DEF t
<1> QED
  BY <1>1, <1>4, TaskStep DEF IInv, RowsTyped

LEMMA CommandReadsKeep ==
    ASSUME IInv, NEW w \in RideWorker, NEW k \in RideKey, NEW type \in CommandType,
           NEW r \in Ride, idempotentCommand(w, k, type, r)
    PROVE  IInv'
<1> DEFINE t == [step |-> "COMMAND", ride |-> r, seen |-> rides[r], key |-> k, type |-> type]
<1>1. /\ rides[r].status \in Serves(type) /\ Drives(w, t)
      /\ UNCHANGED <<rides, calendar, trips, samples, commands, rideUnits>>
  BY DEF idempotentCommand, rideRows
<1>2. rides[r] \in RideRow /\ rides[r] # NoRide
  BY <1>1 DEF IInv, RowsTyped, NoRide, Serves, CommandType, Holding
<1>3. TaskTyped(t) /\ TaskPlaced(t) /\ t.step = "COMMAND"
  BY <1>1, <1>2 DEF TaskTyped, RideTask, TaskPlaced
<1> HIDE DEF t
<1> QED
  BY <1>1, <1>3, TaskStep DEF IInv, RowsTyped

(* A worker that is done, or gives up, and leaves the rides as they are. *)
LEMMA ParkedKeeps ==
    ASSUME IInv, NEW w \in RideWorker, Parked(w),
           UNCHANGED <<rides, calendar, trips, rideUnits>>,
           samples' \subseteq Ride, commands' \subseteq RideKey
    PROVE  IInv'
<1> DEFINE t == [step |-> "IDLE"]
<1>1. TaskTyped(t) /\ TaskPlaced(t) /\ t.step = "IDLE" /\ Drives(w, t)
  BY DEF TaskTyped, RideTask, TaskPlaced, Parked
<1> HIDE DEF t
<1> QED
  BY <1>1, TaskStep

LEMMA EndsKeep ==
    ASSUME IInv, NEW w \in RideWorker, StoreSamples(w) \/ GiveUp(w)
    PROVE  IInv'
<1>1. CASE StoreSamples(w)
  <2>1. rideTasks[w].ride \in Ride
    BY <1>1 DEF StoreSamples, Busy, IInv, TaskTyped, RideTask
  <2> QED
    BY <1>1, <2>1, ParkedKeeps DEF StoreSamples, IInv, RowsTyped
<1>2. CASE GiveUp(w)
  BY <1>2, ParkedKeeps DEF GiveUp, rideRows, IInv, RowsTyped
<1> QED
  BY <1>1, <1>2

(* The row of a reference's unit is looked up, outside the transaction. *)
LEMMA LookUpKeeps ==
    ASSUME IInv, NEW w \in RideWorker, NEW v \in Vehicle, NEW b \in RideBranch,
           canonicalDemoUnit(w, v, b)
    PROVE  IInv'
<1> DEFINE found == demoUnits[v] # NoUnit /\ demoUnits[v].branch = b
           t == [step |-> "CREATING", vehicle |-> v, branch |-> b, linked |-> found]
<1>1. Drives(w, t) /\ UNCHANGED <<rides, calendar, trips, samples, commands, rideUnits>>
  BY DEF canonicalDemoUnit, rideRows
<1>2. found \in BOOLEAN
  OBVIOUS
<1> HIDE DEF found
<1>3. TaskTyped(t) /\ TaskPlaced(t) /\ t.step = "CREATING"
  BY <1>2 DEF TaskTyped, RideTask, TaskPlaced
<1> HIDE DEF t
<1> QED
  BY <1>1, <1>3, TaskStep DEF IInv, RowsTyped

(* The samples. *)
LEMMA QuietRows ==
    ASSUME IInv, UNCHANGED <<rides, calendar, trips, commands, rideUnits, rideTasks>>,
           samples' \subseteq Ride
    PROVE  IInv'
BY DEF IInv, RowsTyped, TaskTyped, ListTyped, TaskPlaced, Clear, Unengaged, SameHours, Apart,
       RideHoldsItsVehicle, BranchBookedOnce, BookingsPlaced, ExecutiveBookedOnce, InItsBranch,
       rideUnits

(* A unit that is recorded: nothing named it before, so that no two held     *)
(* bookings of the reference overlap in its branch.                          *)
LEMMA UnitMadeKeeps ==
    ASSUME IInv, NEW v \in Vehicle, NEW unit \in UnitRow, createUnitTx(v, unit)
    PROVE  IInv'
<1> DEFINE named == Naming(v, unit.branch)
<1> USE DEF IInv
<1>1. /\ demoUnits[v] = NoUnit /\ demoUnits' = [demoUnits EXCEPT ![v] = unit]
      /\ rides' = [r \in Ride |-> IF r \in named THEN [rides[r] EXCEPT !.linked = TRUE] ELSE rides[r]]
      /\ unitBookings' = unitBookings \cup {r \in named : calendar[r] # "NONE"}
      /\ UNCHANGED <<calendar, stranded, trips, samples, commands, rideTasks>>
  BY DEF createUnitTx
<1>2. \A r \in named : /\ r \in Ride /\ rides[r] # NoRide /\ rides[r] \in RideRow
                       /\ rides[r].vehicle = v /\ rides[r].branch = unit.branch
  BY DEF Naming, RowsTyped
<1>3. unit # NoUnit /\ unit.branch \in RideBranch
  BY DEF UnitRow, NoUnit
<1>4. \A r \in Ride : /\ rides'[r] \in RideRow \cup {NoRide}
                      /\ rides'[r] # NoRide <=> rides[r] # NoRide
                      /\ rides'[r].vehicle = rides[r].vehicle /\ rides'[r].branch = rides[r].branch
                      /\ rides'[r].slot = rides[r].slot /\ rides'[r].status = rides[r].status
                      /\ rides'[r].executive = rides[r].executive
                      /\ rides'[r].tracking = rides[r].tracking
  <2> TAKE r \in Ride
  <2>1. CASE r \in named
    <3>1. rides'[r] = [rides[r] EXCEPT !.linked = TRUE]
      BY <1>1, <2>1
    <3>2. rides[r] \in RideRow /\ rides[r] # NoRide
      BY <1>2, <2>1
    <3>3. rides'[r] \in RideRow
      BY <3>1, <3>2 DEF RideRow
    <3>4. rides'[r].status \in RideStatus
      BY <3>3 DEF RideRow
    <3>5. rides'[r] # NoRide
      BY <3>4 DEF NoRide, RideStatus, Holding
    <3> QED
      BY <3>1, <3>2, <3>3, <3>5 DEF RideRow
  <2>2. CASE r \notin named
    BY <1>1, <2>2 DEF RowsTyped
  <2> QED
    BY <2>1, <2>2
<1>5. \A a, b \in Ride : (SameHours(a, b))' <=> SameHours(a, b)
  BY <1>4 DEF SameHours
<1>6. \A r \in unitBookings : r \in Ride /\ rides[r] # NoRide /\ rides[r].vehicle # v
  BY <1>1 DEF BookingsPlaced, RowsTyped
<1>7. \A r \in Ride : rides[r].vehicle # v \/ rides[r].branch # unit.branch
                      => (r \in unitBookings' <=> r \in unitBookings)
  BY <1>1, <1>2
<1>8. RowsTyped'
  BY <1>1, <1>2, <1>4 DEF RowsTyped
<1>9. ASSUME NEW x \in RideWorker
      PROVE  (TaskTyped(rideTasks[x]) /\ TaskPlaced(rideTasks[x]))'
  <2> DEFINE t == rideTasks[x]
             q == t.ride
  <2>1. TaskTyped(t) /\ TaskPlaced(t)
    OBVIOUS
  <2>2. (TaskTyped(rideTasks[x]))'
    BY <1>1, <2>1 DEF TaskTyped, ListTyped
  <2>3. ASSUME t.step \in {"READ", "BOOKING", "ASSIGNING", "COMMAND"}
        PROVE  /\ q \in Ride /\ rides'[q] # NoRide /\ t.seen.vehicle = rides'[q].vehicle
               /\ t.seen.branch = rides'[q].branch
    BY <1>4, <2>1, <2>3 DEF TaskTyped, RideTask, TaskPlaced
  <2>4. ASSUME t.step = "BOOKING"
        PROVE  /\ t.seen.status = "REQUESTED"
               /\ (Clear(rideTasks[x].ride, rideTasks[x].seen.linked))'
               /\ t.seen.linked => (InItsBranch(t.seen.vehicle, t.seen.branch))'
    <3>1. /\ t.seen.status = "REQUESTED" /\ Clear(q, t.seen.linked)
          /\ t.seen.linked => InItsBranch(t.seen.vehicle, t.seen.branch)
          /\ q \in Ride /\ t.seen.vehicle = rides[q].vehicle /\ t.seen.branch = rides[q].branch
      BY <2>1, <2>4 DEF TaskPlaced, TaskTyped, RideTask
    <3>2. t.seen.linked => t.seen.vehicle # v
      BY <1>1, <3>1 DEF InItsBranch, NoUnit
    <3>3. t.seen.linked => (InItsBranch(t.seen.vehicle, t.seen.branch))'
      <4>1. t.seen \in RideRow
        BY <2>1, <2>4 DEF TaskTyped, RideTask
      <4>2. t.seen.vehicle \in Vehicle
        BY <4>1 DEF RideRow
      <4>3. t.seen.vehicle # v => demoUnits'[t.seen.vehicle] = demoUnits[t.seen.vehicle]
        BY <1>1, <4>2 DEF RowsTyped
      <4> QED
        BY <1>1, <3>1, <3>2, <4>3 DEF InItsBranch
    <3>4. ASSUME NEW o \in Ride, calendar'[o] = "HELD",
                 rides'[o].vehicle = rides'[q].vehicle, rides'[o].branch = rides'[q].branch,
                 (SameHours(o, rideTasks[x].ride))'
          PROVE  o \in unitBookings' <=> ~t.seen.linked
      <4>1. /\ calendar[o] = "HELD" /\ rides[o].vehicle = rides[q].vehicle
            /\ rides[o].branch = rides[q].branch /\ SameHours(o, q)
        BY <1>1, <1>4, <1>5, <3>1, <3>4
      <4>2. o \in unitBookings <=> ~t.seen.linked
        BY <3>1, <4>1 DEF Clear
      <4>3. CASE rides[o].vehicle # v
        BY <1>7, <4>2, <4>3
      <4>4. CASE rides[o].vehicle = v
        BY <1>1, <1>6, <3>1, <3>2, <4>1, <4>2, <4>4
      <4> QED
        BY <4>3, <4>4
    <3>5. (Clear(rideTasks[x].ride, rideTasks[x].seen.linked))'
      BY <1>1, <3>4 DEF Clear
    <3> QED
      BY <3>1, <3>3, <3>5
  <2>5. ASSUME t.step = "ASSIGNING"
        PROVE  /\ t.seen.status \in {"CUSTOMER_CONFIRMED", "EXECUTIVE_ASSIGNED"}
               /\ (Unengaged(rideTasks[x].executive, rideTasks[x].ride))'
    <3>1. /\ t.seen.status \in {"CUSTOMER_CONFIRMED", "EXECUTIVE_ASSIGNED"}
          /\ Unengaged(t.executive, q) /\ q \in Ride
      BY <2>1, <2>5 DEF TaskPlaced, TaskTyped, RideTask
    <3> QED
      BY <1>1, <1>4, <1>5, <3>1 DEF Unengaged
  <2>6. t.step = "COMMAND" => t.seen.status \in Serves(t.type)
    BY <2>1 DEF TaskPlaced
  <2>7. (TaskPlaced(rideTasks[x]))'
    BY <1>1, <2>3, <2>4, <2>5, <2>6 DEF TaskPlaced
  <2> QED
    BY <2>2, <2>7
<1>10. Apart'
  BY <1>1 DEF Apart
<1>11. BookingsPlaced'
  <2>1. \A r \in Ride : calendar'[r] # "NONE" => rides'[r] # NoRide /\ rides'[r].status # "REQUESTED"
    BY <1>1, <1>4 DEF BookingsPlaced
  <2>2. ASSUME NEW r \in unitBookings'
        PROVE  /\ r \in Ride /\ calendar'[r] # "NONE" /\ demoUnits'[rides'[r].vehicle] # NoUnit
               /\ r \notin stranded' /\ calendar'[r] = "HELD"
                      => demoUnits'[rides'[r].vehicle].branch = rides'[r].branch
    <3>1. CASE r \in unitBookings
      <4>1. /\ r \in Ride /\ rides[r] # NoRide /\ rides[r].vehicle # v /\ calendar[r] # "NONE"
            /\ demoUnits[rides[r].vehicle] # NoUnit
        BY <1>6, <3>1 DEF BookingsPlaced
      <4>2. rides[r].vehicle \in Vehicle
        BY <4>1 DEF RowsTyped, RideRow
      <4>3. demoUnits'[rides'[r].vehicle] = demoUnits[rides[r].vehicle]
        BY <1>1, <1>4, <4>1, <4>2 DEF RowsTyped
      <4> QED
        BY <1>1, <1>4, <3>1, <4>1, <4>3 DEF BookingsPlaced
    <3>2. CASE r \notin unitBookings
      <4>1. r \in named /\ calendar[r] # "NONE"
        BY <1>1, <3>2
      <4>2. demoUnits'[rides'[r].vehicle] = unit /\ rides'[r].branch = unit.branch
        BY <1>1, <1>2, <1>4, <4>1 DEF RowsTyped
      <4> QED
        BY <1>1, <1>2, <1>3, <4>1, <4>2
    <3> QED
      BY <3>1, <3>2
  <2> QED
    BY <2>1, <2>2 DEF BookingsPlaced
<1>12. RideHoldsItsVehicle'
  BY <1>1, <1>4 DEF RideHoldsItsVehicle
<1>13. BranchBookedOnce'
  <2> SUFFICES ASSUME NEW a \in Ride, NEW b \in Ride, a # b,
                      calendar'[a] = "HELD", calendar'[b] = "HELD",
                      rides'[a].vehicle = rides'[b].vehicle, rides'[a].branch = rides'[b].branch,
                      (SameHours(a, b))'
               PROVE  a \in unitBookings' <=> b \notin unitBookings'
    BY DEF BranchBookedOnce
  <2>1. /\ calendar[a] = "HELD" /\ calendar[b] = "HELD" /\ rides[a].vehicle = rides[b].vehicle
        /\ rides[a].branch = rides[b].branch /\ SameHours(a, b)
    BY <1>1, <1>4, <1>5
  <2>2. a \in unitBookings <=> b \notin unitBookings
    BY <2>1 DEF BranchBookedOnce
  <2>3. rides[a].vehicle # v
    BY <1>6, <2>1, <2>2
  <2> QED
    BY <1>7, <2>1, <2>2, <2>3
<1>14. ExecutiveBookedOnce'
  BY <1>4, <1>5 DEF ExecutiveBookedOnce
<1> QED
  BY <1>8, <1>9, <1>10, <1>11, <1>12, <1>13, <1>14

(* A unit that changes: where it leaves the branch, its bookings are         *)
(* stranded, and no linked booking is in progress.                           *)
LEMMA UnitMovedKeeps ==
    ASSUME IInv, NEW v \in Vehicle, NEW unit \in UnitRow, UnitChanges(v, unit)
    PROVE  IInv'
<1> USE DEF IInv
<1>1. /\ demoUnits[v] # NoUnit /\ demoUnits' = [demoUnits EXCEPT ![v] = unit]
      /\ \A w \in RideWorker : rideTasks[w].step = "BOOKING" =>
             ~(rideTasks[w].seen.linked /\ rideTasks[w].seen.vehicle = v)
      /\ stranded' = IF unit.branch = demoUnits[v].branch THEN stranded
                     ELSE stranded \cup {r \in unitBookings : /\ calendar[r] = "HELD"
                                                              /\ rides[r].vehicle = v}
      /\ UNCHANGED <<rides, calendar, unitBookings, trips, samples, commands, rideTasks>>
  BY DEF UnitChanges, Busy
<1>2. unit # NoUnit
  BY DEF UnitRow, NoUnit
<1>3. RowsTyped'
  BY <1>1 DEF RowsTyped
<1>4. ASSUME NEW x \in RideWorker
      PROVE  (TaskTyped(rideTasks[x]) /\ TaskPlaced(rideTasks[x]))'
  <2> DEFINE t == rideTasks[x]
  <2>1. TaskTyped(t) /\ TaskPlaced(t)
    OBVIOUS
  <2>2. ASSUME t.step = "BOOKING", t.seen.linked
        PROVE  (InItsBranch(t.seen.vehicle, t.seen.branch))'
    <3>1. t.seen.vehicle # v /\ InItsBranch(t.seen.vehicle, t.seen.branch) /\ t.seen \in RideRow
      BY <1>1, <2>1, <2>2 DEF TaskPlaced, TaskTyped, RideTask
    <3>2. t.seen.vehicle \in Vehicle
      BY <3>1 DEF RideRow
    <3> QED
      BY <1>1, <3>1, <3>2 DEF InItsBranch, RowsTyped
  <2> QED
    BY <1>1, <2>1, <2>2 DEF TaskTyped, ListTyped, TaskPlaced, Clear, Unengaged, SameHours, InItsBranch
<1>5. BookingsPlaced'
  <2>1. ASSUME NEW r \in unitBookings
        PROVE  /\ calendar'[r] # "NONE" /\ demoUnits'[rides'[r].vehicle] # NoUnit
               /\ r \notin stranded' /\ calendar'[r] = "HELD"
                      => demoUnits'[rides'[r].vehicle].branch = rides'[r].branch
    <3>1. /\ r \in Ride /\ rides[r] # NoRide /\ calendar[r] # "NONE"
          /\ demoUnits[rides[r].vehicle] # NoUnit
      BY DEF BookingsPlaced, RowsTyped
    <3>2. rides[r].vehicle \in Vehicle
      BY <3>1 DEF RowsTyped, RideRow
    <3>3. CASE rides[r].vehicle # v
      BY <1>1, <3>1, <3>2, <3>3 DEF BookingsPlaced, RowsTyped
    <3>4. CASE rides[r].vehicle = v
      <4>1. demoUnits'[rides'[r].vehicle] = unit
        BY <1>1, <3>4 DEF RowsTyped
      <4> QED
        BY <1>1, <1>2, <3>1, <3>4, <4>1 DEF BookingsPlaced
    <3> QED
      BY <3>3, <3>4
  <2> QED
    BY <1>1, <2>1 DEF BookingsPlaced
<1>6. Apart' /\ RideHoldsItsVehicle' /\ BranchBookedOnce' /\ ExecutiveBookedOnce'
  BY <1>1 DEF Apart, RideHoldsItsVehicle, BranchBookedOnce, ExecutiveBookedOnce, SameHours
<1> QED
  BY <1>3, <1>4, <1>5, <1>6

-----------------------------------------------------------------------------
(* Steps that write the ride, one lemma each. *)
LEMMA BookKeeps ==
    ASSUME IInv, NEW w \in RideWorker, book(w)
    PROVE  IInv'
<1> DEFINE r == rideTasks[w].ride
           row == [rides[r] EXCEPT !.status = "BOOKED"]
<1>1. /\ rideTasks[w].step = "BOOKING" /\ calendar' = [calendar EXCEPT ![r] = "HELD"]
      /\ updateStatus(r, rideTasks[w].seen, row) /\ Parked(w)
      /\ unitBookings' = IF rideTasks[w].seen.linked THEN unitBookings \cup {r} ELSE unitBookings
      /\ UNCHANGED <<stranded, trips, samples, commands, demoUnits>>
  BY DEF book, Busy
<1>2. r \in Ride /\ rides[r] \in RideRow
  BY <1>1, AtWork
<1>3. rides[r].status = "REQUESTED"
  BY <1>1 DEF updateStatus, AsRead, IInv, TaskPlaced
<1>4. /\ row \in RideRow /\ row.status = "BOOKED"
      /\ row.vehicle = rides[r].vehicle /\ row.slot = rides[r].slot
      /\ row.branch = rides[r].branch
  BY <1>2 DEF RideRow, RideStatus, Holding
<1>5. /\ "BOOKED" \in Holding /\ "BOOKED" \notin Engaged
      /\ trips[r] # "OPEN"
  BY <1>2, <1>3 DEF Holding, Engaged, IInv, RideHoldsItsVehicle
<1>6. updateStatus(r, rideTasks[w].seen, row)
  BY <1>1
<1> HIDE DEF row
<1>7. /\ calendar' \in [Ride -> {"NONE", "HELD", "COMPLETED", "RELEASED"}]
      /\ trips' \in [Ride -> {"NONE", "OPEN", "STOPPED"}]
      /\ \A o \in Ride \ {r} : calendar'[o] = calendar[o] /\ trips'[o] = trips[o]
      /\ calendar'[r] = "HELD" <=> row.status \in Holding
      /\ trips'[r] = "OPEN" <=> row.status = "ACTIVE" /\ row.tracking = "ON"
      /\ calendar'[r] # "NONE" => row.status # "REQUESTED"
      /\ calendar[r] # "NONE" => calendar'[r] # "NONE"
      /\ samples' \subseteq Ride /\ commands' \subseteq RideKey
  BY <1>1, <1>2, <1>4, <1>5 DEF IInv, RowsTyped
<1> QED
  BY <1>1, <1>2, <1>4, <1>5, <1>6, <1>7, RideWritten

LEMMA ConfirmKeeps ==
    ASSUME IInv, NEW w \in RideWorker, confirm(w)
    PROVE  IInv'
<1> DEFINE r == rideTasks[w].ride
           row == [rides[r] EXCEPT !.status = "CUSTOMER_CONFIRMED"]
<1>1. /\ rideTasks[w].step = "READ" /\ rideTasks[w].seen.status = "BOOKED"
      /\ updateStatus(r, rideTasks[w].seen, row) /\ Parked(w)
      /\ UNCHANGED <<calendar, trips, samples, commands, unitBookings, stranded, demoUnits>>
  BY DEF confirm, Busy, rideUnits
<1>2. r \in Ride /\ rides[r] \in RideRow
  BY <1>1, AtWork
<1>3. rides[r].status = "BOOKED"
  BY <1>1 DEF updateStatus, AsRead
<1>4. /\ row \in RideRow /\ row.status = "CUSTOMER_CONFIRMED"
      /\ row.vehicle = rides[r].vehicle /\ row.slot = rides[r].slot
      /\ row.branch = rides[r].branch
  BY <1>2 DEF RideRow, RideStatus, Holding
<1>5. /\ "CUSTOMER_CONFIRMED" \in Holding /\ "CUSTOMER_CONFIRMED" \notin Engaged
      /\ trips[r] # "OPEN" /\ calendar[r] = "HELD"
  BY <1>2, <1>3 DEF Holding, Engaged, IInv, RideHoldsItsVehicle
<1>6. updateStatus(r, rideTasks[w].seen, row)
  BY <1>1
<1> HIDE DEF row
<1>7. /\ calendar' \in [Ride -> {"NONE", "HELD", "COMPLETED", "RELEASED"}]
      /\ trips' \in [Ride -> {"NONE", "OPEN", "STOPPED"}]
      /\ \A o \in Ride \ {r} : calendar'[o] = calendar[o] /\ trips'[o] = trips[o]
      /\ calendar'[r] = "HELD" <=> row.status \in Holding
      /\ trips'[r] = "OPEN" <=> row.status = "ACTIVE" /\ row.tracking = "ON"
      /\ calendar'[r] # "NONE" => row.status # "REQUESTED"
      /\ calendar[r] # "NONE" => calendar'[r] # "NONE"
      /\ samples' \subseteq Ride /\ commands' \subseteq RideKey
  BY <1>1, <1>2, <1>4, <1>5 DEF IInv, RowsTyped
<1> QED
  BY <1>1, <1>2, <1>4, <1>5, <1>6, <1>7, RideWritten

LEMMA AssignKeeps ==
    ASSUME IInv, NEW w \in RideWorker, assignRide(w)
    PROVE  IInv'
<1> DEFINE r == rideTasks[w].ride
           e == rideTasks[w].executive
           row == [rides[r] EXCEPT !.status = "EXECUTIVE_ASSIGNED", !.executive = e]
<1>1. /\ rideTasks[w].step = "ASSIGNING"
      /\ updateStatus(r, rideTasks[w].seen, row) /\ Parked(w)
      /\ UNCHANGED <<calendar, trips, samples, commands, unitBookings, stranded, demoUnits>>
  BY DEF assignRide, Busy, rideUnits
<1>2. r \in Ride /\ rides[r] \in RideRow
  BY <1>1, AtWork
<1>e. e \in RideExecutive
  BY <1>1 DEF IInv, TaskTyped, RideTask
<1>3. rides[r].status \in {"CUSTOMER_CONFIRMED", "EXECUTIVE_ASSIGNED"}
  BY <1>1 DEF updateStatus, AsRead, IInv, TaskPlaced
<1>s. "EXECUTIVE_ASSIGNED" \in RideStatus
  BY DEF RideStatus, Holding
<1>4. /\ row \in RideRow /\ row.status = "EXECUTIVE_ASSIGNED" /\ row.executive = e
      /\ row.vehicle = rides[r].vehicle /\ row.slot = rides[r].slot
      /\ row.branch = rides[r].branch
  BY <1>2, <1>e, <1>s DEF RideRow
<1>5. /\ "EXECUTIVE_ASSIGNED" \in Holding
      /\ trips[r] # "OPEN" /\ calendar[r] = "HELD"
  BY <1>2, <1>3 DEF Holding, IInv, RideHoldsItsVehicle
<1>6. updateStatus(r, rideTasks[w].seen, row)
  BY <1>1
<1> HIDE DEF row
<1>7. /\ calendar' \in [Ride -> {"NONE", "HELD", "COMPLETED", "RELEASED"}]
      /\ trips' \in [Ride -> {"NONE", "OPEN", "STOPPED"}]
      /\ \A o \in Ride \ {r} : calendar'[o] = calendar[o] /\ trips'[o] = trips[o]
      /\ calendar'[r] = "HELD" <=> row.status \in Holding
      /\ trips'[r] = "OPEN" <=> row.status = "ACTIVE" /\ row.tracking = "ON"
      /\ calendar'[r] # "NONE" => row.status # "REQUESTED"
      /\ calendar[r] # "NONE" => calendar'[r] # "NONE"
      /\ samples' \subseteq Ride /\ commands' \subseteq RideKey
  BY <1>1, <1>2, <1>4, <1>5 DEF IInv, RowsTyped
<1> QED
  BY <1>1, <1>2, <1>4, <1>5, <1>6, <1>7, RideWritten

(* A command: its ride still has a status the command serves, its booking    *)
(* and session follow the row.                                               *)
LEMMA CommandWrites ==
    ASSUME IInv, NEW w \in RideWorker, NEW type \in CommandType, Ordered(w, type),
           NEW r, r = rideTasks[w].ride, NEW row,
           updateStatus(r, rideTasks[w].seen, row)
    PROVE  /\ r \in Ride /\ rides[r] \in RideRow
           /\ rides[r].status \in Serves(type)
           /\ rideTasks[w].step = "COMMAND"
           /\ commands' \subseteq RideKey /\ samples' \subseteq Ride /\ UNCHANGED <<unitBookings, stranded, demoUnits>>
           /\ Parked(w)
<1>1. rideTasks[w].step = "COMMAND" /\ rideTasks[w].type = type /\ Parked(w)
      /\ commands' = commands \cup {rideTasks[w].key} /\ UNCHANGED <<samples, unitBookings, stranded, demoUnits>>
  BY DEF Ordered, Busy, rideUnits
<1>2. r \in Ride /\ rides[r] \in RideRow
  BY <1>1, AtWork
<1>3. rideTasks[w].key \in RideKey
  BY <1>1 DEF IInv, TaskTyped, RideTask
<1>4. rides[r].status \in Serves(type)
  BY <1>1 DEF updateStatus, AsRead, IInv, TaskPlaced
<1> QED
  BY <1>1, <1>2, <1>3, <1>4 DEF IInv, RowsTyped

(* The vehicle's booking, and the session, of a ride. *)
LEMMA Freed ==
    ASSUME RowsTyped, NEW r \in Ride, NEW status \in {"COMPLETED", "RELEASED"},
           FreeVehicle(r, status)
    PROVE  /\ calendar' \in [Ride -> {"NONE", "HELD", "COMPLETED", "RELEASED"}]
           /\ calendar'[r] # "HELD"
           /\ calendar[r] # "NONE" => calendar'[r] # "NONE"
           /\ \A o \in Ride \ {r} : calendar'[o] = calendar[o]
BY DEF RowsTyped, FreeVehicle
LEMMA Stopped ==
    ASSUME RowsTyped, NEW r \in Ride, stopSession(r)
    PROVE  /\ trips' \in [Ride -> {"NONE", "OPEN", "STOPPED"}]
           /\ trips'[r] # "OPEN"
           /\ \A o \in Ride \ {r} : trips'[o] = trips[o]
BY DEF RowsTyped, stopSession

LEMMA StartKeeps ==
    ASSUME IInv, NEW w \in RideWorker, start(w)
    PROVE  IInv'
<1> DEFINE r == rideTasks[w].ride
           row == [rides[r] EXCEPT !.status = "ACTIVE", !.tracking = "ON"]
<1>1. /\ Ordered(w, "START") /\ updateStatus(r, rideTasks[w].seen, row)
      /\ trips' = [trips EXCEPT ![r] = "OPEN"] /\ UNCHANGED calendar
  BY DEF start
<1>2. "START" \in CommandType
  BY DEF CommandType
<1>3. /\ r \in Ride /\ rides[r] \in RideRow /\ rides[r].status \in Serves("START")
      /\ rideTasks[w].step = "COMMAND" /\ Parked(w)
      /\ commands' \subseteq RideKey /\ samples' \subseteq Ride /\ UNCHANGED <<unitBookings, stranded, demoUnits>>
  BY <1>1, <1>2, CommandWrites
<1>4. /\ row \in RideRow /\ row.status = "ACTIVE"
      /\ row.vehicle = rides[r].vehicle /\ row.slot = rides[r].slot
      /\ row.branch = rides[r].branch /\ row.executive = rides[r].executive
      /\ row.tracking = "ON"
  BY <1>3 DEF RideRow, RideStatus, Holding
<1>5. updateStatus(r, rideTasks[w].seen, row)
  BY <1>1
<1> HIDE DEF row
<1>6. calendar[r] = "HELD" /\ rides[r].status \in Engaged
  BY <1>3 DEF Serves, Engaged, Holding, IInv, RideHoldsItsVehicle
<1>7. "ACTIVE" \in Holding
  BY DEF Holding
<1>8. /\ calendar' \in [Ride -> {"NONE", "HELD", "COMPLETED", "RELEASED"}]
      /\ trips' \in [Ride -> {"NONE", "OPEN", "STOPPED"}]
      /\ \A o \in Ride \ {r} : calendar'[o] = calendar[o] /\ trips'[o] = trips[o]
      /\ calendar'[r] = "HELD" <=> row.status \in Holding
      /\ trips'[r] = "OPEN" <=> row.status = "ACTIVE" /\ row.tracking = "ON"
      /\ calendar'[r] = "HELD" => calendar[r] = "HELD"
      /\ calendar'[r] # "NONE" => row.status # "REQUESTED"
      /\ calendar[r] # "NONE" => calendar'[r] # "NONE"
      /\ row.status \in Engaged => rides[r].status \in Engaged
  BY <1>1, <1>3, <1>4, <1>6, <1>7 DEF IInv, RowsTyped, Holding, Engaged
<1> QED
  BY <1>3, <1>4, <1>5, <1>8, RideWritten

LEMMA StopTrackingKeeps ==
    ASSUME IInv, NEW w \in RideWorker, stopTracking(w)
    PROVE  IInv'
<1> DEFINE r == rideTasks[w].ride
           row == [rides[r] EXCEPT !.tracking = "STOPPED"]
<1>1. /\ Ordered(w, "STOP_TRACKING") /\ updateStatus(r, rideTasks[w].seen, row)
      /\ stopSession(r) /\ UNCHANGED calendar
  BY DEF stopTracking
<1>2. "STOP_TRACKING" \in CommandType
  BY DEF CommandType
<1>3. /\ r \in Ride /\ rides[r] \in RideRow /\ rides[r].status \in Serves("STOP_TRACKING")
      /\ rideTasks[w].step = "COMMAND" /\ Parked(w)
      /\ commands' \subseteq RideKey /\ samples' \subseteq Ride /\ UNCHANGED <<unitBookings, stranded, demoUnits>>
  BY <1>1, <1>2, CommandWrites
<1>4. /\ row \in RideRow /\ row.status = rides[r].status
      /\ row.vehicle = rides[r].vehicle /\ row.slot = rides[r].slot
      /\ row.branch = rides[r].branch /\ row.executive = rides[r].executive
      /\ row.tracking = "STOPPED"
  BY <1>3 DEF RideRow, RideStatus, Holding
<1>5. updateStatus(r, rideTasks[w].seen, row)
  BY <1>1
<1> HIDE DEF row
<1>6. /\ calendar[r] = "HELD" /\ rides[r].status = "ACTIVE"
  BY <1>3 DEF Serves, Holding, IInv, RideHoldsItsVehicle
<1>7. /\ trips' \in [Ride -> {"NONE", "OPEN", "STOPPED"}] /\ trips'[r] # "OPEN"
      /\ \A o \in Ride \ {r} : trips'[o] = trips[o]
  BY <1>1, <1>3, Stopped DEF IInv
<1>8. /\ calendar' \in [Ride -> {"NONE", "HELD", "COMPLETED", "RELEASED"}]
      /\ trips' \in [Ride -> {"NONE", "OPEN", "STOPPED"}]
      /\ \A o \in Ride \ {r} : calendar'[o] = calendar[o] /\ trips'[o] = trips[o]
      /\ calendar'[r] = "HELD" <=> row.status \in Holding
      /\ trips'[r] = "OPEN" <=> row.status = "ACTIVE" /\ row.tracking = "ON"
      /\ calendar'[r] = "HELD" => calendar[r] = "HELD"
      /\ calendar'[r] # "NONE" => row.status # "REQUESTED"
      /\ calendar[r] # "NONE" => calendar'[r] # "NONE"
      /\ row.status \in Engaged => rides[r].status \in Engaged
  BY <1>1, <1>3, <1>4, <1>6, <1>7 DEF IInv, RowsTyped, Holding, Engaged
<1> QED
  BY <1>3, <1>4, <1>5, <1>8, RideWritten

LEMMA CompleteKeeps ==
    ASSUME IInv, NEW w \in RideWorker, complete(w)
    PROVE  IInv'
<1> DEFINE r == rideTasks[w].ride
           row == [rides[r] EXCEPT !.status = "COMPLETED", !.tracking = "STOPPED"]
<1>1. /\ Ordered(w, "COMPLETE") /\ updateStatus(r, rideTasks[w].seen, row)
      /\ stopSession(r) /\ FreeVehicle(r, "COMPLETED")
  BY DEF complete
<1>2. "COMPLETE" \in CommandType
  BY DEF CommandType
<1>3. /\ r \in Ride /\ rides[r] \in RideRow /\ rides[r].status \in Serves("COMPLETE")
      /\ rideTasks[w].step = "COMMAND" /\ Parked(w)
      /\ commands' \subseteq RideKey /\ samples' \subseteq Ride /\ UNCHANGED <<unitBookings, stranded, demoUnits>>
  BY <1>1, <1>2, CommandWrites
<1>4. /\ row \in RideRow /\ row.status = "COMPLETED"
      /\ row.vehicle = rides[r].vehicle /\ row.slot = rides[r].slot
      /\ row.branch = rides[r].branch /\ row.executive = rides[r].executive
      /\ row.tracking = "STOPPED"
  BY <1>3 DEF RideRow, RideStatus, Holding
<1>5. updateStatus(r, rideTasks[w].seen, row)
  BY <1>1
<1> HIDE DEF row
<1>6. /\ trips' \in [Ride -> {"NONE", "OPEN", "STOPPED"}] /\ trips'[r] # "OPEN"
      /\ \A o \in Ride \ {r} : trips'[o] = trips[o]
  BY <1>1, <1>3, Stopped DEF IInv
<1>7. /\ calendar' \in [Ride -> {"NONE", "HELD", "COMPLETED", "RELEASED"}]
      /\ calendar'[r] # "HELD"
      /\ calendar[r] # "NONE" => calendar'[r] # "NONE"
      /\ \A o \in Ride \ {r} : calendar'[o] = calendar[o]
  BY <1>1, <1>3, Freed DEF IInv
<1>8. /\ calendar' \in [Ride -> {"NONE", "HELD", "COMPLETED", "RELEASED"}]
      /\ trips' \in [Ride -> {"NONE", "OPEN", "STOPPED"}]
      /\ \A o \in Ride \ {r} : calendar'[o] = calendar[o] /\ trips'[o] = trips[o]
      /\ calendar'[r] = "HELD" <=> row.status \in Holding
      /\ trips'[r] = "OPEN" <=> row.status = "ACTIVE" /\ row.tracking = "ON"
      /\ calendar'[r] = "HELD" => calendar[r] = "HELD"
      /\ calendar'[r] # "NONE" => row.status # "REQUESTED"
      /\ calendar[r] # "NONE" => calendar'[r] # "NONE"
      /\ row.status \in Engaged => rides[r].status \in Engaged
  BY <1>1, <1>3, <1>4, <1>6, <1>7 DEF IInv, RowsTyped, Holding, Engaged
<1> QED
  BY <1>3, <1>4, <1>5, <1>8, RideWritten

LEMMA CancelKeeps ==
    ASSUME IInv, NEW w \in RideWorker, cancel(w)
    PROVE  IInv'
<1> DEFINE r == rideTasks[w].ride
           row == [rides[r] EXCEPT !.status = "CANCELLED",
                      !.tracking = IF @ = "NEVER" THEN @ ELSE "STOPPED"]
<1>1. /\ Ordered(w, "CANCEL") /\ updateStatus(r, rideTasks[w].seen, row)
      /\ stopSession(r) /\ FreeVehicle(r, "RELEASED")
  BY DEF cancel
<1>2. "CANCEL" \in CommandType
  BY DEF CommandType
<1>3. /\ r \in Ride /\ rides[r] \in RideRow /\ rides[r].status \in Serves("CANCEL")
      /\ rideTasks[w].step = "COMMAND" /\ Parked(w)
      /\ commands' \subseteq RideKey /\ samples' \subseteq Ride /\ UNCHANGED <<unitBookings, stranded, demoUnits>>
  BY <1>1, <1>2, CommandWrites
<1>4. /\ row \in RideRow /\ row.status = "CANCELLED"
      /\ row.vehicle = rides[r].vehicle /\ row.slot = rides[r].slot
      /\ row.branch = rides[r].branch /\ row.executive = rides[r].executive
      /\ row.tracking # "ON"
  BY <1>3 DEF RideRow, RideStatus, Holding
<1>5. updateStatus(r, rideTasks[w].seen, row)
  BY <1>1
<1> HIDE DEF row
<1>6. /\ trips' \in [Ride -> {"NONE", "OPEN", "STOPPED"}] /\ trips'[r] # "OPEN"
      /\ \A o \in Ride \ {r} : trips'[o] = trips[o]
  BY <1>1, <1>3, Stopped DEF IInv
<1>7. /\ calendar' \in [Ride -> {"NONE", "HELD", "COMPLETED", "RELEASED"}]
      /\ calendar'[r] # "HELD"
      /\ calendar[r] # "NONE" => calendar'[r] # "NONE"
      /\ \A o \in Ride \ {r} : calendar'[o] = calendar[o]
  BY <1>1, <1>3, Freed DEF IInv
<1>8. /\ calendar' \in [Ride -> {"NONE", "HELD", "COMPLETED", "RELEASED"}]
      /\ trips' \in [Ride -> {"NONE", "OPEN", "STOPPED"}]
      /\ \A o \in Ride \ {r} : calendar'[o] = calendar[o] /\ trips'[o] = trips[o]
      /\ calendar'[r] = "HELD" <=> row.status \in Holding
      /\ trips'[r] = "OPEN" <=> row.status = "ACTIVE" /\ row.tracking = "ON"
      /\ calendar'[r] = "HELD" => calendar[r] = "HELD"
      /\ calendar'[r] # "NONE" => row.status # "REQUESTED"
      /\ calendar[r] # "NONE" => calendar'[r] # "NONE"
      /\ row.status \in Engaged => rides[r].status \in Engaged
  BY <1>1, <1>3, <1>4, <1>6, <1>7 DEF IInv, RowsTyped, Holding, Engaged
<1> QED
  BY <1>3, <1>4, <1>5, <1>8, RideWritten

LEMMA NoShowKeeps ==
    ASSUME IInv, NEW w \in RideWorker, noShow(w)
    PROVE  IInv'
<1> DEFINE r == rideTasks[w].ride
           row == [rides[r] EXCEPT !.status = "NO_SHOW"]
<1>1. /\ Ordered(w, "NO_SHOW") /\ updateStatus(r, rideTasks[w].seen, row)
      /\ FreeVehicle(r, "RELEASED") /\ UNCHANGED trips
  BY DEF noShow
<1>2. "NO_SHOW" \in CommandType
  BY DEF CommandType
<1>3. /\ r \in Ride /\ rides[r] \in RideRow /\ rides[r].status \in Serves("NO_SHOW")
      /\ rideTasks[w].step = "COMMAND" /\ Parked(w)
      /\ commands' \subseteq RideKey /\ samples' \subseteq Ride /\ UNCHANGED <<unitBookings, stranded, demoUnits>>
  BY <1>1, <1>2, CommandWrites
<1>4. /\ row \in RideRow /\ row.status = "NO_SHOW"
      /\ row.vehicle = rides[r].vehicle /\ row.slot = rides[r].slot
      /\ row.branch = rides[r].branch /\ row.executive = rides[r].executive
      /\ row.tracking = rides[r].tracking
  BY <1>3 DEF RideRow, RideStatus, Holding
<1>5. updateStatus(r, rideTasks[w].seen, row)
  BY <1>1
<1> HIDE DEF row
<1>6. /\ trips' = trips /\ trips[r] # "OPEN"
  BY <1>1, <1>3 DEF Serves, IInv, RideHoldsItsVehicle
<1>7. /\ calendar' \in [Ride -> {"NONE", "HELD", "COMPLETED", "RELEASED"}]
      /\ calendar'[r] # "HELD"
      /\ calendar[r] # "NONE" => calendar'[r] # "NONE"
      /\ \A o \in Ride \ {r} : calendar'[o] = calendar[o]
  BY <1>1, <1>3, Freed DEF IInv
<1>8. /\ calendar' \in [Ride -> {"NONE", "HELD", "COMPLETED", "RELEASED"}]
      /\ trips' \in [Ride -> {"NONE", "OPEN", "STOPPED"}]
      /\ \A o \in Ride \ {r} : calendar'[o] = calendar[o] /\ trips'[o] = trips[o]
      /\ calendar'[r] = "HELD" <=> row.status \in Holding
      /\ trips'[r] = "OPEN" <=> row.status = "ACTIVE" /\ row.tracking = "ON"
      /\ calendar'[r] = "HELD" => calendar[r] = "HELD"
      /\ calendar'[r] # "NONE" => row.status # "REQUESTED"
      /\ calendar[r] # "NONE" => calendar'[r] # "NONE"
      /\ row.status \in Engaged => rides[r].status \in Engaged
  BY <1>1, <1>3, <1>4, <1>6, <1>7 DEF IInv, RowsTyped, Holding, Engaged
<1> QED
  BY <1>3, <1>4, <1>5, <1>8, RideWritten

-----------------------------------------------------------------------------
LEMMA ReconcileKeeps ==
    ASSUME IInv, NEW w \in RideWorker, reconcileTracking(w)
    PROVE  IInv'
<1> DEFINE t == [step |-> "EXPIRING", list |-> [r \in Overdue |-> rides[r]]]
<1>1. /\ Drives(w, t) /\ UNCHANGED <<rides, calendar, trips, samples, commands, rideUnits>>
  BY DEF reconcileTracking, rideRows
<1>2. \A r \in Overdue : r \in Ride /\ rides[r] \in RideRow
  BY DEF Overdue, IInv, RowsTyped, NoRide
<1>3. ListTyped(t) /\ t.step = "EXPIRING"
  BY <1>2 DEF ListTyped
<1> HIDE DEF t
<1>4. TaskTyped(t) /\ TaskPlaced(t)
  BY <1>3 DEF TaskTyped, TaskPlaced
<1> QED
  BY <1>1, <1>3, <1>4, TaskStep DEF IInv, RowsTyped

(* A late ride that changed since it was listed is left alone. *)
LEMMA ExpireKeeps ==
    ASSUME IInv, NEW w \in RideWorker, NEW r \in Ride, expireTracking(w, r)
    PROVE  IInv'
<1> DEFINE list == rideTasks[w].list
           rest == DOMAIN list \ {r}
           row == [rides[r] EXCEPT !.status = list[r].status, !.tracking = "STOPPED"]
           t == [step |-> "EXPIRING", list |-> [x \in rest |-> list[x]]]
<1>1. /\ rideTasks[w].step = "EXPIRING" /\ r \in DOMAIN list
      /\ updateStatus(r, list[r], row) /\ stopSession(r)
      /\ IF rest = {} THEN Parked(w) ELSE Drives(w, t)
      /\ UNCHANGED <<calendar, samples, commands, unitBookings, stranded, demoUnits>>
  BY DEF expireTracking, Busy, rideUnits
<1>2. ListTyped(rideTasks[w])
  BY <1>1 DEF IInv, TaskTyped
<1>3. list[r] \in RideRow /\ list[r].status = rides[r].status
  BY <1>1, <1>2 DEF ListTyped, updateStatus, AsRead
<1>4. rides[r] \in RideRow
  BY <1>3 DEF IInv, RowsTyped, NoRide, RideRow, RideStatus, Holding
<1>5. /\ row \in RideRow /\ row.status = rides[r].status
      /\ row.vehicle = rides[r].vehicle /\ row.slot = rides[r].slot
      /\ row.branch = rides[r].branch /\ row.executive = rides[r].executive
      /\ row.tracking = "STOPPED"
  BY <1>3, <1>4 DEF RideRow
<1>6. ListTyped(t) /\ t.step = "EXPIRING"
  BY <1>2 DEF ListTyped
<1>7. updateStatus(r, list[r], row)
  BY <1>1
<1>8. Parked(w) \/ Drives(w, t)
  BY <1>1
<1> HIDE DEF row, t
<1>9. PICK new \in RideRow :
          /\ rides' = [rides EXCEPT ![r] = new]
          /\ new.status = row.status /\ new.vehicle = row.vehicle
          /\ new.slot = row.slot /\ new.branch = row.branch
          /\ new.executive = row.executive /\ new.tracking = row.tracking
  BY <1>3, <1>5, <1>7, Updated
<1>10. /\ trips' \in [Ride -> {"NONE", "OPEN", "STOPPED"}] /\ trips'[r] # "OPEN"
       /\ \A o \in Ride \ {r} : trips'[o] = trips[o]
  BY <1>1, Stopped DEF IInv
<1>11. /\ \A x \in RideWorker :
             \/ rideTasks'[x] = rideTasks[x]
             \/ rideTasks'[x] = [step |-> "IDLE"]
             \/ rideTasks'[x].step = "EXPIRING" /\ ListTyped(rideTasks'[x])
       /\ rideTasks' = [x \in RideWorker |-> rideTasks'[x]]
  BY <1>6, <1>8 DEF Parked, Drives, IInv, RowsTyped
<1>12. /\ new.vehicle = rides[r].vehicle /\ new.slot = rides[r].slot
       /\ new.branch = rides[r].branch /\ new.executive = rides[r].executive
       /\ rides[r] # NoRide
       /\ calendar'[r] = "HELD" <=> new.status \in Holding
       /\ trips'[r] = "OPEN" <=> new.status = "ACTIVE" /\ new.tracking = "ON"
       /\ calendar'[r] = "HELD" => calendar[r] = "HELD"
       /\ calendar'[r] # "NONE" => new.status # "REQUESTED"
       /\ calendar[r] # "NONE" => calendar'[r] # "NONE"
       /\ new.status \in Engaged => rides[r].status \in Engaged
  BY <1>1, <1>3, <1>5, <1>9, <1>10
  DEF IInv, RideHoldsItsVehicle, BookingsPlaced, NoRide, RideRow, RideStatus, Holding
<1>13. /\ calendar' \in [Ride -> {"NONE", "HELD", "COMPLETED", "RELEASED"}]
       /\ \A o \in Ride \ {r} : calendar'[o] = calendar[o] /\ trips'[o] = trips[o]
       /\ samples' \subseteq Ride /\ commands' \subseteq RideKey /\ UNCHANGED <<unitBookings, stranded, demoUnits>>
  BY <1>1, <1>10 DEF IInv, RowsTyped
<1> QED
  BY <1>9, <1>10, <1>11, <1>12, <1>13, OneRide

LEMMA RequestKeeps ==
    ASSUME IInv, NEW w \in RideWorker, RideRequest(w)
    PROVE  IInv'
BY CreateKeeps, LookUpKeeps, CommandReadsKeep, ReadsKeep, ExpireKeeps, LockVehicleKeeps, BookKeeps,
   ConfirmKeeps, AssignKeeps, LockExecutiveKeeps, StartKeeps, StopTrackingKeeps, CompleteKeeps,
   CancelKeeps, NoShowKeeps, EndsKeep, ReconcileKeeps
DEF RideRequest

LEMMA StepIInv == ASSUME IInv, [RideNext]_rideVars PROVE IInv'
<1>1. CASE UNCHANGED rideVars
  BY <1>1, QuietRows DEF rideVars, IInv, RowsTyped
<1>2. ASSUME NEW v \in Vehicle, NEW unit \in UnitRow, createUnitTx(v, unit) \/ UnitChanges(v, unit)
      PROVE  IInv'
  BY <1>2, UnitMadeKeeps, UnitMovedKeeps
<1>3. CASE purgeExpiredLocations
  BY <1>3, QuietRows DEF purgeExpiredLocations, IInv, RowsTyped
<1> QED
  BY <1>1, <1>2, <1>3, RequestKeeps, TimesOutKeeps DEF RideNext

LEMMA Inductive == RideSpec => []IInv
BY InitIInv, StepIInv, PTL DEF RideSpec

-----------------------------------------------------------------------------
(* Within a branch a demo vehicle's hours are promised once to bookings that *)
(* name its unit and once to bookings of the reference alone; bookings of    *)
(* the unit in two branches overlap only where it was transferred while one  *)
(* of them was held.  An executive rides once in an hour within a branch.    *)
(* The locks keep what book and assign looked for absent until they write,   *)
(* and a booking of the unit stays where the unit is until the unit moves.   *)
THEOREM BookedOnce == RideSpec => []NothingBookedTwice
<1>1. ASSUME IInv PROVE VehicleBookedOnce
  <2> SUFFICES ASSUME NEW a \in Ride, NEW b \in Ride, a # b,
                      calendar[a] = "HELD", calendar[b] = "HELD",
                      rides[a].vehicle = rides[b].vehicle, SameHours(a, b)
               PROVE  IF rides[a].branch = rides[b].branch
                      THEN a \in unitBookings <=> b \notin unitBookings
                      ELSE {a, b} \subseteq unitBookings => {a, b} \cap stranded # {}
    BY DEF VehicleBookedOnce
  <2>1. CASE rides[a].branch = rides[b].branch
    BY <1>1, <2>1 DEF IInv, BranchBookedOnce
  <2>2. CASE rides[a].branch # rides[b].branch
    BY <1>1, <2>2 DEF IInv, BookingsPlaced
  <2> QED
    BY <2>1, <2>2
<1>2. IInv => NothingBookedTwice
  BY <1>1 DEF IInv, NothingBookedTwice
<1> QED
  BY <1>2, Inductive, PTL

(* The booking of the vehicle and the location session follow the ride       *)
(* through every command, and through the expiry of a late session.          *)
THEOREM HoldsItsVehicle == RideSpec => []RideHoldsItsVehicle
<1>1. IInv => RideHoldsItsVehicle
  BY DEF IInv
<1> QED
  BY <1>1, Inductive, PTL

-----------------------------------------------------------------------------
(* Reminders, for every set of rules and workers and every bound.            *)
(* A worker that has claimed a row is the only one and finds it PROCESSING;  *)
(* what was handed over has a row that is SENT, which nothing claims.        *)
Holds(w) == reminding[w].step \in {"CLAIMED", "HANDED", "REFUSED"}
HoldersAlone ==
    /\ \A w \in Reminding : Holds(w) => outbox[reminding[w].of].status = "PROCESSING"
    /\ \A v, w \in Reminding : Holds(v) /\ Holds(w) /\ reminding[v].of = reminding[w].of => v = w
RowsBehind ==
    /\ \A i \in Reminder : outbox[i] # NoOutbox => reminders[i] # NoReminder
    /\ \A i \in Reminder : HandedOver(i) => outbox[i].status = "SENT"
ArrivalsSent ==
    \A w \in Reminding : reminding[w].step = "RECONCILING" =>
        \A i \in reminding[w].left : outbox[i].status = "SENT"
ReminderInv == ReminderTypeOK /\ HoldersAlone /\ RowsBehind /\ ArrivalsSent

LEMMA ReminderTaskFields ==
    ASSUME NEW t \in ReminderTask
    PROVE  /\ t.step \in {"JUDGED", "QUEUED", "CLAIMED", "HANDED", "REFUSED"} => t.of \in Reminder
           /\ t.step \in {"SCANNED", "JUDGED", "QUEUED", "RECONCILING"} => t.left \in SUBSET Reminder
           /\ t.step \in {"PLANNING", "PLANNED"} => t.left \in SUBSET Rule /\ t.source \in 1..MaxCarVersion
           /\ t.step = "PLANNED" => t.rule \in Rule /\ t.seen \in PlanRow \cup {NoPlan}
BY DEF ReminderTask

(* What a step does to the tasks: w turns to t, the others go on.            *)
LEMMA Turned ==
    ASSUME ReminderTypeOK, NEW w \in Reminding, NEW t \in ReminderTask, Minds(w, t)
    PROVE  /\ reminding' \in [Reminding -> ReminderTask]
           /\ reminding'[w] = t
           /\ \A v \in Reminding : v # w => reminding'[v] = reminding[v]
BY DEF Minds, ReminderTypeOK

(* A step that leaves reminders and outbox alone keeps what holds of them if *)
(* nobody comes to hold a row by it, and what is to arrive was sent.         *)
LEMMA QuietStep ==
    ASSUME ReminderInv, UNCHANGED <<reminders, outbox>>, ReminderTypeOK',
           \A w \in Reminding : Holds(w)' => Holds(w) /\ reminding'[w].of = reminding[w].of,
           \A w \in Reminding : reminding'[w].step = "RECONCILING" =>
               \/ reminding'[w] = reminding[w]
               \/ \A i \in reminding'[w].left : outbox[i].status = "SENT"
    PROVE  ReminderInv' /\ \A i \in Reminder : HandedOver(i) => HandedOver(i)'
<1>1. HoldersAlone'
  BY DEF ReminderInv, HoldersAlone, Holds
<1>2. RowsBehind'
  BY DEF ReminderInv, RowsBehind, HandedOver
<1>3. ArrivalsSent'
  BY DEF ReminderInv, ArrivalsSent
<1> QED BY <1>1, <1>2, <1>3 DEF ReminderInv, HandedOver

(* ... in particular one in which a worker turns to what holds nothing.      *)
LEMMA IdleStep ==
    ASSUME ReminderInv, UNCHANGED <<reminders, outbox>>,
           carVersion' \in 1..MaxCarVersion, plans' = plans, notices' = notices,
           willing' = willing, dispatches' \in SUBSET Reminder,
           NEW w \in Reminding, NEW t \in ReminderTask, Minds(w, t),
           t.step \notin {"CLAIMED", "HANDED", "REFUSED"},
           t.step = "RECONCILING" => \A i \in t.left : outbox[i].status = "SENT"
    PROVE  ReminderInv' /\ \A i \in Reminder : HandedOver(i) => HandedOver(i)'
<1>1. /\ reminding' \in [Reminding -> ReminderTask]
      /\ reminding'[w] = t
      /\ \A v \in Reminding : v # w => reminding'[v] = reminding[v]
  BY Turned DEF ReminderInv
<1>2. ReminderTypeOK'
  BY <1>1 DEF ReminderInv, ReminderTypeOK
<1>3. \A v \in Reminding : Holds(v)' => Holds(v) /\ reminding'[v].of = reminding[v].of
  BY <1>1 DEF Holds
<1>4. \A v \in Reminding : reminding'[v].step = "RECONCILING" =>
          \/ reminding'[v] = reminding[v]
          \/ \A i \in reminding'[v].left : outbox[i].status = "SENT"
  BY <1>1
<1> QED BY <1>2, <1>3, <1>4, QuietStep

LEMMA RestTask == [step |-> "IDLE"] \in ReminderTask
BY DEF ReminderTask

LEMMA PlanningStep ==
    ASSUME ReminderInv, NEW w \in Reminding,
           \/ Materialize(w) \/ EndPlanning(w) \/ EndScan(w) \/ ReminderCrash(w)
           \/ \E r \in Rule : PassRule(w, r) \/ ReadPlan(w, r)
    PROVE  ReminderInv' /\ \A i \in Reminder : HandedOver(i) => HandedOver(i)'
<1> DEFINE T(t) == /\ Minds(w, t) /\ t \in ReminderTask /\ t.step \in {"IDLE", "PLANNING", "PLANNED"}
<1>0. ReminderTypeOK /\ reminding[w] \in ReminderTask
  BY DEF ReminderInv, ReminderTypeOK
<1>1. UNCHANGED <<reminders, outbox, carVersion, plans, notices, willing, dispatches>>
  BY DEF Materialize, EndPlanning, EndScan, ReminderCrash, PassRule, ReadPlan, planVars, sendVars
<1>2. carVersion \in 1..MaxCarVersion /\ dispatches \in SUBSET Reminder
  BY <1>0 DEF ReminderTypeOK
<1>3. \E t : T(t)
  <2>1. CASE EndPlanning(w) \/ EndScan(w) \/ ReminderCrash(w)
    BY <2>1, RestTask DEF EndPlanning, EndScan, ReminderCrash, Rests
  <2>2. CASE Materialize(w)
    <3>1. [step |-> "PLANNING", source |-> carVersion, left |-> Rule] \in ReminderTask
      BY <1>2 DEF ReminderTask
    <3> QED BY <2>2, <3>1 DEF Materialize
  <2>3. CASE \E r \in Rule : PassRule(w, r)
    <3>1. PICK r \in Rule : PassRule(w, r)
      BY <2>3
    <3> DEFINE t == [reminding[w] EXCEPT !.left = @ \ {r}]
    <3>2. Minds(w, t) /\ reminding[w].step = "PLANNING"
      BY <3>1 DEF PassRule, DoesNow
    <3>3. reminding[w] \in [step: {"PLANNING"}, source: 1..MaxCarVersion, left: SUBSET Rule]
      BY <1>0, <3>2 DEF ReminderTask
    <3>4. t \in [step: {"PLANNING"}, source: 1..MaxCarVersion, left: SUBSET Rule]
      BY <3>3
    <3>5. t \in ReminderTask /\ t.step = "PLANNING"
      BY <3>4 DEF ReminderTask
    <3> QED BY <3>2, <3>5
  <2>4. CASE \E r \in Rule : ReadPlan(w, r)
    <3>1. PICK r \in Rule : ReadPlan(w, r)
      BY <2>4
    <3> DEFINE t == [step |-> "PLANNED", source |-> reminding[w].source,
                     left |-> reminding[w].left \ {r}, rule |-> r, seen |-> plans[r]]
    <3>2. Minds(w, t) /\ reminding[w].step = "PLANNING"
      BY <3>1 DEF ReadPlan, DoesNow
    <3>3. /\ reminding[w].left \in SUBSET Rule /\ reminding[w].source \in 1..MaxCarVersion
          /\ plans[r] \in PlanRow \cup {NoPlan}
      BY <1>0, <3>2, ReminderTaskFields DEF ReminderTypeOK
    <3>4. t \in ReminderTask
      BY <3>3 DEF ReminderTask
    <3> QED BY <3>2, <3>4
  <2> QED BY <2>1, <2>2, <2>3, <2>4
<1>4. PICK t : T(t)
  BY <1>3
<1> QED BY <1>1, <1>2, <1>4, IdleStep

(* The scan and the arrivals read; a job that cannot be claimed is dropped.  *)
LEMMA ReadingStep ==
    ASSUME ReminderInv, NEW w \in Reminding,
           \/ ScanDue(w) \/ enqueueDispatch(w) \/ ReadArrivals(w)
           \/ \E i \in Reminder : deliveryPolicy(w, i)
    PROVE  ReminderInv' /\ \A i \in Reminder : HandedOver(i) => HandedOver(i)'
<1>0. /\ ReminderTypeOK /\ reminding[w] \in ReminderTask
      /\ carVersion \in 1..MaxCarVersion /\ dispatches \in SUBSET Reminder
  BY DEF ReminderInv, ReminderTypeOK
<1>1. /\ UNCHANGED <<reminders, outbox, carVersion, plans, notices, willing>>
      /\ ~enqueueDispatch(w) => dispatches' = dispatches
  BY DEF ScanDue, enqueueDispatch, ReadArrivals, deliveryPolicy, planVars, sendVars
<1>2. CASE ScanDue(w)
  <2>1. PICK found \in SUBSET Reminder : Minds(w, [step |-> "SCANNED", left |-> found])
    BY <1>2 DEF ScanDue
  <2>2. [step |-> "SCANNED", left |-> found] \in ReminderTask
    BY DEF ReminderTask
  <2>3. dispatches' = dispatches
    BY <1>2 DEF ScanDue, sendVars
  <2> QED BY <1>0, <1>1, <2>1, <2>2, <2>3, IdleStep
<1>3. CASE enqueueDispatch(w)
  <2>1. reminding[w].left \in SUBSET Reminder /\ reminding[w].of \in Reminder
    BY <1>0, <1>3, ReminderTaskFields DEF enqueueDispatch, DoesNow
  <2>2. [step |-> "SCANNED", left |-> reminding[w].left] \in ReminderTask
    BY <2>1 DEF ReminderTask
  <2>3. Minds(w, [step |-> "SCANNED", left |-> reminding[w].left]) /\ dispatches' \in SUBSET Reminder
    BY <1>0, <1>3, <2>1 DEF enqueueDispatch
  <2> QED BY <1>0, <1>1, <2>2, <2>3, IdleStep
<1>4. CASE ReadArrivals(w)
  <2> DEFINE found == {i \in Reminder : /\ reminders[i].status = "SENT" /\ outbox[i].status = "SENT"
                                        /\ notices[i].status = "DELIVERED"}
  <2>1. Minds(w, [step |-> "RECONCILING", left |-> found]) /\ dispatches' = dispatches
    BY <1>4 DEF ReadArrivals, sendVars
  <2>2. [step |-> "RECONCILING", left |-> found] \in ReminderTask
    BY DEF ReminderTask
  <2> QED BY <1>0, <1>1, <2>1, <2>2, IdleStep
<1>5. CASE \E i \in Reminder : deliveryPolicy(w, i)
  <2>1. PICK i \in Reminder : deliveryPolicy(w, i)
    BY <1>5
  <2> DEFINE t == [step |-> "JUDGED", left |-> reminding[w].left \ {i}, of |-> i, allowed |-> willing]
  <2>2. reminding[w].left \in SUBSET Reminder /\ willing \in BOOLEAN
    BY <1>0, <2>1, ReminderTaskFields DEF deliveryPolicy, DoesNow, ReminderTypeOK
  <2>3. t \in ReminderTask
    BY <2>2, <2>1 DEF ReminderTask
  <2>4. Minds(w, t) /\ dispatches' = dispatches
    BY <2>1 DEF deliveryPolicy, sendVars
  <2> QED BY <1>0, <1>1, <2>3, <2>4, IdleStep
<1> QED BY <1>2, <1>3, <1>4, <1>5

(* The car, the customer and the provider change beside the workers.         *)
LEMMA BesideStep ==
    ASSUME ReminderInv,
           \/ CorrectVehicle \/ ChangeMind
           \/ \E i \in Reminder : NoticeArrives(i)
           \/ \E w \in Reminding, i \in Reminder : SkipDispatch(w, i)
           \/ UNCHANGED reminderVars
    PROVE  ReminderInv' /\ \A i \in Reminder : HandedOver(i) => HandedOver(i)'
<1>1. UNCHANGED <<reminders, outbox, reminding>>
  BY DEF CorrectVehicle, ChangeMind, NoticeArrives, SkipDispatch, reminderVars, planVars, sendVars
<1>2. ReminderTypeOK'
  <2>1. CASE CorrectVehicle
    BY <2>1, ReminderAssumption DEF CorrectVehicle, ReminderInv, ReminderTypeOK, sendVars
  <2>2. CASE ChangeMind
    BY <2>2 DEF ChangeMind, ReminderInv, ReminderTypeOK, planVars, sendVars
  <2>3. CASE \E i \in Reminder : NoticeArrives(i)
    BY <2>3 DEF NoticeArrives, ReminderInv, ReminderTypeOK, planVars
  <2>4. CASE \E w \in Reminding, i \in Reminder : SkipDispatch(w, i)
    BY <2>4 DEF SkipDispatch, ReminderInv, ReminderTypeOK, planVars
  <2>5. CASE UNCHANGED reminderVars
    BY <2>5 DEF reminderVars, ReminderInv, ReminderTypeOK
  <2> QED BY <2>1, <2>2, <2>3, <2>4, <2>5
<1> QED BY <1>1, <1>2, QuietStep DEF Holds

LEMMA HandOverStep ==
    ASSUME ReminderInv, NEW w \in Reminding, HandOver(w)
    PROVE  ReminderInv' /\ \A i \in Reminder : HandedOver(i) => HandedOver(i)'
<1>0. ReminderTypeOK /\ reminding[w] \in ReminderTask /\ reminding[w].step = "CLAIMED"
  BY DEF ReminderInv, ReminderTypeOK, HandOver, DoesNow
<1>1. reminding[w].of \in Reminder /\ reminding[w].moved \in BOOLEAN
  BY <1>0 DEF ReminderTask
<1>2. PICK s \in {"HANDED", "REFUSED"} : Minds(w, [step |-> s, of |-> reminding[w].of])
  BY DEF HandOver
<1> DEFINE t == [step |-> s, of |-> reminding[w].of]
<1>3. t \in ReminderTask
  BY <1>1 DEF ReminderTask
<1>4. /\ reminding' \in [Reminding -> ReminderTask]
      /\ reminding'[w] = t
      /\ \A v \in Reminding : v # w => reminding'[v] = reminding[v]
  BY <1>0, <1>2, <1>3, Turned
<1>5. notices' \in [Reminder -> [status: {"NONE", "QUEUED", "DELIVERED", "READ"}, moved: BOOLEAN]]
  BY <1>0, <1>1 DEF HandOver, ReminderTypeOK
<1>6. UNCHANGED <<reminders, outbox, carVersion, plans, dispatches, willing>>
  BY DEF HandOver, planVars
<1>7. ReminderTypeOK'
  BY <1>0, <1>4, <1>5, <1>6 DEF ReminderTypeOK
<1>8. \A v \in Reminding : Holds(v)' => Holds(v) /\ reminding'[v].of = reminding[v].of
  BY <1>0, <1>4 DEF Holds
<1>9. \A v \in Reminding : reminding'[v].step = "RECONCILING" =>
          \/ reminding'[v] = reminding[v]
          \/ \A i \in reminding'[v].left : outbox[i].status = "SENT"
  BY <1>4
<1> QED BY <1>6, <1>7, <1>8, <1>9, QuietStep

-----------------------------------------------------------------------------
(* Steps that write reminders: none takes back what was handed over, and     *)
(* whoever holds a row holds it still.                                       *)
LEMMA WritingStep ==
    ASSUME ReminderInv, ReminderTypeOK', outbox' = outbox,
           \A i \in Reminder : HandedOver(i) <=> HandedOver(i)',
           \A i \in Reminder : reminders[i] # NoReminder => reminders'[i] # NoReminder,
           \A w \in Reminding : Holds(w)' => Holds(w) /\ reminding'[w].of = reminding[w].of,
           \A w \in Reminding : reminding'[w].step = "RECONCILING" => reminding'[w] = reminding[w]
    PROVE  ReminderInv' /\ \A i \in Reminder : HandedOver(i) => HandedOver(i)'
<1>1. HoldersAlone'
  BY DEF ReminderInv, HoldersAlone, Holds
<1>2. RowsBehind'
  BY DEF ReminderInv, RowsBehind
<1>3. ArrivalsSent'
  BY DEF ReminderInv, ArrivalsSent
<1> QED BY <1>1, <1>2, <1>3 DEF ReminderInv

LEMMA DueRow ==
    ASSUME NEW x \in ReminderRow
    PROVE  /\ [x EXCEPT !.due = TRUE] \in ReminderRow
           /\ [x EXCEPT !.due = TRUE].status = x.status
BY DEF ReminderRow

LEMMA ClockStep ==
    ASSUME ReminderInv, NEW i \in Reminder, DueComes(i) \/ Reschedule(i)
    PROVE  ReminderInv' /\ \A j \in Reminder : HandedOver(j) => HandedOver(j)'
<1>0. ReminderTypeOK /\ UNCHANGED <<carVersion, plans, outbox, notices, dispatches, willing, reminding>>
  BY DEF ReminderInv, DueComes, Reschedule, planVars, sendVars
<1>1. PICK row \in ReminderRow : row.status = "SCHEDULED" /\ reminders' = [reminders EXCEPT ![i] = row]
  <2>1. CASE DueComes(i)
    <3>1. reminders[i] \in ReminderRow /\ reminders[i].status = "SCHEDULED"
      BY <1>0, <2>1 DEF DueComes, ReminderTypeOK, NoReminder
    <3>2. reminders' = [reminders EXCEPT ![i] = [reminders[i] EXCEPT !.due = TRUE]]
      BY <2>1, <1>0 DEF DueComes, ReminderTypeOK
    <3> QED BY <3>1, <3>2, DueRow
  <2>2. CASE Reschedule(i)
    <3>1. PICK d \in BOOLEAN :
            reminders' = [reminders EXCEPT ![i] = [status |-> "SCHEDULED", due |-> d, moved |-> TRUE]]
      BY <2>2 DEF Reschedule
    <3>2. [status |-> "SCHEDULED", due |-> d, moved |-> TRUE] \in ReminderRow
      BY DEF ReminderRow
    <3> QED BY <3>1, <3>2
  <2> QED BY <2>1, <2>2
<1>3. /\ reminders' \in [Reminder -> ReminderRow \cup {NoReminder}]
      /\ reminders'[i] = row
      /\ \A j \in Reminder : j # i => reminders'[j] = reminders[j]
  BY <1>0, <1>1 DEF ReminderTypeOK
<1>4. ReminderTypeOK'
  BY <1>0, <1>3 DEF ReminderTypeOK
<1>5. reminders[i].status \in {"SCHEDULED", "FAILED", "SUPPRESSED"}
  BY DEF DueComes, Reschedule
<1>6. \A j \in Reminder : HandedOver(j) <=> HandedOver(j)'
  BY <1>1, <1>3, <1>5 DEF HandedOver
<1>7. \A j \in Reminder : reminders[j] # NoReminder => reminders'[j] # NoReminder
  BY <1>1, <1>3 DEF NoReminder
<1> QED BY <1>0, <1>4, <1>6, <1>7, WritingStep DEF Holds

LEMMA WithStatus ==
    ASSUME NEW x \in ReminderRow,
           NEW s \in {"SCHEDULED", "QUEUED", "SENT", "DELIVERED", "FAILED", "SUPPRESSED", "CANCELLED"}
    PROVE  /\ [x EXCEPT !.status = s] \in ReminderRow /\ [x EXCEPT !.status = s].status = s
BY DEF ReminderRow

LEMMA RowOrNone == \A x \in ReminderRow : x # NoReminder
BY DEF ReminderRow, NoReminder

LEMMA StatusStep ==
    ASSUME ReminderTypeOK, NEW i \in Reminder, reminders[i] # NoReminder,
           NEW s \in {"SCHEDULED", "QUEUED", "SENT", "DELIVERED", "FAILED", "SUPPRESSED", "CANCELLED"},
           ReminderIs(i, s)
    PROVE  /\ reminders' \in [Reminder -> ReminderRow \cup {NoReminder}]
           /\ reminders'[i].status = s /\ reminders'[i] # NoReminder
           /\ \A j \in Reminder : j # i => reminders'[j] = reminders[j]
<1>1. reminders[i] \in ReminderRow
  BY DEF ReminderTypeOK
<1> DEFINE row == [reminders[i] EXCEPT !.status = s]
<1>2. row \in ReminderRow /\ row.status = s
  BY <1>1, WithStatus
<1>3. reminders' = [reminders EXCEPT ![i] = row]
  BY DEF ReminderIs
<1> HIDE DEF row
<1>4. reminders'[i] = row /\ \A j \in Reminder : j # i => reminders'[j] = reminders[j]
  BY <1>3 DEF ReminderTypeOK
<1>5. reminders' \in [Reminder -> ReminderRow \cup {NoReminder}]
  BY <1>2, <1>3 DEF ReminderTypeOK
<1> QED BY <1>2, <1>4, <1>5, RowOrNone

LEMMA WritePlanStep ==
    ASSUME ReminderInv, NEW w \in Reminding, WritePlan(w)
    PROVE  ReminderInv' /\ \A j \in Reminder : HandedOver(j) => HandedOver(j)'
<1> DEFINE t == reminding[w]
           next == IF Changed(t) THEN t.seen.schedule + 1 ELSE t.seen.schedule
           i == <<t.rule, next>>
           onward == [step |-> "PLANNING", source |-> t.source, left |-> t.left]
           second == t.seen = NoPlan /\ plans[t.rule] # NoPlan
<1>0. /\ ReminderTypeOK /\ t \in ReminderTask /\ t.step = "PLANNED" /\ next <= MaxSchedule
      /\ UNCHANGED <<carVersion, outbox, notices, dispatches, willing>>
  BY DEF ReminderInv, ReminderTypeOK, WritePlan, DoesNow, sendVars
<1>1. /\ t.left \in SUBSET Rule /\ t.source \in 1..MaxCarVersion
      /\ t.rule \in Rule /\ t.seen \in PlanRow \cup {NoPlan}
  BY <1>0, ReminderTaskFields
<1>2. next \in 1..MaxSchedule
  <2>1. CASE t.seen = NoPlan
    BY <1>0, <2>1, ReminderAssumption DEF NoPlan, Changed
  <2>2. CASE t.seen \in PlanRow
    <3>1. t.seen.schedule \in 1..MaxSchedule
      BY <2>2 DEF PlanRow
    <3> QED BY <1>0, <3>1, ReminderAssumption
  <2> QED BY <1>1, <2>1, <2>2
<1>3. onward \in ReminderTask /\ onward.step = "PLANNING"
  BY <1>1 DEF ReminderTask
<1>4. \E u \in ReminderTask : u.step \in {"IDLE", "PLANNING"} /\ Minds(w, u)
  BY <1>3, RestTask DEF WritePlan, Rests
<1>5. /\ reminding' \in [Reminding -> ReminderTask]
      /\ reminding'[w].step \in {"IDLE", "PLANNING"}
      /\ \A v \in Reminding : v # w => reminding'[v] = reminding[v]
  BY <1>0, <1>4, Turned
<1>6. plans' \in [Rule -> PlanRow \cup {NoPlan}]
  <2>1. CASE second
    BY <1>0, <2>1 DEF WritePlan, ReminderTypeOK
  <2>2. CASE ~second
    <3>1. plans' = [plans EXCEPT ![t.rule] = [schedule |-> next, source |-> t.source]]
      BY <2>2 DEF WritePlan
    <3>2. [schedule |-> next, source |-> t.source] \in PlanRow
      BY <1>1, <1>2 DEF PlanRow
    <3> QED BY <1>0, <3>1, <3>2 DEF ReminderTypeOK
  <2> QED BY <2>1, <2>2
<1>7. /\ reminders' \in [Reminder -> ReminderRow \cup {NoReminder}]
      /\ \A j \in Reminder : HandedOver(j) <=> HandedOver(j)'
      /\ \A j \in Reminder : reminders[j] # NoReminder => reminders'[j] # NoReminder
  <2>1. CASE second
    BY <1>0, <2>1 DEF WritePlan, ReminderTypeOK, HandedOver
  <2>2. CASE ~second
    <3>1. PICK dated, due \in BOOLEAN :
            reminders' =
               [j \in Reminder |->
                  IF j \in Superseded(t)
                  THEN [reminders[j] EXCEPT !.status = "CANCELLED"]
                  ELSE IF j = i /\ dated /\ reminders[i] = NoReminder
                       THEN [status |-> "SCHEDULED", due |-> due, moved |-> FALSE]
                       ELSE reminders[j]]
      BY <2>2 DEF WritePlan
    <3>2. \A j \in Reminder : j \in Superseded(t) => reminders[j] \in ReminderRow /\ reminders[j].status = "SCHEDULED"
      BY <1>0 DEF Superseded, ReminderTypeOK, NoReminder
    <3>3. [status |-> "SCHEDULED", due |-> due, moved |-> FALSE] \in ReminderRow
      BY DEF ReminderRow
    <3>4. ASSUME NEW j \in Reminder
          PROVE  /\ reminders'[j] \in ReminderRow \cup {NoReminder}
                 /\ reminders[j] # NoReminder => reminders'[j] # NoReminder
                 /\ reminders'[j] = reminders[j] \/ (~HandedOver(j) /\ ~HandedOver(j)')
      <4>1. CASE j \in Superseded(t)
        <5> DEFINE row == [reminders[j] EXCEPT !.status = "CANCELLED"]
        <5>1. row \in ReminderRow /\ row.status = "CANCELLED"
          BY <3>2, <4>1, WithStatus
        <5>2. reminders'[j] = row
          BY <3>1, <4>1
        <5> HIDE DEF row
        <5> QED BY <3>2, <4>1, <5>1, <5>2, RowOrNone DEF HandedOver
      <4>2. CASE j \notin Superseded(t) /\ (j = i /\ dated /\ reminders[i] = NoReminder)
        <5>1. reminders'[j] = [status |-> "SCHEDULED", due |-> due, moved |-> FALSE]
          BY <3>1, <4>2
        <5> QED BY <3>3, <4>2, <5>1 DEF HandedOver, NoReminder
      <4>3. CASE j \notin Superseded(t) /\ ~(j = i /\ dated /\ reminders[i] = NoReminder)
        <5>1. reminders'[j] = reminders[j]
          BY <3>1, <4>3
        <5> QED BY <1>0, <5>1 DEF ReminderTypeOK
      <4> QED BY <4>1, <4>2, <4>3
    <3>5. reminders' \in [Reminder -> ReminderRow \cup {NoReminder}]
      BY <3>1, <3>4
    <3> QED BY <3>4, <3>5 DEF HandedOver
  <2> QED BY <2>1, <2>2
<1>8. ReminderTypeOK'
  BY <1>0, <1>5, <1>6, <1>7 DEF ReminderTypeOK
<1>9. /\ \A v \in Reminding : Holds(v)' => Holds(v) /\ reminding'[v].of = reminding[v].of
      /\ \A v \in Reminding : reminding'[v].step = "RECONCILING" => reminding'[v] = reminding[v]
  BY <1>5 DEF Holds
<1> QED BY <1>0, <1>7, <1>8, <1>9, WritingStep

LEMMA QueueStep ==
    ASSUME ReminderInv, NEW w \in Reminding, QueueReminder(w)
    PROVE  ReminderInv' /\ \A j \in Reminder : HandedOver(j) => HandedOver(j)'
<1> DEFINE t == reminding[w]
           onward == [step |-> "SCANNED", left |-> t.left]
           queued == [step |-> "QUEUED", left |-> t.left, of |-> t.of]
           fresh == [status |-> "PENDING", attempts |-> 0]
<1>0. /\ ReminderTypeOK /\ t \in ReminderTask /\ t.step = "JUDGED"
      /\ UNCHANGED <<carVersion, plans, notices, dispatches, willing>>
  BY DEF ReminderInv, ReminderTypeOK, QueueReminder, DoesNow, planVars
<1>1. t.left \in SUBSET Reminder /\ t.of \in Reminder
  BY <1>0, ReminderTaskFields
<1>2. onward \in ReminderTask /\ queued \in ReminderTask
  BY <1>1 DEF ReminderTask
<1>3. \E u \in ReminderTask : u.step \in {"SCANNED", "QUEUED"} /\ Minds(w, u)
  BY <1>2 DEF QueueReminder
<1>4. /\ reminding' \in [Reminding -> ReminderTask]
      /\ reminding'[w].step \in {"SCANNED", "QUEUED"}
      /\ \A v \in Reminding : v # w => reminding'[v] = reminding[v]
  BY <1>0, <1>3, Turned
<1>5. /\ \A v \in Reminding : Holds(v)' => Holds(v) /\ reminding'[v] = reminding[v]
      /\ \A v \in Reminding : reminding'[v].step = "RECONCILING" => reminding'[v] = reminding[v]
  BY <1>4 DEF Holds
<1>6. CASE reminders' = reminders /\ outbox' = outbox
  <2>1. ReminderTypeOK'
    BY <1>0, <1>4, <1>6 DEF ReminderTypeOK
  <2> QED BY <1>5, <1>6, <2>1, QuietStep
<1>7. CASE /\ reminders[t.of].status = "SCHEDULED"
           /\ \E s \in {"SUPPRESSED", "QUEUED"} : ReminderIs(t.of, s)
           /\ \/ outbox' = outbox
              \/ outbox[t.of] = NoOutbox /\ outbox' = [outbox EXCEPT ![t.of] = fresh]
  <2>1. reminders[t.of] # NoReminder
    BY <1>7 DEF NoReminder
  <2>2. /\ reminders' \in [Reminder -> ReminderRow \cup {NoReminder}]
        /\ reminders'[t.of].status \in {"SUPPRESSED", "QUEUED"} /\ reminders'[t.of] # NoReminder
        /\ \A j \in Reminder : j # t.of => reminders'[j] = reminders[j]
    BY <1>0, <1>1, <1>7, <2>1, StatusStep
  <2>3. /\ \A j \in Reminder : HandedOver(j) <=> HandedOver(j)'
        /\ \A j \in Reminder : reminders[j] # NoReminder => reminders'[j] # NoReminder
    BY <1>7, <2>2 DEF HandedOver
  <2>4. fresh \in OutboxRow
    BY ReminderAssumption DEF OutboxRow
  <2>5. /\ outbox' \in [Reminder -> OutboxRow \cup {NoOutbox}]
        /\ \A j \in Reminder : j # t.of => outbox'[j] = outbox[j]
        /\ outbox'[t.of] = outbox[t.of] \/ outbox[t.of] = NoOutbox
    BY <1>0, <1>1, <1>7, <2>4 DEF ReminderTypeOK
  <2>6. ReminderTypeOK'
    BY <1>0, <1>4, <2>2, <2>5 DEF ReminderTypeOK
  <2>7. \A j \in Reminder : outbox[j].status \in {"PROCESSING", "SENT"} => outbox'[j] = outbox[j]
    BY <2>5 DEF NoOutbox
  <2>8. HoldersAlone'
    <3>1. \A v \in Reminding : Holds(v) => reminding[v].of \in Reminder
      BY <1>0, ReminderTaskFields DEF Holds, ReminderTypeOK
    <3>2. \A v \in Reminding : Holds(v)' => outbox'[reminding'[v].of].status = "PROCESSING"
      BY <1>5, <2>7, <3>1 DEF ReminderInv, HoldersAlone
    <3>3. \A u, v \in Reminding : Holds(u)' /\ Holds(v)' /\ reminding'[u].of = reminding'[v].of => u = v
      BY <1>5 DEF ReminderInv, HoldersAlone
    <3> QED BY <3>2, <3>3 DEF HoldersAlone, Holds
  <2>9. RowsBehind'
    BY <2>1, <2>2, <2>3, <2>5, <2>7 DEF ReminderInv, RowsBehind
  <2>10. ArrivalsSent'
    <3>1. \A v \in Reminding : reminding[v].step = "RECONCILING" => reminding[v].left \in SUBSET Reminder
      BY <1>0, ReminderTaskFields DEF ReminderTypeOK
    <3> QED BY <1>5, <2>7, <3>1 DEF ReminderInv, ArrivalsSent
  <2> QED BY <2>3, <2>6, <2>8, <2>9, <2>10 DEF ReminderInv
<1> QED BY <1>6, <1>7 DEF QueueReminder

(* Only the worker that claims a row comes to hold it.                       *)
LEMMA ClaimStep ==
    ASSUME ReminderInv, NEW w \in Reminding, NEW i \in Reminder, ClaimDispatch(w, i)
    PROVE  ReminderInv' /\ \A j \in Reminder : HandedOver(j) => HandedOver(j)'
<1> DEFINE row == [status |-> "PROCESSING", attempts |-> outbox[i].attempts + 1]
           t == [step |-> "CLAIMED", of |-> i, moved |-> reminders[i].moved]
<1>0. /\ ReminderTypeOK /\ outbox[i].status \in {"PENDING", "FAILED"}
      /\ outbox[i].attempts < MaxDispatches /\ Minds(w, t)
      /\ outbox' = [outbox EXCEPT ![i] = row]
      /\ UNCHANGED <<carVersion, plans, reminders, notices, dispatches, willing>>
  BY DEF ReminderInv, ReminderTypeOK, ClaimDispatch, Dispatchable, planVars
<1>1. outbox[i] \in OutboxRow /\ outbox[i] # NoOutbox
  BY <1>0 DEF ReminderTypeOK, NoOutbox
<1>2. row \in OutboxRow /\ row.status = "PROCESSING"
  <2>1. outbox[i].attempts \in 0..MaxDispatches
    BY <1>1 DEF OutboxRow
  <2>2. outbox[i].attempts + 1 \in 0..MaxDispatches
    BY <1>0, <2>1, ReminderAssumption
  <2> QED BY <2>2 DEF OutboxRow
<1>3. reminders[i] \in ReminderRow
  BY <1>0, <1>1 DEF ReminderInv, RowsBehind, ReminderTypeOK
<1>4. t \in ReminderTask
  <2>1. reminders[i].moved \in BOOLEAN
    BY <1>3 DEF ReminderRow
  <2> QED BY <2>1 DEF ReminderTask
<1> HIDE DEF row
<1>5. /\ reminding' \in [Reminding -> ReminderTask]
      /\ reminding'[w] = t
      /\ \A v \in Reminding : v # w => reminding'[v] = reminding[v]
  BY <1>0, <1>4, Turned
<1>6. /\ outbox' \in [Reminder -> OutboxRow \cup {NoOutbox}]
      /\ outbox'[i] = row
      /\ \A j \in Reminder : j # i => outbox'[j] = outbox[j]
  BY <1>0, <1>2 DEF ReminderTypeOK
<1>7. ReminderTypeOK'
  BY <1>0, <1>5, <1>6 DEF ReminderTypeOK
<1>8. \A v \in Reminding : Holds(v) => reminding[v].of \in Reminder /\ reminding[v].of # i
  <2>1. \A v \in Reminding : Holds(v) => reminding[v].of \in Reminder
    BY <1>0, ReminderTaskFields DEF Holds, ReminderTypeOK
  <2> QED BY <1>0, <2>1 DEF ReminderInv, HoldersAlone
<1>9. HoldersAlone'
  <2>1. \A v \in Reminding : Holds(v)' => outbox'[reminding'[v].of].status = "PROCESSING"
    BY <1>2, <1>5, <1>6, <1>8 DEF ReminderInv, HoldersAlone, Holds
  <2>2. \A u, v \in Reminding : Holds(u)' /\ Holds(v)' /\ reminding'[u].of = reminding'[v].of => u = v
    BY <1>5, <1>8 DEF ReminderInv, HoldersAlone, Holds
  <2> QED BY <2>1, <2>2 DEF HoldersAlone, Holds
<1>10. RowsBehind'
  <2>1. \A j \in Reminder : outbox'[j] # NoOutbox => outbox[j] # NoOutbox
    BY <1>1, <1>6
  <2>2. \A j \in Reminder : outbox[j].status = "SENT" => outbox'[j] = outbox[j]
    BY <1>0, <1>6
  <2> QED BY <1>0, <2>1, <2>2 DEF ReminderInv, RowsBehind, HandedOver
<1>11. ArrivalsSent'
  <2>1. \A v \in Reminding : reminding[v].step = "RECONCILING" => reminding[v].left \in SUBSET Reminder
    BY <1>0, ReminderTaskFields DEF ReminderTypeOK
  <2>2. \A v \in Reminding : reminding'[v].step = "RECONCILING" => reminding'[v] = reminding[v]
    BY <1>5
  <2> QED BY <1>0, <1>6, <2>1, <2>2 DEF ReminderInv, ArrivalsSent
<1> QED BY <1>0, <1>7, <1>9, <1>10, <1>11 DEF ReminderInv, HandedOver

(* Whoever settles a row held it, alone, so that it was not handed over.     *)
LEMMA SettleStep ==
    ASSUME ReminderInv, NEW w \in Reminding, DispatchSent(w) \/ DispatchFailed(w)
    PROVE  ReminderInv' /\ \A j \in Reminder : HandedOver(j) => HandedOver(j)'
<1> DEFINE i == reminding[w].of
<1>0. /\ ReminderTypeOK /\ Holds(w) /\ reminding[w] \in ReminderTask /\ i \in Reminder
      /\ Rests(w) /\ dispatches' \in SUBSET Reminder
      /\ UNCHANGED <<carVersion, plans, notices, willing>>
  <2>1. ReminderTypeOK /\ Holds(w) /\ reminding[w] \in ReminderTask
    BY DEF ReminderInv, ReminderTypeOK, DispatchSent, DispatchFailed, DoesNow, Holds
  <2>2. i \in Reminder
    BY <2>1, ReminderTaskFields DEF Holds
  <2>3. dispatches' \in SUBSET Reminder
    BY <2>1 DEF DispatchSent, DispatchFailed, ReminderTypeOK
  <2> QED BY <2>1, <2>2, <2>3 DEF DispatchSent, DispatchFailed, planVars
<1>1. /\ outbox[i].status = "PROCESSING" /\ outbox[i] \in OutboxRow /\ outbox[i] # NoOutbox
      /\ reminders[i] # NoReminder /\ ~HandedOver(i)
  <2>1. outbox[i].status = "PROCESSING"
    BY <1>0 DEF ReminderInv, HoldersAlone
  <2> QED BY <1>0, <2>1 DEF ReminderInv, RowsBehind, ReminderTypeOK, NoOutbox
<1>2. PICK s \in {"SENT", "DEAD_LETTER", "FAILED"} : 
          /\ outbox' = [outbox EXCEPT ![i].status = s]
          /\ ReminderIs(i, IF s = "SENT" THEN "SENT" ELSE "FAILED")
  BY DEF DispatchSent, DispatchFailed
<1> DEFINE row == [outbox[i] EXCEPT !.status = s]
<1>3. row \in OutboxRow /\ row.status = s
  BY <1>1 DEF OutboxRow
<1>4. outbox' = [outbox EXCEPT ![i] = row]
  BY <1>2
<1> HIDE DEF row
<1>5. /\ outbox' \in [Reminder -> OutboxRow \cup {NoOutbox}]
      /\ outbox'[i] = row
      /\ \A j \in Reminder : j # i => outbox'[j] = outbox[j]
  BY <1>0, <1>3, <1>4 DEF ReminderTypeOK
<1>6. /\ reminders' \in [Reminder -> ReminderRow \cup {NoReminder}]
      /\ reminders'[i].status = (IF s = "SENT" THEN "SENT" ELSE "FAILED") /\ reminders'[i] # NoReminder
      /\ \A j \in Reminder : j # i => reminders'[j] = reminders[j]
  BY <1>0, <1>1, <1>2, StatusStep
<1>7. /\ reminding' \in [Reminding -> ReminderTask]
      /\ reminding'[w] = [step |-> "IDLE"]
      /\ \A v \in Reminding : v # w => reminding'[v] = reminding[v]
  BY <1>0, RestTask, Turned DEF Rests
<1>8. ReminderTypeOK'
  BY <1>0, <1>5, <1>6, <1>7 DEF ReminderTypeOK
<1>9. \A v \in Reminding : Holds(v)' =>
          Holds(v) /\ reminding'[v] = reminding[v] /\ reminding[v].of \in Reminder /\ reminding[v].of # i
  <2>1. \A v \in Reminding : Holds(v) => reminding[v].of \in Reminder
    BY <1>0, ReminderTaskFields DEF Holds, ReminderTypeOK
  <2> QED BY <1>0, <1>7, <2>1 DEF ReminderInv, HoldersAlone, Holds
<1>10. HoldersAlone'
  <2>1. \A v \in Reminding : Holds(v)' => outbox'[reminding'[v].of].status = "PROCESSING"
    BY <1>5, <1>9 DEF ReminderInv, HoldersAlone
  <2>2. \A u, v \in Reminding : Holds(u)' /\ Holds(v)' /\ reminding'[u].of = reminding'[v].of => u = v
    BY <1>9 DEF ReminderInv, HoldersAlone
  <2> QED BY <2>1, <2>2 DEF HoldersAlone, Holds
<1>11. RowsBehind'
  <2>1. \A j \in Reminder : outbox'[j] # NoOutbox => reminders'[j] # NoReminder
    BY <1>5, <1>6 DEF ReminderInv, RowsBehind
  <2>2. \A j \in Reminder : HandedOver(j)' => outbox'[j].status = "SENT"
    BY <1>3, <1>5, <1>6 DEF ReminderInv, RowsBehind, HandedOver
  <2> QED BY <2>1, <2>2 DEF RowsBehind
<1>12. ArrivalsSent'
  <2>1. \A v \in Reminding : reminding[v].step = "RECONCILING" => reminding[v].left \in SUBSET Reminder
    BY <1>0, ReminderTaskFields DEF ReminderTypeOK
  <2>2. \A v \in Reminding : reminding'[v].step = "RECONCILING" => reminding'[v] = reminding[v]
    BY <1>7
  <2> QED BY <1>1, <1>5, <2>1, <2>2 DEF ReminderInv, ArrivalsSent
<1> QED BY <1>1, <1>6, <1>8, <1>10, <1>11, <1>12 DEF ReminderInv, HandedOver

LEMMA ArrivalStep ==
    ASSUME ReminderInv, NEW w \in Reminding, NEW i \in Reminder, WriteArrival(w, i)
    PROVE  ReminderInv' /\ \A j \in Reminder : HandedOver(j) => HandedOver(j)'
<1> DEFINE t == [reminding[w] EXCEPT !.left = @ \ {i}]
<1>0. /\ ReminderTypeOK /\ reminding[w] \in ReminderTask /\ reminding[w].step = "RECONCILING"
      /\ i \in reminding[w].left /\ ReminderIs(i, "DELIVERED")
      /\ UNCHANGED <<carVersion, plans, outbox, notices, dispatches, willing>>
  BY DEF ReminderInv, ReminderTypeOK, WriteArrival, DoesNow, planVars, sendVars
<1>1. outbox[i].status = "SENT" /\ reminders[i] # NoReminder
  BY <1>0 DEF ReminderInv, ArrivalsSent, RowsBehind, NoOutbox
<1>2. /\ reminders' \in [Reminder -> ReminderRow \cup {NoReminder}]
      /\ reminders'[i].status = "DELIVERED" /\ reminders'[i] # NoReminder
      /\ \A j \in Reminder : j # i => reminders'[j] = reminders[j]
  BY <1>0, <1>1, StatusStep
<1>3. /\ t \in ReminderTask /\ t.step = "RECONCILING"
      /\ \A j \in t.left : j \in reminding[w].left
  <2>1. reminding[w] \in [step: {"RECONCILING"}, left: SUBSET Reminder]
    BY <1>0 DEF ReminderTask
  <2>2. t \in [step: {"RECONCILING"}, left: SUBSET Reminder]
    BY <2>1
  <2>3. t.left = reminding[w].left \ {i}
    BY <2>1
  <2> QED BY <2>2, <2>3 DEF ReminderTask
<1> HIDE DEF t
<1>4. Minds(w, t) \/ Minds(w, [step |-> "IDLE"])
  BY DEF WriteArrival, Rests, t
<1>5. /\ reminding' \in [Reminding -> ReminderTask]
      /\ reminding'[w] = t \/ reminding'[w] = [step |-> "IDLE"]
      /\ \A v \in Reminding : v # w => reminding'[v] = reminding[v]
  BY <1>0, <1>3, <1>4, RestTask, Turned
<1>6. ReminderTypeOK'
  BY <1>0, <1>2, <1>5 DEF ReminderTypeOK
<1>7. HoldersAlone'
  BY <1>0, <1>3, <1>5 DEF ReminderInv, HoldersAlone, Holds
<1>8. RowsBehind'
  BY <1>0, <1>1, <1>2 DEF ReminderInv, RowsBehind, HandedOver
<1>9. ArrivalsSent'
  <2>1. ASSUME NEW v \in Reminding, reminding'[v].step = "RECONCILING"
        PROVE  \A j \in reminding'[v].left : outbox[j].status = "SENT"
    <3>1. CASE v # w
      BY <1>5, <2>1, <3>1 DEF ReminderInv, ArrivalsSent
    <3>2. CASE v = w
      BY <1>0, <1>3, <1>5, <2>1, <3>2 DEF ReminderInv, ArrivalsSent
    <3> QED BY <3>1, <3>2
  <2> QED BY <1>0, <2>1 DEF ArrivalsSent
<1> QED BY <1>2, <1>6, <1>7, <1>8, <1>9 DEF ReminderInv, HandedOver

LEMMA ReminderStart == ReminderInit => ReminderInv
<1> SUFFICES ASSUME ReminderInit PROVE ReminderInv
  OBVIOUS
<1>1. ReminderTypeOK
  <2>1. [step |-> "IDLE"] \in ReminderTask
    BY RestTask
  <2> QED BY <2>1, ReminderAssumption DEF ReminderInit, ReminderTypeOK
<1> QED BY <1>1 DEF ReminderInit, ReminderInv, HoldersAlone, RowsBehind, ArrivalsSent, Holds,
                    HandedOver, NoReminder

LEMMA ReminderStep ==
    ASSUME ReminderInv, [ReminderNext]_reminderVars
    PROVE  ReminderInv' /\ \A j \in Reminder : HandedOver(j) => HandedOver(j)'
<1>1. CASE \/ CorrectVehicle \/ ChangeMind \/ UNCHANGED reminderVars
           \/ \E i \in Reminder : NoticeArrives(i)
  BY <1>1, BesideStep
<1>2. CASE \E i \in Reminder : DueComes(i) \/ Reschedule(i)
  BY <1>2, ClockStep
<1>3. ASSUME NEW w \in Reminding, Planning(w) \/ ReminderCrash(w)
      PROVE  ReminderInv' /\ \A j \in Reminder : HandedOver(j) => HandedOver(j)'
  BY <1>3, PlanningStep, WritePlanStep DEF Planning
<1>4. ASSUME NEW w \in Reminding, Queueing(w)
      PROVE  ReminderInv' /\ \A j \in Reminder : HandedOver(j) => HandedOver(j)'
  BY <1>4, PlanningStep, ReadingStep, QueueStep DEF Queueing
<1>5. ASSUME NEW w \in Reminding, Dispatching(w)
      PROVE  ReminderInv' /\ \A j \in Reminder : HandedOver(j) => HandedOver(j)'
  <2>1. CASE HandOver(w) \/ ReadArrivals(w)
    BY <2>1, HandOverStep, ReadingStep
  <2>2. CASE DispatchSent(w) \/ DispatchFailed(w)
    BY <2>2, SettleStep
  <2>3. CASE \E i \in Reminder : ClaimDispatch(w, i) \/ WriteArrival(w, i)
    BY <2>3, ClaimStep, ArrivalStep
  <2>4. CASE \E i \in Reminder : SkipDispatch(w, i)
    BY <2>4, BesideStep
  <2> QED BY <1>5, <2>1, <2>2, <2>3, <2>4 DEF Dispatching
<1> QED BY <1>1, <1>2, <1>3, <1>4, <1>5 DEF ReminderNext

-----------------------------------------------------------------------------
(* The vehicle's plans and reminders, their outbox, the notices and what     *)
(* each worker has read keep their types.  (reminders.service.ts)            *)
THEOREM RemindersTyped == ReminderSpec => []ReminderTypeOK
<1>1. ReminderInv /\ [ReminderNext]_reminderVars => ReminderInv'
  BY ReminderStep
<1>2. ReminderInv => ReminderTypeOK
  BY DEF ReminderInv
<1> QED BY <1>1, <1>2, ReminderStart, PTL DEF ReminderSpec

(* A reminder that was handed to messaging stays so, whatever is scanned,    *)
(* retried, rescheduled or planned anew beside it: the conditional update of *)
(* processDispatch lets one worker in, and only once.                        *)
THEOREM HandedStands == ReminderSpec => SentStands
<1>1. ReminderInv /\ [ReminderNext]_reminderVars => ReminderInv'
  BY ReminderStep
<1>2. ReminderInv /\ [ReminderNext]_reminderVars =>
          [\A i \in Reminder : HandedOver(i) => HandedOver(i)']_reminderVars
  BY ReminderStep
<1> QED BY <1>1, <1>2, ReminderStart, PTL DEF ReminderSpec, SentStands

-----------------------------------------------------------------------------
(* Leads, for every set of leads, queues and workers.                        *)
(* What a worker keeps of rows it has read or updated: the version it read   *)
(* tells whether the status is still the one it saw; an updated row stays    *)
(* ahead of the committed one until its transaction ends.                    *)
ReconcileTask ==
    [step: {"RECONCILE"}, todo: [Lead -> SlaState \cup {"NONE"}],
     state: [Lead -> SlaState \cup {"NONE"}], claimed: Or(Lead), moved: SUBSET Lead]
LeadTaskTyped(t) ==
    /\ t.step = "STAFF" => t.lead \in Lead /\ t.seen \in LeadRow
    /\ t.step = "MOVED" => t.lead \in Lead /\ t.row \in LeadRow /\ t.first \in BOOLEAN
    /\ t.step = "ROTATED" =>
           t.choice \in Choice /\ (t.choice.owner # "NONE" => t.choice.queue # "NONE")
    /\ t.step = "RECONCILE" => t \in ReconcileTask

(* The leads a queue has given a member, as the limit counts them.           *)
GivenAs(row, q, m) ==
    row.via = q /\ row.owner = m /\ row.status \in Active /\ ~row.returned
Given(q, m) == {l \in Lead : leads[l] # Nothing /\ GivenAs(leads[l], q, m)}

SeenStands(t) ==
    /\ leads[t.lead] # Nothing
    /\ t.seen.version <= leads[t.lead].version
    /\ t.seen.version = leads[t.lead].version => t.seen.status = leads[t.lead].status
MoveStands(t) ==
    /\ leads[t.lead] # Nothing
    /\ t.row.version > leads[t.lead].version
    /\ t.row.sla = IF t.first THEN "MET" ELSE leads[t.lead].sla
    /\ t.row.acted <=> (t.first \/ leads[t.lead].acted)
    /\ \A q \in Queue, m \in Member : GivenAs(t.row, q, m) => GivenAs(leads[t.lead], q, m)
ClaimsStand(t) ==
    \A l \in Lead :
        /\ t.todo[l] # "NONE" => t.todo[l] \in Watched /\ leads[l] # Nothing
        /\ l \in t.moved \/ l = t.claimed => t.state[l] # "NONE"
        /\ t.state[l] # "NONE" => /\ t.state[l] \in {"WARNING", "BREACHED"}
                                  /\ leads[l] # Nothing /\ timers[l].status \in Watched
ChoiceStands(t) ==
    t.choice.owner # "NONE" => Cardinality(Given(t.choice.queue, t.choice.owner)) < MaxActive
LeadTaskStands(t) ==
    /\ t.step = "STAFF" => SeenStands(t)
    /\ t.step = "MOVED" => MoveStands(t)
    /\ t.step = "RECONCILE" => ClaimsStand(t)
    /\ t.step = "ROTATED" => ChoiceStands(t)

(* Row locks: of a lead, a timer and a queue.                                *)
LeadsApart(s, t) ==
    /\ s.step = "MOVED" /\ t.step = "MOVED" => s.lead # t.lead
    /\ s.step = "MOVED" /\ t.step = "RECONCILE" => s.lead \notin t.moved
    /\ t.step = "MOVED" /\ s.step = "RECONCILE" => t.lead \notin s.moved
    /\ s.step = "RECONCILE" /\ t.step = "RECONCILE" =>
           \A l \in Lead : s.state[l] = "NONE" \/ t.state[l] = "NONE"
    /\ s.step = "ROTATED" /\ t.step = "ROTATED" =>
           s.choice.queue = "NONE" \/ s.choice.queue # t.choice.queue

LeadRowsTyped ==
    /\ leads \in [Lead -> LeadRow \cup {Nothing}]
    /\ timers \in [Lead -> TimerRow \cup {Nothing}]
    /\ \A l \in Lead : leads[l] = Nothing <=> timers[l] = Nothing
    /\ IsFiniteSet({l \in Lead : leads[l] # Nothing})
    /\ leadTasks = [w \in LeadWorker |-> leadTasks[w]]
LeadTasksStand ==
    \A w \in LeadWorker : LeadTaskTyped(leadTasks[w]) /\ LeadTaskStands(leadTasks[w])
LeadLocks ==
    \A v, w \in LeadWorker : v # w => LeadsApart(leadTasks[v], leadTasks[w])
LeadInv ==
    LeadRowsTyped /\ LeadTasksStand /\ LeadLocks /\ DeadlineAgrees /\ RotationRespectsLimit

LEMMA LimitOnGiven ==
    RotationRespectsLimit <=>
        \A q \in Queue, m \in Member : Cardinality(Given(q, m)) <= MaxActive
<1>1. \A q, m : Given(q, m) = {l \in Lead : /\ leads[l] # Nothing
                                  /\ leads[l].via = q /\ leads[l].owner = m
                                  /\ leads[l].status \in Active /\ ~leads[l].returned}
  BY DEF Given, GivenAs
<1> QED BY <1>1 DEF RotationRespectsLimit

LEMMA LeadInit_Inv == ASSUME LeadInit PROVE LeadInv
<1>1. /\ \A l \in Lead : leads[l] = Nothing /\ timers[l] = Nothing
      /\ \A w \in LeadWorker : leadTasks[w].step = "IDLE"
      /\ {l \in Lead : leads[l] # Nothing} = {}
  BY DEF LeadInit, Resting
<1>2. LeadRowsTyped
  BY <1>1, FS_EmptySet DEF LeadRowsTyped, LeadInit
<1>3. LeadTasksStand /\ LeadLocks
  BY <1>1 DEF LeadTasksStand, LeadLocks, LeadTaskTyped, LeadTaskStands, LeadsApart
<1>4. DeadlineAgrees
  BY <1>1 DEF DeadlineAgrees
<1>5. RotationRespectsLimit
  <2>1. \A q \in Queue, m \in Member : Given(q, m) = {}
    BY <1>1 DEF Given
  <2>2. Cardinality({}) = 0 /\ 0 <= MaxActive
    BY FS_EmptySet, LeadsAssumption
  <2>3. \A q \in Queue, m \in Member : Cardinality(Given(q, m)) <= MaxActive
    BY <2>1, <2>2
  <2> QED BY <2>3, LimitOnGiven
<1> QED BY <1>2, <1>3, <1>4, <1>5 DEF LeadInv

(* What a step does to the tasks: w turns to t, the others go on.            *)
LEMMA LeadTurned ==
    ASSUME LeadRowsTyped, NEW w \in LeadWorker, NEW t, Turns(w, t)
    PROVE  /\ leadTasks'[w] = t
           /\ \A v \in LeadWorker \ {w} : leadTasks'[v] = leadTasks[v]
           /\ leadTasks' = [v \in LeadWorker |-> leadTasks'[v]]
<1> DEFINE f == leadTasks
<1>1. f = [v \in LeadWorker |-> f[v]]
  BY DEF LeadRowsTyped
<1> HIDE DEF f
<1>2. LET g == [f EXCEPT ![w] = t] IN
        g[w] = t /\ (\A v \in LeadWorker \ {w} : g[v] = f[v]) /\ g = [v \in LeadWorker |-> g[v]]
  BY <1>1
<1> QED BY <1>2 DEF f, Turns

LEMMA LeadsApartBack ==
    ASSUME NEW s, NEW t, LeadsApart(s, t) PROVE LeadsApart(t, s)
BY DEF LeadsApart

(* A step of w that keeps what the others rely on.                           *)
LEMMA OthersStand ==
    ASSUME LeadInv, NEW w \in LeadWorker, NEW t, Turns(w, t),
           LeadTaskTyped(t), LeadTaskStands(t)',
           \A v \in LeadWorker \ {w} : LeadsApart(t, leadTasks[v]),
           \A v \in LeadWorker \ {w} : LeadTaskStands(leadTasks[v])'
    PROVE  LeadTasksStand' /\ LeadLocks'
                /\ leadTasks' = [v \in LeadWorker |-> leadTasks'[v]]
<1>1. /\ leadTasks'[w] = t
      /\ \A v \in LeadWorker \ {w} : leadTasks'[v] = leadTasks[v]
      /\ leadTasks' = [v \in LeadWorker |-> leadTasks'[v]]
  BY LeadTurned DEF LeadInv
<1>2. LeadTasksStand'
  <2>1. (LeadTaskTyped(leadTasks[w]) /\ LeadTaskStands(leadTasks[w]))'
    BY <1>1
  <2>2. ASSUME NEW v \in LeadWorker \ {w}
        PROVE  (LeadTaskTyped(leadTasks[v]) /\ LeadTaskStands(leadTasks[v]))'
    BY <1>1 DEF LeadInv, LeadTasksStand
  <2> QED BY <2>1, <2>2 DEF LeadTasksStand
<1>3. LeadLocks'
  <2> SUFFICES ASSUME NEW u \in LeadWorker, NEW v \in LeadWorker, u # v
               PROVE  LeadsApart(leadTasks'[u], leadTasks'[v])
    BY DEF LeadLocks
  <2>1. CASE u = w BY <1>1, <2>1
  <2>2. CASE v = w BY <1>1, <2>2, LeadsApartBack
  <2>3. CASE u # w /\ v # w BY <1>1, <2>3 DEF LeadInv, LeadLocks
  <2> QED BY <2>1, <2>2, <2>3
<1> QED BY <1>1, <1>2, <1>3

(* A step that writes no lead and no timer, and one that writes nothing.     *)
LEMMA QuietLeadRows ==
    ASSUME LeadInv, NEW w \in LeadWorker, NEW t, Turns(w, t), UNCHANGED <<leads, timers>>,
           LeadTaskTyped(t), LeadTaskStands(t),
           \A v \in LeadWorker \ {w} : LeadsApart(t, leadTasks[v])
    PROVE  LeadInv'
<1>1. leads' = leads /\ timers' = timers
  OBVIOUS
<1>2. \A x : LeadTaskStands(x) => LeadTaskStands(x)'
  BY <1>1 DEF LeadTaskStands, SeenStands, MoveStands, ClaimsStand, ChoiceStands, Given
<1>3. \A v \in LeadWorker \ {w} : leadTasks'[v] = leadTasks[v]
  BY LeadTurned DEF LeadInv
<1>4. \A v \in LeadWorker \ {w} : LeadTaskStands(leadTasks[v])'
  BY <1>2, <1>3 DEF LeadInv, LeadTasksStand
<1>5. /\ LeadTasksStand' /\ LeadLocks'
      /\ leadTasks' = [v \in LeadWorker |-> leadTasks'[v]]
  BY <1>2, <1>4, OthersStand
<1>6. LeadRowsTyped'
  BY <1>1, <1>5 DEF LeadInv, LeadRowsTyped
<1>7. DeadlineAgrees' /\ RotationRespectsLimit'
  BY <1>1 DEF LeadInv, DeadlineAgrees, RotationRespectsLimit
<1> QED BY <1>5, <1>6, <1>7 DEF LeadInv

LEMMA QuietLeads ==
    ASSUME LeadInv, NEW w \in LeadWorker, NEW t, Turns(w, t), UNCHANGED leadRows,
           LeadTaskTyped(t), LeadTaskStands(t),
           \A v \in LeadWorker \ {w} : LeadsApart(t, leadTasks[v])
    PROVE  LeadInv'
BY QuietLeadRows DEF leadRows

(* A task that holds nothing.                                                *)
Unbound(t) == t.step \notin {"STAFF", "MOVED", "RECONCILE", "ROTATED"}
LEMMA UnboundStands ==
    ASSUME NEW t, Unbound(t)
    PROVE  LeadTaskTyped(t) /\ LeadTaskStands(t) /\ \A s : LeadsApart(t, s)
BY DEF Unbound, LeadTaskTyped, LeadTaskStands, LeadsApart
LEMMA UnboundStep ==
    ASSUME LeadInv, NEW w \in LeadWorker, NEW t, Unbound(t), Turns(w, t), UNCHANGED leadRows
    PROVE  LeadInv'
BY UnboundStands, QuietLeads

-----------------------------------------------------------------------------
LEMMA BeginCaptureKeeps ==
    ASSUME LeadInv, NEW w \in LeadWorker, NEW k \in Key, NEW p \in Phone, NEW e \in Or(Email),
           BeginCapture(w, k, p, e)
    PROVE  LeadInv'
<1>1. PICK t : t.step = "READ" /\ Turns(w, t)
  BY DEF BeginCapture
<1> QED BY <1>1, UnboundStep DEF BeginCapture, Unbound

LEMMA RollBackKeeps ==
    ASSUME LeadInv, NEW w \in LeadWorker, RollBack(w) PROVE LeadInv'
BY UnboundStep DEF RollBack, Unbound, Resting

LEMMA BeginDoubleReviewKeeps ==
    ASSUME LeadInv, NEW w \in LeadWorker, NEW l \in Lead, BeginDoubleReview(w, l)
    PROVE  LeadInv'
<1>1. PICK t : t.step = "REVIEW" /\ Turns(w, t)
  BY DEF BeginDoubleReview
<1> QED BY <1>1, UnboundStep DEF BeginDoubleReview, Unbound

(* roundRobin chooses a member of the queue with room, where nobody else     *)
(* has a choice from that queue.                                             *)
LEMMA RoundRobinChooses ==
    ASSUME LeadInv, NEW w \in LeadWorker, NEW choice \in Choice, roundRobin(w, choice)
    PROVE  /\ choice.owner # "NONE" => choice.queue # "NONE" /\ HasRoom(choice.owner)
           /\ choice.queue # "NONE" => OpenTo(w, choice.queue)
<1>1. CASE choice = NoChoice
  BY <1>1 DEF NoChoice
<1>2. choice = NoChoice \/ \E q \in Queue :
         /\ choice.queue = q /\ OpenTo(w, q)
         /\ choice.owner = "NONE" \/ HasRoom(choice.owner)
  BY DEF roundRobin
<1>3. CASE choice # NoChoice
  <2>1. PICK q \in Queue : /\ choice.queue = q /\ OpenTo(w, q)
                           /\ choice.owner = "NONE" \/ HasRoom(choice.owner)
    BY <1>2, <1>3
  <2> QED BY <2>1, LeadsAssumption
<1> QED BY <1>1, <1>3

(* Who has room for another lead has room for one from the queue.            *)
LEMMA RoomInQueue ==
    ASSUME LeadInv, NEW q, NEW m, HasRoom(m) PROVE Cardinality(Given(q, m)) < MaxActive
<1> DEFINE All == {l \in Lead : leads[l] # Nothing}
           Owned == {l \in Lead : leads[l] # Nothing /\ leads[l].owner = m
                                     /\ leads[l].status \in Active}
<1>1. IsFiniteSet(All) /\ Owned \subseteq All /\ Given(q, m) \subseteq Owned
  BY DEF LeadInv, LeadRowsTyped, Given, GivenAs
<1>2. Cardinality(Owned) < MaxActive
  BY DEF HasRoom, Load
<1> HIDE DEF All, Owned
<1>3. IsFiniteSet(Owned)
  BY <1>1, FS_Subset
<1>4. Cardinality(Given(q, m)) <= Cardinality(Owned) /\ IsFiniteSet(Given(q, m))
  BY <1>1, <1>3, FS_Subset
<1>5. Cardinality(Given(q, m)) \in Nat /\ Cardinality(Owned) \in Nat
  BY <1>3, <1>4, FS_CardinalityType
<1> QED BY <1>2, <1>4, <1>5, LeadsAssumption

LEMMA RotateKeeps ==
    ASSUME LeadInv, NEW w \in LeadWorker, Rotate(w) PROVE LeadInv'
<1>1. PICK choice \in Choice : roundRobin(w, choice) /\
         LET t == leadTasks[w] IN
           Turns(w, [step |-> "ROTATED", key |-> t.key, phone |-> t.phone, email |-> t.email,
                     contact |-> t.contact, similar |-> t.similar, choice |-> choice])
  BY DEF Rotate
<1>2. PICK t : t.step = "ROTATED" /\ t.choice = choice /\ Turns(w, t)
  BY <1>1
<1>3. /\ choice.owner # "NONE" => choice.queue # "NONE" /\ HasRoom(choice.owner)
      /\ choice.queue # "NONE" => OpenTo(w, choice.queue)
  BY <1>1, RoundRobinChooses
<1>4. LeadTaskTyped(t)
  BY <1>2, <1>3 DEF LeadTaskTyped
<1>5. LeadTaskStands(t)
  BY <1>2, <1>3, RoomInQueue DEF LeadTaskStands, ChoiceStands
<1>6. ASSUME NEW v \in LeadWorker \ {w} PROVE LeadsApart(t, leadTasks[v])
  BY <1>2, <1>3 DEF LeadsApart, OpenTo, Others, Stands
<1>7. UNCHANGED leadRows
  BY DEF Rotate
<1> QED BY <1>2, <1>4, <1>5, <1>6, <1>7, QuietLeads

LEMMA accessibleLeadKeeps ==
    ASSUME LeadInv, NEW w \in LeadWorker, NEW l \in Lead, accessibleLead(w, l)
    PROVE  LeadInv'
<1>1. leads[l] \in LeadRow /\ leads[l].version \in Nat
  BY DEF accessibleLead, LeadInv, LeadRowsTyped, LeadRow
<1>2. PICK t : t = [step |-> "STAFF", lead |-> l, seen |-> leads[l]]
  OBVIOUS
<1>3. LeadTaskTyped(t) /\ \A s : LeadsApart(t, s)
  BY <1>1, <1>2 DEF LeadTaskTyped, LeadsApart
<1>4. LeadTaskStands(t)
  BY <1>1, <1>2 DEF LeadTaskStands, SeenStands, accessibleLead
<1> QED BY <1>2, <1>3, <1>4, QuietLeads DEF accessibleLead

-----------------------------------------------------------------------------
(* The commands: no transition makes a lead active again but a reopening.    *)
LEMMA Transitions ==
    ASSUME NEW s \in Status, NEW to \in leadTransitions[s]
    PROVE  to \in Status /\ (to \in Active => s \in Active \/ to = "REOPENED")
<1>1. CASE s = "PENDING_REVIEW" BY <1>1 DEF leadTransitions, Status, Active
<1>2. CASE s = "CONTACT_ATTEMPT" BY <1>2 DEF leadTransitions, Status, Active
<1>3. CASE s = "ACCEPTED" BY <1>3 DEF leadTransitions, Status, Active
<1>4. CASE s = "WORKING" BY <1>4 DEF leadTransitions, Status, Active
<1>5. CASE s = "BOOKING_CONFIRMED" BY <1>5 DEF leadTransitions, Status, Active
<1>6. CASE s = "REJECTED" BY <1>6 DEF leadTransitions, Status, Active
<1>7. CASE s = "LOST" BY <1>7 DEF leadTransitions, Status, Active
<1>8. CASE s = "REOPENED" BY <1>8 DEF leadTransitions, Status, Active
<1> QED BY <1>1, <1>2, <1>3, <1>4, <1>5, <1>6, <1>7, <1>8 DEF Status

LEMMA RowAssigned ==
    ASSUME NEW x \in LeadRow, NEW m \in Member, x.version < MaxLeadVersion
    PROVE  LET y == [x EXCEPT !.owner = m, !.via = "NONE", !.version = @ + 1]
           IN  /\ y \in LeadRow
               /\ y.version = x.version + 1 /\ y.via = "NONE"
               /\ y.acted = x.acted /\ y.sla = x.sla
<1>1. x.version + 1 \in 1..MaxLeadVersion
  BY LeadsAssumption DEF LeadRow
<1> QED BY <1>1 DEF LeadRow, Or

(* What the staff's worker knows when nothing has changed.                   *)
LEMMA StaffKnows ==
    ASSUME LeadInv, NEW w \in LeadWorker, Stands(w, "STAFF"), Unchanged(w),
           leadTasks[w].seen.version < MaxLeadVersion
    PROVE  /\ leadTasks[w].lead \in Lead /\ leads[leadTasks[w].lead] \in LeadRow
           /\ leads[leadTasks[w].lead] # Nothing
           /\ leads[leadTasks[w].lead].version < MaxLeadVersion
           /\ leadTasks[w].seen.status = leads[leadTasks[w].lead].status
           /\ leadTasks[w].seen \in LeadRow
<1>1. leadTasks[w].lead \in Lead /\ leadTasks[w].seen \in LeadRow
  BY DEF LeadInv, LeadTasksStand, LeadTaskTyped, Stands
<1>2. SeenStands(leadTasks[w])
  BY DEF LeadInv, LeadTasksStand, LeadTaskStands, Stands
<1>3. leads[leadTasks[w].lead] \in LeadRow
  BY <1>1, <1>2 DEF SeenStands, LeadInv, LeadRowsTyped
<1> QED BY <1>1, <1>2, <1>3 DEF SeenStands, Unchanged

(* A worker that goes to move a free lead.                                   *)
LEMMA MoveBegins ==
    ASSUME LeadInv, NEW w \in LeadWorker, NEW l \in Lead, NEW row \in LeadRow,
           NEW first \in BOOLEAN, LeadFree(w, l), UNCHANGED leadRows,
           MoveStands([step |-> "MOVED", lead |-> l, first |-> first, row |-> row]),
           Turns(w, [step |-> "MOVED", lead |-> l, first |-> first, row |-> row])
    PROVE  LeadInv'
<1>1. PICK t : t = [step |-> "MOVED", lead |-> l, first |-> first, row |-> row]
  OBVIOUS
<1>2. t.step = "MOVED" /\ t.lead = l /\ t.first = first /\ t.row = row
  BY <1>1
<1>3. LeadTaskTyped(t)
  BY <1>2 DEF LeadTaskTyped
<1>4. LeadTaskStands(t)
  BY <1>1, <1>2 DEF LeadTaskStands
<1>5. \A v \in LeadWorker \ {w} : LeadsApart(t, leadTasks[v])
  BY <1>2 DEF LeadsApart, LeadFree, Others, Stands
<1> QED BY <1>1, <1>3, <1>4, <1>5, QuietLeads

LEMMA transitionKeeps ==
    ASSUME LeadInv, NEW w \in LeadWorker, NEW to \in Status, transition(w, to)
    PROVE  LeadInv'
<1> DEFINE l == leadTasks[w].lead
           seen == leadTasks[w].seen
           now == leads[l]
           first == FirstAction(seen, to)
           row == [now EXCEPT !.status = to, !.version = @ + 1,
                              !.returned = @ \/ to = "REOPENED",
                              !.acted = @ \/ first,
                              !.sla = IF first THEN "MET" ELSE @]
           t == [step |-> "MOVED", lead |-> l, first |-> first, row |-> row]
<1>1. /\ Stands(w, "STAFF") /\ seen.version < MaxLeadVersion /\ Unchanged(w)
      /\ to \in leadTransitions[seen.status] /\ Turns(w, t) /\ UNCHANGED leadRows
  BY DEF transition
<1>2. /\ l \in Lead /\ now \in LeadRow /\ now # Nothing /\ now.version < MaxLeadVersion
      /\ seen.status = now.status /\ seen \in LeadRow
  BY <1>1, StaffKnows
<1>3. LeadFree(w, l) /\ first \in BOOLEAN
  BY <1>1, <1>2 DEF Unchanged, FirstAction, LeadRow
<1>4. to \in Active => now.status \in Active \/ to = "REOPENED"
  BY <1>1, <1>2, Transitions DEF LeadRow
<1>5. PICK f \in BOOLEAN : f = first
  BY <1>3
<1>6. /\ row \in LeadRow
      /\ row.status = to /\ row.version = now.version + 1
      /\ row.returned <=> now.returned \/ to = "REOPENED"
      /\ row.acted <=> now.acted \/ first
      /\ row.sla = IF first THEN "MET" ELSE now.sla
      /\ row.owner = now.owner /\ row.via = now.via
  <2>1. PICK x \in LeadRow : x = now /\ x.version < MaxLeadVersion
    BY <1>2
  <2>2. row = [x EXCEPT !.status = to, !.version = @ + 1,
                        !.returned = @ \/ to = "REOPENED",
                        !.acted = @ \/ f,
                        !.sla = IF f THEN "MET" ELSE @]
    BY <1>5, <2>1
  <2> HIDE DEF row, now, first
  <2>3. /\ row \in LeadRow
        /\ row.status = to /\ row.version = x.version + 1
        /\ row.returned <=> x.returned \/ to = "REOPENED"
        /\ row.acted <=> x.acted \/ f
        /\ row.sla = IF f THEN "MET" ELSE x.sla
        /\ row.owner = x.owner /\ row.via = x.via
    <3>1. x.version + 1 \in 1..MaxLeadVersion
      BY <2>1, LeadsAssumption DEF LeadRow
    <3> QED BY <1>5, <2>1, <2>2, <3>1 DEF LeadRow, SlaState
  <2> QED BY <2>1, <2>3, <1>5
<1> HIDE DEF first, row
<1>7. now.version \in Nat
  BY <1>2 DEF LeadRow
<1>8. MoveStands(t)
  <2>1. t.lead = l /\ t.row = row /\ t.first = first
    OBVIOUS
  <2>2. \A q \in Queue, m \in Member : GivenAs(row, q, m) => GivenAs(now, q, m)
    BY <1>4, <1>6 DEF GivenAs
  <2> QED BY <1>2, <1>6, <1>7, <2>1, <2>2 DEF MoveStands
<1> QED BY <1>1, <1>2, <1>3, <1>6, <1>8, MoveBegins

LEMMA assignLeadKeeps ==
    ASSUME LeadInv, NEW w \in LeadWorker, NEW m \in Member, assignLead(w, m)
    PROVE  LeadInv'
<1> DEFINE l == leadTasks[w].lead
           now == leads[l]
           row == [now EXCEPT !.owner = m, !.via = "NONE", !.version = @ + 1]
           t == [step |-> "MOVED", lead |-> l, first |-> FALSE, row |-> row]
<1>1. /\ Stands(w, "STAFF") /\ leadTasks[w].seen.version < MaxLeadVersion /\ Unchanged(w)
      /\ Turns(w, t) /\ UNCHANGED leadRows
  BY DEF assignLead
<1>2. l \in Lead /\ now \in LeadRow /\ now # Nothing /\ now.version < MaxLeadVersion
  BY <1>1, StaffKnows
<1>3. LeadFree(w, l)
  BY <1>1 DEF Unchanged
<1>4. /\ row \in LeadRow
      /\ row.version = now.version + 1 /\ row.via = "NONE"
      /\ row.acted = now.acted /\ row.sla = now.sla
  BY <1>2, RowAssigned
<1>5. now.version \in Nat
  BY <1>2 DEF LeadRow
<1> HIDE DEF row
<1>6. MoveStands(t)
  <2>1. t.lead = l /\ t.row = row /\ t.first = FALSE
    OBVIOUS
  <2>2. \A q \in Queue, o \in Member : ~GivenAs(row, q, o)
    BY <1>4, LeadsAssumption DEF GivenAs
  <2> QED BY <1>2, <1>4, <1>5, <2>1, <2>2 DEF MoveStands
<1> QED BY <1>1, <1>2, <1>3, <1>4, <1>6, MoveBegins

-----------------------------------------------------------------------------
(* The steps that write.  A row is not Nothing; fewer given leads leave room.*)
LEMMA LeadIsSome == ASSUME NEW x \in LeadRow PROVE x # Nothing
BY DEF LeadRow, Status, Nothing
LEMMA TimerIsSome == ASSUME NEW x \in TimerRow PROVE x # Nothing
BY DEF TimerRow, SlaState, Nothing

LEMMA GivenIsFinite ==
    ASSUME LeadRowsTyped, NEW q, NEW m
    PROVE  IsFiniteSet(Given(q, m)) /\ Cardinality(Given(q, m)) \in Nat
<1>1. Given(q, m) \subseteq {l \in Lead : leads[l] # Nothing}
  BY DEF Given
<1> QED BY <1>1, FS_Subset, FS_CardinalityType DEF LeadRowsTyped

LEMMA GivenShrinks ==
    ASSUME LeadInv, \A q \in Queue, m \in Member : Given(q, m)' \subseteq Given(q, m)
    PROVE  /\ RotationRespectsLimit'
           /\ \A t : t.step = "ROTATED" /\ LeadTaskTyped(t) /\ ChoiceStands(t) => ChoiceStands(t)'
<1>1. ASSUME NEW q \in Queue, NEW m \in Member
      PROVE  /\ Cardinality(Given(q, m)') <= Cardinality(Given(q, m))
             /\ Cardinality(Given(q, m)') \in Nat /\ Cardinality(Given(q, m)) \in Nat
  <2>1. IsFiniteSet(Given(q, m)) /\ Cardinality(Given(q, m)) \in Nat
    BY GivenIsFinite DEF LeadInv
  <2>2. Given(q, m)' \subseteq Given(q, m)
    OBVIOUS
  <2> QED BY <2>1, <2>2, FS_Subset, FS_CardinalityType
<1>2. RotationRespectsLimit'
  <2>1. \A q \in Queue, m \in Member : Cardinality(Given(q, m)') <= MaxActive
    BY <1>1, LimitOnGiven, LeadsAssumption DEF LeadInv
  <2>2. \A q, m : Given(q, m)' = {l \in Lead : /\ leads'[l] # Nothing
                                  /\ leads'[l].via = q /\ leads'[l].owner = m
                                  /\ leads'[l].status \in Active /\ ~leads'[l].returned}
    BY DEF Given, GivenAs
  <2> QED BY <2>1, <2>2 DEF RotationRespectsLimit
<1>3. ASSUME NEW t, t.step = "ROTATED", LeadTaskTyped(t), ChoiceStands(t)
      PROVE  ChoiceStands(t)'
  <2> SUFFICES ASSUME t.choice.owner # "NONE"
               PROVE  Cardinality(Given(t.choice.queue, t.choice.owner)') < MaxActive
    BY DEF ChoiceStands
  <2>1. t.choice.queue \in Queue /\ t.choice.owner \in Member
    BY <1>3 DEF LeadTaskTyped, Choice, Or
  <2>2. Cardinality(Given(t.choice.queue, t.choice.owner)) < MaxActive
    BY <1>3 DEF ChoiceStands
  <2> QED BY <1>1, <2>1, <2>2, LeadsAssumption
<1> QED BY <1>2, <1>3

(* A worker that has ended.                                                  *)
LEMMA Ends ==
    ASSUME LeadInv, NEW w \in LeadWorker, Turns(w, Resting),
           \A v \in LeadWorker \ {w} : LeadTaskStands(leadTasks[v])'
    PROVE  /\ LeadTasksStand' /\ LeadLocks'
           /\ leadTasks' = [v \in LeadWorker |-> leadTasks'[v]]
<1>1. Unbound(Resting)
  BY DEF Unbound, Resting
<1>2. LeadTaskTyped(Resting) /\ LeadTaskStands(Resting)' /\ \A s : LeadsApart(Resting, s)
  BY <1>1 DEF Unbound, LeadTaskTyped, LeadTaskStands, LeadsApart
<1> QED BY <1>2, OthersStand

LEMMA FinishMoveKeeps ==
    ASSUME LeadInv, NEW w \in LeadWorker, FinishMove(w) PROVE LeadInv'
<1> DEFINE l == leadTasks[w].lead
           row == leadTasks[w].row
           first == leadTasks[w].first
<1>1. /\ leadTasks[w].step = "MOVED" /\ Turns(w, Resting)
      /\ first => TimerFree(w, l)
      /\ leads' = [leads EXCEPT ![l] = row]
      /\ timers' = IF first THEN [timers EXCEPT ![l].status = "MET"] ELSE timers
  BY DEF FinishMove, Stands
<1>2. l \in Lead /\ row \in LeadRow /\ first \in BOOLEAN
  BY <1>1 DEF LeadInv, LeadTasksStand, LeadTaskTyped
<1>3. /\ leads[l] # Nothing /\ leads[l] \in LeadRow
      /\ row.version > leads[l].version
      /\ row.sla = IF first THEN "MET" ELSE leads[l].sla
      /\ row.acted <=> (first \/ leads[l].acted)
      /\ \A q \in Queue, m \in Member : GivenAs(row, q, m) => GivenAs(leads[l], q, m)
  BY <1>1, <1>2 DEF LeadInv, LeadRowsTyped, LeadTasksStand, LeadTaskStands, MoveStands
<1>4. timers[l] \in TimerRow
  BY <1>2, <1>3 DEF LeadInv, LeadRowsTyped
<1>5. /\ leads' \in [Lead -> LeadRow \cup {Nothing}]
      /\ leads'[l] = row /\ row # Nothing /\ \A o \in Lead \ {l} : leads'[o] = leads[o]
  BY <1>1, <1>2, LeadIsSome DEF LeadInv, LeadRowsTyped
<1>6. /\ timers' \in [Lead -> TimerRow \cup {Nothing}] /\ timers'[l] \in TimerRow
      /\ timers'[l].status = IF first THEN "MET" ELSE timers[l].status
      /\ timers'[l].escalated = timers[l].escalated
      /\ \A o \in Lead \ {l} : timers'[o] = timers[o]
  <2>1. [timers[l] EXCEPT !.status = "MET"] \in TimerRow
    BY <1>4 DEF TimerRow, SlaState
  <2>2. CASE first
    BY <1>1, <1>2, <1>4, <2>1, <2>2 DEF LeadInv, LeadRowsTyped, TimerRow
  <2>3. CASE ~first
    BY <1>1, <1>2, <1>4, <2>3 DEF LeadInv, LeadRowsTyped
  <2> QED BY <2>2, <2>3
<1> HIDE DEF row, first, l
<1>7. \A q \in Queue, m \in Member : Given(q, m)' \subseteq Given(q, m)
  BY <1>2, <1>3, <1>5 DEF Given
<1>8. ASSUME NEW v \in LeadWorker \ {w} PROVE LeadTaskStands(leadTasks[v])'
  <2>1. PICK t : t = leadTasks[v] /\ leadTasks'[v] = t
    BY <1>1, LeadTurned DEF LeadInv
  <2> SUFFICES LeadTaskStands(t)'
    BY <2>1
  <2>2. LeadTaskTyped(t) /\ LeadTaskStands(t) /\ LeadsApart(leadTasks[w], t)
    BY <2>1 DEF LeadInv, LeadTasksStand, LeadLocks
  <2>3. CASE t.step = "STAFF"
    <3>1. t.lead \in Lead /\ t.seen.version \in Nat /\ SeenStands(t)
      BY <2>2, <2>3 DEF LeadTaskTyped, LeadTaskStands, LeadRow
    <3>2. leads[l].version \in Nat /\ row.version \in Nat
      BY <1>2, <1>3 DEF LeadRow
    <3>3. SeenStands(t)'
      BY <1>3, <1>5, <3>1, <3>2 DEF SeenStands
    <3> QED BY <2>3, <3>3 DEF LeadTaskStands
  <2>4. CASE t.step = "MOVED"
    <3>1. t.lead \in Lead \ {l}
      BY <1>1, <2>2, <2>4 DEF LeadTaskTyped, LeadsApart, l
    <3>2. MoveStands(t)'
      BY <1>5, <2>2, <2>4, <3>1 DEF LeadTaskStands, MoveStands
    <3> QED BY <2>4, <3>2 DEF LeadTaskStands
  <2>5. CASE t.step = "RECONCILE"
    <3>1. ClaimsStand(t)
      BY <2>2, <2>5 DEF LeadTaskStands
    <3>2. first => t.state[l] = "NONE"
      BY <1>1, <2>1, <2>5 DEF TimerFree, Others, Stands
    <3>3. ClaimsStand(t)'
      BY <1>5, <1>6, <3>1, <3>2 DEF ClaimsStand
    <3> QED BY <2>5, <3>3 DEF LeadTaskStands
  <2>6. CASE t.step = "ROTATED"
    <3>1. ChoiceStands(t)'
      BY <1>7, <2>2, <2>6, GivenShrinks DEF LeadTaskStands
    <3> QED BY <2>6, <3>1 DEF LeadTaskStands
  <2> QED BY <2>3, <2>4, <2>5, <2>6 DEF LeadTaskStands
<1>9. /\ LeadTasksStand' /\ LeadLocks'
      /\ leadTasks' = [v \in LeadWorker |-> leadTasks'[v]]
  BY <1>1, <1>8, Ends
<1>10. LeadRowsTyped'
  <2>1. {o \in Lead : leads'[o] # Nothing} = {o \in Lead : leads[o] # Nothing}
    BY <1>3, <1>5
  <2>2. \A o \in Lead : leads'[o] = Nothing <=> timers'[o] = Nothing
    BY <1>5, <1>6, TimerIsSome DEF LeadInv, LeadRowsTyped
  <2> QED BY <1>5, <1>6, <1>9, <2>1, <2>2 DEF LeadInv, LeadRowsTyped
<1>11. DeadlineAgrees'
  BY <1>2, <1>3, <1>5, <1>6 DEF LeadInv, DeadlineAgrees
<1>12. RotationRespectsLimit'
  BY <1>7, GivenShrinks
<1> QED BY <1>9, <1>10, <1>11, <1>12 DEF LeadInv

LEMMA PlainWrites ==
    ASSUME LeadInv, NEW w \in LeadWorker, Turns(w, Resting), UNCHANGED <<leads, timers>>
    PROVE  LeadInv'
<1>1. Unbound(Resting)
  BY DEF Unbound, Resting
<1> QED BY <1>1, UnboundStands, QuietLeadRows

LEMMA TimePassesKeeps ==
    ASSUME LeadInv, NEW l \in Lead, TimePasses(l) PROVE LeadInv'
<1> DEFINE new == IF timers[l].passed = "NEITHER" THEN "WARNING" ELSE "DUE"
<1>1. /\ timers[l] # Nothing /\ leads' = leads /\ leadTasks' = leadTasks
      /\ timers' = [timers EXCEPT ![l].passed = new]
  BY DEF TimePasses
<1>2. timers[l] \in TimerRow
  BY <1>1 DEF LeadInv, LeadRowsTyped
<1> HIDE DEF new
<1>3. new \in {"WARNING", "DUE"}
  BY DEF new
<1>4. /\ timers' \in [Lead -> TimerRow \cup {Nothing}] /\ timers'[l] \in TimerRow
      /\ timers'[l].status = timers[l].status /\ timers'[l].escalated = timers[l].escalated
      /\ \A o \in Lead \ {l} : timers'[o] = timers[o]
  <2>1. /\ [timers[l] EXCEPT !.passed = new] \in TimerRow
        /\ [timers[l] EXCEPT !.passed = new].status = timers[l].status
        /\ [timers[l] EXCEPT !.passed = new].escalated = timers[l].escalated
    BY <1>2, <1>3 DEF TimerRow
  <2> QED BY <1>1, <2>1 DEF LeadInv, LeadRowsTyped
<1>5. \A x : LeadTaskStands(x) => LeadTaskStands(x)'
  <2>1. \A x : ClaimsStand(x) => ClaimsStand(x)'
    BY <1>1, <1>4 DEF ClaimsStand
  <2> QED BY <1>1, <2>1 DEF LeadTaskStands, SeenStands, MoveStands, ChoiceStands, Given
<1>6. LeadTasksStand' /\ LeadLocks'
  BY <1>1, <1>5 DEF LeadInv, LeadTasksStand, LeadLocks
<1>7. LeadRowsTyped'
  BY <1>1, <1>2, <1>4, TimerIsSome DEF LeadInv, LeadRowsTyped
<1>8. DeadlineAgrees'
  BY <1>1, <1>4 DEF LeadInv, DeadlineAgrees
<1>9. RotationRespectsLimit'
  BY <1>1 DEF LeadInv, RotationRespectsLimit
<1> QED BY <1>6, <1>7, <1>8, <1>9 DEF LeadInv

-----------------------------------------------------------------------------
(* The monitor.                                                              *)
LEMMA ReconcileShape ==
    ASSUME LeadInv, NEW w \in LeadWorker, Stands(w, "RECONCILE")
    PROVE  /\ leadTasks[w] \in ReconcileTask /\ ClaimsStand(leadTasks[w])
           /\ \A v \in LeadWorker \ {w} : LeadsApart(leadTasks[w], leadTasks[v])
BY DEF LeadInv, LeadTasksStand, LeadLocks, LeadTaskTyped, LeadTaskStands, Stands

LEMMA BeginReconcileKeeps ==
    ASSUME LeadInv, NEW w \in LeadWorker, BeginReconcile(w) PROVE LeadInv'
<1> DEFINE due == {l \in Lead : /\ timers[l].status \in Watched
                                /\ timers[l].passed # "NEITHER"
                                /\ timers[l].status # NextState(l)}
           todo == [l \in Lead |-> IF l \in due THEN timers[l].status ELSE "NONE"]
           none == [l \in Lead |-> "NONE"]
<1>1. PICK t : t = [step |-> "RECONCILE", claimed |-> "NONE", moved |-> {},
                    todo |-> todo, state |-> none]
  OBVIOUS
<1>2. Turns(w, t) /\ UNCHANGED leadRows
  BY <1>1 DEF BeginReconcile
<1>3. \A l \in Lead : todo[l] # "NONE" => todo[l] \in Watched /\ leads[l] # Nothing
  <2> SUFFICES ASSUME NEW l \in Lead, l \in due PROVE timers[l].status \in Watched /\ leads[l] # Nothing
    OBVIOUS
  <2> QED BY DEF LeadInv, LeadRowsTyped, Watched, SlaState, Nothing
<1>4. todo \in [Lead -> SlaState \cup {"NONE"}]
  BY DEF Watched
<1> HIDE DEF todo
<1>5. LeadTaskTyped(t)
  BY <1>1, <1>4 DEF LeadTaskTyped, ReconcileTask, Or
<1>6. LeadTaskStands(t)
  BY <1>1, <1>3, LeadsAssumption DEF LeadTaskStands, ClaimsStand
<1>7. \A s : LeadsApart(t, s)
  BY <1>1 DEF LeadsApart
<1> QED BY <1>2, <1>5, <1>6, <1>7, QuietLeads

LEMMA ClaimKeeps ==
    ASSUME LeadInv, NEW w \in LeadWorker, NEW l \in Lead, Claim(w, l) PROVE LeadInv'
<1>1. PICK old : old = leadTasks[w]
  OBVIOUS
<1>2. /\ old.step = "RECONCILE" /\ old.claimed = "NONE" /\ old.todo[l] # "NONE"
      /\ TimerFree(w, l) /\ UNCHANGED leadRows
      /\ Turns(w, IF Claimable(l, old.todo[l])
                  THEN [old EXCEPT !.todo[l] = "NONE", !.claimed = l, !.state[l] = NextState(l)]
                  ELSE [old EXCEPT !.todo[l] = "NONE"])
  BY <1>1 DEF Claim, Stands
<1>3. /\ old \in ReconcileTask /\ ClaimsStand(old)
      /\ \A v \in LeadWorker \ {w} : LeadsApart(old, leadTasks[v])
  BY <1>1, <1>2, ReconcileShape DEF Stands
<1>4. NextState(l) \in {"WARNING", "BREACHED"}
  BY DEF NextState
<1>5. CASE Claimable(l, old.todo[l])
  <2>1. PICK t : t = [old EXCEPT !.todo[l] = "NONE", !.claimed = l, !.state[l] = NextState(l)]
    OBVIOUS
  <2>2. /\ t \in ReconcileTask /\ t.step = "RECONCILE" /\ t.moved = old.moved /\ t.claimed = l
        /\ t.todo[l] = "NONE" /\ t.state[l] = NextState(l)
        /\ \A o \in Lead \ {l} : t.todo[o] = old.todo[o] /\ t.state[o] = old.state[o]
    BY <1>3, <1>4, <2>1 DEF ReconcileTask, SlaState, Or
  <2>3. timers[l].status \in Watched /\ leads[l] # Nothing
    BY <1>2, <1>3, <1>5 DEF Claimable, ClaimsStand
  <2>4. LeadTaskTyped(t) /\ LeadTaskStands(t)
    <3>1. ClaimsStand(t)
      BY <1>2, <1>3, <1>4, <2>2, <2>3, LeadsAssumption DEF ClaimsStand
    <3> QED BY <2>2, <3>1 DEF LeadTaskTyped, LeadTaskStands
  <2>5. \A v \in LeadWorker \ {w} : LeadsApart(t, leadTasks[v])
    BY <1>2, <1>3, <2>2 DEF LeadsApart, TimerFree, Others, Stands
  <2> QED BY <1>2, <1>5, <2>1, <2>4, <2>5, QuietLeads
<1>6. CASE ~Claimable(l, old.todo[l])
  <2>1. PICK t : t = [old EXCEPT !.todo[l] = "NONE"]
    OBVIOUS
  <2>2. /\ t \in ReconcileTask /\ t.step = "RECONCILE" /\ t.moved = old.moved
        /\ t.claimed = old.claimed /\ t.state = old.state
        /\ t.todo[l] = "NONE"
        /\ \A o \in Lead \ {l} : t.todo[o] = old.todo[o]
    BY <1>3, <2>1 DEF ReconcileTask, SlaState, Or
  <2>3. LeadTaskTyped(t) /\ LeadTaskStands(t)
    <3>1. ClaimsStand(t)
      BY <1>3, <2>2 DEF ClaimsStand
    <3> QED BY <2>2, <3>1 DEF LeadTaskTyped, LeadTaskStands
  <2>4. \A v \in LeadWorker \ {w} : LeadsApart(t, leadTasks[v])
    BY <1>2, <1>3, <2>2 DEF LeadsApart
  <2> QED BY <1>2, <1>6, <2>1, <2>3, <2>4, QuietLeads
<1> QED BY <1>5, <1>6

LEMMA MarkLeadKeeps ==
    ASSUME LeadInv, NEW w \in LeadWorker, MarkLead(w) PROVE LeadInv'
<1>1. PICK old : old = leadTasks[w]
  OBVIOUS
<1>2. /\ old.step = "RECONCILE" /\ old.claimed # "NONE"
      /\ LeadFree(w, old.claimed) /\ UNCHANGED leadRows
      /\ Turns(w, [old EXCEPT !.claimed = "NONE", !.moved = @ \cup {old.claimed}])
  BY <1>1 DEF MarkLead, Stands
<1>3. /\ old \in ReconcileTask /\ ClaimsStand(old)
      /\ \A v \in LeadWorker \ {w} : LeadsApart(old, leadTasks[v])
  BY <1>1, <1>2, ReconcileShape DEF Stands
<1>4. PICK t : t = [old EXCEPT !.claimed = "NONE", !.moved = @ \cup {old.claimed}]
  OBVIOUS
<1>5. old.claimed \in Lead
  BY <1>2, <1>3 DEF ReconcileTask, Or
<1>6. /\ t \in ReconcileTask /\ t.step = "RECONCILE" /\ t.moved = old.moved \cup {old.claimed}
      /\ t.claimed = "NONE" /\ t.state = old.state /\ t.todo = old.todo
  BY <1>3, <1>4, <1>5 DEF ReconcileTask, Or
<1>7. LeadTaskTyped(t) /\ LeadTaskStands(t)
  <2>1. ClaimsStand(t)
    BY <1>3, <1>6, LeadsAssumption DEF ClaimsStand
  <2> QED BY <1>6, <2>1 DEF LeadTaskTyped, LeadTaskStands
<1>8. \A v \in LeadWorker \ {w} : LeadsApart(t, leadTasks[v])
  BY <1>2, <1>3, <1>6 DEF LeadsApart, LeadFree, Others, Stands
<1> QED BY <1>2, <1>4, <1>7, <1>8, QuietLeads

LEMMA CommitReconcileKeeps ==
    ASSUME LeadInv, NEW w \in LeadWorker, CommitReconcile(w) PROVE LeadInv'
<1>1. PICK old : old = leadTasks[w]
  OBVIOUS
<1>2. /\ old.step = "RECONCILE" /\ Turns(w, Resting)
      /\ timers' = [l \in Lead |-> IF l \notin old.moved THEN timers[l]
                                   ELSE [timers[l] EXCEPT !.status = old.state[l],
                                            !.escalated = @ \/ old.state[l] = "BREACHED"]]
      /\ leads' = [l \in Lead |-> IF l \notin old.moved THEN leads[l]
                                  ELSE [leads[l] EXCEPT !.sla = old.state[l]]]
  BY <1>1 DEF CommitReconcile, Stands
<1>3. /\ old \in ReconcileTask /\ ClaimsStand(old)
      /\ \A v \in LeadWorker \ {w} : LeadsApart(old, leadTasks[v])
  BY <1>1, <1>2, ReconcileShape DEF Stands
<1>4. ASSUME NEW l \in Lead, l \in old.moved
      PROVE  /\ leads[l] \in LeadRow /\ leads'[l] \in LeadRow
             /\ timers[l] \in TimerRow /\ timers'[l] \in TimerRow
             /\ leads'[l].version = leads[l].version /\ leads'[l].status = leads[l].status
             /\ leads'[l].owner = leads[l].owner /\ leads'[l].via = leads[l].via
             /\ leads'[l].returned = leads[l].returned /\ leads'[l].acted = leads[l].acted
             /\ leads'[l].sla = timers'[l].status /\ timers'[l].status # "MET"
             /\ timers[l].status # "MET"
             /\ timers'[l].status = "BREACHED" => timers'[l].escalated
  <2>1. old.state[l] \in {"WARNING", "BREACHED"} /\ leads[l] # Nothing /\ timers[l].status \in Watched
    BY <1>3, <1>4 DEF ClaimsStand
  <2>2. leads[l] \in LeadRow /\ timers[l] \in TimerRow
    BY <2>1 DEF LeadInv, LeadRowsTyped
  <2>3. PICK x \in LeadRow : x = leads[l]
    BY <2>2
  <2>4. PICK y \in TimerRow : y = timers[l]
    BY <2>2
  <2>5. /\ leads'[l] = [x EXCEPT !.sla = old.state[l]]
        /\ timers'[l] = [y EXCEPT !.status = old.state[l],
                                  !.escalated = @ \/ old.state[l] = "BREACHED"]
    BY <1>2, <1>4, <2>3, <2>4
  <2>6. /\ leads'[l] \in LeadRow /\ leads'[l].sla = old.state[l]
        /\ leads'[l].version = x.version /\ leads'[l].status = x.status
        /\ leads'[l].owner = x.owner /\ leads'[l].via = x.via
        /\ leads'[l].returned = x.returned /\ leads'[l].acted = x.acted
    BY <2>1, <2>3, <2>5 DEF LeadRow, SlaState
  <2>7. /\ timers'[l] \in TimerRow /\ timers'[l].status = old.state[l]
        /\ old.state[l] = "BREACHED" => timers'[l].escalated
    BY <2>1, <2>4, <2>5 DEF TimerRow, SlaState
  <2> QED BY <2>1, <2>2, <2>3, <2>6, <2>7 DEF Watched
<1>5. ASSUME NEW l \in Lead, l \notin old.moved
      PROVE  leads'[l] = leads[l] /\ timers'[l] = timers[l]
  BY <1>2, <1>5
<1>6. /\ leads' \in [Lead -> LeadRow \cup {Nothing}]
      /\ timers' \in [Lead -> TimerRow \cup {Nothing}]
      /\ \A l \in Lead : leads'[l] = Nothing <=> leads[l] = Nothing
      /\ \A l \in Lead : timers'[l] = Nothing <=> timers[l] = Nothing
  <2>1. \A l \in Lead : leads'[l] \in LeadRow \cup {Nothing} /\ timers'[l] \in TimerRow \cup {Nothing}
    BY <1>4, <1>5 DEF LeadInv, LeadRowsTyped
  <2>2. leads' = [l \in Lead |-> leads'[l]] /\ timers' = [l \in Lead |-> timers'[l]]
    BY <1>2
  <2> QED BY <2>1, <2>2, <1>4, <1>5, LeadIsSome, TimerIsSome
<1>7. \A q \in Queue, m \in Member : Given(q, m)' \subseteq Given(q, m)
  BY <1>4, <1>5, <1>6 DEF Given, GivenAs
<1>8. ASSUME NEW v \in LeadWorker \ {w} PROVE LeadTaskStands(leadTasks[v])'
  <2>1. PICK t : t = leadTasks[v] /\ leadTasks'[v] = t
    BY <1>2, LeadTurned DEF LeadInv
  <2> SUFFICES LeadTaskStands(t)'
    BY <2>1
  <2>2. LeadTaskTyped(t) /\ LeadTaskStands(t) /\ LeadsApart(old, t)
    BY <1>3, <2>1 DEF LeadInv, LeadTasksStand
  <2>3. CASE t.step = "STAFF"
    <3>1. t.lead \in Lead /\ SeenStands(t)
      BY <2>2, <2>3 DEF LeadTaskTyped, LeadTaskStands
    <3>2. SeenStands(t)'
      BY <1>4, <1>5, <1>6, <3>1 DEF SeenStands
    <3> QED BY <2>3, <3>2 DEF LeadTaskStands
  <2>4. CASE t.step = "MOVED"
    <3>1. t.lead \in Lead /\ t.lead \notin old.moved
      BY <1>2, <2>2, <2>4 DEF LeadTaskTyped, LeadsApart
    <3>2. MoveStands(t)'
      BY <1>5, <2>2, <2>4, <3>1 DEF LeadTaskStands, MoveStands
    <3> QED BY <2>4, <3>2 DEF LeadTaskStands
  <2>5. CASE t.step = "RECONCILE"
    <3>1. ClaimsStand(t)
      BY <2>2, <2>5 DEF LeadTaskStands
    <3>2. \A l \in Lead : t.state[l] # "NONE" => l \notin old.moved
      BY <1>2, <1>3, <2>2, <2>5 DEF LeadsApart, ClaimsStand
    <3>3. ClaimsStand(t)'
      BY <1>5, <1>6, <3>1, <3>2 DEF ClaimsStand
    <3> QED BY <2>5, <3>3 DEF LeadTaskStands
  <2>6. CASE t.step = "ROTATED"
    <3>1. ChoiceStands(t)'
      BY <1>7, <2>2, <2>6, GivenShrinks DEF LeadTaskStands
    <3> QED BY <2>6, <3>1 DEF LeadTaskStands
  <2> QED BY <2>3, <2>4, <2>5, <2>6 DEF LeadTaskStands
<1>9. /\ LeadTasksStand' /\ LeadLocks'
      /\ leadTasks' = [v \in LeadWorker |-> leadTasks'[v]]
  BY <1>2, <1>8, Ends
<1>10. LeadRowsTyped'
  <2>1. {o \in Lead : leads'[o] # Nothing} = {o \in Lead : leads[o] # Nothing}
    BY <1>6
  <2> QED BY <1>6, <1>9, <2>1 DEF LeadInv, LeadRowsTyped
<1>11. DeadlineAgrees'
  <2> SUFFICES ASSUME NEW l \in Lead, leads'[l] # Nothing
               PROVE  /\ leads'[l].sla = timers'[l].status
                      /\ timers'[l].status = "MET" <=> leads'[l].acted
                      /\ timers'[l].status = "BREACHED" => timers'[l].escalated
    BY DEF DeadlineAgrees
  <2>1. /\ leads[l].sla = timers[l].status
        /\ timers[l].status = "MET" <=> leads[l].acted
        /\ timers[l].status = "BREACHED" => timers[l].escalated
    BY <1>6 DEF LeadInv, DeadlineAgrees
  <2>2. CASE l \in old.moved BY <1>4, <2>1, <2>2
  <2>3. CASE l \notin old.moved BY <1>5, <2>1, <2>3
  <2> QED BY <2>2, <2>3
<1>12. RotationRespectsLimit'
  BY <1>7, GivenShrinks
<1> QED BY <1>9, <1>10, <1>11, <1>12 DEF LeadInv

-----------------------------------------------------------------------------
(* A capture inserts one lead: the queue's if the queue chose its owner.     *)
InsertedRow(t, c) ==
    [status |-> "PENDING_REVIEW", contact |-> c, sla |-> "OPEN", acted |-> FALSE,
     owner |-> t.choice.owner,
     via |-> IF t.choice.owner = "NONE" THEN "NONE" ELSE t.choice.queue,
     returned |-> FALSE, version |-> 1]
LEMMA InsertKeeps ==
    ASSUME LeadInv, NEW w \in LeadWorker, Stands(w, "ROTATED"), Turns(w, Resting),
           NEW l \in Lead, NEW c \in Contact, Insert(w, l, c)
    PROVE  LeadInv'
<1>1. PICK old : old = leadTasks[w] /\ old.step = "ROTATED"
  BY DEF Stands
<1>2. PICK row : row = InsertedRow(old, c)
  OBVIOUS
<1>3. PICK timer : timer = [status |-> "OPEN", passed |-> "NEITHER", escalated |-> FALSE]
  OBVIOUS
<1>4. /\ leads[l] = Nothing
      /\ leads' = [leads EXCEPT ![l] = row] /\ timers' = [timers EXCEPT ![l] = timer]
  BY <1>1, <1>2, <1>3 DEF Insert, InsertedRow
<1>5. /\ old.choice \in Choice
      /\ old.choice.owner # "NONE" => old.choice.queue \in Queue /\ old.choice.owner \in Member
      /\ ChoiceStands(old)
      /\ \A v \in LeadWorker \ {w} : LeadsApart(old, leadTasks[v])
  BY <1>1 DEF LeadInv, LeadTasksStand, LeadLocks, LeadTaskTyped, LeadTaskStands, Choice, Or
<1>6. /\ row \in LeadRow /\ row.sla = "OPEN" /\ row.acted = FALSE /\ row.owner = old.choice.owner
      /\ row.via = IF old.choice.owner = "NONE" THEN "NONE" ELSE old.choice.queue
  BY <1>2, <1>5, LeadsAssumption DEF InsertedRow, LeadRow, Status, SlaState, Or, Choice
<1>7. timer \in TimerRow /\ timer.status = "OPEN"
  BY <1>3 DEF TimerRow, SlaState
<1>8. /\ leads' \in [Lead -> LeadRow \cup {Nothing}] /\ leads'[l] = row /\ row # Nothing
      /\ \A o \in Lead \ {l} : leads'[o] = leads[o]
  BY <1>4, <1>6, LeadIsSome DEF LeadInv, LeadRowsTyped
<1>9. /\ timers' \in [Lead -> TimerRow \cup {Nothing}] /\ timers'[l] = timer /\ timer # Nothing
      /\ \A o \in Lead \ {l} : timers'[o] = timers[o]
  BY <1>4, <1>7, TimerIsSome DEF LeadInv, LeadRowsTyped
<1>10. ASSUME NEW q \in Queue, NEW m \in Member
       PROVE  \/ Given(q, m)' = Given(q, m)
              \/ /\ q = old.choice.queue /\ m = old.choice.owner
                 /\ Given(q, m)' = Given(q, m) \cup {l}
  <2>1. CASE GivenAs(row, q, m)
    <3>1. q = old.choice.queue /\ m = old.choice.owner
      BY <1>6, <2>1, LeadsAssumption DEF GivenAs
    <3>2. Given(q, m)' = Given(q, m) \cup {l}
      BY <1>8, <2>1 DEF Given
    <3> QED BY <3>1, <3>2
  <2>2. CASE ~GivenAs(row, q, m)
    <3>1. Given(q, m)' = Given(q, m)
      BY <1>4, <1>8, <2>2 DEF Given
    <3> QED BY <3>1
  <2> QED BY <2>1, <2>2
<1>11. ASSUME NEW v \in LeadWorker \ {w} PROVE LeadTaskStands(leadTasks[v])'
  <2>1. PICK t : t = leadTasks[v] /\ leadTasks'[v] = t
    BY LeadTurned DEF LeadInv
  <2> SUFFICES LeadTaskStands(t)'
    BY <2>1
  <2>2. LeadTaskTyped(t) /\ LeadTaskStands(t) /\ LeadsApart(old, t)
    BY <1>5, <2>1 DEF LeadInv, LeadTasksStand
  <2>3. CASE t.step = "STAFF"
    BY <1>4, <1>8, <2>2, <2>3 DEF LeadTaskTyped, LeadTaskStands, SeenStands
  <2>4. CASE t.step = "MOVED"
    BY <1>4, <1>8, <2>2, <2>4 DEF LeadTaskTyped, LeadTaskStands, MoveStands
  <2>5. CASE t.step = "RECONCILE"
    <3>1. ClaimsStand(t)
      BY <2>2, <2>5 DEF LeadTaskStands
    <3>2. ClaimsStand(t)'
      BY <1>4, <1>8, <1>9, <3>1 DEF ClaimsStand
    <3> QED BY <2>5, <3>2 DEF LeadTaskStands
  <2>6. CASE t.step = "ROTATED"
    <3>1. ChoiceStands(t)'
      <4> SUFFICES ASSUME t.choice.owner # "NONE"
                   PROVE  Cardinality(Given(t.choice.queue, t.choice.owner)') < MaxActive
        BY DEF ChoiceStands
      <4>1. t.choice.queue \in Queue /\ t.choice.owner \in Member /\ t.choice.queue # "NONE"
        BY <2>2, <2>6, LeadsAssumption DEF LeadTaskTyped, Choice, Or
      <4>2. t.choice.queue # old.choice.queue
        BY <1>1, <2>2, <2>6, <4>1 DEF LeadsApart
      <4>3. Given(t.choice.queue, t.choice.owner)' = Given(t.choice.queue, t.choice.owner)
        BY <1>10, <4>1, <4>2
      <4> QED BY <2>2, <2>6, <4>3 DEF LeadTaskStands, ChoiceStands
    <3> QED BY <2>6, <3>1 DEF LeadTaskStands
  <2> QED BY <2>3, <2>4, <2>5, <2>6 DEF LeadTaskStands
<1>12. /\ LeadTasksStand' /\ LeadLocks'
       /\ leadTasks' = [v \in LeadWorker |-> leadTasks'[v]]
  BY <1>11, Ends
<1>13. LeadRowsTyped'
  <2> DEFINE known == {o \in Lead : leads[o] # Nothing}
  <2>1. {o \in Lead : leads'[o] # Nothing} = known \cup {l} /\ IsFiniteSet(known)
    BY <1>8 DEF LeadInv, LeadRowsTyped
  <2> HIDE DEF known
  <2>2. IsFiniteSet({o \in Lead : leads'[o] # Nothing})
    BY <2>1, FS_AddElement
  <2>3. \A o \in Lead : leads'[o] = Nothing <=> timers'[o] = Nothing
    BY <1>8, <1>9 DEF LeadInv, LeadRowsTyped
  <2> QED BY <1>8, <1>9, <1>12, <2>2, <2>3 DEF LeadRowsTyped
<1>14. DeadlineAgrees'
  BY <1>6, <1>7, <1>8, <1>9 DEF LeadInv, DeadlineAgrees
<1>15. RotationRespectsLimit'
  <2>1. ASSUME NEW q \in Queue, NEW m \in Member PROVE Cardinality(Given(q, m)') <= MaxActive
    <3>1. IsFiniteSet(Given(q, m)) /\ Cardinality(Given(q, m)) \in Nat
      BY GivenIsFinite DEF LeadInv
    <3>2. Cardinality(Given(q, m)) <= MaxActive
      BY LimitOnGiven DEF LeadInv
    <3>3. CASE Given(q, m)' = Given(q, m)
      BY <3>2, <3>3
    <3>4. CASE q = old.choice.queue /\ m = old.choice.owner /\ Given(q, m)' = Given(q, m) \cup {l}
      <4>1. Cardinality(Given(q, m)) < MaxActive
        BY <1>5, <3>4, LeadsAssumption DEF ChoiceStands
      <4>2. PICK S : S = Given(q, m)
        OBVIOUS
      <4>3. IsFiniteSet(S) /\ Cardinality(S) \in Nat /\ Cardinality(S) < MaxActive
        BY <3>1, <4>1, <4>2
      <4>4. Cardinality(S \cup {l}) = Cardinality(S) \/ Cardinality(S \cup {l}) = Cardinality(S) + 1
        BY <4>3, FS_AddElement
      <4>5. Cardinality(S \cup {l}) <= MaxActive
        BY <4>3, <4>4, LeadsAssumption
      <4> QED BY <3>4, <4>2, <4>5
    <3> QED BY <1>10, <3>3, <3>4
  <2>2. \A q, m : Given(q, m)' = {o \in Lead : /\ leads'[o] # Nothing
                                  /\ leads'[o].via = q /\ leads'[o].owner = m
                                  /\ leads'[o].status \in Active /\ ~leads'[o].returned}
    BY DEF Given, GivenAs
  <2> QED BY <2>1, <2>2 DEF RotationRespectsLimit
<1> QED BY <1>12, <1>13, <1>14, <1>15 DEF LeadInv

LEMMA createLeadKeeps ==
    ASSUME LeadInv, NEW w \in LeadWorker, createLead(w) PROVE LeadInv'
<1>1. Stands(w, "ROTATED") /\ Turns(w, Resting)
  BY DEF createLead
<1>2. CASE Replay(w)
  BY <1>1, <1>2, PlainWrites DEF Replay, leadRows
<1>3. CASE \E l \in Lead, c \in Contact : Insert(w, l, c)
  BY <1>1, <1>3, InsertKeeps
<1> QED BY <1>2, <1>3 DEF createLead

-----------------------------------------------------------------------------
LEMMA LeadStep ==
    ASSUME LeadInv, [LeadNext]_leadVars PROVE LeadInv'
<1>1. ASSUME NEW w \in LeadWorker, \E k \in Key, p \in Phone, e \in Or(Email) : BeginCapture(w, k, p, e)
      PROVE  LeadInv'
  BY <1>1, BeginCaptureKeeps
<1>2. ASSUME NEW w \in LeadWorker, Rotate(w) \/ createLead(w) PROVE LeadInv'
  BY <1>2, RotateKeeps, createLeadKeeps
<1>3. ASSUME NEW w \in LeadWorker,
             \E l \in Lead : accessibleLead(w, l) \/ Claim(w, l) \/ BeginDoubleReview(w, l)
      PROVE  LeadInv'
  BY <1>3, accessibleLeadKeeps, ClaimKeeps, BeginDoubleReviewKeeps
<1>4. ASSUME NEW w \in LeadWorker,
             (\E to \in Status : transition(w, to)) \/ (\E m \in Member : assignLead(w, m))
      PROVE  LeadInv'
  BY <1>4, transitionKeeps, assignLeadKeeps
<1>5. ASSUME NEW w \in LeadWorker,
             \E k \in CommandKey : addFollowUp(w, k) \/ completeFollowUp(w, k)
      PROVE  LeadInv'
  BY <1>5, PlainWrites DEF addFollowUp, completeFollowUp
<1>6. ASSUME NEW w \in LeadWorker,
             FinishMove(w) \/ BeginReconcile(w) \/ MarkLead(w) \/ CommitReconcile(w) \/ RollBack(w)
      PROVE  LeadInv'
  BY <1>6, FinishMoveKeeps, BeginReconcileKeeps, MarkLeadKeeps, CommitReconcileKeeps, RollBackKeeps
<1>7. ASSUME NEW w \in LeadWorker,
             \E v \in {"LINKED", "KEPT_SEPARATE", "DISMISSED"} : resolveDuplicate(w, v)
      PROVE  LeadInv'
  BY <1>7, PlainWrites DEF resolveDuplicate
<1>8. CASE \E l \in Lead : TimePasses(l)
  BY <1>8, TimePassesKeeps
<1>9. CASE UNCHANGED leadVars
  <2>1. UNCHANGED <<leads, timers, leadTasks>>
    BY <1>9 DEF leadVars
  <2>2. LeadTasksStand' /\ LeadLocks'
    BY <2>1 DEF LeadInv, LeadTasksStand, LeadLocks, LeadTaskStands, SeenStands, MoveStands,
                ClaimsStand, ChoiceStands, Given
  <2> QED BY <2>1, <2>2 DEF LeadInv, LeadRowsTyped, DeadlineAgrees, RotationRespectsLimit
<1> QED BY <1>1, <1>2, <1>3, <1>4, <1>5, <1>6, <1>7, <1>8, <1>9 DEF LeadNext

(* The lead shows the state of its deadline, which is met exactly where a    *)
(* first action was taken, whatever the staff and the monitor do at once.    *)
THEOREM DeadlineHolds == LeadSpec => []DeadlineAgrees
<1>1. LeadInit => LeadInv BY LeadInit_Inv
<1>2. LeadInv /\ [LeadNext]_leadVars => LeadInv' BY LeadStep
<1>3. LeadInv => DeadlineAgrees BY DEF LeadInv
<1> QED BY <1>1, <1>2, <1>3, PTL DEF LeadSpec

(* A queue gives no member more leads at once than its limit allows.         *)
THEOREM LimitHolds == LeadSpec => []RotationRespectsLimit
<1>1. LeadInit => LeadInv BY LeadInit_Inv
<1>2. LeadInv /\ [LeadNext]_leadVars => LeadInv' BY LeadStep
<1>3. LeadInv => RotationRespectsLimit BY DEF LeadInv
<1> QED BY <1>1, <1>2, <1>3, PTL DEF LeadSpec

-----------------------------------------------------------------------------
(* Calls, for every set of calls, events and handlers.                       *)
(* What a handler read decides what it may write: a call it found is still   *)
(* there, and if nobody has written it since, it is as it was when it was    *)
(* found to allow the outcome or the exception.                              *)
CallTaskKnows(t) ==
    /\ t.step = "APPLYING" => (t.seen # NoCall => Known(EventOf[t.event].call))
    /\ t.step \in {"OUTCOME", "EXCEPTION"} => Known(t.call)
    /\ t.step = "OUTCOME" => t.seen.requirement # "EXCEPTION"
    /\ t.step = "EXCEPTION" => t.seen.status = "COMPLETED" /\ t.seen.requirement = "REQUIRED"
CallTasksKnow == \A w \in CallWorker : CallTaskKnows(callTasks[w])
AppliedKnown == \A e \in applied : Known(EventOf[e].call)
(* An exception shows in the requirement, too.                               *)
ExceptionShows(c) == calls[c].exception => calls[c].requirement = "EXCEPTION"
CallsShow == \A c \in Call \ raced : Known(c) => ShowsEvents(c) /\ ExceptionShows(c)
CallInv == CallTypeOK /\ CallTasksKnow /\ AppliedKnown /\ CallsShow

LEMMA CallInit_Inv == ASSUME CallInit PROVE CallInv
<1>1. CallTypeOK
  BY CallsAssumption DEF CallInit, CallTypeOK, CallTask, Asleep
<1>2. CallTasksKnow
  BY DEF CallInit, CallTasksKnow, CallTaskKnows, Asleep
<1>3. AppliedKnown /\ CallsShow
  BY DEF CallInit, AppliedKnown, CallsShow, Known
<1> QED BY <1>1, <1>2, <1>3 DEF CallInv

LEMMA CallTaskFields ==
    ASSUME NEW t \in CallTask
    PROVE  /\ t.step \in {"CHECKED", "DIALLED", "INSERTED"} => t.key \in CallKey /\ t.call \in Call
           /\ t.step = "APPLYING" => /\ t.event \in Event /\ t.hook \in BOOLEAN
                                     /\ t.todo \in SUBSET Event
                                     /\ t.seen \in CallRow \cup {NoCall}
           /\ t.step = "SYNCING" => t.todo \in SUBSET Event
           /\ t.step \in {"OUTCOME", "EXCEPTION"} => t.call \in Call /\ t.seen \in CallRow
           /\ t.step \in {"PREPARED", "VERIFIED"} => t.upload \in Upload /\ t.call \in Call
BY DEF CallTask

LEMMA CallTasksMade ==
          /\ Asleep \in CallTask
          /\ \A k \in CallKey, c \in Call, s \in {"CHECKED", "DIALLED", "INSERTED"} :
                [step |-> s, key |-> k, call |-> c] \in CallTask
          /\ \A e \in Event, h \in BOOLEAN, T \in SUBSET Event, x \in CallRow \cup {NoCall} :
                [step |-> "APPLYING", event |-> e, hook |-> h, todo |-> T, seen |-> x] \in CallTask
          /\ \A T \in SUBSET Event : [step |-> "SYNCING", todo |-> T] \in CallTask
          /\ \A c \in Call, x \in CallRow, s \in {"OUTCOME", "EXCEPTION"} :
                [step |-> s, call |-> c, seen |-> x] \in CallTask
          /\ \A u \in Upload, c \in Call, s \in {"PREPARED", "VERIFIED"} :
                [step |-> s, upload |-> u, call |-> c] \in CallTask
BY DEF CallTask, Asleep

(* What a step does to the tasks, and one that writes no call and no event.  *)
LEMMA Went ==
    ASSUME CallTypeOK, NEW w \in CallWorker, NEW t \in CallTask, Goes(w, t)
    PROVE  /\ callTasks' \in [CallWorker -> CallTask] /\ callTasks'[w] = t
           /\ \A v \in CallWorker \ {w} : callTasks'[v] = callTasks[v]
BY DEF CallTypeOK, Goes

LEMMA KnowsOn ==
    ASSUME NEW t, CallTaskKnows(t), \A c : Known(c) => Known(c)'
    PROVE  CallTaskKnows(t)'
BY DEF CallTaskKnows

LEMMA CallsRest ==
    ASSUME CallInv, NEW w \in CallWorker, NEW t \in CallTask, Goes(w, t), CallTaskKnows(t),
           UNCHANGED <<calls, applied, raced>>
    PROVE  /\ callTasks' \in [CallWorker -> CallTask]
           /\ CallTasksKnow' /\ AppliedKnown' /\ CallsShow'
<1>1. \A c : Known(c) <=> Known(c)'
  BY DEF Known
<1>2. ASSUME NEW v \in CallWorker PROVE CallTaskKnows(callTasks[v])'
  <2>1. PICK x : x = callTasks'[v]
    OBVIOUS
  <2>2. CallTaskKnows(x)
    BY <2>1, Went DEF CallInv, CallTasksKnow
  <2> QED BY <1>1, <2>1, <2>2, KnowsOn
<1>3. AppliedKnown'
  BY <1>1 DEF CallInv, AppliedKnown
<1>4. CallsShow'
  BY DEF CallInv, CallsShow, Known, ShowsEvents, ExceptionShows, Said
<1> QED BY <1>2, <1>3, <1>4, Went DEF CallInv, CallTasksKnow

-----------------------------------------------------------------------------
(* The steps that write no call.                                             *)
LEMMA DiallingKeeps ==
    ASSUME CallInv, NEW w \in CallWorker,
           (\E k \in CallKey, c \in Call : startCall(w, k, c)) \/ Dial(w) \/ storeCommandReceipt(w)
    PROVE  CallInv'
<1>1. CASE \E k \in CallKey, c \in Call : startCall(w, k, c)
  <2>1. PICK k \in CallKey, c \in Call : startCall(w, k, c)
    BY <1>1
  <2>2. PICK t : t = [step |-> "CHECKED", key |-> k, call |-> c]
    OBVIOUS
  <2>3. t \in CallTask /\ CallTaskKnows(t) /\ Goes(w, t) /\ UNCHANGED callRows
    BY <2>1, <2>2, CallTasksMade DEF CallTaskKnows, startCall
  <2> QED BY <2>3, CallsRest DEF CallInv, CallTypeOK, callRows
<1>2. CASE Dial(w)
  <2>1. PICK old \in CallTask : old = callTasks[w]
    BY DEF CallInv, CallTypeOK
  <2>2. /\ old.step = "CHECKED" /\ Goes(w, [old EXCEPT !.step = "DIALLED"])
        /\ dialled' = dialled \cup {old.call}
        /\ UNCHANGED <<calls, hooks, applied, offered, started, uploads, consent, raced>>
    BY <1>2, <2>1 DEF Dial, Works
  <2>3. PICK t : t = [old EXCEPT !.step = "DIALLED"]
    OBVIOUS
  <2>4. old \in [step: {"CHECKED", "DIALLED", "INSERTED"}, key: CallKey, call: Call]
    BY <2>1, <2>2 DEF CallTask
  <2>5. t \in [step: {"CHECKED", "DIALLED", "INSERTED"}, key: CallKey, call: Call] /\ t.step = "DIALLED"
    BY <2>3, <2>4
  <2>6. t \in CallTask /\ CallTaskKnows(t)
    BY <2>5 DEF CallTask, CallTaskKnows
  <2>7. dialled' \subseteq Call
    BY <2>2, <2>4 DEF CallInv, CallTypeOK
  <2> QED BY <2>2, <2>3, <2>6, <2>7, CallsRest DEF CallInv, CallTypeOK
<1>3. CASE storeCommandReceipt(w)
  <2>1. Asleep \in CallTask /\ CallTaskKnows(Asleep)
    BY CallTasksMade DEF CallTaskKnows, Asleep
  <2> QED BY <1>3, <2>1, CallsRest DEF storeCommandReceipt, CallInv, CallTypeOK
<1> QED BY <1>1, <1>2, <1>3

LEMMA ReadingKeeps ==
    ASSUME CallInv, NEW w \in CallWorker, NEW e \in Event, NEW h \in BOOLEAN,
           NEW todo \in SUBSET Event, Reads(w, e, h, todo), UNCHANGED callRows
    PROVE  CallInv'
<1>1. EventOf[e].call \in Call
  BY CallsAssumption DEF Fact
<1>2. PICK x : x = calls[EventOf[e].call]
  OBVIOUS
<1>3. x \in CallRow \cup {NoCall}
  BY <1>1, <1>2 DEF CallInv, CallTypeOK
<1>4. PICK t : t = [step |-> "APPLYING", event |-> e, hook |-> h, todo |-> todo, seen |-> x]
  OBVIOUS
<1>5. t \in CallTask /\ CallTaskKnows(t) /\ Goes(w, t)
  BY <1>2, <1>3, <1>4, CallTasksMade DEF CallTaskKnows, Known, Reads
<1> QED BY <1>5, CallsRest DEF CallInv, CallTypeOK, callRows

LEMMA EventsKeep ==
    ASSUME CallInv, NEW w \in CallWorker,
           (\E e \in Event : receiveWebhook(w, e)) \/ Sync(w) \/ reconcile(w)
    PROVE  CallInv'
<1>1. CASE \E e \in Event : receiveWebhook(w, e)
  <2>1. PICK e \in Event : Reads(w, e, TRUE, {}) /\ UNCHANGED callRows
    BY <1>1 DEF receiveWebhook
  <2>2. TRUE \in BOOLEAN /\ {} \in SUBSET Event
    OBVIOUS
  <2> QED BY <2>1, <2>2, ReadingKeeps
<1>2. CASE Sync(w)
  <2>1. PICK t : t = [step |-> "SYNCING", todo |-> {e \in offered : EventOf[e].call \in dialled}]
    OBVIOUS
  <2>2. t \in CallTask /\ CallTaskKnows(t) /\ Goes(w, t)
    BY <1>2, <2>1, CallTasksMade DEF Sync, CallTaskKnows, CallInv, CallTypeOK
  <2> QED BY <1>2, <2>2, CallsRest DEF Sync, CallInv, CallTypeOK
<1>3. CASE reconcile(w)
  <2>1. /\ callTasks[w].step = "SYNCING" /\ UNCHANGED callRows
        /\ IF callTasks[w].todo = {} THEN Goes(w, Asleep)
           ELSE \E e \in callTasks[w].todo : Reads(w, e, FALSE, callTasks[w].todo \ {e})
    BY <1>3 DEF reconcile, Works
  <2>2. callTasks[w].todo \in SUBSET Event
    BY <2>1, CallTaskFields DEF CallInv, CallTypeOK
  <2>3. Asleep \in CallTask /\ CallTaskKnows(Asleep)
    BY CallTasksMade DEF CallTaskKnows, Asleep
  <2>4. CASE callTasks[w].todo = {}
    BY <2>1, <2>3, <2>4, CallsRest DEF CallInv, CallTypeOK, callRows
  <2>5. CASE callTasks[w].todo # {}
    BY <2>1, <2>2, <2>5, ReadingKeeps
  <2> QED BY <2>4, <2>5
<1> QED BY <1>1, <1>2, <1>3

LEMMA BeginsKeep ==
    ASSUME CallInv, NEW w \in CallWorker, NEW c \in Call,
           BeginOutcome(w, c) \/ BeginException(w, c)
    PROVE  CallInv'
<1>1. PICK x : x = calls[c]
  OBVIOUS
<1>2. x \in CallRow /\ Known(c) /\ UNCHANGED callRows
  BY <1>1 DEF BeginOutcome, BeginException, Known, CallInv, CallTypeOK
<1>3. CASE BeginOutcome(w, c)
  <2>1. PICK t : t = [step |-> "OUTCOME", call |-> c, seen |-> x]
    OBVIOUS
  <2>2. t \in CallTask /\ CallTaskKnows(t) /\ Goes(w, t)
    BY <1>1, <1>2, <1>3, <2>1, CallTasksMade DEF BeginOutcome, CallTaskKnows
  <2> QED BY <1>2, <2>2, CallsRest DEF CallInv, CallTypeOK, callRows
<1>4. CASE BeginException(w, c)
  <2>1. PICK t : t = [step |-> "EXCEPTION", call |-> c, seen |-> x]
    OBVIOUS
  <2>2. t \in CallTask /\ CallTaskKnows(t) /\ Goes(w, t)
    BY <1>1, <1>2, <1>4, <2>1, CallTasksMade DEF BeginException, CallTaskKnows
  <2> QED BY <1>2, <2>2, CallsRest DEF CallInv, CallTypeOK, callRows
<1> QED BY <1>3, <1>4

LEMMA UploadsKeep ==
    ASSUME CallInv, NEW w \in CallWorker,
           \/ \E u \in Upload, c \in Call : PrepareUpload(w, u, c) \/ VerifyUpload(w, u, c)
           \/ completeManualRecordingUpload(w) \/ Fails(w)
    PROVE  CallInv'
<1>1. ASSUME NEW u \in Upload, NEW c \in Call, PrepareUpload(w, u, c) \/ VerifyUpload(w, u, c)
      PROVE  CallInv'
  <2>1. PICK s \in {"PREPARED", "VERIFIED"} : Goes(w, [step |-> s, upload |-> u, call |-> c])
    BY <1>1 DEF PrepareUpload, VerifyUpload
  <2>2. PICK t : t = [step |-> s, upload |-> u, call |-> c]
    OBVIOUS
  <2>3. t \in CallTask /\ CallTaskKnows(t) /\ Goes(w, t) /\ UNCHANGED callRows
    BY <1>1, <2>1, <2>2, CallTasksMade DEF PrepareUpload, VerifyUpload, CallTaskKnows
  <2> QED BY <2>3, CallsRest DEF CallInv, CallTypeOK, callRows
<1>2. Asleep \in CallTask /\ CallTaskKnows(Asleep)
  BY CallTasksMade DEF CallTaskKnows, Asleep
<1>3. CASE completeManualRecordingUpload(w)
  BY <1>2, <1>3, CallsRest DEF completeManualRecordingUpload, CallInv, CallTypeOK
<1>4. CASE Fails(w)
  BY <1>2, <1>4, CallsRest DEF Fails, CallInv, CallTypeOK, callRows
<1> QED BY <1>1, <1>3, <1>4

-----------------------------------------------------------------------------
(* A step that writes one call and applies events of that call only: it is   *)
(* shown, or the call is raced.                                              *)
LEMMA OneCall ==
    ASSUME CallInv, NEW w \in CallWorker, NEW t \in CallTask, Goes(w, t), CallTaskKnows(t),
           NEW c \in Call, NEW row \in CallRow, calls' = [calls EXCEPT ![c] = row],
           applied \subseteq applied', \A e \in applied' \ applied : EventOf[e].call = c,
           raced \subseteq raced',
           c \notin raced' => ShowsEvents(c)' /\ ExceptionShows(c)'
    PROVE  /\ callTasks' \in [CallWorker -> CallTask] /\ calls' \in [Call -> CallRow \cup {NoCall}]
           /\ CallTasksKnow' /\ AppliedKnown' /\ CallsShow'
<1>1. row # NoCall
  BY DEF CallRow, CallStatus, NoCall
<1>2. /\ calls' \in [Call -> CallRow \cup {NoCall}] /\ calls'[c] = row
      /\ \A d \in Call \ {c} : calls'[d] = calls[d]
      /\ \A d : d \notin Call => calls'[d] = calls[d]
  <2>1. calls \in [Call -> CallRow \cup {NoCall}]
    BY DEF CallInv, CallTypeOK
  <2> QED BY <2>1
<1>3. \A d : Known(d) => Known(d)'
  BY <1>1, <1>2 DEF Known
<1>4. ASSUME NEW v \in CallWorker PROVE CallTaskKnows(callTasks[v])'
  <2>1. PICK x : x = callTasks'[v]
    OBVIOUS
  <2>2. CallTaskKnows(x)
    BY <2>1, Went DEF CallInv, CallTasksKnow
  <2> QED BY <1>3, <2>1, <2>2, KnowsOn
<1>5. AppliedKnown'
  BY <1>1, <1>2, <1>3 DEF CallInv, AppliedKnown, Known
<1>6. CallsShow'
  <2> SUFFICES ASSUME NEW d \in Call, d \notin raced', Known(d)'
               PROVE  ShowsEvents(d)' /\ ExceptionShows(d)'
    BY DEF CallsShow
  <2>1. CASE d = c BY <2>1
  <2>2. CASE d # c
    <3>1. calls'[d] = calls[d] /\ d \notin raced
      BY <1>2, <2>2
    <3>2. {e \in applied' : EventOf[e].call = d} = {e \in applied : EventOf[e].call = d}
      BY <2>2
    <3>3. ShowsEvents(d) /\ ExceptionShows(d)
      BY <3>1 DEF CallInv, CallsShow, Known
    <3> QED BY <3>1, <3>2, <3>3 DEF ShowsEvents, ExceptionShows, Said
  <2> QED BY <2>1, <2>2
<1> QED BY <1>2, <1>4, <1>5, <1>6, Went DEF CallInv, CallTasksKnow

LEMMA NewCallShows ==
    ASSUME CallInv, NEW c \in Call, ~Known(c), applied' = applied,
           NEW s \in CallStatus, NEW r \in {"NOT_REQUIRED", "REQUIRED", "RECORDED"}, NEW at \in Nat,
           s = "COMPLETED" => r # "NOT_REQUIRED",
           calls'[c] = NewCall(s, r, at)
    PROVE  ShowsEvents(c)' /\ ExceptionShows(c)'
<1>1. Said(c)' = {}
  BY DEF CallInv, AppliedKnown, Said
<1>2. /\ calls'[c].status = s /\ calls'[c].requirement = r /\ calls'[c].exception = FALSE
      /\ calls'[c].outcome <=> r = "RECORDED"
  <2>1. PICK b \in BOOLEAN : b = (r = "RECORDED")
    OBVIOUS
  <2>2. calls'[c] = [status |-> s, requirement |-> r, at |-> at, outcome |-> b, exception |-> FALSE]
    BY <2>1 DEF NewCall
  <2>3. /\ calls'[c].status = s /\ calls'[c].requirement = r /\ calls'[c].exception = FALSE
        /\ calls'[c].outcome = b
    BY <2>2
  <2>4. CASE b = TRUE
    BY <2>1, <2>3, <2>4
  <2>5. CASE b = FALSE
    BY <2>1, <2>3, <2>5
  <2> QED BY <2>1, <2>4, <2>5
<1> QED BY <1>1, <1>2 DEF ShowsEvents, ExceptionShows

LEMMA InsertCallKeeps ==
    ASSUME CallInv, NEW w \in CallWorker, InsertCall(w) PROVE CallInv'
<1>1. PICK old \in CallTask : old = callTasks[w]
  BY DEF CallInv, CallTypeOK
<1>2. /\ old.step \in {"CHECKED", "DIALLED"} /\ ~Known(old.call)
      /\ calls' = [calls EXCEPT ![old.call] = NewCall("REQUESTED", "NOT_REQUIRED", 1)]
      /\ Goes(w, [old EXCEPT !.step = "INSERTED"])
      /\ UNCHANGED <<hooks, applied, dialled, offered, started, uploads, consent, raced>>
  BY <1>1 DEF InsertCall, Works
<1>3. PICK t : t = [old EXCEPT !.step = "INSERTED"]
  OBVIOUS
<1>4. /\ old \in [step: {"CHECKED", "DIALLED", "INSERTED"}, key: CallKey, call: Call]
      /\ old.call \in Call
  BY <1>1, <1>2 DEF CallTask
<1>5. t \in [step: {"CHECKED", "DIALLED", "INSERTED"}, key: CallKey, call: Call] /\ t.step = "INSERTED"
  BY <1>3, <1>4
<1>6. t \in CallTask /\ CallTaskKnows(t)
  BY <1>5 DEF CallTask, CallTaskKnows
<1>7. PICK row : row = NewCall("REQUESTED", "NOT_REQUIRED", 1)
  OBVIOUS
<1>8. row \in CallRow
  BY <1>7 DEF NewCall, CallRow, CallStatus, Requirement
<1>9. calls'[old.call] = row
  BY <1>2, <1>4, <1>7 DEF CallInv, CallTypeOK
<1>10. ShowsEvents(old.call)' /\ ExceptionShows(old.call)'
  BY <1>2, <1>4, <1>7, <1>9, NewCallShows DEF CallStatus
<1>11. /\ callTasks' \in [CallWorker -> CallTask] /\ calls' \in [Call -> CallRow \cup {NoCall}]
       /\ CallTasksKnow' /\ AppliedKnown' /\ CallsShow'
  <2>1. PICK c \in Call : c = old.call
    BY <1>4
  <2>2. ShowsEvents(c)' /\ ExceptionShows(c)'
    BY <1>10, <2>1
  <2> QED BY <1>2, <1>3, <1>6, <1>7, <1>8, <2>1, <2>2, OneCall
<1> QED BY <1>2, <1>11 DEF CallInv, CallTypeOK

LEMMA beginManualKeeps ==
    ASSUME CallInv, NEW w \in CallWorker, beginManualRecordingUpload(w) PROVE CallInv'
<1>1. PICK old \in CallTask : old = callTasks[w]
  BY DEF CallInv, CallTypeOK
<1>2. /\ old.step = "PREPARED" /\ Goes(w, Asleep)
      /\ uploads' = [uploads EXCEPT ![old.upload] = "PENDING"]
      /\ IF Known(old.call) THEN UNCHANGED calls
         ELSE \E r \in {"REQUIRED", "RECORDED"} :
                 calls' = [calls EXCEPT ![old.call] = NewCall("COMPLETED", r, 0)]
      /\ UNCHANGED <<hooks, applied, dialled, offered, started, consent, raced>>
  BY <1>1 DEF beginManualRecordingUpload, Works
<1>3. old.upload \in Upload /\ old.call \in Call
  BY <1>2, CallTaskFields
<1>4. uploads' \in [Upload -> {"NONE", "PENDING", "AVAILABLE"}]
  BY <1>2, <1>3 DEF CallInv, CallTypeOK
<1>5. Asleep \in CallTask /\ CallTaskKnows(Asleep)
  BY CallTasksMade DEF CallTaskKnows, Asleep
<1>6. CASE Known(old.call)
  BY <1>2, <1>4, <1>5, <1>6, CallsRest DEF CallInv, CallTypeOK
<1>7. CASE ~Known(old.call)
  <2>1. PICK r \in {"REQUIRED", "RECORDED"} :
              calls' = [calls EXCEPT ![old.call] = NewCall("COMPLETED", r, 0)]
    BY <1>2, <1>7
  <2>2. PICK row : row = NewCall("COMPLETED", r, 0)
    OBVIOUS
  <2>3. row \in CallRow
    BY <2>1, <2>2 DEF NewCall, CallRow, CallStatus, Requirement
  <2>4. PICK c \in Call : c = old.call
    BY <1>3
  <2>5. calls'[c] = row
    BY <2>1, <2>2, <2>4 DEF CallInv, CallTypeOK
  <2>6. ShowsEvents(c)' /\ ExceptionShows(c)'
    BY <1>2, <1>7, <2>1, <2>2, <2>4, <2>5, NewCallShows DEF CallStatus
  <2>7. /\ callTasks' \in [CallWorker -> CallTask] /\ calls' \in [Call -> CallRow \cup {NoCall}]
        /\ CallTasksKnow' /\ AppliedKnown' /\ CallsShow'
    BY <1>2, <1>5, <2>1, <2>2, <2>3, <2>4, <2>6, OneCall
  <2> QED BY <1>2, <1>4, <2>7 DEF CallInv, CallTypeOK
<1> QED BY <1>6, <1>7

(* The outcome and the exception.                                            *)
LEMMA Marked ==
    ASSUME NEW x \in CallRow
    PROVE  /\ [x EXCEPT !.requirement = "RECORDED", !.outcome = TRUE] \in CallRow
           /\ [x EXCEPT !.requirement = "EXCEPTION", !.exception = TRUE] \in CallRow
BY DEF CallRow, Requirement

LEMMA recordOutcomeKeeps ==
    ASSUME CallInv, NEW w \in CallWorker, recordOutcome(w) PROVE CallInv'
<1>1. PICK old \in CallTask : old = callTasks[w]
  BY DEF CallInv, CallTypeOK
<1>2. PICK c : c = old.call
  OBVIOUS
<1>3. /\ old.step = "OUTCOME" /\ Races(c, old.seen) /\ Goes(w, Asleep)
      /\ calls' = [calls EXCEPT ![c].requirement = "RECORDED", ![c].outcome = TRUE]
      /\ UNCHANGED <<hooks, applied, dialled, offered, started, uploads, consent>>
  BY <1>1, <1>2 DEF recordOutcome, Works
<1>4. c \in Call /\ old.seen \in CallRow /\ Known(c) /\ old.seen.requirement # "EXCEPTION"
  BY <1>1, <1>2, <1>3, CallTaskFields DEF CallInv, CallTasksKnow, CallTaskKnows
<1>5. PICK x \in CallRow : x = calls[c]
  BY <1>4 DEF CallInv, CallTypeOK, Known
<1>6. PICK row : row = [x EXCEPT !.requirement = "RECORDED", !.outcome = TRUE]
  OBVIOUS
<1>7. row \in CallRow
  BY <1>5, <1>6, Marked
<1>8. calls' = [calls EXCEPT ![c] = row]
  BY <1>3, <1>4, <1>5, <1>6 DEF CallInv, CallTypeOK
<1>9. calls'[c] = row
  BY <1>4, <1>8 DEF CallInv, CallTypeOK
<1>10. raced \subseteq raced' /\ (c \notin raced' => x = old.seen /\ c \notin raced)
       /\ raced' \subseteq Call
  BY <1>3, <1>4, <1>5 DEF Races, CallInv, CallTypeOK
<1>11. ASSUME c \notin raced' PROVE ShowsEvents(c)' /\ ExceptionShows(c)'
  <2>1. ShowsEvents(c) /\ ExceptionShows(c) /\ x.requirement # "EXCEPTION"
    BY <1>4, <1>10, <1>11 DEF CallInv, CallsShow
  <2>2. /\ row.status = x.status /\ row.at = x.at /\ row.exception = x.exception
        /\ row.requirement = "RECORDED" /\ row.outcome = TRUE
    BY <1>5, <1>6 DEF CallRow
  <2>3. Said(c)' = Said(c)
    BY <1>3 DEF Said
  <2>4. x.exception = FALSE
    BY <1>5, <2>1 DEF ExceptionShows, CallRow
  <2> QED BY <1>5, <1>9, <2>1, <2>2, <2>3, <2>4 DEF ShowsEvents, ExceptionShows
<1>12. Asleep \in CallTask /\ CallTaskKnows(Asleep)
  BY CallTasksMade DEF CallTaskKnows, Asleep
<1>13. /\ callTasks' \in [CallWorker -> CallTask] /\ calls' \in [Call -> CallRow \cup {NoCall}]
       /\ CallTasksKnow' /\ AppliedKnown' /\ CallsShow'
  BY <1>3, <1>4, <1>7, <1>8, <1>10, <1>11, <1>12, OneCall
<1> QED BY <1>3, <1>10, <1>13 DEF CallInv, CallTypeOK

LEMMA approveKeeps ==
    ASSUME CallInv, NEW w \in CallWorker, approveOutcomeException(w) PROVE CallInv'
<1>1. PICK old \in CallTask : old = callTasks[w]
  BY DEF CallInv, CallTypeOK
<1>2. PICK c : c = old.call
  OBVIOUS
<1>3. /\ old.step = "EXCEPTION" /\ Races(c, old.seen) /\ Goes(w, Asleep)
      /\ calls' = [calls EXCEPT ![c].requirement = "EXCEPTION", ![c].exception = TRUE]
      /\ UNCHANGED <<hooks, applied, dialled, offered, started, uploads, consent>>
  BY <1>1, <1>2 DEF approveOutcomeException, Works
<1>4. c \in Call /\ old.seen \in CallRow /\ Known(c) /\ old.seen.requirement = "REQUIRED"
  BY <1>1, <1>2, <1>3, CallTaskFields DEF CallInv, CallTasksKnow, CallTaskKnows
<1>5. PICK x \in CallRow : x = calls[c]
  BY <1>4 DEF CallInv, CallTypeOK, Known
<1>6. PICK row : row = [x EXCEPT !.requirement = "EXCEPTION", !.exception = TRUE]
  OBVIOUS
<1>7. row \in CallRow
  BY <1>5, <1>6, Marked
<1>8. calls' = [calls EXCEPT ![c] = row]
  BY <1>3, <1>4, <1>5, <1>6 DEF CallInv, CallTypeOK
<1>9. calls'[c] = row
  BY <1>4, <1>8 DEF CallInv, CallTypeOK
<1>10. raced \subseteq raced' /\ (c \notin raced' => x = old.seen /\ c \notin raced)
       /\ raced' \subseteq Call
  BY <1>3, <1>4, <1>5 DEF Races, CallInv, CallTypeOK
<1>11. ASSUME c \notin raced' PROVE ShowsEvents(c)' /\ ExceptionShows(c)'
  <2>1. ShowsEvents(c) /\ x.requirement = "REQUIRED"
    BY <1>4, <1>10, <1>11 DEF CallInv, CallsShow
  <2>2. /\ row.status = x.status /\ row.at = x.at /\ row.outcome = x.outcome
        /\ row.requirement = "EXCEPTION" /\ row.exception = TRUE
    BY <1>5, <1>6 DEF CallRow
  <2>3. Said(c)' = Said(c)
    BY <1>3 DEF Said
  <2>4. x.outcome = FALSE
    BY <1>5, <2>1 DEF ShowsEvents, CallRow
  <2> QED BY <1>5, <1>9, <2>1, <2>2, <2>3, <2>4 DEF ShowsEvents, ExceptionShows
<1>12. Asleep \in CallTask /\ CallTaskKnows(Asleep)
  BY CallTasksMade DEF CallTaskKnows, Asleep
<1>13. /\ callTasks' \in [CallWorker -> CallTask] /\ calls' \in [Call -> CallRow \cup {NoCall}]
       /\ CallTasksKnow' /\ AppliedKnown' /\ CallsShow'
  BY <1>3, <1>4, <1>7, <1>8, <1>10, <1>11, <1>12, OneCall
<1> QED BY <1>3, <1>10, <1>13 DEF CallInv, CallTypeOK

-----------------------------------------------------------------------------
(* What an event makes of the row it is written to.                          *)
LEMMA WrittenRow ==
    ASSUME NEW x \in CallRow, NEW fact \in Fact
    PROVE  LET y == Written(x, x, fact) IN
           /\ y \in CallRow
           /\ y.at = Latest(x, fact) /\ y.at \in Nat /\ y.at >= x.at /\ y.at >= fact.at
           /\ y.outcome = x.outcome /\ y.exception = x.exception
           /\ fact.at >= x.at => /\ y.status = fact.status /\ y.at = fact.at
                                 /\ y.requirement = Required(x, fact.status)
           /\ fact.at < x.at => /\ y.status = x.status /\ y.at = x.at
                                /\ y.requirement = x.requirement
<1>1. PICK y : y = Written(x, x, fact)
  OBVIOUS
<1>2. /\ x.at \in Nat /\ fact.at \in Nat /\ Latest(x, fact) \in Nat /\ fact.status \in CallStatus
      /\ Latest(x, fact) >= x.at /\ Latest(x, fact) >= fact.at
      /\ fact.at >= x.at => Latest(x, fact) = fact.at
      /\ fact.at < x.at => Latest(x, fact) = x.at
      /\ Required(x, fact.status) \in Requirement
  BY DEF Latest, Required, CallRow, Fact, Requirement
<1>3. CASE fact.at >= x.at
  <2>1. y = [x EXCEPT !.status = fact.status, !.requirement = Required(x, fact.status),
                      !.at = Latest(x, fact)]
    BY <1>1, <1>3 DEF Written, Updates
  <2>2. /\ y \in CallRow /\ y.at = Latest(x, fact) /\ y.status = fact.status
        /\ y.requirement = Required(x, fact.status)
        /\ y.outcome = x.outcome /\ y.exception = x.exception
    BY <1>2, <2>1 DEF CallRow
  <2> QED BY <1>1, <1>2, <1>3, <2>2
<1>4. CASE fact.at < x.at
  <2>1. y = [x EXCEPT !.at = Latest(x, fact)]
    BY <1>1, <1>2, <1>4 DEF Written, Updates
  <2>2. /\ y \in CallRow /\ y.at = Latest(x, fact) /\ y.status = x.status
        /\ y.requirement = x.requirement
        /\ y.outcome = x.outcome /\ y.exception = x.exception
    BY <1>2, <2>1 DEF CallRow
  <2> QED BY <1>1, <1>2, <1>4, <2>2
<1> QED BY <1>2, <1>3, <1>4

LEMMA WrittenOver ==
    ASSUME NEW x \in CallRow, NEW seen \in CallRow, NEW fact \in Fact
    PROVE  Written(seen, x, fact) \in CallRow
BY DEF Written, Updates, Latest, Required, CallRow, Fact, Requirement

LEMMA EventShows ==
    ASSUME CallInv, NEW c \in Call, NEW e \in Event, EventOf[e].call = c,
           e \notin applied, applied' = applied \cup {e},
           NEW x \in CallRow, calls'[c] = Written(x, x, EventOf[e]),
           \A d \in Said(c) : EventOf[d].at <= x.at,
           \A d \in Said(c) :
              (\A f \in Said(c) \cup {d} : EventOf[f].at < EventOf[d].at \/ f = d)
                 /\ EventOf[d].at = x.at
                 => x.status = EventOf[d].status,
           x.status = "COMPLETED" => x.requirement # "NOT_REQUIRED",
           x.requirement = "RECORDED" => x.outcome,
           x.requirement = "EXCEPTION" => x.exception,
           x.outcome => ~x.exception /\ x.requirement = "RECORDED",
           x.exception => x.requirement = "EXCEPTION"
    PROVE  ShowsEvents(c)' /\ ExceptionShows(c)'
<1> DEFINE fact == EventOf[e]
<1>1. fact \in Fact /\ fact.at \in Nat /\ \A d \in applied : EventOf[d].at \in Nat
  BY CallsAssumption DEF Fact, CallInv, CallTypeOK
<1>2. PICK y : y = Written(x, x, fact) /\ calls'[c] = y
  OBVIOUS
<1>3. /\ y \in CallRow
      /\ y.at \in Nat /\ x.at \in Nat /\ y.at >= x.at /\ y.at >= fact.at
      /\ y.outcome = x.outcome /\ y.exception = x.exception
      /\ fact.at >= x.at => /\ y.status = fact.status /\ y.at = fact.at
                            /\ y.requirement = Required(x, fact.status)
      /\ fact.at < x.at => /\ y.status = x.status /\ y.at = x.at
                           /\ y.requirement = x.requirement
  BY <1>1, <1>2, WrittenRow DEF CallRow
<1>4. Said(c)' = Said(c) \cup {e} /\ e \notin Said(c)
  BY DEF Said
<1>5. \A d \in Said(c)' : EventOf[d].at <= y.at
  BY <1>1, <1>3, <1>4 DEF Said
<1>6. ASSUME NEW d \in Said(c)', EventOf[d].at = y.at,
             \A f \in Said(c)' \cup {d} : EventOf[f].at < EventOf[d].at \/ f = d
      PROVE  y.status = EventOf[d].status
  <2>1. CASE d = e
    BY <1>1, <1>3, <1>6, <2>1
  <2>2. CASE d \in Said(c)
    <3>1. fact.at < EventOf[d].at
      BY <1>4, <1>6, <2>2
    <3>2. fact.at < x.at /\ EventOf[d].at = x.at
      BY <1>1, <1>3, <1>6, <3>1, <2>2 DEF Said
    <3>3. x.status = EventOf[d].status
      BY <1>4, <1>6, <2>2, <3>2
    <3> QED BY <1>3, <3>2, <3>3
  <2> QED BY <1>4, <2>1, <2>2
<1>7. /\ y.status = "COMPLETED" => y.requirement # "NOT_REQUIRED"
      /\ y.requirement = "RECORDED" => y.outcome
      /\ y.requirement = "EXCEPTION" => y.exception
      /\ y.outcome => ~y.exception /\ y.requirement = "RECORDED"
      /\ y.exception => y.requirement = "EXCEPTION"
  <2>1. CASE fact.at >= x.at
    BY <1>3, <2>1 DEF Required
  <2>2. CASE fact.at < x.at
    BY <1>3, <2>2
  <2> QED BY <1>1, <1>3, <2>1, <2>2
<1> QED BY <1>2, <1>5, <1>6, <1>7 DEF ShowsEvents, ExceptionShows

LEMMA ApplyKeeps ==
    ASSUME CallInv, NEW w \in CallWorker, applyProviderEvent(w), Apply(w) PROVE CallInv'
<1>1. PICK old \in CallTask : old = callTasks[w] /\ old.step = "APPLYING"
  BY DEF applyProviderEvent, Works, CallInv, CallTypeOK
<1>2. /\ old.event \in Event /\ old.hook \in BOOLEAN /\ old.todo \in SUBSET Event
      /\ old.seen \in CallRow \cup {NoCall}
  BY <1>1, CallTaskFields
<1>3. PICK fact \in Fact : fact = EventOf[old.event]
  BY <1>2, CallsAssumption
<1>4. PICK c \in Call : c = fact.call
  BY DEF Fact
<1>5. PICK base : base = IF old.seen = NoCall THEN NewCall("REQUESTED", "NOT_REQUIRED", 0) ELSE old.seen
  OBVIOUS
<1>6. PICK row : row = Written(base, IF old.seen = NoCall THEN base ELSE calls[c], fact)
  OBVIOUS
<1>7. /\ old.seen = NoCall => ~Known(c)
      /\ old.event \notin applied
      /\ calls' = [calls EXCEPT ![c] = row]
      /\ applied' = applied \cup {old.event}
      /\ Hook(old, "PROCESSED") /\ Races(c, old.seen)
  <2> DEFINE written(x) == Written(base, IF old.seen = NoCall THEN base ELSE x, fact)
  <2>1. calls' = [calls EXCEPT ![c] = written(@)]
    BY <1>1, <1>3, <1>4, <1>5 DEF Apply
  <2>2. calls' = [calls EXCEPT ![c] = row]
    BY <1>6, <2>1
  <2> QED BY <1>1, <1>3, <1>4, <2>2 DEF Apply
<1>8. base \in CallRow
  BY <1>2, <1>5 DEF NewCall, CallRow, CallStatus, Requirement
<1>9. old.seen # NoCall => calls[c] \in CallRow
  BY <1>1, <1>3, <1>4 DEF CallInv, CallTypeOK, CallTasksKnow, CallTaskKnows, Known
<1>10. row \in CallRow
  BY <1>6, <1>8, <1>9, WrittenOver
<1>11. /\ raced \subseteq raced' /\ raced' \subseteq Call
       /\ c \notin raced' => calls[c] = old.seen /\ c \notin raced
  BY <1>7 DEF Races, CallInv, CallTypeOK
<1>12. hooks' \in [Event -> {"NONE", "PROCESSED", "FAILED"}]
  BY <1>2, <1>7 DEF Hook, CallInv, CallTypeOK
<1>13. ASSUME c \notin raced' PROVE ShowsEvents(c)' /\ ExceptionShows(c)'
  <2>1. PICK x \in CallRow : x = base
    BY <1>8
  <2>2. row = Written(x, x, fact) /\ calls'[c] = row
    <3>1. calls'[c] = row
      BY <1>7 DEF CallInv, CallTypeOK
    <3>2. CASE old.seen = NoCall
      BY <1>5, <1>6, <2>1, <3>1, <3>2
    <3>3. CASE old.seen # NoCall
      BY <1>5, <1>6, <1>11, <1>13, <2>1, <3>1, <3>3
    <3> QED BY <3>2, <3>3
  <2>3. /\ \A d \in Said(c) : EventOf[d].at <= x.at
        /\ \A d \in Said(c) :
              (\A f \in Said(c) \cup {d} : EventOf[f].at < EventOf[d].at \/ f = d)
                 /\ EventOf[d].at = x.at
                 => x.status = EventOf[d].status
        /\ x.status = "COMPLETED" => x.requirement # "NOT_REQUIRED"
        /\ x.requirement = "RECORDED" => x.outcome
        /\ x.requirement = "EXCEPTION" => x.exception
        /\ x.outcome => ~x.exception /\ x.requirement = "RECORDED"
        /\ x.exception => x.requirement = "EXCEPTION"
    <3>1. CASE old.seen = NoCall
      <4>1. Said(c) = {}
        BY <1>7, <3>1 DEF CallInv, AppliedKnown, Said
      <4>2. /\ x.status = "REQUESTED" /\ x.requirement = "NOT_REQUIRED"
            /\ x.outcome = FALSE /\ x.exception = FALSE
        BY <1>5, <2>1, <3>1 DEF NewCall
      <4> QED BY <4>1, <4>2
    <3>2. CASE old.seen # NoCall
      <4>1. x = calls[c] /\ ShowsEvents(c) /\ ExceptionShows(c)
        BY <1>5, <1>11, <1>13, <2>1, <3>2 DEF CallInv, CallsShow, Known
      <4> QED BY <4>1 DEF ShowsEvents, ExceptionShows
    <3> QED BY <3>1, <3>2
  <2> QED BY <1>2, <1>3, <1>4, <1>7, <2>1, <2>2, <2>3, EventShows
<1>14. PICK t : t = IF old.hook THEN Asleep ELSE [step |-> "SYNCING", todo |-> old.todo]
  OBVIOUS
<1>15. t \in CallTask /\ CallTaskKnows(t) /\ Goes(w, t)
  BY <1>1, <1>2, <1>14, CallTasksMade DEF CallTaskKnows, Asleep, applyProviderEvent, Continue
<1>16. /\ callTasks' \in [CallWorker -> CallTask] /\ calls' \in [Call -> CallRow \cup {NoCall}]
       /\ CallTasksKnow' /\ AppliedKnown' /\ CallsShow'
  <2>1. \A e \in applied' \ applied : EventOf[e].call = c
    BY <1>3, <1>4, <1>7
  <2> QED BY <1>7, <1>10, <1>11, <1>13, <1>15, <2>1, OneCall
<1> QED BY <1>2, <1>7, <1>11, <1>12, <1>16 DEF CallInv, CallTypeOK, applyProviderEvent

LEMMA applyProviderEventKeeps ==
    ASSUME CallInv, NEW w \in CallWorker, applyProviderEvent(w) PROVE CallInv'
<1>1. CASE Apply(w)
  BY <1>1, ApplyKeeps
<1>2. CASE NoMatch(w) \/ AppliedBefore(w)
  <2>1. PICK old \in CallTask : old = callTasks[w] /\ old.step = "APPLYING"
    BY DEF applyProviderEvent, Works, CallInv, CallTypeOK
  <2>2. old.event \in Event /\ old.hook \in BOOLEAN /\ old.todo \in SUBSET Event
    BY <2>1, CallTaskFields
  <2>3. PICK t : t = IF old.hook THEN Asleep ELSE [step |-> "SYNCING", todo |-> old.todo]
    OBVIOUS
  <2>4. t \in CallTask /\ CallTaskKnows(t) /\ Goes(w, t)
    BY <2>1, <2>2, <2>3, CallTasksMade DEF CallTaskKnows, Asleep, applyProviderEvent, Continue
  <2>5. Hook(old, "FAILED") /\ UNCHANGED <<calls, applied, raced>>
    BY <1>2, <2>1 DEF NoMatch, AppliedBefore
  <2>6. hooks' \in [Event -> {"NONE", "PROCESSED", "FAILED"}]
    BY <2>2, <2>5 DEF Hook, CallInv, CallTypeOK
  <2> QED BY <2>4, <2>5, <2>6, CallsRest DEF CallInv, CallTypeOK, applyProviderEvent
<1> QED BY <1>1, <1>2 DEF applyProviderEvent

-----------------------------------------------------------------------------
LEMMA CallStep ==
    ASSUME CallInv, [CallNext]_callVars PROVE CallInv'
<1>1. ASSUME NEW w \in CallWorker,
             \/ (\E k \in CallKey, c \in Call : startCall(w, k, c)) \/ Dial(w)
             \/ InsertCall(w) \/ storeCommandReceipt(w)
      PROVE  CallInv'
  BY <1>1, DiallingKeeps, InsertCallKeeps
<1>2. ASSUME NEW w \in CallWorker,
             \/ (\E e \in Event : receiveWebhook(w, e)) \/ Sync(w) \/ reconcile(w)
             \/ applyProviderEvent(w)
      PROVE  CallInv'
  BY <1>2, EventsKeep, applyProviderEventKeeps
<1>3. ASSUME NEW w \in CallWorker,
             \/ \E c \in Call : BeginOutcome(w, c) \/ BeginException(w, c)
             \/ recordOutcome(w) \/ approveOutcomeException(w)
      PROVE  CallInv'
  BY <1>3, BeginsKeep, recordOutcomeKeeps, approveKeeps
<1>4. ASSUME NEW w \in CallWorker,
             \/ \E u \in Upload, c \in Call : PrepareUpload(w, u, c) \/ VerifyUpload(w, u, c)
             \/ beginManualRecordingUpload(w) \/ completeManualRecordingUpload(w) \/ Fails(w)
      PROVE  CallInv'
  BY <1>4, UploadsKeep, beginManualKeeps
<1>5. CASE Withdraw \/ UNCHANGED callVars
  <2>1. /\ UNCHANGED <<calls, hooks, applied, dialled, offered, started, uploads, raced, callTasks>>
        /\ consent' \in BOOLEAN
    BY <1>5 DEF Withdraw, callVars, CallInv, CallTypeOK
  <2>2. CallTypeOK'
    BY <2>1 DEF CallInv, CallTypeOK
  <2>3. CallTasksKnow' /\ AppliedKnown' /\ CallsShow'
    BY <2>1 DEF CallInv, CallTasksKnow, CallTaskKnows, AppliedKnown, CallsShow, Known,
                ShowsEvents, ExceptionShows, Said
  <2> QED BY <2>2, <2>3 DEF CallInv
<1> QED BY <1>1, <1>2, <1>3, <1>4, <1>5 DEF CallNext

(* A call nobody wrote over another shows the provider's latest event and    *)
(* what was recorded of it, in whatever order and however often events come. *)
THEOREM EventsShown == CallSpec => []CallShowsEvents
<1>1. CallInit => CallInv BY CallInit_Inv
<1>2. CallInv /\ [CallNext]_callVars => CallInv' BY CallStep
<1>3. CallInv => CallShowsEvents BY DEF CallInv, CallsShow, CallShowsEvents
<1> QED BY <1>1, <1>2, <1>3, PTL DEF CallSpec
=============================================================================
