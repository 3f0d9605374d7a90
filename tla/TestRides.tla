------------------------------ MODULE TestRides ------------------------------
(***************************************************************************)
(* Test rides of one client, apps/api/src/test-rides/test-rides.service.ts:*)
(* the demo vehicle's calendar, the executives' calendars, the ride with   *)
(* its location session, and the expiry of sessions left open.             *)
(*                                                                         *)
(* A worker is a request or a run of the expiry.  What it reads outside    *)
(* its transaction, or without a lock, is a step before the one that       *)
(* writes; a lock it holds in between keeps the others out.  Every write   *)
(* of a ride demands the version and the status that were read.            *)
(*                                                                         *)
(* A vehicle is a name in the branch of the ride, until the inventory has  *)
(* a unit of that reference; a unit may be transferred to another branch.  *)
(* A slot is the set of the hours it takes.  Checklists, one-time codes    *)
(* and odometers only refuse and are left out.                             *)
(***************************************************************************)
EXTENDS Naturals

CONSTANTS
    Ride, RideExecutive, RideWorker, RideKey,
    Vehicle,        \* demo vehicle references
    RideBranch,
    Slot,           \* the slots a ride may be scheduled for: sets of hours
    MaxRideVersion  \* bound: versions of a ride

ASSUME RideAssumption == MaxRideVersion \in Nat \ {0}

VARIABLES
    rides,        \* test_ride_jobs
    calendar,     \* demo_vehicle_bookings, one of a ride at most
    unitBookings, \* the rides whose booking names an inventory unit
    stranded,     \* history: those whose unit has moved while they were held
    trips,        \* test_ride_location_sessions, one of a ride at most
    samples,      \* the rides with rows in test_ride_location_samples
    commands,     \* the keys in test_ride_command_receipts
    demoUnits,    \* the inventory unit of a reference, as inventory_units has it
    rideTasks     \* what each worker is doing

rideUnits == <<unitBookings, stranded, demoUnits>>
rideRows == <<rides, calendar, trips, samples, commands, rideUnits>>
rideVars == <<rides, calendar, trips, samples, commands, rideUnits, rideTasks>>

-----------------------------------------------------------------------------
Holding == {"BOOKED", "CUSTOMER_CONFIRMED", "EXECUTIVE_ASSIGNED", "ACTIVE"}
RideStatus == Holding \cup {"REQUESTED", "COMPLETED", "CANCELLED", "NO_SHOW"}
CommandType == {"START", "STOP_TRACKING", "COMPLETE", "CANCEL", "NO_SHOW"}
NoRide == [status |-> "NONE"]
RideRow ==
    [status: RideStatus, vehicle: Vehicle, branch: RideBranch, slot: Slot, linked: BOOLEAN,
     executive: RideExecutive \cup {"NONE"}, tracking: {"NEVER", "ON", "STOPPED"},
     late: BOOLEAN, version: 1..MaxRideVersion]
NoUnit == [status |-> "NONE"]
UnitRow == [status: {"DEMO", "OTHER"}, branch: RideBranch]
RideTask ==
    [step: {"IDLE"}]
    \cup [step: {"CREATING"}, vehicle: Vehicle, branch: RideBranch, linked: BOOLEAN]
    \cup [step: {"READ", "BOOKING"}, ride: Ride, seen: RideRow]
    \cup [step: {"ASSIGNING"}, ride: Ride, seen: RideRow, executive: RideExecutive]
    \cup [step: {"COMMAND"}, ride: Ride, seen: RideRow, key: RideKey, type: CommandType]
    \cup [step: {"SAMPLING"}, ride: Ride]

RideTypeOK ==
    /\ rides \in [Ride -> RideRow \cup {NoRide}]
    /\ calendar \in [Ride -> {"NONE", "HELD", "COMPLETED", "RELEASED"}]
    /\ trips \in [Ride -> {"NONE", "OPEN", "STOPPED"}]
    /\ samples \subseteq Ride /\ unitBookings \subseteq Ride /\ stranded \subseteq Ride
    /\ commands \subseteq RideKey
    /\ demoUnits \in [Vehicle -> UnitRow \cup {NoUnit}]
    /\ \A w \in RideWorker : rideTasks[w].step # "EXPIRING" => rideTasks[w] \in RideTask

RideInit ==
    /\ rides = [r \in Ride |-> NoRide]
    /\ calendar = [r \in Ride |-> "NONE"]
    /\ trips = [r \in Ride |-> "NONE"]
    /\ samples = {} /\ unitBookings = {} /\ stranded = {}
    /\ commands = {}
    /\ demoUnits = [v \in Vehicle |-> NoUnit]
    /\ rideTasks = [w \in RideWorker |-> [step |-> "IDLE"]]

-----------------------------------------------------------------------------
Drives(w, t) == rideTasks' = [rideTasks EXCEPT ![w] = t]
Parked(w) == Drives(w, [step |-> "IDLE"])
Busy(w, step) == rideTasks[w].step = step
SameHours(a, b) == rides[a].slot \cap rides[b].slot # {}

(* lockAllocation: the row of a vehicle, or of an executive, in one branch. *)
(* A linked booking holds its unit's row besides, whatever the branch.      *)
VehicleOpen(w, seen) ==
    \A x \in RideWorker \ {w} : Busy(x, "BOOKING") =>
        LET other == rideTasks[x].seen
        IN  \/ other.vehicle # seen.vehicle
            \/ other.branch # seen.branch /\ ~(other.linked /\ seen.linked)
ExecutiveOpen(w, b, e) ==
    \A x \in RideWorker \ {w} :
        Busy(x, "ASSIGNING") => rideTasks[x].executive # e \/ rideTasks[x].seen.branch # b

(* updateStatus: nothing is written unless version and status are as read.  *)
FaultyAsRead(r, seen) == TRUE
AsRead(r, seen) == rides[r].version = seen.version /\ rides[r].status = seen.status
updateStatus(r, seen, row) ==
    /\ AsRead(r, seen)
    /\ seen.version < MaxRideVersion
    /\ rides' = [rides EXCEPT ![r] = [row EXCEPT !.version = seen.version + 1]]

(* The inventory module records the unit of a reference, and links to it    *)
(* the rides and the bookings of its branch that name the reference.        *)
Naming(v, b) == {r \in Ride : rides[r] # NoRide /\ rides[r].vehicle = v /\ rides[r].branch = b}
createUnitTx(v, unit) ==
    LET named == Naming(v, unit.branch) IN
    /\ demoUnits[v] = NoUnit
    /\ demoUnits' = [demoUnits EXCEPT ![v] = unit]
    /\ rides' = [r \in Ride |-> IF r \in named THEN [rides[r] EXCEPT !.linked = TRUE]
                                 ELSE rides[r]]
    /\ unitBookings' = unitBookings \cup {r \in named : calendar[r] # "NONE"}
    /\ UNCHANGED <<calendar, stranded, trips, samples, commands, rideTasks>>

(* It takes the unit in and out of service, and transfers it: a unit that   *)
(* has left DEMO may be DEMO again in another branch, though bookings of it *)
(* are held.  A linked booking in progress holds the unit's row.            *)
UnitChanges(v, unit) ==
    /\ demoUnits[v] # NoUnit /\ unit # demoUnits[v]
    /\ demoUnits[v].status = "DEMO" => unit.branch = demoUnits[v].branch
    /\ \A w \in RideWorker : Busy(w, "BOOKING") =>
           ~(rideTasks[w].seen.linked /\ rideTasks[w].seen.vehicle = v)
    /\ demoUnits' = [demoUnits EXCEPT ![v] = unit]
    /\ stranded' = IF unit.branch = demoUnits[v].branch THEN stranded
                   ELSE stranded \cup {r \in unitBookings : /\ calendar[r] = "HELD"
                                                            /\ rides[r].vehicle = v}
    /\ UNCHANGED <<rides, calendar, unitBookings, trips, samples, commands, rideTasks>>

-----------------------------------------------------------------------------
(* create, for a tenant with or without the inventory module: the unit of   *)
(* the reference in the ride's branch is looked up,                         *)
canonicalDemoUnit(w, v, b) ==
    /\ Busy(w, "IDLE")
    /\ Drives(w, [step |-> "CREATING", vehicle |-> v, branch |-> b,
                  linked |-> demoUnits[v] # NoUnit /\ demoUnits[v].branch = b])
    /\ UNCHANGED rideRows

(* then the key is claimed and the ride inserted, linked to the unit that   *)
(* was found; a key that is known only replays.                             *)
KeyFree(w, k) ==
    /\ k \notin commands
    /\ \A x \in RideWorker \ {w} : Busy(x, "COMMAND") => rideTasks[x].key # k
create(w, k, r, s) ==
    LET t == rideTasks[w] IN
    /\ Busy(w, "CREATING") /\ KeyFree(w, k) /\ rides[r] = NoRide
    /\ rides' = [rides EXCEPT ![r] =
           [status |-> "REQUESTED", vehicle |-> t.vehicle, branch |-> t.branch, slot |-> s,
            linked |-> t.linked, executive |-> "NONE",
            tracking |-> "NEVER", late |-> FALSE, version |-> 1]]
    /\ commands' = commands \cup {k}
    /\ Parked(w)
    /\ UNCHANGED <<calendar, trips, samples, rideUnits>>

(* accessibleJob: book, confirm and assign read the ride first.             *)
accessibleJob(w, r) ==
    /\ Busy(w, "IDLE") /\ rides[r] # NoRide
    /\ Drives(w, [step |-> "READ", ride |-> r, seen |-> rides[r]])
    /\ UNCHANGED rideRows

(* book: under the lock of the vehicle in the ride's branch, no held        *)
(* booking of that branch may share an hour.  A ride that was linked when   *)
(* it was read demands that its unit is a demo in that branch, and looks    *)
(* for bookings that name the unit; the others for the reference.           *)
FaultyInItsBranch(v, b) == demoUnits[v].status = "DEMO"   \* faulty: in any branch
InItsBranch(v, b) == demoUnits[v] = [status |-> "DEMO", branch |-> b]
Taken(t) ==
    \E o \in Ride : /\ calendar[o] = "HELD"
                    /\ rides[o].vehicle = t.seen.vehicle /\ rides[o].branch = t.seen.branch
                    /\ t.seen.linked => o \in unitBookings
                    /\ SameHours(o, t.ride)
LockVehicle(w) ==
    LET t == rideTasks[w] IN
    /\ Busy(w, "READ") /\ t.seen.status = "REQUESTED"
    /\ t.seen.linked => InItsBranch(t.seen.vehicle, t.seen.branch)
    /\ VehicleOpen(w, t.seen) /\ ~Taken(t)
    /\ Drives(w, [t EXCEPT !.step = "BOOKING"])
    /\ UNCHANGED rideRows
book(w) ==
    LET t == rideTasks[w] IN
    /\ Busy(w, "BOOKING")
    /\ calendar' = [calendar EXCEPT ![t.ride] = "HELD"]
    /\ unitBookings' = IF t.seen.linked THEN unitBookings \cup {t.ride} ELSE unitBookings
    /\ updateStatus(t.ride, t.seen, [rides[t.ride] EXCEPT !.status = "BOOKED"])
    /\ Parked(w)
    /\ UNCHANGED <<stranded, trips, samples, commands, demoUnits>>

confirm(w) ==
    LET t == rideTasks[w] IN
    /\ Busy(w, "READ") /\ t.seen.status = "BOOKED"
    /\ updateStatus(t.ride, t.seen, [rides[t.ride] EXCEPT !.status = "CUSTOMER_CONFIRMED"])
    /\ Parked(w)
    /\ UNCHANGED <<calendar, trips, samples, commands, rideUnits>>

(* assign: the overlap is looked for among the rides of every branch, the   *)
(* lock is that of the executive in the ride's own branch.                  *)
Committed(e, r) ==
    \E o \in Ride \ {r} : /\ rides[o] # NoRide
                          /\ rides[o].executive = e
                          /\ rides[o].status \in {"EXECUTIVE_ASSIGNED", "ACTIVE"}
                          /\ SameHours(o, r)
LockExecutive(w, e) ==
    LET t == rideTasks[w] IN
    /\ Busy(w, "READ") /\ t.seen.status \in {"CUSTOMER_CONFIRMED", "EXECUTIVE_ASSIGNED"}
    /\ ExecutiveOpen(w, t.seen.branch, e) /\ ~Committed(e, t.ride)
    /\ Drives(w, [step |-> "ASSIGNING", ride |-> t.ride, seen |-> t.seen, executive |-> e])
    /\ UNCHANGED rideRows
assignRide(w) ==
    LET t == rideTasks[w] IN
    /\ Busy(w, "ASSIGNING")
    /\ updateStatus(t.ride, t.seen,
           [rides[t.ride] EXCEPT !.status = "EXECUTIVE_ASSIGNED", !.executive = t.executive])
    /\ Parked(w)
    /\ UNCHANGED <<calendar, trips, samples, commands, rideUnits>>

-----------------------------------------------------------------------------
(* idempotentCommand: the receipt of the key, then the ride as it is, with  *)
(* no lock on it.  start also looks for another active ride here.           *)
Serves(type) ==
    CASE type = "START" -> {"EXECUTIVE_ASSIGNED"}
      [] type \in {"STOP_TRACKING", "COMPLETE"} -> {"ACTIVE"}
      [] type = "CANCEL" -> Holding \cup {"REQUESTED"}
      [] type = "NO_SHOW" -> Holding \ {"ACTIVE"}
idempotentCommand(w, k, type, r) ==
    /\ Busy(w, "IDLE") /\ KeyFree(w, k)
    /\ rides[r].status \in Serves(type)
    /\ type = "START" => \A o \in Ride : rides[o].status = "ACTIVE"
                             => rides[o].executive # rides[r].executive
    /\ type = "STOP_TRACKING" => rides[r].tracking # "STOPPED"
    /\ Drives(w, [step |-> "COMMAND", ride |-> r, seen |-> rides[r], key |-> k, type |-> type])
    /\ UNCHANGED rideRows

Ordered(w, type) ==
    /\ Busy(w, "COMMAND") /\ rideTasks[w].type = type
    /\ commands' = commands \cup {rideTasks[w].key}
    /\ Parked(w)
    /\ UNCHANGED <<samples, rideUnits>>
stopSession(r) == trips' = [trips EXCEPT ![r] = IF @ = "OPEN" THEN "STOPPED" ELSE @]
FreeVehicle(r, status) ==
    calendar' = [calendar EXCEPT ![r] = IF @ = "HELD" THEN status ELSE @]

start(w) ==
    LET t == rideTasks[w] IN
    /\ Ordered(w, "START")
    /\ updateStatus(t.ride, t.seen, [rides[t.ride] EXCEPT !.status = "ACTIVE", !.tracking = "ON"])
    /\ trips' = [trips EXCEPT ![t.ride] = "OPEN"]
    /\ UNCHANGED calendar
stopTracking(w) ==
    LET t == rideTasks[w] IN
    /\ Ordered(w, "STOP_TRACKING")
    /\ updateStatus(t.ride, t.seen, [rides[t.ride] EXCEPT !.tracking = "STOPPED"])
    /\ stopSession(t.ride)
    /\ UNCHANGED calendar
complete(w) ==
    LET t == rideTasks[w] IN
    /\ Ordered(w, "COMPLETE")
    /\ updateStatus(t.ride, t.seen,
           [rides[t.ride] EXCEPT !.status = "COMPLETED", !.tracking = "STOPPED"])
    /\ stopSession(t.ride)
    /\ FreeVehicle(t.ride, "COMPLETED")
cancel(w) ==
    LET t == rideTasks[w] IN
    /\ Ordered(w, "CANCEL")
    /\ updateStatus(t.ride, t.seen,
           [rides[t.ride] EXCEPT !.status = "CANCELLED",
                                 !.tracking = IF @ = "NEVER" THEN @ ELSE "STOPPED"])
    /\ stopSession(t.ride)
    /\ FreeVehicle(t.ride, "RELEASED")
noShow(w) ==
    LET t == rideTasks[w] IN
    /\ Ordered(w, "NO_SHOW")
    /\ updateStatus(t.ride, t.seen, [rides[t.ride] EXCEPT !.status = "NO_SHOW"])
    /\ FreeVehicle(t.ride, "RELEASED")
    /\ UNCHANGED trips

-----------------------------------------------------------------------------
(* locations: ride and session are read, then the samples are stored.       *)
(* purgeExpiredLocations deletes what is past its retention.                *)
locations(w, r) ==
    /\ Busy(w, "IDLE")
    /\ rides[r].status = "ACTIVE" /\ rides[r].tracking = "ON" /\ ~rides[r].late
    /\ trips[r] = "OPEN"
    /\ Drives(w, [step |-> "SAMPLING", ride |-> r])
    /\ UNCHANGED rideRows
StoreSamples(w) ==
    /\ Busy(w, "SAMPLING")
    /\ samples' = samples \cup {rideTasks[w].ride}
    /\ Parked(w)
    /\ UNCHANGED <<rides, calendar, trips, commands, rideUnits>>
purgeExpiredLocations ==
    /\ samples # {}
    /\ \E old \in SUBSET samples : samples' = samples \ old
    /\ UNCHANGED <<rides, calendar, trips, commands, rideUnits, rideTasks>>

(* The active timeout of a session passes.                                  *)
SessionTimesOut(r) ==
    /\ trips[r] = "OPEN" /\ ~rides[r].late
    /\ rides' = [rides EXCEPT ![r].late = TRUE]
    /\ UNCHANGED <<calendar, trips, samples, commands, rideUnits, rideTasks>>

(* expireTracking, by the manager's call or by the samples of a ride that   *)
(* is late: the late rides are listed, then each is stopped in a            *)
(* transaction of its own.  One that changed since fails the rest.          *)
Overdue == {r \in Ride : /\ rides[r].status = "ACTIVE" /\ rides[r].tracking = "ON"
                         /\ rides[r].late}
reconcileTracking(w) ==
    /\ Busy(w, "IDLE") /\ Overdue # {}
    /\ Drives(w, [step |-> "EXPIRING", list |-> [r \in Overdue |-> rides[r]]])
    /\ UNCHANGED rideRows
expireTracking(w, r) ==
    LET list == rideTasks[w].list
        rest == DOMAIN list \ {r}
    IN
    /\ Busy(w, "EXPIRING") /\ r \in DOMAIN list
    /\ updateStatus(r, list[r],
           [rides[r] EXCEPT !.status = list[r].status, !.tracking = "STOPPED"])
    /\ stopSession(r)
    /\ IF rest = {} THEN Parked(w)
       ELSE Drives(w, [step |-> "EXPIRING", list |-> [x \in rest |-> list[x]]])
    /\ UNCHANGED <<calendar, samples, commands, rideUnits>>

(* A transaction that fails, a conflict among them, leaves nothing behind.  *)
GiveUp(w) == ~Busy(w, "IDLE") /\ Parked(w) /\ UNCHANGED rideRows

-----------------------------------------------------------------------------
RideRequest(w) ==
    \/ \E k \in RideKey, r \in Ride :
        \/ \E s \in Slot : create(w, k, r, s)
        \/ \E type \in CommandType : idempotentCommand(w, k, type, r)
    \/ \E r \in Ride : accessibleJob(w, r) \/ locations(w, r) \/ expireTracking(w, r)
    \/ \E v \in Vehicle, b \in RideBranch : canonicalDemoUnit(w, v, b)
    \/ LockVehicle(w) \/ book(w) \/ confirm(w) \/ assignRide(w)
    \/ \E e \in RideExecutive : LockExecutive(w, e)
    \/ start(w) \/ stopTracking(w) \/ complete(w) \/ cancel(w) \/ noShow(w)
    \/ StoreSamples(w) \/ reconcileTracking(w) \/ GiveUp(w)

RideNext ==
    \/ \E w \in RideWorker : RideRequest(w)
    \/ \E v \in Vehicle, unit \in UnitRow : createUnitTx(v, unit) \/ UnitChanges(v, unit)
    \/ \E r \in Ride : SessionTimesOut(r)
    \/ purgeExpiredLocations

RideSpec == RideInit /\ [][RideNext]_rideVars

-----------------------------------------------------------------------------
(* A demo vehicle is not promised twice for an hour.  Within a branch, of   *)
(* two held bookings that overlap only one names the unit: the other was    *)
(* made of the reference alone, by a ride that had not found the unit when  *)
(* it was asked for or read.  Two bookings of the unit overlap only in      *)
(* different branches, and only where the unit has been transferred while   *)
(* one of them was held.                                                    *)
VehicleBookedOnce ==
    \A a, b \in Ride :
        /\ a # b /\ calendar[a] = "HELD" /\ calendar[b] = "HELD"
        /\ rides[a].vehicle = rides[b].vehicle /\ SameHours(a, b)
        => IF rides[a].branch = rides[b].branch
           THEN a \in unitBookings <=> b \notin unitBookings
           ELSE {a, b} \subseteq unitBookings => {a, b} \cap stranded # {}

(* Nor is an executive, within the branch whose lock assign takes.          *)
ExecutiveBookedOnce ==
    \A a, b \in Ride :
        /\ a # b
        /\ \A r \in {a, b} : rides[r].status \in {"EXECUTIVE_ASSIGNED", "ACTIVE"}
        /\ rides[a].executive = rides[b].executive
        /\ rides[a].branch = rides[b].branch
        => ~SameHours(a, b)

(* Neither of them, however many bookings and assignments are made at once. *)
NothingBookedTwice == VehicleBookedOnce /\ ExecutiveBookedOnce

(* The vehicle is held from the booking to the end of the ride, and a       *)
(* session is open exactly while an active ride is tracked: whichever of    *)
(* the executive's commands, the manager's and the expiry comes first.      *)
RideHoldsItsVehicle ==
    \A r \in Ride :
        /\ calendar[r] = "HELD" <=> rides[r].status \in Holding
        /\ trips[r] = "OPEN" <=> rides[r].status = "ACTIVE" /\ rides[r].tracking = "ON"
=============================================================================
