------------------------------ MODULE FieldMC ------------------------------
(* Small instances of what is done for a customer before and after a sale:   *)
(* leads, calls, test rides and the reminders of the vehicle's service.      *)
(* They share no row in what is modelled, so a behaviour is one of a single  *)
(* `part`.                                                                   *)
EXTENDS Leads, Calls, TestRides, Reminders, TLC

CONSTANTS e1, e2, e3,      \* provider events
          c1, c2, c3,      \* calls
          n1               \* the member whose turn it is

VARIABLE part

FieldInit ==
    /\ part \in {"LEADS", "CALLS", "RIDES", "REMINDERS"}
    /\ LeadInit /\ CallInit /\ RideInit /\ ReminderInit
    /\ part # "REMINDERS" => willing     \* one initial state is enough of a part that rests

FieldNext ==
    /\ UNCHANGED part
    /\ \/ part = "LEADS" /\ LeadNext /\ UNCHANGED <<callVars, rideVars, reminderVars>>
       \/ part = "CALLS" /\ CallNext /\ UNCHANGED <<leadVars, rideVars, reminderVars>>
       \/ part = "RIDES" /\ RideNext /\ UNCHANGED <<leadVars, callVars, reminderVars>>
       \/ part = "REMINDERS" /\ ReminderNext /\ UNCHANGED <<leadVars, callVars, rideVars>>

FieldSpec ==
    FieldInit /\ [][FieldNext]_<<part, leadVars, callVars, rideVars, reminderVars>>

-----------------------------------------------------------------------------
Hours == {{1, 2}, {3}}
Rota == [q \in Queue |-> <<n1>>]
Told ==
    [e \in Event |->
        CASE e = e1 -> [call |-> c1, status |-> "ANSWERED", at |-> 1]
          [] e = e2 -> [call |-> c1, status |-> "COMPLETED", at |-> 2]
          [] e = e3 -> [call |-> c2, status |-> "COMPLETED", at |-> 1]]

(* Bounds.  A lead is moved by hand, reviewed as a duplicate, followed up or *)
(* shares its phone with another; its deadline passes in any of these.       *)
Calm ==
    \A l \in Lead : leads[l] # Nothing =>
        leads[l].version = 1 /\ timers[l].passed = "NEITHER"
Asked == \E k \in CommandKey : followUps[k] # Nothing
Reviewed ==
    \/ \E l \in Lead : doubles[l] # Nothing /\ doubles[l].status # "PENDING"
    \/ \E w \in LeadWorker : Stands(w, "REVIEW")
Twins == Cardinality({c \in Contact : contacts[c] # Nothing}) > 1
Moved == {l \in Lead : leads[l] # Nothing /\ leads[l].version > 1}
Late == {l \in Lead : timers[l] # Nothing /\ timers[l].passed # "NEITHER"}
LeadsBound ==
    /\ Asked \/ Reviewed \/ Twins => Calm
    /\ ~(Asked /\ (Reviewed \/ Twins))
    /\ Cardinality(Moved) <= 1
    /\ Moved # {} /\ Late # {} => \E l \in Lead : leads[l] = Nothing
    /\ Late # {} => \A w \in LeadWorker : leadTasks[w].step \notin {"READ", "ROTATED"}

(* An upload is made where no event has come, and the events of the inbound  *)
(* call where the other is not known.                                        *)
Uploading == ~consent \/ (\E u \in Upload : uploads[u] # "NONE")
CallsBound ==
    /\ Uploading => applied = {} /\ offered = Event /\ \A e \in Event : hooks[e] = "NONE"
    /\ Known(c3) => applied = {}
    /\ e3 \in applied \/ Known(c2) => ~Known(c1)

(* One demo vehicle has a unit, one ride at a time is past its booking, and  *)
(* samples or a late ride are only where the other is not requested.  Past   *)
(* the booking nothing looks at the unit: its rides go no further.           *)
Far == {r \in Ride : rides[r] # NoRide /\ rides[r].version > 4}
RidesBound ==
    /\ Cardinality({v \in Vehicle : demoUnits[v] # NoUnit}) <= 1
    /\ Cardinality(Far) <= 1
    /\ (samples # {} \/ \E r \in Ride : rides[r] # NoRide /\ rides[r].late)
          => \E r \in Ride : rides[r] = NoRide
    /\ (\E v \in Vehicle : demoUnits[v] # NoUnit)
          => \A r \in Ride : rides[r].status \in {"NONE", "REQUESTED", "BOOKED", "CANCELLED"}

(* The vehicle changes before its reminders are queued.                      *)
RemindersBound ==
    (\E i \in Reminder : reminders[i].status \notin {"NONE", "SCHEDULED", "CANCELLED"})
        => carVersion = 1

Bounds == LeadsBound /\ CallsBound /\ RidesBound /\ RemindersBound

FieldSymmetry ==
    Permutations(LeadWorker) \cup Permutations(Lead) \cup Permutations(Key)
        \cup Permutations(RideBranch)
=============================================================================
