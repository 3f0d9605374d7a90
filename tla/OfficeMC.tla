----------------------------- MODULE OfficeMC ------------------------------
(* Small instances of what runs behind the showroom: the stock, the          *)
(* connections to the messaging provider, the permits of the sends to it,    *)
(* the location trail of a delivery, the figures of the dashboard and the    *)
(* integration centre.  They share no row in what is modelled, so a          *)
(* behaviour is one of a single `part`.                                      *)
EXTENDS InventoryMC, Connections, Permits, Trail, Analytics, Integrations

CONSTANTS
    n1,         \* the send of the second process
    l1, j1      \* a lead and a delivery job

VARIABLE part

OfficeInit ==
    /\ part \in {"STOCK", "CONNECTIONS", "PERMITS", "TRAIL", "FIGURES", "CENTRE"}
    /\ Init /\ ConnectionsInit /\ PermitsInit /\ TrailInit /\ FiguresInit /\ CentreInit
    /\ part # "FIGURES" => clientZone = "forward"

Others(mine) ==
    /\ "STOCK" # mine => UNCHANGED vars
    /\ "CONNECTIONS" # mine => UNCHANGED connectionVars
    /\ "PERMITS" # mine => UNCHANGED permitVars
    /\ "TRAIL" # mine => UNCHANGED trailVars
    /\ "FIGURES" # mine => UNCHANGED figureVars
    /\ "CENTRE" # mine => UNCHANGED centreVars

OfficeNext ==
    /\ UNCHANGED part
    /\ Others(part)
    /\ \/ part = "STOCK" /\ Next
       \/ part = "CONNECTIONS" /\ ConnectionsNext
       \/ part = "PERMITS" /\ PermitsNext
       \/ part = "TRAIL" /\ TrailNext
       \/ part = "FIGURES" /\ FiguresNext
       \/ part = "CENTRE" /\ CentreNext

OfficeSpec ==
    OfficeInit /\ [][OfficeNext]_<<part, vars, connectionVars, permitVars, trailVars,
                                  figureVars, centreVars>>

-----------------------------------------------------------------------------
TwoOfThree == [s \in Send |-> IF s = n1 THEN "second" ELSE "first"]
OneTenant == [s \in Send |-> "tenant"]
Limits == [b \in Bucket |-> IF b = "provider" THEN 2 ELSE 1]

(* Bounds.  Templates are synchronised beside one other request, none of     *)
(* them a health check, while every key is there; the development connection *)
(* meets a cloud connection that was configured once.                        *)
Syncing ==
    \/ \E c \in Connection, t \in Template : templates[c][t] # "NONE"
    \/ \E h \in Hand : hands[h].task = "SYNC"
ConnectionsBound ==
    /\ Syncing => retired = {} /\ \A h \in Hand : hands[h].task # "HEALTH"
    /\ (\E c \in Connection \ Cloud : Configured(c)) =>
         /\ retired = {} /\ ~Syncing
         /\ \A c \in Cloud : Configured(c) => connections[c].secret = 1

(* Redis fails once, and of two starts of the app the second has one sender. *)
Failures ==
    orphaned \cup {<<b, s>> \in Bucket \X Send : b \in sends[s].permits \ sends[s].distributed}
PermitsBound == Cardinality(Failures) <= 1
TrailBound == launches > 0 => \E w \in Sender : sender[w] = NoReplay

-----------------------------------------------------------------------------
(* A day has three hours, a month two days but the first one of them, a year *)
(* two.  The clock of one zone is put forward an hour, that of the other is  *)
(* put back; rows are dated around the periods' ends.                        *)
Tables == [f \in Fact |-> IF f = j1 THEN "DELIVERY" ELSE "LEAD"]
Clock(z, t) ==
    IF z = "forward" THEN IF t < 8 THEN 1 ELSE 2 ELSE IF t < 5 THEN 2 ELSE 1
MonthOfDay(d) == IF d < 2 THEN 0 ELSE IF d < 4 THEN 1 ELSE 2
FirstDay(m) == 2 * m
YearAgo(d) == d - 2
Periods == {[from |-> 2, to |-> 2], [from |-> 2, to |-> 3], [from |-> 3, to |-> 3]}
Readable == {{"LEAD", "DELIVERY"}, {"DELIVERY"}}
Hours == -2 .. 13
Dates == {4, 5, 7, 9}

(* Every period is compared in two ways, one of them with none.  Where rows  *)
(* are all of one kind its queries end in any order, after the others, which *)
(* find nothing, and one row changes meanwhile; of rows of two kinds they    *)
(* end in one order, and no row changes.                                     *)
There == {KindOf[f] : f \in {g \in Fact : facts[g] # NoFact}}
AnyOrder(q) == There \subseteq {q.kind}
Place(q) ==
    CASE q.by = "DAY" -> 7 [] q.by = "SOURCE" -> 8
      [] q.kind = "LEAD" -> 1 [] q.kind = "DELIVERY" -> 3 [] OTHER -> 5
Turn(q) == Place(q) + (IF q.when = "NOW" THEN 0 ELSE 1) + (IF AnyOrder(q) THEN 100 ELSE 0)
InTurn ==
    \A p \in report.todo, q \in report.asked \ report.todo :
        (AnyOrder(p) /\ AnyOrder(q)) \/ Turn(q) < Turn(p)
ComparedWith(r) ==
    IF r.to = 2 THEN "PREVIOUS_PERIOD" ELSE IF r.from = 2 THEN "PREVIOUS_MONTH" ELSE "PREVIOUS_YEAR"
FiguresBound ==
    /\ \A f \in Fact : facts[f] # NoFact /\ facts[f].done => KindOf[f] = "DELIVERY"
    /\ report # NoReport =>
         /\ Cardinality(report.changed) <= 1
         /\ report.changed # {} => Cardinality(There) = 1
         /\ InTurn
         /\ \/ report.before = previousRange(ComparedWith(report.now), report.now)
            \/ report.before = NoPeriod /\ report.now.from # 2

(* One row of the centre at a time. *)
CentreBound == \A e, f \in Entity : centre[e] # "NONE" /\ centre[f] # "NONE" => e = f

AllBounds ==
    /\ part = "STOCK" => Bounds
    /\ part = "CONNECTIONS" => ConnectionsBound
    /\ part = "PERMITS" => PermitsBound
    /\ part = "TRAIL" => TrailBound
    /\ part = "FIGURES" => FiguresBound
    /\ part = "CENTRE" => CentreBound
=============================================================================
