------------------------------ MODULE Analytics ------------------------------
(***************************************************************************)
(* The figures of a dashboard: analytics.service.ts.                       *)
(*                                                                         *)
(* A report is many queries that run side by side, each of them a          *)
(* statement of its own over rows that go on changing: the cards come from *)
(* one, the chart and the sources from others, and the figures they are    *)
(* compared with from a second set over an earlier period.  The days of a  *)
(* period are the client's; their bounds are computed in the service, the  *)
(* day of a row in the database.                                           *)
(*                                                                         *)
(* Time is in hours of UTC, days are numbered and begin at DayHours times  *)
(* their number.  What a row is to the member (leadAccess, domainAccess    *)
(* and the filters) is its `mine`; Lists has those conditions.             *)
(***************************************************************************)
EXTENDS Integers, FiniteSets

CONSTANTS
    Fact,           \* the leads, bookings, jobs and other rows that are counted
    KindOf,         \* their table
    Instant,        \* the hours of the instance
    Moment,         \* those that rows are dated
    DayHours,
    Zone,           \* time zones
    Offset(_, _),   \* how far the clock of a zone is ahead at an instant
    MonthOf(_), FirstOf(_), YearBefore(_),     \* the calendar
    AskedPeriod,    \* the periods that are asked for
    Permissions     \* the kinds of rows that a member may read

Kind == {"LEAD", "CALL", "CONVERSATION", "RIDE", "UNIT", "BOOKING", "DELIVERY",
         "REGISTRATION", "REMINDER", "FINANCE", "INSURANCE"}
Period == [from: Int, to: Int]

ASSUME CalendarAssumption ==
    /\ DayHours \in Nat \ {0}
    /\ Instant \subseteq Int /\ Moment \subseteq Instant
    /\ AskedPeriod \subseteq Period
    /\ \A r \in AskedPeriod : r.from <= r.to
    /\ \A r \in AskedPeriod :
         /\ YearBefore(r.from) \in Int /\ YearBefore(r.to) \in Int
         /\ MonthOf(r.from) \in Int
         /\ FirstOf(MonthOf(r.from) - 1) \in Int
         /\ FirstOf(MonthOf(r.from)) \in Int /\ FirstOf(MonthOf(r.from)) <= r.from

(* In an hour a clock is put forward or back by an hour at most.             *)
ASSUME ZoneAssumption ==
    \A z \in Zone : \A s, t \in Instant :
        /\ Offset(z, t) \in Int
        /\ s <= t => Offset(z, t) - Offset(z, s) \in (s - t)..(t - s)

ASSUME FactAssumption ==
    KindOf \in [Fact -> Kind] /\ Permissions \subseteq SUBSET Kind

VARIABLES
    facts,          \* the rows
    clientZone,     \* client_organizations.timezone
    report          \* a request and what its queries have found

figureVars == <<facts, clientZone, report>>

-----------------------------------------------------------------------------
(* Rides, deliveries and reminders are counted by a date that is moved.      *)
Scheduled == {"RIDE", "DELIVERY", "REMINDER"}

(* `done`: the delivery was made. *)
FactRow == [at: Moment, mine: BOOLEAN, done: BOOLEAN]
NoFact == [at |-> "NONE"]

NoPeriod == [from |-> 1, to |-> 0]

(* The first hour of a day: UTC's midnight, less what the clock of the zone  *)
(* is ahead at that instant.                                                 *)
zoneStart(z, d) == d * DayHours - Offset(z, d * DayHours)

(* to_char(captured_at at time zone ...)                                     *)
dayOf(z, t) == (t + Offset(z, t)) \div DayHours

(* The last day left out. *)
FaultyBounds(z, r) == [start |-> zoneStart(z, r.from), end |-> zoneStart(z, r.to)]

bounds(z, r) == [start |-> zoneStart(z, r.from), end |-> zoneStart(z, r.to + 1)]

dateSeries(r) == r.from .. r.to

previousRange(compare, r) ==
    CASE compare = "NONE" -> NoPeriod
      [] compare = "PREVIOUS_YEAR" -> [from |-> YearBefore(r.from), to |-> YearBefore(r.to)]
      [] compare = "PREVIOUS_MONTH" ->
            [from |-> FirstOf(MonthOf(r.from) - 1), to |-> FirstOf(MonthOf(r.from)) - 1]
      [] compare = "PREVIOUS_PERIOD" ->
            [from |-> r.from - (r.to - r.from + 1), to |-> r.from - 1]
Comparison == {"NONE", "PREVIOUS_PERIOD", "PREVIOUS_MONTH", "PREVIOUS_YEAR"}

-----------------------------------------------------------------------------
(* One query: the rows of a kind in a period, by their status, their day or  *)
(* their source, or those that ask for attention.                            *)
Query == [by: {"STATUS", "DAY", "SOURCE", "ATTENTION"}, kind: Kind, when: {"NOW", "BEFORE"}]

ByStatus(k, w) == [by |-> "STATUS", kind |-> k, when |-> w]
LeadTrend == [by |-> "DAY", kind |-> "LEAD", when |-> "NOW"]
LeadSources == [by |-> "SOURCE", kind |-> "LEAD", when |-> "NOW"]
Attention == [by |-> "ATTENTION", kind |-> "LEAD", when |-> "NOW"]

Whens(prior) == IF prior = NoPeriod THEN {"NOW"} ELSE {"NOW", "BEFORE"}

snapshot(can, w) == {ByStatus(k, w) : k \in can}
overview(can, prior) ==
    (UNION {snapshot(can, w) : w \in Whens(prior)})
        \cup IF "LEAD" \in can THEN {LeadTrend, LeadSources} ELSE {}
platform(prior) ==
    (UNION {snapshot({"LEAD", "BOOKING", "DELIVERY"}, w) : w \in Whens(prior)}) \cup {LeadTrend}

NoReport == [step |-> "NONE"]
Answer == [of: {"OVERVIEW", "PLATFORM"}, step: {"COUNTING", "ATTENTION", "DONE"}, zone: Zone,
           now: Period, before: Period, asked: SUBSET Query, todo: SUBSET Query,
           found: UNION {[Q -> SUBSET Fact] : Q \in SUBSET Query}, changed: SUBSET Fact]

FiguresTypeOK ==
    /\ facts \in [Fact -> FactRow \cup {NoFact}]
    /\ clientZone \in Zone
    /\ report = NoReport \/ report \in Answer

FiguresInit ==
    /\ facts = [f \in Fact |-> NoFact]
    /\ clientZone \in Zone
    /\ report = NoReport

-----------------------------------------------------------------------------
(* Rows are captured and created, moved to another date, given to someone    *)
(* else, delivered or closed, in the services of the other modules.          *)
Noted(f) ==
    report' = IF report = NoReport THEN NoReport
                                   ELSE [report EXCEPT !.changed = @ \cup {f}]
Appear(f) ==
    /\ facts[f] = NoFact
    /\ \E t \in Moment, b \in BOOLEAN :
          facts' = [facts EXCEPT ![f] = [at |-> t, mine |-> b, done |-> FALSE]]
    /\ Noted(f)
    /\ UNCHANGED clientZone

Alter(f) ==
    /\ facts[f] # NoFact
    /\ \E t \in Moment, b, d \in BOOLEAN :
          /\ KindOf[f] \notin Scheduled => t = facts[f].at
          /\ facts[f] # [at |-> t, mine |-> b, done |-> d]
          /\ facts' = [facts EXCEPT ![f] = [at |-> t, mine |-> b, done |-> d]]
    /\ Noted(f)
    /\ UNCHANGED clientZone

(* The settings of the client are edited.                                    *)
EditZone(z) == clientZone' = z /\ UNCHANGED <<facts, report>>

-----------------------------------------------------------------------------
(* The calendar of the instance reaches the ends of a period.                *)
Reached(r) == {r.from * DayHours, (r.to + 1) * DayHours} \subseteq Instant

Opened(of, z, r, prior, queries) ==
    /\ report = NoReport
    /\ Reached(r) /\ (prior # NoPeriod => Reached(prior))
    /\ report' = [of |-> of, step |-> IF queries = {} THEN "DONE" ELSE "COUNTING", zone |-> z,
                  now |-> r, before |-> prior, asked |-> queries, todo |-> queries,
                  found |-> [q \in queries \cup {Attention} |-> {}], changed |-> {}]
    /\ UNCHANGED <<facts, clientZone>>

(* A client's member asks in the zone of the client, whatever zone the query *)
(* names.                                                                    *)
AskOverview(r, compare, can) ==
    LET prior == previousRange(compare, r)
    IN  Opened("OVERVIEW", clientZone, r, prior, overview(can, prior))

(* The agency asks for all its clients, in the zone of the query.            *)
AskPlatform(r, compare, z) ==
    LET prior == previousRange(compare, r)
    IN  Opened("PLATFORM", z, r, prior, platform(prior))

(* Where a row is counted: stock has no period, and of the deliveries of all *)
(* clients only those that were made.                                        *)
Within(t, z, r) == bounds(z, r).start <= t /\ t < bounds(z, r).end

InQuestion(q) == IF q.when = "NOW" THEN report.now ELSE report.before

Visible(f) ==
    IF report.of = "OVERVIEW" THEN facts[f].mine
                              ELSE KindOf[f] = "DELIVERY" => facts[f].done

Counts(q, f) ==
    /\ facts[f] # NoFact
    /\ KindOf[f] = q.kind
    /\ Visible(f)
    /\ q.kind = "UNIT" \/ Within(facts[f].at, report.zone, InQuestion(q))

(* Promise.all: the queries end in any order. *)
RunQuery(q) ==
    /\ report # NoReport /\ report.step = "COUNTING" /\ q \in report.todo
    /\ report' = [report EXCEPT
            !.todo = @ \ {q},
            !.found[q] = {f \in Fact : Counts(q, f)},
            !.step = IF report.todo # {q} THEN "COUNTING"
                     ELSE IF report.of = "OVERVIEW" /\ LeadTrend \in report.asked
                     THEN "ATTENTION" ELSE "DONE"]
    /\ UNCHANGED <<facts, clientZone>>

(* Of the leads of the period, those that are overdue, late or nobody's.     *)
RunAttention ==
    /\ report # NoReport /\ report.step = "ATTENTION"
    /\ \E F \in SUBSET {f \in Fact : Counts(Attention, f)} :
          report' = [report EXCEPT !.step = "DONE", !.found[Attention] = F]
    /\ UNCHANGED <<facts, clientZone>>

FiguresNext ==
    \/ \E f \in Fact : Appear(f) \/ Alter(f)
    \/ \E z \in Zone : EditZone(z)
    \/ \E r \in AskedPeriod, c \in Comparison :
          \/ \E can \in Permissions : AskOverview(r, c, can)
          \/ \E z \in Zone : AskPlatform(r, c, z)
    \/ \E q \in Query : RunQuery(q)
    \/ RunAttention

FiguresSpec == FiguresInit /\ [][FiguresNext]_figureVars

-----------------------------------------------------------------------------
(* What is shown: the card of a kind says how many rows there are, and how   *)
(* many there were.                                                          *)
Rows(q) == report.found[q]

Card(k) ==
    [value |-> Cardinality(Rows(ByStatus(k, "NOW"))),
     previous |-> IF report.before = NoPeriod THEN 0
                                              ELSE Cardinality(Rows(ByStatus(k, "BEFORE")))]

(* The chart of leads: on the platform's the other days have no column.      *)
Column(d) == {f \in Rows(LeadTrend) : dayOf(report.zone, facts[f].at) = d}
Columns ==
    IF report.of = "PLATFORM" THEN dateSeries(report.now)
                              ELSE {dayOf(report.zone, facts[f].at) : f \in Rows(LeadTrend)}
Chart == UNION {Column(d) : d \in Columns}

-----------------------------------------------------------------------------
(* The clock of the zone stands still between the midnight of a day and      *)
(* UTC's, and has not just repeated the first hour of the day.               *)
Steady(z, d) ==
    LET midnight == zoneStart(z, d)
    IN  /\ {midnight, midnight - 1} \subseteq Instant
        /\ Offset(z, midnight) = Offset(z, d * DayHours)
        /\ Offset(z, midnight - 1) <= Offset(z, midnight)

SteadyAtEnds(r) == Steady(report.zone, r.from) /\ Steady(report.zone, r.to + 1)

Shown == report # NoReport /\ report.step = "DONE"

(* The card, the sources and the chart of leads count the same leads, though *)
(* three queries look for them.                                              *)
CardsAgreeWithCharts ==
    LeadTrend \in report.asked =>
        /\ \A f \in Fact \ report.changed :
              /\ f \in Rows(ByStatus("LEAD", "NOW")) <=> f \in Rows(LeadTrend)
              /\ LeadSources \in report.asked => (f \in Rows(LeadSources) <=> f \in Rows(LeadTrend))
              /\ f \in Rows(Attention) => f \in Rows(LeadTrend)
        /\ report.changed = {} /\ SteadyAtEnds(report.now) =>
              Card("LEAD").value = Cardinality(Chart)

(* A figure counts the rows of its days, by the clock of the zone.           *)
FiguresAreOfTheDays ==
    \A q \in report.asked : q.kind # "UNIT" /\ SteadyAtEnds(InQuestion(q)) =>
        \A f \in Fact \ report.changed :
            f \in Rows(q) <=>
                /\ facts[f] # NoFact /\ KindOf[f] = q.kind /\ Visible(f)
                /\ dayOf(report.zone, facts[f].at) \in dateSeries(InQuestion(q))

(* No row is counted in a period, of a year at most, and in the one it is    *)
(* compared with, but one whose date was moved meanwhile.                    *)
PeriodsApart ==
    YearBefore(report.now.to) < report.now.from =>
        \A k \in Kind \ {"UNIT"} :
            {ByStatus(k, "NOW"), ByStatus(k, "BEFORE")} \subseteq report.asked =>
                \A f \in Rows(ByStatus(k, "NOW")) \cap Rows(ByStatus(k, "BEFORE")) :
                    k \in Scheduled /\ f \in report.changed

(* The figures of one report, which its queries find one after another while *)
(* rows change, agree with each other and with the days they are said to be  *)
(* of, but for the rows that changed meanwhile and, of the days, but where   *)
(* the clock is changed between the two midnights.                           *)
FiguresAddUp ==
    Shown => CardsAgreeWithCharts /\ FiguresAreOfTheDays /\ PeriodsApart
=============================================================================
