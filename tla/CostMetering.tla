--------------------------- MODULE CostMetering ---------------------------
(***************************************************************************)
(* Metered consumption and its price: src/lib/cost-metering.ts, for one    *)
(* organization.                                                           *)
(*                                                                         *)
(* Usage rows are appended when something was consumed, rates are appended *)
(* and never edited, and a report prices the rows of a period when it is   *)
(* asked for, each at the rate of its own day.  Deleting a property leaves *)
(* its rows behind, attributed to nothing.                                 *)
(*                                                                         *)
(* A usage row with a quantity of zero or less is never written.  Two      *)
(* rates of one owner and metric never start on one day here: which of     *)
(* them the code picks is up to the database.                              *)
(***************************************************************************)
EXTENDS Integers, FiniteSets, FiniteSetsExt

CONSTANTS
    Metrics, Properties,
    NoProperty,
    Quantities, UnitCosts,
    LastDay,            \* bound: days
    MaxUsage, MaxRates  \* bounds: rows

VARIABLES
    today,
    usage,      \* UsageRecord rows
    rates,      \* CostRate rows; own: of the organization, not of the platform
    alive       \* properties that are not deleted

vars == <<today, usage, rates, alive>>

Days == 0 .. LastDay

Usage == [id : 1 .. MaxUsage, metric : Metrics, property : Properties \cup {NoProperty},
          quantity : Quantities, at : Days]

Rate == [own : BOOLEAN, metric : Metrics, cost : UnitCosts, from : Days]

TypeOK ==
    /\ today \in Days
    /\ usage \subseteq Usage
    /\ rates \subseteq Rate
    /\ alive \subseteq Properties

Init == today = 0 /\ usage = {} /\ rates = {} /\ alive = Properties

---------------------------------------------------------------------------

NextDay ==
    /\ today < LastDay
    /\ today' = today + 1
    /\ UNCHANGED <<usage, rates, alive>>

RecordUsage(metric, property, quantity) ==
    /\ Cardinality(usage) < MaxUsage
    /\ property \in alive \cup {NoProperty}
    /\ usage' = usage \cup {[id |-> Cardinality(usage) + 1, metric |-> metric,
                             property |-> property, quantity |-> quantity, at |-> today]}
    /\ UNCHANGED <<today, rates, alive>>

\* A rate may start in the past or in the future.
SetRate(rate) ==
    /\ Cardinality(rates) < MaxRates
    /\ \A r \in rates : ~(r.own = rate.own /\ r.metric = rate.metric /\ r.from = rate.from)
    /\ rates' = rates \cup {rate}
    /\ UNCHANGED <<today, usage, alive>>

\* The rows stay, with their property set to null (schema: onDelete SetNull).
DeleteProperty(p) ==
    /\ p \in alive
    /\ alive' = alive \ {p}
    /\ usage' = {IF u.property = p THEN [u EXCEPT !.property = NoProperty] ELSE u : u \in usage}
    /\ UNCHANGED <<today, rates>>

Next ==
    \/ NextDay
    \/ \E metric \in Metrics, p \in Properties \cup {NoProperty}, q \in Quantities :
        RecordUsage(metric, p, q)
    \/ \E rate \in Rate : SetRate(rate)
    \/ \E p \in Properties : DeleteProperty(p)

Spec == Init /\ [][Next]_vars

---------------------------------------------------------------------------
(* The report.                                                             *)

\* The rate of a day, or none: one of the organization before one of the
\* platform, and then the latest that has started.
ResolveRate(rs, metric, at) ==
    LET candidates == {r \in rs : r.metric = metric /\ r.from <= at}
        orgSpecific == {r \in candidates : r.own}
        from == IF orgSpecific /= {} THEN orgSpecific ELSE candidates
    IN  {r \in from : \A s \in from : s.from <= r.from}

\* One line per metric; a line without any priced row has no cost.
NoCost == -1

CostOf(rs, u) == u.quantity * (CHOOSE r \in ResolveRate(rs, u.metric, u.at) : TRUE).cost

Line(rs, rows, metric) ==
    LET mine == {u \in rows : u.metric = metric}
        priced == {u \in mine : ResolveRate(rs, metric, u.at) /= {}}
        cost == SumFunction([u \in priced |-> CostOf(rs, u)])
        unpriced == priced /= mine
    IN  [quantity |-> SumFunction([u \in mine |-> u.quantity]),
         cost |-> IF unpriced /\ cost = 0 THEN NoCost ELSE cost,
         unpriced |-> unpriced]

PriceRows(rs, rows) ==
    LET metrics == {u.metric : u \in rows}
        lines == [metric \in metrics |-> Line(rs, rows, metric)]
    IN  [lines |-> lines,
         cost |-> SumFunction([x \in metrics |-> IF lines[x].cost = NoCost THEN 0 ELSE lines[x].cost]),
         unpriced |-> \E x \in metrics : lines[x].unpriced]

Report(rs, rows, start, end) ==
    LET window == {u \in rows : start <= u.at /\ u.at < end}
        named == {u.property : u \in window} \ {NoProperty}
        Of(p) == PriceRows(rs, {u \in window : u.property = p})
        unattributed == Of(NoProperty)
    IN  [properties |-> [p \in named |-> Of(p)],
         unattributed |-> unattributed,
         total |-> SumFunction([p \in named |-> Of(p).cost]) + unattributed.cost,
         unpriced |-> unattributed.unpriced \/ \E p \in named : Of(p).unpriced]

---------------------------------------------------------------------------

Periods == {p \in (0 .. LastDay + 1) \X (0 .. LastDay + 1) : p[1] < p[2]}

\* r prices what metric consumed on the day at: it has started, and nothing
\* that has started goes before it.
InEffect(r, metric, at) ==
    /\ r.metric = metric /\ r.from <= at
    /\ \A s \in rates : s.metric = metric /\ s.from <= at /\ s /= r
                            => (r.own /\ ~s.own) \/ (r.own = s.own /\ s.from < r.from)

\* However rows are grouped by property and metric, a report's total is the sum
\* over the rows of its period, each at the rate of its own day, and it says that
\* usage is unpriced exactly when some row has no rate ("a floor as a total").
ReportAddsUp ==
    \A period \in Periods :
        LET report == Report(rates, usage, period[1], period[2])
            window == {u \in usage : period[1] <= u.at /\ u.at < period[2]}
            Prices(u) == {r \in rates : InEffect(r, u.metric, u.at)}
            priced == {u \in window : Prices(u) /= {}}
        IN  /\ report.total = SumFunction([u \in priced |-> u.quantity * (CHOOSE r \in Prices(u) : TRUE).cost])
            /\ report.unpriced <=> priced /= window

\* A total and its warning change with nothing but usage of the period or a rate
\* that starts before its end: neither a rate for later nor the deletion of a
\* property rewrites what an earlier report said.
KeepsClosedPeriods ==
    \A period \in Periods :
        LET window == {u \in usage' : period[1] <= u.at /\ u.at < period[2]}
            same == {u.id : u \in window} \subseteq {u.id : u \in usage}
            before == Report(rates, usage, period[1], period[2])
            after == Report(rates', usage', period[1], period[2])
        IN  same /\ (\A r \in rates' \ rates : r.from >= period[2])
                => before.total = after.total /\ before.unpriced = after.unpriced

ClosedPeriodStays == [][KeepsClosedPeriods]_vars
=============================================================================
