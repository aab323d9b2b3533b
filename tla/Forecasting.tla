----------------------------- MODULE Forecasting -----------------------------
(***************************************************************************)
(* pkg/forecast: ForecastScheduler recalculates the forecast at once and   *)
(* then every six hours: it reads the daily costs, runs Holt-Winters       *)
(* smoothing over them and stores the sums over several horizons.          *)
(* CheckThresholds compares a forecast with the budgets and                *)
(* DetectSeasonality looks for patterns in the daily costs.                *)
(*                                                                         *)
(* Floating point is exact here: level, trend and seasonal components are  *)
(* integer numerators over a common denominator, which each step of the    *)
(* smoothing multiplies by 100 (alpha, beta and gamma are tenths).  Means  *)
(* are compared after multiplication with their denominators.              *)
(***************************************************************************)
EXTENDS Integers, Sequences, FiniteSets, FiniteSetsExt, Functions

CONSTANTS defaultSeasonLength,  \* 7 in the code
          MonthLength,          \* days of a month; 31 in the code
          HistoryDays,          \* days RunOnce reads; 90 in the code
          Horizon,              \* {7, 14, 30} in the code
          Cost,                 \* what a day may cost
          Budget,               \* pairs of a monthly limit and its alert thresholds
          MaxDays               \* bound: days that pass

ASSUME LengthsArePositive ==
    /\ {defaultSeasonLength, MonthLength, HistoryDays} \subseteq Nat \ {0}
    /\ Horizon \subseteq Nat \ {0}
    /\ MaxDays \in Nat

\* A season of one day has no pattern.
ASSUME SeasonHasDays == defaultSeasonLength > 1

ASSUME AmountsAreNat ==
    /\ Cost \subseteq Nat
    /\ Budget \subseteq [limit : Nat, thresholds : SUBSET Nat]

minHistoryDays == 2 * defaultSeasonLength

VARIABLES today,      \* the day
          daily,      \* the daily costs collected: a sequence of records
          ticking,    \* the ticker exists: the initial recalculation is over
          due,        \* the ticker's channel holds a tick
          pc,         \* where the scheduler is
          history,    \* what the recalculation read
          fit,        \* level, trend and seasonal components so far: none or one
          forecast,   \* what it generated: none or one
          stored,     \* the forecast in the store: none or one
          cancelled   \* the context

runVars == <<history, fit, forecast>>
vars == <<today, daily, ticking, due, pc, runVars, stored, cancelled>>

Record == [day : 1..MaxDays, cost : Cost]

\* Start runs the first recalculation without waiting for a tick.
Init ==
    /\ today = 0 /\ daily = <<>> /\ ticking = FALSE /\ due = FALSE /\ pc = "read"
    /\ history = <<>> /\ fit = {} /\ forecast = {} /\ stored = {} /\ cancelled = FALSE

----------------------------------------------------------------------------
(* holtWintersForecast *)

\* Level: the mean of the first season.  Trend: the mean difference of the first
\* two seasons per day.  Seasonal: the deviations of the first season.
Initial(data) ==
    LET L == defaultSeasonLength
        level == L * SumFunction([i \in 1..L |-> data[i]])
    IN  [unit     |-> L * L,
         level    |-> level,
         trend    |-> SumFunction([i \in 1..L |-> data[L + i] - data[i]]),
         seasonal |-> [i \in 0..(L - 1) |-> L * L * data[i + 1] - level]]

\* Faulty variant: the seasonal component is of the day before.
SmoothedOffByOne(s, val, t) ==
    LET i  == (t + 1) % defaultSeasonLength
        lv == 3 * (s.unit * val - s.seasonal[i]) + 7 * (s.level + s.trend)
    IN  [unit     |-> 100 * s.unit,
         level    |-> 10 * lv,
         trend    |-> (lv - 10 * s.level) + 90 * s.trend,
         seasonal |-> [j \in DOMAIN s.seasonal |->
                         IF j = i THEN 3 * (10 * s.unit * val - lv) + 70 * s.seasonal[j]
                                  ELSE 100 * s.seasonal[j]]]

\* One step of the loop, for the value of day t, counted from 0.  Only the last
\* season's components are read again, so one per day of the season is kept.
Smoothed(s, val, t) ==
    LET i  == t % defaultSeasonLength
        lv == 3 * (s.unit * val - s.seasonal[i]) + 7 * (s.level + s.trend)
    IN  [unit     |-> 100 * s.unit,
         level    |-> 10 * lv,
         trend    |-> (lv - 10 * s.level) + 90 * s.trend,
         seasonal |-> [j \in DOMAIN s.seasonal |->
                         IF j = i THEN 3 * (10 * s.unit * val - lv) + 70 * s.seasonal[j]
                                  ELSE 100 * s.seasonal[j]]]

\* The forecast for the m-th day after n days of data.
DayAhead(s, n, m) == s.level + m * s.trend + s.seasonal[(n + m - 1) % defaultSeasonLength]

----------------------------------------------------------------------------
(* GenerateForecast *)

CostsOf(records) == [i \in DOMAIN records |-> records[i].cost]

\* Faulty variant: only the sum over the horizon is kept from being negative.
SumOnlyClamped(s, n, days) ==
    LET sum == SumFunction([m \in 1..days |-> DayAhead(s, n, m)]) IN IF sum < 0 THEN 0 ELSE sum

\* A daily forecast below zero counts as zero.
ForecastedCost(s, n, days) ==
    SumFunction([m \in 1..days |-> LET v == DayAhead(s, n, m) IN IF v < 0 THEN 0 ELSE v])

\* The forecast from the components the smoothing ends with; its basis, the
\* records it was made from, is history.
Forecast(s, records) ==
    [unit    |-> s.unit,
     periods |-> [days \in Horizon |-> ForecastedCost(s, Len(records), days)],
     basis   |-> records]

----------------------------------------------------------------------------
(* ForecastScheduler *)

\* A day ends; its cost was collected, or it was not.
DayEnds(record) ==
    /\ today < MaxDays
    /\ today' = today + 1
    /\ daily' = daily \o record
    /\ UNCHANGED <<ticking, due, pc, runVars, stored, cancelled>>

\* Six hours pass.
Tick ==
    /\ ticking
    /\ due' = TRUE
    /\ UNCHANGED <<today, daily, ticking, pc, runVars, stored, cancelled>>

Begin ==
    /\ pc = "idle"
    /\ due
    /\ due' = FALSE
    /\ pc' = "read"
    /\ UNCHANGED <<today, daily, ticking, runVars, stored, cancelled>>

\* Faulty variant: the loop ends with the first recalculation that fails.
StopsAfterFailure(failed) ==
    /\ pc' = IF failed THEN "stopped" ELSE "idle"
    /\ ticking' = TRUE
    /\ history' = <<>> /\ fit' = {} /\ forecast' = {}

\* RunOnce returns, after an error too; after the initial one Start creates the
\* ticker.
RunEnds(failed) ==
    /\ pc' = "idle"
    /\ ticking' = TRUE
    /\ history' = <<>> /\ fit' = {} /\ forecast' = {}

\* The records of the last HistoryDays days, which are the last records.
ReadDailyCosts ==
    /\ pc = "read"
    /\ LET older == {i \in DOMAIN daily : daily[i].day <= today - HistoryDays}
       IN  history' = SubSeq(daily, Cardinality(older) + 1, Len(daily))
    /\ pc' = "generate"
    /\ UNCHANGED <<today, daily, ticking, due, fit, forecast, stored, cancelled>>

ReadFails ==
    /\ pc = "read"
    /\ RunEnds(TRUE)
    /\ UNCHANGED <<today, daily, due, stored, cancelled>>

\* Faulty variant: an error of GenerateForecast is only logged, and what it
\* returned, nothing, is stored.
GenerateAnyway ==
    /\ pc = "generate"
    /\ \/ /\ Len(history) < minHistoryDays
          /\ pc' = "store"
          /\ UNCHANGED <<ticking, runVars>>
       \/ /\ Len(history) >= minHistoryDays
          /\ fit' = {[components |-> Initial(CostsOf(history)), t |-> defaultSeasonLength]}
          /\ pc' = "smooth"
          /\ UNCHANGED <<ticking, history, forecast>>
    /\ UNCHANGED <<today, daily, due, stored, cancelled>>

\* GenerateForecast refuses a history that is too short; otherwise the
\* smoothing begins.
Generate ==
    /\ pc = "generate"
    /\ \/ /\ Len(history) < minHistoryDays
          /\ RunEnds(TRUE)
       \/ /\ Len(history) >= minHistoryDays
          /\ fit' = {[components |-> Initial(CostsOf(history)), t |-> defaultSeasonLength]}
          /\ pc' = "smooth"
          /\ UNCHANGED <<ticking, history, forecast>>
    /\ UNCHANGED <<today, daily, due, stored, cancelled>>

\* The loop over the days after the first season, and the forecast it ends in.
Smooth ==
    /\ pc = "smooth"
    /\ \E f \in fit :
          \/ /\ f.t < Len(history)
             /\ fit' = {[components |-> Smoothed(f.components, history[f.t + 1].cost, f.t),
                         t          |-> f.t + 1]}
             /\ UNCHANGED <<pc, forecast>>
          \/ /\ f.t = Len(history)
             /\ forecast' = {Forecast(f.components, history)}
             /\ fit' = {}
             /\ pc' = "store"
    /\ UNCHANGED <<today, daily, ticking, due, history, stored, cancelled>>

StoreForecast ==
    /\ pc = "store"
    /\ stored' = forecast
    /\ RunEnds(FALSE)
    /\ UNCHANGED <<today, daily, due, cancelled>>

StoreFails ==
    /\ pc = "store"
    /\ RunEnds(TRUE)
    /\ UNCHANGED <<today, daily, due, stored, cancelled>>

Cancel ==
    /\ ~cancelled
    /\ cancelled' = TRUE
    /\ UNCHANGED <<today, daily, ticking, due, pc, runVars, stored>>

Stop ==
    /\ pc = "idle"
    /\ cancelled
    /\ pc' = "stopped"
    /\ UNCHANGED <<today, daily, ticking, due, runVars, stored, cancelled>>

\* The process dies or was stopped, and another starts.
Restart ==
    /\ ticking' = FALSE /\ due' = FALSE /\ pc' = "read" /\ cancelled' = FALSE
    /\ history' = <<>> /\ fit' = {} /\ forecast' = {}
    /\ UNCHANGED <<today, daily, stored>>

Scheduler ==
    \/ Begin
    \/ ReadDailyCosts \/ ReadFails
    \/ Generate \/ Smooth
    \/ StoreForecast \/ StoreFails

Next ==
    \/ \E c \in Cost : DayEnds(<<[day |-> today + 1, cost |-> c]>>)
    \/ DayEnds(<<>>)
    \/ Tick
    \/ Scheduler
    \/ Cancel \/ Stop \/ Restart

Spec == Init /\ [][Next]_vars

\* Calls return and timers fire, with or without an error.
FairSpec == Spec /\ WF_vars(Scheduler) /\ WF_vars(Stop)

----------------------------------------------------------------------------
(* CheckThresholds *)

\* The horizons and thresholds at which the forecast is above the threshold's
\* share of the limit; a limit of zero is no limit.  (The unit is a multiple of
\* 100: at least one step of the smoothing was made.)
CheckThresholds(fc, budget) ==
    {b \in [days : DOMAIN fc.periods, pct : budget.thresholds] :
        /\ budget.limit > 0
        /\ fc.periods[b.days] > (fc.unit \div 100) * budget.limit * b.pct}

(* DetectSeasonality *)

\* The coefficient of variation of the factors f[x], x \in S, is above 0.05.
Varies(f, S) ==
    LET k   == Cardinality(S)
        sum == SumFunctionOnSet(f, S)
    IN  400 * SumFunction([x \in S |-> (k * f[x] - sum) * (k * f[x] - sum)]) > k * sum * sum

\* The records of the days that fall on slot x.
RecordsOn(records, slot, x) == {i \in DOMAIN records : slot[records[i].day] = x}

SumOn(records, slot, x) == SumFunction([i \in RecordsOn(records, slot, x) |-> records[i].cost])

\* Faulty variant: sums are compared, not means.
SumFactors(records, slot, slots) == [x \in slots |-> SumOn(records, slot, x)]

\* The mean cost per slot, in units of the product of the numbers of records, and
\* zero for a slot without records.  (The code divides by the overall mean as
\* well, which changes no coefficient of variation.)
Factors(records, slot, slots) ==
    LET count == [x \in slots |-> Cardinality(RecordsOn(records, slot, x))]
        used  == {x \in slots : count[x] > 0}
    IN  [x \in slots |->
            SumOn(records, slot, x) * FoldFunctionOnSet(LAMBDA a, b : a * b, 1, count, used \ {x})]

Weekday == [d \in 1..MaxDays |-> d % defaultSeasonLength]
Monthday == [d \in 1..MaxDays |-> d % MonthLength]

\* All weekdays count, of the days of the month only those with records.
DetectSeasonality(records) ==
    LET weekdays  == 0..(defaultSeasonLength - 1)
        monthdays == {Monthday[records[i].day] : i \in DOMAIN records}
    IN  IF Len(records) < minHistoryDays THEN [weekly |-> FALSE, monthly |-> FALSE]
        ELSE [weekly  |-> Varies(Factors(records, Weekday, weekdays), weekdays),
              monthly |-> Varies(Factors(records, Monthday, monthdays), monthdays)]

----------------------------------------------------------------------------
\* "On recalculation failure, the last valid forecast is NOT overwritten": a
\* stored forecast is never replaced but by the forecast of a complete history
\* read after its own, whichever step fails and whenever the process restarts.
OnlyValidOverwrites ==
    [][stored' # stored =>
        /\ stored' # {}
        /\ \A f \in stored' :
              /\ Len(f.basis) >= minHistoryDays
              /\ \A g \in stored : g.basis[Len(g.basis)].day <= f.basis[Len(f.basis)].day]_vars

\* A history that repeats itself with the season is continued: level, trend and
\* seasonal components of any number of steps give the same days again, over
\* every horizon.  (holtWintersForecast)
PeriodicIsContinued ==
    \A f \in stored :
        LET n == Len(f.basis)
            L == defaultSeasonLength
            cost(i) == f.basis[i].cost
        IN  (\A i \in 1..(n - L) : cost(i) = cost(i + L)) =>
                \A days \in Horizon :
                    f.periods[days] = f.unit * SumFunction([m \in 1..days |-> cost(((n + m - 1) % L) + 1)])

\* A budget that is exceeded is exceeded at every lower threshold and over every
\* longer horizon as well, also when costs fall so fast that single days are
\* forecast below zero.  (GenerateForecast, CheckThresholds)
BreachesAreUpwardClosed ==
    \A f \in stored : \A budget \in Budget :
        LET breaches == CheckThresholds(f, budget)
        IN  \A b \in breaches : \A days \in Horizon : \A pct \in budget.thresholds :
                days >= b.days /\ pct <= b.pct => [days |-> days, pct |-> pct] \in breaches

\* A constant cost has no monthly pattern, and a weekly one only if a weekday
\* has no record, which counts as a day without cost; and weekdays that cost
\* always the same, each at least twice as much as the next cheaper one, are a
\* weekly pattern, however the records are spread over them.
\* (DetectSeasonality)
PatternsAreReal ==
    pc = "generate" =>
        LET pattern  == DetectSeasonality(history)
            days     == DOMAIN history
            weekday(i) == Weekday[history[i].day]
            allWeekdays == {weekday(i) : i \in days} = 0..(defaultSeasonLength - 1)
            cheaper(i, j) == 2 * history[i].cost <= history[j].cost /\ history[j].cost > 0
        IN  /\ (\A i, j \in days : history[i].cost = history[j].cost) =>
                  /\ ~pattern.monthly
                  /\ allWeekdays => ~pattern.weekly
            /\ (/\ Len(history) >= minHistoryDays
                /\ allWeekdays
                /\ \A i, j \in days :
                      IF weekday(i) = weekday(j) THEN history[i].cost = history[j].cost
                      ELSE cheaper(i, j) \/ cheaper(j, i)) =>
                  pattern.weekly

\* While the context lives a tick is followed by a recalculation, whatever
\* became of the ones before it.  (ForecastScheduler.Start)
KeepsForecasting == due ~> (~due \/ cancelled)
=============================================================================
