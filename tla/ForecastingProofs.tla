-------------------------- MODULE ForecastingProofs --------------------------
(***************************************************************************)
(* The safety of Forecasting for any length of season, month and history,  *)
(* any horizons, costs and budgets.                                        *)
(*                                                                         *)
(* The argument: a recalculation works on the history it has read, whose   *)
(* last record is no older than that of any stored forecast (InOrder).     *)
(* While the smoothing runs, its components are integers and, if the costs *)
(* repeat themselves with the season, reproduce them without a trend       *)
(* (FitGood); so a forecast is never negative, grows with the horizon and  *)
(* continues the season (ForecastGood).                                    *)
(***************************************************************************)
EXTENDS Forecasting, SequenceTheorems, SumTheorems

\* The day of the newest record.
LastDay(records) == records[Len(records)].day

\* The costs repeat themselves with the season.
Repeats(records) ==
    \A i \in 1..(Len(records) - defaultSeasonLength) :
        records[i].cost = records[i + defaultSeasonLength].cost

\* The place in the first season of the i-th day.
InSeason(i) == ((i - 1) % defaultSeasonLength) + 1

\* The components after t days of costs that repeat themselves give each day of
\* the season its cost, and have no trend.
Exact(s, t, records) ==
    Repeats(records) =>
        /\ \A i \in 1..t : records[i].cost = records[InSeason(i)].cost
        /\ s.trend = 0
        /\ \A j \in 0..(defaultSeasonLength - 1) :
              s.level + s.seasonal[j] = s.unit * records[j + 1].cost

\* Level, trend and seasonal components.
Components ==
    [unit : Nat \ {0}, level : Int, trend : Int, seasonal : [0..(defaultSeasonLength - 1) -> Int]]

FitGood(f, records) ==
    /\ f.t \in defaultSeasonLength..Len(records)
    /\ f.components \in Components
    /\ Exact(f.components, f.t, records)

\* A forecast of a history that repeats itself continues it.
Continues(f) ==
    Repeats(f.basis) =>
        \A days \in Horizon :
            f.periods[days] =
                f.unit * SumFunction([m \in 1..days |-> f.basis[InSeason(Len(f.basis) + m)].cost])

ForecastGood(f) ==
    /\ f.basis \in Seq(Record)
    /\ Len(f.basis) >= minHistoryDays
    /\ f.unit \in Nat
    /\ f.periods \in [Horizon -> Nat]
    /\ \A a, b \in Horizon : a <= b => f.periods[a] <= f.periods[b]
    /\ Continues(f)

----------------------------------------------------------------------------
(* The inductive invariant.                                                *)

DataOK ==
    /\ today \in 0..MaxDays
    /\ daily \in Seq(Record)
    /\ history \in Seq(Record)
    /\ pc \in {"read", "generate", "smooth", "store", "idle", "stopped"}

\* Nothing is from the future.  The history of a recalculation is of the end of what
\* has been collected, and no stored forecast is of a later one.
InOrder ==
    /\ \A i \in DOMAIN daily : daily[i].day <= today
    /\ \A g \in stored : daily # <<>> /\ LastDay(g.basis) <= LastDay(daily)
    /\ pc \in {"generate", "smooth", "store"} /\ history # <<>> =>
          /\ daily # <<>>
          /\ LastDay(history) <= LastDay(daily)
          /\ \A g \in stored : LastDay(g.basis) <= LastDay(history)

\* What a recalculation has at each of its steps.
RunGood ==
    /\ pc \in {"smooth", "store"} => Len(history) >= minHistoryDays
    /\ pc = "smooth" => \A f \in fit : FitGood(f, history)
    /\ IF pc = "store" THEN forecast # {} ELSE forecast = {}
    /\ \A f \in forecast : f.basis = history
    /\ \A f \in forecast \cup stored : ForecastGood(f)

IInv == DataOK /\ InOrder /\ RunGood

----------------------------------------------------------------------------
(* Days of a season.                                                       *)

\* Division with remainder.
LEMMA DivMod ==
    ASSUME NEW L \in Nat \ {0}, NEW t \in Nat
    PROVE  t \div L \in Nat /\ t % L \in 0..(L - 1) /\ t = L * (t \div L) + (t % L)
OBVIOUS

\* There is one remainder.
LEMMA RemainderIsUnique ==
    ASSUME NEW L \in Nat \ {0}, NEW p \in Int, NEW q \in Int, NEW r \in 0..(L - 1),
           NEW s \in 0..(L - 1), L * p + r = L * q + s
    PROVE  r = s
<1>1. L * (p - q) = s - r
  OBVIOUS
<1>2. CASE p - q >= 1
  <2>1. L * (p - q) >= L
    BY <1>2
  <2> QED
    BY <1>1, <2>1
<1>3. CASE q - p >= 1
  <2>1. L * (q - p) >= L
    BY <1>3
  <2>2. L * (q - p) = r - s
    OBVIOUS
  <2> QED
    BY <2>1, <2>2
<1>4. CASE p - q = 0
  BY <1>1, <1>4
<1> QED
  BY <1>2, <1>3, <1>4

\* A season earlier the remainder is the same.
LEMMA RemainderShifts ==
    ASSUME NEW L \in Nat \ {0}, NEW t \in Nat, t >= L
    PROVE  (t - L) % L = t % L
<1>1. PICK p, q, r, s : p = t \div L /\ q = (t - L) \div L /\ r = t % L /\ s = (t - L) % L
  OBVIOUS
<1>2. p \in Nat /\ r \in 0..(L - 1) /\ t = L * p + r
  BY <1>1, DivMod
<1>3. q \in Nat /\ q + 1 \in Int /\ s \in 0..(L - 1) /\ t - L = L * q + s
  <2>1. PICK u : u = t - L
    OBVIOUS
  <2>2. u \in Nat /\ q = u \div L /\ s = u % L
    BY <1>1, <2>1
  <2>3. q \in Nat /\ s \in 0..(L - 1) /\ u = L * q + s
    BY <2>2, DivMod
  <2> QED
    BY <2>1, <2>3
<1>4. L * p + r = L * (q + 1) + s
  BY <1>2, <1>3
<1>5. r = s
  BY <1>2, <1>3, <1>4, RemainderIsUnique
<1> QED
  BY <1>1, <1>5

\* In the first season it is the number itself.
LEMMA RemainderOfSmall ==
    ASSUME NEW L \in Nat \ {0}, NEW t \in 0..(L - 1)
    PROVE  t % L = t
<1>1. PICK p, r : p = t \div L /\ r = t % L
  OBVIOUS
<1>2. t \in Nat /\ p \in Nat /\ r \in 0..(L - 1) /\ t = L * p + r
  <2>1. t \in Nat
    OBVIOUS
  <2> QED
    BY <1>1, <2>1, DivMod
<1>3. L * p + r = L * 0 + t
  BY <1>2
<1>4. r = t
  BY <1>2, <1>3, RemainderIsUnique
<1> QED
  BY <1>1, <1>4

\* The season is a positive number of days, and a history has two of them.
LEMMA SeasonLength ==
    /\ defaultSeasonLength \in Nat \ {0}
    /\ defaultSeasonLength > 1
    /\ minHistoryDays = 2 * defaultSeasonLength
BY LengthsArePositive, SeasonHasDays DEF minHistoryDays

\* Where in the season a day is.
LEMMA InSeasonFacts ==
    ASSUME NEW i \in Nat \ {0}
    PROVE  /\ InSeason(i) \in 1..defaultSeasonLength
           /\ (i - 1) % defaultSeasonLength \in 0..(defaultSeasonLength - 1)
           /\ i <= defaultSeasonLength => InSeason(i) = i
           /\ i > defaultSeasonLength => InSeason(i) = InSeason(i - defaultSeasonLength)
<1>1. PICK L, k : L = defaultSeasonLength /\ k = i - 1
  OBVIOUS
<1>2. L \in Nat \ {0} /\ k \in Nat
  BY <1>1, SeasonLength
<1>3. k % L \in 0..(L - 1)
  BY <1>2, DivMod
<1>4. i <= L => k % L = k
  <2>1. i <= L => k \in 0..(L - 1)
    BY <1>1, <1>2
  <2> QED
    BY <1>2, <2>1, RemainderOfSmall
<1>5. i > L => (k - L) % L = k % L
  <2>1. i > L => k >= L
    BY <1>1, <1>2
  <2> QED
    BY <1>2, <2>1, RemainderShifts
<1>6. InSeason(i) = (k % L) + 1
  BY <1>1 DEF InSeason
<1>7. i > L => InSeason(i - L) = ((k - L) % L) + 1
  <2>1. (i - L) - 1 = k - L
    BY <1>1, <1>2
  <2> QED
    BY <1>1, <2>1 DEF InSeason
<1> QED
  BY <1>1, <1>2, <1>3, <1>4, <1>5, <1>6, <1>7

----------------------------------------------------------------------------
(* holtWintersForecast.                                                    *)

\* What the records of a history are.
LEMMA RecordFacts ==
    ASSUME NEW h \in Seq(Record)
    PROVE  /\ Len(h) \in Nat
           /\ DOMAIN h = 1..Len(h)
           /\ \A i \in 1..Len(h) : h[i] \in Record /\ h[i].cost \in Nat /\ h[i].day \in 1..MaxDays
<1>1. Len(h) \in Nat /\ DOMAIN h = 1..Len(h) /\ \A i \in 1..Len(h) : h[i] \in Record
  OBVIOUS
<1>2. \A r \in Record : r.cost \in Nat /\ r.day \in 1..MaxDays
  BY AmountsAreNat DEF Record
<1> QED
  BY <1>1, <1>2

\* A sum over days.
LEMMA DaySum ==
    ASSUME NEW n \in Nat, NEW f, DOMAIN f = 1..n, \A i \in 1..n : f[i] \in Int
    PROVE  /\ SumFunction(f) \in Int
           /\ SumFunction(f) = SumFunctionOnSet(f, 1..n)
           /\ IsFiniteSet(1..n)
           /\ (\A i \in 1..n : f[i] = 0) => SumFunction(f) = 0
<1>1. IsFiniteSet(1..n)
  BY FS_Interval
<1>2. SumFunction(f) = SumFunctionOnSet(f, 1..n)
  BY DEF SumFunction
<1> QED
  BY <1>1, <1>2, SumIsInt, SumOfZeros

\* The smoothing begins with exact components.
LEMMA InitialIsGood ==
    ASSUME NEW h \in Seq(Record), Len(h) >= minHistoryDays
    PROVE  FitGood([components |-> Initial(CostsOf(h)), t |-> defaultSeasonLength], h)
<1>1. PICK L, d, f, g, A, B :
        /\ L = defaultSeasonLength /\ d = CostsOf(h)
        /\ f = [i \in 1..L |-> d[i]] /\ g = [i \in 1..L |-> d[L + i] - d[i]]
        /\ A = SumFunction(f) /\ B = SumFunction(g)
  OBVIOUS
<1>2. L \in Nat \ {0} /\ Len(h) \in Nat /\ Len(h) >= 2 * L
  BY <1>1, SeasonLength, RecordFacts
<1>3. \A i \in 1..Len(h) : d[i] = h[i].cost /\ d[i] \in Nat
  BY <1>1, RecordFacts DEF CostsOf
<1>4. \A i \in 1..L : i \in 1..Len(h) /\ L + i \in 1..Len(h)
  BY <1>2
<1>5. A \in Int /\ B \in Int /\ ((\A i \in 1..L : g[i] = 0) => B = 0)
  <2>1. \A i \in 1..L : f[i] \in Int /\ g[i] \in Int
    BY <1>1, <1>3, <1>4
  <2> QED
    BY <1>1, <1>2, <2>1, DaySum
<1>6. PICK s : s = Initial(d)
  OBVIOUS
<1>7. s = [unit |-> L * L, level |-> L * A, trend |-> B,
           seasonal |-> [i \in 0..(L - 1) |-> L * L * d[i + 1] - L * A]]
  BY <1>1, <1>6 DEF Initial
<1>8. L * L \in Nat \ {0} /\ L * A \in Int
  BY <1>2, <1>5
<1>9. \A j \in 0..(L - 1) : /\ j + 1 \in 1..Len(h)
                             /\ s.seasonal[j] = (L * L) * d[j + 1] - L * A
                             /\ s.seasonal[j] \in Int
                             /\ s.level + s.seasonal[j] = s.unit * d[j + 1]
  <2> SUFFICES ASSUME NEW j \in 0..(L - 1)
               PROVE  /\ j + 1 \in 1..Len(h)
                      /\ s.seasonal[j] = (L * L) * d[j + 1] - L * A
                      /\ s.seasonal[j] \in Int
                      /\ s.level + s.seasonal[j] = s.unit * d[j + 1]
    OBVIOUS
  <2>1. j + 1 \in 1..Len(h)
    BY <1>2
  <2>2. PICK u, a, c, x : u = L * L /\ a = L * A /\ c = d[j + 1] /\ x = u * c
    OBVIOUS
  <2>3. u \in Int /\ a \in Int /\ x \in Int
    BY <1>3, <1>8, <2>1, <2>2
  <2>4. s.seasonal[j] = x - a /\ s.level = a /\ s.unit * d[j + 1] = x
    BY <1>7, <2>2
  <2> QED
    BY <2>1, <2>2, <2>3, <2>4
<1>10. s \in Components
  <2>1. s.seasonal \in [0..(L - 1) -> Int]
    BY <1>7, <1>9
  <2> QED
    BY <1>1, <1>5, <1>7, <1>8, <2>1 DEF Components
<1>11. Exact(s, L, h)
  <2> SUFFICES ASSUME Repeats(h)
               PROVE  /\ \A i \in 1..L : h[i].cost = h[InSeason(i)].cost
                      /\ s.trend = 0
                      /\ \A j \in 0..(L - 1) : s.level + s.seasonal[j] = s.unit * h[j + 1].cost
    BY <1>1 DEF Exact
  <2>1. \A i \in 1..L : InSeason(i) = i
    BY <1>1, <1>2, InSeasonFacts
  <2>2. \A i \in 1..L : i \in 1..(Len(h) - L) /\ L + i = i + L
    BY <1>2
  <2>3. \A i \in 1..L : h[L + i].cost = h[i].cost
    BY <1>1, <2>2 DEF Repeats
  <2>4. \A i \in 1..L : g[i] = 0
    BY <1>1, <1>3, <1>4, <2>3
  <2> QED
    BY <1>3, <1>5, <1>7, <1>9, <2>1, <2>4
<1>12. L \in L..Len(h)
  BY <1>2
<1> QED
  BY <1>1, <1>6, <1>10, <1>11, <1>12 DEF FitGood

\* The next day of costs that repeat themselves costs what its day of the season costs.
LEMMA NextDay ==
    ASSUME NEW h \in Seq(Record), Repeats(h), NEW t \in defaultSeasonLength..(Len(h) - 1),
           \A i \in 1..t : h[i].cost = h[InSeason(i)].cost
    PROVE  h[t + 1].cost = h[InSeason(t + 1)].cost
<1>1. PICK L, n, j : L = defaultSeasonLength /\ n = Len(h) /\ j = t + 1 - L
  OBVIOUS
<1>2. L \in Nat \ {0} /\ n \in Nat /\ t \in L..(n - 1)
  BY <1>1, SeasonLength, RecordFacts
<1>3. j \in 1..t /\ j \in 1..(n - L) /\ j + L = t + 1 /\ t + 1 \in Nat \ {0} /\ t + 1 > L
  BY <1>1, <1>2
<1>4. h[j].cost = h[t + 1].cost
  BY <1>1, <1>3 DEF Repeats
<1>5. h[j].cost = h[InSeason(j)].cost
  BY <1>3
<1>6. InSeason(t + 1) = InSeason(j)
  <2>1. PICK k : k = t + 1
    OBVIOUS
  <2>2. k \in Nat \ {0} /\ k > L /\ j = k - L
    BY <1>1, <1>2, <1>3, <2>1
  <2>3. InSeason(k) = InSeason(k - L)
    BY <1>1, <2>2, InSeasonFacts
  <2> QED
    BY <2>1, <2>2, <2>3
<1> QED
  BY <1>4, <1>5, <1>6

\* A step of the smoothing keeps integers, and changes no direction: exact components
\* of one day are those of the next in units a hundred times as small.
LEMMA StepIsExact ==
    ASSUME NEW u \in Int, NEW l \in Int, NEW x \in Int, NEW v \in Int, u * v = l + x
    PROVE  /\ 3 * (u * v - x) + 7 * (l + 0) = 10 * l
           /\ 10 * (10 * l) = 100 * l
           /\ 3 * (10 * u * v - 10 * l) + 70 * x = 100 * x
<1>1. PICK w : w = u * v
  OBVIOUS
<1>2. w \in Int /\ 10 * u * v = 10 * w
  BY <1>1
<1> QED
  BY <1>1, <1>2

\* A step of the smoothing keeps what the components stand for.
LEMMA SmoothedIsGood ==
    ASSUME NEW h \in Seq(Record), NEW f, FitGood(f, h), f.t < Len(h)
    PROVE  FitGood([components |-> Smoothed(f.components, h[f.t + 1].cost, f.t), t |-> f.t + 1], h)
<1>1. PICK L, t, s, v, i, S : /\ L = defaultSeasonLength /\ t = f.t /\ s = f.components
                              /\ v = h[t + 1].cost /\ i = t % L /\ S = Smoothed(s, v, t)
  OBVIOUS
<1>2. /\ L \in Nat \ {0} /\ Len(h) \in Nat /\ t \in L..Len(h) /\ t < Len(h)
      /\ s \in Components /\ Exact(s, t, h)
  BY <1>1, SeasonLength, RecordFacts DEF FitGood
<1>3. t \in Nat /\ i \in 0..(L - 1) /\ t + 1 \in 1..Len(h) /\ v \in Nat
  <2>1. t \in Nat /\ t + 1 \in 1..Len(h)
    BY <1>2
  <2> QED
    BY <1>1, <1>2, <2>1, DivMod, RecordFacts
<1>4. PICK u, l, b, x, y : u = s.unit /\ l = s.level /\ b = s.trend /\ x = s.seasonal /\ y = x[i]
  OBVIOUS
<1>5. /\ u \in Nat \ {0} /\ l \in Int /\ b \in Int
      /\ x \in [0..(L - 1) -> Int] /\ DOMAIN x = 0..(L - 1) /\ y \in Int
  BY <1>1, <1>2, <1>3, <1>4 DEF Components
<1>6. PICK lv : lv = 3 * (u * v - y) + 7 * (l + b)
  OBVIOUS
<1>7. S = [unit |-> 100 * u, level |-> 10 * lv, trend |-> (lv - 10 * l) + 90 * b,
           seasonal |-> [j \in 0..(L - 1) |-> IF j = i THEN 3 * (10 * u * v - lv) + 70 * x[j]
                                              ELSE 100 * x[j]]]
  BY <1>1, <1>4, <1>5, <1>6 DEF Smoothed
<1>8. S \in Components
  <2>1. PICK w, z : w = u * v /\ z = 10 * u * v
    OBVIOUS
  <2>2. w \in Int /\ z \in Int
    BY <1>3, <1>5, <2>1
  <2>3. lv \in Int
    BY <1>5, <1>6, <2>1, <2>2
  <2>4. \A j \in 0..(L - 1) : 3 * (z - lv) + 70 * x[j] \in Int /\ 100 * x[j] \in Int
    BY <1>5, <2>2, <2>3
  <2>5. S.seasonal \in [0..(L - 1) -> Int]
    BY <1>7, <2>1, <2>4
  <2>6. S.unit \in Nat \ {0} /\ S.level \in Int /\ S.trend \in Int
    BY <1>5, <1>7, <2>3
  <2> QED
    BY <1>1, <1>7, <2>5, <2>6 DEF Components
<1>9. Exact(S, t + 1, h)
  <2> SUFFICES ASSUME Repeats(h)
               PROVE  /\ \A j \in 1..(t + 1) : h[j].cost = h[InSeason(j)].cost
                      /\ S.trend = 0
                      /\ \A j \in 0..(L - 1) : S.level + S.seasonal[j] = S.unit * h[j + 1].cost
    BY <1>1 DEF Exact
  <2>1. /\ \A j \in 1..t : h[j].cost = h[InSeason(j)].cost
        /\ b = 0
        /\ \A j \in 0..(L - 1) : l + x[j] = u * h[j + 1].cost
    BY <1>1, <1>2, <1>4 DEF Exact
  <2>2. v = h[InSeason(t + 1)].cost
    <3>1. t \in L..(Len(h) - 1)
      BY <1>2
    <3> QED
      BY <1>1, <2>1, <3>1, NextDay
  <2>3. InSeason(t + 1) = i + 1
    <3>1. (t + 1) - 1 = t
      BY <1>3
    <3> QED
      BY <1>1, <3>1 DEF InSeason
  <2>4. u * v = l + y
    BY <1>3, <1>4, <2>1, <2>2, <2>3
  <2>5. lv = 10 * l /\ 10 * lv = 100 * l /\ 3 * (10 * u * v - lv) + 70 * y = 100 * y
    <3>1. u \in Int /\ v \in Int
      BY <1>3, <1>5
    <3>2. /\ 3 * (u * v - y) + 7 * (l + 0) = 10 * l
          /\ 10 * (10 * l) = 100 * l
          /\ 3 * (10 * u * v - 10 * l) + 70 * y = 100 * y
      BY <1>5, <2>4, <3>1, StepIsExact
    <3> QED
      BY <1>6, <2>1, <3>2
  <2>6. S.trend = 0 /\ S.level = 100 * l /\ S.unit = 100 * u
    BY <1>5, <1>7, <2>1, <2>5
  <2>7. \A j \in 0..(L - 1) : S.seasonal[j] = 100 * x[j]
    BY <1>4, <1>7, <2>5
  <2>8. ASSUME NEW j \in 0..(L - 1)
        PROVE  S.level + S.seasonal[j] = S.unit * h[j + 1].cost
    <3>1. PICK c, e, w : c = h[j + 1].cost /\ e = x[j] /\ w = u * c
      OBVIOUS
    <3>2. c \in Nat /\ e \in Int /\ w \in Int /\ l + e = w
      <4>1. j + 1 \in 1..Len(h)
        BY <1>2
      <4>2. c \in Nat
        BY <3>1, <4>1, RecordFacts
      <4>3. e \in Int /\ l + e = w
        BY <1>5, <2>1, <3>1
      <4>4. w \in Int
        BY <1>5, <3>1, <4>2
      <4> QED
        BY <4>2, <4>3, <4>4
    <3>3. (100 * u) * c = 100 * w
      BY <1>5, <3>1, <3>2
    <3>4. 100 * l + 100 * e = 100 * w
      BY <1>5, <3>2
    <3> QED
      BY <2>6, <2>7, <3>1, <3>3, <3>4
  <2>9. \A j \in 1..(t + 1) : h[j].cost = h[InSeason(j)].cost
    <3>1. \A j \in 1..(t + 1) : j \in 1..t \/ j = t + 1
      BY <1>3
    <3> QED
      BY <1>1, <2>1, <2>2, <3>1
  <2> QED
    BY <2>6, <2>8, <2>9
<1>10. t + 1 \in L..Len(h)
  BY <1>2
<1> QED
  BY <1>1, <1>8, <1>9, <1>10 DEF FitGood

----------------------------------------------------------------------------
(* GenerateForecast.                                                       *)

\* What a day adds to a forecast.
Clamped(s, n, m) == IF DayAhead(s, n, m) < 0 THEN 0 ELSE DayAhead(s, n, m)

\* The forecast of a single day.
LEMMA DayAheadIsInt ==
    ASSUME NEW s \in Components, NEW n \in Nat, NEW m \in Nat \ {0}
    PROVE  /\ DayAhead(s, n, m) \in Int
           /\ Clamped(s, n, m) \in Nat
           /\ n + m \in Nat \ {0}
           /\ (n + m - 1) % defaultSeasonLength \in 0..(defaultSeasonLength - 1)
<1>1. PICK k, j : k = n + m /\ j = (k - 1) % defaultSeasonLength
  OBVIOUS
<1>2. k \in Nat \ {0}
  BY <1>1
<1>3. j \in 0..(defaultSeasonLength - 1)
  BY <1>1, <1>2, InSeasonFacts
<1>4. s.level \in Int /\ s.trend \in Int /\ s.seasonal[j] \in Int
  BY <1>3 DEF Components
<1>5. PICK w, d : w = m * s.trend /\ d = DayAhead(s, n, m)
  OBVIOUS
<1>6. d = s.level + w + s.seasonal[j]
  BY <1>1, <1>5 DEF DayAhead
<1>7. w \in Int
  BY <1>4, <1>5
<1>8. d \in Int
  BY <1>4, <1>6, <1>7
<1> QED
  BY <1>1, <1>2, <1>3, <1>5, <1>8 DEF Clamped

\* The forecast over a horizon is the sum over its days.
LEMMA SumOfDays ==
    ASSUME NEW s \in Components, NEW n \in Nat, NEW days \in Nat, NEW p,
           DOMAIN p = 1..days, \A m \in 1..days : p[m] = Clamped(s, n, m)
    PROVE  /\ IsFiniteSet(1..days)
           /\ \A m \in 1..days : p[m] \in Nat
           /\ ForecastedCost(s, n, days) = SumFunctionOnSet(p, 1..days)
           /\ ForecastedCost(s, n, days) \in Nat
<1>1. IsFiniteSet(1..days)
  BY FS_Interval
<1>2. PICK q : q = [m \in 1..days |-> LET v == DayAhead(s, n, m) IN IF v < 0 THEN 0 ELSE v]
  OBVIOUS
<1>3. ForecastedCost(s, n, days) = SumFunctionOnSet(q, 1..days)
  <2>1. ForecastedCost(s, n, days) = SumFunction(q)
    BY <1>2 DEF ForecastedCost
  <2>2. DOMAIN q = 1..days
    BY <1>2
  <2> QED
    BY <2>1, <2>2 DEF SumFunction
<1>4. \A m \in 1..days : q[m] = p[m]
  BY <1>2 DEF Clamped
<1>5. \A m \in 1..days : p[m] \in Nat
  <2>1. \A m \in 1..days : m \in Nat \ {0}
    OBVIOUS
  <2>2. \A m \in Nat \ {0} : Clamped(s, n, m) \in Nat
    BY DayAheadIsInt
  <2> QED
    BY <2>1, <2>2
<1>6. SumFunctionOnSet(q, 1..days) = SumFunctionOnSet(p, 1..days)
  BY <1>1, <1>4, SumEqual
<1>7. SumFunctionOnSet(p, 1..days) \in Nat
  BY <1>1, <1>5, SumOfNat
<1> QED
  BY <1>1, <1>3, <1>5, <1>6, <1>7

\* No day takes away from a forecast.
LEMMA ForecastGrows ==
    ASSUME NEW s \in Components, NEW n \in Nat, NEW a \in Nat, NEW b \in Nat, a <= b
    PROVE  ForecastedCost(s, n, a) <= ForecastedCost(s, n, b)
<1>1. PICK p, q : p = [m \in 1..a |-> Clamped(s, n, m)] /\ q = [m \in 1..b |-> Clamped(s, n, m)]
  OBVIOUS
<1>2. /\ IsFiniteSet(1..a) /\ ForecastedCost(s, n, a) = SumFunctionOnSet(p, 1..a)
  BY <1>1, SumOfDays
<1>3. /\ IsFiniteSet(1..b) /\ ForecastedCost(s, n, b) = SumFunctionOnSet(q, 1..b)
      /\ \A m \in 1..b : q[m] \in Nat
  BY <1>1, SumOfDays
<1>4. 1..a \subseteq 1..b
  OBVIOUS
<1>5. \A m \in 1..a : p[m] = q[m]
  BY <1>1, <1>4
<1>6. SumFunctionOnSet(p, 1..a) = SumFunctionOnSet(q, 1..a)
  BY <1>2, <1>5, SumEqual
<1>7. SumFunctionOnSet(q, 1..a) <= SumFunctionOnSet(q, 1..b)
  BY <1>3, <1>4, SumOfPart
<1> QED
  BY <1>2, <1>3, <1>6, <1>7

\* With exact components each day ahead costs what its day of the season costs.
LEMMA DayIsContinued ==
    ASSUME NEW h \in Seq(Record), Len(h) >= minHistoryDays, NEW s \in Components,
           Exact(s, Len(h), h), Repeats(h), NEW m \in Nat \ {0}
    PROVE  /\ h[InSeason(Len(h) + m)].cost \in Nat
           /\ Clamped(s, Len(h), m) = s.unit * h[InSeason(Len(h) + m)].cost
<1>1. PICK L, n, k, j, c, u, w : /\ L = defaultSeasonLength /\ n = Len(h) /\ k = n + m
                                 /\ j = (k - 1) % L /\ c = h[j + 1].cost
                                 /\ u = s.unit /\ w = u * c
  OBVIOUS
<1>2. L \in Nat \ {0} /\ n \in Nat /\ n >= 2 * L /\ k \in Nat \ {0}
  BY <1>1, SeasonLength, RecordFacts
<1>3. j \in 0..(L - 1) /\ j + 1 \in 1..n /\ InSeason(k) = j + 1
  <2>1. j \in 0..(L - 1)
    BY <1>1, <1>2, InSeasonFacts
  <2> QED
    BY <1>1, <1>2, <2>1 DEF InSeason
<1>4. c \in Nat /\ u \in Nat
  BY <1>1, <1>3, RecordFacts DEF Components
<1>5. w \in Nat
  BY <1>1, <1>4
<1>6. s.trend = 0 /\ s.level + s.seasonal[j] = w
  BY <1>1, <1>3 DEF Exact
<1>7. s.level \in Int /\ s.seasonal[j] \in Int
  BY <1>1, <1>3 DEF Components
<1>8. DayAhead(s, n, m) = w
  <2>1. DayAhead(s, n, m) = s.level + m * s.trend + s.seasonal[j]
    BY <1>1 DEF DayAhead
  <2>2. m * s.trend = 0
    BY <1>6
  <2> QED
    BY <1>6, <1>7, <2>1, <2>2
<1>9. Clamped(s, n, m) = w
  BY <1>5, <1>8 DEF Clamped
<1> QED
  BY <1>1, <1>3, <1>4, <1>9

\* What the smoothing ends with makes a good forecast.
LEMMA ForecastIsGood ==
    ASSUME NEW h \in Seq(Record), Len(h) >= minHistoryDays,
           NEW f, FitGood(f, h), f.t = Len(h)
    PROVE  ForecastGood(Forecast(f.components, h)) /\ Forecast(f.components, h).basis = h
<1>1. PICK s, n, F : s = f.components /\ n = Len(h) /\ F = Forecast(s, h)
  OBVIOUS
<1>2. s \in Components /\ Exact(s, n, h) /\ n \in Nat
  BY <1>1, RecordFacts DEF FitGood
<1>3. F.unit = s.unit /\ F.basis = h /\ F.periods = [days \in Horizon |-> ForecastedCost(s, n, days)]
  BY <1>1 DEF Forecast
<1>4. s.unit \in Nat
  BY <1>2 DEF Components
<1>5. \A days \in Horizon : days \in Nat
  BY LengthsArePositive
<1>6. \A days \in Horizon : ForecastedCost(s, n, days) \in Nat
  <2> SUFFICES ASSUME NEW days \in Horizon
               PROVE  ForecastedCost(s, n, days) \in Nat
    OBVIOUS
  <2>1. PICK p : p = [m \in 1..days |-> Clamped(s, n, m)]
    OBVIOUS
  <2>2. days \in Nat
    BY <1>5
  <2>3. DOMAIN p = 1..days /\ \A m \in 1..days : p[m] = Clamped(s, n, m)
    BY <2>1
  <2> QED
    BY <1>2, <2>2, <2>3, SumOfDays
<1>7. \A a, b \in Horizon : a <= b => F.periods[a] <= F.periods[b]
  BY <1>2, <1>3, <1>5, ForecastGrows
<1>8. Continues(F)
  <2> SUFFICES ASSUME Repeats(h), NEW days \in Horizon
               PROVE  F.periods[days] =
                        s.unit * SumFunction([m \in 1..days |-> h[InSeason(n + m)].cost])
    BY <1>1, <1>3 DEF Continues
  <2>1. PICK p, c : p = [m \in 1..days |-> Clamped(s, n, m)] /\ c = [m \in 1..days |-> h[InSeason(n + m)].cost]
    OBVIOUS
  <2>2. days \in Nat
    BY <1>5
  <2>3. IsFiniteSet(1..days) /\ ForecastedCost(s, n, days) = SumFunctionOnSet(p, 1..days)
    BY <1>2, <2>1, <2>2, SumOfDays
  <2>4. \A m \in 1..days : c[m] \in Nat /\ p[m] = s.unit * c[m]
    <3>1. \A m \in 1..days : m \in Nat \ {0}
      BY <2>2
    <3>2. \A m \in Nat \ {0} : /\ h[InSeason(n + m)].cost \in Nat
                              /\ Clamped(s, n, m) = s.unit * h[InSeason(n + m)].cost
      BY <1>1, <1>2, DayIsContinued
    <3> QED
      BY <2>1, <3>1, <3>2
  <2>5. SumFunctionOnSet(p, 1..days) = s.unit * SumFunctionOnSet(c, 1..days)
    <3>1. s.unit \in Int /\ \A m \in 1..days : c[m] \in Int
      BY <1>4, <2>4
    <3> QED
      BY <2>3, <2>4, <3>1, SumScales
  <2>6. SumFunction(c) = SumFunctionOnSet(c, 1..days)
    BY <2>1 DEF SumFunction
  <2> QED
    BY <1>3, <2>1, <2>3, <2>5, <2>6
<1> QED
  BY <1>1, <1>3, <1>4, <1>6, <1>7, <1>8 DEF ForecastGood

----------------------------------------------------------------------------
(* The invariant is inductive.                                             *)

\* It holds at the start.
LEMMA InitHolds == Init => IInv
<1> SUFFICES ASSUME Init
             PROVE  IInv
  OBVIOUS
<1>1. DataOK
  BY LengthsArePositive DEF Init, DataOK
<1>2. InOrder
  BY DEF Init, InOrder
<1>3. RunGood
  BY DEF Init, RunGood
<1> QED
  BY <1>1, <1>2, <1>3 DEF IInv

\* A step that changes nothing that the invariant is about but the place of the scheduler,
\* which it sets to a place outside of a recalculation.
LEMMA MoveHolds ==
    ASSUME IInv, UNCHANGED <<today, daily, history, fit, forecast, stored>>,
           pc' = pc \/ (pc \in {"read", "idle", "stopped"} /\ pc' \in {"read", "idle", "stopped"})
    PROVE  IInv'
<1>1. DataOK'
  BY DEF IInv, DataOK
<1>2. InOrder'
  BY DEF IInv, InOrder, LastDay
<1>3. RunGood'
  BY DEF IInv, RunGood
<1> QED
  BY <1>1, <1>2, <1>3 DEF IInv

\* The newest record of records that are followed by a later one.
LEMMA LastOfAppended ==
    ASSUME NEW r \in Record, daily \in Seq(Record), \A i \in DOMAIN daily : daily[i].day <= today,
           r.day = today + 1, today \in Nat
    PROVE  /\ daily \o <<r>> \in Seq(Record) /\ daily \o <<r>> # <<>>
           /\ \A i \in DOMAIN (daily \o <<r>>) : (daily \o <<r>>)[i].day <= today + 1
           /\ LastDay(daily \o <<r>>) = today + 1
<1>1. PICK n, D : n = Len(daily) /\ D = daily \o <<r>>
  OBVIOUS
<1>2. n \in Nat /\ D \in Seq(Record) /\ Len(D) = n + 1 /\ DOMAIN D = 1..(n + 1) /\ DOMAIN daily = 1..n
  BY <1>1
<1>3. (\A i \in 1..n : D[i] = daily[i]) /\ D[n + 1] = r
  BY <1>1
<1>4. \A i \in 1..n : daily[i].day \in Int /\ daily[i].day <= today
  BY <1>1, <1>2, RecordFacts
<1>5. \A i \in DOMAIN D : i \in 1..n \/ i = n + 1
  BY <1>2
<1>6. \A i \in DOMAIN D : D[i].day <= today + 1
  BY <1>3, <1>4, <1>5
<1>7. D # <<>> /\ LastDay(D) = today + 1
  BY <1>2, <1>3 DEF LastDay
<1> QED
  BY <1>1, <1>2, <1>6, <1>7

\* What was collected has a newest record, which is not from the future.
LEMMA LastOfDaily ==
    ASSUME daily \in Seq(Record), daily # <<>>, \A i \in DOMAIN daily : daily[i].day <= today
    PROVE  LastDay(daily) \in Int /\ LastDay(daily) <= today
<1>1. Len(daily) \in DOMAIN daily /\ Len(daily) \in 1..Len(daily)
  OBVIOUS
<1> QED
  BY <1>1, RecordFacts DEF LastDay

\* The newest record of some history is on some day.
LEMMA LastIsDay ==
    ASSUME NEW h \in Seq(Record), h # <<>>
    PROVE  LastDay(h) \in 1..MaxDays
<1>1. Len(h) \in 1..Len(h)
  OBVIOUS
<1> QED
  BY <1>1, RecordFacts DEF LastDay

\* A history of enough days is not empty.
LEMMA EnoughIsSome ==
    ASSUME NEW h \in Seq(Record), Len(h) >= minHistoryDays
    PROVE  h # <<>>
<1>1. Len(h) >= 1
  BY SeasonLength, RecordFacts
<1> QED
  BY <1>1

\* A day without a record passes.
LEMMA EmptyDayHolds ==
    ASSUME IInv, DayEnds(<<>>)
    PROVE  IInv'
<1>1. daily' = daily /\ today' = today + 1 /\ UNCHANGED <<pc, history, fit, forecast, stored>>
  BY DEF IInv, DataOK, DayEnds, runVars
<1>2. today \in Nat /\ today' \in 0..MaxDays /\ MaxDays \in Nat
  BY <1>1, LengthsArePositive DEF IInv, DataOK, DayEnds
<1>3. DataOK'
  BY <1>1, <1>2 DEF IInv, DataOK
<1>4. InOrder'
  <2>1. \A i \in DOMAIN daily : daily[i].day <= today'
    <3>1. \A i \in DOMAIN daily : daily[i].day \in Int /\ daily[i].day <= today
      BY RecordFacts DEF IInv, DataOK, InOrder
    <3> QED
      BY <1>1, <1>2, <3>1
  <2> QED
    BY <1>1, <2>1 DEF IInv, InOrder, LastDay
<1>5. RunGood'
  BY <1>1 DEF IInv, RunGood
<1> QED
  BY <1>3, <1>4, <1>5 DEF IInv

\* The costs of a day are collected.
LEMMA DayHolds ==
    ASSUME IInv, NEW c \in Cost, DayEnds(<<[day |-> today + 1, cost |-> c]>>)
    PROVE  IInv'
<1>1. PICK r : r = [day |-> today + 1, cost |-> c]
  OBVIOUS
<1>2. daily' = daily \o <<r>> /\ today' = today + 1 /\ UNCHANGED <<pc, history, fit, forecast, stored>>
  BY <1>1 DEF DayEnds, runVars
<1>3. today \in Nat /\ today + 1 \in 1..MaxDays /\ MaxDays \in Nat
  BY LengthsArePositive DEF IInv, DataOK, DayEnds
<1>4. r \in Record /\ r.day = today + 1
  BY <1>1, <1>3 DEF Record
<1>5. daily \in Seq(Record) /\ \A i \in DOMAIN daily : daily[i].day <= today
  BY DEF IInv, DataOK, InOrder
<1>6. /\ daily' \in Seq(Record) /\ daily' # <<>>
      /\ \A i \in DOMAIN daily' : daily'[i].day <= today'
      /\ LastDay(daily') = today + 1
  BY <1>2, <1>3, <1>4, <1>5, LastOfAppended
<1>7. DataOK'
  BY <1>2, <1>3, <1>6 DEF IInv, DataOK
<1>8. daily # <<>> => LastDay(daily) \in Int /\ LastDay(daily) <= today
  BY <1>5, LastOfDaily
<1>9. InOrder'
  <2>1. ASSUME NEW g \in stored
        PROVE  LastDay(g.basis) <= LastDay(daily')
    <3>1. daily # <<>> /\ LastDay(g.basis) <= LastDay(daily)
      BY <2>1 DEF IInv, InOrder
    <3>2. g.basis \in Seq(Record) /\ g.basis # <<>>
      BY <2>1, EnoughIsSome DEF IInv, RunGood, ForecastGood
    <3>3. LastDay(g.basis) \in Int
      BY <3>2, LastIsDay
    <3> QED
      BY <1>3, <1>6, <1>8, <3>1, <3>3
  <2>2. ASSUME pc \in {"generate", "smooth", "store"}, history # <<>>
        PROVE  /\ LastDay(history) <= LastDay(daily')
               /\ \A g \in stored : LastDay(g.basis) <= LastDay(history)
    <3>1. /\ daily # <<>> /\ LastDay(history) <= LastDay(daily)
          /\ \A g \in stored : LastDay(g.basis) <= LastDay(history)
      BY <2>2 DEF IInv, InOrder
    <3>2. LastDay(history) \in Int
      BY <2>2, LastIsDay DEF IInv, DataOK
    <3> QED
      BY <1>3, <1>6, <1>8, <3>1, <3>2
  <2> QED
    BY <1>2, <1>6, <2>1, <2>2 DEF InOrder, LastDay
<1>10. RunGood'
  BY <1>2 DEF IInv, RunGood
<1> QED
  BY <1>7, <1>9, <1>10 DEF IInv

\* The end of some records: it is no longer, and has the same newest record.
LEMMA EndOfRecords ==
    ASSUME NEW h \in Seq(Record), NEW k \in 0..Len(h)
    PROVE  /\ SubSeq(h, k + 1, Len(h)) \in Seq(Record)
           /\ SubSeq(h, k + 1, Len(h)) # <<>> =>
                 h # <<>> /\ LastDay(SubSeq(h, k + 1, Len(h))) = LastDay(h)
<1>1. PICK n, e : n = Len(h) /\ e = SubSeq(h, k + 1, n)
  OBVIOUS
<1>2. n \in Nat /\ k \in 0..n
  BY <1>1, RecordFacts
<1>3. e \in Seq(Record) /\ Len(e) = n - k /\ \A i \in 1..(n - k) : e[i] = h[k + i]
  <2>1. \A i \in (k + 1)..n : h[i] \in Record
    BY <1>1, <1>2, RecordFacts
  <2>2. /\ e \in Seq(Record)
        /\ Len(e) = IF k + 1 <= n THEN n - (k + 1) + 1 ELSE 0
        /\ \A i \in 1..(n - (k + 1) + 1) : e[i] = h[(k + 1) + i - 1]
    BY <1>1, <1>2, <2>1, SubSeqProperties
  <2>3. (IF k + 1 <= n THEN n - (k + 1) + 1 ELSE 0) = n - k /\ n - (k + 1) + 1 = n - k
    BY <1>2
  <2>4. \A i \in 1..(n - k) : (k + 1) + i - 1 = k + i
    BY <1>2
  <2> QED
    BY <2>2, <2>3, <2>4
<1>4. ASSUME e # <<>>
      PROVE  h # <<>> /\ LastDay(e) = LastDay(h)
  <2>1. n - k \in 1..(n - k) /\ k + (n - k) = n
    BY <1>2, <1>3, <1>4
  <2>2. e[Len(e)] = h[Len(h)]
    BY <1>1, <1>2, <1>3, <2>1
  <2>3. h # <<>>
    BY <1>1, <2>1
  <2> QED
    BY <2>2, <2>3 DEF LastDay
<1> QED
  BY <1>1, <1>3, <1>4

\* A recalculation reads its history.
LEMMA ReadHolds ==
    ASSUME IInv, ReadDailyCosts
    PROVE  IInv'
<1>1. PICK k : k = Cardinality({i \in DOMAIN daily : daily[i].day <= today - HistoryDays})
  OBVIOUS
<1>2. /\ history' = SubSeq(daily, k + 1, Len(daily)) /\ pc = "read" /\ pc' = "generate"
      /\ UNCHANGED <<today, daily, fit, forecast, stored>>
  BY <1>1 DEF ReadDailyCosts
<1>3. daily \in Seq(Record) /\ Len(daily) \in Nat
  BY DEF IInv, DataOK
<1>4. k \in 0..Len(daily)
  <2>1. PICK o : o = {i \in DOMAIN daily : daily[i].day <= today - HistoryDays}
    OBVIOUS
  <2>2. o \subseteq 1..Len(daily)
    BY <1>3, <2>1
  <2>3. IsFiniteSet(1..Len(daily)) /\ Cardinality(1..Len(daily)) = Len(daily)
    <3>1. 1 \in Int /\ Len(daily) \in Int
      BY <1>3
    <3>2. Cardinality(1..Len(daily)) = IF 1 > Len(daily) THEN 0 ELSE Len(daily) - 1 + 1
      BY <3>1, FS_Interval
    <3> QED
      BY <1>3, <3>1, <3>2, FS_Interval
  <2>4. IsFiniteSet(o) /\ Cardinality(o) <= Len(daily)
    BY <2>2, <2>3, FS_Subset
  <2>5. Cardinality(o) \in Nat
    BY <2>4, FS_CardinalityType
  <2> QED
    BY <1>1, <1>3, <2>1, <2>4, <2>5
<1>5. /\ history' \in Seq(Record)
      /\ history' # <<>> => daily # <<>> /\ LastDay(history') = LastDay(daily)
  BY <1>2, <1>3, <1>4, EndOfRecords
<1>6. DataOK'
  BY <1>2, <1>5 DEF IInv, DataOK
<1>7. InOrder'
  <2>1. history' # <<>> => LastDay(daily) \in Int
    BY <1>5, LastOfDaily, <1>3 DEF IInv, InOrder
  <2>2. history' # <<>> => /\ LastDay(history') <= LastDay(daily)
                           /\ \A g \in stored : LastDay(g.basis) <= LastDay(history')
    BY <1>5, <2>1 DEF IInv, InOrder
  <2> QED
    BY <1>2, <1>5, <2>2 DEF IInv, InOrder, LastDay
<1>8. RunGood'
  BY <1>2 DEF IInv, RunGood
<1> QED
  BY <1>6, <1>7, <1>8 DEF IInv

\* A recalculation ends, and has stored nothing or its forecast; or the process dies.
LEMMA EndHolds ==
    ASSUME IInv, history' = <<>>, fit' = {}, forecast' = {}, UNCHANGED <<today, daily>>,
           pc' \in {"idle", "read"}, stored' = stored \/ (pc = "store" /\ stored' = forecast)
    PROVE  IInv'
<1>1. DataOK'
  BY DEF IInv, DataOK
<1>2. ASSUME NEW g \in stored'
      PROVE  ForecastGood(g) /\ daily # <<>> /\ LastDay(g.basis) <= LastDay(daily)
  <2>1. CASE stored' = stored
    BY <1>2, <2>1 DEF IInv, RunGood, InOrder
  <2>2. CASE pc = "store" /\ stored' = forecast
    <3>1. ForecastGood(g) /\ g.basis = history /\ history \in Seq(Record)
      BY <1>2, <2>2 DEF IInv, RunGood, DataOK
    <3>2. history # <<>>
      BY <3>1, EnoughIsSome DEF ForecastGood
    <3>3. daily # <<>> /\ LastDay(history) <= LastDay(daily)
      BY <2>2, <3>2 DEF IInv, InOrder
    <3> QED
      BY <3>1, <3>3
  <2> QED
    BY <2>1, <2>2
<1>3. InOrder'
  BY <1>2 DEF IInv, InOrder, LastDay
<1>4. RunGood'
  BY <1>2 DEF RunGood
<1> QED
  BY <1>1, <1>3, <1>4 DEF IInv

\* The smoothing begins, or the history is refused.
LEMMA GenerateHolds ==
    ASSUME IInv, Generate
    PROVE  IInv'
<1>1. CASE RunEnds(TRUE)
  BY <1>1, EndHolds DEF Generate, RunEnds
<1>2. CASE /\ Len(history) >= minHistoryDays
           /\ fit' = {[components |-> Initial(CostsOf(history)), t |-> defaultSeasonLength]}
           /\ pc' = "smooth"
           /\ UNCHANGED <<ticking, history, forecast>>
  <2>1. pc = "generate" /\ UNCHANGED <<today, daily, stored, history, forecast>>
    BY <1>2 DEF Generate
  <2>2. DataOK'
    BY <1>2, <2>1 DEF IInv, DataOK
  <2>3. InOrder'
    BY <1>2, <2>1 DEF IInv, InOrder, LastDay
  <2>4. \A f \in fit' : FitGood(f, history)
    BY <1>2, InitialIsGood DEF IInv, DataOK
  <2>5. RunGood'
    BY <1>2, <2>1, <2>4 DEF IInv, RunGood
  <2> QED
    BY <2>2, <2>3, <2>5 DEF IInv
<1> QED
  BY <1>1, <1>2 DEF Generate

\* The smoothing makes a step, or ends in a forecast.
LEMMA SmoothHolds ==
    ASSUME IInv, Smooth
    PROVE  IInv'
<1>1. PICK f \in fit :
          \/ /\ f.t < Len(history)
             /\ fit' = {[components |-> Smoothed(f.components, history[f.t + 1].cost, f.t),
                         t          |-> f.t + 1]}
             /\ UNCHANGED <<pc, forecast>>
          \/ /\ f.t = Len(history)
             /\ forecast' = {Forecast(f.components, history)}
             /\ fit' = {}
             /\ pc' = "store"
  BY DEF Smooth
<1>2. pc = "smooth" /\ UNCHANGED <<today, daily, history, stored>>
  BY DEF Smooth
<1>3. history \in Seq(Record) /\ Len(history) >= minHistoryDays /\ FitGood(f, history)
  BY <1>1, <1>2 DEF IInv, DataOK, RunGood
<1>4. DataOK'
  BY <1>1, <1>2 DEF IInv, DataOK
<1>5. InOrder'
  BY <1>1, <1>2 DEF IInv, InOrder, LastDay
<1>6. RunGood'
  <2>1. CASE /\ f.t < Len(history)
             /\ fit' = {[components |-> Smoothed(f.components, history[f.t + 1].cost, f.t),
                         t          |-> f.t + 1]}
             /\ UNCHANGED <<pc, forecast>>
    <3>1. \A g \in fit' : FitGood(g, history)
      BY <1>3, <2>1, SmoothedIsGood
    <3> QED
      BY <1>2, <2>1, <3>1 DEF IInv, RunGood
  <2>2. CASE /\ f.t = Len(history)
             /\ forecast' = {Forecast(f.components, history)}
             /\ fit' = {}
             /\ pc' = "store"
    <3>1. \A g \in forecast' : ForecastGood(g) /\ g.basis = history
      BY <1>3, <2>2, ForecastIsGood
    <3> QED
      BY <1>2, <1>3, <2>2, <3>1 DEF IInv, RunGood
  <2> QED
    BY <1>1, <2>1, <2>2
<1> QED
  BY <1>4, <1>5, <1>6 DEF IInv

\* Every step keeps the invariant.
LEMMA StepHolds == IInv /\ [Next]_vars => IInv'
<1> SUFFICES ASSUME IInv, [Next]_vars
             PROVE  IInv'
  OBVIOUS
<1>1. ASSUME NEW c \in Cost, DayEnds(<<[day |-> today + 1, cost |-> c]>>)
      PROVE  IInv'
  BY <1>1, DayHolds
<1>2. CASE DayEnds(<<>>)
  BY <1>2, EmptyDayHolds
<1>3. CASE Tick \/ Begin \/ Cancel \/ Stop
  BY <1>3, MoveHolds DEF Tick, Begin, Cancel, Stop, runVars
<1>4. CASE ReadDailyCosts
  BY <1>4, ReadHolds
<1>5. CASE ReadFails \/ StoreForecast \/ StoreFails \/ Restart
  BY <1>5, EndHolds DEF ReadFails, StoreForecast, StoreFails, Restart, RunEnds
<1>6. CASE Generate
  BY <1>6, GenerateHolds
<1>7. CASE Smooth
  BY <1>7, SmoothHolds
<1>8. CASE UNCHANGED vars
  BY <1>8, MoveHolds DEF vars, runVars
<1> QED
  BY <1>1, <1>2, <1>3, <1>4, <1>5, <1>6, <1>7, <1>8 DEF Next, Scheduler

\* The invariant holds in every state.
LEMMA Invariance == Spec => []IInv
<1>1. Init => IInv
  BY InitHolds
<1>2. IInv /\ [Next]_vars => IInv'
  BY StepHolds
<1> QED
  BY <1>1, <1>2, PTL DEF Spec

----------------------------------------------------------------------------
(* The properties.                                                         *)

\* A stored forecast is only ever replaced by one of a complete history that ends no
\* earlier.
THEOREM ValidOverwrites == Spec => OnlyValidOverwrites
<1> DEFINE A == stored' # stored =>
                  /\ stored' # {}
                  /\ \A f \in stored' :
                        /\ Len(f.basis) >= minHistoryDays
                        /\ \A g \in stored : g.basis[Len(g.basis)].day <= f.basis[Len(f.basis)].day
<1>1. ASSUME IInv, [Next]_vars
      PROVE  A
  <2> SUFFICES ASSUME stored' # stored
               PROVE  /\ stored' # {}
                      /\ \A f \in stored' :
                            /\ Len(f.basis) >= minHistoryDays
                            /\ \A g \in stored : LastDay(g.basis) <= LastDay(f.basis)
    BY DEF LastDay
  <2>1. StoreForecast
    BY <1>1 DEF Next, DayEnds, Tick, Scheduler, Begin, ReadDailyCosts, ReadFails, Generate, Smooth,
                StoreFails, Cancel, Stop, Restart, vars
  <2>2. pc = "store" /\ stored' = forecast
    BY <2>1 DEF StoreForecast
  <2>3. \A f \in forecast : /\ f.basis = history /\ Len(f.basis) >= minHistoryDays
                            /\ history # <<>>
    BY <1>1, EnoughIsSome DEF IInv, RunGood, ForecastGood
  <2>4. history # <<>> => \A g \in stored : LastDay(g.basis) <= LastDay(history)
    BY <1>1, <2>2 DEF IInv, InOrder
  <2>5. forecast # {}
    BY <1>1, <2>2 DEF IInv, RunGood
  <2> QED
    BY <2>2, <2>3, <2>4, <2>5
<1>2. IInv /\ [Next]_vars => A
  BY <1>1
<1>3. IInv /\ [Next]_vars => [A]_vars
  BY <1>2
<1>4. Spec => []IInv
  BY Invariance
<1>5. Spec => [][A]_vars
  <2> HIDE DEF A
  <2> QED
    BY <1>3, <1>4, PTL DEF Spec
<1> QED
  BY <1>5 DEF OnlyValidOverwrites

\* A season that repeats itself is continued over every horizon.
THEOREM SeasonIsContinued == Spec => []PeriodicIsContinued
<1>1. IInv => PeriodicIsContinued
  <2> SUFFICES ASSUME IInv, NEW f \in stored
               PROVE  LET n == Len(f.basis)
                          L == defaultSeasonLength
                          cost(i) == f.basis[i].cost
                      IN  (\A i \in 1..(n - L) : cost(i) = cost(i + L)) =>
                            \A days \in Horizon :
                              f.periods[days] =
                                f.unit * SumFunction([m \in 1..days |-> cost(((n + m - 1) % L) + 1)])
    BY DEF PeriodicIsContinued
  <2>1. Continues(f)
    BY DEF IInv, RunGood, ForecastGood
  <2> QED
    BY <2>1 DEF Continues, Repeats, InSeason
<1> QED
  BY <1>1, Invariance, PTL

\* A breach is one of every lower threshold and every longer horizon as well.
THEOREM BreachesGoUp == Spec => []BreachesAreUpwardClosed
<1>1. IInv => BreachesAreUpwardClosed
  <2> SUFFICES ASSUME IInv, NEW f \in stored, NEW budget \in Budget,
                      NEW b \in CheckThresholds(f, budget), NEW days \in Horizon,
                      NEW pct \in budget.thresholds, days >= b.days, pct <= b.pct
               PROVE  [days |-> days, pct |-> pct] \in CheckThresholds(f, budget)
    BY DEF BreachesAreUpwardClosed
  <2>1. PICK u, l, p, q : u = f.unit \div 100 /\ l = budget.limit /\ p = f.periods[b.days]
                          /\ q = f.periods[days]
    OBVIOUS
  <2>2. DOMAIN f.periods = Horizon /\ f.unit \in Nat /\ f.periods \in [Horizon -> Nat]
        /\ \A x, y \in Horizon : x <= y => f.periods[x] <= f.periods[y]
    BY DEF IInv, RunGood, ForecastGood
  <2>3. budget.limit \in Nat /\ budget.thresholds \subseteq Nat
    BY AmountsAreNat
  <2>4. b.days \in Horizon /\ b.pct \in budget.thresholds /\ l > 0 /\ p > u * l * b.pct
    BY <2>1, <2>2 DEF CheckThresholds
  <2>5. u \in Nat
    BY <2>1, <2>2
  <2>6. b.pct \in Nat /\ pct \in Nat /\ l \in Nat /\ p \in Nat /\ q \in Nat
    BY <2>1, <2>2, <2>3, <2>4
  <2>7. p <= q
    <3>1. b.days \in Nat /\ days \in Nat /\ b.days <= days
      BY <2>4, LengthsArePositive
    <3> QED
      BY <2>1, <2>2, <2>4, <3>1
  <2>8. u * l * pct <= u * l * b.pct
    <3>1. PICK k : k = u * l
      OBVIOUS
    <3>2. k \in Nat
      BY <2>5, <2>6, <3>1
    <3>3. k * pct <= k * b.pct
      BY <2>6, <3>2
    <3> QED
      BY <3>1, <3>3
  <2>9. q > u * l * pct
    <3>1. PICK x, y : x = u * l * pct /\ y = u * l * b.pct
      OBVIOUS
    <3>2. x \in Int /\ y \in Int
      BY <2>5, <2>6, <3>1
    <3> QED
      BY <2>4, <2>6, <2>7, <2>8, <3>1, <3>2
  <2> QED
    BY <2>1, <2>2, <2>4, <2>9 DEF CheckThresholds
<1> QED
  BY <1>1, Invariance, PTL

----------------------------------------------------------------------------
(* DetectSeasonality.                                                      *)

\* The records of a day of the week or of the month.
LEMMA SlotFacts ==
    ASSUME NEW h \in Seq(Record), NEW slot, NEW x
    PROVE  /\ RecordsOn(h, slot, x) \subseteq 1..Len(h)
           /\ IsFiniteSet(RecordsOn(h, slot, x))
           /\ Cardinality(RecordsOn(h, slot, x)) \in Nat
           /\ RecordsOn(h, slot, x) # {} => Cardinality(RecordsOn(h, slot, x)) \in Nat \ {0}
<1>1. PICK R : R = RecordsOn(h, slot, x)
  OBVIOUS
<1>2. R \subseteq 1..Len(h)
  BY <1>1, RecordFacts DEF RecordsOn
<1>3. IsFiniteSet(1..Len(h))
  BY RecordFacts, FS_Interval
<1>4. IsFiniteSet(R)
  BY <1>2, <1>3, FS_Subset
<1>5. Cardinality(R) \in Nat /\ (Cardinality(R) = 0 <=> R = {})
  BY <1>4, FS_CardinalityType, FS_EmptySet
<1> QED
  BY <1>1, <1>2, <1>4, <1>5

\* A day that always costs the same costs that as often as it has records.
LEMMA SlotSum ==
    ASSUME NEW h \in Seq(Record), NEW slot, NEW x, NEW c \in Int,
           \A i \in RecordsOn(h, slot, x) : h[i].cost = c
    PROVE  SumOn(h, slot, x) = Cardinality(RecordsOn(h, slot, x)) * c
<1>1. PICK R, g : R = RecordsOn(h, slot, x) /\ g = [i \in R |-> h[i].cost]
  OBVIOUS
<1>2. DOMAIN g = R /\ \A i \in R : g[i] = c
  BY <1>1
<1>3. SumOn(h, slot, x) = SumFunctionOnSet(g, R)
  BY <1>1, <1>2 DEF SumOn, SumFunction
<1>4. IsFiniteSet(R)
  BY <1>1, SlotFacts
<1>5. SumFunctionOnSet(g, R) = Cardinality(R) * c
  BY <1>2, <1>4, SumOfConstant
<1> QED
  BY <1>1, <1>3, <1>5

\* The unit of the factors: the product of the numbers of records.
Unit(h, slot, slots) == ProductOnSet([x \in slots |-> Cardinality(RecordsOn(h, slot, x))], slots)

\* Where every slot has records, a slot with always the same cost has this cost for a
\* factor, in a unit that is not zero.
LEMMA FactorIsCost ==
    ASSUME NEW h \in Seq(Record), NEW slot, NEW slots, IsFiniteSet(slots),
           \A x \in slots : RecordsOn(h, slot, x) # {}
    PROVE  /\ Unit(h, slot, slots) \in Nat \ {0}
           /\ \A x \in slots : \A c \in Nat : (\A i \in RecordsOn(h, slot, x) : h[i].cost = c) =>
                 Factors(h, slot, slots)[x] = c * Unit(h, slot, slots)
<1>1. PICK count, p, f : /\ count = [x \in slots |-> Cardinality(RecordsOn(h, slot, x))]
                         /\ p = Unit(h, slot, slots)
                         /\ f = Factors(h, slot, slots)
  OBVIOUS
<1>2. \A x \in slots : count[x] \in Nat \ {0}
  BY <1>1, SlotFacts
<1>3. {x \in slots : count[x] > 0} = slots
  BY <1>2
<1>4. f = [x \in slots |-> SumOn(h, slot, x) * ProductOnSet(count, slots \ {x})]
  BY <1>1, <1>3 DEF Factors, ProductOnSet
<1>5. p = ProductOnSet(count, slots)
  BY <1>1 DEF Unit
<1>6. p \in Nat \ {0}
  BY <1>2, <1>5, ProductIsPositive
<1>7. ASSUME NEW x \in slots, NEW c \in Nat, \A i \in RecordsOn(h, slot, x) : h[i].cost = c
      PROVE  f[x] = c * p
  <2>1. PICK n, q : n = count[x] /\ q = ProductOnSet(count, slots \ {x})
    OBVIOUS
  <2>2. n \in Nat \ {0}
    BY <1>2, <2>1
  <2>3. SumOn(h, slot, x) = n * c
    <3>1. c \in Int
      OBVIOUS
    <3>2. SumOn(h, slot, x) = Cardinality(RecordsOn(h, slot, x)) * c
      BY <1>7, <3>1, SlotSum
    <3> QED
      BY <1>1, <2>1, <3>2
  <2>4. p = n * q
    BY <1>2, <1>5, <2>1, ProductByElement
  <2>5. q \in Nat \ {0}
    <3>1. IsFiniteSet(slots \ {x})
      BY FS_Subset
    <3> QED
      BY <1>2, <2>1, <3>1, ProductIsPositive
  <2>6. (n * c) * q = c * (n * q)
    BY <2>2, <2>5
  <2> QED
    BY <1>4, <2>1, <2>3, <2>4, <2>6
<1> QED
  BY <1>1, <1>6, <1>7

\* Equal factors do not vary.
LEMMA EqualDoNotVary ==
    ASSUME NEW S, IsFiniteSet(S), NEW f, NEW c \in Int, \A x \in S : f[x] = c
    PROVE  ~Varies(f, S)
<1>1. PICK k, s, q : /\ k = Cardinality(S) /\ s = SumFunctionOnSet(f, S)
                     /\ q = [x \in S |-> (k * f[x] - s) * (k * f[x] - s)]
  OBVIOUS
<1>2. k \in Nat /\ s = k * c
  BY <1>1, SumOfConstant, FS_CardinalityType
<1>3. \A x \in S : q[x] = 0
  <2>1. (k * c - s) * (k * c - s) = 0
    BY <1>2
  <2> QED
    BY <1>1, <2>1
<1>4. SumFunction(q) = 0
  <2>1. SumFunction(q) = SumFunctionOnSet(q, S)
    BY <1>1 DEF SumFunction
  <2> QED
    BY <1>3, <2>1, SumOfZeros
<1>5. k * s * s >= 0
  <2>1. PICK w : w = s * s
    OBVIOUS
  <2>2. s \in Int /\ w \in Nat
    BY <1>2, <2>1
  <2>3. k * w \in Nat
    BY <1>2, <2>2
  <2>4. k * s * s = k * w
    BY <1>2, <2>1, <2>2
  <2> QED
    BY <2>3, <2>4
<1>6. Varies(f, S) <=> 400 * SumFunction(q) > k * s * s
  BY <1>1 DEF Varies
<1> QED
  BY <1>2, <1>4, <1>5, <1>6

\* Every set of numbers that are not all alike has a greatest one.
LEMMA GreatestExists ==
    ASSUME NEW S, IsFiniteSet(S), NEW f, \A x \in S : f[x] \in Nat
    PROVE  S = {} \/ \E z \in S : \A x \in S : f[x] <= f[z]
<1> DEFINE P == {T \in SUBSET S : T = {} \/ \E z \in T : \A x \in T : f[x] <= f[z]}
<1>1. {} \in P
  OBVIOUS
<1>2. ASSUME NEW T \in SUBSET S, NEW x \in T, T \ {x} \in P
      PROVE  T \in P
  <2>1. CASE T \ {x} = {}
    <3>1. \A y \in T : y = x
      BY <2>1
    <3>2. f[x] <= f[x]
      OBVIOUS
    <3> QED
      BY <3>1, <3>2
  <2>2. CASE T \ {x} # {}
    <3>1. PICK z \in T \ {x} : \A y \in T \ {x} : f[y] <= f[z]
      BY <1>2, <2>2
    <3>2. \A y \in T : f[y] \in Nat
      OBVIOUS
    <3>3. CASE f[x] <= f[z]
      BY <3>1, <3>3
    <3>4. CASE f[z] <= f[x]
      <4>1. \A y \in T : f[y] <= f[x]
        BY <3>1, <3>2, <3>4
      <4> QED
        BY <4>1
    <3> QED
      BY <3>2, <3>3, <3>4
  <2> QED
    BY <2>1, <2>2
<1> HIDE DEF P
<1>3. S \in P
  BY <1>1, <1>2, ElementInduction
<1> QED
  BY <1>3 DEF P

\* One is at most half of the other, which is not zero.
Halves(a, b) == 2 * a <= b /\ b > 0

\* Numbers, each at most half of the next, add up to at most the double of the greatest.
LEMMA HalvesAddUp ==
    ASSUME NEW S, IsFiniteSet(S), NEW f, \A x \in S : f[x] \in Nat,
           \A x, y \in S : x # y => Halves(f[x], f[y]) \/ Halves(f[y], f[x])
    PROVE  \A m \in Nat : (\A x \in S : 2 * f[x] <= m) => SumFunctionOnSet(f, S) <= m
<1> DEFINE P == {T \in SUBSET S : \A m \in Nat : (\A x \in T : 2 * f[x] <= m) =>
                                      SumFunctionOnSet(f, T) <= m}
<1>1. ASSUME NEW T \in SUBSET S, \A U \in SUBSET T : U # T => U \in P
      PROVE  T \in P
  <2> SUFFICES ASSUME NEW m \in Nat, \A x \in T : 2 * f[x] <= m
               PROVE  SumFunctionOnSet(f, T) <= m
    OBVIOUS
  <2>1. IsFiniteSet(T) /\ \A x \in T : f[x] \in Nat
    BY FS_Subset
  <2>2. CASE T = {}
    <3>1. SumFunctionOnSet(f, T) = 0
      BY <2>1, <2>2, SumByChosen
    <3> QED
      BY <3>1
  <2>3. CASE T # {}
    <3>1. PICK z \in T : \A x \in T : f[x] <= f[z]
      BY <2>1, <2>3, GreatestExists
    <3>2. PICK u, a, b : u = T \ {z} /\ a = f[z] /\ b = SumFunctionOnSet(f, u)
      OBVIOUS
    <3>3. a \in Nat /\ 2 * a <= m
      BY <2>1, <3>1, <3>2
    <3>4. \A x \in u : 2 * f[x] <= a
      <4> SUFFICES ASSUME NEW x \in u
                   PROVE  2 * f[x] <= a
        OBVIOUS
      <4>1. f[x] \in Nat /\ f[x] <= a /\ (Halves(f[x], a) \/ Halves(a, f[x]))
        BY <2>1, <3>1, <3>2
      <4> QED
        BY <3>3, <4>1 DEF Halves
    <3>5. u \in P
      BY <1>1, <3>2
    <3>6. b <= a
      BY <3>2, <3>3, <3>4, <3>5
    <3>7. SumFunctionOnSet(f, T) = a + b
      <4>1. \A x \in T : f[x] \in Int
        BY <2>1
      <4> QED
        BY <2>1, <3>2, <4>1, SumByElement
    <3>8. b \in Nat
      <4>1. IsFiniteSet(u) /\ \A x \in u : f[x] \in Nat
        BY <2>1, <3>2, FS_Subset
      <4> QED
        BY <3>2, <4>1, SumOfNat
    <3> QED
      BY <3>3, <3>6, <3>7, <3>8
  <2> QED
    BY <2>2, <2>3
<1> HIDE DEF P
<1>2. S \in P
  BY <1>1, SubsetInduction
<1> QED
  BY <1>2 DEF P

\* A square of what is no less is no less.
LEMMA SquareGrows ==
    ASSUME NEW a \in Nat, NEW b \in Nat, a <= b
    PROVE  a * a <= b * b /\ a * a \in Nat /\ b * b \in Nat
OBVIOUS

\* Of three days or more, the distance of the greatest cost F from the mean alone is enough.
LEMMA FarFromMean ==
    ASSUME NEW k \in Nat, k >= 3, NEW F \in Nat \ {0}, NEW s \in Nat, s <= 2 * F
    PROVE  400 * ((k * F - s) * (k * F - s)) > k * s * s
<1>1. PICK j, Q, w, d, e : /\ j = k - 2 /\ Q = F * F /\ w = j * F
                           /\ d = k * F - s /\ e = s * s
  OBVIOUS
<1>2. j \in Nat \ {0} /\ Q \in Nat \ {0} /\ w \in Nat /\ k = j + 2 /\ e \in Nat
  BY <1>1
<1>3. k * F = w + 2 * F
  BY <1>1, <1>2
<1>4. d \in Nat /\ w <= d
  BY <1>1, <1>2, <1>3
<1>5. w * w <= d * d /\ w * w \in Nat /\ d * d \in Nat
  BY <1>2, <1>4, SquareGrows
<1>6. w * w >= j * Q
  <2>1. w * w = j * (j * Q)
    BY <1>1, <1>2
  <2>2. j * (j * Q) >= j * Q
    <3>1. PICK y : y = j * Q
      OBVIOUS
    <3>2. y \in Nat /\ j * y >= y
      BY <1>2, <3>1
    <3> QED
      BY <3>1, <3>2
  <2> QED
    BY <2>1, <2>2
<1>7. e <= 4 * Q
  <2>1. e <= (2 * F) * (2 * F)
    BY <1>1, SquareGrows
  <2>2. (2 * F) * (2 * F) = 4 * Q
    BY <1>1
  <2> QED
    BY <2>1, <2>2
<1>8. k * e <= k * (4 * Q)
  BY <1>2, <1>7
<1>9. k * (4 * Q) = 4 * (j * Q) + 8 * Q
  BY <1>2
<1>10. j * Q >= Q
  BY <1>2
<1>11. k * s * s = k * e
  BY <1>1
<1>12. k * e \in Int /\ j * Q \in Int
  BY <1>2
<1> QED
  BY <1>1, <1>2, <1>5, <1>6, <1>8, <1>9, <1>10, <1>11, <1>12

\* Of two days, one that costs at most half of the other is enough.
LEMMA FarFromHalf ==
    ASSUME NEW F \in Nat \ {0}, NEW t \in Nat, 2 * t <= F
    PROVE  400 * ((2 * F - (F + t)) * (2 * F - (F + t))) > 2 * (F + t) * (F + t)
<1>1. PICK d, s, Q : d = 2 * F - (F + t) /\ s = F + t /\ Q = F * F
  OBVIOUS
<1>2. d \in Nat /\ s \in Nat /\ F <= 2 * d /\ s <= 2 * F /\ Q \in Nat \ {0}
  BY <1>1
<1>3. F * F <= (2 * d) * (2 * d) /\ s * s <= (2 * F) * (2 * F)
  BY <1>2, SquareGrows
<1>4. (2 * d) * (2 * d) = 4 * (d * d) /\ (2 * F) * (2 * F) = 4 * Q
  BY <1>1, <1>2
<1>5. d * d \in Nat /\ s * s \in Nat
  BY <1>2
<1>6. 2 * s * s = 2 * (s * s)
  BY <1>2
<1>7. 400 * (d * d) >= 100 * Q /\ 2 * (s * s) <= 8 * Q
  BY <1>1, <1>2, <1>3, <1>4, <1>5
<1> QED
  BY <1>1, <1>2, <1>5, <1>6, <1>7

\* Factors of which each is at most half of the next vary.
LEMMA HalvesVary ==
    ASSUME NEW S, S = 0..(defaultSeasonLength - 1), NEW f, \A x \in S : f[x] \in Nat,
           \A x, y \in S : x # y => Halves(f[x], f[y]) \/ Halves(f[y], f[x])
    PROVE  Varies(f, S)
<1>1. PICK k, s, q : /\ k = Cardinality(S) /\ s = SumFunctionOnSet(f, S)
                     /\ q = [x \in S |-> (k * f[x] - s) * (k * f[x] - s)]
  OBVIOUS
<1>2. IsFiniteSet(S) /\ k = defaultSeasonLength /\ k \in Nat /\ k >= 2 /\ 0 \in S
  <2>1. defaultSeasonLength - 1 \in Int /\ 0 <= defaultSeasonLength - 1
    BY SeasonLength
  <2>2. IsFiniteSet(S)
    BY <2>1, FS_Interval
  <2>3. Cardinality(S) = IF 0 > defaultSeasonLength - 1 THEN 0 ELSE (defaultSeasonLength - 1) - 0 + 1
    BY <2>1, FS_Interval
  <2> QED
    BY <1>1, <2>1, <2>2, <2>3, SeasonLength
<1>3. PICK M \in S : \A x \in S : f[x] <= f[M]
  BY <1>2, GreatestExists
<1>4. PICK F, u, t : F = f[M] /\ u = S \ {M} /\ t = SumFunctionOnSet(f, u)
  OBVIOUS
<1>5. IsFiniteSet(u) /\ \A x \in u : f[x] \in Nat
  BY <1>2, <1>4, FS_Subset
<1>6. F \in Nat /\ t \in Nat /\ s = F + t
  <2>1. \A x \in S : f[x] \in Int
    OBVIOUS
  <2>2. s = F + t
    <3>1. SumFunctionOnSet(f, S) = f[M] + SumFunctionOnSet(f, S \ {M})
      BY <1>2, <2>1, SumByElement
    <3> QED
      BY <1>1, <1>4, <3>1
  <2>3. t \in Nat
    BY <1>4, <1>5, SumOfNat
  <2> QED
    BY <1>3, <1>4, <2>2, <2>3
<1>7. \A x \in u : 2 * f[x] <= F /\ F > 0
  <2> SUFFICES ASSUME NEW x \in u
               PROVE  2 * f[x] <= F /\ F > 0
    OBVIOUS
  <2>1. f[x] \in Nat /\ f[x] <= F /\ (Halves(f[x], F) \/ Halves(F, f[x]))
    BY <1>3, <1>4
  <2> QED
    BY <1>6, <2>1 DEF Halves
<1>8. F > 0
  <2>1. 0 \in u \/ 1 \in u
    BY <1>2, <1>4
  <2> QED
    BY <1>7, <2>1
<1>9. t <= F
  <2>1. \A x, y \in u : x # y => Halves(f[x], f[y]) \/ Halves(f[y], f[x])
    BY <1>4
  <2>2. \A m \in Nat : (\A x \in u : 2 * f[x] <= m) => t <= m
    BY <1>4, <1>5, <2>1, HalvesAddUp
  <2> QED
    BY <1>6, <1>7, <2>2
<1>10. k = 2 => 2 * t <= F
  <2> SUFFICES ASSUME k = 2
               PROVE  2 * t <= F
    OBVIOUS
  <2>1. PICK y : y \in u /\ u = {y}
    <3>1. S = {0, 1}
      BY <1>2
    <3>2. u = {0} \/ u = {1}
      BY <1>4, <3>1
    <3> QED
      BY <3>2
  <2>2. t = f[y] + SumFunctionOnSet(f, u \ {y})
    <3>1. \A x \in u : f[x] \in Int
      BY <1>5
    <3> QED
      BY <1>4, <1>5, <2>1, <3>1, SumByElement
  <2>3. SumFunctionOnSet(f, u \ {y}) = 0
    <3>1. u \ {y} = {}
      BY <2>1
    <3> QED
      BY <3>1, SumByChosen, FS_EmptySet
  <2>4. t = f[y]
    BY <1>5, <2>1, <2>2, <2>3
  <2> QED
    BY <1>7, <2>1, <2>4
<1>11. 400 * ((k * F - s) * (k * F - s)) > k * s * s
  <2>1. CASE k = 2
    BY <1>6, <1>8, <1>10, <2>1, FarFromHalf
  <2>2. CASE k >= 3
    BY <1>2, <1>6, <1>8, <1>9, <2>2, FarFromMean
  <2> QED
    BY <1>2, <2>1, <2>2
<1>12. SumFunction(q) >= q[M] /\ SumFunction(q) \in Int /\ q[M] \in Int
  <2>1. \A x \in S : q[x] \in Nat
    <3> SUFFICES ASSUME NEW x \in S
                 PROVE  q[x] \in Nat
      OBVIOUS
    <3>1. PICK z : z = k * f[x] - s
      OBVIOUS
    <3>2. z \in Int
      <4>1. k * f[x] \in Int
        BY <1>2
      <4> QED
        BY <1>6, <3>1, <4>1
    <3>3. z * z \in Nat
      BY <3>2
    <3> QED
      BY <1>1, <3>1, <3>3
  <2>2. SumFunction(q) = SumFunctionOnSet(q, S)
    BY <1>1 DEF SumFunction
  <2>3. \A y \in S : q[y] <= SumFunctionOnSet(q, S) /\ SumFunctionOnSet(q, S) \in Nat
    BY <1>2, <2>1, SumOfElement
  <2> QED
    BY <1>3, <2>1, <2>2, <2>3
<1>13. q[M] = (k * F - s) * (k * F - s)
  BY <1>1, <1>4
<1>14. 400 * SumFunction(q) > k * s * s
  <2>1. PICK a, b, c : a = SumFunction(q) /\ b = q[M] /\ c = k * s * s
    OBVIOUS
  <2>2. a \in Int /\ b \in Int /\ a >= b /\ 400 * b > c
    BY <1>11, <1>12, <1>13, <2>1
  <2>3. c \in Int
    BY <1>2, <1>6, <2>1
  <2>4. 400 * a > c
    BY <2>2, <2>3
  <2> QED
    BY <2>1, <2>4
<1> QED
  BY <1>1, <1>14 DEF Varies

\* The days of the week, and those of the month with records.
Weekdays == 0..(defaultSeasonLength - 1)
Monthdays(records) == {Monthday[records[i].day] : i \in DOMAIN records}

\* What DetectSeasonality finds.
LEMMA PatternFacts ==
    ASSUME NEW h
    PROVE  /\ Len(h) < minHistoryDays => /\ ~DetectSeasonality(h).weekly
                                         /\ ~DetectSeasonality(h).monthly
           /\ ~(Len(h) < minHistoryDays) =>
                 /\ DetectSeasonality(h).weekly <=> Varies(Factors(h, Weekday, Weekdays), Weekdays)
                 /\ DetectSeasonality(h).monthly <=>
                       Varies(Factors(h, Monthday, Monthdays(h)), Monthdays(h))
BY DEF DetectSeasonality, Weekdays, Monthdays

\* The slots, and that those of the month have records.
LEMMA SlotsAreFinite ==
    ASSUME NEW h \in Seq(Record)
    PROVE  /\ IsFiniteSet(Weekdays)
           /\ IsFiniteSet(Monthdays(h))
           /\ \A x \in Monthdays(h) : RecordsOn(h, Monthday, x) # {}
<1>1. IsFiniteSet(Weekdays)
  <2>1. defaultSeasonLength - 1 \in Int
    BY SeasonLength
  <2> QED
    BY <2>1, FS_Interval DEF Weekdays
<1>2. IsFiniteSet(Monthdays(h))
  <2>1. PICK D, g : D = DOMAIN h /\ g = [i \in D |-> Monthday[h[i].day]]
    OBVIOUS
  <2>2. IsFiniteSet(D)
    BY <2>1, RecordFacts, FS_Interval
  <2>3. IsFiniteSet({g[i] : i \in D})
    BY <2>2, ImageIsFinite
  <2>4. {g[i] : i \in D} = Monthdays(h)
    BY <2>1 DEF Monthdays
  <2> QED
    BY <2>3, <2>4
<1>3. \A x \in Monthdays(h) : RecordsOn(h, Monthday, x) # {}
  BY DEF Monthdays, RecordsOn
<1> QED
  BY <1>1, <1>2, <1>3

\* A constant cost has no pattern over slots that all have records.
LEMMA ConstantHasNoPattern ==
    ASSUME NEW h \in Seq(Record), \A i, j \in DOMAIN h : h[i].cost = h[j].cost,
           NEW slot, NEW slots, IsFiniteSet(slots), \A x \in slots : RecordsOn(h, slot, x) # {}
    PROVE  ~Varies(Factors(h, slot, slots), slots)
<1>1. CASE slots = {}
  <2>1. \A x \in slots : Factors(h, slot, slots)[x] = 0
    BY <1>1
  <2> QED
    BY <2>1, EqualDoNotVary
<1>2. CASE slots # {}
  <2>1. PICK j \in DOMAIN h : TRUE
    BY <1>2 DEF RecordsOn
  <2>2. PICK c, p, f : /\ c = h[j].cost
                       /\ p = Unit(h, slot, slots)
                       /\ f = Factors(h, slot, slots)
    OBVIOUS
  <2>3. c \in Nat
    BY <2>1, <2>2, RecordFacts
  <2>4. \A x \in slots : \A i \in RecordsOn(h, slot, x) : h[i].cost = c
    BY <2>1, <2>2 DEF RecordsOn
  <2>5. p \in Nat \ {0} /\ \A x \in slots : f[x] = c * p
    BY <2>2, <2>3, <2>4, FactorIsCost
  <2>6. PICK e : e = c * p
    OBVIOUS
  <2>7. e \in Int /\ \A x \in slots : f[x] = e
    BY <2>3, <2>5, <2>6
  <2> QED
    BY <2>2, <2>7, EqualDoNotVary
<1> QED
  BY <1>1, <1>2

\* In another unit one number is at most half of the other as well.
LEMMA HalvesScale ==
    ASSUME NEW a \in Nat, NEW b \in Nat, NEW p \in Nat \ {0}, Halves(a, b)
    PROVE  Halves(a * p, b * p)
<1>1. 2 * a <= b /\ b > 0
  BY DEF Halves
<1>2. (2 * a) * p <= b * p /\ b * p > 0
  BY <1>1
<1>3. (2 * a) * p = 2 * (a * p)
  OBVIOUS
<1> QED
  BY <1>2, <1>3 DEF Halves

\* Weekdays with records, of which each costs at most half of the next, are a pattern.
LEMMA HalvesAreAPattern ==
    ASSUME NEW h \in Seq(Record), \A x \in Weekdays : RecordsOn(h, Weekday, x) # {},
           \A i, j \in DOMAIN h :
              IF Weekday[h[i].day] = Weekday[h[j].day] THEN h[i].cost = h[j].cost
              ELSE Halves(h[i].cost, h[j].cost) \/ Halves(h[j].cost, h[i].cost)
    PROVE  Varies(Factors(h, Weekday, Weekdays), Weekdays)
<1>1. PICK r : r = [x \in Weekdays |-> CHOOSE i \in RecordsOn(h, Weekday, x) : TRUE]
  OBVIOUS
<1>2. PICK v, f : v = [x \in Weekdays |-> h[r[x]].cost] /\ f = Factors(h, Weekday, Weekdays)
  OBVIOUS
<1>3. \A x \in Weekdays : r[x] \in DOMAIN h /\ Weekday[h[r[x]].day] = x
  BY <1>1 DEF RecordsOn
<1>4. \A x \in Weekdays : v[x] \in Nat /\ v[x] = h[r[x]].cost
  BY <1>2, <1>3, RecordFacts
<1>5. \A x \in Weekdays : \A i \in RecordsOn(h, Weekday, x) : h[i].cost = v[x]
  BY <1>3, <1>4 DEF RecordsOn
<1>6. \A x, y \in Weekdays : x # y => Halves(v[x], v[y]) \/ Halves(v[y], v[x])
  BY <1>3, <1>4
<1>7. PICK p \in Nat \ {0} : \A x \in Weekdays : f[x] = v[x] * p
  <2>1. PICK p : p = Unit(h, Weekday, Weekdays)
    OBVIOUS
  <2>2. p \in Nat \ {0} /\ \A x \in Weekdays : f[x] = v[x] * p
    <3>1. IsFiniteSet(Weekdays)
      BY SlotsAreFinite
    <3>2. /\ Unit(h, Weekday, Weekdays) \in Nat \ {0}
          /\ \A x \in Weekdays : \A c \in Nat : (\A i \in RecordsOn(h, Weekday, x) : h[i].cost = c) =>
                Factors(h, Weekday, Weekdays)[x] = c * Unit(h, Weekday, Weekdays)
      BY <3>1, FactorIsCost
    <3> QED
      BY <1>2, <1>4, <1>5, <2>1, <3>2
  <2> QED
    BY <2>2
<1>8. \A x \in Weekdays : f[x] \in Nat
  <2> SUFFICES ASSUME NEW x \in Weekdays
               PROVE  f[x] \in Nat
    OBVIOUS
  <2>1. PICK c : c = v[x]
    OBVIOUS
  <2>2. c \in Nat /\ f[x] = c * p
    BY <1>4, <1>7, <2>1
  <2> QED
    BY <2>2
<1>9. ASSUME NEW x \in Weekdays, NEW y \in Weekdays, x # y
      PROVE  Halves(f[x], f[y]) \/ Halves(f[y], f[x])
  <2>1. Halves(v[x], v[y]) \/ Halves(v[y], v[x])
    BY <1>6, <1>9
  <2>2. v[x] \in Nat /\ v[y] \in Nat /\ f[x] = v[x] * p /\ f[y] = v[y] * p
    BY <1>4, <1>7
  <2> QED
    BY <2>1, <2>2, HalvesScale
<1> QED
  BY <1>2, <1>8, <1>9, HalvesVary DEF Weekdays

\* A pattern is found where there is one, and none in a constant cost.
THEOREM PatternsAreFound == Spec => []PatternsAreReal
<1>1. ASSUME IInv, pc = "generate"
      PROVE  PatternsAreReal
  <2>1. PICK h : h = history
    OBVIOUS
  <2>2. h \in Seq(Record)
    BY <1>1, <2>1 DEF IInv, DataOK
  <2>3. {Weekday[h[i].day] : i \in DOMAIN h} = Weekdays =>
           \A x \in Weekdays : RecordsOn(h, Weekday, x) # {}
    BY DEF RecordsOn
  <2>4. ASSUME \A i, j \in DOMAIN h : h[i].cost = h[j].cost
        PROVE  /\ ~DetectSeasonality(h).monthly
               /\ {Weekday[h[i].day] : i \in DOMAIN h} = Weekdays => ~DetectSeasonality(h).weekly
    <3>1. ~Varies(Factors(h, Monthday, Monthdays(h)), Monthdays(h))
      BY <2>2, <2>4, SlotsAreFinite, ConstantHasNoPattern
    <3>2. {Weekday[h[i].day] : i \in DOMAIN h} = Weekdays =>
             ~Varies(Factors(h, Weekday, Weekdays), Weekdays)
      BY <2>2, <2>3, <2>4, SlotsAreFinite, ConstantHasNoPattern
    <3> QED
      BY <3>1, <3>2, PatternFacts
  <2>5. ASSUME Len(h) >= minHistoryDays,
               {Weekday[h[i].day] : i \in DOMAIN h} = Weekdays,
               \A i, j \in DOMAIN h :
                  IF Weekday[h[i].day] = Weekday[h[j].day] THEN h[i].cost = h[j].cost
                  ELSE Halves(h[i].cost, h[j].cost) \/ Halves(h[j].cost, h[i].cost)
        PROVE  DetectSeasonality(h).weekly
    <3>1. Varies(Factors(h, Weekday, Weekdays), Weekdays)
      BY <2>2, <2>3, <2>5, HalvesAreAPattern
    <3>2. ~(Len(h) < minHistoryDays)
      BY <2>2, <2>5, SeasonLength, RecordFacts
    <3> QED
      BY <3>1, <3>2, PatternFacts
  <2> QED
    BY <2>1, <2>4, <2>5 DEF PatternsAreReal, Weekdays, Halves
<1>2. IInv => PatternsAreReal
  <2>1. CASE pc = "generate"
    BY <1>1, <2>1
  <2>2. CASE pc # "generate"
    BY <2>2 DEF PatternsAreReal
  <2> QED
    BY <2>1, <2>2
<1> QED
  BY <1>2, Invariance, PTL
==============================================================================
