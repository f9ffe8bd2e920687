------------------------------- MODULE Scoring -------------------------------
(***************************************************************************)
(* From the counters of a closed tick, or of all of them, to points and    *)
(* positions: the second half of summarizeState (cmd/ad/game.go). float64  *)
(* values are exact fractions; a fraction over 0 is NaN, which only 0/0    *)
(* (the uptime of a service no check covers) gives here.                   *)
(***************************************************************************)
EXTENDS Integers, FiniteSets, FiniteSetsExt

CONSTANTS
    Rows,                 \* the rows of the scoreboard, teams and bots
    Services,             \* the indices of Config.Vulnbox.Services
    Private,              \* the services whose Private is set
    Checked,              \* the services a scorebot check covers
    PointsPerTick, PointsPerStolenFlag, PointsPerLostFlag,
    NaNInt,               \* what int(NaN) is on the platform of the build
    MaxTicks, MaxFlags    \* bounds: ticks summed up, flags per service

ASSUME ScoringAssumption ==
    /\ IsFiniteSet(Services) /\ Private \subseteq Services
    /\ Checked \subseteq Services
    /\ PointsPerTick \in Int /\ PointsPerStolenFlag \in Int /\ PointsPerLostFlag \in Int
    /\ NaNInt \in Int /\ MaxTicks \in Nat /\ MaxFlags \in Nat

VARIABLES
    raw,       \* the counters of each row and service
    position   \* TeamState.Position of each row, once summarizeState has set it

-----------------------------------------------------------------------------
(* Fractions *)

IsNaN(x) == x.den = 0
Less(x, y) == x.num * y.den < y.num * x.den
Plus(x, y) == [num |-> x.num * y.den + y.num * x.den, den |-> x.den * y.den]
Minus(x, y) == [num |-> x.num * y.den - y.num * x.den, den |-> x.den * y.den]
Frac(n) == [num |-> n, den |-> 1]

\* The conversion int(x) truncates towards zero.
IntOf(x) ==
    IF IsNaN(x) THEN NaNInt
    ELSE IF x.num >= 0 THEN x.num \div x.den ELSE -((-x.num) \div x.den)

-----------------------------------------------------------------------------
(* setServiceOverallScore and setTeamOverallScore *)

Checks(c) == c.ok + c.fail

FlagPoints(c) == c.stolen * PointsPerStolenFlag + c.lost * PointsPerLostFlag

UptimePoints(c) == [num |-> c.ok, den |-> Checks(c)]

\* Mutants: uptime does not scale the points; the flags of the two lists swapped.
servicePoints_NoUptime(c) ==
    [num |-> Checks(c) * PointsPerTick + FlagPoints(c), den |-> 1]
servicePoints_Swapped(c) ==
    LET u == UptimePoints(c) IN
    [num |-> (Checks(c) * PointsPerTick
              + c.lost * PointsPerStolenFlag + c.stolen * PointsPerLostFlag) * u.num,
     den |-> u.den]

servicePoints(c) ==
    LET u == UptimePoints(c) IN
    [num |-> (Checks(c) * PointsPerTick + FlagPoints(c)) * u.num, den |-> u.den]

\* Mutant: the private services count too.
rowPoints_WithPrivate(counters) ==
    MapThenFoldSet(Plus, Frac(0), LAMBDA s : servicePoints(counters[s]),
                   LAMBDA S : CHOOSE s \in S : TRUE, Services)

\* The private services have points too, but the row's total leaves them out.
rowPoints(counters) ==
    MapThenFoldSet(Plus, Frac(0), LAMBDA s : servicePoints(counters[s]),
                   LAMBDA S : CHOOSE s \in S : TRUE, Services \ Private)

-----------------------------------------------------------------------------
(* The ranking *)

\* The comparison of two rows, negative when x comes first.
cmp(x, y) == IntOf(y) - IntOf(x)

\* slices.SortFunc over the rows in map order: any order of equal rows may result.
Rank ==
    /\ position = [r \in Rows |-> 0]
    /\ position' \in {p \in [Rows -> 1 .. Cardinality(Rows)] :
           \A a, b \in Rows : a # b =>
               /\ p[a] # p[b]
               /\ cmp(rowPoints(raw[a]), rowPoints(raw[b])) < 0 => p[a] < p[b]}
    /\ UNCHANGED raw

\* The counters that n closed ticks can leave in a board: a check has one result per
\* tick, it plants one flag per tick and row, and each flag stolen is lost by another.
CountersAfter(n, s) ==
    IF s \in Checked
    THEN {c \in [stolen : 0 .. MaxFlags, lost : 0 .. MaxFlags, ok : 0 .. n, fail : 0 .. n] :
            /\ Checks(c) = n
            /\ c.stolen <= n * (Cardinality(Rows) - 1)
            /\ c.lost <= n * (Cardinality(Rows) - 1)}
    ELSE {[stolen |-> 0, lost |-> 0, ok |-> 0, fail |-> 0]}

BoardsAfter(n) ==
    {r \in [Rows -> [Services -> UNION {CountersAfter(n, s) : s \in Services}]] :
        \A s \in Services :
            /\ \A w \in Rows : r[w][s] \in CountersAfter(n, s)
            /\ MapThenSumSet(LAMBDA w : r[w][s].stolen, Rows)
                 = MapThenSumSet(LAMBDA w : r[w][s].lost, Rows)}

Init ==
    /\ \E n \in 1 .. MaxTicks : raw \in BoardsAfter(n)
    /\ position = [r \in Rows |-> 0]

Next == Rank

Spec == Init /\ [][Next]_<<raw, position>>

-----------------------------------------------------------------------------
Ranked == \A r \in Rows : position[r] # 0

\* Rows are ranked by their points up to the truncation of the comparison: a row is
\* never placed before one that has two points more.
RankWithinTwoPoints ==
    Ranked => \A a, b \in Rows :
        position[a] < position[b] =>
            Less(Minus(rowPoints(raw[b]), rowPoints(raw[a])), Frac(2))

\* With the signs of the example configuration, stealing a flag never costs the thief
\* points and losing one never pays, whatever the uptime.
FlagsMovePointsTheRightWay ==
    \A r \in Rows, s \in Checked :
        LET c == raw[r][s] IN
        /\ ~ Less(servicePoints([c EXCEPT !.stolen = @ + 1]), servicePoints(c))
        /\ ~ Less(servicePoints(c), servicePoints([c EXCEPT !.lost = @ + 1]))

\* For a service that has not lost more than it stole, one more failed check never
\* raises its points. (For one that has, it can: uptime scales the losses too.)
DowntimeNeverPays ==
    \A r \in Rows, s \in Checked :
        LET c == raw[r][s] IN
        FlagPoints(c) >= 0 =>
            ~ Less(servicePoints(c), servicePoints([c EXCEPT !.fail = @ + 1]))
=============================================================================
