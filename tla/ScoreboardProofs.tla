-------------------------- MODULE ScoreboardProofs --------------------------
(***************************************************************************)
(* Proofs about module Scoreboard for every number of teams, services,     *)
(* ticks and connections. The first part is about the boards; the second   *)
(* about the uptime of the closed ticks, the balance of stolen and lost    *)
(* flags, the board an accepted flag is in, the flags GET /api/flagIds     *)
(* names, and that the boards implement the ledger of module FlagLedger.   *)
(***************************************************************************)
EXTENDS Scoreboard, FiniteSetTheorems, FunctionTheorems, SequenceTheorems, TLAPS

-----------------------------------------------------------------------------
(* Total, the sum summarizeState is built from *)

\* The units Total counts form a finite set.
LEMMA UnitsFinite ==
    ASSUME NEW S, IsFiniteSet(S), NEW f \in [S -> Nat]
    PROVE  IsFiniteSet(UNION {{i} \X (1 .. f[i]) : i \in DOMAIN f})
<1> DEFINE Slice == [i \in S |-> {i} \X (1 .. f[i])]
           Slices == {{i} \X (1 .. f[i]) : i \in S}
<1>1. Slice \in Surjection(S, Slices)
  BY DEF Surjection
<1>2. IsFiniteSet(Slices)
  BY <1>1, FS_Surjection
<1>3. ASSUME NEW i \in S  PROVE  IsFiniteSet({i} \X (1 .. f[i]))
  <2>1. IsFiniteSet({i})
    BY FS_Singleton
  <2>2. IsFiniteSet(1 .. f[i])
    BY FS_Interval
  <2> QED
    BY <2>1, <2>2, FS_Product
<1>4. \A T \in Slices : IsFiniteSet(T)
  BY <1>3
<1>5. IsFiniteSet(UNION Slices)
  BY <1>2, <1>4, FS_UNION
<1> QED
  BY <1>5

\* A sum of naturals is a natural.
LEMMA TotalType ==
    ASSUME NEW S, IsFiniteSet(S), NEW f \in [S -> Nat]
    PROVE  Total(f) \in Nat
BY UnitsFinite, FS_CardinalityType DEF Total

\* A sum is zero only if every term is: a flag missing from the overall state is
\* in none of the ticks it sums up.
LEMMA TotalZero ==
    ASSUME NEW S, IsFiniteSet(S), NEW f \in [S -> Nat], Total(f) = 0, NEW i \in S
    PROVE  f[i] = 0
<1> DEFINE Units == UNION {{j} \X (1 .. f[j]) : j \in DOMAIN f}
<1>1. Units = {}
  BY UnitsFinite, FS_EmptySet DEF Total
<1>2. ASSUME f[i] # 0  PROVE  FALSE
  <2>1. <<i, 1>> \in {i} \X (1 .. f[i])
    BY <1>2
  <2>2. <<i, 1>> \in Units
    BY <2>1
  <2> QED
    BY <1>1, <2>2
<1> QED
  BY <1>2

\* The sum of one term is that term: summarising one tick keeps its counters.
LEMMA TotalSingle ==
    ASSUME NEW f, DOMAIN f = {1}, f[1] \in Nat
    PROVE  Total(f) = f[1]
<1>1. UNION {{i} \X (1 .. f[i]) : i \in DOMAIN f} = {1} \X (1 .. f[1])
  OBVIOUS
<1>2. IsFiniteSet({1}) /\ Cardinality({1}) = 1
  BY FS_Singleton
<1>3. IsFiniteSet(1 .. f[1]) /\ Cardinality(1 .. f[1]) = f[1]
  BY FS_Interval
<1>4. Cardinality({1} \X (1 .. f[1])) = Cardinality({1}) * Cardinality(1 .. f[1])
  BY <1>2, <1>3, FS_Product
<1>5. Cardinality({1} \X (1 .. f[1])) = f[1]
  BY <1>2, <1>3, <1>4
<1>6. Total(f) = Cardinality({1} \X (1 .. f[1]))
  BY <1>1, Zenon DEF Total
<1> QED
  BY <1>5, <1>6

-----------------------------------------------------------------------------
(* summarizeState *)

\* The tick of a summary of one board, and of the closed ticks in order.
LEMMA LatestOfOne ==
    ASSUME NEW b \in Board
    PROVE  LatestTick(<<b>>) = b.tick
<1>1. b.tick \in Nat
  BY DEF Board
<1>2. {0} \cup {<<b>>[i].tick : i \in DOMAIN <<b>>} = {0, b.tick}
  OBVIOUS
<1>3. \A n : (\A i \in DOMAIN <<b>> : <<b>>[i].tick <= n) <=> b.tick <= n
  OBVIOUS
<1>4. LatestTick(<<b>>) = CHOOSE n \in {0, b.tick} : b.tick <= n
  BY <1>2, <1>3 DEF LatestTick
<1> QED
  BY <1>1, <1>4

\* Of boards numbered from one, the latest tick is their number.
LEMMA LatestOfNumbered ==
    ASSUME NEW tks \in Seq(Board), \A n \in DOMAIN tks : tks[n].tick = n
    PROVE  LatestTick(tks) = Len(tks)
<1>1. Len(tks) \in Nat /\ DOMAIN tks = 1 .. Len(tks)
  BY LenProperties
<1>2. {0} \cup {tks[i].tick : i \in DOMAIN tks} = 0 .. Len(tks)
  BY <1>1
<1>3. \E n \in {0} \cup {tks[i].tick : i \in DOMAIN tks} :
          \A i \in DOMAIN tks : tks[i].tick <= n
  <2>1. Len(tks) \in {0} \cup {tks[i].tick : i \in DOMAIN tks}
    BY <1>1, <1>2
  <2>2. \A i \in DOMAIN tks : tks[i].tick <= Len(tks)
    BY <1>1
  <2> QED
    BY <2>1, <2>2
<1>4. /\ LatestTick(tks) \in {0} \cup {tks[i].tick : i \in DOMAIN tks}
      /\ \A i \in DOMAIN tks : tks[i].tick <= LatestTick(tks)
  BY <1>3, Zenon DEF LatestTick
<1>5. LatestTick(tks) \in 0 .. Len(tks)
  BY <1>2, <1>4
<1>6. Len(tks) > 0 => Len(tks) <= LatestTick(tks)
  BY <1>1, <1>4
<1> QED
  BY <1>1, <1>5, <1>6

\* Summarising boards gives a board.
LEMMA SummaryType ==
    ASSUME NEW tks \in Seq(Board), LatestTick(tks) \in Nat
    PROVE  summarizeState(tks) \in Board
<1>1. IsFiniteSet(DOMAIN tks)
  BY LenProperties, FS_Interval
<1>2. \A i \in DOMAIN tks : tks[i] \in Board
  BY LenProperties
<1>3. ASSUME NEW id \in TeamIds, NEW s \in Services
      PROVE  SumService(tks, id, s) \in ServiceState
  <2>1. \A i \in DOMAIN tks : tks[i].teams[id][s] \in ServiceState
    BY <1>2 DEF Board
  <2>2. \A f \in FlagInfo :
            /\ [i \in DOMAIN tks |-> tks[i].teams[id][s].stolen[f]] \in [DOMAIN tks -> Nat]
            /\ [i \in DOMAIN tks |-> tks[i].teams[id][s].lost[f]] \in [DOMAIN tks -> Nat]
    BY <2>1 DEF ServiceState
  <2>3. /\ [i \in DOMAIN tks |-> tks[i].teams[id][s].ok] \in [DOMAIN tks -> Nat]
        /\ [i \in DOMAIN tks |-> tks[i].teams[id][s].fail] \in [DOMAIN tks -> Nat]
    BY <2>1 DEF ServiceState
  <2>4. /\ Total([i \in DOMAIN tks |-> tks[i].teams[id][s].ok]) \in Nat
        /\ Total([i \in DOMAIN tks |-> tks[i].teams[id][s].fail]) \in Nat
    BY <1>1, <2>3, TotalType
  <2>5. ASSUME NEW f \in FlagInfo
        PROVE  /\ Total([i \in DOMAIN tks |-> tks[i].teams[id][s].stolen[f]]) \in Nat
               /\ Total([i \in DOMAIN tks |-> tks[i].teams[id][s].lost[f]]) \in Nat
    BY <1>1, <2>2, TotalType
  <2> QED
    BY <2>4, <2>5 DEF SumService, ServiceState
<1> QED
  BY <1>3 DEF summarizeState, Board

\* Summarising one board keeps what each row has stolen.
LEMMA SummaryOfOne ==
    ASSUME NEW b \in Board, NEW id \in TeamIds, NEW s \in Services, NEW f \in FlagInfo
    PROVE  summarizeState(<<b>>).teams[id][s].stolen[f] = b.teams[id][s].stolen[f]
<1> DEFINE g == [i \in DOMAIN <<b>> |-> <<b>>[i].teams[id][s].stolen[f]]
<1>1. summarizeState(<<b>>).teams[id][s].stolen[f] = Total(g)
  BY DEF summarizeState, SumService
<1>2. b.teams[id][s].stolen[f] \in Nat
  BY DEF Board, ServiceState
<1>3. DOMAIN g = {1} /\ g[1] = b.teams[id][s].stolen[f]
  OBVIOUS
<1>4. Total(g) = g[1]
  <2> HIDE DEF g
  <2> QED
    BY <1>2, <1>3, TotalSingle
<1> QED
  BY <1>1, <1>3, <1>4

\* A flag the summary does not show as stolen was stolen in none of the boards.
LEMMA SummaryMissesNone ==
    ASSUME NEW tks \in Seq(Board), NEW id \in TeamIds, NEW s \in Services,
           NEW f \in FlagInfo, NEW n \in DOMAIN tks,
           summarizeState(tks).teams[id][s].stolen[f] = 0
    PROVE  tks[n].teams[id][s].stolen[f] = 0
<1> DEFINE g == [i \in DOMAIN tks |-> tks[i].teams[id][s].stolen[f]]
<1>1. Total(g) = 0
  BY DEF summarizeState, SumService
<1>2. IsFiniteSet(DOMAIN tks)
  BY LenProperties, FS_Interval
<1>3. g \in [DOMAIN tks -> Nat]
  <2>1. \A i \in DOMAIN tks : tks[i] \in Board
    BY LenProperties
  <2> QED
    BY <2>1 DEF Board, ServiceState
<1>4. g[n] = 0
  <2> HIDE DEF g
  <2> QED
    BY <1>1, <1>2, <1>3, TotalZero
<1> QED
  BY <1>4

-----------------------------------------------------------------------------
(* Boards and their updates *)

\* A new board is a board, and nothing is stolen in it.
LEMMA FreshBoardType ==
    ASSUME NEW t \in Nat
    PROVE  /\ FreshBoard(t) \in Board
           /\ FreshBoard(t).tick = t
           /\ \A id \in TeamIds, s \in Services, f \in FlagInfo :
                  FreshBoard(t).teams[id][s].stolen[f] = 0
BY DEF FreshBoard, Board, EmptyService, ServiceState

\* The board after submitFlag's two appends.
Credited(b, id, flag) ==
    LET stolen == [b EXCEPT !.teams[id][flag.service].stolen[InfoOf(flag)] = @ + 1]
        lostTo == [team |-> id, tick |-> flag.tick]
    IN  [stolen EXCEPT !.teams[flag.team][flag.service].lost[lostTo] = @ + 1]

\* One more stolen flag in a row leaves it a row, with its other counters.
LEMMA StolenCounted ==
    ASSUME NEW r \in ServiceState, NEW f \in FlagInfo
    PROVE  /\ [r EXCEPT !.stolen[f] = @ + 1] \in ServiceState
           /\ [r EXCEPT !.stolen[f] = @ + 1].ok = r.ok
           /\ [r EXCEPT !.stolen[f] = @ + 1].fail = r.fail
           /\ [r EXCEPT !.stolen[f] = @ + 1].lost = r.lost
<1> DEFINE taken == [r.stolen EXCEPT ![f] = @ + 1]
<1>1. r.stolen \in [FlagInfo -> Nat]
  BY DEF ServiceState
<1>2. taken \in [FlagInfo -> Nat]
  BY <1>1
<1>3. [r EXCEPT !.stolen[f] = @ + 1] = [r EXCEPT !.stolen = taken]
  OBVIOUS
<1> HIDE DEF taken
<1> QED
  BY <1>2, <1>3 DEF ServiceState

\* submitFlag's two appends give a board of the same tick, in which one stolen
\* counter has moved.
LEMMA CreditedType ==
    ASSUME NEW b \in Board, NEW id \in TeamIds, NEW flag \in Flag
    PROVE  /\ Credited(b, id, flag) \in Board
           /\ Credited(b, id, flag).tick = b.tick
           /\ \A i \in TeamIds, s \in Services, f \in FlagInfo :
                 Credited(b, id, flag).teams[i][s].stolen[f] =
                   IF i = id /\ s = flag.service /\ f = InfoOf(flag)
                   THEN b.teams[i][s].stolen[f] + 1
                   ELSE b.teams[i][s].stolen[f]
<1> DEFINE s0 == flag.service
           thief == b.teams[id][s0]
           row1 == [thief EXCEPT !.stolen[InfoOf(flag)] = @ + 1]
           b1 == [b EXCEPT !.teams[id][s0] = row1]
           victim == b1.teams[flag.team][s0]
           row2 == [victim EXCEPT !.lost[[team |-> id, tick |-> flag.tick]] = @ + 1]
           b2 == [b1 EXCEPT !.teams[flag.team][s0] = row2]
<1>1. s0 \in Services /\ flag.team \in TeamIds /\ InfoOf(flag) \in FlagInfo
      /\ [team |-> id, tick |-> flag.tick] \in FlagInfo
  BY DEF Flag, FlagInfo, InfoOf
<1>2. thief \in ServiceState
  BY <1>1 DEF Board
<1>3. row1 \in ServiceState
  <2> HIDE DEF thief
  <2> QED
    BY <1>1, <1>2, StolenCounted
<1>4. b1 \in Board
  BY <1>1, <1>3 DEF Board
<1>5. victim \in ServiceState
  BY <1>1, <1>4 DEF Board
<1>6. row2 \in ServiceState /\ row2.stolen = victim.stolen
  <2> HIDE DEF victim
  <2> QED
    BY <1>1, <1>5 DEF ServiceState
<1>7. b2 \in Board
  <2> HIDE DEF b1, row2
  <2> QED
    BY <1>1, <1>4, <1>6 DEF Board
<1>8. Credited(b, id, flag) = b2
  <2>1. b1 = [b EXCEPT !.teams[id][s0].stolen[InfoOf(flag)] = @ + 1]
    OBVIOUS
  <2>2. b2 = [b1 EXCEPT !.teams[flag.team][s0].lost[[team |-> id, tick |-> flag.tick]] = @ + 1]
    <3> HIDE DEF b1
    <3> QED
      OBVIOUS
  <2> QED
    BY <2>1, <2>2 DEF Credited
<1>9. b2.tick = b.tick
  <2>1. b1.tick = b.tick
    BY DEF Board
  <2> HIDE DEF b1, row2
  <2> QED
    BY <1>4, <2>1 DEF Board
<1>10. ASSUME NEW i \in TeamIds, NEW s \in Services, NEW f \in FlagInfo
       PROVE  b2.teams[i][s].stolen[f] =
                   IF i = id /\ s = s0 /\ f = InfoOf(flag)
                   THEN b.teams[i][s].stolen[f] + 1
                   ELSE b.teams[i][s].stolen[f]
  <2>1. b2.teams[i][s].stolen = b1.teams[i][s].stolen
    <3> HIDE DEF b1, row2
    <3>1. b2.teams[i][s] = IF i = flag.team /\ s = s0 THEN row2 ELSE b1.teams[i][s]
      BY <1>1, <1>4 DEF Board
    <3> QED
      BY <1>6, <3>1
  <2>2. b1.teams[i][s] = IF i = id /\ s = s0 THEN row1 ELSE b.teams[i][s]
    BY <1>1 DEF Board
  <2>3. row1.stolen[f] = IF f = InfoOf(flag) THEN thief.stolen[f] + 1 ELSE thief.stolen[f]
    BY <1>1, <1>2 DEF ServiceState
  <2>4. CASE i = id /\ s = s0
    <3>1. b.teams[i][s] = thief
      BY <2>4
    <3> HIDE DEF thief, row1, b1, b2, s0
    <3> QED
      BY <2>1, <2>2, <2>3, <2>4, <3>1
  <2>5. CASE ~ (i = id /\ s = s0)
    <3> HIDE DEF thief, row1, b1, b2, s0
    <3> QED
      BY <2>1, <2>2, <2>5
  <2> QED
    BY <2>4, <2>5
<1> HIDE DEF b2
<1> QED
  BY <1>7, <1>8, <1>9, <1>10

\* Board c is board b after one report of check k.
Counted(b, k, c) ==
    \/ c = [b EXCEPT !.teams[k[1]][k[2]].ok = @ + 1]
    \/ c = [b EXCEPT !.teams[k[1]][k[2]].fail = @ + 1]

\* A board after a check has moved one of the uptime counters.
LEMMA CheckedType ==
    ASSUME NEW b \in Board, NEW k \in CheckIds, NEW c, Counted(b, k, c)
    PROVE  /\ c \in Board
           /\ c.tick = b.tick
           /\ \A i \in TeamIds, s \in Services : c.teams[i][s].stolen = b.teams[i][s].stolen
<1>1. k[1] \in TeamIds /\ k[2] \in Services
  BY CountsAssumption DEF CheckIds
<1>2. PICK row \in ServiceState :
          /\ c = [b EXCEPT !.teams[k[1]][k[2]] = row]
          /\ row.stolen = b.teams[k[1]][k[2]].stolen
  <2> DEFINE old == b.teams[k[1]][k[2]]
  <2>1. old \in ServiceState
    BY <1>1 DEF Board
  <2>2. /\ [old EXCEPT !.ok = @ + 1] \in ServiceState
        /\ [old EXCEPT !.ok = @ + 1].stolen = old.stolen
        /\ [old EXCEPT !.fail = @ + 1] \in ServiceState
        /\ [old EXCEPT !.fail = @ + 1].stolen = old.stolen
    <3> HIDE DEF old
    <3> QED
      BY <2>1 DEF ServiceState
  <2>3. CASE c = [b EXCEPT !.teams[k[1]][k[2]].ok = @ + 1]
    BY <2>2, <2>3
  <2>4. CASE c = [b EXCEPT !.teams[k[1]][k[2]].fail = @ + 1]
    BY <2>2, <2>4
  <2> QED
    BY <2>3, <2>4 DEF Counted
<1>3. c \in Board /\ c.tick = b.tick
  BY <1>1, <1>2 DEF Board
<1>4. \A i \in TeamIds, s \in Services :
          c.teams[i][s] = IF i = k[1] /\ s = k[2] THEN row ELSE b.teams[i][s]
  BY <1>1, <1>2 DEF Board
<1> QED
  BY <1>2, <1>3, <1>4

-----------------------------------------------------------------------------
(***************************************************************************)
(* The inductive invariant. NoDoubleSteal alone is not inductive: the test *)
(* for an already stolen flag looks at the overall state, which has to be  *)
(* the summary of every closed tick (OverallIsSummary); that the summaries *)
(* are boards at all needs the closed ticks to be numbered, which needs    *)
(* the loop's position, CurrentTick and the boards to be in step (InStep). *)
(***************************************************************************)

OverallIsSummary ==
    overallState = IF ticks = <<>> THEN Nil ELSE summarizeState(ticks)

Numbered == \A n \in DOMAIN ticks : ticks[n].tick = n

InStep ==
    pc # "crashed" =>
        /\ pc = "boot" => currentState = Nil
        /\ pc \in {"checks", "closing", "over"} => currentState # Nil
        /\ currentState = Nil =>
              /\ ticks = <<>>
              /\ currentTick = (IF pc = "advance" THEN 1 ELSE 0)
        /\ currentState # Nil =>
              /\ currentState.tick = currentTick - (IF pc = "advance" THEN 1 ELSE 0)
              /\ Len(ticks) = currentState.tick
                                - (IF pc \in {"closing", "over"} THEN 0 ELSE 1)

\* NoDoubleSteal row by row, with the open board apart from the closed ones.
StolenOnce(id, s, f) ==
    /\ \A i \in DOMAIN ticks : ticks[i].teams[id][s].stolen[f] <= 1
    /\ \A i, j \in DOMAIN ticks :
           ticks[i].teams[id][s].stolen[f] > 0 /\ ticks[j].teams[id][s].stolen[f] > 0
               => i = j
    /\ currentState # Nil =>
          /\ currentState.teams[id][s].stolen[f] <= 1
          /\ currentState.teams[id][s].stolen[f] > 0 =>
                \A i \in DOMAIN ticks : ticks[i].teams[id][s].stolen[f] = 0

EachStolenOnce ==
    \A id \in TeamIds, s \in Services, f \in FlagInfo : StolenOnce(id, s, f)

IInv == TypeOK /\ OverallIsSummary /\ Numbered /\ InStep /\ EachStolenOnce

\* The invariant holds before the game.
LEMMA InitIInv == Init => IInv
<1> SUFFICES ASSUME Init PROVE IInv
  OBVIOUS
<1>1. TypeOK
  <2>1. ticks \in Seq(Board)
    BY EmptySeq DEF Init
  <2>2. currentTick \in 0 .. TotalTicks
    BY CountsAssumption DEF Init
  <2>3. checks \in [CheckIds -> {"delay", "running", "done"}]
    BY DEF Init
  <2> QED
    BY <2>1, <2>2, <2>3, Zenon DEF Init, TypeOK
<1>2. DOMAIN ticks = {}
  BY DEF Init
<1>3. InStep
  BY DEF Init, InStep
<1> QED
  BY <1>1, <1>2, <1>3
  DEF IInv, Init, OverallIsSummary, Numbered, EachStolenOnce, StolenOnce

\* updateScoreboard closes the current board and opens the next without losing or
\* repeating a stolen flag.
LEMMA UpdateKeeps ==
    ASSUME TypeOK, OverallIsSummary, Numbered, EachStolenOnce, updateScoreboard,
           currentState # Nil => currentState.tick = Len(ticks) + 1
    PROVE  /\ currentState' \in Board
           /\ currentState'.tick = currentTick
           /\ ticks' \in Seq(Board)
           /\ Len(ticks') = Len(ticks) + (IF currentState = Nil THEN 0 ELSE 1)
           /\ overallState' \in Board \cup {Nil}
           /\ OverallIsSummary'
           /\ Numbered'
           /\ EachStolenOnce'
<1> DEFINE last == summarizeState(<<currentState>>)
<1>1. /\ currentState' \in Board
      /\ currentState'.tick = currentTick
      /\ \A id \in TeamIds, s \in Services, f \in FlagInfo :
             currentState'.teams[id][s].stolen[f] = 0
  BY FreshBoardType, CountsAssumption DEF updateScoreboard, TypeOK
<1>2. Len(ticks) \in Nat /\ DOMAIN ticks = 1 .. Len(ticks) /\ ticks \in Seq(Board)
  BY LenProperties DEF TypeOK
<1>3. CASE currentState = Nil
  <2>1. UNCHANGED <<ticks, overallState>>
    BY <1>3 DEF updateScoreboard
  <2>2. Len(ticks') = Len(ticks) + (IF currentState = Nil THEN 0 ELSE 1)
    BY <1>2, <1>3, <2>1
  <2>3. EachStolenOnce'
    BY <1>1, <2>1 DEF EachStolenOnce, StolenOnce
  <2> QED
    BY <1>1, <1>2, <2>1, <2>2, <2>3 DEF TypeOK, OverallIsSummary, Numbered
<1>4. CASE currentState # Nil
  <2>1. currentState \in Board /\ currentState.tick \in Nat
    BY <1>4 DEF TypeOK, Board
  <2>2. <<currentState>> \in Seq(Board) /\ LatestTick(<<currentState>>) = currentState.tick
    BY <2>1, LatestOfOne
  <2>3. last \in Board
    BY <2>1, <2>2, SummaryType
  <2>4. last.tick = Len(ticks) + 1
    BY <1>4, <2>2 DEF summarizeState
  <2>5. \A id \in TeamIds, s \in Services, f \in FlagInfo :
            last.teams[id][s].stolen[f] = currentState.teams[id][s].stolen[f]
    BY <2>1, SummaryOfOne
  <2> HIDE DEF last
  <2>6. ticks' = Append(ticks, last) /\ overallState' = summarizeState(ticks')
    BY <1>4 DEF updateScoreboard, last
  <2>7. /\ ticks' \in Seq(Board)
        /\ ticks' # <<>>
        /\ Len(ticks') = Len(ticks) + 1
        /\ \A i \in 1 .. Len(ticks) : ticks'[i] = ticks[i]
        /\ ticks'[Len(ticks) + 1] = last
    BY <1>2, <2>3, <2>6, AppendProperties
  <2>8. DOMAIN ticks' = 1 .. (Len(ticks) + 1)
    BY <2>7, LenProperties
  <2>9. Numbered'
    BY <1>2, <2>4, <2>7, <2>8 DEF Numbered
  <2>10. overallState' \in Board
    <3>1. LatestTick(ticks') = Len(ticks')
      BY <2>7, <2>9, LatestOfNumbered DEF Numbered
    <3>2. LatestTick(ticks') \in Nat
      BY <1>2, <2>7, <3>1
    <3>3. summarizeState(ticks') \in Board
      BY <2>7, <3>2, SummaryType
    <3> QED
      BY <2>6, <3>3
  <2>11. OverallIsSummary'
    BY <2>6, <2>7 DEF OverallIsSummary
  <2>12. ASSUME NEW id \in TeamIds, NEW s \in Services, NEW f \in FlagInfo
         PROVE  StolenOnce(id, s, f)'
    <3>1. StolenOnce(id, s, f)
      BY DEF EachStolenOnce
    <3>2. last.teams[id][s].stolen[f] = currentState.teams[id][s].stolen[f]
      BY <2>5
    <3>3. currentState'.teams[id][s].stolen[f] = 0
      BY <1>1
    <3>4. \A i \in DOMAIN ticks' : ticks'[i] = IF i \in DOMAIN ticks THEN ticks[i] ELSE last
      BY <1>2, <2>7, <2>8
    <3>5. \A i \in DOMAIN ticks' : i \notin DOMAIN ticks => i = Len(ticks) + 1
      BY <1>2, <2>8
    <3>6. \A i \in DOMAIN ticks' : ticks'[i].teams[id][s].stolen[f] <= 1
      BY <1>4, <3>1, <3>2, <3>4 DEF StolenOnce
    <3>7. \A i, j \in DOMAIN ticks' :
             ticks'[i].teams[id][s].stolen[f] > 0 /\ ticks'[j].teams[id][s].stolen[f] > 0
                 => i = j
      BY <1>4, <3>1, <3>2, <3>4, <3>5 DEF StolenOnce
    <3> QED
      BY <3>3, <3>6, <3>7 DEF StolenOnce
  <2> QED
    BY <1>1, <1>4, <2>7, <2>9, <2>10, <2>11, <2>12 DEF EachStolenOnce
<1> QED
  BY <1>3, <1>4

\* Steps that leave the boards alone keep what the invariant says of them.
LEMMA QuietBoards ==
    ASSUME OverallIsSummary, Numbered, EachStolenOnce, UNCHANGED boardVars
    PROVE  OverallIsSummary' /\ Numbered' /\ EachStolenOnce'
BY DEF boardVars, OverallIsSummary, Numbered, EachStolenOnce, StolenOnce

\* A flag submitFlag accepts is a flag some check has planted.
LEMMA AcceptedIsIssued ==
    ASSUME NEW text \in Texts, Verify(text)
    PROVE  text.fields \in issued
<1>1. CASE text = [fields |-> Guess, sig |-> {}]
  BY <1>1 DEF Verify
<1>2. CASE \E f \in issued : text = [fields |-> f, sig |-> {f}]
  BY <1>2
<1>3. CASE \E g \in issued : text = [fields |-> Guess, sig |-> {g}]
  <2>1. PICK g \in issued : text = [fields |-> Guess, sig |-> {g}]
    BY <1>3
  <2>2. {g} = {Guess}
    BY <2>1 DEF Verify
  <2> QED
    BY <2>1, <2>2
<1> QED
  BY <1>1, <1>2, <1>3 DEF Texts

\* What FLAG_ACCEPTED says of the flag and the boards.
LEMMA AcceptedMeans ==
    ASSUME TypeOK, OverallIsSummary, NEW id \in TeamIds, NEW text \in Texts,
           submitStatus(id, text) = "FLAG_ACCEPTED"
    PROVE  /\ text.fields \in Flag
           /\ currentState \in Board
           /\ currentState.teams[id][text.fields.service].stolen[InfoOf(text.fields)] = 0
           /\ \A i \in DOMAIN ticks :
                 ticks[i].teams[id][text.fields.service].stolen[InfoOf(text.fields)] = 0
<1> DEFINE flag == text.fields
<1>1. /\ Verify(text)
      /\ currentState # Nil
      /\ overallState # Nil
      /\ ~ alreadyStolen(id, flag)
  BY Zenon DEF submitStatus
<1>2. flag \in Flag
  BY <1>1, AcceptedIsIssued DEF TypeOK
<1>3. currentState \in Board /\ overallState \in Board
  BY <1>1 DEF TypeOK
<1>4. flag.service \in Services /\ InfoOf(flag) \in FlagInfo
  BY <1>2 DEF Flag, FlagInfo, InfoOf
<1> HIDE DEF flag
<1>5. /\ currentState.teams[id][flag.service].stolen[InfoOf(flag)] \in Nat
      /\ overallState.teams[id][flag.service].stolen[InfoOf(flag)] \in Nat
  BY <1>3, <1>4 DEF Board, ServiceState
<1>6. /\ currentState.teams[id][flag.service].stolen[InfoOf(flag)] = 0
      /\ overallState.teams[id][flag.service].stolen[InfoOf(flag)] = 0
  BY <1>1, <1>5 DEF alreadyStolen
<1>7. overallState = summarizeState(ticks)
  BY <1>1 DEF OverallIsSummary
<1>8. \A i \in DOMAIN ticks : ticks[i].teams[id][flag.service].stolen[InfoOf(flag)] = 0
  BY <1>4, <1>6, <1>7, SummaryMissesNone DEF TypeOK
<1> QED
  BY <1>2, <1>3, <1>6, <1>8 DEF flag

\* An accepted submission keeps the invariant: the flag it credits was credited in
\* no closed tick and not in the open one.
LEMMA SubmitAcceptedKeeps ==
    ASSUME IInv, NEW c \in Conns, NEW text \in Texts, SubmitAccepted(c, text)
    PROVE  IInv'
<1> DEFINE id == Submitter[c]
           flag == text.fields
<1>1. id \in TeamIds
  BY ConnsAssumption
<1>2. submitStatus(id, text) = "FLAG_ACCEPTED"
  BY DEF SubmitAccepted
<1>3. /\ flag \in Flag
      /\ currentState \in Board
      /\ currentState.teams[id][flag.service].stolen[InfoOf(flag)] = 0
      /\ \A i \in DOMAIN ticks :
            ticks[i].teams[id][flag.service].stolen[InfoOf(flag)] = 0
  BY <1>1, <1>2, AcceptedMeans DEF IInv
<1>4. currentState' = Credited(currentState, id, flag)
  BY DEF SubmitAccepted, creditFlag, Credited
<1>5. /\ accepted' = accepted \cup {[thief |-> id, flag |-> flag, board |-> Len(ticks) + 1]}
      /\ waiting' = waiting \ {c}
      /\ UNCHANGED <<running, currentTick, pc, checks, issued, ticks, overallState>>
  BY DEF SubmitAccepted, loopVars
<1> HIDE DEF id, flag
<1>6. /\ currentState' \in Board
      /\ currentState'.tick = currentState.tick
      /\ \A i \in TeamIds, s \in Services, f \in FlagInfo :
            currentState'.teams[i][s].stolen[f] =
               IF i = id /\ s = flag.service /\ f = InfoOf(flag)
               THEN currentState.teams[i][s].stolen[f] + 1
               ELSE currentState.teams[i][s].stolen[f]
  BY <1>1, <1>3, <1>4, CreditedType
<1>7. TypeOK'
  <2>1. Len(ticks) + 1 \in Nat
    BY LenProperties DEF IInv, TypeOK
  <2>2. [thief |-> id, flag |-> flag, board |-> Len(ticks) + 1]
            \in [thief : TeamIds, flag : Flag, board : Nat]
    BY <1>1, <1>3, <2>1
  <2>3. accepted' \subseteq [thief : TeamIds, flag : Flag, board : Nat]
    BY <1>5, <2>2 DEF IInv, TypeOK
  <2> QED
    BY <1>5, <1>6, <2>3 DEF IInv, TypeOK
<1>8. OverallIsSummary' /\ Numbered'
  BY <1>5 DEF IInv, OverallIsSummary, Numbered
<1>9. InStep'
  <2>1. currentState # Nil /\ currentState' # Nil
    BY <1>3, <1>6, NilAssumption
  <2> QED
    BY <1>5, <1>6, <2>1 DEF IInv, InStep
<1>10. ASSUME NEW i \in TeamIds, NEW s \in Services, NEW f \in FlagInfo
       PROVE  StolenOnce(i, s, f)'
  <2>1. StolenOnce(i, s, f) /\ currentState # Nil
    BY <1>3, NilAssumption DEF IInv, EachStolenOnce
  <2>2. CASE i = id /\ s = flag.service /\ f = InfoOf(flag)
    <3>1. /\ currentState.teams[i][s].stolen[f] = 0
          /\ \A n \in DOMAIN ticks : ticks[n].teams[i][s].stolen[f] = 0
      BY <1>3, <2>2
    <3>2. currentState'.teams[i][s].stolen[f] = 1
      BY <1>6, <2>2, <3>1
    <3> QED
      BY <1>5, <2>1, <3>1, <3>2 DEF StolenOnce
  <2>3. CASE ~ (i = id /\ s = flag.service /\ f = InfoOf(flag))
    <3>1. currentState'.teams[i][s].stolen[f] = currentState.teams[i][s].stolen[f]
      BY <1>6, <2>3
    <3> QED
      BY <1>5, <2>1, <3>1 DEF StolenOnce
  <2> QED
    BY <2>2, <2>3
<1> QED
  BY <1>7, <1>8, <1>9, <1>10 DEF IInv, EachStolenOnce

\* A check that reports moves one uptime counter of the open board.
LEMMA CheckReportKeeps ==
    ASSUME IInv, NEW k \in CheckIds, CheckSucceeds(k) \/ CheckFails(k)
    PROVE  IInv'
<1>1. /\ pc = "checks"
      /\ checks' = [checks EXCEPT ![k] = "done"]
      /\ UNCHANGED <<running, currentTick, pc, issued, ticks, overallState, waiting, accepted>>
  BY DEF CheckSucceeds, CheckFails
<1>2. currentState # Nil /\ currentState \in Board
  BY <1>1 DEF IInv, InStep, TypeOK
<1>3. Counted(currentState, k, currentState')
  BY DEF CheckSucceeds, CheckFails, Counted
<1>4. /\ currentState' \in Board
      /\ currentState'.tick = currentState.tick
      /\ \A i \in TeamIds, s \in Services :
            currentState'.teams[i][s].stolen = currentState.teams[i][s].stolen
  BY <1>2, <1>3, CheckedType
<1>5. currentState' # Nil
  BY <1>4, NilAssumption
<1>6. TypeOK'
  BY <1>1, <1>4 DEF IInv, TypeOK
<1>7. OverallIsSummary' /\ Numbered'
  BY <1>1 DEF IInv, OverallIsSummary, Numbered
<1>8. InStep'
  BY <1>1, <1>2, <1>4, <1>5 DEF IInv, InStep
<1>9. EachStolenOnce'
  BY <1>1, <1>2, <1>4 DEF IInv, EachStolenOnce, StolenOnce
<1> QED
  BY <1>6, <1>7, <1>8, <1>9 DEF IInv

\* Closing a tick, at the start of the next one and at the end of the game.
LEMMA CloseKeeps ==
    ASSUME IInv, TickUpdate \/ FinalUpdate
    PROVE  IInv'
<1>1. /\ pc \in {"advance", "final"}
      /\ updateScoreboard
      /\ UNCHANGED <<running, currentTick, issued, waiting, accepted>>
      /\ pc' = IF pc = "advance" THEN "checks" ELSE "closing"
  BY DEF TickUpdate, FinalUpdate
<1>2. checks' \in [CheckIds -> {"delay", "running", "done"}]
  BY DEF TickUpdate, FinalUpdate, IInv, TypeOK
<1>3. /\ Len(ticks) \in Nat
      /\ currentTick \in Nat
      /\ ticks = <<>> => Len(ticks) = 0
  BY LenProperties, EmptySeq, CountsAssumption DEF IInv, TypeOK
<1>4. /\ currentState # Nil => currentState.tick = Len(ticks) + 1
      /\ currentState = Nil => Len(ticks) = 0
  <2>1. ASSUME currentState # Nil  PROVE  currentState.tick \in Nat
    BY <2>1 DEF IInv, TypeOK, Board
  <2> QED
    BY <1>1, <1>3, <2>1 DEF IInv, InStep
<1>5. /\ currentState' \in Board
      /\ currentState'.tick = currentTick
      /\ ticks' \in Seq(Board)
      /\ Len(ticks') = Len(ticks) + (IF currentState = Nil THEN 0 ELSE 1)
      /\ overallState' \in Board \cup {Nil}
      /\ OverallIsSummary'
      /\ Numbered'
      /\ EachStolenOnce'
  BY <1>1, <1>4, UpdateKeeps DEF IInv
<1>6. TypeOK'
  BY <1>1, <1>2, <1>5 DEF IInv, TypeOK
<1>7. InStep'
  <2>1. currentState' # Nil
    BY <1>5, NilAssumption
  <2>2. CASE pc = "advance"
    <3>1. currentTick = Len(ticks') + 1
      BY <1>1, <1>3, <1>4, <1>5, <2>2 DEF IInv, InStep
    <3> QED
      BY <1>1, <1>3, <1>5, <2>1, <2>2, <3>1 DEF InStep
  <2>3. CASE pc = "final"
    <3>1. currentTick = Len(ticks')
      BY <1>1, <1>3, <1>4, <1>5, <2>3 DEF IInv, InStep
    <3> QED
      BY <1>1, <1>3, <1>5, <2>1, <2>3, <3>1 DEF InStep
  <2> QED
    BY <1>1, <2>2, <2>3
<1> QED
  BY <1>5, <1>6, <1>7 DEF IInv

\* Every step of the game keeps the invariant.
LEMMA NextIInv == IInv /\ [Next]_vars => IInv'
<1> SUFFICES ASSUME IInv, [Next]_vars  PROVE  IInv'
  OBVIOUS
<1> USE DEF boardVars, loopVars
<1>1. CASE Start
  <2>1. TypeOK'
    BY <1>1 DEF Start, IInv, TypeOK
  <2>2. InStep'
    BY <1>1 DEF Start, IInv, InStep
  <2> QED
    BY <1>1, <2>1, <2>2, QuietBoards DEF Start, IInv
<1>2. CASE TickBegin
  <2>1. currentTick \in Nat /\ currentTick' = currentTick + 1
    BY <1>2, CountsAssumption DEF TickBegin, IInv, TypeOK
  <2>2. TypeOK'
    BY <1>2, <2>1, CountsAssumption DEF TickBegin, IInv, TypeOK
  <2>3. InStep'
    BY <1>2, <2>1 DEF TickBegin, IInv, InStep
  <2> QED
    BY <1>2, <2>2, <2>3, QuietBoards DEF TickBegin, IInv
<1>3. CASE TickUpdate \/ FinalUpdate
  BY <1>3, CloseKeeps
<1>4. CASE TickEnd
  <2>1. TypeOK'
    BY <1>4 DEF TickEnd, IInv, TypeOK
  <2>2. InStep'
    BY <1>4 DEF TickEnd, IInv, InStep
  <2> QED
    BY <1>4, <2>1, <2>2, QuietBoards DEF TickEnd, IInv
<1>5. CASE EndTimer
  <2>1. TypeOK'
    BY <1>5 DEF EndTimer, IInv, TypeOK
  <2>2. InStep'
    BY <1>5 DEF EndTimer, IInv, InStep
  <2> QED
    BY <1>5, <2>1, <2>2, QuietBoards DEF EndTimer, IInv
<1>6. CASE Stop
  <2>1. TypeOK'
    BY <1>6 DEF Stop, IInv, TypeOK
  <2>2. InStep'
    BY <1>6 DEF Stop, IInv, InStep
  <2> QED
    BY <1>6, <2>1, <2>2, QuietBoards DEF Stop, IInv
<1>7. ASSUME NEW k \in CheckIds, CheckPlant(k)  PROVE  IInv'
  <2>1. [tick |-> currentTick, team |-> k[1], service |-> k[2]] \in Flag
    <3>1. k[1] \in TeamIds /\ k[2] \in Services
      BY CountsAssumption DEF CheckIds
    <3>2. currentState # Nil /\ currentState.tick = currentTick
          /\ Len(ticks) = currentState.tick - 1
      BY <1>7, CountsAssumption DEF CheckPlant, IInv, InStep, TypeOK
    <3>3. Len(ticks) \in Nat
      BY LenProperties DEF IInv, TypeOK
    <3>4. currentTick \in 1 .. TotalTicks
      BY <3>2, <3>3, CountsAssumption DEF IInv, TypeOK
    <3> QED
      BY <3>1, <3>4 DEF Flag
  <2>2. TypeOK'
    BY <1>7, <2>1 DEF CheckPlant, IInv, TypeOK
  <2>3. InStep'
    BY <1>7 DEF CheckPlant, IInv, InStep
  <2> QED
    BY <1>7, <2>2, <2>3, QuietBoards DEF CheckPlant, IInv
<1>8. ASSUME NEW k \in CheckIds, CheckSucceeds(k) \/ CheckFails(k)  PROVE  IInv'
  BY <1>8, CheckReportKeeps
<1>9. ASSUME NEW c \in Conns, SubmitArrive(c)  PROVE  IInv'
  <2>1. TypeOK'
    BY <1>9 DEF SubmitArrive, IInv, TypeOK
  <2>2. InStep'
    BY <1>9 DEF SubmitArrive, IInv, InStep
  <2> QED
    BY <1>9, <2>1, <2>2, QuietBoards DEF SubmitArrive, IInv
<1>10. ASSUME NEW c \in Conns, NEW text \in Texts, SubmitAccepted(c, text)  PROVE  IInv'
  BY <1>10, SubmitAcceptedKeeps
<1>11. ASSUME NEW c \in Conns, NEW text \in Texts, SubmitRejected(c, text)  PROVE  IInv'
  <2>1. TypeOK'
    BY <1>11 DEF SubmitRejected, IInv, TypeOK
  <2>2. InStep'
    BY <1>11 DEF SubmitRejected, IInv, InStep
  <2> QED
    BY <1>11, <2>1, <2>2, QuietBoards DEF SubmitRejected, IInv
<1>12. ASSUME NEW c \in Conns, NEW text \in Texts, SubmitPanics(c, text)  PROVE  IInv'
  <2>1. TypeOK'
    BY <1>12 DEF SubmitPanics, IInv, TypeOK
  <2>2. InStep'
    BY <1>12 DEF SubmitPanics, IInv, InStep
  <2> QED
    BY <1>12, <2>1, <2>2, QuietBoards DEF SubmitPanics, IInv
<1>13. CASE UNCHANGED vars
  <2>1. TypeOK' /\ InStep'
    BY <1>13 DEF vars, IInv, TypeOK, InStep
  <2> QED
    BY <1>13, <2>1, QuietBoards DEF vars, IInv
<1> QED
  BY <1>1, <1>2, <1>3, <1>4, <1>5, <1>6, <1>7, <1>8, <1>9, <1>10, <1>11, <1>12, <1>13
  DEF Next, CheckStep, SubmitLocked

\* The invariant holds in every state of every game.
LEMMA Invariance == Spec => []IInv
<1>1. Init => IInv
  BY InitIInv
<1>2. IInv /\ [Next]_vars => IInv'
  BY NextIInv
<1> QED
  BY <1>1, <1>2, PTL DEF Spec

-----------------------------------------------------------------------------
(* The theorems *)

\* Every variable keeps its type in every game; in particular the flags handed to
\* the scorebot are those of ticks 1 to TotalTicks.
THEOREM TypeCorrect == Spec => []TypeOK
<1>1. IInv => TypeOK
  BY DEF IInv
<1> QED
  BY <1>1, Invariance, PTL

\* submitFlag credits a flag to a thief at most once in the whole game.
THEOREM FlagsCountOnce == Spec => []NoDoubleSteal
<1>1. IInv => NoDoubleSteal
  <2> SUFFICES ASSUME IInv, NEW id \in TeamIds, NEW flag \in Flag,
                      NEW i \in DOMAIN Boards, NEW j \in DOMAIN Boards
               PROVE  /\ StolenIn(Boards[i], id, flag) <= 1
                      /\ StolenIn(Boards[i], id, flag) > 0
                         /\ StolenIn(Boards[j], id, flag) > 0 => i = j
    BY DEF NoDoubleSteal
  <2>1. flag.service \in Services /\ InfoOf(flag) \in FlagInfo
    BY DEF Flag, FlagInfo, InfoOf
  <2>2. StolenOnce(id, flag.service, InfoOf(flag))
    BY <2>1 DEF IInv, EachStolenOnce
  <2>3. CASE currentState = Nil
    BY <2>2, <2>3 DEF Boards, StolenIn, StolenOnce
  <2>4. CASE currentState # Nil
    <3>1. currentState \in Board /\ ticks \in Seq(Board)
      BY <2>4 DEF IInv, TypeOK
    <3>2. /\ Len(ticks) \in Nat /\ DOMAIN ticks = 1 .. Len(ticks)
          /\ Boards = Append(ticks, currentState)
      BY <2>4, <3>1, LenProperties DEF Boards
    <3>3. /\ DOMAIN Boards = 1 .. (Len(ticks) + 1)
          /\ \A n \in 1 .. Len(ticks) : Boards[n] = ticks[n]
          /\ Boards[Len(ticks) + 1] = currentState
      <4> HIDE DEF Boards
      <4> QED
        BY <3>1, <3>2, AppendProperties, LenProperties
    <3>4. ASSUME NEW n \in DOMAIN Boards
          PROVE  \/ n \in DOMAIN ticks /\ Boards[n] = ticks[n]
                 \/ n = Len(ticks) + 1 /\ Boards[n] = currentState
      BY <3>2, <3>3
    <3>5. \A n \in DOMAIN ticks :
             ticks[n].teams[id][flag.service].stolen[InfoOf(flag)] \in Nat
      <4>1. \A n \in DOMAIN ticks : ticks[n] \in Board
        BY <3>1, LenProperties
      <4> QED
        BY <2>1, <4>1 DEF Board, ServiceState
    <3> HIDE DEF Boards
    <3> QED
      BY <2>2, <2>4, <3>4, <3>5 DEF StolenIn, StolenOnce
  <2> QED
    BY <2>3, <2>4
<1> QED
  BY <1>1, Invariance, PTL

\* Ticks is numbered and the overall state, its summary, has the number of the last.
LEMMA NumberingHolds == IInv => TickNumbering
<1> SUFFICES ASSUME IInv  PROVE  TickNumbering
  OBVIOUS
<1>1. ticks \in Seq(Board) /\ LatestTick(ticks) = Len(ticks)
  BY LatestOfNumbered DEF IInv, TypeOK, Numbered
<1>2. summarizeState(ticks) \in Board /\ summarizeState(ticks).tick = Len(ticks)
  <2>1. Len(ticks) \in Nat
    BY <1>1, LenProperties
  <2>2. summarizeState(ticks).tick = LatestTick(ticks)
    BY DEF summarizeState
  <2> QED
    BY <1>1, <2>1, <2>2, SummaryType
<1>3. summarizeState(ticks) # Nil
  BY <1>2, NilAssumption
<1> QED
  BY <1>2, <1>3 DEF TickNumbering, IInv, Numbered, OverallIsSummary

\* Ticks is numbered from 1 without gaps and the overall state is as old as the
\* last closed tick.
THEOREM TicksAreNumbered == Spec => []TickNumbering
BY NumberingHolds, Invariance, PTL

\* No step changes a tick that is closed.
THEOREM ClosedTicksNeverChange == Spec => ClosedTicksStay
<1> DEFINE Kept == \A n \in DOMAIN ticks : n \in DOMAIN ticks' /\ ticks'[n] = ticks[n]
<1>1. IInv /\ [Next]_vars => [Kept]_vars
  <2> SUFFICES ASSUME IInv, Next  PROVE  Kept
    OBVIOUS
  <2>1. CASE UNCHANGED ticks
    BY <2>1
  <2>2. CASE updateScoreboard
    <3>1. CASE currentState = Nil
      BY <2>2, <3>1 DEF updateScoreboard
    <3>2. CASE currentState # Nil
      <4> DEFINE last == summarizeState(<<currentState>>)
      <4>1. ticks' = Append(ticks, last)
        BY <2>2, <3>2 DEF updateScoreboard
      <4>2. ticks \in Seq(Board) /\ last \in Board
        <5>1. currentState \in Board /\ ticks \in Seq(Board)
          BY <3>2 DEF IInv, TypeOK
        <5>2. currentState.tick \in Nat
          BY <5>1 DEF Board
        <5>3. <<currentState>> \in Seq(Board) /\ LatestTick(<<currentState>>) \in Nat
          BY <5>1, <5>2, LatestOfOne
        <5> QED
          BY <5>1, <5>3, SummaryType
      <4> HIDE DEF last
      <4>3. /\ ticks' \in Seq(Board)
            /\ Len(ticks') = Len(ticks) + 1
            /\ \A n \in 1 .. Len(ticks) : ticks'[n] = ticks[n]
        BY <4>1, <4>2, AppendProperties
      <4>4. /\ Len(ticks) \in Nat
            /\ DOMAIN ticks = 1 .. Len(ticks)
            /\ DOMAIN ticks' = 1 .. Len(ticks')
        BY <4>2, <4>3, LenProperties
      <4> QED
        BY <4>3, <4>4
    <3> QED
      BY <3>1, <3>2
  <2>3. UNCHANGED ticks \/ updateScoreboard
    BY DEF Next, Start, TickBegin, TickUpdate, TickEnd, EndTimer, FinalUpdate, Stop,
           CheckStep, CheckPlant, CheckSucceeds, CheckFails, SubmitArrive, SubmitLocked,
           SubmitAccepted, SubmitRejected, SubmitPanics, boardVars
  <2> QED
    BY <2>1, <2>2, <2>3
<1> QED
  BY <1>1, Invariance, PTL DEF Spec, ClosedTicksStay

-----------------------------------------------------------------------------
(* What the boards hold *)

(***************************************************************************)
(* What IInv says of the boards is joined by what the checks have left in  *)
(* the open board, by the two rows an accepted flag is in, and by the      *)
(* flags that were planted. Each part speaks of the open board and of the  *)
(* closed ones: a closed tick is what the open board was when it closed.   *)
(***************************************************************************)

\* The open board is never ahead of CurrentTick, and every flag is of its tick or older.
BoardTick ==
    /\ currentState # Nil => currentState.tick <= currentTick
    /\ NoEarlyFlag

\* The results of row id and service s in board b.
Results(b, id, s) == b.teams[id][s].ok + b.teams[id][s].fail

\* While the checks run the open board has the results of those that are done; then it
\* has them all, until it is closed.
UptimeOpen ==
    currentState # Nil => \A id \in TeamIds, s \in Services :
        /\ pc = "checks" =>
              Results(currentState, id, s) =
                  (IF s \in Checks /\ checks[<<id, s>>] = "done" THEN 1 ELSE 0)
        /\ pc \in {"select", "advance", "final"} =>
              Results(currentState, id, s) = (IF s \in Checks THEN 1 ELSE 0)

UptimeClosed ==
    \A n \in DOMAIN ticks : \A id \in TeamIds, s \in Services :
        Results(ticks[n], id, s) = (IF s \in Checks THEN 1 ELSE 0)

Mirror(b) ==
    \A id \in TeamIds, flag \in Flag : StolenIn(b, id, flag) = LostIn(b, id, flag)

Balanced ==
    /\ \A n \in DOMAIN ticks : Mirror(ticks[n])
    /\ currentState # Nil => Mirror(currentState)

\* An accepted flag is in the board it was accepted for.
Filed ==
    \A a \in accepted :
        \/ a.board \in DOMAIN ticks /\ StolenIn(ticks[a.board], a.thief, a.flag) = 1
        \/ /\ a.board = Len(ticks) + 1 /\ currentState # Nil
           /\ StolenIn(currentState, a.thief, a.flag) = 1

\* The flags of a tick are planted once its checks are done.
Planted ==
    \A flag \in Flag : flag.service \in Checks =>
        /\ flag.tick < currentTick => flag \in issued
        /\ pc \in {"select", "final", "closing", "over"} /\ flag.tick = currentTick =>
              flag \in issued
        /\ pc = "checks" /\ flag.tick = currentTick =>
              checks[<<flag.team, flag.service>>] = "delay" \/ flag \in issued

More == BoardTick /\ UptimeOpen /\ UptimeClosed /\ Balanced /\ Filed /\ Planted

-----------------------------------------------------------------------------
(* What summaries, credits and checks do to all the counters of a row *)

\* Summarising one board keeps every counter of every row.
LEMMA SummaryKeepsRow ==
    ASSUME NEW b \in Board, NEW id \in TeamIds, NEW s \in Services
    PROVE  /\ summarizeState(<<b>>).teams[id][s].ok = b.teams[id][s].ok
           /\ summarizeState(<<b>>).teams[id][s].fail = b.teams[id][s].fail
           /\ \A f \in FlagInfo :
                 /\ summarizeState(<<b>>).teams[id][s].stolen[f] = b.teams[id][s].stolen[f]
                 /\ summarizeState(<<b>>).teams[id][s].lost[f] = b.teams[id][s].lost[f]
<1>1. b.teams[id][s] \in ServiceState
  BY DEF Board
<1>2. summarizeState(<<b>>).teams[id][s].ok = b.teams[id][s].ok
  <2> DEFINE g == [i \in DOMAIN <<b>> |-> <<b>>[i].teams[id][s].ok]
  <2>1. summarizeState(<<b>>).teams[id][s].ok = Total(g)
    BY DEF summarizeState, SumService
  <2>2. DOMAIN g = {1} /\ g[1] = b.teams[id][s].ok /\ g[1] \in Nat
    BY <1>1 DEF ServiceState
  <2> HIDE DEF g
  <2> QED
    BY <2>1, <2>2, TotalSingle
<1>3. summarizeState(<<b>>).teams[id][s].fail = b.teams[id][s].fail
  <2> DEFINE g == [i \in DOMAIN <<b>> |-> <<b>>[i].teams[id][s].fail]
  <2>1. summarizeState(<<b>>).teams[id][s].fail = Total(g)
    BY DEF summarizeState, SumService
  <2>2. DOMAIN g = {1} /\ g[1] = b.teams[id][s].fail /\ g[1] \in Nat
    BY <1>1 DEF ServiceState
  <2> HIDE DEF g
  <2> QED
    BY <2>1, <2>2, TotalSingle
<1>4. ASSUME NEW f \in FlagInfo
      PROVE  summarizeState(<<b>>).teams[id][s].lost[f] = b.teams[id][s].lost[f]
  <2> DEFINE g == [i \in DOMAIN <<b>> |-> <<b>>[i].teams[id][s].lost[f]]
  <2>1. summarizeState(<<b>>).teams[id][s].lost[f] = Total(g)
    BY DEF summarizeState, SumService
  <2>2. DOMAIN g = {1} /\ g[1] = b.teams[id][s].lost[f] /\ g[1] \in Nat
    BY <1>1 DEF ServiceState
  <2> HIDE DEF g
  <2> QED
    BY <2>1, <2>2, TotalSingle
<1> QED
  BY <1>2, <1>3, <1>4, SummaryOfOne

\* submitFlag's two appends move one lost counter and no uptime counter.
LEMMA CreditedRest ==
    ASSUME NEW b \in Board, NEW id \in TeamIds, NEW flag \in Flag
    PROVE  \A i \in TeamIds, s \in Services :
              /\ Credited(b, id, flag).teams[i][s].ok = b.teams[i][s].ok
              /\ Credited(b, id, flag).teams[i][s].fail = b.teams[i][s].fail
              /\ \A f \in FlagInfo :
                    Credited(b, id, flag).teams[i][s].lost[f] =
                       IF i = flag.team /\ s = flag.service
                             /\ f = [team |-> id, tick |-> flag.tick]
                       THEN b.teams[i][s].lost[f] + 1
                       ELSE b.teams[i][s].lost[f]
<1> DEFINE s0 == flag.service
           info == [team |-> id, tick |-> flag.tick]
           thief == b.teams[id][s0]
           row1 == [thief EXCEPT !.stolen[InfoOf(flag)] = @ + 1]
           b1 == [b EXCEPT !.teams[id][s0] = row1]
           victim == b1.teams[flag.team][s0]
           row2 == [victim EXCEPT !.lost[info] = @ + 1]
           b2 == [b1 EXCEPT !.teams[flag.team][s0] = row2]
<1>1. s0 \in Services /\ flag.team \in TeamIds /\ InfoOf(flag) \in FlagInfo /\ info \in FlagInfo
  BY DEF Flag, FlagInfo, InfoOf
<1>2. thief \in ServiceState
  BY <1>1 DEF Board
<1>3. /\ row1 \in ServiceState
      /\ row1.ok = thief.ok /\ row1.fail = thief.fail /\ row1.lost = thief.lost
  <2> HIDE DEF thief
  <2> QED
    BY <1>1, <1>2, StolenCounted
<1>4. b1 \in Board
  BY <1>1, <1>3 DEF Board
<1>5. victim \in ServiceState
  BY <1>1, <1>4 DEF Board
<1>6. /\ row2 \in ServiceState /\ row2.ok = victim.ok /\ row2.fail = victim.fail
      /\ \A f \in FlagInfo :
            row2.lost[f] = IF f = info THEN victim.lost[f] + 1 ELSE victim.lost[f]
  <2> HIDE DEF victim, info
  <2> QED
    BY <1>1, <1>5 DEF ServiceState
<1>7. Credited(b, id, flag) = b2
  <2>1. b1 = [b EXCEPT !.teams[id][s0].stolen[InfoOf(flag)] = @ + 1]
    OBVIOUS
  <2>2. b2 = [b1 EXCEPT !.teams[flag.team][s0].lost[info] = @ + 1]
    <3> HIDE DEF b1
    <3> QED
      OBVIOUS
  <2> QED
    BY <2>1, <2>2 DEF Credited
<1>8. ASSUME NEW i \in TeamIds, NEW s \in Services
      PROVE  /\ b2.teams[i][s] = IF i = flag.team /\ s = s0 THEN row2 ELSE b1.teams[i][s]
             /\ b1.teams[i][s] = IF i = id /\ s = s0 THEN row1 ELSE b.teams[i][s]
  <2>1. b1.teams[i][s] = IF i = id /\ s = s0 THEN row1 ELSE b.teams[i][s]
    BY <1>1 DEF Board
  <2>2. b2.teams[i][s] = IF i = flag.team /\ s = s0 THEN row2 ELSE b1.teams[i][s]
    <3> HIDE DEF b1, row2
    <3> QED
      BY <1>1, <1>4 DEF Board
  <2> QED
    BY <2>1, <2>2
<1>9. ASSUME NEW i \in TeamIds, NEW s \in Services
      PROVE  /\ b1.teams[i][s].ok = b.teams[i][s].ok
             /\ b1.teams[i][s].fail = b.teams[i][s].fail
             /\ b1.teams[i][s].lost = b.teams[i][s].lost
  <2>1. b1.teams[i][s] = IF i = id /\ s = s0 THEN row1 ELSE b.teams[i][s]
    BY <1>8
  <2>2. i = id /\ s = s0 => b.teams[i][s] = thief
    OBVIOUS
  <2> HIDE DEF b1, row1, thief, s0
  <2> QED
    BY <1>3, <2>1, <2>2
<1>10. ASSUME NEW i \in TeamIds, NEW s \in Services
       PROVE  /\ b2.teams[i][s].ok = b.teams[i][s].ok
              /\ b2.teams[i][s].fail = b.teams[i][s].fail
              /\ \A f \in FlagInfo :
                    b2.teams[i][s].lost[f] = IF i = flag.team /\ s = s0 /\ f = info
                                             THEN b.teams[i][s].lost[f] + 1
                                             ELSE b.teams[i][s].lost[f]
  <2>1. b2.teams[i][s] = IF i = flag.team /\ s = s0 THEN row2 ELSE b1.teams[i][s]
    BY <1>8
  <2>2. /\ b1.teams[i][s].ok = b.teams[i][s].ok
        /\ b1.teams[i][s].fail = b.teams[i][s].fail
        /\ b1.teams[i][s].lost = b.teams[i][s].lost
    BY <1>9
  <2>3. i = flag.team /\ s = s0 => b1.teams[i][s] = victim
    OBVIOUS
  <2> HIDE DEF b2, b1, row2, victim, s0, info
  <2> QED
    BY <1>6, <2>1, <2>2, <2>3
<1> HIDE DEF b2
<1> QED
  BY <1>7, <1>10

\* A check that reports adds one result to its row, and changes nothing else.
LEMMA CheckedRest ==
    ASSUME NEW b \in Board, NEW k \in CheckIds, NEW c, Counted(b, k, c)
    PROVE  \A i \in TeamIds, s \in Services :
              /\ c.teams[i][s].stolen = b.teams[i][s].stolen
              /\ c.teams[i][s].lost = b.teams[i][s].lost
              /\ Results(c, i, s) = Results(b, i, s) + (IF i = k[1] /\ s = k[2] THEN 1 ELSE 0)
              /\ Results(b, i, s) \in Nat
<1>1. k[1] \in TeamIds /\ k[2] \in Services
  BY CountsAssumption DEF CheckIds
<1> DEFINE old == b.teams[k[1]][k[2]]
<1>2. old \in ServiceState
  BY <1>1 DEF Board
<1>3. PICK row \in ServiceState :
          /\ c = [b EXCEPT !.teams[k[1]][k[2]] = row]
          /\ row.stolen = old.stolen /\ row.lost = old.lost
          /\ row.ok + row.fail = old.ok + old.fail + 1
  <2>1. /\ [old EXCEPT !.ok = @ + 1] \in ServiceState
        /\ [old EXCEPT !.ok = @ + 1].stolen = old.stolen
        /\ [old EXCEPT !.ok = @ + 1].lost = old.lost
        /\ [old EXCEPT !.ok = @ + 1].ok + [old EXCEPT !.ok = @ + 1].fail = old.ok + old.fail + 1
        /\ [old EXCEPT !.fail = @ + 1] \in ServiceState
        /\ [old EXCEPT !.fail = @ + 1].stolen = old.stolen
        /\ [old EXCEPT !.fail = @ + 1].lost = old.lost
        /\ [old EXCEPT !.fail = @ + 1].ok + [old EXCEPT !.fail = @ + 1].fail
               = old.ok + old.fail + 1
    <3> HIDE DEF old
    <3> QED
      BY <1>2 DEF ServiceState
  <2>2. CASE c = [b EXCEPT !.teams[k[1]][k[2]].ok = @ + 1]
    BY <2>1, <2>2
  <2>3. CASE c = [b EXCEPT !.teams[k[1]][k[2]].fail = @ + 1]
    BY <2>1, <2>3
  <2> QED
    BY <2>2, <2>3 DEF Counted
<1>4. ASSUME NEW i \in TeamIds, NEW s \in Services
      PROVE  /\ c.teams[i][s].stolen = b.teams[i][s].stolen
             /\ c.teams[i][s].lost = b.teams[i][s].lost
             /\ Results(c, i, s) = Results(b, i, s) + (IF i = k[1] /\ s = k[2] THEN 1 ELSE 0)
             /\ Results(b, i, s) \in Nat
  <2>1. c.teams[i][s] = IF i = k[1] /\ s = k[2] THEN row ELSE b.teams[i][s]
    BY <1>1, <1>3 DEF Board
  <2>2. i = k[1] /\ s = k[2] => b.teams[i][s] = old
    OBVIOUS
  <2>3. b.teams[i][s].ok \in Nat /\ b.teams[i][s].fail \in Nat
    BY DEF Board, ServiceState
  <2> HIDE DEF old
  <2> QED
    BY <1>3, <2>1, <2>2, <2>3 DEF Results
<1> QED
  BY <1>4

\* A fresh board has no results, and nothing stolen or lost.
LEMMA FreshRow ==
    ASSUME NEW t \in Nat, NEW id \in TeamIds, NEW s \in Services
    PROVE  /\ Results(FreshBoard(t), id, s) = 0
           /\ \A f \in FlagInfo : /\ FreshBoard(t).teams[id][s].stolen[f] = 0
                                  /\ FreshBoard(t).teams[id][s].lost[f] = 0
BY DEF FreshBoard, EmptyService, Results

\* Tick n of Ticks after updateScoreboard is what it was, or what the open board was.
LEMMA UpdateShape ==
    ASSUME IInv, updateScoreboard
    PROVE  /\ currentState' = FreshBoard(currentTick) /\ currentTick \in Nat
           /\ currentState' # Nil /\ currentState'.tick = currentTick
           /\ Len(ticks) \in Nat /\ DOMAIN ticks = 1 .. Len(ticks)
           /\ \A n \in DOMAIN ticks : ticks'[n] = ticks[n]
           /\ currentState = Nil => ticks' = ticks
           /\ currentState # Nil =>
                 /\ currentState \in Board
                 /\ DOMAIN ticks' = 1 .. (Len(ticks) + 1) /\ Len(ticks') = Len(ticks) + 1
                 /\ ticks'[Len(ticks) + 1] = summarizeState(<<currentState>>)
<1>1. currentState' = FreshBoard(currentTick) /\ currentTick \in Nat
  BY CountsAssumption DEF updateScoreboard, IInv, TypeOK
<1>2. currentState' # Nil /\ currentState'.tick = currentTick
  BY <1>1, FreshBoardType, NilAssumption
<1>3. ticks \in Seq(Board) /\ Len(ticks) \in Nat /\ DOMAIN ticks = 1 .. Len(ticks)
  BY LenProperties DEF IInv, TypeOK
<1>4. CASE currentState = Nil
  BY <1>1, <1>2, <1>3, <1>4 DEF updateScoreboard
<1>5. CASE currentState # Nil
  <2> DEFINE last == summarizeState(<<currentState>>)
  <2>1. currentState \in Board
    BY <1>5 DEF IInv, TypeOK
  <2>2. currentState.tick \in Nat
    BY <2>1 DEF Board
  <2>3. last \in Board
    <3>1. <<currentState>> \in Seq(Board) /\ LatestTick(<<currentState>>) \in Nat
      BY <2>1, <2>2, LatestOfOne
    <3> QED
      BY <3>1, SummaryType
  <2>4. ticks' = Append(ticks, last)
    BY <1>5 DEF updateScoreboard
  <2> HIDE DEF last
  <2>5. /\ ticks' \in Seq(Board) /\ Len(ticks') = Len(ticks) + 1
        /\ \A i \in 1 .. Len(ticks) : ticks'[i] = ticks[i]
        /\ ticks'[Len(ticks) + 1] = last
    BY <1>3, <2>3, <2>4, AppendProperties
  <2>6. DOMAIN ticks' = 1 .. (Len(ticks) + 1)
    BY <2>5, LenProperties
  <2> QED
    BY <1>1, <1>2, <1>3, <1>5, <2>1, <2>5, <2>6 DEF last
<1> QED
  BY <1>4, <1>5

-----------------------------------------------------------------------------
(* The steps of the game *)

\* What the properties read of a flag.
LEMMA FlagParts ==
    ASSUME NEW flag \in Flag, NEW id \in TeamIds
    PROVE  /\ flag.service \in Services /\ flag.team \in TeamIds /\ flag.tick \in Nat
           /\ InfoOf(flag) \in FlagInfo
           /\ [team |-> id, tick |-> flag.tick] \in FlagInfo
BY CountsAssumption DEF Flag, FlagInfo, InfoOf

\* Summarising one board keeps what is stolen and lost of a flag.
LEMMA SummaryOfFlag ==
    ASSUME NEW b \in Board, NEW id \in TeamIds, NEW flag \in Flag
    PROVE  /\ StolenIn(summarizeState(<<b>>), id, flag) = StolenIn(b, id, flag)
           /\ LostIn(summarizeState(<<b>>), id, flag) = LostIn(b, id, flag)
<1>1. /\ flag.service \in Services /\ flag.team \in TeamIds /\ InfoOf(flag) \in FlagInfo
      /\ [team |-> id, tick |-> flag.tick] \in FlagInfo
  BY FlagParts
<1>2. summarizeState(<<b>>).teams[id][flag.service].stolen[InfoOf(flag)]
          = b.teams[id][flag.service].stolen[InfoOf(flag)]
  BY <1>1, SummaryKeepsRow
<1>3. summarizeState(<<b>>).teams[flag.team][flag.service].lost[[team |-> id, tick |-> flag.tick]]
          = b.teams[flag.team][flag.service].lost[[team |-> id, tick |-> flag.tick]]
  BY <1>1, SummaryKeepsRow
<1> QED
  BY <1>2, <1>3 DEF StolenIn, LostIn

\* The additional invariants hold before the game.
LEMMA InitMore == Init => More
<1> SUFFICES ASSUME Init  PROVE  More
  OBVIOUS
<1>1. BoardTick
  BY DEF Init, BoardTick, NoEarlyFlag
<1>2. UptimeOpen /\ UptimeClosed /\ Balanced /\ Filed
  BY DEF Init, UptimeOpen, UptimeClosed, Balanced, Filed
<1>3. Planted
  BY CountsAssumption DEF Init, Planted, Flag
<1> QED
  BY <1>1, <1>2, <1>3 DEF More

\* Steps that leave the boards alone.
LEMMA QuietMore ==
    ASSUME More, UNCHANGED <<boardVars, accepted>>
    PROVE  UptimeClosed' /\ Balanced' /\ Filed'
<1>1. UptimeClosed /\ Balanced /\ Filed
  BY DEF More
<1>2. ticks' = ticks /\ currentState' = currentState /\ accepted' = accepted
  BY DEF boardVars
<1>3. UptimeClosed'
  BY <1>1, <1>2 DEF UptimeClosed, Results
<1>4. Balanced'
  BY <1>1, <1>2 DEF Balanced, Mirror, StolenIn, LostIn
<1>5. Filed'
  BY <1>1, <1>2 DEF Filed, StolenIn
<1> QED
  BY <1>3, <1>4, <1>5

\* The summary of the open board is balanced, complete and holds the accepted flags if the
\* open board does.
LEMMA CloseMore ==
    ASSUME IInv, More, TickUpdate \/ FinalUpdate
    PROVE  More'
<1>1. /\ pc \in {"advance", "final"}
      /\ updateScoreboard
      /\ UNCHANGED <<running, currentTick, issued, waiting, accepted>>
      /\ pc' = IF pc = "advance" THEN "checks" ELSE "closing"
      /\ pc = "advance" => checks' = [k \in CheckIds |-> "delay"]
      /\ pc = "final" => UNCHANGED checks
  BY DEF TickUpdate, FinalUpdate
<1>2. /\ currentState' = FreshBoard(currentTick) /\ currentTick \in Nat
      /\ currentState' # Nil /\ currentState'.tick = currentTick
      /\ Len(ticks) \in Nat /\ DOMAIN ticks = 1 .. Len(ticks)
      /\ \A n \in DOMAIN ticks : ticks'[n] = ticks[n]
      /\ currentState = Nil => ticks' = ticks
      /\ currentState # Nil =>
             /\ currentState \in Board
             /\ DOMAIN ticks' = 1 .. (Len(ticks) + 1) /\ Len(ticks') = Len(ticks) + 1
             /\ ticks'[Len(ticks) + 1] = summarizeState(<<currentState>>)
  BY <1>1, UpdateShape
\* A tick of the new list.
<1>3. ASSUME NEW n \in DOMAIN ticks'
      PROVE  \/ n \in DOMAIN ticks /\ ticks'[n] = ticks[n]
             \/ /\ currentState # Nil /\ currentState \in Board /\ n = Len(ticks) + 1
                /\ ticks'[n] = summarizeState(<<currentState>>)
  <2>1. CASE currentState = Nil
    BY <1>2, <1>3, <2>1
  <2>2. CASE currentState # Nil
    BY <1>2, <1>3, <2>2
  <2> QED
    BY <2>1, <2>2
<1>4. BoardTick'
  <2>1. \A flag \in issued : flag.tick <= currentTick
    <3> SUFFICES ASSUME NEW flag \in issued  PROVE  flag.tick <= currentTick
      OBVIOUS
    <3>1. /\ currentState # Nil /\ flag.tick <= currentState.tick
          /\ currentState.tick <= currentTick
      BY DEF More, BoardTick, NoEarlyFlag
    <3>2. currentState.tick \in Nat /\ flag.tick \in Nat
      BY <3>1, CountsAssumption DEF IInv, TypeOK, Board, Flag
    <3> QED
      BY <1>2, <3>1, <3>2
  <2> QED
    BY <1>1, <1>2, <2>1 DEF BoardTick, NoEarlyFlag
<1>5. UptimeOpen'
  <2> SUFFICES ASSUME NEW id \in TeamIds, NEW s \in Services, pc = "advance"
               PROVE  Results(currentState', id, s) =
                         (IF s \in Checks /\ checks'[<<id, s>>] = "done" THEN 1 ELSE 0)
    BY <1>1 DEF UptimeOpen, Results
  <2>1. Results(currentState', id, s) = 0
    BY <1>2, FreshRow
  <2>2. s \in Checks => checks'[<<id, s>>] = "delay"
    BY <1>1 DEF CheckIds
  <2> QED
    BY <2>1, <2>2
<1>6. UptimeClosed'
  <2> SUFFICES ASSUME NEW n \in DOMAIN ticks', NEW id \in TeamIds, NEW s \in Services
               PROVE  Results(ticks'[n], id, s) = (IF s \in Checks THEN 1 ELSE 0)
    BY DEF UptimeClosed, Results
  <2>1. CASE n \in DOMAIN ticks /\ ticks'[n] = ticks[n]
    BY <2>1 DEF More, UptimeClosed
  <2>2. CASE /\ currentState # Nil /\ currentState \in Board
             /\ ticks'[n] = summarizeState(<<currentState>>)
    <3>1. Results(ticks'[n], id, s) = Results(currentState, id, s)
      BY <2>2, SummaryKeepsRow DEF Results
    <3> QED
      BY <1>1, <2>2, <3>1 DEF More, UptimeOpen
  <2> QED
    BY <1>3, <2>1, <2>2
<1>7. Balanced'
  <2>1. ASSUME NEW n \in DOMAIN ticks', NEW id \in TeamIds, NEW flag \in Flag
        PROVE  StolenIn(ticks'[n], id, flag) = LostIn(ticks'[n], id, flag)
    <3>1. CASE n \in DOMAIN ticks /\ ticks'[n] = ticks[n]
      BY <3>1 DEF More, Balanced, Mirror
    <3>2. CASE /\ currentState # Nil /\ currentState \in Board
               /\ ticks'[n] = summarizeState(<<currentState>>)
      <4>1. /\ StolenIn(ticks'[n], id, flag) = StolenIn(currentState, id, flag)
            /\ LostIn(ticks'[n], id, flag) = LostIn(currentState, id, flag)
        BY <3>2, SummaryOfFlag
      <4> QED
        BY <3>2, <4>1 DEF More, Balanced, Mirror
    <3> QED
      BY <1>3, <3>1, <3>2
  <2>2. ASSUME NEW id \in TeamIds, NEW flag \in Flag
        PROVE  StolenIn(currentState', id, flag) = LostIn(currentState', id, flag)
    <3>1. /\ flag.service \in Services /\ flag.team \in TeamIds
          /\ InfoOf(flag) \in FlagInfo /\ [team |-> id, tick |-> flag.tick] \in FlagInfo
      BY FlagParts
    <3>2. FreshBoard(currentTick).teams[id][flag.service].stolen[InfoOf(flag)] = 0
      BY <1>2, <3>1, FreshRow
    <3>3. FreshBoard(currentTick).teams[flag.team][flag.service].lost
              [[team |-> id, tick |-> flag.tick]] = 0
      BY <1>2, <3>1, FreshRow
    <3> QED
      BY <1>2, <3>2, <3>3 DEF StolenIn, LostIn
  <2> QED
    BY <2>1, <2>2 DEF Balanced, Mirror, StolenIn, LostIn
<1>8. Filed'
  <2> SUFFICES ASSUME NEW a \in accepted
               PROVE  a.board \in DOMAIN ticks' /\ StolenIn(ticks'[a.board], a.thief, a.flag) = 1
    BY <1>1 DEF Filed, StolenIn
  <2>1. a.thief \in TeamIds /\ a.flag \in Flag
    BY DEF IInv, TypeOK
  <2>2. CASE a.board \in DOMAIN ticks /\ StolenIn(ticks[a.board], a.thief, a.flag) = 1
    BY <1>2, <2>2
  <2>3. CASE /\ a.board = Len(ticks) + 1 /\ currentState # Nil
             /\ StolenIn(currentState, a.thief, a.flag) = 1
    <3>1. a.board \in DOMAIN ticks' /\ ticks'[a.board] = summarizeState(<<currentState>>)
      BY <1>2, <2>3
    <3>2. StolenIn(ticks'[a.board], a.thief, a.flag) = StolenIn(currentState, a.thief, a.flag)
      BY <1>2, <2>1, <2>3, <3>1, SummaryOfFlag
    <3> QED
      BY <2>3, <3>1, <3>2
  <2> QED
    BY <2>2, <2>3 DEF More, Filed
<1>9. Planted'
  <2> SUFFICES ASSUME NEW flag \in Flag, flag.service \in Checks
               PROVE  /\ flag.tick < currentTick => flag \in issued
                      /\ pc = "final" /\ flag.tick = currentTick => flag \in issued
                      /\ pc = "advance" => checks'[<<flag.team, flag.service>>] = "delay"
    BY <1>1 DEF Planted
  <2>1. <<flag.team, flag.service>> \in CheckIds
    BY DEF Flag, CheckIds
  <2> QED
    BY <1>1, <2>1 DEF More, Planted
<1> QED
  BY <1>4, <1>5, <1>6, <1>7, <1>8, <1>9 DEF More

\* A check that reports completes its own row.
LEMMA CheckReportMore ==
    ASSUME IInv, More, NEW k \in CheckIds, CheckSucceeds(k) \/ CheckFails(k)
    PROVE  More'
<1>1. /\ pc = "checks" /\ checks[k] = "running"
      /\ checks' = [checks EXCEPT ![k] = "done"]
      /\ UNCHANGED <<running, currentTick, pc, issued, ticks, overallState, waiting, accepted>>
  BY DEF CheckSucceeds, CheckFails
<1>2. currentState # Nil /\ currentState \in Board
  BY <1>1 DEF IInv, InStep, TypeOK
<1>3. Counted(currentState, k, currentState')
  BY DEF CheckSucceeds, CheckFails, Counted
<1>4. /\ currentState' \in Board /\ currentState'.tick = currentState.tick
      /\ \A i \in TeamIds, s \in Services :
            /\ currentState'.teams[i][s].stolen = currentState.teams[i][s].stolen
            /\ currentState'.teams[i][s].lost = currentState.teams[i][s].lost
            /\ Results(currentState', i, s)
                  = Results(currentState, i, s) + (IF i = k[1] /\ s = k[2] THEN 1 ELSE 0)
            /\ Results(currentState, i, s) \in Nat
  BY <1>2, <1>3, CheckedType, CheckedRest
<1>5. BoardTick'
  BY <1>1, <1>2, <1>4, NilAssumption DEF More, BoardTick, NoEarlyFlag
<1>6. UptimeOpen'
  <2> SUFFICES ASSUME NEW id \in TeamIds, NEW s \in Services
               PROVE  Results(currentState', id, s) =
                         (IF s \in Checks /\ checks'[<<id, s>>] = "done" THEN 1 ELSE 0)
    BY <1>1 DEF UptimeOpen, Results
  <2>1. Results(currentState, id, s) =
            (IF s \in Checks /\ checks[<<id, s>>] = "done" THEN 1 ELSE 0)
    BY <1>1, <1>2 DEF More, UptimeOpen
  <2>2. CASE id = k[1] /\ s = k[2]
    <3>1. <<id, s>> = k /\ s \in Checks
      BY <2>2 DEF CheckIds
    <3>2. checks'[<<id, s>>] = "done" /\ checks[<<id, s>>] # "done"
      BY <1>1, <3>1 DEF IInv, TypeOK
    <3> QED
      BY <1>4, <2>1, <2>2, <3>1, <3>2
  <2>3. CASE ~ (id = k[1] /\ s = k[2])
    <3>1. s \in Checks => checks'[<<id, s>>] = checks[<<id, s>>]
      <4>1. s \in Checks => <<id, s>> \in CheckIds /\ <<id, s>> # k
        BY <2>3 DEF CheckIds
      <4> QED
        BY <1>1, <4>1 DEF IInv, TypeOK
    <3>2. Results(currentState', id, s) = Results(currentState, id, s)
      BY <1>4, <2>3
    <3> QED
      BY <2>1, <3>1, <3>2
  <2> QED
    BY <2>2, <2>3
<1>7. UptimeClosed'
  BY <1>1 DEF More, UptimeClosed, Results
<1>8. \A id \in TeamIds, flag \in Flag :
          /\ StolenIn(currentState', id, flag) = StolenIn(currentState, id, flag)
          /\ LostIn(currentState', id, flag) = LostIn(currentState, id, flag)
  BY <1>4, FlagParts DEF StolenIn, LostIn
<1>9. Balanced'
  <2>1. \A n \in DOMAIN ticks' : Mirror(ticks[n])'
    BY <1>1 DEF More, Balanced, Mirror, StolenIn, LostIn
  <2>2. \A id \in TeamIds, flag \in Flag :
            StolenIn(currentState, id, flag) = LostIn(currentState, id, flag)
    BY <1>2 DEF More, Balanced, Mirror
  <2>3. Mirror(currentState)'
    <3>1. \A id \in TeamIds, flag \in Flag :
              StolenIn(currentState', id, flag) = LostIn(currentState', id, flag)
      BY <1>8, <2>2
    <3> QED
      BY <3>1 DEF Mirror, StolenIn, LostIn
  <2> QED
    BY <2>1, <2>3 DEF Balanced
<1>10. Filed'
  <2>1. currentState' # Nil
    BY <1>4, NilAssumption
  <2>2. \A a \in accepted : a.thief \in TeamIds /\ a.flag \in Flag
    BY DEF IInv, TypeOK
  <2> QED
    BY <1>1, <1>8, <2>1, <2>2 DEF More, Filed, StolenIn
<1>11. Planted'
  <2>1. \A flag \in Flag : flag.service \in Checks /\ flag.tick = currentTick =>
            checks'[<<flag.team, flag.service>>] = "delay" \/ flag \in issued
    <3> SUFFICES ASSUME NEW flag \in Flag, flag.service \in Checks, flag.tick = currentTick
                 PROVE  checks'[<<flag.team, flag.service>>] = "delay" \/ flag \in issued
      OBVIOUS
    <3>1. <<flag.team, flag.service>> \in CheckIds
      BY DEF Flag, CheckIds
    <3>2. checks[<<flag.team, flag.service>>] = "delay" \/ flag \in issued
      BY <1>1 DEF More, Planted
    <3>3. checks[<<flag.team, flag.service>>] = "delay" =>
              checks'[<<flag.team, flag.service>>] = "delay"
      BY <1>1, <3>1 DEF IInv, TypeOK
    <3> QED
      BY <3>2, <3>3
  <2> QED
    BY <1>1, <2>1 DEF More, Planted
<1> QED
  BY <1>5, <1>6, <1>7, <1>9, <1>10, <1>11 DEF More

\* What an accepted submission does to the boards.
LEMMA AcceptedShape ==
    ASSUME IInv, NEW c \in Conns, NEW text \in Texts, SubmitAccepted(c, text)
    PROVE  /\ Submitter[c] \in TeamIds /\ text.fields \in Flag /\ text.fields \in issued
           /\ currentState \in Board /\ currentState # Nil
           /\ currentState' \in Board /\ currentState' # Nil
           /\ currentState'.tick = currentState.tick
           /\ currentState' = Credited(currentState, Submitter[c], text.fields)
           /\ text.fields.team # Submitter[c] /\ ~ Expired(text.fields)
           /\ StolenIn(currentState, Submitter[c], text.fields) = 0
           /\ \A i \in DOMAIN ticks : StolenIn(ticks[i], Submitter[c], text.fields) = 0
           /\ \A i \in TeamIds, g \in Flag :
                 /\ StolenIn(currentState', i, g) =
                       StolenIn(currentState, i, g)
                          + (IF i = Submitter[c] /\ g = text.fields THEN 1 ELSE 0)
                 /\ LostIn(currentState', i, g) =
                       LostIn(currentState, i, g)
                          + (IF i = Submitter[c] /\ g = text.fields THEN 1 ELSE 0)
           /\ accepted' = accepted \cup
                 {[thief |-> Submitter[c], flag |-> text.fields, board |-> Len(ticks) + 1]}
           /\ UNCHANGED <<running, currentTick, pc, checks, issued, ticks, overallState>>
<1> DEFINE id == Submitter[c]
           flag == text.fields
<1>1. id \in TeamIds
  BY ConnsAssumption
<1>2. submitStatus(id, text) = "FLAG_ACCEPTED"
  BY DEF SubmitAccepted
<1>3. /\ flag \in Flag
      /\ currentState \in Board
      /\ StolenIn(currentState, id, flag) = 0
      /\ \A i \in DOMAIN ticks : StolenIn(ticks[i], id, flag) = 0
  BY <1>1, <1>2, AcceptedMeans DEF IInv, StolenIn
<1>4. Verify(text) /\ flag.team # id /\ ~ Expired(flag)
  BY <1>2, Zenon DEF submitStatus
<1>5. flag \in issued
  BY <1>4, AcceptedIsIssued
<1>6. currentState' = Credited(currentState, id, flag)
  BY DEF SubmitAccepted, creditFlag, Credited
<1>7. /\ accepted' = accepted \cup {[thief |-> id, flag |-> flag, board |-> Len(ticks) + 1]}
      /\ UNCHANGED <<running, currentTick, pc, checks, issued, ticks, overallState>>
  BY DEF SubmitAccepted, loopVars
<1> HIDE DEF id, flag
<1>8. /\ currentState' \in Board /\ currentState'.tick = currentState.tick
      /\ currentState # Nil /\ currentState' # Nil
  BY <1>1, <1>3, <1>6, CreditedType, NilAssumption
<1>9. \A i \in TeamIds, s \in Services, f \in FlagInfo :
             currentState'.teams[i][s].stolen[f] =
               IF i = id /\ s = flag.service /\ f = InfoOf(flag)
               THEN currentState.teams[i][s].stolen[f] + 1
               ELSE currentState.teams[i][s].stolen[f]
  BY <1>1, <1>3, <1>6, CreditedType
<1>10. \A i \in TeamIds, s \in Services : \A f \in FlagInfo :
             currentState'.teams[i][s].lost[f] =
               IF i = flag.team /\ s = flag.service /\ f = [team |-> id, tick |-> flag.tick]
               THEN currentState.teams[i][s].lost[f] + 1
               ELSE currentState.teams[i][s].lost[f]
  BY <1>1, <1>3, <1>6, CreditedRest
<1>11. ASSUME NEW i \in TeamIds, NEW g \in Flag
      PROVE  /\ StolenIn(currentState', i, g) =
                   StolenIn(currentState, i, g) + (IF i = id /\ g = flag THEN 1 ELSE 0)
             /\ LostIn(currentState', i, g) =
                   LostIn(currentState, i, g) + (IF i = id /\ g = flag THEN 1 ELSE 0)
  <2> DEFINE lostTo == [team |-> i, tick |-> g.tick]
  <2>1. /\ g.service \in Services /\ g.team \in TeamIds /\ InfoOf(g) \in FlagInfo
        /\ lostTo \in FlagInfo
    BY FlagParts
  <2>2. g = flag <=> g.service = flag.service /\ InfoOf(g) = InfoOf(flag)
    BY <1>3 DEF Flag, InfoOf
  <2>3. i = id /\ g = flag <=> /\ g.team = flag.team /\ g.service = flag.service
                               /\ lostTo = [team |-> id, tick |-> flag.tick]
    BY <1>3 DEF Flag
  <2> HIDE DEF lostTo
  <2>4. currentState'.teams[i][g.service].stolen[InfoOf(g)] =
            IF i = id /\ g.service = flag.service /\ InfoOf(g) = InfoOf(flag)
            THEN currentState.teams[i][g.service].stolen[InfoOf(g)] + 1
            ELSE currentState.teams[i][g.service].stolen[InfoOf(g)]
    BY <1>9, <2>1
  <2>5. currentState'.teams[g.team][g.service].lost[lostTo] =
            IF g.team = flag.team /\ g.service = flag.service
                  /\ lostTo = [team |-> id, tick |-> flag.tick]
            THEN currentState.teams[g.team][g.service].lost[lostTo] + 1
            ELSE currentState.teams[g.team][g.service].lost[lostTo]
    BY <1>10, <2>1
  <2>6. /\ currentState.teams[i][g.service].stolen[InfoOf(g)] \in Nat
        /\ currentState.teams[g.team][g.service].lost[lostTo] \in Nat
    BY <1>3, <2>1 DEF Board, ServiceState
  <2>7. currentState'.teams[i][g.service].stolen[InfoOf(g)] =
            currentState.teams[i][g.service].stolen[InfoOf(g)]
               + (IF i = id /\ g = flag THEN 1 ELSE 0)
    BY <2>2, <2>4, <2>6
  <2>8. currentState'.teams[g.team][g.service].lost[lostTo] =
            currentState.teams[g.team][g.service].lost[lostTo]
               + (IF i = id /\ g = flag THEN 1 ELSE 0)
    BY <2>3, <2>5, <2>6
  <2> QED
    BY <2>7, <2>8 DEF StolenIn, LostIn, lostTo
<1> QED
  BY <1>1, <1>3, <1>4, <1>5, <1>6, <1>7, <1>8, <1>11 DEF id, flag

\* An accepted flag is entered in the two rows of the open board.
LEMMA SubmitAcceptedMore ==
    ASSUME IInv, More, NEW c \in Conns, NEW text \in Texts, SubmitAccepted(c, text)
    PROVE  More'
<1> DEFINE id == Submitter[c]
           flag == text.fields
<1>1. /\ id \in TeamIds /\ flag \in Flag
      /\ currentState \in Board /\ currentState # Nil
      /\ currentState' \in Board /\ currentState' # Nil
      /\ currentState'.tick = currentState.tick
      /\ currentState' = Credited(currentState, id, flag)
  BY AcceptedShape
<1>2. /\ StolenIn(currentState, id, flag) = 0
      /\ \A i \in TeamIds, g \in Flag :
            /\ StolenIn(currentState', i, g) =
                  StolenIn(currentState, i, g) + (IF i = id /\ g = flag THEN 1 ELSE 0)
            /\ LostIn(currentState', i, g) =
                  LostIn(currentState, i, g) + (IF i = id /\ g = flag THEN 1 ELSE 0)
  BY AcceptedShape
<1>3. /\ accepted' = accepted \cup {[thief |-> id, flag |-> flag, board |-> Len(ticks) + 1]}
      /\ UNCHANGED <<running, currentTick, pc, checks, issued, ticks, overallState>>
  BY AcceptedShape
<1>4. \A i \in TeamIds, s \in Services :
          Results(currentState', i, s) = Results(currentState, i, s)
  BY <1>1, CreditedRest DEF Results
<1> HIDE DEF id, flag
<1>5. BoardTick'
  BY <1>1, <1>3 DEF More, BoardTick, NoEarlyFlag
<1>6. UptimeOpen'
  <2>1. UptimeOpen
    BY DEF More
  <2>2. ASSUME NEW i \in TeamIds, NEW s \in Services
        PROVE  /\ pc' = "checks" =>
                     Results(currentState', i, s) =
                         (IF s \in Checks /\ checks'[<<i, s>>] = "done" THEN 1 ELSE 0)
               /\ pc' \in {"select", "advance", "final"} =>
                     Results(currentState', i, s) = (IF s \in Checks THEN 1 ELSE 0)
    <3>1. Results(currentState', i, s) = Results(currentState, i, s)
      BY <1>4
    <3>2. pc' = pc /\ checks' = checks
      BY <1>3
    <3> QED
      BY <1>1, <2>1, <3>1, <3>2 DEF UptimeOpen
  <2> QED
    BY <2>2 DEF UptimeOpen, Results
<1>7. UptimeClosed'
  BY <1>3 DEF More, UptimeClosed, Results
<1>8. Balanced'
  <2>1. \A i \in TeamIds, g \in Flag : StolenIn(currentState, i, g) = LostIn(currentState, i, g)
    BY <1>1 DEF More, Balanced, Mirror
  <2>2. \A i \in TeamIds, g \in Flag : StolenIn(currentState', i, g) = LostIn(currentState', i, g)
    BY <1>2, <2>1
  <2> QED
    BY <1>3, <2>2 DEF More, Balanced, Mirror, StolenIn, LostIn
<1>9. Filed'
  <2> SUFFICES ASSUME NEW a \in accepted'
               PROVE  \/ a.board \in DOMAIN ticks /\ StolenIn(ticks[a.board], a.thief, a.flag) = 1
                      \/ a.board = Len(ticks) + 1 /\ StolenIn(currentState', a.thief, a.flag) = 1
    BY <1>1, <1>3 DEF Filed, StolenIn
  <2>1. CASE a = [thief |-> id, flag |-> flag, board |-> Len(ticks) + 1]
    BY <1>1, <1>2, <2>1
  <2>2. CASE a \in accepted
    <3>1. a.thief \in TeamIds /\ a.flag \in Flag
      BY <2>2 DEF IInv, TypeOK
    <3>2. CASE a.board \in DOMAIN ticks /\ StolenIn(ticks[a.board], a.thief, a.flag) = 1
      BY <3>2
    <3>3. CASE a.board = Len(ticks) + 1 /\ StolenIn(currentState, a.thief, a.flag) = 1
      BY <1>2, <3>1, <3>3
    <3> QED
      BY <2>2, <3>2, <3>3 DEF More, Filed
  <2> QED
    BY <1>3, <2>1, <2>2
<1>10. Planted'
  BY <1>3 DEF More, Planted
<1> QED
  BY <1>5, <1>6, <1>7, <1>8, <1>9, <1>10 DEF More

\* A check plants the flag of its row for the tick that is open.
LEMMA CheckPlantMore ==
    ASSUME IInv, More, NEW k \in CheckIds, CheckPlant(k)
    PROVE  More'
<1> DEFINE new == [tick |-> currentTick, team |-> k[1], service |-> k[2]]
<1>1. /\ pc = "checks" /\ checks[k] = "delay"
      /\ checks' = [checks EXCEPT ![k] = "running"]
      /\ issued' = issued \cup {new}
      /\ UNCHANGED <<running, currentTick, pc, boardVars, waiting, accepted>>
  BY DEF CheckPlant
<1>2. UptimeClosed' /\ Balanced' /\ Filed'
  BY <1>1, QuietMore
<1>3. currentState # Nil /\ currentState.tick = currentTick /\ currentTick \in Nat
  BY <1>1, CountsAssumption DEF IInv, InStep, TypeOK
<1>4. BoardTick'
  BY <1>1, <1>3 DEF More, BoardTick, NoEarlyFlag, boardVars
<1>5. UptimeOpen'
  <2> SUFFICES ASSUME NEW id \in TeamIds, NEW s \in Services
               PROVE  Results(currentState, id, s) =
                         (IF s \in Checks /\ checks'[<<id, s>>] = "done" THEN 1 ELSE 0)
    BY <1>1 DEF UptimeOpen, Results, boardVars
  <2>1. s \in Checks => (checks'[<<id, s>>] = "done" <=> checks[<<id, s>>] = "done")
    BY <1>1 DEF IInv, TypeOK, CheckIds
  <2> QED
    BY <1>1, <1>3, <2>1 DEF More, UptimeOpen
<1>6. Planted'
  <2> SUFFICES ASSUME NEW flag \in Flag, flag.service \in Checks
               PROVE  /\ flag.tick < currentTick => flag \in issued'
                      /\ flag.tick = currentTick =>
                            checks'[<<flag.team, flag.service>>] = "delay" \/ flag \in issued'
    BY <1>1 DEF Planted
  <2>1. CASE flag.tick = currentTick /\ <<flag.team, flag.service>> = k
    <3>1. flag = new
      BY <2>1 DEF Flag
    <3> QED
      BY <1>1, <2>1, <3>1
  <2>2. CASE flag.tick = currentTick /\ <<flag.team, flag.service>> # k
    <3>1. <<flag.team, flag.service>> \in CheckIds
      BY DEF Flag, CheckIds
    <3>2. checks'[<<flag.team, flag.service>>] = checks[<<flag.team, flag.service>>]
      BY <1>1, <2>2, <3>1 DEF IInv, TypeOK
    <3> QED
      BY <1>1, <1>3, <2>2, <3>2 DEF More, Planted
  <2>3. CASE flag.tick # currentTick
    BY <1>1, <2>3 DEF More, Planted
  <2> QED
    BY <2>1, <2>2, <2>3
<1> QED
  BY <1>2, <1>4, <1>5, <1>6 DEF More

\* Every step of the game keeps it all.
LEMMA NextMore == IInv /\ More /\ [Next]_vars => More'
<1> SUFFICES ASSUME IInv, More, [Next]_vars  PROVE  More'
  OBVIOUS
<1> USE DEF boardVars, loopVars
<1>1. currentTick \in Nat /\ (currentState # Nil => currentState.tick \in Nat)
  BY CountsAssumption DEF IInv, TypeOK, Board
\* A step of the loop or of a submission that changes no board.
<1>2. ASSUME UNCHANGED <<boardVars, accepted, issued>>, currentTick' \in Nat,
             currentTick <= currentTick', UptimeOpen', Planted'
      PROVE  More'
  <2>1. UptimeClosed' /\ Balanced' /\ Filed'
    BY <1>2, QuietMore
  <2>2. BoardTick'
    BY <1>1, <1>2 DEF More, BoardTick, NoEarlyFlag
  <2> QED
    BY <1>2, <2>1, <2>2 DEF More
<1>3. CASE Start
  <2>1. UptimeOpen' /\ Planted'
    BY <1>1, <1>3, CountsAssumption DEF Start, IInv, InStep, More, UptimeOpen, Planted, Flag
  <2> QED
    BY <1>1, <1>2, <1>3, <2>1 DEF Start
<1>4. CASE TickBegin
  <2>1. UptimeOpen'
    BY <1>4 DEF TickBegin, More, UptimeOpen, Results
  <2>2. Planted'
    <3>1. \A flag \in Flag : flag.tick \in Nat
      BY CountsAssumption DEF Flag
    <3>2. \A flag \in Flag : flag.tick < currentTick' =>
              flag.tick < currentTick \/ flag.tick = currentTick
      BY <1>1, <1>4, <3>1 DEF TickBegin
    <3> QED
      BY <1>4, <3>2 DEF TickBegin, More, Planted
  <2> QED
    BY <1>1, <1>2, <1>4, <2>1, <2>2 DEF TickBegin
<1>5. CASE TickUpdate \/ FinalUpdate
  BY <1>5, CloseMore
<1>6. CASE TickEnd
  <2>1. \A k \in CheckIds : checks[k] = "done"
    BY <1>6 DEF TickEnd, ChecksFinished
  <2>2. \A id \in TeamIds, s \in Checks : checks[<<id, s>>] = "done"
    BY <2>1 DEF CheckIds
  <2>3. UptimeOpen'
    BY <1>6, <2>2 DEF TickEnd, More, UptimeOpen, Results
  <2>4. Planted'
    <3>1. \A flag \in Flag : flag.team \in TeamIds
      BY DEF Flag
    <3> QED
      BY <1>6, <2>2, <3>1 DEF TickEnd, More, Planted
  <2> QED
    BY <1>1, <1>2, <1>6, <2>3, <2>4 DEF TickEnd
<1>7. CASE EndTimer \/ Stop
  <2>1. UptimeOpen'
    BY <1>7 DEF EndTimer, Stop, More, UptimeOpen, Results
  <2>2. Planted'
    BY <1>7 DEF EndTimer, Stop, More, Planted
  <2> QED
    BY <1>1, <1>2, <1>7, <2>1, <2>2 DEF EndTimer, Stop
<1>8. ASSUME NEW k \in CheckIds, CheckPlant(k)  PROVE  More'
  BY <1>8, CheckPlantMore
<1>9. ASSUME NEW k \in CheckIds, CheckSucceeds(k) \/ CheckFails(k)  PROVE  More'
  BY <1>9, CheckReportMore
<1>10. ASSUME NEW c \in Conns, NEW text \in Texts, SubmitAccepted(c, text)  PROVE  More'
  BY <1>10, SubmitAcceptedMore
<1>11. ASSUME UNCHANGED <<currentTick, checks, issued, currentState, ticks, overallState, accepted>>,
              pc' \in {pc, "crashed"}
       PROVE  More'
  <2>1. UptimeOpen'
    BY <1>11 DEF More, UptimeOpen, Results
  <2>2. Planted'
    BY <1>11 DEF More, Planted
  <2> QED
    BY <1>1, <1>2, <1>11, <2>1, <2>2
<1>12. ASSUME NEW c \in Conns, SubmitArrive(c)  PROVE  More'
  BY <1>11, <1>12 DEF SubmitArrive
<1>13. ASSUME NEW c \in Conns, NEW text \in Texts, SubmitRejected(c, text)  PROVE  More'
  BY <1>11, <1>13 DEF SubmitRejected
<1>14. ASSUME NEW c \in Conns, NEW text \in Texts, SubmitPanics(c, text)  PROVE  More'
  BY <1>11, <1>14 DEF SubmitPanics
<1>15. CASE UNCHANGED vars
  BY <1>11, <1>15 DEF vars
<1> QED
  BY <1>3, <1>4, <1>5, <1>6, <1>7, <1>8, <1>9, <1>10, <1>12, <1>13, <1>14, <1>15
  DEF Next, CheckStep, SubmitLocked

\* Both invariants hold throughout every game.
LEMMA MoreInvariance == Spec => [](IInv /\ More)
<1>1. Init => IInv /\ More
  BY InitIInv, InitMore
<1>2. IInv /\ More /\ [Next]_vars => (IInv /\ More)'
  BY NextIInv, NextMore
<1> QED
  BY <1>1, <1>2, PTL DEF Spec

-----------------------------------------------------------------------------
(* The properties *)

\* No flag a check has planted is ever refused with FLAG_NOT_YET_VALID.
THEOREM FlagsAreNeverEarly == Spec => []NoEarlyFlag
<1>1. More => NoEarlyFlag
  BY DEF More, BoardTick
<1> QED
  BY <1>1, MoreInvariance, PTL

\* Tick waits for all its checks, and each reports into the board of its own tick:
\* a closed tick has one uptime result per row and checked service.
THEOREM UptimeIsComplete == Spec => []UptimeComplete
<1>1. More => UptimeComplete
  BY DEF More, UptimeClosed, Results, UptimeComplete
<1> QED
  BY <1>1, MoreInvariance, PTL

\* The boards of the game: the closed ones, then the open one if there is one.
BoardsOf(tks, open) == IF open = Nil THEN tks ELSE Append(tks, open)

\* The boards of a game are the closed ones followed by the open one, if there is one.
LEMMA BoardsAre ==
    ASSUME NEW tks \in Seq(Board), NEW open \in Board \cup {Nil}
    PROVE  /\ Len(tks) \in Nat /\ DOMAIN tks = 1 .. Len(tks)
           /\ open = Nil => BoardsOf(tks, open) = tks
           /\ open # Nil => DOMAIN BoardsOf(tks, open) = 1 .. (Len(tks) + 1)
           /\ \A n \in DOMAIN tks : /\ n \in DOMAIN BoardsOf(tks, open)
                                    /\ BoardsOf(tks, open)[n] = tks[n]
           /\ open # Nil => BoardsOf(tks, open)[Len(tks) + 1] = open
           /\ \A n \in DOMAIN BoardsOf(tks, open) : BoardsOf(tks, open)[n] \in Board
<1>1. Len(tks) \in Nat /\ DOMAIN tks = 1 .. Len(tks)
  BY LenProperties
<1>2. CASE open = Nil
  BY <1>1, <1>2 DEF BoardsOf
<1>3. CASE open # Nil
  <2> DEFINE bs == BoardsOf(tks, open)
  <2>1. open \in Board /\ bs = Append(tks, open)
    BY <1>3 DEF BoardsOf
  <2> HIDE DEF bs
  <2>2. /\ bs \in Seq(Board) /\ Len(bs) = Len(tks) + 1
        /\ \A i \in 1 .. Len(tks) : bs[i] = tks[i]
        /\ bs[Len(tks) + 1] = open
    BY <1>1, <2>1, AppendProperties
  <2>3. DOMAIN bs = 1 .. (Len(tks) + 1)
    BY <2>2, LenProperties
  <2>4. \A n \in DOMAIN bs : bs[n] \in Board
    BY <2>2, LenProperties
  <2> QED
    BY <1>1, <1>3, <2>2, <2>3, <2>4 DEF bs
<1> QED
  BY <1>2, <1>3

\* In every board each flag a row has stolen is lost by the row it was stolen from.
THEOREM StolenIsLost == Spec => []StolenLostMirror
<1>1. IInv /\ More => StolenLostMirror
  <2> SUFFICES ASSUME IInv, More, NEW i \in DOMAIN Boards, NEW id \in TeamIds, NEW flag \in Flag
               PROVE  StolenIn(Boards[i], id, flag) = LostIn(Boards[i], id, flag)
    BY DEF StolenLostMirror
  <2>1. /\ ticks \in Seq(Board) /\ currentState \in Board \cup {Nil}
        /\ Boards = BoardsOf(ticks, currentState)
    BY DEF IInv, TypeOK, Boards, BoardsOf
  <2>2. CASE i \in DOMAIN ticks
    <3>1. Boards[i] = ticks[i]
      BY <2>1, <2>2, BoardsAre
    <3> QED
      BY <2>2, <3>1 DEF More, Balanced, Mirror
  <2>3. CASE i \notin DOMAIN ticks
    <3>1. currentState # Nil /\ i = Len(ticks) + 1 /\ Boards[i] = currentState
      BY <2>1, <2>3, BoardsAre
    <3> QED
      BY <3>1 DEF More, Balanced, Mirror
  <2> QED
    BY <2>2, <2>3
<1> QED
  BY <1>1, MoreInvariance, PTL

\* An accepted flag is in the board that was open when submitFlag held the mutex, and
\* the closing of that tick keeps it there.
THEOREM FlagsCountForTheirTick == Spec => []CountedForItsTick
<1>1. IInv /\ More => CountedForItsTick
  <2> SUFFICES ASSUME IInv, More, NEW a \in accepted
               PROVE  a.board \in DOMAIN Boards /\ StolenIn(Boards[a.board], a.thief, a.flag) = 1
    BY DEF CountedForItsTick
  <2>1. /\ ticks \in Seq(Board) /\ currentState \in Board \cup {Nil}
        /\ Boards = BoardsOf(ticks, currentState)
    BY DEF IInv, TypeOK, Boards, BoardsOf
  <2>2. CASE a.board \in DOMAIN ticks /\ StolenIn(ticks[a.board], a.thief, a.flag) = 1
    BY <2>1, <2>2, BoardsAre
  <2>3. CASE /\ a.board = Len(ticks) + 1 /\ currentState # Nil
             /\ StolenIn(currentState, a.thief, a.flag) = 1
    BY <2>1, <2>3, BoardsAre
  <2> QED
    BY <2>2, <2>3 DEF More, Filed
<1> QED
  BY <1>1, MoreInvariance, PTL

\* GET /api/flagIds names only flags that the scorebot has, and that submitFlag would
\* not call expired.
THEOREM FlagIdsAreKnown == Spec => []FlagIdsArePlanted
<1>1. IInv /\ More => FlagIdsArePlanted
  <2> SUFFICES ASSUME IInv, More, NEW flag \in flagIds
               PROVE  flag \in issued /\ ~ Expired(flag)
    BY DEF FlagIdsArePlanted
  <2>1. /\ flag \in Flag /\ flag.service \in Checks /\ flag.tick \in Nat
        /\ currentTick - FlagValidTicks + 1 <= flag.tick /\ flag.tick <= currentTick - 1
        /\ currentTick \in Nat /\ FlagValidTicks \in Nat
    BY CountsAssumption DEF flagIds, Flag, IInv, TypeOK
  <2>2. flag \in issued
    <3>1. flag.tick < currentTick
      BY <2>1
    <3> QED
      BY <2>1, <3>1 DEF More, Planted
  <2>3. currentState # Nil /\ currentState.tick <= currentTick
    BY <2>2 DEF More, BoardTick, NoEarlyFlag
  <2>4. currentState.tick \in Nat
    BY <2>3 DEF IInv, TypeOK, Board
  <2> QED
    BY <2>1, <2>2, <2>3, <2>4 DEF Expired
<1> QED
  BY <1>1, MoreInvariance, PTL

-----------------------------------------------------------------------------
(* The boards implement the ledger *)

\* A sum does not change when terms that are zero are added.
LEMMA TotalExtended ==
    ASSUME NEW f, NEW g, DOMAIN f \subseteq DOMAIN g, \A i \in DOMAIN f : g[i] = f[i],
           \A i \in DOMAIN g \ DOMAIN f : g[i] = 0
    PROVE  Total(g) = Total(f)
<1> DEFINE F == UNION {{i} \X (1 .. f[i]) : i \in DOMAIN f}
           G == UNION {{i} \X (1 .. g[i]) : i \in DOMAIN g}
<1>1. ASSUME NEW u \in F  PROVE  u \in G
  BY <1>1
<1>2. ASSUME NEW u \in G  PROVE  u \in F
  <2>1. PICK i \in DOMAIN g : u \in {i} \X (1 .. g[i])
    BY <1>2
  <2>2. i \in DOMAIN f
    <3> SUFFICES ASSUME i \notin DOMAIN f  PROVE  FALSE
      OBVIOUS
    <3>1. 1 .. g[i] = {}
      OBVIOUS
    <3> QED
      BY <2>1, <3>1
  <2> QED
    BY <2>1, <2>2
<1>3. F = G
  BY <1>1, <1>2
<1> QED
  BY <1>3 DEF Total

\* A sum of zeros is zero.
LEMMA TotalOfZeros ==
    ASSUME NEW f, \A i \in DOMAIN f : f[i] = 0
    PROVE  Total(f) = 0
<1>1. \A i \in DOMAIN f : {i} \X (1 .. f[i]) = {}
  OBVIOUS
<1>2. UNION {{i} \X (1 .. f[i]) : i \in DOMAIN f} = {}
  BY <1>1
<1> QED
  BY <1>2, FS_EmptySet DEF Total

\* A sum with a single one is one.
LEMMA TotalOfOne ==
    ASSUME NEW f, NEW n \in DOMAIN f, f[n] = 1, \A i \in DOMAIN f \ {n} : f[i] = 0
    PROVE  Total(f) = 1
<1>1. \A i \in DOMAIN f : {i} \X (1 .. f[i]) = IF i = n THEN {<<n, 1>>} ELSE {}
  OBVIOUS
<1>2. UNION {{i} \X (1 .. f[i]) : i \in DOMAIN f} = {<<n, 1>>}
  BY <1>1
<1> QED
  BY <1>2, FS_Singleton DEF Total

\* How often flag is credited to row id in the boards tks and the open board.
CreditOf(tks, open, id, flag) ==
    Total([i \in DOMAIN BoardsOf(tks, open) |-> StolenIn(BoardsOf(tks, open)[i], id, flag)])

\* updateScoreboard moves the credits of the open board into Ticks and opens a board that
\* has none: their number stays.
LEMMA CloseCredit ==
    ASSUME NEW tks \in Seq(Board), NEW open \in Board \cup {Nil},
           NEW tks2 \in Seq(Board), NEW fresh \in Board,
           NEW id \in TeamIds, NEW flag \in Flag,
           open = Nil => tks2 = tks,
           open # Nil => /\ Len(tks2) = Len(tks) + 1
                         /\ tks2[Len(tks) + 1] = summarizeState(<<open>>),
           \A n \in DOMAIN tks : tks2[n] = tks[n],
           StolenIn(fresh, id, flag) = 0
    PROVE  CreditOf(tks2, fresh, id, flag) = CreditOf(tks, open, id, flag)
<1> DEFINE B == BoardsOf(tks, open)
           C == BoardsOf(tks2, fresh)
           f == [i \in DOMAIN B |-> StolenIn(B[i], id, flag)]
           g == [i \in DOMAIN C |-> StolenIn(C[i], id, flag)]
<1>1. fresh # Nil
  BY NilAssumption
<1>2. /\ Len(tks) \in Nat /\ DOMAIN tks = 1 .. Len(tks)
      /\ Len(tks2) \in Nat /\ DOMAIN tks2 = 1 .. Len(tks2)
  BY LenProperties
<1>3. /\ DOMAIN C = 1 .. (Len(tks2) + 1) /\ C[Len(tks2) + 1] = fresh
      /\ \A n \in DOMAIN tks2 : C[n] = tks2[n]
  BY <1>1, BoardsAre
<1>4. DOMAIN B = DOMAIN tks2
  BY <1>2, BoardsAre
<1>5. ASSUME NEW n \in DOMAIN B  PROVE  StolenIn(C[n], id, flag) = StolenIn(B[n], id, flag)
  <2>1. C[n] = tks2[n]
    BY <1>3, <1>4
  <2>2. CASE n \in DOMAIN tks
    BY <2>1, <2>2, BoardsAre
  <2>3. CASE n \notin DOMAIN tks
    <3>1. open # Nil /\ n = Len(tks) + 1
      <4>1. n \in 1 .. Len(tks2) /\ n \notin 1 .. Len(tks)
        BY <1>2, <1>4, <2>3
      <4>2. open # Nil
        BY <4>1
      <4> QED
        BY <1>2, <4>1, <4>2
    <3>2. open \in Board /\ B[n] = open
      BY <3>1, BoardsAre
    <3>3. StolenIn(summarizeState(<<open>>), id, flag) = StolenIn(open, id, flag)
      BY <3>2, SummaryOfFlag
    <3>4. tks2[n] = summarizeState(<<open>>)
      BY <3>1
    <3> QED
      BY <2>1, <3>2, <3>3, <3>4
  <2> QED
    BY <2>2, <2>3
<1> HIDE DEF B, C
<1>6. /\ DOMAIN f = DOMAIN B /\ DOMAIN g = DOMAIN C
      /\ \A i \in DOMAIN B : i \in DOMAIN C
      /\ \A i \in DOMAIN C : i \in DOMAIN B \/ i = Len(tks2) + 1
  <2>1. PICK m \in Nat : m = Len(tks2)
    BY <1>2
  <2>2. DOMAIN B = 1 .. m /\ DOMAIN C = 1 .. (m + 1)
    BY <1>2, <1>3, <1>4, <2>1, Zenon
  <2>3. \A i \in 1 .. (m + 1) : i \in 1 .. m \/ i = m + 1
    OBVIOUS
  <2>4. \A i \in 1 .. m : i \in 1 .. (m + 1)
    OBVIOUS
  <2>5. DOMAIN f = DOMAIN B /\ DOMAIN g = DOMAIN C
    BY Zenon
  <2> QED
    BY <2>1, <2>2, <2>3, <2>4, <2>5, Zenon
<1>7. /\ DOMAIN f \subseteq DOMAIN g /\ \A i \in DOMAIN f : g[i] = f[i]
      /\ \A i \in DOMAIN g \ DOMAIN f : g[i] = 0
  <2>1. ASSUME NEW i \in DOMAIN f  PROVE  i \in DOMAIN g /\ g[i] = f[i]
    <3>1. i \in DOMAIN B /\ i \in DOMAIN C
      BY <1>6, <2>1
    <3> QED
      BY <1>5, <3>1
  <2>2. ASSUME NEW i \in DOMAIN g \ DOMAIN f  PROVE  g[i] = 0
    <3> HIDE DEF f
    <3>1. i = Len(tks2) + 1 /\ i \in DOMAIN C
      BY <1>6, <2>2
    <3> QED
      BY <1>3, <3>1
  <2> HIDE DEF f, g
  <2> QED
    BY <2>1, <2>2
<1>8. Total(g) = Total(f)
  <2> HIDE DEF f, g
  <2> QED
    BY <1>7, TotalExtended
<1> QED
  BY <1>8 DEF CreditOf, B, C

\* A change of the open board that keeps what row id has stolen of flag keeps its credits.
LEMMA SameCredit ==
    ASSUME NEW tks \in Seq(Board), NEW open \in Board, NEW after \in Board, NEW id, NEW flag,
           StolenIn(after, id, flag) = StolenIn(open, id, flag)
    PROVE  CreditOf(tks, after, id, flag) = CreditOf(tks, open, id, flag)
<1> DEFINE B == BoardsOf(tks, open)
           C == BoardsOf(tks, after)
<1>1. open # Nil /\ after # Nil
  BY NilAssumption
<1>2. Len(tks) \in Nat /\ DOMAIN tks = 1 .. Len(tks)
  BY LenProperties
<1>3. /\ DOMAIN B = 1 .. (Len(tks) + 1) /\ B[Len(tks) + 1] = open
      /\ \A n \in DOMAIN tks : B[n] = tks[n]
  BY <1>1, BoardsAre
<1>4. /\ DOMAIN C = 1 .. (Len(tks) + 1) /\ C[Len(tks) + 1] = after
      /\ \A n \in DOMAIN tks : C[n] = tks[n]
  BY <1>1, BoardsAre
<1> HIDE DEF B, C
<1>5. \A n \in DOMAIN B : StolenIn(C[n], id, flag) = StolenIn(B[n], id, flag)
  BY <1>2, <1>3, <1>4
<1>6. [i \in DOMAIN C |-> StolenIn(C[i], id, flag)] = [i \in DOMAIN B |-> StolenIn(B[i], id, flag)]
  BY <1>3, <1>4, <1>5
<1> QED
  BY <1>6 DEF CreditOf, B, C

\* The first time row id steals flag its credit goes from none to one.
LEMMA FirstCredit ==
    ASSUME NEW tks \in Seq(Board), NEW open \in Board, NEW after \in Board, NEW id, NEW flag,
           \A n \in DOMAIN tks : StolenIn(tks[n], id, flag) = 0,
           StolenIn(open, id, flag) = 0, StolenIn(after, id, flag) = 1
    PROVE  CreditOf(tks, open, id, flag) = 0 /\ CreditOf(tks, after, id, flag) = 1
<1> DEFINE B == BoardsOf(tks, open)
           C == BoardsOf(tks, after)
           f == [i \in DOMAIN B |-> StolenIn(B[i], id, flag)]
           g == [i \in DOMAIN C |-> StolenIn(C[i], id, flag)]
<1>1. open # Nil /\ after # Nil
  BY NilAssumption
<1>2. Len(tks) \in Nat /\ DOMAIN tks = 1 .. Len(tks)
  BY LenProperties
<1>3. /\ DOMAIN B = 1 .. (Len(tks) + 1) /\ B[Len(tks) + 1] = open
      /\ \A n \in DOMAIN tks : B[n] = tks[n]
  BY <1>1, BoardsAre
<1>4. /\ DOMAIN C = 1 .. (Len(tks) + 1) /\ C[Len(tks) + 1] = after
      /\ \A n \in DOMAIN tks : C[n] = tks[n]
  BY <1>1, BoardsAre
<1> HIDE DEF B, C
<1>5. \A i \in DOMAIN f : f[i] = 0
  BY <1>2, <1>3
<1>6. Len(tks) + 1 \in DOMAIN g /\ g[Len(tks) + 1] = 1
  BY <1>2, <1>4
<1>7. \A i \in DOMAIN g \ {Len(tks) + 1} : g[i] = 0
  BY <1>2, <1>4
<1>8. Total(f) = 0 /\ Total(g) = 1
  <2> HIDE DEF f, g
  <2> QED
    BY <1>5, <1>6, <1>7, TotalOfZeros, TotalOfOne
<1> QED
  BY <1>8 DEF CreditOf, B, C

\* The ledger's credits before and after a step.
LEMMA CreditsAre ==
    /\ Credits = [id \in TeamIds |-> [flag \in Flag |-> CreditOf(ticks, currentState, id, flag)]]
    /\ Credits' = [id \in TeamIds |-> [flag \in Flag |-> CreditOf(ticks', currentState', id, flag)]]
<1>1. Boards = BoardsOf(ticks, currentState) /\ Boards' = BoardsOf(ticks', currentState')
  BY DEF Boards, BoardsOf
<1>2. Credits = [id \in TeamIds |-> [flag \in Flag |-> CreditOf(ticks, currentState, id, flag)]]
  BY <1>1, Zenon DEF Credits, CreditOf
<1>3. Credits' = [id \in TeamIds |-> [flag \in Flag |->
                     CreditOf(ticks', currentState', id, flag)]]
  <2>1. Credits' = [id \in TeamIds |-> [flag \in Flag |->
                       Total([i \in DOMAIN Boards' |-> StolenIn(Boards'[i], id, flag)])]]
    BY DEF Credits, Total, StolenIn, InfoOf
  <2> QED
    BY <1>1, <2>1, Zenon DEF CreditOf
<1> QED
  BY <1>2, <1>3

\* Steps that keep every credit keep the ledger's credits.
LEMMA CreditsKept ==
    ASSUME \A id \in TeamIds, flag \in Flag :
               CreditOf(ticks', currentState', id, flag) = CreditOf(ticks, currentState, id, flag)
    PROVE  Credits' = Credits
BY CreditsAre, Zenon

\* At the start nothing is planted and nothing credited.
LEMMA LedgerInit == Init => Ledger!Init
<1> SUFFICES ASSUME Init  PROVE  Ledger!Init
  OBVIOUS
<1>1. BoardsOf(ticks, currentState) = <<>>
  BY DEF Init, BoardsOf
<1>2. ASSUME NEW id \in TeamIds, NEW flag \in Flag
      PROVE  CreditOf(ticks, currentState, id, flag) = 0
  <2> DEFINE f == [i \in DOMAIN BoardsOf(ticks, currentState) |->
                      StolenIn(BoardsOf(ticks, currentState)[i], id, flag)]
  <2>1. DOMAIN f = {}
    BY <1>1
  <2>2. Total(f) = 0
    <3> HIDE DEF f
    <3> QED
      BY <2>1, TotalOfZeros
  <2> QED
    BY <2>2 DEF CreditOf
<1>3. Credits = [id \in TeamIds |-> [flag \in Flag |-> 0]]
  BY <1>2, CreditsAre, Zenon
<1> QED
  BY <1>3 DEF Ledger!Init, Init, Now

\* updateScoreboard moves the ledger to the tick of the new board, or, at the end of the
\* game, leaves it as it is.
LEMMA CloseIsAdvance ==
    ASSUME IInv, IInv', TickUpdate \/ FinalUpdate
    PROVE  Ledger!Advance \/ UNCHANGED <<Now, issued, Credits>>
<1>1. /\ pc \in {"advance", "final"} /\ updateScoreboard /\ issued' = issued
  BY DEF TickUpdate, FinalUpdate
<1>2. /\ currentState' = FreshBoard(currentTick) /\ currentTick \in Nat
      /\ currentState' # Nil /\ currentState'.tick = currentTick
      /\ \A n \in DOMAIN ticks : ticks'[n] = ticks[n]
      /\ currentState = Nil => ticks' = ticks
      /\ currentState # Nil => /\ Len(ticks') = Len(ticks) + 1
                               /\ ticks'[Len(ticks) + 1] = summarizeState(<<currentState>>)
  BY <1>1, UpdateShape
<1>3. /\ ticks \in Seq(Board) /\ ticks' \in Seq(Board)
      /\ currentState \in Board \cup {Nil} /\ currentState' \in Board
  BY <1>2 DEF IInv, TypeOK
<1>4. ASSUME NEW id \in TeamIds, NEW flag \in Flag
      PROVE  CreditOf(ticks', currentState', id, flag) = CreditOf(ticks, currentState, id, flag)
  <2>1. flag.service \in Services /\ InfoOf(flag) \in FlagInfo
    BY FlagParts
  <2>2. StolenIn(currentState', id, flag) = 0
    BY <1>2, <2>1, FreshRow DEF StolenIn
  <2> QED
    BY <1>2, <1>3, <2>2, CloseCredit
<1>5. Credits' = Credits
  BY <1>4, CreditsKept
<1>6. Now' = currentTick
  BY <1>2 DEF Now
<1>7. Now = currentTick - (IF pc = "advance" THEN 1 ELSE 0)
  <2>1. CASE currentState = Nil
    BY <1>1, <2>1 DEF Now, IInv, InStep
  <2>2. CASE currentState # Nil
    BY <1>1, <2>2 DEF Now, IInv, InStep
  <2> QED
    BY <2>1, <2>2
<1> QED
  BY <1>1, <1>2, <1>5, <1>6, <1>7 DEF Ledger!Advance

\* An accepted submission is one credit of a planted flag, in time and not before given.
LEMMA AcceptIsCredit ==
    ASSUME IInv, NEW c \in Conns, NEW text \in Texts, SubmitAccepted(c, text)
    PROVE  Ledger!Credit(Submitter[c], text.fields)
<1> DEFINE id == Submitter[c]
           flag == text.fields
<1>1. /\ id \in TeamIds /\ flag \in Flag /\ flag \in issued
      /\ currentState \in Board /\ currentState # Nil
      /\ currentState' \in Board /\ currentState' # Nil
      /\ currentState'.tick = currentState.tick
      /\ flag.team # id /\ ~ Expired(flag)
      /\ UNCHANGED <<issued, ticks>>
  BY AcceptedShape
<1>2. /\ StolenIn(currentState, id, flag) = 0
      /\ \A n \in DOMAIN ticks : StolenIn(ticks[n], id, flag) = 0
  BY AcceptedShape
<1>3. \A i \in TeamIds, g \in Flag :
          StolenIn(currentState', i, g) =
             StolenIn(currentState, i, g) + (IF i = id /\ g = flag THEN 1 ELSE 0)
  BY AcceptedShape
<1> HIDE DEF id, flag
<1>4. ticks \in Seq(Board)
  BY DEF IInv, TypeOK
<1>5. CreditOf(ticks, currentState, id, flag) = 0 /\ CreditOf(ticks', currentState', id, flag) = 1
  <2>1. StolenIn(currentState', id, flag) = 1
    BY <1>1, <1>2, <1>3
  <2> QED
    BY <1>1, <1>2, <1>4, <2>1, FirstCredit
<1>6. ASSUME NEW i \in TeamIds, NEW g \in Flag, ~ (i = id /\ g = flag)
      PROVE  CreditOf(ticks', currentState', i, g) = CreditOf(ticks, currentState, i, g)
  <2>1. g.service \in Services /\ InfoOf(g) \in FlagInfo
    BY FlagParts
  <2>2. StolenIn(currentState, i, g) \in Nat
    BY <1>1, <2>1 DEF StolenIn, Board, ServiceState
  <2>3. StolenIn(currentState', i, g) = StolenIn(currentState, i, g)
    BY <1>3, <1>6, <2>2
  <2> QED
    BY <1>1, <1>4, <2>3, SameCredit
<1>7. Credits[id][flag] = 0
  BY <1>1, <1>5, CreditsAre
<1>8. Credits' = [Credits EXCEPT ![id][flag] = 1]
  <2>1. ASSUME NEW i \in TeamIds, NEW g \in Flag
        PROVE  CreditOf(ticks', currentState', i, g) =
                  IF i = id /\ g = flag THEN 1 ELSE CreditOf(ticks, currentState, i, g)
    BY <1>5, <1>6
  <2>2. PICK F : F = Credits
    OBVIOUS
  <2>3. PICK G : G = Credits'
    OBVIOUS
  <2>4. /\ F = [i \in TeamIds |-> [g \in Flag |-> F[i][g]]]
        /\ G = [i \in TeamIds |-> [g \in Flag |-> G[i][g]]]
    BY <2>2, <2>3, CreditsAre
  <2>5. \A i \in TeamIds, g \in Flag : G[i][g] = IF i = id /\ g = flag THEN 1 ELSE F[i][g]
    BY <2>1, <2>2, <2>3, CreditsAre
  <2>6. G = [F EXCEPT ![id][flag] = 1]
    BY <1>1, <2>4, <2>5
  <2> QED
    BY <2>2, <2>3, <2>6
<1>9. currentState.tick \in Nat /\ flag.tick \in Nat /\ FlagValidTicks \in Nat
  BY <1>1, CountsAssumption DEF Board, Flag
<1>10. Now <= flag.tick + FlagValidTicks /\ Now' = Now
  BY <1>1, <1>9 DEF Now, Expired
<1> QED
  BY <1>1, <1>7, <1>8, <1>10 DEF Ledger!Credit, id, flag

\* Every step of the game is a step of the ledger, or changes nothing in it.
LEMMA LedgerNext == IInv /\ IInv' /\ [Next]_vars => [Ledger!Next]_<<Now, issued, Credits>>
<1> SUFFICES ASSUME IInv, IInv', [Next]_vars
             PROVE  Ledger!Next \/ UNCHANGED <<Now, issued, Credits>>
  OBVIOUS
<1> USE DEF boardVars, loopVars
<1>1. ASSUME UNCHANGED <<currentState, ticks>>  PROVE  Now' = Now /\ Credits' = Credits
  <2>1. Now' = Now
    BY <1>1 DEF Now
  <2>2. Credits' = Credits
    BY <1>1, CreditsAre, Zenon
  <2> QED
    BY <2>1, <2>2
<1>2. CASE TickUpdate \/ FinalUpdate
  <2>1. Ledger!Advance \/ UNCHANGED <<Now, issued, Credits>>
    BY <1>2, CloseIsAdvance
  <2> QED
    BY <2>1 DEF Ledger!Next
<1>3. ASSUME NEW c \in Conns, NEW text \in Texts, SubmitAccepted(c, text)
      PROVE  Ledger!Next
  <2>1. Submitter[c] \in TeamIds /\ text.fields \in Flag
    BY <1>3, AcceptedShape
  <2>2. Ledger!Credit(Submitter[c], text.fields)
    BY <1>3, AcceptIsCredit
  <2> QED
    BY <2>1, <2>2 DEF Ledger!Next
<1>4. ASSUME NEW k \in CheckIds, CheckPlant(k)  PROVE  Ledger!Next
  <2> DEFINE new == [tick |-> currentTick, team |-> k[1], service |-> k[2]]
  <2>1. issued' = issued \cup {new} /\ pc = "checks" /\ UNCHANGED <<currentState, ticks>>
    BY <1>4 DEF CheckPlant
  <2>2. new \in Flag
    BY <2>1 DEF IInv, TypeOK
  <2>3. new.tick = Now
    <3>1. currentTick \in Nat
      BY CountsAssumption DEF IInv, TypeOK
    <3>2. currentState # Nil /\ currentState.tick = currentTick
      BY <2>1, <3>1 DEF IInv, InStep
    <3> QED
      BY <3>2 DEF Now
  <2> HIDE DEF new
  <2>4. Ledger!Plant(new)
    BY <1>1, <2>1, <2>3 DEF Ledger!Plant
  <2> QED
    BY <2>2, <2>4 DEF Ledger!Next
<1>5. ASSUME NEW k \in CheckIds, CheckSucceeds(k) \/ CheckFails(k)
      PROVE  UNCHANGED <<Now, issued, Credits>>
  <2>1. /\ pc = "checks" /\ issued' = issued /\ ticks' = ticks
        /\ Counted(currentState, k, currentState')
    BY <1>5 DEF CheckSucceeds, CheckFails, Counted
  <2>2. currentState # Nil /\ currentState \in Board
    BY <2>1 DEF IInv, InStep, TypeOK
  <2>3. /\ currentState' \in Board /\ currentState'.tick = currentState.tick
        /\ \A i \in TeamIds, s \in Services :
              currentState'.teams[i][s].stolen = currentState.teams[i][s].stolen
    BY <2>1, <2>2, CheckedType
  <2>4. ASSUME NEW id \in TeamIds, NEW flag \in Flag
        PROVE  CreditOf(ticks', currentState', id, flag) = CreditOf(ticks, currentState, id, flag)
    <3>1. flag.service \in Services
      BY DEF Flag
    <3>2. StolenIn(currentState', id, flag) = StolenIn(currentState, id, flag)
      BY <2>3, <3>1 DEF StolenIn
    <3>3. ticks \in Seq(Board)
      BY DEF IInv, TypeOK
    <3> QED
      BY <2>1, <2>2, <2>3, <3>2, <3>3, SameCredit
  <2>5. Credits' = Credits
    BY <2>4, CreditsKept
  <2>6. Now' = Now
    BY <2>2, <2>3, NilAssumption DEF Now
  <2> QED
    BY <2>1, <2>5, <2>6
<1>6. ASSUME UNCHANGED <<currentState, ticks, issued>>  PROVE  UNCHANGED <<Now, issued, Credits>>
  BY <1>1, <1>6
<1>7. ASSUME Start \/ TickBegin \/ TickEnd \/ EndTimer \/ Stop
      PROVE  UNCHANGED <<Now, issued, Credits>>
  BY <1>6, <1>7 DEF Start, TickBegin, TickEnd, EndTimer, Stop
<1>8. ASSUME NEW c \in Conns, SubmitArrive(c)  PROVE  UNCHANGED <<Now, issued, Credits>>
  BY <1>6, <1>8 DEF SubmitArrive
<1>9. ASSUME NEW c \in Conns, NEW text \in Texts, SubmitRejected(c, text) \/ SubmitPanics(c, text)
      PROVE  UNCHANGED <<Now, issued, Credits>>
  BY <1>6, <1>9 DEF SubmitRejected, SubmitPanics
<1>10. ASSUME UNCHANGED vars  PROVE  UNCHANGED <<Now, issued, Credits>>
  BY <1>6, <1>10 DEF vars
<1> QED
  BY <1>2, <1>3, <1>4, <1>5, <1>7, <1>8, <1>9, <1>10 DEF Next, CheckStep, SubmitLocked

\* The scoreboard implements the ledger, whatever the number of teams, services, ticks and
\* connections: no credit is given twice, early, late or to the flag's own team, and the
\* closing of a tick neither loses nor repeats one.
THEOREM ScoreboardKeepsLedger == Spec => LedgerSpec
<1>1. Spec => Init /\ [][Next]_vars
  BY DEF Spec
<1>2. IInv /\ IInv' /\ [Next]_vars => [Ledger!Next]_<<Now, issued, Credits>>
  BY LedgerNext
<1> QED
  BY <1>1, <1>2, LedgerInit, Invariance, PTL DEF LedgerSpec, Ledger!Spec
=============================================================================
