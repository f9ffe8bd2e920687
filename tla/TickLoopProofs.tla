--------------------------- MODULE TickLoopProofs ---------------------------
(***************************************************************************)
(* Proofs about module TickLoop, for every tick rate, duration, timeout,   *)
(* timeline and wait for readers: a tick never starts early, every event of*)
(* a tick the game has had is run once, a game loses at most one tick for  *)
(* every whole tick rate by which its ticks were too long, and, while no   *)
(* read is long, fewer than one for every two ticks with foreground events.*)
(***************************************************************************)
EXTENDS TickLoop, FiniteSetTheorems, TLAPS

-----------------------------------------------------------------------------
(* Division and multiples *)

\* The quotient of naturals, and that it is the only one.
LEMMA DivIs ==
    ASSUME NEW a \in Nat, NEW b \in Nat, b > 0
    PROVE  /\ a \div b \in Nat
           /\ b * (a \div b) <= a /\ a < b * (a \div b) + b
           /\ b * (a \div b) \in Nat
<1>1. a \div b \in Nat
  OBVIOUS
<1>2. b * (a \div b) <= a
  OBVIOUS
<1>3. a < b * (a \div b) + b
  OBVIOUS
<1>4. b * (a \div b) \in Nat
  BY <1>1
<1> QED
  BY <1>1, <1>2, <1>3, <1>4

\* The quotient is the only number whose multiple is within one divisor below.
LEMMA DivUnique ==
    ASSUME NEW a \in Nat, NEW b \in Nat, b > 0, NEW q \in Nat, b * q <= a, a < b * q + b
    PROVE  a \div b = q
OBVIOUS

\* The next multiple, and that multiples grow.
LEMMA Multiples ==
    ASSUME NEW a \in Nat, NEW c \in Nat, NEW b \in Nat
    PROVE  /\ b * a \in Nat
           /\ b * (a + 1) = b * a + b
           /\ a <= c => b * a <= b * c
<1>1. b * a \in Nat
  OBVIOUS
<1>2. b * (a + 1) = b * a + b
  OBVIOUS
<1>3. a <= c => b * a <= b * c
  OBVIOUS
<1> QED
  BY <1>1, <1>2, <1>3

\* The constants of the game.
LEMMA Constants ==
    /\ TickRate \in Nat /\ TickRate >= 2 /\ TickRate > 0
    /\ TotalTicks \in Nat
    /\ TickRate * TotalTicks \in Nat /\ TickRate * TotalTicks <= Duration
    /\ Duration \in Nat /\ EndTime \in Nat /\ EndTime = Duration + TickRate
    /\ \A e \in Events : TickOf(e) \in Nat
<1>1. TickRate \in Nat /\ TickRate >= 2 /\ TickRate > 0 /\ Duration \in Nat
  BY ClockAssumption
<1>2. /\ TotalTicks \in Nat
      /\ TickRate * TotalTicks \in Nat /\ TickRate * TotalTicks <= Duration
  BY <1>1, DivIs DEF TotalTicks
<1>3. EndTime \in Nat /\ EndTime = Duration + TickRate
  BY <1>1 DEF EndTime
<1>4. ASSUME NEW e \in Events  PROVE  TickOf(e) \in Nat
  <2>1. At[e] \in Nat
    BY ClockAssumption
  <2> QED
    BY <1>1, <2>1, DivIs DEF TickOf
<1> QED
  BY <1>1, <1>2, <1>3, <1>4

-----------------------------------------------------------------------------
(* How long a tick takes *)

Spare == TickRate \div 2 - 1

\* A tick takes as long as the wait for scoreboardMtx or as the tick rate, whichever is
\* longer, and less than half a tick rate more: the random sleep of its checks. Without a
\* foreground event and with a short wait it takes one tick rate.
LEMMA BodyBound ==
    ASSUME NEW tick, NEW len \in BodyLengths(tick)
    PROVE  /\ len \in Nat /\ Spare \in Nat /\ 2 * Spare <= TickRate - 2
           /\ LongestRead <= TickRate => len <= TickRate + Spare
           /\ /\ \A e \in Foreground : TickOf(e) # tick
              /\ LongestRead + Spare <= TickRate
              => len <= TickRate
<1> DEFINE eventTimes == IF \E e \in Foreground : TickOf(e) = tick THEN 0 .. TickRate ELSE {0}
           sleeps == 0 .. (TickRate \div 2 - 1)
<1>1. TickRate \in Nat /\ TickRate >= 2 /\ LongestRead \in Nat
  BY Constants, ClockAssumption
<1>2. Spare \in Nat /\ 2 * Spare <= TickRate - 2
  BY <1>1 DEF Spare
<1>3. PICK x \in (0 .. LongestRead) \X eventTimes \X sleeps \X (0 .. CheckTimeout) :
          /\ x[2] > 0 => x[1] + x[2] <= TickRate
          /\ x[4] > 0 => x[1] + x[2] + x[3] + x[4] <= TickRate
          /\ len = x[1] + x[2] + x[3] + x[4]
  BY DEF BodyLengths
<1>4. /\ x[1] \in 0 .. LongestRead /\ x[2] \in eventTimes
      /\ x[3] \in 0 .. Spare /\ x[4] \in 0 .. CheckTimeout
  BY <1>3 DEF Spare
<1>5. x[2] \in Nat /\ x[2] <= TickRate
  BY <1>1, <1>4
<1>6. (\A e \in Foreground : TickOf(e) # tick) => x[2] = 0
  BY <1>4
<1>7. /\ x[1] \in Nat /\ x[1] <= LongestRead
      /\ x[3] \in Nat /\ x[3] <= Spare /\ x[4] \in Nat
  BY <1>1, <1>2, <1>4, ClockAssumption
<1> HIDE DEF eventTimes, sleeps
<1> QED
  BY <1>1, <1>2, <1>3, <1>5, <1>6, <1>7

\* The excess of a tick is what it takes beyond one tick rate.
LEMMA ExcessIs ==
    ASSUME NEW len \in Nat
    PROVE  /\ Excess(len) \in Nat
           /\ len <= TickRate + Excess(len)
           /\ len <= TickRate => Excess(len) = 0
           /\ \A n \in Nat : len <= TickRate + n => Excess(len) <= n
BY Constants DEF Excess

-----------------------------------------------------------------------------
(* The inductive invariant: the ticker fires at the multiples of TickRate,  *)
(* every tick started and the one in the channel have fired, and the events *)
(* that have been run are those of the ticks started.                       *)

Pending == IF tickC THEN 1 ELSE 0

Ticker == nextFire = TickRate * (now \div TickRate) + TickRate

Fired == currentTick + Pending <= now \div TickRate

RanSoFar ==
    \A e \in Events : ran[e] = IF TickOf(e) \in 1 .. currentTick THEN 1 ELSE 0

IInv == TypeOK /\ Ticker /\ Fired /\ RanSoFar

\* When a unit of time passes the ticker fires exactly if a multiple is reached.
LEMMA ElapseFires ==
    ASSUME TypeOK, Ticker, Elapse
    PROVE  /\ now \div TickRate \in Nat /\ Ticker'
           /\ now' = nextFire => now' \div TickRate = now \div TickRate + 1
           /\ now' # nextFire => now' \div TickRate = now \div TickRate
           /\ now' = now + 1 /\ now \in Nat
           /\ now < TickRate * (now \div TickRate) + TickRate
<1> DEFINE q == now \div TickRate
           base == TickRate * q
<1>1. TickRate \in Nat /\ TickRate > 0 /\ now \in Nat /\ now' = now + 1
  BY Constants DEF TypeOK, Elapse
<1>2. q \in Nat /\ base \in Nat /\ base <= now /\ now < base + TickRate
  BY <1>1, DivIs
<1>3. nextFire = base + TickRate
  BY DEF Ticker
<1>4. nextFire' = IF now' = nextFire THEN nextFire + TickRate ELSE nextFire
  BY DEF Elapse
<1>5. TickRate * (q + 1) = base + TickRate
  BY <1>1, <1>2, Multiples
<1> HIDE DEF q, base
<1>6. CASE now' = nextFire
  <2>1. now' \div TickRate = q + 1
    BY <1>1, <1>2, <1>3, <1>5, <1>6, DivUnique
  <2>2. Ticker'
    BY <1>3, <1>4, <1>5, <1>6, <2>1 DEF Ticker
  <2> QED
    BY <1>1, <1>2, <1>6, <2>1, <2>2 DEF q, base
<1>7. CASE now' # nextFire
  <2>1. now' \div TickRate = q
    <3>1. base <= now' /\ now' < base + TickRate
      BY <1>1, <1>2, <1>3, <1>7
    <3> QED
      BY <1>1, <1>2, <3>1, DivUnique DEF base
  <2>2. Ticker'
    BY <1>3, <1>4, <1>7, <2>1 DEF Ticker, base
  <2> QED
    BY <1>1, <1>2, <1>7, <2>1, <2>2 DEF q, base
<1> QED
  BY <1>6, <1>7

\* The loop begins with the ticker's first multiple ahead.
LEMMA InitIInv == Init => IInv
<1> SUFFICES ASSUME Init  PROVE  IInv
  OBVIOUS
<1>1. TickRate \in Nat /\ TickRate > 0 /\ TotalTicks \in Nat /\ Horizon \in Nat
  BY Constants, ClockAssumption
<1>2. 0 \div TickRate = 0
  BY <1>1, DivUnique
<1>3. TypeOK
  <2>1. ran \in [Events -> Nat]
    BY DEF Init
  <2>2. now \in 0 .. Horizon /\ currentTick \in 0 .. TotalTicks /\ nextFire \in Nat
        /\ busyUntil \in Nat /\ overrun \in Nat
    BY <1>1 DEF Init
  <2>3. tickC \in BOOLEAN /\ endC \in BOOLEAN /\ pc \in {"select", "tick", "done"}
    BY Zenon DEF Init
  <2> QED
    BY <2>1, <2>2, <2>3, Zenon DEF TypeOK
<1>4. Ticker
  BY <1>1, <1>2 DEF Init, Ticker
<1>5. Fired
  BY <1>2 DEF Init, Fired, Pending
<1>6. RanSoFar
  BY DEF Init, RanSoFar
<1> QED
  BY <1>3, <1>4, <1>5, <1>6 DEF IInv

\* Every step of the loop and of the clock keeps it.
LEMMA NextIInv == IInv /\ [Next]_vars => IInv'
<1> SUFFICES ASSUME IInv, [Next]_vars  PROVE  IInv'
  OBVIOUS
<1>1. /\ TickRate \in Nat /\ TickRate > 0 /\ TotalTicks \in Nat
      /\ now \in Nat /\ currentTick \in Nat /\ Horizon \in Nat
      /\ now \div TickRate \in Nat
  BY Constants, ClockAssumption, DivIs DEF IInv, TypeOK
<1>2. CASE Elapse
  <2>1. /\ Ticker' /\ now' = now + 1 /\ UNCHANGED <<pc, busyUntil, currentTick, ran, overrun>>
        /\ now' = nextFire => now' \div TickRate = now \div TickRate + 1
        /\ now' # nextFire => now' \div TickRate = now \div TickRate
    BY <1>2, ElapseFires DEF IInv, Elapse
  <2>2. tickC' = (tickC \/ now' = nextFire)
    BY <1>2 DEF Elapse
  <2>3. TypeOK'
    <3>1. now' \in 0 .. Horizon /\ nextFire' \in Nat
      BY <1>1, <1>2 DEF Elapse, IInv, TypeOK
    <3>2. tickC' \in BOOLEAN /\ endC' \in BOOLEAN
      BY <1>2, Zenon DEF Elapse
    <3> QED
      BY <2>1, <3>1, <3>2, Zenon DEF IInv, TypeOK
  <2>4. Fired'
    <3>1. CASE now' = nextFire
      BY <1>1, <2>1, <2>2, <3>1 DEF IInv, Fired, Pending
    <3>2. CASE now' # nextFire
      BY <1>1, <2>1, <2>2, <3>2 DEF IInv, Fired, Pending
    <3> QED
      BY <3>1, <3>2
  <2>5. RanSoFar'
    BY <2>1 DEF IInv, RanSoFar
  <2> QED
    BY <2>1, <2>3, <2>4, <2>5 DEF IInv
<1>3. CASE TickStarts
  <2>1. /\ tickC /\ ~ tickC' /\ currentTick < TotalTicks /\ currentTick' = currentTick + 1
        /\ ran' = [e \in Events |-> IF TickOf(e) = currentTick' THEN ran[e] + 1 ELSE ran[e]]
        /\ pc' = "tick" /\ UNCHANGED <<now, nextFire, endC>>
    BY <1>3 DEF TickStarts
  <2>2. PICK len \in BodyLengths(currentTick') :
            busyUntil' = now + len /\ overrun' = overrun + Excess(len)
    BY <1>3 DEF TickStarts
  <2>3. busyUntil' \in Nat /\ overrun' \in Nat
    <3>1. len \in Nat /\ Excess(len) \in Nat /\ overrun \in Nat
      BY <2>2, BodyBound, ExcessIs DEF IInv, TypeOK
    <3> QED
      BY <1>1, <2>2, <3>1
  <2>4. ran' \in [Events -> Nat]
    BY <2>1 DEF IInv, TypeOK
  <2>5. currentTick' \in 0 .. TotalTicks
    BY <1>1, <2>1
  <2>6. tickC' \in BOOLEAN
    BY <1>3, Zenon DEF TickStarts
  <2>7. TypeOK'
    BY <2>1, <2>3, <2>4, <2>5, <2>6, Zenon DEF IInv, TypeOK
  <2>8. Fired'
    BY <1>1, <2>1 DEF IInv, Fired, Pending
  <2>9. RanSoFar'
    <3> SUFFICES ASSUME NEW e \in Events
                 PROVE  ran'[e] = IF TickOf(e) \in 1 .. currentTick' THEN 1 ELSE 0
      BY DEF RanSoFar
    <3>1. TickOf(e) \in Nat
      BY Constants
    <3>2. ran[e] = IF TickOf(e) \in 1 .. currentTick THEN 1 ELSE 0
      BY DEF IInv, RanSoFar
    <3>3. ran'[e] = IF TickOf(e) = currentTick + 1 THEN ran[e] + 1 ELSE ran[e]
      BY <2>1
    <3> QED
      BY <1>1, <2>1, <3>1, <3>2, <3>3
  <2>10. Ticker'
    BY <2>1 DEF IInv, Ticker
  <2> QED
    BY <2>7, <2>8, <2>9, <2>10 DEF IInv
<1>4. CASE TickPastEnd
  <2>1. /\ ~ tickC' /\ UNCHANGED <<now, nextFire, endC, pc, busyUntil, currentTick, ran, overrun>>
    BY <1>4 DEF TickPastEnd
  <2>2. tickC' \in BOOLEAN
    BY <1>4, Zenon DEF TickPastEnd
  <2>3. TypeOK'
    BY <2>1, <2>2, Zenon DEF IInv, TypeOK
  <2>4. Fired'
    BY <1>1, <2>1 DEF IInv, Fired, Pending
  <2> QED
    BY <2>1, <2>3, <2>4 DEF IInv, Ticker, RanSoFar
<1>5. ASSUME UNCHANGED <<now, nextFire, tickC, busyUntil, currentTick, ran, overrun>>,
             pc' \in {"select", "tick", "done"}, endC' \in BOOLEAN
      PROVE  IInv'
  <2>1. TypeOK'
    BY <1>5, Zenon DEF IInv, TypeOK
  <2> QED
    BY <1>5, <2>1 DEF IInv, Ticker, Fired, Pending, RanSoFar
<1>6. CASE TickReturns
  <2>1. endC' \in BOOLEAN
    BY <1>6, Zenon DEF TickReturns, IInv, TypeOK
  <2> QED
    BY <1>5, <1>6, <2>1 DEF TickReturns
<1>7. CASE GameOver
  <2>1. endC' \in BOOLEAN
    BY <1>7, Zenon DEF GameOver
  <2> QED
    BY <1>5, <1>7, <2>1 DEF GameOver
<1>8. CASE UNCHANGED vars
  <2>1. endC' \in BOOLEAN
    BY <1>8, Zenon DEF vars, IInv, TypeOK
  <2>2. pc' \in {"select", "tick", "done"}
    BY <1>8 DEF vars, IInv, TypeOK
  <2> QED
    BY <1>5, <1>8, <2>1, <2>2 DEF vars
<1> QED
  BY <1>2, <1>3, <1>4, <1>6, <1>7, <1>8 DEF Next

\* It holds throughout the game.
LEMMA Invariance == Spec => []IInv
BY InitIInv, NextIInv, PTL DEF Spec

-----------------------------------------------------------------------------
\* The clock, the two channels and the tick counter have their types, and the counter
\* never passes TotalTicks.
THEOREM TypeCorrect == Spec => []TypeOK
<1>1. IInv => TypeOK
  BY DEF IInv
<1> QED
  BY <1>1, Invariance, PTL

\* For every timeline, and however late the loop is: the events that Tick has run are
\* those of the ticks so far, each of them once. (A tick that is lost at the end of the
\* game takes its events with it.)
THEOREM EventsFollowTicks == Spec => []RanSoFar
<1>1. IInv => RanSoFar
  BY DEF IInv
<1> QED
  BY <1>1, Invariance, PTL

\* Every event due in a tick the game has had is run exactly once, for every timeline and
\* however late the loop is.
THEOREM EventsRunOnce == Spec => []DueEventsRunOnce
<1>1. IInv => DueEventsRunOnce
  <2> SUFFICES ASSUME IInv, NEW e \in Events,
                      At[e] \in TickRate .. (currentTick * TickRate)
               PROVE  ran[e] = 1
    BY DEF DueEventsRunOnce
  <2>1. currentTick \in Nat
    BY Constants DEF IInv, TypeOK
  <2>2. /\ TickRate \in Nat /\ TickRate > 0 /\ At[e] \in Nat
        /\ TickRate <= At[e] /\ At[e] <= TickRate * currentTick
    BY <2>1, Constants, ClockAssumption
  <2>3. /\ TickOf(e) \in Nat
        /\ TickRate * TickOf(e) <= At[e] /\ At[e] < TickRate * TickOf(e) + TickRate
    BY <2>2, DivIs DEF TickOf
  <2>4. TickOf(e) # 0
    <3> SUFFICES ASSUME TickOf(e) = 0  PROVE  FALSE
      OBVIOUS
    <3>1. TickRate * TickOf(e) = 0
      BY <2>2
    <3> QED
      BY <2>2, <2>3, <3>1
  <2>5. TickOf(e) <= currentTick
    <3> SUFFICES ASSUME ~ (TickOf(e) <= currentTick)  PROVE  FALSE
      OBVIOUS
    <3>1. currentTick + 1 \in Nat /\ currentTick + 1 <= TickOf(e)
      BY <2>1, <2>3
    <3>2. TickRate * (currentTick + 1) <= TickRate * TickOf(e)
      BY <2>2, <2>3, <3>1, Multiples
    <3>3. /\ TickRate * (currentTick + 1) = TickRate * currentTick + TickRate
          /\ TickRate * currentTick \in Nat
      BY <2>1, <2>2, Multiples
    <3>4. TickRate * TickOf(e) \in Nat
      BY <2>2, <2>3, Multiples
    <3> QED
      BY <2>2, <2>3, <3>2, <3>3, <3>4
  <2>6. TickOf(e) \in 1 .. currentTick
    BY <2>1, <2>3, <2>4, <2>5
  <2> QED
    BY <2>6 DEF IInv, RanSoFar
<1> QED
  BY <1>1, Invariance, PTL

\* A tick never starts before its time, whatever the ticks before it took.
THEOREM TicksAreNeverEarly == Spec => []NeverAhead
<1>1. IInv => NeverAhead
  <2> SUFFICES ASSUME IInv  PROVE  NeverAhead
    OBVIOUS
  <2>1. currentTick \in Nat /\ now \div TickRate \in Nat
    BY Constants, ClockAssumption, DivIs DEF IInv, TypeOK
  <2> QED
    BY <2>1 DEF IInv, Fired, Pending, NeverAhead
<1> QED
  BY <1>1, Invariance, PTL

-----------------------------------------------------------------------------
(***************************************************************************)
(* How late the game can be. The loop gets later only by the excess of its *)
(* ticks, and a tick that the ticker drops, because its channel still holds*)
(* one, takes a whole tick rate off what is left of it. So the ticks that  *)
(* were dropped and the lateness together are paid for by the excess so far*)
(* (OnTime). While no read is long, only ticks with a foreground event are *)
(* too long, each by less than half a tick rate (OverrunBound): two of     *)
(* them do not add up to a single tick.                                    *)
(***************************************************************************)

\* The ticks of the game that have a foreground event.
SlowTicks == {TickOf(e) : e \in Foreground} \cap (1 .. TotalTicks)

\* The most by which ticks 1 to n can be too long while no read is long.
Slack(n) == Spare * Cardinality(SlowTicks \cap (1 .. n))

\* No request keeps Tick waiting for longer than about half a tick.
ShortReads == LongestRead + Spare <= TickRate

AtMostTwoSlow == Cardinality(SlowTicks) <= 2

\* The game has lost fewer than one tick for every two with foreground events.
LosesFew ==
    pc = "done" /\ currentTick # TotalTicks =>
        2 * (TotalTicks - currentTick) < Cardinality(SlowTicks)

\* The game has had all of its ticks when Start leaves its loop.
ExactTicks == pc = "done" => currentTick = TotalTicks

\* When the next tick is due at the latest.
DueBy == TickRate * (currentTick + 1) + overrun

\* The ticks that have fired and were neither taken nor are in the channel.
Dropped == now \div TickRate - currentTick - Pending

OnTime ==
    currentTick < TotalTicks =>
        /\ TickRate * Dropped <= overrun
        /\ now <= DueBy
        /\ pc = "tick" => now <= busyUntil /\ busyUntil <= DueBy
        /\ endC \/ pc = "done" => EndTime <= now

OverrunBound == overrun <= Slack(currentTick)

\* The slow ticks so far are finitely many, and one more with each slow tick.
LEMMA SlowCount ==
    ASSUME NEW n \in Nat
    PROVE  /\ IsFiniteSet(SlowTicks) /\ Cardinality(SlowTicks) \in Nat
           /\ Cardinality(SlowTicks \cap (1 .. n)) \in Nat
           /\ Cardinality(SlowTicks \cap (1 .. n)) <= Cardinality(SlowTicks)
           /\ Cardinality(SlowTicks \cap (1 .. (n + 1)))
                 = Cardinality(SlowTicks \cap (1 .. n)) + (IF n + 1 \in SlowTicks THEN 1 ELSE 0)
<1>1. IsFiniteSet(1 .. TotalTicks)
  BY Constants, FS_Interval
<1>2. IsFiniteSet(SlowTicks)
  BY <1>1, FS_Subset DEF SlowTicks
<1>3. Cardinality(SlowTicks) \in Nat
  BY <1>2, FS_CardinalityType
<1> DEFINE before == SlowTicks \cap (1 .. n)
<1>4. before \subseteq SlowTicks
  OBVIOUS
<1>5. IsFiniteSet(before) /\ Cardinality(before) <= Cardinality(SlowTicks)
  BY <1>2, <1>4, FS_Subset
<1>6. Cardinality(before) \in Nat
  BY <1>5, FS_CardinalityType
<1>7. CASE n + 1 \in SlowTicks
  <2>1. SlowTicks \cap (1 .. (n + 1)) = before \cup {n + 1} /\ n + 1 \notin before
    BY <1>7
  <2> HIDE DEF before
  <2>2. Cardinality(before \cup {n + 1}) = Cardinality(before) + 1
    BY <1>5, <2>1, FS_AddElement
  <2> QED
    BY <1>2, <1>3, <1>5, <1>6, <1>7, <2>1, <2>2 DEF before
<1>8. CASE n + 1 \notin SlowTicks
  <2>1. SlowTicks \cap (1 .. (n + 1)) = before
    BY <1>8
  <2> QED
    BY <1>2, <1>3, <1>5, <1>6, <1>8, <2>1
<1> QED
  BY <1>7, <1>8

\* The slack grows by the spare time in a slow tick and stays in the others.
LEMMA SlackGrows ==
    ASSUME NEW n \in Nat
    PROVE  /\ Spare \in Nat /\ 2 * Spare <= TickRate - 2
           /\ Slack(n) \in Nat /\ Slack(n + 1) \in Nat
           /\ Slack(n + 1) = Slack(n) + (IF n + 1 \in SlowTicks THEN Spare ELSE 0)
           /\ Slack(n) <= Spare * Cardinality(SlowTicks)
           /\ Spare * Cardinality(SlowTicks) \in Nat
<1> DEFINE k == Cardinality(SlowTicks \cap (1 .. n))
           all == Cardinality(SlowTicks)
<1>1. Spare \in Nat /\ 2 * Spare <= TickRate - 2
  BY Constants DEF Spare
<1>2. k \in Nat /\ all \in Nat /\ k <= all
  BY SlowCount
<1>3. Slack(n) = Spare * k
  BY DEF Slack
<1>4. Slack(n + 1) = Spare * (k + (IF n + 1 \in SlowTicks THEN 1 ELSE 0))
  BY SlowCount DEF Slack
<1> HIDE DEF k, all
<1>5. /\ Spare * k \in Nat /\ Spare * all \in Nat /\ Spare * (k + 1) = Spare * k + Spare
      /\ Spare * k <= Spare * all
  BY <1>1, <1>2, Multiples
<1>6. k + 0 = k
  BY <1>2
<1>7. CASE n + 1 \in SlowTicks
  <2>1. Slack(n + 1) = Spare * k + Spare
    BY <1>4, <1>5, <1>7
  <2> QED
    BY <1>1, <1>3, <1>5, <1>7, <2>1 DEF all
<1>8. CASE n + 1 \notin SlowTicks
  <2>1. Slack(n + 1) = Spare * k + 0
    BY <1>3, <1>4, <1>5, <1>6, <1>8
  <2> QED
    BY <1>1, <1>3, <1>5, <1>8, <2>1 DEF all
<1> QED
  BY <1>7, <1>8

\* At the start no tick is late.
LEMMA InitOnTime == Init => OnTime
<1> SUFFICES ASSUME Init  PROVE  OnTime
  OBVIOUS
<1>1. TickRate \in Nat /\ TickRate > 0 /\ 0 \div TickRate = 0
  BY Constants, DivUnique
<1>2. TickRate * (0 + 1) = TickRate /\ TickRate * 0 = 0
  BY <1>1
<1>4. now = 0 /\ overrun = 0 /\ currentTick = 0 /\ ~ tickC /\ ~ endC /\ pc = "select"
  BY DEF Init
<1>5. Dropped = 0
  BY <1>1, <1>4 DEF Dropped, Pending
<1>6. DueBy = TickRate + 0
  BY <1>2, <1>4 DEF DueBy
<1> QED
  BY <1>1, <1>2, <1>4, <1>5, <1>6 DEF OnTime

\* A unit of time makes no tick later than its slack, and a tick that is dropped in it is
\* one the slack pays for.
LEMMA ElapseOnTime ==
    ASSUME IInv, OnTime, Elapse
    PROVE  OnTime'
<1> DEFINE c == currentTick
           q == now \div TickRate
           due == TickRate * (c + 1)
           d == Dropped
           S == overrun
<1>1. /\ TickRate \in Nat /\ TickRate >= 2 /\ TickRate > 0
      /\ now \in Nat /\ c \in Nat /\ q \in Nat /\ busyUntil \in Nat
  BY Constants, ClockAssumption, DivIs DEF IInv, TypeOK
<1>2. S \in Nat
  BY DEF IInv, TypeOK
<1>3. d \in Nat /\ q = c + Pending + d
  BY <1>1 DEF IInv, Fired, Pending, Dropped
<1>4. /\ now' = now + 1 /\ Ticker /\ UNCHANGED <<pc, busyUntil, currentTick, overrun>>
      /\ now' = nextFire => now' \div TickRate = q + 1
      /\ now' # nextFire => now' \div TickRate = q
      /\ now < TickRate * q + TickRate
  BY ElapseFires DEF IInv, Elapse
<1>5. /\ tickC' = (tickC \/ now' = nextFire) /\ endC' = (endC \/ now' = EndTime)
      /\ (pc = "select" /\ ~ tickC /\ ~ endC) \/ (pc = "tick" /\ now < busyUntil)
  BY DEF Elapse
<1>6. /\ due \in Nat /\ TickRate * c \in Nat /\ TickRate * d \in Nat
      /\ due = TickRate * c + TickRate
      /\ TickRate * (d + 1) = TickRate * d + TickRate
  BY <1>1, <1>3, Multiples
<1>7. /\ ~ tickC => TickRate * q = TickRate * c + TickRate * d
      /\ tickC => TickRate * q = due + TickRate * d
  <2>1. \A x, y \in Nat : TickRate * (x + y) = TickRate * x + TickRate * y
    BY <1>1
  <2>2. TickRate * (c + d) = TickRate * c + TickRate * d
    BY <1>1, <1>3, <2>1
  <2>3. TickRate * (c + 1 + d) = TickRate * (c + 1) + TickRate * d
    BY <1>1, <1>3, <2>1
  <2>4. ~ tickC => q = c + d
    BY <1>1, <1>3 DEF Pending
  <2>5. tickC => q = c + 1 + d
    BY <1>3 DEF Pending
  <2> HIDE DEF c, d, q
  <2> QED
    BY <2>2, <2>3, <2>4, <2>5
<1> SUFFICES ASSUME c < TotalTicks
             PROVE  /\ TickRate * Dropped' <= S
                    /\ now' <= due + S
                    /\ pc = "tick" => now' <= busyUntil /\ busyUntil <= due + S
                    /\ endC' \/ pc = "done" => EndTime <= now'
  <2>1. DueBy' = due + S /\ currentTick' = c
    BY <1>4 DEF DueBy
  <2> QED
    BY <1>4, <2>1 DEF OnTime
<1>8. /\ TickRate * d <= S /\ now <= due + S
      /\ pc = "tick" => now <= busyUntil /\ busyUntil <= due + S
      /\ endC \/ pc = "done" => EndTime <= now
  BY DEF OnTime, DueBy
<1>9. TickRate * q \in Nat /\ nextFire = TickRate * q + TickRate
  BY <1>1, <1>4, Multiples DEF Ticker
<1>10. now' <= due + S
  <2> HIDE DEF c, d, q, due, S
  <2>1. CASE pc = "select" /\ ~ tickC
    <3>1. now < due + TickRate * d
      BY <1>1, <1>4, <1>6, <1>7, <2>1
    <3> QED
      BY <1>1, <1>2, <1>4, <1>6, <1>8, <3>1
  <2>2. CASE pc = "tick" /\ now < busyUntil
    BY <1>1, <1>2, <1>4, <1>6, <1>8, <2>2
  <2> QED
    BY <1>5, <2>1, <2>2
<1>11. TickRate * Dropped' <= S
  <2>1. CASE now' = nextFire /\ tickC
    <3>1. now' \div TickRate = q + 1 /\ tickC'
      BY <1>4, <1>5, <2>1
    <3>2. Dropped' = (q + 1) - c - 1 /\ d = q - c - 1
      BY <1>4, <2>1, <3>1 DEF Dropped, Pending
    <3>3. Dropped' = d + 1
      BY <1>1, <1>3, <3>2
    <3>4. now' = due + TickRate * d + TickRate
      BY <1>7, <1>9, <2>1
    <3> HIDE DEF c, d, q, due, S
    <3>5. TickRate * d + TickRate <= S
      BY <1>1, <1>2, <1>6, <1>10, <3>4
    <3> QED
      BY <1>6, <3>3, <3>5
  <2>2. CASE now' = nextFire /\ ~ tickC
    <3>1. now' \div TickRate = q + 1 /\ tickC'
      BY <1>4, <1>5, <2>2
    <3>2. Dropped' = (q + 1) - c - 1 /\ d = q - c - 0
      BY <1>4, <2>2, <3>1 DEF Dropped, Pending
    <3>3. Dropped' = d
      BY <1>1, <1>3, <3>2
    <3> QED
      BY <1>8, <3>3
  <2>3. CASE now' # nextFire
    <3>1. now' \div TickRate = q /\ (tickC' <=> tickC)
      BY <1>4, <1>5, <2>3
    <3>2. Dropped' = d
      BY <1>4, <3>1 DEF Dropped, Pending
    <3> QED
      BY <1>8, <3>2
  <2> QED
    BY <2>1, <2>2, <2>3
<1>12. pc = "tick" => now' <= busyUntil /\ busyUntil <= due + S
  BY <1>1, <1>4, <1>5, <1>8
<1>13. endC' \/ pc = "done" => EndTime <= now'
  <2>1. EndTime \in Nat
    BY Constants
  <2>2. CASE endC \/ pc = "done"
    BY <1>1, <1>4, <1>8, <2>1, <2>2
  <2>3. CASE ~ endC /\ pc # "done"
    <3>1. endC' => now' = EndTime
      BY <1>5, <2>3
    <3> QED
      BY <2>1, <2>3, <3>1
  <2> QED
    BY <2>2, <2>3
<1> QED
  BY <1>10, <1>11, <1>12, <1>13

\* Nor does a tick that starts: it ends by the time its successor is due at the latest.
LEMMA StartOnTime ==
    ASSUME IInv, OnTime, TickStarts
    PROVE  OnTime'
<1> DEFINE c == currentTick
           due == TickRate * (c + 1)
<1>1. /\ TickRate \in Nat /\ TickRate >= 2 /\ TotalTicks \in Nat
      /\ now \in Nat /\ c \in Nat /\ now \div TickRate \in Nat
  BY Constants, ClockAssumption, DivIs DEF IInv, TypeOK
<1>2. /\ tickC /\ ~ tickC' /\ c < TotalTicks /\ currentTick' = c + 1
      /\ pc' = "tick" /\ UNCHANGED <<now, nextFire, endC>>
  BY DEF TickStarts
<1>3. PICK len \in BodyLengths(c + 1) :
          busyUntil' = now + len /\ overrun' = overrun + Excess(len)
  BY DEF TickStarts
<1>4. /\ len \in Nat /\ overrun \in Nat /\ Excess(len) \in Nat
      /\ len <= TickRate + Excess(len)
  BY <1>3, BodyBound, ExcessIs DEF IInv, TypeOK
<1>6. /\ now <= due + overrun /\ TickRate * Dropped <= overrun
      /\ endC => EndTime <= now
  BY <1>2 DEF OnTime, DueBy
<1>7. due \in Nat /\ TickRate * (c + 1 + 1) = due + TickRate
  BY <1>1, Multiples
<1>8. DueBy' = due + TickRate + overrun'
  BY <1>2, <1>7 DEF DueBy
<1>10. Dropped' = Dropped
  BY <1>1, <1>2 DEF Dropped, Pending
<1>11. TickRate * Dropped <= overrun'
  <2>1. Dropped \in Nat
    BY <1>1, <1>2 DEF IInv, Fired, Pending, Dropped
  <2>2. TickRate * Dropped \in Nat
    BY <1>1, <2>1, Multiples
  <2> HIDE DEF c
  <2> QED
    BY <1>3, <1>4, <1>6, <2>2
<1>12. now + len <= due + TickRate + overrun'
  <2> HIDE DEF due, c
  <2> QED
    BY <1>1, <1>3, <1>4, <1>6, <1>7
<1>13. now <= now + len /\ now <= due + TickRate + overrun'
  <2> HIDE DEF due, c
  <2> QED
    BY <1>1, <1>3, <1>4, <1>7, <1>12
<1> QED
  BY <1>2, <1>3, <1>6, <1>8, <1>10, <1>11, <1>12, <1>13 DEF OnTime

\* No step makes a tick later than the excess of the ticks before it allows.
LEMMA NextOnTime ==
    ASSUME IInv, OnTime, [Next]_vars
    PROVE  OnTime'
<1>1. CASE Elapse
  BY <1>1, ElapseOnTime
<1>2. CASE TickStarts
  BY <1>2, StartOnTime
<1>3. CASE TickPastEnd
  <2>1. currentTick \in Nat /\ TotalTicks \in Nat
    BY Constants DEF IInv, TypeOK
  <2>2. ~ (currentTick' < TotalTicks)
    BY <1>3, <2>1 DEF TickPastEnd
  <2> QED
    BY <2>2 DEF OnTime
<1>4. CASE TickReturns \/ GameOver \/ UNCHANGED vars
  <2>1. UNCHANGED <<now, tickC, busyUntil, currentTick, overrun>>
    BY <1>4 DEF TickReturns, GameOver, vars
  <2>2. DueBy' = DueBy /\ Dropped' = Dropped
    BY <2>1 DEF DueBy, Dropped, Pending
  <2>3. /\ pc' = "tick" => pc = "tick"
        /\ endC' \/ pc' = "done" => endC \/ pc = "done"
    BY <1>4 DEF TickReturns, GameOver, vars
  <2> QED
    BY <2>1, <2>2, <2>3 DEF OnTime
<1> QED
  BY <1>1, <1>2, <1>3, <1>4 DEF Next

\* It holds throughout the game.
LEMMA AlwaysOnTime == Spec => []OnTime
BY InitOnTime, NextOnTime, Invariance, PTL DEF Spec

\* The ticks a game lacks at its end are paid for by the excess of those it had.
LEMMA LostArePaid ==
    ASSUME IInv, OnTime, pc = "done"
    PROVE  TickRate * (TotalTicks - currentTick) <= overrun
<1> DEFINE c == currentTick
           m == TotalTicks - currentTick
<1>1. /\ TickRate \in Nat /\ TickRate >= 2 /\ TotalTicks \in Nat /\ c \in Nat
      /\ TickRate * TotalTicks \in Nat /\ TickRate * TotalTicks <= Duration
      /\ Duration \in Nat /\ EndTime = Duration + TickRate /\ now \in Nat
      /\ overrun \in Nat /\ c <= TotalTicks
  BY Constants, ClockAssumption DEF IInv, TypeOK
<1>2. CASE c = TotalTicks
  <2>1. m = 0
    BY <1>1, <1>2
  <2>2. TickRate * 0 = 0
    BY <1>1
  <2> QED
    BY <1>1, <2>1, <2>2
<1>3. CASE c < TotalTicks
  <2>1. EndTime <= now /\ now <= TickRate * (c + 1) + overrun
    BY <1>3 DEF OnTime, DueBy
  <2>2. TickRate * (c + 1) = TickRate * c + TickRate /\ TickRate * c \in Nat
    BY <1>1, Multiples
  <2>3. m \in Nat /\ TotalTicks = c + m
    BY <1>1
  <2>4. TickRate * TotalTicks = TickRate * c + TickRate * m /\ TickRate * m \in Nat
    <3>1. \A x, y \in Nat : TickRate * (x + y) = TickRate * x + TickRate * y
      BY <1>1
    <3>2. TickRate * m \in Nat
      BY <1>1, <2>3, Multiples
    <3>3. TickRate * (c + m) = TickRate * c + TickRate * m
      BY <1>1, <2>3, <3>1
    <3> HIDE DEF c, m
    <3> QED
      BY <2>3, <3>2, <3>3
  <2> HIDE DEF c, m
  <2>5. TickRate * m <= overrun
    BY <1>1, <2>1, <2>2, <2>4
  <2> QED
    BY <2>5 DEF m
<1> QED
  BY <1>1, <1>2, <1>3

\* A game loses at most one tick for every whole tick rate by which its ticks were too
\* long together, for every tick rate, duration, timeline, check timeout and wait for
\* readers.
THEOREM FewAreLost == Spec => []FewTicksAreLost
<1>1. IInv /\ OnTime => FewTicksAreLost
  BY LostArePaid DEF FewTicksAreLost
<1> QED
  BY <1>1, Invariance, AlwaysOnTime, PTL

-----------------------------------------------------------------------------
(* While no read is long *)

\* Only the ticks with a foreground event are then too long.
LEMMA NextOverrun ==
    ASSUME ShortReads, IInv, OverrunBound, [Next]_vars
    PROVE  OverrunBound'
<1>1. CASE TickStarts
  <2> DEFINE c == currentTick
  <2>1. /\ c \in Nat /\ c < TotalTicks /\ currentTick' = c + 1 /\ TotalTicks \in Nat
        /\ TickRate \in Nat /\ LongestRead \in Nat /\ overrun \in Nat
    BY <1>1, Constants, ClockAssumption DEF TickStarts, IInv, TypeOK
  <2>2. PICK len \in BodyLengths(c + 1) : overrun' = overrun + Excess(len)
    BY <1>1 DEF TickStarts
  <2>3. /\ Spare \in Nat /\ Slack(c) \in Nat /\ overrun <= Slack(c)
        /\ Slack(c + 1) = Slack(c) + (IF c + 1 \in SlowTicks THEN Spare ELSE 0)
    BY <2>1, SlackGrows DEF OverrunBound
  <2>4. LongestRead <= TickRate
    BY <2>1, <2>3 DEF ShortReads
  <2>5. len \in Nat /\ len <= TickRate + Spare
    BY <2>2, <2>4, BodyBound
  <2>6. c + 1 \notin SlowTicks => len <= TickRate
    <3>1. c + 1 \notin SlowTicks => \A e \in Foreground : TickOf(e) # c + 1
      BY <2>1 DEF SlowTicks
    <3> QED
      BY <2>2, <3>1, BodyBound DEF ShortReads
  <2>7. /\ Excess(len) \in Nat /\ Excess(len) <= Spare
        /\ c + 1 \notin SlowTicks => Excess(len) = 0
    BY <2>3, <2>5, <2>6, ExcessIs
  <2>8. overrun' <= Slack(c + 1)
    <3> HIDE DEF c
    <3> QED
      BY <2>1, <2>2, <2>3, <2>7
  <2>9. Slack(currentTick)' = Slack(c + 1)
    BY <2>1 DEF Slack, SlowTicks, TickOf
  <2> QED
    BY <2>8, <2>9 DEF OverrunBound
<1>2. CASE Elapse \/ TickPastEnd \/ TickReturns \/ GameOver \/ UNCHANGED vars
  <2>1. UNCHANGED <<currentTick, overrun>>
    BY <1>2 DEF Elapse, TickPastEnd, TickReturns, GameOver, vars
  <2> QED
    BY <2>1 DEF OverrunBound, Slack, SlowTicks, TickOf
<1> QED
  BY <1>1, <1>2 DEF Next

\* It is so throughout the game.
LEMMA AlwaysBound ==
    ASSUME ShortReads
    PROVE  Spec => []OverrunBound
<1>1. Init => OverrunBound
  <2>1. Slack(0) \in Nat
    BY SlackGrows
  <2> QED
    BY <2>1 DEF Init, OverrunBound
<1>2. IInv /\ OverrunBound /\ [Next]_vars => OverrunBound'
  BY NextOverrun
<1> QED
  BY <1>1, <1>2, Invariance, PTL DEF Spec

\* While no request keeps Tick waiting for longer than about half a tick, a game loses
\* fewer than one tick for every two that have foreground events.
THEOREM ShortReadsLoseFew == ShortReads /\ Spec => []LosesFew
<1> SUFFICES ASSUME ShortReads  PROVE  Spec => []LosesFew
  OBVIOUS
<1>1. IInv /\ FewTicksAreLost /\ OverrunBound => LosesFew
  <2> SUFFICES ASSUME IInv, FewTicksAreLost, OverrunBound,
                      pc = "done", currentTick # TotalTicks
               PROVE  2 * (TotalTicks - currentTick) < Cardinality(SlowTicks)
    BY DEF LosesFew
  <2> DEFINE m == TotalTicks - currentTick
             K == Cardinality(SlowTicks)
  <2>1. /\ TickRate \in Nat /\ TickRate >= 2 /\ m \in Nat /\ m >= 1 /\ K \in Nat
        /\ overrun \in Nat /\ currentTick \in Nat
    <3>1. /\ TickRate \in Nat /\ TickRate >= 2 /\ m \in Nat /\ m >= 1
          /\ overrun \in Nat /\ currentTick \in Nat
      BY Constants DEF IInv, TypeOK
    <3>2. K \in Nat
      BY <3>1, SlowCount
    <3> QED
      BY <3>1, <3>2
  <2>2. /\ Spare \in Nat /\ 2 * Spare <= TickRate - 2
        /\ overrun <= Spare * K /\ Spare * K \in Nat
    <3>1. Slack(currentTick) <= Spare * K /\ Slack(currentTick) \in Nat
      BY <2>1, SlackGrows
    <3>2. Spare \in Nat /\ 2 * Spare <= TickRate - 2 /\ Spare * K \in Nat
      BY <2>1, SlackGrows
    <3> HIDE DEF K
    <3> QED
      BY <2>1, <3>1, <3>2 DEF OverrunBound
  <2>3. TickRate * m <= overrun /\ TickRate * m \in Nat
    BY <2>1, Multiples DEF FewTicksAreLost
  <2> HIDE DEF m, K
  <2>4. TickRate * m <= Spare * K
    BY <2>1, <2>2, <2>3
  <2>5. ~ (K <= 2 * m)
    <3> SUFFICES ASSUME K <= 2 * m  PROVE  FALSE
      OBVIOUS
    <3>1. 2 * m \in Nat
      BY <2>1
    <3>2. Spare * K <= Spare * (2 * m)
      BY <2>1, <2>2, <3>1, Multiples
    <3>3. Spare * (2 * m) = m * (2 * Spare)
      BY <2>1, <2>2
    <3>4. 2 * Spare \in Nat /\ TickRate - 2 \in Nat
      BY <2>1, <2>2
    <3>5. m * (2 * Spare) <= m * (TickRate - 2)
      BY <2>1, <2>2, <3>4, Multiples
    <3>6. m * (TickRate - 2) = TickRate * m - 2 * m
      BY <2>1
    <3>7. m * (2 * Spare) \in Nat
      BY <2>1, <3>4, Multiples
    <3> QED
      BY <2>1, <2>2, <2>3, <2>4, <3>1, <3>2, <3>3, <3>5, <3>6, <3>7
  <2> QED
    BY <2>1, <2>5 DEF m, K
<1> QED
  BY <1>1, Invariance, FewAreLost, AlwaysBound, PTL

\* So a game with at most two ticks that have foreground events has then exactly
\* TotalTicks ticks when Start leaves its loop.
THEOREM TicksAreExact == ShortReads /\ AtMostTwoSlow /\ Spec => []ExactTicks
<1> SUFFICES ASSUME ShortReads, AtMostTwoSlow  PROVE  Spec => []ExactTicks
  OBVIOUS
<1>1. IInv /\ LosesFew => ExactTicks
  <2> SUFFICES ASSUME IInv, LosesFew, pc = "done", currentTick # TotalTicks
               PROVE  FALSE
    BY DEF ExactTicks
  <2>1. 2 * (TotalTicks - currentTick) < 2
    <3>1. /\ 2 * (TotalTicks - currentTick) < Cardinality(SlowTicks)
          /\ Cardinality(SlowTicks) <= 2 /\ Cardinality(SlowTicks) \in Nat
      BY SlowCount DEF LosesFew, AtMostTwoSlow
    <3>2. TotalTicks - currentTick \in Int
      BY Constants DEF IInv, TypeOK
    <3> QED
      BY <3>1, <3>2
  <2>2. currentTick \in Nat /\ TotalTicks \in Nat /\ currentTick < TotalTicks
    BY Constants DEF IInv, TypeOK
  <2> QED
    BY <2>1, <2>2
<1> QED
  BY <1>1, Invariance, ShortReadsLoseFew, PTL
=============================================================================
