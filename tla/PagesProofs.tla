---------------------------- MODULE PagesProofs -----------------------------
(***************************************************************************)
(* Proofs about module Pages: the clients that read the boards leave the   *)
(* game alone, so all that is proved of module Scoreboard holds with them, *)
(* and what they are sent is one board of the game.                        *)
(***************************************************************************)
EXTENDS Pages, ScoreboardProofs

(***************************************************************************)
(* That an answer is one board is kept by the lock: no step replaces Ticks *)
(* or OverallState while an answer is being sent. The proof needs to know  *)
(* which ticks are being sent, and that a tick a client has seen was the   *)
(* overall state's, hence a closed one.                                    *)
(***************************************************************************)

Answer == [tick : Nat, board : Board \cup {Nil}]

PageTypes ==
    /\ reading \in [Clients -> Answer \cup {Idle}]
    /\ seen \in [Clients -> Nat]

ClosedWhenSent ==
    \A u \in Clients : reading[u] # Idle /\ reading[u].tick # 0 => reading[u].tick \in DOMAIN ticks

ClosedWhenSeen == \A u \in Clients : seen[u] <= Len(ticks)

PagesInv == PageTypes /\ ClosedWhenSent /\ AnswerIsOneBoard /\ ClosedWhenSeen

\* The steps of the game, with or without the lock, are those of module Scoreboard, and
\* the pages take none of them.
LEMMA PagesNextIsNext == [PagesNext]_allVars => [Next]_vars
<1> SUFFICES ASSUME [PagesNext]_allVars  PROVE  [Next]_vars
  OBVIOUS
<1>1. CASE FreeStep
  BY <1>1 DEF FreeStep, Next
<1>2. CASE LockedStep
  BY <1>2 DEF LockedStep, Next
<1>3. CASE UNCHANGED vars
  BY <1>3
<1>4. FreeStep \/ LockedStep \/ UNCHANGED vars
  BY DEF PagesNext, allVars
<1> QED
  BY <1>1, <1>2, <1>3, <1>4

\* The game with its readers is a game: everything proved of Scoreboard's Spec, the ledger
\* and the invariants, holds whatever pages are asked for meanwhile.
THEOREM ReadersLeaveTheGame == PagesSpec => Spec
<1>1. PagesInit => Init
  BY DEF PagesInit
<1> QED
  BY <1>1, PagesNextIsNext, PTL DEF PagesSpec, Spec

-----------------------------------------------------------------------------
(* The invariant of the pages *)

\* Nothing is being sent and nothing was seen at the start.
LEMMA InitPages == PagesInit => PagesInv
<1> SUFFICES ASSUME PagesInit  PROVE  PagesInv
  OBVIOUS
<1>1. /\ reading = [u \in Clients |-> Idle] /\ seen = [u \in Clients |-> 0]
      /\ ticks = <<>>
  BY DEF PagesInit, Init
<1>2. PageTypes
  BY <1>1 DEF PageTypes
<1>3. ClosedWhenSeen
  BY <1>1 DEF ClosedWhenSeen
<1> QED
  BY <1>1, <1>2, <1>3 DEF PagesInv, ClosedWhenSent, AnswerIsOneBoard

\* A closed tick stays, so Ticks never gets shorter.
LEMMA TicksGrow ==
    ASSUME IInv, IInv', [Next]_vars
    PROVE  Len(ticks) <= Len(ticks')
<1>1. Len(ticks) \in Nat /\ Len(ticks') \in Nat
  BY LenProperties DEF IInv, TypeOK
<1>2. CASE UNCHANGED ticks
  BY <1>1, <1>2
<1>3. CASE updateScoreboard
  BY <1>1, <1>3, UpdateShape
<1>4. UNCHANGED ticks \/ updateScoreboard
  BY DEF Next, vars, boardVars, loopVars, Start, TickBegin, TickUpdate, TickEnd, EndTimer,
         FinalUpdate, Stop, CheckStep, CheckPlant, CheckSucceeds, CheckFails,
         SubmitArrive, SubmitLocked, SubmitAccepted, SubmitRejected, SubmitPanics
<1> QED
  BY <1>2, <1>3, <1>4

\* The steps outside the lock replace neither Ticks nor the overall state.
LEMMA FreeStepKeeps == FreeStep => UNCHANGED <<ticks, overallState>>
BY DEF FreeStep, vars, boardVars, loopVars, Start, TickBegin, TickEnd, EndTimer,
       Stop, CheckStep, CheckPlant, CheckSucceeds, CheckFails, SubmitArrive

\* The tick of the overall state is a closed tick, or none.
LEMMA OverallIsClosed ==
    ASSUME IInv
    PROVE  /\ overallState \in Board \cup {Nil}
           /\ TickOf(overallState) \in Nat /\ TickOf(overallState) <= Len(ticks)
<1>1. TickNumbering
  BY NumberingHolds
<1>2. Len(ticks) \in Nat
  BY LenProperties DEF IInv, TypeOK
<1>3. overallState \in Board \cup {Nil}
  BY DEF IInv, TypeOK
<1> QED
  BY <1>1, <1>2, <1>3 DEF TickNumbering, TickOf

\* Every step of the game and of the pages keeps it.
LEMMA NextPages == IInv /\ IInv' /\ PagesInv /\ [PagesNext]_allVars => PagesInv'
<1> SUFFICES ASSUME IInv, IInv', PagesInv, [PagesNext]_allVars  PROVE  PagesInv'
  OBVIOUS
<1>1. /\ ticks \in Seq(Board) /\ Len(ticks) \in Nat /\ DOMAIN ticks = 1 .. Len(ticks)
      /\ Len(ticks') \in Nat
  BY LenProperties DEF IInv, TypeOK
<1>2. CASE FreeStep /\ UNCHANGED pageVars
  <2>1. UNCHANGED <<ticks, overallState, reading, seen>>
    BY <1>2, FreeStepKeeps DEF pageVars
  <2> QED
    BY <2>1 DEF PagesInv, PageTypes, ClosedWhenSent, AnswerIsOneBoard, ClosedWhenSeen
<1>3. CASE LockedStep /\ UNCHANGED pageVars
  <2>1. /\ UNCHANGED <<reading, seen>> /\ \A u \in Clients : reading[u] = Idle
    BY <1>3 DEF LockedStep, Held, pageVars
  <2>2. Len(ticks) <= Len(ticks')
    BY PagesNextIsNext, TicksGrow
  <2>3. ClosedWhenSeen'
    BY <1>1, <2>1, <2>2 DEF PagesInv, PageTypes, ClosedWhenSeen
  <2> QED
    BY <2>1, <2>3 DEF PagesInv, PageTypes, ClosedWhenSent, AnswerIsOneBoard
<1>4. ASSUME NEW u \in Clients, UNCHANGED vars, renderScoreboard(u)  PROVE  PagesInv'
  <2>1. /\ reading' = reading /\ seen' = [seen EXCEPT ![u] = TickOf(overallState)]
        /\ UNCHANGED <<ticks, overallState>>
    BY <1>4 DEF renderScoreboard, vars
  <2>2. seen' \in [Clients -> Nat] /\ \A v \in Clients : seen'[v] <= Len(ticks)
    BY <2>1, OverallIsClosed DEF PagesInv, PageTypes, ClosedWhenSeen
  <2> QED
    BY <2>1, <2>2 DEF PagesInv, PageTypes, ClosedWhenSent, AnswerIsOneBoard, ClosedWhenSeen
<1>5. ASSUME NEW u \in Clients, UNCHANGED vars, NEW a \in Answer, seen' = seen,
             reading' = [reading EXCEPT ![u] = a],
             a.tick = 0 \/ a.tick \in DOMAIN ticks,
             a.board = IF a.tick = 0 THEN overallState ELSE ticks[a.tick]
      PROVE  PagesInv'
  <2>1. UNCHANGED <<ticks, overallState>>
    BY <1>5 DEF vars
  <2>2. PageTypes'
    BY <1>5 DEF PagesInv, PageTypes
  <2>3. \A v \in Clients : reading'[v] = IF v = u THEN a ELSE reading[v]
    BY <1>5 DEF PagesInv, PageTypes
  <2>4. ClosedWhenSent' /\ AnswerIsOneBoard'
    BY <1>5, <2>1, <2>3 DEF PagesInv, ClosedWhenSent, AnswerIsOneBoard
  <2>5. ClosedWhenSeen'
    BY <1>5, <2>1 DEF PagesInv, ClosedWhenSeen
  <2> QED
    BY <2>2, <2>4, <2>5 DEF PagesInv
<1>6. ASSUME NEW u \in Clients, UNCHANGED vars, getOverall(u)  PROVE  PagesInv'
  <2> DEFINE a == [tick |-> 0, board |-> overallState]
  <2>1. a \in Answer /\ a.tick = 0 /\ a.board = overallState
    BY OverallIsClosed DEF Answer
  <2>2. reading' = [reading EXCEPT ![u] = a] /\ seen' = seen
    BY <1>6 DEF getOverall
  <2> HIDE DEF a
  <2> QED
    BY <1>5, <1>6, <2>1, <2>2
<1>7. ASSUME NEW u \in Clients, UNCHANGED vars, NEW n \in 0 .. TotalTicks, getTick(u, n)
      PROVE  PagesInv'
  <2> DEFINE a == [tick |-> n, board |-> ticks[n]]
  <2>1. n \in DOMAIN ticks /\ reading' = [reading EXCEPT ![u] = a] /\ seen' = seen
    BY <1>7 DEF getTick
  <2>2. n \in Nat /\ n # 0 /\ ticks[n] \in Board
    BY <1>1, <2>1, LenProperties
  <2>3. a \in Answer /\ a.tick = n /\ a.board = ticks[n]
    BY <2>2 DEF Answer
  <2> HIDE DEF a
  <2> QED
    BY <1>5, <1>7, <2>1, <2>2, <2>3
<1>8. ASSUME NEW u \in Clients, UNCHANGED vars, Answered(u)  PROVE  PagesInv'
  <2>1. /\ reading[u] # Idle /\ reading' = [reading EXCEPT ![u] = Idle]
        /\ seen' = IF reading[u].tick = 0 THEN [seen EXCEPT ![u] = TickOf(reading[u].board)]
                   ELSE seen
        /\ UNCHANGED <<ticks, overallState>>
    BY <1>8 DEF Answered, vars
  <2>2. reading[u].tick = 0 => reading[u].board = overallState
    BY <2>1 DEF PagesInv, AnswerIsOneBoard
  <2>3. reading' \in [Clients -> Answer \cup {Idle}]
    BY <2>1 DEF PagesInv, PageTypes
  <2>4. seen' \in [Clients -> Nat] /\ \A v \in Clients : seen'[v] <= Len(ticks)
    BY <2>1, <2>2, OverallIsClosed DEF PagesInv, PageTypes, ClosedWhenSeen
  <2>5. \A v \in Clients : reading'[v] = IF v = u THEN Idle ELSE reading[v]
    BY <2>1 DEF PagesInv, PageTypes
  <2>6. ClosedWhenSent' /\ AnswerIsOneBoard'
    BY <2>1, <2>5 DEF PagesInv, ClosedWhenSent, AnswerIsOneBoard
  <2> QED
    BY <2>1, <2>3, <2>4, <2>6 DEF PagesInv, PageTypes, ClosedWhenSeen
<1>9. CASE UNCHANGED allVars
  <2>1. UNCHANGED <<ticks, overallState, reading, seen>>
    BY <1>9 DEF allVars, vars, pageVars
  <2> QED
    BY <2>1 DEF PagesInv, PageTypes, ClosedWhenSent, AnswerIsOneBoard, ClosedWhenSeen
<1> QED
  BY <1>2, <1>3, <1>4, <1>6, <1>7, <1>8, <1>9 DEF PagesNext

\* It holds throughout the game.
LEMMA PagesInvariance == PagesSpec => [](IInv /\ PagesInv)
<1>1. PagesSpec => []IInv
  BY ReadersLeaveTheGame, Invariance, PTL
<1> QED
  BY <1>1, InitPages, NextPages, PTL DEF PagesSpec

-----------------------------------------------------------------------------
(* The properties *)

\* A board does not change while a client takes it: the answer is the overall state or the
\* board of the tick asked for.
THEOREM AnswersAreBoards == PagesSpec => []AnswerIsOneBoard
<1>1. PagesInv => AnswerIsOneBoard
  BY DEF PagesInv
<1> QED
  BY <1>1, PagesInvariance, PTL

\* A closed board can be sent if every service has a check: Tick waits for a result of
\* each before the board is closed.
LEMMA ClosedEncodes ==
    ASSUME UptimeComplete, Services \subseteq Checks, NEW n \in DOMAIN ticks
    PROVE  Encodes(ticks[n])
<1>1. ASSUME NEW id \in TeamIds, NEW s \in Services
      PROVE  ticks[n].teams[id][s].ok + ticks[n].teams[id][s].fail > 0
  <2>1. ticks[n].teams[id][s].ok + ticks[n].teams[id][s].fail = 1
    BY DEF UptimeComplete
  <2> QED
    BY <2>1
<1> QED
  BY <1>1 DEF Encodes

\* A tick a client has seen on the scoreboard is found from then on, and can be sent if
\* every service has a check.
THEOREM SeenTicksAreServed == PagesSpec => []SeenTickIsServed
<1>1. IInv /\ PagesInv /\ UptimeComplete => SeenTickIsServed
  <2> SUFFICES ASSUME IInv, PagesInv, UptimeComplete, NEW u \in Clients, seen[u] # 0
               PROVE  /\ seen[u] \in DOMAIN ticks /\ ticks[seen[u]].tick = seen[u]
                      /\ Services \subseteq Checks => Encodes(ticks[seen[u]])
    BY DEF SeenTickIsServed
  <2>1. seen[u] \in Nat /\ seen[u] <= Len(ticks)
    BY DEF PagesInv, PageTypes, ClosedWhenSeen
  <2>2. Len(ticks) \in Nat /\ DOMAIN ticks = 1 .. Len(ticks)
    BY LenProperties DEF IInv, TypeOK
  <2>3. seen[u] \in DOMAIN ticks
    BY <2>1, <2>2
  <2>4. Services \subseteq Checks => Encodes(ticks[seen[u]])
    BY <2>3, ClosedEncodes
  <2> QED
    BY <2>3, <2>4 DEF IInv, Numbered
<1>2. PagesSpec => []UptimeComplete
  BY ReadersLeaveTheGame, UptimeIsComplete, PTL
<1> QED
  BY <1>1, <1>2, PagesInvariance, PTL

\* The scoreboard a client sees never goes back to an earlier tick: what it is sent is the
\* overall state as it is when the answer has been taken, and that is as old as the last
\* closed tick.
THEOREM SeenOnlyGrows == PagesSpec => SeenNeverGoesBack
<1> DEFINE Grows == \A u \in Clients : seen[u] <= seen'[u]
<1>1. IInv /\ PagesInv /\ [PagesNext]_allVars => [Grows]_allVars
  <2> SUFFICES ASSUME IInv, PagesInv, PagesNext, NEW v \in Clients  PROVE  seen[v] <= seen'[v]
    OBVIOUS
  <2>1. seen \in [Clients -> Nat] /\ seen[v] \in Nat /\ seen[v] <= Len(ticks)
    BY DEF PagesInv, PageTypes, ClosedWhenSeen
  <2>2. TickOf(overallState) = Len(ticks)
    <3>1. TickNumbering
      BY NumberingHolds
    <3>2. ticks = <<>> => Len(ticks) = 0
      OBVIOUS
    <3> QED
      BY <3>1, <3>2 DEF TickNumbering, TickOf
  <2>3. CASE UNCHANGED seen
    BY <2>1, <2>3
  <2>4. ASSUME NEW u \in Clients, seen' = [seen EXCEPT ![u] = TickOf(overallState)]
        PROVE  seen[v] <= seen'[v]
    BY <2>1, <2>2, <2>4
  <2>5. ASSUME NEW u \in Clients, Answered(u)  PROVE  seen[v] <= seen'[v]
    <3>1. /\ reading[u] # Idle
          /\ seen' = IF reading[u].tick = 0 THEN [seen EXCEPT ![u] = TickOf(reading[u].board)]
                     ELSE seen
      BY <2>5 DEF Answered
    <3>2. reading[u].tick = 0 => reading[u].board = overallState
      BY <3>1 DEF PagesInv, AnswerIsOneBoard
    <3> QED
      BY <2>3, <2>4, <3>1, <3>2
  <2> QED
    BY <2>3, <2>4, <2>5 DEF PagesNext, pageVars, renderScoreboard, getOverall, getTick
<1> QED
  BY <1>1, PagesInvariance, PTL DEF PagesSpec, SeenNeverGoesBack
=============================================================================
