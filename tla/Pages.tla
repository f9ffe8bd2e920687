-------------------------------- MODULE Pages --------------------------------
(***************************************************************************)
(* Module Scoreboard together with the clients that read the boards while  *)
(* the game runs (cmd/ad/public.go, private.go): GET /scoreboard, which    *)
(* renders the overall state, and GET /api/scoreboard and                  *)
(* GET /api/scoreboard/{tick}, which send a board as JSON. All of them     *)
(* hold scoreboardMtx for reading, the last two until the client has taken *)
(* the answer; updateScoreboard and submitFlag hold it for writing.        *)
(***************************************************************************)
EXTENDS Scoreboard

CONSTANTS
    Clients,     \* the clients of the pages
    Idle         \* no request

ASSUME ClientsAssumption == Idle \notin [tick : Int, board : Board \cup {Nil}]

VARIABLES
    reading,     \* reading[u]: the tick u asked for (0: overall) and the board sent
    seen         \* history: the tick of the last overall state u has got, or 0

pageVars == <<reading, seen>>
allVars == <<vars, pageVars>>

\* The read lock is held; somebody waits for the write lock, and then a sync.RWMutex
\* grants no further read lock.
Held == \E u \in Clients : reading[u] # Idle
WriterWaits == pc \in {"advance", "final"} \/ waiting # {}

RLock(u) == pc # "crashed" /\ reading[u] = Idle /\ ~ WriterWaits

TickOf(board) == IF board = Nil THEN 0 ELSE board.tick

\* Whether encoding/json can write a board: the uptime points of a service without a
\* check are 0/0 (setServiceOverallScore), and Encode refuses a NaN and writes nothing.
Encodes(board) ==
    board # Nil => \A id \in TeamIds, s \in Services :
        board.teams[id][s].ok + board.teams[id][s].fail > 0

\* Mutant: the page shows the board of the tick that runs.
renderScoreboard_Current(u) ==
    /\ RLock(u)
    /\ seen' = [seen EXCEPT ![u] = TickOf(currentState)]
    /\ UNCHANGED reading

\* renderScoreboard formats the overall state before it returns.
renderScoreboard(u) ==
    /\ RLock(u)
    /\ seen' = [seen EXCEPT ![u] = TickOf(overallState)]
    /\ UNCHANGED reading

\* GET /api/scoreboard. When Encode fails, here and below, the error is logged and the
\* lock released: nothing is sent.
getOverall(u) ==
    /\ RLock(u)
    /\ Encodes(overallState)
    /\ reading' = [reading EXCEPT ![u] = [tick |-> 0, board |-> overallState]]
    /\ UNCHANGED seen

\* GET /api/scoreboard/{tick}. A later tick is not found; a tick below 1 panics, and
\* the deferred RUnlock runs. Neither leaves a trace.
getTick(u, n) ==
    /\ RLock(u)
    /\ n \in DOMAIN ticks
    /\ Encodes(ticks[n])
    /\ reading' = [reading EXCEPT ![u] = [tick |-> n, board |-> ticks[n]]]
    /\ UNCHANGED seen

\* The client has taken the answer, or is gone.
Answered(u) ==
    /\ reading[u] # Idle
    /\ reading' = [reading EXCEPT ![u] = Idle]
    /\ seen' = IF reading[u].tick = 0 THEN [seen EXCEPT ![u] = TickOf(reading[u].board)]
               ELSE seen

\* Mutant: the boards are replaced without the lock.
LockedStep_NoLock == TickUpdate \/ FinalUpdate \/ \E c \in Conns : SubmitLocked(c)

\* The steps of the game that hold scoreboardMtx for writing.
LockedStep ==
    /\ ~ Held
    /\ TickUpdate \/ FinalUpdate \/ \E c \in Conns : SubmitLocked(c)

FreeStep ==
    \/ Start \/ TickBegin \/ TickEnd \/ EndTimer \/ Stop
    \/ \E k \in CheckIds : CheckStep(k)
    \/ \E c \in Conns : SubmitArrive(c)

PagesInit ==
    /\ Init
    /\ reading = [u \in Clients |-> Idle]
    /\ seen = [u \in Clients |-> 0]

PagesNext ==
    \/ (FreeStep \/ LockedStep) /\ UNCHANGED pageVars
    \/ /\ \E u \in Clients :
             \/ renderScoreboard(u) \/ getOverall(u) \/ Answered(u)
             \/ \E n \in 0 .. TotalTicks : getTick(u, n)
       /\ UNCHANGED vars

PagesSpec == PagesInit /\ [][PagesNext]_allVars

\* The loop and every check go on: each check runs under a timeout and the end timer
\* fires. A sync.RWMutex is granted to every goroutine that waits for it. And every
\* client takes its answer: nothing in the server limits how long that may last.
PagesFairness ==
    /\ WF_allVars((Start \/ TickBegin \/ TickEnd \/ EndTimer \/ Stop) /\ UNCHANGED pageVars)
    /\ WF_allVars(~ Held /\ (TickUpdate \/ FinalUpdate) /\ UNCHANGED pageVars)
    /\ \A k \in CheckIds : WF_allVars(CheckStep(k) /\ UNCHANGED pageVars)
    /\ \A c \in Conns : WF_allVars(~ Held /\ SubmitLocked(c) /\ UNCHANGED pageVars)
    /\ \A u \in Clients : WF_allVars(Answered(u) /\ UNCHANGED vars)

FairPagesSpec == PagesSpec /\ PagesFairness

-----------------------------------------------------------------------------
\* A board does not change while it is being sent, although checks, submissions and the
\* loop go on: every answer is one board, the overall state or that of its tick.
AnswerIsOneBoard ==
    \A u \in Clients : reading[u] # Idle =>
        reading[u].board = IF reading[u].tick = 0 THEN overallState ELSE ticks[reading[u].tick]

\* A tick that a client has seen on the scoreboard is found by
\* GET /api/scoreboard/{tick} from then on, as the board of that tick; and if every
\* service has a check, that board can be sent. (Otherwise none can.)
SeenTickIsServed ==
    \A u \in Clients : seen[u] # 0 =>
        /\ seen[u] \in DOMAIN ticks
        /\ ticks[seen[u]].tick = seen[u]
        /\ Services \subseteq Checks => Encodes(ticks[seen[u]])

\* The scoreboard a client sees never goes back to an earlier tick, whether it asks for
\* the page or for the JSON and however long it takes to receive the answer.
SeenNeverGoesBack == [][\A u \in Clients : seen[u] <= seen'[u]]_allVars
==============================================================================
