------------------------------ MODULE TickLoop ------------------------------
(***************************************************************************)
(* The clock of the game: the select loop of Start with its ticker and its *)
(* end timer, how long Tick keeps the loop busy, and the timeline events   *)
(* Tick runs (cmd/ad/game.go, cmd/ad/config.go). Time is counted in units  *)
(* after TimeScale; the loop takes a ready case of its select at once, and *)
(* when both are ready either may win.                                     *)
(***************************************************************************)
EXTENDS Integers, FiniteSets

CONSTANTS
    TickRate,      \* Config.TickRate
    Duration,      \* Config.Duration
    CheckTimeout,  \* the longest Timeout of a scorebot check
    LongestRead,   \* how long the requests that hold scoreboardMtx can keep Tick waiting
    Events,        \* the entries of Config.Timeline
    At,            \* At[e]: when e is due
    Foreground,    \* the events whose Background is false
    Horizon        \* bound of the clock, past the end of every game

ASSUME ClockAssumption ==
    /\ TickRate \in Nat /\ TickRate >= 2
    /\ Duration \in Nat
    /\ CheckTimeout \in Nat
    /\ LongestRead \in Nat
    /\ At \in [Events -> Nat]
    /\ Foreground \subseteq Events
    /\ Horizon \in Nat /\ Horizon >= Duration + 4 * TickRate

VARIABLES
    now,          \* the clock
    nextFire,     \* when the ticker fires next
    tickC,        \* whether game.Ticker.C, of capacity 1, holds a tick
    endC,         \* whether endTime.C holds its value
    pc,           \* "select", "tick" or "done"
    busyUntil,    \* when the Tick being run returns
    currentTick,  \* game.CurrentTick
    ran,          \* how often each timeline event has been run
    overrun       \* history: by how much the ticks so far took longer than TickRate

vars == <<now, nextFire, tickC, endC, pc, busyUntil, currentTick, ran, overrun>>

TotalTicks == Duration \div TickRate

\* Mutant: the game ends with its duration.
EndTime_NoExtraTick == Duration

EndTime == Duration + TickRate

\* TimelineEvent.Tick; mutant: the tick after the one the event is due in.
TickOf_RoundedUp(e) == At[e] \div TickRate + 1

TickOf(e) == At[e] \div TickRate

\* How long Tick may take. Its context ends one TickRate after its start. First it waits
\* for scoreboardMtx, which the handlers of the JSON pages hold until the client has taken
\* the answer: that wait heeds no context and has no limit in the code (LongestRead).
\* The foreground events and the scorebot command of a check end with the context; the
\* random sleep before the command, below half a TickRate, does not heed it.
BodyLengths(tick) ==
    LET waits == 0 .. LongestRead
        eventTimes == IF \E e \in Foreground : TickOf(e) = tick
                      THEN 0 .. TickRate ELSE {0}
        sleeps == 0 .. (TickRate \div 2 - 1)
    IN  {x[1] + x[2] + x[3] + x[4] :
            x \in {y \in waits \X eventTimes \X sleeps \X (0 .. CheckTimeout) :
                     /\ y[2] > 0 => y[1] + y[2] <= TickRate
                     /\ y[4] > 0 => y[1] + y[2] + y[3] + y[4] <= TickRate}}

\* By how much a tick of length len is too long ("tick took too long").
Excess(len) == IF len > TickRate THEN len - TickRate ELSE 0

\* Mutant: the ticker starts full.
Init_FullTicker ==
    /\ now = 0
    /\ nextFire = TickRate
    /\ tickC = TRUE
    /\ endC = FALSE
    /\ pc = "select"
    /\ busyUntil = 0
    /\ currentTick = 0
    /\ ran = [e \in Events |-> 0]
    /\ overrun = 0

Init ==
    /\ now = 0
    /\ nextFire = TickRate
    /\ tickC = FALSE
    /\ endC = FALSE
    /\ pc = "select"
    /\ busyUntil = 0
    /\ currentTick = 0
    /\ ran = [e \in Events |-> 0]
    /\ overrun = 0

\* One unit of time passes while the loop waits or Tick runs. A ticker whose channel
\* is full drops its tick.
Elapse ==
    /\ \/ pc = "select" /\ ~ tickC /\ ~ endC
       \/ pc = "tick" /\ now < busyUntil
    /\ now < Horizon
    /\ now' = now + 1
    /\ tickC' = (tickC \/ now' = nextFire)
    /\ nextFire' = IF now' = nextFire THEN nextFire + TickRate ELSE nextFire
    /\ endC' = (endC \/ now' = EndTime)
    /\ UNCHANGED <<pc, busyUntil, currentTick, ran, overrun>>

\* case <-game.Ticker.C: Tick starts, and runs the events of its tick.
TickStarts ==
    /\ pc = "select" /\ tickC
    /\ currentTick < TotalTicks
    /\ tickC' = FALSE
    /\ currentTick' = currentTick + 1
    /\ ran' = [e \in Events |-> IF TickOf(e) = currentTick' THEN ran[e] + 1 ELSE ran[e]]
    /\ \E len \in BodyLengths(currentTick') :
           /\ busyUntil' = now + len
           /\ overrun' = overrun + Excess(len)
    /\ pc' = "tick"
    /\ UNCHANGED <<now, nextFire, endC>>

\* case <-game.Ticker.C after the last tick: Tick returns at once.
TickPastEnd ==
    /\ pc = "select" /\ tickC
    /\ currentTick >= TotalTicks
    /\ tickC' = FALSE
    /\ UNCHANGED <<now, nextFire, endC, pc, busyUntil, currentTick, ran, overrun>>

TickReturns ==
    /\ pc = "tick"
    /\ now = busyUntil
    /\ pc' = "select"
    /\ UNCHANGED <<now, nextFire, tickC, endC, busyUntil, currentTick, ran, overrun>>

\* Mutant: break without its label leaves only the select.
GameOver_BreaksSelect ==
    /\ pc = "select" /\ endC
    /\ endC' = FALSE
    /\ UNCHANGED <<now, nextFire, tickC, pc, busyUntil, currentTick, ran, overrun>>

\* case <-endTime.C: break outer.
GameOver ==
    /\ pc = "select" /\ endC
    /\ endC' = FALSE
    /\ pc' = "done"
    /\ UNCHANGED <<now, nextFire, tickC, busyUntil, currentTick, ran, overrun>>

Next == Elapse \/ TickStarts \/ TickPastEnd \/ TickReturns \/ GameOver

\* Time passes and the loop's goroutine is scheduled.
Spec == Init /\ [][Next]_vars /\ WF_vars(Next)

-----------------------------------------------------------------------------
\* The variables have their types, and the tick counter stays within the game.
TypeOK ==
    /\ now \in 0 .. Horizon
    /\ nextFire \in Nat
    /\ tickC \in BOOLEAN
    /\ endC \in BOOLEAN
    /\ pc \in {"select", "tick", "done"}
    /\ busyUntil \in Nat
    /\ currentTick \in 0 .. TotalTicks
    /\ ran \in [Events -> Nat]
    /\ overrun \in Nat

\* A tick never starts before its time: tick n is n tick rates into the game.
NeverAhead == currentTick <= now \div TickRate

\* An event due in a tick the game has had, from tick 1 on, was run once, however late
\* the loop was. (One due before the first tick belongs to tick 0 and never runs, and a
\* tick lost at the end of the game takes its events with it.)
DueEventsRunOnce ==
    pc = "done" => \A e \in Events :
        At[e] \in TickRate .. (currentTick * TickRate) => ran[e] = 1

\* When Start leaves its loop it has run TotalTicks ticks ("Always add one tick on the
\* end so the game has exactly the right number of ticks", game.go:1037), less one for
\* each whole tick rate by which its ticks were too long together: the ticks the ticker
\* drops while Tick is busy and those the end timer cuts off (game.go:1040-1050) never add
\* up to more, however the excess is spread over the game. So a game whose ticks exceed
\* TickRate by less than one TickRate in all loses none.
FewTicksAreLost ==
    pc = "done" => TickRate * (TotalTicks - currentTick) <= overrun

\* Start leaves its loop, however long its ticks take, as long as each returns: the end
\* timer is never starved.
Terminates == <>(pc = "done")
=============================================================================
