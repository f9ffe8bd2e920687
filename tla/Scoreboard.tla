----------------------------- MODULE Scoreboard -----------------------------
(***************************************************************************)
(* The scoreboard of the attack/defense game (cmd/ad/game.go): the game    *)
(* loop (Start, Tick, updateScoreboard, summarizeState), the scorebot      *)
(* checks a tick runs in parallel, and the flag submissions (submitFlag)   *)
(* that arrive from the TCP service and from POST /api/flag meanwhile.     *)
(*                                                                         *)
(* The slices StolenFlags and LostFlags are kept up to order, as the       *)
(* number of times each FlagInfo occurs: no code looks at their order.     *)
(* Names, points and positions are left to module Scoring, the clock to    *)
(* module TickLoop; here the end timer may fire at any select.             *)
(***************************************************************************)
EXTENDS Integers, FiniteSets, Sequences

CONSTANTS
    NumTeams,        \* len(game.Teams); team IDs are 0 .. NumTeams-1
    BotEnabled,      \* Config.Vulnbox.Bot.Enabled
    NumServices,     \* len(Config.Vulnbox.Services)
    Checks,          \* the service Ids of Config.ScoreBot.Checks
    TotalTicks,      \* TotalTicks()
    FlagValidTicks,  \* FlagValidTicks()
    Conns,           \* the connections and requests that submit flags
    Submitter,       \* Submitter[c]: the ID of the team or bot behind c
    Route,           \* Route[c]: "tcp" (port 5000) or "http" (POST /api/flag)
    Nil              \* the nil *ScoreboardState

BOT_ID_OFFSET == 65535

TeamOnlyIds == 0 .. (NumTeams - 1)
BotId(t) == t + BOT_ID_OFFSET
TeamIds ==
    TeamOnlyIds \cup (IF BotEnabled THEN {BotId(t) : t \in TeamOnlyIds} ELSE {})
Services == 0 .. (NumServices - 1)

\* What a flag's text says, and what a scoreboard keeps of it.
Flag == [tick : 1 .. TotalTicks, team : TeamIds, service : Services]
FlagInfo == [team : TeamIds, tick : 1 .. TotalTicks]

ServiceState == [stolen : [FlagInfo -> Nat], lost : [FlagInfo -> Nat],
                 ok : Nat, fail : Nat]
Board == [tick : Nat, teams : [TeamIds -> [Services -> ServiceState]]]

ASSUME CountsAssumption ==
    /\ NumTeams \in 1 .. BOT_ID_OFFSET
    /\ BotEnabled \in BOOLEAN
    /\ NumServices \in Nat
    /\ Checks \subseteq Services
    /\ TotalTicks \in Nat
    /\ FlagValidTicks \in Nat

ASSUME ConnsAssumption ==
    /\ Submitter \in [Conns -> TeamIds]
    /\ Route \in [Conns -> {"tcp", "http"}]

ASSUME NilAssumption == Nil \notin Board

VARIABLES
    running,       \* game.Running
    currentTick,   \* game.CurrentTick
    currentState,  \* game.CurrentState
    ticks,         \* game.Ticks
    overallState,  \* game.OverallState
    pc,            \* where the goroutine of Start is
    checks,        \* the scorebot goroutines of the tick being run
    issued,        \* the flags handed to a scorebot so far
    waiting,       \* submissions past the Running test, before the mutex
    accepted       \* history: the accepted submissions and the board of each

loopVars == <<running, currentTick, pc, checks, issued>>
boardVars == <<currentState, ticks, overallState>>
vars == <<running, currentTick, currentState, ticks, overallState, pc,
          checks, issued, waiting, accepted>>

CheckIds == TeamIds \X Checks

-----------------------------------------------------------------------------
(* summarizeState and updateScoreboard *)

\* The sum of a function to Nat, as the number of its units.
Total(f) == Cardinality(UNION {{i} \X (1 .. f[i]) : i \in DOMAIN f})

LatestTick(tks) ==
    CHOOSE n \in {0} \cup {tks[i].tick : i \in DOMAIN tks} :
        \A i \in DOMAIN tks : tks[i].tick <= n

SumService(tks, id, s) ==
    [stolen |-> [f \in FlagInfo |->
        Total([i \in DOMAIN tks |-> tks[i].teams[id][s].stolen[f]])],
     lost |-> [f \in FlagInfo |->
        Total([i \in DOMAIN tks |-> tks[i].teams[id][s].lost[f]])],
     ok |-> Total([i \in DOMAIN tks |-> tks[i].teams[id][s].ok]),
     fail |-> Total([i \in DOMAIN tks |-> tks[i].teams[id][s].fail])]

summarizeState(tks) ==
    [tick |-> LatestTick(tks),
     teams |-> [id \in TeamIds |-> [s \in Services |-> SumService(tks, id, s)]]]

EmptyService ==
    [stolen |-> [f \in FlagInfo |-> 0], lost |-> [f \in FlagInfo |-> 0],
     ok |-> 0, fail |-> 0]

FreshBoard(tick) ==
    [tick |-> tick, teams |-> [id \in TeamIds |-> [s \in Services |-> EmptyService]]]

\* Mutants: forgetting the nil test, the old ticks, the flags of the tick that
\* closes, and stamping the new board before CurrentTick moves.
updateScoreboard_NoNilTest ==
    /\ ticks' = Append(ticks, IF currentState = Nil THEN FreshBoard(0)
                              ELSE summarizeState(<<currentState>>))
    /\ overallState' = summarizeState(ticks')
    /\ currentState' = FreshBoard(currentTick)
updateScoreboard_LastTickOnly ==
    /\ IF currentState = Nil
       THEN UNCHANGED <<ticks, overallState>>
       ELSE /\ ticks' = <<summarizeState(<<currentState>>)>>
            /\ overallState' = summarizeState(ticks')
    /\ currentState' = FreshBoard(currentTick)
updateScoreboard_ResetFirst ==
    /\ IF currentState = Nil
       THEN UNCHANGED <<ticks, overallState>>
       ELSE /\ ticks' = Append(ticks, FreshBoard(currentState.tick))
            /\ overallState' = summarizeState(ticks')
    /\ currentState' = FreshBoard(currentTick)
updateScoreboard_StaleTick ==
    /\ IF currentState = Nil
       THEN UNCHANGED <<ticks, overallState>>
       ELSE /\ ticks' = Append(ticks, summarizeState(<<currentState>>))
            /\ overallState' = summarizeState(ticks')
    /\ currentState' = FreshBoard(currentTick - 1)

updateScoreboard ==
    /\ IF currentState = Nil
       THEN UNCHANGED <<ticks, overallState>>
       ELSE /\ ticks' = Append(ticks, summarizeState(<<currentState>>))
            /\ overallState' = summarizeState(ticks')
    /\ currentState' = FreshBoard(currentTick)

-----------------------------------------------------------------------------
(* submitFlag *)

\* A submitted text: the triple its fields parse to (strconv.Atoi maps every
\* spelling of a number to that number) and what its signature signs, if anything.
\* Besides the genuine flags, a triple under the signature of a flag, or under none.
Guess == [tick |-> 1, team |-> 0, service |-> 0]
Texts == {[fields |-> f, sig |-> {f}] : f \in issued}
         \cup {[fields |-> Guess, sig |-> {g}] : g \in issued}
         \cup {[fields |-> Guess, sig |-> {}]}

\* The signature is checked over the triple printed back in canonical form.
Verify(text) == text.sig = {text.fields}

InfoOf(flag) == [team |-> flag.team, tick |-> flag.tick]

\* Mutant: only the flags of the current tick are looked at.
alreadyStolen_ThisTick(id, flag) ==
    currentState.teams[id][flag.service].stolen[InfoOf(flag)] > 0

\* Whether flagsStolenBy(info, serviceId) holds the flag already.
alreadyStolen(id, flag) ==
    \/ overallState.teams[id][flag.service].stolen[InfoOf(flag)] > 0
    \/ currentState.teams[id][flag.service].stolen[InfoOf(flag)] > 0

\* Mutant: off by one.
Expired_OffByOne(flag) == flag.tick + 1 < currentState.tick - FlagValidTicks

Expired(flag) == flag.tick < currentState.tick - FlagValidTicks

\* What submitFlag returns under the mutex; "PANIC" is the dereference of a
\* nil CurrentState or OverallState.
submitStatus(id, text) ==
    LET flag == text.fields IN
    IF ~ Verify(text) THEN "INVALID_FLAG"
    ELSE IF flag.team = id THEN "FLAG_FROM_OWN_TEAM"
    ELSE IF flag.service \notin Services THEN "INVALID_SERVICE"
    ELSE IF currentState = Nil THEN "PANIC"
    ELSE IF Expired(flag) THEN "FLAG_EXPIRED"
    ELSE IF flag.tick > currentState.tick THEN "FLAG_NOT_YET_VALID"
    ELSE IF overallState = Nil THEN "PANIC"
    ELSE IF alreadyStolen(id, flag) THEN "FLAG_ALREADY_STOLEN"
    ELSE "FLAG_ACCEPTED"

\* Mutant: the victim's row names the victim, not the thief.
creditFlag_NamesVictim(id, flag) ==
    currentState' = [currentState EXCEPT
        !.teams[id][flag.service].stolen[InfoOf(flag)] = @ + 1,
        !.teams[flag.team][flag.service].lost[InfoOf(flag)] = @ + 1]

\* The two appends of an accepted flag: to the thief's row and the victim's.
creditFlag(id, flag) ==
    LET stolen == [currentState EXCEPT !.teams[id][flag.service].stolen[InfoOf(flag)] = @ + 1]
        lostTo == [team |-> id, tick |-> flag.tick]
    IN  currentState' = [stolen EXCEPT !.teams[flag.team][flag.service].lost[lostTo] = @ + 1]

\* The test of Running, before the mutex. (When it fails nothing changes.)
SubmitArrive(c) ==
    /\ running
    /\ c \notin waiting
    /\ waiting' = waiting \cup {c}
    /\ UNCHANGED <<loopVars, boardVars, accepted>>

SubmitAccepted(c, text) ==
    /\ c \in waiting
    /\ submitStatus(Submitter[c], text) = "FLAG_ACCEPTED"
    /\ creditFlag(Submitter[c], text.fields)
    /\ accepted' = accepted \cup
         {[thief |-> Submitter[c], flag |-> text.fields, board |-> Len(ticks) + 1]}
    /\ waiting' = waiting \ {c}
    /\ UNCHANGED <<loopVars, ticks, overallState>>

SubmitRejected(c, text) ==
    /\ c \in waiting
    /\ submitStatus(Submitter[c], text) \notin {"FLAG_ACCEPTED", "PANIC"}
    /\ waiting' = waiting \ {c}
    /\ UNCHANGED <<loopVars, boardVars, accepted>>

\* net/http recovers the panic of a handler; nothing recovers the one of the
\* TCP service, and the process dies. The deferred Unlock runs in both cases.
SubmitPanics(c, text) ==
    /\ c \in waiting
    /\ submitStatus(Submitter[c], text) = "PANIC"
    /\ IF Route[c] = "http"
       THEN /\ waiting' = waiting \ {c}
            /\ UNCHANGED <<running, pc>>
       ELSE /\ waiting' = {}
            /\ running' = FALSE
            /\ pc' = "crashed"
    /\ UNCHANGED <<currentTick, checks, issued, boardVars, accepted>>

SubmitLocked(c) ==
    \E text \in Texts :
        SubmitAccepted(c, text) \/ SubmitRejected(c, text) \/ SubmitPanics(c, text)

-----------------------------------------------------------------------------
(* The game loop *)

Start ==
    /\ pc = "boot"
    /\ running' = TRUE
    /\ pc' = "select"
    /\ UNCHANGED <<currentTick, checks, issued, boardVars, waiting, accepted>>

\* Mutant: the tick counter is not tested.
TickBegin_NoLimit ==
    /\ pc = "select"
    /\ currentTick' = currentTick + 1
    /\ pc' = "advance"
    /\ UNCHANGED <<running, checks, issued, boardVars, waiting, accepted>>

\* Tick up to the call of updateScoreboard. (Past the last tick it does nothing.)
TickBegin ==
    /\ pc = "select"
    /\ currentTick < TotalTicks
    /\ currentTick' = currentTick + 1
    /\ pc' = "advance"
    /\ UNCHANGED <<running, checks, issued, boardVars, waiting, accepted>>

\* updateScoreboard under the mutex, then one goroutine per team, bot and check.
TickUpdate ==
    /\ pc = "advance"
    /\ updateScoreboard
    /\ checks' = [k \in CheckIds |-> "delay"]
    /\ pc' = "checks"
    /\ UNCHANGED <<running, currentTick, issued, waiting, accepted>>

\* After its random delay a check generates its flag and hands it to the scorebot.
CheckPlant(k) ==
    /\ pc = "checks"
    /\ checks[k] = "delay"
    /\ checks' = [checks EXCEPT ![k] = "running"]
    /\ issued' = issued \cup {[tick |-> currentTick, team |-> k[1], service |-> k[2]]}
    /\ UNCHANGED <<running, currentTick, pc, boardVars, waiting, accepted>>

\* The scorebot answers, fails or times out. The counters are not under the mutex.
CheckSucceeds(k) ==
    /\ pc = "checks"
    /\ checks[k] = "running"
    /\ checks' = [checks EXCEPT ![k] = "done"]
    /\ currentState' = [currentState EXCEPT !.teams[k[1]][k[2]].ok = @ + 1]
    /\ UNCHANGED <<running, currentTick, pc, issued, ticks, overallState, waiting, accepted>>

\* Mutant: a failed check returns without its wg.Done.
CheckFails_Hangs(k) ==
    /\ pc = "checks"
    /\ checks[k] = "running"
    /\ checks' = [checks EXCEPT ![k] = "hung"]
    /\ UNCHANGED <<running, currentTick, pc, issued, boardVars, waiting, accepted>>

CheckFails(k) ==
    /\ pc = "checks"
    /\ checks[k] = "running"
    /\ checks' = [checks EXCEPT ![k] = "done"]
    /\ currentState' = [currentState EXCEPT !.teams[k[1]][k[2]].fail = @ + 1]
    /\ UNCHANGED <<running, currentTick, pc, issued, ticks, overallState, waiting, accepted>>

\* Mutant: Tick waits for the checks to start, not to end.
ChecksFinished_Started == \A k \in CheckIds : checks[k] # "delay"

\* The two nested WaitGroups.
ChecksFinished == \A k \in CheckIds : checks[k] = "done"

TickEnd ==
    /\ pc = "checks"
    /\ ChecksFinished
    /\ pc' = "select"
    /\ UNCHANGED <<running, currentTick, checks, issued, boardVars, waiting, accepted>>

EndTimer ==
    /\ pc = "select"
    /\ pc' = "final"
    /\ UNCHANGED <<running, currentTick, checks, issued, boardVars, waiting, accepted>>

FinalUpdate ==
    /\ pc = "final"
    /\ updateScoreboard
    /\ pc' = "closing"
    /\ UNCHANGED <<running, currentTick, checks, issued, waiting, accepted>>

Stop ==
    /\ pc = "closing"
    /\ running' = FALSE
    /\ pc' = "over"
    /\ UNCHANGED <<currentTick, checks, issued, boardVars, waiting, accepted>>

Init ==
    /\ running = FALSE
    /\ currentTick = 0
    /\ currentState = Nil
    /\ ticks = <<>>
    /\ overallState = Nil
    /\ pc = "boot"
    /\ checks = [k \in CheckIds |-> "done"]
    /\ issued = {}
    /\ waiting = {}
    /\ accepted = {}

CheckStep(k) == CheckPlant(k) \/ CheckSucceeds(k) \/ CheckFails(k)

Next ==
    \/ Start \/ TickBegin \/ TickUpdate \/ TickEnd
    \/ EndTimer \/ FinalUpdate \/ Stop
    \/ \E k \in CheckIds : CheckStep(k)
    \/ \E c \in Conns : SubmitArrive(c) \/ SubmitLocked(c)

Spec == Init /\ [][Next]_vars

-----------------------------------------------------------------------------
(* flagIds: the flags whose ids GET /api/flagIds lists, for teams only. *)

\* Mutant: the current tick is listed too.
flagIds_WithCurrent ==
    {f \in Flag : /\ f.team \in TeamOnlyIds
                  /\ f.service \in Checks
                  /\ f.tick \in (currentTick - FlagValidTicks + 1) .. currentTick}

flagIds ==
    {f \in Flag : /\ f.team \in TeamOnlyIds
                  /\ f.service \in Checks
                  /\ f.tick \in (currentTick - FlagValidTicks + 1) .. (currentTick - 1)}

-----------------------------------------------------------------------------
(* Properties *)

\* Every board of the game so far: the closed ones and the one being filled.
Boards == IF currentState = Nil THEN ticks ELSE Append(ticks, currentState)

StolenIn(board, id, flag) == board.teams[id][flag.service].stolen[InfoOf(flag)]

LostIn(board, id, flag) ==
    board.teams[flag.team][flag.service].lost[[team |-> id, tick |-> flag.tick]]

\* The variables have the types their declarations in game.go give them.
TypeOK ==
    /\ running \in BOOLEAN
    /\ currentTick \in 0 .. TotalTicks
    /\ currentState \in Board \cup {Nil}
    /\ ticks \in Seq(Board)
    /\ overallState \in Board \cup {Nil}
    /\ pc \in {"boot", "select", "advance", "checks", "final", "closing",
              "over", "crashed"}
    /\ checks \in [CheckIds -> {"delay", "running", "done"}]
    /\ issued \subseteq Flag
    /\ waiting \subseteq Conns
    /\ accepted \subseteq [thief : TeamIds, flag : Flag, board : Nat]

\* submitFlag credits a flag to a thief at most once in the whole game, however
\* many connections submit it and in whichever ticks ("It also ensures that the
\* flag is not counted twice", game.go:251).
NoDoubleSteal ==
    \A id \in TeamIds, flag \in Flag : \A i, j \in DOMAIN Boards :
        /\ StolenIn(Boards[i], id, flag) <= 1
        /\ StolenIn(Boards[i], id, flag) > 0 /\ StolenIn(Boards[j], id, flag) > 0
              => i = j

\* Attack and defense points balance in every board: each flag a row has stolen
\* is lost by the row it was stolen from, to that thief and as often.
StolenLostMirror ==
    \A i \in DOMAIN Boards, id \in TeamIds, flag \in Flag :
        StolenIn(Boards[i], id, flag) = LostIn(Boards[i], id, flag)

\* An accepted flag is counted in the board that was current when submitFlag held
\* the mutex, and stays there when the tick closes (game.go:250, :252).
CountedForItsTick ==
    \A a \in accepted :
        /\ a.board \in DOMAIN Boards
        /\ StolenIn(Boards[a.board], a.thief, a.flag) = 1

\* Tick n of the game is entry n of Ticks (what GET /api/scoreboard/{tick} relies
\* on), and the overall state is as old as the last closed tick.
TickNumbering ==
    /\ \A n \in DOMAIN ticks : ticks[n].tick = n
    /\ overallState # Nil => overallState.tick = Len(ticks)
    /\ (overallState = Nil) = (ticks = <<>>)

\* Every closed tick has exactly one uptime result for each row and each checked
\* service, and none for the others: Tick waits for all its checks, and no check
\* reports into the board of another tick.
UptimeComplete ==
    \A n \in DOMAIN ticks : \A id \in TeamIds, s \in Services :
        ticks[n].teams[id][s].ok + ticks[n].teams[id][s].fail
            = (IF s \in Checks THEN 1 ELSE 0)

\* No genuine flag is ever refused with FLAG_NOT_YET_VALID: the board is moved to
\* the new tick before a scorebot learns a flag of that tick.
NoEarlyFlag ==
    \A flag \in issued : currentState # Nil /\ flag.tick <= currentState.tick

\* GET /api/flagIds only names flags that were already given to the scorebot
\* ("avoid leaking flag ids before they're used", private.go:199), and none that
\* submitFlag would call expired.
FlagIdsArePlanted == \A flag \in flagIds : flag \in issued /\ ~ Expired(flag)

\* A closed tick never changes again, whatever is submitted or checked later.
ClosedTicksStay ==
    [][\A n \in DOMAIN ticks : n \in DOMAIN ticks' /\ ticks'[n] = ticks[n]]_vars

\* Once started the game comes to an end (or the process dies).
GameEnds == running ~> pc \in {"over", "crashed"}

\* Every accepted flag is in the final overall state ("if a new tick if about to
\* start the flag will be counted for the current tick", game.go:252).
AcceptedIsScored ==
    pc = "over" => \A a \in accepted :
        overallState # Nil /\ StolenIn(overallState, a.thief, a.flag) = 1

\* A valid flag of another team that reaches the mutex in time is counted, or was
\* before ("Locking the mutex now ensures the flag is counted for the current
\* tick", game.go:250).
ValidFlagIsCounted ==
    \A c \in waiting, flag \in issued :
        flag.team # Submitter[c] /\ ~ Expired(flag) =>
            submitStatus(Submitter[c], [fields |-> flag, sig |-> {flag}])
                \in {"FLAG_ACCEPTED", "FLAG_ALREADY_STOLEN"}

-----------------------------------------------------------------------------
(* The ledger the boards implement *)

Now == IF currentState = Nil THEN 0 ELSE currentState.tick

\* The credits of the whole game: the stolen flags of all boards together.
Credits ==
    [id \in TeamIds |-> [flag \in Flag |->
        Total([i \in DOMAIN Boards |-> StolenIn(Boards[i], id, flag)])]]

Ledger == INSTANCE FlagLedger WITH
    Thieves <- TeamIds, Flags <- Flag, Window <- FlagValidTicks,
    now <- Now, planted <- issued, credits <- Credits

\* Seen as one ledger, the boards take and keep credits as FlagLedger says: none is
\* given twice, early, late or to the flag's own team, and the closing of a tick
\* in updateScoreboard neither loses nor repeats one.
LedgerSpec == Ledger!Spec
=============================================================================
