-------------------------------- MODULE Boot --------------------------------
(***************************************************************************)
(* Run from the start of the scorebot to its return (cmd/ad/game.go,       *)
(* team.go, scorebot.go, tinyrange.go): the start of every instance, the   *)
(* teams in parallel, the template cache, the start event that an          *)
(* administrator posts, and the deferred cleanup; and the users who come   *)
(* while it runs, over the SSH server, the web terminal and the page of    *)
(* the vulnboxes. No lock protects the maps FlowRouter.instances and       *)
(* Events; the Go runtime may end the process when it meets a read or      *)
(* write during a write.                                                   *)
(***************************************************************************)
EXTENDS Integers, Sequences, FiniteSets

CONSTANTS
    TeamList,     \* game.Teams
    Main,         \* the goroutine of Run
    Posters,      \* requests to POST /api/event
    Asked,        \* the instances that a user asks for by their names
    BotEnabled,   \* Config.Vulnbox.Bot.Enabled
    HealthChecked,\* whether Config.Vulnbox.HealthCheck.Kind is set
    Wait,         \* Config.Wait
    WaitAfter,    \* Config.WaitAfter
    Template,     \* Template[k]: the template of the instances of kind k
    Hostnames,    \* the ways team names can turn into hostnames of instances
    Leftovers     \* the sets of instances whose SSH file an earlier run left behind

Teams == {TeamList[k] : k \in DOMAIN TeamList}
Kinds == {"scorebot", "team", "soc"} \cup (IF BotEnabled THEN {"bot"} ELSE {})
Workers == Teams \cup {Main}
Instances == {<<Main, "scorebot">>} \cup (Teams \X (Kinds \ {"scorebot"}))

ASSUME BootAssumption ==
    /\ TeamList \in Seq(Teams) /\ Main \notin Teams
    /\ {BotEnabled, HealthChecked, Wait, WaitAfter} \subseteq BOOLEAN
    /\ DOMAIN Template = Kinds
    /\ \A h \in Hostnames : DOMAIN h = Instances
    /\ Asked \subseteq Instances
    /\ \A l \in Leftovers : l \subseteq Instances

VARIABLES
    host,        \* the hostname of each instance
    main,        \* where Run is
    kind,        \* kind[w]: which kind of instance w is starting
    step,        \* step[w]: where w is in its start
    cached,      \* game.tinyRangeTemplates
    flow,        \* FlowRouter.instances: the instance behind the handler of a hostname
    proc,        \* proc[i]: the process of instance i: "none", "launched" (it may have
                 \* ended by itself since, nobody looks) or "stopped"
    sshFile,     \* the secure SSH file of each instance: "none", "old" (an earlier
                 \* machine's) or "new" (that of the one launched now)
    sshConfig,   \* sshConfig[i]: what sshClientConfig was read from, or "none"
    recorded,    \* the instances held by a Team or by ScoreBotConfig
    errChan,     \* how many errors errChan of ForAllTeams holds
    startEvent,  \* whether Events has "start"
    started,     \* whether the channel start is closed
    poster,      \* where each POST /api/event is
    user,        \* where the user is, and the instance
    notStopped   \* the instances whose Stop failed

starting == <<kind, step, cached, flow, proc, recorded>>
events == <<startEvent, started, poster>>
ssh == <<sshFile, sshConfig>>
vars == <<host, main, starting, ssh, errChan, events, user, notStopped>>

Nobody == [at |-> "none"]
Malformed == [at |-> "malformed"]    \* a channel whose ExtraData is too short
Submission == [at |-> "flag"]        \* a flag submitted over TCP

Alive == main \notin {"returned", "crashed"}
Inst(w) == <<w, kind[w]>>
At(w, where) == Alive /\ step[w] = where
Goes(w, where) == step' = [step EXCEPT ![w] = where]

\* The process ends and its memory is gone; its machines and their files stay.
Crash ==
    /\ main' = "crashed"
    /\ kind' = [w \in Workers |-> IF w = Main THEN "scorebot" ELSE "team"]
    /\ step' = [w \in Workers |-> "none"]
    /\ cached' = {} /\ flow' = [h \in {} |-> Main] /\ recorded' = {}
    /\ sshConfig' = [i \in Instances |-> "none"]
    /\ errChan' = 0
    /\ startEvent' = FALSE /\ started' = FALSE
    /\ poster' = [p \in Posters |-> "idle"]
    /\ user' = Nobody
    /\ UNCHANGED <<host, proc, sshFile, notStopped>>

\* A team's goroutine reports its error; an error of the scorebot ends Run.
Fail(w) ==
    \/ w # Main /\ Goes(w, "error") /\ UNCHANGED main
    \/ w = Main /\ Goes(w, "failed") /\ main' = "cleanup"

-----------------------------------------------------------------------------
(* StartInstanceFromConfig *)

\* getCachedTemplate, in a critical section of its own.
TestTemplate(w) ==
    /\ At(w, "template")
    /\ Goes(w, IF Template[kind[w]] \in cached THEN "lookup" ELSE "build")
    /\ UNCHANGED <<main, kind, cached, flow, proc, recorded, errChan>>

\* Mutant: an error of the build is not returned.
BuildTemplate_IgnoresError(w) ==
    /\ At(w, "build")
    /\ \/ cached' = cached \cup {Template[kind[w]]}
       \/ UNCHANGED cached
    /\ Goes(w, "lookup")
    /\ UNCHANGED <<main, kind, flow, proc, recorded, errChan>>

\* cacheTinyRangeTemplate holds templateMutex while it builds.
BuildTemplate(w) ==
    /\ At(w, "build")
    /\ \/ cached' = cached \cup {Template[kind[w]]} /\ Goes(w, "lookup") /\ UNCHANGED main
       \/ Fail(w) /\ UNCHANGED cached
    /\ UNCHANGED <<kind, flow, proc, recorded, errChan>>

\* A build that prints nothing: the index of its last line is out of range, and nothing
\* recovers the panic.
BuildPanics(w) ==
    /\ At(w, "build")
    /\ Crash

\* FlowRouter.AddInstance: the test, then the insertion, which replaces the handler of an
\* instance of the same name that has been inserted since.
FlowLookup(w) ==
    /\ At(w, "lookup")
    /\ \/ host[Inst(w)] \in DOMAIN flow /\ Fail(w)
       \/ host[Inst(w)] \notin DOMAIN flow /\ Goes(w, "insert") /\ UNCHANGED main
    /\ UNCHANGED <<kind, cached, flow, proc, recorded, errChan>>

FlowInsert(w) ==
    /\ At(w, "insert")
    /\ flow' = [h \in DOMAIN flow \cup {host[Inst(w)]} |->
                    IF h = host[Inst(w)] THEN Inst(w) ELSE flow[h]]
    /\ Goes(w, "launch")
    /\ UNCHANGED <<main, kind, cached, proc, recorded, errChan>>

\* Mutant: the instance is recorded before its error is looked at.
Launch_RecordsFirst(w) ==
    /\ At(w, "launch")
    /\ recorded' = recorded \cup {Inst(w)}
    /\ \/ /\ proc' = [proc EXCEPT ![Inst(w)] = "launched"]
          /\ Goes(w, "parse") /\ UNCHANGED main
       \/ Fail(w) /\ UNCHANGED proc
    /\ UNCHANGED <<kind, cached, flow, errChan>>

\* Mutant: a Team records its instance once its flows are parsed.
Launch_RecordsLate(w) ==
    /\ At(w, "launch")
    /\ \/ /\ proc' = [proc EXCEPT ![Inst(w)] = "launched"]
          /\ Goes(w, "parse") /\ UNCHANGED main
       \/ Fail(w) /\ UNCHANGED proc
    /\ UNCHANGED <<kind, cached, flow, recorded, errChan>>

\* inst.Start launches the machine. (The template is there, see LaunchFindsTemplate.)
StartInstance(i) == proc' = [proc EXCEPT ![i] = "launched"]

\* AddEndpoint, EnsurePath and inst.Start, each of which may fail. A Team records the
\* instance now, the scorebot only after ParseFlows.
Launch(w) ==
    /\ At(w, "launch")
    /\ \/ /\ StartInstance(Inst(w))
          /\ recorded' = IF w = Main THEN recorded ELSE recorded \cup {Inst(w)}
          /\ Goes(w, "parse") /\ UNCHANGED main
       \/ Fail(w) /\ UNCHANGED <<proc, recorded>>
    /\ UNCHANGED <<kind, cached, flow, errChan>>

-----------------------------------------------------------------------------
(* The rest of Team.Start and of ScoreBotConfig.Start *)

\* ParseFlows and AddService.
ParseFlows(w) ==
    /\ At(w, "parse")
    /\ \/ /\ Goes(w, "dial") /\ UNCHANGED main
          /\ recorded' = recorded \cup {Inst(w)}
       \/ Fail(w) /\ UNCHANGED recorded
    /\ UNCHANGED <<kind, cached, flow, proc, errChan>>

\* DialContext looks through the handlers: an instance that lost its own is not found.
Known(i) == host[i] \in DOMAIN flow /\ flow[host[i]] = i

\* RunCommand of the init command connects, within 10 seconds.
DialInit(w) ==
    /\ At(w, "dial") /\ w # Main
    /\ \/ Known(Inst(w)) /\ Goes(w, "login") /\ UNCHANGED main
       \/ Fail(w)
    /\ UNCHANGED <<kind, cached, flow, proc, recorded, errChan>>

\* What Team.Start does after the init command of an instance of kind k.
NextKind(k) ==
    CASE k = "team" -> (IF BotEnabled THEN "bot" ELSE "soc")
      [] k = "bot"  -> "soc"
      [] k = "soc"  -> "soc"

Proceed(w) ==
    /\ kind' = [kind EXCEPT ![w] = NextKind(@)]
    /\ Goes(w, IF kind[w] = "soc" THEN "done" ELSE "template")

\* clientConfig waits for the SSH file of the instance, whatever the deadline, and
\* keeps what it has read; or it fails, on a file that is half written.
clientConfig(i) ==
    /\ sshConfig[i] # "none" \/ sshFile[i] # "none"
    /\ sshConfig' = [sshConfig EXCEPT ![i] = IF @ = "none" THEN sshFile[i] ELSE @]

HalfWritten(i) == sshConfig[i] = "none" /\ sshFile[i] # "none" /\ UNCHANGED sshConfig

\* The machine accepts the host key and the password of its own file only.
LogsIn(i) == sshConfig'[i] = "new"

RunInit(w) ==
    /\ At(w, "login")
    /\ \/ /\ clientConfig(Inst(w)) /\ LogsIn(Inst(w)) /\ kind[w] = "team" /\ HealthChecked
          /\ Goes(w, "health") /\ UNCHANGED <<kind, main>>
       \/ /\ clientConfig(Inst(w)) /\ LogsIn(Inst(w)) /\ ~ (kind[w] = "team" /\ HealthChecked)
          /\ Proceed(w) /\ UNCHANGED main
       \/ /\ clientConfig(Inst(w)) \/ HalfWritten(Inst(w))
          /\ Fail(w) /\ UNCHANGED kind
    /\ UNCHANGED <<cached, flow, proc, recorded, errChan>>

\* An HTTP request without a timeout.
HealthCheck(w) ==
    /\ At(w, "health")
    /\ \/ Proceed(w) /\ UNCHANGED main
       \/ Fail(w) /\ UNCHANGED kind
    /\ UNCHANGED <<cached, flow, proc, recorded, errChan>>

\* ScoreBotConfig.Wait polls until the scorebot answers "healthy".
PollScorebot ==
    /\ At(Main, "dial")
    /\ clientConfig(Inst(Main))
    /\ \/ Known(Inst(Main)) /\ LogsIn(Inst(Main)) /\ Goes(Main, "done")
       \/ UNCHANGED step
    /\ UNCHANGED <<main, kind, cached, flow, proc, recorded, errChan>>

\* Mutant: room for one error.
ErrRoom_One == 1

\* The capacity of errChan in ForAllTeams.
ErrRoom == Cardinality(Teams)

\* errChan <- err, then wg.Done().
SendError(w) ==
    /\ At(w, "error")
    /\ errChan < ErrRoom
    /\ errChan' = errChan + 1
    /\ Goes(w, "failed")
    /\ UNCHANGED <<main, kind, cached, flow, proc, recorded>>

WorkerStep(w) ==
    /\ \/ /\ \/ TestTemplate(w) \/ BuildTemplate(w) \/ FlowLookup(w)
             \/ FlowInsert(w) \/ Launch(w) \/ ParseFlows(w)
             \/ DialInit(w) \/ HealthCheck(w) \/ SendError(w)
          /\ UNCHANGED sshConfig
       \/ RunInit(w)
       \/ w = Main /\ PollScorebot
    /\ UNCHANGED <<host, sshFile, events, user, notStopped>>

\* The steps nothing limits in time: the command that builds a template, the health
\* check, the polls of the scorebot, and the wait for an SSH file that is not there.
Unlimited(w) ==
    \/ step[w] \in {"build", "health"}
    \/ w = Main /\ step[w] = "dial"
    \/ step[w] = "login" /\ sshConfig[Inst(w)] = "none" /\ sshFile[Inst(w)] = "none"

-----------------------------------------------------------------------------
(* Run *)

StartTeams ==
    /\ main = "scorebot" /\ step[Main] = "done"
    /\ main' = "teams"
    /\ step' = [w \in Workers |-> IF w = Main THEN "done" ELSE "template"]
    /\ UNCHANGED <<kind, cached, flow, proc, recorded, errChan, events, notStopped>>

\* Where Run goes once all teams are up.
AfterBoot == IF Wait THEN "arm" ELSE "game"

\* Mutant: errors are logged only.
TeamsJoined_IgnoresErrors ==
    /\ main = "teams"
    /\ \A t \in Teams : step[t] \in {"done", "failed"}
    /\ main' = AfterBoot
    /\ UNCHANGED <<starting, errChan, events, notStopped>>

\* ForAllTeams: wg.Wait(), then len(errChan) > 0.
TeamsJoined ==
    /\ main = "teams"
    /\ \A t \in Teams : step[t] \in {"done", "failed"}
    /\ main' = IF errChan > 0 THEN "cleanup" ELSE AfterBoot
    /\ UNCHANGED <<starting, errChan, events, notStopped>>

AddStartEvent ==
    /\ main = "arm"
    /\ startEvent' = TRUE
    /\ main' = "waiting"
    /\ UNCHANGED <<starting, errChan, started, poster, notStopped>>

StartReceived ==
    /\ main = "waiting" /\ started
    /\ main' = "game"
    /\ UNCHANGED <<starting, errChan, events, notStopped>>

\* Start returns when the game is over.
GameOver ==
    /\ main = "game"
    /\ main' = IF WaitAfter THEN "yield" ELSE "cleanup"
    /\ UNCHANGED <<starting, errChan, events, notStopped>>

\* Team.Stop and ScoreBotConfig.Stop, when the processes of the instances in bad
\* cannot be interrupted: a bot is not tried after its team's vulnbox, a SOC never.
Stopped(bad) ==
    {i \in recorded \ bad : i[2] # "soc" /\ (i[2] = "bot" => <<i[1], "team">> \notin bad)}

\* The deferred function of Run. Nothing runs beside it.
CleanUp ==
    /\ main = "cleanup"
    /\ notStopped' \in SUBSET {i \in recorded : i[2] # "soc"}
    /\ proc' = [i \in Instances |-> IF i \in Stopped(notStopped') THEN "stopped" ELSE proc[i]]
    /\ main' = "returned"
    /\ UNCHANGED <<kind, step, cached, flow, recorded, errChan, events>>

RunStep ==
    /\ \/ StartTeams \/ TeamsJoined \/ AddStartEvent \/ StartReceived \/ CleanUp
    /\ UNCHANGED <<host, ssh, user>>

-----------------------------------------------------------------------------
(* Everyone else *)

\* The virtual machine monitor writes the SSH file of its instance.
VmWritesFile(i) ==
    /\ proc[i] = "launched" /\ Alive
    /\ sshFile' = [sshFile EXCEPT ![i] = "new"]
    /\ UNCHANGED <<host, main, starting, sshConfig, errChan, events, user, notStopped>>

\* RunEvent("start"): it is looked up, the channel is closed, the event removed. A
\* second close panics, and the web server recovers from that.
PostStart(p) ==
    /\ poster[p] = "idle" /\ startEvent /\ Alive
    /\ poster' = [poster EXCEPT ![p] = "close"]
    /\ UNCHANGED <<startEvent, started, main>>

CloseStart(p) ==
    /\ poster[p] = "close" /\ Alive
    /\ poster' = [poster EXCEPT ![p] = IF started THEN "panicked" ELSE "remove"]
    /\ started' = TRUE
    /\ UNCHANGED <<startEvent, main>>

RemoveStart(p) ==
    /\ poster[p] = "remove" /\ Alive
    /\ poster' = [poster EXCEPT ![p] = "done"]
    /\ startEvent' = FALSE
    /\ UNCHANGED <<started, main>>

\* A bot event runs runBotCommand for every team in a goroutine of its own. One that
\* meets a nil botInstance ends the process.
PostBotEvent(p) ==
    /\ poster[p] = "idle" /\ BotEnabled /\ Alive
    /\ \E t \in Teams : <<t, "bot">> \notin recorded
    /\ Crash

PosterStep(p) == CloseStart(p) \/ RemoveStart(p)

-----------------------------------------------------------------------------
(* Users *)

UserAt(where) == Alive /\ user.at = where

TeamOf(k) == <<TeamList[k], "team">>
Named(k, name) == {i \in recorded : i[1] = TeamList[k] /\ host[i] = name}

\* instanceFromName meets a team that has no teamInstance yet, or one of its name.
Hit(k, name) == TeamOf(k) \notin recorded \/ Named(k, name) # {}

FirstHit(name, k) ==
    Hit(k, name) /\ \A j \in 1 .. k - 1 : ~ Hit(j, name)

\* instanceFromName dereferences nil, or its caller does: "scorebot" is answered with
\* whatever ScoreBot.instance is.
DereferencesNil(i) ==
    IF i[1] = Main
    THEN i \notin recorded
    ELSE \E k \in DOMAIN TeamList : FirstHit(host[i], k) /\ TeamOf(k) \notin recorded

\* instanceFromName(host[i]) = j.
Finds(i, j) ==
    IF i[1] = Main
    THEN j = i /\ i \in recorded
    ELSE \E k \in DOMAIN TeamList :
            FirstHit(host[i], k) /\ TeamOf(k) \in recorded /\ j \in Named(k, host[i])

\* A direct-tcpip channel on the SSH server.
OpenChannel(i) ==
    /\ UserAt("none")
    /\ \E j \in Instances : Finds(i, j) /\ user' = [at |-> "channel", inst |-> j]
    /\ UNCHANGED <<main, ssh>>

\* Nothing recovers the goroutine of an SSH connection.
ChannelPanics(i) ==
    /\ UserAt("none")
    /\ DereferencesNil(i)
    /\ Crash

\* A channel whose ExtraData is shorter than its first four bytes say, or has no four.
OpenMalformed ==
    /\ UserAt("none")
    /\ user' = Malformed
    /\ UNCHANGED <<main, ssh>>

\* A flag for the TCP service, while the game is on.
SubmitFlag ==
    /\ UserAt("none") /\ main = "game"
    /\ user' = Submission
    /\ UNCHANGED <<main, ssh>>

FlagAnswered ==
    /\ UserAt("flag")
    /\ user' = Nobody
    /\ UNCHANGED <<main, ssh>>

\* The slices of ExtraData are out of range; a valid flag in the first tick meets the nil
\* OverallState (module Scoreboard). Nothing recovers either goroutine.
Fatal == user = Malformed \/ (user = Submission /\ main = "game")

RequestPanics ==
    /\ Alive /\ Fatal
    /\ Crash

\* The channel is rejected, or accepted and proxied.
DialChannel ==
    /\ UserAt("channel")
    /\ user' \in {Nobody, [user EXCEPT !.at = "open"]}
    /\ UNCHANGED <<main, ssh>>

\* GET /api/connect/{instance}. A panic is recovered by the web server.
OpenTerminal(i) ==
    /\ UserAt("none")
    /\ \E j \in Instances : Finds(i, j) /\ user' = [at |-> "config", inst |-> j]
    /\ UNCHANGED <<main, ssh>>

\* WebSSHHandler: clientConfig, which may meet a half-written file.
ConfigTerminal ==
    /\ UserAt("config")
    /\ \/ clientConfig(user.inst) /\ user' = [user EXCEPT !.at = "terminal"]
       \/ HalfWritten(user.inst) /\ user' = Nobody
    /\ UNCHANGED <<main, sshFile>>

\* It dials and logs in until both succeed, for ever if the hostname leads to another
\* machine; then the session may still not start.
DialTerminal ==
    /\ UserAt("terminal") /\ sshConfig[user.inst] = "new" /\ Known(user.inst)
    /\ user' \in {Nobody, [user EXCEPT !.at = "open"]}
    /\ UNCHANGED <<main, ssh>>

\* GET /vulnbox: GetSSHConfig for every team that has its vulnbox.
FirstVulnbox(from) ==
    {k \in from .. Len(TeamList) :
        TeamOf(k) \in recorded /\ \A j \in from .. k - 1 : TeamOf(j) \notin recorded}

ShowFrom(from) ==
    \/ FirstVulnbox(from) = {} /\ user' = Nobody
    \/ \E k \in FirstVulnbox(from) : user' = [at |-> "page", inst |-> TeamOf(k)]

OpenVulnboxPage ==
    /\ UserAt("none")
    /\ ShowFrom(1)
    /\ UNCHANGED <<main, ssh>>

\* A team whose file cannot be read is left out.
ShowVulnbox ==
    /\ UserAt("page")
    /\ clientConfig(user.inst) \/ HalfWritten(user.inst)
    /\ \E k \in DOMAIN TeamList : TeamOf(k) = user.inst /\ ShowFrom(k + 1)
    /\ UNCHANGED <<main, sshFile>>

Leave ==
    /\ UserAt("open")
    /\ user' = Nobody
    /\ UNCHANGED <<main, ssh>>

UserStep ==
    /\ DialChannel \/ ConfigTerminal \/ DialTerminal \/ ShowVulnbox \/ FlagAnswered
    /\ UNCHANGED <<host, starting, errChan, events, notStopped>>

UserComesOrGoes ==
    /\ \/ \E i \in Asked : OpenChannel(i) \/ OpenTerminal(i)
       \/ OpenVulnboxPage \/ OpenMalformed \/ SubmitFlag \/ Leave
    /\ UNCHANGED <<host, starting, errChan, events, notStopped>>

-----------------------------------------------------------------------------
\* Two goroutines in FlowRouter.instances or in Events, one of them writing. (DialInit,
\* HealthCheck, the polls of the scorebot and the users look through FlowRouter.instances.)
FlowRace ==
    \E v \in Workers : step[v] = "insert" /\
        \/ \E w \in Workers \ {v} : step[w] \in {"lookup", "insert", "dial", "health"}
        \/ user.at \in {"channel", "terminal"}

EventsRace ==
    \E p \in Posters : poster[p] = "idle" /\
        (main = "arm" \/ \E q \in Posters : poster[q] = "remove")

MapRace ==
    /\ Alive /\ (FlowRace \/ EventsRace)
    /\ Crash

Init ==
    /\ host \in Hostnames
    /\ main = "scorebot"
    /\ kind = [w \in Workers |-> IF w = Main THEN "scorebot" ELSE "team"]
    /\ step = [w \in Workers |-> IF w = Main THEN "template" ELSE "none"]
    /\ cached = {}
    /\ flow = [h \in {Main} |-> Main]    \* the game itself, as "host"
    /\ proc = [i \in Instances |-> "none"]
    /\ \E old \in Leftovers :
          sshFile = [i \in Instances |-> IF i \in old THEN "old" ELSE "none"]
    /\ sshConfig = [i \in Instances |-> "none"]
    /\ recorded = {}
    /\ errChan = 0
    /\ startEvent = FALSE
    /\ started = FALSE
    /\ poster = [p \in Posters |-> "idle"]
    /\ user = Nobody
    /\ notStopped = {}

Next ==
    \/ RunStep
    \/ GameOver /\ UNCHANGED <<host, ssh, user>>
    \/ \E w \in Workers : WorkerStep(w)
    \/ \E w \in Workers : BuildPanics(w)
    \/ \E i \in Instances : VmWritesFile(i)
    \/ MapRace
    \/ \E p \in Posters : PostBotEvent(p)
    \/ \E i \in Asked : ChannelPanics(i)
    \/ RequestPanics
    \/ /\ \E p \in Posters : PostStart(p) \/ PosterStep(p)
       /\ UNCHANGED <<host, starting, ssh, errChan, user, notStopped>>
    \/ UserStep \/ UserComesOrGoes

\* The goroutines are scheduled, and every step that has a time limit ends. Nobody has to
\* write an SSH file, to post an event or to end the game.
Spec ==
    /\ Init /\ [][Next]_vars
    /\ WF_vars(RunStep)
    /\ \A w \in Workers : WF_vars(WorkerStep(w) /\ ~ Unlimited(w))
    /\ \A p \in Posters :
          WF_vars(PosterStep(p) /\ UNCHANGED <<host, starting, ssh, errChan, user, notStopped>>)

-----------------------------------------------------------------------------
\* The variables have their types; what a Team or the scorebot holds was launched.
TypeOK ==
    /\ main \in {"scorebot", "teams", "arm", "waiting", "game", "yield", "cleanup",
                 "returned", "crashed"}
    /\ kind \in [Workers -> Kinds]
    /\ step \in [Workers -> {"none", "template", "build", "lookup", "insert",
                    "launch", "parse", "dial", "login", "health", "error",
                    "failed", "done"}]
    /\ cached \subseteq {Template[k] : k \in Kinds}
    /\ proc \in [Instances -> {"none", "launched", "stopped"}]
    /\ sshFile \in [Instances -> {"none", "old", "new"}]
    /\ sshConfig \in [Instances -> {"none", "old", "new"}]
    /\ recorded \subseteq {i \in Instances : proc[i] # "none"}
    /\ errChan \in 0 .. ErrRoom
    /\ {startEvent, started} \subseteq BOOLEAN
    /\ poster \in [Posters -> {"idle", "close", "remove", "done", "panicked"}]
    /\ user \in {Nobody, Malformed, Submission}
       \/ (user.at \in {"channel", "config", "terminal", "page", "open"}
           /\ user.inst \in recorded)
    /\ notStopped \subseteq Instances

\* tinyRangeInstance.Start finds its template in the cache, although the cache was
\* tested and filled in critical sections of their own, by several teams at once.
LaunchFindsTemplate ==
    \A w \in Workers : step[w] = "launch" => Template[kind[w]] \in cached

\* The hostname of i leads to it, or to another instance of the same name.
Routed(i) ==
    /\ host[i] \in DOMAIN flow
    /\ flow[host[i]] \in {j \in Instances : host[j] = host[i]}

\* When Run goes on to the game, every instance of every team and the scorebot was launched
\* and has answered a command, and its hostname leads to it. (Of two with the same name
\* that pass AddInstance together, both may get this far, and one is then not reachable.)
GameIsReady ==
    main \in {"arm", "waiting", "game"} =>
        \A i \in Instances :
            proc[i] = "launched" /\ sshConfig[i] = "new" /\ i \in recorded /\ Routed(i)

\* When Run has returned, whatever failed, every process it launched was stopped, apart from
\* every SOC, a scorebot whose flows could not be parsed, and machines of a team or
\* scorebot whose Stop failed ("Ensure we clean up all instances", game.go:872).
CleanedUp ==
    main = "returned" => \A i \in Instances : proc[i] = "launched" =>
        \/ i[2] = "soc"
        \/ i[2] = "scorebot" /\ i \notin recorded
        \/ \E j \in notStopped : j[1] = i[1]

\* Run does not wait for what can no longer come: there is room for the error of every
\* goroutine that has one; Run waits only for goroutines that were started and, if
\* Config.Wait says so, for the start event while it can still be posted.
WaitsCanEnd ==
    /\ \A w \in Workers : step[w] = "error" => errChan < ErrRoom
    /\ main = "scorebot" => step[Main] \notin {"none", "failed"}
    /\ main = "teams" => \A t \in Teams : step[t] # "none"
    /\ main = "waiting" => startEvent \/ started

\* The boot ends, with the game, with the return of Run or with the process, unless it stays
\* in one of the steps the code sets no limit to (Unlimited) or waits for a start event
\* nobody has posted: the errors of any number of teams are all taken, and a start event
\* that is posted is heard. (That the game ends is GameEnds of module Pages.)
BootEnds ==
    <>[](\/ main \in {"game", "yield", "returned", "crashed"}
         \/ main = "waiting" /\ ~ started
         \/ \E w \in Workers : Unlimited(w))

\* Once all teams are up no request ends the process, apart from two that meet in the map
\* of events, a malformed SSH channel and a flag in the first tick: every name leads to a
\* machine, every bot is there. (New devices, which write FlowRouter.instances as well,
\* are not part of this module.)
NoCrashOnceUp ==
    [][(main \in {"waiting", "game", "yield"} /\ main' = "crashed") =>
           EventsRace \/ Fatal]_vars
=============================================================================
