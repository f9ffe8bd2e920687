# A verification project for the tinyrange attack/defense server

The program (`src/cmd/ad`, Go) runs an attack/defense game: every team has a
virtual machine with vulnerable services, a scorebot plants a fresh flag in every
service once per tick, teams steal each other's flags and submit them, and a
scoreboard turns stolen flags, lost flags and uptime into points. This directory
holds TLA+ models of it, the configurations TLC checks them with, and proofs TLAPS
checks.

## 1. Inventory of the system

| Component | State | Operations | Interacts with |
|---|---|---|---|
| Scoreboard (`game.go`, `public.go`, `private.go`) | `Running`, `CurrentTick`, `CurrentState`, `Ticks`, `OverallState`, `scoreboardMtx` | `Start`, `Tick`, `updateScoreboard`, `summarizeState`, `submitFlag`, `flagsStolenBy`, the pages and JSON routes that read the boards under the read lock | the checks of a tick, the TCP and HTTP routes, web clients |
| Flags (`crypto.go`) | the signing key | `Generate`, `Verify`, `GetFlagId` | checks, `submitFlag`, `GET /api/flagIds` |
| Clock and timeline (`game.go`, `config.go`) | ticker, end timer, `EventQueue` | the select loop of `Start`, `TimelineEvent.Tick` and `Run` | `Tick`, events |
| Scoring (`game.go`) | points and positions of a board | `setServiceOverallScore`, `setTeamOverallScore`, the sort | `summarizeState`, JSON and HTML output |
| Scorebot (`scorebot.go`) | its instance, one template per check | `Run`, `ForEachService`, `Wait`, `Start`, `Stop` | `Tick`, instances |
| Fan-out (`ForAllTeams`, `ForEachService`) | a WaitGroup and an error channel per call | foreground and background calls | `Tick`, events, boot |
| Events (`game.go`, `public.go`) | the map `Events`, the `start` channel | `AddEvent`, `RemoveEvent`, `RunEvent` | timeline, `POST /api/event`, `Run` |
| Instances and boot (`team.go`, `tinyrange.go`, `game.go`) | `instances`, a process, its SSH file and config, the template cache | `StartInstanceFromConfig`, `Team.Start`, `Team.Stop`, `RunCommand`, `HealthCheck`, `clientConfig` | routers, persistence |
| SSH server and web terminal (`game.go`, `public.go`, `tinyrange.go`, `private.go`) | one goroutine per connection | `instanceFromName`, `startSshServer`, `WebSSHHandler`, `GET /vulnbox` | instances that may still be booting, the flow router |
| Devices and persistence (`game.go`, `device.go`, `persist.go`) | `devices`, one file per device | `AddDevice`, `createDevice`, `Set`, `ForEach` | both routers, `POST /api/device`, boot |
| Flow router (`flow.go`) | `instances` by hostname | `AddInstance`, `HandleConn`, `DialContext` | every connection |
| WireGuard router (`wireguard.go`) | `configs` under `mtx` | `AddEndpoint`, `AddDevice`, `RestoreDevice`, `serveConfig` | boot, devices, `/wireguard/{config}` |
| Proxy (`pkg/common/proxy.go`) | two brokers, three channels | `Proxy`, `broker` | `AcceptConn`, the SSH server |
| Other web pages, HTML, CLI | none of their own | rendering, decoding | all of the above |

What is hard here:

* **Concurrency.** Per tick one goroutine per team, bot and check; one per
  connection that submits flags; web handlers that start before boot is over. Only
  the scoreboard, the template cache, the WireGuard writers and the SSH config have
  locks, and the uptime counters bypass the scoreboard's. Readers of the boards hold
  the read lock while they write to their client.
* **Ordering.** `Running` is tested before the mutex; `CurrentTick` moves before the
  board does; the last summary precedes the end of submissions.
* **Time.** A ticker that drops ticks against an end timer that does not wait.
* **Failure.** Two-step file writes, router failures after a flow entry was made,
  channels with room for one error and more than one writer, SSH files and device
  files that outlive the process that wrote them.

What makes each part correct is stated as properties in its module, and the hazards
behind them, the ones not yet covered too, are listed in `PROJECT.json` with the line
where each one bites.

## 2. Modules

| Module | Models | Composes |
|---|---|---|
| `Scoreboard` | game loop, checks, submissions, flag ids | instantiates `FlagLedger` |
| `FlagLedger` | what the scoreboard promises about flags | |
| `Pages` | the clients that read the boards, under the `RWMutex` | extends `Scoreboard` |
| `TickLoop` | the clock of `Start`, the length of `Tick`, the timeline | |
| `Scoring` | points and ranking of one summary | |
| `Proxy` | `common.Proxy` and its brokers | |
| `Devices` | `AddDevice`, the device files, the WireGuard configurations, restarts | |
| `Boot` | `Run` from the start of the scorebot to its return, and the users who come meanwhile | |
| `Flow` | flows, tags and the two decisions of the flow router | |
| `FlowExample` | the tags, flows and services of `examples/basic/config.yml` | extends `Flow` |
| `...Proofs` | theorems, one module for each module of the model but `FlagLedger` | extend the module they are named after |
| `MC...` | the constants of TLC's instances | extend the module they are named after |

### Scoreboard

Each variable is a field of `AttackDefenseGame`, except `pc` (the goroutine of
`Start`), `checks` (one state per team or bot and check), `waiting` (submissions past
the test of `Running`), `issued` (flags handed to a scorebot) and the history
`accepted`. `submitFlag` is two steps, `SubmitArrive` (the test) and `SubmitLocked`
(everything under the mutex, with one outcome per return statement and one for the
nil dereference). `Tick` is `TickBegin`, `TickUpdate`, the steps of its checks and
`TickEnd`; `updateScoreboard` is a single step because it holds the mutex. The
uptime counters are written without the mutex, but each by one goroutine and never
while `updateScoreboard` runs, so their increments are steps of their own.

Abstractions: a list of flags is kept up to order, as the number of times each
`FlagInfo` occurs; a flag text is the triple it parses to and the triple its
signature signs (`strconv.Atoi` accepts several spellings of a number, and `Verify`
prints the triple back before it checks the signature, so spellings collapse);
events are left out, since they touch no board. Assumptions: check ids are distinct
indices of `Vulnbox.Services`, as in the example configuration.

`FlagLedger` knows ticks, planted flags and credits only. `Scoreboard!LedgerSpec`
maps the tick of the current board, `issued`, and the stolen flags of all boards
together onto it.

### Pages

`Pages` adds the clients of `GET /scoreboard` (`renderScoreboard`, which formats the
overall state and lets go of the lock) and of the two JSON routes, on either server,
which keep the read lock until the client has taken the answer (`getOverall`,
`getTick`, `Answered`). `encoding/json` refuses a NaN, and the uptime of a service
without a check is one (`game.go:511`), so a board with such a service is not sent
(`Encodes`). The steps of `Scoreboard` that hold `scoreboardMtx` for
writing, `TickUpdate`, `FinalUpdate` and `SubmitLocked`, wait for the readers
(`LockedStep`); the others do not (`FreeStep`). A waiting writer keeps new readers out,
as in Go (`WriterWaits`): a request past the test of `Running`, and the loop from the
increment of `CurrentTick` on, count as waiting, which only moves a reader that slips
in between to an earlier moment with the same board. `reading` is what a client is
being sent and `seen`, a history, the tick of the last overall state it got.

### TickLoop

One unit of time per `Elapse`. `BodyLengths` is the set of durations `Tick` may take:
the wait of `updateScoreboard` for `scoreboardMtx`, which readers hold while they write
to their client, foreground events up to the tick's context, the random sleep and the
scorebot command. The wait and the sleep heed no context, the other two do. The code
sets the wait no limit; `LongestRead` is the one of the instance. `overrun`, a history,
adds up by how much the ticks took longer than the tick rate. The loop takes a ready
case at once; when the ticker and the end timer are both ready, either may win, as in
Go.

### Scoring

All boards that up to `MaxTicks` ticks can leave are initial states; the one action
`Rank` is the sort. `float64` values are exact fractions and 0/0 is NaN. The order of
rows with equal keys is open, because the rows come from a map.

### Proxy

One state machine per broker and one for `Proxy`; the channels are one-place
buffers. The far ends send, close or break their connection at will. `caller` is one
of the two callers in the program; they differ in the kinds of connection they pass,
that is, in what a second `Close` returns and whether `CloseRead` is called, and in
whether the caller closes `srvConn` afterwards.

### Devices

Requests and `Run` are cut at every access to the unlocked `devices` and
`instances`; an append is a read and a later write of the slice. `os.Create` and
`Encode` are two steps. `Crash` may come anywhere and loses memory, not files; it
also stands for the runtime ending the process when `serveConfig`, which takes no
lock, meets a writer of `configs`. `POST` requests are served during boot, because the
web server is started first: `Boot` starts it (`"starting"`), and `ReadDir`, which
lists the files, comes later, with the files that early requests have made by then. The
history `noise` records whether a behaviour had such
a request (`"early"`), or overlapping requests or a failing disk (`"muddle"`), and the
properties say which of these they leave out.

A key pair is known by the boot and the request that made it. `RouterAdd` makes one
and enters the device's side of the tunnel in `configs`; `RestoreDevice` hands the
server the keys of the file and enters what `translateToDeviceConfig` makes of the
server's own configuration, since that is all the file holds. The salted name under
which a configuration is served is the device's name here.

### Boot

`main` is the goroutine of `Run`, and `step[w]` and `kind[w]` say where a team's
goroutine (or `Run`, for the scorebot) is in `StartInstanceFromConfig` and in
`Team.Start` or `ScoreBotConfig.Start`. The test of the template cache and the build
are separate steps, as they are separate critical sections; so are the test and the
insertion of `FlowRouter.AddInstance`, which has no lock. `flow` is its map, from
hostnames to the instance behind the handler: when two instances of one name pass the
test together, the second replaces the first (`FlowInsert`), and a machine that has lost
its handler is not found by `DialContext` any more (`Known`). A template build that
prints nothing ends the process (`BuildPanics`, `game.go:339`). Every call that can fail may
fail; a team then sends its error into the channel of `ForAllTeams` (`SendError`), and
an error of the scorebot ends `Run`. The start event is looked up, run and removed in
three steps by any number of posts; a bot event posted too early meets a nil
`botInstance`. `MapRace` is the Go runtime ending the process when it notices that a
map is used during a write. `CleanUp` is the deferred function of `Run`.

`sshFile[i]` is the SSH file of an instance: none, one an earlier run left behind, or
that of the running machine, which replaces it at some point (`VmWritesFile`).
`clientConfig` waits for any file and keeps what it read in `sshConfig[i]`; a login
with an old one fails. The users come one at a time, at any point of boot: a channel of
the SSH server (`OpenChannel`, `DialChannel`), one whose data is shorter than its length
field says (`OpenMalformed`), a flag over TCP (`SubmitFlag`), a web terminal (`OpenTerminal`,
`ConfigTerminal`, `DialTerminal`) or `GET /vulnbox` (`ShowVulnbox`, team after team).
`instanceFromName` goes through the teams in order and dereferences the nil
`teamInstance` of one that is not launched yet (`DereferencesNil`): the goroutine of an
SSH connection takes the process down with it (`ChannelPanics`), a web handler does
not. So may a malformed channel (`game.go:832`) and a valid flag in the first tick
(`scoreboard_first_tick`), at any time (`RequestPanics`).

Abstractions: polls that find a file missing are stutters, and so is a poll of a
scorebot that is not healthy yet, once its credentials are read; the append to
`game.instances`, which only `GET /instances` shows, is left out, and `AddEndpoint` is
one of the failures of `Launch`; the loading of devices is in `Devices`, the game
between `"game"` and `GameOver` in `Scoreboard`.

### Flow

Flows and tags are the records they parse to (`ParseFlow`, `ParseTag`). An instance is
registered as the code does it, `AddInstance`, `SetFlows`, `SetTags` and one
`AddService` after the other, so that a connection can come in between; devices are
registered at once. A device's team is whatever text `POST /api/device` was given; it
need not be the name of a team. `HandleConn` and `DialContext` range over a map, so any
matching instance may be found first. Connections do not change the router, so `last`
holds one connection and its outcome, and the properties are about it. `dialContext`
with a source instance has no caller and is left out; dials by hostname, the key of the
map, are in `Boot`. `FlowExample` writes the example configuration down as values of the
constants; TLC's instance leaves out two of the four services of a vulnbox, which have
the tags of the other two. `Policy` states who may connect to whom from the comments of
`examples/basic/config.yml`, independently of flows and tags.

## 3. Runs

| Run | Instance | Result |
|---|---|---|
| `scoreboard` | 2 teams, 2 services (1 checked), 3 ticks, validity 1 tick, 2 connections of one team on both routes | no double credit; credits stay in the board they were accepted in; ticks numbered, complete, final; no early flag; `FlagLedger` is implemented |
| `scoreboard_bots` | `Pages`: 1 team and its bot, 1 service (checked), 2 ticks, validity 2 ticks, both routes, 1 client | stolen and lost mirror each other; published ids are planted and unexpired; an answer is one board; a tick once seen can be sent, and no later page is older; a started game ends |
| `scoreboard_late` | 1 team and its bot, 2 services (1 checked), 2 ticks, 2 connections over HTTP | **violated**: a flag accepted while the game closes is in no summary |
| `scoreboard_first_tick` | as `scoreboard_late` | **violated**: a valid flag of tick 1 meets a nil `OverallState` |
| `tickloop` | rate 6, duration 32, reads of up to 9, foreground events in 2 ticks of 5 | no tick starts early; the events of a tick run once; the game loses at most one tick for every whole tick rate by which its ticks were too long together; the loop ends |
| `scoring` | 2 rows, up to 3 ticks and 3 flags | rank within two points; flags and downtime move points the right way |
| `proxy` | both callers | nil means closed; a clean close returns |
| `proxy_errors` | both callers | **violated**: a second error blocks for ever |
| `devices` | 2 names, 2 requests, 3 boots, router and disk failures, requests during boot | no address twice; acknowledged files stay intact; owners stay connected over restarts; no device is saved without keys; what is served belongs to the device's tunnel |
| `boot` | 2 teams with bots, 2 posts, health checks, start event, equal and distinct hostnames, 2 SSH files of an earlier run, a user | every launch has its template; the game starts only when all was launched and has answered; what is stopped at the end; nobody waits for what can no longer come; boot ends unless it stays in a step without a time limit; what can bring down a game that is up |
| `flow` | 2 teams of the example configuration, a device that shares a bot's address, one of a team that does not exist | nothing but the policy, all of the policy, at every point of boot; services act for the right team; commands reach their instance |
| `devices_crash` | 2 boots | **violated**: an empty file stops every boot |

The violated runs are disagreements between the code and its own comments; each is a
finding in `PROJECT.json` with the sentence it contradicts. More disagreements
follow from the models and have no run of their own:

* an event due before the first tick has tick 0 (`config.go:132`) and never runs;
* rows less than a point apart may be placed in either order, because the comparison
  truncates (`game.go:586`, under the comment "Sort the teams by score.");
* `Proxy` calls `CloseRead` on `*net.TCPConn` only, which no caller passes, and its
  branches for `cliConn` look at `srvConn` (`proxy.go:41`), so nothing shuts down the
  other half, as `proxy.go:25` says it does;
* a request for an existing name during boot passes the duplicate test and rewrites
  the existing device's file (`game.go:909`);
* ticks that take too long, because of foreground events (`game.go:668`) or of readers
  that hold `scoreboardMtx` (`game.go:672`), let the end timer win before the last tick,
  and the game has fewer ticks than its duration promises (`game.go:1037`), at most one
  for every whole tick rate that was lost;
* the uptime of a service without checks is NaN (`game.go:511`), which `encoding/json`
  refuses to encode: in the example game, whose private SSH
  service has no check, the JSON routes never send a closed board;
* after a restart `GET /devices` offers the server's side of the tunnel as "Wireguard
  client config" (`public.go:392`), since `RestoreDevice` translates the configuration
  of the server (`wireguard.go:293`);
* whoever asks for the credentials of a restarted machine before it has replaced its
  SSH file makes the instance keep the old ones for ever: `ScoreBot.Wait` then polls
  for ever, a team's init command fails, and a web terminal never gets through
  (`tinyrange.go:158`, under "Wait for the secure SSH path to be created.");
* a channel of the SSH server that asks for a team before its vulnbox is launched ends
  the process (`game.go:766`), and so does one whose data is shorter than its length
  field says, at any time (`game.go:833`);
* two teams whose instances have the same hostname may both pass the test of
  `AddInstance` (`flow.go:323`), under parallel starts; the second handler replaces the
  first, and the machine that lost its handler cannot be reached: its init command fails,
  or, if it has run by then, the game starts and a web terminal dials for ever;
* a template build that succeeds and prints nothing ends the process (`game.go:339`),
  since a split text is never empty and the test for "no output" (`game.go:334`) is
  never true;
* a device that was added during boot, after the web server was started and before the
  files are listed, is found in the list and refused as a duplicate, which ends `Run`
  (`persist.go:46`);
* a device may be added for a team that does not exist (`public.go:437`); one for the team
  `*` gets the wildcard in its flows, and with it the services of every team that the
  comments of the example keep to a team's own devices;
* SOC instances are never stopped, a bot is not stopped when its team's vulnbox cannot
  be (`team.go:85`), and a scorebot whose flows do not parse is forgotten, although the
  cleanup is to "Ensure we clean up all instances" (`game.go:872`);
* "All machines implicitly have the public/*:public flow"
  (`examples/basic/config.yml`): no code adds it.

Bounds. Three ticks and a validity of one tick are the smallest game in which a flag is
current, old and expired; two connections of one team are the smallest race for a double
credit; a team and its bot can each be thief and victim, so balance needs no second
team. A second service without a check tells checked and unchecked ones apart in
`scoreboard`; in `scoreboard_bots` every service has a check, so that boards can be
sent. For the clock, a duration that is no multiple of the rate and a rate with room for
a sleep, a command and an event show every order of ticker and end timer; a read of up
to one and a half tick rates makes the ticker drop ticks, in any tick; the bound
`Horizon` is beyond the end of every game, and `Terminates` shows it never stops one.
Three boots (`MaxBoots`) are a boot that adds devices, one that restores and adds some,
and one that restores both kinds; once a request came early there are two
(`MaxEarlyBoots`), because only the type invariant speaks of those behaviours. Two teams
are the smallest boot with parallel starts: each can fail, be late, share a template or
a hostname with the other, and two posts are the smallest race for the start event. The
user asks for the scorebot and the second team's vulnbox (`Asked`), the first of which
is answered unconditionally and the second only past the first team; the same two have
files of an earlier run (`Leftovers`), so that machines with and without one are seen.
One client of the boards is enough to hold the lock against every writer; a second one
reads under the same lock. In `Flow`, two teams tell "own" from "other", device 9 is
the first whose address is a bot's, and device 1 belongs to no team. In
`scoreboard_bots` no flag expires; that published ids name unexpired flags only, whatever
the validity, is the theorem `FlagIdsAreKnown`. No symmetry is used:
connections differ in route and team, and device names are ordered.

`CHECK_DEADLOCK` is off where the modelled part really stops: after the game, after
`Proxy` has returned, after the ranking, after `Run` has returned or while it waits for
an event nobody posts, and when a crash budget is spent and boot
keeps failing.

Fairness. `GameEnds` needs the loop and each check to go on. The code justifies it: the
command of a check runs over a connection with the deadline of its context
(`tinyrange.go:250-252`), a context never longer than a tick, and the scorebot's SSH
configuration is loaded before the game starts (`ScoreBot.Wait`); the end timer fires,
and `sync.RWMutex` starves nobody. Submissions need not come. One thing the code does
not guarantee is assumed: a client that asked for a board as JSON takes it or goes away
(no write timeout is set, so one that stalls would hold the lock and stop the game). In
`TickLoop` time passes and the loop is scheduled. In `Proxy` the goroutines are
scheduled and the far ends may stay silent for ever. In `Boot` the goroutines are
scheduled, and only what the code limits in time has to end. Nothing limits the command
that builds a template (`game.go:322`), the health check (`tinyrange.go:289`), the polls
of the scorebot and the wait for an SSH file that is not there (`tinyrange.go:157`, as
when a machine has ended by itself): they are `Unlimited`, have no fairness, and
`BootEnds` excepts a boot that stays in one. Nobody has to post an event, to write an
SSH file, to end the game or to come as a user, and no liveness is claimed for users:
the loop of the web terminal (`tinyrange.go:383`) has no limit either.

## 4. Proofs

Every safety invariant and every action property that a run checks is also proved, for
every value of the constants that satisfies the assumptions of its module and, where
the theorem says so, a condition of its own. So is the refinement of `FlagLedger`. The
type invariants of `TickLoop` and `Flow` are proved and not run. Few
of the invariants are inductive; each proof module opens with the invariant it uses and
why, and this is the argument in short.

**`ScoreboardProofs`** (any number of teams, services, checks, ticks, connections).
`TypeCorrect`, `FlagsCountOnce` (`NoDoubleSteal`), `TicksAreNumbered`
(`TickNumbering`), `ClosedTicksNeverChange` (`ClosedTicksStay`) come from `IInv`.
`NoDoubleSteal` is not inductive: `submitFlag` looks at the overall state and the
current board, not at the closed ticks. `IInv` adds that the overall state is the
summary of the closed ticks (`OverallIsSummary`), that boards are numbered
(`Numbered`), that the board keeps step with the loop (`InStep`), and that a flag
occurs in at most one board and at most once in it (`EachStolenOnce`). A summary counts
a flag whenever one of its ticks has it (`SummaryMissesNone`), so a flag that
`alreadyStolen` does not find is in no board at all. Closing a tick replaces the
current board by its own summary, which is the same board (`SummaryOfOne`). The sum in
`summarizeState` is the cardinality of a set of units, so facts about it follow from
`FiniteSetTheorems`.

`FlagsAreNeverEarly`, `UptimeIsComplete`, `StolenIsLost`, `FlagsCountForTheirTick` and
`FlagIdsAreKnown` need `More` on top of it: what the finished checks have left in the
open board (`UptimeOpen`), that every board is balanced (`Balanced`), where each
accepted flag is (`Filed`), and which flags are planted while the checks of a tick run
(`Planted`). `ScoreboardKeepsLedger` is the refinement `Spec => LedgerSpec`, step by
step: closing a tick moves boards about and changes no credit, and `submitFlag` adds
one credit for a planted flag that has not expired and has none yet.

**`PagesProofs`** (any number of clients). `ReadersLeaveTheGame` shows
`PagesSpec => Spec`, so every theorem about `Scoreboard` holds with readers.
`AnswersAreBoards` follows from the lock: nothing replaces `Ticks` or `OverallState` while
an answer is being sent. `SeenTicksAreServed` adds that a closed board with a check for
every service has no NaN (`ClosedEncodes`, from `UptimeIsComplete`). `SeenOnlyGrows`
(`SeenNeverGoesBack`) needs in addition that what a client has seen is no newer than the
overall state, and that an answer on its way is that very state, since a writer waits for
it.

**`TickLoopProofs`** (any tick rate, duration and timeline). `TypeCorrect`,
`TicksAreNeverEarly`, `EventsFollowTicks` and `EventsRunOnce` (`DueEventsRunOnce`): the
ticker fires at multiples of the rate, ticks run never outnumber ticks fired, and the
events that have run are those of the ticks so far. `FewAreLost` (`FewTicksAreLost`): only
a tick that takes longer than the tick rate makes the loop later, by that much, and every
tick the ticker drops takes a whole tick rate off the lateness, so dropped ticks and
lateness are paid for by `overrun` (`OnTime`), and the end timer has one tick rate to
spare. None of these has a condition on the timeline, on the checks or on the readers.
`ShortReadsLoseFew` turns the time into a number of ticks: if reads are short
(`ShortReads`: a read and the sleep of a check together fit into a tick rate), only ticks
with foreground events are too long, each by less than half a tick rate, so the lost ticks
are fewer than half of those. `TicksAreExact` is the case of at most two of them
(`AtMostTwoSlow`), where no tick can be lost.

**`ScoringProofs`** (any number of rows and services, any weights).
`RankFollowsPoints`: truncation moves a row's points by less than one either way
(`Truncation`), so rows in the order of the comparison are in the order of their points
up to two. It assumes `PublicAreChecked`, since a service without checks has NaN points.
`FlagsMoveTheRightWay` assumes that stolen flags are worth no less than nothing and lost
ones no more (`Signs`); `DowntimeIsNoGain` assumes nothing. That a row's total is a
fraction is a fact about a fold over its services, that is, about a recursive function.
The provers cannot instantiate the library's induction principles, but `WFMin` has no
operator parameter: `FoldExists`, `FoldsAgree` and `FoldType` take a minimal set of
services for which the claim fails.

**`ProxyProofs`** (any callers and kinds of connection). `NilAfterBothClosed`: a broker
closes its source before it signals, and `Proxy` has taken the signal of each broker it
does not wait for. From the same invariant, `NilAfterBothBrokers` (no broker is left
when `Proxy` returns nil) and `SignalsNeverWait` (the channels `serverClosed` and
`clientClosed` always have room, unlike `errC`).

**`BootProofs`** (any number of teams, any clashes of hostnames, users, posts and SSH
files). `TypeCorrect`, `TemplatesAreThere`, `GameStartsReady`, `CleanupIsComplete`,
`UpStaysUp`, and `ErrorsNeverWait` (the channel of `ForAllTeams` has room for every team
that fails). What holds at the end of boot is gathered step by step, so the invariant
says what each goroutine has done where it stands (`Progress`), where the goroutines
are while `Run` is at each of its points (`Positions`), that the channel holds one error
per failed team (`ErrorsCounted`) and that what was launched is recorded
(`LaunchedIsHeld`). `NoWaitIsInVain` (`WaitsCanEnd`) is the part of `BootEnds` that is
safety: whoever waits, waits for something that can still come. It needs on top that a
post closes the channel before it removes the start event (`StartOffered`). That a machine
writes its SSH file is not part of it: nothing in the program makes it so. `Routed` in
`GameStartsReady` is as much as the code gives: a handler may be replaced by one of the
same name, never removed.

**`FlowProofs`** (any teams, names and devices). `TypeCorrect` is for every
configuration, and so are two theorems that say what a configuration means:
`RouterFollowsConfig` (at every point of boot, what is accepted is what the complete
configuration allows, and what it allows is not refused once both ends are up) and
`ScopedServicesStayHome` (if every flow to a service tag names the source's own team,
services with that tag are reached by the same team only, whatever addresses are
shared). `ExampleIsScoped` shows that the private services of the example are such ones.
Its premise names the source's own team, so it needs that no team is called `*`, and
that no device was added for one. `NothingButThePolicy`, `AllThePolicyAllows`,
`HostActsForTheTeam` and `CommandsArrive` are for the flows, tags and services of the
example (`ExampleConfig`), at every point of boot: an instance has its flows before its
tags and its tags before its services (`InOrder`), so one that is only partly registered
can do less, never more. The first two assume that no team is called `*`, the wildcard
of a flow, and that no device was added for it (`NoWildcardName`); any other text is a
team no instance has, which `HostActsForTheTeam` answers with nobody;
`AllThePolicyAllows` and `CommandsArrive` assume team ids below 256 (`AddressesFit`),
since addresses wrap around; a shared address of a bot and a device needs no assumption,
because devices have no services.

**`DevicesProofs`** (any number of names, requests, crashes and boots).
`TypeCorrect` holds always, and says in particular that no request is answered before its
device has keys. `AcknowledgedStaysInFile`, `ConnectionsStayGood` and
`ServedIsOwnTunnel` assume that requests that run at the same time post different names
(`PostsApart`): the lookup and the insertion of `AddInstance` are two steps without a
lock. The invariant has a part that always holds (`Always`) and one for behaviours
without a request during loading (`WhenCalm`): a request past the lookup has a name
nobody else has, and every acknowledged device has its file, and is in the flow router
once it is loaded. `AddressesStayApart` also assumes at most 256 names, which is where the
last byte of an address wraps around, and is about requests that do not overlap; it adds
that the length of the list counts the whole files (`Counted`), which is why the number
of a new device is free.

Only model-checked, because fairness and `ENABLED` are out of the prover's reach: the
liveness properties `GameEnds`, `Terminates`, `CleanCloseReturns` and `BootEnds`. The
runs that expect a violation are counterexamples, and there is nothing to prove.

## 5. Not modelled, and why

* ed25519, base64, SSH, WireGuard, the userspace network and the VMs: external; their
  outcomes are choices of the models.
* HTML rendering (`pkg/htm`), page layout, the lists that `GET /instances`, `/events`,
  `/devices`, `/config`, `/api/teams` and `/api/vulnbox/services` show, the command line
  (`main.go`) and YAML: formatting or decoding without state of their own; no property
  here is about their text. The values they yield are the constants of the modules.
* The bytes of an open web terminal or SSH session, and the connections that failed
  tries of `WebSSHHandler` leave open until the handler returns.
* What events do. Bot events run commands in the machines and touch no board; a
  background event is cut short by the end of the request (`public.go:364`) or of the
  tick (`game.go:668`) that started it, and nothing promises otherwise.
* The error channel of `ForEachService` (`scorebot.go:146`): the only callback never
  returns an error. `rand.Intn` of a tick rate below two milliseconds (`game.go:695`).
* New devices while a game that is up is running share the flow map with every
  connection; `Devices` has their steps and lets the process end anywhere, and
  `NoCrashOnceUp` of `Boot` is about all other requests.
* A machine that ends by itself: nobody waits for the process (`tinyrange.go:200-234`), so
  `"launched"` in `Boot` does not say that it runs.
* Whether a template is built twice (`game.go:360`): the second build replaces the entry by
  the same one.
* Rounding of `float64`: points are exact fractions, so ties that rounding makes or
  breaks are not seen.
* An SSH connection serves its channels one after the other and closes them when it
  ends (`game.go:828-863`); `Proxy` and `Boot` have one channel.

## 6. Plan

The modules of the plan are written, and their safety properties are proved: the loss of
ticks without a condition on the timeline or the readers, the flow router for every
configuration, and what liveness rests on in `Boot` as far as it is safety. What is left
is out of the prover's reach (the liveness properties of section 4) or depends on code
that makes no promise (section 5).

A composition of `TickLoop` and `Scoreboard`, in which the end timer is a clock, would
join two state spaces without a new question: in `Scoreboard` the end timer may win any
select, which covers every clock.
