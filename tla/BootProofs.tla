----------------------------- MODULE BootProofs -----------------------------
(***************************************************************************)
(* Proofs about module Boot, for every number of teams, every way their    *)
(* hostnames may clash and every set of users, requests and SSH files left *)
(* behind.                                                                 *)
(***************************************************************************)
EXTENDS Boot, FiniteSetTheorems, SequenceTheorems, TLAPS

(***************************************************************************)
(* The inductive invariant. What the properties say of the end of the boot *)
(* is gathered step by step, so the invariant says for every goroutine     *)
(* what it has got done where it stands (Progress), where the others are   *)
(* while Run is at each of its points (Positions), that errChan counts the *)
(* teams that have failed (ErrorsCounted), and that what was launched for  *)
(* a team is held by it, so that the cleanup finds it (LaunchedIsHeld).    *)
(***************************************************************************)

Steps == {"none", "template", "build", "lookup", "insert", "launch", "parse",
          "dial", "login", "health", "error", "failed", "done"}
Working == Steps \ {"none", "failed", "done"}

KindsFit ==
    /\ kind[Main] = "scorebot"
    /\ \A t \in Teams : kind[t] \in Kinds \ {"scorebot"}
    /\ step[Main] \notin {"login", "health", "error"}

\* A user who is somewhere is there with an instance that was recorded.
UserFits ==
    \/ user \in {Nobody, Malformed, Submission}
    \/ user \in [at : {"channel", "config", "terminal", "page", "open"}, inst : recorded]

BootTypes == TypeOK /\ KindsFit /\ UserFits

Positions ==
    /\ main = "scorebot" =>
          /\ step[Main] \in Working \cup {"done"}
          /\ \A t \in Teams : step[t] = "none"
    /\ main = "teams" =>
          /\ step[Main] = "done"
          /\ \A t \in Teams : step[t] # "none"
    /\ main \in {"arm", "waiting", "game", "yield"} => \A w \in Workers : step[w] = "done"
    /\ main \in {"cleanup", "returned", "crashed"} =>
          \A w \in Workers : step[w] \notin Working

Held(i) == proc[i] = "launched" /\ i \in recorded /\ Routed(i)
Ready(i) == Held(i) /\ sshConfig[i] = "new"

\* The kinds of instances a team has started before the one it is at.
KindsBehind(w) ==
    /\ kind[w] \in {"bot", "soc"} => Ready(<<w, "team">>)
    /\ kind[w] = "soc" /\ BotEnabled => Ready(<<w, "bot">>)

Progress(w) ==
    /\ KindsBehind(w)
    /\ step[w] \in {"lookup", "insert", "launch"} => Template[kind[w]] \in cached
    /\ step[w] \in {"launch", "parse"} => Routed(Inst(w))
    /\ step[w] = "parse" => proc[Inst(w)] = "launched"
    /\ step[w] \in {"dial", "login", "health", "done"} => Held(Inst(w))
    /\ step[w] \in {"health", "done"} => sshConfig[Inst(w)] = "new"
    /\ step[w] = "done" /\ w # Main => kind[w] = "soc"

AllProgress == main # "returned" => \A w \in Workers : Progress(w)

FailedTeams == {t \in Teams : step[t] = "failed"}
ErrorsCounted == errChan = Cardinality(FailedTeams)

LaunchedIsHeld ==
    Alive => \A i \in Instances :
        proc[i] = "launched" /\ i[2] # "scorebot" => i \in recorded

IInv ==
    /\ BootTypes /\ Positions /\ AllProgress /\ ErrorsCounted /\ LaunchedIsHeld
    /\ CleanedUp

-----------------------------------------------------------------------------
(* Facts about the constants *)

\* There are finitely many teams, the ones of the configuration, and the error channel of
\* startTeams has room for a number.
LEMMA TeamsFinite == IsFiniteSet(Teams) /\ ErrRoom \in Nat
<1>1. DOMAIN TeamList = 1 .. Len(TeamList) /\ Len(TeamList) \in Nat
  BY BootAssumption, LenProperties
<1>2. IsFiniteSet(DOMAIN TeamList)
  BY <1>1, FS_Interval
<1>3. IsFiniteSet(Teams)
  <2>1. IsFiniteSet({TeamList[k] : k \in DOMAIN TeamList})
    <3> DEFINE F == [k \in DOMAIN TeamList |-> TeamList[k]]
    <3>1. F \in Surjection(DOMAIN TeamList, {TeamList[k] : k \in DOMAIN TeamList})
      BY DEF Surjection
    <3> QED
      BY <1>2, <3>1, FS_Surjection
  <2> QED
    BY <2>1 DEF Teams
<1> QED
  BY <1>3, FS_CardinalityType DEF ErrRoom

\* The instance a goroutine is starting is one of the game's.
LEMMA InstFits ==
    ASSUME KindsFit, NEW w \in Workers
    PROVE  Inst(w) \in Instances
BY BootAssumption DEF KindsFit, Inst, Instances, Workers

\* The failed teams are finitely many and no more than errChan has room for; while one
\* has not failed there is room for another.
LEMMA FailedBound ==
    /\ IsFiniteSet(FailedTeams)
    /\ Cardinality(FailedTeams) \in 0 .. ErrRoom
    /\ \A t \in Teams : step[t] # "failed" => Cardinality(FailedTeams) < ErrRoom
<1>1. FailedTeams \subseteq Teams
  BY DEF FailedTeams
<1>2. /\ IsFiniteSet(FailedTeams)
      /\ Cardinality(FailedTeams) \in Nat
      /\ Cardinality(FailedTeams) <= ErrRoom
      /\ ErrRoom \in Nat
  BY <1>1, TeamsFinite, FS_Subset, FS_CardinalityType DEF ErrRoom
<1>3. ASSUME NEW t \in Teams, step[t] # "failed"
      PROVE  Cardinality(FailedTeams) < ErrRoom
  <2>1. FailedTeams # Teams
    BY <1>3 DEF FailedTeams
  <2>2. Cardinality(FailedTeams) # Cardinality(Teams)
    BY <1>1, <2>1, TeamsFinite, FS_Subset
  <2> QED
    BY <1>2, <2>2 DEF ErrRoom
<1> QED
  BY <1>2, <1>3

-----------------------------------------------------------------------------
(* What steps of any kind have in common *)

\* Nothing that was reached is lost.
Forward ==
    /\ cached \subseteq cached' /\ recorded \subseteq recorded'
    /\ \A i \in Instances :
          /\ Routed(i) => Routed(i)'
          /\ proc[i] = "launched" => proc'[i] = "launched"
          /\ sshConfig[i] = "new" => sshConfig'[i] = "new"
    /\ UNCHANGED host

\* Once an instance is held, or ready, a step that only moves boots forward leaves it so.
LEMMA ForwardReady ==
    ASSUME Forward, NEW i \in Instances
    PROVE  (Held(i) => Held(i)') /\ (Ready(i) => Ready(i)')
BY DEF Forward, Held, Ready

\* The kinds a team has behind it stay behind it.
LEMMA KindsBehindStay ==
    ASSUME KindsFit, Forward, NEW w \in Workers, KindsBehind(w), kind'[w] = kind[w]
    PROVE  KindsBehind(w)'
<1>1. kind[w] \in {"bot", "soc"} => <<w, "team">> \in Instances
  BY BootAssumption DEF KindsFit, Workers, Instances, Kinds
<1>2. kind[w] = "soc" /\ BotEnabled => <<w, "bot">> \in Instances
  BY BootAssumption DEF KindsFit, Workers, Instances, Kinds
<1> QED
  BY <1>1, <1>2, ForwardReady DEF KindsBehind

\* What a goroutine has got done stays done while others work.
LEMMA OthersProgress ==
    ASSUME KindsFit, Forward, NEW w \in Workers, Progress(w),
           step'[w] = step[w], kind'[w] = kind[w]
    PROVE  Progress(w)'
<1>1. Inst(w)' = Inst(w) /\ Inst(w) \in Instances
  BY InstFits DEF Inst
<1>2. KindsBehind(w)'
  BY KindsBehindStay DEF Progress
<1> QED
  BY <1>1, <1>2, ForwardReady DEF Progress, Forward

\* Goroutine w, starting an instance, goes to step s with instances of kind k; an error
\* of the scorebot ends Run, one of a team is sent to errChan.
Moved(w, s, k) ==
    /\ Alive /\ step[w] \in Working
    /\ step' = [step EXCEPT ![w] = s]
    /\ kind' = [kind EXCEPT ![w] = k]
    /\ main' = IF w = Main /\ s = "failed" THEN "cleanup" ELSE main
    /\ errChan' = IF w # Main /\ s = "failed" THEN errChan + 1 ELSE errChan
    /\ w = Main => k = "scorebot" /\ s \notin {"login", "health", "error"}
    /\ w # Main => k \in Kinds \ {"scorebot"}

\* The instance w starts may be launched and is then held, if w is a team; nothing
\* else happens to the machines.
LaunchFits(w) ==
    /\ proc' \in [Instances -> {"none", "launched", "stopped"}]
    /\ recorded' \subseteq {i \in Instances : proc'[i] # "none"}
    /\ \A i \in Instances :
          proc'[i] = "launched" /\ i[2] # "scorebot" => proc[i] = "launched" \/ i \in recorded'

\* Where Run and the goroutines stand after one of them has moved.
LEMMA MovedPositions ==
    ASSUME BootTypes, Positions, NEW w \in Workers, NEW s \in Steps \ {"none"},
           NEW k \in Kinds, Moved(w, s, k)
    PROVE  Positions'
<1>1. step \in [Workers -> Steps]
  BY DEF BootTypes, TypeOK, Steps
<1>2. \A v \in Workers : step'[v] = IF v = w THEN s ELSE step[v]
  BY <1>1 DEF Moved
<1>3. Main \in Workers /\ Teams \subseteq Workers /\ Main \notin Teams
  BY BootAssumption DEF Workers
<1>4. CASE w = Main
  <2>1. main = "scorebot" /\ \A t \in Teams : step[t] = "none"
    BY <1>3, <1>4 DEF Positions, Moved, Alive, Working, BootTypes, TypeOK
  <2>2. \A t \in Teams : step'[t] = "none"
    BY <1>2, <1>3, <1>4, <2>1
  <2>3. step'[Main] = s
    BY <1>2, <1>3, <1>4
  <2>4. CASE s = "failed"
    <3>1. main' = "cleanup"
      BY <1>4, <2>4 DEF Moved
    <3>2. \A v \in Workers : step'[v] \notin Working
      BY <2>2, <2>3, <2>4 DEF Workers, Working
    <3> QED
      BY <3>1, <3>2 DEF Positions
  <2>5. CASE s # "failed"
    <3>1. main' = "scorebot"
      BY <2>1, <2>5 DEF Moved
    <3> QED
      BY <2>2, <2>3, <2>5, <3>1 DEF Positions, Working
  <2> QED
    BY <2>4, <2>5
<1>5. CASE w # Main
  <2>1. w \in Teams /\ main = "teams" /\ main' = main
    BY <1>3, <1>5 DEF Positions, Moved, Alive, Working, BootTypes, TypeOK, Workers
  <2>2. step'[Main] = "done" /\ \A t \in Teams : step'[t] # "none"
    BY <1>2, <1>3, <1>5, <2>1 DEF Positions
  <2> QED
    BY <2>1, <2>2 DEF Positions
<1> QED
  BY <1>4, <1>5

\* errChan goes on to count the teams that have failed, and holds no more than it has
\* room for.
LEMMA MovedCounted ==
    ASSUME BootTypes, ErrorsCounted, NEW w \in Workers, NEW s \in Steps \ {"none"},
           NEW k \in Kinds, Moved(w, s, k)
    PROVE  ErrorsCounted' /\ errChan' \in 0 .. ErrRoom
<1>1. step \in [Workers -> Steps] /\ Teams \subseteq Workers /\ Main \notin Teams
  BY BootAssumption DEF BootTypes, TypeOK, Steps, Workers
<1>2. \A v \in Workers : step'[v] = IF v = w THEN s ELSE step[v]
  BY <1>1 DEF Moved
<1>3. step[w] # "failed"
  BY DEF Moved, Working
<1>4. CASE w # Main /\ s = "failed"
  <2>1. w \in Teams
    BY <1>4 DEF Workers
  <2>2. FailedTeams' = FailedTeams \cup {w} /\ w \notin FailedTeams
    BY <1>1, <1>2, <1>3, <1>4, <2>1 DEF FailedTeams
  <2>3. Cardinality(FailedTeams \cup {w}) = Cardinality(FailedTeams) + 1
    BY <2>2, FailedBound, FS_AddElement
  <2>4. Cardinality(FailedTeams) < ErrRoom
    BY <1>3, <2>1, FailedBound
  <2>5. errChan' = errChan + 1
    BY <1>4 DEF Moved
  <2> QED
    BY <2>2, <2>3, <2>4, <2>5, FailedBound, TeamsFinite DEF ErrorsCounted
<1>5. CASE ~ (w # Main /\ s = "failed")
  <2>1. FailedTeams' = FailedTeams
    BY <1>1, <1>2, <1>3, <1>5 DEF FailedTeams
  <2> QED
    BY <1>5, <2>1, FailedBound DEF Moved, ErrorsCounted
<1> QED
  BY <1>4, <1>5

\* A move that loses nothing and accounts for what it launches keeps the invariant,
\* given what w itself has got done.
LEMMA MovedKeeps ==
    ASSUME IInv, NEW w \in Workers, NEW s \in Steps \ {"none"}, NEW k \in Kinds,
           Moved(w, s, k), Forward, LaunchFits(w), Progress(w)',
           cached' \subseteq {Template[j] : j \in Kinds},
           sshConfig' \in [Instances -> {"none", "old", "new"}],
           UNCHANGED <<sshFile, events, user, notStopped>>
    PROVE  IInv'
<1>1. /\ step \in [Workers -> Steps] /\ kind \in [Workers -> Kinds]
      /\ Main \in Workers /\ Teams \subseteq Workers /\ Main \notin Teams
  BY BootAssumption DEF IInv, BootTypes, TypeOK, Steps, Workers
<1>2. \A v \in Workers : /\ step'[v] = IF v = w THEN s ELSE step[v]
                         /\ kind'[v] = IF v = w THEN k ELSE kind[v]
  BY <1>1 DEF Moved
<1>3. Positions'
  BY MovedPositions DEF IInv
<1>4. ErrorsCounted' /\ errChan' \in 0 .. ErrRoom
  BY MovedCounted DEF IInv
<1>5. main' \in {main, "cleanup"} /\ main \notin {"returned", "crashed"}
  BY DEF Moved, Alive
<1>6. TypeOK'
  <2>1. step' \in [Workers -> Steps] /\ kind' \in [Workers -> Kinds]
    BY <1>1 DEF Moved
  <2>2. \/ user \in {Nobody, Malformed, Submission}
        \/ (user.at \in {"channel", "config", "terminal", "page", "open"}
            /\ user.inst \in recorded')
    BY DEF IInv, BootTypes, TypeOK, Forward
  <2> QED
    BY <1>4, <1>5, <2>1, <2>2, Zenon
    DEF IInv, BootTypes, TypeOK, LaunchFits, events, Steps, ErrRoom
<1>7. KindsFit'
  <2>1. kind'[Main] = "scorebot" /\ step'[Main] \notin {"login", "health", "error"}
    BY <1>1, <1>2 DEF IInv, BootTypes, KindsFit, Moved
  <2>2. \A t \in Teams : kind'[t] \in Kinds \ {"scorebot"}
    BY <1>1, <1>2 DEF IInv, BootTypes, KindsFit, Moved
  <2> QED
    BY <2>1, <2>2 DEF KindsFit
<1>8. UserFits'
  BY DEF IInv, BootTypes, UserFits, Forward
<1>9. AllProgress'
  <2>1. ASSUME NEW v \in Workers, v # w  PROVE  Progress(v)'
    <3>1. Progress(v) /\ KindsFit
      BY <1>5 DEF IInv, AllProgress, BootTypes
    <3> QED
      BY <1>2, <2>1, <3>1, OthersProgress
  <2> QED
    BY <2>1 DEF AllProgress
<1>10. LaunchedIsHeld'
  BY <1>5 DEF IInv, LaunchedIsHeld, LaunchFits, Forward, Alive
<1>11. CleanedUp'
  BY <1>5 DEF CleanedUp
<1> QED
  BY <1>3, <1>4, <1>6, <1>7, <1>8, <1>9, <1>10, <1>11 DEF IInv, BootTypes

-----------------------------------------------------------------------------
(* The steps of the goroutines that start instances *)

\* What the invariant says of a goroutine at work.
LEMMA AtWork ==
    ASSUME IInv, Alive, NEW w \in Workers
    PROVE  /\ Progress(w) /\ KindsFit /\ TypeOK
           /\ Inst(w) \in Instances
           /\ step \in [Workers -> Steps] /\ kind \in [Workers -> Kinds]
           /\ w = Main => kind[w] = "scorebot"
           /\ w # Main => kind[w] \in Kinds \ {"scorebot"}
<1>1. Progress(w) /\ KindsFit /\ TypeOK
  BY DEF IInv, BootTypes, AllProgress, Alive
<1> QED
  BY <1>1, InstFits DEF TypeOK, KindsFit, Workers, Steps

\* Only where w is and what the SSH client knows may have changed.
OnlyMoves ==
    /\ sshConfig' \in [Instances -> {"none", "old", "new"}]
    /\ \A i \in Instances : sshConfig[i] = "new" => sshConfig'[i] = "new"
    /\ UNCHANGED <<host, flow, proc, recorded, sshFile, events, user, notStopped>>

\* A goroutine that goes on to step s with the instance it is at.
LEMMA GoesKeeps ==
    ASSUME IInv, Alive, NEW w \in Workers, step[w] \in Working,
           NEW s \in Steps \ {"none", "failed"}, Goes(w, s), OnlyMoves,
           UNCHANGED <<main, kind, errChan>>,
           cached \subseteq cached', cached' \subseteq {Template[j] : j \in Kinds},
           w = Main => s \notin {"login", "health", "error"},
           KindsBehind(w)' => Progress(w)'
    PROVE  IInv'
<1>1. /\ Progress(w) /\ KindsFit /\ TypeOK
      /\ step \in [Workers -> Steps] /\ kind \in [Workers -> Kinds]
      /\ w = Main => kind[w] = "scorebot"
      /\ w # Main => kind[w] \in Kinds \ {"scorebot"}
  BY AtWork
<1>2. Forward
  BY DEF Forward, OnlyMoves, Routed
<1>3. LaunchFits(w)
  BY <1>1 DEF LaunchFits, OnlyMoves, TypeOK
<1>4. KindsBehind(w)'
  BY <1>1, <1>2, KindsBehindStay DEF Progress
<1>5. kind[w] \in Kinds /\ kind' = [kind EXCEPT ![w] = kind[w]]
  BY <1>1
<1>6. Moved(w, s, kind[w])
  BY <1>1, <1>5 DEF Moved, Goes
<1> QED
  BY <1>2, <1>3, <1>4, <1>5, <1>6, MovedKeeps DEF OnlyMoves

\* A goroutine that fails.
LEMMA FailKeeps ==
    ASSUME IInv, Alive, NEW w \in Workers, step[w] \in Working, Fail(w), OnlyMoves,
           UNCHANGED <<cached, kind, errChan>>
    PROVE  IInv'
<1> DEFINE s == IF w = Main THEN "failed" ELSE "error"
<1>1. /\ Progress(w) /\ KindsFit /\ TypeOK
      /\ step \in [Workers -> Steps] /\ kind \in [Workers -> Kinds]
      /\ w = Main => kind[w] = "scorebot"
      /\ w # Main => kind[w] \in Kinds \ {"scorebot"}
  BY AtWork
<1>2. Forward
  BY DEF Forward, OnlyMoves, Routed
<1>3. LaunchFits(w)
  BY <1>1 DEF LaunchFits, OnlyMoves, TypeOK
<1>4. KindsBehind(w)'
  BY <1>1, <1>2, KindsBehindStay DEF Progress
<1>5. kind[w] \in Kinds /\ kind' = [kind EXCEPT ![w] = kind[w]]
  BY <1>1
<1>6. Moved(w, s, kind[w]) /\ step'[w] = s
  BY <1>1, <1>5 DEF Moved, Fail, Goes
<1>7. Progress(w)'
  BY <1>4, <1>6 DEF Progress
<1>8. cached' \subseteq {Template[j] : j \in Kinds}
  BY <1>1 DEF TypeOK
<1>9. s \in Steps \ {"none"}
  BY DEF Steps
<1> HIDE DEF s
<1> QED
  BY <1>2, <1>3, <1>5, <1>6, <1>7, <1>8, <1>9, MovedKeeps DEF OnlyMoves

\* StartInstanceFromConfig up to the launch: the template and the entry of the router.
LEMMA PrepareKeeps ==
    ASSUME IInv, NEW w \in Workers,
           TestTemplate(w) \/ BuildTemplate(w) \/ FlowLookup(w),
           UNCHANGED <<sshConfig, host, sshFile, events, user, notStopped>>
    PROVE  IInv'
<1>1. Alive /\ step[w] \in Working
  BY DEF TestTemplate, BuildTemplate, FlowLookup, At, Working, Steps
<1>2. /\ Progress(w) /\ TypeOK /\ Inst(w) \in Instances
      /\ step \in [Workers -> Steps] /\ kind \in [Workers -> Kinds]
  BY <1>1, AtWork
<1>3. OnlyMoves
  BY <1>2 DEF TestTemplate, BuildTemplate, FlowLookup, OnlyMoves, TypeOK
<1>4. cached \subseteq {Template[j] : j \in Kinds} /\ kind[w] \in Kinds
  BY <1>2 DEF TypeOK
<1>5. CASE TestTemplate(w)
  <2> DEFINE s == IF Template[kind[w]] \in cached THEN "lookup" ELSE "build"
  <2>1. Goes(w, s) /\ UNCHANGED <<main, kind, errChan, cached>>
    BY <1>5 DEF TestTemplate
  <2>2. step'[w] = s
    BY <1>2, <2>1 DEF Goes
  <2>3. KindsBehind(w)' => Progress(w)'
    BY <2>1, <2>2 DEF Progress
  <2>4. s \in Steps \ {"none", "failed"} /\ s \notin {"login", "health", "error"}
    BY DEF Steps
  <2> HIDE DEF s
  <2> QED
    BY <1>1, <1>3, <1>4, <2>1, <2>3, <2>4, GoesKeeps
<1>6. CASE BuildTemplate(w)
  <2>1. CASE Fail(w) /\ UNCHANGED cached
    <3>1. UNCHANGED <<kind, errChan>>
      BY <1>6 DEF BuildTemplate
    <3> QED
      BY <1>1, <1>3, <2>1, <3>1, FailKeeps
  <2>2. CASE cached' = cached \cup {Template[kind[w]]} /\ Goes(w, "lookup") /\ UNCHANGED main
    <3>1. UNCHANGED <<kind, errChan>>
      BY <1>6 DEF BuildTemplate
    <3>2. step'[w] = "lookup"
      BY <1>2, <2>2 DEF Goes
    <3>3. KindsBehind(w)' => Progress(w)'
      BY <2>2, <3>1, <3>2 DEF Progress
    <3>4. cached \subseteq cached' /\ cached' \subseteq {Template[j] : j \in Kinds}
      BY <1>4, <2>2
    <3>5. "lookup" \in Steps \ {"none", "failed"}
      BY DEF Steps
    <3> QED
      BY <1>1, <1>3, <2>2, <3>1, <3>3, <3>4, <3>5, GoesKeeps
  <2> QED
    BY <1>6, <2>1, <2>2 DEF BuildTemplate
<1>7. CASE FlowLookup(w)
  <2>1. UNCHANGED <<kind, errChan, cached>>
    BY <1>7 DEF FlowLookup
  <2>2. CASE Fail(w)
    BY <1>1, <1>3, <2>1, <2>2, FailKeeps
  <2>3. CASE Goes(w, "insert") /\ UNCHANGED main
    <3>1. step'[w] = "insert" /\ step[w] = "lookup"
      BY <1>2, <1>7, <2>3 DEF Goes, FlowLookup, At
    <3>2. KindsBehind(w)' => Progress(w)'
      BY <1>2, <2>1, <3>1 DEF Progress
    <3>3. "insert" \in Steps \ {"none", "failed"}
      BY DEF Steps
    <3> QED
      BY <1>1, <1>3, <1>4, <2>1, <2>3, <3>2, <3>3, GoesKeeps
  <2> QED
    BY <1>7, <2>2, <2>3 DEF FlowLookup
<1> QED
  BY <1>5, <1>6, <1>7

\* The entry in the router, the launch and the flows of the instance of w.
LEMMA LaunchKeeps ==
    ASSUME IInv, NEW w \in Workers, FlowInsert(w) \/ Launch(w) \/ ParseFlows(w),
           UNCHANGED <<sshConfig, host, sshFile, events, user, notStopped>>
    PROVE  IInv'
<1>1. Alive /\ step[w] \in Working /\ UNCHANGED <<kind, cached, errChan>>
  BY DEF FlowInsert, Launch, ParseFlows, At, Working, Steps
<1>2. /\ Progress(w) /\ KindsFit /\ TypeOK /\ Inst(w) \in Instances
      /\ step \in [Workers -> Steps] /\ kind \in [Workers -> Kinds]
      /\ w = Main => kind[w] = "scorebot"
      /\ w # Main => kind[w] \in Kinds \ {"scorebot"}
  BY <1>1, AtWork
<1>3. /\ kind[w] \in Kinds /\ kind' = [kind EXCEPT ![w] = kind[w]] /\ Inst(w)' = Inst(w)
      /\ cached' \subseteq {Template[j] : j \in Kinds}
      /\ sshConfig' \in [Instances -> {"none", "old", "new"}]
  BY <1>1, <1>2 DEF TypeOK, Inst
<1>4. CASE Fail(w) /\ UNCHANGED <<flow, proc, recorded>>
  <2>1. OnlyMoves
    BY <1>2, <1>4 DEF OnlyMoves, TypeOK
  <2> QED
    BY <1>1, <1>4, <2>1, FailKeeps
<1>5. ASSUME NEW s \in {"launch", "parse", "dial"}, Goes(w, s), UNCHANGED main,
             Forward, LaunchFits(w), KindsBehind(w)' => Progress(w)'
      PROVE  IInv'
  <2>1. Moved(w, s, kind[w])
    BY <1>1, <1>2, <1>3, <1>5 DEF Moved, Goes
  <2>2. KindsBehind(w)'
    BY <1>1, <1>2, <1>5, KindsBehindStay DEF Progress
  <2>3. s \in Steps \ {"none"}
    BY DEF Steps
  <2> QED
    BY <1>2, <1>3, <1>5, <2>1, <2>2, <2>3, MovedKeeps
<1>6. CASE FlowInsert(w)
  <2>1. /\ step[w] = "insert" /\ UNCHANGED <<main, proc, recorded>>
        /\ flow' = [h \in DOMAIN flow \cup {host[Inst(w)]} |->
                       IF h = host[Inst(w)] THEN Inst(w) ELSE flow[h]]
        /\ Goes(w, "launch")
    BY <1>6 DEF FlowInsert, At
  <2>6. Routed(Inst(w))' /\ \A i \in Instances : Routed(i) => Routed(i)'
    BY <1>2, <1>3, <2>1 DEF Routed
  <2>2. Forward
    BY <1>1, <2>1, <2>6 DEF Forward
  <2>3. LaunchFits(w)
    BY <1>2, <2>1 DEF LaunchFits, TypeOK
  <2>4. step'[w] = "launch"
    BY <1>2, <2>1 DEF Goes
  <2>5. KindsBehind(w)' => Progress(w)'
    BY <1>1, <1>2, <1>3, <2>1, <2>4, <2>6 DEF Progress
  <2> QED
    BY <1>5, <2>1, <2>2, <2>3, <2>5
<1>7. CASE Launch(w) /\ ~ (Fail(w) /\ UNCHANGED <<flow, proc, recorded>>)
  <2>1. /\ step[w] = "launch" /\ proc' = [proc EXCEPT ![Inst(w)] = "launched"]
        /\ recorded' = IF w = Main THEN recorded ELSE recorded \cup {Inst(w)}
        /\ Goes(w, "parse") /\ UNCHANGED <<main, flow>>
    BY <1>7 DEF Launch, StartInstance, At
  <2>2. Forward
    BY <1>1, <1>2, <2>1 DEF Forward, Routed, TypeOK
  <2>3. LaunchFits(w)
    <3>1. proc' \in [Instances -> {"none", "launched", "stopped"}]
      BY <1>2, <2>1 DEF TypeOK
    <3>2. recorded' \subseteq {i \in Instances : proc'[i] # "none"}
      BY <1>2, <2>1 DEF TypeOK
    <3>3. w = Main => Inst(w)[2] = "scorebot"
      BY <1>2 DEF Inst
    <3> QED
      BY <1>2, <2>1, <3>1, <3>2, <3>3 DEF LaunchFits, TypeOK
  <2>4. step'[w] = "parse" /\ proc'[Inst(w)] = "launched"
    BY <1>2, <2>1 DEF Goes, TypeOK
  <2>5. KindsBehind(w)' => Progress(w)'
    BY <1>1, <1>2, <1>3, <2>1, <2>4 DEF Progress, Routed
  <2> QED
    BY <1>5, <2>1, <2>2, <2>3, <2>5
<1>8. CASE ParseFlows(w) /\ ~ (Fail(w) /\ UNCHANGED <<flow, proc, recorded>>)
  <2>1. /\ step[w] = "parse" /\ recorded' = recorded \cup {Inst(w)}
        /\ Goes(w, "dial") /\ UNCHANGED <<main, flow, proc>>
    BY <1>8 DEF ParseFlows, At
  <2>2. Forward
    BY <1>1, <2>1 DEF Forward, Routed
  <2>3. proc[Inst(w)] = "launched"
    BY <1>2, <2>1 DEF Progress
  <2>4. LaunchFits(w)
    BY <1>2, <2>1, <2>3 DEF LaunchFits, TypeOK
  <2>5. step'[w] = "dial"
    BY <1>2, <2>1 DEF Goes
  <2>6. KindsBehind(w)' => Progress(w)'
    BY <1>1, <1>2, <1>3, <2>1, <2>3, <2>5 DEF Progress, Held, Routed
  <2> QED
    BY <1>5, <2>1, <2>2, <2>4, <2>6
<1> QED
  BY <1>4, <1>6, <1>7, <1>8

\* clientConfig keeps what has been read and reads one of the files there may be.
LEMMA ConfigFits ==
    ASSUME TypeOK, NEW i \in Instances, clientConfig(i)
    PROVE  /\ sshConfig' \in [Instances -> {"none", "old", "new"}]
           /\ \A j \in Instances : sshConfig[j] = "new" => sshConfig'[j] = "new"
BY DEF clientConfig, TypeOK

\* The init command, or the health check after it, has succeeded: on to the next kind.
LEMMA ProceedKeeps ==
    ASSUME IInv, Alive, NEW w \in Workers, step[w] \in {"login", "health"}, Proceed(w),
           OnlyMoves, sshConfig'[Inst(w)] = "new", UNCHANGED <<main, cached, errChan>>
    PROVE  IInv'
<1> DEFINE s == IF kind[w] = "soc" THEN "done" ELSE "template"
           k == NextKind(kind[w])
<1>1. /\ Progress(w) /\ KindsFit /\ TypeOK /\ Inst(w) \in Instances
      /\ step \in [Workers -> Steps] /\ kind \in [Workers -> Kinds]
      /\ w # Main /\ kind[w] \in Kinds \ {"scorebot"}
  BY AtWork DEF KindsFit
<1>2. kind[w] \in {"team", "bot", "soc"} /\ (kind[w] = "bot" => BotEnabled)
  BY <1>1, BootAssumption DEF Kinds
<1>3. k = IF kind[w] = "team" /\ BotEnabled THEN "bot" ELSE "soc"
  BY <1>2 DEF NextKind
<1>4. k \in Kinds \ {"scorebot"}
  BY <1>3, BootAssumption DEF Kinds
<1>5. /\ step' = [step EXCEPT ![w] = s] /\ kind' = [kind EXCEPT ![w] = k]
      /\ step'[w] = s /\ kind'[w] = k
  BY <1>1 DEF Proceed, Goes
<1> HIDE DEF k
<1>6. Forward
  BY DEF Forward, OnlyMoves, Routed
<1>7. LaunchFits(w)
  BY <1>1 DEF LaunchFits, OnlyMoves, TypeOK
<1>8. PICK i \in Instances : i = <<w, kind[w]>>
  BY <1>1 DEF Inst
<1>9. Ready(i)'
  BY <1>1, <1>8 DEF Progress, Held, Ready, Routed, OnlyMoves, Inst
<1>10. KindsBehind(w)'
  <2>1. CASE kind[w] = "team"
    <3>1. i = <<w, "team">>
      BY <1>8, <2>1
    <3> QED
      BY <1>3, <1>5, <1>9, <2>1, <3>1 DEF KindsBehind
  <2>2. CASE kind[w] = "bot"
    <3>1. i = <<w, "bot">>
      BY <1>8, <2>2
    <3>2. Ready(<<w, "team">>) /\ <<w, "team">> \in Instances
      BY <1>1, <2>2 DEF Progress, KindsBehind, Workers, Instances, Kinds
    <3>3. Ready(<<w, "team">>)'
      BY <1>6, <3>2, ForwardReady
    <3> QED
      BY <1>9, <3>1, <3>3 DEF KindsBehind
  <2>3. CASE kind[w] = "soc"
    BY <1>1, <1>3, <1>5, <1>6, <2>3, KindsBehindStay DEF Progress
  <2> QED
    BY <1>2, <2>1, <2>2, <2>3
<1>11. Progress(w)'
  <2>1. CASE kind[w] = "soc"
    <3>1. Inst(w)' = i
      BY <1>3, <1>5, <1>8, <2>1 DEF Inst
    <3> QED
      BY <1>3, <1>5, <1>9, <1>10, <2>1, <3>1 DEF Progress, Ready, Held
  <2>2. CASE kind[w] # "soc"
    BY <1>5, <1>10, <2>2 DEF Progress
  <2> QED
    BY <2>1, <2>2
<1>12. Moved(w, s, k)
  BY <1>1, <1>4, <1>5 DEF Moved, Working, Steps
<1>13. /\ s \in Steps \ {"none"} /\ k \in Kinds
       /\ cached' \subseteq {Template[j] : j \in Kinds}
  BY <1>1, <1>4 DEF Steps, TypeOK
<1> HIDE DEF s
<1> QED
  BY <1>6, <1>7, <1>11, <1>12, <1>13, MovedKeeps DEF OnlyMoves

\* DialInit, RunInit, HealthCheck, PollScorebot and SendError: the instance is up, and
\* answers or fails.
LEMMA CommandKeeps ==
    ASSUME IInv, NEW w \in Workers,
           \/ DialInit(w) /\ UNCHANGED sshConfig
           \/ HealthCheck(w) /\ UNCHANGED sshConfig
           \/ SendError(w) /\ UNCHANGED sshConfig
           \/ RunInit(w)
           \/ w = Main /\ PollScorebot,
           UNCHANGED <<host, sshFile, events, user, notStopped>>
    PROVE  IInv'
<1>1. Alive /\ step[w] \in Working
  BY DEF DialInit, HealthCheck, SendError, RunInit, PollScorebot, At, Working, Steps
<1>2. /\ Progress(w) /\ KindsFit /\ TypeOK /\ Inst(w) \in Instances
      /\ step \in [Workers -> Steps] /\ kind \in [Workers -> Kinds]
      /\ w = Main => kind[w] = "scorebot"
      /\ w # Main => kind[w] \in Kinds \ {"scorebot"}
  BY <1>1, AtWork
<1>3. cached' = cached /\ cached \subseteq {Template[j] : j \in Kinds}
  BY <1>2 DEF DialInit, HealthCheck, SendError, RunInit, PollScorebot, TypeOK
<1>4. OnlyMoves
  <2>1. UNCHANGED <<flow, proc, recorded>>
    BY DEF DialInit, HealthCheck, SendError, RunInit, PollScorebot
  <2>2. UNCHANGED sshConfig \/ clientConfig(Inst(w))
    BY DEF RunInit, PollScorebot, HalfWritten
  <2> QED
    BY <1>2, <2>1, <2>2, ConfigFits DEF OnlyMoves, TypeOK
<1>5. ASSUME Fail(w), UNCHANGED <<kind, errChan>>  PROVE  IInv'
  BY <1>1, <1>3, <1>4, <1>5, FailKeeps
<1>6. CASE DialInit(w)
  <2>1. w # Main /\ step[w] = "dial" /\ UNCHANGED <<kind, errChan>>
    BY <1>6 DEF DialInit, At
  <2>2. CASE Goes(w, "login") /\ UNCHANGED main
    <3>1. step'[w] = "login" /\ Inst(w)' = Inst(w)
      BY <1>2, <2>1, <2>2 DEF Goes, Inst
    <3>2. Held(Inst(w))'
      BY <1>2, <1>4, <2>1, <3>1 DEF Progress, Held, Routed, OnlyMoves
    <3>3. KindsBehind(w)' => Progress(w)'
      BY <3>1, <3>2 DEF Progress
    <3>4. "login" \in Steps \ {"none", "failed"}
      BY DEF Steps
    <3> QED
      BY <1>1, <1>3, <1>4, <2>1, <2>2, <3>3, <3>4, GoesKeeps
  <2> QED
    BY <1>5, <1>6, <2>1, <2>2 DEF DialInit
<1>7. CASE HealthCheck(w)
  <2>1. step[w] = "health" /\ UNCHANGED <<errChan, sshConfig>>
    BY <1>7 DEF HealthCheck, At, RunInit, PollScorebot, DialInit, SendError
  <2>2. CASE Proceed(w) /\ UNCHANGED main
    <3>1. sshConfig'[Inst(w)] = "new"
      BY <1>2, <2>1 DEF Progress
    <3> QED
      BY <1>1, <1>3, <1>4, <2>1, <2>2, <3>1, ProceedKeeps
  <2> QED
    BY <1>5, <1>7, <2>1, <2>2 DEF HealthCheck
<1>8. CASE RunInit(w)
  <2>1. step[w] = "login" /\ w # Main /\ UNCHANGED errChan
    BY <1>2, <1>8 DEF RunInit, At, KindsFit
  <2>2. CASE LogsIn(Inst(w)) /\ Goes(w, "health") /\ UNCHANGED <<kind, main>>
    <3>1. step'[w] = "health" /\ Inst(w)' = Inst(w) /\ sshConfig'[Inst(w)] = "new"
      BY <1>2, <2>1, <2>2 DEF Goes, Inst, LogsIn
    <3>2. Held(Inst(w))'
      BY <1>2, <1>4, <2>1, <3>1 DEF Progress, Held, Routed, OnlyMoves
    <3>3. KindsBehind(w)' => Progress(w)'
      BY <3>1, <3>2 DEF Progress
    <3>4. "health" \in Steps \ {"none", "failed"}
      BY DEF Steps
    <3> QED
      BY <1>1, <1>3, <1>4, <2>1, <2>2, <3>3, <3>4, GoesKeeps
  <2>3. CASE LogsIn(Inst(w)) /\ Proceed(w) /\ UNCHANGED main
    BY <1>1, <1>3, <1>4, <2>1, <2>3, ProceedKeeps DEF LogsIn
  <2> QED
    BY <1>5, <1>8, <2>1, <2>2, <2>3 DEF RunInit
<1>9. CASE w = Main /\ PollScorebot
  <2>1. step[w] = "dial" /\ UNCHANGED <<main, kind, errChan>>
    BY <1>9 DEF PollScorebot, At
  <2>2. PICK s \in {"dial", "done"} : Goes(w, s) /\ (s = "done" => LogsIn(Inst(w)))
    BY <1>2, <1>9, <2>1 DEF PollScorebot, Goes
  <2>3. step'[w] = s /\ Inst(w)' = Inst(w)
    BY <1>2, <2>1, <2>2 DEF Goes, Inst
  <2>4. Held(Inst(w))' /\ (s = "done" => sshConfig'[Inst(w)] = "new")
    BY <1>2, <1>4, <2>1, <2>2, <2>3 DEF Progress, Held, Routed, OnlyMoves, LogsIn
  <2>5. KindsBehind(w)' => Progress(w)'
    BY <1>9, <2>2, <2>3, <2>4 DEF Progress
  <2>6. s \in Steps \ {"none", "failed"}
    BY <2>2 DEF Steps
  <2> QED
    BY <1>1, <1>3, <1>4, <2>1, <2>2, <2>5, <2>6, GoesKeeps
<1>10. CASE SendError(w)
  <2>1. step[w] = "error" /\ w # Main
    BY <1>2, <1>10 DEF SendError, At, KindsFit
  <2>2. /\ Goes(w, "failed") /\ errChan' = errChan + 1
        /\ UNCHANGED <<main, kind>> /\ kind' = [kind EXCEPT ![w] = kind[w]]
    BY <1>2, <1>10 DEF SendError
  <2>3. Moved(w, "failed", kind[w]) /\ kind[w] \in Kinds /\ "failed" \in Steps \ {"none"}
    BY <1>1, <1>2, <2>1, <2>2 DEF Moved, Goes, Steps
  <2>4. Forward
    BY <1>3, <1>4 DEF Forward, OnlyMoves, Routed
  <2>5. LaunchFits(w)
    BY <1>2, <1>4 DEF LaunchFits, OnlyMoves, TypeOK
  <2>6. Progress(w)'
    <3>1. KindsBehind(w)'
      BY <1>2, <2>2, <2>4, KindsBehindStay DEF Progress
    <3>2. step'[w] = "failed"
      BY <1>2, <2>2 DEF Goes
    <3> QED
      BY <3>1, <3>2 DEF Progress
  <2> QED
    BY <1>3, <1>4, <2>3, <2>4, <2>5, <2>6, MovedKeeps DEF OnlyMoves
<1> QED
  BY <1>6, <1>7, <1>8, <1>9, <1>10

\* Every step of a goroutine that boots an instance keeps the invariant.
LEMMA WorkerKeeps ==
    ASSUME IInv, NEW w \in Workers, WorkerStep(w)
    PROVE  IInv'
<1>1. UNCHANGED <<host, sshFile, events, user, notStopped>>
  BY DEF WorkerStep
<1> QED
  BY <1>1, PrepareKeeps, LaunchKeeps, CommandKeeps DEF WorkerStep

-----------------------------------------------------------------------------
(* The steps of everyone else *)

\* A step that leaves Run, the goroutines and the machines alone.
LEMMA QuietKeeps ==
    ASSUME IInv, Alive, UNCHANGED <<host, main, starting, errChan, notStopped>>,
           sshFile' \in [Instances -> {"none", "old", "new"}],
           sshConfig' \in [Instances -> {"none", "old", "new"}],
           \A i \in Instances : sshConfig[i] = "new" => sshConfig'[i] = "new",
           {startEvent', started'} \subseteq BOOLEAN,
           poster' \in [Posters -> {"idle", "close", "remove", "done", "panicked"}],
           UserFits'
    PROVE  IInv'
<1> USE DEF starting
<1>1. BootTypes'
  <2>1. TypeOK'
    <3>1. \/ user' \in {Nobody, Malformed, Submission}
          \/ (/\ user'.at \in {"channel", "config", "terminal", "page", "open"}
              /\ user'.inst \in recorded)
      BY DEF UserFits
    <3>2. TypeOK
      BY DEF IInv, BootTypes
    <3> QED
      BY <3>1, <3>2, Zenon DEF TypeOK, ErrRoom
  <2>2. KindsFit'
    BY DEF IInv, BootTypes, KindsFit
  <2> QED
    BY <2>1, <2>2 DEF BootTypes
<1>2. Positions' /\ ErrorsCounted' /\ LaunchedIsHeld' /\ CleanedUp'
  BY DEF IInv, Positions, ErrorsCounted, FailedTeams, LaunchedIsHeld, CleanedUp, Alive
<1>3. AllProgress'
  <2>1. Forward
    BY DEF Forward, Routed
  <2>2. ASSUME NEW w \in Workers  PROVE  Progress(w)'
    BY <2>1, AtWork, OthersProgress
  <2> QED
    BY <2>2 DEF AllProgress
<1> QED
  BY <1>1, <1>2, <1>3 DEF IInv

\* The process ends.
LEMMA CrashKeeps ==
    ASSUME IInv, Crash
    PROVE  IInv'
<1>1. /\ Main \in Workers /\ Teams \subseteq Workers /\ Main \notin Teams
      /\ {"scorebot", "team"} \subseteq Kinds
  BY BootAssumption DEF Workers, Kinds
<1>2. FailedTeams' = {}
  BY <1>1 DEF FailedTeams, Crash
<1>3. ErrorsCounted'
  BY <1>2, FS_EmptySet DEF ErrorsCounted, Crash
<1>4. 0 \in 0 .. ErrRoom
  BY TeamsFinite
<1>5. TypeOK'
  <2>1. /\ kind' \in [Workers -> Kinds]
        /\ step' \in [Workers -> Steps]
        /\ poster' \in [Posters -> {"idle", "close", "remove", "done", "panicked"}]
        /\ sshConfig' \in [Instances -> {"none", "old", "new"}]
        /\ errChan' \in 0 .. ErrRoom
        /\ cached' = {} /\ recorded' = {} /\ user' = Nobody
        /\ startEvent' = FALSE /\ started' = FALSE /\ main' = "crashed"
        /\ UNCHANGED <<proc, sshFile, notStopped>>
    BY <1>1, <1>4 DEF Crash, Steps
  <2>2. TypeOK
    BY DEF IInv, BootTypes
  <2> QED
    BY <2>1, <2>2, Zenon DEF TypeOK, Steps, ErrRoom
<1>6. KindsFit' /\ UserFits'
  BY <1>1 DEF Crash, KindsFit, UserFits, Kinds
<1>7. Positions'
  BY <1>1 DEF Crash, Positions, Working
<1>8. AllProgress'
  BY DEF Crash, AllProgress, Progress, KindsBehind
<1>9. LaunchedIsHeld' /\ CleanedUp'
  BY DEF Crash, LaunchedIsHeld, CleanedUp, Alive
<1> QED
  BY <1>3, <1>5, <1>6, <1>7, <1>8, <1>9 DEF IInv, BootTypes

\* The web terminal, the SSH channel and the page of the vulnboxes only ever look at
\* recorded instances, and leave alone what the others do.
LEMMA UserKeeps ==
    ASSUME IInv, UserStep \/ UserComesOrGoes
    PROVE  IInv'
<1>1. /\ Alive
      /\ UNCHANGED <<host, main, starting, errChan, events, notStopped, sshFile>>
  BY DEF UserStep, UserComesOrGoes, DialChannel, ConfigTerminal, DialTerminal, ShowVulnbox,
         OpenChannel, OpenTerminal, OpenVulnboxPage, OpenMalformed, SubmitFlag,
         FlagAnswered, Leave, HalfWritten, UserAt, ssh
<1>2. /\ recorded' = recorded /\ TypeOK /\ UserFits
      /\ recorded \subseteq Instances
  BY <1>1 DEF starting, IInv, BootTypes, TypeOK
<1>3. user \in {Nobody, Malformed, Submission} \/ user.inst \in Instances
  BY <1>2 DEF UserFits
<1>4. \/ UNCHANGED sshConfig
      \/ user.inst \in Instances /\ clientConfig(user.inst)
  <2>1. CASE UserAt("config") \/ UserAt("page")
    <3>1. user \notin {Nobody, Malformed, Submission}
      BY <2>1 DEF UserAt, Nobody, Malformed, Submission
    <3> QED
      BY <1>3, <2>1, <3>1
      DEF UserStep, UserComesOrGoes, DialChannel, ConfigTerminal, DialTerminal, ShowVulnbox,
          OpenChannel, OpenTerminal, OpenVulnboxPage, OpenMalformed, SubmitFlag,
         FlagAnswered, Leave, HalfWritten, UserAt, ssh
  <2>2. CASE ~ (UserAt("config") \/ UserAt("page"))
    BY <2>2
    DEF UserStep, UserComesOrGoes, DialChannel, ConfigTerminal, DialTerminal, ShowVulnbox,
        OpenChannel, OpenTerminal, OpenVulnboxPage, OpenMalformed, SubmitFlag,
         FlagAnswered, Leave, HalfWritten, UserAt, ssh
  <2> QED
    BY <2>1, <2>2
<1>5. /\ sshConfig' \in [Instances -> {"none", "old", "new"}]
      /\ \A i \in Instances : sshConfig[i] = "new" => sshConfig'[i] = "new"
  BY <1>2, <1>4, ConfigFits DEF TypeOK
<1>6. UserFits'
  <2>1. ASSUME NEW from, ShowFrom(from)  PROVE  UserFits'
    BY <1>2, <2>1 DEF ShowFrom, FirstVulnbox, UserFits
  <2>2. ASSUME NEW i, OpenChannel(i) \/ OpenTerminal(i)  PROVE  UserFits'
    <3>1. PICK j \in Instances : Finds(i, j) /\ user'.inst = j
               /\ user' \in [at : {"channel", "config"}, inst : {j}]
      BY <2>2 DEF OpenChannel, OpenTerminal
    <3>2. j \in recorded
      BY <3>1 DEF Finds, Named
    <3> QED
      BY <1>2, <3>1, <3>2 DEF UserFits
  <2>3. CASE DialChannel \/ ConfigTerminal \/ DialTerminal
    <3>1. user \in [at : {"channel", "config", "terminal", "page", "open"}, inst : recorded]
      BY <1>2, <2>3 DEF DialChannel, ConfigTerminal, DialTerminal, UserAt, UserFits,
               Nobody, Malformed, Submission
    <3>2. \/ user' \in {Nobody, Malformed, Submission}
          \/ user' = [user EXCEPT !.at = "open"] \/ user' = [user EXCEPT !.at = "terminal"]
      BY <2>3 DEF DialChannel, ConfigTerminal, DialTerminal
    <3> QED
      BY <1>2, <3>1, <3>2 DEF UserFits
  <2>4. CASE Leave \/ FlagAnswered \/ OpenMalformed \/ SubmitFlag
    BY <2>4 DEF Leave, FlagAnswered, OpenMalformed, SubmitFlag, UserFits
  <2> QED
    BY <2>1, <2>2, <2>3, <2>4 DEF UserStep, UserComesOrGoes, ShowVulnbox, OpenVulnboxPage
<1>7. /\ sshFile' \in [Instances -> {"none", "old", "new"}]
      /\ {startEvent', started'} \subseteq BOOLEAN
      /\ poster' \in [Posters -> {"idle", "close", "remove", "done", "panicked"}]
  BY <1>1, <1>2 DEF TypeOK, events
<1> QED
  BY <1>1, <1>5, <1>6, <1>7, QuietKeeps

\* The machines write their files and administrators post the start event.
LEMMA OthersKeep ==
    ASSUME IInv,
           \/ \E i \in Instances : VmWritesFile(i)
           \/ /\ \E p \in Posters : PostStart(p) \/ PosterStep(p)
              /\ UNCHANGED <<host, starting, ssh, errChan, user, notStopped>>
    PROVE  IInv'
<1>1. TypeOK /\ UserFits
  BY DEF IInv, BootTypes
<1>2. /\ Alive /\ UNCHANGED <<host, main, starting, errChan, user, notStopped, sshConfig>>
  BY DEF VmWritesFile, PostStart, PosterStep, CloseStart, RemoveStart, ssh
<1>3. sshFile' \in [Instances -> {"none", "old", "new"}]
  BY <1>1 DEF TypeOK, VmWritesFile, ssh
<1>4. /\ {startEvent', started'} \subseteq BOOLEAN
      /\ poster' \in [Posters -> {"idle", "close", "remove", "done", "panicked"}]
  <2>1. CASE \E i \in Instances : VmWritesFile(i)
    BY <1>1, <2>1 DEF TypeOK, VmWritesFile, events
  <2>2. ASSUME NEW p \in Posters, PostStart(p) \/ PosterStep(p)
        PROVE  /\ {startEvent', started'} \subseteq BOOLEAN
               /\ poster' \in [Posters -> {"idle", "close", "remove", "done", "panicked"}]
    <3>1. poster \in [Posters -> {"idle", "close", "remove", "done", "panicked"}]
      BY <1>1 DEF TypeOK
    <3>2. startEvent \in BOOLEAN /\ started \in BOOLEAN
      BY <1>1, Zenon DEF TypeOK
    <3>3. CASE PostStart(p)
      <4>1. poster' = [poster EXCEPT ![p] = "close"]
        BY <3>3 DEF PostStart
      <4>2. poster' \in [Posters -> {"idle", "close", "remove", "done", "panicked"}]
        BY <3>1, <4>1
      <4>3. startEvent' = startEvent /\ started' = started
        BY <3>3 DEF PostStart
      <4> QED
        BY <3>2, <4>2, <4>3
    <3>4. CASE CloseStart(p)
      <4>1. poster' = [poster EXCEPT ![p] = IF started THEN "panicked" ELSE "remove"]
        BY <3>4 DEF CloseStart
      <4>2. poster' \in [Posters -> {"idle", "close", "remove", "done", "panicked"}]
        BY <3>1, <4>1
      <4>3. startEvent' = startEvent /\ started' = TRUE
        BY <3>4 DEF CloseStart
      <4> QED
        BY <3>2, <4>2, <4>3
    <3>5. CASE RemoveStart(p)
      <4>1. poster' = [poster EXCEPT ![p] = "done"]
        BY <3>5 DEF RemoveStart
      <4>2. poster' \in [Posters -> {"idle", "close", "remove", "done", "panicked"}]
        BY <3>1, <4>1
      <4>3. startEvent' = FALSE /\ started' = started
        BY <3>5 DEF RemoveStart
      <4> QED
        BY <3>2, <4>2, <4>3
    <3> QED
      BY <2>2, <3>3, <3>4, <3>5 DEF PosterStep
  <2> QED
    BY <2>1, <2>2
<1>5. UserFits'
  BY <1>1, <1>2 DEF UserFits, starting
<1>6. sshConfig' \in [Instances -> {"none", "old", "new"}]
  BY <1>1, <1>2 DEF TypeOK
<1> QED
  BY <1>2, <1>3, <1>4, <1>5, <1>6, QuietKeeps

-----------------------------------------------------------------------------
(* The steps of Run *)

\* Run goes on, and leaves the goroutines and the machines alone.
LEMMA RunGoesOn ==
    ASSUME IInv, Alive, UNCHANGED <<host, starting, ssh, errChan, user, notStopped>>,
           main' \in {"arm", "waiting", "game", "yield", "cleanup"}, Positions',
           {startEvent', started'} \subseteq BOOLEAN, UNCHANGED poster
    PROVE  IInv'
<1> USE DEF starting, ssh
<1>1. TypeOK'
  <2>1. TypeOK
    BY DEF IInv, BootTypes
  <2> QED
    BY <2>1, Zenon DEF TypeOK, ErrRoom
<1>2. KindsFit' /\ UserFits' /\ ErrorsCounted'
  BY DEF IInv, BootTypes, KindsFit, UserFits, ErrorsCounted, FailedTeams
<1>3. AllProgress'
  <2>1. Forward
    BY DEF Forward, Routed
  <2>2. ASSUME NEW w \in Workers  PROVE  Progress(w)'
    BY <2>1, AtWork, OthersProgress
  <2> QED
    BY <2>2 DEF AllProgress
<1>4. LaunchedIsHeld' /\ CleanedUp'
  BY DEF IInv, LaunchedIsHeld, CleanedUp, Alive
<1> QED
  BY <1>1, <1>2, <1>3, <1>4 DEF IInv, BootTypes

\* Once every team's goroutine has ended, either errChan holds an error or all of them
\* are done.
LEMMA JoinedPositions ==
    ASSUME IInv, TeamsJoined
    PROVE  Positions'
<1>1. main = "teams" /\ step[Main] = "done" /\ UNCHANGED step
  BY DEF TeamsJoined, IInv, Positions, starting
<1>2. \A t \in Teams : step[t] \in {"done", "failed"}
  BY DEF TeamsJoined
<1>3. CASE errChan > 0
  <2>1. main' = "cleanup"
    BY <1>3 DEF TeamsJoined
  <2>2. \A w \in Workers : step[w] \notin Working
    BY <1>1, <1>2 DEF Workers, Working
  <2> QED
    BY <1>1, <2>1, <2>2 DEF Positions
<1>4. CASE ~ (errChan > 0)
  <2>1. errChan = 0
    BY <1>4, TeamsFinite DEF IInv, BootTypes, TypeOK
  <2>2. FailedTeams = {}
    BY <2>1, FailedBound, FS_EmptySet DEF IInv, ErrorsCounted
  <2>3. \A w \in Workers : step'[w] = "done"
    BY <1>1, <1>2, <2>2 DEF Workers, FailedTeams
  <2>4. main' \in {"arm", "game"}
    BY <1>4 DEF TeamsJoined, AfterBoot
  <2> QED
    BY <2>3, <2>4 DEF Positions
<1> QED
  BY <1>3, <1>4

\* startTeams, which makes the goroutines and reads what they report, keeps the invariant.
LEMMA StartTeamsKeeps ==
    ASSUME IInv, StartTeams, UNCHANGED <<host, ssh, user>>
    PROVE  IInv'
<1>1. /\ step \in [Workers -> Steps] /\ Main \in Workers /\ Teams \subseteq Workers
      /\ Main \notin Teams
  BY BootAssumption DEF IInv, BootTypes, TypeOK, Steps, Workers
<1>2. /\ main = "scorebot" /\ main' = "teams" /\ step[Main] = "done"
      /\ step' = [w \in Workers |-> IF w = Main THEN "done" ELSE "template"]
      /\ UNCHANGED <<kind, cached, flow, proc, recorded, errChan, events, notStopped>>
  BY DEF StartTeams
<1>3. \A t \in Teams : step[t] = "none" /\ step'[t] = "template"
  BY <1>1, <1>2 DEF IInv, Positions
<1>4. TypeOK'
  <2>1. TypeOK
    BY DEF IInv, BootTypes
  <2>2. step' \in [Workers -> Steps]
    BY <1>2 DEF Steps
  <2> QED
    BY <1>2, <2>1, <2>2, Zenon DEF TypeOK, ErrRoom, Steps, events, ssh
<1>5. KindsFit' /\ UserFits'
  BY <1>1, <1>2 DEF IInv, BootTypes, KindsFit, UserFits
<1>6. Positions'
  BY <1>1, <1>2, <1>3 DEF Positions
<1>7. ErrorsCounted'
  <2>1. FailedTeams' = FailedTeams
    BY <1>3 DEF FailedTeams
  <2> QED
    BY <1>2, <2>1 DEF IInv, ErrorsCounted
<1>8. AllProgress'
  <2>1. Forward
    BY <1>2 DEF Forward, Routed, ssh
  <2>2. ASSUME NEW w \in Workers  PROVE  Progress(w)'
    <3>1. Progress(w) /\ KindsFit /\ kind'[w] = kind[w]
      BY <1>2 DEF IInv, AllProgress, BootTypes
    <3>2. CASE w = Main
      BY <1>1, <1>2, <2>1, <3>1, <3>2, OthersProgress
    <3>3. CASE w # Main
      <4>1. KindsBehind(w)'
        BY <2>1, <3>1, KindsBehindStay DEF Progress
      <4>2. step'[w] = "template"
        BY <1>2, <3>3
      <4> QED
        BY <4>1, <4>2 DEF Progress
    <3> QED
      BY <3>2, <3>3
  <2> QED
    BY <2>2 DEF AllProgress
<1>9. LaunchedIsHeld' /\ CleanedUp'
  BY <1>2 DEF IInv, LaunchedIsHeld, CleanedUp, Alive
<1> QED
  BY <1>4, <1>5, <1>6, <1>7, <1>8, <1>9 DEF IInv, BootTypes

\* The deferred cleanup stops what it can and keeps account of the rest.
LEMMA CleanUpKeeps ==
    ASSUME IInv, CleanUp, UNCHANGED <<host, ssh, user>>
    PROVE  IInv'
<1>1. /\ main = "cleanup" /\ main' = "returned"
      /\ notStopped' \subseteq {i \in recorded : i[2] # "soc"}
      /\ proc' = [i \in Instances |->
                     IF i \in Stopped(notStopped') THEN "stopped" ELSE proc[i]]
      /\ UNCHANGED <<kind, step, cached, flow, recorded, errChan, events>>
  BY DEF CleanUp
<1>2. TypeOK /\ proc \in [Instances -> {"none", "launched", "stopped"}]
  BY DEF IInv, BootTypes, TypeOK
<1>3. \A i \in Instances : proc'[i] = IF i \in Stopped(notStopped') THEN "stopped" ELSE proc[i]
  BY <1>1
<1>4. TypeOK'
  <2>1. /\ proc' \in [Instances -> {"none", "launched", "stopped"}]
        /\ recorded' \subseteq {i \in Instances : proc'[i] # "none"}
        /\ notStopped' \subseteq Instances
    BY <1>1, <1>2, <1>3 DEF TypeOK
  <2> QED
    BY <1>1, <1>2, <2>1, Zenon DEF TypeOK, ErrRoom, events, ssh
<1>5. KindsFit' /\ UserFits' /\ Positions' /\ ErrorsCounted'
  BY <1>1 DEF IInv, BootTypes, KindsFit, UserFits, Positions, ErrorsCounted, FailedTeams
<1>6. AllProgress' /\ LaunchedIsHeld'
  BY <1>1 DEF AllProgress, LaunchedIsHeld, Alive
<1>7. CleanedUp'
  <2> SUFFICES ASSUME NEW i \in Instances, proc'[i] = "launched",
                      i[2] # "soc", ~ (i[2] = "scorebot" /\ i \notin recorded)
               PROVE  \E j \in notStopped' : j[1] = i[1]
    BY <1>1 DEF CleanedUp
  <2>1. proc[i] = "launched" /\ i \notin Stopped(notStopped')
    BY <1>3
  <2>2. i \in recorded
    BY <1>1, <2>1 DEF IInv, LaunchedIsHeld, Alive
  <2>3. i \in notStopped' \/ <<i[1], "team">> \in notStopped'
    BY <2>1, <2>2 DEF Stopped
  <2>4. <<i[1], "team">>[1] = i[1]
    OBVIOUS
  <2> QED
    BY <2>3, <2>4
<1> QED
  BY <1>4, <1>5, <1>6, <1>7 DEF IInv, BootTypes

\* Every step of Run outside the goroutines, and a game that is over, keeps the invariant.
LEMMA RunKeeps ==
    ASSUME IInv, RunStep \/ (GameOver /\ UNCHANGED <<host, ssh, user>>)
    PROVE  IInv'
<1>1. UNCHANGED <<host, ssh, user>>
  BY DEF RunStep
<1>2. CASE StartTeams
  BY <1>1, <1>2, StartTeamsKeeps
<1>3. CASE CleanUp
  BY <1>1, <1>3, CleanUpKeeps
<1>4. CASE TeamsJoined \/ AddStartEvent \/ StartReceived \/ GameOver
  <2>1. /\ Alive /\ UNCHANGED <<starting, errChan, notStopped>>
        /\ main' \in {"arm", "waiting", "game", "yield", "cleanup"}
    BY <1>4 DEF TeamsJoined, AddStartEvent, StartReceived, GameOver, Alive, AfterBoot
  <2>2. {startEvent', started'} \subseteq BOOLEAN /\ UNCHANGED poster
    BY <1>4 DEF TeamsJoined, AddStartEvent, StartReceived, GameOver, events,
                IInv, BootTypes, TypeOK
  <2>3. Positions'
    <3>1. CASE TeamsJoined
      BY <3>1, JoinedPositions
    <3>2. CASE AddStartEvent \/ StartReceived \/ GameOver
      <4>1. main \in {"arm", "waiting", "game"} /\ UNCHANGED step
        BY <3>2 DEF AddStartEvent, StartReceived, GameOver, starting
      <4>2. \A w \in Workers : step'[w] = "done"
        BY <4>1 DEF IInv, Positions
      <4>3. main' \in {"waiting", "game", "yield", "cleanup"}
        BY <3>2 DEF AddStartEvent, StartReceived, GameOver
      <4> QED
        BY <4>2, <4>3 DEF Positions, Working
    <3> QED
      BY <1>4, <3>1, <3>2
  <2> QED
    BY <1>1, <2>1, <2>2, <2>3, RunGoesOn
<1> QED
  BY <1>2, <1>3, <1>4 DEF RunStep

-----------------------------------------------------------------------------
(* The invariant holds *)

\* The invariant holds before Run has begun.
LEMMA InitIInv == Init => IInv
<1> SUFFICES ASSUME Init  PROVE  IInv
  OBVIOUS
<1>1. /\ Main \in Workers /\ Teams \subseteq Workers /\ Main \notin Teams
      /\ {"scorebot", "team"} \subseteq Kinds
  BY BootAssumption DEF Workers, Kinds
<1>2. TypeOK
  <2>1. /\ kind \in [Workers -> Kinds] /\ step \in [Workers -> Steps]
        /\ proc \in [Instances -> {"none", "launched", "stopped"}]
        /\ sshFile \in [Instances -> {"none", "old", "new"}]
        /\ sshConfig \in [Instances -> {"none", "old", "new"}]
        /\ poster \in [Posters -> {"idle", "close", "remove", "done", "panicked"}]
    BY <1>1 DEF Init, Steps
  <2>2. errChan \in 0 .. ErrRoom
    BY TeamsFinite DEF Init
  <2> QED
    BY <2>1, <2>2, Zenon DEF Init, TypeOK, Steps, ErrRoom
<1>3. KindsFit /\ UserFits /\ Positions
  BY <1>1 DEF Init, KindsFit, UserFits, Positions, Working, Steps, Kinds
<1>4. AllProgress
  BY DEF Init, AllProgress, Progress, KindsBehind
<1>5. ErrorsCounted
  <2>1. FailedTeams = {}
    BY <1>1 DEF Init, FailedTeams
  <2> QED
    BY <2>1, FS_EmptySet DEF Init, ErrorsCounted
<1>6. LaunchedIsHeld /\ CleanedUp
  BY DEF Init, LaunchedIsHeld, CleanedUp
<1> QED
  BY <1>2, <1>3, <1>4, <1>5, <1>6 DEF IInv, BootTypes

\* A step that changes nothing.
LEMMA StutterKeeps == IInv /\ UNCHANGED vars => IInv'
<1> SUFFICES ASSUME IInv, UNCHANGED vars  PROVE  IInv'
  OBVIOUS
<1> USE DEF vars, starting, ssh, events
<1>1. TypeOK'
  BY Zenon DEF IInv, BootTypes, TypeOK, ErrRoom
<1>2. KindsFit' /\ UserFits' /\ Positions' /\ ErrorsCounted' /\ LaunchedIsHeld' /\ CleanedUp'
  BY DEF IInv, BootTypes, KindsFit, UserFits, Positions, ErrorsCounted, FailedTeams,
         LaunchedIsHeld, CleanedUp, Alive
<1>3. AllProgress'
  BY DEF IInv, AllProgress, Progress, KindsBehind, Held, Ready, Routed, Inst
<1> QED
  BY <1>1, <1>2, <1>3 DEF IInv, BootTypes

\* Every step of Run, its goroutines, the SSH server and a user keeps the invariant.
LEMMA NextIInv == IInv /\ [Next]_vars => IInv'
<1> SUFFICES ASSUME IInv, [Next]_vars  PROVE  IInv'
  OBVIOUS
<1>1. ASSUME RunStep  PROVE  IInv'
  BY <1>1, RunKeeps
<1>2. ASSUME GameOver /\ UNCHANGED <<host, ssh, user>>  PROVE  IInv'
  BY <1>2, RunKeeps
<1>3. ASSUME NEW w \in Workers, WorkerStep(w)  PROVE  IInv'
  BY <1>3, WorkerKeeps
<1>4. ASSUME NEW i \in Instances, VmWritesFile(i)  PROVE  IInv'
  BY <1>4, OthersKeep
<1>5. ASSUME \E p \in Posters : PostStart(p) \/ PosterStep(p),
             UNCHANGED <<host, starting, ssh, errChan, user, notStopped>>
      PROVE  IInv'
  BY <1>5, OthersKeep
<1>6. ASSUME MapRace \/ (\E p \in Posters : PostBotEvent(p))
                     \/ (\E i \in Asked : ChannelPanics(i))
                     \/ RequestPanics \/ (\E w \in Workers : BuildPanics(w))
      PROVE  IInv'
  BY <1>6, CrashKeeps DEF MapRace, PostBotEvent, ChannelPanics, RequestPanics, BuildPanics
<1>7. ASSUME UserStep \/ UserComesOrGoes  PROVE  IInv'
  BY <1>7, UserKeeps
<1>8. ASSUME UNCHANGED vars  PROVE  IInv'
  BY <1>8, StutterKeeps
<1> QED
  BY <1>1, <1>2, <1>3, <1>4, <1>5, <1>6, <1>7, <1>8, Zenon DEF Next

\* The invariant holds in every state of every boot.
LEMMA Invariance == Spec => []IInv
<1>1. Init => IInv
  BY InitIInv
<1>2. IInv /\ [Next]_vars => IInv'
  BY NextIInv
<1> QED
  BY <1>1, <1>2, PTL DEF Spec

-----------------------------------------------------------------------------
(* The theorems *)

\* The variables keep their types: what a Team or the scorebot holds was launched, and
\* users only ever hold instances that were recorded.
THEOREM TypeCorrect == Spec => []TypeOK
<1>1. IInv => TypeOK
  BY DEF IInv, BootTypes
<1> QED
  BY <1>1, Invariance, PTL

\* tinyRangeInstance.Start finds its template in the cache, for any number of teams
\* that test and fill the cache at the same time.
THEOREM TemplatesAreThere == Spec => []LaunchFindsTemplate
<1>1. IInv => LaunchFindsTemplate
  <2> SUFFICES ASSUME IInv, NEW w \in Workers, step[w] = "launch"
               PROVE  Template[kind[w]] \in cached
    BY DEF LaunchFindsTemplate
  <2>1. main # "returned"
    BY DEF IInv, Positions, Working, Steps
  <2> QED
    BY <2>1 DEF IInv, AllProgress, Progress
<1> QED
  BY <1>1, Invariance, PTL

\* What all goroutines being done says of the instances.
LEMMA DoneIsReady ==
    ASSUME IInv, main \in {"arm", "waiting", "game", "yield"}, NEW i \in Instances
    PROVE  Ready(i)
<1>1. \A w \in Workers : step[w] = "done" /\ Progress(w)
  BY DEF IInv, Positions, AllProgress
<1>2. CASE i = <<Main, "scorebot">>
  <2>1. Main \in Workers /\ Inst(Main) = i
    BY <1>2 DEF Workers, IInv, BootTypes, KindsFit, Inst
  <2> QED
    BY <1>1, <2>1 DEF Progress, Ready
<1>3. CASE i \in Teams \X (Kinds \ {"scorebot"})
  <2>1. PICK t \in Teams, k \in Kinds \ {"scorebot"} : i = <<t, k>>
    BY <1>3
  <2>2. t \in Workers /\ t # Main /\ kind[t] = "soc"
    BY <1>1, BootAssumption DEF Workers, Progress
  <2>3. k \in {"team", "bot", "soc"} /\ (k = "bot" => BotEnabled)
    BY BootAssumption DEF Kinds
  <2>4. Inst(t) = <<t, "soc">>
    BY <2>2 DEF Inst
  <2>5. Ready(<<t, "soc">>) /\ KindsBehind(t)
    BY <1>1, <2>2, <2>4 DEF Progress, Ready
  <2> QED
    BY <2>1, <2>2, <2>3, <2>5 DEF KindsBehind
<1> QED
  BY <1>2, <1>3 DEF Instances

\* When Run goes on to the game, every instance of every team and the scorebot was launched,
\* has answered a command and is recorded, and its hostname leads to it or to another
\* instance of the same name: no error of any team is lost on the way.
THEOREM GameStartsReady == Spec => []GameIsReady
<1>1. IInv => GameIsReady
  BY DoneIsReady DEF GameIsReady, Ready, Held
<1> QED
  BY <1>1, Invariance, PTL

\* When Run has returned, no process it launched still runs, apart from the exceptions
\* that CleanedUp names.
THEOREM CleanupIsComplete == Spec => []CleanedUp
<1>1. IInv => CleanedUp
  BY DEF IInv
<1> QED
  BY <1>1, Invariance, PTL

\* errChan of ForAllTeams has room whenever a goroutine is about to send its error.
RoomForErrors == \A w \in Workers : step[w] = "error" => errChan < ErrRoom

\* No goroutine of ForAllTeams waits on errChan, however many teams fail at once: that is
\* why wg.Wait can come before errChan is read.
THEOREM ErrorsNeverWait == Spec => []RoomForErrors
<1>1. IInv => RoomForErrors
  <2> SUFFICES ASSUME IInv, NEW w \in Workers, step[w] = "error"
               PROVE  errChan < ErrRoom
    BY DEF RoomForErrors
  <2>1. w \in Teams
    BY DEF Workers, IInv, BootTypes, KindsFit
  <2> QED
    BY <2>1, FailedBound DEF IInv, ErrorsCounted
<1> QED
  BY <1>1, Invariance, PTL

\* Once all teams are up, no name a user asks for and no bot event meets a nil instance,
\* no template is built and no two goroutines are in FlowRouter.instances: only requests
\* that meet in the map of events and the two of Fatal can end the process.
THEOREM UpStaysUp == Spec => NoCrashOnceUp
<1> DEFINE Kept == (main \in {"waiting", "game", "yield"} /\ main' = "crashed") =>
                     EventsRace \/ Fatal
<1>1. IInv /\ [Next]_vars => [Kept]_vars
  <2> SUFFICES ASSUME IInv, Next, main \in {"waiting", "game", "yield"}, main' = "crashed"
               PROVE  EventsRace \/ Fatal
    OBVIOUS
  <2>1. \A i \in Instances : i \in recorded
    BY DoneIsReady DEF Ready, Held
  <2>2. ~ FlowRace
    BY DEF IInv, Positions, FlowRace
  <2>3. \A t \in Teams : BotEnabled => <<t, "bot">> \in Instances
    BY DEF Instances, Kinds
  <2>4. \A k \in DOMAIN TeamList : TeamOf(k) \in Instances
    BY DEF TeamOf, Teams, Instances, Kinds
  <2>5. ~ \E p \in Posters : PostBotEvent(p)
    BY <2>1, <2>3 DEF PostBotEvent
  <2>6. ~ \E i \in Asked : ChannelPanics(i)
    BY <2>1, <2>4, BootAssumption DEF ChannelPanics, DereferencesNil
  <2>7. ~ RunStep /\ ~ GameOver
    BY DEF RunStep, StartTeams, TeamsJoined, AddStartEvent, StartReceived, GameOver, CleanUp,
           AfterBoot
  <2>8. \A w \in Workers : ~ WorkerStep(w)
    <3>1. \A w \in Workers : step[w] = "done"
      BY DEF IInv, Positions
    <3> QED
      BY <3>1 DEF WorkerStep, TestTemplate, BuildTemplate, FlowLookup, FlowInsert, Launch,
             ParseFlows, DialInit, HealthCheck, SendError, RunInit, PollScorebot, At
  <2>9. ~ \E i \in Instances : VmWritesFile(i)
    BY DEF VmWritesFile
  <2>10. ~ \E p \in Posters : PostStart(p) \/ PosterStep(p)
    BY DEF PostStart, PosterStep, CloseStart, RemoveStart
  <2>11. ~ (UserStep \/ UserComesOrGoes)
    BY DEF UserStep, UserComesOrGoes, DialChannel, ConfigTerminal, DialTerminal, ShowVulnbox,
           OpenChannel, OpenTerminal, OpenVulnboxPage, OpenMalformed, SubmitFlag,
           FlagAnswered, Leave
  <2>12. ~ \E w \in Workers : BuildPanics(w)
    BY DEF IInv, Positions, BuildPanics, At
  <2>13. MapRace \/ RequestPanics
    BY <2>5, <2>6, <2>7, <2>8, <2>9, <2>10, <2>11, <2>12 DEF Next
  <2> QED
    BY <2>2, <2>13 DEF MapRace, RequestPanics
<1> QED
  BY <1>1, Invariance, PTL DEF Spec, NoCrashOnceUp

-----------------------------------------------------------------------------
(***************************************************************************)
(* What the wait for the start event rests on. A post closes the channel   *)
(* before it removes the event, so the event is there as long as Run waits *)
(* for it.                                                                 *)
(***************************************************************************)
StartOffered ==
    /\ main = "waiting" => startEvent \/ started
    /\ \A p \in Posters : poster[p] = "remove" => started

\* Steps that leave the events as they are.
LEMMA OffersStay ==
    ASSUME StartOffered, UNCHANGED events, main' = "waiting" => main = "waiting"
    PROVE  StartOffered'
BY DEF StartOffered, events

\* The steps of Run: the event is added before Run waits for it.
LEMMA RunOffers ==
    ASSUME StartOffered, RunStep \/ GameOver
    PROVE  StartOffered'
<1>1. CASE StartTeams \/ TeamsJoined \/ StartReceived \/ GameOver \/ CleanUp
  <2>1. UNCHANGED events /\ main' # "waiting"
    BY <1>1 DEF StartTeams, TeamsJoined, StartReceived, GameOver, CleanUp, AfterBoot, events
  <2> QED
    BY <2>1, OffersStay
<1>2. CASE AddStartEvent
  BY <1>2 DEF AddStartEvent, StartOffered
<1> QED
  BY <1>1, <1>2 DEF RunStep

\* A goroutine that boots an instance leaves the events alone.
LEMMA WorkerOffers ==
    ASSUME StartOffered, NEW w \in Workers, WorkerStep(w)
    PROVE  StartOffered'
<1>1. UNCHANGED events
  BY DEF WorkerStep
<1>2. main' \in {main, "cleanup"}
  BY DEF WorkerStep, TestTemplate, BuildTemplate, FlowLookup, FlowInsert, Launch, ParseFlows,
     DialInit, HealthCheck, SendError, RunInit, PollScorebot, Fail
<1> QED
  BY <1>1, <1>2, OffersStay

\* A post closes the channel before it removes the event.
LEMMA PosterOffers ==
    ASSUME IInv, StartOffered, NEW p \in Posters, PostStart(p) \/ PosterStep(p)
    PROVE  StartOffered'
<1>1. UNCHANGED main
  BY DEF PostStart, PosterStep, CloseStart, RemoveStart
<1>2. poster \in [Posters -> {"idle", "close", "remove", "done", "panicked"}]
  BY DEF IInv, BootTypes, TypeOK
<1>3. CASE PostStart(p)
  <2>1. /\ poster' = [poster EXCEPT ![p] = "close"] /\ startEvent' = startEvent
        /\ started' = started
    BY <1>3 DEF PostStart
  <2> QED
    BY <1>1, <1>2, <2>1 DEF StartOffered
<1>4. CASE CloseStart(p)
  <2>1. started' = TRUE
    BY <1>4 DEF CloseStart
  <2> QED
    BY <2>1 DEF StartOffered
<1>5. CASE RemoveStart(p)
  <2>1. poster[p] = "remove" /\ started' = started
    BY <1>5 DEF RemoveStart
  <2>2. started'
    BY <2>1 DEF StartOffered
  <2> QED
    BY <2>2 DEF StartOffered
<1> QED
  BY <1>3, <1>4, <1>5 DEF PosterStep

\* Every step keeps it.
LEMMA NextOffers ==
    ASSUME IInv, StartOffered, [Next]_vars
    PROVE  StartOffered'
<1>1. ASSUME RunStep \/ GameOver  PROVE  StartOffered'
  BY <1>1, RunOffers
<1>2. ASSUME NEW w \in Workers, WorkerStep(w)  PROVE  StartOffered'
  BY <1>2, WorkerOffers
<1>3. ASSUME NEW p \in Posters, PostStart(p) \/ PosterStep(p)  PROVE  StartOffered'
  BY <1>3, PosterOffers
<1>4. ASSUME Crash  PROVE  StartOffered'
  <2>1. main' = "crashed" /\ poster' = [p \in Posters |-> "idle"]
    BY <1>4 DEF Crash
  <2> QED
    BY <2>1 DEF StartOffered
<1>5. ASSUME \/ \E i \in Instances : VmWritesFile(i)
             \/ UserStep \/ UserComesOrGoes
             \/ UNCHANGED vars
      PROVE  StartOffered'
  <2>1. UNCHANGED events /\ UNCHANGED main
    <3>1. CASE \E i \in Instances : VmWritesFile(i)
      BY <3>1 DEF VmWritesFile
    <3>2. CASE UserStep
      BY <3>2 DEF UserStep, DialChannel, ConfigTerminal, DialTerminal, ShowVulnbox,
                  FlagAnswered
    <3>3. CASE UserComesOrGoes
      BY <3>3 DEF UserComesOrGoes, OpenChannel, OpenTerminal, OpenVulnboxPage,
                  OpenMalformed, SubmitFlag, Leave
    <3>4. CASE UNCHANGED vars
      BY <3>4 DEF vars
    <3> QED
      BY <1>5, <3>1, <3>2, <3>3, <3>4
  <2> QED
    BY <2>1, OffersStay
<1>6. ASSUME \/ MapRace \/ RequestPanics
             \/ (\E p \in Posters : PostBotEvent(p)) \/ (\E i \in Asked : ChannelPanics(i))
             \/ (\E w \in Workers : BuildPanics(w))
      PROVE  StartOffered'
  BY <1>4, <1>6 DEF MapRace, PostBotEvent, ChannelPanics, RequestPanics, BuildPanics
<1> QED
  BY <1>1, <1>2, <1>3, <1>5, <1>6, Zenon DEF Next

\* It holds in every state of every boot.
LEMMA AlwaysOffered == Spec => []StartOffered
<1>1. Init => StartOffered
  BY DEF Init, StartOffered
<1>2. IInv /\ StartOffered /\ [Next]_vars => StartOffered'
  BY NextOffers
<1> QED
  BY <1>1, <1>2, Invariance, PTL DEF Spec

\* Run does not wait for what can no longer come, for any number of teams, posts and users
\* and whatever has failed: errChan has room for every error, Run waits for goroutines it
\* has started only, and the start event can be posted as long as Run waits for it.
THEOREM NoWaitIsInVain == Spec => []WaitsCanEnd
<1>1. IInv /\ StartOffered => WaitsCanEnd
  <2> SUFFICES ASSUME IInv, StartOffered  PROVE  WaitsCanEnd
    OBVIOUS
  <2>1. ASSUME NEW w \in Workers, step[w] = "error"  PROVE  errChan < ErrRoom
    BY <2>1, FailedBound DEF Workers, IInv, BootTypes, KindsFit, ErrorsCounted
  <2>2. /\ main = "scorebot" => step[Main] \notin {"none", "failed"}
        /\ main = "teams" => \A t \in Teams : step[t] # "none"
    BY DEF IInv, Positions, Working, Steps
  <2>3. main = "waiting" => startEvent \/ started
    BY DEF StartOffered
  <2> QED
    BY <2>1, <2>2, <2>3 DEF WaitsCanEnd
<1> QED
  BY <1>1, Invariance, AlwaysOffered, PTL
=============================================================================
