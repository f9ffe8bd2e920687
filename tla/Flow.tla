-------------------------------- MODULE Flow --------------------------------
(***************************************************************************)
(* The flow router (cmd/ad/flow.go, with config.go, services.go, device.go *)
(* and common.go): the parsing of tags and flows, the instances that boot  *)
(* and AddDevice register step by step, and the two ways connections are   *)
(* routed meanwhile: HandleConn for a connection of an instance, with its  *)
(* flows, and DialContext for one of the game itself. The loops over the   *)
(* map of instances run in any order.                                      *)
(***************************************************************************)
EXTENDS Integers

CONSTANTS
    TeamIds,        \* the IDs of game.Teams
    DisplayName,    \* DisplayName[t]
    DeviceIds,      \* the IDs of the devices
    DeviceTeam,     \* DeviceTeam[d]: the name of the team d was added for, any text
    BotEnabled,     \* Config.Vulnbox.Bot.Enabled
    ConfigTags,     \* ConfigTags[k]: the tags configured for instances of kind k,
                    \*   records of tag and instance
    ConfigFlows,    \* ConfigFlows[k]: their flows, records of tag, instance, service
    ConfigServices, \* ConfigServices[k]: their services, records of port and tag
    NoOne           \* no instance

Kinds == {"host", "scorebot", "team", "bot", "soc", "device"}

ASSUME FlowAssumption ==
    /\ TeamIds \subseteq Nat /\ DeviceIds \subseteq Nat
    /\ \A t, u \in TeamIds : DisplayName[t] = DisplayName[u] => t = u
    /\ DOMAIN DeviceTeam = DeviceIds /\ BotEnabled \in BOOLEAN
    /\ DOMAIN ConfigTags = Kinds /\ DOMAIN ConfigFlows = Kinds
    /\ DOMAIN ConfigServices = Kinds
    /\ \A k \in Kinds \ {"host"} : ConfigTags[k] # {} /\ ConfigFlows[k] # {}

\* An instance: its kind and the ID of its team or device.
Host == [kind |-> "host", id |-> 0]
Scorebot == [kind |-> "scorebot", id |-> 0]
Devices == [kind : {"device"}, id : DeviceIds]
TeamInstances == [kind : {"team", "bot", "soc"}, id : TeamIds]
Instances == {Host, Scorebot} \cup Devices \cup TeamInstances

ASSUME NoOneAssumption == NoOne \notin Instances

VARIABLES
    registered,  \* the instances in FlowRouter.instances
    flows,       \* flows[i]: the parsed flows of i
    tags,        \* tags[i]: the parsed tags of i
    services,    \* services[i]: the services added to i
    last         \* the last connection: who made it, where it went, for whom

vars == <<registered, flows, tags, services, last>>

\* The name of the team of a machine. That of a device need not be the name of a team.
TeamName(i) == IF i.kind = "device" THEN DeviceTeam[i.id] ELSE DisplayName[i.id]

\* InstanceAddress, by its last two bytes.
Address(i) ==
    CASE i.kind = "host"     -> <<0, 1>>
      [] i.kind = "scorebot" -> <<0, 10>>
      [] i.kind = "team"     -> <<10, (10 + i.id) % 256>>
      [] i.kind = "soc"      -> <<20, (10 + i.id) % 256>>
      [] i.kind = "bot"      -> <<30, (10 + i.id) % 256>>
      [] i.kind = "device"   -> <<30, (1 + i.id) % 256>>

-----------------------------------------------------------------------------
(* Tags and flows *)

\* The replace function: {team} is the name of the instance's team.
Replace(i, inst) == IF inst = "{team}" THEN TeamName(i) ELSE inst

ParseFlow(i, f) ==
    [tag |-> f.tag, instance |-> Replace(i, f.instance), service |-> f.service]

ParseTag(i, g) == [tag |-> g.tag, instance |-> Replace(i, g.instance)]

ContainsMatchingPrefix(tagList, tag) == \E g \in tagList : g.tag = tag

\* Mutant: the tags of the service are not looked at.
FlowMatches_AnyService(f, source, target, service) ==
    /\ tags[source] # {}
    /\ IF f.instance = "*"
       THEN ContainsMatchingPrefix(tags[target], f.tag)
       ELSE [tag |-> f.tag, instance |-> f.instance] \in tags[target]

\* The tests of handleConnection for one flow. The one on the source compares its
\* tags with themselves: it fails only if there are none.
FlowMatches(f, source, target, service) ==
    /\ tags[source] # {}
    /\ IF f.instance = "*"
       THEN ContainsMatchingPrefix(tags[target], f.tag)
       ELSE [tag |-> f.tag, instance |-> f.instance] \in tags[target]
    /\ service.tag = f.service

handleConnection(source, target, service) ==
    \E f \in flows[source] : FlowMatches(f, source, target, service)

\* Mutant: a bot is taken for its team.
teamFromTag_NoBot(g) == [name |-> g.instance, bot |-> FALSE]

\* The team a tag names, and whether it is its bot.
teamFromTag(g) == [name |-> g.instance, bot |-> g.tag = "bot"]

NamesTeam(name) == \E t \in TeamIds : DisplayName[t] = name

\* For whom a host service acts: the team that a tag of the source names, if there is one.
teamFromFlowInstance(i) ==
    {teamFromTag(g) : g \in
        {h \in tags[i] : h.tag \in {"team", "bot", "device"} /\ NamesTeam(h.instance)}}

-----------------------------------------------------------------------------
(* Connections *)

Refused(op, source, ip, port) ==
    [op |-> op, source |-> source, ip |-> ip, port |-> port, target |-> NoOne, as |-> {}]

Nothing == Refused("none", NoOne, <<0, 0>>, 0)

Accepted(op, source, ip, port, target) ==
    [op |-> op, source |-> source, ip |-> ip, port |-> port, target |-> target,
     as |-> IF target = Host THEN teamFromFlowInstance(source) ELSE {}]

\* The instances HandleConn finds for ip and port, and may connect source to.
Targets(source, ip, port) ==
    {i \in registered : Address(i) = ip /\
        \E s \in services[i] : s.port = port /\ handleConnection(source, i, s)}

\* Mutant: the search ends at the first instance with the address.
HandleConn_FirstAddress(source, ip, port) ==
    /\ \E i \in registered : Address(i) = ip /\
          last' = IF i \in Targets(source, ip, port)
                  THEN Accepted("conn", source, ip, port, i)
                  ELSE Refused("conn", source, ip, port)
    /\ UNCHANGED <<registered, flows, tags, services>>

\* The first instance and service that a flow allows, in the order of the map.
HandleConn(source, ip, port) ==
    /\ \/ \E i \in Targets(source, ip, port) :
             last' = Accepted("conn", source, ip, port, i)
       \/ /\ Targets(source, ip, port) = {}
          /\ last' = Refused("conn", source, ip, port)
    /\ UNCHANGED <<registered, flows, tags, services>>

\* Mutant: the search ends at the first instance with the address.
DialContext_FirstAddress(ip, port) ==
    /\ \E i \in registered : Address(i) = ip /\
          last' = IF \E s \in services[i] : s.port = port
                  THEN Accepted("dial", Host, ip, port, i)
                  ELSE Refused("dial", Host, ip, port)
    /\ UNCHANGED <<registered, flows, tags, services>>

\* DialContext without a source, as RunCommand and HealthCheck call it.
DialContext(ip, port) ==
    LET found == {i \in registered : Address(i) = ip /\ \E s \in services[i] : s.port = port}
    IN  /\ \/ \E i \in found : last' = Accepted("dial", Host, ip, port, i)
           \/ found = {} /\ last' = Refused("dial", Host, ip, port)
        /\ UNCHANGED <<registered, flows, tags, services>>

-----------------------------------------------------------------------------
(* Registration *)

IsUp(i) == i \in registered /\ services[i] = ConfigServices[i.kind]

\* The order of Run and Team.Start.
MayStart(i) ==
    CASE i.kind = "scorebot" -> TRUE
      [] i.kind = "team"     -> IsUp(Scorebot)
      [] i.kind = "bot"      -> BotEnabled /\ IsUp([i EXCEPT !.kind = "team"])
      [] i.kind = "soc"      -> IsUp([i EXCEPT !.kind = IF BotEnabled THEN "bot" ELSE "team"])

\* StartInstanceFromConfig: registered without tags, flows and services.
AddInstance(i) ==
    /\ i \notin registered /\ MayStart(i)
    /\ registered' = registered \cup {i}
    /\ UNCHANGED <<flows, tags, services, last>>

\* tinyRangeInstance.ParseFlows sets the flows, then the tags.
SetFlows(i) ==
    /\ i \in registered /\ flows[i] = {}
    /\ flows' = [flows EXCEPT ![i] = {ParseFlow(i, f) : f \in ConfigFlows[i.kind]}]
    /\ UNCHANGED <<registered, tags, services, last>>

SetTags(i) ==
    /\ i \in registered /\ flows[i] # {} /\ tags[i] = {}
    /\ tags' = [tags EXCEPT ![i] = {ParseTag(i, g) : g \in ConfigTags[i.kind]}]
    /\ UNCHANGED <<registered, flows, services, last>>

AddService(i) ==
    /\ i \in registered /\ tags[i] # {}
    /\ \E s \in ConfigServices[i.kind] \ services[i] :
          services' = [services EXCEPT ![i] = @ \cup {s}]
    /\ UNCHANGED <<registered, flows, tags, last>>

\* AddDevice and the loading of devices: tags and flows are parsed first.
AddDevice(d) ==
    /\ d \notin registered
    /\ registered' = registered \cup {d}
    /\ flows' = [flows EXCEPT ![d] = {ParseFlow(d, f) : f \in ConfigFlows["device"]}]
    /\ tags' = [tags EXCEPT ![d] = {ParseTag(d, g) : g \in ConfigTags["device"]}]
    /\ UNCHANGED <<services, last>>

Init ==
    /\ registered = {Host}
    /\ flows = [i \in Instances |-> {}]
    /\ tags = [i \in Instances |-> IF i = Host THEN ConfigTags["host"] ELSE {}]
    /\ services = [i \in Instances |-> IF i = Host THEN ConfigServices["host"] ELSE {}]
    /\ last = Nothing

Ports == UNION {{s.port : s \in ConfigServices[k]} : k \in Kinds}

Registration ==
    \/ \E i \in {Scorebot} \cup TeamInstances :
          AddInstance(i) \/ SetFlows(i) \/ SetTags(i) \/ AddService(i)
    \/ \E d \in Devices : AddDevice(d)

Connection ==
    \E ip \in {Address(i) : i \in Instances}, port \in Ports :
        \/ \E source \in registered \ {Host} : HandleConn(source, ip, port)
        \/ ip # Address(Host) /\ DialContext(ip, port)

\* The observation of a connection ends. Connections leave the router as it is, so one
\* is observed at a time.
Observed ==
    /\ last # Nothing
    /\ last' = Nothing
    /\ UNCHANGED <<registered, flows, tags, services>>

Next ==
    \/ last = Nothing /\ (Registration \/ Connection)
    \/ Observed

Spec == Init /\ [][Next]_vars

-----------------------------------------------------------------------------
\* The variables have their types. What is not registered has no flows, tags, services.
TypeOK ==
    /\ registered \subseteq Instances
    /\ \A i \in Instances :
          /\ services[i] \subseteq ConfigServices[i.kind]
          /\ i \notin registered => flows[i] = {} /\ tags[i] = {} /\ services[i] = {}
    /\ last.target \in Instances \cup {NoOne}

\* What the comments of the example configuration say about who may connect to whom:
\* all teams and the scorebot reach public services, bots only "their own team and
\* themselves" (and the host); bots are reached by "their own team" and the scorebot;
\* private services by the SOC and the devices of the team.
Policy(source, target, public) ==
    LET same == source.kind # "scorebot" /\ TeamName(source) = TeamName(target)
    IN  IF public
        THEN CASE target.kind = "host" -> TRUE
               [] target.kind = "team" -> source.kind = "bot" => same
               [] target.kind = "bot"  ->
                     source.kind = "scorebot" \/ (same /\ source.kind # "soc")
               [] OTHER -> FALSE
        ELSE CASE target.kind \in {"team", "soc"} -> same /\ source.kind \in {"soc", "device"}
               [] target.kind = "bot" -> same /\ source.kind = "soc"
               [] OTHER -> FALSE

\* With the example configuration, no connection is ever accepted that its comments do
\* not allow, at no point of the boot either, when an instance has flows but no tags or
\* tags but not all of its services, and whatever addresses are shared; for a device of an
\* unknown team too, but not for one of a team "*", which is the wildcard of the flows.
OnlyThePolicy ==
    last.op = "conn" /\ last.target # NoOne =>
        \E s \in ConfigServices[last.target.kind] :
            s.port = last.port /\ Policy(last.source, last.target, s.tag = "public")

\* Once the source has its tags and the target is up, a connection the policy allows is
\* accepted, also if a device has the address of the target (a bot: both are in
\* 10.40.30.0/24).
AllOfThePolicy ==
    last.op = "conn" /\ tags[last.source] # {} =>
        \A t \in Instances : \A s \in ConfigServices[t.kind] :
            last.ip = Address(t) /\ last.port = s.port /\ IsUp(t)
            /\ Policy(last.source, t, s.tag = "public") => last.target = t

\* A host service acts for the team of whoever connects: a bot for itself, every other
\* machine for its team, the scorebot and a device of an unknown team for nobody.
ActsForItsTeam ==
    last.op = "conn" /\ last.target = Host =>
        last.as = IF last.source.kind = "scorebot" \/ ~ NamesTeam(TeamName(last.source))
                  THEN {}
                  ELSE {[name |-> TeamName(last.source), bot |-> last.source.kind = "bot"]}

\* A command for an instance that is up reaches that instance, by its address: the game
\* never talks to another one, nor is an instance hidden by a device.
DialReachesInstance ==
    last.op = "dial" =>
        \A t \in Instances : \A s \in ConfigServices[t.kind] :
            last.ip = Address(t) /\ last.port = s.port /\ IsUp(t) => last.target = t
=============================================================================
