----------------------------- MODULE FlowProofs -----------------------------
(***************************************************************************)
(* Proofs about module Flow: for every configuration, what the router      *)
(* holds of an instance while it is registered step by step; and for the   *)
(* configuration of the example game, whatever its teams, names and        *)
(* devices, that connections follow the policy its comments state.         *)
(***************************************************************************)
EXTENDS FlowExample, TLAPS

ParsedFlows(i) == {ParseFlow(i, f) : f \in ConfigFlows[i.kind]}
ParsedTags(i) == {ParseTag(i, g) : g \in ConfigTags[i.kind]}

(***************************************************************************)
(* The inductive invariant. An instance has all of its flows or none, then *)
(* all of its tags or none, and services only when it has its tags; the    *)
(* last connection is one the router as it is now would make, because      *)
(* nothing is registered while it is observed.                             *)
(***************************************************************************)
Functions ==
    /\ flows = [i \in Instances |-> flows[i]]
    /\ tags = [i \in Instances |-> tags[i]]
    /\ services = [i \in Instances |-> services[i]]

HostIsUp ==
    /\ Host \in registered
    /\ tags[Host] = ConfigTags["host"] /\ services[Host] = ConfigServices["host"]

InOrder ==
    \A i \in Instances \ {Host} :
        /\ flows[i] \in {{}, ParsedFlows(i)}
        /\ tags[i] \in {{}, ParsedTags(i)}
        /\ tags[i] # {} => flows[i] = ParsedFlows(i)
        /\ services[i] # {} => tags[i] = ParsedTags(i)

Found(ip, port) == {i \in registered : Address(i) = ip /\ \E s \in services[i] : s.port = port}

LastIsRouted ==
    /\ last.op = "conn" =>
          /\ last.source \in registered \ {Host}
          /\ \/ last.target \in Targets(last.source, last.ip, last.port)
             \/ last.target = NoOne /\ Targets(last.source, last.ip, last.port) = {}
          /\ last.target = Host => last.as = teamFromFlowInstance(last.source)
    /\ last.op = "dial" =>
          \/ last.target \in Found(last.ip, last.port)
          \/ last.target = NoOne /\ Found(last.ip, last.port) = {}

IInv == TypeOK /\ Functions /\ HostIsUp /\ InOrder /\ LastIsRouted

\* What the proofs need of instances.
LEMMA InstanceKinds ==
    /\ Host \in Instances /\ Scorebot \in Instances
    /\ \A i \in Instances : i.kind \in Kinds /\ (i.kind = "host" <=> i = Host)
    /\ \A i \in Instances : i.kind = "device" => i.id \in DeviceIds
    /\ \A i \in Instances : i.kind \in {"team", "bot", "soc"} => i.id \in TeamIds
    /\ Devices \subseteq Instances /\ TeamInstances \subseteq Instances
    /\ \A i \in {Scorebot} \cup TeamInstances \cup Devices : i # Host
<1> USE DEF Instances, Host, Scorebot, Devices, TeamInstances
<1>1. /\ Host \in Instances /\ Scorebot \in Instances
      /\ Devices \subseteq Instances /\ TeamInstances \subseteq Instances
  OBVIOUS
<1>2. ASSUME NEW i \in Instances
      PROVE  /\ i.kind \in Kinds /\ (i.kind = "host" <=> i = Host)
             /\ i.kind = "device" => i.id \in DeviceIds
             /\ i.kind \in {"team", "bot", "soc"} => i.id \in TeamIds
  <2>1. CASE i = Host \/ i = Scorebot
    BY <2>1 DEF Kinds
  <2>2. CASE i \in Devices
    BY <2>2 DEF Kinds
  <2>3. CASE i \in TeamInstances
    BY <2>3 DEF Kinds
  <2> QED
    BY <2>1, <2>2, <2>3
<1>3. \A i \in {Scorebot} \cup TeamInstances \cup Devices : i # Host
  OBVIOUS
<1> HIDE DEF Instances, Host, Scorebot, Devices, TeamInstances
<1> QED
  BY <1>1, <1>2, <1>3

-----------------------------------------------------------------------------
\* At the start only the host is registered, with all it has.
LEMMA InitIInv == Init => IInv
<1> SUFFICES ASSUME Init  PROVE  IInv
  OBVIOUS
<1>1. Host \in Instances /\ Host.kind = "host"
  BY DEF Instances, Host
<1>2. Functions
  BY DEF Init, Functions
<1>3. HostIsUp
  BY <1>1 DEF Init, HostIsUp
<1>4. InOrder
  BY DEF Init, InOrder
<1>5. last.target = NoOne /\ last.op = "none"
  BY DEF Init, Nothing, Refused
<1>6. LastIsRouted
  BY <1>5 DEF LastIsRouted
<1>7. \A i \in Instances : /\ services[i] \subseteq ConfigServices[i.kind]
                           /\ i \notin registered => flows[i] = {} /\ tags[i] = {} /\ services[i] = {}
  BY <1>1 DEF Init
<1>8. TypeOK
  BY <1>1, <1>5, <1>7 DEF Init, TypeOK
<1> QED
  BY <1>2, <1>3, <1>4, <1>6, <1>8 DEF IInv

\* A registration while no connection is observed: what it must keep of each instance.
LEMMA RegistrationKeeps ==
    ASSUME IInv, last = Nothing, last' = last, Functions',
           registered' \subseteq Instances, registered \subseteq registered',
           UNCHANGED <<tags[Host], services[Host]>>,
           \A i \in Instances : services'[i] \subseteq ConfigServices[i.kind],
           \A i \in Instances : i \notin registered' =>
               flows'[i] = {} /\ tags'[i] = {} /\ services'[i] = {},
           InOrder'
    PROVE  IInv'
<1>1. last'.op = "none" /\ last'.target = NoOne
  BY DEF Nothing, Refused
<1>2. LastIsRouted'
  BY <1>1 DEF LastIsRouted
<1>3. TypeOK'
  BY <1>1 DEF TypeOK
<1>4. HostIsUp'
  BY DEF IInv, HostIsUp
<1> QED
  BY <1>2, <1>3, <1>4 DEF IInv

\* A connection changes only what is observed of it.
LEMMA ConnectionKeeps ==
    ASSUME IInv, UNCHANGED <<registered, flows, tags, services>>,
           last'.target \in Instances \cup {NoOne}, LastIsRouted'
    PROVE  IInv'
<1>1. TypeOK'
  BY DEF IInv, TypeOK
<1> QED
  BY <1>1 DEF IInv, Functions, HostIsUp, InOrder

\* Each step of StartInstanceFromConfig, ParseFlows and AddService.
LEMMA InstanceStepKeeps ==
    ASSUME IInv, last = Nothing, NEW i \in {Scorebot} \cup TeamInstances,
           AddInstance(i) \/ SetFlows(i) \/ SetTags(i) \/ AddService(i)
    PROVE  IInv'
<1>1. i \in Instances /\ i # Host /\ Host \in Instances
  BY InstanceKinds
<1>2. /\ \A j \in Instances : services[j] \subseteq ConfigServices[j.kind]
      /\ \A j \in Instances : j \notin registered =>
             flows[j] = {} /\ tags[j] = {} /\ services[j] = {}
      /\ registered \subseteq Instances
  BY DEF IInv, TypeOK
<1>3. CASE AddInstance(i)
  <2>1. registered' = registered \cup {i} /\ UNCHANGED <<flows, tags, services, last>>
    BY <1>3 DEF AddInstance
  <2>2. Functions' /\ InOrder'
    BY <2>1 DEF IInv, Functions, InOrder
  <2> QED
    BY <1>1, <1>2, <2>1, <2>2, RegistrationKeeps
<1>4. CASE SetFlows(i)
  <2>1. /\ i \in registered /\ flows[i] = {}
        /\ flows' = [flows EXCEPT ![i] = ParsedFlows(i)]
        /\ UNCHANGED <<registered, tags, services, last>>
    BY <1>4 DEF SetFlows, ParsedFlows
  <2>2. Functions' /\ \A j \in Instances : flows'[j] = IF j = i THEN ParsedFlows(i) ELSE flows[j]
    BY <1>1, <2>1 DEF IInv, Functions
  <2>3. InOrder'
    BY <1>1, <2>1, <2>2 DEF IInv, InOrder, ParsedFlows, ParsedTags
  <2> QED
    BY <1>1, <1>2, <2>1, <2>2, <2>3, RegistrationKeeps
<1>5. CASE SetTags(i)
  <2>1. /\ i \in registered /\ flows[i] # {} /\ tags[i] = {}
        /\ tags' = [tags EXCEPT ![i] = ParsedTags(i)]
        /\ UNCHANGED <<registered, flows, services, last>>
    BY <1>5 DEF SetTags, ParsedTags
  <2>2. Functions' /\ \A j \in Instances : tags'[j] = IF j = i THEN ParsedTags(i) ELSE tags[j]
    BY <1>1, <2>1 DEF IInv, Functions
  <2>3. InOrder'
    BY <1>1, <2>1, <2>2 DEF IInv, InOrder, ParsedFlows, ParsedTags
  <2> QED
    BY <1>1, <1>2, <2>1, <2>2, <2>3, RegistrationKeeps
<1>6. CASE AddService(i)
  <2>1. /\ i \in registered /\ tags[i] # {} /\ UNCHANGED <<registered, flows, tags, last>>
    BY <1>6 DEF AddService
  <2>2. PICK s \in ConfigServices[i.kind] : services' = [services EXCEPT ![i] = @ \cup {s}]
    BY <1>6 DEF AddService
  <2>3. /\ Functions'
        /\ \A j \in Instances : services'[j] = IF j = i THEN services[i] \cup {s} ELSE services[j]
    BY <1>1, <2>1, <2>2 DEF IInv, Functions
  <2>4. InOrder'
    BY <1>1, <2>1, <2>3 DEF IInv, InOrder, ParsedFlows, ParsedTags
  <2> QED
    BY <1>1, <1>2, <2>1, <2>2, <2>3, <2>4, RegistrationKeeps
<1> QED
  BY <1>3, <1>4, <1>5, <1>6

\* AddDevice registers a device with its flows and tags at once.
LEMMA AddDeviceKeeps ==
    ASSUME IInv, last = Nothing, NEW d \in Devices, AddDevice(d)
    PROVE  IInv'
<1>1. d \in Instances /\ d # Host /\ Host \in Instances /\ d.kind = "device"
  BY InstanceKinds DEF Devices
<1>2. /\ \A j \in Instances : services[j] \subseteq ConfigServices[j.kind]
      /\ \A j \in Instances : j \notin registered =>
             flows[j] = {} /\ tags[j] = {} /\ services[j] = {}
      /\ registered \subseteq Instances
  BY DEF IInv, TypeOK
<1>3. /\ d \notin registered /\ registered' = registered \cup {d}
      /\ flows' = [flows EXCEPT ![d] = ParsedFlows(d)]
      /\ tags' = [tags EXCEPT ![d] = ParsedTags(d)]
      /\ UNCHANGED <<services, last>>
  <2>1. /\ {ParseFlow(d, f) : f \in ConfigFlows["device"]} = ParsedFlows(d)
        /\ {ParseTag(d, g) : g \in ConfigTags["device"]} = ParsedTags(d)
    BY <1>1 DEF ParsedFlows, ParsedTags
  <2> QED
    BY <2>1 DEF AddDevice
<1>4. /\ Functions'
      /\ \A j \in Instances : flows'[j] = IF j = d THEN ParsedFlows(d) ELSE flows[j]
      /\ \A j \in Instances : tags'[j] = IF j = d THEN ParsedTags(d) ELSE tags[j]
  BY <1>1, <1>3 DEF IInv, Functions
<1>5. InOrder'
  <2> SUFFICES ASSUME NEW j \in Instances \ {Host}
               PROVE  /\ flows'[j] \in {{}, ParsedFlows(j)}
                      /\ tags'[j] \in {{}, ParsedTags(j)}
                      /\ tags'[j] # {} => flows'[j] = ParsedFlows(j)
                      /\ services[j] # {} => tags'[j] = ParsedTags(j)
    BY <1>3, Zenon DEF InOrder, ParsedFlows, ParsedTags
  <2>1. CASE j = d
    BY <1>1, <1>2, <1>3, <1>4, <2>1
  <2>2. CASE j # d
    BY <1>1, <1>4, <2>2 DEF IInv, InOrder
  <2> QED
    BY <2>1, <2>2
<1> QED
  BY <1>1, <1>2, <1>3, <1>4, <1>5, RegistrationKeeps

\* HandleConn and DialContext record what they found.
LEMMA HandleConnKeeps ==
    ASSUME IInv, NEW source \in registered \ {Host}, NEW ip, NEW port, HandleConn(source, ip, port)
    PROVE  IInv'
<1>1. UNCHANGED <<registered, flows, tags, services>>
  BY DEF HandleConn
<1>2. registered \subseteq Instances
  BY DEF IInv, TypeOK
<1>3. Targets(source, ip, port)' = Targets(source, ip, port)
  BY <1>1 DEF Targets, handleConnection, FlowMatches
<1>4. teamFromFlowInstance(source)' = teamFromFlowInstance(source)
  BY <1>1 DEF teamFromFlowInstance
<1>5. ASSUME NEW i \in Targets(source, ip, port), last' = Accepted("conn", source, ip, port, i)
      PROVE  IInv'
  <2>1. /\ last'.op = "conn" /\ last'.source = source /\ last'.ip = ip /\ last'.port = port
        /\ last'.target = i
        /\ last'.as = IF i = Host THEN teamFromFlowInstance(source) ELSE {}
    BY <1>5 DEF Accepted
  <2>2. i \in Instances
    BY <1>2 DEF Targets
  <2>3. LastIsRouted'
    BY <1>1, <1>3, <1>4, <2>1 DEF LastIsRouted
  <2> QED
    BY <1>1, <2>1, <2>2, <2>3, ConnectionKeeps
<1>6. ASSUME Targets(source, ip, port) = {}, last' = Refused("conn", source, ip, port)
      PROVE  IInv'
  <2>1. /\ last'.op = "conn" /\ last'.source = source /\ last'.ip = ip /\ last'.port = port
        /\ last'.target = NoOne /\ last'.as = {}
    BY <1>6 DEF Refused
  <2>2. LastIsRouted'
    BY <1>1, <1>3, <1>6, <2>1, InstanceKinds, NoOneAssumption DEF LastIsRouted
  <2> QED
    BY <1>1, <2>1, <2>2, ConnectionKeeps
<1> QED
  BY <1>5, <1>6 DEF HandleConn

\* A dial of the host, which only notes whom it reached, keeps the invariant.
LEMMA DialContextKeeps ==
    ASSUME IInv, NEW ip, NEW port, DialContext(ip, port)
    PROVE  IInv'
<1>1. UNCHANGED <<registered, flows, tags, services>>
  BY DEF DialContext
<1>2. registered \subseteq Instances
  BY DEF IInv, TypeOK
<1>3. Found(ip, port)' = Found(ip, port)
  BY <1>1 DEF Found
<1>4. ASSUME NEW i \in Found(ip, port), last' = Accepted("dial", Host, ip, port, i)
      PROVE  IInv'
  <2>1. last'.op = "dial" /\ last'.ip = ip /\ last'.port = port /\ last'.target = i
    BY <1>4 DEF Accepted
  <2>2. i \in Instances
    BY <1>2 DEF Found
  <2>3. LastIsRouted'
    BY <1>3, <2>1 DEF LastIsRouted
  <2> QED
    BY <1>1, <2>1, <2>2, <2>3, ConnectionKeeps
<1>5. ASSUME Found(ip, port) = {}, last' = Refused("dial", Host, ip, port)
      PROVE  IInv'
  <2>1. last'.op = "dial" /\ last'.ip = ip /\ last'.port = port /\ last'.target = NoOne
    BY <1>5 DEF Refused
  <2>2. LastIsRouted'
    BY <1>3, <1>5, <2>1 DEF LastIsRouted
  <2> QED
    BY <1>1, <2>1, <2>2, ConnectionKeeps
<1> QED
  BY <1>4, <1>5 DEF DialContext, Found

\* Every registration, connection and observation keeps it.
LEMMA NextIInv == IInv /\ [Next]_vars => IInv'
<1> SUFFICES ASSUME IInv, [Next]_vars  PROVE  IInv'
  OBVIOUS
<1>1. ASSUME last = Nothing, Registration  PROVE  IInv'
  BY <1>1, InstanceStepKeeps, AddDeviceKeeps DEF Registration
<1>2. ASSUME last = Nothing, Connection  PROVE  IInv'
  BY <1>2, HandleConnKeeps, DialContextKeeps DEF Connection
<1>3. ASSUME Observed  PROVE  IInv'
  <2>1. UNCHANGED <<registered, flows, tags, services>> /\ last' = Nothing
    BY <1>3 DEF Observed
  <2>2. last'.op = "none" /\ last'.target = NoOne
    BY <2>1 DEF Nothing, Refused
  <2>3. LastIsRouted'
    BY <2>2 DEF LastIsRouted
  <2> QED
    BY <2>1, <2>2, <2>3, ConnectionKeeps
<1>4. ASSUME UNCHANGED vars  PROVE  IInv'
  <2>1. UNCHANGED <<registered, flows, tags, services, last>>
    BY <1>4 DEF vars
  <2>2. LastIsRouted'
    <3>1. Targets(last.source, last.ip, last.port)' = Targets(last.source, last.ip, last.port)
      BY <2>1 DEF Targets, handleConnection, FlowMatches
    <3>2. Found(last.ip, last.port)' = Found(last.ip, last.port)
      BY <2>1 DEF Found
    <3>3. teamFromFlowInstance(last.source)' = teamFromFlowInstance(last.source)
      BY <2>1 DEF teamFromFlowInstance
    <3> QED
      BY <2>1, <3>1, <3>2, <3>3 DEF IInv, LastIsRouted
  <2>3. last'.target \in Instances \cup {NoOne}
    BY <2>1 DEF IInv, TypeOK
  <2> QED
    BY <2>1, <2>2, <2>3, ConnectionKeeps
<1> QED
  BY <1>1, <1>2, <1>3, <1>4 DEF Next

\* It holds throughout.
LEMMA Invariance == Spec => []IInv
BY InitIInv, NextIInv, PTL DEF Spec

\* Whatever is configured, an instance that is not registered has no flows, tags or
\* services, and none has services that are not configured for its kind.
THEOREM TypeCorrect == Spec => []TypeOK
<1>1. IInv => TypeOK
  BY DEF IInv
<1> QED
  BY <1>1, Invariance, PTL

-----------------------------------------------------------------------------
(***************************************************************************)
(* Every configuration. While instances are being registered, the router   *)
(* answers with the flows, tags and services it has so far; what it        *)
(* accepts is what the whole configuration accepts, and once both ends are *)
(* registered it accepts all of that.                                      *)
(***************************************************************************)

AllTags(i) == IF i = Host THEN ConfigTags["host"] ELSE ParsedTags(i)

\* The configuration lets source connect to this port of target.
Configured(source, target, port) ==
    \E f \in ParsedFlows(source), s \in ConfigServices[target.kind] :
        /\ s.port = port /\ s.tag = f.service
        /\ IF f.instance = "*"
           THEN ContainsMatchingPrefix(AllTags(target), f.tag)
           ELSE [tag |-> f.tag, instance |-> f.instance] \in AllTags(target)

AcceptedIsConfigured ==
    last.op = "conn" /\ last.target # NoOne =>
        Configured(last.source, last.target, last.port) /\ Address(last.target) = last.ip

ConfiguredIsAccepted ==
    last.op = "conn" /\ tags[last.source] # {} =>
        \A t \in Instances :
            IsUp(t) /\ Address(t) = last.ip /\ Configured(last.source, t, last.port) =>
                last.target # NoOne

\* An instance with services has all of its tags, one with tags all of its flows.
LEMMA WhatItHas ==
    ASSUME IInv, NEW i \in Instances
    PROVE  /\ i = Host \/ flows[i] \subseteq ParsedFlows(i)
           /\ i # Host /\ tags[i] # {} => flows[i] = ParsedFlows(i)
           /\ services[i] # {} => tags[i] = AllTags(i)
           /\ services[i] \subseteq ConfigServices[i.kind]
<1>1. CASE i = Host
  BY <1>1 DEF IInv, TypeOK, HostIsUp, AllTags
<1>2. CASE i # Host
  <2>1. /\ flows[i] \in {{}, ParsedFlows(i)}
        /\ tags[i] # {} => flows[i] = ParsedFlows(i)
        /\ services[i] # {} => tags[i] = ParsedTags(i)
    BY <1>2 DEF IInv, InOrder
  <2>2. services[i] \subseteq ConfigServices[i.kind]
    BY DEF IInv, TypeOK
  <2> QED
    BY <1>2, <2>1, <2>2 DEF AllTags
<1> QED
  BY <1>1, <1>2

\* Whatever is configured and at every point of boot: a connection that is accepted is one
\* the whole configuration allows, to an instance with the address that was asked for; and
\* one that it allows is not refused once the source has its tags and the target is up.
THEOREM RouterFollowsConfig == Spec => [](AcceptedIsConfigured /\ ConfiguredIsAccepted)
<1>1. IInv => AcceptedIsConfigured
  <2> SUFFICES ASSUME IInv, last.op = "conn", last.target # NoOne
               PROVE  Configured(last.source, last.target, last.port)
                      /\ Address(last.target) = last.ip
    BY DEF AcceptedIsConfigured
  <2> DEFINE source == last.source
             t == last.target
  <2>1. source \in registered \ {Host} /\ t \in Targets(source, last.ip, last.port)
    BY DEF IInv, LastIsRouted
  <2>2. t \in Instances /\ source \in Instances /\ source # Host /\ Address(t) = last.ip
    BY <2>1 DEF IInv, TypeOK, Targets
  <2>3. PICK s \in services[t] : s.port = last.port /\ handleConnection(source, t, s)
    BY <2>1 DEF Targets
  <2>4. PICK f \in flows[source] : FlowMatches(f, source, t, s)
    BY <2>3 DEF handleConnection
  <2>5. tags[t] = AllTags(t) /\ s \in ConfigServices[t.kind] /\ f \in ParsedFlows(source)
    BY <2>2, <2>3, <2>4, WhatItHas
  <2> HIDE DEF source, t
  <2>6. Configured(source, t, last.port)
    BY <2>3, <2>4, <2>5 DEF Configured, FlowMatches
  <2> QED
    BY <2>2, <2>6 DEF source, t
<1>2. IInv => ConfiguredIsAccepted
  <2> SUFFICES ASSUME IInv, last.op = "conn", tags[last.source] # {}, NEW t \in Instances,
                      IsUp(t), Address(t) = last.ip, Configured(last.source, t, last.port)
               PROVE  last.target # NoOne
    BY DEF ConfiguredIsAccepted
  <2> DEFINE source == last.source
  <2>1. source \in Instances /\ source # Host
    BY DEF IInv, TypeOK, LastIsRouted
  <2>2. PICK f \in ParsedFlows(source), s \in ConfigServices[t.kind] :
            /\ s.port = last.port /\ s.tag = f.service
            /\ IF f.instance = "*"
               THEN ContainsMatchingPrefix(AllTags(t), f.tag)
               ELSE [tag |-> f.tag, instance |-> f.instance] \in AllTags(t)
    BY DEF Configured
  <2>3. t \in registered /\ s \in services[t]
    BY DEF IsUp
  <2>4. tags[t] = AllTags(t) /\ flows[source] = ParsedFlows(source)
    BY <2>1, <2>3, WhatItHas
  <2>5. handleConnection(source, t, s)
    BY <2>2, <2>4 DEF handleConnection, FlowMatches
  <2>6. t \in Targets(source, last.ip, last.port)
    BY <2>2, <2>3, <2>5 DEF Targets
  <2>7. last.target \in Targets(source, last.ip, last.port)
    BY <2>6 DEF IInv, LastIsRouted
  <2>8. last.target \in Instances
    BY <2>7 DEF IInv, TypeOK, Targets
  <2> QED
    BY <2>8, NoOneAssumption
<1> QED
  BY <1>1, <1>2, Invariance, PTL

\* The machines of a team.
OfATeam == {i \in Instances : i.kind \in {"team", "bot", "soc", "device"}}

\* Flows to services with this tag lead from machines of a team only, to their own team;
\* and the tags of the machines of a team name their team.
Scoped(tag) ==
    /\ \A k \in {"team", "bot", "soc", "device"} :
          /\ \A f \in ConfigFlows[k] : f.service = tag => f.instance = "{team}"
          /\ \A g \in ConfigTags[k] : g.instance = "{team}"
    /\ \A f \in ConfigFlows["scorebot"] : f.service # tag

\* No team is called "*", the wildcard of the flows, and no device was added for a team of
\* that name (the code tests neither).
NoWildcardName ==
    /\ \A t \in TeamIds : DisplayName[t] # "*"
    /\ \A d \in DeviceIds : DeviceTeam[d] # "*"

\* The name of the team of a machine of a team is not the wildcard.
LEMMA NamesNoWildcard ==
    ASSUME NoWildcardName, NEW i \in OfATeam
    PROVE  TeamName(i) # "*"
<1>1. i \in Instances /\ i.kind \in {"team", "bot", "soc", "device"}
  BY DEF OfATeam
<1> QED
  BY <1>1, InstanceKinds DEF TeamName, NoWildcardName

\* Whatever else is configured: services of a team's machines that have a scoped tag (in
\* the example: the private ones) are reached by machines of the same team and by nobody
\* else, whatever addresses are shared and whatever teams devices were added for; provided
\* that no team is called "*".
THEOREM ScopedServicesStayHome ==
    ASSUME NEW tag, Scoped(tag), NoWildcardName
    PROVE  Spec => [](last.op = "conn" /\ last.target \in OfATeam
                      /\ (\A s \in ConfigServices[last.target.kind] :
                             s.port = last.port => s.tag = tag)
                      => last.source \in OfATeam /\ TeamName(last.source) = TeamName(last.target))
<1> DEFINE Home ==
        last.op = "conn" /\ last.target \in OfATeam
        /\ (\A s \in ConfigServices[last.target.kind] : s.port = last.port => s.tag = tag)
        => last.source \in OfATeam /\ TeamName(last.source) = TeamName(last.target)
<1>1. IInv /\ AcceptedIsConfigured => Home
  <2> SUFFICES ASSUME IInv, AcceptedIsConfigured, last.op = "conn", last.target \in OfATeam,
                      \A s \in ConfigServices[last.target.kind] :
                          s.port = last.port => s.tag = tag
               PROVE  last.source \in OfATeam /\ TeamName(last.source) = TeamName(last.target)
    OBVIOUS
  <2> DEFINE source == last.source
             t == last.target
  <2>1. /\ t \in Instances /\ t.kind \in {"team", "bot", "soc", "device"} /\ t # NoOne
        /\ t # Host
    BY NoOneAssumption, InstanceKinds DEF OfATeam
  <2>2. source \in Instances /\ source # Host
    BY DEF IInv, TypeOK, LastIsRouted
  <2>3. Configured(source, t, last.port)
    BY <2>1 DEF AcceptedIsConfigured
  <2>4. PICK f \in ParsedFlows(source), s \in ConfigServices[t.kind] :
            /\ s.port = last.port /\ s.tag = f.service
            /\ IF f.instance = "*"
               THEN ContainsMatchingPrefix(AllTags(t), f.tag)
               ELSE [tag |-> f.tag, instance |-> f.instance] \in AllTags(t)
    BY <2>3 DEF Configured
  <2> HIDE DEF source, t
  <2>5. PICK r \in ConfigFlows[source.kind] : f = ParseFlow(source, r)
    BY <2>4 DEF ParsedFlows
  <2>6. f.instance = Replace(source, r.instance) /\ f.service = r.service
    BY <2>5 DEF ParseFlow
  <2>7. r.service = tag
    BY <2>4, <2>6 DEF t
  <2>8. source.kind \in {"team", "bot", "soc", "device"}
    <3>1. source.kind \in Kinds /\ source.kind # "host"
      BY <2>2, InstanceKinds
    <3>2. source.kind # "scorebot"
      BY <2>7 DEF Scoped
    <3> QED
      BY <3>1, <3>2 DEF Kinds
  <2>9. TeamName(source) # "*"
    BY <2>2, <2>8, NamesNoWildcard DEF OfATeam
  <2>10. r.instance = "{team}"
    BY <2>7, <2>8 DEF Scoped
  <2>11. f.instance = TeamName(source) /\ f.instance # "*"
    BY <2>6, <2>9, <2>10 DEF Replace
  <2>12. [tag |-> f.tag, instance |-> f.instance] \in ParsedTags(t)
    BY <2>1, <2>4, <2>11 DEF AllTags
  <2>13. PICK g \in ConfigTags[t.kind] :
             [tag |-> f.tag, instance |-> f.instance] = ParseTag(t, g)
    BY <2>12 DEF ParsedTags
  <2>14. f.instance = Replace(t, g.instance)
    BY <2>13 DEF ParseTag
  <2>15. g.instance = "{team}"
    BY <2>1 DEF Scoped
  <2>16. TeamName(source) = TeamName(t)
    BY <2>11, <2>14, <2>15 DEF Replace
  <2> QED
    BY <2>2, <2>8, <2>16 DEF OfATeam, source, t
<1>2. Spec => []AcceptedIsConfigured
  BY RouterFollowsConfig, PTL
<1> QED
  BY <1>1, <1>2, Invariance, PTL

-----------------------------------------------------------------------------
(***************************************************************************)
(* The example configuration. Every instance has one tag, which names its  *)
(* kind of network (TagName) and, but for the host and the scorebot, its   *)
(* team; and every flow is open to all instances of a tag or only to those *)
(* of the source's own team. The proofs take the flows one kind of source  *)
(* at a time.                                                              *)
(***************************************************************************)

TagName ==
    [host |-> "public", scorebot |-> "scorebot", team |-> "team", soc |-> "team",
     bot |-> "bot", device |-> "device"]

OwnTag(i) ==
    [tag |-> TagName[i.kind],
     instance |-> IF i.kind \in {"host", "scorebot"} THEN i.kind ELSE TeamName(i)]

\* The configured flow r leads from source to target.
Leads(source, r, target) ==
    /\ r.tag = TagName[target.kind]
    /\ r.instance = "*" \/ TeamName(source) = TeamName(target)

\* A flow and a service by their fields, and the configuration's entries by kind.
Row(r, tag, instance, service) == r.tag = tag /\ r.instance = instance /\ r.service = service
Offer(s, port, tag) == s.port = port /\ s.tag = tag

\* To makes the row of flows with the tag, the instance name and the service tag it is
\* given.
LEMMA Rows == \A t, i, s : Row(To(t, i, s), t, i, s)
BY DEF Row, To

\* Service makes the service with the port and the tag it is given.
LEMMA Offers == \A p, t : Offer(Service(p, t), p, t)
BY DEF Offer, Service

\* The one tag of each kind of instance in the example configuration.
LEMMA TagsOfKind ==
    /\ TagName["host"] = "public" /\ ExampleTags["host"] = {Tag("public", "host")}
    /\ TagName["scorebot"] = "scorebot" /\ ExampleTags["scorebot"] = {Tag("scorebot", "scorebot")}
    /\ TagName["team"] = "team" /\ ExampleTags["team"] = {Tag("team", "{team}")}
    /\ TagName["soc"] = "team" /\ ExampleTags["soc"] = {Tag("team", "{team}")}
    /\ TagName["bot"] = "bot" /\ ExampleTags["bot"] = {Tag("bot", "{team}")}
    /\ TagName["device"] = "device" /\ ExampleTags["device"] = {Tag("device", "{team}")}
BY DEF TagName, ExampleTags

\* All the rows of flows of each kind in the example configuration.
LEMMA FlowsOfKind ==
    /\ \A r \in ExampleFlows["scorebot"] :
          Row(r, "public", "*", "public") \/ Row(r, "team", "*", "public")
          \/ Row(r, "bot", "*", "public")
    /\ \A r \in ExampleFlows["team"] :
          Row(r, "public", "*", "public") \/ Row(r, "team", "*", "public")
          \/ Row(r, "bot", "{team}", "public") \/ Row(r, "device", "{team}", "public")
    /\ \A r \in ExampleFlows["soc"] :
          Row(r, "public", "*", "public") \/ Row(r, "team", "*", "public")
          \/ Row(r, "team", "{team}", "private") \/ Row(r, "bot", "{team}", "private")
    /\ \A r \in ExampleFlows["bot"] :
          Row(r, "public", "*", "public") \/ Row(r, "team", "{team}", "public")
          \/ Row(r, "bot", "{team}", "public")
    /\ \A r \in ExampleFlows["device"] :
          Row(r, "public", "*", "public") \/ Row(r, "team", "*", "public")
          \/ Row(r, "team", "{team}", "private") \/ Row(r, "bot", "{team}", "public")
<1>1. ASSUME NEW r \in ExampleFlows["scorebot"]
      PROVE  Row(r, "public", "*", "public") \/ Row(r, "team", "*", "public")
                 \/ Row(r, "bot", "*", "public")
  <2>1. ExampleFlows["scorebot"] =
            {To("public", "*", "public"), To("team", "*", "public"),
             To("bot", "*", "public")}
    BY DEF ExampleFlows, Everyone
  <2> QED
    BY <2>1, Rows
<1>2. ASSUME NEW r \in ExampleFlows["team"]
      PROVE  Row(r, "public", "*", "public") \/ Row(r, "team", "*", "public")
                 \/ Row(r, "bot", "{team}", "public") \/ Row(r, "device", "{team}", "public")
  <2>1. ExampleFlows["team"] =
            {To("public", "*", "public"), To("team", "*", "public"),
             To("bot", "{team}", "public"), To("device", "{team}", "public")}
    BY DEF ExampleFlows, Everyone
  <2> QED
    BY <2>1, Rows
<1>3. ASSUME NEW r \in ExampleFlows["soc"]
      PROVE  Row(r, "public", "*", "public") \/ Row(r, "team", "*", "public")
                 \/ Row(r, "team", "{team}", "private") \/ Row(r, "bot", "{team}", "private")
  <2>1. ExampleFlows["soc"] =
            {To("public", "*", "public"), To("team", "*", "public"),
             To("team", "{team}", "private"), To("bot", "{team}", "private")}
    BY DEF ExampleFlows, Everyone
  <2> QED
    BY <2>1, Rows
<1>4. ASSUME NEW r \in ExampleFlows["bot"]
      PROVE  Row(r, "public", "*", "public") \/ Row(r, "team", "{team}", "public")
                 \/ Row(r, "bot", "{team}", "public")
  <2>1. ExampleFlows["bot"] =
            {To("public", "*", "public"), To("team", "{team}", "public"),
             To("bot", "{team}", "public")}
    BY DEF ExampleFlows, Everyone
  <2> QED
    BY <2>1, Rows
<1>5. ASSUME NEW r \in ExampleFlows["device"]
      PROVE  Row(r, "public", "*", "public") \/ Row(r, "team", "*", "public")
                 \/ Row(r, "team", "{team}", "private") \/ Row(r, "bot", "{team}", "public")
  <2>1. ExampleFlows["device"] =
            {To("public", "*", "public"), To("team", "*", "public"),
             To("team", "{team}", "private"), To("bot", "{team}", "public")}
    BY DEF ExampleFlows, Everyone
  <2> QED
    BY <2>1, Rows
<1> QED
  BY <1>1, <1>2, <1>3, <1>4, <1>5

\* The private services of the example are scoped, so that ScopedServicesStayHome speaks
\* of them.
LEMMA ExampleIsScoped == ExampleConfig => Scoped("private")
<1> SUFFICES ASSUME ExampleConfig PROVE Scoped("private")
  OBVIOUS
<1>1. ConfigTags = ExampleTags /\ ConfigFlows = ExampleFlows
  BY DEF ExampleConfig
<1>2. \A f \in ExampleFlows["scorebot"] : f.service # "private"
  BY FlowsOfKind DEF Row
<1>3. \A k \in {"team", "bot", "soc", "device"} : \A f \in ExampleFlows[k] :
          f.service = "private" => f.instance = "{team}"
  <2> TAKE k \in {"team", "bot", "soc", "device"}
  <2> TAKE f \in ExampleFlows[k]
  <2>1. CASE k = "team"
    BY <2>1, FlowsOfKind DEF Row
  <2>2. CASE k = "bot"
    BY <2>2, FlowsOfKind DEF Row
  <2>3. CASE k = "soc"
    BY <2>3, FlowsOfKind DEF Row
  <2>4. CASE k = "device"
    BY <2>4, FlowsOfKind DEF Row
  <2> QED
    BY <2>1, <2>2, <2>3, <2>4
<1>4. \A k \in {"team", "bot", "soc", "device"} : \A g \in ExampleTags[k] :
          g.instance = "{team}"
  <2>1. \A t : Tag(t, "{team}").instance = "{team}"
    BY DEF Tag
  <2> TAKE k \in {"team", "bot", "soc", "device"}
  <2>2. \E t : ExampleTags[k] = {Tag(t, "{team}")}
    BY TagsOfKind
  <2> QED
    BY <2>1, <2>2
<1> QED
  BY <1>1, <1>2, <1>3, <1>4 DEF Scoped

\* s is one of the services of a vulnbox.
OfBox(s) ==
    \/ Offer(s, 2222, "private") \/ Offer(s, 4242, "private")
    \/ Offer(s, 5000, "public") \/ Offer(s, 5001, "public")

\* All the services of each kind in the example configuration.
LEMMA ServicesOfKind ==
    /\ \A s \in ExampleServices["host"] :
          Offer(s, 80, "public") \/ Offer(s, 8080, "public") \/ Offer(s, 5000, "public")
    /\ \A s \in ExampleServices["scorebot"] : Offer(s, 2222, "private")
    /\ \A s \in ExampleServices["team"] : OfBox(s)
    /\ \A s \in ExampleServices["bot"] : OfBox(s)
    /\ \A s \in ExampleServices["soc"] : Offer(s, 2222, "private") \/ Offer(s, 80, "private")
    /\ ExampleServices["device"] = {}
<1>1. /\ ExampleServices["host"] =
            {Service(80, "public"), Service(8080, "public"), Service(5000, "public")}
      /\ ExampleServices["scorebot"] = {Service(2222, "private")}
      /\ ExampleServices["team"] = BoxServices
      /\ ExampleServices["bot"] = BoxServices
      /\ ExampleServices["soc"] = {Service(2222, "private"), Service(80, "private")}
      /\ ExampleServices["device"] = {}
  BY DEF ExampleServices, HostServices, ScorebotServices, SocServices
<1>2. \A s \in ExampleServices["host"] :
          Offer(s, 80, "public") \/ Offer(s, 8080, "public") \/ Offer(s, 5000, "public")
  BY <1>1, Offers
<1>3. \A s \in ExampleServices["scorebot"] : Offer(s, 2222, "private")
  BY <1>1, Offers
<1>4. \A s \in ExampleServices["team"] : OfBox(s)
  BY <1>1, Offers DEF OfBox, BoxServices
<1>5. \A s \in ExampleServices["bot"] : OfBox(s)
  BY <1>1, Offers DEF OfBox, BoxServices
<1>6. \A s \in ExampleServices["soc"] : Offer(s, 2222, "private") \/ Offer(s, 80, "private")
  BY <1>1, Offers
<1> QED
  BY <1>1, <1>2, <1>3, <1>4, <1>5, <1>6

\* The one tag of an instance, once it is parsed.
LEMMA OwnTags ==
    ASSUME ExampleConfig, NEW i \in Instances
    PROVE  ParsedTags(i) = {OwnTag(i)}
<1>1. i.kind \in Kinds
  BY InstanceKinds
<1>2. ExampleTags[i.kind] =
          {Tag(TagName[i.kind],
               IF i.kind \in {"host", "scorebot"} THEN i.kind ELSE "{team}")}
  BY <1>1, TagsOfKind DEF Kinds
<1>3. ConfigTags[i.kind] = ExampleTags[i.kind]
  BY DEF ExampleConfig
<1>4. ParsedTags(i) =
          {ParseTag(i, Tag(TagName[i.kind],
                           IF i.kind \in {"host", "scorebot"} THEN i.kind ELSE "{team}"))}
  BY <1>2, <1>3 DEF ParsedTags
<1>5. ParseTag(i, Tag(TagName[i.kind],
                      IF i.kind \in {"host", "scorebot"} THEN i.kind ELSE "{team}")) = OwnTag(i)
  <2>1. PICK inst : inst = IF i.kind \in {"host", "scorebot"} THEN i.kind ELSE "{team}"
    OBVIOUS
  <2>2. ParseTag(i, Tag(TagName[i.kind], inst)) =
            [tag |-> TagName[i.kind], instance |-> Replace(i, inst)]
    BY DEF ParseTag, Tag
  <2>3. Replace(i, inst) = OwnTag(i).instance
    BY <2>1 DEF Replace, OwnTag
  <2> QED
    BY <2>1, <2>2, <2>3 DEF OwnTag
<1> QED
  BY <1>4, <1>5

\* A flow names everyone, or the source's own team as the team of an instance.
LEMMA FlowShape ==
    ASSUME NEW k \in Kinds \ {"host"}, NEW r \in ExampleFlows[k]
    PROVE  \/ r.instance = "*"
           \/ /\ r.instance = "{team}" /\ k # "scorebot"
              /\ r.tag \in {"team", "bot", "device"}
<1>1. CASE k = "scorebot"
  BY <1>1, FlowsOfKind DEF Row
<1>2. CASE k = "team"
  BY <1>2, FlowsOfKind DEF Row
<1>3. CASE k = "soc"
  BY <1>3, FlowsOfKind DEF Row
<1>4. CASE k = "bot"
  BY <1>4, FlowsOfKind DEF Row
<1>5. CASE k = "device"
  BY <1>5, FlowsOfKind DEF Row
<1> QED
  BY <1>1, <1>2, <1>3, <1>4, <1>5 DEF Kinds

\* handleConnection's tests of a flow, for a target that has its tag: the flow leads to it.
LEMMA MatchesIsLeads ==
    ASSUME NoWildcardName, NEW source \in Instances \ {Host}, NEW target \in Instances,
           NEW r \in ExampleFlows[source.kind], NEW s,
           tags[source] # {}, tags[target] = {OwnTag(target)}
    PROVE  FlowMatches(ParseFlow(source, r), source, target, s)
               <=> Leads(source, r, target) /\ s.tag = r.service
<1> DEFINE f == ParseFlow(source, r)
<1>1. source.kind \in Kinds \ {"host"} /\ target.kind \in Kinds
  BY InstanceKinds
<1>2. f.tag = r.tag /\ f.service = r.service /\ f.instance = Replace(source, r.instance)
  BY DEF ParseFlow
<1> HIDE DEF f
<1>3. CASE r.instance = "*"
  <2>1. f.instance = "*"
    BY <1>2, <1>3 DEF Replace
  <2>2. ContainsMatchingPrefix(tags[target], f.tag) <=> r.tag = TagName[target.kind]
    BY <1>2 DEF ContainsMatchingPrefix, OwnTag
  <2> QED
    BY <1>2, <1>3, <2>1, <2>2 DEF FlowMatches, Leads, f
<1>4. CASE r.instance # "*"
  <2>1. /\ r.instance = "{team}" /\ source.kind # "scorebot"
        /\ r.tag \in {"team", "bot", "device"}
    BY <1>1, <1>4, FlowShape
  <2>2. TeamName(source) # "*"
    BY <1>1, <2>1, NamesNoWildcard DEF OfATeam, Kinds
  <2>3. f.instance = TeamName(source) /\ f.instance # "*"
    BY <1>2, <2>1, <2>2 DEF Replace
  <2>4. [tag |-> f.tag, instance |-> f.instance] \in tags[target]
            <=> r.tag = TagName[target.kind] /\ f.instance = OwnTag(target).instance
    BY <1>2 DEF OwnTag
  <2>5. r.tag = TagName[target.kind] =>
            OwnTag(target).instance = TeamName(target)
    <3> SUFFICES ASSUME r.tag = TagName[target.kind]
                 PROVE  target.kind \notin {"host", "scorebot"}
      BY DEF OwnTag
    <3> QED
      BY <2>1, TagsOfKind
  <2>6. r.tag = TagName[target.kind] =>
            (f.instance = OwnTag(target).instance <=> TeamName(source) = TeamName(target))
    BY <2>3, <2>5
  <2> QED
    BY <1>2, <1>4, <2>3, <2>4, <2>6 DEF FlowMatches, Leads, f
<1> QED
  BY <1>3, <1>4

\* Where the flows lead, by the tag they name.
LEMMA LedTo ==
    ASSUME NEW target \in Instances
    PROVE  /\ TagName[target.kind] = "public" => target.kind = "host"
           /\ TagName[target.kind] = "team" => target.kind \in {"team", "soc"}
           /\ TagName[target.kind] = "bot" => target.kind = "bot"
           /\ TagName[target.kind] = "device" => target.kind = "device"
<1>1. target.kind \in Kinds
  BY InstanceKinds
<1> QED
  BY <1>1, TagsOfKind DEF Kinds

\* Which services a kind of instance has: only the host's, the vulnboxes' and the bots'
\* are public, and a device has none.
LEMMA OfferedBy ==
    ASSUME NEW target \in Instances, NEW s \in ExampleServices[target.kind]
    PROVE  /\ s.tag \in {"public", "private"} /\ target.kind # "device"
           /\ target.kind = "host" => s.tag = "public"
           /\ target.kind \in {"soc", "scorebot"} => s.tag = "private"
<1>1. target.kind \in Kinds
  BY InstanceKinds
<1>2. CASE target.kind = "host"
  BY <1>2, ServicesOfKind DEF Offer
<1>3. CASE target.kind = "scorebot"
  BY <1>3, ServicesOfKind DEF Offer
<1>4. CASE target.kind \in {"team", "bot"}
  BY <1>4, ServicesOfKind DEF OfBox, Offer
<1>5. CASE target.kind = "soc"
  BY <1>5, ServicesOfKind DEF Offer
<1>6. CASE target.kind = "device"
  BY <1>6, ServicesOfKind
<1> QED
  BY <1>1, <1>2, <1>3, <1>4, <1>5, <1>6 DEF Kinds

\* Every flow leads only where the policy allows.
LEMMA FlowsAreAllowed ==
    ASSUME NEW source \in Instances \ {Host}, NEW target \in Instances,
           NEW r \in ExampleFlows[source.kind], NEW s \in ExampleServices[target.kind],
           Leads(source, r, target), s.tag = r.service
    PROVE  Policy(source, target, s.tag = "public")
<1>1. source.kind \in Kinds \ {"host"}
  BY InstanceKinds
<1>2. /\ r.tag = TagName[target.kind]
      /\ r.instance = "*" \/ TeamName(source) = TeamName(target)
  BY DEF Leads
<1>3. /\ r.tag = "public" => target.kind = "host"
      /\ r.tag = "team" => target.kind \in {"team", "soc"}
      /\ r.tag = "bot" => target.kind = "bot"
      /\ r.tag # "device"
  BY <1>2, LedTo, OfferedBy
<1>4. target.kind = "soc" => s.tag = "private"
  BY OfferedBy
<1>5. CASE source.kind = "scorebot"
  BY <1>2, <1>3, <1>4, <1>5, FlowsOfKind DEF Row, Policy
<1>6. CASE source.kind = "team"
  BY <1>2, <1>3, <1>4, <1>6, FlowsOfKind DEF Row, Policy
<1>7. CASE source.kind = "soc"
  BY <1>2, <1>3, <1>4, <1>7, FlowsOfKind DEF Row, Policy
<1>8. CASE source.kind = "bot"
  BY <1>2, <1>3, <1>4, <1>8, FlowsOfKind DEF Row, Policy
<1>9. CASE source.kind = "device"
  BY <1>2, <1>3, <1>4, <1>9, FlowsOfKind DEF Row, Policy
<1> QED
  BY <1>1, <1>5, <1>6, <1>7, <1>8, <1>9 DEF Kinds

\* What is parsed of an instance that has been given it.
LEMMA Given ==
    ASSUME ExampleConfig, IInv, NEW i \in Instances
    PROVE  /\ tags[i] \in {{}, {OwnTag(i)}}
           /\ tags[Host] = {OwnTag(Host)}
           /\ services[i] # {} => tags[i] = {OwnTag(i)}
           /\ services[i] \subseteq ExampleServices[i.kind]
           /\ i # Host /\ tags[i] # {} =>
                 flows[i] = {ParseFlow(i, r) : r \in ExampleFlows[i.kind]}
           /\ i # Host => flows[i] \subseteq {ParseFlow(i, r) : r \in ExampleFlows[i.kind]}
<1>1. ParsedTags(i) = {OwnTag(i)}
  BY OwnTags
<1>2. tags[Host] = {OwnTag(Host)}
  <2>1. Host.kind = "host" /\ Host \in Instances
    BY InstanceKinds
  <2>2. tags[Host] = {Tag("public", "host")}
    BY TagsOfKind DEF IInv, HostIsUp, ExampleConfig
  <2>3. OwnTag(Host) = Tag("public", "host")
    BY <2>1, TagsOfKind DEF OwnTag, Tag
  <2> QED
    BY <2>2, <2>3
<1>3. services[i] \subseteq ExampleServices[i.kind]
  BY DEF IInv, TypeOK, ExampleConfig
<1>4. CASE i = Host
  BY <1>2, <1>3, <1>4
<1>5. CASE i # Host
  <2>1. ParsedFlows(i) = {ParseFlow(i, r) : r \in ExampleFlows[i.kind]}
    BY DEF ParsedFlows, ExampleConfig
  <2>2. /\ flows[i] \in {{}, ParsedFlows(i)}
        /\ tags[i] \in {{}, ParsedTags(i)}
        /\ tags[i] # {} => flows[i] = ParsedFlows(i)
        /\ services[i] # {} => tags[i] = ParsedTags(i)
    BY <1>5 DEF IInv, InOrder
  <2> QED
    BY <1>1, <1>2, <1>3, <1>5, <2>1, <2>2
<1> QED
  BY <1>4, <1>5

\* With the example configuration no connection is accepted that its comments do not
\* allow, whatever the teams, their names and addresses, and the devices and the teams they
\* were added for, and at no point of the boot; provided that none of these teams is "*".
THEOREM NothingButThePolicy ==
    ASSUME ExampleConfig, NoWildcardName
    PROVE  Spec => []OnlyThePolicy
<1>1. IInv => OnlyThePolicy
  <2> SUFFICES ASSUME IInv, last.op = "conn", last.target # NoOne
               PROVE  \E s \in ConfigServices[last.target.kind] :
                         /\ s.port = last.port
                         /\ Policy(last.source, last.target, s.tag = "public")
    BY DEF OnlyThePolicy
  <2> DEFINE source == last.source
             target == last.target
  <2>1. /\ source \in Instances \ {Host} /\ target \in Instances
        /\ target \in Targets(source, last.ip, last.port)
    BY DEF IInv, LastIsRouted, TypeOK, Targets
  <2> HIDE DEF source, target
  <2>2. PICK s \in services[target], f \in flows[source] :
            s.port = last.port /\ FlowMatches(f, source, target, s)
    BY <2>1 DEF Targets, handleConnection
  <2>3. PICK r \in ExampleFlows[source.kind] : f = ParseFlow(source, r)
    BY <2>1, <2>2, Given
  <2>4. tags[source] # {} /\ tags[target] = {OwnTag(target)}
    BY <2>1, <2>2, Given DEF FlowMatches
  <2>5. s \in ExampleServices[target.kind]
    BY <2>1, <2>2, Given
  <2>6. Leads(source, r, target) /\ s.tag = r.service
    BY <2>1, <2>2, <2>3, <2>4, MatchesIsLeads
  <2>7. Policy(source, target, s.tag = "public")
    BY <2>1, <2>3, <2>5, <2>6, FlowsAreAllowed
  <2>8. s \in ConfigServices[target.kind]
    BY <2>5 DEF ExampleConfig
  <2> QED
    BY <2>2, <2>7, <2>8 DEF source, target
<1> QED
  BY <1>1, Invariance, PTL

-----------------------------------------------------------------------------
(* The other way: what the policy allows is accepted, at its address.       *)

\* A kind of source has the flow.
Has(k, tag, instance, service) == \E r \in ExampleFlows[k] : Row(r, tag, instance, service)

\* The rows of flows the policy needs are in the example configuration.
LEMMA FlowsThere ==
    /\ \A k \in Kinds \ {"host"} : Has(k, "public", "*", "public")
    /\ \A k \in {"scorebot", "team", "soc", "device"} : Has(k, "team", "*", "public")
    /\ Has("bot", "team", "{team}", "public") /\ Has("scorebot", "bot", "*", "public")
    /\ \A k \in {"team", "bot", "device"} : Has(k, "bot", "{team}", "public")
    /\ \A k \in {"soc", "device"} : Has(k, "team", "{team}", "private")
    /\ Has("soc", "bot", "{team}", "private")
<1>1. /\ To("public", "*", "public") \in ExampleFlows["scorebot"]
      /\ To("team", "*", "public") \in ExampleFlows["scorebot"]
      /\ To("bot", "*", "public") \in ExampleFlows["scorebot"]
  BY DEF ExampleFlows, Everyone
<1>2. /\ To("public", "*", "public") \in ExampleFlows["team"]
      /\ To("team", "*", "public") \in ExampleFlows["team"]
      /\ To("bot", "{team}", "public") \in ExampleFlows["team"]
  BY DEF ExampleFlows, Everyone
<1>3. /\ To("public", "*", "public") \in ExampleFlows["soc"]
      /\ To("team", "*", "public") \in ExampleFlows["soc"]
      /\ To("team", "{team}", "private") \in ExampleFlows["soc"]
      /\ To("bot", "{team}", "private") \in ExampleFlows["soc"]
  BY DEF ExampleFlows, Everyone
<1>4. /\ To("public", "*", "public") \in ExampleFlows["bot"]
      /\ To("team", "{team}", "public") \in ExampleFlows["bot"]
      /\ To("bot", "{team}", "public") \in ExampleFlows["bot"]
  BY DEF ExampleFlows, Everyone
<1>5. /\ To("public", "*", "public") \in ExampleFlows["device"]
      /\ To("team", "*", "public") \in ExampleFlows["device"]
      /\ To("team", "{team}", "private") \in ExampleFlows["device"]
      /\ To("bot", "{team}", "public") \in ExampleFlows["device"]
  BY DEF ExampleFlows, Everyone
<1>6. ASSUME NEW k, NEW t, NEW i, NEW s, To(t, i, s) \in ExampleFlows[k]  PROVE  Has(k, t, i, s)
  BY <1>6, Rows, Zenon DEF Has
<1>7. \A k \in Kinds \ {"host"} : Has(k, "public", "*", "public")
  BY <1>1, <1>2, <1>3, <1>4, <1>5, <1>6 DEF Kinds
<1>8. \A k \in {"scorebot", "team", "soc", "device"} : Has(k, "team", "*", "public")
  BY <1>1, <1>2, <1>3, <1>5, <1>6
<1>9. Has("bot", "team", "{team}", "public") /\ Has("scorebot", "bot", "*", "public")
  BY <1>1, <1>4, <1>6
<1>10. \A k \in {"team", "bot", "device"} : Has(k, "bot", "{team}", "public")
  BY <1>2, <1>4, <1>5, <1>6
<1>11. /\ \A k \in {"soc", "device"} : Has(k, "team", "{team}", "private")
       /\ Has("soc", "bot", "{team}", "private")
  BY <1>3, <1>5, <1>6
<1> QED
  BY <1>7, <1>8, <1>9, <1>10, <1>11

\* Whatever the policy allows some flow leads to.
LEMMA PolicyHasFlow ==
    ASSUME NEW source \in Instances \ {Host}, NEW target \in Instances,
           NEW s \in ExampleServices[target.kind], Policy(source, target, s.tag = "public")
    PROVE  \E r \in ExampleFlows[source.kind] : Leads(source, r, target) /\ s.tag = r.service
<1> DEFINE k == source.kind
           same == TeamName(source) = TeamName(target)
<1>1. k \in Kinds \ {"host"} /\ target.kind \in Kinds
  BY InstanceKinds
<1>2. s.tag \in {"public", "private"} /\ target.kind # "device"
  BY OfferedBy
<1>3. ASSUME NEW t, NEW i, NEW sv, Has(k, t, i, sv), TagName[target.kind] = t,
             i = "*" \/ same, s.tag = sv
      PROVE  \E r \in ExampleFlows[k] : Leads(source, r, target) /\ s.tag = r.service
  <2>1. PICK r \in ExampleFlows[k] : Row(r, t, i, sv)
    BY <1>3 DEF Has
  <2> QED
    BY <1>3, <2>1 DEF Row, Leads
<1> HIDE DEF k, same
<1>4. CASE target.kind = "host"
  <2>1. s.tag = "public" /\ TagName[target.kind] = "public"
    BY <1>4, OfferedBy, TagsOfKind
  <2> QED
    BY <1>1, <1>3, <2>1, FlowsThere DEF k
<1>5. CASE target.kind = "team" /\ s.tag = "public"
  <2>1. k = "bot" => same
    BY <1>5 DEF Policy, k, same
  <2>2. TagName[target.kind] = "team"
    BY <1>5, TagsOfKind
  <2>3. CASE k = "bot"
    BY <1>3, <1>5, <2>1, <2>2, <2>3, FlowsThere DEF k
  <2>4. CASE k \in {"scorebot", "team", "soc", "device"}
    BY <1>3, <1>5, <2>2, <2>4, FlowsThere DEF k
  <2> QED
    BY <1>1, <2>3, <2>4 DEF Kinds
<1>6. CASE target.kind = "bot" /\ s.tag = "public"
  <2>1. k = "scorebot" \/ (same /\ k # "soc" /\ k # "scorebot")
    BY <1>6 DEF Policy, k, same
  <2>2. TagName[target.kind] = "bot"
    BY <1>6, TagsOfKind
  <2>3. CASE k = "scorebot"
    BY <1>3, <1>6, <2>2, <2>3, FlowsThere DEF k
  <2>4. CASE same /\ k \in {"team", "bot", "device"}
    BY <1>3, <1>6, <2>2, <2>4, FlowsThere DEF k
  <2> QED
    BY <1>1, <2>1, <2>3, <2>4 DEF Kinds
<1>7. CASE target.kind \in {"soc", "scorebot"} /\ s.tag = "public"
  BY <1>7, OfferedBy
<1>8. CASE target.kind \in {"team", "soc"} /\ s.tag = "private"
  <2>1. same /\ k \in {"soc", "device"}
    BY <1>8 DEF Policy, k, same
  <2>2. TagName[target.kind] = "team"
    BY <1>8, TagsOfKind
  <2> QED
    BY <1>3, <1>8, <2>1, <2>2, FlowsThere DEF k
<1>9. CASE target.kind = "bot" /\ s.tag = "private"
  <2>1. same /\ k = "soc"
    BY <1>9 DEF Policy, k, same
  <2>2. TagName[target.kind] = "bot"
    BY <1>9, TagsOfKind
  <2> QED
    BY <1>3, <1>9, <2>1, <2>2, FlowsThere DEF k
<1>10. CASE target.kind = "scorebot" /\ s.tag = "private"
  BY <1>10 DEF Policy
<1> QED
  BY <1>1, <1>2, <1>4, <1>5, <1>6, <1>7, <1>8, <1>9, <1>10 DEF Kinds, k

\* With at most 256 teams, instances other than devices have addresses of their own.
AddressesFit == TeamIds \subseteq 0 .. 255

\* Two instances other than devices with the same address are one instance.
LEMMA AddressesDiffer ==
    ASSUME AddressesFit, NEW i \in Instances, NEW t \in Instances,
           i.kind # "device", t.kind # "device", Address(i) = Address(t)
    PROVE  i = t
<1> DEFINE Net(k) == IF k = "team" THEN 10 ELSE IF k = "soc" THEN 20 ELSE 30
           OfTeam(j) == /\ j.kind \in {"team", "bot", "soc"} /\ j.id \in 0 .. 255
                        /\ j = [kind |-> j.kind, id |-> j.id]
                        /\ Address(j) = <<Net(j.kind), (10 + j.id) % 256>>
           Single(j) == \/ j = Host /\ Address(j) = <<0, 1>>
                        \/ j = Scorebot /\ Address(j) = <<0, 10>>
<1>1. ASSUME NEW j \in Instances, j.kind # "device"
      PROVE  Single(j) \/ OfTeam(j)
  <2>1. CASE j = Host
    BY <2>1 DEF Host, Address
  <2>2. CASE j = Scorebot
    BY <2>2 DEF Scorebot, Address
  <2>3. CASE j \in TeamInstances
    <3>1. /\ j.id \in 0 .. 255 /\ j.kind \in {"team", "bot", "soc"}
          /\ j = [kind |-> j.kind, id |-> j.id]
      BY <2>3 DEF TeamInstances, AddressesFit
    <3> QED
      BY <3>1 DEF Address
  <2>4. j \notin Devices
    BY <1>1 DEF Devices
  <2> QED
    BY <2>1, <2>2, <2>3, <2>4 DEF Instances
<1>2. \A a, b \in 0 .. 255 : (10 + a) % 256 = (10 + b) % 256 => a = b
  OBVIOUS
<1>3. (Single(i) \/ OfTeam(i)) /\ (Single(t) \/ OfTeam(t))
  BY <1>1
<1>4. CASE Single(i) /\ Single(t)
  BY <1>4
<1>5. CASE Single(i) /\ OfTeam(t)
  BY <1>5
<1>6. CASE OfTeam(i) /\ Single(t)
  BY <1>6
<1>7. CASE OfTeam(i) /\ OfTeam(t)
  <2>1. Net(i.kind) = Net(t.kind) /\ (10 + i.id) % 256 = (10 + t.id) % 256
    <3>1. /\ Address(i) = <<Net(i.kind), (10 + i.id) % 256>>
          /\ Address(t) = <<Net(t.kind), (10 + t.id) % 256>>
      BY <1>7
    <3> HIDE DEF Net
    <3>2. <<Net(i.kind), (10 + i.id) % 256>> = <<Net(t.kind), (10 + t.id) % 256>>
      BY <3>1
    <3> QED
      BY <3>2
  <2>2. i.id = t.id
    BY <1>7, <1>2, <2>1
  <2>3. i.kind = t.kind
    BY <1>7, <2>1
  <2> QED
    BY <1>7, <2>2, <2>3
<1> QED
  BY <1>3, <1>4, <1>5, <1>6, <1>7

\* An instance that is up is found by its address and each of its ports, and no other is.
LEMMA UpIsFound ==
    ASSUME ExampleConfig, AddressesFit, IInv, NEW t \in Instances, IsUp(t),
           NEW s \in ConfigServices[t.kind]
    PROVE  /\ t \in Found(Address(t), s.port) /\ s \in services[t]
           /\ \A i \in Found(Address(t), s.port) : i = t
<1>1. s \in services[t] /\ t \in registered /\ s \in ExampleServices[t.kind]
  BY DEF IsUp, ExampleConfig
<1>2. t.kind # "device"
  BY <1>1, OfferedBy
<1>3. ASSUME NEW i \in Found(Address(t), s.port)  PROVE  i = t
  <2>1. i \in Instances /\ Address(i) = Address(t) /\ services[i] # {}
    BY DEF Found, IInv, TypeOK
  <2>2. PICK s2 : s2 \in services[i]
    BY <2>1
  <2>3. i.kind # "device"
    BY <2>1, <2>2, Given, OfferedBy
  <2> QED
    BY <1>2, <2>1, <2>3, AddressesDiffer
<1> QED
  BY <1>1, <1>3 DEF Found

\* With the example configuration a command for an instance that is up reaches that
\* instance: no other answers at its address, and no device hides it.
THEOREM CommandsArrive ==
    ASSUME ExampleConfig, AddressesFit
    PROVE  Spec => []DialReachesInstance
<1>1. IInv => DialReachesInstance
  <2> SUFFICES ASSUME IInv, last.op = "dial", NEW t \in Instances,
                      NEW s \in ConfigServices[t.kind],
                      last.ip = Address(t), last.port = s.port, IsUp(t)
               PROVE  last.target = t
    BY DEF DialReachesInstance
  <2>1. \/ last.target \in Found(last.ip, last.port)
        \/ last.target = NoOne /\ Found(last.ip, last.port) = {}
    BY DEF IInv, LastIsRouted
  <2>2. /\ t \in Found(last.ip, last.port)
        /\ \A i \in Found(last.ip, last.port) : i = t
    BY UpIsFound
  <2> QED
    BY <2>1, <2>2
<1> QED
  BY <1>1, Invariance, PTL

\* With the example configuration every connection the policy allows is accepted once the
\* source has its tags and the target is up, also if a device has the target's address.
THEOREM AllThePolicyAllows ==
    ASSUME ExampleConfig, NoWildcardName, AddressesFit
    PROVE  Spec => []AllOfThePolicy
<1>1. IInv => AllOfThePolicy
  <2> SUFFICES ASSUME IInv, last.op = "conn", tags[last.source] # {},
                      NEW t \in Instances, NEW s \in ConfigServices[t.kind],
                      last.ip = Address(t), last.port = s.port, IsUp(t),
                      Policy(last.source, t, s.tag = "public")
               PROVE  last.target = t
    BY DEF AllOfThePolicy
  <2> DEFINE source == last.source
  <2>1. /\ source \in Instances \ {Host}
        /\ \/ last.target \in Targets(source, last.ip, last.port)
           \/ last.target = NoOne /\ Targets(source, last.ip, last.port) = {}
    BY DEF IInv, LastIsRouted, TypeOK
  <2>2. /\ t \in registered /\ s \in services[t] /\ s \in ExampleServices[t.kind]
        /\ \A i \in Found(last.ip, last.port) : i = t
    BY UpIsFound DEF IsUp, ExampleConfig
  <2>3. tags[source] # {} /\ Policy(source, t, s.tag = "public")
    OBVIOUS
  <2> HIDE DEF source
  <2>4. PICK r \in ExampleFlows[source.kind] : Leads(source, r, t) /\ s.tag = r.service
    BY <2>1, <2>2, <2>3, PolicyHasFlow
  <2>5. tags[t] = {OwnTag(t)} /\ ParseFlow(source, r) \in flows[source]
    BY <2>1, <2>2, <2>3, <2>4, Given
  <2>6. FlowMatches(ParseFlow(source, r), source, t, s)
    BY <2>1, <2>3, <2>4, <2>5, MatchesIsLeads
  <2>7. t \in Targets(source, last.ip, last.port)
    BY <2>2, <2>5, <2>6 DEF Targets, handleConnection
  <2>8. \A i \in Targets(source, last.ip, last.port) : i \in Found(last.ip, last.port)
    BY DEF Targets, Found
  <2> QED
    BY <2>1, <2>2, <2>7, <2>8
<1> QED
  BY <1>1, Invariance, PTL

\* With the example configuration a host service acts for the team of whoever connects:
\* a bot for itself, another machine for its team, the scorebot and a device of an unknown
\* team for nobody.
THEOREM HostActsForTheTeam ==
    ASSUME ExampleConfig
    PROVE  Spec => []ActsForItsTeam
<1>1. IInv => ActsForItsTeam
  <2> SUFFICES ASSUME IInv, last.op = "conn", last.target = Host
               PROVE  last.as =
                          IF last.source.kind = "scorebot" \/ ~ NamesTeam(TeamName(last.source))
                          THEN {}
                          ELSE {[name |-> TeamName(last.source),
                                 bot |-> last.source.kind = "bot"]}
    BY DEF ActsForItsTeam
  <2>1. PICK source : source = last.source
    OBVIOUS
  <2>2. /\ source \in Instances \ {Host} /\ last.as = teamFromFlowInstance(source)
        /\ Host \in Targets(source, last.ip, last.port)
    BY <2>1, InstanceKinds, NoOneAssumption DEF IInv, LastIsRouted, TypeOK
  <2>3. tags[source] = {OwnTag(source)}
    <3>1. tags[source] # {}
      BY <2>2 DEF Targets, handleConnection, FlowMatches
    <3> QED
      BY <2>2, <3>1, Given
  <2>4. source.kind \in Kinds \ {"host"}
    BY <2>2, InstanceKinds
  <2> DEFINE g == OwnTag(source)
  <2>5. g.tag = TagName[source.kind]
    BY DEF OwnTag
  <2>6. source.kind # "scorebot" => g.instance = TeamName(source)
    BY <2>4 DEF OwnTag
  <2> HIDE DEF g
  <2>7. /\ source.kind = "scorebot" => g.tag \notin {"team", "bot", "device"}
        /\ source.kind # "scorebot" => g.tag \in {"team", "bot", "device"}
        /\ g.tag = "bot" <=> source.kind = "bot"
    BY <2>4, <2>5, TagsOfKind DEF Kinds
  <2>8. CASE source.kind = "scorebot"
    <3>1. teamFromFlowInstance(source) = {}
      BY <2>3, <2>7, <2>8 DEF teamFromFlowInstance, g
    <3> QED
      BY <2>1, <2>2, <2>8, <3>1
  <2>9. CASE source.kind # "scorebot" /\ ~ NamesTeam(TeamName(source))
    <3>1. ~ NamesTeam(g.instance)
      BY <2>6, <2>9
    <3>2. teamFromFlowInstance(source) = {}
      BY <2>3, <3>1 DEF teamFromFlowInstance, g
    <3> QED
      BY <2>1, <2>2, <2>9, <3>2
  <2>10. CASE source.kind # "scorebot" /\ NamesTeam(TeamName(source))
    <3>1. teamFromFlowInstance(source) = {teamFromTag(g)}
      BY <2>3, <2>6, <2>7, <2>10 DEF teamFromFlowInstance, g
    <3>2. teamFromTag(g) = [name |-> TeamName(source), bot |-> source.kind = "bot"]
      BY <2>6, <2>7, <2>10 DEF teamFromTag
    <3> QED
      BY <2>1, <2>2, <2>10, <3>1, <3>2
  <2> QED
    BY <2>8, <2>9, <2>10
<1> QED
  BY <1>1, Invariance, PTL
=============================================================================
