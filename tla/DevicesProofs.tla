---------------------------- MODULE DevicesProofs ----------------------------
(***************************************************************************)
(* Proofs about module Devices, for every number of names, requests and    *)
(* restarts.                                                               *)
(***************************************************************************)
EXTENDS Devices, FiniteSetTheorems, SequenceTheorems, TLAPS

Busy == {"lookup", "insert", "router", "append", "store", "create", "encode"}

\* The name is in the flow router; the device is in its maps; it is in the list.
Entered == {"router", "append", "store", "create", "encode"}
Routed == {"append", "store", "create", "encode"}
Listed == {"create", "encode"}

\* The devices in the list, or in a copy of it that a goroutine is about to store.
Known ==
    {devices[i] : i \in DOMAIN devices}
        \cup UNION {{act[a].seen[i] : i \in DOMAIN act[a].seen} : a \in Actors}

(***************************************************************************)
(* The inductive invariant. Its first part holds in every behaviour: the   *)
(* types, the goroutines' places, and that whatever is in the list or past *)
(* the lookup is in the flow router (which is how a second request for a   *)
(* name is refused).                                                       *)
(***************************************************************************)

DeviceTypes ==
    /\ TypeOK
    /\ act \in [Actors -> {Idle} \cup [pc : Busy, dev : Device, seen : Seq(Device)]]

DownIsEmpty ==
    boot \in {"down", "failed"} =>
        /\ todo = {} /\ flow = {} /\ devices = <<>>
        /\ \A a \in Actors : act[a] = Idle

MainPlace ==
    /\ act[Main].pc \notin Listed
    /\ boot \in {"starting", "ready"} => todo = {} /\ act[Main] = Idle

TodoHasFiles == \A n \in todo : files[n] # Absent

InFlow ==
    /\ \A a \in Actors : act[a].pc \in Entered => act[a].dev.name \in flow
    /\ \A e \in Known : e.name \in flow

OwnNames ==
    \A r \in Requests : act[r].pc # "idle" =>
        /\ act[r].dev.name \in Posts[r] /\ act[r].dev.key.boot <= boots
        /\ act[r].pc \in Routed => act[r].dev.key # NoKey

Always == DeviceTypes /\ DownIsEmpty /\ MainPlace /\ TodoHasFiles /\ InFlow /\ OwnNames

(***************************************************************************)
(* Its second part holds as long as no request came in while the devices   *)
(* were being loaded. A request past the lookup has a name that nobody     *)
(* else has: no acknowledged device, no listed device, no other goroutine. *)
(* Every acknowledged device is found in the flow router once the devices  *)
(* are loaded, because its file is there and what is loaded is what the    *)
(* file says; and the router's map has the keys of every listed device.    *)
(***************************************************************************)

Unhurried == boot \in {"starting", "loading"} => \A r \in Requests : act[r] = Idle

KeptInFile == \A d \in acked : files[d.name] = [id |-> d.id, key |-> d.key]

AckedFound ==
    boot \in {"loading", "ready"} => \A d \in acked :
        \/ d.name \in todo \cup flow
        \/ act[Main].pc \in {"lookup", "insert"} /\ act[Main].dev.name = d.name

NameIsFree ==
    \A r \in Requests : act[r].pc \in Entered \cup {"insert"} =>
        /\ \A d \in acked : d.name # act[r].dev.name
        /\ \A e \in Known : e.name = act[r].dev.name =>
              e = act[r].dev /\ act[r].pc \in Listed

MainLoads ==
    /\ act[Main].pc # "idle" =>
          /\ act[Main].dev.key.boot < boots
          /\ \A d \in acked : d.name = act[Main].dev.name => d = act[Main].dev
    /\ act[Main].pc \in Entered \cup {"insert"} =>
          \A e \in Known : e.name # act[Main].dev.name

KnownIsAcked == \A d \in acked, e \in Known : e.name = d.name => e = d

KeysOfFiles ==
    \A n \in Names : files[n] \notin {Absent, Empty} =>
        /\ files[n].key.boot <= boots
        /\ boot \in {"starting", "loading"} => files[n].key.boot < boots

\* The map of the router has the entry of device d.
Fits(d) ==
    /\ configs[d.name] # Absent
    /\ configs[d.name].key = d.key
    /\ d.key.boot = boots => configs[d.name].side = "device"

MapFits ==
    /\ \A e \in Known : Fits(e)
    /\ \A a \in Actors : act[a].pc \in Routed => Fits(act[a].dev)

WhenCalm ==
    /\ Unhurried /\ KeptInFile /\ AckedFound /\ NameIsFree /\ MainLoads
    /\ KnownIsAcked /\ KeysOfFiles /\ MapFits

IInv == Always /\ (noise # "early" => WhenCalm)

-----------------------------------------------------------------------------
(* The steps of a goroutine, and what they do to the devices it knows *)

ActType == {Idle} \cup [pc : Busy, dev : Device, seen : Seq(Device)]

\* Goroutine a gets to x; the others stay where they are.
Becomes(a, x) ==
    /\ x \in ActType
    /\ act'[a] = x
    /\ \A b \in Actors \ {a} : act'[b] = act[b]

\* A goroutine is idle exactly if its place says so.
LEMMA IdleOrBusy ==
    ASSUME DeviceTypes, NEW a \in Actors
    PROVE  \/ act[a] = Idle /\ act[a].pc = "idle" /\ act[a].seen = <<>>
           \/ /\ act[a] \in [pc : Busy, dev : Device, seen : Seq(Device)]
              /\ act[a].pc # "idle" /\ act[a] # Idle
BY DEF DeviceTypes, Idle, Busy

\* A goroutine that moves to a well-typed state leaves all of them well-typed.
LEMMA BecomesType ==
    ASSUME DeviceTypes, NEW a \in Actors, NEW x \in ActType, act' = [act EXCEPT ![a] = x]
    PROVE  Becomes(a, x) /\ act' \in [Actors -> ActType]
BY DEF DeviceTypes, Becomes, ActType

\* A step that only moves the goroutine.
LEMMA GoesFits ==
    ASSUME DeviceTypes, NEW a \in Actors, act[a].pc # "idle", NEW w \in Busy, Goes(a, w)
    PROVE  /\ act' \in [Actors -> ActType]
           /\ Becomes(a, [act[a] EXCEPT !.pc = w])
           /\ act'[a].pc = w /\ act'[a].dev = act[a].dev /\ act'[a].seen = act[a].seen
           /\ act'[a] \in [pc : Busy, dev : Device, seen : Seq(Device)]
<1>1. act[a] \in [pc : Busy, dev : Device, seen : Seq(Device)]
  BY IdleOrBusy
<1>2. [act[a] EXCEPT !.pc = w] \in [pc : Busy, dev : Device, seen : Seq(Device)]
  BY <1>1
<1>3. act' = [act EXCEPT ![a] = [act[a] EXCEPT !.pc = w]]
  BY DEF Goes
<1>4. Becomes(a, [act[a] EXCEPT !.pc = w]) /\ act' \in [Actors -> ActType]
  BY <1>2, <1>3, BecomesType DEF ActType
<1> QED
  BY <1>1, <1>2, <1>4 DEF Becomes

\* All that the server knows of (listed, copied or being added) are devices.
LEMMA KnownType ==
    ASSUME DeviceTypes
    PROVE  Known \subseteq Device
<1>1. \A i \in DOMAIN devices : devices[i] \in Device
  BY LenProperties DEF DeviceTypes, TypeOK
<1>2. ASSUME NEW a \in Actors, NEW i \in DOMAIN act[a].seen
      PROVE  act[a].seen[i] \in Device
  <2>1. act[a].seen # <<>>
    BY <1>2
  <2>2. act[a].seen \in Seq(Device)
    BY <2>1, IdleOrBusy
  <2> QED
    BY <2>2, LenProperties
<1> QED
  BY <1>1, <1>2 DEF Known

\* Forgetting a copy of the list, or making one, adds no device.
LEMMA KnownShrinks ==
    ASSUME UNCHANGED devices,
           \A a \in Actors : act'[a].seen \in {act[a].seen, devices, <<>>}
    PROVE  Known' \subseteq Known
<1>1. ASSUME NEW a \in Actors, NEW i \in DOMAIN act'[a].seen
      PROVE  act'[a].seen[i] \in Known
  <2>1. CASE act'[a].seen = <<>>
    BY <1>1, <2>1
  <2>2. CASE act'[a].seen = devices
    BY <1>1, <2>2 DEF Known
  <2>3. CASE act'[a].seen = act[a].seen
    BY <1>1, <2>3 DEF Known
  <2> QED
    BY <2>1, <2>2, <2>3
<1>2. ASSUME NEW i \in DOMAIN devices  PROVE  devices[i] \in Known
  BY DEF Known
<1> QED
  BY <1>1, <1>2 DEF Known

\* Storing a copy of the list adds the goroutine's device.
LEMMA KnownGrows ==
    ASSUME DeviceTypes, NEW a \in Actors, act[a].pc # "idle",
           devices' = Append(act[a].seen, act[a].dev),
           \A b \in Actors : act'[b].seen \in {act[b].seen, <<>>}
    PROVE  /\ devices' \in Seq(Device)
           /\ Known' \subseteq Known \cup {act[a].dev}
<1>1. act[a].seen \in Seq(Device) /\ act[a].dev \in Device
  BY IdleOrBusy
<1>2. /\ devices' \in Seq(Device) /\ Len(devices') = Len(act[a].seen) + 1
      /\ \A i \in 1 .. Len(act[a].seen) : devices'[i] = act[a].seen[i]
      /\ devices'[Len(act[a].seen) + 1] = act[a].dev
  BY <1>1, AppendProperties
<1>3. /\ DOMAIN devices' = 1 .. (Len(act[a].seen) + 1) /\ Len(act[a].seen) \in Nat
      /\ DOMAIN act[a].seen = 1 .. Len(act[a].seen)
  BY <1>1, <1>2, LenProperties
<1>4. ASSUME NEW i \in DOMAIN devices'
      PROVE  devices'[i] \in Known \cup {act[a].dev}
  <2>1. CASE i \in DOMAIN act[a].seen
    <3>1. devices'[i] = act[a].seen[i]
      BY <1>2, <1>3, <2>1
    <3> QED
      BY <2>1, <3>1 DEF Known
  <2>2. CASE i \notin DOMAIN act[a].seen
    BY <1>2, <1>3, <2>2
  <2> QED
    BY <2>1, <2>2
<1>5. ASSUME NEW b \in Actors, NEW i \in DOMAIN act'[b].seen
      PROVE  act'[b].seen[i] \in Known
  <2>1. act'[b].seen = act[b].seen
    BY <1>5
  <2> QED
    BY <1>5, <2>1 DEF Known
<1> QED
  BY <1>2, <1>4, <1>5 DEF Known

-----------------------------------------------------------------------------
(* The first part *)

\* Before the first boot everything is well-typed and no device is known.
LEMMA InitAlways == Init => Always /\ Known = {}
<1> SUFFICES ASSUME Init  PROVE  Always /\ Known = {}
  OBVIOUS
<1>1. act = [a \in Actors |-> Idle] /\ devices = <<>> /\ Idle.seen = <<>> /\ Idle.pc = "idle"
  BY DEF Init, Idle
<1>2. \A a \in Actors : act[a] = Idle
  BY <1>1
<1>3. Known = {}
  BY <1>1, <1>2 DEF Known
<1>4. Main \in Actors /\ Requests \subseteq Actors
  BY DEF Actors
<1>5. DeviceTypes
  <2>1. devices \in Seq(Device)
    BY <1>1
  <2>2. boots \in 0 .. MaxBoots
    BY DevicesAssumption DEF Init
  <2>3. configs \in [Names -> Config \cup {Absent}] /\ files \in [Names -> Saved \cup {Absent, Empty}]
    BY DEF Init
  <2>4. DOMAIN act = Actors /\ \A a \in Actors : act[a] = Idle
    BY <1>1
  <2>5. TypeOK
    BY <2>1, <2>2, <2>3, <2>4, Zenon DEF Init, TypeOK
  <2> QED
    BY <1>1, <2>5 DEF DeviceTypes
<1>6. DownIsEmpty /\ MainPlace /\ TodoHasFiles /\ InFlow /\ OwnNames
  <2>1. "idle" \notin Listed /\ "idle" \notin Entered
    BY DEF Listed, Entered
  <2> QED
    BY <1>1, <1>2, <1>3, <1>4, <2>1 DEF Init, DownIsEmpty, MainPlace, TodoHasFiles, InFlow, OwnNames
<1> QED
  BY <1>3, <1>5, <1>6 DEF Always

\* The process is gone.
LEMMA DiesAlways ==
    ASSUME Always, NEW how \in {"down", "failed"}, Dies(how),
           UNCHANGED <<files, acked, noise, boots>>
    PROVE  Always' /\ Known' = {}
<1>1. /\ boot' = how /\ todo' = {} /\ flow' = {} /\ devices' = <<>>
      /\ configs' = [n \in Names |-> Absent] /\ act' = [a \in Actors |-> Idle]
      /\ Idle.seen = <<>> /\ Idle.pc = "idle"
  BY DEF Dies, Idle
<1>2. \A a \in Actors : act'[a] = Idle
  BY <1>1
<1>3. Known' = {}
  BY <1>1, <1>2 DEF Known
<1>4. Main \in Actors /\ Requests \subseteq Actors
  BY DEF Actors
<1>5. DeviceTypes'
  <2>1. TypeOK /\ devices' \in Seq(Device) /\ configs' \in [Names -> Config \cup {Absent}]
    BY <1>1 DEF Always, DeviceTypes
  <2>2. DOMAIN act' = Actors /\ act' \in [Actors -> ActType]
    BY <1>1 DEF ActType
  <2>3. TypeOK'
    BY <1>1, <1>2, <2>1, <2>2, Zenon DEF TypeOK
  <2> QED
    BY <2>2, <2>3 DEF DeviceTypes, ActType
<1>6. DownIsEmpty' /\ MainPlace' /\ TodoHasFiles' /\ InFlow' /\ OwnNames'
  <2>1. "idle" \notin Listed /\ "idle" \notin Entered /\ how # "ready"
    BY DEF Listed, Entered
  <2> QED
    BY <1>1, <1>2, <1>3, <1>4, <2>1 DEF DownIsEmpty, MainPlace, TodoHasFiles, InFlow, OwnNames
<1> QED
  BY <1>3, <1>5, <1>6 DEF Always

\* What a step of one goroutine has to see to.
LEMMA StepAlways ==
    ASSUME Always, Serving, UNCHANGED <<boot, boots>>,
           NEW a \in Actors, NEW x \in ActType, act' = [act EXCEPT ![a] = x],
           todo' \subseteq todo, flow \subseteq flow', flow' \subseteq Names,
           devices' \in Seq(Device), configs' \in [Names -> Config \cup {Absent}],
           files' \in [Names -> Saved \cup {Absent, Empty}],
           \A n \in Names : files[n] # Absent => files'[n] # Absent,
           acked' \subseteq Finished, noise' \in {"none", "muddle", "early"},
           \A e \in Known' : e.name \in flow',
           x.pc \in Entered => x.dev.name \in flow',
           a = Main => x.pc \notin Listed /\ (x = Idle \/ boot = "loading"),
           a # Main /\ x.pc # "idle" =>
               /\ x.dev.name \in Posts[a] /\ x.dev.key.boot <= boots
               /\ x.pc \in Routed => x.dev.key # NoKey
    PROVE  Always'
<1>1. DeviceTypes /\ TypeOK /\ Main \in Actors /\ Requests \subseteq Actors /\ Main \notin Requests
  BY DevicesAssumption DEF Always, DeviceTypes, Actors
<1>2. Becomes(a, x) /\ act' \in [Actors -> ActType]
  BY <1>1, BecomesType
<1>3. \A b \in Actors : act'[b] = IF b = a THEN x ELSE act[b]
  BY <1>2 DEF Becomes
<1>4. TypeOK'
  <2>1. DOMAIN act' = Actors
    BY <1>2
  <2>2. \A b \in Actors :
            act'[b] = Idle \/ (act'[b].dev \in Device /\ act'[b].seen \in Seq(Device))
    BY <1>2 DEF ActType
  <2>3. todo' \subseteq Names
    BY <1>1 DEF TypeOK
  <2> QED
    BY <1>1, <2>1, <2>2, <2>3, Zenon DEF TypeOK
<1>5. DeviceTypes'
  BY <1>2, <1>4 DEF DeviceTypes, ActType
<1>6. DownIsEmpty'
  BY DEF DownIsEmpty, Serving
<1>7. MainPlace'
  <2>1. MainPlace
    BY DEF Always
  <2> QED
    BY <1>1, <1>3, <2>1 DEF MainPlace
<1>8. TodoHasFiles'
  BY <1>1 DEF Always, TodoHasFiles, TypeOK
<1>9. InFlow'
  <2>1. ASSUME NEW b \in Actors, act'[b].pc \in Entered  PROVE  act'[b].dev.name \in flow'
    BY <1>3, <2>1 DEF Always, InFlow
  <2> QED
    BY <2>1 DEF InFlow
<1>10. OwnNames'
  <2> SUFFICES ASSUME NEW r \in Requests, act'[r].pc # "idle"
               PROVE  /\ act'[r].dev.name \in Posts[r] /\ act'[r].dev.key.boot <= boots
                      /\ act'[r].pc \in Routed => act'[r].dev.key # NoKey
    BY DEF OwnNames
  <2>1. CASE r = a
    BY <1>1, <1>3, <2>1
  <2>2. CASE r # a
    <3>1. act'[r] = act[r]
      BY <1>1, <1>3, <2>2
    <3> QED
      BY <3>1 DEF Always, OwnNames
  <2> QED
    BY <2>1, <2>2
<1> QED
  BY <1>5, <1>6, <1>7, <1>8, <1>9, <1>10 DEF Always

\* A goroutine that gives up or is done, with nothing new in the list.
LEMMA IdleAlways ==
    ASSUME Always, Serving, NEW a \in Actors,
           act' = [act EXCEPT ![a] = Idle],
           UNCHANGED <<boot, boots, todo, flow, devices>>,
           configs' \in [Names -> Config \cup {Absent}],
           files' \in [Names -> Saved \cup {Absent, Empty}],
           \A n \in Names : files[n] # Absent => files'[n] # Absent,
           acked' \subseteq Finished, noise' \in {"none", "muddle", "early"}
    PROVE  Always' /\ Known' \subseteq Known
<1>1. Idle \in ActType /\ Idle.pc = "idle" /\ Idle.seen = <<>>
      /\ "idle" \notin Entered /\ "idle" \notin Listed
  BY DEF ActType, Idle, Entered, Listed
<1>2. DeviceTypes /\ TypeOK
  BY DEF Always, DeviceTypes
<1>3. \A b \in Actors : act'[b] = IF b = a THEN Idle ELSE act[b]
  BY <1>2 DEF DeviceTypes
<1>4. Known' \subseteq Known
  BY <1>1, <1>3, KnownShrinks
<1>5. \A e \in Known' : e.name \in flow'
  BY <1>4 DEF Always, InFlow
<1>6. flow' \subseteq Names /\ devices' \in Seq(Device) /\ todo' \subseteq todo
      /\ flow \subseteq flow'
  BY <1>2 DEF TypeOK
<1>7. Always'
  BY <1>1, <1>5, <1>6, StepAlways
<1> QED
  BY <1>4, <1>7

\* What a step of goroutine a finds.
LEMMA AtMeans ==
    ASSUME Always, NEW a \in Actors, NEW w \in Busy, At(a, w)
    PROVE  /\ Serving /\ act[a].pc = w
           /\ DeviceTypes /\ TypeOK
           /\ act[a] \in [pc : Busy, dev : Device, seen : Seq(Device)]
           /\ act[a].dev \in Device /\ act[a].dev.name \in Names
           /\ act[a].dev.key \in Key /\ act[a].dev.key.boot \in Nat
           /\ a = Main => boot = "loading"
           /\ a # Main => /\ a \in Requests
                          /\ act[a].dev.name \in Posts[a] /\ act[a].dev.key.boot <= boots
                          /\ w \in Routed => act[a].dev.key # NoKey
           /\ boots \in Nat
<1>1. Serving /\ act[a].pc = w /\ w # "idle"
  BY DEF At, Busy
<1>2. DeviceTypes /\ TypeOK
  BY DEF Always, DeviceTypes
<1>3. act[a] \in [pc : Busy, dev : Device, seen : Seq(Device)]
  BY <1>1, <1>2, IdleOrBusy
<1>4. a = Main => boot \notin {"starting", "ready"}
  BY <1>1, <1>2, <1>3, IdleOrBusy DEF Always, MainPlace
<1>5. a # Main => /\ a \in Requests
                  /\ act[a].dev.name \in Posts[a] /\ act[a].dev.key.boot <= boots
                  /\ w \in Routed => act[a].dev.key # NoKey
  BY <1>1 DEF Actors, Always, OwnNames
<1>6. /\ act[a].dev \in Device /\ act[a].dev.name \in Names
      /\ act[a].dev.key \in Key /\ act[a].dev.key.boot \in Nat
  BY <1>3 DEF Device, Key
<1>7. boots \in Nat
  BY <1>2, DevicesAssumption DEF TypeOK
<1>8. a = Main => boot = "loading"
  BY <1>1, <1>4 DEF Serving
<1> QED
  BY <1>1, <1>2, <1>3, <1>5, <1>6, <1>7, <1>8, Zenon

\* Goroutine a goes on to w with its device; the list is as it was.
LEMMA GoesAlways ==
    ASSUME Always, Serving, NEW a \in Actors, act[a].pc # "idle",
           NEW w \in Busy, Goes(a, w),
           UNCHANGED <<boot, boots, todo, devices>>,
           flow \subseteq flow', flow' \subseteq Names,
           configs' \in [Names -> Config \cup {Absent}],
           files' \in [Names -> Saved \cup {Absent, Empty}],
           \A n \in Names : files[n] # Absent => files'[n] # Absent,
           acked' \subseteq Finished, noise' \in {"none", "muddle", "early"},
           w \in Entered => act[a].dev.name \in flow',
           a = Main => w \notin Listed,
           a # Main /\ w \in Routed => act[a].pc \in Routed
    PROVE  Always' /\ Known' \subseteq Known
<1>1. DeviceTypes /\ TypeOK
  BY DEF Always, DeviceTypes
<1> DEFINE x == [act[a] EXCEPT !.pc = w]
<1>2. /\ act' \in [Actors -> ActType] /\ Becomes(a, x)
      /\ act'[a].pc = w /\ act'[a].dev = act[a].dev /\ act'[a].seen = act[a].seen
  BY <1>1, GoesFits
<1>3. x \in ActType /\ act' = [act EXCEPT ![a] = x] /\ x.pc = w /\ x.dev = act[a].dev
  BY <1>2 DEF Becomes, Goes
<1>4. Known' \subseteq Known
  BY <1>2, KnownShrinks DEF Becomes
<1>5. \A e \in Known' : e.name \in flow'
  BY <1>4 DEF Always, InFlow
<1>6. a = Main => boot = "loading"
  BY <1>1, IdleOrBusy DEF Always, MainPlace, Serving
<1>7. a # Main => /\ act[a].dev.name \in Posts[a] /\ act[a].dev.key.boot <= boots
                  /\ w \in Routed => act[a].dev.key # NoKey
  BY DEF Always, OwnNames, Actors
<1>8. devices' \in Seq(Device) /\ todo' \subseteq todo
  BY <1>1 DEF TypeOK
<1> HIDE DEF x
<1>9. Always'
  BY <1>3, <1>5, <1>6, <1>7, <1>8, StepAlways
<1> QED
  BY <1>4, <1>9

\* An error ends the request, or the process.
LEMMA FailsAlways ==
    ASSUME Always, Serving, NEW a \in Actors, Fails(a),
           UNCHANGED <<files, acked, boots>>,
           noise' \in {"none", "muddle", "early"}, a = Main => UNCHANGED noise
    PROVE  Always' /\ Known' \subseteq Known
<1>1. CASE a = Main
  <2>1. Dies("failed") /\ UNCHANGED <<files, acked, noise, boots>>
    BY <1>1 DEF Fails
  <2> QED
    BY <2>1, DiesAlways
<1>2. CASE a # Main
  <2>1. act' = [act EXCEPT ![a] = Idle] /\ UNCHANGED <<boot, todo, flow, devices, configs>>
    BY <1>2 DEF Fails
  <2>2. TypeOK
    BY DEF Always, DeviceTypes
  <2>3. /\ configs' \in [Names -> Config \cup {Absent}]
        /\ files' \in [Names -> Saved \cup {Absent, Empty}]
        /\ acked' \subseteq Finished
    BY <2>1, <2>2 DEF TypeOK
  <2> QED
    BY <2>1, <2>3, IdleAlways
<1> QED
  BY <1>1, <1>2

\* The variables that most steps leave alone keep their types.
LEMMA KeptTypes ==
    ASSUME Always
    PROVE  /\ UNCHANGED configs => configs' \in [Names -> Config \cup {Absent}]
           /\ UNCHANGED files => /\ files' \in [Names -> Saved \cup {Absent, Empty}]
                                 /\ \A n \in Names : files[n] # Absent => files'[n] # Absent
           /\ UNCHANGED acked => acked' \subseteq Finished
           /\ UNCHANGED noise => noise' \in {"none", "muddle", "early"}
           /\ UNCHANGED flow => flow \subseteq flow' /\ flow' \subseteq Names
           /\ UNCHANGED devices => devices' \in Seq(Device)
           /\ UNCHANGED todo => todo' \subseteq todo
<1>1. TypeOK
  BY DEF Always, DeviceTypes
<1> QED
  BY <1>1 DEF TypeOK

\* The process is started.
LEMMA BootAlways ==
    ASSUME Always, Boot
    PROVE  Always' /\ Known' = {}
<1>1. DeviceTypes /\ TypeOK /\ Main \in Actors /\ Requests \subseteq Actors
  BY DEF Always, DeviceTypes, Actors
<1>2. /\ boot \in {"down", "failed"} /\ boot' = "starting" /\ boots' = boots + 1
      /\ UNCHANGED <<todo, flow, devices, configs, files, act, acked, noise>>
  BY DEF Boot
<1>3. /\ todo = {} /\ flow = {} /\ devices = <<>> /\ \A a \in Actors : act[a] = Idle
  BY <1>2 DEF Always, DownIsEmpty
<1>4. Idle.pc = "idle" /\ Idle.seen = <<>> /\ "idle" \notin Entered /\ "idle" \notin Listed
  BY DEF Idle, Entered, Listed
<1>5. Known' = {}
  BY <1>2, <1>3, <1>4 DEF Known
<1>6. boots' \in 0 .. MaxBoots
  BY <1>1, <1>2, DevicesAssumption DEF Boot, TypeOK
<1>7. TypeOK'
  BY <1>1, <1>2, <1>6, Zenon DEF TypeOK
<1>8. DeviceTypes'
  BY <1>1, <1>2, <1>7 DEF DeviceTypes
<1>9. DownIsEmpty' /\ MainPlace' /\ TodoHasFiles'
  BY <1>1, <1>2, <1>3, <1>4 DEF DownIsEmpty, MainPlace, TodoHasFiles
<1>10. InFlow' /\ OwnNames'
  BY <1>1, <1>2, <1>3, <1>4, <1>5 DEF InFlow, OwnNames
<1> QED
  BY <1>5, <1>8, <1>9, <1>10 DEF Always

\* The directory is listed.
LEMMA ReadDirAlways ==
    ASSUME Always, ReadDir
    PROVE  Always' /\ Known' = Known
<1>1. DeviceTypes /\ TypeOK
  BY DEF Always, DeviceTypes
<1>2. /\ boot = "starting" /\ boot' = "loading"
      /\ todo' = {n \in Names : files[n] # Absent}
      /\ UNCHANGED <<flow, devices, configs, files, act, acked, noise, boots>>
  BY DEF ReadDir
<1>3. Known' = Known
  BY <1>2 DEF Known
<1>4. todo' \subseteq Names
  BY <1>2
<1>5. TypeOK'
  BY <1>1, <1>2, <1>4, Zenon DEF TypeOK
<1>6. DeviceTypes'
  BY <1>1, <1>2, <1>5 DEF DeviceTypes
<1>7. DownIsEmpty' /\ MainPlace' /\ TodoHasFiles'
  BY <1>2 DEF Always, DownIsEmpty, MainPlace, TodoHasFiles
<1>8. InFlow' /\ OwnNames'
  BY <1>2, <1>3 DEF Always, InFlow, OwnNames
<1> QED
  BY <1>3, <1>6, <1>7, <1>8 DEF Always

\* The devices are loaded: the web server's requests are all that goes on.
LEMMA AllLoadedAlways ==
    ASSUME Always, AllLoaded
    PROVE  Always' /\ Known' = Known
<1>1. DeviceTypes /\ TypeOK /\ Main \in Actors /\ Requests \subseteq Actors
  BY DEF Always, DeviceTypes, Actors
<1>2. /\ boot = "loading" /\ todo = {} /\ act[Main].pc = "idle" /\ boot' = "ready"
      /\ UNCHANGED <<todo, flow, devices, configs, files, act, acked, noise, boots>>
  BY DEF AllLoaded
<1>3. act[Main] = Idle
  BY <1>1, <1>2, IdleOrBusy
<1>4. Known' = Known
  BY <1>2 DEF Known
<1>5. TypeOK'
  BY <1>1, <1>2, Zenon DEF TypeOK
<1>6. DeviceTypes'
  BY <1>1, <1>2, <1>5 DEF DeviceTypes
<1>7. DownIsEmpty' /\ MainPlace' /\ TodoHasFiles' /\ InFlow' /\ OwnNames'
  BY <1>2, <1>3, <1>4
  DEF Always, DownIsEmpty, MainPlace, TodoHasFiles, InFlow, OwnNames
<1> QED
  BY <1>4, <1>6, <1>7 DEF Always

\* A number is taken as it is.
LEMMA NumberAsItIs == ASSUME NEW id \in Nat PROVE NumberFor(id) = id
BY DEF NumberFor

\* What the goroutine of Run takes from a file.
FromFile(n) ==
    [pc |-> "lookup", seen |-> <<>>,
     dev |-> [name |-> n, id |-> files[n].id, key |-> files[n].key]]

\* A file that is not absent and not empty has the number and the keys.
LEMMA FileSays ==
    ASSUME Always, NEW n \in todo, files[n] # Empty
    PROVE  /\ files[n] \in Saved /\ files[n].key \in Key /\ files[n].key.boot \in Nat
           /\ FromFile(n) \in ActType /\ FromFile(n) # Idle
           /\ FromFile(n).dev \in Device
<1>1. TypeOK
  BY DEF Always, DeviceTypes
<1>2. files[n] # Absent /\ n \in Names
  BY <1>1 DEF Always, TodoHasFiles, TypeOK
<1>3. files[n] \in Saved
  BY <1>1, <1>2 DEF TypeOK
<1>4. files[n].id \in Nat /\ files[n].key \in Key /\ files[n].key.boot \in Nat
  BY <1>3 DEF Saved, Key
<1>5. [name |-> n, id |-> files[n].id, key |-> files[n].key] \in Device
  BY <1>2, <1>4 DEF Device
<1>6. FromFile(n) \in [pc : Busy, dev : Device, seen : Seq(Device)]
  BY <1>5 DEF FromFile, Busy
<1>7. FromFile(n) # Idle
  BY DEF FromFile, Idle
<1>8. FromFile(n).dev \in Device
  BY <1>6
<1> QED
  BY <1>3, <1>4, <1>6, <1>7, <1>8 DEF ActType

\* What LoadFile changes.
LEMMA LoadsFrom ==
    ASSUME Always, LoadFile
    PROVE  \E n \in todo :
             /\ IsNext(n)
             /\ \/ files[n] = Empty /\ Fails(Main)
                \/ /\ files[n] # Empty
                   /\ todo' = todo \ {n}
                   /\ act' = [act EXCEPT ![Main] = FromFile(n)]
                   /\ UNCHANGED <<boot, flow, devices, configs>>
<1>1. ASSUME NEW n \in todo, files[n] # Empty
      PROVE  NumberFor(files[n].id) = files[n].id
  <2>1. files[n].id \in Nat
    BY <1>1, FileSays DEF Saved
  <2> QED
    BY <2>1, NumberAsItIs
<1> QED
  BY <1>1 DEF LoadFile, FromFile

\* A file is loaded, or Run returns.
LEMMA LoadFileAlways ==
    ASSUME Always, LoadFile
    PROVE  Always' /\ Known' \subseteq Known
<1>1. Serving /\ act[Main].pc = "idle" /\ Main \in Actors
      /\ UNCHANGED <<files, acked, noise, boots>>
  BY DEF LoadFile, At, Actors
<1>2. DeviceTypes /\ TypeOK
  BY DEF Always, DeviceTypes
<1>3. PICK n \in todo :
         /\ IsNext(n)
         /\ \/ files[n] = Empty /\ Fails(Main)
            \/ /\ files[n] # Empty
               /\ todo' = todo \ {n}
               /\ act' = [act EXCEPT ![Main] = FromFile(n)]
               /\ UNCHANGED <<boot, flow, devices, configs>>
  BY LoadsFrom
<1>4. CASE Fails(Main)
  BY <1>1, <1>4, KeptTypes, FailsAlways
<1>5. CASE /\ files[n] # Empty
           /\ todo' = todo \ {n}
           /\ act' = [act EXCEPT ![Main] = FromFile(n)]
           /\ UNCHANGED <<boot, flow, devices, configs>>
  <2>1. FromFile(n) \in ActType
    BY <1>5, FileSays
  <2>2. FromFile(n).pc = "lookup" /\ FromFile(n).seen = <<>>
        /\ "lookup" \notin Entered /\ "lookup" \notin Listed
    BY DEF FromFile, Entered, Listed
  <2>3. \A b \in Actors : act'[b] = IF b = Main THEN FromFile(n) ELSE act[b]
    BY <1>2, <1>5 DEF DeviceTypes
  <2>4. Known' \subseteq Known
    BY <1>5, <2>2, <2>3, KnownShrinks
  <2>5. \A e \in Known' : e.name \in flow'
    BY <1>5, <2>4 DEF Always, InFlow
  <2>6. boot = "loading"
    BY <1>1 DEF Always, MainPlace, Serving
  <2>7. todo' \subseteq todo
    BY <1>5
  <2>8. Always'
    BY <1>1, <1>5, <2>1, <2>2, <2>5, <2>6, <2>7, KeptTypes, StepAlways
  <2> QED
    BY <2>4, <2>8
<1> QED
  BY <1>3, <1>4, <1>5

\* What a request starts with.
NewDevice(n) ==
    [pc |-> "lookup", dev |-> [name |-> n, id |-> Len(devices), key |-> NoKey], seen |-> <<>>]

\* A request starts with the number of devices.
LEMMA CreatesNew ==
    ASSUME Always, NEW r \in Requests, createDevice(r)
    PROVE  \E n \in Posts[r] : act' = [act EXCEPT ![r] = NewDevice(n)]
<1>1. Len(devices) \in Nat
  BY LenProperties DEF Always, DeviceTypes, TypeOK
<1>2. NumberFor(Len(devices)) = Len(devices)
  BY <1>1, NumberAsItIs
<1> QED
  BY <1>2 DEF createDevice, NewDevice

\* createDevice, which makes an id and enters the new device, keeps Always.
LEMMA createDeviceAlways ==
    ASSUME Always, NEW r \in Requests, createDevice(r)
    PROVE  Always' /\ Known' \subseteq Known
<1>1. /\ Serving /\ r \in Actors /\ Main \in Actors /\ r # Main
      /\ UNCHANGED <<boot, todo, flow, devices, configs, files, acked, boots>>
  BY DevicesAssumption DEF createDevice, Actors
<1>2. DeviceTypes /\ TypeOK
  BY DEF Always, DeviceTypes
<1>3. PICK n \in Posts[r] : act' = [act EXCEPT ![r] = NewDevice(n)]
  BY CreatesNew
<1>4. n \in Names /\ NoKey \in Key /\ NoKey.boot = 0
  BY <1>1, DevicesAssumption DEF NoKey, Key
<1>5. [name |-> n, id |-> Len(devices), key |-> NoKey] \in Device
  BY <1>2, <1>4, LenProperties DEF TypeOK, Device
<1>6. NewDevice(n) \in ActType
  BY <1>5 DEF NewDevice, ActType, Busy
<1>7. /\ NewDevice(n).pc = "lookup" /\ NewDevice(n).seen = <<>> /\ NewDevice(n).dev.name = n
      /\ NewDevice(n).dev.key = NoKey
      /\ "lookup" \notin Entered /\ "lookup" \notin Listed /\ "lookup" \notin Routed
  BY DEF NewDevice, Entered, Listed, Routed
<1>8. \A b \in Actors : act'[b] = IF b = r THEN NewDevice(n) ELSE act[b]
  BY <1>1, <1>2, <1>3 DEF DeviceTypes
<1>9. Known' \subseteq Known
  BY <1>1, <1>7, <1>8, KnownShrinks
<1>10. \A e \in Known' : e.name \in flow'
  BY <1>1, <1>9 DEF Always, InFlow
<1>11. noise' \in {"none", "muddle", "early"}
  BY <1>2 DEF createDevice, NoteRequest, TypeOK
<1>12. 0 <= boots
  BY <1>2, DevicesAssumption DEF TypeOK
<1>13. Always'
  BY <1>1, <1>3, <1>4, <1>6, <1>7, <1>10, <1>11, <1>12, KeptTypes, StepAlways
<1> QED
  BY <1>9, <1>13

\* Looking the name up in the flow router keeps Always.
LEMMA FlowLookupAlways ==
    ASSUME Always, NEW a \in Actors, FlowLookup(a)
    PROVE  Always' /\ Known' \subseteq Known
<1>1. At(a, "lookup") /\ UNCHANGED <<files, acked, noise, boots>>
  BY DEF FlowLookup
<1>2. Serving /\ act[a].pc = "lookup"
  BY <1>1 DEF At
<1>3. CASE Fails(a)
  BY <1>1, <1>2, <1>3, KeptTypes, FailsAlways
<1>4. CASE Goes(a, "insert") /\ UNCHANGED <<boot, todo, flow, devices, configs>>
  <2>1. /\ "insert" \in Busy /\ "insert" \notin Entered /\ "insert" \notin Listed
        /\ "insert" \notin Routed
    BY DEF Busy, Entered, Listed, Routed
  <2> QED
    BY <1>1, <1>2, <1>4, <2>1, KeptTypes, GoesAlways
<1> QED
  BY <1>3, <1>4 DEF FlowLookup

\* Entering the name in the flow router keeps Always.
LEMMA FlowInsertAlways ==
    ASSUME Always, NEW a \in Actors, FlowInsert(a)
    PROVE  Always' /\ Known' \subseteq Known
<1>1. /\ At(a, "insert") /\ flow' = flow \cup {act[a].dev.name} /\ Goes(a, "router")
      /\ UNCHANGED <<boot, todo, devices, configs, files, acked, noise, boots>>
  BY DEF FlowInsert
<1>2. /\ "insert" \in Busy /\ "router" \in Busy
      /\ "router" \notin Listed /\ "router" \notin Routed
  BY DEF Busy, Listed, Routed
<1>3. /\ Serving /\ act[a].pc = "insert" /\ act[a].dev.name \in Names
      /\ TypeOK
  BY <1>1, <1>2, AtMeans
<1>4. flow \subseteq flow' /\ flow' \subseteq Names /\ act[a].dev.name \in flow'
  BY <1>1, <1>3 DEF TypeOK
<1> QED
  BY <1>1, <1>2, <1>3, <1>4, KeptTypes, GoesAlways

\* What the router makes of the request's device.
MadeKey(r) == [boot |-> boots, by |-> r]
WithKey(r) == [act[r] EXCEPT !.pc = "append", !.dev.key = MadeKey(r)]
MadeEntry(r) ==
    [configs EXCEPT ![act[r].dev.name] = translateToDeviceConfig("device", MadeKey(r))]

\* What AddDevice of the WireGuard router changes: a fresh key for the name, nothing else.
LEMMA RouterAddCases ==
    ASSUME Always, NEW r \in Requests, RouterAdd(r)
    PROVE  /\ UNCHANGED <<boot, todo, flow, devices, files, acked, noise, boots>>
           /\ At(r, "router") /\ r \in Actors /\ r # Main
           /\ MadeKey(r) \in Key /\ MadeKey(r).boot = boots /\ MadeKey(r) # NoKey
           /\ MadeEntry(r) \in [Names -> Config \cup {Absent}]
           /\ MadeEntry(r)[act[r].dev.name] = [side |-> "device", key |-> MadeKey(r)]
           /\ \A n \in Names \ {act[r].dev.name} : MadeEntry(r)[n] = configs[n]
           /\ WithKey(r) \in ActType /\ WithKey(r).pc = "append"
           /\ WithKey(r).seen = act[r].seen
           /\ WithKey(r).dev.name = act[r].dev.name /\ WithKey(r).dev.key = MadeKey(r)
           /\ \/ /\ act' = [act EXCEPT ![r] = WithKey(r)]
                 /\ configs' = MadeEntry(r)
              \/ /\ act' = [act EXCEPT ![r] = Idle]
                 /\ configs' \in {configs, MadeEntry(r)}
<1>1. /\ At(r, "router") /\ r \in Actors /\ r # Main /\ "router" \in Busy
      /\ UNCHANGED <<boot, todo, flow, devices, files, acked, noise, boots>>
  BY DevicesAssumption DEF RouterAdd, Actors, Busy
<1>2. /\ act[r] \in [pc : Busy, dev : Device, seen : Seq(Device)]
      /\ act[r].dev \in Device /\ act[r].dev.name \in Names
      /\ TypeOK /\ DeviceTypes /\ boots \in Nat
  BY <1>1, AtMeans
<1>3. MadeKey(r) \in Key /\ MadeKey(r).boot = boots /\ MadeKey(r) # NoKey
  BY <1>1, <1>2 DEF MadeKey, Key, NoKey
<1>4. translateToDeviceConfig("device", MadeKey(r)) \in Config
  BY <1>3 DEF translateToDeviceConfig, Config
<1>5. /\ MadeEntry(r) \in [Names -> Config \cup {Absent}]
      /\ MadeEntry(r)[act[r].dev.name] = [side |-> "device", key |-> MadeKey(r)]
      /\ \A n \in Names \ {act[r].dev.name} : MadeEntry(r)[n] = configs[n]
  BY <1>2, <1>4 DEF MadeEntry, TypeOK, translateToDeviceConfig
<1>6. [act[r].dev EXCEPT !.key = MadeKey(r)] \in Device
  BY <1>2, <1>3 DEF Device
<1>7. WithKey(r) \in ActType
  BY <1>2, <1>6 DEF WithKey, ActType, Busy
<1>8. /\ WithKey(r).pc = "append" /\ WithKey(r).seen = act[r].seen
      /\ WithKey(r).dev.name = act[r].dev.name /\ WithKey(r).dev.key = MadeKey(r)
  BY <1>2 DEF WithKey, Device
<1>9. \/ /\ act' = [act EXCEPT ![r].pc = "append", ![r].dev.key = MadeKey(r)]
         /\ configs' = MadeEntry(r)
      \/ /\ act' = [act EXCEPT ![r] = Idle]
         /\ configs' \in {configs, MadeEntry(r)}
  BY DEF RouterAdd, MadeKey, MadeEntry
<1>10. [act EXCEPT ![r].pc = "append", ![r].dev.key = MadeKey(r)] = [act EXCEPT ![r] = WithKey(r)]
  BY <1>1, <1>2 DEF WithKey, DeviceTypes
<1> QED
  BY <1>1, <1>3, <1>5, <1>7, <1>8, <1>9, <1>10, Zenon

\* Making the tunnel of a new device keeps Always.
LEMMA RouterAddAlways ==
    ASSUME Always, NEW r \in Requests, RouterAdd(r)
    PROVE  Always' /\ Known' \subseteq Known
<1>1. /\ UNCHANGED <<boot, todo, flow, devices, files, acked, noise, boots>>
      /\ At(r, "router") /\ r \in Actors /\ r # Main /\ "router" \in Busy
  BY RouterAddCases DEF Busy
<1>2. /\ Serving /\ DeviceTypes
      /\ act[r].pc = "router" /\ act[r].dev.name \in Posts[r]
      /\ boots \in Nat
  BY <1>1, AtMeans
<1>3. CASE act' = [act EXCEPT ![r] = WithKey(r)] /\ configs' = MadeEntry(r)
  <2>1. \A b \in Actors : act'[b] = IF b = r THEN WithKey(r) ELSE act[b]
    BY <1>1, <1>2, <1>3 DEF DeviceTypes
  <2>2. WithKey(r).seen = act[r].seen
    BY RouterAddCases
  <2>3. Known' \subseteq Known
    BY <1>1, <2>1, <2>2, KnownShrinks
  <2>4. \A e \in Known' : e.name \in flow'
    BY <1>1, <2>3 DEF Always, InFlow
  <2>5. /\ WithKey(r) \in ActType /\ WithKey(r).pc = "append"
        /\ WithKey(r).dev.name = act[r].dev.name /\ WithKey(r).dev.key.boot = boots
        /\ WithKey(r).dev.key # NoKey
        /\ configs' \in [Names -> Config \cup {Absent}]
    BY <1>3, RouterAddCases
  <2>6. act[r].dev.name \in flow'
    BY <1>1, <1>2 DEF Always, InFlow, Entered
  <2>7. /\ WithKey(r).dev.name \in flow' /\ WithKey(r).dev.name \in Posts[r]
        /\ WithKey(r).dev.key.boot <= boots /\ WithKey(r).dev.key # NoKey
    BY <1>2, <2>5, <2>6
  <2>8. Always'
    BY <1>1, <1>2, <1>3, <2>4, <2>5, <2>7, KeptTypes, StepAlways
  <2> QED
    BY <2>3, <2>8
<1>4. CASE act' = [act EXCEPT ![r] = Idle] /\ configs' \in {configs, MadeEntry(r)}
  <2>1. configs' \in [Names -> Config \cup {Absent}]
    BY <1>4, RouterAddCases, KeptTypes
  <2> QED
    BY <1>1, <1>2, <1>4, <2>1, KeptTypes, IdleAlways
<1> QED
  BY <1>3, <1>4, RouterAddCases

\* Restoring the tunnel of a device read from its file keeps Always.
LEMMA RestoreDeviceAlways ==
    ASSUME Always, RestoreDevice
    PROVE  Always' /\ Known' \subseteq Known
<1>1. /\ At(Main, "router") /\ Main \in Actors /\ "router" \in Busy
      /\ UNCHANGED <<files, acked, noise, boots>>
  BY DEF RestoreDevice, Actors, Busy
<1>2. /\ Serving /\ TypeOK
      /\ act[Main].pc = "router" /\ act[Main].dev.key \in Key
  BY <1>1, AtMeans
<1>3. CASE Fails(Main)
  BY <1>1, <1>2, <1>3, KeptTypes, FailsAlways
<1>4. CASE /\ Goes(Main, "append")
           /\ configs' = [configs EXCEPT ![act[Main].dev.name] =
                             translateToDeviceConfig("server", act[Main].dev.key)]
           /\ UNCHANGED <<boot, todo, flow, devices>>
  <2>1. translateToDeviceConfig("server", act[Main].dev.key) \in Config
    BY <1>2 DEF translateToDeviceConfig, Config
  <2>2. configs' \in [Names -> Config \cup {Absent}]
    BY <1>2, <1>4, <2>1 DEF TypeOK
  <2>3. "append" \in Busy /\ "append" \notin Listed /\ act[Main].dev.name \in flow
    BY <1>1, <1>2 DEF Busy, Listed, Always, InFlow, Entered
  <2> QED
    BY <1>1, <1>2, <1>4, <2>2, <2>3, KeptTypes, GoesAlways
<1> QED
  BY <1>3, <1>4 DEF RestoreDevice

\* The goroutine with its copy of the list.
WithCopy(a) == [act[a] EXCEPT !.pc = "store", !.seen = devices]

\* What reading game.Devices for append changes: the copy the goroutine holds.
LEMMA AppendReadCases ==
    ASSUME Always, NEW a \in Actors, AppendRead(a)
    PROVE  /\ UNCHANGED <<boot, todo, flow, devices, configs, files, acked, noise, boots>>
           /\ At(a, "append") /\ act' = [act EXCEPT ![a] = WithCopy(a)]
           /\ WithCopy(a) \in ActType /\ WithCopy(a).pc = "store"
           /\ WithCopy(a).seen = devices /\ WithCopy(a).dev = act[a].dev
           /\ \A b \in Actors : act'[b] = IF b = a THEN WithCopy(a) ELSE act[b]
<1>1. /\ At(a, "append") /\ "append" \in Busy
      /\ UNCHANGED <<boot, todo, flow, devices, configs, files, acked, noise, boots>>
  BY DEF AppendRead, Busy
<1>2. /\ act[a] \in [pc : Busy, dev : Device, seen : Seq(Device)] /\ DeviceTypes /\ TypeOK
  BY <1>1, AtMeans
<1>3. act' = [act EXCEPT ![a] = WithCopy(a)]
  BY <1>2 DEF AppendRead, WithCopy, DeviceTypes
<1>4. /\ WithCopy(a) \in ActType /\ WithCopy(a).pc = "store"
      /\ WithCopy(a).seen = devices /\ WithCopy(a).dev = act[a].dev
  BY <1>2 DEF WithCopy, ActType, TypeOK, Busy
<1>5. \A b \in Actors : act'[b] = IF b = a THEN WithCopy(a) ELSE act[b]
  BY <1>2, <1>3 DEF DeviceTypes
<1> QED
  BY <1>1, <1>3, <1>4, <1>5

\* Reading game.Devices for append keeps Always.
LEMMA AppendReadAlways ==
    ASSUME Always, NEW a \in Actors, AppendRead(a)
    PROVE  Always' /\ Known' \subseteq Known
<1>1. /\ UNCHANGED <<boot, todo, flow, devices, configs, files, acked, noise, boots>>
      /\ At(a, "append") /\ act' = [act EXCEPT ![a] = WithCopy(a)] /\ "append" \in Busy
  BY AppendReadCases DEF Busy
<1>2. /\ Serving /\ act[a].pc = "append"
      /\ a = Main => boot = "loading"
      /\ a # Main => /\ act[a].dev.name \in Posts[a] /\ act[a].dev.key.boot <= boots
                     /\ act[a].dev.key # NoKey
  BY <1>1, AtMeans DEF Routed
<1>3. Known' \subseteq Known
  <2>1. \A b \in Actors : act'[b].seen \in {act[b].seen, devices, <<>>}
    BY AppendReadCases
  <2> QED
    BY <1>1, <2>1, KnownShrinks
<1>4. \A e \in Known' : e.name \in flow'
  BY <1>1, <1>3 DEF Always, InFlow
<1>5. WithCopy(a) \in ActType /\ WithCopy(a).pc = "store" /\ WithCopy(a).dev = act[a].dev
      /\ "store" \notin Listed
  BY AppendReadCases DEF Listed
<1>6. act[a].dev.name \in flow'
  BY <1>1, <1>2 DEF Always, InFlow, Entered
<1>7. Always'
  BY <1>1, <1>2, <1>4, <1>5, <1>6, KeptTypes, StepAlways
<1> QED
  BY <1>3, <1>7

\* The goroutine after it stored its list.
Stored(a) == IF a = Main THEN Idle ELSE [act[a] EXCEPT !.pc = "create"]

\* What storing the grown slice in game.Devices changes, besides the slice.
LEMMA AppendWriteCases ==
    ASSUME Always, NEW a \in Actors, AppendWrite(a)
    PROVE  /\ UNCHANGED <<boot, todo, flow, configs, files, acked, noise, boots>>
           /\ At(a, "store") /\ act' = [act EXCEPT ![a] = Stored(a)]
           /\ Stored(a) \in ActType
           /\ a # Main => Stored(a).pc = "create" /\ Stored(a).dev = act[a].dev
           /\ \A b \in Actors : act'[b] = IF b = a THEN Stored(a) ELSE act[b]
           /\ devices' = Append(act[a].seen, act[a].dev) /\ devices' \in Seq(Device)
           /\ Known' \subseteq Known \cup {act[a].dev}
<1>1. /\ At(a, "store") /\ "store" \in Busy /\ "create" \in Busy
      /\ UNCHANGED <<boot, todo, flow, configs, files, acked, noise, boots>>
      /\ devices' = Append(act[a].seen, act[a].dev)
  BY DEF AppendWrite, Busy
<1>2. /\ act[a] \in [pc : Busy, dev : Device, seen : Seq(Device)] /\ DeviceTypes
      /\ act[a].pc = "store"
  BY <1>1, AtMeans
<1>3. act' = [act EXCEPT ![a] = Stored(a)]
  BY <1>2 DEF AppendWrite, Stored, Goes, DeviceTypes
<1>4. /\ Stored(a) \in ActType
      /\ a # Main => /\ Stored(a).pc = "create" /\ Stored(a).dev = act[a].dev
                     /\ Stored(a).seen = act[a].seen
      /\ a = Main => Stored(a).seen = <<>>
  BY <1>1, <1>2 DEF Stored, ActType, Idle
<1>5. \A b \in Actors : act'[b] = IF b = a THEN Stored(a) ELSE act[b]
  BY <1>2, <1>3 DEF DeviceTypes
<1>6. \A b \in Actors : act'[b].seen \in {act[b].seen, <<>>}
  BY <1>4, <1>5
<1>7. devices' \in Seq(Device) /\ Known' \subseteq Known \cup {act[a].dev}
  BY <1>1, <1>2, <1>6, KnownGrows
<1> QED
  BY <1>1, <1>3, <1>4, <1>5, <1>7

\* Storing the grown slice keeps Always.
LEMMA AppendWriteAlways ==
    ASSUME Always, NEW a \in Actors, AppendWrite(a)
    PROVE  Always'
<1>1. /\ UNCHANGED <<boot, todo, flow, configs, files, acked, noise, boots>>
      /\ At(a, "store") /\ act' = [act EXCEPT ![a] = Stored(a)] /\ "store" \in Busy
      /\ Stored(a) \in ActType /\ devices' \in Seq(Device)
      /\ a # Main => Stored(a).pc = "create" /\ Stored(a).dev = act[a].dev
  BY AppendWriteCases DEF Busy
<1>2. /\ Serving /\ act[a].pc = "store"
      /\ a # Main => /\ act[a].dev.name \in Posts[a] /\ act[a].dev.key.boot <= boots
                     /\ act[a].dev.key # NoKey
  BY <1>1, AtMeans DEF Routed
<1>3. act[a].dev.name \in flow'
  BY <1>1, <1>2 DEF Always, InFlow, Entered
<1>4. \A e \in Known' : e.name \in flow'
  BY <1>1, <1>3, AppendWriteCases DEF Always, InFlow
<1>5. a = Main => Stored(a) = Idle /\ Stored(a).pc = "idle"
  BY DEF Stored, Idle
<1>6. "idle" \notin Listed /\ "idle" \notin Entered
  BY DEF Listed, Entered
<1> QED
  BY <1>1, <1>2, <1>3, <1>4, <1>5, <1>6, KeptTypes, StepAlways

\* os.Create, which empties the file of the device, keeps Always.
LEMMA CreateFileAlways ==
    ASSUME Always, NEW r \in Requests, CreateFile(r)
    PROVE  Always' /\ Known' \subseteq Known
<1>1. /\ At(r, "create") /\ "create" \in Busy /\ "encode" \in Busy /\ UNCHANGED <<acked, boots>>
      /\ r \in Actors /\ r # Main
  BY DevicesAssumption DEF CreateFile, Busy, Actors
<1>2. /\ Serving /\ TypeOK /\ act[r].pc = "create"
  BY <1>1, AtMeans
<1>3. CASE Fails(r) /\ NoteFullDisk /\ UNCHANGED files
  <2>1. noise' \in {"none", "muddle", "early"}
    BY <1>3 DEF NoteFullDisk
  <2> QED
    BY <1>1, <1>2, <1>3, <2>1, FailsAlways
<1>4. CASE /\ files' = [files EXCEPT ![act[r].dev.name] = Empty]
           /\ Goes(r, "encode")
           /\ UNCHANGED <<boot, todo, flow, devices, configs, noise>>
  <2>1. files' \in [Names -> Saved \cup {Absent, Empty}]
    BY <1>2, <1>4 DEF TypeOK
  <2>2. \A n \in Names : files[n] # Absent => files'[n] # Absent
    BY <1>2, <1>4, DevicesAssumption DEF TypeOK
  <2>3. act[r].dev.name \in flow' /\ act[r].pc \in Routed
    BY <1>1, <1>2, <1>4 DEF Always, InFlow, Entered, Routed
  <2> QED
    BY <1>1, <1>2, <1>4, <2>1, <2>2, <2>3, KeptTypes, GoesAlways
<1> QED
  BY <1>3, <1>4 DEF CreateFile

\* What a request writes into its device's file.
Written(r) == [id |-> act[r].dev.id, key |-> act[r].dev.key]

\* Writing the device into its file keeps Always.
LEMMA EncodeFileAlways ==
    ASSUME Always, NEW r \in Requests, EncodeFile(r)
    PROVE  Always' /\ Known' \subseteq Known
<1>1. /\ At(r, "encode") /\ "encode" \in Busy /\ UNCHANGED boots /\ r \in Actors /\ r # Main
  BY DevicesAssumption DEF EncodeFile, Busy, Actors
<1>2. /\ Serving /\ TypeOK /\ act[r].dev \in Device /\ act[r].pc = "encode"
      /\ act[r].dev.key # NoKey
  BY <1>1, AtMeans DEF Routed
<1>3. CASE Fails(r) /\ NoteFullDisk /\ UNCHANGED <<files, acked>>
  <2>1. noise' \in {"none", "muddle", "early"}
    BY <1>3 DEF NoteFullDisk
  <2> QED
    BY <1>1, <1>2, <1>3, <2>1, FailsAlways
<1>4. CASE /\ files' = [files EXCEPT ![act[r].dev.name] = Written(r)]
           /\ acked' = acked \cup {act[r].dev}
           /\ act' = [act EXCEPT ![r] = Idle]
           /\ UNCHANGED <<boot, todo, flow, devices, configs, noise>>
  <2>1. Written(r) \in Saved /\ Written(r) # Absent
    BY <1>2, DevicesAssumption DEF Written, Saved, Device
  <2>2. /\ files' \in [Names -> Saved \cup {Absent, Empty}]
        /\ \A n \in Names : files[n] # Absent => files'[n] # Absent
    BY <1>2, <1>4, <2>1 DEF TypeOK
  <2>3. acked' \subseteq Finished
    BY <1>2, <1>4 DEF TypeOK, Finished
  <2> QED
    BY <1>1, <1>2, <1>4, <2>2, <2>3, KeptTypes, IdleAlways
<1> QED
  BY <1>3, <1>4 DEF EncodeFile, Written

\* Every step keeps the first part.
LEMMA NextAlways == Always /\ [Next]_vars => Always'
<1> SUFFICES ASSUME Always, [Next]_vars  PROVE  Always'
  OBVIOUS
<1>1. CASE Boot
  BY <1>1, BootAlways
<1>2. CASE LoadFile
  BY <1>2, LoadFileAlways
<1>3. CASE RestoreDevice
  BY <1>3, RestoreDeviceAlways
<1>4. CASE AllLoaded
  BY <1>4, AllLoadedAlways
<1>5. CASE Crash
  BY <1>5, DiesAlways DEF Crash
<1>6. ASSUME NEW a \in Actors, FlowLookup(a)  PROVE  Always'
  BY <1>6, FlowLookupAlways
<1>7. ASSUME NEW a \in Actors, FlowInsert(a)  PROVE  Always'
  BY <1>7, FlowInsertAlways
<1>8. ASSUME NEW a \in Actors, AppendRead(a)  PROVE  Always'
  BY <1>8, AppendReadAlways
<1>9. ASSUME NEW a \in Actors, AppendWrite(a)  PROVE  Always'
  BY <1>9, AppendWriteAlways
<1>10. ASSUME NEW r \in Requests, createDevice(r)  PROVE  Always'
  BY <1>10, createDeviceAlways
<1>11. ASSUME NEW r \in Requests, RouterAdd(r)  PROVE  Always'
  BY <1>11, RouterAddAlways
<1>12. ASSUME NEW r \in Requests, CreateFile(r)  PROVE  Always'
  BY <1>12, CreateFileAlways
<1>13. ASSUME NEW r \in Requests, EncodeFile(r)  PROVE  Always'
  BY <1>13, EncodeFileAlways
<1>14. CASE UNCHANGED vars
  <2>1. Known' = Known
    BY <1>14 DEF vars, Known
  <2> QED
    BY <1>14, <2>1 DEF vars, Always, DeviceTypes, TypeOK, DownIsEmpty, MainPlace,
       TodoHasFiles, InFlow, OwnNames
<1>15. CASE ReadDir
  BY <1>15, ReadDirAlways
<1> QED
  BY <1>1, <1>2, <1>3, <1>4, <1>5, <1>6, <1>7, <1>8, <1>9, <1>10, <1>11, <1>12, <1>13, <1>14,
     <1>15
  DEF Next

\* The variables keep their types, whatever fails and whenever the process dies: a
\* device always has a number, which game.devices' length gave it, a file is absent, empty or
\* whole, and no request is answered before its device has keys.
THEOREM TypeCorrect == Spec => []TypeOK
<1>1. Always => TypeOK
  BY DEF Always, DeviceTypes
<1> QED
  BY <1>1, InitAlways, NextAlways, PTL DEF Spec

-----------------------------------------------------------------------------
(* The second part *)

\* Requests that run at the same time post different names.
PostsApart == \A q, r \in Requests : q # r => Posts[q] \cap Posts[r] = {}

\* Only the goroutine of Run is busy while the devices are loaded, and only requests are
\* busy afterwards.
LEMMA WhoIsBusy ==
    ASSUME Always, Unhurried, NEW a \in Actors, act[a].pc # "idle"
    PROVE  /\ a = Main => boot = "loading"
           /\ a # Main => boot = "ready" /\ act[Main] = Idle /\ a \in Requests
<1>1. DeviceTypes /\ TypeOK /\ act[a] # Idle
  BY IdleOrBusy DEF Always, DeviceTypes
<1>2. Serving
  BY <1>1 DEF Always, DownIsEmpty, TypeOK, Serving
<1>3. a = Main => boot \notin {"starting", "ready"}
  BY <1>1 DEF Always, MainPlace
<1>4. a # Main => a \in Requests /\ boot \notin {"starting", "loading"}
  BY <1>1 DEF Unhurried, Actors
<1> QED
  BY <1>2, <1>3, <1>4 DEF Always, MainPlace, Serving

\* A goroutine that is busy finds the directory listed.
LEMMA CalmAt ==
    ASSUME Always, WhenCalm, NEW a \in Actors, NEW w \in Busy, At(a, w)
    PROVE  boot \in {"loading", "ready"}
<1>1. act[a].pc # "idle"
  BY DEF At, Busy
<1> QED
  BY <1>1, WhoIsBusy DEF WhenCalm

\* Two goroutines never work on the same name.
LEMMA WorkApart ==
    ASSUME PostsApart, Always, Unhurried, NEW a \in Actors, NEW b \in Actors, a # b,
           act[a].pc # "idle", act[b].pc # "idle"
    PROVE  act[a].dev.name # act[b].dev.name
<1>1. a # Main /\ b # Main
  BY WhoIsBusy
<1>2. /\ a \in Requests /\ act[a].dev.name \in Posts[a]
      /\ b \in Requests /\ act[b].dev.name \in Posts[b]
  BY <1>1, WhoIsBusy DEF Always, OwnNames
<1> QED
  BY <1>2 DEF PostsApart

\* A step of one goroutine that leaves the files alone.
LEMMA QuietCalm ==
    ASSUME PostsApart, Always, WhenCalm, boot \in {"loading", "ready"},
           UNCHANGED <<boot, boots, todo, files, acked>>,
           NEW a \in Actors, NEW x,
           \A b \in Actors : act'[b] = IF b = a THEN x ELSE act[b],
           flow \subseteq flow',
           boot = "loading" => a = Main,
           a = Main /\ act[a].pc \in {"lookup", "insert"} =>
               \/ x.pc \in {"lookup", "insert"} /\ x.dev = act[a].dev
               \/ act[a].dev.name \in flow',
           a = Main => x.pc = "idle" \/ (x.dev = act[a].dev /\ act[a].pc # "idle"),
           \A e \in Known' : e \in Known \/ (e = act[a].dev /\ act[a].pc = "store"),
           x.pc \in Entered \cup {"insert"} =>
               /\ a # Main => \A d \in acked : d.name # x.dev.name
               /\ \A e \in Known' : e.name = x.dev.name => e = x.dev /\ x.pc \in Listed,
           \A n \in Names :
               configs'[n] = configs[n] \/ (act[a].pc = "router" /\ n = act[a].dev.name),
           x.pc \in Routed => Fits(x.dev)',
           a = Main => x.pc \notin Listed
    PROVE  WhenCalm'
<1>1. /\ DeviceTypes /\ TypeOK /\ Main \in Actors /\ Requests \subseteq Actors
      /\ Main \notin Requests
  BY DevicesAssumption DEF Always, DeviceTypes, Actors
<1>2. /\ Unhurried /\ KeptInFile /\ AckedFound /\ NameIsFree /\ MainLoads
      /\ KnownIsAcked /\ KeysOfFiles /\ MapFits
  BY DEF WhenCalm
<1>3. /\ "idle" \notin Entered /\ "idle" \notin Routed /\ "store" \in Routed
      /\ "store" \in Entered /\ "store" \notin Listed /\ "router" \in Entered
      /\ "router" \notin Listed /\ Routed \subseteq Entered
  BY DEF Entered, Routed, Listed
<1>4. a # Main => boot = "ready" /\ act[Main] = Idle
  BY DEF Always, MainPlace
<1>5. Idle.pc = "idle"
  BY DEF Idle
<1>6. Known' \subseteq Device /\ Known \subseteq Device
  <2>1. Known \subseteq Device
    BY <1>1, KnownType
  <2>2. act[a].pc = "store" => act[a].dev \in Device
    BY <1>1, IdleOrBusy
  <2> QED
    BY <2>1, <2>2
<1>7. Unhurried'
  BY <1>1, <1>2 DEF Unhurried
<1>8. KeptInFile' /\ KeysOfFiles'
  BY <1>2 DEF KeptInFile, KeysOfFiles
<1>9. AckedFound'
  <2> SUFFICES ASSUME NEW d \in acked
               PROVE  \/ d.name \in todo \cup flow'
                      \/ act'[Main].pc \in {"lookup", "insert"} /\ act'[Main].dev.name = d.name
    BY DEF AckedFound
  <2>1. \/ d.name \in todo \cup flow
        \/ act[Main].pc \in {"lookup", "insert"} /\ act[Main].dev.name = d.name
    BY <1>2 DEF AckedFound
  <2> QED
    BY <1>1, <2>1
<1>10. NameIsFree'
  <2> SUFFICES ASSUME NEW r \in Requests, act'[r].pc \in Entered \cup {"insert"}
               PROVE  /\ \A d \in acked : d.name # act'[r].dev.name
                      /\ \A e \in Known' : e.name = act'[r].dev.name =>
                              e = act'[r].dev /\ act'[r].pc \in Listed
    BY DEF NameIsFree
  <2>1. CASE r = a
    BY <1>1, <2>1
  <2>2. CASE r # a
    <3>1. act'[r] = act[r] /\ act[r].pc # "idle"
      BY <1>1, <1>3, <2>2
    <3>2. \A d \in acked : d.name # act'[r].dev.name
      BY <1>2, <3>1 DEF NameIsFree
    <3>3. ASSUME NEW e \in Known', e.name = act'[r].dev.name
          PROVE  e = act'[r].dev /\ act'[r].pc \in Listed
      <4>1. CASE e \in Known
        BY <1>2, <3>1, <3>3, <4>1 DEF NameIsFree
      <4>2. CASE e = act[a].dev /\ act[a].pc = "store"
        BY <1>1, <1>2, <2>2, <3>1, <3>3, <4>2, WorkApart
      <4> QED
        BY <4>1, <4>2
    <3> QED
      BY <3>2, <3>3
  <2> QED
    BY <2>1, <2>2
<1>11. MainLoads'
  <2>1. CASE a = Main
    <3>1. act'[Main] = x
      BY <1>1, <2>1
    <3>2. CASE x.pc = "idle"
      BY <1>3, <3>1, <3>2 DEF MainLoads
    <3>3. CASE x.pc # "idle" /\ x.dev = act[Main].dev /\ act[Main].pc # "idle"
      BY <1>2, <2>1, <3>1, <3>3 DEF MainLoads
    <3> QED
      BY <2>1, <3>2, <3>3
  <2>2. CASE a # Main
    <3>1. act'[Main].pc = "idle"
      BY <1>1, <1>4, <1>5, <2>2
    <3> QED
      BY <1>3, <3>1 DEF MainLoads
  <2> QED
    BY <2>1, <2>2
<1>12. ASSUME act[a].pc = "store", NEW d \in acked, d.name = act[a].dev.name
       PROVE  d = act[a].dev
  <2>1. CASE a = Main
    BY <1>2, <1>12, <2>1 DEF MainLoads
  <2>2. CASE a # Main
    <3>1. a \in Requests
      BY <2>2 DEF Actors
    <3> QED
      BY <1>2, <1>3, <1>12, <3>1 DEF NameIsFree
  <2> QED
    BY <2>1, <2>2
<1>13. KnownIsAcked'
  <2> SUFFICES ASSUME NEW d \in acked, NEW e \in Known', e.name = d.name  PROVE  e = d
    BY DEF KnownIsAcked
  <2>1. CASE e \in Known
    BY <1>2, <2>1 DEF KnownIsAcked
  <2>2. CASE e = act[a].dev /\ act[a].pc = "store"
    BY <1>12, <2>2
  <2> QED
    BY <2>1, <2>2
<1>14. ASSUME NEW d, d.name \in Names, Fits(d),
              act[a].pc = "router" => d.name # act[a].dev.name
       PROVE  Fits(d)'
  BY <1>14 DEF Fits
<1>15. MapFits'
  <2>1. ASSUME NEW e \in Known'  PROVE  Fits(e)'
    <3>1. e.name \in Names
      BY <1>6 DEF Device
    <3>2. CASE e \in Known
      <4>1. Fits(e)
        BY <1>2, <3>2 DEF MapFits
      <4>2. act[a].pc = "router" => e.name # act[a].dev.name
        BY <1>2, <1>3, <3>2 DEF NameIsFree, MainLoads, Actors
      <4> QED
        BY <1>14, <3>1, <4>1, <4>2
    <3>3. CASE e = act[a].dev /\ act[a].pc = "store"
      <4>1. Fits(e)
        BY <1>2, <1>3, <3>3 DEF MapFits
      <4> QED
        BY <1>14, <3>1, <3>3, <4>1
    <3> QED
      BY <3>2, <3>3
  <2>2. ASSUME NEW b \in Actors, act'[b].pc \in Routed  PROVE  Fits(act[b].dev)'
    <3>1. PICK f : f = act'[b].dev
      OBVIOUS
    <3>2. CASE b = a
      BY <2>2, <3>2
    <3>3. CASE b # a
      <4>1. act'[b] = act[b] /\ act[b].pc \in Routed /\ act[b].pc # "idle"
        BY <1>3, <2>2, <3>3
      <4>2. act[b].dev.name \in Names /\ Fits(act[b].dev)
        BY <1>1, <1>2, <4>1, IdleOrBusy DEF MapFits, Device
      <4>3. act[a].pc = "router" => act[b].dev.name # act[a].dev.name
        BY <1>2, <3>3, <4>1, WorkApart
      <4>4. Fits(f) /\ f.name \in Names /\ (act[a].pc = "router" => f.name # act[a].dev.name)
        BY <3>1, <4>1, <4>2, <4>3
      <4>5. Fits(f)'
        BY <1>14, <4>4
      <4> QED
        BY <3>1, <4>5 DEF Fits
    <3> QED
      BY <3>2, <3>3
  <2> QED
    BY <2>1, <2>2 DEF MapFits
<1> QED
  BY <1>7, <1>8, <1>9, <1>10, <1>11, <1>13, <1>15 DEF WhenCalm

\* With nobody busy and nothing listed, the files are all there is to see to.
LEMMA EmptyCalm ==
    ASSUME Known' = {}, \A a \in Actors : act'[a] = Idle, KeptInFile', AckedFound', KeysOfFiles'
    PROVE  WhenCalm'
<1>1. Idle.pc = "idle" /\ "idle" \notin Entered /\ "idle" \notin Routed
  BY DEF Idle, Entered, Routed
<1>2. Main \in Actors /\ Requests \subseteq Actors
  BY DEF Actors
<1>3. Unhurried' /\ NameIsFree' /\ MainLoads' /\ KnownIsAcked' /\ MapFits'
  BY <1>1, <1>2 DEF Unhurried, NameIsFree, MainLoads, KnownIsAcked, MapFits
<1> QED
  BY <1>3 DEF WhenCalm

\* Before the first boot the calm part of the invariant holds.
LEMMA InitCalm == Init => WhenCalm
<1> SUFFICES ASSUME Init  PROVE  WhenCalm
  OBVIOUS
<1>1. Idle.pc = "idle" /\ "idle" \notin Entered /\ "idle" \notin Routed
  BY DEF Idle, Entered, Routed
<1>2. Main \in Actors /\ Requests \subseteq Actors /\ Known = {}
  BY InitAlways DEF Actors
<1>3. \A a \in Actors : act[a] = Idle
  BY DEF Init
<1>4. Unhurried /\ NameIsFree /\ MainLoads /\ KnownIsAcked /\ MapFits
  BY <1>1, <1>2, <1>3 DEF Unhurried, NameIsFree, MainLoads, KnownIsAcked, MapFits
<1>5. KeptInFile /\ AckedFound /\ KeysOfFiles
  BY DEF Init, KeptInFile, AckedFound, KeysOfFiles
<1> QED
  BY <1>4, <1>5 DEF WhenCalm

\* A server that goes down or fails keeps the calm part.
LEMMA DiesCalm ==
    ASSUME Always, WhenCalm, NEW how \in {"down", "failed"}, Dies(how),
           UNCHANGED <<files, acked, noise, boots>>
    PROVE  WhenCalm'
<1>1. Known' = {}
  BY DiesAlways
<1>2. \A a \in Actors : act'[a] = Idle
  BY DEF Dies
<1>3. KeptInFile' /\ AckedFound' /\ KeysOfFiles'
  BY DEF WhenCalm, KeptInFile, AckedFound, KeysOfFiles, Dies
<1> QED
  BY <1>1, <1>2, <1>3, EmptyCalm

\* A boot keeps the calm part.
LEMMA BootCalm ==
    ASSUME Always, WhenCalm, Boot
    PROVE  WhenCalm'
<1>1. /\ boot \in {"down", "failed"} /\ boot' = "starting" /\ boots' = boots + 1
      /\ UNCHANGED <<todo, flow, devices, configs, files, act, acked, noise>>
  BY DEF Boot
<1>2. Known' = {} /\ TypeOK
  BY BootAlways DEF Always, DeviceTypes
<1>3. \A a \in Actors : act'[a] = Idle
  BY <1>1 DEF Always, DownIsEmpty
<1>4. KeptInFile' /\ AckedFound'
  BY <1>1 DEF WhenCalm, KeptInFile, AckedFound
<1>5. KeysOfFiles'
  <2>1. ASSUME NEW n \in Names, files[n] \notin {Absent, Empty}
        PROVE  files[n].key.boot \in Nat
    BY <1>2, <2>1 DEF TypeOK, Saved, Key
  <2>2. boots \in Nat
    BY <1>2, DevicesAssumption DEF TypeOK
  <2> QED
    BY <1>1, <2>1, <2>2 DEF WhenCalm, KeysOfFiles
<1> QED
  BY <1>2, <1>3, <1>4, <1>5, EmptyCalm

\* Every acknowledged device has a file, so it is in the listing of the directory.
LEMMA ReadDirCalm ==
    ASSUME Always, WhenCalm, ReadDir
    PROVE  WhenCalm'
<1>1. /\ boot = "starting" /\ boot' = "loading"
      /\ todo' = {n \in Names : files[n] # Absent}
      /\ UNCHANGED <<flow, devices, configs, files, act, acked, noise, boots>>
  BY DEF ReadDir
<1>2. Known' = Known /\ TypeOK
  BY ReadDirAlways DEF Always, DeviceTypes
<1>3. Unhurried' /\ KeptInFile' /\ NameIsFree' /\ MainLoads' /\ KnownIsAcked' /\ KeysOfFiles'
  BY <1>1, <1>2
  DEF WhenCalm, Unhurried, KeptInFile, NameIsFree, MainLoads, KnownIsAcked, KeysOfFiles
<1>4. AckedFound'
  <2>1. ASSUME NEW d \in acked  PROVE  d.name \in todo'
    <3>1. d \in Device /\ files[d.name] = [id |-> d.id, key |-> d.key]
      BY <1>2 DEF TypeOK, Finished, WhenCalm, KeptInFile
    <3>2. d.name \in Names /\ files[d.name] \in Saved
      BY <3>1 DEF Device, Saved
    <3> QED
      BY <1>1, <3>2, DevicesAssumption
  <2> QED
    BY <1>1, <2>1 DEF AckedFound
<1>5. MapFits'
  BY <1>1, <1>2 DEF WhenCalm, MapFits, Fits
<1> QED
  BY <1>3, <1>4, <1>5 DEF WhenCalm

\* The end of the loading keeps the calm part.
LEMMA AllLoadedCalm ==
    ASSUME Always, WhenCalm, AllLoaded
    PROVE  WhenCalm'
<1>1. /\ boot = "loading" /\ todo = {} /\ act[Main].pc = "idle" /\ boot' = "ready"
      /\ UNCHANGED <<todo, flow, devices, configs, files, act, acked, noise, boots>>
  BY DEF AllLoaded
<1>2. Known' = Known
  BY AllLoadedAlways
<1>3. Unhurried' /\ KeptInFile' /\ NameIsFree' /\ MainLoads' /\ KnownIsAcked'
  BY <1>1, <1>2 DEF WhenCalm, Unhurried, KeptInFile, NameIsFree, MainLoads, KnownIsAcked
<1>4. AckedFound' /\ KeysOfFiles'
  BY <1>1 DEF WhenCalm, AckedFound, KeysOfFiles
<1>5. MapFits'
  BY <1>1, <1>2 DEF WhenCalm, MapFits, Fits
<1> QED
  BY <1>3, <1>4, <1>5 DEF WhenCalm

\* A request that ends with an error.
LEMMA FailsCalm ==
    ASSUME PostsApart, Always, WhenCalm, boot \in {"loading", "ready"},
           NEW a \in Actors, act[a].pc # "idle", Fails(a),
           UNCHANGED <<files, acked, boots>>, a = Main => UNCHANGED noise,
           noise' \in {"none", "muddle", "early"}
    PROVE  WhenCalm'
<1>1. CASE a = Main
  BY <1>1, DiesCalm DEF Fails
<1>2. CASE a # Main
  <2>1. act' = [act EXCEPT ![a] = Idle] /\ UNCHANGED <<boot, todo, flow, devices, configs>>
    BY <1>2 DEF Fails
  <2>2. Known' \subseteq Known
    BY FailsAlways DEF Serving
  <2>3. \A b \in Actors : act'[b] = IF b = a THEN Idle ELSE act[b]
    BY <2>1 DEF Always, DeviceTypes
  <2>4. boot = "ready"
    BY <1>2, WhoIsBusy DEF WhenCalm
  <2>5. Idle.pc = "idle" /\ "idle" \notin Entered \cup {"insert"} /\ "idle" \notin Routed
    BY DEF Idle, Entered, Routed
  <2> QED
    BY <1>2, <2>1, <2>2, <2>3, <2>4, <2>5, QuietCalm
<1> QED
  BY <1>1, <1>2

\* createDevice, once the loading is over, keeps the calm part.
LEMMA createDeviceCalm ==
    ASSUME PostsApart, Always, WhenCalm, NEW r \in Requests, createDevice(r),
           boot \notin {"starting", "loading"}
    PROVE  WhenCalm'
<1>1. /\ boot = "ready" /\ r \in Actors /\ r # Main
      /\ UNCHANGED <<boot, todo, flow, devices, configs, files, acked, boots>>
  BY DevicesAssumption DEF createDevice, Serving, Actors
<1>2. PICK n \in Posts[r] : act' = [act EXCEPT ![r] = NewDevice(n)]
  BY CreatesNew
<1>3. Known' \subseteq Known
  BY createDeviceAlways
<1>4. \A b \in Actors : act'[b] = IF b = r THEN NewDevice(n) ELSE act[b]
  BY <1>1, <1>2 DEF Always, DeviceTypes
<1>5. NewDevice(n).pc = "lookup" /\ "lookup" \notin Entered \cup {"insert"} /\ "lookup" \notin Routed
  BY DEF NewDevice, Entered, Routed
<1> QED
  BY <1>1, <1>3, <1>4, <1>5, QuietCalm

\* A request that finds its name free has a name that no acknowledged device has, and
\* no listed one.
LEMMA FlowLookupCalm ==
    ASSUME PostsApart, Always, WhenCalm, NEW a \in Actors, FlowLookup(a)
    PROVE  WhenCalm'
<1>1. At(a, "lookup") /\ UNCHANGED <<files, acked, noise, boots>> /\ "lookup" \in Busy
      /\ "insert" \in Busy
  BY DEF FlowLookup, Busy
<1>2. boot \in {"loading", "ready"} /\ act[a].pc = "lookup" /\ DeviceTypes /\ TypeOK
  BY <1>1, AtMeans, CalmAt
<1>3. CASE Fails(a)
  BY <1>1, <1>2, <1>3, KeptTypes, FailsCalm
<1>4. CASE /\ act[a].dev.name \notin flow
           /\ Goes(a, "insert") /\ UNCHANGED <<boot, todo, flow, devices, configs>>
  <2> DEFINE x == [act[a] EXCEPT !.pc = "insert"]
  <2>1. Known' \subseteq Known
    BY FlowLookupAlways
  <2>2. Becomes(a, x) /\ x.pc = "insert" /\ x.dev = act[a].dev
    BY <1>1, <1>2, <1>4, GoesFits DEF Becomes
  <2>3. \A b \in Actors : act'[b] = IF b = a THEN x ELSE act[b]
    BY <2>2 DEF Becomes
  <2>4. boot = "loading" => a = Main
    BY <1>2, WhoIsBusy DEF WhenCalm
  <2>5. a # Main => \A d \in acked : d.name # act[a].dev.name
    <3> SUFFICES ASSUME a # Main, NEW d \in acked  PROVE  d.name \in flow
      BY <1>4
    <3>1. boot = "ready" /\ act[Main] = Idle /\ todo = {}
      BY <1>2, WhoIsBusy DEF WhenCalm, Always, MainPlace
    <3> QED
      BY <3>1 DEF WhenCalm, AckedFound, Idle
  <2>6. \A e \in Known' : e.name # act[a].dev.name
    BY <1>4, <2>1 DEF Always, InFlow
  <2>7. "insert" \notin Routed /\ "insert" \notin Listed
    BY DEF Routed, Listed
  <2> HIDE DEF x
  <2> QED
    BY <1>1, <1>2, <1>4, <2>1, <2>2, <2>3, <2>4, <2>5, <2>6, <2>7, QuietCalm
<1> QED
  BY <1>3, <1>4 DEF FlowLookup

\* Past the lookup, the name is the goroutine's own.
LEMMA PastLookup ==
    ASSUME Always, WhenCalm, NEW a \in Actors, act[a].pc \in Entered \cup {"insert"}
    PROVE  /\ a # Main => /\ a \in Requests /\ boot = "ready"
                          /\ \A d \in acked : d.name # act[a].dev.name
           /\ \A e \in Known : e.name = act[a].dev.name => e = act[a].dev /\ act[a].pc \in Listed
           /\ boot = "loading" => a = Main
           /\ a = Main => act[a].pc \notin Listed
           /\ act[a].pc # "idle"
<1>1. act[a].pc # "idle"
  BY DEF Entered
<1>2. a = Main => act[a].pc \notin Listed
  BY DEF Always, MainPlace
<1>3. \/ a = Main /\ boot = "loading"
      \/ a # Main /\ a \in Requests /\ boot = "ready"
  BY <1>1, WhoIsBusy DEF WhenCalm
<1> QED
  BY <1>1, <1>2, <1>3 DEF WhenCalm, NameIsFree, MainLoads

\* The device goes on unchanged, in the router's map if it is to be there.
LEMMA GoesCalm ==
    ASSUME PostsApart, Always, WhenCalm, boot \in {"loading", "ready"},
           UNCHANGED <<boot, boots, todo, files, acked>>,
           NEW a \in Actors, act[a].pc \in Entered \cup {"insert"}, NEW x,
           \A b \in Actors : act'[b] = IF b = a THEN x ELSE act[b],
           x.dev.name = act[a].dev.name, a = Main => x.dev = act[a].dev,
           x.pc \in {"router", "append", "store"}, act[a].pc \notin Listed,
           flow \subseteq flow', act[a].dev.name \in flow',
           Known' \subseteq Known,
           \A n \in Names :
               configs'[n] = configs[n] \/ (act[a].pc = "router" /\ n = act[a].dev.name),
           x.pc \in Routed => Fits(x.dev)'
    PROVE  WhenCalm'
<1>1. x.pc \notin Listed
  BY DEF Listed
<1>2. \A e \in Known' : e.name # act[a].dev.name
  BY PastLookup
<1>3. a # Main => \A d \in acked : d.name # x.dev.name
  BY PastLookup
<1>4. (boot = "loading" => a = Main) /\ act[a].pc # "idle"
  BY PastLookup
<1> QED
  BY <1>1, <1>2, <1>3, <1>4, QuietCalm

\* Entering the name in the flow router keeps the calm part.
LEMMA FlowInsertCalm ==
    ASSUME PostsApart, Always, WhenCalm, NEW a \in Actors, FlowInsert(a)
    PROVE  WhenCalm'
<1>1. /\ At(a, "insert") /\ flow' = flow \cup {act[a].dev.name} /\ Goes(a, "router")
      /\ UNCHANGED <<boot, todo, devices, configs, files, acked, noise, boots>>
      /\ "insert" \in Busy /\ "router" \in Busy /\ "insert" \notin Listed
      /\ "router" \notin Routed
  BY DEF FlowInsert, Busy, Routed, Listed
<1>2. boot \in {"loading", "ready"} /\ act[a].pc = "insert" /\ DeviceTypes
  BY <1>1, AtMeans, CalmAt
<1>3. Known' \subseteq Known
  BY FlowInsertAlways
<1> DEFINE x == [act[a] EXCEPT !.pc = "router"]
<1>4. Becomes(a, x) /\ x.pc = "router" /\ x.dev = act[a].dev
  BY <1>1, <1>2, GoesFits DEF Becomes
<1>5. \A b \in Actors : act'[b] = IF b = a THEN x ELSE act[b]
  BY <1>4 DEF Becomes
<1> HIDE DEF x
<1>6. x.dev.name = act[a].dev.name /\ act[a].dev.name \in flow' /\ flow \subseteq flow'
  BY <1>1, <1>4
<1> QED
  BY <1>1, <1>2, <1>3, <1>4, <1>5, <1>6, GoesCalm

\* Making the tunnel of a new device keeps the calm part.
LEMMA RouterAddCalm ==
    ASSUME PostsApart, Always, WhenCalm, NEW r \in Requests, RouterAdd(r)
    PROVE  WhenCalm'
<1>1. /\ UNCHANGED <<boot, todo, flow, devices, files, acked, noise, boots>>
      /\ At(r, "router") /\ r \in Actors /\ r # Main /\ "router" \in Busy
      /\ "router" \in Entered /\ "router" \notin Listed
  BY RouterAddCases DEF Busy, Entered, Listed
<1>2. boot \in {"loading", "ready"} /\ act[r].pc = "router" /\ DeviceTypes
      /\ act[r].dev.name \in Names
  BY <1>1, AtMeans, CalmAt
<1>3. Known' \subseteq Known
  BY RouterAddAlways
<1>4. \A n \in Names : configs'[n] = configs[n] \/ n = act[r].dev.name
  <2>1. \A n \in Names \ {act[r].dev.name} : MadeEntry(r)[n] = configs[n]
    BY RouterAddCases
  <2>2. configs' = configs \/ configs' = MadeEntry(r)
    BY RouterAddCases
  <2> QED
    BY <2>1, <2>2
<1>5. CASE act' = [act EXCEPT ![r] = WithKey(r)] /\ configs' = MadeEntry(r)
  <2>1. \A b \in Actors : act'[b] = IF b = r THEN WithKey(r) ELSE act[b]
    BY <1>1, <1>2, <1>5 DEF DeviceTypes
  <2>2. /\ WithKey(r).pc = "append"
        /\ WithKey(r).dev.name = act[r].dev.name /\ WithKey(r).dev.key = MadeKey(r)
        /\ configs'[act[r].dev.name] = [side |-> "device", key |-> MadeKey(r)]
        /\ configs'[act[r].dev.name] \in Config
    <3>1. MadeKey(r) \in Key /\ WithKey(r).pc = "append"
          /\ WithKey(r).dev.name = act[r].dev.name /\ WithKey(r).dev.key = MadeKey(r)
          /\ MadeEntry(r)[act[r].dev.name] = [side |-> "device", key |-> MadeKey(r)]
      BY RouterAddCases
    <3>2. [side |-> "device", key |-> MadeKey(r)] \in Config
      BY <3>1 DEF Config
    <3> QED
      BY <1>5, <3>1, <3>2
  <2>3. PICK d : d = WithKey(r).dev
    OBVIOUS
  <2>4. Fits(d)'
    BY <2>2, <2>3, DevicesAssumption DEF Fits
  <2>5. act[r].dev.name \in flow'
    BY <1>1, <1>2 DEF Always, InFlow
  <2> QED
    BY <1>1, <1>2, <1>3, <1>4, <2>1, <2>2, <2>3, <2>4, <2>5, GoesCalm
<1>6. CASE act' = [act EXCEPT ![r] = Idle]
  <2>1. \A b \in Actors : act'[b] = IF b = r THEN Idle ELSE act[b]
    BY <1>1, <1>2, <1>6 DEF DeviceTypes
  <2>2. Idle.pc = "idle" /\ "idle" \notin Entered \cup {"insert"} /\ "idle" \notin Routed
    BY DEF Idle, Entered, Routed
  <2>3. boot = "ready"
    BY <1>1, <1>2, WhoIsBusy DEF WhenCalm
  <2> QED
    BY <1>1, <1>2, <1>3, <1>4, <2>1, <2>2, <2>3, QuietCalm
<1> QED
  BY <1>5, <1>6, RouterAddCases

\* Restoring the tunnel of a device read from its file keeps the calm part.
LEMMA RestoreDeviceCalm ==
    ASSUME PostsApart, Always, WhenCalm, RestoreDevice
    PROVE  WhenCalm'
<1>1. /\ At(Main, "router") /\ Main \in Actors /\ "router" \in Busy /\ "append" \in Busy
      /\ UNCHANGED <<files, acked, noise, boots>> /\ "router" \in Entered
      /\ "router" \notin Listed
  BY DEF RestoreDevice, Actors, Busy, Entered, Listed
<1>2. /\ boot \in {"loading", "ready"} /\ TypeOK /\ DeviceTypes
      /\ act[Main].pc = "router" /\ act[Main].dev.key \in Key
      /\ act[Main].dev.name \in Names /\ boots \in Nat /\ act[Main].dev.key.boot \in Nat
  BY <1>1, AtMeans, CalmAt
<1>3. CASE Fails(Main)
  BY <1>1, <1>2, <1>3, KeptTypes, FailsCalm
<1>4. CASE /\ Goes(Main, "append")
           /\ configs' = [configs EXCEPT ![act[Main].dev.name] =
                             translateToDeviceConfig("server", act[Main].dev.key)]
           /\ UNCHANGED <<boot, todo, flow, devices>>
  <2> DEFINE x == [act[Main] EXCEPT !.pc = "append"]
             c == translateToDeviceConfig("server", act[Main].dev.key)
  <2>1. Known' \subseteq Known
    BY RestoreDeviceAlways
  <2>2. Becomes(Main, x) /\ x.pc = "append" /\ x.dev = act[Main].dev
    BY <1>1, <1>2, <1>4, GoesFits DEF Becomes
  <2>3. \A b \in Actors : act'[b] = IF b = Main THEN x ELSE act[b]
    BY <2>2 DEF Becomes
  <2>4. c \in Config /\ c.key = act[Main].dev.key
    BY <1>2 DEF translateToDeviceConfig, Config
  <2>5. /\ configs'[act[Main].dev.name] = c
        /\ \A n \in Names : configs'[n] = configs[n] \/ n = act[Main].dev.name
    BY <1>2, <1>4 DEF TypeOK
  <2>6. act[Main].dev.key.boot < boots
    BY <1>2 DEF WhenCalm, MainLoads
  <2>7. PICK d : d = x.dev
    OBVIOUS
  <2> HIDE DEF x, c
  <2>8. Fits(d)'
    BY <1>1, <1>2, <2>2, <2>4, <2>5, <2>6, <2>7, DevicesAssumption DEF Fits
  <2>9. act[Main].dev.name \in flow' /\ flow \subseteq flow' /\ x.dev.name = act[Main].dev.name
    BY <1>1, <1>2, <1>4, <2>2 DEF Always, InFlow
  <2> QED
    BY <1>1, <1>2, <1>4, <2>1, <2>2, <2>3, <2>5, <2>7, <2>8, <2>9, GoesCalm
<1> QED
  BY <1>3, <1>4 DEF RestoreDevice

\* Reading game.Devices for append keeps the calm part.
LEMMA AppendReadCalm ==
    ASSUME PostsApart, Always, WhenCalm, NEW a \in Actors, AppendRead(a)
    PROVE  WhenCalm'
<1>1. /\ UNCHANGED <<boot, todo, flow, devices, configs, files, acked, noise, boots>>
      /\ At(a, "append") /\ "append" \in Busy /\ "append" \in Entered /\ "append" \in Routed
      /\ "append" \notin Listed
      /\ WithCopy(a).pc = "store" /\ WithCopy(a).dev = act[a].dev
      /\ \A b \in Actors : act'[b] = IF b = a THEN WithCopy(a) ELSE act[b]
  BY AppendReadCases DEF Busy, Entered, Routed, Listed
<1>2. boot \in {"loading", "ready"} /\ act[a].pc = "append"
  BY <1>1, AtMeans, CalmAt
<1>3. Known' \subseteq Known
  BY AppendReadAlways
<1>4. PICK d : d = WithCopy(a).dev
  OBVIOUS
<1>5. Fits(d)'
  BY <1>1, <1>2, <1>4 DEF WhenCalm, MapFits, Fits
<1>6. /\ act[a].dev.name \in flow' /\ flow \subseteq flow'
      /\ WithCopy(a).dev.name = act[a].dev.name
  BY <1>1, <1>2 DEF Always, InFlow
<1> QED
  BY <1>1, <1>2, <1>3, <1>4, <1>5, <1>6, GoesCalm

\* The device is in the list: for a request it is the only one of its name.
LEMMA AppendWriteCalm ==
    ASSUME PostsApart, Always, WhenCalm, NEW a \in Actors, AppendWrite(a)
    PROVE  WhenCalm'
<1>1. /\ UNCHANGED <<boot, todo, flow, configs, files, acked, noise, boots>>
      /\ At(a, "store") /\ "store" \in Busy /\ "store" \in Entered /\ "store" \in Routed
      /\ "store" \notin Listed /\ "create" \in Listed
      /\ a # Main => Stored(a).pc = "create" /\ Stored(a).dev = act[a].dev
      /\ \A b \in Actors : act'[b] = IF b = a THEN Stored(a) ELSE act[b]
      /\ Known' \subseteq Known \cup {act[a].dev}
  BY AppendWriteCases DEF Busy, Entered, Routed, Listed
<1>2. boot \in {"loading", "ready"} /\ act[a].pc = "store"
  BY <1>1, AtMeans, CalmAt
<1>3. a = Main => Stored(a).pc = "idle"
  BY DEF Stored, Idle
<1>4. "idle" \notin Entered \cup {"insert"} /\ "idle" \notin Routed /\ "idle" \notin Listed
  BY DEF Entered, Routed, Listed
<1>5. PICK d : d = Stored(a).dev
  OBVIOUS
<1>6. a # Main => Fits(d)'
  BY <1>1, <1>2, <1>5 DEF WhenCalm, MapFits, Fits
<1>7. \A e \in Known' : e \in Known \/ (e = act[a].dev /\ act[a].pc = "store")
  BY <1>1, <1>2
<1>8. /\ boot = "loading" => a = Main
      /\ a # Main => \A f \in acked : f.name # act[a].dev.name
      /\ \A e \in Known : e.name # act[a].dev.name
  BY <1>1, <1>2, PastLookup
<1>9. a # Main => /\ \A f \in acked : f.name # Stored(a).dev.name
                  /\ \A e \in Known' : e.name = Stored(a).dev.name =>
                        e = Stored(a).dev /\ Stored(a).pc \in Listed
  BY <1>1, <1>7, <1>8
<1>10. flow \subseteq flow'
  BY <1>1
<1> QED
  BY <1>1, <1>2, <1>3, <1>4, <1>5, <1>6, <1>7, <1>8, <1>9, <1>10, QuietCalm

\* What Run takes from a file is the device that was acknowledged under that name.
LEMMA LoadFileCalm ==
    ASSUME PostsApart, Always, WhenCalm, LoadFile
    PROVE  WhenCalm'
<1>1. /\ Serving /\ act[Main].pc = "idle" /\ Main \in Actors
      /\ UNCHANGED <<files, acked, noise, boots>>
  BY DEF LoadFile, At, Actors
<1>2. DeviceTypes /\ TypeOK /\ Requests \subseteq Actors /\ Main \notin Requests
  BY DevicesAssumption DEF Always, DeviceTypes, Actors
<1>3. PICK n \in todo :
         /\ IsNext(n)
         /\ \/ files[n] = Empty /\ Fails(Main)
            \/ /\ files[n] # Empty
               /\ todo' = todo \ {n}
               /\ act' = [act EXCEPT ![Main] = FromFile(n)]
               /\ UNCHANGED <<boot, flow, devices, configs>>
  BY LoadsFrom
<1>4. CASE Fails(Main)
  BY <1>1, <1>4, DiesCalm DEF Fails
<1>5. CASE /\ files[n] # Empty
           /\ todo' = todo \ {n}
           /\ act' = [act EXCEPT ![Main] = FromFile(n)]
           /\ UNCHANGED <<boot, flow, devices, configs>>
  <2>1. Known' \subseteq Known
    BY LoadFileAlways
  <2>2. /\ FromFile(n).pc = "lookup" /\ FromFile(n).dev.name = n
        /\ FromFile(n).dev.id = files[n].id /\ FromFile(n).dev.key = files[n].key
        /\ "lookup" \notin Entered \cup {"insert"} /\ "lookup" \notin Routed
    BY DEF FromFile, Entered, Routed
  <2>3. \A b \in Actors : act'[b] = IF b = Main THEN FromFile(n) ELSE act[b]
    BY <1>2, <1>5 DEF DeviceTypes
  <2>4. boot = "loading" /\ n \in Names /\ files[n] \notin {Absent, Empty}
    BY <1>1, <1>2, <1>5 DEF Always, MainPlace, TodoHasFiles, TypeOK, Serving
  <2>5. \A d \in acked : d.name = n => d = FromFile(n).dev
    <3> SUFFICES ASSUME NEW d \in acked, d.name = n  PROVE  d = FromFile(n).dev
      OBVIOUS
    <3>1. d \in Device /\ FromFile(n).dev \in Device
      BY <1>2, <1>5, FileSays DEF TypeOK, Finished
    <3>2. files[n] = [id |-> d.id, key |-> d.key]
      BY DEF WhenCalm, KeptInFile
    <3>3. FromFile(n).dev.id = d.id /\ FromFile(n).dev.key = d.key /\ FromFile(n).dev.name = d.name
      BY <2>2, <3>2
    <3> QED
      BY <3>1, <3>3 DEF Device
  <2>6. files[n].key.boot < boots
    BY <2>4 DEF WhenCalm, KeysOfFiles
  <2>7. MainLoads'
    BY <1>1, <1>5, <2>2, <2>3, <2>5, <2>6 DEF MainLoads
  <2>8. AckedFound'
    BY <1>1, <1>5, <2>2, <2>3 DEF WhenCalm, AckedFound
  <2>9. Unhurried' /\ KeptInFile' /\ KeysOfFiles'
    BY <1>1, <1>2, <1>5, <2>3 DEF WhenCalm, Unhurried, KeptInFile, KeysOfFiles
  <2>10. NameIsFree' /\ KnownIsAcked'
    BY <1>1, <1>2, <2>1, <2>3 DEF WhenCalm, NameIsFree, KnownIsAcked
  <2>11. MapFits'
    BY <1>1, <1>5, <2>1, <2>2, <2>3 DEF WhenCalm, MapFits, Fits
  <2> QED
    BY <2>7, <2>8, <2>9, <2>10, <2>11 DEF WhenCalm
<1> QED
  BY <1>3, <1>4, <1>5

\* A request writes only the file of its own name, which no acknowledged device has.
LEMMA CreateFileCalm ==
    ASSUME PostsApart, Always, WhenCalm, NEW r \in Requests, CreateFile(r)
    PROVE  WhenCalm'
<1>1. /\ At(r, "create") /\ "create" \in Busy /\ "encode" \in Busy /\ UNCHANGED <<acked, boots>>
      /\ r \in Actors /\ r # Main /\ Main \in Actors /\ Requests \subseteq Actors
      /\ "create" \in Entered /\ "create" \in Routed /\ "encode" \in Listed
  BY DevicesAssumption DEF CreateFile, Busy, Actors, Entered, Routed, Listed
<1>2. /\ boot \in {"loading", "ready"} /\ TypeOK /\ DeviceTypes /\ act[r].pc = "create"
      /\ act[r].dev.name \in Names
  BY <1>1, AtMeans, CalmAt
<1>3. CASE Fails(r) /\ NoteFullDisk /\ UNCHANGED files
  <2>1. noise' \in {"none", "muddle", "early"}
    BY <1>3 DEF NoteFullDisk
  <2> QED
    BY <1>1, <1>2, <1>3, <2>1, FailsCalm
<1>4. CASE /\ files' = [files EXCEPT ![act[r].dev.name] = Empty]
           /\ Goes(r, "encode")
           /\ UNCHANGED <<boot, todo, flow, devices, configs, noise>>
  <2> DEFINE x == [act[r] EXCEPT !.pc = "encode"]
  <2>1. Known' \subseteq Known
    BY CreateFileAlways
  <2>2. Becomes(r, x) /\ x.pc = "encode" /\ x.dev = act[r].dev
    BY <1>1, <1>2, <1>4, GoesFits DEF Becomes
  <2>3. \A b \in Actors : act'[b] = IF b = r THEN x ELSE act[b]
    BY <2>2 DEF Becomes
  <2> HIDE DEF x
  <2>4. /\ boot = "ready" /\ \A d \in acked : d.name # act[r].dev.name
        /\ \A e \in Known : e.name = act[r].dev.name => e = act[r].dev
    BY <1>1, <1>2, PastLookup
  <2>5. \A n \in Names : files'[n] = IF n = act[r].dev.name THEN Empty ELSE files[n]
    BY <1>2, <1>4 DEF TypeOK
  <2>6. KeptInFile'
    <3>1. \A d \in acked : d.name \in Names
      BY <1>2 DEF TypeOK, Finished, Device
    <3> QED
      BY <1>1, <2>4, <2>5, <3>1 DEF WhenCalm, KeptInFile
  <2>7. KeysOfFiles'
    BY <1>1, <1>4, <2>4, <2>5 DEF WhenCalm, KeysOfFiles
  <2>8. Unhurried'
    BY <1>4, <2>4 DEF Unhurried
  <2>9. AckedFound' /\ MainLoads'
    BY <1>1, <1>4, <2>1, <2>3 DEF WhenCalm, AckedFound, MainLoads
  <2>10. NameIsFree'
    BY <1>1, <2>1, <2>2, <2>3, <2>4 DEF WhenCalm, NameIsFree
  <2>11. KnownIsAcked'
    BY <1>1, <2>1 DEF WhenCalm, KnownIsAcked
  <2>12. MapFits'
    BY <1>1, <1>2, <1>4, <2>1, <2>2, <2>3 DEF WhenCalm, MapFits, Fits
  <2> QED
    BY <2>6, <2>7, <2>8, <2>9, <2>10, <2>11, <2>12 DEF WhenCalm
<1> QED
  BY <1>3, <1>4 DEF CreateFile

\* The request is answered: what its file says is the device that is listed.
LEMMA EncodeFileCalm ==
    ASSUME PostsApart, Always, WhenCalm, NEW r \in Requests, EncodeFile(r)
    PROVE  WhenCalm'
<1>1. /\ At(r, "encode") /\ "encode" \in Busy /\ UNCHANGED boots
      /\ r \in Actors /\ r # Main /\ Main \in Actors /\ Requests \subseteq Actors
      /\ "encode" \in Entered /\ "encode" \in Listed
  BY DevicesAssumption DEF EncodeFile, Busy, Actors, Entered, Listed
<1>2. /\ boot \in {"loading", "ready"} /\ TypeOK /\ DeviceTypes /\ act[r].pc = "encode"
      /\ act[r].dev \in Device /\ act[r].dev.name \in Names
      /\ act[r].dev.key.boot <= boots
  BY <1>1, AtMeans, CalmAt
<1>3. CASE Fails(r) /\ NoteFullDisk /\ UNCHANGED <<files, acked>>
  <2>1. noise' \in {"none", "muddle", "early"}
    BY <1>3 DEF NoteFullDisk
  <2> QED
    BY <1>1, <1>2, <1>3, <2>1, FailsCalm
<1>4. CASE /\ files' = [files EXCEPT ![act[r].dev.name] = Written(r)]
           /\ acked' = acked \cup {act[r].dev}
           /\ act' = [act EXCEPT ![r] = Idle]
           /\ UNCHANGED <<boot, todo, flow, devices, configs, noise>>
  <2>1. Known' \subseteq Known
    BY EncodeFileAlways
  <2>2. Idle.pc = "idle" /\ "idle" \notin Entered \cup {"insert"} /\ "idle" \notin Routed
    BY DEF Idle, Entered, Routed
  <2>3. \A b \in Actors : act'[b] = IF b = r THEN Idle ELSE act[b]
    BY <1>1, <1>2, <1>4 DEF DeviceTypes
  <2>4. /\ boot = "ready" /\ \A d \in acked : d.name # act[r].dev.name
        /\ \A e \in Known : e.name = act[r].dev.name => e = act[r].dev
    BY <1>1, <1>2, PastLookup
  <2>5. act[Main] = Idle
    BY <2>4 DEF Always, MainPlace
  <2>6. \A n \in Names : files'[n] = IF n = act[r].dev.name THEN Written(r) ELSE files[n]
    BY <1>2, <1>4 DEF TypeOK
  <2>7. Written(r).key = act[r].dev.key
    BY DEF Written
  <2>8. KeptInFile'
    <3> SUFFICES ASSUME NEW d \in acked'
                 PROVE  files'[d.name] = [id |-> d.id, key |-> d.key]
      BY DEF KeptInFile
    <3>1. CASE d = act[r].dev
      BY <1>2, <2>6, <3>1 DEF Written
    <3>2. CASE d \in acked
      <4>1. d.name \in Names
        BY <1>2, <3>2 DEF TypeOK, Finished, Device
      <4> QED
        BY <2>4, <2>6, <3>2, <4>1 DEF WhenCalm, KeptInFile
    <3> QED
      BY <1>4, <3>1, <3>2
  <2>9. AckedFound'
    <3>1. act[r].dev.name \in flow
      BY <1>1, <1>2 DEF Always, InFlow
    <3>2. \A d \in acked : d.name \in todo \cup flow
      BY <1>2, <2>2, <2>5 DEF WhenCalm, AckedFound
    <3> QED
      BY <1>4, <3>1, <3>2 DEF AckedFound
  <2>10. NameIsFree'
    <3> SUFFICES ASSUME NEW q \in Requests, act'[q].pc \in Entered \cup {"insert"}
                 PROVE  /\ \A d \in acked' : d.name # act'[q].dev.name
                        /\ \A e \in Known' : e.name = act'[q].dev.name =>
                              e = act'[q].dev /\ act'[q].pc \in Listed
      BY DEF NameIsFree
    <3>1. q # r /\ act'[q] = act[q] /\ act[q].pc # "idle" /\ q \in Actors
      BY <1>1, <2>2, <2>3
    <3>2. act[q].dev.name # act[r].dev.name
      BY <1>1, <1>2, <2>2, <3>1, WorkApart DEF WhenCalm
    <3> QED
      BY <1>4, <2>1, <3>1, <3>2 DEF WhenCalm, NameIsFree
  <2>11. MainLoads' /\ Unhurried'
    BY <1>1, <1>4, <2>2, <2>3, <2>4, <2>5 DEF MainLoads, Unhurried
  <2>12. KnownIsAcked'
    BY <1>4, <2>1, <2>4 DEF WhenCalm, KnownIsAcked
  <2>13. KeysOfFiles'
    BY <1>1, <1>2, <1>4, <2>4, <2>6, <2>7 DEF WhenCalm, KeysOfFiles
  <2>14. MapFits'
    BY <1>1, <1>4, <2>1, <2>2, <2>3 DEF WhenCalm, MapFits, Fits
  <2> QED
    BY <2>8, <2>9, <2>10, <2>11, <2>12, <2>13, <2>14 DEF WhenCalm
<1> QED
  BY <1>3, <1>4 DEF EncodeFile, Written

\* Every step that brings no request while the devices are loaded keeps the second part.
LEMMA NextCalm ==
    ASSUME PostsApart, Always, noise # "early" => WhenCalm, [Next]_vars, noise' # "early"
    PROVE  WhenCalm'
<1>1. ASSUME NEW r \in Requests, createDevice(r)
      PROVE  noise # "early" /\ boot \notin {"starting", "loading"}
  BY <1>1 DEF createDevice, NoteRequest
<1>2. ASSUME NEW r \in Requests, CreateFile(r)  PROVE  noise # "early"
  BY <1>2 DEF CreateFile, NoteFullDisk
<1>3. ASSUME NEW r \in Requests, EncodeFile(r)  PROVE  noise # "early"
  BY <1>3 DEF EncodeFile, NoteFullDisk
<1>4. ASSUME UNCHANGED noise  PROVE  noise # "early"
  BY <1>4
<1>5. CASE Boot
  BY <1>4, <1>5, BootCalm DEF Boot
<1>6. CASE LoadFile
  BY <1>4, <1>6, LoadFileCalm DEF LoadFile
<1>7. CASE RestoreDevice
  BY <1>4, <1>7, RestoreDeviceCalm DEF RestoreDevice
<1>8. CASE AllLoaded
  BY <1>4, <1>8, AllLoadedCalm DEF AllLoaded
<1>9. CASE Crash
  BY <1>4, <1>9, DiesCalm DEF Crash
<1>10. ASSUME NEW a \in Actors, FlowLookup(a)  PROVE  WhenCalm'
  BY <1>4, <1>10, FlowLookupCalm DEF FlowLookup
<1>11. ASSUME NEW a \in Actors, FlowInsert(a)  PROVE  WhenCalm'
  BY <1>4, <1>11, FlowInsertCalm DEF FlowInsert
<1>12. ASSUME NEW a \in Actors, AppendRead(a)  PROVE  WhenCalm'
  BY <1>4, <1>12, AppendReadCalm DEF AppendRead
<1>13. ASSUME NEW a \in Actors, AppendWrite(a)  PROVE  WhenCalm'
  BY <1>4, <1>13, AppendWriteCalm DEF AppendWrite
<1>14. ASSUME NEW r \in Requests, createDevice(r)  PROVE  WhenCalm'
  BY <1>1, <1>14, createDeviceCalm
<1>15. ASSUME NEW r \in Requests, RouterAdd(r)  PROVE  WhenCalm'
  BY <1>4, <1>15, RouterAddCalm DEF RouterAdd
<1>16. ASSUME NEW r \in Requests, CreateFile(r)  PROVE  WhenCalm'
  BY <1>2, <1>16, CreateFileCalm
<1>17. ASSUME NEW r \in Requests, EncodeFile(r)  PROVE  WhenCalm'
  BY <1>3, <1>17, EncodeFileCalm
<1>18. CASE UNCHANGED vars
  <2>1. Known' = Known
    BY <1>18 DEF vars, Known
  <2>2. WhenCalm
    BY <1>4, <1>18 DEF vars
  <2> QED
    BY <1>18, <2>1, <2>2 DEF vars, WhenCalm, Unhurried, KeptInFile, AckedFound, NameIsFree,
       MainLoads, KnownIsAcked, KeysOfFiles, MapFits, Fits
<1>19. CASE ReadDir
  BY <1>4, <1>19, ReadDirCalm DEF ReadDir
<1> QED
  BY <1>5, <1>6, <1>7, <1>8, <1>9, <1>10, <1>11, <1>12, <1>13, <1>14, <1>15, <1>16, <1>17, <1>18,
     <1>19
  DEF Next

\* The inductive invariant.
LEMMA Invariance == ASSUME PostsApart PROVE Spec => []IInv
<1>1. Init => IInv
  BY InitAlways, InitCalm DEF IInv
<1>2. IInv /\ [Next]_vars => IInv'
  BY NextAlways, NextCalm DEF IInv
<1> QED
  BY <1>1, <1>2, PTL DEF Spec

-----------------------------------------------------------------------------
(* The theorems *)

\* For every set of names, any number of requests at a time and of restarts: what a
\* request wrote into a device's file before it was answered stays there, with the
\* number and the keys, however later requests and the disk fail and whenever the
\* process dies. Persist.Set empties a file before it writes it; that it never does so
\* to an acknowledged device rests on the lookup in the flow router, which knows every
\* acknowledged name once the devices are loaded.
THEOREM AcknowledgedStaysInFile == ASSUME PostsApart PROVE Spec => []AcknowledgedIsKept
<1>1. IInv => AcknowledgedIsKept
  BY DEF IInv, WhenCalm, KeptInFile, AcknowledgedIsKept
<1> QED
  BY <1>1, Invariance, PTL

\* An owner's configuration stays good over crashes and restarts: an acknowledged device
\* that is listed has the number and the server keys the owner was given.
THEOREM ConnectionsStayGood == ASSUME PostsApart PROVE Spec => []OwnersStayConnected
<1>1. IInv => OwnersStayConnected
  BY DEF IInv, WhenCalm, KnownIsAcked, Known, OwnersStayConnected
<1> QED
  BY <1>1, Invariance, PTL

\* GET /wireguard/{config} has an entry for every listed device, of the device's own
\* tunnel, and the device's side of it when it was added since the process started.
THEOREM ServedIsOwnTunnel == ASSUME PostsApart PROVE Spec => []ServedConfigFits
<1>1. IInv => ServedConfigFits
  <2> SUFFICES ASSUME IInv, noise # "early", NEW i \in DOMAIN devices
               PROVE  LET d == devices[i]
                          c == serveConfig(d.name)
                      IN  c # Absent /\ c.key = d.key /\ (d.key.boot = boots => c.side = "device")
    BY DEF ServedConfigFits
  <2>1. devices[i] \in Known
    BY DEF Known
  <2> QED
    BY <2>1 DEF IInv, WhenCalm, MapFits, Fits, serveConfig
<1> QED
  BY <1>1, Invariance, PTL

-----------------------------------------------------------------------------
(***************************************************************************)
(* The addresses. createDevice numbers a device by the length of the list, *)
(* so numbers differ as long as the length counts the devices that have a  *)
(* file. It does when requests do not overlap and the disk never fails:    *)
(* the list grows by one for every file loaded, and by one for the request *)
(* that is about to write the next file.                                   *)
(***************************************************************************)

\* The names with a whole file.
Stock == {n \in Names : files[n] \notin {Absent, Empty}}

OneBusy == \A q, r \in Requests : act[q].pc # "idle" /\ act[r].pc # "idle" => q = r

StockIsAcked == \A n \in Stock : \E d \in acked : d.name = n

CopyIsFresh == \A a \in Actors : act[a].pc = "store" => act[a].seen = devices

LengthCounts ==
    /\ boot = "starting" => devices = <<>>
    /\ boot = "loading" =>
          Len(devices) + (IF act[Main].pc = "idle" THEN 0 ELSE 1) = Cardinality(Stock \ todo)
    /\ boot = "ready" =>
          Len(devices) = Cardinality(Stock)
                             + (IF \E r \in Requests : act[r].pc \in Listed THEN 1 ELSE 0)

NumbersDiffer ==
    /\ \A r \in Requests : act[r].pc # "idle" => act[r].dev.id = Cardinality(Stock)
    /\ \A d \in acked : d.id < Cardinality(Stock)
    /\ \A d, e \in acked : d.id = e.id => d = e

Counted == OneBusy /\ StockIsAcked /\ CopyIsFresh /\ LengthCounts /\ NumbersDiffer

\* The number of whole files is a number.
LEMMA StockCount ==
    ASSUME IsFiniteSet(Names)
    PROVE  IsFiniteSet(Stock) /\ Cardinality(Stock) \in Nat
           /\ Cardinality(Stock) <= Cardinality(Names)
<1>1. Stock \in SUBSET Names
  BY DEF Stock
<1> QED
  BY <1>1, FS_Subset, FS_CardinalityType

\* The stock depends on the files alone.
LEMMA StockKept == UNCHANGED files => Stock' = Stock
BY DEF Stock

\* The name of a request that is past the lookup is not in stock.
LEMMA NotInStock ==
    ASSUME WhenCalm, Counted, NEW r \in Requests, act[r].pc \in Entered \cup {"insert"}
    PROVE  act[r].dev.name \notin Stock
BY DEF WhenCalm, NameIsFree, Counted, StockIsAcked

\* Nobody is busy and the files are as they were.
LEMMA EmptyCounted ==
    ASSUME Counted, \A a \in Actors : act'[a] = Idle, UNCHANGED <<files, acked>>, LengthCounts'
    PROVE  Counted'
<1>1. Idle.pc = "idle" /\ Requests \subseteq Actors /\ Stock' = Stock
  BY StockKept DEF Idle, Actors
<1>2. OneBusy' /\ CopyIsFresh'
  BY <1>1 DEF OneBusy, CopyIsFresh
<1>3. StockIsAcked'
  BY <1>1 DEF Counted, StockIsAcked
<1>4. NumbersDiffer'
  BY <1>1 DEF Counted, NumbersDiffer
<1> QED
  BY <1>2, <1>3, <1>4 DEF Counted

\* Before the first boot the list of devices is as long as the counts say.
LEMMA InitCounted == Init => Counted
<1> SUFFICES ASSUME Init  PROVE  Counted
  OBVIOUS
<1>1. Idle.pc = "idle" /\ Requests \subseteq Actors
  BY DEF Idle, Actors
<1>2. \A a \in Actors : act[a] = Idle
  BY DEF Init
<1>3. Stock = {}
  BY DEF Init, Stock
<1> QED
  BY <1>1, <1>2, <1>3
  DEF Init, Counted, OneBusy, StockIsAcked, CopyIsFresh, LengthCounts, NumbersDiffer

\* A server that goes down or fails keeps the counts.
LEMMA DiesCounted ==
    ASSUME Counted, NEW how \in {"down", "failed"}, Dies(how), UNCHANGED <<files, acked>>
    PROVE  Counted'
<1>1. boot' = how /\ \A a \in Actors : act'[a] = Idle
  BY DEF Dies
<1>2. LengthCounts'
  BY <1>1 DEF LengthCounts
<1> QED
  BY <1>1, <1>2, EmptyCounted

\* A boot, with an empty list, keeps the counts.
LEMMA BootCounted ==
    ASSUME Always, Counted, Boot
    PROVE  Counted'
<1>1. /\ boot \in {"down", "failed"} /\ boot' = "starting"
      /\ UNCHANGED <<todo, flow, devices, configs, files, act, acked, noise>>
  BY DEF Boot
<1>2. devices' = <<>> /\ \A a \in Actors : act'[a] = Idle
  BY <1>1 DEF Always, DownIsEmpty
<1>3. LengthCounts'
  BY <1>1, <1>2 DEF LengthCounts
<1> QED
  BY <1>1, <1>2, <1>3, EmptyCounted

\* The listing of the directory, with every file still to load, keeps the counts.
LEMMA ReadDirCounted ==
    ASSUME Always, WhenCalm, Counted, ReadDir
    PROVE  Counted'
<1>1. /\ boot = "starting" /\ boot' = "loading"
      /\ todo' = {n \in Names : files[n] # Absent}
      /\ UNCHANGED <<flow, devices, configs, files, act, acked, noise, boots>>
  BY DEF ReadDir
<1>2. devices' = <<>> /\ \A a \in Actors : act'[a] = Idle
  BY <1>1 DEF Always, MainPlace, WhenCalm, Unhurried, Actors, Counted, LengthCounts
<1>3. (Stock \ todo)' = {}
  BY <1>1 DEF Stock
<1>4. LengthCounts'
  <2>1. Cardinality((Stock \ todo)') = 0
    BY <1>3, FS_EmptySet
  <2>2. act'[Main].pc = "idle"
    BY <1>2 DEF Actors, Idle
  <2>3. Len(devices') = 0
    BY <1>2
  <2> QED
    BY <1>1, <2>1, <2>2, <2>3 DEF LengthCounts
<1> QED
  BY <1>1, <1>2, <1>4, EmptyCounted

\* The end of the loading keeps the counts.
LEMMA AllLoadedCounted ==
    ASSUME IsFiniteSet(Names), Always, WhenCalm, Counted, AllLoaded
    PROVE  Counted'
<1>1. /\ boot = "loading" /\ todo = {} /\ act[Main].pc = "idle" /\ boot' = "ready"
      /\ UNCHANGED <<todo, flow, devices, configs, files, act, acked, noise, boots>>
  BY DEF AllLoaded
<1>2. DeviceTypes /\ \A r \in Requests : act[r] = Idle
  BY <1>1 DEF Always, WhenCalm, Unhurried
<1>3. \A a \in Actors : act'[a] = Idle
  BY <1>1, <1>2, IdleOrBusy DEF Actors
<1>4. LengthCounts'
  <2>1. \A r \in Requests : act'[r].pc \notin Listed
    BY <1>1, <1>2 DEF Listed, Idle
  <2>2. Stock \ todo = Stock /\ Stock' = Stock
    BY <1>1, StockKept
  <2>3. Len(devices) + 0 = Cardinality(Stock \ todo)
    BY <1>1 DEF Counted, LengthCounts
  <2>4. Len(devices) = Cardinality(Stock) + 0
    <3>1. Len(devices) \in Nat
      BY LenProperties DEF Always, DeviceTypes, TypeOK
    <3>2. Cardinality(Stock \ todo) = Cardinality(Stock)
      BY <2>2
    <3>3. Cardinality(Stock) \in Nat
      BY StockCount
    <3> QED
      BY <2>3, <3>1, <3>2, <3>3
  <2>5. Len(devices') = Cardinality(Stock') + 0 /\ boot' = "ready"
    BY <1>1, <2>2, <2>4
  <2> QED
    BY <2>1, <2>5 DEF LengthCounts
<1> QED
  BY <1>1, <1>3, <1>4, EmptyCounted

\* A step of one goroutine that changes neither the list nor the stock.
LEMMA QuietCounted ==
    ASSUME Counted, UNCHANGED <<boot, todo, acked, devices>>, Stock' = Stock,
           NEW a \in Actors, act[a].pc # "idle", NEW x,
           \A b \in Actors : act'[b] = IF b = a THEN x ELSE act[b],
           x.pc # "idle" => x.dev.id = act[a].dev.id,
           x.pc = "idle" => a # Main,
           x.pc \in Listed <=> act[a].pc \in Listed,
           x.pc = "store" => x.seen = devices
    PROVE  Counted'
<1>1. Main \in Actors /\ Requests \subseteq Actors
  BY DEF Actors
<1>2. OneBusy'
  BY <1>1 DEF Counted, OneBusy
<1>3. StockIsAcked'
  BY DEF Counted, StockIsAcked
<1>4. CopyIsFresh'
  BY DEF Counted, CopyIsFresh
<1>5. LengthCounts'
  <2>1. act'[Main].pc = "idle" <=> act[Main].pc = "idle"
    BY <1>1
  <2>2. (\E r \in Requests : act'[r].pc \in Listed) <=> (\E r \in Requests : act[r].pc \in Listed)
    BY <1>1
  <2>3. (Stock \ todo)' = Stock \ todo
    OBVIOUS
  <2> QED
    BY <2>1, <2>2, <2>3 DEF Counted, LengthCounts
<1>6. NumbersDiffer'
  BY <1>1 DEF Counted, NumbersDiffer
<1> QED
  BY <1>2, <1>3, <1>4, <1>5, <1>6 DEF Counted

\* A new device is numbered by the stock.
LEMMA createDeviceCounted ==
    ASSUME IsFiniteSet(Names), Always, WhenCalm, Counted, NEW r \in Requests, createDevice(r),
           noise' = "none"
    PROVE  Counted'
<1>1. /\ boot = "ready" /\ r \in Actors /\ r # Main /\ act[r].pc = "idle"
      /\ UNCHANGED <<boot, todo, flow, devices, configs, files, acked, boots>>
      /\ \A q \in Requests \ {r} : act[q].pc = "idle"
  BY DevicesAssumption DEF createDevice, Serving, NoteRequest, Actors
<1>2. PICK n \in Posts[r] : act' = [act EXCEPT ![r] = NewDevice(n)]
  BY CreatesNew
<1>3. \A b \in Actors : act'[b] = IF b = r THEN NewDevice(n) ELSE act[b]
  BY <1>1, <1>2 DEF Always, DeviceTypes
<1>4. /\ NewDevice(n).pc = "lookup" /\ NewDevice(n).dev.id = Len(devices)
      /\ "lookup" \notin Listed /\ "idle" \notin Listed
  BY DEF NewDevice, Listed
<1>5. Stock' = Stock /\ Requests \subseteq Actors /\ Main \in Actors
  BY <1>1, StockKept DEF Actors
<1>6. Len(devices) = Cardinality(Stock)
  <2>1. Len(devices) = Cardinality(Stock) + 0
    BY <1>1, <1>4 DEF Counted, LengthCounts
  <2> QED
    BY <2>1, StockCount
<1>7. OneBusy' /\ CopyIsFresh' /\ StockIsAcked'
  <2>1. OneBusy'
    BY <1>1, <1>3, <1>5 DEF OneBusy
  <2>2. CopyIsFresh'
    BY <1>1, <1>3, <1>4 DEF Counted, CopyIsFresh
  <2> QED
    BY <1>1, <1>5, <2>1, <2>2 DEF Counted, StockIsAcked
<1>8. LengthCounts'
  <2>1. \A q \in Requests : act'[q].pc \notin Listed
    BY <1>1, <1>3, <1>4, <1>5
  <2>2. Len(devices) = Cardinality(Stock) + 0
    BY <1>6, StockCount
  <2> QED
    BY <1>1, <1>5, <2>1, <2>2 DEF LengthCounts
<1>9. NumbersDiffer'
  BY <1>1, <1>3, <1>4, <1>5, <1>6 DEF Counted, NumbersDiffer
<1> QED
  BY <1>7, <1>8, <1>9 DEF Counted

\* The goroutine's device is listed: the length is one more.
LEMMA AppendWriteCounted ==
    ASSUME IsFiniteSet(Names), Always, WhenCalm, Counted, NEW a \in Actors, AppendWrite(a)
    PROVE  Counted'
<1>1. /\ UNCHANGED <<boot, todo, flow, configs, files, acked, noise, boots>>
      /\ At(a, "store") /\ "store" \in Busy
      /\ a # Main => Stored(a).pc = "create" /\ Stored(a).dev = act[a].dev
      /\ \A b \in Actors : act'[b] = IF b = a THEN Stored(a) ELSE act[b]
      /\ devices' = Append(act[a].seen, act[a].dev)
  BY AppendWriteCases DEF Busy
<1>2. /\ boot \in {"loading", "ready"} /\ act[a].pc = "store" /\ TypeOK /\ act[a].dev \in Device
  BY <1>1, AtMeans, CalmAt
<1>3. /\ "store" \notin Listed /\ "create" \in Listed /\ "idle" \notin Listed
      /\ Main \in Actors /\ Requests \subseteq Actors /\ Stock' = Stock
  BY <1>1, StockKept DEF Listed, Actors
<1>4. \A b \in Actors \ {a} : act[b].pc = "idle"
  <2> SUFFICES ASSUME NEW b \in Actors, b # a, act[b].pc # "idle"  PROVE  FALSE
    OBVIOUS
  <2>1. a # Main /\ b # Main
    BY <1>2, WhoIsBusy DEF WhenCalm
  <2> QED
    BY <1>2, <2>1 DEF Actors, Counted, OneBusy
<1>5. Stored(a).pc \in {"idle", "create"} /\ (a = Main => Stored(a).pc = "idle")
  BY <1>1 DEF Stored, Idle
<1>6. Len(devices) \in Nat /\ Len(devices') = Len(devices) + 1
  <2>1. act[a].seen = devices /\ devices \in Seq(Device)
    BY <1>2 DEF Counted, CopyIsFresh, TypeOK
  <2> QED
    BY <1>1, <1>2, <2>1, AppendProperties, LenProperties
<1>7. OneBusy' /\ CopyIsFresh' /\ StockIsAcked'
  <2>1. OneBusy' /\ CopyIsFresh'
    BY <1>1, <1>3, <1>4, <1>5 DEF OneBusy, CopyIsFresh
  <2> QED
    BY <1>1, <1>3, <2>1 DEF Counted, StockIsAcked
<1>8. LengthCounts'
  <2>1. CASE a = Main
    <3>1. boot = "loading" /\ act'[Main].pc = "idle"
      BY <1>1, <1>2, <1>3, <1>5, <2>1, WhoIsBusy DEF WhenCalm
    <3>2. Len(devices) + 1 = Cardinality(Stock \ todo)
      BY <1>2, <2>1, <3>1 DEF Counted, LengthCounts
    <3>3. Len(devices') + 0 = Cardinality(Stock' \ todo') /\ boot' = "loading"
      BY <1>1, <1>3, <1>6, <3>1, <3>2
    <3> QED
      BY <3>1, <3>3 DEF LengthCounts
  <2>2. CASE a # Main
    <3>1. boot = "ready" /\ a \in Requests
      BY <1>2, <2>2, WhoIsBusy DEF WhenCalm
    <3>2. \A r \in Requests : act[r].pc \notin Listed
      BY <1>2, <1>3, <1>4
    <3>3. Len(devices) = Cardinality(Stock) + 0
      BY <3>1, <3>2 DEF Counted, LengthCounts
    <3>4. Len(devices') = Cardinality(Stock') + 1 /\ boot' = "ready"
      BY <1>1, <1>3, <1>6, <3>1, <3>3, StockCount
    <3>5. \E r \in Requests : act'[r].pc \in Listed
      BY <1>1, <1>3, <2>2, <3>1
    <3> QED
      BY <3>4, <3>5 DEF LengthCounts
  <2> QED
    BY <2>1, <2>2
<1>9. NumbersDiffer'
  <2>1. \A r \in Requests : act'[r].pc # "idle" => act'[r].dev.id = Cardinality(Stock)
    BY <1>1, <1>2, <1>3, <1>4, <1>5 DEF Counted, NumbersDiffer
  <2> QED
    BY <1>1, <1>3, <2>1 DEF Counted, NumbersDiffer
<1> QED
  BY <1>7, <1>8, <1>9 DEF Counted

\* A file is taken from those to do: one more of the stock is loaded or being loaded.
LEMMA LoadFileCounted ==
    ASSUME IsFiniteSet(Names), Always, WhenCalm, Counted, LoadFile
    PROVE  Counted'
<1>1. /\ Serving /\ act[Main].pc = "idle" /\ Main \in Actors
      /\ UNCHANGED <<files, acked, noise, boots>>
  BY DEF LoadFile, At, Actors
<1>2. DeviceTypes /\ TypeOK /\ Requests \subseteq Actors /\ Main \notin Requests
  BY DevicesAssumption DEF Always, DeviceTypes, Actors
<1>3. PICK n \in todo :
         /\ IsNext(n)
         /\ \/ files[n] = Empty /\ Fails(Main)
            \/ /\ files[n] # Empty
               /\ todo' = todo \ {n}
               /\ act' = [act EXCEPT ![Main] = FromFile(n)]
               /\ UNCHANGED <<boot, flow, devices, configs>>
  BY LoadsFrom
<1>4. CASE Fails(Main)
  BY <1>1, <1>4, DiesCounted DEF Fails
<1>5. CASE /\ files[n] # Empty
           /\ todo' = todo \ {n}
           /\ act' = [act EXCEPT ![Main] = FromFile(n)]
           /\ UNCHANGED <<boot, flow, devices, configs>>
  <2>1. \A b \in Actors : act'[b] = IF b = Main THEN FromFile(n) ELSE act[b]
    BY <1>2, <1>5 DEF DeviceTypes
  <2>2. FromFile(n).pc = "lookup"
    BY DEF FromFile
  <2>3. Stock' = Stock /\ boot = "loading"
    BY <1>1, StockKept DEF Always, MainPlace, Serving
  <2>4. n \in Stock
    BY <1>2, <1>5 DEF Stock, TypeOK, Always, TodoHasFiles
  <2>5. Stock \ todo' = (Stock \ todo) \cup {n}
    BY <1>5, <2>4
  <2>6. Cardinality(Stock \ todo') = Cardinality(Stock \ todo) + 1
    <3>1. IsFiniteSet(Stock \ todo)
      BY StockCount, FS_Subset
    <3> QED
      BY <2>5, <3>1, FS_AddElement
  <2>7. Len(devices) + 0 = Cardinality(Stock \ todo) /\ Len(devices) \in Nat
    BY <1>1, <1>2, <2>3, LenProperties DEF Counted, LengthCounts, TypeOK
  <2>8. LengthCounts'
    <3>1. Len(devices') + 1 = Cardinality(Stock' \ todo')
      BY <1>5, <2>3, <2>6, <2>7
    <3>2. act'[Main].pc # "idle" /\ boot' = "loading"
      BY <1>1, <1>5, <2>1, <2>2, <2>3
    <3> QED
      BY <3>1, <3>2 DEF LengthCounts
  <2>9. OneBusy' /\ CopyIsFresh' /\ StockIsAcked'
    <3>1. OneBusy'
      BY <1>2, <2>1 DEF Counted, OneBusy
    <3>2. CopyIsFresh'
      BY <1>5, <2>1, <2>2 DEF Counted, CopyIsFresh
    <3> QED
      BY <1>1, <2>3, <3>1, <3>2 DEF Counted, StockIsAcked
  <2>10. NumbersDiffer'
    BY <1>1, <1>2, <2>1, <2>3 DEF Counted, NumbersDiffer
  <2> QED
    BY <2>8, <2>9, <2>10 DEF Counted
<1> QED
  BY <1>3, <1>4, <1>5

\* The file is emptied: it was not in stock.
LEMMA CreateFileCounted ==
    ASSUME Always, WhenCalm, Counted, NEW r \in Requests, CreateFile(r), noise' = "none"
    PROVE  Counted'
<1>1. /\ At(r, "create") /\ "create" \in Busy /\ "encode" \in Busy /\ UNCHANGED acked
      /\ r \in Actors /\ r # Main
      /\ "create" \in Entered /\ "create" \in Listed /\ "encode" \in Listed
  BY DevicesAssumption DEF CreateFile, Busy, Actors, Entered, Listed
<1>2. /\ TypeOK /\ DeviceTypes /\ act[r].pc = "create" /\ act[r].dev.name \in Names
  BY <1>1, AtMeans
<1>3. /\ files' = [files EXCEPT ![act[r].dev.name] = Empty]
      /\ Goes(r, "encode")
      /\ UNCHANGED <<boot, todo, flow, devices, configs, noise>>
  BY DEF CreateFile, NoteFullDisk
<1>4. act[r].dev.name \notin Stock
  BY <1>1, <1>2, NotInStock
<1>5. Stock' = Stock
  BY <1>2, <1>3, <1>4 DEF Stock, TypeOK
<1> DEFINE x == [act[r] EXCEPT !.pc = "encode"]
<1>6. Becomes(r, x) /\ x.pc = "encode" /\ x.dev = act[r].dev
  BY <1>1, <1>2, <1>3, GoesFits DEF Becomes
<1>7. \A b \in Actors : act'[b] = IF b = r THEN x ELSE act[b]
  BY <1>6 DEF Becomes
<1> HIDE DEF x
<1> QED
  BY <1>1, <1>2, <1>3, <1>5, <1>6, <1>7, QuietCounted

\* The file is written: the stock has grown by the device that was numbered by it.
LEMMA EncodeFileCounted ==
    ASSUME IsFiniteSet(Names), Always, WhenCalm, Counted, NEW r \in Requests, EncodeFile(r),
           noise' = "none"
    PROVE  Counted'
<1>1. /\ At(r, "encode") /\ "encode" \in Busy
      /\ r \in Actors /\ r # Main /\ Main \in Actors /\ Requests \subseteq Actors
      /\ "encode" \in Entered /\ "encode" \in Listed
  BY DevicesAssumption DEF EncodeFile, Busy, Actors, Entered, Listed
<1>2. /\ TypeOK /\ DeviceTypes /\ act[r].pc = "encode" /\ act[r].dev.name \in Names
      /\ act[r].dev \in Device
  BY <1>1, AtMeans
<1>3. /\ files' = [files EXCEPT ![act[r].dev.name] = Written(r)]
      /\ acked' = acked \cup {act[r].dev}
      /\ act' = [act EXCEPT ![r] = Idle]
      /\ UNCHANGED <<boot, todo, flow, devices, configs, noise>>
  BY DEF EncodeFile, NoteFullDisk, Written
<1>4. act[r].dev.name \notin Stock
  BY <1>1, <1>2, NotInStock
<1>5. Stock' = Stock \cup {act[r].dev.name}
  <2>1. Written(r) \in Saved
    BY <1>2 DEF Written, Saved, Device
  <2> QED
    BY <1>2, <1>3, <2>1, DevicesAssumption DEF Stock, TypeOK
<1>6. Cardinality(Stock') = Cardinality(Stock) + 1 /\ Cardinality(Stock) \in Nat
  BY <1>4, <1>5, StockCount, FS_AddElement
<1>7. \A q \in Requests : act'[q].pc = "idle"
  BY <1>1, <1>2, <1>3 DEF Counted, OneBusy, DeviceTypes, Idle
<1>8. boot = "ready" /\ boot' = "ready"
  BY <1>1, <1>2, <1>3, WhoIsBusy DEF WhenCalm
<1>9. LengthCounts'
  <2>1. Len(devices) = Cardinality(Stock) + 1
    BY <1>1, <1>2, <1>8 DEF Counted, LengthCounts
  <2>2. Len(devices') = Cardinality(Stock') + 0
    BY <1>3, <1>6, <2>1
  <2>3. \A q \in Requests : act'[q].pc \notin Listed
    BY <1>7 DEF Listed
  <2> QED
    BY <1>8, <2>2, <2>3 DEF LengthCounts
<1>10. StockIsAcked'
  BY <1>3, <1>5 DEF Counted, StockIsAcked
<1>11. OneBusy' /\ CopyIsFresh'
  <2>1. OneBusy'
    BY <1>7 DEF OneBusy
  <2>2. \A a \in Actors : act'[a].pc = "store" => act[a].pc = "store" /\ act'[a] = act[a]
    BY <1>2, <1>3 DEF DeviceTypes, Idle
  <2> QED
    BY <1>3, <2>1, <2>2 DEF Counted, CopyIsFresh
<1>12. NumbersDiffer'
  <2>1. act[r].dev.id = Cardinality(Stock)
    BY <1>2 DEF Counted, NumbersDiffer
  <2>2. \A d \in acked : d.id \in Nat /\ d.id < Cardinality(Stock)
    BY <1>2 DEF Counted, NumbersDiffer, TypeOK, Finished, Device
  <2>3. \A d \in acked' : d.id < Cardinality(Stock')
    BY <1>3, <1>6, <2>1, <2>2
  <2>4. \A d, e \in acked' : d.id = e.id => d = e
    BY <1>3, <1>6, <2>1, <2>2 DEF Counted, NumbersDiffer
  <2> QED
    BY <1>7, <2>3, <2>4 DEF NumbersDiffer
<1> QED
  BY <1>9, <1>10, <1>11, <1>12 DEF Counted

\* Every step that keeps the requests apart and the disk whole keeps the count.
LEMMA NextCounted ==
    ASSUME IsFiniteSet(Names), IInv, noise = "none" => Counted, [Next]_vars, noise' = "none"
    PROVE  Counted'
<1>1. noise = "none"
  <2>1. UNCHANGED noise => noise = "none"
    OBVIOUS
  <2>2. ASSUME NEW r \in Requests, createDevice(r)  PROVE  noise = "none"
    BY <2>2 DEF createDevice, NoteRequest
  <2>3. ASSUME NEW r \in Requests, CreateFile(r) \/ EncodeFile(r)  PROVE  noise = "none"
    BY <2>3 DEF CreateFile, EncodeFile, NoteFullDisk
  <2> QED
    BY <2>1, <2>2, <2>3 DEF Next, vars, Boot, ReadDir, LoadFile, RestoreDevice, AllLoaded, Crash,
       FlowLookup, FlowInsert, AppendRead, AppendWrite, RouterAdd
<1>2. Always /\ WhenCalm /\ Counted /\ DeviceTypes
  BY <1>1 DEF IInv, Always
<1>3. Main \in Actors /\ Requests \subseteq Actors /\ Main \notin Requests
      /\ "idle" \notin Listed /\ "lookup" \notin Listed /\ "insert" \notin Listed
      /\ "router" \notin Listed /\ "append" \notin Listed /\ "store" \notin Listed
      /\ Idle.pc = "idle" /\ {"insert", "router", "append"} \subseteq Busy
  BY DevicesAssumption DEF Actors, Listed, Idle, Busy
\* A step that takes goroutine a to place w.
<1>4. ASSUME NEW a \in Actors, act[a].pc \in {"lookup", "insert", "router"},
             NEW w \in {"insert", "router", "append"}, Goes(a, w),
             UNCHANGED <<boot, todo, files, acked, devices>>
      PROVE  Counted'
  <2> DEFINE x == [act[a] EXCEPT !.pc = w]
  <2>1. Becomes(a, x) /\ x.pc = w /\ x.dev = act[a].dev
    BY <1>2, <1>3, <1>4, GoesFits DEF Becomes
  <2>2. \A b \in Actors : act'[b] = IF b = a THEN x ELSE act[b]
    BY <2>1 DEF Becomes
  <2> HIDE DEF x
  <2> QED
    BY <1>2, <1>3, <1>4, <2>1, <2>2, StockKept, QuietCounted
\* A request that gives up before its device is listed.
<1>5. ASSUME NEW a \in Actors, a # Main, act[a].pc \in {"lookup", "router"},
             act' = [act EXCEPT ![a] = Idle],
             UNCHANGED <<boot, todo, files, acked, devices>>
      PROVE  Counted'
  <2>1. \A b \in Actors : act'[b] = IF b = a THEN Idle ELSE act[b]
    BY <1>2, <1>5 DEF DeviceTypes
  <2> QED
    BY <1>2, <1>3, <1>5, <2>1, StockKept, QuietCounted
<1>6. CASE Boot
  BY <1>2, <1>6, BootCounted
<1>7. CASE LoadFile
  BY <1>2, <1>7, LoadFileCounted
<1>8. CASE RestoreDevice
  <2>1. CASE Fails(Main)
    BY <1>2, <1>8, <2>1, DiesCounted DEF RestoreDevice, Fails
  <2>2. CASE Goes(Main, "append") /\ UNCHANGED <<boot, todo, flow, devices>>
    BY <1>3, <1>4, <1>8, <2>2 DEF RestoreDevice, At
  <2> QED
    BY <1>8, <2>1, <2>2 DEF RestoreDevice
<1>9. CASE AllLoaded
  BY <1>2, <1>9, AllLoadedCounted
<1>10. CASE Crash
  BY <1>2, <1>10, DiesCounted DEF Crash
<1>11. ASSUME NEW a \in Actors, FlowLookup(a)  PROVE  Counted'
  <2>1. act[a].pc = "lookup" /\ UNCHANGED <<files, acked, noise, boots>>
    BY <1>11 DEF FlowLookup, At
  <2>2. CASE Fails(a) /\ a = Main
    BY <1>2, <2>1, <2>2, DiesCounted DEF Fails
  <2>3. CASE Fails(a) /\ a # Main
    BY <1>5, <2>1, <2>3 DEF Fails
  <2>4. CASE Goes(a, "insert") /\ UNCHANGED <<boot, todo, flow, devices, configs>>
    BY <1>4, <2>1, <2>4
  <2> QED
    BY <1>11, <2>2, <2>3, <2>4 DEF FlowLookup
<1>12. ASSUME NEW a \in Actors, FlowInsert(a)  PROVE  Counted'
  BY <1>4, <1>12 DEF FlowInsert, At
<1>13. ASSUME NEW a \in Actors, AppendRead(a)  PROVE  Counted'
  <2>1. /\ UNCHANGED <<boot, todo, flow, devices, configs, files, acked, noise, boots>>
        /\ act[a].pc = "append"
        /\ WithCopy(a).pc = "store" /\ WithCopy(a).seen = devices
        /\ WithCopy(a).dev = act[a].dev
        /\ \A b \in Actors : act'[b] = IF b = a THEN WithCopy(a) ELSE act[b]
    BY <1>2, <1>13, AppendReadCases DEF At
  <2> QED
    BY <1>2, <1>3, <2>1, StockKept, QuietCounted
<1>14. ASSUME NEW a \in Actors, AppendWrite(a)  PROVE  Counted'
  BY <1>2, <1>14, AppendWriteCounted
<1>15. ASSUME NEW r \in Requests, createDevice(r)  PROVE  Counted'
  BY <1>2, <1>15, createDeviceCounted
<1>16. ASSUME NEW r \in Requests, RouterAdd(r)  PROVE  Counted'
  <2>1. /\ UNCHANGED <<boot, todo, flow, devices, files, acked, noise, boots>>
        /\ act[r].pc = "router" /\ r \in Actors /\ r # Main
        /\ WithKey(r).pc = "append"
    BY <1>2, <1>16, RouterAddCases DEF At
  <2>2. CASE act' = [act EXCEPT ![r] = WithKey(r)]
    <3>1. \A b \in Actors : act'[b] = IF b = r THEN WithKey(r) ELSE act[b]
      BY <1>2, <2>1, <2>2 DEF DeviceTypes
    <3>2. WithKey(r).dev.id = act[r].dev.id
      <4>1. act[r] \in [pc : Busy, dev : Device, seen : Seq(Device)]
        BY <1>2, <2>1, IdleOrBusy
      <4> QED
        BY <4>1 DEF WithKey, Device
    <3> QED
      BY <1>2, <1>3, <2>1, <3>1, <3>2, StockKept, QuietCounted
  <2>3. CASE act' = [act EXCEPT ![r] = Idle]
    BY <1>5, <2>1, <2>3
  <2> QED
    BY <1>2, <1>16, <2>2, <2>3, RouterAddCases
<1>17. ASSUME NEW r \in Requests, CreateFile(r)  PROVE  Counted'
  BY <1>2, <1>17, CreateFileCounted
<1>18. ASSUME NEW r \in Requests, EncodeFile(r)  PROVE  Counted'
  BY <1>2, <1>18, EncodeFileCounted
<1>19. CASE UNCHANGED vars
  <2>1. Stock' = Stock
    BY <1>19, StockKept DEF vars
  <2> QED
    BY <1>2, <1>19, <2>1 DEF vars, Counted, OneBusy, StockIsAcked, CopyIsFresh, LengthCounts,
       NumbersDiffer
<1>20. CASE ReadDir
  BY <1>2, <1>20, ReadDirCounted
<1> QED
  BY <1>6, <1>7, <1>8, <1>9, <1>10, <1>11, <1>12, <1>13, <1>14, <1>15, <1>16, <1>17, <1>18, <1>19,
     <1>20
  DEF Next

\* The last byte of an address tells 256 devices apart.
LEMMA AddressTells ==
    ASSUME NEW i \in 0 .. 255, NEW j \in 0 .. 255, DeviceIP(i) = DeviceIP(j)
    PROVE  i = j
<1>1. ASSUME NEW n \in 0 .. 255
      PROVE  DeviceIP(n) = IF n = 255 THEN 0 ELSE n + 1
  <2>1. CASE n = 255
    BY <2>1 DEF DeviceIP
  <2>2. CASE n # 255
    <3>1. 1 + n \in 0 .. 255
      BY <2>2
    <3>2. \A m \in 0 .. 255 : m % 256 = m
      OBVIOUS
    <3> QED
      BY <2>2, <3>1, <3>2 DEF DeviceIP
  <2> QED
    BY <2>1, <2>2
<1>2. DeviceIP(i) = IF i = 255 THEN 0 ELSE i + 1
  BY <1>1
<1>3. DeviceIP(j) = IF j = 255 THEN 0 ELSE j + 1
  BY <1>1
<1>4. (IF i = 255 THEN 0 ELSE i + 1) = (IF j = 255 THEN 0 ELSE j + 1)
  BY <1>2, <1>3
<1>5. CASE i = 255
  BY <1>4, <1>5
<1>6. CASE i # 255 /\ j = 255
  BY <1>4, <1>6
<1>7. CASE i # 255 /\ j # 255
  BY <1>4, <1>7
<1> QED
  BY <1>5, <1>6, <1>7

\* As long as requests come one at a time, after the devices are loaded, and the disk
\* does not fail, no two devices whose owners got a configuration have the same address,
\* for up to 256 device names: crashes between any two steps, failed boots and refused
\* requests never give a number twice.
THEOREM AddressesStayApart ==
    ASSUME PostsApart, IsFiniteSet(Names), Cardinality(Names) <= 256
    PROVE  Spec => []AddressesDiffer
<1> DEFINE J == IInv /\ (noise = "none" => Counted)
<1>1. Init => J
  BY InitAlways, InitCalm, InitCounted DEF IInv
<1>2. J /\ [Next]_vars => J'
  BY NextAlways, NextCalm, NextCounted DEF IInv
<1>3. J => AddressesDiffer
  <2> SUFFICES ASSUME IInv, Counted, NEW d \in acked, NEW e \in acked,
                      DeviceIP(d.id) = DeviceIP(e.id)
               PROVE  d = e
    BY DEF AddressesDiffer
  <2>1. \A f \in acked : f.id \in Nat /\ f.id < Cardinality(Stock)
    BY DEF IInv, Always, DeviceTypes, TypeOK, Finished, Device, Counted, NumbersDiffer
  <2>2. Cardinality(Stock) \in Nat /\ Cardinality(Stock) <= 256
    BY StockCount, FS_CardinalityType
  <2>3. \A f \in acked : f.id \in 0 .. 255
    BY <2>1, <2>2
  <2>4. d.id = e.id
    BY <2>3, AddressTells
  <2> QED
    BY <2>4 DEF Counted, NumbersDiffer
<1> HIDE DEF J
<1> QED
  BY <1>1, <1>2, <1>3, PTL DEF Spec
==============================================================================
