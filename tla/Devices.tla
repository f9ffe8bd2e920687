------------------------------- MODULE Devices -------------------------------
(***************************************************************************)
(* The external devices of the game and their files (cmd/ad/game.go,       *)
(* persist.go, flow.go, wireguard.go): AddDevice, called by concurrent     *)
(* POST /api/device requests, the loading of the persisted devices at      *)
(* boot, and restarts in between. No lock protects game.devices and        *)
(* FlowRouter.instances, so what each request does is cut at every access  *)
(* to them. A key pair is known by who made it, and when; a device's team  *)
(* is left out.                                                            *)
(***************************************************************************)
EXTENDS Integers, Sequences

CONSTANTS
    Names,            \* device names, numbers in the order ReadDir lists them
    Requests,         \* the POST /api/device requests that run at the same time
    Posts,            \* Posts[r]: the names that request r may post
    RouterMayFail,    \* whether the WireGuard router may return an error
    DiskMayFail,      \* whether creating or writing a file may return an error
    MaxBoots,         \* bound: how often the process is started
    MaxEarlyBoots,    \* the same once a request came before the devices were loaded
    Main,             \* the goroutine of Run
    Absent, Empty     \* no file; a file that was created and not yet written

Actors == Requests \cup {Main}
Key == [boot : Nat, by : Actors]
NoKey == [boot |-> 0, by |-> Main]
Device == [name : Names, id : Nat, key : Key]
Finished == {d \in Device : d.key # NoKey}   \* the devices a router made keys for
Saved == [id : Nat, key : Key]
Config == [side : {"device", "server"}, key : Key]

ASSUME DevicesAssumption ==
    /\ Names \subseteq Nat
    /\ Main \notin Requests
    /\ Posts \in [Requests -> SUBSET Names]
    /\ RouterMayFail \in BOOLEAN
    /\ DiskMayFail \in BOOLEAN
    /\ MaxBoots \in Nat /\ MaxEarlyBoots \in 0 .. MaxBoots
    /\ Absent # Empty
    /\ Absent \notin Saved /\ Empty \notin Saved /\ Absent \notin Config

VARIABLES
    boot,      \* "down", "starting": the web server is up, "loading", "ready",
               \* or "failed": Run returned an error
    todo,      \* the directory entries ForEach has still to visit
    flow,      \* the device names in FlowRouter.instances
    devices,   \* game.devices
    configs,   \* wireguardRouter.configs, by name: whose side of the tunnel, which keys
    files,     \* files[n]: Absent, Empty, or the ID and the keys in the device's file
    act,       \* act[a]: where a is, its device and the slice it read
    acked,     \* history: the devices whose request was answered without error
    noise,     \* history: the worst of "early", a request came in before the devices
               \* were loaded, "muddle", it overlapped another one or met a full disk,
               \* and "none"
    boots      \* how often the process was started

vars == <<boot, todo, flow, devices, configs, files, act, acked, noise, boots>>

Idle == [pc |-> "idle", dev |-> [name |-> 0, id |-> 0, key |-> NoKey], seen |-> <<>>]

\* The web server is started before the devices are loaded.
Serving == boot \in {"starting", "loading", "ready"}

At(a, where) == Serving /\ act[a].pc = where

Goes(a, where) == act' = [act EXCEPT ![a].pc = where]

\* The process is gone: its memory is lost, its files are not.
Dies(how) ==
    /\ boot' = how
    /\ todo' = {}
    /\ flow' = {}
    /\ devices' = <<>>
    /\ configs' = [n \in Names |-> Absent]
    /\ act' = [a \in Actors |-> Idle]

\* An error ends a request with an error page, and the program when Run meets it.
Fails(a) ==
    \/ a = Main /\ Dies("failed")
    \/ /\ a # Main
       /\ act' = [act EXCEPT ![a] = Idle]
       /\ UNCHANGED <<boot, todo, flow, devices, configs>>

-----------------------------------------------------------------------------
(* Run up to the loading of the devices *)

Boot ==
    /\ boot \in {"down", "failed"}
    /\ boots < IF noise = "early" THEN MaxEarlyBoots ELSE MaxBoots
    /\ boots' = boots + 1
    /\ boot' = "starting"
    /\ UNCHANGED <<todo, flow, devices, configs, files, act, acked, noise>>

\* ForEach lists the directory, with the files that early requests have created by then.
ReadDir ==
    /\ boot = "starting"
    /\ boot' = "loading"
    /\ todo' = {n \in Names : files[n] # Absent}
    /\ UNCHANGED <<flow, devices, configs, files, act, acked, noise, boots>>

\* A negative number asks createDevice for one: the number of devices there are.
NumberFor(id) == IF id < 0 THEN Len(devices) ELSE id

IsNext(n) == n \in todo /\ \A m \in todo : n <= m

\* ForEach opens the next file and decodes it; an empty file is an error.
LoadFile ==
    /\ At(Main, "idle")
    /\ \E n \in todo :
         /\ IsNext(n)
         /\ \/ /\ files[n] = Empty
               /\ Fails(Main)
            \/ /\ files[n] # Empty
               /\ todo' = todo \ {n}
               /\ act' = [act EXCEPT ![Main] =
                     [pc |-> "lookup", seen |-> <<>>,
                      dev |-> [name |-> n, id |-> NumberFor(files[n].id), key |-> files[n].key]]]
               /\ UNCHANGED <<boot, flow, devices, configs>>
    /\ UNCHANGED <<files, acked, noise, boots>>

AllLoaded ==
    /\ boot = "loading" /\ todo = {} /\ act[Main].pc = "idle"
    /\ boot' = "ready"
    /\ UNCHANGED <<todo, flow, devices, configs, files, act, acked, noise, boots>>

-----------------------------------------------------------------------------
(* AddDevice, and the steps Run shares with it *)

NoteRequest(r) ==
    noise' = IF noise = "early" \/ boot \in {"starting", "loading"} THEN "early"
             ELSE IF \E q \in Requests \ {r} : act[q].pc # "idle" THEN "muddle"
             ELSE noise

NoteFullDisk == noise' = IF noise = "early" THEN "early" ELSE "muddle"

\* A new device is numbered by the number of devices there are.
createDevice(r) ==
    /\ Serving /\ act[r].pc = "idle"
    /\ \E n \in Posts[r] :
          act' = [act EXCEPT ![r] = [pc |-> "lookup",
                     dev |-> [name |-> n, id |-> NumberFor(Len(devices)), key |-> NoKey],
                     seen |-> <<>>]]
    /\ NoteRequest(r)
    /\ UNCHANGED <<boot, todo, flow, devices, configs, files, acked, boots>>

\* Mutant: an existing instance is replaced.
FlowLookup_Replaces(a) ==
    /\ At(a, "lookup")
    /\ Goes(a, "insert")
    /\ UNCHANGED <<boot, todo, flow, devices, configs, files, acked, noise, boots>>

\* FlowRouter.AddInstance: the test, then the insertion.
FlowLookup(a) ==
    /\ At(a, "lookup")
    /\ IF act[a].dev.name \in flow
       THEN Fails(a)
       ELSE Goes(a, "insert") /\ UNCHANGED <<boot, todo, flow, devices, configs>>
    /\ UNCHANGED <<files, acked, noise, boots>>

FlowInsert(a) ==
    /\ At(a, "insert")
    /\ flow' = flow \cup {act[a].dev.name}
    /\ Goes(a, "router")
    /\ UNCHANGED <<boot, todo, devices, configs, files, acked, noise, boots>>

\* translateToDeviceConfig writes down the private key of the side whose configuration
\* it is given, and the public key of the other.
translateToDeviceConfig(side, key) == [side |-> side, key |-> key]

\* GET /wireguard/{config} answers with the entry of the map, or "config not found".
serveConfig(n) == configs[n]

\* Mutant: the configuration of the server is entered in the map.
RouterAdd_ServesServer(r) ==
    /\ At(r, "router")
    /\ LET made == [boot |-> boots, by |-> r]
       IN  /\ act' = [act EXCEPT ![r].pc = "append", ![r].dev.key = made]
           /\ configs' = [configs EXCEPT ![act[r].dev.name] =
                              translateToDeviceConfig("server", made)]
    /\ UNCHANGED <<boot, todo, flow, devices, files, acked, noise, boots>>

\* Mutant: the device is saved without the configuration that the router returned.
RouterAdd_WithoutKeys(r) ==
    /\ At(r, "router")
    /\ Goes(r, "append")
    /\ configs' = [configs EXCEPT ![act[r].dev.name] =
                      translateToDeviceConfig("device", [boot |-> boots, by |-> r])]
    /\ UNCHANGED <<boot, todo, flow, devices, files, acked, noise, boots>>

\* Router.AddDevice makes the keys of both sides and enters the device's side in the
\* map; GetConfig may still fail after that. The flow entry stays if it fails.
RouterAdd(r) ==
    /\ At(r, "router")
    /\ LET made == [boot |-> boots, by |-> r]
           entry == [configs EXCEPT ![act[r].dev.name] =
                         translateToDeviceConfig("device", made)]
       IN  \/ /\ act' = [act EXCEPT ![r].pc = "append", ![r].dev.key = made]
              /\ configs' = entry
           \/ /\ RouterMayFail
              /\ act' = [act EXCEPT ![r] = Idle]
              /\ configs' \in {configs, entry}
    /\ UNCHANGED <<boot, todo, flow, devices, files, acked, noise, boots>>

\* Mutant: the restored server gets keys of its own.
RestoreDevice_NewKeys ==
    /\ At(Main, "router")
    /\ act' = [act EXCEPT ![Main].pc = "append",
                         ![Main].dev.key = [boot |-> boots, by |-> Main]]
    /\ UNCHANGED <<boot, todo, flow, devices, configs, files, acked, noise, boots>>

\* Router.RestoreDevice: the server gets the keys of the file, which filterConfigToKeys
\* keeps. The map's entry is translated from that same configuration, the server's.
RestoreDevice ==
    /\ At(Main, "router")
    /\ \/ /\ Goes(Main, "append")
          /\ configs' = [configs EXCEPT ![act[Main].dev.name] =
                             translateToDeviceConfig("server", act[Main].dev.key)]
          /\ UNCHANGED <<boot, todo, flow, devices>>
       \/ RouterMayFail /\ Fails(Main)
    /\ UNCHANGED <<files, acked, noise, boots>>

\* game.devices = append(game.devices, dev): the slice is read, then replaced.
AppendRead(a) ==
    /\ At(a, "append")
    /\ act' = [act EXCEPT ![a].pc = "store", ![a].seen = devices]
    /\ UNCHANGED <<boot, todo, flow, devices, configs, files, acked, noise, boots>>

\* Mutant: a restored device is not listed.
AppendWrite_NotRestored(a) ==
    /\ At(a, "store")
    /\ devices' = IF a = Main THEN devices ELSE Append(act[a].seen, act[a].dev)
    /\ IF a = Main THEN act' = [act EXCEPT ![a] = Idle] ELSE Goes(a, "create")
    /\ UNCHANGED <<boot, todo, flow, configs, files, acked, noise, boots>>

AppendWrite(a) ==
    /\ At(a, "store")
    /\ devices' = Append(act[a].seen, act[a].dev)
    /\ IF a = Main THEN act' = [act EXCEPT ![a] = Idle] ELSE Goes(a, "create")
    /\ UNCHANGED <<boot, todo, flow, configs, files, acked, noise, boots>>

\* Persist.Set: os.Create empties the file, then Encode writes it.
CreateFile(r) ==
    /\ At(r, "create")
    /\ \/ /\ files' = [files EXCEPT ![act[r].dev.name] = Empty]
          /\ Goes(r, "encode")
          /\ UNCHANGED <<boot, todo, flow, devices, configs, noise>>
       \/ DiskMayFail /\ Fails(r) /\ NoteFullDisk /\ UNCHANGED files
    /\ UNCHANGED <<acked, boots>>

EncodeFile(r) ==
    /\ At(r, "encode")
    /\ \/ /\ files' = [files EXCEPT ![act[r].dev.name] =
                          [id |-> act[r].dev.id, key |-> act[r].dev.key]]
          /\ acked' = acked \cup {act[r].dev}
          /\ act' = [act EXCEPT ![r] = Idle]
          /\ UNCHANGED <<boot, todo, flow, devices, configs, noise>>
       \/ DiskMayFail /\ Fails(r) /\ NoteFullDisk /\ UNCHANGED <<files, acked>>
    /\ UNCHANGED boots

\* The process is stopped or dies, at any point.
Crash ==
    /\ Serving
    /\ Dies("down")
    /\ UNCHANGED <<files, acked, noise, boots>>

Init ==
    /\ boot = "down"
    /\ todo = {}
    /\ flow = {}
    /\ devices = <<>>
    /\ configs = [n \in Names |-> Absent]
    /\ files = [n \in Names |-> Absent]
    /\ act = [a \in Actors |-> Idle]
    /\ acked = {}
    /\ noise = "none"
    /\ boots = 0

Next ==
    \/ Boot \/ ReadDir \/ LoadFile \/ RestoreDevice \/ AllLoaded \/ Crash
    \/ \E a \in Actors :
          FlowLookup(a) \/ FlowInsert(a) \/ AppendRead(a) \/ AppendWrite(a)
    \/ \E r \in Requests : createDevice(r) \/ RouterAdd(r) \/ CreateFile(r) \/ EncodeFile(r)

Spec == Init /\ [][Next]_vars

-----------------------------------------------------------------------------
\* net.IPv4(10, 40, 30, 1+byte(id)), by its last byte.
DeviceIP(id) == (1 + id) % 256

\* The variables have their types: numbers are never negative, and a device whose
\* request was answered has the keys of a tunnel.
TypeOK ==
    /\ boot \in {"down", "starting", "loading", "ready", "failed"}
    /\ todo \subseteq Names
    /\ flow \subseteq Names
    /\ devices \in Seq(Device)
    /\ configs \in [Names -> Config \cup {Absent}]
    /\ files \in [Names -> Saved \cup {Absent, Empty}]
    /\ DOMAIN act = Actors
    /\ \A a \in Actors :
          act[a] = Idle \/ (act[a].dev \in Device /\ act[a].seen \in Seq(Device))
    /\ acked \subseteq Finished
    /\ noise \in {"none", "muddle", "early"}
    /\ boots \in 0 .. MaxBoots

\* No two devices whose owners got a configuration have the same address, whatever
\* restarts, refused requests and failures of the router lie between them. (Requests
\* that overlap read the same length, and a device whose file could not be written
\* leaves its number to a later one after a restart.)
AddressesDiffer ==
    noise = "none" => \A d, e \in acked : DeviceIP(d.id) = DeviceIP(e.id) => d = e

\* A device whose request was answered keeps its file, with its number and its keys:
\* later requests, their failures and crashes do not touch it. (Unless a request for a
\* known name came in before the devices were loaded: the flow router does not know it
\* yet. Requests that run at the same time post different names here.)
AcknowledgedIsKept ==
    noise # "early" =>
        \A d \in acked : files[d.name] = [id |-> d.id, key |-> d.key]

\* The configuration an owner got when the device was added stays good: after any
\* number of crashes and restarts, whenever its device is listed, it has the address
\* and the server keys that configuration names. (With the same exceptions.)
OwnersStayConnected ==
    noise # "early" =>
        \A d \in acked, i \in DOMAIN devices : devices[i].name = d.name => devices[i] = d

\* What GET /wireguard/{config} serves for a listed device belongs to the device's own
\* tunnel, and for a device added since the process started it is the device's side of
\* it. (With the same exceptions; a restored device is served the server's side.)
ServedConfigFits ==
    noise # "early" => \A i \in DOMAIN devices :
        LET d == devices[i]
            c == serveConfig(d.name)
        IN  c # Absent /\ c.key = d.key /\ (d.key.boot = boots => c.side = "device")

\* Every boot loads every acknowledged device ("Load all existing device
\* configurations", game.go:950), unless requests came in before it was over.
AcknowledgedIsLoaded ==
    boot \in {"ready", "failed"} /\ noise # "early" =>
        \A d \in acked : \E i \in DOMAIN devices : devices[i] = d
==============================================================================
