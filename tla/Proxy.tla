-------------------------------- MODULE Proxy --------------------------------
(***************************************************************************)
(* common.Proxy (pkg/common/proxy.go): two brokers copy between a server   *)
(* and a client connection while Proxy waits for both to end, with its     *)
(* channels serverClosed, clientClosed and errC of capacity 1. The callers *)
(* are tinyRangeInstance.AcceptConn and the SSH server of the game.        *)
(***************************************************************************)
EXTENDS Integers

CONSTANTS
    Callers    \* who calls Proxy, and with what: a set of records
               \*   kind : the kind of each connection, "tcp" (*net.TCPConn),
               \*          "gonet" or "ssh"
               \*   closes : whether the caller closes srvConn when Proxy returns

Sides == {"srv", "cli"}
Other(x) == IF x = "srv" THEN "cli" ELSE "srv"

ASSUME CallersAssumption ==
    Callers \subseteq [kind : [Sides -> {"tcp", "gonet", "ssh"}], closes : BOOLEAN]

VARIABLES
    caller,   \* the caller of this Proxy
    peer,     \* what the far end of each connection did: "open", "eof", "reset"
    inbox,    \* whether bytes of the far end wait to be copied
    closed,   \* whether the connection was Closed on this side
    readShut, \* whether CloseRead was called on it
    broker,   \* broker[x]: where the broker that reads from x is
    signal,   \* signal[x]: clientClosed or serverClosed holds its value
    errC,     \* whether errC holds an error
    main      \* where Proxy is

brokerVars == <<closed, broker, signal, errC>>
vars == <<caller, peer, inbox, closed, readShut, broker, signal, errC, main>>

Kind == caller.kind

Init ==
    /\ caller \in Callers
    /\ peer = [x \in Sides |-> "open"]
    /\ inbox = [x \in Sides |-> FALSE]
    /\ closed = [x \in Sides |-> FALSE]
    /\ readShut = [x \in Sides |-> FALSE]
    /\ broker = [x \in Sides |-> "copy"]
    /\ signal = [x \in Sides |-> FALSE]
    /\ errC = FALSE
    /\ main = "select"

-----------------------------------------------------------------------------
(* The far ends *)

PeerSends(x) ==
    /\ peer[x] = "open"
    /\ inbox' = [inbox EXCEPT ![x] = TRUE]
    /\ UNCHANGED <<peer, readShut, brokerVars, main>>

PeerLeaves(x) ==
    /\ peer[x] = "open"
    /\ peer' \in {[peer EXCEPT ![x] = how] : how \in {"eof", "reset"}}
    /\ UNCHANGED <<inbox, readShut, brokerVars, main>>

-----------------------------------------------------------------------------
(* broker: src is x, dst is Other(x) *)

\* io.CopyBuffer moves what there is, or fails to write it.
CopyData(x) ==
    /\ broker[x] = "copy" /\ ~ closed[x] /\ ~ readShut[x]
    /\ inbox[x]
    /\ inbox' = [inbox EXCEPT ![x] = FALSE]
    /\ broker' = [broker EXCEPT ![x] =
            IF closed[Other(x)] \/ peer[Other(x)] = "reset" THEN "fail" ELSE "copy"]
    /\ UNCHANGED <<peer, closed, readShut, signal, errC, main>>

\* The read ends without an error. An SSH channel ends so even if its far end is lost.
CopyEnds(x) ==
    /\ broker[x] = "copy"
    /\ \/ readShut[x] \/ closed[x]
       \/ peer[x] = "eof" /\ ~ inbox[x]
       \/ peer[x] = "reset" /\ Kind[x] = "ssh"
    /\ broker' = [broker EXCEPT ![x] = "close"]
    /\ UNCHANGED <<peer, inbox, closed, readShut, signal, errC, main>>

\* The read fails.
CopyFails(x) ==
    /\ broker[x] = "copy"
    /\ Kind[x] # "ssh"
    /\ closed[x] \/ peer[x] = "reset"
    /\ broker' = [broker EXCEPT ![x] = "fail"]
    /\ UNCHANGED <<peer, inbox, closed, readShut, signal, errC, main>>

\* src.Close() of the error branch; its own error is not looked at.
CloseOnError(x) ==
    /\ broker[x] = "fail"
    /\ closed' = [closed EXCEPT ![x] = TRUE]
    /\ broker' = [broker EXCEPT ![x] = "sendErr"]
    /\ UNCHANGED <<peer, inbox, readShut, signal, errC, main>>

\* errC <- err after a failed copy, and after a failed Close: it waits for room.
SendError(x) ==
    /\ broker[x] \in {"sendErr", "sendCloseErr"}
    /\ ~ errC
    /\ errC' = TRUE
    /\ broker' = [broker EXCEPT ![x] = IF @ = "sendErr" THEN "close" ELSE "signal"]
    /\ UNCHANGED <<peer, inbox, closed, readShut, signal, main>>

\* Whether Close fails. A closed *net.TCPConn or SSH channel fails to close again. The
\* channel has been closed already if its connection is lost, and perhaps if its far
\* end is done: that may have closed it, or only have sent an EOF.
CloseFails(x) ==
    IF Kind[x] = "ssh" /\ ~ closed[x] /\ peer[x] = "eof" THEN BOOLEAN
    ELSE {\/ closed[x] /\ Kind[x] # "gonet"
          \/ peer[x] = "reset" /\ Kind[x] = "ssh"}

\* Mutant: the broker leaves its source open.
CloseSource_Forgotten(x) ==
    /\ broker[x] = "close"
    /\ broker' = [broker EXCEPT ![x] = "signal"]
    /\ UNCHANGED <<peer, inbox, closed, readShut, signal, errC, main>>

CloseSource(x) ==
    /\ broker[x] = "close"
    /\ closed' = [closed EXCEPT ![x] = TRUE]
    /\ \E fails \in CloseFails(x) :
          broker' = [broker EXCEPT ![x] = IF fails THEN "sendCloseErr" ELSE "signal"]
    /\ UNCHANGED <<peer, inbox, readShut, signal, errC, main>>

\* srcClosed <- struct{}{}: each broker sends once, into a buffer of one.
SignalClosed(x) ==
    /\ broker[x] = "signal"
    /\ signal' = [signal EXCEPT ![x] = TRUE]
    /\ broker' = [broker EXCEPT ![x] = "end"]
    /\ UNCHANGED <<peer, inbox, closed, readShut, errC, main>>

BrokerStep(x) ==
    \/ CopyData(x) \/ CopyEnds(x) \/ CopyFails(x) \/ CloseOnError(x)
    \/ SendError(x) \/ CloseSource(x) \/ SignalClosed(x)

-----------------------------------------------------------------------------
(* Proxy *)

\* CloseRead on srvConn when it is a *net.TCPConn. The branches meant for cliConn
\* assert the type of srvConn too, so they shut srvConn again.
ShutServer == readShut' = [readShut EXCEPT !["srv"] = @ \/ Kind["srv"] = "tcp"]

\* Mutant: it goes on to wait for the half that has ended.
FirstClosed_SameAgain(x) ==
    /\ main = "select" /\ signal[x]
    /\ signal' = [signal EXCEPT ![x] = FALSE]
    /\ ShutServer
    /\ main' = IF x = "cli" THEN "waitCli" ELSE "waitSrv"
    /\ UNCHANGED <<peer, inbox, closed, broker, errC>>

FirstClosed(x) ==
    /\ main = "select" /\ signal[x]
    /\ signal' = [signal EXCEPT ![x] = FALSE]
    /\ ShutServer
    /\ main' = IF x = "cli" THEN "waitSrv" ELSE "waitCli"
    /\ UNCHANGED <<peer, inbox, closed, broker, errC>>

ErrorReceived ==
    /\ main = "select" /\ errC
    /\ errC' = FALSE
    /\ ShutServer
    /\ main' = "err"
    /\ UNCHANGED <<peer, inbox, closed, broker, signal>>

OtherClosed(x) ==
    /\ main = (IF x = "srv" THEN "waitSrv" ELSE "waitCli")
    /\ signal[x]
    /\ signal' = [signal EXCEPT ![x] = FALSE]
    /\ main' = "nil"
    /\ UNCHANGED <<peer, inbox, closed, readShut, broker, errC>>

\* The deferred other.Close() of AcceptConn.
CallerCloses ==
    /\ caller.closes
    /\ main \in {"nil", "err"} /\ ~ closed["srv"]
    /\ closed' = [closed EXCEPT !["srv"] = TRUE]
    /\ UNCHANGED <<peer, inbox, readShut, broker, signal, errC, main>>

MainStep ==
    \/ \E x \in Sides : FirstClosed(x) \/ OtherClosed(x)
    \/ ErrorReceived \/ CallerCloses

Next ==
    /\ \/ \E x \in Sides : PeerSends(x) \/ PeerLeaves(x) \/ BrokerStep(x)
       \/ MainStep
    /\ UNCHANGED caller

\* The goroutines are scheduled; the far ends may stay silent for ever.
Spec ==
    /\ Init /\ [][Next]_vars
    /\ \A x \in Sides : WF_vars(BrokerStep(x) /\ UNCHANGED caller)
    /\ WF_vars(MainStep /\ UNCHANGED caller)

-----------------------------------------------------------------------------
Returned == main \in {"nil", "err"}

\* Proxy returns nil only after both connections were closed, so that no copy goes
\* on behind the caller's back.
NilMeansClosed == main = "nil" => closed["srv"] /\ closed["cli"]

\* If the far ends close and no copy ever fails, Proxy returns and both brokers end.
CleanCloseReturns ==
    <>[](\A x \in Sides : peer[x] = "eof") /\ [](\A x \in Sides : broker[x] # "fail")
        => <>(Returned /\ \A x \in Sides : broker[x] = "end")

\* Once both far ends have gone, Proxy returns (it waits for both brokers to "ensure
\* all copies terminate correctly", proxy.go:60).
ReturnsWhenPeersLeave == (\A x \in Sides : peer[x] # "open") ~> Returned
==============================================================================
