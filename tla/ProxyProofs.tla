----------------------------- MODULE ProxyProofs -----------------------------
(***************************************************************************)
(* Proofs about module Proxy, for every set of callers and every kind of   *)
(* connection on either side.                                              *)
(***************************************************************************)
EXTENDS Proxy, TLAPS

(***************************************************************************)
(* The inductive invariant. NilMeansClosed speaks of Proxy and the two     *)
(* connections; between them lie the brokers and the signals they send.    *)
(* A broker closes its source before it signals (ClosedFirst), its signal  *)
(* is the last thing it does (SignalledAtEnd), and Proxy has taken the     *)
(* signal of every broker it no longer waits for (Awaited).                *)
(***************************************************************************)

ProxyTypes ==
    /\ closed \in [Sides -> BOOLEAN]
    /\ signal \in [Sides -> BOOLEAN]
    /\ broker \in [Sides -> {"copy", "fail", "sendErr", "close", "sendCloseErr",
                             "signal", "end"}]
    /\ main \in {"select", "waitSrv", "waitCli", "err", "nil"}

ClosedFirst ==
    \A x \in Sides : broker[x] \in {"sendCloseErr", "signal", "end"} => closed[x]

SignalledAtEnd == \A x \in Sides : signal[x] => broker[x] = "end"

Awaited ==
    /\ main \in {"waitSrv", "nil"} => broker["cli"] = "end"
    /\ main \in {"waitCli", "nil"} => broker["srv"] = "end"

IInv == ProxyTypes /\ ClosedFirst /\ SignalledAtEnd /\ Awaited

\* The invariant holds when Proxy is called.
LEMMA InitIInv == Init => IInv
BY DEF Init, IInv, ProxyTypes, ClosedFirst, SignalledAtEnd, Awaited, Sides

\* Every step of a far end, a broker, Proxy or its caller keeps the invariant.
LEMMA NextIInv == IInv /\ [Next]_vars => IInv'
<1> SUFFICES ASSUME IInv, [Next]_vars  PROVE  IInv'
  OBVIOUS
<1> USE DEF IInv, ProxyTypes, ClosedFirst, SignalledAtEnd, Awaited, brokerVars, Sides
<1>1. ASSUME NEW x \in Sides, PeerSends(x) \/ PeerLeaves(x)  PROVE  IInv'
  BY <1>1 DEF PeerSends, PeerLeaves
<1>2. ASSUME NEW x \in Sides, CopyData(x)  PROVE  IInv'
  BY <1>2 DEF CopyData
<1>3. ASSUME NEW x \in Sides, CopyEnds(x) \/ CopyFails(x)  PROVE  IInv'
  BY <1>3 DEF CopyEnds, CopyFails
<1>4. ASSUME NEW x \in Sides, CloseOnError(x)  PROVE  IInv'
  BY <1>4 DEF CloseOnError
<1>5. ASSUME NEW x \in Sides, SendError(x)  PROVE  IInv'
  BY <1>5 DEF SendError
<1>6. ASSUME NEW x \in Sides, CloseSource(x)  PROVE  IInv'
  <2>1. PICK next \in {"sendCloseErr", "signal"} :
            broker' = [broker EXCEPT ![x] = next]
    BY <1>6 DEF CloseSource
  <2> QED
    BY <1>6, <2>1 DEF CloseSource
<1>7. ASSUME NEW x \in Sides, SignalClosed(x)  PROVE  IInv'
  BY <1>7 DEF SignalClosed
<1>8. ASSUME NEW x \in Sides, FirstClosed(x)  PROVE  IInv'
  BY <1>8 DEF FirstClosed
<1>9. ASSUME NEW x \in Sides, OtherClosed(x)  PROVE  IInv'
  BY <1>9 DEF OtherClosed
<1>10. CASE ErrorReceived
  BY <1>10 DEF ErrorReceived
<1>11. CASE CallerCloses
  BY <1>11 DEF CallerCloses
<1>12. CASE UNCHANGED vars
  BY <1>12 DEF vars
<1> QED
  BY <1>1, <1>2, <1>3, <1>4, <1>5, <1>6, <1>7, <1>8, <1>9, <1>10, <1>11, <1>12
  DEF Next, BrokerStep, MainStep

\* The invariant holds in every state of every call of Proxy.
LEMMA Invariance == Spec => []IInv
<1>1. Init => IInv
  BY InitIInv
<1>2. IInv /\ [Next]_vars => IInv'
  BY NextIInv
<1> QED
  BY <1>1, <1>2, PTL DEF Spec

-----------------------------------------------------------------------------
(* The theorems *)

\* Proxy returns nil only after both connections were closed, whoever calls it, and
\* whatever the far ends do and in whichever order the brokers fail.
THEOREM NilAfterBothClosed == Spec => []NilMeansClosed
<1>1. IInv => NilMeansClosed
  BY DEF IInv, ClosedFirst, Awaited, NilMeansClosed, Sides
<1> QED
  BY <1>1, Invariance, PTL

\* Both goroutines of Proxy are at their end when it returns nil: neither copies,
\* reports an error or signals any more.
BrokersEnded == main = "nil" => \A x \in Sides : broker[x] = "end"

\* When Proxy returns nil no copy goes on behind the caller's back.
THEOREM NilAfterBothBrokers == Spec => []BrokersEnded
<1>1. IInv => BrokersEnded
  BY DEF IInv, Awaited, BrokersEnded, Sides
<1> QED
  BY <1>1, Invariance, PTL

\* serverClosed and clientClosed, of capacity one, are empty when their broker sends.
RoomToSignal == \A x \in Sides : broker[x] = "signal" => ~ signal[x]

\* The last statement of a broker never waits: its channel has room, whether or not
\* Proxy still receives from it. So only the sends to errC can keep a broker for ever.
THEOREM SignalsNeverWait == Spec => []RoomToSignal
<1>1. IInv => RoomToSignal
  BY DEF IInv, SignalledAtEnd, RoomToSignal
<1> QED
  BY <1>1, Invariance, PTL
==============================================================================
