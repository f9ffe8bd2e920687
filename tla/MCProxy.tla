------------------------------- MODULE MCProxy -------------------------------
(* Module Proxy with its two callers. *)
EXTENDS Proxy

\* AcceptConn: both ends are connections of the userspace network.
AcceptConn == [kind |-> [x \in Sides |-> "gonet"], closes |-> TRUE]

\* startSshServer: a channel of the SSH client and a connection to the instance. The
\* channel is closed only when the whole SSH connection ends.
SshServer ==
    [kind |-> [x \in Sides |-> IF x = "srv" THEN "ssh" ELSE "gonet"], closes |-> FALSE]

BothCallers == {AcceptConn, SshServer}
==============================================================================
