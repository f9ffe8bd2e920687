------------------------------ MODULE MCDevices ------------------------------
(* Module Devices with the requests of TLC's small instances. *)
EXTENDS Devices, TLC

CONSTANTS r1, r2

\* One request after the other, for any name.
OneAtATime == r1 :> Names

\* Two requests at the same time, for different names.
NamesApart == r1 :> {1} @@ r2 :> {2}
==============================================================================
