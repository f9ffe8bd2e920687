----------------------------- MODULE FlagLedger -----------------------------
(***************************************************************************)
(* What the scoreboard promises about flags, without boards, locks or      *)
(* connections: a ledger of credits. A flag planted in tick n can be       *)
(* credited to each other team or bot once, until Window ticks after n.    *)
(* Credits are only ever added; closing a tick moves none and loses none.  *)
(***************************************************************************)
EXTENDS Integers

CONSTANTS
    Thieves,   \* the rows of the scoreboard
    Flags,     \* records with a tick and the team they are planted on
    Window     \* for how many ticks a flag stays valid

VARIABLES
    now,       \* the tick flags are counted for
    planted,   \* the flags that exist
    credits    \* credits[t][f]: how often f has been credited to t

Init ==
    /\ now = 0
    /\ planted = {}
    /\ credits = [t \in Thieves |-> [f \in Flags |-> 0]]

Advance ==
    /\ now' = now + 1
    /\ UNCHANGED <<planted, credits>>

Plant(f) ==
    /\ f.tick = now
    /\ planted' = planted \cup {f}
    /\ UNCHANGED <<now, credits>>

Credit(t, f) ==
    /\ f \in planted
    /\ f.team # t
    /\ now <= f.tick + Window
    /\ credits[t][f] = 0
    /\ credits' = [credits EXCEPT ![t][f] = 1]
    /\ UNCHANGED <<now, planted>>

Next ==
    \/ Advance
    \/ \E f \in Flags : Plant(f)
    \/ \E t \in Thieves, f \in Flags : Credit(t, f)

Spec == Init /\ [][Next]_<<now, planted, credits>>
=============================================================================
