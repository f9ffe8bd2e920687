------------------------------- MODULE MCBoot -------------------------------
(* Module Boot with the constants of TLC's small instances. *)
EXTENDS Boot, TLC

CONSTANTS t1, t2

TwoTeams == <<t1, t2>>

\* The vulnbox and its bot share a template.
TwoTemplates == [k \in Kinds |-> IF k \in {"team", "bot"} THEN "vulnbox" ELSE "box"]

\* Different names, and names such that the bot of t1 is called like the vulnbox of t2.
DistinctOrClashing ==
    LET distinct == [i \in Instances |-> i]
    IN  {distinct, [distinct EXCEPT ![<<t2, "team">>] = <<t1, "bot">>]}

\* The scorebot and the vulnbox of the second team.
TwoMachines == {<<Main, "scorebot">>, <<t2, "team">>}

\* A run before this one had started those two, no other machine.
EarlierRun == {TwoMachines}
=============================================================================
