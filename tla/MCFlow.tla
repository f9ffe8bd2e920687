------------------------------- MODULE MCFlow -------------------------------
(* Module Flow with the example configuration, for two teams and three devices. *)
EXTENDS FlowExample, TLC

Names == 0 :> "a" @@ 1 :> "b"

\* Of the services of a vulnbox, which its bot has too, one of each tag.
OneOfEachTag == {s \in BoxServices : s.port \in {2222, 5000}}
FewServices == [ExampleServices EXCEPT !.team = OneOfEachTag, !.bot = OneOfEachTag]

\* Device 9 has the address of the bot of team 0; there is no team "c".
ThreeDevices == 0 :> "a" @@ 1 :> "c" @@ 9 :> "b"
=============================================================================
