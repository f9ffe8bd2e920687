----------------------------- MODULE FlowExample -----------------------------
(***************************************************************************)
(* The tags, flows and services of the example game                        *)
(* (examples/basic/config.yml), as values for the constants of module Flow.*)
(***************************************************************************)
EXTENDS Flow

Tag(t, i) == [tag |-> t, instance |-> i]
To(t, i, s) == [tag |-> t, instance |-> i, service |-> s]
Service(p, t) == [port |-> p, tag |-> t]

ExampleTags ==
    [host |-> {Tag("public", "host")}, scorebot |-> {Tag("scorebot", "scorebot")},
     team |-> {Tag("team", "{team}")}, soc |-> {Tag("team", "{team}")},
     bot |-> {Tag("bot", "{team}")}, device |-> {Tag("device", "{team}")}]

Everyone == {To("public", "*", "public")}

ExampleFlows ==
    [host |-> {},
     scorebot |-> Everyone \cup {To("team", "*", "public"), To("bot", "*", "public")},
     team |-> Everyone \cup {To("team", "*", "public"), To("bot", "{team}", "public"),
                             To("device", "{team}", "public")},
     soc |-> Everyone \cup {To("team", "*", "public"), To("team", "{team}", "private"),
                            To("bot", "{team}", "private")},
     bot |-> Everyone \cup {To("team", "{team}", "public"), To("bot", "{team}", "public")},
     device |-> Everyone \cup {To("team", "*", "public"), To("team", "{team}", "private"),
                               To("bot", "{team}", "public")}]

BoxServices == {Service(2222, "private"), Service(5000, "public"),
                Service(5001, "public"), Service(4242, "private")}

SocServices == {Service(2222, "private"), Service(80, "private")}

ScorebotServices == {Service(2222, "private")}

\* The web server, the ping service and the submission of flags of the game itself.
HostServices == {Service(80, "public"), Service(8080, "public"), Service(5000, "public")}

ExampleServices ==
    [host |-> HostServices, scorebot |-> ScorebotServices, team |-> BoxServices,
     bot |-> BoxServices, soc |-> SocServices, device |-> {}]

\* A game configured as the example is, whatever its teams and devices.
ExampleConfig ==
    /\ ConfigTags = ExampleTags
    /\ ConfigFlows = ExampleFlows
    /\ ConfigServices = ExampleServices
==============================================================================
