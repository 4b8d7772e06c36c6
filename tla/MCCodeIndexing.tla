--------------------------- MODULE MCCodeIndexing ---------------------------
(* Small instance of ServiceCorrelation: a service at the root of the      *)
(* repository and two below it, one of which changes its name and comes to *)
(* depend on the root's, so that the dependencies form a cycle.            *)
EXTENDS ServiceCorrelation

Dirs == [root |-> Files, api |-> {"api", "main"}, lib |-> {"lib"}]
Globs == [root |-> {"main"}, api |-> {"main"}, lib |-> {}]
NameOf == [root |-> [c \in Contents |-> "app"],
           api |-> [a |-> "api", b |-> "api2"],
           lib |-> [c \in Contents |-> "lib"]]
DependsOn == [root |-> [c \in Contents |-> {"api", "api2", "lib"}],
              api |-> [a |-> {"lib"}, b |-> {"app"}],
              lib |-> [c \in Contents |-> {}]]
Listed == [compose |-> [a |-> {"api"}, b |-> {"app", "api2"}],
           tf |-> [c \in Contents |-> {}]]

OneCommit == {[f \in Files |-> "a"]}
Changes == {<<"api", "b">>, <<"api", "broken">>, <<"main", "b">>,
            <<"compose", "absent">>, <<"compose", "b">>}

Group == [site |-> "dev", db |-> "prod"]
ByPath == [compose |-> {}, tf |-> {"dev"}]
Answers == {[targets |-> {}, named |-> {}], [targets |-> {"prod"}, named |-> {"dev"}]}

\* Many moves and scans without agents; scans of which agents read the
\* services; and agents that correlate what one scan extracted.
Bounds == {[moves |-> 2, scans |-> 2, domains |-> {{}}],
           [moves |-> 1, scans |-> 2, domains |-> {{"services"}}],
           [moves |-> 0, scans |-> 1,
            domains |-> {{"iac", "service_relationships"}, AllDomains}]}
=============================================================================
