------------------------------ MODULE MCPlanner ------------------------------
(***************************************************************************)
(* Drafts with one of the things that make planning hard, or two.          *)
(***************************************************************************)
EXTENDS Planner

MCKindOf == [nginx |-> "proxy", node |-> "backend", go |-> "backend", pg |-> "database"]
MCResolved == [pgsql |-> "pg"]
Nr(base, nr) == [base |-> base, nr |-> nr]
\* "db-1" is in "db-12", and every name in itself.
MCContains == {<<n, m>> \in Names \X Names : n = m \/ (n.base = m.base /\ m.nr = 0)}

S(name, image, needs) ==
  [name |-> name, image |-> image, replicas |-> 1, needs |-> needs, form |-> "ok"]
Api == S(Plain("api"), "node", {})
Two == <<S(Plain("web"), "nginx", {}), Api, S(Plain("go"), "go", {})>>
MCDrafts == {
  Two,
  \* two databases, one of which waits for the backend
  <<Api, S(Plain("db"), "pg", {Plain("api")}), S(Nr("db", 1), "pg", {})>>,
  <<S(NoName, "node", {}), S(Plain("pgsql"), "pgsql", {}), S(Nr("db", 1), "pg", {Plain("pgsql")})>>,
  \* replicas of a database, and a name they take
  <<Api, [S(Plain("db"), "pg", {Plain("api")}) EXCEPT !.replicas = 2]>>,
  <<Api, [S(Plain("db"), "pg", {}) EXCEPT !.replicas = 2], S(Nr("db", 1), "pg", {})>>,
  \* the same name twice, a malformed field
  <<S(NoName, "nginx", {}), S(NoName, "nginx", {})>>,
  <<[Api EXCEPT !.form = "bad"]>>,
  \* images that are unknown or not given
  <<S(NoName, "odd", {}), S(Plain("api"), "odd", {Plain("odd")}), S(Plain("db"), "pg", {})>>,
  <<S(NoName, "none", {}), S(Plain("web"), "nginx", {}), S(Plain("api"), "none", {})>>,
  <<S(Plain("go"), "odd", {Plain("go")}), S(Plain("go"), "none", {}), S(NoName, "pg", {})>>}

MCAnySpecs == {Build(Two), [Build(Two) EXCEPT ![1].deps = {Plain("api")}]}

Cfg(iterations, repeat, calls, progress) ==
  [maxIterations |-> iterations, repeatTolerance |-> repeat, maxCallsPerTool |-> calls,
   noProgressTolerance |-> progress]
MCConfigs == {Cfg(5, 3, 6, 3), Cfg(2, 4, 4, 4), Cfg(6, 4, 3, 4), Cfg(6, 4, 6, 2), Cfg(1, 1, 1, 1)}

=============================================================================
