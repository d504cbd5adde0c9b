------------------------------- MODULE MCRevision -------------------------------
(* Small instances of Revision: a shop of a proxy, a backend and databases. *)
EXTENDS Revision

P == <<"p">>
Vol(of, nrs) == [in |-> P, of |-> of, nrs |-> nrs]
Net == [in |-> P, of |-> <<"net">>, nrs |-> <<>>]

McProfiles ==
  [nginx    |-> [kind |-> "proxy", tags |-> {"1"}, default |-> "1", ports |-> <<80>>, env |-> {}, data |-> ""],
   node     |-> [kind |-> "backend", tags |-> {"1"}, default |-> "1", ports |-> <<>>, env |-> {}, data |-> ""],
   postgres |-> [kind |-> "database", tags |-> {"1"}, default |-> "1", ports |-> <<>>,
                 env |-> {<<"POSTGRES_PASSWORD", "x">>}, data |-> "pgdata"],
   mysql    |-> [kind |-> "database", tags |-> {"1"}, default |-> "1", ports |-> <<>>,
                 env |-> {<<"MYSQL_PASSWORD", "x">>}, data |-> "mydata"]]
McSecrets == {"POSTGRES_PASSWORD", "MYSQL_PASSWORD"}
Image(family) == [family |-> family, tag |-> "1"]

Svc(name, kind, family, deps) ==
  [name |-> name, kind |-> kind, image |-> Image(family), replicas |-> 0, deps |-> deps,
   mounts |-> {}, ports |-> <<>>, env |-> {}, status |-> "running"]
Proxy == [Svc(<<"web">>, "proxy", "nginx", {<<"api">>}) EXCEPT !.ports = <<80>>]
Db(name, vol, deps) ==
  [Svc(name, "database", "postgres", deps) EXCEPT
     !.env = {<<"POSTGRES_PASSWORD", "x">>}, !.mounts = {[from |-> vol, at |-> "pgdata"]}]
Shop(databases) ==
  [project |-> P, networks |-> {Net}, volumes |-> UNION {Sources(d) : d \in databases},
   services |-> {Proxy, Svc(<<"api">>, "backend", "node", NamesOf(databases))} \cup databases]

Single == Shop({Db(<<"postgres">>, Vol(<<"postgres">>, <<>>), {})})
Pair == Shop({Db(<<"postgres", 1>>, Vol(<<"postgres">>, <<1>>), {}),
              Db(<<"postgres", 2>>, Vol(<<"postgres">>, <<2>>), {<<"postgres", 1>>})})

Patch(op, target, arg) ==
  [op |-> op, target |-> target, from |-> <<>>, arg |-> arg, resolves |-> {}, affects |-> {}]
ByName(n) == [AnyService EXCEPT !.name = n]
ByKind(k) == [AnyService EXCEPT !.kind = k]
GroupOf(f) == [AnyService EXCEPT !.group = "replica-group", !.family = f]
Plan(patches) == [from |-> "model", patches |-> patches, asks |-> "no"]
Which == [from |-> "model", patches |-> <<>>, asks |-> "which"]

Resizing == Patch("set-service-replicas", ByKind("database"), 3)
Shrinking == Patch("set-service-replicas", GroupOf("postgres"), 1)
(* The form the prompt asks for, one service by its name as a service, and *)
(* two things said of one replica.                                         *)
Service(n) == [ByName(n) EXCEPT !.group = "service"]
Growing == Patch("set-service-replicas", Service(<<"postgres">>), 2)
OneByName == Patch("set-service-replicas", Service(<<"postgres", 1>>), 2)
OneOfAll == Patch("set-service-replicas",
                  [ByKind("database") EXCEPT !.neededBy = <<"postgres", 2>>], 2)
Cloning == Patch("set-service-replicas", ByName(<<"api">>), 2)
Swapping == Patch("set-service-image", GroupOf("postgres"), Image("mysql"))
Foreign == Patch("set-service-image", ByName(<<"api">>), Image("other"))
Dropping == Patch("remove-service", ByKind("proxy"), 0)
Moving == Patch("set-project-name", AnyService, <<"q">>)
Mounting == Patch("add-service-volume", ByName(<<"api">>), [from |-> HostPath, at |-> "sock"])
Opening == Patch("add-service-port", ByName(<<"api">>), 81)
Porting == Patch("replace-service-port", ByName(<<"web">>), 81)
Closing == Patch("remove-service-port", ByName(<<"web">>), 0)
Circling == Patch("add-service-dependency", ByName(<<"api">>), <<"web">>)
Dangling == Patch("add-service-dependency", ByName(<<"api">>), <<"ghost">>)
Renaming == Patch("rename-service", ByName(<<"api">>), <<"app">>)
Adding == Patch("add-service", AnyService, [Svc(<<"more">>, "backend", "other", {}) EXCEPT !.ports = <<82>>])

(* A snapshot that sync has written: the backend publishes a port.         *)
Synced == [Single EXCEPT !.services = {IF s.kind = "backend" THEN [s EXCEPT !.ports = <<83>>] ELSE s : s \in @}]
McSpecs == [adjust |-> <<Single, Pair, Synced>>, preview |-> <<Single, Pair>>, runtime |-> <<Single, Pair>>]
(* The snapshots are such that databases are kept on their volumes.        *)
ASSUME McVolumesAssumption == OnOwnVolumes
(* Their groups are whole.                                                 *)
ASSUME McGroupsAssumption == WholeSnapshots
(* No service of theirs but a database is called like a replica.           *)
ASSUME McNamesAssumption == PlainNames

McPlans ==
  <<NoPlan, Which, Plan(<<Resizing>>), Plan(<<Shrinking>>), Plan(<<Cloning, Moving>>),
    Plan(<<Swapping, Patch("set-service-replicas", ByName(<<"postgres">>), 2)>>),
    Plan(<<Foreign, Dropping>>), Plan(<<Dropping>>), Plan(<<Mounting, Opening>>), Plan(<<Closing, Circling>>),
    Plan(<<Porting, Renaming, Adding>>), Plan(<<Dangling>>)>>
Always(plans) == [m \in {"adjust", "preview", "runtime"} |-> plans]
McPlansOf ==
  [Always(McPlans) EXCEPT
     !.adjust = @ \o <<Plan(<<Resizing, OneOfAll>>), Plan(<<Growing, OneByName>>)>>,
     !.runtime =
     <<NoPlan, Which, Plan(<<Foreign, Dropping>>), Plan(<<Dropping>>),
       Plan(<<Porting, Renaming>>), Plan(<<Swapping>>)>>]
McRequests ==
  <<Silent, Said(""), [Silent EXCEPT !.text = "said", !.replicas = 2, !.total = "yes"],
    [Silent EXCEPT !.text = "said", !.replicas = 9], Said("remove-service")>>

PullFailed(name) ==
  [code |-> "IMAGE_PULL_FAILED", at |-> name, about |-> "image", speak |-> "yes", action |-> "ask-user"]
Hint == [op |-> "nothing", names |-> {}, families |-> {}, proxy |-> "no", target |-> NoName,
         from |-> <<>>, arg |-> NoName]
(* "image pull failed: ..." of the deploy loop is read as an image "pull". *)
Pull(name, family) ==
  [Hint EXCEPT !.op = "set-service-image", !.names = {name}, !.families = {family}, !.arg = Image("pull")]
(* What a container writes, or a verifier, may read like a change.         *)
Reads(op, target, arg) == [Hint EXCEPT !.op = op, !.target = target, !.arg = arg]
Scaling == <<Reads("set-service-replicas", <<"api">>, 2),
             [Hint EXCEPT !.op = "set-service-image", !.proxy = "yes", !.arg = Image("by")]>>
Linking == <<Reads("remove-service-dependency", <<"web">>, <<"api">>),
             Reads("add-service-dependency", <<"web">>, <<"postgres">>)>>
Calling == <<Reads("rename-service", <<"api">>, <<"back">>), Reads("set-project-name", NoName, <<"q">>)>>
Taking == <<Reads("set-networks", NoName, DefaultNetwork), Reads("container", NoName, <<"p", "web">>)>>
Failure(findings, issues) == [findings |-> findings, issues |-> issues]
McFailures ==
  <<Failure({PullFailed(<<"postgres">>)}, <<Pull(<<"postgres">>, "postgres")>>),
    Failure({PullFailed(<<"postgres">>)}, <<Hint>>),
    Failure({Finding("HOST_PORT_CONFLICT", <<"web">>, "port")}, <<>>),
    Failure({}, Scaling), Failure({}, Linking), Failure({}, Calling), Failure({}, Taking),
    Failure({}, <<Reads("rename-network", NoName, DefaultNetwork), Reads("allow", NoName, "remove-service")>>)>>
McFallbacks == [postgres |-> Image("mysql")]
McSuffixes == <<"r1", "r2", "r3">>
McDocker == [names |-> {<<"p", "postgres">>}, ports |-> {80}]

=============================================================================
