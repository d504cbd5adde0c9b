------------------------------ MODULE MCRepair ------------------------------
(***************************************************************************)
(* Project db-demo with services db, one replica and a volume, and web: the*)
(* names of all its containers contain "db".                               *)
(***************************************************************************)
EXTENDS Repair

OurLabel(base) == [own |-> "ours", base |-> base]
Name(own, base, nr) == [own |-> own, base |-> base, nr |-> nr]

MCMentions ==
  {<<n, k>> \in Names \X Keys :
     \/ KeyOf(n) = k \/ Plain(n.base) = k
     \/ n.own = "ours" /\ k = Plain("db")}

Of(image, replicas, lifecycle, mounts) ==
  [image |-> image, replicas |-> replicas, lifecycle |-> lifecycle,
   ports |-> "open", mounts |-> mounts]

Db(lifecycle) == Of("pg:2", 1, lifecycle, {OurLabel("data")})
Spec1(lifecycle) ==
  [svc |-> [k \in {Plain("db")} |-> Db(lifecycle)], nets |-> {OurLabel("net")}, vols |-> {OurLabel("data")}]
Spec2 ==
  [svc |-> [k \in {Plain("db"), Plain("web")} |->
              IF k.base = "db" THEN Db("up") ELSE Of("nginx", 2, "up", {})],
   nets |-> {OurLabel("net")}, vols |-> {OurLabel("data")}]
MCInitSpecs == {Spec1("up"), Spec1("down"), Spec2}

(* What there is of db, with and without prefix or number, or of web:      *)
(* stopped, or of another image and without its ports.                     *)
Cont(status, image, ports) == [status |-> status, image |-> image, ports |-> ports]
Some(image) == {Cont("down", image, "open"), Cont("up", "pg:1", "none")}
Sets == {{}, {Name("ours", "db", 0)}, {Name("bare", "db", 0)}}
Gap == {Name("ours", "db", 1), Name("ours", "db", 3)}

(* Replicas next to the container without number, all of them as wanted    *)
(* (their image is named without its tag), but stopped.                    *)
Crowd == {Name("ours", "db", i) : i \in 0..2}
WebNames == {Name("ours", "web", 1), Name("ours", "web", 2)}
World(conts, nets, vols) ==
  [conts |-> [n \in Names |-> IF n \in DOMAIN conts THEN conts[n] ELSE Nothing],
   nets |-> nets, vols |-> vols, imgs |-> {"nginx", "pg:1"}]
MCInitWorlds ==
  {World(conts, nets, {OurLabel("data")}) :
     conts \in UNION {[S -> Some("pg:2")] : S \in Sets}, nets \in {{}, {OurLabel("net")}}}
  \cup {World(conts, {OurLabel("net")}, {OurLabel("data")}) : conts \in [Gap -> Some("pg:2")]}
  \cup {World(conts, {}, {}) : conts \in [WebNames -> Some("nginx")]}
  \cup {World([n \in Crowd |-> Cont("down", "pg", "open")], {OurLabel("net")}, {OurLabel("data")})}

MCAlike == {<<i, j>> \in Images \X Images : i = j \/ ("pg" \in {i, j} /\ "nginx" \notin {i, j})}
MCSameRepository == {<<i, j>> \in Images \X Images : i = j \/ "nginx" \notin {i, j}}

=============================================================================
