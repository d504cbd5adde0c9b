--------------------------- MODULE RevisionProofs ---------------------------
(***************************************************************************)
(* Proofs about the dialogues that revise a specification before it is     *)
(* deployed, for any specifications, plans, answers and findings: what the *)
(* user or the loop approves can be deployed.  Each operation of a patch   *)
(* keeps a specification one of the schema; what comes out of the patches  *)
(* is normalised, so that showing it changes nothing but names; and a      *)
(* snapshot that did not go through the patches is refused, because        *)
(* nothing is changed in it.  An adjustment that only resizes keeps every  *)
(* database on its volume.  And whatever a plan, a question or a repair     *)
(* does, services that are no databases go, and images of no catalog come, *)
(* only with the operations that the user is asked about.                  *)
(***************************************************************************)
EXTENDS Revision, SequenceTheorems, FiniteSetTheorems, TLAPS

(* A set of numbers has a least one.                                       *)
LEMMA Least ==
  ASSUME NEW T, T \subseteq Nat, T # {}
  PROVE  \E m \in T : \A k \in T : m <= k
  <1>. DEFINE U == {1..k : k \in T}
  <1>1. U # {} /\ U \subseteq FiniteSubsetsOf(Nat)
    <2>1. \A k \in T : 1..k \subseteq Nat /\ IsFiniteSet(1..k)
      BY FS_Interval
    <2>. QED
      BY <2>1 DEF FiniteSubsetsOf
  <1>2. PICK x \in U : \A y \in U : <<y, x>> \notin StrictSubsetOrdering(Nat)
    <2>. HIDE DEF U
    <2>. QED
      BY <1>1, FS_StrictSubsetOrderingWellFounded, WFMin
  <1>3. PICK m \in T : x = 1..m
    OBVIOUS
  <1>4. ASSUME NEW k \in T, k < m PROVE FALSE
    <2>1. 1..k \in SUBSET Nat /\ 1..m \in SUBSET Nat /\ 1..k \subseteq 1..m /\ m \in 1..m /\ m \notin 1..k
      BY <1>4
    <2>2. <<1..k, 1..m>> \in StrictSubsetOrdering(Nat)
      BY <2>1 DEF StrictSubsetOrdering
    <2>. QED
      BY <1>2, <1>3, <2>2
  <1>. QED
    BY <1>4

(* What recursion along a sequence computes: G[i, x] is the result after   *)
(* step i of x before it.                                                  *)
Courses(k, D, d, G) ==
  {g \in [0..k -> D] : g[0] = d /\ \A i \in 1..k : g[i] = G[<<i, g[i - 1]>>]}

LEMMA CourseGrows ==
  ASSUME NEW D, NEW d \in D, NEW n \in Nat, NEW G \in [(1..n) \X D -> D],
         NEW k \in 1..n, NEW g \in Courses(k - 1, D, d, G)
  PROVE  [i \in 0..k |-> IF i = k THEN G[<<k, g[k - 1]>>] ELSE g[i]] \in Courses(k, D, d, G)
  <1>. DEFINE h == [i \in 0..k |-> IF i = k THEN G[<<k, g[k - 1]>>] ELSE g[i]]
  <1>1. /\ g \in [0..(k - 1) -> D] /\ g[0] = d
        /\ \A i \in 1..(k - 1) : g[i] = G[<<i, g[i - 1]>>]
    BY DEF Courses
  <1>2. /\ k - 1 \in 0..(k - 1) /\ 0 \in 0..(k - 1) /\ 0..k = (0..(k - 1)) \cup {k} /\ 0 # k
        /\ 1..k = (1..(k - 1)) \cup {k} /\ k \notin 0..(k - 1)
        /\ \A i \in 1..(k - 1) : i \in 0..(k - 1) /\ i - 1 \in 0..(k - 1)
    OBVIOUS
  <1>3. G[<<k, g[k - 1]>>] \in D
    BY <1>1, <1>2
  <1>4. h \in [0..k -> D] /\ h[0] = d
    BY <1>1, <1>2, <1>3
  <1>5. ASSUME NEW i \in 1..k PROVE h[i] = G[<<i, h[i - 1]>>]
    <2>1. CASE i = k
      BY <1>2, <2>1
    <2>2. CASE i # k
      BY <1>1, <1>2, <2>2
    <2>. QED
      BY <2>1, <2>2
  <1>. QED
    BY <1>4, <1>5 DEF Courses

LEMMA CourseExists ==
  ASSUME NEW D, NEW d \in D, NEW n \in Nat, NEW G \in [(1..n) \X D -> D]
  PROVE  Courses(n, D, d, G) # {}
  <1>. DEFINE Bad == {k \in 0..n : Courses(k, D, d, G) = {}}
  <1>1. ASSUME Bad # {} PROVE FALSE
    <2>1. Bad \subseteq Nat
      OBVIOUS
    <2>2. PICK k \in Bad : \A j \in Bad : k <= j
      <3>. HIDE DEF Bad
      <3>. QED
        BY <1>1, <2>1, Least
    <2>3. k # 0
      <3>1. [i \in 0..0 |-> d] \in Courses(0, D, d, G)
        BY DEF Courses
      <3>. QED
        BY <3>1
    <2>4. k \in 1..n /\ k - 1 \in 0..n /\ ~(k <= k - 1)
      BY <2>3
    <2>5. PICK g : g \in Courses(k - 1, D, d, G)
      BY <2>2, <2>4
    <2>. QED
      BY <2>4, <2>5, CourseGrows
  <1>. QED
    BY <1>1

(* What holds at first and is kept by each step holds of the result.       *)
LEMMA AtTheEnd ==
  ASSUME NEW n \in Nat, NEW P, 0 \in P, \A i \in 1..n : i - 1 \in P => i \in P
  PROVE  n \in P
  <1>. DEFINE Bad == {k \in 0..n : k \notin P}
  <1>1. ASSUME Bad # {} PROVE FALSE
    <2>1. Bad \subseteq Nat
      OBVIOUS
    <2>2. PICK k \in Bad : \A j \in Bad : k <= j
      <3>. HIDE DEF Bad
      <3>. QED
        BY <1>1, <2>1, Least
    <2>3. k # 0 /\ k \in 0..n /\ k \notin P
      OBVIOUS
    <2>4. k \in 1..n /\ k - 1 \in 0..n /\ ~(k <= k - 1)
      BY <2>3
    <2>5. k - 1 \in P
      BY <2>2, <2>4
    <2>. QED
      BY <2>3, <2>4, <2>5
  <1>. QED
    BY <1>1

(* The sequences of a sequence one after the other.                        *)
LEMMA Flattened ==
  ASSUME NEW S, NEW seqs \in Seq(Seq(S))
  PROVE  SeqX!FlattenSeq(seqs) \in Seq(S)
  <1>0. PICK n \in Nat : n = Len(seqs) /\ DOMAIN seqs = 1..n /\ \A i \in 1..n : seqs[i] \in Seq(S)
    OBVIOUS
  <1>. DEFINE Def(f) == [i \in 1..n |-> IF i = 1 THEN seqs[i] ELSE f[i - 1] \o seqs[i]]
              flatten == CHOOSE f : f = Def(f)
              G == [p \in (1..n) \X Seq(S) |-> IF p[1] = 1 THEN seqs[1] ELSE p[2] \o seqs[p[1]]]
  <1>1. CASE n = 0
    <2>1. SeqX!FlattenSeq(seqs) = <<>>
      <3>1. seqs = <<>>
        BY <1>0, <1>1
      <3>. QED
        BY <1>0, <1>1, <3>1 DEF SeqX!FlattenSeq
    <2>. QED
      BY <2>1, EmptySeq
  <1>2. CASE n # 0
    <2>1. G \in [(1..n) \X Seq(S) -> Seq(S)]
      BY <1>0, <1>2, ConcatProperties
    <2>2. PICK g \in [0..n -> Seq(S)] : g[0] = <<>> /\ \A i \in 1..n : g[i] = G[<<i, g[i - 1]>>]
      <3>. DEFINE D == Seq(S)
      <3>1. <<>> \in D
        BY EmptySeq
      <3>2. G \in [(1..n) \X D -> D]
        BY <2>1
      <3>. HIDE DEF G, D
      <3>3. PICK g : g \in Courses(n, D, <<>>, G)
        BY <3>1, <3>2, CourseExists
      <3>. QED
        BY <3>3 DEF D, Courses
    <2>3. \A i \in 1..n : i - 1 \in 0..n /\ g[i - 1] \in Seq(S)
      OBVIOUS
    <2>4. \A i \in 1..n : g[i] = IF i = 1 THEN seqs[i] ELSE g[i - 1] \o seqs[i]
      BY <2>2, <2>3
    <2>. HIDE DEF G
    <2>5. \E f : f = Def(f)
      <3>. DEFINE h == [i \in 1..n |-> g[i]]
      <3>1. \A i \in 1..n : i # 1 => i - 1 \in 1..n
        OBVIOUS
      <3>2. h = Def(h)
        BY <2>4, <3>1
      <3>. QED
        BY <3>2
    <2>6. flatten = Def(flatten)
      <3>. HIDE DEF Def
      <3>. QED
        BY <2>5
    <2>7. SeqX!FlattenSeq(seqs) = flatten[n]
      BY <1>0, <1>2 DEF SeqX!FlattenSeq
    <2>. HIDE DEF flatten
    <2>8. \A i \in 1..n : flatten[i] = IF i = 1 THEN seqs[i] ELSE flatten[i - 1] \o seqs[i]
      BY <2>6
    <2>. DEFINE P == {i \in 0..n : i = 0 \/ flatten[i] \in Seq(S)}
    <2>9. ASSUME NEW i \in 1..n, i - 1 \in P PROVE i \in P
      <3>1. flatten[i] = (IF i = 1 THEN seqs[i] ELSE flatten[i - 1] \o seqs[i]) /\ seqs[i] \in Seq(S)
        <4>. HIDE DEF P, Def
        <4>. QED
          BY <1>0, <2>8
      <3>2. i = 1 \/ flatten[i - 1] \in Seq(S)
        BY <2>9
      <3>3. flatten[i] \in Seq(S)
        <4>. HIDE DEF P, Def
        <4>. QED
          BY <3>1, <3>2, ConcatProperties
      <3>. QED
        BY <3>3
    <2>10. n \in P
      <3>1. 0 \in P
        OBVIOUS
      <3>. HIDE DEF P
      <3>. QED
        BY <2>9, <3>1, AtTheEnd
    <2>. QED
      BY <1>2, <2>7, <2>10
  <1>. QED
    BY <1>1, <1>2

-----------------------------------------------------------------------------
LEMMA IsSeqIs ==
  ASSUME NEW s, IsSeq(s)
  PROVE  s \in Seq({s[i] : i \in 1..Len(s)}) /\ DOMAIN s = 1..Len(s)
  BY DEF IsSeq

LEMMA SeqIsSeq == ASSUME NEW S, NEW s \in Seq(S) PROVE IsSeq(s)
  <1>1. PICK n \in Nat : s \in [1..n -> S]
    BY SeqDef
  <1>2. DOMAIN s = 1..Len(s) /\ Len(s) \in Nat
    OBVIOUS
  <1>3. s = [i \in DOMAIN s |-> s[i]]
    BY <1>1
  <1>. QED
    BY <1>2, <1>3 DEF IsSeq

(* A project in front of a name is a prefix of it.                         *)
LEMMA InFront ==
  ASSUME NEW p, NEW q, IsSeq(p), IsSeq(q)
  PROVE  /\ IsSeq(p \o q) /\ SeqX!IsPrefix(p, p \o q)
         /\ p # <<>> => p \o q # <<>> /\ ~SeqX!IsPrefix(p, <<>>)
  <1>. DEFINE S == {p[i] : i \in 1..Len(p)} \cup {q[i] : i \in 1..Len(q)}
  <1>1. p \in Seq(S) /\ q \in Seq(S)
    <2>1. p \in Seq({p[i] : i \in 1..Len(p)}) /\ q \in Seq({q[i] : i \in 1..Len(q)})
      BY IsSeqIs
    <2>. QED
      BY <2>1, SeqDef
  <1>. HIDE DEF S
  <1>2. PICK k \in Nat, l \in Nat : k = Len(p) /\ l = Len(q)
    BY <1>1
  <1>3. /\ p \o q \in Seq(S) /\ Len(p \o q) = k + l
        /\ \A i \in 1..k : (p \o q)[i] = p[i]
    BY <1>1, <1>2, ConcatProperties
  <1>4. IsSeq(p \o q)
    BY <1>3, SeqIsSeq
  <1>5. SubSeq(p, 1, k) = SubSeq(p \o q, 1, k)
    BY <1>1, <1>2, <1>3
  <1>6. SeqX!IsPrefix(p, p \o q)
    BY <1>2, <1>3, <1>5 DEF SeqX!IsPrefix
  <1>7. ASSUME p # <<>> PROVE p \o q # <<>> /\ ~SeqX!IsPrefix(p, <<>>)
    <2>1. k > 0
      BY <1>1, <1>2, <1>7
    <2>. QED
      BY <1>1, <1>2, <1>3, <2>1 DEF SeqX!IsPrefix
  <1>. QED
    BY <1>4, <1>6, <1>7

-----------------------------------------------------------------------------
(* Names in the project's namespace.                                       *)
LEMMA PrefixedIs ==
  ASSUME NEW p, NEW r, IsProject(p), IsResource(r)
  PROVE  /\ IsResource(Prefixed(p, r)) /\ SeqX!IsPrefix(p, Prefixed(p, r).in)
         /\ Prefixed(p, r) # HostPath
  <1>1. /\ IsSeq(p) /\ IsSeq(r.in) /\ p # <<>>
        /\ IsSeq(p \o r.in) /\ SeqX!IsPrefix(p, p \o r.in) /\ ~SeqX!IsPrefix(p, <<>>)
    BY InFront DEF IsProject, IsResource
  <1>2. CASE SeqX!IsPrefix(p, r.in)
    BY <1>1, <1>2 DEF Prefixed, HostPath
  <1>3. CASE ~SeqX!IsPrefix(p, r.in)
    <2>1. /\ Prefixed(p, r) = [r EXCEPT !.in = p \o r.in]
      BY <1>3 DEF Prefixed
    <2>2. IsResource(Prefixed(p, r)) /\ Prefixed(p, r).in = p \o r.in
      BY <1>1, <2>1 DEF IsResource, IsRecord
    <2>. QED
      BY <1>1, <2>2 DEF HostPath
  <1>. QED
    BY <1>2, <1>3

(* A service of a specification as it is, but in the namespace.            *)
Placed(p, s) == [s EXCEPT !.mounts = {[m EXCEPT !.from = Prefixed(p, @)] : m \in @}]

LEMMA PlacedIs ==
  ASSUME NEW p, NEW s, IsProject(p), IsService(s)
  PROVE  /\ IsService(Placed(p, s)) /\ HostPath \notin Sources(Placed(p, s))
         /\ Placed(p, s).name = s.name /\ Placed(p, s).kind = s.kind
         /\ Placed(p, s).replicas = s.replicas /\ Placed(p, s).ports = s.ports
         /\ Placed(p, s).deps = s.deps
  <1>. DEFINE M == {[m EXCEPT !.from = Prefixed(p, @)] : m \in s.mounts}
  <1>1. ASSUME NEW m \in s.mounts
        PROVE  LET n == [m EXCEPT !.from = Prefixed(p, @)] IN IsMount(n) /\ n.from # HostPath
    <2>1. IsMount(m) /\ IsResource(m.from)
      BY DEF IsService, IsMount
    <2>2. IsResource(Prefixed(p, m.from)) /\ Prefixed(p, m.from) # HostPath
      BY <2>1, PrefixedIs
    <2>. QED
      BY <2>1, <2>2 DEF IsMount, IsRecord
  <1>2. \A n \in M : IsMount(n) /\ n.from # HostPath
    BY <1>1
  <1>. HIDE DEF M
  <1>3. Placed(p, s) = [s EXCEPT !.mounts = M]
    BY DEF Placed, M
  <1>. QED
    BY <1>2, <1>3 DEF IsService, IsRecord, Sources

LEMMA NamespaceIs ==
  ASSUME NEW sp, IsSpec(sp)
  PROVE  /\ IsSpec(Namespace(sp)) /\ Namespace(sp).project = sp.project
         /\ \A r \in Namespace(sp).networks \cup Namespace(sp).volumes :
              SeqX!IsPrefix(sp.project, r.in)
         /\ Namespace(sp).services = {Placed(sp.project, s) : s \in sp.services}
  <1>. DEFINE p == sp.project
              N == {Prefixed(p, r) : r \in sp.networks}
              V == {Prefixed(p, r) : r \in sp.volumes}
              S == {Placed(p, s) : s \in sp.services}
  <1>1. Namespace(sp) = [sp EXCEPT !.networks = N, !.volumes = V, !.services = S]
    BY DEF Namespace, Placed
  <1>2. IsProject(p) /\ \A r \in sp.networks \cup sp.volumes : IsResource(r)
    BY DEF IsSpec
  <1>3. \A r \in N \cup V : IsResource(r) /\ SeqX!IsPrefix(p, r.in)
    BY <1>2, PrefixedIs
  <1>4. \A s \in S : IsService(s)
    BY <1>2, PlacedIs DEF IsSpec
  <1>. HIDE DEF N, V, S
  <1>. QED
    BY <1>1, <1>3, <1>4 DEF IsSpec, IsRecord, S

-----------------------------------------------------------------------------
(* Replicas of a database, each a service of its own.                      *)
LEMMA NameGrows ==
  ASSUME NEW n, IsName(n), NEW i \in Nat
  PROVE  IsName(Append(n, i))
  <1>. DEFINE S == {n[j] : j \in 1..Len(n)} \cup {i}
  <1>1. n \in Seq(S)
    <2>1. n \in Seq({n[j] : j \in 1..Len(n)})
      BY IsSeqIs DEF IsName
    <2>. QED
      BY <2>1, SeqDef
  <1>. HIDE DEF S
  <1>2. PICK k \in Nat : k = Len(n)
    BY <1>1
  <1>3. i \in S
    BY DEF S
  <1>4. /\ Append(n, i) \in Seq(S) /\ Len(Append(n, i)) = k + 1
        /\ Append(n, i)[k + 1] = i /\ \A j \in 1..k : Append(n, i)[j] = n[j]
    BY <1>1, <1>2, <1>3
  <1>5. \A j \in 2..(k + 1) : j = k + 1 \/ (j \in 2..k /\ j \in 1..k)
    BY <1>2
  <1>6. \A j \in 2..(k + 1) : Append(n, i)[j] \in Nat
    BY <1>2, <1>4, <1>5 DEF IsName
  <1>7. Append(n, i) # <<>>
    BY <1>2, <1>4
  <1>. QED
    BY <1>4, <1>6, <1>7, SeqIsSeq DEF IsName

LEMMA VolumeIs ==
  ASSUME NEW s, IsService(s)
  PROVE  /\ IsResource(BaseVolume(s))
         /\ \A i : IsResource(PartVolume(s, i))
  <1>1. \A n : IsResource(DataVolume(n))
    <2>1. IsSeq(<<>>)
      BY SeqIsSeq, EmptySeq
    <2>. QED
      BY <2>1 DEF IsResource, IsRecord, DataVolume
  <1>2. DataMounts(s) \subseteq s.mounts
    BY DEF DataMounts
  <1>3. ASSUME DataMounts(s) # {} PROVE IsResource((CHOOSE m \in DataMounts(s) : TRUE).from)
    BY <1>2, <1>3 DEF IsService, IsMount
  <1>4. IsResource(BaseVolume(s))
    BY <1>1, <1>3 DEF BaseVolume
  <1>. QED
    BY <1>4 DEF PartVolume, IsResource, IsRecord

LEMMA PartIs ==
  ASSUME NEW s, IsService(s), NEW i \in Nat
  PROVE  /\ IsService(Part(s, i)) /\ Part(s, i).replicas = 0
         /\ Part(s, i).kind = s.kind /\ Part(s, i).ports = s.ports
  <1>. DEFINE n == Append(s.name, i)
              d == IF i = 1 THEN s.deps ELSE s.deps \cup {Append(s.name, 1)}
              M == (s.mounts \ DataMounts(s)) \cup {[from |-> PartVolume(s, i), at |-> DataTarget(s)]}
  <1>1. Part(s, i) = [s EXCEPT !.name = n, !.replicas = 0, !.deps = d, !.mounts = M]
    BY DEF Part
  <1>2. IsName(n)
    BY NameGrows DEF IsService
  <1>3. \A m \in M : IsMount(m)
    BY VolumeIs DEF IsService, IsMount, IsRecord
  <1>. HIDE DEF n, d, M
  <1>4. IsRecord(s, DOMAIN s) /\ {"name", "replicas", "deps", "mounts", "kind", "ports"} \subseteq DOMAIN s
        /\ DOMAIN s = {"name", "kind", "image", "replicas", "deps", "mounts", "ports", "env", "status"}
    BY DEF IsService, IsRecord
  <1>5. /\ Part(s, i).name = n /\ Part(s, i).replicas = 0 /\ Part(s, i).mounts = M
        /\ Part(s, i).kind = s.kind /\ Part(s, i).ports = s.ports
        /\ IsRecord(Part(s, i), DOMAIN s)
    BY <1>1, <1>4 DEF IsRecord
  <1>. QED
    BY <1>2, <1>3, <1>4, <1>5 DEF IsService

(* What is made of a service in an expansion: parts of it, or itself.      *)
Made(s) == IF Replicated(s) THEN {Part(s, i) : i \in 1..s.replicas} ELSE {s}

LEMMA MadeIs ==
  ASSUME NEW s, IsService(s), NEW t \in Made(s)
  PROVE  IsService(t) /\ ~Replicated(t) /\ t.kind = s.kind /\ t.ports = s.ports
  <1>1. CASE Replicated(s)
    <2>1. PICK i \in 1..s.replicas : t = Part(s, i)
      BY <1>1 DEF Made
    <2>2. i \in Nat
      BY DEF IsService
    <2>. QED
      BY <2>1, <2>2, PartIs DEF Replicated
  <1>2. CASE ~Replicated(s)
    BY <1>2 DEF Made
  <1>. QED
    BY <1>1, <1>2

LEMMA DepsMayBe ==
  ASSUME NEW s, IsService(s), NEW D
  PROVE  LET t == [s EXCEPT !.deps = D]
         IN /\ IsService(t) /\ t.kind = s.kind /\ t.ports = s.ports /\ t.replicas = s.replicas
            /\ t.name = s.name /\ t.mounts = s.mounts /\ t.image = s.image
            /\ t.deps = D /\ Replicated(t) = Replicated(s)
  BY DEF IsService, IsRecord, Replicated

LEMMA SourcesAre ==
  ASSUME NEW s, IsService(s), NEW r \in Declared(s) \cup Sources(s)
  PROVE  IsResource(r)
  BY DEF Declared, Sources, IsService, IsMount

LEMMA ExpandIs ==
  ASSUME NEW sp, IsSpec(sp)
  PROVE  /\ IsSpec(Expand(sp)) /\ Expand(sp).project = sp.project
         /\ Expand(sp).networks = sp.networks
         /\ \A t \in Expand(sp).services :
              /\ ~Replicated(t)
              /\ \E s \in sp.services : t.kind = s.kind /\ t.ports = s.ports
  <1>. DEFINE parts(d) == LET owners == Named(sp.services, {d})
                          IN IF owners = {} THEN {d} ELSE Parts(CHOOSE s \in owners : TRUE)
              services == UNION {Made(s) : s \in sp.services}
              replicated == {s \in sp.services : Replicated(s)}
              replaced == UNION {{m.from : m \in DataMounts(s)} : s \in replicated}
              made == UNION {UNION {Declared(Part(s, i)) : i \in 1..s.replicas} : s \in replicated}
              S == {[s EXCEPT !.deps = UNION {parts(d) : d \in @}] : s \in services}
              V == (sp.volumes \cup made) \ replaced
  <1>1. Expand(sp) = [sp EXCEPT !.services = S, !.volumes = V]
    BY DEF Expand, Made
  <1>2. ASSUME NEW t \in services
        PROVE  /\ IsService(t) /\ ~Replicated(t)
               /\ \E s \in sp.services : t.kind = s.kind /\ t.ports = s.ports
    <2>1. PICK s \in sp.services : t \in Made(s)
      OBVIOUS
    <2>. QED
      BY <2>1, MadeIs DEF IsSpec
  <1>. HIDE DEF services
  <1>3. ASSUME NEW t \in S
        PROVE  /\ IsService(t) /\ ~Replicated(t)
               /\ \E s \in sp.services : t.kind = s.kind /\ t.ports = s.ports
    <2>. HIDE DEF parts
    <2>1. PICK u \in services : t = [u EXCEPT !.deps = UNION {parts(d) : d \in u.deps}]
      OBVIOUS
    <2>2. IsService(t) /\ t.kind = u.kind /\ t.ports = u.ports /\ Replicated(t) = Replicated(u)
      BY <1>2, <2>1, DepsMayBe
    <2>. QED
      BY <1>2, <2>2
  <1>4. ASSUME NEW r \in V PROVE IsResource(r)
    <2>1. CASE r \in sp.volumes
      BY <2>1 DEF IsSpec
    <2>2. CASE r \in made
      <3>1. PICK s \in replicated : \E i \in 1..s.replicas : r \in Declared(Part(s, i))
        BY <2>2
      <3>2. PICK i \in 1..s.replicas : r \in Declared(Part(s, i))
        BY <3>1
      <3>3. IsService(s) /\ i \in Nat
        BY DEF IsSpec, IsService
      <3>. QED
        BY <3>2, <3>3, PartIs, SourcesAre
    <2>. QED
      BY <2>1, <2>2
  <1>. HIDE DEF S, V
  <1>. QED
    BY <1>1, <1>3, <1>4 DEF IsSpec, IsRecord

LEMMA NormalizeIs ==
  ASSUME NEW sp, IsSpec(sp)
  PROVE  /\ IsSpec(Normalize(sp)) /\ Normalize(sp).project = sp.project
         /\ Normalize(sp).services = Expand(sp).services
  <1>. DEFINE e == Expand(sp)
  <1>1. IsSpec(e) /\ e.project = sp.project
    BY ExpandIs
  <1>2. \E X : Normalize(sp) = [e EXCEPT !.volumes = (e.volumes \ X) \cup UNION {Declared(s) : s \in e.services}]
    BY DEF Normalize
  <1>. HIDE DEF e
  <1>3. PICK X : Normalize(sp) = [e EXCEPT !.volumes = (e.volumes \ X) \cup UNION {Declared(s) : s \in e.services}]
    BY <1>2
  <1>. DEFINE V == (e.volumes \ X) \cup UNION {Declared(s) : s \in e.services}
  <1>4. ASSUME NEW r \in V PROVE IsResource(r)
    BY <1>1, SourcesAre DEF IsSpec
  <1>5. Normalize(sp) = [e EXCEPT !.volumes = V]
    BY <1>3
  <1>. HIDE DEF V
  <1>6. IsSpec(Normalize(sp)) /\ Normalize(sp).project = e.project /\ Normalize(sp).services = e.services
    BY <1>1, <1>4, <1>5 DEF IsSpec, IsRecord
  <1>. QED
    BY <1>1, <1>6 DEF e

(* What a preview shows: of a specification whose ports are of proxies it  *)
(* is in the namespace of the project, without databases to expand, ports  *)
(* at others than proxies, and paths of the host.                          *)
LEMMA ShownIs ==
  ASSUME NEW sp, IsSpec(sp), OnlyProxies(sp)
  PROVE  /\ IsSpec(Shown(sp)) /\ OnlyProxies(Shown(sp))
         /\ \A r \in Shown(sp).networks \cup Shown(sp).volumes :
              SeqX!IsPrefix(Shown(sp).project, r.in)
         /\ \A s \in Shown(sp).services : ~Replicated(s) /\ HostPath \notin Sources(s)
  <1>. DEFINE n == Normalize(sp)
  <1>1. IsSpec(n) /\ n.services = Expand(sp).services
    BY NormalizeIs
  <1>2. \A t \in n.services : ~Replicated(t) /\ (t.kind # "proxy" => t.ports = <<>>)
    BY <1>1, ExpandIs DEF OnlyProxies
  <1>. HIDE DEF n
  <1>3. /\ IsSpec(Namespace(n)) /\ Namespace(n).project = n.project
        /\ \A r \in Namespace(n).networks \cup Namespace(n).volumes : SeqX!IsPrefix(n.project, r.in)
        /\ Namespace(n).services = {Placed(n.project, s) : s \in n.services}
    BY <1>1, NamespaceIs
  <1>4. ASSUME NEW t \in Namespace(n).services
        PROVE  ~Replicated(t) /\ HostPath \notin Sources(t) /\ (t.kind # "proxy" => t.ports = <<>>)
    <2>1. PICK s \in n.services : t = Placed(n.project, s)
      BY <1>3
    <2>2. IsProject(n.project) /\ IsService(s)
      BY <1>1 DEF IsSpec
    <2>3. /\ HostPath \notin Sources(t) /\ t.kind = s.kind /\ t.replicas = s.replicas /\ t.ports = s.ports
      BY <2>1, <2>2, PlacedIs
    <2>. QED
      BY <1>2, <2>3 DEF Replicated
  <1>. QED
    BY <1>3, <1>4 DEF Shown, n, OnlyProxies

-----------------------------------------------------------------------------
(* Every patch makes a specification of a specification.                   *)
LEMMA StrippedIs ==
  ASSUME NEW sp, IsSpec(sp)
  PROVE  /\ IsSpec(StrippedSpec(sp)) /\ OnlyProxies(StrippedSpec(sp))
         /\ StrippedSpec(sp).project = sp.project
  <1>1. ASSUME NEW s \in sp.services
        PROVE  IsService(Stripped(s)) /\ (Stripped(s).kind # "proxy" => Stripped(s).ports = <<>>)
    <2>1. IsService(s)
      BY DEF IsSpec
    <2>. QED
      BY <2>1 DEF Stripped, IsService, IsRecord
  <1>. DEFINE S == {Stripped(s) : s \in sp.services}
  <1>2. StrippedSpec(sp) = [sp EXCEPT !.services = S]
    BY DEF StrippedSpec
  <1>3. \A t \in S : IsService(t) /\ (t.kind # "proxy" => t.ports = <<>>)
    BY <1>1
  <1>. HIDE DEF S
  <1>. QED
    BY <1>2, <1>3 DEF IsSpec, IsRecord, OnlyProxies

LEMMA ServicesMayBe ==
  ASSUME NEW sp, IsSpec(sp), NEW S, \A s \in S : IsService(s)
  PROVE  IsSpec([sp EXCEPT !.services = S])
  BY DEF IsSpec, IsRecord

LEMMA BothMayBe ==
  ASSUME NEW sp, IsSpec(sp), NEW S, \A s \in S : IsService(s),
         NEW V, \A r \in V : IsResource(r)
  PROVE  IsSpec([sp EXCEPT !.services = S, !.volumes = V])
  BY DEF IsSpec, IsRecord

LEMMA RenamedIs ==
  ASSUME NEW s, IsService(s), NEW image
  PROVE  IsName(RenamedTo(s, image))
  <1>. DEFINE n == s.name
              f == image.family
              S == {n[j] : j \in 1..Len(n)} \cup {f}
  <1>1. IsName(n) /\ n \in Seq({n[j] : j \in 1..Len(n)})
    BY IsSeqIs DEF IsService, IsName
  <1>. HIDE DEF n
  <1>2. n \in Seq(S)
    BY <1>1, SeqDef
  <1>. HIDE DEF S
  <1>3. PICK k \in Nat : k = Len(n) /\ k > 0
    BY <1>1, <1>2 DEF IsName
  <1>4. f \in S
    BY DEF S
  <1>. HIDE DEF f
  <1>5. /\ Tail(n) \in Seq(S) /\ Len(Tail(n)) = k - 1 /\ <<f>> \in Seq(S) /\ Len(<<f>>) = 1
        /\ \A j \in 1..(k - 1) : Tail(n)[j] = n[j + 1]
    BY <1>2, <1>3, <1>4
  <1>. DEFINE t == Tail(n)
  <1>. HIDE DEF t
  <1>6. t \in Seq(S) /\ Len(t) = k - 1 /\ \A j \in 1..(k - 1) : t[j] = n[j + 1]
    BY <1>5 DEF t
  <1>7. /\ <<f>> \o t \in Seq(S) /\ Len(<<f>> \o t) = k
        /\ \A j \in 2..k : (<<f>> \o t)[j] = t[j - 1]
    BY <1>3, <1>5, <1>6, ConcatProperties
  <1>8. \A j \in 2..k : j - 1 \in 1..(k - 1) /\ (j - 1) + 1 = j
    BY <1>3
  <1>9. \A j \in 2..k : (<<f>> \o t)[j] \in Nat
    BY <1>1, <1>3, <1>6, <1>7, <1>8 DEF IsName
  <1>10. <<f>> \o t # <<>>
    BY <1>3, <1>7
  <1>11. IsName(<<f>> \o t)
    BY <1>7, <1>9, <1>10, SeqIsSeq DEF IsName
  <1>. QED
    BY <1>1, <1>11 DEF RenamedTo, n, f, t

LEMMA RebuiltIs ==
  ASSUME NEW s, IsService(s), NEW image
  PROVE  IsService(Rebuilt(s, image))
  <1>. DEFINE F == {"name", "kind", "image", "replicas", "deps", "mounts", "ports", "env", "status"}
  <1>0. IsRecord(s, F) /\ s.replicas \in Nat /\ (\A m \in s.mounts : IsMount(m)) /\ IsName(s.name)
    BY DEF IsService
  <1>1. CASE ~Trusted(image)
    <2>1. Rebuilt(s, image) = [s EXCEPT !.kind = KindOf(image), !.image = image]
      BY <1>1 DEF Rebuilt
    <2>. QED
      BY <1>0, <2>1 DEF IsService, IsRecord
  <1>2. CASE Trusted(image)
    <2>. DEFINE new == Profiles[image.family]
                reset == OtherFamily(s, image)
                kept == IF reset THEN {} ELSE {m \in s.mounts : m.at = new.data}
                name == RenamedTo(s, image)
                M == IF new.data = "" THEN IF reset THEN {} ELSE s.mounts
                     ELSE IF kept # {} THEN kept
                     ELSE {[from |-> DataVolume(name), at |-> new.data]}
    <2>1. \E k, i, p, e : Rebuilt(s, image) = [s EXCEPT !.name = name, !.kind = k, !.image = i,
                                                        !.ports = p, !.env = e, !.mounts = M]
      BY <1>2 DEF Rebuilt
    <2>2. IsName(name)
      BY RenamedIs
    <2>3. IsMount([from |-> DataVolume(name), at |-> new.data])
      <3>1. IsSeq(<<>>)
        BY SeqIsSeq, EmptySeq
      <3>2. IsResource(DataVolume(name))
        BY <3>1 DEF IsResource, IsRecord, DataVolume
      <3>. QED
        BY <3>2 DEF IsMount, IsRecord
    <2>4. \A m \in M : IsMount(m)
      BY <1>0, <2>3
    <2>. HIDE DEF name, M
    <2>5. PICK k, i, p, e : Rebuilt(s, image) = [s EXCEPT !.name = name, !.kind = k, !.image = i,
                                                          !.ports = p, !.env = e, !.mounts = M]
      BY <2>1
    <2>6. /\ IsRecord(Rebuilt(s, image), F) /\ Rebuilt(s, image).name = name
          /\ Rebuilt(s, image).mounts = M /\ Rebuilt(s, image).replicas = s.replicas
      BY <1>0, <2>5 DEF IsRecord
    <2>. QED
      BY <1>0, <2>2, <2>4, <2>6 DEF IsService
  <1>. QED
    BY <1>1, <1>2

LEMMA SetImageIs ==
  ASSUME NEW sp, IsSpec(sp), NEW matched, NEW image
  PROVE  IsSpec(SetImage(sp, matched, image))
  <1>. DEFINE new(d) == LET s == Named(matched, {d})
                        IN IF s = {} THEN d ELSE Rebuilt(CHOOSE t \in s : TRUE, image).name
              S == {[(IF s \in matched THEN Rebuilt(s, image) ELSE s)
                       EXCEPT !.deps = {new(d) : d \in @}] : s \in sp.services}
              V == (sp.volumes \ UNION {Sources(s) : s \in matched}) \cup UNION {Declared(s) : s \in S}
  <1>1. SetImage(sp, matched, image) = [sp EXCEPT !.services = S, !.volumes = V]
    BY DEF SetImage
  <1>2. ASSUME NEW t \in S PROVE IsService(t)
    <2>. HIDE DEF new
    <2>1. PICK s \in sp.services :
            t = [(IF s \in matched THEN Rebuilt(s, image) ELSE s) EXCEPT !.deps = {new(d) : d \in @}]
      OBVIOUS
    <2>. DEFINE u == IF s \in matched THEN Rebuilt(s, image) ELSE s
    <2>2. IsService(u)
      BY RebuiltIs DEF IsSpec
    <2>. QED
      BY <2>1, <2>2, DepsMayBe
  <1>. HIDE DEF S
  <1>3. \A r \in V : IsResource(r)
    BY <1>2, SourcesAre DEF IsSpec
  <1>. HIDE DEF V
  <1>4. \A s \in S : IsService(s)
    BY <1>2
  <1>5. IsSpec([sp EXCEPT !.services = S, !.volumes = V])
    BY <1>3, <1>4, BothMayBe
  <1>. QED
    BY <1>1, <1>5

LEMMA RenameIs ==
  ASSUME NEW sp, IsSpec(sp), NEW old, NEW new, IsName(new)
  PROVE  IsSpec(Rename(sp, old, new))
  <1>. DEFINE to(d) == IF d = old THEN new ELSE d
              S == {[s EXCEPT !.name = to(@), !.deps = {to(d) : d \in @}] : s \in sp.services}
  <1>1. Rename(sp, old, new) = [sp EXCEPT !.services = S]
    BY DEF Rename
  <1>2. ASSUME NEW s \in sp.services, NEW D
        PROVE  IsService([s EXCEPT !.name = to(s.name), !.deps = D])
    <2>1. IsName(to(s.name)) /\ IsService(s)
      BY DEF IsSpec, IsService
    <2>. HIDE DEF to
    <2>. QED
      BY <2>1 DEF IsService, IsRecord
  <1>3. ASSUME NEW t \in S PROVE IsService(t)
    <2>. HIDE DEF to
    <2>1. PICK s \in sp.services : t = [s EXCEPT !.name = to(s.name), !.deps = {to(d) : d \in s.deps}]
      OBVIOUS
    <2>. QED
      BY <1>2, <2>1
  <1>. HIDE DEF S
  <1>. QED
    BY <1>1, <1>3, ServicesMayBe

LEMMA RemoveIs ==
  ASSUME NEW sp, IsSpec(sp), NEW name
  PROVE  IsSpec(Remove(sp, name))
  <1>. DEFINE S == {[s EXCEPT !.deps = @ \ {name}] : s \in {t \in sp.services : t.name # name}}
  <1>1. Remove(sp, name) = [sp EXCEPT !.services = S]
    BY DEF Remove
  <1>2. \A t \in S : IsService(t)
    BY DepsMayBe DEF IsSpec
  <1>. HIDE DEF S
  <1>. QED
    BY <1>1, <1>2, ServicesMayBe

LEMMA EditedIs ==
  ASSUME NEW s, IsService(s), NEW p, IsPatch(p),
         p.op \in ServiceOps \ {"set-service-image", "remove-service", "rename-service"}
  PROVE  IsService(Edited(s, p))
  <1>1. ASSUME NEW x
        PROVE  /\ IsService([s EXCEPT !.ports = x]) /\ IsService([s EXCEPT !.env = x])
               /\ IsService([s EXCEPT !.deps = x]) /\ IsService([s EXCEPT !.status = x])
    BY DEF IsService, IsRecord
  <1>2. ASSUME NEW x \in Nat PROVE IsService([s EXCEPT !.replicas = x])
    BY DEF IsService, IsRecord
  <1>3. ASSUME NEW x, \A m \in x : IsMount(m) PROVE IsService([s EXCEPT !.mounts = x])
    BY <1>3 DEF IsService, IsRecord
  <1>4. \A m \in s.mounts : IsMount(m)
    BY DEF IsService
  <1>5. CASE p.op \in {"replace-service-port", "add-service-port", "remove-service-port"}
    <2>1. Edited(s, p) = EditPorts(s, p)
      BY <1>5 DEF Edited
    <2>2. \E x : EditPorts(s, p) = [s EXCEPT !.ports = x]
      BY <1>5 DEF EditPorts
    <2>. QED
      BY <1>1, <2>1, <2>2
  <1>6. CASE p.op \in {"set-service-env", "remove-service-env", "add-service-dependency",
                       "remove-service-dependency", "set-service-desired-status"}
    <2>1. \E x : \/ Edited(s, p) = [s EXCEPT !.env = x] \/ Edited(s, p) = [s EXCEPT !.deps = x]
                 \/ Edited(s, p) = [s EXCEPT !.status = x]
      BY <1>6 DEF Edited
    <2>. QED
      BY <1>1, <2>1
  <1>7. CASE p.op = "set-service-replicas"
    <2>1. Edited(s, p) = [s EXCEPT !.replicas = p.arg]
      BY <1>7 DEF Edited
    <2>. QED
      BY <1>2, <1>7, <2>1 DEF IsPatch
  <1>8. CASE p.op = "add-service-volume"
    <2>1. Edited(s, p) = [s EXCEPT !.mounts = s.mounts \cup {p.arg}]
      BY <1>8 DEF Edited
    <2>2. IsMount(p.arg)
      BY <1>8 DEF IsPatch
    <2>3. \A m \in s.mounts \cup {p.arg} : IsMount(m)
      BY <1>4, <2>2
    <2>. QED
      BY <1>3, <2>1, <2>3
  <1>9. CASE p.op = "remove-service-volume"
    <2>1. Edited(s, p) = [s EXCEPT !.mounts = s.mounts \ {p.arg}]
      BY <1>9 DEF Edited
    <2>. QED
      BY <1>3, <1>4, <2>1
  <1>. QED
    BY <1>5, <1>6, <1>7, <1>8, <1>9 DEF ServiceOps

LEMMA EditSpecIs ==
  ASSUME NEW sp, IsSpec(sp), NEW p, IsPatch(p), p.op \in SpecOps
  PROVE  IsSpec(EditSpec(sp, p))
  <1>0. \A r \in sp.networks \cup sp.volumes : IsResource(r)
    BY DEF IsSpec
  <1>1. ASSUME NEW N, \A r \in N : IsResource(r) PROVE IsSpec([sp EXCEPT !.networks = N])
    BY <1>1 DEF IsSpec, IsRecord
  <1>2. CASE p.op = "set-project-name"
    <2>1. EditSpec(sp, p) = [sp EXCEPT !.project = p.arg] /\ IsProject(p.arg)
      BY <1>2 DEF EditSpec, IsPatch
    <2>. QED
      BY <2>1 DEF IsSpec, IsRecord
  <1>3. CASE p.op = "rename-network"
    <2>. DEFINE N == IF sp.networks = {} THEN {p.arg}
                     ELSE {IF p.from \in {<<>>, <<n>>} THEN p.arg ELSE n : n \in sp.networks}
    <2>1. EditSpec(sp, p) = [sp EXCEPT !.networks = N] /\ IsResource(p.arg)
      BY <1>3 DEF EditSpec, IsPatch
    <2>2. \A r \in N : IsResource(r)
      BY <1>0, <2>1
    <2>. HIDE DEF N
    <2>. QED
      BY <1>1, <2>1, <2>2
  <1>4. CASE p.op = "set-networks"
    <2>1. EditSpec(sp, p) = [sp EXCEPT !.networks = p.arg] /\ \A r \in p.arg : IsResource(r)
      BY <1>4 DEF EditSpec, IsPatch
    <2>. QED
      BY <1>1, <2>1
  <1>5. CASE p.op = "add-service"
    <2>. DEFINE S == sp.services \cup {Stripped(p.arg)}
                N == IF sp.networks = {} THEN {DefaultNetwork} ELSE sp.networks
                V == sp.volumes \cup Declared(p.arg)
    <2>1. EditSpec(sp, p) = IF p.arg.name \in NamesOf(sp.services) THEN sp
                            ELSE [sp EXCEPT !.services = S, !.networks = N, !.volumes = V]
      BY <1>5 DEF EditSpec
    <2>2. IsService(p.arg)
      BY <1>5 DEF IsPatch
    <2>3. IsService(Stripped(p.arg))
      BY <2>2 DEF Stripped, IsService, IsRecord
    <2>4. IsResource(DefaultNetwork)
      <3>1. IsSeq(<<>>)
        BY SeqIsSeq, EmptySeq
      <3>. QED
        BY <3>1 DEF IsResource, IsRecord, DefaultNetwork
    <2>5. (\A s \in S : IsService(s)) /\ (\A r \in N \cup V : IsResource(r))
      BY <1>0, <2>2, <2>3, <2>4, SourcesAre DEF IsSpec
    <2>. HIDE DEF S, N, V
    <2>6. IsSpec([sp EXCEPT !.services = S, !.networks = N, !.volumes = V])
      BY <2>5 DEF IsSpec, IsRecord
    <2>. QED
      BY <2>1, <2>6
  <1>. QED
    BY <1>2, <1>3, <1>4, <1>5 DEF SpecOps

-----------------------------------------------------------------------------
(* The groups a patch may be for, and what their first member is.          *)
LEMMA BaseIs ==
  ASSUME NEW n, IsName(n), Numbered(n)
  PROVE  IsName(BaseOf(n)) /\ Ordinal(n) \in Nat
  <1>1. n \in Seq({n[j] : j \in 1..Len(n)})
    BY IsSeqIs DEF IsName
  <1>2. PICK k \in Nat : k = Len(n) /\ k > 1
    BY <1>1 DEF Numbered
  <1>3. BaseOf(n) = SubSeq(n, 1, k - 1)
    BY <1>2 DEF BaseOf, SeqX!Front
  <1>. DEFINE b == SubSeq(n, 1, k - 1)
  <1>4. b \in Seq({n[j] : j \in 1..Len(n)}) /\ Len(b) = k - 1 /\ \A j \in 1..(k - 1) : b[j] = n[j]
    BY <1>1, <1>2
  <1>. HIDE DEF b
  <1>5. \A j \in 2..(k - 1) : j \in 1..(k - 1) /\ j \in 2..k
    BY <1>2
  <1>6. \A j \in 2..(k - 1) : b[j] \in Nat
    BY <1>2, <1>4, <1>5 DEF IsName
  <1>7. b # <<>>
    BY <1>2, <1>4
  <1>8. IsName(b)
    BY <1>4, <1>6, <1>7, SeqIsSeq DEF IsName
  <1>9. n[k] \in Nat
    BY <1>2 DEF IsName
  <1>. QED
    BY <1>2, <1>3, <1>8, <1>9 DEF b, Ordinal

LEMMA GroupIs ==
  ASSUME NEW sp, IsSpec(sp), NEW sel, NEW g \in GroupsOf(sp.services, sel)
  PROVE  g.members \subseteq sp.services /\ g.members # {} /\ IsName(g.base)
  <1>. DEFINE databases == {s \in sp.services : s.kind = "database"}
              numbered == {s \in databases : Numbered(s.name)}
  <1>0. \A s \in sp.services : IsName(s.name)
    BY DEF IsSpec, IsService
  <1>1. CASE \E s \in numbered : g = [base |-> BaseOf(s.name), members |-> {t \in numbered : BaseOf(t.name) = BaseOf(s.name)}]
    BY <1>0, <1>1, BaseIs
  <1>2. CASE \E s \in databases : g = [base |-> s.name, members |-> {s}]
    BY <1>0, <1>2
  <1>. QED
    BY <1>1, <1>2 DEF GroupsOf

LEMMA FirstIs ==
  ASSUME NEW M, M # {}, \A s \in M : IsName(s.name)
  PROVE  \E s \in M : \A t \in M : Numbered(s.name) => Ordinal(s.name) <= Ordinal(t.name)
  <1>1. CASE \E s \in M : ~Numbered(s.name)
    BY <1>1
  <1>2. CASE \A s \in M : Numbered(s.name)
    <2>. DEFINE T == {Ordinal(s.name) : s \in M}
    <2>1. T \subseteq Nat /\ T # {}
      BY <1>2, BaseIs
    <2>2. PICK m \in T : \A k \in T : m <= k
      <3>. HIDE DEF T
      <3>. QED
        BY <2>1, Least
    <2>3. PICK s \in M : m = Ordinal(s.name)
      OBVIOUS
    <2>4. \A t \in M : Ordinal(t.name) \in T
      OBVIOUS
    <2>. QED
      BY <2>2, <2>3, <2>4
  <1>. QED
    BY <1>1, <1>2

LEMMA ResizeIs ==
  ASSUME NEW sp, IsSpec(sp), NEW g, g.members \subseteq sp.services, g.members # {},
         IsName(g.base), NEW n \in Nat
  PROVE  IsSpec(Resize(sp, g, n))
  <1>. DEFINE names == NamesOf(g.members)
              first == CHOOSE s \in g.members :
                         \A t \in g.members : Numbered(s.name) => Ordinal(s.name) <= Ordinal(t.name)
              others == first.deps \ names
              from == [BaseVolume([first EXCEPT !.name = g.base])
                         EXCEPT !.nrs = IF @ = <<>> THEN @ ELSE SeqX!Front(@)]
              logical == [first EXCEPT !.name = g.base, !.replicas = n,
                                       !.deps = IF others = {} THEN @ ELSE others,
                                       !.mounts = {[from |-> from, at |-> DataTarget(first)]}]
              single == [first EXCEPT !.replicas = 0, !.deps = others]
              pattern == IF n = 1 THEN single ELSE logical
              rest == DependentsOf(sp.services \ g.members, names, pattern.name)
              S == rest \cup {pattern}
              V == sp.volumes \ UNION {Sources(s) : s \in g.members}
              resized == [sp EXCEPT !.services = S, !.volumes = V]
              declared(x) == [x EXCEPT !.volumes = @ \cup UNION {Declared(s) : s \in x.services}]
  <1>1. Resize(sp, g, n) = IF n = 1 THEN [resized EXCEPT !.volumes = @ \cup Declared(single)]
                           ELSE declared(Expand(resized))
    BY DEF Resize
  <1>2. IsService(first)
    <2>1. \A s \in g.members : IsName(s.name) /\ IsService(s)
      BY DEF IsSpec, IsService
    <2>. QED
      BY <2>1, FirstIs
  <1>. HIDE DEF first
  <1>3. IsResource(from)
    <2>. DEFINE f == [first EXCEPT !.name = g.base]
    <2>1. IsService(f)
      BY <1>2 DEF IsService, IsRecord
    <2>. HIDE DEF f
    <2>2. IsResource(BaseVolume(f))
      BY <2>1, VolumeIs
    <2>. DEFINE v == BaseVolume(f)
    <2>. HIDE DEF v
    <2>3. IsResource(v)
      BY <2>2 DEF v
    <2>4. \A x : IsResource([v EXCEPT !.nrs = x])
      BY <2>3 DEF IsResource, IsRecord
    <2>. QED
      BY <2>4 DEF v, f
  <1>. HIDE DEF from
  <1>4. IsService(logical)
    <2>. DEFINE d == IF others = {} THEN first.deps ELSE others
                M == {[from |-> from, at |-> DataTarget(first)]}
    <2>1. \A m \in M : IsMount(m)
      BY <1>3 DEF IsMount, IsRecord
    <2>2. logical = [first EXCEPT !.name = g.base, !.replicas = n, !.deps = d, !.mounts = M]
      OBVIOUS
    <2>. HIDE DEF d, M, logical
    <2>. QED
      BY <1>2, <2>1, <2>2 DEF IsService, IsRecord
  <1>5. IsService(single)
    <2>. HIDE DEF others
    <2>. QED
      BY <1>2 DEF IsService, IsRecord
  <1>. HIDE DEF logical, single
  <1>6. IsService(pattern)
    BY <1>4, <1>5
  <1>. HIDE DEF pattern
  <1>7. \A s \in rest : IsService(s)
    BY DepsMayBe DEF DependentsOf, IsSpec
  <1>. HIDE DEF rest
  <1>8. (\A s \in S : IsService(s)) /\ (\A r \in V : IsResource(r))
    BY <1>6, <1>7 DEF IsSpec
  <1>. HIDE DEF S, V
  <1>9. IsSpec(resized)
    BY <1>8, BothMayBe
  <1>. HIDE DEF resized
  <1>10. ASSUME NEW x, IsSpec(x), NEW W, \A r \in W : IsResource(r)
         PROVE  IsSpec([x EXCEPT !.volumes = @ \cup W])
    BY <1>10 DEF IsSpec, IsRecord
  <1>11. CASE n = 1
    BY <1>1, <1>5, <1>9, <1>10, <1>11, SourcesAre
  <1>12. CASE n # 1
    <2>. DEFINE x == Expand(resized)
                W == UNION {Declared(s) : s \in x.services}
    <2>1. IsSpec(x)
      BY <1>9, ExpandIs
    <2>2. \A r \in W : IsResource(r)
      BY <2>1, SourcesAre DEF IsSpec
    <2>3. Resize(sp, g, n) = [x EXCEPT !.volumes = @ \cup W]
      BY <1>1, <1>12
    <2>. HIDE DEF x, W
    <2>. QED
      BY <1>10, <2>1, <2>2, <2>3
  <1>. QED
    BY <1>11, <1>12

-----------------------------------------------------------------------------
(* A patch after another.                                                  *)
LEMMA AppliedIs ==
  ASSUME NEW sp, IsSpec(sp), NEW p, IsPatch(p), NEW matched, matched \subseteq sp.services
  PROVE  IsSpec(Applied(sp, p, matched))
  <1>. DEFINE group == FittingGroups(sp.services, p.target, matched, FALSE)
              s == CHOOSE t \in matched : TRUE
              S == (sp.services \ {s}) \cup {Edited(s, p)}
              edited == [sp EXCEPT !.services = S]
  <1>1. CASE ~HasTarget(p)
    BY <1>1, EditSpecIs DEF Applied, HasTarget
  <1>2. CASE HasTarget(p) /\ p.op = "set-service-replicas" /\ group # {}
    <2>. DEFINE g == CHOOSE h \in group : TRUE
    <2>1. g \in GroupsOf(sp.services, p.target)
      BY <1>2 DEF FittingGroups
    <2>2. Applied(sp, p, matched) = Resize(sp, g, p.arg) /\ p.arg \in Nat
      BY <1>2 DEF Applied, IsPatch
    <2>. HIDE DEF g
    <2>. QED
      BY <2>1, <2>2, GroupIs, ResizeIs
  <1>3. CASE /\ HasTarget(p) /\ ~(p.op = "set-service-replicas" /\ group # {})
             /\ p.op = "set-service-image"
    <2>1. Applied(sp, p, matched) = SetImage(sp, matched, Normalized(p.arg))
      BY <1>3 DEF Applied
    <2>. QED
      BY <2>1, SetImageIs
  <1>4. CASE /\ HasTarget(p) /\ ~(p.op = "set-service-replicas" /\ group # {})
             /\ p.op # "set-service-image"
    <2>. DEFINE one == IF p.op = "remove-service" THEN Remove(sp, s.name)
            ELSE IF p.op = "rename-service" THEN Rename(sp, s.name, p.arg)
            ELSE IF p.op = "set-service-replicas" /\ s.kind = "database" THEN Expand(edited)
            ELSE IF p.op = "add-service-volume"
              THEN [edited EXCEPT !.volumes = @ \cup ({p.arg.from} \ {HostPath})]
            ELSE edited
    <2>01. Applied(sp, p, matched) =
             IF ~HasTarget(p) THEN EditSpec(sp, p)
             ELSE IF p.op = "set-service-replicas" /\ group # {}
               THEN Resize(sp, CHOOSE g \in group : TRUE, p.arg)
             ELSE IF p.op = "set-service-image" THEN SetImage(sp, matched, Normalized(p.arg))
             ELSE IF Cardinality(matched) # 1 THEN sp ELSE one
      BY DEF Applied
    <2>0. Applied(sp, p, matched) = IF Cardinality(matched) # 1 THEN sp ELSE one
      <3>. HIDE DEF one, group
      <3>. QED
        BY <1>4, <2>01
    <2>1. CASE Cardinality(matched) # 1
      BY <2>0, <2>1
    <2>2. CASE Cardinality(matched) = 1
      <3>1. s \in sp.services /\ IsService(s)
        <4>1. matched # {}
          BY <2>2, FS_EmptySet
        <4>. QED
          BY <4>1 DEF IsSpec
      <3>. HIDE DEF s
      <3>2. CASE p.op = "remove-service"
        BY <2>0, <2>2, <3>2, RemoveIs
      <3>3. CASE p.op = "rename-service"
        <4>1. IsName(p.arg) /\ Applied(sp, p, matched) = Rename(sp, s.name, p.arg)
          BY <2>0, <2>2, <3>3 DEF IsPatch
        <4>. QED
          BY <4>1, RenameIs
      <3>4. CASE p.op \notin {"remove-service", "rename-service"}
        <4>1. p.op \in ServiceOps \ {"set-service-image", "remove-service", "rename-service"}
          BY <1>4, <3>4 DEF IsPatch, HasTarget
        <4>2. IsService(Edited(s, p))
          BY <3>1, <4>1, EditedIs
        <4>3. \A t \in S : IsService(t)
          BY <4>2 DEF IsSpec
        <4>. HIDE DEF S
        <4>4. IsSpec(edited)
          BY <4>3, ServicesMayBe
        <4>. HIDE DEF edited
        <4>5. IsSpec(Expand(edited))
          BY <4>4, ExpandIs
        <4>6. p.op = "add-service-volume" =>
                IsSpec([edited EXCEPT !.volumes = @ \cup ({p.arg.from} \ {HostPath})])
          <5>. SUFFICES ASSUME p.op = "add-service-volume"
                        PROVE  IsSpec([edited EXCEPT !.volumes = @ \cup ({p.arg.from} \ {HostPath})])
            OBVIOUS
          <5>1. IsResource(p.arg.from)
            BY DEF IsPatch, IsMount
          <5>. DEFINE W == edited.volumes \cup ({p.arg.from} \ {HostPath})
          <5>2. \A r \in W : IsResource(r)
            BY <4>4, <5>1 DEF IsSpec
          <5>. HIDE DEF W
          <5>3. IsSpec([edited EXCEPT !.volumes = W])
            BY <4>4, <5>2 DEF IsSpec, IsRecord
          <5>. QED
            BY <5>3 DEF W
        <4>. QED
          BY <2>0, <2>2, <3>4, <4>4, <4>5, <4>6
      <3>. QED
        BY <3>2, <3>3, <3>4
    <2>. QED
      BY <2>1, <2>2
  <1>. QED
    BY <1>1, <1>2, <1>3, <1>4

LEMMA AliasedIs ==
  ASSUME NEW p, IsPatch(p), NEW alias
  PROVE  IsPatch(Aliased(p, alias))
  <1>1. \E x : Aliased(p, alias) = p \/ Aliased(p, alias) = [p EXCEPT !.target = x]
    BY DEF Aliased
  <1>2. \A x : IsPatch([p EXCEPT !.target = x])
    BY DEF IsPatch, IsRecord, SpecOps, ServiceOps
  <1>. QED
    BY <1>1, <1>2

LEMMA MatchedIs ==
  ASSUME NEW p, NEW services
  PROVE  Resolve(p, services).matched \subseteq services
  <1>1. \A sel : Selected(sel, services) \subseteq services
    BY DEF Selected
  <1>2. \A sel, m, a : MembersOf(FittingGroups(services, sel, m, a)) \subseteq services
    <2>1. ASSUME NEW sel, NEW g \in GroupsOf(services, sel) PROVE g.members \subseteq services
      BY DEF GroupsOf
    <2>2. \A sel, m, a : FittingGroups(services, sel, m, a) \subseteq GroupsOf(services, sel)
      BY DEF FittingGroups
    <2>. QED
      BY <2>1, <2>2 DEF MembersOf
  <1>. QED
    BY <1>1, <1>2 DEF Resolve

LEMMA PatchedByIs ==
  ASSUME NEW acc, IsSpec(acc.spec), OnlyProxies(acc.spec), NEW p, IsPatch(p),
         NEW may, NEW found, NEW about
  PROVE  /\ IsSpec(PatchedBy(acc, p, may, found, about).spec)
         /\ OnlyProxies(PatchedBy(acc, p, may, found, about).spec)
  <1>. DEFINE q == Aliased(p, acc.alias)
              res == Resolve(q, acc.spec.services)
              blocked == Objection(q, res, acc.spec.services, may, found, about)
              new == IF blocked # "" THEN acc.spec
                     ELSE StrippedSpec(Applied(acc.spec, q, res.matched))
  <1>1. PatchedBy(acc, p, may, found, about).spec = new
    BY DEF PatchedBy, Found, Checked, Tried, Noted
  <1>2. IsPatch(q)
    BY AliasedIs
  <1>. HIDE DEF q
  <1>3. res.matched \subseteq acc.spec.services
    BY MatchedIs
  <1>. HIDE DEF res
  <1>4. IsSpec(Applied(acc.spec, q, res.matched))
    BY <1>2, <1>3, AppliedIs
  <1>5. IsSpec(new) /\ OnlyProxies(new)
    BY <1>4, StrippedIs
  <1>. QED
    BY <1>1, <1>5

(* The patches of a plan are made one after the other.                     *)
PatchCourse(sp, ps, may, found, about, after) ==
  /\ after[0].spec = StrippedSpec(sp) /\ after[0].alias = {}
  /\ \A i \in 1..Len(ps) : after[i] = PatchedBy(after[i - 1], ps[i], may, found, about)
  /\ Patched(sp, ps, may, found, about) = after[Len(ps)]

LEMMA PatchAfterPatch ==
  ASSUME NEW sp, NEW ps, IsSeq(ps), NEW may, NEW found, NEW about
  PROVE  \E after : PatchCourse(sp, ps, may, found, about, after)
  <1>0. PICK n \in Nat : n = Len(ps)
    BY DEF IsSeq
  <1>. DEFINE start == [spec |-> StrippedSpec(sp), alias |-> {}, alone |-> {}, results |-> <<>>]
              F(acc, p) == PatchedBy(acc, p, may, found, about)
              Def(f, k) == [i \in 0..k |-> IF i = 0 THEN start ELSE F(f[i - 1], ps[i])]
              after == CHOOSE f : f = Def(f, n)
  <1>1. Patched(sp, ps, may, found, about) = after[n]
    BY <1>0 DEF Patched
  <1>2. start.spec = StrippedSpec(sp) /\ start.alias = {}
    OBVIOUS
  <1>. HIDE DEF start
  <1>3. \A acc, p : F(acc, p) = PatchedBy(acc, p, may, found, about)
    OBVIOUS
  <1>. HIDE DEF F
  <1>4. \E f : f = Def(f, n)
    <2>. DEFINE P == {k \in 0..n : \E f : f = Def(f, k)}
    <2>1. 0 \in P
      <3>. DEFINE f == [i \in 0..0 |-> start]
      <3>1. f = Def(f, 0) /\ 0 \in 0..n
        OBVIOUS
      <3>. HIDE DEF f, Def
      <3>. QED
        BY <3>1
    <2>2. ASSUME NEW k \in 1..n, k - 1 \in P PROVE k \in P
      <3>1. PICK f : f = Def(f, k - 1)
        BY <2>2
      <3>. DEFINE h == [i \in 0..k |-> IF i = k THEN F(f[k - 1], ps[k]) ELSE f[i]]
      <3>2. \A i \in 0..(k - 1) : f[i] = IF i = 0 THEN start ELSE F(f[i - 1], ps[i])
        BY <3>1
      <3>3. \A i \in 0..k : i = k \/ i \in 0..(k - 1)
        OBVIOUS
      <3>4. k \in 0..n /\ k # 0 /\ \A i \in 0..k : i # 0 => i - 1 \in 0..(k - 1) /\ i - 1 \in 0..k /\ i - 1 # k
        OBVIOUS
      <3>5. \A i \in 0..k : i # 0 => h[i - 1] = f[i - 1]
        BY <3>4
      <3>6. \A i \in 0..k : h[i] = IF i = 0 THEN start ELSE F(h[i - 1], ps[i])
        <4>1. ASSUME NEW i \in 0..k PROVE h[i] = IF i = 0 THEN start ELSE F(h[i - 1], ps[i])
          <5>1. CASE i = k
            <6>1. h[k] = F(f[k - 1], ps[k]) /\ h[k - 1] = f[k - 1]
              BY <3>4, <3>5
            <6>. QED
              BY <3>4, <5>1, <6>1
          <5>2. CASE i # k
            <6>1. i \in 0..(k - 1) /\ h[i] = f[i]
              BY <3>3, <5>2
            <6>. HIDE DEF h
            <6>. QED
              BY <3>2, <3>5, <6>1
          <5>. QED
            BY <5>1, <5>2
        <4>. QED
          BY <4>1
      <3>7. h = [i \in 0..k |-> h[i]]
        OBVIOUS
      <3>8. h = Def(h, k)
        <4>. HIDE DEF h
        <4>. QED
          BY <3>6, <3>7
      <3>. QED
        BY <3>4, <3>8
    <2>. HIDE DEF P
    <2>3. n \in P
      BY <2>1, <2>2, AtTheEnd
    <2>. QED
      BY <2>3 DEF P
  <1>5. after = Def(after, n)
    <2>. HIDE DEF Def
    <2>. QED
      BY <1>4
  <1>. HIDE DEF after
  <1>6. after[0] = start /\ \A i \in 1..n : after[i] = F(after[i - 1], ps[i])
    BY <1>5
  <1>. HIDE DEF Def
  <1>. QED
    BY <1>0, <1>1, <1>2, <1>3, <1>6 DEF PatchCourse

(* So a specification of its type with ports only on proxies stays one.    *)
LEMMA PatchedIs ==
  ASSUME NEW sp, IsSpec(sp), NEW ps, IsSeq(ps), \A i \in DOMAIN ps : IsPatch(ps[i]),
         NEW may, NEW found, NEW about
  PROVE  /\ IsSpec(Patched(sp, ps, may, found, about).spec)
         /\ OnlyProxies(Patched(sp, ps, may, found, about).spec)
  <1>0. PICK n \in Nat : n = Len(ps) /\ \A i \in 1..n : i \in DOMAIN ps
    BY IsSeqIs DEF IsSeq
  <1>1. PICK after : PatchCourse(sp, ps, may, found, about, after)
    BY PatchAfterPatch
  <1>. DEFINE Q == {i \in 0..n : IsSpec(after[i].spec) /\ OnlyProxies(after[i].spec)}
  <1>2. 0 \in Q
    BY <1>1, StrippedIs DEF PatchCourse
  <1>3. ASSUME NEW i \in 1..n, i - 1 \in Q PROVE i \in Q
    <2>1. after[i] = PatchedBy(after[i - 1], ps[i], may, found, about) /\ IsPatch(ps[i])
      BY <1>0, <1>1 DEF PatchCourse
    <2>2. IsSpec(after[i - 1].spec) /\ OnlyProxies(after[i - 1].spec)
      BY <1>3
    <2>3. IsSpec(after[i].spec) /\ OnlyProxies(after[i].spec)
      BY <2>1, <2>2, PatchedByIs
    <2>. QED
      BY <2>3
  <1>. HIDE DEF Q
  <1>4. n \in Q
    BY <1>2, <1>3, AtTheEnd
  <1>. QED
    BY <1>0, <1>1, <1>4 DEF Q, PatchCourse

-----------------------------------------------------------------------------
(* Plans: what is made of the plan that was offered is a plan.             *)
LEMMA KeptIs ==
  ASSUME NEW ps, IsSeq(ps), \A i \in DOMAIN ps : IsPatch(ps[i]), NEW at
  PROVE  \E T : /\ Kept(ps, at) \in Seq(T)
                /\ \A p \in T : IsPatch(p) /\ \E i \in DOMAIN ps : p = ps[i]
  <1>. DEFINE T == {ps[i] : i \in 1..Len(ps)}
              seqs == [i \in 1..Len(ps) |-> IF i \in at THEN <<ps[i]>> ELSE <<>>]
  <1>1. ps \in Seq(T) /\ DOMAIN ps = 1..Len(ps) /\ Len(ps) \in Nat
    BY IsSeqIs DEF IsSeq
  <1>2. \A p \in T : IsPatch(p) /\ \E i \in DOMAIN ps : p = ps[i]
    BY <1>1
  <1>3. seqs \in Seq(Seq(T))
    <2>0. <<>> \in Seq(T) /\ \A x \in T : <<x>> \in Seq(T)
      <3>. HIDE DEF T
      <3>. QED
        BY EmptySeq, SeqDef
    <2>1. \A i \in 1..Len(ps) : (IF i \in at THEN <<ps[i]>> ELSE <<>>) \in Seq(T)
      <3>1. \A i \in 1..Len(ps) : ps[i] \in T
        OBVIOUS
      <3>. HIDE DEF T
      <3>. QED
        BY <2>0, <3>1
    <2>. DEFINE D == Seq(T)
    <2>2. seqs \in [1..Len(ps) -> D]
      BY <2>1
    <2>. HIDE DEF D, seqs
    <2>3. seqs \in Seq(D)
      BY <1>1, <2>2, SeqDef
    <2>. QED
      BY <2>3 DEF D
  <1>4. Kept(ps, at) = SeqX!FlattenSeq(seqs)
    BY DEF Kept
  <1>. HIDE DEF seqs, T
  <1>6. SeqX!FlattenSeq(seqs) \in Seq(T)
    BY <1>3, Flattened
  <1>. QED
    BY <1>2, <1>4, <1>6

LEMMA GroupPlanIs ==
  ASSUME NEW sp, NEW plan, IsPlan(plan), NEW words, words.replicas \in Int
  PROVE  IsPlan(GroupPlan(sp, plan, words))
  <1>. DEFINE group == TheGroup(sp, words, plan.patches)
              g == CHOOSE h \in group : TRUE
              target == [AnyService EXCEPT !.group = "replica-group", !.name = g.base,
                                           !.kind = "database", !.family = Family(g)]
              whole == [op |-> "set-service-replicas", target |-> target,
                        from |-> <<>>, arg |-> words.replicas, resolves |-> {}, affects |-> {}]
              at == {i \in DOMAIN plan.patches : plan.patches[i].op # "set-service-replicas"}
  <1>1. GroupPlan(sp, plan, words) =
          IF words.total = "no" \/ words.replicas < 1 \/ group = {} THEN plan
          ELSE [plan EXCEPT !.asks = "no", !.patches = <<whole>> \o Kept(plan.patches, at)]
    BY DEF GroupPlan
  <1>. HIDE DEF group, target, at
  <1>2. PICK T : Kept(plan.patches, at) \in Seq(T) /\ \A p \in T : IsPatch(p)
    BY KeptIs DEF IsPlan
  <1>3. ASSUME ~(words.replicas < 1) PROVE IsPatch(whole)
    <2>1. words.replicas \in Nat \ {0}
      BY <1>3
    <2>. QED
      BY <2>1 DEF IsPatch, IsRecord, SpecOps, ServiceOps
  <1>4. ASSUME ~(words.replicas < 1), NEW k \in Seq(T)
        PROVE  IsSeq(<<whole>> \o k) /\ \A i \in DOMAIN (<<whole>> \o k) : IsPatch((<<whole>> \o k)[i])
    <2>. DEFINE U == T \cup {whole}
    <2>0. \A p \in U : IsPatch(p)
      BY <1>2, <1>3, <1>4
    <2>. HIDE DEF whole
    <2>1. <<whole>> \in Seq(U) /\ k \in Seq(U)
      BY <1>4, SeqDef
    <2>. HIDE DEF U
    <2>. DEFINE x == <<whole>> \o k
    <2>2. x \in Seq(U)
      BY <2>1, ConcatProperties
    <2>. HIDE DEF x
    <2>3. IsSeq(x) /\ \A i \in DOMAIN x : IsPatch(x[i])
      BY <2>0, <2>2, SeqIsSeq
    <2>. QED
      BY <2>3 DEF x
  <1>. HIDE DEF whole
  <1>5. ASSUME NEW x, IsSeq(x), \A i \in DOMAIN x : IsPatch(x[i]), NEW y
        PROVE  IsPlan([plan EXCEPT !.asks = y, !.patches = x])
    BY <1>5 DEF IsPlan, IsRecord
  <1>. DEFINE k == Kept(plan.patches, at)
              x == <<whole>> \o k
  <1>6. CASE words.total = "no" \/ words.replicas < 1 \/ group = {}
    BY <1>1, <1>6
  <1>7. CASE ~(words.total = "no" \/ words.replicas < 1 \/ group = {})
    <2>. HIDE DEF k
    <2>1. IsSeq(x) /\ \A i \in DOMAIN x : IsPatch(x[i])
      BY <1>2, <1>4, <1>7 DEF k
    <2>2. GroupPlan(sp, plan, words) = [plan EXCEPT !.asks = "no", !.patches = x]
      BY <1>1, <1>7 DEF k
    <2>. HIDE DEF x
    <2>. QED
      BY <1>5, <2>1, <2>2
  <1>. QED
    BY <1>6, <1>7

LEMMA PortPlanIs ==
  ASSUME NEW sp, NEW plan, IsPlan(plan), NEW found
  PROVE  IsPlan(PortPlan(sp, plan, found))
  <1>1. \E at, y : PortPlan(sp, plan, found) \in {plan, [plan EXCEPT !.patches = Kept(plan.patches, at), !.asks = y]}
    BY DEF PortPlan
  <1>2. PICK at, y : PortPlan(sp, plan, found) \in {plan, [plan EXCEPT !.patches = Kept(plan.patches, at), !.asks = y]}
    BY <1>1
  <1>3. PICK T : Kept(plan.patches, at) \in Seq(T) /\ \A p \in T : IsPatch(p)
    BY KeptIs DEF IsPlan
  <1>4. ASSUME NEW x \in Seq(T)
        PROVE  IsPlan([plan EXCEPT !.patches = x, !.asks = y])
    <2>1. IsSeq(x) /\ \A i \in DOMAIN x : IsPatch(x[i])
      BY <1>3, SeqIsSeq
    <2>. QED
      BY <2>1 DEF IsPlan, IsRecord
  <1>. QED
    BY <1>2, <1>3, <1>4

LEMMA PlanForIs ==
  ASSUME NEW sp, NEW words, words.replicas \in Int, NEW found, NEW offered, IsPlan(offered)
  PROVE  IsPlan(PlanFor(sp, words, found, offered))
  <1>1. IsSeq(<<>>) /\ DOMAIN <<>> = {}
    <2>1. <<>> \in Seq({})
      BY EmptySeq
    <2>2. IsSeq(<<>>)
      BY <2>1, SeqIsSeq
    <2>. QED
      BY <2>2
  <1>2. IsPlan(NoPlan) /\ IsPlan(LimitPlan)
    BY <1>1 DEF IsPlan, IsRecord, NoPlan, LimitPlan
  <1>3. IsPlan(GroupPlan(sp, offered, words))
    BY GroupPlanIs
  <1>. QED
    BY <1>2, <1>3, PortPlanIs DEF PlanFor

-----------------------------------------------------------------------------
(* A revision without findings either leaves the specification as it is,   *)
(* up to its namespace, or it has gone through the patches.                *)
LEMMA NamespaceKeeps ==
  ASSUME NEW sp, IsSpec(sp), OnlyProxies(sp)
  PROVE  OnlyProxies(Namespace(sp))
  <1>1. Namespace(sp).services = {Placed(sp.project, s) : s \in sp.services} /\ IsProject(sp.project)
    BY NamespaceIs DEF IsSpec
  <1>2. \A s \in sp.services : /\ Placed(sp.project, s).kind = s.kind
                               /\ Placed(sp.project, s).ports = s.ports
    BY <1>1, PlacedIs DEF IsSpec
  <1>. QED
    BY <1>1, <1>2 DEF OnlyProxies

LEMMA RevisedFrom ==
  ASSUME NEW sp, NEW words, NEW offered, NEW at,
         NEW plan, plan = PlanFor(sp, words, NoReport.findings, offered)
  PROVE  Revise(sp, words, NoReport, offered, at).spec
           \in {Namespace(sp), Namespace(Applying(sp, words, NoReport, plan).spec)}
  <1>. DEFINE done == Applying(sp, words, NoReport, plan)
  <1>1. Revise(sp, words, NoReport, offered, at) = Weighed(sp, words, NoReport, at, plan)
    BY DEF Revise
  <1>2. \A n, d, q : Outcome(n, d, q).spec = n
    BY DEF Outcome
  <1>3. ASSUME NEW d
        PROVE  AfterPatches(NoReport.findings, plan, d).spec = Namespace(d.spec)
    <2>1. \E e, q : AfterPatches(NoReport.findings, plan, d) = Outcome(Namespace(d.spec), e, q)
      BY DEF AfterPatches
    <2>. QED
      BY <1>2, <2>1
  <1>. HIDE DEF done
  <1>4. \/ Weighed(sp, words, NoReport, at, plan) = Outcome(Namespace(sp), "auto-revised", <<>>)
        \/ Weighed(sp, words, NoReport, at, plan) = AfterPatches(NoReport.findings, plan, done)
        \/ Weighed(sp, words, NoReport, at, plan) =
             Outcome(Namespace(sp), "needs-user-input", Questions(NoReport.findings, <<>>, plan))
    <2>1. CASE words.text = "none"
      BY <2>1, Zenon DEF Weighed
    <2>2. CASE words.text # "none" /\ plan.from # "none" /\ (plan.patches # <<>> \/ plan.asks # "no")
      BY <2>2, Zenon DEF Weighed, done
    <2>3. CASE words.text # "none" /\ ~(plan.from # "none" /\ (plan.patches # <<>> \/ plan.asks # "no"))
      BY <2>3, Zenon DEF Weighed
    <2>. QED
      BY <2>1, <2>2, <2>3, Zenon
  <1>. QED
    BY <1>1, <1>2, <1>3, <1>4 DEF done

LEMMA ReviseIs ==
  ASSUME NEW sp, IsSpec(sp), NEW words, words.replicas \in Int, NEW offered, IsPlan(offered), NEW at
  PROVE  LET new == Revise(sp, words, NoReport, offered, at).spec
         IN IsSpec(new) /\ (OnlyProxies(new) \/ new = Namespace(sp))
  <1>. DEFINE plan == PlanFor(sp, words, NoReport.findings, offered)
              done == Applying(sp, words, NoReport, plan)
  <1>1. IsPlan(plan)
    BY PlanForIs
  <1>2. Revise(sp, words, NoReport, offered, at).spec \in {Namespace(sp), Namespace(done.spec)}
    BY RevisedFrom
  <1>. HIDE DEF plan
  <1>3. IsSpec(done.spec) /\ OnlyProxies(done.spec)
    BY <1>1, PatchedIs DEF IsPlan, Applying
  <1>. HIDE DEF done
  <1>. QED
    BY <1>2, <1>3, NamespaceIs, NamespaceKeeps

(* An adjustment that only puts names in the namespace changes nothing the *)
(* policy knows as a change.                                               *)
LEMMA SameGroups ==
  ASSUME NEW sp, IsSpec(sp), IsFiniteSet(sp.services), Valid(sp), NEW base
  PROVE  Cardinality(Group(Namespace(sp), base)) = Cardinality(Group(sp, base))
  <1>. DEFINE p == sp.project
              old == Group(sp, base)
              new == Group(Namespace(sp), base)
              f == [s \in old |-> Placed(p, s)]
  <1>1. Namespace(sp).services = {Placed(p, s) : s \in sp.services}
    BY NamespaceIs
  <1>2. \A s \in sp.services : /\ Placed(p, s).name = s.name /\ Placed(p, s).kind = s.kind
    BY PlacedIs DEF IsSpec
  <1>3. old \subseteq sp.services /\ IsFiniteSet(old)
    <2>1. old \subseteq sp.services
      BY DEF Group, Databases
    <2>. QED
      BY <2>1, FS_Subset
  <1>4. \A s \in sp.services : s \in old <=> s.kind = "database" /\ Logical(s.name) = base
    BY DEF Group, Databases
  <1>5. \A s \in sp.services : Placed(p, s) \in new <=> s \in old
    BY <1>1, <1>2, <1>4 DEF Group, Databases
  <1>6. \A t \in new : \E s \in sp.services : t = Placed(p, s)
    BY <1>1 DEF Group, Databases
  <1>7. \A s, t \in sp.services : s.name = t.name => s = t
    BY DEF Valid
  <1>. HIDE DEF old, new, p
  <1>8. f \in Bijection(old, new)
    <2>1. f \in [old -> new]
      BY <1>3, <1>5
    <2>2. \A s, t \in old : f[s] = f[t] => s = t
      BY <1>2, <1>3, <1>7
    <2>3. \A t \in new : \E s \in old : f[s] = t
      BY <1>5, <1>6
    <2>. QED
      BY <2>1, <2>2, <2>3 DEF Bijection, Injection, Surjection, IsInjective
  <1>9. ExistsBijection(old, new)
    <2>. HIDE DEF f
    <2>. QED
      BY <1>8 DEF ExistsBijection
  <1>10. Cardinality(new) = Cardinality(old)
    BY <1>3, <1>9, FS_Bijection
  <1>. QED
    BY <1>10 DEF old, new

LEMMA UnchangedIsRefused ==
  ASSUME NEW sp, IsSpec(sp), IsFiniteSet(sp.services), Valid(sp)
  PROVE  ~HasSupportedChange(WithProject(Namespace(sp), sp.project), sp)
  <1>. DEFINE n == Namespace(sp)
              w == WithProject(n, sp.project)
  <1>1. IsSpec(n) /\ n.project = sp.project /\ n.services = {Placed(sp.project, s) : s \in sp.services}
    BY NamespaceIs
  <1>2. w = n
    BY <1>1 DEF WithProject, IsSpec, IsRecord
  <1>3. ASSUME NEW s \in n.services, NEW t \in sp.services, s.name = t.name
        PROVE  ReplicasOf(s) = ReplicasOf(t)
    <2>1. PICK u \in sp.services : s = Placed(sp.project, u)
      BY <1>1
    <2>2. s.name = u.name /\ s.replicas = u.replicas
      BY <2>1, PlacedIs DEF IsSpec
    <2>3. u = t
      BY <1>3, <2>2 DEF Valid
    <2>. QED
      BY <2>2, <2>3 DEF ReplicasOf
  <1>. QED
    BY <1>2, <1>3, SameGroups DEF HasSupportedChange

-----------------------------------------------------------------------------
(* The invariant of the dialogues.                                         *)
LEMMA ReviewStarts ==
  ASSUME Init
  PROVE  ReviewInv
  <1>1. mode \in Modes /\ \E i \in DOMAIN Specs[mode] : origin = Specs[mode][i]
    BY DEF Init
  <1>2. /\ IsSpec(origin) /\ IsFiniteSet(origin.services) /\ Valid(origin)
        /\ mode # "adjust" => OnlyProxies(origin)
    BY <1>1, RevisionAssumption DEF Inputs
  <1>3. spec = origin /\ result.spec = origin /\ outcome = ""
    BY DEF Init, NoResult
  <1>4. /\ mode = "adjust" => pc = "adjust"
        /\ mode = "preview" => pc = "prepare"
        /\ mode = "runtime" => pc = "scan"
    BY DEF Init
  <1>. QED
    BY <1>1, <1>2, <1>3, <1>4 DEF ReviewInv, ApprovedIsSound, Reviewing, Adjusting, Deploying, Modes

(* A call of the planner without findings.                                 *)
LEMMA ConsultIs ==
  ASSUME mode \in Modes, NEW sp, IsSpec(sp), NEW w, w.replicas \in Int, Consult(sp, w, NoReport, 0)
  PROVE  IsSpec(result'.spec) /\ (OnlyProxies(result'.spec) \/ result'.spec = Namespace(sp))
  <1>1. PICK k \in DOMAIN Plans[mode] : result' = Revise(sp, w, NoReport, Plans[mode][k], 0)
    BY DEF Consult
  <1>2. IsPlan(Plans[mode][k])
    BY RevisionAssumption DEF Inputs
  <1>. QED
    BY <1>1, <1>2, ReviseIs

(* The actions that only move the stage or end the dialogue.               *)
LEMMA ReviewEnds ==
  ASSUME ReviewInv, UNCHANGED <<mode, origin, spec, shown, result>>, pc' = "done", outcome' # "written"
  PROVE  ReviewInv'
  BY DEF ReviewInv, ApprovedIsSound, Reviewing, Adjusting, Deploying

LEMMA AdjustKeeps ==
  ASSUME ReviewInv, Adjust
  PROVE  ReviewInv'
  <1>0. UNCHANGED <<mode, origin, spec, shown>> /\ mode = "adjust" /\ pc = "adjust"
    BY DEF Adjust
  <1>1. PICK r \in DOMAIN Requests : Consult(origin, Requests[r], NoReport, 0)
    BY DEF Adjust
  <1>2. Requests[r].replicas \in Int
    BY RevisionAssumption DEF Inputs
  <1>3. /\ IsSpec(result'.spec)
        /\ OnlyProxies(result'.spec) \/ result'.spec = Namespace(origin)
    BY <1>1, <1>2, ConsultIs DEF ReviewInv
  <1>4. \/ pc' = "done" /\ outcome' = "threw"
        \/ pc' = "policy" /\ outcome' = outcome
    BY DEF Adjust, End, Go
  <1>. QED
    BY <1>0, <1>3, <1>4 DEF ReviewInv, ApprovedIsSound, Reviewing, Adjusting, Deploying

LEMMA CheckKeeps ==
  ASSUME ReviewInv, Check
  PROVE  ReviewInv'
  <1>0. UNCHANGED <<mode, origin, shown, result>> /\ pc = "policy" /\ mode # "runtime"
    BY DEF Check, NoConsult, ReviewInv, Adjusting
  <1>. DEFINE revised == WithProject(result.spec, origin.project)
  <1>1. CASE UNCHANGED spec /\ End("refused")
    BY <1>0, <1>1, ReviewEnds DEF End
  <1>2. CASE spec' = revised /\ Go("prepare") /\ HasSupportedChange(revised, origin)
    <2>1. result.spec # Namespace(origin)
      BY <1>2, UnchangedIsRefused DEF ReviewInv
    <2>2. IsSpec(result.spec) /\ OnlyProxies(result.spec) /\ IsProject(origin.project)
      BY <1>0, <2>1 DEF ReviewInv, IsSpec
    <2>3. IsSpec(revised) /\ OnlyProxies(revised)
      BY <2>2 DEF WithProject, IsSpec, IsRecord, OnlyProxies
    <2>4. outcome' = outcome /\ pc' = "prepare" /\ outcome # "written"
      BY <1>0, <1>2 DEF Go, ReviewInv
    <2>. HIDE DEF revised
    <2>. QED
      BY <1>0, <1>2, <2>3, <2>4 DEF ReviewInv, ApprovedIsSound, Reviewing, Adjusting, Deploying
  <1>. QED
    BY <1>1, <1>2 DEF Check

LEMMA PrepareKeeps ==
  ASSUME ReviewInv, Prepare
  PROVE  ReviewInv'
  <1>0. /\ UNCHANGED <<mode, origin, spec, result>> /\ pc = "prepare" /\ shown' = Shown(spec)
        /\ outcome # "written"
    BY DEF Prepare, NoConsult, ReviewInv
  <1>1. \/ pc' = "done" /\ outcome' \in {"refused", "threw"}
        \/ pc' = "approve" /\ outcome' = outcome /\ Valid(shown') /\ Acyclic(shown')
    BY DEF Prepare, End, Go
  <1>. QED
    BY <1>0, <1>1 DEF ReviewInv, ApprovedIsSound, Reviewing, Adjusting, Deploying

LEMMA ApproveKeeps ==
  ASSUME ReviewInv, Approve
  PROVE  ReviewInv'
  <1>0. /\ UNCHANGED <<mode, origin, shown, result>> /\ pc = "approve" /\ spec' = shown
        /\ pc' = "done" /\ outcome' = "written"
    BY DEF Approve, NoConsult, End
  <1>1. /\ mode # "runtime" /\ IsSpec(spec) /\ OnlyProxies(spec)
        /\ shown = Shown(spec) /\ Valid(shown) /\ Acyclic(shown)
    BY <1>0 DEF ReviewInv, Reviewing
  <1>2. /\ IsSpec(shown) /\ OnlyProxies(shown)
        /\ \A r \in shown.networks \cup shown.volumes : SeqX!IsPrefix(shown.project, r.in)
        /\ \A s \in shown.services : ~Replicated(s) /\ HostPath \notin Sources(s)
    BY <1>1, ShownIs
  <1>3. ApprovedIsSound'
    BY <1>0, <1>1, <1>2 DEF ApprovedIsSound, OnlyProxies
  <1>. QED
    BY <1>0, <1>1, <1>2, <1>3 DEF ReviewInv, Reviewing, Adjusting, Deploying

(* A revision from the preview, or after a question about one.             *)
LEMMA RevisedKeeps ==
  ASSUME ReviewInv, pc \in {"approve", "clarify"}, NEW w, w.replicas \in Int, NEW last,
         Consult(spec, w, NoReport, 0), AfterPreview(last), UNCHANGED <<mode, origin, shown>>
  PROVE  ReviewInv'
  <1>1. mode # "runtime" /\ IsSpec(spec) /\ OnlyProxies(spec) /\ outcome # "written" /\ mode \in Modes
    BY DEF ReviewInv, Reviewing
  <1>2. IsSpec(result'.spec) /\ OnlyProxies(result'.spec)
    BY <1>1, ConsultIs, NamespaceKeeps
  <1>3. \/ pc' = "done" /\ outcome' \in {"threw", "unclear"} /\ spec' = spec
        \/ pc' = "clarify" /\ outcome' = outcome /\ spec' = spec
        \/ pc' = "prepare" /\ outcome' = outcome /\ spec' = result'.spec
    BY DEF AfterPreview, End, Go
  <1>. QED
    BY <1>1, <1>2, <1>3 DEF ReviewInv, ApprovedIsSound, Reviewing, Adjusting, Deploying

LEMMA AnswersAreWords ==
  ASSUME NEW w \in Answers
  PROVE  w.replicas \in Int
  <1>1. \A op : Said(op).replicas = -1
    BY DEF Said, Silent, NoNumber
  <1>. QED
    BY <1>1, RevisionAssumption DEF Answers, Inputs

(* The deploy loop approves nothing of a preview.                          *)
LEMMA LoopKeeps ==
  ASSUME ReviewInv, UNCHANGED <<mode, origin>>, pc \in Deploying,
         pc' \in Deploying \cup {"done"}, outcome' # "written"
  PROVE  ReviewInv'
  BY DEF ReviewInv, ApprovedIsSound, Reviewing, Adjusting, Deploying

LEMMA ReviewStep ==
  ASSUME ReviewInv, [Next]_vars
  PROVE  ReviewInv'
  <1>0. pc \in Deploying => mode = "runtime" /\ outcome # "written"
    BY DEF ReviewInv
  <1>1. ASSUME Decline PROVE ReviewInv'
    BY <1>1, ReviewEnds DEF Decline, End, NoConsult
  <1>2. ASSUME Change PROVE ReviewInv'
    <2>1. PICK r \in DOMAIN Requests : Consult(spec, Requests[r], NoReport, 0)
      BY <1>2 DEF Change
    <2>2. Requests[r].replicas \in Int
      BY RevisionAssumption DEF Inputs
    <2>. QED
      BY <1>2, <2>1, <2>2, RevisedKeeps DEF Change
  <1>3. ASSUME Clarify PROVE ReviewInv'
    <2>1. PICK w \in Answers : Consult(spec, w, NoReport, 0)
      BY <1>3 DEF Clarify
    <2>. QED
      BY <1>3, <2>1, AnswersAreWords, RevisedKeeps DEF Clarify
  <1>4. ASSUME GiveUp PROVE ReviewInv'
    BY <1>4, ReviewEnds DEF GiveUp, End, NoConsult
  <1>5. ASSUME Scan PROVE ReviewInv'
    <2>1. /\ UNCHANGED <<mode, origin>> /\ pc = "scan"
          /\ pc' \in {"done", "revise", "deploy"} /\ outcome' \in {outcome, "stopped"}
      BY <1>5 DEF Scan, Report, End, Go
    <2>. QED
      BY <1>0, <2>1, LoopKeeps DEF Deploying
  <1>6. ASSUME Deployed \/ No PROVE ReviewInv'
    BY <1>6, ReviewEnds DEF Deployed, No, End, NoConsult
  <1>7. ASSUME Failed PROVE ReviewInv'
    <2>1. /\ UNCHANGED <<mode, origin>> /\ pc = "deploy"
          /\ pc' \in {"done", "revise"} /\ outcome' \in {outcome, "stopped"}
      BY <1>7 DEF Failed, Report, End, Go
    <2>. QED
      BY <1>0, <2>1, LoopKeeps DEF Deploying
  <1>8. ASSUME Propose \/ Other \/ Ask PROVE ReviewInv'
    <2>1. /\ UNCHANGED <<mode, origin>> /\ pc \in Deploying
          /\ pc' \in {"done", "decide", "resolve"} /\ outcome' \in {outcome, "threw"}
      BY <1>8 DEF Propose, Other, Ask, End, Go, Deploying
    <2>. QED
      BY <1>0, <2>1, LoopKeeps DEF Deploying
  <1>9. ASSUME Yes \/ Resolved PROVE ReviewInv'
    <2>1. /\ UNCHANGED <<mode, origin>> /\ pc \in Deploying
          /\ pc' \in {"done", "scan", "resolve"} /\ outcome' \in {outcome, "blocked"}
      BY <1>9 DEF Yes, Resolved, Adopt, End, Go, Deploying
    <2>. QED
      BY <1>0, <2>1, LoopKeeps DEF Deploying
  <1>10. ASSUME UNCHANGED vars PROVE ReviewInv'
    BY <1>10 DEF vars, ReviewInv, ApprovedIsSound
  <1>. QED
    BY <1>1, <1>2, <1>3, <1>4, <1>5, <1>6, <1>7, <1>8, <1>9, <1>10,
       AdjustKeeps, CheckKeeps, PrepareKeeps, ApproveKeeps DEF Next, Finished

(* What the user approves of a revised specification can be deployed,      *)
(* however the dialogue came there.                                        *)
THEOREM ApprovalSound == Spec => []ApprovedIsSound
  <1>1. Init => ReviewInv
    BY ReviewStarts
  <1>2. ReviewInv /\ [Next]_vars => ReviewInv'
    BY ReviewStep
  <1>3. ReviewInv => ApprovedIsSound
    BY DEF ReviewInv
  <1>. QED
    BY <1>1, <1>2, <1>3, PTL DEF Spec

-----------------------------------------------------------------------------
(* What keeps databases on their data, when only numbers of replicas are   *)
(* changed: however often a group is resized, each of its members is on    *)
(* the volume its service was given when it was planned, with the numbers  *)
(* of its name behind.                                                     *)

(* The names of the parts of a database.                                   *)
LEMMA NameParts ==
  ASSUME NEW n, IsName(n), NEW i \in Nat
  PROVE  Append(n, i)[1] = n[1] /\ Tail(Append(n, i)) = Append(Tail(n), i)
  <1>. DEFINE S == {n[j] : j \in 1..Len(n)} \cup {i}
  <1>1. n \in Seq(S) /\ i \in S /\ n # <<>>
    <2>1. n \in Seq({n[j] : j \in 1..Len(n)})
      BY IsSeqIs DEF IsName
    <2>. QED
      BY <2>1, SeqDef DEF IsName
  <1>. HIDE DEF S
  <1>2. Append(n, i)[1] = n[1]
    BY <1>1
  <1>. QED
    BY <1>1, <1>2, HeadTailAppend

(* The names before and behind a last number.                              *)
LEMMA NameFront ==
  ASSUME NEW n, IsName(n), Numbered(n)
  PROVE  /\ BaseOf(n)[1] = n[1]
         /\ Tail(n) # <<>> /\ SeqX!Front(Tail(n)) = Tail(BaseOf(n))
  <1>. DEFINE S == {n[j] : j \in 1..Len(n)}
  <1>1. n \in Seq(S)
    BY IsSeqIs DEF IsName
  <1>. HIDE DEF S
  <1>2. PICK k \in Nat : k = Len(n) /\ k > 1
    BY <1>1 DEF Numbered
  <1>3. BaseOf(n) = SubSeq(n, 1, k - 1)
    BY <1>2 DEF BaseOf, SeqX!Front
  <1>4. /\ BaseOf(n) \in Seq(S) /\ Len(BaseOf(n)) = k - 1
        /\ \A j \in 1..(k - 1) : BaseOf(n)[j] = n[j]
    BY <1>1, <1>2, <1>3
  <1>5. /\ Tail(n) \in Seq(S) /\ Len(Tail(n)) = k - 1
        /\ \A j \in 1..(k - 1) : Tail(n)[j] = n[j + 1]
    BY <1>1, <1>2
  <1>. DEFINE t == Tail(n)
              b == BaseOf(n)
  <1>. HIDE DEF t, b
  <1>6. /\ t \in Seq(S) /\ Len(t) = k - 1 /\ \A j \in 1..(k - 1) : t[j] = n[j + 1]
        /\ b \in Seq(S) /\ Len(b) = k - 1 /\ \A j \in 1..(k - 1) : b[j] = n[j]
    BY <1>4, <1>5 DEF t, b
  <1>7. /\ SeqX!Front(t) = SubSeq(t, 1, k - 2)
    <2>1. Len(t) - 1 = k - 2
      BY <1>2, <1>6
    <2>. QED
      BY <2>1 DEF SeqX!Front
  <1>8. /\ SubSeq(t, 1, k - 2) \in Seq(S) /\ Len(SubSeq(t, 1, k - 2)) = k - 2
        /\ \A j \in 1..(k - 2) : SubSeq(t, 1, k - 2)[j] = t[j]
    BY <1>2, <1>6
  <1>9. Tail(b) \in Seq(S) /\ Len(Tail(b)) = k - 2 /\ \A j \in 1..(k - 2) : Tail(b)[j] = b[j + 1]
    BY <1>2, <1>6
  <1>. DEFINE x == SubSeq(t, 1, k - 2)
              y == Tail(b)
  <1>. HIDE DEF x, y
  <1>10. \A j \in 1..(k - 2) : j \in 1..(k - 1) /\ j + 1 \in 1..(k - 1)
    BY <1>2
  <1>11. /\ x \in Seq(S) /\ Len(x) = k - 2 /\ y \in Seq(S) /\ Len(y) = k - 2
         /\ \A j \in 1..(k - 2) : x[j] = y[j]
    BY <1>6, <1>8, <1>9, <1>10 DEF x, y
  <1>12. x = y
    BY <1>11, SeqEqual
  <1>13. b[1] = n[1] /\ t # <<>>
    BY <1>2, <1>6
  <1>. QED
    BY <1>7, <1>12, <1>13 DEF t, b, x, y

(* The only volume of the data of a database that is on a volume.          *)
LEMMA OnIs ==
  ASSUME NEW s, NEW t, OnVolumeOf(s, t)
  PROVE  BaseVolume(s) = [BaseVolume(t) EXCEPT !.nrs = Tail(s.name)] /\ DataMounts(s) # {}
  <1>. DEFINE v == BaseVolume(t)
              own == [from |-> [v EXCEPT !.nrs = Tail(s.name)], at |-> DataTarget(t)]
  <1>1. DataMounts(s) = {own}
    BY DEF OnVolumeOf
  <1>. HIDE DEF v
  <1>2. own.from = [v EXCEPT !.nrs = Tail(s.name)]
    OBVIOUS
  <1>. HIDE DEF own
  <1>3. BaseVolume(s) = own.from
    BY <1>1 DEF BaseVolume
  <1>. QED
    BY <1>1, <1>2, <1>3 DEF v

(* Whether a database is on a volume depends on its name, its image and    *)
(* its mounts only.                                                        *)
LEMMA SameVolume ==
  ASSUME NEW s, NEW t, OnVolumeOf(s, t), NEW x, x.name = s.name, x.image = s.image,
         x.kind = s.kind, x.mounts = s.mounts
  PROVE  OnVolumeOf(x, t)
  <1>1. DataTarget(x) = DataTarget(s)
    BY DEF DataTarget, InCatalog
  <1>2. DataMounts(x) = DataMounts(s)
    BY <1>1 DEF DataMounts
  <1>. QED
    BY <1>1, <1>2 DEF OnVolumeOf

LEMMA PartStays ==
  ASSUME NEW s, IsService(s), s.kind = "database", NEW i \in Nat,
         NEW t, IsService(t), OnVolumeOf(s, t)
  PROVE  OnVolumeOf(Part(s, i), t)
  <1>. DEFINE n == Append(s.name, i)
              d == IF i = 1 THEN s.deps ELSE s.deps \cup {Append(s.name, 1)}
              new == [from |-> PartVolume(s, i), at |-> DataTarget(s)]
              M == (s.mounts \ DataMounts(s)) \cup {new}
  <1>1. Part(s, i) = [s EXCEPT !.name = n, !.replicas = 0, !.deps = d, !.mounts = M]
    BY DEF Part
  <1>2. /\ n[1] = s.name[1] /\ Tail(n) = Append(Tail(s.name), i)
    BY NameParts DEF IsService
  <1>3. /\ IsResource(BaseVolume(t)) /\ BaseVolume(s) = [BaseVolume(t) EXCEPT !.nrs = Tail(s.name)]
    BY OnIs, VolumeIs
  <1>4. PartVolume(s, i) = [BaseVolume(t) EXCEPT !.nrs = Append(Tail(s.name), i)]
    BY <1>3 DEF PartVolume, IsResource, IsRecord
  <1>5. {m \in M : m.at = DataTarget(s)} = {new}
    BY DEF DataMounts
  <1>. HIDE DEF n, d, M
  <1>6. /\ Part(s, i).name = n /\ Part(s, i).image = s.image /\ Part(s, i).kind = s.kind
        /\ Part(s, i).mounts = M
    BY <1>1 DEF IsService, IsRecord
  <1>7. DataTarget(Part(s, i)) = DataTarget(s)
    BY <1>6 DEF DataTarget, InCatalog
  <1>8. DataMounts(Part(s, i)) = {new}
    BY <1>5, <1>6, <1>7 DEF DataMounts
  <1>. QED
    BY <1>2, <1>4, <1>6, <1>7, <1>8 DEF OnVolumeOf, n

(* A name in the namespace already keeps its place in it.                  *)
LEMMA PlacedStays ==
  ASSUME NEW s, IsService(s), s.kind = "database", NEW t, IsService(t), OnVolumeOf(s, t),
         NEW p, SeqX!IsPrefix(p, BaseVolume(t).in)
  PROVE  OnVolumeOf(Placed(p, s), t)
  <1>. DEFINE M == {[m EXCEPT !.from = Prefixed(p, @)] : m \in s.mounts}
              own == [from |-> [BaseVolume(t) EXCEPT !.nrs = Tail(s.name)], at |-> DataTarget(t)]
  <1>1. {m \in s.mounts : m.at = DataTarget(s)} = {own} /\ DataTarget(s) = DataTarget(t)
    BY DEF OnVolumeOf, DataMounts
  <1>2. Prefixed(p, own.from) = own.from
    <2>1. IsResource(BaseVolume(t))
      BY VolumeIs
    <2>. QED
      BY <2>1 DEF Prefixed, IsResource, IsRecord
  <1>3. ASSUME NEW m \in s.mounts
        PROVE  [m EXCEPT !.from = Prefixed(p, @)] = [from |-> Prefixed(p, m.from), at |-> m.at]
    BY DEF IsService, IsMount, IsRecord
  <1>4. M = {[from |-> Prefixed(p, m.from), at |-> m.at] : m \in s.mounts}
    BY <1>3
  <1>. HIDE DEF M
  <1>5. own \in s.mounts /\ own = [from |-> own.from, at |-> own.at] /\ own.at = DataTarget(s)
    BY <1>1
  <1>. HIDE DEF own
  <1>6. {m \in M : m.at = DataTarget(s)} = {own}
    <2>1. ASSUME NEW m \in M, m.at = DataTarget(s) PROVE m = own
      <3>1. PICK l \in s.mounts : m = [from |-> Prefixed(p, l.from), at |-> l.at]
        BY <1>4
      <3>2. l.at = DataTarget(s)
        BY <2>1, <3>1
      <3>3. l = own
        BY <1>1, <3>2
      <3>. QED
        BY <1>2, <1>5, <3>1, <3>3
    <2>2. own \in M /\ own.at = DataTarget(s)
      BY <1>2, <1>4, <1>5
    <2>. QED
      BY <2>1, <2>2
  <1>7. /\ Placed(p, s).name = s.name /\ Placed(p, s).image = s.image
        /\ Placed(p, s).kind = s.kind /\ Placed(p, s).mounts = M
    <2>1. Placed(p, s) = [s EXCEPT !.mounts = M]
      BY DEF Placed, M
    <2>. QED
      BY <2>1 DEF IsService, IsRecord
  <1>8. DataTarget(Placed(p, s)) = DataTarget(s)
    BY <1>7 DEF DataTarget, InCatalog
  <1>9. DataMounts(Placed(p, s)) = {own}
    BY <1>6, <1>7, <1>8 DEF DataMounts
  <1>. QED
    BY <1>1, <1>7, <1>8, <1>9 DEF OnVolumeOf, own

-----------------------------------------------------------------------------
(* Each database among some services is on the volume of one before.       *)
OnTheirs(S, old) == \A s \in S : s.kind = "database" => \E t \in Databases(old) : OnVolumeOf(s, t)

LEMMA InheritsIs ==
  ASSUME NEW sp, NEW old
  PROVE  Inherits(sp, old) <=> sp.project = old.project /\ OnTheirs(sp.services, old)
  BY DEF Inherits, OnTheirs, Databases

(* So are services that are theirs in name, image, kind and mounts.        *)
Alike(x, s) == x.name = s.name /\ x.image = s.image /\ x.kind = s.kind /\ x.mounts = s.mounts

LEMMA AlikeStays ==
  ASSUME NEW S, NEW old, OnTheirs(S, old), NEW T, \A x \in T : \E s \in S : Alike(x, s)
  PROVE  OnTheirs(T, old)
  <1>. SUFFICES ASSUME NEW x \in T, x.kind = "database"
                PROVE  \E t \in Databases(old) : OnVolumeOf(x, t)
    BY DEF OnTheirs
  <1>1. PICK s \in S : Alike(x, s)
    OBVIOUS
  <1>2. PICK t \in Databases(old) : OnVolumeOf(s, t)
    BY <1>1 DEF OnTheirs, Alike
  <1>. QED
    BY <1>1, <1>2, SameVolume DEF Alike

LEMMA MadeStays ==
  ASSUME NEW sp, IsSpec(sp), NEW old, IsSpec(old), OnTheirs(sp.services, old)
  PROVE  OnTheirs(UNION {Made(s) : s \in sp.services}, old)
  <1>. SUFFICES ASSUME NEW s \in sp.services, NEW x \in Made(s), x.kind = "database"
                PROVE  \E t \in Databases(old) : OnVolumeOf(x, t)
    BY DEF OnTheirs
  <1>1. IsService(s) /\ s.kind = "database"
    <2>1. IsService(s)
      BY DEF IsSpec
    <2>. QED
      BY <2>1, MadeIs
  <1>2. PICK t \in Databases(old) : OnVolumeOf(s, t) /\ IsService(t)
    BY <1>1 DEF OnTheirs, IsSpec, Databases
  <1>3. CASE Replicated(s)
    <2>1. PICK i \in 1..s.replicas : x = Part(s, i)
      BY <1>3 DEF Made
    <2>2. i \in Nat
      BY <1>1 DEF IsService
    <2>. QED
      BY <1>1, <1>2, <2>1, <2>2, PartStays
  <1>4. CASE ~Replicated(s)
    BY <1>2, <1>4 DEF Made
  <1>. QED
    BY <1>3, <1>4

LEMMA ExpandStays ==
  ASSUME NEW sp, IsSpec(sp), NEW old, IsSpec(old), OnTheirs(sp.services, old)
  PROVE  OnTheirs(Expand(sp).services, old)
  <1>. DEFINE parts(d) == LET owners == Named(sp.services, {d})
                          IN IF owners = {} THEN {d} ELSE Parts(CHOOSE s \in owners : TRUE)
              services == UNION {Made(s) : s \in sp.services}
              S == {[s EXCEPT !.deps = UNION {parts(d) : d \in @}] : s \in services}
  <1>1. Expand(sp).services = S
    <2>1. \E V : Expand(sp) = [sp EXCEPT !.services = S, !.volumes = V]
      BY DEF Expand, Made
    <2>. HIDE DEF S
    <2>. QED
      BY <2>1 DEF IsSpec, IsRecord
  <1>2. \A s \in services : IsService(s)
    BY MadeIs DEF IsSpec
  <1>3. OnTheirs(services, old)
    BY MadeStays
  <1>. HIDE DEF services
  <1>4. ASSUME NEW x \in S PROVE \E s \in services : Alike(x, s)
    <2>. HIDE DEF parts
    <2>1. PICK s \in services : x = [s EXCEPT !.deps = UNION {parts(d) : d \in s.deps}]
      OBVIOUS
    <2>2. Alike(x, s)
      BY <1>2, <2>1, DepsMayBe DEF Alike
    <2>. QED
      BY <2>2
  <1>. HIDE DEF S
  <1>. QED
    BY <1>1, <1>3, <1>4, AlikeStays

LEMMA StrippedStays ==
  ASSUME NEW sp, IsSpec(sp), NEW old, OnTheirs(sp.services, old)
  PROVE  OnTheirs(StrippedSpec(sp).services, old)
  <1>. DEFINE S == {Stripped(s) : s \in sp.services}
  <1>1. StrippedSpec(sp).services = S
    <2>1. StrippedSpec(sp) = [sp EXCEPT !.services = S]
      BY DEF StrippedSpec
    <2>. HIDE DEF S
    <2>. QED
      BY <2>1 DEF IsSpec, IsRecord
  <1>2. \A s \in sp.services : Alike(Stripped(s), s)
    BY DEF IsSpec, IsService, IsRecord, Stripped, Alike
  <1>3. \A x \in S : \E s \in sp.services : Alike(x, s)
    BY <1>2
  <1>. HIDE DEF S
  <1>. QED
    BY <1>1, <1>3, AlikeStays

LEMMA NamespaceStays ==
  ASSUME NEW sp, IsSpec(sp), NEW old, IsSpec(old), OwnVolumes(old), Inherits(sp, old)
  PROVE  Inherits(Namespace(sp), old)
  <1>1. /\ Namespace(sp).project = sp.project
        /\ Namespace(sp).services = {Placed(sp.project, s) : s \in sp.services}
    BY NamespaceIs
  <1>2. sp.project = old.project /\ OnTheirs(sp.services, old)
    BY InheritsIs
  <1>3. ASSUME NEW s \in sp.services, Placed(sp.project, s).kind = "database"
        PROVE  \E t \in Databases(old) : OnVolumeOf(Placed(sp.project, s), t)
    <2>1. IsService(s) /\ IsProject(sp.project)
      BY DEF IsSpec
    <2>2. s.kind = "database"
      BY <1>3, <2>1, PlacedIs
    <2>3. PICK t \in Databases(old) : OnVolumeOf(s, t)
      BY <1>2, <2>2 DEF OnTheirs
    <2>4. IsService(t) /\ SeqX!IsPrefix(sp.project, BaseVolume(t).in)
      BY <1>2 DEF IsSpec, OwnVolumes, Databases
    <2>. QED
      BY <2>1, <2>2, <2>3, <2>4, PlacedStays
  <1>4. OnTheirs(Namespace(sp).services, old)
    BY <1>1, <1>3 DEF OnTheirs
  <1>. QED
    BY <1>1, <1>2, <1>4, InheritsIs

LEMMA ShownStays ==
  ASSUME NEW sp, IsSpec(sp), NEW old, IsSpec(old), OwnVolumes(old), Inherits(sp, old)
  PROVE  Inherits(Shown(sp), old)
  <1>1. /\ IsSpec(Normalize(sp)) /\ Normalize(sp).project = sp.project
        /\ Normalize(sp).services = Expand(sp).services
    BY NormalizeIs
  <1>2. Inherits(Normalize(sp), old)
    BY <1>1, ExpandStays, InheritsIs
  <1>. QED
    BY <1>1, <1>2, NamespaceStays DEF Shown

(* The members of a group and its name belong together.                    *)
LEMMA GroupNames ==
  ASSUME NEW sp, IsSpec(sp), NEW sel, NEW g \in GroupsOf(sp.services, sel), NEW s \in g.members
  PROVE  /\ s.kind = "database" /\ IsName(s.name)
         /\ \/ Numbered(s.name) /\ g.base = BaseOf(s.name)
            \/ ~Numbered(s.name) /\ g.base = s.name
  <1>. DEFINE databases == {t \in sp.services : t.kind = "database"}
              numbered == {t \in databases : Numbered(t.name)}
  <1>0. \A t \in sp.services : IsName(t.name)
    BY DEF IsSpec, IsService
  <1>1. CASE \E t \in numbered : g = [base |-> BaseOf(t.name), members |-> {u \in numbered : BaseOf(u.name) = BaseOf(t.name)}]
    BY <1>0, <1>1
  <1>2. CASE \E t \in databases \ numbered : g = [base |-> t.name, members |-> {t}]
    BY <1>0, <1>2
  <1>3. \/ \E t \in numbered : g = [base |-> BaseOf(t.name), members |-> {u \in numbered : BaseOf(u.name) = BaseOf(t.name)}]
        \/ \E t \in databases \ numbered : g = [base |-> t.name, members |-> {t}]
    BY DEF GroupsOf
  <1>. QED
    BY <1>1, <1>2, <1>3

LEMMA LoneName ==
  ASSUME NEW n, IsName(n), ~Numbered(n)
  PROVE  Tail(n) = <<>>
  <1>. DEFINE S == {n[j] : j \in 1..Len(n)}
  <1>1. n \in Seq(S) /\ n # <<>>
    BY IsSeqIs DEF IsName
  <1>. HIDE DEF S
  <1>2. Len(n) = 1
    <2>1. Len(n) \in Nat /\ Len(n) # 0 /\ ~(Len(n) > 1)
      BY <1>1, EmptySeq DEF Numbered
    <2>. QED
      BY <2>1
  <1>3. Tail(n) \in Seq(S) /\ Len(Tail(n)) = Len(n) - 1
    BY <1>1
  <1>. DEFINE t == Tail(n)
  <1>. HIDE DEF t
  <1>4. t \in Seq(S) /\ Len(t) = 0
    BY <1>2, <1>3 DEF t
  <1>5. t = <<>>
    BY <1>4, EmptySeq
  <1>. QED
    BY <1>5 DEF t

(* The pattern of a group that is resized, under the group's name.         *)
LEMMA PatternStays ==
  ASSUME NEW s, IsService(s), s.kind = "database", NEW t, IsService(t), OnVolumeOf(s, t),
         NEW base, \/ Numbered(s.name) /\ base = BaseOf(s.name)
                   \/ ~Numbered(s.name) /\ base = s.name,
         NEW n, NEW D
  PROVE  LET from == [BaseVolume([s EXCEPT !.name = base])
                        EXCEPT !.nrs = IF @ = <<>> THEN @ ELSE SeqX!Front(@)]
         IN OnVolumeOf([s EXCEPT !.name = base, !.replicas = n, !.deps = D,
                                 !.mounts = {[from |-> from, at |-> DataTarget(s)]}], t)
  <1>. DEFINE f == [s EXCEPT !.name = base]
              nrs == Tail(s.name)
              stem == IF nrs = <<>> THEN nrs ELSE SeqX!Front(nrs)
              from == [BaseVolume(f) EXCEPT !.nrs = IF @ = <<>> THEN @ ELSE SeqX!Front(@)]
              own == [from |-> from, at |-> DataTarget(s)]
              x == [s EXCEPT !.name = base, !.replicas = n, !.deps = D, !.mounts = {own}]
              v == BaseVolume(t)
  <1>0. IsName(s.name)
    BY DEF IsService
  <1>1. base[1] = s.name[1] /\ stem = Tail(base)
    <2>1. CASE Numbered(s.name)
      BY <1>0, <2>1, NameFront
    <2>2. CASE ~Numbered(s.name)
      BY <1>0, <2>2, LoneName
    <2>. QED
      BY <2>1, <2>2
  <1>2. BaseVolume(f) = BaseVolume(s)
    <2>1. f.image = s.image /\ f.kind = s.kind /\ f.mounts = s.mounts
      BY DEF IsService, IsRecord
    <2>. HIDE DEF f
    <2>2. DataTarget(f) = DataTarget(s)
      BY <2>1 DEF DataTarget, InCatalog
    <2>3. DataMounts(f) = DataMounts(s)
      BY <2>1, <2>2 DEF DataMounts
    <2>4. DataMounts(s) # {}
      BY OnIs
    <2>. QED
      BY <2>3, <2>4 DEF BaseVolume
  <1>3. IsResource(v) /\ BaseVolume(s) = [v EXCEPT !.nrs = nrs] /\ DataTarget(s) = DataTarget(t)
    BY OnIs, VolumeIs DEF OnVolumeOf
  <1>. HIDE DEF v, nrs, f
  <1>4. from = [v EXCEPT !.nrs = stem]
    BY <1>2, <1>3 DEF IsResource, IsRecord
  <1>. HIDE DEF from, stem
  <1>5. own.at = DataTarget(s) /\ own = [from |-> [v EXCEPT !.nrs = Tail(base)], at |-> DataTarget(t)]
    BY <1>1, <1>3, <1>4
  <1>6. x.name = base /\ x.image = s.image /\ x.kind = s.kind /\ x.mounts = {own}
    BY DEF IsService, IsRecord
  <1>. HIDE DEF own, x
  <1>7. DataTarget(x) = DataTarget(s)
    BY <1>6 DEF DataTarget, InCatalog
  <1>8. DataMounts(x) = {own}
    BY <1>5, <1>6, <1>7 DEF DataMounts
  <1>9. s.name[1] = t.name[1]
    BY DEF OnVolumeOf
  <1>10. OnVolumeOf(x, t)
    BY <1>1, <1>3, <1>5, <1>6, <1>7, <1>8, <1>9 DEF OnVolumeOf, v
  <1>. QED
    BY <1>10 DEF x, own, from, f

LEMMA ResizeStays ==
  ASSUME NEW sp, IsSpec(sp), NEW old, IsSpec(old), Inherits(sp, old),
         NEW sel, NEW g \in GroupsOf(sp.services, sel), NEW n \in Nat
  PROVE  Inherits(Resize(sp, g, n), old)
  <1>. DEFINE names == NamesOf(g.members)
              first == CHOOSE s \in g.members :
                         \A t \in g.members : Numbered(s.name) => Ordinal(s.name) <= Ordinal(t.name)
              others == first.deps \ names
              from == [BaseVolume([first EXCEPT !.name = g.base])
                         EXCEPT !.nrs = IF @ = <<>> THEN @ ELSE SeqX!Front(@)]
              logical == [first EXCEPT !.name = g.base, !.replicas = n,
                                       !.deps = IF others = {} THEN @ ELSE others,
                                       !.mounts = {[from |-> from, at |-> DataTarget(first)]}]
              single == [first EXCEPT !.replicas = 0, !.deps = others]
              pattern == IF n = 1 THEN single ELSE logical
              rest == DependentsOf(sp.services \ g.members, names, pattern.name)
              S == rest \cup {pattern}
              V == sp.volumes \ UNION {Sources(s) : s \in g.members}
              resized == [sp EXCEPT !.services = S, !.volumes = V]
              declared(x) == [x EXCEPT !.volumes = @ \cup UNION {Declared(s) : s \in x.services}]
  <1>0. /\ g.members \subseteq sp.services /\ g.members # {} /\ IsName(g.base)
        /\ \A s \in sp.services : IsService(s)
    BY GroupIs DEF IsSpec
  <1>1. Resize(sp, g, n) = IF n = 1 THEN [resized EXCEPT !.volumes = @ \cup Declared(single)]
                           ELSE declared(Expand(resized))
    BY DEF Resize
  <1>2. first \in g.members
    <2>1. \A s \in g.members : IsName(s.name)
      BY <1>0 DEF IsService
    <2>. QED
      BY <1>0, <2>1, FirstIs
  <1>. HIDE DEF first
  <1>3. /\ IsService(first) /\ first.kind = "database"
        /\ \/ Numbered(first.name) /\ g.base = BaseOf(first.name)
           \/ ~Numbered(first.name) /\ g.base = first.name
    BY <1>0, <1>2, GroupNames
  <1>4. PICK t \in Databases(old) : OnVolumeOf(first, t) /\ IsService(t)
    BY <1>0, <1>2, <1>3, InheritsIs DEF OnTheirs, IsSpec, Databases
  <1>5. OnVolumeOf(logical, t)
    <2>. DEFINE D == IF others = {} THEN first.deps ELSE others
    <2>1. logical = [first EXCEPT !.name = g.base, !.replicas = n, !.deps = D,
                                  !.mounts = {[from |-> from, at |-> DataTarget(first)]}]
      OBVIOUS
    <2>. HIDE DEF D, logical
    <2>. QED
      BY <1>3, <1>4, <2>1, PatternStays
  <1>6. OnVolumeOf(single, t)
    <2>1. Alike(single, first)
      <3>. HIDE DEF others
      <3>. QED
        BY <1>3 DEF IsService, IsRecord, Alike
    <2>. HIDE DEF single
    <2>. QED
      BY <1>4, <2>1, SameVolume DEF Alike
  <1>7. IsService(pattern)
    <2>. HIDE DEF others, from
    <2>1. IsResource(from)
      <3>. DEFINE f == [first EXCEPT !.name = g.base]
      <3>1. IsService(f)
        BY <1>0, <1>3 DEF IsService, IsRecord
      <3>. HIDE DEF f
      <3>2. IsResource(BaseVolume(f))
        BY <3>1, VolumeIs
      <3>. DEFINE v == BaseVolume(f)
      <3>3. \A y : IsResource([v EXCEPT !.nrs = y])
        BY <3>2 DEF IsResource, IsRecord
      <3>4. from = [v EXCEPT !.nrs = IF @ = <<>> THEN @ ELSE SeqX!Front(@)]
        BY DEF from, f
      <3>. HIDE DEF v
      <3>. QED
        BY <3>3, <3>4
    <2>. DEFINE D == IF others = {} THEN first.deps ELSE others
                M == {[from |-> from, at |-> DataTarget(first)]}
    <2>2. \A m \in M : IsMount(m)
      BY <2>1 DEF IsMount, IsRecord
    <2>3. logical = [first EXCEPT !.name = g.base, !.replicas = n, !.deps = D, !.mounts = M]
      OBVIOUS
    <2>. HIDE DEF D, M, logical
    <2>4. IsService(logical)
      BY <1>0, <1>3, <2>2, <2>3 DEF IsService, IsRecord
    <2>5. IsService(single)
      BY <1>3 DEF IsService, IsRecord
    <2>. HIDE DEF single
    <2>. QED
      BY <2>4, <2>5
  <1>. HIDE DEF logical, single
  <1>8. OnVolumeOf(pattern, t)
    BY <1>5, <1>6
  <1>. HIDE DEF pattern
  <1>9. OnTheirs(S, old)
    <2>1. OnTheirs(sp.services \ g.members, old)
      BY InheritsIs DEF OnTheirs
    <2>2. ASSUME NEW x \in rest
          PROVE  \E s \in sp.services \ g.members : Alike(x, s)
      <3>1. PICK s \in sp.services \ g.members :
              x = [s EXCEPT !.deps = {IF d \in names THEN pattern.name ELSE d : d \in s.deps}]
        BY DEF DependentsOf
      <3>2. Alike(x, s)
        BY <1>0, <3>1, DepsMayBe DEF Alike
      <3>. QED
        BY <3>2
    <2>. HIDE DEF rest
    <2>3. OnTheirs(rest, old)
      BY <2>1, <2>2, AlikeStays
    <2>. QED
      BY <1>4, <1>8, <2>3 DEF OnTheirs
  <1>10. IsSpec(resized) /\ resized.project = sp.project /\ resized.services = S
    <2>1. \A s \in rest : IsService(s)
      BY <1>0, DepsMayBe DEF DependentsOf
    <2>. HIDE DEF rest
    <2>2. (\A s \in S : IsService(s)) /\ (\A r \in V : IsResource(r))
      BY <1>7, <2>1 DEF IsSpec
    <2>. HIDE DEF S, V
    <2>. QED
      BY <2>2, BothMayBe DEF IsSpec, IsRecord
  <1>. HIDE DEF resized, S
  <1>11. ASSUME NEW x, IsSpec(x), x.project = old.project, OnTheirs(x.services, old), NEW W
         PROVE  Inherits([x EXCEPT !.volumes = W], old)
    BY <1>11, InheritsIs DEF IsSpec, IsRecord
  <1>12. CASE n = 1
    BY <1>1, <1>9, <1>10, <1>11, <1>12, InheritsIs
  <1>13. CASE n # 1
    <2>1. /\ IsSpec(Expand(resized)) /\ Expand(resized).project = resized.project
          /\ OnTheirs(Expand(resized).services, old)
      BY <1>9, <1>10, ExpandIs, ExpandStays
    <2>2. Resize(sp, g, n) = declared(Expand(resized))
      BY <1>1, <1>13
    <2>. DEFINE e == Expand(resized)
    <2>. HIDE DEF e
    <2>3. IsSpec(e) /\ e.project = old.project /\ OnTheirs(e.services, old)
      BY <1>10, <2>1, InheritsIs DEF e
    <2>4. Inherits(declared(e), old)
      BY <1>11, <2>3
    <2>. QED
      BY <2>2, <2>4 DEF e
  <1>. QED
    BY <1>12, <1>13

(* A number of replicas, for a group or for one service.                   *)
LEMMA AppliedStays ==
  ASSUME NEW sp, IsSpec(sp), NEW old, IsSpec(old), Inherits(sp, old),
         NEW p, IsPatch(p), p.op = "set-service-replicas", NEW matched, matched \subseteq sp.services
  PROVE  Inherits(Applied(sp, p, matched), old)
  <1>. DEFINE group == FittingGroups(sp.services, p.target, matched, FALSE)
              s == CHOOSE t \in matched : TRUE
              S == (sp.services \ {s}) \cup {Edited(s, p)}
              edited == [sp EXCEPT !.services = S]
  <1>0. HasTarget(p) /\ p.arg \in Nat
    BY DEF HasTarget, SpecOps, IsPatch
  <1>1. CASE group # {}
    <2>. DEFINE g == CHOOSE h \in group : TRUE
    <2>1. g \in GroupsOf(sp.services, p.target)
      BY <1>1 DEF FittingGroups
    <2>2. Applied(sp, p, matched) = Resize(sp, g, p.arg)
      BY <1>0, <1>1 DEF Applied
    <2>. HIDE DEF g
    <2>. QED
      BY <1>0, <2>1, <2>2, ResizeStays
  <1>2. CASE group = {}
    <2>. DEFINE one == IF p.op = "remove-service" THEN Remove(sp, s.name)
            ELSE IF p.op = "rename-service" THEN Rename(sp, s.name, p.arg)
            ELSE IF p.op = "set-service-replicas" /\ s.kind = "database" THEN Expand(edited)
            ELSE IF p.op = "add-service-volume"
              THEN [edited EXCEPT !.volumes = @ \cup ({p.arg.from} \ {HostPath})]
            ELSE edited
    <2>01. Applied(sp, p, matched) =
             IF ~HasTarget(p) THEN EditSpec(sp, p)
             ELSE IF p.op = "set-service-replicas" /\ group # {}
               THEN Resize(sp, CHOOSE g \in group : TRUE, p.arg)
             ELSE IF p.op = "set-service-image" THEN SetImage(sp, matched, Normalized(p.arg))
             ELSE IF Cardinality(matched) # 1 THEN sp ELSE one
      BY DEF Applied
    <2>02. one = IF s.kind = "database" THEN Expand(edited) ELSE edited
      <3>. HIDE DEF s, edited
      <3>. QED
        OBVIOUS
    <2>1. Applied(sp, p, matched) = IF Cardinality(matched) # 1 THEN sp
                                    ELSE IF s.kind = "database" THEN Expand(edited) ELSE edited
      <3>. HIDE DEF one, group, s, edited
      <3>. QED
        BY <1>0, <1>2, <2>01, <2>02
    <2>2. CASE Cardinality(matched) # 1
      BY <2>1, <2>2
    <2>3. CASE Cardinality(matched) = 1
      <3>1. s \in sp.services /\ IsService(s)
        <4>1. matched # {}
          BY <2>3, FS_EmptySet
        <4>. QED
          BY <4>1 DEF IsSpec
      <3>. HIDE DEF s
      <3>2. Edited(s, p) = [s EXCEPT !.replicas = p.arg]
        BY DEF Edited
      <3>3. IsService(Edited(s, p)) /\ Alike(Edited(s, p), s)
        BY <1>0, <3>1, <3>2 DEF IsService, IsRecord, Alike
      <3>4. OnTheirs(sp.services, old) /\ \A x \in S : \E t \in sp.services : Alike(x, t)
        BY <3>1, <3>3, InheritsIs DEF Alike
      <3>5. \A t \in S : IsService(t)
        BY <3>3 DEF IsSpec
      <3>. HIDE DEF S
      <3>6. OnTheirs(S, old)
        BY <3>4, AlikeStays
      <3>7. IsSpec(edited) /\ edited.services = S /\ edited.project = old.project
        BY <3>5, ServicesMayBe, InheritsIs DEF IsSpec, IsRecord
      <3>. HIDE DEF edited
      <3>8. Inherits(edited, old) /\ Inherits(Expand(edited), old)
        BY <3>6, <3>7, ExpandIs, ExpandStays, InheritsIs
      <3>. QED
        BY <2>1, <2>3, <3>8
    <2>. QED
      BY <2>2, <2>3
  <1>. QED
    BY <1>1, <1>2

LEMMA PatchedByStays ==
  ASSUME NEW old, IsSpec(old), NEW acc, IsSpec(acc.spec), Inherits(acc.spec, old),
         NEW p, IsPatch(p), p.op = "set-service-replicas", NEW may, NEW found, NEW about
  PROVE  /\ IsSpec(PatchedBy(acc, p, may, found, about).spec)
         /\ Inherits(PatchedBy(acc, p, may, found, about).spec, old)
  <1>. DEFINE q == Aliased(p, acc.alias)
              res == Resolve(q, acc.spec.services)
              blocked == Objection(q, res, acc.spec.services, may, found, about)
              made == Applied(acc.spec, q, res.matched)
              new == IF blocked # "" THEN acc.spec ELSE StrippedSpec(made)
  <1>1. PatchedBy(acc, p, may, found, about).spec = new
    BY DEF PatchedBy, Found, Checked, Tried, Noted
  <1>2. IsPatch(q) /\ q.op = "set-service-replicas"
    <2>1. \E x : q = p \/ q = [p EXCEPT !.target = x]
      BY DEF Aliased
    <2>2. q.op = p.op
      <3>. HIDE DEF q
      <3>. QED
        BY <2>1 DEF IsPatch, IsRecord
    <2>. QED
      BY <2>2, AliasedIs
  <1>. HIDE DEF q
  <1>3. res.matched \subseteq acc.spec.services
    BY MatchedIs
  <1>. HIDE DEF res
  <1>4. IsSpec(made) /\ Inherits(made, old)
    BY <1>2, <1>3, AppliedIs, AppliedStays
  <1>. HIDE DEF made
  <1>5. IsSpec(StrippedSpec(made)) /\ Inherits(StrippedSpec(made), old)
    BY <1>4, StrippedIs, StrippedStays, InheritsIs
  <1>. QED
    BY <1>1, <1>5

-----------------------------------------------------------------------------
(* Plans that only change numbers of replicas.                             *)
OnlyReplicas(ps) == \A i \in DOMAIN ps : ps[i].op = "set-service-replicas"

LEMMA PatchedStays ==
  ASSUME NEW old, IsSpec(old), NEW sp, IsSpec(sp), Inherits(sp, old),
         NEW ps, IsSeq(ps), \A i \in DOMAIN ps : IsPatch(ps[i]), OnlyReplicas(ps),
         NEW may, NEW found, NEW about
  PROVE  /\ IsSpec(Patched(sp, ps, may, found, about).spec)
         /\ Inherits(Patched(sp, ps, may, found, about).spec, old)
  <1>0. PICK n \in Nat : n = Len(ps) /\ \A i \in 1..n : i \in DOMAIN ps
    BY IsSeqIs DEF IsSeq
  <1>1. PICK after : PatchCourse(sp, ps, may, found, about, after)
    BY PatchAfterPatch
  <1>. DEFINE Q == {i \in 0..n : IsSpec(after[i].spec) /\ Inherits(after[i].spec, old)}
  <1>2. 0 \in Q
    <2>1. IsSpec(StrippedSpec(sp)) /\ Inherits(StrippedSpec(sp), old)
      BY StrippedIs, StrippedStays, InheritsIs
    <2>. QED
      BY <1>1, <2>1 DEF PatchCourse
  <1>3. ASSUME NEW i \in 1..n, i - 1 \in Q PROVE i \in Q
    <2>1. /\ after[i] = PatchedBy(after[i - 1], ps[i], may, found, about)
          /\ IsPatch(ps[i]) /\ ps[i].op = "set-service-replicas"
      BY <1>0, <1>1 DEF PatchCourse, OnlyReplicas
    <2>2. IsSpec(after[i - 1].spec) /\ Inherits(after[i - 1].spec, old)
      BY <1>3
    <2>3. IsSpec(after[i].spec) /\ Inherits(after[i].spec, old)
      BY <2>1, <2>2, PatchedByStays
    <2>. QED
      BY <2>3
  <1>. HIDE DEF Q
  <1>4. n \in Q
    BY <1>2, <1>3, AtTheEnd
  <1>. QED
    BY <1>0, <1>1, <1>4 DEF Q, PatchCourse

LEMMA ReviseStays ==
  ASSUME NEW old, IsSpec(old), OwnVolumes(old), NEW sp, IsSpec(sp), Inherits(sp, old),
         NEW words, words.replicas \in Int, NEW offered, IsPlan(offered),
         OnlyReplicas(PlanFor(sp, words, NoReport.findings, offered).patches), NEW at
  PROVE  Inherits(Revise(sp, words, NoReport, offered, at).spec, old)
  <1>. DEFINE plan == PlanFor(sp, words, NoReport.findings, offered)
              done == Applying(sp, words, NoReport, plan)
  <1>1. IsPlan(plan) /\ OnlyReplicas(plan.patches)
    BY PlanForIs
  <1>2. Revise(sp, words, NoReport, offered, at).spec \in {Namespace(sp), Namespace(done.spec)}
    BY RevisedFrom
  <1>. HIDE DEF plan
  <1>3. IsSpec(done.spec) /\ Inherits(done.spec, old)
    BY <1>1, PatchedStays DEF IsPlan, Applying
  <1>. HIDE DEF done
  <1>. QED
    BY <1>2, <1>3, NamespaceStays

LEMMA ConsultStays ==
  ASSUME mode = "adjust", kinds' \subseteq Resizes,
         IsSpec(origin), OwnVolumes(origin), NEW sp, IsSpec(sp), Inherits(sp, origin),
         NEW w, w.replicas \in Int, Consult(sp, w, NoReport, 0)
  PROVE  Inherits(result'.spec, origin) /\ kinds \subseteq kinds'
  <1>1. PICK k \in DOMAIN Plans[mode] :
          /\ result' = Revise(sp, w, NoReport, Plans[mode][k], 0)
          /\ kinds' = kinds \cup Operations(sp, w, NoReport, Plans[mode][k])
    BY DEF Consult
  <1>2. IsPlan(Plans[mode][k])
    BY RevisionAssumption DEF Inputs, Modes
  <1>. DEFINE plan == PlanFor(sp, w, NoReport.findings, Plans[mode][k])
  <1>3. ASSUME NEW i \in DOMAIN plan.patches PROVE plan.patches[i].op = "set-service-replicas"
    <2>1. plan.patches[i].op \in Resizes
      BY <1>1 DEF Operations, OperationsOf
    <2>2. IsPatch(plan.patches[i])
      BY <1>2, PlanForIs DEF IsPlan
    <2>. HIDE DEF plan
    <2>. QED
      BY <2>1, <2>2 DEF Resizes, IsPatch, SpecOps, ServiceOps
  <1>4. OnlyReplicas(plan.patches)
    BY <1>3 DEF OnlyReplicas
  <1>. QED
    BY <1>1, <1>2, <1>4, ReviseStays

LEMMA VolumesStart ==
  ASSUME Init, OnOwnVolumes
  PROVE  VolumesInv
  <1>. SUFFICES ASSUME mode = "adjust"
                PROVE  VolumesInv
    BY DEF VolumesInv, OnlyResized
  <1>1. PICK i \in DOMAIN Specs[mode] : origin = Specs[mode][i]
    BY DEF Init
  <1>2. OwnVolumes(origin)
    BY <1>1 DEF OnOwnVolumes
  <1>3. Inherits(origin, origin)
    BY <1>2 DEF Inherits, OwnVolumes
  <1>4. spec = origin /\ result.spec = origin /\ pc = "adjust"
    BY DEF Init, NoResult
  <1>. QED
    BY <1>2, <1>3, <1>4 DEF VolumesInv

(* A revision that the policy or the next preview is about to see.         *)
LEMMA RevisionStays ==
  ASSUME ReviewInv, VolumesInv, pc \in {"adjust", "approve", "clarify"},
         NEW sp, sp = IF pc = "adjust" THEN origin ELSE spec,
         NEW w, w.replicas \in Int, Consult(sp, w, NoReport, 0), UNCHANGED <<mode, origin>>, OnlyResized'
  PROVE  OnlyResized /\ Inherits(result'.spec, origin) /\ Inherits(spec, origin) /\ OwnVolumes(origin)
  <1>1. mode = "adjust" /\ kinds' \subseteq Resizes /\ kinds \subseteq kinds'
    BY DEF OnlyResized, Consult
  <1>2. OnlyResized /\ OwnVolumes(origin) /\ Inherits(spec, origin)
    BY <1>1 DEF OnlyResized, VolumesInv
  <1>3. IsSpec(origin) /\ IsSpec(sp) /\ Inherits(sp, origin)
    <2>1. Inherits(origin, origin)
      BY <1>2 DEF Inherits, OwnVolumes
    <2>. QED
      BY <1>1, <1>2, <2>1 DEF ReviewInv
  <1>. QED
    BY <1>1, <1>2, <1>3, ConsultStays

LEMMA VolumesStep ==
  ASSUME ReviewInv, VolumesInv, [Next]_vars
  PROVE  VolumesInv'
  <1>. SUFFICES ASSUME OnlyResized' PROVE VolumesInv'
    BY DEF VolumesInv
  <1>0. mode' = mode /\ origin' = origin
    BY DEF Next, vars, Adjust, Check, Prepare, Approve, Decline, Change, Clarify, GiveUp, Scan,
           Deployed, Failed, Propose, Yes, No, Other, Resolved, Ask, Finished
  <1>1. mode = "adjust"
    BY <1>0 DEF OnlyResized
  <1>2. ASSUME UNCHANGED <<spec, result>>, kinds \subseteq kinds', OnlyResized =>
                 (pc' = "approve" => pc = "approve" /\ shown' = shown), pc # "done" \/ pc' = "done"
        PROVE  VolumesInv'
    <2>1. OnlyResized
      BY <1>0, <1>2 DEF OnlyResized
    <2>. QED
      BY <1>0, <1>2, <2>1 DEF VolumesInv
  <1>3. ASSUME pc' = "done", kinds \subseteq kinds' PROVE VolumesInv'
    <2>1. OnlyResized
      BY <1>0, <1>3 DEF OnlyResized
    <2>. QED
      BY <1>0, <1>3, <2>1 DEF VolumesInv
  <1>4. ASSUME Adjust PROVE VolumesInv'
    <2>1. PICK r \in DOMAIN Requests : Consult(origin, Requests[r], NoReport, 0)
      BY <1>4 DEF Adjust
    <2>2. Requests[r].replicas \in Int
      BY RevisionAssumption DEF Inputs
    <2>3. pc = "adjust" /\ UNCHANGED spec /\ pc' \in {"policy", "done"}
      BY <1>4 DEF Adjust, End, Go
    <2>4. OnlyResized /\ Inherits(result'.spec, origin) /\ Inherits(spec, origin) /\ OwnVolumes(origin)
      BY <1>0, <2>1, <2>2, <2>3, RevisionStays
    <2>. QED
      BY <1>0, <2>3, <2>4 DEF VolumesInv
  <1>5. ASSUME Check PROVE VolumesInv'
    <2>1. /\ pc = "policy" /\ UNCHANGED <<result, kinds>> /\ pc' \in {"prepare", "done"}
          /\ spec' \in {spec, WithProject(result.spec, origin.project)}
      BY <1>5 DEF Check, NoConsult, End, Go
    <2>2. /\ OnlyResized /\ OwnVolumes(origin) /\ Inherits(spec, origin)
          /\ Inherits(result.spec, origin) /\ IsSpec(result.spec)
      BY <1>0, <1>1, <2>1 DEF OnlyResized, VolumesInv, ReviewInv
    <2>3. Inherits(WithProject(result.spec, origin.project), origin)
      BY <2>2, InheritsIs DEF WithProject, IsSpec, IsRecord
    <2>. QED
      BY <1>0, <2>1, <2>2, <2>3 DEF VolumesInv
  <1>6. ASSUME Prepare PROVE VolumesInv'
    <2>1. pc = "prepare" /\ UNCHANGED <<spec, result, kinds>> /\ shown' = Shown(spec)
      BY <1>6 DEF Prepare, NoConsult
    <2>2. /\ OnlyResized /\ OwnVolumes(origin) /\ Inherits(spec, origin)
          /\ Inherits(result.spec, origin) /\ IsSpec(spec) /\ IsSpec(origin)
      BY <1>0, <1>1, <2>1 DEF OnlyResized, VolumesInv, ReviewInv
    <2>3. Inherits(shown', origin)
      BY <2>1, <2>2, ShownStays
    <2>. QED
      BY <1>0, <2>1, <2>2, <2>3 DEF VolumesInv
  <1>7. ASSUME NEW w, w.replicas \in Int, Consult(spec, w, NoReport, 0), pc \in {"approve", "clarify"},
               NEW last, AfterPreview(last)
        PROVE  VolumesInv'
    <2>1. OnlyResized /\ Inherits(result'.spec, origin) /\ Inherits(spec, origin) /\ OwnVolumes(origin)
      BY <1>0, <1>7, RevisionStays
    <2>2. spec' \in {spec, result'.spec} /\ pc' \in {"done", "clarify", "prepare"}
      BY <1>7 DEF AfterPreview, End, Go
    <2>. QED
      BY <1>0, <2>1, <2>2 DEF VolumesInv
  <1>8. ASSUME Change PROVE VolumesInv'
    <2>1. PICK r \in DOMAIN Requests : Consult(spec, Requests[r], NoReport, 0)
      BY <1>8 DEF Change
    <2>2. Requests[r].replicas \in Int
      BY RevisionAssumption DEF Inputs
    <2>. QED
      BY <1>7, <1>8, <2>1, <2>2 DEF Change
  <1>9. ASSUME Clarify PROVE VolumesInv'
    <2>1. PICK w \in Answers : Consult(spec, w, NoReport, 0)
      BY <1>9 DEF Clarify
    <2>. QED
      BY <1>7, <1>9, <2>1, AnswersAreWords DEF Clarify
  <1>10. ASSUME Approve \/ Decline \/ GiveUp PROVE VolumesInv'
    BY <1>3, <1>10 DEF Approve, Decline, GiveUp, End, NoConsult
  <1>11. ASSUME Scan \/ Deployed \/ Failed \/ Propose \/ Yes \/ No \/ Other \/ Resolved \/ Ask
         PROVE  FALSE
    <2>1. pc \in Deploying
      BY <1>11 DEF Scan, Deployed, Failed, Propose, Yes, No, Other, Resolved, Ask, Deploying
    <2>. QED
      BY <1>1, <2>1 DEF ReviewInv
  <1>12. ASSUME UNCHANGED vars PROVE VolumesInv'
    BY <1>2, <1>12 DEF vars
  <1>. QED
    BY <1>4, <1>5, <1>6, <1>8, <1>9, <1>10, <1>11, <1>12 DEF Next, Finished

(* An adjustment that only resizes shows every database on the volume that *)
(* held its data, if each was on its own volume before.                    *)
THEOREM DataKept == ASSUME OnOwnVolumes PROVE Spec => []DataStays
  <1>1. Init => ReviewInv /\ VolumesInv
    BY ReviewStarts, VolumesStart
  <1>2. (ReviewInv /\ VolumesInv) /\ [Next]_vars => (ReviewInv /\ VolumesInv)'
    BY ReviewStep, VolumesStep
  <1>3. VolumesInv => DataStays
    <2>. SUFFICES ASSUME VolumesInv, Shows(Resizes),
                         NEW s \in Databases(shown), NEW t \in Databases(origin), s.name = t.name
                  PROVE  DataMounts(s) = DataMounts(t)
      BY DEF DataStays
    <2>1. Inherits(shown, origin) /\ OwnVolumes(origin)
      BY DEF Shows, VolumesInv, OnlyResized
    <2>2. PICK u \in Databases(origin) : OnVolumeOf(s, u)
      BY <2>1 DEF Inherits
    <2>3. OnVolumeOf(t, u)
      BY <2>1, <2>2 DEF OwnVolumes, OnVolumeOf
    <2>. QED
      BY <2>2, <2>3 DEF OnVolumeOf
  <1>. QED
    BY <1>1, <1>2, <1>3, PTL DEF Spec

-----------------------------------------------------------------------------
(* What the user has to allow.  A patch keeps images if each image was     *)
(* there before or is in the catalog, or repairs have read it; and keeps a *)
(* name that has no number if whoever has it is no database, before as     *)
(* after.                                                                  *)
KeepsImages(T, S, ops) ==
  \A t \in T : \/ InCatalog(t.image) \/ \E s \in S : t.image = s.image
               \/ "read-image" \in ops /\ t.image \in ReadImages
Holds(S, n) ==
  /\ \E s \in S : s.kind # "database" /\ s.name = n
  /\ \A s \in S : s.kind = "database" => s.name # n
KeepsNames(T, S) == \A n : ~Numbered(n) /\ Holds(S, n) => Holds(T, n)

ImagesAsked(ops, may) == "add-service" \notin ops /\ "set-service-image" \notin ops \cap may
NamesAsked(ops, may) ==
  {"rename-service", "set-service-image"} \cap ops = {} /\ "remove-service" \notin ops \cap may
Loyal(T, S, ops, may) ==
  /\ ImagesAsked(ops, may) => KeepsImages(T, S, ops)
  /\ NamesAsked(ops, may) => KeepsNames(T, S)

LEMMA LoyalIs == ASSUME NEW S, NEW ops, NEW may PROVE Loyal(S, S, ops, may)
  BY DEF Loyal, KeepsImages, KeepsNames

LEMMA LoyalAfterLoyal ==
  ASSUME NEW S, NEW T, NEW U, NEW ops, NEW more, NEW may, NEW too,
         Loyal(T, S, ops, may), Loyal(U, T, more, too)
  PROVE  Loyal(U, S, ops \cup more, may \cup too)
  <1>1. KeepsImages(T, S, ops) /\ KeepsImages(U, T, more) => KeepsImages(U, S, ops \cup more)
    BY DEF KeepsImages
  <1>2. KeepsNames(T, S) /\ KeepsNames(U, T) => KeepsNames(U, S)
    BY DEF KeepsNames
  <1>3. ImagesAsked(ops \cup more, may \cup too) => ImagesAsked(ops, may) /\ ImagesAsked(more, too)
    BY DEF ImagesAsked
  <1>4. NamesAsked(ops \cup more, may \cup too) => NamesAsked(ops, may) /\ NamesAsked(more, too)
    BY DEF NamesAsked
  <1>. QED
    BY <1>1, <1>2, <1>3, <1>4 DEF Loyal

LEMMA LoyalTwice ==
  ASSUME NEW S, NEW T, NEW U, NEW ops, NEW may, Loyal(T, S, ops, may), Loyal(U, T, ops, may)
  PROVE  Loyal(U, S, ops, may)
  <1>1. Loyal(U, S, ops \cup ops, may \cup may)
    BY LoyalAfterLoyal
  <1>2. ops \cup ops = ops /\ may \cup may = may
    OBVIOUS
  <1>. QED
    BY <1>1, <1>2

(* The services of T come from those of S: with their images and kinds,    *)
(* and with their names, but for databases that got a number.              *)
ComesFrom(t, s) ==
  /\ t.image = s.image /\ t.kind = s.kind
  /\ t.name = s.name \/ (t.kind = "database" /\ Numbered(t.name))
ComeFrom(T, S) ==
  /\ \A t \in T : \E s \in S : ComesFrom(t, s)
  /\ \A s \in S : s.kind # "database" => \E t \in T : t.kind # "database" /\ t.name = s.name

LEMMA ComingIsLoyal ==
  ASSUME NEW S, NEW T, ComeFrom(T, S), NEW ops, NEW may
  PROVE  Loyal(T, S, ops, may)
  <1>1. KeepsImages(T, S, ops)
    BY DEF ComeFrom, ComesFrom, KeepsImages
  <1>2. ASSUME NEW n, ~Numbered(n), Holds(S, n) PROVE Holds(T, n)
    BY <1>2 DEF ComeFrom, ComesFrom, Holds
  <1>. QED
    BY <1>1, <1>2 DEF Loyal, KeepsNames

LEMMA ComingFrom ==
  ASSUME NEW S, NEW T
  PROVE  /\ ComeFrom(S, S)
         /\ \A U : ComeFrom(T, S) /\ ComeFrom(U, T) => ComeFrom(U, S)
  <1>1. ComeFrom(S, S)
    BY DEF ComeFrom, ComesFrom
  <1>2. ASSUME NEW U, ComeFrom(T, S), ComeFrom(U, T) PROVE ComeFrom(U, S)
    <2>1. ASSUME NEW u \in U PROVE \E s \in S : ComesFrom(u, s)
      <3>1. PICK t \in T : ComesFrom(u, t)
        BY <1>2 DEF ComeFrom
      <3>2. PICK s \in S : ComesFrom(t, s)
        BY <1>2 DEF ComeFrom
      <3>3. ComesFrom(u, s)
        BY <3>1, <3>2 DEF ComesFrom
      <3>. QED
        BY <3>3
    <2>2. ASSUME NEW s \in S, s.kind # "database"
          PROVE  \E u \in U : u.kind # "database" /\ u.name = s.name
      BY <1>2, <2>2 DEF ComeFrom
    <2>. QED
      BY <2>1, <2>2 DEF ComeFrom
  <1>. QED
    BY <1>1, <1>2

LEMMA AlikeComes ==
  ASSUME NEW S, NEW T,
         \A t \in T : \E s \in S : t.image = s.image /\ t.kind = s.kind /\ t.name = s.name,
         \A s \in S : \E t \in T : t.kind = s.kind /\ t.name = s.name
  PROVE  ComeFrom(T, S)
  BY DEF ComeFrom, ComesFrom

(* Parts of a database have its image and a number.                        *)
LEMMA PartComes ==
  ASSUME NEW s, IsService(s), NEW i \in Nat
  PROVE  /\ Part(s, i).image = s.image /\ Part(s, i).kind = s.kind
         /\ Numbered(Part(s, i).name)
  <1>. DEFINE n == Append(s.name, i)
              d == IF i = 1 THEN s.deps ELSE s.deps \cup {Append(s.name, 1)}
              M == (s.mounts \ DataMounts(s)) \cup {[from |-> PartVolume(s, i), at |-> DataTarget(s)]}
  <1>1. Part(s, i) = [s EXCEPT !.name = n, !.replicas = 0, !.deps = d, !.mounts = M]
    BY DEF Part
  <1>2. Numbered(n)
    <2>. DEFINE S == {s.name[j] : j \in 1..Len(s.name)} \cup {i}
    <2>1. s.name \in Seq(S) /\ s.name # <<>> /\ i \in S
      <3>1. s.name \in Seq({s.name[j] : j \in 1..Len(s.name)}) /\ s.name # <<>>
        BY IsSeqIs DEF IsService, IsName
      <3>. QED
        BY <3>1, SeqDef
    <2>. HIDE DEF S
    <2>2. PICK k \in Nat : k = Len(s.name) /\ k > 0
      BY <2>1
    <2>3. Len(n) = k + 1
      BY <2>1, <2>2
    <2>. QED
      BY <2>2, <2>3 DEF Numbered
  <1>. HIDE DEF n, d, M
  <1>. QED
    BY <1>1, <1>2 DEF IsService, IsRecord

LEMMA ExpandComes ==
  ASSUME NEW sp, IsSpec(sp)
  PROVE  /\ \A t \in Expand(sp).services : \E s \in sp.services :
              /\ t.image = s.image /\ t.kind = s.kind
              /\ IF Replicated(s) THEN Numbered(t.name) ELSE t.name = s.name
         /\ \A s \in sp.services : ~Replicated(s) =>
              \E t \in Expand(sp).services : t.kind = s.kind /\ t.name = s.name
         /\ ComeFrom(Expand(sp).services, sp.services)
  <1>. DEFINE parts(d) == LET owners == Named(sp.services, {d})
                          IN IF owners = {} THEN {d} ELSE Parts(CHOOSE s \in owners : TRUE)
              services == UNION {Made(s) : s \in sp.services}
              S == {[s EXCEPT !.deps = UNION {parts(d) : d \in @}] : s \in services}
  <1>1. Expand(sp).services = S
    <2>1. \E V : Expand(sp) = [sp EXCEPT !.services = S, !.volumes = V]
      BY DEF Expand, Made
    <2>. HIDE DEF S
    <2>. QED
      BY <2>1 DEF IsSpec, IsRecord
  <1>2. \A s \in sp.services : IsService(s)
    BY DEF IsSpec
  <1>3. \A u \in services : IsService(u)
    BY <1>2, MadeIs
  <1>4. ASSUME NEW u \in services, NEW D
        PROVE  LET t == [u EXCEPT !.deps = D] IN t.image = u.image /\ t.kind = u.kind /\ t.name = u.name
    BY <1>3, DepsMayBe
  <1>5. ASSUME NEW u \in services
        PROVE  \E s \in sp.services : /\ u.image = s.image /\ u.kind = s.kind
                                      /\ IF Replicated(s) THEN Numbered(u.name) ELSE u.name = s.name
    <2>1. PICK s \in sp.services : u \in Made(s)
      OBVIOUS
    <2>2. CASE Replicated(s)
      <3>1. PICK i \in 1..s.replicas : u = Part(s, i)
        BY <2>1, <2>2 DEF Made
      <3>2. i \in Nat
        BY <1>2 DEF IsService
      <3>. QED
        BY <1>2, <2>2, <3>1, <3>2, PartComes
    <2>3. CASE ~Replicated(s)
      BY <2>1, <2>3 DEF Made
    <2>. QED
      BY <2>2, <2>3
  <1>6. ASSUME NEW s \in sp.services, ~Replicated(s) PROVE s \in services
    BY <1>6 DEF Made
  <1>. HIDE DEF services, parts
  <1>7. ASSUME NEW t \in S
        PROVE  \E s \in sp.services : /\ t.image = s.image /\ t.kind = s.kind
                                      /\ IF Replicated(s) THEN Numbered(t.name) ELSE t.name = s.name
    <2>1. PICK u \in services : t = [u EXCEPT !.deps = UNION {parts(d) : d \in u.deps}]
      OBVIOUS
    <2>2. t.image = u.image /\ t.kind = u.kind /\ t.name = u.name
      BY <1>4, <2>1
    <2>. QED
      BY <1>5, <2>2
  <1>8. ASSUME NEW s \in sp.services, ~Replicated(s)
        PROVE  \E t \in S : t.kind = s.kind /\ t.name = s.name
    <2>. DEFINE t == [s EXCEPT !.deps = UNION {parts(d) : d \in s.deps}]
    <2>1. s \in services
      BY <1>6, <1>8
    <2>2. t \in S
      BY <2>1
    <2>3. t.kind = s.kind /\ t.name = s.name
      BY <1>4, <2>1
    <2>. QED
      BY <2>2, <2>3
  <1>. HIDE DEF S
  <1>9. ComeFrom(S, sp.services)
    BY <1>7, <1>8 DEF ComeFrom, ComesFrom, Replicated
  <1>. QED
    BY <1>1, <1>7, <1>8, <1>9

-----------------------------------------------------------------------------
(* A group that is resized: one member keeps its name, more get numbers.   *)
LEMMA ResizeComes ==
  ASSUME NEW sp, IsSpec(sp), NEW sel, NEW g \in GroupsOf(sp.services, sel), NEW n \in Nat \ {0}
  PROVE  ComeFrom(Resize(sp, g, n).services, sp.services)
  <1>. DEFINE names == NamesOf(g.members)
              first == CHOOSE s \in g.members :
                         \A t \in g.members : Numbered(s.name) => Ordinal(s.name) <= Ordinal(t.name)
              others == first.deps \ names
              from == [BaseVolume([first EXCEPT !.name = g.base])
                         EXCEPT !.nrs = IF @ = <<>> THEN @ ELSE SeqX!Front(@)]
              logical == [first EXCEPT !.name = g.base, !.replicas = n,
                                       !.deps = IF others = {} THEN @ ELSE others,
                                       !.mounts = {[from |-> from, at |-> DataTarget(first)]}]
              single == [first EXCEPT !.replicas = 0, !.deps = others]
              pattern == IF n = 1 THEN single ELSE logical
              rest == DependentsOf(sp.services \ g.members, names, pattern.name)
              S == rest \cup {pattern}
              V == sp.volumes \ UNION {Sources(s) : s \in g.members}
              resized == [sp EXCEPT !.services = S, !.volumes = V]
              declared(x) == [x EXCEPT !.volumes = @ \cup UNION {Declared(s) : s \in x.services}]
  <1>0. /\ g.members \subseteq sp.services /\ g.members # {} /\ IsName(g.base)
        /\ \A s \in sp.services : IsService(s)
        /\ \A s \in g.members : s.kind = "database"
    BY GroupIs, GroupNames DEF IsSpec
  <1>1. Resize(sp, g, n) = IF n = 1 THEN [resized EXCEPT !.volumes = @ \cup Declared(single)]
                           ELSE declared(Expand(resized))
    BY DEF Resize
  <1>2. first \in g.members
    <2>1. \A s \in g.members : IsName(s.name)
      BY <1>0 DEF IsService
    <2>. QED
      BY <1>0, <2>1, FirstIs
  <1>. HIDE DEF first
  <1>3. IsService(first) /\ first.kind = "database"
    BY <1>0, <1>2
  <1>4. /\ pattern.image = first.image /\ pattern.kind = first.kind
        /\ n = 1 => pattern.name = first.name
        /\ n # 1 => Replicated(pattern)
    <2>. HIDE DEF others, from
    <2>1. single.image = first.image /\ single.kind = first.kind /\ single.name = first.name
      BY <1>3 DEF IsService, IsRecord
    <2>2. logical.image = first.image /\ logical.kind = first.kind /\ logical.replicas = n
      BY <1>3 DEF IsService, IsRecord
    <2>. HIDE DEF single, logical
    <2>. QED
      BY <1>3, <2>1, <2>2 DEF Replicated
  <1>5. IsService(pattern)
    <2>. HIDE DEF others, from
    <2>1. IsResource(from)
      <3>. DEFINE f == [first EXCEPT !.name = g.base]
      <3>1. IsService(f)
        BY <1>0, <1>3 DEF IsService, IsRecord
      <3>. HIDE DEF f
      <3>2. IsResource(BaseVolume(f))
        BY <3>1, VolumeIs
      <3>. DEFINE v == BaseVolume(f)
      <3>3. \A y : IsResource([v EXCEPT !.nrs = y])
        BY <3>2 DEF IsResource, IsRecord
      <3>4. from = [v EXCEPT !.nrs = IF @ = <<>> THEN @ ELSE SeqX!Front(@)]
        BY DEF from, f
      <3>. HIDE DEF v
      <3>. QED
        BY <3>3, <3>4
    <2>. DEFINE D == IF others = {} THEN first.deps ELSE others
                M == {[from |-> from, at |-> DataTarget(first)]}
    <2>2. \A m \in M : IsMount(m)
      BY <2>1 DEF IsMount, IsRecord
    <2>3. logical = [first EXCEPT !.name = g.base, !.replicas = n, !.deps = D, !.mounts = M]
      OBVIOUS
    <2>. HIDE DEF D, M, logical
    <2>4. IsService(logical)
      BY <1>0, <1>3, <2>2, <2>3 DEF IsService, IsRecord
    <2>5. IsService(single)
      BY <1>3 DEF IsService, IsRecord
    <2>. HIDE DEF single
    <2>. QED
      BY <2>4, <2>5
  <1>. HIDE DEF pattern
  <1>6. /\ \A x \in rest : IsService(x) /\ \E s \in sp.services \ g.members :
             x.image = s.image /\ x.kind = s.kind /\ x.name = s.name
        /\ \A s \in sp.services \ g.members : \E x \in rest :
             x.replicas = s.replicas /\ x.kind = s.kind /\ x.name = s.name
    <2>. DEFINE E(s) == [s EXCEPT !.deps = {IF d \in names THEN pattern.name ELSE d : d \in @}]
    <2>1. rest = {E(s) : s \in sp.services \ g.members}
      BY DEF DependentsOf
    <2>2. ASSUME NEW s \in sp.services \ g.members
          PROVE  /\ IsService(E(s)) /\ E(s).image = s.image /\ E(s).kind = s.kind
                 /\ E(s).name = s.name /\ E(s).replicas = s.replicas
      <3>. DEFINE D == {IF d \in names THEN pattern.name ELSE d : d \in s.deps}
      <3>1. E(s) = [s EXCEPT !.deps = D]
        OBVIOUS
      <3>. HIDE DEF D, E
      <3>. QED
        BY <1>0, <3>1, DepsMayBe
    <2>. HIDE DEF E, rest
    <2>. QED
      BY <2>1, <2>2
  <1>7. IsSpec(resized) /\ resized.services = S
    <2>1. \A s \in rest : IsService(s)
      BY <1>6
    <2>. HIDE DEF rest
    <2>2. (\A s \in S : IsService(s)) /\ (\A r \in V : IsResource(r))
      BY <1>5, <2>1 DEF IsSpec
    <2>. HIDE DEF S, V
    <2>. QED
      BY <2>2, BothMayBe DEF IsSpec, IsRecord
  <1>. HIDE DEF resized, rest
  <1>8. \A x, W : IsSpec(x) => [x EXCEPT !.volumes = W].services = x.services
    BY DEF IsSpec, IsRecord
  <1>9. CASE n = 1
    <2>1. Resize(sp, g, n).services = S
      BY <1>1, <1>7, <1>8, <1>9
    <2>2. ComeFrom(S, sp.services)
      BY <1>0, <1>2, <1>4, <1>6, <1>9 DEF ComeFrom, ComesFrom
    <2>. QED
      BY <2>1, <2>2
  <1>10. CASE n # 1
    <2>. DEFINE e == Expand(resized)
    <2>1. IsSpec(e) /\ Resize(sp, g, n) = declared(e)
      BY <1>1, <1>7, <1>10, ExpandIs
    <2>2. /\ \A t \in e.services : \E s \in S :
               /\ t.image = s.image /\ t.kind = s.kind
               /\ IF Replicated(s) THEN Numbered(t.name) ELSE t.name = s.name
          /\ \A s \in S : ~Replicated(s) => \E t \in e.services : t.kind = s.kind /\ t.name = s.name
      BY <1>7, ExpandComes
    <2>. HIDE DEF e
    <2>3. Resize(sp, g, n).services = e.services
      BY <1>8, <2>1
    <2>4. ASSUME NEW t \in e.services PROVE \E s \in sp.services : ComesFrom(t, s)
      <3>1. PICK s \in S : /\ t.image = s.image /\ t.kind = s.kind
                           /\ IF Replicated(s) THEN Numbered(t.name) ELSE t.name = s.name
        BY <2>2
      <3>2. CASE s = pattern
        BY <1>0, <1>2, <1>3, <1>4, <1>10, <3>1, <3>2 DEF ComesFrom
      <3>3. CASE s \in rest
        <4>1. PICK u \in sp.services : s.image = u.image /\ s.kind = u.kind /\ s.name = u.name
          BY <1>6, <3>3
        <4>. QED
          BY <3>1, <4>1 DEF ComesFrom, Replicated
      <3>. QED
        BY <3>2, <3>3
    <2>5. ASSUME NEW s \in sp.services, s.kind # "database"
          PROVE  \E t \in e.services : t.kind # "database" /\ t.name = s.name
      <3>1. PICK x \in rest : x.kind = s.kind /\ x.name = s.name
        BY <1>0, <1>6, <2>5
      <3>. QED
        BY <2>2, <2>5, <3>1 DEF Replicated
    <2>. QED
      BY <2>3, <2>4, <2>5 DEF ComeFrom
  <1>. QED
    BY <1>9, <1>10

(* A patch of a single service but for its image and its name.             *)
LEMMA EditedComes ==
  ASSUME NEW s, IsService(s), NEW p,
         p.op \in ServiceOps \ {"set-service-image", "remove-service", "rename-service"}
  PROVE  Edited(s, p).image = s.image /\ Edited(s, p).kind = s.kind /\ Edited(s, p).name = s.name
  <1>. DEFINE Same(t) == t.image = s.image /\ t.kind = s.kind /\ t.name = s.name
  <1>1. ASSUME NEW x
        PROVE  /\ Same([s EXCEPT !.ports = x]) /\ Same([s EXCEPT !.env = x])
               /\ Same([s EXCEPT !.deps = x]) /\ Same([s EXCEPT !.status = x])
               /\ Same([s EXCEPT !.replicas = x]) /\ Same([s EXCEPT !.mounts = x])
    BY DEF IsService, IsRecord
  <1>. HIDE DEF Same
  <1>2. CASE p.op \in {"replace-service-port", "add-service-port", "remove-service-port"}
    <2>1. Edited(s, p) = EditPorts(s, p)
      BY <1>2 DEF Edited
    <2>2. \E x : EditPorts(s, p) = [s EXCEPT !.ports = x]
      BY <1>2 DEF EditPorts
    <2>. QED
      BY <1>1, <2>1, <2>2
  <1>3. CASE p.op \in {"set-service-env", "remove-service-env"}
    <2>1. \E x : Edited(s, p) = [s EXCEPT !.env = x]
      BY <1>3 DEF Edited
    <2>. QED
      BY <1>1, <2>1
  <1>4. CASE p.op \in {"add-service-dependency", "remove-service-dependency"}
    <2>1. \E x : Edited(s, p) = [s EXCEPT !.deps = x]
      BY <1>4 DEF Edited
    <2>. QED
      BY <1>1, <2>1
  <1>5. CASE p.op \in {"add-service-volume", "remove-service-volume"}
    <2>1. Edited(s, p) = [s EXCEPT !.mounts = IF p.op = "add-service-volume" THEN s.mounts \cup {p.arg}
                                              ELSE s.mounts \ {p.arg}]
      BY <1>5 DEF Edited
    <2>. QED
      BY <1>1, <2>1
  <1>6. CASE p.op = "set-service-replicas"
    <2>1. Edited(s, p) = [s EXCEPT !.replicas = p.arg]
      BY <1>6 DEF Edited
    <2>. QED
      BY <1>1, <2>1
  <1>7. CASE p.op = "set-service-desired-status"
    <2>1. Edited(s, p) = [s EXCEPT !.status = p.arg]
      BY <1>7 DEF Edited
    <2>. QED
      BY <1>1, <2>1
  <1>. QED
    BY <1>2, <1>3, <1>4, <1>5, <1>6, <1>7 DEF ServiceOps, Same

-----------------------------------------------------------------------------
(* The patches that add, remove and rename services and change images.     *)
LEMMA AddLoyal ==
  ASSUME NEW sp, IsSpec(sp), NEW p, IsPatch(p), p.op = "add-service", NEW may
  PROVE  Loyal(EditSpec(sp, p).services, sp.services, {p.op}, may)
  <1>1. CASE p.arg.name \in NamesOf(sp.services)
    BY <1>1, LoyalIs DEF EditSpec
  <1>2. CASE p.arg.name \notin NamesOf(sp.services)
    <2>. DEFINE S == sp.services \cup {Stripped(p.arg)}
    <2>1. EditSpec(sp, p).services = S
      <3>1. \E N, V : EditSpec(sp, p) = [sp EXCEPT !.services = S, !.networks = N, !.volumes = V]
        BY <1>2 DEF EditSpec
      <3>. HIDE DEF S
      <3>. QED
        BY <3>1 DEF IsSpec, IsRecord
    <2>2. Stripped(p.arg).name = p.arg.name
      BY DEF IsPatch, Stripped, IsService, IsRecord
    <2>3. KeepsNames(S, sp.services)
      BY <1>2, <2>2 DEF KeepsNames, Holds, NamesOf
    <2>. QED
      BY <2>1, <2>3 DEF Loyal, ImagesAsked
  <1>. QED
    BY <1>1, <1>2

LEMMA RemoveLoyal ==
  ASSUME NEW sp, IsSpec(sp), NEW s \in sp.services, NEW may,
         "remove-service" \in may \/ s.kind = "database"
  PROVE  Loyal(Remove(sp, s.name).services, sp.services, {"remove-service"}, may)
  <1>. DEFINE left == {t \in sp.services : t.name # s.name}
              S == {[t EXCEPT !.deps = @ \ {s.name}] : t \in left}
  <1>1. Remove(sp, s.name).services = S
    <2>1. Remove(sp, s.name) = [sp EXCEPT !.services = S]
      BY DEF Remove
    <2>. HIDE DEF S
    <2>. QED
      BY <2>1 DEF IsSpec, IsRecord
  <1>2. \A t \in left : LET u == [t EXCEPT !.deps = @ \ {s.name}]
                        IN u.image = t.image /\ u.kind = t.kind /\ u.name = t.name
    BY DepsMayBe DEF IsSpec
  <1>3. KeepsImages(S, sp.services, {"remove-service"})
    BY <1>2 DEF KeepsImages
  <1>4. ASSUME s.kind = "database", NEW n, Holds(sp.services, n) PROVE Holds(S, n)
    <2>1. n # s.name
      BY <1>4 DEF Holds
    <2>2. PICK t \in left : t.kind # "database" /\ t.name = n
      BY <1>4, <2>1 DEF Holds
    <2>3. \E u \in S : u.kind # "database" /\ u.name = n
      BY <1>2, <2>2
    <2>4. ASSUME NEW u \in S, u.kind = "database" PROVE u.name # n
      <3>1. PICK v \in left : u = [v EXCEPT !.deps = @ \ {s.name}]
        OBVIOUS
      <3>2. u.kind = v.kind /\ u.name = v.name /\ v \in sp.services
        BY <1>2, <3>1
      <3>. QED
        BY <1>4, <2>4, <3>2 DEF Holds
    <2>. QED
      BY <2>3, <2>4 DEF Holds
  <1>. HIDE DEF S
  <1>5. NamesAsked({"remove-service"}, may) => s.kind = "database"
    BY DEF NamesAsked
  <1>. QED
    BY <1>1, <1>3, <1>4, <1>5 DEF Loyal, KeepsNames

LEMMA RenameLoyal ==
  ASSUME NEW sp, IsSpec(sp), NEW old, NEW new, NEW may
  PROVE  Loyal(Rename(sp, old, new).services, sp.services, {"rename-service"}, may)
  <1>. DEFINE to(d) == IF d = old THEN new ELSE d
              R(s) == [s EXCEPT !.name = to(@), !.deps = {to(d) : d \in @}]
              S == {R(s) : s \in sp.services}
  <1>1. Rename(sp, old, new).services = S
    <2>1. Rename(sp, old, new) = [sp EXCEPT !.services = S]
      BY DEF Rename
    <2>. HIDE DEF S
    <2>. QED
      BY <2>1 DEF IsSpec, IsRecord
  <1>2. ASSUME NEW s \in sp.services PROVE R(s).image = s.image
    <2>. DEFINE D == {to(d) : d \in s.deps}
    <2>1. R(s) = [s EXCEPT !.name = to(s.name), !.deps = D]
      OBVIOUS
    <2>. HIDE DEF to, D, R
    <2>. QED
      BY <2>1 DEF IsSpec, IsService, IsRecord
  <1>3. KeepsImages(S, sp.services, {"rename-service"})
    <2>. HIDE DEF R
    <2>. QED
      BY <1>2 DEF KeepsImages
  <1>. QED
    BY <1>1, <1>3 DEF Loyal, NamesAsked

LEMMA ImageLoyal ==
  ASSUME NEW sp, IsSpec(sp), NEW matched, NEW image, IsRecord(image, {"family", "tag"}), NEW may,
         "set-service-image" \in may \/ InCatalog(image)
  PROVE  Loyal(SetImage(sp, matched, Normalized(image)).services, sp.services, {"set-service-image"}, may)
  <1>. DEFINE new(d) == LET s == Named(matched, {d})
                        IN IF s = {} THEN d ELSE Rebuilt(CHOOSE t \in s : TRUE, Normalized(image)).name
              S == {[(IF s \in matched THEN Rebuilt(s, Normalized(image)) ELSE s)
                       EXCEPT !.deps = {new(d) : d \in @}] : s \in sp.services}
  <1>1. SetImage(sp, matched, Normalized(image)).services = S
    <2>1. \E V : SetImage(sp, matched, Normalized(image)) = [sp EXCEPT !.services = S, !.volumes = V]
      BY DEF SetImage
    <2>. HIDE DEF S
    <2>. QED
      BY <2>1 DEF IsSpec, IsRecord
  <1>2. InCatalog(image) => InCatalog(Normalized(image))
    BY DEF InCatalog, Normalized, IsRecord
  <1>3. ASSUME NEW s, IsService(s), NEW i PROVE Rebuilt(s, i).image = i
    <2>1. CASE ~Trusted(i)
      <3>1. Rebuilt(s, i) = [s EXCEPT !.kind = KindOf(i), !.image = i]
        BY <2>1 DEF Rebuilt
      <3>. QED
        BY <1>3, <3>1 DEF IsService, IsRecord
    <2>2. CASE Trusted(i)
      <3>1. \E n, k, p, e, M : Rebuilt(s, i) = [s EXCEPT !.name = n, !.kind = k, !.image = i,
                                                        !.ports = p, !.env = e, !.mounts = M]
        BY <2>2 DEF Rebuilt
      <3>. QED
        BY <1>3, <3>1 DEF IsService, IsRecord
    <2>. QED
      BY <2>1, <2>2
  <1>4. ASSUME NEW t \in S PROVE t.image = Normalized(image) \/ \E s \in sp.services : t.image = s.image
    <2>. HIDE DEF new
    <2>1. PICK s \in sp.services :
            t = [(IF s \in matched THEN Rebuilt(s, Normalized(image)) ELSE s) EXCEPT !.deps = {new(d) : d \in @}]
      OBVIOUS
    <2>. DEFINE u == IF s \in matched THEN Rebuilt(s, Normalized(image)) ELSE s
    <2>2. IsService(s) /\ IsService(u)
      BY RebuiltIs DEF IsSpec
    <2>3. t.image = u.image
      BY <2>1, <2>2, DepsMayBe
    <2>. QED
      BY <1>3, <2>2, <2>3
  <1>. HIDE DEF S
  <1>5. InCatalog(image) => KeepsImages(S, sp.services, {"set-service-image"})
    BY <1>2, <1>4 DEF KeepsImages
  <1>. QED
    BY <1>1, <1>5 DEF Loyal, ImagesAsked, NamesAsked

LEMMA EditSpecLoyal ==
  ASSUME NEW sp, IsSpec(sp), NEW p, IsPatch(p), p.op \in SpecOps, NEW may
  PROVE  Loyal(EditSpec(sp, p).services, sp.services, {p.op}, may)
  <1>1. CASE p.op = "add-service"
    BY <1>1, AddLoyal
  <1>2. CASE p.op # "add-service"
    <2>1. \E x : \/ EditSpec(sp, p) = [sp EXCEPT !.project = x] \/ EditSpec(sp, p) = [sp EXCEPT !.networks = x]
      BY <1>2 DEF EditSpec, SpecOps
    <2>2. EditSpec(sp, p).services = sp.services
      BY <2>1 DEF IsSpec, IsRecord
    <2>. QED
      BY <2>2, LoyalIs
  <1>. QED
    BY <1>1, <1>2

LEMMA OneIsSome == ASSUME NEW S, Cardinality(S) = 1 PROVE S # {}
  <1>1. 0 # 1
    OBVIOUS
  <1>. QED
    BY <1>1, FS_EmptySet, Zenon

(* A patch nothing speaks against does what its operation allows.          *)
LEMMA AppliedLoyal ==
  ASSUME NEW sp, IsSpec(sp), NEW p, IsPatch(p), NEW matched, matched \subseteq sp.services, NEW may,
         p.op \in may \/ Policy(p, matched, sp.services) = ""
  PROVE  Loyal(Applied(sp, p, matched).services, sp.services, {p.op}, may)
  <1>0. ASSUME Cardinality(matched) = 1 PROVE matched # {}
    BY <1>0, OneIsSome
  <1>. DEFINE group == FittingGroups(sp.services, p.target, matched, FALSE)
              s == CHOOSE t \in matched : TRUE
              S == (sp.services \ {s}) \cup {Edited(s, p)}
              edited == [sp EXCEPT !.services = S]
              one == IF p.op = "remove-service" THEN Remove(sp, s.name)
                     ELSE IF p.op = "rename-service" THEN Rename(sp, s.name, p.arg)
                     ELSE IF p.op = "set-service-replicas" /\ s.kind = "database" THEN Expand(edited)
                     ELSE IF p.op = "add-service-volume"
                       THEN [edited EXCEPT !.volumes = @ \cup ({p.arg.from} \ {HostPath})]
                     ELSE edited
  <1>1. Applied(sp, p, matched) =
          IF ~HasTarget(p) THEN EditSpec(sp, p)
          ELSE IF p.op = "set-service-replicas" /\ group # {}
            THEN Resize(sp, CHOOSE g \in group : TRUE, p.arg)
          ELSE IF p.op = "set-service-image" THEN SetImage(sp, matched, Normalized(p.arg))
          ELSE IF Cardinality(matched) # 1 THEN sp ELSE one
    BY DEF Applied
  <1>2. CASE ~HasTarget(p)
    <2>1. Applied(sp, p, matched) = EditSpec(sp, p) /\ p.op \in SpecOps
      BY <1>2 DEF Applied, HasTarget
    <2>. QED
      BY <2>1, EditSpecLoyal
  <1>3. CASE HasTarget(p) /\ p.op = "set-service-replicas" /\ group # {}
    <2>. DEFINE g == CHOOSE h \in group : TRUE
    <2>1. g \in GroupsOf(sp.services, p.target)
      BY <1>3 DEF FittingGroups
    <2>2. Applied(sp, p, matched) = Resize(sp, g, p.arg) /\ p.arg \in Nat \ {0}
      BY <1>3 DEF Applied, IsPatch
    <2>. HIDE DEF g
    <2>. QED
      BY <2>1, <2>2, ResizeComes, ComingIsLoyal
  <1>4. CASE HasTarget(p) /\ p.op = "set-service-image"
    <2>1. Applied(sp, p, matched) = SetImage(sp, matched, Normalized(p.arg))
      BY <1>4 DEF Applied
    <2>2. IsRecord(p.arg, {"family", "tag"}) /\ ("set-service-image" \in may \/ InCatalog(p.arg))
      BY <1>4 DEF IsPatch, Policy
    <2>. QED
      BY <1>4, <2>1, <2>2, ImageLoyal
  <1>5. CASE /\ HasTarget(p) /\ ~(p.op = "set-service-replicas" /\ group # {})
             /\ p.op # "set-service-image"
    <2>0. Applied(sp, p, matched) = IF Cardinality(matched) # 1 THEN sp ELSE one
      <3>. HIDE DEF one, group
      <3>. QED
        BY <1>1, <1>5
    <2>1. CASE Cardinality(matched) # 1
      BY <2>0, <2>1, LoyalIs
    <2>2. CASE Cardinality(matched) = 1
      <3>0. s \in matched /\ s \in sp.services /\ IsService(s)
        BY <1>0, <2>2 DEF IsSpec
      <3>. HIDE DEF s
      <3>1. Applied(sp, p, matched) = one
        BY <2>0, <2>2
      <3>2. CASE p.op = "remove-service"
        <4>1. Applied(sp, p, matched) = Remove(sp, s.name)
          BY <3>1, <3>2
        <4>2. "remove-service" \in may \/ s.kind = "database"
          BY <3>0, <3>2 DEF Policy, SafeRemoval
        <4>. QED
          BY <3>0, <3>2, <4>1, <4>2, RemoveLoyal
      <3>3. CASE p.op = "rename-service"
        <4>1. Applied(sp, p, matched) = Rename(sp, s.name, p.arg)
          BY <3>1, <3>3
        <4>. QED
          BY <3>3, <4>1, RenameLoyal
      <3>4. CASE p.op \notin {"remove-service", "rename-service"}
        <4>1. p.op \in ServiceOps \ {"set-service-image", "remove-service", "rename-service"}
          BY <1>5, <3>4 DEF IsPatch, HasTarget
        <4>2. /\ IsService(Edited(s, p)) /\ Edited(s, p).image = s.image
              /\ Edited(s, p).kind = s.kind /\ Edited(s, p).name = s.name
          BY <3>0, <4>1, EditedIs, EditedComes
        <4>3. \A t \in S : IsService(t)
          BY <4>2 DEF IsSpec
        <4>4. ComeFrom(S, sp.services)
          <5>1. \A t \in S : \E u \in sp.services : t.image = u.image /\ t.kind = u.kind /\ t.name = u.name
            BY <3>0, <4>2
          <5>2. \A u \in sp.services : \E t \in S : t.kind = u.kind /\ t.name = u.name
            BY <3>0, <4>2
          <5>. HIDE DEF S
          <5>. QED
            BY <5>1, <5>2, AlikeComes
        <4>. HIDE DEF S
        <4>5. IsSpec(edited) /\ edited.services = S
          BY <4>3, ServicesMayBe DEF IsSpec, IsRecord
        <4>. HIDE DEF edited
        <4>6. ComeFrom(Expand(edited).services, sp.services)
          BY <4>4, <4>5, ExpandComes, ComingFrom
        <4>7. \A V : [edited EXCEPT !.volumes = V].services = S
          BY <4>5 DEF IsSpec, IsRecord
        <4>8. ComeFrom(one.services, sp.services)
          BY <3>4, <4>4, <4>5, <4>6, <4>7
        <4>. QED
          BY <3>1, <4>8, ComingIsLoyal
      <3>. QED
        BY <3>2, <3>3, <3>4
    <2>. QED
      BY <2>1, <2>2
  <1>. QED
    BY <1>2, <1>3, <1>4, <1>5

-----------------------------------------------------------------------------
(* The patches of a plan, and what is shown and named after them.          *)
LEMMA StrippedComes ==
  ASSUME NEW sp, IsSpec(sp)
  PROVE  ComeFrom(StrippedSpec(sp).services, sp.services)
  <1>. DEFINE S == {Stripped(s) : s \in sp.services}
  <1>1. StrippedSpec(sp).services = S
    <2>1. StrippedSpec(sp) = [sp EXCEPT !.services = S]
      BY DEF StrippedSpec
    <2>. HIDE DEF S
    <2>. QED
      BY <2>1 DEF IsSpec, IsRecord
  <1>2. ASSUME NEW s \in sp.services
        PROVE  Stripped(s).image = s.image /\ Stripped(s).kind = s.kind /\ Stripped(s).name = s.name
    BY DEF Stripped, IsSpec, IsService, IsRecord
  <1>3. ComeFrom(S, sp.services)
    BY <1>2, AlikeComes
  <1>. QED
    BY <1>1, <1>3

LEMMA NamespaceComes ==
  ASSUME NEW sp, IsSpec(sp)
  PROVE  ComeFrom(Namespace(sp).services, sp.services)
  <1>1. Namespace(sp).services = {Placed(sp.project, s) : s \in sp.services}
    BY NamespaceIs
  <1>2. ASSUME NEW s \in sp.services
        PROVE  /\ Placed(sp.project, s).image = s.image
               /\ Placed(sp.project, s).kind = s.kind /\ Placed(sp.project, s).name = s.name
    <2>. DEFINE M == {[m EXCEPT !.from = Prefixed(sp.project, @)] : m \in s.mounts}
    <2>1. Placed(sp.project, s) = [s EXCEPT !.mounts = M]
      BY DEF Placed
    <2>. HIDE DEF M
    <2>. QED
      BY <2>1 DEF IsSpec, IsService, IsRecord
  <1>. QED
    BY <1>1, <1>2, AlikeComes

LEMMA ShownComes ==
  ASSUME NEW sp, IsSpec(sp)
  PROVE  IsSpec(Shown(sp)) /\ ComeFrom(Shown(sp).services, sp.services)
  <1>1. /\ IsSpec(Normalize(sp)) /\ ComeFrom(Normalize(sp).services, sp.services)
    BY NormalizeIs, ExpandComes
  <1>2. IsSpec(Shown(sp)) /\ ComeFrom(Shown(sp).services, Normalize(sp).services)
    BY <1>1, NamespaceIs, NamespaceComes DEF Shown
  <1>. QED
    BY <1>1, <1>2, ComingFrom

(* What a patch is stopped by leaves the specification as it is.           *)
LEMMA PatchedByLoyal ==
  ASSUME NEW acc, IsSpec(acc.spec), NEW p, IsPatch(p), NEW may, NEW found, NEW about
  PROVE  LET new == PatchedBy(acc, p, may, found, about).spec
         IN IsSpec(new) /\ Loyal(new.services, acc.spec.services, {p.op}, may)
  <1>. DEFINE q == Aliased(p, acc.alias)
              res == Resolve(q, acc.spec.services)
              blocked == Objection(q, res, acc.spec.services, may, found, about)
              made == Applied(acc.spec, q, res.matched)
              new == IF blocked # "" THEN acc.spec ELSE StrippedSpec(made)
  <1>1. PatchedBy(acc, p, may, found, about).spec = new
    BY DEF PatchedBy, Found, Checked, Tried, Noted
  <1>2. IsPatch(q) /\ q.op = p.op
    <2>1. \E x : q = p \/ q = [p EXCEPT !.target = x]
      BY DEF Aliased
    <2>2. q.op = p.op
      <3>. HIDE DEF q
      <3>. QED
        BY <2>1 DEF IsPatch, IsRecord
    <2>. QED
      BY <2>2, AliasedIs
  <1>. HIDE DEF q
  <1>3. res.matched \subseteq acc.spec.services
    BY MatchedIs
  <1>. HIDE DEF res
  <1>4. blocked = "" => q.op \in may \/ Policy(q, res.matched, acc.spec.services) = ""
    BY DEF Objection
  <1>. HIDE DEF blocked
  <1>5. CASE blocked # ""
    BY <1>1, <1>5, LoyalIs
  <1>6. CASE blocked = ""
    <2>1. IsSpec(made) /\ Loyal(made.services, acc.spec.services, {p.op}, may)
      BY <1>2, <1>3, <1>4, <1>6, AppliedIs, AppliedLoyal
    <2>. HIDE DEF made
    <2>2. IsSpec(StrippedSpec(made)) /\ Loyal(StrippedSpec(made).services, made.services, {p.op}, may)
      BY <2>1, StrippedIs, StrippedComes, ComingIsLoyal
    <2>3. Loyal(StrippedSpec(made).services, acc.spec.services, {p.op} \cup {p.op}, may \cup may)
      BY <2>1, <2>2, LoyalAfterLoyal
    <2>4. {p.op} \cup {p.op} = {p.op} /\ may \cup may = may
      OBVIOUS
    <2>. QED
      BY <1>1, <1>6, <2>2, <2>3, <2>4
  <1>. QED
    BY <1>5, <1>6

LEMMA PatchedLoyal ==
  ASSUME NEW sp, IsSpec(sp), NEW ps, IsSeq(ps), NEW ops,
         \A i \in DOMAIN ps : IsPatch(ps[i]) /\ ps[i].op \in ops, NEW may, NEW found, NEW about
  PROVE  LET new == Patched(sp, ps, may, found, about).spec
         IN IsSpec(new) /\ Loyal(new.services, sp.services, ops, may)
  <1>0. PICK n \in Nat : n = Len(ps) /\ \A i \in 1..n : i \in DOMAIN ps
    BY IsSeqIs DEF IsSeq
  <1>1. PICK after : PatchCourse(sp, ps, may, found, about, after)
    BY PatchAfterPatch
  <1>. DEFINE Q == {i \in 0..n : /\ IsSpec(after[i].spec)
                                 /\ Loyal(after[i].spec.services, sp.services, ops, may)}
  <1>2. 0 \in Q
    <2>1. IsSpec(StrippedSpec(sp)) /\ Loyal(StrippedSpec(sp).services, sp.services, ops, may)
      BY StrippedIs, StrippedComes, ComingIsLoyal
    <2>. QED
      BY <1>1, <2>1 DEF PatchCourse
  <1>3. ASSUME NEW i \in 1..n, i - 1 \in Q PROVE i \in Q
    <2>1. /\ after[i] = PatchedBy(after[i - 1], ps[i], may, found, about)
          /\ IsPatch(ps[i]) /\ ps[i].op \in ops
      BY <1>0, <1>1 DEF PatchCourse
    <2>2. IsSpec(after[i - 1].spec) /\ Loyal(after[i - 1].spec.services, sp.services, ops, may)
      BY <1>3
    <2>3. /\ IsSpec(after[i].spec)
          /\ Loyal(after[i].spec.services, after[i - 1].spec.services, {ps[i].op}, may)
      BY <2>1, <2>2, PatchedByLoyal
    <2>4. Loyal(after[i].spec.services, sp.services, ops \cup {ps[i].op}, may \cup may)
      BY <2>2, <2>3, LoyalAfterLoyal
    <2>5. ops \cup {ps[i].op} = ops /\ may \cup may = may
      BY <2>1
    <2>6. Loyal(after[i].spec.services, sp.services, ops, may)
      BY <2>4, <2>5
    <2>. QED
      BY <2>3, <2>6
  <1>. HIDE DEF Q
  <1>4. n \in Q
    BY <1>2, <1>3, AtTheEnd
  <1>. QED
    BY <1>0, <1>1, <1>4 DEF Q, PatchCourse

-----------------------------------------------------------------------------
(* What findings and the texts of issues suggest.                          *)
LEMMA RebuiltAnywayIs ==
  ASSUME NEW s, IsService(s), NEW image
  PROVE  IsService(RebuiltAnyway(s, image)) /\ RebuiltAnyway(s, image).image = image
  <1>. DEFINE new == Profiles[image.family]
              kept == {m \in s.mounts : m.at = new.data}
              own == [from |-> DataVolume(s.name), at |-> new.data]
              M == IF new.data = "" THEN s.mounts ELSE IF kept # {} THEN kept ELSE {own}
  <1>0. CASE ~Trusted(image)
    <2>1. RebuiltAnyway(s, image) = [s EXCEPT !.kind = KindOf(image), !.image = image]
      BY <1>0 DEF RebuiltAnyway
    <2>. QED
      BY <2>1 DEF IsService, IsRecord
  <1>1. ASSUME Trusted(image)
        PROVE  \E k, p, e : RebuiltAnyway(s, image) = [s EXCEPT !.kind = k, !.image = image, !.ports = p,
                                                                !.env = e, !.mounts = M]
    BY <1>1 DEF RebuiltAnyway
  <1>2. IsMount(own)
    <2>1. IsSeq(<<>>)
      BY SeqIsSeq, EmptySeq
    <2>2. IsResource(DataVolume(s.name))
      BY <2>1 DEF IsResource, IsRecord, DataVolume
    <2>. QED
      BY <2>2 DEF IsMount, IsRecord
  <1>3. \A m \in M : IsMount(m)
    BY <1>2 DEF IsService
  <1>. HIDE DEF M
  <1>. QED
    BY <1>0, <1>1, <1>3 DEF IsService, IsRecord

(* What is read out of texts is known, or is not an image.                 *)
Heard(told) == IsReport(told) /\ ArgsOf(Read(told, {"set-service-image"})) \subseteq ReadImages
HeardBy(h, ops) ==
  /\ IsHint(h) /\ h.op \in Early \cup Late \cup Last /\ h.op \in ops
  /\ h.op = "set-service-image" => "read-image" \in ops /\ h.arg \in ReadImages

LEMMA ForServiceLoyal ==
  ASSUME NEW sp, IsSpec(sp), NEW h, IsHint(h),
         h.op \in {"add-service-dependency", "remove-service-dependency", "set-service-replicas"},
         NEW ops, NEW may
  PROVE  LET new == ForService(sp, h)
         IN IsSpec(new) /\ Loyal(new.services, sp.services, ops, may)
  <1>. DEFINE To(s) == IF s.name = h.target THEN Edited(s, h) ELSE s
              S == {To(s) : s \in sp.services}
  <1>1. ForService(sp, h) = [sp EXCEPT !.services = S]
    BY DEF ForService
  <1>2. ASSUME NEW s \in sp.services
        PROVE  /\ IsService(To(s)) /\ To(s).image = s.image
               /\ To(s).kind = s.kind /\ To(s).name = s.name
    <2>1. IsService(s)
      BY DEF IsSpec
    <2>2. IsService(Edited(s, h))
      <3>1. CASE h.op = "set-service-replicas"
        <4>1. Edited(s, h) = [s EXCEPT !.replicas = h.arg] /\ h.arg \in Nat
          BY <3>1 DEF Edited, IsHint
        <4>. QED
          BY <2>1, <4>1 DEF IsService, IsRecord
      <3>2. CASE h.op \in {"add-service-dependency", "remove-service-dependency"}
        <4>1. \E x : Edited(s, h) = [s EXCEPT !.deps = x]
          BY <3>2 DEF Edited
        <4>. QED
          BY <2>1, <4>1, DepsMayBe
      <3>. QED
        BY <3>1, <3>2
    <2>3. h.op \in ServiceOps \ {"set-service-image", "remove-service", "rename-service"}
      BY DEF ServiceOps
    <2>. QED
      BY <2>1, <2>2, <2>3, EditedComes
  <1>. HIDE DEF To
  <1>3. ComeFrom(S, sp.services)
    BY <1>2, AlikeComes
  <1>4. \A s \in S : IsService(s)
    BY <1>2
  <1>. HIDE DEF S
  <1>5. IsSpec([sp EXCEPT !.services = S]) /\ [sp EXCEPT !.services = S].services = S
    BY <1>4, ServicesMayBe DEF IsSpec, IsRecord
  <1>. QED
    BY <1>1, <1>3, <1>5, ComingIsLoyal

(* What a text says is done for what it mentions.                          *)
LEMMA FollowedLoyal ==
  ASSUME NEW sp, IsSpec(sp), NEW parsed, IsSpec(parsed), NEW ops, NEW h, HeardBy(h, ops), NEW may
  PROVE  LET new == Followed(sp, h, parsed)
         IN IsSpec(new) /\ Loyal(new.services, sp.services, ops, may)
  <1>. DEFINE Good(x) == IsSpec(x) /\ Loyal(x.services, sp.services, ops, may)
  <1>0. IsHint(h)
    BY DEF HeardBy
  <1>1. Good(sp)
    BY LoyalIs
  <1>2. ASSUME NEW x, \/ IsProject(x) /\ Followed(sp, h, parsed) = [sp EXCEPT !.project = x]
                      \/ (\A r \in x : IsResource(r)) /\ Followed(sp, h, parsed) = [sp EXCEPT !.networks = x]
        PROVE  Good(Followed(sp, h, parsed))
    <2>1. Followed(sp, h, parsed).services = sp.services
      BY <1>2 DEF IsSpec, IsRecord
    <2>2. IsSpec(Followed(sp, h, parsed))
      BY <1>2 DEF IsSpec, IsRecord
    <2>. QED
      BY <2>1, <2>2, LoyalIs
  <1>3. CASE h.op = "set-project-name"
    <2>1. Followed(sp, h, parsed) = [sp EXCEPT !.project = h.arg] /\ IsProject(h.arg)
      BY <1>0, <1>3 DEF Followed, EditSpec, IsHint
    <2>. QED
      BY <1>2, <2>1
  <1>4. CASE h.op = "rename-network"
    <2>. DEFINE N == IF sp.networks = {} THEN {h.arg}
                     ELSE {IF h.from \in {<<>>, <<n>>} THEN h.arg ELSE n : n \in sp.networks}
    <2>1. Followed(sp, h, parsed) = [sp EXCEPT !.networks = N] /\ IsResource(h.arg)
      BY <1>0, <1>4 DEF Followed, EditSpec, IsHint
    <2>2. \A r \in N : IsResource(r)
      BY <2>1 DEF IsSpec
    <2>. HIDE DEF N
    <2>. QED
      BY <1>2, <2>1, <2>2
  <1>5. CASE h.op = "set-networks"
    <2>. DEFINE N == parsed.networks \cup {h.arg}
    <2>1. Followed(sp, h, parsed) = [sp EXCEPT !.networks = N] /\ IsResource(h.arg)
      BY <1>0, <1>5 DEF Followed, IsHint
    <2>2. \A r \in N : IsResource(r)
      BY <2>1 DEF IsSpec
    <2>. HIDE DEF N
    <2>. QED
      BY <1>2, <2>1, <2>2
  <1>6. CASE h.op = "rename-service"
    <2>1. Followed(sp, h, parsed) = Rename(sp, h.target, h.arg) /\ IsName(h.arg) /\ h.op \in ops
      BY <1>0, <1>6 DEF Followed, IsHint, HeardBy
    <2>2. IsSpec(Rename(sp, h.target, h.arg))
      BY <2>1, RenameIs
    <2>3. Loyal(Rename(sp, h.target, h.arg).services, sp.services, {"rename-service"}, may)
      BY RenameLoyal
    <2>4. {"rename-service"} \cup ops = ops /\ may \cup may = may
      BY <1>6, <2>1
    <2>5. Loyal(Rename(sp, h.target, h.arg).services, Rename(sp, h.target, h.arg).services, ops, may)
      BY LoyalIs
    <2>6. Loyal(Rename(sp, h.target, h.arg).services, sp.services, {"rename-service"} \cup ops, may \cup may)
      BY <2>3, <2>5, LoyalAfterLoyal
    <2>. QED
      BY <2>1, <2>2, <2>4, <2>6
  <1>7. CASE h.op \in {"add-service-dependency", "remove-service-dependency", "set-service-replicas"}
    <2>1. Good(ForService(sp, h))
      BY <1>0, <1>7, ForServiceLoyal
    <2>2. Followed(sp, h, parsed) \in {sp, ForService(sp, h)}
      BY <1>7 DEF Followed
    <2>. QED
      BY <1>1, <2>1, <2>2
  <1>8. CASE h.op = "set-service-image"
    <2>. DEFINE image == ReadImage(h.arg)
                target == Mentioned(parsed.services, h)
                meant(s) == target = s.name \/ (target = NoName /\ Cardinality(sp.services) = 1)
                S == {IF meant(s) THEN RebuiltAnyway(s, image) ELSE s : s \in sp.services}
    <2>1. Followed(sp, h, parsed) = [sp EXCEPT !.services = S]
      BY <1>8 DEF Followed
    <2>2. IsRecord(h.arg, {"family", "tag"}) /\ h.arg \in ReadImages /\ "read-image" \in ops /\ h.op \in ops
      BY <1>0, <1>8 DEF IsHint, HeardBy
    <2>3. InCatalog(image) \/ image = h.arg
      BY <2>2 DEF ReadImage, InCatalog, IsRecord
    <2>. HIDE DEF meant, image
    <2>4. \A s \in S : IsService(s) /\ (s.image = image \/ \E t \in sp.services : s.image = t.image)
      BY RebuiltAnywayIs DEF IsSpec
    <2>. HIDE DEF S
    <2>5. IsSpec([sp EXCEPT !.services = S]) /\ [sp EXCEPT !.services = S].services = S
      BY <2>4, ServicesMayBe DEF IsSpec, IsRecord
    <2>6. KeepsImages(S, sp.services, ops)
      BY <2>2, <2>3, <2>4 DEF KeepsImages
    <2>7. ~NamesAsked(ops, may)
      BY <1>8, <2>2 DEF NamesAsked
    <2>. QED
      BY <2>1, <2>5, <2>6, <2>7 DEF Loyal
  <1>. QED
    BY <1>3, <1>4, <1>5, <1>6, <1>7, <1>8 DEF HeardBy, Early, Late, Last

(* The texts are followed one after the other.                             *)
HintCourse(acc, hints, which, parsed, after) ==
  /\ after[0] = acc
  /\ \A i \in 1..Len(hints) : after[i] = MendedBy(after[i - 1], hints[i], which, parsed)
  /\ MendedByAll(acc, hints, which, parsed) = after[Len(hints)]

LEMMA HintAfterHint ==
  ASSUME NEW acc, NEW hints, IsSeq(hints), NEW which, NEW parsed
  PROVE  \E after : HintCourse(acc, hints, which, parsed, after)
  <1>0. PICK n \in Nat : n = Len(hints)
    BY DEF IsSeq
  <1>. DEFINE F(a, h) == MendedBy(a, h, which, parsed)
              Def(f, k) == [i \in 0..k |-> IF i = 0 THEN acc ELSE F(f[i - 1], hints[i])]
              after == CHOOSE f : f = Def(f, n)
  <1>1. MendedByAll(acc, hints, which, parsed) = after[n]
    BY <1>0 DEF MendedByAll
  <1>3. \A a, h : F(a, h) = MendedBy(a, h, which, parsed)
    OBVIOUS
  <1>. HIDE DEF F
  <1>4. \E f : f = Def(f, n)
    <2>. DEFINE P == {k \in 0..n : \E f : f = Def(f, k)}
    <2>1. 0 \in P
      <3>. DEFINE f == [i \in 0..0 |-> acc]
      <3>1. f = Def(f, 0) /\ 0 \in 0..n
        OBVIOUS
      <3>. HIDE DEF f, Def
      <3>. QED
        BY <3>1
    <2>2. ASSUME NEW k \in 1..n, k - 1 \in P PROVE k \in P
      <3>1. PICK f : f = Def(f, k - 1)
        BY <2>2
      <3>. DEFINE h == [i \in 0..k |-> IF i = k THEN F(f[k - 1], hints[k]) ELSE f[i]]
      <3>2. \A i \in 0..(k - 1) : f[i] = IF i = 0 THEN acc ELSE F(f[i - 1], hints[i])
        BY <3>1
      <3>3. \A i \in 0..k : i = k \/ i \in 0..(k - 1)
        OBVIOUS
      <3>4. k \in 0..n /\ k # 0 /\ \A i \in 0..k : i # 0 => i - 1 \in 0..(k - 1) /\ i - 1 \in 0..k /\ i - 1 # k
        OBVIOUS
      <3>5. \A i \in 0..k : i # 0 => h[i - 1] = f[i - 1]
        BY <3>4
      <3>6. \A i \in 0..k : h[i] = IF i = 0 THEN acc ELSE F(h[i - 1], hints[i])
        <4>1. ASSUME NEW i \in 0..k PROVE h[i] = IF i = 0 THEN acc ELSE F(h[i - 1], hints[i])
          <5>1. CASE i = k
            <6>1. h[k] = F(f[k - 1], hints[k]) /\ h[k - 1] = f[k - 1]
              BY <3>4, <3>5
            <6>. QED
              BY <3>4, <5>1, <6>1
          <5>2. CASE i # k
            <6>1. i \in 0..(k - 1) /\ h[i] = f[i]
              BY <3>3, <5>2
            <6>. HIDE DEF h
            <6>. QED
              BY <3>2, <3>5, <6>1
          <5>. QED
            BY <5>1, <5>2
        <4>. QED
          BY <4>1
      <3>7. h = [i \in 0..k |-> h[i]]
        OBVIOUS
      <3>8. h = Def(h, k)
        <4>. HIDE DEF h
        <4>. QED
          BY <3>6, <3>7
      <3>. QED
        BY <3>4, <3>8
    <2>. HIDE DEF P
    <2>3. n \in P
      BY <2>1, <2>2, AtTheEnd
    <2>. QED
      BY <2>3 DEF P
  <1>5. after = Def(after, n)
    <2>. HIDE DEF Def
    <2>. QED
      BY <1>4
  <1>. HIDE DEF after
  <1>6. after[0] = acc /\ \A i \in 1..n : after[i] = F(after[i - 1], hints[i])
    BY <1>5
  <1>. HIDE DEF Def
  <1>. QED
    BY <1>0, <1>1, <1>3, <1>6 DEF HintCourse

LEMMA MendedLoyal ==
  ASSUME NEW acc, IsSpec(acc.spec), NEW hints, IsSeq(hints), NEW which, NEW parsed, IsSpec(parsed),
         NEW ops, \A i \in DOMAIN hints : hints[i].op \in which => HeardBy(hints[i], ops), NEW may
  PROVE  LET new == MendedByAll(acc, hints, which, parsed).spec
         IN IsSpec(new) /\ Loyal(new.services, acc.spec.services, ops, may)
  <1>0. PICK n \in Nat : n = Len(hints) /\ \A i \in 1..n : i \in DOMAIN hints
    BY IsSeqIs DEF IsSeq
  <1>1. PICK after : HintCourse(acc, hints, which, parsed, after)
    BY HintAfterHint
  <1>. DEFINE Q == {i \in 0..n : /\ IsSpec(after[i].spec)
                                 /\ Loyal(after[i].spec.services, acc.spec.services, ops, may)}
  <1>2. 0 \in Q
    BY <1>1, LoyalIs DEF HintCourse
  <1>3. ASSUME NEW i \in 1..n, i - 1 \in Q PROVE i \in Q
    <2>. DEFINE old == after[i - 1]
                new == Followed(old.spec, hints[i], parsed)
    <2>1. after[i] = MendedBy(old, hints[i], which, parsed)
      BY <1>0, <1>1 DEF HintCourse
    <2>2. IsSpec(old.spec) /\ Loyal(old.spec.services, acc.spec.services, ops, may)
      BY <1>3
    <2>. HIDE DEF old
    <2>3. CASE Counts(hints[i], which, parsed)
      <3>1. HeardBy(hints[i], ops)
        BY <1>0, <2>3 DEF Counts
      <3>2. IsSpec(new) /\ Loyal(new.services, old.spec.services, ops, may)
        BY <2>2, <3>1, FollowedLoyal
      <3>. HIDE DEF new
      <3>3. after[i].spec = new
        BY <2>1, <2>3 DEF MendedBy, Mended, new
      <3>4. Loyal(new.services, acc.spec.services, ops, may)
        BY <2>2, <3>2, LoyalTwice
      <3>. QED
        BY <3>2, <3>3, <3>4
    <2>4. CASE ~Counts(hints[i], which, parsed)
      BY <2>1, <2>2, <2>4 DEF MendedBy
    <2>. QED
      BY <2>3, <2>4
  <1>. HIDE DEF Q
  <1>4. n \in Q
    BY <1>2, <1>3, AtTheEnd
  <1>. QED
    BY <1>0, <1>1, <1>4 DEF Q, HintCourse

(* Another name for the project, other images of the catalog.              *)
LEMMA NewProjectLoyal ==
  ASSUME NEW acc, IsSpec(acc.spec), NEW sp, IsSpec(sp), NEW told, NEW at, NEW ops, NEW may
  PROVE  LET new == NewProject(acc, sp, told, at).spec
         IN IsSpec(new) /\ Loyal(new.services, acc.spec.services, ops, may)
  <1>. DEFINE P == Append(sp.project, Suffixes[at])
              made == [acc.spec EXCEPT !.project = P]
  <1>1. NewProject(acc, sp, told, at).spec \in {acc.spec, made}
    BY DEF NewProject, Mended
  <1>2. IsProject(P)
    <2>1. IsSeq(sp.project) /\ sp.project # <<>>
      BY DEF IsSpec, IsProject
    <2>. DEFINE p == sp.project
                T == {p[j] : j \in 1..Len(p)} \cup {Suffixes[at]}
    <2>2. p \in Seq(T) /\ Suffixes[at] \in T
      <3>1. p \in Seq({p[j] : j \in 1..Len(p)})
        BY <2>1, IsSeqIs
      <3>. QED
        BY <3>1, SeqDef
    <2>. HIDE DEF T, p
    <2>3. Append(p, Suffixes[at]) \in Seq(T) /\ Append(p, Suffixes[at]) # <<>>
      BY <2>2
    <2>. QED
      BY <2>1, <2>3, SeqIsSeq DEF IsProject, p
  <1>. HIDE DEF P
  <1>3. IsSpec(made) /\ made.services = acc.spec.services
    BY <1>2 DEF IsSpec, IsRecord
  <1>. QED
    BY <1>1, <1>3, LoyalIs

LEMMA NewImagesLoyal ==
  ASSUME NEW acc, IsSpec(acc.spec), NEW missing, \A t \in missing : t.image.family \in DOMAIN Fallbacks,
         NEW ops, missing # {} => "set-service-image" \in ops, NEW may
  PROVE  LET new == NewImages(acc, missing).spec
         IN IsSpec(new) /\ Loyal(new.services, acc.spec.services, ops, may)
  <1>1. CASE missing = {}
    BY <1>1, LoyalIs DEF NewImages
  <1>2. CASE missing # {}
    <2>. DEFINE found(s) == {t \in missing : t.name = s.name}
                image(s) == Fallbacks[(CHOOSE t \in found(s) : TRUE).image.family]
                old == acc.spec
                To(s) == IF found(s) = {} THEN s ELSE RebuiltAnyway(s, image(s))
                S == {To(s) : s \in old.services}
    <2>1. NewImages(acc, missing).spec = [old EXCEPT !.services = S]
      BY <1>2 DEF NewImages, Mended
    <2>2. ASSUME NEW s, found(s) # {} PROVE InCatalog(image(s))
      <3>1. image(s) \in {Fallbacks[f] : f \in DOMAIN Fallbacks}
        BY <2>2
      <3>. QED
        BY <3>1, ReviserAssumption DEF Trusted, InCatalog
    <2>. HIDE DEF found, image
    <2>3. ASSUME NEW s \in old.services
          PROVE  IsService(To(s)) /\ (InCatalog(To(s).image) \/ To(s).image = s.image)
      BY <2>2, RebuiltAnywayIs DEF IsSpec
    <2>. HIDE DEF To
    <2>4. (\A t \in S : IsService(t)) /\ KeepsImages(S, old.services, ops)
      BY <2>3 DEF KeepsImages
    <2>. HIDE DEF S
    <2>5. IsSpec([old EXCEPT !.services = S]) /\ [old EXCEPT !.services = S].services = S
      BY <2>4, ServicesMayBe DEF IsSpec, IsRecord
    <2>. QED
      BY <1>2, <2>1, <2>4, <2>5 DEF Loyal, NamesAsked
  <1>. QED
    BY <1>1, <1>2

LEMMA FallbackLoyal ==
  ASSUME NEW sp, IsSpec(sp), NEW told, Heard(told), NEW at, NEW ops, NEW may,
         MissingImages(sp, told.findings) # {} => "set-service-image" \in ops,
         \A h \in Read(told, Early \cup Late \cup Last) :
           h.op \in ops /\ (h.op = "set-service-image" => "read-image" \in ops)
  PROVE  LET new == Fallback(sp, told, at).spec
         IN IsSpec(new) /\ Loyal(new.services, sp.services, ops, may)
  <1>. DEFINE hints == told.issues
              missing == MissingImages(sp, told.findings)
              start == [spec |-> sp, tried |-> "no", moved |-> "no"]
              called == MendedByAll(start, hints, Early, sp)
              early == NewProject(called, sp, told, at)
              images == NewImages(early, missing)
              late == MendedByAll(images, hints, Late, sp)
              done == MendedByAll(late, hints, Last, sp)
              Good(x) == IsSpec(x) /\ Loyal(x.services, sp.services, ops, may)
  <1>1. Fallback(sp, told, at).spec = done.spec
    BY DEF Fallback
  <1>2. IsSeq(hints) /\ \A i \in DOMAIN hints :
                          hints[i].op \in Early \cup Late \cup Last => HeardBy(hints[i], ops)
    <2>1. ASSUME NEW i \in DOMAIN hints, hints[i].op \in Early \cup Late \cup Last
          PROVE  HeardBy(hints[i], ops)
      <3>1. hints[i] \in Read(told, Early \cup Late \cup Last) /\ IsHint(hints[i])
        BY <2>1 DEF Read, Heard, IsReport
      <3>2. hints[i].op = "set-service-image" => hints[i].arg \in ReadImages
        <4>1. hints[i].op = "set-service-image" => hints[i] \in Read(told, {"set-service-image"})
          BY DEF Read
        <4>. QED
          BY <4>1 DEF Heard, ArgsOf
      <3>. QED
        BY <2>1, <3>1, <3>2 DEF HeardBy
    <2>. QED
      BY <2>1 DEF Heard, IsReport
  <1>3. ASSUME NEW acc, Good(acc.spec), NEW which \in {Early, Late, Last}
        PROVE  Good(MendedByAll(acc, hints, which, sp).spec)
    <2>1. \A i \in DOMAIN hints : hints[i].op \in which => HeardBy(hints[i], ops)
      BY <1>2
    <2>. DEFINE new == MendedByAll(acc, hints, which, sp).spec
    <2>2. IsSpec(new) /\ Loyal(new.services, acc.spec.services, ops, may)
      BY <1>2, <1>3, <2>1, MendedLoyal
    <2>. HIDE DEF new, hints
    <2>. QED
      BY <1>3, <2>2, LoyalTwice DEF new
  <1>4. start.spec = sp /\ Good(sp)
    BY LoyalIs
  <1>. HIDE DEF start
  <1>5. Good(called.spec)
    BY <1>3, <1>4
  <1>. HIDE DEF called
  <1>6. Good(early.spec)
    <2>1. IsSpec(early.spec) /\ Loyal(early.spec.services, called.spec.services, ops, may)
      BY <1>5, NewProjectLoyal
    <2>. HIDE DEF early
    <2>. QED
      BY <1>5, <2>1, LoyalTwice
  <1>. HIDE DEF early
  <1>7. Good(images.spec)
    <2>1. \A t \in missing : t.image.family \in DOMAIN Fallbacks
      BY DEF MissingImages
    <2>2. IsSpec(images.spec) /\ Loyal(images.spec.services, early.spec.services, ops, may)
      <3>. HIDE DEF missing
      <3>. QED
        BY <1>6, <2>1, NewImagesLoyal DEF missing
    <2>. HIDE DEF images
    <2>. QED
      BY <1>6, <2>2, LoyalTwice
  <1>. HIDE DEF images
  <1>8. Good(late.spec)
    BY <1>3, <1>7
  <1>. HIDE DEF late
  <1>9. Good(done.spec)
    BY <1>3, <1>8
  <1>. QED
    BY <1>1, <1>9

(* A revision takes nothing away and brings no image but as its operations *)
(* and the words of the user allow.                                        *)
LEMMA ReviseLoyal ==
  ASSUME NEW sp, IsSpec(sp), NEW words, words.replicas \in Int, NEW told, Heard(told),
         NEW offered, IsPlan(offered), NEW at
  PROVE  LET new == Revise(sp, words, told, offered, at).spec
         IN /\ IsSpec(new)
            /\ Loyal(new.services, sp.services, Operations(sp, words, told, offered),
                     Allows(words, told))
  <1>. DEFINE found == told.findings
              plan == PlanFor(sp, words, found, offered)
              may == Allows(words, told)
              done == Applying(sp, words, told, plan)
              repaired == Fallback(sp, told, at)
              repairs == words.text = "none" /\ (plan.from = "none" \/ plan.patches = <<>>)
              ops == Operations(sp, words, told, offered)
              Fits(x) == IsSpec(x) /\ Loyal(x.services, sp.services, ops, may)
  <1>1. IsPlan(plan)
    BY PlanForIs
  <1>2. Revise(sp, words, told, offered, at) = Weighed(sp, words, told, at, plan)
    BY DEF Revise
  <1>3. /\ \A i \in DOMAIN plan.patches : plan.patches[i].op \in ops
        /\ repairs /\ MissingImages(sp, found) # {} => "set-service-image" \in ops
        /\ repairs => \A h \in Read(told, Early \cup Late \cup Last) :
                        h.op \in ops /\ (h.op = "set-service-image" => "read-image" \in ops)
    BY DEF Operations, OperationsOf
  <1>. HIDE DEF plan, ops, may
  <1>4. Fits(done.spec)
    BY <1>1, <1>3, PatchedLoyal DEF IsPlan, Applying, may
  <1>5. repairs => Fits(repaired.spec)
    BY <1>3, FallbackLoyal
  <1>6. Fits(sp)
    BY LoyalIs
  <1>. HIDE DEF done, repaired
  <1>7. ASSUME NEW x, Fits(x) PROVE Fits(Namespace(x))
    <2>1. Loyal(Namespace(x).services, x.services, ops, may) /\ IsSpec(Namespace(x))
      BY <1>7, NamespaceIs, NamespaceComes, ComingIsLoyal
    <2>. QED
      BY <1>7, <2>1, LoyalTwice
  <1>. HIDE DEF Fits
  <1>8. \A n, d, q : Outcome(n, d, q).spec = n
    BY DEF Outcome
  <1>9. /\ AfterPatches(found, plan, done).spec = Namespace(done.spec)
        /\ AfterRepairs(found, plan, repaired).spec = Namespace(repaired.spec)
    BY <1>8 DEF AfterPatches, AfterRepairs
  <1>10. \/ Weighed(sp, words, told, at, plan).spec \in {Namespace(sp), Namespace(done.spec)}
         \/ repairs /\ Weighed(sp, words, told, at, plan).spec = Namespace(repaired.spec)
    BY <1>8, <1>9 DEF Weighed, done, repaired
  <1>11. Fits(Weighed(sp, words, told, at, plan).spec)
    BY <1>4, <1>5, <1>6, <1>7, <1>10
  <1>. QED
    BY <1>2, <1>11 DEF Fits, ops, may

-----------------------------------------------------------------------------
(* What the dialogue keeps: the specification and the result at hand come  *)
(* from the beginning by the operations so far and what was allowed.       *)
Agreed(sp) == IsSpec(sp) /\ Loyal(sp.services, origin.services, kinds, allowed)
ConsentInv == Agreed(origin) /\ Agreed(spec) /\ Agreed(result.spec) /\ Heard(report)

(* Reports are of their type, and the images read in them are known.       *)
LEMMA ReportsHeard ==
  /\ Heard(NoReport) /\ \A sp : Heard(ConflictReport(sp))
  /\ \A i \in DOMAIN Failures : Heard(Failures[i])
  <1>1. IsSeq(<<>>) /\ DOMAIN <<>> = {}
    <2>1. <<>> \in Seq({})
      BY EmptySeq
    <2>2. IsSeq(<<>>)
      BY <2>1, SeqIsSeq
    <2>. QED
      BY <2>2
  <1>2. ASSUME NEW report0, report0.issues = <<>> PROVE Heard(report0)
    BY <1>1, <1>2 DEF Heard, IsReport, Read, ArgsOf
  <1>3. ASSUME NEW i \in DOMAIN Failures PROVE Heard(Failures[i])
    BY RevisionAssumption DEF Inputs, Heard, ArgsOf, ReadImages
  <1>. QED
    BY <1>2, <1>3 DEF NoReport, ConflictReport

LEMMA AgreedLater ==
  ASSUME UNCHANGED origin, kinds \subseteq kinds', allowed \subseteq allowed', NEW sp, Agreed(sp)
  PROVE  IsSpec(sp) /\ Loyal(sp.services, origin'.services, kinds', allowed')
  <1>1. Loyal(sp.services, sp.services, kinds', allowed')
    BY LoyalIs
  <1>2. Loyal(sp.services, origin.services, kinds \cup kinds', allowed \cup allowed')
    BY <1>1, LoyalAfterLoyal DEF Agreed
  <1>3. kinds \cup kinds' = kinds' /\ allowed \cup allowed' = allowed'
    OBVIOUS
  <1>. QED
    BY <1>2, <1>3 DEF Agreed

(* A call of the planner, in any stage.                                    *)
LEMMA ConsultAgreed ==
  ASSUME mode \in Modes, UNCHANGED <<origin, report>>, ConsentInv, NEW sp \in {origin, spec},
         NEW w, w.replicas \in Int, NEW found, Heard(found), NEW at, Consult(sp, w, found, at),
         spec' \in {spec, result'.spec}
  PROVE  ConsentInv'
  <1>1. PICK k \in DOMAIN Plans[mode] :
          /\ result' = Revise(sp, w, found, Plans[mode][k], at)
          /\ allowed' = allowed \cup Allows(w, found)
          /\ kinds' = kinds \cup Operations(sp, w, found, Plans[mode][k])
    BY DEF Consult
  <1>2. IsPlan(Plans[mode][k])
    BY RevisionAssumption DEF Inputs
  <1>3. Agreed(sp)
    BY DEF ConsentInv
  <1>4. /\ IsSpec(result'.spec)
        /\ Loyal(result'.spec.services, sp.services, Operations(sp, w, found, Plans[mode][k]),
                 Allows(w, found))
    BY <1>1, <1>2, <1>3, ReviseLoyal DEF Agreed
  <1>5. Loyal(result'.spec.services, origin.services, kinds', allowed')
    BY <1>1, <1>3, <1>4, LoyalAfterLoyal DEF Agreed
  <1>6. kinds \subseteq kinds' /\ allowed \subseteq allowed'
    BY <1>1
  <1>7. \A x \in {origin, spec} : IsSpec(x) /\ Loyal(x.services, origin'.services, kinds', allowed')
    BY <1>6, AgreedLater DEF ConsentInv
  <1>8. Heard(report')
    BY DEF ConsentInv
  <1>. QED
    BY <1>4, <1>5, <1>7, <1>8 DEF ConsentInv, Agreed

LEMMA ConsentStarts ==
  ASSUME Init
  PROVE  ConsentInv
  <1>1. IsSpec(origin) /\ spec = origin /\ result.spec = origin /\ report = NoReport
    BY RevisionAssumption DEF Init, Inputs, NoResult
  <1>. QED
    BY <1>1, LoyalIs, ReportsHeard DEF ConsentInv, Agreed

LEMMA ConsentStep ==
  ASSUME ReviewInv, ConsentInv, [Next]_vars
  PROVE  ConsentInv'
  <1>0. /\ mode \in Modes /\ UNCHANGED origin
        /\ \A r \in DOMAIN Requests : Requests[r].replicas \in Int
        /\ Silent.replicas \in Int
    BY RevisionAssumption
       DEF ReviewInv, Inputs, Silent, NoNumber, Next, vars, Adjust, Check, Prepare, Approve, Decline,
           Change, Clarify, GiveUp, Scan, Deployed, Failed, Propose, Yes, No, Other, Resolved, Ask, Finished
  <1>00. Heard(NoReport) /\ Heard(report)
    BY ReportsHeard DEF ConsentInv
  <1>1. ASSUME UNCHANGED <<kinds, allowed, result>>, Agreed(spec'), Heard(report') PROVE ConsentInv'
    BY <1>0, <1>1 DEF ConsentInv, Agreed
  <1>2. ASSUME UNCHANGED <<kinds, allowed, result, spec, report>> PROVE ConsentInv'
    BY <1>00, <1>1, <1>2 DEF ConsentInv
  <1>3. ASSUME NEW sp, sp \in {spec, result.spec}, NEW p, IsProject(p) PROVE Agreed(WithProject(sp, p))
    <2>1. Agreed(sp)
      BY <1>3 DEF ConsentInv
    <2>. QED
      BY <1>3, <2>1 DEF Agreed, WithProject, IsSpec, IsRecord
  <1>4. IsProject(origin.project) /\ IsProject(spec.project)
    BY DEF ConsentInv, Agreed, IsSpec
  <1>5. CASE Adjust
    <2>1. PICK r \in DOMAIN Requests : Consult(origin, Requests[r], NoReport, 0)
      BY <1>5 DEF Adjust
    <2>. QED
      BY <1>0, <1>00, <1>5, <2>1, ConsultAgreed DEF Adjust
  <1>6. CASE Check
    <2>1. spec' \in {spec, WithProject(result.spec, origin.project)} /\ NoConsult /\ UNCHANGED report
      BY <1>6 DEF Check
    <2>. QED
      BY <1>00, <1>1, <1>2, <1>3, <1>4, <2>1 DEF NoConsult
  <1>7. CASE Approve
    <2>1. spec' = Shown(spec) /\ NoConsult /\ UNCHANGED report
      BY <1>7 DEF Approve, ReviewInv
    <2>2. IsSpec(Shown(spec)) /\ Loyal(Shown(spec).services, spec.services, kinds, allowed)
      BY ShownComes, ComingIsLoyal DEF ConsentInv, Agreed
    <2>3. Loyal(Shown(spec).services, origin.services, kinds \cup kinds, allowed \cup allowed)
      BY <2>2, LoyalAfterLoyal DEF ConsentInv, Agreed
    <2>4. kinds \cup kinds = kinds /\ allowed \cup allowed = allowed
      OBVIOUS
    <2>5. Agreed(Shown(spec))
      BY <2>2, <2>3, <2>4 DEF Agreed
    <2>. QED
      BY <1>00, <1>1, <2>1, <2>5 DEF NoConsult
  <1>8. ASSUME NEW last, AfterPreview(last) PROVE spec' \in {spec, result'.spec}
    BY <1>8 DEF AfterPreview
  <1>9. CASE Change
    <2>1. PICK r \in DOMAIN Requests : Consult(spec, Requests[r], NoReport, 0)
      BY <1>9 DEF Change
    <2>2. spec' \in {spec, result'.spec} /\ UNCHANGED report
      BY <1>8, <1>9 DEF Change
    <2>. QED
      BY <1>0, <1>00, <2>1, <2>2, ConsultAgreed
  <1>10. CASE Clarify
    <2>1. PICK w \in Answers : Consult(spec, w, NoReport, 0)
      BY <1>10 DEF Clarify
    <2>2. spec' \in {spec, result'.spec} /\ UNCHANGED report
      BY <1>8, <1>10 DEF Clarify
    <2>. QED
      BY <1>0, <1>00, <2>1, <2>2, AnswersAreWords, ConsultAgreed
  <1>11. CASE Propose
    <2>1. Consult(spec, Silent, report, attempt) /\ spec' = spec /\ UNCHANGED report
      BY <1>11 DEF Propose
    <2>. QED
      BY <1>0, <1>00, <2>1, ConsultAgreed
  <1>12. CASE Yes \/ Resolved
    <2>1. spec' \in {spec, WithProject(result.spec, spec.project)} /\ NoConsult /\ UNCHANGED report
      BY <1>12 DEF Yes, Resolved, Adopt, Adopted
    <2>. QED
      BY <1>00, <1>1, <1>2, <1>3, <1>4, <2>1 DEF NoConsult
  <1>13. CASE Other
    <2>1. spec' = spec /\ UNCHANGED report
      BY <1>13 DEF Other
    <2>2. CASE NoConsult
      BY <1>2, <2>1, <2>2 DEF NoConsult
    <2>3. CASE \E r \in DOMAIN Requests : Consult(spec, Requests[r], report, attempt)
      <3>1. PICK r \in DOMAIN Requests : Consult(spec, Requests[r], report, attempt)
        BY <2>3
      <3>. QED
        BY <1>0, <1>00, <2>1, <3>1, ConsultAgreed
    <2>. QED
      BY <1>13, <2>2, <2>3 DEF Other
  <1>14. CASE Ask
    <2>1. PICK w \in Answers : Consult(spec, w, report, attempt)
      BY <1>14 DEF Ask
    <2>2. spec' = spec /\ UNCHANGED report
      BY <1>14 DEF Ask
    <2>. QED
      BY <1>0, <1>00, <2>1, <2>2, AnswersAreWords, ConsultAgreed
  <1>15. CASE Prepare \/ Decline \/ GiveUp \/ Deployed \/ No \/ UNCHANGED vars
    BY <1>2, <1>15 DEF Prepare, Decline, GiveUp, Deployed, No, NoConsult, vars
  <1>16. CASE Scan \/ Failed
    <2>1. /\ UNCHANGED <<kinds, allowed, result, spec>>
          /\ \/ UNCHANGED report \/ report' = ConflictReport(spec)
             \/ \E i \in DOMAIN Failures : report' = Failures[i]
      BY <1>16 DEF Scan, Failed, Report, NoConsult
    <2>2. Heard(report') /\ Agreed(spec)
      BY <1>00, <2>1, ReportsHeard DEF ConsentInv
    <2>. QED
      BY <1>1, <2>1, <2>2
  <1>. QED
    BY <1>5, <1>6, <1>7, <1>9, <1>10, <1>11, <1>12, <1>13, <1>14, <1>15, <1>16 DEF Next, Finished

LEMMA ConsentKept == Spec => [](ReviewInv /\ ConsentInv)
  <1>1. Init => ReviewInv /\ ConsentInv
    BY ReviewStarts, ConsentStarts
  <1>2. (ReviewInv /\ ConsentInv) /\ [Next]_vars => (ReviewInv /\ ConsentInv)'
    BY ReviewStep, ConsentStep
  <1>. QED
    BY <1>1, <1>2, PTL DEF Spec

(* No revision, question or repair brings an image that is not in the      *)
(* catalog, unless a plan adds its service, the user allows the image, or  *)
(* the repairs read it in the text of a failure.                           *)
THEOREM ImagesAllowed == Spec => []ImagesNeedConsent
  <1>1. ConsentInv => ImagesNeedConsent
    <2>. SUFFICES ASSUME ConsentInv, NoConsentToImages PROVE KnownImages(spec)
      BY DEF ImagesNeedConsent
    <2>1. ImagesAsked(kinds, allowed)
      BY DEF NoConsentToImages, ImagesAsked
    <2>. QED
      BY <2>1 DEF ConsentInv, Agreed, Loyal, KeepsImages, KnownImages
  <1>. QED
    BY <1>1, ConsentKept, PTL

(* Where no service but a database is called like a replica.               *)
LEMMA OriginIsPlain ==
  ASSUME PlainNames
  PROVE  /\ Init => \A s \in Others(origin) : ~Numbered(s.name)
         /\ [Next]_vars => UNCHANGED origin
  <1>1. Init => \A s \in Others(origin) : ~Numbered(s.name)
    BY DEF Init, PlainNames
  <1>2. [Next]_vars => UNCHANGED origin
    BY DEF Next, vars, Adjust, Check, Prepare, Approve, Decline, Change, Clarify, GiveUp, Scan,
           Deployed, Failed, Propose, Yes, No, Other, Resolved, Ask, Finished
  <1>. QED
    BY <1>1, <1>2

(* No service that is no database goes unless the user, or the text of an  *)
(* issue, allows removals.                                                 *)
THEOREM RemovalsAllowed == ASSUME PlainNames PROVE Spec => []RemovalNeedsConsent
  <1>. DEFINE Plain == \A s \in Others(origin) : ~Numbered(s.name)
  <1>1. Init => Plain
    BY OriginIsPlain
  <1>2. Plain /\ [Next]_vars => Plain'
    BY OriginIsPlain DEF Others
  <1>3. ReviewInv /\ ConsentInv /\ Plain => RemovalNeedsConsent
    <2>. SUFFICES ASSUME ReviewInv, ConsentInv, Plain, NoConsentToRemove, NEW s \in Others(origin)
                  PROVE  s.name \in NamesOf(Others(spec))
      BY DEF RemovalNeedsConsent, StillThere, NamesOf
    <2>1. NamesAsked(kinds, allowed)
      BY DEF NoConsentToRemove, NamesAsked
    <2>2. Holds(origin.services, s.name)
      BY DEF Holds, Others, Databases, ReviewInv, Valid
    <2>3. Holds(spec.services, s.name)
      BY <2>1, <2>2 DEF ConsentInv, Agreed, Loyal, KeepsNames
    <2>. QED
      BY <2>3 DEF Holds, Others, Databases, NamesOf
  <1>. HIDE DEF Plain
  <1>. QED
    BY <1>1, <1>2, <1>3, ConsentKept, PTL DEF Spec

(* Where no other service is called like a replica, services go and images *)
(* come only as the user allows, but for images read in texts.             *)
THEOREM RiskAllowed == ASSUME PlainNames PROVE Spec => []RiskNeedsConsent
  BY RemovalsAllowed, ImagesAllowed, PTL DEF RiskNeedsConsent

-----------------------------------------------------------------------------
(* What keeps groups whole, when only numbers of replicas are changed: a   *)
(* group has one service under its name, or replicas 1..n; whoever depends *)
(* on one of them from outside depends on all; nothing else is called so.  *)

(* A name without a number and the names behind it.                        *)
LEMMA NumberBehind ==
  ASSUME NEW n, IsName(n), ~Numbered(n), NEW i \in Nat
  PROVE  /\ Logical(n) = n /\ Numbered(Append(n, i)) /\ Len(Append(n, i)) = 2
         /\ BaseOf(Append(n, i)) = n /\ Ordinal(Append(n, i)) = i /\ Logical(Append(n, i)) = n
         /\ Append(n, i) # n
  <1>. DEFINE S == {n[j] : j \in 1..Len(n)} \cup {i}
              m == Append(n, i)
  <1>1. n \in Seq(S) /\ n # <<>>
    <2>1. n \in Seq({n[j] : j \in 1..Len(n)})
      BY IsSeqIs DEF IsName
    <2>. QED
      BY <2>1, SeqDef DEF IsName
  <1>2. i \in S
    OBVIOUS
  <1>. HIDE DEF S
  <1>3. Len(n) = 1
    <2>1. PICK k \in Nat : k = Len(n) /\ k # 0
      BY <1>1, EmptySeq
    <2>2. ~(k > 1)
      BY <2>1 DEF Numbered
    <2>. QED
      BY <2>1, <2>2
  <1>4. m \in Seq(S) /\ Len(m) = 2 /\ m[2] = i /\ m[1] = n[1]
    BY <1>1, <1>2, <1>3
  <1>5. SubSeq(m, 1, 1) \in Seq(S) /\ Len(SubSeq(m, 1, 1)) = 1 /\ SubSeq(m, 1, 1)[1] = n[1]
    BY <1>4
  <1>6. SubSeq(m, 1, 1) = n
    <2>. DEFINE x == SubSeq(m, 1, 1)
    <2>. HIDE DEF x
    <2>1. x \in Seq(S) /\ Len(x) = Len(n) /\ \A j \in 1..Len(x) : x[j] = n[j]
      BY <1>3, <1>5 DEF x
    <2>2. x = n
      BY <1>1, <2>1, SeqEqual
    <2>. QED
      BY <2>2 DEF x
  <1>. HIDE DEF m
  <1>7. BaseOf(m) = n
    BY <1>4, <1>6 DEF BaseOf, SeqX!Front
  <1>8. Numbered(m) /\ Ordinal(m) = i /\ m # n
    <2>1. Numbered(m)
      BY <1>4 DEF Numbered
    <2>2. Ordinal(m) = i
      BY <1>4 DEF Ordinal
    <2>3. m # n
      BY <1>3, <1>4
    <2>. QED
      BY <2>1, <2>2, <2>3
  <1>9. Logical(n) = n
    BY DEF Logical
  <1>. QED
    BY <1>4, <1>7, <1>8, <1>9 DEF m, Logical

LEMMA NumberOf ==
  ASSUME NEW n, IsName(n), Len(n) = 2
  PROVE  /\ Numbered(n) /\ n = Append(BaseOf(n), Ordinal(n)) /\ Logical(n) = BaseOf(n)
         /\ Ordinal(n) \in Nat /\ IsName(BaseOf(n)) /\ ~Numbered(BaseOf(n))
  <1>. DEFINE S == {n[j] : j \in 1..Len(n)}
              b == SubSeq(n, 1, 1)
  <1>1. n \in Seq(S)
    BY IsSeqIs DEF IsName
  <1>2. n[2] \in S
    OBVIOUS
  <1>. HIDE DEF S
  <1>3. BaseOf(n) = b /\ Ordinal(n) = n[2] /\ Numbered(n)
    BY DEF BaseOf, SeqX!Front, Ordinal, Numbered
  <1>4. b \in Seq(S) /\ Len(b) = 1 /\ b[1] = n[1]
    <2>1. n[1] \in S
      BY <1>1
    <2>2. /\ \A j \in 1..1 : n[j] \in S /\ 1 \in Int
          /\ \A j \in 1..(1 - 1 + 1) : j = 1
          /\ 1 \in 1..(1 - 1 + 1) /\ 1 - 1 + 1 = 1 /\ 1 + 1 - 1 = 1 /\ 1 <= 1
      BY <2>1
    <2>3. /\ b \in Seq(S) /\ Len(b) = IF 1 <= 1 THEN 1 - 1 + 1 ELSE 0
          /\ \A j \in 1..(1 - 1 + 1) : b[j] = n[1 + j - 1]
      BY <2>2, SubSeqProperties
    <2>. HIDE DEF b
    <2>4. Len(b) = 1 /\ 1 \in 1..(1 - 1 + 1) /\ n[1 + 1 - 1] = n[1]
      BY <2>3
    <2>. QED
      BY <2>3, <2>4
  <1>. HIDE DEF b
  <1>5. Append(b, n[2]) = n
    <2>. DEFINE x == Append(b, n[2])
    <2>0. /\ x \in Seq(S) /\ Len(x) = Len(b) + 1 /\ x[Len(b) + 1] = n[2]
          /\ \A j \in 1..Len(b) : x[j] = b[j]
      BY <1>2, <1>4, AppendProperties
    <2>. HIDE DEF x
    <2>1. x \in Seq(S) /\ Len(x) = 2 /\ x[1] = n[1] /\ x[2] = n[2]
      BY <1>4, <2>0
    <2>2. \A j \in 1..Len(x) : x[j] = n[j]
      BY <2>1
    <2>3. x = n
      BY <1>1, <2>1, <2>2, SeqEqual
    <2>. QED
      BY <2>3 DEF x
  <1>6. ~Numbered(b)
    BY <1>4 DEF Numbered
  <1>. QED
    BY <1>3, <1>5, <1>6, BaseIs DEF Logical

(* Services whose groups are whole.                                        *)
Once(S) == \A s, t \in S : s.name = t.name => s = t
NumberedWell(S) ==
  \A s \in S : Numbered(s.name) => s.kind = "database" /\ Len(s.name) = 2 /\ ~Replicated(s)
Counted(S) ==
  \A s \in S : \E n \in Nat : /\ \A i \in Nat : Append(Logical(s.name), i) \in NamesOf(S) <=> i \in 1..n
                              /\ Numbered(s.name) <=> n > 0
InOwnGroup(s, d) == s.kind = "database" /\ \E i \in Nat : d = Append(Logical(s.name), i)
Closed(S) == \A s \in S : \A d \in s.deps : d \in NamesOf(S) \/ InOwnGroup(s, d)
OnAll(S) ==
  \A s, t, u \in S :
    Logical(t.name) = Logical(u.name) /\ Logical(s.name) # Logical(t.name) /\ t.name \in s.deps
      => u.name \in s.deps
Whole(S) == IsFiniteSet(S) /\ Once(S) /\ NumberedWell(S) /\ Counted(S) /\ Closed(S) /\ OnAll(S)
AreServices(S) == \A s \in S : IsService(s)

LEMMA MappedIsFinite ==
  ASSUME NEW S, IsFiniteSet(S), NEW T, NEW f, \A t \in T : \E s \in S : t = f[s]
  PROVE  IsFiniteSet(T)
  <1>. DEFINE R == {s \in S : f[s] \in T}
              h == [s \in R |-> f[s]]
  <1>1. IsFiniteSet(R)
    BY FS_Subset
  <1>2. h \in Surjection(R, T)
    <2>1. h \in [R -> T]
      OBVIOUS
    <2>2. \A t \in T : \E s \in R : h[s] = t
      OBVIOUS
    <2>. QED
      BY <2>1, <2>2 DEF Surjection
  <1>. HIDE DEF R, h
  <1>. QED
    BY <1>1, <1>2, FS_Surjection

(* A name of such a service is its group's, or that with a number.         *)
LEMMA WholeName ==
  ASSUME NEW S, AreServices(S), NumberedWell(S), NEW s \in S
  PROVE  /\ IsName(s.name) /\ IsName(Logical(s.name)) /\ ~Numbered(Logical(s.name))
         /\ Numbered(s.name) =>
              /\ s.name = Append(Logical(s.name), Ordinal(s.name)) /\ Ordinal(s.name) \in Nat
              /\ Logical(s.name) = BaseOf(s.name)
         /\ ~Numbered(s.name) => Logical(s.name) = s.name
  <1>1. IsName(s.name)
    BY DEF AreServices, IsService
  <1>2. CASE Numbered(s.name)
    BY <1>1, <1>2, NumberOf DEF NumberedWell
  <1>3. CASE ~Numbered(s.name)
    BY <1>1, <1>3 DEF Logical
  <1>. QED
    BY <1>1, <1>2, <1>3

(* Who is called like another up to the number: itself, or a replica.      *)
LEMMA SameLogical ==
  ASSUME NEW S, AreServices(S), Once(S), NumberedWell(S), Counted(S),
         NEW s \in S, NEW t \in S, Logical(s.name) = Logical(t.name)
  PROVE  s = t \/ (Numbered(s.name) /\ Numbered(t.name))
  <1>1. CASE ~Numbered(s.name) /\ ~Numbered(t.name)
    BY <1>1, WholeName DEF Once
  <1>2. ASSUME NEW u \in S, NEW v \in S, Logical(u.name) = Logical(v.name),
               Numbered(u.name), ~Numbered(v.name)
        PROVE  FALSE
    <2>1. PICK n \in Nat : /\ \A i \in Nat : Append(Logical(v.name), i) \in NamesOf(S) <=> i \in 1..n
                           /\ Numbered(v.name) <=> n > 0
      BY DEF Counted
    <2>2. u.name = Append(Logical(v.name), Ordinal(u.name)) /\ Ordinal(u.name) \in Nat
      BY <1>2, WholeName
    <2>3. Ordinal(u.name) \in 1..n
      BY <2>1, <2>2 DEF NamesOf
    <2>. QED
      BY <1>2, <2>1, <2>3
  <1>. QED
    BY <1>1, <1>2

-----------------------------------------------------------------------------
(* A specification with whole groups, expanded.                            *)

(* What the services of an expansion are made of.                          *)
PartsIn(S, d) ==
  LET owners == Named(S, {d}) IN IF owners = {} THEN {d} ELSE Parts(CHOOSE s \in owners : TRUE)
Spread(S, s) == [s EXCEPT !.deps = UNION {PartsIn(S, d) : d \in @}]

LEMMA ExpandedServices ==
  ASSUME NEW sp, IsSpec(sp)
  PROVE  Expand(sp).services = {Spread(sp.services, m) : m \in UNION {Made(s) : s \in sp.services}}
  <1>. DEFINE T == {Spread(sp.services, m) : m \in UNION {Made(s) : s \in sp.services}}
  <1>1. \E V : Expand(sp) = [sp EXCEPT !.services = T, !.volumes = V]
    BY DEF Expand, Made, Spread, PartsIn
  <1>. HIDE DEF T
  <1>. QED
    BY <1>1 DEF IsSpec, IsRecord, T

LEMMA PartsInIs ==
  ASSUME NEW S, Once(S)
  PROVE  /\ \A s \in S : PartsIn(S, s.name) = Parts(s)
         /\ \A d : d \notin NamesOf(S) => PartsIn(S, d) = {d}
  <1>1. ASSUME NEW s \in S PROVE Named(S, {s.name}) = {s}
    BY DEF Named, Once
  <1>2. ASSUME NEW d, d \notin NamesOf(S) PROVE Named(S, {d}) = {}
    BY <1>2 DEF Named, NamesOf
  <1>. QED
    BY <1>1, <1>2 DEF PartsIn

LEMMA MadeAre ==
  ASSUME NEW s, IsService(s), Replicated(s) => ~Numbered(s.name)
  PROVE  /\ \A m \in Made(s) : /\ IsService(m) /\ m.name \in Parts(s) /\ ~Replicated(m)
                               /\ m.kind = s.kind /\ (~Replicated(s) => m = s)
                               /\ s.deps \subseteq m.deps
                               /\ m.deps \subseteq s.deps \cup {d \in {Append(s.name, 1)} : Replicated(s)}
         /\ \A m, o \in Made(s) : m.name = o.name => m = o
         /\ \A n \in Parts(s) : \E m \in Made(s) : m.name = n
  <1>1. CASE ~Replicated(s)
    BY <1>1 DEF Made, Parts
  <1>2. CASE Replicated(s)
    <2>1. s.replicas \in Nat /\ IsName(s.name) /\ s.kind = "database" /\ ~Numbered(s.name)
      BY <1>2 DEF IsService, Replicated
    <2>2. Made(s) = {Part(s, i) : i \in 1..s.replicas} /\ Parts(s) = {Append(s.name, i) : i \in 1..s.replicas}
      BY <1>2 DEF Made, Parts
    <2>3. ASSUME NEW i \in 1..s.replicas
          PROVE  /\ Part(s, i).name = Append(s.name, i) /\ IsService(Part(s, i)) /\ ~Replicated(Part(s, i))
                 /\ Part(s, i).kind = s.kind
                 /\ Part(s, i).deps = IF i = 1 THEN s.deps ELSE s.deps \cup {Append(s.name, 1)}
      <3>1. i \in Nat
        BY <2>1
      <3>2. IsService(Part(s, i)) /\ ~Replicated(Part(s, i)) /\ Part(s, i).kind = s.kind
        BY <2>1, <3>1, PartIs DEF Replicated
      <3>. DEFINE D == IF i = 1 THEN s.deps ELSE s.deps \cup {Append(s.name, 1)}
                  M == (s.mounts \ DataMounts(s)) \cup {[from |-> PartVolume(s, i), at |-> DataTarget(s)]}
                  name == Append(s.name, i)
      <3>3. Part(s, i) = [s EXCEPT !.name = name, !.replicas = 0, !.deps = D, !.mounts = M]
        BY DEF Part
      <3>. HIDE DEF D, M, name
      <3>4. Part(s, i).name = name /\ Part(s, i).deps = D
        BY <3>3 DEF IsService, IsRecord
      <3>. QED
        BY <3>2, <3>4 DEF D, name
    <2>4. \A i, j \in 1..s.replicas : Append(s.name, i) = Append(s.name, j) => i = j
      BY <2>1, NumberBehind
    <2>5. ASSUME NEW m \in Made(s)
          PROVE  /\ IsService(m) /\ m.name \in Parts(s) /\ ~Replicated(m)
                 /\ m.kind = s.kind /\ s.deps \subseteq m.deps
                 /\ m.deps \subseteq s.deps \cup {Append(s.name, 1)}
      <3>1. PICK i \in 1..s.replicas : m = Part(s, i)
        BY <2>2
      <3>. QED
        BY <2>2, <2>3, <3>1
    <2>6. ASSUME NEW m \in Made(s), NEW o \in Made(s), m.name = o.name PROVE m = o
      <3>1. PICK i \in 1..s.replicas, j \in 1..s.replicas : m = Part(s, i) /\ o = Part(s, j)
        BY <2>2
      <3>. QED
        BY <2>3, <2>4, <2>6, <3>1
    <2>7. ASSUME NEW n \in Parts(s) PROVE \E m \in Made(s) : m.name = n
      BY <2>2, <2>3
    <2>. QED
      BY <1>2, <2>5, <2>6, <2>7
  <1>. QED
    BY <1>1, <1>2

(* How a service of an expansion comes from one before.                    *)
Splits(S, x, s) ==
  \E m \in Made(s) : x = Spread(S, m)

LEMMA SpreadIs ==
  ASSUME NEW S, AreServices(S), Once(S), NumberedWell(S), NEW s \in S, NEW x, Splits(S, x, s)
  PROVE  /\ IsService(x) /\ x.name \in Parts(s) /\ x.kind = s.kind /\ ~Replicated(x)
         /\ Logical(x.name) = Logical(s.name) /\ (~Replicated(s) => x.name = s.name)
         /\ Replicated(s) => /\ ~Numbered(s.name)
                             /\ \E i \in 1..s.replicas : x.name = Append(s.name, i)
                             /\ Numbered(x.name) /\ Len(x.name) = 2
         /\ \A d \in s.deps : PartsIn(S, d) \subseteq x.deps
         /\ \A d \in x.deps : \/ \E c \in s.deps : d \in PartsIn(S, c)
                              \/ Replicated(s) /\ d \in PartsIn(S, Append(s.name, 1))
  <1>1. IsService(s) /\ (Replicated(s) => ~Numbered(s.name)) /\ IsName(s.name) /\ s.replicas \in Nat
    BY DEF AreServices, NumberedWell, IsService
  <1>2. PICK m \in Made(s) : x = Spread(S, m)
    BY DEF Splits
  <1>3. /\ IsService(m) /\ m.name \in Parts(s) /\ ~Replicated(m)
        /\ m.kind = s.kind /\ s.deps \subseteq m.deps /\ (~Replicated(s) => m = s)
        /\ m.deps \subseteq s.deps \cup {d \in {Append(s.name, 1)} : Replicated(s)}
    BY <1>1, <1>2, MadeAre
  <1>. DEFINE D == UNION {PartsIn(S, d) : d \in m.deps}
  <1>4. x = [m EXCEPT !.deps = D]
    BY <1>2 DEF Spread
  <1>5. /\ IsService(x) /\ x.name = m.name /\ x.kind = m.kind /\ Replicated(x) = Replicated(m)
        /\ x.deps = D
    <2>. HIDE DEF D
    <2>. QED
      BY <1>3, <1>4, DepsMayBe
  <1>6. Replicated(s) => /\ \E i \in 1..s.replicas : x.name = Append(s.name, i)
                         /\ Numbered(x.name) /\ Len(x.name) = 2 /\ Logical(x.name) = Logical(s.name)
    <2>. SUFFICES ASSUME Replicated(s)
                  PROVE  /\ \E i \in 1..s.replicas : x.name = Append(s.name, i)
                         /\ Numbered(x.name) /\ Len(x.name) = 2 /\ Logical(x.name) = Logical(s.name)
      OBVIOUS
    <2>1. PICK i \in 1..s.replicas : x.name = Append(s.name, i)
      BY <1>3, <1>5 DEF Parts
    <2>. QED
      BY <1>1, <2>1, NumberBehind
  <1>7. ~Replicated(s) => x.name = s.name
    BY <1>3, <1>5
  <1>8. \A d \in s.deps : PartsIn(S, d) \subseteq D
    BY <1>3
  <1>9. ASSUME NEW d \in D
        PROVE  \/ \E c \in s.deps : d \in PartsIn(S, c)
               \/ Replicated(s) /\ d \in PartsIn(S, Append(s.name, 1))
    <2>1. PICK c \in m.deps : d \in PartsIn(S, c)
      OBVIOUS
    <2>2. c \in s.deps \/ (c = Append(s.name, 1) /\ Replicated(s))
      BY <1>3
    <2>. QED
      BY <2>1, <2>2
  <1>. HIDE DEF D
  <1>. QED
    BY <1>1, <1>3, <1>5, <1>6, <1>7, <1>8, <1>9

(* The services of an expansion, by the services they come from.           *)
LEMMA Splitting ==
  ASSUME NEW sp, IsSpec(sp), Whole(sp.services), NEW S, S = sp.services, NEW T, T = Expand(sp).services
  PROVE  /\ \A x \in T : \E s \in S : Splits(S, x, s)
         /\ \A s \in S : \A n \in Parts(s) : \E x \in T : x.name = n
         /\ \A x, y \in T : \A s \in S : Splits(S, x, s) /\ Splits(S, y, s) /\ x.name = y.name => x = y
  <1>1. T = {Spread(S, m) : m \in UNION {Made(s) : s \in S}}
    BY ExpandedServices
  <1>2. ASSUME NEW s \in S
        PROVE  IsService(s) /\ (Replicated(s) => ~Numbered(s.name))
    BY DEF IsSpec, Whole, NumberedWell
  <1>3. ASSUME NEW s \in S, NEW m \in Made(s) PROVE Spread(S, m).name = m.name
    <2>1. IsService(m)
      BY <1>2, MadeAre
    <2>. DEFINE D == UNION {PartsIn(S, d) : d \in m.deps}
    <2>2. Spread(S, m) = [m EXCEPT !.deps = D]
      BY DEF Spread
    <2>. HIDE DEF D
    <2>. QED
      BY <2>1, <2>2, DepsMayBe
  <1>4. ASSUME NEW x \in T PROVE \E s \in S : Splits(S, x, s)
    BY <1>1 DEF Splits
  <1>5. ASSUME NEW s \in S, NEW n \in Parts(s) PROVE \E x \in T : x.name = n
    <2>1. PICK m \in Made(s) : m.name = n
      BY <1>2, MadeAre
    <2>2. Spread(S, m) \in T
      BY <1>1
    <2>. QED
      BY <1>3, <2>1, <2>2
  <1>6. ASSUME NEW x \in T, NEW y \in T, NEW s \in S, Splits(S, x, s), Splits(S, y, s), x.name = y.name
        PROVE  x = y
    <2>1. PICK m \in Made(s), o \in Made(s) : x = Spread(S, m) /\ y = Spread(S, o)
      BY <1>6 DEF Splits
    <2>2. m.name = o.name
      BY <1>3, <1>6, <2>1
    <2>3. m = o
      BY <1>2, <2>2, MadeAre
    <2>. QED
      BY <2>1, <2>3
  <1>. QED
    BY <1>4, <1>5, <1>6

(* No more services than can be counted come of it.                        *)
LEMMA ExpandsFinite ==
  ASSUME NEW sp, IsSpec(sp), IsFiniteSet(sp.services)
  PROVE  IsFiniteSet(Expand(sp).services)
  <1>. DEFINE S == sp.services
              M == {Made(s) : s \in S}
              U == UNION M
              made == [s \in S |-> Made(s)]
              spread == [m \in U |-> Spread(S, m)]
  <1>1. ASSUME NEW s \in S PROVE IsFiniteSet(Made(s))
    <2>1. s.replicas \in Int
      BY DEF IsSpec, IsService
    <2>. DEFINE I == 1..s.replicas
                part == [i \in I |-> Part(s, i)]
    <2>2. IsFiniteSet(I)
      <3>1. \A k \in Int : IsFiniteSet(1..k)
        BY FS_Interval
      <3>. QED
        BY <2>1, <3>1
    <2>3. CASE Replicated(s)
      <3>1. \A m \in Made(s) : \E i \in I : m = part[i]
        BY <2>3 DEF Made
      <3>. HIDE DEF part, I
      <3>. QED
        BY <2>2, <3>1, MappedIsFinite
    <2>4. CASE ~Replicated(s)
      BY <2>4, FS_Singleton DEF Made
    <2>. QED
      BY <2>3, <2>4
  <1>2. IsFiniteSet(M)
    <2>1. \A t \in M : \E s \in S : t = made[s]
      OBVIOUS
    <2>. HIDE DEF M, made
    <2>. QED
      BY <2>1, MappedIsFinite
  <1>3. IsFiniteSet(U)
    <2>1. \A t \in M : IsFiniteSet(t)
      BY <1>1
    <2>. HIDE DEF M
    <2>. QED
      BY <1>2, <2>1, FS_UNION
  <1>4. \A t \in Expand(sp).services : \E m \in U : t = spread[m]
    <2>1. Expand(sp).services = {Spread(S, m) : m \in U}
      BY ExpandedServices
    <2>. HIDE DEF U
    <2>. QED
      BY <2>1
  <1>. HIDE DEF U, spread
  <1>. QED
    BY <1>3, <1>4, MappedIsFinite

(* Groups stay whole as their databases become replicas.                   *)
LEMMA WholeExpands ==
  ASSUME NEW sp, IsSpec(sp), Whole(sp.services)
  PROVE  Whole(Expand(sp).services)
  <1>. DEFINE S == sp.services
              T == Expand(sp).services
  <1>0. /\ AreServices(S) /\ AreServices(T)
        /\ Once(S) /\ NumberedWell(S) /\ Counted(S) /\ Closed(S) /\ OnAll(S)
    BY ExpandIs DEF Whole, AreServices, IsSpec
  <1>1. /\ \A x \in T : \E s \in S : Splits(S, x, s)
        /\ \A s \in S : \A n \in Parts(s) : \E x \in T : x.name = n
        /\ \A x, y \in T : \A s \in S : Splits(S, x, s) /\ Splits(S, y, s) /\ x.name = y.name => x = y
    BY Splitting
  <1>2. ASSUME NEW s \in S, NEW x, Splits(S, x, s)
        PROVE  /\ x.name \in Parts(s) /\ x.kind = s.kind /\ ~Replicated(x)
               /\ Logical(x.name) = Logical(s.name) /\ (~Replicated(s) => x.name = s.name)
               /\ Replicated(s) => /\ ~Numbered(s.name) /\ s.kind = "database"
                                   /\ \E i \in 1..s.replicas : x.name = Append(s.name, i)
                                   /\ Numbered(x.name) /\ Len(x.name) = 2
    BY <1>0, <1>2, SpreadIs DEF Replicated
  <1>3. \A s, t \in S : Logical(s.name) = Logical(t.name) => s = t \/ (Numbered(s.name) /\ Numbered(t.name))
    BY <1>0, SameLogical
  <1>4. \A s \in S : Numbered(s.name) => ~Replicated(s)
    BY <1>0 DEF NumberedWell
  <1>5. \A s \in S : PartsIn(S, s.name) = Parts(s)
    BY <1>0, PartsInIs
  <1>6. \A d : d \notin NamesOf(S) => PartsIn(S, d) = {d}
    BY <1>0, PartsInIs
  <1>7. ASSUME NEW s \in S PROVE \A n \in Parts(s) : n \in NamesOf(T)
    BY <1>1 DEF NamesOf
  <1>. HIDE DEF T, S
  <1>8. Once(T)
    <2>. SUFFICES ASSUME NEW x \in T, NEW y \in T, x.name = y.name PROVE x = y
      BY DEF Once
    <2>1. PICK s \in S, t \in S : Splits(S, x, s) /\ Splits(S, y, t)
      BY <1>1
    <2>2. Logical(s.name) = Logical(t.name)
      BY <1>2, <2>1
    <2>3. s = t
      <3>1. CASE Numbered(s.name) /\ Numbered(t.name)
        BY <1>0, <1>2, <1>4, <2>1, <3>1 DEF Once
      <3>. QED
        BY <1>3, <2>2, <3>1
    <2>. QED
      BY <1>1, <2>1, <2>3
  <1>9. NumberedWell(T)
    <2>. SUFFICES ASSUME NEW x \in T, Numbered(x.name)
                  PROVE  x.kind = "database" /\ Len(x.name) = 2 /\ ~Replicated(x)
      BY DEF NumberedWell
    <2>1. PICK s \in S : Splits(S, x, s)
      BY <1>1
    <2>2. CASE Replicated(s)
      BY <1>2, <2>1, <2>2
    <2>3. CASE ~Replicated(s)
      BY <1>0, <1>2, <2>1, <2>3 DEF NumberedWell
    <2>. QED
      BY <2>2, <2>3
  <1>10. Counted(T)
    <2>. SUFFICES ASSUME NEW x \in T
                  PROVE  \E n \in Nat : /\ \A i \in Nat : Append(Logical(x.name), i) \in NamesOf(T) <=> i \in 1..n
                                        /\ Numbered(x.name) <=> n > 0
      BY DEF Counted
    <2>1. PICK s \in S : Splits(S, x, s)
      BY <1>1
    <2>. DEFINE b == Logical(s.name)
    <2>2. Logical(x.name) = b /\ IsName(b) /\ ~Numbered(b) /\ (~Numbered(s.name) => b = s.name)
      BY <1>0, <1>2, <2>1, WholeName
    <2>3. ASSUME NEW i \in Nat, Append(b, i) \in NamesOf(T)
          PROVE  \E t \in S : Logical(t.name) = b /\ Append(b, i) \in Parts(t)
      <3>1. PICK y \in T : y.name = Append(b, i)
        BY <2>3 DEF NamesOf
      <3>2. PICK t \in S : Splits(S, y, t)
        BY <1>1
      <3>3. Logical(y.name) = b
        BY <2>2, <3>1, NumberBehind
      <3>. QED
        BY <1>2, <3>1, <3>2, <3>3
    <2>4. CASE Replicated(s)
      <3>1. s.replicas \in Nat /\ s.replicas > 1 /\ b = s.name
        BY <1>0, <1>2, <2>1, <2>2, <2>4 DEF AreServices, IsService, Replicated
      <3>2. ASSUME NEW i \in Nat, Append(b, i) \in NamesOf(T) PROVE i \in 1..s.replicas
        <4>1. PICK t \in S : Logical(t.name) = b /\ Append(b, i) \in Parts(t)
          BY <2>3, <3>2
        <4>2. t = s
          BY <1>2, <1>3, <2>1, <2>4, <4>1
        <4>3. PICK j \in 1..s.replicas : Append(b, i) = Append(b, j)
          BY <2>4, <3>1, <4>1, <4>2 DEF Parts
        <4>4. j \in Nat
          BY <3>1
        <4>5. i = j
          BY <2>2, <4>3, <4>4, NumberBehind
        <4>. QED
          BY <4>5
      <3>3. ASSUME NEW i \in 1..s.replicas PROVE Append(b, i) \in NamesOf(T)
        BY <1>7, <2>4, <3>1 DEF Parts
      <3>4. Numbered(x.name)
        BY <1>2, <2>1, <2>4
      <3>. QED
        BY <2>2, <3>1, <3>2, <3>3, <3>4
    <2>5. CASE ~Replicated(s)
      <3>1. PICK n \in Nat : /\ \A i \in Nat : Append(b, i) \in NamesOf(S) <=> i \in 1..n
                             /\ Numbered(s.name) <=> n > 0
        BY <1>0 DEF Counted
      <3>2. ASSUME NEW i \in Nat, Append(b, i) \in NamesOf(T) PROVE i \in 1..n
        <4>1. PICK t \in S : Logical(t.name) = b /\ Append(b, i) \in Parts(t)
          BY <2>3, <3>2
        <4>2. ~Replicated(t)
          BY <1>3, <1>4, <2>5, <4>1
        <4>3. Append(b, i) = t.name
          BY <4>1, <4>2 DEF Parts
        <4>. QED
          BY <3>1, <4>3 DEF NamesOf
      <3>3. ASSUME NEW i \in 1..n PROVE Append(b, i) \in NamesOf(T)
        <4>1. i \in Nat
          OBVIOUS
        <4>2. PICK t \in S : t.name = Append(b, i)
          BY <3>1, <4>1 DEF NamesOf
        <4>3. ~Replicated(t)
          BY <1>4, <2>2, <4>1, <4>2, NumberBehind
        <4>4. Append(b, i) \in Parts(t)
          BY <4>2, <4>3 DEF Parts
        <4>. QED
          BY <1>7, <4>4
      <3>4. x.name = s.name
        BY <1>2, <2>1, <2>5
      <3>. QED
        BY <2>2, <3>1, <3>2, <3>3, <3>4
    <2>. QED
      BY <2>4, <2>5
  <1>11. ASSUME NEW s \in S, Replicated(s), NEW d, d \in PartsIn(S, Append(s.name, 1))
         PROVE  d = Append(s.name, 1) /\ s.kind = "database" /\ Logical(s.name) = s.name
    <2>1. IsName(s.name) /\ ~Numbered(s.name) /\ Logical(s.name) = s.name /\ s.kind = "database"
      BY <1>0, <1>4, <1>11, WholeName DEF Replicated
    <2>2. PICK n \in Nat : /\ \A i \in Nat : Append(s.name, i) \in NamesOf(S) <=> i \in 1..n
                           /\ Numbered(s.name) <=> n > 0
      BY <1>0, <2>1 DEF Counted
    <2>3. Append(s.name, 1) \notin NamesOf(S)
      BY <2>1, <2>2
    <2>. QED
      BY <1>6, <1>11, <2>1, <2>3
  <1>12. Closed(T)
    <2>. SUFFICES ASSUME NEW x \in T, NEW d \in x.deps PROVE d \in NamesOf(T) \/ InOwnGroup(x, d)
      BY DEF Closed
    <2>1. PICK s \in S : Splits(S, x, s)
      BY <1>1
    <2>2. Logical(x.name) = Logical(s.name) /\ x.kind = s.kind
      BY <1>2, <2>1
    <2>3. CASE \E c \in s.deps : d \in PartsIn(S, c)
      <3>1. PICK c \in s.deps : d \in PartsIn(S, c)
        BY <2>3
      <3>2. CASE c \in NamesOf(S)
        BY <1>5, <1>7, <3>1, <3>2 DEF NamesOf
      <3>3. CASE c \notin NamesOf(S)
        <4>1. d = c /\ InOwnGroup(s, c)
          BY <1>0, <1>6, <3>1, <3>3 DEF Closed
        <4>. QED
          BY <2>2, <4>1 DEF InOwnGroup
      <3>. QED
        BY <3>2, <3>3
    <2>4. CASE Replicated(s) /\ d \in PartsIn(S, Append(s.name, 1))
      BY <1>11, <2>2, <2>4 DEF InOwnGroup
    <2>. QED
      BY <1>0, <2>1, <2>3, <2>4, SpreadIs
  <1>13. OnAll(T)
    <2>. SUFFICES ASSUME NEW x \in T, NEW y \in T, NEW z \in T, Logical(y.name) = Logical(z.name),
                         Logical(x.name) # Logical(y.name), y.name \in x.deps
                  PROVE  z.name \in x.deps
      BY DEF OnAll
    <2>1. PICK s \in S, t \in S, u \in S : Splits(S, x, s) /\ Splits(S, y, t) /\ Splits(S, z, u)
      BY <1>1
    <2>2. /\ Logical(t.name) = Logical(u.name) /\ Logical(s.name) # Logical(t.name)
          /\ Logical(y.name) = Logical(t.name) /\ Logical(x.name) = Logical(s.name)
          /\ y.name \in Parts(t) /\ z.name \in Parts(u)
      BY <1>2, <2>1
    <2>3. IsName(Logical(s.name)) /\ ~Numbered(Logical(s.name))
      BY <1>0, WholeName
    <2>4. ASSUME NEW i \in Nat, y.name = Append(Logical(s.name), i) PROVE FALSE
      BY <2>2, <2>3, <2>4, NumberBehind
    <2>5. ~(Replicated(s) /\ y.name \in PartsIn(S, Append(s.name, 1)))
      BY <1>11, <2>4
    <2>6. PICK c \in s.deps : y.name \in PartsIn(S, c)
      BY <1>0, <2>1, <2>5, SpreadIs
    <2>7. c \in NamesOf(S)
      <3>. SUFFICES ASSUME c \notin NamesOf(S) PROVE FALSE
        OBVIOUS
      <3>1. y.name = c /\ InOwnGroup(s, c)
        BY <1>0, <1>6, <2>6 DEF Closed
      <3>. QED
        BY <2>4, <3>1 DEF InOwnGroup
    <2>8. PICK v \in S : v.name = c
      BY <2>7 DEF NamesOf
    <2>9. y.name \in Parts(v)
      BY <1>5, <2>6, <2>8
    <2>10. Logical(v.name) = Logical(t.name)
      <3>1. CASE ~Replicated(v)
        BY <2>2, <2>9, <3>1 DEF Parts
      <3>2. CASE Replicated(v)
        <4>1. IsName(v.name) /\ ~Numbered(v.name) /\ Logical(v.name) = v.name
          BY <1>0, <1>4, <3>2, WholeName
        <4>2. v.replicas \in Nat
          BY <1>0 DEF AreServices, IsService
        <4>3. PICK i \in 1..v.replicas : y.name = Append(v.name, i)
          BY <2>9, <3>2 DEF Parts
        <4>4. i \in Nat
          BY <4>2
        <4>. QED
          BY <2>2, <4>1, <4>3, <4>4, NumberBehind
      <3>. QED
        BY <3>1, <3>2
    <2>11. u.name \in s.deps
      BY <1>0, <2>2, <2>8, <2>10 DEF OnAll
    <2>12. PartsIn(S, u.name) \subseteq x.deps
      BY <1>0, <2>1, <2>11, SpreadIs
    <2>. QED
      BY <1>5, <2>2, <2>12
  <1>14. IsFiniteSet(T)
    BY ExpandsFinite DEF Whole, T
  <1>. QED
    BY <1>8, <1>9, <1>10, <1>12, <1>13, <1>14 DEF Whole, T

-----------------------------------------------------------------------------
(* A group that is resized.                                                *)

(* A group is all that is called like it.                                  *)
LEMMA GroupMembers ==
  ASSUME NEW sp, IsSpec(sp), Whole(sp.services), NEW sel, NEW g \in GroupsOf(sp.services, sel)
  PROVE  /\ g = [base |-> g.base, members |-> {s \in sp.services : Logical(s.name) = g.base}]
         /\ IsName(g.base) /\ ~Numbered(g.base)
  <1>. DEFINE S == sp.services
              databases == {s \in S : s.kind = "database"}
              numbered == {s \in databases : Numbered(s.name)}
  <1>0. AreServices(S) /\ Once(S) /\ NumberedWell(S) /\ Counted(S)
    BY DEF Whole, AreServices, IsSpec
  <1>1. \/ \E t \in numbered : g = [base |-> BaseOf(t.name), members |-> {u \in numbered : BaseOf(u.name) = BaseOf(t.name)}]
        \/ \E t \in databases \ numbered : g = [base |-> t.name, members |-> {t}]
    BY DEF GroupsOf
  <1>2. ASSUME NEW t \in numbered, g = [base |-> BaseOf(t.name), members |-> {u \in numbered : BaseOf(u.name) = BaseOf(t.name)}]
        PROVE  /\ {u \in numbered : BaseOf(u.name) = BaseOf(t.name)} = {u \in S : Logical(u.name) = BaseOf(t.name)}
               /\ IsName(BaseOf(t.name)) /\ ~Numbered(BaseOf(t.name))
    <2>1. Logical(t.name) = BaseOf(t.name) /\ IsName(BaseOf(t.name)) /\ ~Numbered(BaseOf(t.name))
      BY <1>0, WholeName
    <2>2. ASSUME NEW u \in numbered PROVE Logical(u.name) = BaseOf(u.name)
      BY <1>0, WholeName
    <2>3. ASSUME NEW u \in S, Logical(u.name) = BaseOf(t.name) PROVE u \in numbered
      <3>1. Numbered(u.name)
        BY <1>0, <2>1, <2>3, SameLogical
      <3>. QED
        BY <1>0, <3>1 DEF NumberedWell
    <2>. QED
      BY <2>1, <2>2, <2>3
  <1>3. ASSUME NEW t \in databases \ numbered
        PROVE  {t} = {u \in S : Logical(u.name) = t.name} /\ IsName(t.name) /\ ~Numbered(t.name)
    <2>1. Logical(t.name) = t.name /\ IsName(t.name) /\ ~Numbered(t.name)
      BY <1>0, WholeName
    <2>2. ASSUME NEW u \in S, Logical(u.name) = t.name PROVE u = t
      BY <1>0, <2>1, <2>2, SameLogical
    <2>. QED
      BY <2>1, <2>2
  <1>. HIDE DEF numbered, databases, S
  <1>4. CASE \E t \in numbered : g = [base |-> BaseOf(t.name), members |-> {u \in numbered : BaseOf(u.name) = BaseOf(t.name)}]
    BY <1>2, <1>4 DEF S
  <1>5. CASE \E t \in databases \ numbered : g = [base |-> t.name, members |-> {t}]
    BY <1>3, <1>5 DEF S
  <1>. QED
    BY <1>1, <1>4, <1>5

(* The rest of the services, with one service for a group.                 *)
LEMMA Regrouped ==
  ASSUME NEW S, AreServices(S), Whole(S), NEW base, IsName(base), ~Numbered(base),
         NEW M, M = {s \in S : Logical(s.name) = base},
         NEW first \in M, first.kind = "database", NEW one, IsService(one), one.kind = "database",
         \/ one.name = base
         \/ Numbered(first.name) /\ one.name = Append(base, 1) /\ ~Replicated(one),
         one.deps \subseteq first.deps, first.deps \ NamesOf(M) \subseteq one.deps
  PROVE  Whole(DependentsOf(S \ M, NamesOf(M), one.name) \cup {one})
  <1>. DEFINE names == NamesOf(M)
              R == DependentsOf(S \ M, names, one.name)
              T == R \cup {one}
  <1>0. Once(S) /\ NumberedWell(S) /\ Counted(S) /\ Closed(S) /\ OnAll(S)
    BY DEF Whole
  <1>1. ASSUME NEW x \in R
        PROVE  \E s \in S \ M : /\ x.name = s.name /\ x.kind = s.kind /\ Replicated(x) = Replicated(s)
                                /\ x.deps = {IF d \in names THEN one.name ELSE d : d \in s.deps}
    <2>1. PICK s \in S \ M : x = [s EXCEPT !.deps = {IF d \in names THEN one.name ELSE d : d \in s.deps}]
      BY DEF DependentsOf
    <2>2. IsService(s)
      BY DEF AreServices
    <2>3. /\ x.name = s.name /\ x.kind = s.kind /\ Replicated(x) = Replicated(s)
          /\ x.deps = {IF d \in names THEN one.name ELSE d : d \in s.deps}
      BY <2>1, <2>2, DepsMayBe
    <2>. QED
      BY <2>3
  <1>2. ASSUME NEW s \in S \ M PROVE \E x \in R : x.name = s.name
    <2>. DEFINE x == [s EXCEPT !.deps = {IF d \in names THEN one.name ELSE d : d \in s.deps}]
    <2>1. x \in R
      BY DEF DependentsOf
    <2>2. x.name = s.name
      BY DepsMayBe DEF AreServices
    <2>. QED
      BY <2>1, <2>2
  <1>3. ASSUME NEW x \in R, NEW y \in R, x.name = y.name PROVE x = y
    <2>1. PICK s \in S \ M : x = [s EXCEPT !.deps = {IF d \in names THEN one.name ELSE d : d \in s.deps}]
      BY DEF DependentsOf
    <2>2. PICK t \in S \ M : y = [t EXCEPT !.deps = {IF d \in names THEN one.name ELSE d : d \in t.deps}]
      BY DEF DependentsOf
    <2>3. x.name = s.name /\ y.name = t.name
      BY <2>1, <2>2, DepsMayBe DEF AreServices
    <2>4. s = t
      BY <1>0, <1>3, <2>3 DEF Once
    <2>. QED
      BY <2>1, <2>2, <2>4
  <1>. HIDE DEF R
  <1>4. /\ Logical(one.name) = base /\ Logical(base) = base
        /\ Numbered(one.name) => one.name = Append(base, 1) /\ Len(one.name) = 2 /\ ~Replicated(one)
        /\ ~Numbered(one.name) => one.name = base
    <2>1. Logical(base) = base
      BY NumberBehind
    <2>2. /\ Logical(Append(base, 1)) = base /\ Numbered(Append(base, 1)) /\ Len(Append(base, 1)) = 2
      BY NumberBehind
    <2>3. CASE one.name = base
      BY <2>1, <2>3
    <2>4. CASE one.name = Append(base, 1) /\ ~Replicated(one)
      BY <2>1, <2>2, <2>4
    <2>. QED
      BY <2>3, <2>4
  <1>5. ASSUME NEW x \in R PROVE Logical(x.name) # base /\ \E s \in S \ M : x.name = s.name
    BY <1>1
  <1>6. ASSUME NEW x \in T PROVE IsName(x.name)
    BY <1>5 DEF AreServices, IsService
  <1>7. \A s, t \in S : Logical(s.name) = Logical(t.name) => s = t \/ (Numbered(s.name) /\ Numbered(t.name))
    BY <1>0, SameLogical
  <1>8. Once(T)
    BY <1>3, <1>4, <1>5 DEF Once
  <1>9. NumberedWell(T)
    BY <1>0, <1>1, <1>4 DEF NumberedWell
  <1>10. ASSUME NEW x \in R
         PROVE  \E n \in Nat : /\ \A i \in Nat : Append(Logical(x.name), i) \in NamesOf(T) <=> i \in 1..n
                               /\ Numbered(x.name) <=> n > 0
    <2>1. PICK s \in S \ M : x.name = s.name
      BY <1>5
    <2>2. PICK n \in Nat : /\ \A i \in Nat : Append(Logical(s.name), i) \in NamesOf(S) <=> i \in 1..n
                           /\ Numbered(s.name) <=> n > 0
      BY <1>0 DEF Counted
    <2>3. IsName(Logical(s.name)) /\ ~Numbered(Logical(s.name)) /\ Logical(s.name) # base
      BY <1>0, WholeName
    <2>4. ASSUME NEW i \in Nat
          PROVE  Append(Logical(s.name), i) \in NamesOf(T) <=> Append(Logical(s.name), i) \in NamesOf(S)
      <3>1. Logical(Append(Logical(s.name), i)) = Logical(s.name)
        BY <2>3, NumberBehind
      <3>2. ASSUME NEW t \in S, t.name = Append(Logical(s.name), i) PROVE t \in S \ M
        BY <2>3, <3>1, <3>2
      <3>3. ASSUME NEW y \in T, y.name = Append(Logical(s.name), i) PROVE y \in R
        BY <1>4, <2>3, <3>1, <3>3
      <3>. QED
        BY <1>2, <1>5, <3>2, <3>3 DEF NamesOf
    <2>. QED
      BY <2>1, <2>2, <2>4
  <1>11. \E n \in Nat : /\ \A i \in Nat : Append(Logical(one.name), i) \in NamesOf(T) <=> i \in 1..n
                        /\ Numbered(one.name) <=> n > 0
    <2>1. ASSUME NEW i \in Nat, Append(base, i) \in NamesOf(T) PROVE Append(base, i) = one.name
      <3>1. PICK y \in T : y.name = Append(base, i)
        BY <2>1 DEF NamesOf
      <3>2. Logical(y.name) = base
        BY <3>1, NumberBehind
      <3>. QED
        BY <1>5, <3>1, <3>2
    <2>2. CASE one.name = base
      <3>1. \A i \in Nat : Append(base, i) \notin NamesOf(T)
        BY <2>1, <2>2, NumberBehind
      <3>2. \A i \in Nat : i \notin 1..0
        OBVIOUS
      <3>3. \A i \in Nat : Append(Logical(one.name), i) \in NamesOf(T) <=> i \in 1..0
        BY <1>4, <3>1, <3>2
      <3>4. ~Numbered(one.name)
        BY <2>2
      <3>5. Numbered(one.name) <=> 0 > 0
        BY <3>4
      <3>. WITNESS 0 \in Nat
      <3>. QED
        BY <3>3, <3>5
    <2>3. CASE one.name = Append(base, 1)
      <3>1. \A i \in Nat : Append(base, i) \in NamesOf(T) => i = 1
        <4>. SUFFICES ASSUME NEW i \in Nat, Append(base, i) \in NamesOf(T) PROVE i = 1
          OBVIOUS
        <4>1. Append(base, i) = Append(base, 1)
          BY <2>1, <2>3
        <4>2. Ordinal(Append(base, i)) = i /\ Ordinal(Append(base, 1)) = 1
          BY NumberBehind
        <4>. QED
          BY <4>1, <4>2
      <3>2. Append(base, 1) \in NamesOf(T) /\ Numbered(one.name)
        BY <2>3, NumberBehind DEF NamesOf
      <3>3. \A i \in Nat : i \in 1..1 <=> i = 1
        OBVIOUS
      <3>4. \A i \in Nat : Append(Logical(one.name), i) \in NamesOf(T) <=> i \in 1..1
        BY <1>4, <3>1, <3>2, <3>3
      <3>5. Numbered(one.name) <=> 1 > 0
        BY <3>2
      <3>. WITNESS 1 \in Nat
      <3>. QED
        BY <3>4, <3>5
    <2>. QED
      BY <2>2, <2>3
  <1>12. Counted(T)
    BY <1>10, <1>11 DEF Counted
  <1>13. Closed(T)
    <2>1. ASSUME NEW s \in S, NEW d \in s.deps, d \notin names
          PROVE  d \in NamesOf(T) \/ InOwnGroup(s, d)
      <3>1. CASE d \in NamesOf(S)
        <4>1. PICK t \in S \ M : t.name = d
          BY <2>1, <3>1 DEF NamesOf
        <4>. QED
          BY <1>2, <4>1 DEF NamesOf
      <3>. QED
        BY <1>0, <3>1 DEF Closed
    <2>2. ASSUME NEW x \in R, NEW d \in x.deps PROVE d \in NamesOf(T) \/ InOwnGroup(x, d)
      <3>1. PICK s \in S \ M : /\ x.name = s.name /\ x.kind = s.kind
                               /\ x.deps = {IF c \in names THEN one.name ELSE c : c \in s.deps}
        BY <1>1
      <3>2. d = one.name \/ (d \in s.deps /\ d \notin names)
        BY <3>1
      <3>3. one.name \in NamesOf(T)
        BY DEF NamesOf
      <3>4. CASE d \in s.deps /\ d \notin names
        <4>1. d \in NamesOf(T) \/ InOwnGroup(s, d)
          BY <2>1, <3>4
        <4>. QED
          BY <3>1, <4>1 DEF InOwnGroup
      <3>. QED
        BY <3>2, <3>3, <3>4
    <2>3. ASSUME NEW d \in one.deps PROVE d \in NamesOf(T) \/ InOwnGroup(one, d)
      <3>1. d \in first.deps /\ first \in S /\ Logical(first.name) = base
        OBVIOUS
      <3>2. CASE d \notin names
        <4>1. d \in NamesOf(T) \/ InOwnGroup(first, d)
          BY <2>1, <3>1, <3>2
        <4>. QED
          BY <1>4, <3>1, <4>1 DEF InOwnGroup
      <3>3. CASE d \in names
        <4>1. PICK m \in M : m.name = d
          BY <3>3 DEF NamesOf
        <4>2. CASE Numbered(m.name)
          <5>1. d = Append(base, Ordinal(m.name)) /\ Ordinal(m.name) \in Nat
            BY <1>0, <4>1, <4>2, WholeName
          <5>. QED
            BY <1>4, <5>1 DEF InOwnGroup
        <4>3. CASE ~Numbered(m.name)
          <5>1. m.name = base /\ ~Numbered(first.name)
            BY <1>0, <1>7, <3>1, <4>3, WholeName
          <5>2. one.name = d
            BY <4>1, <5>1
          <5>. QED
            BY <5>2 DEF NamesOf
        <4>. QED
          BY <4>2, <4>3
      <3>. QED
        BY <3>2, <3>3
    <2>. QED
      BY <2>2, <2>3 DEF Closed
  <1>14. OnAll(T)
    <2>. SUFFICES ASSUME NEW x \in T, NEW y \in T, NEW z \in T, Logical(y.name) = Logical(z.name),
                         Logical(x.name) # Logical(y.name), y.name \in x.deps
                  PROVE  z.name \in x.deps
      BY DEF OnAll
    <2>1. CASE y = one \/ z = one
      BY <1>4, <1>5, <2>1
    <2>2. CASE y \in R /\ z \in R
      <3>1. PICK t \in S \ M, u \in S \ M : t.name = y.name /\ u.name = z.name
        BY <1>5, <2>2
      <3>2. t.name \notin names /\ u.name \notin names /\ t.name # one.name
        BY <1>0, <1>4, <3>1 DEF Once, NamesOf
      <3>3. CASE x = one
        <4>1. t.name \in first.deps /\ Logical(first.name) = base /\ first \in S
          BY <3>1, <3>3
        <4>2. u.name \in first.deps
          BY <1>0, <1>4, <3>1, <3>3, <4>1 DEF OnAll
        <4>. QED
          BY <3>1, <3>2, <3>3, <4>2
      <3>4. CASE x \in R
        <4>1. PICK s \in S \ M : /\ x.name = s.name
                                 /\ x.deps = {IF c \in names THEN one.name ELSE c : c \in s.deps}
          BY <1>1, <3>4
        <4>2. t.name \in s.deps
          BY <3>1, <3>2, <4>1
        <4>3. u.name \in s.deps
          BY <1>0, <3>1, <4>1, <4>2 DEF OnAll
        <4>. QED
          BY <3>1, <3>2, <4>1, <4>3
      <3>. QED
        BY <3>3, <3>4
    <2>. QED
      BY <2>1, <2>2
  <1>15. IsFiniteSet(T)
    <2>. DEFINE to == [s \in S \ M |-> [s EXCEPT !.deps = {IF d \in names THEN one.name ELSE d : d \in s.deps}]]
    <2>1. \A x \in R : \E s \in S \ M : x = to[s]
      BY DEF R, DependentsOf
    <2>2. IsFiniteSet(S \ M)
      BY FS_Subset DEF Whole
    <2>. HIDE DEF to
    <2>3. IsFiniteSet(R)
      BY <2>1, <2>2, MappedIsFinite
    <2>. QED
      BY <2>3, FS_AddElement
  <1>. QED
    BY <1>8, <1>9, <1>12, <1>13, <1>14, <1>15 DEF Whole, R

(* A group that is resized leaves all groups whole.                        *)
LEMMA WholeResizes ==
  ASSUME NEW sp, IsSpec(sp), Whole(sp.services),
         NEW sel, NEW g \in GroupsOf(sp.services, sel), NEW n \in Nat
  PROVE  Whole(Resize(sp, g, n).services)
  <1>. DEFINE names == NamesOf(g.members)
              first == CHOOSE s \in g.members :
                         \A t \in g.members : Numbered(s.name) => Ordinal(s.name) <= Ordinal(t.name)
              others == first.deps \ names
              from == [BaseVolume([first EXCEPT !.name = g.base])
                         EXCEPT !.nrs = IF @ = <<>> THEN @ ELSE SeqX!Front(@)]
              logical == [first EXCEPT !.name = g.base, !.replicas = n,
                                       !.deps = IF others = {} THEN @ ELSE others,
                                       !.mounts = {[from |-> from, at |-> DataTarget(first)]}]
              single == [first EXCEPT !.replicas = 0, !.deps = others]
              pattern == IF n = 1 THEN single ELSE logical
              rest == DependentsOf(sp.services \ g.members, names, pattern.name)
              S == rest \cup {pattern}
              V == sp.volumes \ UNION {Sources(s) : s \in g.members}
              resized == [sp EXCEPT !.services = S, !.volumes = V]
              declared(x) == [x EXCEPT !.volumes = @ \cup UNION {Declared(s) : s \in x.services}]
  <1>0. /\ g.members \subseteq sp.services /\ g.members # {} /\ IsName(g.base) /\ ~Numbered(g.base)
        /\ g.members = {s \in sp.services : Logical(s.name) = g.base}
        /\ \A s \in sp.services : IsService(s)
    BY GroupIs, GroupMembers DEF IsSpec
  <1>00. /\ AreServices(sp.services) /\ NumberedWell(sp.services) /\ Counted(sp.services)
    BY <1>0 DEF AreServices, Whole
  <1>1. Resize(sp, g, n) = IF n = 1 THEN [resized EXCEPT !.volumes = @ \cup Declared(single)]
                           ELSE declared(Expand(resized))
    BY DEF Resize
  <1>2. /\ first \in g.members
        /\ \A t \in g.members : Numbered(first.name) => Ordinal(first.name) <= Ordinal(t.name)
    <2>1. \A s \in g.members : IsName(s.name)
      BY <1>0 DEF IsService
    <2>. QED
      BY <1>0, <2>1, FirstIs
  <1>. HIDE DEF first
  <1>3. IsService(first) /\ first.kind = "database" /\ first \in sp.services /\ Logical(first.name) = g.base
    BY <1>0, <1>2, GroupNames
  <1>4. first.name = g.base \/ (Numbered(first.name) /\ first.name = Append(g.base, 1))
    <2>1. CASE ~Numbered(first.name)
      BY <1>3, <2>1 DEF Logical
    <2>2. CASE Numbered(first.name)
      <3>1. first.name = Append(g.base, Ordinal(first.name)) /\ Ordinal(first.name) \in Nat
        BY <1>3, <1>00, <2>2, WholeName
      <3>2. PICK k \in Nat : \A i \in Nat : Append(g.base, i) \in NamesOf(sp.services) <=> i \in 1..k
        BY <1>3, <1>00 DEF Counted
      <3>3. Ordinal(first.name) \in 1..k
        BY <1>3, <3>1, <3>2 DEF NamesOf
      <3>4. 1 \in 1..k /\ 1 \in Nat
        BY <3>3
      <3>5. PICK t \in sp.services : t.name = Append(g.base, 1)
        BY <3>2, <3>4 DEF NamesOf
      <3>6. Logical(t.name) = g.base /\ Ordinal(t.name) = 1
        BY <1>0, <3>4, <3>5, NumberBehind
      <3>7. Ordinal(first.name) <= 1
        BY <1>0, <1>2, <2>2, <3>6
      <3>8. Ordinal(first.name) = 1
        BY <3>3, <3>7
      <3>. QED
        BY <2>2, <3>1, <3>8
    <2>. QED
      BY <2>1, <2>2
  <1>5. /\ IsService(logical) /\ logical.name = g.base /\ logical.kind = "database"
        /\ logical.deps = IF others = {} THEN first.deps ELSE others
    <2>. HIDE DEF others, from
    <2>1. IsResource(from)
      <3>. DEFINE f == [first EXCEPT !.name = g.base]
      <3>1. IsService(f)
        BY <1>0, <1>3 DEF IsService, IsRecord
      <3>. HIDE DEF f
      <3>2. IsResource(BaseVolume(f))
        BY <3>1, VolumeIs
      <3>. DEFINE v == BaseVolume(f)
      <3>3. \A y : IsResource([v EXCEPT !.nrs = y])
        BY <3>2 DEF IsResource, IsRecord
      <3>4. from = [v EXCEPT !.nrs = IF @ = <<>> THEN @ ELSE SeqX!Front(@)]
        BY DEF from, f
      <3>. HIDE DEF v
      <3>. QED
        BY <3>3, <3>4
    <2>. DEFINE D == IF others = {} THEN first.deps ELSE others
                M == {[from |-> from, at |-> DataTarget(first)]}
    <2>2. \A m \in M : IsMount(m)
      BY <2>1 DEF IsMount, IsRecord
    <2>3. logical = [first EXCEPT !.name = g.base, !.replicas = n, !.deps = D, !.mounts = M]
      OBVIOUS
    <2>. HIDE DEF D, M, logical
    <2>4. IsService(logical) /\ logical.name = g.base /\ logical.kind = "database" /\ logical.deps = D
      BY <1>0, <1>3, <2>2, <2>3 DEF IsService, IsRecord
    <2>. QED
      BY <2>4 DEF D
  <1>6. /\ IsService(single) /\ single.name = first.name /\ single.kind = "database"
        /\ single.deps = others /\ ~Replicated(single)
    <2>. HIDE DEF others
    <2>1. /\ IsService(single) /\ single.name = first.name /\ single.kind = "database"
          /\ single.deps = others /\ single.replicas = 0
      BY <1>3 DEF IsService, IsRecord
    <2>. HIDE DEF single
    <2>. QED
      BY <2>1 DEF Replicated
  <1>. HIDE DEF logical, single
  <1>7. /\ IsService(pattern) /\ pattern.kind = "database"
        /\ pattern.deps \subseteq first.deps /\ first.deps \ names \subseteq pattern.deps
        /\ \/ pattern.name = g.base
           \/ Numbered(first.name) /\ pattern.name = Append(g.base, 1) /\ ~Replicated(pattern)
    BY <1>4, <1>5, <1>6
  <1>. HIDE DEF pattern
  <1>8. Whole(S)
    BY <1>0, <1>00, <1>2, <1>3, <1>7, Regrouped
  <1>9. IsSpec(resized) /\ resized.services = S
    <2>1. \A s \in rest : IsService(s)
      BY <1>0, DepsMayBe DEF DependentsOf
    <2>. HIDE DEF rest
    <2>2. (\A s \in S : IsService(s)) /\ (\A r \in V : IsResource(r))
      BY <1>7, <2>1 DEF IsSpec
    <2>. HIDE DEF S, V
    <2>. QED
      BY <2>2, BothMayBe DEF IsSpec, IsRecord
  <1>. HIDE DEF resized, S
  <1>10. ASSUME NEW x, IsSpec(x), NEW W
         PROVE  [x EXCEPT !.volumes = W].services = x.services
    BY <1>10 DEF IsSpec, IsRecord
  <1>11. CASE n = 1
    BY <1>1, <1>8, <1>9, <1>10, <1>11
  <1>12. CASE n # 1
    <2>. DEFINE e == Expand(resized)
    <2>1. IsSpec(e) /\ Whole(e.services)
      BY <1>8, <1>9, ExpandIs, WholeExpands
    <2>2. Resize(sp, g, n) = declared(e)
      BY <1>1, <1>12
    <2>. HIDE DEF e
    <2>. QED
      BY <1>10, <2>1, <2>2
  <1>. QED
    BY <1>11, <1>12

(* Whether groups are whole is a matter of names, kinds and dependencies.  *)
Resembles(x, s) ==
  x.name = s.name /\ x.kind = s.kind /\ x.deps = s.deps /\ (Numbered(s.name) => Replicated(x) = Replicated(s))

LEMMA WholeResembles ==
  ASSUME NEW S, Whole(S), NEW T, Once(T),
         \A x \in T : \E s \in S : Resembles(x, s), \A s \in S : \E x \in T : Resembles(x, s)
  PROVE  Whole(T)
  <1>1. NamesOf(T) = NamesOf(S)
    BY DEF NamesOf, Resembles
  <1>2. NumberedWell(T)
    BY DEF Whole, NumberedWell, Resembles
  <1>3. Counted(T)
    BY <1>1 DEF Whole, Counted, Resembles
  <1>4. Closed(T)
    BY <1>1 DEF Whole, Closed, InOwnGroup, Resembles
  <1>5. OnAll(T)
    <2>. SUFFICES ASSUME NEW x \in T, NEW y \in T, NEW z \in T, Logical(y.name) = Logical(z.name),
                         Logical(x.name) # Logical(y.name), y.name \in x.deps
                  PROVE  z.name \in x.deps
      BY DEF OnAll
    <2>1. PICK s \in S, t \in S, u \in S : Resembles(x, s) /\ Resembles(y, t) /\ Resembles(z, u)
      OBVIOUS
    <2>. QED
      BY <2>1 DEF Whole, OnAll, Resembles
  <1>6. IsFiniteSet(T)
    <2>. DEFINE f == [x \in T |-> CHOOSE s \in S : Resembles(x, s)]
    <2>1. \A x \in T : f[x] \in S /\ Resembles(x, f[x])
      OBVIOUS
    <2>2. f \in [T -> S]
      BY <2>1
    <2>. HIDE DEF f
    <2>3. \A x, y \in T : f[x] = f[y] => x = y
      BY <2>1 DEF Once, Resembles
    <2>4. f \in Injection(T, S)
      BY <2>2, <2>3 DEF Injection, IsInjective
    <2>. QED
      BY <2>4, FS_Injection DEF Whole
  <1>. QED
    BY <1>2, <1>3, <1>4, <1>5, <1>6 DEF Whole

LEMMA WholeStripped ==
  ASSUME NEW sp, IsSpec(sp), Whole(sp.services)
  PROVE  Whole(StrippedSpec(sp).services)
  <1>. DEFINE S == {Stripped(s) : s \in sp.services}
  <1>1. StrippedSpec(sp).services = S
    <2>1. StrippedSpec(sp) = [sp EXCEPT !.services = S]
      BY DEF StrippedSpec
    <2>. HIDE DEF S
    <2>. QED
      BY <2>1 DEF IsSpec, IsRecord
  <1>2. \A s \in sp.services : Resembles(Stripped(s), s)
    BY DEF IsSpec, IsService, IsRecord, Stripped, Resembles, Replicated
  <1>3. /\ \A x \in S : \E s \in sp.services : x = Stripped(s) /\ Resembles(x, s)
        /\ \A s \in sp.services : \E x \in S : Resembles(x, s)
    BY <1>2
  <1>. HIDE DEF S
  <1>4. Once(S)
    BY <1>3 DEF Whole, Once, Resembles
  <1>. QED
    BY <1>1, <1>3, <1>4, WholeResembles

LEMMA WholeNamespace ==
  ASSUME NEW sp, IsSpec(sp), Whole(sp.services)
  PROVE  Whole(Namespace(sp).services)
  <1>1. IsProject(sp.project) /\ \A s \in sp.services : IsService(s)
    BY DEF IsSpec
  <1>. DEFINE S == {Placed(sp.project, s) : s \in sp.services}
  <1>2. \A s \in sp.services : Resembles(Placed(sp.project, s), s)
    BY <1>1, PlacedIs DEF Resembles, Replicated
  <1>3. /\ \A x \in S : \E s \in sp.services : x = Placed(sp.project, s) /\ Resembles(x, s)
        /\ \A s \in sp.services : \E x \in S : Resembles(x, s)
    BY <1>2
  <1>4. Namespace(sp).services = S
    BY NamespaceIs
  <1>. HIDE DEF S
  <1>5. Once(S)
    BY <1>3 DEF Whole, Once, Resembles
  <1>. QED
    BY <1>3, <1>4, <1>5, WholeResembles

LEMMA WholeShown ==
  ASSUME NEW sp, IsSpec(sp), Whole(sp.services)
  PROVE  Whole(Shown(sp).services)
  <1>1. IsSpec(Normalize(sp)) /\ Normalize(sp).services = Expand(sp).services
    BY NormalizeIs
  <1>2. Whole(Normalize(sp).services)
    BY <1>1, WholeExpands
  <1>. QED
    BY <1>1, <1>2, WholeNamespace DEF Shown

-----------------------------------------------------------------------------
(* Patches that resize groups, or what has no group.                       *)

(* Nothing speaks against a patch.                                         *)
Blank == ""

(* The groups a number of replicas is for.                                 *)
Fitting(services, sel, matched) == FittingGroups(services, sel, matched, FALSE)

(* A number of replicas leaves groups whole if it is not for one alone.    *)
LEMMA WholeApplied ==
  ASSUME NEW sp, IsSpec(sp), Whole(sp.services), NEW p, IsPatch(p), p.op = "set-service-replicas",
         NEW res, res = Resolve(p, sp.services), Alone(sp.services, p, res.matched) = {}
  PROVE  Whole(Applied(sp, p, res.matched).services)
  <1>. DEFINE matched == res.matched
              group == Fitting(sp.services, p.target, matched)
              s == CHOOSE t \in matched : TRUE
              S == (sp.services \ {s}) \cup {Edited(s, p)}
              edited == [sp EXCEPT !.services = S]
  <1>0. HasTarget(p) /\ p.arg \in Nat
    BY Zenon DEF HasTarget, SpecOps, IsPatch
  <1>00. matched \subseteq sp.services
    BY MatchedIs
  <1>1. CASE group # {}
    <2>. DEFINE g == CHOOSE h \in group : TRUE
    <2>1. g \in GroupsOf(sp.services, p.target)
      BY <1>1 DEF Fitting, FittingGroups
    <2>2. Applied(sp, p, matched) = Resize(sp, g, p.arg)
      BY <1>0, <1>1, Zenon DEF Applied, Fitting
    <2>. HIDE DEF g
    <2>. QED
      BY <1>0, <2>1, <2>2, WholeResizes
  <1>2. CASE group = {}
    <2>. DEFINE one == IF p.op = "remove-service" THEN Remove(sp, s.name)
            ELSE IF p.op = "rename-service" THEN Rename(sp, s.name, p.arg)
            ELSE IF p.op = "set-service-replicas" /\ s.kind = "database" THEN Expand(edited)
            ELSE IF p.op = "add-service-volume"
              THEN [edited EXCEPT !.volumes = @ \cup ({p.arg.from} \ {HostPath})]
            ELSE edited
    <2>01. Applied(sp, p, matched) =
             IF ~HasTarget(p) THEN EditSpec(sp, p)
             ELSE IF p.op = "set-service-replicas" /\ group # {}
               THEN Resize(sp, CHOOSE g \in group : TRUE, p.arg)
             ELSE IF p.op = "set-service-image" THEN SetImage(sp, matched, Normalized(p.arg))
             ELSE IF Cardinality(matched) # 1 THEN sp ELSE one
      BY DEF Applied, Fitting
    <2>02. one = IF s.kind = "database" THEN Expand(edited) ELSE edited
      <3>. HIDE DEF s, edited
      <3>. QED
        OBVIOUS
    <2>1. Applied(sp, p, matched) = IF Cardinality(matched) # 1 THEN sp
                                    ELSE IF s.kind = "database" THEN Expand(edited) ELSE edited
      <3>. HIDE DEF one, group, s, edited
      <3>. QED
        BY <1>0, <1>2, <2>01, <2>02
    <2>2. CASE Cardinality(matched) # 1
      BY <2>1, <2>2
    <2>3. CASE Cardinality(matched) = 1
      <3>1. matched = {s}
        <4>1. IsFiniteSet(matched)
          BY <1>00, FS_Subset DEF Whole
        <4>2. \E x : matched = {x}
          <5>. HIDE DEF matched
          <5>. QED
            BY <2>3, <4>1, FS_Singleton
        <4>. QED
          BY <4>2
      <3>2. s \in sp.services /\ ~Numbered(s.name)
        <4>. HIDE DEF s
        <4>1. s \in sp.services /\ s \in matched
          BY <1>00, <3>1
        <4>2. ASSUME Numbered(s.name) PROVE FALSE
          <5>1. s.kind = "database"
            BY <4>1, <4>2 DEF Whole, NumberedWell
          <5>2. s \in Alone(sp.services, p, matched)
            BY <1>2, <4>1, <4>2, <5>1 DEF Alone, Fitting
          <5>. QED
            BY <5>2
        <4>. QED
          BY <4>1, <4>2
      <3>3. IsService(s)
        BY <3>2 DEF IsSpec
      <3>. HIDE DEF s
      <3>4. Edited(s, p) = [s EXCEPT !.replicas = p.arg]
        BY DEF Edited
      <3>5. IsService(Edited(s, p)) /\ Resembles(Edited(s, p), s)
        BY <1>0, <3>2, <3>3, <3>4 DEF IsService, IsRecord, Resembles
      <3>6. /\ \A x \in S : \E t \in sp.services : Resembles(x, t) /\ (x = t \/ (x = Edited(s, p) /\ t = s))
            /\ \A t \in sp.services : \E x \in S : Resembles(x, t)
            /\ \A x \in S : IsService(x)
        BY <3>2, <3>5 DEF Resembles, IsSpec
      <3>7. Once(S)
        <4>. SUFFICES ASSUME NEW x \in S, NEW y \in S, x.name = y.name PROVE x = y
          BY DEF Once
        <4>1. Edited(s, p).name = s.name
          BY <3>5 DEF Resembles
        <4>2. ASSUME NEW t \in sp.services, t.name = s.name PROVE t = s
          BY <3>2, <4>2 DEF Whole, Once
        <4>3. CASE x = Edited(s, p) \/ y = Edited(s, p)
          BY <4>1, <4>2, <4>3
        <4>4. CASE x \in sp.services \ {s} /\ y \in sp.services \ {s}
          BY <4>4 DEF Whole, Once
        <4>. QED
          BY <4>3, <4>4
      <3>. HIDE DEF S
      <3>8. Whole(S)
        BY <3>6, <3>7, WholeResembles
      <3>9. IsSpec(edited) /\ edited.services = S
        BY <3>6, ServicesMayBe DEF IsSpec, IsRecord
      <3>. HIDE DEF edited
      <3>10. Whole(edited.services) /\ Whole(Expand(edited).services)
        BY <3>8, <3>9, WholeExpands
      <3>. QED
        BY <2>1, <2>3, <3>10
    <2>. QED
      BY <2>2, <2>3
  <1>. QED
    BY <1>1, <1>2

(* Where no image is changed, no service is renamed.                       *)
LEMMA NothingRenamed ==
  ASSUME NEW p, p.op # "set-service-image", NEW matched
  PROVE  Aliased(p, {}) = p /\ RememberRenames({}, p, matched) = {}
  <1>1. Aliased(p, {}) = p
    BY DEF Aliased
  <1>2. RememberRenames({}, p, matched) = {}
    BY DEF RememberRenames
  <1>. QED
    BY <1>1, <1>2

LEMMA WholePatchedBy ==
  ASSUME NEW acc, IsSpec(acc.spec), Whole(acc.spec.services), acc.alias = {},
         NEW p, IsPatch(p), p.op = "set-service-replicas", NEW may, NEW found, NEW about,
         PatchedBy(acc, p, may, found, about).alone = {}
  PROVE  LET new == PatchedBy(acc, p, may, found, about)
         IN IsSpec(new.spec) /\ Whole(new.spec.services) /\ new.alias = {}
  <1>. DEFINE res == Resolve(p, acc.spec.services)
              blocked == Objection(p, res, acc.spec.services, may, found, about)
              made == Applied(acc.spec, p, res.matched)
              alone == Alone(acc.spec.services, p, res.matched)
              new == IF blocked # Blank THEN acc.spec ELSE StrippedSpec(made)
              renamed == IF blocked = Blank THEN RememberRenames(acc.alias, p, res.matched) ELSE acc.alias
              lone == IF blocked = Blank THEN acc.alone \cup alone ELSE acc.alone
  <1>0. p.op # "set-service-image"
    OBVIOUS
  <1>1. /\ PatchedBy(acc, p, may, found, about).spec = new
        /\ PatchedBy(acc, p, may, found, about).alias = renamed
        /\ PatchedBy(acc, p, may, found, about).alone = lone
    <2>1. Aliased(p, acc.alias) = p
      BY <1>0, NothingRenamed
    <2>2. PatchedBy(acc, p, may, found, about) = Tried(acc, p, res.matched, blocked)
      BY <2>1, Zenon DEF PatchedBy, Found, Checked
    <2>. HIDE DEF blocked, res
    <2>3. \E z : Tried(acc, p, res.matched, blocked)
                  = [spec |-> new, alias |-> renamed, alone |-> lone, results |-> z]
      BY Zenon DEF Tried, Noted, Blank
    <2>. HIDE DEF new, renamed, lone
    <2>4. /\ Tried(acc, p, res.matched, blocked).spec = new
          /\ Tried(acc, p, res.matched, blocked).alias = renamed
          /\ Tried(acc, p, res.matched, blocked).alone = lone
      BY <2>3
    <2>. QED
      BY <2>2, <2>4, Zenon
  <1>2. PatchedBy(acc, p, may, found, about).alias = {}
    BY <1>0, <1>1, NothingRenamed, Zenon
  <1>3. res.matched \subseteq acc.spec.services
    BY MatchedIs
  <1>4. blocked = Blank => alone = {}
    <2>1. lone = {}
      BY <1>1
    <2>. HIDE DEF blocked, alone
    <2>. QED
      BY <2>1
  <1>5. ASSUME blocked = Blank
        PROVE  IsSpec(made) /\ Whole(made.services)
    <2>. HIDE DEF blocked
    <2>1. alone = {}
      BY <1>4, <1>5
    <2>2. IsSpec(made)
      <3>. HIDE DEF res
      <3>. QED
        BY <1>3, AppliedIs
    <2>3. Whole(made.services)
      <3>1. res = Resolve(p, acc.spec.services)
        OBVIOUS
      <3>. HIDE DEF res
      <3>. QED
        BY <2>1, <3>1, WholeApplied
    <2>. QED
      BY <2>2, <2>3
  <1>. HIDE DEF blocked, made
  <1>6. IsSpec(new) /\ Whole(new.services)
    BY <1>5, StrippedIs, WholeStripped
  <1>. QED
    BY <1>1, <1>2, <1>6

(* What was resized alone is remembered.                                   *)
LEMMA AloneStays ==
  ASSUME NEW acc, NEW p, NEW may, NEW found, NEW about,
         PatchedBy(acc, p, may, found, about).alone = {}
  PROVE  acc.alone = {}
  <1>. DEFINE q == Aliased(p, acc.alias)
              res == Resolve(q, acc.spec.services)
              blocked == Objection(q, res, acc.spec.services, may, found, about)
              alone == Alone(acc.spec.services, q, res.matched)
  <1>1. PatchedBy(acc, p, may, found, about).alone
          = IF blocked = "" THEN acc.alone \cup alone ELSE acc.alone
    BY DEF PatchedBy, Found, Checked, Tried, Noted
  <1>. HIDE DEF blocked, alone
  <1>. QED
    BY <1>1

(* And a plan of such patches.                                             *)
LEMMA WholePatched ==
  ASSUME NEW sp, IsSpec(sp), Whole(sp.services),
         NEW ps, IsSeq(ps), \A i \in DOMAIN ps : IsPatch(ps[i]), OnlyReplicas(ps),
         NEW may, NEW found, NEW about, Patched(sp, ps, may, found, about).alone = {}
  PROVE  /\ IsSpec(Patched(sp, ps, may, found, about).spec)
         /\ Whole(Patched(sp, ps, may, found, about).spec.services)
  <1>0. PICK n \in Nat : n = Len(ps) /\ \A i \in 1..n : i \in DOMAIN ps
    BY IsSeqIs DEF IsSeq
  <1>1. PICK after : PatchCourse(sp, ps, may, found, about, after)
    BY PatchAfterPatch
  <1>. DEFINE Q == {i \in 0..n : after[i].alone = {} =>
                                   /\ IsSpec(after[i].spec) /\ Whole(after[i].spec.services)
                                   /\ after[i].alias = {}}
  <1>2. 0 \in Q
    <2>1. IsSpec(StrippedSpec(sp)) /\ Whole(StrippedSpec(sp).services)
      BY StrippedIs, WholeStripped
    <2>. QED
      BY <1>1, <2>1 DEF PatchCourse
  <1>3. ASSUME NEW i \in 1..n, i - 1 \in Q PROVE i \in Q
    <2>. SUFFICES ASSUME after[i].alone = {}
                  PROVE  /\ IsSpec(after[i].spec) /\ Whole(after[i].spec.services)
                         /\ after[i].alias = {}
      OBVIOUS
    <2>1. /\ after[i] = PatchedBy(after[i - 1], ps[i], may, found, about)
          /\ IsPatch(ps[i]) /\ ps[i].op = "set-service-replicas"
      BY <1>0, <1>1 DEF PatchCourse, OnlyReplicas
    <2>2. after[i - 1].alone = {}
      BY <2>1, AloneStays
    <2>3. /\ IsSpec(after[i - 1].spec) /\ Whole(after[i - 1].spec.services)
          /\ after[i - 1].alias = {}
      BY <1>3, <2>2
    <2>. QED
      BY <2>1, <2>3, WholePatchedBy
  <1>. HIDE DEF Q
  <1>4. n \in Q
    BY <1>2, <1>3, AtTheEnd
  <1>. QED
    BY <1>0, <1>1, <1>4 DEF Q, PatchCourse

-----------------------------------------------------------------------------
(* Revisions and dialogues that only resize.                               *)

LEMMA WholeRevised ==
  ASSUME NEW sp, IsSpec(sp), Whole(sp.services),
         NEW words, words.replicas \in Int, NEW offered, IsPlan(offered), NEW at,
         NEW plan, plan = PlanFor(sp, words, NoReport.findings, offered),
         OnlyReplicas(plan.patches), Applying(sp, words, NoReport, plan).alone = {}
  PROVE  Whole(Revise(sp, words, NoReport, offered, at).spec.services)
  <1>. DEFINE done == Applying(sp, words, NoReport, plan)
  <1>1. IsPlan(plan)
    BY PlanForIs
  <1>2. Revise(sp, words, NoReport, offered, at).spec \in {Namespace(sp), Namespace(done.spec)}
    BY RevisedFrom
  <1>3. IsSpec(done.spec) /\ Whole(done.spec.services)
    BY <1>1, WholePatched DEF IsPlan, Applying
  <1>. HIDE DEF done
  <1>. QED
    BY <1>2, <1>3, WholeNamespace

LEMMA ConsultWhole ==
  ASSUME mode = "adjust", kinds' \subseteq Resizes \ {"resize-member"},
         NEW sp, IsSpec(sp), Whole(sp.services),
         NEW w, w.replicas \in Int, Consult(sp, w, NoReport, 0)
  PROVE  Whole(result'.spec.services) /\ kinds \subseteq kinds'
  <1>1. PICK k \in DOMAIN Plans[mode] :
          /\ result' = Revise(sp, w, NoReport, Plans[mode][k], 0)
          /\ kinds' = kinds \cup Operations(sp, w, NoReport, Plans[mode][k])
    BY DEF Consult
  <1>2. IsPlan(Plans[mode][k])
    BY RevisionAssumption DEF Inputs, Modes
  <1>. DEFINE plan == PlanFor(sp, w, NoReport.findings, Plans[mode][k])
  <1>3. OnlyReplicas(plan.patches)
    BY <1>1 DEF OnlyReplicas, Operations, OperationsOf, Resizes
  <1>4. Applying(sp, w, NoReport, plan).alone = {}
    BY <1>1 DEF Operations, OperationsOf
  <1>. QED
    BY <1>1, <1>2, <1>3, <1>4, WholeRevised

(* The invariant of an adjustment that only resizes.                       *)
OnlyGroups == OnlyResized /\ "resize-member" \notin kinds
GroupsInv ==
  OnlyGroups =>
    /\ Whole(origin.services)
    /\ pc # "done" => Whole(spec.services) /\ Whole(result.spec.services)
    /\ pc = "approve" => Whole(shown.services)

(* A snapshot whose groups are whole.                                      *)
LEMMA WholeIs ==
  ASSUME NEW sp, IsSpec(sp), IsFiniteSet(sp.services), Valid(sp), WholeGroups(sp)
  PROVE  Whole(sp.services)
  <1>. DEFINE S == sp.services
  <1>1. Once(S) /\ Closed(S)
    BY DEF Valid, Once, Closed
  <1>2. NumberedWell(S) /\ OnAll(S)
    BY DEF WholeGroups, NumberedWell, OnAll
  <1>3. AreServices(S)
    BY DEF IsSpec, AreServices
  <1>4. ASSUME NEW s \in S
        PROVE  \E n \in Nat : /\ \A i \in Nat : Append(Logical(s.name), i) \in NamesOf(S) <=> i \in 1..n
                              /\ Numbered(s.name) <=> n > 0
    <2>. DEFINE base == Logical(s.name)
                parts == PartsOf(sp, base)
                n == Cardinality(parts)
    <2>1. NamesOf(parts) = {Append(base, i) : i \in 1..n} /\ (~Numbered(s.name) => parts = {})
      BY DEF WholeGroups
    <2>2. IsFiniteSet(parts)
      BY FS_Subset DEF PartsOf
    <2>3. n \in Nat /\ (n = 0 <=> parts = {})
      <3>. HIDE DEF parts
      <3>. QED
        BY <2>2, FS_CardinalityType, FS_EmptySet
    <2>4. IsName(base) /\ ~Numbered(base) /\ (Numbered(s.name) => base = BaseOf(s.name))
      BY <1>2, <1>3, WholeName
    <2>5. Numbered(s.name) <=> n > 0
      <3>1. Numbered(s.name) => s \in parts
        BY <2>4 DEF PartsOf
      <3>. HIDE DEF parts, base, n
      <3>. QED
        BY <2>1, <2>3, <3>1
    <2>6. ASSUME NEW i \in Nat PROVE Append(base, i) \in NamesOf(S) <=> i \in 1..n
      <3>1. Append(base, i) \in NamesOf(S) <=> Append(base, i) \in NamesOf(parts)
        <4>1. Numbered(Append(base, i)) /\ BaseOf(Append(base, i)) = base
          BY <2>4, NumberBehind
        <4>. QED
          BY <4>1 DEF PartsOf, NamesOf
      <3>2. ASSUME NEW j \in 1..n, Append(base, i) = Append(base, j) PROVE i = j
        <4>1. j \in Nat
          BY <2>3
        <4>2. Ordinal(Append(base, i)) = i /\ Ordinal(Append(base, j)) = j
          BY <2>4, <4>1, NumberBehind
        <4>. QED
          BY <3>2, <4>2
      <3>. HIDE DEF parts, base, n
      <3>. QED
        BY <2>1, <3>1, <3>2
    <2>. HIDE DEF n
    <2>. QED
      BY <2>3, <2>5, <2>6
  <1>. QED
    BY <1>1, <1>2, <1>4 DEF Whole, Counted

LEMMA GroupsStart ==
  ASSUME Init, WholeSnapshots
  PROVE  GroupsInv
  <1>. SUFFICES ASSUME mode = "adjust"
                PROVE  GroupsInv
    BY DEF GroupsInv, OnlyGroups, OnlyResized
  <1>1. PICK i \in DOMAIN Specs[mode] : origin = Specs[mode][i]
    BY DEF Init
  <1>2. WholeGroups(origin)
    BY <1>1 DEF WholeSnapshots
  <1>3. IsSpec(origin) /\ IsFiniteSet(origin.services) /\ Valid(origin)
    BY <1>1, RevisionAssumption DEF Inputs, Modes
  <1>4. Whole(origin.services)
    BY <1>2, <1>3, WholeIs
  <1>5. spec = origin /\ result.spec = origin /\ pc = "adjust"
    BY DEF Init, NoResult
  <1>. QED
    BY <1>4, <1>5 DEF GroupsInv

(* A revision that the policy or the next preview is about to see.         *)
LEMMA RevisionWhole ==
  ASSUME ReviewInv, GroupsInv, pc \in {"adjust", "approve", "clarify"},
         NEW sp, sp = IF pc = "adjust" THEN origin ELSE spec,
         NEW w, w.replicas \in Int, Consult(sp, w, NoReport, 0), UNCHANGED <<mode, origin>>, OnlyGroups'
  PROVE  OnlyGroups /\ Whole(result'.spec.services) /\ Whole(spec.services) /\ Whole(origin.services)
  <1>1. mode = "adjust" /\ kinds' \subseteq Resizes \ {"resize-member"} /\ kinds \subseteq kinds'
    BY DEF OnlyGroups, OnlyResized, Consult
  <1>2. OnlyGroups /\ Whole(origin.services) /\ Whole(spec.services)
    BY <1>1 DEF OnlyGroups, OnlyResized, GroupsInv
  <1>3. IsSpec(origin) /\ IsSpec(sp) /\ Whole(sp.services)
    BY <1>1, <1>2 DEF ReviewInv
  <1>. QED
    BY <1>1, <1>2, <1>3, ConsultWhole

LEMMA GroupsStep ==
  ASSUME ReviewInv, GroupsInv, [Next]_vars
  PROVE  GroupsInv'
  <1>. SUFFICES ASSUME OnlyGroups' PROVE GroupsInv'
    BY DEF GroupsInv
  <1>0. mode' = mode /\ origin' = origin
    BY DEF Next, vars, Adjust, Check, Prepare, Approve, Decline, Change, Clarify, GiveUp, Scan,
           Deployed, Failed, Propose, Yes, No, Other, Resolved, Ask, Finished
  <1>1. mode = "adjust"
    BY <1>0 DEF OnlyGroups, OnlyResized
  <1>2. ASSUME UNCHANGED <<spec, result>>, kinds \subseteq kinds', OnlyGroups =>
                 (pc' = "approve" => pc = "approve" /\ shown' = shown), pc # "done" \/ pc' = "done"
        PROVE  GroupsInv'
    <2>1. OnlyGroups
      BY <1>0, <1>2 DEF OnlyGroups, OnlyResized
    <2>. QED
      BY <1>0, <1>2, <2>1 DEF GroupsInv
  <1>3. ASSUME pc' = "done", kinds \subseteq kinds' PROVE GroupsInv'
    <2>1. OnlyGroups
      BY <1>0, <1>3 DEF OnlyGroups, OnlyResized
    <2>. QED
      BY <1>0, <1>3, <2>1 DEF GroupsInv
  <1>4. ASSUME Adjust PROVE GroupsInv'
    <2>1. PICK r \in DOMAIN Requests : Consult(origin, Requests[r], NoReport, 0)
      BY <1>4 DEF Adjust
    <2>2. Requests[r].replicas \in Int
      BY RevisionAssumption DEF Inputs
    <2>3. pc = "adjust" /\ UNCHANGED spec /\ pc' \in {"policy", "done"}
      BY <1>4 DEF Adjust, End, Go
    <2>4. OnlyGroups /\ Whole(result'.spec.services) /\ Whole(spec.services) /\ Whole(origin.services)
      BY <1>0, <2>1, <2>2, <2>3, RevisionWhole
    <2>. QED
      BY <1>0, <2>3, <2>4 DEF GroupsInv
  <1>5. ASSUME Check PROVE GroupsInv'
    <2>1. /\ pc = "policy" /\ UNCHANGED <<result, kinds>> /\ pc' \in {"prepare", "done"}
          /\ spec' \in {spec, WithProject(result.spec, origin.project)}
      BY <1>5 DEF Check, NoConsult, End, Go
    <2>2. /\ OnlyGroups /\ Whole(origin.services) /\ Whole(spec.services)
          /\ Whole(result.spec.services) /\ IsSpec(result.spec)
      BY <1>0, <1>1, <2>1 DEF OnlyGroups, OnlyResized, GroupsInv, ReviewInv
    <2>3. Whole(WithProject(result.spec, origin.project).services)
      BY <2>2 DEF WithProject, IsSpec, IsRecord
    <2>. QED
      BY <1>0, <2>1, <2>2, <2>3 DEF GroupsInv
  <1>6. ASSUME Prepare PROVE GroupsInv'
    <2>1. pc = "prepare" /\ UNCHANGED <<spec, result, kinds>> /\ shown' = Shown(spec)
      BY <1>6 DEF Prepare, NoConsult
    <2>2. /\ OnlyGroups /\ Whole(origin.services) /\ Whole(spec.services)
          /\ Whole(result.spec.services) /\ IsSpec(spec) /\ IsSpec(origin)
      BY <1>0, <1>1, <2>1 DEF OnlyGroups, OnlyResized, GroupsInv, ReviewInv
    <2>3. Whole(shown'.services)
      BY <2>1, <2>2, WholeShown
    <2>. QED
      BY <1>0, <2>1, <2>2, <2>3 DEF GroupsInv
  <1>7. ASSUME NEW w, w.replicas \in Int, Consult(spec, w, NoReport, 0), pc \in {"approve", "clarify"},
               NEW last, AfterPreview(last)
        PROVE  GroupsInv'
    <2>1. OnlyGroups /\ Whole(result'.spec.services) /\ Whole(spec.services) /\ Whole(origin.services)
      BY <1>0, <1>7, RevisionWhole
    <2>2. spec' \in {spec, result'.spec} /\ pc' \in {"done", "clarify", "prepare"}
      BY <1>7 DEF AfterPreview, End, Go
    <2>. QED
      BY <1>0, <2>1, <2>2 DEF GroupsInv
  <1>8. ASSUME Change PROVE GroupsInv'
    <2>1. PICK r \in DOMAIN Requests : Consult(spec, Requests[r], NoReport, 0)
      BY <1>8 DEF Change
    <2>2. Requests[r].replicas \in Int
      BY RevisionAssumption DEF Inputs
    <2>. QED
      BY <1>7, <1>8, <2>1, <2>2 DEF Change
  <1>9. ASSUME Clarify PROVE GroupsInv'
    <2>1. PICK w \in Answers : Consult(spec, w, NoReport, 0)
      BY <1>9 DEF Clarify
    <2>. QED
      BY <1>7, <1>9, <2>1, AnswersAreWords DEF Clarify
  <1>10. ASSUME Approve \/ Decline \/ GiveUp PROVE GroupsInv'
    BY <1>3, <1>10 DEF Approve, Decline, GiveUp, End, NoConsult
  <1>11. ASSUME Scan \/ Deployed \/ Failed \/ Propose \/ Yes \/ No \/ Other \/ Resolved \/ Ask
         PROVE  FALSE
    <2>1. pc \in Deploying
      BY <1>11 DEF Scan, Deployed, Failed, Propose, Yes, No, Other, Resolved, Ask, Deploying
    <2>. QED
      BY <1>1, <2>1 DEF ReviewInv
  <1>12. ASSUME UNCHANGED vars PROVE GroupsInv'
    BY <1>2, <1>12 DEF vars
  <1>. QED
    BY <1>4, <1>5, <1>6, <1>8, <1>9, <1>10, <1>11, <1>12 DEF Next, Finished

(* The group of a base is one service under its name, or its replicas.     *)
LEMMA GroupIsWhole ==
  ASSUME NEW sp, IsSpec(sp), Whole(sp.services), NEW base \in Bases(sp),
         NEW group, group = Group(sp, base)
  PROVE  /\ \/ NamesOf(group) = {base}
            \/ NamesOf(group) = {Append(base, i) : i \in 1..Cardinality(group)}
         /\ \A s \in sp.services \ group :
              s.deps \cap NamesOf(group) # {} => NamesOf(group) \subseteq s.deps
  <1>. DEFINE S == sp.services
  <1>0. AreServices(S) /\ Once(S) /\ NumberedWell(S) /\ Counted(S) /\ OnAll(S)
    BY DEF Whole, AreServices, IsSpec
  <1>1. PICK t \in S : t.kind = "database" /\ base = Logical(t.name)
    BY DEF Bases, Databases
  <1>2. IsName(base) /\ ~Numbered(base)
    BY <1>0, <1>1, WholeName
  <1>3. group = {s \in S : s.kind = "database" /\ Logical(s.name) = base} /\ t \in group
    BY <1>1 DEF Group, Databases
  <1>4. ASSUME NEW s \in S, Logical(s.name) = base PROVE s \in group
    <2>1. s = t \/ (Numbered(s.name) /\ Numbered(t.name))
      BY <1>0, <1>1, <1>4, SameLogical
    <2>. QED
      BY <1>0, <1>1, <1>3, <1>4, <2>1 DEF NumberedWell
  <1>5. ASSUME ~Numbered(t.name) PROVE NamesOf(group) = {base}
    <2>1. t.name = base
      BY <1>0, <1>1, <1>5, WholeName
    <2>2. \A s \in group : s = t
      BY <1>0, <1>1, <1>3, <1>5, SameLogical
    <2>. QED
      BY <1>3, <2>1, <2>2 DEF NamesOf
  <1>6. ASSUME Numbered(t.name) PROVE NamesOf(group) = {Append(base, i) : i \in 1..Cardinality(group)}
    <2>1. PICK n \in Nat : \A i \in Nat : Append(base, i) \in NamesOf(S) <=> i \in 1..n
      BY <1>0, <1>1 DEF Counted
    <2>. DEFINE f == [s \in group |-> Ordinal(s.name)]
    <2>2. ASSUME NEW s \in group PROVE s.name = Append(base, Ordinal(s.name)) /\ Ordinal(s.name) \in 1..n
      <3>1. Numbered(s.name)
        BY <1>0, <1>1, <1>3, <1>6, SameLogical
      <3>2. s.name = Append(base, Ordinal(s.name)) /\ Ordinal(s.name) \in Nat
        BY <1>0, <1>3, <3>1, WholeName
      <3>3. Append(base, Ordinal(s.name)) \in NamesOf(S)
        BY <1>3, <3>2 DEF NamesOf
      <3>. QED
        BY <2>1, <3>2, <3>3
    <2>3. ASSUME NEW i \in 1..n
          PROVE  \E s \in group : s.name = Append(base, i) /\ Ordinal(s.name) = i
      <3>1. i \in Nat
        OBVIOUS
      <3>2. PICK s \in S : s.name = Append(base, i)
        BY <2>1, <3>1 DEF NamesOf
      <3>3. Logical(s.name) = base /\ Ordinal(s.name) = i
        BY <1>2, <3>1, <3>2, NumberBehind
      <3>. QED
        BY <1>4, <3>2, <3>3
    <2>4. f \in Bijection(group, 1..n)
      <3>1. f \in [group -> 1..n]
        BY <2>2
      <3>2. \A s, u \in group : f[s] = f[u] => s = u
        BY <1>0, <1>3, <2>2 DEF Once
      <3>3. \A i \in 1..n : \E s \in group : f[s] = i
        BY <2>3
      <3>. HIDE DEF f
      <3>. QED
        BY <3>1, <3>2, <3>3 DEF Bijection, Injection, Surjection, IsInjective
    <2>5. ExistsBijection(group, 1..n)
      <3>. HIDE DEF f
      <3>. QED
        BY <2>4 DEF ExistsBijection
    <2>6. IsFiniteSet(group)
      BY <1>3, FS_Subset DEF Whole
    <2>7. Cardinality(group) = n
      <3>1. Cardinality(1..n) = n
        BY FS_Interval
      <3>. QED
        BY <2>5, <2>6, <3>1, FS_Bijection
    <2>8. NamesOf(group) = {Append(base, i) : i \in 1..n}
      <3>1. ASSUME NEW s \in group PROVE s.name \in {Append(base, i) : i \in 1..n}
        BY <2>2
      <3>2. ASSUME NEW i \in 1..n PROVE Append(base, i) \in NamesOf(group)
        BY <2>3 DEF NamesOf
      <3>. QED
        BY <3>1, <3>2 DEF NamesOf
    <2>. QED
      BY <2>7, <2>8
  <1>7. ASSUME NEW s \in S \ group, s.deps \cap NamesOf(group) # {}
        PROVE  NamesOf(group) \subseteq s.deps
    <2>1. Logical(s.name) # base
      BY <1>4
    <2>2. PICK u \in group : u.name \in s.deps
      BY <1>7 DEF NamesOf
    <2>3. ASSUME NEW v \in group PROVE v.name \in s.deps
      BY <1>0, <1>3, <2>1, <2>2 DEF OnAll
    <2>. QED
      BY <2>3 DEF NamesOf
  <1>. QED
    BY <1>5, <1>6, <1>7

(* An adjustment that only resizes, and no replica without its group,      *)
(* shows whole groups only, if the groups of the snapshot were whole.      *)
THEOREM GroupsKept == ASSUME WholeSnapshots PROVE Spec => []GroupsAreWhole
  <1>1. Init => ReviewInv /\ GroupsInv
    BY ReviewStarts, GroupsStart
  <1>2. (ReviewInv /\ GroupsInv) /\ [Next]_vars => (ReviewInv /\ GroupsInv)'
    BY ReviewStep, GroupsStep
  <1>3. ReviewInv /\ GroupsInv => GroupsAreWhole
    <2>. SUFFICES ASSUME ReviewInv, GroupsInv, Shows(Resizes \ {"resize-member"}), NEW base \in Bases(shown)
                  PROVE  LET group == Group(shown, base)
                             names == NamesOf(group)
                         IN /\ \/ names = {base}
                               \/ names = {Append(base, i) : i \in 1..Cardinality(group)}
                            /\ \A s \in shown.services \ group : s.deps \cap names # {} => names \subseteq s.deps
      BY DEF GroupsAreWhole
    <2>1. Whole(shown.services)
      BY DEF Shows, GroupsInv, OnlyGroups, OnlyResized
    <2>2. IsSpec(shown)
      <3>1. shown = Shown(spec) /\ IsSpec(spec) /\ OnlyProxies(spec)
        BY DEF Shows, ReviewInv, Reviewing
      <3>. QED
        BY <3>1, ShownIs
    <2>. QED
      BY <2>1, <2>2, GroupIsWhole
  <1>. QED
    BY <1>1, <1>2, <1>3, PTL DEF Spec

-----------------------------------------------------------------------------
(* The bounds of the loop: an attempt past the guard's bound only as the   *)
(* loop is stopped, and questions only while there are rounds left.        *)
InStage ==
  /\ mode \in Modes /\ pc \in Stages /\ outcome \in Outcomes
  /\ outcome # "" <=> pc = "done"
InBounds ==
  /\ rounds \in 0..MaxRounds /\ previews \in 0..MaxPreviews /\ attempt \in 0..(MaxAttempts + 1)
  /\ pc # "done" => attempt <= MaxAttempts
Inside == InStage /\ InBounds

LEMMA InsideStep ==
  ASSUME Inside, [Next]_vars
  PROVE  Inside'
  <1>. DEFINE Goal == Inside'
  <1>0. MaxPreviews \in Nat /\ MaxAttempts \in Nat /\ MaxRounds \in Nat
    BY RevisionAssumption DEF Inputs
  <1>1. ASSUME UNCHANGED <<mode, rounds, previews, attempt>>, pc # "done",
               \/ pc' \in Stages \ {"done"} /\ outcome' = outcome
               \/ pc' = "done" /\ outcome' \in Outcomes \ {""}
        PROVE  Goal
    BY <1>1 DEF Inside, InStage, InBounds, Stages, Outcomes
  <1>2. ASSUME Adjust PROVE Goal
    BY <1>1, <1>2, Zenon DEF Adjust, End, Go, Stages, Outcomes
  <1>3. ASSUME Check PROVE Goal
    BY <1>1, <1>3 DEF Check, End, Go, Stages, Outcomes
  <1>4. ASSUME Prepare PROVE Goal
    BY <1>1, <1>4 DEF Prepare, End, Go, Stages, Outcomes
  <1>5. ASSUME Approve \/ Decline \/ Deployed \/ No PROVE Goal
    BY <1>1, <1>5 DEF Approve, Decline, Deployed, No, End, Stages, Outcomes
  <1>6. ASSUME Change PROVE Goal
    <2>1. /\ UNCHANGED <<mode, rounds, attempt>> /\ pc = "approve"
          /\ previews' = previews + 1 /\ previews < MaxPreviews
          /\ \/ pc' \in {"clarify", "prepare"} /\ outcome' = outcome
             \/ pc' = "done" /\ outcome' \in {"threw", "unclear"}
      BY <1>6 DEF Change, AfterPreview, End, Go
    <2>2. InStage'
      BY <2>1 DEF Inside, InStage, Stages, Outcomes
    <2>3. InBounds'
      BY <1>0, <2>1 DEF Inside, InBounds
    <2>. QED
      BY <2>2, <2>3 DEF Inside
  <1>7. ASSUME Clarify PROVE Goal
    BY <1>1, <1>7 DEF Clarify, AfterPreview, End, Go, Stages, Outcomes
  <1>8. ASSUME GiveUp PROVE Goal
    BY <1>1, <1>8 DEF GiveUp, End, Stages, Outcomes
  <1>9. ASSUME Scan \/ Failed PROVE Goal
    <2>1. CASE UNCHANGED attempt
      BY <1>1, <1>9, <2>1 DEF Scan, Failed, Report, End, Go, Stages, Outcomes
    <2>2. CASE \E found : Report(found)
      <3>1. /\ attempt' = attempt + 1
            /\ IF attempt + 1 > MaxAttempts THEN pc' = "done" /\ outcome' = "stopped"
                                            ELSE pc' = "revise" /\ outcome' = outcome
        BY <2>2 DEF Report, End, Go
      <3>2. UNCHANGED <<mode, rounds, previews>> /\ pc \in {"scan", "deploy"}
        BY <1>9 DEF Scan, Failed
      <3>3. InStage'
        BY <3>1, <3>2 DEF Inside, InStage, Stages, Outcomes
      <3>4. InBounds'
        BY <1>0, <3>1, <3>2 DEF Inside, InBounds
      <3>. QED
        BY <3>3, <3>4 DEF Inside
    <2>. QED
      BY <1>9, <2>1, <2>2 DEF Scan, Failed
  <1>10. ASSUME Propose PROVE Goal
    <2>1. /\ UNCHANGED <<mode, previews, attempt>> /\ pc = "revise" /\ rounds' = 0
          /\ \/ pc' = "decide" /\ outcome' = outcome
             \/ pc' = "done" /\ outcome' = "threw"
      BY <1>10 DEF Propose, End, Go
    <2>2. InStage'
      BY <2>1 DEF Inside, InStage, Stages, Outcomes
    <2>3. InBounds'
      BY <1>0, <2>1 DEF Inside, InBounds
    <2>. QED
      BY <2>2, <2>3 DEF Inside
  <1>11. ASSUME Yes \/ Resolved PROVE Goal
    BY <1>1, <1>11 DEF Yes, Resolved, Adopt, End, Go, Stages, Outcomes
  <1>12. ASSUME Other PROVE Goal
    <2>1. /\ UNCHANGED <<mode, rounds, previews, attempt>> /\ pc = "decide"
          /\ \/ pc' = "resolve" /\ outcome' = outcome
             \/ pc' = "done" /\ outcome' = "threw"
      BY <1>12 DEF Other, End, Go
    <2>. QED
      BY <1>1, <2>1 DEF Stages, Outcomes
  <1>13. ASSUME Ask PROVE Goal
    <2>1. /\ UNCHANGED <<mode, previews, attempt>> /\ pc = "resolve"
          /\ rounds' = rounds + 1 /\ rounds < MaxRounds
          /\ \/ pc' = "resolve" /\ outcome' = outcome
             \/ pc' = "done" /\ outcome' = "threw"
      BY <1>13 DEF Ask, End, Go
    <2>2. InStage'
      BY <2>1 DEF Inside, InStage, Stages, Outcomes
    <2>3. InBounds'
      BY <1>0, <2>1 DEF Inside, InBounds
    <2>. QED
      BY <2>2, <2>3 DEF Inside
  <1>14. ASSUME UNCHANGED vars PROVE Goal
    BY <1>14 DEF vars, Inside, InStage, InBounds
  <1>. QED
    BY <1>2, <1>3, <1>4, <1>5, <1>6, <1>7, <1>8, <1>9, <1>10, <1>11, <1>12, <1>13, <1>14
       DEF Next, Finished

THEOREM RoundsBounded == Spec => []TypeOK
  <1>1. Init => Inside
    <2>. SUFFICES ASSUME Init PROVE Inside
      OBVIOUS
    <2>1. /\ mode \in Modes /\ pc \in {"adjust", "prepare", "scan"}
          /\ rounds = 0 /\ previews = 0 /\ attempt = 0 /\ outcome = ""
      BY DEF Init, Modes
    <2>2. MaxPreviews \in Nat /\ MaxAttempts \in Nat /\ MaxRounds \in Nat
      BY RevisionAssumption DEF Inputs
    <2>3. InStage
      BY <2>1 DEF InStage, Stages, Outcomes
    <2>4. InBounds
      <3>1. /\ 0 \in 0..MaxRounds /\ 0 \in 0..MaxPreviews
            /\ 0 \in 0..(MaxAttempts + 1) /\ 0 <= MaxAttempts
        BY <2>2
      <3>. QED
        BY <2>1, <3>1 DEF InBounds
    <2>. QED
      BY <2>3, <2>4 DEF Inside
  <1>2. Inside /\ [Next]_vars => Inside'
    BY InsideStep
  <1>3. Inside => TypeOK
    BY DEF Inside, InStage, InBounds, TypeOK
  <1>. QED
    BY <1>1, <1>2, <1>3, PTL DEF Spec
=============================================================================
