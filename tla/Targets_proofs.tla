---------------------------- MODULE Targets_proofs ----------------------------
(***************************************************************************)
(* Proofs about targets.  The apt cache volumes (AptCache), for any number *)
(* of builds, volumes and ways of sharing them: IInv adds to the           *)
(* properties that an exec at work holds both of its volumes.  And the     *)
(* platforms and packages of builds (Bundles), for any specs and engines.  *)
(***************************************************************************)
EXTENDS AptCache, Bundles, TLAPS


\* An exec at work holds its two volumes, one in between the first of them.
Held ==
  \A e \in Execs :
    /\ at[e] \in Busy => lock[Cache[e]] = e /\ lock[Lib[e]] = e
    /\ at[e] = "half" => lock[Cache[e]] = e

IInv == TypeOK /\ Held /\ InstallsFromFreshLists

\* The volumes of an exec are two, in the order in which they are mounted.
LEMMA TwoVolumes ==
  ASSUME NEW e \in Execs
  PROVE  /\ Cache[e] \in Volumes /\ Lib[e] \in Volumes /\ Cache[e] # Lib[e]
         /\ First(e) = Cache[e] /\ Second(e) = Lib[e]
  BY VolumesAssumption DEF First, Second

LEMMA InitIInv == Init => IInv
  BY DEF Init, IInv, TypeOK, Held, InstallsFromFreshLists, Busy

\* Taking, holding and giving back: an exec that ends gives back its own volumes
\* only.
LEMMA EndKeepsOthers ==
  ASSUME TypeOK, Held, NEW e \in Execs, NEW how \in {"done", "failed"}, End(e, how)
  PROVE  TypeOK /\ fresh' \in SUBSET Volumes /\ partial' \in SUBSET Execs => TypeOK' /\ Held'
  <1>1. at' = [at EXCEPT ![e] = how]
    BY DEF End, Move
  <1>2. lock' = [v \in Volumes |-> IF lock[v] = e THEN NoOne ELSE lock[v]]
    BY DEF End
  <1>3. at' \in [Execs -> Busy \cup {"waiting", "half", "done", "failed"}]
    BY <1>1 DEF TypeOK
  <1>4. lock' \in [Volumes -> Execs \cup {NoOne}]
    BY <1>2 DEF TypeOK
  <1>5. ASSUME NEW d \in Execs PROVE /\ at'[d] \in Busy => lock'[Cache[d]] = d /\ lock'[Lib[d]] = d
                                     /\ at'[d] = "half" => lock'[Cache[d]] = d
    <2>1. CASE d = e
      BY <1>1, <2>1 DEF TypeOK, Busy
    <2>2. CASE d # e
      BY <1>1, <1>2, <2>2, TwoVolumes DEF TypeOK, Held
    <2> QED BY <2>1, <2>2
  <1>6. Held'
    BY <1>5 DEF Held
  <1> QED BY <1>3, <1>4, <1>6 DEF TypeOK

\* A step of the script keeps the locks, and the lists of the other installs.
LEMMA StepKeeps ==
  ASSUME IInv, NEW e \in Execs, Step(e)
  PROVE  IInv'
  <1> USE DEF IInv
  <1>1. CASE TakeFirst(e)
    BY <1>1, TwoVolumes, ExecsAssumption
    DEF TakeFirst, Take, Move, TypeOK, Held, InstallsFromFreshLists, Busy
  <1>2. CASE TakeSecond(e)
    BY <1>2, TwoVolumes, ExecsAssumption
    DEF TakeSecond, Take, Move, TypeOK, Held, InstallsFromFreshLists, Busy
  <1>3. CASE Check(e)
    BY <1>3 DEF Check, Move, TypeOK, Held, InstallsFromFreshLists, Busy
  <1>4. CASE Updated(e)
    BY <1>4, TwoVolumes
    DEF Updated, Then, Move, TypeOK, Held, InstallsFromFreshLists, Busy
  <1>5. CASE UpdatedInPart(e)
    BY <1>5 DEF UpdatedInPart, Then, Move, TypeOK, Held, InstallsFromFreshLists, Busy
  <1>6. CASE Finish(e)
    <2>1. TypeOK' /\ Held'
      BY <1>6, EndKeepsOthers DEF Finish, TypeOK
    <2>2. InstallsFromFreshLists'
      BY <1>6 DEF Finish, End, Move, TypeOK, InstallsFromFreshLists
    <2> QED BY <2>1, <2>2
  <1>7. CASE Stopped(e)
    <2>1. TypeOK' /\ Held'
      BY <1>7, EndKeepsOthers DEF Stopped, TypeOK
    <2>2. InstallsFromFreshLists'
      BY <1>7 DEF Stopped, End, Move, TypeOK, InstallsFromFreshLists
    <2> QED BY <2>1, <2>2
  <1> QED BY <1>1, <1>2, <1>3, <1>4, <1>5, <1>6, <1>7 DEF Step

LEMMA StoppedKeeps ==
  ASSUME IInv, NEW e \in Execs, Stopped(e)
  PROVE  IInv'
  <1>1. TypeOK' /\ Held'
    BY EndKeepsOthers DEF IInv, Stopped, TypeOK
  <1>2. InstallsFromFreshLists'
    BY DEF IInv, Stopped, End, Move, TypeOK, InstallsFromFreshLists
  <1> QED BY <1>1, <1>2 DEF IInv

\* Only a volume nobody holds is pruned, so never the lists of an install.
LEMMA PruneKeeps ==
  ASSUME IInv, NEW v \in Volumes, Prune(v)
  PROVE  IInv'
  <1>1. TypeOK' /\ Held'
    BY DEF IInv, Prune, TypeOK, Held
  <1>2. ASSUME NEW e \in Execs, at[e] = "install" PROVE Lib[e] # v
    BY <1>2, ExecsAssumption DEF IInv, Held, Prune, Busy
  <1>3. InstallsFromFreshLists'
    BY <1>2 DEF IInv, Prune, InstallsFromFreshLists
  <1> QED BY <1>1, <1>3 DEF IInv

LEMMA NextIInv == IInv /\ [Next]_vars => IInv'
  <1> SUFFICES ASSUME IInv, [Next]_vars PROVE IInv'
    OBVIOUS
  <1>1. CASE Hour
    BY <1>1 DEF Hour, IInv, TypeOK, Held, InstallsFromFreshLists
  <1>2. CASE UNCHANGED vars
    BY <1>2 DEF vars, IInv, TypeOK, Held, InstallsFromFreshLists
  <1> QED BY <1>1, <1>2, StepKeeps, StoppedKeeps, PruneKeeps DEF Next

THEOREM Invariant == Spec => []IInv
  BY InitIInv, NextIInv, PTL DEF Spec

\* Type correctness.
THEOREM TypeCorrect == Spec => []TypeOK
  <1>1. IInv => TypeOK
    BY DEF IInv
  <1> QED BY <1>1, Invariant, PTL

\* Whatever the builds and the volumes they share, two execs with a volume in
\* common are never at work together.
THEOREM MutualExclusion == Spec => []OneAtATime
  <1>1. IInv => OneAtATime
    BY DEF IInv, Held, OneAtATime
  <1> QED BY <1>1, Invariant, PTL

\* No install goes by lists older than an hour, whatever was pruned; only the exec
\* whose own update was partial has none to go by.
THEOREM FreshInstalls == Spec => []InstallsFromFreshLists
  <1>1. IInv => InstallsFromFreshLists
    BY DEF IInv
  <1> QED BY <1>1, Invariant, PTL

-----------------------------------------------------------------------------
(* Builds one after another *)

SpecType ==
  [pkg: STRING, distro: STRING, arch: Seq(STRING), repo: STRING, commit: STRING,
   tag: STRING, revision: STRING]

Known == DOMAIN kinds

\* The target of the build at hand, with the build platform it still has.
TargetOf(s, platform) ==
  [name |-> s.distro, platform |-> <<Os(s.distro)>> \o s.arch,
   image |-> Image(s.distro, <<Os(s.distro)>> \o s.arch),
   pkgKind |-> kinds[s.distro], buildPlatform |-> platform]

NameOf(s) ==
  CASE kinds[s.distro] = "deb" -> debName(s)
    [] kinds[s.distro] = "rpm" -> rpmName(s)
    [] kinds[s.distro] = "win" -> winName(s)

\* Every constructor takes the build platform before anything loses it.
TargetMade ==
  /\ pc = "WithPlatformEnvs" => target = TargetOf(spec, default)
  /\ pc \in {"InstallGo", "make", "export"} => target = TargetOf(spec, <<>>)
  /\ pc \in {"WithPlatformEnvs", "InstallGo", "make", "export"} => spec.distro \in Known
  /\ pc = "panicked" => spec.distro \notin Known

Packaged ==
  pc = "export" => package = [name |-> NameOf(spec),
                              arch |-> IF kinds[spec.distro] = "win" THEN <<>>
                                       ELSE NoSlashes(spec.arch)]

\* A file has the name of what it was made from.
Named ==
  /\ \A p \in DOMAIN bundles : bundles[p] \in built /\ p = <<bundles[p].distro, NameOf(bundles[p])>>
  /\ \A b \in built : b \in SpecType /\ b.distro \in Known

BundlesInv ==
  /\ spec \in SpecType /\ default \in Defaults
  /\ TargetMade /\ Packaged /\ Named /\ NothingLost

LEMMA KindsOf ==
  /\ \A d \in Known : kinds[d] \in {"deb", "rpm", "win"} /\ (kinds[d] = "win" <=> d = "windows")
  /\ "windows" \in Known
  BY DEF Known, kinds, debs, rpms

LEMMA UpdatedTarget ==
  ASSUME NEW s, NEW platform
  PROVE  /\ TargetOf(s, platform).buildPlatform = platform
         /\ update(TargetOf(s, platform)) = TargetOf(s, <<>>)
  <1> DEFINE t == TargetOf(s, platform)
             u == TargetOf(s, <<>>)
  <1>1. t.buildPlatform = platform /\ u.buildPlatform = <<>>
    BY DEF TargetOf
  <1>2. DOMAIN t = DOMAIN u /\ "buildPlatform" \in DOMAIN t
    BY DEF TargetOf
  <1>3. \A f \in DOMAIN u \ {"buildPlatform"} : t[f] = u[f]
    <2>1. /\ t.name = u.name /\ t.platform = u.platform
          /\ t.image = u.image /\ t.pkgKind = u.pkgKind
      BY DEF TargetOf
    <2>2. DOMAIN u \ {"buildPlatform"} = {"name", "platform", "image", "pkgKind"}
      BY DEF TargetOf
    <2> QED BY ONLY <2>1, <2>2
  <1>4. update(t) = [f \in DOMAIN t |-> IF f = "buildPlatform" THEN <<>> ELSE t[f]]
    BY DEF update
  <1>5. u = [f \in DOMAIN u |-> u[f]]
    BY DEF TargetOf
  <1> QED BY <1>1, <1>2, <1>3, <1>4, <1>5

\* What follows an operating system is the architecture.
LEMMA TailOfPlatform ==
  ASSUME NEW S, NEW os, NEW arch \in Seq(S)
  PROVE  Tail(<<os>> \o arch) = arch
  <1> DEFINE T == S \cup {os}
  <1>1. arch \in Seq(T)
    OBVIOUS
  <1>2. <<os>> \in Seq(T)
    OBVIOUS
  <1> HIDE DEF T
  <1> QED BY <1>1, <1>2

LEMMA DefaultType == ASSUME NEW p \in Defaults PROVE p \in Seq(STRING) /\ p # <<>> /\ Tail(p) \in Seq(STRING)
  BY DefaultsAssumption

\* Two builds whose packages have one name are alike, whatever their commits.
LEMMA SameName ==
  ASSUME NEW b \in SpecType, NEW c \in SpecType, b.distro \in Known, b # c,
         b.distro = c.distro, NameOf(b) = NameOf(c)
  PROVE  Alike(b, c)
  <1>1. CASE kinds[b.distro] = "deb"
    <2>1. debName(b) = debName(c)
      BY <1>1 DEF NameOf
    <2>2. /\ b.pkg = c.pkg /\ b.tag = c.tag /\ b.revision = c.revision
          /\ NoSlashes(b.arch) = NoSlashes(c.arch)
      BY <2>1 DEF debName
    <2> QED BY <1>1, <2>2 DEF Alike, SameArch
  <1>2. CASE kinds[b.distro] = "rpm"
    <2>1. rpmName(b) = rpmName(c)
      BY <1>2 DEF NameOf
    <2>2. /\ b.pkg = c.pkg /\ b.tag = c.tag /\ b.revision = c.revision
          /\ Lookup(rpmArchMap, b.arch) = Lookup(rpmArchMap, c.arch)
      BY <2>1 DEF rpmName
    <2>3. \/ b.arch = c.arch
          \/ b.arch \notin DOMAIN rpmArchMap /\ c.arch \notin DOMAIN rpmArchMap
      BY <2>2 DEF Lookup, rpmArchMap
    <2> QED BY <1>2, <2>2, <2>3 DEF Alike, SameArch
  <1>3. CASE kinds[b.distro] = "win"
    <2>1. winName(b) = winName(c)
      BY <1>3 DEF NameOf
    <2> QED BY <1>3, <2>1, KindsOf DEF winName, Alike
  <1> QED BY <1>1, <1>2, <1>3, KindsOf

LEMMA BundlesInitInv == BundlesInit => BundlesInv
  BY SpecsAssumption DEF BundlesInit, BundlesInv, SpecType, TargetMade, Packaged, Named, NothingLost

\* Who leaves bundles alone.
LEMMA BundlesKept ==
  ASSUME Named, NothingLost, UNCHANGED <<bundles, built>>
  PROVE  Named' /\ NothingLost'
  <1>1. bundles' = bundles /\ built' = built
    OBVIOUS
  <1>2. Named'
    BY ONLY Named, <1>1 DEF Named
  <1>3. NothingLost'
    BY ONLY NothingLost, <1>1 DEF NothingLost
  <1> QED BY <1>2, <1>3

LEMMA ExportStep ==
  ASSUME BundlesInv, Export
  PROVE  Named' /\ NothingLost'
  <1> DEFINE path == <<spec.distro, NameOf(spec)>>
  <1>1. /\ spec.distro \in Known /\ package.name = NameOf(spec)
        /\ bundles' = [p \in DOMAIN bundles \cup {path} |-> IF p = path THEN spec ELSE bundles[p]]
        /\ built' = built \cup {spec}
    BY DEF Export, BundlesInv, TargetMade, Packaged
  <1> HIDE DEF path
  <1>2. Named'
    <2>1. ASSUME NEW b \in built' PROVE b \in SpecType /\ b.distro \in Known
      BY <1>1, <2>1 DEF BundlesInv, Named
    <2>2. ASSUME NEW p \in DOMAIN bundles'
          PROVE  bundles'[p] \in built' /\ p = <<bundles'[p].distro, NameOf(bundles'[p])>>
      <3>1. CASE p = path
        BY <1>1, <3>1 DEF path
      <3>2. CASE p # path
        <4>1. p \in DOMAIN bundles /\ bundles'[p] = bundles[p]
          BY <1>1, <2>2, <3>2
        <4> QED BY <1>1, <4>1 DEF BundlesInv, Named
      <3> QED BY <3>1, <3>2
    <2> QED BY <2>1, <2>2 DEF Named
  <1>3. NothingLost'
    <2> SUFFICES ASSUME NEW b \in built'
                 PROVE  \/ \E p \in DOMAIN bundles' : bundles'[p] = b
                        \/ \E c \in built' \ {b} : Alike(b, c)
      BY DEF NothingLost
    <2>1. CASE b = spec
      BY <1>1, <2>1
    <2>2. CASE b # spec
      <3>1. b \in built
        BY <1>1, <2>2
      <3>2. CASE \E c \in built \ {b} : Alike(b, c)
        BY <1>1, <3>2
      <3>3. CASE \E p \in DOMAIN bundles : bundles[p] = b
        <4>1. PICK p \in DOMAIN bundles : bundles[p] = b
          BY <3>3
        <4>2. CASE p # path
          BY <1>1, <4>1, <4>2
        <4>3. CASE p = path
          <5>1. p = <<b.distro, NameOf(b)>> /\ b \in SpecType /\ b.distro \in Known
            BY <3>1, <4>1 DEF BundlesInv, Named
          <5>2. b.distro = spec.distro /\ NameOf(b) = NameOf(spec)
            BY <4>3, <5>1 DEF path
          <5>3. Alike(b, spec)
            BY <2>2, <5>1, <5>2, SameName DEF BundlesInv
          <5> QED BY <1>1, <2>2, <5>3
        <4> QED BY <4>2, <4>3
      <3> QED BY <3>1, <3>2, <3>3 DEF BundlesInv, NothingLost
    <2> QED BY <2>1, <2>2
  <1> QED BY <1>2, <1>3

LEMMA BundlesStep == BundlesInv /\ [BundlesNext]_bundlesVars => BundlesInv'
  <1> SUFFICES ASSUME BundlesInv, [BundlesNext]_bundlesVars PROVE BundlesInv'
    OBVIOUS
  <1> USE DEF BundlesInv
  <1>1. CASE UNCHANGED bundlesVars
    BY <1>1, BundlesKept DEF bundlesVars, build, TargetMade, Packaged, TargetOf, Image
  <1>2. CASE Start
    BY <1>2, BundlesKept, SpecsAssumption DEF Start, SpecType, TargetMade, Packaged
  <1>3. CASE DefaultArch
    <2>1. spec' \in SpecType
      BY <1>3, DefaultType DEF DefaultArch, SpecType
    <2> QED BY <1>3, <2>1, BundlesKept DEF DefaultArch, TargetMade, Packaged
  <1>4. CASE GetTarget
    <2>1. TargetMade'
      BY <1>4 DEF GetTarget, TargetMade, TargetOf, Image, After, Known
    <2>2. pc' # "export"
      BY <1>4 DEF GetTarget, After
    <2> QED BY <1>4, <2>1, <2>2, BundlesKept DEF GetTarget, Packaged
  <1>5. CASE WithPlatformEnvs
    <2>1. target = TargetOf(spec, default) /\ spec.distro \in Known /\ default # <<>>
      BY <1>5, DefaultType DEF WithPlatformEnvs, TargetMade
    <2>2. target.buildPlatform # <<>> /\ update(target) = TargetOf(spec, <<>>)
      BY <2>1, UpdatedTarget
    <2>3. pc' = "InstallGo" /\ target' = TargetOf(spec, <<>>)
      BY <1>5, <2>2 DEF WithPlatformEnvs, After
    <2>4. TargetMade'
      BY <1>5, <2>1, <2>3 DEF WithPlatformEnvs, TargetMade, TargetOf, Image
    <2> QED BY <1>5, <2>3, <2>4, BundlesKept DEF WithPlatformEnvs, Packaged
  <1>6. CASE InstallGo
    <2>1. target = TargetOf(spec, <<>>) /\ spec.distro \in Known
      BY <1>6 DEF InstallGo, TargetMade
    <2>2. pc' = "make" /\ target' = TargetOf(spec, <<>>)
      BY <1>6, <2>1, UpdatedTarget DEF InstallGo, After
    <2>3. TargetMade'
      BY <1>6, <2>1, <2>2 DEF InstallGo, TargetMade, TargetOf, Image
    <2> QED BY <1>6, <2>2, <2>3, BundlesKept DEF InstallGo, Packaged
  <1>7. CASE Make
    <2>1. target = TargetOf(spec, <<>>) /\ spec.distro \in Known
      BY <1>7 DEF Make, TargetMade
    <2>2. TargetMade'
      BY <1>7, <2>1 DEF Make, TargetMade, TargetOf, Image
    <2>3. Packaged'
      BY <1>7, <2>1 DEF Make, Packaged, TargetOf, Name, NameOf
    <2> QED BY <1>7, <2>2, <2>3, BundlesKept DEF Make
  <1>8. CASE Export
    BY <1>8, ExportStep DEF Export, build, TargetMade, Packaged
  <1> QED BY <1>1, <1>2, <1>3, <1>4, <1>5, <1>6, <1>7, <1>8 DEF BundlesNext

LEMMA BundlesAlways == BundlesSpec => []BundlesInv
  BY BundlesInitInv, BundlesStep, PTL DEF BundlesSpec

\* For any specs and engines: a build panics only for a distribution it does not
\* know; the build platform is never lost before it is asked for.
THEOREM OnlyUnknownPanics == BundlesSpec => []PanicsForUnknown
  <1>1. BundlesInv => PanicsForUnknown
    BY DEF BundlesInv, TargetMade, PanicsForUnknown, Known
  <1> QED BY <1>1, BundlesAlways, PTL

\* For any specs and engines: the architecture that fpm is told is that of the
\* image, whether the spec or the engine named it.
THEOREM ArchitectureIsTold == BundlesSpec => []TellsArchitecture
  <1>1. ASSUME BundlesInv, pc = "export", target.pkgKind # "win"
        PROVE  package.arch = NoSlashes(Tail(target.image))
    <2>1. /\ target = TargetOf(spec, <<>>) /\ spec.distro \in Known
          /\ package.arch = IF kinds[spec.distro] = "win" THEN <<>> ELSE NoSlashes(spec.arch)
      BY <1>1 DEF BundlesInv, TargetMade, Packaged
    <2>2. kinds[spec.distro] # "win" /\ spec.distro # "windows"
      BY <1>1, <2>1, KindsOf DEF TargetOf
    <2>3. target.image = <<Os(spec.distro)>> \o spec.arch
      BY <2>1, <2>2 DEF TargetOf, Image
    <2>4. spec.arch \in Seq(STRING)
      BY <1>1 DEF BundlesInv, SpecType
    <2>5. Tail(<<Os(spec.distro)>> \o spec.arch) = spec.arch
      BY <2>4, TailOfPlatform
    <2> QED BY <2>1, <2>2, <2>3, <2>5
  <1>2. BundlesInv => TellsArchitecture
    BY <1>1 DEF TellsArchitecture
  <1> QED BY <1>2, BundlesAlways, PTL

\* For any specs and engines: a package in bundles is replaced only when it is
\* built again, or by another of its distribution and tag and, but for a zip, of its
\* revision and of an architecture its own is taken for; another repository or commit
\* is no difference.
THEOREM BundlesAreKept == BundlesSpec => []NothingLost
  <1>1. BundlesInv => NothingLost
    BY DEF BundlesInv
  <1> QED BY <1>1, BundlesAlways, PTL
=============================================================================
