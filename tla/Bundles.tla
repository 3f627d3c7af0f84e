-------------------------------- MODULE Bundles --------------------------------
(***************************************************************************)
(* From build specs to the packages under bundles/: the platform of each   *)
(* build (do of make.go, the targets, WithPlatformEnvs of target.go), the  *)
(* names that the packagers give to what they make of it, and the exports  *)
(* of one build after another into the same directory.                     *)
(*                                                                         *)
(* An architecture is the tuple of its parts: <<"arm", "/", "v7">> is      *)
(* "arm/v7", <<"arm", "v7">> is "armv7" and <<>> is "".  A platform is an  *)
(* operating system and an architecture, with a slash understood between.  *)
(*                                                                         *)
(* External: fpm names a deb by its package, version and architecture.     *)
(***************************************************************************)
EXTENDS Integers, Sequences, FiniteSets

CONSTANTS
  Specs,      \* build specs: pkg, distro, arch, repo, commit, tag, revision
  Defaults,   \* the default platforms that engines have
  MaxBuilds   \* bound on the packages built

ASSUME SpecsAssumption ==
  Specs \subseteq
    [pkg: STRING, distro: STRING, arch: Seq(STRING), repo: STRING, commit: STRING,
     tag: STRING, revision: STRING]
ASSUME DefaultsAssumption == \A p \in Defaults : p \in Seq(STRING) /\ Len(p) >= 2
ASSUME MaxBuildsAssumption == MaxBuilds \in Nat

VARIABLES
  pc,       \* the step of the build command, "idle" before and after it
  default,  \* platform of the engine
  spec,     \* the build spec, as it is now
  target,   \* Target
  env,      \* the variables of WithPlatformEnvs
  package,  \* what the packager makes: its file name, and the --architecture for fpm
  bundles,  \* file -> the spec it was built from
  built     \* the specs of all exports (history)

build       == <<default, spec, target, env, package>>
bundlesVars == <<pc, build, bundles, built>>

Lookup(map, key) == IF key \in DOMAIN map THEN map[key] ELSE ""

debs == {"jammy", "focal", "bionic", "bullseye", "buster"}
rpms == {"rhel8", "rhel9", "centos7", "mariner2"}

kinds ==
  [d \in debs \cup rpms \cup {"windows"} |->
    IF d \in debs THEN "deb" ELSE IF d \in rpms THEN "rpm" ELSE "win"]

debDistroMap ==
  [bionic |-> "ubuntu18.04", focal |-> "ubuntu20.04", jammy |-> "ubuntu22.04",
   buster |-> "debian10", bullseye |-> "debian11"]

rpmDistroMap == [centos7 |-> "el7", rhel8 |-> "el8", rhel9 |-> "el9", mariner2 |-> "cm2"]

rpmArchMap ==
  [a \in {<<"amd64">>, <<"arm64">>} |-> IF a = <<"amd64">> THEN "x86_64" ELSE "aarch64"]

none == [none |-> TRUE]

-----------------------------------------------------------------------------
(* do *)

\* readBuildSpec
Start ==
  /\ pc \in {"idle", "panicked"} /\ Cardinality(built) < MaxBuilds
  /\ spec' \in Specs /\ default' \in Defaults
  /\ pc' = "do"
  /\ target' = none /\ env' = none /\ package' = none
  /\ UNCHANGED <<bundles, built>>

\* What follows the first slash of the default platform, if the spec has nothing.
DefaultArch ==
  /\ pc = "do" /\ pc' = "target"
  /\ spec' = IF spec.arch = <<>> THEN [spec EXCEPT !.arch = Tail(default)] ELSE spec
  /\ UNCHANGED <<default, target, env, package, bundles, built>>

\* Mutant of After: a constructor installs Go first.
AfterGoFirst(step) ==
  CASE step = "target"           -> "InstallGo"
    [] step = "InstallGo"        -> "WithPlatformEnvs"
    [] step = "WithPlatformEnvs" -> "make"

\* t.WithPlatformEnvs().InstallGo(ctx), in every constructor.
After(step) ==
  CASE step = "target"           -> "WithPlatformEnvs"
    [] step = "WithPlatformEnvs" -> "InstallGo"
    [] step = "InstallGo"        -> "make"

Os(distro) == IF distro = "windows" THEN "windows" ELSE "linux"

\* Mutant of Image: the constructors do not ask for a platform.
ImageOfEngine(distro, platform) == default

\* The image has the target's platform, but for windows.
Image(distro, platform) == IF distro = "windows" THEN default ELSE platform

GetTarget ==
  /\ pc = "target"
  /\ IF spec.distro \notin DOMAIN kinds THEN pc' = "panicked" /\ UNCHANGED target
     ELSE LET platform == <<Os(spec.distro)>> \o spec.arch
          IN /\ target' = [name |-> spec.distro, platform |-> platform,
                           image |-> Image(spec.distro, platform),
                           pkgKind |-> kinds[spec.distro], buildPlatform |-> default]
             /\ pc' = After("target")
  /\ UNCHANGED <<default, spec, env, package, bundles, built>>

\* Every method of Target returns one that has lost its build platform.
update(t) == [t EXCEPT !.buildPlatform = <<>>]

\* SplitN(platform, "/", 2) has two parts at most, so none is left for a variant.
Split(platform) == [os |-> platform[1], arch |-> Tail(platform), variant |-> <<>>]

WithPlatformEnvs ==
  /\ pc = "WithPlatformEnvs"
  /\ IF target.buildPlatform = <<>> THEN pc' = "panicked" /\ UNCHANGED <<env, target>>
     ELSE /\ env' = [BUILD |-> Split(target.buildPlatform), TARGET |-> Split(target.platform)]
          /\ target' = update(target)
          /\ pc' = After("WithPlatformEnvs")
  /\ UNCHANGED <<default, spec, package, bundles, built>>

InstallGo ==
  /\ pc = "InstallGo" /\ pc' = After("InstallGo")
  /\ target' = update(target)
  /\ UNCHANGED <<default, spec, env, package, bundles, built>>

-----------------------------------------------------------------------------
(* Packaging *)

\* strings.Replace(project.Arch, "/", "", -1): what fpm is told.
NoSlashes(arch) == SelectSeq(arch, LAMBDA part : part # "/")

\* Mutant of debName: the version lacks the revision.
debNameNoRevision(s) == [pkg |-> s.pkg, version |-> <<s.tag, Lookup(debDistroMap, s.distro)>>,
                         arch |-> NoSlashes(s.arch)]

debName(s) ==
  [pkg |-> s.pkg, version |-> <<s.tag, Lookup(debDistroMap, s.distro), s.revision>>,
   arch |-> NoSlashes(s.arch)]

rpmName(s) ==
  [pkg |-> s.pkg, version |-> <<s.tag, s.revision>>,
   dist |-> Lookup(rpmDistroMap, s.distro), arch |-> Lookup(rpmArchMap, s.arch)]

\* Neither the architecture nor the revision.
winName(s) == [pkg |-> s.pkg, version |-> s.tag]

Name(s) ==
  CASE target.pkgKind = "deb" -> debName(s)
    [] target.pkgKind = "rpm" -> rpmName(s)
    [] target.pkgKind = "win" -> winName(s)

Make ==
  /\ pc = "make" /\ pc' = "export"
  /\ package' = [name |-> Name(spec),
                 arch |-> IF target.pkgKind = "win" THEN <<>> ELSE NoSlashes(spec.arch)]
  /\ UNCHANGED <<default, spec, target, env, bundles, built>>

\* Export replaces files of the same name.
Export ==
  /\ pc = "export" /\ pc' = "idle"
  /\ LET path == <<spec.distro, package.name>>
     IN bundles' = [p \in DOMAIN bundles \cup {path} |-> IF p = path THEN spec ELSE bundles[p]]
  /\ built' = built \cup {spec}
  /\ UNCHANGED build

BundlesInit ==
  /\ pc = "idle"
  /\ default \in Defaults /\ spec \in Specs
  /\ target = none /\ env = none /\ package = none
  /\ bundles = <<>> /\ built = {}

BundlesNext ==
  Start \/ DefaultArch \/ GetTarget \/ WithPlatformEnvs \/ InstallGo \/ Make \/ Export

BundlesSpec == BundlesInit /\ [][BundlesNext]_bundlesVars

-----------------------------------------------------------------------------
(* Properties *)

\* A build command panics only for a distribution that it does not know, apart
\* from calls that fail, which are BuildSession's.
PanicsForUnknown == pc = "panicked" => spec.distro \notin DOMAIN kinds

\* fpm is told the architecture of the image that the package was built in,
\* whether the spec or the engine named it.
TellsArchitecture ==
  pc = "export" /\ target.pkgKind # "win" => package.arch = NoSlashes(Tail(target.image))

\* An architecture and another that a deb or an rpm can be taken for: the same one,
\* for a deb also one that a slash tells apart (arm/v7 and armv7), for an rpm any
\* two that rpmArchMap does not have.
SameArch(kind, a, b) ==
  \/ a = b
  \/ kind = "deb" /\ NoSlashes(a) = NoSlashes(b)
  \/ kind = "rpm" /\ {a, b} \cap DOMAIN rpmArchMap = {}

\* Builds of one package, distribution and tag that are taken for each other: those
\* of a zip, and those of one revision and architecture, from whatever repository
\* and commit.  "The commit field is the commit hash of the tag" (README.md:33):
\* nothing but the tag says in a file name which commit was built.
Alike(b, c) ==
  /\ b.pkg = c.pkg /\ b.distro = c.distro /\ b.tag = c.tag
  /\ b.distro = "windows" \/ (b.revision = c.revision /\ SameArch(kinds[b.distro], b.arch, c.arch))

\* A package stays in bundles until it is built again, or another that is Alike: no
\* build of another package, distribution, tag, revision or architecture takes its
\* place, but for zips and the architectures that SameArch confuses.
NothingLost ==
  \A b \in built :
    \/ \E path \in DOMAIN bundles : bundles[path] = b
    \/ \E c \in built \ {b} : Alike(b, c)
=============================================================================
