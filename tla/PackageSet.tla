------------------------------ MODULE PackageSet ------------------------------
(***************************************************************************)
(* The eight packages on one host, with those of other vendors: what each  *)
(* depends on, recommends, conflicts with and provides (moby-*/mapping.go, *)
(* as deb.go and rpm.go pass it on), and whether the daemons then run.     *)
(*                                                                         *)
(* A dependency is a name: no other package of a moby name exists, and the *)
(* versions shipped satisfy every bound in the tables.  Which packages of  *)
(* its own a distribution has is not in the repository: dependencies on    *)
(* those, and rpmPkgBlacklist with them, are left out.                     *)
(*                                                                         *)
(* External: the package manager installs what was asked for with all it   *)
(* needs, apt by default also what is recommended; apt removes what        *)
(* conflicts, rpm refuses.  Packages are configured one at a time, those   *)
(* they depend on first (those of a cycle in any order), and removed with  *)
(* those that depend on them.  systemd starts with a unit those it         *)
(* requires, and stops with it those that require it or are part of it.    *)
(* Debian hosts have deb-systemd-helper, which is essential there.         *)
(***************************************************************************)
EXTENDS Integers, FiniteSets

CONSTANTS
  Hosts,       \* the kinds of host: of which packages, and whether the helper that
               \* their scripts look for is there
  Foreign      \* kind -> the sets of packages of other vendors a host may begin with

Kinds == {"deb", "rpm"}
ASSUME HostsAssumption ==
  \A h \in Hosts : h.kind \in Kinds /\ h.helper \in BOOLEAN /\ (h.kind = "deb" => h.helper)

VARIABLES
  host,        \* what kind of host this is; never changes
  installed,   \* the packages unpacked
  pending,     \* those of them not yet configured
  refused,     \* the packages that the last request failed for: they conflict
  group,       \* the docker group exists
  up           \* the units that run

vars == <<host, installed, pending, refused, group, up>>

kind == host.kind

-----------------------------------------------------------------------------
(* The tables *)

Package(depends, recommends, conflicts, provides) ==
  [depends |-> depends, recommends |-> recommends, conflicts |-> conflicts, provides |-> provides]

Both(deb, rpm) == [deb |-> deb, rpm |-> rpm]
Deb(names)     == Both(names, {})
None           == Deb({})

\* Of this repository every rpm but that of tini needs these.
RpmDeps == {"moby-containerd", "moby-runc"}

Docker == {"docker", "docker-ce", "docker-ee", "docker-engine", "docker-engine-cs",
           "docker.io", "lxc-docker", "lxc-docker-virtual-package"}
Clients == {"docker-ce-cli", "docker-ee-cli"}

\* Mutant of engine: containerd is only recommended.
engineAlone ==
  Package(Both({"moby-tini"}, RpmDeps), Deb({"moby-cli", "moby-containerd"}), None, None)

engine ==
  Package(Both({"moby-containerd", "moby-runc", "moby-tini"}, RpmDeps), Deb({"moby-cli"}),
          Both(Docker, {"docker", "docker-io", "docker-engine-cs", "docker-ee"}), None)

\* Mutant of containerd: it replaces the others without providing them.
containerdProvidesNothing ==
  Package(Both({"moby-runc"}, RpmDeps), None,
          Both({"containerd", "containerd.io"}, {"containerd", "containerd-io"}), None)

\* The conflicts with versions of moby-engine before 3.0.13 are left out.
containerd ==
  Package(Both({"moby-runc"}, RpmDeps), None,
          Both({"containerd", "containerd.io"}, {"containerd", "containerd-io"}),
          Deb({"containerd", "containerd.io"}))

shim == Package(Both({"moby-containerd"}, RpmDeps), Deb({"moby-runc"}), None, None)

\* Mutant of cli: it provides what it replaces, as containerd does.
cliProvidesClients ==
  Package(Both({}, RpmDeps), Deb({"moby-buildx"}), Deb(Docker \cup Clients), Deb(Clients))

cli == Package(Both({}, RpmDeps), Deb({"moby-buildx"}), Deb(Docker \cup Clients), None)

runc == Package(Both({}, RpmDeps), None, Both({"runc"}, {"runc", "runc-io"}), Deb({"runc"}))

compose ==
  Package(Both({"moby-cli"}, RpmDeps \cup {"moby-cli"}), None,
          Both({"docker-ce", "docker-ee"} \cup Clients, {"docker-ce", "docker-ee"}), None)

buildx ==
  Package(Both({}, RpmDeps), Deb({"moby-cli"}),
          Both({"docker-ce", "docker-ee"}, {"docker-ce", "docker-ee"}), None)

tini == Package(None, None, Deb({"tini"}), None)

Moby ==
  {"moby-engine", "moby-containerd", "moby-containerd-shim-systemd", "moby-cli",
   "moby-runc", "moby-compose", "moby-buildx", "moby-tini"}

Tables(p) ==
  CASE p = "moby-engine"     -> engine
    [] p = "moby-containerd" -> containerd
    [] p = "moby-containerd-shim-systemd" -> shim
    [] p = "moby-cli"        -> cli
    [] p = "moby-runc"       -> runc
    [] p = "moby-compose"    -> compose
    [] p = "moby-buildx"     -> buildx
    [] p = "moby-tini"       -> tini

\* Packages of other vendors, as far as they matter here.
Others(p) ==
  CASE p \in {"docker.io", "user-of-containerd"} -> Package(Deb({"containerd"}), None, None, None)
    [] p = "docker-ce"  -> Package(Both({"containerd.io"}, {"containerd.io"}), None, None, None)
    [] p = "containerd" -> Package(Deb({"runc"}), None, None, None)
    [] OTHER            -> Package(None, None, None, None)

\* A host begins without packages of this repository, and with what its own need.
ASSUME ForeignAssumption ==
  \A k \in Kinds : \A set \in Foreign[k] :
    set \cap Moby = {} /\ \A p \in set : Others(p).depends[k] \subseteq set

Info(p) == IF p \in Moby THEN Tables(p) ELSE Others(p)

Depends(p) == Info(p).depends[kind]
Names(p)   == {p} \cup Info(p).provides[kind]

Conflict(p, q) == p # q /\ Names(q) \cap Info(p).conflicts[kind] # {}
Satisfied(p, set) == Depends(p) \subseteq UNION {Names(q) : q \in set}

Wants(p, also) == Depends(p) \cup (IF also THEN Info(p).recommends[kind] ELSE {})

\* A set with what its packages depend on, and also what they recommend.
With(set, also) == set \cup UNION {Wants(p, also) : p \in set \cap Moby}

\* No chain of dependencies in the tables is longer than two.
Closure(set, also) == With(With(set, also), also)
NeedsAlso(p)       == {q \in installed : p \in Closure({q}, FALSE)}

\* The packages of set that can stay when goal is there: with those that lack
\* something go those that then lack them.
Supported(set, goal) == {p \in set : Satisfied(p, set \cup goal)}
Keep(set, goal)      == Supported(Supported(set, goal), goal)

-----------------------------------------------------------------------------
(* The units *)

UnitsOf(p) ==
  CASE p = "moby-engine"     -> {"docker.service", "docker.socket"}
    [] p = "moby-containerd" -> {"containerd.service"}
    [] p = "moby-containerd-shim-systemd" -> {"shim.service", "shim.socket"}
    [] OTHER -> {}

Units    == UNION {UnitsOf(p) : p \in Moby}
Owner(u) == CHOOSE p \in Moby : u \in UnitsOf(p)

\* A unit with those it requires.
Required(u) ==
  {u} \cup CASE u = "docker.service" -> {"docker.socket", "containerd.service"}
             [] u = "shim.service"   -> {"shim.socket", "containerd.service"}
             [] OTHER -> {}

PartOf(u) == IF u = "docker.socket" THEN "docker.service" ELSE u

\* Its socket has the group docker.
Startable(u, grouped) ==
  \A v \in Required(u) : Owner(v) \in installed /\ (v = "docker.socket" => grouped)

Started(us, grouped) == up \cup UNION {Required(u) : u \in {v \in us : Startable(v, grouped)}}

Stopped(us) ==
  LET first == {u \in up : Required(u) \cap us # {} \/ PartOf(u) \in us}
  IN {u \in up \ first : PartOf(u) \notin first}

-----------------------------------------------------------------------------
(* The package manager *)

Request(p) ==
  /\ p \in Moby \ installed /\ pending = {}
  /\ \E also \in IF kind = "deb" THEN BOOLEAN ELSE {FALSE} :
       LET goal   == Closure({p}, also)
           rivals == {q \in installed : \E g \in goal : Conflict(g, q) \/ Conflict(q, g)}
           keep   == Keep(installed \ rivals, goal)
       IN /\ refused' = {q \in goal : \E g \in goal : Conflict(g, q)}
          /\ IF refused' = {} /\ (kind = "rpm" => rivals = {})
             THEN /\ installed' = keep \cup goal
                  /\ pending' = goal \ installed
                  /\ up' = Stopped(UNION {UnitsOf(q) : q \in (installed \ keep) \cap Moby})
             ELSE UNCHANGED <<installed, pending, up>>
  /\ UNCHANGED <<host, group>>

\* Its dependencies are configured, or depend on it in turn.
Ready(p) == \A q \in Depends(p) \cap pending : p \in Closure({q}, FALSE)

\* The units its postinst starts; rpm has none for the shim, and names services.
Starts(p) ==
  IF kind = "deb" THEN UnitsOf(p) ELSE UnitsOf(p) \cap {"docker.service", "containerd.service"}

MakesGroup(p) == p \in {"moby-engine", "moby-cli"}

\* postinst: groupadd may fail, which only moby-cli lets fail the script (set -e);
\* rpm then warns, dpkg leaves the package unconfigured.
Configure(p) ==
  /\ p \in pending /\ Ready(p)
  /\ group' \in IF MakesGroup(p) /\ ~group THEN BOOLEAN ELSE {group}
  /\ IF kind = "deb" /\ p = "moby-cli" /\ ~group'
     THEN UNCHANGED <<pending, up>>
     ELSE /\ pending' = pending \ {p}
          /\ up' = Started(Starts(p), group')
  /\ UNCHANGED <<host, installed, refused>>

\* Mutant of Stops: no script for the engine.
StopsButEngine(p) == IF p = "moby-engine" THEN {} ELSE Starts(p)

\* The units its prerm stops, if the helper is there to do it.
Stops(p) == IF host.helper THEN Starts(p) ELSE {}

Remove(p) ==
  /\ p \in installed \cap Moby
  /\ LET gone == NeedsAlso(p)
     IN /\ installed' = Keep(installed \ gone, {})
        /\ pending' = pending \cap installed'
        /\ up' = Stopped(UNION {Stops(q) : q \in gone \cap Moby})
  /\ UNCHANGED <<host, refused, group>>

\* The administrator, or a connection to a socket.
StartUnit(u) ==
  /\ Startable(u, group) /\ u \notin up
  /\ up' = Started({u}, group)
  /\ UNCHANGED <<host, installed, pending, refused, group>>

StopUnit(u) ==
  /\ u \in up
  /\ up' = Stopped({u})
  /\ UNCHANGED <<host, installed, pending, refused, group>>

\* A daemon dies; what requires it goes on.
Crash(u) ==
  /\ u \in up
  /\ up' = up \ {u}
  /\ UNCHANGED <<host, installed, pending, refused, group>>

Init ==
  /\ host \in Hosts
  /\ installed \in Foreign[kind]
  /\ pending = {} /\ refused = {} /\ group = FALSE /\ up = {}

Next ==
  \/ \E p \in Moby : Request(p) \/ Configure(p) \/ Remove(p)
  \/ \E u \in Units : StartUnit(u) \/ StopUnit(u) \/ Crash(u)

Spec == Init /\ [][Next]_vars

-----------------------------------------------------------------------------
(* Properties *)

\* No request is refused for what it asks for itself: the packages that one needs
\* or recommends, at any remove, do not conflict with it or with each other, by any
\* of the names that they provide.
NeedsDoNotConflict == refused = {}

\* A step that installs something.
Requested == ~(installed' \subseteq installed)

\* Asking for one of the packages removes neither another of them, as no two
\* conflict, counting the names they provide; nor a package of another vendor
\* that needs containerd, which moby-containerd replaces and provides.
BystandersStay ==
  [][Requested => installed \cap (Moby \cup {"user-of-containerd"}) \subseteq installed']_vars

\* Nothing runs from a package that was removed, where the helper is there: an rpm
\* host without systemd-update-helper stops nothing.  The rpm of the shim is apart,
\* which has no scripts.
RunningIsInstalled ==
  host.helper =>
    \A u \in up : \/ Owner(u) \in installed
                  \/ kind = "rpm" /\ Owner(u) = "moby-containerd-shim-systemd"

\* Configuring the engine brings the daemon up, unless there is no docker group
\* because groupadd has failed.
EngineComesUp ==
  [][/\ "moby-engine" \in pending \ pending' /\ "moby-engine" \in installed' /\ group'
     => "docker.service" \in up']_vars

\* What tests/mariner2/install.sh and tests/centos8/install.sh install by name
\* (tests/centos7/install.sh installs moby-tini as well).
TestedByName ==
  {"moby-engine", "moby-cli", "moby-containerd", "moby-runc", "moby-buildx", "moby-compose"}

\* The test "extra docker binaries exists" (tests/test.sh): docker-init, which
\* moby-tini ships, is on a host where those packages were installed.
DockerInitThere ==
  TestedByName \subseteq installed \ pending => "moby-tini" \in installed
=============================================================================
