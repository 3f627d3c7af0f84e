-------------------------- MODULE PackageSet_proofs --------------------------
(***************************************************************************)
(* Proofs about the packages on a host, for any hosts of either kind and   *)
(* any packages of other vendors that they begin with: what the            *)
(* tables of dependencies and conflicts come to, and so what a request     *)
(* installs, what goes with a removal, and which daemons run.              *)
(***************************************************************************)
EXTENDS PackageSet, TLAPS

-----------------------------------------------------------------------------
(* The tables *)

\* The packages, by the rows of the tables.
LEMMA Rows ==
  /\ Info("moby-engine") = engine /\ Info("moby-containerd") = containerd
  /\ Info("moby-containerd-shim-systemd") = shim /\ Info("moby-cli") = cli
  /\ Info("moby-runc") = runc /\ Info("moby-compose") = compose
  /\ Info("moby-buildx") = buildx /\ Info("moby-tini") = tini
  BY DEF Info, Tables, Moby

\* What a Debian package depends on and recommends.
LEMMA DebWants ==
  ASSUME kind = "deb"
  PROVE  /\ Depends("moby-engine") = {"moby-containerd", "moby-runc", "moby-tini"}
         /\ Depends("moby-containerd") = {"moby-runc"}
         /\ Depends("moby-containerd-shim-systemd") = {"moby-containerd"}
         /\ Depends("moby-compose") = {"moby-cli"}
         /\ \A p \in {"moby-cli", "moby-runc", "moby-buildx", "moby-tini"} : Depends(p) = {}
         /\ Wants("moby-engine", TRUE) =
              {"moby-containerd", "moby-runc", "moby-tini", "moby-cli"}
         /\ Wants("moby-containerd", TRUE) = {"moby-runc"}
         /\ Wants("moby-containerd-shim-systemd", TRUE) = {"moby-containerd", "moby-runc"}
         /\ Wants("moby-compose", TRUE) = {"moby-cli"}
         /\ Wants("moby-cli", TRUE) = {"moby-buildx"}
         /\ Wants("moby-buildx", TRUE) = {"moby-cli"}
         /\ \A p \in {"moby-runc", "moby-tini"} : Wants(p, TRUE) = {}
         /\ \A p \in Moby : Wants(p, FALSE) = Depends(p)
  <1> USE Rows DEF Depends, Package, Deb, Both, None, Wants
  <1>1. /\ Depends("moby-engine") = {"moby-containerd", "moby-runc", "moby-tini"}
        /\ Wants("moby-engine", TRUE) =
             {"moby-containerd", "moby-runc", "moby-tini", "moby-cli"}
    BY DEF engine
  <1>2. Depends("moby-containerd") = {"moby-runc"} /\ Wants("moby-containerd", TRUE) = {"moby-runc"}
    BY DEF containerd
  <1>3. /\ Depends("moby-containerd-shim-systemd") = {"moby-containerd"}
        /\ Wants("moby-containerd-shim-systemd", TRUE) = {"moby-containerd", "moby-runc"}
    BY DEF shim
  <1>4. Depends("moby-compose") = {"moby-cli"} /\ Wants("moby-compose", TRUE) = {"moby-cli"}
    BY DEF compose
  <1>5. Depends("moby-cli") = {} /\ Wants("moby-cli", TRUE) = {"moby-buildx"}
    BY DEF cli
  <1>6. Depends("moby-buildx") = {} /\ Wants("moby-buildx", TRUE) = {"moby-cli"}
    BY DEF buildx
  <1>7. Depends("moby-runc") = {} /\ Wants("moby-runc", TRUE) = {}
    BY DEF runc
  <1>8. Depends("moby-tini") = {} /\ Wants("moby-tini", TRUE) = {}
    BY DEF tini
  <1>9. \A p \in Moby : Wants(p, FALSE) = Depends(p)
    OBVIOUS
  <1> HIDE DEF Depends, Wants
  <1> QED BY <1>1, <1>2, <1>3, <1>4, <1>5, <1>6, <1>7, <1>8, <1>9

\* An rpm recommends nothing.
LEMMA RpmWants ==
  ASSUME kind = "rpm"
  PROVE  /\ \A p \in Moby \ {"moby-compose", "moby-tini"} : Depends(p) = RpmDeps
         /\ Depends("moby-compose") = RpmDeps \cup {"moby-cli"}
         /\ Depends("moby-tini") = {}
         /\ \A p \in Moby, also \in BOOLEAN : Wants(p, also) = Depends(p)
  <1> USE Rows DEF Depends, Package, Deb, Both, None, Wants
  <1>1. /\ Depends("moby-engine") = RpmDeps
        /\ \A also \in BOOLEAN : Wants("moby-engine", also) = Depends("moby-engine")
    BY DEF engine
  <1>2. /\ Depends("moby-containerd") = RpmDeps
        /\ \A also \in BOOLEAN : Wants("moby-containerd", also) = Depends("moby-containerd")
    BY DEF containerd
  <1>3. /\ Depends("moby-containerd-shim-systemd") = RpmDeps
        /\ \A also \in BOOLEAN : Wants("moby-containerd-shim-systemd", also)
                                   = Depends("moby-containerd-shim-systemd")
    BY DEF shim
  <1>4. /\ Depends("moby-cli") = RpmDeps
        /\ \A also \in BOOLEAN : Wants("moby-cli", also) = Depends("moby-cli")
    BY DEF cli
  <1>5. /\ Depends("moby-runc") = RpmDeps
        /\ \A also \in BOOLEAN : Wants("moby-runc", also) = Depends("moby-runc")
    BY DEF runc
  <1>6. /\ Depends("moby-buildx") = RpmDeps
        /\ \A also \in BOOLEAN : Wants("moby-buildx", also) = Depends("moby-buildx")
    BY DEF buildx
  <1>7. /\ Depends("moby-compose") = RpmDeps \cup {"moby-cli"}
        /\ \A also \in BOOLEAN : Wants("moby-compose", also) = Depends("moby-compose")
    BY DEF compose
  <1>8. /\ Depends("moby-tini") = {}
        /\ \A also \in BOOLEAN : Wants("moby-tini", also) = Depends("moby-tini")
    BY DEF tini
  <1> HIDE DEF Depends, Wants
  <1> QED BY <1>1, <1>2, <1>3, <1>4, <1>5, <1>6, <1>7, <1>8 DEF Moby

\* Every name in the tables is one of the eight.
LEMMA WantsMoby ==
  ASSUME kind \in Kinds, NEW p \in Moby, NEW also \in BOOLEAN
  PROVE  Wants(p, also) \subseteq Moby
  <1>1. CASE kind = "deb"
    <2>1. CASE also = TRUE
      <3>1. Wants(p, also) = Wants(p, TRUE)
        BY <2>1
      <3>2. Wants(p, TRUE) \subseteq Moby
        BY <1>1, DebWants, ZenonT(40) DEF Moby
      <3> QED BY <3>1, <3>2
    <2>2. CASE also = FALSE
      <3>1. Wants(p, also) = Depends(p)
        BY <1>1, <2>2, DebWants
      <3> QED BY <1>1, <3>1, DebWants DEF Moby
    <2> QED BY <2>1, <2>2
  <1>2. CASE kind = "rpm"
    BY <1>2, RpmWants DEF Moby, RpmDeps
  <1> QED BY <1>1, <1>2 DEF Kinds

\* No chain in the tables is longer than two: what a package at its end names is
\* the one before it, or named by that one.
LEMMA Shallow ==
  ASSUME kind \in Kinds, NEW also \in BOOLEAN,
         NEW p \in Moby, NEW q \in Wants(p, also) \cap Moby, NEW r \in Wants(q, also) \cap Moby
  PROVE  Wants(r, also) \subseteq Wants(q, also) \cup {q}
  <1>1. CASE kind = "deb"
    <2>1. CASE also = TRUE
      <3>1. q \in {"moby-containerd", "moby-runc", "moby-tini", "moby-cli", "moby-buildx"}
        BY <1>1, <2>1, DebWants DEF Moby
      <3> QED BY <1>1, <2>1, <3>1, DebWants DEF Moby
    <2>2. CASE also = FALSE
      <3>1. \A s \in Moby : Wants(s, also) = Depends(s)
        BY <1>1, <2>2, DebWants
      <3>2. q \in {"moby-containerd", "moby-runc", "moby-tini", "moby-cli"}
        BY <1>1, <3>1, DebWants DEF Moby
      <3> QED BY <1>1, <3>1, <3>2, DebWants DEF Moby
    <2> QED BY <2>1, <2>2
  <1>2. CASE kind = "rpm"
    <2>1. q \in {"moby-containerd", "moby-runc", "moby-cli"}
      BY <1>2, RpmWants DEF Moby, RpmDeps
    <2>2. Wants(q, also) = RpmDeps
      BY <1>2, <2>1, RpmWants DEF Moby
    <2>3. Wants(r, also) = RpmDeps
      BY <1>2, <2>2, RpmWants DEF Moby, RpmDeps
    <2> QED BY <2>2, <2>3
  <1> QED BY <1>1, <1>2 DEF Kinds

-----------------------------------------------------------------------------
(* What a package needs *)

LEMMA WithGrows ==
  ASSUME NEW also \in BOOLEAN, NEW S, NEW T, S \subseteq T
  PROVE  S \subseteq With(S, also) /\ With(S, also) \subseteq With(T, also)
  BY DEF With

\* Another round adds nothing.
LEMMA ClosureIsClosed ==
  ASSUME kind \in Kinds, NEW also \in BOOLEAN, NEW p \in Moby
  PROVE  /\ p \in Closure({p}, also)
         /\ \A r \in Closure({p}, also) \cap Moby : Wants(r, also) \subseteq Closure({p}, also)
  <1> DEFINE one == With({p}, also)
             two == With(one, also)
  <1>1. one = {p} \cup Wants(p, also)
    BY DEF With
  <1>2. /\ one \subseteq two
        /\ \A q \in one \cap Moby : Wants(q, also) \subseteq two
        /\ \A r \in two : r \in one \/ \E q \in one \cap Moby : r \in Wants(q, also)
    BY DEF With
  <1>3. ASSUME NEW r \in two \cap Moby PROVE Wants(r, also) \subseteq two
    <2>1. CASE r \in one
      BY <1>2, <2>1
    <2>2. CASE r \notin one
      <3>1. PICK q \in one \cap Moby : r \in Wants(q, also)
        BY <1>2, <2>2
      <3>2. q \in Wants(p, also) \cap Moby
        BY <1>1, <2>2, <3>1
      <3>3. Wants(r, also) \subseteq Wants(q, also) \cup {q}
        BY <3>1, <3>2, Shallow
      <3> QED BY <1>2, <3>1, <3>3
    <2> QED BY <2>1, <2>2
  <1> HIDE DEF two
  <1> QED BY <1>1, <1>2, <1>3 DEF Closure, two

\* What p needs is in this repository.
LEMMA ClosureMoby ==
  ASSUME kind \in Kinds, NEW also \in BOOLEAN, NEW p \in Moby
  PROVE  Closure({p}, also) \subseteq Moby
  BY WantsMoby DEF Closure, With

\* What needs p, needs what p needs.
LEMMA ClosureTransitive ==
  ASSUME kind \in Kinds, NEW p \in Moby, NEW d \in Depends(p) \cap Moby
  PROVE  Closure({d}, FALSE) \subseteq Closure({p}, FALSE)
  <1>1. \A q \in Moby : Wants(q, FALSE) = Depends(q)
    BY DEF Wants
  <1>2. {d} \subseteq Closure({p}, FALSE)
    BY <1>1, ClosureIsClosed
  <1>3. With(Closure({p}, FALSE), FALSE) \subseteq Closure({p}, FALSE)
    BY ClosureIsClosed DEF With
  <1>4. With({d}, FALSE) \subseteq Closure({p}, FALSE)
    BY <1>2, <1>3, WithGrows
  <1>5. With(With({d}, FALSE), FALSE) \subseteq Closure({p}, FALSE)
    BY <1>3, <1>4, WithGrows
  <1> QED BY <1>5 DEF Closure

-----------------------------------------------------------------------------
(* Conflicts and provisions *)

\* The names that packages of other vendors depend on, which are those that
\* moby-containerd and moby-runc may provide.
Provided == {"containerd", "containerd.io", "runc"}

LEMMA OfOthers ==
  ASSUME kind \in Kinds, NEW p, p \notin Moby
  PROVE  /\ Names(p) = {p} /\ Info(p).conflicts[kind] = {}
         /\ Depends(p) \subseteq Provided
         /\ p \in Provided /\ p # "containerd" => Depends(p) = {}
         /\ p = "containerd" => Depends(p) \subseteq {"runc"}
  BY DEF Names, Info, Others, Package, Deb, Both, None, Depends, Provided, Kinds

LEMMA OfMoby ==
  ASSUME kind \in Kinds, NEW p \in Moby
  PROVE  /\ p \in Names(p) /\ Names(p) \subseteq {p} \cup Provided /\ Provided \cap Moby = {}
         /\ "runc" \in Names(p) => p = "moby-runc"
         /\ {"containerd", "containerd.io"} \cap Names(p) # {} => p = "moby-containerd"
         /\ Info(p).conflicts[kind] \cap (Moby \cup {"user-of-containerd"}) = {}
         /\ "runc" \in Info(p).conflicts[kind] => p = "moby-runc"
         /\ {"containerd", "containerd.io"} \cap Info(p).conflicts[kind] # {}
              => p = "moby-containerd"
  <1> USE Rows DEF Names, Package, Deb, Both, None, Docker, Clients, Kinds, Moby, Provided
  <1>1. CASE p = "moby-engine"
    BY <1>1 DEF engine
  <1>2. CASE p = "moby-containerd"
    BY <1>2 DEF containerd
  <1>3. CASE p = "moby-containerd-shim-systemd"
    BY <1>3 DEF shim
  <1>4. CASE p = "moby-cli"
    BY <1>4 DEF cli
  <1>5. CASE p = "moby-runc"
    BY <1>5 DEF runc
  <1>6. CASE p = "moby-compose"
    BY <1>6 DEF compose
  <1>7. CASE p = "moby-buildx"
    BY <1>7 DEF buildx
  <1>8. CASE p = "moby-tini"
    BY <1>8 DEF tini
  <1> QED BY <1>1, <1>2, <1>3, <1>4, <1>5, <1>6, <1>7, <1>8

\* On Debian they provide what they conflict with.
LEMMA Provisions ==
  ASSUME kind = "deb"
  PROVE  "runc" \in Names("moby-runc") /\ {"containerd", "containerd.io"} \subseteq Names("moby-containerd")
  BY Rows DEF Names, runc, containerd, Package, Deb, Both, None

\* No two of the eight conflict, by any name.
LEMMA NoConflict ==
  ASSUME kind \in Kinds, NEW p \in Moby, NEW q \in Moby
  PROVE  ~Conflict(p, q)
  BY OfMoby DEF Conflict, Provided

-----------------------------------------------------------------------------
(* What can stay *)

LEMMA SatisfiedByMore ==
  ASSUME NEW p, NEW S, NEW T, S \subseteq T, Satisfied(p, S)
  PROVE  Satisfied(p, T)
  BY DEF Satisfied

LEMMA KeepsSatisfied ==
  ASSUME NEW S, NEW G, \A p \in S : Satisfied(p, S \cup G)
  PROVE  Keep(S, G) = S
  <1>1. Supported(S, G) = S
    BY DEF Supported
  <1> QED BY <1>1 DEF Keep

\* Only a package of this repository has its name.
LEMMA MobySatisfied ==
  ASSUME kind \in Kinds, NEW p \in Moby, NEW S
  PROVE  Satisfied(p, S) <=> Depends(p) \subseteq S
  <1>1. Depends(p) \subseteq Moby
    BY WantsMoby DEF Wants
  <1>2. ASSUME NEW d \in Moby, NEW q, d \in Names(q) PROVE d = q
    <2>1. q \in Moby
      BY <1>2, OfOthers
    <2> QED BY <1>2, <2>1, OfMoby
  <1>3. \A d \in Moby : d \in Names(d)
    BY OfMoby
  <1> QED BY <1>1, <1>2, <1>3 DEF Satisfied

\* When the packages of this repository that stay have theirs, the others are
\* sorted out in two rounds: theirs need at most one of another vendor in turn.
LEMMA KeptAreSatisfied ==
  ASSUME kind \in Kinds, NEW S, \A p \in S \cap Moby : Satisfied(p, S)
  PROVE  /\ S \cap Moby \subseteq Keep(S, {})
         /\ \A p \in Keep(S, {}) : Satisfied(p, Keep(S, {}))
  <1> DEFINE one == Supported(S, {})
             two == Supported(one, {})
  <1>1. one = {p \in S : Satisfied(p, S)} /\ two = {p \in one : Satisfied(p, one)}
    BY DEF Supported
  <1>2. S \cap Moby \subseteq one
    BY <1>1
  <1>3. S \cap Moby \subseteq two
    <2>1. ASSUME NEW p \in S \cap Moby PROVE Satisfied(p, one)
      <3>1. Depends(p) \subseteq S /\ Depends(p) \subseteq Moby
        BY MobySatisfied, WantsMoby DEF Wants
      <3>2. Depends(p) \subseteq one
        BY <1>2, <3>1
      <3> QED BY <3>2, MobySatisfied
    <2> QED BY <1>1, <1>2, <2>1
  <1>4. ASSUME NEW p \in two PROVE Satisfied(p, two)
    <2>1. CASE p \in Moby
      <3>1. Depends(p) \subseteq S /\ Depends(p) \subseteq Moby
        BY <1>1, <2>1, MobySatisfied, WantsMoby DEF Wants
      <3>2. Depends(p) \subseteq two
        BY <1>3, <3>1
      <3> QED BY <2>1, <3>2, MobySatisfied
    <2>2. CASE p \notin Moby
      <3>1. SUFFICES ASSUME NEW d \in Depends(p)
                     PROVE  \E q \in two : d \in Names(q)
        BY DEF Satisfied
      <3>2. d \in Provided
        BY <2>2, OfOthers
      <3>3. PICK q \in one : d \in Names(q)
        BY <1>1, <3>1 DEF Satisfied
      <3>4. CASE q \in Moby
        BY <1>1, <1>3, <3>3, <3>4
      <3>5. CASE q \notin Moby
        <4>1. q = d
          BY <3>3, <3>5, OfOthers
        <4>2. Satisfied(q, one)
          <5>1. CASE q # "containerd"
            <6>1. Depends(q) = {}
              BY <3>2, <3>5, <4>1, <5>1, OfOthers
            <6> QED BY <6>1 DEF Satisfied
          <5>2. CASE q = "containerd"
            <6>1. SUFFICES ASSUME "runc" \in Depends(q)
                           PROVE  \E r \in one : "runc" \in Names(r)
              <7>1. Depends(q) \subseteq {"runc"}
                BY <3>5, <5>2, OfOthers
              <7> QED BY <7>1 DEF Satisfied
            <6>2. PICK r \in S : "runc" \in Names(r)
              BY <1>1, <6>1 DEF Satisfied
            <6>3. CASE r \in Moby
              BY <1>2, <6>2, <6>3
            <6>4. CASE r \notin Moby
              <7>1. r = "runc" /\ Depends(r) = {}
                BY <6>2, <6>4, OfOthers DEF Provided
              <7> QED BY <1>1, <6>2, <7>1 DEF Satisfied
            <6> QED BY <6>3, <6>4
          <5> QED BY <5>1, <5>2
        <4> QED BY <1>1, <3>3, <4>2
      <3> QED BY <3>4, <3>5
    <2> QED BY <2>1, <2>2
  <1> HIDE DEF two
  <1> QED BY <1>3, <1>4 DEF Keep, two

-----------------------------------------------------------------------------
(* The units *)

LEMMA Owners ==
  /\ \A p \in Moby : \A u \in UnitsOf(p) : Owner(u) = p
  /\ \A u \in Units : Owner(u) \in Moby /\ u \in UnitsOf(Owner(u))
  <1>1. ASSUME NEW p \in Moby, NEW u \in UnitsOf(p) PROVE Owner(u) = p
    <2>1. \A q \in Moby : u \in UnitsOf(q) <=> q = p
      BY <1>1 DEF UnitsOf, Moby
    <2> QED BY <2>1 DEF Owner
  <1>2. ASSUME NEW u \in Units PROVE Owner(u) \in Moby /\ u \in UnitsOf(Owner(u))
    <2>1. PICK p \in Moby : u \in UnitsOf(p)
      BY <1>2 DEF Units
    <2> QED BY <1>1, <2>1
  <1> QED BY <1>1, <1>2

LEMMA UnitTable ==
  /\ UnitsOf("moby-engine") = {"docker.service", "docker.socket"}
  /\ UnitsOf("moby-containerd") = {"containerd.service"}
  /\ UnitsOf("moby-containerd-shim-systemd") = {"shim.service", "shim.socket"}
  /\ \A p \in Moby \ {"moby-engine", "moby-containerd", "moby-containerd-shim-systemd"} :
       UnitsOf(p) = {}
  /\ Units = {"docker.service", "docker.socket", "containerd.service", "shim.service", "shim.socket"}
  <1>1. /\ UnitsOf("moby-engine") = {"docker.service", "docker.socket"}
        /\ UnitsOf("moby-containerd") = {"containerd.service"}
        /\ UnitsOf("moby-containerd-shim-systemd") = {"shim.service", "shim.socket"}
        /\ \A p \in Moby \ {"moby-engine", "moby-containerd", "moby-containerd-shim-systemd"} :
             UnitsOf(p) = {}
    BY DEF UnitsOf
  <1> QED BY <1>1 DEF Units, Moby

LEMMA RequiredUnits ==
  ASSUME NEW u \in Units
  PROVE  u \in Required(u) /\ Required(u) \subseteq Units
  BY UnitTable DEF Required

\* What systemd starts are units of packages that are installed.
LEMMA StartedUnits ==
  ASSUME up \subseteq Units, NEW us \in SUBSET Units, NEW grouped
  PROVE  /\ Started(us, grouped) \subseteq Units
         /\ \A u \in Started(us, grouped) : u \in up \/ Owner(u) \in installed
  BY RequiredUnits DEF Started, Startable

LEMMA StoppedUnits ==
  ASSUME NEW us
  PROVE  /\ Stopped(us) \subseteq up
         /\ \A u \in Stopped(us) : Required(u) \cap us = {} /\ PartOf(u) \notin us
  BY DEF Stopped

-----------------------------------------------------------------------------
(* The invariant *)

\* Every package has what it needs.
Consistent == \A p \in installed : Satisfied(p, installed)

Invariant ==
  /\ host \in Hosts
  /\ pending \subseteq installed /\ Consistent
  /\ up \subseteq Units
  /\ NeedsDoNotConflict /\ RunningIsInstalled

LEMMA KindKnown == host \in Hosts => kind \in Kinds /\ (kind = "deb" => host.helper)
  BY HostsAssumption DEF kind

LEMMA InvariantInit == Init => Invariant
  <1> SUFFICES ASSUME Init PROVE Invariant
    OBVIOUS
  <1>1. kind \in Kinds
    BY KindKnown DEF Init
  <1>2. ASSUME NEW p \in installed PROVE Satisfied(p, installed)
    <2>1. p \notin Moby /\ Others(p).depends[kind] \subseteq installed /\ installed \cap Moby = {}
      BY <1>1, ForeignAssumption DEF Init
    <2>2. Depends(p) \subseteq installed
      BY <2>1 DEF Depends, Info
    <2>3. \A q \in installed : q \in Names(q)
      BY DEF Names
    <2> QED BY <2>2, <2>3 DEF Satisfied
  <1> QED BY <1>2 DEF Init, Invariant, Consistent, NeedsDoNotConflict, RunningIsInstalled

\* The tables are those for the packages of the host, which stays.
LEMMA ConsistentNext ==
  ASSUME UNCHANGED host
  PROVE  Consistent' <=> \A p \in installed' : Satisfied(p, installed')
  <1>1. kind' = kind
    BY DEF kind
  <1>2. \A p : Names(p)' = Names(p)
    BY <1>1 DEF Names
  <1>3. \A p : Depends(p)' = Depends(p)
    BY <1>1 DEF Depends
  <1> QED BY <1>1, <1>2, <1>3 DEF Consistent, Satisfied

\* Rivals of packages that are asked for are of other vendors and leave nothing
\* unsatisfied: on Debian what replaces them provides their names.
LEMMA RivalsReplaced ==
  ASSUME Invariant, NEW goal \in SUBSET Moby, NEW rivals,
         rivals = {q \in installed : \E g \in goal : Conflict(g, q) \/ Conflict(q, g)},
         kind = "rpm" => rivals = {}
  PROVE  /\ rivals \cap (Moby \cup {"user-of-containerd"}) = {}
         /\ \A p \in installed \ rivals : Satisfied(p, (installed \ rivals) \cup goal)
  <1>1. kind \in Kinds
    BY KindKnown DEF Invariant
  <1>2. ASSUME NEW r \in rivals
        PROVE  /\ r \notin Moby /\ Names(r) = {r}
               /\ \E g \in goal : r \in Info(g).conflicts[kind]
    <2>1. PICK g \in goal : Conflict(g, r) \/ Conflict(r, g)
      BY <1>2
    <2>3. r \notin Moby
      BY <1>1, <2>1, NoConflict
    <2>4. Names(r) = {r} /\ Conflict(g, r)
      BY <1>1, <2>1, <2>3, OfOthers DEF Conflict
    <2>5. g \in Moby
      BY <1>1, <2>4, OfOthers DEF Conflict
    <2> QED BY <2>3, <2>4, <2>5 DEF Conflict
  <1>3. rivals \cap (Moby \cup {"user-of-containerd"}) = {}
    BY <1>1, <1>2, OfMoby
  <1>4. ASSUME NEW p \in installed \ rivals PROVE Satisfied(p, (installed \ rivals) \cup goal)
    <2>1. SUFFICES ASSUME NEW d \in Depends(p)
                   PROVE  \E q \in (installed \ rivals) \cup goal : d \in Names(q)
      BY DEF Satisfied
    <2>2. PICK q \in installed : d \in Names(q)
      BY <2>1 DEF Invariant, Consistent, Satisfied
    <2>3. CASE q \notin rivals
      BY <2>2, <2>3
    <2>4. CASE q \in rivals
      <3>1. PICK g \in goal : d \in Info(g).conflicts[kind]
        BY <1>2, <2>2, <2>4
      <3>2. d \notin Moby
        BY <1>2, <2>2, <2>4
      <3>3. p \notin Moby
        <4>1. p \in Moby => Depends(p) \subseteq Moby
          BY <1>1, WantsMoby DEF Wants
        <4> QED BY <3>2, <4>1
      <3>4. d \in Provided
        BY <1>1, <3>3, OfOthers
      <3>5. kind = "deb"
        BY <1>1, <2>4 DEF Kinds
      <3>6. d \in Names(g)
        BY <1>1, <3>1, <3>4, <3>5, OfMoby, Provisions DEF Provided
      <3> QED BY <3>6
    <2> QED BY <2>3, <2>4
  <1> QED BY <1>3, <1>4

\* A request installs what was asked for with all it needs, and removes the
\* rivals at most; or it changes nothing.
LEMMA Requests ==
  ASSUME Invariant, NEW p \in Moby, Request(p)
  PROVE  /\ UNCHANGED <<host, up>> /\ refused' = {} /\ pending = {}
         /\ installed \cap (Moby \cup {"user-of-containerd"}) \subseteq installed'
         /\ pending' \subseteq installed' /\ Consistent'
  <1>1. kind \in Kinds
    BY KindKnown DEF Invariant
  <1>2. PICK also \in BOOLEAN :
          LET goal   == Closure({p}, also)
              rivals == {q \in installed : \E g \in goal : Conflict(g, q) \/ Conflict(q, g)}
              keep   == Keep(installed \ rivals, goal)
          IN /\ refused' = {q \in goal : \E g \in goal : Conflict(g, q)}
             /\ IF refused' = {} /\ (kind = "rpm" => rivals = {})
                THEN /\ installed' = keep \cup goal
                     /\ pending' = goal \ installed
                     /\ up' = Stopped(UNION {UnitsOf(q) : q \in (installed \ keep) \cap Moby})
                ELSE UNCHANGED <<installed, pending, up>>
    BY DEF Request
  <1> DEFINE goal   == Closure({p}, also)
             rivals == {q \in installed : \E g \in goal : Conflict(g, q) \/ Conflict(q, g)}
             keep   == Keep(installed \ rivals, goal)
  <1>3. pending = {} /\ UNCHANGED host
    BY DEF Request
  <1>4. goal \subseteq Moby
    BY <1>1, ClosureMoby
  <1>5. refused' = {}
    <2>1. refused' = {q \in goal : \E g \in goal : Conflict(g, q)}
      BY <1>2
    <2> HIDE DEF goal
    <2> QED BY <1>1, <1>4, <2>1, NoConflict
  <1>6. CASE kind = "rpm" => rivals = {}
    <2>1. /\ installed' = keep \cup goal
          /\ pending' = goal \ installed
          /\ up' = Stopped(UNION {UnitsOf(q) : q \in (installed \ keep) \cap Moby})
      BY <1>2, <1>5, <1>6
    <2>2. /\ rivals \cap (Moby \cup {"user-of-containerd"}) = {}
          /\ \A q \in installed \ rivals : Satisfied(q, (installed \ rivals) \cup goal)
      <3> HIDE DEF goal
      <3> QED BY <1>4, <1>6, RivalsReplaced
    <2>3. keep = installed \ rivals
      <3> HIDE DEF goal, rivals
      <3> QED BY <2>2, KeepsSatisfied
    <2>4. \A q \in goal : Depends(q) \subseteq goal
      <3>1. \A q \in goal : Wants(q, also) \subseteq goal
        BY <1>1, <1>4, ClosureIsClosed
      <3> QED BY <3>1 DEF Wants
    <2> HIDE DEF goal, rivals, keep
    <2>5. UNCHANGED up
      <3>1. UNION {UnitsOf(q) : q \in (installed \ keep) \cap Moby} = {}
        BY <2>2, <2>3
      <3> QED BY <2>1, <3>1 DEF Stopped
    <2>6. installed \cap (Moby \cup {"user-of-containerd"}) \subseteq installed'
      BY <2>1, <2>2, <2>3
    <2>8. ASSUME NEW q \in installed' PROVE Satisfied(q, installed')
      <3>1. CASE q \in goal
        BY <1>1, <1>4, <2>1, <2>4, <3>1, MobySatisfied
      <3>2. CASE q \in installed \ rivals
        BY <2>1, <2>2, <2>3, <3>2
      <3> QED BY <2>1, <2>3, <3>1, <3>2
    <2>9. Consistent'
      BY <1>3, <2>8, ConsistentNext
    <2> QED BY <1>3, <1>5, <2>1, <2>5, <2>6, <2>9
  <1>7. CASE ~(kind = "rpm" => rivals = {})
    <2>1. UNCHANGED <<installed, pending, up>>
      BY <1>2, <1>7
    <2>2. Consistent'
      BY <1>3, <2>1, ConsistentNext DEF Invariant, Consistent
    <2> QED BY <1>3, <1>5, <2>1, <2>2 DEF Invariant
  <1> QED BY <1>6, <1>7

\* A removal takes those that need the package, closed under being needed; no
\* other package of this repository lacks anything then.
LEMMA Removals ==
  ASSUME Invariant, NEW p \in Moby, Remove(p)
  PROVE  /\ UNCHANGED <<host, refused>>
         /\ pending' = pending \cap installed' /\ Consistent'
         /\ installed \cap Moby \subseteq NeedsAlso(p) \cup installed'
         /\ installed' \subseteq installed
         /\ up' = Stopped(UNION {Stops(q) : q \in NeedsAlso(p) \cap Moby})
  <1>1. kind \in Kinds
    BY KindKnown DEF Invariant
  <1> DEFINE gone == NeedsAlso(p)
             rest == installed \ gone
  <1>2. /\ UNCHANGED <<host, refused>> /\ installed' = Keep(rest, {})
        /\ pending' = pending \cap installed'
        /\ up' = Stopped(UNION {Stops(q) : q \in gone \cap Moby})
    BY DEF Remove
  <1>3. ASSUME NEW q \in rest \cap Moby PROVE Satisfied(q, rest)
    <2>1. Depends(q) \subseteq installed
      BY <1>1, <1>3, MobySatisfied DEF Invariant, Consistent
    <2>2. ASSUME NEW d \in Depends(q) PROVE d \notin gone
      <3>1. d \in Moby
        BY <1>1, <1>3, <2>2, WantsMoby DEF Wants
      <3>2. Closure({d}, FALSE) \subseteq Closure({q}, FALSE)
        BY <1>1, <1>3, <3>1, ClosureTransitive
      <3> QED BY <1>3, <3>2 DEF NeedsAlso
    <2> QED BY <1>1, <2>1, <2>2, MobySatisfied
  <1>4. /\ rest \cap Moby \subseteq Keep(rest, {})
        /\ \A q \in Keep(rest, {}) : Satisfied(q, Keep(rest, {}))
    <2> HIDE DEF rest
    <2> QED BY <1>1, <1>3, KeptAreSatisfied
  <1>5. Consistent'
    BY <1>2, <1>4, ConsistentNext
  <1>6. Keep(rest, {}) \subseteq installed
    BY DEF Keep, Supported
  <1> QED BY <1>2, <1>4, <1>5, <1>6

\* Configuring leaves the packages alone, and starts units of those installed.
LEMMA Configurations ==
  ASSUME Invariant, NEW p \in Moby, Configure(p)
  PROVE  /\ UNCHANGED <<host, installed, refused>> /\ pending \ {p} \subseteq pending'
         /\ pending' \subseteq pending
         /\ up' = up \/ up' = Started(Starts(p), group')
  BY DEF Configure

LEMMA StartsUnits ==
  ASSUME NEW p \in Moby
  PROVE  Starts(p) \subseteq UnitsOf(p) /\ Starts(p) \in SUBSET Units
  BY DEF Starts, Units

\* What prerm stops are all units of a package but those of the shim's rpm; the
\* socket of the engine goes with its service.
LEMMA AllStopped ==
  ASSUME kind \in Kinds, host.helper, NEW p \in Moby, NEW u \in UnitsOf(p),
         kind = "deb" \/ p # "moby-containerd-shim-systemd"
  PROVE  u \in Stops(p) \/ PartOf(u) \in Stops(p)
  <1>1. CASE kind = "deb"
    BY <1>1 DEF Stops, Starts
  <1>2. CASE kind = "rpm"
    <2>1. \/ p = "moby-engine" /\ u \in {"docker.service", "docker.socket"}
          \/ p = "moby-containerd" /\ u = "containerd.service"
      BY <1>2, UnitTable
    <2> QED BY <1>2, <2>1, UnitTable DEF Stops, Starts, PartOf
  <1> QED BY <1>1, <1>2 DEF Kinds

LEMMA InvariantStep == Invariant /\ [Next]_vars => Invariant'
  <1> SUFFICES ASSUME Invariant, [Next]_vars PROVE Invariant'
    OBVIOUS
  <1>1. kind \in Kinds
    BY KindKnown DEF Invariant
  <1>2. ASSUME UNCHANGED <<host, installed, pending, refused>>,
               up' \subseteq Units, \A u \in up' : u \in up \/ Owner(u) \in installed
        PROVE  Invariant'
    BY <1>2, ConsistentNext DEF Invariant, Consistent, NeedsDoNotConflict, RunningIsInstalled, kind
  <1>3. CASE UNCHANGED vars
    BY <1>2, <1>3 DEF vars, Invariant
  <1>4. ASSUME NEW p \in Moby, Request(p) PROVE Invariant'
    <2>1. /\ UNCHANGED <<host, up>> /\ refused' = {}
          /\ installed \cap Moby \subseteq installed'
          /\ pending' \subseteq installed' /\ Consistent'
      BY <1>4, Requests
    <2>2. RunningIsInstalled'
      BY <2>1, Owners DEF Invariant, RunningIsInstalled, kind
    <2> QED BY <2>1, <2>2 DEF Invariant, NeedsDoNotConflict
  <1>5. ASSUME NEW p \in Moby, Configure(p) PROVE Invariant'
    <2>1. /\ UNCHANGED <<host, installed, refused>> /\ pending' \subseteq pending
          /\ up' = up \/ up' = Started(Starts(p), group')
      BY <1>5, Configurations
    <2>2. up' \subseteq Units /\ \A u \in up' : u \in up \/ Owner(u) \in installed
      BY <2>1, StartsUnits, StartedUnits DEF Invariant
    <2> QED BY <2>1, <2>2, ConsistentNext
         DEF Invariant, Consistent, NeedsDoNotConflict, RunningIsInstalled, kind
  <1>6. ASSUME NEW p \in Moby, Remove(p) PROVE Invariant'
    <2>1. /\ UNCHANGED <<host, refused>>
          /\ pending' = pending \cap installed' /\ Consistent'
          /\ installed \cap Moby \subseteq NeedsAlso(p) \cup installed'
          /\ up' = Stopped(UNION {Stops(q) : q \in NeedsAlso(p) \cap Moby})
      BY <1>6, Removals
    <2>2. up' \subseteq up
      BY <2>1, StoppedUnits
    <2>3. ASSUME host.helper, NEW u \in up', ~(kind = "rpm" /\ Owner(u) = "moby-containerd-shim-systemd")
          PROVE  Owner(u) \in installed'
      <3>1. u \in Units /\ Owner(u) \in installed \cap Moby /\ u \in UnitsOf(Owner(u))
        BY <2>2, <2>3, Owners DEF Invariant, RunningIsInstalled
      <3>2. u \in Stops(Owner(u)) \/ PartOf(u) \in Stops(Owner(u))
        BY <1>1, <2>3, <3>1, AllStopped DEF Kinds
      <3>3. Owner(u) \notin NeedsAlso(p)
        BY <2>1, <3>1, <3>2, RequiredUnits, StoppedUnits
      <3> QED BY <2>1, <3>1, <3>3
    <2>4. RunningIsInstalled'
      BY <2>1, <2>3 DEF RunningIsInstalled, kind
    <2> QED BY <2>1, <2>2, <2>4 DEF Invariant, NeedsDoNotConflict
  <1>7. ASSUME NEW u \in Units, StartUnit(u) \/ StopUnit(u) \/ Crash(u) PROVE Invariant'
    <2>1. UNCHANGED <<host, installed, pending, refused>>
      BY <1>7 DEF StartUnit, StopUnit, Crash
    <2>2. up' = Started({u}, group) \/ up' \subseteq up
      BY <1>7, StoppedUnits DEF StartUnit, StopUnit, Crash
    <2>3. up' \subseteq Units /\ \A v \in up' : v \in up \/ Owner(v) \in installed
      BY <2>2, StartedUnits DEF Invariant
    <2> QED BY <1>2, <2>1, <2>3
  <1> QED BY <1>3, <1>4, <1>5, <1>6, <1>7 DEF Next

-----------------------------------------------------------------------------
(* The properties *)

LEMMA InvariantAlways == Spec => []Invariant
  BY InvariantInit, InvariantStep, PTL DEF Spec

\* For any hosts and packages of other vendors: no two of the packages that a
\* request comes to conflict.
THEOREM RequestsAreGranted == Spec => []NeedsDoNotConflict
  <1>1. Invariant => NeedsDoNotConflict
    BY DEF Invariant
  <1> QED BY <1>1, InvariantAlways, PTL

\* For any hosts and packages of other vendors: where the helper is there, a unit
\* that runs is one of an installed package, or of the shim's rpm.
THEOREM NothingRunsRemoved == Spec => []RunningIsInstalled
  <1>1. Invariant => RunningIsInstalled
    BY DEF Invariant
  <1> QED BY <1>1, InvariantAlways, PTL

\* For any hosts and packages of other vendors: a request removes none of
\* this repository's packages, nor one that needs containerd.
THEOREM RequestsKeepOthers == Spec => BystandersStay
  <1>1. Invariant /\ [Next]_vars =>
          [Requested => installed \cap (Moby \cup {"user-of-containerd"}) \subseteq installed']_vars
    <2> SUFFICES ASSUME Invariant, Next, Requested
                 PROVE  installed \cap (Moby \cup {"user-of-containerd"}) \subseteq installed'
      OBVIOUS
    <2>1. ASSUME NEW p \in Moby, Request(p)
          PROVE  installed \cap (Moby \cup {"user-of-containerd"}) \subseteq installed'
      BY <2>1, Requests
    <2>2. ASSUME NEW p \in Moby, Configure(p) PROVE FALSE
      BY <2>2, Configurations DEF Requested
    <2>3. ASSUME NEW p \in Moby, Remove(p) PROVE FALSE
      BY <2>3, Removals DEF Requested
    <2>4. ASSUME NEW u \in Units, StartUnit(u) \/ StopUnit(u) \/ Crash(u) PROVE FALSE
      BY <2>4 DEF StartUnit, StopUnit, Crash, Requested
    <2> QED BY <2>1, <2>2, <2>3, <2>4 DEF Next
  <1> QED BY <1>1, InvariantAlways, PTL DEF Spec, BystandersStay

\* The engine's containerd is there, so its daemon starts when the group does.
LEMMA EngineStarts ==
  ASSUME Invariant, "moby-engine" \in installed, NEW grouped, grouped
  PROVE  "docker.service" \in Started(Starts("moby-engine"), grouped)
  <1>1. kind \in Kinds
    BY KindKnown DEF Invariant
  <1>2. "moby-containerd" \in Depends("moby-engine")
    <2>1. CASE kind = "deb"
      BY <2>1, DebWants
    <2>2. CASE kind = "rpm"
      BY <2>2, RpmWants DEF Moby, RpmDeps
    <2> QED BY <1>1, <2>1, <2>2 DEF Kinds
  <1>3. "moby-containerd" \in installed
    BY <1>1, <1>2, MobySatisfied DEF Invariant, Consistent, Moby
  <1>4. /\ Required("docker.service") = {"docker.service", "docker.socket", "containerd.service"}
        /\ Owner("docker.service") = "moby-engine" /\ Owner("docker.socket") = "moby-engine"
        /\ Owner("containerd.service") = "moby-containerd"
    BY UnitTable, Owners DEF Required, Moby
  <1>5. Startable("docker.service", grouped)
    BY <1>3, <1>4 DEF Startable
  <1>6. "docker.service" \in Starts("moby-engine")
    BY UnitTable DEF Starts
  <1> QED BY <1>4, <1>5, <1>6 DEF Started

\* For any hosts and packages of other vendors: when the engine is
\* configured and the docker group exists, its daemon is up.
THEOREM ConfiguredEngineRuns == Spec => EngineComesUp
  <1> DEFINE Configured == /\ "moby-engine" \in pending \ pending'
                           /\ "moby-engine" \in installed' /\ group'
  <1>1. Invariant /\ [Next]_vars => [Configured => "docker.service" \in up']_vars
    <2> SUFFICES ASSUME Invariant, Next, Configured PROVE "docker.service" \in up'
      OBVIOUS
    <2>1. ASSUME NEW p \in Moby, Request(p) PROVE FALSE
      BY <2>1, Requests
    <2>2. ASSUME NEW p \in Moby, Configure(p) PROVE "docker.service" \in up'
      <3>1. p = "moby-engine" /\ "moby-engine" \in installed
        BY <2>2, Configurations
      <3>2. up' = Started(Starts("moby-engine"), group')
        BY <2>2, <3>1 DEF Configure
      <3> QED BY <3>1, <3>2, EngineStarts
    <2>3. ASSUME NEW p \in Moby, Remove(p) PROVE FALSE
      BY <2>3, Removals
    <2>4. ASSUME NEW u \in Units, StartUnit(u) \/ StopUnit(u) \/ Crash(u) PROVE FALSE
      BY <2>4 DEF StartUnit, StopUnit, Crash
    <2> QED BY <2>1, <2>2, <2>3, <2>4 DEF Next
  <1> QED BY <1>1, InvariantAlways, PTL DEF Spec, EngineComesUp
=============================================================================
