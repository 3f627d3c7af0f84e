----------------------------- MODULE DebLifecycle -----------------------------
(***************************************************************************)
(* The life of one Debian package on a host: dpkg calls the package's      *)
(* maintainer scripts, the scripts drive deb-systemd-helper (d-s-h) and    *)
(* systemd, and an administrator acts on the units at any moment.          *)
(*                                                                         *)
(* From the source: which calls each script answers (deb.go, the wrappers  *)
(* of installScript) and the commands it then runs, in order, one step     *)
(* each (moby-*/postinstall/deb).  No command can fail a script: each ends *)
(* in "|| true".  dpkg, d-s-h, deb-systemd-invoke and systemd are external *)
(* and follow their documented behaviour, as the scripts' comments use it. *)
(*                                                                         *)
(* Left out: the docker group and the AppArmor profile of moby-engine,     *)
(* dependencies between units, what fpm generates for its --deb-systemd    *)
(* flags, and the removal of a package that was unpacked but never         *)
(* configured.  An administrator changes a unit only once the package has  *)
(* recorded it, and changes masks only between dpkg runs.                  *)
(***************************************************************************)
EXTENDS Integers, SequencesExt

CONSTANTS
  Units,      \* the units of the package, in the order of its scripts
  Versions,
  NoVersion,
  Hosts       \* the kinds of host: whether systemd is PID 1, whether d-s-h is there

ASSUME UnitsAssumption == Units \in Seq(ToSet(Units)) /\ Units # <<>>
ASSUME NoVersionAssumption == NoVersion \notin Versions
ASSUME HostsAssumption == Hosts \subseteq [systemd: BOOLEAN, helper: BOOLEAN]

VARIABLES
  host,        \* what kind of host this is; never changes
  status,      \* of the package, for dpkg; half-configured once prerm or
               \* postinst have been cut short
  disk,        \* version whose files are on disk
  configured,  \* version last configured: dpkg passes it to postinst as $2
  call,        \* the maintainer script at work: its name, $1 and $2
  step,        \* the next command of that script
  was,         \* units of which was-enabled has told the script yes, and whose
               \* enable is still to come
  loaded,      \* version of the unit files that systemd has read
  mask,        \* unit -> masked by nobody, by d-s-h or by the administrator
  enabled,     \* unit -> its links exist
  recorded,    \* unit -> d-s-h has its links in a state file
  run,         \* unit -> version of its binary and unit file, or Down
  why,         \* unit -> who started or stopped it last (history)
  choice       \* unit -> what the administrator last decided (history)

dpkgVars == <<status, disk, configured, call>>
unitVars == <<mask, enabled, recorded, choice>>
runVars  == <<run, why, loaded>>
vars     == <<host, dpkgVars, step, was, unitVars, runVars>>

UnitSet == ToSet(Units)
Disk    == Versions \cup {NoVersion}
Down    == [bin |-> NoVersion, def |-> NoVersion]

Call(script, one, two) == [script |-> script, one |-> one, two |-> two]
NoCall == Call("none", "none", NoVersion)
Idle   == call = NoCall

-----------------------------------------------------------------------------
(* The maintainer scripts *)

\* Mutant of Runs: postinst does not answer abort-remove.
RunsNoAbortRemove(c) ==
  \/ c.script = "postinst" /\ c.one # "abort-remove"
  \/ c.script = "prerm"  /\ c.one = "remove"
  \/ c.script = "postrm" /\ c.one = "purge"

\* The wrapper that installScript puts around the body of each script.
Runs(c) ==
  \/ c.script = "postinst" /\ c.one \in {"configure", "abort-upgrade",
                                         "abort-deconfigure", "abort-remove"}
  \/ c.script = "prerm"  /\ c.one = "remove"
  \/ c.script = "postrm" /\ c.one = "purge"

Command(do, us) == [do |-> do, units |-> us]

\* Mutant of SetUp: the block of every unit names the first one.
SetUpFirstOnly ==
  [n \in 1 .. 3 * Len(Units) |->
     Command(CASE n % 3 = 1 -> "unmask" [] n % 3 = 2 -> "was-enabled" [] n % 3 = 0 -> "enable",
             {Units[1]})]

\* Three commands for each unit, then those for all of them.
SetUp ==
  [n \in 1 .. 3 * Len(Units) |->
     Command(CASE n % 3 = 1 -> "unmask" [] n % 3 = 2 -> "was-enabled" [] n % 3 = 0 -> "enable",
             {Units[(n + 2) \div 3]})]

\* Mutants of Postinst, Prerm and Postrm: the units are started before they are
\* enabled; no daemon-reload; the units are stopped before they are masked; the
\* mask is left.
PostinstInvokesFirst == <<Command("reload", {}), Command("invoke", UnitSet)>> \o SetUp
PostinstNoReload     == SetUp \o <<Command("invoke", UnitSet)>>
PrermStopsFirst ==
  <<Command("reload", {}), Command("stop", UnitSet), Command("mask", UnitSet)>>
PostrmNoUnmask       == <<Command("purge", UnitSet)>>

Postinst == SetUp \o <<Command("reload", {}), Command("invoke", UnitSet)>>
Prerm    == <<Command("reload", {}), Command("mask", UnitSet), Command("stop", UnitSet)>>
Postrm   == <<Command("purge", UnitSet), Command("unmask", UnitSet)>>

Body(c) ==
  IF ~Runs(c) THEN <<>>
  ELSE CASE c.script = "postinst" -> Postinst
         [] c.script = "prerm"    -> Prerm
         [] c.script = "postrm"   -> Postrm

\* Mutant of At: a command is skipped.
AtSkipping(do, us) ==
  /\ step \in DOMAIN Body(call)
  /\ Body(call)[step] = Command(do, us)
  /\ step' = step + 2
  /\ UNCHANGED <<host, dpkgVars>>

\* The script is about to run command do on us; afterwards it is one further.
At(do, us) ==
  /\ step \in DOMAIN Body(call)
  /\ Body(call)[step] = Command(do, us)
  /\ step' = step + 1
  /\ UNCHANGED <<host, dpkgVars>>

\* f with the values of g at the units in us, when d-s-h is there to do it.
Helped(f, us, g) == [u \in UnitSet |-> IF u \in us /\ host.helper THEN g[u] ELSE f[u]]

\* "This will only remove masks created by d-s-h on package removal."
Unmask(us) ==
  /\ At("unmask", us)
  /\ mask' = Helped(mask, us, [u \in UnitSet |-> IF mask[u] = "dsh" THEN "none" ELSE mask[u]])
  /\ UNCHANGED <<was, enabled, recorded, choice, runVars>>

\* Mutants of WasEnabled: enable runs whatever was-enabled says; was-enabled
\* defaults to false.
WasEnabledIgnored(u) ==
  /\ At("was-enabled", {u})
  /\ was' = IF host.helper THEN was \cup {u} ELSE was
  /\ UNCHANGED <<unitVars, runVars>>
WasEnabledByRecord(u) ==
  /\ At("was-enabled", {u})
  /\ was' = IF host.helper /\ recorded[u] /\ enabled[u] THEN was \cup {u} ELSE was
  /\ UNCHANGED <<unitVars, runVars>>

\* "was-enabled defaults to true, so new installations run enable."
WasEnabled(u) ==
  /\ At("was-enabled", {u})
  /\ was' = IF host.helper /\ (recorded[u] => enabled[u]) THEN was \cup {u} ELSE was
  /\ UNCHANGED <<unitVars, runVars>>

\* enable, or else update-state, as was-enabled said; both record the links.
Enable(u) ==
  /\ At("enable", {u})
  /\ enabled'  = Helped(enabled, {u}, [v \in UnitSet |-> enabled[v] \/ v \in was])
  /\ recorded' = Helped(recorded, {u}, [v \in UnitSet |-> TRUE])
  /\ was' = was \ {u}
  /\ UNCHANGED <<mask, choice, runVars>>

Mask(us) ==
  /\ At("mask", us)
  /\ mask' = Helped(mask, us, [u \in UnitSet |-> IF mask[u] = "none" THEN "dsh" ELSE mask[u]])
  /\ UNCHANGED <<was, enabled, recorded, choice, runVars>>

\* The links and the record go, and with them what the administrator decided.
Purge(us) ==
  /\ At("purge", us)
  /\ enabled'  = Helped(enabled, us, [u \in UnitSet |-> enabled[u] /\ ~recorded[u]])
  /\ recorded' = Helped(recorded, us, [u \in UnitSet |-> FALSE])
  /\ choice'   = Helped(choice, us, [u \in UnitSet |-> "none"])
  /\ UNCHANGED <<was, mask, runVars>>

\* systemctl daemon-reload
Reload ==
  /\ At("reload", {})
  /\ loaded' = IF host.systemd THEN disk ELSE loaded
  /\ UNCHANGED <<was, unitVars, run, why>>

\* What runs when a unit is started now: systemd goes by the unit file it has
\* read, and reads it if it has none.
Now == [bin |-> disk, def |-> IF loaded = NoVersion THEN disk ELSE loaded]

\* Mutant of Invoke: systemctl restart, whether or not the unit is enabled.
InvokeAlways(us) ==
  /\ At("invoke", us)
  /\ LET hit == {u \in us : host.systemd /\ mask[u] = "none"}
     IN /\ run' = [u \in UnitSet |-> IF u \in hit THEN Now ELSE run[u]]
        /\ why' = [u \in UnitSet |-> IF u \in hit THEN "script" ELSE why[u]]
  /\ UNCHANGED <<was, unitVars, loaded>>

\* deb-systemd-invoke restart or start, as $2 is set or not: a unit that is
\* neither enabled nor (for restart) running is left alone, a masked one is
\* refused, and a start may fail.
Invoke(us) ==
  /\ At("invoke", us)
  /\ \E failing \in SUBSET UnitSet :
       LET hit == {u \in us : /\ host.systemd /\ host.helper
                              /\ mask[u] = "none"
                              /\ enabled[u] \/ (call.two # NoVersion /\ run[u] # Down)
                              /\ run[u] = Down \/ call.two # NoVersion}
       IN /\ failing \subseteq hit
          /\ run' = [u \in UnitSet |-> IF u \in failing THEN Down
                                       ELSE IF u \in hit THEN Now ELSE run[u]]
          /\ why' = [u \in UnitSet |-> IF u \in failing THEN "failed"
                                       ELSE IF u \in hit THEN "script" ELSE why[u]]
  /\ UNCHANGED <<was, unitVars, loaded>>

Stop(us) ==
  /\ At("stop", us)
  /\ LET hit == {u \in us : host.systemd /\ host.helper /\ run[u] # Down}
     IN /\ run' = [u \in UnitSet |-> IF u \in hit THEN Down ELSE run[u]]
        /\ why' = [u \in UnitSet |-> IF u \in hit THEN "script" ELSE why[u]]
  /\ UNCHANGED <<was, unitVars, loaded>>

Script ==
  \/ Reload
  \/ Invoke(UnitSet) \/ Mask(UnitSet) \/ Stop(UnitSet) \/ Purge(UnitSet)
  \/ \E us \in {UnitSet} \cup {{u} : u \in UnitSet} : Unmask(us)
  \/ \E u \in UnitSet : WasEnabled(u) \/ Enable(u)

-----------------------------------------------------------------------------
(* dpkg *)

Start(c) == call' = c /\ step' = 1 /\ was' = {}

Begin(c) ==
  /\ Idle
  /\ Start(c)
  /\ UNCHANGED <<host, status, disk, configured, unitVars, runVars>>

\* A package that is not installed is unpacked without a script of ours.
Unpack(v) ==
  /\ Idle /\ status \in {"not-installed", "config-files"}
  /\ disk' = v /\ status' = "unpacked"
  /\ UNCHANGED <<host, configured, call, step, was, unitVars, runVars>>

\* To another version or to the same; an interrupted package is configured or
\* removed before it is upgraded.
Upgrade(v) == status = "installed" /\ Begin(Call("prerm", "upgrade", v))

Configure ==
  /\ status \in {"unpacked", "half-configured"}
  /\ Begin(Call("postinst", "configure", configured))

RemovePackage ==
  /\ status \in {"installed", "half-configured"}
  /\ Begin(Call("prerm", "remove", NoVersion))

PurgePackage == status = "config-files" /\ Begin(Call("postrm", "purge", NoVersion))

\* The script has ended; what dpkg does next depends on which call it was.
Ended(script, one) ==
  /\ call.script = script /\ call.one = one
  /\ step = Len(Body(call)) + 1
  /\ UNCHANGED <<host, unitVars, runVars>>

Unpacked ==
  /\ Ended("prerm", "upgrade")
  /\ disk' = call.two /\ status' = "unpacked"
  /\ Start(Call("postrm", "upgrade", call.two))
  /\ UNCHANGED configured

\* Unpacking failed: the old version stays, and is told so.
UnpackFailed ==
  /\ Ended("prerm", "upgrade")
  /\ Start(Call("postinst", "abort-upgrade", call.two))
  /\ UNCHANGED <<status, disk, configured>>

OldPurged ==
  /\ Ended("postrm", "upgrade")
  /\ Start(NoCall)
  /\ UNCHANGED <<status, disk, configured>>

Installed ==
  /\ Ended("postinst", "configure") \/ Ended("postinst", "abort-upgrade")
  /\ status' = "installed" /\ configured' = disk
  /\ Start(NoCall)
  /\ UNCHANGED disk

\* A removal taken back leaves the package as it was before.
Kept ==
  /\ Ended("postinst", "abort-remove")
  /\ Start(NoCall)
  /\ UNCHANGED <<status, disk, configured>>

FilesRemoved ==
  /\ Ended("prerm", "remove")
  /\ disk' = NoVersion /\ status' = "config-files"
  /\ Start(Call("postrm", "remove", NoVersion))
  /\ UNCHANGED configured

Removed ==
  /\ Ended("postrm", "remove")
  /\ Start(NoCall)
  /\ UNCHANGED <<status, disk, configured>>

Purged ==
  /\ Ended("postrm", "purge")
  /\ status' = "not-installed" /\ configured' = NoVersion
  /\ Start(NoCall)
  /\ UNCHANGED disk

CutShort == IF call.script \in {"prerm", "postinst"} THEN "half-configured" ELSE status

\* A script is killed: dpkg takes a removal back, and leaves the rest for later.
Killed ==
  /\ step \in DOMAIN Body(call)
  /\ IF call.script = "prerm"
     THEN Start(Call("postinst", "abort-remove", NoVersion)) /\ UNCHANGED status
     ELSE Start(NoCall) /\ status' = CutShort
  /\ UNCHANGED <<host, disk, configured, unitVars, runVars>>

Dpkg ==
  \/ \E v \in Versions : Unpack(v) \/ Upgrade(v)
  \/ Configure \/ RemovePackage \/ PurgePackage
  \/ Unpacked \/ UnpackFailed \/ OldPurged \/ Installed \/ Kept \/ FilesRemoved \/ Removed \/ Purged
  \/ Killed

-----------------------------------------------------------------------------
(* The administrator, and accidents *)

Admin(u) == u \in UnitSet /\ disk # NoVersion /\ recorded[u]
              /\ UNCHANGED <<host, dpkgVars, step, was, loaded>>

\* A unit that is down when it is allowed to run again is down by choice.
LeftDown(u) == why' = IF run[u] = Down THEN [why EXCEPT ![u] = "admin"] ELSE why

AdminEnable(u) ==
  /\ Admin(u) /\ ~enabled[u]
  /\ enabled' = [enabled EXCEPT ![u] = TRUE]
  /\ choice' = [choice EXCEPT ![u] = "none"]
  /\ LeftDown(u)
  /\ UNCHANGED <<mask, recorded, run>>

\* At any moment.  Between was-enabled and enable of the unit (postinst:6-7) it is
\* "racing": enable, already decided on, will enable the unit again.
AdminDisable(u) ==
  /\ Admin(u) /\ enabled[u]
  /\ enabled' = [enabled EXCEPT ![u] = FALSE]
  /\ choice' = [choice EXCEPT ![u] = IF u \in was THEN "racing" ELSE "off"]
  /\ UNCHANGED <<mask, recorded, run, why>>

AdminMask(u) ==
  /\ Admin(u) /\ Idle /\ mask[u] = "none"
  /\ mask' = [mask EXCEPT ![u] = "admin"]
  /\ UNCHANGED <<enabled, recorded, choice, run, why>>

AdminUnmask(u) ==
  /\ Admin(u) /\ Idle /\ mask[u] = "admin"
  /\ mask' = [mask EXCEPT ![u] = "none"]
  /\ LeftDown(u)
  /\ UNCHANGED <<enabled, recorded, choice, run>>

\* systemd may not have seen the mask of a prerm that is still at work: a start
\* that comes after it is "late".
AdminStart(u) ==
  /\ Admin(u) /\ host.systemd /\ run[u] = Down
  /\ \/ mask[u] = "none" /\ why' = [why EXCEPT ![u] = "admin"]
     \/ mask[u] = "dsh" /\ call.script = "prerm" /\ why' = [why EXCEPT ![u] = "late"]
  /\ run' = [run EXCEPT ![u] = Now]
  /\ UNCHANGED <<unitVars>>

AdminStop(u) ==
  /\ Admin(u) /\ run[u] # Down
  /\ run' = [run EXCEPT ![u] = Down]
  /\ why' = [why EXCEPT ![u] = "admin"]
  /\ UNCHANGED <<unitVars>>

\* The host goes down and comes up again, with whatever dpkg had recorded.
Reboot ==
  /\ host.systemd
  /\ Start(NoCall) /\ status' = CutShort
  /\ loaded' = disk
  /\ LET up == {u \in UnitSet : enabled[u] /\ mask[u] = "none" /\ disk # NoVersion}
     IN \E failing \in SUBSET up :
          /\ run' = [u \in UnitSet |-> IF u \in up \ failing
                                       THEN [bin |-> disk, def |-> disk] ELSE Down]
          /\ why' = [u \in UnitSet |-> IF u \in failing THEN "failed" ELSE "boot"]
  /\ UNCHANGED <<host, disk, configured, unitVars>>

Environment ==
  \/ Reboot
  \/ \E u \in UnitSet : \/ AdminEnable(u) \/ AdminDisable(u) \/ AdminMask(u)
                        \/ AdminUnmask(u) \/ AdminStart(u) \/ AdminStop(u)

Init ==
  /\ host \in Hosts
  /\ status = "not-installed" /\ disk = NoVersion /\ configured = NoVersion
  /\ call = NoCall /\ step = 1 /\ was = {}
  /\ loaded = NoVersion
  /\ mask = [u \in UnitSet |-> "none"]
  /\ enabled = [u \in UnitSet |-> FALSE]
  /\ recorded = [u \in UnitSet |-> FALSE]
  /\ run = [u \in UnitSet |-> Down]
  /\ why = [u \in UnitSet |-> "never"]
  /\ choice = [u \in UnitSet |-> "none"]

Next == Script \/ Dpkg \/ Environment

Spec == Init /\ [][Next]_vars

-----------------------------------------------------------------------------
(* Properties *)

Settled == Idle /\ status = "installed" /\ host.helper

Calls == [script: {"postinst"}, two: Disk,
          one: {"configure", "abort-upgrade", "abort-remove"}]
           \cup [script: {"prerm", "postrm"}, one: {"upgrade", "remove", "purge"}, two: Disk]
           \cup {NoCall}

\* Every variable stays in its range, and the script at work is at one of its
\* commands or at its end.
TypeOK ==
  /\ host \in Hosts
  /\ status \in {"not-installed", "config-files", "unpacked", "half-configured", "installed"}
  /\ disk \in Disk /\ configured \in Disk /\ loaded \in Disk
  /\ call \in Calls
  /\ step \in 1 .. Len(Body(call)) + 1
  /\ was \in SUBSET UnitSet
  /\ mask \in [UnitSet -> {"none", "dsh", "admin"}]
  /\ enabled \in [UnitSet -> BOOLEAN]
  /\ recorded \in [UnitSet -> BOOLEAN]
  /\ run \in [UnitSet -> [bin: Disk, def: Disk]]
  /\ why \in [UnitSet -> {"never", "script", "boot", "failed", "admin", "late"}]
  /\ choice \in [UnitSet -> {"none", "off", "racing"}]

\* The mask that prerm puts on the units is gone whenever the package is
\* installed again: after a reinstallation, and after a removal taken back.
NoStaleMask == Settled => \A u \in UnitSet : mask[u] # "dsh"

\* A unit that the administrator disabled stays disabled through upgrades,
\* removals and reinstallations, crashes included, until a purge: also one that he
\* disabled while postinst was at work, before it asked was-enabled about the unit
\* or after it enabled it.  Between these two commands the code loses what he did
\* (choice is "racing"), which is all that is exempt.
DisableSurvives == \A u \in UnitSet : choice[u] = "off" => ~enabled[u]

\* A unit of an installed package is disabled only by the administrator:
\* was-enabled defaults to true on new installations.
EnabledByDefault == Settled => \A u \in UnitSet : enabled[u] \/ choice[u] # "none"

\* An enabled unit of an installed package is down only because it failed or
\* was left down by the administrator, never because a script stopped it, or
\* never started it.
EnabledMeansUp ==
  Settled /\ host.systemd =>
    \A u \in UnitSet : enabled[u] /\ mask[u] = "none" /\ run[u] = Down
                         => why[u] \in {"failed", "admin"}

\* When an upgrade or a reinstallation is done (or an upgrade is taken back),
\* no unit still runs the old version, nor the new one under the old unit file;
\* one that the administrator masked is exempt, systemd refuses to restart it.
UpgradeIsComplete ==
  [][Installed /\ call.two # NoVersion /\ host.systemd /\ host.helper =>
       \A u \in UnitSet : \/ mask[u] = "admin"
                          \/ run[u] \in {Down, [bin |-> disk, def |-> disk]}]_vars

\* Once the files are gone nothing runs from them, unless an administrator
\* started it after prerm had masked it and before systemd took notice.
RemovedNotRunning ==
  disk = NoVersion /\ host.helper => \A u \in UnitSet : run[u] = Down \/ why[u] = "late"

\* A purge leaves neither links nor records nor masks of the package behind.
PurgeLeavesNothing ==
  Idle /\ status = "not-installed" =>
    \A u \in UnitSet : ~enabled[u] /\ ~recorded[u] /\ mask[u] # "dsh"

\* Who started each unit, for ServicePolicy.
StartedBy(u) ==
  IF run[u] = Down THEN "down" ELSE IF why[u] \in {"admin", "late"} THEN "admin" ELSE "package"

Policy(u) == INSTANCE ServicePolicy
               WITH here <- disk # NoVersion, enabled <- enabled[u], choice <- choice[u],
                    up <- StartedBy(u)

\* To each unit the package does only what it may: it enables none that was
\* switched off, starts none that is not to run, and forgets only on purge.
\* This is \A u \in UnitSet : Policy(u)!Spec, in the form TLC takes.
KeepsPolicy ==
  /\ \A u \in UnitSet : Policy(u)!Init
  /\ [][\A u \in UnitSet : Policy(u)!Next \/ UNCHANGED Policy(u)!vars]_vars
=============================================================================
