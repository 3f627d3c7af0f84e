----------------------------- MODULE RpmLifecycle -----------------------------
(***************************************************************************)
(* The life of one rpm on a host: the scripts of moby-engine and           *)
(* moby-containerd (moby-*/postinstall/rpm, assembled by rpm.go), each of  *)
(* which names one unit, and an administrator who acts at any moment.      *)
(*                                                                         *)
(* From the source: when each script runs (the ifs of installScript) and   *)
(* its commands, one step each.  None can fail its script ("|| :").        *)
(*                                                                         *)
(* External: rpm puts the new files in place, runs %post ($1 is 1 on a     *)
(* first installation, 2 on an upgrade), then %preun of the old version    *)
(* ($1 is 1) and the triggers of systemd; an erasure runs %preun ($1 is 0) *)
(* before it removes the files.  A %post that is killed is only warned of, *)
(* a %preun that is killed keeps the package.  systemd-update-helper       *)
(* (systemd 249 and later) presets, marks, disables and stops units, and   *)
(* its trigger restarts those marked; the scripts do nothing of this where *)
(* it is not there (centos7, rhel8).                                       *)
(*                                                                         *)
(* Left out: the docker group, a kill of rpm itself, and masks.            *)
(***************************************************************************)
EXTENDS Integers, Sequences

CONSTANTS
  Versions,
  NoVersion,
  Hosts      \* the kinds of host: whether systemd-update-helper is there

ASSUME NoVersionAssumption == NoVersion \notin Versions
ASSUME HostsAssumption == Hosts \subseteq [helper: BOOLEAN]

VARIABLES
  host,      \* what kind of host this is; never changes
  disk,      \* version whose files are on disk
  script,    \* the scriptlet at work: its name and $1
  step,      \* the next command of it
  enabled,   \* the links of the unit exist
  run,       \* version the unit runs, or NoVersion
  marked,    \* to be restarted by systemd's trigger
  why,       \* who started or stopped the unit last (history)
  choice,    \* what the administrator last decided (history)
  cut        \* the scriptlets of this installation that were killed (history)

runVars == <<run, why>>
vars    == <<host, disk, script, step, enabled, runVars, marked, choice, cut>>

Scriptlet(name, one) == [name |-> name, one |-> one]
Idle    == Scriptlet("none", 0)
Trigger == Scriptlet("trigger", 0)

-----------------------------------------------------------------------------
(* The scripts *)

\* Mutants of PostInstall: the unit is not enabled; it is not started.
PostInstallNoEnable == <<"preset", "start">>
PostInstallNoStart  == <<"preset", "enable">>

PostInstall == <<"preset", "enable", "start">>
Upgrade     == <<"mark">>
PreRemoval  == <<"disable", "stop">>

\* Mutants of Body: the script for removals lacks its if, or has that of upgrades;
\* upgrades run the script of installations.
BodyAlwaysRemoves(s) ==
  CASE s.name = "post"  -> IF s.one = 1 THEN PostInstall ELSE Upgrade
    [] s.name = "preun" -> PreRemoval
    [] OTHER            -> <<>>
BodyRemovesOnUpgrade(s) ==
  CASE s.name = "post"               -> IF s.one = 1 THEN PostInstall ELSE Upgrade
    [] s.name = "preun" /\ s.one >= 1 -> PreRemoval
    [] OTHER                         -> <<>>
BodyNoUpgrade(s) ==
  CASE s.name = "post"               -> PostInstall
    [] s.name = "preun" /\ s.one = 0 -> PreRemoval
    [] OTHER                         -> <<>>

\* fpm: the script of --after-upgrade takes the place of the other on upgrades.
Body(s) ==
  CASE s.name = "post"               -> IF s.one = 1 THEN PostInstall ELSE Upgrade
    [] s.name = "preun" /\ s.one = 0 -> PreRemoval
    [] OTHER                         -> <<>>

At(command) ==
  /\ step \in DOMAIN Body(script)
  /\ Body(script)[step] = command
  /\ step' = step + 1
  /\ UNCHANGED <<host, disk, script, cut>>

\* install-system-units: the preset of the distribution, on or off.
Preset ==
  /\ At("preset")
  /\ enabled' \in IF host.helper THEN BOOLEAN ELSE {enabled}
  /\ UNCHANGED <<runVars, marked, choice>>

\* systemctl enable
Enable ==
  /\ At("enable")
  /\ enabled' = TRUE
  /\ UNCHANGED <<runVars, marked, choice>>

\* systemctl start
Start ==
  /\ At("start")
  /\ IF run # NoVersion THEN UNCHANGED runVars
     ELSE \/ run' = disk /\ why' = "script"
          \/ run' = NoVersion /\ why' = "failed"
  /\ UNCHANGED <<enabled, marked, choice>>

\* mark-restart-system-units
Mark ==
  /\ At("mark")
  /\ marked' = (host.helper /\ run # NoVersion)
  /\ UNCHANGED <<enabled, runVars, choice>>

\* remove-system-units: disable --now
Disable ==
  /\ At("disable")
  /\ IF host.helper THEN enabled' = FALSE /\ choice' = "none" ELSE UNCHANGED <<enabled, choice>>
  /\ UNCHANGED <<runVars, marked>>

Stop ==
  /\ At("stop")
  /\ IF host.helper /\ run # NoVersion THEN run' = NoVersion /\ why' = "script"
                                       ELSE UNCHANGED runVars
  /\ UNCHANGED <<enabled, marked, choice>>

Script == Preset \/ Enable \/ Start \/ Mark \/ Disable \/ Stop

-----------------------------------------------------------------------------
(* rpm *)

Begin(s) == script' = s /\ step' = 1

InstallPackage(v) ==
  /\ script = Idle /\ disk = NoVersion
  /\ disk' = v /\ cut' = {}
  /\ Begin(Scriptlet("post", 1))
  /\ UNCHANGED <<host, enabled, runVars, marked, choice>>

UpgradePackage(v) ==
  /\ script = Idle /\ disk \notin {v, NoVersion}
  /\ disk' = v /\ cut' = cut \ {Scriptlet("post", 2)}
  /\ Begin(Scriptlet("post", 2))
  /\ UNCHANGED <<host, enabled, runVars, marked, choice>>

Erase ==
  /\ script = Idle /\ disk # NoVersion
  /\ Begin(Scriptlet("preun", 0))
  /\ UNCHANGED <<host, disk, enabled, runVars, marked, choice, cut>>

Ended(s) == script = s /\ step = Len(Body(s)) + 1

Installed ==
  /\ Ended(Scriptlet("post", 1)) /\ Begin(Trigger)
  /\ UNCHANGED <<host, disk, enabled, runVars, marked, choice, cut>>

\* %preun of the old version is next.
Upgraded ==
  /\ Ended(Scriptlet("post", 2)) /\ Begin(Scriptlet("preun", 1))
  /\ UNCHANGED <<host, disk, enabled, runVars, marked, choice, cut>>

OldErased ==
  /\ Ended(Scriptlet("preun", 1)) /\ Begin(Trigger)
  /\ UNCHANGED <<host, disk, enabled, runVars, marked, choice, cut>>

\* The files go, and nothing of what the administrator decided is left.
Erased ==
  /\ Ended(Scriptlet("preun", 0)) /\ Begin(Trigger)
  /\ disk' = NoVersion /\ choice' = "none"
  /\ UNCHANGED <<host, enabled, runVars, marked, cut>>

\* systemd's trigger at the end of the transaction restarts what is marked.
Triggered ==
  /\ script = Trigger /\ Begin(Idle)
  /\ marked' = FALSE
  /\ IF marked /\ run # NoVersion
     THEN \/ run' = disk /\ why' = "script"
          \/ run' = NoVersion /\ why' = "failed"
     ELSE UNCHANGED runVars
  /\ UNCHANGED <<host, disk, enabled, choice, cut>>

\* A scriptlet is killed before its next command.
Killed ==
  /\ script \notin {Idle, Trigger}
  /\ Begin(CASE script = Scriptlet("post", 2)  -> Scriptlet("preun", 1)
             [] script = Scriptlet("preun", 0) -> Idle
             [] OTHER                          -> Trigger)
  /\ cut' = cut \cup {script}
  /\ UNCHANGED <<host, disk, enabled, runVars, marked, choice>>

Rpm ==
  \/ \E v \in Versions : InstallPackage(v) \/ UpgradePackage(v)
  \/ Erase \/ Installed \/ Upgraded \/ OldErased \/ Erased \/ Triggered \/ Killed

-----------------------------------------------------------------------------
(* The administrator, and reboots *)

Admin == disk # NoVersion /\ UNCHANGED <<host, disk, script, step, marked, cut>>

AdminEnable ==
  /\ Admin /\ ~enabled
  /\ enabled' = TRUE /\ choice' = "none"
  /\ why' = IF run = NoVersion THEN "admin" ELSE why
  /\ UNCHANGED run

\* Off, unless a script that enables or disables is at work meanwhile.
AdminDisable ==
  /\ Admin /\ enabled
  /\ enabled' = FALSE
  /\ choice' = IF script \in {Scriptlet("post", 1), Scriptlet("preun", 0)} THEN "racing" ELSE "off"
  /\ UNCHANGED runVars

AdminStart ==
  /\ Admin /\ run = NoVersion
  /\ run' = disk
  /\ why' = IF script = Scriptlet("preun", 0) THEN "late" ELSE "admin"
  /\ UNCHANGED <<enabled, choice>>

AdminStop ==
  /\ Admin /\ run # NoVersion
  /\ run' = NoVersion /\ why' = "admin"
  /\ UNCHANGED <<enabled, choice>>

Reboot ==
  /\ script = Idle
  /\ IF enabled /\ disk # NoVersion
     THEN \/ run' = disk /\ why' = "boot"
          \/ run' = NoVersion /\ why' = "failed"
     ELSE run' = NoVersion /\ why' = "boot"
  /\ UNCHANGED <<host, disk, script, step, enabled, marked, choice, cut>>

Environment == AdminEnable \/ AdminDisable \/ AdminStart \/ AdminStop \/ Reboot

Init ==
  /\ host \in Hosts
  /\ disk = NoVersion /\ script = Idle /\ step = 1
  /\ enabled = FALSE /\ run = NoVersion /\ marked = FALSE
  /\ why = "never" /\ choice = "none" /\ cut = {}

Next == Script \/ Rpm \/ Environment

Spec == Init /\ [][Next]_vars

-----------------------------------------------------------------------------
(* Properties *)

Settled     == script = Idle /\ disk # NoVersion
Done(s)     == s \notin cut
CameInWhole == Settled /\ Done(Scriptlet("post", 1)) /\ Done(Scriptlet("preun", 0))

\* The unit of an installed package is disabled only by the administrator, unless
\* the scriptlet that enables it was killed, or that of an erasure which the
\* package survived.  No upgrade makes up for that.
EnabledByDefault == CameInWhole => enabled \/ choice # "none"

\* It is then down only because it failed or was left down by the administrator.
EnabledMeansUp == CameInWhole /\ enabled /\ run = NoVersion => why \in {"failed", "admin"}

\* When an upgrade or a reinstallation is done the old version no longer runs,
\* given the helper, unless the administrator started it behind the back of %preun:
\* a reinstallation starts the unit but does not restart it.
UpgradeIsComplete ==
  host.helper /\ Settled /\ Done(Scriptlet("post", 2))
    => run \in {disk, NoVersion} \/ why = "late"

\* Once the files are gone nothing runs from them, given the helper, unless the
\* administrator started it again behind the back of %preun.
RemovedNotRunning == host.helper /\ disk = NoVersion => run = NoVersion \/ why = "late"

Going == script = Scriptlet("preun", 0)

Policy == INSTANCE ServicePolicy
            WITH here <- disk # NoVersion /\ ~Going,
                 up <- IF run = NoVersion THEN "down"
                       ELSE IF why \in {"admin", "late"} THEN "admin" ELSE "package"

\* The scripts keep to the policy of ServicePolicy: an upgrade enables nothing
\* that the administrator switched off and starts nothing that is not to run.
KeepsPolicy == Policy!Spec
=============================================================================
