-------------------------- MODULE RpmLifecycle_proofs --------------------------
(***************************************************************************)
(* Proofs about the life of an rpm, for any number of versions and on      *)
(* hosts with and without systemd-update-helper.                           *)
(***************************************************************************)
EXTENDS RpmLifecycle, TLAPS

Post1  == Scriptlet("post", 1)
Post2  == Scriptlet("post", 2)
Preun0 == Scriptlet("preun", 0)
Preun1 == Scriptlet("preun", 1)

Scriptlets == {Idle, Trigger, Post1, Post2, Preun0, Preun1}

LEMMA ScriptletsDiffer ==
  /\ Idle \notin {Trigger, Post1, Post2, Preun0, Preun1}
  /\ Trigger \notin {Post1, Post2, Preun0, Preun1}
  /\ Post1 \notin {Post2, Preun0, Preun1} /\ Post2 \notin {Preun0, Preun1} /\ Preun0 # Preun1
  BY DEF Idle, Trigger, Post1, Post2, Preun0, Preun1, Scriptlet

LEMMA Bodies ==
  /\ Body(Post1) = PostInstall /\ Body(Post2) = Upgrade /\ Body(Preun0) = PreRemoval
  /\ Body(Preun1) = <<>> /\ Body(Idle) = <<>> /\ Body(Trigger) = <<>>
  BY DEF Body, Idle, Trigger, Post1, Post2, Preun0, Preun1, Scriptlet

\* Which scriptlet runs a command, and where.
LEMMA Commands ==
  ASSUME script \in Scriptlets
  PROVE  /\ At("preset")  => script = Post1  /\ step = 1 /\ step' = 2
         /\ At("enable")  => script = Post1  /\ step = 2 /\ step' = 3
         /\ At("start")   => script = Post1  /\ step = 3 /\ step' = 4
         /\ At("mark")    => script = Post2  /\ step = 1 /\ step' = 2
         /\ At("disable") => script = Preun0 /\ step = 1 /\ step' = 2
         /\ At("stop")    => script = Preun0 /\ step = 2 /\ step' = 3
  <1>1. CASE Body(script) = PostInstall /\ script = Post1
    BY <1>1 DEF At, PostInstall
  <1>2. CASE Body(script) = Upgrade /\ script = Post2
    BY <1>2 DEF At, Upgrade
  <1>3. CASE Body(script) = PreRemoval /\ script = Preun0
    BY <1>3 DEF At, PreRemoval
  <1>4. CASE Body(script) = <<>>
    BY <1>4 DEF At
  <1> QED BY <1>1, <1>2, <1>3, <1>4, Bodies DEF Scriptlets

\* And where each of them ends.
LEMMA Ends ==
  /\ Ended(Post1)  => script = Post1 /\ step = 4
  /\ Ended(Post2)  => script = Post2 /\ step = 2
  /\ Ended(Preun0) => script = Preun0 /\ step = 3
  BY Bodies DEF Ended, PostInstall, Upgrade, PreRemoval

-----------------------------------------------------------------------------
(* The invariant *)

\* Scriptlets run while the files are there, and only an upgrade marks the unit.
Present ==
  /\ script \in Scriptlets
  /\ script \notin {Idle, Trigger} => disk # NoVersion
  /\ marked => disk # NoVersion /\ script \in {Post2, Preun1, Trigger}

Whole == Post1 \notin cut /\ Preun0 \notin cut

\* What the administrator decided is forgotten with the files, so that the next
\* installation enables the unit; from then on only he disables it.
Enabling ==
  /\ disk = NoVersion => choice = "none"
  /\ choice = "off" => script # Post1
  /\ script = Post1 /\ step > 2 => enabled \/ choice = "racing"
  /\ disk # NoVersion /\ Whole /\ script \notin {Post1, Preun0} => enabled \/ choice # "none"

\* An enabled unit was started by the scripts, or is down for a reason.
Starting ==
  /\ disk # NoVersion /\ Whole
  /\ script \notin {Post1, Preun0} \/ (script = Post1 /\ step = 4)
  /\ enabled /\ run = NoVersion
  => why \in {"failed", "admin"}

Current == run \in {disk, NoVersion} \/ why = "late"

\* Between the mark and the trigger the old version may run on; nothing does after
\* the stop of an erasure.
Running ==
  host.helper =>
    /\ disk = NoVersion \/ (script = Preun0 /\ step = 3) => run = NoVersion \/ why = "late"
    /\ disk # NoVersion /\ Post2 \notin cut =>
         /\ script \in {Idle, Post1, Preun0} => Current
         /\ script \in {Preun1, Trigger} \/ (script = Post2 /\ step = 2) => Current \/ marked

Invariant == Present /\ Enabling /\ Starting /\ Running

LEMMA ScriptStep == Invariant /\ Script => Invariant'
  <1> SUFFICES ASSUME Invariant, Script PROVE Invariant'
    OBVIOUS
  <1> USE ScriptletsDiffer, Commands
          DEF Invariant, Present, Enabling, Starting, Running, Current, Whole
  <1>1. CASE Preset
    BY <1>1 DEF Preset, At, runVars
  <1>2. CASE Enable
    BY <1>2 DEF Enable, At, runVars
  <1>3. CASE Start
    BY <1>3 DEF Start, At, runVars
  <1>4. CASE Mark
    BY <1>4 DEF Mark, At, runVars
  <1>5. CASE Disable
    BY <1>5 DEF Disable, At, runVars
  <1>6. CASE Stop
    BY <1>6 DEF Stop, At, runVars
  <1> QED BY <1>1, <1>2, <1>3, <1>4, <1>5, <1>6 DEF Script

LEMMA RpmStep == Invariant /\ Rpm => Invariant'
  <1> SUFFICES ASSUME Invariant, Rpm PROVE Invariant'
    OBVIOUS
  <1> USE ScriptletsDiffer, NoVersionAssumption
          DEF Invariant, Present, Enabling, Starting, Running, Current, Whole, Begin, runVars,
              Scriptlets
  <1>1. ASSUME NEW v \in Versions, InstallPackage(v) PROVE Invariant'
    BY <1>1 DEF InstallPackage, Post1
  <1>2. ASSUME NEW v \in Versions, UpgradePackage(v) PROVE Invariant'
    BY <1>2 DEF UpgradePackage, Post2
  <1>3. CASE Erase
    BY <1>3 DEF Erase, Preun0
  <1>4. CASE Installed
    BY <1>4, Ends DEF Installed, Post1
  <1>5. CASE Upgraded
    BY <1>5, Ends DEF Upgraded, Post2, Preun1
  <1>6. CASE OldErased
    BY <1>6 DEF OldErased, Ended, Preun1
  <1>7. CASE Erased
    BY <1>7, Ends DEF Erased, Preun0
  <1>8. CASE Triggered
    BY <1>8 DEF Triggered
  <1>9. CASE Killed
    BY <1>9 DEF Killed, Post2, Preun0, Preun1
  <1> QED BY <1>1, <1>2, <1>3, <1>4, <1>5, <1>6, <1>7, <1>8, <1>9 DEF Rpm

LEMMA EnvironmentStep == Invariant /\ Environment => Invariant'
  <1> SUFFICES ASSUME Invariant, Environment PROVE Invariant'
    OBVIOUS
  <1> USE ScriptletsDiffer
          DEF Invariant, Present, Enabling, Starting, Running, Current, Whole, Admin, runVars
  <1>1. CASE AdminEnable
    BY <1>1 DEF AdminEnable
  <1>2. CASE AdminDisable
    BY <1>2 DEF AdminDisable, Post1, Preun0
  <1>3. CASE AdminStart
    BY <1>3 DEF AdminStart, Preun0
  <1>4. CASE AdminStop
    BY <1>4 DEF AdminStop
  <1>5. CASE Reboot
    BY <1>5 DEF Reboot
  <1> QED BY <1>1, <1>2, <1>3, <1>4, <1>5 DEF Environment

LEMMA InvariantHolds == Spec => []Invariant
  <1>1. Init => Invariant
    BY ScriptletsDiffer DEF Init, Invariant, Present, Enabling, Starting, Running, Scriptlets
  <1>2. Invariant /\ UNCHANGED vars => Invariant'
    BY DEF vars, runVars, Invariant, Present, Enabling, Starting, Running, Current, Whole
  <1> QED BY <1>1, <1>2, ScriptStep, RpmStep, EnvironmentStep, PTL DEF Spec, Next

-----------------------------------------------------------------------------
(* The properties *)

\* The unit of an installed package is disabled only by the administrator, unless
\* the scriptlet that enables it was killed.
THEOREM EnabledFromTheStart == Spec => []EnabledByDefault
  <1>1. Invariant => EnabledByDefault
    BY ScriptletsDiffer DEF Invariant, Enabling, Whole, EnabledByDefault, CameInWhole, Settled,
                            Done, Post1, Preun0
  <1> QED BY <1>1, InvariantHolds, PTL

\* It is then down only because it failed or was left down by the administrator.
THEOREM EnabledAreUp == Spec => []EnabledMeansUp
  <1>1. Invariant => EnabledMeansUp
    BY ScriptletsDiffer DEF Invariant, Starting, Whole, EnabledMeansUp, CameInWhole, Settled,
                            Done, Post1, Preun0
  <1> QED BY <1>1, InvariantHolds, PTL

\* When an upgrade is done the old version no longer runs.
THEOREM UpgradesAreComplete == Spec => []UpgradeIsComplete
  <1>1. Invariant => UpgradeIsComplete
    BY ScriptletsDiffer DEF Invariant, Running, Current, UpgradeIsComplete, Settled, Done, Post2
  <1> QED BY <1>1, InvariantHolds, PTL

\* Once the files are gone nothing runs from them.
THEOREM NothingRunsRemoved == Spec => []RemovedNotRunning
  <1>1. Invariant => RemovedNotRunning
    BY DEF Invariant, Running, RemovedNotRunning
  <1> QED BY <1>1, InvariantHolds, PTL

-----------------------------------------------------------------------------
(* The policy *)

StartedBy == IF run = NoVersion THEN "down" ELSE IF why \in {"admin", "late"} THEN "admin" ELSE "package"
Here      == disk # NoVersion /\ ~Going

\* rpm brings and takes away the package, or has the trigger start its unit.
LEMMA RpmKeepsPolicy == Invariant /\ Rpm => Policy!Next \/ UNCHANGED Policy!vars
  <1> SUFFICES ASSUME Invariant, Rpm PROVE Policy!Next \/ UNCHANGED Policy!vars
    OBVIOUS
  <1> USE ScriptletsDiffer, NoVersionAssumption DEF Begin, runVars, Here, StartedBy
  <1>1. \/ Here' = Here /\ UNCHANGED <<enabled, choice>> /\ StartedBy' = StartedBy
        \/ Here' = ~Here /\ UNCHANGED <<enabled, choice>> /\ StartedBy' = StartedBy
        \/ ~Here /\ ~Here' /\ choice' = "none" /\ enabled' = enabled /\ StartedBy' = StartedBy
        \/ /\ Here /\ Here' /\ UNCHANGED <<enabled, choice>>
           /\ \/ StartedBy # "down" /\ StartedBy' = "package"
              \/ StartedBy' = "down"
    <2>1. ASSUME NEW v \in Versions, InstallPackage(v)
          PROVE  Here' = ~Here /\ UNCHANGED <<enabled, choice, run, why>>
      BY <2>1 DEF InstallPackage, Going, Post1, Preun0
    <2>2. ASSUME NEW v \in Versions, UpgradePackage(v)
          PROVE  Here' = Here /\ UNCHANGED <<enabled, choice, run, why>>
      BY <2>2 DEF UpgradePackage, Going, Post2, Preun0
    <2>3. CASE Erase
      BY <2>3 DEF Erase, Going, Preun0
    <2>4. CASE Installed \/ Upgraded \/ OldErased
      BY <2>4 DEF Installed, Upgraded, OldErased, Ended, Going, Post1, Post2, Preun0, Preun1
    <2>5. CASE Erased
      BY <2>5 DEF Erased, Ended, Going
    <2>6. CASE Triggered
      BY <2>6 DEF Triggered, Going, Preun0, Invariant, Present
    <2>7. CASE Killed
      BY <2>7 DEF Killed, Going, Post2, Preun0, Preun1, Invariant, Present
    <2> QED BY <2>1, <2>2, <2>3, <2>4, <2>5, <2>6, <2>7 DEF Rpm
  <1> QED BY <1>1 DEF Policy!Next, Policy!ComesOrGoes, Policy!Forgets, Policy!Starts, Policy!Stops,
                      Policy!vars

\* postinstall sets up and starts the unit while the package is here, prerm stops
\* it once the package is about to go.
LEMMA ScriptKeepsPolicy == Invariant /\ Script => Policy!Next \/ UNCHANGED Policy!vars
  <1> SUFFICES ASSUME Invariant, Script PROVE Policy!Next \/ UNCHANGED Policy!vars
    OBVIOUS
  <1> USE ScriptletsDiffer, Commands
          DEF Invariant, Present, Enabling, runVars, Here, StartedBy, Going, Preun0
  <1>1. Here' = Here
    BY DEF Script, Preset, Enable, Start, Mark, Disable, Stop, At
  <1>2. CASE Preset \/ Enable
    <2>1. Here /\ choice # "off" /\ enabled' \in BOOLEAN \cup {enabled} /\ choice' = choice /\ StartedBy' = StartedBy
      BY <1>2 DEF Preset, Enable
    <2> QED BY <1>1, <2>1 DEF Policy!Next, Policy!SetsUp, Policy!vars
  <1>3. CASE Start
    <2>1. /\ Here /\ (enabled \/ choice = "racing") /\ UNCHANGED <<enabled, choice>>
          /\ StartedBy' \in {StartedBy, "package"}
      BY <1>3 DEF Start
    <2> QED BY <1>1, <2>1 DEF Policy!Next, Policy!Starts, Policy!vars
  <1>4. CASE Mark
    BY <1>1, <1>4 DEF Mark, Policy!vars
  <1>5. CASE Disable
    <2>1. /\ ~Here /\ StartedBy' = StartedBy
          /\ \/ enabled' = FALSE /\ choice' = "none"
             \/ UNCHANGED <<enabled, choice>>
      BY <1>5 DEF Disable
    <2> QED BY <1>1, <2>1 DEF Policy!Next, Policy!Forgets, Policy!vars
  <1>6. CASE Stop
    <2>1. UNCHANGED <<enabled, choice>> /\ StartedBy' \in {StartedBy, "down"}
      BY <1>6 DEF Stop
    <2> QED BY <1>1, <2>1 DEF Policy!Next, Policy!Stops, Policy!vars
  <1> QED BY <1>2, <1>3, <1>4, <1>5, <1>6 DEF Script

LEMMA EnvironmentKeepsPolicy == Environment => Policy!Next \/ UNCHANGED Policy!vars
  <1> SUFFICES ASSUME Environment PROVE Policy!Next \/ UNCHANGED Policy!vars
    OBVIOUS
  <1> USE DEF Admin, runVars, Here, StartedBy, Going
  <1>1. Here' = Here
    BY DEF Environment, AdminEnable, AdminDisable, AdminStart, AdminStop, Reboot
  <1>2. CASE AdminEnable \/ AdminDisable
    <2>1. /\ StartedBy' = StartedBy
          /\ \/ enabled' = TRUE /\ choice' = "none"
             \/ enabled' = FALSE /\ choice' \in {"off", "racing"}
      BY <1>2 DEF AdminEnable, AdminDisable
    <2> QED BY <1>1, <2>1 DEF Policy!Next, Policy!Admin
  <1>3. CASE AdminStart \/ AdminStop
    <2>1. UNCHANGED <<enabled, choice>> /\ StartedBy' \in {"admin", "down"}
      BY <1>3 DEF AdminStart, AdminStop
    <2> QED BY <1>1, <2>1 DEF Policy!Next, Policy!Admin
  <1>4. CASE Reboot
    <2>1. /\ UNCHANGED <<enabled, choice>>
          /\ StartedBy' = "down" \/ (StartedBy' = "package" /\ enabled)
      BY <1>4 DEF Reboot
    <2> QED BY <1>1, <2>1 DEF Policy!Next, Policy!Boot
  <1> QED BY <1>2, <1>3, <1>4 DEF Environment

\* The scripts keep to ServicePolicy, for any number of versions.
THEOREM ScriptsKeepPolicy == Spec => KeepsPolicy
  <1>1. Init => Policy!Init
    BY DEF Init, Policy!Init
  <1>2. UNCHANGED vars => UNCHANGED Policy!vars
    BY DEF vars, runVars, Going, Policy!vars
  <1>3. Invariant /\ [Next]_vars => [Policy!Next]_(Policy!vars)
    BY <1>2, RpmKeepsPolicy, ScriptKeepsPolicy, EnvironmentKeepsPolicy DEF Next
  <1> QED BY <1>1, <1>3, InvariantHolds, PTL DEF Spec, KeepsPolicy, Policy!Spec
=============================================================================
