------------------------- MODULE DebLifecycle_proofs -------------------------
(***************************************************************************)
(* Proofs about the life of a Debian package, for any number of units and  *)
(* versions.  First type correctness, and that a disabled unit stays       *)
(* disabled; then what the maintainer scripts do to the units: that they   *)
(* keep ServicePolicy, and what removal and purge leave; last the units of *)
(* an installed package: which masks are gone, what is enabled and what    *)
(* runs when postinst has done its work.                                   *)
(***************************************************************************)
EXTENDS DebLifecycle, TLAPS, SequenceTheorems

Names == {"unmask", "was-enabled", "enable", "reload", "invoke", "mask", "stop", "purge"}
Commands == [do: Names, units: SUBSET UnitSet]

LEMMA CommandType == \A do \in Names, us \in SUBSET UnitSet : Command(do, us) \in Commands
  BY DEF Command, Commands

LEMMA UnitsType == Len(Units) \in Nat /\ \A i \in 1 .. Len(Units) : Units[i] \in UnitSet
  BY UnitsAssumption DEF UnitSet

\* The commands for each unit, by their position.
LEMMA SetUpAt ==
  /\ SetUp \in Seq(Commands) /\ Len(SetUp) = 3 * Len(Units)
  /\ \A n \in 1 .. 3 * Len(Units) :
       /\ (n + 2) \div 3 \in 1 .. Len(Units)
       /\ SetUp[n].do \in {"unmask", "was-enabled", "enable"}
       /\ SetUp[n] = Command(CASE n % 3 = 1 -> "unmask" [] n % 3 = 2 -> "was-enabled"
                               [] n % 3 = 0 -> "enable", {Units[(n + 2) \div 3]})
  <1>1. ASSUME NEW n \in 1 .. 3 * Len(Units)
        PROVE  /\ (n + 2) \div 3 \in 1 .. Len(Units)
               /\ SetUp[n] = Command(CASE n % 3 = 1 -> "unmask" [] n % 3 = 2 -> "was-enabled"
                                       [] n % 3 = 0 -> "enable", {Units[(n + 2) \div 3]})
               /\ SetUp[n].do \in {"unmask", "was-enabled", "enable"}
               /\ SetUp[n] \in Commands
    <2> DEFINE do == CASE n % 3 = 1 -> "unmask" [] n % 3 = 2 -> "was-enabled"
                       [] n % 3 = 0 -> "enable"
               us == {Units[(n + 2) \div 3]}
    <2>1. (n + 2) \div 3 \in 1 .. Len(Units) /\ n % 3 \in 0 .. 2
      BY UnitsType
    <2>2. us \in SUBSET UnitSet
      BY UnitsType, <2>1
    <2>3. do \in {"unmask", "was-enabled", "enable"}
      BY <2>1
    <2>4. SetUp[n] = Command(do, us)
      BY DEF SetUp
    <2>6. SetUp[n] = Command(CASE n % 3 = 1 -> "unmask" [] n % 3 = 2 -> "was-enabled"
                              [] n % 3 = 0 -> "enable", {Units[(n + 2) \div 3]})
      BY DEF SetUp
    <2> HIDE DEF do, us
    <2>5. SetUp[n].do = do /\ SetUp[n] \in Commands
      BY <2>2, <2>3, <2>4 DEF Command, Commands, Names
    <2> QED BY <2>1, <2>3, <2>5, <2>6
  <1>2. SetUp = [n \in 1 .. 3 * Len(Units) |-> SetUp[n]]
    BY DEF SetUp
  <1>3. SetUp \in Seq(Commands)
    <2>1. \A n \in 1 .. 3 * Len(Units) : SetUp[n] \in Commands
      BY <1>1
    <2> QED BY UnitsType, <1>2, <2>1
  <1>4. Len(SetUp) = 3 * Len(Units)
    BY UnitsType, <1>2
  <1> QED BY <1>1, <1>3, <1>4

\* Every call that dpkg makes runs a sequence of commands.
LEMMA BodyType == ASSUME NEW c \in Calls PROVE Body(c) \in Seq(Commands)
  <1>3. SetUp \in Seq(Commands)
    BY SetUpAt
  <1>4. <<Command("reload", {}), Command("invoke", UnitSet)>> \in Seq(Commands)
    <2>1. Command("reload", {}) \in Commands /\ Command("invoke", UnitSet) \in Commands
      BY CommandType DEF Names
    <2> QED BY <2>1
  <1>5. Postinst \in Seq(Commands)
    BY <1>3, <1>4 DEF Postinst
  <1>6. Prerm \in Seq(Commands) /\ Postrm \in Seq(Commands)
    <2>1. /\ Command("reload", {}) \in Commands /\ Command("mask", UnitSet) \in Commands
          /\ Command("stop", UnitSet) \in Commands /\ Command("purge", UnitSet) \in Commands
          /\ Command("unmask", UnitSet) \in Commands
      BY CommandType DEF Names
    <2> QED BY <2>1 DEF Prerm, Postrm
  <1>7. Runs(c) => c.script \in {"postinst", "prerm", "postrm"}
    BY DEF Runs
  <1> QED BY <1>5, <1>6, <1>7 DEF Body

\* A command leaves the script at its next command or at its end.
LEMMA AtType ==
  ASSUME TypeOK, NEW do, NEW us, At(do, us)
  PROVE  /\ host' \in Hosts /\ host' = host
         /\ status' = status /\ disk' = disk /\ configured' = configured /\ call' = call
         /\ step' \in 1 .. Len(Body(call')) + 1
  <1>1. Body(call) \in Seq(Commands)
    BY BodyType DEF TypeOK
  <1> QED BY <1>1 DEF At, TypeOK, dpkgVars

\* d-s-h maps units to values of the same range.
LEMMA HelpedType ==
  ASSUME NEW S, NEW f \in [UnitSet -> S], NEW us, NEW g \in [UnitSet -> S]
  PROVE  Helped(f, us, g) \in [UnitSet -> S]
  BY DEF Helped

\* A call of dpkg starts a script at its first command.
LEMMA StartType ==
  ASSUME NEW c \in Calls, Start(c)
  PROVE  call' \in Calls /\ step' \in 1 .. Len(Body(call')) + 1 /\ was' \in SUBSET UnitSet
  <1>1. Body(c) \in Seq(Commands)
    BY BodyType
  <1> QED BY <1>1 DEF Start

LEMMA CallType ==
  ASSUME NEW two \in Disk
  PROVE  /\ \A one \in {"configure", "abort-upgrade", "abort-remove"} :
              Call("postinst", one, two) \in Calls
         /\ \A script \in {"prerm", "postrm"}, one \in {"upgrade", "remove", "purge"} :
              Call(script, one, two) \in Calls
         /\ NoCall \in Calls
  BY DEF Call, Calls, NoCall

\* The commands of the scripts keep the types.
LEMMA ScriptType == TypeOK /\ Script => TypeOK'
  <1> SUFFICES ASSUME TypeOK, Script PROVE TypeOK'
    OBVIOUS
  <1> USE DEF TypeOK, unitVars, runVars
  <1>1. CASE Reload
    BY <1>1, AtType DEF Reload
  <1>2. CASE Invoke(UnitSet)
    <2>1. /\ Now \in [bin: Disk, def: Disk] /\ Down \in [bin: Disk, def: Disk]
      BY DEF Now, Down, Disk
    <2>2. run' \in [UnitSet -> [bin: Disk, def: Disk]]
      BY <1>2, <2>1 DEF Invoke
    <2>3. why' \in [UnitSet -> {"never", "script", "boot", "failed", "admin", "late"}]
      BY <1>2 DEF Invoke
    <2> QED BY <1>2, <2>2, <2>3, AtType DEF Invoke
  <1>3. CASE Mask(UnitSet)
    <2>1. mask' \in [UnitSet -> {"none", "dsh", "admin"}]
      BY <1>3, HelpedType DEF Mask
    <2> QED BY <1>3, <2>1, AtType DEF Mask
  <1>4. CASE Stop(UnitSet)
    <2>1. Down \in [bin: Disk, def: Disk]
      BY DEF Down, Disk
    <2> QED BY <1>4, <2>1, AtType DEF Stop
  <1>5. CASE Purge(UnitSet)
    <2>1. /\ enabled' \in [UnitSet -> BOOLEAN]
          /\ recorded' \in [UnitSet -> BOOLEAN]
          /\ choice' \in [UnitSet -> {"none", "off", "racing"}]
      BY <1>5, HelpedType DEF Purge
    <2> QED BY <1>5, <2>1, AtType DEF Purge
  <1>6. ASSUME NEW us \in {UnitSet} \cup {{u} : u \in UnitSet}, Unmask(us)
        PROVE  TypeOK'
    <2>1. mask' \in [UnitSet -> {"none", "dsh", "admin"}]
      BY <1>6, HelpedType DEF Unmask
    <2> QED BY <1>6, <2>1, AtType DEF Unmask
  <1>7. ASSUME NEW u \in UnitSet, WasEnabled(u) PROVE TypeOK'
    BY <1>7, AtType DEF WasEnabled
  <1>8. ASSUME NEW u \in UnitSet, Enable(u) PROVE TypeOK'
    <2>1. /\ enabled' \in [UnitSet -> BOOLEAN]
          /\ recorded' \in [UnitSet -> BOOLEAN]
      BY <1>8, HelpedType DEF Enable
    <2> QED BY <1>8, <2>1, AtType DEF Enable
  <1> QED BY <1>1, <1>2, <1>3, <1>4, <1>5, <1>6, <1>7, <1>8 DEF Script

\* So do the actions of dpkg.
LEMMA DpkgType == TypeOK /\ Dpkg => TypeOK'
  <1> SUFFICES ASSUME TypeOK, Dpkg PROVE TypeOK'
    OBVIOUS
  <1> USE DEF TypeOK, unitVars, runVars
  <1> NoVersion \in Disk
    BY DEF Disk
  <1>1. ASSUME NEW v \in Versions, Unpack(v) PROVE TypeOK'
    BY <1>1 DEF Unpack, Disk
  <1>2. ASSUME NEW v \in Versions, Upgrade(v) PROVE TypeOK'
    <2>1. Call("prerm", "upgrade", v) \in Calls
      BY CallType DEF Disk
    <2> QED BY <1>2, <2>1, StartType DEF Upgrade, Begin
  <1>3. CASE Configure
    <2>1. Call("postinst", "configure", configured) \in Calls
      BY CallType
    <2> QED BY <1>3, <2>1, StartType DEF Configure, Begin
  <1>4. CASE RemovePackage
    <2>1. Call("prerm", "remove", NoVersion) \in Calls
      BY CallType
    <2> QED BY <1>4, <2>1, StartType DEF RemovePackage, Begin
  <1>5. CASE PurgePackage
    <2>1. Call("postrm", "purge", NoVersion) \in Calls
      BY CallType
    <2> QED BY <1>5, <2>1, StartType DEF PurgePackage, Begin
  <1>6. call.script # "none" => call.two \in Disk
    BY DEF Calls, NoCall, Call
  <1>7. CASE Unpacked
    <2>1. call.two \in Disk
      BY <1>6, <1>7 DEF Unpacked, Ended
    <2>2. Call("postrm", "upgrade", call.two) \in Calls
      BY <2>1, CallType
    <2> QED BY <1>7, <2>1, <2>2, StartType DEF Unpacked, Ended
  <1>8. CASE UnpackFailed
    <2>1. call.two \in Disk
      BY <1>6, <1>8 DEF UnpackFailed, Ended
    <2>2. Call("postinst", "abort-upgrade", call.two) \in Calls
      BY <2>1, CallType
    <2> QED BY <1>8, <2>1, <2>2, StartType DEF UnpackFailed, Ended
  <1>9. NoCall \in Calls
    BY CallType
  <1>10. CASE OldPurged
    BY <1>9, <1>10, StartType DEF OldPurged, Ended
  <1>11. CASE Installed
    BY <1>9, <1>11, StartType DEF Installed, Ended
  <1>12. CASE Kept
    BY <1>9, <1>12, StartType DEF Kept, Ended
  <1>13. CASE FilesRemoved
    <2>1. Call("postrm", "remove", NoVersion) \in Calls
      BY CallType
    <2> QED BY <1>13, <2>1, StartType DEF FilesRemoved, Ended
  <1>14. CASE Removed
    BY <1>9, <1>14, StartType DEF Removed, Ended
  <1>15. CASE Purged
    BY <1>9, <1>15, StartType DEF Purged, Ended
  <1>16. CASE Killed
    <2>1. Call("postinst", "abort-remove", NoVersion) \in Calls
      BY CallType
    <2> QED BY <1>9, <1>16, <2>1, StartType DEF Killed, CutShort
  <1> QED BY <1>1, <1>2, <1>3, <1>4, <1>5, <1>7, <1>8, <1>10, <1>11, <1>12, <1>13, <1>14,
             <1>15, <1>16 DEF Dpkg

\* And what the administrator and reboots do.
LEMMA EnvironmentType == TypeOK /\ Environment => TypeOK'
  <1> SUFFICES ASSUME TypeOK, Environment PROVE TypeOK'
    OBVIOUS
  <1> USE DEF TypeOK, unitVars, runVars
  <1>1. CASE Reboot
    <2>1. NoCall \in Calls
      BY CallType DEF Disk
    <2>2. call' \in Calls /\ step' \in 1 .. Len(Body(call')) + 1 /\ was' \in SUBSET UnitSet
      BY <1>1, <2>1, StartType DEF Reboot
    <2>3. Down \in [bin: Disk, def: Disk] /\ [bin |-> disk, def |-> disk] \in [bin: Disk, def: Disk]
      BY DEF Down, Disk
    <2>4. run' \in [UnitSet -> [bin: Disk, def: Disk]]
      BY <1>1, <2>3 DEF Reboot
    <2>5. why' \in [UnitSet -> {"never", "script", "boot", "failed", "admin", "late"}]
      BY <1>1 DEF Reboot
    <2> QED BY <1>1, <2>2, <2>4, <2>5 DEF Reboot, CutShort
  <1>2. ASSUME NEW u \in UnitSet,
               AdminEnable(u) \/ AdminDisable(u) \/ AdminMask(u) \/ AdminUnmask(u)
                 \/ AdminStart(u) \/ AdminStop(u)
        PROVE  TypeOK'
    <2>1. /\ host' = host /\ status' = status /\ disk' = disk /\ configured' = configured
          /\ call' = call /\ step' = step /\ was' = was /\ loaded' = loaded
      BY <1>2 DEF AdminEnable, AdminDisable, AdminMask, AdminUnmask, AdminStart, AdminStop,
                  Admin, dpkgVars
    <2>2. Now \in [bin: Disk, def: Disk] /\ Down \in [bin: Disk, def: Disk]
      BY DEF Now, Down, Disk
    <2>3. mask' \in [UnitSet -> {"none", "dsh", "admin"}]
      BY <1>2 DEF AdminEnable, AdminDisable, AdminMask, AdminUnmask, AdminStart, AdminStop
    <2>4. enabled' \in [UnitSet -> BOOLEAN] /\ recorded' \in [UnitSet -> BOOLEAN]
      BY <1>2 DEF AdminEnable, AdminDisable, AdminMask, AdminUnmask, AdminStart, AdminStop
    <2>5. choice' \in [UnitSet -> {"none", "off", "racing"}]
      BY <1>2 DEF AdminEnable, AdminDisable, AdminMask, AdminUnmask, AdminStart, AdminStop
    <2>6. why' \in [UnitSet -> {"never", "script", "boot", "failed", "admin", "late"}]
      BY <1>2 DEF AdminEnable, AdminDisable, AdminMask, AdminUnmask, AdminStart, AdminStop, LeftDown
    <2>7. run' \in [UnitSet -> [bin: Disk, def: Disk]]
      BY <1>2, <2>2 DEF AdminEnable, AdminDisable, AdminMask, AdminUnmask, AdminStart, AdminStop
    <2>8. Body(call') = Body(call)
      BY <2>1
    <2> QED BY <2>1, <2>3, <2>4, <2>5, <2>6, <2>7, <2>8
  <1> QED BY <1>1, <1>2 DEF Environment

\* Type correctness, whatever the units, versions and kinds of host.
THEOREM TypeCorrect == Spec => []TypeOK
  <1>1. Init => TypeOK
    <2> SUFFICES ASSUME Init PROVE TypeOK
      OBVIOUS
    <2>1. NoCall \in Calls
      BY CallType DEF Disk
    <2>2. Body(NoCall) \in Seq(Commands)
      BY <2>1, BodyType
    <2>3. Down \in [bin: Disk, def: Disk]
      BY DEF Down, Disk
    <2> QED BY <2>1, <2>2, <2>3 DEF Init, TypeOK, Disk
  <1>2. TypeOK /\ UNCHANGED vars => TypeOK'
    <2> SUFFICES ASSUME TypeOK, UNCHANGED vars PROVE TypeOK'
      OBVIOUS
    <2>1. Body(call') = Body(call)
      BY DEF vars, dpkgVars
    <2> QED BY <2>1 DEF TypeOK, vars, dpkgVars, unitVars, runVars
  <1>3. TypeOK /\ [Next]_vars => TypeOK'
    BY <1>2, ScriptType, DpkgType, EnvironmentType DEF Next
  <1> QED BY <1>1, <1>3, PTL DEF Spec

-----------------------------------------------------------------------------
(* A disabled unit stays disabled *)

\* What the next enable of a script will do is settled by was: it must not hold a
\* unit that the administrator has disabled.  A unit he disables while was holds it
\* is "racing"; one he has disabled before must be recorded, or was-enabled would
\* default to true; and Enable takes the unit from was.
OffIsRemembered ==
  \A u \in UnitSet : choice[u] = "off" => ~enabled[u] /\ recorded[u] /\ u \notin was

LEMMA OffStep ==
  TypeOK /\ OffIsRemembered /\ [Next]_vars => OffIsRemembered'
  <1> SUFFICES ASSUME TypeOK, OffIsRemembered, [Next]_vars PROVE OffIsRemembered'
    OBVIOUS
  <1> USE DEF OffIsRemembered
  <1>1. CASE UNCHANGED vars
    BY <1>1 DEF vars, dpkgVars, unitVars
  <1>2. CASE Script
    <2>1. CASE Reload \/ Invoke(UnitSet) \/ Mask(UnitSet) \/ Stop(UnitSet)
      BY <2>1 DEF Reload, Invoke, Mask, Stop, unitVars
    <2>2. CASE Purge(UnitSet)
      BY <2>2 DEF Purge, Helped, TypeOK
    <2>3. ASSUME NEW us \in {UnitSet} \cup {{u} : u \in UnitSet}, Unmask(us)
          PROVE  OffIsRemembered'
      BY <2>3 DEF Unmask
    <2>4. ASSUME NEW u \in UnitSet, WasEnabled(u) PROVE OffIsRemembered'
      <3>1. choice[u] = "off" => was' = was
        BY <2>4 DEF WasEnabled
      <3>2. was' \subseteq was \cup {u} /\ unitVars' = unitVars
        BY <2>4 DEF WasEnabled
      <3> QED BY <3>1, <3>2 DEF unitVars
    <2>5. ASSUME NEW u \in UnitSet, Enable(u) PROVE OffIsRemembered'
      BY <2>5 DEF Enable, Helped, TypeOK
    <2> QED BY <1>2, <2>1, <2>2, <2>3, <2>4, <2>5 DEF Script
  <1>3. CASE Dpkg
    <2>1. unitVars' = unitVars /\ (was' = {} \/ was' = was)
      BY <1>3 DEF Dpkg, Unpack, Upgrade, Configure, RemovePackage, PurgePackage, Begin, Unpacked,
                  UnpackFailed, OldPurged, Installed, Kept, FilesRemoved, Removed, Purged, Ended,
                  Killed, Start
    <2> QED BY <2>1 DEF unitVars
  <1>4. CASE Environment
    <2>1. CASE Reboot
      BY <2>1 DEF Reboot, Start, unitVars
    <2>2. ASSUME NEW u \in UnitSet, AdminDisable(u) PROVE OffIsRemembered'
      BY <2>2 DEF AdminDisable, Admin, TypeOK, dpkgVars
    <2>3. ASSUME NEW u \in UnitSet, AdminEnable(u) PROVE OffIsRemembered'
      BY <2>3 DEF AdminEnable, Admin, TypeOK, dpkgVars
    <2>4. ASSUME NEW u \in UnitSet,
                 AdminMask(u) \/ AdminUnmask(u) \/ AdminStart(u) \/ AdminStop(u)
          PROVE  OffIsRemembered'
      BY <2>4 DEF AdminMask, AdminUnmask, AdminStart, AdminStop, Admin, unitVars, dpkgVars
    <2> QED BY <1>4, <2>1, <2>2, <2>3, <2>4 DEF Environment
  <1> QED BY <1>1, <1>2, <1>3, <1>4 DEF Next

LEMMA OffRemembered == Spec => []OffIsRemembered
  <1>1. Init => OffIsRemembered
    BY DEF Init, OffIsRemembered
  <1> QED BY <1>1, OffStep, TypeCorrect, PTL DEF Spec

\* What the administrator disabled no script enables again before a purge, unless he
\* did so between was-enabled and enable of the unit.
THEOREM DisableIsKept == Spec => []DisableSurvives
  <1>1. OffIsRemembered => DisableSurvives
    BY DEF OffIsRemembered, DisableSurvives
  <1> QED BY <1>1, OffRemembered, PTL

-----------------------------------------------------------------------------
(* What the scripts and dpkg leave alone *)

\* A script changes nothing that is dpkg's, and each command keeps to its own.
LEMMA ScriptFrame == Script => UNCHANGED <<host, dpkgVars>>
  BY DEF Script, Reload, Invoke, Mask, Stop, Purge, Unmask, WasEnabled, Enable, At

LEMMA AdminFrame ==
  ASSUME NEW u, AdminEnable(u) \/ AdminDisable(u) \/ AdminMask(u) \/ AdminUnmask(u)
                  \/ AdminStart(u) \/ AdminStop(u)
  PROVE  /\ u \in UnitSet /\ disk # NoVersion /\ recorded[u] /\ recorded' = recorded
         /\ UNCHANGED <<host, status, disk, configured, call, step, was>>
  BY DEF AdminEnable, AdminDisable, AdminMask, AdminUnmask, AdminStart, AdminStop, Admin, dpkgVars,
         unitVars

\* dpkg touches no unit.
LEMMA DpkgFrame == Dpkg => UNCHANGED <<host, unitVars, run, why, loaded>>
  BY DEF Dpkg, Unpack, Upgrade, Configure, RemovePackage, PurgePackage, Begin, Unpacked,
         UnpackFailed, OldPurged, Installed, Kept, FilesRemoved, Removed, Purged, Ended,
         Killed, runVars

-----------------------------------------------------------------------------
(* Whether the files are there *)

\* The files are there as the status says, and while a script that sets up the
\* units or stops them is at work; they are gone before a purge.
Present ==
  /\ status \in {"unpacked", "half-configured", "installed"} <=> disk # NoVersion
  /\ call.script \in {"prerm", "postinst"} => disk # NoVersion
  /\ call.script = "prerm" /\ call.one = "upgrade" => call.two \in Versions
  /\ call.script = "postrm" /\ call.one = "purge" => disk = NoVersion

LEMMA PresentStep == TypeOK /\ Present /\ [Next]_vars => Present'
  <1> SUFFICES ASSUME TypeOK, Present, [Next]_vars PROVE Present'
    OBVIOUS
  <1> USE NoVersionAssumption DEF Present
  <1>1. CASE UNCHANGED vars
    BY <1>1 DEF vars, dpkgVars
  <1>2. CASE Script
    BY <1>2, ScriptFrame DEF dpkgVars
  <1>3. CASE Dpkg
    <2> USE DEF Start, Begin, Ended, Call, NoCall
    <2>1. ASSUME NEW v \in Versions, Unpack(v) PROVE Present'
      BY <2>1 DEF Unpack, Idle
    <2>2. ASSUME NEW v \in Versions, Upgrade(v) PROVE Present'
      BY <2>2 DEF Upgrade
    <2>3. CASE Configure
      BY <2>3 DEF Configure
    <2>4. CASE RemovePackage
      BY <2>4 DEF RemovePackage
    <2>5. CASE PurgePackage
      BY <2>5 DEF PurgePackage
    <2>6. CASE Unpacked
      BY <2>6 DEF Unpacked
    <2>7. CASE UnpackFailed
      BY <2>7 DEF UnpackFailed
    <2>8. CASE OldPurged \/ Kept \/ Removed
      BY <2>8 DEF OldPurged, Kept, Removed
    <2>9. CASE Installed
      BY <2>9 DEF Installed
    <2>10. CASE FilesRemoved
      BY <2>10 DEF FilesRemoved
    <2>11. CASE Purged
      BY <2>11 DEF Purged
    <2>12. CASE Killed
      BY <2>12 DEF Killed, CutShort
    <2> QED BY <1>3, <2>1, <2>2, <2>3, <2>4, <2>5, <2>6, <2>7, <2>8, <2>9, <2>10, <2>11, <2>12
            DEF Dpkg
  <1>4. CASE Reboot
    BY <1>4 DEF Reboot, Start, CutShort, NoCall, Call
  <1>5. ASSUME NEW u \in UnitSet,
               AdminEnable(u) \/ AdminDisable(u) \/ AdminMask(u) \/ AdminUnmask(u)
                 \/ AdminStart(u) \/ AdminStop(u)
        PROVE  Present'
    BY <1>5, AdminFrame
  <1> QED BY <1>1, <1>2, <1>3, <1>4, <1>5 DEF Next, Environment

LEMMA FilesPresent == Spec => []Present
  <1>1. Init => Present
    BY DEF Init, Present, NoCall, Call
  <1> QED BY <1>1, PresentStep, TypeCorrect, PTL DEF Spec

-----------------------------------------------------------------------------
(* What the scripts do, they may *)

LEMMA PostinstAt ==
  /\ DOMAIN Postinst = 1 .. 3 * Len(Units) + 2 /\ Len(Postinst) = 3 * Len(Units) + 2
  /\ \A n \in 1 .. 3 * Len(Units) : Postinst[n] = SetUp[n]
  /\ Postinst[3 * Len(Units) + 1] = Command("reload", {})
  /\ Postinst[3 * Len(Units) + 2] = Command("invoke", UnitSet)
  <1> DEFINE tail == <<Command("reload", {}), Command("invoke", UnitSet)>>
  <1>1. SetUp \in Seq(Commands) /\ Len(SetUp) = 3 * Len(Units)
    BY SetUpAt
  <1>2. /\ tail \in Seq(Commands) /\ Len(tail) = 2
        /\ tail[1] = Command("reload", {}) /\ tail[2] = Command("invoke", UnitSet)
    <2>1. Command("reload", {}) \in Commands /\ Command("invoke", UnitSet) \in Commands
      BY CommandType DEF Names
    <2>2. tail \in Seq(Commands)
      BY <2>1
    <2>3. Len(tail) = 2
      OBVIOUS
    <2>4. tail[1] = Command("reload", {}) /\ tail[2] = Command("invoke", UnitSet)
      OBVIOUS
    <2> QED BY <2>2, <2>3, <2>4
  <1>3. Postinst = SetUp \o tail
    BY DEF Postinst
  <1> HIDE DEF tail
  <1>4. DOMAIN Postinst = 1 .. 3 * Len(Units) + 2 /\ Len(Postinst) = 3 * Len(Units) + 2
    <2>1. Postinst \in Seq(Commands) /\ Len(Postinst) = Len(SetUp) + Len(tail)
      BY <1>1, <1>2, <1>3, ConcatProperties
    <2>2. DOMAIN Postinst = 1 .. Len(Postinst)
      BY <2>1
    <2> QED BY <1>1, <1>2, <2>1, <2>2
  <1>5. \A n \in 1 .. Len(SetUp) + Len(tail) :
          Postinst[n] = IF n <= Len(SetUp) THEN SetUp[n] ELSE tail[n - Len(SetUp)]
    BY <1>1, <1>2, <1>3, ConcatProperties
  <1>6. /\ \A n \in 1 .. 3 * Len(Units) : Postinst[n] = SetUp[n]
        /\ Postinst[3 * Len(Units) + 1] = tail[1] /\ Postinst[3 * Len(Units) + 2] = tail[2]
    BY <1>1, <1>2, <1>5, UnitsType
  <1> QED BY <1>2, <1>4, <1>6

LEMMA WhichScript ==
  ASSUME NEW do, NEW us, At(do, us)
  PROVE  /\ do \in {"was-enabled", "enable", "invoke"} => call.script = "postinst"
         /\ do \in {"mask", "stop"} => call.script = "prerm" /\ call.one = "remove"
         /\ do = "purge" => call.script = "postrm" /\ call.one = "purge"
  <1>1. step \in DOMAIN Body(call) /\ Body(call)[step].do = do
    BY DEF At, Command
  <1>2. CASE ~Runs(call)
    BY <1>1, <1>2 DEF Body
  <1>3. CASE Runs(call) /\ call.script = "prerm"
    BY <1>1, <1>3 DEF Body, Runs, Prerm, Command
  <1>4. CASE Runs(call) /\ call.script = "postrm"
    BY <1>1, <1>4 DEF Body, Runs, Postrm, Command
  <1>5. CASE call.script = "postinst"
    <2>1. Body(call) \in {<<>>, Postinst}
      BY <1>5 DEF Body
    <2>2. ASSUME NEW n \in DOMAIN Postinst PROVE Postinst[n].do \notin {"mask", "stop", "purge"}
      <3>1. n \in 1 .. 3 * Len(Units) \/ n = 3 * Len(Units) + 1 \/ n = 3 * Len(Units) + 2
        BY PostinstAt, UnitsType
      <3>2. n \in 1 .. 3 * Len(Units) => Postinst[n].do \in {"unmask", "was-enabled", "enable"}
        BY PostinstAt, SetUpAt
      <3> QED BY <3>1, <3>2, PostinstAt DEF Command
    <2> QED BY <1>1, <1>5, <2>1, <2>2
  <1> QED BY <1>2, <1>3, <1>4, <1>5 DEF Runs

\* A unit that is started is up.
LEMMA UpIsUp == disk # NoVersion => Now # Down /\ [bin |-> disk, def |-> disk] # Down
  BY DEF Now, Down

LEMMA ScriptKeepsPolicy ==
  ASSUME TypeOK, Present, OffIsRemembered, Script, NEW u \in UnitSet
  PROVE  Policy(u)!Next \/ UNCHANGED Policy(u)!vars
  <1>1. disk' = disk /\ (call.script = "postinst" => disk # NoVersion)
    BY ScriptFrame DEF dpkgVars, Present
  <1>2. CASE Reload \/ Mask(UnitSet)
    BY <1>1, <1>2 DEF Reload, Mask, unitVars, runVars, StartedBy, Policy!vars
  <1>3. CASE Invoke(UnitSet)
    <2>1. disk # NoVersion /\ enabled' = enabled /\ choice' = choice
      BY <1>1, <1>3, WhichScript DEF Invoke, unitVars
    <2>2. \/ run'[u] = Down
          \/ run'[u] = run[u] /\ why'[u] = why[u]
          \/ run'[u] = Now /\ why'[u] = "script" /\ (enabled[u] \/ run[u] # Down)
      BY <1>3 DEF Invoke
    <2>3. \/ StartedBy(u)' = "down"
          \/ StartedBy(u)' = StartedBy(u)
          \/ StartedBy(u)' = "package" /\ (enabled[u] \/ StartedBy(u) # "down")
      BY <2>1, <2>2, UpIsUp DEF StartedBy
    <2> QED BY <1>1, <2>1, <2>3 DEF Policy!Next, Policy!Stops, Policy!Starts, Policy!vars
  <1>4. CASE Stop(UnitSet)
    <2>1. run'[u] = Down \/ (run'[u] = run[u] /\ why'[u] = why[u])
      BY <1>4 DEF Stop
    <2>2. StartedBy(u)' = "down" \/ StartedBy(u)' = StartedBy(u)
      BY <2>1 DEF StartedBy
    <2> QED BY <1>1, <1>4, <2>2 DEF Stop, unitVars, Policy!Next, Policy!Stops, Policy!vars
  <1>5. CASE Purge(UnitSet)
    <2>1. disk = NoVersion
      BY <1>5, WhichScript DEF Purge, Present
    <2>2. \/ choice'[u] = "none" /\ enabled'[u] \in {FALSE, enabled[u]}
          \/ choice'[u] = choice[u] /\ enabled'[u] = enabled[u]
      BY <1>5 DEF Purge, Helped, TypeOK
    <2>3. StartedBy(u)' = StartedBy(u)
      BY <1>5 DEF Purge, runVars, StartedBy
    <2> QED BY <1>1, <2>1, <2>2, <2>3 DEF Policy!Next, Policy!Forgets, Policy!vars
  <1>6. ASSUME NEW us \in {UnitSet} \cup {{v} : v \in UnitSet}, Unmask(us)
        PROVE  UNCHANGED Policy(u)!vars
    BY <1>1, <1>6 DEF Unmask, runVars, StartedBy, Policy!vars
  <1>7. ASSUME NEW v \in UnitSet, WasEnabled(v) PROVE UNCHANGED Policy(u)!vars
    BY <1>1, <1>7 DEF WasEnabled, unitVars, runVars, StartedBy, Policy!vars
  <1>8. ASSUME NEW v \in UnitSet, Enable(v)
        PROVE  Policy(u)!Next \/ UNCHANGED Policy(u)!vars
    <2>1. disk # NoVersion
      BY <1>1, <1>8, WhichScript DEF Enable
    <2>2. enabled'[u] \in BOOLEAN /\ (enabled'[u] # enabled[u] => choice[u] # "off")
      BY <1>8 DEF Enable, Helped, TypeOK, OffIsRemembered
    <2>3. choice' = choice /\ StartedBy(u)' = StartedBy(u)
      BY <1>8 DEF Enable, runVars, StartedBy
    <2> QED BY <1>1, <2>1, <2>2, <2>3 DEF Policy!Next, Policy!SetsUp, Policy!vars
  <1> QED BY <1>2, <1>3, <1>4, <1>5, <1>6, <1>7, <1>8 DEF Script

LEMMA EnvironmentKeepsPolicy ==
  ASSUME TypeOK, Present, Environment, NEW u \in UnitSet
  PROVE  Policy(u)!Next \/ UNCHANGED Policy(u)!vars
  <1>1. CASE Reboot
    <2>1. disk' = disk /\ enabled' = enabled /\ choice' = choice
      BY <1>1 DEF Reboot, unitVars
    <2>2. \/ run'[u] = Down
          \/ run'[u] = [bin |-> disk, def |-> disk] /\ disk # NoVersion /\ why'[u] = "boot" /\ enabled[u]
      BY <1>1 DEF Reboot
    <2>3. StartedBy(u)' = "down" \/ (StartedBy(u)' = "package" /\ enabled[u])
      BY <2>2, UpIsUp DEF StartedBy
    <2> QED BY <2>1, <2>3 DEF Policy!Next, Policy!Boot
  <1>2. ASSUME NEW v \in UnitSet,
               AdminEnable(v) \/ AdminDisable(v) \/ AdminMask(v) \/ AdminUnmask(v)
                 \/ AdminStart(v) \/ AdminStop(v)
        PROVE  Policy(u)!Next \/ UNCHANGED Policy(u)!vars
    <2>1. disk' = disk /\ disk # NoVersion
      BY <1>2, AdminFrame
    <2> USE DEF Policy!Next, Policy!Admin, Policy!vars, TypeOK
    <2>2. CASE AdminEnable(v)
      <3>1. StartedBy(u)' = StartedBy(u)
        BY <2>2 DEF AdminEnable, LeftDown, StartedBy
      <3>2. \/ enabled'[u] = TRUE /\ choice'[u] = "none"
            \/ enabled'[u] = enabled[u] /\ choice'[u] = choice[u]
        BY <2>2 DEF AdminEnable
      <3> QED BY <2>1, <3>1, <3>2
    <2>3. CASE AdminDisable(v)
      <3>1. StartedBy(u)' = StartedBy(u)
        BY <2>3 DEF AdminDisable, StartedBy
      <3>2. \/ enabled'[u] = FALSE /\ choice'[u] \in {"off", "racing"}
            \/ enabled'[u] = enabled[u] /\ choice'[u] = choice[u]
        BY <2>3 DEF AdminDisable
      <3> QED BY <2>1, <3>1, <3>2
    <2>4. CASE AdminMask(v) \/ AdminUnmask(v)
      <3>1. StartedBy(u)' = StartedBy(u)
        BY <2>4 DEF AdminMask, AdminUnmask, LeftDown, StartedBy
      <3> QED BY <2>1, <2>4, <3>1 DEF AdminMask, AdminUnmask
    <2>5. CASE AdminStart(v) \/ AdminStop(v)
      <3>1. StartedBy(u)' \in {StartedBy(u), "admin", "down"}
        BY <2>1, <2>5, UpIsUp DEF AdminStart, AdminStop, StartedBy
      <3> QED BY <2>1, <2>5, <3>1 DEF AdminStart, AdminStop, unitVars
    <2> QED BY <1>2, <2>2, <2>3, <2>4, <2>5
  <1> QED BY <1>1, <1>2 DEF Environment

\* Whatever units and versions there are, and whatever dpkg, the administrator and
\* reboots do between its commands: to each unit the package does only what
\* ServicePolicy allows.
THEOREM ScriptsKeepPolicy == Spec => KeepsPolicy
  <1>1. Init => \A u \in UnitSet : Policy(u)!Init
    BY DEF Init, Policy!Init, StartedBy
  <1>2. TypeOK /\ Present /\ OffIsRemembered /\ [Next]_vars
          => [\A u \in UnitSet : Policy(u)!Next \/ UNCHANGED Policy(u)!vars]_vars
    <2> SUFFICES ASSUME TypeOK, Present, OffIsRemembered, [Next]_vars, ~UNCHANGED vars, NEW u \in UnitSet
                 PROVE  Policy(u)!Next \/ UNCHANGED Policy(u)!vars
      OBVIOUS
    <2>1. CASE Script
      BY <2>1, ScriptKeepsPolicy
    <2>2. CASE Dpkg
      <3>1. enabled' = enabled /\ choice' = choice /\ StartedBy(u)' = StartedBy(u)
        BY <2>2, DpkgFrame DEF unitVars, StartedBy
      <3> QED BY <3>1 DEF Policy!Next, Policy!ComesOrGoes, Policy!vars
    <2>3. CASE Environment
      BY <2>3, EnvironmentKeepsPolicy
    <2> QED BY <2>1, <2>2, <2>3 DEF Next
  <1> QED BY <1>1, <1>2, TypeCorrect, FilesPresent, OffRemembered, PTL DEF Spec, KeepsPolicy

-----------------------------------------------------------------------------
(* What removal and purge leave *)

\* prerm has masked the units before it stops them, and has stopped them when it
\* ends: what an administrator starts in between is "late", and afterwards there is
\* nothing to start.
IsRemoval(c) == c.script = "prerm" /\ c.one = "remove"

StoppedWhenRemoved ==
  /\ ~host.systemd => \A u \in UnitSet : run[u] = Down
  /\ host.helper /\ (disk = NoVersion \/ (IsRemoval(call) /\ step > 3))
       => \A u \in UnitSet : run[u] = Down \/ why[u] = "late"
  /\ host.helper /\ IsRemoval(call) /\ step > 2 => \A u \in UnitSet : mask[u] # "none"

LEMMA RemovalCommands ==
  /\ \A do, us : At(do, us) /\ IsRemoval(call) =>
       /\ step' = step + 1 /\ step \in 1 .. 3
       /\ do = "mask" <=> step = 2
       /\ do = "stop" <=> step = 3
  /\ IsRemoval(call) => Len(Body(call)) = 3
  <1>1. IsRemoval(call) => Body(call) = Prerm
    BY DEF IsRemoval, Body, Runs
  <1>2. /\ Len(Prerm) = 3 /\ DOMAIN Prerm = 1 .. 3
        /\ Prerm[1].do = "reload" /\ Prerm[2].do = "mask" /\ Prerm[3].do = "stop"
    BY DEF Prerm, Command
  <1> QED BY <1>1, <1>2 DEF At, Command

LEMMA StoppedStep ==
  TypeOK /\ Present /\ StoppedWhenRemoved /\ [Next]_vars => StoppedWhenRemoved'
  <1> SUFFICES ASSUME TypeOK, Present, StoppedWhenRemoved, [Next]_vars PROVE StoppedWhenRemoved'
    OBVIOUS
  <1> USE DEF StoppedWhenRemoved
  <1>0. step \in Int
    BY DEF TypeOK
  <1>1. CASE UNCHANGED vars
    BY <1>1 DEF vars, dpkgVars, unitVars, runVars, IsRemoval
  <1>2. CASE Script
    <2>1. host' = host /\ disk' = disk /\ call' = call
      BY <1>2, ScriptFrame DEF dpkgVars
    \* Commands other than mask and stop.
    <2>2. ASSUME NEW do, NEW us, At(do, us), do \notin {"mask", "stop"}, IsRemoval(call)
          PROVE  step = 1 /\ step' = 2
      BY <2>2, RemovalCommands
    <2>3. CASE Reload
      BY <1>0, <2>1, <2>2, <2>3 DEF Reload, runVars, unitVars
    <2>4. CASE Mask(UnitSet)
      <3>1. host.helper => \A u \in UnitSet : mask'[u] # "none"
        BY <2>4 DEF Mask, Helped
      <3>2. IsRemoval(call) => step' = 3
        BY <2>4, RemovalCommands DEF Mask
      <3> QED BY <2>1, <2>4, <3>1, <3>2 DEF Mask, runVars
    <2>5. CASE Stop(UnitSet)
      <3>1. \A u \in UnitSet : \/ run'[u] = Down
                               \/ run'[u] = run[u] /\ why'[u] = why[u]
        BY <2>5 DEF Stop
      <3>2. host.helper /\ host.systemd => \A u \in UnitSet : run'[u] = Down
        BY <2>5 DEF Stop
      <3>3. mask' = mask /\ (IsRemoval(call) => step > 2)
        BY <2>5, RemovalCommands DEF Stop, unitVars
      <3> QED BY <2>1, <3>1, <3>2, <3>3
    <2>6. CASE Invoke(UnitSet)
      <3>1. disk # NoVersion /\ ~IsRemoval(call)
        BY <2>6, WhichScript DEF Invoke, Present, IsRemoval
      <3>2. ~host.systemd => run' = run
        BY <2>6 DEF Invoke, TypeOK
      <3> QED BY <2>1, <3>1, <3>2
    <2>7. CASE Purge(UnitSet)
      BY <1>0, <2>1, <2>2, <2>7 DEF Purge, runVars
    <2>8. ASSUME NEW us \in {UnitSet} \cup {{v} : v \in UnitSet}, Unmask(us)
          PROVE  StoppedWhenRemoved'
      BY <1>0, <2>1, <2>2, <2>8 DEF Unmask, runVars
    <2>9. ASSUME NEW v \in UnitSet, WasEnabled(v) \/ Enable(v) PROVE StoppedWhenRemoved'
      BY <1>0, <2>1, <2>2, <2>9 DEF WasEnabled, Enable, runVars, unitVars
    <2> QED BY <1>2, <2>3, <2>4, <2>5, <2>6, <2>7, <2>8, <2>9 DEF Script
  <1>3. CASE Dpkg
    <2>1. UNCHANGED <<host, run, why, mask>>
      BY <1>3, DpkgFrame DEF unitVars
    <2>2. ASSUME NEW v \in Versions, Unpack(v) PROVE StoppedWhenRemoved'
      BY <2>1, <2>2, NoVersionAssumption DEF Unpack, Idle, NoCall, Call, IsRemoval
    <2>3. CASE UNCHANGED disk /\ step' = 1
      BY <2>1, <2>3
    <2>4. CASE FilesRemoved
      <3>1. IsRemoval(call) /\ step = Len(Body(call)) + 1
        BY <2>4 DEF FilesRemoved, Ended, IsRemoval
      <3>2. step > 3 /\ step' = 1
        BY <2>4, <3>1, RemovalCommands DEF FilesRemoved, Start
      <3> QED BY <2>1, <3>1, <3>2
    <2>5. CASE Unpacked
      <3>1. disk' # NoVersion /\ step' = 1
        BY <2>5, NoVersionAssumption DEF Unpacked, Ended, Start, Present
      <3> QED BY <2>1, <3>1
    <2> QED BY <1>3, <2>2, <2>3, <2>4, <2>5
            DEF Dpkg, Upgrade, Configure, RemovePackage, PurgePackage, Begin, UnpackFailed,
                OldPurged, Installed, Kept, Removed, Purged, Killed, Start
  <1>4. CASE Reboot
    BY <1>4 DEF Reboot, Start
  <1>5. ASSUME NEW v \in UnitSet,
               AdminEnable(v) \/ AdminDisable(v) \/ AdminMask(v) \/ AdminUnmask(v)
                 \/ AdminStart(v) \/ AdminStop(v)
        PROVE  StoppedWhenRemoved'
    <2>1. UNCHANGED <<host, disk, call, step>> /\ disk # NoVersion
      BY <1>5, AdminFrame
    <2>2. ~host.systemd => \A u \in UnitSet : run'[u] = Down
      BY <1>5 DEF AdminEnable, AdminDisable, AdminMask, AdminUnmask, AdminStart, AdminStop, TypeOK
    <2>3. \A u \in UnitSet : \/ run'[u] = Down
                             \/ run'[u] = run[u] /\ why'[u] = why[u]
                             \/ why'[u] = "late"
                             \/ mask[u] = "none"
      <3> TAKE u \in UnitSet
      <3> DOMAIN run = UnitSet /\ DOMAIN why = UnitSet
        BY DEF TypeOK
      <3>1. CASE AdminEnable(v) \/ AdminUnmask(v)
        BY <3>1 DEF AdminEnable, AdminUnmask, LeftDown
      <3>2. CASE AdminDisable(v) \/ AdminMask(v)
        BY <3>2 DEF AdminDisable, AdminMask
      <3>3. CASE AdminStart(v)
        BY <3>3 DEF AdminStart, TypeOK
      <3>4. CASE AdminStop(v)
        <4>1. run' = [run EXCEPT ![v] = Down] /\ why' = [why EXCEPT ![v] = "admin"]
          BY <3>4 DEF AdminStop
        <4>2. CASE u = v
          BY <4>1, <4>2, <3>4 DEF TypeOK
        <4>3. CASE u # v
          BY <4>1, <4>3, <3>4 DEF TypeOK
        <4> QED BY <4>2, <4>3
      <3> QED BY <1>5, <3>1, <3>2, <3>3, <3>4
    <2>4. \A u \in UnitSet : IsRemoval(call) /\ mask[u] # "none" => mask'[u] # "none"
      <3>1. IsRemoval(call) => ~Idle
        BY DEF IsRemoval, Idle, NoCall, Call
      <3> QED BY <1>5, <3>1 DEF AdminEnable, AdminDisable, AdminMask, AdminUnmask, AdminStart,
                                AdminStop, unitVars
    <2>5. IsRemoval(call) /\ step > 3 => step > 2
      BY <1>0
    <2> QED BY <2>1, <2>2, <2>3, <2>4, <2>5
  <1> QED BY <1>1, <1>2, <1>3, <1>4, <1>5 DEF Next, Environment

\* Once the files are gone nothing runs from them, for any number of units, unless it
\* was started after prerm had masked it.
THEOREM NothingRunsRemoved == Spec => []RemovedNotRunning
  <1>1. Init => StoppedWhenRemoved
    BY DEF Init, StoppedWhenRemoved
  <1>2. StoppedWhenRemoved => RemovedNotRunning
    BY DEF StoppedWhenRemoved, RemovedNotRunning
  <1> QED BY <1>1, <1>2, StoppedStep, TypeCorrect, FilesPresent, PTL DEF Spec

\* A unit of which nothing is left.
Blank(u) == ~enabled[u] /\ ~recorded[u] /\ mask[u] # "dsh"

IsPurge(c) == c.script = "postrm" /\ c.one = "purge"

\* Links are recorded before a purge has to find them, and postrm is done with
\* the records when it comes to the masks.
NothingLeft ==
  /\ ~host.helper \/ status = "not-installed" => \A u \in UnitSet : Blank(u)
  /\ status = "not-installed" => Idle
  /\ \A u \in UnitSet : enabled[u] => recorded[u]
  /\ IsPurge(call) /\ step > 1 => \A u \in UnitSet : ~recorded[u]
  /\ IsPurge(call) /\ step > 2 => \A u \in UnitSet : mask[u] # "dsh"

LEMMA PurgeCommands ==
  /\ \A do, us : At(do, us) /\ IsPurge(call) => /\ us = UnitSet
                                                /\ \/ do = "purge" /\ step' = 2
                                                   \/ do = "unmask" /\ step' = 3 /\ step > 1
  /\ IsPurge(call) => Len(Body(call)) = 2
  /\ \A do, us : At(do, us) => ~Idle
  <1>1. IsPurge(call) => Body(call) = Postrm
    BY DEF IsPurge, Body, Runs
  <1>2. Len(Postrm) = 2 /\ DOMAIN Postrm = 1 .. 2
        /\ Postrm[1] = Command("purge", UnitSet) /\ Postrm[2] = Command("unmask", UnitSet)
    BY DEF Postrm
  <1>3. Idle => Body(call) = <<>>
    BY DEF Idle, NoCall, Call, Body, Runs
  <1> QED BY <1>1, <1>2, <1>3 DEF At, Command

LEMMA LeftStep == TypeOK /\ Present /\ NothingLeft /\ [Next]_vars => NothingLeft'
  <1> SUFFICES ASSUME TypeOK, Present, NothingLeft, [Next]_vars PROVE NothingLeft'
    OBVIOUS
  <1> USE DEF NothingLeft, Blank
  <1>1. CASE UNCHANGED vars
    BY <1>1 DEF vars, dpkgVars, unitVars, Idle
  <1>2. CASE Script
    <2>1. host' = host /\ status' = status /\ call' = call
      BY <1>2, ScriptFrame DEF dpkgVars
    <2>2. CASE Reload \/ Invoke(UnitSet)
      BY <2>1, <2>2, PurgeCommands DEF Reload, Invoke, unitVars, Idle
    <2>3. CASE Mask(UnitSet) \/ Stop(UnitSet)
      BY <2>1, <2>3, PurgeCommands DEF Mask, Stop, Helped, unitVars, Idle, TypeOK
    <2>4. CASE Purge(UnitSet)
      <3>1. \A u \in UnitSet : ~recorded'[u] /\ ~enabled'[u] /\ mask'[u] = mask[u]
        BY <2>4 DEF Purge, Helped, TypeOK
      <3>2. ~Idle /\ ~(step' > 2)
        <4>1. At("purge", UnitSet) /\ IsPurge(call)
          BY <2>4, WhichScript DEF Purge, IsPurge
        <4>2. ~Idle /\ step' = 2
          BY <4>1, PurgeCommands
        <4> QED BY <4>2
      <3> QED BY <2>1, <3>1, <3>2 DEF Idle
    <2>5. ASSUME NEW us \in {UnitSet} \cup {{v} : v \in UnitSet}, Unmask(us)
          PROVE  NothingLeft'
      <3>1. \A u \in UnitSet : mask'[u] # mask[u] => mask'[u] # "dsh"
        BY <2>5 DEF Unmask, Helped, TypeOK
      <3>2. host.helper /\ us = UnitSet => \A u \in UnitSet : mask'[u] # "dsh"
        BY <2>5 DEF Unmask, Helped, TypeOK
      <3>3. enabled' = enabled /\ recorded' = recorded
        BY <2>5 DEF Unmask
      <3>4. ~Idle /\ (IsPurge(call) => step > 1 /\ us = UnitSet)
        BY <2>5, PurgeCommands DEF Unmask
      <3> QED BY <2>1, <3>1, <3>2, <3>3, <3>4 DEF Idle
    <2>6. ASSUME NEW v \in UnitSet, WasEnabled(v) PROVE NothingLeft'
      BY <2>1, <2>6, PurgeCommands DEF WasEnabled, unitVars, Idle
    <2>7. ASSUME NEW v \in UnitSet, Enable(v) PROVE NothingLeft'
      <3>1. ~Idle /\ ~IsPurge(call)
        BY <2>7, PurgeCommands, WhichScript DEF Enable, IsPurge
      <3>2. mask' = mask /\ (~host.helper => enabled' = enabled /\ recorded' = recorded)
        BY <2>7 DEF Enable, Helped, TypeOK
      <3>3. \A u \in UnitSet : enabled'[u] => recorded'[u]
        BY <2>7 DEF Enable, Helped, TypeOK
      <3> QED BY <2>1, <3>1, <3>2, <3>3 DEF Idle
    <2> QED BY <1>2, <2>2, <2>3, <2>4, <2>5, <2>6, <2>7 DEF Script
  <1>3. CASE Dpkg
    <2>1. UNCHANGED <<host, unitVars>>
      BY <1>3, DpkgFrame
    <2>2. CASE Purged
      <3>1. IsPurge(call) /\ step = Len(Body(call)) + 1
        BY <2>2 DEF Purged, Ended, IsPurge
      <3>2. step > 2
        BY <3>1, PurgeCommands
      <3>3. \A u \in UnitSet : Blank(u)
        BY <3>1, <3>2
      <3>4. Idle' /\ ~IsPurge(call') /\ status' = "not-installed"
        BY <2>2 DEF Purged, Start, Idle, IsPurge, NoCall, Call
      <3> QED BY <2>1, <3>3, <3>4 DEF unitVars
    <2>3. CASE \E v \in Versions : Unpack(v)
      BY <2>1, <2>3 DEF Unpack, unitVars, Idle
    <2>4. CASE step' = 1 /\ status' # "not-installed"
      BY <2>1, <2>4 DEF unitVars
    <2>5. CASE step' = 1 /\ status' = status /\ call' = NoCall
      BY <2>1, <2>5 DEF unitVars, Idle
    <2>6. Dpkg => \/ Purged
                  \/ \E v \in Versions : Unpack(v)
                  \/ step' = 1 /\ status' # "not-installed"
                  \/ step' = 1 /\ status' = status /\ call' = NoCall
      <3>1. ASSUME NEW v \in Versions, Upgrade(v)
            PROVE  step' = 1 /\ status' # "not-installed"
        BY <3>1 DEF Upgrade, Begin, Start
      <3>2. CASE Configure \/ RemovePackage \/ PurgePackage
        BY <3>2 DEF Configure, RemovePackage, PurgePackage, Begin, Start
      <3>3. CASE Unpacked \/ Installed \/ FilesRemoved
        BY <3>3 DEF Unpacked, Installed, FilesRemoved, Start
      <3>4. CASE OldPurged \/ Kept \/ Removed
        BY <3>4 DEF OldPurged, Kept, Removed, Start
      <3>5. CASE UnpackFailed
        BY <3>5 DEF UnpackFailed, Start, Ended, Idle, NoCall, Call
      <3>6. CASE Killed
        <4>1. ~Idle
          BY <3>6 DEF Killed, Idle, NoCall, Call, Body, Runs
        <4> QED BY <3>6, <4>1 DEF Killed, Start, CutShort
      <3> QED BY <3>1, <3>2, <3>3, <3>4, <3>5, <3>6 DEF Dpkg
    <2> QED BY <1>3, <2>2, <2>3, <2>4, <2>5, <2>6
  <1>4. CASE Reboot
    BY <1>4 DEF Reboot, Start, CutShort, unitVars, Idle, IsPurge, NoCall, Call
  <1>5. ASSUME NEW v \in UnitSet,
               AdminEnable(v) \/ AdminDisable(v) \/ AdminMask(v) \/ AdminUnmask(v)
                 \/ AdminStart(v) \/ AdminStop(v)
        PROVE  NothingLeft'
    <2>1. /\ UNCHANGED <<host, status, disk, call, step, recorded>>
          /\ disk # NoVersion /\ recorded[v]
      BY <1>5, AdminFrame
    <2>2. status # "not-installed" /\ host.helper /\ ~IsPurge(call)
      BY <2>1 DEF Present, IsPurge
    <2>3. \A u \in UnitSet : enabled'[u] => enabled[u] \/ u = v
      BY <1>5 DEF AdminEnable, AdminDisable, AdminMask, AdminUnmask, AdminStart, AdminStop,
                  unitVars, TypeOK
    <2> QED BY <2>1, <2>2, <2>3
  <1> QED BY <1>1, <1>2, <1>3, <1>4, <1>5 DEF Next, Environment

\* A purge leaves neither links nor records nor masks, for any number of units.
THEOREM PurgeIsComplete == Spec => []PurgeLeavesNothing
  <1>1. Init => NothingLeft
    BY DEF Init, NothingLeft, Blank, Idle, IsPurge, NoCall, Call
  <1>2. NothingLeft => PurgeLeavesNothing
    BY DEF NothingLeft, Blank, PurgeLeavesNothing
  <1> QED BY <1>1, <1>2, LeftStep, TypeCorrect, FilesPresent, PTL DEF Spec

-----------------------------------------------------------------------------
(* The calls that set up the units *)

InPostinst == call.script = "postinst"

\* A removal, and the call of postinst that takes one back.
IsRetraction(c) == c.script = "postinst" /\ c.one = "abort-remove"
MayBeMasked(c)  == IsRemoval(c) \/ IsRetraction(c)

PostinstEnd == 3 * Len(Units) + 3
PostinstDone == InPostinst /\ step = PostinstEnd

LEMMA SetUpOf ==
  \A k \in 1 .. Len(Units) :
    /\ Postinst[3 * k - 2] = Command("unmask", {Units[k]})
    /\ Postinst[3 * k - 1] = Command("was-enabled", {Units[k]})
    /\ Postinst[3 * k] = Command("enable", {Units[k]})
  <1> TAKE k \in 1 .. Len(Units)
  <1>1. Len(Units) \in Nat
    BY UnitsType
  <1>2. ASSUME NEW n \in 1 .. 3 * Len(Units), (n + 2) \div 3 = k
        PROVE  /\ n % 3 = 1 => Postinst[n] = Command("unmask", {Units[k]})
               /\ n % 3 = 2 => Postinst[n] = Command("was-enabled", {Units[k]})
               /\ n % 3 = 0 => Postinst[n] = Command("enable", {Units[k]})
    <2>1. Postinst[n] = SetUp[n]
      BY PostinstAt
    <2>2. SetUp[n] = Command(CASE n % 3 = 1 -> "unmask" [] n % 3 = 2 -> "was-enabled"
                               [] n % 3 = 0 -> "enable", {Units[k]})
      BY <1>2, SetUpAt
    <2> QED BY <2>1, <2>2
  <1>3. /\ 3 * k - 2 \in 1 .. 3 * Len(Units)
        /\ (3 * k - 2) % 3 = 1 /\ ((3 * k - 2) + 2) \div 3 = k
    BY <1>1
  <1>4. /\ 3 * k - 1 \in 1 .. 3 * Len(Units)
        /\ (3 * k - 1) % 3 = 2 /\ ((3 * k - 1) + 2) \div 3 = k
    BY <1>1
  <1>5. /\ 3 * k \in 1 .. 3 * Len(Units)
        /\ (3 * k) % 3 = 0 /\ (3 * k + 2) \div 3 = k
    BY <1>1
  <1> QED BY <1>2, <1>3, <1>4, <1>5

LEMMA UnitsListed == \A u \in UnitSet : \E k \in 1 .. Len(Units) : u = Units[k]
  BY UnitsAssumption DEF UnitSet, ToSet

\* Where postinst is when it runs a command, and which one it is.
LEMMA PostinstRuns ==
  ASSUME TypeOK, InPostinst
  PROVE  /\ Len(Body(call)) = 3 * Len(Units) + 2
         /\ \A do, us : At(do, us) =>
              /\ step \in 1 .. 3 * Len(Units) + 2 /\ step' = step + 1 /\ call' = call
              /\ \A k \in 1 .. Len(Units) :
                   /\ step = 3 * k - 2 => do = "unmask" /\ us = {Units[k]}
                   /\ step = 3 * k - 1 => do = "was-enabled" /\ us = {Units[k]}
                   /\ step = 3 * k => do = "enable" /\ us = {Units[k]}
              /\ step = 3 * Len(Units) + 1 => do = "reload"
              /\ step = 3 * Len(Units) + 2 => do = "invoke"
  <1>1. Body(call) = Postinst
    BY DEF InPostinst, TypeOK, Calls, NoCall, Call, Body, Runs
  <1>2. \A do, us : At(do, us) => /\ step \in DOMAIN Postinst /\ step' = step + 1 /\ call' = call
                                 /\ Postinst[step].do = do /\ Postinst[step].units = us
    BY <1>1 DEF At, Command, dpkgVars
  <1>3. /\ \A k \in 1 .. Len(Units) :
             /\ Postinst[3 * k - 2].do = "unmask" /\ Postinst[3 * k - 2].units = {Units[k]}
             /\ Postinst[3 * k - 1].do = "was-enabled" /\ Postinst[3 * k - 1].units = {Units[k]}
             /\ Postinst[3 * k].do = "enable" /\ Postinst[3 * k].units = {Units[k]}
        /\ Postinst[3 * Len(Units) + 1].do = "reload"
        /\ Postinst[3 * Len(Units) + 2].do = "invoke"
    <2>1. ASSUME NEW k \in 1 .. Len(Units)
          PROVE  /\ Postinst[3 * k - 2].do = "unmask" /\ Postinst[3 * k - 2].units = {Units[k]}
                 /\ Postinst[3 * k - 1].do = "was-enabled" /\ Postinst[3 * k - 1].units = {Units[k]}
                 /\ Postinst[3 * k].do = "enable" /\ Postinst[3 * k].units = {Units[k]}
      <3> DEFINE a == Postinst[3 * k - 2]
                 b == Postinst[3 * k - 1]
                 c == Postinst[3 * k]
      <3>1. a = Command("unmask", {Units[k]}) /\ b = Command("was-enabled", {Units[k]})
              /\ c = Command("enable", {Units[k]})
        BY SetUpOf
      <3> HIDE DEF a, b, c
      <3>2. /\ a.do = "unmask" /\ a.units = {Units[k]}
            /\ b.do = "was-enabled" /\ b.units = {Units[k]}
            /\ c.do = "enable" /\ c.units = {Units[k]}
        BY <3>1 DEF Command
      <3> QED BY <3>2 DEF a, b, c
    <2>2. Postinst[3 * Len(Units) + 1].do = "reload" /\ Postinst[3 * Len(Units) + 2].do = "invoke"
      BY PostinstAt DEF Command
    <2> QED BY <2>1, <2>2
  <1>4. Len(Body(call)) = 3 * Len(Units) + 2 /\ DOMAIN Postinst = 1 .. 3 * Len(Units) + 2
    BY <1>1, PostinstAt
  <1> SUFFICES ASSUME NEW do, NEW us, At(do, us)
               PROVE  /\ step \in 1 .. 3 * Len(Units) + 2 /\ step' = step + 1 /\ call' = call
                      /\ \A k \in 1 .. Len(Units) :
                           /\ step = 3 * k - 2 => do = "unmask" /\ us = {Units[k]}
                           /\ step = 3 * k - 1 => do = "was-enabled" /\ us = {Units[k]}
                           /\ step = 3 * k => do = "enable" /\ us = {Units[k]}
                      /\ step = 3 * Len(Units) + 1 => do = "reload"
                      /\ step = 3 * Len(Units) + 2 => do = "invoke"
    BY <1>4
  <1>5. step' = step + 1 /\ call' = call /\ step \in 1 .. 3 * Len(Units) + 2
    BY <1>2, <1>4
  <1>6. ASSUME NEW k \in 1 .. Len(Units)
        PROVE  /\ step = 3 * k - 2 => do = "unmask" /\ us = {Units[k]}
               /\ step = 3 * k - 1 => do = "was-enabled" /\ us = {Units[k]}
               /\ step = 3 * k => do = "enable" /\ us = {Units[k]}
    <2>1. Postinst[step].do = do /\ Postinst[step].units = us
      BY <1>2
    <2> QED BY <1>3, <2>1
  <1>7. /\ step = 3 * Len(Units) + 1 => do = "reload"
        /\ step = 3 * Len(Units) + 2 => do = "invoke"
    BY <1>2, <1>3
  <1> QED BY <1>5, <1>6, <1>7

\* Only these calls run commands.
LEMMA WhoRuns == \A do, us : At(do, us) => InPostinst \/ IsRemoval(call) \/ IsPurge(call)
  BY DEF At, Body, Runs, InPostinst, IsRemoval, IsPurge

\* dpkg starts postinst from its first command.
LEMMA PostinstStarts == TypeOK /\ Dpkg => call'.script # "postinst" \/ step' = 1
  BY DEF Dpkg, Unpack, Upgrade, Configure, RemovePackage, PurgePackage, Begin, Unpacked,
         UnpackFailed, OldPurged, Installed, Kept, FilesRemoved, Removed, Purged, Killed, Start,
         Idle, NoCall, Call

\* For dpkg a package is installed because it was and nothing has been done to it
\* since, because postinst has ended, or because its removal is being taken back.
LEMMA InstalledBy ==
  ASSUME TypeOK, Dpkg, status' = "installed"
  PROVE  \/ PostinstDone
         \/ /\ status = "installed" /\ ~InPostinst
            /\ IsRemoval(call) => IsRetraction(call')
  <1> USE DEF InPostinst, IsRemoval, PostinstDone
  <1>1. CASE Installed \/ Kept
    <2>1. InPostinst /\ step = Len(Body(call)) + 1
      BY <1>1 DEF Installed, Kept, Ended
    <2>2. Len(Body(call)) = 3 * Len(Units) + 2
      BY <2>1, PostinstRuns
    <2> QED BY <2>1, <2>2, UnitsType DEF PostinstEnd
  <1>2. CASE Killed
    BY <1>2 DEF Killed, CutShort, Start, IsRetraction, Call
  <1>3. CASE UnpackFailed \/ OldPurged \/ Removed
    BY <1>3 DEF UnpackFailed, OldPurged, Removed, Ended
  <1>4. CASE FilesRemoved \/ Purged \/ Unpacked \/ (\E v \in Versions : Unpack(v))
    BY <1>4 DEF FilesRemoved, Purged, Unpacked, Unpack
  <1>5. CASE Configure \/ RemovePackage \/ PurgePackage \/ (\E v \in Versions : Upgrade(v))
    <2>1. Idle /\ status' = status
      BY <1>5 DEF Configure, RemovePackage, PurgePackage, Upgrade, Begin
    <2> QED BY <2>1 DEF Idle, NoCall, Call
  <1> QED BY <1>1, <1>2, <1>3, <1>4, <1>5 DEF Dpkg

-----------------------------------------------------------------------------
(* Masks *)

\* postinst takes the masks of the units before it away as it goes, and only a
\* removal puts them back.
Unmasked ==
  host.helper =>
    /\ InPostinst => \A k \in 1 .. Len(Units) : step > 3 * k - 2 => mask[Units[k]] # "dsh"
    /\ status = "installed" /\ ~MayBeMasked(call) => \A u \in UnitSet : mask[u] # "dsh"

LEMMA UnmaskedStep == TypeOK /\ Unmasked /\ [Next]_vars => Unmasked'
  <1> SUFFICES ASSUME TypeOK, Unmasked, [Next]_vars, host.helper PROVE Unmasked'
    <2>1. [Next]_vars => host' = host
      BY ScriptFrame, DpkgFrame, AdminFrame DEF Next, Environment, Reboot, vars
    <2> QED BY <2>1 DEF Unmasked
  <1> USE DEF Unmasked, InPostinst
  <1>0. /\ Len(Units) \in Nat /\ step \in Int /\ \A k \in 1 .. Len(Units) : Units[k] \in UnitSet
    BY UnitsType DEF TypeOK
  <1>1. CASE UNCHANGED vars
    BY <1>1 DEF vars, dpkgVars, unitVars, MayBeMasked
  <1>2. CASE Script
    <2>1. host' = host /\ status' = status /\ call' = call
      BY <1>2, ScriptFrame DEF dpkgVars
    <2>2. CASE Mask(UnitSet)
      BY <2>1, <2>2, WhichScript DEF Mask, MayBeMasked, IsRemoval
    <2>3. ASSUME NEW us \in {UnitSet} \cup {{v} : v \in UnitSet}, Unmask(us)
          PROVE  Unmasked'
      <3>1. \A u \in UnitSet : mask'[u] # "dsh" \/ (mask'[u] = mask[u] /\ u \notin us)
        BY <2>3 DEF Unmask, Helped, TypeOK
      <3>2. ASSUME InPostinst, NEW k \in 1 .. Len(Units), step' > 3 * k - 2
            PROVE  mask'[Units[k]] # "dsh"
        <4>1. step' = step + 1 /\ (step = 3 * k - 2 => us = {Units[k]})
          BY <2>3, <3>2, PostinstRuns DEF Unmask
        <4>2. step > 3 * k - 2 \/ us = {Units[k]}
          <5>1. k \in Int /\ step' > 3 * k - 2
            BY <1>0, <3>2
          <5> HIDE DEF Unmasked
          <5> QED BY <1>0, <4>1, <5>1
        <4>3. step > 3 * k - 2 => mask[Units[k]] # "dsh"
          BY <3>2
        <4>4. Units[k] \in UnitSet
          BY <1>0
        <4> QED BY <3>1, <4>2, <4>3, <4>4
      <3> QED BY <2>1, <3>1, <3>2
    <2>4. ASSUME NEW do, NEW us, At(do, us), do # "unmask", mask' = mask
          PROVE  Unmasked'
      <3>1. ASSUME InPostinst, NEW k \in 1 .. Len(Units), step' > 3 * k - 2
            PROVE  mask'[Units[k]] # "dsh"
        <4>1. step' = step + 1 /\ step # 3 * k - 2
          BY <2>4, <3>1, PostinstRuns
        <4>2. step > 3 * k - 2
          BY <1>0, <3>1, <4>1
        <4> QED BY <2>4, <3>1, <4>2
      <3> QED BY <2>1, <2>4, <3>1
    <2>5. CASE Reload \/ Invoke(UnitSet) \/ Stop(UnitSet) \/ Purge(UnitSet)
      BY <2>4, <2>5 DEF Reload, Invoke, Stop, Purge, unitVars
    <2>6. ASSUME NEW v \in UnitSet, WasEnabled(v) \/ Enable(v) PROVE Unmasked'
      BY <2>4, <2>6 DEF WasEnabled, Enable, unitVars
    <2> QED BY <1>2, <2>2, <2>3, <2>5, <2>6 DEF Script
  <1>3. CASE Dpkg
    <2>1. host' = host /\ mask' = mask
      BY <1>3, DpkgFrame DEF unitVars
    <2>2. InPostinst' => step' = 1
      BY <1>3, PostinstStarts
    <2>3. ASSUME status' = "installed", ~MayBeMasked(call)', NEW u \in UnitSet
          PROVE  mask'[u] # "dsh"
      <3>1. CASE PostinstDone
        <4>1. PICK k \in 1 .. Len(Units) : u = Units[k]
          BY UnitsListed
        <4>2. step > 3 * k - 2
          BY <1>0, <3>1 DEF PostinstDone, PostinstEnd
        <4> QED BY <2>1, <3>1, <4>1, <4>2 DEF PostinstDone
      <3>2. CASE /\ status = "installed" /\ ~InPostinst
                 /\ IsRemoval(call) => IsRetraction(call')
        BY <2>1, <2>3, <3>2 DEF MayBeMasked, IsRetraction
      <3> QED BY <1>3, <2>3, <3>1, <3>2, InstalledBy
    <2> QED BY <1>0, <2>1, <2>2, <2>3
  <1>4. CASE Reboot
    BY <1>4 DEF Reboot, Start, CutShort, unitVars, NoCall, Call, MayBeMasked, IsRemoval,
                IsRetraction
  <1>5. ASSUME NEW v \in UnitSet,
               AdminEnable(v) \/ AdminDisable(v) \/ AdminMask(v) \/ AdminUnmask(v)
                 \/ AdminStart(v) \/ AdminStop(v)
        PROVE  Unmasked'
    <2>1. UNCHANGED <<host, status, call, step>>
      BY <1>5, AdminFrame
    <2>2. \A u \in UnitSet : mask'[u] = mask[u] \/ mask'[u] # "dsh"
      BY <1>5 DEF AdminEnable, AdminDisable, AdminMask, AdminUnmask, AdminStart, AdminStop,
                  unitVars, TypeOK
    <2> QED BY <1>0, <2>1, <2>2
  <1> QED BY <1>1, <1>2, <1>3, <1>4, <1>5 DEF Next, Environment

LEMMA UnmaskedHolds == Spec => []Unmasked
  <1>1. Init => Unmasked
    BY DEF Init, Unmasked, InPostinst, NoCall, Call
  <1> QED BY <1>1, UnmaskedStep, TypeCorrect, PTL DEF Spec

\* The mask of prerm is gone whenever the package is installed again, for any
\* number of units.
THEOREM MaskIsLifted == Spec => []NoStaleMask
  <1>1. Unmasked => NoStaleMask
    BY DEF Unmasked, NoStaleMask, Settled, Idle, NoCall, Call, MayBeMasked, IsRemoval,
           IsRetraction
  <1> QED BY <1>1, UnmaskedHolds, PTL

-----------------------------------------------------------------------------
(* What is enabled *)

\* A unit whose links are gone although they are recorded was disabled by the
\* administrator, and postinst records the units before it as it goes.
EnabledUnlessOff ==
  host.helper =>
    /\ \A u \in UnitSet : recorded[u] /\ ~enabled[u] => choice[u] # "none"
    /\ InPostinst =>
         \A k \in 1 .. Len(Units) :
           /\ step = 3 * k => Units[k] \in was \/ enabled[Units[k]] \/ choice[Units[k]] # "none"
           /\ step > 3 * k => recorded[Units[k]]
    /\ status = "installed" => \A u \in UnitSet : recorded[u]

LEMMA EnabledStep == TypeOK /\ Present /\ EnabledUnlessOff /\ [Next]_vars => EnabledUnlessOff'
  <1> SUFFICES ASSUME TypeOK, Present, EnabledUnlessOff, [Next]_vars, host.helper
               PROVE  EnabledUnlessOff'
    <2>1. [Next]_vars => host' = host
      BY ScriptFrame, DpkgFrame, AdminFrame DEF Next, Environment, Reboot, vars
    <2> QED BY <2>1 DEF EnabledUnlessOff
  <1> USE DEF EnabledUnlessOff, InPostinst
  <1>0. /\ Len(Units) \in Nat /\ step \in Int /\ \A k \in 1 .. Len(Units) : Units[k] \in UnitSet
    BY UnitsType DEF TypeOK
  <1>1. CASE UNCHANGED vars
    BY <1>1 DEF vars, dpkgVars, unitVars
  <1>2. CASE Script
    <2>1. host' = host /\ status' = status /\ call' = call
      BY <1>2, ScriptFrame DEF dpkgVars
    \* A command that is neither of the two leaves the clauses of the others alone.
    <2>2. ASSUME NEW do, NEW us, At(do, us), do \notin {"was-enabled", "enable"},
                 UNCHANGED <<was, enabled, recorded, choice>>
          PROVE  EnabledUnlessOff'
      <3>1. ASSUME InPostinst, NEW k \in 1 .. Len(Units)
            PROVE  step' # 3 * k /\ (step' > 3 * k => step > 3 * k)
        <4>1. step' = step + 1 /\ step # 3 * k - 1 /\ step # 3 * k
          BY <2>2, <3>1, PostinstRuns
        <4>2. k \in Int
          BY <1>0
        <4> HIDE DEF EnabledUnlessOff
        <4> QED BY <1>0, <4>1, <4>2
      <3> QED BY <2>1, <2>2, <3>1
    <2>3. CASE Reload \/ Invoke(UnitSet) \/ Mask(UnitSet) \/ Stop(UnitSet)
      BY <2>2, <2>3 DEF Reload, Invoke, Mask, Stop, unitVars
    <2>4. ASSUME NEW us \in {UnitSet} \cup {{v} : v \in UnitSet}, Unmask(us)
          PROVE  EnabledUnlessOff'
      BY <2>2, <2>4 DEF Unmask
    <2>5. CASE Purge(UnitSet)
      <3>1. ~InPostinst /\ status # "installed"
        BY <2>5, WhichScript DEF Purge, Present
      <3>2. \A u \in UnitSet : ~recorded'[u]
        BY <2>5 DEF Purge, Helped, TypeOK
      <3> QED BY <2>1, <3>1, <3>2
    <2>6. ASSUME NEW v \in UnitSet, WasEnabled(v) PROVE EnabledUnlessOff'
      <3>1. UNCHANGED <<enabled, recorded, choice>>
        BY <2>6 DEF WasEnabled, unitVars
      <3>2. v \in was' \/ enabled[v] \/ choice[v] # "none"
        BY <2>6 DEF WasEnabled, TypeOK
      <3>3. ASSUME InPostinst, NEW k \in 1 .. Len(Units)
            PROVE  (step' = 3 * k => v = Units[k]) /\ (step' > 3 * k => step > 3 * k)
        <4>1. step' = step + 1 /\ step # 3 * k /\ (step = 3 * k - 1 => {v} = {Units[k]})
          <5>1. At("was-enabled", {v})
            BY <2>6 DEF WasEnabled
          <5>2. \A j \in 1 .. Len(Units) : /\ step' = step + 1
                                           /\ step = 3 * j - 1 => {v} = {Units[j]}
                                           /\ step = 3 * j => "was-enabled" = "enable"
            BY <3>3, <5>1, PostinstRuns
          <5> QED BY <3>3, <5>2
        <4>2. k \in Int /\ (v = Units[k] \/ step # 3 * k - 1)
          BY <1>0, <4>1
        <4> HIDE DEF EnabledUnlessOff
        <4> QED BY <1>0, <4>1, <4>2
      <3>4. InPostinst => \A k \in 1 .. Len(Units) :
              /\ step' = 3 * k => Units[k] \in was' \/ enabled[Units[k]] \/ choice[Units[k]] # "none"
              /\ step' > 3 * k => recorded[Units[k]]
        BY <3>2, <3>3
      <3> QED BY <2>1, <3>1, <3>4
    <2>7. ASSUME NEW v \in UnitSet, Enable(v) PROVE EnabledUnlessOff'
      <3>1. /\ recorded' = [u \in UnitSet |-> recorded[u] \/ u = v]
            /\ enabled' = [u \in UnitSet |-> enabled[u] \/ (u = v /\ u \in was)]
        <4>1. /\ recorded' = [u \in UnitSet |-> IF u = v THEN TRUE ELSE recorded[u]]
              /\ enabled' = [u \in UnitSet |-> IF u = v THEN enabled[u] \/ u \in was ELSE enabled[u]]
          BY <2>7 DEF Enable, Helped
        <4>2. /\ \A u \in UnitSet : recorded[u] \in BOOLEAN /\ enabled[u] \in BOOLEAN
          BY DEF TypeOK
        <4> QED BY <4>1, <4>2
      <3>2. choice' = choice /\ InPostinst
        BY <2>7, WhichScript DEF Enable
      <3>3. ASSUME NEW k \in 1 .. Len(Units)
            PROVE  /\ step' # 3 * k /\ (step' > 3 * k => step > 3 * k \/ v = Units[k])
                   /\ step = 3 * k => v = Units[k]
        <4>1. step' = step + 1 /\ step # 3 * k - 1 /\ (step = 3 * k => {v} = {Units[k]})
          BY <2>7, <3>2, PostinstRuns DEF Enable
        <4> QED BY <1>0, <3>3, <4>1
      <3>4. \E k \in 1 .. Len(Units) : step = 3 * k
        <4>1. /\ step \in 1 .. 3 * Len(Units) + 2
              /\ \A k \in 1 .. Len(Units) : step # 3 * k - 2 /\ step # 3 * k - 1
              /\ step # 3 * Len(Units) + 1 /\ step # 3 * Len(Units) + 2
          BY <2>7, <3>2, PostinstRuns DEF Enable
        <4>2. (step + 2) \div 3 \in 1 .. Len(Units)
          BY <1>0, <4>1
        <4>3. step = 3 * ((step + 2) \div 3) \/ step = 3 * ((step + 2) \div 3) - 1
                \/ step = 3 * ((step + 2) \div 3) - 2
          BY <1>0
        <4> QED BY <4>1, <4>2, <4>3
      <3>5. enabled'[v] \/ choice'[v] # "none"
        BY <3>1, <3>2, <3>3, <3>4
      <3> QED BY <2>1, <1>0, <3>1, <3>2, <3>3, <3>5
    <2> QED BY <1>2, <2>3, <2>4, <2>5, <2>6, <2>7 DEF Script
  <1>3. CASE Dpkg
    <2>1. UNCHANGED <<host, enabled, recorded, choice>>
      BY <1>3, DpkgFrame DEF unitVars
    <2>2. InPostinst' => step' = 1
      BY <1>3, PostinstStarts
    <2>3. ASSUME status' = "installed", NEW u \in UnitSet PROVE recorded[u]
      <3>1. CASE PostinstDone
        <4>1. PICK k \in 1 .. Len(Units) : u = Units[k]
          BY UnitsListed
        <4>2. step > 3 * k
          BY <1>0, <3>1 DEF PostinstDone, PostinstEnd
        <4> QED BY <3>1, <4>1, <4>2 DEF PostinstDone
      <3> QED BY <1>3, <2>3, <3>1, InstalledBy
    <2> QED BY <1>0, <2>1, <2>2, <2>3
  <1>4. CASE Reboot
    BY <1>4 DEF Reboot, Start, CutShort, unitVars, NoCall, Call
  <1>5. ASSUME NEW v \in UnitSet,
               AdminEnable(v) \/ AdminDisable(v) \/ AdminMask(v) \/ AdminUnmask(v)
                 \/ AdminStart(v) \/ AdminStop(v)
        PROVE  EnabledUnlessOff'
    <2>1. UNCHANGED <<host, status, call, step, was, recorded>>
      BY <1>5, AdminFrame
    <2>2. \A u \in UnitSet : \/ enabled'[u] = enabled[u] /\ choice'[u] = choice[u]
                             \/ enabled'[u] \/ choice'[u] # "none"
      BY <1>5 DEF AdminEnable, AdminDisable, AdminMask, AdminUnmask, AdminStart, AdminStop,
                  unitVars, TypeOK
    <2> QED BY <1>0, <2>1, <2>2
  <1> QED BY <1>1, <1>2, <1>3, <1>4, <1>5 DEF Next, Environment

\* A unit of an installed package is disabled only by the administrator, for any
\* number of units.
THEOREM EnabledFromTheStart == Spec => []EnabledByDefault
  <1>1. Init => EnabledUnlessOff
    BY DEF Init, EnabledUnlessOff, InPostinst, NoCall, Call
  <1>2. EnabledUnlessOff => EnabledByDefault
    BY DEF EnabledUnlessOff, EnabledByDefault, Settled
  <1> QED BY <1>1, <1>2, EnabledStep, TypeCorrect, FilesPresent, PTL DEF Spec

-----------------------------------------------------------------------------
(* What runs *)

\* A unit that may run and does not is down for a reason.
DownForAReason(u) ==
  enabled[u] /\ mask[u] = "none" /\ run[u] = Down => why[u] \in {"failed", "admin"}

\* This is so from the end of postinst until the next script sets out to change it.
UpUnlessReason ==
  /\ host.helper /\ host.systemd
  /\ PostinstDone \/ (status = "installed" /\ ~InPostinst /\ ~IsRemoval(call))
  => \A u \in UnitSet : DownForAReason(u)

\* What the last command of postinst does to a unit, whatever it finds.
LEMMA InvokeStarts ==
  ASSUME TypeOK, Invoke(UnitSet), disk # NoVersion, host.helper, host.systemd, NEW u \in UnitSet
  PROVE  /\ DownForAReason(u)'
         /\ \/ mask[u] # "none" \/ call.two = NoVersion
            \/ run'[u] \in {Down, Now}
  <1>1. /\ enabled' = enabled /\ mask' = mask
        /\ \E failing \in SUBSET UnitSet :
             LET hit == {v \in UnitSet : /\ mask[v] = "none"
                                         /\ enabled[v] \/ (call.two # NoVersion /\ run[v] # Down)
                                         /\ run[v] = Down \/ call.two # NoVersion}
             IN /\ failing \subseteq hit
                /\ run'[u] = IF u \in failing THEN Down ELSE IF u \in hit THEN Now ELSE run[u]
                /\ why'[u] = IF u \in failing THEN "failed"
                             ELSE IF u \in hit THEN "script" ELSE why[u]
    BY DEF Invoke, unitVars
  <1>2. Now # Down
    BY UpIsUp
  <1> QED BY <1>1, <1>2 DEF DownForAReason

LEMMA AdminLeavesReasons ==
  ASSUME TypeOK, NEW v,
         AdminEnable(v) \/ AdminDisable(v) \/ AdminMask(v) \/ AdminUnmask(v)
           \/ AdminStart(v) \/ AdminStop(v),
         NEW u \in UnitSet, DownForAReason(u)
  PROVE  DownForAReason(u)'
  <1> USE DEF DownForAReason, TypeOK
  <1>1. disk # NoVersion /\ v \in UnitSet
    BY AdminFrame
  <1>2. CASE AdminEnable(v) \/ AdminUnmask(v)
    <2>1. CASE u = v
      BY <1>2, <2>1 DEF AdminEnable, AdminUnmask, LeftDown
    <2>2. CASE u # v
      BY <1>2, <2>2 DEF AdminEnable, AdminUnmask, LeftDown
    <2> QED BY <2>1, <2>2
  <1>3. CASE AdminDisable(v) \/ AdminMask(v)
    <2>1. CASE u = v
      BY <1>3, <2>1 DEF AdminDisable, AdminMask
    <2>2. CASE u # v
      BY <1>3, <2>2 DEF AdminDisable, AdminMask
    <2> QED BY <2>1, <2>2
  <1>4. CASE AdminStart(v) \/ AdminStop(v)
    <2>1. enabled' = enabled /\ mask' = mask
      BY <1>4 DEF AdminStart, AdminStop, unitVars
    <2>2. CASE u = v
      BY <1>1, <1>4, <2>1, <2>2, UpIsUp DEF AdminStart, AdminStop
    <2>3. CASE u # v
      BY <1>4, <2>1, <2>3 DEF AdminStart, AdminStop
    <2> QED BY <2>2, <2>3
  <1> QED BY <1>2, <1>3, <1>4

LEMMA UpStep == TypeOK /\ Present /\ UpUnlessReason /\ [Next]_vars => UpUnlessReason'
  <1> SUFFICES ASSUME TypeOK, Present, UpUnlessReason, [Next]_vars, host.helper, host.systemd
               PROVE  UpUnlessReason'
    <2>1. [Next]_vars => host' = host
      BY ScriptFrame, DpkgFrame, AdminFrame DEF Next, Environment, Reboot, vars
    <2> QED BY <2>1 DEF UpUnlessReason
  <1> USE DEF UpUnlessReason
  <1>0. Len(Units) \in Nat /\ step \in Int /\ PostinstEnd \in Int /\ PostinstEnd > 1
    BY UnitsType DEF TypeOK, PostinstEnd
  <1>1. CASE UNCHANGED vars
    BY <1>1 DEF vars, dpkgVars, unitVars, runVars, InPostinst, PostinstDone, DownForAReason,
                IsRemoval
  <1>2. CASE Script
    <2>1. host' = host /\ status' = status /\ call' = call /\ disk' = disk
      BY <1>2, ScriptFrame DEF dpkgVars
    <2>2. CASE Invoke(UnitSet)
      <3>1. disk # NoVersion
        BY <2>2, WhichScript DEF Invoke, Present
      <3> QED BY <2>2, <3>1, InvokeStarts
    <2>3. ASSUME NEW do, NEW us, At(do, us), do # "invoke"
          PROVE  ~PostinstDone' /\ ~(status' = "installed" /\ ~InPostinst' /\ ~IsRemoval(call'))
      <3>1. InPostinst => step' # PostinstEnd
        <4>1. InPostinst => step' = step + 1 /\ step # 3 * Len(Units) + 2
          BY <2>3, PostinstRuns
        <4> QED BY <1>0, <4>1 DEF PostinstEnd
      <3>2. IsPurge(call) => status # "installed"
        BY DEF Present, IsPurge
      <3> QED BY <2>1, <2>3, <3>1, <3>2, WhoRuns DEF PostinstDone, InPostinst
    <2>4. CASE Reload \/ Mask(UnitSet) \/ Stop(UnitSet) \/ Purge(UnitSet)
      BY <2>3, <2>4 DEF Reload, Mask, Stop, Purge
    <2>5. ASSUME NEW us \in {UnitSet} \cup {{v} : v \in UnitSet}, Unmask(us)
          PROVE  UpUnlessReason'
      BY <2>3, <2>5 DEF Unmask
    <2>6. ASSUME NEW v \in UnitSet, WasEnabled(v) \/ Enable(v) PROVE UpUnlessReason'
      BY <2>3, <2>6 DEF WasEnabled, Enable
    <2> QED BY <1>2, <2>2, <2>4, <2>5, <2>6 DEF Script
  <1>3. CASE Dpkg
    <2>1. \A u \in UnitSet : DownForAReason(u) => DownForAReason(u)'
      BY <1>3, DpkgFrame DEF unitVars, DownForAReason
    <2>2. ~PostinstDone'
      BY <1>0, <1>3, PostinstStarts DEF PostinstDone, InPostinst, PostinstEnd
    <2>3. status' = "installed" /\ ~InPostinst'
            => PostinstDone \/ (status = "installed" /\ ~InPostinst /\ ~IsRemoval(call))
      BY <1>3, InstalledBy DEF IsRetraction, InPostinst
    <2> QED BY <2>1, <2>2, <2>3
  <1>4. CASE Reboot
    <2>1. call' = NoCall /\ disk' = disk /\ UNCHANGED unitVars
            /\ (status' = "installed" => status = "installed")
      BY <1>4 DEF Reboot, Start, CutShort
    <2>2. ~PostinstDone'
      BY <2>1 DEF PostinstDone, InPostinst, NoCall, Call
    <2>3. ASSUME status' = "installed", NEW u \in UnitSet PROVE DownForAReason(u)'
      <3>1. disk # NoVersion
        BY <2>1, <2>3 DEF Present
      <3>2. mask[u] = "none" /\ enabled[u] /\ run'[u] = Down => why'[u] = "failed"
        BY <1>4, <3>1, UpIsUp DEF Reboot
      <3> QED BY <2>1, <3>2 DEF DownForAReason, unitVars
    <2> QED BY <2>2, <2>3
  <1>5. ASSUME NEW v \in UnitSet,
               AdminEnable(v) \/ AdminDisable(v) \/ AdminMask(v) \/ AdminUnmask(v)
                 \/ AdminStart(v) \/ AdminStop(v)
        PROVE  UpUnlessReason'
    <2>1. UNCHANGED <<host, status, call, step>>
      BY <1>5, AdminFrame
    <2> QED BY <1>5, <2>1, AdminLeavesReasons DEF PostinstDone, InPostinst
  <1> QED BY <1>1, <1>2, <1>3, <1>4, <1>5 DEF Next, Environment

\* An enabled unit of an installed package is down only because it failed or the
\* administrator left it down, for any number of units.
THEOREM EnabledAreUp == Spec => []EnabledMeansUp
  <1>1. Init => UpUnlessReason
    BY DEF Init, UpUnlessReason, PostinstDone, InPostinst, NoCall, Call
  <1>2. UpUnlessReason => EnabledMeansUp
    BY DEF UpUnlessReason, EnabledMeansUp, DownForAReason, Settled, Idle, NoCall, Call, InPostinst,
           IsRemoval
  <1> QED BY <1>1, <1>2, UpStep, TypeCorrect, FilesPresent, PTL DEF Spec

\* After the daemon-reload of postinst systemd goes by the unit files that are on
\* disk; once its last command is done nothing runs another version, if $2 is set.
UpToDate ==
  host.helper /\ host.systemd /\ InPostinst =>
    /\ step > 3 * Len(Units) + 1 => loaded = disk
    /\ step = PostinstEnd /\ call.two # NoVersion
         => \A u \in UnitSet : mask[u] = "admin" \/ run[u] \in {Down, [bin |-> disk, def |-> disk]}

LEMMA UpToDateStep ==
  TypeOK /\ Present /\ Unmasked /\ UpToDate /\ [Next]_vars => UpToDate'
  <1> SUFFICES ASSUME TypeOK, Present, Unmasked, UpToDate, [Next]_vars,
                      host.helper, host.systemd, InPostinst'
               PROVE  /\ step' > 3 * Len(Units) + 1 => loaded' = disk'
                      /\ step' = PostinstEnd /\ call'.two # NoVersion
                           => \A u \in UnitSet : \/ mask'[u] = "admin"
                                                 \/ run'[u] \in {Down, [bin |-> disk', def |-> disk']}
    <2>1. [Next]_vars => host' = host
      BY ScriptFrame, DpkgFrame, AdminFrame DEF Next, Environment, Reboot, vars
    <2> QED BY <2>1 DEF UpToDate
  <1>0. Len(Units) \in Nat /\ step \in Int /\ PostinstEnd = 3 * Len(Units) + 3
    BY UnitsType DEF TypeOK, PostinstEnd
  <1>1. CASE UNCHANGED vars
    BY <1>1 DEF vars, dpkgVars, unitVars, runVars, InPostinst, UpToDate
  <1>2. CASE Script
    <2>1. disk' = disk /\ call' = call /\ InPostinst
      BY <1>2, ScriptFrame DEF dpkgVars, InPostinst
    <2>2. disk # NoVersion
      BY <2>1 DEF Present, InPostinst
    <2>3. CASE Invoke(UnitSet)
      <3>1. loaded' = loaded /\ mask' = mask
        BY <2>3 DEF Invoke, unitVars
      <3>2. step' = step + 1
        BY <2>1, <2>3, PostinstRuns DEF Invoke
      <3>3. CASE step = 3 * Len(Units) + 2
        <4>1. loaded = disk
          BY <1>0, <2>1, <3>3 DEF UpToDate
        <4>2. Now = [bin |-> disk, def |-> disk]
          BY <2>2, <4>1 DEF Now
        <4>3. ASSUME NEW u \in UnitSet, mask[u] # "admin", call.two # NoVersion
              PROVE  run'[u] \in {Down, Now}
          <5>1. PICK k \in 1 .. Len(Units) : u = Units[k]
            BY UnitsListed
          <5>2. step > 3 * k - 2
            BY <1>0, <3>3
          <5>3. mask[u] = "none"
            BY <2>1, <4>3, <5>1, <5>2 DEF Unmasked, TypeOK
          <5> QED BY <2>2, <2>3, <4>3, <5>3, InvokeStarts
        <4> QED BY <2>1, <3>1, <4>1, <4>2, <4>3
      <3>4. CASE step # 3 * Len(Units) + 2
        <4>1. step \in 1 .. 3 * Len(Units) + 2
          BY <2>1, <2>3, PostinstRuns DEF Invoke
        <4>2. ~(step' = PostinstEnd) /\ (step' > 3 * Len(Units) + 1 => step = 3 * Len(Units) + 1)
          BY <1>0, <3>2, <3>4, <4>1
        <4>3. step # 3 * Len(Units) + 1
          BY <2>1, <2>3, PostinstRuns DEF Invoke
        <4> QED BY <4>2, <4>3
      <3> QED BY <3>3, <3>4
    \* Before the last command only the reload brings postinst past its reload.
    <2>4. ASSUME NEW do, NEW us, At(do, us), do # "invoke"
          PROVE  /\ step' # PostinstEnd
                 /\ step' > 3 * Len(Units) + 1 => do = "reload"
      <3>1. /\ step \in 1 .. 3 * Len(Units) + 2 /\ step' = step + 1
            /\ step # 3 * Len(Units) + 2
            /\ step = 3 * Len(Units) + 1 => do = "reload"
        BY <2>1, <2>4, PostinstRuns
      <3> QED BY <1>0, <3>1
    <2>5. CASE Reload
      BY <2>1, <2>4, <2>5 DEF Reload
    <2>6. CASE Mask(UnitSet) \/ Stop(UnitSet) \/ Purge(UnitSet)
      BY <2>4, <2>6 DEF Mask, Stop, Purge
    <2>7. ASSUME NEW us \in {UnitSet} \cup {{v} : v \in UnitSet}, Unmask(us)
          PROVE  step' # PostinstEnd /\ ~(step' > 3 * Len(Units) + 1)
      BY <2>4, <2>7 DEF Unmask
    <2>8. ASSUME NEW v \in UnitSet, WasEnabled(v) \/ Enable(v)
          PROVE  step' # PostinstEnd /\ ~(step' > 3 * Len(Units) + 1)
      BY <2>4, <2>8 DEF WasEnabled, Enable
    <2> QED BY <1>2, <2>3, <2>5, <2>6, <2>7, <2>8 DEF Script
  <1>3. CASE Dpkg
    <2>1. step' = 1
      BY <1>3, PostinstStarts DEF InPostinst
    <2> QED BY <1>0, <2>1
  <1>4. CASE Reboot
    BY <1>4 DEF Reboot, Start, InPostinst, NoCall, Call
  <1>5. ASSUME NEW v \in UnitSet,
               AdminEnable(v) \/ AdminDisable(v) \/ AdminMask(v) \/ AdminUnmask(v)
                 \/ AdminStart(v) \/ AdminStop(v)
        PROVE  /\ step' > 3 * Len(Units) + 1 => loaded' = disk'
               /\ step' = PostinstEnd /\ call'.two # NoVersion
                    => \A u \in UnitSet : \/ mask'[u] = "admin"
                                          \/ run'[u] \in {Down, [bin |-> disk', def |-> disk']}
    <2>1. UNCHANGED <<host, disk, call, step>> /\ InPostinst /\ disk # NoVersion
      BY <1>5, AdminFrame DEF InPostinst
    <2>2. ~Idle
      BY <2>1 DEF InPostinst, Idle, NoCall, Call
    <2>3. loaded' = loaded /\ mask' = mask
      BY <1>5, <2>2 DEF AdminEnable, AdminDisable, AdminMask, AdminUnmask, AdminStart, AdminStop,
                        Admin, unitVars
    <2>4. \A u \in UnitSet : run'[u] \in {run[u], Down, Now}
      BY <1>5 DEF AdminEnable, AdminDisable, AdminMask, AdminUnmask, AdminStart, AdminStop, TypeOK
    <2>5. step > 3 * Len(Units) + 1 => loaded = disk /\ Now = [bin |-> disk, def |-> disk]
      BY <2>1 DEF UpToDate, Now
    <2>6. step = PostinstEnd => step > 3 * Len(Units) + 1
      BY <1>0
    <2> QED BY <2>1, <2>3, <2>4, <2>5, <2>6 DEF UpToDate
  <1> QED BY <1>1, <1>2, <1>3, <1>4, <1>5 DEF Next, Environment

\* When an upgrade or a reinstallation is done no unit still runs the old version,
\* nor the new one under the old unit file, for any number of units.
THEOREM UpgradesAreComplete == Spec => UpgradeIsComplete
  <1>1. Init => UpToDate
    BY DEF Init, UpToDate, InPostinst, NoCall, Call
  <1>2. ASSUME TypeOK, UpToDate, Installed, call.two # NoVersion, host.systemd, host.helper
        PROVE  \A u \in UnitSet : mask[u] = "admin" \/ run[u] \in {Down, [bin |-> disk, def |-> disk]}
    <2>1. InPostinst /\ step = Len(Body(call)) + 1
      BY <1>2 DEF Installed, Ended, InPostinst
    <2>2. step = PostinstEnd
      BY <1>2, <2>1, PostinstRuns, UnitsType DEF PostinstEnd
    <2> QED BY <1>2, <2>1, <2>2 DEF UpToDate
  <1>3. TypeOK /\ UpToDate /\ [Next]_vars =>
          [Installed /\ call.two # NoVersion /\ host.systemd /\ host.helper =>
             \A u \in UnitSet : \/ mask[u] = "admin"
                                \/ run[u] \in {Down, [bin |-> disk, def |-> disk]}]_vars
    BY <1>2
  <1> QED BY <1>1, <1>3, UpToDateStep, UnmaskedHolds, TypeCorrect, FilesPresent, PTL
          DEF Spec, UpgradeIsComplete
=============================================================================
