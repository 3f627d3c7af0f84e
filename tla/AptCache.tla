------------------------------- MODULE AptCache -------------------------------
(***************************************************************************)
(* Containers that share apt's two cache volumes (pkg/apt/install.go).     *)
(* apt.Install mounts them Locked and runs apt-get; the mounts stay on the *)
(* container, so every later exec of it (patches, make, packaging) locks   *)
(* them again.  Volumes go by name: one distribution's builds share a      *)
(* pair, and bullseye's is also that of Windows builds and of the          *)
(* container that runs fpm.                                                *)
(*                                                                         *)
(* External: the engine runs an exec once those it needs are done, takes   *)
(* its locked mounts one by one in the order they were added, holds them   *)
(* until the exec ends, and may prune a volume nobody holds.  An exec may  *)
(* be killed at any moment.  No install takes as long as an hour.          *)
(***************************************************************************)
CONSTANTS
  Execs,
  Installs,   \* the execs of apt.Install; the others come later on a container
  Needs,      \* exec -> the execs whose results it is run on
  Volumes,
  Cache, Lib, \* exec -> the volume at /var/cache/apt, at /var/lib/apt
  NoOne

ASSUME ExecsAssumption ==
  /\ Installs \subseteq Execs
  /\ Needs \in [Execs -> SUBSET Execs]
  /\ NoOne \notin Execs
ASSUME VolumesAssumption ==
  /\ Cache \in [Execs -> Volumes] /\ Lib \in [Execs -> Volumes]
  /\ \A d, e \in Execs : Cache[d] # Lib[e]

VARIABLES
  at,       \* exec -> the step it is at
  lock,     \* volume -> the exec that holds it
  fresh,    \* the volumes whose stamp (moby/updated, in a cache volume) or whose
            \* package lists (in a lib volume) are less than an hour old
  partial   \* execs whose last apt-get update left some list as it was (history)

vars == <<at, lock, fresh, partial>>

Busy == {"check", "first", "second", "install", "work"}

\* Mutant of First: the later execs of a container mount them the other way.
FirstMixed(e) == IF e \in Installs THEN Cache[e] ELSE Lib[e]

First(e)  == Cache[e]
Second(e) == IF First(e) = Cache[e] THEN Lib[e] ELSE Cache[e]

Init ==
  /\ at = [e \in Execs |-> "waiting"]
  /\ lock = [v \in Volumes |-> NoOne]
  /\ fresh \in SUBSET Volumes
  /\ partial = {}

Move(e, step) == at' = [at EXCEPT ![e] = step]

-----------------------------------------------------------------------------
(* The engine *)

\* Mutants of Take: Sharing is not Locked; the holder is noted under the wrong
\* name.
TakeShared(e, v)   == lock' = [lock EXCEPT ![v] = e]
TakeByVolume(e, v) == lock[v] = NoOne /\ lock' = [lock EXCEPT ![v] = v]

Take(e, v) == lock[v] = NoOne /\ lock' = [lock EXCEPT ![v] = e]

TakeFirst(e) ==
  /\ at[e] = "waiting" /\ \A d \in Needs[e] : at[d] = "done"
  /\ Take(e, First(e)) /\ Move(e, "half")
  /\ UNCHANGED <<fresh, partial>>

TakeSecond(e) ==
  /\ at[e] = "half"
  /\ Take(e, Second(e)) /\ Move(e, IF e \in Installs THEN "check" ELSE "work")
  /\ UNCHANGED <<fresh, partial>>

\* Its locks go with the exec, however it ends.
End(e, how) ==
  /\ Move(e, how)
  /\ lock' = [v \in Volumes |-> IF lock[v] = e THEN NoOne ELSE lock[v]]

\* It is killed, or an exec it needs has failed.
Stopped(e) ==
  /\ at[e] \notin {"done", "failed"}
  /\ End(e, "failed")
  /\ UNCHANGED <<fresh, partial>>

\* The engine drops a volume, and with it either the lists or the stamp.
Prune(v) ==
  /\ lock[v] = NoOne
  /\ fresh' = fresh \ {v}
  /\ UNCHANGED <<at, lock, partial>>

\* An hour goes by; installs are shorter.
Hour ==
  /\ \A e \in Execs : at[e] \notin {"check", "first", "second", "install"}
  /\ fresh' = {}
  /\ UNCHANGED <<at, lock, partial>>

-----------------------------------------------------------------------------
(* The script of apt.Install, under sh -e *)

\* Mutant of Check: a fresh stamp is believed.
CheckBelieves(e) ==
  /\ at[e] = "check"
  /\ Move(e, IF Cache[e] \in fresh THEN "install" ELSE "first")
  /\ UNCHANGED <<lock, fresh, partial>>

\* if [ -z "$(find ${UPDATED_PATH} -mmin -${UPDATED_MAX_AGE})" ]
Check(e) ==
  /\ at[e] = "check"
  /\ Move(e, IF Cache[e] \in fresh THEN "second" ELSE "first")
  /\ UNCHANGED <<lock, fresh, partial>>

\* The second apt-get update is unconditional.
Then(step) == IF step = "first" THEN "second" ELSE "install"

\* apt-get update: the hook of update-success touches the stamp.
Updated(e) ==
  /\ at[e] \in {"first", "second"}
  /\ Move(e, Then(at[e]))
  /\ fresh' = fresh \cup {Cache[e], Lib[e]}
  /\ partial' = partial \ {e}
  /\ UNCHANGED lock

\* Some list could not be fetched: apt warns, keeps the old one, runs no hook,
\* and exits 0.
UpdatedInPart(e) ==
  /\ at[e] \in {"first", "second"}
  /\ Move(e, Then(at[e]))
  /\ partial' = partial \cup {e}
  /\ UNCHANGED <<lock, fresh>>

\* The exec does what it is for, and ends: apt-get install, or any other command.
Finish(e) ==
  /\ at[e] \in {"install", "work"}
  /\ End(e, "done")
  /\ UNCHANGED <<fresh, partial>>

Step(e) ==
  \/ TakeFirst(e) \/ TakeSecond(e) \/ Check(e)
  \/ Updated(e) \/ UpdatedInPart(e) \/ Finish(e)
  \/ (\E d \in Needs[e] : at[d] = "failed") /\ Stopped(e)

Next == \/ \E e \in Execs : Step(e) \/ Stopped(e)
        \/ \E v \in Volumes : Prune(v)
        \/ Hour

\* The engine runs what can run, and the commands end (apt gives up on a
\* mirror after a while).  Nothing needs to be killed, pruned or to grow old.
Spec == Init /\ [][Next]_vars /\ \A e \in Execs : WF_vars(Step(e))

-----------------------------------------------------------------------------
(* Properties *)

\* Every variable stays in its range.
TypeOK ==
  /\ at \in [Execs -> Busy \cup {"waiting", "half", "done", "failed"}]
  /\ lock \in [Volumes -> Execs \cup {NoOne}]
  /\ fresh \in SUBSET Volumes
  /\ partial \in SUBSET Execs

\* Two execs that share a volume are never at work at the same time.
OneAtATime ==
  \A d, e \in Execs :
    d # e /\ at[d] \in Busy /\ at[e] \in Busy
      => {Cache[d], Lib[d]} \cap {Cache[e], Lib[e]} = {}

\* Packages are installed from lists that are less than an hour old and all there,
\* whatever the stamp says of them, unless an update of the exec itself was refused
\* some: stamp and lists are in different volumes, and each can be pruned alone.
InstallsFromFreshLists ==
  \A e \in Execs : at[e] = "install" => Lib[e] \in fresh \/ e \in partial

\* Every exec ends: those that wait for a volume hold nothing that its holder
\* could be waiting for.
EveryExecEnds == \A e \in Execs : <>(at[e] \in {"done", "failed"})
=============================================================================
