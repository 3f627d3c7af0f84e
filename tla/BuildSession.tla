----------------------------- MODULE BuildSession -----------------------------
(***************************************************************************)
(* One run of the build command (make.go, targets/): the main goroutine,   *)
(* the goroutine that closes the engine session when the process is        *)
(* interrupted, and the dagger engine that answers main's calls.           *)
(*                                                                         *)
(* dagger builds lazily: most methods only extend a description of the     *)
(* build.  main waits for the engine in exactly the calls listed in Calls; *)
(* all the rest (patches, make, packaging) runs inside the last of them,   *)
(* the export.  A call made on a closed session, or with a cancelled       *)
(* context, fails at once; a call already in flight then may still be      *)
(* answered, and fails in the end if it is not.                            *)
(***************************************************************************)
VARIABLES
  spec,       \* what the build spec file says; chosen in the initial state
  pc,         \* where main is: a local step or the call it is making
  flight,     \* main's call has been sent and is not answered
  signal,     \* SIGINT or SIGTERM: none yet, or "early" (before the export was
              \* sent) or "late"; ctx is done as soon as it is received
  watcher,    \* the goroutine that waits for ctx.Done()
  session,    \* the engine session of the client
  epoch,      \* SOURCE_DATE_EPOCH handed to the package build
  out,        \* the output directory on the host
  faults,     \* calls the engine failed of its own (history)
  code        \* how the process ended

vars == <<spec, pc, flight, signal, watcher, session, epoch, out, faults, code>>

Specs == [readable: BOOLEAN, archGiven: BOOLEAN,
          distro: {"linux", "windows", "unknown"},
          pkg: {"moby-containerd", "other"}]

Calls == {"connect", "arch", "platform", "path", "shim", "commit", "export"}
Codes == {"running", "killed", "0", "1", "2", "3", "4"}

Cancelled == signal # "none"

\* Mutant of CtxBound: the contexts of commit and export mixed up.
CtxBoundMixedUp(c) == c \notin {"shim", "export"}

\* Calls made with main's ctx; the two Contents(context.TODO()) are not.
CtxBound(c) == c \notin {"shim", "commit"}

\* injectHCSShimSource runs for the Windows build of containerd only.
NeedsShim == spec.pkg = "moby-containerd" /\ spec.distro = "windows"

\* Where main goes when the engine has answered call c.
After(c) ==
  CASE c = "connect"  -> IF spec.archGiven THEN "target" ELSE "arch"
    [] c = "arch"     -> "target"
    [] c = "platform" -> "path"
    [] c = "path"     -> IF NeedsShim THEN "shim" ELSE "commit"
    [] c = "shim"     -> "commit"
    [] c = "commit"   -> "export"
    [] c = "export"   -> "return"

\* Mutants of FailCode: the export reports like a failed build, or a status
\* of its own.
FailCodeShared(c) == IF c \in {"connect", "shim"} THEN "2" ELSE "3"
FailCodeExtra(c)  == IF c \in {"connect", "shim"} THEN "2" ELSE IF c = "export" THEN "5" ELSE "3"

\* Exit status when call c fails; a panic exits with 2.
FailCode(c) ==
  CASE c \in {"connect", "shim"}          -> "2"
    [] c \in {"arch", "platform", "path"} -> "3"
    [] c = "export"                       -> "4"

Init ==
  /\ spec \in Specs
  /\ pc = "read"
  /\ flight = FALSE
  /\ signal = "none"
  /\ watcher = "absent"
  /\ session = "none"
  /\ epoch = "unset"
  /\ out = "none"
  /\ faults = {}
  /\ code = "running"

Running == code = "running"

Exit(status) == pc' = "exited" /\ code' = status

-----------------------------------------------------------------------------
(* The main goroutine *)

\* readBuildSpec, then signal.NotifyContext.
ReadSpec ==
  /\ pc = "read"
  /\ IF spec.readable THEN pc' = "connect" /\ UNCHANGED code ELSE Exit("1")
  /\ UNCHANGED <<spec, flight, signal, watcher, session, epoch, out, faults>>

\* GetTarget looks the distro up; a name it does not know panics.
PickTarget ==
  /\ pc = "target"
  /\ IF spec.distro # "unknown" THEN pc' = "platform" /\ UNCHANGED code ELSE Exit("2")
  /\ UNCHANGED <<spec, flight, signal, watcher, session, epoch, out, faults>>

\* The context or the session rules the call out before the engine sees it.
Refused(c) == session = "closed" \/ (Cancelled /\ CtxBound(c))

\* Mutant of Send: only a closed session keeps a call from the engine.
SendUnlessClosed(c) ==
  /\ pc = c /\ ~flight /\ session # "closed"
  /\ flight' = TRUE
  /\ UNCHANGED <<spec, pc, signal, watcher, session, epoch, out, faults, code>>

Send(c) ==
  /\ pc = c /\ ~flight /\ ~Refused(c)
  /\ flight' = TRUE
  /\ UNCHANGED <<spec, pc, signal, watcher, session, epoch, out, faults, code>>

\* What the caller does with an error: getCommitTime swallows it and returns
\* "", every other call ends the process.
OnError(c) ==
  /\ flight' = FALSE
  /\ IF c = "commit"
     THEN epoch' = "blank" /\ pc' = After(c) /\ UNCHANGED code
     ELSE Exit(FailCode(c)) /\ UNCHANGED epoch
  /\ UNCHANGED <<spec, signal, watcher, session, out>>

\* Never sent, or cut off in flight.
CallRefused(c) ==
  /\ pc = c /\ Refused(c)
  /\ OnError(c)
  /\ UNCHANGED faults

\* The engine answers with an error (or with a PATH or platform main rejects).
CallFails(c) ==
  /\ pc = c /\ flight
  /\ OnError(c)
  /\ faults' = faults \cup {c}

\* A connected client gets its watcher goroutine.
CallAnswered(c) ==
  /\ pc = c /\ flight
  /\ c = "export" => out = "complete"
  /\ flight' = FALSE
  /\ pc' = After(c)
  /\ IF c = "connect" THEN session' = "open" /\ watcher' = "waiting"
                      ELSE UNCHANGED <<session, watcher>>
  /\ epoch' = IF c = "commit" THEN "commit" ELSE epoch
  /\ UNCHANGED <<spec, signal, out, faults, code>>

\* main returns: the deferred client.Close() runs and the status is 0.
Return ==
  /\ pc = "return"
  /\ session' = "closed"
  /\ Exit("0")
  /\ UNCHANGED <<spec, flight, signal, watcher, epoch, out, faults>>

Main == ReadSpec \/ PickTarget \/ Return
          \/ \E c \in Calls : Send(c) \/ CallRefused(c)

-----------------------------------------------------------------------------
(* The goroutine of main: <-ctx.Done(); client.Close() *)

Watch ==
  /\ Running /\ watcher = "waiting" /\ Cancelled
  /\ watcher' = "done"
  /\ session' = "closed"
  /\ UNCHANGED <<spec, pc, flight, signal, epoch, out, faults, code>>

-----------------------------------------------------------------------------
(* The environment: the engine, and whoever sends the process a signal *)

\* The export writes the files on the host one after the other, before it is
\* answered.
EngineWrites ==
  /\ pc = "export" /\ flight
  /\ \/ out = "none" /\ out' = "partial"
     \/ out = "partial" /\ out' = "complete"
  /\ UNCHANGED <<spec, pc, flight, signal, watcher, session, epoch, faults, code>>

Engine == EngineWrites \/ \E c \in Calls : CallAnswered(c) \/ CallFails(c)

\* SIGINT or SIGTERM: kills a process that has not called NotifyContext yet,
\* and after that cancels ctx, once.
Interrupt ==
  /\ Running /\ ~Cancelled
  /\ IF pc = "read"
     THEN Exit("killed") /\ UNCHANGED signal
     ELSE /\ signal' = IF pc = "return" \/ (pc = "export" /\ flight)
                       THEN "late" ELSE "early"
          /\ UNCHANGED <<pc, code>>
  /\ UNCHANGED <<spec, flight, watcher, session, epoch, out, faults>>

Next == Main \/ Watch \/ Engine \/ Interrupt

\* The Go scheduler runs both goroutines.  Nothing is assumed of the engine:
\* it may never answer, and what it may not do is keep a cut-off call waiting,
\* which is CallRefused, a step of Main.
Fairness == WF_vars(Main) /\ WF_vars(Watch)

Spec == Init /\ [][Next]_vars /\ Fairness

-----------------------------------------------------------------------------
(* Properties *)

\* Every variable of the session stays in its range.
TypeOK ==
  /\ spec \in Specs
  /\ pc \in Calls \cup {"read", "target", "return", "exited"}
  /\ flight \in BOOLEAN
  /\ signal \in {"none", "early", "late"}
  /\ watcher \in {"absent", "waiting", "done"}
  /\ session \in {"none", "open", "closed"}
  /\ epoch \in {"unset", "blank", "commit"}
  /\ out \in {"none", "partial", "complete"}
  /\ faults \in SUBSET Calls
  /\ code \in Codes

\* getCommitTime turns any error into an empty SOURCE_DATE_EPOCH.  An interrupt
\* can be that error, by the watcher's Close; no package stamped that way
\* reaches the host, because the export then runs on the same closed session.
\* Only the engine's own failure of the commit-time query can get there.
StampedUnlessEngineFault ==
  out # "none" /\ epoch = "blank" => "commit" \in faults

\* Exit status 0 tells the caller that the whole output is on the host.
\* Status 1 to 3 tells it that the output directory was not touched; 4 and a
\* kill leave it open.
ExitStatusTellsOutput ==
  /\ code = "0" => out = "complete"
  /\ code \in {"1", "2", "3"} => out = "none"

\* An interrupt that comes before the export is sent leaves the output
\* directory as it was.
InterruptKeepsOutput == signal = "early" => out = "none"

\* The session keeps the promise of BuildOutcome: the export in flight is the
\* command writing, and every other step of main is invisible to the caller.
Exporting == Running /\ (pc = "return" \/ (pc = "export" /\ flight))

Outcome == INSTANCE BuildOutcome WITH exporting <- Exporting

KeepsPromise == Outcome!Spec
=============================================================================
