---------------------------- MODULE TestRun_proofs ----------------------------
(***************************************************************************)
(* Proofs about the test of a package, for any number of files and cases:  *)
(* what a test that passed says of the packages and of the cases.          *)
(***************************************************************************)
EXTENDS TestRun, TLAPS

\* The runner ended well, or has only that left to do.
Succeeds == pc = "exit" \/ (pc = "exited" /\ code = 0)

\* The go test passes only when the runner did.
PassedOnSuccess == go = "passed" => pc = "exited" /\ code = 0

-----------------------------------------------------------------------------
(* Installation *)

\* install.sh ends well only after its commands did.
ScriptSucceeds ==
  /\ script \in {"kill", "init", "ok"} => installed
  /\ script = "ok" => started

\* Past a step is what the step was for.
StepsDone ==
  /\ pc \in {"installer", "install", "bats", "fetch"} \/ Succeeds => left = 0
  /\ pc \in {"bats", "fetch"} \/ Succeeds => script = "ok"

InstalledInv == ScriptSucceeds /\ StepsDone /\ PassedOnSuccess

LEMMA InstalledInit == Init => InstalledInv
  BY DEF Init, InstalledInv, ScriptSucceeds, StepsDone, PassedOnSuccess, Succeeds

LEMMA InstalledStep == InstalledInv /\ [Next]_vars => InstalledInv'
  <1> SUFFICES ASSUME InstalledInv, [Next]_vars PROVE InstalledInv'
    OBVIOUS
  <1> USE DEF InstalledInv, ScriptSucceeds, StepsDone, PassedOnSuccess, Succeeds
  <1>1. CASE UNCHANGED vars
    BY <1>1 DEF vars, remote, copies
  <1>2. CASE Runner
    <2> USE DEF At, Exits, remote, copies
    <2>1. CASE AgentSeen
      BY <2>1 DEF AgentSeen
    <2>2. CASE SshSeen
      BY <2>2 DEF SshSeen
    <2>3. CASE MakeDir
      BY <2>3 DEF MakeDir
    <2>4. CASE CopyFile
      BY <2>4 DEF CopyFile
    <2>5. CASE CopyInstaller
      BY <2>5 DEF CopyInstaller
    <2>6. CASE InstallEnds
      BY <2>6 DEF InstallEnds, StartBats
    <2>7. CASE BatsEnds
      BY <2>7 DEF BatsEnds
    <2>8. CASE Fetch
      BY <2>8 DEF Fetch
    <2>9. CASE ExitEc
      BY <2>9 DEF ExitEc
    <2> QED BY <1>2, <2>1, <2>2, <2>3, <2>4, <2>5, <2>6, <2>7, <2>8, <2>9 DEF Runner
  <1>3. CASE Break
    BY <1>3 DEF Break, BatsBreaks, Exits, At, remote, copies
  <1>4. CASE InstallSh
    <2> USE DEF Does, OnMachine, copies
    <2>1. CASE Repo
      BY <2>1 DEF Repo
    <2>2. CASE AptlySeen
      BY <2>2 DEF AptlySeen
    <2>3. CASE Install
      BY <2>3 DEF Install
    <2>4. CASE KillAptly
      BY <2>4 DEF KillAptly
    <2>5. CASE StartDaemons
      BY <2>5 DEF StartDaemons
    <2> QED BY <1>4, <2>1, <2>2, <2>3, <2>4, <2>5 DEF InstallSh
  <1>5. CASE Bats
    BY <1>5 DEF Bats, BatsReports, Case, OnMachine, remote, copies
  <1>6. CASE Boots \/ AptlyStarts \/ Goes
    BY <1>6 DEF Boots, AptlyStarts, Goes, Elsewhere, remote, copies
  <1>7. CASE Report
    BY <1>7 DEF Report, remote, copies
  <1> QED BY <1>1, <1>2, <1>3, <1>4, <1>5, <1>6, <1>7 DEF Next

\* For any number of files and cases: when the go test passes, every file was
\* copied, and install.sh installed the packages and started the daemons.
THEOREM PassedIsInstalled == Spec => []PassMeansInstalled
  <1>1. InstalledInv => PassMeansInstalled
    BY DEF InstalledInv, ScriptSucceeds, StepsDone, PassedOnSuccess, Succeeds, PassMeansInstalled
  <1> QED BY <1>1, InstalledInit, InstalledStep, PTL DEF Spec

-----------------------------------------------------------------------------
(* The report *)

Results == {"missing", "passed", "failed", "skipped"}

\* A connection that held until bats ended left a report of all cases; that one
\* is fetched, and the go test reads it.
ReportWhole ==
  bats = "ended" /\ ~cut => report = results /\ \A c \in 1 .. Cases : results[c] # "missing"

ReportFetched ==
  /\ pc = "fetch" \/ Succeeds => cut \/ bats = "ended"
  /\ Succeeds => cut \/ fetched = report
  /\ go = "passed" => \A c \in 1 .. Cases : fetched[c] # "failed"

TestedInv ==
  /\ results \in [1 .. Cases -> Results]
  /\ ReportWhole /\ ReportFetched /\ PassedOnSuccess

LEMMA TestedInit == Init => TestedInv
  BY DEF Init, Missing, Results, TestedInv, ReportWhole, ReportFetched, PassedOnSuccess, Succeeds

LEMMA ExitsKeepsTested == ASSUME TestedInv, NEW step, step # "exited", Exits(step) PROVE TestedInv'
  <1> USE DEF TestedInv, Exits, At, runs, copies
  <1>1. /\ UNCHANGED <<results, bats, report, fetched, cut, go>>
        /\ pc' = "exited" /\ code' = 1 /\ pc # "exited"
    OBVIOUS
  <1>2. ReportWhole'
    BY <1>1 DEF ReportWhole
  <1>3. ReportFetched'
    BY <1>1 DEF ReportFetched, PassedOnSuccess, Succeeds
  <1> QED BY <1>1, <1>2, <1>3 DEF PassedOnSuccess

LEMMA TestedStep == TestedInv /\ [Next]_vars => TestedInv'
  <1> SUFFICES ASSUME TestedInv, [Next]_vars PROVE TestedInv'
    OBVIOUS
  <1> USE DEF TestedInv, ReportWhole, ReportFetched, PassedOnSuccess, Succeeds
  <1>1. CASE UNCHANGED vars
    BY <1>1 DEF vars, runs, copies
  <1>2. CASE Runner
    <2> USE DEF At, runs, copies
    <2>1. CASE AgentSeen \/ SshSeen \/ MakeDir \/ CopyInstaller
      BY <2>1 DEF AgentSeen, SshSeen, MakeDir, CopyInstaller
    <2>2. CASE CopyFile
      BY <2>2, ExitsKeepsTested DEF CopyFile
    <2>3. CASE InstallEnds
      BY <2>3, ExitsKeepsTested DEF InstallEnds, StartBats
    <2>4. CASE BatsEnds
      BY <2>4 DEF BatsEnds
    <2>5. CASE Fetch
      BY <2>5 DEF Fetch
    <2>6. CASE ExitEc
      BY <2>6 DEF ExitEc
    <2> QED BY <1>2, <2>1, <2>2, <2>3, <2>4, <2>5, <2>6 DEF Runner
  <1>3. CASE Break
    BY <1>3, ExitsKeepsTested DEF Break, BatsBreaks, At, runs, copies
  <1>4. CASE InstallSh
    BY <1>4 DEF InstallSh, Repo, AptlySeen, Install, KillAptly, StartDaemons, Does, OnMachine,
                runs, copies
  <1>5. ASSUME NEW c \in 1 .. Cases, Case(c) PROVE TestedInv'
    BY <1>5 DEF Case, OnMachine, copies, Results
  <1>6. CASE BatsReports
    BY <1>6 DEF BatsReports, OnMachine, copies
  <1>7. CASE Boots \/ AptlyStarts \/ Goes
    BY <1>7 DEF Boots, AptlyStarts, Goes, Elsewhere, runs, copies
  <1>8. CASE Report
    BY <1>8 DEF Report, runs, copies
  <1> QED BY <1>1, <1>2, <1>3, <1>4, <1>5, <1>6, <1>7, <1>8 DEF Next, Bats

\* For any number of files and cases: when the go test passes, every case passed
\* or was skipped, unless the connection broke under bats or bats lost cases.
THEOREM PassedIsTested == Spec => []PassMeansTested
  <1>1. TestedInv => PassMeansTested
    BY DEF TestedInv, ReportWhole, ReportFetched, PassedOnSuccess, Succeeds, Results,
           PassMeansTested
  <1> QED BY <1>1, TestedInit, TestedStep, PTL DEF Spec
=============================================================================
