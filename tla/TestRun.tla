------------------------------- MODULE TestRun -------------------------------
(***************************************************************************)
(* One test of a package (testPackage of package_test.go): a container     *)
(* runs tests/test_runner.sh, which copies the package to a virtual        *)
(* machine, runs install.sh and the cases of test.sh there over ssh, and   *)
(* fetches the report; the go test then goes by the report.                *)
(*                                                                         *)
(* External: the machine boots, its agent and ssh come up, and it may go   *)
(* away at any moment.  A connection may break; what runs on the machine   *)
(* goes on.  ssh returns when the remote command has ended and nothing it  *)
(* left behind can still write to the connection.  bats begins its report  *)
(* as an empty file and fills it when it ends; that cases were lost only   *)
(* its exit status tells.  An empty report is read as one without cases.   *)
(***************************************************************************)
EXTENDS Integers

CONSTANTS
  Files,     \* how many files are copied
  Cases      \* how many cases test.sh has

ASSUME FilesAssumption == Files \in Nat \ {0}
ASSUME CasesAssumption == Cases \in Nat \ {0}

VARIABLES
  kind,      \* of package, and so which install.sh
  vm,        \* the machine: "booting", "up" or "gone"
  agent,     \* the socket of the ssh agent is there
  pc,        \* where test_runner.sh is
  dir,       \* /var/pkg is there
  left,      \* files still to be copied
  script,    \* where install.sh is
  aptly,     \* the package server it starts: "off", "starting", "serving", "failed"
  installed, \* the packages are installed
  started,   \* and the daemons run
  bats,      \* "no", "running" or "ended"
  results,   \* case -> how it ended, or "missing"
  report,    \* the report on the machine, case -> how it ended
  fetched,   \* the same in the container
  tested,    \* exit status of the command that ran bats
  code,      \* exit status of test_runner.sh
  cut,       \* the connection broke under bats, or cases were lost (history)
  go         \* the go test: "running", "passed" or "failed"

machine == <<vm, agent>>
remote  == <<script, aptly, installed, started>>
runs    == <<bats, results, report>>
copies  == <<dir, left, fetched>>
vars    == <<kind, machine, pc, remote, runs, copies, tested, code, cut, go>>

Missing == [c \in 1 .. Cases |-> "missing"]

-----------------------------------------------------------------------------
(* test_runner.sh *)

\* The runner goes from one step to the next; what follows is left as it is.
At(step, next) == pc = step /\ pc' = next /\ UNCHANGED <<kind, machine, go>>

\* "|| exit", with the status of the command that failed.
Exits(step) == At(step, "exited") /\ code' = 1
               /\ UNCHANGED <<remote, runs, copies, tested, cut>>

\* The two loops at the start have no bound.
AgentSeen == agent /\ At("agent", "ssh") /\ UNCHANGED <<remote, runs, copies, tested, code, cut>>
SshSeen   == vm = "up" /\ At("ssh", "mkdir") /\ UNCHANGED <<remote, runs, copies, tested, code, cut>>

\* No "|| exit" here.
MakeDir ==
  /\ At("mkdir", "copy")
  /\ dir' \in IF vm = "up" THEN BOOLEAN ELSE {FALSE}
  /\ UNCHANGED <<remote, runs, left, fetched, tested, code, cut>>

CopyFile ==
  \/ /\ left > 0 /\ vm = "up" /\ dir
     /\ At("copy", "copy") /\ left' = left - 1
     /\ UNCHANGED <<remote, runs, dir, fetched, tested, code, cut>>
  \/ /\ left = 0 /\ At("copy", "installer")
     /\ UNCHANGED <<remote, runs, copies, tested, code, cut>>
  \/ left > 0 /\ ~(vm = "up" /\ dir) /\ Exits("copy")

CopyInstaller ==
  /\ vm = "up" /\ At("installer", "install")
  /\ script' = "repo"
  /\ UNCHANGED <<aptly, installed, started, runs, copies, tested, code, cut>>

\* ssh returns from install.sh.
Returned == vm = "up" /\ aptly \notin {"starting", "serving"}

\* bats is run, and opens its report.
StartBats ==
  /\ At("install", "bats")
  /\ bats' = "running" /\ report' = Missing
  /\ UNCHANGED <<remote, results, copies, tested, code, cut>>

\* Mutant of InstallEnds: no "|| exit".
InstallEndsAnyway == Returned /\ script \in {"ok", "error"} /\ StartBats

InstallEnds ==
  \/ Returned /\ script = "ok" /\ StartBats
  \/ Returned /\ script = "error" /\ Exits("install")

\* Not "|| exit": whatever bats says, the report is fetched.
BatsEnds ==
  /\ vm = "up" /\ bats = "ended" /\ At("bats", "fetch")
  /\ tested' = IF \A c \in 1 .. Cases : results[c] \in {"passed", "skipped"} THEN 0 ELSE 1
  /\ UNCHANGED <<remote, runs, copies, code, cut>>

BatsBreaks ==
  /\ At("bats", "fetch")
  /\ tested' = 255 /\ cut' = TRUE
  /\ UNCHANGED <<remote, runs, copies, code>>

Fetch ==
  /\ vm = "up" /\ At("fetch", "exit")
  /\ fetched' = report
  /\ UNCHANGED <<remote, runs, dir, left, tested, code, cut>>

\* exit $ec: nothing sets ec, so this is the status of the last command, 0.
ExitEc ==
  /\ At("exit", "exited") /\ code' = 0
  /\ UNCHANGED <<remote, runs, copies, tested, cut>>

Runner == AgentSeen \/ SshSeen \/ MakeDir \/ CopyFile \/ CopyInstaller
            \/ InstallEnds \/ BatsEnds \/ Fetch \/ ExitEc

\* A connection breaks, for no reason or because the machine is gone.
Break == BatsBreaks \/ \E step \in {"copy", "installer", "install", "fetch"} : Exits(step)

-----------------------------------------------------------------------------
(* install.sh, under set -e *)

OnMachine == vm = "up" /\ pc # "exited" /\ UNCHANGED <<kind, machine, pc, copies, tested, code, go>>

\* A command takes the script from one step to the next.
Does(step, next) == OnMachine /\ script = step /\ script' = next /\ UNCHANGED <<runs, cut>>

\* createrepo for rpm; for deb aptly, which serves in the background, and the
\* loop that waits for it, which has no bound either.
Repo ==
  /\ \/ kind = "rpm" /\ Does("repo", "install") /\ UNCHANGED aptly
     \/ kind = "deb" /\ Does("repo", "wait") /\ aptly' = "starting"
     \/ Does("repo", "error") /\ UNCHANGED aptly
  /\ UNCHANGED <<installed, started>>

AptlySeen == aptly = "serving" /\ Does("wait", "install") /\ UNCHANGED <<aptly, installed, started>>

Install ==
  /\ \/ Does("install", "kill") /\ installed' = TRUE
     \/ Does("install", "error") /\ UNCHANGED installed
  /\ UNCHANGED <<aptly, started>>

\* Mutant of KillAptly: the server is left to itself.
KillAptlyNot == Does("kill", "init") /\ UNCHANGED <<aptly, installed, started>>

\* pkill -9 aptly (for rpm there is none).
KillAptly == Does("kill", "init") /\ aptly' = "off" /\ UNCHANGED <<installed, started>>

\* systemctl start; the tests of $? that follow are never reached.
StartDaemons ==
  /\ \/ Does("init", "ok") /\ started' = TRUE
     \/ Does("init", "error") /\ UNCHANGED started
  /\ UNCHANGED <<aptly, installed>>

InstallSh == Repo \/ AptlySeen \/ Install \/ KillAptly \/ StartDaemons

-----------------------------------------------------------------------------
(* bats *)

Case(c) ==
  /\ OnMachine /\ bats = "running" /\ results[c] = "missing"
  /\ \A d \in 1 .. c - 1 : results[d] # "missing"
  /\ results' \in {[results EXCEPT ![c] = r] : r \in {"passed", "failed", "skipped"}}
  /\ UNCHANGED <<remote, bats, report, cut>>

\* The last case is done, or the rest is lost.
BatsReports ==
  /\ OnMachine /\ bats = "running"
  /\ bats' = "ended" /\ report' = results
  /\ cut' = (cut \/ \E c \in 1 .. Cases : results[c] = "missing")
  /\ UNCHANGED <<remote, results>>

Bats == BatsReports \/ \E c \in 1 .. Cases : Case(c)

-----------------------------------------------------------------------------
(* The machine, and the go test *)

Elsewhere == pc # "exited" /\ UNCHANGED <<kind, pc, runs, copies, tested, code, cut, go>>

Boots ==
  /\ Elsewhere /\ UNCHANGED remote
  /\ \/ ~agent /\ agent' = TRUE /\ UNCHANGED vm
     \/ vm = "booting" /\ vm' = "up" /\ UNCHANGED agent

AptlyStarts ==
  /\ Elsewhere /\ aptly = "starting" /\ vm = "up"
  /\ aptly' \in {"serving", "failed"}
  /\ UNCHANGED <<machine, script, installed, started>>

Goes == Elsewhere /\ vm' = "gone" /\ UNCHANGED <<agent, remote>>

\* Mutant of Report: only the exit status counts.
ReportIgnored ==
  /\ pc = "exited" /\ go = "running"
  /\ go' = IF code = 0 THEN "passed" ELSE "failed"
  /\ UNCHANGED <<kind, machine, pc, remote, runs, copies, tested, code, cut>>

\* The report cannot be read if the runner failed; else each of its cases is a
\* subtest.
Report ==
  /\ pc = "exited" /\ go = "running"
  /\ go' = IF code = 0 /\ \A c \in 1 .. Cases : fetched[c] # "failed"
           THEN "passed" ELSE "failed"
  /\ UNCHANGED <<kind, machine, pc, remote, runs, copies, tested, code, cut>>

Init ==
  /\ kind \in {"deb", "rpm"}
  /\ vm = "booting" /\ agent = FALSE
  /\ pc = "agent" /\ dir = FALSE /\ left = Files
  /\ script = "no" /\ aptly = "off" /\ installed = FALSE /\ started = FALSE
  /\ bats = "no" /\ results = Missing /\ report = Missing /\ fetched = Missing
  /\ tested = 0 /\ code = 0 /\ cut = FALSE /\ go = "running"

Next == Runner \/ Break \/ InstallSh \/ Bats \/ Boots \/ AptlyStarts \/ Goes \/ Report

\* Commands end, and ssh notices that the machine is gone.  Nothing says that
\* the machine comes up, or that the server starts.
Spec ==
  /\ Init /\ [][Next]_vars
  /\ WF_vars(Runner) /\ WF_vars(InstallSh) /\ WF_vars(Report)
  /\ WF_vars(vm = "gone" /\ Break)
  /\ WF_vars(BatsReports) /\ \A c \in 1 .. Cases : WF_vars(Case(c))

-----------------------------------------------------------------------------
(* Properties *)

\* A test passes only if every file was copied, the packages were installed and
\* the daemons started, wherever connections broke.
PassMeansInstalled == go = "passed" => left = 0 /\ installed /\ started

\* A test passes only if every case did or was skipped, unless the connection
\* broke under bats, or bats lost cases: then the report is believed as it is.
PassMeansTested ==
  go = "passed" => cut \/ \A c \in 1 .. Cases : results[c] \in {"passed", "skipped"}

\* The comment of test_runner.sh: the exit code of the test run gets picked up by
\* the go test.
ExitCodePickedUp == go = "passed" => tested = 0

\* What a run may wait for without end: the machine, its agent, the server, and
\* after a failed installation that server to go away, for it is killed only
\* after a successful one.
Waits ==
  \/ pc = "agent" /\ ~agent
  \/ pc = "ssh" /\ vm # "up"
  \/ script = "wait" /\ aptly # "serving"
  \/ script = "error" /\ aptly \in {"starting", "serving"}

\* Every test ends, or waits for one of these for ever.
RunEnds == <>(go # "running") \/ <>[]Waits
=============================================================================
