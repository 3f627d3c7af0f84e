# moby-packaging in TLA+

This directory holds a formal model of the programs in this repository: the
build command that turns a project and a distribution into a package, what it
puts into the package, and what the package's own scripts do on the host where
it is installed. TLC checks the models on small instances; TLAPS proves the
most important results for every instance.

## 1. The system

`make.go` reads a build spec (project, distribution, architecture, commit),
connects to a dagger engine, and describes a build: a base image for the
distribution (`targets/`), the sources of the project (`targets/pkg.go`), the
project's makefile, and a packager (`pkg/archive`) that stages files, writes
maintainer scripts, and runs fpm (deb, rpm) or zip (win). dagger is lazy: almost
every method only extends the description, and the engine does the work when
`main` waits for the export of the result. The package then lives on a host,
where dpkg or rpm calls its scripts (`moby-*/postinstall`) and these drive
systemd.

| Component | State | Operations | Interacts by | Hard behaviour | What makes it correct |
|---|---|---|---|---|---|
| Build session (`make.go`) | context, client session, output directory, exit status | read spec, connect, describe, export, watcher goroutine | dagger calls, signals | interrupts between and inside calls, calls without the context, a swallowed error | exit status tells the truth, no mis-stamped output, an interrupt ends the build |
| Targets and base images (`targets/`) | the immutable `Target` | one constructor per distribution | dagger calls | failures, unknown names | see the build session |
| Source fetching (`targets/pkg.go`) | none | git trees, hcsshim for Windows | dagger calls | a panic on failure, no context | see the build session |
| Platforms and names (`make.go`, `WithPlatformEnvs`, `debDistroMap`, `rpmArchMap`, `hack/cross`) | fields of `Target`, environment variables, `bundles/` | default, split, map, name, export | environment, file names | a field lost by `update`, inconsistent spellings, names that do not tell two builds apart | no panic, one architecture throughout, no package replaced by another |
| apt, yum, tdnf (`pkg/apt`, `pkg/tdnf`, `targets/yum.go`) | two locked cache volumes, a stamp | install | shared volumes | lock order, stale stamps, sharing between targets | mutual exclusion, no deadlock, fresh lists |
| Package staging (`pkg/archive/file.go`, `moveStaticFiles`) | the package root | copy, compress, make directory | files under `/build` | order dependence of `cp -r`, silently missing sources | the layout is the declared one, nothing is missing |
| Packagers (`deb.go`, `rpm.go`, `win.go`, `fpm.go`) | none | stage, control file, scripts, fpm or zip | containers | partial failure | no package from an incomplete build |
| Script assembly (`installScript`) | files `postinst`, `prerm`, `postrm`, `postup` | wrap and write | names of files and fpm flags | two scripts in one file | no script is lost |
| Archive definitions (`moby-*/mapping.go`) | tables | none | the package manager of the host | conflicting paths and names, dependencies that differ between deb and rpm | no interference, no conflict, what is installed can run |
| Deb maintainer scripts | d-s-h state, masks, links, units | postinst, prerm, postrm under every dpkg call | dpkg, d-s-h, systemd | kills, reboots, failed upgrades, an administrator in between | the policy of section 4.3 |
| Rpm maintainer scripts | systemd state | post, preun, upgrade | rpm, systemd-update-helper | kills that nothing repeats, hosts without the helper | the same policy, as far as rpm allows |
| systemd units (`moby-*/systemd`) | service and socket | start, stop, activate | sockets, PartOf, Requires, a group | units of several packages that require one another | what is configured can start, nothing runs from a removed package |
| Makefiles, patches | files under `/build` | compile | | none modelled | input of the staging model |
| Test harness (`package_test.go`, `tests`, `testutil`) | virtual machine, ssh, package server, report | boot, copy, install, test, fetch | polling, ssh, exit statuses | loops without bound, broken connections, lost exit codes | a test that passes has tested what it says |
| CI, `moby-engine/hack`, helper scripts | | | | | declarative, third-party, or not called |

`PROJECT.json` lists the same components with their status, the hazards of the
code at their lines, and the lines each definition translates.

## 2. Modules

| Module | Content |
|---|---|
| `BuildOutcome` | abstract: what the build command promises its caller |
| `BuildSession` | one run of the build command: main, the watcher goroutine, the engine; implements `BuildOutcome` |
| `Bundles` | platforms, architectures and file names of one build after another |
| `AptCache` | containers that share apt's cache volumes |
| `Archives` | the eight archives: entries, units, binaries |
| `FileStaging` | a packager filling the package root, EXTENDS `Archives` |
| `InstallScripts` | how the scripts of an archive get into a package, and when they run |
| `PackageSet` | the eight packages and those of other vendors on one host, with their units |
| `ServicePolicy` | abstract: what a package may do to one of its units |
| `DebLifecycle` | one deb on a host: dpkg, its scripts, systemd, an administrator; implements `ServicePolicy` |
| `RpmLifecycle` | one rpm on a host, likewise; implements `ServicePolicy` |
| `TestRun` | one test of a package: runner, virtual machine, `install.sh`, bats, the go test |
| `MC...` | the instances TLC checks (`BuildSession` and `TestRun` need none) |
| `..._proofs` | the proofs about the module of that name; `Targets_proofs` has those about `AptCache` and `Bundles` |

Operators marked "Mutant of" are wrong variants of the definition below them.
Nothing uses them; each shows, when it takes the place of the definition, that
some property notices.

## 3. How the models correspond to the code

### 3.1 BuildSession

`main` makes seven kinds of call that wait for the engine, in this order:
connect, the default platform when the spec has no architecture (`arch`), the
default platform inside the target's constructor (`platform`), the `PATH` of
the base image in `InstallGo` (`path`), the hcsshim commit for Windows builds
of containerd (`shim`), the commit time (`commit`), and the export. `pc` is the
call main is at, `flight` says that the engine has it. `shim` and `commit` are
made with `context.TODO()` (`CtxBound`): an interrupt does not reach them except
through `client.Close()` of the watcher goroutine (`Watch`). A failed call ends
the process with the status of `FailCode` (a panic exits with 2), except the
commit time, whose error becomes an empty `SOURCE_DATE_EPOCH`.

Abstracted: what is built, output text, and the number of files exported
(`out` is none, partial, complete). SIGINT and SIGTERM are one event, once: a
second signal changes nothing, since `NotifyContext` still holds the handler.

### 3.2 Archives and FileStaging

An archive entry has one of four shapes (`MakesDir`, `GzipsTree`, `GzipsFile`,
`Copies`), the branches of `MoveStaticFile`. A path is a sequence of names. The
state is what the package root holds: directories, and files with the built file
they come from. `Target` is the rule of `cp -r` that copies *into* a directory
that already exists; `Clash` is every way in which mkdir, install, gzip and cp
fail because a file is where a directory is needed. `Entries` is the loop of
each packager: deb leaves systemd units to fpm, rpm appends them to the files,
win copies binaries only. Then `WriteControl` (deb: dpkg-shlibdeps reads every
binary) and `Pack`.

Abstracted: contents, modes, links (the code follows them), compression formats,
and empty directories under `/build`.

### 3.3 DebLifecycle

The scripts are sequences of commands (`SetUp`, `Postinst`, `Prerm`, `Postrm`)
run one per step under the wrappers of `installScript` (`Runs`). The
three packages that ship units have the same scripts up to the names of the
units, which are the constant `Units`. Every command ends in `|| true`, so none
fails its script; a script can be killed before any of its commands.

dpkg, deb-systemd-helper (d-s-h), deb-systemd-invoke and systemd are not in the
repository. They are modelled from their documented behaviour and from what the
scripts' comments say of them: masks remember who made them; was-enabled is true
when there is no state file; purge forgets; systemd starts a unit under the unit
file it has read, until daemon-reload. The administrator can enable, disable,
start and stop units at any moment, also between two commands of a script; he
masks and unmasks between dpkg runs. A start may fail. The host may reboot at any
step, after which dpkg has the status it had recorded.

History variables: `why` (who last started or stopped a unit) and `choice` (what
the administrator last decided) take no part in any guard. `choice` is
"racing", and not "off", when he disables a unit of which postinst has asked
was-enabled and which it has not enabled yet (it is in `was`): the enable that
follows undoes what he did. A disable at any other moment, during postinst too, is
"off". `why` is "late" when he starts a unit during prerm that prerm has
masked; a start before the mask is an ordinary one.

Left out: the AppArmor profile of moby-engine, dependencies between units,
removal of a package that was unpacked and never configured, and what fpm itself
adds for its `--deb-systemd*` flags. The last is a real limit: fpm is installed
unpinned at build time, and the results hold for the scripts as this repository
writes them.

The docker group is in `PackageSet`.

### 3.4 BuildOutcome and ServicePolicy

Two abstract specifications. `BuildOutcome` has four variables that a caller of
the command can see, and says that the first write is the point of no return for
an interrupt, that the exit status tells the state of the output, and that an
interrupted command ends. `BuildSession` maps `exporting` to "an export is in
flight that the engine accepted" (`Exporting`).

`ServicePolicy` is about one unit: it is enabled by its package only if the
administrator did not switch it off, started by it only if it is enabled or ran
already, and what he decided is forgotten only when the package goes. In
`DebLifecycle` the package "goes" with the purge, in `RpmLifecycle` with %preun
of the erasure: rpm has no state of its own to keep.

### 3.5 AptCache

An exec of a container on which `apt.Install` was called takes its two volumes
one by one (`TakeFirst`, `TakeSecond`, in the order of the two
`WithMountedCache`), then runs the script of `install.go` command by command, or,
if it is a later exec of the same container, whatever it runs. `Needs` is what
dagger's laziness makes of the order in `make.go` and `fpm.go`. The stamp
`moby/updated` is in one volume and the lists are in the other; `fresh` holds
each while it is less than an hour old. `apt-get update` exits 0 when some list
could not be fetched and does not run its hook then.

Abstracted: contents of lists and of packages. Assumed: the engine takes locked
mounts in the order in which they were added, which dagger does not document
as a promise; if it took them in an arbitrary order `EveryExecEnds` would fail,
as the mutant `FirstMixed` shows.

### 3.6 Bundles

The steps of `do`: readBuildSpec, the default architecture, the constructor
(`GetTarget`), the two methods every constructor calls in the same order
(`After`), `Make` with the packager's names, `Export`. An architecture is the
tuple of its parts, so that "arm/v7" is `<<"arm", "v7">>` and `SplitN` is what
`Split` says; a further slash is an element of its own, so that `NoSlashes`, by
which the packager of debs names what it makes, takes "arm/v7" and "armv7" to
the same name. `Specs` is any set of build specs with all the fields of `Spec`,
repository and commit included, which no file name has; `Defaults` any default
platforms with an operating system and an architecture. An unknown distribution
panics.

Left out: what is built; failures (they are in `BuildSession`).

### 3.7 InstallScripts

One action per turn of the loop in `withInstallScripts`; `FileOf` and `Guard`
are the switch of the two `installScript` functions. Then events of the
package's life, at which dpkg and rpm run one file with one argument. `Due` says
when a script ought to run according to its `PkgAction`.

### 3.8 PackageSet

The tables of the eight `mapping.go` files, restricted to names of this
repository and of other vendors' container packages. apt and rpm are external: a
request brings what it needs (with apt, or what is recommended as well), removes
or refuses what conflicts, and configures dependencies first; a cycle
(moby-containerd and moby-runc, as every rpm has the same list) in any order. No
chain of dependencies, in the tables or between packages of other vendors, is
longer than two, so `Closure` and `Keep` go two rounds; the proofs show that two
are enough. A host begins with packages of other vendors that have what they
need (`ForeignAssumption`). `Configure` and `Remove` do what the scripts do to
the units and the group; systemd's `Requires`, `PartOf` and the group of the
socket decide what starts and stops. On an rpm host without
systemd-update-helper (`host.helper`; centos7 and rhel8) the scripts start units
but stop none, as in `RpmLifecycle`.

Left out: dependencies on packages of the distribution and `rpmPkgBlacklist`,
which drops some of them (which names a distribution has is nowhere else in the
repository, so there is nothing to compare the list with), version bounds (all
hold for the versions shipped together), `Replaces` beyond what `Conflicts`
says, `Suggests`, upgrades (in the life cycles).

### 3.9 RpmLifecycle

Like `DebLifecycle`, with rpm's order: new files, %post (1, or 2 on an upgrade),
%preun of the old version (1), and systemd's trigger at the end. fpm puts the
script of `--after-upgrade` in the place of the other on upgrades. A killed
%post is only warned of, a killed %preun keeps the package. Presets may enable
or disable. Hosts with systemd before 249 (centos7, rhel8) have no
systemd-update-helper, and the scripts then only enable and start.

Left out: masks, the docker group (in `PackageSet`), a kill of rpm itself.

### 3.10 TestRun

`pc` walks through `test_runner.sh`, `script` through `install.sh` (deb or rpm),
`bats` through the cases of `test.sh`. A connection may break at every command
that uses one, and the machine may go away; what the machine runs goes on
without the connection. ssh returns only when nothing on the machine can still
write to it, so the package server that `install.sh` starts in the background
keeps it until it is killed. `exit $ec` is an exit with the status of the last
command, as nothing sets `ec`.

## 4. Runs

| Run | Instance | Checks | States |
|---|---|---|---|
| `build_session` | no constants | 4 invariants, the refinement of `BuildOutcome` | about 1 000 |
| `bundles` | 106 specs, 2 engines, 2 builds | 3 invariants | about 79 000 |
| `apt_cache` | 5 execs, 2 pairs of volumes | 3 invariants, 1 liveness property | about 59 000 |
| `file_staging` | shipped and sample archives | 5 invariants | about 2 300 |
| `install_scripts` | shipped packages, all lists of up to 3 scripts | 1 invariant | about 1 600 |
| `package_set` | 3 kinds of host, each with 3 or 4 sets of other packages | 2 invariants, 2 action properties | about 31 000 |
| `deb_lifecycle` | 1 unit, 2 versions, 4 kinds of host | 7 invariants, 1 action property, the refinement of `ServicePolicy` | about 47 000 |
| `deb_two_units` | 2 units, 1 version, a complete host | 1 invariant | about 640 000 |
| `rpm_lifecycle` | 2 versions, 2 kinds of host | 4 invariants, the refinement of `ServicePolicy` | about 24 000 |
| `test_run` | 2 files, 2 cases | 2 invariants, 1 liveness property | about 1 400 |
| `package_set_init`, `test_run_report` | as above, or smaller | one property each, violated | |

### 4.1 build_session

The model is finite as it stands and the run is complete. `StampedUnlessEngineFault`
is the point worth reading: the swallowed error of `getCommitTime` *can* be
caused by an interrupt, and is harmless only because the export that follows is
made with the cancelled context. `InterruptKeepsOutput` and
`ExitStatusTellsOutput` say what a caller may conclude. `KeepsPromise` says that
the session implements `BuildOutcome`, which is also that an interrupted build
ends. That part needs fairness of the two goroutines, which the Go scheduler
gives, and nothing of the engine, which may never answer; the call made without
the context ends because the watcher closes the client under it.

The process ends, so the run does not check for deadlock.

### 4.2 file_staging

The instance has each of the eight archives as deb, rpm and win, from a complete
build and from each build that lacks one file (directory sources get a sample of
content), and archives of two and three entries chosen to copy and compress into
the same places, so that nesting, overwriting and clashes happen.
`LayoutAsDeclared` says that the order of entries does not matter as long as none
interferes with an earlier one, and `ShippedDoNotInterfere` that no shipped
archive has such a pair; adding an entry that does is an easy mistake.
`NothingMissing` names the one hole: a compressed tree (the man pages of
moby-runc) can be missing without failing the build. `DebShipsBinaries` compares
two lists that mapping.go keeps apart: `Binaries`, which dpkg-shlibdeps reads under
/build, and `Files`, by which they get into the package, some by name and
containerd's with the directory that holds them. It says that a finished deb has
each of its binaries in it, as built; without the control step a copied directory
would hide a missing one, without the entry the control step would not notice. It
holds for deb only, rpm has no such step. The instance includes the empty archive
that `Target.Packager` returns for a project it does not know, which deb refuses and
rpm would pack. `NoFileConflict` compares the eight packages, except for what
containerd and runc put into the tree of manual pages. It depends on what
containerd's own makefile leaves in `bin`, which mapping.go copies whole, and on
its manual pages being a directory; `ContainerdMade` names that assumption (none
of the names the other packages install in /usr/bin), and the containerd builds
of the instance satisfy it.

A build stops when it is done or has failed: deadlock is not checked.

### 4.3 deb_lifecycle and deb_two_units

`NoStaleMask`, `EnabledByDefault`, `EnabledMeansUp` and `UpgradeIsComplete` say
what holds of an installed package whatever came before; `DisableSurvives` that
a unit the administrator disabled stays disabled, during a postinst too, unless
he did so between was-enabled and enable of that unit, where the code loses it;
`RemovedNotRunning` and `PurgeLeavesNothing` what removal and purge leave. Two
versions are enough: no step compares more than the version on disk, the one a
unit runs and the one dpkg passes on. Two units are the most a package has;
their interplay is the order of their blocks in postinst. The one-unit run
covers hosts without systemd as PID 1 and without d-s-h. Deadlock is checked:
the host can always do something.

A mask made by the administrator is outside `UpgradeIsComplete` (systemd refuses
the restart), and a unit he starts after prerm has masked it is outside
`RemovedNotRunning`: systemd has not reloaded since and does not know of the mask
yet. One he starts between two commands before the mask is inside: it is the stop
after the mask that gets it, as the mutant with the two swapped shows.

### 4.4 build_session and deb_lifecycle as implementations

`KeepsPromise` of `BuildSession` includes the fairness of `BuildOutcome`.
`KeepsPolicy` of `DebLifecycle` is the only property
that notices a needless start: on abort-upgrade the postinst restarts a unit
whose package did not change, which the policy allows only where the unit ran
or is enabled.

### 4.5 apt_cache

Five execs are a bullseye build (base image, make, packaging), the fpm container
that its packaging needs, and a jammy build: the smallest set in which two execs
of different containers want the same pair while a third waits for both.
`OneAtATime` and `EveryExecEnds` together say that the locks exclude and do not
deadlock. `EveryExecEnds` assumes that each exec gets on when it can (weak
fairness of its steps): commands end, and a free volume that someone waits for
is taken. No more is needed, as every exec takes a volume once.
`InstallsFromFreshLists` holds because of the second, unconditional `apt-get
update` that a comment calls a workaround; the mutant that trusts the stamp
shows why: the volume of the lists can be pruned while the stamp stays. It says
that the lists are less than an hour old and all there, not that the exec itself
fetched them; one whose own last update was incomplete is exempt.

Deadlock is checked: volumes can be pruned and hours go by when all execs have ended.

### 4.6 bundles

The specs differ in one field or several: five distributions (one of each kind,
one more deb, one unknown), no architecture, amd64, arm64, "arm/v7" and "armv7", two
versions, two revisions; and for one distribution of each kind another commit, from
the same repository and from a fork. Two builds are enough: each property is about
one build or two. `NothingLost` says what a file name keeps apart, and names all
that it does not (`Alike`): repository and commit are in no name (the README of the
repository has the name from the tag, and the source from the commit), a zip has
neither architecture nor revision, a deb drops the slashes of its architecture, and
two rpms for architectures that `rpmArchMap` lacks have the same name. The caller
must give builds that differ only in these a tag or a directory of their own.

That linux/arm/v7 becomes `TARGETARCH=arm/v7` without a variant is in the model
(`Split`); no script that a makefile calls reads either variable for it.

### 4.7 install_scripts

With lists of three scripts every pair of actions meets in every order, also next
to a third script. `RunWhenDue` says that a script runs when it is due and at no
other moment, the only exception being one whose file a later script of its
archive takes; no shipped package has one.

### 4.8 package_set

One deb host, an rpm host with systemd-update-helper and one without; empty or
with packages of other vendors, among them one that only uses containerd.
Packages are requested, configured and removed in any order, and units started,
stopped or crash in between. `NeedsDoNotConflict` says that a request brings no
two packages that conflict by any name they provide, `BystandersStay` is about
conflicts with what is there already and about `Provides`, `EngineComesUp` and
`RunningIsInstalled` about units and packages together: the units that
docker.service requires are there, and none runs from a package that was
removed. The rpm of the shim, which has no scripts, and rpm hosts without the
helper, where no unit is stopped, are exempt from the last. systemd starts a
unit whose package is unpacked, configured or not, so `EngineComesUp` is not
about the order of configuration. It needs the group, which a failed `groupadd`
leaves out without failing the engine's script.

`package_set_init` is violated: the rpm of moby-engine does not depend on
moby-tini, so `docker-init` is not there after the packages that `install.sh` of
mariner2 and of centos8 installs (that of centos7 installs moby-tini by name), and a
test looks for it.

### 4.9 rpm_lifecycle

`CameInWhole` is the limit of what rpm allows: a %post that was killed is never
repeated, not even by an upgrade. `UpgradeIsComplete` and `RemovedNotRunning`
hold only with systemd-update-helper. Two versions, as in 4.3.

### 4.10 test_run

`PassMeansInstalled` and `PassMeansTested` say what a passed test is worth: the
packages were copied, installed and started, and every case passed or was
skipped, unless the connection broke under bats or bats lost cases. `RunEnds`
says that a run ends or waits for ever for one of the things in `Waits`; the
last of these is that a failed installation leaves the package server running,
which nobody then stops. Fairness: commands end, and ssh notices that the machine
is gone; not that the machine boots or the server starts. Two files and two cases
let a run fail between them. The run ends, so deadlock is not checked.

`test_run_report` is violated: nothing stores the exit code that the comment of
`test_runner.sh` says is picked up, and a test whose cases were cut short passes.

## 5. Proofs

`BuildSession_proofs`: `Invariant` is inductive. It ties `pc` to the session, the
watcher and the output (only an export in flight writes; after `commit` a
blank stamp means either an engine fault, or a cancelled context or closed
session, which refuses the export). `TypeCorrect`, `BlankStampIsEngineFault`,
`ExitStatusIsTruthful` and `EarlyInterruptIsClean` follow from it.

`FileStaging_proofs`: for any set of jobs that satisfies `JobsAssumption`. The
inductive invariant says that the entries before `next` found their sources and
that, unless two of them interfere, the root holds exactly what they promise.
`PackageLayout` and `NoMissingSource` follow. `ShippedAreApart` then goes
through the eight archives: two entries interfere only if some path is at or
below both destinations (`InterferenceMeets`), and in every archive the names of
the destinations leave no such path (`Alone`), whatever the copied directories
hold. `ShippedLayout` puts the two together: a finished package of this
repository has exactly the declared layout. `DebBinariesShipped` rests on that
layout and on `BinariesAreShipped`, which finds for each binary of each archive
the entry that copies it or the directory it is in; that the binary was built,
and so is among what the entry stages, is what the control step has seen.
`PackagesDoNotConflict` reads the owner of a path off its names (`OwnerOf`). A
staged file lies at or below the destination of its entry, so its owner is the
package itself, except below /usr/share/man, which two packages share as a
directory and none ships as a file (`FileOwner`); a destination that an archive
names is its own or that directory (`DestOwner`). Here alone something must be
assumed of a makefile, `ContainerdMade`.

`DebLifecycle_proofs`: for any sequence of units, set of versions and kinds of
host. `TypeCorrect` goes action by action; `BodyType` gives the commands of a
call, without which the bound on `step` cannot be kept. `DisableIsKept` rests on
`OffIsRemembered`: `DisableSurvives` alone is not inductive, since the next
`enable` depends on what was-enabled answered earlier (`was`) and on d-s-h
having a record of the unit; the strengthening says that a unit switched off is
recorded and not in `was`. `Enable` takes its unit out of `was`, so that the window
in which a disable is lost ends there.

`ImplementsOutcome` of `BuildSession_proofs`: every step is a step of
`BuildOutcome` or leaves its variables alone (its safety part; the fairness is
TLC's).

`Targets_proofs`, about `AptCache`: for any execs, needs and assignment of
volumes in which no volume is both a cache and a lib volume. The inductive
invariant says that an exec at work holds both its volumes and one that is
half-way the first of them; mutual exclusion follows, and freshness rests on it:
nobody can prune or refresh half of a pair that is held. About `Bundles`, for
any specs, default platforms and number of builds: the invariant `BundlesInv`
says at each step of a build what the target still has of the spec and of the
engine. The build platform is there until `WithPlatformEnvs` asks for it
(`OnlyUnknownPanics`); the architecture of the image is that of the spec once
the default is filled in (`ArchitectureIsTold`); and `SameName`, that two builds
with one file name are the same or `Alike`, gives `BundlesAreKept`; it goes
field by field through the three forms of name, with the slashes of a deb gone
on both sides.

`InstallScripts_proofs`: for any set of archives that satisfies
`ArchivesAssumption`. While the files are assembled,
`Assembled` says that a file holds the last script so far that belongs in it and
that fpm is given exactly those files; once the package lives, a script that was not
replaced is the one of its file. `ScriptsRunWhenDue` then compares what the
wrapper in the file lets through with `Due`; `ShippedApart` says that no shipped
archive has two scripts of one file.

`DebLifecycle_proofs` goes on with the units. `Present` ties the files to dpkg's
status and to the scripts that are at work, so that a unit is set up or started
only while the package is here and forgotten only after; with `OffIsRemembered`
that makes every step one of `ServicePolicy` (`ScriptsKeepPolicy`, the whole
refinement). `StoppedWhenRemoved` (a prerm that is past its second command has
masked the units, one past its third has stopped them, and what was started in
between is "late") gives `NothingRunsRemoved`, `NothingLeft` (what postrm has
done after each of its commands, and that links are recorded) gives
`PurgeIsComplete`.

Its last part needs the position of each command in the
script: the commands of unit k are at 3k-2 to 3k (`SetUpOf`, `PostinstRuns`).
Each invariant says how far postinst has come: `Unmasked` that the units before
`step` are unmasked, `EnabledUnlessOff` that they are recorded and that one
whose links are gone was disabled by the administrator, `UpUnlessReason` and
`UpToDate` what runs once the last command is done. `InstalledBy` says how dpkg
comes to call a package installed, which is where a killed prerm and the
removal taken back come in. `MaskIsLifted`, `EnabledFromTheStart`,
`EnabledAreUp` and `UpgradesAreComplete` follow.

`RpmLifecycle_proofs`, for any number of versions, proves all five properties of
the run from one invariant in four parts, by the scriptlet at work: `Present`,
`Enabling`, `Starting` and `Running`. The last two know of the window between the
mark of an upgrade and systemd's trigger.

`PackageSet_proofs`, for any kinds of host (with or without the helper) and any
packages of other vendors that satisfy `ForeignAssumption`. The inductive
`Invariant` adds to the two invariants of the run that every installed package
has what it needs (`Consistent`), requests, replacements and removals included.
It rests on lemmas about the tables: no two packages that one request comes to
conflict (`NoConflict`); `Closure` is closed (`ClosureIsClosed`, by `Shallow`);
what a request replaces is provided by it again (`RivalsReplaced`), which is why
nothing that stays loses a dependency (`KeptAreSatisfied`).
`RequestsAreGranted`, `RequestsKeepOthers`, `NothingRunsRemoved` and
`ConfiguredEngineRuns` follow; the last needs `Consistent`, by which the owner
of each unit that docker.service requires is installed.

`TestRun_proofs`, for any number of files and cases. `InstalledInv` follows the
exit statuses from the commands on the machine to the go test
(`PassedIsInstalled`); for `PassedIsTested` a report must be traced: complete
when bats ends under a connection that held (`ReportWhole`), and fetched only
then (`ReportFetched`).

Only model-checked: liveness (`EveryExecEnds`, `RunEnds`, and the fairness in
`KeepsPromise` of `BuildSession`), which is out of the prover's reach.

## 6. Plan

Everything in section 2 is modelled, and every safety property of section 4 is
proved. What remains: the other cross-compilation scripts of `hack/cross`, if a
makefile comes to call them.

## 7. Not modelled

- Compilation: makefiles, patches (`applyPatchesCommand`), the lists of build
  packages in `target.go`, and the source trees. Which files exist afterwards is
  the input of `FileStaging`.
- `rpmPkgBlacklist` and the dependencies on packages of the distributions: the model
  would have to take the blacklist's word for what it is checked against.
- What fpm generates for its `--deb-systemd*` flags, as fpm is not pinned.
- `testutil/qemu.go` and the preparation of the machine's image; `main_test.go`
  and the other go tests, which are assertions about output.
- `Restart=always` and the start limit of docker.service: systemd's own.
- CI workflows (declarative), `moby-engine/hack` (a copy of moby's scripts),
  `hack/` helper scripts (not called by the build).
