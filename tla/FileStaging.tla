----------------------------- MODULE FileStaging -----------------------------
(***************************************************************************)
(* A packager fills the package root from what make left under /build: one *)
(* archive entry after the other (File.MoveStaticFile and the packagers'   *)
(* moveStaticFiles), then the control file (deb), then the package itself. *)
(* Every entry is a shell script run with -e in the build container; its   *)
(* failure fails the build.                                                *)
(*                                                                         *)
(* The package root is a set of directories and a set of files, a file     *)
(* being known by where it is, which built file it was made from, and      *)
(* whether it went through gzip.  Symbolic links are followed by the code  *)
(* and do not appear here; an empty directory under /build does not either.*)
(***************************************************************************)
EXTENDS Archives, SequencesExt

CONSTANT Jobs   \* [kind, archive, built]: what is packaged, and the files make left

Path  == Seq(STRING)
Entry == [source: Path, dest: Path \ {<<>>}, isDir: BOOLEAN, compress: BOOLEAN]
Kinds == {"deb", "rpm", "win"}

\* No entry is the package root itself, every built file and every Windows binary
\* has a name, and a built file is no directory: nothing lies below it.
ASSUME JobsAssumption ==
  \A j \in Jobs :
    /\ j.kind \in Kinds
    /\ j.archive.files \in Seq(Entry)
    /\ j.archive.units \in Seq(Entry)
    /\ j.archive.winBinaries \in Seq(Path \ {<<>>})
    /\ j.built \subseteq Path \ {<<>>}
    /\ \A p, q \in j.built : ~IsStrictPrefix(p, q)

VARIABLES
  job,     \* the build at hand; never changes
  next,    \* index of the next entry to stage
  dirs,    \* directories of the package root
  files,   \* files of the package root
  result   \* "staging", then "control" (deb), "packing", and "done" or "failed"

vars == <<job, next, dirs, files, result>>

\* p as a directory path: the directories one must be in to be at p.
Ancestors(p) == {SubSeq(p, 1, n) : n \in 0 .. Len(p) - 1}
Chain(p)     == Ancestors(p) \cup {p}

Staged(path, from, gz) == [path |-> path, from |-> from, gz |-> gz]
Paths(fs) == {f.path : f \in fs}

-----------------------------------------------------------------------------
(* What is under /build *)

IsBuiltFile(s) == s \in job.built

\* The files below s, relative to it, and the directories (s itself included).
FilesBelow(s) == {SubSeq(p, Len(s) + 1, Len(p)) : p \in {q \in job.built : IsStrictPrefix(s, q)}}
DirsBelow(s)  == UNION {Ancestors(r) : r \in FilesBelow(s)}

-----------------------------------------------------------------------------
(* What one archive entry does *)

MakesDir(f)  == f.isDir /\ f.source = NoSource
GzipsTree(f) == f.isDir /\ f.source # NoSource /\ f.compress
GzipsFile(f) == ~f.isDir /\ f.compress
Copies(f)    == ~f.compress /\ ~MakesDir(f)

\* gzip -c x > x.gz
GzName(p) == Append(Front(p), Last(p) \o ".gz")

\* Mutant of SourceOk: cp runs without bash -e.
SourceOkUnlessGzip(f) == Copies(f) \/ MakesDir(f) \/ GzipsTree(f) \/ IsBuiltFile(f.source)

\* The script of f finds its source.  find | xargs over a missing directory
\* succeeds and stages nothing, so a compressed tree is never refused; the
\* Windows packager copies with plain cp, which takes no directory.
SourceOk(f) ==
  \/ MakesDir(f) \/ GzipsTree(f)
  \/ IsBuiltFile(f.source)
  \/ Copies(f) /\ f.source # NoSource /\ job.kind # "win" /\ FilesBelow(f.source) # {}

\* The directories and files that entry f puts in the root when its source
\* goes to path t.
DirsAt(f, t) ==
  IF MakesDir(f) THEN Chain(t)
  ELSE IF GzipsTree(f) THEN Chain(t) \cup {t \o d : d \in DirsBelow(f.source)}
  ELSE IF GzipsFile(f) THEN Ancestors(t)
  ELSE Ancestors(f.dest) \cup {t \o d : d \in DirsBelow(f.source)}

FilesAt(f, t) ==
  IF MakesDir(f) THEN {}
  ELSE IF GzipsTree(f)
       THEN {Staged(t \o GzName(r), f.source \o r, TRUE) : r \in FilesBelow(f.source)}
  ELSE IF IsBuiltFile(f.source) THEN {Staged(t, f.source, f.compress)}
  ELSE {Staged(t \o r, f.source \o r, FALSE) : r \in FilesBelow(f.source)}

\* Mutant of Target: a compressed tree is nested as a copied one is.
TargetNestsTrees(f) ==
  IF ~GzipsFile(f) /\ ~MakesDir(f) /\ f.dest \in dirs
  THEN Append(f.dest, Last(f.source)) ELSE f.dest

\* cp -r into a path that is already a directory copies to a new name in it.
Target(f) ==
  IF Copies(f) /\ f.dest \in dirs THEN Append(f.dest, Last(f.source)) ELSE f.dest

\* mkdir, install -d, cp and > fail when a file is where a directory is
\* needed or the other way round.
Clash(newDirs, newFiles) ==
  (dirs \cup newDirs) \cap Paths(files \cup newFiles) # {}

-----------------------------------------------------------------------------

\* deb leaves the units to fpm, rpm stages them after the files, and win
\* stages its binaries only, at the top of the root.
Entries(j) ==
  CASE j.kind = "deb" -> j.archive.files
    [] j.kind = "rpm" -> j.archive.files \o j.archive.units
    [] j.kind = "win" ->
         [i \in DOMAIN j.archive.winBinaries |->
            CopyTo(j.archive.winBinaries[i], <<Last(j.archive.winBinaries[i])>>)]

entries == Entries(job)

Init ==
  /\ job \in Jobs
  /\ next = 1
  /\ dirs = {<<>>}
  /\ files = {}
  /\ result = "staging"

Fail == result' = "failed" /\ UNCHANGED <<job, next, dirs, files>>

\* File.MoveStaticFile on the next entry; what it writes over is lost.
MoveStaticFile ==
  /\ result = "staging" /\ next \in DOMAIN entries
  /\ LET f == entries[next]
         newDirs  == DirsAt(f, Target(f))
         newFiles == FilesAt(f, Target(f))
     IN IF SourceOk(f) /\ ~Clash(newDirs, newFiles)
        THEN /\ dirs' = dirs \cup newDirs
             /\ files' = {g \in files : g.path \notin Paths(newFiles)} \cup newFiles
             /\ next' = next + 1
             /\ UNCHANGED <<job, result>>
        ELSE Fail

AllMoved ==
  /\ result = "staging" /\ next \notin DOMAIN entries
  /\ result' = IF job.kind = "deb" THEN "control" ELSE "packing"
  /\ UNCHANGED <<job, next, dirs, files>>

\* withControlFile: dpkg-shlibdeps reads every binary the archive names, and
\* refuses to run without any.
WriteControl ==
  /\ result = "control"
  /\ IF job.archive.binaries # {} /\ job.archive.binaries \subseteq job.built
     THEN result' = "packing" /\ UNCHANGED <<job, next, dirs, files>>
     ELSE Fail

\* fpm packs any root; zip "*" finds nothing to do in an empty one.
Pack ==
  /\ result = "packing"
  /\ IF job.kind = "win" /\ files = {}
     THEN Fail
     ELSE result' = "done" /\ UNCHANGED <<job, next, dirs, files>>

Next == MoveStaticFile \/ AllMoved \/ WriteControl \/ Pack

Spec == Init /\ [][Next]_vars

-----------------------------------------------------------------------------
(* What an archive promises: the layout its entries declare, read as a set *)

PromisedDirs(f)  == DirsAt(f, f.dest)
PromisedFiles(f) == FilesAt(f, f.dest)

\* A later entry f is at odds with an earlier e: both declare a file, or f is
\* copied over a directory that e needs.
Interferes(e, f) ==
  \/ Copies(f) /\ f.dest \in PromisedDirs(e)
  \/ Paths(PromisedFiles(e)) \cap Paths(PromisedFiles(f)) # {}

NoInterference(es, n) == \A i, j \in 1..n : i < j => ~Interferes(es[i], es[j])

FilesUpTo(es, n) == UNION {PromisedFiles(es[i]) : i \in 1..n}
DirsUpTo(es, n)  == {<<>>} \cup UNION {PromisedDirs(es[i]) : i \in 1..n}

-----------------------------------------------------------------------------
(* Properties *)

\* Entries that do not interfere are staged where they are declared and
\* nowhere else, in whatever order the archive lists them.  (Interference is
\* cp's: a directory that exists turns the copy into one level deeper.)
LayoutAsDeclared ==
  result = "done" /\ NoInterference(entries, Len(entries)) =>
    /\ files = FilesUpTo(entries, Len(entries))
    /\ dirs = DirsUpTo(entries, Len(entries))

\* A package is never made when a source its archive names was not built; the
\* one exception is the source of a compressed tree.
NothingMissing ==
  result = "done" =>
    \A i \in DOMAIN entries :
      \/ MakesDir(entries[i]) \/ GzipsTree(entries[i])
      \/ IsBuiltFile(entries[i].source) \/ FilesBelow(entries[i].source) # {}

\* A deb ships the binaries whose libraries it depends on: each that its archive
\* lists among Binaries, which are read under /build and not in the package, is in
\* the package, as it was built.  A directory that is copied without one of them does
\* not fail the copy, but the control file (rpm would pack it); and no deb is made of
\* the empty archive of an unknown project (an empty rpm is).
DebShipsBinaries ==
  result = "done" /\ job.kind = "deb"
    /\ job.archive \in {ArchiveOf[p] : p \in Projects} \cup {Unknown}
  => /\ files # {}
     /\ job.archive.binaries \subseteq {g.from : g \in {h \in files : ~h.gz}}

\* Every shipped archive is free of interference, whatever make put into the
\* directories that it copies.
ShippedDoNotInterfere ==
  job.archive \in {ArchiveOf[p] : p \in Projects} => NoInterference(entries, Len(entries))

\* What the makefiles of containerd leave for it: a directory of manual pages, and
\* in bin none of the names under which the other packages install theirs.
ContainerdMade ==
  /\ ~IsBuiltFile(Build(<<"man">>))
  /\ \A r \in FilesBelow(Src(<<"bin">>)) :
       r[1] \notin {"dockerd", "docker-proxy", "containerd-shim-systemd-v1", "docker", "runc",
                    "docker-init"}

\* The packages can be installed side by side (the engine depends on three
\* others): none ships a file at a path that another one's archive names.  Two of them
\* name the tree of manual pages; what is in it is not compared.
NoFileConflict ==
  \A p \in Projects :
    job.archive = ArchiveOf[p] /\ job.kind # "win" /\ (p = "moby-containerd" => ContainerdMade)
    => \A q \in Projects \ {p} :
         LET es == ArchiveOf[q].files \o ArchiveOf[q].units
         IN \A i \in DOMAIN es : es[i].dest \notin Paths(files)
=============================================================================
