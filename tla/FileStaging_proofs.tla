------------------------- MODULE FileStaging_proofs -------------------------
(***************************************************************************)
(* Proofs about file staging, for every archive and every content of       *)
(* /build: what a finished package contains, and what it cannot lack.      *)
(***************************************************************************)
EXTENDS FileStaging, TLAPS, SequenceTheorems

\* The control part of the type invariant.
ControlOK ==
  /\ job \in Jobs
  /\ next \in 1 .. Len(entries) + 1
  /\ result \in {"staging", "control", "packing", "done", "failed"}

\* The stages after staging are reached when every entry has been moved.
PastStaging ==
  result \in {"control", "packing", "done"} => next = Len(entries) + 1

\* What is promised by the entries moved so far is what the root holds.
LayoutSoFar ==
  NoInterference(entries, next - 1) =>
    files = FilesUpTo(entries, next - 1) /\ dirs = DirsUpTo(entries, next - 1)

SourcesSoFar == \A i \in 1 .. next - 1 : SourceOk(entries[i])

ControlWritten ==
  result \in {"packing", "done"} /\ job.kind = "deb"
    => job.archive.binaries # {} /\ job.archive.binaries \subseteq job.built

IInv == ControlOK /\ PastStaging /\ LayoutSoFar /\ SourcesSoFar /\ ControlWritten

\* A packager's list of entries is a sequence of entries.
LEMMA EntriesType == ASSUME NEW j \in Jobs PROVE Entries(j) \in Seq(Entry)
  <1>1. /\ j.kind \in Kinds
        /\ j.archive.files \in Seq(Entry) /\ j.archive.units \in Seq(Entry)
        /\ j.archive.winBinaries \in Seq(Path \ {<<>>})
    BY JobsAssumption
  <1>2. CASE j.kind = "deb"
    BY <1>1, <1>2 DEF Entries
  <1>3. CASE j.kind = "rpm"
    BY <1>1, <1>3 DEF Entries
  <1>4. CASE j.kind = "win"
    <2> DEFINE w == j.archive.winBinaries
               to(i) == CopyTo(w[i], <<Last(w[i])>>)
    <2>1. \A i \in 1 .. Len(w) : w[i] \in Path /\ w[i] # <<>>
      BY <1>1
    <2>2. \A s \in Path : s # <<>> => Last(s) \in STRING
      BY DEF Path, Last
    <2>3. \A i \in 1 .. Len(w) : to(i) \in Entry
      <3> TAKE i \in 1 .. Len(w)
      <3>1. w[i] \in Path /\ Last(w[i]) \in STRING
        BY <2>1, <2>2
      <3>2. <<Last(w[i])>> \in Path \ {<<>>}
        BY <3>1 DEF Path
      <3> QED BY <3>1, <3>2 DEF CopyTo, Entry
    <2>4. Len(w) \in Nat /\ DOMAIN w = 1 .. Len(w)
      BY <1>1
    <2>5. [i \in 1 .. Len(w) |-> to(i)] \in Seq(Entry)
      BY <2>3, <2>4
    <2> QED BY <1>4, <2>4, <2>5 DEF Entries
  <1> QED BY <1>1, <1>2, <1>3, <1>4 DEF Kinds

\* When the entries up to the next one do not interfere, the next one goes
\* exactly where it is declared, and writes over nothing.
LEMMA NextGoesToItsDest ==
  ASSUME IInv, next \in DOMAIN entries, NoInterference(entries, next)
  PROVE  /\ NoInterference(entries, next - 1)
         /\ Target(entries[next]) = entries[next].dest
         /\ \A g \in files : g.path \notin Paths(PromisedFiles(entries[next]))
  <1> DEFINE f == entries[next]
  <1>1. entries \in Seq(Entry) /\ next \in 1 .. Len(entries)
    BY EntriesType DEF IInv, ControlOK, entries
  <1>2. f \in Entry
    BY <1>1
  <1>3. NoInterference(entries, next - 1)
    BY <1>1 DEF NoInterference
  <1>4. /\ files = UNION {PromisedFiles(entries[i]) : i \in 1 .. next - 1}
        /\ dirs = {<<>>} \cup UNION {PromisedDirs(entries[i]) : i \in 1 .. next - 1}
    BY <1>3 DEF IInv, LayoutSoFar, FilesUpTo, DirsUpTo
  <1>5. \A i \in 1 .. next - 1 :
          /\ Copies(f) => f.dest \notin PromisedDirs(entries[i])
          /\ Paths(PromisedFiles(entries[i])) \cap Paths(PromisedFiles(f)) = {}
    <2>1. \A i \in 1 .. next - 1 : ~Interferes(entries[i], f)
      BY <1>1 DEF NoInterference
    <2> QED BY <2>1 DEF Interferes
  <1>6. Copies(f) => f.dest \notin dirs
    <2>1. f.dest # <<>>
      BY <1>2 DEF Entry
    <2> QED BY <2>1, <1>4, <1>5
  <1>7. ASSUME NEW g \in files PROVE g.path \notin Paths(PromisedFiles(f))
    <2>1. PICK i \in 1 .. next - 1 : g \in PromisedFiles(entries[i])
      BY <1>4
    <2>2. g.path \in Paths(PromisedFiles(entries[i]))
      BY <2>1 DEF Paths
    <2> QED BY <2>2, <1>5
  <1> QED BY <1>3, <1>6, <1>7 DEF Target

\* The promise up to n is the promise up to n - 1 and that of entry n.
LEMMA PromiseGrows ==
  ASSUME NEW n \in Nat \ {0}, NEW es
  PROVE  /\ FilesUpTo(es, n) = FilesUpTo(es, n - 1) \cup PromisedFiles(es[n])
         /\ DirsUpTo(es, n) = DirsUpTo(es, n - 1) \cup PromisedDirs(es[n])
  <1>1. 1 .. n = (1 .. n - 1) \cup {n}
    OBVIOUS
  <1> QED BY <1>1 DEF FilesUpTo, DirsUpTo

\* What an entry does at a given path depends on the build at hand only.
LEMMA PromisesStable ==
  ASSUME job' = job
  PROVE  /\ entries' = entries
         /\ \A f : SourceOk(f)' <=> SourceOk(f)
         /\ \A f : PromisedFiles(f)' = PromisedFiles(f)
         /\ \A f : PromisedDirs(f)' = PromisedDirs(f)
         /\ \A e, f : Interferes(e, f)' <=> Interferes(e, f)
  <1>1. \A s : IsBuiltFile(s)' <=> IsBuiltFile(s)
    BY DEF IsBuiltFile
  <1>2. \A s : FilesBelow(s)' = FilesBelow(s)
    BY DEF FilesBelow
  <1>3. \A s : DirsBelow(s)' = DirsBelow(s)
    BY <1>2 DEF DirsBelow
  <1>4. \A f : PromisedFiles(f)' = PromisedFiles(f)
    BY <1>1, <1>2 DEF PromisedFiles, FilesAt
  <1>5. \A f : PromisedDirs(f)' = PromisedDirs(f)
    BY <1>3 DEF PromisedDirs, DirsAt
  <1>6. \A f : SourceOk(f)' <=> SourceOk(f)
    BY <1>1, <1>2 DEF SourceOk
  <1>7. \A e, f : Interferes(e, f)' <=> Interferes(e, f)
    BY <1>4, <1>5 DEF Interferes
  <1> QED BY <1>4, <1>5, <1>6, <1>7 DEF entries

\* The same for what is said of a whole list.
LEMMA ListsStable ==
  ASSUME job' = job, NEW es, NEW n
  PROVE  /\ NoInterference(es, n)' <=> NoInterference(es, n)
         /\ FilesUpTo(es, n)' = FilesUpTo(es, n)
         /\ DirsUpTo(es, n)' = DirsUpTo(es, n)
  BY PromisesStable DEF NoInterference, FilesUpTo, DirsUpTo

LEMMA InitIInv == Init => IInv
  <1> SUFFICES ASSUME Init PROVE IInv
    OBVIOUS
  <1>1. job \in Jobs /\ next = 1 /\ result = "staging" /\ dirs = {<<>>} /\ files = {}
    BY DEF Init
  <1>2. Len(entries) \in Nat
    BY <1>1, EntriesType DEF entries
  <1>3. FilesUpTo(entries, 0) = {} /\ DirsUpTo(entries, 0) = {<<>>}
    BY DEF FilesUpTo, DirsUpTo
  <1> QED
    BY <1>1, <1>2, <1>3
    DEF IInv, ControlOK, PastStaging, LayoutSoFar, SourcesSoFar, ControlWritten

\* Every other step leaves the root alone.
LEMMA OtherStepsKeepIInv ==
  ASSUME IInv, UNCHANGED <<job, next, dirs, files>>,
         result' \in {"staging", "control", "packing", "done", "failed"},
         PastStaging', ControlWritten'
  PROVE  IInv'
  <1>1. ControlOK'
    BY DEF IInv, ControlOK, entries
  <1>2. LayoutSoFar'
    BY PromisesStable, ListsStable DEF IInv, LayoutSoFar
  <1>3. SourcesSoFar'
    BY PromisesStable DEF IInv, SourcesSoFar
  <1> QED BY <1>1, <1>2, <1>3 DEF IInv

\* Moving an entry keeps the inductive invariant.
LEMMA MoveKeepsIInv == ASSUME IInv, MoveStaticFile PROVE IInv'
  <1> DEFINE f == entries[next]
             newDirs  == DirsAt(f, Target(f))
             newFiles == FilesAt(f, Target(f))
  <1>0. /\ entries \in Seq(Entry) /\ next \in 1 .. Len(entries)
        /\ Len(entries) \in Nat /\ result = "staging" /\ job \in Jobs
    BY EntriesType DEF IInv, ControlOK, entries, MoveStaticFile
  <1>1. CASE Fail
    <2>1. PastStaging' /\ ControlWritten'
      BY <1>1 DEF Fail, PastStaging, ControlWritten
    <2> QED BY <1>1, <2>1, OtherStepsKeepIInv DEF Fail
  <1>2. CASE /\ SourceOk(f)
             /\ dirs' = dirs \cup newDirs
             /\ files' = {g \in files : g.path \notin Paths(newFiles)} \cup newFiles
             /\ next' = next + 1 /\ UNCHANGED <<job, result>>
    <2>1. entries' = entries /\ next' - 1 = next /\ next' = next + 1
      BY <1>0, <1>2 DEF entries
    <2>2. ControlOK' /\ PastStaging' /\ ControlWritten'
      BY <1>0, <1>2, <2>1 DEF IInv, ControlOK, PastStaging, ControlWritten
    <2>3. SourcesSoFar'
      <3>1. \A i \in 1 .. next : SourceOk(entries[i])
        BY <1>0, <1>2 DEF IInv, SourcesSoFar
      <3> QED BY <1>2, <2>1, <3>1, PromisesStable DEF SourcesSoFar
    <2>4. ASSUME NoInterference(entries, next)
          PROVE  files' = FilesUpTo(entries, next) /\ dirs' = DirsUpTo(entries, next)
      <3>1. /\ NoInterference(entries, next - 1)
            /\ Target(f) = f.dest
            /\ \A g \in files : g.path \notin Paths(PromisedFiles(f))
        BY <1>0, <2>4, NextGoesToItsDest
      <3>2. newFiles = PromisedFiles(f) /\ newDirs = PromisedDirs(f)
        BY <3>1 DEF PromisedFiles, PromisedDirs
      <3>3. files' = files \cup PromisedFiles(f) /\ dirs' = dirs \cup PromisedDirs(f)
        BY <1>2, <3>1, <3>2
      <3>4. /\ files = FilesUpTo(entries, next - 1)
            /\ dirs = DirsUpTo(entries, next - 1)
        BY <3>1 DEF IInv, LayoutSoFar
      <3> QED BY <1>0, <3>3, <3>4, PromiseGrows
    <2>5. LayoutSoFar'
      <3>1. /\ NoInterference(entries, next - 1)' <=> NoInterference(entries, next)
            /\ FilesUpTo(entries, next - 1)' = FilesUpTo(entries, next)
            /\ DirsUpTo(entries, next - 1)' = DirsUpTo(entries, next)
        BY <1>2, <2>1, PromisesStable DEF NoInterference, FilesUpTo, DirsUpTo
      <3> QED BY <2>1, <2>4, <3>1 DEF LayoutSoFar
    <2> QED BY <2>2, <2>3, <2>5 DEF IInv
  <1> QED BY <1>1, <1>2 DEF MoveStaticFile

LEMMA StepIInv == IInv /\ [Next]_vars => IInv'
  <1> SUFFICES ASSUME IInv, [Next]_vars PROVE IInv'
    OBVIOUS
  <1>1. CASE MoveStaticFile
    BY <1>1, MoveKeepsIInv
  <1>2. CASE AllMoved
    <2>1. Len(entries) \in Nat /\ DOMAIN entries = 1 .. Len(entries)
      BY EntriesType DEF IInv, ControlOK, entries
    <2>2. PastStaging'
      BY <1>2, <2>1 DEF AllMoved, PastStaging, IInv, ControlOK, entries
    <2>3. ControlWritten'
      BY <1>2 DEF AllMoved, ControlWritten
    <2> QED BY <1>2, <2>2, <2>3, OtherStepsKeepIInv DEF AllMoved
  <1>3. CASE WriteControl
    <2>1. PastStaging' /\ ControlWritten'
      BY <1>3 DEF WriteControl, Fail, PastStaging, ControlWritten, IInv, entries
    <2> QED BY <1>3, <2>1, OtherStepsKeepIInv DEF WriteControl, Fail
  <1>4. CASE Pack
    <2>1. PastStaging' /\ ControlWritten'
      BY <1>4 DEF Pack, Fail, PastStaging, ControlWritten, IInv, entries
    <2> QED BY <1>4, <2>1, OtherStepsKeepIInv DEF Pack, Fail
  <1>5. CASE UNCHANGED vars
    <2>1. PastStaging' /\ ControlWritten' /\ result' = result
      BY <1>5 DEF vars, PastStaging, ControlWritten, IInv, entries
    <2> QED BY <1>5, <2>1, OtherStepsKeepIInv DEF vars, IInv, ControlOK
  <1> QED BY <1>1, <1>2, <1>3, <1>4, <1>5 DEF Next

\* The inductive invariant holds in every reachable state.
THEOREM Invariant == Spec => []IInv
  BY InitIInv, StepIInv, PTL DEF Spec

\* A finished package of entries that do not interfere has exactly the
\* declared layout, whatever the archive and whatever make built.
THEOREM PackageLayout == Spec => []LayoutAsDeclared
  <1>1. IInv => LayoutAsDeclared
    <2> SUFFICES ASSUME IInv, result = "done", NoInterference(entries, Len(entries))
                 PROVE  /\ files = FilesUpTo(entries, Len(entries))
                        /\ dirs = DirsUpTo(entries, Len(entries))
      BY DEF LayoutAsDeclared
    <2>1. next - 1 = Len(entries)
      BY EntriesType DEF IInv, ControlOK, PastStaging, entries
    <2> QED BY <2>1 DEF IInv, LayoutSoFar
  <1> QED BY <1>1, Invariant, PTL

\* No package is made when a source that is not a compressed tree was not built.
THEOREM NoMissingSource == Spec => []NothingMissing
  <1>1. IInv => NothingMissing
    <2> SUFFICES ASSUME IInv, result = "done", NEW i \in DOMAIN entries
                 PROVE  \/ MakesDir(entries[i]) \/ GzipsTree(entries[i])
                        \/ IsBuiltFile(entries[i].source)
                        \/ FilesBelow(entries[i].source) # {}
      BY DEF NothingMissing
    <2>1. i \in 1 .. next - 1
      BY EntriesType DEF IInv, ControlOK, PastStaging, entries
    <2> QED BY <2>1 DEF IInv, SourcesSoFar, SourceOk
  <1> QED BY <1>1, Invariant, PTL

-----------------------------------------------------------------------------
(* The shipped archives *)

\* q is at d or below it.
Below(q, d) == Len(q) \in Nat /\ Len(q) >= Len(d) /\ \A k \in 1 .. Len(d) : q[k] = d[k]

LEMMA ConcatBelow ==
  ASSUME NEW S, NEW t \in Seq(STRING), NEW r \in Seq(S)
  PROVE  Below(t \o r, t)
  <1> DEFINE T == STRING \cup S
  <1>1. t \in Seq(T) /\ r \in Seq(T)
    OBVIOUS
  <1> HIDE DEF T
  <1>2. Len(t \o r) \in Nat /\ Len(t \o r) >= Len(t) /\ \A k \in 1 .. Len(t) : (t \o r)[k] = t[k]
    BY <1>1, ConcatProperties
  <1> QED BY <1>2 DEF Below

LEMMA FilesBelowType ==
  ASSUME job \in Jobs, NEW s \in Path, NEW r \in FilesBelow(s)
  PROVE  r \in Seq(STRING)
  <1>1. PICK p \in job.built : r = SubSeq(p, Len(s) + 1, Len(p))
    BY DEF FilesBelow
  <1>2. p \in Seq(STRING)
    BY JobsAssumption, <1>1 DEF Path
  <1>3. Len(s) \in Nat /\ Len(p) \in Nat
    BY <1>2 DEF Path
  <1>4. \A i \in Len(s) + 1 .. Len(p) : p[i] \in STRING
    BY <1>2, <1>3
  <1> QED BY <1>1, <1>2, <1>3, <1>4, SubSeqProperties

\* What an entry promises is at its destination or below, but for the
\* directories above.
LEMMA PromisedBelow ==
  ASSUME job \in Jobs, NEW f \in Entry
  PROVE  /\ \A q \in Paths(PromisedFiles(f)) : Below(q, f.dest)
         /\ \A d \in PromisedDirs(f) : d \in Ancestors(f.dest) \/ Below(d, f.dest)
  <1> DEFINE t == f.dest
  <1>1. t \in Seq(STRING) /\ f.source \in Path
    BY DEF Entry, Path
  <1>2. Below(t, t)
    BY DEF Below
  <1>3. ASSUME NEW r \in FilesBelow(f.source) PROVE Below(t \o r, t) /\ Below(t \o GzName(r), t)
    <2>1. r \in Seq(STRING)
      BY <1>1, <1>3, FilesBelowType
    <2> DEFINE last == Last(r) \o ".gz"
    <2>2. Front(r) \in Seq(STRING)
      BY <2>1 DEF Front
    <2>3. GzName(r) \in Seq(STRING \cup {last})
      <3> HIDE DEF last
      <3>1. Front(r) \in Seq(STRING \cup {last})
        BY <2>2
      <3>2. Append(Front(r), last) \in Seq(STRING \cup {last})
        BY <3>1
      <3> QED BY <3>2 DEF GzName, last
    <2> QED BY <1>1, <2>1, <2>3, ConcatBelow
  <1>4. ASSUME NEW d \in DirsBelow(f.source) PROVE Below(t \o d, t)
    <2>1. PICK r \in FilesBelow(f.source) : d \in Ancestors(r)
      BY <1>4 DEF DirsBelow
    <2>2. r \in Seq(STRING)
      BY <1>1, <2>1, FilesBelowType
    <2>3. PICK n \in 0 .. Len(r) - 1 : d = SubSeq(r, 1, n)
      BY <2>1 DEF Ancestors
    <2>4. d \in Seq(STRING)
      BY <2>2, <2>3
    <2> QED BY <1>1, <2>4, ConcatBelow
  <1>5. ASSUME NEW q \in Paths(PromisedFiles(f)) PROVE Below(q, t)
    <2>1. PICK g \in FilesAt(f, t) : q = g.path
      BY <1>5 DEF Paths, PromisedFiles
    <2>2. \/ q = t
          \/ \E r \in FilesBelow(f.source) : q = t \o r \/ q = t \o GzName(r)
      <3> HIDE DEF t
      <3>1. CASE g \in {Staged(t \o GzName(r), f.source \o r, TRUE) : r \in FilesBelow(f.source)}
        BY <2>1, <3>1 DEF Staged
      <3>2. CASE g \in {Staged(t \o r, f.source \o r, FALSE) : r \in FilesBelow(f.source)}
        BY <2>1, <3>2 DEF Staged
      <3>3. CASE g = Staged(t, f.source, f.compress)
        BY <2>1, <3>3 DEF Staged
      <3> QED BY <2>1, <3>1, <3>2, <3>3 DEF FilesAt
    <2> QED BY <1>2, <1>3, <2>2
  <1>6. ASSUME NEW d \in PromisedDirs(f) PROVE d \in Ancestors(t) \/ Below(d, t)
    <2>1. \/ d \in Ancestors(t) \/ d = t
          \/ \E r \in DirsBelow(f.source) : d = t \o r
      BY <1>6 DEF PromisedDirs, DirsAt, Chain
    <2> QED BY <1>2, <1>4, <2>1
  <1> QED BY <1>5, <1>6

\* Entries interfere only when something could be below both destinations.
LEMMA InterferenceMeets ==
  ASSUME job \in Jobs, NEW e \in Entry, NEW f \in Entry, Interferes(e, f)
  PROVE  \E q : Below(q, e.dest) /\ Below(q, f.dest)
  <1>1. CASE Paths(PromisedFiles(e)) \cap Paths(PromisedFiles(f)) # {}
    BY <1>1, PromisedBelow
  <1>2. CASE f.dest \in PromisedDirs(e)
    <2>1. Below(f.dest, f.dest) /\ Below(e.dest, e.dest)
      BY DEF Below
    <2>2. CASE Below(f.dest, e.dest)
      BY <2>1, <2>2
    <2>3. CASE f.dest \in Ancestors(e.dest)
      <3>1. PICK n \in 0 .. Len(e.dest) - 1 : f.dest = SubSeq(e.dest, 1, n)
        BY <2>3 DEF Ancestors
      <3>2. e.dest \in Seq(STRING)
        BY DEF Entry, Path
      <3>3. Len(f.dest) = n /\ \A k \in 1 .. n : f.dest[k] = e.dest[k]
        BY <3>1, <3>2
      <3>4. Below(e.dest, f.dest)
        BY <3>3 DEF Below
      <3> QED BY <2>1, <3>4
    <2> QED BY <1>2, <2>2, <2>3, PromisedBelow
  <1> QED BY <1>1, <1>2 DEF Interferes

\* A name added to a path comes last.
LEMMA AppendedName ==
  ASSUME NEW T, NEW d \in Seq(T), NEW x \in T
  PROVE  /\ Len(Append(d, x)) = Len(d) + 1 /\ Append(d, x)[Len(d) + 1] = x
         /\ \A k \in 1 .. Len(d) : Append(d, x)[k] = d[k]
  OBVIOUS

\* A place below a name in a directory four levels down.
LEMMA BelowAppend ==
  ASSUME NEW T, NEW d \in Seq(T), Len(d) = 4, NEW x \in T, NEW q, Below(q, Append(d, x))
  PROVE  Below(q, d) /\ q[5] = x
  <1> DEFINE u == Append(d, x)
  <1>1. Len(u) = Len(d) + 1 /\ u[Len(d) + 1] = x /\ \A k \in 1 .. Len(d) : u[k] = d[k]
    BY ONLY d \in Seq(T), x \in T, AppendedName
  <1> HIDE DEF u
  <1>2. Len(u) = 5 /\ u[5] = x /\ \A k \in 1 .. 4 : u[k] = d[k]
    BY <1>1
  <1>3. Len(q) \in Nat /\ Len(q) >= 5 /\ \A k \in 1 .. 5 : q[k] = u[k]
    BY <1>2 DEF Below, u
  <1> QED BY <1>2, <1>3 DEF Below

\* Where the names of what is below the common destinations tell them apart.
LEMMA UnitPlace ==
  ASSUME NEW q, NEW dir, NEW name, Below(q, Unit(dir, name).dest)
  PROVE  q[1] = "lib" /\ q[2] = "systemd" /\ q[4] = name
  BY DEF Below, Unit, CopyTo

LEMMA PluginPlace ==
  ASSUME NEW q, NEW s, NEW name, Below(q, Plugin(s, name).dest)
  PROVE  q[1] = "usr" /\ q[2] = "libexec" /\ q[5] = name
  BY DEF Below, Plugin, CopyTo

InDoc(q, pkg, name) ==
  q[1] = "usr" /\ q[2] = "share" /\ q[3] = "doc" /\ q[4] = pkg /\ q[5] = name

LEMMA DocPlaces ==
  ASSUME NEW q, NEW pkg
  PROVE  /\ Below(q, License(pkg).dest) => InDoc(q, pkg, "LICENSE")
         /\ Below(q, Notice(pkg).dest) => InDoc(q, pkg, "NOTICE.gz")
  <1> DEFINE names == {"usr", "share", "doc", pkg, "LICENSE", "NOTICE.gz"}
  <1>1. Doc(pkg) \in Seq(names) /\ Len(Doc(pkg)) = 4
    BY DEF Doc
  <1>2. Below(q, Doc(pkg)) => q[1] = "usr" /\ q[2] = "share" /\ q[3] = "doc" /\ q[4] = pkg
    BY DEF Doc, Below
  <1>3. License(pkg).dest = Append(Doc(pkg), "LICENSE") /\ Notice(pkg).dest = Append(Doc(pkg), "NOTICE.gz")
    BY DEF License, Notice, CopyTo, GzipTo
  <1>4. "LICENSE" \in names /\ "NOTICE.gz" \in names
    BY SMTT(20)
  <1> HIDE DEF names
  <1>5. ASSUME NEW x \in names, Below(q, Append(Doc(pkg), x)) PROVE InDoc(q, pkg, x)
    BY <1>1, <1>2, <1>5, BelowAppend DEF InDoc
  <1> QED BY <1>3, <1>4, <1>5

\* The package that a place belongs to, by the names on the way to it; the manual
\* pages are several packages'.
UnitOwner(name) ==
  IF name = "containerd.service" THEN "moby-containerd"
  ELSE IF name \in {"docker.service", "docker.socket"} THEN "moby-engine"
  ELSE "moby-containerd-shim-systemd"

BinOwner(x) ==
  IF Len(x) = 2 THEN "moby-containerd"
  ELSE IF x[3] \in {"dockerd", "docker-proxy"} THEN "moby-engine"
  ELSE IF x[3] = "containerd-shim-systemd-v1" THEN "moby-containerd-shim-systemd"
  ELSE IF x[3] = "docker" THEN "moby-cli"
  ELSE IF x[3] = "runc" THEN "moby-runc"
  ELSE IF x[3] = "docker-init" THEN "moby-tini"
  ELSE "moby-containerd"

ShareOwner(x) ==
  IF x[3] = "doc" THEN x[4]
  ELSE IF x[3] = "moby-engine" THEN "moby-engine"
  ELSE IF x[3] = "zsh" THEN "moby-cli"
  ELSE IF x[3] = "man" THEN "manual pages"
  ELSE IF x[5] = "runc" THEN "moby-runc" ELSE "moby-cli"

OwnerOf(x) ==
  IF x[1] = "etc" THEN "moby-engine"
  ELSE IF x[1] = "lib" THEN IF x[2] = "udev" THEN "moby-engine" ELSE UnitOwner(x[4])
  ELSE IF x[2] = "bin" THEN BinOwner(x)
  ELSE IF x[2] = "share" THEN ShareOwner(x)
  ELSE IF x[5] = "docker-compose" THEN "moby-compose" ELSE "moby-buildx"

BinEntry == CopyTo(Src(<<"bin">>), <<"usr", "bin">>)
ManDest  == <<"usr", "share", "man">>

\* What is at or below an entry of package p is its own, but for the manual pages
\* and for what containerd's makefile may have put into bin.
Owns(q, p, e) ==
  \/ OwnerOf(q) = p
  \/ p = "moby-containerd" /\ e \in {BinEntry, CopyTo(Build(<<"man">>), ManDest)}
  \/ e = GzipTreeTo(Build(<<"man">>), ManDest)

\* No place is below two destinations of archive a, which are those of package p.
Alone(q, a, p) ==
  /\ \A i, j \in 1 .. Len(a.files) :
       Below(q, a.files[i].dest) /\ Below(q, a.files[j].dest) => i = j
  /\ \A i \in 1 .. Len(a.files), j \in 1 .. Len(a.units) :
       ~(Below(q, a.files[i].dest) /\ Below(q, a.units[j].dest))
  /\ Len(a.units) \in {0, 1}
  /\ \A i \in 1 .. Len(a.files) : Below(q, a.files[i].dest) => Owns(q, p, a.files[i])
  /\ \A i \in 1 .. Len(a.units) : Below(q, a.units[i].dest) => OwnerOf(q) = p

\* Archive by archive, two names in the destinations tell the entries apart.
LEMMA EngineAlone == ASSUME NEW q PROVE Alone(q, engine, "moby-engine")
  <1> DEFINE contrib == <<"usr", "share", "moby-engine", "contrib">>
             names == {"usr", "share", "moby-engine", "contrib",
                       "nuke-graph-directory.sh", "check-config.sh"}
             es == engine.files
             us == engine.units
  <1>1. /\ Len(es) = 9 /\ Len(us) = 1
        /\ es[1] = Unit(Build(<<"systemd">>), "docker.socket")
        /\ es[2].dest = Append(contrib, "nuke-graph-directory.sh")
        /\ es[3].dest = Append(contrib, "check-config.sh")
        /\ es[4].dest = <<"usr", "bin", "dockerd">> /\ es[5].dest = <<"usr", "bin", "docker-proxy">>
        /\ es[6].dest = <<"lib", "udev", "rules.d", "80-moby-engine.rules">>
        /\ es[7].dest = <<"etc", "docker">>
        /\ es[8] = License("moby-engine") /\ es[9] = Notice("moby-engine")
        /\ us[1] = Unit(Build(<<"systemd">>), "docker.service")
    BY DEF engine, Archive, CopyTo, MakeDir
  <1>2. /\ contrib \in Seq(names) /\ Len(contrib) = 4
        /\ {"nuke-graph-directory.sh", "check-config.sh"} \subseteq names
        /\ Below(q, contrib) => q[1] = "usr" /\ q[2] = "share" /\ q[3] = "moby-engine"
    BY DEF Below
  <1> HIDE DEF es, us, contrib, names
  <1>3. ASSUME NEW x \in names, Below(q, Append(contrib, x)) PROVE Below(q, contrib) /\ q[5] = x
    BY <1>2, <1>3, BelowAppend
  <1>4. /\ Below(q, es[1].dest) => q[1] = "lib" /\ q[2] = "systemd" /\ q[4] = "docker.socket"
        /\ Below(q, us[1].dest) => q[1] = "lib" /\ q[2] = "systemd" /\ q[4] = "docker.service"
    BY <1>1, UnitPlace
  <1>5. /\ Below(q, es[2].dest) => q[1] = "usr" /\ q[2] = "share" /\ q[3] = "moby-engine"
                                  /\ q[5] = "nuke-graph-directory.sh"
        /\ Below(q, es[3].dest) => q[1] = "usr" /\ q[2] = "share" /\ q[3] = "moby-engine"
                                  /\ q[5] = "check-config.sh"
    BY <1>1, <1>2, <1>3
  <1>6. /\ Below(q, es[4].dest) => Len(q) >= 3 /\ q[1] = "usr" /\ q[2] = "bin" /\ q[3] = "dockerd"
        /\ Below(q, es[5].dest) => Len(q) >= 3 /\ q[1] = "usr" /\ q[2] = "bin" /\ q[3] = "docker-proxy"
        /\ Below(q, es[6].dest) => q[1] = "lib" /\ q[2] = "udev"
        /\ Below(q, es[7].dest) => q[1] = "etc"
    <2>1. /\ Below(q, <<"usr", "bin", "dockerd">>) => q[3] = "dockerd"
          /\ Below(q, <<"usr", "bin", "docker-proxy">>) => q[3] = "docker-proxy"
          /\ \A name : Below(q, <<"usr", "bin", name>>) =>
               Len(q) >= 3 /\ q[1] = "usr" /\ q[2] = "bin"
      BY DEF Below
    <2>2. /\ Below(q, <<"lib", "udev", "rules.d", "80-moby-engine.rules">>) =>
               q[1] = "lib" /\ q[2] = "udev"
          /\ Below(q, <<"etc", "docker">>) => q[1] = "etc"
      BY DEF Below
    <2> QED BY <1>1, <2>1, <2>2
  <1>7. /\ Below(q, es[8].dest) => InDoc(q, "moby-engine", "LICENSE")
        /\ Below(q, es[9].dest) => InDoc(q, "moby-engine", "NOTICE.gz")
    BY <1>1, DocPlaces
  <1>8. 1 .. 9 = {1, 2, 3, 4, 5, 6, 7, 8, 9} /\ 1 .. 1 = {1}
    OBVIOUS
  <1>9. \A i, j \in 1 .. 9 : Below(q, es[i].dest) /\ Below(q, es[j].dest) => i = j
    BY <1>4, <1>5, <1>6, <1>7, <1>8 DEF InDoc
  <1>10. \A i \in 1 .. 9, j \in 1 .. 1 : ~(Below(q, es[i].dest) /\ Below(q, us[j].dest))
    BY <1>4, <1>5, <1>6, <1>7, <1>8 DEF InDoc
  <1>11. /\ \A i \in 1 .. 9 : Below(q, es[i].dest) => OwnerOf(q) = "moby-engine"
         /\ \A i \in 1 .. 1 : Below(q, us[i].dest) => OwnerOf(q) = "moby-engine"
    BY <1>4, <1>5, <1>6, <1>7, <1>8 DEF InDoc, OwnerOf, UnitOwner, BinOwner, ShareOwner
  <1> QED BY <1>1, <1>9, <1>10, <1>11 DEF Alone, Owns, es, us

LEMMA ContainerdAlone == ASSUME NEW q PROVE Alone(q, containerd, "moby-containerd")
  <1> DEFINE es == containerd.files
             us == containerd.units
             man == CopyTo(Build(<<"man">>), ManDest)
  <1>1. /\ Len(es) = 4 /\ Len(us) = 1
        /\ es[1] = BinEntry /\ es[2] = man
        /\ es[3] = License("moby-containerd") /\ es[4] = Notice("moby-containerd")
        /\ us[1] = Unit(Src(<<>>), "containerd.service")
    BY DEF containerd, Archive, BinEntry, ManDest
  <1>2. /\ Below(q, BinEntry.dest) => q[1] = "usr" /\ q[2] = "bin"
        /\ Below(q, man.dest) => q[1] = "usr" /\ q[2] = "share" /\ q[3] = "man"
    BY DEF Below, BinEntry, ManDest, CopyTo
  <1> HIDE DEF es, us, man
  <1>3. /\ Below(q, es[3].dest) => InDoc(q, "moby-containerd", "LICENSE")
        /\ Below(q, es[4].dest) => InDoc(q, "moby-containerd", "NOTICE.gz")
        /\ Below(q, us[1].dest) => q[1] = "lib" /\ q[2] = "systemd" /\ q[4] = "containerd.service"
    BY <1>1, DocPlaces, UnitPlace
  <1>4. 1 .. 4 = {1, 2, 3, 4} /\ 1 .. 1 = {1}
    OBVIOUS
  <1>5. \A i, j \in 1 .. 4 : Below(q, es[i].dest) /\ Below(q, es[j].dest) => i = j
    BY <1>1, <1>2, <1>3, <1>4 DEF InDoc
  <1>6. \A i \in 1 .. 4, j \in 1 .. 1 : ~(Below(q, es[i].dest) /\ Below(q, us[j].dest))
    BY <1>1, <1>2, <1>3, <1>4 DEF InDoc
  <1>7. /\ \A i \in 3 .. 4 : Below(q, es[i].dest) => OwnerOf(q) = "moby-containerd"
        /\ \A i \in 1 .. 1 : Below(q, us[i].dest) => OwnerOf(q) = "moby-containerd"
    BY <1>3 DEF InDoc, OwnerOf, UnitOwner, BinOwner, ShareOwner
  <1>8. \A i \in 1 .. 4 : Below(q, es[i].dest) => Owns(q, "moby-containerd", es[i])
    BY <1>1, <1>4, <1>7 DEF Owns, man
  <1> QED BY <1>1, <1>5, <1>6, <1>7, <1>8 DEF Alone, es, us

LEMMA ShimAlone == ASSUME NEW q PROVE Alone(q, shim, "moby-containerd-shim-systemd")
  <1> DEFINE es == shim.files
             us == shim.units
             pkg == "moby-containerd-shim-systemd"
  <1>1. /\ Len(es) = 4 /\ Len(us) = 1
        /\ es[1].dest = <<"usr", "bin", "containerd-shim-systemd-v1">>
        /\ es[2] = Unit(Build(<<"systemd">>), "containerd-shim-systemd-v1.socket")
        /\ es[3] = License(pkg) /\ es[4] = Notice(pkg)
        /\ us[1] = Unit(Build(<<"systemd">>), "containerd-shim-systemd-v1.service")
    BY DEF shim, Archive, CopyTo
  <1> HIDE DEF es, us
  <1>2. Below(q, es[1].dest) =>
          Len(q) >= 3 /\ q[1] = "usr" /\ q[2] = "bin" /\ q[3] = "containerd-shim-systemd-v1"
    BY <1>1 DEF Below
  <1>3. /\ Below(q, es[2].dest) =>
             q[1] = "lib" /\ q[2] = "systemd" /\ q[4] = "containerd-shim-systemd-v1.socket"
        /\ Below(q, us[1].dest) =>
             q[1] = "lib" /\ q[2] = "systemd" /\ q[4] = "containerd-shim-systemd-v1.service"
        /\ Below(q, es[3].dest) => InDoc(q, pkg, "LICENSE")
        /\ Below(q, es[4].dest) => InDoc(q, pkg, "NOTICE.gz")
    BY <1>1, DocPlaces, UnitPlace
  <1>4. 1 .. 4 = {1, 2, 3, 4} /\ 1 .. 1 = {1}
    OBVIOUS
  <1>5. \A i, j \in 1 .. 4 : Below(q, es[i].dest) /\ Below(q, es[j].dest) => i = j
    BY <1>2, <1>3, <1>4 DEF InDoc
  <1>6. \A i \in 1 .. 4, j \in 1 .. 1 : ~(Below(q, es[i].dest) /\ Below(q, us[j].dest))
    BY <1>2, <1>3, <1>4 DEF InDoc
  <1>7. /\ \A i \in 1 .. 4 : Below(q, es[i].dest) => OwnerOf(q) = pkg
        /\ \A i \in 1 .. 1 : Below(q, us[i].dest) => OwnerOf(q) = pkg
    BY <1>2, <1>3, <1>4 DEF InDoc, OwnerOf, UnitOwner, BinOwner, ShareOwner
  <1> QED BY <1>1, <1>5, <1>6, <1>7 DEF Alone, Owns, es, us

LEMMA CliAlone == ASSUME NEW q PROVE Alone(q, cli, "moby-cli")
  <1> DEFINE es == cli.files
  <1>1. /\ Len(es) = 5 /\ Len(cli.units) = 0
        /\ es[1].dest = <<"usr", "bin", "docker">>
        /\ es[2].dest = <<"usr", "share", "zsh", "vendor-completions", "_docker">>
        /\ es[3] = License("moby-cli") /\ es[4] = Notice("moby-cli")
        /\ es[5].dest = <<"usr", "share", "bash-completion", "completions", "docker">>
    BY DEF cli, Archive, CopyTo, GzipTo
  <1> HIDE DEF es
  <1>2. /\ Below(q, es[1].dest) => Len(q) >= 3 /\ q[1] = "usr" /\ q[2] = "bin" /\ q[3] = "docker"
        /\ Below(q, es[2].dest) => q[1] = "usr" /\ q[2] = "share" /\ q[3] = "zsh"
        /\ Below(q, es[5].dest) => q[1] = "usr" /\ q[2] = "share" /\ q[3] = "bash-completion"
                                  /\ q[5] = "docker"
    BY <1>1 DEF Below
  <1>3. /\ Below(q, es[3].dest) => InDoc(q, "moby-cli", "LICENSE")
        /\ Below(q, es[4].dest) => InDoc(q, "moby-cli", "NOTICE.gz")
    BY <1>1, DocPlaces
  <1>4. 1 .. 5 = {1, 2, 3, 4, 5} /\ 1 .. 0 = {}
    OBVIOUS
  <1>5. \A i, j \in 1 .. 5 : Below(q, es[i].dest) /\ Below(q, es[j].dest) => i = j
    BY <1>2, <1>3, <1>4 DEF InDoc
  <1>6. \A i \in 1 .. 5 : Below(q, es[i].dest) => OwnerOf(q) = "moby-cli"
    BY <1>2, <1>3, <1>4 DEF InDoc, OwnerOf, BinOwner, ShareOwner
  <1> QED BY <1>1, <1>4, <1>5, <1>6 DEF Alone, Owns, es

LEMMA RuncAlone == ASSUME NEW q PROVE Alone(q, runc, "moby-runc")
  <1> DEFINE es == runc.files
             man == GzipTreeTo(Build(<<"man">>), ManDest)
  <1>1. /\ Len(es) = 5 /\ Len(runc.units) = 0
        /\ es[1].dest = <<"usr", "bin", "runc">>
        /\ es[2].dest = <<"usr", "share", "bash-completion", "completions", "runc">>
        /\ es[3] = man
        /\ es[4] = License("moby-runc") /\ es[5] = Notice("moby-runc")
    BY DEF runc, Archive, CopyTo, ManDest
  <1>2. Below(q, man.dest) => q[1] = "usr" /\ q[2] = "share" /\ q[3] = "man"
    BY DEF Below, ManDest, GzipTreeTo
  <1> HIDE DEF es, man
  <1>3. /\ Below(q, es[1].dest) => Len(q) >= 3 /\ q[1] = "usr" /\ q[2] = "bin" /\ q[3] = "runc"
        /\ Below(q, es[2].dest) => q[1] = "usr" /\ q[2] = "share" /\ q[3] = "bash-completion"
                                  /\ q[5] = "runc"
    BY <1>1 DEF Below
  <1>4. /\ Below(q, es[4].dest) => InDoc(q, "moby-runc", "LICENSE")
        /\ Below(q, es[5].dest) => InDoc(q, "moby-runc", "NOTICE.gz")
    BY <1>1, DocPlaces
  <1>5. 1 .. 5 = {1, 2, 3, 4, 5} /\ 1 .. 0 = {}
    OBVIOUS
  <1>6. \A i, j \in 1 .. 5 : Below(q, es[i].dest) /\ Below(q, es[j].dest) => i = j
    BY <1>1, <1>2, <1>3, <1>4, <1>5 DEF InDoc
  <1>7. \A i \in {1, 2, 4, 5} : Below(q, es[i].dest) => OwnerOf(q) = "moby-runc"
    BY <1>3, <1>4 DEF InDoc, OwnerOf, BinOwner, ShareOwner
  <1>8. \A i \in 1 .. 5 : Below(q, es[i].dest) => Owns(q, "moby-runc", es[i])
    BY <1>1, <1>5, <1>7 DEF Owns, man
  <1> QED BY <1>1, <1>5, <1>6, <1>8 DEF Alone, es

\* A binary and the two documents, as compose, buildx and tini ship them.
LEMMA BinaryAndDocsAlone ==
  ASSUME NEW a, NEW pkg, NEW q, Len(a.files) = 3, Len(a.units) = 0,
         Below(q, a.files[1].dest) =>
           q[1] = "usr" /\ q[2] \in {"bin", "libexec"} /\ OwnerOf(q) = pkg,
         a.files[2] = License(pkg), a.files[3] = Notice(pkg)
  PROVE  Alone(q, a, pkg)
  <1>1. /\ Below(q, a.files[2].dest) => InDoc(q, pkg, "LICENSE")
        /\ Below(q, a.files[3].dest) => InDoc(q, pkg, "NOTICE.gz")
    BY DocPlaces
  <1>2. 1 .. 3 = {1, 2, 3} /\ 1 .. 0 = {}
    OBVIOUS
  <1>3. \A i, j \in 1 .. 3 : Below(q, a.files[i].dest) /\ Below(q, a.files[j].dest) => i = j
    BY <1>1, <1>2 DEF InDoc
  <1>4. InDoc(q, pkg, "LICENSE") \/ InDoc(q, pkg, "NOTICE.gz") => OwnerOf(q) = pkg
    BY DEF InDoc, OwnerOf, ShareOwner
  <1>5. \A i \in 1 .. 3 : Below(q, a.files[i].dest) => Owns(q, pkg, a.files[i])
    BY <1>1, <1>2, <1>4 DEF Owns
  <1> QED BY <1>2, <1>3, <1>5 DEF Alone

LEMMA ComposeAlone == ASSUME NEW q PROVE Alone(q, compose, "moby-compose")
  <1>1. /\ Len(compose.files) = 3 /\ Len(compose.units) = 0
        /\ compose.files[1] = Plugin(Src(<<"bin", "docker-compose">>), "docker-compose")
        /\ compose.files[2] = License("moby-compose") /\ compose.files[3] = Notice("moby-compose")
    BY DEF compose, Archive
  <1>2. Below(q, compose.files[1].dest) =>
          q[1] = "usr" /\ q[2] = "libexec" /\ OwnerOf(q) = "moby-compose"
    BY <1>1, PluginPlace DEF OwnerOf
  <1> QED BY <1>1, <1>2, BinaryAndDocsAlone

LEMMA BuildxAlone == ASSUME NEW q PROVE Alone(q, buildx, "moby-buildx")
  <1>1. /\ Len(buildx.files) = 3 /\ Len(buildx.units) = 0
        /\ buildx.files[1] = Plugin(Src(<<"docker-buildx">>), "docker-buildx")
        /\ buildx.files[2] = License("moby-buildx") /\ buildx.files[3] = Notice("moby-buildx")
    BY DEF buildx, Archive
  <1>2. Below(q, buildx.files[1].dest) =>
          q[1] = "usr" /\ q[2] = "libexec" /\ OwnerOf(q) = "moby-buildx"
    BY <1>1, PluginPlace DEF OwnerOf
  <1> QED BY <1>1, <1>2, BinaryAndDocsAlone

LEMMA TiniAlone == ASSUME NEW q PROVE Alone(q, tini, "moby-tini")
  <1>1. /\ Len(tini.files) = 3 /\ Len(tini.units) = 0
        /\ tini.files[1].dest = <<"usr", "bin", "docker-init">>
        /\ tini.files[2] = License("moby-tini") /\ tini.files[3] = Notice("moby-tini")
    BY DEF tini, Archive, CopyTo
  <1>2. Below(q, tini.files[1].dest) =>
          Len(q) >= 3 /\ q[1] = "usr" /\ q[2] = "bin" /\ q[3] = "docker-init"
    BY <1>1 DEF Below
  <1>3. Below(q, tini.files[1].dest) => OwnerOf(q) = "moby-tini"
    BY <1>2 DEF OwnerOf, BinOwner
  <1> QED BY <1>1, <1>2, <1>3, BinaryAndDocsAlone

LEMMA AllAlone == ASSUME NEW q PROVE \A p \in Projects : Alone(q, ArchiveOf[p], p)
  BY EngineAlone, ContainerdAlone, ShimAlone, CliAlone, RuncAlone, ComposeAlone, BuildxAlone,
     TiniAlone
  DEF Projects, ArchiveOf

\* The Windows binaries of an archive have different names.
ApartOnWindows(a) ==
  \A i, j \in 1 .. Len(a.winBinaries) : Last(a.winBinaries[i]) = Last(a.winBinaries[j]) => i = j

LEMMA LastOfSrc == ASSUME NEW x, NEW y PROVE Last(Src(<<x, y>>)) = y
  BY DEF Src, Build, Last

LEMMA WindowsApart == \A p \in Projects : ApartOnWindows(ArchiveOf[p])
  <1>1. /\ Len(containerd.winBinaries) = 3
        /\ Last(containerd.winBinaries[1]) = "containerd.exe"
        /\ Last(containerd.winBinaries[2]) = "containerd-shim-runhcs-v1.exe"
        /\ Last(containerd.winBinaries[3]) = "ctr.exe"
    BY LastOfSrc DEF containerd, Archive
  <1>2. 1 .. 3 = {1, 2, 3}
    OBVIOUS
  <1>3. ApartOnWindows(containerd)
    BY <1>1, <1>2 DEF ApartOnWindows
  <1>4. /\ Len(engine.winBinaries) = 1 /\ Len(cli.winBinaries) = 1
        /\ Len(shim.winBinaries) = 0 /\ Len(runc.winBinaries) = 0 /\ Len(compose.winBinaries) = 0
        /\ Len(buildx.winBinaries) = 0 /\ Len(tini.winBinaries) = 0
    BY DEF engine, cli, shim, runc, compose, buildx, tini, Archive
  <1>5. ASSUME NEW a, Len(a.winBinaries) \in {0, 1} PROVE ApartOnWindows(a)
    BY <1>5 DEF ApartOnWindows
  <1> QED BY <1>3, <1>4, <1>5 DEF Projects, ArchiveOf

\* Entries with no place in common do not interfere.
LEMMA ApartIsEnough ==
  ASSUME job \in Jobs, NEW es \in Seq(Entry),
         \A i, j \in 1 .. Len(es) : \A q :
            Below(q, es[i].dest) /\ Below(q, es[j].dest) => i = j
  PROVE  NoInterference(es, Len(es))
  <1> SUFFICES ASSUME NEW i \in 1 .. Len(es), NEW j \in 1 .. Len(es), i < j,
                      Interferes(es[i], es[j])
               PROVE  FALSE
    BY DEF NoInterference
  <1>1. es[i] \in Entry /\ es[j] \in Entry
    OBVIOUS
  <1>2. PICK q : Below(q, es[i].dest) /\ Below(q, es[j].dest)
    BY <1>1, InterferenceMeets
  <1> QED BY <1>2

\* A list of entries followed by another.
LEMMA Joined ==
  ASSUME NEW S, NEW s \in Seq(S), NEW t \in Seq(S)
  PROVE  /\ Len(s \o t) = Len(s) + Len(t)
         /\ \A k \in 1 .. Len(s) : (s \o t)[k] = s[k]
         /\ \A k \in 1 .. Len(t) : (s \o t)[Len(s) + k] = t[k]
  BY ConcatProperties

LEMMA ShippedApart == ASSUME job \in Jobs PROVE ShippedDoNotInterfere
  <1> SUFFICES ASSUME NEW p \in Projects, job.archive = ArchiveOf[p]
               PROVE  NoInterference(entries, Len(entries))
    BY DEF ShippedDoNotInterfere
  <1> DEFINE a == job.archive
             fs == a.files
             us == a.units
             ws == a.winBinaries
  <1>1. /\ fs \in Seq(Entry) /\ us \in Seq(Entry) /\ ws \in Seq(Path \ {<<>>})
        /\ job.kind \in Kinds /\ entries \in Seq(Entry)
    BY JobsAssumption, EntriesType DEF entries
  <1>2. \A q : Alone(q, a, p)
    BY AllAlone
  <1> HIDE DEF a, fs, us, ws
  <1> SUFFICES ASSUME NEW i \in 1 .. Len(entries), NEW j \in 1 .. Len(entries), NEW q,
                      Below(q, entries[i].dest), Below(q, entries[j].dest)
               PROVE  i = j
    BY <1>1, ApartIsEnough
  <1>3. CASE job.kind = "deb"
    <2>1. entries = fs
      BY <1>3 DEF entries, Entries, a, fs
    <2> QED BY <1>2, <2>1 DEF Alone, fs
  <1>4. CASE job.kind = "rpm"
    <2>1. entries = fs \o us
      BY <1>4 DEF entries, Entries, a, fs, us
    <2>2. /\ Len(entries) = Len(fs) + Len(us)
          /\ \A k \in 1 .. Len(fs) : entries[k] = fs[k]
          /\ \A k \in 1 .. Len(us) : entries[Len(fs) + k] = us[k]
      BY ONLY <1>1, <2>1, Joined
    <2>3. Len(us) \in {0, 1} /\ Len(fs) \in Nat /\ Len(entries) = Len(fs) + Len(us)
      <3>1. Len(us) \in {0, 1}
        BY ONLY <1>2 DEF Alone, us
      <3>2. Len(fs) \in Nat
        BY ONLY <1>1
      <3> QED BY ONLY <2>2, <3>1, <3>2
    <2>4. ASSUME NEW k \in 1 .. Len(entries), k \notin 1 .. Len(fs)
          PROVE  k = Len(fs) + 1 /\ 1 \in 1 .. Len(us) /\ entries[k] = us[1]
      <3>1. Len(us) = 1 /\ k = Len(fs) + 1
        <4>1. \A n \in Nat, m \in {0, 1} : \A l \in 1 .. n + m : l \notin 1 .. n => m = 1 /\ l = n + 1
          OBVIOUS
        <4>2. k \in 1 .. Len(fs) + Len(us)
          BY <2>3
        <4> QED BY <2>3, <2>4, <4>1, <4>2
      <3> QED BY <2>2, <3>1
    <2>5. CASE i \in 1 .. Len(fs) /\ j \in 1 .. Len(fs)
      BY <1>2, <2>2, <2>5 DEF Alone, fs, us
    <2>6. CASE i \in 1 .. Len(fs) /\ j \notin 1 .. Len(fs)
      BY <1>2, <2>2, <2>4, <2>6 DEF Alone, fs, us
    <2>7. CASE i \notin 1 .. Len(fs) /\ j \in 1 .. Len(fs)
      BY <1>2, <2>2, <2>4, <2>7 DEF Alone, fs, us
    <2> QED BY ONLY <2>4, <2>5, <2>6, <2>7, i \in 1 .. Len(entries), j \in 1 .. Len(entries)
  <1>5. CASE job.kind = "win"
    <2>1. /\ Len(entries) = Len(ws)
          /\ \A k \in 1 .. Len(ws) : entries[k].dest = <<Last(ws[k])>>
      BY <1>1, <1>5 DEF entries, Entries, a, ws, CopyTo
    <2>2. \A x : Below(q, <<x>>) => q[1] = x
      BY DEF Below
    <2>3. Last(ws[i]) = q[1] /\ Last(ws[j]) = q[1]
      BY <2>1, <2>2
    <2> QED BY <2>1, <2>3, WindowsApart, SMTT(20) DEF ApartOnWindows, a, ws
  <1> QED BY ONLY <1>1, <1>3, <1>4, <1>5 DEF Kinds

\* The shipped archives are free of interference in every format, whatever make
\* left in the directories that containerd and runc copy.
THEOREM ShippedAreApart == Spec => []ShippedDoNotInterfere
  <1>1. IInv => ShippedDoNotInterfere
    BY ShippedApart DEF IInv, ControlOK
  <1> QED BY <1>1, Invariant, PTL

\* So a shipped package that is made has the layout its archive declares.
THEOREM ShippedLayout ==
  Spec => [](result = "done" /\ job.archive \in {ArchiveOf[p] : p \in Projects} =>
               /\ files = FilesUpTo(entries, Len(entries))
               /\ dirs = DirsUpTo(entries, Len(entries)))
  <1>1. LayoutAsDeclared /\ ShippedDoNotInterfere =>
          (result = "done" /\ job.archive \in {ArchiveOf[p] : p \in Projects} =>
             /\ files = FilesUpTo(entries, Len(entries))
             /\ dirs = DirsUpTo(entries, Len(entries)))
    BY DEF LayoutAsDeclared, ShippedDoNotInterfere
  <1> QED BY <1>1, PackageLayout, ShippedAreApart, PTL

-----------------------------------------------------------------------------
(* The binaries of a deb *)

\* An entry that copies source b, or a directory that b is in, as it is.
Ships(f, b) ==
  /\ ~f.isDir /\ f.compress = FALSE
  /\ f.source = b \/ \E x : f.source = Src(<<"bin">>) /\ b = Src(<<"bin", x>>)

Shipped(a) == \A b \in a.binaries : \E i \in 1 .. Len(a.files) : Ships(a.files[i], b)

\* Archive by archive, an entry for each binary.
LEMMA BinariesAreShipped == \A p \in Projects : Shipped(ArchiveOf[p])
  <1>1. Shipped(engine)
    <2>1. /\ Len(engine.files) = 9
          /\ engine.binaries = {engine.files[4].source, engine.files[5].source}
          /\ \A i \in {4, 5} : ~engine.files[i].isDir /\ engine.files[i].compress = FALSE
      BY DEF engine, Archive, CopyTo
    <2> QED BY <2>1 DEF Shipped, Ships
  <1>2. Shipped(containerd)
    <2>1. /\ Len(containerd.files) = 4 /\ containerd.files[1] = BinEntry
          /\ \A b \in containerd.binaries : \E x : b = Src(<<"bin", x>>)
      BY DEF containerd, Archive, BinEntry
    <2>2. BinEntry.source = Src(<<"bin">>) /\ ~BinEntry.isDir /\ BinEntry.compress = FALSE
      BY DEF BinEntry, CopyTo
    <2> QED BY <2>1, <2>2 DEF Shipped, Ships
  <1>3. ASSUME NEW a, Len(a.files) \in Nat \ {0}, a.binaries = {a.files[1].source},
               ~a.files[1].isDir, a.files[1].compress = FALSE
        PROVE  Shipped(a)
    BY <1>3 DEF Shipped, Ships
  <1>4. Shipped(shim) /\ Shipped(cli) /\ Shipped(runc)
    <2>1. Len(shim.files) \in Nat \ {0} /\ shim.binaries = {shim.files[1].source}
            /\ ~shim.files[1].isDir /\ shim.files[1].compress = FALSE
      BY DEF shim, Archive, CopyTo
    <2>2. Len(cli.files) \in Nat \ {0} /\ cli.binaries = {cli.files[1].source}
            /\ ~cli.files[1].isDir /\ cli.files[1].compress = FALSE
      BY DEF cli, Archive, CopyTo
    <2>3. Len(runc.files) \in Nat \ {0} /\ runc.binaries = {runc.files[1].source}
            /\ ~runc.files[1].isDir /\ runc.files[1].compress = FALSE
      BY DEF runc, Archive, CopyTo
    <2>4. Shipped(shim)
      BY ONLY <1>3, <2>1
    <2>5. Shipped(cli)
      BY ONLY <1>3, <2>2
    <2>6. Shipped(runc)
      BY ONLY <1>3, <2>3
    <2> QED BY <2>4, <2>5, <2>6
  <1>5. Shipped(compose) /\ Shipped(buildx) /\ Shipped(tini)
    <2>1. Len(compose.files) \in Nat \ {0} /\ compose.binaries = {compose.files[1].source}
            /\ ~compose.files[1].isDir /\ compose.files[1].compress = FALSE
      BY DEF compose, Archive, CopyTo, Plugin
    <2>2. Len(buildx.files) \in Nat \ {0} /\ buildx.binaries = {buildx.files[1].source}
            /\ ~buildx.files[1].isDir /\ buildx.files[1].compress = FALSE
      BY DEF buildx, Archive, CopyTo, Plugin
    <2>3. Len(tini.files) \in Nat \ {0} /\ tini.binaries = {tini.files[1].source}
            /\ ~tini.files[1].isDir /\ tini.files[1].compress = FALSE
      BY DEF tini, Archive, CopyTo
    <2>4. Shipped(compose)
      BY ONLY <1>3, <2>1
    <2>5. Shipped(buildx)
      BY ONLY <1>3, <2>2
    <2>6. Shipped(tini)
      BY ONLY <1>3, <2>3
    <2> QED BY <2>4, <2>5, <2>6
  <1> QED BY <1>1, <1>2, <1>4, <1>5 DEF Projects, ArchiveOf

\* A built file in a directory is among the files below it.
LEMMA FoundBelow ==
  ASSUME job \in Jobs, NEW s \in Path, NEW b \in job.built, IsStrictPrefix(s, b)
  PROVE  \E r \in FilesBelow(s) : s \o r = b
  <1> DEFINE r == SubSeq(b, Len(s) + 1, Len(b))
  <1>1. b \in Seq(STRING) /\ s \in Seq(STRING)
    BY JobsAssumption DEF Path
  <1>2. r \in FilesBelow(s)
    BY DEF FilesBelow
  <1>3. Len(s) <= Len(b) /\ SubSeq(s, 1, Len(s)) = SubSeq(b, 1, Len(s))
    BY DEF IsStrictPrefix, IsPrefix
  <1>4. s = SubSeq(b, 1, Len(s)) /\ b = SubSeq(b, 1, Len(b))
    BY <1>1, <1>3, SubSeqFull
  <1>5. SubSeq(b, 1, Len(s)) \o SubSeq(b, Len(s) + 1, Len(b)) = SubSeq(b, 1, Len(b))
    <2>1. 1 \in 1 .. Len(b) + 1 /\ Len(s) \in 1 - 1 .. Len(b) /\ Len(b) \in Len(s) .. Len(b)
      BY <1>1, <1>3
    <2> QED BY ONLY <1>1, <2>1, ConcatAdjacentSubSeq
  <1> QED BY <1>2, <1>4, <1>5

\* A binary that was built is staged, as it is, by the entry that ships it.
LEMMA BinaryStaged ==
  ASSUME job \in Jobs, NEW f \in Entry, NEW b \in job.built, Ships(f, b)
  PROVE  \E g \in PromisedFiles(f) : g.from = b /\ ~g.gz
  <1>1. /\ ~MakesDir(f) /\ ~GzipsTree(f) /\ f.compress = FALSE
        /\ f.source \in Path /\ b \in Path
    BY JobsAssumption DEF Ships, MakesDir, GzipsTree, Entry, Path
  <1>2. CASE f.source = b
    <2>1. PromisedFiles(f) = {Staged(f.dest, b, FALSE)}
      BY <1>1, <1>2 DEF PromisedFiles, FilesAt, IsBuiltFile
    <2> QED BY <2>1 DEF Staged
  <1>3. ASSUME NEW x, f.source = Src(<<"bin">>), b = Src(<<"bin", x>>)
        PROVE  \E g \in PromisedFiles(f) : g.from = b /\ ~g.gz
    <2>1. IsStrictPrefix(f.source, b)
      <3>1. /\ Len(f.source) = 3 /\ Len(b) = 4
            /\ \A k \in 1 .. 3 : f.source[k] = b[k]
        BY <1>3 DEF Src, Build
      <3>2. SubSeq(f.source, 1, 3) = SubSeq(b, 1, 3)
        BY <1>1, <3>1 DEF Path
      <3> QED BY <3>1, <3>2 DEF IsStrictPrefix, IsPrefix
    <2>2. ~IsBuiltFile(f.source)
      BY <2>1, JobsAssumption DEF IsBuiltFile
    <2>3. PICK r \in FilesBelow(f.source) : f.source \o r = b
      BY <1>1, <2>1, FoundBelow
    <2>4. Staged(f.dest \o r, f.source \o r, FALSE) \in PromisedFiles(f)
      BY <1>1, <2>2, <2>3 DEF PromisedFiles, FilesAt, GzipsFile
    <2> QED BY <2>3, <2>4 DEF Staged
  <1> QED BY <1>2, <1>3 DEF Ships

\* A deb of a shipped archive has the binaries whose libraries it depends on, for
\* every content of the directories that make fills; and no deb is made of the empty
\* archive of an unknown project.
THEOREM DebBinariesShipped == Spec => []DebShipsBinaries
  <1>1. ASSUME IInv, result = "done", job.kind = "deb",
               job.archive \in {ArchiveOf[p] : p \in Projects} \cup {Unknown}
        PROVE  /\ files # {}
               /\ job.archive.binaries \subseteq {g.from : g \in {h \in files : ~h.gz}}
    <2>1. /\ job \in Jobs /\ next = Len(entries) + 1 /\ entries \in Seq(Entry)
          /\ job.archive.binaries # {} /\ job.archive.binaries \subseteq job.built
      BY <1>1, EntriesType DEF IInv, ControlOK, PastStaging, ControlWritten, entries
    <2>2. PICK p \in Projects : job.archive = ArchiveOf[p]
      BY <1>1, <2>1 DEF Unknown, Archive
    <2>3. files = FilesUpTo(entries, Len(entries))
      <3>1. NoInterference(entries, Len(entries))
        BY <2>1, <2>2, ShippedApart DEF ShippedDoNotInterfere
      <3>2. next - 1 = Len(entries)
        BY <2>1
      <3> QED BY <1>1, <3>1, <3>2 DEF IInv, LayoutSoFar
    <2>4. entries = job.archive.files
      BY <1>1 DEF entries, Entries
    <2>5. ASSUME NEW b \in job.archive.binaries
          PROVE  \E g \in files : g.from = b /\ ~g.gz
      <3>1. PICK i \in 1 .. Len(entries) : Ships(entries[i], b)
        BY <2>2, <2>4, BinariesAreShipped DEF Shipped
      <3>2. entries[i] \in Entry
        BY <2>1
      <3>3. PICK g \in PromisedFiles(entries[i]) : g.from = b /\ ~g.gz
        BY <2>1, <3>1, <3>2, BinaryStaged
      <3> QED BY <2>3, <3>3 DEF FilesUpTo
    <2> QED BY <2>1, <2>5
  <1>2. IInv => DebShipsBinaries
    BY <1>1 DEF DebShipsBinaries
  <1> QED BY <1>2, Invariant, PTL

-----------------------------------------------------------------------------
(* The packages side by side *)

\* What is below a source has a name there.
LEMMA BelowIsNamed ==
  ASSUME job \in Jobs, NEW s \in Path, NEW r \in FilesBelow(s)
  PROVE  r \in Seq(STRING) /\ Len(r) >= 1
  <1>1. PICK p \in job.built : r = SubSeq(p, Len(s) + 1, Len(p)) /\ IsStrictPrefix(s, p)
    BY DEF FilesBelow
  <1>2. p \in Seq(STRING) /\ s \in Seq(STRING)
    BY JobsAssumption, <1>1 DEF Path
  <1>3. Len(s) <= Len(p) /\ s # p /\ SubSeq(s, 1, Len(s)) = SubSeq(p, 1, Len(s))
    BY <1>1 DEF IsStrictPrefix, IsPrefix
  <1>4. Len(s) # Len(p)
    BY <1>2, <1>3, SubSeqFull
  <1>5. \A i \in Len(s) + 1 .. Len(p) : p[i] \in STRING
    BY <1>2, <1>3
  <1>6. Len(r) = Len(p) - Len(s)
    BY <1>1, <1>2, <1>3, <1>4, <1>5, SubSeqProperties
  <1>7. Len(r) >= 1
    BY <1>2, <1>3, <1>4, <1>6
  <1> QED BY <1>7, FilesBelowType

\* No file is at the top of the manual pages, unless it is one itself.
LEMMA NoFileAtMan ==
  ASSUME job \in Jobs, NEW f \in Entry, ManDest \in Paths(PromisedFiles(f)),
         f \in {CopyTo(Build(<<"man">>), ManDest), GzipTreeTo(Build(<<"man">>), ManDest)}
  PROVE  f = CopyTo(Build(<<"man">>), ManDest) /\ IsBuiltFile(Build(<<"man">>))
  <1> DEFINE man == Build(<<"man">>)
  <1>1. man \in Path /\ ManDest \in Seq(STRING)
    <2>1. f.source = man /\ f.dest = ManDest
      BY DEF CopyTo, GzipTreeTo
    <2> QED BY <2>1 DEF Entry, Path
  <1>2. ASSUME NEW r \in FilesBelow(man) PROVE ManDest # ManDest \o r /\ ManDest # ManDest \o GzName(r)
    <2>1. r \in Seq(STRING) /\ Len(r) >= 1
      BY <1>1, <1>2, BelowIsNamed
    <2> DEFINE last == Last(r) \o ".gz"
               S == STRING \cup {last}
    <2>2. Front(r) \in Seq(S)
      BY <2>1 DEF Front
    <2>3. GzName(r) \in Seq(S) /\ Len(GzName(r)) = Len(Front(r)) + 1
      <3> HIDE DEF last
      <3> QED BY <2>2, AppendedName DEF GzName, last
    <2>4. r \in Seq(S) /\ ManDest \in Seq(S)
      BY <1>1, <2>1
    <2> HIDE DEF S
    <2>5. /\ Len(ManDest \o r) = Len(ManDest) + Len(r)
          /\ Len(ManDest \o GzName(r)) = Len(ManDest) + Len(GzName(r))
      BY <2>3, <2>4, ConcatProperties
    <2> QED BY <1>1, <2>1, <2>2, <2>3, <2>5
  <1>3. PICK g \in PromisedFiles(f) : g.path = ManDest
    BY DEF Paths
  <1> HIDE DEF man
  <1>4. CASE f = GzipTreeTo(man, ManDest)
    <2>1. g \in {Staged(ManDest \o GzName(r), man \o r, TRUE) : r \in FilesBelow(man)}
      <3>1. GzipsTree(f) /\ ~MakesDir(f) /\ f.source = man /\ f.dest = ManDest
        BY <1>4 DEF GzipTreeTo, GzipsTree, MakesDir, NoSource, man, Build
      <3> QED BY <1>3, <3>1 DEF PromisedFiles, FilesAt
    <2> QED BY <1>2, <1>3, <2>1 DEF Staged
  <1>5. CASE f = CopyTo(man, ManDest) /\ ~IsBuiltFile(man)
    <2>1. g \in {Staged(ManDest \o r, man \o r, FALSE) : r \in FilesBelow(man)}
      <3>1. ~GzipsTree(f) /\ ~MakesDir(f) /\ f.source = man /\ f.dest = ManDest
        BY <1>5 DEF CopyTo, GzipsTree, MakesDir
      <3> QED BY <1>3, <1>5, <3>1 DEF PromisedFiles, FilesAt
    <2> QED BY <1>2, <1>3, <2>1 DEF Staged
  <1> QED BY <1>4, <1>5 DEF man

\* What containerd's makefile put into bin is containerd's, if no other package
\* has the name.
LEMMA BinIsContainerds ==
  ASSUME job \in Jobs, BinEntry \in Entry, ContainerdMade, NEW x \in Paths(PromisedFiles(BinEntry))
  PROVE  OwnerOf(x) = "moby-containerd"
  <1> DEFINE bin == Src(<<"bin">>)
             t == <<"usr", "bin">>
  <1>1. bin \in Path /\ t \in Seq(STRING) /\ Len(t) = 2
    <2>1. BinEntry.source = bin /\ BinEntry.dest = t
      BY DEF BinEntry, CopyTo
    <2> QED BY <2>1 DEF Entry, Path
  <1>2. PICK g \in PromisedFiles(BinEntry) : g.path = x
    BY DEF Paths
  <1>3. \/ g = Staged(t, bin, FALSE)
        \/ g \in {Staged(t \o r, bin \o r, FALSE) : r \in FilesBelow(bin)}
    <2> HIDE DEF bin, t
    <2>1. /\ ~GzipsTree(BinEntry) /\ ~MakesDir(BinEntry) /\ ~BinEntry.compress
          /\ ~GzipsFile(BinEntry) /\ BinEntry.compress = FALSE
          /\ BinEntry.source = bin /\ BinEntry.dest = t
      BY DEF BinEntry, CopyTo, GzipsTree, GzipsFile, MakesDir, bin, t
    <2>2. g \in IF IsBuiltFile(bin) THEN {Staged(t, bin, FALSE)}
                ELSE {Staged(t \o r, bin \o r, FALSE) : r \in FilesBelow(bin)}
      BY <1>2, <2>1 DEF PromisedFiles, FilesAt
    <2> QED BY <2>2
  <1>4. CASE g = Staged(t, bin, FALSE)
    BY <1>2, <1>4 DEF Staged, OwnerOf, BinOwner
  <1>5. ASSUME NEW r \in FilesBelow(bin), x = t \o r
        PROVE  Len(x) >= 3 /\ x[1] = "usr" /\ x[2] = "bin" /\ x[3] = r[1]
    <2>1. r \in Seq(STRING) /\ Len(r) >= 1
      BY <1>1, <1>5, BelowIsNamed
    <2>2. /\ Len(t \o r) = 2 + Len(r)
          /\ (t \o r)[1] = t[1] /\ (t \o r)[2] = t[2] /\ (t \o r)[2 + 1] = r[1]
      <3> HIDE DEF t
      <3>1. /\ Len(t \o r) = Len(t) + Len(r)
            /\ \A k \in 1 .. Len(t) : (t \o r)[k] = t[k]
            /\ \A k \in 1 .. Len(r) : (t \o r)[Len(t) + k] = r[k]
        <4>1. t \in Seq(STRING) /\ r \in Seq(STRING)
          BY <1>1, <2>1
        <4> QED BY ONLY <4>1, Joined
      <3> QED BY <1>1, <2>1, <3>1
    <2> QED BY <1>5, <2>1, <2>2
  <1>6. ASSUME NEW r \in FilesBelow(bin), x = t \o r PROVE OwnerOf(x) = "moby-containerd"
    <2>1. Len(x) >= 3 /\ x[1] = "usr" /\ x[2] = "bin" /\ x[3] = r[1]
      BY <1>5, <1>6
    <2>2. r[1] \notin {"dockerd", "docker-proxy", "containerd-shim-systemd-v1", "docker", "runc",
                       "docker-init"}
      BY <1>6 DEF ContainerdMade
    <2> QED BY <2>1, <2>2 DEF OwnerOf, BinOwner
  <1>7. CASE g \in {Staged(t \o r, bin \o r, FALSE) : r \in FilesBelow(bin)}
    <2> HIDE DEF t, bin
    <2>1. PICK r \in FilesBelow(bin) : g = Staged(t \o r, bin \o r, FALSE)
      BY <1>7
    <2>2. x = t \o r
      BY <1>2, <2>1 DEF Staged
    <2> QED BY <1>6, <2>2
  <1> QED BY <1>3, <1>4, <1>7

\* The lists of an archive in the tables are sequences.
LEMMA Tuples ==
  /\ \A a, b, c : <<a, b, c>> \in Seq({a, b, c})
  /\ \A a, b, c, d : <<a, b, c, d>> \in Seq({a, b, c, d})
  /\ \A a, b, c, d, e : <<a, b, c, d, e>> \in Seq({a, b, c, d, e})
  /\ \A a, b, c, d, e, f, g, h, i :
       <<a, b, c, d, e, f, g, h, i>> \in Seq({a, b, c, d, e, f, g, h, i})
  /\ \A a : <<a>> \in Seq({a})
  /\ \A S : <<>> \in Seq(S)
  OBVIOUS

LEMMA TableTypes ==
  \A p \in Projects : \E S : ArchiveOf[p].files \in Seq(S) /\ ArchiveOf[p].units \in Seq(S)
  <1> DEFINE Typed(a) == (\E S : a.files \in Seq(S)) /\ (\E S : a.units \in Seq(S))
  <1>1. /\ Typed(engine) /\ Typed(containerd) /\ Typed(shim) /\ Typed(cli) /\ Typed(runc)
        /\ Typed(compose) /\ Typed(buildx) /\ Typed(tini)
    BY Tuples DEF engine, containerd, shim, cli, runc, compose, buildx, tini, Archive
  <1>2. \A p \in Projects : Typed(ArchiveOf[p])
    <2> HIDE DEF Typed
    <2> QED BY <1>1 DEF Projects, ArchiveOf
  <1> SUFFICES ASSUME NEW p \in Projects
               PROVE  \E S : ArchiveOf[p].files \in Seq(S) /\ ArchiveOf[p].units \in Seq(S)
    OBVIOUS
  <1>3. PICK S : ArchiveOf[p].files \in Seq(S)
    BY <1>2
  <1>4. PICK T : ArchiveOf[p].units \in Seq(T)
    BY <1>2
  <1>5. ArchiveOf[p].files \in Seq(S \cup T) /\ ArchiveOf[p].units \in Seq(S \cup T)
    BY <1>3, <1>4
  <1> QED BY <1>5

\* An element of two lists joined is one of either.
LEMMA ElementOfJoined ==
  ASSUME NEW S, NEW s \in Seq(S), NEW t \in Seq(S), NEW n \in 1 .. Len(s \o t)
  PROVE  \/ \E k \in 1 .. Len(s) : (s \o t)[n] = s[k]
         \/ \E k \in 1 .. Len(t) : (s \o t)[n] = t[k]
  <1>1. /\ Len(s \o t) = Len(s) + Len(t)
        /\ \A k \in 1 .. Len(s) : (s \o t)[k] = s[k]
        /\ \A k \in 1 .. Len(t) : (s \o t)[Len(s) + k] = t[k]
    BY Joined
  <1>2. Len(s) \in Nat /\ Len(t) \in Nat
    OBVIOUS
  <1>3. CASE n <= Len(s)
    BY <1>1, <1>2, <1>3
  <1>4. CASE n > Len(s)
    <2>1. n - Len(s) \in 1 .. Len(t) /\ n = Len(s) + (n - Len(s))
      BY <1>1, <1>2, <1>4
    <2> QED BY <1>1, <2>1
  <1> QED BY <1>2, <1>3, <1>4

LEMMA BelowItself ==
  ASSUME NEW x, NEW d, Below(x, d)
  PROVE  Below(x, x)
  BY DEF Below

\* A destination that an archive names is its own, or the manual pages.
LEMMA DestOwner ==
  ASSUME NEW q \in Projects, NEW n \in DOMAIN (ArchiveOf[q].files \o ArchiveOf[q].units),
         NEW x, x = (ArchiveOf[q].files \o ArchiveOf[q].units)[n].dest, Below(x, x)
  PROVE  OwnerOf(x) = q \/ x = ManDest
  <1> DEFINE fs == ArchiveOf[q].files
             us == ArchiveOf[q].units
  <1>1. PICK S : fs \in Seq(S) /\ us \in Seq(S)
    BY TableTypes
  <1>2. Alone(x, ArchiveOf[q], q)
    BY AllAlone
  <1> HIDE DEF fs, us
  <1>3. n \in 1 .. Len(fs \o us)
    <2>1. DOMAIN (fs \o us) = 1 .. Len(fs \o us)
      BY ONLY <1>1
    <2>2. n \in DOMAIN (fs \o us)
      BY DEF fs, us
    <2> QED BY ONLY <2>1, <2>2
  <1>4. \/ \E k \in 1 .. Len(fs) : (fs \o us)[n] = fs[k]
        \/ \E k \in 1 .. Len(us) : (fs \o us)[n] = us[k]
    <2>1. fs \in Seq(S) /\ us \in Seq(S)
      BY <1>1
    <2>3. /\ Len(fs \o us) = Len(fs) + Len(us)
          /\ \A k \in 1 .. Len(fs) : (fs \o us)[k] = fs[k]
          /\ \A k \in 1 .. Len(us) : (fs \o us)[Len(fs) + k] = us[k]
      BY ONLY <2>1, Joined
    <2>4. Len(fs) \in Nat /\ Len(us) \in Nat
      BY ONLY <2>1
    <2>5. CASE n <= Len(fs)
      BY ONLY <1>3, <2>3, <2>4, <2>5
    <2>6. CASE n > Len(fs)
      <3>1. n - Len(fs) \in 1 .. Len(us) /\ n = Len(fs) + (n - Len(fs))
        BY ONLY <1>3, <2>3, <2>4, <2>6
      <3> QED BY ONLY <2>3, <3>1
    <2> QED BY ONLY <1>3, <2>4, <2>5, <2>6
  <1>5. CASE \E k \in 1 .. Len(us) : (fs \o us)[n] = us[k]
    <2>1. PICK k \in 1 .. Len(us) : x = us[k].dest
      BY <1>5 DEF fs, us
    <2> QED BY <1>2, <2>1 DEF Alone, us
  <1>6. CASE \E k \in 1 .. Len(fs) : (fs \o us)[n] = fs[k]
    <2>1. PICK k \in 1 .. Len(fs) : x = fs[k].dest
      BY <1>6 DEF fs, us
    <2>2. Owns(x, q, fs[k])
      BY <1>2, <2>1 DEF Alone, fs
    <2>3. CASE q = "moby-containerd" /\ fs[k] = BinEntry
      <3>1. x = <<"usr", "bin">>
        BY <2>1, <2>3 DEF BinEntry, CopyTo
      <3>2. Len(x) = 2 /\ x[1] = "usr" /\ x[2] = "bin"
        BY ONLY <3>1
      <3> QED BY ONLY <2>3, <3>2 DEF OwnerOf, BinOwner
    <2>4. CASE fs[k] \in {CopyTo(Build(<<"man">>), ManDest), GzipTreeTo(Build(<<"man">>), ManDest)}
      BY <2>1, <2>4 DEF CopyTo, GzipTreeTo
    <2> QED BY <2>2, <2>3, <2>4 DEF Owns
  <1> QED BY <1>4, <1>5, <1>6

\* A file that an entry stages is its package's, or a manual page.
LEMMA FileOwner ==
  ASSUME job \in Jobs, NEW p \in Projects, job.archive = ArchiveOf[p], job.kind # "win",
         p = "moby-containerd" => ContainerdMade,
         NEW n \in 1 .. Len(entries), NEW x \in Paths(PromisedFiles(entries[n]))
  PROVE  OwnerOf(x) = p \/ (OwnerOf(x) = "manual pages" /\ x # ManDest)
  <1> DEFINE fs == ArchiveOf[p].files
             us == ArchiveOf[p].units
             f == entries[n]
             man == {CopyTo(Build(<<"man">>), ManDest), GzipTreeTo(Build(<<"man">>), ManDest)}
  <1>1. /\ fs \in Seq(Entry) /\ us \in Seq(Entry) /\ entries \in Seq(Entry)
        /\ job.kind \in {"deb", "rpm"} /\ f \in Entry
    BY JobsAssumption, EntriesType DEF entries, Kinds
  <1>2. Below(x, f.dest)
    BY <1>1, PromisedBelow
  <1>3. Alone(x, ArchiveOf[p], p)
    BY AllAlone
  <1> HIDE DEF fs, us, f, man
  <1>4. entries = fs \/ entries = fs \o us
    BY <1>1 DEF entries, Entries, fs, us
  <1>5. \/ \E k \in 1 .. Len(fs) : f = fs[k]
        \/ \E k \in 1 .. Len(us) : f = us[k]
    <2>1. CASE entries = fs
      BY <2>1 DEF f
    <2>2. CASE entries = fs \o us
      BY <1>1, <2>2, ElementOfJoined DEF f
    <2> QED BY <1>4, <2>1, <2>2
  <1>6. OwnerOf(x) = p \/ Owns(x, p, f)
    BY <1>2, <1>3, <1>5 DEF Alone, fs, us
  <1>7. CASE p = "moby-containerd" /\ f = BinEntry
    BY <1>1, <1>7, BinIsContainerds DEF f
  <1>8. CASE f \in man /\ (f.compress \/ p = "moby-containerd")
    <2>1. x # ManDest
      <3> SUFFICES ASSUME x = ManDest PROVE FALSE
        OBVIOUS
      <3>1. f = CopyTo(Build(<<"man">>), ManDest) /\ IsBuiltFile(Build(<<"man">>))
        BY <1>1, <1>8, NoFileAtMan DEF f, man
      <3>2. p # "moby-containerd"
        BY <3>1 DEF ContainerdMade
      <3> QED BY <1>8, <3>1, <3>2 DEF CopyTo
    <2>2. f.dest = ManDest
      BY <1>8 DEF man, CopyTo, GzipTreeTo
    <2>3. x[1] = "usr" /\ x[2] = "share" /\ x[3] = "man"
      BY <1>2, <2>2 DEF Below, ManDest
    <2> QED BY <2>1, <2>3 DEF OwnerOf, ShareOwner
  <1>9. f = GzipTreeTo(Build(<<"man">>), ManDest) => f \in man /\ f.compress
    BY DEF man, GzipTreeTo
  <1> QED BY <1>6, <1>7, <1>8, <1>9 DEF Owns, man

\* No package ships a file at a path that another one's archive names, for every
\* content of the directories that make fills, as long as containerd's keeps to
\* names of its own in bin.
THEOREM PackagesDoNotConflict == Spec => []NoFileConflict
  <1>1. IInv => NoFileConflict
    <2> SUFFICES ASSUME IInv, NEW p \in Projects, job.archive = ArchiveOf[p], job.kind # "win",
                        p = "moby-containerd" => ContainerdMade,
                        NEW q \in Projects \ {p},
                        NEW j \in DOMAIN (ArchiveOf[q].files \o ArchiveOf[q].units),
                        NEW x \in Paths(files),
                        x = (ArchiveOf[q].files \o ArchiveOf[q].units)[j].dest
                 PROVE  FALSE
      BY DEF NoFileConflict
    <2>1. job \in Jobs /\ next \in 1 .. Len(entries) + 1 /\ entries \in Seq(Entry)
      BY EntriesType DEF IInv, ControlOK, entries
    <2>2. NoInterference(entries, Len(entries))
      BY <2>1, ShippedApart DEF ShippedDoNotInterfere
    <2>3. files = FilesUpTo(entries, next - 1)
      <3>1. 1 .. next - 1 \subseteq 1 .. Len(entries)
        BY <2>1
      <3>2. NoInterference(entries, next - 1)
        BY <2>2, <3>1 DEF NoInterference
      <3> QED BY <3>2 DEF IInv, LayoutSoFar
    <2>4. PICK n \in 1 .. next - 1 : x \in Paths(PromisedFiles(entries[n]))
      <3>1. PICK g \in files : x = g.path
        BY DEF Paths
      <3>2. PICK n \in 1 .. next - 1 : g \in PromisedFiles(entries[n])
        BY ONLY <2>3, <3>1 DEF FilesUpTo
      <3> QED BY ONLY <3>1, <3>2 DEF Paths
    <2>5. n \in 1 .. Len(entries) /\ entries[n] \in Entry
      BY <2>1
    <2>6. OwnerOf(x) = p \/ (OwnerOf(x) = "manual pages" /\ x # ManDest)
      BY <2>1, <2>4, <2>5, FileOwner
    <2>7. Below(x, x)
      <3>1. Below(x, entries[n].dest)
        BY <2>1, <2>4, <2>5, PromisedBelow
      <3> QED BY ONLY <3>1, BelowItself
    <2>8. OwnerOf(x) = q \/ x = ManDest
      BY <2>7, DestOwner
    <2>9. OwnerOf(ManDest) = "manual pages"
      BY DEF ManDest, OwnerOf, ShareOwner
    <2>10. "manual pages" \notin Projects
      BY DEF Projects
    <2> QED BY <2>6, <2>8, <2>9, <2>10
  <1> QED BY <1>1, Invariant, PTL

=============================================================================
