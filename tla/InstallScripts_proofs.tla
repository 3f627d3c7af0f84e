------------------------ MODULE InstallScripts_proofs ------------------------
(***************************************************************************)
(* Proof about the scripts of packages, for lists of scripts of any        *)
(* length: each runs when it is due.                                       *)
(***************************************************************************)
EXTENDS InstallScripts, TLAPS

\* The scripts before next are in their files, the last one of each file in the
\* end, and fpm is told of exactly those files.
Assembled ==
  /\ archive \in Archives
  /\ next \in 1 .. Len(scripts) + 1
  /\ files \in [Files -> Nat]
  /\ flags \subseteq Files
  /\ \A f \in flags : files[f] \in 1 .. next - 1 /\ FileOf(kind, scripts[files[f]]) = f
  /\ \A i \in 1 .. next - 1 :
       LET f == FileOf(kind, scripts[i]) IN f \in flags /\ files[f] >= i

\* What ran is what the file of the event has.
RanFromFile ==
  event # "building" =>
    /\ next = Len(scripts) + 1
    /\ event \in DOMAIN Events
    /\ ran = {i \in {files[f] : f \in flags \cap {Events[event].file}} :
                Guard(kind, scripts[i], Events[event].one)}

Invariant == Assembled /\ RanFromFile

LEMMA ArchiveType ==
  ASSUME archive \in Archives
  PROVE  /\ kind \in {"deb", "rpm"}
         /\ scripts \in Seq(Actions)
         /\ Len(scripts) \in Nat
         /\ \A i \in Indices : scripts[i] \in Actions
  BY ArchivesAssumption DEF kind, scripts, Indices

LEMMA FileOfType == \A k, when : FileOf(k, when) \in Files
  BY DEF FileOf, Files

LEMMA InitInvariant == Init => Invariant
  <1> SUFFICES ASSUME Init PROVE Invariant
    OBVIOUS
  <1>1. Len(scripts) \in Nat
    BY ArchiveType DEF Init
  <1> QED BY <1>1 DEF Init, Invariant, Assembled, RanFromFile, none

LEMMA NextInvariant == Invariant /\ [Next]_vars => Invariant'
  <1> SUFFICES ASSUME Invariant, [Next]_vars PROVE Invariant'
    OBVIOUS
  <1>1. CASE UNCHANGED vars
    BY <1>1 DEF Invariant, Assembled, RanFromFile, vars, kind, scripts, Events, DebEvents, RpmEvents
  <1>2. CASE InstallScript
    <2> DEFINE file == FileOf(kind, scripts[next])
    <2>1. /\ archive' = archive /\ event = "building" /\ event' = "building"
          /\ next \in 1 .. Len(scripts) /\ next' = next + 1
          /\ files' = [files EXCEPT ![file] = next]
          /\ flags' = flags \cup {file}
      BY <1>2 DEF InstallScript, Indices
    <2>2. kind' = kind /\ scripts' = scripts /\ Len(scripts) \in Nat /\ file \in Files
      BY <2>1, ArchiveType, FileOfType DEF kind, scripts, Invariant, Assembled
    <2> HIDE DEF file
    <2>3. next \in Nat /\ next' \in 1 .. Len(scripts) + 1
      BY <2>1, <2>2
    <2>4. files' \in [Files -> Nat] /\ flags' \subseteq Files
      BY <2>1, <2>2, <2>3 DEF Invariant, Assembled
    <2>5. ASSUME NEW f \in flags'
          PROVE  files'[f] \in 1 .. next' - 1 /\ FileOf(kind, scripts[files'[f]]) = f
      <3>1. CASE f = file
        BY <2>1, <2>2, <2>3, <3>1 DEF Invariant, Assembled, file
      <3>2. CASE f # file
        <4>1. f \in flags /\ files'[f] = files[f]
          BY <2>1, <2>2, <3>2 DEF Invariant, Assembled
        <4> QED BY <4>1, <2>1, <2>3 DEF Invariant, Assembled
      <3> QED BY <3>1, <3>2
    <2>6. ASSUME NEW i \in 1 .. next' - 1
          PROVE  FileOf(kind, scripts[i]) \in flags' /\ files'[FileOf(kind, scripts[i])] >= i
      <3> DEFINE f == FileOf(kind, scripts[i])
      <3>1. CASE f = file
        <4>1. files'[file] = next /\ next >= i
          BY <2>1, <2>2, <2>3 DEF Invariant, Assembled
        <4> QED BY <4>1, <3>1, <2>1
      <3>2. CASE f # file
        <4>1. i \in 1 .. next - 1
          BY <2>1, <2>3, <3>2 DEF file
        <4>2. f \in flags /\ files[f] >= i
          BY <4>1 DEF Invariant, Assembled
        <4>3. files'[f] = files[f]
          BY <2>1, <3>2, FileOfType DEF Invariant, Assembled
        <4> QED BY <2>1, <4>2, <4>3
      <3> QED BY <3>1, <3>2
    <2>7. Assembled'
      BY <2>1, <2>2, <2>3, <2>4, <2>5, <2>6 DEF Invariant, Assembled
    <2> QED BY <2>1, <2>7 DEF Invariant, RanFromFile
  <1>3. ASSUME NEW e \in DOMAIN Events, Happens(e) PROVE Invariant'
    <2>1. /\ UNCHANGED <<archive, next, files, flags>>
          /\ event' = e /\ next > Len(scripts)
          /\ ran' = {i \in {files[f] : f \in flags \cap {Events[e].file}} :
                       Guard(kind, scripts[i], Events[e].one)}
      BY <1>3 DEF Happens
    <2>2. kind' = kind /\ scripts' = scripts /\ Events' = Events
      BY <2>1 DEF kind, scripts, Events, DebEvents, RpmEvents
    <2>3. Assembled'
      BY <2>1, <2>2 DEF Invariant, Assembled
    <2>4. next' = Len(scripts) + 1
      BY <2>1, ArchiveType DEF Invariant, Assembled
    <2> QED BY <2>1, <2>2, <2>3, <2>4 DEF Invariant, RanFromFile
  <1> QED BY <1>1, <1>2, <1>3 DEF Next

-----------------------------------------------------------------------------

\* In the end a script is in its file and in no other, unless a later one of
\* the archive took it.
LEMMA InItsFile ==
  ASSUME Assembled, next = Len(scripts) + 1, NEW i \in Indices
  PROVE  \A f \in flags : files[f] = i <=> f = FileOf(kind, scripts[i]) /\ ~Replaced(i)
  <1> DEFINE own == FileOf(kind, scripts[i])
  <1> USE DEF Assembled
  <1>1. Len(scripts) \in Nat /\ Indices = 1 .. next - 1
    BY ArchiveType DEF Indices
  <1>2. own \in flags /\ files[own] >= i /\ files[own] \in Indices
        /\ FileOf(kind, scripts[files[own]]) = own
    BY <1>1
  <1>3. files[own] = i <=> ~Replaced(i)
    <2>1. files[own] # i => Replaced(i)
      BY <1>1, <1>2 DEF Replaced
    <2>2. ASSUME NEW j \in Indices, j > i, FileOf(kind, scripts[j]) = own PROVE files[own] # i
      <3>1. files[own] >= j
        BY <1>1, <2>2
      <3> QED BY <3>1, <2>2, <1>1, <1>2
    <2> QED BY <2>1, <2>2 DEF Replaced
  <1>4. \A f \in flags : files[f] = i => f = own
    OBVIOUS
  <1> QED BY <1>2, <1>3, <1>4

\* The file and the if are those of the moments at which the script is due.
LEMMA DueByFile ==
  ASSUME Assembled, next = Len(scripts) + 1, NEW i \in Indices, NEW e \in DOMAIN Events
  PROVE  e \in Due(i) <=> /\ FileOf(kind, scripts[i]) = Events[e].file
                          /\ Guard(kind, scripts[i], Events[e].one)
  <1>1. kind \in {"deb", "rpm"} /\ scripts[i] \in Actions
    BY ArchiveType DEF Assembled
  <1>2. CASE kind = "deb"
    <2>1. Events = DebEvents
      BY <1>2 DEF Events
    <2>2. e \in {"install", "upgrade", "rollback", "keep", "replacing", "removing", "removed", "purged"}
      BY <2>1 DEF DebEvents
    <2>3. CASE scripts[i] \in {"PostInstall", "Upgrade"}
      <3>1. /\ FileOf(kind, scripts[i]) = "postinst"
            /\ Due(i) = {"install", "upgrade", "rollback", "keep"}
        BY <1>2, <2>3 DEF FileOf, Due
      <3>2. Guard(kind, scripts[i], Events[e].one) <=>
              Events[e].one \in {"configure", "abort-upgrade", "abort-deconfigure", "abort-remove"}
        BY <1>2, <2>3 DEF Guard
      <3>3. /\ e \in Due(i) => Events[e].file = "postinst"
            /\ Events[e].file = "postinst" => e \in Due(i)
        BY <2>1, <2>2, <3>1 DEF DebEvents, Runs
      <3>4. e \in Due(i) => Events[e].one \in {"configure", "abort-upgrade", "abort-remove"}
        BY <2>1, <2>2, <3>1 DEF DebEvents, Runs
      <3> QED BY <3>1, <3>2, <3>3, <3>4
    <2>4. CASE scripts[i] = "PreRemoval"
      BY <1>2, <2>1, <2>2, <2>4 DEF Due, FileOf, Guard, DebEvents, Runs
    <2>5. CASE scripts[i] = "PostRemoval"
      BY <1>2, <2>1, <2>2, <2>5 DEF Due, FileOf, Guard, DebEvents, Runs
    <2> QED BY <1>1, <2>3, <2>4, <2>5 DEF Actions
  <1>3. CASE kind = "rpm"
    <2>1. Events = RpmEvents
      BY <1>3 DEF Events
    <2>2. e \in {"install", "upgrade", "replacing", "removing"}
      BY <2>1 DEF RpmEvents
    <2>3. "postup" \in flags <=> \E j \in Indices : scripts[j] = "Upgrade"
      <3>1. Indices = 1 .. next - 1
        BY ArchiveType DEF Indices, Assembled
      <3>2. \A j \in Indices : FileOf(kind, scripts[j]) = "postup" <=> scripts[j] = "Upgrade"
        BY <1>3 DEF FileOf
      <3>3. ASSUME "postup" \in flags PROVE \E j \in Indices : scripts[j] = "Upgrade"
        <4>1. files["postup"] \in Indices /\ FileOf(kind, scripts[files["postup"]]) = "postup"
          BY <3>1, <3>3 DEF Assembled
        <4> QED BY <3>2, <4>1
      <3>4. ASSUME NEW j \in Indices, scripts[j] = "Upgrade" PROVE "postup" \in flags
        <4>1. FileOf(kind, scripts[j]) \in flags
          BY <3>1 DEF Assembled
        <4> QED BY <3>2, <3>4, <4>1
      <3> QED BY <3>3, <3>4
    <2>4. CASE scripts[i] = "PostInstall"
      <3>1. FileOf(kind, scripts[i]) = "postinst" /\ Guard(kind, scripts[i], Events[e].one)
        BY <1>3, <2>4 DEF FileOf, Guard
      <3>2. Due(i) = {"install"} \cup IF "postup" \in flags THEN {} ELSE {"upgrade"}
        BY <1>3, <2>3, <2>4 DEF Due
      <3>3. Events[e].file = "postinst" <=> e = "install" \/ (e = "upgrade" /\ "postup" \notin flags)
        BY <2>1, <2>2 DEF RpmEvents, Runs
      <3> QED BY <3>1, <3>2, <3>3
    <2>5. CASE scripts[i] = "Upgrade"
      <3>1. FileOf(kind, scripts[i]) = "postup" /\ Due(i) = {"upgrade"}
        BY <1>3, <2>5 DEF FileOf, Due
      <3>2. Events[e].file = "postup" <=> e = "upgrade"
        BY <2>1, <2>2, <2>3, <2>5 DEF RpmEvents, Runs
      <3>3. e = "upgrade" => Events[e].one = 2
        BY <2>1 DEF RpmEvents, Runs
      <3>4. e = "upgrade" => Guard(kind, scripts[i], Events[e].one)
        BY <1>3, <2>5, <3>3 DEF Guard
      <3> QED BY <3>1, <3>2, <3>4
    <2>6. CASE scripts[i] \in {"PreRemoval", "PostRemoval"}
      <3>1. FileOf(kind, scripts[i]) = "prerm" /\ Due(i) = {"removing"}
        BY <1>3, <2>6 DEF FileOf, Due
      <3>2. Guard(kind, scripts[i], Events[e].one) <=> Events[e].one = 0
        BY <1>3, <2>6 DEF Guard
      <3>3. Events[e].file = "prerm" /\ Events[e].one = 0 <=> e = "removing"
        BY <2>1, <2>2 DEF RpmEvents, Runs
      <3> QED BY <3>1, <3>2, <3>3
    <2> QED BY <1>1, <2>4, <2>5, <2>6 DEF Actions
  <1> QED BY <1>1, <1>2, <1>3

\* No shipped package has two scripts for one file.
LEMMA ShippedApart ==
  ASSUME archive \in Shipped, NEW i \in Indices PROVE ~Replaced(i)
  <1>1. /\ kind \in {"deb", "rpm"}
        /\ \/ scripts = <<"PostInstall">>
           \/ kind = "rpm" /\ scripts = <<"PostInstall", "PreRemoval", "Upgrade">>
           \/ kind = "deb" /\ scripts = <<"PostInstall", "PreRemoval", "PostRemoval">>
    BY DEF Shipped, engine, containerd, shim, cli, Of, kind, scripts
  <1>2. CASE scripts = <<"PostInstall">>
    BY <1>2 DEF Indices, Replaced
  <1>3. CASE kind = "rpm" /\ scripts = <<"PostInstall", "PreRemoval", "Upgrade">>
    <2>1. \A j \in Indices :
            FileOf(kind, scripts[j]) = IF j = 1 THEN "postinst" ELSE IF j = 2 THEN "prerm" ELSE "postup"
      BY <1>3 DEF Indices, FileOf
    <2> QED BY <1>3, <2>1 DEF Indices, Replaced
  <1>4. CASE kind = "deb" /\ scripts = <<"PostInstall", "PreRemoval", "PostRemoval">>
    <2>1. \A j \in Indices :
            FileOf(kind, scripts[j]) = IF j = 1 THEN "postinst" ELSE IF j = 2 THEN "prerm" ELSE "postrm"
      BY <1>4 DEF Indices, FileOf
    <2> QED BY <1>4, <2>1 DEF Indices, Replaced
  <1> QED BY <1>1, <1>2, <1>3, <1>4

\* Each script runs when it is due, whatever archives there are and however many
\* scripts they have.
THEOREM ScriptsRunWhenDue == Spec => []RunWhenDue
  <1>1. Invariant => RunWhenDue
    <2> SUFFICES ASSUME Invariant, event # "building", NEW i \in Indices
                 PROVE  i \in ran <=> event \in Due(i) /\ (archive \in Shipped \/ ~Replaced(i))
      BY DEF RunWhenDue
    <2>1. /\ next = Len(scripts) + 1 /\ event \in DOMAIN Events
          /\ ran = {j \in {files[f] : f \in flags \cap {Events[event].file}} :
                      Guard(kind, scripts[j], Events[event].one)}
      BY DEF Invariant, RanFromFile
    <2>2. FileOf(kind, scripts[i]) \in flags
      BY <2>1, ArchiveType DEF Invariant, Assembled, Indices
    <2>3. i \in ran <=> /\ FileOf(kind, scripts[i]) = Events[event].file
                        /\ Guard(kind, scripts[i], Events[event].one)
                        /\ ~Replaced(i)
      BY <2>1, <2>2, InItsFile DEF Invariant
    <2> QED BY <2>1, <2>3, DueByFile, ShippedApart DEF Invariant
  <1> QED BY <1>1, InitInvariant, NextInvariant, PTL DEF Spec
=============================================================================
