---------------------------- MODULE InstallScripts ----------------------------
(***************************************************************************)
(* How the InstallScripts of an archive become the maintainer scripts of a *)
(* package (withInstallScripts and installScript of deb.go and rpm.go),    *)
(* and which of them then run at each event of the package's life.         *)
(*                                                                         *)
(* A script goes to a file chosen by its PkgAction, inside an if on $1; a  *)
(* second one for the same file overwrites the first.                      *)
(*                                                                         *)
(* External: the arguments dpkg and rpm pass; and fpm, which makes the     *)
(* rpm's %post of --after-install and --after-upgrade: without the latter  *)
(* the former runs on upgrades too.                                        *)
(***************************************************************************)
EXTENDS Integers, Sequences

CONSTANT Archives   \* packages: a kind and the PkgActions of the scripts, in order

Of(k, s) == [kind |-> k, scripts |-> s]

\* The packages that have scripts.
engine     == {Of("rpm", <<"PostInstall", "PreRemoval", "Upgrade">>),
               Of("deb", <<"PostInstall", "PreRemoval", "PostRemoval">>)}
containerd == {Of("rpm", <<"PostInstall", "PreRemoval", "Upgrade">>),
               Of("deb", <<"PostInstall", "PreRemoval", "PostRemoval">>)}
shim       == {Of("deb", <<"PostInstall", "PreRemoval", "PostRemoval">>)}
cli        == {Of("deb", <<"PostInstall">>), Of("rpm", <<"PostInstall">>)}
Shipped    == engine \cup containerd \cup shim \cup cli

Actions == {"PostInstall", "Upgrade", "PreRemoval", "PostRemoval"}
ASSUME ArchivesAssumption ==
  \A a \in Archives : a.kind \in {"deb", "rpm"} /\ a.scripts \in Seq(Actions)

VARIABLES
  archive,
  next,    \* the script whose turn it is
  files,   \* file under /build -> the script it has, or none
  flags,   \* the files that fpm is told of
  event,   \* what last happened to the package on its host
  ran      \* the scripts that ran then

vars == <<archive, next, files, flags, event, ran>>

kind    == archive.kind
scripts == archive.scripts
Indices == 1 .. Len(scripts)
none    == 0
Files   == {"postinst", "postup", "prerm", "postrm"}

\* Mutant of FileOf: the postrm of a deb goes with its prerm, as that of an rpm.
FileOfSharing(k, when) ==
  IF when \in {"PostInstall", "Upgrade"}
  THEN IF when = "Upgrade" /\ k = "rpm" THEN "postup" ELSE "postinst"
  ELSE "prerm"

\* The file and, with it, the flag for fpm.
FileOf(k, when) ==
  IF when \in {"PostInstall", "Upgrade"}
  THEN IF when = "Upgrade" /\ k = "rpm" THEN "postup" ELSE "postinst"
  ELSE IF when = "PostRemoval" /\ k = "deb" THEN "postrm" ELSE "prerm"

\* The if around the script, on $1 (for an rpm, how many versions remain).
Guard(k, when, one) ==
  IF k = "deb"
  THEN CASE when \in {"PostInstall", "Upgrade"} ->
              one \in {"configure", "abort-upgrade", "abort-deconfigure", "abort-remove"}
         [] when = "PreRemoval"  -> one = "remove"
         [] when = "PostRemoval" -> one = "purge"
  ELSE CASE when = "PostInstall" -> TRUE
         [] when = "Upgrade"     -> one >= 1
         [] OTHER                -> one = 0

Init ==
  /\ archive \in Archives
  /\ next = 1
  /\ files = [f \in Files |-> none]
  /\ flags = {}
  /\ event = "building" /\ ran = {}

\* WithNewFile replaces what the file had.
InstallScript ==
  /\ event = "building" /\ next \in Indices
  /\ LET file == FileOf(kind, scripts[next])
     IN files' = [files EXCEPT ![file] = next] /\ flags' = flags \cup {file}
  /\ next' = next + 1
  /\ UNCHANGED <<archive, event, ran>>

\* event -> the file that runs then, and its $1.
Runs(file, one) == [file |-> file, one |-> one]
DebEvents ==
  [install    |-> Runs("postinst", "configure"),   upgrade |-> Runs("postinst", "configure"),
   rollback   |-> Runs("postinst", "abort-upgrade"), keep  |-> Runs("postinst", "abort-remove"),
   replacing  |-> Runs("prerm", "upgrade"),        removing |-> Runs("prerm", "remove"),
   removed    |-> Runs("postrm", "remove"),        purged  |-> Runs("postrm", "purge")]
RpmEvents ==
  [install   |-> Runs("postinst", 1),
   upgrade   |-> Runs(IF "postup" \in flags THEN "postup" ELSE "postinst", 2),
   replacing |-> Runs("prerm", 1),                 removing |-> Runs("prerm", 0)]
Events == IF kind = "deb" THEN DebEvents ELSE RpmEvents

Happens(e) ==
  /\ next > Len(scripts)
  /\ event' = e
  /\ LET call == Events[e]
     IN ran' = {i \in {files[f] : f \in flags \cap {call.file}} :
                   Guard(kind, scripts[i], call.one)}
  /\ UNCHANGED <<archive, next, files, flags>>

Next == InstallScript \/ \E e \in DOMAIN Events : Happens(e)

Spec == Init /\ [][Next]_vars

-----------------------------------------------------------------------------
(* Properties *)

\* A later script of the archive takes the file of script i.
Replaced(i) == \E j \in Indices : j > i /\ FileOf(kind, scripts[j]) = FileOf(kind, scripts[i])

\* When each script is for: what its PkgAction says, for a deb also when an
\* upgrade or a removal is taken back.  An rpm has no moment after a removal,
\* and upgrades of one without upgrade scripts run its post-install script.  What
\* an Upgrade script of a deb or a PostRemoval script of an rpm is for, the code
\* alone says: no shipped package has either.
Due(i) ==
  CASE scripts[i] = "PostInstall" ->
         IF kind = "deb" THEN {"install", "upgrade", "rollback", "keep"}
         ELSE {"install"} \cup IF \E j \in Indices : scripts[j] = "Upgrade" THEN {} ELSE {"upgrade"}
    [] scripts[i] = "Upgrade" ->
         IF kind = "deb" THEN {"install", "upgrade", "rollback", "keep"} ELSE {"upgrade"}
    [] scripts[i] = "PreRemoval"  -> {"removing"}
    [] scripts[i] = "PostRemoval" -> IF kind = "deb" THEN {"purged"} ELSE {"removing"}

\* A script runs when it is due and at no other moment: neither lost on the way
\* into the package, nor kept away by the if around it, nor run by an upgrade when
\* it is for the removal.  Only one whose file a later script of its archive takes
\* never runs, and no shipped package has such a pair.
RunWhenDue ==
  event # "building" =>
    \A i \in Indices :
      i \in ran <=> event \in Due(i) /\ (archive \in Shipped \/ ~Replaced(i))
=============================================================================
