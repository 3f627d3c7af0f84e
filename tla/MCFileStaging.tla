---------------------------- MODULE MCFileStaging ----------------------------
(***************************************************************************)
(* The shipped archives, each as deb, rpm and win, from a complete build   *)
(* and from one that lacks a single file; and archives of three entries    *)
(* made to interfere; and the empty archive of an unknown project.         *)
(***************************************************************************)
EXTENDS FileStaging

\* Directories that archives name as a source, with sample content.
SampleTrees ==
  {Src(<<"bin", "ctr">>), Build(<<"man", "man8", "a.8">>), Build(<<"man", "man5", "b.5">>)}

ToSources(es) == {es[i].source : i \in DOMAIN es} \ {NoSource}

\* A directory source stands for the files in it.
Complete(a) ==
  LET named == ToSources(a.files) \cup ToSources(a.units) \cup a.binaries \cup ToSet(a.winBinaries)
      all == named \cup {t \in SampleTrees : \E s \in named : IsStrictPrefix(s, t)}
  IN {s \in all : \A t \in all : ~IsStrictPrefix(s, t)}

ShippedJobs ==
  UNION {{[kind |-> k, archive |-> ArchiveOf[p], built |-> b] :
            k \in Kinds,
            b \in {Complete(ArchiveOf[p])} \cup
                  {Complete(ArchiveOf[p]) \ {f} : f \in Complete(ArchiveOf[p])}}
         : p \in Projects}

\* Small archives over a file, a directory and a name that is never built.
Lic == Build(<<"lic">>)
Man == Build(<<"man">>)
SampleEntries ==
  {CopyTo(Lic, <<"doc">>), CopyTo(Lic, <<"doc", "man">>), CopyTo(Man, <<"doc">>),
   CopyTo(Man, <<"doc", "man">>), GzipTo(Lic, <<"doc", "lic">>), GzipTo(Man, <<"man">>),
   GzipTreeTo(Man, <<"doc">>), GzipTreeTo(Lic, <<"man">>), MakeDir(<<"doc", "man">>),
   CopyTo(Man \o <<"m8", "a">>, <<"doc", "lic">>), CopyTo(Build(<<"gone">>), <<"gone">>), GzipTreeTo(Build(<<"gone">>), <<"doc">>)}

\* Those that copy or compress into the same places.
Crossing ==
  {CopyTo(Man, <<"doc">>), CopyTo(Lic, <<"doc", "man">>), GzipTreeTo(Man, <<"doc">>),
   MakeDir(<<"doc", "man">>), CopyTo(Man \o <<"m8", "a">>, <<"doc", "man">>)}

Sample(k, es) ==
  [kind |-> k, archive |-> Archive(es, <<>>, {Lic}, <<Lic, Lic>>),
   built |-> {Lic, Man \o <<"m8", "a">>, Man \o <<"m8", "a.gz">>}]

\* Pairs of any entries; triples of crossing ones; a Windows package of one
\* binary named twice, and one whose binary is a directory.
SampleJobs ==
  {Sample("deb", <<e, f>>) : e, f \in SampleEntries}
    \cup {Sample("rpm", <<e, f, g>>) : e, f, g \in Crossing}
    \cup {Sample("win", <<>>),
          [Sample("win", <<>>) EXCEPT !.archive.winBinaries = <<Man>>]}

\* Target.Packager looks up a project it does not know.
UnknownJobs ==
  {[kind |-> k, archive |-> Unknown, built |-> {Lic}] : k \in Kinds}

MCJobs == ShippedJobs \cup SampleJobs \cup UnknownJobs
=============================================================================
