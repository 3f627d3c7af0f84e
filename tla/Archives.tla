------------------------------- MODULE Archives -------------------------------
(***************************************************************************)
(* What each package ships: the Files, Systemd, Binaries and WinBinaries   *)
(* of the archives in moby-*/mapping.go.  A path is the sequence of its    *)
(* names, so "usr/bin" and "/usr/bin" are the same destination, as they    *)
(* are after filepath.Join.                                                *)
(***************************************************************************)
EXTENDS Sequences

NoSource == <<>>

\* The four shapes an archive.File takes.
CopyTo(s, d)     == [source |-> s, dest |-> d, isDir |-> FALSE, compress |-> FALSE]
GzipTo(s, d)     == [source |-> s, dest |-> d, isDir |-> FALSE, compress |-> TRUE]
GzipTreeTo(s, d) == [source |-> s, dest |-> d, isDir |-> TRUE,  compress |-> TRUE]
MakeDir(d)       == [source |-> NoSource, dest |-> d, isDir |-> TRUE, compress |-> FALSE]

Build(p)   == <<"build">> \o p
Src(p)     == Build(<<"src">> \o p)
Doc(pkg)   == <<"usr", "share", "doc", pkg>>
License(pkg) == CopyTo(Build(<<"legal", "LICENSE">>), Append(Doc(pkg), "LICENSE"))
Notice(pkg)  == GzipTo(Build(<<"legal", "NOTICE">>), Append(Doc(pkg), "NOTICE.gz"))
Unit(dir, name) == CopyTo(Append(dir, name), <<"lib", "systemd", "system", name>>)
Plugin(s, name) == CopyTo(s, <<"usr", "libexec", "docker", "cli-plugins", name>>)

Archive(files, units, binaries, winBinaries) ==
  [files |-> files, units |-> units, binaries |-> binaries, winBinaries |-> winBinaries]

engine ==
  LET dockerd == Build(<<"bundles", "dynbinary-daemon", "dockerd">>)
      proxy   == Src(<<"libnetwork", "docker-proxy">>)
      contrib == <<"usr", "share", "moby-engine", "contrib">>
  IN Archive(
      << Unit(Build(<<"systemd">>), "docker.socket"),
         CopyTo(Src(<<"contrib", "nuke-graph-directory.sh">>),
                Append(contrib, "nuke-graph-directory.sh")),
         CopyTo(Src(<<"contrib", "check-config.sh">>), Append(contrib, "check-config.sh")),
         CopyTo(dockerd, <<"usr", "bin", "dockerd">>),
         CopyTo(proxy, <<"usr", "bin", "docker-proxy">>),
         CopyTo(Src(<<"contrib", "udev", "80-docker.rules">>),
                <<"lib", "udev", "rules.d", "80-moby-engine.rules">>),
         MakeDir(<<"etc", "docker">>),
         License("moby-engine"), Notice("moby-engine") >>,
      << Unit(Build(<<"systemd">>), "docker.service") >>,
      {dockerd, proxy},
      << Src(<<"bundles", "binary-daemon", "dockerd.exe">>) >>)

\* Mutant of containerd: the manual pages go one level up, after the licence.
containerdManInShare ==
  Archive(
      << License("moby-containerd"), CopyTo(Build(<<"man">>), <<"usr", "share">>) >>,
      << >>, {}, << Src(<<"bin", "ctr.exe">>) >>)

\* Mutant of containerd: of bin only the daemon is packaged.
containerdOnlyDaemon ==
  Archive(
      << CopyTo(Src(<<"bin", "containerd">>), <<"usr", "bin", "containerd">>) >>,
      << >>,
      {Src(<<"bin", b>>) : b \in {"containerd", "containerd-shim"}}, << >>)

containerd ==
  Archive(
      << CopyTo(Src(<<"bin">>), <<"usr", "bin">>),
         CopyTo(Build(<<"man">>), <<"usr", "share", "man">>),
         License("moby-containerd"), Notice("moby-containerd") >>,
      << Unit(Src(<<>>), "containerd.service") >>,
      {Src(<<"bin", b>>) : b \in {"containerd", "containerd-shim",
         "containerd-shim-runc-v1", "containerd-shim-runc-v2", "containerd-stress"}},
      << Src(<<"bin", "containerd.exe">>), Src(<<"bin", "containerd-shim-runhcs-v1.exe">>),
         Src(<<"bin", "ctr.exe">>) >>)

shim ==
  LET service == "containerd-shim-systemd-v1.service"
      binary  == Src(<<"bin", "containerd-shim-systemd-v1">>)
  IN Archive(
      << CopyTo(binary, <<"usr", "bin", "containerd-shim-systemd-v1">>),
         Unit(Build(<<"systemd">>), "containerd-shim-systemd-v1.socket"),
         License("moby-containerd-shim-systemd"), Notice("moby-containerd-shim-systemd") >>,
      << Unit(Build(<<"systemd">>), service) >>,
      {binary}, << >>)

cli ==
  LET docker == Src(<<"build", "docker">>)
  IN Archive(
      << CopyTo(docker, <<"usr", "bin", "docker">>),
         CopyTo(Src(<<"contrib", "completion", "zsh", "_docker">>),
                <<"usr", "share", "zsh", "vendor-completions", "_docker">>),
         License("moby-cli"), Notice("moby-cli"),
         GzipTo(Src(<<"contrib", "completion", "bash", "docker">>),
                <<"usr", "share", "bash-completion", "completions", "docker">>) >>,
      << >>, {docker}, << Src(<<"build", "docker.exe">>) >>)

runc ==
  Archive(
      << CopyTo(Src(<<"runc">>), <<"usr", "bin", "runc">>),
         CopyTo(Src(<<"contrib", "completions", "bash", "runc">>),
                <<"usr", "share", "bash-completion", "completions", "runc">>),
         GzipTreeTo(Build(<<"man">>), <<"usr", "share", "man">>),
         License("moby-runc"), Notice("moby-runc") >>,
      << >>, {Src(<<"runc">>)}, << >>)

compose ==
  LET binary == Src(<<"bin", "docker-compose">>)
  IN Archive(<< Plugin(binary, "docker-compose"),
                License("moby-compose"), Notice("moby-compose") >>,
             << >>, {binary}, << >>)

buildx ==
  LET binary == Src(<<"docker-buildx">>)
  IN Archive(<< Plugin(binary, "docker-buildx"),
                License("moby-buildx"), Notice("moby-buildx") >>,
             << >>, {binary}, << >>)

\* Mutant of tini: installed under the name of the engine's proxy.
tiniAsProxy ==
  Archive(<< CopyTo(Src(<<"build", "tini-static">>), <<"usr", "bin", "docker-proxy">>) >>,
          << >>, {}, << >>)

tini ==
  LET binary == Src(<<"build", "tini-static">>)
  IN Archive(<< CopyTo(binary, <<"usr", "bin", "docker-init">>),
                License("moby-tini"), Notice("moby-tini") >>,
             << >>, {binary}, << >>)

Projects == {"moby-engine", "moby-cli", "moby-containerd", "moby-containerd-shim-systemd",
             "moby-runc", "moby-compose", "moby-buildx", "moby-tini"}

\* The table of Target.Packager.
ArchiveOf ==
  [p \in Projects |->
    CASE p = "moby-engine"     -> engine
      [] p = "moby-cli"        -> cli
      [] p = "moby-containerd" -> containerd
      [] p = "moby-containerd-shim-systemd" -> shim
      [] p = "moby-runc"       -> runc
      [] p = "moby-compose"    -> compose
      [] p = "moby-buildx"     -> buildx
      [] p = "moby-tini"       -> tini]

\* mappings[projectName] of a project that the table does not have.
Unknown == Archive(<<>>, <<>>, {}, <<>>)
=============================================================================
