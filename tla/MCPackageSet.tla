----------------------------- MODULE MCPackageSet -----------------------------
(***************************************************************************)
(* A deb host and two rpm hosts, one of them without systemd-update-helper *)
(* (rhel8, centos7); each may begin empty or with the container packages   *)
(* of its distribution, those of Docker, or something else that uses       *)
(* containerd.                                                             *)
(***************************************************************************)
EXTENDS PackageSet

MCHosts == [kind: {"rpm"}, helper: BOOLEAN] \cup {[kind |-> "deb", helper |-> TRUE]}
MCForeign ==
  [deb |-> {{}, {"docker.io", "containerd", "runc", "tini"}, {"docker-ce", "containerd.io"},
            {"user-of-containerd", "containerd", "runc"}},
   rpm |-> {{}, {"docker-ce", "containerd.io"}, {"docker-ee"}}]
=============================================================================
