---------------------------- MODULE MCRpmLifecycle ----------------------------
(***************************************************************************)
(* Hosts with systemd-update-helper (rhel9, mariner2) and without it       *)
(* (centos7, rhel8).                                                       *)
(***************************************************************************)
EXTENDS RpmLifecycle

AllHosts == [helper: BOOLEAN]
=============================================================================
