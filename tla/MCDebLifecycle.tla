---------------------------- MODULE MCDebLifecycle ----------------------------
(***************************************************************************)
(* One unit on every kind of host, and two units, as moby-engine and the   *)
(* shim have, on a complete host.                                          *)
(***************************************************************************)
EXTENDS DebLifecycle

OneUnit  == <<"containerd.service">>
TwoUnits == <<"docker.service", "docker.socket">>

AllHosts     == [systemd: BOOLEAN, helper: BOOLEAN]
CompleteHost == [systemd: {TRUE}, helper: {TRUE}]
=============================================================================
