---------------------------- MODULE ServicePolicy ----------------------------
(***************************************************************************)
(* What a package may do to one of its units, whoever runs its scripts: it *)
(* enables no unit that the administrator switched off, starts none that   *)
(* is not to run, and forgets what he decided only when it goes.           *)
(* DebLifecycle and RpmLifecycle implement it.                             *)
(***************************************************************************)
VARIABLES
  here,      \* the package is on the host, and not about to go
  enabled,
  choice,    \* what the administrator decided last: "none" (or on), "off", or
             \* "racing", off while the package was setting the unit up
  up         \* "down", or who started the unit: "package" (or the boot), "admin"

vars == <<here, enabled, choice, up>>

Init == here = FALSE /\ enabled = FALSE /\ choice = "none" /\ up = "down"

ComesOrGoes == here' = ~here /\ UNCHANGED <<enabled, choice, up>>

\* The package, while it is there: it enables the unit, or applies a preset.
SetsUp ==
  /\ here /\ choice # "off"
  /\ enabled' \in BOOLEAN
  /\ UNCHANGED <<here, choice, up>>

Starts ==
  /\ here /\ (up # "down" \/ enabled \/ choice = "racing")
  /\ up' = "package"
  /\ UNCHANGED <<here, enabled, choice>>

Stops == up' = "down" /\ UNCHANGED <<here, enabled, choice>>

\* When it goes.
Forgets ==
  /\ ~here
  /\ choice' = "none" /\ enabled' \in {FALSE, enabled}
  /\ UNCHANGED <<here, up>>

\* The administrator, at any moment, and the host.
Admin ==
  /\ \/ enabled' = TRUE /\ choice' = "none" /\ UNCHANGED up
     \/ enabled' = FALSE /\ choice' \in {"off", "racing"} /\ UNCHANGED up
     \/ up' \in {"admin", "down"} /\ UNCHANGED <<enabled, choice>>
  /\ UNCHANGED here

Boot ==
  /\ up' = "down" \/ (up' = "package" /\ enabled)
  /\ UNCHANGED <<here, enabled, choice>>

Next == ComesOrGoes \/ SetsUp \/ Starts \/ Stops \/ Forgets \/ Admin \/ Boot

Spec == Init /\ [][Next]_vars
=============================================================================
