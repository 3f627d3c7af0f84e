----------------------------- MODULE BuildOutcome -----------------------------
(***************************************************************************)
(* What the build command promises to whoever calls it (make.go), without  *)
(* a word about engines, sessions and contexts: BuildSession implements    *)
(* it.  The caller sees the output directory and the exit status, and may  *)
(* interrupt.                                                              *)
(***************************************************************************)
VARIABLES
  out,        \* the output directory
  code,       \* the exit status, or "running"
  signal,     \* an interrupt: none yet, before ("early") or after ("late") the
              \* command began to write
  exporting   \* the command has begun to write, and has not ended

vars == <<out, code, signal, exporting>>

Init == out = "none" /\ code = "running" /\ signal = "none" /\ exporting = FALSE

\* The first write is the point of no return: an interrupted command never
\* gets there.
Begin ==
  /\ code = "running" /\ ~exporting /\ signal = "none"
  /\ exporting' = TRUE
  /\ UNCHANGED <<out, code, signal>>

Write ==
  /\ exporting
  /\ \/ out = "none" /\ out' = "partial"
     \/ out = "partial" /\ out' = "complete"
  /\ UNCHANGED <<code, signal, exporting>>

Interrupt ==
  /\ code = "running" /\ signal = "none"
  /\ signal' = IF exporting THEN "late" ELSE "early"
  /\ UNCHANGED <<out, code, exporting>>

\* The exit status tells what happened to the output: 0 that it is all there,
\* 1 to 3 that it was not begun, 4 that it may be anything.  Only a process
\* that has not begun is killed by the signal.
Finish ==
  /\ code = "running"
  /\ \/ code' = "0" /\ exporting /\ out = "complete"
     \/ code' \in {"1", "2", "3"} /\ ~exporting
     \/ code' = "4"
     \/ code' = "killed" /\ ~exporting
  /\ exporting' = FALSE
  /\ UNCHANGED <<out, signal>>

Next == Begin \/ Write \/ Interrupt \/ Finish

\* What the command may do, and that an interrupted one ends.
Safe == Init /\ [][Next]_vars
Spec == Safe /\ WF_vars(signal # "none" /\ Finish)
=============================================================================
