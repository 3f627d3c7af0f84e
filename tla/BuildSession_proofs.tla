------------------------- MODULE BuildSession_proofs -------------------------
(***************************************************************************)
(* Proofs about the build session, for every run of it: type correctness   *)
(* and the three safety properties.  IInv adds to the properties what they *)
(* rest on: how far main must have come for the output directory to have   *)
(* been touched.                                                           *)
(***************************************************************************)
EXTENDS BuildSession, TLAPS

\* While the output is touched, main is in the export or past it.
OutOnlyFromExport ==
  /\ out # "none" => pc \in {"export", "return", "exited"}
  /\ pc = "export" /\ ~flight => out = "none"
  /\ pc = "return" => out = "complete"
  /\ Running <=> pc # "exited"

\* A stamp lost to the closed session leaves main unable to send the export.
LostStampMeansClosed ==
  epoch = "blank" /\ "commit" \notin faults
    => session = "closed" /\ ~flight /\ out = "none"

\* An early interrupt leaves main unable to send the export.
EarlyMeansNotSent ==
  signal = "early" => out = "none" /\ ~(pc = "export" /\ flight)

IInv ==
  /\ TypeOK
  /\ OutOnlyFromExport
  /\ LostStampMeansClosed
  /\ EarlyMeansNotSent
  /\ ExitStatusTellsOutput

\* main moves on to a known step, and stops with a known status.
LEMMA CallTargets ==
  ASSUME NEW c \in Calls
  PROVE  /\ After(c) \in {"target", "arch", "platform", "path", "shim", "commit",
                          "export", "return"}
         /\ After(c) = "export" <=> c = "commit"
         /\ After(c) = "return" <=> c = "export"
         /\ c # "commit" => FailCode(c) \in {"2", "3", "4"}
         /\ c # "commit" => (FailCode(c) = "4" <=> c = "export")
  BY DEF Calls, After, FailCode

\* The initial states satisfy the inductive invariant.
LEMMA InitIInv == Init => IInv
  BY DEF Init, IInv, TypeOK, OutOnlyFromExport, LostStampMeansClosed,
         EarlyMeansNotSent, ExitStatusTellsOutput, Running, Codes

\* An error of call c keeps the inductive invariant, whether the call was
\* refused or the engine failed it.
LEMMA ErrorKeepsIInv ==
  ASSUME IInv, NEW c \in Calls, pc = c,
         CallRefused(c) \/ CallFails(c)
  PROVE  IInv'
  <1>1. CASE c = "commit"
    <2>1. pc' = "export" /\ epoch' = "blank" /\ flight' = FALSE /\ out = "none"
      BY <1>1, CallTargets
      DEF CallRefused, CallFails, OnError, IInv, OutOnlyFromExport
    <2>2. CASE CallRefused(c)
      <3>1. session = "closed"
        BY <1>1, <2>2 DEF CallRefused, Refused, CtxBound
      <3> QED
        BY <1>1, <2>1, <2>2, <3>1
        DEF CallRefused, OnError, IInv, TypeOK, Calls, Codes, Running,
            OutOnlyFromExport, LostStampMeansClosed, EarlyMeansNotSent,
            ExitStatusTellsOutput
    <2>3. CASE CallFails(c)
      BY <1>1, <2>1, <2>3
      DEF CallFails, OnError, IInv, TypeOK, Calls, Codes, Running,
          OutOnlyFromExport, LostStampMeansClosed, EarlyMeansNotSent,
          ExitStatusTellsOutput
    <2> QED BY <2>2, <2>3
  <1>2. CASE c # "commit"
    <2>1. /\ pc' = "exited" /\ code' = FailCode(c) /\ flight' = FALSE
          /\ UNCHANGED <<spec, signal, watcher, session, out, epoch>>
          /\ faults' = faults \/ faults' = faults \cup {c}
      BY <1>2 DEF CallRefused, CallFails, OnError, Exit
    <2>2. FailCode(c) \in {"2", "3", "4"} /\ (FailCode(c) = "4" <=> c = "export")
      BY <1>2, CallTargets
    <2>3. TypeOK'
      BY <2>1, <2>2 DEF IInv, TypeOK, Codes
    <2>4. OutOnlyFromExport'
      BY <2>1, <2>2 DEF IInv, OutOnlyFromExport, Running
    <2>5. LostStampMeansClosed' /\ EarlyMeansNotSent'
      BY <1>2, <2>1 DEF IInv, LostStampMeansClosed, EarlyMeansNotSent
    <2>6. ExitStatusTellsOutput'
      BY <2>1, <2>2 DEF IInv, OutOnlyFromExport, ExitStatusTellsOutput, Calls
    <2> QED BY <2>3, <2>4, <2>5, <2>6 DEF IInv
  <1> QED BY <1>1, <1>2

\* Every step keeps the inductive invariant.
LEMMA StepIInv == IInv /\ [Next]_vars => IInv'
  <1> SUFFICES ASSUME IInv, [Next]_vars PROVE IInv'
    OBVIOUS
  <1> USE DEF IInv, TypeOK, Running, OutOnlyFromExport, LostStampMeansClosed,
              EarlyMeansNotSent, ExitStatusTellsOutput
  <1>1. CASE ReadSpec
    BY <1>1 DEF ReadSpec, Exit, Codes, Calls
  <1>2. CASE PickTarget
    BY <1>2 DEF PickTarget, Exit, Codes, Calls
  <1>3. CASE Return
    BY <1>3 DEF Return, Exit, Codes
  <1>4. ASSUME NEW c \in Calls, Send(c) PROVE IInv'
    <2>1. c = "export" => signal # "early" /\ session # "closed"
      BY <1>4 DEF Send, Refused, Cancelled, CtxBound
    <2> QED BY <1>4, <2>1 DEF Send, Refused
  <1>5. ASSUME NEW c \in Calls, CallRefused(c) \/ CallFails(c) PROVE IInv'
    <2>1. pc = c
      BY <1>5 DEF CallRefused, CallFails
    <2> QED BY <1>5, <2>1, ErrorKeepsIInv
  <1>6. ASSUME NEW c \in Calls, CallAnswered(c) PROVE IInv'
    <2>1. /\ pc = c /\ flight /\ flight' = FALSE /\ pc' = After(c)
          /\ (c = "export" => out = "complete")
          /\ UNCHANGED <<spec, signal, out, faults, code>>
      BY <1>6 DEF CallAnswered
    <2>2. /\ session' \in {session, "open"} /\ watcher' \in {watcher, "waiting"}
          /\ epoch' \in {epoch, "commit"}
          /\ c # "connect" => session' = session
      BY <1>6 DEF CallAnswered
    <2>3. out # "none" => c = "export"
      BY <2>1 DEF Calls
    <2>4. TypeOK'
      BY <2>1, <2>2, CallTargets DEF Calls
    <2>5. OutOnlyFromExport'
      BY <2>1, <2>3, CallTargets DEF Calls
    <2>6. LostStampMeansClosed' /\ EarlyMeansNotSent' /\ ExitStatusTellsOutput'
      BY <2>1, <2>2, <2>3
    <2> QED BY <2>4, <2>5, <2>6
  <1>7. CASE Watch
    BY <1>7 DEF Watch
  <1>8. CASE EngineWrites
    BY <1>8 DEF EngineWrites
  <1>9. CASE Interrupt
    BY <1>9 DEF Interrupt, Cancelled, Exit, Codes
  <1>10. CASE UNCHANGED vars
    BY <1>10 DEF vars
  <1> QED
    BY <1>1, <1>2, <1>3, <1>4, <1>5, <1>6, <1>7, <1>8, <1>9, <1>10
    DEF Next, Main, Engine

\* The inductive invariant holds in every reachable state.
THEOREM Invariant == Spec => []IInv
  BY InitIInv, StepIInv, PTL DEF Spec

\* Type correctness of the session.
THEOREM TypeCorrect == Spec => []TypeOK
  <1>1. IInv => TypeOK
    BY DEF IInv
  <1> QED BY <1>1, Invariant, PTL

\* A package with an empty SOURCE_DATE_EPOCH reaches the host only when the
\* engine itself failed the commit-time query, never because of an interrupt.
THEOREM BlankStampIsEngineFault == Spec => []StampedUnlessEngineFault
  <1>1. IInv => StampedUnlessEngineFault
    BY DEF IInv, LostStampMeansClosed, StampedUnlessEngineFault
  <1> QED BY <1>1, Invariant, PTL

\* The exit status says whether the output directory holds the package.
THEOREM ExitStatusIsTruthful == Spec => []ExitStatusTellsOutput
  <1>1. IInv => ExitStatusTellsOutput
    BY DEF IInv
  <1> QED BY <1>1, Invariant, PTL

\* An interrupt before the export is sent leaves the output directory alone.
THEOREM EarlyInterruptIsClean == Spec => []InterruptKeepsOutput
  <1>1. IInv => InterruptKeepsOutput
    BY DEF IInv, EarlyMeansNotSent, InterruptKeepsOutput
  <1> QED BY <1>1, Invariant, PTL

\* Every step of the session is a step of BuildOutcome or invisible in it.
LEMMA StepKeepsPromise ==
  ASSUME IInv, [Next]_vars
  PROVE  [Outcome!Next]_(Outcome!vars)
  <1> USE DEF Outcome!vars, Exporting, Running, Exit, Outcome!Next
  <1>1. CASE ReadSpec
    BY <1>1 DEF ReadSpec, Outcome!Finish, IInv, OutOnlyFromExport
  <1>2. CASE PickTarget
    BY <1>2 DEF PickTarget, Outcome!Finish, IInv, OutOnlyFromExport
  <1>3. CASE Return
    BY <1>3 DEF Return, Outcome!Finish, IInv, OutOnlyFromExport
  <1>4. ASSUME NEW c \in Calls, Send(c) PROVE [Outcome!Next]_(Outcome!vars)
    <2>1. CASE c = "export"
      BY <1>4, <2>1 DEF Send, Refused, CtxBound, Cancelled, Outcome!Begin, IInv, OutOnlyFromExport
    <2>2. CASE c # "export"
      BY <1>4, <2>2 DEF Send, Calls
    <2> QED BY <2>1, <2>2
  <1>5. ASSUME NEW c \in Calls, CallRefused(c) \/ CallFails(c)
        PROVE  [Outcome!Next]_(Outcome!vars)
    <2>1. pc = c /\ OnError(c) /\ code = "running"
      BY <1>5 DEF CallRefused, CallFails, IInv, OutOnlyFromExport, Calls
    <2>2. CASE c = "commit"
      BY <2>1, <2>2, CallTargets DEF OnError
    <2>3. CASE c # "commit"
      <3>1. code' = FailCode(c) /\ pc' = "exited" /\ UNCHANGED <<out, signal>>
        BY <2>1, <2>3 DEF OnError
      <3>2. code' = "4" \/ (code' \in {"2", "3"} /\ c # "export")
        BY <3>1, <2>3, CallTargets
      <3>3. code' # "running"
        BY <3>2
      <3> QED BY <2>1, <3>1, <3>2, <3>3 DEF Outcome!Finish, Calls
    <2> QED BY <2>2, <2>3
  <1>6. ASSUME NEW c \in Calls, CallAnswered(c) PROVE [Outcome!Next]_(Outcome!vars)
    <2>1. pc = c /\ flight /\ ~flight' /\ pc' = After(c) /\ UNCHANGED <<out, signal, code>>
      BY <1>6 DEF CallAnswered
    <2>2. Exporting' <=> Exporting
      BY <2>1, CallTargets DEF Calls
    <2> QED BY <2>1, <2>2
  <1>7. CASE Watch
    BY <1>7 DEF Watch
  <1>8. CASE EngineWrites
    BY <1>8 DEF EngineWrites, Outcome!Write, IInv, OutOnlyFromExport
  <1>9. CASE Interrupt
    BY <1>9 DEF Interrupt, Cancelled, Outcome!Interrupt, Outcome!Finish
  <1>10. CASE UNCHANGED vars
    BY <1>10 DEF vars
  <1> QED
    BY <1>1, <1>2, <1>3, <1>4, <1>5, <1>6, <1>7, <1>8, <1>9, <1>10
    DEF Next, Main, Engine

\* The build session implements the safety part of BuildOutcome: what the
\* command does to the output directory, when an interrupt still keeps it from
\* doing so, and what its exit status says.
THEOREM ImplementsOutcome == Spec => Outcome!Safe
  <1>1. Init => Outcome!Init
    BY DEF Init, Outcome!Init, Exporting, Running
  <1>2. IInv /\ [Next]_vars => [Outcome!Next]_(Outcome!vars)
    BY StepKeepsPromise
  <1> QED BY <1>1, <1>2, Invariant, PTL DEF Spec, Outcome!Safe
=============================================================================
