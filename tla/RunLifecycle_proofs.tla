------------------------ MODULE RunLifecycle_proofs ------------------------
(***************************************************************************)
(* Theorems about RunLifecycle for every set of messages and every number  *)
(* of crashes and cancels.  The agreement of the verdicts is about any run;*)
(* that one activity works at a time, and what the row shows, only about a *)
(* run that is never resumed: see the README.                              *)
(***************************************************************************)
EXTENDS RunLifecycle, FiniteSetTheorems, TLAPS

-----------------------------------------------------------------------------
(* Type correctness.                                                       *)

(* What an action does with the activity it runs keeps a set of tasks. *)
LEMMA TaskChanges ==
  ASSUME NEW a \in Task, acts \subseteq Task
  PROVE  /\ \A at \in {"queued", "running", "read", "leaving"}, out \in {"ok", "error", "none"} :
              Becomes(a, at, out) => acts' \subseteq Task
         /\ \A v \in Verdicts \union {"none"} :
              [a EXCEPT !.at = "read", !.found = v] \in Task
  BY DEF Task, Becomes

(* Scheduling an activity of this turn or the next. *)
LEMMA ScheduleType ==
  ASSUME NEW kind \in Kinds, NEW t \in Nat, acts \subseteq Task, Schedule(kind, t)
  PROVE  acts' \subseteq Task /\ step' \in Kinds /\ future' \in {"pending", "error"}
  BY DEF Schedule, Task

LEMMA TypeInit == Init => TypeOK
<1> SUFFICES ASSUME Init PROVE TypeOK
  OBVIOUS
<1> USE LifecycleAssumption DEF Init
<1>1. inbox \in Seq(Messages) /\ received \in Seq(Messages)
  OBVIOUS
<1>2. cancels \in 0..MaxCancels /\ crashes \in 0..MaxCrashes
  BY DEF LifecycleAssumption
<1>3. resumeAt \in [Messages -> {"idle", "checked", "signalled"}]
  OBVIOUS
<1> QED
  BY <1>1, <1>2, <1>3 DEF TypeOK

LEMMA TypeStep == TypeOK /\ [Next]_vars => TypeOK'
<1> SUFFICES ASSUME TypeOK, [Next]_vars PROVE TypeOK'
  OBVIOUS
<1> USE LifecycleAssumption
<1>1. CASE ReceiveMessage
  <2>1. Head(inbox) \in Messages /\ Tail(inbox) \in Seq(Messages)
    BY <1>1 DEF ReceiveMessage, TypeOK
  <2>2. received' \in Seq(Messages) /\ Turn + 1 \in Nat
    BY <1>1, <2>1 DEF ReceiveMessage, TypeOK, Turn
  <2>3. acts' \subseteq Task /\ step' \in Kinds /\ future' \in {"pending", "error"}
    BY <1>1, <2>2, ScheduleType DEF ReceiveMessage, TypeOK, Kinds
  <2> QED
    BY <1>1, <2>1, <2>2, <2>3 DEF ReceiveMessage, TypeOK, runVars, apiVars, crashVars
<1>2. CASE Proceed
  <2>1. NextKind(step, future) \in Kinds /\ Turn \in Nat
    BY <1>2 DEF Proceed, NextKind, Kinds, TypeOK, Turn
  <2>2. acts' \subseteq Task /\ step' \in Kinds /\ future' \in {"pending", "error"}
    BY <1>2, <2>1, ScheduleType DEF Proceed, TypeOK
  <2> QED
    BY <1>2, <2>2 DEF Proceed, TypeOK, runVars, apiVars, crashVars
<1>3. CASE EndTurn
  <2>1. inbox' = <<>> \/ inbox' = inbox
    BY <1>3 DEF EndTurn
  <2>2. <<>> \in Seq(Messages) /\ inbox \in Seq(Messages)
    BY DEF TypeOK
  <2>3. inbox' \in Seq(Messages)
    BY <2>1, <2>2
  <2>4. workflow' \in {"none", "open", "closed"}
    BY <1>3 DEF EndTurn
  <2> QED
    BY <1>3, <2>3, <2>4 DEF EndTurn, TypeOK, runVars, apiVars, crashVars
<1>4. CASE FutureCancelled
  BY <1>4 DEF FutureCancelled, TypeOK, runVars, apiVars, crashVars
<1>5. CASE TaskTimesOut
  BY <1>5 DEF TaskTimesOut, TypeOK, runVars, apiVars, crashVars
<1>6. ASSUME NEW a \in acts, Start(a) PROVE TypeOK'
  <2>1. acts' \subseteq Task
    BY <1>6, TaskChanges DEF Start, TypeOK
  <2>2. phase' \in {"planning", "executing", "validating", "completed", "failed", "cancelled"}
    BY <1>6 DEF Start, SetPhase, PhaseOf, TypeOK
  <2> QED
    BY <1>6, <2>1, <2>2 DEF Start, SetPhase, TypeOK, workflowVars, apiVars, crashVars
<1>7. ASSUME NEW a \in acts, PlanFails(a) \/ Plan(a) PROVE TypeOK'
  <2>1. acts' \subseteq Task
    BY <1>7, TaskChanges DEF PlanFails, Plan, TypeOK
  <2> QED
    BY <1>7, <2>1 DEF PlanFails, Plan, TypeOK, workflowVars, runVars, apiVars, crashVars
<1>8. ASSUME NEW a \in acts, Execute(a) PROVE TypeOK'
  <2>1. acts' \subseteq Task
    BY <1>8, TaskChanges DEF Execute, TypeOK
  <2>2. CASE \E v \in Verdicts : Report(a.turn, v)
    BY <1>8, <2>1, <2>2 DEF Execute, Report, Verdicts, Task, TypeOK, workflowVars, apiVars, crashVars
  <2>3. CASE UNCHANGED runVars
    BY <1>8, <2>1, <2>3 DEF Execute, TypeOK, workflowVars, runVars, apiVars, crashVars
  <2> QED
    BY <1>8, <2>2, <2>3 DEF Execute, Verdicts
<1>9. ASSUME NEW a \in acts, VerifyRead(a) PROVE TypeOK'
  <2>0. a \in Task /\ acts \subseteq Task /\ verdict \in Verdicts \union {"none"}
    BY DEF TypeOK
  <2>1. acts' \subseteq Task
    <3>1. CASE acts' = (acts \ {a}) \union {[a EXCEPT !.at = "read", !.found = verdict]}
      BY <2>0, <3>1, TaskChanges
    <3>2. CASE Becomes(a, "leaving", "error")
      BY <2>0, <3>2, TaskChanges
    <3> QED
      BY <1>9, <3>1, <3>2 DEF VerifyRead
  <2> QED
    BY <1>9, <2>1 DEF VerifyRead, TypeOK, workflowVars, runVars, apiVars, crashVars
<1>10. ASSUME NEW a \in acts, VerifyWrite(a) PROVE TypeOK'
  <2>1. acts' \subseteq Task
    BY <1>10, TaskChanges DEF VerifyWrite, TypeOK
  <2> QED
    BY <1>10, <2>1 DEF VerifyWrite, SetPhase, Report, Verdicts, Task, TypeOK,
                       workflowVars, apiVars, crashVars
<1>11. ASSUME NEW a \in acts, HandleRunFailure(a) PROVE TypeOK'
  <2>1. acts' \subseteq Task
    BY <1>11, TaskChanges DEF HandleRunFailure, TypeOK
  <2> QED
    BY <1>11, <2>1 DEF HandleRunFailure, Report, Verdicts, Task, TypeOK,
                       workflowVars, apiVars, crashVars
<1>12. ASSUME NEW a \in acts, Return(a) PROVE TypeOK'
  BY <1>12 DEF Return, Task, TypeOK, runVars, apiVars, crashVars
<1>13. CASE WorkerCrash
  <2>1. acts' \subseteq Task /\ lost' \subseteq Nat
    BY <1>13 DEF WorkerCrash, Task, TypeOK
  <2>2. crashes' \in 0..MaxCrashes
    BY <1>13 DEF WorkerCrash, TypeOK
  <2> QED
    BY <1>13, <2>1, <2>2 DEF WorkerCrash, TypeOK, workflowVars, runVars, apiVars
<1>14. ASSUME NEW m \in Messages, AddMessage(m) PROVE TypeOK'
  <2>1. inbox' \in Seq(Messages) /\ posted' \subseteq Messages
    BY <1>14 DEF AddMessage, TypeOK
  <2> QED
    BY <1>14, <2>1 DEF AddMessage, TypeOK, runVars, crashVars
<1>15. CASE CancelWorkflow
  <2>1. cancels' \in 0..MaxCancels
    BY <1>15 DEF CancelWorkflow, TypeOK
  <2>2. cancelled' \in BOOLEAN
    BY <1>15, Zenon DEF CancelWorkflow, TypeOK
  <2> QED
    BY <1>15, <2>1, <2>2 DEF CancelWorkflow, TypeOK, runVars, crashVars
<1>16. CASE EmitCancelled
  BY <1>16 DEF EmitCancelled, TypeOK, workflowVars, crashVars
<1>17. ASSUME NEW m \in Messages, ResumeCheck(m) \/ ResumeFails(m) \/ EmitResumed(m)
       PROVE  TypeOK'
  BY <1>17 DEF ResumeCheck, ResumeFails, EmitResumed, TypeOK, workflowVars, runVars, crashVars
<1>18. ASSUME NEW m \in Messages, ResumeSignal(m) PROVE TypeOK'
  BY <1>18 DEF ResumeSignal, TypeOK, runVars, crashVars
<1>19. CASE UNCHANGED vars
  BY <1>19 DEF TypeOK, vars, workflowVars, runVars, apiVars, crashVars
<1> QED
  BY <1>1, <1>2, <1>3, <1>4, <1>5, <1>6, <1>7, <1>8, <1>9, <1>10, <1>11, <1>12, <1>13,
     <1>14, <1>15, <1>16, <1>17, <1>18, <1>19
     DEF Next, WorkflowStep, ActivityStep, HandlerStep

(* Every variable of RunLifecycle keeps its type: the row shows a status and *)
(* a phase of the schema, a task a place of its activity's code.            *)
THEOREM TypeCorrect == Spec => []TypeOK
  BY TypeInit, TypeStep, PTL DEF Spec

-----------------------------------------------------------------------------
(* A run that is never resumed has one activity at a time.                 *)

(* No resume handler is under way. *)
NeverResumed == \A m \in Messages : resumeAt[m] = "idle"

(* Between turns the workflow awaits nothing. *)
FutureOfStep == step = "select" => future = "none"

OneTask == \A a, b \in acts : a = b

(* Until the context is cancelled, the task is the one that is awaited;    *)
(* afterwards no other is scheduled, so that the old one stays alone.      *)
TaskAwaited ==
  ~cancelled => \A a \in acts : future = "pending" /\ a.turn = Turn /\ a.kind = step

Solo == NeverResumed /\ FutureOfStep /\ OneTask /\ TaskAwaited

LEMMA SoloInit == Init => Solo
  BY DEF Init, Solo, NeverResumed, FutureOfStep, OneTask, TaskAwaited

(* A context that is not cancelled schedules where there is no task. *)
LEMMA ScheduleSolo ==
  ASSUME NEW kind \in Kinds, NEW t, ~cancelled => acts = {}, OneTask,
         Schedule(kind, t), cancelled' = cancelled, Turn' = t
  PROVE  OneTask' /\ TaskAwaited' /\ FutureOfStep'
  BY DEF Schedule, ContextDone, OneTask, TaskAwaited, FutureOfStep, Kinds

(* An activity's own steps move its task and nothing the workflow has. *)
LEMMA MoveSolo ==
  ASSUME Solo, acts \subseteq Task, NEW a \in acts, NEW b,
         b.turn = a.turn, b.kind = a.kind,
         acts' = (acts \ {a}) \union {b},
         UNCHANGED workflowVars, UNCHANGED resumeAt
  PROVE  Solo'
<1>1. acts' = {b}
  BY DEF Solo, OneTask
<1> QED
  BY <1>1 DEF Solo, NeverResumed, OneTask, TaskAwaited, FutureOfStep, workflowVars, Turn

LEMMA SoloStep ==
  ASSUME ~CanResume, TypeOK, Solo, [Next]_vars
  PROVE  Solo'
<1>1. CASE ReceiveMessage
  <2>1. ~cancelled => acts = {}
    BY <1>1 DEF ReceiveMessage, Solo, TaskAwaited, FutureOfStep
  <2>2. Turn' = Turn + 1
    BY <1>1 DEF ReceiveMessage, Turn, TypeOK
  <2> QED
    BY <1>1, <2>1, <2>2, ScheduleSolo
       DEF ReceiveMessage, Solo, NeverResumed, Kinds, apiVars
<1>2. CASE Proceed
  <2>1. ~cancelled => acts = {}
    BY <1>2 DEF Proceed, Solo, TaskAwaited
  <2>2. NextKind(step, future) \in Kinds /\ Turn' = Turn
    BY <1>2 DEF Proceed, NextKind, Kinds, TypeOK, Turn
  <2> QED
    BY <1>2, <2>1, <2>2, ScheduleSolo DEF Proceed, Solo, NeverResumed, apiVars
<1>3. CASE EndTurn
  BY <1>3 DEF EndTurn, Solo, NeverResumed, FutureOfStep, OneTask, TaskAwaited, apiVars
<1>4. CASE FutureCancelled
  BY <1>4 DEF FutureCancelled, Solo, NeverResumed, FutureOfStep, OneTask, TaskAwaited, apiVars
<1>5. CASE TaskTimesOut
  BY <1>5 DEF TaskTimesOut, Awaited, Solo, NeverResumed, FutureOfStep, OneTask, TaskAwaited,
              apiVars
<1>6. ASSUME NEW a \in acts,
             \E at, out : Becomes(a, at, out), UNCHANGED workflowVars, UNCHANGED resumeAt
      PROVE  Solo'
  BY <1>6, MoveSolo DEF Becomes, Task, TypeOK
<1>7. ASSUME NEW a \in acts,
             Start(a) \/ PlanFails(a) \/ Plan(a) \/ Execute(a) \/ VerifyWrite(a)
               \/ HandleRunFailure(a)
      PROVE  Solo'
  BY <1>6, <1>7 DEF Start, PlanFails, Plan, Execute, VerifyWrite, HandleRunFailure, apiVars
<1>8. ASSUME NEW a \in acts, VerifyRead(a) PROVE Solo'
  <2>1. CASE Becomes(a, "leaving", "error")
    BY <1>6, <1>8, <2>1 DEF VerifyRead, apiVars
  <2>2. CASE acts' = (acts \ {a}) \union {[a EXCEPT !.at = "read", !.found = verdict]}
    BY <1>8, <2>2, MoveSolo DEF VerifyRead, apiVars, Task, TypeOK
  <2> QED
    BY <1>8, <2>1, <2>2 DEF VerifyRead
<1>9. ASSUME NEW a \in acts, Return(a) PROVE Solo'
  <2>1. acts' = {}
    BY <1>9 DEF Return, Solo, OneTask
  <2> QED
    BY <1>9, <2>1 DEF Return, Awaited, Solo, NeverResumed, FutureOfStep, OneTask, TaskAwaited,
                      apiVars
<1>10. CASE WorkerCrash
  BY <1>10 DEF WorkerCrash, Solo, NeverResumed, FutureOfStep, OneTask, TaskAwaited,
               workflowVars, apiVars, Turn
<1>11. ASSUME NEW m \in Messages, AddMessage(m) PROVE Solo'
  BY <1>11 DEF AddMessage, Solo, NeverResumed, FutureOfStep, OneTask, TaskAwaited, Turn
<1>12. CASE CancelWorkflow
  BY <1>12 DEF CancelWorkflow, Solo, NeverResumed, FutureOfStep, OneTask, TaskAwaited, Turn
<1>13. CASE EmitCancelled
  BY <1>13 DEF EmitCancelled, Solo, NeverResumed, FutureOfStep, OneTask, TaskAwaited,
               workflowVars, Turn
<1>14. ASSUME NEW m \in Messages,
              ResumeCheck(m) \/ ResumeSignal(m) \/ ResumeFails(m) \/ EmitResumed(m)
       PROVE  Solo'
  BY <1>14 DEF ResumeCheck, ResumeSignal, ResumeFails, EmitResumed, Solo, NeverResumed
<1>15. CASE UNCHANGED vars
  BY <1>15 DEF vars, workflowVars, apiVars, Solo, NeverResumed, FutureOfStep, OneTask,
               TaskAwaited, Turn
<1> QED
  BY <1>1, <1>2, <1>3, <1>4, <1>5, <1>7, <1>8, <1>9, <1>10, <1>11, <1>12, <1>13, <1>14, <1>15
     DEF Next, WorkflowStep, ActivityStep, HandlerStep

LEMMA SoloOneActivity == Solo => OneActivity
<1> SUFFICES ASSUME Solo PROVE Cardinality(acts) <= 1
  BY DEF OneActivity
<1>1. CASE acts = {}
  BY <1>1, FS_EmptySet
<1>2. ASSUME NEW a \in acts PROVE Cardinality(acts) <= 1
  <2>1. acts = {a}
    BY DEF Solo, OneTask
  <2>2. Cardinality({a}) = 1
    BY FS_Singleton
  <2> QED
    BY <2>1, <2>2
<1> QED
  BY <1>1, <1>2

(* However cancels, timeouts and crashes interleave, two activities never  *)
(* work on a run that is not resumed.                                      *)
THEOREM OneActivityAtATime == ASSUME ~CanResume PROVE Spec => []OneActivity
<1>1. Init => TypeOK /\ Solo
  BY TypeInit, SoloInit
<1>2. TypeOK /\ Solo /\ [Next]_vars => (TypeOK /\ Solo)'
  BY TypeStep, SoloStep
<1> QED
  BY <1>1, <1>2, SoloOneActivity, PTL DEF Spec

-----------------------------------------------------------------------------
(* A turn that ends leaves a verdict or a cancelled run.                   *)

(* What the row shows when a turn is over. *)
Settled == status # "running" /\ phase \in {"completed", "failed", "cancelled"}

(* The row stops saying "running" at the first verdict, and a cancelled    *)
(* run keeps saying it only until the handler has emitted the event.       *)
RowInv ==
  /\ verdict # "none" => status # "running"
  /\ cancelled /\ status = "running" => cancelAt = "signalled"

(* What a task knows at its place: the verifier has seen a verdict that is *)
(* still there, and those that end a turn have settled the row.            *)
TaskInv ==
  \A a \in acts :
    /\ a.at = "read" => a.kind = "verify" /\ (a.found # "none" => status # "running")
    /\ a.at = "leaving" /\ a.kind = "verify" /\ a.out = "ok" => Settled
    /\ a.at = "leaving" /\ a.kind = "failure" => Settled

(* What the workflow knows at its place, unless it is cancelled. *)
StepInv ==
  ~cancelled =>
    /\ step = "verify" /\ future = "ok" => Settled
    /\ step = "failure" /\ (future \in {"ok", "error"} \/ acts = {})
         => Settled \/ Turn \in lost
    /\ step = "select" /\ Turn > 0 => Settled \/ Turn \in lost

EndInv == RowInv /\ TaskInv /\ StepInv

LEMMA EndInit == Init => EndInv
  BY DEF Init, EndInv, RowInv, TaskInv, StepInv, Turn

(* What a task becomes is all there is to see after an activity's step.    *)
LEMMA MoveEnd ==
  ASSUME Solo, NEW a \in acts, NEW b, acts' = (acts \ {a}) \union {b},
         UNCHANGED workflowVars
  PROVE  /\ acts' = {b}
         /\ StepInv'
<1>1. acts' = {b}
  BY DEF Solo, OneTask
<1>2. ~cancelled => future = "pending" /\ step = a.kind
  BY DEF Solo, TaskAwaited
<1>3. ~cancelled => step # "select"
  BY <1>2 DEF Solo, FutureOfStep
<1> QED
  BY <1>1, <1>2, <1>3 DEF StepInv, workflowVars

LEMMA EndStep ==
  ASSUME ~CanResume, TypeOK, Solo, EndInv, [Next]_vars
  PROVE  EndInv'
<1> USE DEF Verdicts
<1>1. CASE ReceiveMessage
  <2>1. step' = "plan" /\ RowInv'
    BY <1>1 DEF ReceiveMessage, Schedule, EndInv, RowInv, runVars, apiVars
  <2>2. TaskInv'
    BY <1>1 DEF ReceiveMessage, Schedule, EndInv, TaskInv, Settled, runVars
  <2> QED
    BY <2>1, <2>2 DEF EndInv, StepInv
<1>2. CASE Proceed
  <2>1. step' = NextKind(step, future) /\ step' \in {"execute", "verify", "failure"}
    BY <1>2 DEF Proceed, Schedule, NextKind
  <2>2. RowInv'
    BY <1>2 DEF Proceed, EndInv, RowInv, runVars, apiVars
  <2>3. TaskInv'
    BY <1>2 DEF Proceed, Schedule, EndInv, TaskInv, Settled, runVars
  <2>4. ~cancelled' => future' = "pending" /\ acts' # {}
    BY <1>2 DEF Proceed, Schedule, ContextDone
  <2> QED
    BY <2>1, <2>2, <2>3, <2>4 DEF EndInv, StepInv
<1>3. CASE EndTurn
  <2>1. step = "failure" \/ (step = "verify" /\ future = "ok")
    BY <1>3 DEF EndTurn, NextKind, TypeOK, Kinds
  <2>2. StepInv'
    BY <1>3, <2>1 DEF EndTurn, EndInv, StepInv, Settled, runVars, crashVars, Turn
  <2> QED
    BY <1>3, <2>2 DEF EndTurn, EndInv, RowInv, TaskInv, Settled, runVars, apiVars
<1>4. CASE FutureCancelled
  BY <1>4 DEF FutureCancelled, EndInv, RowInv, TaskInv, StepInv, Settled, runVars, apiVars
<1>5. CASE TaskTimesOut
  <2>1. ~cancelled => acts = {}
    BY <1>5 DEF TaskTimesOut, Awaited, Solo, TaskAwaited
  <2>2. StepInv'
    BY <1>5, <2>1 DEF TaskTimesOut, EndInv, StepInv, Settled, Turn, runVars, crashVars
  <2> QED
    BY <1>5, <2>2 DEF TaskTimesOut, EndInv, RowInv, TaskInv, Settled, runVars, apiVars
<1>6. ASSUME NEW a \in acts, Start(a) PROVE EndInv'
  <2>1. acts' = {[a EXCEPT !.at = "running", !.out = "none"]} /\ StepInv'
    BY <1>6, MoveEnd DEF Start, Becomes
  <2>2. TaskInv'
    BY <2>1 DEF TaskInv, Task, TypeOK
  <2> QED
    BY <1>6, <2>1, <2>2 DEF Start, SetPhase, EndInv, RowInv, apiVars, workflowVars
<1>7. ASSUME NEW a \in acts, PlanFails(a) \/ Plan(a) PROVE EndInv'
  <2>1. PICK out : Becomes(a, "leaving", out)
    BY <1>7 DEF PlanFails, Plan
  <2>2. acts' = {[a EXCEPT !.at = "leaving", !.out = out]} /\ StepInv'
    BY <1>7, <2>1, MoveEnd DEF PlanFails, Plan, Becomes
  <2>3. TaskInv'
    BY <1>7, <2>2 DEF PlanFails, Plan, TaskInv, Task, TypeOK
  <2> QED
    BY <1>7, <2>2, <2>3 DEF PlanFails, Plan, EndInv, RowInv, runVars, apiVars, workflowVars
<1>8. ASSUME NEW a \in acts, Execute(a) PROVE EndInv'
  <2>1. PICK out \in {"ok", "error"} : Becomes(a, "leaving", out)
    BY <1>8 DEF Execute
  <2>2. acts' = {[a EXCEPT !.at = "leaving", !.out = out]} /\ StepInv'
    BY <1>8, <2>1, MoveEnd DEF Execute, Becomes
  <2>3. TaskInv'
    BY <1>8, <2>2 DEF Execute, TaskInv, Task, TypeOK
  <2>4. RowInv'
    BY <1>8 DEF Execute, Report, EndInv, RowInv, runVars, apiVars, workflowVars
  <2> QED
    BY <2>2, <2>3, <2>4 DEF EndInv
<1>9. ASSUME NEW a \in acts, VerifyRead(a) PROVE EndInv'
  <2>1. RowInv' /\ UNCHANGED <<status, phase, verdict>>
    BY <1>9 DEF VerifyRead, EndInv, RowInv, runVars, apiVars, workflowVars
  <2>2. CASE Becomes(a, "leaving", "error")
    <3>1. acts' = {[a EXCEPT !.at = "leaving", !.out = "error"]} /\ StepInv'
      BY <1>9, <2>2, MoveEnd DEF VerifyRead, Becomes
    <3> QED
      BY <1>9, <2>1, <3>1 DEF VerifyRead, EndInv, TaskInv, Task, TypeOK
  <2>3. CASE acts' = (acts \ {a}) \union {[a EXCEPT !.at = "read", !.found = verdict]}
    <3>1. acts' = {[a EXCEPT !.at = "read", !.found = verdict]} /\ StepInv'
      BY <1>9, <2>3, MoveEnd DEF VerifyRead
    <3> QED
      BY <1>9, <2>1, <3>1 DEF VerifyRead, EndInv, RowInv, TaskInv, Task, TypeOK
  <2> QED
    BY <1>9, <2>2, <2>3 DEF VerifyRead
<1>10. ASSUME NEW a \in acts, VerifyWrite(a) PROVE EndInv'
  <2>1. acts' = {[a EXCEPT !.at = "leaving", !.out = "ok"]} /\ StepInv'
    BY <1>10, MoveEnd DEF VerifyWrite, Becomes
  <2>2. Settled'
    BY <1>10 DEF VerifyWrite, HasTerminal, SetPhase, Report, Settled, EndInv, TaskInv
  <2>3. TaskInv'
    BY <2>1, <2>2, <1>10 DEF TaskInv, Task, TypeOK
  <2>4. RowInv'
    BY <1>10, <2>2 DEF Settled, RowInv
  <2> QED
    BY <2>1, <2>3, <2>4 DEF EndInv
<1>11. ASSUME NEW a \in acts, HandleRunFailure(a) PROVE EndInv'
  <2>1. acts' = {[a EXCEPT !.at = "leaving", !.out = "ok"]} /\ StepInv'
    BY <1>11, MoveEnd DEF HandleRunFailure, Becomes
  <2>2. Settled'
    BY <1>11 DEF HandleRunFailure, Report, Settled
  <2>3. TaskInv'
    BY <2>1, <2>2, <1>11 DEF TaskInv, Task, TypeOK
  <2>4. RowInv'
    BY <2>2 DEF Settled, RowInv
  <2> QED
    BY <2>1, <2>3, <2>4 DEF EndInv
<1>12. ASSUME NEW a \in acts, Return(a) PROVE EndInv'
  <2>1. acts' = {}
    BY <1>12 DEF Return, Solo, OneTask
  <2>2. ~cancelled => a \in Awaited /\ future = "pending" /\ step = a.kind
    BY DEF Solo, TaskAwaited, Awaited
  <2>3. ~cancelled => future' = a.out /\ step # "select"
    BY <1>12, <2>2 DEF Return, Solo, FutureOfStep
  <2>4. StepInv'
    BY <1>12, <2>1, <2>2, <2>3 DEF Return, EndInv, TaskInv, StepInv, Settled, runVars
  <2> QED
    BY <1>12, <2>1, <2>4 DEF Return, EndInv, RowInv, TaskInv, runVars, apiVars
<1>13. CASE WorkerCrash
  <2>1. RowInv' /\ TaskInv'
    BY <1>13 DEF WorkerCrash, EndInv, RowInv, TaskInv, Settled, workflowVars, runVars, apiVars
  <2>2. ASSUME ~cancelled, step = "failure", acts' = {}, acts # {}
        PROVE  Settled \/ Turn \in lost'
    <3>1. PICK a \in acts : a.turn = Turn /\ a.kind = "failure"
      BY <2>2 DEF Solo, TaskAwaited
    <3>2. a.at # "queued" /\ a.at # "read"
      BY <1>13, <2>2, <3>1 DEF WorkerCrash, EndInv, TaskInv
    <3>3. a.at = "running" \/ a.at = "leaving"
      BY <3>2 DEF TypeOK, Task
    <3> QED
      BY <1>13, <3>1, <3>3 DEF WorkerCrash, EndInv, TaskInv
  <2>3. StepInv'
    BY <1>13, <2>2 DEF WorkerCrash, EndInv, StepInv, Settled, Turn, workflowVars, runVars
  <2> QED
    BY <2>1, <2>3 DEF EndInv
<1>14. ASSUME NEW m \in Messages, AddMessage(m) PROVE EndInv'
  BY <1>14 DEF AddMessage, EndInv, RowInv, TaskInv, StepInv, Settled, Turn, runVars, crashVars
<1>15. CASE CancelWorkflow
  BY <1>15 DEF CancelWorkflow, EndInv, RowInv, TaskInv, StepInv, Settled, Turn, runVars, crashVars
<1>16. CASE EmitCancelled
  BY <1>16 DEF EmitCancelled, EndInv, RowInv, TaskInv, StepInv, Settled, Turn, workflowVars,
               crashVars
<1>17. ASSUME NEW m \in Messages,
              ResumeCheck(m) \/ ResumeSignal(m) \/ ResumeFails(m) \/ EmitResumed(m)
       PROVE  EndInv'
  BY <1>17 DEF ResumeCheck, ResumeSignal, ResumeFails, EmitResumed, Solo, NeverResumed
<1>18. CASE UNCHANGED vars
  BY <1>18 DEF vars, workflowVars, runVars, apiVars, crashVars, EndInv, RowInv, TaskInv,
               StepInv, Settled, Turn
<1> QED
  BY <1>1, <1>2, <1>3, <1>4, <1>5, <1>6, <1>7, <1>8, <1>9, <1>10, <1>11, <1>12, <1>13, <1>14,
     <1>15, <1>16, <1>17, <1>18 DEF Next, WorkflowStep, ActivityStep, HandlerStep

LEMMA EndAlive == Solo /\ EndInv => RunningIsAlive
  BY DEF RunningIsAlive, Quiet, HandlersIdle, EndInv, RowInv, StepInv, Settled

(* A run that is not resumed never says "running" with nothing under way,  *)
(* whatever fails, times out, is cancelled or crashes, except when a       *)
(* worker dies inside HandleRunFailure.                                    *)
THEOREM RunningMeansAlive == ASSUME ~CanResume PROVE Spec => []RunningIsAlive
<1>1. Init => TypeOK /\ Solo /\ EndInv
  BY TypeInit, SoloInit, EndInit
<1>2. TypeOK /\ Solo /\ EndInv /\ [Next]_vars => (TypeOK /\ Solo /\ EndInv)'
  BY TypeStep, SoloStep, EndStep
<1> QED
  BY <1>1, <1>2, EndAlive, PTL DEF Spec

-----------------------------------------------------------------------------
(* Where no call to Temporal is lost, an open workflow of a run that shows *)
(* "cancelled" is cancelled.                                               *)

CancelReached ==
  workflow = "open" /\ ~cancelled =>
    cancelAt = "idle" /\ status # "cancelled" /\ phase # "cancelled"

LEMMA CancelReachedStep ==
  ASSUME ~CanResume, ~CallsFail, TypeOK, Solo, CancelReached, [Next]_vars
  PROVE  CancelReached'
<1> USE DEF CancelReached, Verdicts
<1>1. CASE WorkflowStep
  BY <1>1 DEF WorkflowStep, ReceiveMessage, Proceed, EndTurn, FutureCancelled, TaskTimesOut,
              runVars, apiVars
<1>2. CASE ActivityStep
  <2>1. UNCHANGED <<workflow, cancelled, cancelAt>>
    BY <1>2 DEF ActivityStep, Start, PlanFails, Plan, Execute, VerifyRead, VerifyWrite,
                HandleRunFailure, Return, workflowVars, apiVars
  <2>2. PICK a \in acts :
          \/ Start(a) \/ PlanFails(a) \/ Plan(a) \/ Execute(a)
          \/ VerifyRead(a) \/ VerifyWrite(a) \/ HandleRunFailure(a) \/ Return(a)
    BY <1>2 DEF ActivityStep
  <2>3. status' \in Verdicts \/ status' = status
    BY <2>2 DEF Start, PlanFails, Plan, Execute, VerifyRead, VerifyWrite, HandleRunFailure,
                Return, SetPhase, Report, runVars
  <2>4. phase' # "cancelled" \/ phase' = phase
    BY <2>2 DEF Start, PlanFails, Plan, Execute, VerifyRead, VerifyWrite, HandleRunFailure,
                Return, SetPhase, PhaseOf, Report, runVars
  <2> QED
    BY <2>1, <2>3, <2>4
<1>3. CASE HandlerStep
  BY <1>3 DEF HandlerStep, EmitCancelled, ResumeSignal, ResumeFails, EmitResumed, Solo,
              NeverResumed, workflowVars
<1>4. CASE WorkerCrash
  BY <1>4 DEF WorkerCrash, workflowVars, runVars, apiVars
<1>5. CASE CancelWorkflow
  BY <1>5 DEF CancelWorkflow, runVars
<1>6. ASSUME NEW m \in Messages, AddMessage(m) \/ ResumeCheck(m) PROVE CancelReached'
  BY <1>6 DEF AddMessage, ResumeCheck, runVars
<1>7. CASE UNCHANGED vars
  BY <1>7 DEF vars, workflowVars, runVars, apiVars
<1> QED
  BY <1>1, <1>2, <1>3, <1>4, <1>5, <1>6, <1>7 DEF Next

(* The invariant of a run that is not resumed and whose calls arrive. *)
UnresumedInv == TypeOK /\ Solo /\ EndInv /\ CancelReached

LEMMA UnresumedInvariant ==
  ASSUME ~CanResume, ~CallsFail
  PROVE  Spec => []UnresumedInv
<1>1. Init => UnresumedInv
  BY TypeInit, SoloInit, EndInit DEF UnresumedInv, Init, CancelReached
<1>2. UnresumedInv /\ [Next]_vars => UnresumedInv'
  BY TypeStep, SoloStep, EndStep, CancelReachedStep DEF UnresumedInv
<1> QED
  BY <1>1, <1>2, PTL DEF Spec

(* Every turn of a run that is neither cancelled nor resumed ends with a   *)
(* verdict in the row and a final phase, unless the worker dies inside     *)
(* HandleRunFailure.                                                       *)
THEOREM TurnsSettle ==
  ASSUME ~CanResume, ~CallsFail PROVE Spec => []SettledWhenIdle
<1>1. UnresumedInv => SettledWhenIdle
  <2> SUFFICES ASSUME UnresumedInv, workflow = "open", ~cancelled, Turn > 0,
                      Turn \notin lost, step = "select"
               PROVE  status \in Verdicts /\ phase \in {"completed", "failed"}
    BY DEF SettledWhenIdle, Quiet
  <2>1. Settled /\ status # "cancelled" /\ phase # "cancelled"
    BY DEF UnresumedInv, EndInv, StepInv, CancelReached
  <2> QED
    BY <2>1 DEF Settled, UnresumedInv, TypeOK
<1> QED
  BY <1>1, UnresumedInvariant, PTL

(* Once the row says "cancelled" and no activity is left, no step of any   *)
(* process starts one or writes another status.                            *)
THEOREM CancelIsFinal ==
  ASSUME ~CanResume, ~CallsFail PROVE Spec => CancelSticks
<1>1. UnresumedInv /\ [Next]_vars
        => (status = "cancelled" /\ acts = {} => acts' = {} /\ status' = "cancelled")
  <2> SUFFICES ASSUME UnresumedInv, [Next]_vars, status = "cancelled", acts = {}
               PROVE  acts' = {} /\ status' = "cancelled"
    OBVIOUS
  <2>1. workflow = "open" => cancelled
    BY DEF UnresumedInv, CancelReached
  <2>2. CASE WorkflowStep
    BY <2>1, <2>2 DEF WorkflowStep, ReceiveMessage, Proceed, EndTurn, FutureCancelled,
                      TaskTimesOut, Schedule, ContextDone, runVars
  <2>3. CASE ActivityStep
    BY <2>3 DEF ActivityStep
  <2>4. CASE HandlerStep
    BY <2>4 DEF HandlerStep, EmitCancelled, ResumeSignal, ResumeFails, EmitResumed,
                UnresumedInv, Solo, NeverResumed
  <2>5. CASE WorkerCrash
    BY <2>5 DEF WorkerCrash, runVars
  <2>6. CASE CancelWorkflow
    BY <2>6 DEF CancelWorkflow, runVars
  <2>7. ASSUME NEW m \in Messages, AddMessage(m) \/ ResumeCheck(m)
        PROVE  acts' = {} /\ status' = "cancelled"
    BY <2>7 DEF AddMessage, ResumeCheck, runVars
  <2>8. CASE UNCHANGED vars
    BY <2>8 DEF vars, runVars
  <2> QED
    BY <2>2, <2>3, <2>4, <2>5, <2>6, <2>7, <2>8 DEF Next
<1> QED
  BY <1>1, UnresumedInvariant, PTL DEF CancelSticks, Spec

-----------------------------------------------------------------------------
(* One task per turn, in a run that may be resumed: the activity that a    *)
(* cancelled execution has left behind goes on beside those of the next.   *)

(* The awaited task is the turn's only one, until the context is cancelled;*)
(* afterwards nothing is scheduled before the turn has ended.              *)
Apart ==
  /\ workflow # "open" => step = "select"
  /\ \A a \in acts : a.turn <= Turn
  /\ \A a, b \in acts : a.turn = b.turn => a = b
  /\ step # "select" /\ ~cancelled =>
       \A a \in acts : a.turn = Turn => future = "pending" /\ a.kind = step

LEMMA ApartInit == Init => Apart
  BY DEF Init, Apart

LEMMA TurnNat ==
  ASSUME TypeOK
  PROVE  Turn \in Nat /\ \A a \in acts : a.turn \in Nat
BY DEF TypeOK, Turn, Task

(* A task is scheduled in a turn that has none. *)
LEMMA ScheduleApart ==
  ASSUME TypeOK, Apart, NEW kind \in Kinds, NEW t \in Nat, Turn <= t, Turn' = t,
         ~cancelled => \A a \in acts : a.turn # t,
         Schedule(kind, t), workflow = "open", UNCHANGED <<workflow, cancelled>>
  PROVE  Apart'
<1> USE TurnNat
<1>1. step' = kind /\ kind # "select"
  BY DEF Schedule, Kinds
<1>2. CASE cancelled
  BY <1>1, <1>2 DEF Schedule, ContextDone, Apart
<1>3. CASE ~cancelled
  <2>1. PICK new : /\ new.turn = t /\ new.kind = kind
                   /\ acts' = acts \union {new} /\ future' = "pending"
    BY <1>3 DEF Schedule, ContextDone
  <2>2. \A a \in acts' : a \in acts \/ a = new
    BY <2>1
  <2>3. \A a \in acts' : a.turn <= Turn'
    BY <2>1, <2>2 DEF Apart
  <2>4. \A a, b \in acts' : a.turn = b.turn => a = b
    BY <1>3, <2>1, <2>2 DEF Apart
  <2>5. \A a \in acts' : a.turn = Turn' => a.kind = kind
    BY <1>3, <2>1, <2>2
  <2> QED
    BY <1>1, <2>1, <2>3, <2>4, <2>5 DEF Apart
<1> QED
  BY <1>2, <1>3

(* An activity's own steps move its task and nothing the workflow has. *)
LEMMA MoveApart ==
  ASSUME Apart, NEW a \in acts, NEW b, b.turn = a.turn, b.kind = a.kind,
         acts' = (acts \ {a}) \union {b}, UNCHANGED workflowVars
  PROVE  Apart'
<1>1. \A c \in acts' : c = b \/ (c \in acts /\ c # a)
  OBVIOUS
<1>2. \A c \in acts' : c.turn = b.turn => c = b
  BY <1>1 DEF Apart
<1> QED
  BY <1>1, <1>2 DEF Apart, workflowVars, Turn

(* Where tasks only go away, the others stay the only ones of their turns. *)
LEMMA FewerApart ==
  ASSUME Apart, acts' \subseteq acts, UNCHANGED received,
         workflow' # "open" => step' = "select",
         step' # "select" /\ ~cancelled' =>
           step # "select" /\ ~cancelled /\ step' = step
           /\ (future' = future \/ \A a \in acts' : a.turn # Turn)
  PROVE  Apart'
BY DEF Apart, Turn

LEMMA ApartStep ==
  ASSUME TypeOK, Apart, [Next]_vars
  PROVE  Apart'
<1>1. CASE ReceiveMessage
  <2>1. Turn' = Turn + 1 /\ Turn + 1 \in Nat /\ Turn <= Turn + 1
    BY <1>1 DEF ReceiveMessage, Turn, TypeOK
  <2>2. \A a \in acts : a.turn # Turn + 1
    BY TurnNat DEF Apart
  <2> QED
    BY <1>1, <2>1, <2>2, ScheduleApart DEF ReceiveMessage, Kinds
<1>2. CASE Proceed
  <2>1. NextKind(step, future) \in Kinds /\ Turn' = Turn /\ Turn <= Turn
    BY <1>2, TurnNat DEF Proceed, NextKind, Kinds, TypeOK, Turn
  <2>2. ~cancelled => \A a \in acts : a.turn # Turn
    BY <1>2 DEF Proceed, Apart
  <2> QED
    BY <1>2, <2>1, <2>2, TurnNat, ScheduleApart DEF Proceed
<1>3. CASE EndTurn
  BY <1>3, FewerApart DEF EndTurn
<1>4. CASE FutureCancelled
  BY <1>4, FewerApart DEF FutureCancelled
<1>5. CASE TaskTimesOut
  <2>1. step # "select" /\ ~cancelled => \A a \in acts : a.turn # Turn
    BY <1>5 DEF TaskTimesOut, Awaited, Apart
  <2> QED
    BY <1>5, <2>1, FewerApart DEF TaskTimesOut
<1>6. ASSUME NEW a \in acts,
             \E at, out : Becomes(a, at, out), UNCHANGED workflowVars
      PROVE  Apart'
  BY <1>6, MoveApart DEF Becomes, Task, TypeOK
<1>7. ASSUME NEW a \in acts,
             Start(a) \/ PlanFails(a) \/ Plan(a) \/ Execute(a) \/ VerifyWrite(a)
               \/ HandleRunFailure(a)
      PROVE  Apart'
  BY <1>6, <1>7 DEF Start, PlanFails, Plan, Execute, VerifyWrite, HandleRunFailure
<1>8. ASSUME NEW a \in acts, VerifyRead(a) PROVE Apart'
  <2>1. CASE Becomes(a, "leaving", "error")
    BY <1>6, <1>8, <2>1 DEF VerifyRead
  <2>2. CASE acts' = (acts \ {a}) \union {[a EXCEPT !.at = "read", !.found = verdict]}
    BY <1>8, <2>2, MoveApart DEF VerifyRead, Task, TypeOK
  <2> QED
    BY <1>8, <2>1, <2>2 DEF VerifyRead
<1>9. ASSUME NEW a \in acts, Return(a) PROVE Apart'
  <2>1. acts' = acts \ {a} /\ UNCHANGED <<workflow, cancelled, step, received>>
    BY <1>9 DEF Return
  <2>2. CASE a \in Awaited
    <3>1. \A b \in acts' : b.turn # Turn
      BY <2>1, <2>2 DEF Awaited, Apart
    <3> QED
      BY <2>1, <3>1, FewerApart DEF Apart
  <2>3. CASE a \notin Awaited
    <3>1. future' = future
      BY <1>9, <2>3 DEF Return
    <3> QED
      BY <2>1, <3>1, FewerApart DEF Apart
  <2> QED
    BY <2>2, <2>3
<1>10. CASE WorkerCrash
  <2>1. acts' \subseteq acts /\ UNCHANGED workflowVars
    BY <1>10 DEF WorkerCrash
  <2> QED
    BY <2>1, FewerApart DEF workflowVars, Apart
<1>11. ASSUME NEW m \in Messages, AddMessage(m) PROVE Apart'
  BY <1>11, FewerApart DEF AddMessage, Apart
<1>12. CASE CancelWorkflow
  <2>1. ~cancelled' => ~cancelled
    BY <1>12 DEF CancelWorkflow
  <2> QED
    BY <1>12, <2>1, FewerApart DEF CancelWorkflow, Apart
<1>13. CASE EmitCancelled
  BY <1>13, FewerApart DEF EmitCancelled, workflowVars, Apart
<1>14. ASSUME NEW m \in Messages, ResumeSignal(m) PROVE Apart'
  <2>1. CASE workflow = "open"
    <3>1. ~cancelled' => ~cancelled
      BY <1>14, <2>1, Zenon DEF ResumeSignal
    <3> QED
      BY <1>14, <2>1, <3>1, FewerApart DEF ResumeSignal, Apart
  <2>2. CASE workflow # "open"
    BY <1>14, <2>2, FewerApart DEF ResumeSignal, Apart
  <2> QED
    BY <2>1, <2>2
<1>15. ASSUME NEW m \in Messages, ResumeCheck(m) \/ ResumeFails(m) \/ EmitResumed(m)
       PROVE  Apart'
  BY <1>15, FewerApart DEF ResumeCheck, ResumeFails, EmitResumed, workflowVars, Apart
<1>16. CASE UNCHANGED vars
  BY <1>16, FewerApart DEF vars, workflowVars, Apart
<1> QED
  BY <1>1, <1>2, <1>3, <1>4, <1>5, <1>7, <1>8, <1>9, <1>10, <1>11, <1>12, <1>13, <1>14, <1>15,
     <1>16
     DEF Next, WorkflowStep, ActivityStep, HandlerStep

(* Two activities of one turn. *)
OneTaskPerTurn == \A a, b \in acts : a.turn = b.turn => a = b

(* Resumed or not: two activities never work on one turn. The one that a   *)
(* cancelled execution has left behind stays the only one of its turn.     *)
THEOREM TurnsKeepApart == Spec => []OneTaskPerTurn
<1>1. Init => TypeOK /\ Apart
  BY TypeInit, ApartInit
<1>2. TypeOK /\ Apart /\ [Next]_vars => (TypeOK /\ Apart)'
  BY TypeStep, ApartStep
<1>3. Apart => OneTaskPerTurn
  BY DEF Apart, OneTaskPerTurn
<1> QED
  BY <1>1, <1>2, <1>3, PTL DEF Spec

-----------------------------------------------------------------------------
(* One verdict per turn.                                                   *)

(* No activity has reported on turn t. *)
Unreported(t) == \A r \in verdicts : r[1] # t

(* Turns to come are unreported; the verifier's "none" is still true of    *)
(* its turn when it writes; the planner and the executor of a turn come    *)
(* before any report on it.                                                *)
ReportInv ==
  /\ \A r \in verdicts : r[1] <= Turn
  /\ verdict = "none" => verdicts = {}
  /\ ~cancelled /\ step = "plan" => Unreported(Turn)
  /\ \A a \in acts :
       /\ a.kind = "plan" => Unreported(a.turn)
       /\ a.kind = "execute" /\ a.at \in {"queued", "running"} => Unreported(a.turn)
       /\ a.at = "read" => a.kind = "verify" /\ (a.found = "none" => Unreported(a.turn))

VerdictInv == ReportInv /\ OneVerdict

LEMMA VerdictInit == Init => VerdictInv
  BY DEF Init, VerdictInv, ReportInv, OneVerdict, Turn, Unreported

(* What an activity may become while it reports nothing. *)
LEMMA MoveSilent ==
  ASSUME VerdictInv, NEW a \in acts, NEW b,
         acts' = (acts \ {a}) \union {b}, UNCHANGED workflowVars, UNCHANGED <<verdict, verdicts>>,
         b.turn = a.turn, b.kind = a.kind,
         b.at \in {"running", "leaving"} \/ (b.at = "read" /\ b.kind = "verify" /\ b.found = verdict),
         b.at = "running" => a.at = "queued"
  PROVE  VerdictInv'
<1>1. Turn' = Turn /\ step' = step /\ cancelled' = cancelled
  BY DEF workflowVars, Turn
<1>2. \A c \in acts' : c = b \/ c \in acts
  OBVIOUS
<1>3. /\ b.kind = "plan" => Unreported(b.turn)
      /\ b.kind = "execute" /\ b.at \in {"queued", "running"} => Unreported(b.turn)
      /\ b.at = "read" => b.kind = "verify" /\ (b.found = "none" => Unreported(b.turn))
  BY DEF VerdictInv, ReportInv, Unreported
<1> QED
  BY <1>1, <1>2, <1>3 DEF VerdictInv, ReportInv, Unreported, OneVerdict

(* A task of the turn that reports: nothing else of that turn is there to  *)
(* rely on its silence.                                                    *)
LEMMA MoveReporting ==
  ASSUME TypeOK, Apart, VerdictInv, NEW a \in acts, NEW b, NEW v \in Verdicts,
         acts' = (acts \ {a}) \union {b}, UNCHANGED workflowVars, Report(a.turn, v),
         b.turn = a.turn, b.kind = a.kind, b.at = "leaving", a.kind # "plan",
         v = "failed" \/ Unreported(a.turn)
  PROVE  VerdictInv'
<1>0. a.turn \in Nat /\ Turn \in Nat /\ a.turn <= Turn
  BY TurnNat DEF Apart
<1>1. Turn' = Turn /\ step' = step /\ cancelled' = cancelled
  BY DEF workflowVars, Turn
<1>2. verdicts' = verdicts \union {<<a.turn, v>>} /\ verdict' = v /\ v # "none"
  BY DEF Report, Verdicts
<1>3. \A c \in acts' : c = b \/ (c \in acts /\ c.turn # a.turn)
  BY DEF Apart
<1>4. \A t : t # a.turn /\ Unreported(t) => Unreported(t)'
  BY <1>2 DEF Unreported
<1>5. ~cancelled /\ step = "plan" => a.turn # Turn
  BY DEF Apart
<1>6. \A r \in verdicts' : r[1] <= Turn'
  BY <1>0, <1>1, <1>2 DEF VerdictInv, ReportInv
<1>7. ~cancelled' /\ step' = "plan" => Unreported(Turn)'
  BY <1>1, <1>4, <1>5 DEF VerdictInv, ReportInv, Unreported
<1>8. ASSUME NEW c \in acts'
      PROVE  /\ c.kind = "plan" => Unreported(c.turn)'
             /\ c.kind = "execute" /\ c.at \in {"queued", "running"} => Unreported(c.turn)'
             /\ c.at = "read" => c.kind = "verify" /\ (c.found = "none" => Unreported(c.turn)')
  <2>1. CASE c = b
    BY <2>1
  <2>2. CASE c \in acts /\ c.turn # a.turn
    BY <1>2, <2>2 DEF VerdictInv, ReportInv, Unreported
  <2> QED
    BY <1>3, <2>1, <2>2
<1>9. ReportInv'
  BY <1>2, <1>6, <1>7, <1>8 DEF ReportInv, Unreported
<1>10. OneVerdict'
  BY <1>2 DEF VerdictInv, Unreported, OneVerdict
<1> QED
  BY <1>9, <1>10 DEF VerdictInv

LEMMA VerdictStep ==
  ASSUME TypeOK, Apart, VerdictInv, [Next]_vars
  PROVE  VerdictInv'
<1> USE DEF VerdictInv
<1>0. Turn \in Nat /\ \A r \in verdicts : r[1] \in Nat
  BY DEF Turn, TypeOK
<1>1. CASE ReceiveMessage
  <2>1. Turn' = Turn + 1 /\ UNCHANGED <<verdict, verdicts, cancelled>>
    BY <1>1 DEF ReceiveMessage, Turn, TypeOK, runVars
  <2>2. Unreported(Turn)' /\ \A r \in verdicts' : r[1] <= Turn'
    BY <1>0, <2>1 DEF ReportInv, Unreported
  <2>3. \A a \in acts' : a \in acts \/ (a.turn = Turn' /\ a.at = "queued")
    BY <1>1, <2>1 DEF ReceiveMessage, Schedule
  <2>4. ReportInv'
    BY <1>0, <2>1, <2>2, <2>3 DEF ReportInv, Unreported
  <2> QED
    BY <2>1, <2>4 DEF OneVerdict
<1>2. CASE Proceed
  <2>1. Turn' = Turn /\ UNCHANGED <<verdict, verdicts, cancelled>>
    BY <1>2 DEF Proceed, Turn, runVars
  <2>2. step' \in {"execute", "verify", "failure"} /\ (step' = "execute" => step = "plan")
    BY <1>2 DEF Proceed, Schedule, NextKind
  <2>3. \A a \in acts' : a \in acts
          \/ (~cancelled /\ a.turn = Turn /\ a.at = "queued" /\ a.kind = step')
    BY <1>2, <2>2 DEF Proceed, Schedule, ContextDone
  <2>4. ReportInv'
    BY <1>0, <2>1, <2>2, <2>3 DEF ReportInv, Unreported
  <2> QED
    BY <2>1, <2>4 DEF OneVerdict
<1>3. CASE EndTurn \/ FutureCancelled \/ TaskTimesOut
  <2>1. Turn' = Turn /\ UNCHANGED <<verdict, verdicts, cancelled>> /\ acts' \subseteq acts
    BY <1>3 DEF EndTurn, FutureCancelled, TaskTimesOut, Turn, runVars
  <2>2. step' = step \/ step' = "select"
    BY <1>3 DEF EndTurn, FutureCancelled, TaskTimesOut
  <2> QED
    BY <2>1, <2>2 DEF ReportInv, Unreported, OneVerdict
<1>4. \A a \in acts : a \in Task
  BY DEF TypeOK
<1>5. ASSUME NEW a \in acts, Start(a) PROVE VerdictInv'
  <2> DEFINE b == [a EXCEPT !.at = "running", !.out = "none"]
  <2>1. b.turn = a.turn /\ b.kind = a.kind /\ b.at = "running"
    BY <1>4 DEF Task
  <2> HIDE DEF b
  <2>2. acts' = (acts \ {a}) \union {b}
    BY <1>5 DEF Start, Becomes, b
  <2>3. a.at = "queued" /\ UNCHANGED workflowVars /\ UNCHANGED <<verdict, verdicts>>
    BY <1>5 DEF Start, SetPhase
  <2> QED
    BY <2>1, <2>2, <2>3, MoveSilent
<1>6. ASSUME NEW a \in acts, NEW out, Becomes(a, "leaving", out), UNCHANGED workflowVars
      PROVE  /\ UNCHANGED <<verdict, verdicts>> => VerdictInv'
             /\ \A v \in Verdicts :
                  a.kind # "plan" /\ Report(a.turn, v) /\ (v = "failed" \/ Unreported(a.turn))
                    => VerdictInv'
  <2> DEFINE b == [a EXCEPT !.at = "leaving", !.out = out]
  <2>1. b.turn = a.turn /\ b.kind = a.kind /\ b.at = "leaving"
    BY <1>4 DEF Task
  <2>2. acts' = (acts \ {a}) \union {b}
    BY <1>6 DEF Becomes
  <2> HIDE DEF b
  <2>3. UNCHANGED <<verdict, verdicts>> => VerdictInv'
    BY <1>6, <2>1, <2>2, MoveSilent
  <2> QED
    BY <1>6, <2>1, <2>2, <2>3, MoveReporting
<1>7. ASSUME NEW a \in acts, PlanFails(a) \/ Plan(a) PROVE VerdictInv'
  BY <1>6, <1>7 DEF PlanFails, Plan, runVars
<1>8. ASSUME NEW a \in acts, Execute(a) PROVE VerdictInv'
  <2>1. Unreported(a.turn) /\ a.kind # "plan"
    BY <1>8 DEF Execute, ReportInv
  <2>2. PICK out : Becomes(a, "leaving", out)
    BY <1>8 DEF Execute
  <2>3. \/ UNCHANGED <<verdict, verdicts>>
        \/ \E v \in Verdicts : Report(a.turn, v)
    BY <1>8 DEF Execute, Verdicts, runVars
  <2> QED
    BY <1>6, <1>8, <2>1, <2>2, <2>3 DEF Execute
<1>9. ASSUME NEW a \in acts, VerifyRead(a) PROVE VerdictInv'
  <2>0. a.kind = "verify" /\ UNCHANGED workflowVars /\ UNCHANGED <<verdict, verdicts>>
    BY <1>9 DEF VerifyRead, runVars
  <2>1. CASE Becomes(a, "leaving", "error")
    BY <1>6, <2>0, <2>1
  <2>2. CASE acts' = (acts \ {a}) \union {[a EXCEPT !.at = "read", !.found = verdict]}
    <3> DEFINE b == [a EXCEPT !.at = "read", !.found = verdict]
    <3>1. b.turn = a.turn /\ b.kind = a.kind /\ b.at = "read" /\ b.found = verdict
      BY <1>4 DEF Task
    <3> HIDE DEF b
    <3>2. acts' = (acts \ {a}) \union {b}
      BY <2>2 DEF b
    <3> QED
      BY <2>0, <3>1, <3>2, MoveSilent
  <2> QED
    BY <1>9, <2>1, <2>2 DEF VerifyRead
<1>10. ASSUME NEW a \in acts, VerifyWrite(a) PROVE VerdictInv'
  <2>1. a.kind # "plan" /\ (a.found = "none" => Unreported(a.turn))
    BY <1>10 DEF VerifyWrite, ReportInv
  <2>2. Becomes(a, "leaving", "ok") /\ UNCHANGED workflowVars
    BY <1>10 DEF VerifyWrite
  <2> QED
    BY <1>6, <1>10, <2>1, <2>2 DEF VerifyWrite, HasTerminal, SetPhase, Verdicts
<1>11. ASSUME NEW a \in acts, HandleRunFailure(a) PROVE VerdictInv'
  BY <1>6, <1>11 DEF HandleRunFailure, Verdicts
<1>12. ASSUME NEW a \in acts, Return(a) PROVE VerdictInv'
  BY <1>12 DEF Return, runVars, ReportInv, Unreported, OneVerdict, Turn
<1>13. CASE WorkerCrash
  BY <1>13 DEF WorkerCrash, workflowVars, runVars, ReportInv, Unreported, OneVerdict, Turn
<1>14. CASE \/ CancelWorkflow \/ EmitCancelled
            \/ \E m \in Messages : AddMessage(m) \/ ResumeCheck(m) \/ ResumeFails(m)
                                     \/ EmitResumed(m)
  <2>1. UNCHANGED <<received, step, acts, verdict, verdicts>> /\ (~cancelled' => ~cancelled)
    BY <1>14 DEF CancelWorkflow, EmitCancelled, AddMessage, ResumeCheck, ResumeFails,
                 EmitResumed, workflowVars, runVars, TypeOK
  <2> QED
    BY <2>1 DEF ReportInv, Unreported, OneVerdict, Turn
<1>15. ASSUME NEW m \in Messages, ResumeSignal(m) PROVE VerdictInv'
  <2>1. UNCHANGED <<received, step, acts, verdict, verdicts>>
    BY <1>15 DEF ResumeSignal, runVars
  <2>2. ~cancelled' /\ step = "plan" => ~cancelled
    <3>1. step = "plan" => workflow = "open"
      BY DEF Apart
    <3> QED
      BY <1>15, <3>1, Zenon DEF ResumeSignal
  <2> QED
    BY <2>1, <2>2 DEF ReportInv, Unreported, OneVerdict, Turn
<1>16. CASE UNCHANGED vars
  BY <1>16 DEF vars, workflowVars, runVars, ReportInv, Unreported, OneVerdict, Turn
<1> QED
  BY <1>1, <1>2, <1>3, <1>5, <1>7, <1>8, <1>9, <1>10, <1>11, <1>12, <1>13, <1>14, <1>15, <1>16
     DEF Next, WorkflowStep, ActivityStep, HandlerStep

(* Resumed or not, the executor, the verifier and the failure handler      *)
(* never contradict each other about a turn, except by "failed", even when *)
(* a cancelled execution's activity reports in the next one's turns.       *)
THEOREM VerdictsAgree == Spec => []OneVerdict
<1>1. Init => TypeOK /\ Apart /\ VerdictInv
  BY TypeInit, ApartInit, VerdictInit
<1>2. TypeOK /\ Apart /\ VerdictInv /\ [Next]_vars => (TypeOK /\ Apart /\ VerdictInv)'
  BY TypeStep, ApartStep, VerdictStep
<1>3. VerdictInv => OneVerdict
  BY DEF VerdictInv
<1> QED
  BY <1>1, <1>2, <1>3, PTL DEF Spec
=============================================================================
