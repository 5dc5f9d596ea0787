---------------------------- MODULE RunLifecycle ----------------------------
(***************************************************************************)
(* One run from its creation on: the Temporal workflow that takes message  *)
(* signals and executes the four activities of a turn, the activities on   *)
(* the worker with the events they emit, and the API handlers that send    *)
(* messages, cancel and resume.                                            *)
(*                                                                         *)
(* An emitted event is one step here (RunEvents takes it apart), and only  *)
(* what it does to the run's row is kept: status, phase, and the latest    *)
(* terminal event, which VerifyExecution looks for.                        *)
(***************************************************************************)
EXTENDS Naturals, Sequences, FiniteSets, Functions

CONSTANTS Messages,    \* user messages, each posted once: the bound on turns
          MaxCrashes,  \* bound: crashes of the worker process
          MaxCancels,  \* bound: calls of POST /runs/{id}/cancel
          CanResume,   \* whether POST /runs/{id}/resume is called
          CallsFail    \* whether calls from the handlers to Temporal may fail

ASSUME LifecycleAssumption ==
  MaxCrashes \in Nat /\ MaxCancels \in Nat /\ CanResume \in BOOLEAN
  /\ CallsFail \in BOOLEAN

Kinds == {"plan", "execute", "verify", "failure"}
Verdicts == {"completed", "partial", "failed"}

VARIABLES
  workflow,   \* the execution with the run's workflow ID: "none", "open", "closed"
  cancelled,  \* its context is cancelled
  inbox,      \* its signal channel
  step,       \* "select", or the kind of the activity it awaits
  future,     \* that activity's future: "none", "pending", "ok", "error"
  acts,       \* activity tasks: queued, or executing on the worker
  status,     \* runs.status
  phase,      \* runs.phase
  verdict,    \* the latest terminal event, "none" before the first
  posted,     \* messages some handler has taken
  received,   \* history: messages received from the channel, in order
  lost,       \* history: turns whose HandleRunFailure died with the worker
  verdicts,   \* history: <<turn, terminal event>>
  resumeAt,   \* per message: the handler's place, "idle", "checked", "signalled"
  cancelAt,   \* cancelRun's place, "idle", "signalled"
  cancels,    \* calls of cancelRun so far
  crashes     \* crashes so far

workflowVars == <<workflow, cancelled, inbox, step, future, received>>
runVars == <<status, phase, verdict, verdicts>>
apiVars == <<posted, resumeAt, cancelAt, cancels>>
crashVars == <<lost, crashes>>
vars == <<workflowVars, acts, runVars, apiVars, crashVars>>

(* The turn the workflow is in, or ended last. *)
Turn == Len(received)

(* A task of an activity: whose turn, where it is, what it will return. *)
Task == [turn : Nat, kind : Kinds,
         at : {"queued", "running", "read", "leaving"}, out : {"ok", "error", "none"},
         found : Verdicts \union {"none"}]

TypeOK ==
  /\ workflow \in {"none", "open", "closed"} /\ cancelled \in BOOLEAN
  /\ inbox \in Seq(Messages) /\ received \in Seq(Messages)
  /\ step \in Kinds \union {"select"}
  /\ future \in {"none", "pending", "ok", "error"}
  /\ acts \subseteq Task
  /\ status \in Verdicts \union {"running", "cancelled"}
  /\ phase \in {"planning", "executing", "validating", "completed", "failed", "cancelled"}
  /\ verdict \in Verdicts \union {"none"}
  /\ posted \subseteq Messages /\ lost \subseteq Nat
  /\ verdicts \subseteq Nat \X Verdicts
  /\ resumeAt \in [Messages -> {"idle", "checked", "signalled"}]
  /\ cancelAt \in {"idle", "signalled"}
  /\ cancels \in 0..MaxCancels /\ crashes \in 0..MaxCrashes

(* createRun has stored the run and emitted run.started; it drops the      *)
(* error of StartRun, so there may be no workflow.                         *)
Init ==
  /\ workflow \in {"open", "none"} /\ cancelled = FALSE
  /\ inbox = <<>> /\ received = <<>>
  /\ step = "select" /\ future = "none"
  /\ acts = {} /\ lost = {}
  /\ status = "running" /\ phase = "planning" /\ verdict = "none" /\ verdicts = {}
  /\ posted = {} /\ resumeAt = [m \in Messages |-> "idle"]
  /\ cancelAt = "idle" /\ cancels = 0 /\ crashes = 0

-----------------------------------------------------------------------------
(* What the events do to the run's row (applyRunStateUpdateTx).            *)

SetPhase(p) == phase' = p /\ UNCHANGED <<status, verdict, verdicts>>

(* Mutant: the status is written to the phase column too. *)
ReportSamePhase(t, v) ==
  /\ status' = v
  /\ phase' = v
  /\ verdict' = v
  /\ verdicts' = verdicts \union {<<t, v>>}

(* run.completed, run.partial, run.failed, emitted in turn t. *)
Report(t, v) ==
  /\ status' = v
  /\ phase' = IF v = "failed" THEN "failed" ELSE "completed"
  /\ verdict' = v
  /\ verdicts' = verdicts \union {<<t, v>>}

-----------------------------------------------------------------------------
(* The workflow.                                                           *)

(* Mutant: the failure activity runs on a context that is not cancelled. *)
ContextDoneButFailure(kind) == cancelled /\ kind # "failure"

ContextDone(kind) == cancelled

(* ExecuteActivity: a cancelled context answers with an error at once and  *)
(* schedules nothing.                                                      *)
Schedule(kind, t) ==
  /\ step' = kind
  /\ IF ContextDone(kind)
       THEN future' = "error" /\ UNCHANGED acts
       ELSE /\ future' = "pending"
            /\ acts' = acts \union {[turn |-> t, kind |-> kind,
                                     at |-> "queued", out |-> "none", found |-> "none"]}

(* The callback of the selector: receive a message, start planning. *)
ReceiveMessage ==
  /\ workflow = "open" /\ step = "select" /\ inbox # <<>>
  /\ inbox' = Tail(inbox)
  /\ received' = Append(received, Head(inbox))
  /\ Schedule("plan", Turn + 1)
  /\ UNCHANGED <<workflow, cancelled, runVars, apiVars, crashVars>>

(* Mutant: the error of an activity ends the turn without HandleRunFailure. *)
NextKindNoFailure(kind, result) ==
  CASE result = "error"  -> "end"
    [] kind = "plan"     -> "execute"
    [] kind = "execute"  -> "verify"
    [] OTHER             -> "end"

(* Mutant: HandleRunFailure is retried until it succeeds. *)
NextKindRetries(kind, result) ==
  CASE result = "error"  -> "failure"
    [] kind = "plan"     -> "execute"
    [] kind = "execute"  -> "verify"
    [] OTHER             -> "end"

NextKind(kind, result) ==
  CASE kind = "failure"  -> "end"
    [] result = "error"  -> "failure"
    [] kind = "plan"     -> "execute"
    [] kind = "execute"  -> "verify"
    [] OTHER             -> "end"

(* The awaited future is ready: on to the next activity of the turn. *)
Proceed ==
  /\ workflow = "open" /\ step # "select" /\ future \in {"ok", "error"}
  /\ NextKind(step, future) # "end"
  /\ Schedule(NextKind(step, future), Turn)
  /\ UNCHANGED <<workflow, cancelled, inbox, received, runVars, apiVars, crashVars>>

(* The turn is over: a cancelled workflow returns, and the signals still   *)
(* in its channel are gone; any other goes back to Select.                 *)
EndTurn ==
  /\ workflow = "open" /\ step # "select" /\ future \in {"ok", "error"}
  /\ NextKind(step, future) = "end"
  /\ step' = "select" /\ future' = "none"
  /\ IF cancelled THEN workflow' = "closed" /\ inbox' = <<>>
                  ELSE UNCHANGED <<workflow, inbox>>
  /\ UNCHANGED <<cancelled, received, acts, runVars, apiVars, crashVars>>

(* The task whose future the workflow awaits. *)
Awaited == {a \in acts : a.turn = Turn /\ a.kind = step}

(* Cancelling the context fails the pending future at once.  The activity  *)
(* is not told: it goes on if a worker has it.                             *)
FutureCancelled ==
  /\ workflow = "open" /\ cancelled /\ future = "pending"
  /\ future' = "error"
  /\ acts' = acts \ {a \in Awaited : a.at = "queued"}
  /\ UNCHANGED <<workflow, cancelled, inbox, step, received, 
                 runVars, apiVars, crashVars>>

(* StartToCloseTimeout, one attempt: the worker that had the task died. *)
TaskTimesOut ==
  /\ workflow = "open" /\ future = "pending" /\ Awaited = {}
  /\ future' = "error"
  /\ UNCHANGED <<workflow, cancelled, inbox, step, received, acts, 
                 runVars, apiVars, crashVars>>

-----------------------------------------------------------------------------
(* The activities on the worker.                                           *)

Becomes(a, at, out) == acts' = (acts \ {a}) \union {[a EXCEPT !.at = at, !.out = out]}

PhaseOf(kind) == CASE kind = "plan"    -> "planning"
                   [] kind = "execute" -> "executing"
                   [] kind = "verify"  -> "validating"
                   [] OTHER            -> phase

(* The worker polls a task; all but HandleRunFailure start with a phase.   *)
Start(a) ==
  /\ a \in acts /\ a.at = "queued"
  /\ SetPhase(PhaseOf(a.kind))
  /\ Becomes(a, "running", "none")
  /\ UNCHANGED <<workflowVars, apiVars, crashVars>>

(* For an empty message PlanExecution reads the messages first, and returns *)
(* the store's error before it emits anything.                             *)
PlanFails(a) ==
  /\ a \in acts /\ a.kind = "plan" /\ a.at = "queued"
  /\ Becomes(a, "leaving", "error")
  /\ UNCHANGED <<workflowVars, runVars, apiVars, crashVars>>

(* PlanExecution returns a plan. *)
Plan(a) ==
  /\ a \in acts /\ a.kind = "plan" /\ a.at = "running"
  /\ Becomes(a, "leaving", "ok")
  /\ UNCHANGED <<workflowVars, runVars, apiVars, crashVars>>

(* GenerateAssistantReply reports a verdict and returns nil; reports the   *)
(* failure and returns the error; returns an error without an event (the   *)
(* reply could not be posted); or returns nil without one (the model never *)
(* answered).                                                              *)
Execute(a) ==
  /\ a \in acts /\ a.kind = "execute" /\ a.at = "running"
  /\ \/ \E v \in {"completed", "partial"} : Report(a.turn, v) /\ Becomes(a, "leaving", "ok")
     \/ Report(a.turn, "failed") /\ Becomes(a, "leaving", "error")
     \/ \E out \in {"ok", "error"} : Becomes(a, "leaving", out) /\ UNCHANGED runVars
  /\ UNCHANGED <<workflowVars, apiVars, crashVars>>

(* VerifyExecution reads all events of the run and keeps the latest        *)
(* terminal one, whichever turn it is from; or the store fails.            *)
VerifyRead(a) ==
  /\ a \in acts /\ a.kind = "verify" /\ a.at = "running"
  /\ \/ acts' = (acts \ {a}) \union {[a EXCEPT !.at = "read", !.found = verdict]}
     \/ Becomes(a, "leaving", "error")
  /\ UNCHANGED <<workflowVars, runVars, apiVars, crashVars>>

(* Mutant: a run.completed event is not taken for a terminal one. *)
HasTerminalNotCompleted(found) == found \in {"partial", "failed"}

HasTerminal(found) == found # "none"

(* No terminal event: report a partial run.  Then the phase is completed,  *)
(* whatever the verdict.                                                   *)
VerifyWrite(a) ==
  /\ a \in acts /\ a.kind = "verify" /\ a.at = "read"
  /\ IF HasTerminal(a.found) THEN SetPhase("completed") ELSE Report(a.turn, "partial")
  /\ Becomes(a, "leaving", "ok")
  /\ UNCHANGED <<workflowVars, apiVars, crashVars>>

(* Mutant: HandleRunFailure reports nothing. *)
HandleRunFailureSilent(a) ==
  /\ a \in acts /\ a.kind = "failure" /\ a.at = "running"
  /\ Becomes(a, "leaving", "ok")
  /\ UNCHANGED <<workflowVars, runVars, apiVars, crashVars>>

HandleRunFailure(a) ==
  /\ a \in acts /\ a.kind = "failure" /\ a.at = "running"
  /\ Report(a.turn, "failed")
  /\ Becomes(a, "leaving", "ok")
  /\ UNCHANGED <<workflowVars, apiVars, crashVars>>

(* The activity returns; nobody listens to one whose future is settled. *)
Return(a) ==
  /\ a \in acts /\ a.at = "leaving"
  /\ acts' = acts \ {a}
  /\ future' = IF a \in Awaited /\ future = "pending" THEN a.out ELSE future
  /\ UNCHANGED <<workflow, cancelled, inbox, step, received, 
                 runVars, apiVars, crashVars>>

(* The worker process dies with the tasks it has; queued ones wait. *)
WorkerCrash ==
  /\ crashes < MaxCrashes
  /\ crashes' = crashes + 1
  /\ acts' = {a \in acts : a.at = "queued"}
  /\ lost' = lost \union {a.turn : a \in {b \in acts : b.kind = "failure" /\ b.at = "running"}}
  /\ UNCHANGED <<workflowVars, runVars, apiVars>>

-----------------------------------------------------------------------------
(* The handlers.                                                           *)

(* addMessage: SignalWorkflow fails if the workflow is not open or the     *)
(* call is lost, and the handler drops the error.                          *)
AddMessage(m) ==
  /\ m \notin posted
  /\ posted' = posted \union {m}
  /\ \/ workflow = "open" /\ inbox' = Append(inbox, m)
     \/ (workflow # "open" \/ CallsFail) /\ UNCHANGED inbox
  /\ UNCHANGED <<workflow, cancelled, step, future, received, acts,
                 runVars, resumeAt, cancelAt, cancels, crashVars>>

(* cancelRun: CancelWorkflow, whose error is dropped, then the event. *)
CancelWorkflow ==
  /\ cancels < MaxCancels /\ cancelAt = "idle"
  /\ cancels' = cancels + 1
  /\ cancelAt' = "signalled"
  /\ \/ workflow = "open" /\ cancelled' = TRUE
     \/ (workflow # "open" \/ CallsFail) /\ UNCHANGED cancelled
  /\ UNCHANGED <<workflow, inbox, step, future, received, acts,
                 runVars, posted, resumeAt, crashVars>>

EmitCancelled ==
  /\ cancelAt = "signalled"
  /\ cancelAt' = "idle"
  /\ status' = "cancelled" /\ phase' = "cancelled"
  /\ UNCHANGED <<workflowVars, acts, verdict, verdicts, posted, resumeAt,
                 cancels, crashVars>>

(* resumeRun: the status check ... *)
ResumeCheck(m) ==
  /\ CanResume /\ m \notin posted
  /\ status # "running"
  /\ posted' = posted \union {m}
  /\ resumeAt' = [resumeAt EXCEPT ![m] = "checked"]
  /\ UNCHANGED <<workflowVars, acts, runVars, cancelAt, cancels, crashVars>>

(* ... SignalWithStart, which starts a new execution only if none is open, *)
(* cancelled or not ...                                                    *)
ResumeSignal(m) ==
  /\ resumeAt[m] = "checked"
  /\ resumeAt' = [resumeAt EXCEPT ![m] = "signalled"]
  /\ workflow' = "open"
  /\ inbox' = Append(inbox, m)
  /\ cancelled' = (cancelled /\ workflow = "open")
  /\ UNCHANGED <<step, future, received, acts, runVars,
                 posted, cancelAt, cancels, crashVars>>

(* ... or the handler gives up with 502 ... *)
ResumeFails(m) ==
  /\ CallsFail /\ resumeAt[m] = "checked"
  /\ resumeAt' = [resumeAt EXCEPT ![m] = "idle"]
  /\ UNCHANGED <<workflowVars, acts, runVars, posted, cancelAt, cancels, crashVars>>

(* ... and the event, after the signal. *)
EmitResumed(m) ==
  /\ resumeAt[m] = "signalled"
  /\ resumeAt' = [resumeAt EXCEPT ![m] = "idle"]
  /\ status' = "running" /\ phase' = "planning"
  /\ UNCHANGED <<workflowVars, acts, verdict, verdicts, posted, cancelAt,
                 cancels, crashVars>>

-----------------------------------------------------------------------------
WorkflowStep ==
  ReceiveMessage \/ Proceed \/ EndTurn \/ FutureCancelled \/ TaskTimesOut

ActivityStep ==
  \E a \in acts : \/ Start(a) \/ PlanFails(a) \/ Plan(a) \/ Execute(a)
                  \/ VerifyRead(a) \/ VerifyWrite(a) \/ HandleRunFailure(a) \/ Return(a)

HandlerStep ==
  EmitCancelled \/ \E m \in Messages : ResumeSignal(m) \/ ResumeFails(m) \/ EmitResumed(m)

Next ==
  \/ WorkflowStep \/ ActivityStep \/ HandlerStep \/ WorkerCrash
  \/ CancelWorkflow
  \/ \E m \in Messages : AddMessage(m) \/ ResumeCheck(m)

Spec == Init /\ [][Next]_vars

(* Temporal keeps running the workflow and dispatching tasks to a worker,  *)
(* activities and handlers run to their end.  No client has to call, and   *)
(* no worker has to crash.                                                 *)
FairSpec == Spec /\ WF_vars(WorkflowStep) /\ WF_vars(ActivityStep) /\ WF_vars(HandlerStep)

-----------------------------------------------------------------------------
(* Properties.                                                             *)

HandlersIdle == cancelAt = "idle" /\ \A m \in Messages : resumeAt[m] = "idle"

(* Nothing of this run is under way or on its way. *)
Quiet == step = "select" /\ inbox = <<>> /\ acts = {} /\ HandlersIdle

(* A run that took a message and says "running" is: a turn is in progress, *)
(* a message waits, or a handler is about to write.  Otherwise resumeRun   *)
(* refuses it ("run is already running") although nothing runs.  The one   *)
(* exception: the worker died inside HandleRunFailure.                     *)
RunningIsAlive ==
  status = "running" /\ Turn > 0 => ~Quiet \/ Turn \in lost

(* Between turns a run that was never cancelled shows a verdict, and a     *)
(* final phase: every way a turn can end has reported one (some turn's,    *)
(* see VerifyExecution).                                                   *)
SettledWhenIdle ==
  workflow = "open" /\ ~cancelled /\ Turn > 0 /\ Turn \notin lost /\ Quiet
    => status \in Verdicts /\ phase \in {"completed", "failed"}

(* At most one activity works on the run: nobody else writes its verdict,  *)
(* its messages or its workspace meanwhile.                                *)
OneActivity == Cardinality(acts) <= 1

(* A completed turn is never called partial too: ExecutePlan, the verifier *)
(* of the same turn and those of later turns agree.  Only "failed" may     *)
(* follow, when the worker died or the verifier could not read the events. *)
OneVerdict ==
  \A r1, r2 \in verdicts :
    r1[1] = r2[1] => r1[2] = r2[2] \/ "failed" \in {r1[2], r2[2]}

(* Once a run shows "cancelled" and its last activity is over, nothing     *)
(* that is still in the workflow's channel starts an activity or changes   *)
(* what it shows.                                                          *)
CancelSticks ==
  [][status = "cancelled" /\ acts = {} => acts' = {} /\ status' = "cancelled"]_vars

(* A message that reached the channel is received and its turn ends, or    *)
(* the workflow closes.                                                    *)
MessagesServed ==
  \A m \in Messages :
    m \in Range(inbox) ~> workflow = "closed" \/ (m \in Range(received) /\ step = "select")
=============================================================================
