--------------------------- MODULE RunProjection ---------------------------
(***************************************************************************)
(* What the control plane keeps of one run beside its event log: the run's *)
(* row, its steps, its processes and its artifacts, each brought up to     *)
(* date by the events as they are stored. There are two stores, Postgres   *)
(* (what runs) and memory (what most tests run against); the model feeds   *)
(* both with the same events.                                              *)
(*                                                                         *)
(* An event takes its number first and is stored later, so events of the   *)
(* worker, of the API and of the tool runner overtake each other; a post   *)
(* of the worker that fails or times out is repeated as a local copy with  *)
(* a number of its own, while the handler of the first may still go on.    *)
(* A handler drops the errors of NextSeq, AppendEvent and the derivations, *)
(* and the worker that of its local append: the database may refuse each   *)
(* (both stores are then spared the event alike).                          *)
(*                                                                         *)
(* A timestamp or an optional payload field is kept as the time of the     *)
(* event it came from, 0 for none; the clock ticks once an event.          *)
(***************************************************************************)
EXTENDS Naturals, Sequences, FiniteSets

CONSTANTS Steps,       \* step ids the worker's events name
          Procs,       \* processes of the tool runner
          Artifacts,   \* artifact ids that payloads carry
          MaxEvents,   \* bound: events made for the run
          MaxInflight, \* bound: events drawn and not yet done with
          MaxCrashes,  \* bound: crashes of the control plane
          MaxFaults    \* bound: calls that the database refuses

ASSUME ProjectionAssumption ==
  /\ MaxEvents \in Nat \ {0} /\ MaxInflight \in Nat
  /\ MaxCrashes \in Nat /\ MaxFaults \in Nat

VARIABLES
  drawn,     \* run_event_sequences.last_seq
  made,      \* events made so far: the clock
  inflight,  \* events with a number whose handler has not finished
  pg, mem,   \* the two stores
  told,      \* per step: what the worker has reported last
  unsaved,   \* history: the steps whose last report the worker could not store
  process,   \* per process: what it is at the tool runner
  deleted,   \* the run has been deleted
  crashes,   \* crashes so far
  faults     \* calls refused so far

stores == <<pg, mem>>
vars == <<drawn, made, inflight, pg, mem, told, unsaved, process, deleted, crashes, faults>>

StepTypes == {"step.planned", "step.started", "step.completed", "step.failed"}
ToolTypes == {"tool.started", "tool.completed", "tool.failed"}
RunTypes == {"run.started", "run.phase.changed", "run.completed", "run.partial",
             "run.failed", "run.cancelled", "run.resumed"}
Types == StepTypes \union ToolTypes \union RunTypes \union {"document.created", "browser.snapshot"}

NoId == "none"

(* The empty string. *)
Blank == "blank"

Ids == Steps \union Procs \union Artifacts \union {NoId}

(* The worker's step ids are fixed names; none is the id of a process or an *)
(* artifact, and a row named after an event's number ("tool-12") is none.   *)
ASSUME IdAssumption ==
  Steps \intersect (Procs \union Artifacts \union {NoId} \union Nat) = {}

(* seq: 0 where NextSeq failed. full: the payload has its optional fields  *)
(* (plan_id, dependencies; the completion_reason of a run event). out: the *)
(* status a process tool's output carries, Blank when it has none. awaited: *)
(* somebody waits for the answer. local: appended by the worker itself, not *)
(* through the API.                                                        *)
Event == [seq : Nat, time : Nat, type : Types, id : Ids, full : BOOLEAN,
          out : {Blank, "running", "exited"}, by : {"worker", "api", "tools"},
          at : {"drawn", "stored"}, awaited : BOOLEAN, local : BOOLEAN]

RowType == [status : {"running", "completed", "partial", "failed", "cancelled"},
            phase : {"planning", "validating", "completed", "failed", "cancelled"},
            reason : {Blank, "reported", "activity_error", "user_cancelled"},
            checkpoint : Nat]
StepRowType == [status : {"pending", "running", "completed", "failed"},
                started : Nat, completed : Nat, error : Nat, detail : Nat,
                seq : Nat]
ProcessRowType == [status : {"running", "exited"}, ended : BOOLEAN,
                   command : {Blank, "own", "process"}]

StoreOK(s) ==
  /\ s.live \in BOOLEAN /\ s.row \in RowType
  /\ s.events \in Seq(Event)
  /\ \A k \in DOMAIN s.steps : k \in Steps \union Nat /\ s.steps[k] \in StepRowType
  /\ DOMAIN s.processes \subseteq Procs
  /\ \A p \in DOMAIN s.processes : s.processes[p] \in ProcessRowType
  /\ \A k \in DOMAIN s.artifacts : k \in Artifacts \union Nat /\ s.artifacts[k] \in Nat

TypeOK ==
  /\ made \in 0..MaxEvents /\ drawn \in 0..made
  /\ inflight \subseteq Event
  /\ StoreOK(pg) /\ StoreOK(mem)
  /\ \A p \in DOMAIN pg.processes : pg.processes[p].command # Blank
  /\ told \in [Steps -> {"none", "pending", "running", "completed", "failed"}]
  /\ process \in [Procs -> {"none", "running", "exited"}]
  /\ unsaved \subseteq Steps
  /\ deleted \in BOOLEAN /\ crashes \in 0..MaxCrashes /\ faults \in 0..MaxFaults

-----------------------------------------------------------------------------
(* The run's row.                                                          *)

(* status and phase an event sets; Blank leaves the column alone. *)
StatusOf(type) ==
  CASE type \in {"run.started", "run.resumed"} -> "running"
    [] type = "run.completed" -> "completed"
    [] type = "run.partial"   -> "partial"
    [] type = "run.failed"    -> "failed"
    [] type = "run.cancelled" -> "cancelled"
    [] OTHER                  -> Blank

PhaseOf(type) ==
  CASE type \in {"run.started", "run.resumed"}     -> "planning"
    [] type = "run.phase.changed"                  -> "validating"
    [] type \in {"run.completed", "run.partial"}   -> "completed"
    [] type = "run.failed"                         -> "failed"
    [] type = "run.cancelled"                      -> "cancelled"
    [] OTHER                                       -> Blank

ReasonOf(e) ==
  CASE e.type = "run.cancelled" -> "user_cancelled"
    [] e.type = "run.failed"    -> IF e.full THEN "reported" ELSE "activity_error"
    [] e.type \in {"run.completed", "run.partial"} -> IF e.full THEN "reported" ELSE Blank
    [] OTHER -> Blank

(* COALESCE(NULLIF(new, ''), old), and the same of a number. *)
Or(new, old) == IF new = Blank THEN old ELSE new
OrNumber(new, old) == IF new = 0 THEN old ELSE new
Larger(i, j) == IF i < j THEN j ELSE i
(* A number is replaced by a smaller one; 0 is none. *)
Earlier(old, new) == IF old = 0 \/ (0 < new /\ new < old) THEN new ELSE old

(* applyRunStateUpdateTx: an event of another type leaves the row alone. *)
PgRow(row, e) ==
  IF e.type \notin RunTypes THEN row
  ELSE [status     |-> Or(StatusOf(e.type), row.status),
        phase      |-> Or(PhaseOf(e.type), row.phase),
        reason     |-> Or(ReasonOf(e), row.reason),
        checkpoint |-> Larger(row.checkpoint, e.seq)]

(* Mutant: run.partial is not among the cases. *)
MemRowNoPartial(row, e) ==
  IF e.type = "run.partial" THEN [row EXCEPT !.checkpoint = Larger(@, e.seq)]
  ELSE [status     |-> Or(StatusOf(e.type), row.status),
        phase      |-> Or(PhaseOf(e.type), row.phase),
        reason     |-> IF e.type = "run.completed" THEN ReasonOf(e)
                       ELSE Or(ReasonOf(e), row.reason),
        checkpoint |-> Larger(row.checkpoint, e.seq)]

(* applyRunStateLocked: every event moves the checkpoint, and run.completed *)
(* or run.partial without a reason erases the earlier one.                  *)
MemRow(row, e) ==
  [status     |-> Or(StatusOf(e.type), row.status),
   phase      |-> Or(PhaseOf(e.type), row.phase),
   reason     |-> IF e.type \in {"run.completed", "run.partial"} THEN ReasonOf(e)
                  ELSE Or(ReasonOf(e), row.reason),
   checkpoint |-> Larger(row.checkpoint, e.seq)]

-----------------------------------------------------------------------------
(* The steps.                                                              *)

IsStep(e) == e.type \in StepTypes \union ToolTypes

(* A tool event's payload has tool_invocation_id, which is none of the keys *)
(* looked for: its step is named after the event's number.                  *)
StepId(e) == IF e.type \in ToolTypes THEN e.seq ELSE e.id

StepStatus(type) ==
  CASE type = "step.planned"                          -> "pending"
    [] type \in {"step.started", "tool.started"}      -> "running"
    [] type \in {"step.completed", "tool.completed"}  -> "completed"
    [] type \in {"step.failed", "tool.failed"}        -> "failed"

BuildRunStep(e) ==
  LET status == StepStatus(e.type) IN
  [status    |-> status,
   started   |-> IF status = "running" THEN e.time ELSE 0,
   completed |-> IF status \in {"completed", "failed"} THEN e.time ELSE 0,
   error     |-> IF status = "failed" THEN e.time ELSE 0,
   detail    |-> IF e.full THEN e.time ELSE 0,
   seq       |-> e.seq]

(* Mutant: a step that has ended keeps its status. *)
PgStepSticky(old, new) ==
  [status    |-> IF old.completed # 0 THEN old.status ELSE new.status,
   started   |-> OrNumber(old.started, new.started),
   completed |-> OrNumber(new.completed, old.completed),
   error     |-> OrNumber(new.error, old.error),
   detail    |-> OrNumber(new.detail, old.detail),
   seq       |-> new.seq]

(* ON CONFLICT (run_id, step_id) DO UPDATE of upsertRunStepTx. *)
PgStep(old, new) ==
  [status    |-> new.status,
   started   |-> OrNumber(old.started, new.started),
   completed |-> OrNumber(new.completed, old.completed),
   error     |-> OrNumber(new.error, old.error),
   detail    |-> OrNumber(new.detail, old.detail),
   seq       |-> new.seq]

(* MergeRunStep, of the memory store: the first optional fields stay, and  *)
(* the smallest number.                                                    *)
MergeRunStep(old, new) ==
  [status    |-> new.status,
   started   |-> OrNumber(old.started, new.started),
   completed |-> OrNumber(new.completed, old.completed),
   error     |-> OrNumber(new.error, old.error),
   detail    |-> OrNumber(old.detail, new.detail),
   seq       |-> Earlier(old.seq, new.seq)]

(* rows with the row of id inserted, or merged into the one that is there. *)
Upsert(rows, id, new, Merge(_, _)) ==
  [k \in DOMAIN rows \union {id} |->
     IF k # id THEN rows[k]
     ELSE IF id \in DOMAIN rows THEN Merge(rows[id], new) ELSE new]

WithStep(steps, e, Merge(_, _)) ==
  IF IsStep(e) THEN Upsert(steps, StepId(e), BuildRunStep(e), Merge) ELSE steps

-----------------------------------------------------------------------------
(* AppendEvent of the two stores.                                          *)

(* Mutant: no foreign key refuses an event of a run that is gone. *)
PgAppendAnyway(s, e) ==
  [s EXCEPT !.events = Append(@, e), !.steps = WithStep(@, e, PgStep),
            !.row = IF s.live THEN PgRow(@, e) ELSE @]

(* One transaction; the foreign key refuses the event of a deleted run, and *)
(* the unique index a second event without a number.                       *)
PgAppend(s, e) ==
  IF ~s.live \/ (\E i \in DOMAIN s.events : s.events[i].seq = e.seq) THEN s
  ELSE [s EXCEPT !.events = Append(@, e),
                 !.steps = WithStep(@, e, PgStep),
                 !.row = PgRow(@, e)]

(* The memory store takes either: of a deleted run only the row is missing. *)
MemAppend(s, e) ==
  [s EXCEPT !.events = Append(@, e),
            !.steps = WithStep(@, e, MergeRunStep),
            !.row = IF s.live THEN MemRow(@, e) ELSE @]

(* live: the runs table has the row. *)
EmptyStore ==
  [live |-> FALSE,
   row |-> [status |-> "running", phase |-> "planning", reason |-> Blank, checkpoint |-> 0],
   events |-> <<>>, steps |-> [k \in {} |-> 0],
   processes |-> [k \in {} |-> 0], artifacts |-> [k \in {} |-> 0]]

(* CreateRun. *)
Created == [EmptyStore EXCEPT !.live = TRUE]

(* The status of GET /runs and of resumeRun's check: the newest event says  *)
(* it, if it is of one of five types. The newest has the highest number in *)
(* Postgres, and is the last to be stored in memory.                       *)
ListedBy(e, row) == IF e.type = "run.resumed" THEN row.status ELSE Or(StatusOf(e.type), row.status)

Newest(events) ==
  CHOOSE i \in DOMAIN events : \A j \in DOMAIN events : events[j].seq <= events[i].seq

PgListed(s) == ListedBy(s.events[Newest(s.events)], s.row)
MemListed(s) == ListedBy(s.events[Len(s.events)], s.row)

-----------------------------------------------------------------------------
(* Processes and artifacts, derived by ingestEvent after AppendEvent.      *)

IsProcessEvent(e) == e.type = "tool.completed" /\ e.id \in Procs

(* Mutant: an output without a status says the process is over. *)
ProcessFromOutputExited(e) ==
  [status  |-> IF e.out = Blank THEN "exited" ELSE e.out,
   ended   |-> e.out = "exited",
   command |-> IF e.out = Blank THEN Blank ELSE "own"]

(* processFromOutput: an output without a status (process.logs) has no      *)
(* command either, and says "running".                                      *)
ProcessFromOutput(e) ==
  [status  |-> Or(e.out, "running"),
   ended   |-> e.out = "exited",
   command |-> IF e.out = Blank THEN Blank ELSE "own"]

(* Mutant: a missing command is stored as it is. *)
NamedRaw(row) == row

(* UpsertRunProcess: Postgres writes "process" for a missing command before *)
(* it inserts or updates; memory keeps the first command.                   *)
Named(row) == [row EXCEPT !.command = Or(@, "process")]
PgProcess(old, new) ==
  [status |-> new.status, ended |-> old.ended \/ new.ended, command |-> new.command]
MemProcess(old, new) ==
  [status |-> new.status, ended |-> old.ended \/ new.ended,
   command |-> Or(old.command, new.command)]

(* A document gets a fresh id; a snapshot's payload has one, and so has an  *)
(* item of the artifacts that a browser tool ends with.                    *)
IsArtifactEvent(e) ==
  \/ e.type \in {"document.created", "browser.snapshot"}
  \/ e.type = "tool.completed" /\ e.id \in Artifacts
ArtifactId(e) == IF e.type = "document.created" THEN e.time ELSE e.id
NewestArtifact(old, new) == new

Derives(e) == ~e.local /\ (IsProcessEvent(e) \/ IsArtifactEvent(e))

PgDerive(s, e) ==
  IF ~s.live THEN s
  ELSE IF IsProcessEvent(e)
  THEN [s EXCEPT !.processes =
          Upsert(@, e.id, Named(ProcessFromOutput(e)), PgProcess)]
  ELSE [s EXCEPT !.artifacts = Upsert(@, ArtifactId(e), e.time, NewestArtifact)]

MemDerive(s, e) ==
  IF IsProcessEvent(e)
  THEN [s EXCEPT !.processes = Upsert(@, e.id, ProcessFromOutput(e), MemProcess)]
  ELSE [s EXCEPT !.artifacts = Upsert(@, ArtifactId(e), e.time, NewestArtifact)]

(* What the API reads back: the steps, of which Postgres takes the error    *)
(* from the merged diagnostics, the processes, and the artifacts.          *)
ListRunSteps(s) ==
  {[id |-> k, status |-> s.steps[k].status, started |-> s.steps[k].started,
    completed |-> s.steps[k].completed, error |-> s.steps[k].error] : k \in DOMAIN s.steps}
ListRunProcesses(s) ==
  {[id |-> p, status |-> s.processes[p].status, ended |-> s.processes[p].ended] :
     p \in DOMAIN s.processes}
ListArtifacts(s) == {[id |-> k, from |-> s.artifacts[k]] : k \in DOMAIN s.artifacts}

-----------------------------------------------------------------------------

NewEvent(type, id, full, out, by) ==
  [seq |-> drawn + 1, time |-> made + 1, type |-> type, id |-> id, full |-> full,
   out |-> out, by |-> by, at |-> "drawn", awaited |-> TRUE, local |-> FALSE]

(* createRun has stored the run and run.started. *)
Init ==
  LET first == [seq |-> 1, time |-> 1, type |-> "run.started", id |-> NoId,
                full |-> FALSE, out |-> Blank, by |-> "api", at |-> "drawn",
                awaited |-> TRUE, local |-> FALSE]
  IN /\ drawn = 1 /\ made = 1 /\ inflight = {}
     /\ pg = PgAppend(Created, first) /\ mem = MemAppend(Created, first)
     /\ told = [s \in Steps |-> "none"] /\ unsaved = {}
     /\ process = [p \in Procs |-> "none"]
     /\ deleted = FALSE /\ crashes = 0 /\ faults = 0

(* The database refuses a call. *)
Refused == faults < MaxFaults /\ faults' = faults + 1

(* The worker posts no event while it waits for the answer to another. The *)
(* tool runner and the API serve requests side by side.                    *)
Free(by) == by = "worker" => \A e \in inflight : e.by = "worker" => ~e.awaited

(* NextSeq for a new event; if it fails the handler goes on with number 0. *)
(* After the deletion it fails and nothing is stored.                      *)
Draw(e) ==
  /\ ~deleted /\ made < MaxEvents /\ Cardinality(inflight) < MaxInflight
  /\ Free(e.by)
  /\ made' = made + 1
  /\ \/ drawn' = drawn + 1 /\ inflight' = inflight \union {e} /\ UNCHANGED faults
     \/ Refused /\ inflight' = inflight \union {[e EXCEPT !.seq = 0]} /\ UNCHANGED drawn
  /\ UNCHANGED <<stores, deleted, crashes>>

(* The worker reports on a step; a later turn plans or starts it again. *)
ReportStep(s, type) ==
  /\ \/ type = "step.planned" /\ told[s] \in {"none", "completed", "failed"}
     \/ type = "step.started" /\ told[s] # "running"
     \/ type \in {"step.completed", "step.failed"} /\ told[s] = "running"
  /\ Draw(NewEvent(type, s, type # "step.failed", Blank, "worker"))
  /\ told' = [told EXCEPT ![s] = StepStatus(type)]
  /\ unsaved' = unsaved \ {s}
  /\ UNCHANGED process

(* The worker reports on the run, with a completion_reason or without. *)
ReportRun(type) ==
  /\ \E full \in BOOLEAN : Draw(NewEvent(type, NoId, full, Blank, "worker"))
  /\ UNCHANGED <<told, unsaved, process>>

(* cancelRun. *)
Cancel ==
  /\ Draw(NewEvent("run.cancelled", NoId, FALSE, Blank, "api"))
  /\ UNCHANGED <<told, unsaved, process>>

(* resumeRun, refused while the listed status is "running". *)
Resume ==
  /\ ~deleted /\ PgListed(pg) # "running"
  /\ Draw(NewEvent("run.resumed", NoId, FALSE, Blank, "api"))
  /\ UNCHANGED <<told, unsaved, process>>

(* process.start: tool.completed once the process runs. *)
StartProcess(p) ==
  /\ process[p] = "none"
  /\ Draw(NewEvent("tool.completed", p, FALSE, "running", "tools"))
  /\ process' = [process EXCEPT ![p] = "running"]
  /\ UNCHANGED <<told, unsaved>>

(* The process ends; nobody is told. *)
ProcessEnds(p) ==
  /\ process[p] = "running" /\ process' = [process EXCEPT ![p] = "exited"]
  /\ UNCHANGED <<drawn, made, inflight, stores, told, unsaved, deleted, crashes, faults>>

(* process.status and process.stop say what the process is; the event of   *)
(* process.logs has its id and a count only.                               *)
AskProcess(p) ==
  /\ process[p] # "none"
  /\ \E out \in {process[p], Blank} : Draw(NewEvent("tool.completed", p, FALSE, out, "tools"))
  /\ UNCHANGED <<told, unsaved, process>>

(* Another tool starts, fails, completes with an artifact in its result or *)
(* without, or leaves a document.                                          *)
OtherTool ==
  /\ \/ \E type \in {"tool.started", "tool.failed", "document.created"} :
          Draw(NewEvent(type, NoId, FALSE, Blank, "tools"))
     \/ \E type \in {"tool.completed", "browser.snapshot"}, a \in Artifacts :
          Draw(NewEvent(type, a, FALSE, Blank, "tools"))
     \/ Draw(NewEvent("tool.completed", NoId, FALSE, Blank, "tools"))
  /\ UNCHANGED <<told, unsaved, process>>

(* The last report of its step, if it is one and its worker still counts   *)
(* on it, is not stored.                                                   *)
Miss(e) == unsaved' = IF e.awaited THEN unsaved \union ({e.id} \intersect Steps) ELSE unsaved

(* AppendEvent: one transaction, or one critical section. Its error, a     *)
(* refused number's too, is dropped, and the handler goes on.              *)
StoreEvent(e) ==
  /\ e \in inflight /\ e.at = "drawn"
  /\ \/ pg' = PgAppend(pg, e) /\ mem' = MemAppend(mem, e) /\ UNCHANGED faults
     \/ Refused /\ UNCHANGED stores
  /\ IF pg' = pg THEN Miss(e) ELSE UNCHANGED unsaved
  /\ inflight' = (inflight \ {e}) \union
       (IF Derives(e) THEN {[e EXCEPT !.at = "stored"]} ELSE {})
  /\ UNCHANGED <<drawn, made, told, process, deleted, crashes>>

(* upsertArtifactsFromEvent, upsertProcessesFromEvent, whose errors are    *)
(* dropped, and the answer.                                                *)
DeriveRows(e) ==
  /\ e \in inflight /\ e.at = "stored"
  /\ \/ pg' = PgDerive(pg, e) /\ mem' = MemDerive(mem, e) /\ UNCHANGED faults
     \/ Refused /\ UNCHANGED stores
  /\ inflight' = inflight \ {e}
  /\ UNCHANGED <<drawn, made, told, unsaved, process, deleted, crashes>>

(* appendLocalEvent: the worker takes another number for the event, to     *)
(* store it beside the others; if there is none it goes on without.        *)
Copy(e) == [e EXCEPT !.seq = drawn + 1, !.time = made + 1, !.at = "drawn",
                     !.awaited = TRUE, !.local = TRUE]

AppendLocal(e, others) ==
  \/ /\ made < MaxEvents /\ drawn' = drawn + 1 /\ made' = made + 1
     /\ inflight' = others \union {Copy(e)}
     /\ UNCHANGED <<unsaved, faults>>
  \/ Refused /\ inflight' = others /\ Miss(e) /\ UNCHANGED <<drawn, made>>

(* The post times out at the worker; its handler goes on. *)
PostTimesOut(e) ==
  /\ e \in inflight /\ e.by = "worker" /\ e.awaited /\ ~e.local /\ ~deleted
  /\ AppendLocal(e, (inflight \ {e}) \union {[e EXCEPT !.awaited = FALSE]})
  /\ UNCHANGED <<stores, told, process, deleted, crashes>>

(* The handler has stored the event, and its answer is lost. *)
AnswerLost(e) ==
  /\ e \in inflight /\ e.by = "worker" /\ e.awaited /\ ~e.local /\ e.at = "drawn"
  /\ ~deleted
  /\ pg' = PgAppend(pg, e) /\ mem' = MemAppend(mem, e)
  /\ AppendLocal(e, inflight \ {e})
  /\ UNCHANGED <<told, process, deleted, crashes>>

(* The control plane crashes: the handlers under way are gone, and the     *)
(* worker, whose post fails, appends its event itself.                     *)
Crash ==
  LET theirs == {e \in inflight : ~e.local}
      waiting == {e \in theirs : e.by = "worker" /\ e.awaited}
  IN /\ crashes < MaxCrashes /\ crashes' = crashes + 1
     /\ theirs # {} /\ ~deleted
     /\ \/ waiting = {} /\ inflight' = inflight \ theirs
           /\ UNCHANGED <<drawn, made, unsaved, faults>>
        \/ \E e \in waiting : AppendLocal(e, inflight \ theirs)
     /\ UNCHANGED <<stores, told, process, deleted>>

(* DeleteRun: the foreign keys cascade; memory deletes its maps' entries. *)
Delete ==
  /\ ~deleted /\ deleted' = TRUE
  /\ pg' = EmptyStore /\ mem' = EmptyStore
  /\ UNCHANGED <<drawn, made, inflight, told, unsaved, process, crashes, faults>>

WorkerNext ==
  \/ \E s \in Steps, type \in StepTypes : ReportStep(s, type)
  \/ \E type \in {"run.phase.changed", "run.completed", "run.partial", "run.failed"} :
       ReportRun(type)
ToolsNext ==
  \/ \E p \in Procs : StartProcess(p) \/ ProcessEnds(p) \/ AskProcess(p)
  \/ OtherTool
HandlerNext ==
  \E e \in inflight : StoreEvent(e) \/ DeriveRows(e) \/ PostTimesOut(e) \/ AnswerLost(e)

Next == WorkerNext \/ ToolsNext \/ Cancel \/ Resume \/ HandlerNext \/ Crash \/ Delete

Spec == Init /\ [][Next]_vars

-----------------------------------------------------------------------------
(* Properties.                                                             *)

(* No two events of the log have one number: only those without may. *)
NoClash(events) == \A i, j \in DOMAIN events : events[i].seq = events[j].seq => i = j

(* The two stores show the same run, as long as Postgres has refused no    *)
(* second event without a number: phase, steps, processes and artifacts as *)
(* the API lists them; the status that GET /runs lists, as long as the     *)
(* event stored last is the one with the highest number; the completion    *)
(* reason as long as every terminal event carried one. (checkpoint_seq,    *)
(* the optional fields, the order of the steps and the process commands    *)
(* differ; README.) What the tests show of these columns on the memory     *)
(* store holds of Postgres.                                                *)
StoresAgree ==
  ~deleted /\ NoClash(mem.events) =>
    /\ pg.row.status = mem.row.status /\ pg.row.phase = mem.row.phase
    /\ Newest(pg.events) = Len(pg.events) => PgListed(pg) = MemListed(mem)
    /\ ListRunSteps(pg) = ListRunSteps(mem)
    /\ ListRunProcesses(pg) = ListRunProcesses(mem)
    /\ ListArtifacts(pg) = ListArtifacts(mem)
    /\ (\A i \in DOMAIN pg.events :
          pg.events[i].type \in {"run.completed", "run.partial"} => pg.events[i].full)
         => pg.row.reason = mem.row.reason

(* Event i was stored before event j, and made after it. *)
Overtaken(events, i, j) == i < j /\ events[i].time > events[j].time

(* A step shows what the worker last reported of it, once none of its      *)
(* events is under way, unless a handler that the worker had given up      *)
(* stored an older event over a newer one, or the last report could not be *)
(* stored, which nobody is told of. In particular a copy stored beside its *)
(* original changes nothing, nor does an earlier report that got lost or   *)
(* went without a number.                                                  *)
StepShowsWorker ==
  ~deleted => \A s \in Steps \ unsaved :
    LET mine == {i \in DOMAIN pg.events : pg.events[i].id = s} IN
    /\ told[s] # "none" /\ \A e \in inflight : e.id # s
    /\ \A i, j \in mine : ~Overtaken(pg.events, i, j)
    => s \in DOMAIN pg.steps /\ pg.steps[s].status = told[s]

(* A process row says "exited", or has an end, only of a process that is   *)
(* over, although the events of its start, status and stop are stored and  *)
(* derived in any order. (A late "running" may stand over the end.)        *)
ExitedIsOver ==
  \A p \in DOMAIN pg.processes :
    pg.processes[p].status = "exited" \/ pg.processes[p].ended => process[p] = "exited"

(* Whatever handlers were under way when the run was deleted: Postgres     *)
(* keeps no row of it.                                                     *)
DeletedStaysGone == deleted => pg = EmptyStore
=============================================================================
