------------------------ MODULE RunProjection_proofs ------------------------
(***************************************************************************)
(* Theorems about RunProjection: what no order of posts, stores, retries,  *)
(* crashes and deletion can bring about, for all steps, processes and      *)
(* bounds.                                                                 *)
(***************************************************************************)
EXTENDS RunProjection, TLAPS

(* The fields of a store, as far as its records are updated one by one.    *)
Fields == {"live", "row", "events", "steps", "processes", "artifacts"}
IsStore(s) == s = [f \in Fields |-> s[f]]

(* The fields of an event, and what its copies keep of it.                 *)
Parts == {"seq", "time", "type", "id", "full", "out", "by", "at", "awaited", "local"}
IsEvent(e) == e = [f \in Parts |-> e[f]]
Same(d, e) == IsEvent(d) /\ d.type = e.type /\ d.id = e.id /\ d.out = e.out

(* What an event becomes when it is left without a number, stored, given   *)
(* up or copied.                                                           *)
Later(d, e) == d \in {e, [e EXCEPT !.seq = 0], Copy(e), [e EXCEPT !.at = "stored"],
                      [e EXCEPT !.awaited = FALSE]}

LEMMA LaterFacts ==
  ASSUME NEW e, IsEvent(e), NEW d, Later(d, e)
  PROVE  Same(d, e)
BY DEF Copy, IsEvent, Parts, Same, Later

LEMMA EmptyFacts ==
  /\ IsStore(EmptyStore) /\ IsStore(Created)
  /\ EmptyStore.live = FALSE
  /\ DOMAIN EmptyStore.processes = {} /\ DOMAIN Created.processes = {}
BY DEF EmptyStore, Created, IsStore, Fields, Blank

(* Storing an event does not touch the processes.                          *)
LEMMA AppendFacts ==
  ASSUME NEW s, IsStore(s), NEW e
  PROVE  /\ IsStore(PgAppend(s, e))
         /\ PgAppend(s, e).processes = s.processes
         /\ ~s.live => PgAppend(s, e) = s
BY DEF PgAppend, IsStore, Fields

(* Deriving an event's rows changes the process it names, if it is one of  *)
(* a process.                                                              *)
LEMMA DeriveFacts ==
  ASSUME NEW s, IsStore(s), NEW e
  PROVE  /\ IsStore(PgDerive(s, e))
         /\ ~s.live => PgDerive(s, e) = s
         /\ \/ PgDerive(s, e).processes = s.processes
            \/ /\ IsProcessEvent(e)
               /\ PgDerive(s, e).processes =
                    Upsert(s.processes, e.id, Named(ProcessFromOutput(e)), PgProcess)
BY DEF PgDerive, IsStore, Fields

-----------------------------------------------------------------------------
(* Types.  The rows an event is applied to keep theirs.                    *)

StepsOK(steps) ==
  \A k \in DOMAIN steps : k \in Steps \union Nat /\ steps[k] \in StepRowType
ProcessesOK(rows) ==
  DOMAIN rows \subseteq Procs /\ \A p \in DOMAIN rows : rows[p] \in ProcessRowType
ArtifactsOK(rows) ==
  \A k \in DOMAIN rows : k \in Artifacts \union Nat /\ rows[k] \in Nat

(* What an event's writer puts into it: a step event names a step, and     *)
(* only it does; what is still to do after the event is stored.            *)
Sent(e) ==
  /\ e.type \in StepTypes <=> e.id \in Steps
  /\ e.type = "browser.snapshot" => e.id \in Artifacts
  /\ e.at = "stored" => Derives(e)

LEMMA RowsTyped ==
  ASSUME NEW row \in RowType, NEW e \in Event
  PROVE  PgRow(row, e) \in RowType /\ MemRow(row, e) \in RowType
<1>1. /\ Or(StatusOf(e.type), row.status) \in
           {"running", "completed", "partial", "failed", "cancelled"}
      /\ Or(PhaseOf(e.type), row.phase) \in
           {"planning", "validating", "completed", "failed", "cancelled"}
  BY DEF Or, StatusOf, PhaseOf, RowType, Blank
<1>2. /\ ReasonOf(e) \in {Blank, "reported", "activity_error", "user_cancelled"}
      /\ Or(ReasonOf(e), row.reason) \in {Blank, "reported", "activity_error", "user_cancelled"}
  BY DEF Or, ReasonOf, RowType
<1>3. Larger(row.checkpoint, e.seq) \in Nat
  BY DEF Larger, RowType, Event
<1> QED
  BY <1>1, <1>2, <1>3 DEF PgRow, MemRow, RowType

LEMMA StepRowsTyped ==
  ASSUME NEW e \in Event, IsStep(e)
  PROVE  /\ BuildRunStep(e) \in StepRowType
         /\ \A old \in StepRowType : /\ PgStep(old, BuildRunStep(e)) \in StepRowType
                                     /\ MergeRunStep(old, BuildRunStep(e)) \in StepRowType
<1>1. StepStatus(e.type) \in {"pending", "running", "completed", "failed"}
  BY DEF IsStep, StepStatus, StepTypes, ToolTypes
<1>2. BuildRunStep(e) \in StepRowType
  BY <1>1 DEF BuildRunStep, StepRowType, Event
<1>3. \A old, new \in StepRowType : /\ PgStep(old, new) \in StepRowType
                                    /\ MergeRunStep(old, new) \in StepRowType
  BY DEF PgStep, MergeRunStep, StepRowType, OrNumber, Earlier
<1> QED
  BY <1>2, <1>3

LEMMA StepsTyped ==
  ASSUME NEW steps, StepsOK(steps), NEW e \in Event, Sent(e)
  PROVE  /\ StepsOK(WithStep(steps, e, PgStep))
         /\ StepsOK(WithStep(steps, e, MergeRunStep))
<1>1. CASE ~IsStep(e)
  BY <1>1 DEF WithStep
<1>2. CASE IsStep(e)
  <2>1. StepId(e) \in Steps \union Nat
    BY <1>2 DEF IsStep, StepId, Sent, Event
  <2>2. BuildRunStep(e) \in StepRowType
    BY <1>2, StepRowsTyped
  <2>3. \A k \in DOMAIN steps :
          /\ PgStep(steps[k], BuildRunStep(e)) \in StepRowType
          /\ MergeRunStep(steps[k], BuildRunStep(e)) \in StepRowType
    BY <1>2, StepRowsTyped DEF StepsOK
  <2> QED
    BY <1>2, <2>1, <2>2, <2>3 DEF WithStep, Upsert, StepsOK
<1> QED
  BY <1>1, <1>2

LEMMA AppendTyped ==
  ASSUME NEW s, IsStore(s), StoreOK(s), NEW e \in Event, Sent(e)
  PROVE  /\ StoreOK(PgAppend(s, e)) /\ IsStore(PgAppend(s, e))
         /\ StoreOK(MemAppend(s, e)) /\ IsStore(MemAppend(s, e))
         /\ MemAppend(s, e).processes = s.processes
<1>1. StepsOK(s.steps)
  BY DEF StoreOK, StepsOK
<1>2. /\ StepsOK(WithStep(s.steps, e, PgStep))
      /\ StepsOK(WithStep(s.steps, e, MergeRunStep))
  BY <1>1, StepsTyped
<1>3. PgRow(s.row, e) \in RowType /\ MemRow(s.row, e) \in RowType
  BY RowsTyped DEF StoreOK
<1>4. Append(s.events, e) \in Seq(Event)
  BY DEF StoreOK
<1>5. /\ StoreOK(MemAppend(s, e)) /\ IsStore(MemAppend(s, e))
      /\ MemAppend(s, e).processes = s.processes
  <2>1. CASE s.live
    BY <1>2, <1>3, <1>4, <2>1 DEF MemAppend, StoreOK, IsStore, Fields, StepsOK
  <2>2. CASE ~s.live
    BY <1>2, <1>4, <2>2 DEF MemAppend, StoreOK, IsStore, Fields, StepsOK
  <2> QED
    BY <2>1, <2>2 DEF StoreOK
<1>6. StoreOK(PgAppend(s, e)) /\ IsStore(PgAppend(s, e))
  <2>1. CASE PgAppend(s, e) = s
    BY <2>1
  <2>2. CASE PgAppend(s, e) = [s EXCEPT !.events = Append(@, e),
                                        !.steps = WithStep(@, e, PgStep),
                                        !.row = PgRow(@, e)]
    BY <1>2, <1>3, <1>4, <2>2 DEF StoreOK, IsStore, Fields, StepsOK
  <2> QED
    BY <2>1, <2>2 DEF PgAppend
<1> QED
  BY <1>5, <1>6

LEMMA ProcessesTyped ==
  ASSUME NEW rows, ProcessesOK(rows), NEW e \in Event, IsProcessEvent(e)
  PROVE  /\ ProcessesOK(Upsert(rows, e.id, Named(ProcessFromOutput(e)), PgProcess))
         /\ ProcessesOK(Upsert(rows, e.id, ProcessFromOutput(e), MemProcess))
         /\ (\A p \in DOMAIN rows : rows[p].command # Blank) =>
              LET new == Upsert(rows, e.id, Named(ProcessFromOutput(e)), PgProcess)
              IN  \A p \in DOMAIN new : new[p].command # Blank
<1> DEFINE one == ProcessFromOutput(e)
<1>1. one \in ProcessRowType
  BY DEF ProcessFromOutput, ProcessRowType, Event, Or, Blank
<1>2. Named(one) \in ProcessRowType /\ Named(one).command # Blank
  BY <1>1 DEF Named, ProcessRowType, Or, Blank
<1>3. \A p \in DOMAIN rows :
        /\ PgProcess(rows[p], Named(one)) \in ProcessRowType
        /\ PgProcess(rows[p], Named(one)).command = Named(one).command
  BY <1>2 DEF PgProcess, ProcessRowType, ProcessesOK
<1>4. \A p \in DOMAIN rows : MemProcess(rows[p], one) \in ProcessRowType
  BY <1>1 DEF MemProcess, ProcessRowType, ProcessesOK, Or
<1>5. e.id \in Procs
  BY DEF IsProcessEvent
<1> HIDE DEF one
<1>6. /\ ProcessesOK(Upsert(rows, e.id, Named(one), PgProcess))
      /\ ProcessesOK(Upsert(rows, e.id, one, MemProcess))
  BY <1>1, <1>2, <1>3, <1>4, <1>5 DEF Upsert, ProcessesOK
<1>7. ASSUME \A p \in DOMAIN rows : rows[p].command # Blank
      PROVE  \A p \in DOMAIN Upsert(rows, e.id, Named(one), PgProcess) :
               Upsert(rows, e.id, Named(one), PgProcess)[p].command # Blank
  BY <1>2, <1>3, <1>7 DEF Upsert
<1> QED
  BY <1>6, <1>7 DEF one

LEMMA DeriveTyped ==
  ASSUME NEW s, IsStore(s), StoreOK(s), NEW e \in Event, Sent(e), e.at = "stored"
  PROVE  /\ StoreOK(PgDerive(s, e)) /\ IsStore(PgDerive(s, e))
         /\ StoreOK(MemDerive(s, e)) /\ IsStore(MemDerive(s, e))
         /\ (\A p \in DOMAIN s.processes : s.processes[p].command # Blank) =>
              \A p \in DOMAIN PgDerive(s, e).processes :
                PgDerive(s, e).processes[p].command # Blank
<1>1. ProcessesOK(s.processes) /\ ArtifactsOK(s.artifacts)
  BY DEF StoreOK, ProcessesOK, ArtifactsOK
<1>2. CASE IsProcessEvent(e)
  <2> DEFINE a == Upsert(s.processes, e.id, Named(ProcessFromOutput(e)), PgProcess)
             b == Upsert(s.processes, e.id, ProcessFromOutput(e), MemProcess)
  <2>1. /\ ProcessesOK(a) /\ ProcessesOK(b)
        /\ (\A p \in DOMAIN s.processes : s.processes[p].command # Blank) =>
             \A p \in DOMAIN a : a[p].command # Blank
    BY <1>1, <1>2, ProcessesTyped
  <2>2. /\ PgDerive(s, e) = IF s.live THEN [s EXCEPT !.processes = a] ELSE s
        /\ MemDerive(s, e) = [s EXCEPT !.processes = b]
    BY <1>2 DEF PgDerive, MemDerive, IsStore, Fields
  <2> HIDE DEF a, b
  <2> QED
    BY <2>1, <2>2 DEF StoreOK, IsStore, Fields, ProcessesOK
<1>3. CASE ~IsProcessEvent(e)
  <2> DEFINE a == Upsert(s.artifacts, ArtifactId(e), e.time, NewestArtifact)
  <2>1. ArtifactId(e) \in Artifacts \union Nat /\ e.time \in Nat
    BY <1>3 DEF Sent, Derives, IsArtifactEvent, ArtifactId, Event
  <2>2. ArtifactsOK(a)
    BY <1>1, <2>1 DEF Upsert, NewestArtifact, ArtifactsOK
  <2>3. /\ PgDerive(s, e) = IF s.live THEN [s EXCEPT !.artifacts = a] ELSE s
        /\ MemDerive(s, e) = [s EXCEPT !.artifacts = a]
    BY <1>3 DEF PgDerive, MemDerive, IsStore, Fields
  <2> HIDE DEF a
  <2> QED
    BY <2>2, <2>3 DEF StoreOK, IsStore, Fields, ArtifactsOK
<1> QED
  BY <1>2, <1>3

-----------------------------------------------------------------------------
(* The shapes of a step: an event is drawn, with what the worker then has  *)
(* told; a process ends; a handler goes on; a crash; the deletion.         *)

Drawing(e) ==
  /\ e \in Event /\ Sent(e)
  /\ e.time = made + 1 /\ e.awaited = TRUE /\ e.at = "drawn" /\ Free(e.by)
  /\ made' = made + 1 /\ made' \in 0..MaxEvents /\ drawn' \in 0..made'
  /\ inflight' = inflight \union {e}
  /\ UNCHANGED <<stores, deleted, crashes>> /\ faults' \in 0..MaxFaults
  /\ \/ e.id \notin Steps /\ UNCHANGED <<told, unsaved>>
     \/ /\ e.id \in Steps /\ e.by = "worker"
        /\ told' = [told EXCEPT ![e.id] = StepStatus(e.type)]
        /\ unsaved' = unsaved \ {e.id}
  /\ process' \in [Procs -> {"none", "running", "exited"}]

Quiet ==
  /\ UNCHANGED <<drawn, made, inflight, stores, told, unsaved, deleted, crashes, faults>>
  /\ process' \in [Procs -> {"none", "running", "exited"}]

LEMMA UnnumberedFacts ==
  ASSUME NEW e \in Event
  PROVE  LET d == [e EXCEPT !.seq = 0] IN
         /\ d \in Event /\ d.time = e.time /\ d.type = e.type /\ d.id = e.id
         /\ d.by = e.by /\ d.at = e.at /\ d.awaited = e.awaited
BY DEF Event

(* The event of a new call goes on with its number or without.             *)
LEMMA DrawingFacts ==
  ASSUME TypeOK, NEW type \in Types, NEW id \in Ids, NEW full \in BOOLEAN,
         NEW out \in {Blank, "running", "exited"}, NEW by \in {"worker", "api", "tools"},
         type \in StepTypes <=> id \in Steps,
         type = "browser.snapshot" => id \in Artifacts,
         Draw(NewEvent(type, id, full, out, by)),
         \/ id \notin Steps /\ UNCHANGED <<told, unsaved>>
         \/ /\ id \in Steps /\ by = "worker"
            /\ told' = [told EXCEPT ![id] = StepStatus(type)] /\ unsaved' = unsaved \ {id},
         process' \in [Procs -> {"none", "running", "exited"}]
  PROVE  \E e : Drawing(e)
<1> DEFINE new == NewEvent(type, id, full, out, by)
           bare == [new EXCEPT !.seq = 0]
<1>0. /\ made \in Nat /\ drawn \in Nat /\ drawn <= made /\ MaxEvents \in Nat
      /\ MaxFaults \in Nat /\ faults \in 0..MaxFaults
  BY ProjectionAssumption DEF TypeOK
<1>1. /\ new.time = made + 1 /\ new.awaited = TRUE /\ new.at = "drawn"
      /\ new.by = by /\ new.type = type /\ new.id = id /\ new \in Event
  BY <1>0 DEF NewEvent, Event
<1> HIDE DEF new
<1>2. /\ bare.time = made + 1 /\ bare.awaited = TRUE /\ bare.at = "drawn"
      /\ bare.by = by /\ bare.type = type /\ bare.id = id /\ bare \in Event
  BY <1>1, UnnumberedFacts
<1>3. /\ Free(new.by) /\ made' = made + 1 /\ made < MaxEvents
      /\ UNCHANGED <<stores, deleted, crashes>>
      /\ \/ drawn' = drawn + 1 /\ inflight' = inflight \union {new} /\ faults' = faults
         \/ /\ drawn' = drawn /\ inflight' = inflight \union {bare}
            /\ faults < MaxFaults /\ faults' = faults + 1
  BY DEF Draw, Refused, new
<1> HIDE DEF bare
<1>4. made' \in 0..MaxEvents /\ drawn' \in 0..made' /\ faults' \in 0..MaxFaults
  BY <1>0, <1>3
<1>5. Sent(new) /\ Sent(bare)
  BY <1>1, <1>2 DEF Sent
<1>6. Drawing(new) \/ Drawing(bare)
  BY <1>1, <1>2, <1>3, <1>4, <1>5 DEF Drawing
<1> QED
  BY <1>6

LEMMA Shapes ==
  ASSUME TypeOK, [Next]_vars
  PROVE  \/ \E e : Drawing(e)
         \/ Quiet
         \/ \E e \in inflight :
              StoreEvent(e) \/ DeriveRows(e) \/ PostTimesOut(e) \/ AnswerLost(e)
         \/ Crash \/ Delete
<1>0. process \in [Procs -> {"none", "running", "exited"}]
  BY DEF TypeOK
<1>i. /\ \A s \in Steps : s \in Ids /\ s # NoId
      /\ \A p \in Procs : p \in Ids /\ p \notin Steps
      /\ \A a \in Artifacts : a \in Ids /\ a \notin Steps
      /\ NoId \in Ids /\ NoId \notin Steps
  BY IdAssumption DEF Ids
<1>1. ASSUME NEW s \in Steps, NEW type \in StepTypes, ReportStep(s, type)
      PROVE  \E e : Drawing(e)
  <2>0. PICK full \in BOOLEAN : full = (type # "step.failed")
    OBVIOUS
  <2>1. type \in Types /\ type # "browser.snapshot"
    BY DEF Types, StepTypes
  <2>2. /\ Draw(NewEvent(type, s, full, Blank, "worker")) /\ process' = process
        /\ told' = [told EXCEPT ![s] = StepStatus(type)] /\ unsaved' = unsaved \ {s}
    BY <1>1, <2>0 DEF ReportStep
  <2> QED
    BY <1>0, <1>i, <2>1, <2>2, DrawingFacts
<1>2. ASSUME NEW type, ReportRun(type),
             type \in {"run.phase.changed", "run.completed", "run.partial", "run.failed"}
      PROVE  \E e : Drawing(e)
  <2>1. PICK full \in BOOLEAN : Draw(NewEvent(type, NoId, full, Blank, "worker"))
    BY <1>2 DEF ReportRun
  <2>2. type \in Types /\ type \notin StepTypes /\ type # "browser.snapshot"
    BY <1>2 DEF Types, StepTypes, RunTypes
  <2>3. UNCHANGED <<told, unsaved, process>>
    BY <1>2 DEF ReportRun
  <2> QED
    BY <1>0, <1>i, <2>1, <2>2, <2>3, DrawingFacts
<1>3. ASSUME NEW type, NEW id, NEW full \in BOOLEAN, NEW out, NEW by,
             Draw(NewEvent(type, id, full, out, by)),
             type \in {"run.cancelled", "run.resumed"} \union ToolTypes
                        \union {"document.created", "browser.snapshot"},
             id \in Ids \ Steps, type = "browser.snapshot" => id \in Artifacts,
             out \in {Blank, "running", "exited"}, by \in {"api", "tools"},
             UNCHANGED <<told, unsaved>>,
             process' \in [Procs -> {"none", "running", "exited"}]
      PROVE  \E e : Drawing(e)
  <2>1. type \in Types /\ type \notin StepTypes
    BY <1>3 DEF Types, StepTypes, RunTypes, ToolTypes
  <2> QED
    BY <1>3, <2>1, DrawingFacts
<1>4. ASSUME Cancel \/ Resume
      PROVE  \E e : Drawing(e)
  <2>1. \E type \in {"run.cancelled", "run.resumed"} :
          Draw(NewEvent(type, NoId, FALSE, Blank, "api"))
    BY <1>4 DEF Cancel, Resume
  <2>2. UNCHANGED <<told, unsaved, process>>
    BY <1>4 DEF Cancel, Resume
  <2> QED
    BY <1>0, <1>i, <1>3, <2>1, <2>2
<1>5. ASSUME NEW p \in Procs, StartProcess(p)
      PROVE  \E e : Drawing(e)
  <2>1. /\ \E full \in BOOLEAN : Draw(NewEvent("tool.completed", p, full, "running", "tools"))
        /\ UNCHANGED <<told, unsaved>>
    BY <1>5, Zenon DEF StartProcess
  <2>2. process' \in [Procs -> {"none", "running", "exited"}]
    BY <1>0, <1>5 DEF StartProcess
  <2> QED
    BY <1>i, <1>3, <2>1, <2>2 DEF ToolTypes
<1>6. ASSUME NEW p \in Procs, ProcessEnds(p)
      PROVE  Quiet
  BY <1>0, <1>6 DEF ProcessEnds, Quiet
<1>7. ASSUME NEW p \in Procs, AskProcess(p)
      PROVE  \E e : Drawing(e)
  <2>1. \E full \in BOOLEAN, out \in {process[p], Blank} :
          Draw(NewEvent("tool.completed", p, full, out, "tools"))
    BY <1>7, Zenon DEF AskProcess
  <2>2. UNCHANGED <<told, unsaved, process>> /\ process[p] \in {"running", "exited"}
    BY <1>0, <1>7 DEF AskProcess
  <2> QED
    BY <1>0, <1>i, <1>3, <2>1, <2>2 DEF ToolTypes
<1>8. ASSUME OtherTool
      PROVE  \E e : Drawing(e)
  <2>0. UNCHANGED <<told, unsaved, process>>
    BY <1>8 DEF OtherTool
  <2>1. ASSUME NEW type \in {"tool.started", "tool.failed", "document.created", "tool.completed"},
               Draw(NewEvent(type, NoId, FALSE, Blank, "tools"))
        PROVE  \E e : Drawing(e)
    BY <1>0, <1>i, <1>3, <2>0, <2>1 DEF ToolTypes
  <2>2. ASSUME NEW type \in {"tool.completed", "browser.snapshot"}, NEW a \in Artifacts,
               Draw(NewEvent(type, a, FALSE, Blank, "tools"))
        PROVE  \E e : Drawing(e)
    BY <1>0, <1>i, <1>3, <2>0, <2>2 DEF ToolTypes
  <2> QED
    BY <1>8, <2>1, <2>2 DEF OtherTool
<1>9. CASE UNCHANGED vars
  BY <1>0, <1>9 DEF vars, stores, Quiet
<1>10. CASE WorkerNext
  BY <1>1, <1>2, <1>10 DEF WorkerNext
<1>11. CASE ToolsNext
  BY <1>5, <1>6, <1>7, <1>8, <1>11 DEF ToolsNext
<1> QED
  BY <1>4, <1>9, <1>10, <1>11 DEF Next, HandlerNext

-----------------------------------------------------------------------------

Typed ==
  /\ TypeOK /\ IsStore(pg) /\ IsStore(mem)
  /\ \A e \in inflight : Sent(e)

LEMMA TypedInit == Init => Typed
<1> SUFFICES ASSUME Init PROVE Typed
  OBVIOUS
<1>1. PICK e : /\ e = [seq |-> 1, time |-> 1, type |-> "run.started", id |-> NoId,
                       full |-> FALSE, out |-> Blank, by |-> "api", at |-> "drawn",
                       awaited |-> TRUE, local |-> FALSE]
               /\ pg = PgAppend(Created, e) /\ mem = MemAppend(Created, e)
  BY DEF Init
<1>2. e \in Event /\ Sent(e)
  BY <1>1, IdAssumption DEF Event, Sent, Types, RunTypes, StepTypes, Ids
<1>3. StoreOK(Created)
  BY DEF Created, EmptyStore, StoreOK, RowType, Blank
<1>4. /\ StoreOK(pg) /\ StoreOK(mem) /\ IsStore(pg) /\ IsStore(mem)
      /\ DOMAIN pg.processes = {}
  BY <1>1, <1>2, <1>3, EmptyFacts, AppendTyped, AppendFacts
<1>5. /\ drawn = 1 /\ made = 1 /\ crashes = 0 /\ faults = 0 /\ deleted = FALSE /\ unsaved = {}
      /\ told \in [Steps -> {"none", "pending", "running", "completed", "failed"}]
      /\ process \in [Procs -> {"none", "running", "exited"}] /\ inflight = {}
  BY DEF Init
<1>6. made \in 0..MaxEvents /\ drawn \in 0..made /\ crashes \in 0..MaxCrashes /\ faults \in 0..MaxFaults
  BY ProjectionAssumption, <1>5 DEF ProjectionAssumption
<1>7. deleted \in BOOLEAN
  BY <1>5
<1> QED
  BY <1>4, <1>5, <1>6, <1>7 DEF Typed, TypeOK

(* The worker's own append: another event under way, or none.              *)
LEMMA LocalTyped ==
  ASSUME TypeOK, NEW e \in inflight, NEW others, others \subseteq Event, Sent(e),
         \A d \in others : Sent(d), AppendLocal(e, others)
  PROVE  /\ made' \in 0..MaxEvents /\ drawn' \in 0..made' /\ faults' \in 0..MaxFaults
         /\ inflight' \subseteq Event /\ \A d \in inflight' : Sent(d)
         /\ unsaved' \subseteq Steps
<1>0. /\ made \in Nat /\ drawn \in Nat /\ drawn <= made /\ MaxEvents \in Nat
      /\ made \in 0..MaxEvents /\ drawn \in 0..made
      /\ MaxFaults \in Nat /\ faults \in 0..MaxFaults /\ e \in Event /\ unsaved \subseteq Steps
  BY ProjectionAssumption DEF TypeOK
<1>n. e \in Event /\ made + 1 \in Nat /\ drawn + 1 \in Nat
  BY <1>0
<1>c. Copy(e) \in Event /\ Copy(e).at = "drawn"
  BY <1>n DEF Copy, Event
<1>1. Copy(e) \in Event /\ Copy(e).at = "drawn" /\ Copy(e).type = e.type /\ Copy(e).id = e.id
  BY <1>n, <1>c DEF Copy, Event
<1>2. Sent(Copy(e))
  BY <1>1 DEF Sent
<1>3. CASE /\ made < MaxEvents /\ drawn' = drawn + 1 /\ made' = made + 1
           /\ inflight' = others \union {Copy(e)} /\ UNCHANGED <<unsaved, faults>>
  BY <1>0, <1>1, <1>2, <1>3
<1>4. CASE Refused /\ inflight' = others /\ Miss(e) /\ UNCHANGED <<drawn, made>>
  BY <1>0, <1>4 DEF Refused, Miss
<1> QED
  BY <1>3, <1>4 DEF AppendLocal

LEMMA TypedStep ==
  ASSUME Typed, [Next]_vars
  PROVE  Typed'
<1>0. /\ TypeOK /\ IsStore(pg) /\ IsStore(mem) /\ \A e \in inflight : Sent(e)
      /\ MaxCrashes \in Nat /\ crashes \in Nat /\ MaxFaults \in Nat /\ faults \in 0..MaxFaults
      /\ inflight \subseteq Event /\ StoreOK(pg) /\ StoreOK(mem)
      /\ \A p \in DOMAIN pg.processes : pg.processes[p].command # Blank
  BY ProjectionAssumption DEF Typed, TypeOK
<1>1. ASSUME NEW e, Drawing(e)
      PROVE  Typed'
  <2>1. /\ inflight' = inflight \union {e} /\ pg' = pg /\ mem' = mem
        /\ deleted' = deleted /\ crashes' = crashes
        /\ made' \in 0..MaxEvents /\ drawn' \in 0..made' /\ faults' \in 0..MaxFaults
    BY <1>0, <1>1 DEF Drawing, stores
  <2>2. /\ told' \in [Steps -> {"none", "pending", "running", "completed", "failed"}]
        /\ unsaved' \subseteq Steps
    BY <1>0, <1>1 DEF Drawing, TypeOK, StepStatus, Sent, StepTypes
  <2> QED
    BY <1>0, <1>1, <2>1, <2>2 DEF Typed, TypeOK, Drawing
<1>2. CASE Quiet
  BY <1>0, <1>2 DEF Quiet, Typed, TypeOK, stores
<1>3. ASSUME NEW e \in inflight, StoreEvent(e)
      PROVE  Typed'
  <2>1. /\ \/ pg' = PgAppend(pg, e) /\ mem' = MemAppend(mem, e)
           \/ pg' = pg /\ mem' = mem
        /\ UNCHANGED <<drawn, made, told, process, deleted, crashes>>
        /\ \A d \in inflight' : \/ d \in inflight
                                \/ d = [e EXCEPT !.at = "stored"] /\ Derives(e)
    BY <1>3 DEF StoreEvent, stores
  <2>2. /\ StoreOK(pg') /\ StoreOK(mem') /\ IsStore(pg') /\ IsStore(mem')
        /\ pg'.processes = pg.processes
    BY <1>0, <2>1, AppendTyped, AppendFacts
  <2>3. [e EXCEPT !.at = "stored"] \in Event
    BY <1>0 DEF Event
  <2>4. Derives(e) => Sent([e EXCEPT !.at = "stored"])
    BY <1>0 DEF Event, Sent, Derives, IsProcessEvent, IsArtifactEvent
  <2>5. faults' \in 0..MaxFaults /\ unsaved' \subseteq Steps
    BY <1>0, <1>3 DEF StoreEvent, Refused, Miss, TypeOK
  <2> QED
    BY <1>0, <2>1, <2>2, <2>3, <2>4, <2>5 DEF Typed, TypeOK
<1>4. ASSUME NEW e \in inflight, DeriveRows(e)
      PROVE  Typed'
  <2>1. /\ \/ pg' = PgDerive(pg, e) /\ mem' = MemDerive(mem, e)
           \/ pg' = pg /\ mem' = mem
        /\ e.at = "stored" /\ inflight' \subseteq inflight
        /\ UNCHANGED <<drawn, made, told, unsaved, process, deleted, crashes>>
    BY <1>4 DEF DeriveRows, stores
  <2>2. /\ StoreOK(pg') /\ StoreOK(mem') /\ IsStore(pg') /\ IsStore(mem')
        /\ \A p \in DOMAIN pg'.processes : pg'.processes[p].command # Blank
    BY <1>0, <2>1, DeriveTyped
  <2>3. faults' \in 0..MaxFaults
    BY <1>0, <1>4 DEF DeriveRows, Refused
  <2> QED
    BY <1>0, <2>1, <2>2, <2>3 DEF Typed, TypeOK
<1>5. ASSUME NEW e \in inflight, PostTimesOut(e)
      PROVE  Typed'
  <2> DEFINE d == [e EXCEPT !.awaited = FALSE]
             others == (inflight \ {e}) \union {d}
  <2>1. /\ pg' = pg /\ mem' = mem /\ AppendLocal(e, others)
        /\ UNCHANGED <<told, process, deleted, crashes>>
    BY <1>5 DEF PostTimesOut, stores
  <2>2. d \in Event /\ Sent(d)
    BY <1>0 DEF Event, Sent, Derives, IsProcessEvent, IsArtifactEvent
  <2> HIDE DEF d
  <2>3. others \subseteq Event /\ \A c \in others : Sent(c)
    BY <1>0, <2>2
  <2> HIDE DEF others
  <2>4. /\ made' \in 0..MaxEvents /\ drawn' \in 0..made' /\ faults' \in 0..MaxFaults
        /\ inflight' \subseteq Event /\ \A c \in inflight' : Sent(c)
        /\ unsaved' \subseteq Steps
    BY <1>0, <2>1, <2>3, LocalTyped
  <2> QED
    BY <1>0, <2>1, <2>4 DEF Typed, TypeOK
<1>6. ASSUME NEW e \in inflight, AnswerLost(e)
      PROVE  Typed'
  <2>1. /\ pg' = PgAppend(pg, e) /\ mem' = MemAppend(mem, e)
        /\ AppendLocal(e, inflight \ {e})
        /\ UNCHANGED <<told, process, deleted, crashes>>
    BY <1>6 DEF AnswerLost
  <2>2. /\ StoreOK(pg') /\ StoreOK(mem') /\ IsStore(pg') /\ IsStore(mem')
        /\ pg'.processes = pg.processes
    BY <1>0, <2>1, AppendTyped, AppendFacts
  <2>3. inflight \ {e} \subseteq Event /\ \A c \in inflight \ {e} : Sent(c)
    BY <1>0
  <2>4. /\ made' \in 0..MaxEvents /\ drawn' \in 0..made' /\ faults' \in 0..MaxFaults
        /\ inflight' \subseteq Event /\ \A c \in inflight' : Sent(c)
        /\ unsaved' \subseteq Steps
    BY <1>0, <2>1, <2>3, LocalTyped
  <2> QED
    BY <1>0, <2>1, <2>2, <2>4 DEF Typed, TypeOK
<1>7. CASE Crash
  <2>1. PICK others : /\ others \subseteq inflight
                      /\ \/ /\ inflight' = others
                            /\ UNCHANGED <<drawn, made, unsaved, faults>>
                         \/ \E e \in inflight : AppendLocal(e, others)
    BY <1>7 DEF Crash
  <2>2. /\ pg' = pg /\ mem' = mem /\ UNCHANGED <<told, process, deleted>>
        /\ crashes' \in 0..MaxCrashes
    BY <1>0, <1>7 DEF Crash, stores, TypeOK
  <2>3. others \subseteq Event /\ \A c \in others : Sent(c)
    BY <1>0, <2>1
  <2>4. /\ made' \in 0..MaxEvents /\ drawn' \in 0..made' /\ faults' \in 0..MaxFaults
        /\ inflight' \subseteq Event /\ \A c \in inflight' : Sent(c)
        /\ unsaved' \subseteq Steps
    BY <1>0, <2>1, <2>3, LocalTyped DEF TypeOK
  <2> QED
    BY <1>0, <2>2, <2>4 DEF Typed, TypeOK
<1>8. CASE Delete
  <2>1. /\ pg' = EmptyStore /\ mem' = EmptyStore /\ deleted'
        /\ UNCHANGED <<drawn, made, inflight, told, unsaved, process, crashes, faults>>
    BY <1>8 DEF Delete
  <2>2. StoreOK(EmptyStore)
    BY DEF EmptyStore, StoreOK, RowType, Blank
  <2>3. deleted' \in BOOLEAN
    BY <1>8 DEF Delete
  <2> QED
    BY <1>0, <2>1, <2>2, <2>3, EmptyFacts DEF Typed, TypeOK
<1> QED
  BY <1>0, <1>1, <1>2, <1>3, <1>4, <1>5, <1>6, <1>7, <1>8, Shapes

LEMMA TypedAlways == Spec => []Typed
BY TypedInit, TypedStep, PTL DEF Spec

(* Rows, events and handlers keep their types in both stores, for any      *)
(* steps, processes, artifacts and bounds: a step event names a step, only *)
(* events with rows to derive are stored and still under way, and no       *)
(* process row in Postgres is without a command.                           *)
THEOREM ProjectionTyped == Spec => []TypeOK
<1>1. Typed => TypeOK
  BY DEF Typed
<1> QED
  BY <1>1, TypedAlways, PTL

-----------------------------------------------------------------------------
(* A process is over once its end was seen.  The event says so from the    *)
(* moment it is drawn, and so does every copy of it.                       *)

Over(p) == process[p] = "exited"

Truthful ==
  \A e \in inflight : IsProcessEvent(e) /\ e.out = "exited" => Over(e.id)

Shown ==
  \A p \in DOMAIN pg.processes :
    pg.processes[p].status = "exited" \/ pg.processes[p].ended => Over(p)

Kept ==
  /\ IsStore(pg) /\ process = [p \in Procs |-> process[p]]
  /\ deleted => pg = EmptyStore
  /\ DOMAIN pg.processes \subseteq Procs
  /\ \A e \in inflight : IsEvent(e)
  /\ Truthful /\ Shown

LEMMA KeptInit == Init => Kept
<1> SUFFICES ASSUME Init PROVE Kept
  OBVIOUS
<1>1. PICK e : pg = PgAppend(Created, e)
  BY DEF Init
<1>2. IsStore(pg) /\ DOMAIN pg.processes = {}
  BY <1>1, EmptyFacts, AppendFacts
<1>3. Shown
  BY <1>2 DEF Shown
<1>4. Truthful /\ process = [p \in Procs |-> process[p]] /\ ~deleted
  BY DEF Init, Truthful
<1> QED
  BY <1>2, <1>3, <1>4 DEF Kept, Init

(* A step that leaves the stores alone and ends no process.                *)
LEMMA Drawn ==
  ASSUME Kept, NEW e, IsEvent(e), Draw(e), process' = [p \in Procs |-> process'[p]],
         \A p \in Procs : Over(p) => Over(p)',
         IsProcessEvent(e) /\ e.out = "exited" => Over(e.id)'
  PROVE  Kept'
<1>1. /\ pg' = pg /\ deleted' = deleted
      /\ \E d : Later(d, e) /\ inflight' = inflight \union {d}
  BY DEF Draw, stores, Later
<1>2. PICK d : Same(d, e) /\ inflight' = inflight \union {d}
  BY <1>1, LaterFacts
<1>4. Truthful'
  BY <1>1, <1>2 DEF Kept, Truthful, IsProcessEvent, Same
<1>3. ASSUME NEW p \in DOMAIN pg.processes, Over(p)
      PROVE  Over(p)'
  BY <1>3 DEF Kept, Shown
<1> QED
  BY <1>1, <1>2, <1>3, <1>4 DEF Kept, Shown, Same

(* Nothing but a truthful event changes a process row.                     *)
LEMMA Derived ==
  ASSUME Kept, NEW e \in inflight
  PROVE  LET s == PgDerive(pg, e) IN
         /\ IsStore(s) /\ DOMAIN s.processes \subseteq Procs
         /\ \A p \in DOMAIN s.processes :
              s.processes[p].status = "exited" \/ s.processes[p].ended => Over(p)
<1> DEFINE new == Named(ProcessFromOutput(e))
           rows == PgDerive(pg, e).processes
<1>1. CASE rows = pg.processes
  BY <1>1, DeriveFacts DEF Kept, Shown
<1>2. CASE IsProcessEvent(e) /\ rows = Upsert(pg.processes, e.id, new, PgProcess)
  <2>1. DOMAIN rows = DOMAIN pg.processes \union {e.id}
    BY <1>2 DEF Upsert
  <2>2. (new.status = "exited" \/ new.ended) => e.out = "exited"
    BY DEF Named, ProcessFromOutput, Or, Blank
  <2>3. (new.status = "exited" \/ new.ended) => Over(e.id)
    BY <1>2, <2>2 DEF Kept, Truthful
  <2>4. ASSUME NEW p \in DOMAIN rows, rows[p].status = "exited" \/ rows[p].ended
        PROVE  Over(p)
    <3>1. CASE p # e.id
      <4>1. p \in DOMAIN pg.processes /\ rows[p] = pg.processes[p]
        BY <1>2, <2>1, <3>1 DEF Upsert
      <4> QED
        BY <2>4, <4>1 DEF Kept, Shown
    <3>2. CASE p = e.id /\ e.id \notin DOMAIN pg.processes
      <4>1. rows[p] = new
        BY <1>2, <2>1, <3>2 DEF Upsert
      <4> QED
        BY <2>3, <2>4, <3>2, <4>1
    <3>3. CASE p = e.id /\ e.id \in DOMAIN pg.processes
      <4>1. rows[p] = PgProcess(pg.processes[p], new)
        BY <1>2, <2>1, <3>3 DEF Upsert
      <4>2. /\ rows[p].status = new.status
            /\ rows[p].ended = (pg.processes[p].ended \/ new.ended)
        BY <4>1 DEF PgProcess
      <4>3. pg.processes[p].ended => Over(p)
        BY <3>3 DEF Kept, Shown
      <4> HIDE DEF rows, new
      <4> QED
        BY <2>3, <2>4, <3>3, <4>2, <4>3, Zenon
    <3> QED
      BY <2>1, <3>1, <3>2, <3>3
  <2> QED
    BY <1>2, <2>1, <2>4, DeriveFacts DEF Kept, IsProcessEvent
<1> QED
  BY <1>1, <1>2, DeriveFacts DEF Kept

LEMMA KeptStep ==
  ASSUME Kept, [Next]_vars
  PROVE  Kept'
<1>0. IsStore(pg) /\ process = [p \in Procs |-> process[p]]
  BY DEF Kept
<1>1. ASSUME NEW s \in Steps, NEW type \in StepTypes, ReportStep(s, type)
      PROVE  Kept'
  <2>0. PICK e : /\ e = NewEvent(type, s, type # "step.failed", Blank, "worker")
                 /\ Draw(e) /\ UNCHANGED process
    BY <1>1 DEF ReportStep
  <2>1. IsEvent(e) /\ Draw(e) /\ e.type = type /\ UNCHANGED process
    BY <2>0 DEF NewEvent, IsEvent, Parts
  <2>2. ~IsProcessEvent(e)
    BY <2>1 DEF IsProcessEvent, StepTypes
  <2> QED
    BY <1>0, <2>1, <2>2, Drawn DEF Over
<1>2. ASSUME NEW type, ReportRun(type), type # "tool.completed"
      PROVE  Kept'
  <2>0. PICK full, e : /\ e = NewEvent(type, NoId, full, Blank, "worker")
                       /\ Draw(e) /\ UNCHANGED process
    BY <1>2 DEF ReportRun
  <2>1. IsEvent(e) /\ Draw(e) /\ e.type = type /\ UNCHANGED process
    BY <2>0 DEF NewEvent, IsEvent, Parts
  <2> QED
    BY <1>0, <1>2, <2>1, Drawn DEF Over, IsProcessEvent
<1>3. ASSUME NEW p \in Procs, StartProcess(p)
      PROVE  Kept'
  <2>0. PICK e : /\ e = NewEvent("tool.completed", p, FALSE, "running", "tools")
                 /\ Draw(e)
    BY <1>3 DEF StartProcess
  <2>1. IsEvent(e) /\ Draw(e) /\ e.out = "running"
    BY <2>0 DEF NewEvent, IsEvent, Parts
  <2>2. process[p] = "none" /\ process' = [process EXCEPT ![p] = "running"]
    BY <1>3 DEF StartProcess
  <2>3. \A q \in Procs : Over(q) => Over(q)'
    BY <1>0, <2>2 DEF Over
  <2>4. process' = [q \in Procs |-> process'[q]]
    BY <1>0, <2>2
  <2> QED
    BY <2>1, <2>3, <2>4, Drawn
<1>4. ASSUME NEW p \in Procs, ProcessEnds(p)
      PROVE  Kept'
  <2>1. UNCHANGED <<inflight, pg, deleted>> /\ process' = [process EXCEPT ![p] = "exited"]
    BY <1>4 DEF ProcessEnds, stores
  <2>2. \A q \in Procs : Over(q) => Over(q)'
    BY <1>0, <2>1 DEF Over
  <2>3. process' = [q \in Procs |-> process'[q]]
    BY <1>0, <2>1
  <2>4. Truthful'
    BY <2>1, <2>2 DEF Kept, Truthful, IsProcessEvent
  <2>5. Shown'
    BY <2>1, <2>2 DEF Kept, Shown
  <2> QED
    BY <2>1, <2>3, <2>4, <2>5 DEF Kept
<1>5. ASSUME NEW p \in Procs, AskProcess(p)
      PROVE  Kept'
  <2>1. PICK out \in {process[p], Blank} : Draw(NewEvent("tool.completed", p, FALSE, out, "tools"))
    BY <1>5 DEF AskProcess
  <2>0. PICK e : e = NewEvent("tool.completed", p, FALSE, out, "tools") /\ Draw(e)
    BY <2>1
  <2>2. IsEvent(e) /\ Draw(e) /\ e.id = p /\ e.out = out
    BY <2>0 DEF NewEvent, IsEvent, Parts
  <2>3. UNCHANGED process
    BY <1>5 DEF AskProcess
  <2>4. e.out = "exited" => Over(e.id)'
    BY <2>1, <2>2, <2>3 DEF Blank, Over
  <2> QED
    BY <1>0, <2>2, <2>3, <2>4, Drawn DEF Over
<1>6. ASSUME OtherTool
      PROVE  Kept'
  <2>1. \E type, id : Draw(NewEvent(type, id, FALSE, Blank, "tools"))
    BY <1>6 DEF OtherTool
  <2>3. PICK type, id, e : e = NewEvent(type, id, FALSE, Blank, "tools") /\ Draw(e)
    BY <2>1
  <2>4. IsEvent(e) /\ Draw(e) /\ e.out = Blank
    BY <2>3 DEF NewEvent, IsEvent, Parts
  <2>2. UNCHANGED process
    BY <1>6 DEF OtherTool
  <2> QED
    BY <1>0, <2>2, <2>4, Drawn DEF Over, Blank
<1>7. ASSUME Cancel \/ Resume
      PROVE  Kept'
  <2>0. PICK type, e : /\ e = NewEvent(type, NoId, FALSE, Blank, "api")
                       /\ Draw(e) /\ UNCHANGED process
    BY <1>7 DEF Cancel, Resume
  <2>1. IsEvent(e) /\ Draw(e) /\ e.out = Blank /\ UNCHANGED process
    BY <2>0 DEF NewEvent, IsEvent, Parts
  <2> QED
    BY <1>0, <2>1, Drawn DEF Over, Blank
<1>8. ASSUME NEW e \in inflight, StoreEvent(e)
      PROVE  Kept'
  <2>1. /\ pg' \in {pg, PgAppend(pg, e)} /\ UNCHANGED <<process, deleted>>
        /\ \A d \in inflight' : d \in inflight \/ d = [e EXCEPT !.at = "stored"]
    BY <1>8 DEF StoreEvent, stores
  <2>4. \A d \in inflight' : \E c \in inflight : Same(d, c)
    <3>1. \A d \in inflight' : \E c \in inflight : Later(d, c)
      BY <2>1 DEF Later
    <3> QED
      BY <3>1, LaterFacts DEF Kept
  <2>2. Truthful'
    <3>1. ASSUME NEW d \in inflight', IsProcessEvent(d), d.out = "exited"
          PROVE  Over(d.id)
      <4>1. \E c \in inflight : Same(d, c)
        BY <2>4
      <4> QED
        BY <3>1, <4>1 DEF Kept, Truthful, IsProcessEvent, Same
    <3> QED
      BY <2>1, <3>1 DEF Truthful, IsProcessEvent, Over
  <2>3. IsStore(pg') /\ pg'.processes = pg.processes /\ (~pg.live => pg' = pg)
    BY <1>0, <2>1, AppendFacts
  <2> QED
    BY <2>1, <2>2, <2>3, <2>4, EmptyFacts DEF Kept, Shown, Over, Same
<1>9. ASSUME NEW e \in inflight, DeriveRows(e)
      PROVE  Kept'
  <2>1. /\ pg' \in {pg, PgDerive(pg, e)} /\ UNCHANGED <<process, deleted>>
        /\ inflight' \subseteq inflight
    BY <1>9 DEF DeriveRows, stores
  <2>2. Truthful'
    BY <2>1 DEF Kept, Truthful, IsProcessEvent, Over
  <2>3. /\ IsStore(pg') /\ DOMAIN pg'.processes \subseteq Procs
        /\ \A p \in DOMAIN pg'.processes :
             pg'.processes[p].status = "exited" \/ pg'.processes[p].ended => Over(p)
    BY <2>1, Derived DEF Kept, Shown
  <2>4. ~pg.live => pg' = pg
    BY <1>0, <2>1, DeriveFacts
  <2> QED
    BY <2>1, <2>2, <2>3, <2>4, EmptyFacts DEF Kept, Shown, Over
<1>10. ASSUME NEW e \in inflight, PostTimesOut(e) \/ AnswerLost(e)
       PROVE  Kept'
  <2>1. /\ pg' \in {pg, PgAppend(pg, e)} /\ UNCHANGED <<process, deleted>>
        /\ \A d \in inflight' : \E c \in inflight : Same(d, c)
    <3>1. CASE PostTimesOut(e)
      <4>1. \A d \in inflight' : \E c \in inflight : Later(d, c)
        BY <3>1 DEF PostTimesOut, AppendLocal, Later
      <4>2. \A d \in inflight' : \E c \in inflight : Same(d, c)
        BY <4>1, LaterFacts DEF Kept
      <4> QED
        BY <3>1, <4>2 DEF PostTimesOut, stores
    <3>2. CASE AnswerLost(e)
      <4>1. \A d \in inflight' : \E c \in inflight : Later(d, c)
        BY <3>2 DEF AnswerLost, AppendLocal, Later
      <4>2. \A d \in inflight' : \E c \in inflight : Same(d, c)
        BY <4>1, LaterFacts DEF Kept
      <4> QED
        BY <3>2, <4>2 DEF AnswerLost
    <3> QED
      BY <1>10, <3>1, <3>2
  <2>2. Truthful'
    BY <2>1 DEF Kept, Truthful, IsProcessEvent, Over, Same
  <2>3. IsStore(pg') /\ pg'.processes = pg.processes /\ (~pg.live => pg' = pg)
    BY <1>0, <2>1, AppendFacts
  <2> QED
    BY <2>1, <2>2, <2>3, EmptyFacts DEF Kept, Shown, Over, Same
<1>11. ASSUME Crash
       PROVE  Kept'
  <2>1. /\ UNCHANGED <<pg, process, deleted>>
        /\ \A d \in inflight' : \E c \in inflight : Same(d, c)
    <3>1. \A d \in inflight' : \E c \in inflight : Later(d, c)
      BY <1>11 DEF Crash, AppendLocal, Later
    <3>2. \A d \in inflight' : \E c \in inflight : Same(d, c)
      BY <3>1, LaterFacts DEF Kept
    <3> QED
      BY <1>11, <3>2 DEF Crash, stores
  <2>2. Truthful'
    BY <2>1 DEF Kept, Truthful, IsProcessEvent, Over, Same
  <2> QED
    BY <2>1, <2>2 DEF Kept, Shown, Over, Same
<1>12. ASSUME Delete
       PROVE  Kept'
  <2>1. pg' = EmptyStore /\ UNCHANGED <<inflight, process>>
    BY <1>12 DEF Delete
  <2>2. Truthful'
    BY <2>1 DEF Kept, Truthful, IsProcessEvent, Over
  <2> QED
    BY <1>0, <2>1, <2>2, EmptyFacts DEF Kept, Shown
<1>13. CASE UNCHANGED vars
  BY <1>13 DEF vars, stores, Kept, Truthful, Shown, Over, IsProcessEvent
<1>14. CASE WorkerNext
  BY <1>1, <1>2, <1>14 DEF WorkerNext
<1>15. CASE ToolsNext
  BY <1>3, <1>4, <1>5, <1>6, <1>15 DEF ToolsNext
<1>16. CASE HandlerNext
  BY <1>8, <1>9, <1>10, <1>16 DEF HandlerNext
<1> QED
  BY <1>7, <1>11, <1>12, <1>13, <1>14, <1>15, <1>16 DEF Next

LEMMA KeptAlways == Spec => []Kept
BY KeptInit, KeptStep, PTL DEF Spec

(* A process row says "exited" only of a process that is over, for any     *)
(* number of events, handlers, lost answers, copies and crashes, in any    *)
(* order of the stores.                                                    *)
THEOREM ExitedRowsAreTrue == Spec => []ExitedIsOver
<1>1. Kept => ExitedIsOver
  BY DEF Kept, Shown, Over, ExitedIsOver
<1> QED
  BY <1>1, KeptAlways, PTL

(* A deleted run leaves no row behind in Postgres, whichever handlers were *)
(* under way.                                                              *)
THEOREM DeletionIsFinal == Spec => []DeletedStaysGone
<1>1. Kept => DeletedStaysGone
  BY DEF Kept, DeletedStaysGone
<1> QED
  BY <1>1, KeptAlways, PTL

-----------------------------------------------------------------------------
(* The two stores show the same run.  They differ in what the API does not *)
(* list (detail, seq, command), so the invariant relates them column by    *)
(* column; the reason is the same while every terminal event carried one.  *)
(* They part when Postgres refuses a second event without a number.        *)

SameSteps(a, b) ==
  /\ DOMAIN a = DOMAIN b
  /\ \A k \in DOMAIN a : /\ a[k].status = b[k].status /\ a[k].started = b[k].started
                         /\ a[k].completed = b[k].completed /\ a[k].error = b[k].error

SameProcesses(a, b) ==
  /\ DOMAIN a = DOMAIN b
  /\ \A p \in DOMAIN a : a[p].status = b[p].status /\ a[p].ended = b[p].ended

Reasoned(events) ==
  \A i \in DOMAIN events : events[i].type \in {"run.completed", "run.partial"} => events[i].full

Coupled(p, m) ==
  /\ p.live = TRUE /\ m.live = TRUE /\ p.events = m.events
  /\ p.row.status = m.row.status /\ p.row.phase = m.row.phase
  /\ Reasoned(p.events) => p.row.reason = m.row.reason
  /\ SameSteps(p.steps, m.steps) /\ SameProcesses(p.processes, m.processes)
  /\ p.artifacts = m.artifacts

LEMMA RowsCoupled ==
  ASSUME NEW a, NEW b, a.status = b.status, a.phase = b.phase, NEW e \in Event
  PROVE  /\ PgRow(a, e).status = MemRow(b, e).status
         /\ PgRow(a, e).phase = MemRow(b, e).phase
         /\ a.reason = b.reason /\ (e.type \in {"run.completed", "run.partial"} => e.full)
              => PgRow(a, e).reason = MemRow(b, e).reason
<1>1. CASE e.type \notin RunTypes
  <2>1. /\ StatusOf(e.type) = Blank /\ PhaseOf(e.type) = Blank /\ ReasonOf(e) = Blank
        /\ e.type \notin {"run.completed", "run.partial"}
    BY <1>1 DEF RunTypes, StatusOf, PhaseOf, ReasonOf
  <2> QED
    BY <1>1, <2>1 DEF PgRow, MemRow, Or
<1>2. CASE e.type \in RunTypes
  <2>1. e.full /\ e.type \in {"run.completed", "run.partial"} =>
          ReasonOf(e) = "reported" /\ ReasonOf(e) # Blank
    BY DEF ReasonOf, Blank
  <2> QED
    BY <1>2, <2>1 DEF PgRow, MemRow, Or
<1> QED
  BY <1>1, <1>2

LEMMA StepsCoupled ==
  ASSUME NEW a, NEW b, SameSteps(a, b), NEW e
  PROVE  SameSteps(WithStep(a, e, PgStep), WithStep(b, e, MergeRunStep))
<1>1. CASE ~IsStep(e)
  BY <1>1 DEF WithStep
<1>2. CASE IsStep(e)
  <2>1. \A old, d, new : old.started = d.started /\ old.completed = d.completed
                            /\ old.error = d.error =>
          LET p == PgStep(old, new)  m == MergeRunStep(d, new)
          IN  /\ p.status = m.status /\ p.started = m.started
              /\ p.completed = m.completed /\ p.error = m.error
    BY DEF PgStep, MergeRunStep
  <2> QED
    BY <1>2, <2>1 DEF WithStep, Upsert, SameSteps
<1> QED
  BY <1>1, <1>2

LEMMA ProcessesCoupled ==
  ASSUME NEW a, NEW b, SameProcesses(a, b), NEW e \in Event
  PROVE  SameProcesses(Upsert(a, e.id, Named(ProcessFromOutput(e)), PgProcess),
                       Upsert(b, e.id, ProcessFromOutput(e), MemProcess))
<1> DEFINE one == ProcessFromOutput(e)
<1>1. Named(one).status = one.status /\ Named(one).ended = one.ended
  BY DEF Named, ProcessFromOutput
<1> HIDE DEF one
<1>2. \A old, d : old.ended = d.ended =>
        LET p == PgProcess(old, Named(one))  m == MemProcess(d, one)
        IN  p.status = m.status /\ p.ended = m.ended
  BY <1>1 DEF PgProcess, MemProcess
<1>3. SameProcesses(Upsert(a, e.id, Named(one), PgProcess), Upsert(b, e.id, one, MemProcess))
  BY <1>1, <1>2 DEF Upsert, SameProcesses
<1> QED
  BY <1>3 DEF one

LEMMA AppendCoupled ==
  ASSUME NEW p, IsStore(p), StoreOK(p), NEW m, IsStore(m), StoreOK(m), Coupled(p, m),
         NEW e \in Event, \A i \in DOMAIN p.events : p.events[i].seq # e.seq
  PROVE  Coupled(PgAppend(p, e), MemAppend(m, e))
<1> DEFINE q == PgAppend(p, e)
           n == MemAppend(m, e)
<1>1. /\ q.live = TRUE /\ n.live = TRUE
      /\ q.events = Append(p.events, e) /\ n.events = Append(m.events, e)
      /\ q.steps = WithStep(p.steps, e, PgStep) /\ n.steps = WithStep(m.steps, e, MergeRunStep)
      /\ q.row = PgRow(p.row, e) /\ n.row = MemRow(m.row, e)
      /\ q.processes = p.processes /\ n.processes = m.processes
      /\ q.artifacts = p.artifacts /\ n.artifacts = m.artifacts
  BY DEF PgAppend, MemAppend, IsStore, Fields, Coupled
<1> HIDE DEF q, n
<1>2. SameSteps(q.steps, n.steps)
  BY <1>1, StepsCoupled DEF Coupled
<1>3. p.events \in Seq(Event)
  BY DEF StoreOK
<1>4. Reasoned(Append(p.events, e)) =>
        Reasoned(p.events) /\ (e.type \in {"run.completed", "run.partial"} => e.full)
  <2>1. \A i \in DOMAIN p.events : i \in DOMAIN Append(p.events, e)
                                    /\ Append(p.events, e)[i] = p.events[i]
    BY <1>3
  <2>2. PICK n1 \in Nat : n1 = Len(p.events) + 1
    BY <1>3
  <2>3. n1 \in DOMAIN Append(p.events, e) /\ Append(p.events, e)[n1] = e
    BY <1>3, <2>2
  <2> QED
    BY <2>1, <2>3, Zenon DEF Reasoned
<1>5. /\ q.row.status = n.row.status /\ q.row.phase = n.row.phase
  <2>1. p.row.status = m.row.status /\ p.row.phase = m.row.phase
    BY DEF Coupled
  <2>2. /\ PgRow(p.row, e).status = MemRow(m.row, e).status
        /\ PgRow(p.row, e).phase = MemRow(m.row, e).phase
    BY <2>1, RowsCoupled, ZenonT(30)
  <2> QED
    BY <1>1, <2>2
<1>7. ASSUME Reasoned(Append(p.events, e))
      PROVE  q.row.reason = n.row.reason
  <2>1. Reasoned(p.events) /\ (e.type \in {"run.completed", "run.partial"} => e.full)
    BY <1>4, <1>7
  <2>2. p.row.reason = m.row.reason /\ p.row.status = m.row.status /\ p.row.phase = m.row.phase
    BY <2>1 DEF Coupled
  <2>3. PgRow(p.row, e).reason = MemRow(m.row, e).reason
    BY <2>1, <2>2, RowsCoupled, Zenon
  <2> QED
    BY <1>1, <2>3
<1>6. Coupled(q, n)
  BY <1>1, <1>2, <1>5, <1>7 DEF Coupled
<1> QED
  BY <1>6 DEF q, n

LEMMA DeriveCoupled ==
  ASSUME NEW p, IsStore(p), NEW m, IsStore(m), Coupled(p, m), NEW e \in Event
  PROVE  Coupled(PgDerive(p, e), MemDerive(m, e))
<1>1. CASE IsProcessEvent(e)
  <2> DEFINE a == Upsert(p.processes, e.id, Named(ProcessFromOutput(e)), PgProcess)
             b == Upsert(m.processes, e.id, ProcessFromOutput(e), MemProcess)
  <2>1. SameProcesses(a, b)
    BY ProcessesCoupled DEF Coupled
  <2>2. /\ PgDerive(p, e) = [p EXCEPT !.processes = a]
        /\ MemDerive(m, e) = [m EXCEPT !.processes = b]
    BY <1>1 DEF PgDerive, MemDerive, Coupled
  <2> HIDE DEF a, b
  <2> QED
    BY <2>1, <2>2 DEF Coupled, IsStore, Fields
<1>2. CASE ~IsProcessEvent(e)
  <2> DEFINE a == Upsert(p.artifacts, ArtifactId(e), e.time, NewestArtifact)
  <2>2. /\ PgDerive(p, e) = [p EXCEPT !.artifacts = a]
        /\ MemDerive(m, e) = [m EXCEPT !.artifacts = a]
    BY <1>2 DEF PgDerive, MemDerive, Coupled
  <2> HIDE DEF a
  <2> QED
    BY <2>2 DEF Coupled, IsStore, Fields
<1> QED
  BY <1>1, <1>2

(* What is stored with a number of its own leaves the others theirs.       *)
LEMMA NoClashAppend ==
  ASSUME NEW s \in Seq(Event), NEW e \in Event, NoClash(Append(s, e))
  PROVE  NoClash(s) /\ \A i \in DOMAIN s : s[i].seq # e.seq
<1>1. \A i \in DOMAIN s : i \in DOMAIN Append(s, e) /\ Append(s, e)[i] = s[i]
  OBVIOUS
<1>2. PICK n \in Nat : n = Len(s) + 1
  OBVIOUS
<1>3. n \in DOMAIN Append(s, e) /\ Append(s, e)[n] = e /\ n \notin DOMAIN s
  BY <1>2
<1> QED
  BY <1>1, <1>3, Zenon DEF NoClash

Lives == ~deleted => pg.live = TRUE /\ mem.live = TRUE
StoresCoupled ==
  Typed /\ Lives /\ (~deleted /\ NoClash(mem.events) => Coupled(pg, mem))

LEMMA CoupledInit == Init => StoresCoupled
<1> SUFFICES ASSUME Init PROVE StoresCoupled
  OBVIOUS
<1>1. PICK e : /\ e = [seq |-> 1, time |-> 1, type |-> "run.started", id |-> NoId,
                       full |-> FALSE, out |-> Blank, by |-> "api", at |-> "drawn",
                       awaited |-> TRUE, local |-> FALSE]
               /\ pg = PgAppend(Created, e) /\ mem = MemAppend(Created, e)
  BY DEF Init
<1>2. e \in Event
  BY <1>1 DEF Event, Types, RunTypes, Ids
<1>3. StoreOK(Created) /\ IsStore(Created)
  BY EmptyFacts DEF Created, EmptyStore, StoreOK, RowType, Blank
<1>4. Coupled(Created, Created)
  BY DEF Coupled, Created, EmptyStore, SameSteps, SameProcesses
<1>5. DOMAIN Created.events = {}
  BY DEF Created, EmptyStore
<1>6. Coupled(pg, mem)
  BY <1>1, <1>2, <1>3, <1>4, <1>5, AppendCoupled
<1> QED
  BY <1>6, TypedInit DEF StoresCoupled, Lives, Coupled

LEMMA CoupledStep ==
  ASSUME StoresCoupled, [Next]_vars
  PROVE  StoresCoupled'
<1> DEFINE Held == Lives /\ (~deleted /\ NoClash(mem.events) => Coupled(pg, mem))
<1>0. /\ Typed /\ TypeOK /\ IsStore(pg) /\ IsStore(mem) /\ StoreOK(pg) /\ StoreOK(mem)
      /\ inflight \subseteq Event /\ Lives
      /\ (~deleted /\ NoClash(mem.events) => Coupled(pg, mem))
  BY DEF StoresCoupled, Typed, TypeOK
<1>t. Typed'
  BY <1>0, TypedStep
<1>1. ASSUME pg' = pg /\ mem' = mem /\ deleted' = deleted
      PROVE  Held'
  BY <1>0, <1>1 DEF Coupled, Lives, NoClash
<1>2. ASSUME NEW e \in inflight,
             pg' = PgAppend(pg, e) /\ mem' = MemAppend(mem, e) /\ deleted' = deleted
      PROVE  Held'
  <2>1. CASE deleted
    BY <1>2, <2>1 DEF Lives
  <2>2. CASE ~deleted
    <3>1. pg.live = TRUE /\ mem.live = TRUE
      BY <1>0, <2>2 DEF Lives
    <3>2. /\ pg'.live = TRUE /\ mem'.live = TRUE /\ mem'.events = Append(mem.events, e)
      BY <1>0, <1>2, <3>1 DEF PgAppend, MemAppend, IsStore, Fields
    <3>3. ASSUME NoClash(mem'.events)
          PROVE  Coupled(PgAppend(pg, e), MemAppend(mem, e))
      <4>1. NoClash(mem.events) /\ \A i \in DOMAIN mem.events : mem.events[i].seq # e.seq
        BY <1>0, <3>2, <3>3, NoClashAppend DEF StoreOK
      <4>2. Coupled(pg, mem) /\ pg.events = mem.events
        BY <1>0, <2>2, <4>1 DEF Coupled
      <4> QED
        BY <1>0, <4>1, <4>2, AppendCoupled
    <3> QED
      BY <1>2, <3>2, <3>3 DEF Lives, Coupled, NoClash
  <2> QED
    BY <2>1, <2>2
<1>3. ASSUME NEW e \in inflight, pg' = PgDerive(pg, e) /\ mem' = MemDerive(mem, e),
             deleted' = deleted
      PROVE  Held'
  <2>1. Coupled(pg, mem) => Coupled(PgDerive(pg, e), MemDerive(mem, e))
    BY <1>0, DeriveCoupled
  <2>2. mem'.events = mem.events /\ pg'.live = pg.live /\ mem'.live = mem.live
    BY <1>0, <1>3 DEF PgDerive, MemDerive, IsStore, Fields
  <2> QED
    BY <1>0, <1>3, <2>1, <2>2 DEF Coupled, Lives, NoClash
<1>4. Held'
  <2>1. ASSUME NEW e, Drawing(e) PROVE pg' = pg /\ mem' = mem /\ deleted' = deleted
    BY <2>1 DEF Drawing, stores
  <2>2. Quiet => pg' = pg /\ mem' = mem /\ deleted' = deleted
    BY DEF Quiet, stores
  <2>3. ASSUME NEW e \in inflight, StoreEvent(e) \/ AnswerLost(e)
        PROVE  /\ deleted' = deleted
               /\ \/ pg' = PgAppend(pg, e) /\ mem' = MemAppend(mem, e)
                  \/ pg' = pg /\ mem' = mem
    BY <2>3 DEF StoreEvent, AnswerLost, stores
  <2>4. ASSUME NEW e \in inflight, PostTimesOut(e)
        PROVE  pg' = pg /\ mem' = mem /\ deleted' = deleted
    BY <2>4 DEF PostTimesOut, stores
  <2>5. Crash => pg' = pg /\ mem' = mem /\ deleted' = deleted
    BY DEF Crash, stores
  <2>6. Delete => Held'
    BY DEF Delete, Lives
  <2>7. ASSUME NEW e \in inflight, DeriveRows(e)
        PROVE  /\ deleted' = deleted
               /\ \/ pg' = PgDerive(pg, e) /\ mem' = MemDerive(mem, e)
                  \/ pg' = pg /\ mem' = mem
    BY <2>7 DEF DeriveRows, stores
  <2> HIDE DEF Held
  <2> QED
    BY <1>0, <1>1, <1>2, <1>3, <2>1, <2>2, <2>3, <2>4, <2>5, <2>6, <2>7, Shapes
<1> QED
  BY <1>t, <1>4 DEF StoresCoupled

(* Whatever order the events of the worker, the API and the tool runner    *)
(* are stored in, given up, repeated, lost in a crash or refused by the    *)
(* database: until it refuses a second event without a number, the rows    *)
(* the API lists from Postgres are those of the memory store the tests run *)
(* on, and so is the run's status while the newest event came last.        *)
THEOREM StoresShowTheSameRun == Spec => []StoresAgree
<1>1. StoresCoupled => StoresAgree
  <2> SUFFICES ASSUME Coupled(pg, mem) PROVE StoresAgree
    BY DEF StoresCoupled, StoresAgree
  <2>1. ListRunSteps(pg) = ListRunSteps(mem)
    BY DEF Coupled, SameSteps, ListRunSteps
  <2>2. ListRunProcesses(pg) = ListRunProcesses(mem)
    BY DEF Coupled, SameProcesses, ListRunProcesses
  <2>3. ListArtifacts(pg) = ListArtifacts(mem)
    BY DEF Coupled, ListArtifacts
  <2>4. ASSUME Newest(pg.events) = Len(pg.events)
        PROVE  PgListed(pg) = MemListed(mem)
    <3>1. pg.events = mem.events /\ pg.row.status = mem.row.status
      BY DEF Coupled
    <3>2. PgListed(pg) = ListedBy(mem.events[Len(mem.events)], pg.row)
      BY <2>4, <3>1 DEF PgListed
    <3>3. \A e : ListedBy(e, pg.row) = ListedBy(e, mem.row)
      BY <3>1 DEF ListedBy
    <3> QED
      BY <3>2, <3>3 DEF MemListed
  <2> QED
    BY <2>1, <2>2, <2>3, <2>4 DEF Coupled, StoresAgree, Reasoned
<1> QED
  BY <1>1, CoupledInit, CoupledStep, PTL DEF Spec

-----------------------------------------------------------------------------
(* A step shows what the worker last reported of it.                       *)

(* Every event was made at some time before now. One that names a step is  *)
(* the worker's and has no rows to derive; the one the worker waits for    *)
(* says what it has reported last.                                         *)
Timed ==
  /\ \A e \in inflight :
       /\ e.time <= made
       /\ e.id \in Steps => /\ e.by = "worker" /\ e.at = "drawn"
                            /\ e.awaited => StepStatus(e.type) = told[e.id]
  /\ \A i \in DOMAIN pg.events :
       /\ pg.events[i].time <= made
       /\ pg.events[i].type \in StepTypes <=> pg.events[i].id \in Steps

(* From time n on, the events of step s say what the worker last said.   *)
SaysTold(s, n) ==
  /\ \A e \in inflight : e.id = s /\ n <= e.time => StepStatus(e.type) = told[s]
  /\ \A i \in DOMAIN pg.events :
       pg.events[i].id = s /\ n <= pg.events[i].time => StepStatus(pg.events[i].type) = told[s]

(* Such a time is that of an event the worker waits for, or of a stored    *)
(* one, unless the last report could not be stored.                        *)
Waiting(s) == \E w \in inflight : w.id = s /\ w.awaited /\ SaysTold(s, w.time)
Stored(s) == \E i \in DOMAIN pg.events : pg.events[i].id = s /\ SaysTold(s, pg.events[i].time)
Reported == ~deleted => \A s \in Steps \ unsaved : told[s] # "none" => Waiting(s) \/ Stored(s)

(* The row of a step follows the event of it that was stored last.         *)
LastOf(events, s, i) ==
  events[i].id = s /\ \A j \in DOMAIN events : i < j => events[j].id # s
RowFollows(st) ==
  \A s \in Steps : (\E i \in DOMAIN st.events : st.events[i].id = s) =>
    \E i \in DOMAIN st.events :
      /\ LastOf(st.events, s, i)
      /\ s \in DOMAIN st.steps /\ st.steps[s].status = StepStatus(st.events[i].type)

(* The worker waits for the answer of one event at most.                   *)
Awaits(e) == e.by = "worker" /\ e.awaited
OneAwaited == \A a, b \in inflight : Awaits(a) /\ Awaits(b) => a = b

Faithful == StoresCoupled /\ Timed /\ OneAwaited /\ Reported /\ RowFollows(pg)

LEMMA AppendedLast ==
  ASSUME NEW s, s \in Seq(Event), NEW e \in Event
  PROVE  /\ \A i \in DOMAIN s : i \in DOMAIN Append(s, e) /\ Append(s, e)[i] = s[i]
         /\ \A i \in DOMAIN Append(s, e) :
              \/ i \in DOMAIN s /\ Append(s, e)[i] = s[i]
              \/ i = Len(s) + 1 /\ Append(s, e)[i] = e
         /\ Len(s) + 1 \in DOMAIN Append(s, e) /\ Append(s, e)[Len(s) + 1] = e
         /\ \A i \in DOMAIN Append(s, e) : i \in Nat /\ i <= Len(s) + 1
OBVIOUS

LEMMA RowFollowsAppend ==
  ASSUME NEW p, IsStore(p), StoreOK(p), RowFollows(p), NEW e \in Event, Sent(e)
  PROVE  RowFollows(PgAppend(p, e))
<1> DEFINE q == PgAppend(p, e)
<1>1. CASE q = p
  BY <1>1
<1>2. CASE q = [p EXCEPT !.events = Append(@, e), !.steps = WithStep(@, e, PgStep),
                         !.row = PgRow(@, e)]
  <2>1. q.events = Append(p.events, e) /\ q.steps = WithStep(p.steps, e, PgStep)
    BY <1>2 DEF IsStore, Fields
  <2> HIDE DEF q
  <2>2. p.events \in Seq(Event)
    BY DEF StoreOK
  <2>3. ASSUME NEW s \in Steps, \E i \in DOMAIN q.events : q.events[i].id = s
        PROVE  \E i \in DOMAIN q.events :
                 /\ LastOf(q.events, s, i)
                 /\ s \in DOMAIN q.steps /\ q.steps[s].status = StepStatus(q.events[i].type)
    <3>1. CASE e.id = s
      <4>1. e.type \in StepTypes /\ IsStep(e) /\ StepId(e) = s
        BY <3>1 DEF Sent, IsStep, StepId, StepTypes, ToolTypes
      <4>2. BuildRunStep(e).status = StepStatus(e.type)
        BY DEF BuildRunStep
      <4>3. \A old : PgStep(old, BuildRunStep(e)).status = StepStatus(e.type)
        BY <4>2 DEF PgStep
      <4>4. s \in DOMAIN q.steps /\ q.steps[s].status = StepStatus(e.type)
        BY <2>1, <4>1, <4>2, <4>3 DEF WithStep, Upsert
      <4>5. PICK k : k = Len(p.events) + 1
        OBVIOUS
      <4>6. k \in DOMAIN q.events /\ q.events[k] = e /\ LastOf(q.events, s, k)
        BY <2>1, <2>2, <3>1, <4>5, AppendedLast DEF LastOf
      <4> QED
        BY <4>4, <4>6
    <3>2. CASE e.id # s
      <4>1. \E i \in DOMAIN p.events : p.events[i].id = s
        BY <2>1, <2>2, <2>3, <3>2, AppendedLast
      <4>2. PICK i \in DOMAIN p.events :
              /\ LastOf(p.events, s, i)
              /\ s \in DOMAIN p.steps /\ p.steps[s].status = StepStatus(p.events[i].type)
        BY <4>1 DEF RowFollows
      <4>3. i \in DOMAIN q.events /\ q.events[i] = p.events[i] /\ LastOf(q.events, s, i)
        BY <2>1, <2>2, <3>2, <4>2, AppendedLast DEF LastOf
      <4>4. IsStep(e) => StepId(e) # s
        BY <3>2, IdAssumption DEF StepId, Event
      <4>5. s \in DOMAIN q.steps /\ q.steps[s] = p.steps[s]
        BY <2>1, <4>2, <4>4 DEF WithStep, Upsert
      <4> QED
        BY <4>2, <4>3, <4>5
    <3> QED
      BY <3>1, <3>2
  <2>4. RowFollows(q)
    BY <2>3 DEF RowFollows
  <2> QED
    BY <2>4 DEF q
<1> QED
  BY <1>1, <1>2 DEF PgAppend

(* What a handler, a copy or a crash makes of the events under way, and    *)
(* that none the worker waits for gets lost.                               *)
Goes(d, c) ==
  \/ d = c
  \/ d.id = c.id /\ d.type = c.type /\ d.time = c.time /\ d.by = c.by /\ d.at = c.at /\ ~d.awaited
  \/ d.id = c.id /\ d.time = c.time /\ d.id \notin Steps
Copied(d, c) == c.awaited /\ d = Copy(c) /\ made' = made + 1

LEMMA CopyFacts ==
  ASSUME NEW c \in Event
  PROVE  /\ Copy(c).id = c.id /\ Copy(c).type = c.type /\ Copy(c).by = c.by
         /\ Copy(c).time = made + 1 /\ Copy(c).at = "drawn" /\ Copy(c).awaited
BY DEF Copy, Event

LEMMA Moved ==
  ASSUME Typed, Timed, Reported, told' = told, deleted' = deleted, made <= made',
         made' \in Nat, unsaved \subseteq unsaved',
         \A d \in inflight' : \E c \in inflight : Goes(d, c) \/ Copied(d, c),
         \A i \in DOMAIN pg'.events :
           \/ i \in DOMAIN pg.events /\ pg'.events[i] = pg.events[i]
           \/ pg'.events[i] \in inflight,
         ~deleted => \A w \in inflight : w.awaited /\ w.id \in Steps =>
           \/ w \in inflight'
           \/ Copy(w) \in inflight' /\ made' = made + 1
           \/ \E i \in DOMAIN pg'.events : pg'.events[i] = w
           \/ w.id \in unsaved',
         ~deleted => \A i \in DOMAIN pg.events :
           i \in DOMAIN pg'.events /\ pg'.events[i] = pg.events[i]
  PROVE  Timed' /\ Reported'
<1>0. /\ made \in Nat /\ inflight \subseteq Event /\ pg.events \in Seq(Event)
      /\ \A e \in inflight : Sent(e)
      /\ \A e \in inflight : e.time \in Nat
      /\ \A i \in DOMAIN pg.events : pg.events[i].time \in Nat
  <2>1. /\ made \in 0..MaxEvents /\ inflight \subseteq Event /\ pg.events \in Seq(Event)
        /\ \A e \in inflight : Sent(e)
    BY DEF Typed, TypeOK, StoreOK
  <2>2. \A e \in Event : e.time \in Nat
    BY DEF Event
  <2>3. \A i \in DOMAIN pg.events : pg.events[i] \in Event
    BY <2>1
  <2> QED
    BY ProjectionAssumption, <2>1, <2>2, <2>3
<1>1. Timed'
  <2>1. ASSUME NEW d \in inflight'
        PROVE  /\ d.time <= made'
               /\ d.id \in Steps => /\ d.by = "worker" /\ d.at = "drawn"
                                    /\ d.awaited => StepStatus(d.type) = told[d.id]
    <3>1. PICK c \in inflight : Goes(d, c) \/ Copied(d, c)
      OBVIOUS
    <3>2. CASE Goes(d, c)
      BY <1>0, <3>2 DEF Goes, Timed
    <3>3. CASE Copied(d, c)
      BY <1>0, <3>3, CopyFacts DEF Copied, Timed
    <3> QED
      BY <3>1, <3>2, <3>3
  <2>2. ASSUME NEW i \in DOMAIN pg'.events
        PROVE  /\ pg'.events[i].time <= made'
               /\ pg'.events[i].type \in StepTypes <=> pg'.events[i].id \in Steps
    <3>1. CASE i \in DOMAIN pg.events /\ pg'.events[i] = pg.events[i]
      BY <1>0, <3>1 DEF Timed
    <3>2. CASE pg'.events[i] \in inflight
      BY <1>0, <3>2 DEF Timed, Sent
    <3> QED
      BY <3>1, <3>2
  <2> QED
    BY <2>1, <2>2 DEF Timed
<1>2. ASSUME ~deleted, NEW s \in Steps, s \notin unsaved', told[s] # "none"
      PROVE  Waiting(s)' \/ Stored(s)'
  <2>1. ASSUME NEW n, SaysTold(s, n)
        PROVE  SaysTold(s, n)'
    <3>1. ASSUME NEW d \in inflight', d.id = s, n <= d.time
          PROVE  StepStatus(d.type) = told[s]
      <4>1. PICK c \in inflight : Goes(d, c) \/ Copied(d, c)
        OBVIOUS
      <4>2. CASE Goes(d, c)
        BY <2>1, <3>1, <4>2 DEF Goes, SaysTold
      <4>3. CASE Copied(d, c)
        BY <1>0, <3>1, <4>3, CopyFacts DEF Copied, Timed
      <4> QED
        BY <4>1, <4>2, <4>3
    <3>2. ASSUME NEW i \in DOMAIN pg'.events, pg'.events[i].id = s, n <= pg'.events[i].time
          PROVE  StepStatus(pg'.events[i].type) = told[s]
      BY <2>1, <3>2 DEF SaysTold
    <3> QED
      BY <3>1, <3>2 DEF SaysTold
  <2>2. CASE Stored(s)
    <3>1. PICK i \in DOMAIN pg.events : pg.events[i].id = s /\ SaysTold(s, pg.events[i].time)
      BY <2>2 DEF Stored
    <3>2. PICK n : n = pg.events[i].time
      OBVIOUS
    <3>3. SaysTold(s, n)'
      BY <2>1, <3>1, <3>2
    <3>4. i \in DOMAIN pg'.events /\ pg'.events[i].id = s /\ pg'.events[i].time = n
      BY <1>2, <3>1, <3>2
    <3> QED
      BY <3>3, <3>4 DEF Stored
  <2>3. CASE Waiting(s)
    <3>1. PICK w \in inflight : w.id = s /\ w.awaited /\ SaysTold(s, w.time)
      BY <2>3 DEF Waiting
    <3>2. SaysTold(s, w.time)'
      BY <2>1, <3>1
    <3>3. CASE w \in inflight'
      BY <3>1, <3>2, <3>3 DEF Waiting
    <3>4. ASSUME NEW i \in DOMAIN pg'.events, pg'.events[i] = w
          PROVE  Stored(s)'
      BY <3>1, <3>2, <3>4 DEF Stored
    <3>5. CASE Copy(w) \in inflight' /\ made' = made + 1
      <4>0. PICK n : n = made + 1
        OBVIOUS
      <4>1. ASSUME NEW d \in inflight', d.id = s, n <= d.time
            PROVE  StepStatus(d.type) = told[s]
        <5>1. PICK c \in inflight : Goes(d, c) \/ Copied(d, c)
          OBVIOUS
        <5>2. CASE Goes(d, c)
          <6>1. d.time = c.time /\ c.time <= made /\ c.time \in Nat
            BY <1>0, <5>2 DEF Goes, Timed
          <6> QED
            BY <1>0, <4>0, <4>1, <6>1
        <5>3. CASE Copied(d, c)
          BY <1>0, <4>1, <5>3, CopyFacts DEF Copied, Timed
        <5> QED
          BY <5>1, <5>2, <5>3
      <4>2. ASSUME NEW i \in DOMAIN pg'.events, n <= pg'.events[i].time
            PROVE  FALSE
        <5>1. pg'.events[i].time \in Nat /\ pg'.events[i].time <= made
          BY <1>0 DEF Timed
        <5> QED
          BY <1>0, <4>0, <4>2, <5>1
      <4>3. SaysTold(s, n)'
        BY <4>1, <4>2 DEF SaysTold
      <4>4. PICK d \in inflight' : d.id = s /\ d.awaited /\ d.time = n
        BY <1>0, <3>1, <3>5, <4>0, CopyFacts
      <4> QED
        BY <4>3, <4>4 DEF Waiting
    <3> QED
      BY <1>2, <3>1, <3>3, <3>4, <3>5
  <2> QED
    BY <1>2, <2>2, <2>3 DEF Reported
<1> QED
  BY <1>1, <1>2 DEF Reported

LEMMA FaithfulInit == Init => Faithful
<1> SUFFICES ASSUME Init PROVE Faithful
  OBVIOUS
<1>1. PICK e : /\ e = [seq |-> 1, time |-> 1, type |-> "run.started", id |-> NoId,
                       full |-> FALSE, out |-> Blank, by |-> "api", at |-> "drawn",
                       awaited |-> TRUE, local |-> FALSE]
               /\ pg = PgAppend(Created, e)
  BY DEF Init
<1>2. /\ e.time = 1 /\ e.type = "run.started" /\ e.id = NoId /\ e.id \notin Steps
      /\ e.type \notin StepTypes
  BY <1>1, IdAssumption DEF StepTypes
<1>3. pg.events = <<e>>
  <2>1. /\ IsStore(Created) /\ Created.live = TRUE /\ Created.events = <<>>
        /\ DOMAIN Created.events = {}
    BY EmptyFacts DEF Created, EmptyStore
  <2>2. pg.events = Append(<<>>, e)
    BY <1>1, <2>1 DEF PgAppend, IsStore, Fields
  <2> QED
    BY <2>2
<1>4. /\ made = 1 /\ inflight = {} /\ \A s \in Steps : told[s] = "none"
  BY DEF Init
<1>5. Timed /\ OneAwaited /\ Reported /\ RowFollows(pg)
  BY <1>2, <1>3, <1>4 DEF Timed, OneAwaited, Reported, RowFollows
<1> QED
  BY <1>5, CoupledInit DEF Faithful

(* Where only x can be awaited beside those that were, and in e's place.   *)
LEMMA InPlace ==
  ASSUME OneAwaited, NEW e \in inflight, NEW x, Awaits(x) => Awaits(e),
         \A d \in inflight' : Awaits(d) => d = x \/ d \in inflight \ {e}
  PROVE  OneAwaited'
<1> SUFFICES ASSUME NEW a \in inflight', NEW b \in inflight', Awaits(a), Awaits(b)
             PROVE  a = b
  BY DEF OneAwaited, Awaits
<1> QED
  BY DEF OneAwaited

LEMMA OneAwaitedStep ==
  ASSUME Typed, OneAwaited, [Next]_vars
  PROVE  OneAwaited'
<1>0. TypeOK /\ inflight \subseteq Event
  BY DEF Typed, TypeOK
<1>1. ASSUME NEW e, Drawing(e)
      PROVE  OneAwaited'
  <2>1. inflight' = inflight \union {e} /\ Free(e.by)
    BY <1>1 DEF Drawing
  <2>2. Awaits(e) => \A d \in inflight : ~Awaits(d)
    BY <2>1 DEF Free, Awaits
  <2> QED
    BY <2>1, <2>2 DEF OneAwaited, Awaits
<1>2. ASSUME inflight' \subseteq inflight
      PROVE  OneAwaited'
  BY <1>2 DEF OneAwaited, Awaits
<1>3. ASSUME NEW e \in inflight, StoreEvent(e)
      PROVE  OneAwaited'
  <2> DEFINE x == [e EXCEPT !.at = "stored"]
  <2>1. Awaits(x) => Awaits(e)
    BY <1>0 DEF Event, Awaits
  <2>2. \A d \in inflight' : d = x \/ d \in inflight \ {e}
    BY <1>3 DEF StoreEvent
  <2> QED
    BY <2>1, <2>2, InPlace
<1>4. ASSUME NEW e \in inflight, NEW others, Awaits(e), AppendLocal(e, others),
             \A d \in others : Awaits(d) => d \in inflight \ {e}
      PROVE  OneAwaited'
  <2>1. \A d \in inflight' : Awaits(d) => d = Copy(e) \/ d \in inflight \ {e}
    BY <1>4 DEF AppendLocal
  <2> QED
    BY <1>4, <2>1, InPlace
<1>5. ASSUME NEW e \in inflight, PostTimesOut(e)
      PROVE  OneAwaited'
  <2> DEFINE x == [e EXCEPT !.awaited = FALSE]
             others == (inflight \ {e}) \union {x}
  <2>1. ~Awaits(x)
    BY <1>0 DEF Event, Awaits
  <2>2. Awaits(e) /\ AppendLocal(e, others)
    BY <1>5 DEF PostTimesOut, Awaits
  <2> HIDE DEF x
  <2>3. \A d \in others : Awaits(d) => d \in inflight \ {e}
    BY <2>1
  <2> HIDE DEF others
  <2> QED
    BY <1>4, <2>2, <2>3
<1>6. ASSUME NEW e \in inflight, AnswerLost(e)
      PROVE  OneAwaited'
  <2>1. Awaits(e) /\ AppendLocal(e, inflight \ {e})
    BY <1>6 DEF AnswerLost, Awaits
  <2> QED
    BY <1>4, <2>1
<1>7. CASE Crash
  <2> DEFINE theirs == {e \in inflight : ~e.local}
             waiting == {e \in theirs : e.by = "worker" /\ e.awaited}
  <2>1. \/ inflight' = inflight \ theirs
        \/ \E e \in waiting : AppendLocal(e, inflight \ theirs)
    BY <1>7 DEF Crash
  <2>2. ASSUME NEW e \in waiting, AppendLocal(e, inflight \ theirs)
        PROVE  OneAwaited'
    <3>1. e \in inflight /\ e \in theirs /\ Awaits(e)
      BY DEF Awaits
    <3> HIDE DEF theirs, waiting
    <3>2. \A d \in inflight \ theirs : d \in inflight \ {e}
      BY <3>1
    <3> QED
      BY <1>4, <2>2, <3>1, <3>2
  <2> QED
    BY <1>2, <2>1, <2>2
<1>8. ASSUME NEW e \in inflight, DeriveRows(e)
      PROVE  OneAwaited'
  BY <1>2, <1>8 DEF DeriveRows
<1>9. CASE Quiet
  BY <1>2, <1>9 DEF Quiet
<1>10. CASE Delete
  BY <1>2, <1>10 DEF Delete
<1> QED
  BY <1>0, <1>1, <1>3, <1>5, <1>6, <1>7, <1>8, <1>9, <1>10, Shapes

LEMMA FaithfulStep ==
  ASSUME Faithful, [Next]_vars
  PROVE  Faithful'
<1>0. /\ StoresCoupled /\ Typed /\ TypeOK /\ IsStore(pg) /\ StoreOK(pg)
      /\ Timed /\ OneAwaited /\ Reported /\ RowFollows(pg)
      /\ made \in Nat /\ inflight \subseteq Event /\ \A e \in inflight : Sent(e)
      /\ pg.events \in Seq(Event)
      /\ told \in [Steps -> {"none", "pending", "running", "completed", "failed"}]
  BY ProjectionAssumption DEF Faithful, StoresCoupled, Typed, TypeOK, StoreOK
<1>1. StoresCoupled' /\ OneAwaited'
  BY <1>0, CoupledStep, OneAwaitedStep
<1>2. ASSUME NEW e, Drawing(e)
      PROVE  Timed' /\ Reported' /\ RowFollows(pg)'
  <2>1. /\ made' = made + 1 /\ inflight' = inflight \union {e} /\ pg' = pg
        /\ deleted' = deleted /\ Free(e.by)
    BY <1>2 DEF Drawing, stores
  <2>2. /\ e \in Event /\ e.time = made + 1 /\ e.awaited /\ e.at = "drawn" /\ Sent(e)
        /\ \/ e.id \notin Steps /\ told' = told /\ unsaved' = unsaved
           \/ /\ e.id \in Steps /\ e.by = "worker"
              /\ told' = [told EXCEPT ![e.id] = StepStatus(e.type)]
              /\ unsaved' = unsaved \ {e.id}
    BY <1>2 DEF Drawing
  <2>3. /\ \A s \in Steps : s # e.id => told'[s] = told[s] /\ (s \in unsaved => s \in unsaved')
        /\ e.id \in Steps => told'[e.id] = StepStatus(e.type)
    BY <1>0, <2>2
  <2>4. /\ \A d \in inflight : d.time \in Nat /\ d.time <= made
        /\ \A i \in DOMAIN pg.events : pg.events[i].time \in Nat /\ pg.events[i].time <= made
    <3>1. \A d \in Event : d.time \in Nat
      BY DEF Event
    <3>2. \A i \in DOMAIN pg.events : pg.events[i] \in Event
      BY <1>0
    <3> QED
      BY <1>0, <3>1, <3>2 DEF Timed
  <2>5. Timed'
    <3>1. ASSUME NEW d \in inflight, d.id \in Steps, d.awaited
          PROVE  StepStatus(d.type) = told'[d.id]
      <4>1. d.by = "worker" /\ StepStatus(d.type) = told[d.id]
        BY <1>0, <3>1 DEF Timed
      <4>2. e.id \notin Steps
        BY <2>1, <2>2, <3>1, <4>1 DEF Free
      <4> QED
        BY <2>3, <3>1, <4>1, <4>2
    <3>2. \A d \in inflight' : d.time <= made'
      BY <1>0, <2>1, <2>2, <2>4
    <3>3. \A d \in inflight' : d.id \in Steps =>
            /\ d.by = "worker" /\ d.at = "drawn"
            /\ d.awaited => StepStatus(d.type) = told'[d.id]
      BY <1>0, <2>1, <2>2, <2>3, <3>1 DEF Timed
    <3>4. \A i \in DOMAIN pg'.events :
            /\ pg'.events[i].time <= made'
            /\ pg'.events[i].type \in StepTypes <=> pg'.events[i].id \in Steps
      BY <1>0, <2>1, <2>4 DEF Timed
    <3> QED
      BY <3>2, <3>3, <3>4 DEF Timed
  <2>6. ASSUME ~deleted, NEW s \in Steps, s \notin unsaved', told'[s] # "none"
        PROVE  Waiting(s)' \/ Stored(s)'
    <3>1. CASE s = e.id
      <4>0. PICK n : n = made + 1
        OBVIOUS
      <4>1. SaysTold(s, n)'
        BY <1>0, <2>1, <2>2, <2>3, <2>4, <3>1, <4>0 DEF SaysTold
      <4>2. PICK d \in inflight' : d.id = s /\ d.awaited /\ d.time = n
        BY <2>1, <2>2, <3>1, <4>0
      <4> QED
        BY <4>1, <4>2 DEF Waiting
    <3>2. CASE s # e.id
      <4>1. told'[s] = told[s] /\ s \notin unsaved
        BY <2>3, <2>6, <3>2
      <4>2. ASSUME NEW n, SaysTold(s, n)
            PROVE  SaysTold(s, n)'
        BY <2>1, <3>2, <4>1, <4>2 DEF SaysTold
      <4>3. CASE Waiting(s)
        <5>1. PICK w \in inflight : w.id = s /\ w.awaited /\ SaysTold(s, w.time)
          BY <4>3 DEF Waiting
        <5> QED
          BY <2>1, <4>2, <5>1 DEF Waiting
      <4>4. CASE Stored(s)
        <5>1. PICK i \in DOMAIN pg.events : pg.events[i].id = s /\ SaysTold(s, pg.events[i].time)
          BY <4>4 DEF Stored
        <5>2. PICK n : n = pg.events[i].time
          OBVIOUS
        <5> QED
          BY <2>1, <4>2, <5>1, <5>2 DEF Stored
      <4> QED
        BY <1>0, <2>6, <4>1, <4>3, <4>4 DEF Reported
    <3> QED
      BY <3>1, <3>2
  <2> QED
    BY <1>0, <2>1, <2>5, <2>6 DEF Reported, RowFollows
<1>3. ASSUME Quiet
      PROVE  Timed' /\ Reported' /\ RowFollows(pg)'
  <2>1. UNCHANGED <<made, inflight, pg, told, unsaved, deleted>>
    BY <1>3 DEF Quiet, stores
  <2>2. Timed'
    BY <1>0, <2>1 DEF Timed
  <2>3. Reported'
    BY <1>0, <2>1 DEF Reported, Waiting, Stored, SaysTold
  <2> QED
    BY <1>0, <2>1, <2>2, <2>3 DEF RowFollows
<1>a. ASSUME NEW e \in inflight, pg' \in {pg, PgAppend(pg, e)}
      PROVE  /\ RowFollows(pg')
             /\ \A i \in DOMAIN pg'.events :
                  \/ i \in DOMAIN pg.events /\ pg'.events[i] = pg.events[i]
                  \/ pg'.events[i] \in inflight
             /\ \A i \in DOMAIN pg.events :
                  i \in DOMAIN pg'.events /\ pg'.events[i] = pg.events[i]
             /\ pg' = pg \/ \E i \in DOMAIN pg'.events : pg'.events[i] = e
  <2>1. CASE pg' = pg
    BY <1>0, <2>1
  <2>2. CASE pg' = PgAppend(pg, e) /\ pg' # pg
    <3>1. RowFollows(pg')
      BY <1>0, <2>2, RowFollowsAppend
    <3>2. pg'.events = Append(pg.events, e)
      BY <1>0, <2>2 DEF PgAppend, IsStore, Fields
    <3> QED
      BY <1>0, <3>1, <3>2, AppendedLast
  <2> QED
    BY <1>a, <2>1, <2>2
<1>l. ASSUME NEW e \in inflight, NEW others, AppendLocal(e, others), e.awaited
      PROVE  /\ made' \in Nat /\ made <= made' /\ unsaved \subseteq unsaved'
             /\ \A d \in inflight' : d \in others \/ Copied(d, e)
             /\ \A d \in others : d \in inflight'
             /\ e.id \in Steps => \/ Copy(e) \in inflight' /\ made' = made + 1
                                 \/ e.id \in unsaved'
  <2>1. CASE /\ made' = made + 1 /\ inflight' = others \union {Copy(e)}
             /\ UNCHANGED unsaved
    BY <1>0, <1>l, <2>1 DEF Copied
  <2>2. CASE inflight' = others /\ Miss(e) /\ made' = made
    BY <1>0, <1>l, <2>2 DEF Miss
  <2> QED
    BY <1>l, <2>1, <2>2 DEF AppendLocal
<1>4. ASSUME NEW e \in inflight, StoreEvent(e)
      PROVE  Timed' /\ Reported' /\ RowFollows(pg)'
  <2>1. /\ pg' \in {pg, PgAppend(pg, e)} /\ UNCHANGED <<made, told, deleted>>
        /\ inflight' = (inflight \ {e}) \union
             (IF Derives(e) THEN {[e EXCEPT !.at = "stored"]} ELSE {})
        /\ IF pg' = pg THEN Miss(e) ELSE UNCHANGED unsaved
    BY <1>4 DEF StoreEvent, stores
  <2>2. Derives(e) => e.id \notin Steps
    BY <1>0 DEF Derives, IsProcessEvent, IsArtifactEvent, Sent, StepTypes
  <2>3. \A d \in inflight' : \E c \in inflight : Goes(d, c)
    <3>1. LET d == [e EXCEPT !.at = "stored"] IN d.id = e.id /\ d.time = e.time
      BY <1>0 DEF Event
    <3> QED
      BY <2>1, <2>2, <3>1 DEF Goes
  <2>4. /\ unsaved \subseteq unsaved'
        /\ pg' = pg /\ e.awaited /\ e.id \in Steps => e.id \in unsaved'
    BY <2>1 DEF Miss
  <2>5. \A w \in inflight : w.awaited /\ w.id \in Steps =>
          \/ w \in inflight' \/ w.id \in unsaved'
          \/ \E i \in DOMAIN pg'.events : pg'.events[i] = w
    BY <1>a, <2>1, <2>4
  <2>6. Timed' /\ Reported'
    BY <1>0, <1>a, <2>1, <2>3, <2>4, <2>5, Moved
  <2> QED
    BY <1>a, <2>1, <2>6 DEF RowFollows
<1>5. ASSUME NEW e \in inflight, DeriveRows(e)
      PROVE  Timed' /\ Reported' /\ RowFollows(pg)'
  <2>1. /\ pg' \in {pg, PgDerive(pg, e)} /\ UNCHANGED <<made, told, unsaved, deleted>>
        /\ inflight' = inflight \ {e} /\ e.at = "stored"
    BY <1>5 DEF DeriveRows, stores
  <2>2. pg'.events = pg.events /\ pg'.steps = pg.steps
    BY <1>0, <2>1 DEF PgDerive, IsStore, Fields
  <2>3. \A w \in inflight : w.id \in Steps => w \in inflight'
    BY <1>0, <2>1 DEF Timed
  <2>4. Timed' /\ Reported'
    BY <1>0, <2>1, <2>2, <2>3, Moved DEF Goes
  <2> QED
    BY <1>0, <2>2, <2>4 DEF RowFollows
<1>6. ASSUME NEW e \in inflight, PostTimesOut(e)
      PROVE  Timed' /\ Reported' /\ RowFollows(pg)'
  <2> DEFINE x == [e EXCEPT !.awaited = FALSE]
             others == (inflight \ {e}) \union {x}
  <2>1. /\ pg' = pg /\ UNCHANGED <<told, deleted>> /\ e.awaited /\ AppendLocal(e, others)
    BY <1>6 DEF PostTimesOut, stores
  <2>2. Goes(x, e)
    BY <1>0 DEF Event, Goes
  <2> HIDE DEF x
  <2>3. /\ \A d \in others : \E c \in inflight : Goes(d, c)
        /\ \A w \in inflight : w = e \/ w \in others
    BY <2>2 DEF Goes
  <2> HIDE DEF others
  <2>4. /\ made' \in Nat /\ made <= made' /\ unsaved \subseteq unsaved'
        /\ \A d \in inflight' : \E c \in inflight : Goes(d, c) \/ Copied(d, c)
        /\ \A w \in inflight : w.awaited /\ w.id \in Steps =>
             \/ w \in inflight' \/ w.id \in unsaved'
             \/ Copy(w) \in inflight' /\ made' = made + 1
    BY <1>l, <2>1, <2>3
  <2>5. Timed' /\ Reported'
    BY <1>0, <2>1, <2>4, Moved
  <2> QED
    BY <1>0, <2>1, <2>5
<1>7. ASSUME NEW e \in inflight, AnswerLost(e)
      PROVE  Timed' /\ Reported' /\ RowFollows(pg)'
  <2>1. /\ pg' = PgAppend(pg, e) /\ UNCHANGED <<told, deleted>> /\ e.awaited
        /\ AppendLocal(e, inflight \ {e})
    BY <1>7 DEF AnswerLost
  <2>4. /\ made' \in Nat /\ made <= made' /\ unsaved \subseteq unsaved'
        /\ \A d \in inflight' : \E c \in inflight : Goes(d, c) \/ Copied(d, c)
        /\ \A w \in inflight : w.awaited /\ w.id \in Steps =>
             \/ w \in inflight' \/ w.id \in unsaved'
             \/ Copy(w) \in inflight' /\ made' = made + 1
    BY <1>l, <2>1 DEF Goes
  <2>5. Timed' /\ Reported'
    BY <1>0, <1>a, <2>1, <2>4, Moved
  <2> QED
    BY <1>a, <2>1, <2>5 DEF RowFollows
<1>8. ASSUME Crash
      PROVE  Timed' /\ Reported' /\ RowFollows(pg)'
  <2> DEFINE theirs == {e \in inflight : ~e.local}
             waiting == {e \in theirs : Awaits(e)}
  <2>1. /\ pg' = pg /\ UNCHANGED <<told, deleted>>
        /\ \/ /\ waiting = {} /\ inflight' = inflight \ theirs
              /\ UNCHANGED <<made, unsaved>>
           \/ \E e \in waiting : AppendLocal(e, inflight \ theirs)
    BY <1>8 DEF Crash, stores, Awaits
  <2>2. \A w \in inflight : w.awaited /\ w.id \in Steps => w \in inflight \ theirs \/ w \in waiting
    BY <1>0 DEF Timed, Awaits
  <2>3. \A e, w \in waiting : e = w
    BY <1>0 DEF OneAwaited
  <2>w. \A e \in waiting : e \in inflight /\ e.awaited
    BY DEF Awaits
  <2> HIDE DEF theirs, waiting
  <2>4. /\ made' \in Nat /\ made <= made' /\ unsaved \subseteq unsaved'
        /\ \A d \in inflight' : \E c \in inflight : Goes(d, c) \/ Copied(d, c)
        /\ \A w \in inflight : w.awaited /\ w.id \in Steps =>
             \/ w \in inflight' \/ w.id \in unsaved'
             \/ Copy(w) \in inflight' /\ made' = made + 1
    <3>1. CASE waiting = {} /\ inflight' = inflight \ theirs /\ UNCHANGED <<made, unsaved>>
      BY <1>0, <2>2, <3>1 DEF Goes
    <3>2. ASSUME NEW e \in waiting, AppendLocal(e, inflight \ theirs)
          PROVE  /\ made' \in Nat /\ made <= made' /\ unsaved \subseteq unsaved'
                 /\ \A d \in inflight' : \E c \in inflight : Goes(d, c) \/ Copied(d, c)
                 /\ \A w \in inflight : w.awaited /\ w.id \in Steps =>
                      \/ w \in inflight' \/ w.id \in unsaved'
                      \/ Copy(w) \in inflight' /\ made' = made + 1
      <4>1. /\ made' \in Nat /\ made <= made' /\ unsaved \subseteq unsaved'
            /\ \A d \in inflight' : d \in inflight \ theirs \/ Copied(d, e)
            /\ \A d \in inflight \ theirs : d \in inflight'
            /\ e.id \in Steps => \/ Copy(e) \in inflight' /\ made' = made + 1
                                \/ e.id \in unsaved'
        BY <1>l, <2>w, <3>2
      <4> QED
        BY <2>2, <2>3, <2>w, <4>1 DEF Goes
    <3> QED
      BY <2>1, <3>1, <3>2
  <2>5. Timed' /\ Reported'
    BY <1>0, <2>1, <2>4, Moved
  <2> QED
    BY <1>0, <2>1, <2>5
<1>9. ASSUME Delete
      PROVE  Timed' /\ Reported' /\ RowFollows(pg)'
  <2>1. /\ pg' = EmptyStore /\ deleted' /\ UNCHANGED <<made, inflight, told>>
    BY <1>9 DEF Delete
  <2>2. EmptyStore.events = <<>>
    BY DEF EmptyStore
  <2> QED
    BY <1>0, <2>1, <2>2 DEF Timed, Reported, RowFollows
<1> QED
  BY <1>0, <1>1, <1>2, <1>3, <1>4, <1>5, <1>6, <1>7, <1>8, <1>9, Shapes DEF Faithful

(* Once none of a step's events is under way, unless a handler that the    *)
(* worker had given up stored an older event over a newer one, and unless  *)
(* the last report could not be stored, the step's row says what the       *)
(* worker reported last: no lost answer, no copy beside its original, no   *)
(* earlier report that the database refused and no crash changes that.     *)
THEOREM StepsShowTheWorker == Spec => []StepShowsWorker
<1>1. Faithful => StepShowsWorker
  <2> SUFFICES ASSUME Faithful, ~deleted, NEW s \in Steps, s \notin unsaved,
                      \A e \in inflight : e.id # s, told[s] # "none",
                      \A i, j \in {k \in DOMAIN pg.events : pg.events[k].id = s} :
                        ~Overtaken(pg.events, i, j)
               PROVE  s \in DOMAIN pg.steps /\ pg.steps[s].status = told[s]
    BY DEF StepShowsWorker
  <2>1. Stored(s)
    BY DEF Faithful, Reported, Waiting
  <2>2. PICK k \in DOMAIN pg.events : pg.events[k].id = s /\ SaysTold(s, pg.events[k].time)
    BY <2>1 DEF Stored
  <2>3. PICK i \in DOMAIN pg.events :
          /\ LastOf(pg.events, s, i)
          /\ s \in DOMAIN pg.steps /\ pg.steps[s].status = StepStatus(pg.events[i].type)
    BY <2>2 DEF Faithful, RowFollows
  <2>4. /\ pg.events \in Seq(Event) /\ pg.events[k].time \in Nat /\ pg.events[i].time \in Nat
    <3>1. pg.events \in Seq(Event)
      BY DEF Faithful, StoresCoupled, Typed, TypeOK, StoreOK
    <3>2. \A e \in Event : e.time \in Nat
      BY DEF Event
    <3> QED
      BY <3>1, <3>2
  <2>5. pg.events[k].time <= pg.events[i].time
    <3>1. ~(i < k)
      BY <2>2, <2>3 DEF LastOf
    <3>2. i = k \/ k < i
      BY <2>4, <3>1
    <3>3. ~Overtaken(pg.events, k, i)
      BY <2>2, <2>3 DEF LastOf
    <3> QED
      BY <2>4, <3>2, <3>3 DEF Overtaken
  <2> QED
    BY <2>2, <2>3, <2>5 DEF SaysTold, LastOf
<1> QED
  BY <1>1, FaithfulInit, FaithfulStep, PTL DEF Spec
=============================================================================
