---------------------------- MODULE Automations ----------------------------
(***************************************************************************)
(* One automation: its row, its inbox, the handlers that edit, run, poll   *)
(* and delete it, and the jobs they start.  queueAutomationExecution and   *)
(* executeAutomationJob hold automationMu; updateAutomation and            *)
(* queueDueAutomations read the row and write all of it back without.     *)
(*                                                                         *)
(* Every call of the store is a step.  The run a job waits for is reduced  *)
(* to what executeAutomationRun answers.                                   *)
(***************************************************************************)
EXTENDS Naturals, FiniteSets

CONSTANTS Jobs,        \* executions, each with its inbox entry
          Outcomes,    \* what the run a job waits for may answer
          MaxCrashes,  \* bound: restarts of the control plane
          MaxFaults    \* bound: calls of the store that fail

ASSUME AutomationsAssumption ==
  /\ Outcomes \subseteq {"completed", "partial", "failed", "cancelled", "timeout", "error"}
  /\ MaxCrashes \in Nat /\ MaxFaults \in Nat

(* A job is not confused with the other holders of the mutex. *)
ASSUME JobsAssumption == Jobs \intersect {"manual", "schedule", "free"} = {}

Queuers == {"manual", "schedule"}   \* who calls queueAutomationExecution
Statuses == {"queued", "running", "completed", "partial", "failed", "cancelled"}

VARIABLES
  row,       \* row of automations, or Gone
  inbox,     \* per job: its row of automation_inbox, or Gone
  mutex,     \* holder of automationMu, or Free
  editor,    \* updateAutomation: what it read, or Idle
  poller,    \* queueDueAutomations: what it read, or Idle
  queuer,    \* queueAutomationExecution per caller: place and what it read
  job,       \* executeAutomationJob per job: place and what it read
  crashes,   \* restarts so far
  faults,    \* failed calls of the store so far
  stale      \* history: an unlocked writer put an old in_progress back, or a
             \* holder of the mutex failed to write it and went on

vars == <<row, inbox, mutex, editor, poller, queuer, job, crashes, faults, stale>>

Gone == [gone |-> TRUE]
Idle == [idle |-> TRUE]
Free == "free"

Row == [inProgress : BOOLEAN, enabled : BOOLEAN]
Entry == [status : Statuses, unread : BOOLEAN, done : BOOLEAN]

TypeOK ==
  /\ row \in Row \union {Gone}
  /\ inbox \in [Jobs -> Entry \union {Gone}]
  /\ mutex \in {Free} \union Queuers \union Jobs
  /\ editor \in Row \union {Idle} /\ poller \in Row \union {Idle}
  /\ queuer \in [Queuers -> [at : {"idle", "call", "loaded", "marked", "failed"}, read : Row \union {Idle}]]
  /\ job \in [Jobs -> [at : {"new", "spawned", "waiting", "answered", "loaded", "over"},
                       read : Row \union {Idle}]]
  /\ crashes \in 0..MaxCrashes /\ faults \in 0..MaxFaults
  /\ stale \in BOOLEAN

NoCall == [at |-> "idle", read |-> Idle]
NewJob == [at |-> "new", read |-> Idle]
OverJob == [NewJob EXCEPT !.at = "over"]

Init ==
  /\ row = [inProgress |-> FALSE, enabled |-> TRUE]
  /\ inbox = [j \in Jobs |-> Gone]
  /\ mutex = Free
  /\ editor = Idle /\ poller = Idle
  /\ queuer = [q \in Queuers |-> NoCall]
  /\ job = [j \in Jobs |-> NewJob]
  /\ crashes = 0 /\ faults = 0
  /\ stale = FALSE

-----------------------------------------------------------------------------
(* The store.                                                              *)

(* A call fails and changes nothing. *)
Fault == faults < MaxFaults /\ faults' = faults + 1

(* UpdateAutomation writes every column; a deleted row stays deleted. *)
UpdateAutomation(r) == row' = (IF row = Gone THEN Gone ELSE r) /\ UNCHANGED faults

(* By a holder of the mutex, who drops the error. *)
UpdateLocked(r) ==
  \/ UpdateAutomation(r) /\ UNCHANGED stale
  \/ Fault /\ stale' = TRUE /\ UNCHANGED row

(* By a handler that does not hold the mutex. *)
UpdateUnlocked(r) ==
  \/ /\ UpdateAutomation(r)
     /\ stale' = (stale \/ (row # Gone /\ row'.inProgress # row.inProgress))
  \/ Fault /\ UNCHANGED <<row, stale>>

(* UpdateAutomationInboxEntry. *)
UpdateEntry(j, e) ==
  \/ inbox' = [inbox EXCEPT ![j] = IF @ = Gone THEN Gone ELSE e] /\ UNCHANGED faults
  \/ Fault /\ UNCHANGED inbox

-----------------------------------------------------------------------------
(* updateAutomation: GetAutomation, then UpdateAutomation. *)
EditLoad ==
  /\ editor = Idle /\ row # Gone
  /\ editor' = row
  /\ UNCHANGED <<row, inbox, mutex, poller, queuer, job, crashes, faults, stale>>

EditSave ==
  /\ editor # Idle
  /\ \E on \in BOOLEAN : UpdateUnlocked([editor EXCEPT !.enabled = on])
  /\ editor' = Idle
  /\ UNCHANGED <<inbox, mutex, poller, queuer, job, crashes>>

(* queueDueAutomations: ListAutomations, skip it or write the next run, and *)
(* queue it if that is due.                                                *)
PollList ==
  /\ poller = Idle /\ queuer["schedule"].at = "idle"
  /\ row # Gone /\ row.enabled /\ ~row.inProgress
  /\ poller' = row
  /\ UNCHANGED <<row, inbox, mutex, editor, queuer, job, crashes, faults, stale>>

PollSave ==
  /\ poller # Idle
  /\ UpdateUnlocked(poller)
  /\ poller' = Idle
  /\ \/ queuer' = [queuer EXCEPT !["schedule"].at = "call"]
     \/ UNCHANGED queuer
  /\ UNCHANGED <<inbox, mutex, editor, job, crashes>>

(* deleteAutomation; the entries go with the row (ON DELETE CASCADE). *)
Delete ==
  /\ row # Gone
  /\ row' = Gone /\ inbox' = [j \in Jobs |-> Gone]
  /\ UNCHANGED <<mutex, editor, poller, queuer, job, crashes, faults, stale>>

(* markAutomationInboxRead, markAutomationInboxReadAll. *)
MarkRead ==
  /\ \E read \in SUBSET {j \in Jobs : inbox[j] # Gone /\ inbox[j].unread} :
       /\ read # {}
       /\ inbox' = [j \in Jobs |-> IF j \in read THEN [inbox[j] EXCEPT !.unread = FALSE]
                                                 ELSE inbox[j]]
  /\ UNCHANGED <<row, mutex, editor, poller, queuer, job, crashes, faults, stale>>

-----------------------------------------------------------------------------
(* queueAutomationExecution, called by runAutomationNow and by the poll.   *)

RunNow ==
  /\ queuer["manual"].at = "idle"
  /\ queuer' = [queuer EXCEPT !["manual"].at = "call"]
  /\ UNCHANGED <<row, inbox, mutex, editor, poller, job, crashes, faults, stale>>

(* Mutant: a running automation is not refused. *)
RefusedOnlyDisabled(r) == IF r = Gone THEN TRUE ELSE ~r.enabled

Refused(r) == IF r = Gone THEN TRUE ELSE r.inProgress \/ ~r.enabled

(* Mutant: a refused call returns with the mutex locked. *)
QueueRefuseLocked(q) ==
  /\ queuer[q].at = "call" /\ mutex = Free
  /\ Refused(row)
  /\ mutex' = q
  /\ queuer' = [queuer EXCEPT ![q] = NoCall]
  /\ UNCHANGED <<row, inbox, editor, poller, job, crashes, faults, stale>>

(* Not found, already running, disabled: the handler answers 409. *)
QueueRefuse(q) ==
  /\ queuer[q].at = "call" /\ mutex = Free
  /\ Refused(row)
  /\ queuer' = [queuer EXCEPT ![q] = NoCall]
  /\ UNCHANGED <<row, inbox, mutex, editor, poller, job, crashes, faults, stale>>

QueueLoad(q) ==
  /\ queuer[q].at = "call" /\ mutex = Free
  /\ ~Refused(row)
  /\ \E j \in Jobs : job[j].at = "new"    \* bound: executions
  /\ mutex' = q
  /\ queuer' = [queuer EXCEPT ![q] = [at |-> "loaded", read |-> row]]
  /\ UNCHANGED <<row, inbox, editor, poller, job, crashes, faults, stale>>

QueueMark(q) ==
  /\ queuer[q].at = "loaded"
  /\ UpdateAutomation([queuer[q].read EXCEPT !.inProgress = TRUE])
  /\ queuer' = [queuer EXCEPT ![q].at = "marked"]
  /\ UNCHANGED <<inbox, mutex, editor, poller, job, crashes, stale>>

(* UpdateAutomation fails: the handler answers 409. *)
QueueGivesUp(q) ==
  /\ queuer[q].at = "loaded" /\ Fault
  /\ mutex' = Free
  /\ queuer' = [queuer EXCEPT ![q] = NoCall]
  /\ UNCHANGED <<row, inbox, editor, poller, job, crashes, stale>>

(* The entry, and the goroutine of the job. *)
QueueSpawn(q) ==
  /\ queuer[q].at = "marked" /\ row # Gone
  /\ \E j \in Jobs :
       /\ job[j].at = "new"
       /\ inbox' = [inbox EXCEPT ![j] = [status |-> "queued", unread |-> FALSE, done |-> FALSE]]
       /\ job' = [job EXCEPT ![j].at = "spawned"]
  /\ mutex' = Free
  /\ queuer' = [queuer EXCEPT ![q] = NoCall]
  /\ UNCHANGED <<row, editor, poller, crashes, faults, stale>>

(* CreateAutomationInboxEntry fails, as it must if the automation is gone ... *)
QueueFails(q) ==
  /\ queuer[q].at = "marked"
  /\ \/ row = Gone /\ UNCHANGED faults
     \/ Fault
  /\ queuer' = [queuer EXCEPT ![q].at = "failed"]
  /\ UNCHANGED <<row, inbox, mutex, editor, poller, job, crashes, stale>>

(* Mutant: in_progress is not taken back. *)
QueueUndoNothing(q) ==
  /\ queuer[q].at = "failed"
  /\ mutex' = Free
  /\ queuer' = [queuer EXCEPT ![q] = NoCall]
  /\ UNCHANGED <<row, inbox, editor, poller, job, crashes, faults, stale>>

(* ... and in_progress is taken back. *)
QueueUndo(q) ==
  /\ queuer[q].at = "failed"
  /\ UpdateLocked([queuer[q].read EXCEPT !.inProgress = FALSE])
  /\ mutex' = Free
  /\ queuer' = [queuer EXCEPT ![q] = NoCall]
  /\ UNCHANGED <<inbox, editor, poller, job, crashes>>

-----------------------------------------------------------------------------
(* executeAutomationJob. *)

JobStart(j) ==
  /\ job[j].at = "spawned" /\ mutex = Free
  /\ UpdateEntry(j, [inbox[j] EXCEPT !.status = "running"])
  /\ job' = [job EXCEPT ![j].at = "waiting"]
  /\ UNCHANGED <<row, mutex, editor, poller, queuer, crashes, stale>>

(* executeAutomationRun answers with the run's terminal event, after the   *)
(* timeout, or with an error: it cannot start the run, or its context runs *)
(* out in a query.  Which one it was, JobRecord picks.                     *)
JobAnswer(j) ==
  /\ job[j].at = "waiting"
  /\ job' = [job EXCEPT ![j].at = "answered"]
  /\ UNCHANGED <<row, inbox, mutex, editor, poller, queuer, crashes, faults, stale>>

(* GetAutomation fails or finds nothing: the job returns. *)
JobOrphaned(j) ==
  /\ job[j].at = "answered" /\ mutex = Free
  /\ \/ row = Gone /\ UNCHANGED <<faults, stale>>
     \/ Fault /\ stale' = TRUE
  /\ job' = [job EXCEPT ![j] = OverJob]
  /\ UNCHANGED <<row, inbox, mutex, editor, poller, queuer, crashes>>

(* Mutant: the answer's outcome is stored as the status. *)
ReportedAsIs(o) == o

(* The status of the answer: a timeout leaves it "running". *)
Reported(o) == CASE o = "timeout" -> "running"
                 [] o = "error"   -> "failed"
                 [] OTHER         -> o

(* Mutant: the entry is taken for the newest one. *)
FoundNewest(j) ==
  LET listed == {i \in Jobs : inbox[i] # Gone} IN
  IF \E i \in listed : job[i].at = "spawned" THEN CHOOSE i \in listed : job[i].at = "spawned" ELSE j

(* findInboxEntry. *)
Found(j) == j

(* GetAutomation and the entry ... *)
JobRecord(j) ==
  /\ job[j].at = "answered" /\ mutex = Free /\ row # Gone
  /\ mutex' = j
  /\ \E o \in Outcomes :
       UpdateEntry(Found(j), [status |-> Reported(o), unread |-> TRUE, done |-> TRUE])
  /\ job' = [job EXCEPT ![j].at = "loaded", ![j].read = row]
  /\ UNCHANGED <<row, editor, poller, queuer, crashes, stale>>

(* ... then UpdateAutomation; what is posted to Discord after it is left   *)
(* out. *)
JobRelease(j) ==
  /\ job[j].at = "loaded"
  /\ UpdateLocked([job[j].read EXCEPT !.inProgress = FALSE])
  /\ mutex' = Free
  /\ job' = [job EXCEPT ![j] = OverJob]
  /\ UNCHANGED <<inbox, editor, poller, queuer, crashes>>

(* The control plane restarts: its goroutines are gone, the tables stay.   *)
Restart ==
  /\ crashes < MaxCrashes
  /\ crashes' = crashes + 1
  /\ mutex' = Free
  /\ editor' = Idle /\ poller' = Idle
  /\ queuer' = [q \in Queuers |-> NoCall]
  /\ job' = [j \in Jobs |-> IF job[j].at = "new" THEN job[j] ELSE OverJob]
  /\ UNCHANGED <<row, inbox, faults, stale>>

-----------------------------------------------------------------------------
QueueStep(q) == QueueRefuse(q) \/ QueueLoad(q) \/ QueueMark(q) \/ QueueGivesUp(q)
                \/ QueueSpawn(q) \/ QueueFails(q) \/ QueueUndo(q)
JobStep(j) == JobStart(j) \/ JobAnswer(j) \/ JobOrphaned(j) \/ JobRecord(j) \/ JobRelease(j)

Next ==
  \/ EditLoad \/ EditSave \/ PollList \/ PollSave \/ Delete \/ MarkRead
  \/ RunNow \/ \E q \in Queuers : QueueStep(q)
  \/ \E j \in Jobs : JobStep(j)
  \/ Restart

Spec == Init /\ [][Next]_vars

(* Goroutines run, a Go mutex is handed to those who wait for it, and      *)
(* executeAutomationRun gives up after its timeout.                        *)
FairSpec ==
  /\ Spec
  /\ \A q \in Queuers : SF_vars(QueueStep(q))
  /\ \A j \in Jobs : SF_vars(JobStep(j))
  /\ WF_vars(EditSave) /\ WF_vars(PollSave)

-----------------------------------------------------------------------------
(* Properties.                                                             *)

Alive(j) == job[j].at \in {"spawned", "waiting", "answered", "loaded"}
Marking == \E q \in Queuers : queuer[q].at \in {"marked", "failed"}

(* The mutex and in_progress together keep two executions of an automation *)
(* apart, unless a writer without the mutex put an old in_progress back.   *)
OneJob == ~stale => Cardinality({j \in Jobs : Alive(j)}) <= 1

(* Under the same condition in_progress is never left set or lost, also    *)
(* when queuing fails half-way: it says that an execution is alive or      *)
(* being queued, as long as the control plane is not restarted.            *)
InProgressExact ==
  ~stale /\ crashes = 0 /\ row # Gone
    => (row.inProgress <=> Marking \/ \E j \in Jobs : Alive(j))

(* An entry is written by its own job only, whatever the interleaving: it  *)
(* never goes back to the queue, and a final record changes only by being  *)
(* read.                                                                   *)
EntriesAdvance ==
  [][\A j \in Jobs : inbox[j] # Gone /\ inbox'[j] \notin {Gone, inbox[j]}
       => /\ inbox'[j].status # "queued"
          /\ inbox[j].done => inbox'[j] = [inbox[j] EXCEPT !.unread = FALSE]]_vars

(* Every entry is completed, unless the automation is deleted, a call of   *)
(* the store fails or the control plane restarts.                          *)
EntriesComplete ==
  \A j \in Jobs :
    inbox[j] # Gone ~> crashes + faults > 0 \/ inbox[j] = Gone \/ inbox[j].done
=============================================================================
