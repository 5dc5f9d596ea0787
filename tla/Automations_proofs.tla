------------------------- MODULE Automations_proofs -------------------------
(***************************************************************************)
(* Theorems about Automations, for every number of executions, restarts    *)
(* and failing calls: types, entries that only advance, and, as long as no *)
(* stale value is written, one execution at a time and an exact            *)
(* in_progress.                                                            *)
(***************************************************************************)
EXTENDS Automations, FiniteSetTheorems, TLAPS

-----------------------------------------------------------------------------
(* Type correctness.  A holder of the mutex has read a row.                *)

HasRead ==
  /\ \A q \in Queuers : queuer[q].at \in {"loaded", "marked", "failed"} => queuer[q].read \in Row
  /\ \A j \in Jobs : job[j].at = "loaded" => job[j].read \in Row

Shape == TypeOK /\ HasRead

LEMMA ShapeInit == Init => Shape
<1> SUFFICES ASSUME Init PROVE Shape
  OBVIOUS
<1> USE DEF Init
<1>1. row \in Row \union {Gone} /\ inbox \in [Jobs -> Entry \union {Gone}]
  BY DEF Row
<1>2. queuer \in [Queuers -> [at : {"idle", "call", "loaded", "marked", "failed"},
                             read : Row \union {Idle}]]
  BY DEF NoCall
<1>3. job \in [Jobs -> [at : {"new", "spawned", "waiting", "answered", "loaded", "over"},
                       read : Row \union {Idle}]]
  BY DEF NewJob
<1>4. crashes \in 0..MaxCrashes /\ faults \in 0..MaxFaults
  BY AutomationsAssumption DEF AutomationsAssumption
<1> QED
  BY <1>1, <1>2, <1>3, <1>4 DEF Shape, TypeOK, HasRead, NoCall, NewJob

(* What the helpers for the store leave in the tables. *)
LEMMA StoreShape ==
  ASSUME TypeOK
  PROVE  /\ \A r \in Row : UpdateAutomation(r) \/ UpdateLocked(r) \/ UpdateUnlocked(r)
              => row' \in Row \union {Gone} /\ faults' \in 0..MaxFaults
         /\ \A r \in Row : UpdateLocked(r) \/ UpdateUnlocked(r) => stale' \in BOOLEAN
         /\ \A j \in Jobs : \A e : UpdateEntry(j, e) /\ (inbox[j] # Gone => e \in Entry)
              => inbox' \in [Jobs -> Entry \union {Gone}] /\ faults' \in 0..MaxFaults
         /\ Fault => faults' \in 0..MaxFaults
<1>1. Fault => faults' \in 0..MaxFaults
  BY AutomationsAssumption DEF Fault, TypeOK, AutomationsAssumption
<1>2. ASSUME NEW r \in Row, UpdateAutomation(r) \/ UpdateLocked(r) \/ UpdateUnlocked(r)
      PROVE  row' \in Row \union {Gone} /\ faults' \in 0..MaxFaults
  BY <1>1, <1>2 DEF UpdateAutomation, UpdateLocked, UpdateUnlocked, TypeOK
<1>3. ASSUME NEW r \in Row, UpdateLocked(r) PROVE stale' \in BOOLEAN
  BY <1>3, Zenon DEF UpdateLocked, TypeOK
<1>4. ASSUME NEW r \in Row, UpdateUnlocked(r) PROVE stale' \in BOOLEAN
  <2>1. (stale \/ (row # Gone /\ row'.inProgress # row.inProgress)) \in BOOLEAN
    BY Zenon DEF TypeOK
  <2> QED
    BY <1>4, <2>1, Zenon DEF UpdateUnlocked, TypeOK
<1>5. ASSUME NEW j \in Jobs, NEW e, UpdateEntry(j, e), inbox[j] # Gone => e \in Entry
      PROVE  inbox' \in [Jobs -> Entry \union {Gone}] /\ faults' \in 0..MaxFaults
  BY <1>1, <1>5 DEF UpdateEntry, TypeOK
<1> QED
  BY <1>1, <1>2, <1>3, <1>4, <1>5

(* A step of queueAutomationExecution. *)
LEMMA QueueShape ==
  ASSUME Shape, NEW q \in Queuers, QueueStep(q)
  PROVE  Shape'
<1> USE DEF Shape, TypeOK, HasRead
<1>1. CASE QueueRefuse(q)
  BY <1>1 DEF QueueRefuse, NoCall
<1>2. CASE QueueLoad(q)
  BY <1>2 DEF QueueLoad, Refused
<1>3. CASE QueueMark(q)
  <2>1. [queuer[q].read EXCEPT !.inProgress = TRUE] \in Row
    BY <1>3 DEF QueueMark, Row
  <2> QED
    BY <1>3, <2>1, StoreShape DEF QueueMark
<1>4. CASE QueueGivesUp(q)
  BY <1>4, StoreShape DEF QueueGivesUp, NoCall
<1>5. CASE QueueSpawn(q)
  BY <1>5 DEF QueueSpawn, NoCall, Entry, Statuses
<1>6. CASE QueueFails(q)
  BY <1>6, StoreShape DEF QueueFails
<1>7. CASE QueueUndo(q)
  <2>1. [queuer[q].read EXCEPT !.inProgress = FALSE] \in Row
    BY <1>7 DEF QueueUndo, Row
  <2> QED
    BY <1>7, <2>1, StoreShape DEF QueueUndo, NoCall
<1> QED
  BY <1>1, <1>2, <1>3, <1>4, <1>5, <1>6, <1>7 DEF QueueStep

(* A step of executeAutomationJob. *)
LEMMA JobShape ==
  ASSUME Shape, NEW j \in Jobs, JobStep(j)
  PROVE  Shape'
<1> USE DEF Shape, TypeOK, HasRead
<1>1. CASE JobStart(j)
  <2>1. inbox[j] # Gone => [inbox[j] EXCEPT !.status = "running"] \in Entry
    BY DEF Entry, Statuses
  <2> QED
    BY <1>1, <2>1, StoreShape DEF JobStart
<1>2. CASE JobAnswer(j)
  BY <1>2 DEF JobAnswer
<1>3. CASE JobOrphaned(j)
  BY <1>3, StoreShape DEF JobOrphaned, OverJob, NewJob
<1>4. CASE JobRecord(j)
  <2>1. PICK o \in Outcomes :
          UpdateEntry(Found(j), [status |-> Reported(o), unread |-> TRUE, done |-> TRUE])
    BY <1>4 DEF JobRecord
  <2>2. [status |-> Reported(o), unread |-> TRUE, done |-> TRUE] \in Entry
    BY AutomationsAssumption DEF Entry, Statuses, Reported, AutomationsAssumption
  <2> QED
    BY <1>4, <2>1, <2>2, StoreShape DEF JobRecord, Found
<1>5. CASE JobRelease(j)
  <2>1. [job[j].read EXCEPT !.inProgress = FALSE] \in Row
    BY <1>5 DEF JobRelease, Row
  <2> QED
    BY <1>5, <2>1, StoreShape DEF JobRelease, OverJob, NewJob
<1> QED
  BY <1>1, <1>2, <1>3, <1>4, <1>5 DEF JobStep

LEMMA ShapeStep ==
  ASSUME Shape, [Next]_vars
  PROVE  Shape'
<1> USE DEF Shape, TypeOK, HasRead
<1>1. CASE EditLoad
  BY <1>1 DEF EditLoad
<1>2. CASE EditSave
  <2>1. PICK on \in BOOLEAN : UpdateUnlocked([editor EXCEPT !.enabled = on])
    BY <1>2 DEF EditSave
  <2>2. [editor EXCEPT !.enabled = on] \in Row
    BY <1>2 DEF EditSave, Row
  <2> QED
    BY <1>2, <2>1, <2>2, StoreShape DEF EditSave
<1>3. CASE PollList
  BY <1>3 DEF PollList
<1>4. CASE PollSave
  <2>1. queuer' = queuer \/ queuer' = [queuer EXCEPT !["schedule"].at = "call"]
    BY <1>4 DEF PollSave
  <2>2. poller \in Row
    BY <1>4 DEF PollSave
  <2> QED
    BY <1>4, <2>1, <2>2, StoreShape DEF PollSave, Queuers
<1>5. CASE Delete
  BY <1>5 DEF Delete
<1>6. CASE MarkRead
  <2>1. PICK read \in SUBSET {j \in Jobs : inbox[j] # Gone /\ inbox[j].unread} :
          inbox' = [j \in Jobs |-> IF j \in read THEN [inbox[j] EXCEPT !.unread = FALSE]
                                                ELSE inbox[j]]
    BY <1>6 DEF MarkRead
  <2>2. \A j \in read : inbox[j] \in Entry
    OBVIOUS
  <2>3. \A j \in read : [inbox[j] EXCEPT !.unread = FALSE] \in Entry
    BY <2>2 DEF Entry
  <2>4. inbox' \in [Jobs -> Entry \union {Gone}]
    BY <2>1, <2>3
  <2> QED
    BY <1>6, <2>4 DEF MarkRead
<1>7. CASE RunNow
  BY <1>7 DEF RunNow, Queuers
<1>8. CASE Restart
  <2>1. crashes' \in 0..MaxCrashes
    BY <1>8, AutomationsAssumption DEF Restart, AutomationsAssumption
  <2> QED
    BY <1>8, <2>1 DEF Restart, NoCall, OverJob, NewJob
<1>9. CASE UNCHANGED vars
  BY <1>9 DEF vars
<1> QED
  BY <1>1, <1>2, <1>3, <1>4, <1>5, <1>6, <1>7, <1>8, <1>9, QueueShape, JobShape DEF Next

(* The row, the entries, and every handler and job keep their types: a     *)
(* timed-out wait too leaves one of the schema's statuses.                 *)
THEOREM TypeCorrect == Spec => []TypeOK
<1>1. Shape /\ [Next]_vars => Shape'
  BY ShapeStep
<1>2. Shape => TypeOK
  BY DEF Shape
<1> QED
  BY <1>1, <1>2, ShapeInit, PTL DEF Spec

-----------------------------------------------------------------------------
(* The mutex and in_progress.                                              *)

(* Who is past Lock holds the mutex; a poll queues only after it has saved. *)
LockInv ==
  /\ poller # Idle => queuer["schedule"].at = "idle"
  /\ \A q \in Queuers : queuer[q].at \in {"loaded", "marked", "failed"} => mutex = q
  /\ \A j \in Jobs : job[j].at = "loaded" => mutex = j

(* While no stale value was written, executions exclude each other and the *)
(* queueing of the next, and in_progress says whether there is one; after  *)
(* a restart it may be set without.                                        *)
FlagInv ==
  ~stale =>
    /\ \A i, j \in Jobs : Alive(i) /\ Alive(j) => i = j
    /\ \A q \in Queuers, j \in Jobs :
         queuer[q].at \in {"loaded", "marked", "failed"} => ~Alive(j)
    /\ row # Gone /\ (Marking \/ \E j \in Jobs : Alive(j)) => row.inProgress
    /\ row # Gone /\ crashes = 0 /\ row.inProgress => Marking \/ \E j \in Jobs : Alive(j)

LEMMA LockInit == Init => LockInv /\ FlagInv
  BY DEF Init, LockInv, FlagInv, NoCall, NewJob, Alive, Marking, Queuers

(* The unlocked writers: either in_progress stays, or the step is stale. *)
LEMMA UnlockedFlag ==
  ASSUME Shape, FlagInv, NEW r \in Row, UpdateUnlocked(r), UNCHANGED <<job, crashes>>,
         \A q \in Queuers : queuer'[q] = queuer[q]
           \/ (queuer'[q].at = "call" /\ queuer[q].at = "idle")
  PROVE  FlagInv'
<1>1. Marking' <=> Marking
  BY DEF Marking
<1>2. ~stale' => ~stale /\ (row' = Gone \/ row' = row \/ (row # Gone /\ row'.inProgress = row.inProgress))
  BY DEF UpdateUnlocked, UpdateAutomation, Shape, TypeOK
<1> QED
  BY <1>1, <1>2 DEF FlagInv, Alive

(* queueAutomationExecution. *)
LEMMA QueueFlag ==
  ASSUME Shape, LockInv, FlagInv, NEW q \in Queuers, QueueStep(q)
  PROVE  LockInv' /\ FlagInv'
<1> USE JobsAssumption DEF LockInv, Shape, TypeOK, HasRead, Queuers, Free, NoCall
<1>1. CASE QueueRefuse(q)
  <2>1. UNCHANGED <<row, job, crashes, stale>> /\ (Marking' <=> Marking)
    BY <1>1 DEF QueueRefuse, Marking
  <2> QED
    BY <1>1, <2>1 DEF QueueRefuse, FlagInv, Alive
<1>2. CASE QueueLoad(q)
  <2>1. ~stale => \A j \in Jobs : ~Alive(j)
    BY <1>2 DEF QueueLoad, Refused, FlagInv
  <2>2. UNCHANGED <<row, job, crashes, stale>> /\ (Marking' <=> Marking)
    BY <1>2 DEF QueueLoad, Marking
  <2> QED
    BY <1>2, <2>1, <2>2 DEF QueueLoad, FlagInv, Alive
<1>3. CASE QueueMark(q)
  <2>1. Marking' /\ UNCHANGED <<job, crashes, stale>>
    BY <1>3 DEF QueueMark, Marking
  <2>2. row' = Gone \/ row'.inProgress = TRUE
    BY <1>3 DEF QueueMark, UpdateAutomation, Row
  <2> QED
    BY <1>3, <2>1, <2>2 DEF QueueMark, FlagInv, Alive
<1>4. CASE QueueGivesUp(q)
  <2>1. UNCHANGED <<row, job, crashes, stale>> /\ (Marking' <=> Marking)
    BY <1>4 DEF QueueGivesUp, Marking
  <2> QED
    BY <1>4, <2>1 DEF QueueGivesUp, FlagInv, Alive
<1>5. CASE QueueSpawn(q)
  <2>1. PICK i \in Jobs : job[i].at = "new" /\ job' = [job EXCEPT ![i].at = "spawned"]
    BY <1>5 DEF QueueSpawn
  <2>2. UNCHANGED <<row, crashes, stale>> /\ Marking /\ ~Marking' /\ mutex = q
    BY <1>5 DEF QueueSpawn, Marking
  <2>3. Alive(i)' /\ \A j \in Jobs : j # i => (Alive(j)' <=> Alive(j))
    BY <2>1 DEF Alive
  <2>4. ~stale => \A j \in Jobs : ~Alive(j)
    BY <1>5 DEF QueueSpawn, FlagInv
  <2>5. ~stale => \A p \in Queuers : queuer'[p].at \notin {"loaded", "marked", "failed"}
    BY <1>5, <2>2 DEF QueueSpawn
  <2>6. FlagInv'
    BY <2>1, <2>2, <2>3, <2>4, <2>5 DEF FlagInv
  <2> QED
    BY <1>5, <2>1, <2>6 DEF QueueSpawn
<1>6. CASE QueueFails(q)
  <2>1. UNCHANGED <<row, job, crashes, stale>> /\ Marking /\ Marking'
    BY <1>6 DEF QueueFails, Marking
  <2> QED
    BY <1>6, <2>1 DEF QueueFails, FlagInv, Alive
<1>7. CASE QueueUndo(q)
  <2>1. UNCHANGED <<job, crashes>> /\ ~Marking' /\ (~stale' => ~stale)
    BY <1>7 DEF QueueUndo, UpdateLocked, Marking
  <2>2. ~stale' => row' = Gone \/ row'.inProgress = FALSE
    BY <1>7 DEF QueueUndo, UpdateLocked, UpdateAutomation, Row
  <2>3. ~stale => \A j \in Jobs : ~Alive(j)
    BY <1>7 DEF QueueUndo, FlagInv
  <2> QED
    BY <1>7, <2>1, <2>2, <2>3 DEF QueueUndo, FlagInv, Alive
<1> QED
  BY <1>1, <1>2, <1>3, <1>4, <1>5, <1>6, <1>7 DEF QueueStep

(* executeAutomationJob. *)
LEMMA JobFlag ==
  ASSUME Shape, LockInv, FlagInv, NEW j \in Jobs, JobStep(j)
  PROVE  LockInv' /\ FlagInv'
<1> USE JobsAssumption DEF LockInv, Shape, TypeOK, HasRead, Queuers, Free, NewJob, OverJob
<1>1. CASE JobStart(j) \/ JobAnswer(j) \/ JobRecord(j)
  <2>1. UNCHANGED <<row, queuer, crashes, stale>> /\ (Marking' <=> Marking)
    BY <1>1 DEF JobStart, JobAnswer, JobRecord, Marking
  <2>2. \A i \in Jobs : Alive(i)' <=> Alive(i)
    BY <1>1 DEF JobStart, JobAnswer, JobRecord, Alive
  <2>3. LockInv'
    BY <1>1 DEF JobStart, JobAnswer, JobRecord
  <2> QED
    BY <2>1, <2>2, <2>3 DEF FlagInv
<1>2. CASE JobOrphaned(j)
  <2>1. UNCHANGED <<row, queuer, crashes>> /\ (~stale' => ~stale /\ row = Gone)
    BY <1>2 DEF JobOrphaned
  <2>2. \A i \in Jobs : Alive(i)' => Alive(i)
    BY <1>2 DEF JobOrphaned, Alive
  <2> QED
    BY <1>2, <2>1, <2>2 DEF JobOrphaned, FlagInv
<1>3. CASE JobRelease(j)
  <2>1. UNCHANGED <<queuer, crashes>> /\ ~Marking' /\ (~stale' => ~stale)
    BY <1>3 DEF JobRelease, UpdateLocked, Marking
  <2>2. ~stale' => row' = Gone \/ row'.inProgress = FALSE
    BY <1>3 DEF JobRelease, UpdateLocked, UpdateAutomation, Row
  <2>3. Alive(j) /\ \A i \in Jobs : Alive(i)' => Alive(i) /\ i # j
    BY <1>3 DEF JobRelease, Alive
  <2>4. ~stale => \A i \in Jobs : ~Alive(i)'
    BY <2>3 DEF FlagInv
  <2> QED
    BY <1>3, <2>1, <2>2, <2>4 DEF JobRelease, FlagInv
<1> QED
  BY <1>1, <1>2, <1>3 DEF JobStep

LEMMA FlagStep ==
  ASSUME Shape, LockInv, FlagInv, [Next]_vars
  PROVE  LockInv' /\ FlagInv'
<1> USE DEF LockInv, Shape, TypeOK
<1>1. CASE EditLoad \/ MarkRead \/ PollList \/ UNCHANGED vars
  <2>1. UNCHANGED <<row, mutex, queuer, job, crashes, stale>>
    BY <1>1 DEF EditLoad, MarkRead, PollList, vars
  <2>2. poller' = poller \/ queuer["schedule"].at = "idle"
    BY <1>1 DEF EditLoad, MarkRead, PollList, vars
  <2> QED
    BY <2>1, <2>2 DEF FlagInv, Alive, Marking
<1>2. CASE EditSave
  <2>1. PICK on \in BOOLEAN : UpdateUnlocked([editor EXCEPT !.enabled = on])
    BY <1>2 DEF EditSave
  <2>2. [editor EXCEPT !.enabled = on] \in Row
    BY <1>2 DEF EditSave, Row
  <2> QED
    BY <1>2, <2>1, <2>2, UnlockedFlag DEF EditSave
<1>3. CASE PollSave
  <2>1. poller \in Row /\ UpdateUnlocked(poller) /\ UNCHANGED <<mutex, job, crashes>>
    BY <1>3 DEF PollSave
  <2>2. queuer' = queuer \/ queuer' = [queuer EXCEPT !["schedule"].at = "call"]
    BY <1>3 DEF PollSave
  <2>3. \A q \in Queuers : queuer'[q].at \in {"loaded", "marked", "failed"}
          <=> queuer[q].at \in {"loaded", "marked", "failed"}
    BY <2>2, <1>3 DEF PollSave, Queuers
  <2>4. FlagInv'
    BY <2>1, <2>2, UnlockedFlag, <1>3 DEF PollSave, Queuers
  <2> QED
    BY <1>3, <2>1, <2>3, <2>4 DEF PollSave
<1>4. CASE Delete
  <2>1. row' = Gone /\ UNCHANGED <<mutex, poller, queuer, job, crashes, stale>>
    BY <1>4 DEF Delete
  <2> QED
    BY <2>1 DEF FlagInv, Alive
<1>5. CASE RunNow
  <2>1. UNCHANGED <<row, mutex, job, crashes, stale>> /\ (Marking' <=> Marking)
    BY <1>5 DEF RunNow, Marking, Queuers
  <2> QED
    BY <1>5, <2>1 DEF RunNow, FlagInv, Alive, Queuers
<1>6. CASE Restart
  <2>1. crashes' # 0 /\ \A j \in Jobs : ~Alive(j)'
    BY <1>6 DEF Restart, Alive, OverJob, NewJob
  <2>2. ~Marking' /\ poller' = Idle /\ \A q \in Queuers : queuer'[q].at = "idle"
    BY <1>6 DEF Restart, Marking, NoCall
  <2>3. \A j \in Jobs : job'[j].at # "loaded"
    BY <1>6 DEF Restart, OverJob, NewJob
  <2> QED
    BY <2>1, <2>2, <2>3 DEF FlagInv
<1> QED
  BY <1>1, <1>2, <1>3, <1>4, <1>5, <1>6, QueueFlag, JobFlag DEF Next

LEMMA FlagInvariant == Spec => [](LockInv /\ FlagInv)
<1>1. Init => Shape /\ LockInv /\ FlagInv
  BY ShapeInit, LockInit
<1>2. Shape /\ LockInv /\ FlagInv /\ [Next]_vars => (Shape /\ LockInv /\ FlagInv)'
  BY ShapeStep, FlagStep
<1> QED
  BY <1>1, <1>2, PTL DEF Spec

(* As long as no writer without the mutex put an old in_progress back, two *)
(* executions of an automation are never alive together, however calls,    *)
(* polls, edits, deletes, failures and restarts interleave.                *)
THEOREM OneExecution == Spec => []OneJob
<1>1. FlagInv => OneJob
  <2> SUFFICES ASSUME FlagInv, ~stale
               PROVE  Cardinality({j \in Jobs : Alive(j)}) <= 1
    BY DEF OneJob
  <2> DEFINE S == {j \in Jobs : Alive(j)}
  <2>1. CASE S = {}
    BY <2>1, FS_EmptySet
  <2>2. ASSUME NEW j \in S PROVE Cardinality(S) <= 1
    <3>1. S = {j}
      BY DEF FlagInv
    <3>2. Cardinality({j}) = 1
      BY FS_Singleton
    <3> HIDE DEF S
    <3> QED
      BY <3>1, <3>2
  <2> QED
    BY <2>1, <2>2
<1> QED
  BY <1>1, FlagInvariant, PTL

(* Under the same condition, and without a restart, in_progress is set     *)
(* exactly while an execution is alive or being queued.                    *)
THEOREM FlagExact == Spec => []InProgressExact
<1>1. FlagInv => InProgressExact
  BY DEF FlagInv, InProgressExact
<1> QED
  BY <1>1, FlagInvariant, PTL

-----------------------------------------------------------------------------
(* The entries.  A job that has not answered has no final record, and only *)
(* a final record is unread.                                               *)

EntryInv ==
  \A j \in Jobs :
    /\ job[j].at = "new" => inbox[j] = Gone
    /\ inbox[j] # Gone =>
         /\ job[j].at \in {"spawned", "waiting", "answered"} => ~inbox[j].done
         /\ inbox[j].unread => inbox[j].status # "queued"

(* What one step may do to one entry. *)
EntryStep(j) ==
  (inbox[j] # Gone /\ inbox'[j] \notin {Gone, inbox[j]})
    => /\ inbox'[j].status # "queued"
       /\ inbox[j].done => inbox'[j] = [inbox[j] EXCEPT !.unread = FALSE]

LEMMA EntryInit == Init => EntryInv
BY DEF Init, EntryInv, NewJob

LEMMA EntryNext ==
  ASSUME Shape, EntryInv, [Next]_vars
  PROVE  EntryInv' /\ \A j \in Jobs : EntryStep(j)
<1> USE DEF Shape, TypeOK, EntryInv, EntryStep
<1>1. CASE UNCHANGED inbox /\ \A j \in Jobs : job'[j].at = job[j].at \/ job'[j].at = "over"
  BY <1>1
<1>2. CASE Delete
  BY <1>2 DEF Delete
<1>3. CASE MarkRead
  <2>1. UNCHANGED job
    BY <1>3 DEF MarkRead
  <2>2. ASSUME NEW j \in Jobs
        PROVE  \/ inbox'[j] = inbox[j]
               \/ /\ inbox[j] # Gone /\ inbox[j].unread
                  /\ inbox'[j] = [inbox[j] EXCEPT !.unread = FALSE]
    BY <1>3 DEF MarkRead
  <2>3. ASSUME NEW j \in Jobs, inbox[j] # Gone,
               inbox'[j] = [inbox[j] EXCEPT !.unread = FALSE]
        PROVE  /\ inbox'[j].status = inbox[j].status
               /\ inbox'[j].done = inbox[j].done /\ inbox'[j].unread = FALSE
    BY <2>3 DEF Entry
  <2> QED
    BY <2>1, <2>2, <2>3, Zenon
<1>4. ASSUME NEW q \in Queuers, QueueSpawn(q)
      PROVE  EntryInv' /\ \A j \in Jobs : EntryStep(j)
  BY <1>4 DEF QueueSpawn
<1>5. ASSUME NEW i \in Jobs, JobStart(i)
      PROVE  EntryInv' /\ \A j \in Jobs : EntryStep(j)
  <2> DEFINE e == [inbox[i] EXCEPT !.status = "running"]
  <2>1. \A j \in Jobs : /\ j # i => inbox'[j] = inbox[j] /\ job'[j] = job[j]
                        /\ job'[i].at = "waiting" /\ job[i].at = "spawned"
    BY <1>5 DEF JobStart, UpdateEntry
  <2>2. inbox'[i] = inbox[i] \/ (inbox[i] # Gone /\ inbox'[i] = e)
    BY <1>5 DEF JobStart, UpdateEntry
  <2>3. inbox[i] # Gone => e.status = "running" /\ e.done = inbox[i].done /\ ~inbox[i].done
    BY <2>1 DEF Entry
  <2> HIDE DEF e
  <2> QED
    BY <2>1, <2>2, <2>3
<1>6. ASSUME NEW i \in Jobs, JobRecord(i)
      PROVE  EntryInv' /\ \A j \in Jobs : EntryStep(j)
  <2>1. PICK o \in Outcomes :
          UpdateEntry(i, [status |-> Reported(o), unread |-> TRUE, done |-> TRUE])
    BY <1>6 DEF JobRecord, Found
  <2>2. Reported(o) # "queued"
    BY AutomationsAssumption DEF Reported
  <2>3. \A j \in Jobs : j # i => inbox'[j] = inbox[j] /\ job'[j] = job[j]
    BY <1>6, <2>1 DEF JobRecord, UpdateEntry
  <2>4. job'[i].at = "loaded" /\ job[i].at = "answered"
    BY <1>6 DEF JobRecord
  <2>5. \/ inbox'[i] = inbox[i]
        \/ inbox[i] # Gone /\ inbox'[i] = [status |-> Reported(o), unread |-> TRUE, done |-> TRUE]
    BY <2>1 DEF UpdateEntry
  <2> QED
    BY <2>2, <2>3, <2>4, <2>5
<1>7. ASSUME EditLoad \/ EditSave \/ PollList \/ PollSave \/ RunNow
      PROVE  UNCHANGED <<inbox, job>>
  BY <1>7 DEF EditLoad, EditSave, PollList, PollSave, RunNow
<1>8. ASSUME NEW q \in Queuers, QueueStep(q), ~QueueSpawn(q)
      PROVE  UNCHANGED <<inbox, job>>
  BY <1>8 DEF QueueStep, QueueRefuse, QueueLoad, QueueMark, QueueGivesUp, QueueFails, QueueUndo
<1>9. ASSUME NEW i \in Jobs, JobAnswer(i)
      PROVE  EntryInv' /\ \A j \in Jobs : EntryStep(j)
  BY <1>9 DEF JobAnswer
<1>10. ASSUME NEW i \in Jobs, JobOrphaned(i) \/ JobRelease(i)
       PROVE  UNCHANGED inbox /\ \A j \in Jobs : job'[j].at = job[j].at \/ job'[j].at = "over"
  BY <1>10 DEF JobOrphaned, JobRelease, OverJob, NewJob
<1>11. ASSUME Restart
       PROVE  UNCHANGED inbox /\ \A j \in Jobs : job'[j].at = job[j].at \/ job'[j].at = "over"
  BY <1>11 DEF Restart, OverJob, NewJob
<1>12. CASE UNCHANGED vars
  BY <1>1, <1>12 DEF vars
<1> QED
  BY <1>1, <1>2, <1>3, <1>4, <1>5, <1>6, <1>7, <1>8, <1>9, <1>10, <1>11, <1>12
     DEF Next, JobStep

(* Whatever reads, deletions, failures and restarts come between: an entry *)
(* never goes back to the queue, and after its final record it changes by  *)
(* being read only.                                                        *)
THEOREM EntriesOnlyAdvance == Spec => EntriesAdvance
<1>1. Init => Shape /\ EntryInv
  BY ShapeInit, EntryInit
<1>2. Shape /\ EntryInv /\ [Next]_vars => (Shape /\ EntryInv)'
  BY ShapeStep, EntryNext
<1>3. Shape /\ EntryInv /\ [Next]_vars => \A j \in Jobs : EntryStep(j)
  BY EntryNext
<1> QED
  BY <1>1, <1>2, <1>3, PTL DEF Spec, EntriesAdvance, EntryStep
=============================================================================
