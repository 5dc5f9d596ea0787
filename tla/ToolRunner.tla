----------------------------- MODULE ToolRunner -----------------------------
(***************************************************************************)
(* The tool runner as one run's clients use it: POST /tools/execute with   *)
(* its cache of answers, the managed processes that process.start leaves   *)
(* behind, and POST /runs/{id}/processes/cleanup.                          *)
(*                                                                         *)
(* Node runs one handler at a time up to its next await: each await is a   *)
(* step boundary here.  Tools are process.start and process.stop; any      *)
(* other goes through the cache like process.start and leaves no process.  *)
(***************************************************************************)
EXTENDS Naturals, Sequences, SequencesExt, FiniteSets

CONSTANTS Requests,    \* calls of /tools/execute
          StartKeys,   \* idempotency keys of process.start
          StopKeys,    \* idempotency keys of process.stop
          None,        \* no key, no answer
          MaxEntries,  \* TOOL_INVOCATION_CACHE_MAX_ENTRIES
          MaxCleanups  \* bound: calls of the cleanup endpoint

ASSUME RunnerAssumption ==
  /\ MaxEntries \in Nat /\ MaxCleanups \in Nat
  /\ StartKeys \intersect StopKeys = {}
  /\ None \notin StartKeys \union StopKeys /\ None \notin Requests

Keys == StartKeys \union StopKeys

(* A managed process has the name of the request that spawned it. *)
Processes == Requests

VARIABLES
  at,        \* per request: the await it is in
  key,       \* per request: run, idempotency key and tool
  target,    \* per key of process.stop: its input
  ok,        \* per request: the status code to come is below 500
  reply,     \* per request: whose body it answered with
  cache,     \* invocationResultCache, oldest first
  info,      \* per process: its status in managedProcesses
  os,        \* per process: what the operating system has of it
  cleanups,  \* calls of the cleanup endpoint so far
  ran,       \* history: requests that executed their tool
  excused    \* history: keys whose answer expired, was evicted or was an
             \* error, or that were used by two requests at a time

requestVars == <<at, key, target, ok, reply>>
processVars == <<info, os>>
history == <<ran, excused>>
vars == <<requestVars, cache, processVars, cleanups, history>>

Entry == [key : Keys, body : Requests]

TypeOK ==
  /\ at \in [Requests -> {"idle", "looked", "starting", "waiting", "emitting", "hit", "done"}]
  /\ key \in [Requests -> Keys \union {None}]
  /\ target \in [StopKeys -> Processes]
  /\ ok \in [Requests -> BOOLEAN]
  /\ reply \in [Requests -> Requests \union {None}]
  /\ cache \in Seq(Entry) /\ Len(cache) <= MaxEntries
  /\ info \in [Processes -> {"none", "running", "exited", "failed", "pruned"}]
  /\ os \in [Processes -> {"none", "unborn", "alive", "killed", "dead"}]
  /\ cleanups \in 0..MaxCleanups
  /\ ran \subseteq Requests /\ excused \subseteq Keys

Init ==
  /\ at = [r \in Requests |-> "idle"]
  /\ key = [r \in Requests |-> None]
  /\ target \in [StopKeys -> Processes]
  /\ ok = [r \in Requests |-> FALSE]
  /\ reply = [r \in Requests |-> None]
  /\ cache = <<>>
  /\ info = [p \in Processes |-> "none"]
  /\ os = [p \in Processes |-> "none"]
  /\ cleanups = 0
  /\ ran = {} /\ excused = {}

-----------------------------------------------------------------------------
(* The cache of answers.                                                   *)

(* getCachedInvocationResult. *)
Cached(k) == {e \in ToSet(cache) : e.key = k}

Without(k) ==
  IF Cached(k) = {} THEN cache
  ELSE RemoveAt(cache, CHOOSE i \in DOMAIN cache : cache[i].key = k)

(* Mutant: one entry too many stays. *)
PrunedLate(c) == IF Len(c) > MaxEntries + 1 THEN Tail(c) ELSE c

(* pruneInvocationCache: the oldest entry goes. *)
Pruned(c) == IF Len(c) > MaxEntries THEN Tail(c) ELSE c

(* Mutant: the comparison with 500 is the wrong way round. *)
RememberErrors(r) ==
  IF ok[r]
    THEN UNCHANGED <<cache, excused>>
    ELSE /\ cache' = Pruned(Append(Without(key[r]), [key |-> key[r], body |-> r]))
         /\ excused' = excused \union {key[r]}

(* rememberInvocationResult: an error is not remembered. *)
Remember(r) ==
  LET new == Append(Without(key[r]), [key |-> key[r], body |-> r]) IN
  IF ok[r]
    THEN /\ cache' = Pruned(new)
         /\ excused' = excused \union {e.key : e \in ToSet(new) \ ToSet(Pruned(new))}
    ELSE /\ UNCHANGED cache
         /\ excused' = excused \union {key[r]}

(* TOOL_INVOCATION_CACHE_TTL_MS, the same for all entries. *)
Expire ==
  /\ cache # <<>>
  /\ cache' = Tail(cache)
  /\ excused' = excused \union {Head(cache).key}
  /\ UNCHANGED <<requestVars, processVars, cleanups, ran>>

-----------------------------------------------------------------------------
(* POST /tools/execute.                                                    *)

InFlight(r) == at[r] \in {"looked", "starting", "waiting", "emitting"}

(* The request arrives: its answer is in the cache and tool.deduped is     *)
(* emitted, or it is not and tool.started is.                              *)
Arrive(r, k) ==
  /\ at[r] = "idle"
  /\ key' = [key EXCEPT ![r] = k]
  /\ IF Cached(k) # {}
       THEN /\ at' = [at EXCEPT ![r] = "hit"]
            /\ \E e \in Cached(k) : reply' = [reply EXCEPT ![r] = e.body]
            /\ UNCHANGED excused
       ELSE /\ at' = [at EXCEPT ![r] = "looked"]
            /\ excused' = IF \E q \in Requests : key[q] = k /\ InFlight(q)
                            THEN excused \union {k} ELSE excused
            /\ UNCHANGED reply
  /\ UNCHANGED <<target, ok, cache, processVars, cleanups, ran>>

AnswerHit(r) ==
  /\ at[r] = "hit"
  /\ at' = [at EXCEPT ![r] = "done"]
  /\ UNCHANGED <<key, target, ok, reply, cache, processVars, cleanups, history>>

(* The tool's call is over: tool.completed or tool.failed is emitted. *)
Emit(r, success) ==
  /\ at' = [at EXCEPT ![r] = "emitting"]
  /\ ok' = [ok EXCEPT ![r] = success]
  /\ UNCHANGED <<key, target, reply>>

(* res.json, replaced by a function that remembers the answer first. *)
Answer(r) ==
  /\ at[r] = "emitting"
  /\ at' = [at EXCEPT ![r] = "done"]
  /\ reply' = [reply EXCEPT ![r] = r]
  /\ Remember(r)
  /\ UNCHANGED <<key, target, ok, processVars, cleanups, ran>>

-----------------------------------------------------------------------------
(* Managed processes.                                                      *)

(* Mutant: running ones are forgotten too. *)
ForgettableAll == {p \in Processes : info[p] \in {"running", "exited", "failed"}}

(* isManagedProcessActive spares them from pruneManagedProcesses. *)
Forgettable == {p \in Processes : info[p] \in {"exited", "failed"}}

(* pruneManagedProcesses, for those whose retention is over. *)
Forget(old) == [p \in Processes |-> IF p \in old THEN "pruned" ELSE info[p]]

(* startManagedProcess up to its awaits on the file system ... *)
StartPrepare(r) ==
  /\ at[r] = "looked" /\ key[r] \in StartKeys
  /\ at' = [at EXCEPT ![r] = "starting"]
  /\ \E old \in SUBSET Forgettable : info' = Forget(old)
  /\ UNCHANGED <<key, target, ok, reply, cache, os, cleanups, history>>

(* ... which fail, as the checks of the command and its arguments may ... *)
StartFails(r) ==
  /\ at[r] = "starting"
  /\ Emit(r, FALSE)
  /\ UNCHANGED <<cache, processVars, cleanups, history>>

(* ... and spawn, whose error comes as an event. *)
Spawn(r) ==
  /\ at[r] = "starting"
  /\ \E born \in {"alive", "unborn"} : os' = [os EXCEPT ![r] = born]
  /\ info' = [info EXCEPT ![r] = "running"]
  /\ ran' = ran \union {r}
  /\ Emit(r, TRUE)
  /\ UNCHANGED <<cache, cleanups, excused>>

(* stopManagedProcess.  A process is unknown, over already, or signalled.  *)
StopUnknown(r) ==
  /\ at[r] = "looked" /\ key[r] \in StopKeys
  /\ info[target[key[r]]] \in {"none", "pruned"}
  /\ Emit(r, FALSE)
  /\ UNCHANGED <<cache, processVars, cleanups, history>>

StopOver(r) ==
  /\ at[r] = "looked" /\ key[r] \in StopKeys
  /\ info[target[key[r]]] \in {"exited", "failed"}
  /\ Emit(r, TRUE)
  /\ ran' = ran \union {r}
  /\ UNCHANGED <<cache, processVars, cleanups, excused>>

(* SIGKILL reaches a process that is still there. *)
Killed(p) == IF os[p] = "alive" THEN "killed" ELSE os[p]

StopForced(r) ==
  /\ at[r] = "looked" /\ key[r] \in StopKeys
  /\ LET p == target[key[r]] IN info[p] = "running" /\ os' = [os EXCEPT ![p] = Killed(p)]
  /\ Emit(r, TRUE)
  /\ ran' = ran \union {r}
  /\ UNCHANGED <<cache, info, cleanups, excused>>

(* SIGTERM, which the process may ignore; then two timers. *)
StopAsked(r) ==
  /\ at[r] = "looked" /\ key[r] \in StopKeys
  /\ info[target[key[r]]] = "running"
  /\ at' = [at EXCEPT ![r] = "waiting"]
  /\ ran' = ran \union {r}
  /\ UNCHANGED <<key, target, ok, reply, cache, processVars, cleanups, excused>>

(* The interval sees that the process is over. *)
StopSeen(r) ==
  /\ at[r] = "waiting" /\ info[target[key[r]]] # "running"
  /\ Emit(r, TRUE)
  /\ UNCHANGED <<cache, processVars, cleanups, history>>

(* Mutant: the timeout ends the wait without SIGKILL. *)
StopGraceMild(r) ==
  /\ at[r] = "waiting"
  /\ Emit(r, TRUE)
  /\ UNCHANGED <<cache, processVars, cleanups, history>>

(* The timeout kills a process that is not, and goes on in any case. *)
StopGrace(r) ==
  /\ at[r] = "waiting"
  /\ LET p == target[key[r]] IN
     os' = IF info[p] = "running" THEN [os EXCEPT ![p] = Killed(p)] ELSE os
  /\ Emit(r, TRUE)
  /\ UNCHANGED <<cache, info, cleanups, history>>

(* A process ends by itself, by SIGTERM or by SIGKILL. *)
Exit(p) ==
  /\ os[p] \in {"alive", "killed"}
  /\ os' = [os EXCEPT ![p] = "dead"]
  /\ UNCHANGED <<requestVars, cache, info, cleanups, history>>

(* The "error" event of a failed spawn. *)
OnError(p) ==
  /\ os[p] = "unborn" /\ info[p] = "running"
  /\ info' = [info EXCEPT ![p] = "failed"]
  /\ UNCHANGED <<requestVars, cache, os, cleanups, history>>

(* The "close" event: the process is gone and so is everybody who held its *)
(* output.  It may follow "error".                                         *)
OnClose(p) ==
  /\ \/ os[p] = "dead" /\ info[p] = "running"
     \/ os[p] = "unborn" /\ info[p] = "failed"
  /\ info' = [info EXCEPT ![p] = "exited"]
  /\ UNCHANGED <<requestVars, cache, os, cleanups, history>>

(* process.list prunes as well. *)
List ==
  /\ \E old \in SUBSET Forgettable : old # {} /\ info' = Forget(old)
  /\ UNCHANGED <<requestVars, cache, os, cleanups, history>>

(* cleanupManagedProcessesForRun with force, the only way it is called:    *)
(* no await on the way but of settled promises.                            *)
Cleanup ==
  /\ cleanups < MaxCleanups
  /\ cleanups' = cleanups + 1
  /\ os' = [p \in Processes |-> IF info[p] = "running" THEN Killed(p) ELSE os[p]]
  /\ \E old \in SUBSET Forgettable : info' = Forget(old)
  /\ UNCHANGED <<requestVars, cache, ran, excused>>

-----------------------------------------------------------------------------
RequestStep(r) ==
  \/ AnswerHit(r) \/ Answer(r)
  \/ StartPrepare(r) \/ StartFails(r) \/ Spawn(r)
  \/ StopUnknown(r) \/ StopOver(r) \/ StopForced(r) \/ StopAsked(r)
  \/ StopSeen(r) \/ StopGrace(r)

Next ==
  \/ \E r \in Requests : RequestStep(r) \/ \E k \in Keys : Arrive(r, k)
  \/ \E p \in Processes : Exit(p) \/ OnError(p) \/ OnClose(p)
  \/ Expire \/ List \/ Cleanup

Spec == Init /\ [][Next]_vars

-----------------------------------------------------------------------------
(* Properties.                                                             *)

(* A process that is alive is in the table and marked running, so that     *)
(* process.list shows it and stop and cleanup reach it.                    *)
AliveIsListed == \A p \in Processes : os[p] = "alive" => info[p] = "running"

(* Once process.stop has answered, from the cache or not, its process is   *)
(* gone or has SIGKILL on its way, whichever of the interval, the timeout  *)
(* and the close event came first.                                         *)
StoppedIsOver ==
  \A r \in Requests :
    at[r] = "done" /\ key[r] \in StopKeys /\ reply[r] # None /\ ok[reply[r]]
      => os[target[key[r]]] # "alive"

(* A key executes its tool once: a second execution needs that the first   *)
(* was under way, had failed, or that its answer had expired or been       *)
(* evicted as the oldest.                                                  *)
OncePerKey ==
  \A q, r \in ran : key[q] = key[r] /\ q # r => key[q] \in excused
=============================================================================
