--------------------------- MODULE AssistantReply ---------------------------
(***************************************************************************)
(* GenerateAssistantReply, the activity that answers a turn: the loop of   *)
(* model calls and tool batches with its reprompt counters, the recovery   *)
(* of web research, and the ways it posts a reply and reports the run.     *)
(*                                                                         *)
(* A call of generateWithRetry (LLMRetry) and of autoDeepenWebResearch     *)
(* (WebResearch) is one step here, known by its outcome.  Text is kept as  *)
(* far as it steers the loop: what parses as tool calls, what promises or  *)
(* narrates work, whether it cites enough links.  Tool results are kept as *)
(* the number of usable sources: an extraction can add one, and a later    *)
(* one of the same page can take it away.                                  *)
(***************************************************************************)
EXTENDS Naturals, Sequences

CONSTANTS MaxToolIterations,     \* defaultMaxToolIterations
          MaxResearchIterations, \* webResearchMaxIterations
          MaxToolCalls,          \* maxToolCalls
          MaxToolIntent,         \* maxToolIntentReprompts
          MaxToolRecovery,       \* maxToolRecoveryReprompts
          MaxNoContent,          \* maxNoContentReprompts
          MaxWebResearch,        \* maxWebResearchReprompts
          MinimumItems           \* sources the research request asks for

(* No limit is reached by empty answers alone. *)
ASSUME ReplyAssumption ==
  /\ {MaxToolIterations, MaxResearchIterations, MaxToolCalls, MaxToolIntent,
      MaxToolRecovery, MaxNoContent, MaxWebResearch, MinimumItems} \subseteq Nat
  /\ MaxNoContent < MaxToolIterations /\ MaxNoContent < MaxResearchIterations
  /\ MinimumItems >= 3

VARIABLES
  request,    \* the tool runner is configured; the request needs tools, research
  pc,         \* "start", "generate", "deepen", "decide", "post", "report", "verdict",
              \* "cleanup", "title", "done"
  why,        \* at "deepen" and "decide": what is to be decided
  iteration,  \* completed passes of the loop
  intent, recovery, noContent, web,   \* the reprompt counters
  auto,       \* autoWebResearchRecoveryAttempted
  recovered,  \* the recovery brought calls
  executed,   \* successfulToolCalls is not empty
  sources,    \* usable sources among them
  hadErrors,  \* hadToolErrors
  pending,    \* pendingToolBlock: the pass whose reply left it, 0 when ""
  end,        \* the reply, the statuses and the reason it is about to report
  log,        \* its reports so far, each as often as the store has it
  failed,     \* a call of its closing reports failed
  result,     \* what the activity returned
  replied,    \* the last pass whose model call was answered, 0 before
  deepened    \* history: recoveries run

counters == <<intent, recovery, noContent, web>>
evidence == <<executed, sources, hadErrors>>
research == <<auto, recovered, deepened>>
vars == <<request, pc, why, iteration, counters, research, evidence, pending,
          end, log, failed, result, replied>>

Reasons ==
  {"success", "max_iterations", "partial_tool_errors", "research_evidence_complete",
   "insufficient_web_research_evidence", "llm_no_content_after_tools", "llm_no_content",
   "llm_transient_after_tools", "llm_transient_error", "invalid_tool_payload",
   "missing_tool_calls"}
Statuses == {"completed", "partial"}

MustExecute == request.runner /\ request.needs

(* deriveWebResearchRequirements. *)
Research == MustExecute /\ request.browse

Limit == IF Research THEN MaxResearchIterations ELSE MaxToolIterations

(* summarizeWebResearchEvidenceForRequest counts entries that are one per  *)
(* address, so distinct sources and extracts are one number.               *)
RequiredExtracts == IF MinimumItems \div 2 < 2 THEN 2 ELSE MinimumItems \div 2
Sufficient == Research /\ sources >= MinimumItems /\ sources >= RequiredExtracts

(* shouldRepromptForWebResearch. *)
TooThin(links) == sources < MinimumItems \/ sources < RequiredExtracts \/ ~links

TypeOK ==
  /\ request \in [runner : BOOLEAN, needs : BOOLEAN, browse : BOOLEAN, titled : BOOLEAN]
  /\ pc \in {"start", "generate", "deepen", "decide", "post", "report", "verdict", "cleanup",
            "title", "done"}
  /\ why \in {"none", "prose", "batch", "noContent", "transient", "missing", "narrative",
             "budget", "limit"}
  /\ iteration \in 0..Limit
  /\ intent \in 0..MaxToolIntent /\ recovery \in 0..MaxToolRecovery
  /\ noContent \in 0..MaxNoContent /\ web \in 0..MaxWebResearch + 1
  /\ auto \in BOOLEAN /\ recovered \in BOOLEAN /\ deepened \in 0..1
  /\ executed \in BOOLEAN /\ hadErrors \in BOOLEAN
  /\ sources \in 0..MinimumItems /\ (sources > 0 => executed)
  /\ pending \in 0..Limit /\ replied \in 0..Limit
  /\ end \in [text : {"empty", "model", "synthesis", "deterministic", "summary", "fallback"},
              step : Statuses, status : Statuses, reason : Reasons \union {"none"},
              title : BOOLEAN]
  /\ log \in Seq({"step.started", "message", "document", "step.completed", "step.partial",
                  "step.failed", "run.completed", "run.partial", "run.failed", "cleanup",
                  "title"})
  /\ failed \in BOOLEAN
  /\ result \in {"none", "nil", "error"}

Init ==
  /\ request \in [runner : BOOLEAN, needs : BOOLEAN, browse : BOOLEAN, titled : BOOLEAN]
  /\ pc = "start" /\ why = "none" /\ iteration = 0
  /\ intent = 0 /\ recovery = 0 /\ noContent = 0 /\ web = 0
  /\ auto = FALSE /\ recovered = FALSE /\ deepened = 0
  /\ executed = FALSE /\ sources = 0 /\ hadErrors = FALSE
  /\ pending = 0 /\ replied = 0
  /\ end = [text |-> "empty", step |-> "partial", status |-> "partial", reason |-> "none",
            title |-> FALSE]
  /\ log = <<>> /\ failed = FALSE /\ result = "none"

-----------------------------------------------------------------------------
(* The endings.                                                            *)

Return(r) == pc' = "done" /\ result' = r

(* Mutant: enough sources excuse the tools that failed. *)
StatusExcused == IF hadErrors /\ ~Sufficient THEN "partial" ELSE "completed"

(* ternaryStatus. *)
Status == IF hadErrors THEN "partial" ELSE "completed"

(* composeBestEffortFinalResponse: the model's synthesis, when it may come *)
(* and is good enough, else a summary; nothing without evidence.           *)
BestEffort ==
  IF ~executed THEN {"empty"}
  ELSE {"synthesis", IF Research THEN "deterministic" ELSE "summary"}

(* enforceResearchQualityFallback: a research answer of low quality becomes *)
(* the deterministic summary, which is never empty.  The request counts as  *)
(* research here even when no tool runner is configured.                    *)
Enforced(text) ==
  IF request.needs /\ request.browse
  THEN {"deterministic"} \union ({text} \ {"empty"}) ELSE {text}

(* Ends the turn with a reply, a step status, a run status and a reason.   *)
EndWith(texts, step, status, reason, title) ==
  /\ \E text \in texts :
       end' = [text |-> text, step |-> step, status |-> status, reason |-> reason,
               title |-> title]
  /\ pc' = "post"
  /\ UNCHANGED <<why, iteration, auto>>

Composed == UNION {Enforced(text) : text \in BestEffort}

(* Enough sources: research is over. *)
EndResearch ==
  EndWith(BestEffort, Status, Status,
          IF hadErrors THEN "partial_tool_errors" ELSE "research_evidence_complete", TRUE)

(* The model fails after tools were run.  The step's status is taken before *)
(* the run's can still become partial.                                      *)
EndAfterTools(reason) ==
  LET thin == Research /\ ~Sufficient IN
  EndWith(Composed, Status, IF thin \/ hadErrors THEN "partial" ELSE "completed",
          CASE thin -> "insufficient_web_research_evidence"
            [] ~thin /\ hadErrors -> "partial_tool_errors"
            [] ~thin /\ ~hadErrors /\ Research -> "research_evidence_complete"
            [] OTHER -> reason,
          TRUE)

EndInsufficient ==
  EndWith({"deterministic"}, "partial", "partial", "insufficient_web_research_evidence", TRUE)

EndPartial(reason, title) == EndWith({"fallback"}, "partial", "partial", reason, title)

(* A plain answer.  In research the deterministic summary replaces it. *)
EndAnswer ==
  EndWith(IF Research THEN {"deterministic"} ELSE Enforced("model"), Status, Status,
          IF hadErrors THEN "partial_tool_errors" ELSE "success", TRUE)

(* The loop is exhausted; an answer that was only tool blocks is empty. *)
EndLimit ==
  EndWith(IF Research THEN {"deterministic"}
          ELSE UNION {Enforced(text) : text \in
                 {"model"} \union IF executed THEN BestEffort ELSE {"fallback"}},
          Status, Status,
          CASE hadErrors /\ Research -> "partial_tool_errors"
            [] hadErrors /\ ~Research -> "max_iterations"
            [] ~hadErrors /\ Research -> "research_evidence_complete"
            [] OTHER -> "success",
          TRUE)

-----------------------------------------------------------------------------
(* The loop.                                                               *)

(* What deciding a branch leaves alone. *)
steady == <<request, recovery, noContent, recovered, deepened, evidence, pending, log,
            failed, result, replied>>

(* Mutant: the pass is not counted. *)
ContinueFree ==
  pc' = "generate" /\ why' = "none" /\ UNCHANGED <<iteration, auto, end>>

(* The next pass. *)
Continue ==
  iteration' = iteration + 1 /\ pc' = "generate" /\ why' = "none" /\ UNCHANGED <<auto, end>>

Decide(w) == pc' = "decide" /\ why' = w /\ UNCHANGED <<iteration, end>>

(* Sends the branch w through autoDeepenWebResearch. *)
DeepenFor(w) == pc' = "deepen" /\ why' = w /\ auto' = TRUE /\ UNCHANGED <<iteration, end>>

(* The activity starts: the messages, the settings and the providers are   *)
(* read; a conversation without text returns at once.  A failed answer of  *)
(* the control plane to run.failed is dropped.  Here as in Fatal the log   *)
(* has the step's event once, whatever the store has of it.                *)
Start ==
  /\ pc = "start"
  /\ \/ pc' = "generate" /\ log' = <<"step.started">> /\ UNCHANGED result
     \/ Return("nil") /\ UNCHANGED log
     \/ Return("error") /\ log' \in {log, <<"run.failed">>}
  /\ UNCHANGED <<request, why, iteration, counters, research, evidence, pending, end, failed,
                 replied>>

Generating == pc = "generate" /\ iteration < Limit

(* Mutant: the recovery is not tried only once. *)
AfterFailureAgain(w) ==
  IF executed /\ Research /\ ~Sufficient THEN DeepenFor(w)
  ELSE Decide(w) /\ UNCHANGED auto

(* The model fails for the turn: what tools found is still to be used.     *)
AfterFailure(w) ==
  IF executed /\ Research /\ ~Sufficient /\ ~auto THEN DeepenFor(w)
  ELSE Decide(w) /\ UNCHANGED auto

NoContent ==
  /\ Generating
  /\ \/ noContent < MaxNoContent /\ noContent' = noContent + 1 /\ Continue
     \/ noContent = MaxNoContent /\ AfterFailure("noContent") /\ UNCHANGED noContent
  /\ UNCHANGED <<request, intent, recovery, web, recovered, deepened, evidence, pending,
                 log, failed, result, replied>>

Transient ==
  /\ Generating
  /\ AfterFailure("transient")
  /\ UNCHANGED <<request, counters, recovered, deepened, evidence, pending, log, failed,
                 result, replied>>

(* Any other error of the model fails the run; run.failed may be lost.     *)
Fatal ==
  /\ Generating
  /\ Return("error")
  /\ log' \in {log \o <<"step.failed">>, log \o <<"step.failed", "run.failed">>}
  /\ UNCHANGED <<request, why, iteration, counters, research, evidence, pending, end, failed,
                 replied>>

(* A reply taken alone is a set of calls, a closed tool block that is none, *)
(* the beginning of a block, the rest of one, or prose.                     *)
Replies == {"calls", "invalid", "incomplete", "rest", "prose"}

(* parseToolCalls, of the reply appended to the pending block if there is   *)
(* one.  Prose cannot close the block.                                      *)
Parsed(reply) ==
  IF pending = 0 THEN {IF reply = "rest" THEN "prose" ELSE reply}
  ELSE CASE reply \in {"calls", "rest"} -> {"calls", "invalid", "prose"}
         [] reply \in {"invalid", "incomplete"} -> {"invalid", "incomplete", "prose"}
         [] OTHER -> {"incomplete"}

Reply(outcome) ==
  Generating /\ replied' = iteration + 1 /\ \E reply \in Replies : outcome \in Parsed(reply)

(* A tool block with no call in it: one more try.  An incomplete one is     *)
(* kept for the next reply.                                                 *)
ToolBlock ==
  \E outcome \in {"invalid", "incomplete"} :
    /\ Reply(outcome)
    /\ pending' = IF outcome = "incomplete" THEN iteration + 1 ELSE 0
    /\ IF recovery >= MaxToolRecovery
       THEN EndPartial("invalid_tool_payload", FALSE) /\ UNCHANGED recovery
       ELSE recovery' = recovery + 1 /\ Continue
    /\ UNCHANGED <<request, intent, noContent, web, recovered, deepened, evidence, log,
                   failed, result>>

Prose ==
  /\ Reply("prose")
  /\ recovery' = 0 /\ pending' = 0
  /\ Decide("prose")
  /\ UNCHANGED <<request, intent, noContent, web, research, evidence, log, failed, result>>

(* Calls that cannot be run: the model is told so.  The pending block stays. *)
Unavailable ==
  /\ Reply("calls") /\ ~request.runner
  /\ hadErrors' = TRUE
  /\ Continue
  /\ UNCHANGED <<request, counters, recovered, deepened, executed, sources, pending, log,
                 failed, result>>

(* The batch, at most MaxToolCalls of its calls: each runs, or is not       *)
(* allowed or fails.                                                        *)
ToolBatch ==
  /\ Reply("calls") /\ request.runner
  /\ pending' = 0 /\ recovery' = 0
  /\ \E n \in 1..MaxToolCalls : \E ran \in 0..n :
       /\ executed' = (executed \/ ran > 0)
       /\ hadErrors' = (hadErrors \/ ran < n)
       /\ sources' \in {s \in 0..MinimumItems : s <= sources + ran /\ sources <= s + ran}
  /\ Decide("batch")
  /\ UNCHANGED <<request, intent, noContent, web, research, log, failed, result>>

(* autoDeepenWebResearch: the calls it made are evidence. *)
Deepen ==
  /\ pc = "deepen" /\ pc' = "decide"
  /\ recovered' \in BOOLEAN
  /\ executed' = (executed \/ recovered')
  /\ sources' \in IF recovered' THEN 0..MinimumItems ELSE {sources}
  /\ \E error \in BOOLEAN : hadErrors' = (hadErrors \/ error)
  /\ deepened' = deepened + 1
  /\ UNCHANGED <<request, why, iteration, counters, auto, pending, end, log, failed, result,
                 replied>>

-----------------------------------------------------------------------------
(* Decisions.                                                              *)

Deciding(w) == pc = "decide" /\ why = w /\ UNCHANGED steady

KeepIntent == UNCHANGED intent
KeepWeb == UNCHANGED web

(* Mutant: the exit at enough sources is missing. *)
AfterBatchOnly == Deciding("batch") /\ Continue /\ KeepIntent /\ KeepWeb

AfterBatch ==
  /\ Deciding("batch") /\ KeepIntent /\ KeepWeb
  /\ IF Sufficient THEN EndResearch ELSE Continue

(* Prose although a tool has to run first: asked again, then for research   *)
(* the recovery, then given up.                                             *)
NoToolYet ==
  /\ Deciding("prose") /\ MustExecute /\ ~executed /\ KeepWeb
  /\ IF intent < MaxToolIntent
     THEN intent' = intent + 1 /\ Continue
     ELSE /\ KeepIntent
          /\ IF Research /\ ~auto THEN DeepenFor("missing")
             ELSE EndPartial("missing_tool_calls", FALSE)

AfterMissing ==
  /\ Deciding("missing") /\ KeepIntent /\ KeepWeb
  /\ IF ~recovered THEN EndPartial("missing_tool_calls", FALSE)
     ELSE IF Sufficient THEN EndResearch ELSE Continue

(* A reply that only promises work: shouldRepromptToolExecution. *)
Promise ==
  /\ Deciding("prose") /\ MustExecute /\ executed /\ KeepWeb
  /\ intent < MaxToolIntent /\ intent' = intent + 1
  /\ Continue

(* A research answer without the sources or the links: asked again, within  *)
(* a budget that is one larger for a narrative of intentions; the recovery  *)
(* runs at once for such a narrative, and otherwise when the budget is      *)
(* used up.                                                                 *)
Reprompt(budget) == web < budget /\ web' = web + 1 /\ Continue

ThinAnswer ==
  \E links, narrative \in BOOLEAN :
    /\ Deciding("prose") /\ Research /\ executed /\ TooThin(links) /\ KeepIntent
    /\ LET budget == IF narrative THEN MaxWebResearch + 1 ELSE MaxWebResearch IN
       IF narrative /\ ~auto THEN DeepenFor("narrative") /\ KeepWeb
       ELSE IF web < budget THEN Reprompt(budget)
       ELSE KeepWeb /\ IF ~auto THEN DeepenFor("budget") ELSE EndInsufficient

AfterNarrative ==
  /\ Deciding("narrative") /\ KeepIntent
  /\ IF recovered /\ Sufficient THEN EndResearch /\ KeepWeb
     ELSE IF web < MaxWebResearch + 1 THEN Reprompt(MaxWebResearch + 1)
     ELSE EndInsufficient /\ KeepWeb

(* Without enough sources the answer is still too thin. *)
AfterBudget ==
  /\ Deciding("budget") /\ KeepIntent /\ KeepWeb
  /\ IF ~recovered THEN EndInsufficient
     ELSE IF Sufficient THEN EndResearch ELSE Continue

Answer ==
  /\ Deciding("prose") /\ ~(MustExecute /\ ~executed) /\ KeepIntent /\ KeepWeb
  /\ Research => ~TooThin(TRUE)
  /\ EndAnswer

AfterNoContent ==
  /\ Deciding("noContent") /\ KeepIntent /\ KeepWeb
  /\ IF executed THEN EndAfterTools("llm_no_content_after_tools")
     ELSE EndPartial("llm_no_content", TRUE)

AfterTransient ==
  /\ Deciding("transient") /\ KeepIntent /\ KeepWeb
  /\ IF executed THEN EndAfterTools("llm_transient_after_tools")
     ELSE EndPartial("llm_transient_error", FALSE)

(* The passes are used up.  Had no call been answered the activity would    *)
(* return without a word.                                                   *)
Exhausted ==
  /\ pc = "generate" /\ iteration = Limit /\ UNCHANGED steady /\ KeepIntent /\ KeepWeb
  /\ IF replied = 0
     THEN Return("nil") /\ UNCHANGED <<why, iteration, auto, end>>
     ELSE IF Research /\ ~Sufficient /\ ~auto THEN DeepenFor("limit")
     ELSE Decide("limit") /\ UNCHANGED auto

AfterLimit ==
  /\ Deciding("limit") /\ KeepIntent /\ KeepWeb
  /\ IF Research /\ ~Sufficient THEN EndInsufficient ELSE EndLimit

-----------------------------------------------------------------------------
(* The report.                                                             *)

loop == <<why, iteration, counters, research, pending, replied>>
control == <<request, loop, evidence, end>>

(* Once the reply is posted nothing reads the loop's own variables. *)
Leave ==
  /\ why' = "none" /\ iteration' = 0 /\ pending' = 0 /\ replied' = 0
  /\ intent' = 0 /\ recovery' = 0 /\ noContent' = 0 /\ web' = 0
  /\ auto' = FALSE /\ recovered' = FALSE /\ deepened' = 0

(* Mutant: the failed post is overlooked. *)
PostAnyway ==
  /\ pc = "post" /\ pc' = "report" /\ log' \in {log, Append(log, "message")}
  /\ Leave /\ UNCHANGED <<request, evidence, end, failed, result>>

(* maybeCreateResearchDocxArtifact: a reply that reads like a report is    *)
(* also sent to document.create_docx.  What becomes of the call is not     *)
(* looked at.                                                              *)
Document ==
  {<<>>} \union IF request.runner /\ end.text # "fallback" THEN {<<"document">>} ELSE {}

(* postMessage: an empty reply, or a control plane that does not take it or *)
(* whose answer is lost, fails the activity.                                *)
PostMessage ==
  /\ pc = "post"
  /\ \/ end.text # "empty" /\ pc' = "report"
        /\ \E document \in Document : log' = log \o <<"message">> \o document
        /\ UNCHANGED result
     \/ end.text # "empty" /\ Return("error") /\ log' \in {log, Append(log, "message")}
     \/ end.text = "empty" /\ Return("error") /\ UNCHANGED log
  /\ Leave /\ UNCHANGED <<request, evidence, end, failed>>

(* postEvent and then, should the answer not come, appendLocalEvent; no     *)
(* error of either is looked at.  Both may fail, the control plane may drop *)
(* the event that it accepts, and an answer lost means a second copy.       *)
Emit(e) ==
  \/ log' = Append(log, e) /\ UNCHANGED failed
  \/ log' \in {log, Append(log, e), log \o <<e, e>>} /\ failed' = TRUE

Close == IF end.step = "partial" THEN "step.partial" ELSE "step.completed"
Verdict == IF end.status = "partial" THEN "run.partial" ELSE "run.completed"

(* step.completed. *)
CloseStep ==
  pc = "report" /\ Emit(Close) /\ pc' = "verdict" /\ UNCHANGED <<result, control>>

(* postCompletionEvent. *)
Complete ==
  pc = "verdict" /\ Emit(Verdict) /\ pc' = "cleanup" /\ UNCHANGED <<result, control>>

(* Its cleanup of the run's processes, whatever became of the verdict.      *)
Cleanup ==
  /\ pc = "cleanup"
  /\ log' = IF request.runner THEN Append(log, "cleanup") ELSE log
  /\ IF end.title THEN pc' = "title" /\ UNCHANGED result ELSE Return("nil")
  /\ UNCHANGED <<failed, control>>

(* maybeGenerateRunTitle: not over an earlier title, and its failures pass. *)
Title ==
  /\ pc = "title"
  /\ log' \in {log} \union IF request.titled THEN {} ELSE {Append(log, "title")}
  /\ Return("nil")
  /\ UNCHANGED <<failed, control>>

(* The activity has returned. *)
Done == pc = "done" /\ UNCHANGED vars

Branch == AfterBatch \/ NoToolYet \/ AfterMissing \/ Promise \/ ThinAnswer \/ AfterNarrative
          \/ AfterBudget \/ Answer \/ AfterNoContent \/ AfterTransient \/ AfterLimit

Next ==
  \/ Start
  \/ NoContent \/ Transient \/ Fatal \/ ToolBlock \/ Prose \/ Unavailable \/ ToolBatch
  \/ Deepen \/ Exhausted \/ Branch
  \/ PostMessage \/ CloseStep \/ Complete \/ Cleanup \/ Title
  \/ Done

(* The calls of the activity have timeouts: each returns. *)
Spec == Init /\ [][Next]_vars /\ WF_vars(Next)

-----------------------------------------------------------------------------
(* Properties.                                                             *)

InLog(e) == \E i \in DOMAIN log : log[i] = e

Before(a, b) == \A i, j \in DOMAIN log : log[i] = a /\ log[j] = b => i < j

Once(e) == InLog(e) /\ \A i, j \in DOMAIN log : log[i] = e /\ log[j] = e => i = j

(* However the turn ends, the user and the run's row are told consistently. *)
(* An activity that returns nil after it began has posted one reply; what   *)
(* the store then has is the close of its step and after it the verdict of  *)
(* the way it took, no other verdict and no failure, each of the two        *)
(* exactly once unless one of the calls that report them failed.  One that  *)
(* returns an error has not declared the run complete, so that the          *)
(* workflow's HandleRunFailure gives the only verdict.                      *)
Reported ==
  pc = "done" /\ InLog("step.started") =>
    IF result = "error" THEN ~InLog("run.completed") /\ ~InLog("run.partial")
    ELSE /\ Once("message")
         /\ \A i \in DOMAIN log : log[i] \in {"step.started", "message", "document", Close,
                                            Verdict, "cleanup", "title"}
         /\ Before("message", Close) /\ Before("message", Verdict) /\ Before(Close, Verdict)
         /\ ~failed => Once(Close) /\ Once(Verdict)

(* A turn in which a tool call of the loop or of the recovery failed is     *)
(* never declared completed, on none of the fifteen ways out of the loop.   *)
(* The call that makes a document of the posted reply is not one of them:   *)
(* its failure shows nowhere.                                               *)
ErrorsShow == pc = "done" /\ hadErrors => ~InLog("run.completed")

(* A research run is completed only with the sources it was asked for, and  *)
(* never as a plain answer: the exit at enough sources comes first.         *)
ResearchVerdict ==
  pc = "done" /\ Research =>
    /\ InLog("run.completed") => Sufficient /\ end.reason = "research_evidence_complete"
    /\ end.reason # "success"

(* The reprompts, failures and recoveries together end: the activity        *)
(* returns.                                                                 *)
ReplyEnds == <>(pc = "done")
=============================================================================
