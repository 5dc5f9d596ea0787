------------------------ MODULE AssistantReply_proofs ------------------------
(***************************************************************************)
(* Theorems about AssistantReply, for all values of its limits: types with *)
(* the bounds of the counters, one consistent report per turn, and a       *)
(* verdict that the evidence justifies.                                    *)
(***************************************************************************)
EXTENDS AssistantReply, SequenceTheorems, TLAPS

-----------------------------------------------------------------------------
(* What an extension of a sequence keeps.                                  *)

LEMMA Extended ==
  ASSUME NEW S, NEW s \in Seq(S), NEW t \in Seq(S)
  PROVE  /\ s \o t \in Seq(S)
         /\ Len(s \o t) = Len(s) + Len(t)
         /\ \A i \in 1..Len(s) : (s \o t)[i] = s[i]
         /\ \A i \in 1..Len(t) : (s \o t)[Len(s) + i] = t[i]
<1>1. /\ s \o t \in Seq(S) /\ Len(s \o t) = Len(s) + Len(t)
      /\ \A i \in 1..(Len(s) + Len(t)) :
           (s \o t)[i] = IF i <= Len(s) THEN s[i] ELSE t[i - Len(s)]
  BY ConcatProperties
<1>2. Len(s) \in Nat /\ Len(t) \in Nat
  OBVIOUS
<1>3. \A i \in 1..Len(s) : (s \o t)[i] = s[i]
  BY <1>1, <1>2
<1>4. ASSUME NEW i \in 1..Len(t)
      PROVE  (s \o t)[Len(s) + i] = t[i]
  <2>1. Len(s) + i \in 1..(Len(s) + Len(t)) /\ ~(Len(s) + i <= Len(s)) /\ (Len(s) + i) - Len(s) = i
    BY <1>2
  <2> QED
    BY <1>1, <2>1
<1> QED
  BY <1>1, <1>3, <1>4

LEMMA Pair ==
  ASSUME NEW S, NEW a \in S, NEW b \in S
  PROVE  /\ <<a>> \in Seq(S) /\ Len(<<a>>) = 1 /\ <<a>>[1] = a
         /\ <<a, b>> \in Seq(S) /\ Len(<<a, b>>) = 2 /\ <<a, b>>[1] = a /\ <<a, b>>[2] = b
OBVIOUS

-----------------------------------------------------------------------------
(* Types and bounds.  A branch is decided in a pass that is not the last,  *)
(* the recovery runs once, and without an answered call every pass was     *)
(* counted as an empty one.                                                *)

Events == {"step.started", "message", "document", "step.completed", "step.partial", "step.failed",
           "run.completed", "run.partial", "run.failed", "cleanup", "title"}
Texts == {"empty", "model", "synthesis", "deterministic", "summary", "fallback"}
Ends == [text : Texts, step : Statuses, status : Statuses, reason : Reasons \union {"none"},
         title : BOOLEAN]

Turns == [runner : BOOLEAN, needs : BOOLEAN, browse : BOOLEAN, titled : BOOLEAN]

Places ==
  /\ request \in Turns
  /\ pc \in {"start", "generate", "deepen", "decide", "post", "report", "verdict", "cleanup",
            "title", "done"}
  /\ why \in {"none", "prose", "batch", "noContent", "transient", "missing", "narrative",
             "budget", "limit"}
  /\ result \in {"none", "nil", "error"}

Counts ==
  /\ iteration \in 0..Limit
  /\ intent \in 0..MaxToolIntent /\ recovery \in 0..MaxToolRecovery
  /\ noContent \in 0..MaxNoContent /\ web \in 0..MaxWebResearch + 1
  /\ deepened \in 0..1 /\ sources \in 0..MinimumItems
  /\ pending \in 0..Limit /\ replied \in 0..Limit

Flags ==
  auto \in BOOLEAN /\ recovered \in BOOLEAN /\ executed \in BOOLEAN /\ hadErrors \in BOOLEAN

InLoop == pc \in {"start", "generate", "deepen", "decide"}

Bounded ==
  /\ sources > 0 => executed
  /\ recovered => executed
  /\ pc \in {"deepen", "decide"} /\ why # "limit" => iteration < Limit
  /\ deepened = 1 => auto
  /\ pc = "deepen" => auto /\ deepened = 0
  /\ pc \in {"start", "generate"} => why = "none"
  /\ InLoop /\ replied = 0 => why \in {"none", "noContent", "transient"} /\ iteration = noContent

Shape == Places /\ Counts /\ Flags /\ Bounded

LEMMA TypeParts ==
  ASSUME Shape, end \in Ends, log \in Seq(Events), failed \in BOOLEAN
  PROVE  TypeOK
BY DEF Shape, Places, Counts, Flags, Bounded, TypeOK, Ends, Texts, Events, Turns

LEMMA LimitFacts ==
  /\ Limit \in Nat /\ Limit > MaxNoContent
  /\ MaxToolCalls \in Nat /\ MaxToolIntent \in Nat /\ MaxToolRecovery \in Nat
  /\ MaxNoContent \in Nat /\ MaxWebResearch \in Nat /\ MinimumItems \in Nat
BY ReplyAssumption DEF Limit

LEMMA ShapeInit == Init => Shape
<1> SUFFICES ASSUME Init PROVE Shape
  OBVIOUS
<1>1. Places
  BY DEF Init, Places, Turns
<1>2. Counts
  BY LimitFacts DEF Init, Counts
<1>3. Flags
  BY DEF Init, Flags
<1>4. Bounded
  BY DEF Init, Bounded, InLoop
<1> QED
  BY <1>1, <1>2, <1>3, <1>4 DEF Shape

LEMMA ShapeStep ==
  ASSUME Shape, [Next]_vars
  PROVE  Shape'
<1> USE LimitFacts
<1> USE DEF Shape, vars, counters, evidence, research
<1>0. Limit' = Limit
  BY DEF Next, Start, NoContent, Transient, Fatal, ToolBlock, Prose, Unavailable, ToolBatch,
     Deepen, Exhausted, Branch, AfterBatch, NoToolYet, AfterMissing, Promise, ThinAnswer,
     AfterNarrative, AfterBudget, Answer, AfterNoContent, AfterTransient, AfterLimit, Deciding,
     steady, PostMessage, CloseStep, Complete, Cleanup, Title, control, Done, Limit, Research, MustExecute
<1>1. CASE Start
  <2>1. Places'
    BY <1>0, <1>1 DEF Start, Return, Places
  <2>2. Counts'
    BY <1>0, <1>1 DEF Start, Return, Counts, Places
  <2>3. Flags'
    BY <1>0, <1>1 DEF Start, Return, Flags
  <2>4. Bounded'
    BY <1>0, <1>1 DEF Start, Return, Bounded, Places, Counts, InLoop
  <2> QED
    BY <2>1, <2>2, <2>3, <2>4
<1>2. CASE NoContent
  <2>1. Places'
    BY <1>0, <1>2 DEF NoContent, Generating, Continue, AfterFailure, DeepenFor, Decide,
       Places
  <2>2. Counts'
    BY <1>0, <1>2 DEF NoContent, Generating, Continue, AfterFailure, DeepenFor, Decide,
       Counts, Places
  <2>3. Flags'
    BY <1>0, <1>2 DEF NoContent, Generating, Continue, AfterFailure, DeepenFor, Decide,
       Flags
  <2>4. Bounded'
    BY <1>0, <1>2 DEF NoContent, Generating, Continue, AfterFailure, DeepenFor, Decide,
       Bounded, Places, Counts, InLoop
  <2> QED
    BY <2>1, <2>2, <2>3, <2>4
<1>3. CASE Transient
  <2>1. Places'
    BY <1>0, <1>3 DEF Transient, Generating, AfterFailure, DeepenFor, Decide, Places
  <2>2. Counts'
    BY <1>0, <1>3 DEF Transient, Generating, AfterFailure, DeepenFor, Decide, Counts,
       Places
  <2>3. Flags'
    BY <1>0, <1>3 DEF Transient, Generating, AfterFailure, DeepenFor, Decide, Flags
  <2>4. Bounded'
    BY <1>0, <1>3 DEF Transient, Generating, AfterFailure, DeepenFor, Decide, Bounded,
       Places, Counts, InLoop
  <2> QED
    BY <2>1, <2>2, <2>3, <2>4
<1>4. CASE Fatal
  <2>1. Places'
    BY <1>0, <1>4 DEF Fatal, Generating, Return, Places
  <2>2. Counts'
    BY <1>0, <1>4 DEF Fatal, Generating, Return, Counts, Places
  <2>3. Flags'
    BY <1>0, <1>4 DEF Fatal, Generating, Return, Flags
  <2>4. Bounded'
    BY <1>0, <1>4 DEF Fatal, Generating, Return, Bounded, Places, Counts, InLoop
  <2> QED
    BY <2>1, <2>2, <2>3, <2>4
<1>5. CASE ToolBlock
  <2>1. Places'
    BY <1>0, <1>5 DEF ToolBlock, Reply, Generating, EndPartial, EndWith, Continue,
       Places
  <2>2. Counts'
    BY <1>0, <1>5 DEF ToolBlock, Reply, Generating, EndPartial, EndWith, Continue,
       Counts, Places
  <2>3. Flags'
    BY <1>0, <1>5 DEF ToolBlock, Reply, Generating, EndPartial, EndWith, Continue, Flags
  <2>4. Bounded'
    BY <1>0, <1>5 DEF ToolBlock, Reply, Generating, EndPartial, EndWith, Continue,
       Bounded, Places, Counts, InLoop
  <2> QED
    BY <2>1, <2>2, <2>3, <2>4
<1>6. CASE Prose \/ Unavailable
  <2>1. Places'
    BY <1>0, <1>6 DEF Prose, Unavailable, Reply, Generating, Continue, Decide, Places
  <2>2. Counts'
    BY <1>0, <1>6 DEF Prose, Unavailable, Reply, Generating, Continue, Decide, Counts,
       Places
  <2>3. Flags'
    BY <1>0, <1>6 DEF Prose, Unavailable, Reply, Generating, Continue, Decide, Flags
  <2>4. Bounded'
    BY <1>0, <1>6 DEF Prose, Unavailable, Reply, Generating, Continue, Decide, Bounded,
       Places, Counts, InLoop
  <2> QED
    BY <2>1, <2>2, <2>3, <2>4
<1>7. CASE ToolBatch
  <2>1. Places'
    BY <1>0, <1>7 DEF ToolBatch, Reply, Generating, Decide, Places
  <2>2. Counts'
    BY <1>0, <1>7 DEF ToolBatch, Reply, Generating, Decide, Counts, Places
  <2>3. Flags'
    BY <1>0, <1>7 DEF ToolBatch, Reply, Generating, Decide, Flags
  <2>4. Bounded'
    <3>1. PICK n \in 1..MaxToolCalls : \E ran \in 0..n :
            /\ executed' = (executed \/ ran > 0)
            /\ sources' \in {s \in 0..MinimumItems : s <= sources + ran /\ sources <= s + ran}
      BY <1>7 DEF ToolBatch
    <3>2. PICK ran \in 0..n :
            /\ executed' = (executed \/ ran > 0)
            /\ sources' \in {s \in 0..MinimumItems : s <= sources + ran /\ sources <= s + ran}
      BY <3>1
    <3>3. sources' > 0 => sources > 0 \/ ran > 0
      BY <3>2 DEF Counts
    <3>4. (sources' > 0 => executed') /\ (recovered' => executed')
      <4>1. recovered' = recovered
        BY <1>7 DEF ToolBatch
      <4> QED
        BY <3>2, <3>3, <4>1, Zenon DEF Bounded
    <3>5. /\ pc = "generate" /\ iteration < Limit /\ pc' = "decide" /\ why' = "batch"
          /\ iteration' = iteration /\ replied' = iteration + 1 /\ deepened' = deepened
          /\ auto' = auto
      BY <1>7 DEF ToolBatch, Reply, Generating, Decide
    <3> QED
      BY <1>0, <3>4, <3>5 DEF Bounded, InLoop, Counts
  <2> QED
    BY <2>1, <2>2, <2>3, <2>4
<1>8. CASE Deepen
  <2>1. Places'
    BY <1>0, <1>8 DEF Deepen, Places
  <2>2. Counts'
    BY <1>0, <1>8 DEF Deepen, Counts, Places, Bounded
  <2>3. Flags'
    BY <1>0, <1>8 DEF Deepen, Flags
  <2>4. Bounded'
    BY <1>0, <1>8 DEF Deepen, Bounded, Places, Counts, InLoop
  <2> QED
    BY <2>1, <2>2, <2>3, <2>4
<1>9. CASE Exhausted
  <2>1. Places'
    BY <1>0, <1>9 DEF Exhausted, steady, KeepIntent, KeepWeb, Return, DeepenFor, Decide,
       Places
  <2>2. Counts'
    BY <1>0, <1>9 DEF Exhausted, steady, KeepIntent, KeepWeb, Return, DeepenFor, Decide,
       Counts, Places
  <2>3. Flags'
    BY <1>0, <1>9 DEF Exhausted, steady, KeepIntent, KeepWeb, Return, DeepenFor, Decide,
       Flags
  <2>4. Bounded'
    BY <1>0, <1>9 DEF Exhausted, steady, KeepIntent, KeepWeb, Return, DeepenFor, Decide,
       Bounded, Places, Counts, InLoop
  <2> QED
    BY <2>1, <2>2, <2>3, <2>4
<1>10. CASE Branch
  <2> USE DEF Deciding, steady, KeepIntent, KeepWeb, Continue, DeepenFor, EndWith
  <2>1. CASE AfterBatch \/ AfterMissing \/ AfterBudget
    <3>1. Places'
      BY <1>0, <2>1 DEF AfterBatch, AfterMissing, AfterBudget, EndResearch, EndPartial,
         EndInsufficient, Places
    <3>2. Counts'
      BY <1>0, <2>1 DEF AfterBatch, AfterMissing, AfterBudget, EndResearch, EndPartial,
         EndInsufficient, Counts, Places,
         Bounded, InLoop
    <3>3. Flags'
      BY <1>0, <2>1 DEF AfterBatch, AfterMissing, AfterBudget, EndResearch, EndPartial,
         EndInsufficient, Flags
    <3>4. Bounded'
      BY <1>0, <2>1 DEF AfterBatch, AfterMissing, AfterBudget, EndResearch, EndPartial,
         EndInsufficient, Bounded, Places, Counts, InLoop
    <3> QED
      BY <3>1, <3>2, <3>3, <3>4
  <2>2. CASE NoToolYet \/ Promise
    <3>1. Places'
      BY <1>0, <2>2 DEF NoToolYet, Promise, EndPartial, Places
    <3>2. Counts'
      BY <1>0, <2>2 DEF NoToolYet, Promise, EndPartial, Counts, Places,
         Bounded, InLoop
    <3>3. Flags'
      BY <1>0, <2>2 DEF NoToolYet, Promise, EndPartial, Flags
    <3>4. Bounded'
      BY <1>0, <2>2 DEF NoToolYet, Promise, EndPartial, Bounded, Places, Counts, InLoop
    <3> QED
      BY <3>1, <3>2, <3>3, <3>4
  <2>3. CASE ThinAnswer
    <3>1. Places'
      BY <1>0, <2>3 DEF ThinAnswer, Reprompt, EndInsufficient, Places
    <3>2. Counts'
      BY <1>0, <2>3 DEF ThinAnswer, Reprompt, EndInsufficient, Counts, Places,
         Bounded, InLoop
    <3>3. Flags'
      BY <1>0, <2>3 DEF ThinAnswer, Reprompt, EndInsufficient, Flags
    <3>4. Bounded'
      BY <1>0, <2>3 DEF ThinAnswer, Reprompt, EndInsufficient, Bounded, Places, Counts,
         InLoop
    <3> QED
      BY <3>1, <3>2, <3>3, <3>4
  <2>4. CASE AfterNarrative
    <3>1. Places'
      BY <1>0, <2>4 DEF AfterNarrative, Reprompt, EndResearch, EndInsufficient, Places
    <3>2. Counts'
      BY <1>0, <2>4 DEF AfterNarrative, Reprompt, EndResearch, EndInsufficient, Counts,
         Places,
         Bounded, InLoop
    <3>3. Flags'
      BY <1>0, <2>4 DEF AfterNarrative, Reprompt, EndResearch, EndInsufficient, Flags
    <3>4. Bounded'
      BY <1>0, <2>4 DEF AfterNarrative, Reprompt, EndResearch, EndInsufficient, Bounded,
         Places, Counts, InLoop
    <3> QED
      BY <3>1, <3>2, <3>3, <3>4
  <2>5. CASE Answer \/ AfterNoContent \/ AfterTransient \/ AfterLimit
    <3>1. Places'
      BY <1>0, <2>5 DEF Answer, AfterNoContent, AfterTransient, AfterLimit, EndAnswer,
         EndAfterTools, EndPartial, EndInsufficient, EndLimit, Places
    <3>2. Counts'
      BY <1>0, <2>5 DEF Answer, AfterNoContent, AfterTransient, AfterLimit, EndAnswer,
         EndAfterTools, EndPartial, EndInsufficient, EndLimit, Counts, Places,
         Bounded, InLoop
    <3>3. Flags'
      BY <1>0, <2>5 DEF Answer, AfterNoContent, AfterTransient, AfterLimit, EndAnswer,
         EndAfterTools, EndPartial, EndInsufficient, EndLimit, Flags
    <3>4. Bounded'
      <4>1. /\ pc = "decide" /\ deepened' = deepened /\ recovered' = recovered
            /\ executed' = executed /\ sources' = sources /\ auto' = auto
        BY <2>5 DEF Answer, AfterNoContent, AfterTransient, AfterLimit, EndAnswer,
           EndAfterTools, EndPartial, EndInsufficient, EndLimit
      <4>2. pc' = "post"
        BY <2>5 DEF Answer, AfterNoContent, AfterTransient, AfterLimit, EndAnswer,
           EndAfterTools, EndPartial, EndInsufficient, EndLimit
      <4> QED
        BY <4>1, <4>2 DEF Bounded, InLoop
    <3> QED
      BY <3>1, <3>2, <3>3, <3>4
  <2> QED
    BY <1>10, <2>1, <2>2, <2>3, <2>4, <2>5 DEF Branch
<1>11. CASE PostMessage
  <2>1. Places'
    BY <1>0, <1>11 DEF PostMessage, Leave, Return, Places
  <2>2. Counts'
    BY <1>0, <1>11 DEF PostMessage, Leave, Return, Counts, Places
  <2>3. Flags'
    BY <1>0, <1>11 DEF PostMessage, Leave, Return, Flags
  <2>4. Bounded'
    BY <1>0, <1>11 DEF PostMessage, Leave, Return, Bounded, Places, Counts, InLoop
  <2> QED
    BY <2>1, <2>2, <2>3, <2>4
<1>13. CASE CloseStep \/ Complete \/ Cleanup \/ Title
  <2> USE DEF CloseStep, Complete, Cleanup, Title, control, loop
  <2>1. Places'
    BY <1>0, <1>13 DEF Return, Places
  <2>2. Counts'
    BY <1>0, <1>13 DEF Return, Counts, Places
  <2>3. Flags'
    BY <1>0, <1>13 DEF Return, Flags
  <2>4. Bounded'
    BY <1>0, <1>13 DEF Return, Bounded, Places, Counts, InLoop
  <2> QED
    BY <2>1, <2>2, <2>3, <2>4
<1>12. CASE Done \/ UNCHANGED vars
  <2>1. Places'
    BY <1>0, <1>12 DEF Done, Places
  <2>2. Counts'
    BY <1>0, <1>12 DEF Done, Counts, Places
  <2>3. Flags'
    BY <1>0, <1>12 DEF Done, Flags
  <2>4. Bounded'
    BY <1>0, <1>12 DEF Done, Bounded, Places, Counts, InLoop
  <2> QED
    BY <2>1, <2>2, <2>3, <2>4
<1> QED
  BY <1>1, <1>2, <1>3, <1>4, <1>5, <1>6, <1>7, <1>8, <1>9, <1>10, <1>11, <1>12, <1>13 DEF Next

LEMMA ShapeAlways == Spec => []Shape
BY ShapeInit, ShapeStep, PTL DEF Spec

-----------------------------------------------------------------------------
(* The verdict.  Enough sources are seen at once: only after a batch or a  *)
(* recovery can a decision still find them, and every way to a completed   *)
(* end looks at the errors.                                                *)

Unseen ==
  /\ pc \in {"start", "generate", "deepen"} => ~Sufficient
  /\ pc = "deepen" => why # "prose"
  /\ pc = "decide" /\ why = "prose" => ~Sufficient
  /\ pc = "decide" /\ why = "narrative" /\ ~recovered => ~Sufficient

Judged ==
  /\ end \in Ends
  /\ InLoop => end.status = "partial" /\ end.reason = "none"
  /\ end.status = "completed" => ~hadErrors
  /\ Research /\ end.status = "completed" =>
       Sufficient /\ end.reason = "research_evidence_complete"
  /\ Research => end.reason # "success"

LEMMA JudgedInit == Init => Unseen /\ Judged
<1> SUFFICES ASSUME Init PROVE Unseen /\ Judged
  OBVIOUS
<1>1. Unseen
  BY ReplyAssumption DEF Init, Unseen, Sufficient
<1>2. end \in Ends
  BY DEF Init, Ends, Texts, Statuses
<1> QED
  BY <1>1, <1>2 DEF Init, Judged, InLoop

(* A step inside the loop that neither ends it nor touches the sources.    *)
LEMMA Stays ==
  ASSUME Judged, InLoop, end' = end, UNCHANGED request
  PROVE  Judged'
<1>1. end.status = "partial" /\ end.reason = "none" /\ end \in Ends
  BY DEF Judged
<1> QED
  BY <1>1 DEF Judged

(* What an ending has to show.                                             *)
LEMMA Closes ==
  ASSUME NEW texts, NEW step, NEW status, NEW reason, NEW title,
         EndWith(texts, step, status, reason, title),
         texts \subseteq Texts, step \in Statuses, status \in Statuses, reason \in Reasons,
         title \in BOOLEAN, UNCHANGED <<request, evidence>>,
         status = "completed" => ~hadErrors,
         Research /\ status = "completed" =>
           Sufficient /\ reason = "research_evidence_complete",
         Research => reason # "success"
  PROVE  Unseen' /\ Judged'
<1>1. PICK text \in texts : end' = [text |-> text, step |-> step, status |-> status,
                                    reason |-> reason, title |-> title]
  BY DEF EndWith
<1>2. end' \in Ends
  BY <1>1 DEF Ends
<1>3. end'.status = status /\ end'.reason = reason
  BY <1>1
<1>4. pc' = "post"
  BY DEF EndWith
<1>5. hadErrors' = hadErrors /\ (Research' <=> Research) /\ (Sufficient' <=> Sufficient)
  BY DEF evidence, Research, MustExecute, Sufficient, RequiredExtracts
<1> QED
  BY <1>2, <1>3, <1>4, <1>5 DEF Judged, Unseen, InLoop

LEMMA Bests ==
  /\ BestEffort \subseteq Texts
  /\ \A text \in Texts : Enforced(text) \subseteq Texts
  /\ Composed \subseteq Texts
<1>1. BestEffort \subseteq Texts
  BY DEF BestEffort, Texts
<1>2. \A text \in Texts : Enforced(text) \subseteq Texts
  BY DEF Enforced, Texts
<1> QED
  BY <1>1, <1>2 DEF Composed

LEMMA StatusFacts ==
  Status \in Statuses /\ (Status = "completed" => ~hadErrors)
BY DEF Status, Statuses

LEMMA Named ==
  /\ "partial" \in Statuses /\ "completed" \in Statuses /\ "partial" # "completed"
  /\ {"research_evidence_complete", "partial_tool_errors", "max_iterations", "success",
      "insufficient_web_research_evidence", "llm_no_content_after_tools",
      "llm_transient_after_tools"} \subseteq Reasons
  /\ {"deterministic"} \subseteq Texts /\ {"fallback"} \subseteq Texts
BY DEF Statuses, Reasons, Texts

LEMMA ClosesPartial ==
  ASSUME NEW texts \in SUBSET Texts, NEW step \in Statuses, NEW reason \in Reasons \ {"success"},
         NEW title \in BOOLEAN,
         EndWith(texts, step, "partial", reason, title), UNCHANGED <<request, evidence>>
  PROVE  Unseen' /\ Judged'
BY Closes, Named

LEMMA ClosesCompleted ==
  ASSUME NEW texts \in SUBSET Texts, NEW step \in Statuses, NEW reason \in Reasons,
         EndWith(texts, step, "completed", reason, TRUE), UNCHANGED <<request, evidence>>,
         ~hadErrors, Research => Sufficient /\ reason = "research_evidence_complete"
  PROVE  Unseen' /\ Judged'
BY Closes, Named

(* Each ending, in the state of its decision.                              *)
LEMMA Endings ==
  ASSUME UNCHANGED <<request, evidence>>
  PROVE  /\ EndResearch /\ Sufficient => Unseen' /\ Judged'
         /\ EndInsufficient => Unseen' /\ Judged'
         /\ \A reason \in {"llm_no_content_after_tools", "llm_transient_after_tools"} :
              EndAfterTools(reason) => Unseen' /\ Judged'
         /\ \A reason \in Reasons \ {"success"}, title \in BOOLEAN :
              EndPartial(reason, title) => Unseen' /\ Judged'
         /\ EndAnswer /\ ~Research => Unseen' /\ Judged'
         /\ EndLimit /\ (Research => Sufficient) => Unseen' /\ Judged'
<1>1. ASSUME EndResearch, Sufficient
      PROVE  Unseen' /\ Judged'
  <2>1. CASE hadErrors
    <3>1. EndWith(BestEffort, "partial", "partial", "partial_tool_errors", TRUE)
      BY <1>1, <2>1 DEF EndResearch, Status
    <3> QED
      BY <3>1, ClosesPartial, Bests, Named
  <2>2. CASE ~hadErrors
    <3>1. EndWith(BestEffort, "completed", "completed", "research_evidence_complete", TRUE)
      BY <1>1, <2>2 DEF EndResearch, Status
    <3> QED
      BY <3>1, <1>1, <2>2, ClosesCompleted, Bests, Named
  <2> QED
    BY <2>1, <2>2
<1>2. ASSUME EndInsufficient
      PROVE  Unseen' /\ Judged'
  BY <1>2, ClosesPartial, Named DEF EndInsufficient, Texts
<1>3. ASSUME NEW reason \in {"llm_no_content_after_tools", "llm_transient_after_tools"},
             EndAfterTools(reason)
      PROVE  Unseen' /\ Judged'
  <2>1. CASE Research /\ ~Sufficient
    <3>1. EndWith(Composed, Status, "partial", "insufficient_web_research_evidence", TRUE)
      BY <1>3, <2>1 DEF EndAfterTools
    <3> QED
      BY <3>1, ClosesPartial, Bests, StatusFacts, Named
  <2>2. CASE ~(Research /\ ~Sufficient) /\ hadErrors
    <3>1. EndWith(Composed, Status, "partial", "partial_tool_errors", TRUE)
      BY <1>3, <2>2 DEF EndAfterTools
    <3> QED
      BY <3>1, ClosesPartial, Bests, StatusFacts, Named
  <2>3. CASE Research /\ Sufficient /\ ~hadErrors
    <3>1. EndWith(Composed, Status, "completed", "research_evidence_complete", TRUE)
      BY <1>3, <2>3 DEF EndAfterTools
    <3> QED
      BY <3>1, <2>3, ClosesCompleted, Bests, StatusFacts, Named
  <2>4. CASE ~Research /\ ~hadErrors
    <3>1. EndWith(Composed, Status, "completed", reason, TRUE)
      BY <1>3, <2>4 DEF EndAfterTools
    <3> QED
      BY <3>1, <2>4, ClosesCompleted, Bests, StatusFacts, Named
  <2> QED
    BY <2>1, <2>2, <2>3, <2>4
<1>4. ASSUME NEW reason \in Reasons \ {"success"}, NEW title \in BOOLEAN,
             EndPartial(reason, title)
      PROVE  Unseen' /\ Judged'
  BY <1>4, ClosesPartial, Named DEF EndPartial
<1>5. ASSUME EndAnswer, ~Research
      PROVE  Unseen' /\ Judged'
  <2>1. Enforced("model") \subseteq Texts
    BY Bests DEF Texts
  <2>2. CASE hadErrors
    <3>1. EndWith(Enforced("model"), "partial", "partial", "partial_tool_errors", TRUE)
      BY <1>5, <2>2 DEF EndAnswer, Status
    <3> QED
      BY <3>1, <2>1, ClosesPartial, Named
  <2>3. CASE ~hadErrors
    <3>1. EndWith(Enforced("model"), "completed", "completed", "success", TRUE)
      BY <1>5, <2>3 DEF EndAnswer, Status
    <3> QED
      BY <3>1, <2>1, <1>5, <2>3, ClosesCompleted, Named
  <2> QED
    BY <2>2, <2>3
<1>6. ASSUME EndLimit, Research => Sufficient
      PROVE  Unseen' /\ Judged'
  <2> DEFINE answers == UNION {Enforced(text) : text \in
                          {"model"} \union IF executed THEN BestEffort ELSE {"fallback"}}
             texts == IF Research THEN {"deterministic"} ELSE answers
  <2>1. texts \subseteq Texts
    <3>1. answers \subseteq Texts
      BY Bests DEF Texts
    <3> QED
      BY <3>1 DEF Texts
  <2> HIDE DEF texts
  <2>2. CASE hadErrors
    <3>1. PICK reason \in {"partial_tool_errors", "max_iterations"} :
            EndWith(texts, "partial", "partial", reason, TRUE)
      BY <1>6, <2>2 DEF EndLimit, Status, texts
    <3> QED
      BY <3>1, <2>1, ClosesPartial, Named
  <2>3. CASE ~hadErrors /\ Research
    <3>1. EndWith(texts, "completed", "completed", "research_evidence_complete", TRUE)
      BY <1>6, <2>3 DEF EndLimit, Status, texts
    <3> QED
      BY <3>1, <2>1, <1>6, <2>3, ClosesCompleted, Named
  <2>4. CASE ~hadErrors /\ ~Research
    <3>1. EndWith(texts, "completed", "completed", "success", TRUE)
      BY <1>6, <2>4 DEF EndLimit, Status, texts
    <3> QED
      BY <3>1, <2>1, <2>4, ClosesCompleted, Named
  <2> QED
    BY <2>2, <2>3, <2>4
<1> QED
  BY <1>1, <1>2, <1>3, <1>4, <1>5, <1>6

LEMMA JudgedStep ==
  ASSUME Shape, Unseen, Judged, [Next]_vars
  PROVE  Unseen' /\ Judged'
<1> DEFINE Same == (Sufficient' <=> Sufficient) /\ (Research' <=> Research)
<1>0. ASSUME UNCHANGED <<request, sources>> PROVE Same
  BY <1>0 DEF Sufficient, RequiredExtracts, Research, MustExecute
<1> HIDE DEF Same
<1>1. CASE Start \/ NoContent \/ Transient \/ Fatal \/ Prose \/ Unavailable \/ Exhausted
  <2> USE DEF Start, NoContent, Transient, Fatal, Prose, Unavailable, Exhausted, Return,
       Generating, Reply, Continue, AfterFailure, Decide, DeepenFor, steady, evidence, research
  <2>1. UNCHANGED <<request, sources>>
    BY <1>1
  <2>2. end' = end /\ InLoop
    BY <1>1 DEF InLoop
  <2>3. Judged'
    BY <2>1, <2>2, Stays
  <2>4. ~Sufficient
    BY <1>1 DEF Unseen
  <2>5. ~Sufficient' /\ (pc' = "deepen" => why' # "prose")
    <3>1. Same
      BY <2>1, <1>0
    <3>2. pc' = "deepen" => why' # "prose"
      BY <1>1
    <3> QED
      BY <3>1, <3>2, <2>4 DEF Same
  <2> QED
    BY <2>3, <2>5 DEF Unseen
<1>2. CASE ToolBlock
  <2>1. UNCHANGED <<request, evidence>>
    BY <1>2 DEF ToolBlock, Reply, Generating
  <2>2. PICK title \in BOOLEAN : EndPartial("invalid_tool_payload", title) \/ Continue
    BY <1>2 DEF ToolBlock
  <2>3. CASE Continue
    <3>1. Same
      BY <2>1, <1>0 DEF evidence
    <3>2. InLoop /\ ~Sufficient
      BY <1>2 DEF ToolBlock, Reply, Generating, InLoop, Unseen
    <3>3. Unseen'
      BY <2>3, <3>1, <3>2 DEF Continue, Unseen, Same
    <3> QED
      BY <2>1, <2>3, <3>2, <3>3, Stays DEF Continue
  <2> QED
    BY <2>1, <2>2, <2>3, Endings DEF Reasons
<1>3. CASE ToolBatch
  <2>1. UNCHANGED request /\ end' = end /\ InLoop /\ pc' = "decide" /\ why' = "batch"
    BY <1>3 DEF ToolBatch, Reply, Generating, Decide, InLoop
  <2> QED
    BY <2>1, Stays DEF Unseen
<1>4. CASE Deepen
  <2>1. UNCHANGED <<request, why>> /\ end' = end /\ InLoop /\ pc = "deepen" /\ pc' = "decide"
    BY <1>4 DEF Deepen, InLoop
  <2>2. ~recovered' => ~Sufficient'
    <3>1. ~recovered' => sources' = sources
      BY <1>4 DEF Deepen
    <3> QED
      BY <2>1, <3>1, <1>0 DEF Unseen, Same
  <2> QED
    BY <2>1, <2>2, Stays DEF Unseen
<1>5. CASE Branch
  <2>1. UNCHANGED <<request, evidence>> /\ pc = "decide"
    BY <1>5 DEF Branch, AfterBatch, NoToolYet, AfterMissing, Promise, ThinAnswer,
       AfterNarrative, AfterBudget, Answer, AfterNoContent, AfterTransient, AfterLimit,
       Deciding, steady
  <2>2. ASSUME Continue \/ (\E w \in {"missing", "narrative", "budget"} : DeepenFor(w)),
               ~Sufficient
        PROVE  Unseen' /\ Judged'
    <3>1. Same
      BY <2>1, <1>0 DEF evidence
    <3>2. /\ end' = end /\ (pc' = "deepen" => why' # "prose")
          /\ pc' \in {"generate", "deepen"}
      BY <2>2 DEF Continue, DeepenFor
    <3> QED
      BY <2>1, <2>2, <3>1, <3>2, Stays DEF InLoop, Unseen, Same
  <2>3. CASE AfterBatch
    BY <2>1, <2>2, <2>3, Endings DEF AfterBatch
  <2>4. CASE NoToolYet
    BY <2>1, <2>2, <2>4, Endings DEF NoToolYet, Deciding, Unseen, Reasons
  <2>5. CASE AfterMissing
    BY <2>1, <2>2, <2>5, Endings DEF AfterMissing, Reasons
  <2>6. CASE Promise
    BY <2>2, <2>6 DEF Promise, Deciding, Unseen
  <2>7. CASE ThinAnswer
    BY <2>1, <2>2, <2>7, Endings DEF ThinAnswer, Reprompt, Deciding, Unseen
  <2>8. CASE AfterNarrative
    BY <2>1, <2>2, <2>8, Endings DEF AfterNarrative, Reprompt, Deciding, Unseen
  <2>9. CASE AfterBudget
    BY <2>1, <2>2, <2>9, Endings DEF AfterBudget
  <2>10. CASE Answer
    <3>1. ~Research
      <4>1. RequiredExtracts \in Nat
        BY LimitFacts DEF RequiredExtracts
      <4>2. Research => sources >= MinimumItems /\ sources >= RequiredExtracts
        BY <2>10, <4>1, LimitFacts DEF Answer, TooThin, Shape, Counts
      <4> QED
        BY <2>10, <4>2 DEF Answer, Deciding, Unseen, Sufficient
    <3> QED
      BY <2>1, <2>10, <3>1, Endings DEF Answer
  <2>11. CASE AfterNoContent
    BY <2>1, <2>11, Endings DEF AfterNoContent, Reasons
  <2>12. CASE AfterTransient
    BY <2>1, <2>12, Endings DEF AfterTransient, Reasons
  <2>13. CASE AfterLimit
    BY <2>1, <2>13, Endings DEF AfterLimit
  <2> QED
    BY <1>5, <2>3, <2>4, <2>5, <2>6, <2>7, <2>8, <2>9, <2>10, <2>11, <2>12, <2>13 DEF Branch
<1>6. CASE PostMessage \/ CloseStep \/ Complete \/ Cleanup \/ Title
  <2>1. UNCHANGED <<request, sources, hadErrors, end>>
    BY <1>6 DEF PostMessage, CloseStep, Complete, Cleanup, Title, control, evidence
  <2>2. pc' \in {"report", "verdict", "cleanup", "title", "done"}
    BY <1>6 DEF PostMessage, CloseStep, Complete, Cleanup, Title, Return
  <2>3. Same
    BY <2>1, <1>0
  <2> QED
    BY <2>1, <2>2, <2>3 DEF Unseen, Judged, InLoop, Same
<1>7. CASE Done \/ UNCHANGED vars
  <2>1. UNCHANGED <<request, sources, hadErrors, end, why, recovered, pc>>
    BY <1>7 DEF Done, vars, evidence, research
  <2>2. Same
    BY <2>1, <1>0
  <2> QED
    BY <2>1, <2>2 DEF Unseen, Judged, InLoop, Same
<1> QED
  BY <1>1, <1>2, <1>3, <1>4, <1>5, <1>6, <1>7 DEF Next

-----------------------------------------------------------------------------
(* The report.                                                             *)

Rows(S) == \A i \in DOMAIN log : log[i] \in S

(* What a log has that grew by t.                                          *)
LEMMA Grows ==
  ASSUME log \in Seq(Events), NEW t \in Seq(Events), log' = log \o t
  PROVE  /\ log' \in Seq(Events)
         /\ \A i \in DOMAIN log' :
              \/ i \in DOMAIN log /\ log'[i] = log[i]
              \/ \E k \in DOMAIN t : i = Len(log) + k /\ log'[i] = t[k]
         /\ \A i \in DOMAIN log : i \in DOMAIN log' /\ log'[i] = log[i]
         /\ \A k \in DOMAIN t : Len(log) + k \in DOMAIN log' /\ log'[Len(log) + k] = t[k]
         /\ \A i \in DOMAIN log, k \in DOMAIN t : i < Len(log) + k
<1>1. /\ log' \in Seq(Events) /\ Len(log') = Len(log) + Len(t)
      /\ \A i \in 1..Len(log) : log'[i] = log[i]
      /\ \A k \in 1..Len(t) : log'[Len(log) + k] = t[k]
  BY Extended
<1>2. /\ Len(log) \in Nat /\ Len(t) \in Nat
      /\ DOMAIN log = 1..Len(log) /\ DOMAIN t = 1..Len(t) /\ DOMAIN log' = 1..Len(log')
  BY <1>1
<1>3. ASSUME NEW i \in DOMAIN log'
      PROVE  \/ i \in DOMAIN log /\ log'[i] = log[i]
             \/ \E k \in DOMAIN t : i = Len(log) + k /\ log'[i] = t[k]
  <2>1. CASE i \in 1..Len(log)
    BY <1>1, <1>2, <2>1
  <2>2. CASE i \notin 1..Len(log)
    <3>1. i - Len(log) \in 1..Len(t) /\ i = Len(log) + (i - Len(log))
      BY <1>1, <1>2, <2>2
    <3> QED
      BY <1>1, <1>2, <3>1
  <2> QED
    BY <2>1, <2>2
<1> QED
  BY <1>1, <1>2, <1>3

(* What holds of the events in it.                                         *)
LEMMA Kept ==
  ASSUME log \in Seq(Events), NEW t \in Seq(Events), log' = log \o t
  PROVE  /\ \A x : InLog(x)' <=> InLog(x) \/ \E k \in DOMAIN t : t[k] = x
         /\ \A x : Once(x) /\ (\A k \in DOMAIN t : t[k] # x) => Once(x)'
         /\ \A x : ~InLog(x) /\ (\E k \in DOMAIN t : t[k] = x /\ \A l \in DOMAIN t : t[l] = x => l = k)
                     => Once(x)'
         /\ \A a, b : Before(a, b) /\ (\A k \in DOMAIN t : t[k] # a) => Before(a, b)'
         /\ \A a, b : ~InLog(b) /\ (\A k \in DOMAIN t : t[k] # b) => Before(a, b)'
<1>1. /\ \A i \in DOMAIN log' :
           \/ i \in DOMAIN log /\ log'[i] = log[i]
           \/ \E k \in DOMAIN t : i = Len(log) + k /\ log'[i] = t[k]
      /\ \A i \in DOMAIN log : i \in DOMAIN log' /\ log'[i] = log[i]
      /\ \A k \in DOMAIN t : Len(log) + k \in DOMAIN log' /\ log'[Len(log) + k] = t[k]
      /\ \A i \in DOMAIN log, k \in DOMAIN t : i < Len(log) + k
  BY Grows
<1>2. ASSUME NEW x
      PROVE  InLog(x)' <=> InLog(x) \/ \E k \in DOMAIN t : t[k] = x
  <2>1. ASSUME NEW i \in DOMAIN log', log'[i] = x
        PROVE  InLog(x) \/ \E k \in DOMAIN t : t[k] = x
    BY <1>1, <2>1 DEF InLog
  <2>2. InLog(x) => \E i \in DOMAIN log' : log'[i] = x
    BY <1>1 DEF InLog
  <2>3. ASSUME NEW k \in DOMAIN t, t[k] = x
        PROVE  \E i \in DOMAIN log' : log'[i] = x
    BY <1>1, <2>3
  <2> QED
    BY <2>1, <2>2, <2>3 DEF InLog
<1>3. ASSUME NEW x, Once(x), \A k \in DOMAIN t : t[k] # x
      PROVE  Once(x)'
  <2>1. \A i \in DOMAIN log' : log'[i] = x => i \in DOMAIN log /\ log[i] = x
    BY <1>1, <1>3
  <2> QED
    BY <1>2, <1>3, <2>1 DEF Once
<1>4. ASSUME NEW x, ~InLog(x), NEW k \in DOMAIN t, t[k] = x,
             \A l \in DOMAIN t : t[l] = x => l = k
      PROVE  Once(x)'
  <2>1. \A i \in DOMAIN log' : log'[i] = x => i = Len(log) + k
    BY <1>1, <1>4 DEF InLog
  <2> QED
    BY <1>2, <1>4, <2>1 DEF Once
<1>5. ASSUME NEW a, NEW b, Before(a, b), \A k \in DOMAIN t : t[k] # a
      PROVE  Before(a, b)'
  <2>1. \A i \in DOMAIN log' : log'[i] = a => i \in DOMAIN log /\ log[i] = a
    BY <1>1, <1>5
  <2> QED
    BY <1>1, <1>5, <2>1 DEF Before
<1>6. ASSUME NEW a, NEW b, ~InLog(b), \A k \in DOMAIN t : t[k] # b
      PROVE  Before(a, b)'
  BY <1>2, <1>6 DEF Before, InLog
<1> QED
  BY <1>2, <1>3, <1>4, <1>5, <1>6

Words == {"step.started", "message", "document", Close, Verdict, "cleanup", "title"}

Posted ==
  /\ Once("message") /\ Rows(Words)
  /\ Before("message", Close) /\ Before("message", Verdict) /\ Before(Close, Verdict)

(* How far the closing reports are. *)
Closed == ~failed => Once(Close)
Decided == ~failed => Once(Verdict)
Undecided == ~InLog("run.completed") /\ ~InLog("run.partial")

Logged ==
  /\ log \in Seq(Events) /\ failed \in BOOLEAN
  /\ pc = "start" => log = <<>>
  /\ pc \in {"generate", "deepen", "decide", "post"} => log = <<"step.started">>
  /\ pc \in {"report", "verdict", "cleanup", "title"} => Posted
  /\ pc = "report" => ~InLog(Close)
  /\ pc \in {"report", "verdict"} => ~InLog(Verdict)
  /\ pc \in {"verdict", "cleanup", "title"} => Closed
  /\ pc \in {"cleanup", "title"} => Decided
  /\ pc = "done" => result \in {"nil", "error"}
  /\ pc = "done" /\ result = "error" => Undecided
  /\ pc = "done" /\ result = "nil" => log = <<>> \/ (Posted /\ Closed /\ Decided)

LEMMA WordFacts ==
  /\ Close \in {"step.partial", "step.completed"} /\ Verdict \in {"run.partial", "run.completed"}
  /\ Words \subseteq Events
BY DEF Close, Verdict, Words, Events

LEMMA Few ==
  ASSUME NEW e \in Events
  PROVE  /\ <<>> \in Seq(Events) /\ DOMAIN <<>> = {}
         /\ <<e>> \in Seq(Events) /\ DOMAIN <<e>> = {1} /\ <<e>>[1] = e
         /\ <<e, e>> \in Seq(Events) /\ DOMAIN <<e, e>> = {1, 2}
         /\ <<e, e>>[1] = e /\ <<e, e>>[2] = e
OBVIOUS

LEMMA Two ==
  ASSUME NEW a \in Events, NEW b \in Events
  PROVE  \E t \in Seq(Events) : t = <<a, b>> /\ DOMAIN t = {1, 2} /\ t[1] = a /\ t[2] = b
<1>1. <<a, b>> \in Seq(Events) /\ Len(<<a, b>>) = 2 /\ <<a, b>>[1] = a /\ <<a, b>>[2] = b
  BY Pair
<1>2. DOMAIN <<a, b>> = {1, 2}
  BY <1>1
<1> QED
  BY <1>1, <1>2

LEMMA Tails ==
  ASSUME log \in Seq(Events), NEW e \in Events, NEW l,
         l \in {log, Append(log, e), log \o <<e, e>>}
  PROVE  \E t \in Seq(Events) : l = log \o t /\ \A k \in DOMAIN t : t[k] = e
<1>1. CASE l = log
  <2>1. PICK t \in Seq(Events) : t = <<>> /\ DOMAIN t = {}
    BY Few
  <2>2. l = log \o t
    BY <1>1, <2>1
  <2> QED
    BY <2>1, <2>2
<1>2. CASE l = Append(log, e)
  <2>1. PICK t \in Seq(Events) : t = <<e>> /\ DOMAIN t = {1} /\ t[1] = e
    BY Few
  <2>2. l = log \o t
    BY <1>2, <2>1, AppendIsConcat
  <2> QED
    BY <2>1, <2>2
<1>3. CASE l = log \o <<e, e>>
  <2>1. PICK t \in Seq(Events) : t = <<e, e>> /\ DOMAIN t = {1, 2} /\ t[1] = e /\ t[2] = e
    BY Few
  <2> QED
    BY <1>3, <2>1
<1> QED
  BY <1>1, <1>2, <1>3

(* A report of the closing phase. *)
LEMMA PostedGrows ==
  ASSUME log \in Seq(Events), Posted, NEW t \in Seq(Events), log' = log \o t, end' = end,
         NEW e \in Words \ {"message"}, \A k \in DOMAIN t : t[k] = e,
         e = Close => ~InLog(Verdict)
  PROVE  /\ log' \in Seq(Events) /\ Posted' /\ Close' = Close /\ Verdict' = Verdict
         /\ \A x : x # e => (InLog(x)' <=> InLog(x)) /\ (Once(x) => Once(x)')
<1>1. Close' = Close /\ Verdict' = Verdict /\ Words' = Words
  BY DEF Close, Verdict, Words
<1>2. /\ log' \in Seq(Events)
      /\ \A i \in DOMAIN log' :
           \/ i \in DOMAIN log /\ log'[i] = log[i]
           \/ \E k \in DOMAIN t : i = Len(log) + k /\ log'[i] = t[k]
  BY Grows
<1>3. \A x : x # e => (InLog(x)' <=> InLog(x)) /\ (Once(x) => Once(x)')
  BY Kept
<1>4. Rows(Words)'
  BY <1>1, <1>2 DEF Rows, Posted
<1>5. Once("message")'
  BY <1>3 DEF Posted
<1>6. \A b : Before("message", b) => Before("message", b)'
  BY Kept
<1>7. Before(Close, Verdict)'
  <2>1. CASE e = Close
    <3>1. ~InLog(Verdict) /\ \A k \in DOMAIN t : t[k] # Verdict
      BY <2>1, WordFacts
    <3>2. \A a, b : ~InLog(b) /\ (\A k \in DOMAIN t : t[k] # b) => Before(a, b)'
      BY Kept
    <3> HIDE DEF Before
    <3>3. \A c, v : c = Close /\ v = Verdict => Before(c, v)'
      BY <3>1, <3>2
    <3> QED
      BY <1>1, <3>3 DEF Before
  <2>2. CASE e # Close
    <3>1. Before(Close, Verdict) /\ \A k \in DOMAIN t : t[k] # Close
      BY <2>2 DEF Posted
    <3>2. \A a, b : Before(a, b) /\ (\A k \in DOMAIN t : t[k] # a) => Before(a, b)'
      BY Kept
    <3>3. \A c, v : c = Close /\ v = Verdict => Before(c, v)'
      BY <3>1, <3>2
    <3> QED
      BY <1>1, <3>3 DEF Before
  <2> QED
    BY <2>1, <2>2
<1>8. Before("message", Close)' /\ Before("message", Verdict)'
  BY <1>1, <1>6 DEF Posted, Before
<1> QED
  BY <1>1, <1>2, <1>3, <1>4, <1>5, <1>7, <1>8 DEF Posted

(* Emit reports its event, once if nothing fails. *)
LEMMA Emits ==
  ASSUME log \in Seq(Events), failed \in BOOLEAN, NEW e \in Events, Emit(e), ~InLog(e)
  PROVE  /\ failed' \in BOOLEAN /\ (~failed' => ~failed /\ Once(e)')
         /\ \E t \in Seq(Events) : log' = log \o t /\ \A k \in DOMAIN t : t[k] = e
<1>1. CASE log' = Append(log, e) /\ failed' = failed
  <2>1. PICK t \in Seq(Events) : t = <<e>> /\ DOMAIN t = {1} /\ t[1] = e
    BY Few
  <2>2. log' = log \o t
    BY <1>1, <2>1, AppendIsConcat
  <2>3. Once(e)'
    BY <2>1, <2>2, Kept
  <2> QED
    BY <1>1, <2>1, <2>2, <2>3
<1>2. CASE log' \in {log, Append(log, e), log \o <<e, e>>} /\ failed' = TRUE
  <2>1. PICK t \in Seq(Events) : log' = log \o t /\ \A k \in DOMAIN t : t[k] = e
    BY <1>2, Tails
  <2> QED
    BY <1>2, <2>1
<1> QED
  BY <1>1, <1>2 DEF Emit

LEMMA LoggedInit == Init => Logged
<1> SUFFICES ASSUME Init PROVE Logged
  OBVIOUS
<1>1. log = <<>> /\ pc = "start" /\ failed = FALSE
  BY DEF Init
<1>2. log \in Seq(Events)
  BY <1>1
<1> QED
  BY <1>1, <1>2 DEF Logged

LEMMA LoggedStep ==
  ASSUME Shape, Judged, Logged, [Next]_vars
  PROVE  Logged'
<1>0. log \in Seq(Events) /\ failed \in BOOLEAN
  BY DEF Logged
<1>w. /\ {"step.started", "message", "document", "cleanup", "title", "step.failed",
          "run.failed"} \subseteq Events
      /\ Close \in Events /\ Verdict \in Events
      /\ Close # Verdict /\ "cleanup" \notin {Close, Verdict} /\ "title" \notin {Close, Verdict}
      /\ "message" \notin {Close, Verdict} /\ "document" \notin {Close, Verdict}
      /\ "step.started" \notin {Close, Verdict}
  BY WordFacts DEF Events
<1>s. ASSUME log = <<"step.started">>
      PROVE  \A x : InLog(x) => x = "step.started"
  BY <1>s DEF InLog
<1>1. CASE Start
  <2>1. log = <<>> /\ UNCHANGED failed
    BY <1>1 DEF Start, Logged
  <2>2. CASE pc' = "generate" /\ log' = <<"step.started">>
    BY <1>0, <1>w, <2>1, <2>2 DEF Logged
  <2>3. CASE pc' = "done" /\ result' = "nil" /\ log' = log
    BY <1>0, <2>1, <2>3 DEF Logged
  <2>4. CASE pc' = "done" /\ result' = "error" /\ log' \in {log, <<"run.failed">>}
    <3>1. log' \in Seq(Events) /\ Undecided'
      <4>1. CASE log' = log
        BY <1>0, <2>1, <4>1 DEF Undecided, InLog
      <4>2. CASE log' = <<"run.failed">>
        BY <1>w, <4>2 DEF Undecided, InLog
      <4> QED
        BY <2>4, <4>1, <4>2
    <3> QED
      BY <1>0, <2>1, <2>4, <3>1 DEF Logged
  <2> QED
    BY <1>1, <2>2, <2>3, <2>4 DEF Start, Return
<1>2. CASE Fatal
  <2>1. log = <<"step.started">> /\ UNCHANGED failed
    BY <1>2 DEF Fatal, Generating, Logged
  <2>2. PICK t \in Seq(Events) :
          log' = log \o t /\ \A k \in DOMAIN t : t[k] \in {"step.failed", "run.failed"}
    <3>1. CASE log' = log \o <<"step.failed">>
      <4>1. PICK t \in Seq(Events) : t = <<"step.failed">> /\ DOMAIN t = {1}
        BY <1>w, Few
      <4>2. \A k \in DOMAIN t : t[k] = "step.failed"
        BY <4>1
      <4> QED
        BY <3>1, <4>1, <4>2
    <3>2. CASE log' = log \o <<"step.failed", "run.failed">>
      <4>1. PICK a \in Events, b \in Events : a = "step.failed" /\ b = "run.failed"
        BY <1>w
      <4>2. PICK t \in Seq(Events) : t = <<a, b>> /\ DOMAIN t = {1, 2} /\ t[1] = a /\ t[2] = b
        BY Two
      <4>3. log' = log \o t /\ \A k \in DOMAIN t : t[k] \in {a, b}
        BY <3>2, <4>1, <4>2
      <4> QED
        BY <4>1, <4>3
    <3> QED
      BY <1>2, <3>1, <3>2 DEF Fatal
  <2>3. log' \in Seq(Events)
    BY <1>0, <2>2, Grows
  <2>4. \A x : InLog(x)' => x = "step.started" \/ x \in {"step.failed", "run.failed"}
    <3>1. \A x : InLog(x)' => InLog(x) \/ \E k \in DOMAIN t : t[k] = x
      BY <1>0, <2>2, Kept
    <3> QED
      BY <1>s, <2>1, <2>2, <3>1
  <2>5. Undecided'
    BY <2>4 DEF Undecided
  <2> QED
    BY <1>0, <1>2, <2>1, <2>3, <2>5 DEF Fatal, Return, Logged
<1>3. CASE NoContent \/ Transient \/ ToolBlock \/ Prose \/ Unavailable \/ ToolBatch \/ Deepen
           \/ Branch
  <2>1. UNCHANGED <<log, failed>>
    BY <1>3 DEF NoContent, Transient, ToolBlock, Prose, Unavailable, ToolBatch, Deepen,
       Branch, AfterBatch, NoToolYet, AfterMissing, Promise, ThinAnswer,
       AfterNarrative, AfterBudget, Answer, AfterNoContent, AfterTransient, AfterLimit,
       Deciding, steady
  <2>2. pc \in {"generate", "deepen", "decide"}
    BY <1>3 DEF NoContent, Transient, ToolBlock, Prose, Unavailable, ToolBatch, Deepen,
       Branch, AfterBatch, NoToolYet, AfterMissing, Promise, ThinAnswer,
       AfterNarrative, AfterBudget, Answer, AfterNoContent, AfterTransient, AfterLimit,
       Deciding, Generating, Reply
  <2>3. pc' \in {"generate", "deepen", "decide", "post"}
    <3>1. CASE Branch
      BY <3>1 DEF Branch, AfterBatch, NoToolYet, AfterMissing, Promise, ThinAnswer,
         AfterNarrative, AfterBudget, Answer, AfterNoContent, AfterTransient, AfterLimit,
         Reprompt, Continue, DeepenFor, EndResearch, EndInsufficient, EndPartial, EndAnswer,
         EndLimit, EndAfterTools, EndWith
    <3> QED
      BY <1>3, <3>1 DEF NoContent, Transient, ToolBlock, Prose, Unavailable, ToolBatch, Deepen,
         AfterFailure, Continue, Decide, DeepenFor, EndPartial, EndWith
  <2>4. log = <<"step.started">>
    BY <2>2 DEF Logged
  <2> QED
    BY <1>0, <2>1, <2>3, <2>4 DEF Logged
<1>4. CASE Exhausted
  <2>1. replied # 0
    BY <1>4, LimitFacts DEF Exhausted, Shape, Bounded, Counts, InLoop
  <2>2. UNCHANGED <<log, failed>> /\ pc = "generate" /\ pc' \in {"deepen", "decide"}
    BY <1>4, <2>1 DEF Exhausted, steady, DeepenFor, Decide
  <2>3. log = <<"step.started">>
    BY <2>2 DEF Logged
  <2> QED
    BY <1>0, <2>2, <2>3 DEF Logged
<1>5. CASE PostMessage
  <2>1. log = <<"step.started">> /\ UNCHANGED <<failed, end, request>>
    BY <1>5 DEF PostMessage, Logged
  <2>2. ASSUME NEW document \in Document, log' = log \o <<"message">> \o document,
               pc' = "report"
        PROVE  Logged'
    <3>1. document = <<>> \/ document = <<"document">>
      BY DEF Document
    <3>2. PICK t \in Seq(Events) :
            /\ t = <<"message">> \o document
            /\ 1 \in DOMAIN t /\ t[1] = "message"
            /\ \A k \in DOMAIN t : k # 1 => t[k] = "document"
      <4>1. CASE document = <<>>
        <5>1. <<"message">> \o document = <<"message">>
          BY <4>1
        <5>2. PICK t \in Seq(Events) : t = <<"message">> /\ DOMAIN t = {1} /\ t[1] = "message"
          BY <1>w, Few
        <5> QED
          BY <5>1, <5>2
      <4>2. CASE document = <<"document">>
        <5>1. PICK a \in Events, b \in Events : a = "message" /\ b = "document"
          BY <1>w
        <5>2. PICK m \in Seq(Events), d \in Seq(Events) :
                /\ m = <<a>> /\ Len(m) = 1 /\ m[1] = a
                /\ d = <<b>> /\ Len(d) = 1 /\ d[1] = b
          <6>1. /\ <<a>> \in Seq(Events) /\ Len(<<a>>) = 1 /\ <<a>>[1] = a
                /\ <<b>> \in Seq(Events) /\ Len(<<b>>) = 1 /\ <<b>>[1] = b
            BY Pair
          <6> QED
            BY <6>1
        <5>3. /\ m \o d \in Seq(Events) /\ Len(m \o d) = Len(m) + Len(d)
              /\ \A i \in 1..Len(m) : (m \o d)[i] = m[i]
              /\ \A i \in 1..Len(d) : (m \o d)[Len(m) + i] = d[i]
          BY Extended
        <5>4. PICK t \in Seq(Events) : t = m \o d
          BY <5>3
        <5>5. Len(t) = 2 /\ t[1] = a /\ t[2] = b
          <6>1. 1 \in 1..1 /\ 1 + 1 = 2
            OBVIOUS
          <6> QED
            BY <5>2, <5>3, <5>4, <6>1
        <5>6. DOMAIN t = {1, 2}
          BY <5>5
        <5>7. t = <<"message">> \o document
          BY <4>2, <5>1, <5>2, <5>4
        <5> QED
          BY <5>1, <5>5, <5>6, <5>7
      <4> QED
        BY <3>1, <4>1, <4>2
    <3>3. log' = log \o t
      BY <2>1, <2>2, <3>1, <3>2, <1>w
    <3>4. /\ log' \in Seq(Events)
          /\ \A x : InLog(x)' => x = "step.started" \/ x \in {"message", "document"}
      <4>1. \A x : InLog(x)' => InLog(x) \/ \E k \in DOMAIN t : t[k] = x
        BY <1>0, <3>3, Kept
      <4> QED
        BY <1>0, <1>s, <2>1, <3>2, <3>3, <4>1, Grows
    <3>5. Once("message")'
      <4>1. ~InLog("message")
        BY <1>s, <2>1
      <4>2. \A l \in DOMAIN t : t[l] = "message" => l = 1
        BY <3>2
      <4> QED
        BY <1>0, <3>2, <3>3, <4>1, <4>2, Kept
    <3>6. Close' = Close /\ Verdict' = Verdict /\ Words' = Words
      BY <2>1 DEF Close, Verdict, Words
    <3>7. ~InLog(Close)' /\ ~InLog(Verdict)'
      <4>1. ASSUME NEW x, x \in {Close, Verdict}
            PROVE  ~InLog(x)'
        BY <1>w, <3>4, <4>1
      <4> QED
        BY <3>6, <4>1 DEF InLog
    <3>8. Rows(Words)'
      BY <3>4, <3>6 DEF Rows, InLog, Words
    <3>9. Before("message", Close)' /\ Before("message", Verdict)' /\ Before(Close, Verdict)'
      BY <3>7 DEF Before, InLog
    <3> QED
      BY <1>0, <2>1, <2>2, <3>4, <3>5, <3>7, <3>8, <3>9 DEF Logged, Posted
  <2>3. ASSUME pc' = "done", result' = "error", log' \in {log, Append(log, "message")}
        PROVE  Logged'
    <3>1. PICK t \in Seq(Events) : log' = log \o t /\ \A k \in DOMAIN t : t[k] = "message"
      <4>1. "message" \in Events
        BY <1>w
      <4> QED
        BY <1>0, <2>3, <4>1, Tails
    <3>2. /\ log' \in Seq(Events)
          /\ \A x : InLog(x)' => InLog(x) \/ \E k \in DOMAIN t : t[k] = x
      BY <1>0, <3>1, Kept, Grows
    <3>3. Undecided'
      BY <1>s, <2>1, <3>1, <3>2 DEF Undecided
    <3> QED
      BY <1>0, <2>1, <2>3, <3>2, <3>3 DEF Logged
  <2> QED
    BY <1>5, <2>2, <2>3 DEF PostMessage, Return
<1>6. CASE CloseStep
  <2>1. /\ Posted /\ ~InLog(Close) /\ ~InLog(Verdict) /\ Emit(Close) /\ pc' = "verdict"
        /\ end' = end
    BY <1>6 DEF CloseStep, control, Logged
  <2>2. /\ failed' \in BOOLEAN /\ (~failed' => Once(Close)')
        /\ \E t \in Seq(Events) : log' = log \o t /\ \A k \in DOMAIN t : t[k] = Close
    <3>1. PICK c \in Events : c = Close
      BY <1>w
    <3>2. Emit(c) /\ ~InLog(c)
      BY <2>1, <3>1
    <3>3. /\ failed' \in BOOLEAN /\ (~failed' => Once(c)')
          /\ \E t \in Seq(Events) : log' = log \o t /\ \A k \in DOMAIN t : t[k] = c
      BY <1>0, <3>2, Emits
    <3>4. Close' = c
      BY <2>1, <3>1 DEF Close
    <3> QED
      BY <3>1, <3>3, <3>4 DEF Once, InLog
  <2>3. PICK t \in Seq(Events) : log' = log \o t /\ \A k \in DOMAIN t : t[k] = Close
    BY <2>2
  <2>4. /\ log' \in Seq(Events) /\ Posted' /\ Close' = Close /\ Verdict' = Verdict
        /\ \A x : x # Close => (InLog(x)' <=> InLog(x)) /\ (Once(x) => Once(x)')
    <3>1. Close \in Words \ {"message"}
      BY <1>w DEF Words
    <3>2. PICK e \in Words \ {"message"} : e = Close
      BY <3>1
    <3>3. /\ \A k \in DOMAIN t : t[k] = e
          /\ e = Close => ~InLog(Verdict)
      BY <2>1, <2>3, <3>2
    <3>4. /\ log' \in Seq(Events) /\ Posted' /\ Close' = Close /\ Verdict' = Verdict
          /\ \A x : x # e => (InLog(x)' <=> InLog(x)) /\ (Once(x) => Once(x)')
      BY <1>0, <2>1, <2>3, <3>3, PostedGrows
    <3> QED
      BY <3>2, <3>4
  <2>5. ~InLog(Verdict)'
    <3>1. PICK v : v = Verdict
      OBVIOUS
    <3>2. ~InLog(v)'
      BY <1>w, <2>1, <2>4, <3>1
    <3> QED
      BY <2>4, <3>1, <3>2 DEF InLog
  <2>6. Closed'
    BY <2>2 DEF Closed
  <2> QED
    BY <2>1, <2>2, <2>4, <2>5, <2>6 DEF Logged
<1>7. CASE Complete
  <2>1. /\ Posted /\ Closed /\ ~InLog(Verdict) /\ Emit(Verdict) /\ pc' = "cleanup"
        /\ end' = end
    BY <1>7 DEF Complete, control, Logged
  <2>2. PICK e \in Words \ {"message"} : e = Verdict
    BY <1>w DEF Words
  <2>3. /\ failed' \in BOOLEAN /\ (~failed' => ~failed /\ Once(e)')
        /\ \E t \in Seq(Events) : log' = log \o t /\ \A k \in DOMAIN t : t[k] = e
    <3>1. Emit(e) /\ ~InLog(e) /\ e \in Events
      BY <1>w, <2>1, <2>2
    <3> QED
      BY <1>0, <3>1, Emits
  <2>4. PICK t \in Seq(Events) : log' = log \o t /\ \A k \in DOMAIN t : t[k] = e
    BY <2>3
  <2>5. /\ log' \in Seq(Events) /\ Posted' /\ Close' = Close /\ Verdict' = Verdict
        /\ \A x : x # e => (InLog(x)' <=> InLog(x)) /\ (Once(x) => Once(x)')
    <3>1. e = Close => ~InLog(Verdict)
      BY <1>w, <2>2
    <3> QED
      BY <1>0, <2>1, <2>4, <3>1, PostedGrows
  <2>6. Closed' /\ Decided'
    <3>1. \A c : c = Close /\ Once(c) => Once(c)'
      BY <1>w, <2>2, <2>5
    <3>2. ~failed' => Once(Close)'
      <4>1. PICK c : c = Close
        OBVIOUS
      <4>2. ~failed' => Once(c)'
        BY <2>1, <2>3, <3>1, <4>1 DEF Closed
      <4> QED
        BY <2>5, <4>1, <4>2 DEF Once, InLog
    <3>3. ~failed' => Once(Verdict)'
      BY <2>2, <2>3, <2>5 DEF Once, InLog
    <3> QED
      BY <3>2, <3>3 DEF Closed, Decided
  <2> QED
    BY <2>1, <2>3, <2>5, <2>6 DEF Logged
<1>8. CASE Cleanup \/ Title
  <2>1. /\ Posted /\ Closed /\ Decided /\ UNCHANGED <<failed, end>>
        /\ \/ pc' = "title"
           \/ pc' = "done" /\ result' = "nil"
    BY <1>8 DEF Cleanup, Title, Return, control, Logged
  <2>2. PICK e \in {"cleanup", "title"} : log' = log \/ log' = Append(log, e)
    BY <1>8 DEF Cleanup, Title
  <2>3. e \in Events /\ e \in Words \ {"message"} /\ e # Close /\ e # Verdict
    BY <1>w DEF Words
  <2>4. PICK t \in Seq(Events) : log' = log \o t /\ \A k \in DOMAIN t : t[k] = e
    <3>1. log' \in {log, Append(log, e), log \o <<e, e>>}
      BY <2>2
    <3>2. PICK w \in Events : w = e
      BY <2>3
    <3>3. log' \in {log, Append(log, w), log \o <<w, w>>}
      BY <3>1, <3>2
    <3>4. \E t \in Seq(Events) : log' = log \o t /\ \A k \in DOMAIN t : t[k] = w
      BY <1>0, <3>3, Tails
    <3> QED
      BY <3>2, <3>4
  <2>5. /\ log' \in Seq(Events) /\ Posted' /\ Close' = Close /\ Verdict' = Verdict
        /\ \A x : x # e => (InLog(x)' <=> InLog(x)) /\ (Once(x) => Once(x)')
    BY <1>0, <2>1, <2>3, <2>4, PostedGrows
  <2>6. Closed' /\ Decided'
    <3>1. \A c : c \in {Close, Verdict} /\ Once(c) => Once(c)'
      BY <2>3, <2>5
    <3>2. PICK c, v : c = Close /\ v = Verdict
      OBVIOUS
    <3>3. ~failed' => Once(c)' /\ Once(v)'
      BY <2>1, <3>1, <3>2 DEF Closed, Decided
    <3>4. ~failed' => Once(Close)' /\ Once(Verdict)'
      BY <2>5, <3>2, <3>3 DEF Once, InLog
    <3> QED
      BY <3>4 DEF Closed, Decided
  <2> QED
    BY <1>0, <2>1, <2>5, <2>6 DEF Logged
<1>9. CASE Done \/ UNCHANGED vars
  <2>1. UNCHANGED <<pc, log, failed, result, end>>
    BY <1>9 DEF Done, vars
  <2> QED
    BY <2>1 DEF Logged, Posted, Closed, Decided, Undecided, Close, Verdict, Words, Rows,
       Once, Before, InLog
<1> QED
  BY <1>1, <1>2, <1>3, <1>4, <1>5, <1>6, <1>7, <1>8, <1>9 DEF Next

-----------------------------------------------------------------------------
(* The theorems.                                                           *)

LEMMA Always == Spec => [](Shape /\ Unseen /\ Judged /\ Logged)
<1>1. Init => Shape /\ Unseen /\ Judged /\ Logged
  BY ShapeInit, JudgedInit, LoggedInit
<1>2. Shape /\ Unseen /\ Judged /\ Logged /\ [Next]_vars
        => (Shape /\ Unseen /\ Judged /\ Logged)'
  BY ShapeStep, JudgedStep, LoggedStep
<1> QED
  BY <1>1, <1>2, PTL DEF Spec

(* The variables stay within their types, and the reprompt, recovery and   *)
(* iteration counters within the limits the code gives them, whatever the  *)
(* limits are.                                                             *)
THEOREM TypeCorrect == Spec => []TypeOK
<1>1. Shape /\ Judged /\ Logged => TypeOK
  BY TypeParts DEF Judged, Logged
<1> QED
  BY <1>1, Always, PTL

(* Whatever way a turn takes out of the loop, a nil return after it began  *)
(* means one reply, then the close of its step, then the verdict of that   *)
(* way and no other, each exactly once if no call failed; an error means   *)
(* no verdict.                                                             *)
THEOREM TurnIsReported == Spec => []Reported
<1>1. Logged => Reported
  <2> SUFFICES ASSUME Logged, pc = "done", InLog("step.started") PROVE
        IF result = "error" THEN ~InLog("run.completed") /\ ~InLog("run.partial")
        ELSE /\ Once("message") /\ Rows(Words)
             /\ Before("message", Close) /\ Before("message", Verdict) /\ Before(Close, Verdict)
             /\ ~failed => Once(Close) /\ Once(Verdict)
    BY DEF Reported, Rows, Words
  <2>1. result \in {"nil", "error"}
    BY DEF Logged
  <2>2. CASE result = "error"
    BY <2>2 DEF Logged, Undecided
  <2>3. CASE result = "nil"
    <3>1. log # <<>>
      BY DEF InLog
    <3> QED
      BY <2>3, <3>1 DEF Logged, Posted, Closed, Decided
  <2> QED
    BY <2>1, <2>2, <2>3
<1> QED
  BY <1>1, Always, PTL

(* Only the verdict of a finished turn can declare the run completed, and  *)
(* only if its end does.                                                   *)
LEMMA CompletedIsJudged ==
  ASSUME Logged, Judged, pc = "done", InLog("run.completed")
  PROVE  end.status = "completed"
<1>1. result \in {"nil", "error"} /\ log # <<>>
  BY DEF Logged, InLog
<1>2. Posted
  BY <1>1 DEF Logged, Undecided
<1>3. "run.completed" \in Words
  BY <1>2 DEF Posted, Rows, InLog
<1>4. Verdict = "run.completed"
  BY <1>3, WordFacts DEF Words
<1>5. end.status \in Statuses
  BY DEF Judged, Ends
<1> QED
  BY <1>4, <1>5 DEF Verdict, Statuses

(* On no way out of the loop is a run declared completed after a tool call *)
(* of the loop or of the recovery failed.                                  *)
THEOREM ErrorsAreShown == Spec => []ErrorsShow
<1>1. Logged /\ Judged => ErrorsShow
  BY CompletedIsJudged DEF ErrorsShow, Judged
<1> QED
  BY <1>1, Always, PTL

(* A research run is completed only on enough sources, however the batches, *)
(* the reprompts, the failures and the recovery follow each other.          *)
THEOREM ResearchIsJudged == Spec => []ResearchVerdict
<1>1. Logged /\ Judged => ResearchVerdict
  BY CompletedIsJudged DEF ResearchVerdict, Judged
<1> QED
  BY <1>1, Always, PTL
=============================================================================
