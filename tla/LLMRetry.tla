------------------------------ MODULE LLMRetry ------------------------------
(***************************************************************************)
(* generateWithRetry: one call of the language model, over the candidates  *)
(* that LLMProviders gives the turn, with its attempts, its failover and   *)
(* its time budget.  A clock counts from the beginning of the call; it     *)
(* cannot pass a timer that is due.                                        *)
(***************************************************************************)
EXTENDS LLMProviders

CONSTANTS MaxAttempts,     \* maxLLMGenerateAttempts
          Budget,          \* maxLLMPhaseBudget
          RequestTimeout,  \* requestTimeout, of the model and of posted events
          RetryDelay,      \* llmRetryDelay(2)
          MaxRoute,        \* bound: entries of a model route
          MaxSaves         \* bound: calls of updateLLMSettings

ASSUME RetryAssumption ==
  /\ MaxAttempts \in Nat \ {0} /\ Budget \in Nat \ {0} /\ RequestTimeout \in Nat \ {0}
  /\ RetryDelay \in Nat /\ MaxRoute \in Nat /\ MaxSaves \in Nat

VARIABLES
  pc,          \* "idle", "delay", "check", "announce", "generate", "complain",
               \* "confirm", "done"
  candidates,  \* the providers of the turn
  index,       \* the provider tried
  attempt,     \* its attempt
  now,         \* time since the call began
  timer,       \* when what it waits for is cut off
  cutoff,      \* the deadline of generateCtx
  lastErr,     \* lastErr
  result,      \* the outcome
  saves,       \* bound: updates of the settings
  tested,      \* history: the last one had passed the test of the settings page
  calls        \* history: calls of Generate, per candidate

attemptVars == <<candidates, index, attempt>>
clock == <<now, timer, cutoff>>
vars == <<settings, pc, attemptVars, clock, lastErr, result, saves, tested, calls>>

(* What an error says: nothing came back, the gateway is down, the attempt *)
(* timed out, another failure that may pass, or one that will not.         *)
Transients == {"gateway", "timeout", "passing"}
Errors == Transients \union {"empty", "fatal"}

(* No wait begins after this moment. *)
Latest == Budget + RetryDelay + 2 * RequestTimeout

TypeOK ==
  /\ SettingsOK
  /\ pc \in {"idle", "delay", "check", "announce", "generate", "complain", "confirm", "done"}
  /\ candidates \in Seq(Candidate)
  /\ \A i, j \in DOMAIN candidates :
       i # j => <<candidates[i].provider, candidates[i].model>>
                  # <<candidates[j].provider, candidates[j].model>>
  /\ index \in Nat /\ attempt \in 1..MaxAttempts
  /\ now \in Nat /\ timer \in Nat /\ cutoff \in Nat
  /\ lastErr \in Errors \union {"none"}
  /\ result \in Errors \union {"none", "response", "unresolved"}
  /\ saves \in 0..MaxSaves /\ tested \in BOOLEAN
  /\ calls \in Seq(0..MaxAttempts)

Init ==
  /\ settings = Unsaved
  /\ pc = "idle" /\ candidates = <<>> /\ index = 1 /\ attempt = 1
  /\ now = 0 /\ timer = 0 /\ cutoff = 0
  /\ lastErr = "none" /\ result = "none"
  /\ saves = 0 /\ tested = FALSE /\ calls = <<>>

-----------------------------------------------------------------------------
Smaller(a, b) == IF a <= b THEN a ELSE b

(* A request that the settings page may have tested before it saves it; not *)
(* counted as tested is one with an empty field of which the row and the    *)
(* environment differ: what is saved is not what the test tried.            *)
Save ==
  /\ saves < MaxSaves /\ saves' = saves + 1
  /\ \E req \in Request :
       UpdateSettings(req) /\ tested' = (Connects(req) /\ SameBlanks(req))
  /\ UNCHANGED <<pc, attemptVars, clock, lastErr, result, calls>>

Return(r) == pc' = "done" /\ result' = r

(* An entry of a route has no address. *)
RouteEntry == {e \in Entry : e.url = ""}

(* A turn reads the settings once, with the provider and the route of its  *)
(* message, and calls the model.                                           *)
Begin ==
  /\ pc = "idle"
  /\ \E override \in Names \union {"none"}, route \in SeqOf(RouteEntry, MaxRoute) :
       IF ~Resolves(override) \/ Candidates(override, route) = <<>>
       THEN Return("unresolved") /\ UNCHANGED <<candidates, calls>>
       ELSE /\ candidates' = Candidates(override, route)
            /\ calls' = [i \in DOMAIN candidates' |-> 0]
            /\ pc' = "check" /\ UNCHANGED result
  /\ UNCHANGED <<settings, index, attempt, clock, lastErr, saves, tested>>

(* Time passes while something is awaited. *)
Tick ==
  /\ pc \in {"delay", "announce", "generate", "complain", "confirm"} /\ now < timer
  /\ now' = now + 1
  /\ UNCHANGED <<settings, pc, attemptVars, timer, cutoff, lastErr, result, saves, tested, calls>>

(* The delay before a second attempt; the activity may be cancelled in it. *)
Wake ==
  /\ pc = "delay"
  /\ \/ now = timer /\ pc' = "check" /\ UNCHANGED result
     \/ Return("fatal")
  /\ UNCHANGED <<settings, attemptVars, clock, lastErr, saves, tested, calls>>

(* Mutant: every attempt gets the whole request timeout. *)
WholeTimeout(remaining) == RequestTimeout

Timeout(remaining) == Smaller(RequestTimeout, remaining)

(* Before an attempt: the budget may be used up. *)
Check ==
  /\ pc = "check"
  /\ IF now >= Budget
     THEN Return(IF lastErr = "none" THEN "timeout" ELSE lastErr) /\ UNCHANGED <<timer, cutoff>>
     ELSE /\ cutoff' = now + Timeout(Budget - now)
          /\ timer' = now + RequestTimeout
          /\ pc' = "announce" /\ UNCHANGED result
  /\ UNCHANGED <<settings, attemptVars, now, lastErr, saves, tested, calls>>

(* model.request.started is posted, or its post fails or times out: it eats *)
(* from the attempt's time.                                                 *)
Announce ==
  /\ pc = "announce" /\ pc' = "generate"
  /\ timer' = IF now > cutoff THEN now ELSE cutoff
  /\ calls' = [calls EXCEPT ![index] = @ + 1]
  /\ UNCHANGED <<settings, attemptVars, now, cutoff, lastErr, result, saves, tested>>

(* What Generate may return: without the host's key an error that will not *)
(* pass; an answer within its time; a timeout when that is over.           *)
Outcomes ==
  IF ~Works(candidates[index]) THEN {"fatal"}
  ELSE IF now >= cutoff THEN {"timeout"}
  ELSE {"response", "empty", "gateway", "passing", "fatal"}

Generate ==
  /\ pc = "generate"
  /\ \E outcome \in Outcomes :
       IF outcome = "response"
       THEN pc' = "confirm" /\ UNCHANGED lastErr
       ELSE pc' = "complain" /\ lastErr' = outcome
  /\ timer' = now + RequestTimeout
  /\ UNCHANGED <<settings, attemptVars, now, cutoff, result, saves, tested, calls>>

Confirm ==
  /\ pc = "confirm" /\ Return("response")
  /\ UNCHANGED <<settings, attemptVars, clock, lastErr, saves, tested, calls>>

(* Mutant: a gateway that is down ends the call. *)
NextProviderNever == Return(lastErr) /\ UNCHANGED <<index, attempt, timer>>

NextProvider ==
  IF index < Len(candidates)
  THEN index' = index + 1 /\ attempt' = 1 /\ pc' = "check" /\ UNCHANGED <<timer, result>>
  ELSE Return(lastErr) /\ UNCHANGED <<index, attempt, timer>>

(* After model.request.failed: an error that will not pass is returned at   *)
(* once, a gateway that is down and a used up provider pass on to the next, *)
(* anything else is tried again.                                            *)
Complain ==
  /\ pc = "complain"
  /\ IF lastErr \notin Transients THEN Return(lastErr) /\ UNCHANGED <<index, attempt, timer>>
     ELSE IF lastErr = "gateway" \/ attempt = MaxAttempts THEN NextProvider
     ELSE /\ attempt' = attempt + 1 /\ timer' = now + RetryDelay
          /\ pc' = "delay" /\ UNCHANGED <<index, result>>
  /\ UNCHANGED <<settings, candidates, now, cutoff, lastErr, saves, tested, calls>>

Done == pc = "done" /\ UNCHANGED vars

Next == Save \/ Begin \/ Tick \/ Wake \/ Check \/ Announce \/ Generate \/ Confirm \/ Complain \/ Done

Spec == Init /\ [][Next]_vars

-----------------------------------------------------------------------------
(* Properties.                                                             *)

(* The budget: no attempt is given time beyond it, none begins after it,   *)
(* and the call returns at most two posted events and a delay later (twice *)
(* the budget, with the source's own numbers).                             *)
WithinBudget ==
  /\ pc = "generate" => cutoff <= Budget
  /\ now < Latest

(* A failure that may pass is returned only when every candidate has been   *)
(* called or the budget is used up.                                         *)
FailsOver ==
  (pc = "done" /\ result \in Transients)
    => (\A i \in DOMAIN candidates : calls[i] >= 1) \/ now >= Budget

(* Settings that the settings page tests and then saves serve a turn, of    *)
(* every provider but OpenCode Zen: the key is found where the turn looks   *)
(* for it and goes to the address that was tested.                          *)
TestedIsServed == (tested /\ settings.provider # "opencode-zen") => Served

(* docs/configuration.md: OPENCODE_API_KEY, or the key saved in the setup  *)
(* wizard, is all that OpenCode Zen needs.                                 *)
SavedIsServed == tested => Served
=============================================================================
