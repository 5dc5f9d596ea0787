--------------------------- MODULE LLMRetry_proofs ---------------------------
(***************************************************************************)
(* The time budget and the failover of generateWithRetry, for all          *)
(* timeouts, delays, numbers of attempts, providers and settings.          *)
(***************************************************************************)
EXTENDS LLMRetry, WellFoundedInduction, TLAPS

(* The moment an attempt began bounds what it still waits for: the post of *)
(* its beginning and its call together one request timeout, the post of    *)
(* its end another, and a delay after that.                                *)
Waits ==
  /\ now \in Nat /\ timer \in Nat /\ cutoff \in Nat
  /\ pc \in {"delay", "announce", "generate", "complain", "confirm"} => now <= timer
  /\ pc \in {"announce", "generate"} => timer < Budget + RequestTimeout /\ cutoff <= Budget
  /\ pc \in {"complain", "confirm"} => timer < Budget + 2 * RequestTimeout
  /\ pc = "delay" => timer < Latest
  /\ now < Latest

LEMMA Times ==
  /\ Budget \in Nat /\ RequestTimeout \in Nat /\ RetryDelay \in Nat /\ Latest \in Nat
  /\ Budget > 0 /\ RequestTimeout > 0
  /\ Latest = Budget + RetryDelay + 2 * RequestTimeout
BY RetryAssumption DEF Latest

LEMMA WaitsInit == Init => Waits
BY Times DEF Init, Waits

LEMMA WaitsStep ==
  ASSUME Waits, [Next]_vars
  PROVE  Waits'
<1> USE Times
<1>1. CASE Save
  BY <1>1 DEF Save, clock, Waits
<1>2. CASE Begin
  <2>1. UNCHANGED clock /\ pc' \in {"check", "done"}
    BY <1>2 DEF Begin, Return
  <2> QED
    BY <2>1 DEF clock, Waits
<1>3. CASE Tick
  BY <1>3 DEF Tick, Waits
<1>4. CASE Wake
  BY <1>4 DEF Wake, Return, clock, Waits
<1>5. CASE Check
  <2>1. CASE now >= Budget
    BY <1>5, <2>1 DEF Check, Return, Waits
  <2>2. CASE now < Budget
    <3>1. /\ cutoff' = now + Timeout(Budget - now) /\ timer' = now + RequestTimeout
          /\ now' = now /\ pc' = "announce"
      BY <1>5, <2>2 DEF Check, Waits
    <3>2. cutoff' \in Nat /\ cutoff' <= Budget
      BY <2>2, <3>1 DEF Timeout, Smaller, Waits
    <3> QED
      BY <2>2, <3>1, <3>2 DEF Waits
  <2> QED
    BY <2>1, <2>2 DEF Waits
<1>6. CASE Announce
  BY <1>6 DEF Announce, Waits
<1>7. CASE Generate
  <2>1. /\ pc = "generate" /\ pc' \in {"confirm", "complain"}
        /\ timer' = now + RequestTimeout /\ now' = now /\ cutoff' = cutoff
    BY <1>7 DEF Generate
  <2> QED
    BY <2>1 DEF Waits
<1>8. CASE Confirm
  BY <1>8 DEF Confirm, Return, clock, Waits
<1>9. CASE Complain
  <2>1. /\ pc = "complain" /\ now' = now /\ cutoff' = cutoff
        /\ \/ pc' \in {"done", "check"} /\ timer' = timer
           \/ pc' = "delay" /\ timer' = now + RetryDelay
    BY <1>9 DEF Complain, NextProvider, Return
  <2> QED
    BY <2>1 DEF Waits
<1>10. CASE Done \/ UNCHANGED vars
  BY <1>10 DEF Done, vars, clock, Waits
<1> QED
  BY <1>1, <1>2, <1>3, <1>4, <1>5, <1>6, <1>7, <1>8, <1>9, <1>10 DEF Next

(* Whatever the timeouts, the delay and the number of attempts: no attempt *)
(* is given time beyond the budget, and the call of the model is over at   *)
(* most two posted events and a delay after it.                            *)
THEOREM BudgetHolds == Spec => []WithinBudget
<1>1. Waits => WithinBudget
  BY DEF Waits, WithinBudget
<1> QED
  BY <1>1, WaitsInit, WaitsStep, PTL DEF Spec
-----------------------------------------------------------------------------
(* The candidates.  The list is built entry by entry; what holds of it is  *)
(* shown by induction on their number, over the set of the numbers for     *)
(* which it holds.                                                         *)

LEMMA NatInductionSet ==
  ASSUME NEW S, 0 \in S, \A n \in Nat : n \in S => n + 1 \in S
  PROVE  Nat \subseteq S
<1> DEFINE R == OpToRel(<, Nat)
<1>1. IsWellFoundedOn(R, Nat)
  BY NatLessThanWellFounded
<1>2. \A i, j \in Nat : i < j => <<i, j>> \in R
  BY DEF OpToRel
<1> HIDE DEF R
<1> SUFFICES ASSUME Nat \ S # {} PROVE FALSE
  OBVIOUS
<1>3. PICK n \in Nat \ S : \A m \in Nat \ S : ~ (<<m, n>> \in R)
  <2>1. Nat \ S \subseteq Nat /\ Nat \ S # {}
    OBVIOUS
  <2> QED
    BY <1>1, <2>1, WFMin
<1>4. n # 0 /\ n - 1 \in Nat /\ n - 1 < n /\ (n - 1) + 1 = n
  BY <1>3
<1>5. n - 1 \in S
  BY <1>2, <1>3, <1>4
<1> QED
  BY <1>3, <1>4, <1>5

IsList(g, entries, m) ==
  g = [n \in 0..m |-> IF n = 0 THEN <<>> ELSE AppendCandidate(g[n - 1], entries[n])]

LEMMA ListExists ==
  ASSUME NEW entries, NEW m \in Nat
  PROVE  \E g : IsList(g, entries, m)
<1> DEFINE S == {k \in Nat : \E g : IsList(g, entries, k)}
<1>1. 0 \in S
  <2>1. IsList([n \in 0..0 |-> <<>>], entries, 0)
    BY DEF IsList
  <2> QED
    BY <2>1
<1>2. ASSUME NEW k \in Nat, k \in S
      PROVE  k + 1 \in S
  <2>1. PICK g : IsList(g, entries, k)
    BY <1>2
  <2> DEFINE h == [n \in 0..(k + 1) |->
                     IF n = k + 1 THEN AppendCandidate(g[k], entries[n]) ELSE g[n]]
  <2>2. \A n \in 0..k : h[n] = g[n]
    OBVIOUS
  <2>3. \A n \in 0..(k + 1) :
          h[n] = IF n = 0 THEN <<>> ELSE AppendCandidate(h[n - 1], entries[n])
    <3>1. ASSUME NEW n \in 0..k
          PROVE  g[n] = IF n = 0 THEN <<>> ELSE AppendCandidate(g[n - 1], entries[n])
      BY <2>1 DEF IsList
    <3>2. h[k + 1] = AppendCandidate(h[k], entries[k + 1])
      BY <2>2
    <3>3. \A n \in 0..k : n # 0 => n - 1 \in 0..k
      OBVIOUS
    <3> QED
      BY <2>2, <3>1, <3>2, <3>3
  <2>4. IsList(h, entries, k + 1)
    BY <2>3 DEF IsList
  <2> HIDE DEF h
  <2> QED
    BY <2>4
<1> HIDE DEF S
<1>3. Nat \subseteq S
  BY <1>1, <1>2, NatInductionSet
<1> QED
  BY <1>3 DEF S

LEMMA UsableIsList ==
  ASSUME NEW entries \in Seq(Entry)
  PROVE  \E g : IsList(g, entries, Len(entries)) /\ Usable(entries) = g[Len(entries)]
<1> DEFINE g == CHOOSE list : IsList(list, entries, Len(entries))
<1>1. IsList(g, entries, Len(entries))
  BY ListExists
<1>2. Usable(entries) = g[Len(entries)]
  BY DEF Usable, IsList
<1> QED
  BY <1>1, <1>2

Listed(list) ==
  /\ list \in Seq(Candidate)
  /\ \A i, j \in DOMAIN list :
       i # j => <<list[i].provider, list[i].model>> # <<list[j].provider, list[j].model>>

LEMMA KeysTyped ==
  ASSUME SettingsOK
  PROVE  Keys \in [Slots -> Names \union Slots \union {"none"}]
BY DEF Keys, SettingsOK

LEMMA CandidateTyped ==
  ASSUME SettingsOK, NEW e \in Entry
  PROVE  AsCandidate(e) \in Candidate
<1>1. Slot(e.provider) \in Slots
  BY DEF Slot, Slots
<1>2. Keys[Slot(e.provider)] \in Names \union Slots \union {"none"}
  BY <1>1, KeysTyped
<1>3. /\ e.provider \in Names /\ Or(e.model, "saved") \in Models \union {"saved"}
      /\ Or(e.url, settings.url) \in Urls \union {""}
  BY DEF Entry, Or, SettingsOK
<1> QED
  BY <1>2, <1>3 DEF AsCandidate, Candidate

LEMMA AppendListed ==
  ASSUME SettingsOK, NEW list, Listed(list), NEW e \in Entry
  PROVE  Listed(AppendCandidate(list, e))
<1>1. PICK c : c = AsCandidate(e)
  OBVIOUS
<1>2. c \in Candidate
  BY <1>1, CandidateTyped
<1>3. CASE Seen(list, c) \/ Unknown(settings.mode, e.provider)
  BY <1>1, <1>3 DEF AppendCandidate
<1>4. CASE ~Seen(list, c) /\ ~Unknown(settings.mode, e.provider)
  <2>1. AppendCandidate(list, e) = Append(list, c)
    BY <1>1, <1>4 DEF AppendCandidate
  <2>2. Append(list, c) \in Seq(Candidate)
    BY <1>2 DEF Listed
  <2>3. \A i \in DOMAIN Append(list, c) :
          \/ i \in DOMAIN list /\ Append(list, c)[i] = list[i]
          \/ i = Len(list) + 1 /\ Append(list, c)[i] = c
    BY <1>2 DEF Listed
  <2>4. \A i \in DOMAIN list : ~(list[i].provider = c.provider /\ list[i].model = c.model)
    BY <1>4 DEF Seen
  <2> QED
    BY <2>1, <2>2, <2>3, <2>4 DEF Listed
<1> QED
  BY <1>3, <1>4

LEMMA UsableListed ==
  ASSUME SettingsOK, NEW entries \in Seq(Entry)
  PROVE  Listed(Usable(entries))
<1>1. PICK g : IsList(g, entries, Len(entries)) /\ Usable(entries) = g[Len(entries)]
  BY UsableIsList
<1> DEFINE S == {n \in Nat : n <= Len(entries) => Listed(g[n])}
<1>2. Len(entries) \in Nat /\ \A n \in 1..Len(entries) : entries[n] \in Entry
  OBVIOUS
<1>3. 0 \in S
  <2>1. g[0] = <<>>
    BY <1>1, <1>2 DEF IsList
  <2>2. Listed(<<>>)
    BY DEF Listed
  <2> QED
    BY <2>1, <2>2
<1>4. ASSUME NEW n \in Nat, n \in S
      PROVE  n + 1 \in S
  <2>1. CASE n + 1 <= Len(entries)
    <3>1. g[n + 1] = AppendCandidate(g[n], entries[n + 1])
      BY <1>1, <1>2, <2>1 DEF IsList
    <3>2. Listed(g[n]) /\ entries[n + 1] \in Entry
      BY <1>2, <1>4, <2>1
    <3>3. Listed(g[n + 1])
      BY <3>1, <3>2, AppendListed
    <3> QED
      BY <3>3
  <2> QED
    BY <2>1
<1>5. Nat \subseteq S
  <2> HIDE DEF S
  <2> QED
    BY <1>3, <1>4, NatInductionSet
<1> QED
  BY <1>1, <1>2, <1>5

LEMMA Prepended ==
  ASSUME NEW e \in Entry, NEW entries \in Seq(Entry)
  PROVE  <<e>> \o entries \in Seq(Entry)
<1>1. <<e>> \in Seq(Entry)
  OBVIOUS
<1>2. PICK one \in Seq(Entry) : one = <<e>>
  BY <1>1
<1>3. one \o entries \in Seq(Entry)
  OBVIOUS
<1> QED
  BY <1>2, <1>3

LEMMA CandidatesListed ==
  ASSUME SettingsOK, NEW override \in Names \union {"none"}, NEW route \in Seq(Entry)
  PROVE  Listed(Candidates(override, route))
<1>1. Chosen(override) \in Names
  BY DEF Chosen, SettingsOK
<1>2. [provider |-> Chosen(override), model |-> "", url |-> ""] \in Entry
  BY <1>1 DEF Entry
<1>3. <<[provider |-> Chosen(override), model |-> "", url |-> ""]>> \o Fallback \in Seq(Entry)
  <2>1. PICK first \in Entry : first = [provider |-> Chosen(override), model |-> "", url |-> ""]
    BY <1>2
  <2>2. <<first>> \o Fallback \in Seq(Entry)
    BY Prepended, ProvidersAssumption
  <2> QED
    BY <2>1, <2>2
<1>4. Listed(<<>>)
  BY DEF Listed
<1> QED
  BY <1>3, <1>4, UsableListed DEF Candidates

LEMMA UpdateTyped ==
  ASSUME SettingsOK, NEW req \in Request, UpdateSettings(req)
  PROVE  SettingsOK'
<1>1. settings' =
        [saved |-> TRUE, mode |-> Or(req.mode, settings.mode),
         provider |-> Or(req.provider, settings.provider), key |-> Or(req.key, settings.key),
         url |-> Or(req.url, settings.url)]
  BY DEF UpdateSettings
<1>2. /\ Or(req.mode, settings.mode) \in Modes
      /\ Or(req.provider, settings.provider) \in Names
      /\ Or(req.key, settings.key) \in Names \union {"none"}
      /\ Or(req.url, settings.url) \in Urls \union {""}
  BY DEF Or, Request, SettingsOK
<1> QED
  BY <1>1, <1>2 DEF SettingsOK

-----------------------------------------------------------------------------
(* The failover.  Every candidate before the one tried was called, and so  *)
(* was the one tried when its failure is judged.                           *)

Tried ==
  /\ index \in Nat \ {0}
  /\ DOMAIN calls = DOMAIN candidates
  /\ pc = "idle" => index = 1
  /\ pc \notin {"idle", "done"} => index <= Len(candidates)
  /\ \A i \in DOMAIN candidates : i < index => calls[i] >= 1
  /\ pc \in {"generate", "complain", "confirm", "delay"} => calls[index] >= 1
  /\ pc \in {"complain", "delay"} => lastErr \in Errors
  /\ lastErr \in Errors \union {"none"}
  /\ FailsOver

LEMMA TriedStep ==
  ASSUME TypeOK, TypeOK', Tried, [Next]_vars
  PROVE  Tried'
<1>0. /\ candidates \in Seq(Candidate) /\ candidates' \in Seq(Candidate)
      /\ calls \in Seq(0..MaxAttempts) /\ now \in Nat /\ MaxAttempts \in Nat
  BY RetryAssumption DEF TypeOK
<1>1. ASSUME UNCHANGED <<pc, index, calls, candidates, lastErr, result>>, now' = now \/ pc # "done"
      PROVE  Tried'
  BY <1>1 DEF Tried, FailsOver
<1>2. CASE Begin
  <2>1. pc = "idle" /\ UNCHANGED <<index, now, lastErr>>
    BY <1>2 DEF Begin, clock
  <2>2. CASE Return("unresolved") /\ UNCHANGED <<candidates, calls>>
    BY <2>1, <2>2 DEF Return, Tried, FailsOver, Transients
  <2>3. CASE /\ candidates' # <<>> /\ calls' = [i \in DOMAIN candidates' |-> 0]
             /\ pc' = "check"
    <3>1. index = 1
      BY <2>1 DEF Tried
    <3> QED
      BY <1>0, <2>1, <2>3, <3>1 DEF Tried, FailsOver
  <2> QED
    BY <1>2, <2>2, <2>3 DEF Begin
<1>3. CASE Wake
  BY <1>3 DEF Wake, Return, attemptVars, clock, Tried, FailsOver, Transients
<1>4. CASE Check
  BY <1>4 DEF Check, Return, attemptVars, Tried, FailsOver, Transients
<1>5. CASE Announce
  <2>1. index \in DOMAIN candidates
    <3>1. index \in Nat \ {0} /\ index <= Len(candidates)
      BY <1>5 DEF Announce, Tried
    <3> QED
      BY <1>0, <3>1
  <2>2. calls' = [calls EXCEPT ![index] = @ + 1] /\ calls[index] \in Nat
    BY <1>0, <1>5, <2>1 DEF Announce, Tried
  <2>3. \A i \in DOMAIN candidates : calls[i] \in Nat /\ calls'[i] >= calls[i]
    BY <1>0, <2>2 DEF Tried
  <2>4. calls'[index] >= 1
    BY <1>0, <2>1, <2>2 DEF Tried
  <2> QED
    BY <1>5, <1>0, <2>2, <2>3, <2>4 DEF Announce, attemptVars, Tried, FailsOver
<1>6. CASE Generate
  <2>1. /\ pc = "generate" /\ UNCHANGED <<index, candidates, calls, now, result>>
        /\ \/ pc' = "confirm" /\ lastErr' = lastErr
           \/ pc' = "complain" /\ lastErr' \in Errors
    BY <1>6 DEF Generate, Outcomes, Errors, Transients, attemptVars
  <2> QED
    BY <2>1 DEF Tried, FailsOver
<1>7. CASE Confirm
  BY <1>7 DEF Confirm, Return, attemptVars, clock, Tried, FailsOver, Transients
<1>8. CASE Complain
  <2>1. /\ pc = "complain" /\ UNCHANGED <<candidates, calls, now, lastErr>>
        /\ calls[index] >= 1 /\ index <= Len(candidates)
    BY <1>8 DEF Complain, Tried
  <2>2. CASE lastErr \notin Transients
    BY <1>8, <2>1, <2>2 DEF Complain, Return, Tried, FailsOver
  <2>3. CASE NextProvider /\ index < Len(candidates)
    <3>1. index' = index + 1 /\ pc' = "check"
      BY <2>3 DEF NextProvider
    <3> QED
      BY <1>0, <2>1, <2>3, <3>1 DEF Tried, FailsOver
  <2>4. CASE NextProvider /\ ~(index < Len(candidates))
    <3>1. pc' = "done" /\ index' = index
      BY <2>4 DEF NextProvider, Return
    <3>2. \A i \in DOMAIN candidates : i <= index
      BY <1>0, <2>4 DEF Tried
    <3>3. \A i \in DOMAIN candidates : calls[i] >= 1
      BY <1>0, <2>1, <3>2 DEF Tried
    <3> QED
      BY <2>1, <3>1, <3>3 DEF Tried, FailsOver
  <2>5. CASE pc' = "delay" /\ index' = index
    BY <2>1, <2>5, <1>8 DEF Complain, Tried, FailsOver
  <2> QED
    BY <1>8, <2>2, <2>3, <2>4, <2>5 DEF Complain
<1>9. CASE Save \/ Tick \/ Done \/ UNCHANGED vars
  BY <1>1, <1>9 DEF Save, Tick, Done, vars, attemptVars, clock
<1> QED
  BY <1>2, <1>3, <1>4, <1>5, <1>6, <1>7, <1>8, <1>9 DEF Next
-----------------------------------------------------------------------------
(* The types.                                                              *)

(* An attempt is counted as it begins; no candidate is called more often    *)
(* than it has attempts, and none before it is its turn.                    *)
Counted ==
  /\ pc = "idle" => attempt = 1
  /\ \A i \in DOMAIN candidates :
       /\ i > index => calls[i] = 0
       /\ i = index => calls[i] <= attempt
       /\ i = index /\ pc \in {"delay", "check", "announce"} => calls[i] < attempt

Invariant == TypeOK /\ Waits /\ Tried /\ Counted

LEMMA InvariantInit == Init => Invariant
<1> SUFFICES ASSUME Init PROVE Invariant
  OBVIOUS
<1>1. SettingsOK
  BY ProvidersAssumption DEF Init, Unsaved, SettingsOK
<1>2. TypeOK
  <2>1. candidates \in Seq(Candidate) /\ calls \in Seq(0..MaxAttempts) /\ candidates = <<>>
    BY DEF Init
  <2>2. /\ pc = "idle" /\ index = 1 /\ attempt = 1 /\ now = 0 /\ timer = 0 /\ cutoff = 0
        /\ lastErr = "none" /\ result = "none" /\ saves = 0 /\ tested = FALSE
    BY DEF Init
  <2>3. attempt \in 1..MaxAttempts /\ saves \in 0..MaxSaves
    BY <2>2, RetryAssumption
  <2>4. \A i \in DOMAIN candidates : FALSE
    BY <2>1
  <2>5. index \in Nat /\ now \in Nat /\ timer \in Nat /\ cutoff \in Nat
    BY <2>2
  <2>6. /\ pc \in {"idle", "delay", "check", "announce", "generate", "complain", "confirm", "done"}
        /\ lastErr \in Errors \union {"none"}
        /\ result \in Errors \union {"none", "response", "unresolved"}
        /\ tested \in BOOLEAN
    BY <2>2
  <2> QED
    BY <1>1, <2>1, <2>3, <2>4, <2>5, <2>6 DEF TypeOK
<1>3. Tried /\ Counted
  BY DEF Init, Tried, FailsOver, Counted
<1> QED
  BY <1>2, <1>3, WaitsInit DEF Invariant

LEMMA InvariantStep ==
  ASSUME Invariant, [Next]_vars
  PROVE  Invariant'
<1>0. /\ TypeOK /\ Waits /\ Waits' /\ Tried /\ Counted
      /\ SettingsOK /\ candidates \in Seq(Candidate) /\ index \in Nat
      /\ calls \in Seq(0..MaxAttempts) /\ DOMAIN calls = DOMAIN candidates
      /\ attempt \in 1..MaxAttempts /\ MaxAttempts \in Nat \ {0}
      /\ saves \in 0..MaxSaves /\ tested \in BOOLEAN /\ MaxSaves \in Nat /\ MaxRoute \in Nat
      /\ lastErr \in Errors \union {"none"}
  BY RetryAssumption, WaitsStep DEF Invariant, TypeOK, Tried
<1>t. now' \in Nat /\ timer' \in Nat /\ cutoff' \in Nat
  BY <1>0 DEF Waits
<1> SUFFICES TypeOK' /\ Counted'
  BY <1>0, TriedStep DEF Invariant
<1>1. ASSUME UNCHANGED <<settings, candidates, calls, saves, tested>>, index' \in Nat,
             attempt' \in 1..MaxAttempts, lastErr' \in Errors \union {"none"},
             result' \in Errors \union {"none", "response", "unresolved"},
             pc' \in {"idle", "delay", "check", "announce", "generate", "complain", "confirm", "done"}
      PROVE  TypeOK'
  <2>1. SettingsOK'
    BY <1>0, <1>1 DEF SettingsOK
  <2>2. /\ candidates' \in Seq(Candidate) /\ calls' \in Seq(0..MaxAttempts)
        /\ saves' \in 0..MaxSaves /\ tested' \in BOOLEAN
    BY <1>0, <1>1
  <2>3. \A i, j \in DOMAIN candidates' : i # j =>
          <<candidates'[i].provider, candidates'[i].model>>
            # <<candidates'[j].provider, candidates'[j].model>>
    BY <1>0, <1>1, Zenon DEF TypeOK
  <2> QED
    BY <2>1, <2>2, <2>3, <1>t, <1>1 DEF TypeOK
<1>2. ASSUME UNCHANGED <<settings, candidates, calls, saves, tested, index, attempt, lastErr>>,
             result' = result \/ result' \in Errors \union {"response"},
             \/ pc' = pc
             \/ pc' \in {"generate", "complain", "confirm", "done"}
             \/ pc \in {"delay", "check"} /\ pc' \in {"check", "announce"}
      PROVE  TypeOK' /\ Counted'
  <2>1. TypeOK'
    BY <1>0, <1>1, <1>2 DEF TypeOK
  <2>2. Counted'
    BY <1>0, <1>2 DEF Counted
  <2> QED
    BY <2>1, <2>2
<1>3. CASE Save
  <2>1. /\ saves' \in 0..MaxSaves
        /\ UNCHANGED <<pc, candidates, index, attempt, lastErr, result, calls>>
    BY <1>0, <1>3 DEF Save, attemptVars
  <2>4. SettingsOK' /\ tested' \in BOOLEAN
    <3>1. PICK req \in Request :
            UpdateSettings(req) /\ tested' = (Connects(req) /\ SameBlanks(req))
      BY <1>3 DEF Save
    <3> QED
      BY <1>0, <3>1, UpdateTyped
  <2>2. TypeOK'
    BY <1>0, <1>t, <2>1, <2>4 DEF TypeOK
  <2>3. Counted'
    BY <1>0, <2>1 DEF Counted
  <2> QED
    BY <2>2, <2>3
<1>4. CASE Begin
  <2>1. UNCHANGED <<settings, index, attempt, lastErr, saves, tested>> /\ pc = "idle"
    BY <1>4 DEF Begin
  <2>2. CASE Return("unresolved") /\ UNCHANGED <<candidates, calls>>
    <3>1. pc' = "done" /\ result' = "unresolved" /\ UNCHANGED <<candidates, calls>>
      BY <2>2 DEF Return
    <3>2. TypeOK'
      BY <1>0, <1>1, <2>1, <3>1 DEF TypeOK
    <3>3. Counted'
      BY <1>0, <2>1, <3>1 DEF Counted
    <3> QED
      BY <3>2, <3>3
  <2>3. ASSUME NEW override \in Names \union {"none"}, NEW route \in SeqOf(RouteEntry, MaxRoute),
               candidates' = Candidates(override, route),
               calls' = [i \in DOMAIN candidates' |-> 0],
               pc' = "check", UNCHANGED result
        PROVE  TypeOK' /\ Counted'
    <3>1. route \in Seq(Entry)
      <4>1. RouteEntry \subseteq Entry
        BY DEF RouteEntry
      <4>2. PICK n \in Nat : route \in [1..n -> RouteEntry]
        BY <1>0 DEF SeqOf
      <4>3. route \in [1..n -> Entry]
        BY <4>1, <4>2
      <4> QED
        BY <4>3
    <3>2. PICK list : list = Candidates(override, route)
      OBVIOUS
    <3>3. Listed(list)
      BY <1>0, <3>1, <3>2, CandidatesListed
    <3>4. /\ candidates' = list /\ list \in Seq(Candidate)
          /\ DOMAIN list = 1..Len(list) /\ Len(list) \in Nat
      BY <2>3, <3>2, <3>3 DEF Listed
    <3>5. calls' = [i \in 1..Len(list) |-> 0]
      BY <2>3, <3>4
    <3>6. calls' \in Seq(0..MaxAttempts)
      BY <1>0, <3>4, <3>5
    <3>7. TypeOK'
      BY <1>0, <1>t, <2>1, <2>3, <3>3, <3>4, <3>6 DEF TypeOK, SettingsOK, Listed
    <3>8. \A i \in DOMAIN candidates' : calls'[i] = 0
      BY <3>4, <3>5
    <3>9. attempt' = 1
      BY <1>0, <2>1 DEF Counted
    <3> QED
      BY <2>3, <3>7, <3>8, <3>9 DEF Counted
  <2> QED
    BY <1>4, <2>2, <2>3 DEF Begin
<1>5. CASE Tick
  BY <1>0, <1>2, <1>5 DEF Tick, attemptVars
<1>6. CASE Wake
  BY <1>0, <1>2, <1>6 DEF Wake, Return, attemptVars, Errors
<1>7. CASE Check
  BY <1>0, <1>2, <1>7 DEF Check, Return, attemptVars, Errors, Transients
<1>8. CASE Announce
  <2>1. /\ UNCHANGED <<settings, candidates, index, attempt, lastErr, result, saves, tested>>
        /\ pc = "announce" /\ pc' = "generate"
        /\ calls' = [calls EXCEPT ![index] = @ + 1]
    BY <1>8 DEF Announce, attemptVars
  <2>2. index \in DOMAIN candidates
    <3>1. index \in Nat \ {0} /\ index <= Len(candidates)
      BY <2>1, <1>0 DEF Tried
    <3> QED
      BY <1>0, <3>1
  <2>3. calls[index] \in Nat /\ calls[index] < attempt
    BY <1>0, <2>1, <2>2 DEF Counted
  <2>4. calls' \in Seq(0..MaxAttempts)
    BY <1>0, <2>1, <2>2, <2>3
  <2>5. TypeOK'
    BY <1>0, <1>t, <2>1, <2>4 DEF TypeOK, SettingsOK
  <2>6. /\ calls'[index] = calls[index] + 1
        /\ \A i \in DOMAIN candidates : i # index => calls'[i] = calls[i]
    BY <1>0, <2>1, <2>2
  <2>7. Counted'
    BY <1>0, <2>1, <2>3, <2>6 DEF Counted
  <2> QED
    BY <2>5, <2>7
<1>9. CASE Generate
  <2>1. /\ UNCHANGED <<settings, candidates, index, attempt, result, saves, tested, calls>>
        /\ pc = "generate" /\ pc' \in {"confirm", "complain"}
        /\ lastErr' \in Errors \union {"none"}
    BY <1>0, <1>9 DEF Generate, Outcomes, Errors, Transients, attemptVars
  <2>2. TypeOK'
    BY <1>0, <1>1, <2>1 DEF TypeOK
  <2>3. Counted'
    BY <1>0, <2>1 DEF Counted
  <2> QED
    BY <2>2, <2>3
<1>10. CASE Confirm
  BY <1>0, <1>2, <1>10 DEF Confirm, Return, attemptVars
<1>11. CASE Complain
  <2>1. /\ UNCHANGED <<settings, candidates, lastErr, saves, tested, calls>>
        /\ pc = "complain" /\ lastErr \in Errors
    BY <1>0, <1>11 DEF Complain, Tried
  <2>2. CASE Return(lastErr) /\ UNCHANGED <<index, attempt>>
    BY <1>2, <2>1, <2>2 DEF Return
  <2>3. CASE index' = index + 1 /\ attempt' = 1 /\ pc' = "check" /\ UNCHANGED result
    <3>1. TypeOK'
      BY <1>0, <1>1, <2>1, <2>3 DEF TypeOK
    <3>2. \A i \in DOMAIN candidates : i \in Nat
      BY <1>0
    <3>3. Counted'
      BY <1>0, <2>1, <2>3, <3>2 DEF Counted
    <3> QED
      BY <3>1, <3>3
  <2>4. CASE attempt' = attempt + 1 /\ attempt # MaxAttempts /\ pc' = "delay"
             /\ UNCHANGED <<index, result>>
    <3>1. TypeOK'
      BY <1>0, <1>1, <2>1, <2>4 DEF TypeOK
    <3>2. \A i \in DOMAIN candidates : calls[i] \in Nat
      BY <1>0
    <3>3. Counted'
      BY <1>0, <2>1, <2>4, <3>2 DEF Counted
    <3> QED
      BY <3>1, <3>3
  <2> QED
    BY <1>11, <2>2, <2>3, <2>4 DEF Complain, NextProvider
<1>12. CASE Done \/ UNCHANGED vars
  BY <1>0, <1>2, <1>12 DEF Done, vars, attemptVars, clock
<1> QED
  BY <1>3, <1>4, <1>5, <1>6, <1>7, <1>8, <1>9, <1>10, <1>11, <1>12 DEF Next

LEMMA InvariantAlways == Spec => []Invariant
BY InvariantInit, InvariantStep, PTL DEF Spec

(* Whatever the settings, overrides, routes and bounds: the candidates of  *)
(* a turn are a list of providers with a key from some slot, none of them  *)
(* there twice, and none is called more often than it has attempts.        *)
THEOREM CandidatesTyped == Spec => []TypeOK
<1>1. Invariant => TypeOK
  BY DEF Invariant
<1> QED
  BY <1>1, InvariantAlways, PTL

(* Whatever the providers, the attempts and the timing: a failure that may *)
(* pass is returned only after a call of every candidate or of all the     *)
(* time.                                                                   *)
THEOREM EveryCandidateIsTried == Spec => []FailsOver
<1>1. Invariant => FailsOver
  BY DEF Invariant, Tried
<1> QED
  BY <1>1, InvariantAlways, PTL
-----------------------------------------------------------------------------
(* Settings that were tested serve.                                        *)

(* The resolved provider, when it is known, is the first candidate of a     *)
(* turn without a route.                                                    *)
LEMMA FirstIsChosen ==
  ASSUME SettingsOK, ~Unknown(settings.mode, settings.provider)
  PROVE  Candidates("none", <<>>)[1] =
           AsCandidate([provider |-> settings.provider, model |-> "", url |-> ""])
<1> DEFINE first == [provider |-> settings.provider, model |-> "", url |-> ""]
           entries == <<first>> \o Fallback
           c == AsCandidate(first)
<1>1. Chosen("none") = settings.provider
  BY DEF Chosen
<1>2. first \in Entry /\ Fallback \in Seq(Entry) /\ Len(Fallback) \in {0, 1}
  <2>1. Fallback \in Seq(Entry) /\ Len(Fallback) <= 1
    BY ProvidersAssumption
  <2>2. Len(Fallback) \in {0, 1}
    <3>1. PICK k \in Nat : k = Len(Fallback)
      BY <2>1
    <3>2. k <= 1
      BY <2>1, <3>1
    <3>3. k = 0 \/ k = 1
      BY <3>2
    <3> QED
      BY <3>1, <3>3
  <2>3. first \in Entry
    BY DEF Entry, SettingsOK
  <2> HIDE DEF first
  <2> QED
    BY <2>1, <2>2, <2>3
<1>3. first.provider = settings.provider /\ first.model = ""
  OBVIOUS
<1> HIDE DEF first
<1>4. /\ entries \in Seq(Entry) /\ Len(entries) \in {1, 2} /\ entries[1] = first
      /\ <<>> \in Seq(Entry)
  <2>1. <<first>> \in Seq(Entry) /\ Len(<<first>>) = 1 /\ <<first>>[1] = first
    BY <1>2
  <2>2. PICK one \in Seq(Entry) : one = <<first>>
    BY <2>1
  <2>3. /\ one \o Fallback \in Seq(Entry) /\ Len(one \o Fallback) = 1 + Len(Fallback)
        /\ (one \o Fallback)[1] = first
    BY <1>2, <2>1, <2>2
  <2>4. Len(entries) = 1 + Len(Fallback)
    BY <2>2, <2>3
  <2>5. Len(entries) \in {1, 2}
    <3> HIDE DEF entries
    <3>1. PICK k \in {0, 1} : k = Len(Fallback)
      BY <1>2
    <3>2. 1 + k \in {1, 2}
      BY <3>1
    <3> QED
      BY <2>4, <3>1, <3>2
  <2> QED
    BY <1>2, <2>2, <2>3, <2>5
<1> HIDE DEF entries
<1>5. Usable(<<>>) = <<>>
  <2>1. PICK g : IsList(g, <<>>, Len(<<>>)) /\ Usable(<<>>) = g[Len(<<>>)]
    BY <1>4, UsableIsList
  <2> QED
    BY <2>1 DEF IsList
<1>6. Candidates("none", <<>>) = Usable(entries)
  BY <1>1, <1>5 DEF Candidates, entries, first
<1>7. c \in Candidate
  BY <1>2, <1>3, CandidateTyped
<1>8. PICK g : IsList(g, entries, Len(entries)) /\ Usable(entries) = g[Len(entries)]
  BY <1>4, UsableIsList
<1>9. g[0] = <<>> /\ g[1] = AppendCandidate(g[0], entries[1])
  BY <1>4, <1>8 DEF IsList
<1> HIDE DEF c
<1>10. g[1] = <<c>>
  <2>2. ~Seen(<<>>, c)
    BY DEF Seen
  <2>1. AppendCandidate(<<>>, first) = Append(<<>>, c)
    BY <1>3, <2>2 DEF AppendCandidate, c
  <2> QED
    BY <1>4, <1>9, <2>1
<1>11. Len(entries) = 2 => g[2] = AppendCandidate(g[1], entries[2])
  BY <1>4, <1>8 DEF IsList
<1>12. \A e : AppendCandidate(<<c>>, e)[1] = c
  <2> TAKE e
  <2>1. PICK d : d = AsCandidate(e)
    OBVIOUS
  <2>2. AppendCandidate(<<c>>, e) \in {<<c>>, Append(<<c>>, d)}
    BY <2>1 DEF AppendCandidate
  <2> QED
    BY <2>2
<1>13. g[Len(entries)][1] = c
  <2>1. CASE Len(entries) = 1
    BY <1>10, <2>1
  <2>2. CASE Len(entries) = 2
    <3>1. g[2] = AppendCandidate(<<c>>, entries[2])
      BY <1>10, <1>11, <2>2
    <3> QED
      BY <1>12, <2>2, <3>1
  <2> QED
    BY <1>4, <2>1, <2>2
<1> QED
  BY <1>6, <1>8, <1>13 DEF c, first

(* Who answers the settings' own calls. *)
SavedHost == IF settings.url = "" THEN settings.provider ELSE settings.url

(* What the test of a request leaves true of the row that it becomes. *)
Passed ==
  tested =>
    /\ settings.mode = "remote" /\ settings.provider \in Supported
    /\ (IF NeedsKey(settings.provider) THEN settings.key ELSE settings.provider) = SavedHost
    /\ SavedHost # "none"

LEMMA SavePasses ==
  ASSUME SettingsOK, NEW req \in Request, UpdateSettings(req),
         Connects(req), SameBlanks(req)
  PROVE  Passed'
<1> DEFINE c == Tested(req)
<1>1. /\ settings'.mode = Or(req.mode, settings.mode)
      /\ settings'.provider = Or(req.provider, settings.provider)
      /\ settings'.key = Or(req.key, settings.key)
      /\ settings'.url = Or(req.url, settings.url)
  BY DEF UpdateSettings
<1>2. /\ settings'.mode = Or(req.mode, EnvMode)
      /\ settings'.provider = Or(req.provider, EnvProvider)
      /\ settings'.url = Or(req.url, EnvUrl)
  BY <1>1 DEF SameBlanks, Or
<1>3. c.local = (settings'.mode = "local") /\ c.provider = settings'.provider
      /\ c.url = settings'.url
  BY <1>2 DEF Tested
<1>4. NeedsKey(settings'.provider) => c.key = settings'.key
  BY <1>1, <1>2 DEF Tested
<1>5. c.provider \in Supported /\ Works(c)
  BY DEF Connects
<1> HIDE DEF c
<1>6. settings'.mode \in Modes /\ SavedHost' \in Names
  <2>1. SettingsOK'
    BY UpdateTyped
  <2> QED
    BY <2>1, ProvidersAssumption DEF SettingsOK, SavedHost
<1>7. SavedHost' = Host(c)
  BY <1>3 DEF SavedHost, Host
<1>8. settings'.mode = "remote"
  BY <1>3, <1>5, <1>6 DEF Works, Modes
<1>9. (IF NeedsKey(settings'.provider) THEN settings'.key ELSE settings'.provider) = SavedHost'
  BY <1>3, <1>4, <1>5, <1>7 DEF Works
<1>10. SavedHost' # "none" /\ settings'.provider \in Supported
  BY <1>3, <1>5, <1>6, ProvidersAssumption
<1> QED
  BY <1>8, <1>9, <1>10 DEF Passed, NeedsKey

LEMMA PassedStep ==
  ASSUME TypeOK, Passed, [Next]_vars
  PROVE  Passed'
<1>1. CASE Save
  <2>1. PICK req \in Request :
          UpdateSettings(req) /\ tested' = (Connects(req) /\ SameBlanks(req))
    BY <1>1 DEF Save
  <2>2. CASE Connects(req) /\ SameBlanks(req)
    BY <2>1, <2>2, SavePasses DEF TypeOK
  <2>3. CASE ~(Connects(req) /\ SameBlanks(req))
    BY <2>1, <2>3 DEF Passed
  <2> QED
    BY <2>2, <2>3
<1>2. CASE ~Save
  <2>1. UNCHANGED <<settings, tested>>
    BY <1>2 DEF Next, Begin, Tick, Wake, Check, Announce, Generate, Confirm, Complain, Done, vars
  <2> QED
    BY <2>1 DEF Passed, SavedHost
<1> QED
  BY <1>1, <1>2

(* A request that passes the test of the settings page and is then saved,  *)
(* with no field left empty of which the environment and the row differ,   *)
(* serves the turns that ask for nothing else, whatever is in the          *)
(* environment and whatever was saved before: the worker finds a key for   *)
(* the saved provider and calls it first, at the address and with the key  *)
(* that were tested.  (Of OpenCode Zen this is not so; run provider_saved  *)
(* shows it.)                                                              *)
THEOREM TestedSettingsServe == Spec => []TestedIsServed
<1>1. TypeOK /\ Passed => TestedIsServed
  <2> SUFFICES ASSUME SettingsOK, Passed, tested, settings.provider # "opencode-zen"
               PROVE  Served
    BY DEF TypeOK, TestedIsServed
  <2> DEFINE p == settings.provider
             first == [provider |-> p, model |-> "", url |-> ""]
  <2>1. /\ settings.mode = "remote" /\ p \in Supported /\ SavedHost # "none"
        /\ (IF NeedsKey(p) THEN settings.key ELSE p) = SavedHost
    BY DEF Passed
  <2>2. Chosen("none") = p
    BY DEF Chosen
  <2>3. NeedsKey(p) => Slot(p) = IF p = "openrouter" THEN "openrouter" ELSE "openai"
    BY DEF NeedsKey, Slot
  <2>4. Slot(p) \in Slots
    BY DEF Slot, Slots
  <2>5. NeedsKey(p) => Keys[Slot(p)] = SavedHost
    BY <2>1, <2>4 DEF Keys
  <2>6. Resolves("none")
    BY <2>1, <2>2, <2>3, <2>5 DEF Resolves
  <2>7. Candidates("none", <<>>)[1] = AsCandidate(first)
    <3>1. ~Unknown(settings.mode, settings.provider)
      BY <2>1 DEF Unknown
    <3> QED
      BY <3>1, FirstIsChosen
  <2>8. PICK c : c = AsCandidate(first)
    OBVIOUS
  <2>9. /\ c.local = FALSE /\ c.provider = p /\ c.key = Keys[Slot(p)]
        /\ c.url = settings.url
    BY <2>1, <2>8 DEF AsCandidate, Or
  <2>10. Host(c) = SavedHost
    BY <2>9 DEF Host, SavedHost
  <2>11. Works(c)
    BY <2>1, <2>5, <2>9, <2>10 DEF Works
  <2> QED
    BY <2>6, <2>7, <2>8, <2>11 DEF Served
<1>2. Init => Passed
  BY DEF Init, Passed
<1>3. TypeOK /\ Passed /\ [Next]_vars => Passed'
  BY PassedStep
<1> QED
  BY <1>1, <1>2, <1>3, CandidatesTyped, PTL DEF Spec
=============================================================================
