-------------------------- MODULE ToolRunner_proofs --------------------------
(***************************************************************************)
(* Theorems about ToolRunner, for every number of requests, keys, cleanups *)
(* and cached answers: types, no live process outside the table, and one   *)
(* execution per key.                                                      *)
(***************************************************************************)
EXTENDS ToolRunner, SequenceTheorems, TLAPS

-----------------------------------------------------------------------------
(* What the operations of the cache keep.                                  *)

LEMMA RemoveAtFacts ==
  ASSUME NEW S, NEW s \in Seq(S), NEW n \in 1..Len(s)
  PROVE  /\ RemoveAt(s, n) \in Seq(S)
         /\ Len(RemoveAt(s, n)) = Len(s) - 1
         /\ \A i \in 1..(Len(s) - 1) : RemoveAt(s, n)[i] = IF i < n THEN s[i] ELSE s[i + 1]
<1> DEFINE left == SubSeq(s, 1, n - 1)
           right == SubSeq(s, n + 1, Len(s))
<1>1. Len(s) \in Nat /\ \A i \in 1..Len(s) : s[i] \in S
  OBVIOUS
<1>2. /\ left \in Seq(S) /\ Len(left) = n - 1
      /\ \A i \in 1..(n - 1) : left[i] = s[i]
  <2>1. \A i \in 1..(n - 1) : s[i] \in S
    BY <1>1
  <2> QED
    BY <1>1, <2>1, SubSeqProperties
<1>3. /\ right \in Seq(S) /\ Len(right) = Len(s) - n
      /\ \A i \in 1..(Len(s) - n) : right[i] = s[n + i]
  <2>1. \A i \in (n + 1)..Len(s) : s[i] \in S
    BY <1>1
  <2> QED
    BY <1>1, <2>1, SubSeqProperties
<1>4. RemoveAt(s, n) = left \o right
  BY DEF RemoveAt
<1> HIDE DEF left, right
<1>5. /\ left \o right \in Seq(S)
      /\ Len(left \o right) = Len(left) + Len(right)
      /\ \A i \in 1..(Len(left) + Len(right)) :
           (left \o right)[i] = IF i <= Len(left) THEN left[i] ELSE right[i - Len(left)]
  BY <1>2, <1>3, ConcatProperties
<1>6. ASSUME NEW i \in 1..(Len(s) - 1)
      PROVE  (left \o right)[i] = IF i < n THEN s[i] ELSE s[i + 1]
  <2>1. CASE i < n
    BY <1>1, <1>2, <1>3, <1>5, <2>1
  <2>2. CASE ~(i < n)
    <3>1. i - (n - 1) \in 1..(Len(s) - n) /\ n + (i - (n - 1)) = i + 1
      BY <1>1, <2>2
    <3>2. (left \o right)[i] = right[i - (n - 1)]
      BY <1>1, <1>2, <1>3, <1>5, <2>2
    <3> QED
      BY <1>3, <2>2, <3>1, <3>2
  <2> QED
    BY <2>1, <2>2
<1> QED
  BY <1>1, <1>2, <1>3, <1>4, <1>5, <1>6

LEMMA WithoutFacts ==
  ASSUME NEW k \in Keys, cache \in Seq(Entry)
  PROVE  /\ Without(k) \in Seq(Entry)
         /\ Len(Without(k)) <= Len(cache)
         /\ \A i \in DOMAIN Without(k) : \E j \in DOMAIN cache : Without(k)[i] = cache[j]
         /\ \A j \in DOMAIN cache : cache[j].key # k =>
              \E i \in DOMAIN Without(k) : Without(k)[i] = cache[j]
<1>1. CASE Cached(k) = {}
  BY <1>1 DEF Without
<1>2. CASE Cached(k) # {}
  <2> DEFINE n == CHOOSE i \in DOMAIN cache : cache[i].key = k
  <2>1. n \in DOMAIN cache /\ cache[n].key = k
    BY <1>2 DEF Cached, ToSet
  <2>2. n \in 1..Len(cache) /\ Len(cache) \in Nat /\ DOMAIN cache = 1..Len(cache)
    BY <2>1
  <2>3. Without(k) = RemoveAt(cache, n)
    BY <1>2 DEF Without
  <2> HIDE DEF n
  <2>4. /\ Without(k) \in Seq(Entry)
        /\ Len(Without(k)) = Len(cache) - 1
        /\ \A i \in 1..(Len(cache) - 1) : Without(k)[i] = IF i < n THEN cache[i] ELSE cache[i + 1]
    BY <2>2, <2>3, RemoveAtFacts
  <2>5. DOMAIN Without(k) = 1..(Len(cache) - 1)
    BY <2>4
  <2> HIDE DEF Without
  <2>6. ASSUME NEW i \in DOMAIN Without(k)
        PROVE  \E j \in DOMAIN cache : Without(k)[i] = cache[j]
    <3>1. i \in 1..(Len(cache) - 1) /\ i \in DOMAIN cache /\ i + 1 \in DOMAIN cache
      BY <2>2, <2>5
    <3>2. Without(k)[i] = cache[i] \/ Without(k)[i] = cache[i + 1]
      BY <2>4, <3>1
    <3> QED
      BY <3>1, <3>2, Zenon
  <2>7. ASSUME NEW j \in DOMAIN cache, cache[j].key # k
        PROVE  \E i \in DOMAIN Without(k) : Without(k)[i] = cache[j]
    <3>1. j \in 1..Len(cache) /\ j # n
      BY <2>1, <2>2, <2>7
    <3>2. CASE j < n
      <4>1. j \in 1..(Len(cache) - 1)
        BY <2>2, <3>1, <3>2
      <4> QED
        BY <2>4, <2>5, <3>2, <4>1
    <3>3. CASE j > n
      <4>1. j - 1 \in 1..(Len(cache) - 1) /\ ~(j - 1 < n) /\ (j - 1) + 1 = j
        BY <2>2, <3>1, <3>3
      <4>2. Without(k)[j - 1] = cache[j]
        BY <2>4, <4>1
      <4> QED
        BY <2>5, <4>1, <4>2
    <3> QED
      BY <2>2, <3>1, <3>2, <3>3
  <2> QED
    BY <2>2, <2>4, <2>6, <2>7
<1> QED
  BY <1>1, <1>2

(* The one step of the code that drops answers; each key it drops without  *)
(* keeping another answer of it is excused.                                *)
LEMMA RememberFacts ==
  ASSUME TypeOK, NEW r \in Requests, key[r] \in Keys, Remember(r)
  PROVE  /\ cache' \in Seq(Entry) /\ Len(cache') <= MaxEntries
         /\ excused' \subseteq Keys /\ excused \subseteq excused'
         /\ \A i \in DOMAIN cache' :
              \/ cache'[i] = [key |-> key[r], body |-> r] /\ ok[r]
              \/ \E j \in DOMAIN cache : cache'[i] = cache[j]
         /\ key[r] \notin excused' => \E i \in DOMAIN cache' : cache'[i].key = key[r]
         /\ \A j \in DOMAIN cache : cache[j].key \notin excused' =>
              \E i \in DOMAIN cache' : cache'[i].key = cache[j].key
<1> DEFINE e == [key |-> key[r], body |-> r]
           new == Append(Without(key[r]), e)
<1>1. CASE ~ok[r]
  BY <1>1 DEF Remember, TypeOK
<1>2. CASE ok[r]
  <2>1. /\ cache' = Pruned(new)
        /\ excused' = excused \union {d.key : d \in ToSet(new) \ ToSet(Pruned(new))}
    BY <1>2 DEF Remember
  <2>2. cache \in Seq(Entry) /\ e \in Entry /\ e.key = key[r] /\ Len(cache) <= MaxEntries
    BY DEF TypeOK, Entry
  <2>3. /\ Without(key[r]) \in Seq(Entry) /\ Len(Without(key[r])) <= Len(cache)
        /\ \A i \in DOMAIN Without(key[r]) : \E j \in DOMAIN cache : Without(key[r])[i] = cache[j]
        /\ \A j \in DOMAIN cache : cache[j].key # key[r] =>
             \E i \in DOMAIN Without(key[r]) : Without(key[r])[i] = cache[j]
    BY <2>2, WithoutFacts
  <2> DEFINE w == Without(key[r])
  <2> HIDE DEF w
  <2>4. w \in Seq(Entry) /\ Len(w) <= Len(cache) /\ new = Append(w, e)
    BY <2>3 DEF w
  <2> HIDE DEF new, e
  <2>5. /\ new \in Seq(Entry) /\ Len(new) = Len(w) + 1 /\ new # <<>>
        /\ \A i \in 1..Len(w) : new[i] = w[i]
        /\ new[Len(w) + 1] = e
    BY <2>2, <2>4, AppendProperties
  <2>6. /\ Len(new) \in Nat /\ DOMAIN new = 1..Len(new) /\ DOMAIN w = 1..Len(w) /\ Len(w) \in Nat
        /\ Len(cache) \in Nat
    BY <2>2, <2>4, <2>5
  <2>7. \A i \in DOMAIN new : new[i] = e \/ \E j \in DOMAIN cache : new[i] = cache[j]
    <3> TAKE i \in DOMAIN new
    <3>1. CASE i \in 1..Len(w)
      BY <2>3, <2>5, <2>6, <3>1 DEF w
    <3>2. CASE i = Len(w) + 1
      BY <2>5, <3>2
    <3> QED
      BY <2>5, <2>6, <3>1, <3>2
  <2>8. \E i \in DOMAIN new : new[i] = e
    BY <2>5, <2>6
  <2>9. \A j \in DOMAIN cache : \E i \in DOMAIN new : new[i].key = cache[j].key
    <3> TAKE j \in DOMAIN cache
    <3>1. CASE cache[j].key = key[r]
      BY <2>2, <2>8, <3>1
    <3>2. CASE cache[j].key # key[r]
      <4>1. PICK i \in DOMAIN w : w[i] = cache[j]
        BY <2>3, <3>2 DEF w
      <4>2. i \in DOMAIN new /\ new[i] = w[i]
        BY <2>5, <2>6
      <4> QED
        BY <4>1, <4>2
    <3> QED
      BY <3>1, <3>2
  <2>10. /\ Pruned(new) \in Seq(Entry) /\ Len(Pruned(new)) <= MaxEntries
         /\ \A i \in DOMAIN Pruned(new) : \E j \in DOMAIN new : Pruned(new)[i] = new[j]
    <3>1. CASE Len(new) > MaxEntries
      <4>1. /\ Tail(new) \in Seq(Entry) /\ Len(Tail(new)) = Len(new) - 1
            /\ \A i \in 1..Len(Tail(new)) : Tail(new)[i] = new[i + 1]
        BY <2>5, HeadTailProperties
      <4>2. \A i \in DOMAIN Tail(new) : i + 1 \in DOMAIN new /\ i \in 1..Len(Tail(new))
        BY <2>6, <4>1
      <4>3. Len(new) - 1 <= MaxEntries
        BY <2>2, <2>4, <2>5, <2>6, RunnerAssumption
      <4> QED
        BY <3>1, <4>1, <4>2, <4>3 DEF Pruned
    <3>2. CASE ~(Len(new) > MaxEntries)
      BY <2>5, <2>6, <3>2, RunnerAssumption DEF Pruned
    <3> QED
      BY <3>1, <3>2
  <2>11. ASSUME NEW i \in DOMAIN new, new[i].key \notin excused'
         PROVE  \E j \in DOMAIN cache' : cache'[j].key = new[i].key
    <3>1. new[i] \in ToSet(new)
      BY DEF ToSet
    <3>2. new[i] \in ToSet(Pruned(new))
      BY <2>1, <2>11, <3>1
    <3>3. PICK j \in DOMAIN Pruned(new) : Pruned(new)[j] = new[i]
      BY <3>2 DEF ToSet
    <3> QED
      BY <2>1, <3>3
  <2>12. excused' \subseteq Keys /\ excused \subseteq excused'
    <3>1. \A i \in DOMAIN new : new[i] \in Entry
      BY <2>5, <2>6
    <3>2. \A d \in ToSet(new) : d.key \in Keys
      BY <3>1 DEF ToSet, Entry
    <3>3. excused \subseteq Keys
      BY DEF TypeOK
    <3> QED
      BY <2>1, <3>2, <3>3
  <2>13. \A i \in DOMAIN cache' : cache'[i] = e \/ \E j \in DOMAIN cache : cache'[i] = cache[j]
    BY <2>1, <2>7, <2>10
  <2>14. key[r] \notin excused' => \E i \in DOMAIN cache' : cache'[i].key = key[r]
    BY <2>2, <2>8, <2>11
  <2>15. \A j \in DOMAIN cache : cache[j].key \notin excused' =>
           \E i \in DOMAIN cache' : cache'[i].key = cache[j].key
    <3> SUFFICES ASSUME NEW j \in DOMAIN cache, cache[j].key \notin excused'
                 PROVE  \E i \in DOMAIN cache' : cache'[i].key = cache[j].key
      OBVIOUS
    <3>1. PICK n \in DOMAIN new : new[n].key = cache[j].key
      BY <2>9
    <3> QED
      BY <2>11, <3>1
  <2> QED
    BY <1>2, <2>1, <2>10, <2>12, <2>13, <2>14, <2>15 DEF e
<1> QED
  BY <1>1, <1>2

-----------------------------------------------------------------------------
(* Types, with what the program counter says of the key and of the request *)
(* that has not come to spawn yet.                                         *)

Early(r) == at[r] \in {"idle", "looked", "starting", "hit"}

Placed ==
  \A r \in Requests :
    /\ at[r] # "idle" => key[r] \in Keys
    /\ at[r] = "starting" => key[r] \in StartKeys
    /\ at[r] = "waiting" => key[r] \in StopKeys
    /\ Early(r) => r \notin ran /\ ~ok[r]
    /\ at[r] = "waiting" => ~ok[r]
    /\ Early(r) => info[r] = "none" /\ os[r] = "none"

Shape == TypeOK /\ Placed

LEMMA ShapeInit == Init => Shape
<1> SUFFICES ASSUME Init PROVE Shape
  OBVIOUS
<1>1. cache \in Seq(Entry) /\ Len(cache) <= MaxEntries /\ cleanups \in 0..MaxCleanups
  BY RunnerAssumption DEF Init
<1>2. TypeOK
  BY <1>1 DEF Init, TypeOK
<1>3. Placed
  BY DEF Init, Placed, Early, Processes
<1> QED
  BY <1>2, <1>3 DEF Shape

LEMMA ShapeStep ==
  ASSUME Shape, [Next]_vars
  PROVE  Shape'
<1> USE RunnerAssumption
<1> USE DEF Shape, vars, requestVars, processVars, history
<1>1. ASSUME NEW r \in Requests, NEW k \in Keys, Arrive(r, k)
      PROVE  Shape'
  <2>1. \A e \in Cached(k) : e.body \in Requests
    <3>1. \A i \in DOMAIN cache : cache[i] \in Entry
      BY DEF TypeOK
    <3> QED
      BY <3>1 DEF Cached, ToSet, Entry
  <2>2. at' = [at EXCEPT ![r] = "hit"] \/ at' = [at EXCEPT ![r] = "looked"]
    BY <1>1 DEF Arrive
  <2>3. reply' \in [Requests -> Requests \union {None}]
    BY <1>1, <2>1 DEF Arrive, TypeOK
  <2>4. excused' \subseteq Keys
    BY <1>1 DEF Arrive, TypeOK
  <2>5. TypeOK'
    BY <1>1, <2>2, <2>3, <2>4 DEF Arrive, TypeOK
  <2>6. Placed'
    BY <1>1, <2>2 DEF Arrive, TypeOK, Placed, Early
  <2> QED
    BY <2>5, <2>6
<1>2. ASSUME NEW r \in Requests, AnswerHit(r)
      PROVE  Shape'
  BY <1>2 DEF AnswerHit, TypeOK, Placed, Early
<1>3. ASSUME NEW r \in Requests, Answer(r)
      PROVE  Shape'
  <2>1. key[r] \in Keys
    BY <1>3 DEF Answer, Placed
  <2>2. cache' \in Seq(Entry) /\ Len(cache') <= MaxEntries /\ excused' \subseteq Keys
    BY <1>3, <2>1, RememberFacts DEF Answer
  <2> QED
    BY <1>3, <2>2 DEF Answer, TypeOK, Placed, Early
<1>4. ASSUME NEW r \in Requests, StartPrepare(r)
      PROVE  Shape'
  <2>1. TypeOK'
    BY <1>4 DEF StartPrepare, Forgettable, Forget, TypeOK
  <2>2. Placed'
    BY <1>4 DEF StartPrepare, Forgettable, Forget, TypeOK, Placed, Early, Processes
  <2> QED
    BY <2>1, <2>2
<1>5. ASSUME NEW r \in Requests, StartFails(r)
      PROVE  Shape'
  <2>1. TypeOK'
    BY <1>5 DEF StartFails, Emit, TypeOK
  <2>2. Placed'
    BY <1>5 DEF StartFails, Emit, TypeOK, Placed, Early
  <2> QED
    BY <2>1, <2>2
<1>6. ASSUME NEW r \in Requests, Spawn(r)
      PROVE  Shape'
  <2>1. TypeOK'
    BY <1>6 DEF Spawn, Emit, Processes, TypeOK
  <2>2. Placed'
    BY <1>6 DEF Spawn, Emit, Processes, TypeOK, Placed, Early
  <2> QED
    BY <2>1, <2>2
<1>7. ASSUME NEW r \in Requests, StopUnknown(r) \/ StopOver(r) \/ StopSeen(r)
      PROVE  Shape'
  <2>1. TypeOK'
    BY <1>7 DEF StopUnknown, StopOver, StopSeen, Emit, TypeOK
  <2>2. Placed'
    BY <1>7 DEF StopUnknown, StopOver, StopSeen, Emit, TypeOK, Placed, Early
  <2> QED
    BY <2>1, <2>2
<1>8. ASSUME NEW r \in Requests, StopForced(r)
      PROVE  Shape'
  <2>1. target[key[r]] \in Processes
    BY <1>8 DEF StopForced, TypeOK
  <2>2. TypeOK'
    BY <1>8, <2>1 DEF StopForced, Killed, Emit, Processes, TypeOK
  <2>3. Placed'
    BY <1>8, <2>1 DEF StopForced, Killed, Emit, Processes, TypeOK, Placed, Early
  <2> QED
    BY <2>2, <2>3
<1>9. ASSUME NEW r \in Requests, StopAsked(r)
      PROVE  Shape'
  BY <1>9 DEF StopAsked, TypeOK, Placed, Early
<1>10. ASSUME NEW r \in Requests, StopGrace(r)
       PROVE  Shape'
  <2>1. target[key[r]] \in Processes
    BY <1>10 DEF StopGrace, TypeOK, Placed
  <2>2. TypeOK'
    BY <1>10, <2>1 DEF StopGrace, Killed, Emit, Processes, TypeOK
  <2>3. Placed'
    BY <1>10, <2>1 DEF StopGrace, Killed, Emit, Processes, TypeOK, Placed, Early
  <2> QED
    BY <2>2, <2>3
<1>11. ASSUME NEW p \in Processes, Exit(p) \/ OnError(p) \/ OnClose(p)
       PROVE  Shape'
  BY <1>11 DEF Exit, OnError, OnClose, TypeOK, Placed, Early, Processes
<1>12. CASE Expire
  <2>1. /\ cache \in Seq(Entry) /\ cache # <<>>
        /\ Tail(cache) \in Seq(Entry) /\ Len(Tail(cache)) = Len(cache) - 1 /\ Len(cache) \in Nat
        /\ Head(cache) \in Entry
    BY <1>12, HeadTailProperties DEF Expire, TypeOK
  <2>2. Head(cache).key \in Keys
    BY <2>1 DEF Entry
  <2>3. cache' = Tail(cache) /\ excused' \subseteq Keys
    BY <1>12, <2>2 DEF Expire, TypeOK
  <2>4. Len(cache') <= MaxEntries
    <3>1. Len(cache) <= MaxEntries /\ MaxEntries \in Nat
      BY DEF TypeOK
    <3>2. Len(Tail(cache)) <= MaxEntries
      BY <2>1, <3>1
    <3> QED
      BY <2>3, <3>2
  <2>5. TypeOK'
    BY <1>12, <2>1, <2>3, <2>4 DEF Expire, TypeOK
  <2>6. Placed'
    BY <1>12 DEF Expire, Placed, Early
  <2> QED
    BY <2>5, <2>6
<1>13. CASE List
  <2>1. TypeOK'
    BY <1>13 DEF List, Forgettable, Forget, Processes, TypeOK
  <2>2. Placed'
    BY <1>13 DEF List, Forgettable, Forget, Processes, TypeOK, Placed, Early
  <2> QED
    BY <2>1, <2>2
<1>14. CASE Cleanup
  <2>1. TypeOK'
    BY <1>14 DEF Cleanup, Killed, Forgettable, Forget, Processes, TypeOK
  <2>2. Placed'
    BY <1>14 DEF Cleanup, Killed, Forgettable, Forget, Processes, TypeOK, Placed, Early
  <2> QED
    BY <2>1, <2>2
<1>15. CASE UNCHANGED vars
  BY <1>15 DEF TypeOK, Placed, Early
<1> QED
  BY <1>1, <1>2, <1>3, <1>4, <1>5, <1>6, <1>7, <1>8, <1>9, <1>10, <1>11, <1>12, <1>13,
     <1>14, <1>15 DEF Next, RequestStep

LEMMA ShapeAlways == Spec => []Shape
BY ShapeInit, ShapeStep, PTL DEF Spec

(* TypeOK: the cache keeps to its limit, every request to the places of    *)
(* its code.                                                               *)
THEOREM TypeCorrect == Spec => []TypeOK
<1>1. Shape => TypeOK
  BY DEF Shape
<1> QED
  BY <1>1, ShapeAlways, PTL

-----------------------------------------------------------------------------
(* A process that is alive is in the table and marked running: inductive   *)
(* as it stands.                                                           *)

LEMMA AliveStep ==
  ASSUME Shape, AliveIsListed, [Next]_vars
  PROVE  AliveIsListed'
<1> USE DEF Shape, AliveIsListed, vars, requestVars, processVars, history
<1>1. ASSUME NEW r \in Requests, RequestStep(r)
      PROVE  AliveIsListed'
  BY <1>1 DEF RequestStep, AnswerHit, Answer, StartPrepare, StartFails, Spawn, StopUnknown,
     StopOver, StopForced, StopAsked, StopSeen, StopGrace, Emit, Killed, Forgettable, Forget,
     TypeOK, Processes
<1>2. ASSUME NEW r \in Requests, NEW k \in Keys, Arrive(r, k)
      PROVE  AliveIsListed'
  BY <1>2 DEF Arrive
<1>3. ASSUME NEW p \in Processes, Exit(p) \/ OnError(p) \/ OnClose(p)
      PROVE  AliveIsListed'
  BY <1>3 DEF Exit, OnError, OnClose, TypeOK
<1>4. CASE Expire \/ List \/ Cleanup
  BY <1>4 DEF Expire, List, Cleanup, Killed, Forgettable, Forget, TypeOK
<1>5. CASE UNCHANGED vars
  BY <1>5
<1> QED
  BY <1>1, <1>2, <1>3, <1>4, <1>5 DEF Next

(* AliveIsListed: no order of starts, stops, events, prunings and cleanups *)
(* loses a live process from the table.                                    *)
THEOREM AliveAlwaysListed == Spec => []AliveIsListed
<1>1. Init => AliveIsListed
  BY DEF Init, AliveIsListed
<1> QED
  BY <1>1, AliveStep, ShapeAlways, PTL DEF Spec

-----------------------------------------------------------------------------
(* One execution per key.  For a key that is not excused: no two of its    *)
(* requests are in flight, none is in flight while its answer is cached,   *)
(* and the answer of one that executed its tool and is done is cached.     *)

HasAnswer(k) == \E i \in DOMAIN cache : cache[i].key = k

Alone ==
  \A q, r \in Requests :
    q # r /\ InFlight(q) /\ InFlight(r) /\ key[q] = key[r] => key[q] \in excused
Missed == \A r \in Requests : InFlight(r) /\ HasAnswer(key[r]) => key[r] \in excused
Kept == \A r \in ran : at[r] = "done" => key[r] \in excused \/ HasAnswer(key[r])

OnceInv == Alone /\ Missed /\ Kept /\ OncePerKey

LEMMA OnceInit == Init => OnceInv
BY DEF Init, OnceInv, Alone, Missed, Kept, OncePerKey, InFlight

(* A request that executes its tool was in flight: no other of its key is  *)
(* in flight, and none that is done has executed it.                       *)
LEMMA RanAlone ==
  ASSUME Shape, OnceInv, NEW r \in Requests, InFlight(r), NEW q \in ran, q # r, key[q] = key[r]
  PROVE  key[r] \in excused
<1>1. q \in Requests /\ (InFlight(q) \/ at[q] = "done")
  BY DEF Shape, TypeOK, Placed, Early, InFlight
<1>2. CASE InFlight(q)
  BY <1>1, <1>2 DEF OnceInv, Alone
<1>3. CASE at[q] = "done"
  BY <1>3 DEF OnceInv, Kept, Missed
<1> QED
  BY <1>1, <1>2, <1>3

(* A step that neither begins nor answers a request. *)
LEMMA OnceQuiet ==
  ASSUME Shape, OnceInv, UNCHANGED <<key, cache, excused>>,
         \A r \in Requests : InFlight(r)' => InFlight(r),
         \A r \in ran' : at'[r] = "done" => at[r] = "done" /\ r \in ran,
         ran' = ran \/ \E r \in Requests : InFlight(r) /\ ran' = ran \union {r}
  PROVE  OnceInv'
<1>1. Alone' /\ Missed'
  BY DEF OnceInv, Alone, Missed, HasAnswer
<1>2. Kept'
  BY DEF OnceInv, Kept, HasAnswer
<1>3. OncePerKey'
  <2>1. CASE ran' = ran
    BY <2>1 DEF OnceInv, OncePerKey
  <2>2. ASSUME NEW r \in Requests, InFlight(r), ran' = ran \union {r}
        PROVE  OncePerKey'
    BY <2>2, RanAlone DEF OnceInv, OncePerKey
  <2> QED
    BY <2>1, <2>2
<1> QED
  BY <1>1, <1>2, <1>3 DEF OnceInv

LEMMA OnceStep ==
  ASSUME Shape, OnceInv, [Next]_vars
  PROVE  OnceInv'
<1> USE DEF vars, requestVars, processVars, history
<1>1. ASSUME NEW r \in Requests, NEW k \in Keys, Arrive(r, k)
      PROVE  OnceInv'
  <2>1. /\ at[r] = "idle" /\ r \notin ran /\ ~InFlight(r)
        /\ key' = [key EXCEPT ![r] = k] /\ UNCHANGED <<cache, ran>> /\ excused \subseteq excused'
        /\ key \in [Requests -> Keys \union {None}] /\ at \in [Requests -> {"idle", "looked",
              "starting", "waiting", "emitting", "hit", "done"}]
        /\ ran \subseteq Requests
    BY <1>1 DEF Arrive, Shape, TypeOK, Placed, Early, InFlight
  <2>2. CASE Cached(k) # {}
    <3>1. at' = [at EXCEPT ![r] = "hit"] /\ UNCHANGED excused
      BY <1>1, <2>2 DEF Arrive
    <3>2. ~InFlight(r)' /\ \A q \in Requests \ {r} : InFlight(q)' = InFlight(q) /\ key'[q] = key[q]
      BY <2>1, <3>1 DEF InFlight
    <3>3. Alone' /\ Missed'
      BY <2>1, <3>1, <3>2 DEF OnceInv, Alone, Missed, HasAnswer
    <3>4. Kept' /\ OncePerKey'
      BY <2>1, <3>1 DEF OnceInv, Kept, OncePerKey, HasAnswer
    <3> QED
      BY <3>3, <3>4 DEF OnceInv
  <2>3. CASE Cached(k) = {}
    <3>1. /\ at' = [at EXCEPT ![r] = "looked"]
          /\ (\E q \in Requests : key[q] = k /\ InFlight(q)) => k \in excused'
      BY <1>1, <2>3 DEF Arrive
    <3>2. ~HasAnswer(k)' /\ key'[r] = k
      BY <2>1, <2>3 DEF Cached, ToSet, HasAnswer
    <3>3. \A q \in Requests \ {r} : InFlight(q)' = InFlight(q) /\ key'[q] = key[q]
      BY <2>1, <3>1 DEF InFlight
    <3>4. Alone'
      BY <2>1, <3>1, <3>2, <3>3 DEF OnceInv, Alone
    <3>5. Missed'
      BY <2>1, <3>2, <3>3 DEF OnceInv, Missed, HasAnswer
    <3>6. Kept' /\ OncePerKey'
      BY <2>1, <3>1, <3>3 DEF OnceInv, Kept, OncePerKey, HasAnswer
    <3> QED
      BY <3>4, <3>5, <3>6 DEF OnceInv
  <2> QED
    BY <2>2, <2>3
<1>2. ASSUME NEW r \in Requests, Answer(r)
      PROVE  OnceInv'
  <2>1. /\ at[r] = "emitting" /\ InFlight(r) /\ key[r] \in Keys
        /\ at' = [at EXCEPT ![r] = "done"] /\ UNCHANGED <<key, ran>>
        /\ at \in [Requests -> {"idle", "looked", "starting", "waiting", "emitting", "hit", "done"}]
        /\ ran \subseteq Requests
    BY <1>2 DEF Answer, Shape, TypeOK, Placed, InFlight
  <2>2. ~InFlight(r)' /\ \A q \in Requests \ {r} : InFlight(q)' = InFlight(q) /\ at'[q] = at[q]
    BY <2>1 DEF InFlight
  <2>3. /\ excused \subseteq excused'
        /\ \A k : HasAnswer(k)' => k = key[r] \/ HasAnswer(k)
        /\ key[r] \notin excused' => HasAnswer(key[r])'
        /\ \A k : HasAnswer(k) /\ k \notin excused' => HasAnswer(k)'
    <3>1. Remember(r) /\ TypeOK
      BY <1>2 DEF Answer, Shape
    <3> QED
      BY <2>1, <3>1, RememberFacts DEF HasAnswer
  <2>4. Alone'
    BY <2>1, <2>2, <2>3 DEF OnceInv, Alone
  <2>5. Missed'
    BY <2>1, <2>2, <2>3 DEF OnceInv, Missed, Alone
  <2>6. Kept'
    BY <2>1, <2>2, <2>3 DEF OnceInv, Kept
  <2>7. OncePerKey'
    BY <2>1, <2>3 DEF OnceInv, OncePerKey
  <2> QED
    BY <2>4, <2>5, <2>6, <2>7 DEF OnceInv
<1>3. CASE Expire
  <2>1. /\ cache \in Seq(Entry) /\ cache # <<>>
        /\ cache' = Tail(cache) /\ excused' = excused \union {Head(cache).key}
        /\ UNCHANGED <<at, key, ran>>
    BY <1>3 DEF Expire, Shape, TypeOK
  <2>2. /\ Len(Tail(cache)) = Len(cache) - 1 /\ Len(cache) \in Nat
        /\ DOMAIN Tail(cache) = 1..(Len(cache) - 1) /\ DOMAIN cache = 1..Len(cache)
        /\ \A i \in 1..(Len(cache) - 1) : Tail(cache)[i] = cache[i + 1]
        /\ Head(cache) = cache[1]
    BY <2>1, HeadTailProperties
  <2>3. \A k : HasAnswer(k)' => HasAnswer(k)
    <3>1. \A i \in DOMAIN Tail(cache) : i + 1 \in DOMAIN cache /\ Tail(cache)[i] = cache[i + 1]
      BY <2>2
    <3> QED
      BY <2>1, <3>1 DEF HasAnswer
  <2>4. ASSUME NEW k, HasAnswer(k), k \notin excused'
        PROVE  HasAnswer(k)'
    <3>1. PICK i \in DOMAIN cache : cache[i].key = k
      BY <2>4 DEF HasAnswer
    <3>2. i # 1
      BY <2>1, <2>2, <2>4, <3>1
    <3>3. i - 1 \in DOMAIN Tail(cache) /\ Tail(cache)[i - 1] = cache[i]
      BY <2>2, <3>2
    <3> QED
      BY <2>1, <3>1, <3>3 DEF HasAnswer
  <2>5. Alone' /\ OncePerKey'
    BY <2>1 DEF OnceInv, Alone, OncePerKey, InFlight
  <2>6. Missed'
    BY <2>1, <2>3 DEF OnceInv, Missed, InFlight
  <2>7. Kept'
    BY <2>1, <2>4 DEF OnceInv, Kept
  <2> QED
    BY <2>5, <2>6, <2>7 DEF OnceInv
<1>4. ASSUME NEW r \in Requests, AnswerHit(r)
      PROVE  OnceInv'
  BY <1>4, OnceQuiet DEF AnswerHit, InFlight, Shape, TypeOK, Placed, Early
<1>5. ASSUME NEW r \in Requests,
             StartPrepare(r) \/ StartFails(r) \/ StopUnknown(r) \/ StopSeen(r) \/ StopGrace(r)
      PROVE  OnceInv'
  BY <1>5, OnceQuiet DEF StartPrepare, StartFails, StopUnknown, StopSeen, StopGrace, Emit,
     InFlight, Shape, TypeOK
<1>6. ASSUME NEW r \in Requests, Spawn(r) \/ StopOver(r) \/ StopForced(r) \/ StopAsked(r)
      PROVE  OnceInv'
  BY <1>6, OnceQuiet DEF Spawn, StopOver, StopForced, StopAsked, Emit, InFlight, Shape, TypeOK
<1>7. ASSUME NEW p \in Processes, Exit(p) \/ OnError(p) \/ OnClose(p)
      PROVE  OnceInv'
  BY <1>7, OnceQuiet DEF Exit, OnError, OnClose, InFlight
<1>8. CASE List \/ Cleanup \/ UNCHANGED vars
  BY <1>8, OnceQuiet DEF List, Cleanup, InFlight
<1> QED
  BY <1>1, <1>2, <1>3, <1>4, <1>5, <1>6, <1>7, <1>8 DEF Next, RequestStep

(* OncePerKey: for any number of requests and any cache, a key executes    *)
(* its tool a second time only in the named cases.                         *)
THEOREM ExecutesOnce == Spec => []OncePerKey
<1>1. OnceInv => OncePerKey
  BY DEF OnceInv
<1>2. Shape /\ OnceInv /\ [Next]_vars => OnceInv'
  BY OnceStep
<1> QED
  BY <1>1, <1>2, OnceInit, ShapeAlways, PTL DEF Spec

-----------------------------------------------------------------------------
(* A process that process.stop answered for: known, not alive, and it      *)
(* cannot be born again, because only a request without a process spawns.  *)

Over(p) == info[p] # "none" /\ os[p] # "alive"

Known == \A r \in Requests : at[r] = "waiting" => info[target[key[r]]] # "none"
Stopped == \A r \in Requests : key[r] \in StopKeys /\ ok[r] => Over(target[key[r]])
OwnCached == \A i \in DOMAIN cache : key[cache[i].body] = cache[i].key /\ at[cache[i].body] = "done"
OwnReply ==
  \A r \in Requests :
    reply[r] # None => at[r] # "idle" /\ key[reply[r]] = key[r] /\ at[reply[r]] # "idle"

StopInv == Known /\ Stopped /\ OwnCached /\ OwnReply

LEMMA StopInit == Init => StopInv
BY DEF Init, StopInv, Known, Stopped, OwnCached, OwnReply

(* Nothing brings a process that is over back. *)
LEMMA OverStays ==
  ASSUME Shape, [Next]_vars, NEW p \in Processes
  PROVE  (info[p] # "none" => info'[p] # "none") /\ (Over(p) => Over(p)')
<1> USE DEF vars, requestVars, processVars, history, Over, Shape
<1>1. ASSUME NEW r \in Requests, RequestStep(r)
      PROVE  (info[p] # "none" => info'[p] # "none") /\ (Over(p) => Over(p)')
  BY <1>1 DEF RequestStep, AnswerHit, Answer, StartPrepare, StartFails, Spawn, StopUnknown,
     StopOver, StopForced, StopAsked, StopSeen, StopGrace, Emit, Killed, Forgettable, Forget,
     TypeOK, Placed, Early, Processes
<1>2. ASSUME NEW q \in Processes, Exit(q) \/ OnError(q) \/ OnClose(q)
      PROVE  (info[p] # "none" => info'[p] # "none") /\ (Over(p) => Over(p)')
  BY <1>2 DEF Exit, OnError, OnClose, TypeOK
<1>3. CASE List \/ Cleanup \/ Expire \/ UNCHANGED vars
  BY <1>3 DEF List, Cleanup, Expire, Forgettable, Forget, Killed, TypeOK
<1>4. ASSUME NEW r \in Requests, NEW k \in Keys, Arrive(r, k)
      PROVE  (info[p] # "none" => info'[p] # "none") /\ (Over(p) => Over(p)')
  BY <1>4 DEF Arrive
<1> QED
  BY <1>1, <1>2, <1>3, <1>4 DEF Next

LEMMA StopStep ==
  ASSUME Shape, AliveIsListed, StopInv, [Next]_vars
  PROVE  StopInv'
<1> USE DEF vars, requestVars, processVars, history
<1>1. /\ at \in [Requests -> {"idle", "looked", "starting", "waiting", "emitting", "hit", "done"}]
      /\ key \in [Requests -> Keys \union {None}] /\ ok \in [Requests -> BOOLEAN]
      /\ target \in [StopKeys -> Processes] /\ target' = target
      /\ reply \in [Requests -> Requests \union {None}] /\ None \notin Requests
      /\ \A i \in DOMAIN cache : cache[i].body \in Requests
  <2>1. \A i \in DOMAIN cache : cache[i] \in Entry
    BY DEF Shape, TypeOK
  <2>2. target' = target
    BY DEF Next, RequestStep, Arrive, AnswerHit, Answer, StartPrepare, StartFails, Spawn,
       StopUnknown, StopOver, StopForced, StopAsked, StopSeen, StopGrace, Emit, Exit, OnError,
       OnClose, Expire, List, Cleanup
  <2> QED
    BY <2>1, <2>2, RunnerAssumption DEF Shape, TypeOK, Entry
<1>2. ASSUME NEW r \in Requests, key'[r] = key[r], key[r] \in StopKeys, ok[r]
      PROVE  Over(target[key[r]])'
  BY <1>1, <1>2, OverStays DEF StopInv, Stopped
<1>3. ASSUME NEW r \in Requests, NEW k \in Keys, Arrive(r, k)
      PROVE  StopInv'
  <2>1. /\ at[r] = "idle" /\ ~ok[r]
        /\ key' = [key EXCEPT ![r] = k] /\ UNCHANGED <<cache, ok, info, os>>
        /\ at' = [at EXCEPT ![r] = "hit"] \/ at' = [at EXCEPT ![r] = "looked"]
    BY <1>3 DEF Arrive, Shape, Placed, Early
  <2>2. Known' /\ Stopped'
    BY <1>1, <2>1 DEF StopInv, Known, Stopped, Over
  <2>3. OwnCached'
    BY <1>1, <2>1 DEF StopInv, OwnCached
  <2>4. reply' = reply \/ \E i \in DOMAIN cache : cache[i].key = k /\ reply' = [reply EXCEPT ![r] = cache[i].body]
    BY <1>3 DEF Arrive, Cached, ToSet
  <2>5. OwnReply'
    <3>1. \A q \in Requests \ {r} : key'[q] = key[q] /\ at'[q] = at[q]
      BY <1>1, <2>1
    <3>2. reply[r] = None
      BY <2>1 DEF StopInv, OwnReply
    <3>3. ASSUME NEW q \in Requests, q # r, reply[q] # None
          PROVE  /\ at[q] # "idle" /\ at[reply[q]] # "idle"
                 /\ reply[q] \in Requests \ {r} /\ key[reply[q]] = key[q]
      BY <1>1, <2>1, <3>3 DEF StopInv, OwnReply
    <3>4. at'[r] # "idle" /\ key'[r] = k
      BY <1>1, <2>1
    <3>5. ASSUME NEW q \in Requests, reply'[q] # None
          PROVE  at'[q] # "idle" /\ key'[reply'[q]] = key'[q] /\ at'[reply'[q]] # "idle"
      <4>1. CASE reply'[q] = reply[q] /\ q # r
        BY <3>1, <3>3, <3>5, <4>1
      <4>2. CASE reply'[q] = reply[q] /\ q = r
        BY <3>2, <3>5, <4>2
      <4>3. CASE reply'[q] # reply[q]
        <5>1. PICK i \in DOMAIN cache : cache[i].key = k /\ reply' = [reply EXCEPT ![r] = cache[i].body]
          BY <2>4, <4>3
        <5>2. q = r /\ reply'[q] = cache[i].body
          BY <1>1, <4>3, <5>1
        <5>3. cache[i].body \in Requests /\ key[cache[i].body] = k /\ at[cache[i].body] = "done"
          BY <1>1, <5>1 DEF StopInv, OwnCached
        <5>4. cache[i].body # r
          BY <2>1, <5>3
        <5> QED
          BY <3>1, <3>4, <5>2, <5>3, <5>4
      <4> QED
        BY <4>1, <4>2, <4>3
    <3> QED
      BY <3>5 DEF OwnReply
  <2> QED
    BY <2>2, <2>3, <2>5 DEF StopInv
<1>4. ASSUME NEW r \in Requests, Answer(r)
      PROVE  StopInv'
  <2>1. /\ at[r] = "emitting" /\ key[r] \in Keys /\ UNCHANGED <<key, ok, info, os>>
        /\ at' = [at EXCEPT ![r] = "done"] /\ reply' = [reply EXCEPT ![r] = r]
        /\ TypeOK /\ Remember(r)
    BY <1>4 DEF Answer, Shape, Placed
  <2>2. \A i \in DOMAIN cache' :
          cache'[i] = [key |-> key[r], body |-> r] \/ \E j \in DOMAIN cache : cache'[i] = cache[j]
    BY <2>1, RememberFacts
  <2>3. OwnCached'
    BY <1>1, <2>1, <2>2 DEF StopInv, OwnCached
  <2>4. Known' /\ Stopped' /\ OwnReply'
    BY <1>1, <2>1 DEF StopInv, Known, Stopped, OwnReply, Over
  <2> QED
    BY <2>3, <2>4 DEF StopInv
<1>5. ASSUME NEW r \in Requests, AnswerHit(r)
      PROVE  StopInv'
  BY <1>1, <1>5 DEF AnswerHit, StopInv, Known, Stopped, OwnReply, OwnCached, Over
<1>6. ASSUME key' = key, reply' = reply,
             \A i \in DOMAIN cache' : \E j \in DOMAIN cache : cache'[i] = cache[j],
             \A r \in Requests : at'[r] = at[r] \/ (at[r] # "done" /\ at'[r] # "idle")
      PROVE  OwnCached' /\ OwnReply'
  BY <1>1, <1>6 DEF StopInv, OwnCached, OwnReply
<1>7. ASSUME UNCHANGED <<at, ok, key>>
      PROVE  Known' /\ Stopped'
  BY <1>1, <1>7, OverStays DEF StopInv, Known, Stopped, Shape, Placed
<1>8. ASSUME NEW r \in Requests, StartPrepare(r) \/ StartFails(r) \/ Spawn(r) \/ StopUnknown(r)
      PROVE  StopInv'
  <2>1. /\ UNCHANGED <<key, reply, cache>> /\ at[r] \notin {"done", "idle"} /\ at[r] # "waiting"
        /\ at' = [at EXCEPT ![r] = "starting"] \/ at' = [at EXCEPT ![r] = "emitting"]
    BY <1>8 DEF StartPrepare, StartFails, Spawn, StopUnknown, Emit
  <2>2. ok' = ok \/ (ok' = [ok EXCEPT ![r] = FALSE]) \/ (ok' = [ok EXCEPT ![r] = TRUE] /\ key[r] \in StartKeys)
    BY <1>8 DEF StartPrepare, StartFails, Spawn, StopUnknown, Emit, Shape, Placed
  <2>3. OwnCached' /\ OwnReply'
    <3>1. \A q \in Requests : at'[q] = at[q] \/ (at[q] # "done" /\ at'[q] # "idle")
      BY <1>1, <2>1
    <3> QED
      BY <1>6, <2>1, <3>1
  <2>4. Known'
    <3>1. ASSUME NEW q \in Requests, at'[q] = "waiting"
          PROVE  info'[target[key[q]]] # "none"
      <4>1. at[q] = "waiting" /\ key[q] \in StopKeys
        BY <1>1, <2>1, <3>1 DEF Shape, Placed
      <4> QED
        BY <1>1, <4>1, OverStays DEF StopInv, Known
    <3> QED
      BY <1>1, <2>1, <3>1 DEF Known
  <2>5. Stopped'
    BY <1>1, <1>2, <2>1, <2>2, RunnerAssumption DEF Stopped
  <2> QED
    BY <2>3, <2>4, <2>5 DEF StopInv
<1>9. ASSUME NEW r \in Requests, StopAsked(r)
      PROVE  StopInv'
  <2>1. /\ UNCHANGED <<key, reply, cache, ok, info, os>> /\ at[r] \notin {"done", "idle"}
        /\ at' = [at EXCEPT ![r] = "waiting"] /\ info[target[key[r]]] = "running"
    BY <1>9 DEF StopAsked
  <2>2. OwnCached' /\ OwnReply'
    <3>1. \A q \in Requests : at'[q] = at[q] \/ (at[q] # "done" /\ at'[q] # "idle")
      BY <1>1, <2>1
    <3> QED
      BY <1>6, <2>1, <3>1
  <2>3. Known' /\ Stopped'
    BY <1>1, <2>1 DEF StopInv, Known, Stopped, Over
  <2> QED
    BY <2>2, <2>3 DEF StopInv
<1>10. ASSUME NEW r \in Requests,
              StopOver(r) \/ StopForced(r) \/ StopSeen(r) \/ StopGrace(r)
       PROVE  StopInv'
  <2>1. /\ UNCHANGED <<key, reply, cache>> /\ at[r] \notin {"done", "idle"} /\ key[r] \in StopKeys
        /\ at' = [at EXCEPT ![r] = "emitting"] /\ ok' = [ok EXCEPT ![r] = TRUE]
    BY <1>10 DEF StopOver, StopForced, StopSeen, StopGrace, Emit, Shape, Placed
  <2>2. OwnCached' /\ OwnReply'
    <3>1. \A q \in Requests : at'[q] = at[q] \/ (at[q] # "done" /\ at'[q] # "idle")
      BY <1>1, <2>1
    <3> QED
      BY <1>6, <2>1, <3>1
  <2>3. target[key[r]] \in Processes
    BY <1>1, <2>1
  <2>4. Over(target[key[r]])'
    <3>1. CASE StopOver(r) \/ StopSeen(r)
      BY <2>3, <1>10, <3>1, <1>1
         DEF StopOver, StopSeen, Emit, Over, AliveIsListed, StopInv, Known
    <3>2. CASE StopForced(r) \/ StopGrace(r)
      BY <1>1, <2>3, <3>2 DEF StopForced, StopGrace, Emit, Killed, Over, AliveIsListed, StopInv,
         Known, Shape, TypeOK
    <3> QED
      BY <1>10, <3>1, <3>2
  <2>5. Known'
    <3>1. ASSUME NEW q \in Requests, at'[q] = "waiting"
          PROVE  info'[target[key[q]]] # "none"
      <4>1. at[q] = "waiting" /\ key[q] \in StopKeys
        BY <1>1, <2>1, <3>1 DEF Shape, Placed
      <4> QED
        BY <1>1, <4>1, OverStays DEF StopInv, Known
    <3> QED
      BY <1>1, <2>1, <3>1 DEF Known
  <2>6. Stopped'
    BY <1>1, <1>2, <2>1, <2>4 DEF Stopped
  <2> QED
    BY <2>2, <2>5, <2>6 DEF StopInv
<1>11. ASSUME NEW p \in Processes, Exit(p) \/ OnError(p) \/ OnClose(p)
       PROVE  StopInv'
  <2>1. UNCHANGED <<key, reply, cache, at, ok>>
    BY <1>11 DEF Exit, OnError, OnClose
  <2>2. OwnCached' /\ OwnReply'
    BY <1>6, <2>1
  <2>3. Known' /\ Stopped'
    BY <1>7, <2>1
  <2> QED
    BY <2>2, <2>3 DEF StopInv
<1>12. CASE List \/ Cleanup \/ UNCHANGED vars
  <2>1. UNCHANGED <<key, reply, cache, at, ok>>
    BY <1>12 DEF List, Cleanup
  <2>2. OwnCached' /\ OwnReply'
    BY <1>6, <2>1
  <2>3. Known' /\ Stopped'
    BY <1>7, <2>1
  <2> QED
    BY <2>2, <2>3 DEF StopInv
<1>13. CASE Expire
  <2>1. UNCHANGED <<key, reply, at, ok>> /\ cache' = Tail(cache) /\ cache \in Seq(Entry) /\ cache # <<>>
    BY <1>13 DEF Expire, Shape, TypeOK
  <2>2. /\ \A i \in DOMAIN Tail(cache) : i + 1 \in DOMAIN cache /\ Tail(cache)[i] = cache[i + 1]
    BY <2>1, HeadTailProperties
  <2>3. \A i \in DOMAIN cache' : \E j \in DOMAIN cache : cache'[i] = cache[j]
    BY <2>1, <2>2
  <2>4. OwnCached' /\ OwnReply'
    BY <1>6, <2>1, <2>3
  <2>5. Known' /\ Stopped'
    BY <1>7, <2>1
  <2> QED
    BY <2>4, <2>5 DEF StopInv
<1> QED
  BY <1>3, <1>4, <1>5, <1>8, <1>9, <1>10, <1>11, <1>12, <1>13 DEF Next, RequestStep

(* StoppedIsOver: once process.stop has answered, whichever of interval,   *)
(* timeout and close event came first, its process is not alive again.     *)
THEOREM StopHolds == Spec => []StoppedIsOver
<1>1. Shape /\ StopInv => StoppedIsOver
  BY RunnerAssumption DEF StopInv, Stopped, OwnReply, StoppedIsOver, Over, Shape, TypeOK
<1>2. Shape /\ AliveIsListed /\ StopInv /\ [Next]_vars => StopInv'
  BY StopStep
<1> QED
  BY <1>1, <1>2, StopInit, ShapeAlways, AliveAlwaysListed, PTL DEF Spec
==============================================================================
