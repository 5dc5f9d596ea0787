-------------------------- MODULE RunEvents_proofs --------------------------
(***************************************************************************)
(* Proofs about RunEvents, for every set of writers and clients, every     *)
(* buffer capacity and every bound: type correctness, unique numbers,      *)
(* durability before visibility, the completeness and the order of a live  *)
(* stream, and that the handlers implement EventLog.                       *)
(***************************************************************************)
EXTENDS RunEvents, TLAPS

(* A handler that is past ListEvents has a connection of its own. *)
Connected == \A c \in Clients : state[c] # "off" => conn[c] \in 1..MaxConns

(* A writer in the middle of a handler holds an event it built itself. *)
HandOK == \A w \in Writers : pc[w] # "idle" => event[w] \in Event /\ event[w].by = w

(* An event whose number is not taken yet carries 0. *)
Unnumbered == \A w \in Writers : pc[w] = "called" => event[w].seq = 0

(* The shape of every reachable state: what the other proofs start from. *)
Shape == TypeOK /\ Connected /\ HandOK /\ Unnumbered

-----------------------------------------------------------------------------
(* Facts about buffers: what Append and Tail leave in a sequence. *)

LEMMA AppendFacts ==
  ASSUME NEW S, NEW s \in Seq(S), NEW e \in S
  PROVE  /\ Append(s, e) \in Seq(S)
         /\ Len(Append(s, e)) = Len(s) + 1
         /\ \A i \in DOMAIN Append(s, e) :
              Append(s, e)[i] = e \/ \E j \in DOMAIN s : Append(s, e)[i] = s[j]
OBVIOUS

LEMMA HeadTailFacts ==
  ASSUME NEW S, NEW s \in Seq(S), s # <<>>
  PROVE  /\ Head(s) \in S
         /\ \E j \in DOMAIN s : Head(s) = s[j]
         /\ Tail(s) \in Seq(S)
         /\ Len(Tail(s)) = Len(s) - 1
         /\ \A i \in DOMAIN Tail(s) : \E j \in DOMAIN s : Tail(s)[i] = s[j]
<1>1. Head(s) = s[1] /\ 1 \in DOMAIN s
  OBVIOUS
<1>2. Tail(s) \in Seq(S) /\ Len(Tail(s)) = Len(s) - 1
  OBVIOUS
<1>3. ASSUME NEW i \in DOMAIN Tail(s)
      PROVE  \E j \in DOMAIN s : Tail(s)[i] = s[j]
  <2>1. i + 1 \in DOMAIN s /\ Tail(s)[i] = s[i + 1]
    OBVIOUS
  <2> QED BY <2>1
<1> QED BY <1>1, <1>2, <1>3

-----------------------------------------------------------------------------
LEMMA ShapeInit == Init => Shape
BY BufferCapAssumption, BoundsAssumption
   DEF Init, Shape, TypeOK, StoreTypeOK, WriterTypeOK, ChanTypeOK, ClientTypeOK,
       Connected, HandOK, Unnumbered, Event, None

(* What NextSeq makes of the event in hand. *)
LEMMA NumberedFacts ==
  ASSUME Shape, NEW w \in Writers, pc[w] # "idle", NEW new,
         new = [event[w] EXCEPT !.seq = NextSeq]
  PROVE  /\ new \in Event /\ new.by = w /\ new.kind = event[w].kind
         /\ new.seq = last_seq + 1 /\ new.seq # 0
BY DEF Shape, TypeOK, StoreTypeOK, HandOK, Event, NextSeq

LEMMA CallFacts ==
  ASSUME NEW w \in Writers, NEW kind \in Kinds
  PROVE  [seq |-> 0, by |-> w, kind |-> kind] \in Event
BY DEF Event

(* A step that leaves a group of variables alone leaves its part of the    *)
(* invariant alone, so each case below shows only what the action changes. *)
LEMMA ShapeStep ==
  ASSUME Shape, [Next]_vars
  PROVE  Shape'
<1> USE BufferCapAssumption, BoundsAssumption
<1> USE DEF Shape, TypeOK, vars, storeVars, writerVars, chanVars, clientVars
<1>1. ASSUME NEW w \in Writers, NEW kind \in Kinds, Call(w, kind)
      PROVE  Shape'
  <2> DEFINE new == [seq |-> 0, by |-> w, kind |-> kind]
  <2>1. new \in Event /\ new.by = w /\ new.seq = 0
    BY CallFacts
  <2>2. event' = [event EXCEPT ![w] = new] /\ pc' = [pc EXCEPT ![w] = "called"]
    BY <1>1 DEF Call
  <2> HIDE DEF new
  <2>3. WriterTypeOK' /\ HandOK' /\ Unnumbered'
    BY <1>1, <2>1, <2>2 DEF Call, WriterTypeOK, HandOK, Unnumbered
  <2> QED
    BY <1>1, <2>3 DEF Call, StoreTypeOK, ChanTypeOK, ClientTypeOK, Connected
<1>2. ASSUME NEW w \in Writers, TakeNumber(w)
      PROVE  Shape'
  <2>1. PICK new : new = [event[w] EXCEPT !.seq = NextSeq]
    OBVIOUS
  <2>2. new \in Event /\ new.by = w
    BY <1>2, <2>1, NumberedFacts DEF TakeNumber
  <2>3. AfterNumber(new.kind) \in {"numbered", "stored"}
    BY DEF AfterNumber
  <2>4. /\ event' = [event EXCEPT ![w] = new]
        /\ pc' = [pc EXCEPT ![w] = AfterNumber(new.kind)]
        /\ late' \in {late, late \union {new}}
        /\ UNCHANGED <<targets, aborted, given_up, emitted>>
    BY <1>2, <2>1 DEF TakeNumber
  <2>5. StoreTypeOK'
    BY <1>2 DEF TakeNumber, NextSeq, StoreTypeOK
  <2>6. WriterTypeOK' /\ HandOK' /\ Unnumbered'
    BY <2>2, <2>3, <2>4 DEF WriterTypeOK, HandOK, Unnumbered
  <2> QED
    BY <1>2, <2>5, <2>6 DEF TakeNumber, ChanTypeOK, ClientTypeOK, Connected
<1>17. ASSUME NEW w \in Writers, GiveUp(w)
      PROVE  Shape'
  BY <1>17 DEF GiveUp, StoreTypeOK, WriterTypeOK, ChanTypeOK, ClientTypeOK,
     Connected, HandOK, Unnumbered
<1>18. ASSUME NEW w \in Writers, TakeNumberFails(w)
      PROVE  Shape'
  <2>1. PICK next \in {"idle", "numbered", "stored"} : Goto(w, next)
    BY <1>18 DEF TakeNumberFails, AfterNumber
  <2>2. StoreTypeOK'
    BY <1>18 DEF TakeNumberFails, CallFails, StoreTypeOK
  <2>3. WriterTypeOK' /\ HandOK' /\ Unnumbered'
    BY <1>18, <2>1 DEF TakeNumberFails, Goto, WriterTypeOK, HandOK, Unnumbered
  <2> QED
    BY <1>18, <2>2, <2>3 DEF TakeNumberFails, ChanTypeOK, ClientTypeOK, Connected
<1>3. ASSUME NEW w \in Writers, AppendEvent(w)
      PROVE  Shape'
  <2>1. event[w] \in Event
    BY <1>3 DEF AppendEvent, HandOK
  <2>2. AfterStore(w) \in {"idle", "stored"}
    BY DEF AfterStore
  <2>3. StoreTypeOK'
    BY <1>3, <2>1 DEF AppendEvent, StoreTypeOK
  <2>4. WriterTypeOK' /\ HandOK' /\ Unnumbered'
    BY <1>3, <2>2 DEF AppendEvent, Goto, WriterTypeOK, HandOK, Unnumbered
  <2> QED
    BY <1>3, <2>3, <2>4 DEF AppendEvent, ChanTypeOK, ClientTypeOK, Connected
<1>4. ASSUME NEW w \in Writers, AppendEventFails(w)
      PROVE  Shape'
  <2>1. event[w] \in Event
    BY <1>4 DEF AppendEventFails, HandOK
  <2>2. AfterStore(w) \in {"idle", "stored"}
    BY DEF AfterStore
  <2>3. StoreTypeOK'
    BY <1>4, <2>1 DEF AppendEventFails, CallFails, StoreTypeOK
  <2>4. WriterTypeOK' /\ HandOK' /\ Unnumbered'
    BY <1>4, <2>2 DEF AppendEventFails, Goto, WriterTypeOK, HandOK, Unnumbered
  <2> QED
    BY <1>4, <2>3, <2>4 DEF AppendEventFails, ChanTypeOK, ClientTypeOK, Connected
<1>5. ASSUME NEW w \in Writers, PublishSnapshot(w)
      PROVE  Shape'
  BY <1>5 DEF PublishSnapshot, Goto, StoreTypeOK, WriterTypeOK, ChanTypeOK,
     ClientTypeOK, Connected, HandOK, Unnumbered
<1>6. ASSUME NEW w \in Writers, NEW ch \in Chans, PublishSend(w, ch)
      PROVE  Shape'
  <2>1. event[w] \in Event /\ queue[ch] \in Seq(Event) /\ Len(queue[ch]) <= BufferCap
    BY <1>6 DEF PublishSend, HandOK, ChanTypeOK
  <2>2. /\ Append(queue[ch], event[w]) \in Seq(Event)
        /\ Len(Append(queue[ch], event[w])) = Len(queue[ch]) + 1
        /\ Len(queue[ch]) \in Nat
    BY <2>1, AppendFacts
  <2>3. ChanTypeOK'
    <3>1. CASE queue' = queue
      BY <1>6, <3>1 DEF PublishSend, ChanTypeOK
    <3>2. CASE HasRoom(ch) /\ queue' = [queue EXCEPT ![ch] = Append(@, event[w])]
      <4>1. Len(Append(queue[ch], event[w])) <= BufferCap
        BY <2>2, <3>2 DEF HasRoom
      <4>2. queue' \in [Chans -> Seq(Event)]
        BY <2>2, <3>2 DEF ChanTypeOK
      <4>3. \A d \in Chans : Len(queue'[d]) <= BufferCap
        BY <4>1, <3>2 DEF ChanTypeOK
      <4> QED
        BY <1>6, <3>2, <4>2, <4>3 DEF PublishSend, ChanTypeOK
    <3> QED
      BY <1>6, <3>1, <3>2 DEF PublishSend
  <2> QED
    BY <1>6, <2>3 DEF PublishSend, Unsent, StoreTypeOK, WriterTypeOK,
       ClientTypeOK, Connected, HandOK, Unnumbered
<1>7. ASSUME NEW w \in Writers, NEW ch \in Chans, PublishPanics(w, ch)
      PROVE  Shape'
  BY <1>7 DEF PublishPanics, Goto, StoreTypeOK, WriterTypeOK, ChanTypeOK,
     ClientTypeOK, Connected, HandOK, Unnumbered
<1>8. ASSUME NEW w \in Writers, PublishReturns(w)
      PROVE  Shape'
  BY <1>8 DEF PublishReturns, Goto, StoreTypeOK, WriterTypeOK, ChanTypeOK,
     ClientTypeOK, Connected, HandOK, Unnumbered
<1>9. ASSUME NEW c \in Clients, Connect(c)
      PROVE  Shape'
  BY <1>9 DEF Connect, ListEvents, StoreTypeOK, WriterTypeOK, ChanTypeOK,
     ClientTypeOK, Connected, HandOK, Unnumbered
<1>10. ASSUME NEW c \in Clients, SendStored(c)
       PROVE  Shape'
  <2>1. PICK e \in backlog[c] :
          /\ Receive(c, e)
          /\ backlog' = [backlog EXCEPT ![c] = @ \ {e}]
    BY <1>10 DEF SendStored
  <2>2. e \in Event /\ seen[c] \in Seq(Event)
    BY DEF ClientTypeOK
  <2>3. Append(seen[c], e) \in Seq(Event)
    BY <2>2, AppendFacts
  <2>4. ClientTypeOK'
    <3>1. seen' \in [Clients -> Seq(Event)]
      BY <2>1, <2>3 DEF Receive, ClientTypeOK
    <3>2. cursor' \in [Clients -> Nat]
      BY <2>1, <2>2 DEF Receive, ClientTypeOK, Event
    <3>3. backlog' \in [Clients -> SUBSET Event]
      BY <2>1 DEF ClientTypeOK
    <3> QED
      BY <1>10, <3>1, <3>2, <3>3 DEF SendStored, ClientTypeOK
  <2> QED
    BY <1>10, <2>4 DEF SendStored, StoreTypeOK, WriterTypeOK, ChanTypeOK, Connected, HandOK, Unnumbered
<1>11. ASSUME NEW c \in Clients, Subscribe(c)
       PROVE  Shape'
  <2>1. ChanTypeOK'
    BY <1>11 DEF Subscribe, ChanTypeOK
  <2>2. ClientTypeOK'
    BY <1>11 DEF Subscribe, ClientTypeOK, StoreTypeOK
  <2> QED
    BY <1>11, <2>1, <2>2 DEF Subscribe, StoreTypeOK, WriterTypeOK, Connected, HandOK, Unnumbered
<1>12. ASSUME NEW c \in Clients, SendLive(c)
       PROVE  Shape'
  <2> DEFINE q == queue[Current(c)]
  <2>1. Current(c) \in Chans
    BY <1>12 DEF SendLive, Current, Chans, Connected
  <2>2. q \in Seq(Event) /\ q # <<>> /\ seen[c] \in Seq(Event)
    BY <1>12, <2>1 DEF SendLive, ChanTypeOK, ClientTypeOK
  <2>3. Head(q) \in Event /\ Tail(q) \in Seq(Event) /\ Len(Tail(q)) = Len(q) - 1
    BY <2>2, HeadTailFacts
  <2>4. Append(seen[c], Head(q)) \in Seq(Event) /\ Len(q) \in Nat
    BY <2>2, <2>3, AppendFacts
  <2>5. ChanTypeOK'
    <3>1. queue' = [queue EXCEPT ![Current(c)] = Tail(q)]
      BY <1>12 DEF SendLive
    <3>2. queue' \in [Chans -> Seq(Event)]
      BY <2>3, <3>1 DEF ChanTypeOK
    <3>3. ASSUME NEW ch \in Chans
          PROVE  Len(queue'[ch]) <= BufferCap
      <4>1. Len(queue[ch]) <= BufferCap /\ Len(q) <= BufferCap
        BY <2>1 DEF ChanTypeOK
      <4>2. queue'[ch] = IF ch = Current(c) THEN Tail(q) ELSE queue[ch]
        BY <3>1 DEF ChanTypeOK
      <4> QED
        BY <2>3, <2>4, <4>1, <4>2
    <3> QED
      BY <1>12, <3>2, <3>3 DEF SendLive, ChanTypeOK
  <2>6. ClientTypeOK'
    BY <1>12, <2>3, <2>4 DEF SendLive, Receive, ClientTypeOK, Event
  <2> QED
    BY <1>12, <2>5, <2>6 DEF SendLive, StoreTypeOK, WriterTypeOK, Connected, HandOK, Unnumbered
<1>13. ASSUME NEW c \in Clients, Disconnect(c)
       PROVE  Shape'
  BY <1>13 DEF Disconnect, StoreTypeOK, WriterTypeOK, ChanTypeOK,
     ClientTypeOK, Connected, HandOK, Unnumbered
<1>14. ASSUME NEW ch \in Chans, Unsubscribe(ch)
       PROVE  Shape'
  BY <1>14 DEF Unsubscribe, Without, StoreTypeOK, WriterTypeOK, ChanTypeOK,
     ClientTypeOK, Connected, HandOK, Unnumbered
<1>15. ASSUME NEW ch \in Chans, CloseChan(ch)
       PROVE  Shape'
  BY <1>15 DEF CloseChan, StoreTypeOK, WriterTypeOK, ChanTypeOK,
     ClientTypeOK, Connected, HandOK, Unnumbered
<1>16. CASE UNCHANGED vars
  BY <1>16 DEF StoreTypeOK, WriterTypeOK, ChanTypeOK, ClientTypeOK, Connected, HandOK, Unnumbered
<1> QED
  BY <1>1, <1>2, <1>3, <1>4, <1>5, <1>6, <1>7, <1>8, <1>9, <1>10, <1>11, <1>12, <1>13,
     <1>14, <1>15, <1>16, <1>17, <1>18 DEF Next, Emit, WriterStep, ClientStep

(* Every variable keeps its type, no buffer outgrows its channel, and the  *)
(* counter stays within the bound: the type invariant of the stream.       *)
THEOREM TypeCorrect == Spec => []TypeOK
<1>1. Init => Shape
  BY ShapeInit
<1>2. Shape /\ [Next]_vars => Shape'
  BY ShapeStep
<1>3. Shape => TypeOK
  BY DEF Shape
<1> QED
  BY <1>1, <1>2, <1>3, PTL DEF Spec

-----------------------------------------------------------------------------
(* Unique numbers.  The invariant behind it: the counter is ahead of every *)
(* number in use, so the number it hands out next is new.                  *)

InUse == run_events \union unsaved \union InHand

CounterAhead == \A e \in InUse : e.seq <= last_seq

NumbersInv == UniqueNumbers /\ CounterAhead

(* Apart from TakeNumber no step brings an event into use under a number   *)
(* other than 0.                                                           *)
LEMMA InUseStep ==
  ASSUME Shape, [Next]_vars
  PROVE  \/ /\ last_seq' = last_seq
            /\ \A e \in InUse' : e \in InUse \/ e.seq = 0
         \/ /\ last_seq' = last_seq + 1
            /\ \E new : /\ new.seq = last_seq + 1
                        /\ InUse' \subseteq InUse \union {new}
<1> USE DEF InUse, InHand, vars, storeVars, writerVars, chanVars, clientVars
<1> USE DEF Shape, TypeOK, WriterTypeOK
<1>1. ASSUME NEW w \in Writers, TakeNumber(w)
      PROVE  /\ last_seq' = last_seq + 1
             /\ \E new : /\ new.seq = last_seq + 1
                         /\ InUse' \subseteq InUse \union {new}
  <2>1. PICK new : new = [event[w] EXCEPT !.seq = NextSeq]
    OBVIOUS
  <2>2. new.seq = last_seq + 1
    BY <1>1, <2>1, NumberedFacts DEF TakeNumber
  <2>3. event' = [event EXCEPT ![w] = new] /\ UNCHANGED <<run_events, unsaved>>
    BY <1>1, <2>1 DEF TakeNumber
  <2>4. \A v \in Writers : pc'[v] # "idle" => event'[v] = new \/ (pc[v] # "idle" /\ event'[v] = event[v])
    BY <1>1, <2>3 DEF TakeNumber
  <2>5. InUse' \subseteq InUse \union {new}
    BY <2>3, <2>4
  <2> QED
    BY <1>1, <2>2, <2>5 DEF TakeNumber, NextSeq
<1>2. ASSUME NEW w \in Writers, NEW kind \in Kinds, Call(w, kind)
      PROVE  last_seq' = last_seq /\ \A e \in InUse' : e \in InUse \/ e.seq = 0
  <2>1. \A v \in Writers : pc'[v] # "idle" => event'[v].seq = 0 \/ (pc[v] # "idle" /\ event'[v] = event[v])
    BY <1>2 DEF Call
  <2> QED
    BY <1>2, <2>1 DEF Call
<1>11. ASSUME NEW w \in Writers, TakeNumberFails(w)
      PROVE  last_seq' = last_seq /\ InUse' \subseteq InUse
  <2>1. \A v \in Writers : pc'[v] # "idle" => pc[v] # "idle" /\ event'[v] = event[v]
    BY <1>11 DEF TakeNumberFails, Goto
  <2> QED
    BY <1>11, <2>1 DEF TakeNumberFails
<1>12. ASSUME NEW w \in Writers, GiveUp(w)
      PROVE  last_seq' = last_seq /\ InUse' \subseteq InUse
  BY <1>12 DEF GiveUp
<1>3. ASSUME NEW w \in Writers, AppendEvent(w) \/ AppendEventFails(w)
      PROVE  last_seq' = last_seq /\ InUse' \subseteq InUse
  <2>1. event[w] \in InHand
    BY <1>3 DEF AppendEvent, AppendEventFails
  <2>2. \A v \in Writers : pc'[v] # "idle" => pc[v] # "idle" /\ event'[v] = event[v]
    BY <1>3 DEF AppendEvent, AppendEventFails, Goto, AfterStore
  <2> QED
    BY <1>3, <2>1, <2>2 DEF AppendEvent, AppendEventFails
<1>4. ASSUME NEW w \in Writers, PublishSnapshot(w) \/ PublishReturns(w)
      PROVE  last_seq' = last_seq /\ InUse' \subseteq InUse
  <2>1. \A v \in Writers : pc'[v] # "idle" => pc[v] # "idle" /\ event'[v] = event[v]
    BY <1>4 DEF PublishSnapshot, PublishReturns, Goto
  <2> QED
    BY <1>4, <2>1 DEF PublishSnapshot, PublishReturns
<1>5. ASSUME NEW w \in Writers, NEW ch \in Chans, PublishSend(w, ch) \/ PublishPanics(w, ch)
      PROVE  last_seq' = last_seq /\ InUse' \subseteq InUse
  <2>1. \A v \in Writers : pc'[v] # "idle" => pc[v] # "idle" /\ event'[v] = event[v]
    BY <1>5 DEF PublishSend, PublishPanics, Goto
  <2> QED
    BY <1>5, <2>1 DEF PublishSend, PublishPanics
<1>6. ASSUME UNCHANGED storeVars, UNCHANGED <<pc, event>>
      PROVE  last_seq' = last_seq /\ InUse' = InUse
  BY <1>6
<1>7. ASSUME NEW c \in Clients, ClientStep(c)
      PROVE  UNCHANGED storeVars /\ UNCHANGED <<pc, event>>
  BY <1>7 DEF ClientStep, Connect, SendStored, Subscribe, SendLive, Disconnect
<1>8. ASSUME NEW ch \in Chans, Unsubscribe(ch) \/ CloseChan(ch)
      PROVE  UNCHANGED storeVars /\ UNCHANGED <<pc, event>>
  BY <1>8 DEF Unsubscribe, CloseChan
<1>9. CASE UNCHANGED vars
  BY <1>6, <1>9
<1>10. CASE \E w \in Writers : Emit(w) \/ WriterStep(w)
  BY <1>1, <1>2, <1>3, <1>4, <1>5, <1>10, <1>11, <1>12, ZenonT(30) DEF Emit, WriterStep
<1> QED
  BY <1>6, <1>7, <1>8, <1>9, <1>10 DEF Next

LEMMA NumbersStep ==
  ASSUME Shape, NumbersInv, [Next]_vars
  PROVE  NumbersInv'
<1>1. last_seq \in Nat /\ InUse \subseteq Event
  BY DEF Shape, TypeOK, StoreTypeOK, InUse, InHand, HandOK, Event
<1>2. CASE /\ last_seq' = last_seq
           /\ \A e \in InUse' : e \in InUse \/ e.seq = 0
  <2>1. CounterAhead'
    BY <1>1, <1>2 DEF CounterAhead, NumbersInv
  <2>2. UniqueNumbers'
    BY <1>2 DEF UniqueNumbers, NumbersInv, InUse
  <2> QED BY <2>1, <2>2 DEF NumbersInv
<1>3. CASE /\ last_seq' = last_seq + 1
           /\ \E new : /\ new.seq = last_seq + 1
                       /\ InUse' \subseteq InUse \union {new}
  <2>1. PICK new : new.seq = last_seq + 1 /\ InUse' \subseteq InUse \union {new}
    BY <1>3
  <2>2. \A e \in InUse : e.seq # new.seq /\ e.seq <= last_seq + 1
    BY <1>1, <2>1 DEF CounterAhead, NumbersInv, Event
  <2>3. CounterAhead'
    BY <1>1, <1>3, <2>1, <2>2 DEF CounterAhead
  <2>4. UniqueNumbers'
    BY <2>1, <2>2 DEF UniqueNumbers, NumbersInv, InUse
  <2> QED BY <2>3, <2>4 DEF NumbersInv
<1> QED
  BY <1>2, <1>3, InUseStep

(* The handlers of any number of API calls, activities and workers never   *)
(* put one number on two events of a run.                                  *)
THEOREM NumbersUnique == Spec => []UniqueNumbers
<1>1. Init => Shape /\ NumbersInv
  BY ShapeInit DEF Init, NumbersInv, UniqueNumbers, CounterAhead, InUse, InHand
<1>2. Shape /\ NumbersInv /\ [Next]_vars => (Shape /\ NumbersInv)'
  BY ShapeStep, NumbersStep
<1>3. NumbersInv => UniqueNumbers
  BY DEF NumbersInv
<1> QED
  BY <1>1, <1>2, <1>3, PTL DEF Spec

-----------------------------------------------------------------------------
(* Durable before visible.  The invariant behind it follows an event from  *)
(* the INSERT to the screen: in the publisher's hand, in the rows of a     *)
(* replay, in a channel's buffer.                                          *)

Settled(e) == e.kind # "transient" => e \in run_events \union unsaved

HandSettled == \A w \in Writers : pc[w] \in {"stored", "publishing"} => Settled(event[w])
BacklogSettled == \A c \in Clients : backlog[c] \subseteq run_events
QueueSettled == \A ch \in Chans : \A i \in DOMAIN queue[ch] : Settled(queue[ch][i])
SeenSettled == \A c \in Clients : \A i \in DOMAIN seen[c] : Settled(seen[c][i])

DurableInv == HandSettled /\ BacklogSettled /\ QueueSettled /\ SeenSettled

(* Rows and failed inserts are never forgotten, so a settled event stays   *)
(* settled.                                                                *)
LEMMA TablesGrow ==
  ASSUME [Next]_vars
  PROVE  run_events \subseteq run_events' /\ unsaved \subseteq unsaved'
<1> USE DEF vars, storeVars
<1>1. ASSUME NEW w \in Writers, Emit(w) \/ WriterStep(w)
      PROVE  run_events \subseteq run_events' /\ unsaved \subseteq unsaved'
  BY <1>1 DEF Emit, WriterStep, Call, GiveUp, TakeNumber, TakeNumberFails,
     AppendEvent, AppendEventFails,
     PublishSnapshot, PublishSend, PublishPanics, PublishReturns
<1>2. ASSUME NEW c \in Clients, ClientStep(c)
      PROVE  run_events \subseteq run_events' /\ unsaved \subseteq unsaved'
  BY <1>2 DEF ClientStep, Connect, SendStored, Subscribe, SendLive, Disconnect
<1>3. ASSUME NEW ch \in Chans, Unsubscribe(ch) \/ CloseChan(ch)
      PROVE  run_events \subseteq run_events' /\ unsaved \subseteq unsaved'
  BY <1>3 DEF Unsubscribe, CloseChan
<1> QED
  BY <1>1, <1>2, <1>3 DEF Next

LEMMA HandStep ==
  ASSUME Shape, DurableInv, [Next]_vars
  PROVE  HandSettled'
<1> USE DEF vars, storeVars, writerVars, chanVars, clientVars
<1> USE DEF Shape, TypeOK, WriterTypeOK, DurableInv, HandSettled, Settled
<1>1. ASSUME NEW w \in Writers, TakeNumber(w)
      PROVE  HandSettled'
  <2>1. PICK new : new = [event[w] EXCEPT !.seq = NextSeq]
    OBVIOUS
  <2>2. /\ event' = [event EXCEPT ![w] = new]
        /\ pc' = [pc EXCEPT ![w] = AfterNumber(new.kind)]
        /\ UNCHANGED <<run_events, unsaved>>
    BY <1>1, <2>1 DEF TakeNumber
  <2> QED
    BY <2>2 DEF AfterNumber
<1>10. ASSUME NEW w \in Writers, TakeNumberFails(w)
      PROVE  HandSettled'
  <2>1. UNCHANGED <<run_events, unsaved>>
    BY <1>10 DEF TakeNumberFails
  <2>2. \A v \in Writers : pc'[v] \in {"stored", "publishing"}
          => event'[v] = event[v] /\ (pc'[v] = pc[v] \/ event[v].kind = "transient")
    BY <1>10 DEF TakeNumberFails, Goto, AfterNumber
  <2> QED
    BY <2>1, <2>2
<1>11. ASSUME NEW w \in Writers, Emit(w)
      PROVE  HandSettled'
  <2>1. UNCHANGED <<run_events, unsaved>>
    BY <1>11 DEF Emit, Call, GiveUp
  <2>2. \A v \in Writers : pc'[v] \in {"stored", "publishing"}
          => event'[v] = event[v] /\ pc'[v] = pc[v]
    BY <1>11 DEF Emit, Call, GiveUp
  <2> QED
    BY <2>1, <2>2
<1>2. ASSUME NEW w \in Writers, AppendEvent(w) \/ AppendEventFails(w)
      PROVE  HandSettled'
  <2>1. event[w] \in run_events' \union unsaved'
    BY <1>2 DEF AppendEvent, AppendEventFails
  <2>2. \A v \in Writers : pc'[v] \in {"stored", "publishing"}
          => event'[v] = event[v] /\ (v = w \/ pc'[v] = pc[v])
    BY <1>2 DEF AppendEvent, AppendEventFails, Goto, AfterStore
  <2> QED
    BY <1>2, <2>1, <2>2, TablesGrow
<1>3. ASSUME NEW w \in Writers, PublishSnapshot(w) \/ PublishReturns(w)
      PROVE  HandSettled'
  BY <1>3 DEF PublishSnapshot, PublishReturns, Goto
<1>4. ASSUME NEW w \in Writers, NEW ch \in Chans, PublishSend(w, ch) \/ PublishPanics(w, ch)
      PROVE  HandSettled'
  BY <1>4 DEF PublishSend, PublishPanics, Goto
<1>5. ASSUME UNCHANGED storeVars, UNCHANGED <<pc, event>>
      PROVE  HandSettled'
  BY <1>5
<1>6. ASSUME NEW c \in Clients, ClientStep(c)
      PROVE  UNCHANGED storeVars /\ UNCHANGED <<pc, event>>
  BY <1>6 DEF ClientStep, Connect, SendStored, Subscribe, SendLive, Disconnect
<1>7. ASSUME NEW ch \in Chans, Unsubscribe(ch) \/ CloseChan(ch)
      PROVE  UNCHANGED storeVars /\ UNCHANGED <<pc, event>>
  BY <1>7 DEF Unsubscribe, CloseChan
<1>8. CASE UNCHANGED vars
  BY <1>5, <1>8
<1>9. CASE \E w \in Writers : Emit(w) \/ WriterStep(w)
  BY <1>1, <1>2, <1>3, <1>4, <1>9, <1>10, <1>11, ZenonT(30) DEF WriterStep
<1> QED
  BY <1>5, <1>6, <1>7, <1>8, <1>9 DEF Next

(* What a step adds to a buffer is in the publisher's hand, and what it    *)
(* adds to a screen is a row of the replay or the head of the buffer.      *)
LEMMA DurableStep ==
  ASSUME Shape, DurableInv, [Next]_vars
  PROVE  DurableInv'
<1> USE DEF vars, storeVars, writerVars, chanVars, clientVars
<1>0. HandSettled' /\ run_events \subseteq run_events' /\ unsaved \subseteq unsaved'
  BY HandStep, TablesGrow
<1>1. \A e : Settled(e) => Settled(e)'
  BY <1>0 DEF Settled
<1>2. ASSUME UNCHANGED <<queue, backlog, seen>>
      PROVE  BacklogSettled' /\ QueueSettled' /\ SeenSettled'
  BY <1>0, <1>2 DEF DurableInv, BacklogSettled, QueueSettled, SeenSettled, Settled
<1>3. ASSUME NEW w \in Writers, NEW ch \in Chans, PublishSend(w, ch)
      PROVE  BacklogSettled' /\ QueueSettled' /\ SeenSettled'
  <2>1. UNCHANGED <<backlog, seen>>
    BY <1>3 DEF PublishSend
  <2>2. event[w] \in Event /\ queue[ch] \in Seq(Event) /\ Settled(event[w])
    BY <1>3 DEF PublishSend, Shape, TypeOK, ChanTypeOK, HandOK, DurableInv, HandSettled
  <2>3. ASSUME NEW d \in Chans, NEW i \in DOMAIN queue'[d]
        PROVE  queue'[d][i] = event[w] \/ \E j \in DOMAIN queue[d] : queue'[d][i] = queue[d][j]
    <3>1. queue'[d] = queue[d] \/ (d = ch /\ queue'[d] = Append(queue[ch], event[w]))
      BY <1>3 DEF PublishSend, Shape, TypeOK, ChanTypeOK
    <3>2. CASE queue'[d] = queue[d]
      BY <3>2
    <3>3. CASE queue'[d] = Append(queue[ch], event[w]) /\ d = ch
      <4>1. i \in DOMAIN Append(queue[ch], event[w])
        BY <3>3
      <4>2. \/ Append(queue[ch], event[w])[i] = event[w]
            \/ \E j \in DOMAIN queue[ch] : Append(queue[ch], event[w])[i] = queue[ch][j]
        BY <2>2, <4>1, AppendFacts
      <4> QED
        BY <3>3, <4>2
    <3> QED
      BY <3>1, <3>2, <3>3
  <2> QED
    BY <1>0, <2>1, <2>2, <2>3
       DEF DurableInv, BacklogSettled, QueueSettled, SeenSettled, Settled
<1>4. ASSUME NEW c \in Clients, Connect(c)
      PROVE  BacklogSettled' /\ QueueSettled' /\ SeenSettled'
  <2>1. UNCHANGED <<queue, seen>>
    BY <1>4 DEF Connect
  <2>2. BacklogSettled'
    BY <1>4 DEF Connect, ListEvents, Shape, TypeOK, ClientTypeOK, DurableInv, BacklogSettled
  <2> QED
    BY <1>0, <2>1, <2>2 DEF DurableInv, QueueSettled, SeenSettled, Settled
<1>5. ASSUME NEW c \in Clients, SendStored(c)
      PROVE  BacklogSettled' /\ QueueSettled' /\ SeenSettled'
  <2>1. PICK e \in backlog[c] :
          Receive(c, e) /\ backlog' = [backlog EXCEPT ![c] = @ \ {e}]
    BY <1>5 DEF SendStored
  <2>2. e \in Event /\ seen[c] \in Seq(Event) /\ e \in run_events
    BY DEF Shape, TypeOK, ClientTypeOK, DurableInv, BacklogSettled
  <2>3. UNCHANGED <<queue, run_events>>
    BY <1>5 DEF SendStored
  <2>4. BacklogSettled'
    BY <2>1, <2>3 DEF Shape, TypeOK, ClientTypeOK, DurableInv, BacklogSettled
  <2>5. ASSUME NEW d \in Clients, NEW i \in DOMAIN seen'[d]
        PROVE  seen'[d][i] = e \/ \E j \in DOMAIN seen[d] : seen'[d][i] = seen[d][j]
    <3>1. seen'[d] = seen[d] \/ (d = c /\ seen'[d] = Append(seen[c], e))
      BY <2>1 DEF Receive, Shape, TypeOK, ClientTypeOK
    <3> QED
      BY <2>2, <3>1, AppendFacts
  <2> QED
    BY <1>0, <2>2, <2>3, <2>4, <2>5 DEF DurableInv, QueueSettled, SeenSettled, Settled
<1>6. ASSUME NEW c \in Clients, SendLive(c)
      PROVE  BacklogSettled' /\ QueueSettled' /\ SeenSettled'
  <2> DEFINE ch == Current(c)
             q == queue[ch]
  <2>1. ch \in Chans
    BY <1>6 DEF SendLive, Current, Chans, Shape, Connected
  <2>2. q \in Seq(Event) /\ q # <<>> /\ seen[c] \in Seq(Event)
    BY <1>6, <2>1 DEF SendLive, Shape, TypeOK, ChanTypeOK, ClientTypeOK
  <2>3. Head(q) \in Event /\ \E j \in DOMAIN q : Head(q) = q[j]
    BY <2>2, HeadTailFacts
  <2>4. Settled(Head(q))
    BY <2>1, <2>3 DEF DurableInv, QueueSettled
  <2>5. BacklogSettled'
    BY <1>6 DEF SendLive, DurableInv, BacklogSettled
  <2>6. ASSUME NEW d \in Chans, NEW i \in DOMAIN queue'[d]
        PROVE  \E j \in DOMAIN queue[d] : queue'[d][i] = queue[d][j]
    <3>1. queue'[d] = queue[d] \/ (queue[d] = q /\ queue'[d] = Tail(q))
      BY <1>6 DEF SendLive, Shape, TypeOK, ChanTypeOK
    <3>2. CASE queue'[d] = queue[d]
      BY <3>2
    <3>3. CASE queue[d] = q /\ queue'[d] = Tail(q)
      BY <2>2, <3>3, HeadTailFacts
    <3> QED
      BY <3>1, <3>2, <3>3
  <2>7. ASSUME NEW d \in Clients, NEW i \in DOMAIN seen'[d]
        PROVE  seen'[d][i] = Head(q) \/ \E j \in DOMAIN seen[d] : seen'[d][i] = seen[d][j]
    <3> HIDE DEF q
    <3>1. seen'[d] = seen[d] \/ (d = c /\ seen'[d] = Append(seen[c], Head(q)))
      BY <1>6 DEF SendLive, Receive, Shape, TypeOK, ClientTypeOK, q
    <3>2. CASE seen'[d] = seen[d]
      BY <3>2
    <3>3. CASE d = c /\ seen'[d] = Append(seen[c], Head(q))
      BY <2>2, <2>3, <3>3, AppendFacts
    <3> QED
      BY <3>1, <3>2, <3>3
  <2> QED
    BY <1>0, <2>4, <2>5, <2>6, <2>7 DEF DurableInv, QueueSettled, SeenSettled, Settled
<1>7. ASSUME NEW c \in Clients, Disconnect(c)
      PROVE  BacklogSettled' /\ QueueSettled' /\ SeenSettled'
  BY <1>7 DEF Disconnect, Shape, TypeOK, ClientTypeOK,
     DurableInv, BacklogSettled, QueueSettled, SeenSettled, Settled
<1>8. ASSUME NEW ch \in Chans, CloseChan(ch)
      PROVE  BacklogSettled' /\ QueueSettled' /\ SeenSettled'
  BY <1>8 DEF CloseChan, Shape, TypeOK, ChanTypeOK,
     DurableInv, BacklogSettled, QueueSettled, SeenSettled, Settled
<1>9. ASSUME NEW w \in Writers, Emit(w) \/ WriterStep(w)
      PROVE  BacklogSettled' /\ QueueSettled' /\ SeenSettled'
  <2>1. UNCHANGED <<queue, backlog, seen>> \/ \E ch \in Chans : PublishSend(w, ch)
    BY <1>9 DEF Emit, WriterStep, Call, GiveUp, TakeNumber, TakeNumberFails, AppendEvent,
       AppendEventFails, PublishSnapshot, PublishPanics, PublishReturns
  <2> QED
    BY <1>2, <1>3, <2>1
<1>10. ASSUME NEW c \in Clients, ClientStep(c)
       PROVE  BacklogSettled' /\ QueueSettled' /\ SeenSettled'
  <2>1. CASE Subscribe(c)
    BY <1>2, <2>1 DEF Subscribe
  <2> QED
    BY <1>4, <1>5, <1>6, <1>7, <1>10, <2>1 DEF ClientStep
<1>11. ASSUME NEW ch \in Chans, Unsubscribe(ch)
       PROVE  BacklogSettled' /\ QueueSettled' /\ SeenSettled'
  BY <1>2, <1>11 DEF Unsubscribe
<1>12. CASE UNCHANGED vars
  BY <1>0, <1>2, <1>12 DEF DurableInv
<1> QED
  BY <1>0, <1>8, <1>9, <1>10, <1>11, <1>12 DEF Next, DurableInv

(* Nothing reaches a subscriber's buffer or a client before its INSERT was *)
(* made: crash or no crash of the publisher, what was shown is stored,     *)
(* transient, or an INSERT whose error the handler dropped.                *)
THEOREM VisibleIsDurable == Spec => []DurableBeforeVisible
<1>1. Init => Shape /\ DurableInv
  BY ShapeInit DEF Init, DurableInv, HandSettled, BacklogSettled, QueueSettled, SeenSettled
<1>2. Shape /\ DurableInv /\ [Next]_vars => (Shape /\ DurableInv)'
  BY ShapeStep, DurableStep
<1>3. DurableInv => DurableBeforeVisible
  BY DEF DurableInv, QueueSettled, SeenSettled, Settled, DurableBeforeVisible, Queued, Shown
<1> QED
  BY <1>1, <1>2, <1>3, PTL DEF Spec

-----------------------------------------------------------------------------
(* What a step does to one writer and to one client. *)

(* A step leaves a writer alone unless it is one of the writer's own. *)
LEMMA WriterFrame ==
  ASSUME Shape, [Next]_vars, NEW w \in Writers
  PROVE  \/ pc'[w] = pc[w] /\ event'[w] = event[w] /\ targets'[w] = targets[w]
         \/ Emit(w)
         \/ WriterStep(w)
<1> USE DEF vars, writerVars, Shape, TypeOK, WriterTypeOK
<1>1. ASSUME NEW v \in Writers, Emit(v) \/ WriterStep(v), v # w
      PROVE  pc'[w] = pc[w] /\ event'[w] = event[w] /\ targets'[w] = targets[w]
  <2>1. CASE Emit(v) \/ TakeNumber(v) \/ TakeNumberFails(v)
    BY <1>1, <2>1 DEF Emit, Call, GiveUp, TakeNumber, TakeNumberFails, Goto
  <2>2. CASE AppendEvent(v) \/ AppendEventFails(v) \/ PublishSnapshot(v) \/ PublishReturns(v)
    BY <1>1, <2>2 DEF AppendEvent, AppendEventFails, PublishSnapshot, PublishReturns, Goto
  <2>3. CASE \E ch \in Chans : PublishSend(v, ch) \/ PublishPanics(v, ch)
    BY <1>1, <2>3 DEF PublishSend, PublishPanics, Goto
  <2> QED
    BY <1>1, <2>1, <2>2, <2>3 DEF WriterStep
<1>2. ASSUME NEW c \in Clients, ClientStep(c)
      PROVE  UNCHANGED <<pc, event, targets>>
  BY <1>2 DEF ClientStep, Connect, SendStored, Subscribe, SendLive, Disconnect
<1>3. ASSUME NEW ch \in Chans, Unsubscribe(ch) \/ CloseChan(ch)
      PROVE  UNCHANGED <<pc, event, targets>>
  BY <1>3 DEF Unsubscribe, CloseChan
<1>4. CASE UNCHANGED vars
  BY <1>4
<1> QED
  BY <1>1, <1>2, <1>3, <1>4 DEF Next

(* And a client alone unless it is one of the client's own. *)
LEMMA ClientFrame ==
  ASSUME Shape, [Next]_vars, NEW c \in Clients
  PROVE  \/ /\ conn'[c] = conn[c] /\ state'[c] = state[c] /\ since'[c] = since[c]
            /\ backlog'[c] = backlog[c] /\ seen'[c] = seen[c]
         \/ ClientStep(c)
<1> USE DEF vars, clientVars, Shape, TypeOK, ClientTypeOK
<1>1. ASSUME NEW d \in Clients, ClientStep(d), d # c
      PROVE  /\ conn'[c] = conn[c] /\ state'[c] = state[c] /\ since'[c] = since[c]
             /\ backlog'[c] = backlog[c] /\ seen'[c] = seen[c]
  BY <1>1 DEF ClientStep, Connect, SendStored, Subscribe, SendLive, Disconnect, Receive
<1>2. ASSUME NEW w \in Writers, Emit(w) \/ WriterStep(w)
      PROVE  UNCHANGED clientVars
  BY <1>2 DEF Emit, WriterStep, Call, GiveUp, TakeNumber, TakeNumberFails,
     AppendEvent, AppendEventFails,
     PublishSnapshot, PublishSend, PublishPanics, PublishReturns
<1>3. ASSUME NEW ch \in Chans, Unsubscribe(ch) \/ CloseChan(ch)
      PROVE  UNCHANGED clientVars
  BY <1>3 DEF Unsubscribe, CloseChan
<1>4. CASE UNCHANGED vars
  BY <1>4
<1> QED
  BY <1>1, <1>2, <1>3, <1>4 DEF Next

(* A row comes from a writer's hand. *)
LEMMA RowsFromHand ==
  ASSUME [Next]_vars
  PROVE  run_events' \subseteq run_events \union InHand
<1>1. ASSUME NEW w \in Writers, Emit(w) \/ WriterStep(w)
      PROVE  run_events' \subseteq run_events \union InHand
  BY <1>1 DEF Emit, WriterStep, Call, GiveUp, TakeNumber, TakeNumberFails, AppendEvent,
     AppendEventFails, PublishSnapshot, PublishSend, PublishPanics, PublishReturns,
     storeVars, InHand
<1>2. ASSUME NEW c \in Clients, ClientStep(c)
      PROVE  UNCHANGED run_events
  BY <1>2 DEF ClientStep, Connect, SendStored, Subscribe, SendLive, Disconnect, storeVars
<1>3. ASSUME NEW ch \in Chans, Unsubscribe(ch) \/ CloseChan(ch)
      PROVE  UNCHANGED run_events
  BY <1>3 DEF Unsubscribe, CloseChan, storeVars
<1> QED
  BY <1>1, <1>2, <1>3 DEF Next, vars, storeVars

(* What a step does to a channel's buffer. *)
LEMMA QueueFrame ==
  ASSUME Shape, [Next]_vars, NEW ch \in Chans
  PROVE  \/ queue'[ch] = queue[ch]
         \/ \E w \in Writers : /\ PublishSend(w, ch)
                               /\ queue'[ch] = Append(queue[ch], event[w])
         \/ \E c \in Clients : /\ SendLive(c) /\ ch = Current(c)
                               /\ queue'[ch] = Tail(queue[ch])
         \/ CloseChan(ch) /\ queue'[ch] = <<>>
<1> USE DEF vars, chanVars, Shape, TypeOK, ChanTypeOK
<1>1. ASSUME NEW w \in Writers, Emit(w) \/ WriterStep(w)
      PROVE  UNCHANGED queue \/ \E d \in Chans : PublishSend(w, d)
  BY <1>1 DEF Emit, WriterStep, Call, GiveUp, TakeNumber, TakeNumberFails,
     AppendEvent, AppendEventFails,
     PublishSnapshot, PublishPanics, PublishReturns
<1>2. ASSUME NEW w \in Writers, NEW d \in Chans, PublishSend(w, d)
      PROVE  \/ queue'[ch] = queue[ch]
             \/ PublishSend(w, ch) /\ queue'[ch] = Append(queue[ch], event[w])
  <2>1. \/ UNCHANGED queue
        \/ queue' = [queue EXCEPT ![d] = Append(@, event[w])]
    BY <1>2 DEF PublishSend
  <2>2. CASE queue' = [queue EXCEPT ![d] = Append(@, event[w])]
    <3>1. CASE d = ch
      BY <1>2, <2>2, <3>1
    <3>2. CASE d # ch
      BY <2>2, <3>2
    <3> QED BY <3>1, <3>2
  <2> QED
    BY <2>1, <2>2
<1>3. ASSUME NEW c \in Clients, ClientStep(c)
      PROVE  \/ queue'[ch] = queue[ch]
             \/ SendLive(c) /\ ch = Current(c) /\ queue'[ch] = Tail(queue[ch])
  <2>1. UNCHANGED queue \/ SendLive(c)
    BY <1>3 DEF ClientStep, Connect, SendStored, Subscribe, Disconnect
  <2>2. CASE SendLive(c)
    <3>1. queue' = [queue EXCEPT ![Current(c)] = Tail(@)]
      BY <2>2 DEF SendLive
    <3>2. CASE Current(c) = ch
      BY <2>2, <3>1, <3>2
    <3>3. CASE Current(c) # ch
      BY <3>1, <3>3
    <3> QED BY <3>2, <3>3
  <2> QED
    BY <2>1, <2>2
<1>4. ASSUME NEW d \in Chans, Unsubscribe(d) \/ CloseChan(d)
      PROVE  queue'[ch] = queue[ch] \/ (CloseChan(ch) /\ queue'[ch] = <<>>)
  <2>1. CASE Unsubscribe(d)
    BY <2>1 DEF Unsubscribe
  <2>2. CASE CloseChan(d)
    <3>1. queue' = [queue EXCEPT ![d] = <<>>]
      BY <2>2 DEF CloseChan
    <3>2. CASE d = ch
      BY <2>2, <3>1, <3>2
    <3>3. CASE d # ch
      BY <3>1, <3>3
    <3> QED BY <3>2, <3>3
  <2> QED
    BY <1>4, <2>1, <2>2
<1>5. CASE UNCHANGED vars
  BY <1>5
<1> QED
  BY <1>1, <1>2, <1>3, <1>4, <1>5 DEF Next

-----------------------------------------------------------------------------
(* The established stream.  The invariant behind it follows a publish: a   *)
(* live channel is in the subscriber set, and an event that is being       *)
(* published either still has the channel ahead of it or is delivered.     *)

Delivered(c, e) ==
  \/ e \in Shown(c)
  \/ \E i \in DOMAIN queue[Current(c)] : queue[Current(c)][i] = e

KeepsUp(c) == state[c] = "live" /\ Current(c) \notin overflowed

LiveSubscribed == \A c \in Clients : state[c] = "live" => chan[Current(c)] = "subscribed"

PublishReaches ==
  \A c \in Clients, w \in Writers :
    (KeepsUp(c) /\ pc[w] = "publishing" /\ event[w].kind = "durable" /\ event[w].seq > since[c])
      => Current(c) \in targets[w] \/ Delivered(c, event[w])

StreamInv == LiveSubscribed /\ PublishReaches /\ EstablishedStreamComplete

LEMMA CurrentOpen ==
  ASSUME Shape, NEW c \in Clients, state[c] # "off"
  PROVE  Current(c) \in Chans
BY DEF Shape, Connected, Current, Chans

(* A client that is live after a step subscribed in it or was live before, *)
(* on the same connection.                                                 *)
LEMMA LiveBefore ==
  ASSUME Shape, [Next]_vars, NEW c \in Clients, state'[c] = "live"
  PROVE  \/ Subscribe(c)
         \/ /\ state[c] = "live" /\ since'[c] = since[c]
            /\ conn'[c] = conn[c] /\ Current(c)' = Current(c)
<1> USE DEF Shape, TypeOK, ClientTypeOK, Current
<1>1. CASE state'[c] = state[c] /\ since'[c] = since[c] /\ conn'[c] = conn[c]
  BY <1>1
<1>2. CASE ClientStep(c)
  BY <1>2 DEF ClientStep, Connect, SendStored, SendLive, Disconnect
<1> QED
  BY <1>1, <1>2, ClientFrame

LEMMA LiveStep ==
  ASSUME Shape, LiveSubscribed, [Next]_vars
  PROVE  LiveSubscribed'
<1> SUFFICES ASSUME NEW c \in Clients, state'[c] = "live"
             PROVE  chan'[Current(c)'] = "subscribed"
  BY DEF LiveSubscribed
<1> USE DEF Shape, TypeOK, ChanTypeOK
<1>1. CASE Subscribe(c)
  <2>1. Current(c) \in Chans /\ Current(c)' = Current(c)
    BY <1>1, CurrentOpen DEF Subscribe, Current
  <2> QED
    BY <1>1, <2>1 DEF Subscribe
<1>2. CASE state[c] = "live" /\ conn'[c] = conn[c] /\ Current(c)' = Current(c)
  <2>1. Current(c) \in Chans /\ chan[Current(c)] = "subscribed"
    BY <1>2, CurrentOpen DEF LiveSubscribed
  <2>2. ASSUME NEW w \in Writers, Emit(w) \/ WriterStep(w)
        PROVE  UNCHANGED chan
    BY <2>2 DEF Emit, WriterStep, Call, GiveUp, TakeNumber, TakeNumberFails,
       AppendEvent, AppendEventFails,
       PublishSnapshot, PublishSend, PublishPanics, PublishReturns, chanVars
  <2>3. ASSUME NEW d \in Clients, ClientStep(d)
        PROVE  UNCHANGED chan \/ chan' = [chan EXCEPT ![Current(d)] = "subscribed"]
    BY <2>3 DEF ClientStep, Connect, SendStored, Subscribe, SendLive, Disconnect, chanVars
  <2>4. ASSUME NEW ch \in Chans, Unsubscribe(ch)
        PROVE  ch # Current(c) /\ chan' = [chan EXCEPT ![ch] = "removed"]
    <3>1. ch # Current(c)
      BY <1>2, <2>4 DEF Unsubscribe, ContextDone, Current, ClientTypeOK
    <3> QED
      BY <2>4, <3>1 DEF Unsubscribe, Without
  <2>5. ASSUME NEW ch \in Chans, CloseChan(ch)
        PROVE  ch # Current(c) /\ chan' = [chan EXCEPT ![ch] = "closed"]
    BY <2>1, <2>5 DEF CloseChan
  <2>6. CASE UNCHANGED vars
    BY <1>2, <2>1, <2>6 DEF vars, chanVars
  <2> QED
    BY <1>2, <2>1, <2>2, <2>3, <2>4, <2>5, <2>6 DEF Next
<1> QED
  BY <1>1, <1>2, LiveBefore

(* What a live connection delivered or has in its buffer it keeps. *)
LEMMA DeliveredStays ==
  ASSUME Shape, LiveSubscribed, [Next]_vars, NEW c \in Clients, NEW e,
         state[c] = "live", state'[c] = "live", Current(c)' = Current(c), Delivered(c, e)
  PROVE  Delivered(c, e)'
<1> DEFINE ch == Current(c)
<1>0. ch \in Chans /\ chan[ch] = "subscribed"
  BY CurrentOpen DEF LiveSubscribed
<1>1. queue[ch] \in Seq(Event) /\ seen[c] \in Seq(Event)
  BY <1>0 DEF Shape, TypeOK, ChanTypeOK, ClientTypeOK
<1>2. CASE ClientStep(c)
  <2>1. SendLive(c)
    BY <1>2 DEF ClientStep, Connect, SendStored, Subscribe, Disconnect,
       Shape, TypeOK, ClientTypeOK
  <2>2. /\ queue[ch] # <<>>
        /\ seen'[c] = Append(seen[c], Head(queue[ch]))
        /\ queue'[ch] = Tail(queue[ch])
    BY <1>0, <2>1 DEF SendLive, Receive, Shape, TypeOK, ChanTypeOK, ClientTypeOK
  <2>3. CASE e \in Shown(c)
    <3>1. PICK i \in DOMAIN seen[c] : seen[c][i] = e
      BY <2>3 DEF Shown
    <3>2. i \in DOMAIN seen'[c] /\ seen'[c][i] = e
      BY <1>1, <2>2, <3>1
    <3> QED
      BY <3>2 DEF Delivered, Shown
  <2>4. CASE \E i \in DOMAIN queue[ch] : queue[ch][i] = e
    <3>1. PICK i \in DOMAIN queue[ch] : queue[ch][i] = e
      BY <2>4
    <3>2. CASE i = 1
      <4>1. Len(seen[c]) + 1 \in DOMAIN seen'[c] /\ seen'[c][Len(seen[c]) + 1] = e
        BY <1>1, <2>2, <3>1, <3>2
      <4> QED
        BY <4>1 DEF Delivered, Shown
    <3>3. CASE i # 1
      <4>1. i - 1 \in DOMAIN queue'[ch] /\ queue'[ch][i - 1] = e
        BY <1>1, <2>2, <3>1, <3>3
      <4> QED
        BY <4>1 DEF Delivered
    <3> QED
      BY <3>2, <3>3
  <2> QED
    BY <2>3, <2>4 DEF Delivered
<1>3. CASE seen'[c] = seen[c] /\ ~ClientStep(c)
  <2>1. Shown(c)' = Shown(c)
    BY <1>3 DEF Shown
  <2>2. ASSUME NEW i \in DOMAIN queue[ch]
        PROVE  i \in DOMAIN queue'[ch] /\ queue'[ch][i] = queue[ch][i]
    <3>1. CASE queue'[ch] = queue[ch]
      BY <3>1
    <3>2. CASE \E w \in Writers : PublishSend(w, ch) /\ queue'[ch] = Append(queue[ch], event[w])
      BY <1>1, <3>2
    <3>3. ~CloseChan(ch)
      BY <1>0 DEF CloseChan
    <3>4. ~\E d \in Clients : SendLive(d) /\ ch = Current(d)
      BY <1>3 DEF Current, ClientStep
    <3> QED
      BY <1>0, <3>1, <3>2, <3>3, <3>4, QueueFrame
  <2> QED
    BY <2>1, <2>2 DEF Delivered
<1> QED
  BY <1>2, <1>3, ClientFrame

(* A durable event leaves its writer's hand when Publish returns or dies. *)
LEMMA OutOfHand ==
  ASSUME Shape, [Next]_vars, NEW w \in Writers, pc[w] # "idle",
         event[w].kind = "durable", event[w].seq # 0, event[w] \notin InHand', event[w] \notin aborted'
  PROVE  PublishReturns(w)
<1> USE DEF Shape, TypeOK, WriterTypeOK
<1>1. ~(pc'[w] # "idle" /\ event'[w] = event[w])
  BY DEF InHand
<1>2. Emit(w) \/ WriterStep(w)
  BY <1>1, WriterFrame
<1>3. ~Emit(w)
  BY <1>1 DEF Emit, Call, GiveUp
<1>6. ~(TakeNumber(w) \/ TakeNumberFails(w))
  BY DEF TakeNumber, TakeNumberFails, Unnumbered
<1>4. ~(AppendEvent(w) \/ AppendEventFails(w) \/ PublishSnapshot(w))
  BY <1>1 DEF AppendEvent, AppendEventFails, PublishSnapshot, AfterStore, Goto
<1>5. ASSUME NEW ch \in Chans
      PROVE  ~(PublishSend(w, ch) \/ PublishPanics(w, ch))
  BY <1>1 DEF PublishSend, PublishPanics
<1> QED
  BY <1>2, <1>3, <1>4, <1>5, <1>6 DEF WriterStep

LEMMA StreamStep ==
  ASSUME Shape, NumbersInv, StreamInv, [Next]_vars
  PROVE  StreamInv'
<1>1. LiveSubscribed'
  BY LiveStep DEF StreamInv
<1>2. ASSUME NEW c \in Clients, KeepsUp(c)', ~Subscribe(c)
      PROVE  /\ KeepsUp(c) /\ since'[c] = since[c] /\ Current(c)' = Current(c)
             /\ Current(c) \in Chans /\ chan[Current(c)] = "subscribed"
             /\ \A e : Delivered(c, e) => Delivered(c, e)'
  <2>1. state[c] = "live" /\ since'[c] = since[c] /\ Current(c)' = Current(c)
    BY <1>2, LiveBefore DEF KeepsUp
  <2>2. overflowed \subseteq overflowed'
    <3>1. ASSUME NEW w \in Writers, Emit(w) \/ WriterStep(w)
          PROVE  overflowed \subseteq overflowed'
      BY <3>1 DEF Emit, WriterStep, Call, GiveUp, TakeNumber, TakeNumberFails, AppendEvent,
         AppendEventFails, PublishSnapshot, PublishSend, PublishPanics, PublishReturns, chanVars
    <3>2. ASSUME NEW d \in Clients, ClientStep(d)
          PROVE  overflowed \subseteq overflowed'
      BY <3>2 DEF ClientStep, Connect, SendStored, Subscribe, SendLive, Disconnect, chanVars
    <3>3. ASSUME NEW ch \in Chans, Unsubscribe(ch) \/ CloseChan(ch)
          PROVE  overflowed \subseteq overflowed'
      BY <3>3 DEF Unsubscribe, CloseChan
    <3> QED
      BY <3>1, <3>2, <3>3 DEF Next, vars, chanVars
  <2>3. KeepsUp(c)
    BY <1>2, <2>1, <2>2 DEF KeepsUp
  <2>4. Current(c) \in Chans /\ chan[Current(c)] = "subscribed"
    BY <2>1, CurrentOpen DEF StreamInv, LiveSubscribed
  <2>5. ASSUME NEW e, Delivered(c, e)
        PROVE  Delivered(c, e)'
    <3>1. state'[c] = "live"
      BY <1>2 DEF KeepsUp
    <3> QED
      BY <2>1, <2>5, <3>1, DeliveredStays DEF StreamInv
  <2> QED
    BY <2>1, <2>3, <2>4, <2>5
<1>3. ASSUME NEW c \in Clients, Subscribe(c)
      PROVE  /\ since'[c] = last_seq /\ UNCHANGED <<run_events, pc, event>>
             /\ \A e \in run_events \union InHand : ~(e.seq > last_seq)
  <2>1. since'[c] = last_seq /\ UNCHANGED <<run_events, pc, event>>
    BY <1>3 DEF Subscribe, storeVars, writerVars, Shape, TypeOK, ClientTypeOK
  <2>2. \A e \in run_events \union InHand : e.seq \in Nat /\ e.seq <= last_seq /\ last_seq \in Nat
    BY DEF NumbersInv, CounterAhead, InUse, InHand, Shape, TypeOK, StoreTypeOK, HandOK, Event
  <2> QED
    BY <2>1, <2>2
<1>4. PublishReaches'
  <2> SUFFICES ASSUME NEW c \in Clients, NEW w \in Writers, KeepsUp(c)',
                      pc'[w] = "publishing", event'[w].kind = "durable",
                      event'[w].seq > since'[c]
               PROVE  Current(c)' \in targets'[w] \/ Delivered(c, event[w])'
    BY DEF PublishReaches, Delivered, Shown
  <2>1. CASE Subscribe(c)
    BY <1>3, <2>1 DEF InHand
  <2>2. CASE ~Subscribe(c)
    <3> USE DEF Shape, TypeOK, WriterTypeOK
    <3>1. CASE pc'[w] = pc[w] /\ event'[w] = event[w] /\ targets'[w] = targets[w]
      BY <1>2, <2>2, <3>1 DEF StreamInv, PublishReaches
    <3>2. CASE PublishSnapshot(w)
      BY <1>2, <2>2, <3>2 DEF PublishSnapshot
    <3>3. ASSUME NEW ch \in Chans, PublishSend(w, ch)
          PROVE  Current(c)' \in targets'[w] \/ Delivered(c, event[w])'
      <4>1. pc[w] = "publishing" /\ event'[w] = event[w] /\ targets'[w] = targets[w] \ {ch}
        BY <3>3 DEF PublishSend, Unsent
      <4>2. Current(c) \in targets[w] \/ Delivered(c, event[w])
        BY <1>2, <2>2, <4>1 DEF StreamInv, PublishReaches
      <4>3. CASE Delivered(c, event[w])
        BY <1>2, <2>2, <4>1, <4>3
      <4>4. CASE Current(c) \in targets[w] /\ Current(c) # ch
        BY <1>2, <2>2, <4>1, <4>4
      <4>5. CASE Current(c) = ch
        <5>1. ch \notin overflowed'
          BY <1>2, <2>2, <4>5 DEF KeepsUp
        <5>2. queue'[ch] = Append(queue[ch], event[w]) /\ queue[ch] \in Seq(Event)
          BY <3>3, <5>1 DEF PublishSend, ChanTypeOK
        <5>3. Len(queue[ch]) + 1 \in DOMAIN queue'[ch] /\ queue'[ch][Len(queue[ch]) + 1] = event[w]
          BY <5>2
        <5>4. queue'[Current(c)'] = queue'[ch]
          BY <1>2, <2>2, <4>5
        <5> QED
          BY <5>3, <5>4, <4>1 DEF Delivered
      <4> QED
        BY <4>2, <4>3, <4>4, <4>5
    <3>5. ~(TakeNumber(w) \/ TakeNumberFails(w))
      BY DEF TakeNumber, TakeNumberFails, AfterNumber, Goto
    <3>6. ~(AppendEvent(w) \/ AppendEventFails(w) \/ PublishReturns(w))
      BY DEF AppendEvent, AppendEventFails, PublishReturns, AfterStore, Goto
    <3>7. ~\E ch \in Chans : PublishPanics(w, ch)
      BY DEF PublishPanics, Goto
    <3>8. Emit(w) => pc'[w] = pc[w] /\ event'[w] = event[w] /\ targets'[w] = targets[w]
      BY DEF Emit, Call, GiveUp
    <3>4. ASSUME WriterStep(w)
          PROVE  PublishSnapshot(w) \/ \E ch \in Chans : PublishSend(w, ch)
      BY <3>4, <3>5, <3>6, <3>7 DEF WriterStep
    <3> QED
      BY <3>1, <3>2, <3>3, <3>4, <3>8, WriterFrame
  <2> QED
    BY <2>1, <2>2
<1>5. EstablishedStreamComplete'
  <2> SUFFICES ASSUME NEW c \in Clients, KeepsUp(c)', NEW e \in run_events',
                      e.seq > since'[c], e.kind = "durable", e \notin aborted', e \notin InHand'
               PROVE  Delivered(c, e)'
    BY DEF EstablishedStreamComplete, KeepsUp, Delivered
  <2>1. e \in run_events \union InHand
    BY RowsFromHand
  <2>2. CASE Subscribe(c)
    BY <1>3, <2>1, <2>2
  <2>3. CASE ~Subscribe(c) /\ e \in InHand
    <3>1. PICK w \in Writers : pc[w] # "idle" /\ e = event[w]
      BY <2>3 DEF InHand
    <3>2. PublishReturns(w)
      <4>1. e.seq # 0
        BY <1>2, <2>3 DEF KeepsUp, Shape, TypeOK, ClientTypeOK
      <4> QED
        BY <3>1, <4>1, OutOfHand
    <3>3. Delivered(c, e)
      BY <1>2, <2>3, <3>1, <3>2 DEF PublishReturns, StreamInv, PublishReaches
    <3> QED
      BY <1>2, <2>3, <3>3
  <2>4. CASE ~Subscribe(c) /\ e \in run_events /\ e \notin InHand
    <3>1. aborted \subseteq aborted'
      <4>1. ASSUME NEW w \in Writers, Emit(w) \/ WriterStep(w)
            PROVE  aborted \subseteq aborted'
        BY <4>1 DEF Emit, WriterStep, Call, GiveUp, TakeNumber, TakeNumberFails, AppendEvent,
           AppendEventFails, PublishSnapshot, PublishSend, PublishPanics, PublishReturns
      <4>2. ASSUME NEW d \in Clients, ClientStep(d)
            PROVE  UNCHANGED aborted
        BY <4>2 DEF ClientStep, Connect, SendStored, Subscribe, SendLive, Disconnect, writerVars
      <4>3. ASSUME NEW ch \in Chans, Unsubscribe(ch) \/ CloseChan(ch)
            PROVE  UNCHANGED aborted
        BY <4>3 DEF Unsubscribe, CloseChan, writerVars
      <4> QED
        BY <4>1, <4>2, <4>3 DEF Next, vars, writerVars
    <3>2. Delivered(c, e)
      BY <1>2, <2>4, <3>1 DEF StreamInv, EstablishedStreamComplete, KeepsUp, Delivered
    <3> QED
      BY <1>2, <2>4, <3>2
  <2> QED
    BY <2>1, <2>2, <2>3, <2>4
<1> QED
  BY <1>1, <1>4, <1>5 DEF StreamInv

(* However many other clients come and go, a client that stays connected   *)
(* and whose buffer does not overflow gets every event that was published  *)
(* under a number issued after it subscribed.                              *)
THEOREM LiveStreamIsComplete == Spec => []EstablishedStreamComplete
<1>1. Init => Shape /\ NumbersInv /\ StreamInv
  BY ShapeInit DEF Init, NumbersInv, UniqueNumbers, CounterAhead, InUse, InHand,
     StreamInv, LiveSubscribed, PublishReaches, EstablishedStreamComplete
<1>2. Shape /\ NumbersInv /\ StreamInv /\ [Next]_vars => (Shape /\ NumbersInv /\ StreamInv)'
  BY ShapeStep, NumbersStep, StreamStep
<1>3. StreamInv => EstablishedStreamComplete
  BY DEF StreamInv
<1> QED
  BY <1>1, <1>2, <1>3, PTL DEF Spec

-----------------------------------------------------------------------------
(* The order of one emitter.  The invariant behind it orders, emitter by   *)
(* emitter, the whole way of an event to the screen: what is shown, what   *)
(* is buffered, and what a handler still has in hand, which is newer than  *)
(* everything of the emitter's own that is stored, buffered or shown.      *)
(* Events whose call was given up stand outside that order; it holds of    *)
(* the rest because an emitter waits for one handler at a time.            *)

OneWaited ==
  \A v, w \in Writers :
    v # w /\ Emitter(v) = Emitter(w) /\ pc[v] # "idle" /\ pc[w] # "idle"
      => v \in given_up \/ w \in given_up

GivenUpLate == \A w \in given_up : pc[w] # "idle" /\ event[w] \in late

WaitInv == OneWaited /\ GivenUpLate

LEMMA LateGrows ==
  ASSUME [Next]_vars
  PROVE  late \subseteq late'
<1>1. ASSUME NEW w \in Writers, Emit(w) \/ WriterStep(w)
      PROVE  late \subseteq late'
  BY <1>1 DEF Emit, WriterStep, Call, GiveUp, TakeNumber, TakeNumberFails, AppendEvent,
     AppendEventFails, PublishSnapshot, PublishSend, PublishPanics, PublishReturns
<1>2. ASSUME NEW c \in Clients, ClientStep(c)
      PROVE  UNCHANGED late
  BY <1>2 DEF ClientStep, Connect, SendStored, Subscribe, SendLive, Disconnect, writerVars
<1>3. ASSUME NEW ch \in Chans, Unsubscribe(ch) \/ CloseChan(ch)
      PROVE  UNCHANGED late
  BY <1>3 DEF Unsubscribe, CloseChan, writerVars
<1> QED
  BY <1>1, <1>2, <1>3 DEF Next, vars, writerVars

LEMMA WaitStep ==
  ASSUME Shape, WaitInv, [Next]_vars
  PROVE  WaitInv'
<1> USE DEF WaitInv, OneWaited, GivenUpLate, Shape, TypeOK, WriterTypeOK
<1>1. ASSUME NEW w \in Writers, NEW kind \in Kinds, Call(w, kind)
      PROVE  WaitInv'
  <2>1. /\ pc' = [pc EXCEPT ![w] = "called"] /\ given_up' = given_up /\ late' = late
        /\ \A v \in Writers : v # w => event'[v] = event[v]
    BY <1>1 DEF Call
  <2>2. pc[w] = "idle" /\ w \notin given_up
    BY <1>1 DEF Call
  <2>3. \A v \in Writers : Emitter(v) = Emitter(w) /\ pc[v] # "idle" => v \in given_up
    BY <1>1 DEF Call, Waits
  <2> QED
    BY <2>1, <2>2, <2>3
<1>2. ASSUME NEW w \in Writers, GiveUp(w)
      PROVE  WaitInv'
  BY <1>2 DEF GiveUp
<1>3. ASSUME NEW w \in Writers, TakeNumber(w)
      PROVE  WaitInv'
  <2>1. PICK new : new = [event[w] EXCEPT !.seq = NextSeq]
    OBVIOUS
  <2>2. /\ event' = [event EXCEPT ![w] = new]
        /\ pc[w] = "called" /\ pc' = [pc EXCEPT ![w] = AfterNumber(new.kind)]
        /\ late' = IF w \in given_up THEN late \union {new} ELSE late
        /\ given_up' = given_up
    BY <1>3, <2>1 DEF TakeNumber
  <2>3. AfterNumber(new.kind) # "idle"
    BY DEF AfterNumber
  <2> QED
    BY <2>2, <2>3
<1>4. ASSUME NEW w \in Writers, NEW next, Goto(w, next), UNCHANGED late,
             pc[w] # "idle", next # "called",
             w \in given_up => event[w] \in late
      PROVE  WaitInv'
  BY <1>4 DEF Goto
<1>5. ASSUME NEW w \in Writers, TakeNumberFails(w)
      PROVE  WaitInv'
  <2>1. PICK next \in {"idle", "numbered", "stored"} : Goto(w, next)
    BY <1>5 DEF TakeNumberFails, AfterNumber
  <2>2. pc[w] = "called" /\ UNCHANGED late
    BY <1>5 DEF TakeNumberFails
  <2>3. w \in given_up => event[w] \in late
    BY <1>5
  <2> QED
    BY <1>4, <2>1, <2>2, <2>3
<1>6. ASSUME NEW w \in Writers,
             \/ AppendEvent(w) \/ AppendEventFails(w) \/ PublishSnapshot(w)
             \/ PublishReturns(w) \/ \E ch \in Chans : PublishPanics(w, ch)
      PROVE  WaitInv'
  <2>1. /\ pc[w] # "idle" /\ pc[w] # "called" /\ UNCHANGED late
        /\ \E next \in {"idle", "stored", "publishing"} : Goto(w, next)
    BY <1>6 DEF AppendEvent, AppendEventFails, PublishSnapshot, PublishReturns,
       PublishPanics, AfterStore
  <2> QED
    BY <1>4, <2>1
<1>7. ASSUME UNCHANGED <<pc, event, given_up, late>>
      PROVE  WaitInv'
  BY <1>7
<1>8. ASSUME NEW w \in Writers, NEW ch \in Chans, PublishSend(w, ch)
      PROVE  UNCHANGED <<pc, event, given_up, late>>
  BY <1>8 DEF PublishSend
<1>9. ASSUME NEW c \in Clients, ClientStep(c)
      PROVE  UNCHANGED <<pc, event, given_up, late>>
  BY <1>9 DEF ClientStep, Connect, SendStored, Subscribe, SendLive, Disconnect, writerVars
<1>10. ASSUME NEW ch \in Chans, Unsubscribe(ch) \/ CloseChan(ch)
       PROVE  UNCHANGED <<pc, event, given_up, late>>
  BY <1>10 DEF Unsubscribe, CloseChan, writerVars
<1>11. CASE UNCHANGED vars
  BY <1>7, <1>11 DEF vars, writerVars
<1>12. CASE \E w \in Writers : Emit(w) \/ WriterStep(w)
  BY <1>1, <1>2, <1>3, <1>5, <1>6, <1>7, <1>8, <1>12, ZenonT(30) DEF Emit, WriterStep
<1> QED
  BY <1>7, <1>9, <1>10, <1>11, <1>12 DEF Next

(* e is not later than f, unless f lost its number, one of them was given  *)
(* up, or they are of two emitters.                                        *)
NotLater(e, f) ==
  Emitter(e.by) = Emitter(f.by) /\ f.seq # 0 /\ e \notin late /\ f \notin late
    => e.seq <= f.seq

Ordered(s) == \A i, j \in DOMAIN s : i < j => NotLater(s[i], s[j])
Before(s, t) == \A i \in DOMAIN s, j \in DOMAIN t : NotLater(s[i], t[j])

Old(e) ==
  /\ e.seq <= last_seq
  /\ \A w \in Writers : pc[w] # "idle" => NotLater(e, event[w])

RowsOld == \A e \in run_events : Old(e)
QueueOld == \A ch \in Chans : \A i \in DOMAIN queue[ch] : Old(queue[ch][i])
SeenOld == \A c \in Clients : \A i \in DOMAIN seen[c] : Old(seen[c][i])

QueueOrdered == \A ch \in Chans : Ordered(queue[ch])
SeenOrdered == \A c \in Clients : Ordered(seen[c])

(* The seam: the rows that were replayed precede the rows still to be sent *)
(* and, once the client is live, what its buffer holds.                    *)
SeenFirst ==
  \A c \in Clients :
    /\ state[c] = "off" => seen[c] = <<>>
    /\ state[c] = "replay" =>
         \A i \in DOMAIN seen[c], e \in backlog[c] : seen[c][i].seq <= e.seq
    /\ state[c] = "live" => Before(seen[c], queue[Current(c)])

(* A channel that was not made yet is nobody's target and holds nothing. *)
Unmade ==
  /\ \A ch \in Chans :
       chan[ch] = "none" => queue[ch] = <<>> /\ \A w \in Writers : ch \notin targets[w]
  /\ \A ch \in Chans :
       (conn[ch[1]] < ch[2] \/ (conn[ch[1]] = ch[2] /\ state[ch[1]] = "replay"))
         => chan[ch] = "none"

OrderInv == /\ RowsOld /\ QueueOld /\ SeenOld
            /\ QueueOrdered /\ SeenOrdered
            /\ SeenFirst /\ Unmade
            /\ WaitInv

(* Orders of sequences under the operations of buffers and screens. *)
LEMMA AppendOrdered ==
  ASSUME NEW s \in Seq(Event), NEW e \in Event, Ordered(s),
         \A i \in DOMAIN s : NotLater(s[i], e)
  PROVE  Ordered(Append(s, e))
<1> SUFFICES ASSUME NEW i \in DOMAIN Append(s, e), NEW j \in DOMAIN Append(s, e), i < j
             PROVE  NotLater(Append(s, e)[i], Append(s, e)[j])
  BY DEF Ordered
<1>1. i \in DOMAIN s /\ Append(s, e)[i] = s[i]
  OBVIOUS
<1>2. CASE j \in DOMAIN s
  BY <1>1, <1>2 DEF Ordered
<1>3. CASE j \notin DOMAIN s
  <2>1. Append(s, e)[j] = e
    BY <1>3
  <2> QED BY <1>1, <2>1
<1> QED
  BY <1>2, <1>3

LEMMA TailOrdered ==
  ASSUME NEW t \in Seq(Event), t # <<>>, Ordered(t)
  PROVE  /\ Ordered(Tail(t))
         /\ \A j \in DOMAIN Tail(t) : NotLater(Head(t), Tail(t)[j])
<1>1. ASSUME NEW j \in DOMAIN Tail(t)
      PROVE  j + 1 \in DOMAIN t /\ Tail(t)[j] = t[j + 1] /\ j \in Nat /\ 1 < j + 1
  OBVIOUS
<1>2. Head(t) = t[1] /\ 1 \in DOMAIN t
  OBVIOUS
<1>3. ASSUME NEW i \in DOMAIN Tail(t), NEW j \in DOMAIN Tail(t), i < j
      PROVE  NotLater(Tail(t)[i], Tail(t)[j])
  <2>1. i + 1 < j + 1
    BY <1>1, <1>3
  <2> QED
    BY <1>1, <2>1 DEF Ordered
<1>4. ASSUME NEW j \in DOMAIN Tail(t)
      PROVE  NotLater(Head(t), Tail(t)[j])
  BY <1>1, <1>2 DEF Ordered
<1> QED
  BY <1>3, <1>4 DEF Ordered

LEMMA AppendBefore ==
  ASSUME NEW s \in Seq(Event), NEW t \in Seq(Event), NEW e \in Event, Before(s, t),
         \A i \in DOMAIN s : NotLater(s[i], e)
  PROVE  Before(s, Append(t, e))
BY AppendFacts DEF Before

LEMMA MoveHead ==
  ASSUME NEW s \in Seq(Event), NEW t \in Seq(Event), t # <<>>,
         Ordered(s), Ordered(t), Before(s, t)
  PROVE  Ordered(Append(s, Head(t))) /\ Before(Append(s, Head(t)), Tail(t))
<1>1. Head(t) \in Event /\ \E j \in DOMAIN t : Head(t) = t[j]
  BY HeadTailFacts
<1>2. \A i \in DOMAIN s : NotLater(s[i], Head(t))
  BY <1>1 DEF Before
<1>3. \A i \in DOMAIN Tail(t) : \E j \in DOMAIN t : Tail(t)[i] = t[j]
  BY HeadTailFacts
<1>4. ASSUME NEW i \in DOMAIN Append(s, Head(t)), NEW j \in DOMAIN Tail(t)
      PROVE  NotLater(Append(s, Head(t))[i], Tail(t)[j])
  <2>1. Append(s, Head(t))[i] = Head(t) \/ \E k \in DOMAIN s : Append(s, Head(t))[i] = s[k]
    BY <1>1, AppendFacts
  <2>2. NotLater(Head(t), Tail(t)[j])
    BY TailOrdered
  <2>3. \A k \in DOMAIN s : NotLater(s[k], Tail(t)[j])
    BY <1>3 DEF Before
  <2> QED
    BY <2>1, <2>2, <2>3
<1> QED
  BY <1>1, <1>2, <1>4, AppendOrdered DEF Before

(* What is old stays old: a handler takes only numbers that are newer. *)
LEMMA OldStays ==
  ASSUME Shape, [Next]_vars, NEW e, e.seq \in Nat, Old(e)
  PROVE  Old(e)'
<1> USE DEF Shape, TypeOK, WriterTypeOK, StoreTypeOK
<1>1. last_seq' \in {last_seq, last_seq + 1}
  BY InUseStep
<1>2. ASSUME NEW w \in Writers, pc'[w] # "idle"
      PROVE  NotLater(e, event'[w])
  <2>1. CASE pc[w] # "idle" /\ event'[w] = event[w]
    BY <2>1 DEF Old
  <2>2. CASE Emit(w)
    <3>1. ASSUME NEW kind \in Kinds, Call(w, kind)
          PROVE  event'[w].seq = 0
      BY <3>1 DEF Call
    <3>2. GiveUp(w) => pc[w] # "idle" /\ event'[w] = event[w]
      BY DEF GiveUp
    <3> QED
      BY <2>1, <2>2, <3>1, <3>2 DEF Emit, NotLater
  <2>3. CASE TakeNumber(w)
    <3>1. PICK new : new = [event[w] EXCEPT !.seq = NextSeq]
      OBVIOUS
    <3>2. event'[w] = new /\ new.seq = last_seq + 1
      BY <2>3, <3>1, NumberedFacts DEF TakeNumber
    <3> QED
      BY <3>2 DEF NotLater, Old
  <2>4. CASE WriterStep(w) /\ ~TakeNumber(w)
    BY <1>2, <2>1, <2>4 DEF WriterStep, TakeNumberFails, AppendEvent, AppendEventFails,
       PublishSnapshot, PublishSend, PublishPanics, PublishReturns, Goto
  <2> QED
    BY <1>2, <2>1, <2>2, <2>3, <2>4, WriterFrame
<1>3. e.seq <= last_seq'
  BY <1>1 DEF Old
<1> QED
  BY <1>2, <1>3, LateGrows DEF Old, NotLater

(* The event in a handler's hand is the newest of its emitter's own that   *)
(* were not given up.                                                      *)
LEMMA HandOld ==
  ASSUME Shape, NumbersInv, WaitInv, NEW w \in Writers, pc[w] # "idle"
  PROVE  Old(event[w])
<1> USE DEF Shape, TypeOK, StoreTypeOK
<1>1. event[w] \in Event /\ event[w].by = w /\ event[w].seq <= last_seq
  BY DEF HandOK, NumbersInv, CounterAhead, InUse, InHand
<1>2. ASSUME NEW v \in Writers, pc[v] # "idle", v # w
      PROVE  NotLater(event[w], event[v])
  <2>1. event[v] \in Event /\ event[v].by = v
    BY <1>2 DEF HandOK
  <2>2. CASE Emitter(v) = Emitter(w)
    <3>1. event[v] \in late \/ event[w] \in late
      BY <1>2, <2>2 DEF WaitInv, OneWaited, GivenUpLate
    <3> QED
      BY <1>1, <2>1, <3>1 DEF NotLater, Event
  <2> QED
    BY <1>1, <2>1, <2>2 DEF NotLater
<1>3. NotLater(event[w], event[w])
  BY <1>1 DEF NotLater, Event
<1> QED
  BY <1>1, <1>2, <1>3 DEF Old

(* A channel stays made, and only a channel that was made gets events. *)
LEMMA UnmadeStep ==
  ASSUME Shape, Unmade, [Next]_vars
  PROVE  Unmade'
<1> USE DEF Shape, TypeOK, WriterTypeOK, ChanTypeOK, ClientTypeOK
<1>1. ASSUME NEW ch \in Chans, chan'[ch] = "none"
      PROVE  chan[ch] = "none"
  <2>1. ASSUME NEW w \in Writers, Emit(w) \/ WriterStep(w)
        PROVE  UNCHANGED chan
    BY <2>1 DEF Emit, WriterStep, Call, GiveUp, TakeNumber, TakeNumberFails,
       AppendEvent, AppendEventFails,
       PublishSnapshot, PublishSend, PublishPanics, PublishReturns, chanVars
  <2>2. ASSUME NEW d \in Clients, ClientStep(d)
        PROVE  UNCHANGED chan \/ chan' = [chan EXCEPT ![Current(d)] = "subscribed"]
    BY <2>2 DEF ClientStep, Connect, SendStored, Subscribe, SendLive, Disconnect, chanVars
  <2>3. ASSUME NEW d \in Chans, Unsubscribe(d) \/ CloseChan(d)
        PROVE  chan' = [chan EXCEPT ![d] = "removed"] \/ chan' = [chan EXCEPT ![d] = "closed"]
    BY <2>3 DEF Unsubscribe, CloseChan, Without
  <2>4. CASE UNCHANGED vars
    BY <1>1, <2>4 DEF vars, chanVars
  <2> QED
    BY <1>1, <2>1, <2>2, <2>3, <2>4 DEF Next
<1>2. ASSUME NEW ch \in Chans, chan'[ch] = "none"
      PROVE  queue'[ch] = <<>> /\ \A w \in Writers : ch \notin targets'[w]
  <2>1. chan[ch] = "none" /\ queue[ch] = <<>> /\ \A w \in Writers : ch \notin targets[w]
    BY <1>1, <1>2 DEF Unmade
  <2>2. queue'[ch] = <<>>
    <3>1. ~\E w \in Writers : PublishSend(w, ch)
      BY <2>1 DEF PublishSend
    <3>2. ~\E c \in Clients : SendLive(c) /\ ch = Current(c)
      BY <2>1 DEF SendLive
    <3> QED
      BY <2>1, <3>1, <3>2, QueueFrame
  <2>3. ASSUME NEW w \in Writers
        PROVE  ch \notin targets'[w]
    <3>1. CASE Emit(w) \/ WriterStep(w)
      BY <2>1, <3>1 DEF Emit, WriterStep, Call, GiveUp, TakeNumber, TakeNumberFails, AppendEvent,
         AppendEventFails, PublishSnapshot, PublishSend, PublishPanics, PublishReturns, Unsent
    <3> QED
      BY <2>1, <3>1, WriterFrame
  <2> QED
    BY <2>2, <2>3
<1>3. ASSUME NEW ch \in Chans,
             conn'[ch[1]] < ch[2] \/ (conn'[ch[1]] = ch[2] /\ state'[ch[1]] = "replay")
      PROVE  chan'[ch] = "none"
  <2> DEFINE c == ch[1]
  <2>1. c \in Clients /\ ch[2] \in 1..MaxConns /\ ch = <<ch[1], ch[2]>>
    BY DEF Chans
  <2>2. chan[ch] = "none"
    <3>1. CASE conn'[c] = conn[c] /\ state'[c] = state[c]
      BY <1>3, <3>1 DEF Unmade
    <3>2. CASE ClientStep(c)
      <4>1. CASE Connect(c)
        <5>1. conn'[c] = conn[c] + 1 /\ conn[c] \in Nat
          BY <2>1, <4>1, BoundsAssumption DEF Connect
        <5> QED
          BY <1>3, <2>1, <5>1 DEF Unmade
      <4>2. CASE SendStored(c) \/ SendLive(c)
        BY <1>3, <4>2 DEF SendStored, SendLive, Unmade
      <4>3. CASE Subscribe(c) \/ Disconnect(c)
        <5>1. conn'[c] = conn[c] /\ state'[c] # "replay"
          BY <2>1, <4>3 DEF Subscribe, Disconnect
        <5> QED
          BY <1>3, <5>1 DEF Unmade
      <4> QED
        BY <3>2, <4>1, <4>2, <4>3 DEF ClientStep
    <3> QED
      BY <2>1, <3>1, <3>2, ClientFrame
  <2>3. ASSUME NEW w \in Writers, Emit(w) \/ WriterStep(w)
        PROVE  UNCHANGED chan
    BY <2>3 DEF Emit, WriterStep, Call, GiveUp, TakeNumber, TakeNumberFails,
       AppendEvent, AppendEventFails,
       PublishSnapshot, PublishSend, PublishPanics, PublishReturns, chanVars
  <2>4. ASSUME NEW d \in Clients, ClientStep(d)
        PROVE  chan'[ch] = chan[ch]
    <3>1. CASE Subscribe(d)
      <4>1. ch # Current(d)
        <5>1. SUFFICES ASSUME ch = Current(d) PROVE FALSE
          OBVIOUS
        <5>2. c = d /\ ch[2] = conn[d]
          BY <5>1 DEF Current
        <5> QED
          BY <1>3, <3>1, <5>2 DEF Subscribe
      <4> QED
        BY <3>1, <4>1 DEF Subscribe
    <3> QED
      BY <2>4, <3>1 DEF ClientStep, Connect, SendStored, SendLive, Disconnect, chanVars
  <2>5. ASSUME NEW d \in Chans, Unsubscribe(d) \/ CloseChan(d)
        PROVE  chan'[ch] = chan[ch]
    <3>1. d # ch
      BY <2>2, <2>5 DEF Unsubscribe, CloseChan
    <3> QED
      BY <2>5, <3>1 DEF Unsubscribe, CloseChan, Without
  <2>6. CASE UNCHANGED vars
    BY <2>2, <2>6 DEF vars, chanVars
  <2> QED
    BY <2>2, <2>3, <2>4, <2>5, <2>6 DEF Next
<1> QED
  BY <1>2, <1>3 DEF Unmade

(* One step of a client keeps what it shows in order. *)
LEMMA ScreenStep ==
  ASSUME Shape, DurableInv, OrderInv, [Next]_vars, NEW c \in Clients
  PROVE  /\ Ordered(seen[c])'
         /\ state'[c] = "off" => seen'[c] = <<>>
         /\ state'[c] = "replay" =>
              \A i \in DOMAIN seen'[c], e \in backlog'[c] : seen'[c][i].seq <= e.seq
         /\ state'[c] = "live" => Before(seen[c], queue[Current(c)])'
         /\ \A i \in DOMAIN seen'[c] :
              \/ \E j \in DOMAIN seen[c] : seen'[c][i] = seen[c][j]
              \/ seen'[c][i] \in run_events
              \/ \E ch \in Chans : \E j \in DOMAIN queue[ch] : seen'[c][i] = queue[ch][j]
<1> USE DEF Shape, TypeOK, ClientTypeOK
<1>0. seen[c] \in Seq(Event) /\ Ordered(seen[c])
  BY DEF OrderInv, SeenOrdered
<1>7. late \subseteq late'
  BY LateGrows
<1>1. CASE Connect(c)
  <2>1. seen'[c] = <<>> /\ state'[c] = "replay"
    BY <1>1 DEF Connect, OrderInv, SeenFirst
  <2> QED
    BY <2>1 DEF Ordered
<1>2. CASE SendStored(c)
  <2>1. PICK e \in backlog[c] :
          NextRow(c, e) /\ Receive(c, e) /\ backlog' = [backlog EXCEPT ![c] = @ \ {e}]
    BY <1>2 DEF SendStored
  <2>2. e \in Event /\ e \in run_events
    BY DEF DurableInv, BacklogSettled
  <2>3. /\ seen'[c] = Append(seen[c], e) /\ backlog'[c] = backlog[c] \ {e}
        /\ state[c] = "replay" /\ state'[c] = "replay"
    BY <1>2, <2>1 DEF SendStored, Receive
  <2>4. \A i \in DOMAIN seen[c] : seen[c][i].seq <= e.seq
    BY <2>3 DEF OrderInv, SeenFirst
  <2>5. Ordered(Append(seen[c], e))
    BY <1>0, <2>2, <2>4, AppendOrdered DEF NotLater
  <2>6. \A i \in DOMAIN seen'[c] : seen'[c][i] = e \/ \E j \in DOMAIN seen[c] : seen'[c][i] = seen[c][j]
    BY <1>0, <2>2, <2>3, AppendFacts
  <2>7. \A f \in backlog'[c] : e.seq <= f.seq /\ f \in backlog[c]
    BY <2>1, <2>3 DEF NextRow
  <2>8. \A i \in DOMAIN seen'[c], f \in backlog'[c] : seen'[c][i].seq <= f.seq
    BY <2>3, <2>6, <2>7 DEF OrderInv, SeenFirst
  <2>9. Ordered(seen[c])'
    BY <1>7, <2>3, <2>5 DEF Ordered, NotLater
  <2> QED
    BY <2>2, <2>3, <2>6, <2>8, <2>9
<1>3. CASE Subscribe(c)
  <2>1. seen'[c] = seen[c] /\ state'[c] = "live" /\ Current(c)' = Current(c)
    BY <1>3 DEF Subscribe, Current
  <2>2. Current(c) \in Chans /\ Current(c)[1] = c /\ Current(c)[2] = conn[c]
    BY <1>3, CurrentOpen DEF Subscribe, Current
  <2>3. queue[Current(c)] = <<>> /\ queue' = queue
    BY <1>3, <2>2 DEF Subscribe, OrderInv, Unmade
  <2>4. Before(seen[c], queue[Current(c)])'
    BY <2>1, <2>3 DEF Before
  <2>5. Ordered(seen[c])'
    BY <1>0, <1>7, <2>1 DEF Ordered, NotLater
  <2> QED
    BY <2>1, <2>4, <2>5
<1>4. CASE SendLive(c)
  <2> DEFINE ch == Current(c)
             q == queue[ch]
  <2>1. ch \in Chans /\ Current(c)' = ch /\ state[c] = "live" /\ state'[c] = "live"
    BY <1>4, CurrentOpen DEF SendLive, Current
  <2>2. q \in Seq(Event) /\ q # <<>> /\ Ordered(q) /\ Before(seen[c], q)
    BY <1>4, <2>1 DEF SendLive, ChanTypeOK, OrderInv, QueueOrdered, SeenFirst
  <2>3. seen'[c] = Append(seen[c], Head(q)) /\ queue'[ch] = Tail(q)
    BY <1>4, <2>1 DEF SendLive, Receive, ChanTypeOK
  <2>4. Ordered(Append(seen[c], Head(q))) /\ Before(Append(seen[c], Head(q)), Tail(q))
    BY <1>0, <2>2, MoveHead
  <2>5. Head(q) \in Event /\ \E j \in DOMAIN q : Head(q) = q[j]
    BY <2>2, HeadTailFacts
  <2>6. \A i \in DOMAIN seen'[c] :
          seen'[c][i] = Head(q) \/ \E j \in DOMAIN seen[c] : seen'[c][i] = seen[c][j]
    <3> HIDE DEF q
    <3> QED
      BY <1>0, <2>3, <2>5, AppendFacts
  <2>7. Ordered(seen[c])'
    BY <1>7, <2>3, <2>4 DEF Ordered, NotLater
  <2>8. Before(seen[c], queue[Current(c)])'
    BY <1>7, <2>1, <2>3, <2>4 DEF Before, NotLater
  <2> QED
    BY <2>1, <2>5, <2>6, <2>7, <2>8
<1>5. CASE Disconnect(c)
  <2>1. seen'[c] = <<>> /\ state'[c] = "off"
    BY <1>5 DEF Disconnect
  <2> QED
    BY <2>1 DEF Ordered
<1>6. CASE /\ conn'[c] = conn[c] /\ state'[c] = state[c]
           /\ backlog'[c] = backlog[c] /\ seen'[c] = seen[c]
           /\ ~ClientStep(c)
  <2>1. ASSUME state'[c] = "live"
        PROVE  Before(seen[c], queue[Current(c)])'
    <3> DEFINE ch == Current(c)
    <3>1. ch \in Chans /\ Current(c)' = ch
      BY <1>6, <2>1, CurrentOpen DEF Current
    <3>2. queue[ch] \in Seq(Event) /\ Before(seen[c], queue[ch])
      BY <1>6, <2>1, <3>1 DEF ChanTypeOK, OrderInv, SeenFirst
    <3>3. Before(seen[c], queue'[ch])
      <4>1. CASE queue'[ch] = queue[ch]
        BY <3>2, <4>1
      <4>2. ASSUME NEW w \in Writers, PublishSend(w, ch), queue'[ch] = Append(queue[ch], event[w])
            PROVE  Before(seen[c], queue'[ch])
        <5>1. event[w] \in Event /\ pc[w] # "idle"
          BY <4>2 DEF PublishSend, HandOK
        <5>2. \A i \in DOMAIN seen[c] : NotLater(seen[c][i], event[w])
          BY <5>1 DEF OrderInv, SeenOld, Old
        <5> QED
          BY <1>0, <3>2, <4>2, <5>1, <5>2, AppendBefore
      <4>3. ~\E d \in Clients : SendLive(d) /\ ch = Current(d)
        BY <1>6 DEF Current, ClientStep
      <4>4. CASE queue'[ch] = <<>>
        BY <4>4 DEF Before
      <4> QED
        BY <3>1, <4>1, <4>2, <4>3, <4>4, QueueFrame
    <3> QED
      BY <1>6, <1>7, <3>1, <3>3 DEF Before, NotLater
  <2>2. Ordered(seen[c])'
    BY <1>0, <1>6, <1>7 DEF Ordered, NotLater
  <2> QED
    BY <1>6, <2>1, <2>2 DEF OrderInv, SeenFirst
<1> QED
  BY <1>1, <1>2, <1>3, <1>4, <1>5, <1>6, ClientFrame DEF ClientStep

LEMMA OrderStep ==
  ASSUME Shape, NumbersInv, DurableInv, OrderInv, [Next]_vars
  PROVE  OrderInv'
<1> USE DEF Shape, TypeOK
<1>1. ASSUME NEW e, e.seq \in Nat, Old(e)
      PROVE  Old(e)'
  BY <1>1, OldStays
<1>2. \A e \in run_events \union InHand : e.seq \in Nat /\ Old(e)
  BY HandOld DEF StoreTypeOK, Event, InHand, HandOK, OrderInv, RowsOld
<1>3. \A ch \in Chans : \A j \in DOMAIN queue[ch] :
        queue[ch][j].seq \in Nat /\ Old(queue[ch][j])
  <2> SUFFICES ASSUME NEW ch \in Chans, NEW j \in DOMAIN queue[ch]
               PROVE  queue[ch][j].seq \in Nat /\ Old(queue[ch][j])
    OBVIOUS
  <2>1. queue[ch][j] \in Event
    BY DEF ChanTypeOK
  <2> QED
    BY <2>1 DEF Event, OrderInv, QueueOld
<1>4. RowsOld'
  <2> SUFFICES ASSUME NEW e \in run_events' PROVE Old(e)'
    BY DEF RowsOld
  <2> QED
    BY <1>1, <1>2, RowsFromHand
<1>5. ASSUME NEW ch \in Chans
      PROVE  \/ queue'[ch] = <<>> \/ queue'[ch] = queue[ch]
             \/ queue[ch] # <<>> /\ queue'[ch] = Tail(queue[ch])
             \/ \E w \in Writers : pc[w] # "idle" /\ queue'[ch] = Append(queue[ch], event[w])
  BY QueueFrame DEF PublishSend, SendLive
<1>6. QueueOld' /\ QueueOrdered'
  <2> SUFFICES ASSUME NEW ch \in Chans
               PROVE  /\ \A i \in DOMAIN queue'[ch] : Old(queue[ch][i])'
                      /\ Ordered(queue[ch])'
    BY DEF QueueOld, QueueOrdered
  <2>1. queue[ch] \in Seq(Event) /\ Ordered(queue[ch])
    BY DEF ChanTypeOK, OrderInv, QueueOrdered
  <2>2. ASSUME NEW w \in Writers, pc[w] # "idle"
        PROVE  /\ event[w] \in Event /\ event[w] \in InHand
               /\ \A i \in DOMAIN queue[ch] : NotLater(queue[ch][i], event[w])
    BY <1>3, <2>2 DEF HandOK, InHand, Old
  <2>3. Ordered(queue'[ch])
    <3>1. CASE queue'[ch] = <<>>
      BY <3>1 DEF Ordered
    <3>2. CASE queue[ch] # <<>> /\ queue'[ch] = Tail(queue[ch])
      BY <2>1, <3>2, TailOrdered
    <3>3. ASSUME NEW w \in Writers, pc[w] # "idle", queue'[ch] = Append(queue[ch], event[w])
          PROVE  Ordered(queue'[ch])
      BY <2>1, <2>2, <3>3, AppendOrdered
    <3> QED
      BY <1>5, <2>1, <3>1, <3>2, <3>3
  <2>4. ASSUME NEW i \in DOMAIN queue'[ch]
        PROVE  Old(queue[ch][i])'
    <3>1. queue'[ch][i].seq \in Nat /\ Old(queue'[ch][i])
      <4>1. CASE queue'[ch] = <<>>
        BY <2>4, <4>1
      <4>2. CASE queue[ch] # <<>> /\ queue'[ch] = Tail(queue[ch])
        <5>1. \E j \in DOMAIN queue[ch] : queue'[ch][i] = queue[ch][j]
          BY <2>1, <2>4, <4>2, HeadTailFacts
        <5> QED BY <1>3, <5>1
      <4>3. ASSUME NEW w \in Writers, pc[w] # "idle", queue'[ch] = Append(queue[ch], event[w])
            PROVE  queue'[ch][i].seq \in Nat /\ Old(queue'[ch][i])
        <5>1. queue'[ch][i] = event[w] \/ \E j \in DOMAIN queue[ch] : queue'[ch][i] = queue[ch][j]
          BY <2>1, <2>2, <2>4, <4>3, AppendFacts
        <5> QED BY <1>2, <1>3, <2>2, <4>3, <5>1
      <4> QED
        BY <1>3, <1>5, <4>1, <4>2, <4>3
    <3>2. PICK e : e = queue'[ch][i]
      OBVIOUS
    <3>3. Old(e)'
      BY <1>1, <3>1, <3>2
    <3> QED
      BY <3>2, <3>3 DEF Old, NotLater
  <2> QED
    BY <2>3, <2>4, LateGrows DEF Ordered, NotLater
<1>7. SeenOld'
  <2> SUFFICES ASSUME NEW c \in Clients, NEW i \in DOMAIN seen'[c]
               PROVE  Old(seen[c][i])'
    BY DEF SeenOld
  <2>1. \/ \E j \in DOMAIN seen[c] : seen'[c][i] = seen[c][j]
        \/ seen'[c][i] \in run_events
        \/ \E ch \in Chans : \E j \in DOMAIN queue[ch] : seen'[c][i] = queue[ch][j]
    BY ScreenStep
  <2>2. \A j \in DOMAIN seen[c] : seen[c][j].seq \in Nat /\ Old(seen[c][j])
    <3>1. \A j \in DOMAIN seen[c] : seen[c][j] \in Event
      BY DEF ClientTypeOK
    <3> QED
      BY <3>1 DEF Event, OrderInv, SeenOld
  <2>3. seen'[c][i].seq \in Nat /\ Old(seen'[c][i])
    BY <1>2, <1>3, <2>1, <2>2
  <2>4. PICK e : e = seen'[c][i]
    OBVIOUS
  <2>5. Old(e)'
    BY <1>1, <2>3, <2>4
  <2> QED
    BY <2>4, <2>5 DEF Old, NotLater
<1>8. SeenOrdered' /\ SeenFirst'
  BY ScreenStep DEF SeenOrdered, SeenFirst
<1>9. Unmade' /\ WaitInv'
  BY UnmadeStep, WaitStep DEF OrderInv
<1> QED
  BY <1>4, <1>6, <1>7, <1>8, <1>9 DEF OrderInv

(* Whatever the other emitters do, wherever the seam between the stored    *)
(* and the live events falls, and however many handlers an emitter left    *)
(* behind after a timeout, one connection never shows an event before an   *)
(* earlier one of the same emitter when neither of them was given up.      *)
THEOREM WritersInOrder == Spec => []WriterOrder
<1>1. Init => Shape /\ NumbersInv /\ DurableInv /\ OrderInv
  BY ShapeInit DEF Init, NumbersInv, UniqueNumbers, CounterAhead, InUse, InHand,
     DurableInv, HandSettled, BacklogSettled, QueueSettled, SeenSettled,
     OrderInv, RowsOld, QueueOld, SeenOld, QueueOrdered, SeenOrdered, Ordered,
     SeenFirst, Unmade, WaitInv, OneWaited, GivenUpLate
<1>2. Shape /\ NumbersInv /\ DurableInv /\ OrderInv /\ [Next]_vars
        => (Shape /\ NumbersInv /\ DurableInv /\ OrderInv)'
  BY ShapeStep, NumbersStep, DurableStep, OrderStep
<1>3. OrderInv => WriterOrder
  BY DEF OrderInv, SeenOrdered, Ordered, NotLater, WriterOrder
<1> QED
  BY <1>1, <1>2, <1>3, PTL DEF Spec

-----------------------------------------------------------------------------
(* The handlers implement the event log.                                   *)

LEMMA LogInit == Init => Log!Init
BY DEF Init, Log!Init, Held, Numbers

(* A number other than 0 is held by one writer: an event names its writer. *)
LEMMA OneHolder ==
  ASSUME Shape, UniqueNumbers,
         NEW v \in Writers, NEW w \in Writers,
         pc[v] = "numbered", pc[w] = "numbered",
         event[v].seq = event[w].seq, event[w].seq # 0
  PROVE  v = w
<1>1. event[v] \in InHand /\ event[w] \in InHand
  BY DEF InHand
<1>2. event[v] = event[w]
  BY <1>1 DEF UniqueNumbers
<1> QED
  BY <1>2 DEF Shape, HandOK

LEMMA LogStep ==
  ASSUME Shape, NumbersInv, [Next]_vars
  PROVE  [Log!Next]_<<last_seq, Held, Numbers>>
<1> USE DEF vars, storeVars, writerVars, Shape, TypeOK, WriterTypeOK
<1> DEFINE log == <<last_seq, Held, Numbers>>
<1>1. ASSUME NEW w \in Writers, TakeNumber(w)
      PROVE  Log!Issue
  <2>0. PICK new : new = [event[w] EXCEPT !.seq = NextSeq]
    OBVIOUS
  <2>1. last_seq' = last_seq + 1 /\ UNCHANGED Numbers
    BY <1>1 DEF TakeNumber, NextSeq, Numbers
  <2>2. /\ event' = [event EXCEPT ![w] = new] /\ pc[w] = "called"
        /\ pc' = [pc EXCEPT ![w] = AfterNumber(new.kind)]
        /\ new.seq = last_seq + 1 /\ new.seq # 0
    BY <1>1, <2>0, NumberedFacts DEF TakeNumber
  <2>4. CASE pc'[w] = "numbered"
    <3>1. Held' = Held \union {last_seq + 1}
      BY <2>2, <2>4 DEF Held
    <3> QED
      BY <2>1, <3>1 DEF Log!Issue
  <2>5. CASE pc'[w] # "numbered"
    <3>1. Held' = Held
      BY <2>2, <2>5 DEF Held
    <3> QED
      BY <2>1, <3>1 DEF Log!Issue
  <2> QED
    BY <2>4, <2>5
<1>2. ASSUME NEW w \in Writers, Emit(w)
      PROVE  UNCHANGED log
  <2>1. \A v \in Writers : /\ pc'[v] = "numbered" <=> pc[v] = "numbered"
                           /\ pc[v] = "numbered" => event'[v] = event[v]
    BY <1>2 DEF Emit, Call, GiveUp
  <2> QED
    BY <1>2, <2>1 DEF Emit, Call, GiveUp, Held, Numbers
<1>13. ASSUME NEW w \in Writers, TakeNumberFails(w)
      PROVE  UNCHANGED log
  <2>1. /\ event[w].seq = 0 /\ pc[w] # "numbered"
        /\ pc'[w] = "numbered" => event'[w].seq = 0
        /\ \A v \in Writers : v # w => pc'[v] = pc[v] /\ event'[v] = event[v]
    BY <1>13 DEF TakeNumberFails, Goto, Unnumbered
  <2>2. Held' = Held
    BY <2>1 DEF Held
  <2> QED
    BY <1>13, <2>2 DEF TakeNumberFails, Numbers
<1>3. ASSUME NEW w \in Writers, AppendEvent(w) \/ AppendEventFails(w)
      PROVE  Held' = Held \ {event[w].seq}
  <2>1. /\ pc[w] = "numbered" /\ pc'[w] # "numbered"
        /\ \A v \in Writers : v # w => pc'[v] = pc[v] /\ event'[v] = event[v]
    BY <1>3 DEF AppendEvent, AppendEventFails, Goto, AfterStore
  <2>2. ASSUME NEW v \in Writers, pc[v] = "numbered", v # w, event[v].seq # 0
        PROVE  event[v].seq # event[w].seq
    BY <2>1, <2>2, OneHolder DEF NumbersInv
  <2> QED
    BY <2>1, <2>2 DEF Held
<1>4. ASSUME NEW w \in Writers, AppendEvent(w)
      PROVE  Log!Store
  <2>1. event[w].seq \in (Held \union {0}) \ Numbers
    BY <1>4 DEF AppendEvent, NumberTaken, Held, Numbers
  <2>2. Numbers' = Numbers \union {event[w].seq} /\ UNCHANGED last_seq
    BY <1>4 DEF AppendEvent, Numbers
  <2> QED
    BY <1>3, <1>4, <2>1, <2>2 DEF Log!Store
<1>5. ASSUME NEW w \in Writers, AppendEventFails(w)
      PROVE  Log!GiveUp \/ UNCHANGED log
  <2>1. UNCHANGED <<last_seq, Numbers>>
    BY <1>5 DEF AppendEventFails, Numbers
  <2>2. CASE event[w].seq \in Held
    BY <1>3, <1>5, <2>1, <2>2 DEF Log!GiveUp
  <2>3. CASE event[w].seq \notin Held
    BY <1>3, <1>5, <2>1, <2>3
  <2> QED
    BY <2>2, <2>3
<1>6. ASSUME NEW w \in Writers, PublishSnapshot(w) \/ PublishReturns(w)
      PROVE  UNCHANGED log
  <2>1. \A v \in Writers : /\ pc'[v] = "numbered" <=> pc[v] = "numbered"
                           /\ pc[v] = "numbered" => event'[v] = event[v]
    BY <1>6 DEF PublishSnapshot, PublishReturns, Goto
  <2> QED
    BY <1>6, <2>1 DEF PublishSnapshot, PublishReturns, Held, Numbers
<1>7. ASSUME NEW w \in Writers, NEW ch \in Chans, PublishSend(w, ch) \/ PublishPanics(w, ch)
      PROVE  UNCHANGED log
  <2>1. \A v \in Writers : /\ pc'[v] = "numbered" <=> pc[v] = "numbered"
                           /\ pc[v] = "numbered" => event'[v] = event[v]
    BY <1>7 DEF PublishSend, PublishPanics, Goto
  <2> QED
    BY <1>7, <2>1 DEF PublishSend, PublishPanics, Held, Numbers
<1>8. ASSUME UNCHANGED storeVars, UNCHANGED <<pc, event>>
      PROVE  UNCHANGED log
  BY <1>8 DEF Held, Numbers
<1>9. ASSUME NEW c \in Clients, ClientStep(c)
      PROVE  UNCHANGED storeVars /\ UNCHANGED <<pc, event>>
  BY <1>9 DEF ClientStep, Connect, SendStored, Subscribe, SendLive, Disconnect
<1>10. ASSUME NEW ch \in Chans, Unsubscribe(ch) \/ CloseChan(ch)
       PROVE  UNCHANGED storeVars /\ UNCHANGED <<pc, event>>
  BY <1>10 DEF Unsubscribe, CloseChan
<1>11. CASE UNCHANGED vars
  BY <1>8, <1>11
<1>12. ASSUME NEW w \in Writers, Emit(w) \/ WriterStep(w)
       PROVE  Log!Next \/ UNCHANGED log
  BY <1>1, <1>2, <1>4, <1>5, <1>6, <1>7, <1>12, <1>13 DEF WriterStep, Log!Next
<1> QED
  BY <1>8, <1>9, <1>10, <1>11, <1>12 DEF Next

(* Every behaviour of the handlers is one of the abstract log: numbers are *)
(* issued one after another, each belongs to one writer until its INSERT,  *)
(* and at most one row carries it.                                         *)
THEOREM HandlersImplementLog == Spec => ImplementsEventLog
<1>1. Init => Shape /\ NumbersInv
  BY ShapeInit DEF Init, NumbersInv, UniqueNumbers, CounterAhead, InUse, InHand
<1>2. Shape /\ NumbersInv /\ [Next]_vars => (Shape /\ NumbersInv)'
  BY ShapeStep, NumbersStep
<1>3. Init => Log!Init
  BY LogInit
<1>4. Shape /\ NumbersInv /\ [Next]_vars => [Log!Next]_<<last_seq, Held, Numbers>>
  BY LogStep
<1> QED
  BY <1>1, <1>2, <1>3, <1>4, PTL DEF Spec, ImplementsEventLog, Log!Spec
=============================================================================
