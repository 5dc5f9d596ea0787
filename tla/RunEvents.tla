----------------------------- MODULE RunEvents ------------------------------
(***************************************************************************)
(* The event stream of one run: the per-run counter and the run_events     *)
(* table of the Postgres store, the handlers and activities that write     *)
(* events, the in-process broker, and the SSE handler with its clients.    *)
(*                                                                         *)
(* An emitter emits one event at a time: a worker awaits each POST, an     *)
(* activity emits sequentially.  A writer is the code that runs one of its *)
(* calls.  The emitter stops waiting after requestTimeout and goes on, and *)
(* the handler it gave up runs on beside its next calls.  Writers          *)
(* interleave between any two of the calls a handler makes.                *)
(***************************************************************************)
EXTENDS Naturals, Sequences, FiniteSets

CONSTANTS Emitters,   \* the API, activities, tool workers
          MaxCalls,   \* bound: calls of one emitter under way, given-up ones included
          Kinds,      \* the kinds of event they emit, see KindsAssumption
          Clients,    \* browsers that hold an EventSource on the run
          BufferCap,  \* capacity of a subscriber's channel
          MaxEvents,  \* bound: events emitted
          MaxFaults,  \* bound: store calls that fail
          MaxConns    \* bound: connections a client opens

ASSUME BufferCapAssumption == BufferCap \in Nat \ {0}
ASSUME BoundsAssumption == MaxEvents \in Nat /\ MaxFaults \in Nat /\ MaxConns \in Nat

Writers == Emitters \X (1..MaxCalls)
Emitter(w) == w[1]

(* "durable": POST /events and the handlers of the API; "transient": POST  *)
(* /events with payload.transient; "local": appendLocalEvent, the fallback *)
(* of an activity whose POST failed.                                       *)
ASSUME KindsAssumption == Kinds \subseteq {"durable", "transient", "local"}

Event == [seq : Nat, by : Writers, kind : Kinds]
None == [seq |-> 0]   \* no event in hand

(* A connection of a client has a channel of its own, one per request. *)
Chans == Clients \X (1..MaxConns)

VARIABLES
  last_seq,    \* run_event_sequences.last_seq
  run_events,  \* the stored rows
  unsaved,     \* history: events whose INSERT failed
  faults,      \* store calls that failed so far
  pc,          \* per writer: "idle", "called", "numbered", "stored", "publishing"
  event,       \* per writer: the event in hand
  targets,     \* per writer: channels of the snapshot still to be sent to
  aborted,     \* history: events whose publisher died on a closed channel
  given_up,    \* writers whose emitter does not wait for them any more
  late,        \* history: events whose call its emitter gave up
  emitted,     \* history: calls made
  chan,        \* per channel: "none", "subscribed", "removed", "closed"
  queue,       \* per channel: its buffer
  overflowed,  \* history: channels that dropped an event
  conn,        \* per client: number of connections opened
  state,       \* per client: "off", "replay", "live"
  backlog,     \* per client: rows of ListEvents not sent yet
  cursor,      \* per client: its Last-Event-ID
  seen,        \* per client: what this connection delivered, in order
  since        \* history, per client: last_seq when it subscribed

storeVars  == <<last_seq, run_events, unsaved, faults>>
writerVars == <<pc, event, targets, aborted, given_up, late, emitted>>
chanVars   == <<chan, queue, overflowed>>
clientVars == <<conn, state, backlog, cursor, seen, since>>
vars == <<storeVars, writerVars, chanVars, clientVars>>


StoreTypeOK ==
  /\ last_seq \in Nat
  /\ run_events \subseteq Event
  /\ unsaved \subseteq Event
  /\ faults \in 0..MaxFaults

WriterTypeOK ==
  /\ pc \in [Writers -> {"idle", "called", "numbered", "stored", "publishing"}]
  /\ event \in [Writers -> Event \union {None}]
  /\ targets \in [Writers -> SUBSET Chans]
  /\ aborted \subseteq Event
  /\ given_up \subseteq Writers
  /\ late \subseteq Event
  /\ emitted \in 0..MaxEvents

ChanTypeOK ==
  /\ chan \in [Chans -> {"none", "subscribed", "removed", "closed"}]
  /\ queue \in [Chans -> Seq(Event)]
  /\ \A ch \in Chans : Len(queue[ch]) <= BufferCap
  /\ overflowed \subseteq Chans

ClientTypeOK ==
  /\ conn \in [Clients -> 0..MaxConns]
  /\ state \in [Clients -> {"off", "replay", "live"}]
  /\ backlog \in [Clients -> SUBSET Event]
  /\ cursor \in [Clients -> Nat]
  /\ seen \in [Clients -> Seq(Event)]
  /\ since \in [Clients -> Nat]

TypeOK == StoreTypeOK /\ WriterTypeOK /\ ChanTypeOK /\ ClientTypeOK

Init ==
  /\ last_seq = 0
  /\ run_events = {}
  /\ unsaved = {}
  /\ faults = 0
  /\ pc = [w \in Writers |-> "idle"]
  /\ event = [w \in Writers |-> None]
  /\ targets = [w \in Writers |-> {}]
  /\ aborted = {}
  /\ given_up = {}
  /\ late = {}
  /\ emitted = 0
  /\ chan = [ch \in Chans |-> "none"]
  /\ queue = [ch \in Chans |-> <<>>]
  /\ overflowed = {}
  /\ conn = [c \in Clients |-> 0]
  /\ state = [c \in Clients |-> "off"]
  /\ backlog = [c \in Clients |-> {}]
  /\ cursor = [c \in Clients |-> 0]
  /\ seen = [c \in Clients |-> <<>>]
  /\ since = [c \in Clients |-> 0]

-----------------------------------------------------------------------------
(* Writers.                                                                *)

(* An emitter makes its next call when it waits for none; the slots of its *)
(* calls are alike, so it takes the lowest that is free.                   *)
Waits(m) == \E w \in Writers : Emitter(w) = m /\ pc[w] # "idle" /\ w \notin given_up

Call(w, kind) ==
  /\ pc[w] = "idle"
  /\ ~Waits(Emitter(w))
  /\ \A v \in Writers : Emitter(v) = Emitter(w) /\ v[2] < w[2] => pc[v] # "idle"
  /\ emitted < MaxEvents
  /\ emitted' = emitted + 1
  /\ event' = [event EXCEPT ![w] = [seq |-> 0, by |-> w, kind |-> kind]]
  /\ pc' = [pc EXCEPT ![w] = "called"]
  /\ UNCHANGED <<storeVars, targets, aborted, given_up, late, chanVars, clientVars>>

(* The POST times out or its connection breaks: postEvent returns the      *)
(* error and the emitter goes on, with its own copy of the event or        *)
(* without; the handler is not told.  An activity's own store calls        *)
(* ("local") have no such timeout.                                         *)
GiveUp(w) ==
  /\ pc[w] # "idle"
  /\ event[w].kind # "local"
  /\ w \notin given_up
  /\ given_up' = given_up \union {w}
  /\ late' = late \union {event[w]}
  /\ UNCHANGED <<storeVars, pc, event, targets, aborted, emitted, chanVars, clientVars>>

(* The call writer w makes next is `next`; a call that returns to "idle"   *)
(* drops the event in hand.                                                *)
Goto(w, next) ==
  /\ pc' = [pc EXCEPT ![w] = next]
  /\ event' = [event EXCEPT ![w] = IF next = "idle" THEN None ELSE @]
  /\ given_up' = IF next = "idle" THEN given_up \ {w} ELSE given_up

(* A store call fails when the database does, or because net/http has      *)
(* cancelled the context of a request whose client is gone.                *)
CallFails(w) ==
  \/ faults < MaxFaults /\ faults' = faults + 1
  \/ w \in given_up /\ UNCHANGED faults

(* Mutant: the conflict clause returns the row without incrementing it. *)
NextSeqStale == IF last_seq = 0 THEN 1 ELSE last_seq

(* NextSeq: INSERT .. ON CONFLICT DO UPDATE SET last_seq + 1 RETURNING. *)
NextSeq == last_seq + 1

(* Mutant: publish every event without the INSERT. *)
AfterNumberSkipInsert(kind) == "stored"

(* A transient event keeps its number but skips the INSERT. *)
AfterNumber(kind) == IF kind = "transient" THEN "stored" ELSE "numbered"

TakeNumber(w) ==
  LET new == [event[w] EXCEPT !.seq = NextSeq] IN
  /\ pc[w] = "called"
  /\ last_seq' = NextSeq
  /\ event' = [event EXCEPT ![w] = new]
  /\ pc' = [pc EXCEPT ![w] = AfterNumber(new.kind)]
  /\ late' = IF w \in given_up THEN late \union {new} ELSE late
  /\ UNCHANGED <<run_events, unsaved, faults, targets, aborted, given_up, emitted,
                 chanVars, clientVars>>

(* The handlers drop NextSeq's error and go on with number 0; only         *)
(* appendLocalEvent returns it.                                            *)
TakeNumberFails(w) ==
  /\ pc[w] = "called"
  /\ CallFails(w)
  /\ Goto(w, IF event[w].kind = "local" THEN "idle" ELSE AfterNumber(event[w].kind))
  /\ UNCHANGED <<last_seq, run_events, unsaved, targets, aborted, late, emitted,
                 chanVars, clientVars>>

(* The broker lives in the control plane: the worker's fallback stores     *)
(* without publishing.                                                     *)
AfterStore(w) == IF event[w].kind = "local" THEN "idle" ELSE "stored"

(* run_events_run_seq_idx: one row per number. *)
NumberTaken(n) == \E e \in run_events : e.seq = n

AppendEvent(w) ==
  /\ pc[w] = "numbered"
  /\ ~NumberTaken(event[w].seq)
  /\ run_events' = run_events \union {event[w]}
  /\ Goto(w, AfterStore(w))
  /\ UNCHANGED <<last_seq, unsaved, faults, targets, aborted, late, emitted,
                 chanVars, clientVars>>

(* The handlers drop AppendEvent's error as well and publish anyway. *)
AppendEventFails(w) ==
  /\ pc[w] = "numbered"
  /\ \/ NumberTaken(event[w].seq) /\ UNCHANGED faults
     \/ CallFails(w)
  /\ unsaved' = unsaved \union {event[w]}
  /\ Goto(w, AfterStore(w))
  /\ UNCHANGED <<last_seq, run_events, targets, aborted, late, emitted,
                 chanVars, clientVars>>

(* Publish copies the subscriber set under the read lock ... *)
PublishSnapshot(w) ==
  /\ pc[w] = "stored"
  /\ targets' = [targets EXCEPT ![w] = {ch \in Chans : chan[ch] = "subscribed"}]
  /\ Goto(w, "publishing")
  /\ UNCHANGED <<storeVars, aborted, late, emitted, chanVars, clientVars>>

(* Mutant: the channel takes one event more than its capacity. *)
HasRoomOffByOne(ch) == Len(queue[ch]) <= BufferCap

HasRoom(ch) == Len(queue[ch]) < BufferCap

Unsent(w, ch) == targets[w] \ {ch}

(* Mutant: the send has no default case and waits for room. *)
PublishSendBlocks(w, ch) ==
  /\ pc[w] = "publishing" /\ ch \in targets[w]
  /\ chan[ch] # "closed" /\ HasRoom(ch)
  /\ queue' = [queue EXCEPT ![ch] = Append(@, event[w])]
  /\ targets' = [targets EXCEPT ![w] = Unsent(w, ch)]
  /\ UNCHANGED <<storeVars, pc, event, aborted, given_up, late, emitted,
                 chan, overflowed, clientVars>>

(* ... and sends to each channel of the copy without it: a full channel    *)
(* drops the event.                                                        *)
PublishSend(w, ch) ==
  /\ pc[w] = "publishing"
  /\ ch \in targets[w]
  /\ chan[ch] # "closed"
  /\ \/ /\ HasRoom(ch)
        /\ queue' = [queue EXCEPT ![ch] = Append(@, event[w])]
        /\ UNCHANGED overflowed
     \/ /\ ~HasRoom(ch)
        /\ overflowed' = overflowed \union {ch}
        /\ UNCHANGED queue
  /\ targets' = [targets EXCEPT ![w] = Unsent(w, ch)]
  /\ UNCHANGED <<storeVars, pc, event, aborted, given_up, late, emitted,
                 chan, clientVars>>

(* A send on a channel closed since the copy panics; net/http recovers     *)
(* the handler's goroutine, and the rest of the loop is lost.              *)
PublishPanics(w, ch) ==
  /\ pc[w] = "publishing"
  /\ ch \in targets[w]
  /\ chan[ch] = "closed"
  /\ aborted' = aborted \union {event[w]}
  /\ targets' = [targets EXCEPT ![w] = {}]
  /\ Goto(w, "idle")
  /\ UNCHANGED <<storeVars, late, emitted, chanVars, clientVars>>

PublishReturns(w) ==
  /\ pc[w] = "publishing"
  /\ targets[w] = {}
  /\ Goto(w, "idle")
  /\ UNCHANGED <<storeVars, targets, aborted, late, emitted, chanVars, clientVars>>

-----------------------------------------------------------------------------
(* The SSE handler and its client.                                         *)

Current(c) == <<c, conn[c]>>

(* sendSSE, and the browser's bookkeeping of the id it carries. *)
Receive(c, e) ==
  /\ seen' = [seen EXCEPT ![c] = Append(@, e)]
  /\ cursor' = [cursor EXCEPT ![c] = e.seq]

(* SELECT .. WHERE seq > after. *)
ListEvents(after) == {e \in run_events : e.seq > after}

(* streamEvents up to ListEvents; the cursor is the Last-Event-ID header. *)
Connect(c) ==
  /\ state[c] = "off"
  /\ conn[c] < MaxConns
  /\ conn' = [conn EXCEPT ![c] = @ + 1]
  /\ state' = [state EXCEPT ![c] = "replay"]
  /\ backlog' = [backlog EXCEPT ![c] = ListEvents(cursor[c])]
  /\ UNCHANGED <<storeVars, writerVars, chanVars, cursor, seen, since>>

(* Mutant: the query has no ORDER BY. *)
NextRowUnordered(c, e) == e \in backlog[c]

(* ORDER BY seq: the rows go out in increasing order. *)
NextRow(c, e) == e \in backlog[c] /\ \A f \in backlog[c] : e.seq <= f.seq

SendStored(c) ==
  /\ state[c] = "replay"
  /\ \E e \in backlog[c] :
       /\ NextRow(c, e)
       /\ Receive(c, e)
       /\ backlog' = [backlog EXCEPT ![c] = @ \ {e}]
  /\ UNCHANGED <<storeVars, writerVars, chanVars, conn, state, since>>

Subscribe(c) ==
  /\ state[c] = "replay"
  /\ backlog[c] = {}
  /\ chan' = [chan EXCEPT ![Current(c)] = "subscribed"]
  /\ state' = [state EXCEPT ![c] = "live"]
  /\ since' = [since EXCEPT ![c] = last_seq]
  /\ UNCHANGED <<storeVars, writerVars, queue, overflowed,
                 conn, backlog, cursor, seen>>

SendLive(c) ==
  /\ state[c] = "live"
  /\ queue[Current(c)] # <<>>
  /\ Receive(c, Head(queue[Current(c)]))
  /\ queue' = [queue EXCEPT ![Current(c)] = Tail(@)]
  /\ UNCHANGED <<storeVars, writerVars, chan, overflowed,
                 conn, state, backlog, since>>

(* The request's context is done: the handler returns; the browser keeps   *)
(* its cursor.  What the buffer still holds is lost.                       *)
Disconnect(c) ==
  /\ state[c] # "off"
  /\ state' = [state EXCEPT ![c] = "off"]
  /\ backlog' = [backlog EXCEPT ![c] = {}]
  /\ seen' = [seen EXCEPT ![c] = <<>>]
  /\ since' = [since EXCEPT ![c] = 0]
  /\ UNCHANGED <<storeVars, writerVars, chanVars, conn, cursor>>

ContextDone(ch) == state[ch[1]] = "off" \/ conn[ch[1]] > ch[2]

(* Mutant: the run's whole subscriber set is deleted. *)
WithoutRun(ch) == [d \in Chans |-> IF d = ch THEN "removed"
                                   ELSE IF chan[d] = "subscribed" THEN "none" ELSE chan[d]]

Without(ch) == [chan EXCEPT ![ch] = "removed"]

(* The goroutine Subscribe starts: it removes the channel under the lock   *)
(* and closes it after the lock is released.                               *)
Unsubscribe(ch) ==
  /\ chan[ch] = "subscribed"
  /\ ContextDone(ch)
  /\ chan' = Without(ch)
  /\ UNCHANGED <<storeVars, writerVars, queue, overflowed, clientVars>>

CloseChan(ch) ==
  /\ chan[ch] = "removed"
  /\ chan' = [chan EXCEPT ![ch] = "closed"]
  /\ queue' = [queue EXCEPT ![ch] = <<>>]   \* nobody reads it any more
  /\ UNCHANGED <<storeVars, writerVars, overflowed, clientVars>>

-----------------------------------------------------------------------------
WriterStep(w) ==
  \/ TakeNumber(w)
  \/ TakeNumberFails(w)
  \/ AppendEvent(w)
  \/ AppendEventFails(w)
  \/ PublishSnapshot(w)
  \/ \E ch \in Chans : PublishSend(w, ch) \/ PublishPanics(w, ch)
  \/ PublishReturns(w)

Emit(w) == GiveUp(w) \/ \E kind \in Kinds : Call(w, kind)

ClientStep(c) ==
  Connect(c) \/ SendStored(c) \/ Subscribe(c) \/ SendLive(c) \/ Disconnect(c)

Next ==
  \/ \E w \in Writers : Emit(w) \/ WriterStep(w)
  \/ \E c \in Clients : ClientStep(c)
  \/ \E ch \in Chans : Unsubscribe(ch) \/ CloseChan(ch)

Spec == Init /\ [][Next]_vars

(* A handler that started runs to its end; nothing makes a client read. *)
WriterFairness == \A w \in Writers : WF_vars(WriterStep(w))

FairSpec == Spec /\ WriterFairness

-----------------------------------------------------------------------------
(* Properties.                                                             *)

InHand == {event[w] : w \in {v \in Writers : pc[v] # "idle"}}
Queued == UNION {{queue[ch][i] : i \in DOMAIN queue[ch]} : ch \in Chans}
Shown(c) == {seen[c][i] : i \in DOMAIN seen[c]}

(* NextSeq and the INSERT of one handler interleave with those of others,  *)
(* yet no two events of the run ever carry the same number: not the stored *)
(* ones, not those in flight, not those whose INSERT failed.               *)
UniqueNumbers ==
  \A e, f \in run_events \union unsaved \union InHand :
    e.seq # 0 /\ e.seq = f.seq => e = f

(* Persist first, publish second: whatever is in a subscriber's buffer or  *)
(* on a client's screen is in the table already, unless it is transient or *)
(* the INSERT failed.                                                      *)
DurableBeforeVisible ==
  \A e \in Queued \union UNION {Shown(c) : c \in Clients} :
    e.kind # "transient" => e \in run_events \union unsaved

(* One connection shows the events of one emitter in the order it emitted  *)
(* them, across the seam between the replayed rows and the live ones and   *)
(* whatever the other emitters do.  An event whose POST the emitter gave   *)
(* up is the exception: its handler may number, store or publish it after  *)
(* later events of the emitter, or show it before one that is under way.   *)
WriterOrder ==
  \A c \in Clients : \A i, j \in DOMAIN seen[c] :
    /\ i < j
    /\ Emitter(seen[c][i].by) = Emitter(seen[c][j].by)
    /\ seen[c][j].seq # 0
    /\ {seen[c][i], seen[c][j]} \intersect late = {}
    => seen[c][i].seq <= seen[c][j].seq

(* A client that stays connected and keeps up gets every published event   *)
(* numbered since it subscribed, however many other clients come and go    *)
(* and whether or not its emitter still waits for the handler.             *)
(* Three things void it: its own buffer overflowed, the publisher died on  *)
(* another client's closed channel, or the event was stored by a worker's  *)
(* fallback, which publishes nothing.                                      *)
EstablishedStreamComplete ==
  \A c \in Clients :
    state[c] = "live" /\ Current(c) \notin overflowed =>
      \A e \in run_events :
        (e.seq > since[c] /\ e.kind = "durable" /\ e \notin aborted \union InHand)
          => \/ e \in Shown(c)
             \/ \E i \in DOMAIN queue[Current(c)] : queue[Current(c)][i] = e

(* Publish never waits for a subscriber: an emitter gets its answer even   *)
(* if no client ever reads its channel.                                    *)
EmittersReturn == \A w \in Writers : pc[w] # "idle" ~> pc[w] = "idle"

(* The handlers implement the abstract event log: a number that was issued *)
(* belongs to the one writer that has not made its INSERT yet.             *)
Held == {event[w].seq : w \in {v \in Writers : pc[v] = "numbered"}} \ {0}
Numbers == {e.seq : e \in run_events}
Log == INSTANCE EventLog WITH issued <- last_seq, held <- Held, numbers <- Numbers
ImplementsEventLog == Log!Spec

-----------------------------------------------------------------------------
(* What the documentation says of the stream and the code does not do.     *)

(* docs/workflows.md:307 "Client receives events from last acknowledged    *)
(* sequence": once everything is quiet, a connected client whose buffer    *)
(* never overflowed has been shown every row above the cursor it came      *)
(* with; on a first connection that is every row.                          *)
ReplayIsComplete ==
  \A c \in Clients :
    /\ state[c] = "live" /\ conn[c] = 1
    /\ Current(c) \notin overflowed /\ queue[Current(c)] = <<>>
    /\ InHand = {} /\ aborted = {}
    => {e \in run_events : e.kind = "durable"} \subseteq Shown(c)
=============================================================================
