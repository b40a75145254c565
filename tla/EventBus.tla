------------------------------- MODULE EventBus -------------------------------
(***************************************************************************)
(* The event bus (pkg/events/events.go): emitters put events in a bounded  *)
(* channel and never wait, one goroutine takes them out and starts a       *)
(* goroutine for each handler, and Close shuts the bus down.               *)
(*                                                                         *)
(* The handlers of different event types have nothing to do with one       *)
(* another, so the events here are all of one type.  A select statement    *)
(* takes any of the cases that are ready, and default only if none is.     *)
(***************************************************************************)
EXTENDS Naturals, Sequences

CONSTANTS
  Handlers,     \* handlers that may be subscribed, each once
  Capacity,     \* buffer size of the channel
  MaxEmits,     \* bound: number of calls of Emit
  Closes        \* whether the bus is shut down

\* Every caller in the repository asks for a buffer.
ASSUME BusBounds == Capacity \in Nat \ {0} /\ MaxEmits \in Nat /\ Closes \in BOOLEAN

VARIABLES
  eventChan,   \* the events in the channel
  closed,      \* eventChan is closed
  cancelled,   \* bus.ctx is done
  closer,      \* where the call of Close is
  loop,        \* where processEvents is
  event,       \* the event it has taken out, 0 if none
  subscribed,  \* handlers of the type
  started,     \* handler goroutines that have not called their handler yet
  emits,       \* number of calls of Emit: the last event's number
  panicked,    \* a goroutine has panicked outside of a handler
  owed,        \* history: calls due to events sent before ctx was done
  called       \* history: calls made, as pairs <<event, handler>>

channel == <<eventChan, closed>>
processor == <<loop, event>>
handling == <<subscribed, started, called>>
emitting == <<emits, panicked, owed>>
closing == <<cancelled, closer>>
busVars == <<channel, processor, handling, emitting, closing>>

Events == 1 .. MaxEmits
Calls == Events \X Handlers

Init ==
  /\ eventChan = <<>> /\ closed = FALSE
  /\ loop = "select" /\ event = 0
  /\ subscribed = {} /\ started = {} /\ called = {}
  /\ emits = 0 /\ panicked = FALSE /\ owed = {}
  /\ cancelled = FALSE /\ closer = "idle"

(***************************************************************************)
(* Subscribe, the function it returns, and Emit.                           *)
(***************************************************************************)
Subscribe(h) ==
  /\ h \notin subscribed
  /\ subscribed' = subscribed \cup {h}
  /\ UNCHANGED <<channel, processor, started, called, emitting, closing>>

\* The function compares the address of its loop variable with the address of
\* a parameter of Subscribe; they are never equal and nothing is removed.
Unsubscribe(h) ==
  /\ h \in subscribed
  /\ UNCHANGED busVars

\* (mutant) one event too many
RoomOneMore == Len(eventChan) <= Capacity

Room == Len(eventChan) < Capacity

\* case bus.eventChan <- event
Send ==
  /\ Room /\ ~closed
  /\ eventChan' = Append(eventChan, emits + 1)
  /\ owed' = IF cancelled THEN owed ELSE owed \cup ({emits + 1} \X subscribed)
  /\ UNCHANGED panicked

\* A send on a closed channel is ready, and panics.
SendOnClosed ==
  /\ closed
  /\ panicked' = TRUE
  /\ UNCHANGED <<eventChan, owed>>

\* case <-bus.ctx.Done(), or default: the event is dropped.
NotSent ==
  /\ cancelled \/ (~Room /\ ~closed)
  /\ UNCHANGED <<eventChan, owed, panicked>>

Emit ==
  /\ emits < MaxEmits
  /\ emits' = emits + 1
  /\ Send \/ SendOnClosed \/ NotSent
  /\ UNCHANGED <<closed, processor, handling, closing>>

(***************************************************************************)
(* processEvents and the goroutines it starts.                             *)
(***************************************************************************)
Looping == loop \in {"select", "drain"} /\ event = 0

\* (mutant) the event stays in the channel
ReceiveKeep ==
  /\ Looping /\ eventChan # <<>>
  /\ event' = Head(eventChan)
  /\ UNCHANGED <<channel, loop, handling, emitting, closing>>

\* case event := <-bus.eventChan, of either select
Receive ==
  /\ Looping /\ eventChan # <<>>
  /\ event' = Head(eventChan)
  /\ eventChan' = Tail(eventChan)
  /\ UNCHANGED <<closed, loop, handling, emitting, closing>>

\* An empty and closed channel is ready too: it gives an event of no type,
\* which has no handlers, for ever.
ReceiveNothing ==
  /\ Looping /\ closed /\ eventChan = <<>>
  /\ UNCHANGED busVars

\* handleEvent copies the handlers under the lock that Subscribe takes.
HandleEvent ==
  /\ event # 0
  /\ started' = started \cup ({event} \X subscribed)
  /\ event' = 0
  /\ UNCHANGED <<channel, loop, subscribed, called, emitting, closing>>

CallHandler(c) ==
  /\ c \in started
  /\ started' = started \ {c}
  /\ called' = called \cup {c}
  /\ UNCHANGED <<channel, processor, subscribed, emitting, closing>>

\* (mutant) return without processing the remaining events
NoticeDoneReturn ==
  /\ Looping /\ loop = "select" /\ cancelled
  /\ loop' = "returned"
  /\ UNCHANGED <<channel, event, handling, emitting, closing>>

\* case <-bus.ctx.Done()
NoticeDone ==
  /\ Looping /\ loop = "select" /\ cancelled
  /\ loop' = "drain"
  /\ UNCHANGED <<channel, event, handling, emitting, closing>>

\* default of the inner select
Drained ==
  /\ Looping /\ loop = "drain" /\ eventChan = <<>> /\ ~closed
  /\ loop' = "returned"
  /\ UNCHANGED <<channel, event, handling, emitting, closing>>

(***************************************************************************)
(* Close: cancel, close the channel, wait for processEvents.               *)
(***************************************************************************)
Cancel ==
  /\ Closes /\ closer = "idle"
  /\ closer' = "cancelled" /\ cancelled' = TRUE
  /\ UNCHANGED <<channel, processor, handling, emitting>>

CloseChannel ==
  /\ closer = "cancelled"
  /\ closer' = "waiting" /\ closed' = TRUE
  /\ UNCHANGED <<eventChan, cancelled, processor, handling, emitting>>

CloseReturn ==
  /\ closer = "waiting" /\ loop = "returned"
  /\ closer' = "returned"
  /\ UNCHANGED <<channel, cancelled, processor, handling, emitting>>

\* Another call of Close, which finds the channel closed, panics.
CloseAgain ==
  /\ closed
  /\ panicked' = TRUE
  /\ UNCHANGED <<channel, processor, handling, emits, owed, closing>>

\* The context the bus was created with is cancelled, with or without Close.
ParentCancel ==
  /\ Closes /\ ~cancelled
  /\ cancelled' = TRUE
  /\ UNCHANGED <<closer, channel, processor, handling, emitting>>

\* The goroutine of processEvents, those of handlers, and Close.
Process == Receive \/ ReceiveNothing \/ HandleEvent \/ NoticeDone \/ Drained
Close == CloseChannel \/ CloseReturn

\* A panic ends the process.
Next ==
  /\ ~panicked
  /\ \/ \E h \in Handlers : Subscribe(h) \/ Unsubscribe(h)
     \/ Emit
     \/ Process
     \/ \E c \in Calls : CallHandler(c)
     \/ Cancel \/ ParentCancel
     \/ Close \/ CloseAgain

Spec == Init /\ [][Next]_busVars

\* Goroutines that can run do run, a select with several cases that stay ready
\* takes each of them in the end, and the handlers return.
FairSpec ==
  /\ Spec
  /\ WF_busVars(~panicked /\ Process)
  /\ SF_busVars(~panicked /\ NoticeDone)
  /\ WF_busVars(~panicked /\ Close)
  /\ \A c \in Calls : WF_busVars(~panicked /\ CallHandler(c))

-------------------------------------------------------------------------------
\* Every variable has its type, the channel never holds more than fits in it,
\* and is closed only once the context is done.
TypeOK ==
  /\ eventChan \in Seq(Events)
  /\ Len(eventChan) <= Capacity
  /\ closed \in BOOLEAN /\ cancelled \in BOOLEAN /\ panicked \in BOOLEAN
  /\ closed => cancelled
  /\ loop \in {"select", "drain", "returned"}
  /\ closer \in {"idle", "cancelled", "waiting", "returned"}
  /\ event \in Events \cup {0}
  /\ emits \in 0 .. MaxEmits
  /\ subscribed \subseteq Handlers
  /\ started \subseteq Calls /\ called \subseteq Calls /\ owed \subseteq Calls

\* No handler is called twice for one event, and what was sent first is
\* handled first: an event in the channel is younger than all that are out.
OnceInOrder ==
  /\ \A i \in 1 .. Len(eventChan) :
       /\ \A c \in started \cup called : c[1] < eventChan[i]
       /\ event < eventChan[i]
       /\ \A j \in 1 .. i - 1 : eventChan[j] < eventChan[i]
  /\ event # 0 => \A c \in started \cup called : c[1] < event
  /\ started \cap called = {}

\* processEvents does not return while a handler is owed an event that was
\* sent before the bus began to shut down.
ReturnsDrained ==
  loop = "returned" => owed \subseteq started \cup called

\* A handler is called for every event sent after it subscribed, unless the
\* event was dropped, the bus was shutting down or the process ended.
OwedIsCalled == \A c \in Calls : c \in owed ~> (c \in called \/ panicked)

\* Close returns.
CloseReturns == closer = "cancelled" ~> (closer = "returned" \/ panicked)
===============================================================================
