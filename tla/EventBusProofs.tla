---------------------------- MODULE EventBusProofs ----------------------------
(***************************************************************************)
(* Proofs about EventBus: events are handled once and in order, and        *)
(* processEvents does not return before it has dealt with those sent       *)
(* before the bus began to shut down.                                      *)
(***************************************************************************)
EXTENDS EventBus, SequenceTheorems, TLAPS

USE BusBounds

\* What has left the channel, and what is in it, has been emitted.
Emitted ==
  /\ \A i \in 1 .. Len(eventChan) : eventChan[i] <= emits
  /\ event <= emits
  /\ \A c \in started \cup called : c[1] <= emits

\* A call that is owed has been started, or its handler is subscribed and its
\* event still on the way.
OnTheWay(c) ==
  /\ c[2] \in subscribed
  /\ c[1] = event \/ \E i \in 1 .. Len(eventChan) : eventChan[i] = c[1]
OwedInTime == \A c \in owed : c \in started \cup called \/ OnTheWay(c)

\* The context is done before anything else of a shutdown happens, and
\* processEvents returns with nothing in its hands.
DoneFirst ==
  /\ closer # "idle" => cancelled
  /\ loop # "select" => cancelled
  /\ loop = "returned" => event = 0

BusInv == TypeOK /\ Emitted /\ OnceInOrder /\ OwedInTime /\ DoneFirst /\ ReturnsDrained

(***************************************************************************)
(* Emit: the one step that puts something in the channel.                  *)
(***************************************************************************)
\* A send appends the youngest event of all.
LEMMA SendKeeps ==
  ASSUME BusInv, Emit, Send
  PROVE  BusInv'
<1>. DEFINE e == emits + 1
<1>1. /\ eventChan \in Seq(Events) /\ e \in Events /\ emits \in Nat
      /\ event \in Events \cup {0}
      /\ Len(eventChan) < Capacity /\ ~closed
  BY DEF BusInv, TypeOK, Emit, Send, Room, Events
<1>2. /\ eventChan' = Append(eventChan, e)
      /\ emits' = e
      /\ UNCHANGED <<loop, event, subscribed, started, called, cancelled, closed, closer, panicked>>
  BY DEF Emit, Send, processor, handling, closing
<1>3. /\ Len(eventChan') = Len(eventChan) + 1
      /\ \A i \in 1 .. Len(eventChan) : eventChan'[i] = eventChan[i]
      /\ eventChan'[Len(eventChan) + 1] = e
      /\ eventChan' \in Seq(Events)
  BY <1>1, <1>2, AppendProperties
<1>4. Len(eventChan) \in Nat /\ \A i \in 1 .. Len(eventChan) : eventChan[i] \in Events
  BY <1>1
<1>. HIDE DEF e
<1>5. owed' \subseteq owed \cup ({e} \X subscribed) /\ (cancelled => owed' = owed)
  BY DEF Send, e
<1>6. \A c \in started \cup called : c \in Calls
  BY DEF BusInv, TypeOK
<1>7. TypeOK'
  <2>1. owed' \subseteq Calls
    BY <1>1, <1>5 DEF BusInv, TypeOK, Calls
  <2>2. Len(eventChan') <= Capacity
    BY <1>1, <1>3, <1>4
  <2>3. e \in 0 .. MaxEmits
    BY <1>1 DEF Events
  <2>. QED  BY <1>2, <1>3, <2>1, <2>2, <2>3 DEF BusInv, TypeOK
<1>8. Emitted'
  <2>1. \A i \in 1 .. Len(eventChan) : eventChan[i] <= e
    BY <1>1, <1>4 DEF BusInv, Emitted, Events, e
  <2>2. \A c \in started \cup called : c[1] <= e
    BY <1>1, <1>6 DEF BusInv, Emitted, Events, Calls, e
  <2>3. event <= e
    BY <1>1 DEF BusInv, Emitted, Events, e
  <2>. QED  BY <1>1, <1>2, <1>3, <1>4, <2>1, <2>2, <2>3 DEF Emitted, Events
<1>9. OnceInOrder'
  <2>1. \A c \in started \cup called : c[1] < e
    BY <1>1, <1>6 DEF BusInv, Emitted, Events, Calls, e
  <2>2. event < e
    BY <1>1 DEF BusInv, Emitted, Events, e
  <2>3. \A j \in 1 .. Len(eventChan) : eventChan[j] < e
    BY <1>1, <1>4 DEF BusInv, Emitted, Events, e
  <2>4. ASSUME NEW i \in 1 .. Len(eventChan')
        PROVE  /\ \A c \in (started \cup called)' : c[1] < eventChan'[i]
               /\ event' < eventChan'[i]
               /\ \A j \in 1 .. i - 1 : eventChan'[j] < eventChan'[i]
    <3>1. CASE i = Len(eventChan) + 1
      BY <3>1, <2>1, <2>2, <2>3, <1>2, <1>3, <1>4
    <3>2. CASE i \in 1 .. Len(eventChan)
      BY <3>2, <1>2, <1>3, <1>4 DEF BusInv, OnceInOrder
    <3>. QED  BY <3>1, <3>2, <1>3, <1>4
  <2>. QED  BY <2>4, <1>2 DEF BusInv, OnceInOrder
<1>10. OwedInTime'
  <2>. SUFFICES ASSUME NEW c \in owed' PROVE (c \in started \cup called \/ OnTheWay(c))'
    BY DEF OwedInTime
  <2>1. CASE c \in owed
    <3>1. CASE c \in started \cup called
      BY <3>1, <1>2
    <3>2. CASE OnTheWay(c)
      BY <3>2, <1>2, <1>3, <1>4 DEF OnTheWay
    <3>. QED  BY <2>1, <3>1, <3>2 DEF BusInv, OwedInTime
  <2>2. CASE c \in {e} \X subscribed
    <3>1. Len(eventChan) + 1 \in 1 .. Len(eventChan')
      BY <1>3, <1>4
    <3>. QED  BY <2>2, <3>1, <1>2, <1>3 DEF OnTheWay
  <2>. QED  BY <2>1, <2>2, <1>5
<1>11. DoneFirst' /\ ReturnsDrained'
  BY <1>2, <1>5 DEF BusInv, DoneFirst, ReturnsDrained
<1>. QED  BY <1>7, <1>8, <1>9, <1>10, <1>11 DEF BusInv

\* A dropped event and a panic leave everything but two flags as it is.
LEMMA NotSentKeeps ==
  ASSUME BusInv, Emit, SendOnClosed \/ NotSent
  PROVE  BusInv'
<1>1. /\ UNCHANGED <<eventChan, closed, loop, event, subscribed, started, called,
                     cancelled, closer, owed>>
      /\ emits' = emits + 1 /\ emits' \in 0 .. MaxEmits /\ emits \in Nat
      /\ panicked' \in BOOLEAN
  <2>1. emits' = emits + 1 /\ emits \in 0 .. MaxEmits /\ emits < MaxEmits /\ panicked \in BOOLEAN
    BY DEF BusInv, TypeOK, Emit
  <2>2. UNCHANGED <<eventChan, owed>> /\ (panicked' = TRUE \/ panicked' = panicked)
    BY DEF SendOnClosed, NotSent
  <2>3. UNCHANGED <<closed, processor, handling, closing>>
    BY DEF Emit
  <2>4. emits + 1 \in 0 .. MaxEmits /\ emits \in Nat
    BY <2>1
  <2>5. panicked' \in BOOLEAN
    BY <2>1, <2>2
  <2>. QED  BY <2>1, <2>2, <2>3, <2>4, <2>5 DEF processor, handling, closing
<1>2. TypeOK'
  BY <1>1 DEF BusInv, TypeOK
<1>3. \A i \in 1 .. Len(eventChan) : eventChan[i] \in Nat
  BY DEF BusInv, TypeOK, Events
<1>4. \A c \in started \cup called : c[1] \in Nat
  BY DEF BusInv, TypeOK, Calls, Events
<1>5. Emitted'
  BY <1>1, <1>3, <1>4 DEF BusInv, Emitted, TypeOK, Events
<1>6. OnceInOrder' /\ OwedInTime' /\ DoneFirst' /\ ReturnsDrained'
  BY <1>1 DEF BusInv, OnceInOrder, OwedInTime, OnTheWay, DoneFirst, ReturnsDrained
<1>. QED  BY <1>2, <1>5, <1>6 DEF BusInv

(***************************************************************************)
(* processEvents.                                                          *)
(***************************************************************************)
\* The oldest event is taken out: it is older than those that stay.
LEMMA ReceiveKeeps ==
  ASSUME BusInv, Receive
  PROVE  BusInv'
<1>1. /\ eventChan \in Seq(Events) /\ eventChan # <<>> /\ event = 0 /\ loop # "returned"
      /\ eventChan' = Tail(eventChan) /\ event' = Head(eventChan)
      /\ UNCHANGED <<closed, loop, subscribed, started, called, emits, panicked, owed,
                     cancelled, closer>>
  BY DEF BusInv, TypeOK, Receive, Looping, handling, emitting, closing
<1>2. /\ Len(eventChan) \in Nat \ {0}
      /\ event' = eventChan[1]
      /\ eventChan' \in Seq(Events)
      /\ Len(eventChan') = Len(eventChan) - 1
      /\ \A i \in 1 .. Len(eventChan') : eventChan'[i] = eventChan[i + 1]
      /\ event' \in Events
  BY <1>1, HeadTailProperties
<1>3. Capacity \in Nat /\ Len(eventChan) <= Capacity
  BY DEF BusInv, TypeOK
<1>4. TypeOK'
  <2>1. Len(eventChan') <= Capacity
    BY <1>2, <1>3
  <2>. QED  BY <1>1, <1>2, <2>1 DEF BusInv, TypeOK
<1>5. Emitted'
  BY <1>1, <1>2 DEF BusInv, Emitted
<1>6. OnceInOrder'
  <2>1. \A c \in started \cup called : c[1] < event'
    BY <1>2 DEF BusInv, OnceInOrder
  <2>2. ASSUME NEW i \in 1 .. Len(eventChan')
        PROVE  /\ \A c \in started \cup called : c[1] < eventChan'[i]
               /\ event' < eventChan'[i]
               /\ \A j \in 1 .. i - 1 : eventChan'[j] < eventChan'[i]
    <3>1. i + 1 \in 1 .. Len(eventChan) /\ 1 \in 1 .. (i + 1) - 1
      BY <1>2
    <3>2. /\ \A c \in started \cup called : c[1] < eventChan[i + 1]
          /\ \A j \in 1 .. (i + 1) - 1 : eventChan[j] < eventChan[i + 1]
      BY <3>1 DEF BusInv, OnceInOrder
    <3>3. \A j \in 1 .. i - 1 : j + 1 \in 1 .. (i + 1) - 1 /\ j \in 1 .. Len(eventChan')
      BY <1>2
    <3>. QED  BY <1>2, <3>1, <3>2, <3>3
  <2>. QED  BY <1>1, <2>1, <2>2 DEF BusInv, OnceInOrder
<1>7. OwedInTime'
  <2>. SUFFICES ASSUME NEW c \in owed, ~(c \in started \cup called)
                PROVE  OnTheWay(c)'
    BY <1>1 DEF OwedInTime
  <2>0. c \in Calls
    BY DEF BusInv, TypeOK
  <2>1. OnTheWay(c) /\ c[1] # 0
    BY <2>0 DEF BusInv, OwedInTime, Calls, Events
  <2>2. PICK i \in 1 .. Len(eventChan) : eventChan[i] = c[1]
    BY <2>1, <1>1 DEF OnTheWay
  <2>3. CASE i = 1
    BY <2>1, <2>2, <2>3, <1>1, <1>2 DEF OnTheWay
  <2>4. CASE i # 1
    <3>1. i - 1 \in 1 .. Len(eventChan') /\ (i - 1) + 1 = i
      BY <2>4, <1>2
    <3>2. eventChan'[i - 1] = c[1]
      BY <3>1, <2>2, <1>2
    <3>. QED  BY <2>1, <3>1, <3>2, <1>1 DEF OnTheWay
  <2>. QED  BY <2>3, <2>4
<1>8. DoneFirst' /\ ReturnsDrained'
  BY <1>1 DEF BusInv, DoneFirst, ReturnsDrained
<1>. QED  BY <1>4, <1>5, <1>6, <1>7, <1>8 DEF BusInv

\* Goroutines are started for all that are owed the event.
LEMMA HandleEventKeeps ==
  ASSUME BusInv, HandleEvent
  PROVE  BusInv'
<1>1. /\ event \in Events /\ event # 0 /\ event' = 0
      /\ started' = started \cup ({event} \X subscribed)
      /\ UNCHANGED <<eventChan, closed, loop, subscribed, called, emits, panicked, owed,
                     cancelled, closer>>
  BY DEF BusInv, TypeOK, HandleEvent, channel, emitting, closing
<1>2. \A c \in (started \cup called)' : c \in started \cup called \/ c[1] = event
  BY <1>1
<1>3. \A i \in 1 .. Len(eventChan) : eventChan[i] \in Nat \ {0}
  BY DEF BusInv, TypeOK, Events
<1>4. TypeOK'
  <2>1. {event} \X subscribed \subseteq Calls
    BY <1>1 DEF BusInv, TypeOK, Calls
  <2>. QED  BY <1>1, <2>1 DEF BusInv, TypeOK
<1>5. Emitted'
  BY <1>1, <1>2 DEF BusInv, Emitted, TypeOK
<1>6. OnceInOrder'
  <2>1. \A i \in 1 .. Len(eventChan) : event < eventChan[i]
    BY DEF BusInv, OnceInOrder
  <2>2. \A i \in 1 .. Len(eventChan) : \A c \in (started \cup called)' : c[1] < eventChan[i]
    BY <1>2, <2>1 DEF BusInv, OnceInOrder
  <2>3. \A i \in 1 .. Len(eventChan) : event' < eventChan[i]
    BY <1>1, <1>3
  <2>4. \A c \in called : c[1] < event
    BY <1>1 DEF BusInv, OnceInOrder
  <2>5. (started \cap called)' = {}
    <3>1. \A c \in {event} \X subscribed : c[1] = event
      OBVIOUS
    <3>2. ~(event < event)
      BY <1>1 DEF Events
    <3>3. started \cap called = {}
      BY DEF BusInv, OnceInOrder
    <3>. QED  BY <1>1, <2>4, <3>1, <3>2, <3>3
  <2>6. \A i \in 1 .. Len(eventChan) : \A j \in 1 .. i - 1 : eventChan[j] < eventChan[i]
    BY DEF BusInv, OnceInOrder
  <2>. QED  BY <1>1, <2>2, <2>3, <2>5, <2>6 DEF OnceInOrder
<1>7. OwedInTime'
  <2>. SUFFICES ASSUME NEW c \in owed, ~(c \in started \cup called), c[1] # event
                PROVE  OnTheWay(c)'
    <3>1. \A c \in owed : c[1] = event /\ OnTheWay(c) => c \in {event} \X subscribed
      BY DEF BusInv, TypeOK, Calls, OnTheWay
    <3>. QED  BY <1>1, <3>1 DEF BusInv, OwedInTime
  <2>. QED  BY <1>1 DEF BusInv, OwedInTime, OnTheWay
<1>8. DoneFirst' /\ ReturnsDrained'
  BY <1>1 DEF BusInv, DoneFirst, ReturnsDrained
<1>. QED  BY <1>4, <1>5, <1>6, <1>7, <1>8 DEF BusInv

\* The loop ends with an empty channel, when nothing owed is on the way.
LEMMA DrainedKeeps ==
  ASSUME BusInv, NoticeDone \/ Drained
  PROVE  BusInv'
<1>1. /\ event = 0 /\ cancelled
      /\ loop' \in {"drain", "returned"}
      /\ loop' = "returned" => eventChan = <<>>
      /\ UNCHANGED <<eventChan, closed, event, subscribed, started, called, emits, panicked,
                     owed, cancelled, closer>>
  BY DEF BusInv, DoneFirst, NoticeDone, Drained, Looping, channel, handling, emitting, closing
<1>2. TypeOK' /\ Emitted' /\ OnceInOrder' /\ OwedInTime' /\ DoneFirst'
  BY <1>1 DEF BusInv, TypeOK, Emitted, OnceInOrder, OwedInTime, OnTheWay, DoneFirst
<1>3. ReturnsDrained'
  <2>. SUFFICES ASSUME eventChan = <<>>, NEW c \in owed PROVE c \in started \cup called
    BY <1>1 DEF ReturnsDrained
  <2>1. c[1] # 0
    BY DEF BusInv, TypeOK, Calls, Events
  <2>. QED  BY <2>1, <1>1 DEF BusInv, OwedInTime, OnTheWay
<1>. QED  BY <1>2, <1>3 DEF BusInv

(***************************************************************************)
(* The other steps touch neither the channel nor what is owed.             *)
(***************************************************************************)
LEMMA OthersKeep ==
  ASSUME BusInv,
         \/ \E h \in Handlers : Subscribe(h) \/ Unsubscribe(h)
         \/ \E c \in Calls : CallHandler(c)
         \/ ReceiveNothing \/ Cancel \/ ParentCancel \/ Close \/ CloseAgain
  PROVE  BusInv'
<1>1. CASE \E h \in Handlers : Subscribe(h)
  <2>1. /\ subscribed \subseteq subscribed' /\ subscribed' \subseteq Handlers
        /\ UNCHANGED <<eventChan, closed, loop, event, started, called, emits, panicked, owed,
                       cancelled, closer>>
    BY <1>1 DEF BusInv, TypeOK, Subscribe, channel, processor, emitting, closing
  <2>. QED  BY <2>1 DEF BusInv, TypeOK, Emitted, OnceInOrder, OwedInTime, OnTheWay,
                        DoneFirst, ReturnsDrained
<1>2. CASE \E c \in Calls : CallHandler(c)
  <2>1. PICK c \in Calls : CallHandler(c)
    BY <1>2
  <2>2. /\ c \in started /\ started' = started \ {c} /\ called' = called \cup {c}
        /\ UNCHANGED <<eventChan, closed, loop, event, subscribed, emits, panicked, owed,
                       cancelled, closer>>
    BY <2>1 DEF CallHandler, channel, processor, emitting, closing
  <2>3. (started \cup called)' = started \cup called
    BY <2>2
  <2>4. TypeOK' /\ (started \cap called)' = {}
    BY <2>1, <2>2 DEF BusInv, TypeOK, OnceInOrder
  <2>. QED  BY <2>2, <2>3, <2>4 DEF BusInv, Emitted, OnceInOrder, OwedInTime, OnTheWay,
                                    DoneFirst, ReturnsDrained
<1>3. CASE Cancel \/ ParentCancel \/ Close
  <2>0. /\ closed \in BOOLEAN /\ cancelled \in BOOLEAN /\ (closed => cancelled)
        /\ closer # "idle" => cancelled
    BY DEF BusInv, TypeOK, DoneFirst
  <2>1. /\ closed' \in BOOLEAN /\ cancelled' \in BOOLEAN /\ (closed' => cancelled')
        /\ cancelled => cancelled'
        /\ cancelled'
        /\ closer' \in {"idle", "cancelled", "waiting", "returned"}
        /\ UNCHANGED <<eventChan, loop, event, subscribed, started, called, emits, panicked, owed>>
    <3>1. CASE Cancel
      BY <3>1, <2>0 DEF Cancel, channel, processor, handling, emitting
    <3>2. CASE CloseChannel
      BY <3>2, <2>0 DEF CloseChannel, processor, handling, emitting
    <3>3. CASE CloseReturn
      BY <3>3, <2>0 DEF CloseReturn, channel, processor, handling, emitting
    <3>4. CASE ParentCancel
      BY <3>4, <2>0 DEF ParentCancel, BusInv, TypeOK, channel, processor, handling, emitting
    <3>. QED  BY <1>3, <3>1, <3>2, <3>3, <3>4 DEF Close
  <2>. QED  BY <2>1 DEF BusInv, TypeOK, Emitted, OnceInOrder, OwedInTime, OnTheWay,
                        DoneFirst, ReturnsDrained
<1>4. CASE UNCHANGED busVars
  BY <1>4 DEF busVars, channel, processor, handling, emitting, closing, BusInv, TypeOK, Emitted,
              OnceInOrder, OwedInTime, OnTheWay, DoneFirst, ReturnsDrained
<1>5. CASE CloseAgain
  BY <1>5 DEF CloseAgain, channel, processor, handling, closing, BusInv, TypeOK, Emitted,
              OnceInOrder, OwedInTime, OnTheWay, DoneFirst, ReturnsDrained
<1>. QED  BY <1>1, <1>2, <1>3, <1>4, <1>5 DEF ReceiveNothing, Unsubscribe

(***************************************************************************)
(* The theorems.                                                           *)
(***************************************************************************)
LEMMA BusInvHolds == Spec => []BusInv
<1>1. Init => BusInv
  <2>. SUFFICES ASSUME Init PROVE BusInv
    OBVIOUS
  <2>1. eventChan \in Seq(Events) /\ Len(eventChan) = 0
    BY DEF Init
  <2>2. TypeOK
    <3>1. emits \in 0 .. MaxEmits /\ Len(eventChan) <= Capacity
      BY <2>1 DEF Init
    <3>. QED  BY <2>1, <3>1 DEF Init, TypeOK
  <2>. QED
    BY <2>1, <2>2 DEF Init, BusInv, Emitted, OnceInOrder, OwedInTime, DoneFirst, ReturnsDrained
<1>2. BusInv /\ [Next]_busVars => BusInv'
  <2>. SUFFICES ASSUME BusInv, [Next]_busVars PROVE BusInv'
    OBVIOUS
  <2>1. CASE Emit
    BY <2>1, SendKeeps, NotSentKeeps DEF Emit
  <2>2. CASE Process
    BY <2>2, ReceiveKeeps, HandleEventKeeps, DrainedKeeps, OthersKeep DEF Process
  <2>3. CASE UNCHANGED busVars
    BY <2>3 DEF busVars, channel, processor, handling, emitting, closing, BusInv, TypeOK, Emitted,
                OnceInOrder, OwedInTime, OnTheWay, DoneFirst, ReturnsDrained
  <2>. QED  BY <2>1, <2>2, <2>3, OthersKeep DEF Next
<1>. QED  BY <1>1, <1>2, PTL DEF Spec

\* However many emitters, handlers and events there are, and whenever the bus
\* is closed, a handler gets an event once and a younger one after it.
THEOREM EventsOnceInOrder == Spec => []OnceInOrder
BY BusInvHolds, PTL DEF BusInv

\* processEvents does not return before it has started every handler that is
\* owed an event sent before the bus began to shut down.
THEOREM ReturnIsDrained == Spec => []ReturnsDrained
BY BusInvHolds, PTL DEF BusInv

\* The types, which include that the channel is never overfull and is closed
\* only after the context is done.
THEOREM BusTypeCorrect == Spec => []TypeOK
BY BusInvHolds, PTL DEF BusInv

\* The drain of a closed channel never takes its default branch, so once the
\* channel is closed processEvents returns no more.
Draining == closed /\ loop # "returned" /\ closer # "returned"

LEMMA CloseWaits == Spec => [](closer = "returned" => loop = "returned")
<1>1. Init => (closer = "returned" => loop = "returned")
  BY DEF Init
<1>2. (closer = "returned" => loop = "returned") /\ [Next]_busVars
      => (closer = "returned" => loop = "returned")'
  BY DEF Next, Subscribe, Unsubscribe, Emit, Process, Receive, ReceiveNothing, HandleEvent,
         NoticeDone, Drained, Looping, CallHandler, Cancel, ParentCancel, Close,
         CloseChannel, CloseReturn, CloseAgain, busVars, channel, processor, handling, emitting, closing
<1>. QED  BY <1>1, <1>2, PTL DEF Spec

\* Close returns only if processEvents happens to be done between its cancel and
\* its close of the channel: with the channel closed before that, it never does,
\* whatever is scheduled when (events.go, Close).
THEOREM CloseHangs == Spec => [](closed /\ loop # "returned" => [](closer # "returned"))
<1>1. Draining /\ [Next]_busVars => Draining'
  BY DEF Draining, Next, Subscribe, Unsubscribe, Emit, Process, Receive, ReceiveNothing,
         HandleEvent, NoticeDone, Drained, Looping, CallHandler, Cancel, ParentCancel, Close,
         CloseChannel, CloseReturn, CloseAgain, busVars, channel, processor, handling, emitting, closing
<1>2. (closer = "returned" => loop = "returned") /\ closed /\ loop # "returned" => Draining
  BY DEF Draining
<1>3. Draining => closer # "returned"
  BY DEF Draining
<1>. QED  BY <1>1, <1>2, <1>3, CloseWaits, PTL DEF Spec
===============================================================================
