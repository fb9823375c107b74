---------------------------- MODULE StreamProofs ----------------------------
(***************************************************************************)
(* Proofs about Stream, for every value of its constants.                  *)
(***************************************************************************)
EXTENDS Stream, SequenceTheorems, TLAPS

Contexts == {"live", "Canceled", "Deadline"}

-----------------------------------------------------------------------------
(* What the helpers of Stream preserve *)

\* tq.Queue keeps the queue a sequence of tasks.
LEMMA QueueType ==
    ASSUME NEW t \in Task, tasks \in Seq(Task), tqClosed \in BOOLEAN,
           lost \subseteq {"data", "close", "end"}, Queue(t)
    PROVE  /\ tasks' \in Seq(Task) /\ tqClosed' \in BOOLEAN
           /\ lost' \subseteq {"data", "close", "end"}
<1>1. t.kind \in {"data", "close", "end"}
  BY DEF Task
<1>2. CASE ~tqClosed \/ KeepsLateTasks
  <2>1. tasks' = Append(tasks, t) /\ UNCHANGED <<tqClosed, lost>>
    BY <1>2, KeepsLateTasksAssumption DEF Queue
  <2>2. QED
    BY <2>1
<1>3. CASE tqClosed /\ ~KeepsLateTasks
  BY <1>1, <1>3, KeepsLateTasksAssumption DEF Queue
<1>4. QED
  BY <1>2, <1>3

\* The event loop takes a task from the front.
LEMMA TakeType ==
    ASSUME NEW kind, tasks \in Seq(Task), tqClosed \in BOOLEAN,
           lost \subseteq {"data", "close", "end"}, Take(kind)
    PROVE  /\ tasks' \in Seq(Task) /\ tqClosed' \in BOOLEAN
           /\ lost' \subseteq {"data", "close", "end"}
           /\ Head(tasks) \in Task
  BY DEF Take

\* The tasks the code queues are tasks.
LEMMA TaskTypes ==
    /\ \A m \in Nat : DataTask(m) \in Task
    /\ \A e \in Errs : CloseTask(e) \in Task
    /\ EndTask \in Task
  BY DEF Task, DataTask, CloseTask, EndTask, Errs

\* Cancelling a context gives a context.
LEMMA CancelledType == \A c \in Contexts : Cancelled(c) \in Contexts
  BY DEF Contexts, Cancelled

\* A loop over listeners leaves the thread idle or in a listener.
LEMMA DispatchType ==
    ASSUME NEW f \in Frame, NEW c \in Contexts, vuDone \in BOOLEAN, Dispatch(f, c)
    PROVE  /\ js' \in {"listener", "idle"} /\ cur' \in Frame
           /\ ctx' \in Contexts /\ vuDone' \in BOOLEAN
<1>1. NoFrame \in Frame
  BY DEF NoFrame, Frame, Events
<1>2. f.fails \in BOOLEAN
  BY DEF Frame
<1>3. QED
  BY <1>1, <1>2, CancelledType DEF Dispatch

\* The loops the code starts are loops.
LEMMA FrameTypes ==
    ASSUME listeners \in [Events -> Nat]
    PROVE  /\ \A event \in Events : Deliver(event) \in Frame
           /\ \A e \in Errs, fails \in BOOLEAN : DeliverError(e, fails) \in Frame
  BY DEF Deliver, DeliverError, Frame, Events

\* Going on with a loop gives a loop.
LEMMA NextFrameType ==
    ASSUME NEW f \in Frame
    PROVE  /\ [f EXCEPT !.next = @ + 1] \in Frame
           /\ [f EXCEPT !.next = f.upto + 1, !.fails = TRUE] \in Frame
<1>1. f.next + 1 \in Nat /\ f.upto + 1 \in Nat
  BY DEF Frame
<1>2. [f EXCEPT !.next = @ + 1] \in Frame
  BY <1>1 DEF Frame
<1>3. [f EXCEPT !.next = f.upto + 1, !.fails = TRUE] \in Frame
  BY <1>1 DEF Frame
<1>4. QED
  BY <1>2, <1>3

\* closeWithError, from a task or from a listener.
LEMMA CloseWithErrorType ==
    ASSUME NEW e \in Errs, NEW fails \in BOOLEAN, CloseWithError(e, fails),
           listeners \in [Events -> Nat], ctx \in Contexts,
           vuDone \in BOOLEAN, done \in BOOLEAN, cause \in Errs
    PROVE  /\ js' \in {"listener", "idle", "closing"} /\ cur' \in Frame
           /\ ctx' \in Contexts /\ vuDone' \in BOOLEAN
           /\ done' \in BOOLEAN /\ cause' \in Errs
<1>1. DeliverError(e, fails) \in Frame
  BY FrameTypes
<1>2. CASE e # "nil" /\ ~done
  BY <1>1, <1>2 DEF CloseWithError
<1>3. CASE e = "nil" \/ done
  BY <1>1, <1>3, DispatchType DEF CloseWithError
<1>4. QED
  BY <1>2, <1>3

-----------------------------------------------------------------------------
(* Type correctness *)

\* A step of the constructor or of the script keeps the types.
LEMMA TypeScript ==
    ASSUME TypeOK, Constructor \/ Script
    PROVE  TypeOK'
<1> USE DEF TypeOK, tqVars, rawVars, jsVars, writerVars, eventVars
<1>1. CASE Begin
  BY <1>1, StreamAssumption DEF Begin
<1>2. CASE BeginFails
  BY <1>2, StreamAssumption DEF BeginFails, CloseQueue
<1>3. CASE ScriptTurn
  BY <1>3 DEF ScriptTurn
<1>4. CASE ScriptReturns
  BY <1>4 DEF ScriptReturns
<1>5. CASE Write
  BY <1>5 DEF Write, Offer
<1>6. CASE End
  BY <1>6 DEF End, Offer, Closing
<1>7. ASSUME NEW e \in Listened, On(e) PROVE TypeOK'
  <2>1. listeners' \in [Events -> Nat]
    BY <1>7, StreamAssumption DEF On
  <2>2. QED
    BY <1>7, <2>1 DEF On
<1>8. QED
  BY <1>1, <1>2, <1>3, <1>4, <1>5, <1>6, <1>7 DEF Constructor, Script

\* A step of the writer goroutines keeps the types.
LEMMA TypeWriter ==
    ASSUME TypeOK, Writer
    PROVE  TypeOK'
<1> USE DEF TypeOK, tqVars, rawVars, jsVars, writerVars, eventVars, Closing
<1>0. CloseTask("nil") \in Task /\ CloseTask("Send") \in Task
  BY TaskTypes DEF Errs, LocalErrs
<1>1. CASE QueueReceives
  BY <1>1 DEF QueueReceives
<1>2. CASE Handoff
  BY <1>2 DEF Handoff
<1>3. CASE QueueExit
  BY <1>3 DEF QueueExit
<1>4. CASE SenderExit
  BY <1>4 DEF SenderExit
<1>5. CASE SendOK
  BY <1>5 DEF SendOK
<1>6. CASE SendEOF
  BY <1>0, <1>6, QueueType DEF SendEOF, SenderReturns
<1>7. CASE SendFails
  <2>1. ctx' \in Contexts
    BY <1>7, CancelledType DEF SendFails, Contexts
  <2>2. QED
    BY <1>0, <1>7, <2>1, QueueType DEF SendFails, SenderReturns, Contexts
<1>8. CASE SendClose
  <2>1. ctx' \in Contexts
    BY <1>8, CancelledType DEF SendClose, Contexts
  <2>2. QED
    BY <1>0, <1>8, <2>1, QueueType DEF SendClose, SenderReturns, Contexts
<1>9. QED
  BY <1>1, <1>2, <1>3, <1>4, <1>5, <1>6, <1>7, <1>8 DEF Writer

\* A step of the reader or of loop keeps the types.
LEMMA TypeReaderLoop ==
    ASSUME TypeOK, Receive \/ Loop
    PROVE  TypeOK'
<1> USE DEF TypeOK, tqVars, rawVars, jsVars, writerVars, eventVars
<1>0. ASSUME NEW e \in Errs, ReaderStops(e), received' \in Nat
      PROVE  TypeOK'
  BY <1>0, TaskTypes, QueueType DEF ReaderStops
<1>1. CASE RecvMessage
  <2>1. DataTask(received + 1) \in Task
    BY TaskTypes
  <2>2. QED
    BY <1>1, <2>1, QueueType DEF RecvMessage
<1>2. CASE RecvBadMessage
  BY <1>0, <1>2 DEF RecvBadMessage, Errs, ReaderErrs
<1>3. CASE RecvEnd
  <2>1. EndErrs(srv) \subseteq Errs
    BY DEF EndErrs, Errs, ReaderErrs
  <2>2. QED
    BY <1>0, <1>3, <2>1 DEF RecvEnd
<1>4. CASE RecvCtx
  BY <1>0, <1>4 DEF RecvCtx, Errs, ReaderErrs
<1>5. CASE LoopCtxDone
  <2>1. CloseTask("nil") \in Task
    BY TaskTypes DEF Errs
  <2>2. QED
    BY <1>5, <2>1, QueueType DEF LoopCtxDone
<1>6. CASE LoopDone
  BY <1>6 DEF LoopDone
<1>7. CASE LoopClose
  BY <1>7 DEF LoopClose, CloseQueue
<1>8. QED
  BY <1>1, <1>2, <1>3, <1>4, <1>5, <1>6, <1>7 DEF Receive, Loop

\* A step of a task or of a listener keeps the types.
LEMMA TypeEventLoop ==
    ASSUME TypeOK, EventLoop
    PROVE  TypeOK'
<1> USE DEF TypeOK, tqVars, rawVars, jsVars, writerVars, eventVars, taskUnchanged, Contexts
<1>0. /\ Deliver("data") \in Frame /\ Deliver("end") \in Frame
      /\ ctx \in Contexts
  BY FrameTypes DEF Events
<1>1. CASE RunData
  <2>1. Take("data") /\ Dispatch(Deliver("data"), ctx)
    BY <1>1 DEF RunData
  <2>2. Head(tasks) \in Task /\ Head(tasks).msg \in Nat
    BY <2>1, TakeType DEF Task
  <2>3. QED
    BY <1>0, <1>1, <2>1, <2>2, TakeType, DispatchType DEF RunData
<1>2. CASE RunClose
  <2>1. Take("close") /\ CloseWithError(Head(tasks).err, FALSE)
    BY <1>2 DEF RunClose
  <2>2. Head(tasks).err \in Errs
    BY <2>1, TakeType DEF Task
  <2>3. /\ js' \in {"listener", "idle", "closing"} /\ cur' \in Frame
        /\ ctx' \in Contexts /\ vuDone' \in BOOLEAN
        /\ done' \in BOOLEAN /\ cause' \in Errs
    BY <2>1, <2>2, CloseWithErrorType
  <2>4. QED
    BY <1>2, <2>1, <2>3, TakeType DEF RunClose
<1>3. CASE CloseQueuesEnd
  <2>1. (IF timeout THEN Cancelled(ctx) ELSE ctx) \in Contexts
    BY <1>0, CancelledType
  <2>2. QED
    BY <1>3, <2>1, TaskTypes, QueueType, DispatchType DEF CloseQueuesEnd
<1>4. CASE RunEnd
  BY <1>0, <1>4, TakeType, DispatchType DEF RunEnd
<1>5. CASE ListenerReturns
  <2>1. [cur EXCEPT !.next = @ + 1] \in Frame
    BY NextFrameType
  <2>2. QED
    BY <1>0, <1>5, <2>1, DispatchType DEF ListenerReturns
<1>6. CASE DataListenerThrows
  <2>1. "Thrown" \in Errs
    BY DEF Errs, LocalErrs
  <2>2. CloseWithError("Thrown", TRUE)
    BY <1>6 DEF DataListenerThrows
  <2>3. /\ js' \in {"listener", "idle", "closing"} /\ cur' \in Frame
        /\ ctx' \in Contexts /\ vuDone' \in BOOLEAN
        /\ done' \in BOOLEAN /\ cause' \in Errs
    BY <2>1, <2>2, CloseWithErrorType
  <2>4. QED
    BY <1>6, <2>3 DEF DataListenerThrows
<1>7. CASE OtherListenerThrows
  <2>1. [cur EXCEPT !.next = cur.upto + 1, !.fails = TRUE] \in Frame
    BY NextFrameType
  <2>2. QED
    BY <1>0, <1>7, <2>1, DispatchType DEF OtherListenerThrows
<1>8. QED
  BY <1>1, <1>2, <1>3, <1>4, <1>5, <1>6, <1>7 DEF EventLoop, RunTask, ListenerEnds

\* A step of the environment keeps the types.
LEMMA TypeEnv ==
    ASSUME TypeOK, Env
    PROVE  TypeOK'
<1> USE DEF TypeOK, tqVars, jsVars, writerVars, eventVars, Contexts
<1>1. CASE ServerSends
  BY <1>1 DEF Env, ServerSends
<1>2. CASE ServerFinishes
  BY <1>2 DEF Env, ServerFinishes
<1>3. CASE VUCancelled
  BY <1>3, CancelledType DEF Env, VUCancelled
<1>4. CASE DeadlineExpires
  BY <1>4 DEF Env, DeadlineExpires
<1>5. QED
  BY <1>1, <1>2, <1>3, <1>4 DEF Env

LEMMA TypeStep ==
    ASSUME TypeOK, [Next]_vars
    PROVE  TypeOK'
<1>1. CASE UNCHANGED vars
  BY <1>1 DEF TypeOK, vars, tqVars, rawVars, jsVars, writerVars, eventVars
<1>2. QED
  BY <1>1, TypeScript, TypeWriter, TypeReaderLoop, TypeEventLoop, TypeEnv
     DEF Next, Stutter

\* Every reachable state is well-typed (all of grpc/stream.go's state).
THEOREM TypeCorrect == Spec => []TypeOK
<1>1. Init => TypeOK
  <2>1. NoFrame \in Frame
    BY DEF NoFrame, Frame
  <2>2. [e \in Events |-> 0] \in [Events -> Nat]
    OBVIOUS
  <2>3. <<>> \in Seq(Task) /\ <<>> \in Seq(Nat) /\ "nil" \in Errs
    BY DEF Errs
  <2>4. QED
    <3> SUFFICES ASSUME Init PROVE TypeOK
      OBVIOUS
    <3>1. tasks \in Seq(Task) /\ tqClosed \in BOOLEAN /\ lost \subseteq {"data", "close", "end"}
      BY <2>3 DEF Init, TQInit
    <3>2. /\ arrived \in Nat /\ received \in Nat /\ srv \in {"open"} \cup Statuses
          /\ ctx \in {"live", "Canceled", "Deadline"} /\ vuDone \in BOOLEAN
      BY DEF Init, RawInit
    <3>3. cur \in Frame /\ listeners \in [Events -> Nat] /\ wqueue \in Seq(Nat) /\ cause \in Errs
      BY <2>1, <2>2, <2>3 DEF Init
    <3>4. QED
      BY <3>1, <3>2, <3>3 DEF Init, TypeOK, Closing
<1>2. QED
  BY <1>1, TypeStep, PTL DEF Spec

-----------------------------------------------------------------------------
(* The goroutines and the task queue *)

\* The goroutines start together; the queue goroutine stops only when the
\* stream is done; loop closes the task queue when the others have stopped.
ThreadsInv ==
    /\ js \in {"off", "failed"} <=> lp = "off"
    /\ lp = "off" => rd = "off" /\ wq = "off" /\ ws = "off"
    /\ lp # "off" => rd # "off" /\ wq # "off" /\ ws # "off"
    /\ tqClosed => js = "failed" \/ lp = "exited"
    /\ lp = "exited" => rd = "exited" /\ wq = "exited" /\ ws = "exited"
    /\ wq = "exited" => done
    /\ lost \subseteq {"end"}

\* A goroutine that is not finished finds the task queue open.
LEMMA QueueIsOpen ==
    ASSUME ThreadsInv, rd = "run" \/ ws = "sending" \/ lp = "select"
    PROVE  ~tqClosed
  BY DEF ThreadsInv

LEMMA ThreadsInit == Init => ThreadsInv
  BY DEF Init, TQInit, ThreadsInv

LEMMA ThreadsStep ==
    ASSUME TypeOK, ThreadsInv, [Next]_vars
    PROVE  ThreadsInv'
<1> USE DEF ThreadsInv, tqVars, rawVars, jsVars, writerVars, eventVars
<1>0. /\ tqClosed \in BOOLEAN /\ done \in BOOLEAN
      /\ tqClosed' \in BOOLEAN /\ done' \in BOOLEAN
  BY TypeStep DEF TypeOK
<1>1. CASE Constructor
  BY <1>0, <1>1 DEF Constructor, Begin, BeginFails, CloseQueue
<1>2. CASE Script
  BY <1>0, <1>2 DEF Script, ScriptTurn, ScriptReturns, On, Write, End, Offer, MayCall, InScript
<1>3. CASE QueueReceives \/ Handoff \/ QueueExit \/ SenderExit \/ SendOK
  BY <1>0, <1>3 DEF QueueReceives, Handoff, QueueExit, SenderExit, SendOK
<1>4. CASE SendEOF \/ SendFails \/ SendClose
  BY <1>0, <1>4, QueueIsOpen DEF SendEOF, SendFails, SendClose, SenderReturns, Queue
<1>5. CASE Receive
  BY <1>0, <1>5, QueueIsOpen
     DEF Receive, RecvMessage, RecvBadMessage, RecvEnd, RecvCtx, ReaderStops, Queue
<1>6. CASE Loop
  BY <1>0, <1>6, QueueIsOpen DEF Loop, LoopCtxDone, LoopDone, LoopClose, CloseQueue, Queue
<1>7. CASE RunTask
  BY <1>0, <1>7 DEF RunTask, RunData, RunClose, RunEnd, Take, CloseWithError, Dispatch,
              taskUnchanged
<1>8. CASE CloseQueuesEnd
  <2>1. tqClosed' = tqClosed /\ lost' \subseteq {"end"}
    BY <1>8, KeepsLateTasksAssumption DEF CloseQueuesEnd, Queue, EndTask
  <2>2. lp' = lp /\ rd' = rd /\ wq' = wq /\ ws' = ws /\ done' = done
    BY <1>8 DEF CloseQueuesEnd, taskUnchanged
  <2>3. js = "closing" /\ js' \in {"listener", "idle"}
    BY <1>8 DEF CloseQueuesEnd, Dispatch
  <2>4. QED
    BY <1>0, <2>1, <2>2, <2>3
<1>9. CASE ListenerEnds
  BY <1>0, <1>9 DEF ListenerEnds, ListenerReturns, DataListenerThrows, OtherListenerThrows,
              CloseWithError, Dispatch, taskUnchanged
<1>10. CASE Env
  BY <1>0, <1>10 DEF Env, ServerSends, ServerFinishes, VUCancelled, DeadlineExpires
<1>11. CASE UNCHANGED vars
  BY <1>0, <1>11 DEF vars
<1>12. QED
  BY <1>1, <1>2, <1>3, <1>4, <1>5, <1>6, <1>7, <1>8, <1>9, <1>10, <1>11
     DEF Next, Writer, EventLoop, Stutter

LEMMA Threads == Spec => []ThreadsInv
  BY ThreadsInit, ThreadsStep, TypeCorrect, PTL DEF Spec

\* While the stream is open, write and end find a receiver (grpc/stream.go:320
\* and 332), whatever else has happened.
THEOREM OfferTaken == Spec => []OfferIsTaken
<1>1. TypeOK /\ ThreadsInv => OfferIsTaken
  BY DEF TypeOK, ThreadsInv, OfferIsTaken
<1>2. QED
  BY <1>1, TypeCorrect, Threads, PTL

\* tq.Close comes last, except that the end event may be queued after it.
THEOREM OnlyEndLate == Spec => []OnlyEndIsLate
<1>1. ThreadsInv => OnlyEndIsLate
  BY DEF ThreadsInv, OnlyEndIsLate
<1>2. QED
  BY <1>1, Threads, PTL

-----------------------------------------------------------------------------
(* The tasks, position by position *)

\* tq.Queue adds the task at the end, or does nothing to the queue.
LEMMA QueueEffect ==
    ASSUME NEW t \in Task, tasks \in Seq(Task), tqClosed \in BOOLEAN, Queue(t)
    PROVE  \/ tasks' = tasks
           \/ /\ Len(tasks') = Len(tasks) + 1
              /\ \A i \in 1..Len(tasks) : tasks'[i] = tasks[i]
              /\ tasks'[Len(tasks) + 1] = t
<1>1. CASE tasks' = tasks
  BY <1>1
<1>2. CASE tasks' = Append(tasks, t)
  BY <1>2
<1>3. QED
  BY <1>1, <1>2 DEF Queue

\* On a queue that is open, the task is added.
LEMMA QueueAdds ==
    ASSUME NEW t \in Task, tasks \in Seq(Task), tqClosed \in BOOLEAN, Queue(t), ~tqClosed
    PROVE  /\ Len(tasks') = Len(tasks) + 1
           /\ \A i \in 1..Len(tasks) : tasks'[i] = tasks[i]
           /\ tasks'[Len(tasks) + 1] = t
<1>1. tasks' = Append(tasks, t)
  BY DEF Queue
<1>2. QED
  BY <1>1

\* Taking a task shifts the others by one.
LEMMA TakeEffect ==
    ASSUME NEW kind, tasks \in Seq(Task), Take(kind)
    PROVE  /\ Len(tasks') = Len(tasks) - 1 /\ Len(tasks) > 0
           /\ \A i \in 1..Len(tasks') : tasks'[i] = tasks[i + 1]
           /\ Head(tasks) = tasks[1] /\ tasks[1].kind = kind
  BY DEF Take

-----------------------------------------------------------------------------
(* The end event *)

NoEndTask == \A i \in 1..Len(tasks) : tasks[i].kind # "end"
OneEndTask ==
    \A i, j \in 1..Len(tasks) : tasks[i].kind = "end" /\ tasks[j].kind = "end" => i = j

\* The end event is queued by the one step of close that follows the closing
\* of done, so that there is at most one end task, and none before or after.
EndInv ==
    /\ js = "closing" => done
    /\ ~done \/ js = "closing" => endRuns = 0 /\ NoEndTask
    /\ endRuns > 0 => NoEndTask
    /\ endRuns <= 1
    /\ OneEndTask

LEMMA EndInit == Init => EndInv
  BY DEF Init, TQInit, EndInv, NoEndTask, OneEndTask

\* Queueing another task leaves the end tasks as they are.
LEMMA EndQueue ==
    ASSUME TypeOK, EndInv, NEW t \in Task, t.kind # "end", Queue(t),
           UNCHANGED <<js, done, endRuns>>
    PROVE  EndInv'
<1>1. tasks \in Seq(Task) /\ tqClosed \in BOOLEAN
  BY DEF TypeOK
<1>2. NoEndTask => NoEndTask'
  BY <1>1, QueueEffect DEF NoEndTask
<1>3. OneEndTask => OneEndTask'
  BY <1>1, QueueEffect DEF OneEndTask
<1>4. QED
  BY <1>2, <1>3 DEF EndInv

\* So does taking a task.
LEMMA EndTake ==
    ASSUME NEW kind, tasks \in Seq(Task), Take(kind)
    PROVE  /\ NoEndTask => NoEndTask'
           /\ OneEndTask => OneEndTask'
           /\ kind = "end" /\ OneEndTask => ~NoEndTask /\ NoEndTask'
<1>1. NoEndTask => NoEndTask'
  BY TakeEffect DEF NoEndTask
<1>2. OneEndTask => OneEndTask'
  BY TakeEffect DEF OneEndTask
<1>3. kind = "end" /\ OneEndTask => ~NoEndTask /\ NoEndTask'
  BY TakeEffect DEF NoEndTask, OneEndTask
<1>4. QED
  BY <1>1, <1>2, <1>3

LEMMA EndStep ==
    ASSUME TypeOK, EndInv, [Next]_vars
    PROVE  EndInv'
<1> USE DEF tqVars, rawVars, jsVars, writerVars, eventVars
<1>0. /\ tqClosed \in BOOLEAN /\ done \in BOOLEAN /\ tasks \in Seq(Task)
      /\ done' \in BOOLEAN /\ endRuns \in Nat
  BY TypeStep DEF TypeOK
<1>1. CASE Constructor
  BY <1>0, <1>1 DEF Constructor, Begin, BeginFails, CloseQueue, EndInv, NoEndTask, OneEndTask
<1>2. CASE Script
  BY <1>0, <1>2 DEF Script, ScriptTurn, ScriptReturns, On, Write, End, Offer, MayCall,
                    InScript, EndInv, NoEndTask, OneEndTask
<1>3. CASE QueueReceives \/ Handoff \/ QueueExit \/ SenderExit \/ SendOK
  BY <1>0, <1>3 DEF QueueReceives, Handoff, QueueExit, SenderExit, SendOK,
                    EndInv, NoEndTask, OneEndTask
<1>4. CASE SendEOF \/ SendFails \/ SendClose
  <2>1. PICK e \in Errs : Queue(CloseTask(e))
    BY <1>4 DEF SendEOF, SendFails, SendClose, Errs, LocalErrs
  <2>2. CloseTask(e) \in Task /\ CloseTask(e).kind # "end"
    BY TaskTypes DEF CloseTask
  <2>3. UNCHANGED <<js, done, endRuns>>
    BY <1>4 DEF SendEOF, SendFails, SendClose
  <2>4. QED
    BY <2>1, <2>2, <2>3, EndQueue
<1>5. CASE Receive
  <2>1. PICK t \in Task : Queue(t) /\ t.kind # "end"
    <3>1. CASE RecvMessage
      <4>1. DataTask(received + 1) \in Task /\ DataTask(received + 1).kind # "end"
        BY TaskTypes DEF TypeOK, DataTask
      <4>2. QED
        BY <3>1, <4>1 DEF RecvMessage
    <3>2. ASSUME NEW e \in Errs, ReaderStops(e)
          PROVE  \E t \in Task : Queue(t) /\ t.kind # "end"
      <4>1. CloseTask(e) \in Task /\ CloseTask(e).kind # "end"
        BY TaskTypes DEF CloseTask
      <4>2. QED
        BY <3>2, <4>1 DEF ReaderStops
    <3>3. EndErrs(srv) \subseteq Errs
      BY DEF EndErrs, Errs, ReaderErrs
    <3>4. QED
      BY <1>5, <3>1, <3>2, <3>3
         DEF Receive, RecvBadMessage, RecvEnd, RecvCtx, Errs, ReaderErrs
  <2>2. UNCHANGED <<js, done, endRuns>>
    BY <1>5 DEF Receive, RecvMessage, RecvBadMessage, RecvEnd, RecvCtx, ReaderStops
  <2>3. QED
    BY <2>1, <2>2, EndQueue
<1>6. CASE Loop
  <2>1. CASE LoopCtxDone
    <3>1. CloseTask("nil") \in Task /\ CloseTask("nil").kind # "end"
      BY TaskTypes DEF CloseTask, Errs
    <3>2. QED
      BY <2>1, <3>1, EndQueue DEF LoopCtxDone
  <2>2. CASE LoopDone \/ LoopClose
    BY <1>0, <2>2 DEF LoopDone, LoopClose, CloseQueue, EndInv, NoEndTask, OneEndTask
  <2>3. QED
    BY <1>6, <2>1, <2>2 DEF Loop
<1>7. CASE RunTask
  <2>1. CASE RunData
    <3>1. Take("data") /\ UNCHANGED <<done, endRuns>> /\ js' # "closing"
      BY <2>1 DEF RunData, Dispatch
    <3>2. QED
      BY <1>0, <3>1, EndTake DEF EndInv
  <2>2. CASE RunClose
    <3>1. Take("close") /\ UNCHANGED endRuns
      BY <2>2 DEF RunClose
    <3>2. \/ done' /\ js' = "closing" /\ ~done
          \/ UNCHANGED done /\ js' # "closing"
      BY <1>0, <2>2 DEF RunClose, CloseWithError, Dispatch
    <3>3. QED
      BY <1>0, <3>1, <3>2, EndTake DEF EndInv
  <2>3. CASE RunEnd
    <3>1. Take("end") /\ UNCHANGED done /\ endRuns' = endRuns + 1 /\ js' # "closing"
      BY <2>3 DEF RunEnd, Dispatch
    <3>2. endRuns = 0 /\ done
      BY <1>0, <3>1, EndTake DEF EndInv
    <3>3. NoEndTask'
      BY <1>0, <3>1, EndTake DEF EndInv
    <3>4. QED
      BY <1>0, <3>1, <3>2, <3>3, EndTake DEF EndInv
  <2>4. QED
    BY <1>7, <2>1, <2>2, <2>3 DEF RunTask
<1>8. CASE CloseQueuesEnd
  <2>1. js = "closing" /\ js' # "closing" /\ Queue(EndTask) /\ UNCHANGED <<done, endRuns>>
    BY <1>8 DEF CloseQueuesEnd, Dispatch
  <2>2. EndTask \in Task
    BY TaskTypes
  <2>3. QED
    <3>1. NoEndTask /\ endRuns = 0 /\ done
      BY <2>1 DEF EndInv
    <3>2. OneEndTask'
      BY <1>0, <2>1, <2>2, <3>1, QueueEffect DEF NoEndTask, OneEndTask
    <3>3. QED
      BY <2>1, <3>1, <3>2 DEF EndInv
<1>9. CASE ListenerEnds
  <2>1. UNCHANGED <<tasks, endRuns>>
    BY <1>9 DEF ListenerEnds, ListenerReturns, DataListenerThrows, OtherListenerThrows
  <2>2. \/ done' /\ js' = "closing" /\ ~done
        \/ UNCHANGED done /\ js' # "closing"
    BY <1>0, <1>9 DEF ListenerEnds, ListenerReturns, DataListenerThrows,
                      OtherListenerThrows, CloseWithError, Dispatch
  <2>3. QED
    BY <1>0, <2>1, <2>2 DEF EndInv, NoEndTask, OneEndTask
<1>10. CASE Env
  BY <1>0, <1>10 DEF Env, EndInv, NoEndTask, OneEndTask
<1>11. CASE UNCHANGED vars
  BY <1>0, <1>11 DEF vars, EndInv, NoEndTask, OneEndTask
<1>12. QED
  BY <1>1, <1>2, <1>3, <1>4, <1>5, <1>6, <1>7, <1>8, <1>9, <1>10, <1>11
     DEF Next, Writer, EventLoop, Stutter

LEMMA EndTasks == Spec => []EndInv
  BY EndInit, EndStep, TypeCorrect, PTL DEF Spec

\* However the end of the stream is noticed, the end event comes once.
THEOREM EndOnce == Spec => []EndAtMostOnce
<1>1. EndInv => EndAtMostOnce
  BY DEF EndInv, EndAtMostOnce
<1>2. QED
  BY <1>1, EndTasks, PTL

-----------------------------------------------------------------------------
(* The way of a written message to SendMsg *)

\* The number of the last message the sending goroutine has taken.
Taken == IF ws = "sending" THEN sent + 1 ELSE sent

\* What the queue goroutine keeps while the sending one still takes messages:
\* the messages after Taken, up to the last one it has received, and once end
\* has returned the closing one after them.
InPlace == \A i \in 1..Len(wqueue) : wqueue[i] # Closing => wqueue[i] = Taken + i
UpToLast ==
    /\ writingState = "opened" /\ js = "sending" => Taken + Len(wqueue) + 1 = written
    /\ (writingState = "opened") # (js = "sending") => Taken + Len(wqueue) = written
    /\ writingState = "closed" /\ js # "sending" => Taken + Len(wqueue) = written + 1
ClosingIsLast ==
    /\ writingState = "closed" /\ js # "sending" => Len(wqueue) > 0
    /\ \A i \in 1..Len(wqueue) :
          wqueue[i] = Closing
            <=> writingState = "closed" /\ js # "sending" /\ i = Len(wqueue)
QueueInv == InPlace /\ UpToLast /\ ClosingIsLast

\* Every message between write and SendMsg is the next one of its place.
WriteInv ==
    /\ js = "sending" => out = IF writingState = "closed" THEN Closing ELSE written
    /\ js = "sending" /\ writingState = "opened" => written > 0
    /\ ws = "sending" /\ held # Closing => held = sent + 1
    /\ ws = "sending" /\ held = Closing
            => sent = written /\ writingState = "closed" /\ js # "sending" /\ wqueue = <<>>
    /\ closeSent => sent = written /\ writingState = "closed" /\ ws = "exited"
    /\ wq = "run" /\ (ws = "ready" \/ (ws = "sending" /\ held # Closing)) => QueueInv
    /\ wq = "exited" => wqueue = <<>>
    /\ js = "off" => /\ wqueue = <<>> /\ written = 0 /\ sent = 0
                     /\ writingState = "opened" /\ ~closeSent

LEMMA WriteInit == Init => WriteInv
  BY DEF Init, WriteInv

\* WriteInv speaks of these variables only, and of js as far as it is "off"
\* or "sending".
LEMMA WriteFrame ==
    ASSUME WriteInv, js = "sending" <=> js' = "sending", js' # "off",
           UNCHANGED <<out, writingState, written, writerVars>>
    PROVE  WriteInv'
  BY DEF WriteInv, QueueInv, InPlace, UpToLast, ClosingIsLast, Taken, writerVars

LEMMA WriteScript ==
    ASSUME TypeOK, ThreadsInv, WriteInv, Constructor \/ Script
    PROVE  WriteInv'
<1> USE DEF Closing
<1>0. /\ written \in Nat /\ sent \in Nat /\ wqueue \in Seq(Nat)
      /\ writingState \in {"opened", "closed"} /\ closeSent \in BOOLEAN
  BY DEF TypeOK
<1>1. CASE Begin
  <2>1. /\ wqueue' = <<>> /\ written' = 0 /\ sent' = 0 /\ ~closeSent'
        /\ writingState' = "opened" /\ js' = "script" /\ ws' = "ready" /\ wq' = "run"
    BY <1>1 DEF Begin, WriteInv
  <2>2. QED
    BY <2>1 DEF WriteInv, QueueInv, InPlace, UpToLast, ClosingIsLast, Taken
<1>2. CASE BeginFails
  BY <1>2, WriteFrame DEF BeginFails
<1>3. CASE ScriptTurn \/ ScriptReturns
  BY <1>3, WriteFrame DEF ScriptTurn, ScriptReturns
<1>4. CASE \E e \in Listened : On(e)
  BY <1>4, WriteFrame DEF On, InScript
<1>5. CASE Write
  <2>1. /\ js # "sending" /\ js # "off" /\ js' = "sending" /\ writingState = "opened"
        /\ written' = written + 1 /\ out' = written + 1
        /\ UNCHANGED <<writingState, writerVars>>
    BY <1>5 DEF Write, Offer, MayCall, InScript
  <2>2. QED
    BY <1>0, <2>1 DEF WriteInv, QueueInv, InPlace, UpToLast, ClosingIsLast, Taken, writerVars
<1>6. CASE End
  <2>1. /\ js # "sending" /\ js # "off" /\ js' = "sending" /\ writingState = "opened"
        /\ writingState' = "closed" /\ out' = Closing
        /\ UNCHANGED <<written, writerVars>>
    BY <1>0, <1>6 DEF End, Offer, MayCall, InScript
  <2>2. QED
    BY <1>0, <2>1 DEF WriteInv, QueueInv, InPlace, UpToLast, ClosingIsLast, Taken, writerVars
<1>7. QED
  BY <1>1, <1>2, <1>3, <1>4, <1>5, <1>6 DEF Constructor, Script

LEMMA WriteReceives ==
    ASSUME TypeOK, ThreadsInv, WriteInv, QueueReceives
    PROVE  WriteInv'
<1> USE DEF Closing
<1>0. /\ written \in Nat /\ sent \in Nat /\ wqueue \in Seq(Nat) /\ out \in Nat
      /\ writingState \in {"opened", "closed"} /\ closeSent \in BOOLEAN
  BY DEF TypeOK
<1>1. /\ js = "sending" /\ wq = "run" /\ js' # "sending" /\ js' # "off"
      /\ UNCHANGED <<writingState, written, wq, ws, held, sent, closeSent>>
  BY DEF QueueReceives
<1>2. /\ Len(wqueue') = Len(wqueue) + 1
      /\ \A i \in 1..Len(wqueue) : wqueue'[i] = wqueue[i]
      /\ wqueue'[Len(wqueue) + 1] = out
  BY <1>0 DEF QueueReceives
<1>3. CASE ws = "ready" \/ (ws = "sending" /\ held # Closing)
  <2>1. QueueInv
    BY <1>1, <1>3 DEF WriteInv
  <2>2. CASE writingState = "opened"
    <3>1. out = written /\ written > 0
      BY <1>1, <2>2 DEF WriteInv
    <3>2. QueueInv'
      <4>1. InPlace'
        BY <1>0, <1>1, <1>2, <2>1, <2>2, <3>1 DEF QueueInv, InPlace, UpToLast, Taken
      <4>2. UpToLast'
        BY <1>0, <1>1, <1>2, <2>1, <2>2, <3>1 DEF QueueInv, UpToLast, Taken
      <4>3. ClosingIsLast'
        BY <1>0, <1>1, <1>2, <2>1, <2>2, <3>1 DEF QueueInv, ClosingIsLast
      <4>4. QED
        BY <4>1, <4>2, <4>3 DEF QueueInv
    <3>3. QED
      BY <1>1, <1>3, <2>2, <3>2 DEF WriteInv
  <2>3. CASE writingState = "closed"
    <3>1. out = Closing
      BY <1>1, <2>3 DEF WriteInv
    <3>2. QueueInv'
      <4>1. InPlace'
        BY <1>0, <1>1, <1>2, <2>1, <2>3, <3>1 DEF QueueInv, InPlace, UpToLast, Taken
      <4>2. UpToLast'
        BY <1>0, <1>1, <1>2, <2>1, <2>3, <3>1 DEF QueueInv, UpToLast, Taken
      <4>3. ClosingIsLast'
        BY <1>0, <1>1, <1>2, <2>1, <2>3, <3>1 DEF QueueInv, ClosingIsLast
      <4>4. QED
        BY <4>1, <4>2, <4>3 DEF QueueInv
    <3>3. QED
      BY <1>1, <1>3, <2>3, <3>2 DEF WriteInv
  <2>4. QED
    BY <1>0, <2>2, <2>3
<1>4. CASE ~(ws = "ready" \/ (ws = "sending" /\ held # Closing))
  BY <1>1, <1>4 DEF WriteInv
<1>5. QED
  BY <1>3, <1>4

LEMMA WriteHandoff ==
    ASSUME TypeOK, WriteInv, Handoff
    PROVE  WriteInv'
<1> USE DEF Closing
<1>0. /\ written \in Nat /\ sent \in Nat /\ wqueue \in Seq(Nat)
      /\ writingState \in {"opened", "closed"} /\ closeSent \in BOOLEAN
  BY DEF TypeOK
<1>1. /\ wq = "run" /\ ws = "ready" /\ ws' = "sending" /\ js' = js
      /\ UNCHANGED <<writingState, written, wq, sent, closeSent, out>>
  BY DEF Handoff, jsVars
<1>2. /\ Len(wqueue) > 0 /\ Len(wqueue') = Len(wqueue) - 1
      /\ \A i \in 1..Len(wqueue') : wqueue'[i] = wqueue[i + 1]
      /\ held' = wqueue[1]
  BY <1>0 DEF Handoff
<1>3. QueueInv /\ ~closeSent /\ js # "off"
  <2>1. QueueInv
    BY <1>1 DEF WriteInv
  <2>2. ~closeSent
    BY <1>0, <1>1 DEF WriteInv
  <2>3. js # "off"
    BY <1>2 DEF WriteInv
  <2>4. QED
    BY <2>1, <2>2, <2>3
<1>4. CASE wqueue[1] # Closing
  <2>1. held' = sent + 1
    BY <1>0, <1>1, <1>2, <1>3, <1>4 DEF QueueInv, InPlace, UpToLast, ClosingIsLast, Taken
  <2>2. QueueInv'
    <3>1. InPlace'
      <4>1. Taken' = Taken + 1
        BY <1>0, <1>1 DEF Taken
      <4>2. \A i \in 1..Len(wqueue') : i + 1 \in 1..Len(wqueue)
        BY <1>0, <1>2
      <4>3. Taken \in Nat
        BY <1>0 DEF Taken
      <4>4. QED
        BY <1>0, <1>2, <1>3, <4>1, <4>2, <4>3 DEF QueueInv, InPlace
    <3>2. UpToLast'
      BY <1>0, <1>1, <1>2, <1>3, <1>4 DEF QueueInv, UpToLast, Taken
    <3>3. ClosingIsLast'
      BY <1>0, <1>1, <1>2, <1>3, <1>4 DEF QueueInv, ClosingIsLast
    <3>4. QED
      BY <3>1, <3>2, <3>3 DEF QueueInv
  <2>3. QED
    BY <1>0, <1>1, <1>2, <1>3, <1>4, <2>1, <2>2 DEF WriteInv
<1>5. CASE wqueue[1] = Closing
  <2>1. writingState = "closed" /\ js # "sending" /\ Len(wqueue) = 1
    BY <1>0, <1>2, <1>3, <1>5 DEF QueueInv, ClosingIsLast
  <2>2. sent = written
    BY <1>0, <1>1, <1>3, <2>1 DEF QueueInv, InPlace, UpToLast, ClosingIsLast, Taken
  <2>3. wqueue' = <<>>
    BY <1>0, <1>2, <2>1 DEF Handoff
  <2>4. QED
    BY <1>0, <1>1, <1>2, <1>3, <1>5, <2>1, <2>2, <2>3 DEF WriteInv
<1>6. QED
  BY <1>4, <1>5

LEMMA WriteSender ==
    ASSUME TypeOK, WriteInv, ThreadsInv,
           QueueExit \/ SenderExit \/ SendOK \/ SendEOF \/ SendFails \/ SendClose
    PROVE  WriteInv'
<1> USE DEF Closing
<1>0. /\ written \in Nat /\ sent \in Nat /\ wqueue \in Seq(Nat)
      /\ writingState \in {"opened", "closed"} /\ closeSent \in BOOLEAN
  BY DEF TypeOK
<1>1. /\ UNCHANGED <<js, out, writingState, written>>
      /\ js # "off"
  BY DEF QueueExit, SenderExit, SendOK, SendEOF, SendFails, SendClose, jsVars, ThreadsInv
<1>2. CASE QueueExit
  BY <1>0, <1>1, <1>2 DEF QueueExit, WriteInv
<1>3. CASE SenderExit
  BY <1>0, <1>1, <1>3 DEF SenderExit, WriteInv
<1>4. CASE SendOK
  <2>1. /\ ws = "sending" /\ held # Closing /\ sent' = sent + 1 /\ ws' = "ready"
        /\ UNCHANGED <<wq, wqueue, closeSent>> /\ ~closeSent
    BY <1>4 DEF SendOK, WriteInv
  <2>2. QueueInv => QueueInv'
    BY <1>0, <1>1, <2>1 DEF QueueInv, InPlace, UpToLast, ClosingIsLast, Taken
  <2>3. QED
    BY <1>0, <1>1, <2>1, <2>2 DEF WriteInv
<1>5. CASE SendEOF \/ SendFails
  BY <1>0, <1>1, <1>5 DEF SendEOF, SendFails, SenderReturns, WriteInv
<1>6. CASE SendClose
  BY <1>0, <1>1, <1>6 DEF SendClose, SenderReturns, WriteInv
<1>7. QED
  BY <1>2, <1>3, <1>4, <1>5, <1>6

LEMMA WriteStep ==
    ASSUME TypeOK, ThreadsInv, WriteInv, [Next]_vars
    PROVE  WriteInv'
<1>1. CASE Constructor \/ Script
  BY <1>1, WriteScript
<1>2. CASE Writer
  BY <1>2, WriteReceives, WriteHandoff, WriteSender DEF Writer
<1>3. CASE Receive \/ Loop
  <2>1. UNCHANGED <<jsVars, writerVars>>
    BY <1>3 DEF Receive, RecvMessage, RecvBadMessage, RecvEnd, RecvCtx, ReaderStops,
                Loop, LoopCtxDone, LoopDone, LoopClose
  <2>2. js # "off"
    BY <1>3 DEF ThreadsInv, Receive, RecvMessage, RecvBadMessage, RecvEnd, RecvCtx,
                Loop, LoopCtxDone, LoopDone, LoopClose
  <2>3. QED
    BY <2>1, <2>2, WriteFrame DEF jsVars
<1>4. CASE EventLoop
  <2>1. UNCHANGED <<out, writingState, written, writerVars>>
    BY <1>4 DEF EventLoop, RunTask, RunData, RunClose, RunEnd, CloseQueuesEnd,
                ListenerEnds, ListenerReturns, DataListenerThrows, OtherListenerThrows,
                taskUnchanged
  <2>2. js \in {"idle", "closing", "listener"}
    BY <1>4 DEF EventLoop, RunTask, RunData, RunClose, RunEnd, CloseQueuesEnd,
                ListenerEnds, ListenerReturns, DataListenerThrows, OtherListenerThrows
  <2>3. js' \in {"idle", "closing", "listener"}
    BY <1>4 DEF EventLoop, RunTask, RunData, RunClose, RunEnd, CloseQueuesEnd,
                ListenerEnds, ListenerReturns, DataListenerThrows, OtherListenerThrows,
                CloseWithError, Dispatch
  <2>4. QED
    BY <2>1, <2>2, <2>3, WriteFrame
<1>5. CASE Env
  BY <1>5, WriteFrame DEF Env, jsVars
<1>6. CASE UNCHANGED vars
  BY <1>6 DEF vars, jsVars, writerVars, WriteInv, QueueInv, InPlace, UpToLast, ClosingIsLast, Taken
<1>7. QED
  BY <1>1, <1>2, <1>3, <1>4, <1>5, <1>6 DEF Next, Stutter

LEMMA Writes == Spec => []WriteInv
  BY WriteInit, WriteStep, TypeCorrect, Threads, PTL DEF Spec

\* end() never overtakes a write: at CloseSend every written message has been
\* sent, for any number of messages.
THEOREM HalfCloseLast == Spec => []HalfCloseIsLast
<1>1. WriteInv => HalfCloseIsLast
  BY DEF WriteInv, HalfCloseIsLast
<1>2. QED
  BY <1>1, Writes, PTL

\* Messages are sent in the order of the write calls, without a gap.
THEOREM SendsInOrder == Spec => SentInOrder
<1>1. TypeOK /\ WriteInv /\ [Next]_vars => [sent' # sent => sent' = sent + 1]_sent
  <2> SUFFICES ASSUME TypeOK, WriteInv, [Next]_vars, sent' # sent
               PROVE  sent' = sent + 1
    OBVIOUS
  <2> USE DEF writerVars
  <2>1. SendOK
    BY DEF Next, Constructor, Begin, BeginFails, Script, ScriptTurn, ScriptReturns, Write,
           End, On, Writer, QueueReceives, Handoff, QueueExit, SenderExit, SendEOF,
           SendFails, SendClose, Receive, RecvMessage, RecvBadMessage, RecvEnd, RecvCtx,
           ReaderStops, Loop, LoopCtxDone, LoopDone, LoopClose, EventLoop, RunTask,
           RunData, RunClose, RunEnd, CloseQueuesEnd, ListenerEnds, ListenerReturns,
           DataListenerThrows, OtherListenerThrows, taskUnchanged, Env, Stutter, vars
  <2>2. QED
    BY <2>1 DEF SendOK, WriteInv
<1>2. QED
  BY <1>1, TypeCorrect, Writes, PTL DEF Spec, SentInOrder

-----------------------------------------------------------------------------
(* The way of a server message to the data listeners *)

IsData(i) == tasks[i].kind = "data"

\* The data tasks that wait are those of the messages after dataSeen up to
\* received, in their order.
DataRange == \A i \in 1..Len(tasks) :
    IsData(i) => dataSeen < tasks[i].msg /\ tasks[i].msg <= received
DataOrder == \A i, j \in 1..Len(tasks) :
    IsData(i) /\ IsData(j) /\ i < j => tasks[i].msg < tasks[j].msg
DataComplete == \A m \in Nat : dataSeen < m /\ m <= received =>
    \E i \in 1..Len(tasks) : IsData(i) /\ tasks[i].msg = m

\* What it means that the reader has stopped with the error e: it queues
\* nothing more, and io.EOF comes after the last message.
Stopped(e) ==
    /\ rd = "exited"
    /\ e = "EOF" => srv # "open" /\ received = arrived

\* The reader's error is queued behind its data, and takes effect after it.
ReaderLast == \A i \in 1..Len(tasks) :
    tasks[i].kind = "close" /\ tasks[i].err \in ReaderErrs
        => /\ Stopped(tasks[i].err)
           /\ \A j \in 1..Len(tasks) : IsData(j) => j < i
CauseInv ==
    /\ done <=> cause # "nil"
    /\ cause \in ReaderErrs
        => Stopped(cause) /\ \A j \in 1..Len(tasks) : ~IsData(j)

ReadInv ==
    /\ dataSeen <= received /\ received <= arrived
    /\ DataRange /\ DataOrder /\ DataComplete
    /\ ReaderLast /\ CauseInv

LEMMA ReadInit == Init => ReadInv
  BY DEF Init, TQInit, RawInit, ReadInv, DataRange, DataOrder, DataComplete, ReaderLast,
         CauseInv, ReaderErrs

\* ReadInv speaks of these variables only.
LEMMA ReadFrame ==
    ASSUME ReadInv, UNCHANGED <<tasks, arrived, received, srv, rd, dataSeen, done, cause>>
    PROVE  ReadInv'
  BY DEF ReadInv, DataRange, DataOrder, DataComplete, ReaderLast, CauseInv, Stopped, IsData

\* Queueing a task that is neither data nor a reader's error.
LEMMA ReadQueue ==
    ASSUME TypeOK, ReadInv, NEW t \in Task, Queue(t), t.kind # "data",
           t.kind = "close" => t.err \notin ReaderErrs,
           UNCHANGED <<arrived, received, srv, rd, dataSeen, done, cause>>
    PROVE  ReadInv'
<1>0. tasks \in Seq(Task) /\ tqClosed \in BOOLEAN /\ Len(tasks) \in Nat
  BY DEF TypeOK
<1>1. CASE tasks' = tasks
  BY <1>1, ReadFrame
<1>2. CASE /\ Len(tasks') = Len(tasks) + 1
           /\ \A i \in 1..Len(tasks) : tasks'[i] = tasks[i]
           /\ tasks'[Len(tasks) + 1] = t
  <2>1. \A i \in 1..Len(tasks') : IsData(i)' => i \in 1..Len(tasks) /\ IsData(i)
    BY <1>0, <1>2 DEF IsData
  <2>2. DataRange'
    BY <1>2, <2>1 DEF ReadInv, DataRange
  <2>3. DataOrder'
    BY <1>2, <2>1 DEF ReadInv, DataOrder
  <2>4. DataComplete'
    BY <1>0, <1>2 DEF ReadInv, DataComplete, IsData
  <2>5. ReaderLast'
    BY <1>0, <1>2, <2>1 DEF ReadInv, ReaderLast, Stopped
  <2>6. CauseInv'
    BY <2>1 DEF ReadInv, CauseInv, Stopped
  <2>7. QED
    BY <2>2, <2>3, <2>4, <2>5, <2>6 DEF ReadInv
<1>3. QED
  BY <1>0, <1>1, <1>2, QueueEffect

\* The reader queues the next message.
LEMMA ReadMessage ==
    ASSUME TypeOK, ThreadsInv, ReadInv, RecvMessage
    PROVE  ReadInv'
<1> DEFINE t == DataTask(received + 1)
<1>0. /\ tasks \in Seq(Task) /\ tqClosed \in BOOLEAN /\ Len(tasks) \in Nat
      /\ received \in Nat /\ arrived \in Nat /\ dataSeen \in Nat /\ t \in Task
  BY TaskTypes DEF TypeOK
<1>1. /\ rd = "run" /\ received < arrived /\ received' = received + 1 /\ Queue(t)
      /\ UNCHANGED <<arrived, srv, rd, dataSeen, done, cause>>
  BY DEF RecvMessage, eventVars
<1>2. ~tqClosed
  BY <1>1, QueueIsOpen
<1>3. /\ Len(tasks') = Len(tasks) + 1
      /\ \A i \in 1..Len(tasks) : tasks'[i] = tasks[i]
      /\ tasks'[Len(tasks) + 1] = t
  BY <1>0, <1>1, <1>2, QueueAdds
<1>4. t.kind = "data" /\ t.msg = received + 1
  BY DEF DataTask
<1> HIDE DEF t
<1>a. \A i \in 1..Len(tasks) : tasks[i].msg \in Nat
  <2>1. \A i \in 1..Len(tasks) : tasks[i] \in Task
    BY <1>0
  <2>2. QED
    BY <2>1 DEF Task
<1>b. \A i \in 1..Len(tasks') : i # Len(tasks) + 1 => i \in 1..Len(tasks) /\ (IsData(i)' <=> IsData(i))
  BY <1>0, <1>3 DEF IsData
<1>c. /\ dataSeen <= received
      /\ \A i \in 1..Len(tasks) :
            IsData(i) => dataSeen < tasks[i].msg /\ tasks[i].msg <= received
  BY DEF ReadInv, DataRange
<1>5. DataRange'
  <2> SUFFICES ASSUME NEW i \in 1..Len(tasks'), IsData(i)'
               PROVE  dataSeen < tasks'[i].msg /\ tasks'[i].msg <= received + 1
    BY <1>1 DEF DataRange
  <2>1. CASE i = Len(tasks) + 1
    BY <1>0, <1>3, <1>4, <1>c, <2>1
  <2>2. CASE i # Len(tasks) + 1
    BY <1>0, <1>3, <1>a, <1>b, <1>c, <2>2
  <2>3. QED
    BY <2>1, <2>2
<1>6. DataOrder'
  <2> SUFFICES ASSUME NEW i \in 1..Len(tasks'), NEW j \in 1..Len(tasks'),
                      IsData(i)', IsData(j)', i < j
               PROVE  tasks'[i].msg < tasks'[j].msg
    BY DEF DataOrder
  <2>1. i \in 1..Len(tasks) /\ IsData(i) /\ tasks'[i] = tasks[i]
    BY <1>0, <1>3, <1>b
  <2>2. CASE j = Len(tasks) + 1
    BY <1>0, <1>3, <1>4, <1>a, <1>c, <2>1, <2>2
  <2>3. CASE j # Len(tasks) + 1
    BY <1>0, <1>3, <1>b, <2>1, <2>3 DEF ReadInv, DataOrder
  <2>4. QED
    BY <2>2, <2>3
<1>7. DataComplete'
  <2> SUFFICES ASSUME NEW m \in Nat, dataSeen < m, m <= received + 1
               PROVE  \E i \in 1..Len(tasks') : IsData(i)' /\ tasks'[i].msg = m
    BY <1>1 DEF DataComplete
  <2>1. CASE m = received + 1
    BY <1>0, <1>3, <1>4, <2>1 DEF IsData
  <2>2. CASE m <= received
    BY <1>0, <1>3, <2>2 DEF ReadInv, DataComplete, IsData
  <2>3. QED
    BY <1>0, <2>1, <2>2
<1>8. ReaderLast' /\ CauseInv'
  BY <1>0, <1>1, <1>3, <1>4 DEF ReadInv, ReaderLast, CauseInv, Stopped
<1>9. QED
  BY <1>0, <1>1, <1>5, <1>6, <1>7, <1>8 DEF ReadInv

\* The reader queues its error and stops.
LEMMA ReadStops ==
    ASSUME TypeOK, ThreadsInv, ReadInv, NEW e \in ReaderErrs, ReaderStops(e), rd = "run",
           UNCHANGED received, e = "EOF" => srv # "open" /\ received = arrived
    PROVE  ReadInv'
<1> DEFINE t == CloseTask(e)
<1>0. /\ tasks \in Seq(Task) /\ tqClosed \in BOOLEAN /\ Len(tasks) \in Nat /\ t \in Task
  <2>1. t \in Task
    BY TaskTypes DEF Errs
  <2>2. QED
    BY <2>1 DEF TypeOK
<1>1. /\ rd' = "exited" /\ Queue(t)
      /\ UNCHANGED <<arrived, received, srv, dataSeen, done, cause>>
  BY DEF ReaderStops, eventVars
<1>2. ~tqClosed
  BY QueueIsOpen
<1>3. /\ Len(tasks') = Len(tasks) + 1
      /\ \A i \in 1..Len(tasks) : tasks'[i] = tasks[i]
      /\ tasks'[Len(tasks) + 1] = t
  BY <1>0, <1>1, <1>2, QueueAdds
<1>4. t.kind = "close" /\ t.err = e
  BY DEF CloseTask
<1>5. \A i \in 1..Len(tasks') : IsData(i)' => i \in 1..Len(tasks) /\ IsData(i)
  BY <1>0, <1>3, <1>4 DEF IsData
<1>6. DataRange' /\ DataOrder'
  BY <1>1, <1>3, <1>5 DEF ReadInv, DataRange, DataOrder
<1>7. DataComplete'
  BY <1>0, <1>1, <1>3 DEF ReadInv, DataComplete, IsData
<1>8. ReaderLast'
  <2> SUFFICES ASSUME NEW i \in 1..Len(tasks'),
                      tasks'[i].kind = "close", tasks'[i].err \in ReaderErrs
               PROVE  /\ Stopped(tasks[i].err)'
                      /\ \A j \in 1..Len(tasks') : IsData(j)' => j < i
    BY DEF ReaderLast
  <2>1. CASE i \in 1..Len(tasks)
    BY <1>3, <2>1 DEF ReadInv, ReaderLast, Stopped
  <2>2. CASE i = Len(tasks) + 1
    BY <1>0, <1>1, <1>3, <1>4, <1>5, <2>2 DEF Stopped
  <2>3. QED
    BY <1>0, <1>3, <2>1, <2>2
<1>9. CauseInv'
  BY <1>1 DEF ReadInv, CauseInv, Stopped
<1>10. QED
  BY <1>1, <1>6, <1>7, <1>8, <1>9 DEF ReadInv

LEMMA ReadReceive ==
    ASSUME TypeOK, ThreadsInv, ReadInv, Receive
    PROVE  ReadInv'
<1>1. CASE RecvMessage
  BY <1>1, ReadMessage
<1>2. CASE RecvBadMessage
  BY <1>2, ReadStops DEF RecvBadMessage, ReaderErrs
<1>3. CASE RecvEnd
  <2>1. EndErrs(srv) \subseteq ReaderErrs
    BY DEF EndErrs, ReaderErrs
  <2>2. QED
    BY <1>3, <2>1, ReadStops DEF RecvEnd
<1>4. CASE RecvCtx
  BY <1>4, ReadStops DEF RecvCtx, ReaderErrs
<1>5. QED
  BY <1>1, <1>2, <1>3, <1>4 DEF Receive

\* The first data task is that of the next message.
LEMMA NextData ==
    ASSUME TypeOK, ReadInv, Take("data")
    PROVE  tasks[1].msg = dataSeen + 1 /\ tasks[1].msg \in Nat
<1>0. /\ tasks \in Seq(Task) /\ Len(tasks) \in Nat /\ Len(tasks) > 0 /\ IsData(1)
      /\ dataSeen \in Nat /\ received \in Nat
  BY TakeEffect DEF TypeOK, IsData
<1>1. tasks[1] \in Task
  BY <1>0
<1>2. tasks[1].msg \in Nat
  BY <1>1 DEF Task
<1>3. dataSeen < tasks[1].msg /\ tasks[1].msg <= received
  BY <1>0 DEF ReadInv, DataRange
<1>4. PICK i \in 1..Len(tasks) : IsData(i) /\ tasks[i].msg = dataSeen + 1
  BY <1>0, <1>2, <1>3 DEF ReadInv, DataComplete
<1>5. i = 1 \/ tasks[1].msg < tasks[i].msg
  BY <1>0, <1>4 DEF ReadInv, DataOrder
<1>6. QED
  BY <1>0, <1>2, <1>3, <1>4, <1>5

\* Taking a task: what is left is right for the dataSeen that results.
LEMMA ReadTake ==
    ASSUME TypeOK, ReadInv, NEW kind, Take(kind),
           dataSeen' = IF kind = "data" THEN tasks[1].msg ELSE dataSeen,
           UNCHANGED <<arrived, received, srv, rd>>
    PROVE  /\ dataSeen' <= received' /\ received' <= arrived'
           /\ DataRange' /\ DataOrder' /\ DataComplete' /\ ReaderLast'
<1>0. /\ tasks \in Seq(Task) /\ Len(tasks) \in Nat /\ Len(tasks) > 0
      /\ dataSeen \in Nat /\ received \in Nat /\ arrived \in Nat
  BY TakeEffect DEF TypeOK
<1>1. /\ Len(tasks') = Len(tasks) - 1
      /\ \A i \in 1..Len(tasks') : tasks'[i] = tasks[i + 1] /\ i + 1 \in 1..Len(tasks)
      /\ tasks[1].kind = kind
  BY <1>0, TakeEffect
<1>2. \A i \in 1..Len(tasks') : IsData(i)' <=> IsData(i + 1)
  BY <1>1 DEF IsData
<1>3. kind = "data" => tasks[1].msg = dataSeen + 1 /\ IsData(1)
  BY <1>1, NextData DEF IsData
<1>4. \A i \in 1..Len(tasks) : tasks[i].msg \in Nat
  <2>1. \A i \in 1..Len(tasks) : tasks[i] \in Task
    BY <1>0
  <2>2. QED
    BY <2>1 DEF Task
<1>5. dataSeen' <= received' /\ received' <= arrived'
  BY <1>0, <1>3 DEF ReadInv, DataRange
<1>6. DataRange'
  <2>1. ASSUME NEW i \in 1..Len(tasks'), IsData(i)'
        PROVE  dataSeen' < tasks'[i].msg /\ tasks'[i].msg <= received'
    <3>1. dataSeen < tasks[i + 1].msg /\ tasks[i + 1].msg <= received
      BY <1>1, <1>2, <2>1 DEF ReadInv, DataRange
    <3>2. kind = "data" => tasks[1].msg < tasks[i + 1].msg
      BY <1>0, <1>1, <1>2, <1>3, <2>1 DEF ReadInv, DataOrder
    <3>3. QED
      BY <1>1, <3>1, <3>2
  <2>2. QED
    BY <2>1 DEF DataRange
<1>7. DataOrder'
  <2>1. ASSUME NEW i \in 1..Len(tasks'), NEW j \in 1..Len(tasks'),
               IsData(i)', IsData(j)', i < j
        PROVE  tasks'[i].msg < tasks'[j].msg
    BY <1>0, <1>1, <1>2, <2>1 DEF ReadInv, DataOrder
  <2>2. QED
    BY <2>1 DEF DataOrder
<1>8. DataComplete'
  <2> SUFFICES ASSUME NEW m \in Nat, dataSeen' < m, m <= received
               PROVE  \E i \in 1..Len(tasks') : IsData(i)' /\ tasks'[i].msg = m
    BY DEF DataComplete
  <2>1. PICK i \in 1..Len(tasks) : IsData(i) /\ tasks[i].msg = m
    BY <1>0, <1>3 DEF ReadInv, DataComplete
  <2>2. i # 1
    BY <1>0, <1>1, <1>3, <2>1 DEF IsData
  <2>3. i - 1 \in 1..Len(tasks') /\ (i - 1) + 1 = i
    BY <1>0, <1>1, <2>2
  <2>4. tasks'[i - 1] = tasks[i]
    BY <1>1, <2>3
  <2>5. QED
    BY <2>1, <2>3, <2>4 DEF IsData
<1>9. ReaderLast'
  <2> SUFFICES ASSUME NEW i \in 1..Len(tasks'),
                      tasks'[i].kind = "close", tasks'[i].err \in ReaderErrs
               PROVE  /\ Stopped(tasks[i].err)'
                      /\ \A j \in 1..Len(tasks') : IsData(j)' => j < i
    BY DEF ReaderLast
  <2>1. /\ Stopped(tasks[i + 1].err)
        /\ \A j \in 1..Len(tasks) : IsData(j) => j < i + 1
    BY <1>1 DEF ReadInv, ReaderLast
  <2>2. \A j \in 1..Len(tasks') : IsData(j)' => j < i
    BY <1>0, <1>1, <1>2, <2>1
  <2>3. QED
    BY <1>1, <2>1, <2>2 DEF Stopped
<1>10. QED
  BY <1>5, <1>6, <1>7, <1>8, <1>9

\* A close that sets the cause: the task at the head was the reader's, or the
\* error is one of the client's side.
LEMMA ReadCause ==
    ASSUME TypeOK, ReadInv, NEW e \in Errs, NEW fails \in BOOLEAN,
           CloseWithError(e, fails), UNCHANGED <<arrived, received, srv, rd>>,
           \A i \in 1..Len(tasks') : IsData(i)' => \E j \in 1..Len(tasks) : IsData(j),
           e \in ReaderErrs
               => Stopped(e) /\ \A i \in 1..Len(tasks') : ~IsData(i)'
    PROVE  CauseInv'
<1>1. done \in BOOLEAN /\ cause \in Errs
  BY DEF TypeOK
<1>2. CASE e # "nil" /\ ~done /\ done' = TRUE /\ cause' = e
  BY <1>2 DEF CauseInv, Stopped
<1>3. CASE UNCHANGED <<done, cause>>
  BY <1>3 DEF ReadInv, CauseInv, Stopped
<1>4. QED
  BY <1>2, <1>3 DEF CloseWithError

LEMMA ReadRunTask ==
    ASSUME TypeOK, ReadInv, RunTask
    PROVE  ReadInv'
<1>0. tasks \in Seq(Task) /\ tasks # <<>> => Head(tasks) = tasks[1]
  OBVIOUS
<1>1. PICK kind \in {"data", "close", "end"} :
    /\ Take(kind)
    /\ dataSeen' = (IF kind = "data" THEN tasks[1].msg ELSE dataSeen)
    /\ UNCHANGED <<arrived, received, srv, rd>>
    /\ kind = "close" => CloseWithError(tasks[1].err, FALSE)
    /\ kind # "close" => UNCHANGED <<done, cause>>
  BY <1>0 DEF RunTask, RunData, RunClose, RunEnd, taskUnchanged, eventVars, Take, TypeOK
<1>2. /\ dataSeen' <= received' /\ received' <= arrived'
      /\ DataRange' /\ DataOrder' /\ DataComplete' /\ ReaderLast'
  BY <1>1, ReadTake
<1>3. /\ Len(tasks') = Len(tasks) - 1 /\ Len(tasks) \in Nat /\ Len(tasks) > 0
      /\ \A i \in 1..Len(tasks') : tasks'[i] = tasks[i + 1] /\ i + 1 \in 1..Len(tasks)
      /\ tasks[1].kind = kind
  <2>1. tasks \in Seq(Task) /\ Take(kind)
    BY <1>1 DEF TypeOK
  <2>2. /\ Len(tasks') = Len(tasks) - 1 /\ Len(tasks) > 0 /\ tasks[1].kind = kind
        /\ \A i \in 1..Len(tasks') : tasks'[i] = tasks[i + 1]
    BY <2>1, TakeEffect
  <2>3. Len(tasks) \in Nat
    BY <2>1
  <2>4. QED
    BY <2>2, <2>3
<1>4. \A i \in 1..Len(tasks') : IsData(i)' => i + 1 \in 1..Len(tasks) /\ IsData(i + 1)
  BY <1>3 DEF IsData
<1>5. CauseInv'
  <2>1. CASE kind # "close"
    BY <1>1, <1>4, <2>1 DEF ReadInv, CauseInv, Stopped
  <2>2. CASE kind = "close"
    <3>1. tasks[1].err \in Errs
      <4>1. tasks \in Seq(Task)
        BY DEF TypeOK
      <4>2. tasks[1] \in Task
        BY <1>3, <4>1
      <4>3. QED
        BY <4>2 DEF Task
    <3>2. tasks[1].err \in ReaderErrs
            => /\ Stopped(tasks[1].err)
               /\ \A i \in 1..Len(tasks) : ~IsData(i)
      <4>1. ASSUME tasks[1].err \in ReaderErrs
            PROVE  /\ Stopped(tasks[1].err)
                   /\ \A j \in 1..Len(tasks) : IsData(j) => j < 1
        BY <1>3, <2>2, <4>1 DEF ReadInv, ReaderLast
      <4>2. QED
        BY <1>3, <4>1
    <3>3. QED
      BY <1>1, <1>4, <2>2, <3>1, <3>2, ReadCause
  <2>3. QED
    BY <2>1, <2>2
<1>6. QED
  BY <1>2, <1>5 DEF ReadInv

\* A data listener that throws: the cause is none of the reader's.
LEMMA ReadThrows ==
    ASSUME TypeOK, ReadInv, DataListenerThrows
    PROVE  ReadInv'
<1>1. /\ CloseWithError("Thrown", TRUE)
      /\ UNCHANGED <<tasks, arrived, received, srv, rd, dataSeen>>
  BY DEF DataListenerThrows, tqVars, taskUnchanged, eventVars
<1>2. "Thrown" \in Errs /\ "Thrown" \notin ReaderErrs
  BY DEF Errs, LocalErrs, ReaderErrs
<1>3. \A i \in 1..Len(tasks') : IsData(i)' => \E j \in 1..Len(tasks) : IsData(j)
  BY <1>1 DEF IsData
<1>4. CauseInv'
  BY <1>1, <1>2, <1>3, ReadCause
<1>5. QED
  BY <1>1, <1>4 DEF ReadInv, DataRange, DataOrder, DataComplete, ReaderLast, Stopped, IsData

\* The server sends only while the RPC is open, when nothing is known of EOF.
LEMMA ReadEnv ==
    ASSUME TypeOK, ReadInv, Env
    PROVE  ReadInv'
<1>1. /\ UNCHANGED <<tasks, received, rd, dataSeen, done, cause>>
      /\ \/ srv = "open" /\ arrived' = arrived + 1 /\ UNCHANGED srv
         \/ UNCHANGED arrived /\ (srv # "open" => srv' = srv)
      /\ arrived \in Nat /\ received \in Nat
  BY DEF TypeOK, Env, tqVars, eventVars, ServerSends, ServerFinishes, VUCancelled,
         DeadlineExpires
<1>2. received' <= arrived'
  BY <1>1 DEF ReadInv
<1>3. \A e : Stopped(e) => Stopped(e)'
  <2>1. ASSUME NEW e, Stopped(e)
        PROVE  Stopped(e)'
    <3>1. CASE e # "EOF"
      BY <1>1, <2>1, <3>1 DEF Stopped
    <3>2. CASE e = "EOF"
      <4>1. srv # "open" /\ received = arrived
        BY <2>1, <3>2 DEF Stopped
      <4>2. srv' = srv /\ arrived' = arrived
        BY <1>1, <4>1
      <4>3. QED
        BY <1>1, <2>1, <4>1, <4>2 DEF Stopped
    <3>3. QED
      BY <3>1, <3>2
  <2>2. QED
    BY <2>1
<1>4. ReaderLast' /\ CauseInv'
  BY <1>1, <1>3 DEF ReadInv, ReaderLast, CauseInv, IsData
<1>5. QED
  BY <1>1, <1>2, <1>4 DEF ReadInv, DataRange, DataOrder, DataComplete, IsData

LEMMA ReadStep ==
    ASSUME TypeOK, ThreadsInv, ReadInv, [Next]_vars
    PROVE  ReadInv'
<1> DEFINE Same == UNCHANGED <<tasks, arrived, received, srv, rd, dataSeen, done, cause>>
<1>1. CASE Begin
  \* No reader ran before it, so that nothing has been queued.
  <2>1. /\ rd = "off" /\ UNCHANGED <<tasks, arrived, received, srv, dataSeen, done, cause>>
    BY <1>1 DEF Begin, ThreadsInv, tqVars, rawVars, eventVars
  <2>2. \A e : ~Stopped(e)
    BY <2>1 DEF Stopped
  <2>3. ReaderLast' /\ CauseInv'
    BY <2>1, <2>2 DEF ReadInv, ReaderLast, CauseInv, IsData
  <2>4. QED
    BY <2>1, <2>3 DEF ReadInv, DataRange, DataOrder, DataComplete, IsData
<1>2. CASE BeginFails \/ Script
  <2>1. Same
    BY <1>2 DEF BeginFails, CloseQueue, Script, ScriptTurn, ScriptReturns, Write, End, On,
           tqVars, rawVars, eventVars
  <2>2. QED
    BY <2>1, ReadFrame
<1>3. CASE Writer
  <2>1. CASE QueueReceives \/ Handoff \/ QueueExit \/ SenderExit \/ SendOK
    <3>1. Same
      BY <2>1 DEF QueueReceives, Handoff, QueueExit, SenderExit, SendOK,
             tqVars, rawVars, eventVars
    <3>2. QED
      BY <3>1, ReadFrame
  <2>2. CASE SendEOF \/ SendFails \/ SendClose
    <3>1. PICK e \in {"nil", "Send"} : Queue(CloseTask(e))
      BY <2>2 DEF SendEOF, SendFails, SendClose
    <3>2. UNCHANGED <<arrived, received, srv, rd, dataSeen, done, cause>>
      BY <2>2 DEF SendEOF, SendFails, SendClose, rawVars, eventVars
    <3>3. CloseTask(e) \in Task
      BY TaskTypes DEF Errs, LocalErrs
    <3>4. CloseTask(e).kind # "data" /\ CloseTask(e).err \notin ReaderErrs
      BY DEF CloseTask, ReaderErrs
    <3>5. QED
      BY <3>1, <3>2, <3>3, <3>4, ReadQueue
  <2>3. QED
    BY <1>3, <2>1, <2>2 DEF Writer
<1>4. CASE Receive
  BY <1>4, ReadReceive
<1>5. CASE Loop
  <2>1. CASE LoopCtxDone
    <3>1. /\ Queue(CloseTask("nil"))
          /\ UNCHANGED <<arrived, received, srv, rd, dataSeen, done, cause>>
      BY <2>1 DEF LoopCtxDone, rawVars, eventVars
    <3>2. CloseTask("nil") \in Task
      BY TaskTypes DEF Errs
    <3>3. CloseTask("nil").kind # "data" /\ CloseTask("nil").err \notin ReaderErrs
      BY DEF CloseTask, ReaderErrs
    <3>4. QED
      BY <3>1, <3>2, <3>3, ReadQueue
  <2>2. CASE LoopDone \/ LoopClose
    <3>1. Same
      BY <2>2 DEF LoopDone, LoopClose, CloseQueue, tqVars, rawVars, eventVars
    <3>2. QED
      BY <3>1, ReadFrame
  <2>3. QED
    BY <1>5, <2>1, <2>2 DEF Loop
<1>6. CASE RunTask
  BY <1>6, ReadRunTask
<1>7. CASE CloseQueuesEnd
  <2>1. Queue(EndTask) /\ UNCHANGED <<arrived, received, srv, rd, dataSeen, done, cause>>
    BY <1>7 DEF CloseQueuesEnd, taskUnchanged, eventVars
  <2>2. EndTask.kind = "end"
    BY DEF EndTask
  <2>3. QED
    BY <2>1, <2>2, TaskTypes, ReadQueue
<1>8. CASE DataListenerThrows
  BY <1>8, ReadThrows
<1>9. CASE ListenerReturns \/ OtherListenerThrows
  <2>1. Same
    BY <1>9 DEF ListenerReturns, OtherListenerThrows, tqVars, taskUnchanged, eventVars
  <2>2. QED
    BY <2>1, ReadFrame
<1>10. CASE Env
  BY <1>10, ReadEnv
<1>11. CASE UNCHANGED vars
  <2>1. Same
    BY <1>11 DEF vars, tqVars, rawVars, eventVars
  <2>2. QED
    BY <2>1, ReadFrame
<1>12. QED
  BY <1>1, <1>2, <1>3, <1>4, <1>5, <1>6, <1>7, <1>8, <1>9, <1>10, <1>11
     DEF Next, Constructor, EventLoop, ListenerEnds, Stutter

LEMMA Reads == Spec => []ReadInv
<1>1. QED
  BY ReadInit, ReadStep, TypeCorrect, Threads, PTL DEF Spec

\* Only the task at the head changes dataSeen, and it is a data task.
LEMMA DataSeenStep ==
    ASSUME TypeOK, [Next]_vars, dataSeen' # dataSeen
    PROVE  Take("data") /\ dataSeen' = tasks[1].msg
<1>1. CASE RunData
  BY <1>1 DEF RunData, Take
<1>2. CASE ~RunData
  BY <1>2 DEF Next, Constructor, Begin, BeginFails, Script, ScriptTurn, ScriptReturns,
         Write, End, On, Writer, QueueReceives, Handoff, QueueExit, SenderExit, SendOK,
         SendEOF, SendFails, SendClose, Receive, RecvMessage, RecvBadMessage, RecvEnd,
         RecvCtx, ReaderStops, Loop, LoopCtxDone, LoopDone, LoopClose, EventLoop, RunTask,
         RunClose, RunEnd, CloseQueuesEnd, ListenerEnds, ListenerReturns,
         DataListenerThrows, OtherListenerThrows, eventVars, Env, Stutter, vars
<1>3. QED
  BY <1>1, <1>2

\* The data listeners see the server's messages in their order, without a
\* gap and without a repetition (readData and queueMessage).
THEOREM DataOrdered == Spec => DataInOrder
<1>1. TypeOK /\ ReadInv /\ [Next]_vars => [dataSeen' # dataSeen => dataSeen' = dataSeen + 1]_dataSeen
  BY DataSeenStep, NextData
<1>2. QED
  BY <1>1, TypeCorrect, Reads, PTL DEF Spec, DataInOrder

\* When the server has ended the RPC well, every message it sent has reached
\* the data listeners before the end event does (readData, close).
THEOREM DataBeforeEnd == Spec => []AllDataBeforeEnd
<1>1. TypeOK /\ ReadInv => AllDataBeforeEnd
  <2> SUFFICES ASSUME TypeOK, ReadInv, cause = "EOF"
               PROVE  dataSeen = arrived
    BY DEF AllDataBeforeEnd
  <2>1. arrived \in Nat /\ received \in Nat /\ dataSeen \in Nat
    BY DEF TypeOK
  <2>2. received = arrived /\ dataSeen <= received
    BY DEF ReadInv, CauseInv, Stopped, ReaderErrs
  <2>3. \A i \in 1..Len(tasks) : ~IsData(i)
    BY DEF ReadInv, CauseInv, ReaderErrs
  <2>4. ~(dataSeen < received)
    BY <2>1, <2>3 DEF ReadInv, DataComplete
  <2>5. QED
    BY <2>1, <2>2, <2>4
<1>2. QED
  BY <1>1, TypeCorrect, Reads, PTL

\* After the end event a data event can come only when the stream was closed
\* on the client's side (close called for a failed Send or a thrown error).
THEOREM LateDataLocal == Spec => DataAfterEndIsLocal
<1>1. TypeOK /\ EndInv /\ ReadInv /\ [Next]_vars
        => [dataSeen' # dataSeen /\ endRuns > 0 => cause \in LocalErrs]_dataSeen
  <2> SUFFICES ASSUME TypeOK, EndInv, ReadInv, [Next]_vars, dataSeen' # dataSeen, endRuns > 0
               PROVE  cause \in LocalErrs
    OBVIOUS
  <2>1. tasks \in Seq(Task) /\ Take("data")
    BY DataSeenStep DEF TypeOK
  <2>2. Len(tasks) \in Nat /\ Len(tasks) > 0 /\ IsData(1)
    BY <2>1, TakeEffect DEF IsData
  <2>3. cause \notin ReaderErrs
    BY <2>2 DEF ReadInv, CauseInv
  <2>4. cause # "nil"
    BY DEF EndInv, ReadInv, CauseInv, TypeOK
  <2>5. QED
    BY <2>3, <2>4 DEF TypeOK, Errs
<1>2. QED
  BY <1>1, TypeCorrect, EndTasks, Reads, PTL DEF Spec, DataAfterEndIsLocal
=============================================================================
