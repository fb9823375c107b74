------------------------ MODULE StreamProgressProofs ------------------------
(***************************************************************************)
(* Proofs about Stream: its threads never all wait with work left, and     *)
(* their steps come to an end, for any bounds, with and without timeouts   *)
(* and late calls, and whatever becomes of tasks that come too late.       *)
(***************************************************************************)
EXTENDS StreamProofs, Lemmas

-----------------------------------------------------------------------------
(* The inductive invariant *)

\* A call of closeWithError with an error waits; so does the end event.
ClosePending == \E i \in 1..Len(tasks) : tasks[i].kind = "close" /\ tasks[i].err # "nil"
EndPending == \E i \in 1..Len(tasks) : tasks[i].kind = "end"

\* What a thread that has stopped left to do is in the hands of another one.
Duties ==
    /\ lp = "exited" => tqClosed
    /\ rd = "exited" => done \/ ClosePending
    /\ ws = "exited" => done \/ Terminated \/ closeSent \/ ClosePending
    /\ done => js = "closing" \/ EndPending \/ endRuns = 1 \/ "end" \in lost
    /\ done /\ timeout => js = "closing" \/ ctx # "live"
    /\ js = "sending" => LateCalls \/ ~done
    /\ js \in {"off", "failed"} => ~done

LEMMA DutiesInit == Init => Duties
  BY DEF Init, TQInit, Duties

-----------------------------------------------------------------------------
(* The tasks that wait *)

\* Queueing a task takes none away.
LEMMA QueueKeeps ==
    ASSUME TypeOK, NEW t \in Task, Queue(t)
    PROVE  /\ ClosePending => ClosePending'
           /\ EndPending => EndPending'
           /\ lost \subseteq lost'
<1>0. tasks \in Seq(Task) /\ tqClosed \in BOOLEAN /\ Len(tasks) \in Nat
  BY DEF TypeOK
<1>1. Len(tasks') \in Nat /\ Len(tasks) <= Len(tasks')
      /\ \A i \in 1..Len(tasks) : tasks'[i] = tasks[i]
  BY <1>0, QueueEffect
<1>2. \A i \in 1..Len(tasks) : i \in 1..Len(tasks') /\ tasks'[i] = tasks[i]
  BY <1>0, <1>1
<1>3. lost \subseteq lost'
  BY DEF Queue
<1>4. QED
  BY <1>2, <1>3 DEF ClosePending, EndPending

\* An error that is queued while the queue is open waits.
LEMMA ErrorWaits ==
    ASSUME TypeOK, NEW e \in Errs, e # "nil", Queue(CloseTask(e)), ~tqClosed
    PROVE  ClosePending'
<1>0. tasks \in Seq(Task) /\ tqClosed \in BOOLEAN /\ Len(tasks) \in Nat /\ CloseTask(e) \in Task
  BY TaskTypes DEF TypeOK
<1>1. Len(tasks') = Len(tasks) + 1 /\ tasks'[Len(tasks) + 1] = CloseTask(e)
  BY <1>0, QueueAdds
<1>2. Len(tasks) + 1 \in 1..Len(tasks')
  BY <1>0, <1>1
<1>3. QED
  BY <1>1, <1>2 DEF ClosePending, CloseTask

\* The end event waits once it is queued, unless it comes too late.
LEMMA EndWaits ==
    ASSUME TypeOK, Queue(EndTask)
    PROVE  EndPending' \/ "end" \in lost'
<1>0. tasks \in Seq(Task) /\ tqClosed \in BOOLEAN /\ Len(tasks) \in Nat /\ EndTask \in Task
  BY TaskTypes DEF TypeOK
<1>1. CASE tasks' = Append(tasks, EndTask)
  <2>1. Len(tasks) + 1 \in 1..Len(tasks') /\ tasks'[Len(tasks) + 1] = EndTask
    BY <1>0, <1>1
  <2>2. QED
    BY <2>1 DEF EndPending, EndTask
<1>2. CASE lost' = lost \cup {EndTask.kind}
  BY <1>2 DEF EndTask
<1>3. QED
  BY <1>1, <1>2 DEF Queue

\* Taking a task leaves the others.
LEMMA TakeKeeps ==
    ASSUME TypeOK, NEW kind, Take(kind)
    PROVE  /\ kind # "close" /\ ClosePending => ClosePending'
           /\ kind = "close" /\ ClosePending => Head(tasks).err # "nil" \/ ClosePending'
           /\ kind # "end" /\ EndPending => EndPending'
           /\ lost' = lost
<1>0. tasks \in Seq(Task) /\ Len(tasks) \in Nat
  BY DEF TypeOK
<1>1. /\ Len(tasks') = Len(tasks) - 1 /\ Len(tasks) > 0
      /\ \A i \in 1..Len(tasks') : tasks'[i] = tasks[i + 1]
      /\ Head(tasks) = tasks[1] /\ tasks[1].kind = kind
  BY <1>0, TakeEffect
<1>2. \A i \in 1..Len(tasks) : i = 1 \/ (i - 1 \in 1..Len(tasks') /\ tasks'[i - 1] = tasks[i])
  BY <1>0, <1>1
<1>3. \A i \in 1..Len(tasks) : i = 1 \/ \E k \in 1..Len(tasks') : tasks'[k] = tasks[i]
  BY <1>2
<1>4. lost' = lost
  BY DEF Take
<1>5. QED
  BY <1>1, <1>3, <1>4 DEF ClosePending, EndPending

-----------------------------------------------------------------------------
(* The steps *)

\* A step keeps Duties if it takes no task away and stops no thread, or hands
\* over what the thread has left to do.
LEMMA DutiesKept ==
    ASSUME Duties, UNCHANGED <<done, endRuns>>,
           done => timeout' = timeout,
           tqClosed' = tqClosed \/ tqClosed', lost \subseteq lost',
           ClosePending => ClosePending' \/ done, EndPending => EndPending',
           Terminated => Terminated', ctx # "live" => ctx' # "live",
           closeSent' = closeSent \/ closeSent',
           js = "closing" => js' = "closing", js' = "sending" => LateCalls \/ ~done,
           js' \in {"off", "failed"} => js \in {"off", "failed"},
           lp' = "exited" => lp = "exited" \/ tqClosed',
           rd' = "exited" => rd = "exited" \/ ClosePending',
           ws' = "exited" => ws = "exited" \/ done \/ Terminated' \/ closeSent' \/ ClosePending'
    PROVE  Duties'
  BY DEF Duties

LEMMA DutiesConstructor ==
    ASSUME TypeOK, ThreadsInv, Duties, Constructor \/ Script
    PROVE  Duties'
<1> USE DEF tqVars, rawVars, jsVars, writerVars, eventVars
<1>1. CASE Constructor
  <2>1. UNCHANGED <<tasks, lost, srv, ctx, closeSent, done, endRuns>> /\ js = "off" /\ ~done
    BY <1>1 DEF Constructor, Begin, BeginFails, CloseQueue, Duties
  <2>2. /\ js' \in {"script", "failed"} /\ (tqClosed' = tqClosed \/ tqClosed')
        /\ \/ lp' = lp /\ rd' = rd /\ ws' = ws
           \/ lp' = "select" /\ rd' = "run" /\ ws' = "ready"
    BY <1>1 DEF Constructor, Begin, BeginFails, CloseQueue
  <2>3. QED
    BY <2>1, <2>2, DutiesKept DEF ClosePending, EndPending, Terminated
<1>2. CASE Script
  <2>1. UNCHANGED <<tasks, lost, tqClosed, lp, rd, ws, srv, ctx, closeSent, done, endRuns,
                    timeout>>
    BY <1>2 DEF Script, ScriptTurn, ScriptReturns, On, Write, End
  <2>2. /\ js # "closing" /\ js' \in {"script", "idle", "listener", "sending"}
        /\ js' = "sending" => LateCalls \/ ~done
    BY <1>2 DEF Script, ScriptTurn, ScriptReturns, On, Write, End, Offer, MayCall, InScript
  <2>3. QED
    BY <2>1, <2>2, DutiesKept DEF ClosePending, EndPending, Terminated
<1>3. QED
  BY <1>1, <1>2

LEMMA DutiesWriter ==
    ASSUME TypeOK, ThreadsInv, Duties, Writer
    PROVE  Duties'
<1> USE DEF tqVars, rawVars, jsVars, writerVars, eventVars
<1>1. CASE QueueReceives \/ Handoff \/ QueueExit \/ SenderExit \/ SendOK
  <2>1. UNCHANGED <<tasks, lost, tqClosed, lp, rd, srv, ctx, closeSent, done, endRuns, timeout>>
    BY <1>1 DEF QueueReceives, Handoff, QueueExit, SenderExit, SendOK
  <2>2. js' = js \/ (js # "closing" /\ js' \in {"script", "listener"})
    BY <1>1 DEF QueueReceives, Handoff, QueueExit, SenderExit, SendOK
  <2>3. ws' = "exited" => ws = "exited" \/ done
    BY <1>1 DEF QueueReceives, Handoff, QueueExit, SenderExit, SendOK, ThreadsInv
  <2>4. QED
    BY <2>1, <2>2, <2>3, DutiesKept DEF ClosePending, EndPending, Terminated, Duties
<1>2. CASE SendEOF \/ SendFails \/ SendClose
  <2>1. /\ UNCHANGED <<js, lp, rd, srv, done, endRuns, timeout>>
        /\ ctx # "live" => ctx' # "live"
        /\ closeSent' = closeSent \/ closeSent'
    BY <1>2 DEF SendEOF, SendFails, SendClose, Cancelled
  <2>2. \E t \in {CloseTask("nil"), CloseTask("Send")} : Queue(t)
    BY <1>2 DEF SendEOF, SendFails, SendClose
  <2>3. /\ CloseTask("nil") \in Task /\ CloseTask("Send") \in Task /\ "Send" \in Errs
    BY TaskTypes DEF Errs, LocalErrs
  <2>4. /\ (ClosePending => ClosePending') /\ (EndPending => EndPending')
        /\ lost \subseteq lost' /\ tqClosed' = tqClosed
    BY <2>2, <2>3, QueueKeeps DEF Queue
  <2>5. Terminated \/ closeSent' \/ ClosePending'
    <3>1. CASE SendEOF
      BY <3>1 DEF SendEOF
    <3>2. CASE SendFails
      <4>1. ~tqClosed /\ Queue(CloseTask("Send"))
        BY <3>2, QueueIsOpen DEF SendFails
      <4>2. QED
        BY <4>1, <2>3, ErrorWaits
    <3>3. CASE SendClose
      BY <3>3 DEF SendClose
    <3>4. QED
      BY <1>2, <3>1, <3>2, <3>3
  <2>6. QED
    BY <2>1, <2>4, <2>5, DutiesKept DEF Terminated, Duties
<1>3. QED
  BY <1>1, <1>2 DEF Writer

LEMMA DutiesReceive ==
    ASSUME TypeOK, ThreadsInv, Duties, Receive
    PROVE  Duties'
<1> USE DEF tqVars, rawVars, jsVars, writerVars, eventVars
<1>1. CASE RecvMessage
  <2>1. UNCHANGED <<js, lp, rd, ws, srv, ctx, closeSent, done, endRuns, timeout>>
    BY <1>1 DEF RecvMessage
  <2>2. DataTask(received + 1) \in Task /\ Queue(DataTask(received + 1))
    BY <1>1, TaskTypes DEF RecvMessage, TypeOK
  <2>3. /\ (ClosePending => ClosePending') /\ (EndPending => EndPending')
        /\ lost \subseteq lost' /\ tqClosed' = tqClosed
    BY <2>2, QueueKeeps DEF Queue
  <2>4. QED
    BY <2>1, <2>3, DutiesKept DEF Terminated, Duties
<1>2. CASE RecvBadMessage \/ RecvEnd \/ RecvCtx
  <2>1. PICK e \in ReaderErrs : ReaderStops(e)
    BY <1>2 DEF RecvBadMessage, RecvEnd, RecvCtx, EndErrs, ReaderErrs
  <2>2. rd = "run" /\ ~tqClosed
    BY <1>2, QueueIsOpen DEF RecvBadMessage, RecvEnd, RecvCtx
  <2>3. e \in Errs /\ e # "nil" /\ CloseTask(e) \in Task
    BY TaskTypes DEF Errs, ReaderErrs
  <2>4. /\ UNCHANGED <<js, lp, ws, srv, ctx, closeSent, done, endRuns, timeout>>
        /\ Queue(CloseTask(e))
    BY <2>1 DEF ReaderStops
  <2>5. /\ ClosePending' /\ (EndPending => EndPending')
        /\ lost \subseteq lost' /\ tqClosed' = tqClosed
    BY <2>2, <2>3, <2>4, QueueKeeps, ErrorWaits DEF Queue
  <2>6. QED
    BY <2>4, <2>5, DutiesKept DEF Terminated, Duties
<1>3. QED
  BY <1>1, <1>2 DEF Receive

LEMMA DutiesLoop ==
    ASSUME TypeOK, ThreadsInv, Duties, Loop
    PROVE  Duties'
<1> USE DEF tqVars, rawVars, jsVars, writerVars, eventVars
<1>1. UNCHANGED <<js, rd, ws, srv, ctx, closeSent, done, endRuns, timeout>>
  BY DEF Loop, LoopCtxDone, LoopDone, LoopClose
<1>2. lp' = "exited" => tqClosed'
  BY DEF Loop, LoopCtxDone, LoopDone, LoopClose, CloseQueue
<1>3. /\ (ClosePending => ClosePending') /\ (EndPending => EndPending')
      /\ lost \subseteq lost' /\ (tqClosed' = tqClosed \/ tqClosed')
  <2>1. CASE LoopCtxDone
    <3>1. CloseTask("nil") \in Task /\ Queue(CloseTask("nil"))
      BY <2>1, TaskTypes DEF LoopCtxDone, Errs
    <3>2. QED
      BY <3>1, QueueKeeps DEF Queue
  <2>2. CASE LoopDone \/ LoopClose
    BY <2>2 DEF LoopDone, LoopClose, CloseQueue, ClosePending, EndPending
  <2>3. QED
    BY <2>1, <2>2 DEF Loop
<1>4. QED
  BY <1>1, <1>2, <1>3, DutiesKept DEF Terminated, Duties

LEMMA DutiesEnv ==
    ASSUME TypeOK, ThreadsInv, Duties, Env \/ UNCHANGED vars
    PROVE  Duties'
<1> USE DEF vars, tqVars, rawVars, jsVars, writerVars, eventVars
<1>1. UNCHANGED <<tasks, tqClosed, lost, js, lp, rd, ws, closeSent, done, endRuns, timeout>>
  BY DEF Env
<1>2. ctx # "live" => ctx' # "live"
  BY DEF Env, ServerSends, ServerFinishes, VUCancelled, DeadlineExpires, Cancelled
<1>3. srv # "open" => srv' # "open"
  BY DEF Env, ServerSends, ServerFinishes, VUCancelled, DeadlineExpires
<1>4. QED
  BY <1>1, <1>2, <1>3, DutiesKept DEF Terminated, Duties, ClosePending, EndPending

\* A listener goes on, or its task ends: the contexts can only become done.
LEMMA DispatchEffect ==
    ASSUME NEW frame, NEW c, Dispatch(frame, c)
    PROVE  js' \in {"listener", "idle"} /\ (c # "live" => ctx' # "live")
  BY DEF Dispatch, Cancelled

\* closeWithError: an error closes the stream, nil does nothing, and neither
\* does a second error.
LEMMA DutiesClose ==
    ASSUME TypeOK, Duties, NEW e \in Errs, NEW fails \in BOOLEAN, CloseWithError(e, fails),
           js \in {"idle", "listener"},
           UNCHANGED <<srv, lost, tqClosed, lp, rd, ws, closeSent, endRuns, timeout>>,
           ClosePending => e # "nil" \/ ClosePending', EndPending => EndPending'
    PROVE  Duties'
<1>1. CASE e # "nil" /\ ~done
  <2>1. done' /\ js' = "closing"
    BY <1>1 DEF CloseWithError
  <2>2. QED
    BY <2>1 DEF Duties
<1>2. CASE e = "nil" \/ done
  <2>1. done' = done /\ Dispatch(DeliverError(e, fails), ctx)
    BY <1>2 DEF CloseWithError
  <2>2. js' \in {"listener", "idle"} /\ (ctx # "live" => ctx' # "live")
    BY <2>1, DispatchEffect
  <2>3. ClosePending => ClosePending' \/ done
    BY <1>2
  <2>4. QED
    BY <2>1, <2>2, <2>3, DutiesKept DEF Duties, Terminated
<1>3. QED
  BY <1>1, <1>2

LEMMA DutiesRunTask ==
    ASSUME TypeOK, EndInv, Duties, RunTask
    PROVE  Duties'
<1> USE DEF tqVars, rawVars, writerVars, eventVars, taskUnchanged
<1>0. tasks \in Seq(Task) /\ endRuns \in Nat
  BY DEF TypeOK
<1>1. /\ js = "idle"
      /\ UNCHANGED <<srv, tqClosed, lp, rd, ws, closeSent, timeout>>
  BY DEF RunTask, RunData, RunClose, RunEnd, Take
<1>2. CASE RunData
  <2>1. Take("data") /\ UNCHANGED <<done, endRuns>> /\ Dispatch(Deliver("data"), ctx)
    BY <1>2 DEF RunData
  <2>2. js' \in {"listener", "idle"} /\ (ctx # "live" => ctx' # "live")
    BY <2>1, DispatchEffect
  <2>3. (ClosePending => ClosePending') /\ (EndPending => EndPending') /\ lost' = lost
    BY <2>1, TakeKeeps
  <2>4. QED
    BY <1>1, <2>1, <2>2, <2>3, DutiesKept DEF Terminated
<1>3. CASE RunClose
  <2>1. /\ Take("close") /\ endRuns' = endRuns
        /\ CloseWithError(Head(tasks).err, FALSE)
    BY <1>3 DEF RunClose
  <2>2. Head(tasks) \in Task
    BY <1>0, <2>1 DEF Take
  <2>3. Head(tasks).err \in Errs
    BY <2>2 DEF Task
  <2>4. /\ ClosePending => Head(tasks).err # "nil" \/ ClosePending'
        /\ EndPending => EndPending'
        /\ lost' = lost
    BY <2>1, TakeKeeps
  <2>5. QED
    BY <1>1, <2>1, <2>3, <2>4, DutiesClose
<1>4. CASE RunEnd
  <2>1. Take("end") /\ done' = done /\ endRuns' = endRuns + 1 /\ Dispatch(Deliver("end"), ctx)
    BY <1>4 DEF RunEnd
  <2>2. js' \in {"listener", "idle"} /\ (ctx # "live" => ctx' # "live")
    BY <2>1, DispatchEffect
  <2>3. (ClosePending => ClosePending') /\ lost' = lost
    BY <2>1, TakeKeeps
  <2>4. endRuns' = 1
    <3>1. ~NoEndTask
      BY <1>0, <2>1, EndTake DEF EndInv
    <3>2. QED
      BY <1>0, <2>1, <3>1 DEF EndInv
  <2>5. QED
    BY <1>1, <2>1, <2>2, <2>3, <2>4 DEF Duties, Terminated
<1>5. QED
  BY <1>2, <1>3, <1>4 DEF RunTask

LEMMA DutiesEventLoop ==
    ASSUME TypeOK, EndInv, Duties, EventLoop
    PROVE  Duties'
<1> USE DEF tqVars, rawVars, writerVars, eventVars, taskUnchanged
<1>1. CASE RunTask
  BY <1>1, DutiesRunTask
<1>2. CASE CloseQueuesEnd
  <2>1. /\ Queue(EndTask)
        /\ UNCHANGED <<srv, lp, rd, ws, closeSent, endRuns, timeout, done>>
        /\ Dispatch(cur, IF timeout THEN Cancelled(ctx) ELSE ctx)
    BY <1>2 DEF CloseQueuesEnd
  <2>2. EndTask \in Task
    BY TaskTypes
  <2>3. /\ ClosePending => ClosePending'
        /\ EndPending' \/ "end" \in lost'
        /\ tqClosed' = tqClosed
    BY <2>1, <2>2, QueueKeeps, EndWaits DEF Queue
  <2>4. /\ js' \in {"listener", "idle"}
        /\ ctx # "live" \/ timeout => ctx' # "live"
    BY <2>1, DispatchEffect DEF Cancelled
  <2>5. js = "closing" /\ done
    BY <1>2 DEF CloseQueuesEnd, EndInv
  <2>6. QED
    BY <2>1, <2>3, <2>4, <2>5 DEF Duties, Terminated
<1>3. CASE ListenerEnds
  <2>1. /\ js = "listener"
        /\ UNCHANGED <<tasks, tqClosed, lost, srv, lp, rd, ws, closeSent, endRuns, timeout>>
    BY <1>3 DEF ListenerEnds, ListenerReturns, DataListenerThrows, OtherListenerThrows
  <2>2. (ClosePending => ClosePending') /\ (EndPending => EndPending')
    BY <2>1 DEF ClosePending, EndPending
  <2>3. CASE DataListenerThrows
    <3>1. CloseWithError("Thrown", TRUE)
      BY <2>3 DEF DataListenerThrows
    <3>2. QED
      BY <2>1, <2>2, <3>1, DutiesClose DEF Errs, LocalErrs
  <2>4. CASE ListenerReturns \/ OtherListenerThrows
    <3>1. done' = done /\ \E frame : Dispatch(frame, ctx)
      BY <2>4 DEF ListenerReturns, OtherListenerThrows
    <3>2. js' \in {"listener", "idle"} /\ (ctx # "live" => ctx' # "live")
      BY <3>1, DispatchEffect
    <3>3. QED
      BY <2>1, <2>2, <3>1, <3>2, DutiesKept DEF Terminated
  <2>5. QED
    BY <1>3, <2>3, <2>4 DEF ListenerEnds
<1>4. QED
  BY <1>1, <1>2, <1>3 DEF EventLoop

LEMMA DutiesStep ==
    ASSUME TypeOK, ThreadsInv, EndInv, Duties, [Next]_vars
    PROVE  Duties'
  BY DutiesConstructor, DutiesWriter, DutiesReceive, DutiesLoop, DutiesEventLoop, DutiesEnv
     DEF Next, Stutter

LEMMA DutiesHold == Spec => []Duties
  BY DutiesInit, DutiesStep, TypeCorrect, Threads, EndTasks, PTL DEF Spec

-----------------------------------------------------------------------------
(* When no thread can go on *)

\* The event loop is free, and has nothing to run.
LEMMA StillIsFree ==
    ASSUME TypeOK, ThreadsInv, Still
    PROVE  js = "idle" /\ tasks = <<>>
  BY DEF TypeOK, ThreadsInv, Still, EventLoopGoesOn, CallGoesOn

\* No call of closeWithError and no end event waits.
LEMMA StillIsEmpty ==
    ASSUME TypeOK, ThreadsInv, Still
    PROVE  ~ClosePending /\ ~EndPending
<1>1. Len(tasks) = 0
  BY StillIsFree
<1>2. QED
  BY <1>1 DEF ClosePending, EndPending

\* When the RPC is over, the reader has said so, and the stream is done.
LEMMA StillIsDone ==
    ASSUME TypeOK, ThreadsInv, Duties, Still, Terminated
    PROVE  done
<1>1. rd # "run" /\ rd # "off"
  BY DEF Still, ReaderGoesOn, ThreadsInv
<1>2. QED
  BY <1>1, StillIsEmpty DEF TypeOK, Duties

\* When the stream is done as well, every goroutine has stopped.
LEMMA StillHasStopped ==
    ASSUME TypeOK, ThreadsInv, Still, Terminated, done
    PROVE  rd = "exited" /\ wq = "exited" /\ ws = "exited" /\ lp = "exited"
<1>1. /\ lp # "off" /\ rd # "off" /\ wq # "off" /\ ws # "off"
  BY DEF ThreadsInv, Still
<1>2. rd = "exited"
  BY <1>1 DEF TypeOK, Still, ReaderGoesOn
<1>3. wq = "exited"
  BY <1>1 DEF TypeOK, Still, QueueStops
<1>4. ws = "exited"
  BY <1>1 DEF TypeOK, Still, SenderGoesOn
<1>5. lp = "exited"
  BY <1>1, <1>2, <1>3, <1>4 DEF TypeOK, Still, LoopGoesOn
<1>6. QED
  BY <1>2, <1>3, <1>4, <1>5

\* What end() has queued has not been forgotten: CloseSend has been called, or
\* a message is held back, or the stream is done.
LEMMA StillHasClosed ==
    ASSUME TypeOK, ThreadsInv, WriteInv, Duties, Still, writingState = "closed"
    PROVE  closeSent \/ done \/ (ws = "sending" /\ held # Closing)
<1> SUFFICES ASSUME ~done
             PROVE  closeSent \/ (ws = "sending" /\ held # Closing)
  OBVIOUS
<1>1. wq = "run" /\ ws # "off" /\ ~Terminated /\ js = "idle"
  BY StillIsDone, StillIsFree DEF TypeOK, ThreadsInv
<1>2. CASE ws = "ready"
  <2>1. QueueInv /\ wqueue = <<>>
    BY <1>1, <1>2 DEF WriteInv, Still, HandoffGoesOn
  <2>2. Len(wqueue) > 0
    BY <1>1, <2>1 DEF QueueInv, ClosingIsLast
  <2>3. QED
    BY <2>1, <2>2
<1>3. CASE ws = "sending"
  BY <1>3 DEF Still, SenderGoesOn
<1>4. CASE ws = "exited"
  BY <1>1, <1>4, StillIsEmpty DEF Duties
<1>5. QED
  BY <1>1, <1>2, <1>3, <1>4 DEF TypeOK

\* The threads of a stream never all wait for one another with work left,
\* wherever the RPC, the script, the VU and the sending have been cut off.
THEOREM StillOver == Spec => []StillIsOver
<1>1. TypeOK /\ ThreadsInv /\ EndInv /\ WriteInv /\ Duties => StillIsOver
  <2> SUFFICES ASSUME TypeOK, ThreadsInv, EndInv, WriteInv, Duties, Still
               PROVE  /\ js = "idle"
                      /\ Terminated \/ (done /\ timeout) => done /\ Ended
                      /\ done => endRuns = 1 \/ "end" \in lost
                      /\ writingState = "closed"
                            => closeSent \/ done \/ (ws = "sending" /\ held # Closing)
    BY DEF StillIsOver
  <2>1. js = "idle" /\ tasks = <<>>
    BY StillIsFree
  <2>2. Terminated => done
    BY StillIsDone
  <2>3. done /\ timeout => Terminated
    BY <2>1 DEF Duties, Terminated
  <2>4. Terminated => Ended
    BY <2>1, <2>2, StillHasStopped DEF Duties, Ended
  <2>5. done => endRuns = 1 \/ "end" \in lost
    BY <2>1, StillIsEmpty DEF Duties
  <2>6. QED
    BY <2>1, <2>2, <2>3, <2>4, <2>5, StillHasClosed
<1>2. QED
  BY <1>1, TypeCorrect, Threads, EndTasks, Writes, DutiesHold, PTL

-----------------------------------------------------------------------------
(* The hypothesis of the theorems about liveness *)

\* A fair action is enabled exactly if its guard holds.  This is read off the actions,
\* each of which is its guard and values of the variables it sets, but not for the
\* provers, which do not look into ENABLED.
GuardsAreEnabled ==
    /\ EventLoopGoesOn <=>
          ENABLED <<ScriptReturns \/ ListenerEnds \/ RunTask \/ CloseQueuesEnd>>_vars
    /\ CallGoesOn <=> ENABLED <<QueueReceives>>_vars
    /\ HandoffGoesOn <=> ENABLED <<Handoff>>_vars
    /\ QueueStops <=> ENABLED <<QueueExit>>_vars
    /\ SenderGoesOn <=> ENABLED <<SenderExit \/ SendEOF \/ SendClose>>_vars
    /\ ReaderGoesOn <=> ENABLED <<Receive>>_vars
    /\ LoopGoesOn <=> ENABLED <<Loop>>_vars

-----------------------------------------------------------------------------
(* A call of write or end *)

Offering == js = "sending"

\* A call of write or end returns, in a script that makes none once the stream
\* is done: the queue goroutine is there and takes the offer.
THEOREM OffersReturn ==
    ASSUME ~LateCalls
    PROVE  FairSpec /\ []GuardsAreEnabled => OfferReturns
<1>1. TypeOK /\ ThreadsInv /\ Duties /\ GuardsAreEnabled /\ Offering
        => ENABLED <<QueueReceives>>_vars
  <2>1. TypeOK /\ ThreadsInv /\ Duties /\ Offering => CallGoesOn
    BY DEF TypeOK, ThreadsInv, Duties, Offering, CallGoesOn
  <2>2. GuardsAreEnabled /\ CallGoesOn => ENABLED <<QueueReceives>>_vars
    BY DEF GuardsAreEnabled
  <2>3. QED
    BY <2>1, <2>2
<1>2. Offering /\ <<QueueReceives>>_vars => ~Offering'
  BY DEF Offering, QueueReceives
<1>3. Spec => [](TypeOK /\ ThreadsInv /\ Duties)
  BY TypeCorrect, Threads, DutiesHold, PTL
<1>4. FairSpec /\ []GuardsAreEnabled => (Offering ~> ~Offering)
  BY <1>1, <1>2, <1>3, PTL DEF FairSpec, Fairness
<1>5. (Offering <=> js = "sending") /\ (~Offering <=> js # "sending")
  BY DEF Offering
<1>6. QED
  BY <1>4, <1>5, PTL DEF OfferReturns

-----------------------------------------------------------------------------
(* The end of the goroutines: those of writeData return, first the one with the
   queue, and then the loop, which closes the task queue                        *)

\* The stream is done, its RPC over, and its reader gone.
Over == done /\ Terminated /\ rd = "exited"
QueueRuns == Over /\ wq = "run"
SenderRuns == Over /\ wq = "exited" /\ ws # "exited"
LoopSelects == Over /\ wq = "exited" /\ ws = "exited" /\ lp = "select"
LoopWaits == Over /\ wq = "exited" /\ ws = "exited" /\ lp \in {"interrupted", "wait"}
Released == lp = "exited" /\ tqClosed

\* What is over stays over, and no goroutine goes back.
LEMMA OverStep ==
    ASSUME TypeOK, ThreadsInv, Duties, Over, [Next]_vars
    PROVE  /\ Over'
           /\ wq' = wq \/ wq' = "exited"
           /\ wq = "exited" /\ ws = "exited" => ws' = "exited"
           /\ ws' # "off" /\ lp' # "off"
           /\ lp \in {"interrupted", "wait"} => lp' \in {"interrupted", "wait", "exited"}
           /\ lp = "exited" => lp' = "exited"
<1> USE DEF Over, Terminated, vars, tqVars, rawVars, jsVars, writerVars, eventVars
<1>0. js \notin {"off", "failed"} /\ ws # "off" /\ lp # "off"
  BY DEF Duties, ThreadsInv
<1>1. CASE Constructor
  BY <1>0, <1>1 DEF Constructor, Begin, BeginFails
<1>2. CASE Script
  BY <1>0, <1>2 DEF Script, ScriptTurn, ScriptReturns, On, Write, End
<1>3. CASE Writer
  BY <1>0, <1>3 DEF Writer, QueueReceives, Handoff, QueueExit, SenderExit, SendOK, SendEOF,
     SendFails, SendClose, SenderReturns, Cancelled
<1>4. CASE Receive
  BY <1>4 DEF Receive, RecvMessage, RecvBadMessage, RecvEnd, RecvCtx
<1>5. CASE Loop
  BY <1>0, <1>5 DEF Loop, LoopCtxDone, LoopDone, LoopClose
<1>6. CASE EventLoop
  <2>1. UNCHANGED <<srv, writerVars, lp, rd>>
    BY <1>6 DEF EventLoop, RunTask, RunData, RunClose, RunEnd, CloseQueuesEnd, ListenerEnds,
       ListenerReturns, DataListenerThrows, OtherListenerThrows, taskUnchanged
  <2>2. done' /\ (ctx # "live" => ctx' # "live")
    BY <1>6 DEF EventLoop, RunTask, RunData, RunClose, RunEnd, CloseQueuesEnd, ListenerEnds,
       ListenerReturns, DataListenerThrows, OtherListenerThrows, CloseWithError, Dispatch,
       Cancelled
  <2>3. QED
    BY <1>0, <2>1, <2>2
<1>7. CASE Env \/ Stutter \/ UNCHANGED vars
  <2>1. UNCHANGED <<writerVars, done, lp, rd>>
    BY <1>7 DEF Env, Stutter
  <2>2. (srv # "open" => srv' # "open") /\ (ctx # "live" => ctx' # "live")
    BY <1>7 DEF Env, Stutter, ServerSends, ServerFinishes, VUCancelled, DeadlineExpires,
       Cancelled
  <2>3. QED
    BY <1>0, <2>1, <2>2
<1>8. QED
  BY <1>1, <1>2, <1>3, <1>4, <1>5, <1>6, <1>7 DEF Next

\* So the stages follow one another.
LEMMA StagesFollow ==
    ASSUME TypeOK, ThreadsInv, EndInv, Duties, [Next]_vars
    PROVE  /\ QueueRuns => QueueRuns' \/ SenderRuns' \/ LoopSelects' \/ LoopWaits' \/ Released'
           /\ SenderRuns => SenderRuns' \/ LoopSelects' \/ LoopWaits' \/ Released'
           /\ LoopSelects => LoopSelects' \/ LoopWaits' \/ Released'
           /\ LoopWaits => LoopWaits' \/ Released'
<1> USE DEF QueueRuns, SenderRuns, LoopSelects, LoopWaits, Released
<1>1. CASE ~Over
  BY <1>1
<1>2. CASE Over
  <2>1. lp' \in {"select", "interrupted", "wait", "exited"} /\ (lp' = "exited" => tqClosed')
    BY <1>2, TypeStep, DutiesStep, OverStep DEF TypeOK, Duties
  <2>2. QED
    BY <1>2, <2>1, OverStep
<1>3. QED
  BY <1>1, <1>2

\* The fair action of each stage ends it.
LEMMA StagesEnd ==
    /\ QueueRuns /\ QueueExit => ~QueueRuns'
    /\ SenderRuns /\ (SenderExit \/ SendEOF \/ SendClose) => ~SenderRuns'
    /\ LoopSelects /\ Loop => ~LoopSelects'
    /\ LoopWaits /\ Loop => ~LoopWaits'
  BY DEF QueueRuns, SenderRuns, LoopSelects, LoopWaits, QueueExit, SenderExit, SendEOF,
     SendClose, SenderReturns, Loop, LoopCtxDone, LoopDone, LoopClose

\* It can be taken as long as the stage lasts.
LEMMA StagesGoOn ==
    ASSUME TypeOK, ThreadsInv
    PROVE  /\ QueueRuns => QueueStops
           /\ SenderRuns => SenderGoesOn
           /\ LoopSelects \/ LoopWaits => LoopGoesOn
  BY DEF TypeOK, ThreadsInv, QueueRuns, SenderRuns, LoopSelects, LoopWaits, Over,
     QueueStops, SenderGoesOn, LoopGoesOn

\* When the stream is done, its RPC over and its reader gone, the other goroutines
\* return one after the other, and the callback of the task queue is released, though
\* messages may be left in the queue of writeData, and whatever the script, the
\* listeners and the server go on to do (loop, writeData, close).
THEOREM GoroutinesReturn ==
    FairSpec /\ []GuardsAreEnabled => (done /\ Terminated /\ rd = "exited" ~> tqClosed)
<1>1. Spec => [](TypeOK /\ ThreadsInv /\ EndInv /\ Duties)
  BY TypeCorrect, Threads, EndTasks, DutiesHold, PTL
<1>2. ASSUME TypeOK, ThreadsInv, GuardsAreEnabled
      PROVE  /\ QueueRuns => ENABLED <<QueueExit>>_vars
             /\ SenderRuns => ENABLED <<SenderExit \/ SendEOF \/ SendClose>>_vars
             /\ LoopSelects \/ LoopWaits => ENABLED <<Loop>>_vars
  BY <1>2, StagesGoOn DEF GuardsAreEnabled
<1>3. FairSpec /\ []GuardsAreEnabled => (LoopWaits ~> Released)
  BY <1>1, <1>2, StagesFollow, StagesEnd, PTL DEF FairSpec, Fairness, Spec
<1>4. FairSpec /\ []GuardsAreEnabled => (LoopSelects ~> LoopWaits \/ Released)
  BY <1>1, <1>2, StagesFollow, StagesEnd, PTL DEF FairSpec, Fairness, Spec
<1>5. FairSpec /\ []GuardsAreEnabled => (SenderRuns ~> LoopSelects \/ LoopWaits \/ Released)
  BY <1>1, <1>2, StagesFollow, StagesEnd, PTL DEF FairSpec, Fairness, Spec
<1>6. FairSpec /\ []GuardsAreEnabled
        => (QueueRuns ~> SenderRuns \/ LoopSelects \/ LoopWaits \/ Released)
  BY <1>1, <1>2, StagesFollow, StagesEnd, PTL DEF FairSpec, Fairness, Spec
<1>7. TypeOK /\ ThreadsInv /\ Duties /\ Over
        => QueueRuns \/ SenderRuns \/ LoopSelects \/ LoopWaits \/ Released
  BY DEF TypeOK, ThreadsInv, Duties, Over, QueueRuns, SenderRuns, LoopSelects, LoopWaits,
     Released
<1>8. FairSpec /\ []GuardsAreEnabled => (Over ~> Released)
  BY <1>1, <1>3, <1>4, <1>5, <1>6, <1>7, PTL DEF FairSpec
<1>9. (Over <=> done /\ Terminated /\ rd = "exited") /\ (Released => tqClosed)
  BY DEF Over, Released
<1>10. QED
  BY <1>8, <1>9, PTL

-----------------------------------------------------------------------------
(* There is an end to the steps: each of them leaves fewer *)

\* How far n is from the bound m; a condition as a number.
Slack(n, m) == IF n < m THEN m - n ELSE 0
One(b) == IF b THEN 1 ELSE 0

\* What the script and the environment may still do.
ScriptLeft ==
    One(js = "off") + Slack(turns, MaxTurns) + Slack(written, MaxWrites)
      + One(writingState = "opened")
OnLeft ==
    Slack(listeners["data"], MaxListeners) + Slack(listeners["error"], MaxListeners)
      + Slack(listeners["end"], MaxListeners)
EnvLeft ==
    Slack(arrived, MaxArrivals) + One(srv = "open") + One(ctx = "live") + One(~vuDone)
Outer == ScriptLeft + OnLeft + EnvLeft

\* What the goroutines and close have left to do.
WriterLeft ==
    3 * One(js = "sending") + 2 * Len(wqueue) + One(ws = "sending")
      + (One(wq = "run") + One(ws \in {"ready", "sending"}))
ReaderLeft == Slack(received, arrived) + One(rd = "run")
LoopLeft == One(lp = "select") + One(lp \in {"select", "interrupted", "wait"})
CloseLeft == 2 * One(~done) + One(js = "closing")
Inner == WriterLeft + ReaderLeft + LoopLeft + CloseLeft

\* A loop over data listeners may yet give way to one over error listeners.
InData == One(cur.event = "data")

\* The listeners left, or the turn of the script.
InLoop ==
    IF js = "listener" THEN 1 + Slack(cur.next, cur.upto + 1) ELSE One(js = "script")

StepsLeft == Numbers(Outer, Inner, Len(tasks), InData, InLoop)

\* All of them are numbers.
AreNumbers ==
    /\ WriterLeft \in Nat /\ ReaderLeft \in Nat /\ LoopLeft \in Nat /\ CloseLeft \in Nat
    /\ Outer \in Nat /\ Inner \in Nat /\ Len(tasks) \in Nat /\ InData \in Nat /\ InLoop \in Nat

\* The terms they are sums of are numbers.
LEMMA Terms ==
    /\ \A n, m \in Nat : Slack(n, m) \in Nat
    /\ \A b \in BOOLEAN : One(b) \in Nat
  BY DEF Slack, One

LEMMA NumbersTyped == TypeOK => AreNumbers
<1> SUFFICES ASSUME TypeOK PROVE AreNumbers
  OBVIOUS
<1>0. /\ turns \in Nat /\ written \in Nat /\ arrived \in Nat /\ received \in Nat
      /\ MaxTurns \in Nat /\ MaxWrites \in Nat /\ MaxArrivals \in Nat /\ MaxListeners \in Nat
      /\ \A e \in Events : listeners[e] \in Nat
      /\ wqueue \in Seq(Nat)
  BY StreamAssumption, MaxArrivalsAssumption DEF TypeOK
<1>1. Outer \in Nat
  <2>1. ScriptLeft \in Nat
    BY <1>0 DEF ScriptLeft, Slack, One
  <2>2. OnLeft \in Nat
    <3>1. /\ Slack(listeners["data"], MaxListeners) \in Nat
          /\ Slack(listeners["error"], MaxListeners) \in Nat
          /\ Slack(listeners["end"], MaxListeners) \in Nat
      BY <1>0, Terms DEF Events
    <3>2. QED
      BY <3>1 DEF OnLeft
  <2>3. EnvLeft \in Nat
    BY <1>0 DEF EnvLeft, Slack, One
  <2>4. QED
    BY <2>1, <2>2, <2>3 DEF Outer
<1>2. /\ WriterLeft \in Nat /\ ReaderLeft \in Nat /\ LoopLeft \in Nat /\ CloseLeft \in Nat
      /\ Inner \in Nat
  <2>1. Slack(received, arrived) \in Nat /\ Len(wqueue) \in Nat
    BY <1>0, Terms, LenProperties
  <2>2. WriterLeft \in Nat /\ ReaderLeft \in Nat
    BY <2>1 DEF WriterLeft, ReaderLeft, One
  <2>3. LoopLeft \in Nat /\ CloseLeft \in Nat
    BY DEF LoopLeft, CloseLeft, One
  <2>4. QED
    BY <2>2, <2>3 DEF Inner
<1>3. Len(tasks) \in Nat
  BY DEF TypeOK
<1>4. InData \in Nat
  BY DEF InData, One
<1>5. InLoop \in Nat
  BY DEF InLoop, One, Slack, TypeOK, Frame
<1>6. QED
  BY <1>1, <1>2, <1>3, <1>4, <1>5 DEF AreNumbers

\* What the script and the environment have done they have done.
Onward ==
    /\ js' = "off" => js = "off"
    /\ turns' >= turns /\ written' >= written /\ arrived' >= arrived
    /\ writingState' = "opened" => writingState = "opened"
    /\ \A e \in Events : listeners'[e] >= listeners[e]
    /\ srv' = "open" => srv = "open"
    /\ ctx' = "live" => ctx = "live"
    /\ vuDone => vuDone'

\* One of them does a step.
Further ==
    \/ js = "off" /\ js' # "off"
    \/ turns < MaxTurns /\ turns < turns'
    \/ written < MaxWrites /\ written < written'
    \/ writingState = "opened" /\ writingState' # "opened"
    \/ \E e \in Events : listeners[e] < MaxListeners /\ listeners[e] < listeners'[e]
    \/ arrived < MaxArrivals /\ arrived < arrived'
    \/ srv = "open" /\ srv' # "open"
    \/ ctx = "live" /\ ctx' # "live"
    \/ ~vuDone /\ vuDone'

\* Then no more is left than before, and less if one of them is such a step.
LEMMA OuterLess ==
    ASSUME TypeOK, TypeOK', Onward
    PROVE  Outer' <= Outer /\ (Further => Outer' < Outer)
<1>1. \A m, n, k \in Nat : n <= k =>
         Slack(k, m) <= Slack(n, m) /\ (n < k /\ n < m => Slack(k, m) < Slack(n, m))
  BY DEF Slack
<1>2. /\ turns \in Nat /\ turns' \in Nat /\ MaxTurns \in Nat
      /\ written \in Nat /\ written' \in Nat /\ MaxWrites \in Nat
      /\ arrived \in Nat /\ arrived' \in Nat /\ MaxArrivals \in Nat
      /\ MaxListeners \in Nat
      /\ \A e \in Events : listeners[e] \in Nat /\ listeners'[e] \in Nat
  BY StreamAssumption, MaxArrivalsAssumption DEF TypeOK
<1>3. /\ ScriptLeft \in Nat /\ ScriptLeft' \in Nat /\ ScriptLeft' <= ScriptLeft
      /\ \/ js = "off" /\ js' # "off"
         \/ turns < MaxTurns /\ turns < turns'
         \/ written < MaxWrites /\ written < written'
         \/ writingState = "opened" /\ writingState' # "opened"
         => ScriptLeft' < ScriptLeft
  <2> DEFINE a == One(js = "off")
             b == Slack(turns, MaxTurns)
             c == Slack(written, MaxWrites)
             d == One(writingState = "opened")
  <2>1. /\ a \in Nat /\ a' \in Nat /\ a' <= a /\ (js = "off" /\ js' # "off" => a' < a)
        /\ d \in Nat /\ d' \in Nat /\ d' <= d
        /\ writingState = "opened" /\ writingState' # "opened" => d' < d
    BY DEF One, Onward
  <2>2. /\ b \in Nat /\ b' \in Nat /\ c \in Nat /\ c' \in Nat
        /\ b' <= b /\ (turns < MaxTurns /\ turns < turns' => b' < b)
        /\ c' <= c /\ (written < MaxWrites /\ written < written' => c' < c)
    BY <1>1, <1>2, Terms DEF Onward
  <2>3. ScriptLeft = a + b + c + d /\ ScriptLeft' = a' + b' + c' + d'
    BY DEF ScriptLeft
  <2> HIDE DEF a, b, c, d
  <2>4. \A p, q, r, s \in Nat : p <= a /\ q <= b /\ r <= c /\ s <= d
           => /\ a + b + c + d \in Nat /\ p + q + r + s \in Nat
              /\ p + q + r + s <= a + b + c + d
              /\ p < a \/ q < b \/ r < c \/ s < d => p + q + r + s < a + b + c + d
    BY <2>1, <2>2
  <2>5. QED
    BY <2>1, <2>2, <2>3, <2>4
<1>4. /\ OnLeft \in Nat /\ OnLeft' \in Nat /\ OnLeft' <= OnLeft
      /\ (\E e \in Events : listeners[e] < MaxListeners /\ listeners[e] < listeners'[e])
            => OnLeft' < OnLeft
  <2> DEFINE a == Slack(listeners["data"], MaxListeners)
             b == Slack(listeners["error"], MaxListeners)
             c == Slack(listeners["end"], MaxListeners)
  <2>1. /\ a \in Nat /\ a' \in Nat /\ b \in Nat /\ b' \in Nat /\ c \in Nat /\ c' \in Nat
        /\ a' <= a /\ b' <= b /\ c' <= c
        /\ \A e \in Events : listeners[e] < MaxListeners /\ listeners[e] < listeners'[e]
              => a' < a \/ b' < b \/ c' < c
    BY <1>1, <1>2, Terms DEF Onward, Events
  <2>2. OnLeft = a + b + c /\ OnLeft' = a' + b' + c'
    BY DEF OnLeft
  <2> HIDE DEF a, b, c
  <2>3. \A p, q, r \in Nat : p <= a /\ q <= b /\ r <= c
           => /\ a + b + c \in Nat /\ p + q + r \in Nat
              /\ p + q + r <= a + b + c
              /\ p < a \/ q < b \/ r < c => p + q + r < a + b + c
    BY <2>1
  <2>4. QED
    BY <2>1, <2>2, <2>3
<1>5. /\ EnvLeft \in Nat /\ EnvLeft' \in Nat /\ EnvLeft' <= EnvLeft
      /\ \/ arrived < MaxArrivals /\ arrived < arrived'
         \/ srv = "open" /\ srv' # "open"
         \/ ctx = "live" /\ ctx' # "live"
         \/ ~vuDone /\ vuDone'
         => EnvLeft' < EnvLeft
  <2> DEFINE a == Slack(arrived, MaxArrivals)
             b == One(srv = "open")
             c == One(ctx = "live")
             d == One(~vuDone)
  <2>1. /\ a \in Nat /\ a' \in Nat /\ a' <= a
        /\ arrived < MaxArrivals /\ arrived < arrived' => a' < a
    BY <1>1, <1>2, Terms DEF Onward
  <2>2. /\ b \in Nat /\ b' \in Nat /\ b' <= b /\ (srv = "open" /\ srv' # "open" => b' < b)
        /\ c \in Nat /\ c' \in Nat /\ c' <= c /\ (ctx = "live" /\ ctx' # "live" => c' < c)
    BY DEF One, Onward
  <2>3. d \in Nat /\ d' \in Nat /\ d' <= d /\ (~vuDone /\ vuDone' => d' < d)
    BY DEF One, Onward, TypeOK
  <2>4. EnvLeft = a + b + c + d /\ EnvLeft' = a' + b' + c' + d'
    BY DEF EnvLeft
  <2> HIDE DEF a, b, c, d
  <2>5. \A p, q, r, s \in Nat : p <= a /\ q <= b /\ r <= c /\ s <= d
           => /\ a + b + c + d \in Nat /\ p + q + r + s \in Nat
              /\ p + q + r + s <= a + b + c + d
              /\ p < a \/ q < b \/ r < c \/ s < d => p + q + r + s < a + b + c + d
    BY <2>1, <2>2, <2>3
  <2>6. QED
    BY <2>1, <2>2, <2>3, <2>4, <2>5
<1>6. Further => ScriptLeft' < ScriptLeft \/ OnLeft' < OnLeft \/ EnvLeft' < EnvLeft
  BY <1>3, <1>4, <1>5 DEF Further
<1>7. Outer = ScriptLeft + OnLeft + EnvLeft /\ Outer' = ScriptLeft' + OnLeft' + EnvLeft'
  BY DEF Outer
<1>8. \A p, q, r \in Nat : p <= ScriptLeft /\ q <= OnLeft /\ r <= EnvLeft
         => /\ p + q + r <= ScriptLeft + OnLeft + EnvLeft
            /\ p < ScriptLeft \/ q < OnLeft \/ r < EnvLeft
                  => p + q + r < ScriptLeft + OnLeft + EnvLeft
  BY <1>3, <1>4, <1>5
<1>9. QED
  BY <1>3, <1>4, <1>5, <1>6, <1>7, <1>8

\* The sum of the goroutines' parts follows its parts.
LEMMA InnerLess ==
    ASSUME AreNumbers, AreNumbers', WriterLeft' <= WriterLeft, ReaderLeft' <= ReaderLeft,
           LoopLeft' <= LoopLeft, CloseLeft' <= CloseLeft
    PROVE  /\ Inner' <= Inner
           /\ \/ WriterLeft' < WriterLeft \/ ReaderLeft' < ReaderLeft
              \/ LoopLeft' < LoopLeft \/ CloseLeft' < CloseLeft
              => Inner' < Inner
<1>1. /\ WriterLeft \in Nat /\ ReaderLeft \in Nat /\ LoopLeft \in Nat /\ CloseLeft \in Nat
      /\ WriterLeft' \in Nat /\ ReaderLeft' \in Nat /\ LoopLeft' \in Nat /\ CloseLeft' \in Nat
  BY DEF AreNumbers
<1>2. \A p, q, r, s \in Nat :
         p <= WriterLeft /\ q <= ReaderLeft /\ r <= LoopLeft /\ s <= CloseLeft
         => /\ p + q + r + s <= WriterLeft + ReaderLeft + LoopLeft + CloseLeft
            /\ p < WriterLeft \/ q < ReaderLeft \/ r < LoopLeft \/ s < CloseLeft
                  => p + q + r + s < WriterLeft + ReaderLeft + LoopLeft + CloseLeft
  BY <1>1
<1>3. /\ Inner = WriterLeft + ReaderLeft + LoopLeft + CloseLeft
      /\ Inner' = WriterLeft' + ReaderLeft' + LoopLeft' + CloseLeft'
  BY DEF Inner
<1>4. QED
  BY <1>1, <1>2, <1>3

-----------------------------------------------------------------------------
(* The steps *)

\* A step that lets the script or the environment do something.
LEMMA OuterStep ==
    ASSUME TypeOK, Constructor \/ ScriptTurn \/ Write \/ End \/ (\E e \in Listened : On(e)) \/ Env
    PROVE  Onward /\ Further
<1> USE DEF Onward, Further, TypeOK, tqVars, rawVars, jsVars, writerVars, eventVars
<1>1. CASE Constructor
  BY <1>1 DEF Constructor, Begin, BeginFails
<1>2. CASE ScriptTurn \/ Write \/ End
  BY <1>2 DEF ScriptTurn, MayCall, InScript, Write, End, Offer
<1>3. CASE \E e \in Listened : On(e)
  BY <1>3, StreamAssumption DEF On, InScript
<1>4. CASE Env
  BY <1>4 DEF Env, ServerSends, ServerFinishes, VUCancelled, DeadlineExpires, Cancelled,
     Statuses
<1>5. QED
  BY <1>1, <1>2, <1>3, <1>4

\* A step of a goroutine of writeData.
LEMMA WriterStep ==
    ASSUME TypeOK, Writer
    PROVE  /\ Onward /\ WriterLeft' < WriterLeft
           /\ ReaderLeft' = ReaderLeft /\ LoopLeft' = LoopLeft /\ CloseLeft' = CloseLeft
<1> USE DEF tqVars, rawVars, jsVars, writerVars, eventVars
<1>0. /\ turns \in Nat /\ written \in Nat /\ arrived \in Nat
      /\ \A e \in Events : listeners[e] \in Nat
      /\ wqueue \in Seq(Nat) /\ out \in Nat /\ Len(wqueue) \in Nat
      /\ ctx \in {"live", "Canceled", "Deadline"}
  BY LenProperties DEF TypeOK
<1>1. Onward
  BY <1>0 DEF Onward, Writer, QueueReceives, Handoff, QueueExit, SenderExit, SendOK, SendEOF,
     SendFails, SendClose, SenderReturns, Cancelled
<1>2. ReaderLeft' = ReaderLeft /\ LoopLeft' = LoopLeft /\ CloseLeft' = CloseLeft
  BY DEF ReaderLeft, LoopLeft, CloseLeft, One, Writer, QueueReceives, Handoff, QueueExit,
     SenderExit, SendOK, SendEOF, SendFails, SendClose, SenderReturns
<1>3. CASE QueueReceives
  <2>1. Len(wqueue') = Len(wqueue) + 1
    BY <1>0, <1>3 DEF QueueReceives
  <2>2. js = "sending" /\ js' # "sending" /\ UNCHANGED <<wq, ws>>
    BY <1>3 DEF QueueReceives
  <2>3. QED
    BY <1>0, <1>1, <1>2, <2>1, <2>2 DEF WriterLeft, One
<1>4. CASE Handoff
  <2>1. Len(wqueue') = Len(wqueue) - 1
    BY <1>0, <1>4 DEF Handoff
  <2>2. ws = "ready" /\ ws' = "sending" /\ UNCHANGED <<js, wq>>
    BY <1>4 DEF Handoff
  <2>3. QED
    BY <1>0, <1>1, <1>2, <2>1, <2>2 DEF WriterLeft, One
<1>5. CASE QueueExit
  <2>1. Len(wqueue') = 0
    BY <1>5 DEF QueueExit
  <2>2. wq = "run" /\ wq' = "exited" /\ UNCHANGED <<js, ws>>
    BY <1>5 DEF QueueExit
  <2>3. QED
    BY <1>0, <1>1, <1>2, <2>1, <2>2 DEF WriterLeft, One
<1>6. CASE SenderExit \/ SendOK \/ SendEOF \/ SendFails \/ SendClose
  <2>1. /\ UNCHANGED <<js, wq, wqueue>>
        /\ \/ ws = "ready" /\ ws' = "exited"
           \/ ws = "sending" /\ ws' = "ready"
           \/ ws = "sending" /\ ws' = "exited"
    BY <1>6 DEF SenderExit, SendOK, SendEOF, SendFails, SendClose, SenderReturns
  <2>2. QED
    BY <1>0, <1>1, <1>2, <2>1 DEF WriterLeft, One
<1>7. QED
  BY <1>3, <1>4, <1>5, <1>6 DEF Writer

\* A step of the reader or of the loop.
LEMMA ReaderLoopStep ==
    ASSUME TypeOK, Receive \/ Loop
    PROVE  /\ Onward /\ WriterLeft' = WriterLeft /\ CloseLeft' = CloseLeft
           /\ \/ ReaderLeft' < ReaderLeft /\ LoopLeft' = LoopLeft
              \/ ReaderLeft' = ReaderLeft /\ LoopLeft' < LoopLeft
<1> USE DEF tqVars, rawVars, jsVars, writerVars, eventVars
<1>0. /\ turns \in Nat /\ written \in Nat /\ arrived \in Nat /\ received \in Nat
      /\ \A e \in Events : listeners[e] \in Nat
  BY DEF TypeOK
<1>1. CASE Receive
  <2>1. /\ UNCHANGED <<arrived, srv, ctx, vuDone, jsVars, writerVars, done, lp>>
        /\ \/ rd' = rd /\ received < arrived /\ received' = received + 1
           \/ rd = "run" /\ rd' = "exited" /\ received' = received
    BY <1>1 DEF Receive, RecvMessage, RecvBadMessage, RecvEnd, RecvCtx, ReaderStops
  <2>2. Onward /\ WriterLeft' = WriterLeft /\ CloseLeft' = CloseLeft /\ LoopLeft' = LoopLeft
    BY <1>0, <2>1 DEF Onward, WriterLeft, CloseLeft, LoopLeft
  <2>3. ReaderLeft' < ReaderLeft
    BY <1>0, <2>1 DEF ReaderLeft, One, Slack
  <2>4. QED
    BY <2>2, <2>3
<1>2. CASE Loop
  <2>1. /\ UNCHANGED <<rawVars, jsVars, writerVars, done, rd>>
        /\ \/ lp = "select" /\ lp' \in {"interrupted", "wait"}
           \/ lp \in {"interrupted", "wait"} /\ lp' = "exited"
    BY <1>2 DEF Loop, LoopCtxDone, LoopDone, LoopClose
  <2>2. Onward /\ WriterLeft' = WriterLeft /\ CloseLeft' = CloseLeft /\ ReaderLeft' = ReaderLeft
    BY <1>0, <2>1 DEF Onward, WriterLeft, CloseLeft, ReaderLeft
  <2>3. LoopLeft' < LoopLeft
    BY <2>1 DEF LoopLeft, One
  <2>4. QED
    BY <2>2, <2>3
<1>3. QED
  BY <1>1, <1>2

\* A loop over listeners goes on with the frame, or its task ends.
LEMMA DispatchIs ==
    ASSUME NEW frame, NEW c, vuDone \in BOOLEAN, Dispatch(frame, c)
    PROVE  /\ \/ js' = "listener" /\ cur' = frame /\ frame.next <= frame.upto
              \/ js' = "idle" /\ cur' = NoFrame
           /\ (c # "live" => ctx' # "live") /\ (vuDone => vuDone')
  BY DEF Dispatch, Cancelled

\* Either closeWithError closes done, or a loop over error listeners begins.
LEMMA CloseIs ==
    ASSUME NEW e, NEW fails, vuDone \in BOOLEAN, done \in BOOLEAN, CloseWithError(e, fails)
    PROVE  /\ \/ ~done /\ done' /\ js' = "closing"
              \/ /\ done' = done
                 /\ \/ js' = "listener" /\ cur'.event = "error"
                    \/ js' = "idle" /\ cur' = NoFrame
           /\ (ctx # "live" => ctx' # "live") /\ (vuDone => vuDone')
<1>1. CASE e # "nil" /\ ~done
  BY <1>1 DEF CloseWithError
<1>2. CASE (e = "nil" \/ done) /\ ~(e # "nil" /\ ~done)
  <2>1. Dispatch(DeliverError(e, fails), ctx) /\ done' = done
    BY <1>2 DEF CloseWithError
  <2>2. DeliverError(e, fails).event = "error"
    BY DEF DeliverError
  <2>3. QED
    BY <2>1, <2>2, DispatchIs
<1>3. QED
  BY <1>1, <1>2 DEF CloseWithError

\* What a step of the event loop does to the parts of the measure.
LEMMA EventLoopFrame ==
    ASSUME TypeOK, UNCHANGED taskUnchanged, js \in {"idle", "closing", "listener"},
           js' \in {"idle", "closing", "listener"},
           ctx # "live" => ctx' # "live", vuDone => vuDone',
           \/ ~done /\ done' /\ js # "closing"
           \/ done' = done /\ js' # "closing"
    PROVE  /\ Onward
           /\ WriterLeft' = WriterLeft /\ ReaderLeft' = ReaderLeft /\ LoopLeft' = LoopLeft
           /\ CloseLeft' <= CloseLeft
           /\ ~(done' = done /\ js # "closing") => CloseLeft' < CloseLeft
<1>0. /\ turns \in Nat /\ written \in Nat /\ arrived \in Nat /\ done \in BOOLEAN
      /\ \A e \in Events : listeners[e] \in Nat
  BY DEF TypeOK
<1>1. Onward
  BY <1>0 DEF Onward, taskUnchanged
<1>2. WriterLeft' = WriterLeft /\ ReaderLeft' = ReaderLeft /\ LoopLeft' = LoopLeft
  BY DEF WriterLeft, ReaderLeft, LoopLeft, One, taskUnchanged, writerVars
<1>3. CloseLeft' <= CloseLeft /\ (~(done' = done /\ js # "closing") => CloseLeft' < CloseLeft)
  BY <1>0 DEF CloseLeft, One
<1>4. QED
  BY <1>1, <1>2, <1>3

\* The parts other than Outer get less.
Shrinks ==
    \/ Inner' < Inner
    \/ /\ Inner' <= Inner
       /\ \/ Len(tasks') < Len(tasks)
          \/ Len(tasks') <= Len(tasks) /\ InData' < InData
          \/ Len(tasks') <= Len(tasks) /\ InData' <= InData /\ InLoop' < InLoop

\* A task is run.
LEMMA RunTaskStep ==
    ASSUME TypeOK, AreNumbers, AreNumbers', RunTask
    PROVE  Onward /\ Shrinks
<1>0. tasks \in Seq(Task) /\ vuDone \in BOOLEAN /\ done \in BOOLEAN /\ Len(tasks) \in Nat
  BY LenProperties DEF TypeOK
<1>1. /\ js = "idle" /\ UNCHANGED taskUnchanged /\ Len(tasks') = Len(tasks) - 1
  BY <1>0, TakeEffect DEF RunTask, RunData, RunClose, RunEnd, taskUnchanged
<1>2. /\ js' \in {"idle", "closing", "listener"}
      /\ (ctx # "live" => ctx' # "live") /\ (vuDone => vuDone')
      /\ \/ ~done /\ done'
         \/ done' = done /\ js' # "closing"
  <2>1. CASE RunData
    BY <1>0, <2>1, DispatchIs DEF RunData
  <2>2. CASE RunClose
    BY <1>0, <2>2, CloseIs DEF RunClose
  <2>3. CASE RunEnd
    BY <1>0, <2>3, DispatchIs DEF RunEnd
  <2>4. QED
    BY <2>1, <2>2, <2>3 DEF RunTask
<1>3. /\ Onward
      /\ WriterLeft' = WriterLeft /\ ReaderLeft' = ReaderLeft /\ LoopLeft' = LoopLeft
      /\ CloseLeft' <= CloseLeft
  BY <1>1, <1>2, EventLoopFrame
<1>4. Inner' <= Inner
  BY <1>3, InnerLess DEF AreNumbers
<1>5. QED
  BY <1>0, <1>1, <1>3, <1>4 DEF Shrinks

\* close goes on, or a listener ends.
LEMMA ListenerStep ==
    ASSUME TypeOK, AreNumbers, AreNumbers', CloseQueuesEnd \/ ListenerEnds
    PROVE  Onward /\ Shrinks
<1>0. /\ vuDone \in BOOLEAN /\ done \in BOOLEAN /\ Len(tasks) \in Nat
      /\ cur \in Frame /\ cur.next \in Nat /\ cur.upto \in Nat
  BY LenProperties DEF TypeOK, Frame
<1>1. CASE CloseQueuesEnd
  <2>1. /\ js = "closing" /\ UNCHANGED taskUnchanged /\ done' = done
        /\ Dispatch(cur, IF timeout THEN Cancelled(ctx) ELSE ctx)
    BY <1>1 DEF CloseQueuesEnd
  <2>2. /\ js' \in {"idle", "listener"}
        /\ (ctx # "live" => ctx' # "live") /\ (vuDone => vuDone')
    BY <1>0, <2>1, DispatchIs DEF Cancelled
  <2>3. /\ Onward
        /\ WriterLeft' = WriterLeft /\ ReaderLeft' = ReaderLeft /\ LoopLeft' = LoopLeft
        /\ CloseLeft' < CloseLeft
    BY <2>1, <2>2, EventLoopFrame
  <2>4. Inner' < Inner
    BY <2>3, InnerLess DEF AreNumbers
  <2>5. QED
    BY <2>3, <2>4 DEF Shrinks
<1>2. CASE DataListenerThrows
  <2>1. /\ js = "listener" /\ cur.event = "data" /\ UNCHANGED taskUnchanged
        /\ UNCHANGED tasks /\ CloseWithError("Thrown", TRUE)
    BY <1>2 DEF DataListenerThrows, tqVars
  <2>2. /\ \/ ~done /\ done' /\ js' = "closing"
           \/ /\ done' = done
              /\ \/ js' = "listener" /\ cur'.event = "error"
                 \/ js' = "idle" /\ cur' = NoFrame
        /\ (ctx # "live" => ctx' # "live") /\ (vuDone => vuDone')
    BY <1>0, <2>1, CloseIs
  <2>3. /\ Onward
        /\ WriterLeft' = WriterLeft /\ ReaderLeft' = ReaderLeft /\ LoopLeft' = LoopLeft
        /\ CloseLeft' <= CloseLeft /\ (done' # done => CloseLeft' < CloseLeft)
    BY <2>1, <2>2, EventLoopFrame
  <2>4. Inner' <= Inner /\ (done' # done => Inner' < Inner)
    BY <2>3, InnerLess DEF AreNumbers
  <2>5. done' = done => InData' < InData
    BY <2>1, <2>2 DEF InData, One, NoFrame
  <2>6. QED
    BY <1>0, <2>1, <2>3, <2>4, <2>5 DEF Shrinks
<1>3. CASE ListenerReturns \/ OtherListenerThrows
  <2>1. /\ js = "listener" /\ UNCHANGED taskUnchanged /\ UNCHANGED <<tasks, done>>
    BY <1>3 DEF ListenerReturns, OtherListenerThrows, tqVars
  <2>2. /\ \/ /\ js' = "listener" /\ cur'.event = cur.event
              /\ cur'.next = cur.next + 1 /\ cur'.upto = cur.upto /\ cur'.next <= cur'.upto
           \/ js' = "idle" /\ cur' = NoFrame
        /\ (ctx # "live" => ctx' # "live") /\ (vuDone => vuDone')
    <3>1. CASE ListenerReturns
      <4> DEFINE f == [cur EXCEPT !.next = @ + 1]
      <4>1. f.event = cur.event /\ f.next = cur.next + 1 /\ f.upto = cur.upto
        BY <1>0 DEF Frame
      <4>2. Dispatch(f, ctx)
        BY <3>1 DEF ListenerReturns
      <4> HIDE DEF f
      <4>3. QED
        BY <1>0, <4>1, <4>2, DispatchIs
    <3>2. CASE OtherListenerThrows
      <4> DEFINE f == [cur EXCEPT !.next = cur.upto + 1, !.fails = TRUE]
      <4>1. f.next = cur.upto + 1 /\ f.upto = cur.upto
        BY <1>0 DEF Frame
      <4>2. Dispatch(f, ctx)
        BY <3>2 DEF OtherListenerThrows
      <4> HIDE DEF f
      <4>3. QED
        BY <1>0, <4>1, <4>2, DispatchIs
    <3>3. QED
      BY <1>3, <3>1, <3>2
  <2>3. /\ Onward
        /\ WriterLeft' = WriterLeft /\ ReaderLeft' = ReaderLeft /\ LoopLeft' = LoopLeft
        /\ CloseLeft' <= CloseLeft
    BY <2>1, <2>2, EventLoopFrame
  <2>4. Inner' <= Inner
    BY <2>3, InnerLess DEF AreNumbers
  <2>5. InData' <= InData
    BY <2>2 DEF InData, One, NoFrame
  <2>6. InLoop' < InLoop
    BY <1>0, <2>1, <2>2 DEF InLoop, One, Slack
  <2>7. QED
    BY <1>0, <2>1, <2>3, <2>4, <2>5, <2>6 DEF Shrinks
<1>4. QED
  BY <1>1, <1>2, <1>3 DEF ListenerEnds

\* The script's turn ends.
LEMMA ReturnStep ==
    ASSUME TypeOK, AreNumbers, AreNumbers', ScriptReturns
    PROVE  Onward /\ Shrinks
<1>0. /\ turns \in Nat /\ written \in Nat /\ arrived \in Nat /\ Len(tasks) \in Nat
      /\ \A e \in Events : listeners[e] \in Nat
  BY LenProperties DEF TypeOK
<1>1. /\ js = "script" /\ js' = "idle"
      /\ UNCHANGED <<tqVars, rawVars, cur, out, listeners, writingState, timeout,
                     turns, written, writerVars, eventVars, done, lp, rd, cause>>
  BY DEF ScriptReturns
<1>2. Onward
  BY <1>0, <1>1 DEF Onward, rawVars
<1>3. /\ WriterLeft' = WriterLeft /\ ReaderLeft' = ReaderLeft /\ LoopLeft' = LoopLeft
      /\ CloseLeft' = CloseLeft
  BY <1>1 DEF WriterLeft, ReaderLeft, LoopLeft, CloseLeft, One, rawVars, writerVars
<1>4. Inner' <= Inner
  BY <1>3, InnerLess DEF AreNumbers
<1>5. Len(tasks') = Len(tasks) /\ InData' = InData /\ InLoop' < InLoop
  BY <1>1 DEF InData, InLoop, One, tqVars
<1>6. QED
  BY <1>0, <1>2, <1>4, <1>5 DEF Shrinks, AreNumbers

FewerLeft == <<StepsLeft', StepsLeft>> \in Less(Nat, 5)

\* Every step leaves fewer.
LEMMA StepLeavesFewer ==
    ASSUME TypeOK, TypeOK', AreNumbers, AreNumbers', [Next]_vars, vars' # vars
    PROVE  FewerLeft
<1>1. Onward /\ (Further \/ Shrinks)
  <2>1. CASE Writer
    <3>1. /\ Onward /\ WriterLeft' < WriterLeft
          /\ ReaderLeft' = ReaderLeft /\ LoopLeft' = LoopLeft /\ CloseLeft' = CloseLeft
      BY <2>1, WriterStep
    <3>2. QED
      BY <3>1, InnerLess DEF AreNumbers, Shrinks
  <2>2. CASE Receive \/ Loop
    <3>1. /\ Onward /\ WriterLeft' = WriterLeft /\ CloseLeft' = CloseLeft
          /\ \/ ReaderLeft' < ReaderLeft /\ LoopLeft' = LoopLeft
             \/ ReaderLeft' = ReaderLeft /\ LoopLeft' < LoopLeft
      BY <2>2, ReaderLoopStep
    <3>2. QED
      BY <3>1, InnerLess DEF AreNumbers, Shrinks
  <2>3. CASE EventLoop \/ ScriptReturns
    BY <2>3, RunTaskStep, ListenerStep, ReturnStep DEF EventLoop
  <2>4. QED
    BY <2>1, <2>2, <2>3, OuterStep DEF Next, Script, Stutter
<1>2. Outer' <= Outer /\ (Further => Outer' < Outer)
  BY <1>1, OuterLess
<1>3. \/ Outer' < Outer
      \/ Outer' <= Outer /\ Inner' < Inner
      \/ Outer' <= Outer /\ Inner' <= Inner /\ Len(tasks') < Len(tasks)
      \/ Outer' <= Outer /\ Inner' <= Inner /\ Len(tasks') <= Len(tasks) /\ InData' < InData
      \/ Outer' <= Outer /\ Inner' <= Inner /\ Len(tasks') <= Len(tasks) /\ InData' <= InData
         /\ InLoop' < InLoop
  BY <1>1, <1>2 DEF Shrinks
<1>4. /\ Outer \in Nat /\ Inner \in Nat /\ Len(tasks) \in Nat /\ InData \in Nat /\ InLoop \in Nat
      /\ Outer' \in Nat /\ Inner' \in Nat /\ Len(tasks') \in Nat /\ InData' \in Nat
      /\ InLoop' \in Nat
  BY DEF AreNumbers
<1>5. <<Numbers(Outer', Inner', Len(tasks'), InData', InLoop'),
        Numbers(Outer, Inner, Len(tasks), InData, InLoop)>> \in Less(Nat, 5)
  BY <1>3, <1>4, NumbersLess
<1>6. QED
  BY <1>5 DEF FewerLeft, StepsLeft, Numbers

\* A stream takes only so many steps, for any bounds on the calls of the script, the
\* messages of the server and the listeners: each one leaves fewer, in a measure that
\* cannot get less for ever.  What StillIsOver says of the state in which no thread can
\* go on is thus said of the end of every behaviour in which the threads are run
\* (stream.go:76-430).
THEOREM StepsEnd ==
    /\ IsWellFoundedOn(Less(Nat, 5), Measures(Nat, 5))
    /\ Spec => [](StepsLeft \in Measures(Nat, 5))
    /\ Spec => [][FewerLeft]_vars
<1>1. IsWellFoundedOn(Less(Nat, 5), Measures(Nat, 5))
  BY LessWellFounded
<1>2. AreNumbers => StepsLeft \in Measures(Nat, 5)
  BY NumbersAre DEF AreNumbers, StepsLeft
<1>3. TypeOK /\ TypeOK' /\ AreNumbers /\ AreNumbers' /\ [Next]_vars
        => [FewerLeft]_vars
  BY StepLeavesFewer
<1>4. QED
  BY <1>1, <1>2, <1>3, NumbersTyped, TypeCorrect, PTL DEF Spec
-----------------------------------------------------------------------------
(* What the steps come to.  From a measure that each step makes less to a last
   step it takes an induction, which is not for the provers; FewerEnds is that
   rule for this measure.  It says nothing of the stream: StepsEnd proves each of
   its premises, and without them it demands nothing.                           *)

\* What gets less with each step, in a well-founded order, comes to rest.
FewerEnds ==
    /\ IsWellFoundedOn(Less(Nat, 5), Measures(Nat, 5))
    /\ [](StepsLeft \in Measures(Nat, 5))
    /\ [][FewerLeft]_vars
    => <>[][FALSE]_vars

\* Nobody whom Fairness speaks of can go on.
AllWait ==
    ~(EventLoopGoesOn \/ CallGoesOn \/ HandoffGoesOn \/ QueueStops \/ SenderGoesOn
        \/ ReaderGoesOn \/ LoopGoesOn)

\* Where no step is taken, the guards stay as they are.
LEMMA GuardsStay ==
    ASSUME [FALSE]_vars
    PROVE  /\ EventLoopGoesOn' <=> EventLoopGoesOn
           /\ CallGoesOn' <=> CallGoesOn
           /\ HandoffGoesOn' <=> HandoffGoesOn
           /\ QueueStops' <=> QueueStops
           /\ SenderGoesOn' <=> SenderGoesOn
           /\ ReaderGoesOn' <=> ReaderGoesOn
           /\ LoopGoesOn' <=> LoopGoesOn
  BY DEF vars, tqVars, rawVars, jsVars, writerVars, eventVars, EventLoopGoesOn, CallGoesOn,
     HandoffGoesOn, QueueStops, SenderGoesOn, ReaderGoesOn, LoopGoesOn, Terminated

\* When the last step has been taken, nobody can go on.
LEMMA ComesToRest ==
    FairSpec /\ []GuardsAreEnabled /\ FewerEnds => <>[]AllWait
<1> DEFINE EL == ScriptReturns \/ ListenerEnds \/ RunTask \/ CloseQueuesEnd
           SE == SenderExit \/ SendEOF \/ SendClose
<1>1. FairSpec /\ FewerEnds => <>[][FALSE]_vars
  BY StepsEnd, PTL DEF FairSpec, FewerEnds
<1>2. GuardsAreEnabled =>
        /\ EventLoopGoesOn => ENABLED <<EL>>_vars
        /\ CallGoesOn => ENABLED <<QueueReceives>>_vars
        /\ HandoffGoesOn => ENABLED <<Handoff>>_vars
        /\ QueueStops => ENABLED <<QueueExit>>_vars
        /\ SenderGoesOn => ENABLED <<SE>>_vars
        /\ ReaderGoesOn => ENABLED <<Receive>>_vars
        /\ LoopGoesOn => ENABLED <<Loop>>_vars
  BY DEF GuardsAreEnabled
<1>3. [][FALSE]_vars => /\ [](EventLoopGoesOn) \/ [](~EventLoopGoesOn)
                        /\ []CallGoesOn \/ [](~CallGoesOn)
                        /\ []HandoffGoesOn \/ [](~HandoffGoesOn)
                        /\ []QueueStops \/ [](~QueueStops)
                        /\ []SenderGoesOn \/ [](~SenderGoesOn)
                        /\ []ReaderGoesOn \/ [](~ReaderGoesOn)
                        /\ []LoopGoesOn \/ [](~LoopGoesOn)
  BY GuardsStay, PTL
<1>4. [][FALSE]_vars /\ []GuardsAreEnabled /\ Fairness =>
         /\ [](~EventLoopGoesOn) /\ [](~CallGoesOn) /\ [](~HandoffGoesOn) /\ [](~QueueStops)
         /\ [](~SenderGoesOn) /\ [](~ReaderGoesOn) /\ [](~LoopGoesOn)
  BY <1>2, <1>3, PTL DEF Fairness
<1>5. ~EventLoopGoesOn /\ ~CallGoesOn /\ ~HandoffGoesOn /\ ~QueueStops /\ ~SenderGoesOn
        /\ ~ReaderGoesOn /\ ~LoopGoesOn => AllWait
  BY DEF AllWait
<1>6. QED
  BY <1>1, <1>4, <1>5, PTL DEF FairSpec, Fairness

\* No step takes back that the stream was made, the RPC is over, end was called or the
\* stream is done; before the stream is made nothing of this happens; and a task queue
\* that keeps late tasks loses none.
LEMMA NoWayBack ==
    ASSUME TypeOK, ThreadsInv, Duties, [Next]_vars
    PROVE  /\ js' \in {"off", "failed"} =>
                /\ js \in {"off", "failed"}
                /\ UNCHANGED <<srv, ctx, writingState>>
           /\ srv # "open" => srv' # "open"
           /\ ctx # "live" => ctx' # "live"
           /\ writingState = "closed" => writingState' = "closed"
           /\ done => done' /\ timeout' = timeout
           /\ KeepsLateTasks => lost' = lost
<1> USE DEF vars, tqVars, rawVars, jsVars, writerVars, eventVars
<1>0. done \in BOOLEAN /\ done' \in BOOLEAN
  BY TypeStep DEF TypeOK
<1>1. CASE Constructor
  BY <1>1 DEF Constructor, Begin, BeginFails, CloseQueue, Duties
<1>2. CASE Script
  BY <1>2 DEF Script, ScriptTurn, ScriptReturns, On, Write, End, Offer, MayCall, InScript
<1>3. CASE Writer
  <2>1. /\ UNCHANGED <<srv, writingState, done, timeout>>
        /\ js' = js \/ js' \in {"script", "listener"}
        /\ ctx # "live" => ctx' # "live"
        /\ KeepsLateTasks => lost' = lost
    BY <1>3 DEF Writer, QueueReceives, Handoff, QueueExit, SenderExit, SendOK, SendEOF,
       SendFails, SendClose, SenderReturns, Cancelled, Queue
  <2>2. js \in {"off", "failed"} => ctx' = ctx
    BY <1>3 DEF ThreadsInv, Writer, QueueReceives, Handoff, QueueExit, SenderExit, SendOK,
       SendEOF, SendFails, SendClose
  <2>3. QED
    BY <2>1, <2>2
<1>4. CASE Receive
  BY <1>4 DEF Receive, RecvMessage, RecvBadMessage, RecvEnd, RecvCtx, ReaderStops, Queue
<1>5. CASE Loop
  BY <1>5 DEF Loop, LoopCtxDone, LoopDone, LoopClose, CloseQueue, Queue
<1>6. CASE EventLoop
  <2>1. UNCHANGED <<srv, writingState, timeout>> /\ js' \notin {"off", "failed"}
    BY <1>6 DEF EventLoop, RunTask, RunData, RunClose, RunEnd, CloseQueuesEnd, ListenerEnds,
       ListenerReturns, DataListenerThrows, OtherListenerThrows, CloseWithError, Dispatch,
       taskUnchanged
  <2>2. (ctx # "live" => ctx' # "live") /\ (done => done')
    <3>1. CASE RunTask
      BY <1>0, <3>1 DEF RunTask, RunData, RunClose, RunEnd, CloseWithError, Dispatch, Cancelled
    <3>2. CASE CloseQueuesEnd
      BY <3>2 DEF CloseQueuesEnd, Dispatch, Cancelled
    <3>3. CASE ListenerEnds
      BY <1>0, <3>3 DEF ListenerEnds, ListenerReturns, DataListenerThrows, OtherListenerThrows,
         CloseWithError, Dispatch, Cancelled
    <3>4. QED
      BY <1>6, <3>1, <3>2, <3>3 DEF EventLoop
  <2>3. KeepsLateTasks => lost' = lost
    BY <1>6 DEF EventLoop, RunTask, RunData, RunClose, RunEnd, CloseQueuesEnd, ListenerEnds,
       ListenerReturns, DataListenerThrows, OtherListenerThrows, Take, Queue
  <2>4. QED
    BY <2>1, <2>2, <2>3
<1>7. CASE Env \/ Stutter \/ UNCHANGED vars
  <2>1. /\ UNCHANGED <<js, writingState, timeout, done, lost>>
        /\ js \in {"off", "failed"} => UNCHANGED <<srv, ctx>>
    BY <1>7 DEF Env, Stutter
  <2>2. (srv # "open" => srv' # "open") /\ (ctx # "live" => ctx' # "live")
    BY <1>7 DEF Env, Stutter, ServerSends, ServerFinishes, VUCancelled, DeadlineExpires,
       Cancelled
  <2>3. QED
    BY <2>1, <2>2
<1>8. QED
  BY <1>1, <1>2, <1>3, <1>4, <1>5, <1>6, <1>7 DEF Next

\* Before the stream is made, its RPC is live and end has not been called.
Fresh ==
    /\ js \in {"off", "failed"} => ~Terminated /\ writingState = "opened"
    /\ KeepsLateTasks => lost = {}

LEMMA FreshHolds == Spec => []Fresh
<1>1. Init => Fresh
  BY DEF Init, TQInit, RawInit, Fresh, Terminated
<1>2. TypeOK /\ ThreadsInv /\ Duties /\ Fresh /\ [Next]_vars => Fresh'
  BY NoWayBack DEF Fresh, Terminated
<1>3. QED
  BY <1>1, <1>2, TypeCorrect, Threads, DutiesHold, PTL DEF Spec

\* In a script without late calls, a stream that was made and whose threads all wait
\* is as StillIsOver says.
LEMMA RestIsOver ==
    ASSUME ~LateCalls, Duties, Fresh, StillIsOver, AllWait
    PROVE  /\ Terminated => Ended /\ done
           /\ done => timeout = FALSE \/ Ended
           /\ done => endRuns = 1 \/ "end" \in lost
           /\ writingState = "closed" => closeSent \/ done \/ ws = "sending"
<1>1. CASE js \in {"off", "failed"}
  BY <1>1 DEF Fresh, Duties
<1>2. CASE js \notin {"off", "failed"}
  <2>1. Still
    BY <1>2 DEF Still, AllWait, Duties
  <2>2. QED
    BY <2>1 DEF StillIsOver
<1>3. QED
  BY <1>1, <1>2


\* These are not taken back either.
LEMMA StaysOver ==
    ASSUME TypeOK, ThreadsInv, Duties, [Next]_vars
    PROVE  /\ Terminated => Terminated'
           /\ srv # "open" => (srv # "open")'
           /\ done => done'
           /\ done /\ timeout => (done /\ timeout)'
           /\ writingState = "closed" => (writingState = "closed")'
  BY NoWayBack DEF Terminated

\* What is the case whenever the threads all wait for good.
LEMMA RestInv ==
    ASSUME ~LateCalls
    PROVE  FairSpec /\ []GuardsAreEnabled /\ FewerEnds =>
              /\ <>[]AllWait
              /\ [](TypeOK /\ ThreadsInv /\ Duties /\ Fresh /\ StillIsOver)
  BY ComesToRest, TypeCorrect, Threads, DutiesHold, FreshHolds, StillOver, PTL DEF FairSpec

\* A stream whose RPC is over winds down to the release of its callback, and the k6
\* iteration can end, whoever ended the RPC and whatever is waiting in the queues then
\* (loop, readData, writeData, close, stream.go:114-407).
THEOREM StreamWindsDown ==
    ASSUME ~LateCalls
    PROVE  FairSpec /\ []GuardsAreEnabled /\ FewerEnds => WindsDown
<1>1. TypeOK /\ ThreadsInv /\ Duties /\ [Next]_vars => (Terminated => Terminated')
  BY StaysOver
<1>2. Duties /\ Fresh /\ StillIsOver /\ AllWait => (Terminated => Ended)
  BY RestIsOver
<1>3. QED
  BY <1>1, <1>2, RestInv, PTL DEF FairSpec, Spec, WindsDown

\* A stream that is closed, or whose server has finished, delivers its end event, also
\* if the client never calls end, unless the task queue drops tasks that come after its
\* Close (readData, closeWithError, close, stream.go:114-202, 341-407).
THEOREM EndIsDelivered ==
    ASSUME ~LateCalls, KeepsLateTasks
    PROVE  FairSpec /\ []GuardsAreEnabled /\ FewerEnds => EndDelivered
<1>1. TypeOK /\ ThreadsInv /\ Duties /\ [Next]_vars
        => (done \/ srv # "open" => (done \/ srv # "open")')
  BY StaysOver
<1>2. Duties /\ Fresh /\ StillIsOver /\ AllWait => (done \/ srv # "open" => endRuns > 0)
  <2>1. (Fresh => lost = {}) /\ (srv # "open" => Terminated)
    BY DEF Fresh, Terminated
  <2>2. QED
    BY <2>1, RestIsOver
<1>3. QED
  BY <1>1, <1>2, RestInv, PTL DEF FairSpec, Spec, EndDelivered

\* What end() asks for reaches the server, past everything written before, if no Send
\* is held up for ever (writeData, stream.go:211-284).
THEOREM HalfCloseReached ==
    ASSUME ~LateCalls
    PROVE  FairSpec /\ []GuardsAreEnabled /\ FewerEnds => HalfCloseSent
<1>1. TypeOK /\ ThreadsInv /\ Duties /\ [Next]_vars
        => (writingState = "closed" => (writingState = "closed")')
  BY StaysOver
<1>2. Duties /\ Fresh /\ StillIsOver /\ AllWait /\ (ws # "sending" \/ Terminated)
        => (writingState = "closed" => closeSent \/ done \/ ws = "exited")
  BY RestIsOver
<1>3. QED
  BY <1>1, <1>2, RestInv, PTL DEF FairSpec, Spec, HalfCloseSent

\* A stream with a timeout that was closed on the client's side winds down although
\* its server may never finish: close cancels the RPC (close, stream.go:341-369).
THEOREM ClosedStreamWindsDown ==
    ASSUME ~LateCalls
    PROVE  FairSpec /\ []GuardsAreEnabled /\ FewerEnds => ClosedWindsDown
<1>1. TypeOK /\ ThreadsInv /\ Duties /\ [Next]_vars
        => (done /\ timeout => (done /\ timeout)')
  BY StaysOver
<1>2. Duties /\ Fresh /\ StillIsOver /\ AllWait => (done /\ timeout => Ended)
  BY RestIsOver
<1>3. QED
  BY <1>1, <1>2, RestInv, PTL DEF FairSpec, Spec, ClosedWindsDown
=============================================================================
