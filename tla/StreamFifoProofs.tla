--------------------------- MODULE StreamFifoProofs ---------------------------
(***************************************************************************)
(* Stream implements Fifo in both directions, for every value of the       *)
(* constants: each of its steps maps to a step of Fifo or to none.         *)
(***************************************************************************)
EXTENDS StreamProofs

-----------------------------------------------------------------------------
(* What the script writes *)

\* The message in the hands of the sending goroutine is one the script has
\* written, also when the queue goroutine, and what it knows, is gone.
HeldInv == ws = "sending" /\ held # Closing => held <= written

LEMMA HeldInit == Init => HeldInv
  BY DEF Init, HeldInv

\* What Handoff takes is the next message, and there is one.
LEMMA HeldHandoff ==
    ASSUME TypeOK, WriteInv, Handoff
    PROVE  HeldInv'
<1>0. /\ wqueue \in Seq(Nat) /\ Len(wqueue) \in Nat /\ Len(wqueue) > 0
      /\ sent \in Nat /\ written \in Nat /\ writingState \in {"opened", "closed"}
  BY DEF TypeOK, Handoff
<1>1. /\ wq = "run" /\ ws = "ready" /\ held' = wqueue[1] /\ written' = written
  BY DEF Handoff, jsVars
<1>2. QueueInv /\ Taken = sent
  BY <1>1 DEF WriteInv, Taken
<1>3. CASE wqueue[1] # Closing
  <2>1. held' = sent + 1
    BY <1>0, <1>1, <1>2, <1>3 DEF QueueInv, InPlace
  <2>2. CASE writingState = "closed" /\ js # "sending"
    <3>1. 1 # Len(wqueue)
      BY <1>0, <1>2, <1>3, <2>2 DEF QueueInv, ClosingIsLast
    <3>2. sent + Len(wqueue) = written + 1
      BY <1>2, <2>2 DEF QueueInv, UpToLast
    <3>3. sent + 1 <= written
      <4>1. \A n \in Nat : n > 0 /\ 1 # n => n >= 2
        OBVIOUS
      <4>2. Len(wqueue) >= 2
        BY <1>0, <3>1, <4>1
      <4>3. \A n, a, b \in Nat : n >= 2 /\ a + n = b + 1 => a + 1 <= b
        OBVIOUS
      <4>4. QED
        BY <1>0, <3>2, <4>2, <4>3
    <3>4. QED
      BY <1>1, <2>1, <3>3 DEF HeldInv
  <2>3. CASE writingState # "closed" \/ js = "sending"
    BY <1>0, <1>1, <1>2, <2>1, <2>3 DEF QueueInv, UpToLast, HeldInv
  <2>4. QED
    BY <2>2, <2>3
<1>4. CASE wqueue[1] = Closing
  BY <1>1, <1>4 DEF HeldInv, Closing
<1>5. QED
  BY <1>3, <1>4

LEMMA HeldStep ==
    ASSUME TypeOK, WriteInv, HeldInv, [Next]_vars
    PROVE  HeldInv'
<1> USE DEF HeldInv, tqVars, rawVars, jsVars, writerVars, eventVars, Closing
<1>0. held \in Nat /\ written \in Nat
  BY DEF TypeOK
<1>1. CASE Constructor \/ Script
  BY <1>0, <1>1 DEF Constructor, Begin, BeginFails, Script, ScriptTurn, ScriptReturns, On,
                    Write, End
<1>2. CASE Writer
  BY <1>2, HeldHandoff DEF Writer, QueueReceives, QueueExit, SenderExit, SendOK, SendEOF,
                 SendFails, SendClose, SenderReturns
<1>3. CASE Receive \/ Loop \/ Env
  BY <1>3 DEF Receive, RecvMessage, RecvBadMessage, RecvEnd, RecvCtx, ReaderStops, Loop,
              LoopCtxDone, LoopDone, LoopClose, Env
<1>4. CASE EventLoop
  BY <1>4 DEF EventLoop, RunTask, RunData, RunClose, RunEnd, CloseQueuesEnd, ListenerEnds,
              ListenerReturns, DataListenerThrows, OtherListenerThrows, taskUnchanged
<1>5. CASE UNCHANGED vars
  BY <1>5 DEF vars
<1>6. QED
  BY <1>1, <1>2, <1>3, <1>4, <1>5 DEF Next, Stutter

LEMMA Held == Spec => []HeldInv
  BY HeldInit, HeldStep, TypeCorrect, Writes, PTL DEF Spec

\* Write, End, SendOK and SendClose are the steps of the channel.
LEMMA OutgoingStep ==
    ASSUME TypeOK, WriteInv, HeldInv, [Next]_vars
    PROVE  [Outgoing!Next]_(Outgoing!vars)
<1> USE DEF Outgoing!Next, Outgoing!vars, writerVars, jsVars
<1>0. /\ sent \in Nat /\ written \in Nat /\ closeSent \in BOOLEAN
      /\ writingState \in {"opened", "closed"}
  BY DEF TypeOK
<1>1. CASE Write
  <2>1. Outgoing!Put
    BY <1>1 DEF Write, Outgoing!Put
  <2>2. QED
    BY <2>1
<1>2. CASE End
  <2>1. Outgoing!Shut
    BY <1>2 DEF End, Outgoing!Shut
  <2>2. QED
    BY <2>1
<1>3. CASE SendOK
  <2>1. ~closeSent /\ held = sent + 1 /\ held <= written
    BY <1>0, <1>3 DEF SendOK, WriteInv, HeldInv
  <2>2. Outgoing!Take
    BY <1>0, <1>3, <2>1 DEF SendOK, Outgoing!Take
  <2>3. QED
    BY <2>2
<1>4. CASE SendClose
  <2>1. ~closeSent /\ sent = written /\ writingState = "closed"
    BY <1>0, <1>4 DEF SendClose, WriteInv
  <2>2. Outgoing!Finish
    BY <1>4, <2>1 DEF SendClose, Outgoing!Finish
  <2>3. QED
    BY <2>2
<1>5. CASE Constructor \/ ScriptTurn \/ ScriptReturns \/ \E e \in Listened : On(e)
  BY <1>5 DEF Constructor, Begin, BeginFails, ScriptTurn, ScriptReturns, On
<1>6. CASE QueueReceives \/ Handoff \/ QueueExit \/ SenderExit \/ SendEOF \/ SendFails
  BY <1>6 DEF QueueReceives, Handoff, QueueExit, SenderExit, SendEOF, SendFails
<1>7. CASE Receive \/ Loop \/ Env
  BY <1>7 DEF Receive, RecvMessage, RecvBadMessage, RecvEnd, RecvCtx, ReaderStops, Loop,
              LoopCtxDone, LoopDone, LoopClose, Env
<1>8. CASE EventLoop
  BY <1>8 DEF EventLoop, RunTask, RunData, RunClose, RunEnd, CloseQueuesEnd, ListenerEnds,
              ListenerReturns, DataListenerThrows, OtherListenerThrows, taskUnchanged
<1>9. CASE UNCHANGED vars
  BY <1>9 DEF vars
<1>10. QED
  BY <1>1, <1>2, <1>3, <1>4, <1>5, <1>6, <1>7, <1>8, <1>9
     DEF Next, Script, Writer, Stutter

\* The write queue, its two goroutines and end() are one channel from the script
\* to the server, for any number of messages.
THEOREM OutgoingImplementsFifo == Spec => OutgoingIsFifo
<1>1. Init => Outgoing!Init
  BY DEF Init, Outgoing!Init
<1>2. TypeOK /\ WriteInv /\ HeldInv /\ [Next]_vars => [Outgoing!Next]_(Outgoing!vars)
  BY OutgoingStep
<1>3. QED
  BY <1>1, <1>2, TypeCorrect, Writes, Held, PTL DEF Spec, OutgoingIsFifo, Outgoing!Spec

-----------------------------------------------------------------------------
(* What the server sends *)

\* Of a stream that is closed because it ended well, all data is delivered.
LEMMA EndedWell ==
    ASSUME TypeOK, ReadInv, cause = "EOF"
    PROVE  /\ dataSeen = arrived /\ srv # "open"
           /\ \A i \in 1..Len(tasks) : ~IsData(i)
<1>1. arrived \in Nat /\ received \in Nat /\ dataSeen \in Nat
  BY DEF TypeOK
<1>2. received = arrived /\ dataSeen <= received /\ srv # "open"
  BY DEF ReadInv, CauseInv, Stopped, ReaderErrs
<1>3. \A i \in 1..Len(tasks) : ~IsData(i)
  BY DEF ReadInv, CauseInv, ReaderErrs
<1>4. ~(dataSeen < received)
  BY <1>1, <1>3 DEF ReadInv, DataComplete
<1>5. QED
  BY <1>1, <1>2, <1>3, <1>4

\* A data task is the next message, and the stream has not ended well.
LEMMA IncomingData ==
    ASSUME TypeOK, ReadInv, RunData
    PROVE  Incoming!Take
<1>0. tasks \in Seq(Task) /\ dataSeen \in Nat /\ received \in Nat /\ arrived \in Nat
  BY DEF TypeOK
<1>1. /\ Take("data") /\ dataSeen' = tasks[1].msg
      /\ UNCHANGED <<arrived, srv, endRuns, cause>>
  BY <1>0, TakeEffect DEF RunData, taskUnchanged
<1>2. Len(tasks) \in Nat /\ Len(tasks) > 0 /\ IsData(1)
  BY <1>0, <1>1, TakeEffect DEF IsData
<1>3. dataSeen' = dataSeen + 1 /\ dataSeen' <= received /\ received <= arrived
  BY <1>0, <1>1, <1>2, NextData DEF ReadInv, DataRange
<1>4. cause # "EOF"
  BY <1>2, EndedWell
<1>5. QED
  BY <1>0, <1>1, <1>3, <1>4 DEF Incoming!Take

\* The end event, of a stream that ended well or not.
LEMMA IncomingEnd ==
    ASSUME TypeOK, EndInv, ReadInv, RunEnd
    PROVE  Incoming!Finish \/ UNCHANGED Incoming!vars
<1>0. tasks \in Seq(Task) /\ endRuns \in Nat
  BY DEF TypeOK
<1>1. /\ Take("end") /\ endRuns' = endRuns + 1
      /\ UNCHANGED <<arrived, srv, dataSeen, cause>>
  BY DEF RunEnd, taskUnchanged
<1>2. endRuns = 0
  <2>1. Len(tasks) \in Nat /\ Len(tasks) > 0 /\ tasks[1].kind = "end"
    BY <1>0, <1>1, TakeEffect
  <2>2. QED
    BY <1>0, <2>1 DEF EndInv, NoEndTask
<1>3. CASE cause = "EOF"
  BY <1>0, <1>1, <1>2, <1>3, EndedWell DEF Incoming!Finish
<1>4. CASE cause # "EOF"
  BY <1>1, <1>4 DEF Incoming!vars
<1>5. QED
  BY <1>3, <1>4

\* close decides why a stream ends before its end event is there.
LEMMA IncomingClose ==
    ASSUME TypeOK, EndInv, NEW e, NEW fails, CloseWithError(e, fails),
           UNCHANGED <<arrived, srv, dataSeen, endRuns>>
    PROVE  UNCHANGED Incoming!vars
<1>1. CASE ~done
  BY <1>1 DEF EndInv, Incoming!vars
<1>2. CASE done
  BY <1>2 DEF CloseWithError, Incoming!vars
<1>3. QED
  BY <1>1, <1>2

LEMMA IncomingStep ==
    ASSUME TypeOK, EndInv, ReadInv, [Next]_vars
    PROVE  [Incoming!Next]_(Incoming!vars)
<1> USE DEF Incoming!Next
<1>1. CASE RunData
  BY <1>1, IncomingData
<1>2. CASE RunEnd
  BY <1>2, IncomingEnd
<1>3. CASE RunClose
  <2>1. UNCHANGED <<arrived, srv, dataSeen, endRuns>>
    BY <1>3 DEF RunClose, taskUnchanged, eventVars
  <2>2. QED
    BY <1>3, <2>1, IncomingClose DEF RunClose
<1>4. CASE DataListenerThrows
  <2>1. UNCHANGED <<arrived, srv, dataSeen, endRuns>>
    BY <1>4 DEF DataListenerThrows, taskUnchanged, eventVars
  <2>2. QED
    BY <1>4, <2>1, IncomingClose DEF DataListenerThrows
<1>5. CASE CloseQueuesEnd \/ ListenerReturns \/ OtherListenerThrows
  BY <1>5 DEF CloseQueuesEnd, ListenerReturns, OtherListenerThrows, taskUnchanged, eventVars,
              Incoming!vars
<1>6. CASE Env
  <2>1. UNCHANGED <<dataSeen, endRuns, cause>>
    BY <1>6 DEF Env, eventVars
  <2>2. CASE ServerSends
    <3>1. Incoming!Put
      BY <2>1, <2>2 DEF ServerSends, Incoming!Put
    <3>2. QED
      BY <3>1
  <2>3. CASE ServerFinishes
    <3>1. Incoming!Shut
      BY <2>1, <2>3 DEF ServerFinishes, Statuses, Incoming!Shut
    <3>2. QED
      BY <3>1
  <2>4. CASE VUCancelled \/ DeadlineExpires
    BY <2>1, <2>4 DEF VUCancelled, DeadlineExpires, Incoming!vars
  <2>5. QED
    BY <1>6, <2>2, <2>3, <2>4 DEF Env
<1>7. CASE Constructor \/ Script
  BY <1>7 DEF Constructor, Begin, BeginFails, Script, ScriptTurn, ScriptReturns, On, Write,
              End, rawVars, eventVars, Incoming!vars
<1>8. CASE Writer
  BY <1>8 DEF Writer, QueueReceives, Handoff, QueueExit, SenderExit, SendOK, SendEOF,
              SendFails, SendClose, rawVars, eventVars, Incoming!vars
<1>9. CASE Receive \/ Loop
  BY <1>9 DEF Receive, RecvMessage, RecvBadMessage, RecvEnd, RecvCtx, ReaderStops, Loop,
              LoopCtxDone, LoopDone, LoopClose, rawVars, eventVars, Incoming!vars
<1>10. CASE UNCHANGED vars
  BY <1>10 DEF vars, rawVars, eventVars, Incoming!vars
<1>11. QED
  BY <1>1, <1>2, <1>3, <1>4, <1>5, <1>6, <1>7, <1>8, <1>9, <1>10
     DEF Next, EventLoop, RunTask, ListenerEnds, Stutter

\* readData, the task queue and the listeners are one channel from the server to the
\* script, whose end a script sees only after all there was before it.
THEOREM IncomingImplementsFifo == Spec => IncomingIsFifo
<1>1. Init => Incoming!Init
  BY DEF Init, RawInit, Incoming!Init
<1>2. TypeOK /\ EndInv /\ ReadInv /\ [Next]_vars => [Incoming!Next]_(Incoming!vars)
  BY IncomingStep
<1>3. QED
  BY <1>1, <1>2, TypeCorrect, EndTasks, Reads, PTL DEF Spec, IncomingIsFifo, Incoming!Spec
=============================================================================
