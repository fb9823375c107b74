------------------------------- MODULE Stream -------------------------------
(***************************************************************************)
(* The client stream of grpc/stream.go: a JavaScript object with on, write *)
(* and end, whose work is shared by                                        *)
(*                                                                         *)
(*   js    the event-loop thread of the VU: the script's turns, the tasks  *)
(*         taken from the task queue and the listeners these call;         *)
(*   lp    the goroutine of loop, which waits for the end of the stream;   *)
(*   rd    the goroutine of readData;                                      *)
(*   wq    the goroutine of writeData, which keeps the write queue;        *)
(*   ws    the goroutine writeData starts, which sends to the server.      *)
(*                                                                         *)
(* The goroutines talk over the unbuffered channels writeQueueCh (js to    *)
(* wq) and writeChannel (wq to ws), the channel done that close closes,    *)
(* and the task queue (everyone to js).  Messages are numbers: those the   *)
(* script writes 1, 2, ... in the order of the calls, and those of the     *)
(* server likewise (see RawStream).                                        *)
(***************************************************************************)
EXTENDS TaskQueue, RawStream

CONSTANTS
    MaxWrites,     \* bound on the messages the script writes
    Listened,      \* the events the script listens to
    MaxListeners,  \* bound on the listeners of one event
    MaxTurns,      \* bound on the script's turns after its first one
    Timeouts,      \* whether the stream may be given a timeout, may not, or both
    LateCalls      \* whether scripts call write and end once the stream is done

\* The events close and the tasks deliver.  "status" can be registered too,
\* but nothing in the module ever delivers it.
Events == {"data", "error", "end"}

ASSUME StreamAssumption ==
    /\ MaxWrites \in Nat
    /\ Listened \subseteq Events
    /\ MaxListeners \in Nat
    /\ MaxTurns \in Nat
    /\ Timeouts \subseteq BOOLEAN
    /\ LateCalls \in BOOLEAN

VARIABLES
    js,            \* control of the event-loop thread
    cur,           \* the event being delivered to its listeners
    out,           \* the message js offers on writeQueueCh
    listeners,     \* number of listeners of each event, eventListeners
    writingState,  \* "opened" or "closed"
    done,          \* the channel done is closed
    timeout,       \* the stream has a timeoutCancel
    turns,         \* number of turns the script has had
    lp, rd, wq, ws,
    wqueue,        \* the slice queue of writeData
    held,          \* the message ws is sending
    written,       \* history: number of messages the script has written
    sent,          \* history: number of messages SendMsg accepted
    closeSent,     \* history: CloseSend has been called
    dataSeen,      \* history: last server message delivered as a data event
    endRuns,       \* history: number of times the end event was delivered
    cause          \* history: the error that closed the stream

jsVars == <<js, cur, out, listeners, writingState, timeout, turns, written>>
writerVars == <<wq, ws, wqueue, held, sent, closeSent>>
eventVars == <<dataSeen, endRuns>>
vars == <<tqVars, rawVars, jsVars, writerVars, eventVars, done, lp, rd, cause>>

\* The errors the code tells apart: io.EOF, ErrCanceled, any other status of
\* the RPC, a message convert fails on, a failed Send, a throwing listener.
ReaderErrs == {"EOF", "Canceled", "Status", "Convert"}
LocalErrs == {"Send", "Thrown"}
Errs == {"nil"} \cup ReaderErrs \cup LocalErrs

\* The message with isClosing set, which end puts after the written ones.
Closing == 0

\* Tasks: a data event, a call of closeWithError, the end event.
DataTask(m) == [kind |-> "data", msg |-> m, err |-> "nil"]
CloseTask(e) == [kind |-> "close", msg |-> 0, err |-> e]
EndTask == [kind |-> "end", msg |-> 0, err |-> "nil"]
Task == [kind : {"data", "close", "end"}, msg : Nat, err : Errs]

\* One loop over the listeners of an event: the index of the next one, the
\* length of the list when the loop began, and whether the task will return
\* an error, which makes the event loop abort the iteration.
Frame == [event : Events \cup {"none"}, next : Nat, upto : Nat, fails : BOOLEAN]
NoFrame == [event |-> "none", next |-> 1, upto |-> 0, fails |-> FALSE]
Deliver(event) ==
    [event |-> event, next |-> 1, upto |-> listeners[event], fails |-> FALSE]

\* callErrorListeners skips nil and io.EOF.
DeliverError(e, fails) ==
    [event |-> "error", next |-> 1, fails |-> fails,
     upto |-> IF e \in {"nil", "EOF"} THEN 0 ELSE listeners["error"]]

Init ==
    /\ TQInit
    /\ RawInit
    /\ js = "off" /\ cur = NoFrame /\ out = Closing
    /\ listeners = [e \in Events |-> 0]
    /\ writingState = "opened" /\ done = FALSE
    /\ timeout = FALSE /\ turns = 0
    /\ lp = "off" /\ rd = "off" /\ wq = "off" /\ ws = "off"
    /\ wqueue = <<>> /\ held = Closing
    /\ written = 0 /\ sent = 0 /\ closeSent = FALSE
    /\ dataSeen = 0 /\ endRuns = 0 /\ cause = "nil"

-----------------------------------------------------------------------------
(* The constructor *)

\* new Stream(...): beginStream opens the RPC and starts the goroutines.
Begin ==
    /\ js = "off"
    /\ js' = "script"
    /\ timeout' \in Timeouts
    /\ lp' = "select" /\ rd' = "run" /\ wq' = "run" /\ ws' = "ready"
    /\ UNCHANGED <<tqVars, rawVars, cur, out, listeners, writingState, turns,
                   written, wqueue, held, sent, closeSent, eventVars, done, cause>>

\* NewStream fails: the task queue is closed and the constructor throws.
BeginFails ==
    /\ js = "off"
    /\ js' = "failed"
    /\ timeout' \in Timeouts
    /\ CloseQueue
    /\ UNCHANGED <<rawVars, cur, out, listeners, writingState, turns, written,
                   writerVars, eventVars, done, lp, rd, cause>>

-----------------------------------------------------------------------------
(* The script: the methods of the stream object *)

InScript == js \in {"script", "listener"}

\* A later turn of the script: a timer, or a callback of another object.
ScriptTurn ==
    /\ js = "idle" /\ ~vuDone
    /\ turns < MaxTurns
    /\ turns' = turns + 1
    /\ js' = "script"
    /\ UNCHANGED <<tqVars, rawVars, cur, out, listeners, writingState, timeout,
                   written, writerVars, eventVars, done, lp, rd, cause>>

ScriptReturns ==
    /\ js = "script"
    /\ js' = "idle"
    /\ UNCHANGED <<tqVars, rawVars, cur, out, listeners, writingState, timeout,
                   turns, written, writerVars, eventVars, done, lp, rd, cause>>

On(event) ==
    /\ InScript
    /\ listeners[event] < MaxListeners
    /\ listeners' = [listeners EXCEPT ![event] = @ + 1]
    /\ UNCHANGED <<tqVars, rawVars, js, cur, out, writingState, timeout, turns,
                   written, writerVars, eventVars, done, lp, rd, cause>>

\* An offer on writeQueueCh, which is unbuffered: the thread blocks until
\* the queue goroutine receives.
Offer(m) ==
    /\ out' = m
    /\ js' = "sending"

\* The calls a script may make: LateCalls rules out the ones after done.
MayCall == InScript /\ (LateCalls \/ ~done)

Write ==
    /\ MayCall
    /\ writingState = "opened"
    /\ written < MaxWrites
    /\ written' = written + 1
    /\ Offer(written + 1)
    /\ UNCHANGED <<tqVars, rawVars, cur, listeners, writingState, timeout, turns,
                   writerVars, eventVars, done, lp, rd, cause>>

\* Mutants of End: an unknown state; the closing message is never offered.
Mut_EndState ==
    /\ MayCall
    /\ writingState # "closed"
    /\ writingState' = "closing"
    /\ Offer(Closing)
    /\ UNCHANGED <<tqVars, rawVars, cur, listeners, timeout, turns, written,
                   writerVars, eventVars, done, lp, rd, cause>>
Mut_EndSilent ==
    /\ MayCall
    /\ writingState # "closed"
    /\ writingState' = "closed"
    /\ UNCHANGED <<tqVars, rawVars, js, out, cur, listeners, timeout, turns, written,
                   writerVars, eventVars, done, lp, rd, cause>>

End ==
    /\ MayCall
    /\ writingState # "closed"
    /\ writingState' = "closed"
    /\ Offer(Closing)
    /\ UNCHANGED <<tqVars, rawVars, cur, listeners, timeout, turns, written,
                   writerVars, eventVars, done, lp, rd, cause>>

-----------------------------------------------------------------------------
(* writeData: the queue goroutine and the sending goroutine *)

\* case msg = <-s.writeQueueCh: the call of write or end returns.
QueueReceives ==
    /\ js = "sending" /\ wq = "run"
    /\ wqueue' = Append(wqueue, out)
    /\ js' = IF cur = NoFrame THEN "script" ELSE "listener"
    /\ out' = Closing
    /\ UNCHANGED <<tqVars, rawVars, cur, listeners, writingState, timeout, turns,
                   written, wq, ws, held, sent, closeSent, eventVars, done,
                   lp, rd, cause>>

\* Mutant of Handoff: the newest message is sent first.
Mut_HandoffNewest ==
    /\ wq = "run" /\ ws = "ready"
    /\ wqueue # <<>>
    /\ held' = wqueue[Len(wqueue)]
    /\ wqueue' = SubSeq(wqueue, 1, Len(wqueue) - 1)
    /\ ws' = "sending"
    /\ UNCHANGED <<tqVars, rawVars, jsVars, wq, sent, closeSent, eventVars, done,
                   lp, rd, cause>>

\* case wch <- msg: the oldest message goes to the sending goroutine.
Handoff ==
    /\ wq = "run" /\ ws = "ready"
    /\ wqueue # <<>>
    /\ held' = Head(wqueue)
    /\ wqueue' = Tail(wqueue)
    /\ ws' = "sending"
    /\ UNCHANGED <<tqVars, rawVars, jsVars, wq, sent, closeSent, eventVars, done,
                   lp, rd, cause>>

\* Mutant of QueueExit: the queue goroutine also stops with the sending one.
Mut_QueueExitWithSender ==
    /\ wq = "run" /\ (done \/ ws = "exited")
    /\ wq' = "exited"
    /\ wqueue' = <<>>
    /\ UNCHANGED <<tqVars, rawVars, jsVars, ws, held, sent, closeSent, eventVars,
                   done, lp, rd, cause>>

\* case <-s.done in the queue goroutine: what is still queued is dropped,
\* and writeChannel is closed.
QueueExit ==
    /\ wq = "run" /\ done
    /\ wq' = "exited"
    /\ wqueue' = <<>>
    /\ UNCHANGED <<tqVars, rawVars, jsVars, ws, held, sent, closeSent, eventVars,
                   done, lp, rd, cause>>

\* case <-s.done in the sending goroutine, or writeChannel found closed.
SenderExit ==
    /\ ws = "ready"
    /\ done \/ wq = "exited"
    /\ ws' = "exited"
    /\ UNCHANGED <<tqVars, rawVars, jsVars, wq, wqueue, held, sent, closeSent,
                   eventVars, done, lp, rd, cause>>

SenderReturns == ws' = "exited" /\ held' = Closing

SendOK ==
    /\ ws = "sending" /\ held # Closing
    /\ sent' = held
    /\ ws' = "ready" /\ held' = Closing
    /\ UNCHANGED <<tqVars, rawVars, jsVars, wq, wqueue, closeSent, eventVars,
                   done, lp, rd, cause>>

\* Mutant of SendEOF: io.EOF is passed on, not replaced by nil.
Mut_SendEOFCloses ==
    /\ ws = "sending" /\ held # Closing
    /\ Terminated
    /\ Queue(CloseTask("EOF"))
    /\ SenderReturns
    /\ UNCHANGED <<rawVars, jsVars, wq, wqueue, sent, closeSent, eventVars, done,
                   lp, rd, cause>>

\* SendMsg returns io.EOF: the RPC is over, RecvMsg will say why.
SendEOF ==
    /\ ws = "sending" /\ held # Closing
    /\ Terminated
    /\ Queue(CloseTask("nil"))
    /\ SenderReturns
    /\ UNCHANGED <<rawVars, jsVars, wq, wqueue, sent, closeSent, eventVars, done,
                   lp, rd, cause>>

\* Send fails: either buildMessage rejects the object, which leaves the RPC
\* as it is, or SendMsg fails and aborts the RPC.
SendFails ==
    /\ ws = "sending" /\ held # Closing
    /\ ctx' \in {ctx, Cancelled(ctx)}
    /\ Queue(CloseTask("Send"))
    /\ SenderReturns
    /\ UNCHANGED <<arrived, received, srv, vuDone, jsVars, wq, wqueue, sent,
                   closeSent, eventVars, done, lp, rd, cause>>

\* The isClosing message: CloseSend, which per its contract ends the RPC when
\* it fails.
SendClose ==
    /\ ws = "sending" /\ held = Closing
    /\ closeSent' = TRUE
    /\ \/ UNCHANGED ctx /\ Queue(CloseTask("nil"))
       \/ ctx' = Cancelled(ctx) /\ Queue(CloseTask("Send"))
    /\ SenderReturns
    /\ UNCHANGED <<arrived, received, srv, vuDone, jsVars, wq, wqueue, sent,
                   eventVars, done, lp, rd, cause>>

-----------------------------------------------------------------------------
(* readData.  RecvMsg and the Queue that follows are one step: what RecvMsg
   takes from the stream concerns no other thread, so that it can be thought
   to return only when its result is queued.                                *)

\* Mutant of RecvMessage: some message is taken for an empty one.
Mut_RecvSkips ==
    /\ rd = "run"
    /\ received < arrived
    /\ received' = received + 1
    /\ UNCHANGED tqVars \/ Queue(DataTask(received + 1))
    /\ UNCHANGED <<arrived, srv, ctx, vuDone, jsVars, writerVars, eventVars,
                   done, lp, rd, cause>>

RecvMessage ==
    /\ rd = "run"
    /\ received < arrived
    /\ received' = received + 1
    /\ Queue(DataTask(received + 1))
    /\ UNCHANGED <<arrived, srv, ctx, vuDone, jsVars, writerVars, eventVars,
                   done, lp, rd, cause>>

\* The goroutine queues closeWithError(e) and returns.
ReaderStops(e) ==
    /\ Queue(CloseTask(e))
    /\ rd' = "exited"
    /\ UNCHANGED <<arrived, srv, ctx, vuDone, jsVars, writerVars, eventVars,
                   done, lp, cause>>

\* convert fails on a message.
RecvBadMessage ==
    /\ rd = "run"
    /\ received < arrived
    /\ ReaderStops("Convert")
    /\ UNCHANGED received

\* The error the code makes of the final status; convert is also called for
\* the blank message that comes with io.EOF, and may fail.
EndErrs(status) ==
    CASE status = "OK" -> {"EOF", "Convert"}
      [] status = "Canceled" -> {"Canceled"}
      [] OTHER -> {"Status"}

\* Mutant of RecvEnd: the status overtakes messages.
Mut_RecvEndEarly ==
    /\ rd = "run"
    /\ srv # "open"
    /\ \E e \in EndErrs(srv) : ReaderStops(e)
    /\ UNCHANGED received

\* What has come before has been read, and the final status is next.
RecvEnd ==
    /\ rd = "run"
    /\ srv # "open" /\ received = arrived
    /\ \E e \in EndErrs(srv) : ReaderStops(e)
    /\ UNCHANGED received

\* Mutant of RecvCtx: a cancelled stream is not reported.
Mut_RecvCtxSilent ==
    /\ rd = "run"
    /\ ctx # "live"
    /\ rd' = "exited"
    /\ UNCHANGED <<tqVars, rawVars, jsVars, writerVars, eventVars, done, lp, cause>>

\* The context of the RPC is done: messages that have arrived may be skipped.
RecvCtx ==
    /\ rd = "run"
    /\ ctx # "live"
    /\ ReaderStops(IF ctx = "Canceled" THEN "Canceled" ELSE "Status")
    /\ UNCHANGED received

-----------------------------------------------------------------------------
(* loop *)

\* case <-ctxDone: a closeWithError(nil) is queued, which does nothing.
LoopCtxDone ==
    /\ lp = "select" /\ vuDone
    /\ Queue(CloseTask("nil"))
    /\ lp' = "interrupted"
    /\ UNCHANGED <<rawVars, jsVars, writerVars, eventVars, done, rd, cause>>

LoopDone ==
    /\ lp = "select" /\ done
    /\ lp' = "wait"
    /\ UNCHANGED <<tqVars, rawVars, jsVars, writerVars, eventVars, done, rd, cause>>

\* Mutant of LoopClose: the wait group does not count the reader.
Mut_LoopCloseEarly ==
    /\ lp \in {"interrupted", "wait"}
    /\ wq = "exited" /\ ws = "exited"
    /\ CloseQueue
    /\ lp' = "exited"
    /\ UNCHANGED <<rawVars, jsVars, writerVars, eventVars, done, rd, cause>>

\* The deferred function: wg.Wait, then tq.Close.
LoopClose ==
    /\ lp \in {"interrupted", "wait"}
    /\ rd = "exited" /\ wq = "exited" /\ ws = "exited"
    /\ CloseQueue
    /\ lp' = "exited"
    /\ UNCHANGED <<rawVars, jsVars, writerVars, eventVars, done, rd, cause>>

-----------------------------------------------------------------------------
(* The event loop runs the tasks *)

\* The loop over the listeners goes on with the next one, or the task ends.
\* A task that returns an error makes k6 abort the iteration, which cancels
\* the VU's context; the tasks that are left are still run.  c is what the
\* step has made of ctx.
Dispatch(frame, c) ==
    \/ /\ frame.next <= frame.upto
       /\ js' = "listener" /\ cur' = frame
       /\ ctx' = c /\ UNCHANGED vuDone
    \/ /\ frame.next > frame.upto
       /\ js' = "idle" /\ cur' = NoFrame
       /\ vuDone' = (vuDone \/ frame.fails)
       /\ ctx' = IF frame.fails THEN Cancelled(c) ELSE c

\* Mutant of CloseWithError: close does not look at done.
Mut_CloseAgain(e, fails) ==
    \/ /\ e # "nil"
       /\ done' = TRUE
       /\ cause' = e
       /\ js' = "closing" /\ cur' = DeliverError(e, fails)
       /\ UNCHANGED <<ctx, vuDone>>
    \/ /\ e = "nil"
       /\ Dispatch(DeliverError(e, fails), ctx)
       /\ UNCHANGED <<done, cause>>

\* close(e) up to the closing of done.  close only goes on if e is an error
\* and done is open; closeWithError then calls the error listeners whatever
\* close did, and the task fails if they do (or did already: fails).
CloseWithError(e, fails) ==
    \/ /\ e # "nil" /\ ~done
       /\ done' = TRUE
       /\ cause' = e
       /\ js' = "closing" /\ cur' = DeliverError(e, fails)
       /\ UNCHANGED <<ctx, vuDone>>
    \/ /\ e = "nil" \/ done
       /\ Dispatch(DeliverError(e, fails), ctx)
       /\ UNCHANGED <<done, cause>>

\* What no task changes.
taskUnchanged == <<arrived, received, srv, out, listeners, writingState, timeout,
                   turns, written, writerVars, lp, rd>>

\* queueMessage's task: the data listeners.
RunData ==
    /\ js = "idle"
    /\ Take("data")
    /\ dataSeen' = Head(tasks).msg
    /\ Dispatch(Deliver("data"), ctx)
    /\ UNCHANGED <<taskUnchanged, endRuns, done, cause>>

RunClose ==
    /\ js = "idle"
    /\ Take("close")
    /\ CloseWithError(Head(tasks).err, FALSE)
    /\ UNCHANGED <<taskUnchanged, eventVars>>

\* Mutants of CloseQueuesEnd: no end event after an error; no cancellation.
Mut_EndOnlyOnEOF ==
    /\ js = "closing"
    /\ IF cause = "EOF" THEN Queue(EndTask) ELSE UNCHANGED tqVars
    /\ Dispatch(cur, IF timeout THEN Cancelled(ctx) ELSE ctx)
    /\ UNCHANGED <<taskUnchanged, eventVars, done, cause>>
Mut_CloseNoCancel ==
    /\ js = "closing"
    /\ Queue(EndTask)
    /\ Dispatch(cur, ctx)
    /\ UNCHANGED <<taskUnchanged, eventVars, done, cause>>

\* The rest of close: queue the end event, cancel the context of a timeout.
CloseQueuesEnd ==
    /\ js = "closing"
    /\ Queue(EndTask)
    /\ Dispatch(cur, IF timeout THEN Cancelled(ctx) ELSE ctx)
    /\ UNCHANGED <<taskUnchanged, eventVars, done, cause>>

\* The task close queues: the end listeners.
RunEnd ==
    /\ js = "idle"
    /\ Take("end")
    /\ endRuns' = endRuns + 1
    /\ Dispatch(Deliver("end"), ctx)
    /\ UNCHANGED <<taskUnchanged, dataSeen, done, cause>>

ListenerReturns ==
    /\ js = "listener"
    /\ Dispatch([cur EXCEPT !.next = @ + 1], ctx)
    /\ UNCHANGED <<tqVars, taskUnchanged, eventVars, done, cause>>

\* A data listener that throws closes the stream and fails its task.
DataListenerThrows ==
    /\ js = "listener" /\ cur.event = "data"
    /\ CloseWithError("Thrown", TRUE)
    /\ UNCHANGED <<tqVars, taskUnchanged, eventVars>>

\* An error or end listener that throws ends the loop and fails the task.
OtherListenerThrows ==
    /\ js = "listener" /\ cur.event # "data"
    /\ Dispatch([cur EXCEPT !.next = cur.upto + 1, !.fails = TRUE], ctx)
    /\ UNCHANGED <<tqVars, taskUnchanged, eventVars, done, cause>>

-----------------------------------------------------------------------------
\* The environment, from the constructor on.  Messages that arrive when
\* readData has returned are left out: nothing takes them any more.
Env ==
    /\ js \notin {"off", "failed"}
    /\ \/ rd = "run" /\ ServerSends
       \/ ServerFinishes
       \/ VUCancelled
       \/ timeout /\ DeadlineExpires
    /\ UNCHANGED <<tqVars, jsVars, writerVars, eventVars, done, lp, rd, cause>>

\* Nothing is left to do: the callback is released and no task is waiting.
Ended == tqClosed /\ tasks = <<>> /\ js \in {"idle", "failed"}
Stutter == Ended /\ UNCHANGED vars

Constructor == Begin \/ BeginFails
Script == ScriptTurn \/ ScriptReturns \/ Write \/ End \/ \E e \in Listened : On(e)
Writer == QueueReceives \/ Handoff \/ QueueExit \/ SenderExit
            \/ SendOK \/ SendEOF \/ SendFails \/ SendClose
Receive == RecvMessage \/ RecvBadMessage \/ RecvEnd \/ RecvCtx
Loop == LoopCtxDone \/ LoopDone \/ LoopClose
RunTask == RunData \/ RunClose \/ RunEnd
ListenerEnds == ListenerReturns \/ DataListenerThrows \/ OtherListenerThrows
EventLoop == RunTask \/ CloseQueuesEnd \/ ListenerEnds

Next == Constructor \/ Script \/ Writer \/ Receive \/ Loop \/ EventLoop \/ Env
          \/ Stutter

Spec == Init /\ [][Next]_vars

-----------------------------------------------------------------------------
(* Fairness: the Go scheduler runs a goroutine that can go on, and k6 an
   event loop with a task to run; a script's turn or listener ends; RecvMsg
   and SendMsg return once the RPC is over, and RecvMsg when a message is
   there.  Nothing is assumed of the server, of flow control (SendOK), of
   the deadline or of the VU.                                               *)

Fairness ==
    /\ WF_vars(ScriptReturns \/ ListenerEnds \/ RunTask \/ CloseQueuesEnd)
    /\ WF_vars(QueueReceives) /\ WF_vars(Handoff) /\ WF_vars(QueueExit)
    /\ WF_vars(SenderExit \/ SendEOF \/ SendClose)
    /\ WF_vars(Receive)
    /\ WF_vars(Loop)

FairSpec == Spec /\ Fairness

-----------------------------------------------------------------------------
(* Type correctness *)

\* Every variable has a value of its kind: control states of the threads,
\* well-formed tasks and frames, counters that are numbers.
TypeOK ==
    /\ tasks \in Seq(Task) /\ tqClosed \in BOOLEAN /\ lost \subseteq {"data", "close", "end"}
    /\ arrived \in Nat /\ received \in Nat
    /\ srv \in {"open"} \cup Statuses
    /\ ctx \in {"live", "Canceled", "Deadline"} /\ vuDone \in BOOLEAN
    /\ js \in {"off", "failed", "script", "idle", "closing", "listener", "sending"}
    /\ cur \in Frame /\ out \in Nat
    /\ listeners \in [Events -> Nat]
    /\ writingState \in {"opened", "closed"}
    /\ done \in BOOLEAN /\ timeout \in BOOLEAN /\ turns \in Nat
    /\ lp \in {"off", "select", "interrupted", "wait", "exited"}
    /\ rd \in {"off", "run", "exited"} /\ wq \in {"off", "run", "exited"}
    /\ ws \in {"off", "ready", "sending", "exited"}
    /\ wqueue \in Seq(Nat) /\ held \in Nat
    /\ written \in Nat /\ sent \in Nat /\ closeSent \in BOOLEAN
    /\ dataSeen \in Nat /\ endRuns \in Nat /\ cause \in Errs

-----------------------------------------------------------------------------
(* Safety *)

\* The server gets the written messages in the order of the write calls and
\* without a gap, although three threads and two channels lie between write
\* and SendMsg.
SentInOrder == [][sent' # sent => sent' = sent + 1]_sent

\* CloseSend comes after the last written message: a script's end() never
\* overtakes a message that is still in the write queue (writeData), and
\* nothing is sent after it.
HalfCloseIsLast == closeSent => sent = written /\ writingState = "closed"

\* The data listeners see the server's messages in the order they were sent,
\* none twice and none left out (readData, queueMessage).
DataInOrder == [][dataSeen' # dataSeen => dataSeen' = dataSeen + 1]_dataSeen

\* When the server has ended the RPC well, every message it sent has been
\* delivered before the end event is.
AllDataBeforeEnd == cause = "EOF" /\ endRuns > 0 => dataSeen = arrived

\* After the end event a data event can come only if the stream was closed
\* on the client's side, by a failed Send or a listener that threw.
DataAfterEndIsLocal ==
    [][dataSeen' # dataSeen /\ endRuns > 0 => cause \in LocalErrs]_dataSeen

\* The end event is delivered at most once, however many of the reader, the
\* sender, the loop and the listeners report the end of the stream.
EndAtMostOnce == endRuns <= 1

\* The task queue is closed only when no goroutine of the stream is left to
\* queue anything, so that at most the end event can come too late for it:
\* close closes done before it queues that event.
OnlyEndIsLate ==
    /\ tqClosed /\ js # "failed" => rd = "exited" /\ wq = "exited" /\ ws = "exited"
    /\ lost \subseteq {"end"}

\* While the stream is open, the queue goroutine is there to take what write
\* and end offer: the event loop cannot be blocked for good.
OfferIsTaken == js = "sending" /\ ~done => wq = "run"

-----------------------------------------------------------------------------
(* Progress: the threads wait for one another over two unbuffered channels,
   the channel done, the wait group and the task queue.  When no thread can
   go on, nothing may be left undone.                                       *)

\* The guards of the actions that Fairness speaks of, thread by thread.
EventLoopGoesOn ==
    js \in {"script", "listener", "closing"} \/ (js = "idle" /\ tasks # <<>>)
CallGoesOn == js = "sending" /\ wq = "run"
HandoffGoesOn == wq = "run" /\ ws = "ready" /\ wqueue # <<>>
QueueStops == wq = "run" /\ done
SenderGoesOn ==
    \/ ws = "ready" /\ (done \/ wq = "exited")
    \/ ws = "sending" /\ (held = Closing \/ Terminated)
ReaderGoesOn == rd = "run" /\ (received < arrived \/ Terminated)
LoopGoesOn ==
    \/ lp = "select" /\ (vuDone \/ done)
    \/ lp \in {"interrupted", "wait"} /\ rd = "exited" /\ wq = "exited" /\ ws = "exited"

\* No thread of the stream can go on, and the event loop is not in one of the
\* late calls that block for ever (a write or an end once the stream is done).
Still ==
    /\ js \notin {"off", "failed"}
    /\ ~(js = "sending" /\ done)
    /\ ~(EventLoopGoesOn \/ CallGoesOn \/ HandoffGoesOn \/ QueueStops \/ SenderGoesOn
            \/ ReaderGoesOn \/ LoopGoesOn)

\* The threads never all wait with work left: when none can go on, the event
\* loop is free; if the RPC is over, or a stream with a timeout was closed,
\* the stream has wound down to the release of the callback; a closed stream
\* has delivered its end event; and a script's end() has reached the server
\* unless flow control holds an earlier message back (beginStream, loop,
\* readData, writeData, close, stream.go:76-202, 211-284, 341-430).
StillIsOver == Still =>
    /\ js = "idle"
    /\ Terminated \/ (done /\ timeout) => done /\ Ended
    /\ done => endRuns = 1 \/ "end" \in lost
    /\ writingState = "closed" => closeSent \/ done \/ (ws = "sending" /\ held # Closing)

-----------------------------------------------------------------------------
(* Refinement *)

Outgoing == INSTANCE Fifo WITH
    put <- written, taken <- sent,
    shut <- writingState = "closed", finished <- closeSent

Incoming == INSTANCE Fifo WITH
    put <- arrived, taken <- dataSeen,
    shut <- srv # "open", finished <- endRuns > 0 /\ cause = "EOF"

\* What the script writes reaches the server as it would over one channel, with end()
\* as its end, although it goes through writeQueueCh, a slice, writeChannel and
\* three threads (write, end, writeData, stream.go:211-336).
OutgoingIsFifo == Outgoing!Spec

\* What the server sends reaches the data listeners as it would over one channel, with
\* the end event of a stream that ended well as its end: no failure on the way makes a
\* stream look as if it had ended well too early (readData, queueMessage, close,
\* stream.go:114-202, 341-407).
IncomingIsFifo == Incoming!Spec

-----------------------------------------------------------------------------
(* Liveness *)

\* The event loop does not stay blocked in write or end.
OfferReturns == js = "sending" ~> js # "sending"

\* A stream whose RPC is over winds down: all goroutines exit, the task queue
\* is closed and emptied, and the iteration can end.
WindsDown == Terminated ~> Ended

\* A stream that is closed, or whose server has finished, delivers the end event.
EndDelivered == done \/ srv # "open" ~> endRuns > 0

\* After end() the half-close reaches the server, if no SendMsg blocks for
\* ever, unless the stream is done or sending has failed.
HalfCloseSent ==
    []<>(ws # "sending" \/ Terminated)
        => (writingState = "closed" ~> (closeSent \/ done \/ ws = "exited"))

\* A stream with a timeout that was closed on the client's side winds down,
\* whatever the server does: close cancels the RPC.
ClosedWindsDown == done /\ timeout ~> Ended
=============================================================================
