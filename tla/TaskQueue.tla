------------------------------ MODULE TaskQueue ------------------------------
(***************************************************************************)
(* The per-stream task queue of github.com/mstoykov/k6-taskqueue-lib, as   *)
(* grpc/stream.go uses it: goroutines and the event loop hand functions to *)
(* Queue, the k6 event loop runs them one at a time in the order they were *)
(* queued, and Close releases the registered callback that keeps the       *)
(* iteration alive.  Tasks that are pending when Close is called are still *)
(* run (the end event is usually queued just before).  The library is not  *)
(* part of the repository, so what becomes of a task queued after Close is *)
(* the parameter KeepsLateTasks, and both values are checked.              *)
(***************************************************************************)
EXTENDS Naturals, Sequences

CONSTANT KeepsLateTasks

ASSUME KeepsLateTasksAssumption == KeepsLateTasks \in BOOLEAN

VARIABLES
    tasks,     \* the functions waiting for the event loop, oldest first
    tqClosed,  \* Close has been called
    lost       \* kinds of the tasks that were queued too late and dropped

tqVars == <<tasks, tqClosed, lost>>

TQInit ==
    /\ tasks = <<>>
    /\ tqClosed = FALSE
    /\ lost = {}

Queue(task) ==
    \/ /\ ~tqClosed \/ KeepsLateTasks
       /\ tasks' = Append(tasks, task)
       /\ UNCHANGED <<tqClosed, lost>>
    \/ /\ tqClosed /\ ~KeepsLateTasks
       /\ lost' = lost \cup {task.kind}
       /\ UNCHANGED <<tasks, tqClosed>>

CloseQueue ==
    /\ tqClosed' = TRUE
    /\ UNCHANGED <<tasks, lost>>

\* The event loop takes the oldest task if it is of the given kind.
Take(kind) ==
    /\ tasks # <<>>
    /\ Head(tasks).kind = kind
    /\ tasks' = Tail(tasks)
    /\ UNCHANGED <<tqClosed, lost>>
=============================================================================
