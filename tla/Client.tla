------------------------------- MODULE Client -------------------------------
(***************************************************************************)
(* The clients of grpc/client.go, one in each VU: the definitions they     *)
(* load, in the init context or by reflection when they connect, and the   *)
(* connection they hold.  The methods run on the event-loop thread of the  *)
(* VU and block it, so that the clients meet only in the registry of       *)
(* message types.  A call that is rejected before it changes anything      *)
(* (wrong context, bad parameters, files that do not parse) is left out.   *)
(*                                                                         *)
(* A file stands for its descriptor: two versions of a proto file are two  *)
(* files that declare the same methods and messages.                       *)
(***************************************************************************)
EXTENDS TypeRegistry, Naturals, Sequences, Functions

CONSTANTS
    VUs,
    Servers,      \* addresses
    NoAddr,       \* the address before the first connect
    Methods,      \* full names of methods
    Files,        \* file descriptors
    NoFile,       \* stands for a missing method descriptor
    MethodsOf,    \* the methods the services of a file declare
    TopLevel,     \* the top-level messages of a file
    Nested,       \* the messages declared in a message
    Loadable,     \* the sets of files load and loadProtoset may yield
    Reflected,    \* the files the reflection service of a server yields
    MaxConns      \* bound on the connections made

ASSUME ClientAssumption ==
    /\ NoFile \notin Files
    /\ MethodsOf \in [Files -> SUBSET Methods]
    /\ TopLevel \in [Files -> Seq(Messages)]
    /\ Nested \in [Messages -> Seq(Messages)]
    /\ Loadable \subseteq SUBSET Files
    /\ Reflected \in [Servers -> SUBSET Files]
    /\ MaxConns \in Nat

VARIABLES
    inInit,    \* the VU is in its init context: vu.State() is nil
    conn,      \* the position of c.conn in conns, 0 for nil
    addr,      \* c.addr
    mds,       \* c.mds: the file that defines a method, or NoFile
    conns,     \* every connection dialled: server, and whether it is open
    pc,        \* where the client is in connect or load
    todo,      \* files RangeFiles has still to visit
    stack,     \* the messages convertToMethodInfo has still to look up
    fdset,     \* history: the files of the conversion that is running
    loaded,    \* history: the files whose conversion has succeeded
    own        \* history: the names the VU itself has registered

Connection == [server : Servers, open : BOOLEAN]

connVars == <<inInit, conn, addr, conns>>
walkVars == <<todo, stack, fdset>>
vars == <<registered, connVars, walkVars, mds, pc, loaded, own>>

Init ==
    /\ RegistryInit
    /\ inInit = [v \in VUs |-> TRUE]
    /\ conn = [v \in VUs |-> 0] /\ addr = [v \in VUs |-> NoAddr]
    /\ mds = [v \in VUs |-> [m \in Methods |-> NoFile]]
    /\ conns = <<>>
    /\ pc = [v \in VUs |-> "idle"]
    /\ todo = [v \in VUs |-> {}] /\ stack = [v \in VUs |-> <<>>]
    /\ fdset = [v \in VUs |-> {}]
    /\ loaded = [v \in VUs |-> {}] /\ own = [v \in VUs |-> {}]

-----------------------------------------------------------------------------
(* convertToMethodInfo *)

\* NewFiles accepts the files of F, and RangeFiles begins.
Convert(v, F) ==
    /\ pc' = [pc EXCEPT ![v] = "walk"]
    /\ todo' = [todo EXCEPT ![v] = F]
    /\ fdset' = [fdset EXCEPT ![v] = F]
    /\ UNCHANGED stack

\* Mutant of RangeFile: each file starts a new method table.
Mut_RangeFileResets(v) ==
    /\ pc[v] = "walk" /\ stack[v] = <<>>
    /\ \E f \in todo[v] :
        /\ todo' = [todo EXCEPT ![v] = @ \ {f}]
        /\ mds' = [mds EXCEPT ![v] =
                [m \in Methods |-> IF m \in MethodsOf[f] THEN f ELSE NoFile]]
        /\ stack' = [stack EXCEPT ![v] = TopLevel[f]]
    /\ UNCHANGED <<registered, connVars, pc, fdset, loaded, own>>

\* RangeFiles calls the closure for one of the files, in no certain order:
\* its methods go into the table, its messages on the stack.
RangeFile(v) ==
    /\ pc[v] = "walk" /\ stack[v] = <<>>
    /\ \E f \in todo[v] :
        /\ todo' = [todo EXCEPT ![v] = @ \ {f}]
        /\ mds' = [mds EXCEPT ![v] =
                [m \in Methods |-> IF m \in MethodsOf[f] THEN f ELSE @[m]]]
        /\ stack' = [stack EXCEPT ![v] = TopLevel[f]]
    /\ UNCHANGED <<registered, connVars, pc, fdset, loaded, own>>

Top(v) == stack[v][Len(stack[v])]

\* The message is taken off the stack and its nested messages put there.
PopAndPush(v) ==
    stack' = [stack EXCEPT ![v] = SubSeq(@, 1, Len(@) - 1) \o Nested[Top(v)]]

\* Mutants of Find: the nested messages of a known message are skipped, the
\* messages stay on the stack, a known message is registered again.
Mut_FindSkipsNested(v) ==
    /\ pc[v] = "walk" /\ stack[v] # <<>>
    /\ \/ /\ Found(Top(v))
          /\ stack' = [stack EXCEPT ![v] = SubSeq(@, 1, Len(@) - 1)]
          /\ UNCHANGED pc
       \/ /\ ~Found(Top(v))
          /\ pc' = [pc EXCEPT ![v] = "missing"]
          /\ UNCHANGED stack
    /\ UNCHANGED <<registered, connVars, todo, fdset, mds, loaded, own>>
Mut_FindKeeps(v) ==
    /\ pc[v] = "walk" /\ stack[v] # <<>>
    /\ ~Found(Top(v))
    /\ pc' = [pc EXCEPT ![v] = "missing"]
    /\ UNCHANGED <<registered, connVars, walkVars, mds, loaded, own>>
Mut_FindNothing(v) ==
    /\ pc[v] = "walk" /\ stack[v] # <<>>
    /\ pc' = [pc EXCEPT ![v] = "missing"]
    /\ UNCHANGED <<registered, connVars, walkVars, mds, loaded, own>>

\* FindMessageByName: a message that is known is only looked into.
Find(v) ==
    /\ pc[v] = "walk" /\ stack[v] # <<>>
    /\ \/ Found(Top(v)) /\ PopAndPush(v) /\ UNCHANGED pc
       \/ /\ ~Found(Top(v))
          /\ pc' = [pc EXCEPT ![v] = "missing"]
          /\ UNCHANGED stack
    /\ UNCHANGED <<registered, connVars, todo, fdset, mds, loaded, own>>

\* RegisterMessage, the step after NotFound.
Register(v) ==
    /\ pc[v] = "missing"
    /\ RegisterOK(Top(v))
    /\ own' = [own EXCEPT ![v] = @ \cup {Top(v)}]
    /\ PopAndPush(v)
    /\ pc' = [pc EXCEPT ![v] = "walk"]
    /\ UNCHANGED <<connVars, todo, fdset, mds, loaded>>

\* It fails: the range stops, and connect or load fails, with an error or (the
\* policy the library has by default) a panic, and with the table as it is.
Conflict(v) ==
    /\ pc[v] = "missing"
    /\ RegisterConflict(Top(v))
    /\ pc' = [pc EXCEPT ![v] = "idle"]
    /\ todo' = [todo EXCEPT ![v] = {}]
    /\ stack' = [stack EXCEPT ![v] = <<>>]
    /\ UNCHANGED <<connVars, fdset, mds, loaded, own>>

\* The range is over, and connect or load returns.
Converted(v) ==
    /\ pc[v] = "walk" /\ stack[v] = <<>> /\ todo[v] = {}
    /\ pc' = [pc EXCEPT ![v] = "idle"]
    /\ loaded' = [loaded EXCEPT ![v] = @ \cup fdset[v]]
    /\ UNCHANGED <<registered, connVars, walkVars, mds, own>>

-----------------------------------------------------------------------------
(* The methods of the client *)

\* load and loadProtoset, once they have their files.
Load(v) ==
    /\ inInit[v] /\ pc[v] = "idle"
    /\ \E F \in Loadable : Convert(v, F)
    /\ UNCHANGED <<registered, connVars, mds, loaded, own>>

\* The init context ends.
Start(v) ==
    /\ inInit[v] /\ pc[v] = "idle"
    /\ inInit' = [inInit EXCEPT ![v] = FALSE]
    /\ UNCHANGED <<registered, conn, addr, conns, walkVars, mds, pc, loaded, own>>

\* connect up to a Dial that succeeds: with the reflection protocol, connect
\* goes on.
Dial(v) ==
    /\ ~inInit[v] /\ pc[v] = "idle"
    /\ Len(conns) < MaxConns
    /\ \E s \in Servers :
        /\ addr' = [addr EXCEPT ![v] = s]
        /\ conns' = Append(conns, [server |-> s, open |-> TRUE])
    /\ conn' = [conn EXCEPT ![v] = Len(conns) + 1]
    /\ \E next \in {"idle", "reflect"} : pc' = [pc EXCEPT ![v] = next]
    /\ UNCHANGED <<registered, inInit, walkVars, mds, loaded, own>>

\* Mutant of DialFails: the client keeps the connection it had.
Mut_DialFailsKeeps(v) ==
    /\ ~inInit[v] /\ pc[v] = "idle"
    /\ \E s \in Servers : addr' = [addr EXCEPT ![v] = s]
    /\ UNCHANGED <<registered, inInit, conn, conns, walkVars, mds, pc, loaded, own>>

\* connect with a Dial that fails: c.conn becomes nil.
DialFails(v) ==
    /\ ~inInit[v] /\ pc[v] = "idle"
    /\ \E s \in Servers : addr' = [addr EXCEPT ![v] = s]
    /\ conn' = [conn EXCEPT ![v] = 0]
    /\ UNCHANGED <<registered, inInit, conns, walkVars, mds, pc, loaded, own>>

\* connect goes on with the files the server describes.
Reflect(v) ==
    /\ pc[v] = "reflect"
    /\ Convert(v, Reflected[conns[conn[v]].server])
    /\ UNCHANGED <<registered, connVars, mds, loaded, own>>

\* Mutant of ReflectFails: the conversion gets what Reflect returned.
Mut_ReflectFailsOn(v) ==
    /\ pc[v] = "reflect"
    /\ pc' = [pc EXCEPT ![v] = "walk"]
    /\ todo' = [todo EXCEPT ![v] = {NoFile}]
    /\ UNCHANGED <<registered, connVars, stack, fdset, mds, loaded, own>>

\* Reflect or NewFiles fails; the connection stays.
ReflectFails(v) ==
    /\ pc[v] = "reflect"
    /\ pc' = [pc EXCEPT ![v] = "idle"]
    /\ UNCHANGED <<registered, connVars, walkVars, mds, loaded, own>>

\* The connection is closed and forgotten, also when closing it fails.
Close(v) ==
    /\ pc[v] = "idle" /\ conn[v] # 0
    /\ conns' = [conns EXCEPT ![conn[v]].open = FALSE]
    /\ conn' = [conn EXCEPT ![v] = 0]
    /\ UNCHANGED <<registered, inInit, addr, walkVars, mds, pc, loaded, own>>

\* invoke and the stream constructor, which change nothing of the client, get
\* as far as the RPC: there is a connection, and the method is known.
Calls(v, m) ==
    /\ ~inInit[v] /\ pc[v] = "idle"
    /\ conn[v] # 0
    /\ mds[v][m] # NoFile

Walk(v) == RangeFile(v) \/ Find(v) \/ Register(v) \/ Conflict(v) \/ Converted(v)
Connect(v) == Dial(v) \/ DialFails(v) \/ Reflect(v) \/ ReflectFails(v)

Next == \E v \in VUs : Load(v) \/ Start(v) \/ Connect(v) \/ Close(v) \/ Walk(v)

Spec == Init /\ [][Next]_vars

\* A thread in the middle of connect or load goes on: Reflect runs under the
\* timeout of connect.
Fairness(v) == WF_vars(Walk(v)) /\ WF_vars(Reflect(v) \/ ReflectFails(v))

FairSpec == Spec /\ \A v \in VUs : Fairness(v)

-----------------------------------------------------------------------------
\* Every variable has a value of its kind.
TypeOK ==
    /\ registered \subseteq Messages
    /\ inInit \in [VUs -> BOOLEAN]
    /\ conn \in [VUs -> Nat]
    /\ addr \in [VUs -> Servers \cup {NoAddr}]
    /\ mds \in [VUs -> [Methods -> Files \cup {NoFile}]]
    /\ conns \in Seq(Connection)
    /\ pc \in [VUs -> {"idle", "reflect", "walk", "missing"}]
    /\ todo \in [VUs -> SUBSET Files] /\ stack \in [VUs -> Seq(Messages)]
    /\ fdset \in [VUs -> SUBSET Files] /\ loaded \in [VUs -> SUBSET Files]
    /\ own \in [VUs -> SUBSET Messages]

\* An RPC goes out on an open connection to the server its url tag names
\* (SetSystemTags gets c.addr), whatever connects failed or were closed before.
CallReachesTarget ==
    \A v \in VUs, m \in Methods : Calls(v, m) =>
        /\ conns[conn[v]].open
        /\ conns[conn[v]].server = addr[v]

\* The methods of every file that was loaded or reflected without an error
\* stay callable, however many loads and failed conversions follow.
LoadedIsCallable ==
    \A v \in VUs : \A f \in loaded[v] : \A m \in MethodsOf[f] :
        ~inInit[v] /\ pc[v] = "idle" /\ conn[v] # 0 => Calls(v, m)

\* The messages a file declares at any depth: the smallest set that has its
\* top-level messages and the nested messages of its members.
MessagesOf(f) ==
    {m \in Messages : \A S \in SUBSET Messages :
        /\ Range(TopLevel[f]) \subseteq S
        /\ \A n \in S : Range(Nested[n]) \subseteq S
        => m \in S}

\* A conversion that succeeds leaves every message of its files registered,
\* also those another VU was about to register (convertToMethodInfo).
LoadedIsRegistered ==
    \A v \in VUs : \A f \in loaded[v] : MessagesOf(f) \subseteq registered

\* load and connect can fail in RegisterMessage only for a name another VU has
\* registered since, never for what the client did itself before.
ConflictIsForeign ==
    \A v \in VUs : pc[v] = "missing" /\ Found(Top(v)) => Top(v) \notin own[v]

\* Every connect and load ends, if messages are nested finitely deep.
ConversionEnds == \A v \in VUs : pc[v] # "idle" ~> pc[v] = "idle"
=============================================================================
