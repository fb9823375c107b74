----------------------------- MODULE FileWalks ------------------------------
(***************************************************************************)
(* The two walks that collect file descriptors: Reflect of                 *)
(* lib/netext/grpcext/reflect.go, with a stack of its own, and the loop of *)
(* Load with the recursive walkFileDescriptors of grpc/client.go.  One     *)
(* behaviour is one walk of either kind.                                   *)
(*                                                                         *)
(* A file stands for the key the walks know it by: its package and name in *)
(* Reflect, its name in Load.                                              *)
(***************************************************************************)
EXTENDS Naturals, Sequences, Functions

CONSTANTS Files, Graphs, Roots      \* as in FileSet

ASSUME FilesAssumption ==
    Graphs \subseteq [Files -> Seq(Files)] /\ Roots \subseteq Seq(Files)

VARIABLES
    graph, roots, fdset, result,    \* as in FileSet
    walk,       \* which of the two it is
    next,       \* the position in roots of the next service, or parsed file
    seen,
    stack,      \* Reflect: the files to look at
    calls       \* Load: the active calls of walkFileDescriptors, each with its
                \* file and the position of its next dependency

setVars == <<graph, roots, fdset, result>>
vars == <<setVars, walk, next, seen, stack, calls>>

\* What the walks promise.
Abs == INSTANCE FileSet

Call == [file : Files, dep : Nat \ {0}]

Init ==
    /\ graph \in Graphs /\ roots \in Roots
    /\ fdset = <<>> /\ result = "none"
    /\ walk \in {"reflect", "load"}
    /\ next = 1 /\ seen = {} /\ stack = <<>> /\ calls = <<>>

\* The file is marked and put into the set.
Add(f) ==
    /\ seen' = seen \cup {f}
    /\ fdset' = Append(fdset, f)

-----------------------------------------------------------------------------
(* Reflect *)

\* The next service is resolved to its file.
Resolve ==
    /\ walk = "reflect" /\ result = "none"
    /\ stack = <<>> /\ next <= Len(roots)
    /\ stack' = <<roots[next]>>
    /\ next' = next + 1
    /\ UNCHANGED <<setVars, walk, seen, calls>>

\* Mutant of ReflectFails: the error is lost, and the set is nil.
Mut_ReflectFailsNil ==
    /\ walk = "reflect" /\ result = "none"
    /\ stack = <<>> /\ (next = 1 \/ next <= Len(roots))
    /\ result' = "nil"
    /\ UNCHANGED <<graph, roots, fdset, walk, next, seen, stack, calls>>

\* ListServices or ResolveService fails.
ReflectFails ==
    /\ walk = "reflect" /\ result = "none"
    /\ stack = <<>> /\ (next = 1 \/ next <= Len(roots))
    /\ result' = "error"
    /\ UNCHANGED <<graph, roots, fdset, walk, next, seen, stack, calls>>

\* Mutant of Pop: the file is not looked up in seen.
Mut_PopUnseen ==
    /\ stack # <<>>
    /\ LET f == stack[Len(stack)]
       IN  /\ stack' = SubSeq(stack, 1, Len(stack) - 1) \o graph[f]
           /\ Add(f)
    /\ UNCHANGED <<graph, roots, result, walk, next, calls>>

\* The top of the stack gives way to its imports, before it is looked up.
Pop ==
    /\ stack # <<>>
    /\ LET f == stack[Len(stack)]
       IN  /\ stack' = SubSeq(stack, 1, Len(stack) - 1) \o graph[f]
           /\ \/ f \in seen /\ UNCHANGED <<seen, fdset>>
              \/ f \notin seen /\ Add(f)
    /\ UNCHANGED <<graph, roots, result, walk, next, calls>>

-----------------------------------------------------------------------------
(* Load *)

\* A call for f from the calls cs: it returns at once if f has been seen, and
\* goes into the dependencies otherwise.
Visit(f, cs) ==
    \/ f \in seen /\ calls' = cs /\ UNCHANGED <<seen, fdset>>
    \/ f \notin seen /\ calls' = Append(cs, [file |-> f, dep |-> 1]) /\ Add(f)

\* The loop of Load takes the next parsed file.
Enter ==
    /\ walk = "load" /\ result = "none"
    /\ calls = <<>> /\ next <= Len(roots)
    /\ Visit(roots[next], <<>>)
    /\ next' = next + 1
    /\ UNCHANGED <<graph, roots, result, walk, stack>>

\* Mutants of Descend: only the first dependency is visited; the loop stays at
\* a dependency.
Mut_DescendFirstOnly ==
    /\ calls # <<>>
    /\ LET c == calls[Len(calls)]
       IN  /\ c.dep <= Len(graph[c.file])
           /\ Visit(graph[c.file][c.dep],
                    [calls EXCEPT ![Len(calls)].dep = Len(graph[c.file]) + 1])
    /\ UNCHANGED <<graph, roots, result, walk, next, stack>>
Mut_DescendStays ==
    /\ calls # <<>>
    /\ LET c == calls[Len(calls)]
       IN  /\ c.dep <= Len(graph[c.file])
           /\ Visit(graph[c.file][c.dep], calls)
    /\ UNCHANGED <<graph, roots, result, walk, next, stack>>

\* The innermost call goes on to its next dependency.
Descend ==
    /\ calls # <<>>
    /\ LET c == calls[Len(calls)]
       IN  /\ c.dep <= Len(graph[c.file])
           /\ Visit(graph[c.file][c.dep], [calls EXCEPT ![Len(calls)].dep = @ + 1])
    /\ UNCHANGED <<graph, roots, result, walk, next, stack>>

\* It has none left and returns.
Return ==
    /\ calls # <<>>
    /\ calls[Len(calls)].dep > Len(graph[calls[Len(calls)].file])
    /\ calls' = SubSeq(calls, 1, Len(calls) - 1)
    /\ UNCHANGED <<setVars, walk, next, seen, stack>>

-----------------------------------------------------------------------------
\* Reflect returns, or Load hands the set to convertToMethodInfo.
Finish ==
    /\ result = "none"
    /\ next > Len(roots) /\ stack = <<>> /\ calls = <<>>
    /\ result' = "files"
    /\ UNCHANGED <<graph, roots, fdset, walk, next, seen, stack, calls>>

\* The walk has returned; before that, it can always go on.
Returned == result # "none" /\ UNCHANGED vars

Next == Resolve \/ ReflectFails \/ Pop \/ Enter \/ Descend \/ Return \/ Finish \/ Returned

Spec == Init /\ [][Next]_vars

\* Both are plain code, and the requests of Reflect run under a timeout.
FairSpec == Spec /\ WF_vars(Next)

-----------------------------------------------------------------------------
\* Every variable has a value of its kind.
TypeOK ==
    /\ graph \in [Files -> Seq(Files)] /\ roots \in Seq(Files)
    /\ fdset \in Seq(Files) /\ result \in {"none", "files", "error"}
    /\ walk \in {"reflect", "load"}
    /\ next \in Nat \ {0} /\ seen \subseteq Files
    /\ stack \in Seq(Files) /\ calls \in Seq(Call)

\* protodesc.NewFiles accepts the set a walk returns: no file is in it twice,
\* and every import is in it.
NewFilesAccepts ==
    result = "files" =>
        /\ IsInjective(fdset)
        /\ \A f \in Range(fdset) : Range(graph[f]) \subseteq Range(fdset)

\* Both walks implement FileSet: whatever the order and however many services,
\* parsed files and imports share a file, the result has the files asked for
\* and all their imports, nothing else, and nothing twice.
Implements == Abs!Spec

\* Both walks end.  Reflect's does if no file imports itself over others, since it
\* pushes the imports of a file also when it has seen the file; Load's always does.
WalkEnds == <>(result # "none")
=============================================================================
