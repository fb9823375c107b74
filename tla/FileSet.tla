------------------------------ MODULE FileSet -------------------------------
(***************************************************************************)
(* What convertToMethodInfo (grpc/client.go) needs of the set of files     *)
(* that load and reflection hand to it: the files asked for and all they   *)
(* import, each of them once.  protodesc.NewFiles refuses a set with a     *)
(* file twice or without an import of one of its files.                    *)
(***************************************************************************)
EXTENDS Naturals, Sequences, Functions

CONSTANTS
    Files,
    Graphs,     \* the imports the files may have: each file its sequence
    Roots       \* the sequences of files that may be asked for

VARIABLES
    graph,      \* the imports
    roots,      \* the files asked for
    fdset,      \* the set, in the order in which it is made
    result      \* "none", then "files" or "error"

setVars == <<graph, roots, fdset, result>>

\* The files asked for and everything they import: the least set that has
\* them and is closed under imports.
Closed(S) == Range(roots) \subseteq S /\ \A f \in S : Range(graph[f]) \subseteq S
Needed == {f \in Files : \A S \in SUBSET Files : Closed(S) => f \in S}

Init ==
    /\ graph \in Graphs /\ roots \in Roots
    /\ fdset = <<>> /\ result = "none"

Collect ==
    /\ result = "none"
    /\ \E f \in Needed \ Range(fdset) : fdset' = Append(fdset, f)
    /\ UNCHANGED <<graph, roots, result>>

Finish ==
    /\ result = "none"
    /\ Range(fdset) = Needed
    /\ result' = "files"
    /\ UNCHANGED <<graph, roots, fdset>>

Fail ==
    /\ result = "none"
    /\ result' = "error"
    /\ UNCHANGED <<graph, roots, fdset>>

Next == Collect \/ Finish \/ Fail

Spec == Init /\ [][Next]_setVars
=============================================================================
