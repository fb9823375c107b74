---------------------------- MODULE MCFileWalks -----------------------------
(***************************************************************************)
(* Instances of FileWalks for TLC: all acyclic imports of a few files, in  *)
(* all orders.                                                             *)
(***************************************************************************)
EXTENDS FileWalks

CONSTANTS Count, MaxRoots      \* bounds

MCFiles == 1..Count

\* Sequences of different members of S.
Lists(S) ==
    UNION {{s \in [1..n -> S] : IsInjective(s)} : n \in 0..Count}

\* Up to their names, acyclic imports go from smaller to greater files.
MCGraphs ==
    {g \in [MCFiles -> Lists(MCFiles)] : \A f \in MCFiles : \A h \in Range(g[f]) : h > f}
MCRoots == UNION {[1..n -> MCFiles] : n \in 0..MaxRoots}
=============================================================================
