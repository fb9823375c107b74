------------------------------ MODULE MCClient ------------------------------
(***************************************************************************)
(* Instances of Client for TLC, and what a comment of                      *)
(* lib/netext/grpcext/reflect.go says of reflection and the code does not  *)
(* do.                                                                     *)
(***************************************************************************)
EXTENDS Client, TLC

CONSTANTS v1, v2, s1, s2, old, new, other

\* Two versions of one file and a second file; the new version has a method
\* more and a message more, nested in one that both have.
MCMethodsOf == old :> {"get"} @@ new :> {"get", "list"} @@ other :> {"put"}
MCTopLevel == old :> <<"Item">> @@ new :> <<"Item", "List">> @@ other :> <<"Put">>
MCNested ==
    [m \in {"Item", "List", "Put", "Part", "Any"} |->
        CASE m = "Item" -> <<"Part">>
          [] m = "List" -> <<"Any">>
          [] OTHER -> <<>>]
MCReflected == [s \in Servers |-> IF s = s1 THEN {old} ELSE {new}]

-----------------------------------------------------------------------------
\* lib/netext/grpcext/reflect.go:18: reflection makes the file descriptors
\* available to requests: the registry refuses no message of a server's files.
ReflectionAccepts == \A v \in VUs : pc[v] = "missing" => ~Found(Top(v))
=============================================================================
