---------------------------- MODULE TypeRegistry ----------------------------
(***************************************************************************)
(* protoregistry.GlobalTypes, the registry of message types that all VUs   *)
(* of the process share, as grpc/client.go uses it.  Each of its methods   *)
(* takes the registry's lock, so that one call is one step, but nothing    *)
(* holds the lock between two calls.  It is not code of the repository.    *)
(***************************************************************************)

CONSTANTS
    Messages,   \* full names of message types
    BuiltIn     \* the names compiled into the program

ASSUME RegistryAssumption == BuiltIn \subseteq Messages

VARIABLE registered     \* the names that are registered

RegistryInit == registered = BuiltIn

\* FindMessageByName does not return NotFound.
Found(m) == m \in registered

\* RegisterMessage, which refuses a name that is there already.
RegisterOK(m) == ~Found(m) /\ registered' = registered \cup {m}
RegisterConflict(m) == Found(m) /\ UNCHANGED registered
=============================================================================
