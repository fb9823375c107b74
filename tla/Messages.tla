------------------------------ MODULE Messages ------------------------------
(***************************************************************************)
(* What becomes of a dynamic message on its way to the script: convert of  *)
(* lib/netext/grpcext/stream.go, which marshals it to JSON and back.       *)
(*                                                                         *)
(* A message is its type and the fields that have a non-zero value.  Three *)
(* kinds of types behave differently: those whose fields are all optional, *)
(* those with required fields (proto2), and google.protobuf.Value, here    *)
(* one that holds its null_value as soon as it holds anything.             *)
(***************************************************************************)

CONSTANT Fields     \* the fields of the message types

ASSUME FieldsAssumption == Fields # {}

Types == {"plain", "required", "value"}
Message == [type : Types, set : SUBSET Fields]

\* dynamicpb.NewMessage.
Blank(type) == [type |-> type, set |-> {}]

\* What comes over the wire: decoding checks the required fields.
Incoming == {m \in Message : m.type = "required" => m.set = Fields}

\* protojson fails on a required field or a member of Value that is not set.
Marshals(m) ==
    /\ m.type = "required" => m.set = Fields
    /\ m.type = "value" => m.set # {}

\* The JavaScript value: nil, or an object with the fields of the JSON text.
\* The other values have no fields.
Converted == [kind : {"fails", "nil", "object"}, fields : SUBSET Fields]

Nil == [kind |-> "nil", fields |-> {}]
Object(F) == [kind |-> "object", fields |-> F]
Fails == [kind |-> "fails", fields |-> {}]

Convert(emitUnpopulated, m) ==
    IF ~Marshals(m) THEN Fails
    ELSE IF m.type = "value" THEN Nil
    ELSE Object(IF emitUnpopulated THEN Fields ELSE m.set)
=============================================================================
