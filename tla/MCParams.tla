------------------------------ MODULE MCParams ------------------------------
(***************************************************************************)
(* The instance of Params for TLC: the objects with at most two entries    *)
(* out of Entry, and those with plaintext and any of the tls objects.      *)
(***************************************************************************)
EXTENDS Params, TLC

S(x) == [string |-> x]
Wrong == [float |-> "1.5"]
Undefined == [nil |-> {}]

MCLower == ("a" :> "a") @@ ("A" :> "a") @@ ("b-bin" :> "b-bin") @@ ("B-BIN" :> "b-bin")
MCBinary == {"b-bin"}
MCPEM == {"ca", "CA"}

\* Metadata objects: names that differ in case, one that is binary only in the
\* way it is written, values of the wrong kind.
MetadataValues ==
    {[map |-> md] : md \in
        {<<>>, "a" :> S("1"), ("a" :> S("1")) @@ ("A" :> S("2")),
         ("b-bin" :> [bytes |-> "3"]) @@ ("B-BIN" :> S("4")),
         ("a" :> S("1")) @@ ("b-bin" :> S("3")),
         ("A" :> Wrong) @@ ("a" :> S("2")) @@ ("b-bin" :> [bytes |-> "3"])}}
    \cup {Undefined, S("md")}

\* tls objects: every combination of the four keys and kinds of their values.
Optional(key, values) == {<<>>} \cup {key :> v : v \in values}
TLSMaps ==
    {((c @@ k) @@ p) @@ a :
        c \in Optional("cert", {S(""), S("cert"), Wrong}),
        k \in Optional("key", {S(""), S("key")}),
        p \in Optional("password", {S(""), S("pass"), Wrong}),
        a \in Optional("cacerts", {S("ca"), S("junk"), Wrong, [list |-> <<>>],
                  [list |-> <<S("ca"), S("CA")>>], [list |-> <<S("ca"), S("")>>],
                  [list |-> <<S("ca"), Wrong>>]})}
TLSValues == {[map |-> t] : t \in TLSMaps} \cup {Undefined}
SomeTLS == {[map |-> t] : t \in {"cert" :> Wrong, "cacerts" :> S("ca")}}

E(key, values) == {[key |-> key, value |-> v] : v \in values}
Times == {[int |-> 0], [int |-> -5], [duration |-> 1000], S("soon")}

ConnectEntries ==
    E("plaintext", {[bool |-> TRUE], [bool |-> FALSE], Undefined}) \cup E("timeout", Times)
    \cup E("reflect", {[bool |-> TRUE], Wrong}) \cup E("reflectMetadata", MetadataValues)
    \cup E("maxReceiveSize", {[int |-> 0], [int |-> 8], [int |-> -1], Wrong})
    \cup E("maxSendSize", {[int |-> 8], Undefined}) \cup E("tls", SomeTLS)
    \cup E("metadata", {Undefined})
CallEntries ==
    E("metadata", MetadataValues) \cup E("timeout", Times)
    \cup E("tags", {[tags |-> {"name"}], [tags |-> {"mine"}], Undefined, Wrong})
    \cup E("tls", {Undefined})

UpToTwo(entries) ==
    {<<>>} \cup {<<e>> : e \in entries}
    \cup {p \in entries \X entries : p[1].key # p[2].key}

MCObjects ==
    [call : {"connect"}, vuTags : {{}}, entries : UpToTwo(ConnectEntries)]
    \cup [call : {"connect"}, vuTags : {{}}, entries :
            {<<e>> : e \in E("tls", TLSValues)}
            \cup {<<e, f>> : e \in E("tls", TLSValues),
                             f \in E("plaintext", {[bool |-> TRUE]})}]
    \cup [call : {"invoke", "stream"}, vuTags : {{}, {"name"}}, entries : UpToTwo(CallEntries)]
=============================================================================
