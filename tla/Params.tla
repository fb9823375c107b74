------------------------------- MODULE Params -------------------------------
(***************************************************************************)
(* The parameters of connect, invoke and the stream constructor            *)
(* (grpc/params.go), and what the calls make of them (grpc/client.go): the *)
(* TLS configuration, the time they may take and the system tags.  A       *)
(* behaviour is the reading of one object, key by key in the order of the  *)
(* script.                                                                 *)
(*                                                                         *)
(* A JavaScript value, once exported, is a record whose one field names    *)
(* its Go type: [bool |-> TRUE], [int |-> 4], [string |-> "pem"],          *)
(* [bytes |-> "b"], [list |-> <<...>>], [map |-> ...], [nil |-> {}].       *)
(* Those that GetDurationValue takes besides an int are [duration |-> n],  *)
(* those that ApplyCustomUserTags takes besides nil are [tags |-> S].      *)
(***************************************************************************)
EXTENDS Integers, Sequences, FiniteSets

CONSTANTS
    Objects,      \* [call, vuTags, entries], entries being [key, value]
    Lower,        \* the header names, to their lower-case forms
    Binary,       \* the header names that end in "-bin", as they are written
    PEM,          \* the texts that hold a CA certificate
    SystemTags,   \* the enabled ones among url, service, method and name
    Unlimited     \* the time of a call without a timeout

\* A value has one type: it is a record with one field.
Single(v) == \E t \in DOMAIN v : v = [s \in {t} |-> v[t]]

\* The values the script can give to a key, and what is in them.
IsValue(key, v) ==
    /\ Single(v)
    /\ "bool" \in DOMAIN v => v.bool \in BOOLEAN
    /\ \A t \in DOMAIN v \cap {"int", "duration"} : v[t] \in Int
    /\ "map" \in DOMAIN v =>
        /\ IsFiniteSet(DOMAIN v.map)
        /\ \A k \in DOMAIN v.map :
            /\ Single(v.map[k])
            /\ "list" \in DOMAIN v.map[k] =>
                \A i \in DOMAIN v.map[k].list : Single(v.map[k].list[i])
            /\ key \in {"metadata", "reflectMetadata"} => k \in DOMAIN Lower

ASSUME ParamsAssumption ==
    /\ \A o \in Objects :
        /\ o.call \in {"connect", "invoke", "stream"}
        /\ o.entries \in Seq({o.entries[i] : i \in DOMAIN o.entries})
        /\ \A i \in DOMAIN o.entries : IsValue(o.entries[i].key, o.entries[i].value)
        /\ \A i, j \in DOMAIN o.entries : o.entries[i].key = o.entries[j].key => i = j
    /\ Binary \subseteq DOMAIN Lower
    /\ "" \notin PEM
    /\ SystemTags \subseteq {"url", "service", "method", "name"}
    /\ Unlimited \notin Int

VARIABLES
    object,     \* the call and the object it is given
    todo,       \* its entries that are still to be read
    params,     \* result: connectParams or callParams, by the names of the keys
    headers,    \* the headers of rawHeaders the range has not been to
    outcome,    \* "reading", "accepted", "rejected", then "ready", "failed" or "panicked"
    made        \* what the call makes of accepted parameters

vars == <<object, todo, params, headers, outcome, made>>

NoHeaders == <<>>

ConnectDefaults ==
    [plaintext |-> FALSE, reflect |-> FALSE, reflectMetadata |-> NoHeaders,
     timeout |-> 60000, maxReceiveSize |-> 0, maxSendSize |-> 0, tls |-> <<>>]

\* The tags are those that are the VU's or the script's own.
CallDefaults(vuTags) == [metadata |-> NoHeaders, timeout |-> 0, tags |-> vuTags]

Defaults(o) == IF o.call = "connect" THEN ConnectDefaults ELSE CallDefaults(o.vuTags)

\* What the call uses: the credentials, with the pool of CAs and the key pair
\* of the TLS configuration, the limits on sizes, the time, the system tags.
Nothing == [credentials |-> "none", cas |-> <<>>, pair |-> FALSE, limits |-> {},
            time |-> Unlimited, system |-> {}]

Init ==
    /\ object \in Objects
    /\ todo = object.entries
    /\ params = Defaults(object)
    /\ headers = {}
    /\ outcome = "reading"
    /\ made = Nothing

-----------------------------------------------------------------------------
(* Reading the object *)

\* v.(T) with one of the types: its value, or no value.
Exported(v, types) == {v[t] : t \in DOMAIN v \cap types}

\* parseConnectTLSParam, on the map.
TLSChecks(t) ==
    /\ \A k \in DOMAIN t \cap {"cert", "key", "password"} : "string" \in DOMAIN t[k]
    /\ "cacerts" \in DOMAIN t =>
        \/ "string" \in DOMAIN t.cacerts
        \/ /\ "list" \in DOMAIN t.cacerts
           /\ \A i \in DOMAIN t.cacerts.list : "string" \in DOMAIN t.cacerts.list[i]

\* Mutant of Parsed: sizes are not compared with zero.
Mut_ParsedNegative(key, v) ==
    IF key \in {"maxReceiveSize", "maxSendSize"} THEN Exported(v, {"int"})
    ELSE CASE key \in {"plaintext", "reflect"} -> Exported(v, {"bool"})
           [] key = "timeout" -> Exported(v, {"int", "duration"})
           [] key = "tls" -> {t \in Exported(v, {"map"}) : TLSChecks(t)}
           [] key = "tags" -> Exported(v, {"tags", "nil"})

\* What a key's value is read as, if it can be.
Parsed(key, v) ==
    CASE key \in {"plaintext", "reflect"} -> Exported(v, {"bool"})
      [] key \in {"maxReceiveSize", "maxSendSize"} -> {n \in Exported(v, {"int"}) : n >= 0}
      [] key = "timeout" -> Exported(v, {"int", "duration"})
      [] key = "tls" -> {t \in Exported(v, {"map"}) : TLSChecks(t)}
      [] key = "tags" -> Exported(v, {"tags", "nil"})

\* The rawHeaders of a metadata value, empty for undefined, if it has any.
RawHeaders(v) == Exported(v, {"map"}) \cup {NoHeaders : t \in DOMAIN v \cap {"nil"}}

IsMetadata(key) == key \in {"metadata", "reflectMetadata"}

Entry == Head(todo)

Reject ==
    /\ outcome' = "rejected"
    /\ UNCHANGED <<object, todo, params, headers, made>>

\* One pass of the loops over Keys(), other than for metadata: an unknown key
\* and a value that cannot be read end it.  Tags are added to those there.
ReadKey ==
    /\ outcome = "reading" /\ headers = {} /\ todo # <<>>
    /\ ~(IsMetadata(Entry.key) /\ Entry.key \in DOMAIN params)
    /\ IF Entry.key \notin DOMAIN params \/ Parsed(Entry.key, Entry.value) = {} THEN Reject
       ELSE /\ \E x \in Parsed(Entry.key, Entry.value) :
                params' = [params EXCEPT ![Entry.key] = IF Entry.key = "tags" THEN @ \cup x ELSE x]
            /\ todo' = Tail(todo)
            /\ UNCHANGED <<object, headers, outcome, made>>

\* newMetadata up to the range over the headers.
ReadMetadata ==
    /\ outcome = "reading" /\ headers = {} /\ todo # <<>>
    /\ IsMetadata(Entry.key) /\ Entry.key \in DOMAIN params
    /\ IF RawHeaders(Entry.value) = {} THEN Reject
       ELSE /\ \E md \in RawHeaders(Entry.value) :
                /\ headers' = DOMAIN md
                /\ todo' = IF DOMAIN md = {} THEN Tail(todo) ELSE todo
            /\ UNCHANGED <<object, params, outcome, made>>

\* Mutant of AppendHeader: the header is set.
Mut_AppendSets(md, name, x) ==
    [n \in DOMAIN md \cup {Lower[name]} |-> IF n = Lower[name] THEN <<x>> ELSE md[n]]

\* md.Append: the values of names that differ in case come together.
AppendHeader(md, name, x) ==
    [n \in DOMAIN md \cup {Lower[name]} |->
        IF n \notin DOMAIN md THEN <<x>>
        ELSE IF n = Lower[name] THEN Append(md[n], x) ELSE md[n]]

\* The name of a header, as it is written, says whether its value has to be binary.
HeaderValue(name, v) == Exported(v, {IF name \in Binary THEN "bytes" ELSE "string"})

\* A header is put into the result, and the range goes on.
KeepHeader(name, x) ==
    /\ params' = [params EXCEPT ![Entry.key] = AppendHeader(@, name, x)]
    /\ headers' = headers \ {name}
    /\ todo' = IF headers = {name} THEN Tail(todo) ELSE todo
    /\ UNCHANGED <<object, outcome, made>>

\* Mutant of ReadHeader: a value of the wrong kind is taken for an empty one.
Mut_ReadHeaderEmpty ==
    /\ outcome = "reading" /\ headers # {}
    /\ \E name \in headers :
        LET value == HeaderValue(name, Entry.value.map[name])
        IN  KeepHeader(name, IF value = {} THEN "" ELSE CHOOSE x \in value : TRUE)

\* One pass of the range, which has an order of its own each time.
ReadHeader ==
    /\ outcome = "reading" /\ headers # {}
    /\ \E name \in headers :
        LET value == HeaderValue(name, Entry.value.map[name])
        IN  \/ value = {} /\ Reject
            \/ \E x \in value : KeepHeader(name, x)

Accept ==
    /\ outcome = "reading" /\ headers = {} /\ todo = <<>>
    /\ outcome' = "accepted"
    /\ UNCHANGED <<object, todo, params, headers, made>>

-----------------------------------------------------------------------------
(* What connect makes of its parameters *)

\* tlsConfigMap[k].(string), with the zero value in place of anything else.
Text(t, k) == IF k \in DOMAIN t /\ "string" \in DOMAIN t[k] THEN t[k].string ELSE ""

\* Mutant of CACerts: a single string is not looked for.
Mut_CACertsList(t) ==
    IF "cacerts" \in DOMAIN t /\ "list" \in DOMAIN t.cacerts
    THEN [i \in DOMAIN t.cacerts.list |-> t.cacerts.list[i].string] ELSE <<>>

\* The certificates of the CAs; an entry that is not a string would be empty.
CACerts(t) ==
    IF "cacerts" \notin DOMAIN t THEN <<>>
    ELSE IF "list" \in DOMAIN t.cacerts
    THEN [i \in DOMAIN t.cacerts.list |->
            IF "string" \in DOMAIN t.cacerts.list[i] THEN t.cacerts.list[i].string ELSE ""]
    ELSE <<t.cacerts.string>>

\* connect goes on to Dial.
Connect(credentials, cas, pair) ==
    /\ outcome' = "ready"
    /\ made' = [Nothing EXCEPT !.credentials = credentials, !.cas = cas, !.pair = pair,
                    !.time = params.timeout,
                    !.limits = {k \in {"maxReceiveSize", "maxSendSize"} : params[k] > 0}]

Connecting == object.call = "connect" /\ outcome = "accepted"

\* Without TLS, whatever the script says about it, or with that of the VU.
ConnectPlain ==
    /\ Connecting
    /\ \/ params.plaintext /\ Connect("insecure", <<>>, FALSE)
       \/ ~params.plaintext /\ DOMAIN params.tls = {} /\ Connect("tls", <<>>, FALSE)
    /\ UNCHANGED <<object, todo, params, headers>>

\* buildTLSConfigFromMap: a password makes the key be decrypted, each CA is to
\* be in the pool, and a certificate and a key are to be a pair.  The error of
\* SystemCertPool is ignored: without a pool the first CA to be put into it panics.
BuildTLS ==
    /\ Connecting /\ ~params.plaintext /\ DOMAIN params.tls # {}
    /\ LET key == Text(params.tls, "key")
           paired == Text(params.tls, "cert") # "" /\ key # ""
           encrypted == Text(params.tls, "password") # ""
           cas == CACerts(params.tls)
           pooled == \A i \in DOMAIN cas : cas[i] \in PEM
       IN  \/ /\ encrypted => key # ""
              /\ pooled /\ Connect("tls", cas, paired)
           \/ /\ encrypted \/ ~pooled \/ paired
              /\ outcome' = "failed" /\ UNCHANGED made
           \/ /\ encrypted => key # ""
              /\ cas # <<>> /\ cas[1] \in PEM
              /\ outcome' = "panicked" /\ UNCHANGED made
    /\ UNCHANGED <<object, todo, params, headers>>

-----------------------------------------------------------------------------
(* What invoke and the stream constructor make of theirs *)

\* Mutant of CallSystemTags: the name is set like the others.
Mut_CallSystemTags(tags) == SystemTags

\* SetSystemTags: a name of the script's own stays.
CallSystemTags(tags) == IF "name" \in tags THEN SystemTags \ {"name"} ELSE SystemTags

\* Without a timeout, an invocation has two minutes, a stream all the time.
CallTime(call, timeout) ==
    IF timeout # 0 THEN timeout ELSE IF call = "invoke" THEN 120000 ELSE Unlimited

Call ==
    /\ object.call \in {"invoke", "stream"} /\ outcome = "accepted"
    /\ outcome' = "ready"
    /\ made' = [Nothing EXCEPT !.time = CallTime(object.call, params.timeout),
                               !.system = CallSystemTags(params.tags)]
    /\ UNCHANGED <<object, todo, params, headers>>

Next ==
    \/ ReadKey \/ ReadMetadata \/ ReadHeader \/ Accept
    \/ ConnectPlain \/ BuildTLS \/ Call

Spec == Init /\ [][Next]_vars

-----------------------------------------------------------------------------
Entries == {object.entries[i] : i \in DOMAIN object.entries}

\* The variables have values of their kinds, and a range is running only for a
\* metadata object.
TypeOK ==
    /\ object \in Objects
    /\ todo \in Seq(Entries)
    /\ DOMAIN params = DOMAIN Defaults(object)
    /\ params.timeout \in Int
    /\ object.call = "connect" =>
        /\ params.plaintext \in BOOLEAN /\ params.reflect \in BOOLEAN
        /\ params.maxReceiveSize \in Nat /\ params.maxSendSize \in Nat
    /\ headers \subseteq DOMAIN Lower
    /\ headers # {} => outcome \in {"reading", "rejected"} /\ IsMetadata(Entry.key)
    /\ outcome \in {"reading", "accepted", "rejected", "ready", "failed", "panicked"}
    /\ made.time \in Int \cup {Unlimited} /\ made.system \subseteq SystemTags
    /\ made # Nothing => outcome = "ready"

-----------------------------------------------------------------------------
Values(seq) == {seq[i] : i \in DOMAIN seq}

\* An entry nothing can be made of, by itself.
Bad(e) ==
    \/ e.key \notin DOMAIN Defaults(object)
    \/ /\ e.key \in DOMAIN Defaults(object)
       /\ IF IsMetadata(e.key)
          THEN \A md \in RawHeaders(e.value) :
                \E name \in DOMAIN md : HeaderValue(name, md[name]) = {}
          ELSE Parsed(e.key, e.value) = {}

\* An object is rejected because of an entry that is bad by itself, in whatever
\* order the keys were written and the headers came out of their map, and none
\* with a bad entry gets through (newCallParams, newConnectParams, params.go:41-66,
\* 84-101, 150-206).
VerdictIsOrderless ==
    /\ outcome = "rejected" => \E e \in Entries : Bad(e)
    /\ outcome \in {"accepted", "ready", "failed", "panicked"} => \A e \in Entries : ~Bad(e)

\* The value a call gets for a metadata object: each header is there once, under
\* the name grpc-go uses, also beside one whose name differs only in case.
HasHeaders(md, given) ==
    /\ DOMAIN md = {Lower[name] : name \in DOMAIN given}
    /\ \A n \in DOMAIN md :
        LET names == {name \in DOMAIN given : Lower[name] = n}
        IN  /\ Len(md[n]) = Cardinality(names)
            /\ Values(md[n]) = UNION {Exported(given[name], {"bytes", "string"}) : name \in names}

\* What is accepted is what the script gave: nothing of an entry is lost or changed by
\* another one, and what has no entry keeps its default (params.go:26-207).
AcceptedIsGiven ==
    outcome \in {"accepted", "ready", "failed", "panicked"} =>
        /\ \A e \in Entries :
            IF IsMetadata(e.key)
            THEN \E given \in RawHeaders(e.value) : HasHeaders(params[e.key], given)
            ELSE \E x \in Exported(e.value, DOMAIN e.value) :
                    params[e.key] = IF e.key = "tags" THEN object.vuTags \cup x ELSE x
        /\ \A k \in DOMAIN params \ {e.key : e \in Entries} : params[k] = Defaults(object)[k]

\* What the parser has let pass in tls is used when the credentials are made, and
\* nothing falls through the unchecked assertions there: all the CAs are in the pool,
\* and a certificate that is not used is one without a key, or the other way round.
\* Without tls, or with plaintext, there is neither (client.go:172-233).
TLSIsUsed ==
    object.call = "connect" /\ outcome = "ready" =>
        LET tls == params.tls
            given == IF "cacerts" \notin DOMAIN tls THEN {}
                     ELSE IF "list" \in DOMAIN tls.cacerts THEN Values(tls.cacerts.list)
                     ELSE {tls.cacerts}
        IN  /\ made.credentials = IF params.plaintext THEN "insecure" ELSE "tls"
            /\ params.plaintext => made.cas = <<>> /\ ~made.pair
            /\ ~params.plaintext =>
                /\ {[string |-> x] : x \in Values(made.cas)} = given
                /\ made.pair <=> \A k \in {"cert", "key"} :
                                    k \in DOMAIN tls /\ tls[k].string # ""

\* An invocation never runs without a timeout, whether it is not given or given
\* as zero, a name tag of the script's or the VU's own is never overwritten, and the
\* other system tags are always set (client.go:305-308, params.go:107-119).
CallIsTimedAndNamed ==
    object.call # "connect" /\ outcome = "ready" =>
        /\ object.call = "invoke" => made.time \notin {0, Unlimited}
        /\ "name" \in made.system => "name" \notin params.tags
        /\ SystemTags \ made.system \subseteq {"name"} \cap params.tags
=============================================================================
