---------------------------- MODULE ParamsProofs ----------------------------
(***************************************************************************)
(* Proofs about Params, for any objects a script can give.                 *)
(***************************************************************************)
EXTENDS Params, SequenceTheorems, FiniteSetTheorems, TLAPS

-----------------------------------------------------------------------------
(* The inductive invariant *)

\* What is read, and where the reading stands: the headers the range has been to
\* had a value.
Reading ==
    /\ object \in Objects
    /\ todo \in Seq(Entries)
    /\ DOMAIN params = DOMAIN Defaults(object)
    /\ outcome \in {"reading", "accepted", "rejected", "ready", "failed", "panicked"}
    /\ outcome \in {"accepted", "ready", "failed", "panicked"} => todo = <<>>
    /\ headers # {} =>
        /\ outcome \in {"reading", "rejected"}
        /\ todo # <<>>
        /\ IsMetadata(Entry.key) /\ Entry.key \in DOMAIN params
        /\ "map" \in DOMAIN Entry.value
        /\ headers \subseteq DOMAIN Entry.value.map
        /\ \A name \in DOMAIN Entry.value.map \ headers :
            HeaderValue(name, Entry.value.map[name]) # {}

\* The parameters the calls use have values of their kinds.
Typed ==
    /\ params.timeout \in Int
    /\ object.call = "connect" =>
        /\ params.plaintext \in BOOLEAN /\ params.reflect \in BOOLEAN
        /\ params.maxReceiveSize \in Nat /\ params.maxSendSize \in Nat
        /\ TLSChecks(params.tls)
        /\ \A k \in DOMAIN params.tls :
            /\ Single(params.tls[k])
            /\ "list" \in DOMAIN params.tls[k] =>
                \A i \in DOMAIN params.tls[k].list : Single(params.tls[k].list[i])

\* A bad entry is still ahead, unless it is what the object was rejected for.
Judged ==
    /\ \A e \in Entries : Bad(e) => e \in Values(todo)
    /\ outcome = "rejected" => \E e \in Entries : Bad(e)

\* What the call makes has been made from the parameters.
Made ==
    /\ outcome # "ready" => made = Nothing
    /\ outcome = "ready" =>
        /\ made.time \in Int \cup {Unlimited} /\ made.system \subseteq SystemTags
        /\ TLSIsUsed /\ CallIsTimedAndNamed

ParamsInv == Reading /\ Typed /\ Judged /\ Made

-----------------------------------------------------------------------------
(* Helpers *)

\* A record with one field has no second one.
LEMMA SingleField ==
    ASSUME NEW v, Single(v), NEW s \in DOMAIN v, NEW t \in DOMAIN v
    PROVE  s = t
  BY DEF Single

\* A record whose only field is a string is that string.
LEMMA SingleString ==
    ASSUME NEW v, Single(v), "string" \in DOMAIN v
    PROVE  v = [string |-> v.string]
<1>1. PICK t \in DOMAIN v : v = [s \in {t} |-> v[t]]
  BY DEF Single
<1>2. t = "string"
  BY <1>1
<1>3. v = [s \in {"string"} |-> v["string"]]
  BY <1>1, <1>2
<1>4. QED
  BY <1>3

\* The entry that is read is one of the object's, and those behind it are the rest.
LEMMA EntryOf ==
    ASSUME object \in Objects, todo \in Seq(Entries), todo # <<>>
    PROVE  /\ Entry \in Entries
           /\ IsValue(Entry.key, Entry.value)
           /\ Tail(todo) \in Seq(Entries)
           /\ Values(todo) \subseteq {Entry} \cup Values(Tail(todo))
<1>1. Entry \in Entries /\ Tail(todo) \in Seq(Entries)
  BY DEF Entry
<1>2. \A i \in DOMAIN object.entries : IsValue(object.entries[i].key, object.entries[i].value)
  BY ParamsAssumption
<1>3. IsValue(Entry.key, Entry.value)
  BY <1>1, <1>2 DEF Entries
<1>4. ASSUME NEW i \in DOMAIN todo, i # 1
      PROVE  todo[i] \in Values(Tail(todo))
  <2>1. /\ DOMAIN todo = 1..Len(todo) /\ DOMAIN Tail(todo) = 1..Len(todo) - 1
        /\ i \in Int /\ Len(todo) \in Nat
    BY <1>4
  <2>2. i - 1 \in DOMAIN Tail(todo) /\ Tail(todo)[i - 1] = todo[i]
    BY <1>4, <2>1
  <2>3. QED
    BY <2>2 DEF Values
<1>5. QED
  BY <1>1, <1>3, <1>4 DEF Values, Entry

\* The keys of parameters; those of a call that is not connect have no tls.
LEMMA Keys ==
    ASSUME object \in Objects
    PROVE  /\ "timeout" \in DOMAIN Defaults(object)
           /\ object.call = "connect" =>
                {"plaintext", "reflect", "maxReceiveSize", "maxSendSize", "tls"}
                    \subseteq DOMAIN Defaults(object)
  BY DEF Defaults, ConnectDefaults, CallDefaults

\* What a key is read as has the type the call expects.
LEMMA ParsedType ==
    ASSUME NEW key, NEW v, IsValue(key, v), NEW x \in Parsed(key, v)
    PROVE  /\ key = "timeout" => x \in Int
           /\ key \in {"plaintext", "reflect"} => x \in BOOLEAN
           /\ key \in {"maxReceiveSize", "maxSendSize"} => x \in Nat
           /\ key = "tls" =>
                /\ TLSChecks(x)
                /\ \A k \in DOMAIN x :
                    /\ Single(x[k])
                    /\ "list" \in DOMAIN x[k] => \A i \in DOMAIN x[k].list : Single(x[k].list[i])
<1>1. key = "timeout" => x \in Int
  BY DEF Parsed, Exported, IsValue
<1>2. key \in {"plaintext", "reflect"} => x \in BOOLEAN
  BY DEF Parsed, Exported, IsValue
<1>3. key \in {"maxReceiveSize", "maxSendSize"} => x \in Nat
  BY DEF Parsed, Exported, IsValue
<1>4. ASSUME key = "tls" PROVE x = v["map"] /\ "map" \in DOMAIN v /\ TLSChecks(x)
  BY <1>4 DEF Parsed, Exported
<1>5. QED
  BY <1>1, <1>2, <1>3, <1>4 DEF IsValue
-----------------------------------------------------------------------------
(* Reading the object *)

\* An entry a step has been through is not bad.
LEMMA PassOver ==
    ASSUME ParamsInv, todo # <<>>, ~Bad(Entry), todo' = Tail(todo), object' = object
    PROVE  todo' \in Seq(Entries') /\ \A e \in Entries' : Bad(e)' => e \in Values(todo)'
<1>1. Values(todo) \subseteq {Entry} \cup Values(Tail(todo)) /\ Tail(todo) \in Seq(Entries)
  BY EntryOf DEF ParamsInv, Reading
<1>2. Entries' = Entries /\ \A e : Bad(e)' <=> Bad(e)
  BY DEF Entries, Bad
<1>3. \A e \in Entries : Bad(e) => e \in Values(Tail(todo))
  BY <1>1 DEF ParamsInv, Judged
<1>4. Values(todo)' = Values(Tail(todo))
  BY DEF Values
<1>5. QED
  BY <1>1, <1>2, <1>3, <1>4

\* A rejection keeps the invariant if the entry is bad.
LEMMA RejectKeeps ==
    ASSUME ParamsInv, Reject, outcome = "reading", todo # <<>>, Bad(Entry)
    PROVE  ParamsInv'
<1>1. Entry \in Entries
  BY EntryOf DEF ParamsInv, Reading
<1>2. /\ Entries' = Entries /\ \A e : Bad(e)' <=> Bad(e)
      /\ Entry' = Entry /\ Values(todo)' = Values(todo)
  BY DEF Reject, Entries, Bad, Entry, Values
<1>3. Reading'
  BY <1>2 DEF ParamsInv, Reading, Reject
<1>4. Typed'
  BY DEF ParamsInv, Typed, Reject
<1>5. Judged'
  BY <1>1, <1>2 DEF ParamsInv, Judged, Reject
<1>6. Made'
  BY DEF ParamsInv, Made, Reject
<1>7. QED
  BY <1>3, <1>4, <1>5, <1>6 DEF ParamsInv

LEMMA ReadKeyKeeps ==
    ASSUME ParamsInv, ReadKey
    PROVE  ParamsInv'
<1> DEFINE key == Entry.key
           value == Entry.value
<1>1. /\ outcome = "reading" /\ headers = {} /\ todo # <<>>
      /\ ~(IsMetadata(key) /\ key \in DOMAIN params)
  BY DEF ReadKey
<1>2. object \in Objects /\ DOMAIN params = DOMAIN Defaults(object)
  BY DEF ParamsInv, Reading
<1>3. IsValue(key, value) /\ Tail(todo) \in Seq(Entries)
  BY <1>1, EntryOf DEF ParamsInv, Reading
<1>4. CASE key \notin DOMAIN params \/ Parsed(key, value) = {}
  <2>1. Reject
    BY <1>4 DEF ReadKey
  <2>2. Bad(Entry)
    BY <1>1, <1>2, <1>4 DEF Bad
  <2>3. QED
    BY <1>1, <2>1, <2>2, RejectKeeps
<1>5. CASE key \in DOMAIN params /\ Parsed(key, value) # {}
  <2>1. PICK x \in Parsed(key, value) :
            params' = [params EXCEPT ![key] = IF key = "tags" THEN @ \cup x ELSE x]
    BY <1>5 DEF ReadKey
  <2>2. todo' = Tail(todo) /\ UNCHANGED <<object, headers, outcome, made>>
    BY <1>5 DEF ReadKey
  <2>3. ~Bad(Entry)
    BY <1>1, <1>2, <1>5 DEF Bad
  <2>4. todo' \in Seq(Entries') /\ \A e \in Entries' : Bad(e)' => e \in Values(todo)'
    BY <1>1, <2>2, <2>3, PassOver
  <2>5. Reading'
    BY <1>1, <1>2, <2>1, <2>2, <2>4 DEF ParamsInv, Reading, Defaults
  <2>6. \A k \in DOMAIN params : k # key => params'[k] = params[k]
    BY <2>1
  <2>7. key # "tags" => params'[key] = x
    BY <1>5, <2>1
  <2>8. Typed'
    <3>1. params'.timeout \in Int
      BY <1>2, <1>3, <2>6, <2>7, Keys, ParsedType DEF ParamsInv, Typed
    <3>2. ASSUME object.call = "connect"
          PROVE  /\ params'.plaintext \in BOOLEAN /\ params'.reflect \in BOOLEAN
                 /\ params'.maxReceiveSize \in Nat /\ params'.maxSendSize \in Nat
      BY <3>2, <1>2, <1>3, <2>6, <2>7, Keys, ParsedType DEF ParamsInv, Typed
    <3>3. ASSUME object.call = "connect"
          PROVE  /\ TLSChecks(params'.tls)
                 /\ \A k \in DOMAIN params'.tls :
                     /\ Single(params'.tls[k])
                     /\ "list" \in DOMAIN params'.tls[k] =>
                         \A i \in DOMAIN params'.tls[k].list : Single(params'.tls[k].list[i])
      <4>1. CASE key = "tls"
        BY <4>1, <1>3, <2>7, ParsedType
      <4>2. CASE key # "tls"
        <5>1. params'.tls = params.tls
          BY <4>2, <3>3, <1>2, <2>6, Keys
        <5>2. QED
          BY <5>1, <3>3 DEF ParamsInv, Typed
      <4>3. QED
        BY <4>1, <4>2
    <3>4. QED
      BY <2>2, <3>1, <3>2, <3>3 DEF Typed
  <2>9. Judged' /\ Made'
    BY <1>1, <2>2, <2>4 DEF ParamsInv, Judged, Made
  <2>10. QED
    BY <2>5, <2>8, <2>9 DEF ParamsInv
<1>6. QED
  BY <1>4, <1>5

\* What is not a parameter of a kind Typed speaks of may change.
LEMMA TypedStays ==
    ASSUME ParamsInv, object' = object, DOMAIN params' = DOMAIN params,
           \A k \in DOMAIN params : ~IsMetadata(k) => params'[k] = params[k]
    PROVE  Typed'
<1>1. object \in Objects /\ DOMAIN params = DOMAIN Defaults(object)
  BY DEF ParamsInv, Reading
<1>2. params'.timeout = params.timeout
  BY <1>1, Keys DEF IsMetadata
<1>3. object.call = "connect" =>
        /\ params'.plaintext = params.plaintext /\ params'.reflect = params.reflect
        /\ params'.maxReceiveSize = params.maxReceiveSize
        /\ params'.maxSendSize = params.maxSendSize /\ params'.tls = params.tls
  BY <1>1, Keys DEF IsMetadata
<1>4. QED
  BY <1>2, <1>3 DEF ParamsInv, Typed

LEMMA ReadMetadataKeeps ==
    ASSUME ParamsInv, ReadMetadata
    PROVE  ParamsInv'
<1>1. /\ outcome = "reading" /\ headers = {} /\ todo # <<>>
      /\ IsMetadata(Entry.key) /\ Entry.key \in DOMAIN params
  BY DEF ReadMetadata
<1>2. object \in Objects /\ DOMAIN params = DOMAIN Defaults(object)
  BY DEF ParamsInv, Reading
<1>3. CASE RawHeaders(Entry.value) = {}
  <2>1. Reject
    BY <1>3 DEF ReadMetadata
  <2>2. Bad(Entry)
    BY <1>1, <1>2, <1>3 DEF Bad
  <2>3. QED
    BY <1>1, <2>1, <2>2, RejectKeeps
<1>4. CASE RawHeaders(Entry.value) # {}
  <2>1. PICK md \in RawHeaders(Entry.value) :
            headers' = DOMAIN md /\ todo' = IF DOMAIN md = {} THEN Tail(todo) ELSE todo
    BY <1>4 DEF ReadMetadata
  <2>2. UNCHANGED <<object, params, outcome, made>>
    BY <1>4 DEF ReadMetadata
  <2>3. Typed' /\ Made'
    BY <1>1, <2>2, TypedStays DEF ParamsInv, Made
  <2>4. CASE DOMAIN md = {}
    <3>1. todo' = Tail(todo) /\ headers' = {}
      BY <2>1, <2>4
    <3>2. ~Bad(Entry)
      BY <1>1, <1>2, <2>4 DEF Bad
    <3>3. todo' \in Seq(Entries') /\ \A e \in Entries' : Bad(e)' => e \in Values(todo)'
      BY <1>1, <2>2, <3>1, <3>2, PassOver
    <3>4. Reading' /\ Judged'
      BY <1>1, <1>2, <2>2, <3>1, <3>3 DEF ParamsInv, Reading, Judged, Defaults
    <3>5. QED
      BY <2>3, <3>4 DEF ParamsInv
  <2>5. CASE DOMAIN md # {}
    <3>1. todo' = todo
      BY <2>1, <2>5
    <3>2. DOMAIN NoHeaders = {}
      BY DEF NoHeaders
    <3>3. "map" \in DOMAIN Entry.value /\ md = Entry.value.map
      BY <2>5, <3>2 DEF RawHeaders, Exported
    <3>4. /\ Entries' = Entries /\ \A e : Bad(e)' <=> Bad(e)
          /\ Entry' = Entry /\ Values(todo)' = Values(todo)
      BY <2>2, <3>1 DEF Entry, Entries, Values, Bad
    <3>5. Reading'
      BY <1>1, <1>2, <2>1, <2>2, <3>1, <3>3, <3>4 DEF ParamsInv, Reading, Defaults
    <3>6. Judged'
      BY <2>2, <3>4 DEF ParamsInv, Judged
    <3>7. QED
      BY <2>3, <3>5, <3>6 DEF ParamsInv
  <2>6. QED
    BY <2>4, <2>5
<1>5. QED
  BY <1>3, <1>4

LEMMA ReadHeaderKeeps ==
    ASSUME ParamsInv, ReadHeader
    PROVE  ParamsInv'
<1> DEFINE md == Entry.value.map
<1>1. /\ outcome = "reading" /\ headers # {} /\ todo # <<>>
      /\ IsMetadata(Entry.key) /\ Entry.key \in DOMAIN params
      /\ "map" \in DOMAIN Entry.value /\ headers \subseteq DOMAIN md
      /\ \A name \in DOMAIN md \ headers : HeaderValue(name, md[name]) # {}
      /\ object \in Objects /\ DOMAIN params = DOMAIN Defaults(object)
  BY DEF ReadHeader, ParamsInv, Reading
<1>2. Single(Entry.value)
  BY <1>1, EntryOf DEF ParamsInv, Reading, IsValue
<1>3. md \in RawHeaders(Entry.value) /\ \A h \in RawHeaders(Entry.value) : h = md
  <2>1. "nil" \notin DOMAIN Entry.value
    BY <1>1, <1>2, SingleField
  <2>2. QED
    BY <1>1, <2>1 DEF RawHeaders, Exported
<1>4. PICK name \in headers :
        \/ HeaderValue(name, md[name]) = {} /\ Reject
        \/ \E x \in HeaderValue(name, md[name]) : KeepHeader(name, x)
  BY DEF ReadHeader
<1>5. CASE HeaderValue(name, md[name]) = {} /\ Reject
  <2>1. Bad(Entry)
    BY <1>1, <1>3, <1>4, <1>5 DEF Bad
  <2>2. QED
    BY <1>1, <1>5, <2>1, RejectKeeps
<1>6. ASSUME NEW x \in HeaderValue(name, md[name]), KeepHeader(name, x)
      PROVE  ParamsInv'
  <2>1. /\ params' = [params EXCEPT ![Entry.key] = AppendHeader(@, name, x)]
        /\ headers' = headers \ {name}
        /\ todo' = IF headers = {name} THEN Tail(todo) ELSE todo
        /\ UNCHANGED <<object, outcome, made>>
    BY <1>6 DEF KeepHeader
  <2>2. Typed' /\ Made'
    BY <1>1, <2>1, TypedStays DEF ParamsInv, Made
  <2>3. \A n \in DOMAIN md \ (headers \ {name}) : HeaderValue(n, md[n]) # {}
    BY <1>1, <1>6
  <2>4. CASE headers = {name}
    <3>1. todo' = Tail(todo) /\ headers' = {}
      BY <2>1, <2>4
    <3>2. ~Bad(Entry)
      BY <1>1, <1>3, <2>3, <2>4 DEF Bad
    <3>3. todo' \in Seq(Entries') /\ \A e \in Entries' : Bad(e)' => e \in Values(todo)'
      BY <1>1, <2>1, <3>1, <3>2, PassOver
    <3>4. Reading' /\ Judged'
      BY <1>1, <2>1, <3>1, <3>3 DEF ParamsInv, Reading, Judged, Defaults
    <3>5. QED
      BY <2>2, <3>4 DEF ParamsInv
  <2>5. CASE headers # {name}
    <3>1. todo' = todo
      BY <2>1, <2>5
    <3>2. /\ Entries' = Entries /\ \A e : Bad(e)' <=> Bad(e)
          /\ Entry' = Entry /\ Values(todo)' = Values(todo)
      BY <2>1, <3>1 DEF Entry, Entries, Values, Bad
    <3>3. Reading'
      BY <1>1, <2>1, <2>3, <3>1, <3>2 DEF ParamsInv, Reading, Defaults
    <3>4. Judged'
      BY <2>1, <3>2 DEF ParamsInv, Judged
    <3>5. QED
      BY <2>2, <3>3, <3>4 DEF ParamsInv
  <2>6. QED
    BY <2>4, <2>5
<1>7. QED
  BY <1>4, <1>5, <1>6

LEMMA AcceptKeeps ==
    ASSUME ParamsInv, Accept
    PROVE  ParamsInv'
<1>1. /\ Entries' = Entries /\ \A e : Bad(e)' <=> Bad(e)
      /\ Entry' = Entry /\ Values(todo)' = Values(todo)
  BY DEF Accept, Entries, Bad, Entry, Values
<1>2. Reading'
  BY <1>1 DEF ParamsInv, Reading, Accept
<1>3. Typed' /\ Judged' /\ Made'
  BY <1>1 DEF ParamsInv, Typed, Judged, Made, Accept
<1>4. QED
  BY <1>2, <1>3 DEF ParamsInv

-----------------------------------------------------------------------------
(* What the calls make of the parameters *)

\* A call leaves what was read as it is.
LEMMA CallReads ==
    ASSUME ParamsInv, outcome = "accepted", outcome' \in {"ready", "failed", "panicked"},
           UNCHANGED <<object, todo, params, headers>>
    PROVE  Reading' /\ Typed' /\ Judged'
<1>1. /\ Entries' = Entries /\ \A e : Bad(e)' <=> Bad(e)
      /\ Entry' = Entry /\ Values(todo)' = Values(todo)
  BY DEF Entries, Bad, Entry, Values
<1>2. Reading'
  BY <1>1 DEF ParamsInv, Reading
<1>3. QED
  BY <1>1, <1>2 DEF ParamsInv, Typed, Judged

\* The CAs that are put into the pool are those that tls names.
LEMMA AllCAs ==
    ASSUME NEW t, TLSChecks(t), "cacerts" \in DOMAIN t, Single(t.cacerts),
           "list" \in DOMAIN t.cacerts => \A i \in DOMAIN t.cacerts.list : Single(t.cacerts.list[i])
    PROVE  {[string |-> x] : x \in Values(CACerts(t))} =
            IF "list" \in DOMAIN t.cacerts THEN Values(t.cacerts.list) ELSE {t.cacerts}
<1>1. CASE "list" \in DOMAIN t.cacerts
  <2> DEFINE list == t.cacerts.list
  <2>1. "string" \notin DOMAIN t.cacerts
    BY <1>1, SingleField
  <2>2. \A i \in DOMAIN list : "string" \in DOMAIN list[i]
    BY <2>1 DEF TLSChecks
  <2>3. \A i \in DOMAIN list : list[i] = [string |-> list[i].string]
    BY <1>1, <2>2, SingleString
  <2>4. CACerts(t) = [i \in DOMAIN list |-> list[i].string]
    BY <1>1, <2>2 DEF CACerts
  <2>5. Values(CACerts(t)) = {list[i].string : i \in DOMAIN list}
    BY <2>4 DEF Values
  <2>6. {[string |-> x] : x \in Values(CACerts(t))} =
            {[string |-> list[i].string] : i \in DOMAIN list}
    BY <2>5
  <2>7. {[string |-> list[i].string] : i \in DOMAIN list} = Values(list)
    BY <2>3 DEF Values
  <2>8. QED
    BY <1>1, <2>6, <2>7
<1>2. CASE "list" \notin DOMAIN t.cacerts
  <2>1. "string" \in DOMAIN t.cacerts
    BY <1>2 DEF TLSChecks
  <2>2. t.cacerts = [string |-> t.cacerts.string]
    BY <2>1, SingleString
  <2>3. Values(CACerts(t)) = {t.cacerts.string}
    BY <1>2 DEF CACerts, Values
  <2>4. QED
    BY <1>2, <2>2, <2>3
<1>3. QED
  BY <1>1, <1>2

LEMMA ConnectPlainKeeps ==
    ASSUME ParamsInv, ConnectPlain
    PROVE  ParamsInv'
<1>1. object.call = "connect" /\ outcome = "accepted" /\ UNCHANGED <<object, todo, params, headers>>
  BY DEF ConnectPlain, Connecting
<1>2. outcome' = "ready"
  BY DEF ConnectPlain, Connect
<1>3. Reading' /\ Typed' /\ Judged'
  BY <1>1, <1>2, CallReads
<1>4. /\ made'.credentials = IF params.plaintext THEN "insecure" ELSE "tls"
      /\ made'.cas = <<>> /\ made'.pair = FALSE
      /\ made'.time = params.timeout /\ made'.system = {}
      /\ params.plaintext \/ DOMAIN params.tls = {}
  BY DEF ConnectPlain, Connect, Nothing
<1>5. Values(<<>>) = {}
  BY DEF Values
<1>6. TLSIsUsed'
  BY <1>1, <1>4, <1>5 DEF TLSIsUsed, Values
<1>7. CallIsTimedAndNamed'
  BY <1>1 DEF CallIsTimedAndNamed
<1>8. Made'
  BY <1>2, <1>4, <1>6, <1>7 DEF ParamsInv, Typed, Made
<1>9. QED
  BY <1>3, <1>8 DEF ParamsInv

LEMMA BuildTLSKeeps ==
    ASSUME ParamsInv, BuildTLS
    PROVE  ParamsInv'
<1> DEFINE tls == params.tls
           paired == Text(tls, "cert") # "" /\ Text(tls, "key") # ""
<1>1. /\ object.call = "connect" /\ outcome = "accepted" /\ ~params.plaintext
      /\ UNCHANGED <<object, todo, params, headers>>
  BY DEF BuildTLS, Connecting
<1>2. \/ Connect("tls", CACerts(tls), paired)
      \/ outcome' \in {"failed", "panicked"} /\ UNCHANGED made
  BY DEF BuildTLS
<1>3. CASE outcome' \in {"failed", "panicked"} /\ UNCHANGED made
  <2>1. Reading' /\ Typed' /\ Judged'
    BY <1>1, <1>3, CallReads
  <2>2. Made'
    BY <1>1, <1>3 DEF ParamsInv, Made
  <2>3. QED
    BY <2>1, <2>2 DEF ParamsInv
<1>4. CASE Connect("tls", CACerts(tls), paired)
  <2>1. /\ outcome' = "ready"
        /\ made'.credentials = "tls" /\ made'.cas = CACerts(tls) /\ made'.pair = paired
        /\ made'.time = params.timeout /\ made'.system = {}
    BY <1>4 DEF Connect, Nothing
  <2>2. Reading' /\ Typed' /\ Judged'
    BY <1>1, <2>1, CallReads
  <2>3. /\ TLSChecks(tls)
        /\ \A k \in DOMAIN tls :
            /\ Single(tls[k])
            /\ "list" \in DOMAIN tls[k] => \A i \in DOMAIN tls[k].list : Single(tls[k].list[i])
    BY <1>1 DEF ParamsInv, Typed
  <2>4. {[string |-> x] : x \in Values(CACerts(tls))} =
            IF "cacerts" \notin DOMAIN tls THEN {}
            ELSE IF "list" \in DOMAIN tls.cacerts THEN Values(tls.cacerts.list)
            ELSE {tls.cacerts}
    <3>1. CASE "cacerts" \notin DOMAIN tls
      BY <3>1 DEF CACerts, Values
    <3>2. CASE "cacerts" \in DOMAIN tls
      BY <3>2, <2>3, AllCAs
    <3>3. QED
      BY <3>1, <3>2
  <2>5. paired <=> \A k \in {"cert", "key"} : k \in DOMAIN tls /\ tls[k].string # ""
    BY <2>3 DEF Text, TLSChecks
  <2>6. TLSIsUsed'
    <3>1. params' = params /\ params.plaintext = FALSE
      BY <1>1 DEF ParamsInv, Typed
    <3>2. ({[string |-> x] : x \in Values(made.cas)})' =
            (IF "cacerts" \notin DOMAIN params.tls THEN {}
             ELSE IF "list" \in DOMAIN params.tls.cacerts THEN Values(params.tls.cacerts.list)
             ELSE {params.tls.cacerts})'
      <4>1. made'.cas = CACerts(tls) /\ params'.tls = tls
        BY <2>1, <3>1
      <4>2. Values(made.cas)' = Values(CACerts(tls))
        BY <4>1 DEF Values
      <4>3. Values(params.tls.cacerts.list)' = Values(tls.cacerts.list)
        BY <4>1 DEF Values
      <4>4. ({[string |-> x] : x \in Values(made.cas)})' = {[string |-> x] : x \in Values(CACerts(tls))}
        BY <4>2
      <4>5. QED
        BY <2>4, <4>1, <4>3, <4>4
    <3>3. (made.pair <=> \A k \in {"cert", "key"} :
                            k \in DOMAIN params.tls /\ params.tls[k].string # "")'
      BY <2>1, <2>5, <3>1
    <3>4. (made.credentials = IF params.plaintext THEN "insecure" ELSE "tls")'
      BY <2>1, <3>1
    <3>5. QED
      BY <3>1, <3>2, <3>3, <3>4 DEF TLSIsUsed
  <2>7. Made'
    BY <1>1, <2>1, <2>6 DEF ParamsInv, Typed, Made, CallIsTimedAndNamed
  <2>8. QED
    BY <2>2, <2>7 DEF ParamsInv
<1>5. QED
  BY <1>2, <1>3, <1>4

LEMMA CallKeeps ==
    ASSUME ParamsInv, Call
    PROVE  ParamsInv'
<1>1. /\ object.call \in {"invoke", "stream"} /\ outcome = "accepted" /\ outcome' = "ready"
      /\ UNCHANGED <<object, todo, params, headers>>
      /\ made'.time = CallTime(object.call, params.timeout)
      /\ made'.system = CallSystemTags(params.tags)
  BY DEF Call, Nothing
<1>2. Reading' /\ Typed' /\ Judged'
  BY <1>1, CallReads
<1>3. params.timeout \in Int /\ Unlimited \notin Int
  BY ParamsAssumption DEF ParamsInv, Typed
<1>4. /\ made'.time \in Int \cup {Unlimited}
      /\ object.call = "invoke" => made'.time \notin {0, Unlimited}
  BY <1>1, <1>3 DEF CallTime
<1>5. CallIsTimedAndNamed'
  BY <1>1, <1>4 DEF CallIsTimedAndNamed, CallSystemTags
<1>6. Made'
  BY <1>1, <1>4, <1>5 DEF Made, TLSIsUsed, CallSystemTags
<1>7. QED
  BY <1>2, <1>6 DEF ParamsInv

-----------------------------------------------------------------------------
(* The theorems *)

LEMMA InitKeeps == Init => ParamsInv
<1> SUFFICES ASSUME Init PROVE ParamsInv
  OBVIOUS
<1>1. object \in Objects /\ todo = object.entries /\ params = Defaults(object)
      /\ headers = {} /\ outcome = "reading" /\ made = Nothing
  BY DEF Init
<1>2. Reading
  <2>1. object.entries \in Seq({object.entries[i] : i \in DOMAIN object.entries})
    BY <1>1, ParamsAssumption
  <2>2. QED
    BY <1>1, <2>1 DEF Reading, Entries
<1>3. Typed
  <2>1. params.timeout \in Int
    BY <1>1 DEF Defaults, ConnectDefaults, CallDefaults
  <2>2. object.call = "connect" =>
            /\ params.plaintext \in BOOLEAN /\ params.reflect \in BOOLEAN
            /\ params.maxReceiveSize \in Nat /\ params.maxSendSize \in Nat
            /\ params.tls = <<>>
    BY <1>1 DEF Defaults, ConnectDefaults
  <2>3. DOMAIN <<>> = {}
    OBVIOUS
  <2>4. TLSChecks(<<>>)
    BY <2>3 DEF TLSChecks
  <2>5. object.call = "connect" => TLSChecks(params.tls) /\ DOMAIN params.tls = {}
    BY <2>2, <2>3, <2>4
  <2>6. object.call = "connect" =>
            \A k \in DOMAIN params.tls :
                /\ Single(params.tls[k])
                /\ "list" \in DOMAIN params.tls[k] =>
                    \A i \in DOMAIN params.tls[k].list : Single(params.tls[k].list[i])
    BY <2>5
  <2>7. QED
    BY <2>1, <2>2, <2>5, <2>6 DEF Typed
<1>4. Judged
  BY <1>1 DEF Judged, Entries, Values
<1>5. Made
  BY <1>1 DEF Made
<1>6. QED
  BY <1>2, <1>3, <1>4, <1>5 DEF ParamsInv

LEMMA NextKeeps == ParamsInv /\ [Next]_vars => ParamsInv'
<1> SUFFICES ASSUME ParamsInv, [Next]_vars PROVE ParamsInv'
  OBVIOUS
<1>1. CASE ReadKey
  BY <1>1, ReadKeyKeeps
<1>2. CASE ReadMetadata
  BY <1>2, ReadMetadataKeeps
<1>3. CASE ReadHeader
  BY <1>3, ReadHeaderKeeps
<1>4. CASE Accept
  BY <1>4, AcceptKeeps
<1>5. CASE ConnectPlain
  BY <1>5, ConnectPlainKeeps
<1>6. CASE BuildTLS
  BY <1>6, BuildTLSKeeps
<1>7. CASE Call
  BY <1>7, CallKeeps
<1>8. CASE UNCHANGED vars
  <2>1. UNCHANGED <<object, todo, params, headers, outcome, made>>
    BY <1>8 DEF vars
  <2>2. /\ Entries' = Entries /\ \A e : Bad(e)' <=> Bad(e)
        /\ Entry' = Entry /\ Values(todo)' = Values(todo)
    BY <2>1 DEF Entries, Bad, Entry, Values
  <2>3. Reading' /\ Typed'
    BY <2>1, <2>2 DEF ParamsInv, Reading, Typed
  <2>4. Judged' /\ Made'
    <3>1. TLSIsUsed' <=> TLSIsUsed
      BY <2>1 DEF TLSIsUsed, Values
    <3>2. CallIsTimedAndNamed' <=> CallIsTimedAndNamed
      BY <2>1 DEF CallIsTimedAndNamed
    <3>3. QED
      BY <2>1, <2>2, <3>1, <3>2 DEF ParamsInv, Judged, Made
  <2>5. QED
    BY <2>3, <2>4 DEF ParamsInv
<1>9. QED
  BY <1>1, <1>2, <1>3, <1>4, <1>5, <1>6, <1>7, <1>8 DEF Next

LEMMA Invariant == Spec => []ParamsInv
  BY InitKeeps, NextKeeps, PTL DEF Spec

\* Whatever object the script gives, the variables have values of their kinds.
THEOREM TypeCorrect == Spec => []TypeOK
<1>1. ParamsInv => TypeOK
  <2> SUFFICES ASSUME ParamsInv PROVE TypeOK
    OBVIOUS
  <2>1. headers \subseteq DOMAIN Lower
    <3>1. CASE headers # {}
      <4>1. IsValue(Entry.key, Entry.value) /\ IsMetadata(Entry.key)
            /\ "map" \in DOMAIN Entry.value /\ headers \subseteq DOMAIN Entry.value.map
        BY <3>1, EntryOf DEF ParamsInv, Reading
      <4>2. QED
        BY <4>1 DEF IsValue, IsMetadata
    <3>2. QED
      BY <3>1
  <2>2. made.time \in Int \cup {Unlimited} /\ made.system \subseteq SystemTags
    <3>1. Nothing.time = Unlimited /\ Nothing.system = {}
      BY DEF Nothing
    <3>2. QED
      BY <3>1 DEF ParamsInv, Made
  <2>3. QED
    BY <2>1, <2>2 DEF ParamsInv, Reading, Typed, Made, TypeOK
<1>2. QED
  BY <1>1, Invariant, PTL

\* The verdict on an object is that on its entries, one by one: no order of the keys
\* or of the headers lets a bad one through, and no good one is rejected.
THEOREM VerdictOrderless == Spec => []VerdictIsOrderless
<1>1. ParamsInv => VerdictIsOrderless
  <2>1. ASSUME ParamsInv, outcome \in {"accepted", "ready", "failed", "panicked"}
        PROVE  \A e \in Entries : ~Bad(e)
    <3>1. todo = <<>> /\ \A e \in Entries : Bad(e) => e \in Values(todo)
      BY <2>1 DEF ParamsInv, Reading, Judged
    <3>2. QED
      BY <3>1 DEF Values
  <2>2. QED
    BY <2>1 DEF ParamsInv, Judged, VerdictIsOrderless
<1>2. QED
  BY <1>1, Invariant, PTL

\* What is accepted in tls is what the credentials are made of, for any object.
THEOREM TLSUsed == Spec => []TLSIsUsed
<1>1. ParamsInv => TLSIsUsed
  BY DEF ParamsInv, Made, TLSIsUsed
<1>2. QED
  BY <1>1, Invariant, PTL

\* No invocation is without a timeout, and no name tag is overwritten.
THEOREM CallTimedAndNamed == Spec => []CallIsTimedAndNamed
<1>1. ParamsInv => CallIsTimedAndNamed
  BY DEF ParamsInv, Made, CallIsTimedAndNamed
<1>2. QED
  BY <1>1, Invariant, PTL

-----------------------------------------------------------------------------
(* What is accepted is what was given: the invariant besides ParamsInv *)

\* Those of the names that are one header, and the values they are given.
Named(names, n) == {name \in names : Lower[name] = n}
Given(given, names, n) ==
    UNION {Exported(given[name], {"bytes", "string"}) : name \in Named(names, n)}

\* The headers of done are in md, those of one name together.
Has(md, given, done) ==
    /\ DOMAIN md = {Lower[name] : name \in done}
    /\ \A n \in DOMAIN md :
        /\ md[n] \in Seq(Values(md[n]))
        /\ Len(md[n]) = Cardinality(Named(done, n))
        /\ Values(md[n]) = Given(given, done, n)

\* The parameter of an entry is what the entry gives.
Taken(e) ==
    IF IsMetadata(e.key)
    THEN \E given \in RawHeaders(e.value) : HasHeaders(params[e.key], given)
    ELSE \E x \in Exported(e.value, DOMAIN e.value) :
            params[e.key] = IF e.key = "tags" THEN object.vuTags \cup x ELSE x

\* The entries behind have been taken, and nothing else has been changed; a range
\* that is running has put in the headers it has been to.
Kept ==
    /\ \A i, j \in DOMAIN todo : todo[i].key = todo[j].key => i = j
    /\ \A e \in Entries : e \in Values(todo) \/ (e.key \in DOMAIN params /\ Taken(e))
    /\ \A k \in DOMAIN params :
        \/ \E e \in Entries : e \notin Values(todo) /\ e.key = k
        \/ headers # {} /\ k = Entry.key
        \/ params[k] = Defaults(object)[k]
    /\ headers # {} => Has(params[Entry.key], Entry.value.map, DOMAIN Entry.value.map \ headers)

-----------------------------------------------------------------------------
(* Headers *)

\* The values of a sequence of one value, and of one with another at its end.
LEMMA ValuesOf ==
    /\ Values(<<>>) = {}
    /\ \A x : <<x>> \in Seq({x}) /\ Len(<<x>>) = 1 /\ Values(<<x>>) = {x}
    /\ \A s, x : s \in Seq(Values(s)) =>
        /\ Values(Append(s, x)) = Values(s) \cup {x}
        /\ Append(s, x) \in Seq(Values(s) \cup {x})
        /\ Len(Append(s, x)) = Len(s) + 1
<1>1. Values(<<>>) = {}
  BY DEF Values
<1>2. ASSUME NEW x PROVE <<x>> \in Seq({x}) /\ Len(<<x>>) = 1 /\ Values(<<x>>) = {x}
  BY DEF Values
<1>3. ASSUME NEW s, NEW x, s \in Seq(Values(s))
      PROVE  /\ Values(Append(s, x)) = Values(s) \cup {x}
             /\ Append(s, x) \in Seq(Values(s) \cup {x})
             /\ Len(Append(s, x)) = Len(s) + 1
  <2> DEFINE S == Values(s) \cup {x}
             a == Append(s, x)
  <2>1. s \in Seq(S) /\ x \in S
    <3>1. \A i \in 1..Len(s) : s[i] \in S
      BY <1>3
    <3>2. QED
      BY <1>3, <3>1
  <2> HIDE DEF S
  <2>2. /\ a \in Seq(S) /\ Len(a) = Len(s) + 1
        /\ \A i \in 1..Len(s) : a[i] = s[i]
        /\ a[Len(s) + 1] = x
    BY <2>1, AppendProperties
  <2>3. DOMAIN a = 1..Len(s) + 1 /\ DOMAIN s = 1..Len(s) /\ Len(s) \in Nat
    BY <2>1, <2>2
  <2>4. Values(a) = Values(s) \cup {x}
    <3>1. ASSUME NEW i \in DOMAIN a PROVE a[i] \in Values(s) \cup {x}
      <4>1. i \in 1..Len(s) \/ i = Len(s) + 1
        BY <2>3
      <4>2. QED
        BY <4>1, <2>2, <2>3 DEF Values
    <3>2. ASSUME NEW i \in DOMAIN s PROVE s[i] \in Values(a)
      <4>1. i \in DOMAIN a /\ a[i] = s[i]
        BY <2>2, <2>3
      <4>2. QED
        BY <4>1 DEF Values
    <3>3. x \in Values(a)
      <4>1. Len(s) + 1 \in DOMAIN a
        BY <2>3
      <4>2. QED
        BY <4>1, <2>2 DEF Values
    <3>4. Values(a) \subseteq Values(s) \cup {x}
      BY <3>1 DEF Values
    <3>5. Values(s) \subseteq Values(a)
      BY <3>2 DEF Values
    <3>6. QED
      BY <3>3, <3>4, <3>5
  <2>5. QED
    BY <2>2, <2>4 DEF S
<1>4. QED
  BY <1>1, <1>2, <1>3

\* A header that is put in is there with those before it.
LEMMA AppendHas ==
    ASSUME NEW md, NEW given, NEW done, NEW name, NEW x,
           Has(md, given, done), IsFiniteSet(done), name \notin done,
           Exported(given[name], {"bytes", "string"}) = {x}
    PROVE  Has(AppendHeader(md, name, x), given, done \cup {name})
<1> DEFINE l == Lower[name]
           all == done \cup {name}
           new == AppendHeader(md, name, x)
<1>1. DOMAIN new = DOMAIN md \cup {l}
  BY DEF AppendHeader
<1>2. DOMAIN new = {Lower[m] : m \in all}
  BY <1>1 DEF Has
<1>3. ASSUME NEW n \in DOMAIN new, n # l
      PROVE  /\ n \in DOMAIN md /\ new[n] = md[n]
             /\ Named(all, n) = Named(done, n) /\ Given(given, all, n) = Given(given, done, n)
  <2>1. n \in DOMAIN md /\ new[n] = md[n]
    BY <1>1, <1>3 DEF AppendHeader
  <2>2. Named(all, n) = Named(done, n)
    BY <1>3 DEF Named
  <2>3. QED
    BY <2>1, <2>2 DEF Given
<1>4. Named(all, l) = Named(done, l) \cup {name} /\ name \notin Named(done, l)
  BY DEF Named
<1>5. Given(given, all, l) = Given(given, done, l) \cup {x}
  BY <1>4 DEF Given
<1>6. IsFiniteSet(Named(done, l))
  BY FS_Subset DEF Named
<1>7. /\ Cardinality(Named(all, l)) = Cardinality(Named(done, l)) + 1
      /\ Cardinality(Named(done, l)) \in Nat
  BY <1>4, <1>6, FS_AddElement, FS_CardinalityType
<1>8. CASE l \in DOMAIN md
  <2>1. new[l] = Append(md[l], x)
    BY <1>8 DEF AppendHeader
  <2>2. /\ Values(new[l]) = Values(md[l]) \cup {x}
        /\ new[l] \in Seq(Values(md[l]) \cup {x})
        /\ Len(new[l]) = Len(md[l]) + 1
    BY <1>8, <2>1, ValuesOf DEF Has
  <2>3. Values(md[l]) = Given(given, done, l) /\ Len(md[l]) = Cardinality(Named(done, l))
    BY <1>8 DEF Has
  <2>4. /\ new[l] \in Seq(Values(new[l]))
        /\ Len(new[l]) = Cardinality(Named(all, l))
        /\ Values(new[l]) = Given(given, all, l)
    BY <1>5, <1>7, <2>2, <2>3
  <2>5. QED
    BY <1>2, <1>3, <2>4 DEF Has
<1>9. CASE l \notin DOMAIN md
  <2>1. new[l] = <<x>>
    BY <1>9 DEF AppendHeader
  <2>2. Named(done, l) = {}
    BY <1>9 DEF Has, Named
  <2>3. Given(given, done, l) = {} /\ Cardinality(Named(done, l)) = 0
    BY <2>2, FS_EmptySet DEF Given
  <2>4. /\ new[l] \in Seq(Values(new[l]))
        /\ Len(new[l]) = Cardinality(Named(all, l))
        /\ Values(new[l]) = Given(given, all, l)
    <3>1. Values(new[l]) = {x} /\ new[l] \in Seq({x}) /\ Len(new[l]) = 1
      BY <2>1, ValuesOf
    <3>2. Given(given, all, l) = {x} /\ Cardinality(Named(all, l)) = 1
      BY <1>5, <1>7, <2>3
    <3>3. QED
      BY <3>1, <3>2
  <2>5. QED
    BY <1>2, <1>3, <2>4 DEF Has
<1>10. QED
  BY <1>8, <1>9

\* No headers are there before the first one; once all are, that is what was given.
LEMMA HasNone ==
    /\ \A given : Has(NoHeaders, given, {})
    /\ \A md, given : Has(md, given, DOMAIN given) => HasHeaders(md, given)
    /\ \A given : DOMAIN given = {} => HasHeaders(NoHeaders, given)
<1>1. DOMAIN NoHeaders = {}
  BY DEF NoHeaders
<1>2. \A given : Has(NoHeaders, given, {})
  BY <1>1 DEF Has
<1>3. ASSUME NEW md, NEW given, Has(md, given, DOMAIN given) PROVE HasHeaders(md, given)
  <2> DEFINE names(n) == {name \in DOMAIN given : Lower[name] = n}
  <2>1. \A n : Named(DOMAIN given, n) = names(n)
    BY DEF Named
  <2>2. \A n : Given(given, DOMAIN given, n) =
                UNION {Exported(given[name], {"bytes", "string"}) : name \in names(n)}
    BY <2>1 DEF Given
  <2> HIDE DEF names
  <2>3. \A n \in DOMAIN md :
            /\ Len(md[n]) = Cardinality(names(n))
            /\ Values(md[n]) = UNION {Exported(given[name], {"bytes", "string"}) : name \in names(n)}
    BY <1>3, <2>1, <2>2 DEF Has
  <2>4. DOMAIN md = {Lower[name] : name \in DOMAIN given}
    BY <1>3 DEF Has
  <2>5. QED
    BY <2>3, <2>4 DEF HasHeaders, names
<1>4. QED
  BY <1>2, <1>3

-----------------------------------------------------------------------------
(* Entries *)

\* No two entries have the same key.
LEMMA OneEntry ==
    ASSUME object \in Objects, NEW e \in Entries, NEW f \in Entries, e.key = f.key
    PROVE  e = f
<1>1. PICK i \in DOMAIN object.entries : e = object.entries[i]
  BY DEF Entries
<1>2. PICK j \in DOMAIN object.entries : f = object.entries[j]
  BY DEF Entries
<1>3. i = j
  BY <1>1, <1>2, ParamsAssumption
<1>4. QED
  BY <1>1, <1>2, <1>3

\* The entry that is read is ahead once.
LEMMA Ahead ==
    ASSUME ParamsInv, Kept, todo # <<>>
    PROVE  /\ Entry \in Entries
           /\ Values(todo) = {Entry} \cup Values(Tail(todo))
           /\ Entry \notin Values(Tail(todo))
           /\ \A i, j \in DOMAIN Tail(todo) : Tail(todo)[i].key = Tail(todo)[j].key => i = j
<1>1. todo \in Seq(Entries) /\ object \in Objects
  BY DEF ParamsInv, Reading
<1>2. Entry \in Entries /\ Values(todo) \subseteq {Entry} \cup Values(Tail(todo))
  BY <1>1, EntryOf
<1>3. /\ DOMAIN todo = 1..Len(todo) /\ Len(todo) \in Nat /\ 1 \in DOMAIN todo
      /\ DOMAIN Tail(todo) = 1..Len(todo) - 1 /\ Entry = todo[1]
  BY <1>1 DEF Entry
<1>4. \A i \in DOMAIN Tail(todo) : i + 1 \in DOMAIN todo /\ Tail(todo)[i] = todo[i + 1]
  BY <1>1, <1>3
<1>5. Entry \in Values(todo) /\ Values(Tail(todo)) \subseteq Values(todo)
  BY <1>3, <1>4 DEF Values
<1>6. ASSUME NEW i \in DOMAIN Tail(todo) PROVE Tail(todo)[i] # Entry
  <2>1. i + 1 # 1 /\ i + 1 \in DOMAIN todo
    BY <1>3, <1>4
  <2>2. todo[i + 1].key # todo[1].key
    BY <1>3, <2>1 DEF Kept
  <2>3. QED
    BY <1>3, <1>4, <2>2
<1>7. ASSUME NEW i \in DOMAIN Tail(todo), NEW j \in DOMAIN Tail(todo),
             Tail(todo)[i].key = Tail(todo)[j].key
      PROVE  i = j
  <2>1. i + 1 = j + 1
    BY <1>4, <1>7 DEF Kept
  <2>2. QED
    BY <1>3, <2>1
<1>8. QED
  BY <1>2, <1>5, <1>6, <1>7 DEF Values

\* The parameter of the entry that is read has its default.
LEMMA StillDefault ==
    ASSUME ParamsInv, Kept, todo # <<>>, headers = {}, Entry.key \in DOMAIN params
    PROVE  params[Entry.key] = Defaults(object)[Entry.key]
<1>1. object \in Objects
  BY DEF ParamsInv, Reading
<1>2. \A e \in Entries : e.key = Entry.key => e \in Values(todo)
  BY <1>1, Ahead, OneEntry
<1>3. QED
  BY <1>2 DEF Kept

\* An entry that has been taken stays so while another one is.
LEMMA TakenStays ==
    ASSUME ParamsInv, Kept, todo # <<>>, object' = object, DOMAIN params' = DOMAIN params,
           \A k \in DOMAIN params : k # Entry.key => params'[k] = params[k],
           NEW e \in Entries, e \notin Values(todo)
    PROVE  e.key \in DOMAIN params' /\ Taken(e)'
<1>1. e.key \in DOMAIN params /\ Taken(e)
  BY DEF Kept
<1>2. e.key # Entry.key
  BY Ahead, OneEntry DEF ParamsInv, Reading
<1>3. params'[e.key] = params[e.key]
  BY <1>1, <1>2
<1>4. QED
  BY <1>1, <1>3 DEF Taken

\* A step that takes the entry keeps the invariant.
LEMMA TakeEntry ==
    ASSUME ParamsInv, Kept, todo # <<>>, Entry.key \in DOMAIN params,
           object' = object, todo' = Tail(todo), headers' = {}, DOMAIN params' = DOMAIN params,
           \A k \in DOMAIN params : k # Entry.key => params'[k] = params[k],
           NEW entry, entry = Entry, Taken(entry)'
    PROVE  Kept'
<1>1. /\ entry \in Entries
      /\ Values(todo) = {entry} \cup Values(Tail(todo)) /\ entry \notin Values(Tail(todo))
      /\ \A i, j \in DOMAIN Tail(todo) : Tail(todo)[i].key = Tail(todo)[j].key => i = j
  BY Ahead
<1>2. Entries' = Entries /\ Values(todo)' = Values(Tail(todo))
  BY DEF Entries, Values
<1>3. ASSUME NEW e \in Entries, e \notin Values(Tail(todo))
      PROVE  e.key \in DOMAIN params' /\ Taken(e)'
  <2>1. CASE e = entry
    BY <2>1
  <2>2. CASE e # entry
    BY <1>1, <1>3, <2>2, TakenStays
  <2>3. QED
    BY <2>1, <2>2
<1>4. ASSUME NEW k \in DOMAIN params'
      PROVE  \/ \E e \in Entries : e \notin Values(Tail(todo)) /\ e.key = k
             \/ params'[k] = Defaults(object)[k]
  <2>1. CASE k = entry.key
    BY <1>1, <2>1
  <2>2. CASE k # entry.key
    BY <1>1, <2>2 DEF Kept
  <2>3. QED
    BY <2>1, <2>2
<1>5. Defaults(object)' = Defaults(object)
  BY DEF Defaults, CallDefaults
<1>6. QED
  BY <1>1, <1>2, <1>3, <1>4, <1>5 DEF Kept

LEMMA KeptStays ==
    ASSUME Kept, UNCHANGED <<object, todo, params, headers>>
    PROVE  Kept'
<1>1. /\ Entries' = Entries /\ Values(todo)' = Values(todo) /\ Entry' = Entry
      /\ Defaults(object)' = Defaults(object) /\ \A e : Taken(e)' <=> Taken(e)
  BY DEF Entries, Values, Entry, Defaults, CallDefaults, Taken
<1>2. (Has(params[Entry.key], Entry.value.map, DOMAIN Entry.value.map \ headers))'
        <=> Has(params[Entry.key], Entry.value.map, DOMAIN Entry.value.map \ headers)
  BY <1>1 DEF Has, Values
<1>3. QED
  BY <1>1, <1>2 DEF Kept

-----------------------------------------------------------------------------
(* The actions *)

LEMMA ReadKeyTakes ==
    ASSUME ParamsInv, Kept, ReadKey
    PROVE  Kept'
<1> DEFINE key == Entry.key
           value == Entry.value
<1>1. outcome = "reading" /\ headers = {} /\ todo # <<>>
  BY DEF ReadKey
<1>2. CASE key \notin DOMAIN params \/ Parsed(key, value) = {}
  BY <1>2, KeptStays DEF ReadKey, Reject
<1>3. CASE key \in DOMAIN params /\ Parsed(key, value) # {}
  <2>1. PICK x \in Parsed(key, value) :
            params' = [params EXCEPT ![key] = IF key = "tags" THEN @ \cup x ELSE x]
    BY <1>3 DEF ReadKey
  <2>2. todo' = Tail(todo) /\ UNCHANGED <<object, headers>> /\ ~IsMetadata(key)
    BY <1>3 DEF ReadKey
  <2>3. x \in Exported(value, DOMAIN value)
    <3>1. key \in {"plaintext", "reflect", "maxReceiveSize", "maxSendSize", "timeout", "tls", "tags"}
      BY <1>3, <2>2
        DEF ParamsInv, Reading, Defaults, ConnectDefaults, CallDefaults, IsMetadata
    <3>2. QED
      BY <3>1 DEF Parsed, Exported
  <2>4. params'[key] = IF key = "tags" THEN params[key] \cup x ELSE x
    BY <1>3, <2>1
  <2>5. key = "tags" => params[key] = object.vuTags
    <3>1. params[key] = Defaults(object)[key] /\ key \in DOMAIN Defaults(object)
      BY <1>1, <1>3, StillDefault DEF ParamsInv, Reading
    <3>2. QED
      BY <3>1 DEF Defaults, ConnectDefaults, CallDefaults
  <2>6. params'[key] = IF key = "tags" THEN object.vuTags \cup x ELSE x
    BY <2>4, <2>5
  <2>7. PICK entry : entry = Entry
    OBVIOUS
  <2>8. Taken(entry)'
    BY <2>2, <2>3, <2>6, <2>7 DEF Taken
  <2>9. DOMAIN params' = DOMAIN params /\ \A k \in DOMAIN params : k # key => params'[k] = params[k]
    BY <2>1
  <2>10. QED
    BY <1>1, <1>3, <2>2, <2>7, <2>8, <2>9, TakeEntry
<1>4. QED
  BY <1>2, <1>3

LEMMA ReadMetadataTakes ==
    ASSUME ParamsInv, Kept, ReadMetadata
    PROVE  Kept'
<1>1. /\ outcome = "reading" /\ headers = {} /\ todo # <<>>
      /\ IsMetadata(Entry.key) /\ Entry.key \in DOMAIN params
  BY DEF ReadMetadata
<1>2. CASE RawHeaders(Entry.value) = {}
  BY <1>2, KeptStays DEF ReadMetadata, Reject
<1>3. CASE RawHeaders(Entry.value) # {}
  <2>1. PICK md \in RawHeaders(Entry.value) :
            headers' = DOMAIN md /\ todo' = IF DOMAIN md = {} THEN Tail(todo) ELSE todo
    BY <1>3 DEF ReadMetadata
  <2>2. UNCHANGED <<object, params>>
    BY <1>3 DEF ReadMetadata
  <2>3. params[Entry.key] = NoHeaders
    <3>1. params[Entry.key] = Defaults(object)[Entry.key] /\ Entry.key \in DOMAIN Defaults(object)
      BY <1>1, StillDefault DEF ParamsInv, Reading
    <3>2. QED
      BY <1>1, <3>1 DEF Defaults, ConnectDefaults, CallDefaults, IsMetadata
  <2>4. CASE DOMAIN md = {}
    <3>1. todo' = Tail(todo) /\ headers' = {}
      BY <2>1, <2>4
    <3>2. PICK entry : entry = Entry
      OBVIOUS
    <3>3. HasHeaders(NoHeaders, md)
      BY <2>4, HasNone
    <3>4. (\E given \in RawHeaders(entry.value) : HasHeaders(params[entry.key], given))'
      <4>1. md \in RawHeaders(entry.value) /\ HasHeaders(params'[entry.key], md)
        BY <2>1, <2>2, <2>3, <3>2, <3>3
      <4>2. QED
        BY <4>1
    <3>5. Taken(entry)'
      BY <1>1, <3>2, <3>4 DEF Taken
    <3>6. QED
      BY <1>1, <2>2, <3>1, <3>2, <3>5, TakeEntry
  <2>5. CASE DOMAIN md # {}
    <3>1. todo' = todo /\ headers' # {}
      BY <2>1, <2>5
    <3>2. headers' = DOMAIN Entry.value.map
      <4>1. DOMAIN NoHeaders = {}
        BY DEF NoHeaders
      <4>2. QED
        BY <2>1, <2>5, <4>1 DEF RawHeaders, Exported
    <3>3. /\ Entries' = Entries /\ Values(todo)' = Values(todo) /\ Entry' = Entry
          /\ Defaults(object)' = Defaults(object) /\ \A e : Taken(e)' <=> Taken(e)
      BY <2>2, <3>1 DEF Entries, Values, Entry, Defaults, CallDefaults, Taken
    <3>4. (Has(params[Entry.key], Entry.value.map, DOMAIN Entry.value.map \ headers))'
      <4>1. PICK md0, given0, done0 :
                md0 = params[Entry.key] /\ given0 = Entry.value.map
                /\ done0 = DOMAIN Entry.value.map \ headers'
        OBVIOUS
      <4>2. Has(md0, given0, done0)
        BY <4>1, <2>3, <3>2, HasNone
      <4>3. md0 = params[Entry.key]' /\ given0 = (Entry.value.map)'
            /\ done0 = (DOMAIN Entry.value.map \ headers)'
        BY <4>1, <2>2, <3>3
      <4>4. QED
        BY <4>2, <4>3
    <3>5. QED
      BY <1>1, <2>2, <3>1, <3>3, <3>4 DEF Kept
  <2>6. QED
    BY <2>4, <2>5
<1>4. QED
  BY <1>2, <1>3

LEMMA ReadHeaderTakes ==
    ASSUME ParamsInv, Kept, ReadHeader
    PROVE  Kept'
<1> DEFINE map == Entry.value.map
           key == Entry.key
           done == DOMAIN map \ headers
<1>1. /\ outcome = "reading" /\ headers # {} /\ todo # <<>>
      /\ IsMetadata(key) /\ key \in DOMAIN params
      /\ "map" \in DOMAIN Entry.value /\ headers \subseteq DOMAIN map
  BY DEF ReadHeader, ParamsInv, Reading
<1>2. IsFiniteSet(DOMAIN map) /\ \A name \in DOMAIN map : Single(map[name])
  BY <1>1, EntryOf DEF ParamsInv, Reading, IsValue
<1>3. PICK name \in headers :
        \/ HeaderValue(name, map[name]) = {} /\ Reject
        \/ \E x \in HeaderValue(name, map[name]) : KeepHeader(name, x)
  BY DEF ReadHeader
<1>4. CASE Reject
  BY <1>4, KeptStays DEF Reject
<1>5. ASSUME NEW x \in HeaderValue(name, map[name]), KeepHeader(name, x)
      PROVE  Kept'
  <2>1. /\ params' = [params EXCEPT ![key] = AppendHeader(@, name, x)]
        /\ headers' = headers \ {name} /\ object' = object
        /\ todo' = IF headers = {name} THEN Tail(todo) ELSE todo
    BY <1>5 DEF KeepHeader
  <2>2. Exported(map[name], {"bytes", "string"}) = {x}
    <3>1. PICK t \in {"bytes", "string"} : t \in DOMAIN map[name] /\ x = map[name][t]
      BY DEF HeaderValue, Exported
    <3>2. DOMAIN map[name] = {t}
      BY <1>1, <1>2, <3>1, SingleField
    <3>3. QED
      BY <3>1, <3>2 DEF Exported
  <2>3. Has(params'[key], map, done \cup {name})
    <3>1. Has(params[key], map, done) /\ IsFiniteSet(done) /\ name \notin done
      BY <1>1, <1>2, FS_Subset DEF Kept
    <3>2. Has(AppendHeader(params[key], name, x), map, done \cup {name})
      BY <2>2, <3>1, AppendHas
    <3>3. QED
      BY <1>1, <2>1, <3>2
  <2>4. DOMAIN params' = DOMAIN params /\ \A k \in DOMAIN params : k # key => params'[k] = params[k]
    BY <2>1
  <2>5. CASE headers = {name}
    <3>1. todo' = Tail(todo) /\ headers' = {}
      BY <2>1, <2>5
    <3>2. HasHeaders(params'[key], map)
      <4>1. done \cup {name} = DOMAIN map
        BY <1>1, <2>5
      <4>2. QED
        BY <2>3, <4>1, HasNone
    <3>3. map \in RawHeaders(Entry.value)
      BY <1>1 DEF RawHeaders, Exported
    <3>4. PICK entry : entry = Entry
      OBVIOUS
    <3>5. (\E given \in RawHeaders(entry.value) : HasHeaders(params[entry.key], given))'
      <4>1. entry.value.map \in RawHeaders(entry.value)
            /\ HasHeaders(params'[entry.key], entry.value.map)
        BY <3>2, <3>3, <3>4
      <4>2. QED
        BY <4>1
    <3>6. Taken(entry)'
      BY <1>1, <3>4, <3>5 DEF Taken
    <3>7. QED
      BY <1>1, <2>1, <2>4, <3>1, <3>4, <3>6, TakeEntry
  <2>6. CASE headers # {name}
    <3>1. todo' = todo /\ headers' # {}
      BY <2>1, <2>6
    <3>2. /\ Entries' = Entries /\ Values(todo)' = Values(todo) /\ Entry' = Entry
          /\ Defaults(object)' = Defaults(object)
      BY <2>1, <3>1 DEF Entries, Values, Entry, Defaults, CallDefaults
    <3>3. (Has(params[Entry.key], Entry.value.map, DOMAIN Entry.value.map \ headers))'
      <4>1. PICK md0, given0, done0 :
                md0 = params'[key] /\ given0 = map /\ done0 = done \cup {name}
        OBVIOUS
      <4>2. Has(md0, given0, done0)
        BY <2>3, <4>1
      <4>3. md0 = params[Entry.key]' /\ given0 = (Entry.value.map)'
            /\ done0 = (DOMAIN Entry.value.map \ headers)'
        BY <1>1, <2>1, <3>2, <4>1
      <4>4. QED
        BY <4>2, <4>3
    <3>4. ASSUME NEW e \in Entries, e \notin Values(todo)
          PROVE  e.key \in DOMAIN params' /\ Taken(e)'
      BY <1>1, <2>1, <2>4, <3>4, TakenStays
    <3>5. ASSUME NEW k \in DOMAIN params'
          PROVE  \/ \E e \in Entries : e \notin Values(todo) /\ e.key = k
                 \/ k = key
                 \/ params'[k] = Defaults(object)[k]
      BY <2>4 DEF Kept
    <3>6. QED
      BY <3>1, <3>2, <3>3, <3>4, <3>5 DEF Kept
  <2>7. QED
    BY <2>5, <2>6
<1>6. QED
  BY <1>3, <1>4, <1>5

LEMMA InitTakes == Init => Kept
<1> SUFFICES ASSUME Init PROVE Kept
  OBVIOUS
<1>1. object \in Objects /\ todo = object.entries /\ params = Defaults(object) /\ headers = {}
  BY DEF Init
<1>2. \A i, j \in DOMAIN todo : todo[i].key = todo[j].key => i = j
  BY <1>1, ParamsAssumption
<1>3. Entries = Values(todo)
  BY <1>1 DEF Entries, Values
<1>4. QED
  BY <1>1, <1>2, <1>3 DEF Kept

LEMMA NextTakes == ParamsInv /\ Kept /\ [Next]_vars => Kept'
<1> SUFFICES ASSUME ParamsInv, Kept, [Next]_vars PROVE Kept'
  OBVIOUS
<1>1. CASE ReadKey
  BY <1>1, ReadKeyTakes
<1>2. CASE ReadMetadata
  BY <1>2, ReadMetadataTakes
<1>3. CASE ReadHeader
  BY <1>3, ReadHeaderTakes
<1>4. CASE Accept \/ ConnectPlain \/ BuildTLS \/ Call \/ UNCHANGED vars
  <2>1. UNCHANGED <<object, todo, params, headers>>
    BY <1>4 DEF Accept, ConnectPlain, BuildTLS, Call, vars
  <2>2. QED
    BY <2>1, KeptStays
<1>5. QED
  BY <1>1, <1>2, <1>3, <1>4 DEF Next

\* Whatever object the script gives, with any number of headers whose names differ only
\* in case, what is accepted is what was given, and the rest keeps its default.
THEOREM AcceptedGiven == Spec => []AcceptedIsGiven
<1>1. ParamsInv /\ Kept => AcceptedIsGiven
  <2> SUFFICES ASSUME ParamsInv, Kept, outcome \in {"accepted", "ready", "failed", "panicked"}
               PROVE  /\ \A e \in Entries : Taken(e)
                      /\ \A k \in DOMAIN params \ {e.key : e \in Entries} :
                            params[k] = Defaults(object)[k]
    BY DEF AcceptedIsGiven, Taken
  <2>1. todo = <<>> /\ headers = {}
    BY DEF ParamsInv, Reading
  <2>2. Values(todo) = {}
    BY <2>1 DEF Values
  <2>3. QED
    BY <2>1, <2>2 DEF Kept
<1>2. QED
  BY <1>1, InitTakes, NextTakes, Invariant, PTL DEF Spec
==============================================================================
