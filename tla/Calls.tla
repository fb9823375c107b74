-------------------------------- MODULE Calls --------------------------------
(***************************************************************************)
(* The RPCs of one VU, and the samples and answers they give: invoke of    *)
(* grpc/client.go, the constructor and the goroutines of a stream as far   *)
(* as they push samples and convert messages, the reflection of connect,   *)
(* and lib/netext/grpcext/conn.go, whose stats handler grpc-go calls from  *)
(* any thread.                                                             *)
(*                                                                         *)
(* An RPC is made in attempts: grpc-go may retry one the server has not    *)
(* processed, or end one before it makes an attempt.  Each attempt gives   *)
(* the events OutHeader, when it goes out, and End.  What a stream does    *)
(* beyond this is in Stream, what a client does in Client.                 *)
(*                                                                         *)
(* PushIfNotDone looks at a context and then sends on the channel of the   *)
(* samples, which may block: two steps, between which all others may run.  *)
(***************************************************************************)
EXTENDS Messages, Naturals, Sequences

CONSTANTS
    RPCs,          \* the RPCs the VU may make
    NoRPC,
    Kinds,         \* what each of them may be: "unary", "stream", "reflection"
    VUTags,        \* what the VU's own tags (group, scenario, ...) may be
    FirstTags,     \* what they are at first
    IPs,           \* what HandleRPC may find to be the address of a server
    NoIP,          \* no address, or one SplitHostPort rejects
    SystemTags,    \* the enabled ones among "ip" and "status"
    MaxAttempts    \* bound on the attempts of each RPC

ASSUME CallsAssumption ==
    /\ NoRPC \notin RPCs
    /\ Kinds \in [RPCs -> SUBSET {"unary", "stream", "reflection"}]
    /\ FirstTags \in VUTags
    /\ SystemTags \subseteq {"ip", "status"}
    /\ MaxAttempts \in [RPCs -> Nat \ {0}]

VARIABLES
    js,          \* what the event-loop thread does
    waits,       \* the RPC it waits for
    vuTags,      \* the tags of the VU
    vuDone,      \* the VU's context is done
    rpc,         \* the RPCs, as grpc-go knows them
    tags,        \* the TagsAndMeta the rpcState of an RPC points to
    streamTags,  \* s.tagsAndMeta of a stream
    reading,     \* readData of a stream is running
    pushing,     \* the samples whose threads are sending them
    durations,   \* the grpc_req_duration samples of an RPC: their tags
    counted,     \* the tags of a stream's samples of its three counters
    given        \* what the last step has made for the script, and of which message

stateVars == <<js, waits, vuTags, vuDone>>
sampleVars == <<tags, streamTags, pushing, durations, counted>>
vars == <<stateVars, rpc, sampleVars, reading, given>>

Statuses == {"OK", "Error", "Canceled", "Deadline"}

\* "call" is the RPC that SetSystemTags has put the url, service, method and
\* name of, along with the script's own tags.
Tags == [vu : VUTags, call : RPCs \cup {NoRPC}, ip : IPs \cup {NoIP},
         status : Statuses \cup {"none"}]

\* "asked" and "retrying" are before the first attempt and before another one.
\* peers is a history: the addresses the attempts have gone out to.
RPC == [kind : {"none", "unary", "stream", "reflection"},
        phase : {"unused", "asked", "pending", "sent", "receiving", "retrying", "over"},
        timed : BOOLEAN, ctx : {"live", "Canceled", "Deadline"}, attempts : Nat,
        status : Statuses, vu : VUTags, peers : SUBSET IPs]

\* A sample of an RPC, and the thread that sends it: the one grpc-go calls the stats
\* handler in, the event loop, a stream's sending goroutine or its reader.
Push == [rpc : RPCs, by : {"handler", "js", "sender", "reader"}, tags : Tags]

\* The Response of invoke, its error, or a message of a stream.
Given == [rpc : RPCs \cup {NoRPC}, kind : {"none", "error", "response", "event"},
          status : Statuses, message : Converted, from : Message]
Nothing == [rpc |-> NoRPC, kind |-> "none", status |-> "OK", message |-> Nil,
            from |-> Blank("plain")]
Give(r, kind, c, m) ==
    [rpc |-> r, kind |-> kind, status |-> rpc[r].status, message |-> c, from |-> m]

\* state.Tags.GetCurrentValues(), a copy, and SetSystemTags on it.
CurrentTags == [vu |-> vuTags, call |-> NoRPC, ip |-> NoIP, status |-> "none"]
CallTags(r) == [CurrentTags EXCEPT !.call = r]

Init ==
    /\ js = "script" /\ waits = NoRPC
    /\ vuTags = FirstTags /\ vuDone = FALSE
    /\ rpc = [r \in RPCs |->
            [kind |-> "none", phase |-> "unused", timed |-> FALSE,
             ctx |-> "live", attempts |-> 0, status |-> "OK", vu |-> vuTags, peers |-> {}]]
    /\ tags = [r \in RPCs |-> CurrentTags]
    /\ streamTags = [r \in RPCs |-> CurrentTags]
    /\ reading = [r \in RPCs |-> FALSE]
    /\ pushing = {}
    /\ durations = [r \in RPCs |-> <<>>]
    /\ counted = [r \in RPCs |-> {}]
    /\ given = Nothing

Attempting(r) == rpc[r].phase \in {"pending", "sent", "receiving"}
Running(r) == Attempting(r) \/ rpc[r].phase \in {"asked", "retrying"}

\* A step that gives nothing to the script.
Quiet == given' = Nothing

-----------------------------------------------------------------------------
(* PushIfNotDone *)

\* A thread of r is sending a sample.
InPush(r, by) == \E s \in pushing : s.rpc = r /\ s.by = by

\* Mutant of PushIfNotDone: the sample is sent without a look at the context.
Mut_PushAlways(r, by, t, over) ==
    pushing' = pushing \cup {[rpc |-> r, by |-> by, tags |-> t]}

\* The look at a context: over says that it is done.
PushIfNotDone(r, by, t, over) ==
    pushing' = IF over THEN pushing ELSE pushing \cup {[rpc |-> r, by |-> by, tags |-> t]}

\* The channel takes the sample, and the call returns.
SampleTaken(s) ==
    /\ pushing' = pushing \ {s}
    /\ \/ /\ s.by = "handler"
          /\ durations' = [durations EXCEPT ![s.rpc] = Append(@, s.tags)]
          /\ UNCHANGED counted
       \/ /\ s.by # "handler"
          /\ counted' = [counted EXCEPT ![s.rpc] = @ \cup {s.tags}]
          /\ UNCHANGED durations
    /\ UNCHANGED <<stateVars, rpc, tags, streamTags, reading>> /\ Quiet

-----------------------------------------------------------------------------
(* The stats handler *)

\* The tags of an event: those of the RPC's state, or, without one (as in
\* reflection), a copy of the VU's that is forgotten after the event.
EventTags(r) == IF rpc[r].kind = "reflection" THEN CurrentTags ELSE tags[r]

\* What a handler has made of the event's tags stays with the RPC's state.
Keep(r, t) ==
    tags' = IF rpc[r].kind = "reflection" THEN tags ELSE [tags EXCEPT ![r] = t]

\* case OutHeader: the address the attempt goes out to, if it has a host.
HandleOutHeader(r, ip) ==
    Keep(r, IF "ip" \in SystemTags /\ ip # NoIP
            THEN [EventTags(r) EXCEPT !.ip = ip] ELSE EventTags(r))

\* Mutant of WithStatus: the tag is made of the error, not of its code.
Mut_WithStatusError(t, status) ==
    IF "status" \in SystemTags THEN [t EXCEPT !.status = IF status = "OK" THEN "nil" ELSE status]
    ELSE t

WithStatus(t, status) ==
    IF "status" \in SystemTags THEN [t EXCEPT !.status = status] ELSE t

\* The event's tags are kept, and those of its sample.
Measure(r, t) ==
    /\ Keep(r, t)
    /\ PushIfNotDone(r, "handler", t, rpc[r].ctx # "live")

\* Mutants of HandleEnd: the first status stays; the tags of the VU are read
\* again; there is no sample for an RPC that failed.
Mut_HandleEndFirst(r, status) ==
    Measure(r, IF EventTags(r).status = "none" THEN WithStatus(EventTags(r), status)
               ELSE EventTags(r))
Mut_HandleEndLive(r, status) ==
    Measure(r, WithStatus([EventTags(r) EXCEPT !.vu = vuTags], status))
Mut_HandleEndOK(r, status) ==
    /\ Keep(r, WithStatus(EventTags(r), status))
    /\ PushIfNotDone(r, "handler", WithStatus(EventTags(r), status), status # "OK")

\* case End: the status, and the duration sample, unless the context of the RPC
\* is done.
HandleEnd(r, status) == Measure(r, WithStatus(EventTags(r), status))

-----------------------------------------------------------------------------
(* grpc-go and the contexts *)

\* NewStream of grpc-go returns before anything but itself ends its RPC.
Opening(r) == js = "opening" /\ waits = r /\ rpc[r].phase = "sent"

\* An attempt begins, the first or another one: the handler of the last one's End
\* has returned.
Attempt(r) ==
    /\ rpc[r].phase \in {"asked", "retrying"} /\ ~InPush(r, "handler")
    /\ rpc' = [rpc EXCEPT ![r].phase = "pending", ![r].attempts = @ + 1]
    /\ UNCHANGED <<stateVars, sampleVars, reading>> /\ Quiet

\* An attempt goes out.
OutHeader(r) ==
    /\ rpc[r].phase = "pending"
    /\ \E ip \in IPs :
        /\ HandleOutHeader(r, ip)
        /\ rpc' = [rpc EXCEPT ![r].phase = "sent", ![r].peers = @ \cup {ip}]
    /\ UNCHANGED <<stateVars, streamTags, pushing, durations, counted, reading>> /\ Quiet

\* The attempt ends unprocessed, and there is to be another one.
Retry(r) ==
    /\ rpc[r].phase \in {"pending", "sent"} /\ ~Opening(r)
    /\ rpc[r].attempts < MaxAttempts[r]
    /\ HandleEnd(r, "Error")
    /\ rpc' = [rpc EXCEPT ![r].phase = "retrying"]
    /\ UNCHANGED <<stateVars, streamTags, durations, counted, reading>> /\ Quiet

\* The statuses an RPC can end with now: with the context done, that of the
\* context, or one that was on its way.
EndStatuses(r) ==
    {"Error", "Canceled"} \cup (IF rpc[r].phase # "pending" THEN {"OK"} ELSE {})
                          \cup (IF rpc[r].ctx # "live" THEN {rpc[r].ctx} ELSE {})

\* The RPC is over.
Over(r, status) ==
    rpc' = [rpc EXCEPT ![r].phase = "over", ![r].timed = FALSE, ![r].status = status]

\* The RPC ends with an attempt: by the server, the connection (also when it is
\* closed), or its context.
EndRPC(r) ==
    /\ Attempting(r) /\ ~Opening(r)
    /\ \E status \in EndStatuses(r) : HandleEnd(r, status) /\ Over(r, status)
    /\ UNCHANGED <<stateVars, streamTags, durations, counted, reading>> /\ Quiet

\* The statuses of an RPC that ends without an attempt, and so without an event: grpc-go
\* does not accept it (its metadata, say), its context is done, or its connection is
\* closed, which the thread does only when it does not wait for it.
Refusals(r) ==
    (IF rpc[r].phase = "asked" THEN {"Error"} ELSE {})
        \cup (IF waits # r THEN {"Canceled"} ELSE {})
        \cup (IF rpc[r].ctx # "live" THEN {rpc[r].ctx} ELSE {})

Refuse(r) ==
    /\ rpc[r].phase \in {"asked", "retrying"} /\ ~InPush(r, "handler")
    /\ \E status \in Refusals(r) : Over(r, status)
    /\ UNCHANGED <<stateVars, sampleVars, reading>> /\ Quiet

\* The context of a running RPC is done.
Done(r, why) == rpc' = [rpc EXCEPT ![r].ctx = IF @ = "live" THEN why ELSE @]

Deadline(r) ==
    /\ Running(r) /\ rpc[r].timed /\ rpc[r].ctx = "live"
    /\ Done(r, "Deadline")
    /\ UNCHANGED <<stateVars, sampleVars, reading>> /\ Quiet

\* The iteration is interrupted or over: the parent of all contexts.
Interrupt ==
    /\ ~vuDone
    /\ vuDone' = TRUE
    /\ rpc' = [r \in RPCs |->
            IF Running(r) /\ rpc[r].ctx = "live" THEN [rpc[r] EXCEPT !.ctx = "Canceled"]
            ELSE rpc[r]]
    /\ UNCHANGED <<js, waits, vuTags, sampleVars, reading>> /\ Quiet

-----------------------------------------------------------------------------
(* The script *)

\* Another group, or a tag set by the script.
SetVUTags ==
    /\ js = "script"
    /\ vuTags' \in VUTags
    /\ UNCHANGED <<js, waits, vuDone, rpc, sampleVars, reading>> /\ Quiet

\* An RPC is handed to grpc-go, with a state that points to t.
Start(r, kind, timed, t) ==
    /\ rpc[r].phase = "unused" /\ kind \in Kinds[r]
    /\ rpc' = [rpc EXCEPT ![r].kind = kind, ![r].phase = "asked",
                          ![r].timed = timed, ![r].vu = vuTags,
                          ![r].ctx = IF vuDone THEN "Canceled" ELSE "live"]
    /\ tags' = [tags EXCEPT ![r] = t]
    /\ waits' = r

\* connect with reflection: the RPC runs under the timeout of connect and
\* carries no state.
Reflect(r) ==
    /\ js = "script"
    /\ Start(r, "reflection", TRUE, CurrentTags)
    /\ js' = "reflecting"
    /\ UNCHANGED <<vuTags, vuDone, streamTags, pushing, durations, counted, reading>>
    /\ Quiet

\* The reflection client has all it asked for, or a request has failed;
\* connect returns and cancels its context.
ReflectReturns ==
    /\ js = "reflecting"
    /\ rpc[waits].phase \in {"sent", "over"}
    /\ IF Running(waits) THEN Done(waits, "Canceled") ELSE UNCHANGED rpc
    /\ js' = "script" /\ waits' = NoRPC
    /\ UNCHANGED <<vuTags, vuDone, sampleVars, reading>> /\ Quiet

\* Mutant of Invoke: a timeout that is not given is no timeout.
Mut_InvokeNoTimeout(r) ==
    /\ js = "script"
    /\ \E timed \in BOOLEAN : Start(r, "unary", timed, CallTags(r))
    /\ js' = "invoking"
    /\ UNCHANGED <<vuTags, vuDone, streamTags, pushing, durations, counted, reading>>
    /\ Quiet

\* invoke up to the RPC: the timeout is that of the call or two minutes.
Invoke(r) ==
    /\ js = "script"
    /\ Start(r, "unary", TRUE, CallTags(r))
    /\ js' = "invoking"
    /\ UNCHANGED <<vuTags, vuDone, streamTags, pushing, durations, counted, reading>>
    /\ Quiet

\* What grpc-go has put into invoke's message, of some type: that of the server,
\* or, without one, nothing.  An error may come with either.
Replies(r) ==
    LET Blanks == {Blank(type) : type \in Types}
    IN  Incoming \cup (IF rpc[r].status = "OK" THEN {} ELSE Blanks)

\* Mutant of Respond: invoke fails when the RPC does.
Mut_RespondFails(r, m) ==
    IF rpc[r].status = "OK" /\ Marshals(m) THEN Give(r, "response", Convert(TRUE, m), m)
    ELSE Give(r, "error", Nil, m)

\* Conn.Invoke with the result of the RPC: the message is converted, zero
\* values included, whether the RPC failed or not.
Respond(r, m) ==
    IF Marshals(m) THEN Give(r, "response", Convert(TRUE, m), m)
    ELSE Give(r, "error", Nil, m)

\* The handler of the last event is called in the thread itself, before.
InvokeReturns ==
    /\ js = "invoking"
    /\ rpc[waits].phase = "over" /\ ~InPush(waits, "handler")
    /\ \E m \in Replies(waits) : given' = Respond(waits, m)
    /\ js' = "script" /\ waits' = NoRPC
    /\ UNCHANGED <<vuTags, vuDone, rpc, sampleVars, reading>>

-----------------------------------------------------------------------------
(* Streams *)

\* The constructor up to the RPC: the tags of the counters are those of the
\* call, but the RPC's state gets a copy of the VU's tags of its own.
NewStream(r) ==
    /\ js = "script"
    /\ \E timed \in BOOLEAN : Start(r, "stream", timed, CurrentTags)
    /\ streamTags' = [streamTags EXCEPT ![r] = CallTags(r)]
    /\ js' = "opening"
    /\ UNCHANGED <<vuTags, vuDone, pushing, durations, counted, reading>> /\ Quiet

\* Mutant of StreamTags: beginStream passes on the tags of the stream, so that
\* the stats handler writes to them as well.
Mut_StreamTagsShared(r) == [streamTags[r] EXCEPT !.ip = tags[r].ip, !.status = tags[r].status]

\* The tags of the samples of a stream's counters.
StreamTags(r) == streamTags[r]

\* A sample of one of the three counters, unless the VU's context is done.
Count(r, by) == PushIfNotDone(r, by, StreamTags(r), vuDone)

\* beginStream goes on: the stream is counted ...
StreamOpens ==
    /\ js = "opening" /\ rpc[waits].phase = "sent"
    /\ Count(waits, "js")
    /\ js' = "counting"
    /\ UNCHANGED <<waits, vuTags, vuDone, rpc, tags, streamTags, durations, counted, reading>>
    /\ Quiet

\* ... and its goroutines start.
StreamBegins ==
    /\ js = "counting" /\ ~InPush(waits, "js")
    /\ reading' = [reading EXCEPT ![waits] = TRUE]
    /\ js' = "script" /\ waits' = NoRPC
    /\ UNCHANGED <<vuTags, vuDone, rpc, sampleVars>> /\ Quiet

\* NewStream fails, and the constructor throws.
StreamFails ==
    /\ js = "opening" /\ rpc[waits].phase = "over" /\ ~InPush(waits, "handler")
    /\ js' = "script" /\ waits' = NoRPC
    /\ UNCHANGED <<vuTags, vuDone, rpc, sampleVars, reading>> /\ Quiet

\* writeData has sent a message.
MessageSent(r) ==
    /\ rpc[r].kind = "stream" /\ waits # r
    /\ rpc[r].phase \in {"sent", "receiving"} /\ ~InPush(r, "sender")
    /\ Count(r, "sender")
    /\ UNCHANGED <<stateVars, rpc, tags, streamTags, durations, counted, reading>> /\ Quiet

\* What readData makes of a message that could be converted.  Its test for
\* nil panics on the JSON null: the process ends.
Forward(r, c) ==
    \/ c.kind = "object" /\ Count(r, "reader") /\ UNCHANGED <<js, waits>>
    \/ c.kind = "nil" /\ js' = "crashed" /\ waits' = NoRPC /\ UNCHANGED pushing

\* Mutant of Read: an error of convert is not returned, and no message either.
Mut_ReadIgnores(r, c) ==
    /\ Forward(r, IF c.kind = "fails" THEN [c EXCEPT !.kind = "nil"] ELSE c)
    /\ UNCHANGED reading

\* A message that cannot be converted ends the reading.
Read(r, c) ==
    \/ c.kind # "fails" /\ Forward(r, c) /\ UNCHANGED reading
    \/ /\ c.kind = "fails"
       /\ reading' = [reading EXCEPT ![r] = FALSE]
       /\ UNCHANGED <<js, waits, pushing>>

\* A message has arrived on a stream, whose marshaler is the zero value.
ReadMessage(r) ==
    /\ reading[r] /\ ~InPush(r, "reader")
    /\ \/ /\ rpc[r].phase \in {"sent", "receiving"}
          /\ rpc' = [rpc EXCEPT ![r].phase = "receiving"]
       \/ rpc[r].phase = "over" /\ UNCHANGED rpc
    /\ \E m \in Incoming :
        /\ Read(r, Convert(FALSE, m))
        /\ given' = Give(r, "event", Convert(FALSE, m), m)
    /\ UNCHANGED <<vuTags, vuDone, tags, streamTags, durations, counted>>

\* The status of the RPC is read.
ReadEnd(r) ==
    /\ reading[r] /\ ~InPush(r, "reader")
    /\ rpc[r].phase = "over" \/ rpc[r].ctx # "live"
    /\ reading' = [reading EXCEPT ![r] = FALSE]
    /\ UNCHANGED <<stateVars, rpc, sampleVars>> /\ Quiet

\* close of a stream, for an error of its own: the cancel function is there
\* only with a timeout.
StreamCloses(r) ==
    /\ rpc[r].kind = "stream" /\ waits # r
    /\ Running(r) /\ rpc[r].timed /\ rpc[r].ctx = "live"
    /\ Done(r, "Canceled")
    /\ UNCHANGED <<stateVars, sampleVars, reading>> /\ Quiet

-----------------------------------------------------------------------------
Network(r) == Attempt(r) \/ OutHeader(r) \/ Retry(r) \/ EndRPC(r) \/ Refuse(r) \/ Deadline(r)
Script(r) == Reflect(r) \/ Invoke(r) \/ NewStream(r)
Return == ReflectReturns \/ InvokeReturns \/ StreamOpens \/ StreamBegins \/ StreamFails
Streaming(r) == MessageSent(r) \/ ReadMessage(r) \/ ReadEnd(r) \/ StreamCloses(r)

Next ==
    /\ js # "crashed"
    /\ \/ \E r \in RPCs : Network(r) \/ Script(r) \/ Streaming(r)
       \/ \E s \in pushing : SampleTaken(s)
       \/ Return \/ SetVUTags \/ Interrupt

Spec == Init /\ [][Next]_vars

\* What is certain to happen to an RPC the thread waits for in invoke or in
\* reflection: its timer fires, grpc-go ends it when its context is done, and
\* the thread goes on when it is over.  Nothing is assumed of servers.
Progress ==
    /\ js \in {"invoking", "reflecting"}
    /\ \/ Deadline(waits)
       \/ rpc[waits].ctx # "live" /\ (EndRPC(waits) \/ Refuse(waits))
       \/ rpc[waits].phase = "over" /\ (InvokeReturns \/ ReflectReturns)

\* k6 goes on taking samples while a VU runs, those of its RPC among them.
Drain ==
    /\ js \in {"invoking", "reflecting"}
    /\ \E s \in pushing : s.rpc = waits /\ s.by = "handler" /\ SampleTaken(s)

FairSpec == Spec /\ WF_vars(Progress) /\ WF_vars(Drain)

-----------------------------------------------------------------------------
\* Every variable has a value of its kind, and the thread waits for an RPC when
\* it does nothing else.
TypeOK ==
    /\ js \in {"script", "reflecting", "invoking", "opening", "counting", "crashed"}
    /\ waits \in RPCs \cup {NoRPC}
    /\ waits = NoRPC <=> js \in {"script", "crashed"}
    /\ vuTags \in VUTags /\ vuDone \in BOOLEAN
    /\ rpc \in [RPCs -> RPC]
    /\ tags \in [RPCs -> Tags] /\ streamTags \in [RPCs -> Tags]
    /\ reading \in [RPCs -> BOOLEAN] /\ pushing \subseteq Push
    /\ durations \in [RPCs -> Seq(Tags)]
    /\ counted \in [RPCs -> SUBSET Tags]
    /\ given \in Given

-----------------------------------------------------------------------------
(* Safety *)

\* An attempt that has ended gives one duration sample, retries included, and
\* only an RPC whose context was done goes without (PushIfNotDone in HandleRPC,
\* conn.go:244).  So the RPCs that time out are not in the metric, nor those that
\* grpc-go has made no attempt of.
OneSampleEach ==
    \A r \in RPCs :
        LET ended == rpc[r].attempts - IF Attempting(r) THEN 1 ELSE 0
            samples == Len(durations[r]) + IF InPush(r, "handler") THEN 1 ELSE 0
        IN  /\ samples <= ended
            /\ rpc[r].ctx = "live" => samples = ended

\* A duration sample belongs to its RPC, although threads of several RPCs call
\* the handler at once and the VU's tags change meanwhile: it has the VU's tags
\* of the time of the call, an address the RPC went out to, and the tags of no
\* other call (HandleRPC, conn.go:219-252).
SampleIsOwn ==
    \A r \in RPCs : \A i \in DOMAIN durations[r] :
        LET t == durations[r][i]
        IN  /\ t.vu = rpc[r].vu
            /\ t.call = IF rpc[r].kind = "unary" THEN r ELSE NoRPC
            /\ t.ip \in rpc[r].peers \cup {NoIP}

\* The status of a call's last sample, which has been sent by then, is the one invoke
\* has told the script, also when an earlier attempt ended with another one, unless
\* there was no attempt (conn.go:142 and 241).
StatusAgrees ==
    LET r == given.rpc
    IN  /\ given.kind = "response" /\ rpc[r].ctx = "live" /\ rpc[r].attempts > 0
        /\ "status" \in SystemTags
        => durations[r][Len(durations[r])].status = given.status

\* All samples of the counters of a stream have the same tags, those of the
\* call, whatever the stats handler writes for its RPC (stream.go:76-107, 141).
StreamSamplesAgree ==
    \A r \in RPCs : \A t \in counted[r] :
        t = [vu |-> rpc[r].vu, call |-> r, ip |-> NoIP, status |-> "none"]

\* An interrupt does not stop a sample whose thread has looked at the context before,
\* but nothing else comes after it: no thread begins to send another one, the stats
\* handler's included, which look at the context of their own RPC only, and each of
\* them has one sample to send at most (stream.go:99, 144, 243, conn.go:244).
OneLateSample ==
    [][vuDone => /\ pushing' \subseteq pushing
                 /\ \A s, t \in pushing : s.rpc = t.rpc /\ s.by = t.by => s = t]_pushing

\* The answers of invoke: the status of the RPC and a message with all its
\* fields, zero or not, also for an RPC that failed, unless its message cannot be
\* converted: the blank one of a type with required fields (conn.go:140-163).
InvokeAnswers ==
    LET type == given.from.type
        status == rpc[given.rpc].status
    IN  /\ given.kind \in {"response", "error"}
        /\ type = "plain" \/ (type = "required" /\ status = "OK")
        => given.kind = "response" /\ given.status = status /\ given.message = Object(Fields)

\* Only a message that holds a JSON null crashes the process, never one that
\* cannot be converted, nor the blank one (readData, stream.go:176-200).
CrashIsNull ==
    js = "crashed" => given.from.type = "value" /\ given.from.set # {}

\* An RPC that the thread waits for in invoke or in connect is over, or its end
\* is certain: a timer runs, through the retries as well, or its context is done
\* (client.go:241, 305-308, 318).
WaitIsTimed ==
    js \in {"invoking", "reflecting"} =>
        \/ rpc[waits].phase = "over"
        \/ Running(waits) /\ (rpc[waits].timed \/ rpc[waits].ctx # "live")

\* So what is certain to happen can happen as long as the thread waits: the call
\* never hangs on a server, a retry or another thread, nor, once its context is done,
\* on anything but a sample that k6 is to take.
WaitsGoOn ==
    js \in {"invoking", "reflecting"} =>
        /\ InPush(waits, "handler") => ENABLED <<Drain>>_vars
        /\ ~InPush(waits, "handler") \/ (Running(waits) /\ rpc[waits].ctx = "live")
                => ENABLED <<Progress>>_vars

-----------------------------------------------------------------------------
(* Liveness *)

\* invoke and the reflection of connect return, even if the server never
\* answers: both always have a timeout, and k6 takes the samples (client.go:241, 305-308,
\* 318).
CallsReturn == js \in {"invoking", "reflecting"} ~> js \in {"script", "crashed"}
=============================================================================
