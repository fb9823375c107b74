----------------------------- MODULE CallsProofs -----------------------------
(***************************************************************************)
(* Proofs about Calls, for every value of its constants.                   *)
(***************************************************************************)
EXTENDS Calls, SequenceTheorems, TLAPS

-----------------------------------------------------------------------------
(* What the helpers give *)

\* Conversion gives a value of JavaScript, or fails.
LEMMA ConvertType ==
    ASSUME NEW m \in Message, NEW emit \in BOOLEAN
    PROVE  Convert(emit, m) \in Converted
<1>1. m.set \subseteq Fields
  BY DEF Message
<1>2. QED
  BY <1>1 DEF Convert, Converted, Nil, Object, Fails

LEMMA BlankType == \A type \in Types : Blank(type) \in Message
  BY DEF Blank, Message

LEMMA GiveType ==
    ASSUME TypeOK, NEW r \in RPCs, NEW kind \in {"error", "response", "event"},
           NEW c \in Converted, NEW m \in Message
    PROVE  Give(r, kind, c, m) \in Given
<1>1. rpc[r].status \in Statuses
  BY DEF TypeOK, RPC
<1>2. QED
  BY <1>1 DEF Give, Given

LEMMA NothingType == Nothing \in Given
<1>1. Nil \in Converted
  BY DEF Nil, Converted
<1>2. Blank("plain") \in Message
  BY BlankType DEF Types
<1>3. QED
  BY <1>1, <1>2 DEF Nothing, Given, Statuses

\* All the tags the code makes are tags.
LEMMA TagTypes ==
    ASSUME TypeOK, NEW r \in RPCs
    PROVE  /\ CurrentTags \in Tags /\ CallTags(r) \in Tags /\ EventTags(r) \in Tags
           /\ \A s \in Statuses : WithStatus(EventTags(r), s) \in Tags
           /\ \A ip \in IPs : [EventTags(r) EXCEPT !.ip = ip] \in Tags
           /\ StreamTags(r) \in Tags
<1>1. vuTags \in VUTags /\ tags[r] \in Tags /\ streamTags[r] \in Tags
  BY DEF TypeOK
<1>2. CurrentTags \in Tags
  BY <1>1 DEF CurrentTags, Tags
<1>3. CallTags(r) \in Tags
  BY <1>2 DEF CallTags, Tags
<1>4. EventTags(r) \in Tags
  BY <1>1, <1>2 DEF EventTags
<1> DEFINE t == EventTags(r)
<1> HIDE DEF t
<1>5. t \in Tags
  BY <1>4 DEF t
<1>6. \A s \in Statuses : WithStatus(t, s) \in Tags
  BY <1>5 DEF WithStatus, Tags
<1>7. \A ip \in IPs : [t EXCEPT !.ip = ip] \in Tags
  BY <1>5 DEF Tags
<1>8. QED
  BY <1>1, <1>2, <1>3, <1>4, <1>6, <1>7 DEF t, StreamTags

\* The RPC of r becomes x, the others stay.
LEMMA RpcUpdate ==
    ASSUME TypeOK, NEW r \in RPCs, NEW x \in RPC, rpc' = [rpc EXCEPT ![r] = x]
    PROVE  /\ rpc' \in [RPCs -> RPC] /\ rpc'[r] = x
           /\ \A q \in RPCs : q # r => rpc'[q] = rpc[q]
  BY DEF TypeOK

\* What is sent is a sample of its RPC and thread.
LEMMA PushType ==
    ASSUME TypeOK, NEW r \in RPCs, NEW by \in {"handler", "js", "sender", "reader"},
           NEW t \in Tags, NEW over, PushIfNotDone(r, by, t, over)
    PROVE  pushing' \subseteq Push
<1>1. [rpc |-> r, by |-> by, tags |-> t] \in Push
  BY DEF Push
<1>2. QED
  BY <1>1 DEF PushIfNotDone, TypeOK

\* The end of an attempt, for the types.
LEMMA HandleEndType ==
    ASSUME TypeOK, NEW r \in RPCs, NEW status \in Statuses, HandleEnd(r, status)
    PROVE  tags' \in [RPCs -> Tags] /\ pushing' \subseteq Push
<1> DEFINE t == WithStatus(EventTags(r), status)
<1> HIDE DEF t
<1>1. t \in Tags
  BY TagTypes DEF t
<1>2. Keep(r, t) /\ PushIfNotDone(r, "handler", t, rpc[r].ctx # "live")
  BY DEF HandleEnd, Measure, t
<1>3. tags' = tags \/ tags' = [tags EXCEPT ![r] = t]
  BY <1>2 DEF Keep
<1>4. tags' \in [RPCs -> Tags]
  BY <1>1, <1>3 DEF TypeOK
<1>5. QED
  BY <1>1, <1>2, <1>4, PushType

LEMMA CountType ==
    ASSUME TypeOK, NEW r \in RPCs, NEW by \in {"js", "sender", "reader"}, Count(r, by)
    PROVE  pushing' \subseteq Push
  BY TagTypes, PushType DEF Count

-----------------------------------------------------------------------------
(* What the steps do to the RPCs: each changes one, and that by ... *)

\* ... one record.
LEMMA DoneRpc ==
    ASSUME TypeOK, NEW r \in RPCs, NEW why \in {"Canceled", "Deadline"}, Done(r, why)
    PROVE  /\ rpc' \in [RPCs -> RPC]
           /\ \A q \in RPCs : q # r => rpc'[q] = rpc[q]
           /\ rpc'[r] = [rpc[r] EXCEPT !.ctx = rpc'[r].ctx] /\ rpc'[r].ctx # "live"
           /\ rpc[r].ctx # "live" => rpc'[r].ctx = rpc[r].ctx
<1>1. rpc[r] \in RPC
  BY DEF TypeOK
<1> DEFINE c == IF rpc[r].ctx = "live" THEN why ELSE rpc[r].ctx
<1>2. c \in {"Canceled", "Deadline"}
  BY <1>1 DEF RPC
<1>3. rpc' = [rpc EXCEPT ![r] = [rpc[r] EXCEPT !.ctx = c]]
  BY <1>1 DEF Done, TypeOK
<1> HIDE DEF c
<1>4. [rpc[r] EXCEPT !.ctx = c] \in RPC
  BY <1>1, <1>2 DEF RPC
<1>5. /\ rpc' \in [RPCs -> RPC] /\ rpc'[r] = [rpc[r] EXCEPT !.ctx = c]
      /\ \A q \in RPCs : q # r => rpc'[q] = rpc[q]
  BY <1>3, <1>4, RpcUpdate
<1>6. rpc'[r].ctx = c
  BY <1>1, <1>5 DEF RPC
<1>7. QED
  BY <1>2, <1>5, <1>6 DEF c

\* ... a call: it gets all its fields.
LEMMA StartRpc ==
    ASSUME TypeOK, NEW r \in RPCs, NEW kind \in {"unary", "stream", "reflection"},
           NEW timed \in BOOLEAN, NEW t \in Tags, Start(r, kind, timed, t)
    PROVE  /\ rpc' \in [RPCs -> RPC]
           /\ \A q \in RPCs : q # r => rpc'[q] = rpc[q] /\ tags'[q] = tags[q]
           /\ rpc[r].phase = "unused" /\ rpc'[r].kind = kind /\ rpc'[r].phase = "asked"
           /\ rpc'[r].attempts = rpc[r].attempts /\ rpc'[r].vu = vuTags /\ rpc'[r].timed = timed
           /\ rpc'[r].ctx = (IF vuDone THEN "Canceled" ELSE "live")
           /\ tags' \in [RPCs -> Tags] /\ tags'[r] = t /\ waits' = r
<1> DEFINE c == IF vuDone THEN "Canceled" ELSE "live"
           x == [rpc[r] EXCEPT !.kind = kind, !.phase = "asked", !.timed = timed,
                               !.vu = vuTags, !.ctx = c]
<1>1. rpc[r] \in RPC /\ vuTags \in VUTags /\ tags \in [RPCs -> Tags]
  BY DEF TypeOK
<1>2. c \in {"live", "Canceled"}
  OBVIOUS
<1>3. rpc' = [rpc EXCEPT ![r] = x]
  BY <1>1 DEF Start, TypeOK
<1>4. x \in RPC
  BY <1>1, <1>2 DEF RPC
<1>5. /\ x.kind = kind /\ x.phase = "asked" /\ x.attempts = rpc[r].attempts /\ x.vu = vuTags
      /\ x.timed = timed /\ x.ctx = c
  BY <1>1 DEF RPC
<1>6. /\ rpc[r].phase = "unused" /\ waits' = r /\ tags' = [tags EXCEPT ![r] = t]
  BY DEF Start
<1> HIDE DEF x
<1>7. QED
  BY <1>1, <1>3, <1>4, <1>5, <1>6, RpcUpdate

\* ... an attempt that goes out: its phase and its peers.
LEMMA OutHeaderRpc ==
    ASSUME TypeOK, NEW r \in RPCs, NEW ip \in IPs, rpc[r].phase = "pending",
           rpc' = [rpc EXCEPT ![r].phase = "sent", ![r].peers = @ \cup {ip}]
    PROVE  /\ rpc' \in [RPCs -> RPC]
           /\ \A q \in RPCs : q # r => rpc'[q] = rpc[q]
           /\ rpc'[r].phase = "sent" /\ rpc'[r].peers = rpc[r].peers \cup {ip}
           /\ rpc'[r] = [rpc[r] EXCEPT !.phase = "sent", !.peers = rpc[r].peers \cup {ip}]
<1> DEFINE x == [rpc[r] EXCEPT !.phase = "sent", !.peers = rpc[r].peers \cup {ip}]
<1>1. rpc[r] \in RPC
  BY DEF TypeOK
<1>2. rpc' = [rpc EXCEPT ![r] = x]
  BY <1>1 DEF TypeOK
<1>3. x \in RPC /\ x.phase = "sent" /\ x.peers = rpc[r].peers \cup {ip}
  BY <1>1 DEF RPC
<1>4. x = [rpc[r] EXCEPT !.phase = "sent", !.peers = rpc[r].peers \cup {ip}]
  OBVIOUS
<1> HIDE DEF x
<1>5. QED
  BY <1>2, <1>3, <1>4, RpcUpdate

\* ... an attempt that begins: its phase, and their number.
LEMMA AttemptRpc ==
    ASSUME TypeOK, NEW r \in RPCs, Attempt(r)
    PROVE  /\ rpc' \in [RPCs -> RPC]
           /\ \A q \in RPCs : q # r => rpc'[q] = rpc[q]
           /\ rpc'[r].phase = "pending" /\ rpc'[r].attempts = rpc[r].attempts + 1
           /\ rpc'[r] = [rpc[r] EXCEPT !.phase = "pending", !.attempts = rpc[r].attempts + 1]
<1> DEFINE n == rpc[r].attempts + 1
           x == [rpc[r] EXCEPT !.phase = "pending", !.attempts = n]
<1>1. rpc[r] \in RPC
  BY DEF TypeOK
<1>2. rpc' = [rpc EXCEPT ![r] = x]
  BY <1>1 DEF Attempt, TypeOK
<1>3. n \in Nat
  BY <1>1 DEF RPC
<1>4. x \in RPC /\ x.phase = "pending" /\ x.attempts = n
  <2> HIDE DEF n
  <2>1. QED
    BY <1>1, <1>3 DEF RPC
<1>5. x = [rpc[r] EXCEPT !.phase = "pending", !.attempts = rpc[r].attempts + 1]
  OBVIOUS
<1> HIDE DEF x
<1>6. QED
  BY <1>1, <1>2, <1>4, <1>5, RpcUpdate

\* ... an attempt that is to be followed by another one: its phase.
LEMMA RetryRpc ==
    ASSUME TypeOK, NEW r \in RPCs, Retry(r)
    PROVE  /\ rpc' \in [RPCs -> RPC]
           /\ \A q \in RPCs : q # r => rpc'[q] = rpc[q]
           /\ Attempting(r) /\ rpc'[r].phase = "retrying"
           /\ rpc'[r] = [rpc[r] EXCEPT !.phase = "retrying"]
<1> DEFINE x == [rpc[r] EXCEPT !.phase = "retrying"]
<1>1. rpc[r] \in RPC /\ Attempting(r)
  BY DEF TypeOK, Retry, Attempting
<1>2. rpc' = [rpc EXCEPT ![r] = x]
  BY <1>1 DEF Retry, TypeOK
<1>3. x \in RPC /\ x.phase = "retrying"
  BY <1>1 DEF RPC
<1> HIDE DEF x
<1>4. QED
  BY <1>1, <1>2, <1>3, RpcUpdate DEF x

\* ... the end of an RPC: its phase, its timer and its status.
LEMMA OverRpc ==
    ASSUME TypeOK, NEW r \in RPCs, NEW status \in Statuses, Over(r, status)
    PROVE  /\ rpc' \in [RPCs -> RPC]
           /\ \A q \in RPCs : q # r => rpc'[q] = rpc[q]
           /\ rpc'[r].phase = "over" /\ rpc'[r].status = status
           /\ rpc'[r] = [rpc[r] EXCEPT !.phase = "over", !.timed = FALSE, !.status = status]
<1> DEFINE x == [rpc[r] EXCEPT !.phase = "over", !.timed = FALSE, !.status = status]
<1>1. rpc[r] \in RPC
  BY DEF TypeOK
<1>2. rpc' = [rpc EXCEPT ![r] = x]
  BY <1>1 DEF TypeOK, Over
<1>3. x \in RPC /\ x.phase = "over" /\ x.status = status
  BY <1>1 DEF RPC
<1>4. x = [rpc[r] EXCEPT !.phase = "over", !.timed = FALSE, !.status = status]
  OBVIOUS
<1> HIDE DEF x
<1>5. QED
  BY <1>2, <1>3, <1>4, RpcUpdate

LEMMA EndStatusType ==
    ASSUME TypeOK, NEW r \in RPCs
    PROVE  EndStatuses(r) \subseteq Statuses /\ Refusals(r) \subseteq Statuses
<1>1. rpc[r].ctx \in {"live", "Canceled", "Deadline"}
  BY DEF TypeOK, RPC
<1>2. QED
  BY <1>1 DEF EndStatuses, Refusals, Statuses

\* ... a message that arrives: at most the phase.
LEMMA ReadRpc ==
    ASSUME TypeOK, NEW r \in RPCs, ReadMessage(r)
    PROVE  /\ rpc' \in [RPCs -> RPC]
           /\ \A q \in RPCs : q # r => rpc'[q] = rpc[q]
           /\ rpc'[r] = [rpc[r] EXCEPT !.phase = rpc'[r].phase]
           /\ \/ rpc[r].phase \in {"sent", "receiving"} /\ rpc'[r].phase = "receiving"
              \/ rpc[r].phase = "over" /\ rpc' = rpc
<1>1. rpc[r] \in RPC
  BY DEF TypeOK
<1>2. CASE rpc[r].phase = "over" /\ rpc' = rpc
  BY <1>1, <1>2 DEF TypeOK, RPC
<1>3. CASE /\ rpc[r].phase \in {"sent", "receiving"}
           /\ rpc' = [rpc EXCEPT ![r].phase = "receiving"]
  <2> DEFINE x == [rpc[r] EXCEPT !.phase = "receiving"]
  <2>1. rpc' = [rpc EXCEPT ![r] = x]
    BY <1>1, <1>3 DEF TypeOK
  <2>2. x \in RPC /\ x.phase = "receiving"
    BY <1>1 DEF RPC
  <2>3. rpc' \in [RPCs -> RPC] /\ rpc'[r] = x /\ \A q \in RPCs : q # r => rpc'[q] = rpc[q]
    <3> HIDE DEF x
    <3>1. QED
      BY <2>1, <2>2, RpcUpdate
  <2>4. QED
    BY <1>3, <2>2, <2>3
<1>4. QED
  BY <1>2, <1>3 DEF ReadMessage

\* An interrupt: only the contexts, and those of all that run.
LEMMA InterruptRpc ==
    ASSUME TypeOK, Interrupt
    PROVE  /\ rpc' \in [RPCs -> RPC]
           /\ \A q \in RPCs : /\ rpc'[q] = [rpc[q] EXCEPT !.ctx = rpc'[q].ctx]
                              /\ rpc'[q] = rpc[q] \/ (Running(q) /\ rpc'[q].ctx = "Canceled")
                              /\ Running(q) => rpc'[q].ctx # "live"
<1> SUFFICES ASSUME NEW q \in RPCs
             PROVE  /\ rpc'[q] \in RPC
                    /\ rpc'[q] = [rpc[q] EXCEPT !.ctx = rpc'[q].ctx]
                    /\ rpc'[q] = rpc[q] \/ (Running(q) /\ rpc'[q].ctx = "Canceled")
                    /\ Running(q) => rpc'[q].ctx # "live"
  BY DEF Interrupt
<1>1. rpc[q] \in RPC
  BY DEF TypeOK
<1>2. CASE Running(q) /\ rpc[q].ctx = "live"
  <2>1. rpc'[q] = [rpc[q] EXCEPT !.ctx = "Canceled"]
    BY <1>2 DEF Interrupt
  <2>2. [rpc[q] EXCEPT !.ctx = "Canceled"].ctx = "Canceled" /\ [rpc[q] EXCEPT !.ctx = "Canceled"] \in RPC
    BY <1>1 DEF RPC
  <2>3. QED
    BY <1>2, <2>1, <2>2
<1>3. CASE ~(Running(q) /\ rpc[q].ctx = "live")
  <2>1. rpc'[q] = rpc[q]
    BY <1>3 DEF Interrupt
  <2>2. [rpc[q] EXCEPT !.ctx = rpc[q].ctx] = rpc[q]
    BY <1>1 DEF RPC
  <2>3. QED
    BY <1>1, <1>3, <2>1, <2>2
<1>4. QED
  BY <1>2, <1>3

-----------------------------------------------------------------------------
(* Type correctness *)

LEMMA TypeInit == Init => TypeOK
<1> SUFFICES ASSUME Init PROVE TypeOK
  OBVIOUS
<1>1. FirstTags \in VUTags /\ NoRPC \notin RPCs
  BY CallsAssumption
<1>2. CurrentTags \in Tags
  BY <1>1 DEF Init, CurrentTags, Tags
<1>3. rpc \in [RPCs -> RPC]
  BY <1>1 DEF Init, RPC, Statuses
<1>4. <<>> \in Seq(Tags)
  OBVIOUS
<1>5. QED
  BY <1>1, <1>2, <1>3, <1>4, NothingType DEF Init, TypeOK

\* A step of grpc-go or of the contexts keeps the types.
LEMMA TypeNetwork ==
    ASSUME TypeOK, NEW r \in RPCs, Network(r)
    PROVE  TypeOK'
<1> USE DEF stateVars, sampleVars, Quiet
<1>1. ASSUME NEW ip \in IPs, HandleOutHeader(r, ip), OutHeader(r),
             rpc' = [rpc EXCEPT ![r].phase = "sent", ![r].peers = @ \cup {ip}]
      PROVE  TypeOK'
  <2>1. rpc' \in [RPCs -> RPC]
    BY <1>1, OutHeaderRpc DEF OutHeader
  <2> DEFINE t == IF "ip" \in SystemTags /\ ip # NoIP
                  THEN [EventTags(r) EXCEPT !.ip = ip] ELSE EventTags(r)
  <2>2. t \in Tags
    BY TagTypes
  <2>3. tags' \in {tags, [tags EXCEPT ![r] = t]}
    BY <1>1 DEF HandleOutHeader, Keep
  <2> HIDE DEF t
  <2>4. tags' \in [RPCs -> Tags]
    BY <2>2, <2>3 DEF TypeOK
  <2>5. QED
    BY <1>1, <2>1, <2>4, NothingType DEF TypeOK, OutHeader
<1>2. CASE Retry(r)
  <2>1. HandleEnd(r, "Error") /\ "Error" \in Statuses
    BY <1>2 DEF Retry, Statuses
  <2>2. QED
    BY <1>2, <2>1, HandleEndType, RetryRpc, NothingType DEF TypeOK, Retry
<1>3. ASSUME NEW status \in EndStatuses(r), EndRPC(r), HandleEnd(r, status), Over(r, status)
      PROVE  TypeOK'
  <2>1. status \in Statuses
    BY EndStatusType
  <2>2. rpc' \in [RPCs -> RPC] /\ tags' \in [RPCs -> Tags] /\ pushing' \subseteq Push
    BY <1>3, <2>1, HandleEndType, OverRpc
  <2>3. QED
    BY <1>3, <2>2, NothingType DEF TypeOK, EndRPC
<1>4. CASE Deadline(r)
  <2>1. rpc' \in [RPCs -> RPC]
    BY <1>4, DoneRpc DEF Deadline
  <2>2. QED
    BY <1>4, <2>1, NothingType DEF TypeOK, Deadline
<1>5. CASE Attempt(r)
  BY <1>5, AttemptRpc, NothingType DEF TypeOK, Attempt
<1>6. ASSUME NEW status \in Refusals(r), Refuse(r), Over(r, status)
      PROVE  TypeOK'
  <2>1. rpc' \in [RPCs -> RPC]
    BY <1>6, EndStatusType, OverRpc
  <2>2. QED
    BY <1>6, <2>1, NothingType DEF TypeOK, Refuse
<1>7. QED
  BY <1>1, <1>2, <1>3, <1>4, <1>5, <1>6 DEF Network, OutHeader, EndRPC, Refuse

\* A sample that is taken keeps the types.
LEMMA TypeTaken ==
    ASSUME TypeOK, NEW s \in pushing, SampleTaken(s)
    PROVE  TypeOK'
<1>1. s \in Push /\ s.rpc \in RPCs /\ s.tags \in Tags
  BY DEF TypeOK, Push
<1>2. durations' \in [RPCs -> Seq(Tags)]
  <2>1. durations \in [RPCs -> Seq(Tags)]
    BY DEF TypeOK
  <2>2. Append(durations[s.rpc], s.tags) \in Seq(Tags)
    BY <1>1, <2>1
  <2>3. QED
    BY <2>1, <2>2 DEF SampleTaken
<1>3. counted' \in [RPCs -> SUBSET Tags]
  <2>1. counted \in [RPCs -> SUBSET Tags]
    BY DEF TypeOK
  <2>2. counted[s.rpc] \cup {s.tags} \in SUBSET Tags
    BY <1>1, <2>1
  <2>3. QED
    BY <2>1, <2>2 DEF SampleTaken
<1>4. pushing' \subseteq Push
  BY DEF SampleTaken, TypeOK
<1>5. QED
  BY <1>2, <1>3, <1>4, NothingType DEF TypeOK, SampleTaken, stateVars, Quiet

\* The beginning of a call keeps the types.
LEMMA TypeScript ==
    ASSUME TypeOK, NEW r \in RPCs, Script(r)
    PROVE  TypeOK'
<1> USE DEF Quiet
<1>0. CurrentTags \in Tags /\ CallTags(r) \in Tags /\ r # NoRPC
  BY TagTypes, CallsAssumption
<1>1. CASE Reflect(r)
  <2>1. rpc' \in [RPCs -> RPC] /\ tags' \in [RPCs -> Tags] /\ waits' = r
    BY <1>0, <1>1, StartRpc DEF Reflect
  <2>2. QED
    BY <1>0, <1>1, <2>1, NothingType DEF TypeOK, Reflect
<1>2. CASE Invoke(r)
  <2>1. rpc' \in [RPCs -> RPC] /\ tags' \in [RPCs -> Tags] /\ waits' = r
    BY <1>0, <1>2, StartRpc DEF Invoke
  <2>2. QED
    BY <1>0, <1>2, <2>1, NothingType DEF TypeOK, Invoke
<1>3. CASE NewStream(r)
  <2>1. PICK timed \in BOOLEAN : Start(r, "stream", timed, CurrentTags)
    BY <1>3 DEF NewStream
  <2>2. rpc' \in [RPCs -> RPC] /\ tags' \in [RPCs -> Tags] /\ waits' = r
    BY <1>0, <2>1, StartRpc
  <2>3. streamTags' \in [RPCs -> Tags]
    BY <1>0, <1>3 DEF NewStream, TypeOK
  <2>4. QED
    BY <1>0, <1>3, <2>2, <2>3, NothingType DEF TypeOK, NewStream
<1>4. QED
  BY <1>1, <1>2, <1>3 DEF Script

\* The end of a call keeps the types.
LEMMA TypeReturn ==
    ASSUME TypeOK, Return
    PROVE  TypeOK'
<1> USE DEF Quiet, sampleVars
<1>0. js # "script" /\ js # "crashed" => waits \in RPCs
  BY DEF TypeOK
<1>1. CASE ReflectReturns
  <2>1. rpc' \in [RPCs -> RPC]
    BY <1>0, <1>1, DoneRpc DEF ReflectReturns, TypeOK
  <2>2. QED
    BY <1>1, <2>1, NothingType DEF TypeOK, ReflectReturns
<1>2. CASE InvokeReturns
  <2>1. PICK m \in Replies(waits) : given' = Respond(waits, m)
    BY <1>2 DEF InvokeReturns
  <2>2. m \in Message
    BY <2>1, BlankType DEF Replies, Incoming
  <2>3. Convert(TRUE, m) \in Converted /\ Nil \in Converted
    BY <2>2, ConvertType DEF Nil, Converted
  <2>4. given' \in Given
    BY <1>0, <1>2, <2>1, <2>2, <2>3, GiveType DEF Respond, InvokeReturns
  <2>5. QED
    BY <1>2, <2>4 DEF TypeOK, InvokeReturns
<1>3. CASE StreamOpens
  <2>1. pushing' \subseteq Push
    BY <1>0, <1>3, CountType DEF StreamOpens
  <2>2. QED
    BY <1>3, <2>1, NothingType DEF TypeOK, StreamOpens
<1>4. CASE StreamBegins
  BY <1>0, <1>4, NothingType DEF TypeOK, StreamBegins
<1>5. CASE StreamFails
  BY <1>5, NothingType DEF TypeOK, StreamFails
<1>6. QED
  BY <1>1, <1>2, <1>3, <1>4, <1>5 DEF Return

\* A step of a stream that is open keeps the types.
LEMMA TypeStreaming ==
    ASSUME TypeOK, NEW r \in RPCs, Streaming(r)
    PROVE  TypeOK'
<1> USE DEF Quiet, stateVars, sampleVars
<1>1. CASE MessageSent(r)
  <2>1. pushing' \subseteq Push
    BY <1>1, CountType DEF MessageSent
  <2>2. QED
    BY <1>1, <2>1, NothingType DEF TypeOK, MessageSent
<1>2. CASE ReadMessage(r)
  <2>1. PICK m \in Incoming : /\ Read(r, Convert(FALSE, m))
                              /\ given' = Give(r, "event", Convert(FALSE, m), m)
    BY <1>2 DEF ReadMessage
  <2>2. given' \in Given
    BY <2>1, ConvertType, GiveType DEF Incoming
  <2>3. /\ reading' \in [RPCs -> BOOLEAN] /\ pushing' \subseteq Push
        /\ UNCHANGED <<js, waits>> \/ (js' = "crashed" /\ waits' = NoRPC)
    BY <2>1, CountType DEF Read, Forward, TypeOK
  <2>4. rpc' \in [RPCs -> RPC]
    BY <1>2, ReadRpc
  <2>5. UNCHANGED <<vuTags, vuDone, tags, streamTags, durations, counted>>
    BY <1>2 DEF ReadMessage
  <2>6. QED
    BY <2>2, <2>3, <2>4, <2>5 DEF TypeOK
<1>3. CASE ReadEnd(r)
  BY <1>3, NothingType DEF TypeOK, ReadEnd
<1>4. CASE StreamCloses(r)
  <2>1. rpc' \in [RPCs -> RPC]
    BY <1>4, DoneRpc DEF StreamCloses
  <2>2. QED
    BY <1>4, <2>1, NothingType DEF TypeOK, StreamCloses
<1>5. QED
  BY <1>1, <1>2, <1>3, <1>4 DEF Streaming

LEMMA TypeStep ==
    ASSUME TypeOK, [Next]_vars
    PROVE  TypeOK'
<1>1. CASE SetVUTags
  BY <1>1, NothingType DEF TypeOK, SetVUTags, Quiet, sampleVars
<1>2. CASE Interrupt
  BY <1>2, InterruptRpc, NothingType DEF TypeOK, Interrupt, Quiet, sampleVars
<1>3. CASE UNCHANGED vars
  BY <1>3 DEF TypeOK, vars, stateVars, sampleVars
<1>4. QED
  BY <1>1, <1>2, <1>3, TypeNetwork, TypeScript, TypeReturn, TypeStreaming, TypeTaken DEF Next

\* Every variable of the calls has a value of its kind.
THEOREM TypeCorrect == Spec => []TypeOK
  BY TypeInit, TypeStep, PTL DEF Spec

-----------------------------------------------------------------------------
(* What a step is to one RPC: its beginning, that or the end of an attempt, its
   end without one, a sample that is taken, or nothing of consequence to its
   duration samples                                                         *)

\* The samples the stats handler is sending for an RPC.
Sending(q) == {s \in pushing : s.rpc = q /\ s.by = "handler"}

LEMMA SendingIsPush ==
    ASSUME NEW q \in RPCs
    PROVE  InPush(q, "handler") <=> Sending(q) # {}
  BY DEF InPush, Sending

Starts(q) ==
    /\ rpc[q].phase = "unused" /\ rpc'[q].phase = "asked"
    /\ rpc'[q].attempts = rpc[q].attempts
    /\ rpc'[q].kind # "none"
    /\ rpc'[q].vu = vuTags /\ UNCHANGED <<vuTags, vuDone>>
    /\ vuDone => rpc'[q].ctx # "live"
    /\ tags'[q] = IF rpc'[q].kind = "unary" THEN CallTags(q) ELSE CurrentTags
    /\ durations'[q] = durations[q] /\ Sending(q)' = Sending(q)

\* What a step changes neither of an RPC nor of its samples.
Kept(q) ==
    /\ rpc'[q].kind = rpc[q].kind /\ rpc'[q].vu = rpc[q].vu
    /\ rpc'[q].ctx = rpc[q].ctx /\ rpc'[q].peers = rpc[q].peers

AttemptBegins(q) ==
    /\ rpc[q].phase \in {"asked", "retrying"} /\ Sending(q) = {}
    /\ rpc'[q].phase = "pending" /\ rpc'[q].attempts = rpc[q].attempts + 1
    /\ Kept(q) /\ rpc'[q].timed = rpc[q].timed
    /\ tags'[q] = tags[q] /\ durations'[q] = durations[q] /\ Sending(q)' = Sending(q)

EndTags(q, status) == WithStatus(EventTags(q), status)

EndSample(q, status) == [rpc |-> q, by |-> "handler", tags |-> EndTags(q, status)]

AttemptEnds(q) == \E status \in Statuses :
    /\ Attempting(q) /\ Kept(q) /\ rpc'[q].attempts = rpc[q].attempts
    /\ \/ rpc'[q].phase = "retrying" /\ rpc'[q].timed = rpc[q].timed
       \/ rpc'[q].phase = "over" /\ rpc'[q].status = status
    /\ tags'[q] = IF rpc[q].kind = "reflection" THEN tags[q] ELSE EndTags(q, status)
    /\ durations'[q] = durations[q]
    /\ Sending(q)' = IF rpc[q].ctx = "live" THEN Sending(q) \cup {EndSample(q, status)}
                     ELSE Sending(q)

Refused(q) ==
    /\ rpc[q].phase \in {"asked", "retrying"} /\ Sending(q) = {}
    /\ rpc[q].phase = "retrying" /\ rpc[q].ctx = "live" => waits # q
    /\ rpc'[q].phase = "over" /\ Kept(q) /\ rpc'[q].attempts = rpc[q].attempts
    /\ tags'[q] = tags[q] /\ durations'[q] = durations[q] /\ Sending(q)' = Sending(q)

Taken(q) ==
    /\ rpc'[q] = rpc[q] /\ tags'[q] = tags[q]
    /\ \E s \in Sending(q) : /\ Sending(q)' = Sending(q) \ {s}
                             /\ durations'[q] = Append(durations[q], s.tags)

Stays(q) ==
    /\ rpc'[q].kind = rpc[q].kind /\ rpc'[q].vu = rpc[q].vu
    /\ rpc'[q].attempts = rpc[q].attempts /\ rpc'[q].status = rpc[q].status
    /\ rpc'[q].timed = rpc[q].timed
    /\ rpc[q].peers \subseteq rpc'[q].peers
    /\ \/ rpc'[q].phase = rpc[q].phase
       \/ Attempting(q) /\ rpc'[q].phase \in {"sent", "receiving"}
    /\ rpc'[q].ctx = rpc[q].ctx \/ (Running(q) /\ rpc'[q].ctx # "live")
    /\ \/ tags'[q] = tags[q]
       \/ \E ip \in rpc'[q].peers : tags'[q] = [EventTags(q) EXCEPT !.ip = ip]
                                    /\ rpc[q].kind # "reflection"
    /\ durations'[q] = durations[q] /\ Sending(q)' = Sending(q)

\* A step that leaves all of an RPC alone, or all but the context.
LEMMA StaysAlone ==
    ASSUME TypeOK, NEW q \in RPCs, tags'[q] = tags[q], durations'[q] = durations[q],
           Sending(q)' = Sending(q),
           \/ rpc'[q] = rpc[q]
           \/ /\ rpc'[q] = [rpc[q] EXCEPT !.ctx = rpc'[q].ctx]
              /\ rpc'[q].ctx = rpc[q].ctx \/ (Running(q) /\ rpc'[q].ctx # "live")
    PROVE  Stays(q)
<1>1. rpc[q] \in RPC
  BY DEF TypeOK
<1>2. CASE rpc'[q] = rpc[q]
  BY <1>2 DEF Stays
<1>3. CASE /\ rpc'[q] = [rpc[q] EXCEPT !.ctx = rpc'[q].ctx]
           /\ rpc'[q].ctx = rpc[q].ctx \/ (Running(q) /\ rpc'[q].ctx # "live")
  <2>1. /\ rpc'[q].kind = rpc[q].kind /\ rpc'[q].vu = rpc[q].vu
        /\ rpc'[q].attempts = rpc[q].attempts /\ rpc'[q].status = rpc[q].status
        /\ rpc'[q].peers = rpc[q].peers /\ rpc'[q].phase = rpc[q].phase
        /\ rpc'[q].timed = rpc[q].timed
    BY <1>1, <1>3 DEF RPC
  <2>2. QED
    BY <1>3, <2>1 DEF Stays
<1>4. QED
  BY <1>2, <1>3

\* Nothing is sent for an RPC unless the stats handler does.
LEMMA SendingSame ==
    ASSUME NEW q \in RPCs,
           \/ pushing' = pushing
           \/ \E r \in RPCs, by \in {"js", "sender", "reader"} : Count(r, by)
    PROVE  Sending(q)' = Sending(q)
  BY DEF Count, PushIfNotDone, Sending

\* The end of an attempt gives a sample, unless the context is done, and to its RPC only.
LEMMA EndEffect ==
    ASSUME TypeOK, NEW r \in RPCs, NEW status \in Statuses, HandleEnd(r, status)
    PROVE  /\ \A q \in RPCs : q # r => tags'[q] = tags[q] /\ Sending(q)' = Sending(q)
           /\ tags'[r] = IF rpc[r].kind = "reflection" THEN tags[r] ELSE EndTags(r, status)
           /\ Sending(r)' = IF rpc[r].ctx = "live" THEN Sending(r) \cup {EndSample(r, status)}
                            ELSE Sending(r)
<1>1. /\ Keep(r, EndTags(r, status))
      /\ PushIfNotDone(r, "handler", EndTags(r, status), rpc[r].ctx # "live")
  BY DEF HandleEnd, EndTags, Measure
<1>2. /\ \A q \in RPCs : q # r => tags'[q] = tags[q]
      /\ tags'[r] = IF rpc[r].kind = "reflection" THEN tags[r] ELSE EndTags(r, status)
  BY <1>1 DEF Keep, TypeOK
<1> DEFINE s == EndSample(r, status)
<1>3. s.rpc = r /\ s.by = "handler"
  BY DEF EndSample
<1>4. pushing' = IF rpc[r].ctx = "live" THEN pushing \cup {s} ELSE pushing
  BY <1>1 DEF PushIfNotDone, EndSample
<1> HIDE DEF s
<1>5. /\ \A q \in RPCs : q # r => Sending(q)' = Sending(q)
      /\ Sending(r)' = IF rpc[r].ctx = "live" THEN Sending(r) \cup {s} ELSE Sending(r)
  BY <1>3, <1>4 DEF Sending
<1>6. QED
  BY <1>2, <1>5 DEF s

LEMMA AttemptStep ==
    ASSUME TypeOK, NEW q \in RPCs, NEW r \in RPCs, Attempt(r)
    PROVE  AttemptBegins(q) \/ Stays(q)
<1>1. UNCHANGED <<tags, durations, pushing>> /\ rpc[r] \in RPC
  BY DEF Attempt, sampleVars, TypeOK
<1>2. Sending(q)' = Sending(q)
  BY <1>1, SendingSame
<1>3. CASE q # r
  BY <1>1, <1>2, <1>3, AttemptRpc, StaysAlone
<1>4. CASE q = r
  <2>1. /\ rpc'[q].phase = "pending" /\ rpc'[q].attempts = rpc[q].attempts + 1
        /\ rpc'[q] = [rpc[q] EXCEPT !.phase = "pending", !.attempts = rpc[q].attempts + 1]
    BY <1>4, AttemptRpc
  <2>2. Kept(q) /\ rpc'[q].timed = rpc[q].timed
    BY <1>1, <1>4, <2>1 DEF RPC, Kept
  <2>3. rpc[q].phase \in {"asked", "retrying"} /\ Sending(q) = {}
    BY <1>4, SendingIsPush DEF Attempt
  <2>4. QED
    BY <1>1, <1>2, <2>1, <2>2, <2>3 DEF AttemptBegins
<1>5. QED
  BY <1>3, <1>4

LEMMA OutHeaderStep ==
    ASSUME TypeOK, NEW q \in RPCs, NEW r \in RPCs, OutHeader(r)
    PROVE  Stays(q)
<1>0. /\ rpc[r] \in RPC /\ tags \in [RPCs -> Tags] /\ durations' = durations
      /\ rpc[r].phase = "pending" /\ Sending(q)' = Sending(q)
  BY SendingSame DEF TypeOK, OutHeader
<1>1. PICK ip \in IPs : /\ HandleOutHeader(r, ip)
                        /\ rpc' = [rpc EXCEPT ![r].phase = "sent", ![r].peers = @ \cup {ip}]
  BY DEF OutHeader
<1>2. /\ \A p \in RPCs : p # r => rpc'[p] = rpc[p]
      /\ rpc'[r].phase = "sent" /\ rpc'[r].peers = rpc[r].peers \cup {ip}
      /\ rpc'[r] = [rpc[r] EXCEPT !.phase = "sent", !.peers = rpc[r].peers \cup {ip}]
  BY <1>0, <1>1, OutHeaderRpc
<1>3. CASE q # r
  <2>1. tags'[q] = tags[q]
    BY <1>0, <1>1, <1>3 DEF HandleOutHeader, Keep
  <2>2. QED
    BY <1>0, <1>2, <1>3, <2>1, StaysAlone
<1>4. CASE q = r
  <2>1. /\ rpc'[q].kind = rpc[q].kind /\ rpc'[q].vu = rpc[q].vu
        /\ rpc'[q].attempts = rpc[q].attempts /\ rpc'[q].status = rpc[q].status
        /\ rpc'[q].ctx = rpc[q].ctx /\ rpc'[q].timed = rpc[q].timed
    BY <1>0, <1>2, <1>4 DEF RPC
  <2>2. \/ tags'[q] = tags[q]
        \/ tags'[q] = [EventTags(q) EXCEPT !.ip = ip] /\ rpc[q].kind # "reflection"
    <3>1. CASE rpc[r].kind = "reflection"
      BY <1>0, <1>1, <1>4, <3>1 DEF HandleOutHeader, Keep
    <3>2. CASE rpc[r].kind # "reflection"
      BY <1>0, <1>1, <1>4, <3>2 DEF HandleOutHeader, Keep, EventTags
    <3>3. QED
      BY <3>1, <3>2
  <2>3. Attempting(q) /\ ip \in rpc'[q].peers /\ rpc[q].peers \subseteq rpc'[q].peers
    BY <1>0, <1>2, <1>4 DEF Attempting
  <2>4. QED
    BY <1>0, <1>2, <1>4, <2>1, <2>2, <2>3 DEF Stays
<1>5. QED
  BY <1>3, <1>4

LEMMA RetryStep ==
    ASSUME TypeOK, NEW q \in RPCs, NEW r \in RPCs, Retry(r)
    PROVE  AttemptEnds(q) \/ Stays(q)
<1>1. /\ HandleEnd(r, "Error") /\ "Error" \in Statuses /\ rpc[r] \in RPC
      /\ durations' = durations
  BY DEF Retry, Statuses, TypeOK
<1>2. CASE q # r
  BY <1>1, <1>2, RetryRpc, EndEffect, StaysAlone
<1>3. CASE q = r
  <2>1. /\ rpc'[q].phase = "retrying" /\ Attempting(q)
        /\ rpc'[q] = [rpc[q] EXCEPT !.phase = "retrying"]
    BY <1>3, RetryRpc
  <2>2. Kept(q) /\ rpc'[q].timed = rpc[q].timed /\ rpc'[q].attempts = rpc[q].attempts
    BY <1>1, <1>3, <2>1 DEF RPC, Kept
  <2>3. QED
    BY <1>1, <1>3, <2>1, <2>2, EndEffect DEF AttemptEnds
<1>4. QED
  BY <1>2, <1>3

\* What is kept of an RPC that is over now.
LEMMA OverKept ==
    ASSUME TypeOK, NEW r \in RPCs, NEW status \in Statuses, Over(r, status)
    PROVE  Kept(r) /\ rpc'[r].attempts = rpc[r].attempts
<1>1. rpc[r] \in RPC
  BY DEF TypeOK
<1>2. rpc'[r] = [rpc[r] EXCEPT !.phase = "over", !.timed = FALSE, !.status = status]
  BY OverRpc
<1>3. QED
  BY <1>1, <1>2 DEF RPC, Kept

LEMMA EndRPCStep ==
    ASSUME TypeOK, NEW q \in RPCs, NEW r \in RPCs, EndRPC(r)
    PROVE  AttemptEnds(q) \/ Stays(q)
<1>1. PICK status \in EndStatuses(r) : HandleEnd(r, status) /\ Over(r, status)
  BY DEF EndRPC
<1>2. status \in Statuses /\ Attempting(r) /\ durations' = durations
  BY EndStatusType DEF EndRPC
<1>3. CASE q # r
  <2>1. rpc'[q] = rpc[q]
    BY <1>1, <1>2, <1>3, OverRpc
  <2>2. tags'[q] = tags[q] /\ Sending(q)' = Sending(q)
    BY <1>1, <1>2, <1>3, EndEffect
  <2>3. QED
    BY <1>2, <2>1, <2>2, StaysAlone
<1>4. CASE q = r
  BY <1>1, <1>2, <1>4, OverRpc, OverKept, EndEffect DEF AttemptEnds
<1>5. QED
  BY <1>3, <1>4

LEMMA RefuseStep ==
    ASSUME TypeOK, NEW q \in RPCs, NEW r \in RPCs, Refuse(r)
    PROVE  Refused(q) \/ Stays(q)
<1>1. PICK status \in Refusals(r) : Over(r, status)
  BY DEF Refuse
<1>2. status \in Statuses /\ UNCHANGED <<tags, durations, pushing>>
  BY EndStatusType DEF Refuse, sampleVars
<1>3. Sending(q)' = Sending(q)
  BY <1>2, SendingSame
<1>4. CASE q # r
  BY <1>1, <1>2, <1>3, <1>4, OverRpc, StaysAlone
<1>5. CASE q = r
  <2>1. rpc[q].phase = "retrying" /\ rpc[q].ctx = "live" => waits # q
    BY <1>1, <1>5 DEF Refusals
  <2>2. rpc[q].phase \in {"asked", "retrying"} /\ Sending(q) = {}
    BY <1>5, SendingIsPush DEF Refuse
  <2>3. QED
    BY <1>1, <1>2, <1>3, <1>5, <2>1, <2>2, OverRpc, OverKept DEF Refused
<1>6. QED
  BY <1>4, <1>5

LEMMA TakenStep ==
    ASSUME TypeOK, NEW q \in RPCs, NEW s \in pushing, SampleTaken(s)
    PROVE  Taken(q) \/ Stays(q)
<1>1. /\ UNCHANGED <<rpc, tags>> /\ pushing' = pushing \ {s} /\ s.rpc \in RPCs
      /\ durations \in [RPCs -> Seq(Tags)]
  BY DEF SampleTaken, TypeOK, Push
<1>2. CASE s \in Sending(q)
  <2>1. Sending(q)' = Sending(q) \ {s}
    BY <1>1 DEF Sending
  <2>2. durations'[q] = Append(durations[q], s.tags)
    BY <1>1, <1>2 DEF SampleTaken, Sending
  <2>3. QED
    BY <1>1, <1>2, <2>1, <2>2 DEF Taken
<1>3. CASE s \notin Sending(q)
  <2>1. Sending(q)' = Sending(q)
    BY <1>1, <1>3 DEF Sending
  <2>2. durations'[q] = durations[q]
    BY <1>1, <1>3 DEF SampleTaken, Sending
  <2>3. QED
    BY <1>1, <2>1, <2>2, StaysAlone
<1>4. QED
  BY <1>2, <1>3

\* The context of an RPC that is running is done.
LEMMA DoneStep ==
    ASSUME TypeOK, NEW q \in RPCs, NEW r \in RPCs, NEW why \in {"Canceled", "Deadline"},
           Done(r, why), Running(r), UNCHANGED <<tags, durations, pushing>>
    PROVE  Stays(q)
  BY DoneRpc, StaysAlone, SendingSame

LEMMA ScriptStep ==
    ASSUME TypeOK, NEW q \in RPCs, NEW r \in RPCs, Script(r)
    PROVE  Starts(q) \/ Stays(q)
<1>0. CurrentTags \in Tags /\ CallTags(r) \in Tags
  BY TagTypes
<1>1. UNCHANGED <<vuTags, vuDone, durations, pushing>>
  BY DEF Script, Reflect, Invoke, NewStream
<1>2. PICK kind \in {"unary", "stream", "reflection"}, timed \in BOOLEAN :
        Start(r, kind, timed, IF kind = "unary" THEN CallTags(r) ELSE CurrentTags)
  BY DEF Script, Reflect, Invoke, NewStream
<1> DEFINE t == IF kind = "unary" THEN CallTags(r) ELSE CurrentTags
<1>3. t \in Tags /\ Start(r, kind, timed, t) /\ Sending(q)' = Sending(q)
  BY <1>0, <1>1, <1>2, SendingSame
<1> HIDE DEF t
<1>4. /\ \A p \in RPCs : p # r => rpc'[p] = rpc[p] /\ tags'[p] = tags[p]
      /\ rpc[r].phase = "unused" /\ rpc'[r].kind = kind /\ rpc'[r].phase = "asked"
      /\ rpc'[r].attempts = rpc[r].attempts /\ rpc'[r].vu = vuTags
      /\ rpc'[r].ctx = (IF vuDone THEN "Canceled" ELSE "live")
      /\ tags'[r] = t
  BY <1>3, StartRpc
<1>5. CASE q # r
  BY <1>1, <1>3, <1>4, <1>5, StaysAlone
<1>6. CASE q = r
  BY <1>1, <1>3, <1>4, <1>6 DEF Starts, t
<1>7. QED
  BY <1>5, <1>6

LEMMA ReturnStep ==
    ASSUME TypeOK, NEW q \in RPCs, Return
    PROVE  Stays(q)
<1>0. UNCHANGED <<tags, durations>>
  BY DEF Return, ReflectReturns, InvokeReturns, StreamOpens, StreamBegins, StreamFails, sampleVars
<1>1. CASE rpc' = rpc
  <2>1. pushing' = pushing \/ \E r \in RPCs : Count(r, "js")
    BY DEF Return, ReflectReturns, InvokeReturns, StreamOpens, StreamBegins, StreamFails,
       sampleVars, TypeOK
  <2>2. QED
    BY <1>0, <1>1, <2>1, SendingSame, StaysAlone
<1>2. CASE rpc' # rpc
  <2>1. /\ waits \in RPCs /\ Running(waits) /\ Done(waits, "Canceled") /\ pushing' = pushing
    BY <1>2 DEF Return, ReflectReturns, InvokeReturns, StreamOpens, StreamBegins, StreamFails,
       TypeOK, sampleVars
  <2>2. QED
    BY <1>0, <2>1, DoneStep
<1>3. QED
  BY <1>1, <1>2

LEMMA StreamingStep ==
    ASSUME TypeOK, NEW q \in RPCs, NEW r \in RPCs, Streaming(r)
    PROVE  Stays(q)
<1>0. UNCHANGED <<tags, durations>>
  BY DEF Streaming, MessageSent, ReadMessage, ReadEnd, StreamCloses, sampleVars
<1>1. CASE MessageSent(r) \/ ReadEnd(r)
  <2>1. rpc' = rpc /\ (pushing' = pushing \/ Count(r, "sender"))
    BY <1>1 DEF MessageSent, ReadEnd, sampleVars
  <2>2. QED
    BY <1>0, <2>1, SendingSame, StaysAlone
<1>2. CASE ReadMessage(r)
  <2>0. Sending(q)' = Sending(q)
    <3>1. pushing' = pushing \/ Count(r, "reader")
      BY <1>2 DEF ReadMessage, Read, Forward
    <3>2. QED
      BY <3>1, SendingSame
  <2>1. CASE rpc'[q] = rpc[q]
    BY <1>0, <2>0, <2>1, StaysAlone
  <2>2. CASE rpc'[q] # rpc[q]
    <3>1. /\ q = r /\ rpc[q] \in RPC /\ rpc[q].phase \in {"sent", "receiving"}
          /\ rpc'[q].phase = "receiving" /\ rpc'[q] = [rpc[q] EXCEPT !.phase = rpc'[q].phase]
      BY <1>2, <2>2, ReadRpc DEF TypeOK
    <3>2. /\ rpc'[q].kind = rpc[q].kind /\ rpc'[q].vu = rpc[q].vu
          /\ rpc'[q].ctx = rpc[q].ctx /\ rpc'[q].peers = rpc[q].peers
          /\ rpc'[q].attempts = rpc[q].attempts /\ rpc'[q].status = rpc[q].status
          /\ rpc'[q].timed = rpc[q].timed
      BY <3>1 DEF RPC
    <3>3. QED
      BY <1>0, <2>0, <3>1, <3>2 DEF Stays, Attempting
  <2>3. QED
    BY <2>1, <2>2
<1>3. CASE StreamCloses(r)
  BY <1>0, <1>3, DoneStep DEF StreamCloses, sampleVars
<1>4. QED
  BY <1>1, <1>2, <1>3 DEF Streaming

\* The other steps.
LEMMA OtherStep ==
    ASSUME TypeOK, NEW q \in RPCs,
           \/ SetVUTags \/ Interrupt \/ UNCHANGED vars
           \/ \E r \in RPCs : Deadline(r)
    PROVE  Stays(q)
<1>1. CASE SetVUTags \/ UNCHANGED vars
  <2>1. UNCHANGED <<rpc, tags, durations, pushing>>
    BY <1>1 DEF SetVUTags, vars, sampleVars
  <2>2. QED
    BY <2>1, StaysAlone, SendingSame
<1>2. CASE Interrupt
  <2>1. UNCHANGED <<tags, durations, pushing>>
    BY <1>2 DEF Interrupt, sampleVars
  <2>2. QED
    BY <1>2, <2>1, InterruptRpc, StaysAlone, SendingSame
<1>3. ASSUME NEW r \in RPCs, Deadline(r) PROVE Stays(q)
  <2>1. UNCHANGED <<tags, durations, pushing>>
    BY <1>3 DEF Deadline, sampleVars
  <2>2. QED
    BY <1>3, <2>1, DoneStep DEF Deadline
<1>4. QED
  BY <1>1, <1>2, <1>3

LEMMA Steps ==
    ASSUME TypeOK, [Next]_vars, NEW q \in RPCs
    PROVE  Starts(q) \/ AttemptBegins(q) \/ AttemptEnds(q) \/ Refused(q) \/ Taken(q) \/ Stays(q)
  BY OtherStep, AttemptStep, OutHeaderStep, RetryStep, EndRPCStep, RefuseStep, TakenStep,
     ScriptStep, ReturnStep, StreamingStep DEF Next, Network

-----------------------------------------------------------------------------
(* One sample for each attempt *)

\* The attempts of an RPC that have ended, and the samples of these.
Ended(q) == rpc[q].attempts - IF Attempting(q) THEN 1 ELSE 0
Samples(q) == Len(durations[q]) + IF Sending(q) # {} THEN 1 ELSE 0

\* The thread that sends a sample is the one the RPC would go on in: there is at most
\* one, and no attempt.
Counted(q) ==
    /\ rpc[q].phase = "unused" => durations[q] = <<>>
    /\ rpc[q].phase \in {"unused", "asked"} => rpc[q].attempts = 0
    /\ Attempting(q) => rpc[q].attempts > 0
    /\ Sending(q) # {} => rpc[q].phase \in {"retrying", "over"}
    /\ \A s, t \in Sending(q) : s = t
    /\ Samples(q) <= Ended(q)
    /\ rpc[q].ctx = "live" => Samples(q) = Ended(q)

CountInv == \A q \in RPCs : Counted(q)

LEMMA CountInit == Init => CountInv
<1> SUFFICES ASSUME Init, NEW q \in RPCs PROVE Counted(q)
  BY DEF CountInv
<1>1. Sending(q) = {} /\ durations[q] = <<>> /\ rpc[q].phase = "unused" /\ rpc[q].attempts = 0
  BY DEF Init, Sending
<1>2. Len(durations[q]) = 0 /\ ~Attempting(q)
  BY <1>1 DEF Attempting
<1>3. Samples(q) = Len(durations[q]) + 0 /\ Ended(q) = rpc[q].attempts - 0
  BY <1>1, <1>2 DEF Ended, Samples
<1>4. Samples(q) = 0 /\ Ended(q) = 0
  BY <1>1, <1>2, <1>3
<1>5. QED
  BY <1>1, <1>2, <1>4 DEF Counted

LEMMA CountStep ==
    ASSUME TypeOK, CountInv, [Next]_vars
    PROVE  CountInv'
<1> SUFFICES ASSUME NEW q \in RPCs PROVE Counted(q)'
  BY DEF CountInv
<1>0. /\ rpc[q].attempts \in Nat /\ Len(durations[q]) \in Nat /\ durations[q] \in Seq(Tags)
      /\ rpc[q].phase \in {"unused", "asked", "pending", "sent", "receiving", "retrying", "over"}
      /\ Counted(q)
  BY DEF TypeOK, RPC, CountInv
<1>1. CASE Starts(q)
  <2>1. Sending(q) = {} /\ Sending(q)' = {}
    BY <1>0, <1>1 DEF Starts, Counted
  <2>2. QED
    BY <1>0, <1>1, <2>1 DEF Starts, Counted, Samples, Ended, Attempting
<1>2. CASE AttemptBegins(q)
  <2>1. Sending(q) = {} /\ Sending(q)' = {}
    BY <1>2 DEF AttemptBegins
  <2>2. QED
    BY <1>0, <1>2, <2>1 DEF AttemptBegins, Kept, Counted, Samples, Ended, Attempting
<1>3. CASE AttemptEnds(q)
  <2>1. PICK status \in Statuses :
          /\ Attempting(q) /\ Kept(q) /\ rpc'[q].attempts = rpc[q].attempts
          /\ rpc'[q].phase \in {"retrying", "over"}
          /\ durations'[q] = durations[q]
          /\ Sending(q)' = IF rpc[q].ctx = "live"
                           THEN Sending(q) \cup {EndSample(q, status)} ELSE Sending(q)
    BY <1>3 DEF AttemptEnds
  <2>2. /\ Sending(q) = {} /\ rpc[q].attempts > 0 /\ Samples(q) = Len(durations[q])
        /\ Ended(q) = rpc[q].attempts - 1 /\ Ended(q)' = rpc[q].attempts
    <3>1. Sending(q) = {} /\ rpc[q].attempts > 0
      BY <1>0, <2>1 DEF Counted, Attempting
    <3>2. ~Attempting(q)' /\ Samples(q) = Len(durations[q]) + 0
      BY <2>1, <3>1 DEF Attempting, Samples
    <3>3. Ended(q) = rpc[q].attempts - 1 /\ Ended(q)' = rpc[q].attempts - 0
      BY <2>1, <3>2 DEF Ended
    <3>4. QED
      BY <1>0, <3>1, <3>2, <3>3
  <2>3. CASE rpc[q].ctx = "live"
    <3>1. Sending(q)' = {EndSample(q, status)}
      BY <2>1, <2>2, <2>3
    <3>2. Sending(q)' # {} /\ \A s, t \in Sending(q)' : s = t
      BY <3>1
    <3>3. Samples(q)' = Len(durations[q]) + 1
      BY <2>1, <3>2 DEF Samples
    <3>4. QED
      BY <1>0, <2>1, <2>2, <2>3, <3>2, <3>3 DEF Counted, Kept, Attempting
  <2>4. CASE rpc[q].ctx # "live"
    <3>1. Sending(q)' = {}
      BY <2>1, <2>2, <2>4
    <3>2. Samples(q)' = Len(durations[q])
      <4>1. Samples(q)' = Len(durations[q]) + 0
        BY <2>1, <3>1 DEF Samples
      <4>2. QED
        BY <1>0, <4>1
    <3>3. QED
      BY <1>0, <2>1, <2>2, <2>4, <3>1, <3>2 DEF Counted, Kept, Attempting
  <2>5. QED
    BY <2>3, <2>4
<1>4. CASE Refused(q)
  <2>1. Sending(q) = {} /\ Sending(q)' = {}
    BY <1>4 DEF Refused
  <2>2. QED
    BY <1>0, <1>4, <2>1 DEF Refused, Kept, Counted, Samples, Ended, Attempting
<1>5. CASE Taken(q)
  <2>1. PICK s \in Sending(q) : /\ Sending(q)' = Sending(q) \ {s}
                                /\ durations'[q] = Append(durations[q], s.tags)
    BY <1>5 DEF Taken
  <2>2. Sending(q)' = {} /\ Sending(q) # {} /\ s.tags \in Tags
    BY <1>0, <2>1 DEF Counted, Sending, TypeOK, Push
  <2>3. Len(durations'[q]) = Len(durations[q]) + 1
    BY <1>0, <2>1, <2>2
  <2>4. Samples(q)' = Samples(q) /\ Ended(q)' = Ended(q)
    <3>1. Samples(q) = Len(durations[q]) + 1 /\ Samples(q)' = Len(durations'[q]) + 0
      BY <2>2 DEF Samples
    <3>2. Ended(q)' = Ended(q)
      BY <1>5 DEF Taken, Ended, Attempting
    <3>3. QED
      BY <1>0, <2>3, <3>1, <3>2
  <2>5. rpc[q].phase \in {"retrying", "over"}
    BY <1>0, <2>2 DEF Counted
  <2>6. QED
    BY <1>0, <1>5, <2>2, <2>4, <2>5 DEF Counted, Taken, Attempting
<1>6. CASE Stays(q)
  <2>1. Samples(q)' = Samples(q)
    BY <1>6 DEF Stays, Samples
  <2>2. Attempting(q)' <=> Attempting(q)
    BY <1>6 DEF Stays, Attempting
  <2>3. rpc'[q].phase = rpc[q].phase \/ (Attempting(q) /\ Sending(q) = {})
    BY <1>0, <1>6 DEF Stays, Counted, Attempting
  <2>4. Ended(q)' = Ended(q)
    BY <1>6, <2>2 DEF Stays, Ended
  <2>5. /\ Sending(q)' = Sending(q) /\ rpc'[q].attempts = rpc[q].attempts
        /\ durations'[q] = durations[q]
        /\ rpc'[q].ctx = "live" => rpc[q].ctx = "live"
    BY <1>6 DEF Stays
  <2>6. rpc'[q].phase \in {"unused", "asked"} => rpc[q].phase = rpc'[q].phase
    BY <1>6 DEF Stays
  <2>7. /\ Samples(q)' <= Ended(q)'
        /\ rpc'[q].ctx = "live" => Samples(q)' = Ended(q)'
    BY <1>0, <2>1, <2>4, <2>5 DEF Counted
  <2>8. /\ rpc'[q].phase = "unused" => durations'[q] = <<>>
        /\ rpc'[q].phase \in {"unused", "asked"} => rpc'[q].attempts = 0
        /\ Attempting(q)' => rpc'[q].attempts > 0
    BY <1>0, <2>2, <2>5, <2>6 DEF Counted
  <2>9. /\ Sending(q)' # {} => rpc'[q].phase \in {"retrying", "over"}
        /\ \A s, t \in Sending(q)' : s = t
    BY <1>0, <2>3, <2>5 DEF Counted
  <2>10. QED
    BY <2>7, <2>8, <2>9 DEF Counted
<1>7. QED
  BY <1>1, <1>2, <1>3, <1>4, <1>5, <1>6, Steps

LEMMA Counts == Spec => []CountInv
  BY CountInit, CountStep, TypeCorrect, PTL DEF Spec

\* Each attempt of an RPC that has ended gives one duration sample, however many
\* retries there are, unless its context is done (HandleRPC of conn.go).
THEOREM SampleForEach == Spec => []OneSampleEach
<1>1. CountInv => OneSampleEach
  BY SendingIsPush DEF CountInv, Counted, Ended, Samples, OneSampleEach
<1>2. QED
  BY <1>1, Counts, PTL

-----------------------------------------------------------------------------
(* Who waits for an RPC *)

\* The event loop waits for an RPC of invoke until it is over, and in connect while
\* a reflection is live, so that the tags of the VU are still those of the beginning.
CallWaits(q) ==
    /\ rpc[q].kind \in {"unary", "reflection"} /\ Running(q)
    /\ rpc[q].kind = "unary" \/ rpc[q].ctx = "live"
    => /\ rpc[q].vu = vuTags
       /\ \/ js = "crashed"
          \/ waits = q /\ js = IF rpc[q].kind = "unary" THEN "invoking" ELSE "reflecting"

WaitsInv ==
    /\ \A q \in RPCs : CallWaits(q)
    /\ js = "invoking" => rpc[waits].kind = "unary"

LEMMA WaitsInit == Init => WaitsInv
  BY DEF Init, WaitsInv, CallWaits, Running, Attempting

\* An RPC that begins is the script's doing.
LEMMA StartIsScript ==
    ASSUME TypeOK, NEW q \in RPCs, Starts(q), [Next]_vars
    PROVE  /\ Script(q) /\ waits' = q /\ vuTags' = vuTags
           /\ rpc'[q].kind = "unary" => js' = "invoking"
           /\ rpc'[q].kind = "reflection" => js' = "reflecting"
           /\ rpc'[q].kind = "stream" => js' = "opening"
<1>1. /\ rpc[q].phase = "unused" /\ rpc'[q].phase = "asked" /\ vuTags' = vuTags
      /\ rpc'[q] # rpc[q]
  BY DEF Starts
<1>2. ~Stays(q) /\ ~AttemptBegins(q) /\ ~AttemptEnds(q) /\ ~Refused(q) /\ ~Taken(q)
  BY <1>1 DEF Stays, AttemptBegins, AttemptEnds, Refused, Taken, Attempting
<1>3. PICK r \in RPCs : Script(r)
  BY <1>2, OtherStep, AttemptStep, OutHeaderStep, RetryStep, EndRPCStep, RefuseStep, TakenStep,
     ReturnStep, StreamingStep DEF Next, Network
<1>4. CurrentTags \in Tags /\ CallTags(r) \in Tags
  BY TagTypes
<1>5. CASE Reflect(r)
  BY <1>1, <1>3, <1>4, <1>5, StartRpc DEF Reflect
<1>6. CASE Invoke(r)
  BY <1>1, <1>3, <1>4, <1>6, StartRpc DEF Invoke
<1>7. CASE NewStream(r)
  BY <1>1, <1>3, <1>4, <1>7, StartRpc DEF NewStream
<1>8. QED
  BY <1>3, <1>5, <1>6, <1>7 DEF Script

\* While it waits for an RPC that is not over, and live in connect, it goes on waiting.
LEMMA WaitGoesOn ==
    ASSUME TypeOK, NEW q \in RPCs, [Next]_vars, Running(q), waits = q,
           \/ js = "invoking"
           \/ js = "reflecting" /\ rpc'[q].ctx = "live" /\ Running(q)'
    PROVE  vuTags' = vuTags /\ (UNCHANGED <<js, waits>> \/ js' = "crashed")
<1>1. ASSUME NEW r \in RPCs, ReadMessage(r)
      PROVE  vuTags' = vuTags /\ (UNCHANGED <<js, waits>> \/ js' = "crashed")
  BY <1>1 DEF ReadMessage, Read, Forward
<1>2. ~InvokeReturns
  BY DEF InvokeReturns, Running, Attempting
<1>3. ~ReflectReturns
  <2>1. ASSUME ReflectReturns PROVE FALSE
    <3>1. js = "reflecting" /\ Done(q, "Canceled")
      BY <2>1 DEF ReflectReturns
    <3>2. QED
      BY <3>1, DoneRpc
  <2>2. QED
    BY <2>1
<1>4. QED
  BY <1>1, <1>2, <1>3 DEF Next, Network, Attempt, OutHeader, Retry, EndRPC, Refuse, Deadline,
     Script, Reflect, Invoke, NewStream, Return, StreamOpens, StreamBegins, StreamFails,
     Streaming, MessageSent, ReadEnd, StreamCloses, SetVUTags, Interrupt, SampleTaken,
     stateVars, vars

LEMMA CallWaitsStep ==
    ASSUME TypeOK, NEW q \in RPCs, CallWaits(q), [Next]_vars
    PROVE  CallWaits(q)'
<1> SUFFICES ASSUME rpc'[q].kind \in {"unary", "reflection"}, Running(q)',
                    rpc'[q].kind = "unary" \/ rpc'[q].ctx = "live"
             PROVE  /\ rpc'[q].vu = vuTags'
                    /\ \/ js' = "crashed"
                       \/ /\ waits' = q
                          /\ js' = IF rpc'[q].kind = "unary" THEN "invoking" ELSE "reflecting"
  BY DEF CallWaits
<1>1. CASE /\ Running(q) /\ rpc'[q].kind = rpc[q].kind /\ rpc'[q].vu = rpc[q].vu
           /\ rpc'[q].ctx = "live" => rpc[q].ctx = "live"
  <2>1. /\ rpc[q].vu = vuTags
        /\ \/ js = "crashed"
           \/ waits = q /\ js = IF rpc[q].kind = "unary" THEN "invoking" ELSE "reflecting"
    BY <1>1 DEF CallWaits
  <2>2. CASE js = "crashed"
    BY <1>1, <2>1, <2>2 DEF Next, vars, stateVars
  <2>3. CASE js # "crashed"
    BY <1>1, <2>1, <2>3, WaitGoesOn
  <2>4. QED
    BY <2>2, <2>3
<1>2. CASE Starts(q)
  BY <1>2, StartIsScript DEF Starts
<1>3. CASE AttemptBegins(q) \/ AttemptEnds(q)
  BY <1>1, <1>3 DEF AttemptBegins, AttemptEnds, Kept, Running
<1>4. CASE Refused(q)
  BY <1>4 DEF Refused, Running, Attempting
<1>5. CASE Taken(q)
  BY <1>1, <1>5 DEF Taken, Running, Attempting
<1>6. CASE Stays(q)
  <2>1. Running(q)
    BY <1>6 DEF Stays, Running, Attempting
  <2>2. QED
    BY <1>1, <1>6, <2>1 DEF Stays
<1>7. QED
  BY <1>2, <1>3, <1>4, <1>5, <1>6, Steps

LEMMA WaitsStep ==
    ASSUME TypeOK, WaitsInv, [Next]_vars
    PROVE  WaitsInv'
<1>1. \A q \in RPCs : CallWaits(q)'
  BY CallWaitsStep DEF WaitsInv
<1>2. ASSUME js' = "invoking" PROVE rpc'[waits'].kind = "unary"
  <2>1. ASSUME NEW r \in RPCs, ReadMessage(r)
        PROVE  UNCHANGED <<js, waits>> \/ js' = "crashed"
    BY <2>1 DEF ReadMessage, Read, Forward
  <2>2. (js = "invoking" /\ waits' = waits) \/ \E r \in RPCs : Invoke(r)
    BY <1>2, <2>1 DEF Next, Network, Attempt, OutHeader, Retry, EndRPC, Refuse, Deadline,
       Script, Reflect, NewStream, Return, ReflectReturns, InvokeReturns, StreamOpens,
       StreamBegins, StreamFails, Streaming, MessageSent, ReadEnd, StreamCloses, SetVUTags,
       Interrupt, SampleTaken, stateVars, vars
  <2>3. CASE js = "invoking" /\ waits' = waits
    <3>1. waits \in RPCs /\ rpc[waits].kind = "unary"
      BY <2>3 DEF TypeOK, WaitsInv
    <3>2. CASE Starts(waits)
      BY <2>3, <3>1, <3>2, StartIsScript DEF Script, Reflect, Invoke, NewStream
    <3>3. QED
      BY <2>3, <3>1, <3>2, Steps
         DEF AttemptBegins, AttemptEnds, Refused, Taken, Stays, Kept
  <2>4. ASSUME NEW r \in RPCs, Invoke(r) PROVE rpc'[waits'].kind = "unary"
    BY <2>4, TagTypes, StartRpc DEF Invoke
  <2>5. QED
    BY <2>2, <2>3, <2>4
<1>3. QED
  BY <1>1, <1>2 DEF WaitsInv

LEMMA Waits == Spec => []WaitsInv
  BY WaitsInit, WaitsStep, TypeCorrect, PTL DEF Spec

-----------------------------------------------------------------------------
(* The status of the last sample *)

\* An RPC of invoke that is over has the status of its last sample, if it could be
\* sent and there was an attempt; a retry grpc-go gives up would have another one, but
\* not while its context is live and the thread waits for it.
LastStatus(q) ==
    /\ rpc[q].kind = "unary" /\ rpc[q].phase = "over" /\ rpc[q].ctx = "live"
    /\ rpc[q].attempts > 0 /\ "status" \in SystemTags
    => /\ Sending(q) = {} => durations[q][Len(durations[q])].status = rpc[q].status
       /\ \A s \in Sending(q) : s.tags.status = rpc[q].status

StatusInv == \A q \in RPCs : LastStatus(q)

LEMMA StatusStep ==
    ASSUME TypeOK, CountInv, WaitsInv, StatusInv, [Next]_vars
    PROVE  StatusInv'
<1> SUFFICES ASSUME NEW q \in RPCs PROVE LastStatus(q)'
  BY DEF StatusInv
<1>0. /\ rpc[q].attempts \in Nat /\ durations[q] \in Seq(Tags)
      /\ Counted(q) /\ LastStatus(q) /\ CallWaits(q)
  BY DEF TypeOK, RPC, CountInv, StatusInv, WaitsInv
<1>1. CASE Starts(q) \/ AttemptBegins(q)
  BY <1>1 DEF Starts, AttemptBegins, LastStatus
<1>2. CASE AttemptEnds(q)
  <2>1. PICK status \in Statuses :
          /\ Attempting(q) /\ Kept(q)
          /\ rpc'[q].phase = "retrying" \/ rpc'[q].status = status
          /\ Sending(q)' = IF rpc[q].ctx = "live"
                           THEN Sending(q) \cup {EndSample(q, status)} ELSE Sending(q)
    BY <1>2 DEF AttemptEnds
  <2>2. Sending(q) = {}
    BY <1>0, <2>1 DEF Counted, Attempting
  <2>3. "status" \in SystemTags => EndSample(q, status).tags.status = status
    <3>1. EventTags(q) \in Tags
      BY TagTypes
    <3>2. QED
      BY <3>1 DEF EndSample, EndTags, WithStatus, Tags
  <2>4. QED
    BY <2>1, <2>2, <2>3 DEF LastStatus, Kept
<1>3. CASE Refused(q)
  <2>1. CASE rpc[q].phase = "asked"
    BY <1>0, <1>3, <2>1 DEF Refused, Counted, LastStatus
  <2>2. CASE js = "crashed"
    BY <1>0, <2>2 DEF Next, vars, sampleVars, LastStatus, Sending
  <2>3. CASE rpc[q].phase = "retrying" /\ js # "crashed"
    <3>1. Running(q) /\ Kept(q) /\ (rpc[q].ctx = "live" => waits # q)
      BY <1>3, <2>3 DEF Refused, Running
    <3>2. ~(rpc[q].kind = "unary" /\ rpc[q].ctx = "live")
      BY <1>0, <2>3, <3>1 DEF CallWaits
    <3>3. QED
      BY <3>1, <3>2 DEF LastStatus, Kept
  <2>4. QED
    BY <1>3, <2>1, <2>2, <2>3 DEF Refused
<1>4. CASE Taken(q)
  <2>1. PICK s \in Sending(q) : /\ Sending(q)' = Sending(q) \ {s}
                                /\ durations'[q] = Append(durations[q], s.tags)
    BY <1>4 DEF Taken
  <2>2. Sending(q)' = {} /\ s.tags \in Tags
    BY <1>0, <2>1 DEF Counted, Sending, TypeOK, Push
  <2>3. durations'[q][Len(durations'[q])] = s.tags
    BY <1>0, <2>1, <2>2
  <2>4. QED
    BY <1>0, <1>4, <2>2, <2>3 DEF Taken, LastStatus
<1>5. CASE Stays(q)
  BY <1>0, <1>5 DEF Stays, LastStatus, Running, Attempting
<1>6. QED
  BY <1>1, <1>2, <1>3, <1>4, <1>5, Steps

LEMMA LastStatuses == Spec => []StatusInv
<1>1. Init => StatusInv
  BY DEF Init, StatusInv, LastStatus
<1>2. QED
  BY <1>1, StatusStep, TypeCorrect, Counts, Waits, PTL DEF Spec

-----------------------------------------------------------------------------
(* Whose sample it is *)

\* The tags of a call: those of its beginning, and an address it went out to.
Own(q, t) ==
    /\ t.vu = rpc[q].vu
    /\ t.call = IF rpc[q].kind = "unary" THEN q ELSE NoRPC
    /\ t.ip \in rpc[q].peers \cup {NoIP}

OwnInv == \A q \in RPCs :
    /\ rpc[q].phase # "unused" /\ rpc[q].kind # "reflection" => Own(q, tags[q])
    /\ \A s \in Sending(q) : Own(q, s.tags)
    /\ \A i \in DOMAIN durations[q] : Own(q, durations[q][i])

LEMMA OwnInit == Init => OwnInv
  BY DEF Init, OwnInv, Sending

\* The tags of the end of an attempt belong to the RPC as those before did.
LEMMA EndTagsOwn ==
    ASSUME TypeOK, NEW q \in RPCs, NEW status \in Statuses, Own(q, EventTags(q))
    PROVE  Own(q, EndTags(q, status))
<1>1. EventTags(q) \in Tags
  BY TagTypes
<1>2. /\ EndTags(q, status).vu = EventTags(q).vu /\ EndTags(q, status).ip = EventTags(q).ip
      /\ EndTags(q, status).call = EventTags(q).call
  BY <1>1 DEF EndTags, WithStatus, Tags
<1>3. QED
  BY <1>2 DEF Own

\* The tags an event of a live RPC begins with are its own.
LEMMA EventTagsOwn ==
    ASSUME TypeOK, OwnInv, WaitsInv, NEW q \in RPCs, Attempting(q),
           rpc[q].ctx = "live" \/ rpc[q].kind # "reflection"
    PROVE  Own(q, EventTags(q))
<1>1. CASE rpc[q].kind = "reflection"
  <2>1. rpc[q].vu = vuTags
    BY <1>1 DEF WaitsInv, CallWaits, Running
  <2>2. QED
    BY <1>1, <2>1 DEF EventTags, CurrentTags, Own
<1>2. CASE rpc[q].kind # "reflection"
  BY <1>2 DEF EventTags, OwnInv, Attempting
<1>3. QED
  BY <1>1, <1>2

LEMMA OwnStep ==
    ASSUME TypeOK, CountInv, WaitsInv, OwnInv, [Next]_vars
    PROVE  OwnInv'
<1> SUFFICES ASSUME NEW q \in RPCs
             PROVE  /\ rpc'[q].phase # "unused" /\ rpc'[q].kind # "reflection"
                            => Own(q, tags[q])'
                    /\ \A s \in Sending(q)' : Own(q, s.tags)'
                    /\ \A i \in DOMAIN durations'[q] : Own(q, durations[q][i])'
  BY DEF OwnInv
<1>0. durations[q] \in Seq(Tags) /\ tags[q] \in Tags /\ Counted(q)
  BY DEF TypeOK, CountInv
<1>1. CASE Starts(q)
  <2>1. durations'[q] = <<>> /\ Sending(q)' = {}
    BY <1>0, <1>1 DEF Starts, Counted
  <2>2. /\ tags'[q].vu = vuTags /\ tags'[q].ip = NoIP
        /\ tags'[q].call = IF rpc'[q].kind = "unary" THEN q ELSE NoRPC
    BY <1>1 DEF Starts, CallTags, CurrentTags
  <2>3. QED
    BY <1>1, <2>1, <2>2 DEF Starts, Own
<1>2. CASE AttemptEnds(q)
  <2>1. PICK status \in Statuses :
          /\ Attempting(q) /\ Kept(q) /\ durations'[q] = durations[q]
          /\ tags'[q] = IF rpc[q].kind = "reflection" THEN tags[q] ELSE EndTags(q, status)
          /\ Sending(q)' = IF rpc[q].ctx = "live"
                           THEN Sending(q) \cup {EndSample(q, status)} ELSE Sending(q)
    BY <1>2 DEF AttemptEnds
  <2>2. rpc[q].ctx = "live" \/ rpc[q].kind # "reflection" => Own(q, EndTags(q, status))
    BY <2>1, EventTagsOwn, EndTagsOwn
  <2>3. \A t : Own(q, t)' <=> Own(q, t)
    BY <2>1 DEF Own, Kept
  <2>4. \A s \in Sending(q)' : Own(q, s.tags)
    BY <2>1, <2>2 DEF EndSample, OwnInv
  <2>5. rpc'[q].phase # "unused" /\ rpc'[q].kind # "reflection" => Own(q, tags'[q])
    BY <2>1, <2>2 DEF Kept
  <2>6. QED
    BY <2>1, <2>3, <2>4, <2>5 DEF OwnInv, Own
<1>3. CASE AttemptBegins(q) \/ Refused(q)
  <2>1. /\ Kept(q) /\ tags'[q] = tags[q] /\ durations'[q] = durations[q]
        /\ Sending(q)' = Sending(q) /\ rpc[q].phase # "unused"
    BY <1>3 DEF AttemptBegins, Refused
  <2>2. QED
    BY <2>1 DEF OwnInv, Own, Kept
<1>4. CASE Taken(q)
  <2>1. PICK s \in Sending(q) : /\ rpc'[q] = rpc[q] /\ tags'[q] = tags[q]
                                /\ Sending(q)' = Sending(q) \ {s}
                                /\ durations'[q] = Append(durations[q], s.tags)
    BY <1>4 DEF Taken
  <2> DEFINE t == s.tags
  <2>2. t \in Tags /\ Own(q, t)
    BY <2>1 DEF Sending, TypeOK, Push, OwnInv
  <2> HIDE DEF t
  <2>3. \A i \in DOMAIN durations'[q] :
            \/ durations'[q][i] = t
            \/ i \in DOMAIN durations[q] /\ durations'[q][i] = durations[q][i]
    <3>1. durations'[q] = Append(durations[q], t)
      BY <2>1 DEF t
    <3>2. durations'[q] \in Seq(Tags) /\ Len(durations'[q]) = Len(durations[q]) + 1
      BY <1>0, <2>2, <3>1
    <3>3. /\ DOMAIN durations'[q] = 1..(Len(durations[q]) + 1)
          /\ DOMAIN durations[q] = 1..Len(durations[q]) /\ Len(durations[q]) \in Nat
      BY <1>0, <3>2
    <3>4. /\ durations'[q][Len(durations[q]) + 1] = t
          /\ \A i \in 1..Len(durations[q]) : durations'[q][i] = durations[q][i]
      BY <1>0, <2>2, <3>1
    <3>5. ASSUME NEW i \in DOMAIN durations'[q]
          PROVE  i = Len(durations[q]) + 1 \/ i \in 1..Len(durations[q])
      BY <3>3
    <3>6. QED
      BY <3>3, <3>4, <3>5
  <2>4. \A i \in DOMAIN durations'[q] : Own(q, durations[q][i])'
    BY <2>1, <2>2, <2>3 DEF Own, OwnInv
  <2>5. QED
    BY <2>1, <2>4 DEF Own, OwnInv
<1>5. CASE Stays(q)
  <2>1. /\ \A s \in Sending(q)' : Own(q, s.tags)'
        /\ \A i \in DOMAIN durations'[q] : Own(q, durations[q][i])'
    BY <1>5 DEF Stays, Own, OwnInv
  <2>2. ASSUME rpc'[q].phase # "unused", rpc'[q].kind # "reflection" PROVE Own(q, tags[q])'
    <3>1. Own(q, tags[q]) /\ rpc[q].kind # "reflection"
      BY <1>5, <2>2 DEF Stays, OwnInv, Attempting
    <3>2. CASE tags'[q] = tags[q]
      BY <1>5, <3>1, <3>2 DEF Stays, Own
    <3>3. ASSUME NEW ip \in rpc'[q].peers, tags'[q] = [tags[q] EXCEPT !.ip = ip]
          PROVE  Own(q, tags[q])'
      <4>1. tags'[q].vu = tags[q].vu /\ tags'[q].call = tags[q].call /\ tags'[q].ip = ip
        BY <1>0, <3>3 DEF Tags
      <4>2. QED
        BY <1>5, <3>1, <4>1 DEF Stays, Own
    <3>4. QED
      BY <1>5, <3>1, <3>2, <3>3 DEF Stays, EventTags
  <2>3. QED
    BY <2>1, <2>2
<1>6. QED
  BY <1>1, <1>2, <1>3, <1>4, <1>5, Steps

LEMMA Owns == Spec => []OwnInv
  BY OwnInit, OwnStep, TypeCorrect, Counts, Waits, PTL DEF Spec

\* No sample is tagged as another call's, or with what the VU's tags have become
\* meanwhile, whatever RPCs run at once and however often they are retried
\* (HandleRPC of conn.go).
THEOREM SamplesOwn == Spec => []SampleIsOwn
<1>1. OwnInv => SampleIsOwn
  BY DEF OwnInv, Own, SampleIsOwn
<1>2. QED
  BY <1>1, Owns, PTL

-----------------------------------------------------------------------------
(* The counters of streams *)

StreamInv ==
    /\ js \in {"opening", "counting"} => rpc[waits].kind = "stream"
    /\ \A s \in pushing : s.by # "handler" =>
            rpc[s.rpc].kind = "stream" /\ s.tags = streamTags[s.rpc]
    /\ \A q \in RPCs :
        /\ rpc[q].phase = "unused" => rpc[q].kind = "none"
        /\ reading[q] \/ counted[q] # {} => rpc[q].kind = "stream"
        /\ rpc[q].kind = "stream" => streamTags[q] =
                [vu |-> rpc[q].vu, call |-> q, ip |-> NoIP, status |-> "none"]
        /\ \A t \in counted[q] : t = streamTags[q]

LEMMA StreamInit == Init => StreamInv
  BY DEF Init, StreamInv

\* A sample of a stream's counters has the stream's tags.
LEMMA CountEffect ==
    ASSUME NEW r, NEW by, Count(r, by)
    PROVE  \A s \in pushing' : s \in pushing \/ (s.rpc = r /\ s.tags = streamTags[r])
  BY DEF Count, StreamTags, PushIfNotDone

\* What a step keeps of an RPC that does not begin.
LEMMA KindKept ==
    ASSUME NEW q \in RPCs,
           AttemptBegins(q) \/ AttemptEnds(q) \/ Refused(q) \/ Taken(q) \/ Stays(q)
    PROVE  /\ rpc'[q].kind = rpc[q].kind /\ rpc'[q].vu = rpc[q].vu
           /\ rpc'[q].phase = "unused" => rpc[q].phase = "unused"
  BY DEF AttemptBegins, AttemptEnds, Refused, Taken, Stays, Kept, Attempting

LEMMA StreamStep ==
    ASSUME TypeOK, StreamInv, [Next]_vars
    PROVE  StreamInv'
<1> USE DEF stateVars, sampleVars
<1>0. /\ \A q \in RPCs : /\ rpc[q].kind = "stream" => rpc[q].phase # "unused"
                         /\ rpc[q].phase = "unused" => counted[q] = {} /\ ~reading[q]
      /\ \A s \in pushing : s.rpc \in RPCs
  BY DEF StreamInv, TypeOK, Push
<1>1. ASSUME UNCHANGED streamTags,
             \A q \in RPCs : ~Starts(q),
             js' \in {"opening", "counting"} =>
                    js \in {"opening", "counting"} /\ waits' = waits,
             \A s \in pushing' : \/ s \in pushing \/ s.by = "handler"
                                 \/ /\ s.rpc \in RPCs /\ rpc[s.rpc].kind = "stream"
                                    /\ s.tags = streamTags[s.rpc],
             \A q \in RPCs : counted'[q] # counted[q] =>
                    rpc[q].kind = "stream" /\ counted'[q] = counted[q] \cup {streamTags[q]},
             \A q \in RPCs : reading'[q] => reading[q] \/ rpc[q].kind = "stream"
      PROVE  StreamInv'
  <2>1. \A q \in RPCs : /\ rpc'[q].kind = rpc[q].kind /\ rpc'[q].vu = rpc[q].vu
                        /\ rpc'[q].phase = "unused" => rpc[q].phase = "unused"
    BY <1>1, Steps, KindKept
  <2>2. js' \in {"opening", "counting"} => rpc'[waits'].kind = "stream"
    <3>1. js' \in {"opening", "counting"} => waits \in RPCs
      BY <1>1 DEF TypeOK
    <3>2. QED
      BY <1>1, <2>1, <3>1 DEF StreamInv
  <2>3. \A s \in pushing' : s.by # "handler" =>
            rpc'[s.rpc].kind = "stream" /\ s.tags = streamTags'[s.rpc]
    BY <1>0, <1>1, <2>1 DEF StreamInv
  <2>4. ASSUME NEW q \in RPCs
        PROVE  /\ rpc'[q].phase = "unused" => rpc'[q].kind = "none"
               /\ reading'[q] \/ counted'[q] # {} => rpc'[q].kind = "stream"
               /\ rpc'[q].kind = "stream" => streamTags'[q] =
                            [vu |-> rpc'[q].vu, call |-> q, ip |-> NoIP, status |-> "none"]
               /\ \A t \in counted'[q] : t = streamTags'[q]
    BY <1>1, <2>1 DEF StreamInv
  <2>5. QED
    BY <2>2, <2>3, <2>4 DEF StreamInv
<1>2. ASSUME NEW r \in RPCs, Script(r) PROVE StreamInv'
  <2>0. CurrentTags \in Tags /\ CallTags(r) \in Tags
    BY TagTypes
  <2>1. PICK kind \in {"unary", "stream", "reflection"}, timed \in BOOLEAN :
          /\ Start(r, kind, timed, IF kind = "unary" THEN CallTags(r) ELSE CurrentTags)
          /\ js' \in {"opening", "counting"} => kind = "stream"
          /\ streamTags' = IF kind = "stream" THEN [streamTags EXCEPT ![r] = CallTags(r)]
                           ELSE streamTags
          /\ UNCHANGED <<pushing, counted, reading>>
    BY <1>2 DEF Script, Reflect, Invoke, NewStream
  <2> DEFINE t == IF kind = "unary" THEN CallTags(r) ELSE CurrentTags
  <2>2. t \in Tags /\ Start(r, kind, timed, t)
    BY <2>0, <2>1
  <2> HIDE DEF t
  <2>3. /\ \A p \in RPCs : p # r => rpc'[p] = rpc[p]
        /\ rpc[r].phase = "unused" /\ rpc'[r].kind = kind /\ rpc'[r].phase = "asked"
        /\ rpc'[r].vu = vuTags /\ waits' = r
    BY <2>2, StartRpc
  <2>4. streamTags \in [RPCs -> Tags]
    BY DEF TypeOK
  <2>5. CallTags(r) = [vu |-> vuTags, call |-> r, ip |-> NoIP, status |-> "none"]
    BY DEF CallTags, CurrentTags
  <2>6. ASSUME NEW s \in pushing', s.by # "handler"
        PROVE  rpc'[s.rpc].kind = "stream" /\ s.tags = streamTags'[s.rpc]
    <3>1. s.rpc \in RPCs /\ rpc[s.rpc].kind = "stream" /\ s.tags = streamTags[s.rpc]
      BY <1>0, <2>1, <2>6 DEF StreamInv
    <3>2. s.rpc # r
      BY <1>0, <2>3, <3>1
    <3>3. QED
      BY <2>1, <2>3, <2>4, <3>1, <3>2
  <2> SUFFICES ASSUME NEW q \in RPCs
               PROVE  /\ rpc'[q].phase = "unused" => rpc'[q].kind = "none"
                      /\ reading'[q] \/ counted'[q] # {} => rpc'[q].kind = "stream"
                      /\ rpc'[q].kind = "stream" => streamTags'[q] =
                            [vu |-> rpc'[q].vu, call |-> q, ip |-> NoIP, status |-> "none"]
                      /\ \A x \in counted'[q] : x = streamTags'[q]
    BY <2>1, <2>3, <2>6 DEF StreamInv
  <2>7. CASE q # r
    BY <2>1, <2>3, <2>4, <2>7 DEF StreamInv
  <2>8. CASE q = r
    <3>1. counted'[q] = {} /\ ~reading'[q]
      BY <1>0, <2>1, <2>3, <2>8
    <3>2. QED
      BY <2>1, <2>3, <2>4, <2>5, <2>8, <3>1
  <2>9. QED
    BY <2>7, <2>8
<1>a. ASSUME \A r \in RPCs : ~Script(r) PROVE \A q \in RPCs : ~Starts(q)
  BY <1>a, StartIsScript
<1>3. ASSUME NEW r \in RPCs, Network(r), \A q \in RPCs : ~Starts(q) PROVE StreamInv'
  <2>1. UNCHANGED <<js, waits, streamTags, counted, reading>>
    BY <1>3 DEF Network, Attempt, OutHeader, Retry, EndRPC, Refuse, Deadline
  <2>2. \A s \in pushing' : s \in pushing \/ s.by = "handler"
    BY <1>3 DEF Network, Attempt, OutHeader, Retry, EndRPC, Refuse, Deadline, HandleEnd,
       Measure, PushIfNotDone
  <2>3. QED
    BY <1>1, <1>3, <2>1, <2>2
<1>4. ASSUME Return, \A q \in RPCs : ~Starts(q) PROVE StreamInv'
  <2>1. UNCHANGED <<streamTags, counted>>
    BY <1>4 DEF Return, ReflectReturns, InvokeReturns, StreamOpens, StreamBegins, StreamFails
  <2>2. CASE StreamOpens
    <3>1. /\ waits \in RPCs /\ rpc[waits].kind = "stream" /\ Count(waits, "js")
          /\ js = "opening" /\ UNCHANGED <<waits, reading>>
      BY <2>2 DEF StreamOpens, StreamInv, TypeOK
    <3>2. \A s \in pushing' : \/ s \in pushing
                              \/ /\ s.rpc \in RPCs /\ rpc[s.rpc].kind = "stream"
                                 /\ s.tags = streamTags[s.rpc]
      BY <3>1, CountEffect
    <3>3. QED
      BY <1>1, <1>4, <2>1, <3>1, <3>2
  <2>3. CASE StreamBegins
    <3>1. waits \in RPCs /\ rpc[waits].kind = "stream"
      BY <2>3 DEF StreamBegins, StreamInv, TypeOK
    <3>2. \A q \in RPCs : reading'[q] => reading[q] \/ rpc[q].kind = "stream"
      BY <2>3, <3>1 DEF StreamBegins, TypeOK
    <3>3. pushing' = pushing /\ js' = "script"
      BY <2>3 DEF StreamBegins
    <3>4. QED
      BY <1>1, <1>4, <2>1, <3>2, <3>3
  <2>4. CASE ~StreamBegins /\ ~StreamOpens
    <3>1. UNCHANGED <<pushing, reading>> /\ js' = "script"
      BY <1>4, <2>4 DEF Return, ReflectReturns, InvokeReturns, StreamFails
    <3>2. QED
      BY <1>1, <1>4, <2>1, <3>1
  <2>5. QED
    BY <2>2, <2>3, <2>4
<1>5. ASSUME NEW r \in RPCs, Streaming(r), \A q \in RPCs : ~Starts(q) PROVE StreamInv'
  <2>1. CASE MessageSent(r) \/ ReadEnd(r) \/ StreamCloses(r)
    <3>1. /\ UNCHANGED <<js, waits, streamTags, counted>>
          /\ (Count(r, "sender") /\ rpc[r].kind = "stream") \/ UNCHANGED pushing
          /\ reading' \in {reading, [reading EXCEPT ![r] = FALSE]}
      BY <2>1 DEF MessageSent, ReadEnd, StreamCloses
    <3>2. \A q \in RPCs : reading'[q] => reading[q]
      BY <3>1 DEF TypeOK
    <3>3. QED
      BY <1>1, <1>5, <3>1, <3>2, CountEffect
  <2>2. CASE ReadMessage(r)
    <3>1. /\ UNCHANGED <<streamTags, counted>> /\ rpc[r].kind = "stream"
          /\ UNCHANGED <<js, waits>> \/ js' = "crashed"
          /\ Count(r, "reader") \/ UNCHANGED pushing
          /\ reading' \in {reading, [reading EXCEPT ![r] = FALSE]}
      BY <2>2 DEF ReadMessage, Read, Forward, StreamInv
    <3>2. \A q \in RPCs : reading'[q] => reading[q]
      BY <3>1 DEF TypeOK
    <3>3. QED
      BY <1>1, <1>5, <3>1, <3>2, CountEffect
  <2>3. QED
    BY <1>5, <2>1, <2>2 DEF Streaming
<1>6. ASSUME SetVUTags \/ Interrupt \/ UNCHANGED vars, \A q \in RPCs : ~Starts(q)
      PROVE  StreamInv'
  <2>1. UNCHANGED <<js, waits, streamTags, counted, reading, pushing>>
    BY <1>6 DEF SetVUTags, Interrupt, vars
  <2>2. QED
    BY <1>1, <1>6, <2>1
<1>7. ASSUME NEW s \in pushing, SampleTaken(s), \A q \in RPCs : ~Starts(q) PROVE StreamInv'
  <2>1. /\ UNCHANGED <<js, waits, streamTags, reading>> /\ pushing' = pushing \ {s}
        /\ counted \in [RPCs -> SUBSET Tags]
        /\ \/ s.by = "handler" /\ counted' = counted
           \/ /\ s.by # "handler"
              /\ counted' = [counted EXCEPT ![s.rpc] = @ \cup {s.tags}]
    BY <1>7 DEF SampleTaken, TypeOK
  <2>2. s.by # "handler" => rpc[s.rpc].kind = "stream" /\ s.tags = streamTags[s.rpc]
    BY DEF StreamInv
  <2>3. \A q \in RPCs : counted'[q] # counted[q] =>
            rpc[q].kind = "stream" /\ counted'[q] = counted[q] \cup {streamTags[q]}
    BY <2>1, <2>2
  <2>4. QED
    BY <1>1, <1>7, <2>1, <2>3
<1>8. CASE \E r \in RPCs : Script(r)
  BY <1>2, <1>8
<1>9. CASE \A r \in RPCs : ~Script(r)
  BY <1>a, <1>3, <1>4, <1>5, <1>6, <1>7, <1>9 DEF Next
<1>10. QED
  BY <1>8, <1>9

LEMMA StreamTagging == Spec => []StreamInv
  BY StreamInit, StreamStep, TypeCorrect, PTL DEF Spec

\* All samples of a stream's three counters have the tags of its call, however the
\* stats handler's threads write to the state of its RPC (beginStream of stream.go).
THEOREM CountersAgree == Spec => []StreamSamplesAgree
<1>1. StreamInv => StreamSamplesAgree
  <2> SUFFICES ASSUME StreamInv, NEW r \in RPCs, NEW t \in counted[r]
               PROVE  t = [vu |-> rpc[r].vu, call |-> r, ip |-> NoIP, status |-> "none"]
    BY DEF StreamSamplesAgree
  <2>1. rpc[r].kind = "stream" /\ t = streamTags[r]
    BY DEF StreamInv
  <2>2. QED
    BY <2>1 DEF StreamInv
<1>2. QED
  BY <1>1, StreamTagging, PTL

-----------------------------------------------------------------------------
(* The end of the VU's context *)

\* With the VU's context, those of all its RPCs are done.
DoneInv == vuDone => \A q \in RPCs : Running(q) => rpc[q].ctx # "live"

LEMMA DoneInit == Init => DoneInv
  BY DEF Init, DoneInv

LEMMA DoneInvStep ==
    ASSUME TypeOK, DoneInv, [Next]_vars
    PROVE  DoneInv'
<1>1. CASE Interrupt
  <2>1. ASSUME NEW q \in RPCs, Running(q)' PROVE rpc'[q].ctx # "live"
    <3>1. rpc[q] \in RPC /\ rpc'[q].phase = rpc[q].phase
      BY <1>1, InterruptRpc DEF TypeOK, RPC
    <3>2. QED
      BY <1>1, <2>1, <3>1, InterruptRpc DEF Running, Attempting
  <2>2. QED
    BY <2>1 DEF DoneInv
<1>2. CASE ~Interrupt
  <2>1. vuDone' = vuDone
    BY <1>2 DEF Next, Network, Attempt, OutHeader, Retry, EndRPC, Refuse, Deadline, Script,
       Reflect, Invoke, NewStream, Return, ReflectReturns, InvokeReturns, StreamOpens,
       StreamBegins, StreamFails, Streaming, MessageSent, ReadMessage, ReadEnd, StreamCloses,
       SetVUTags, SampleTaken, stateVars, vars
  <2>2. ASSUME vuDone, NEW q \in RPCs, Running(q)' PROVE rpc'[q].ctx # "live"
    <3>1. CASE Starts(q)
      BY <2>2, <3>1 DEF Starts
    <3>2. CASE ~Starts(q)
      <4>1. Running(q) /\ (rpc'[q].ctx = "live" => rpc[q].ctx = "live")
        BY <2>2, <3>2, Steps DEF AttemptBegins, AttemptEnds, Refused, Taken, Stays, Kept,
           Running, Attempting
      <4>2. QED
        BY <2>2, <4>1 DEF DoneInv
    <3>3. QED
      BY <3>1, <3>2
  <2>3. QED
    BY <2>1, <2>2 DEF DoneInv
<1>3. QED
  BY <1>1, <1>2

LEMMA Dones == Spec => []DoneInv
  BY DoneInit, DoneInvStep, TypeCorrect, PTL DEF Spec

-----------------------------------------------------------------------------
(* The samples that are being sent *)

\* Each thread sends one sample at a time: the event loop only when a stream begins.
PushInv ==
    /\ \A s, t \in pushing : s.rpc = t.rpc /\ s.by = t.by => s = t
    /\ \A s \in pushing : s.by = "js" =>
            js = "crashed" \/ (js = "counting" /\ waits = s.rpc)

\* A thread that begins to send has not been sending, and its context is not done.
LEMMA PushStep ==
    ASSUME TypeOK, CountInv, PushInv, DoneInv, [Next]_vars
    PROVE  \/ pushing' \subseteq pushing
           \/ \E s \in Push : /\ pushing' = pushing \cup {s} /\ ~InPush(s.rpc, s.by)
                              /\ ~vuDone
                              /\ s.by = "js" => js' = "counting" /\ waits' = s.rpc
<1>1. ASSUME NEW r \in RPCs, NEW by \in {"js", "sender", "reader"}, Count(r, by),
             ~InPush(r, by), by = "js" => js' = "counting" /\ waits' = r
      PROVE  \/ pushing' \subseteq pushing
             \/ \E s \in Push : /\ pushing' = pushing \cup {s} /\ ~InPush(s.rpc, s.by)
                                /\ ~vuDone
                                /\ s.by = "js" => js' = "counting" /\ waits' = s.rpc
  <2>1. [rpc |-> r, by |-> by, tags |-> StreamTags(r)] \in Push
    BY TagTypes DEF Push
  <2>2. QED
    BY <1>1, <2>1 DEF Count, PushIfNotDone
<1>2. ASSUME NEW r \in RPCs, NEW status \in Statuses, Attempting(r), HandleEnd(r, status)
      PROVE  \/ pushing' \subseteq pushing
             \/ \E s \in Push : /\ pushing' = pushing \cup {s} /\ ~InPush(s.rpc, s.by)
                                /\ ~vuDone
                                /\ s.by = "js" => js' = "counting" /\ waits' = s.rpc
  <2> DEFINE s == EndSample(r, status)
  <2>1. s \in Push /\ s.rpc = r /\ s.by = "handler"
    BY TagTypes DEF Push, EndSample, EndTags
  <2>2. ~InPush(r, "handler")
    BY <1>2, SendingIsPush DEF CountInv, Counted, Attempting
  <2>3. vuDone => rpc[r].ctx # "live"
    BY <1>2 DEF DoneInv, Running
  <2>4. pushing' = IF rpc[r].ctx # "live" THEN pushing ELSE pushing \cup {s}
    BY <1>2 DEF HandleEnd, Measure, PushIfNotDone, EndSample, EndTags
  <2> HIDE DEF s
  <2>5. QED
    BY <2>1, <2>2, <2>3, <2>4
<1>3. ASSUME NEW r \in RPCs, Retry(r) \/ EndRPC(r)
      PROVE  Attempting(r) /\ \E status \in Statuses : HandleEnd(r, status)
  BY <1>3, EndStatusType DEF Retry, EndRPC, Attempting, Statuses
<1>4. CASE StreamOpens
  <2>1. waits \in RPCs /\ ~InPush(waits, "js") /\ Count(waits, "js")
    BY <1>4 DEF StreamOpens, TypeOK, PushInv, InPush
  <2>2. js' = "counting" /\ waits' = waits
    BY <1>4 DEF StreamOpens
  <2>3. QED
    BY <1>1, <2>1, <2>2
<1>5. ASSUME NEW r \in RPCs, MessageSent(r)
      PROVE  Count(r, "sender") /\ ~InPush(r, "sender")
  BY <1>5 DEF MessageSent
<1>6. ASSUME NEW r \in RPCs, ReadMessage(r)
      PROVE  pushing' = pushing \/ (Count(r, "reader") /\ ~InPush(r, "reader"))
  BY <1>6 DEF ReadMessage, Read, Forward
<1>7. ASSUME NEW s \in pushing, SampleTaken(s) PROVE pushing' \subseteq pushing
  BY <1>7 DEF SampleTaken
<1>8. CASE \/ pushing' \subseteq pushing
           \/ \E r \in RPCs : Retry(r) \/ EndRPC(r) \/ MessageSent(r) \/ ReadMessage(r)
  BY <1>1, <1>2, <1>3, <1>5, <1>6, <1>8
<1>9. \/ pushing' \subseteq pushing
      \/ StreamOpens
      \/ \E r \in RPCs : Retry(r) \/ EndRPC(r) \/ MessageSent(r) \/ ReadMessage(r)
  BY <1>7 DEF Next, Network, Attempt, OutHeader, Refuse, Deadline, Script, Reflect, Invoke,
     NewStream, Return, ReflectReturns, InvokeReturns, StreamBegins, StreamFails, Streaming,
     ReadEnd, StreamCloses, SetVUTags, Interrupt, sampleVars, vars
<1>10. QED
  BY <1>4, <1>8, <1>9

\* The event loop does not leave a stream it is counting.
LEMMA CountingStep ==
    ASSUME TypeOK, NEW s \in pushing, s.by = "js", s \in pushing', [Next]_vars,
           js = "crashed" \/ (js = "counting" /\ waits = s.rpc)
    PROVE  js' = "crashed" \/ (js' = "counting" /\ waits' = s.rpc)
<1>1. ASSUME NEW r \in RPCs, ReadMessage(r)
      PROVE  UNCHANGED <<js, waits>> \/ js' = "crashed"
  BY <1>1 DEF ReadMessage, Read, Forward
<1>2. js = "counting" /\ waits = s.rpc => ~StreamBegins
  BY DEF StreamBegins, InPush
<1>3. UNCHANGED <<js, waits>> \/ js' = "crashed"
  BY <1>1, <1>2 DEF Next, Network, Attempt, OutHeader, Retry, EndRPC, Refuse, Deadline, Script,
     Reflect, Invoke, NewStream, Return, ReflectReturns, InvokeReturns, StreamOpens,
     StreamFails, Streaming, MessageSent, ReadEnd, StreamCloses, SetVUTags, Interrupt,
     SampleTaken, stateVars, vars
<1>4. QED
  BY <1>3

LEMMA PushInvStep ==
    ASSUME TypeOK, CountInv, DoneInv, PushInv, [Next]_vars
    PROVE  PushInv'
<1>1. ASSUME NEW s \in pushing', s \in pushing, s.by = "js"
      PROVE  js' = "crashed" \/ (js' = "counting" /\ waits' = s.rpc)
  BY <1>1, CountingStep DEF PushInv
<1>2. CASE pushing' \subseteq pushing
  BY <1>1, <1>2 DEF PushInv
<1>3. ASSUME NEW x \in Push, pushing' = pushing \cup {x}, ~InPush(x.rpc, x.by),
             x.by = "js" => js' = "counting" /\ waits' = x.rpc
      PROVE  PushInv'
  <2>1. \A s \in pushing : ~(s.rpc = x.rpc /\ s.by = x.by)
    BY <1>3 DEF InPush
  <2>2. \A s, t \in pushing' : s.rpc = t.rpc /\ s.by = t.by => s = t
    BY <1>3, <2>1 DEF PushInv
  <2>3. QED
    BY <1>1, <1>3, <2>2 DEF PushInv
<1>4. QED
  BY <1>2, <1>3, PushStep

LEMMA Pushes == Spec => []PushInv
<1>1. Init => PushInv
  BY DEF Init, PushInv
<1>2. QED
  BY <1>1, PushInvStep, TypeCorrect, Counts, Dones, PTL DEF Spec

\* After an interrupt no thread begins to send a sample, of whatever RPC, and what is
\* still on its way is one sample for each thread: the contexts the threads look at are
\* done by then (PushIfNotDone), and a thread sends before it goes on.
THEOREM LateSamplesBegun == Spec => OneLateSample
<1>1. TypeOK /\ CountInv /\ DoneInv /\ PushInv /\ [Next]_vars
        => [vuDone => /\ pushing' \subseteq pushing
                      /\ \A s, t \in pushing : s.rpc = t.rpc /\ s.by = t.by => s = t]_pushing
  <2> SUFFICES ASSUME TypeOK, CountInv, DoneInv, PushInv, [Next]_vars, vuDone
               PROVE  /\ pushing' \subseteq pushing
                      /\ \A s, t \in pushing : s.rpc = t.rpc /\ s.by = t.by => s = t
    OBVIOUS
  <2>1. pushing' \subseteq pushing
    BY PushStep
  <2>2. QED
    BY <2>1 DEF PushInv
<1>2. QED
  BY <1>1, TypeCorrect, Counts, Dones, Pushes, PTL DEF Spec, OneLateSample

-----------------------------------------------------------------------------
(* What the script is given *)

\* An answer of invoke: its RPC is over, and the sample of its last attempt sent, and
\* it says of the RPC what is so.
AnswerInv ==
    given.kind \in {"response", "error"} =>
        /\ given.rpc \in RPCs /\ rpc[given.rpc].phase = "over"
        /\ rpc[given.rpc].kind = "unary" /\ Sending(given.rpc) = {}
        /\ given.status = rpc[given.rpc].status
        /\ given.from \in Incoming \/ (rpc[given.rpc].status # "OK" /\ given.from.set = {})
        /\ IF Marshals(given.from)
           THEN given.kind = "response" /\ given.message = Convert(TRUE, given.from)
           ELSE given.kind = "error"

\* Only invoke's return and a message of a stream give anything.
LEMMA GivenStep ==
    ASSUME [Next]_vars
    PROVE  \/ given' = Nothing /\ (js' = "crashed" => js = "crashed")
           \/ InvokeReturns
           \/ js # "crashed" /\ \E r \in RPCs : ReadMessage(r)
           \/ UNCHANGED vars
  BY DEF Next, Network, Attempt, OutHeader, Retry, EndRPC, Refuse, Deadline, Script, Reflect,
     Invoke, NewStream, Return, ReflectReturns, StreamOpens, StreamBegins, StreamFails,
     Streaming, MessageSent, ReadEnd, StreamCloses, SetVUTags, Interrupt, SampleTaken, Quiet,
     stateVars

LEMMA AnswerStep ==
    ASSUME TypeOK, WaitsInv, AnswerInv, CrashIsNull, [Next]_vars
    PROVE  AnswerInv' /\ CrashIsNull'
<1>0. js = "crashed" => UNCHANGED vars
  BY DEF Next
<1>1. CASE given' = Nothing /\ (js' = "crashed" => js = "crashed")
  BY <1>0, <1>1 DEF Nothing, AnswerInv, CrashIsNull, vars, stateVars
<1>2. CASE InvokeReturns
  <2>1. /\ waits \in RPCs /\ rpc[waits].phase = "over" /\ rpc' = rpc /\ js' = "script"
        /\ rpc[waits].kind = "unary" /\ ~InPush(waits, "handler") /\ pushing' = pushing
    BY <1>2 DEF InvokeReturns, TypeOK, WaitsInv, sampleVars
  <2>2. PICK m \in Replies(waits) : given' = Respond(waits, m)
    BY <1>2 DEF InvokeReturns
  <2>3. m \in Incoming \/ (rpc[waits].status # "OK" /\ m.set = {})
    BY <2>2 DEF Replies, Blank
  <2>4. /\ given'.rpc = waits /\ given'.status = rpc[waits].status /\ given'.from = m
        /\ IF Marshals(m) THEN given'.kind = "response" /\ given'.message = Convert(TRUE, m)
           ELSE given'.kind = "error"
    BY <2>2 DEF Respond, Give
  <2>5. Sending(waits) = {}
    BY <2>1, SendingIsPush
  <2>6. Sending(given.rpc)' = {}
    BY <2>1, <2>4, <2>5 DEF Sending
  <2>7. AnswerInv'
    BY <2>1, <2>3, <2>4, <2>6 DEF AnswerInv, Marshals
  <2>8. QED
    BY <2>1, <2>7 DEF CrashIsNull
<1>3. ASSUME NEW r \in RPCs, ReadMessage(r), js # "crashed" PROVE AnswerInv' /\ CrashIsNull'
  <2>1. PICK m \in Incoming : /\ Read(r, Convert(FALSE, m))
                              /\ given' = Give(r, "event", Convert(FALSE, m), m)
    BY <1>3 DEF ReadMessage
  <2>2. given'.kind = "event" /\ given'.from = m
    BY <2>1 DEF Give
  <2>3. js' = "crashed" => js = "crashed" \/ Convert(FALSE, m).kind = "nil"
    BY <2>1 DEF Read, Forward
  <2>4. Convert(FALSE, m).kind = "nil" => m.type = "value" /\ m.set # {}
    BY DEF Convert, Marshals, Nil, Object, Fails
  <2>5. QED
    BY <1>3, <2>2, <2>3, <2>4 DEF AnswerInv, CrashIsNull
<1>4. CASE UNCHANGED vars
  BY <1>4 DEF vars, stateVars, sampleVars, AnswerInv, CrashIsNull, Marshals, Sending
<1>5. QED
  BY <1>1, <1>2, <1>3, <1>4, GivenStep

LEMMA Answers == Spec => [](AnswerInv /\ CrashIsNull)
<1>1. Init => AnswerInv /\ CrashIsNull
  BY DEF Init, Nothing, AnswerInv, CrashIsNull
<1>2. QED
  BY <1>1, AnswerStep, TypeCorrect, Waits, PTL DEF Spec

\* invoke answers with the status of its RPC and all the fields of the message,
\* unless there is none that can be converted (Conn.Invoke of conn.go).
THEOREM InvokeAnswered == Spec => []InvokeAnswers
<1>1. TypeOK /\ AnswerInv => InvokeAnswers
  <2> SUFFICES ASSUME TypeOK, AnswerInv, given.kind \in {"response", "error"},
                      \/ given.from.type = "plain"
                      \/ given.from.type = "required" /\ rpc[given.rpc].status = "OK"
               PROVE  /\ given.kind = "response" /\ given.status = rpc[given.rpc].status
                      /\ given.message = Object(Fields)
    BY DEF InvokeAnswers
  <2>1. Marshals(given.from)
    BY DEF AnswerInv, Marshals, Incoming
  <2>2. Convert(TRUE, given.from) = Object(Fields)
    BY <2>1 DEF Convert
  <2>3. QED
    BY <2>1, <2>2 DEF AnswerInv
<1>2. QED
  BY <1>1, TypeCorrect, Answers, PTL

\* Nothing but a JSON null crashes the process (readData of stream.go).
THEOREM CrashOnlyNull == Spec => []CrashIsNull
  BY Answers, PTL

\* The status in invoke's answer is that of the last sample of its RPC, if grpc-go has
\* made an attempt (conn.go).
THEOREM StatusesAgree == Spec => []StatusAgrees
<1>1. StatusInv /\ AnswerInv => StatusAgrees
  BY DEF StatusInv, LastStatus, AnswerInv, StatusAgrees
<1>2. QED
  BY <1>1, LastStatuses, Answers, PTL

-----------------------------------------------------------------------------
(* The RPC that the thread waits for *)

Waiting == js \in {"invoking", "reflecting"}
Gone == js \in {"script", "crashed"}

LEMMA WaitsFor ==
    ASSUME TypeOK, Waiting
    PROVE  waits \in RPCs
  BY DEF TypeOK, Waiting

\* The thread waits for one RPC until it waits no more.
LEMMA WaitStep ==
    ASSUME TypeOK, Waiting, [Next]_vars
    PROVE  Gone' \/ (Waiting' /\ waits' = waits)
<1>1. ASSUME NEW r \in RPCs, ReadMessage(r)
      PROVE  UNCHANGED <<js, waits>> \/ js' = "crashed"
  BY <1>1 DEF ReadMessage, Read, Forward
<1>2. UNCHANGED <<js, waits>> \/ js' \in {"script", "crashed"}
  BY <1>1 DEF Waiting, Next, Network, Attempt, OutHeader, Retry, EndRPC, Refuse, Deadline,
     Script, Reflect, Invoke, NewStream, Return, InvokeReturns, ReflectReturns, StreamOpens,
     StreamBegins, StreamFails, Streaming, MessageSent, ReadEnd, StreamCloses, SetVUTags,
     Interrupt, SampleTaken, stateVars, vars
<1>3. QED
  BY <1>2 DEF Waiting, Gone

\* It begins to wait for an RPC that has just been handed to grpc-go with a timeout.
LEMMA WaitBegins ==
    ASSUME TypeOK, ~Waiting, Waiting', [Next]_vars
    PROVE  rpc'[waits'].phase = "asked" /\ rpc'[waits'].timed
<1>1. ASSUME NEW r \in RPCs, ReadMessage(r)
      PROVE  js' = js \/ js' = "crashed"
  BY <1>1 DEF ReadMessage, Read, Forward
<1>2. PICK r \in RPCs : Reflect(r) \/ Invoke(r)
  BY <1>1 DEF Waiting, Next, Network, Attempt, OutHeader, Retry, EndRPC, Refuse, Deadline,
     Script, NewStream, Return, InvokeReturns, ReflectReturns, StreamOpens, StreamBegins,
     StreamFails, Streaming, MessageSent, ReadEnd, StreamCloses, SetVUTags, Interrupt,
     SampleTaken, stateVars, vars
<1>3. CurrentTags \in Tags /\ CallTags(r) \in Tags
  BY TagTypes
<1>4. PICK kind \in {"unary", "reflection"}, t \in Tags : Start(r, kind, TRUE, t)
  BY <1>2, <1>3 DEF Reflect, Invoke
<1>5. QED
  BY <1>4, StartRpc

\* An RPC runs until it is over, and its timer and the end of its context stay with it.
LEMMA RunsOn ==
    ASSUME TypeOK, NEW q \in RPCs, Running(q), [Next]_vars
    PROVE  \/ rpc'[q].phase = "over"
           \/ /\ Running(q)' /\ rpc'[q].timed = rpc[q].timed
              /\ rpc[q].ctx # "live" => rpc'[q].ctx # "live"
<1>1. CASE Starts(q)
  BY <1>1 DEF Starts, Running, Attempting
<1>2. CASE AttemptBegins(q)
  BY <1>2 DEF AttemptBegins, Kept, Running, Attempting
<1>3. CASE AttemptEnds(q)
  BY <1>3 DEF AttemptEnds, Kept, Running, Attempting
<1>4. CASE Refused(q)
  BY <1>4 DEF Refused
<1>5. CASE Taken(q)
  BY <1>5 DEF Taken, Running, Attempting
<1>6. CASE Stays(q)
  BY <1>6 DEF Stays, Running, Attempting
<1>7. QED
  BY <1>1, <1>2, <1>3, <1>4, <1>5, <1>6, Steps

\* And it stays over.
LEMMA OverForGood ==
    ASSUME TypeOK, NEW q \in RPCs, rpc[q].phase = "over", [Next]_vars
    PROVE  rpc'[q].phase = "over" /\ Sending(q)' \subseteq Sending(q)
<1>1. ~Starts(q) /\ ~AttemptBegins(q) /\ ~AttemptEnds(q) /\ ~Refused(q)
  BY DEF Starts, AttemptBegins, AttemptEnds, Refused, Attempting
<1>2. CASE Taken(q)
  BY <1>2 DEF Taken
<1>3. CASE Stays(q)
  BY <1>3 DEF Stays, Attempting
<1>4. QED
  BY <1>1, <1>2, <1>3, Steps

\* A timer, once it is there, stays until the RPC is over.
LEMMA TimedStep ==
    ASSUME TypeOK, WaitIsTimed, [Next]_vars
    PROVE  WaitIsTimed'
<1> SUFFICES ASSUME Waiting'
             PROVE  \/ rpc'[waits'].phase = "over"
                    \/ Running(waits)' /\ (rpc'[waits'].timed \/ rpc'[waits'].ctx # "live")
  BY DEF WaitIsTimed, Waiting
<1>1. CASE ~Waiting
  BY <1>1, WaitBegins DEF Running
<1>2. CASE Waiting
  <2>1. waits \in RPCs /\ waits' = waits
    BY <1>2, WaitsFor, WaitStep DEF Waiting, Gone
  <2>2. \/ rpc[waits].phase = "over"
        \/ Running(waits) /\ (rpc[waits].timed \/ rpc[waits].ctx # "live")
    BY <1>2 DEF WaitIsTimed, Waiting
  <2>3. CASE rpc[waits].phase = "over"
    BY <2>1, <2>3, OverForGood
  <2>4. CASE Running(waits) /\ (rpc[waits].timed \/ rpc[waits].ctx # "live")
    <3>1. \/ rpc'[waits].phase = "over"
          \/ /\ Running(waits)' /\ rpc'[waits].timed = rpc[waits].timed
             /\ rpc[waits].ctx # "live" => rpc'[waits].ctx # "live"
      BY <2>1, <2>4, RunsOn DEF Running, Attempting
    <3>2. QED
      BY <2>1, <2>4, <3>1
  <2>5. QED
    BY <2>2, <2>3, <2>4
<1>3. QED
  BY <1>1, <1>2

\* What the thread waits for in invoke and in connect always has a timer, through
\* every retry, or its context is done, or it is over (client.go).
THEOREM WaitsTimed == Spec => []WaitIsTimed
<1>1. Init => WaitIsTimed
  BY DEF Init, WaitIsTimed
<1>2. QED
  BY <1>1, TimedStep, TypeCorrect, PTL DEF Spec

-----------------------------------------------------------------------------
(* The call returns: its context is done, then its RPC is over, then it returns; in
   between k6 takes the sample that its handler may be sending                     *)

Busy == Sending(waits) # {}

AtLive == Waiting /\ Running(waits) /\ rpc[waits].ctx = "live"
AtDone == Waiting /\ Running(waits) /\ rpc[waits].ctx # "live"
AtOver == Waiting /\ rpc[waits].phase = "over"

DoneBusy == AtDone /\ Busy
DoneFree == AtDone /\ ~Busy
OverBusy == AtOver /\ Busy
OverFree == AtOver /\ ~Busy

\* With the context of the RPC done, its handler begins to send no sample.
LEMMA NoMoreSamples ==
    ASSUME TypeOK, NEW q \in RPCs, Running(q), rpc[q].ctx # "live", [Next]_vars
    PROVE  Sending(q)' \subseteq Sending(q)
<1>1. ~Starts(q)
  BY DEF Starts, Running, Attempting
<1>2. QED
  BY <1>1, Steps DEF AttemptBegins, AttemptEnds, Refused, Taken, Stays

\* Until it returns, the RPC does not fall back.
LEMMA NoWayBack ==
    ASSUME TypeOK, [Next]_vars
    PROVE  /\ AtLive => AtLive' \/ AtDone' \/ AtOver' \/ Gone'
           /\ DoneBusy => AtDone' \/ AtOver' \/ Gone'
           /\ DoneFree => DoneFree' \/ OverFree' \/ Gone'
           /\ OverBusy => AtOver' \/ Gone'
           /\ OverFree => OverFree' \/ Gone'
<1> SUFFICES ASSUME Waiting, ~Gone'
             PROVE  /\ AtLive => AtLive' \/ AtDone' \/ AtOver'
                    /\ AtDone => (AtDone' \/ AtOver') /\ (~Busy => ~Busy')
                    /\ AtOver => AtOver' /\ (~Busy => ~Busy')
  BY DEF AtLive, AtDone, AtOver, DoneBusy, DoneFree, OverBusy, OverFree
<1>1. waits \in RPCs /\ Waiting' /\ waits' = waits
  BY WaitsFor, WaitStep
<1>2. ASSUME AtLive PROVE AtLive' \/ AtDone' \/ AtOver'
  BY <1>1, <1>2, RunsOn DEF AtLive, AtDone, AtOver
<1>3. ASSUME AtDone PROVE AtDone' \/ AtOver'
  BY <1>1, <1>3, RunsOn DEF AtDone, AtOver
<1>4. ASSUME AtDone, ~Busy PROVE ~Busy'
  <2>1. Sending(waits)' \subseteq Sending(waits)
    <3>1. \A q \in RPCs : q = waits => Sending(q)' \subseteq Sending(q)
      BY <1>1, <1>4, NoMoreSamples DEF AtDone
    <3>2. QED
      BY <1>1, <3>1 DEF Sending
  <2>2. QED
    BY <1>4, <2>1 DEF Busy
<1>5. ASSUME AtOver PROVE AtOver' /\ (~Busy => ~Busy')
  <2>1. \A q \in RPCs : q = waits =>
          rpc'[q].phase = "over" /\ Sending(q)' \subseteq Sending(q)
    BY <1>1, <1>5, OverForGood DEF AtOver
  <2>2. rpc'[waits].phase = "over" /\ Sending(waits)' \subseteq Sending(waits)
    BY <1>1, <2>1 DEF Sending
  <2>3. QED
    BY <1>1, <2>2 DEF AtOver, Busy
<1>6. QED
  BY <1>2, <1>3, <1>4, <1>5

\* Each step of Progress takes it one further.
LEMMA OneFurther ==
    ASSUME TypeOK, <<Progress>>_vars
    PROVE  /\ AtLive => AtDone'
           /\ AtDone => AtOver'
           /\ AtOver => Gone'
<1>1. Waiting /\ waits \in RPCs /\ rpc[waits] \in RPC
  BY WaitsFor DEF Progress, Waiting, TypeOK
<1>2. CASE Deadline(waits)
  <2>1. rpc'[waits].ctx # "live" /\ rpc'[waits].phase = rpc[waits].phase
    BY <1>1, <1>2, DoneRpc DEF Deadline, RPC
  <2>2. UNCHANGED <<js, waits>> /\ Running(waits) /\ rpc[waits].ctx = "live"
    BY <1>2 DEF Deadline, stateVars
  <2>3. QED
    BY <2>1, <2>2 DEF AtLive, AtDone, AtOver, Running, Attempting, Waiting
<1>3. CASE rpc[waits].ctx # "live" /\ (EndRPC(waits) \/ Refuse(waits))
  <2>1. PICK status \in Statuses : Over(waits, status)
    BY <1>1, <1>3, EndStatusType DEF EndRPC, Refuse
  <2>2. rpc'[waits].phase = "over"
    BY <1>1, <2>1, OverRpc
  <2>3. UNCHANGED <<js, waits>> /\ Running(waits)
    BY <1>3 DEF EndRPC, Refuse, Running, stateVars
  <2>4. QED
    BY <1>3, <2>2, <2>3 DEF AtLive, AtDone, AtOver, Running, Attempting, Waiting
<1>4. CASE rpc[waits].phase = "over" /\ (InvokeReturns \/ ReflectReturns)
  BY <1>4 DEF InvokeReturns, ReflectReturns, Gone, AtLive, AtDone, Running, Attempting
<1>5. QED
  BY <1>2, <1>3, <1>4 DEF Progress

\* A step of Drain takes the only sample the handler is sending.
LEMMA Drained ==
    ASSUME TypeOK, CountInv, <<Drain>>_vars
    PROVE  ~Busy' /\ (AtDone => AtDone') /\ (AtOver => AtOver')
<1>1. Waiting /\ waits \in RPCs
  BY WaitsFor DEF Drain, Waiting
<1>2. PICK s \in Sending(waits) : SampleTaken(s)
  BY DEF Drain, Sending
<1>3. UNCHANGED <<js, waits, rpc>> /\ pushing' = pushing \ {s}
  BY <1>2 DEF SampleTaken, stateVars
<1>4. \A t \in Sending(waits) : t = s
  BY <1>1 DEF CountInv, Counted
<1>5. Sending(waits)' = {}
  BY <1>3, <1>4 DEF Sending
<1>6. QED
  BY <1>3, <1>5 DEF Busy, AtDone, AtOver, Waiting, Running, Attempting

\* invoke and the reflection of connect return, though the server never answer and
\* however often grpc-go retry, if k6 takes the samples.  That Progress and Drain are
\* enabled is for TLC (WaitsGoOn).
THEOREM CallsDoReturn == FairSpec /\ []WaitsGoOn => CallsReturn
<1>1. TypeOK /\ WaitsGoOn => /\ AtLive \/ DoneFree \/ OverFree => ENABLED <<Progress>>_vars
                             /\ DoneBusy \/ OverBusy => ENABLED <<Drain>>_vars
  <2>1. TypeOK /\ Waiting => (InPush(waits, "handler") <=> Busy)
    BY WaitsFor, SendingIsPush DEF Busy
  <2>2. QED
    BY <2>1 DEF WaitsGoOn, AtLive, AtDone, AtOver, DoneFree, OverFree, DoneBusy, OverBusy,
       Waiting
<1>2. /\ AtDone <=> DoneBusy \/ DoneFree
      /\ AtOver <=> OverBusy \/ OverFree
      /\ ~Busy /\ AtDone => DoneFree
      /\ ~Busy /\ AtOver => OverFree
  BY DEF DoneFree, OverFree, DoneBusy, OverBusy
<1>3. TypeOK /\ [Next]_vars /\ <<Progress>>_vars /\ DoneFree => OverFree' \/ Gone'
  <2>1. AtDone' => ~AtOver'
    BY DEF AtDone, AtOver, Running, Attempting
  <2>2. QED
    BY <2>1, NoWayBack, OneFurther DEF DoneFree, OverFree
<1>4. FairSpec /\ []WaitsGoOn => (OverFree ~> Gone)
  BY <1>1, <1>2, NoWayBack, OneFurther, TypeCorrect, PTL DEF FairSpec, Spec
<1>5. FairSpec /\ []WaitsGoOn => (OverBusy ~> OverFree \/ Gone)
  BY <1>1, <1>2, NoWayBack, Drained, TypeCorrect, Counts, PTL DEF FairSpec, Spec
<1>6. FairSpec /\ []WaitsGoOn => (DoneFree ~> OverFree \/ Gone)
  BY <1>1, <1>3, NoWayBack, TypeCorrect, PTL DEF FairSpec, Spec
<1>7. FairSpec /\ []WaitsGoOn => (DoneBusy ~> DoneFree \/ AtOver \/ Gone)
  BY <1>1, <1>2, NoWayBack, Drained, TypeCorrect, Counts, PTL DEF FairSpec, Spec
<1>8. FairSpec /\ []WaitsGoOn => (AtLive ~> AtDone \/ AtOver \/ Gone)
  BY <1>1, NoWayBack, OneFurther, TypeCorrect, PTL DEF FairSpec, Spec
<1>9. WaitIsTimed /\ Waiting => AtLive \/ AtDone \/ AtOver
  BY DEF WaitIsTimed, Waiting, AtLive, AtDone, AtOver
<1>10. FairSpec => []WaitIsTimed
  BY WaitsTimed, PTL DEF FairSpec
<1>11. FairSpec /\ []WaitsGoOn => (Waiting ~> Gone)
  BY <1>2, <1>4, <1>5, <1>6, <1>7, <1>8, <1>9, <1>10, PTL
<1>12. /\ Waiting <=> js \in {"invoking", "reflecting"}
       /\ Gone <=> js \in {"script", "crashed"}
  BY DEF Waiting, Gone
<1>13. QED
  BY <1>11, <1>12, PTL DEF CallsReturn
=============================================================================
