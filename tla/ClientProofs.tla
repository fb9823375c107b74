---------------------------- MODULE ClientProofs ----------------------------
(***************************************************************************)
(* Proofs about Client, for any set of VUs, servers, files and messages:   *)
(* what the clients hold, what they have registered, and that connect and  *)
(* load return.                                                            *)
(***************************************************************************)
EXTENDS Client, Lemmas

-----------------------------------------------------------------------------
(* The stack of convertToMethodInfo *)

\* What is on the stack after the top has been replaced by its nested messages.
LEMMA PopAndPushEffect ==
    ASSUME TypeOK, NEW v \in VUs, stack[v] # <<>>, PopAndPush(v)
    PROVE  /\ Top(v) \in Messages
           /\ stack' \in [VUs -> Seq(Messages)]
           /\ \A w \in VUs \ {v} : stack'[w] = stack[w]
           /\ Range(stack[v]) \subseteq Range(stack'[v]) \cup {Top(v)}
           /\ Range(Nested[Top(v)]) \subseteq Range(stack'[v])
<1> DEFINE r == SubSeq(stack[v], 1, Len(stack[v]) - 1) \o Nested[Top(v)]
<1>1. stack \in [VUs -> Seq(Messages)]
  BY DEF TypeOK
<1>2. stack' = [stack EXCEPT ![v] = r]
  BY DEF PopAndPush
<1>3. Top(v) \in Messages
  BY <1>1 DEF Top
<1>4. Nested[Top(v)] \in Seq(Messages)
  BY <1>3, ClientAssumption
<1>5. /\ r \in Seq(Messages)
      /\ Range(stack[v]) \subseteq Range(r) \cup {Top(v)}
      /\ Range(Nested[Top(v)]) \subseteq Range(r)
  <2> DEFINE s == stack[v]
             n == Nested[Top(v)]
  <2>1. s \in Seq(Messages) /\ s # <<>> /\ n \in Seq(Messages)
    BY <1>1, <1>4
  <2>2. r = SubSeq(s, 1, Len(s) - 1) \o n /\ Top(v) = s[Len(s)]
    BY DEF Top
  <2> HIDE DEF s, n, r
  <2>3. /\ r \in Seq(Messages)
        /\ Range(s) \subseteq Range(r) \cup {s[Len(s)]}
        /\ Range(n) \subseteq Range(r)
    BY <2>1, <2>2, ReplaceLast
  <2>4. QED
    BY <2>2, <2>3 DEF s, n
<1> HIDE DEF r
<1>6. stack'[v] = r /\ \A w \in VUs \ {v} : stack'[w] = stack[w]
  BY <1>1, <1>2
<1>7. QED
  BY <1>1, <1>2, <1>3, <1>5, <1>6

-----------------------------------------------------------------------------
(* Type correctness *)

\* What the places in connect and load where the client can be tell.
Whereabouts ==
    \A v \in VUs : /\ pc[v] = "missing" => stack[v] # <<>>
                   /\ pc[v] = "reflect" => conn[v] # 0
                   /\ conn[v] <= Len(conns)
                   /\ pc[v] \notin {"walk", "missing"} => stack[v] = <<>>
TypeInv == TypeOK /\ Whereabouts

LEMMA TypeInit == Init => TypeInv
<1> SUFFICES ASSUME Init PROVE TypeInv
  OBVIOUS
<1>1. <<>> \in Seq(Messages) /\ conns = <<>> /\ conns \in Seq(Connection) /\ Len(conns) = 0
  BY DEF Init
<1>2. mds \in [VUs -> [Methods -> Files \cup {NoFile}]]
  BY DEF Init
<1>3. TypeOK
  BY <1>1, <1>2, RegistryAssumption DEF Init, RegistryInit, TypeOK
<1>4. Whereabouts
  BY <1>1 DEF Init, Whereabouts
<1>5. QED
  BY <1>3, <1>4 DEF TypeInv

\* The actions change the functions of v only.
LEMMA TypeWalk ==
    ASSUME TypeInv, NEW v \in VUs, Walk(v)
    PROVE  TypeInv'
<1>1. TypeOK /\ Whereabouts
  BY DEF TypeInv
<1>2. /\ mds \in [VUs -> [Methods -> Files \cup {NoFile}]]
      /\ pc \in [VUs -> {"idle", "reflect", "walk", "missing"}]
      /\ todo \in [VUs -> SUBSET Files] /\ stack \in [VUs -> Seq(Messages)]
      /\ fdset \in [VUs -> SUBSET Files] /\ loaded \in [VUs -> SUBSET Files]
      /\ own \in [VUs -> SUBSET Messages] /\ <<>> \in Seq(Messages)
  BY <1>1 DEF TypeOK
<1>3. CASE RangeFile(v)
  <2>1. PICK f \in todo[v] :
            /\ todo' = [todo EXCEPT ![v] = @ \ {f}]
            /\ mds' = [mds EXCEPT ![v] =
                        [m \in Methods |-> IF m \in MethodsOf[f] THEN f ELSE @[m]]]
            /\ stack' = [stack EXCEPT ![v] = TopLevel[f]]
    BY <1>3 DEF RangeFile
  <2>2. f \in Files /\ TopLevel[f] \in Seq(Messages)
    BY <1>2, <2>1, ClientAssumption
  <2>3. todo' \in [VUs -> SUBSET Files]
    BY <1>2, <2>1
  <2>4. stack' \in [VUs -> Seq(Messages)] /\ \A w \in VUs \ {v} : stack'[w] = stack[w]
    BY <1>2, <2>1, <2>2
  <2>5. mds' \in [VUs -> [Methods -> Files \cup {NoFile}]]
    <3> DEFINE table == [m \in Methods |-> IF m \in MethodsOf[f] THEN f ELSE mds[v][m]]
    <3>1. table \in [Methods -> Files \cup {NoFile}]
      BY <1>2, <2>2
    <3>2. mds' = [mds EXCEPT ![v] = table]
      BY <2>1
    <3>3. QED
      BY <1>2, <3>1, <3>2
  <2>6. TypeOK'
    BY <1>1, <1>3, <2>3, <2>4, <2>5 DEF TypeOK, RangeFile, connVars
  <2>7. Whereabouts'
    BY <1>1, <1>3, <2>4 DEF Whereabouts, RangeFile, connVars
  <2>8. QED
    BY <2>6, <2>7 DEF TypeInv
<1>4. CASE Find(v)
  <2>1. /\ stack' \in [VUs -> Seq(Messages)] /\ \A w \in VUs \ {v} : stack'[w] = stack[w]
        /\ pc'[v] = "missing" => stack' = stack
    <3>1. CASE PopAndPush(v) /\ UNCHANGED pc
      BY <1>1, <1>4, <3>1, PopAndPushEffect DEF Find
    <3>2. CASE UNCHANGED stack
      BY <1>2, <3>2
    <3>3. QED
      BY <1>4, <3>1, <3>2 DEF Find
  <2>2. /\ pc' \in [VUs -> {"idle", "reflect", "walk", "missing"}]
        /\ pc'[v] \in {"walk", "missing"} /\ \A w \in VUs \ {v} : pc'[w] = pc[w]
    BY <1>2, <1>4 DEF Find
  <2>3. TypeOK'
    BY <1>1, <1>4, <2>1, <2>2 DEF TypeOK, Find, connVars
  <2>4. Whereabouts'
    BY <1>1, <1>4, <2>1, <2>2 DEF Whereabouts, Find, connVars
  <2>5. QED
    BY <2>3, <2>4 DEF TypeInv
<1>5. CASE Register(v)
  <2>1. /\ stack' \in [VUs -> Seq(Messages)] /\ \A w \in VUs \ {v} : stack'[w] = stack[w]
        /\ Top(v) \in Messages
    BY <1>1, <1>5, PopAndPushEffect DEF Whereabouts, Register
  <2>2. registered' \subseteq Messages /\ own' \in [VUs -> SUBSET Messages]
    BY <1>1, <1>2, <1>5, <2>1 DEF TypeOK, Register, RegisterOK
  <2>3. pc' = [pc EXCEPT ![v] = "walk"] /\ pc' \in [VUs -> {"idle", "reflect", "walk", "missing"}]
    BY <1>2, <1>5 DEF Register
  <2>4. TypeOK'
    BY <1>1, <1>5, <2>1, <2>2, <2>3 DEF TypeOK, Register, connVars
  <2>5. Whereabouts'
    BY <1>1, <1>2, <1>5, <2>1, <2>3 DEF Whereabouts, Register, connVars
  <2>6. QED
    BY <2>4, <2>5 DEF TypeInv
<1>6. CASE Conflict(v)
  <2>1. /\ pc' = [pc EXCEPT ![v] = "idle"] /\ todo' = [todo EXCEPT ![v] = {}]
        /\ stack' = [stack EXCEPT ![v] = <<>>]
    BY <1>6 DEF Conflict
  <2>2. /\ pc' \in [VUs -> {"idle", "reflect", "walk", "missing"}]
        /\ todo' \in [VUs -> SUBSET Files] /\ stack' \in [VUs -> Seq(Messages)]
    BY <1>2, <2>1
  <2>3. TypeOK'
    BY <1>1, <1>6, <2>2 DEF TypeOK, Conflict, RegisterConflict, connVars
  <2>4. Whereabouts'
    BY <1>1, <1>2, <1>6, <2>1 DEF Whereabouts, Conflict, connVars
  <2>5. QED
    BY <2>3, <2>4 DEF TypeInv
<1>7. CASE Converted(v)
  <2>1. pc' = [pc EXCEPT ![v] = "idle"] /\ loaded' = [loaded EXCEPT ![v] = @ \cup fdset[v]]
    BY <1>7 DEF Converted
  <2>2. pc' \in [VUs -> {"idle", "reflect", "walk", "missing"}] /\ loaded' \in [VUs -> SUBSET Files]
    BY <1>2, <2>1
  <2>3. TypeOK'
    BY <1>1, <1>7, <2>2 DEF TypeOK, Converted, connVars, walkVars
  <2>4. Whereabouts'
    BY <1>1, <1>2, <1>7, <2>1 DEF Whereabouts, Converted, connVars, walkVars
  <2>5. QED
    BY <2>3, <2>4 DEF TypeInv
<1>8. QED
  BY <1>3, <1>4, <1>5, <1>6, <1>7 DEF Walk

\* Convert sets the client off on a set of files.
LEMMA TypeConvert ==
    ASSUME TypeInv, NEW v \in VUs, NEW F \in SUBSET Files, Convert(v, F),
           pc[v] \in {"idle", "reflect"},
           UNCHANGED <<registered, connVars, mds, loaded, own>>
    PROVE  TypeInv'
<1>1. TypeOK /\ Whereabouts
  BY DEF TypeInv
<1>2. /\ pc \in [VUs -> {"idle", "reflect", "walk", "missing"}]
      /\ todo \in [VUs -> SUBSET Files] /\ fdset \in [VUs -> SUBSET Files]
  BY <1>1 DEF TypeOK
<1>3. pc' = [pc EXCEPT ![v] = "walk"] /\ pc' \in [VUs -> {"idle", "reflect", "walk", "missing"}]
  BY <1>2 DEF Convert
<1>4. todo' \in [VUs -> SUBSET Files] /\ fdset' \in [VUs -> SUBSET Files]
  BY <1>2 DEF Convert
<1>5. TypeOK'
  BY <1>1, <1>3, <1>4 DEF TypeOK, Convert, connVars
<1>6. Whereabouts'
  BY <1>1, <1>2, <1>3 DEF Whereabouts, Convert, connVars
<1>7. QED
  BY <1>5, <1>6 DEF TypeInv

LEMMA TypeMethods ==
    ASSUME TypeInv, NEW v \in VUs, Load(v) \/ Start(v) \/ Connect(v) \/ Close(v)
    PROVE  TypeInv'
<1>1. TypeOK /\ Whereabouts
  BY DEF TypeInv
<1>2. /\ inInit \in [VUs -> BOOLEAN] /\ conn \in [VUs -> Nat]
      /\ addr \in [VUs -> Servers \cup {NoAddr}] /\ conns \in Seq(Connection)
      /\ pc \in [VUs -> {"idle", "reflect", "walk", "missing"}]
      /\ Len(conns) \in Nat
  BY <1>1 DEF TypeOK
<1>3. CASE Load(v)
  <2>1. PICK F \in Loadable : Convert(v, F)
    BY <1>3 DEF Load
  <2>2. F \in SUBSET Files
    BY ClientAssumption
  <2>3. QED
    BY <1>3, <2>1, <2>2, TypeConvert DEF Load
<1>4. CASE Start(v)
  <2>1. inInit' \in [VUs -> BOOLEAN]
    BY <1>2, <1>4 DEF Start
  <2>2. TypeOK'
    BY <1>1, <1>4, <2>1 DEF TypeOK, Start, walkVars
  <2>3. Whereabouts'
    BY <1>1, <1>4 DEF Whereabouts, Start, walkVars
  <2>4. QED
    BY <2>2, <2>3 DEF TypeInv
<1>5. CASE Dial(v)
  <2>1. PICK s \in Servers :
            /\ addr' = [addr EXCEPT ![v] = s]
            /\ conns' = Append(conns, [server |-> s, open |-> TRUE])
    BY <1>5 DEF Dial
  <2>2. conns' \in Seq(Connection) /\ Len(conns') = Len(conns) + 1
    BY <1>2, <2>1 DEF Connection
  <2>3. /\ conn' = [conn EXCEPT ![v] = Len(conns) + 1] /\ conn' \in [VUs -> Nat]
        /\ addr' \in [VUs -> Servers \cup {NoAddr}]
    BY <1>2, <1>5, <2>1 DEF Dial
  <2>4. PICK next \in {"idle", "reflect"} : pc' = [pc EXCEPT ![v] = next]
    BY <1>5 DEF Dial
  <2>5. pc' \in [VUs -> {"idle", "reflect", "walk", "missing"}]
    BY <1>2, <2>4
  <2>6. TypeOK'
    BY <1>1, <1>5, <2>2, <2>3, <2>5 DEF TypeOK, Dial, walkVars
  <2>7. ASSUME NEW w \in VUs
        PROVE  /\ conn'[w] <= Len(conns')
               /\ pc'[w] = "missing" => stack'[w] # <<>>
               /\ pc'[w] = "reflect" => conn'[w] # 0
               /\ pc'[w] \notin {"walk", "missing"} => stack'[w] = <<>>
    <3>1. stack' = stack /\ pc[v] = "idle"
      BY <1>5 DEF Dial, walkVars
    <3>2. CASE w = v
      BY <1>1, <1>2, <2>2, <2>3, <2>4, <3>1, <3>2 DEF Whereabouts
    <3>3. CASE w # v
      <4>1. conn'[w] = conn[w] /\ pc'[w] = pc[w] /\ conn[w] \in Nat /\ conn[w] <= Len(conns)
        BY <1>1, <1>2, <2>3, <2>4, <3>3 DEF Whereabouts
      <4>2. QED
        BY <1>1, <1>2, <2>2, <3>1, <4>1 DEF Whereabouts
    <3>4. QED
      BY <3>2, <3>3
  <2>8. Whereabouts'
    BY <2>7 DEF Whereabouts
  <2>9. QED
    BY <2>6, <2>8 DEF TypeInv
<1>6. CASE DialFails(v)
  <2>1. conn' = [conn EXCEPT ![v] = 0] /\ conn' \in [VUs -> Nat] /\ addr' \in [VUs -> Servers \cup {NoAddr}]
    BY <1>2, <1>6 DEF DialFails
  <2>2. TypeOK'
    BY <1>1, <1>6, <2>1 DEF TypeOK, DialFails, walkVars
  <2>3. Whereabouts'
    BY <1>1, <1>2, <1>6, <2>1 DEF Whereabouts, DialFails, walkVars
  <2>4. QED
    BY <2>2, <2>3 DEF TypeInv
<1>7. CASE Reflect(v)
  <2>1. conn[v] \in 1..Len(conns)
    BY <1>1, <1>2, <1>7 DEF Reflect, Whereabouts
  <2>2. conns[conn[v]] \in Connection
    BY <1>2, <2>1
  <2>3. Reflected[conns[conn[v]].server] \in SUBSET Files
    BY <2>2, ClientAssumption DEF Connection
  <2>4. QED
    BY <1>7, <2>3, TypeConvert DEF Reflect
<1>8. CASE ReflectFails(v)
  <2>1. pc' = [pc EXCEPT ![v] = "idle"] /\ pc' \in [VUs -> {"idle", "reflect", "walk", "missing"}]
    BY <1>2, <1>8 DEF ReflectFails
  <2>2. TypeOK'
    BY <1>1, <1>8, <2>1 DEF TypeOK, ReflectFails, connVars, walkVars
  <2>3. Whereabouts'
    BY <1>1, <1>2, <1>8, <2>1 DEF Whereabouts, ReflectFails, connVars, walkVars
  <2>4. QED
    BY <2>2, <2>3 DEF TypeInv
<1>9. CASE Close(v)
  <2>1. conn[v] \in 1..Len(conns)
    BY <1>1, <1>2, <1>9 DEF Close, Whereabouts
  <2>2. conns' \in Seq(Connection) /\ Len(conns') = Len(conns)
    <3> DEFINE d == [conns[conn[v]] EXCEPT !.open = FALSE]
    <3>1. d \in Connection
      <4>1. conns[conn[v]] \in Connection
        BY <1>2, <2>1
      <4>2. QED
        BY <4>1 DEF Connection
    <3>2. conns' = [conns EXCEPT ![conn[v]] = d]
      BY <1>9 DEF Close
    <3> HIDE DEF d
    <3>3. QED
      BY <1>2, <2>1, <3>1, <3>2
  <2>3. conn' = [conn EXCEPT ![v] = 0] /\ conn' \in [VUs -> Nat]
    BY <1>2, <1>9 DEF Close
  <2>4. TypeOK'
    BY <1>1, <1>9, <2>2, <2>3 DEF TypeOK, Close, walkVars
  <2>5. Whereabouts'
    BY <1>1, <1>2, <1>9, <2>2, <2>3 DEF Whereabouts, Close, walkVars
  <2>6. QED
    BY <2>4, <2>5 DEF TypeInv
<1>10. QED
  BY <1>3, <1>4, <1>5, <1>6, <1>7, <1>8, <1>9 DEF Connect

LEMMA TypeStep ==
    ASSUME TypeInv, [Next]_vars
    PROVE  TypeInv'
<1>1. CASE UNCHANGED vars
  BY <1>1 DEF vars, connVars, walkVars, TypeInv, TypeOK, Whereabouts
<1>2. CASE Next
  BY <1>2, TypeWalk, TypeMethods DEF Next
<1>3. QED
  BY <1>1, <1>2

-----------------------------------------------------------------------------
(* What a step of one VU leaves alone *)

Step(v) == Load(v) \/ Start(v) \/ Connect(v) \/ Close(v) \/ Walk(v)

\* The state of the other VUs, and the names that are registered.
LEMMA Others ==
    ASSUME TypeInv, NEW v \in VUs, Step(v), NEW w \in VUs, w # v
    PROVE  /\ pc'[w] = pc[w] /\ todo'[w] = todo[w] /\ stack'[w] = stack[w]
           /\ fdset'[w] = fdset[w] /\ loaded'[w] = loaded[w] /\ own'[w] = own[w]
           /\ mds'[w] = mds[w] /\ conn'[w] = conn[w] /\ addr'[w] = addr[w]
<1>1. /\ pc \in [VUs -> {"idle", "reflect", "walk", "missing"}]
      /\ todo \in [VUs -> SUBSET Files] /\ stack \in [VUs -> Seq(Messages)]
      /\ fdset \in [VUs -> SUBSET Files] /\ loaded \in [VUs -> SUBSET Files]
      /\ own \in [VUs -> SUBSET Messages]
      /\ mds \in [VUs -> [Methods -> Files \cup {NoFile}]]
      /\ conn \in [VUs -> Nat] /\ addr \in [VUs -> Servers \cup {NoAddr}]
  BY DEF TypeInv, TypeOK
<1>2. CASE Load(v)
  BY <1>1, <1>2 DEF Load, Convert, connVars
<1>3. CASE Start(v)
  BY <1>3 DEF Start, walkVars
<1>4. CASE Dial(v)
  BY <1>1, <1>4 DEF Dial, walkVars
<1>5. CASE DialFails(v)
  BY <1>1, <1>5 DEF DialFails, walkVars
<1>6. CASE Reflect(v)
  BY <1>1, <1>6 DEF Reflect, Convert, connVars
<1>7. CASE ReflectFails(v)
  BY <1>1, <1>7 DEF ReflectFails, connVars, walkVars
<1>8. CASE Close(v)
  BY <1>1, <1>8 DEF Close, walkVars
<1>9. CASE RangeFile(v)
  BY <1>1, <1>9 DEF RangeFile, connVars
<1>10. CASE Find(v)
  BY <1>1, <1>10 DEF Find, PopAndPush, connVars
<1>11. CASE Register(v)
  BY <1>1, <1>11 DEF Register, PopAndPush, connVars
<1>12. CASE Conflict(v)
  BY <1>1, <1>12 DEF Conflict, connVars
<1>13. CASE Converted(v)
  BY <1>1, <1>13 DEF Converted, connVars, walkVars
<1>14. QED
  BY <1>2, <1>3, <1>4, <1>5, <1>6, <1>7, <1>8, <1>9, <1>10, <1>11, <1>12, <1>13
     DEF Step, Connect, Walk

\* A registered name stays registered.
LEMMA Grows ==
    ASSUME NEW v \in VUs, Step(v)
    PROVE  registered \subseteq registered'
  BY DEF Step, Connect, Walk, Load, Start, Dial, DialFails, Reflect, ReflectFails, Close,
     RangeFile, Find, Register, Conflict, Converted, RegisterOK, RegisterConflict

-----------------------------------------------------------------------------
(* The connection a client holds *)

\* It is open and leads to the address the client was given last, and no two
\* clients hold the same.
Held ==
    /\ \A v \in VUs : conn[v] # 0 =>
            conns[conn[v]].open /\ conns[conn[v]].server = addr[v]
    /\ \A v, w \in VUs : v # w /\ conn[v] # 0 => conn[v] # conn[w]

LEMMA HeldStep ==
    ASSUME TypeInv, Held, NEW v \in VUs, Step(v)
    PROVE  Held'
<1>1. /\ conn \in [VUs -> Nat] /\ addr \in [VUs -> Servers \cup {NoAddr}]
      /\ conns \in Seq(Connection) /\ Len(conns) \in Nat
      /\ \A w \in VUs : conn[w] <= Len(conns)
  BY DEF TypeInv, TypeOK, Whereabouts
<1>2. CASE Dial(v)
  <2>1. PICK s \in Servers :
            /\ addr' = [addr EXCEPT ![v] = s]
            /\ conns' = Append(conns, [server |-> s, open |-> TRUE])
    BY <1>2 DEF Dial
  <2>2. conn' = [conn EXCEPT ![v] = Len(conns) + 1]
    BY <1>2 DEF Dial
  <2>3. /\ conns'[Len(conns) + 1] = [server |-> s, open |-> TRUE]
        /\ \A i \in 1..Len(conns) : conns'[i] = conns[i]
    <3> DEFINE c == [server |-> s, open |-> TRUE]
    <3>1. c \in Connection
      BY DEF Connection
    <3> HIDE DEF c
    <3>2. conns' = Append(conns, c)
      BY <2>1 DEF c
    <3>3. conns'[Len(conns) + 1] = c /\ \A i \in 1..Len(conns) : conns'[i] = conns[i]
      BY <1>1, <3>1, <3>2, AppendProperties
    <3>4. QED
      BY <3>3 DEF c
  <2>4. ASSUME NEW w \in VUs, conn'[w] # 0
        PROVE  conns'[conn'[w]].open /\ conns'[conn'[w]].server = addr'[w]
    <3>1. CASE w = v
      BY <1>1, <2>1, <2>2, <2>3, <3>1
    <3>2. CASE w # v
      <4>1. conn'[w] = conn[w] /\ addr'[w] = addr[w] /\ conn[w] \in 1..Len(conns)
        BY <1>1, <2>1, <2>2, <2>4, <3>2
      <4>2. QED
        BY <2>3, <2>4, <4>1 DEF Held
    <3>3. QED
      BY <3>1, <3>2
  <2>5. ASSUME NEW w \in VUs, NEW x \in VUs, w # x, conn'[w] # 0
        PROVE  conn'[w] # conn'[x]
    <3>1. /\ conn'[w] = IF w = v THEN Len(conns) + 1 ELSE conn[w]
          /\ conn'[x] = IF x = v THEN Len(conns) + 1 ELSE conn[x]
      BY <1>1, <2>2
    <3>2. QED
      BY <1>1, <2>5, <3>1 DEF Held
  <2>6. QED
    BY <2>4, <2>5 DEF Held
<1>3. CASE DialFails(v)
  <2>1. /\ conn' = [conn EXCEPT ![v] = 0] /\ conns' = conns
        /\ \A w \in VUs \ {v} : addr'[w] = addr[w]
    BY <1>1, <1>3 DEF DialFails
  <2>2. QED
    BY <1>1, <2>1 DEF Held
<1>4. CASE Close(v)
  <2>1. /\ conn' = [conn EXCEPT ![v] = 0] /\ addr' = addr
        /\ \A i \in 1..Len(conns) : i # conn[v] => conns'[i] = conns[i]
    BY <1>1, <1>4 DEF Close
  <2>2. ASSUME NEW w \in VUs, conn'[w] # 0
        PROVE  conns'[conn'[w]].open /\ conns'[conn'[w]].server = addr'[w]
    <3>1. w # v /\ conn'[w] = conn[w] /\ conn[w] \in 1..Len(conns)
      BY <1>1, <2>1, <2>2
    <3>2. conn[w] # conn[v]
      BY <2>2, <3>1 DEF Held
    <3>3. QED
      BY <2>1, <2>2, <3>1, <3>2 DEF Held
  <2>3. QED
    BY <1>1, <2>1, <2>2 DEF Held
<1>5. CASE UNCHANGED <<conn, addr, conns>>
  BY <1>5 DEF Held
<1>6. QED
  BY <1>2, <1>3, <1>4, <1>5 DEF Step, Connect, Walk, Load, Start, Reflect, ReflectFails,
     RangeFile, Find, Register, Conflict, Converted, connVars

-----------------------------------------------------------------------------
(* The method table *)

\* A file is in the table when none of its methods is unknown.
InTable(v, f) == \A m \in MethodsOf[f] : mds[v][m] # NoFile

\* The files loaded before are there, and those the running conversion has
\* been through.
Tabled ==
    \A v \in VUs :
        /\ \A f \in loaded[v] : InTable(v, f)
        /\ pc[v] \in {"walk", "missing"} => \A f \in fdset[v] \ todo[v] : InTable(v, f)

LEMMA TabledStep ==
    ASSUME TypeInv, Tabled, NEW v \in VUs, Step(v)
    PROVE  Tabled'
<1> DEFINE Part(w) == /\ \A f \in loaded[w] : InTable(w, f)
                      /\ pc[w] \in {"walk", "missing"} =>
                            \A f \in fdset[w] \ todo[w] : InTable(w, f)
<1>1. /\ mds \in [VUs -> [Methods -> Files \cup {NoFile}]]
      /\ pc \in [VUs -> {"idle", "reflect", "walk", "missing"}]
      /\ todo \in [VUs -> SUBSET Files] /\ fdset \in [VUs -> SUBSET Files]
      /\ loaded \in [VUs -> SUBSET Files]
  BY DEF TypeInv, TypeOK
<1>2. Part(v)
  BY DEF Tabled
<1>3. ASSUME NEW w \in VUs, w # v
      PROVE  Part(w)'
  <2>1. Part(w)
    BY DEF Tabled
  <2>2. QED
    BY <1>3, <2>1, Others DEF InTable
<1>4. CASE RangeFile(v)
  <2>1. PICK f \in todo[v] :
            /\ todo' = [todo EXCEPT ![v] = @ \ {f}]
            /\ mds' = [mds EXCEPT ![v] =
                        [m \in Methods |-> IF m \in MethodsOf[f] THEN f ELSE @[m]]]
    BY <1>4 DEF RangeFile
  <2>2. f \in Files /\ f # NoFile
    BY <1>1, <2>1, ClientAssumption
  <2>3. \A m \in Methods : mds'[v][m] = IF m \in MethodsOf[f] THEN f ELSE mds[v][m]
    BY <1>1, <2>1
  <2>4. /\ todo'[v] = todo[v] \ {f} /\ fdset'[v] = fdset[v] /\ loaded'[v] = loaded[v]
        /\ pc[v] = "walk"
    BY <1>1, <1>4, <2>1 DEF RangeFile
  <2>5. \A g \in Files : MethodsOf[g] \subseteq Methods
    BY ClientAssumption
  <2>6. InTable(v, f)'
    BY <2>2, <2>3, <2>5 DEF InTable
  <2>7. ASSUME NEW g \in Files, InTable(v, g)
        PROVE  InTable(v, g)'
    BY <2>2, <2>3, <2>5, <2>7 DEF InTable
  <2>8. \A g \in loaded'[v] : InTable(v, g)'
    BY <1>1, <1>2, <2>4, <2>7
  <2>9. \A g \in fdset'[v] \ todo'[v] : InTable(v, g)'
    BY <1>1, <1>2, <2>4, <2>6, <2>7
  <2>10. Part(v)'
    BY <2>8, <2>9
  <2>11. QED
    BY <1>3, <2>10 DEF Tabled
<1>5. CASE Converted(v)
  <2>1. /\ mds' = mds /\ pc'[v] = "idle" /\ pc[v] = "walk" /\ todo[v] = {}
        /\ loaded'[v] = loaded[v] \cup fdset[v]
    BY <1>1, <1>5 DEF Converted
  <2>2. Part(v)'
    BY <1>2, <2>1 DEF InTable
  <2>3. QED
    BY <1>3, <2>2 DEF Tabled
<1>6. CASE /\ mds' = mds /\ loaded' = loaded
           /\ \/ \E F \in SUBSET Files : Convert(v, F)
              \/ pc'[v] \in {"walk", "missing"} =>
                    /\ pc[v] \in {"walk", "missing"}
                    /\ fdset' = fdset /\ todo' = todo
  <2>1. CASE \E F \in SUBSET Files : Convert(v, F)
    <3>1. todo'[v] = fdset'[v]
      BY <1>1, <2>1 DEF Convert
    <3>2. Part(v)'
      BY <1>2, <1>6, <3>1 DEF InTable
    <3>3. QED
      BY <1>3, <3>2 DEF Tabled
  <2>2. CASE pc'[v] \in {"walk", "missing"} =>
                /\ pc[v] \in {"walk", "missing"}
                /\ fdset' = fdset /\ todo' = todo
    <3>1. Part(v)'
      BY <1>2, <1>6, <2>2 DEF InTable
    <3>2. QED
      BY <1>3, <3>1 DEF Tabled
  <2>3. QED
    BY <1>6, <2>1, <2>2
<1>7. CASE Load(v)
  <2>1. \E F \in SUBSET Files : Convert(v, F)
    BY <1>7, ClientAssumption DEF Load
  <2>2. QED
    BY <1>6, <1>7, <2>1 DEF Load
<1>8. CASE Reflect(v)
  <2>1. conn[v] \in 1..Len(conns) /\ conns \in Seq(Connection)
    BY <1>8 DEF TypeInv, TypeOK, Whereabouts, Reflect
  <2>2. conns[conn[v]] \in Connection
    BY <2>1
  <2>3. Reflected[conns[conn[v]].server] \in SUBSET Files
    BY <2>2, ClientAssumption DEF Connection
  <2>4. QED
    BY <1>6, <1>8, <2>3 DEF Reflect
<1>9. CASE Start(v) \/ Close(v) \/ DialFails(v)
  BY <1>6, <1>9 DEF Start, Close, DialFails, walkVars
<1>10. CASE Dial(v) \/ ReflectFails(v)
  <2>1. pc'[v] \notin {"walk", "missing"}
    BY <1>1, <1>10 DEF Dial, ReflectFails
  <2>2. QED
    BY <1>6, <1>10, <2>1 DEF Dial, ReflectFails
<1>11. CASE Find(v) \/ Register(v)
  BY <1>6, <1>11 DEF Find, Register
<1>12. CASE Conflict(v)
  <2>1. pc'[v] = "idle"
    BY <1>1, <1>12 DEF Conflict
  <2>2. QED
    BY <1>6, <1>12, <2>1 DEF Conflict
<1>13. QED
  BY <1>4, <1>5, <1>7, <1>8, <1>9, <1>10, <1>11, <1>12 DEF Step, Connect, Walk

-----------------------------------------------------------------------------
(* The registry *)

\* P, a set of registered names, has the messages of f that are not on the
\* stack, and the nested ones of its members that are not on the stack.
Seen(v, f, P) ==
    /\ P \subseteq registered
    /\ Range(TopLevel[f]) \subseteq P \cup Range(stack[v])
    /\ \A n \in P : Range(Nested[n]) \subseteq P \cup Range(stack[v])
Closed(f, P) ==
    /\ P \subseteq registered
    /\ Range(TopLevel[f]) \subseteq P
    /\ \A n \in P : Range(Nested[n]) \subseteq P

\* Loaded files have such a set without a stack; the files a conversion has
\* been through have one with the stack it still has to work off.
Registration1(v) ==
    /\ \A f \in loaded[v] : \E P \in SUBSET Messages : Closed(f, P)
    /\ pc[v] \in {"walk", "missing"} =>
            \A f \in fdset[v] \ todo[v] : \E P \in SUBSET Messages : Seen(v, f, P)
    /\ own[v] \subseteq registered
    /\ pc[v] = "missing" => Top(v) \notin own[v]
Registration == \A v \in VUs : Registration1(v)

\* A step that leaves the conversion of w alone, or ends it, keeps its part.
LEMMA RegistrationKept ==
    ASSUME NEW w \in VUs, Registration1(w), registered \subseteq registered',
           loaded'[w] = loaded[w], own'[w] = own[w],
           \/ pc'[w] \notin {"walk", "missing"}
           \/ /\ pc'[w] = pc[w] /\ stack'[w] = stack[w]
              /\ todo'[w] = todo[w] /\ fdset'[w] = fdset[w]
    PROVE  Registration1(w)'
<1>1. \A f, P : Closed(f, P) => Closed(f, P)'
  BY DEF Closed
<1>2. CASE pc'[w] \notin {"walk", "missing"}
  BY <1>1, <1>2 DEF Registration1
<1>3. CASE /\ pc'[w] = pc[w] /\ stack'[w] = stack[w]
           /\ todo'[w] = todo[w] /\ fdset'[w] = fdset[w]
  <2>1. \A f, P : Seen(w, f, P) => Seen(w, f, P)'
    BY <1>3 DEF Seen
  <2>2. Top(w)' = Top(w)
    BY <1>3 DEF Top
  <2>3. QED
    BY <1>1, <1>3, <2>1, <2>2 DEF Registration1
<1>4. QED
  BY <1>2, <1>3

\* When the top of the stack, which is registered by then, gives way to its
\* nested messages, it joins the set of every file.
LEMMA SeenAfterPop ==
    ASSUME TypeInv, NEW v \in VUs, stack[v] # <<>>, PopAndPush(v),
           registered \subseteq registered', Top(v) \in registered',
           NEW f \in Files, NEW P \in SUBSET Messages, Seen(v, f, P)
    PROVE  \E Q \in SUBSET Messages : Seen(v, f, Q)'
<1>1. /\ Top(v) \in Messages
      /\ Range(stack[v]) \subseteq Range(stack'[v]) \cup {Top(v)}
      /\ Range(Nested[Top(v)]) \subseteq Range(stack'[v])
  BY PopAndPushEffect DEF TypeInv
<1>2. PICK Q \in SUBSET Messages : Q = P \cup {Top(v)}
  BY <1>1
<1>3. /\ Q \subseteq registered'
      /\ Range(TopLevel[f]) \subseteq Q \cup Range(stack'[v])
      /\ \A n \in Q : Range(Nested[n]) \subseteq Q \cup Range(stack'[v])
  BY <1>1, <1>2 DEF Seen
<1>4. Seen(v, f, Q)'
  BY <1>3 DEF Seen
<1>5. QED
  BY <1>4

LEMMA RegistrationStep ==
    ASSUME TypeInv, Registration, NEW v \in VUs, Step(v)
    PROVE  Registration'
<1>1. /\ pc \in [VUs -> {"idle", "reflect", "walk", "missing"}]
      /\ todo \in [VUs -> SUBSET Files] /\ stack \in [VUs -> Seq(Messages)]
      /\ fdset \in [VUs -> SUBSET Files] /\ loaded \in [VUs -> SUBSET Files]
      /\ own \in [VUs -> SUBSET Messages]
  BY DEF TypeInv, TypeOK
<1>2. registered \subseteq registered' /\ \A w \in VUs : Registration1(w)
  BY Grows DEF Registration
<1>3. \A f, P : Closed(f, P) => Closed(f, P)'
  BY <1>2 DEF Closed
<1>4. \A w \in VUs \ {v} : Registration1(w)'
  BY <1>2, Others, RegistrationKept
<1>5. SUFFICES Registration1(v)'
  BY <1>4 DEF Registration
<1>6. CASE Load(v) \/ Reflect(v)
  <2>1. /\ \E F : Convert(v, F)
        /\ loaded' = loaded /\ own' = own
    BY <1>6 DEF Load, Reflect
  <2>2. pc'[v] = "walk" /\ todo'[v] = fdset'[v]
    BY <1>1, <2>1 DEF Convert
  <2>3. QED
    BY <1>2, <1>3, <2>1, <2>2 DEF Registration1
<1>7. CASE RangeFile(v)
  <2>1. PICK f \in todo[v] : /\ todo' = [todo EXCEPT ![v] = @ \ {f}]
                             /\ stack' = [stack EXCEPT ![v] = TopLevel[f]]
    BY <1>7 DEF RangeFile
  <2>2. /\ pc'[v] = "walk" /\ pc[v] = "walk" /\ stack[v] = <<>> /\ fdset'[v] = fdset[v]
        /\ todo'[v] = todo[v] \ {f} /\ stack'[v] = TopLevel[f]
        /\ loaded'[v] = loaded[v] /\ own'[v] = own[v] /\ f \in Files
    BY <1>1, <1>7, <2>1 DEF RangeFile
  <2>3. {} \in SUBSET Messages /\ Seen(v, f, {})'
    BY <2>2 DEF Seen
  <2>4. ASSUME NEW g, NEW P \in SUBSET Messages, Seen(v, g, P)
        PROVE  Seen(v, g, P)'
    <3>1. Range(stack[v]) = {}
      BY <2>2 DEF Range
    <3>2. QED
      BY <1>2, <2>4, <3>1 DEF Seen
  <2>5. QED
    BY <1>2, <1>3, <2>2, <2>3, <2>4 DEF Registration1
<1>8. CASE Find(v)
  <2>1. CASE Found(Top(v)) /\ PopAndPush(v) /\ UNCHANGED pc
    <3>1. /\ pc'[v] = "walk" /\ pc[v] = "walk" /\ stack[v] # <<>>
          /\ fdset'[v] = fdset[v] /\ todo'[v] = todo[v]
          /\ loaded'[v] = loaded[v] /\ own'[v] = own[v] /\ Top(v) \in registered'
      BY <1>2, <1>8, <2>1 DEF Find, Found
    <3>2. \A f \in fdset'[v] \ todo'[v] : \E P \in SUBSET Messages : Seen(v, f, P)'
      BY <1>1, <1>2, <2>1, <3>1, SeenAfterPop DEF Registration1
    <3>3. QED
      BY <1>2, <1>3, <3>1, <3>2 DEF Registration1
  <2>2. CASE ~Found(Top(v)) /\ pc' = [pc EXCEPT ![v] = "missing"] /\ UNCHANGED stack
    <3>1. /\ pc'[v] = "missing" /\ pc[v] = "walk"
          /\ fdset' = fdset /\ todo' = todo /\ registered' = registered
          /\ loaded'[v] = loaded[v] /\ own'[v] = own[v] /\ Top(v)' = Top(v)
      BY <1>1, <1>8, <2>2 DEF Find, Top
    <3>2. \A f, P : Seen(v, f, P) => Seen(v, f, P)'
      BY <2>2, <3>1 DEF Seen
    <3>3. Top(v)' \notin own'[v]
      BY <1>2, <2>2, <3>1 DEF Registration1, Found
    <3>4. QED
      BY <1>2, <1>3, <3>1, <3>2, <3>3 DEF Registration1
  <2>3. QED
    BY <1>8, <2>1, <2>2 DEF Find
<1>9. CASE Register(v)
  <2>1. /\ pc'[v] = "walk" /\ pc[v] = "missing" /\ stack[v] # <<>> /\ PopAndPush(v)
        /\ fdset'[v] = fdset[v] /\ todo'[v] = todo[v] /\ loaded'[v] = loaded[v]
        /\ own'[v] = own[v] \cup {Top(v)} /\ Top(v) \in registered'
    BY <1>1, <1>9 DEF Register, RegisterOK, TypeInv, Whereabouts
  <2>2. \A f \in fdset'[v] \ todo'[v] : \E P \in SUBSET Messages : Seen(v, f, P)'
    BY <1>1, <1>2, <2>1, SeenAfterPop DEF Registration1
  <2>3. QED
    BY <1>2, <1>3, <2>1, <2>2 DEF Registration1
<1>10. CASE Converted(v)
  <2>1. /\ pc'[v] = "idle" /\ pc[v] = "walk" /\ stack[v] = <<>> /\ todo[v] = {}
        /\ loaded'[v] = loaded[v] \cup fdset[v] /\ own'[v] = own[v]
    BY <1>1, <1>10 DEF Converted
  <2>2. \A f, P : Seen(v, f, P) => Closed(f, P)
    <3>1. Range(stack[v]) = {}
      BY <2>1 DEF Range
    <3>2. QED
      BY <3>1 DEF Seen, Closed
  <2>3. QED
    BY <1>2, <1>3, <2>1, <2>2 DEF Registration1
<1>11. CASE Start(v) \/ DialFails(v) \/ Close(v)
  BY <1>2, <1>11, RegistrationKept DEF Start, DialFails, Close, walkVars
<1>12. CASE Dial(v) \/ ReflectFails(v) \/ Conflict(v)
  <2>1. pc'[v] \notin {"walk", "missing"} /\ loaded' = loaded /\ own' = own
    BY <1>1, <1>12 DEF Dial, ReflectFails, Conflict
  <2>2. QED
    BY <1>2, <2>1, RegistrationKept
<1>13. QED
  BY <1>6, <1>7, <1>8, <1>9, <1>10, <1>11, <1>12 DEF Step, Connect, Walk

-----------------------------------------------------------------------------
(* The theorems *)

ClientInv == TypeInv /\ Held /\ Tabled /\ Registration

LEMMA InvInit == Init => ClientInv
<1> SUFFICES ASSUME Init PROVE ClientInv
  OBVIOUS
<1>1. \A v \in VUs : conn[v] = 0 /\ loaded[v] = {} /\ own[v] = {} /\ pc[v] = "idle"
  BY DEF Init
<1>2. Held /\ Tabled /\ Registration
  BY <1>1 DEF Held, Tabled, Registration, Registration1
<1>3. QED
  BY <1>2, TypeInit DEF ClientInv

LEMMA InvStep ==
    ASSUME ClientInv, [Next]_vars
    PROVE  ClientInv'
<1>1. CASE UNCHANGED vars
  <2>1. TypeInv'
    BY <1>1, TypeStep DEF ClientInv
  <2>2. Held' /\ Tabled'
    BY <1>1 DEF ClientInv, Held, Tabled, InTable, vars, connVars, walkVars
  <2>3. ASSUME NEW v \in VUs PROVE Registration1(v)'
    BY <1>1, RegistrationKept DEF ClientInv, Registration, vars, connVars, walkVars
  <2>4. QED
    BY <2>1, <2>2, <2>3 DEF ClientInv, Registration
<1>2. CASE Next
  <2>1. PICK v \in VUs : Step(v)
    BY <1>2 DEF Next, Step
  <2>2. QED
    BY <1>2, <2>1, TypeStep, HeldStep, TabledStep, RegistrationStep DEF ClientInv
<1>3. QED
  BY <1>1, <1>2

LEMMA Invariant == Spec => []ClientInv
<1>1. QED
  BY InvInit, InvStep, PTL DEF Spec

\* Every variable keeps its type, in all methods of the client.
THEOREM ClientTypes == Spec => []TypeOK
<1>1. ClientInv => TypeOK
  BY DEF ClientInv, TypeInv
<1>2. QED
  BY <1>1, Invariant, PTL

\* An RPC goes out on an open connection to the address connect was given last
\* (client.go: Connect, Invoke, Close).
THEOREM CallsReachTheirTarget == Spec => []CallReachesTarget
<1>1. ClientInv => CallReachesTarget
  BY DEF ClientInv, Held, CallReachesTarget, Calls
<1>2. QED
  BY <1>1, Invariant, PTL

\* What was loaded without an error stays callable (client.go: c.mds).
THEOREM LoadedStaysCallable == Spec => []LoadedIsCallable
<1>1. ClientInv => LoadedIsCallable
  BY DEF ClientInv, Tabled, InTable, LoadedIsCallable, Calls
<1>2. QED
  BY <1>1, Invariant, PTL

\* A conversion that succeeds leaves every message of its files registered,
\* however the conversions of several VUs interleave (convertToMethodInfo).
THEOREM LoadedStaysRegistered == Spec => []LoadedIsRegistered
<1>1. ASSUME ClientInv, NEW v \in VUs, NEW f \in loaded[v]
      PROVE  MessagesOf(f) \subseteq registered
  <2>1. PICK P \in SUBSET Messages : Closed(f, P)
    BY <1>1 DEF ClientInv, Registration, Registration1
  <2>2. MessagesOf(f) \subseteq P
    BY <2>1 DEF MessagesOf, Closed
  <2>3. QED
    BY <2>1, <2>2 DEF Closed
<1>2. ClientInv => LoadedIsRegistered
  BY <1>1 DEF LoadedIsRegistered
<1>3. QED
  BY <1>2, Invariant, PTL

\* RegisterMessage refuses only names that another VU has registered since
\* FindMessageByName (convertToMethodInfo).
THEOREM ConflictsAreForeign == Spec => []ConflictIsForeign
<1>1. ClientInv => ConflictIsForeign
  BY DEF ClientInv, Registration, Registration1, ConflictIsForeign
<1>2. QED
  BY <1>1, Invariant, PTL
-----------------------------------------------------------------------------
(* Conversions end *)

\* Messages nested finitely deep: a message has a lower rank than those in it.
Nesting(rank, n) ==
    /\ rank \in [Messages -> 1..n]
    /\ \A m \in Messages : \A h \in Range(Nested[m]) : rank[m] < rank[h]

\* Where the client is, with what it still has to go through.
Conversion(v) == <<pc[v], todo[v], stack[v]>>

\* What is left to do, the weightier first: the reflection and the conversion as such,
\* the files not visited, the places on the stack of the messages of each rank, and the
\* look-up of its top.
Things == Files \cup Nat
ConversionLeft(v, rank, n) ==
    [k \in 1..n + 3 |->
        IF k = 1 THEN (CASE pc[v] = "reflect" -> {0, 1} [] pc[v] = "idle" -> {} [] OTHER -> {0})
        ELSE IF k = 2 THEN todo[v]
        ELSE IF k = n + 3 THEN (IF pc[v] = "walk" THEN {0} ELSE {})
        ELSE Places(stack[v], rank, k - 2)]

ConversionIsFinite(v, rank, n) == ConversionLeft(v, rank, n) \in Measures(Things, n + 3)
ConversionLess(v, rank, n) ==
    <<ConversionLeft(v, rank, n)', ConversionLeft(v, rank, n)>> \in Less(Things, n + 3)

LEMMA ConversionFinite ==
    ASSUME TypeOK, IsFiniteSet(Files), NEW v \in VUs, NEW n \in Nat, NEW rank
    PROVE  ConversionIsFinite(v, rank, n)
<1> DEFINE first == CASE pc[v] = "reflect" -> {0, 1} [] pc[v] = "idle" -> {} [] OTHER -> {0}
           last == IF pc[v] = "walk" THEN {0} ELSE {}
<1>1. todo[v] \in SUBSET Files /\ stack[v] \in Seq(Messages)
  BY DEF TypeOK
<1>2. todo[v] \in FiniteSubsetsOf(Things)
  <2>1. IsFiniteSet(todo[v])
    BY <1>1, FS_Subset
  <2>2. QED
    BY <1>1, <2>1 DEF FiniteSubsetsOf, Things
<1>3. \A k : Places(stack[v], rank, k) \in FiniteSubsetsOf(Things)
  <2>1. \A k : Places(stack[v], rank, k) \in FiniteSubsetsOf(Nat)
    BY <1>1, PlacesFinite
  <2>2. QED
    BY <2>1 DEF FiniteSubsetsOf, Things
<1>4. first \in FiniteSubsetsOf(Things) /\ last \in FiniteSubsetsOf(Things)
  <2>1. IsFiniteSet({0}) /\ IsFiniteSet({}) /\ IsFiniteSet({0, 1})
    <3>1. IsFiniteSet({0}) /\ IsFiniteSet({})
      BY FS_EmptySet, FS_Singleton
    <3>2. {0, 1} = {0} \cup {1}
      OBVIOUS
    <3>3. QED
      BY <3>1, <3>2, FS_AddElement
  <2>2. {0} \in FiniteSubsetsOf(Things) /\ {} \in FiniteSubsetsOf(Things)
        /\ {0, 1} \in FiniteSubsetsOf(Things)
    BY <2>1 DEF FiniteSubsetsOf, Things
  <2>3. QED
    BY <2>2
<1> HIDE DEF first, last
<1>5. ConversionLeft(v, rank, n) =
        [k \in 1..n + 3 |-> IF k = 1 THEN first ELSE IF k = 2 THEN todo[v]
                            ELSE IF k = n + 3 THEN last ELSE Places(stack[v], rank, k - 2)]
  BY DEF ConversionLeft, first, last
<1>6. QED
  BY <1>2, <1>3, <1>4, <1>5 DEF ConversionIsFinite, Measures

\* A step of the client in the middle of connect or load.
LEMMA ConversionStep ==
    ASSUME TypeInv, NEW v \in VUs, Step(v), pc[v] # "idle",
           NEW n \in Nat, NEW rank, Nesting(rank, n),
           ConversionIsFinite(v, rank, n), ConversionIsFinite(v, rank, n)'
    PROVE  ConversionLess(v, rank, n)
<1> DEFINE s == ConversionLeft(v, rank, n)'
           t == ConversionLeft(v, rank, n)
<1>1. /\ pc \in [VUs -> {"idle", "reflect", "walk", "missing"}]
      /\ todo \in [VUs -> SUBSET Files] /\ stack \in [VUs -> Seq(Messages)]
      /\ \A m \in Messages : Nested[m] \in Seq(Messages) /\ rank[m] \in 1..n
      /\ \A m \in Messages : \A h \in Range(Nested[m]) : rank[m] < rank[h]
  BY ClientAssumption DEF TypeInv, TypeOK, Nesting
<1>2. /\ t[1] = (CASE pc[v] = "reflect" -> {0, 1} [] pc[v] = "idle" -> {} [] OTHER -> {0})
      /\ s[1] = (CASE pc'[v] = "reflect" -> {0, 1} [] pc'[v] = "idle" -> {} [] OTHER -> {0})
      /\ t[2] = todo[v] /\ s[2] = todo'[v]
      /\ t[n + 3] = (IF pc[v] = "walk" THEN {0} ELSE {})
      /\ s[n + 3] = (IF pc'[v] = "walk" THEN {0} ELSE {})
      /\ \A k \in 3..n + 2 : /\ t[k] = Places(stack[v], rank, k - 2)
                            /\ s[k] = Places(stack'[v], rank, k - 2)
  BY DEF ConversionLeft
\* The component j shrinks and those before it stay.
<1>3. ASSUME NEW j \in 1..n + 3, s[j] \subseteq t[j], s[j] # t[j],
             \A i \in 1..j - 1 : s[i] = t[i]
      PROVE  ConversionLess(v, rank, n)
  <2>1. s \in Measures(Things, n + 3) /\ t \in Measures(Things, n + 3)
    BY DEF ConversionIsFinite
  <2> HIDE DEF s, t
  <2>2. <<s, t>> \in Less(Things, n + 3)
    BY <1>3, <2>1, LessAt
  <2>3. QED
    BY <2>2 DEF s, t, ConversionLess
<1> HIDE DEF s, t
<1>4. CASE ReflectFails(v) \/ Conflict(v) \/ Converted(v) \/ Reflect(v)
  <2>1. \/ pc[v] = "reflect" /\ pc'[v] \in {"idle", "walk"}
        \/ pc[v] \in {"walk", "missing"} /\ pc'[v] = "idle"
    BY <1>1, <1>4 DEF ReflectFails, Conflict, Converted, Reflect, Convert
  <2>2. s[1] \subseteq t[1] /\ s[1] # t[1]
    BY <1>2, <2>1
  <2>3. QED
    BY <1>3, <2>2
<1>5. CASE RangeFile(v)
  <2>1. PICK f \in todo[v] : todo' = [todo EXCEPT ![v] = @ \ {f}]
    BY <1>5 DEF RangeFile
  <2>2. todo'[v] = todo[v] \ {f} /\ pc' = pc
    BY <1>1, <1>5, <2>1 DEF RangeFile
  <2>3. s[1] = t[1] /\ s[2] \subseteq t[2] /\ s[2] # t[2]
    BY <1>2, <2>1, <2>2
  <2>4. \A i \in 1..2 - 1 : s[i] = t[i]
    BY <2>3
  <2>5. QED
    BY <1>3, <2>3, <2>4
\* The top of the stack gives way to the messages in it.
<1>6. ASSUME PopAndPush(v), stack[v] # <<>>, todo'[v] = todo[v],
             pc[v] \in {"walk", "missing"}, pc'[v] \in {"walk", "missing"}
      PROVE  ConversionLess(v, rank, n)
  <2> DEFINE m == Top(v)
             now == stack[v]
             then == stack'[v]
             inside == Nested[m]
             top == rank[m]
  <2>1. m \in Messages /\ m = now[Len(now)]
    BY <1>1, <1>6 DEF Top
  <2>2. then = SubSeq(now, 1, Len(now) - 1) \o inside
    BY <1>1, <1>6 DEF PopAndPush
  <2>3. /\ n \in Nat /\ \A e \in Messages : rank[e] \in 1..n
        /\ now \in Seq(Messages) /\ now # <<>> /\ inside \in Seq(Messages)
        /\ top = rank[now[Len(now)]] /\ top \in 1..n
    BY <1>1, <1>6, <2>1
  <2>4. \A h \in Range(inside) : top < rank[h]
    BY <1>1, <2>1
  <2>5. /\ \A k \in 1..n : t[k + 2] = Places(now, rank, k) /\ s[k + 2] = Places(then, rank, k)
        /\ s[1] = t[1] /\ s[2] = t[2]
    <3>1. s[1] = t[1] /\ s[2] = t[2]
      BY <1>2, <1>6
    <3>2. ASSUME NEW k \in 1..n
          PROVE  t[k + 2] = Places(now, rank, k) /\ s[k + 2] = Places(then, rank, k)
      <4>1. k + 2 \in 3..n + 2 /\ (k + 2) - 2 = k
        OBVIOUS
      <4>2. QED
        BY <1>2, <4>1
    <3>3. QED
      BY <3>1, <3>2
  <2> HIDE DEF m, now, then, inside, top
  <2>6. PlaceFreed(then, now, rank, top)
    BY ONLY <2>2, <2>3, <2>4, PlacesLess
  <2>7. top + 2 \in 1..n + 3 /\ s[top + 2] \subseteq t[top + 2] /\ s[top + 2] # t[top + 2]
    BY <2>3, <2>5, <2>6 DEF PlaceFreed
  <2>8. ASSUME NEW i \in 1..(top + 2) - 1
        PROVE  s[i] = t[i]
    <3>1. CASE i = 1 \/ i = 2
      BY <2>5, <3>1
    <3>2. CASE i # 1 /\ i # 2
      <4>1. i - 2 \in 1..top - 1 /\ i - 2 \in 1..n /\ (i - 2) + 2 = i
        BY <2>3, <3>2
      <4>2. QED
        BY <2>5, <2>6, <4>1 DEF PlaceFreed
    <3>3. QED
      BY <3>1, <3>2
  <2>9. QED
    BY <1>3, <2>7, <2>8
<1>7. CASE Find(v)
  <2>1. CASE PopAndPush(v) /\ UNCHANGED pc
    BY <1>6, <1>7, <2>1 DEF Find
  <2>2. CASE pc' = [pc EXCEPT ![v] = "missing"] /\ UNCHANGED stack
    <3>1. pc[v] = "walk" /\ pc'[v] = "missing" /\ stack' = stack /\ todo' = todo
      BY <1>1, <1>7, <2>2 DEF Find
    <3>2. s[n + 3] = {} /\ t[n + 3] = {0} /\ s[1] = t[1] /\ s[2] = t[2]
      BY <1>2, <3>1
    <3>3. ASSUME NEW i \in 1..(n + 3) - 1
          PROVE  s[i] = t[i]
      <4>1. i = 1 \/ i = 2 \/ i \in 3..n + 2
        OBVIOUS
      <4>2. QED
        BY <1>2, <3>1, <3>2, <4>1
    <3>4. QED
      BY <1>3, <3>2, <3>3
  <2>3. QED
    BY <1>7, <2>1, <2>2 DEF Find
<1>8. CASE Register(v)
  <2>1. /\ pc[v] = "missing" /\ pc'[v] = "walk" /\ todo' = todo /\ PopAndPush(v)
        /\ stack[v] # <<>>
    BY <1>1, <1>8 DEF Register, TypeInv, Whereabouts
  <2>2. QED
    BY <1>6, <2>1
<1>9. ~(Load(v) \/ Start(v) \/ Dial(v) \/ DialFails(v) \/ Close(v))
  BY DEF Load, Start, Dial, DialFails, Close
<1>10. QED
  BY <1>4, <1>5, <1>7, <1>8, <1>9 DEF Step, Connect, Walk

\* A step of another client, or of none, leaves the conversion alone.
LEMMA ConversionKept ==
    ASSUME TypeInv, [Next]_vars, NEW v \in VUs, ~Step(v)
    PROVE  UNCHANGED Conversion(v)
<1>1. CASE UNCHANGED vars
  BY <1>1 DEF vars, walkVars, Conversion
<1>2. CASE Next
  <2>1. PICK w \in VUs : Step(w)
    BY <1>2 DEF Next, Step
  <2>2. QED
    BY <2>1, Others DEF Conversion
<1>3. QED
  BY <1>1, <1>2

\* A conversion that runs leaves less to do with each of its steps, whatever the
\* other VUs do, and that cannot go on for ever (convertToMethodInfo, with the
\* nested messages of a file pushed on the stack, client.go).
THEOREM ConversionsEnd ==
    ASSUME IsFiniteSet(Files), NEW n \in Nat, NEW rank, Nesting(rank, n), NEW v \in VUs
    PROVE  /\ IsWellFoundedOn(Less(Things, n + 3), Measures(Things, n + 3))
           /\ Spec => []ConversionIsFinite(v, rank, n)
           /\ Spec => [][pc[v] # "idle" => ConversionLess(v, rank, n)]_(Conversion(v))
<1>1. IsWellFoundedOn(Less(Things, n + 3), Measures(Things, n + 3))
  BY LessWellFounded
<1>2. ClientInv => ConversionIsFinite(v, rank, n) /\ TypeInv
  BY ConversionFinite DEF ClientInv, TypeInv
<1>3. /\ TypeInv /\ [Next]_vars
      /\ ConversionIsFinite(v, rank, n) /\ ConversionIsFinite(v, rank, n)'
      => [pc[v] # "idle" => ConversionLess(v, rank, n)]_(Conversion(v))
  BY ConversionStep, ConversionKept
<1>4. QED
  BY <1>1, <1>2, <1>3, Invariant, PTL DEF Spec

\* What gets less with each step, in a well-founded order, comes to rest: the
\* induction that is not for the provers, as a rule for this measure. ConversionsEnd
\* proves its premises for the time a conversion runs.
ConversionRunsOut(v, rank, n) ==
    /\ IsWellFoundedOn(Less(Things, n + 3), Measures(Things, n + 3))
    /\ []ConversionIsFinite(v, rank, n)
    /\ [][ConversionLess(v, rank, n)]_(Conversion(v))
    => <>[][FALSE]_(Conversion(v))

\* A step of a conversion moves it.
LEMMA ConversionMoves ==
    ASSUME TypeInv, NEW v \in VUs, Walk(v) \/ Reflect(v) \/ ReflectFails(v),
           NEW n \in Nat, NEW rank, Nesting(rank, n),
           ConversionIsFinite(v, rank, n), ConversionIsFinite(v, rank, n)'
    PROVE  ~UNCHANGED Conversion(v)
<1> DEFINE s == ConversionLeft(v, rank, n)'
           t == ConversionLeft(v, rank, n)
<1>1. pc[v] # "idle" /\ Step(v)
  BY DEF Walk, Reflect, ReflectFails, RangeFile, Find, Register, Conflict, Converted, Step,
     Connect
<1>2. <<s, t>> \in Less(Things, n + 3)
  BY <1>1, ConversionStep DEF ConversionLess
<1>3. s # t
  <2> HIDE DEF s, t
  <2>1. PICK j \in 1..n + 3 : <<s[j], t[j]>> \in StrictSubsetOrdering(Things)
    BY <1>2 DEF Less, LexProductOrdering
  <2>2. s[j] # t[j]
    BY <2>1 DEF StrictSubsetOrdering
  <2>3. QED
    BY <2>2
<1>4. UNCHANGED Conversion(v) => s = t
  BY DEF Conversion, ConversionLeft
<1>5. QED
  BY <1>3, <1>4

\* The fair actions are enabled in the states in which their guards hold.  This is read
\* off the actions, whose disjuncts leave out no state of the registry, the files left and
\* the stack, but not for the provers, which do not look into ENABLED.
ConversionGoesOn ==
    \A v \in VUs :
        /\ pc[v] \in {"walk", "missing"} => ENABLED <<Walk(v)>>_vars
        /\ pc[v] = "reflect" => ENABLED <<Reflect(v) \/ ReflectFails(v)>>_vars

\* What one client does in connect and load ends.
LEMMA OneConversionEnds ==
    ASSUME IsFiniteSet(Files), NEW n \in Nat, NEW rank, Nesting(rank, n), NEW v \in VUs
    PROVE  Spec /\ Fairness(v) /\ []ConversionGoesOn /\ []ConversionRunsOut(v, rank, n)
           => (pc[v] # "idle" ~> pc[v] = "idle")
<1>1. pc[v] # "idle" /\ [pc[v] # "idle" => ConversionLess(v, rank, n)]_(Conversion(v))
        => [ConversionLess(v, rank, n)]_(Conversion(v))
  OBVIOUS
<1>2. /\ IsWellFoundedOn(Less(Things, n + 3), Measures(Things, n + 3))
      /\ Spec => []ConversionIsFinite(v, rank, n)
      /\ Spec => [][pc[v] # "idle" => ConversionLess(v, rank, n)]_(Conversion(v))
  BY ConversionsEnd
<1>3. Spec /\ []ConversionRunsOut(v, rank, n)
        => []([](pc[v] # "idle") => <>[][FALSE]_(Conversion(v)))
  BY <1>1, <1>2, PTL DEF ConversionRunsOut
<1>4. [FALSE]_(Conversion(v)) => (pc[v] = "reflect" <=> (pc[v] = "reflect")')
  BY DEF Conversion
<1>5. ClientInv => /\ TypeInv
                   /\ pc[v] = "idle" \/ pc[v] = "reflect" \/ pc[v] \in {"walk", "missing"}
  BY DEF ClientInv, TypeInv, TypeOK
<1>6. ConversionGoesOn =>
        /\ pc[v] \in {"walk", "missing"} => ENABLED <<Walk(v)>>_vars
        /\ pc[v] = "reflect" => ENABLED <<Reflect(v) \/ ReflectFails(v)>>_vars
  BY DEF ConversionGoesOn
<1>7. TypeInv /\ ConversionIsFinite(v, rank, n) /\ ConversionIsFinite(v, rank, n)'
        => ~((Walk(v) \/ Reflect(v) \/ ReflectFails(v)) /\ [FALSE]_(Conversion(v)))
  BY ConversionMoves
<1>8. pc[v] # "idle" <=> ~(pc[v] = "idle")
  OBVIOUS
<1>9. QED
  BY <1>2, <1>3, <1>4, <1>5, <1>6, <1>7, <1>8, Invariant, PTL DEF Fairness

\* Every connect and load ends, if messages are nested finitely deep, however the
\* conversions of the VUs interleave (Load, Connect, convertToMethodInfo).
THEOREM ConversionsReturn ==
    ASSUME IsFiniteSet(Files), NEW n \in Nat, NEW rank, Nesting(rank, n)
    PROVE  /\ FairSpec /\ []ConversionGoesOn
           /\ \A v \in VUs : []ConversionRunsOut(v, rank, n)
           => ConversionEnds
<1>1. ASSUME NEW v \in VUs
      PROVE  Spec /\ Fairness(v) /\ []ConversionGoesOn /\ []ConversionRunsOut(v, rank, n)
             => (pc[v] # "idle" ~> pc[v] = "idle")
  BY OneConversionEnds
<1>2. QED
  BY <1>1 DEF FairSpec, ConversionEnds
=============================================================================
