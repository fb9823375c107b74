-------------------------- MODULE FileWalksProofs ---------------------------
(***************************************************************************)
(* Proofs about FileWalks, for any files and imports, acyclic or not: the  *)
(* two walks implement FileSet, NewFiles accepts what they return, and     *)
(* they end: Load's always, Reflect's if the imports are acyclic.          *)
(***************************************************************************)
EXTENDS FileWalks, Lemmas

-----------------------------------------------------------------------------
(* The files needed *)

\* They have the files asked for and are closed under imports, and they are
\* the least such set.
LEMMA NeededClosed ==
    ASSUME graph \in [Files -> Seq(Files)], roots \in Seq(Files)
    PROVE  /\ Abs!Needed \subseteq Files
           /\ Range(roots) \subseteq Abs!Needed
           /\ \A f \in Abs!Needed : Range(graph[f]) \subseteq Abs!Needed
           /\ \A S \in SUBSET Files :
                /\ Range(roots) \subseteq S
                /\ \A f \in S : Range(graph[f]) \subseteq S
                => Abs!Needed \subseteq S
<1>1. Range(roots) \subseteq Files /\ \A f \in Files : Range(graph[f]) \subseteq Files
  BY RangeIn
<1> DEFINE Closed(S) == Range(roots) \subseteq S /\ \A f \in S : Range(graph[f]) \subseteq S
<1>0. \A S : Abs!Closed(S) <=> Closed(S)
  BY DEF Abs!Closed, Abs!Range, Range
<1>2. Abs!Needed \subseteq Files
  BY DEF Abs!Needed
<1>3. Range(roots) \subseteq Abs!Needed
  BY <1>0, <1>1 DEF Abs!Needed
<1>4. ASSUME NEW f \in Abs!Needed, NEW g \in Range(graph[f])
      PROVE  g \in Abs!Needed
  <2>1. g \in Files
    BY <1>1, <1>2
  <2>2. ASSUME NEW S \in SUBSET Files, Abs!Closed(S)
        PROVE  g \in S
    <3>1. f \in S
      BY <2>2 DEF Abs!Needed
    <3>2. QED
      BY <1>0, <2>2, <3>1
  <2>3. QED
    BY <2>1, <2>2 DEF Abs!Needed
<1>5. ASSUME NEW S \in SUBSET Files, Closed(S)
      PROVE  Abs!Needed \subseteq S
  BY <1>0, <1>5 DEF Abs!Needed
<1>6. QED
  BY <1>2, <1>3, <1>4, <1>5

\* They depend on the imports and the files asked for only.
LEMMA NeededSame ==
    ASSUME graph' = graph, roots' = roots
    PROVE  Abs!Needed' = Abs!Needed
  BY DEF Abs!Needed, Abs!Closed, Abs!Range

-----------------------------------------------------------------------------
(* The invariant *)

\* A dependency that one of the calls cs has still before it.
Ahead(cs, g) ==
    \E k \in 1..Len(cs) : \E i \in 1..Len(graph[cs[k].file]) :
        i >= cs[k].dep /\ g = graph[cs[k].file][i]

\* A file that is going to be looked at.
Waiting(g) == g \in Range(stack) \/ Ahead(calls, g)

\* The set has the files seen, each once.
Once ==
    /\ Range(fdset) = seen
    /\ \A i, j \in 1..Len(fdset) : fdset[i] = fdset[j] => i = j

\* Nothing is forgotten: the roots the walk has been through and the imports
\* of the files seen are seen, or waiting.
Complete ==
    /\ \A i \in 1..Len(roots) : i < next => roots[i] \in seen \/ Waiting(roots[i])
    /\ \A f \in seen : \A g \in Range(graph[f]) : g \in seen \/ Waiting(g)

\* Nothing is there that is not needed.
Sound ==
    /\ seen \subseteq Abs!Needed /\ Range(stack) \subseteq Abs!Needed
    /\ \A k \in 1..Len(calls) : calls[k].file \in seen

\* A walk that has returned is through; Reflect makes no calls.
Through ==
    /\ result = "files" => next > Len(roots)
    /\ result # "none" => stack = <<>> /\ calls = <<>>
    /\ walk = "reflect" => calls = <<>>

Inv == TypeOK /\ Once /\ Complete /\ Sound /\ Through

\* When the walk is through, the set has the needed files.
LEMMA ThroughComplete ==
    ASSUME Inv, next > Len(roots), stack = <<>>, calls = <<>>
    PROVE  Range(fdset) = Abs!Needed
<1>1. /\ graph \in [Files -> Seq(Files)] /\ roots \in Seq(Files) /\ next \in Nat \ {0}
      /\ seen \subseteq Files /\ seen \subseteq Abs!Needed /\ Range(fdset) = seen
  BY DEF Inv, TypeOK, Sound, Once
<1>2. \A g : ~Waiting(g)
  BY DEF Waiting, Ahead, Range
<1>3. \A i \in 1..Len(roots) : i < next
  <2>1. Len(roots) \in Nat
    BY <1>1, LenProperties
  <2>2. QED
    BY <1>1, <2>1
<1>4. Range(roots) \subseteq seen
  BY <1>1, <1>2, <1>3, RangeOf DEF Inv, Complete
<1>5. \A f \in seen : Range(graph[f]) \subseteq seen
  BY <1>2 DEF Inv, Complete
<1>6. QED
  BY <1>1, <1>4, <1>5, NeededClosed

LEMMA InvInit == Init => Inv
<1> SUFFICES ASSUME Init PROVE Inv
  OBVIOUS
<1>1. <<>> \in Seq(Files) /\ <<>> \in Seq(Call) /\ Len(<<>>) = 0
  BY EmptySeq
<1>2. TypeOK
  BY <1>1, FilesAssumption DEF Init, TypeOK
<1>3. Range(<<>>) = {}
  BY DEF Range
<1>4. Once /\ Complete /\ Sound /\ Through
  BY <1>1, <1>3 DEF Init, Once, Complete, Sound, Through
<1>5. QED
  BY <1>2, <1>4 DEF Inv

\* Adding a file that has not been seen.
LEMMA AddEffect ==
    ASSUME TypeOK, Once, NEW f \in Files, f \notin seen, Add(f)
    PROVE  /\ fdset' \in Seq(Files) /\ seen' \subseteq Files /\ f \notin Range(fdset)
           /\ seen' = seen \cup {f} /\ fdset' = Append(fdset, f)
           /\ Once'
<1>1. /\ fdset \in Seq(Files) /\ seen \subseteq Files /\ Len(fdset) \in Nat
      /\ fdset' = Append(fdset, f) /\ seen' = seen \cup {f}
  BY LenProperties DEF TypeOK, Add
<1>2. /\ fdset' \in Seq(Files) /\ Len(fdset') = Len(fdset) + 1
      /\ fdset'[Len(fdset) + 1] = f /\ \A i \in 1..Len(fdset) : fdset'[i] = fdset[i]
  BY <1>1, AppendProperties
<1>3. Range(fdset) = {fdset[i] : i \in 1..Len(fdset)} /\ Range(fdset) = seen
  BY <1>1, RangeOf DEF Once
<1>4. Range(fdset') = {fdset'[i] : i \in 1..Len(fdset')}
  BY <1>2, RangeOf
<1>5. Range(fdset') = seen'
  <2>1. \A i \in 1..Len(fdset') : i \in 1..Len(fdset) \/ i = Len(fdset) + 1
    BY <1>1, <1>2
  <2>2. \A i \in 1..Len(fdset) : i \in 1..Len(fdset')
    BY <1>1, <1>2
  <2>3. Len(fdset) + 1 \in 1..Len(fdset')
    BY <1>1, <1>2
  <2>4. QED
    BY <1>1, <1>2, <1>3, <1>4, <2>1, <2>2, <2>3
<1>6. ASSUME NEW i \in 1..Len(fdset'), NEW j \in 1..Len(fdset'), fdset'[i] = fdset'[j]
      PROVE  i = j
  <2>1. \A k \in 1..Len(fdset) : fdset[k] # f
    BY <1>3
  <2>2. (i \in 1..Len(fdset) \/ i = Len(fdset) + 1) /\ (j \in 1..Len(fdset) \/ j = Len(fdset) + 1)
    BY <1>1, <1>2
  <2>3. QED
    BY <1>2, <1>6, <2>1, <2>2 DEF Once
<1>7. QED
  BY <1>1, <1>2, <1>3, <1>5, <1>6 DEF Once

\* What keeps Complete: waiting files go on waiting or are seen, as do the new
\* root and the imports of a file newly seen.
LEMMA CompleteKept ==
    ASSUME Complete, roots' = roots, graph' = graph,
           \A g : Waiting(g) => g \in seen' \/ Waiting(g)',
           \A i \in 1..Len(roots) : i < next' /\ ~(i < next) =>
                roots[i] \in seen' \/ Waiting(roots[i])',
           seen \subseteq seen',
           \A f \in seen' \ seen : \A g \in Range(graph[f]) : g \in seen' \/ Waiting(g)'
    PROVE  Complete'
<1>1. ASSUME NEW i \in 1..Len(roots), i < next'
      PROVE  roots[i] \in seen' \/ Waiting(roots[i])'
  BY <1>1 DEF Complete
<1>2. ASSUME NEW f \in seen', NEW g \in Range(graph[f])
      PROVE  g \in seen' \/ Waiting(g)'
  BY DEF Complete
<1>3. \A i \in 1..Len(roots') : i < next' => roots'[i] \in seen' \/ Waiting(roots[i])'
  BY <1>1
<1>4. \A f \in seen' : \A g \in Range(graph'[f]) : g \in seen' \/ Waiting(g)'
  BY <1>2
<1>5. QED
  BY <1>3, <1>4 DEF Complete

-----------------------------------------------------------------------------
(* The steps of Reflect *)

LEMMA ResolveStep ==
    ASSUME Inv, Resolve
    PROVE  Inv' /\ UNCHANGED setVars
<1>1. /\ TypeOK /\ Once /\ Complete /\ Sound /\ stack = <<>> /\ next <= Len(roots)
      /\ graph \in [Files -> Seq(Files)] /\ roots \in Seq(Files) /\ next \in Nat \ {0}
      /\ stack' = <<roots[next]>> /\ next' = next + 1 /\ result = "none"
      /\ UNCHANGED <<graph, roots, fdset, result, walk, seen, calls>>
  BY DEF Inv, TypeOK, Resolve, setVars
<1>2. 1 <= next
  BY <1>1
<1>3. next \in 1..Len(roots) /\ roots[next] \in Files
  BY <1>1, <1>2, LenProperties, ElementOfSeq
<1>4. stack' \in Seq(Files) /\ Range(stack') = {roots[next]}
  BY <1>1, <1>3 DEF Range
<1>5. TypeOK'
  BY <1>1, <1>4 DEF TypeOK
<1>6. Once' /\ Through'
  BY <1>1, <1>2 DEF Inv, Once, Through
<1>7. Complete'
  <2>1. ASSUME NEW g, Waiting(g)
        PROVE  Waiting(g)'
    <3>1. g \notin Range(stack)
      BY <1>1 DEF Range
    <3>2. Ahead(calls, g)'
      BY <1>1, <2>1, <3>1 DEF Waiting, Ahead
    <3>3. QED
      BY <3>2 DEF Waiting
  <2>2. PICK h \in Files : h = roots[next]
    BY <1>3
  <2>3. Waiting(h)'
    BY <1>1, <1>4, <2>2 DEF Waiting
  <2>4. ASSUME NEW i \in 1..Len(roots), i < next', ~(i < next)
        PROVE  Waiting(roots[i])'
    <3>1. i = next /\ roots'[i] = h
      BY <1>1, <2>2, <2>4
    <3>2. QED
      BY <2>3, <3>1 DEF Waiting
  <2>5. QED
    BY <1>1, <2>1, <2>4, CompleteKept
<1>8. Sound'
  <2>1. Abs!Needed' = Abs!Needed
    BY <1>1, NeededSame
  <2>2. roots[next] \in Abs!Needed
    BY <1>1, <1>3, NeededClosed, RangeOf
  <2>3. QED
    BY <1>1, <1>4, <2>1, <2>2 DEF Sound
<1>9. QED
  BY <1>1, <1>5, <1>6, <1>7, <1>8 DEF Inv, setVars

LEMMA PopStep ==
    ASSUME Inv, Pop
    PROVE  /\ Inv' /\ UNCHANGED <<graph, roots, result>>
           /\ \/ fdset' = fdset
              \/ \E f \in Abs!Needed \ Range(fdset) : fdset' = Append(fdset, f)
<1> DEFINE f == stack[Len(stack)]
           r == SubSeq(stack, 1, Len(stack) - 1) \o graph[f]
<1>1. /\ TypeOK /\ Once /\ Complete /\ Sound /\ Through /\ stack # <<>>
      /\ graph \in [Files -> Seq(Files)] /\ roots \in Seq(Files) /\ next \in Nat \ {0}
      /\ stack \in Seq(Files) /\ seen \subseteq Files /\ fdset \in Seq(Files)
      /\ UNCHANGED <<graph, roots, result, walk, next, calls>>
      /\ stack' = r
      /\ \/ f \in seen /\ UNCHANGED <<seen, fdset>>
         \/ f \notin seen /\ Add(f)
  <2>1. /\ TypeOK /\ Once /\ Complete /\ Sound /\ Through /\ stack # <<>>
        /\ graph \in [Files -> Seq(Files)] /\ roots \in Seq(Files) /\ next \in Nat \ {0}
        /\ stack \in Seq(Files) /\ seen \subseteq Files /\ fdset \in Seq(Files)
        /\ UNCHANGED <<graph, roots, result, walk, next, calls>>
    BY DEF Inv, TypeOK, Pop
  <2>2. /\ stack' = r
        /\ \/ f \in seen /\ UNCHANGED <<seen, fdset>>
           \/ f \notin seen /\ Add(f)
    BY DEF Pop
  <2>3. QED
    BY <2>1, <2>2
<1>2. f \in Range(stack) /\ f \in Files
  BY <1>1, EmptySeq, RangeOf, ElementOfSeq
<1>3. graph[f] \in Seq(Files) /\ f \in Abs!Needed /\ Range(graph[f]) \subseteq Abs!Needed
  BY <1>1, <1>2, NeededClosed DEF Sound
<1>4. /\ r \in Seq(Files)
      /\ Range(stack) \subseteq Range(r) \cup {f} /\ Range(graph[f]) \subseteq Range(r)
      /\ Range(r) \subseteq Range(stack) \cup Range(graph[f])
  BY <1>1, <1>3, ReplaceLast
<1> HIDE DEF r
<1>5. PICK h \in Files : h = f
  BY <1>2
<1> HIDE DEF f
<1>6. /\ seen' = seen \cup {h} /\ fdset' \in Seq(Files) /\ Once'
      /\ fdset' = fdset \/ (h \notin Range(fdset) /\ fdset' = Append(fdset, h))
  <2>1. CASE h \in seen /\ UNCHANGED <<seen, fdset>>
    <3>1. seen' = seen \cup {h} /\ seen' = seen /\ fdset' = fdset
      BY <2>1
    <3>2. Once'
      BY <1>1, <3>1 DEF Once
    <3>3. fdset' \in Seq(Files)
      BY <1>1, <3>1
    <3>4. QED
      BY <3>1, <3>2, <3>3
  <2>2. CASE h \notin seen /\ Add(h)
    BY <1>1, <2>2, AddEffect
  <2>3. QED
    BY <1>1, <1>5, <2>1, <2>2
<1>7. TypeOK'
  BY <1>1, <1>4, <1>6 DEF TypeOK
<1>8. Through'
  BY <1>1 DEF Through
<1>9. Complete'
  <2>1. \A g : Waiting(g) => g \in seen' \/ Waiting(g)'
    BY <1>1, <1>4, <1>5, <1>6 DEF Waiting, Ahead
  <2>2. \A g \in Range(graph[h]) : Waiting(g)'
    BY <1>1, <1>4, <1>5 DEF Waiting
  <2>3. QED
    BY <1>1, <1>6, <2>1, <2>2, CompleteKept
<1>10. Sound'
  <2>1. Abs!Needed' = Abs!Needed
    BY <1>1, NeededSame
  <2>2. QED
    BY <1>1, <1>3, <1>4, <1>5, <1>6, <2>1 DEF Sound
<1>11. QED
  BY <1>1, <1>3, <1>5, <1>6, <1>7, <1>8, <1>9, <1>10 DEF Inv

-----------------------------------------------------------------------------
(* The steps of Load *)

\* What a call of walkFileDescriptors for f adds to the calls cs.
LEMMA VisitEffect ==
    ASSUME Inv, NEW cs \in Seq(Call), NEW f \in Files, Visit(f, cs), graph' = graph,
           \A k \in 1..Len(cs) : cs[k].file \in seen
    PROVE  /\ calls' \in Seq(Call) /\ fdset' \in Seq(Files) /\ Once'
           /\ seen' = seen \cup {f}
           /\ \A k \in 1..Len(calls') : calls'[k].file \in seen'
           /\ \A g : Ahead(cs, g) => Ahead(calls, g)'
           /\ \A h \in seen' \ seen : \A g \in Range(graph[h]) : Ahead(calls, g)'
           /\ fdset' = fdset \/ (f \notin Range(fdset) /\ fdset' = Append(fdset, f))
<1>1. /\ TypeOK /\ Once /\ graph \in [Files -> Seq(Files)] /\ fdset \in Seq(Files)
      /\ Len(cs) \in Nat
  BY LenProperties DEF Inv, TypeOK
<1>2. CASE f \in seen /\ calls' = cs /\ UNCHANGED <<seen, fdset>>
  <2>1. seen' = seen \cup {f} /\ seen' = seen /\ fdset' = fdset
    BY <1>2
  <2>2. Once'
    BY <1>1, <2>1 DEF Once
  <2>3. \A g : Ahead(cs, g) => Ahead(calls, g)'
    BY <1>2 DEF Ahead
  <2>4. fdset' \in Seq(Files)
    BY <1>1, <2>1
  <2>5. \A k \in 1..Len(calls') : calls'[k].file \in seen'
    BY <1>2
  <2>6. calls' \in Seq(Call)
    BY <1>2
  <2>7. QED
    BY <2>1, <2>2, <2>3, <2>4, <2>5, <2>6
<1>3. CASE f \notin seen /\ calls' = Append(cs, [file |-> f, dep |-> 1]) /\ Add(f)
  <2>1. /\ fdset' \in Seq(Files) /\ f \notin Range(fdset)
        /\ seen' = seen \cup {f} /\ fdset' = Append(fdset, f) /\ Once'
    BY <1>1, <1>3, AddEffect
  <2> DEFINE c == [file |-> f, dep |-> 1]
  <2>2. c \in Call /\ c.file = f /\ c.dep = 1
    BY DEF Call
  <2>3. calls' = Append(cs, c)
    BY <1>3
  <2> HIDE DEF c
  <2>4. /\ calls' \in Seq(Call) /\ Len(calls') = Len(cs) + 1 /\ calls'[Len(cs) + 1] = c
        /\ \A k \in 1..Len(cs) : calls'[k] = cs[k]
    BY <2>2, <2>3, AppendProperties
  <2>5. /\ \A k \in 1..Len(calls') : k \in 1..Len(cs) \/ k = Len(cs) + 1
        /\ \A k \in 1..Len(cs) : k \in 1..Len(calls')
        /\ Len(cs) + 1 \in 1..Len(calls')
    BY <1>1, <2>4
  <2>6. \A k \in 1..Len(calls') : calls'[k].file \in seen'
    BY <2>1, <2>2, <2>4, <2>5
  <2>7. ASSUME NEW g, Ahead(cs, g)
        PROVE  Ahead(calls, g)'
    <3>1. PICK k \in 1..Len(cs) : \E i \in 1..Len(graph[cs[k].file]) :
                i >= cs[k].dep /\ g = graph[cs[k].file][i]
      BY <2>7 DEF Ahead
    <3>2. k \in 1..Len(calls') /\ calls'[k] = cs[k]
      BY <2>4, <2>5
    <3>3. QED
      BY <3>1, <3>2 DEF Ahead
  <2>8. ASSUME NEW g \in Range(graph[f])
        PROVE  Ahead(calls, g)'
    <3>1. graph[f] \in Seq(Files)
      BY <1>1
    <3>2. PICK i \in 1..Len(graph[f]) : g = graph[f][i]
      BY <3>1, RangeOf
    <3>3. i >= 1
      OBVIOUS
    <3>4. QED
      BY <2>2, <2>4, <2>5, <3>2, <3>3 DEF Ahead
  <2>9. QED
    BY <2>1, <2>4, <2>6, <2>7, <2>8
<1>4. QED
  BY <1>2, <1>3 DEF Visit

LEMMA EnterStep ==
    ASSUME Inv, Enter
    PROVE  /\ Inv' /\ UNCHANGED <<graph, roots, result>>
           /\ \/ fdset' = fdset
              \/ \E f \in Abs!Needed \ Range(fdset) : fdset' = Append(fdset, f)
<1>1. /\ TypeOK /\ Complete /\ Sound /\ calls = <<>>
      /\ graph \in [Files -> Seq(Files)] /\ roots \in Seq(Files) /\ next \in Nat \ {0}
      /\ next <= Len(roots) /\ next' = next + 1 /\ result = "none"
      /\ UNCHANGED <<graph, roots, result, walk, stack>>
      /\ Visit(roots[next], <<>>)
  <2>1. /\ TypeOK /\ Complete /\ Sound
        /\ graph \in [Files -> Seq(Files)] /\ roots \in Seq(Files) /\ next \in Nat \ {0}
    BY DEF Inv, TypeOK
  <2>2. /\ calls = <<>> /\ next <= Len(roots) /\ next' = next + 1 /\ result = "none"
        /\ UNCHANGED <<graph, roots, result, walk, stack>>
        /\ Visit(roots[next], <<>>)
    BY DEF Enter
  <2>3. QED
    BY <2>1, <2>2
<1>2. next \in 1..Len(roots) /\ next >= 1
  BY <1>1, LenProperties
<1>3. PICK h \in Files : h = roots[next]
  BY <1>1, <1>2, ElementOfSeq
<1>4. h \in Abs!Needed
  <2>1. h \in Range(roots)
    BY <1>1, <1>2, <1>3, RangeOf
  <2>2. Range(roots) \subseteq Abs!Needed
    BY <1>1, NeededClosed
  <2>3. QED
    BY <2>1, <2>2
<1>5. <<>> \in Seq(Call) /\ Len(<<>>) = 0
  BY EmptySeq
<1>6. /\ calls' \in Seq(Call) /\ fdset' \in Seq(Files) /\ Once'
      /\ seen' = seen \cup {h}
      /\ \A k \in 1..Len(calls') : calls'[k].file \in seen'
      /\ \A f \in seen' \ seen : \A g \in Range(graph[f]) : Ahead(calls, g)'
      /\ fdset' = fdset \/ (h \notin Range(fdset) /\ fdset' = Append(fdset, h))
  <2>1. Visit(h, <<>>) /\ graph' = graph
    BY <1>1, <1>3
  <2>2. \A k \in 1..Len(<<>>) : <<>>[k].file \in seen
    BY <1>5
  <2>3. QED
    BY <1>5, <2>1, <2>2, VisitEffect
<1>7. TypeOK'
  BY <1>1, <1>6 DEF TypeOK
<1>8. Through'
  BY <1>1, <1>2 DEF Enter, Through
<1>9. Complete'
  <2>1. ASSUME NEW g, Waiting(g)
        PROVE  Waiting(g)'
    BY <1>1, <1>5, <2>1 DEF Waiting, Ahead
  <2>2. ASSUME NEW i \in 1..Len(roots), i < next', ~(i < next)
        PROVE  roots[i] \in seen'
    <3>1. i = next
      BY <1>1, <2>2
    <3>2. QED
      BY <1>3, <1>6, <3>1
  <2>3. \A f \in seen' \ seen : \A g \in Range(graph[f]) : Waiting(g)'
    BY <1>6 DEF Waiting
  <2>4. QED
    BY <1>1, <1>6, <2>1, <2>2, <2>3, CompleteKept
<1>10. Sound'
  <2>1. Abs!Needed' = Abs!Needed
    BY <1>1, NeededSame
  <2>2. QED
    BY <1>1, <1>4, <1>6, <2>1 DEF Sound
<1>11. QED
  BY <1>1, <1>4, <1>6, <1>7, <1>8, <1>9, <1>10 DEF Inv

LEMMA DescendStep ==
    ASSUME Inv, Descend
    PROVE  /\ Inv' /\ UNCHANGED <<graph, roots, result>>
           /\ \/ fdset' = fdset
              \/ \E f \in Abs!Needed \ Range(fdset) : fdset' = Append(fdset, f)
<1> DEFINE n == Len(calls)
           c == calls[n]
           d == [c EXCEPT !.dep = @ + 1]
           cs == [calls EXCEPT ![n] = d]
<1>1. /\ TypeOK /\ Complete /\ Sound /\ Through /\ calls # <<>>
      /\ graph \in [Files -> Seq(Files)] /\ roots \in Seq(Files) /\ next \in Nat \ {0}
      /\ calls \in Seq(Call)
      /\ UNCHANGED <<graph, roots, result, walk, next, stack>>
  BY DEF Inv, TypeOK, Descend
<1>2. c.dep <= Len(graph[c.file]) /\ Visit(graph[c.file][c.dep], cs)
  BY DEF Descend
<1>3. n \in 1..Len(calls) /\ c \in Call
  BY <1>1, EmptySeq, ElementOfSeq
<1>4. c.file \in Files /\ c.dep \in Nat \ {0} /\ d \in Call /\ d.file = c.file /\ d.dep = c.dep + 1
  BY <1>3 DEF Call
<1> HIDE DEF d
<1>5. /\ cs \in Seq(Call) /\ Len(cs) = Len(calls)
      /\ \A k \in 1..Len(calls) : cs[k] = IF k = n THEN d ELSE calls[k]
  BY <1>1, <1>3, <1>4, ExceptSeq
<1> HIDE DEF cs, c
<1>6. \A k \in 1..Len(cs) : cs[k].file \in seen
  <2>1. \A k \in 1..Len(calls) : calls[k].file \in seen
    BY <1>1 DEF Sound
  <2>2. c.file \in seen
    BY <1>3, <2>1 DEF c
  <2>3. QED
    BY <1>4, <1>5, <2>1, <2>2
<1>7. c.file \in seen /\ c.file \in Abs!Needed
  BY <1>1, <1>3 DEF Sound, c
<1>8. graph[c.file] \in Seq(Files)
  BY <1>1, <1>4
<1>9. c.dep \in 1..Len(graph[c.file])
  BY <1>2, <1>4, <1>8, LenProperties
<1>10. PICK h \in Files : h = graph[c.file][c.dep]
  BY <1>8, <1>9, ElementOfSeq
<1>11. h \in Range(graph[c.file]) /\ h \in Abs!Needed
  BY <1>1, <1>7, <1>8, <1>9, <1>10, RangeOf, NeededClosed
<1>12. /\ calls' \in Seq(Call) /\ fdset' \in Seq(Files) /\ Once'
       /\ seen' = seen \cup {h}
       /\ \A k \in 1..Len(calls') : calls'[k].file \in seen'
       /\ \A g : Ahead(cs, g) => Ahead(calls, g)'
       /\ \A f \in seen' \ seen : \A g \in Range(graph[f]) : Ahead(calls, g)'
       /\ fdset' = fdset \/ (h \notin Range(fdset) /\ fdset' = Append(fdset, h))
  BY <1>1, <1>2, <1>5, <1>6, <1>10, VisitEffect
<1>13. TypeOK'
  BY <1>1, <1>12 DEF TypeOK
<1>14. Through'
  BY <1>1 DEF Through
<1>15. Complete'
  <2>1. ASSUME NEW g, Waiting(g)
        PROVE  g \in seen' \/ Waiting(g)'
    <3>1. CASE g \in Range(stack)
      BY <1>1, <3>1 DEF Waiting
    <3>2. CASE Ahead(calls, g)
      <4>1. PICK k \in 1..Len(calls) : \E i \in 1..Len(graph[calls[k].file]) :
                i >= calls[k].dep /\ g = graph[calls[k].file][i]
        BY <3>2 DEF Ahead
      <4>2. PICK i \in 1..Len(graph[calls[k].file]) :
                i >= calls[k].dep /\ g = graph[calls[k].file][i]
        BY <4>1
      <4>3. CASE k = n /\ i = c.dep
        BY <1>10, <1>12, <4>2, <4>3 DEF c
      <4>4. CASE k = n /\ i # c.dep
        <5>1. i >= d.dep /\ i \in 1..Len(graph[d.file]) /\ g = graph[d.file][i]
          BY <1>4, <4>2, <4>4 DEF c
        <5>2. cs[n] = d /\ n \in 1..Len(cs)
          BY <1>3, <1>5
        <5>3. Ahead(cs, g)
          BY <5>1, <5>2 DEF Ahead
        <5>4. QED
          BY <1>12, <5>3 DEF Waiting
      <4>5. CASE k # n
        <5>1. cs[k] = calls[k] /\ k \in 1..Len(cs)
          BY <1>5, <4>5
        <5>2. Ahead(cs, g)
          BY <4>2, <5>1 DEF Ahead
        <5>3. QED
          BY <1>12, <5>2 DEF Waiting
      <4>6. QED
        BY <4>3, <4>4, <4>5
    <3>3. QED
      BY <2>1, <3>1, <3>2 DEF Waiting
  <2>2. \A f \in seen' \ seen : \A g \in Range(graph[f]) : Waiting(g)'
    BY <1>12 DEF Waiting
  <2>3. QED
    BY <1>1, <1>12, <2>1, <2>2, CompleteKept
<1>16. Sound'
  <2>1. Abs!Needed' = Abs!Needed
    BY <1>1, NeededSame
  <2>2. QED
    BY <1>1, <1>11, <1>12, <2>1 DEF Sound
<1>17. QED
  BY <1>1, <1>11, <1>12, <1>13, <1>14, <1>15, <1>16 DEF Inv

LEMMA ReturnStep ==
    ASSUME Inv, Return
    PROVE  Inv' /\ UNCHANGED setVars
<1> DEFINE n == Len(calls)
           front == SubSeq(calls, 1, Len(calls) - 1)
<1>1. /\ TypeOK /\ Once /\ Complete /\ Sound /\ Through /\ calls # <<>> /\ calls \in Seq(Call)
      /\ graph \in [Files -> Seq(Files)]
      /\ calls[n].dep > Len(graph[calls[n].file]) /\ calls' = front
      /\ UNCHANGED <<setVars, walk, next, seen, stack>>
  BY DEF Inv, TypeOK, Return
<1>2. /\ front \in Seq(Call) /\ Len(front) = n - 1
      /\ \A k \in 1..n - 1 : front[k] = calls[k]
  BY <1>1, FrontOf
<1> HIDE DEF front
<1>3. n \in Nat
  BY <1>1, LenProperties
<1>4. calls[n] \in Call
  BY <1>1, <1>3, EmptySeq, ElementOfSeq
<1>5. TypeOK'
  BY <1>1, <1>2 DEF TypeOK, setVars
<1>6. Once' /\ Through'
  BY <1>1 DEF Once, Through, setVars
<1>7. Complete'
  <2>1. ASSUME NEW g, Ahead(calls, g)
        PROVE  Ahead(calls, g)'
    <3>1. PICK k \in 1..n : \E i \in 1..Len(graph[calls[k].file]) :
                i >= calls[k].dep /\ g = graph[calls[k].file][i]
      BY <2>1 DEF Ahead
    <3>2. PICK i \in 1..Len(graph[calls[k].file]) :
                i >= calls[k].dep /\ g = graph[calls[k].file][i]
      BY <3>1
    <3>3. k # n
      <4>1. SUFFICES ASSUME k = n PROVE FALSE
        OBVIOUS
      <4>2. /\ i \in 1..Len(graph[calls[n].file]) /\ i >= calls[n].dep
            /\ calls[n].dep \in Nat /\ Len(graph[calls[n].file]) \in Nat
        BY <1>1, <1>4, <3>2, <4>1, LenProperties DEF Call
      <4>3. QED
        BY <1>1, <4>2
    <3>4. k \in 1..Len(calls') /\ calls'[k] = calls[k] /\ graph' = graph
      BY <1>1, <1>2, <1>3, <3>3 DEF setVars
    <3>5. QED
      BY <3>2, <3>4 DEF Ahead
  <2>2. \A g : Waiting(g) => Waiting(g)'
    BY <1>1, <2>1 DEF Waiting
  <2>3. QED
    BY <1>1, <2>2, CompleteKept DEF setVars
<1>8. Sound'
  <2>1. Abs!Needed' = Abs!Needed
    BY <1>1, NeededSame DEF setVars
  <2>2. \A k \in 1..Len(calls') : calls'[k].file \in seen'
    <3>1. ASSUME NEW k \in 1..Len(calls')
          PROVE  k \in 1..n - 1 /\ k \in 1..n /\ calls'[k] = calls[k]
      BY <1>1, <1>2, <1>3
    <3>2. QED
      BY <1>1, <3>1 DEF Sound
  <2>3. QED
    BY <1>1, <2>1, <2>2 DEF Sound
<1>9. QED
  BY <1>1, <1>5, <1>6, <1>7, <1>8 DEF Inv

-----------------------------------------------------------------------------
(* The end, and the theorems *)

\* Steps that change only the result, and steps that change nothing.
LEMMA ResultStep ==
    ASSUME Inv, result' \in {"none", "files", "error"},
           UNCHANGED <<graph, roots, fdset, walk, next, seen, stack, calls>>,
           result' = "files" => next > Len(roots),
           result' # "none" => stack = <<>> /\ calls = <<>>
    PROVE  Inv'
<1>1. TypeOK'
  BY DEF Inv, TypeOK
<1>2. Once' /\ Through'
  BY DEF Inv, Once, Through
<1>3. Complete'
  BY CompleteKept DEF Inv, Waiting, Ahead
<1>4. Sound'
  <2>1. Abs!Needed' = Abs!Needed
    BY NeededSame
  <2>2. QED
    BY <2>1 DEF Inv, Sound
<1>5. QED
  BY <1>1, <1>2, <1>3, <1>4 DEF Inv

\* Every step keeps the invariant, and is a step of FileSet or leaves its
\* variables alone.
LEMMA Step ==
    ASSUME Inv, [Next]_vars
    PROVE  Inv' /\ [Abs!Next]_(Abs!setVars)
<1> USE DEF Abs!setVars, setVars
<1>1. CASE Resolve
  BY <1>1, ResolveStep
<1>2. CASE ReflectFails
  <2>1. Inv'
    BY <1>2, ResultStep DEF ReflectFails, Inv, Through
  <2>2. Abs!Fail
    BY <1>2 DEF ReflectFails, Abs!Fail
  <2>3. QED
    BY <2>1, <2>2 DEF Abs!Next
<1>3. CASE /\ Inv' /\ UNCHANGED <<graph, roots, result>> /\ result = "none"
           /\ \/ fdset' = fdset
              \/ \E f \in Abs!Needed \ Range(fdset) : fdset' = Append(fdset, f)
  <2>1. Range(fdset) = Abs!Range(fdset)
    BY DEF Range, Abs!Range
  <2>2. CASE fdset' = fdset
    BY <1>3, <2>2
  <2>3. CASE \E f \in Abs!Needed \ Range(fdset) : fdset' = Append(fdset, f)
    BY <1>3, <2>1, <2>3 DEF Abs!Next, Abs!Collect
  <2>4. QED
    BY <1>3, <2>2, <2>3
<1>4. CASE Pop \/ Descend
  <2>1. result = "none"
    BY <1>4 DEF Inv, Through, Pop, Descend
  <2>2. QED
    BY <1>3, <1>4, <2>1, PopStep, DescendStep
<1>5. CASE Enter
  BY <1>3, <1>5, EnterStep DEF Enter
<1>6. CASE Return
  BY <1>6, ReturnStep
<1>7. CASE Finish
  <2>1. Inv'
    BY <1>7, ResultStep DEF Finish
  <2>2. Range(fdset) = Abs!Needed
    BY <1>7, ThroughComplete DEF Finish
  <2>3. Abs!Range(fdset) = Range(fdset)
    BY DEF Range, Abs!Range
  <2>4. Abs!Finish
    BY <1>7, <2>2, <2>3 DEF Finish, Abs!Finish
  <2>5. QED
    BY <2>1, <2>4 DEF Abs!Next
<1>8. CASE UNCHANGED vars
  <2>1. Inv'
    BY <1>8, ResultStep DEF vars, Inv, TypeOK, Through
  <2>2. QED
    BY <1>8, <2>1 DEF vars
<1>9. QED
  BY <1>1, <1>2, <1>4, <1>5, <1>6, <1>7, <1>8 DEF Next, Returned

LEMMA Invariant == Spec => []Inv
<1>1. Inv /\ [Next]_vars => Inv'
  BY Step
<1>2. QED
  BY <1>1, InvInit, PTL DEF Spec

\* Every variable keeps its type.
THEOREM WalkTypes == Spec => []TypeOK
<1>1. Inv => TypeOK
  BY DEF Inv
<1>2. QED
  BY <1>1, Invariant, PTL

\* protodesc.NewFiles accepts what a walk returns: no file twice, no import
\* missing (Reflect, Load).
THEOREM WalksAreAccepted == Spec => []NewFilesAccepts
<1>1. ASSUME Inv, result = "files"
      PROVE  /\ IsInjective(fdset)
             /\ \A f \in Range(fdset) : Range(graph[f]) \subseteq Range(fdset)
  <2>1. graph \in [Files -> Seq(Files)] /\ roots \in Seq(Files) /\ fdset \in Seq(Files)
    BY <1>1 DEF Inv, TypeOK
  <2>2. Range(fdset) = Abs!Needed
    BY <1>1, ThroughComplete DEF Inv, Through
  <2>3. \A f \in Range(fdset) : Range(graph[f]) \subseteq Range(fdset)
    BY <2>1, <2>2, NeededClosed
  <2>4. DOMAIN fdset = 1..Len(fdset)
    BY <2>1, LenProperties
  <2>5. IsInjective(fdset)
    BY <1>1, <2>4 DEF Inv, Once, IsInjective
  <2>6. QED
    BY <2>3, <2>5
<1>2. Inv => NewFilesAccepts
  BY <1>1 DEF NewFilesAccepts
<1>3. QED
  BY <1>2, Invariant, PTL

\* Both walks implement FileSet: they collect the files asked for and all their
\* imports, nothing else and nothing twice, also when imports form a cycle
\* (in which case Reflect need not end).
THEOREM WalksImplementFileSet == Spec => Implements
<1>1. Init => Abs!Init
  BY DEF Init, Abs!Init
<1>2. Inv /\ [Next]_vars => [Abs!Next]_(Abs!setVars)
  BY Step
<1>3. QED
  BY <1>1, <1>2, Invariant, PTL DEF Spec, Implements, Abs!Spec
-----------------------------------------------------------------------------
(* The walk of Load ends *)

\* What is left to do is made of these.
Things == Files \cup Nat

\* What is left to do, the weightier first: the files not seen, the parsed
\* files not entered, the active calls, the dependencies the innermost one has
\* before it, and the return itself.
Left ==
    <<Files \ seen,
      next..Len(roots),
      1..Len(calls),
      IF calls = <<>> THEN {}
      ELSE calls[Len(calls)].dep..Len(graph[calls[Len(calls)].file]),
      IF result = "none" THEN {0} ELSE {}>>

\* There is a finite amount of each.
LEMMA LeftFinite ==
    IsFiniteSet(Files) /\ TypeOK => Left \in Measures(Things, 5)
<1> SUFFICES ASSUME IsFiniteSet(Files), TypeOK
             PROVE  Left \in Measures(Things, 5)
  OBVIOUS
<1> DEFINE n == Len(calls)
           c == calls[n]
<1>1. /\ graph \in [Files -> Seq(Files)] /\ next \in Nat /\ calls \in Seq(Call)
      /\ Len(roots) \in Nat /\ n \in Nat
  BY LenProperties DEF TypeOK
<1>2. \A a, b \in Nat : a..b \in FiniteSubsetsOf(Things)
  BY FS_Interval DEF FiniteSubsetsOf, Things
<1>3. Files \ seen \in FiniteSubsetsOf(Things)
  <2>1. IsFiniteSet(Files \ seen)
    BY FS_Subset
  <2>2. QED
    BY <2>1 DEF FiniteSubsetsOf, Things
<1>4. {} \in FiniteSubsetsOf(Things) /\ {0} \in FiniteSubsetsOf(Things)
  BY FS_EmptySet, FS_Singleton DEF FiniteSubsetsOf, Things
<1>5. ASSUME calls # <<>>
      PROVE  c.dep..Len(graph[c.file]) \in FiniteSubsetsOf(Things)
  <2>1. c \in Call
    BY <1>1, <1>5, EmptySeq, ElementOfSeq
  <2>2. c.dep \in Nat /\ Len(graph[c.file]) \in Nat
    BY <1>1, <2>1, LenProperties DEF Call
  <2>3. QED
    BY <1>2, <2>2
<1>6. next..Len(roots) \in FiniteSubsetsOf(Things) /\ 1..n \in FiniteSubsetsOf(Things)
  BY <1>1, <1>2
<1> DEFINE d == IF calls = <<>> THEN {} ELSE c.dep..Len(graph[c.file])
           e == IF result = "none" THEN {0} ELSE {}
<1>7. d \in FiniteSubsetsOf(Things) /\ e \in FiniteSubsetsOf(Things)
  BY <1>4, <1>5
<1>8. Left = <<Files \ seen, next..Len(roots), 1..n, d, e>>
  BY DEF Left
<1> HIDE DEF d, e, n
<1>9. QED
  BY <1>3, <1>6, <1>7, <1>8, FiveSets

\* Load has no stack but that of its calls.
NoStack == walk = "load" => stack = <<>>

LEMMA LoadHasNoStack == Spec => []NoStack
<1>1. Init => NoStack
  BY DEF Init, NoStack
<1>2. ASSUME NoStack, [Next]_vars
      PROVE  NoStack'
  <2>1. CASE Resolve \/ ReflectFails
    BY <2>1 DEF Resolve, ReflectFails, NoStack
  <2>2. CASE Pop
    BY <1>2, <2>2 DEF Pop, NoStack
  <2>3. CASE Enter \/ Descend \/ Return \/ Finish \/ UNCHANGED vars
    BY <1>2, <2>3 DEF Enter, Descend, Return, Finish, vars, NoStack
  <2>4. QED
    BY <1>2, <2>1, <2>2, <2>3 DEF Next, Returned
<1>3. QED
  BY <1>1, <1>2, PTL DEF Spec

\* The same as a state predicate.
LeftIsFinite == Left \in Measures(Things, 5)

LeftLess == <<Left', Left>> \in Less(Things, 5)

\* A step of Load.
LEMMA LoadStep ==
    ASSUME Inv, NoStack, LeftIsFinite, LeftIsFinite', [Next]_vars, vars' # vars, walk = "load"
    PROVE  LeftLess
<1> DEFINE n == Len(calls)
           c == calls[n]
<1>1. /\ graph \in [Files -> Seq(Files)] /\ roots \in Seq(Files) /\ Len(roots) \in Nat
      /\ next \in Nat /\ next >= 1 /\ calls \in Seq(Call) /\ n \in Nat
  BY LenProperties DEF Inv, TypeOK
\* The component j shrinks and those before it stay.
<1>2. ASSUME NEW j \in 1..5, Left'[j] \subseteq Left[j], Left'[j] # Left[j],
             j > 1 => Left'[1] = Left[1], j > 2 => Left'[2] = Left[2],
             j > 3 => Left'[3] = Left[3], j > 4 => Left'[4] = Left[4]
      PROVE  LeftLess
  BY <1>2, FiveLess DEF LeftIsFinite, LeftLess
<1>3. /\ Left[1] = Files \ seen /\ Left[2] = next..Len(roots) /\ Left[3] = 1..n
      /\ Left'[1] = Files \ seen' /\ Left'[2] = next'..Len(roots') /\ Left'[3] = 1..Len(calls')
      /\ calls # <<>> => Left[4] = c.dep..Len(graph[c.file])
      /\ calls' # <<>> =>
            Left'[4] = calls'[Len(calls')].dep..Len(graph'[calls'[Len(calls')].file])
  BY DEF Left
<1>4. ASSUME NEW f \in Files, f \notin seen, seen' = seen \cup {f}
      PROVE  LeftLess
  <2>1. Left'[1] \subseteq Left[1] /\ Left'[1] # Left[1]
    BY <1>3, <1>4
  <2>2. QED
    BY <1>2, <2>1
<1>5. CASE Enter
  <2>1. /\ next <= Len(roots) /\ next' = next + 1 /\ roots' = roots
        /\ Visit(roots[next], <<>>)
    BY <1>5 DEF Enter
  <2>2. roots[next] \in Files
    BY <1>1, <2>1, ElementOfSeq
  <2>3. CASE seen' = seen
    <3>1. Left'[2] \subseteq Left[2]
      BY <1>1, <1>3, <2>1
    <3>2. next \in Left[2] /\ next \notin Left'[2]
      BY <1>1, <1>3, <2>1
    <3>3. Left'[1] = Left[1]
      BY <1>3, <2>3
    <3>4. QED
      BY <1>2, <3>1, <3>2, <3>3
  <2>4. QED
    BY <1>4, <2>1, <2>2, <2>3 DEF Visit, Add
<1>6. CASE Descend
  <2> DEFINE f == graph[c.file][c.dep]
             cs == [calls EXCEPT ![n].dep = @ + 1]
  <2>1. /\ calls # <<>> /\ c.dep <= Len(graph[c.file]) /\ Visit(f, cs)
        /\ UNCHANGED <<graph, roots, next>>
    BY <1>6 DEF Descend
  <2>2. c \in Call /\ n \in 1..n
    BY <1>1, <2>1, EmptySeq, ElementOfSeq
  <2>3. /\ c.file \in Files /\ graph[c.file] \in Seq(Files) /\ Len(graph[c.file]) \in Nat
        /\ c.dep \in 1..Len(graph[c.file])
    BY <1>1, <2>1, <2>2, LenProperties DEF Call
  <2>4. f \in Files
    BY <2>3, ElementOfSeq
  <2>5. CASE seen' = seen /\ calls' = cs
    <3>1. Len(calls') = n /\ calls' # <<>>
      BY <1>1, <2>1, <2>5, EmptySeq, ExceptSeq
    <3>2. calls'[n].file = c.file /\ calls'[n].dep = c.dep + 1
      BY <1>1, <2>2, <2>5 DEF Call
    <3>3. Left[4] = c.dep..Len(graph[c.file]) /\ Left'[4] = c.dep + 1..Len(graph[c.file])
      BY <1>3, <2>1, <3>1, <3>2
    <3>4. Left'[4] \subseteq Left[4] /\ c.dep \in Left[4] /\ c.dep \notin Left'[4]
      BY <2>3, <3>3
    <3>5. Left'[1] = Left[1] /\ Left'[2] = Left[2] /\ Left'[3] = Left[3]
      BY <1>3, <2>1, <2>5, <3>1
    <3>6. QED
      BY <1>2, <3>4, <3>5
  <2>6. QED
    BY <1>4, <2>1, <2>4, <2>5 DEF Visit, Add
<1>7. CASE Return
  <2>1. /\ calls # <<>> /\ calls' = SubSeq(calls, 1, n - 1)
        /\ UNCHANGED <<roots, next, seen>>
    BY <1>7 DEF Return, setVars
  <2>2. n \in 1..n /\ Len(calls') = n - 1
    BY <1>1, <2>1, EmptySeq, FrontOf
  <2>3. Left'[3] \subseteq Left[3] /\ n \in Left[3] /\ n \notin Left'[3]
    BY <1>1, <1>3, <2>2
  <2>4. Left'[1] = Left[1] /\ Left'[2] = Left[2]
    BY <1>3, <2>1
  <2>5. QED
    BY <1>2, <2>3, <2>4
<1>8. CASE Finish
  <2>1. /\ result = "none" /\ result' = "files" /\ calls = <<>>
        /\ UNCHANGED <<graph, roots, next, seen, calls>>
    BY <1>8 DEF Finish
  <2>2. /\ Left[4] = {} /\ Left[5] = {0} /\ Left'[4] = {} /\ Left'[5] = {}
    BY <2>1 DEF Left
  <2>3. /\ Left'[1] = Left[1] /\ Left'[2] = Left[2]
        /\ Left'[3] = Left[3] /\ Left'[4] = Left[4]
    BY <1>3, <2>1, <2>2
  <2>4. QED
    BY <1>2, <2>2, <2>3
<1>9. QED
  BY <1>5, <1>6, <1>7, <1>8 DEF Next, NoStack, Resolve, ReflectFails, Pop, Returned

\* The walk of Load ends, also when imports form a cycle: each of its steps
\* leaves less to do, and that cannot go on for ever (walkFileDescriptors, whose
\* mark in seen comes before the descent).
THEOREM LoadEnds ==
    IsFiniteSet(Files) =>
        /\ IsWellFoundedOn(Less(Things, 5), Measures(Things, 5))
        /\ Spec => []LeftIsFinite
        /\ Spec => [][walk = "load" => LeftLess]_vars
<1> SUFFICES ASSUME IsFiniteSet(Files)
             PROVE  /\ Spec => []LeftIsFinite
                    /\ Spec => [][walk = "load" => LeftLess]_vars
  BY LessWellFounded
<1>1. Inv => LeftIsFinite
  BY LeftFinite DEF Inv, LeftIsFinite
<1>2. Inv /\ NoStack /\ LeftIsFinite /\ LeftIsFinite' /\ [Next]_vars
        => [walk = "load" => LeftLess]_vars
  BY LoadStep
<1>3. QED
  BY <1>1, <1>2, Invariant, LoadHasNoStack, PTL DEF Spec

-----------------------------------------------------------------------------
(* The end of Reflect's walk *)

\* Imports without cycles: they go from lower to higher ranks.
Ranking(rank, n) ==
    /\ rank \in [Graphs -> [Files -> 1..n]]
    /\ \A g \in Graphs, f \in Files : \A h \in Range(g[f]) : rank[g][f] < rank[g][h]

\* What is left to do, the weightier first: the services not resolved, then the
\* places on the stack of the files of each rank, and the return.
ReflectLeft(rank, n) ==
    [k \in 1..n + 2 |->
        IF k = 1 THEN next..Len(roots)
        ELSE IF k = n + 2 THEN (IF result = "none" THEN {0} ELSE {})
        ELSE Places(stack, rank[graph], k - 1)]

ReflectLeftIsFinite(rank, n) == ReflectLeft(rank, n) \in Measures(Nat, n + 2)
ReflectLeftLess(rank, n) ==
    <<ReflectLeft(rank, n)', ReflectLeft(rank, n)>> \in Less(Nat, n + 2)

\* The imports are those of one of the graphs, and only Load makes calls.
Given == graph \in Graphs /\ (walk = "reflect" => calls = <<>>)

LEMMA GivenHolds == Spec => []Given
<1>1. Init => Given
  BY DEF Init, Given
<1>2. ASSUME Given, [Next]_vars
      PROVE  Given'
  <2>1. CASE Enter \/ Descend \/ Return
    BY <1>2, <2>1 DEF Enter, Descend, Return, setVars, Given
  <2>2. CASE Resolve \/ ReflectFails \/ Pop \/ Finish \/ UNCHANGED vars
    BY <1>2, <2>2 DEF Resolve, ReflectFails, Pop, Finish, vars, setVars, Given
  <2>3. QED
    BY <1>2, <2>1, <2>2 DEF Next, Returned
<1>3. QED
  BY <1>1, <1>2, PTL DEF Spec

LEMMA ReflectLeftFinite ==
    ASSUME TypeOK, NEW n \in Nat, NEW rank
    PROVE  ReflectLeftIsFinite(rank, n)
<1>1. next \in Nat /\ Len(roots) \in Nat /\ stack \in Seq(Files)
  BY LenProperties DEF TypeOK
<1>2. next..Len(roots) \in FiniteSubsetsOf(Nat)
  <2>1. \A a, b \in Nat : a..b \in FiniteSubsetsOf(Nat)
    BY FS_Interval DEF FiniteSubsetsOf
  <2>2. QED
    BY <1>1, <2>1
<1>3. (IF result = "none" THEN {0} ELSE {}) \in FiniteSubsetsOf(Nat)
  BY FS_EmptySet, FS_Singleton DEF FiniteSubsetsOf
<1>4. \A k : Places(stack, rank[graph], k) \in FiniteSubsetsOf(Nat)
  BY <1>1, PlacesFinite
<1>5. QED
  BY <1>2, <1>3, <1>4 DEF ReflectLeftIsFinite, ReflectLeft, Measures

\* A step of Reflect.
LEMMA ReflectStep ==
    ASSUME Inv, Given, [Next]_vars, vars' # vars, walk = "reflect",
           NEW n \in Nat, NEW rank, Ranking(rank, n),
           ReflectLeftIsFinite(rank, n), ReflectLeftIsFinite(rank, n)'
    PROVE  ReflectLeftLess(rank, n)
<1> DEFINE s == ReflectLeft(rank, n)'
           t == ReflectLeft(rank, n)
           r == rank[graph]
<1>1. /\ graph \in [Files -> Seq(Files)] /\ roots \in Seq(Files) /\ Len(roots) \in Nat
      /\ next \in Nat /\ stack \in Seq(Files) /\ r \in [Files -> 1..n]
      /\ \A f \in Files : \A h \in Range(graph[f]) : r[f] < r[h]
  BY LenProperties DEF Inv, TypeOK, Given, Ranking
<1>2. /\ t[1] = next..Len(roots) /\ s[1] = next'..Len(roots')
      /\ t[n + 2] = (IF result = "none" THEN {0} ELSE {})
      /\ s[n + 2] = (IF result' = "none" THEN {0} ELSE {})
      /\ \A k \in 2..n + 1 : /\ t[k] = Places(stack, r, k - 1)
                            /\ s[k] = Places(stack', rank[graph'], k - 1)
  BY DEF ReflectLeft
\* The component j shrinks and those before it stay.
<1>3. ASSUME NEW j \in 1..n + 2, s[j] \subseteq t[j], s[j] # t[j],
             \A i \in 1..j - 1 : s[i] = t[i]
      PROVE  ReflectLeftLess(rank, n)
  <2>1. s \in Measures(Nat, n + 2) /\ t \in Measures(Nat, n + 2)
    BY DEF ReflectLeftIsFinite
  <2> HIDE DEF s, t
  <2>2. <<s, t>> \in Less(Nat, n + 2)
    BY <1>3, <2>1, LessAt
  <2>3. QED
    BY <2>2 DEF s, t, ReflectLeftLess
<1> HIDE DEF s, t
<1>4. CASE Resolve
  <2>1. next <= Len(roots) /\ next' = next + 1 /\ roots' = roots
    BY <1>4 DEF Resolve, setVars
  <2>2. s[1] \subseteq t[1] /\ next \in t[1] /\ next \notin s[1]
    BY <1>1, <1>2, <2>1
  <2>3. QED
    BY <1>3, <2>2
<1>5. CASE ReflectFails \/ Finish
  <2>1. /\ result = "none" /\ result' # "none"
        /\ UNCHANGED <<graph, roots, next, stack>>
    BY <1>5 DEF ReflectFails, Finish
  <2>2. s[n + 2] = {} /\ t[n + 2] = {0}
    BY <1>2, <2>1
  <2>3. \A i \in 1..n + 1 : s[i] = t[i]
    BY <1>2, <2>1
  <2>4. QED
    BY <1>3, <2>2, <2>3
<1>6. CASE Pop
  <2> DEFINE f == stack[Len(stack)]
             top == r[f]
  <2>1. /\ stack # <<>> /\ stack' = SubSeq(stack, 1, Len(stack) - 1) \o graph[f]
        /\ UNCHANGED <<graph, roots, next>>
    BY <1>6 DEF Pop
  <2>2. f \in Files /\ graph[f] \in Seq(Files) /\ top \in 1..n
    BY <1>1, <2>1, EmptySeq, ElementOfSeq
  <2>3. \A h \in Range(graph[f]) : r[f] < r[h]
    BY <1>1, <2>2
  <2>4. /\ Places(stack', r, top) \subseteq Places(stack, r, top)
        /\ Places(stack', r, top) # Places(stack, r, top)
        /\ \A k \in 1..top - 1 : Places(stack', r, k) = Places(stack, r, k)
    <3> DEFINE above == graph[f]
    <3>1. /\ n \in Nat /\ \A e \in Files : r[e] \in 1..n
          /\ stack \in Seq(Files) /\ stack # <<>>
          /\ above \in Seq(Files) /\ top = r[stack[Len(stack)]]
      BY <1>1, <2>1, <2>2
    <3>2. \A h \in Range(above) : top < r[h]
      BY <2>3
    <3>3. stack' = SubSeq(stack, 1, Len(stack) - 1) \o above
      BY <2>1
    <3> HIDE DEF r, f, top, above
    <3>4. PlaceFreed(stack', stack, r, top)
      BY ONLY <3>1, <3>2, <3>3, PlacesLess
    <3>5. QED
      BY <3>4 DEF PlaceFreed
  <2>5. /\ \A k \in 1..n : t[k + 1] = Places(stack, r, k) /\ s[k + 1] = Places(stack', r, k)
        /\ s[1] = t[1]
    BY <1>2, <2>1
  <2> HIDE DEF top
  <2>6. top + 1 \in 1..n + 2 /\ s[top + 1] \subseteq t[top + 1] /\ s[top + 1] # t[top + 1]
    BY <2>2, <2>4, <2>5
  <2>7. ASSUME NEW i \in 1..(top + 1) - 1
        PROVE  s[i] = t[i]
    <3>1. CASE i = 1
      BY <2>5, <3>1
    <3>2. CASE i # 1
      <4>1. i - 1 \in 1..top - 1 /\ i - 1 \in 1..n /\ (i - 1) + 1 = i
        BY <2>2, <3>2
      <4>2. QED
        BY <2>4, <2>5, <4>1
    <3>3. QED
      BY <3>1, <3>2
  <2>8. QED
    BY <1>3, <2>6, <2>7
<1>7. ~(Enter \/ Descend \/ Return)
  BY DEF Given, Enter, Descend, Return
<1>8. QED
  BY <1>4, <1>5, <1>6, <1>7 DEF Next, Returned

\* The walk of Reflect ends if no file imports itself over others, however many paths
\* of imports lead to a file: each of its steps leaves less to do, though the imports
\* of a file are pushed again each time it is popped (Reflect, reflect.go:20-87).
THEOREM ReflectEnds ==
    ASSUME NEW n \in Nat, NEW rank, Ranking(rank, n)
    PROVE  /\ IsWellFoundedOn(Less(Nat, n + 2), Measures(Nat, n + 2))
           /\ Spec => []ReflectLeftIsFinite(rank, n)
           /\ Spec => [][walk = "reflect" => ReflectLeftLess(rank, n)]_vars
<1>1. IsWellFoundedOn(Less(Nat, n + 2), Measures(Nat, n + 2))
  BY LessWellFounded
<1>2. Inv => ReflectLeftIsFinite(rank, n)
  BY ReflectLeftFinite DEF Inv
<1>3. Inv /\ Given /\ ReflectLeftIsFinite(rank, n) /\ ReflectLeftIsFinite(rank, n)' /\ [Next]_vars
        => [walk = "reflect" => ReflectLeftLess(rank, n)]_vars
  BY ReflectStep
<1>4. QED
  BY <1>1, <1>2, <1>3, Invariant, GivenHolds, PTL DEF Spec
-----------------------------------------------------------------------------
(* Both walks end.  That a measure which each step makes less comes to a last step
   takes an induction, which is not for the provers; it is stated as a rule for each
   measure.  LoadEnds and ReflectEnds prove the premises of the rules.              *)

\* What gets less with each step, in a well-founded order, comes to rest.
LeftRunsOut ==
    /\ IsWellFoundedOn(Less(Things, 5), Measures(Things, 5))
    /\ []LeftIsFinite
    /\ [][LeftLess]_vars
    => <>[][FALSE]_vars
ReflectLeftRunsOut(rank, n) ==
    /\ IsWellFoundedOn(Less(Nat, n + 2), Measures(Nat, n + 2))
    /\ []ReflectLeftIsFinite(rank, n)
    /\ [][ReflectLeftLess(rank, n)]_vars
    => <>[][FALSE]_vars

\* A walk that has not returned can go on.
WalkGoesOn == result = "none" => ENABLED <<Next>>_vars

\* It is one walk from the beginning to the end.
LEMMA OneWalk ==
    ASSUME [Next]_vars
    PROVE  walk' = walk
  BY DEF Next, Resolve, ReflectFails, Pop, Enter, Descend, Return, Finish, Returned, vars

\* Load returns, also when imports form a cycle (Load, walkFileDescriptors).
THEOREM LoadReturns ==
    ASSUME IsFiniteSet(Files)
    PROVE  FairSpec /\ []WalkGoesOn /\ LeftRunsOut /\ walk = "load" => WalkEnds
<1>1. [Next]_vars => (walk = "load" => (walk = "load")')
  BY OneWalk
<1>2. walk = "load" /\ [walk = "load" => LeftLess]_vars => [LeftLess]_vars
  OBVIOUS
<1>3. /\ IsWellFoundedOn(Less(Things, 5), Measures(Things, 5))
      /\ Spec => []LeftIsFinite
      /\ Spec => [][walk = "load" => LeftLess]_vars
  BY LoadEnds
<1>4. FairSpec /\ LeftRunsOut /\ walk = "load" => <>[][FALSE]_vars
  BY <1>1, <1>2, <1>3, PTL DEF FairSpec, Spec, LeftRunsOut
<1>5. WalkGoesOn => result # "none" \/ ENABLED <<Next>>_vars
  BY DEF WalkGoesOn
<1>6. QED
  BY <1>4, <1>5, PTL DEF FairSpec, WalkEnds

\* Both walks return, if no file imports itself over others (Reflect, Load).
THEOREM WalksEnd ==
    ASSUME IsFiniteSet(Files), NEW n \in Nat, NEW rank, Ranking(rank, n)
    PROVE  FairSpec /\ []WalkGoesOn /\ LeftRunsOut /\ ReflectLeftRunsOut(rank, n) => WalkEnds
<1>1. [Next]_vars => (walk = "reflect" => (walk = "reflect")')
  BY OneWalk
<1>2. walk = "reflect" /\ [walk = "reflect" => ReflectLeftLess(rank, n)]_vars
        => [ReflectLeftLess(rank, n)]_vars
  OBVIOUS
<1>3. /\ IsWellFoundedOn(Less(Nat, n + 2), Measures(Nat, n + 2))
      /\ Spec => []ReflectLeftIsFinite(rank, n)
      /\ Spec => [][walk = "reflect" => ReflectLeftLess(rank, n)]_vars
  BY ReflectEnds
<1>4. FairSpec /\ ReflectLeftRunsOut(rank, n) /\ walk = "reflect" => <>[][FALSE]_vars
  BY <1>1, <1>2, <1>3, PTL DEF FairSpec, Spec, ReflectLeftRunsOut
<1>5. WalkGoesOn => result # "none" \/ ENABLED <<Next>>_vars
  BY DEF WalkGoesOn
<1>6. FairSpec /\ []WalkGoesOn /\ ReflectLeftRunsOut(rank, n) /\ walk = "reflect" => WalkEnds
  BY <1>4, <1>5, PTL DEF FairSpec, WalkEnds
<1>7. FairSpec /\ []WalkGoesOn /\ LeftRunsOut /\ walk = "load" => WalkEnds
  BY LoadReturns
<1>8. Init => walk = "load" \/ walk = "reflect"
  BY DEF Init
<1>9. QED
  BY <1>6, <1>7, <1>8, PTL DEF FairSpec, Spec
=============================================================================
