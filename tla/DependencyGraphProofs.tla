------------------------- MODULE DependencyGraphProofs -------------------------
(***************************************************************************)
(* Proofs about DependencyGraph, for every set of resource types and every *)
(* graph over them.                                                        *)
(***************************************************************************)
EXTENDS DependencyGraph, SequenceTheorems, WellFoundedInduction, TLAPS

LEMMA TypeInit == Init => TypeOK
BY DEF Init, TypeOK, Colors, Types

\* The stack without its last element.
LEMMA FrontFacts ==
  ASSUME NEW S, NEW s \in Seq(S), s # <<>>
  PROVE  /\ SubSeq(s, 1, Len(s) - 1) \in Seq(S)
         /\ Len(SubSeq(s, 1, Len(s) - 1)) = Len(s) - 1
         /\ \A i \in 1 .. Len(s) - 1 : SubSeq(s, 1, Len(s) - 1)[i] = s[i]
         /\ Len(s) \in Nat \ {0} /\ s[Len(s)] \in S
<1>1. Len(s) \in Nat \ {0} /\ \A i \in 1 .. Len(s) : s[i] \in S
  OBVIOUS
<1>2. \A i \in 1 .. Len(s) - 1 : i \in 1 .. Len(s)
  BY <1>1
<1> DEFINE n == Len(s) - 1
           front == SubSeq(s, 1, n)
<1>3. n \in Int /\ n >= 0 /\ 1 \in Int /\ \A i \in 1 .. n : s[i] \in S
  BY <1>1, <1>2
<1> HIDE DEF n
<1>4. /\ front \in Seq(S)
      /\ Len(front) = IF 1 <= n THEN n - 1 + 1 ELSE 0
      /\ \A i \in 1 .. n - 1 + 1 : front[i] = s[1 + i - 1]
  BY <1>3, SubSeqProperties
<1>5. Len(front) = n
  BY <1>3, <1>4
<1>6. n - 1 + 1 = n /\ \A i \in 1 .. n : 1 + i - 1 = i
  BY <1>3
<1>7. \A i \in 1 .. n : front[i] = s[i]
  BY <1>4, <1>6
<1>8. Len(s) \in 1 .. Len(s)
  BY <1>1
<1>9. s[Len(s)] \in S
  BY <1>1, <1>8
<1>10. QED
  BY <1>1, <1>4, <1>5, <1>7, <1>9 DEF n

LEMMA TypeStep ==
  ASSUME TypeOK, [Next]_vars
  PROVE  TypeOK'
<1> USE DEF TypeOK, Colors, Types
<1>1. ASSUME NEW t \in Listed, Root(t) PROVE TypeOK'
  BY <1>1 DEF Root, Visit
<1>2. ASSUME NEW d \in Types, Skip(d) PROVE TypeOK'
  BY <1>2 DEF Skip, Look
<1>3. ASSUME NEW d \in Types, Descend(d) PROVE TypeOK'
  <2>1. stack' \in Seq(Listed) /\ color' \in [Listed -> Colors]
    BY <1>3 DEF Descend, Visit
  <2>2. todo' \in [Listed -> SUBSET Types]
    BY <1>3 DEF Descend, Look
  <2>3. QED BY <1>3, <2>1, <2>2 DEF Descend
<1>4. ASSUME NEW d \in Types, Report(d) PROVE TypeOK'
  <2>1. Append(stack, d) \in Seq(Listed)
    BY <1>4 DEF Report
  <2>2. findings' \in Seq(Seq(Listed))
    BY <1>4, <2>1 DEF Report
  <2>3. todo' \in [Listed -> SUBSET Types]
    BY <1>4 DEF Report, Look
  <2>4. stack' \in Seq(Listed)
    <3>1. stack' = <<>>
      BY <1>4 DEF Report
    <3>2. QED BY <3>1
  <2>5. QED BY <1>4, <2>2, <2>3, <2>4 DEF Report
<1>5. CASE Return
  <2>1. Top \in Listed /\ stack' \in Seq(Listed)
    BY <1>5, FrontFacts DEF Return, Top
  <2>2. QED BY <1>5, <2>1 DEF Return
<1>6. CASE UNCHANGED vars
  BY <1>6 DEF vars
<1>7. QED
  BY <1>1, <1>2, <1>3, <1>4, <1>5, <1>6 DEF Next, Step

\* Every variable of the search keeps its type, for every graph.
THEOREM TypeCorrect == Spec => []TypeOK
BY TypeInit, TypeStep, PTL DEF Spec
-------------------------------------------------------------------------------
LEMMA SearchInit == Init => SearchInv
BY DEF Init, SearchInv, StackInv, LookInv, OrderInv, NoneTwice, GrayInv, SeenInv, BlackInv

\* The call on top of the stack, and what a look at one dependency changes.
LEMMA TopFacts ==
  ASSUME TypeOK, SearchInv, stack # <<>>
  PROVE  /\ Len(stack) \in Nat \ {0} /\ stack[Len(stack)] = Top
         /\ Top \in Listed /\ color[Top] = "GRAY"
BY FrontFacts DEF Top, TypeOK, SearchInv, StackInv

LEMMA LookFacts ==
  ASSUME TypeOK, SearchInv, NEW d \in Types, Look(d), requires' = requires
  PROVE  /\ stack # <<>> /\ d \in requires[Top]
         /\ \A t \in Listed : todo'[t] = IF t = Top THEN todo[t] \ {d} ELSE todo[t]
         /\ LookInv'
<1>1. stack # <<>> /\ d \in todo[Top] /\ Top \in Listed
  BY TopFacts DEF Look
<1>2. \A t \in Listed : todo'[t] = IF t = Top THEN todo[t] \ {d} ELSE todo[t]
  BY <1>1 DEF Look, TypeOK
<1>3. QED BY <1>1, <1>2 DEF SearchInv, LookInv

\* A step that ends no call leaves the order as it is.
LEMMA OrderKept ==
  ASSUME TypeOK, OrderInv, order' = order,
         \A t \in Listed : color[t] = "BLACK" => color'[t] = "BLACK"
  PROVE  OrderInv'
<1>1. \A i \in 1 .. Len(order) : order[i] \in Listed
  BY DEF TypeOK
<1>2. QED BY <1>1 DEF OrderInv, NoneTwice

LEMMA RootKeeps ==
  ASSUME TypeOK, SearchInv, NEW r \in Listed, Root(r)
  PROVE  SearchInv'
<1>1. stack = <<>> /\ UNCHANGED <<requires, todo, findings, order>> /\ color[r] = "WHITE"
  BY DEF Root, Visit
<1>2. Len(stack') = 1 /\ stack'[1] = r
  BY DEF Root, Visit
<1>3. \A t \in Listed : color'[t] = IF t = r THEN "GRAY" ELSE color[t]
  BY DEF Root, Visit, TypeOK
<1>4. StackInv' /\ LookInv'
  BY <1>1, <1>2, <1>3 DEF SearchInv, StackInv, LookInv
<1>5. ASSUME findings = <<>> PROVE GrayInv' /\ SeenInv' /\ BlackInv'
  <2>1. GrayInv'
    BY <1>1, <1>2, <1>3, <1>5 DEF SearchInv, GrayInv
  <2>2. \A t, d \in Listed : ~Calls(t, d)
    BY <1>1 DEF Calls
  <2>3. SeenInv'
    BY <1>1, <1>3, <1>5, <2>2 DEF SearchInv, SeenInv
  <2>4. BlackInv'
    BY <1>1, <1>3, <1>5 DEF SearchInv, BlackInv, Before
  <2>5. QED BY <2>1, <2>3, <2>4
<1>6. OrderInv'
  BY <1>1, <1>3, OrderKept DEF SearchInv
<1>7. QED BY <1>1, <1>4, <1>5, <1>6 DEF SearchInv

LEMMA SkipKeeps ==
  ASSUME TypeOK, SearchInv, NEW d \in Types, Skip(d)
  PROVE  SearchInv'
<1>1. Look(d) /\ UNCHANGED <<requires, color, stack, findings, order>>
        /\ (d \in Listed => color[d] = "BLACK")
  BY DEF Skip
<1>2. StackInv' /\ LookInv'
  BY <1>1, LookFacts DEF SearchInv, StackInv
<1>3. ASSUME findings = <<>> PROVE GrayInv' /\ SeenInv' /\ BlackInv'
  <2>1. \A t \in Listed : todo'[t] = IF t = Top THEN todo[t] \ {d} ELSE todo[t]
    BY <1>1, LookFacts
  <2>2. GrayInv' /\ BlackInv'
    BY <1>1, <1>3 DEF SearchInv, GrayInv, BlackInv, Before
  <2>3. ASSUME NEW t \in Listed, NEW e \in (requires[t] \ todo'[t]) \cap Listed
        PROVE  color[e] = "BLACK" \/ Calls(t, e)
    BY <1>1, <1>3, <2>1 DEF SearchInv, SeenInv
  <2>4. SeenInv'
    BY <1>1, <2>3 DEF SeenInv, Calls
  <2>5. QED BY <2>2, <2>4
<1>4. OrderInv'
  BY <1>1, OrderKept DEF SearchInv
<1>5. QED BY <1>1, <1>2, <1>3, <1>4 DEF SearchInv

LEMMA DescendKeeps ==
  ASSUME TypeOK, SearchInv, NEW d \in Types, Descend(d)
  PROVE  SearchInv'
<1> DEFINE n == Len(stack)
<1>1. Look(d) /\ d \in Listed /\ UNCHANGED <<requires, findings, order>> /\ color[d] = "WHITE"
  BY DEF Descend, Visit
<1>2. /\ n \in Nat \ {0} /\ stack[n] = Top /\ Top \in Listed /\ d \in requires[Top]
      /\ \A t \in Listed : todo'[t] = IF t = Top THEN todo[t] \ {d} ELSE todo[t]
  BY <1>1, TopFacts, LookFacts
<1>3. \A t \in Listed : color'[t] = IF t = d THEN "GRAY" ELSE color[t]
  BY DEF Descend, Visit, TypeOK
<1>4. /\ Len(stack') = n + 1
      /\ \A i \in 1 .. n : stack'[i] = stack[i] /\ stack[i] \in Listed
      /\ stack'[n + 1] = d
  BY <1>1 DEF Descend, Visit, TypeOK
<1>5. \A i \in 1 .. n : stack[i] # d /\ color[stack[i]] = "GRAY"
  BY <1>1 DEF SearchInv, StackInv
<1> HIDE DEF n
<1>6. StackInv'
  <2>1. \A i \in 1 .. n + 1 : color'[stack'[i]] = "GRAY"
    BY <1>1, <1>2, <1>3, <1>4, <1>5
  <2>2. \A i, j \in 1 .. n + 1 : i # j => stack'[i] # stack'[j]
    BY <1>2, <1>4, <1>5 DEF SearchInv, StackInv, n
  <2>3. \A i \in 1 .. n : stack'[i + 1] \in requires[stack'[i]]
    <3> TAKE i \in 1 .. n
    <3>1. CASE i = n
      BY <1>2, <1>4, <3>1
    <3>2. CASE i # n
      <4>1. i \in 1 .. n - 1 /\ i + 1 \in 1 .. n
        BY <1>2, <3>2
      <4>2. stack[i + 1] \in requires[stack[i]]
        BY <4>1 DEF SearchInv, StackInv, n
      <4>3. QED BY <1>4, <4>1, <4>2
    <3>3. QED BY <3>1, <3>2
  <2>4. (n + 1) - 1 = n
    BY <1>2
  <2>5. QED BY <1>1, <1>4, <2>1, <2>2, <2>3, <2>4 DEF StackInv
<1>7. LookInv'
  BY <1>1, LookFacts
<1>8. ASSUME findings = <<>> PROVE GrayInv' /\ SeenInv' /\ BlackInv'
  <2>1. GrayInv'
    <3>1. ASSUME NEW t \in Listed, color'[t] = "GRAY"
          PROVE  \E i \in 1 .. n + 1 : stack'[i] = t
      <4>1. CASE t = d
        <5>1. n + 1 \in 1 .. n + 1
          BY <1>2
        <5>2. QED BY <1>4, <4>1, <5>1
      <4>2. CASE t # d
        <5>1. PICK i \in 1 .. n : stack[i] = t
          BY <1>3, <1>8, <3>1, <4>2 DEF SearchInv, GrayInv, n
        <5>2. QED BY <1>2, <1>4, <5>1
      <4>3. QED BY <4>1, <4>2
    <3>2. QED BY <1>4, <3>1 DEF GrayInv
  <2>2. ASSUME NEW t \in Listed, NEW e \in (requires[t] \ todo'[t]) \cap Listed
        PROVE  color'[e] = "BLACK" \/ \E i \in 1 .. n : stack'[i] = t /\ stack'[i + 1] = e
    <3>1. CASE t = Top /\ e = d
      BY <1>2, <1>4, <3>1
    <3>2. CASE ~(t = Top /\ e = d)
      <4>1. color[e] = "BLACK" \/ Calls(t, e)
        BY <1>2, <1>8, <3>2 DEF SearchInv, SeenInv
      <4>2. CASE color[e] = "BLACK"
        BY <1>1, <1>3, <4>2
      <4>3. CASE Calls(t, e)
        <5>1. PICK i \in 1 .. n - 1 : stack[i] = t /\ stack[i + 1] = e
          BY <4>3 DEF Calls, n
        <5>2. i \in 1 .. n /\ i + 1 \in 1 .. n
          BY <1>2
        <5>3. QED BY <1>4, <5>1, <5>2
      <4>4. QED BY <4>1, <4>2, <4>3
    <3>3. QED BY <3>1, <3>2
  <2>3. (n + 1) - 1 = n
    BY <1>2
  <2>4. SeenInv'
    BY <1>1, <1>4, <2>2, <2>3 DEF SeenInv, Calls
  <2>5. BlackInv'
    BY <1>1, <1>3, <1>8 DEF SearchInv, BlackInv, Before
  <2>6. QED BY <2>1, <2>4, <2>5
<1>9. OrderInv'
  BY <1>1, <1>3, OrderKept DEF SearchInv
<1>10. QED BY <1>1, <1>6, <1>7, <1>8, <1>9 DEF SearchInv

LEMMA ReportKeeps ==
  ASSUME TypeOK, SearchInv, NEW d \in Types, Report(d)
  PROVE  SearchInv'
<1>1. Look(d) /\ UNCHANGED <<requires, color, order>> /\ stack' = <<>>
  BY DEF Report
<1>2. findings' # <<>>
  <2>1. findings \in Seq(Seq(Listed)) /\ Append(stack, d) \in Seq(Listed)
    BY DEF Report, TypeOK
  <2>2. Len(findings') = Len(findings) + 1
    BY <2>1 DEF Report
  <2>3. QED BY <2>1, <2>2
<1>3. StackInv'
  BY <1>1 DEF StackInv
<1>4. LookInv'
  BY <1>1, LookFacts
<1>5. OrderInv'
  BY <1>1, OrderKept DEF SearchInv
<1>6. QED BY <1>2, <1>3, <1>4, <1>5 DEF SearchInv

LEMMA ReturnKeeps ==
  ASSUME TypeOK, SearchInv, Return
  PROVE  SearchInv'
<1> DEFINE n == Len(stack)
           m == Len(order)
<1>1. UNCHANGED <<requires, todo, findings>> /\ todo[Top] = {} /\ stack # <<>>
  BY DEF Return
<1>2. n \in Nat \ {0} /\ stack[n] = Top /\ Top \in Listed /\ color[Top] = "GRAY" /\ m \in Nat
  BY <1>1, TopFacts DEF TypeOK
<1>3. \A t \in Listed : color'[t] = IF t = Top THEN "BLACK" ELSE color[t]
  BY <1>2 DEF Return, TypeOK
<1>4. /\ Len(stack') = n - 1
      /\ \A i \in 1 .. n - 1 : stack'[i] = stack[i]
  BY <1>1, FrontFacts DEF Return, TypeOK
<1>5. \A i \in 1 .. n - 1 : /\ i \in 1 .. n /\ stack[i] \in Listed
                            /\ stack[i] # Top /\ color[stack[i]] = "GRAY"
  <2> TAKE i \in 1 .. n - 1
  <2>1. i \in 1 .. n /\ n \in 1 .. n /\ i # n
    BY <1>2
  <2>2. QED BY <1>2, <2>1 DEF SearchInv, StackInv, TypeOK
<1>6. /\ Len(order') = m + 1 /\ order'[m + 1] = Top
      /\ \A j \in 1 .. m : order'[j] = order[j]
  BY <1>2 DEF Return, TypeOK
<1> HIDE DEF n, m
<1>7. StackInv'
  <2>1. \A i \in 1 .. n - 1 : color'[stack'[i]] = "GRAY"
    BY <1>3, <1>4, <1>5
  <2>2. \A i, j \in 1 .. n - 1 : i # j => stack'[i] # stack'[j]
    BY <1>4, <1>5 DEF SearchInv, StackInv, n
  <2>3. \A i \in 1 .. (n - 1) - 1 : stack'[i + 1] \in requires[stack'[i]]
    <3> TAKE i \in 1 .. (n - 1) - 1
    <3>1. i \in 1 .. n - 1 /\ i + 1 \in 1 .. n - 1
      BY <1>2
    <3>2. stack[i + 1] \in requires[stack[i]]
      BY <3>1 DEF SearchInv, StackInv, n
    <3>3. QED BY <1>4, <3>1, <3>2
  <2>4. QED BY <1>1, <1>4, <2>1, <2>2, <2>3 DEF StackInv
<1>8. LookInv'
  BY <1>1 DEF SearchInv, LookInv
<1>9. ASSUME findings = <<>> PROVE GrayInv' /\ SeenInv' /\ BlackInv'
  <2>1. ASSUME NEW t \in Listed, color'[t] = "GRAY"
        PROVE  \E i \in 1 .. n - 1 : stack'[i] = t
    <3>1. t # Top /\ color[t] = "GRAY"
      BY <1>3, <2>1
    <3>2. PICK i \in 1 .. n : stack[i] = t
      BY <1>9, <3>1 DEF SearchInv, GrayInv, n
    <3>3. i \in 1 .. n - 1
      BY <1>2, <3>1, <3>2
    <3>4. QED BY <1>4, <3>2, <3>3
  <2>2. GrayInv'
    BY <1>4, <2>1 DEF GrayInv
  <2>3. ASSUME NEW t \in Listed, NEW e \in (requires[t] \ todo[t]) \cap Listed
        PROVE  \/ color'[e] = "BLACK"
               \/ \E i \in 1 .. (n - 1) - 1 : stack'[i] = t /\ stack'[i + 1] = e
    <3>1. CASE color[e] = "BLACK"
      BY <1>3, <3>1
    <3>2. CASE color[e] # "BLACK"
      <4>1. PICK i \in 1 .. n - 1 : stack[i] = t /\ stack[i + 1] = e
        BY <1>9, <3>2 DEF SearchInv, SeenInv, Calls, n
      <4>2. CASE i = n - 1
        <5>1. i + 1 = n
          BY <1>2, <4>2
        <5>2. QED BY <1>2, <1>3, <4>1, <5>1
      <4>3. CASE i # n - 1
        <5>1. i \in 1 .. (n - 1) - 1 /\ i \in 1 .. n - 1 /\ i + 1 \in 1 .. n - 1
          BY <1>2, <4>3
        <5>2. QED BY <1>4, <4>1, <5>1
      <4>4. QED BY <4>2, <4>3
    <3>3. QED BY <3>1, <3>2
  <2>4. SeenInv'
    BY <1>1, <1>4, <2>3 DEF SeenInv, Calls
  <2>5. ASSUME NEW t \in Listed, color'[t] = "BLACK"
        PROVE  /\ \E j \in 1 .. m + 1 : order'[j] = t
               /\ \A e \in requires[t] \cap Listed :
                    \E i, j \in 1 .. m + 1 : i < j /\ order'[i] = e /\ order'[j] = t
    <3>1. m + 1 \in 1 .. m + 1 /\ \A j \in 1 .. m : j \in 1 .. m + 1 /\ j < m + 1
      BY <1>2
    <3>2. CASE t = Top
      <4>1. ASSUME NEW e \in requires[t] \cap Listed
            PROVE  \E j \in 1 .. m : order[j] = e
        <5>1. e \in (requires[Top] \ todo[Top]) \cap Listed
          BY <1>1, <3>2
        <5>2. ~Calls(Top, e)
          BY <1>5 DEF Calls, n
        <5>3. color[e] = "BLACK"
          BY <1>2, <1>9, <5>1, <5>2 DEF SearchInv, SeenInv
        <5>4. QED BY <1>9, <5>1, <5>3 DEF SearchInv, BlackInv, m
      <4>2. QED BY <1>6, <3>1, <3>2, <4>1
    <3>3. CASE t # Top
      <4>1. color[t] = "BLACK"
        BY <1>3, <2>5, <3>3
      <4>2. \E j \in 1 .. m : order[j] = t
        BY <1>9, <4>1 DEF SearchInv, BlackInv, m
      <4>3. \A e \in requires[t] \cap Listed :
              \E i, j \in 1 .. m : i < j /\ order[i] = e /\ order[j] = t
        BY <1>9, <4>1 DEF SearchInv, BlackInv, Before, m
      <4>4. QED BY <1>6, <3>1, <4>2, <4>3
    <3>4. QED BY <3>2, <3>3
  <2>6. BlackInv'
    BY <1>1, <1>6, <2>5 DEF BlackInv, Before
  <2>7. QED BY <2>2, <2>4, <2>6
<1>10. OrderInv'
  <2>1. \A i \in 1 .. m : order[i] \in Listed /\ color[order[i]] = "BLACK"
    BY DEF SearchInv, OrderInv, TypeOK, m
  <2>2. \A i \in 1 .. m : order'[i] = order[i] /\ order[i] # Top /\ color'[order[i]] = "BLACK"
    BY <1>2, <1>3, <1>6, <2>1
  <2>3. \A i \in 1 .. m + 1 : i \in 1 .. m \/ i = m + 1
    BY <1>2
  <2>4. \A i \in 1 .. m + 1 : color'[order'[i]] = "BLACK"
    BY <1>2, <1>3, <1>6, <2>2, <2>3
  <2>5. \A i, j \in 1 .. m : order[i] = order[j] => i = j
    BY DEF SearchInv, OrderInv, NoneTwice, m
  <2>6. \A i, j \in 1 .. m + 1 : order'[i] = order'[j] => i = j
    BY <1>6, <2>2, <2>3, <2>5
  <2>7. QED BY <1>6, <2>4, <2>6 DEF OrderInv, NoneTwice
<1>11. QED BY <1>1, <1>7, <1>8, <1>9, <1>10 DEF SearchInv

LEMMA SearchStep ==
  ASSUME TypeOK, SearchInv, [Next]_vars
  PROVE  SearchInv'
<1>1. CASE UNCHANGED vars
  BY <1>1 DEF vars, SearchInv, StackInv, LookInv, OrderInv, NoneTwice, GrayInv, SeenInv,
              BlackInv, Calls, Before
<1>2. QED
  BY <1>1, RootKeeps, SkipKeeps, DescendKeeps, ReportKeeps, ReturnKeeps DEF Next, Step

LEMMA SearchAlways == Spec => [](TypeOK /\ SearchInv)
BY TypeInit, TypeStep, SearchInit, SearchStep, PTL DEF Spec
-------------------------------------------------------------------------------
\* After a search that reports nothing, every node is BLACK.
LEMMA AllVisited ==
  ASSUME TypeOK, SearchInv, Done, findings = <<>>, NEW t \in Listed
  PROVE  color[t] = "BLACK"
<1>1. color[t] # "GRAY"
  BY DEF SearchInv, GrayInv, Done
<1>2. QED BY <1>1 DEF Done, TypeOK, Colors

\* If both checks find nothing, the types can be built in the order found:
\* it has every type once, and what an enabled type requires is enabled and
\* comes first.
THEOREM AcceptedCanBeBuilt == Spec => []AcceptedIsBuildable
<1>1. TypeOK /\ SearchInv => AcceptedIsBuildable
  <2> SUFFICES ASSUME TypeOK, SearchInv, Done, findings = <<>>,
                      NEW enabled \in SUBSET Types, Missing(enabled) = {},
                      NEW t \in enabled \cap Listed, NEW d \in requires[t]
               PROVE  d \in enabled /\ (d \in Listed => Before(t, d))
    BY DEF AcceptedIsBuildable, SearchInv, OrderInv
  <2>1. d \in enabled
    BY DEF Missing
  <2>2. color[t] = "BLACK"
    BY AllVisited
  <2>3. QED BY <2>1, <2>2 DEF SearchInv, BlackInv
<1>2. QED BY <1>1, SearchAlways, PTL

LEMMA LeastOf ==
  ASSUME NEW S, S \subseteq Nat, S # {}
  PROVE  \E least \in S : \A n \in S : ~(n < least)
<1> DEFINE R == OpToRel(<, Nat)
<1>1. IsWellFoundedOn(R, Nat)
  BY NatLessThanWellFounded
<1>2. \A x, y \in Nat : x < y => <<x, y>> \in R
  BY DEF OpToRel
<1> HIDE DEF R
<1>3. PICK x \in S : \A y \in S : <<y, x>> \notin R
  BY <1>1, WFMin
<1>4. QED BY <1>2, <1>3

\* Where each type is in the order: along an edge the place comes down.
LEMMA EdgesComeDown ==
  ASSUME TypeOK, SearchInv, Done, findings = <<>>
  PROVE  \E place \in [Listed -> Nat] :
           \A t, d \in Listed : Edge(t, d) => place[d] < place[t]
<1> DEFINE at(t) == CHOOSE i \in 1 .. Len(order) : order[i] = t
           place == [t \in Listed |-> at(t)]
<1>1. Len(order) \in Nat
  BY DEF TypeOK
<1>2. \A t \in Listed : at(t) \in 1 .. Len(order) /\ order[at(t)] = t
  BY AllVisited DEF SearchInv, BlackInv
<1>3. \A t \in Listed : \A i \in 1 .. Len(order) : order[i] = t => i = at(t)
  BY <1>2 DEF SearchInv, OrderInv, NoneTwice
<1> HIDE DEF at
<1>4. ASSUME NEW t \in Listed, NEW d \in Listed, Edge(t, d)
      PROVE  at(d) < at(t)
  <2>1. Before(t, d)
    BY <1>4, AllVisited DEF Edge, SearchInv, BlackInv
  <2>2. PICK i, j \in 1 .. Len(order) : i < j /\ order[i] = d /\ order[j] = t
    BY <2>1 DEF Before
  <2>3. i = at(d) /\ j = at(t)
    BY <1>3, <2>2
  <2>4. QED BY <2>2, <2>3
<1>5. place \in [Listed -> Nat]
  BY <1>1, <1>2
<1>6. QED BY <1>4, <1>5

\* A path whose every edge comes down does not close: look at its lowest
\* place between two visits of one type.
LEMMA DownIsAcyclic ==
  ASSUME NEW place \in [Listed -> Nat],
         \A t, d \in Listed : Edge(t, d) => place[d] < place[t],
         NEW p \in Seq(Listed)
  PROVE  ~IsCircular(p)
<1> DEFINE n == Len(p)
<1>1. SUFFICES ASSUME IsCircular(p) PROVE FALSE
  OBVIOUS
<1>2. n \in Nat /\ \A i \in 1 .. n : p[i] \in Listed
  OBVIOUS
<1>3. PICK i \in 1 .. n - 1 : p[i] = p[n]
  BY <1>1 DEF IsCircular
<1>4. \A k \in 1 .. n - 1 : Edge(p[k], p[k + 1])
  BY <1>1 DEF IsCircular
<1> HIDE DEF n
<1>5. \A k \in 1 .. n - 1 : place[p[k + 1]] < place[p[k]]
  <2> TAKE k \in 1 .. n - 1
  <2>1. k \in 1 .. n /\ k + 1 \in 1 .. n
    BY <1>2
  <2>2. QED BY <1>2, <1>4, <2>1
<1> DEFINE S == {place[p[k]] : k \in i .. n - 1}
<1>6. \A k \in i .. n - 1 : k \in 1 .. n - 1 /\ place[p[k]] \in Nat
  <2> TAKE k \in i .. n - 1
  <2>1. k \in 1 .. n - 1 /\ k \in 1 .. n
    BY <1>2
  <2>2. QED BY <1>2, <2>1
<1>7. i \in i .. n - 1
  BY <1>2
<1>8. S \subseteq Nat /\ S # {}
  BY <1>6, <1>7
<1>9. PICK least \in S : \A m \in S : ~(m < least)
  BY <1>8, LeastOf
<1>10. PICK k \in i .. n - 1 : least = place[p[k]]
  BY <1>9
<1>11. place[p[k + 1]] < least
  BY <1>5, <1>6, <1>10
<1>12. place[p[k + 1]] \in S
  <2>1. CASE k = n - 1
    <3>1. k + 1 = n
      BY <1>2, <2>1
    <3>2. QED BY <1>3, <1>7, <3>1
  <2>2. CASE k # n - 1
    <3>1. k + 1 \in i .. n - 1
      BY <1>2, <2>2
    <3>2. QED BY <3>1
  <2>3. QED BY <2>1, <2>2
<1>13. QED BY <1>9, <1>11, <1>12

\* The search is complete: if it ends without a report, the graph has no
\* circular path of any length.
THEOREM NoCycleIsMissed == Spec => []SilenceIsAcyclic
<1>1. TypeOK /\ SearchInv => SilenceIsAcyclic
  BY EdgesComeDown, DownIsAcyclic DEF SilenceIsAcyclic
<1>2. QED BY <1>1, SearchAlways, PTL
-------------------------------------------------------------------------------
LEMMA FirstReportStep ==
  ASSUME TypeOK, SearchInv, FirstReportIsCircular, [Next]_vars
  PROVE  FirstReportIsCircular'
<1>1. CASE \E d \in Types : Report(d)
  <2>1. PICK d \in Types : Report(d)
    BY <1>1
  <2>2. Look(d) /\ d \in Listed /\ color[d] = "GRAY" /\ requires' = requires
          /\ findings' = Append(findings, Append(stack, d))
    BY <2>1 DEF Report
  <2>3. /\ Len(stack) \in Nat \ {0} /\ stack[Len(stack)] = Top
        /\ Top \in Listed /\ d \in requires[Top]
    BY <2>2, TopFacts, LookFacts
  <2>4. findings \in Seq(Seq(Listed)) /\ stack \in Seq(Listed)
          /\ Append(stack, d) \in Seq(Listed)
    BY <2>2 DEF TypeOK
  <2>5. CASE findings # <<>>
    <3>1. Len(findings) \in Nat \ {0} /\ findings'[1] = findings[1]
      BY <2>2, <2>4, <2>5
    <3>2. QED BY <2>2, <2>5, <3>1 DEF FirstReportIsCircular, IsCircular, Edge
  <2>6. CASE findings = <<>>
    <3> DEFINE p == Append(stack, d)
               n == Len(stack)
    <3>1. findings'[1] = p
      BY <2>2, <2>6
    <3>2. /\ Len(p) = n + 1 /\ p[n + 1] = d
          /\ \A i \in 1 .. n : p[i] = stack[i] /\ p[i] \in Listed
      BY <2>4
    <3>3. PICK k \in 1 .. n : stack[k] = d
      BY <2>2, <2>6 DEF SearchInv, GrayInv
    <3>4. \A i \in 1 .. n : p[i] \in Listed /\ p[i + 1] \in Listed /\ p[i + 1] \in requires[p[i]]
      <4> TAKE i \in 1 .. n
      <4>1. CASE i = n
        BY <2>2, <2>3, <3>2, <4>1
      <4>2. CASE i # n
        <5>1. i \in 1 .. n - 1 /\ i + 1 \in 1 .. n
          BY <2>3, <4>2
        <5>2. stack[i + 1] \in requires[stack[i]]
          BY <5>1 DEF SearchInv, StackInv
        <5>3. QED BY <3>2, <5>1, <5>2
      <4>3. QED BY <4>1, <4>2
    <3>5. (n + 1) - 1 = n
      BY <2>3
    <3> HIDE DEF p, n
    <3>6. p[k] = p[n + 1]
      BY <3>2, <3>3
    <3>7. QED BY <2>2, <3>1, <3>2, <3>3, <3>4, <3>5, <3>6
              DEF FirstReportIsCircular, IsCircular, Edge
  <2>7. QED BY <2>5, <2>6
<1>2. CASE ~\E d \in Types : Report(d)
  <2>1. UNCHANGED <<requires, findings>>
    BY <1>2 DEF Next, Step, Root, Skip, Descend, Return, vars
  <2>2. QED BY <2>1 DEF FirstReportIsCircular, IsCircular, Edge
<1>3. QED BY <1>1, <1>2

\* The first cycle reported is a cycle of the graph.
THEOREM FirstReportIsRight == Spec => []FirstReportIsCircular
<1>1. Init => FirstReportIsCircular
  BY DEF Init, FirstReportIsCircular
<1>2. QED BY <1>1, FirstReportStep, SearchAlways, PTL DEF Spec
-------------------------------------------------------------------------------
LEMMA StepIsCloser ==
  ASSUME TypeOK, SearchInv, Next
  PROVE  Closer
<1>1. ASSUME NEW t \in Listed, color[t] = "WHITE", color' = [color EXCEPT ![t] = "GRAY"]
      PROVE  White' \subseteq White /\ White' # White
  BY <1>1 DEF White, TypeOK
<1>2. ASSUME NEW d \in Types, Look(d)
      PROVE  Unseen' \subseteq Unseen /\ Unseen' # Unseen
  <2>1. Top \in Listed /\ d \in todo[Top]
    BY <1>2, TopFacts DEF Look
  <2>2. \A t \in Listed : todo'[t] = IF t = Top THEN todo[t] \ {d} ELSE todo[t]
    BY <1>2, <2>1 DEF Look, TypeOK
  <2>3. <<Top, d>> \in Unseen /\ <<Top, d>> \notin Unseen'
    BY <2>1, <2>2 DEF Unseen
  <2>4. Unseen' \subseteq Unseen
    BY <2>2 DEF Unseen
  <2>5. QED BY <2>3, <2>4
<1>3. ASSUME NEW t \in Listed, Root(t) PROVE Closer
  BY <1>1, <1>3 DEF Root, Visit, Closer
<1>4. ASSUME NEW d \in Types, Descend(d) PROVE Closer
  BY <1>1, <1>4 DEF Descend, Visit, Closer
<1>5. ASSUME NEW d \in Types, Skip(d) \/ Report(d) PROVE Closer
  <2>1. Look(d) /\ color' = color
    BY <1>5 DEF Skip, Report
  <2>2. White' = White
    BY <2>1 DEF White
  <2>3. QED BY <1>2, <2>1, <2>2 DEF Closer
<1>6. CASE Return
  <2>1. stack # <<>> /\ todo' = todo /\ color' = [color EXCEPT ![Top] = "BLACK"]
          /\ stack' = SubSeq(stack, 1, Len(stack) - 1)
    BY <1>6 DEF Return
  <2>2. Top \in Listed /\ color[Top] = "GRAY"
    BY <2>1, TopFacts
  <2>3. White' = White
    BY <2>1, <2>2 DEF White, TypeOK
  <2>4. Unseen' = Unseen
    BY <2>1 DEF Unseen
  <2>5. Len(stack') < Len(stack)
    BY <2>1, FrontFacts DEF TypeOK
  <2>6. QED BY <2>3, <2>4, <2>5 DEF Closer
<1>7. QED BY <1>3, <1>4, <1>5, <1>6 DEF Next, Step

\* No step is ever taken twice over: each brings the search closer to its end.
THEOREM StepsRunOut == Spec => EachStepIsCloser
<1>1. TypeOK /\ SearchInv /\ [Next]_vars => [Closer]_vars
  BY StepIsCloser
<1>2. QED BY <1>1, SearchAlways, PTL DEF Spec, EachStepIsCloser
===============================================================================
