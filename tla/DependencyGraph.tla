---------------------------- MODULE DependencyGraph ----------------------------
(***************************************************************************)
(* engine/dependency_engine.py on resource types: the depth-first search   *)
(* of validate_dependency_graph_integrity over the graph of                *)
(* config/global/dependencies.yaml, one step per look at a dependency, and *)
(* the check of validate_type_dependencies on the types a deployment       *)
(* enables.                                                                *)
(*                                                                         *)
(* The nested calls of visit are the stack.  The first dependency found on *)
(* the stack ends all of them at once, and leaves their nodes GRAY.        *)
(***************************************************************************)
EXTENDS Integers, Sequences

CONSTANTS
  Listed,     \* resource types with an entry in dependencies.yaml
  Unlisted    \* types that are only required by others

ASSUME TypesAssumption == Listed \cap Unlisted = {}

VARIABLES
  requires,   \* the graph
  color,
  stack,      \* the nodes of the calls of visit in progress, outermost first
  todo,       \* dependencies each of these calls has yet to look at
  findings,   \* the paths reported as circular
  order       \* the nodes in the order they turned BLACK

vars == <<requires, color, stack, todo, findings, order>>

Types == Listed \cup Unlisted
Colors == {"WHITE", "GRAY", "BLACK"}

TypeOK ==
  /\ requires \in [Listed -> SUBSET Types]
  /\ color \in [Listed -> Colors]
  /\ stack \in Seq(Listed)
  /\ todo \in [Listed -> SUBSET Types]
  /\ findings \in Seq(Seq(Listed))
  /\ order \in Seq(Listed)

Init ==
  /\ requires \in [Listed -> SUBSET Types]
  /\ color = [t \in Listed |-> "WHITE"]
  /\ todo = requires
  /\ stack = <<>> /\ findings = <<>> /\ order = <<>>
-------------------------------------------------------------------------------
Top == stack[Len(stack)]

\* A call of visit: from the loop over the graph, or from another call.
Visit(t) ==
  /\ color[t] = "WHITE"
  /\ color' = [color EXCEPT ![t] = "GRAY"]
  /\ stack' = Append(stack, t)

Root(t) ==
  /\ stack = <<>>
  /\ Visit(t)
  /\ UNCHANGED <<requires, todo, findings, order>>

\* Mutant: the loop over the dependencies does not advance.
LookAgain(d) ==
  /\ stack # <<>>
  /\ d \in todo[Top]
  /\ UNCHANGED todo

\* The loop of visit comes to dependency d.
Look(d) ==
  /\ stack # <<>>
  /\ d \in todo[Top]
  /\ todo' = [todo EXCEPT ![Top] = @ \ {d}]

\* Mutant: every type seen before is passed over.
SkipSeen(d) ==
  /\ Look(d)
  /\ d \in Listed => color[d] # "WHITE"
  /\ UNCHANGED <<requires, color, stack, findings, order>>

\* A type without an entry, or one whose visit is complete.
Skip(d) ==
  /\ Look(d)
  /\ d \in Listed => color[d] = "BLACK"
  /\ UNCHANGED <<requires, color, stack, findings, order>>

Descend(d) ==
  /\ d \in Listed
  /\ Look(d)
  /\ Visit(d)
  /\ UNCHANGED <<requires, findings, order>>

\* Mutant: a type reached twice counts as a cycle.
ReportSeen(d) ==
  /\ d \in Listed
  /\ Look(d)
  /\ color[d] # "WHITE"
  /\ findings' = Append(findings, Append(stack, d))
  /\ stack' = <<>>
  /\ UNCHANGED <<requires, color, order>>

\* path + [node, dep] is reported and every call in progress returns True.
Report(d) ==
  /\ d \in Listed
  /\ Look(d)
  /\ color[d] = "GRAY"
  /\ findings' = Append(findings, Append(stack, d))
  /\ stack' = <<>>
  /\ UNCHANGED <<requires, color, order>>

Return ==
  /\ stack # <<>>
  /\ todo[Top] = {}
  /\ color' = [color EXCEPT ![Top] = "BLACK"]
  /\ order' = Append(order, Top)
  /\ stack' = SubSeq(stack, 1, Len(stack) - 1)
  /\ UNCHANGED <<requires, todo, findings>>
-------------------------------------------------------------------------------
Step ==
  \/ \E t \in Listed : Root(t)
  \/ \E d \in Types : Skip(d) \/ Descend(d) \/ Report(d)
  \/ Return

Next == Step

Spec == Init /\ [][Next]_vars

\* The function runs to its end.
FairSpec == Spec /\ WF_vars(Next)

Done == stack = <<>> /\ \A t \in Listed : color[t] # "WHITE"

\* validate_type_dependencies: the enabled types with a missing requirement.
Missing(enabled) ==
  {t \in enabled \cap Listed : ~(requires[t] \subseteq enabled)}
-------------------------------------------------------------------------------
Edge(t, d) == t \in Listed /\ d \in Listed /\ d \in requires[t]

\* A path that comes back to a type it has left.
IsCircular(p) ==
  /\ \A i \in 1 .. Len(p) - 1 : Edge(p[i], p[i + 1])
  /\ \E i \in 1 .. Len(p) - 1 : p[i] = p[Len(p)]

(***************************************************************************)
(* The first report is right: it names a path of the graph that closes.    *)
(***************************************************************************)
FirstReportIsCircular == findings # <<>> => IsCircular(findings[1])

Before(t, d) == \E i, j \in 1 .. Len(order) : i < j /\ order[i] = d /\ order[j] = t

\* Every node once.
NoneTwice == \A i, j \in 1 .. Len(order) : order[i] = order[j] => i = j

(***************************************************************************)
(* A deployment for which both checks find nothing can be built: what an   *)
(* enabled type requires is enabled too, and there is one order of all the *)
(* types that puts it first.  ("A cycle would make dependency order        *)
(* undecidable.")                                                          *)
(***************************************************************************)
AcceptedIsBuildable ==
  Done /\ findings = <<>> =>
    /\ NoneTwice
    /\ \A enabled \in SUBSET Types : Missing(enabled) = {} =>
         \A t \in enabled \cap Listed : \A d \in requires[t] :
           d \in enabled /\ (d \in Listed => Before(t, d))

(***************************************************************************)
(* A search that reports nothing has missed nothing: no path of the graph  *)
(* closes, however long.                                                   *)
(***************************************************************************)
SilenceIsAcyclic == Done /\ findings = <<>> => \A p \in Seq(Listed) : ~IsCircular(p)

(***************************************************************************)
(* The search ends, whatever the graph.                                    *)
(***************************************************************************)
SearchEnds == <>Done

(***************************************************************************)
(* What makes it end: every step visits a type for the first time, or      *)
(* looks at a dependency for the first time, or ends a call.               *)
(***************************************************************************)
White == {t \in Listed : color[t] = "WHITE"}
Unseen == {look \in Listed \X Types : look[2] \in todo[look[1]]}

Closer ==
  \/ White' \subseteq White /\ White' # White
  \/ White' = White /\ Unseen' \subseteq Unseen /\ Unseen' # Unseen
  \/ White' = White /\ Unseen' = Unseen /\ Len(stack') < Len(stack)

EachStepIsCloser == [][Closer]_vars
-------------------------------------------------------------------------------
(***************************************************************************)
(* The inductive invariant.  The stack is a path of distinct GRAY types.   *)
(* Before the first report they are the only GRAY ones; what a type has    *)
(* looked at is BLACK or being visited from it; and what a BLACK type      *)
(* requires is in the order before it.                                     *)
(***************************************************************************)
StackInv ==
  /\ \A i \in 1 .. Len(stack) : color[stack[i]] = "GRAY"
  /\ \A i, j \in 1 .. Len(stack) : i # j => stack[i] # stack[j]
  /\ \A i \in 1 .. Len(stack) - 1 : stack[i + 1] \in requires[stack[i]]

LookInv == \A t \in Listed : todo[t] \subseteq requires[t]

Calls(t, d) == \E i \in 1 .. Len(stack) - 1 : stack[i] = t /\ stack[i + 1] = d

GrayInv == \A t \in Listed : color[t] = "GRAY" => \E i \in 1 .. Len(stack) : stack[i] = t

SeenInv == \A t \in Listed : \A d \in (requires[t] \ todo[t]) \cap Listed :
             color[d] = "BLACK" \/ Calls(t, d)

BlackInv == \A t \in Listed : color[t] = "BLACK" =>
              /\ \E j \in 1 .. Len(order) : order[j] = t
              /\ \A d \in requires[t] \cap Listed : Before(t, d)

OrderInv ==
  NoneTwice /\ \A i \in 1 .. Len(order) : color[order[i]] = "BLACK"

SearchInv ==
  StackInv /\ LookInv /\ OrderInv /\ (findings = <<>> => GrayInv /\ SeenInv /\ BlackInv)
===============================================================================
