--------------------------- MODULE RenderGateProofs ---------------------------
(***************************************************************************)
(* Proofs about RenderGate, for every set of configurations and whatever   *)
(* errors they have, and every number of commands of every kind.           *)
(***************************************************************************)
EXTENDS RenderGate, TLAPS

LEMMA TypeInit == Init => TypeOK
BY GateAssumption DEF Init, TypeOK, Nothing, Written, Steps, Ended

LEMMA TypeStep ==
  ASSUME TypeOK, [Next]_vars
  PROVE  TypeOK'
<1> USE GateAssumption DEF TypeOK, treeVars, outVars, renderVars, Steps, Ended, Goto
<1>1. ASSUME NEW c \in Configs, Edit(c) PROVE TypeOK'
  <2>1. edited' \in [Renders -> BOOLEAN]
    BY <1>1 DEF Edit, Running
  <2>2. QED BY <1>1, <2>1 DEF Edit
<1>2. CASE Apply
  BY <1>2 DEF Apply
<1>3. ASSUME NEW p \in Renders, Begin(p) PROVE TypeOK'
  BY <1>3 DEF Begin
<1>4. ASSUME NEW p \in Renders, Report(p) PROVE TypeOK'
  <2>1. pc' \in [Renders -> Steps] /\ verdict' \in {"none"} \cup Ended
    BY <1>4 DEF Report
  <2>2. QED BY <1>4, <2>1 DEF Report
<1>5. ASSUME NEW p \in Renders, Approve(p) PROVE TypeOK'
  BY <1>5 DEF Approve
<1>6. ASSUME NEW p \in Renders, Validate(p) PROVE TypeOK'
  <2>1. Errors[config] \in SUBSET Findings
    OBVIOUS
  <2>2. QED BY <1>6, <2>1 DEF Validate
<1>7. ASSUME NEW p \in Renders, Load(p) PROVE TypeOK'
  BY <1>7 DEF Load
<1>8. ASSUME NEW p \in Renders, Open(p) PROVE TypeOK'
  BY <1>8 DEF Open, Written
<1>9. ASSUME NEW p \in Renders, Write(p) PROVE TypeOK'
  <2>1. artifact' \in Written
    BY <1>9 DEF Write, Written
  <2>2. pc' \in [Renders -> Steps] /\ verdict' \in {"none"} \cup Ended
    BY <1>9 DEF Write
  <2>3. QED BY <1>9, <2>1, <2>2 DEF Write
<1>10. ASSUME NEW p \in Renders, Audit(p) PROVE TypeOK'
  BY <1>10 DEF Audit
<1>11. ASSUME NEW p \in Renders, Crash(p) PROVE TypeOK'
  BY <1>11 DEF Crash
<1>12. CASE UNCHANGED vars
  BY <1>12 DEF vars
<1>13. QED
  BY <1>1, <1>2, <1>3, <1>4, <1>5, <1>6, <1>7, <1>8, <1>9, <1>10, <1>11, <1>12
     DEF Next, Step

\* Every variable of the gate keeps its type, whatever the edits and crashes.
THEOREM TypeCorrect == Spec => []TypeOK
BY TypeInit, TypeStep, PTL DEF Spec
-------------------------------------------------------------------------------
Safe == GateInv /\ OnlyEditsEscape

LEMMA SafeInit == Init => Safe
BY DEF Init, Safe, GateInv, OnlyEditsEscape, Acceptable, Nothing

\* Steps of a command before it touches the rendered file.
LEMMA EarlySteps ==
  ASSUME TypeOK, Safe, NEW p \in Renders,
         Begin(p) \/ Report(p) \/ Approve(p) \/ Validate(p) \/ Load(p)
  PROVE  Safe'
<1> USE GateAssumption DEF treeVars, outVars, renderVars, Goto, TypeOK, Allowed, Kinds
<1>1. OnlyEditsEscape'
  BY DEF Safe, OnlyEditsEscape, Acceptable, Begin, Report, Approve, Validate, Load
<1>2. CASE Begin(p)
  <2>1. UNCHANGED <<config, outVars, infra, forced, loaded, edited>>
    BY <1>2 DEF Begin
  <2>2. /\ \A q \in Renders \ {p} : pc'[q] = pc[q] /\ force'[q] = force[q]
        /\ pc'[p] = "validate" /\ Kind[p] # "ci"
        /\ force'[p] => Kind[p] # "render"
    BY <1>2 DEF Begin
  <2>3. QED BY <1>1, <2>1, <2>2 DEF Safe, GateInv
<1>3. CASE Report(p)
  <2>1. UNCHANGED <<config, outVars, infra, force, forced, loaded, edited>>
    BY <1>3 DEF Report
  <2>2. /\ \A q \in Renders \ {p} : pc'[q] = pc[q]
        /\ pc'[p] = "approve" /\ Kind[p] = "ci"
        /\ verdict' = verdict
    BY <1>3 DEF Report, Ended
  <2>3. QED BY <1>1, <2>1, <2>2 DEF Safe, GateInv
<1>4. CASE Approve(p)
  <2>1. UNCHANGED <<config, outVars, infra, forced, loaded, edited>>
    BY <1>4 DEF Approve
  <2>2. CASE Errors[config] \subseteq {"approved"}
    <3>1. /\ pc' = [pc EXCEPT ![p] = "validate"]
          /\ force' = [force EXCEPT ![p] = Errors[config] # {}]
          /\ pc[p] = "approve"
      BY <1>4, <2>2, Zenon DEF Approve
    <3>2. \A q \in Renders \ {p} : pc'[q] = pc[q] /\ force'[q] = force[q]
      BY <3>1
    <3>3. pc'[p] = "validate" /\ Kind[p] = "ci"
      BY <3>1 DEF Safe, GateInv
    <3>4. QED BY <1>1, <2>1, <2>2, <3>2, <3>3, ZenonT(60) DEF Safe, GateInv
  <2>3. CASE ~(Errors[config] \subseteq {"approved"})
    <3>1. /\ \A q \in Renders \ {p} : pc'[q] = pc[q]
          /\ pc'[p] = "refused" /\ force' = force
      BY <1>4, <2>3 DEF Approve
    <3>2. QED BY <1>1, <2>1, <3>1 DEF Safe, GateInv
  <2>4. QED BY <2>2, <2>3
<1>5. CASE Validate(p)
  <2>1. UNCHANGED <<config, outVars, infra, force, loaded, edited>> /\ pc[p] = "validate"
    BY <1>5 DEF Validate
  <2>2. CASE Errors[config] = {} \/ (force[p] /\ Errors[config] \subseteq Security)
    <3>1. /\ \A q \in Renders \ {p} : pc'[q] = pc[q] /\ forced'[q] = forced[q]
          /\ pc'[p] = "load" /\ forced'[p] = Errors[config]
      BY <1>5, <2>2 DEF Validate
    <3>2. Kind[p] = "render" => Errors[config] = {}
      BY <2>1, <2>2 DEF Safe, GateInv
    <3>3. ~edited[p] => Errors[config] \subseteq Allowed(Kind[p])
      BY <2>1, <2>2, <3>2 DEF Safe, GateInv
    <3>4. QED BY <1>1, <2>1, <3>1, <3>2, <3>3 DEF Safe, GateInv
  <2>3. CASE ~(Errors[config] = {} \/ (force[p] /\ Errors[config] \subseteq Security))
    <3>1. /\ \A q \in Renders \ {p} : pc'[q] = pc[q]
          /\ pc'[p] = "refused" /\ forced' = forced
      BY <1>5, <2>3 DEF Validate
    <3>2. QED BY <1>1, <2>1, <3>1 DEF Safe, GateInv
  <2>4. QED BY <2>2, <2>3
<1>6. CASE Load(p)
  BY <1>1, <1>6 DEF Load, Safe, GateInv
<1>7. QED BY <1>2, <1>3, <1>4, <1>5, <1>6

\* Steps that write the rendered file or the audit record.
LEMMA LateSteps ==
  ASSUME TypeOK, Safe, NEW p \in Renders, Open(p) \/ Write(p) \/ Audit(p) \/ Crash(p)
  PROVE  Safe'
<1> USE GateAssumption DEF treeVars, outVars, renderVars, Goto, TypeOK
<1>1. CASE Open(p)
  BY <1>1 DEF Open, Safe, GateInv, OnlyEditsEscape, Acceptable
<1>2. CASE Write(p)
  <2>1. loaded[p] \in Configs
          /\ (~edited[p] => Errors[loaded[p]] \subseteq Allowed(Kind[p]))
    BY <1>2 DEF Write, Safe, GateInv
  <2>2. OnlyEditsEscape'
    BY <1>2, <2>1 DEF Write, Safe, OnlyEditsEscape, Acceptable
  <2>3. GateInv'
    BY <1>2, <2>1 DEF Write, Safe, GateInv
  <2>4. QED BY <2>2, <2>3 DEF Safe
<1>3. CASE Audit(p)
  BY <1>3 DEF Audit, Safe, GateInv, OnlyEditsEscape, Acceptable
<1>4. CASE Crash(p)
  BY <1>4 DEF Crash, Running, Ended, Safe, GateInv, OnlyEditsEscape, Acceptable
<1>5. QED BY <1>1, <1>2, <1>3, <1>4

LEMMA SafeStep ==
  ASSUME TypeOK, Safe, [Next]_vars
  PROVE  Safe'
<1> USE DEF treeVars, outVars, renderVars
<1>1. ASSUME NEW c \in Configs, Edit(c) PROVE Safe'
  <2>1. UNCHANGED <<outVars, infra, renderVars>>
          /\ \A p \in Renders : edited'[p] = (edited[p] \/ Running(p))
    BY <1>1 DEF Edit, TypeOK
  <2>2. OnlyEditsEscape'
    BY <2>1, ZenonT(60) DEF Safe, GateInv, OnlyEditsEscape, Acceptable
  <2>3. \A p \in Renders : ~edited'[p] =>
          ~edited[p] /\ pc[p] \notin {"validate", "load"}
    BY <2>1 DEF Running, Ended
  <2>4. GateInv'
    BY <2>1, <2>3 DEF Safe, GateInv
  <2>5. QED BY <2>2, <2>4 DEF Safe
<1>2. CASE Apply
  BY <1>2 DEF Apply, Safe, GateInv, OnlyEditsEscape, Acceptable
<1>3. CASE UNCHANGED vars
  BY <1>3 DEF vars, Safe, GateInv, OnlyEditsEscape, Acceptable
<1>4. QED
  BY <1>1, <1>2, <1>3, EarlySteps, LateSteps DEF Next, Step

LEMMA SafeAlways == Spec => []Safe
<1>1. Init => TypeOK /\ Safe
  BY TypeInit, SafeInit
<1>2. TypeOK /\ Safe /\ [Next]_vars => TypeOK' /\ Safe'
  BY TypeStep, SafeStep
<1>3. QED BY <1>1, <1>2, PTL DEF Spec

\* Whatever is rendered or applied has only errors its command may let
\* through, unless the configuration was edited while the command ran.
THEOREM OnlyEditsGetThrough == Spec => []OnlyEditsEscape
<1>1. Safe => OnlyEditsEscape
  BY DEF Safe
<1>2. QED BY <1>1, SafeAlways, PTL

\* A successful command on an unchanged configuration leaves a clean file or
\* an audit record that lists every error it has.
THEOREM OverridesAreAudited == Spec => []SuccessIsAudited
<1>1. Safe => SuccessIsAudited
  BY DEF Safe, GateInv, SuccessIsAudited
<1>2. QED BY <1>1, SafeAlways, PTL
===============================================================================
