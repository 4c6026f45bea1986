------------------------------ MODULE RenderGate ------------------------------
(***************************************************************************)
(* The gate between a deployment's configuration and Terraform:            *)
(* engine/cli.py render, with and without --force-security, and            *)
(* engine/ci_prepare.py, all on one working tree that people edit.         *)
(*                                                                         *)
(* Each command reads the configuration more than once: render validates   *)
(* one reading and writes a later one; ci_prepare reads it for its report, *)
(* again for its own check, and then calls render.  The rendered file is   *)
(* truncated, written and only then followed by its audit record, and      *)
(* Terraform reads whatever is there.                                      *)
(***************************************************************************)
EXTENDS Naturals

CONSTANTS
  Configs,      \* contents the configuration directory may have
  Errors,       \* the ERROR findings run_validation reports for each
  Renders,      \* commands that are run
  Kind,         \* "render", "force" or "ci" for each
  NoConfig,
  NoRender,
  MaxEdits,     \* bound: edits of the configuration
  MaxFaults     \* bound: commands that are interrupted

Kinds == {"render", "force", "ci"}

\* "approved" stands for SEC_PUBLIC_VM of callgenie's Redis VM, "security"
\* for every other SECURITY finding, "yaml" for a file that cannot be loaded.
Findings == {"approved", "security", "structure", "yaml"}
Security == {"approved", "security"}

ASSUME GateAssumption ==
  /\ Errors \in [Configs -> SUBSET Findings]
  /\ Kind \in [Renders -> Kinds]
  /\ NoConfig \notin Configs /\ NoRender \notin Renders
  /\ MaxEdits \in Nat /\ MaxFaults \in Nat

VARIABLES
  config,    \* the configuration directory
  edits,
  artifact,  \* deployment.normalized.json: "none", "partial" or "full"
  audit,     \* override-audit.jsonl
  infra,     \* the rendered file Terraform last applied, and who wrote it
  verdict,   \* how the latest command to finish ended
  pc,        \* the step of each command
  force,     \* args.force_security
  forced,    \* the findings it overrides
  loaded,    \* the configuration it is about to write
  edited,    \* the configuration changed while it ran
  faults

treeVars == <<config, edits>>
outVars == <<artifact, audit>>
renderVars == <<pc, force, forced, loaded>>
vars == <<treeVars, outVars, infra, verdict, renderVars, edited, faults>>

Ended == {"ok", "refused", "crashed"}
Steps == {"idle", "approve", "validate", "load", "open", "write", "audit"} \cup Ended
Written == [state: {"none", "partial", "full"}, config: Configs \cup {NoConfig},
            by: Renders \cup {NoRender}]
Nothing == [state |-> "none", config |-> NoConfig, by |-> NoRender]

TypeOK ==
  /\ config \in Configs /\ edits \in Nat
  /\ artifact \in Written /\ infra \in Written
  /\ audit \subseteq [by: Renders, findings: SUBSET Findings]
  /\ verdict \in {"none"} \cup Ended
  /\ pc \in [Renders -> Steps]
  /\ force \in [Renders -> BOOLEAN]
  /\ forced \in [Renders -> SUBSET Findings]
  /\ loaded \in [Renders -> Configs \cup {NoConfig}]
  /\ edited \in [Renders -> BOOLEAN]
  /\ faults \in Nat

Init ==
  /\ config \in Configs /\ edits = 0
  /\ artifact = Nothing /\ infra = Nothing /\ audit = {}
  /\ verdict = "none"
  /\ pc = [p \in Renders |-> "idle"]
  /\ force = [p \in Renders |-> FALSE]
  /\ forced = [p \in Renders |-> {}]
  /\ loaded = [p \in Renders |-> NoConfig]
  /\ edited = [p \in Renders |-> FALSE]
  /\ faults = 0
-------------------------------------------------------------------------------
Running(p) == pc[p] \notin Ended \cup {"idle"}

\* Somebody saves another configuration.
Edit(c) ==
  /\ edits < MaxEdits /\ c # config
  /\ config' = c /\ edits' = edits + 1
  /\ edited' = [p \in Renders |-> edited[p] \/ Running(p)]
  /\ UNCHANGED <<outVars, infra, verdict, renderVars, faults>>

\* terraform plan and apply: a missing or cut-off file stops the plan.
Apply ==
  /\ artifact.state = "full"
  /\ infra' = artifact
  /\ UNCHANGED <<treeVars, outVars, verdict, renderVars, edited, faults>>
-------------------------------------------------------------------------------
\* main returns what the command returned.
Goto(p, step) ==
  /\ pc' = [pc EXCEPT ![p] = step]
  /\ verdict' = IF step \in Ended THEN step ELSE verdict

\* cli.main: the command starts with the flag it was given.
Begin(p) ==
  /\ pc[p] = "idle" /\ Kind[p] # "ci"
  /\ Goto(p, "validate")
  /\ force' = [force EXCEPT ![p] = Kind[p] = "force"]
  /\ UNCHANGED <<treeVars, outVars, infra, forced, loaded, edited, faults>>

\* ci_prepare.main: cmd_validate writes validation.json, its exit code unused.
Report(p) ==
  /\ pc[p] = "idle" /\ Kind[p] = "ci"
  /\ Goto(p, "approve")
  /\ UNCHANGED <<treeVars, outVars, infra, force, forced, loaded, edited, faults>>

\* Mutant: any SECURITY finding passes for the approved one.
ApproveSecurity(p) ==
  /\ pc[p] = "approve"
  /\ IF Errors[config] \subseteq Security
       THEN /\ Goto(p, "validate")
            /\ force' = [force EXCEPT ![p] = Errors[config] # {}]
       ELSE Goto(p, "refused") /\ UNCHANGED force
  /\ UNCHANGED <<treeVars, outVars, infra, forced, loaded, edited, faults>>

\* ci_prepare.main: unapproved_errors of a second reading.
Approve(p) ==
  /\ pc[p] = "approve"
  /\ IF Errors[config] \subseteq {"approved"}
       THEN /\ Goto(p, "validate")
            /\ force' = [force EXCEPT ![p] = Errors[config] # {}]
       ELSE Goto(p, "refused") /\ UNCHANGED force
  /\ UNCHANGED <<treeVars, outVars, infra, forced, loaded, edited, faults>>

\* Mutant: what was overridden is not kept.
ValidateForgets(p) ==
  /\ pc[p] = "validate"
  /\ IF Errors[config] = {} \/ (force[p] /\ Errors[config] \subseteq Security)
       THEN Goto(p, "load") /\ forced' = [forced EXCEPT ![p] = {}]
       ELSE Goto(p, "refused") /\ UNCHANGED forced
  /\ UNCHANGED <<treeVars, outVars, infra, force, loaded, edited, faults>>

\* cmd_render: refuse, or go on with the findings that are overridden.
Validate(p) ==
  /\ pc[p] = "validate"
  /\ IF Errors[config] = {} \/ (force[p] /\ Errors[config] \subseteq Security)
       THEN Goto(p, "load") /\ forced' = [forced EXCEPT ![p] = Errors[config]]
       ELSE Goto(p, "refused") /\ UNCHANGED forced
  /\ UNCHANGED <<treeVars, outVars, infra, force, loaded, edited, faults>>

\* cmd_render: the configuration is loaded again, to be written.
Load(p) ==
  /\ pc[p] = "load"
  /\ IF "yaml" \in Errors[config]
       THEN Goto(p, "crashed") /\ UNCHANGED loaded
       ELSE Goto(p, "open") /\ loaded' = [loaded EXCEPT ![p] = config]
  /\ UNCHANGED <<treeVars, outVars, infra, force, forced, edited, faults>>

\* write_text: the file is truncated ...
Open(p) ==
  /\ pc[p] = "open"
  /\ Goto(p, "write")
  /\ artifact' = [state |-> "partial", config |-> NoConfig, by |-> p]
  /\ UNCHANGED <<treeVars, audit, infra, force, forced, loaded, edited, faults>>

\* ... and written: over what another command wrote meanwhile, if one did.
Write(p) ==
  /\ pc[p] = "write"
  /\ Goto(p, IF forced[p] = {} THEN "ok" ELSE "audit")
  /\ \/ artifact' = [state |-> "full", config |-> loaded[p], by |-> p]
     \/ /\ artifact.by # p
        /\ artifact' = [state |-> "partial", config |-> NoConfig, by |-> p]
  /\ UNCHANGED <<treeVars, audit, infra, force, forced, loaded, edited, faults>>

\* _write_override_audit
Audit(p) ==
  /\ pc[p] = "audit"
  /\ Goto(p, "ok")
  /\ audit' = audit \cup {[by |-> p, findings |-> forced[p]]}
  /\ UNCHANGED <<treeVars, artifact, infra, force, forced, loaded, edited, faults>>

\* The command is interrupted, or a write fails.
Crash(p) ==
  /\ Running(p)
  /\ faults < MaxFaults /\ faults' = faults + 1
  /\ Goto(p, "crashed")
  /\ UNCHANGED <<treeVars, outVars, infra, force, forced, loaded, edited>>
-------------------------------------------------------------------------------
Step(p) ==
  \/ Begin(p) \/ Report(p) \/ Approve(p) \/ Validate(p) \/ Load(p)
  \/ Open(p) \/ Write(p) \/ Audit(p)

Next ==
  \/ \E c \in Configs : Edit(c)
  \/ Apply
  \/ \E p \in Renders : Step(p) \/ Crash(p)

Spec == Init /\ [][Next]_vars
-------------------------------------------------------------------------------
\* The errors each command may let through.
Allowed(kind) == CASE kind = "render" -> {}
                   [] kind = "force" -> Security
                   [] kind = "ci" -> {"approved"}

Acceptable(file) ==
  file.state = "full" /\ ~edited[file.by] =>
    Errors[file.config] \subseteq Allowed(Kind[file.by])

(***************************************************************************)
(* What Terraform can read, and what it has applied, has no error that the *)
(* command that wrote it may not let through: none for render, SECURITY    *)
(* findings for --force-security, the Redis exception for ci_prepare.  The *)
(* one way around it is an edit while that command ran, between the        *)
(* reading that was validated and the one that was written.                *)
(***************************************************************************)
OnlyEditsEscape == Acceptable(artifact) /\ Acceptable(infra)

(***************************************************************************)
(* A command that reports success on an unchanged configuration has        *)
(* written exactly what it validated: a configuration without errors, or   *)
(* one whose every error is in its audit record.                           *)
(***************************************************************************)
SuccessIsAudited ==
  \A p \in Renders : pc[p] = "ok" /\ ~edited[p] =>
    \/ Errors[loaded[p]] = {}
    \/ [by |-> p, findings |-> Errors[loaded[p]]] \in audit
-------------------------------------------------------------------------------
(***************************************************************************)
(* The inductive invariant behind both: on an unchanged configuration a    *)
(* command carries the errors it validated from step to step, and they     *)
(* stay within what its kind may let through.                              *)
(***************************************************************************)
GateInv ==
  /\ \A file \in {artifact, infra} :
       file.state = "full" => file.config \in Configs /\ file.by \in Renders
  /\ \A p \in Renders :
       /\ pc[p] = "approve" => Kind[p] = "ci"
       /\ pc[p] = "validate" /\ force[p] => Kind[p] # "render"
       /\ pc[p] \in {"load", "open", "write", "audit", "ok"} /\ Kind[p] = "render" =>
            forced[p] = {}
       /\ pc[p] \in {"open", "write", "audit", "ok"} => loaded[p] \in Configs
       /\ pc[p] = "ok" /\ forced[p] # {} => [by |-> p, findings |-> forced[p]] \in audit
       /\ ~edited[p] =>
            /\ pc[p] = "validate" /\ Kind[p] = "ci" => Errors[config] \subseteq {"approved"}
            /\ pc[p] = "load" => forced[p] = Errors[config]
            /\ pc[p] \in {"open", "write", "audit", "ok"} => forced[p] = Errors[loaded[p]]
            /\ pc[p] \in {"load", "open", "write", "audit", "ok"} =>
                 forced[p] \subseteq Allowed(Kind[p])
-------------------------------------------------------------------------------
(***************************************************************************)
(* cmd_render: "if render refuses to write it, terraform plan fails on a   *)
(* missing file".                                                          *)
(***************************************************************************)
RefusalStopsTerraform == verdict = "refused" => artifact.state # "full"
===============================================================================
