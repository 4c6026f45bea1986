------------------------------ MODULE Environment ------------------------------
(***************************************************************************)
(* What the workflows promise about one environment, for somebody who sees *)
(* only merges and what is deployed: terraform applies merged commits that *)
(* passed the checks, to their end unless something goes wrong; and the    *)
(* function runs the source of the first commit that was deployed.         *)
(***************************************************************************)
EXTENDS Integers

CONSTANTS Commits

VARIABLES
  merged,    \* commits merged so far
  fate,      \* what is wrong with each, or "good"
  applied,   \* the commit that terraform last applied, 0 for none
  whole,     \* it applied it to the end
  code,      \* the commit whose source the function runs, 0 for none
  trouble    \* failed, interrupted and lost steps so far

vars == <<merged, fate, applied, whole, code, trouble>>

Fates == {"good", "rejected", "broken"}

Init ==
  /\ merged = 0 /\ fate = [c \in Commits |-> "good"]
  /\ applied = 0 /\ whole = TRUE
  /\ code = 0
  /\ trouble = 0

Merge ==
  /\ merged + 1 \in Commits
  /\ merged' = merged + 1
  /\ \E what \in Fates : fate' = [fate EXCEPT ![merged + 1] = what]
  /\ UNCHANGED <<applied, whole, code, trouble>>

Checked(c) == c \in 1 .. merged /\ fate[c] # "rejected"

\* The function is created from c, or left as it is.
CodeAfter(c) == IF code = 0 THEN c ELSE code

Deploy(c) ==
  /\ Checked(c) /\ fate[c] # "broken"
  /\ applied' = c /\ whole' = TRUE
  /\ code' = CodeAfter(c)
  /\ trouble' \in {trouble, trouble + 1}
  /\ UNCHANGED <<merged, fate>>

\* terraform stops half-way: because of the commit, or of some trouble.
Stop(c) ==
  /\ Checked(c)
  /\ applied' = c /\ whole' = FALSE
  /\ code' \in {code, CodeAfter(c)}
  /\ \/ fate[c] = "broken" /\ UNCHANGED trouble
     \/ trouble' = trouble + 1
  /\ UNCHANGED <<merged, fate>>

\* Trouble that does not reach the environment.
Fail ==
  /\ trouble' = trouble + 1
  /\ UNCHANGED <<merged, fate, applied, whole, code>>

Next == Merge \/ Fail \/ \E c \in Commits : Deploy(c) \/ Stop(c)

Spec == Init /\ [][Next]_vars
-------------------------------------------------------------------------------
(***************************************************************************)
(* Nothing that the checks reject is ever deployed, neither as             *)
(* infrastructure nor as the function's code, and what is deployed half    *)
(* has a cause.                                                            *)
(***************************************************************************)
OnlyCheckedIsDeployed ==
  /\ applied # 0 => Checked(applied)
  /\ code # 0 => Checked(code)
  /\ ~whole => applied # 0 /\ (trouble > 0 \/ fate[applied] = "broken")
===============================================================================
