---------------------------- MODULE ArchiveLedger -----------------------------
(***************************************************************************)
(* What the Cloud Logging archive promises its reader                      *)
(* (docs/callgenie-history.md, "Cloud Logging coverage"): a set of         *)
(* archived entries that only grows, and a mark, the checkpoint's          *)
(* receive_timestamp_through, that never moves back.  Whatever was         *)
(* received Overlap before the mark is archived or was lost to retention   *)
(* before it could be; later exports look only at what is newer.           *)
(***************************************************************************)
EXTENDS Integers

CONSTANTS Entries, Overlap

VARIABLES
  received,  \* entries Cloud Logging has received
  lost,      \* entries it dropped at the end of their retention
  at,        \* receiveTimestamp of the received entries
  archived,  \* entries in published snapshots
  marked,    \* whether a checkpoint exists
  mark       \* its receive_timestamp_through

vars == <<received, lost, at, archived, marked, mark>>

Settled(c) ==
  \A e \in received : at[e] <= c - Overlap => e \in archived \cup lost

Init ==
  /\ received = {} /\ lost = {}
  /\ at \in [Entries -> Int]
  /\ archived = {}
  /\ marked = FALSE
  /\ mark \in Int

\* A new entry is never stamped behind the mark's horizon.
Arrive(e) ==
  /\ e \notin received
  /\ received' = received \cup {e}
  /\ at' \in [Entries -> Int]
  /\ \A x \in Entries \ {e} : at'[x] = at[x]
  /\ marked => at'[e] > mark - Overlap
  /\ UNCHANGED <<lost, archived, marked, mark>>

Lose(e) ==
  /\ e \in received
  /\ lost' = lost \cup {e}
  /\ UNCHANGED <<received, at, archived, marked, mark>>

Publish ==
  /\ archived \subseteq archived'
  /\ archived' \subseteq archived \cup received
  /\ UNCHANGED <<received, lost, at, marked, mark>>

MoveMark ==
  /\ marked' = TRUE
  /\ mark' \in Int
  /\ Settled(mark')
  /\ marked => mark' >= mark
  /\ UNCHANGED <<received, lost, at, archived>>

Next ==
  \/ \E e \in Entries : Arrive(e) \/ Lose(e)
  \/ Publish
  \/ MoveMark

Spec == Init /\ [][Next]_vars
-------------------------------------------------------------------------------
(***************************************************************************)
(* Nothing behind the mark's horizon is missing from the archive for any   *)
(* reason but retention.                                                   *)
(***************************************************************************)
NoGap == marked => Settled(mark)
===============================================================================
