--------------------------- MODULE RedisInstallation ---------------------------
(***************************************************************************)
(* What the bootstrap promises to those who use the Redis of its VM: there *)
(* is one password for good, a Redis they can reach asks for it, and from  *)
(* its completion on the installation is left alone until the operator     *)
(* reopens it.                                                             *)
(***************************************************************************)
EXTENDS Integers

CONSTANTS Passwords, None

VARIABLES
  password,   \* the password applications are given, None before there is one
  asked,      \* what a reachable Redis asks for, None while none is reachable
  version,    \* the installed version, 0 for none
  complete

vars == <<password, asked, version, complete>>

Init ==
  /\ password = None /\ asked = None
  /\ version = 0
  /\ complete = FALSE

Choose ==
  /\ password = None
  /\ password' \in Passwords
  /\ UNCHANGED <<asked, version, complete>>

\* Redis starts or stops being reachable.
Serve ==
  /\ asked' \in {None, password}
  /\ UNCHANGED <<password, version, complete>>

\* Installing may restart a Redis that is there already.
Install ==
  /\ ~complete
  /\ version' \in Nat \ {0}
  /\ asked' \in {asked, None, password}
  /\ UNCHANGED <<password, complete>>

Complete ==
  /\ password # None /\ version > 0
  /\ complete' = TRUE
  /\ UNCHANGED <<password, asked, version>>

Reopen ==
  /\ complete' = FALSE
  /\ UNCHANGED <<password, asked, version>>

Next == Choose \/ Serve \/ Install \/ Complete \/ Reopen

Spec == Init /\ [][Next]_vars
===============================================================================
