---------------------------- MODULE RedisBootstrap ----------------------------
(***************************************************************************)
(* scripts/startup/redis.sh, the script that installs Redis on its VM      *)
(* (scripts/startup/digitap-redis.sh is the same text for another stack).  *)
(* The guest agent runs it at every boot and an operator may run it at any *)
(* time, also while another run is in progress.  A run can fail at every   *)
(* command (set -e), be killed, or end with the VM.  systemd starts Redis  *)
(* at boot and again when it dies, with whatever the files say just then.  *)
(* A write that happened is kept: losing the disk's cache is not modelled. *)
(***************************************************************************)
EXTENDS Integers

CONSTANTS
  Runs,          \* runs of the script that may overlap
  Passwords,     \* what openssl rand can return
  Missing, Empty, Down,
  MaxReleases,   \* bound: versions published at packages.redis.io
  MaxFaults      \* bound: failures, stops, reboots and removed markers

ASSUME BootstrapAssumption ==
  /\ MaxReleases \in Nat /\ MaxFaults \in Nat
  /\ Missing # Empty
  /\ {Missing, Empty} \cap (Passwords \cup [requirepass : Passwords \cup {Empty}]) = {}

VARIABLES
  pc,          \* the step of each run, "idle" between runs
  installed,   \* installed version of redis-server, 0 if none
  secret,      \* callgenie.password
  conf,        \* callgenie.conf
  included,    \* redis.conf ends with the include of callgenie.conf
  enabled,     \* systemd starts Redis at boot
  recorded,    \* redis-installed-version.txt
  marker,      \* redis-v1.complete
  daemon,      \* the running Redis: Down, or what it was started with
  latest,      \* version at packages.redis.io
  faults

disk == <<installed, secret, conf, included, enabled, recorded, marker>>
vars == <<pc, disk, daemon, latest, faults>>

Locked == {"locked", "keep", "install", "password", "generate", "open", "write", "unlink",
           "include", "enable", "restart", "ping", "record", "mark"}

Confs == {Missing, Empty} \cup [requirepass : Passwords \cup {Empty}]
Servers == [public : BOOLEAN, requirepass : Passwords \cup {Empty}]
Packaged == [public |-> FALSE, requirepass |-> Empty]

TypeOK ==
  /\ pc \in [Runs -> {"idle", "begin"} \cup Locked]
  /\ installed \in 0 .. MaxReleases /\ recorded \in 0 .. MaxReleases
  /\ latest \in 0 .. MaxReleases
  /\ secret \in Passwords \cup {Missing, Empty}
  /\ conf \in Confs
  /\ included \in BOOLEAN /\ enabled \in BOOLEAN /\ marker \in BOOLEAN
  /\ daemon \in Servers \cup {Down}
  /\ faults \in 0 .. MaxFaults

Init ==
  /\ pc = [r \in Runs |-> "idle"]
  /\ installed = 0 /\ recorded = 0 /\ latest = 0
  /\ secret = Missing /\ conf = Missing
  /\ included = FALSE /\ enabled = FALSE /\ marker = FALSE
  /\ daemon = Down
  /\ faults = 0
-------------------------------------------------------------------------------
\* What a start of redis-server makes of the files.  It refuses an include
\* of a missing file and a requirepass without a value.
Started ==
  CASE ~included \/ conf = Empty -> Packaged
    [] included /\ conf \in [requirepass : Passwords] ->
         [public |-> TRUE, requirepass |-> conf.requirepass]
    [] OTHER -> Down

Fault == faults < MaxFaults /\ faults' = faults + 1

Goes(r, from, to) == pc[r] = from /\ pc' = [pc EXCEPT ![r] = to]

Start(r) ==
  /\ Goes(r, "idle", "begin")
  /\ UNCHANGED <<disk, daemon, latest, faults>>

\* Mutant: the script does not take the lock.
LockAlways(r) ==
  /\ Goes(r, "begin", "locked")
  /\ UNCHANGED <<disk, daemon, latest, faults>>

\* flock -n: a run that finds another one in progress ends.
Lock(r) ==
  /\ IF \E q \in Runs : pc[q] \in Locked
       THEN Goes(r, "begin", "idle")
       ELSE Goes(r, "begin", "locked")
  /\ UNCHANGED <<disk, daemon, latest, faults>>

CheckMarker(r) ==
  /\ Goes(r, "locked", IF marker THEN "keep" ELSE "install")
  /\ UNCHANGED <<disk, daemon, latest, faults>>

\* systemctl enable --now
Keep(r) ==
  /\ Goes(r, "keep", "idle")
  /\ enabled' = TRUE
  /\ daemon' = IF daemon = Down THEN Started ELSE daemon
  /\ UNCHANGED <<installed, secret, conf, included, recorded, marker, latest, faults>>

\* apt-get install; the package may enable, start or restart the service.
Install(r) ==
  /\ latest > 0
  /\ Goes(r, "install", "password")
  /\ installed' = latest
  /\ enabled' \in {enabled, TRUE}
  /\ daemon' \in {daemon, Started}
  /\ UNCHANGED <<secret, conf, included, recorded, marker, latest, faults>>

\* Mutant: [[ ! -f ]], an empty password file counts as a password.
CheckPasswordExists(r) ==
  /\ Goes(r, "password", IF secret = Missing THEN "generate" ELSE "open")
  /\ secret' = IF secret = Missing THEN Empty ELSE secret
  /\ UNCHANGED <<installed, conf, included, enabled, recorded, marker, daemon, latest, faults>>

\* Mutant: every run generates a password.
CheckPasswordNever(r) ==
  /\ Goes(r, "password", "generate")
  /\ secret' = Empty
  /\ UNCHANGED <<installed, conf, included, enabled, recorded, marker, daemon, latest, faults>>

\* [[ ! -s ]] and, without a password, the redirection that opens the file.
CheckPassword(r) ==
  /\ Goes(r, "password", IF secret \in Passwords THEN "open" ELSE "generate")
  /\ secret' = IF secret \in Passwords THEN secret ELSE Empty
  /\ UNCHANGED <<installed, conf, included, enabled, recorded, marker, daemon, latest, faults>>

Generate(r) ==
  /\ Goes(r, "generate", "open")
  /\ secret' \in Passwords
  /\ UNCHANGED <<installed, conf, included, enabled, recorded, marker, daemon, latest, faults>>

\* Mutant: an existing callgenie.conf is left as it is.
OpenConfOnce(r) ==
  /\ Goes(r, "open", IF conf = Missing THEN "write" ELSE "unlink")
  /\ conf' = IF conf = Missing THEN Empty ELSE conf
  /\ UNCHANGED <<installed, secret, included, enabled, recorded, marker, daemon, latest, faults>>

\* cat > callgenie.conf, as it opens the file ...
OpenConf(r) ==
  /\ Goes(r, "open", "write")
  /\ conf' = Empty
  /\ UNCHANGED <<installed, secret, included, enabled, recorded, marker, daemon, latest, faults>>

\* ... and as it writes it.
WriteConf(r) ==
  /\ Goes(r, "write", "unlink")
  /\ conf' = [requirepass |-> secret]
  /\ UNCHANGED <<installed, secret, included, enabled, recorded, marker, daemon, latest, faults>>

\* sed removes the include, printf appends it.
Unlink(r) ==
  /\ Goes(r, "unlink", "include")
  /\ included' = FALSE
  /\ UNCHANGED <<installed, secret, conf, enabled, recorded, marker, daemon, latest, faults>>

Include(r) ==
  /\ Goes(r, "include", "enable")
  /\ included' = TRUE
  /\ UNCHANGED <<installed, secret, conf, enabled, recorded, marker, daemon, latest, faults>>

Enable(r) ==
  /\ Goes(r, "enable", "restart")
  /\ enabled' = TRUE
  /\ UNCHANGED <<installed, secret, conf, included, recorded, marker, daemon, latest, faults>>

\* A restart that fails ends the run.
Restart(r) ==
  /\ daemon' = Started
  /\ Goes(r, "restart", IF Started = Down THEN "idle" ELSE "ping")
  /\ UNCHANGED <<disk, latest, faults>>

\* A server without a password answers PONG too: redis-cli goes on after
\* the refused AUTH.
Pong == daemon # Down /\ daemon.requirepass \in {Empty, secret}

Ping(r) ==
  /\ Goes(r, "ping", "record")
  /\ Pong
  /\ UNCHANGED <<disk, daemon, latest, faults>>

\* No PONG in 30 attempts.
Unhealthy(r) ==
  /\ Goes(r, "ping", "idle")
  /\ ~Pong
  /\ UNCHANGED <<disk, daemon, latest, faults>>

Record(r) ==
  /\ Goes(r, "record", "mark")
  /\ recorded' = installed
  /\ UNCHANGED <<installed, secret, conf, included, enabled, marker, daemon, latest, faults>>

Mark(r) ==
  /\ Goes(r, "mark", "idle")
  /\ marker' = TRUE
  /\ UNCHANGED <<installed, secret, conf, included, enabled, recorded, daemon, latest, faults>>

\* A command fails or the run is killed; what it did so far stays.
Fail(r) ==
  /\ Fault
  /\ pc[r] # "idle"
  /\ pc' = [pc EXCEPT ![r] = "idle"]
  /\ UNCHANGED <<disk, daemon, latest>>
-------------------------------------------------------------------------------
\* redis-server dies, and systemd starts it again.
Die ==
  /\ Fault
  /\ daemon # Down
  /\ daemon' \in {Down, Started}
  /\ UNCHANGED <<pc, disk, latest>>

Reboot ==
  /\ Fault
  /\ pc' = [r \in Runs |-> "idle"]
  /\ daemon' = IF enabled THEN Started ELSE Down
  /\ UNCHANGED <<disk, latest>>

Release ==
  /\ latest < MaxReleases
  /\ latest' = latest + 1
  /\ UNCHANGED <<pc, disk, daemon, faults>>

\* The operator removes the marker, to upgrade or reconfigure.
Reopen ==
  /\ Fault
  /\ marker
  /\ marker' = FALSE
  /\ UNCHANGED <<pc, installed, secret, conf, included, enabled, recorded, daemon, latest>>
-------------------------------------------------------------------------------
Step(r) ==
  \/ Lock(r) \/ CheckMarker(r) \/ Keep(r) \/ Install(r)
  \/ CheckPassword(r) \/ Generate(r) \/ OpenConf(r) \/ WriteConf(r)
  \/ Unlink(r) \/ Include(r) \/ Enable(r) \/ Restart(r)
  \/ Ping(r) \/ Unhealthy(r) \/ Record(r) \/ Mark(r)

Next ==
  \/ \E r \in Runs : Start(r) \/ Step(r) \/ Fail(r)
  \/ Die \/ Reboot \/ Release \/ Reopen

Spec == Init /\ [][Next]_vars

\* The script runs on; the first release is out; and somebody runs the
\* script again until it has completed ("If installation failed, fix ...,
\* then run").
Fairness ==
  /\ WF_vars(Release)
  /\ \A r \in Runs : WF_vars(Start(r)) /\ WF_vars(Step(r))

FairSpec == Spec /\ Fairness
-------------------------------------------------------------------------------
(***************************************************************************)
(* A Redis that other machines can reach asks for the password of the      *)
(* password file, in every interleaving of runs, restarts and reboots.     *)
(***************************************************************************)
PublicNeedsPassword ==
  daemon # Down /\ daemon.public => daemon.requirepass = secret /\ secret \in Passwords

(***************************************************************************)
(* The marker means what it says: the next boot starts Redis with the      *)
(* settings of callgenie.conf and the password of the password file, and   *)
(* the recorded version is the installed one.                              *)
(***************************************************************************)
CompleteIsComplete ==
  marker => /\ enabled /\ included
            /\ secret \in Passwords /\ conf = [requirepass |-> secret]
            /\ installed > 0 /\ recorded = installed

(***************************************************************************)
(* A completed bootstrap is left alone, also by a run that began before it *)
(* completed: "without reinstalling, upgrading, regenerating the password, *)
(* or overwriting its configuration".                                      *)
(***************************************************************************)
CompletedIsRetained ==
  [][marker /\ marker' => UNCHANGED <<installed, secret, conf, included, recorded>>]_vars

(***************************************************************************)
(* A password once written is never replaced: applications hold it.        *)
(***************************************************************************)
PasswordKept == [][\A p \in Passwords : secret = p => secret' = p]_vars

(***************************************************************************)
(* Overlapping runs, half-written files and restarts at any moment: for    *)
(* those who use it, the Redis is what RedisInstallation says.             *)
(***************************************************************************)
Installation == INSTANCE RedisInstallation WITH
  None <- Missing,
  password <- IF secret \in Passwords THEN secret ELSE Missing,
  asked <- IF daemon # Down /\ daemon.public THEN daemon.requirepass ELSE Missing,
  version <- installed,
  complete <- marker

InstallationSpec == Installation!Spec

(***************************************************************************)
(* Whatever failed before, the bootstrap completes in the end.             *)
(***************************************************************************)
EventuallyComplete == <>marker

-------------------------------------------------------------------------------
(***************************************************************************)
(* The inductive invariant: one run at a time holds the lock; how far it   *)
(* is says what is on the disk; and callgenie.conf, once written, holds    *)
(* the password of the password file.                                      *)
(***************************************************************************)
OneHolds == \A q, r \in Runs : pc[q] \in Locked /\ pc[r] \in Locked => q = r

Marking   == {"mark"}
Starting  == {"restart", "ping", "record"} \cup Marking
Included  == {"enable"} \cup Starting
Written   == {"unlink", "include"} \cup Included
Secured   == {"open", "write"} \cup Written
Installed == {"password", "generate"} \cup Secured

ProgressInv == \A r \in Runs :
  /\ pc[r] \in {"install"} \cup Installed => ~marker
  /\ pc[r] \in Installed => installed > 0
  /\ pc[r] = "generate" => secret \notin Passwords
  /\ pc[r] \in Secured => secret \in Passwords
  /\ pc[r] \in Written => conf = [requirepass |-> secret]
  /\ pc[r] \in Included => included
  /\ pc[r] \in Starting => enabled
  /\ pc[r] \in Marking => recorded = installed

ConfInv ==
  conf \in [requirepass : Passwords] =>
    secret \in Passwords /\ conf = [requirepass |-> secret]

BootstrapInv ==
  OneHolds /\ ProgressInv /\ ConfInv /\ PublicNeedsPassword /\ CompleteIsComplete
===============================================================================
