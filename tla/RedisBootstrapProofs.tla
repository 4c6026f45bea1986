------------------------- MODULE RedisBootstrapProofs -------------------------
(***************************************************************************)
(* Proofs about RedisBootstrap, for every number of runs, passwords,       *)
(* releases and faults.                                                    *)
(***************************************************************************)
EXTENDS RedisBootstrap, TLAPS

USE DEF vars, disk

LEMMA TypeInit == Init => TypeOK
<1>1. Init => pc \in [Runs -> {"idle", "begin"} \cup Locked]
  BY DEF Init
<1>2. 0 \in 0 .. MaxReleases /\ 0 \in 0 .. MaxFaults
  BY BootstrapAssumption
<1>3. QED BY <1>1, <1>2 DEF Init, TypeOK, Confs

\* redis-server finds its settings in callgenie.conf or in the package.
LEMMA StartedType == Started \in Servers \cup {Down}
<1>1. CASE conf \in [requirepass : Passwords]
  BY <1>1 DEF Started, Servers, Packaged
<1>2. CASE conf \notin [requirepass : Passwords]
  BY <1>2 DEF Started, Servers, Packaged
<1>3. QED BY <1>1, <1>2

LEMMA FaultType == ASSUME TypeOK, Fault PROVE faults' \in 0 .. MaxFaults
BY BootstrapAssumption DEF TypeOK, Fault

LEMMA TypeStep ==
  ASSUME TypeOK, ProgressInv, [Next]_vars
  PROVE  TypeOK'
<1> USE BootstrapAssumption, StartedType DEF TypeOK, Locked, Goes
<1>1. ASSUME NEW r \in Runs, Start(r) PROVE TypeOK'
  BY <1>1 DEF Start
<1>2. ASSUME NEW r \in Runs, Lock(r) PROVE TypeOK'
  BY <1>2 DEF Lock
<1>3. ASSUME NEW r \in Runs, CheckMarker(r) PROVE TypeOK'
  BY <1>3 DEF CheckMarker
<1>4. ASSUME NEW r \in Runs, Keep(r) PROVE TypeOK'
  BY <1>4 DEF Keep
<1>5. ASSUME NEW r \in Runs, Install(r) PROVE TypeOK'
  BY <1>5 DEF Install
<1>6. ASSUME NEW r \in Runs, CheckPassword(r) PROVE TypeOK'
  BY <1>6 DEF CheckPassword
<1>7. ASSUME NEW r \in Runs, Generate(r) PROVE TypeOK'
  BY <1>7 DEF Generate
<1>8. ASSUME NEW r \in Runs, OpenConf(r) PROVE TypeOK'
  BY <1>8 DEF OpenConf, Confs
<1>9. ASSUME NEW r \in Runs, WriteConf(r) PROVE TypeOK'
  <2>1. secret \in Passwords
    BY <1>9 DEF WriteConf, ProgressInv, Secured
  <2>2. conf' \in Confs
    BY <1>9, <2>1 DEF WriteConf, Confs
  <2>3. QED BY <1>9, <2>2 DEF WriteConf
<1>10. ASSUME NEW r \in Runs, Unlink(r) \/ Include(r) \/ Enable(r) PROVE TypeOK'
  BY <1>10 DEF Unlink, Include, Enable
<1>11. ASSUME NEW r \in Runs, Restart(r) PROVE TypeOK'
  BY <1>11 DEF Restart
<1>12. ASSUME NEW r \in Runs, Ping(r) \/ Unhealthy(r) PROVE TypeOK'
  BY <1>12 DEF Ping, Unhealthy
<1>13. ASSUME NEW r \in Runs, Record(r) \/ Mark(r) PROVE TypeOK'
  BY <1>13 DEF Record, Mark
<1>14. ASSUME NEW r \in Runs, Fail(r) PROVE TypeOK'
  BY <1>14, FaultType DEF Fail
<1>15. CASE Die \/ Reboot
  BY <1>15, FaultType DEF Die, Reboot
<1>16. CASE Release
  BY <1>16 DEF Release
<1>17. CASE Reopen
  BY <1>17, FaultType DEF Reopen
<1>18. CASE UNCHANGED vars
  BY <1>18
<1>19. QED
  BY <1>1, <1>2, <1>3, <1>4, <1>5, <1>6, <1>7, <1>8, <1>9, <1>10, <1>11, <1>12, <1>13,
     <1>14, <1>15, <1>16, <1>17, <1>18 DEF Next, Step
-------------------------------------------------------------------------------
LEMMA GoesFacts ==
  ASSUME TypeOK, NEW r \in Runs, NEW from, NEW to, Goes(r, from, to)
  PROVE  /\ pc[r] = from /\ pc'[r] = to
         /\ \A q \in Runs \ {r} : pc'[q] = pc[q]
BY DEF Goes, TypeOK

USE DEF Installed, Secured, Written, Included, Starting, Marking

\* While a run holds the lock, the others are where the disk means nothing
\* to them.
LEMMA OthersWait ==
  ASSUME OneHolds, NEW r \in Runs, pc[r] \in Locked
  PROVE  \A q \in Runs \ {r} : pc[q] \notin Locked
BY DEF OneHolds

LEMMA ProgressByOne ==
  ASSUME TypeOK, BootstrapInv, NEW r \in Runs, pc[r] \in Locked,
         NEW from, NEW to, Goes(r, from, to),
         /\ to \in {"install"} \cup Installed => ~marker'
         /\ to \in Installed => installed' > 0
         /\ to = "generate" => secret' \notin Passwords
         /\ to \in Secured => secret' \in Passwords
         /\ to \in Written => conf' = [requirepass |-> secret']
         /\ to \in Included => included'
         /\ to \in Starting => enabled'
         /\ to \in Marking => recorded' = installed'
  PROVE  OneHolds' /\ ProgressInv'
<1>1. /\ pc'[r] = to
      /\ \A q \in Runs \ {r} : pc'[q] = pc[q] /\ pc[q] \notin Locked
  BY GoesFacts, OthersWait DEF BootstrapInv
<1>2. OneHolds'
  BY <1>1 DEF OneHolds
<1>3. ASSUME NEW q \in Runs, q # r PROVE pc'[q] \notin {"install"} \cup Installed
  BY <1>1, <1>3 DEF Locked
<1>4. ProgressInv'
  BY <1>1, <1>3 DEF ProgressInv
<1>5. QED BY <1>2, <1>4

\* What a start of Redis makes of the files is safe to be reached.
LEMMA StartedIsSafe ==
  ASSUME BootstrapInv, Started # Down, Started.public
  PROVE  Started.requirepass = secret /\ secret \in Passwords
<1>1. CASE ~included \/ conf = Empty
  <2>1. conf \notin [requirepass : Passwords] \/ ~included
    BY <1>1, BootstrapAssumption
  <2>2. Started = Packaged
    BY <1>1, <2>1 DEF Started
  <2>3. QED BY <2>2 DEF Packaged
<1>2. CASE included /\ conf # Empty
  <2>1. conf \in [requirepass : Passwords]
    BY <1>2 DEF Started
  <2>2. Started = [public |-> TRUE, requirepass |-> conf.requirepass]
    BY <1>2, <2>1 DEF Started
  <2>3. QED BY <2>1, <2>2 DEF BootstrapInv, ConfInv
<1>3. QED BY <1>1, <1>2

LEMMA SafeKept ==
  ASSUME BootstrapInv, daemon' \in {daemon, Started, Down}, secret' = secret
  PROVE  PublicNeedsPassword'
BY StartedIsSafe DEF BootstrapInv, PublicNeedsPassword
-------------------------------------------------------------------------------
LEMMA BootstrapInit == Init => BootstrapInv
BY BootstrapAssumption DEF Init, BootstrapInv, OneHolds, ProgressInv, ConfInv,
   PublicNeedsPassword, CompleteIsComplete, Locked

\* The steps of a run before it writes.
LEMMA LockKeeps ==
  ASSUME TypeOK, BootstrapInv, NEW r \in Runs, Start(r) \/ Lock(r)
  PROVE  BootstrapInv'
<1> PICK from, to : /\ Goes(r, from, to) /\ from \in {"idle", "begin"}
                    /\ to \in {"idle", "begin", "locked"}
                    /\ to = "locked" => \A q \in Runs : pc[q] \notin Locked
                    /\ UNCHANGED <<disk, daemon>>
  BY DEF Start, Lock
<1>1. pc'[r] = to /\ \A q \in Runs \ {r} : pc'[q] = pc[q]
  BY GoesFacts
<1>2. OneHolds'
  BY <1>1 DEF BootstrapInv, OneHolds, Locked
<1>3. ProgressInv'
  BY <1>1 DEF BootstrapInv, ProgressInv
<1>4. QED
  BY <1>2, <1>3 DEF BootstrapInv, ConfInv, PublicNeedsPassword, CompleteIsComplete

LEMMA CheckMarkerKeeps ==
  ASSUME TypeOK, BootstrapInv, NEW r \in Runs, CheckMarker(r)
  PROVE  BootstrapInv'
<1>1. OneHolds' /\ ProgressInv'
  BY ProgressByOne DEF CheckMarker, Goes, Locked
<1>2. QED
  BY <1>1 DEF CheckMarker, BootstrapInv, ConfInv, PublicNeedsPassword, CompleteIsComplete

LEMMA KeepKeeps ==
  ASSUME TypeOK, BootstrapInv, NEW r \in Runs, Keep(r)
  PROVE  BootstrapInv'
<1>1. OneHolds' /\ ProgressInv'
  BY ProgressByOne DEF Keep, Goes, Locked
<1>2. PublicNeedsPassword'
  BY SafeKept DEF Keep
<1>3. QED
  BY <1>1, <1>2 DEF Keep, BootstrapInv, ConfInv, CompleteIsComplete

\* A run past the marker's check finds it absent, so what it writes breaks
\* no completed bootstrap.
LEMMA InstallKeeps ==
  ASSUME TypeOK, BootstrapInv, NEW r \in Runs, Install(r)
  PROVE  BootstrapInv'
<1>1. ~marker /\ pc[r] \in Locked /\ Goes(r, "install", "password")
        /\ UNCHANGED <<secret, conf, marker>> /\ installed' > 0
  BY DEF Install, Goes, BootstrapInv, ProgressInv, Locked
<1>2. OneHolds' /\ ProgressInv'
  BY <1>1, ProgressByOne
<1>3. PublicNeedsPassword'
  BY SafeKept DEF Install
<1>4. QED
  BY <1>1, <1>2, <1>3 DEF BootstrapInv, ConfInv, CompleteIsComplete

LEMMA PasswordKeeps ==
  ASSUME TypeOK, BootstrapInv, NEW r \in Runs, CheckPassword(r) \/ Generate(r)
  PROVE  BootstrapInv'
<1>1. /\ pc[r] \in Locked /\ ~marker /\ installed > 0
      /\ UNCHANGED <<installed, conf, included, enabled, recorded, marker, daemon>>
      /\ secret \in Passwords => secret' = secret
  BY DEF CheckPassword, Generate, Goes, BootstrapInv, ProgressInv, Locked
<1>2. Empty \notin Passwords
  BY BootstrapAssumption
<1>3. OneHolds' /\ ProgressInv'
  <2>1. CASE CheckPassword(r)
    <3>1. CASE secret \in Passwords
      BY <1>1, <2>1, <3>1, ProgressByOne DEF CheckPassword
    <3>2. CASE secret \notin Passwords
      BY <1>1, <1>2, <2>1, <3>2, ProgressByOne DEF CheckPassword
    <3>3. QED BY <3>1, <3>2
  <2>2. CASE Generate(r)
    BY <1>1, <2>2, ProgressByOne DEF Generate
  <2>3. QED BY <2>1, <2>2
<1>4. QED
  BY <1>1, <1>3 DEF BootstrapInv, ConfInv, PublicNeedsPassword, CompleteIsComplete

LEMMA ConfKeeps ==
  ASSUME TypeOK, BootstrapInv, NEW r \in Runs, OpenConf(r) \/ WriteConf(r)
  PROVE  BootstrapInv'
<1>1. /\ pc[r] \in Locked /\ ~marker /\ installed > 0 /\ secret \in Passwords
      /\ UNCHANGED <<installed, secret, included, enabled, recorded, marker, daemon>>
      /\ conf' = Empty \/ conf' = [requirepass |-> secret]
  BY DEF OpenConf, WriteConf, Goes, BootstrapInv, ProgressInv, Locked
<1>2. OneHolds' /\ ProgressInv'
  <2>1. CASE OpenConf(r)
    BY <1>1, <2>1, ProgressByOne DEF OpenConf
  <2>2. CASE WriteConf(r)
    BY <1>1, <2>2, ProgressByOne DEF WriteConf
  <2>3. QED BY <2>1, <2>2
<1>3. ConfInv'
  BY <1>1, BootstrapAssumption DEF ConfInv
<1>4. QED
  BY <1>1, <1>2, <1>3 DEF BootstrapInv, PublicNeedsPassword, CompleteIsComplete

LEMMA LinkKeeps ==
  ASSUME TypeOK, BootstrapInv, NEW r \in Runs, Unlink(r) \/ Include(r) \/ Enable(r)
  PROVE  BootstrapInv'
<1>1. /\ pc[r] \in Locked /\ ~marker /\ installed > 0 /\ secret \in Passwords
      /\ conf = [requirepass |-> secret]
      /\ UNCHANGED <<installed, secret, conf, recorded, marker, daemon>>
  BY DEF Unlink, Include, Enable, Goes, BootstrapInv, ProgressInv, Locked
<1>2. OneHolds' /\ ProgressInv'
  <2>1. CASE Unlink(r)
    BY <1>1, <2>1, ProgressByOne DEF Unlink
  <2>2. CASE Include(r)
    BY <1>1, <2>2, ProgressByOne DEF Include
  <2>3. CASE Enable(r)
    <3>1. included
      BY <2>3 DEF Enable, Goes, BootstrapInv, ProgressInv
    <3>2. QED BY <1>1, <2>3, <3>1, ProgressByOne DEF Enable
  <2>4. QED BY <2>1, <2>2, <2>3
<1>3. QED
  BY <1>1, <1>2 DEF BootstrapInv, ConfInv, PublicNeedsPassword, CompleteIsComplete

LEMMA RestartKeeps ==
  ASSUME TypeOK, BootstrapInv, NEW r \in Runs, Restart(r) \/ Ping(r) \/ Unhealthy(r)
  PROVE  BootstrapInv'
<1>1. /\ pc[r] \in Starting /\ pc[r] \in Locked /\ UNCHANGED disk
      /\ daemon' \in {daemon, Started}
  BY DEF Restart, Ping, Unhealthy, Goes, Locked
<1>2. /\ ~marker /\ installed > 0 /\ secret \in Passwords
      /\ conf = [requirepass |-> secret] /\ included /\ enabled
  BY <1>1 DEF BootstrapInv, ProgressInv
<1>3. PICK to \in {"idle", "ping", "record"} : Goes(r, pc[r], to)
  BY DEF Restart, Ping, Unhealthy, Goes
<1>4. OneHolds' /\ ProgressInv'
  BY <1>1, <1>2, <1>3, ProgressByOne
<1>5. PublicNeedsPassword'
  BY <1>1, SafeKept
<1>6. QED
  BY <1>1, <1>4, <1>5 DEF BootstrapInv, ConfInv, CompleteIsComplete

LEMMA MarkKeeps ==
  ASSUME TypeOK, BootstrapInv, NEW r \in Runs, Record(r) \/ Mark(r)
  PROVE  BootstrapInv'
<1>1. /\ pc[r] \in Starting /\ pc[r] \in Locked
      /\ UNCHANGED <<installed, secret, conf, included, enabled, daemon>>
  BY DEF Record, Mark, Goes, Locked
<1>2. /\ ~marker /\ installed > 0 /\ secret \in Passwords
      /\ conf = [requirepass |-> secret] /\ included /\ enabled
  BY <1>1 DEF BootstrapInv, ProgressInv
<1>3. CASE Record(r)
  <2>1. OneHolds' /\ ProgressInv'
    BY <1>1, <1>2, <1>3, ProgressByOne DEF Record
  <2>2. QED
    BY <1>1, <1>3, <2>1 DEF Record, BootstrapInv, ConfInv, PublicNeedsPassword, CompleteIsComplete
<1>4. CASE Mark(r)
  <2>1. recorded = installed /\ recorded' = recorded
    BY <1>4 DEF Mark, Goes, BootstrapInv, ProgressInv
  <2>2. OneHolds' /\ ProgressInv'
    BY <1>1, <1>4, ProgressByOne DEF Mark
  <2>3. CompleteIsComplete'
    BY <1>1, <1>2, <2>1 DEF CompleteIsComplete
  <2>4. QED
    BY <1>1, <2>2, <2>3 DEF BootstrapInv, ConfInv, PublicNeedsPassword
<1>5. QED BY <1>3, <1>4

\* What happens to a run, to Redis and to the marker from outside.
LEMMA OutsideKeeps ==
  ASSUME TypeOK, BootstrapInv,
         (\E r \in Runs : Fail(r)) \/ Die \/ Reboot \/ Release \/ Reopen \/ UNCHANGED vars
  PROVE  BootstrapInv'
<1>1. /\ \A r \in Runs : pc'[r] \in {pc[r], "idle"}
      /\ UNCHANGED <<installed, secret, conf, included, enabled, recorded>>
      /\ marker' => marker
      /\ daemon' \in {daemon, Started, Down}
  BY DEF Fail, Die, Reboot, Release, Reopen, TypeOK
<1>2. OneHolds'
  BY <1>1 DEF BootstrapInv, OneHolds, Locked
<1>3. ProgressInv'
  BY <1>1 DEF BootstrapInv, ProgressInv
<1>4. PublicNeedsPassword'
  BY <1>1, SafeKept
<1>5. QED
  BY <1>1, <1>2, <1>3, <1>4 DEF BootstrapInv, ConfInv, CompleteIsComplete

LEMMA BootstrapStep ==
  ASSUME TypeOK, BootstrapInv, [Next]_vars
  PROVE  BootstrapInv'
BY LockKeeps, CheckMarkerKeeps, KeepKeeps, InstallKeeps, PasswordKeeps, ConfKeeps,
   LinkKeeps, RestartKeeps, MarkKeeps, OutsideKeeps DEF Next, Step

LEMMA BootstrapAlways == Spec => [](TypeOK /\ BootstrapInv)
<1>1. TypeOK /\ BootstrapInv /\ [Next]_vars => TypeOK' /\ BootstrapInv'
  BY TypeStep, BootstrapStep DEF BootstrapInv
<1>2. QED BY <1>1, TypeInit, BootstrapInit, PTL DEF Spec
-------------------------------------------------------------------------------
\* Every variable keeps its type.
THEOREM TypeCorrect == Spec => []TypeOK
BY BootstrapAlways, PTL

\* No run, restart or reboot leaves a reachable Redis without the password
\* of the password file.
THEOREM PublicIsProtected == Spec => []PublicNeedsPassword
BY BootstrapAlways, PTL DEF BootstrapInv

\* The marker is only there when everything it stands for is.
THEOREM MarkerIsTrue == Spec => []CompleteIsComplete
BY BootstrapAlways, PTL DEF BootstrapInv

\* No run changes what a completed bootstrap installed.
THEOREM CompletedStays == Spec => CompletedIsRetained
<1> DEFINE Kept == UNCHANGED <<installed, secret, conf, included, recorded>>
<1>1. ASSUME TypeOK, BootstrapInv, marker, [Next]_vars PROVE Kept
  <2>1. \A r \in Runs : pc[r] \notin {"install"} \cup Installed
    BY <1>1 DEF BootstrapInv, ProgressInv
  <2>2. ASSUME NEW r \in Runs, Start(r) \/ Step(r) \/ Fail(r) PROVE Kept
    BY <2>1, <2>2 DEF Start, Step, Fail, Lock, CheckMarker, Keep, Install, CheckPassword,
       Generate, OpenConf, WriteConf, Unlink, Include, Enable, Restart, Ping, Unhealthy,
       Record, Mark, Goes
  <2>3. ASSUME Die \/ Reboot \/ Release \/ Reopen \/ UNCHANGED vars PROVE Kept
    BY <2>3 DEF Die, Reboot, Release, Reopen
  <2>4. QED BY <1>1, <2>2, <2>3 DEF Next
<1>2. TypeOK /\ BootstrapInv /\ [Next]_vars => [marker /\ marker' => Kept]_vars
  BY <1>1
<1>3. QED BY <1>2, BootstrapAlways, PTL DEF Spec, CompletedIsRetained

\* The password that applications were given stays valid.
THEOREM PasswordStays == Spec => PasswordKept
<1> DEFINE Kept == \A p \in Passwords : secret = p => secret' = p
<1>1. ASSUME TypeOK, BootstrapInv, [Next]_vars PROVE Kept
  <2>1. ASSUME NEW r \in Runs, Start(r) \/ Step(r) \/ Fail(r) PROVE Kept
    <3>1. pc[r] = "generate" => secret \notin Passwords
      BY <1>1 DEF BootstrapInv, ProgressInv
    <3>2. QED
      BY <2>1, <3>1 DEF Start, Step, Fail, Lock, CheckMarker, Keep, Install, CheckPassword,
         Generate, OpenConf, WriteConf, Unlink, Include, Enable, Restart, Ping, Unhealthy,
         Record, Mark, Goes
  <2>2. ASSUME Die \/ Reboot \/ Release \/ Reopen \/ UNCHANGED vars PROVE Kept
    BY <2>2 DEF Die, Reboot, Release, Reopen
  <2>3. QED BY <1>1, <2>1, <2>2 DEF Next
<1>2. TypeOK /\ BootstrapInv /\ [Next]_vars => [Kept]_vars
  BY <1>1
<1>3. QED BY <1>2, BootstrapAlways, PTL DEF Spec, PasswordKept
-------------------------------------------------------------------------------
(***************************************************************************)
(* The bootstrap implements RedisInstallation.  What its users see changes *)
(* when a password is generated, when Redis starts or stops, when a        *)
(* package is installed and with the marker.                               *)
(***************************************************************************)
LEMMA InstallationInit == Init => Installation!Init
<1>1. Missing \notin Passwords
  BY BootstrapAssumption
<1> QED
  BY <1>1 DEF Init, Installation!Init

LEMMA UnseenByUsers ==
  ASSUME UNCHANGED <<daemon, installed, marker>>,
         secret' = secret \/ {secret, secret'} \cap Passwords = {}
  PROVE  UNCHANGED Installation!vars
BY DEF Installation!vars

\* Redis starts, stops or stays.
LEMMA UsersServed ==
  ASSUME BootstrapInv, UNCHANGED <<installed, secret, marker>>,
         daemon' \in {daemon, Started, Down}
  PROVE  [Installation!Next]_(Installation!vars)
<1>1. CASE daemon' = daemon
  BY <1>1, UnseenByUsers DEF Installation!vars
<1>2. CASE daemon' \in {Started, Down} /\ daemon' # daemon
  <2>1. daemon' # Down /\ daemon'.public => daemon'.requirepass = secret /\ secret \in Passwords
    BY <1>2, StartedIsSafe
  <2>2. Installation!Serve
    BY <2>1 DEF Installation!Serve
  <2> QED
    BY <2>2 DEF Installation!Next
<1> QED
  BY <1>1, <1>2

LEMMA InstallSeen ==
  ASSUME TypeOK, BootstrapInv, NEW r \in Runs, Install(r)
  PROVE  Installation!Next
<1>1. ~marker /\ installed' \in Nat \ {0}
  BY BootstrapAssumption DEF Install, Goes, BootstrapInv, ProgressInv, TypeOK
<1>2. UNCHANGED <<secret, marker>> /\ daemon' \in {daemon, Started}
  BY DEF Install
<1>3. CASE daemon' = daemon
  BY <1>1, <1>2, <1>3 DEF Installation!Install, Installation!Next
<1>4. CASE daemon' = Started
  <2>1. daemon' # Down /\ daemon'.public => daemon'.requirepass = secret /\ secret \in Passwords
    BY <1>4, StartedIsSafe
  <2>2. Installation!Install
    BY <1>1, <1>2, <2>1 DEF Installation!Install
  <2> QED
    BY <2>2 DEF Installation!Next
<1> QED
  BY <1>2, <1>3, <1>4

LEMMA GenerateSeen ==
  ASSUME TypeOK, BootstrapInv, NEW r \in Runs, Generate(r)
  PROVE  Installation!Next
<1>1. secret \notin Passwords /\ secret' \in Passwords
  BY DEF Generate, Goes, BootstrapInv, ProgressInv
<1>2. Installation!Choose
  BY <1>1 DEF Generate, Installation!Choose
<1> QED
  BY <1>2 DEF Installation!Next

LEMMA MarkSeen ==
  ASSUME TypeOK, BootstrapInv, NEW r \in Runs, Mark(r)
  PROVE  Installation!Next
<1>1. secret \in Passwords /\ installed > 0
  BY DEF Mark, Goes, BootstrapInv, ProgressInv
<1>2. Missing \notin Passwords
  BY BootstrapAssumption
<1>3. Installation!Complete
  BY <1>1, <1>2 DEF Mark, Installation!Complete
<1> QED
  BY <1>3 DEF Installation!Next

LEMMA InstallationStep ==
  TypeOK /\ BootstrapInv /\ [Next]_vars => [Installation!Next]_(Installation!vars)
<1> SUFFICES ASSUME TypeOK, BootstrapInv, [Next]_vars
             PROVE  [Installation!Next]_(Installation!vars)
  OBVIOUS
<1>1. ASSUME NEW r \in Runs, \/ Start(r) \/ Lock(r) \/ CheckMarker(r) \/ OpenConf(r) \/ WriteConf(r)
                            \/ Unlink(r) \/ Include(r) \/ Enable(r) \/ Record(r)
      PROVE  UNCHANGED Installation!vars
  <2>1. UNCHANGED <<daemon, installed, marker, secret>>
    BY <1>1 DEF Start, Lock, CheckMarker, OpenConf, WriteConf, Unlink, Include, Enable, Record
  <2> QED
    BY <2>1, UnseenByUsers DEF Installation!vars
<1>2. ASSUME NEW r \in Runs, CheckPassword(r)
      PROVE  UNCHANGED Installation!vars
  BY <1>2, BootstrapAssumption, UnseenByUsers DEF CheckPassword, Installation!vars
<1>3. ASSUME NEW r \in Runs,
             Keep(r) \/ Restart(r) \/ Ping(r) \/ Unhealthy(r) \/ Fail(r)
      PROVE  [Installation!Next]_(Installation!vars)
  <2>1. UNCHANGED <<installed, secret, marker>> /\ daemon' \in {daemon, Started, Down}
    BY <1>3 DEF Keep, Restart, Ping, Unhealthy, Fail
  <2> QED
    BY <2>1, UsersServed
<1>4. CASE Die \/ Reboot \/ Release \/ UNCHANGED vars
  <2>1. UNCHANGED <<installed, secret, marker>> /\ daemon' \in {daemon, Started, Down}
    BY <1>4 DEF Die, Reboot, Release
  <2> QED
    BY <2>1, UsersServed
<1>5. CASE Reopen
  BY <1>5 DEF Reopen, Installation!Reopen, Installation!Next
<1> QED
  BY <1>1, <1>2, <1>3, <1>4, <1>5, InstallSeen, GenerateSeen, MarkSeen DEF Next, Step

(***************************************************************************)
(* Whatever runs overlap and wherever they stop: to its users the Redis of *)
(* the VM is an installation with one password.                            *)
(***************************************************************************)
THEOREM ImplementsInstallation == Spec => InstallationSpec
<1>1. Init => Installation!Init
  BY InstallationInit
<1> QED
  BY <1>1, InstallationStep, BootstrapAlways, PTL
     DEF Spec, InstallationSpec, Installation!Spec
===============================================================================
