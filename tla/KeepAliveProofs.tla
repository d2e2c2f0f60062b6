--------------------------- MODULE KeepAliveProofs ---------------------------
(***************************************************************************)
(* The job and the connections of KeepAlive, for any number of kills, and  *)
(* what is left of an application that the user has stopped.               *)
(***************************************************************************)
EXTENDS KeepAlive, FiniteSets, FiniteSetTheorems, FunctionTheorems, TLAPS

\* Past its first step onStartJob has scheduled the job again.
JobRearmed ==
  /\ at \in {"idle", "rearm", "Local", "Remote", "end"}
  /\ at = "rearm" => job = "running"
  /\ at \in {"Local", "Remote", "end"} => job = "rearmed"

\* The job is pending or running after a launch, wherever onStartJob is cut short.
THEOREM JobChainHolds == Spec => []JobChain
<1> DEFINE Inv == JobChain /\ JobRearmed
<1>1. Init => Inv
  BY DEF Init, JobChain, JobRearmed
<1>2. Inv /\ [Next]_vars => Inv'
  <2> SUFFICES ASSUME Inv, [Next]_vars
               PROVE  Inv'
    OBVIOUS
  <2> USE DEF JobChain, JobRearmed
  <2>1. CASE onCreateActivity
    BY <2>1 DEF onCreateActivity
  <2>2. CASE JobRuns
    BY <2>2 DEF JobRuns
  <2>3. CASE startJob
    BY <2>3 DEF startJob
  <2>4. ASSUME NEW s \in Service, startServiceIfDead(s)
        PROVE  Inv'
    BY <2>4 DEF startServiceIfDead, Service
  <2>5. ASSUME NEW s \in Service, startServiceRefused(s)
         PROVE  Inv'
    BY <2>5 DEF startServiceRefused
  <2>6. CASE JobEnds
    BY <2>6 DEF JobEnds
  <2>7. CASE KillMain
    BY <2>7 DEF KillMain
  <2>8. CASE Reboot
    BY <2>8 DEF Reboot
  <2>9. CASE ForceStop
    BY <2>9 DEF ForceStop
  <2>10. CASE UNCHANGED <<launched, job, at>>
    BY <2>10
  <2>11. CASE \/ NetworkChanges \/ KillRemote \/ KillDaemon \/ onReceive \/ onCreateDaemon
              \/ \E s \in Service : onCreate(s) \/ onStartCommand(s) \/ onServiceDisconnected(s)
    BY <2>10, <2>11 DEF NetworkChanges, KillRemote, KillDaemon, onReceive, onCreateDaemon,
         onCreate, onStartCommand, onServiceDisconnected, jobVars
  <2>12. CASE UNCHANGED vars
    BY <2>10, <2>12 DEF vars, jobVars
  <2> QED
    BY <2>1, <2>2, <2>3, <2>4, <2>5, <2>6, <2>7, <2>8, <2>9, <2>11, <2>12 DEF Next
<1>3. Inv => JobChain
  OBVIOUS
<1> QED
  BY <1>1, <1>2, <1>3, PTL DEF Spec
-----------------------------------------------------------------------------
\* One more element doubles the subsets of a finite set: those without it and
\* those with it.
LEMMA DoubleSubsets ==
  ASSUME NEW A, NEW x, IsFiniteSet(A), x \notin A
  PROVE  Cardinality(SUBSET (A \cup {x})) = 2 * Cardinality(SUBSET A)
<1> DEFINE with == {B \cup {x} : B \in SUBSET A}
           add  == [B \in SUBSET A |-> B \cup {x}]
<1>1. IsFiniteSet(SUBSET A) /\ Cardinality(SUBSET A) \in Nat
  BY FS_SUBSET, FS_CardinalityType
<1>2. add \in Bijection(SUBSET A, with)
  <2>1. add \in [SUBSET A -> with]
    BY Zenon
  <2>2. \A B, C \in SUBSET A : add[B] = add[C] => B = C
    BY Zenon
  <2>3. \A t \in with : \E B \in SUBSET A : add[B] = t
    BY Zenon
  <2> HIDE DEF add, with
  <2> QED
    BY <2>1, <2>2, <2>3, Fun_IsBij, Zenon
<1>3. IsFiniteSet(with) /\ Cardinality(with) = Cardinality(SUBSET A)
  <2> HIDE DEF add, with
  <2> QED
    BY <1>1, <1>2, FS_Bijection, Zenon DEF ExistsBijection
<1>4. SUBSET (A \cup {x}) = (SUBSET A) \cup with
  <2>1. ASSUME NEW S \in SUBSET (A \cup {x})
        PROVE  S \in (SUBSET A) \cup with
    <3>1. CASE x \in S
      <4>1. S \ {x} \in SUBSET A /\ S = (S \ {x}) \cup {x}
        BY <3>1, Zenon
      <4> QED
        BY <4>1, Zenon
    <3>2. CASE x \notin S
      BY <3>2
    <3> QED
      BY <3>1, <3>2
  <2>2. with \subseteq SUBSET (A \cup {x}) 
    BY Zenon
  <2> QED
    BY <2>1, <2>2, Zenon
<1>5. (SUBSET A) \cap with = {}
  BY Zenon
<1>6. Cardinality((SUBSET A) \cap with) = 0
  BY <1>5, FS_EmptySet
<1> HIDE DEF with
<1>7. Cardinality((SUBSET A) \cup with)
        = Cardinality(SUBSET A) + Cardinality(with) - Cardinality((SUBSET A) \cap with)
  BY <1>1, <1>3, FS_Union, Zenon
<1>8. \A c \in Nat : c + c - 0 = 2 * c
  OBVIOUS
<1> QED
  BY <1>1, <1>3, <1>4, <1>6, <1>7, <1>8, Zenon

\* The provers know no law of powers; this one follows from counting subsets.
LEMMA Doubling ==
  ASSUME NEW n \in Nat
  PROVE  2^(n + 1) = 2 * 2^n
<1>1. IsFiniteSet(1..n) /\ Cardinality(1..n) = n
  BY FS_Interval
<1>2. IsFiniteSet(1..(n + 1)) /\ Cardinality(1..(n + 1)) = n + 1
  BY FS_Interval
<1>3. 1..(n + 1) = 1..n \cup {n + 1} /\ n + 1 \notin 1..n
  OBVIOUS
<1>4. Cardinality(SUBSET (1..n)) = 2^n
  BY <1>1, FS_SUBSET, Zenon
<1>5. Cardinality(SUBSET (1..(n + 1))) = 2^(n + 1)
  BY <1>2, FS_SUBSET, Zenon
<1>6. Cardinality(SUBSET (1..(n + 1))) = 2 * Cardinality(SUBSET (1..n))
  BY <1>1, <1>3, DoubleSubsets, Zenon
<1> QED
  BY <1>4, <1>5, <1>6

\* A power of two is the number of subsets of some set, and not 0.
LEMMA PowerPositive ==
  ASSUME NEW n \in Nat
  PROVE  2^n \in Int /\ 2^n >= 1
<1>1. IsFiniteSet(1..n) /\ Cardinality(1..n) = n
  BY FS_Interval
<1>2. IsFiniteSet(SUBSET (1..n)) /\ Cardinality(SUBSET (1..n)) = 2^n
  BY <1>1, FS_SUBSET, Zenon
<1>3. Cardinality(SUBSET (1..n)) \in Nat /\ Cardinality(SUBSET (1..n)) # 0
  BY <1>2, FS_CardinalityType, FS_EmptySet, Zenon
<1>4. \A c \in Nat : c # 0 => c \in Int /\ c >= 1
  OBVIOUS
<1> QED
  BY <1>2, <1>3, <1>4, Zenon
-----------------------------------------------------------------------------
\* What is connected runs and has had its start command: a service binds when the
\* command is delivered, and is told only of the connections it has.  The bound
\* counts those that may bind once more as well.
Connected ==
  \A s \in Service :
    /\ ~alive[s] \/ command[s] => conns[s] = 0 /\ gone[s] = 0
    /\ gone[s] <= conns[s]
    /\ conns[s] + gone[s] <= 2^kills

ConnInv == TypeOK /\ Connected

LEMMA InitConnected == Init => ConnInv
<1> SUFFICES ASSUME Init
             PROVE  ConnInv
  OBVIOUS
<1>1. 2^0 = 1
  OBVIOUS
<1>2. TypeOK
  <2>1. {launched, client, network, booted} \subseteq BOOLEAN
    BY Zenon DEF Init
  <2>2. /\ alive \in [Service -> BOOLEAN]
        /\ started \in [Service -> BOOLEAN]
        /\ command \in [Service -> BOOLEAN]
    BY Zenon DEF Init
  <2>3. 0 \in 0..MaxConns /\ 0 \in 0..MaxKills
    BY KeepAliveAssumption
  <2>4. conns \in [Service -> 0..MaxConns] /\ gone \in [Service -> 0..MaxConns]
    BY <2>3, Zenon DEF Init
  <2> QED
    BY <2>1, <2>2, <2>3, <2>4 DEF Init, TypeOK
<1>3. kills = 0 /\ \A s \in Service : conns[s] = 0 /\ gone[s] = 0
  BY DEF Init
<1> QED
  BY <1>1, <1>2, <1>3 DEF ConnInv, Connected

\* A death doubles what is connected, at most.
LEMMA DieConnects ==
  ASSUME ConnInv, Killed, NEW dead, NEW kept, Die(dead, kept)
  PROVE  /\ {alive', started', command'} \subseteq [Service -> BOOLEAN]
         /\ {conns', gone'} \subseteq [Service -> 0..MaxConns]
         /\ kills' \in 0..MaxKills
         /\ Connected'
<1> DEFINE ends(s) == s \in dead \/ ~(started[s] \/ (Peer(s) \notin dead /\ conns[Peer(s)] > 0))
<1>1. /\ kills \in Nat /\ kills' = kills + 1 /\ kills' \in 0..MaxKills
      /\ 2^kills' = 2 * 2^kills /\ 2^kills \in Int
  BY Doubling, KeepAliveAssumption DEF Killed, ConnInv, TypeOK
<1>2. ASSUME NEW s \in Service
      PROVE  /\ alive'[s] = (alive[s] /\ ~ends(s))
             /\ command'[s] => command[s]
             /\ conns'[s] = IF ends(s) THEN 0 ELSE conns[s]
             /\ gone'[s] = IF ends(s) THEN 0 ELSE IF alive[Peer(s)] THEN conns[s] ELSE gone[s]
  BY DEF Die
<1>3. /\ {alive', started', command'} \subseteq [Service -> BOOLEAN]
      /\ {conns', gone'} \subseteq [Service -> 0..MaxConns]
  BY KeepAliveAssumption DEF Die, ConnInv, TypeOK
<1> HIDE DEF ends
<1>4. ASSUME NEW s \in Service
      PROVE  /\ ~alive'[s] \/ command'[s] => conns'[s] = 0 /\ gone'[s] = 0
             /\ gone'[s] <= conns'[s]
             /\ conns'[s] + gone'[s] <= 2^kills'
  <2>1. /\ conns[s] \in Nat /\ gone[s] \in Nat
        /\ ~alive[s] \/ command[s] => conns[s] = 0 /\ gone[s] = 0
        /\ gone[s] <= conns[s]
        /\ conns[s] + gone[s] <= 2^kills
    BY KeepAliveAssumption DEF ConnInv, TypeOK, Connected
  <2>2. ASSUME NEW p \in Int, NEW c \in Nat, NEW g \in Nat, g <= c, c + g <= p
        PROVE  0 + 0 <= 2 * p /\ c + c <= 2 * p /\ c + g <= 2 * p
    BY <2>2
  <2>3. conns'[s] + gone'[s] <= 2 * 2^kills
    BY <1>1, <1>2, <2>1, <2>2
  <2>4. ~alive'[s] \/ command'[s] => conns'[s] = 0 /\ gone'[s] = 0
    BY <1>2, <2>1
  <2>5. gone'[s] <= conns'[s]
    BY <1>2, <2>1
  <2> QED
    BY <1>1, <2>3, <2>4, <2>5
<1> QED
  BY <1>1, <1>3, <1>4 DEF Connected

LEMMA ConnectedStep == ConnInv /\ [Next]_vars => ConnInv'
<1> SUFFICES ASSUME ConnInv, [Next]_vars
             PROVE  ConnInv'
  OBVIOUS
<1> USE KeepAliveAssumption
<1>1. CASE onCreateActivity
  BY <1>1 DEF onCreateActivity, ConnInv, TypeOK, Connected, svcVars
<1>2. CASE NetworkChanges
  BY <1>2 DEF NetworkChanges, ConnInv, TypeOK, Connected, svcVars, jobVars
<1>3. CASE JobRuns
  BY <1>3 DEF JobRuns, ConnInv, TypeOK, Connected, svcVars
<1>4. CASE startJob
  BY <1>4 DEF startJob, ConnInv, TypeOK, Connected, svcVars
<1>5. ASSUME NEW s \in Service, startServiceIfDead(s)
      PROVE  ConnInv'
  <2>1. TypeOK'
    BY <1>5 DEF startServiceIfDead, ConnInv, TypeOK
  <2>2. ASSUME NEW t \in Service, command'[t]
        PROVE  command[t] \/ ~alive[t]
    BY <1>5, <2>2 DEF startServiceIfDead, isServiceRunning, ConnInv, TypeOK
  <2> QED
    BY <1>5, <2>1, <2>2 DEF startServiceIfDead, ConnInv, Connected
<1>6. ASSUME NEW s \in Service, startServiceRefused(s)
      PROVE  ConnInv'
  BY <1>6 DEF startServiceRefused, ConnInv, TypeOK, Connected, svcVars
<1>7. CASE JobEnds
  BY <1>7 DEF JobEnds, ConnInv, TypeOK, Connected, svcVars
<1>8. ASSUME NEW s \in Service, onCreate(s)
      PROVE  ConnInv'
  <2>1. TypeOK'
    BY <1>8 DEF onCreate, ConnInv, TypeOK, jobVars
  <2>2. ASSUME NEW t \in Service, ~alive'[t] \/ command'[t]
        PROVE  command[t] \/ ~alive[t]
    BY <1>8, <2>2 DEF onCreate, ConnInv, TypeOK
  <2> QED
    BY <1>8, <2>1, <2>2 DEF onCreate, ConnInv, Connected
<1>9. ASSUME NEW s \in Service, onStartCommand(s)
      PROVE  ConnInv'
  <2>1. kills \in Nat /\ 2^kills >= 1
    BY PowerPositive DEF ConnInv, TypeOK
  <2>2. TypeOK'
    BY <1>9 DEF onStartCommand, bindService, ConnInv, TypeOK, jobVars
  <2> QED
    BY <1>9, <2>1, <2>2 DEF onStartCommand, bindService, ConnInv, TypeOK, Connected
<1>10. ASSUME NEW s \in Service, onServiceDisconnected(s)
       PROVE  ConnInv'
  <2>1. kills \in Nat /\ 2^kills \in Int
    BY DEF ConnInv, TypeOK
  <2>2. TypeOK'
    BY <1>10 DEF onServiceDisconnected, bindService, ConnInv, TypeOK, jobVars
  <2> QED
    BY <1>10, <2>1, <2>2 DEF onServiceDisconnected, bindService, ConnInv, TypeOK, Connected
<1>11. CASE KillMain
  <2>1. PICK kept \in SUBSET {"Local"} : Die({"Local"}, kept)
    BY <1>11 DEF KillMain
  <2> QED
    BY <1>11, <2>1, DieConnects DEF KillMain, ConnInv, TypeOK
<1>12. CASE KillRemote
  <2>1. PICK kept \in SUBSET {"Remote"} : Die({"Remote"}, kept)
    BY <1>12 DEF KillRemote
  <2> QED
    BY <1>12, <2>1, DieConnects DEF KillRemote, ConnInv, TypeOK, jobVars
<1>13. CASE KillDaemon
  <2>1. kills \in Nat /\ kills' = kills + 1 /\ 2^kills' = 2 * 2^kills /\ 2^kills \in Int /\ 2^kills >= 1
    BY <1>13, Doubling, PowerPositive DEF KillDaemon, Killed, ConnInv, TypeOK
  <2>2. TypeOK'
    BY <1>13 DEF KillDaemon, Killed, ConnInv, TypeOK, svcVars, jobVars
  <2> QED
    BY <1>13, <2>1, <2>2 DEF KillDaemon, ConnInv, TypeOK, Connected, svcVars
<1>14. CASE Reboot
  BY <1>14, DieConnects DEF Reboot, ConnInv, TypeOK
<1>15. CASE onReceive
  BY <1>15 DEF onReceive, ConnInv, TypeOK, Connected, svcVars, jobVars
<1>16. CASE onCreateDaemon
  BY <1>16 DEF onCreateDaemon, ConnInv, TypeOK, Connected, svcVars, jobVars
<1>17. CASE ForceStop
  BY <1>17, DieConnects DEF ForceStop, ConnInv, TypeOK
<1>18. CASE UNCHANGED vars
  BY <1>18 DEF vars, ConnInv, TypeOK, Connected, svcVars, jobVars
<1> QED
  BY <1>1, <1>2, <1>3, <1>4, <1>5, <1>6, <1>7, <1>8, <1>9, <1>10, <1>11, <1>12, <1>13, <1>14,
     <1>15, <1>16, <1>17, <1>18 DEF Next

\* Variables keep to their types.
THEOREM TypeCorrect == Spec => []TypeOK
<1>1. ConnInv => TypeOK
  BY DEF ConnInv
<1> QED
  BY <1>1, InitConnected, ConnectedStep, PTL DEF Spec

\* However processes and connections die, a service has no more connections than
\* the deaths can have doubled from one.
THEOREM ConnectionsAreBounded == Spec => []DeathsDoubleConnections
<1>1. ConnInv => DeathsDoubleConnections
  <2> SUFFICES ASSUME ConnInv, NEW s \in Service
               PROVE  conns[s] <= 2^kills
    BY DEF DeathsDoubleConnections
  <2>1. kills \in Nat /\ 2^kills \in Int /\ conns[s] \in Nat /\ gone[s] \in Nat
    BY KeepAliveAssumption DEF ConnInv, TypeOK
  <2> QED
    BY <2>1 DEF ConnInv, Connected
<1> QED
  BY <1>1, InitConnected, ConnectedStep, PTL DEF Spec
-----------------------------------------------------------------------------
\* An application that the user has stopped, or never started, stays so: no job
\* that was running, no restart of a service, no binding between the two and no
\* start of the device brings a part of it back (KeepAliveReceiver.java, onReceive;
\* KeepAliveJobService.java, onStartJob).
StoppedStaysStopped ==
  ~launched =>
    /\ job = "none" /\ at = "idle"
    /\ ~client /\ daemon = "none"
    /\ \A s \in Service : ~alive[s] /\ ~started[s] /\ conns[s] = 0 /\ gone[s] = 0

\* Every way back into the application is an action that needs what a stopped one
\* has not: a job, a service that was started or bound, or its boot service.
THEOREM StoppedStaysStoppedTheorem == Spec => []StoppedStaysStopped
<1>1. Init => StoppedStaysStopped
  BY DEF Init, StoppedStaysStopped
<1>2. TypeOK /\ StoppedStaysStopped /\ [Next]_vars => StoppedStaysStopped'
  <2> SUFFICES ASSUME TypeOK, StoppedStaysStopped, [Next]_vars, ~launched'
               PROVE  StoppedStaysStopped'
    BY DEF StoppedStaysStopped
  <2>0. /\ "Local" \in Service /\ "Remote" \in Service /\ \A s \in Service : Peer(s) \in Service
        /\ alive \in [Service -> BOOLEAN] /\ started \in [Service -> BOOLEAN]
        /\ conns \in [Service -> 0..MaxConns] /\ gone \in [Service -> 0..MaxConns]
    BY DEF Service, Peer, TypeOK
  <2>1. CASE launched
    <3>1. ForceStop
      BY <2>1 DEF Next, vars, onCreateActivity, NetworkChanges, JobRuns, startJob, startServiceIfDead,
           startServiceRefused, JobEnds, onCreate, onStartCommand, onServiceDisconnected, KillMain,
           KillRemote, KillDaemon, Reboot, onReceive, onCreateDaemon, ForceStop
    <3>2. /\ job' = "none" /\ at' = "idle" /\ ~client' /\ daemon' = "none" /\ Die(Service, {})
      BY <3>1 DEF ForceStop
    <3>3. \A s \in Service : ~alive'[s] /\ ~started'[s] /\ conns'[s] = 0 /\ gone'[s] = 0
      BY <3>2 DEF Die
    <3> QED
      BY <3>2, <3>3 DEF StoppedStaysStopped
  <2>2. CASE ~launched
    <3>1. /\ job = "none" /\ at = "idle" /\ ~client /\ daemon = "none"
          /\ \A s \in Service : ~alive[s] /\ ~started[s] /\ conns[s] = 0 /\ gone[s] = 0
      BY <2>2 DEF StoppedStaysStopped
    <3>2. CASE Reboot
      <4>1. /\ job' = "none" /\ at' = "idle" /\ ~client' /\ daemon' = "none" /\ Die(Service, {})
        BY <3>1, <3>2 DEF Reboot
      <4>2. \A s \in Service : ~alive'[s] /\ ~started'[s] /\ conns'[s] = 0 /\ gone'[s] = 0
        BY <4>1 DEF Die
      <4> QED
        BY <4>1, <4>2 DEF StoppedStaysStopped
    <3>3. CASE NetworkChanges \/ onReceive \/ UNCHANGED vars
      BY <2>2, <3>1, <3>3 DEF NetworkChanges, onReceive, vars, jobVars, svcVars, StoppedStaysStopped
    <3>4. ASSUME NEW s \in Service
          PROVE  /\ ~onCreate(s) /\ ~onStartCommand(s) /\ ~onServiceDisconnected(s)
                 /\ ~startServiceIfDead(s) /\ ~startServiceRefused(s)
      <4>1. conns[Peer(s)] = 0 /\ gone[s] = 0 /\ ~alive[s] /\ ~started[s] /\ s # "idle"
        BY <2>0, <3>1 DEF Service
      <4> QED
        BY <3>1, <4>1 DEF onCreate, onStartCommand, onServiceDisconnected, startServiceIfDead,
             startServiceRefused
    <3>5. /\ ~KillMain /\ ~KillRemote /\ ~KillDaemon /\ ~onCreateDaemon /\ ~ForceStop
          /\ ~JobRuns /\ ~startJob /\ ~JobEnds
      BY <2>0, <2>2, <3>1 DEF KillMain, KillRemote, KillDaemon, onCreateDaemon, ForceStop, JobRuns,
           startJob, JobEnds
    <3>6. ~onCreateActivity
      BY DEF onCreateActivity
    <3> QED
      BY <3>2, <3>3, <3>4, <3>5, <3>6 DEF Next
  <2>3. launched \in BOOLEAN
    BY DEF TypeOK
  <2> QED
    BY <2>1, <2>2, <2>3
<1> QED
  BY <1>1, <1>2, TypeCorrect, PTL DEF Spec
=============================================================================
