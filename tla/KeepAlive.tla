------------------------------ MODULE KeepAlive ------------------------------
(***************************************************************************)
(* The Android services that keep the application alive                    *)
(* (android/app/src/main/java/com/liyin/freeman).                          *)
(*                                                                         *)
(* The activity with the Flutter engine, the job service and               *)
(* LocalForegroundService run in the main process,                         *)
(* RemoteForegroundService in a process of its own; KeepAliveService, which *)
(* is only started at boot, in a third.  The activity schedules a job that *)
(* schedules itself again and starts the two services if they are not      *)
(* running.  Each service binds the other when it is told to start.        *)
(*                                                                         *)
(* Android is modelled from what the code uses of it: it kills processes,  *)
(* it restarts a service that was started (START_STICKY) or that a living  *)
(* process binds (BIND_AUTO_CREATE), unless it gives the service up, it    *)
(* calls onServiceDisconnected (or fails to: the binder the services       *)
(* return is no android.os.Binder), and it runs a job that is scheduled    *)
(* while there is a network.                                               *)
(***************************************************************************)
EXTENDS Integers

CONSTANTS MaxKills,  \* bound: processes killed and reboots
          MaxConns   \* bound: connections of a service

ASSUME KeepAliveAssumption == MaxKills \in Nat /\ MaxConns \in Nat \ {0}

Service == {"Local", "Remote"}
Peer(s) == IF s = "Local" THEN "Remote" ELSE "Local"

VARIABLES
  launched,  \* the user has started the application since he last stopped it
  client,    \* the Flutter engine, and with it the DHT client, runs
  network,   \* there is a network
  job,       \* job 10: "none", "pending", "running", "rearmed" (running and pending)
  at,        \* where onStartJob is: "idle", "rearm", "Local", "Remote", "end"
  alive,     \* the services that run
  started,   \* the services that were started and not given up
  command,   \* the services with a start command to be delivered
  conns,     \* per service, its connections to the other
  gone,      \* per service, its connections that may be told of the other's death
  daemon,    \* KeepAliveService: "none", "started" or "up"
  booted,    \* the device has started and has not yet said so
  kills      \* processes killed and reboots

jobVars == <<job, at>>
svcVars == <<alive, started, command, conns, gone>>
vars == <<launched, client, network, jobVars, svcVars, daemon, booted, kills>>
-----------------------------------------------------------------------------
\* Mutant: the job takes every service for dead.
isServiceRunning_Never(s) == FALSE

\* Mutant: the job takes every service for alive.
isServiceRunning_Always(s) == TRUE

\* A service is in the list of getRunningServices as long as the system has a
\* record of it, which includes one that waits for its restart.
isServiceRunning(s) == alive[s] \/ started[s] \/ conns[Peer(s)] > 0

\* What keeps the application from counting as a background one.
InForeground == client \/ \E s \in Service : alive[s]

Init ==
  /\ launched = FALSE
  /\ client = FALSE
  /\ network \in BOOLEAN
  /\ job = "none"
  /\ at = "idle"
  /\ alive = [s \in Service |-> FALSE]
  /\ started = [s \in Service |-> FALSE]
  /\ command = [s \in Service |-> FALSE]
  /\ conns = [s \in Service |-> 0]
  /\ gone = [s \in Service |-> 0]
  /\ daemon = "none"
  /\ booted = FALSE
  /\ kills = 0

\* MainActivity.onCreate schedules the job, in place of one that is pending.
onCreateActivity ==
  /\ at = "idle"
  /\ ~client
  /\ launched' = TRUE
  /\ client' = TRUE
  /\ job' = "pending"
  /\ UNCHANGED <<network, at, svcVars, daemon, booted, kills>>

NetworkChanges ==
  /\ network' = ~network
  /\ UNCHANGED <<launched, client, jobVars, svcVars, daemon, booted, kills>>

\* JobScheduler runs the job: onStartJob begins ...
JobRuns ==
  /\ job = "pending"
  /\ at = "idle"
  /\ network
  /\ job' = "running"
  /\ at' = "rearm"
  /\ UNCHANGED <<launched, client, network, svcVars, daemon, booted, kills>>

\* Mutant: the job is not scheduled again.
startJob_Once ==
  /\ at = "rearm"
  /\ at' = "Local"
  /\ UNCHANGED <<launched, client, network, job, svcVars, daemon, booted, kills>>

\* ... schedules itself again ...
startJob ==
  /\ at = "rearm"
  /\ job' = "rearmed"
  /\ at' = "Local"
  /\ UNCHANGED <<launched, client, network, svcVars, daemon, booted, kills>>

\* ... starts the local service, then the remote one, if they do not run ...
startServiceIfDead(s) ==
  /\ at = s
  /\ at' = IF s = "Local" THEN "Remote" ELSE "end"
  /\ IF isServiceRunning(s)
       THEN UNCHANGED <<started, command>>
       ELSE /\ started' = [started EXCEPT ![s] = TRUE]
            /\ command' = [command EXCEPT ![s] = TRUE]
  /\ UNCHANGED <<launched, client, network, job, alive, conns, gone, daemon, booted, kills>>

\* ... or is refused: an application in the background, with no activity and no
\* foreground service, may not start one.  The exception is not caught and ends
\* the process; the job was already scheduled again.
startServiceRefused(s) ==
  /\ at = s
  /\ ~isServiceRunning(s)
  /\ ~InForeground
  /\ at' = "idle"
  /\ job' = "pending"
  /\ UNCHANGED <<launched, client, network, svcVars, daemon, booted, kills>>

\* ... and returns false: the job is done.
JobEnds ==
  /\ at = "end"
  /\ at' = "idle"
  /\ job' = IF job = "rearmed" THEN "pending" ELSE "none"
  /\ UNCHANGED <<launched, client, network, svcVars, daemon, booted, kills>>

\* The main thread is free for the callbacks of the local service.
Free(s) == s = "Local" => at = "idle"

\* The system creates a service that was started or is bound, for the first
\* time or again; what was started gets a start command once more.  onCreate
\* makes it a foreground service with its notification.
onCreate(s) ==
  /\ Free(s)
  /\ ~alive[s]
  /\ started[s] \/ conns[Peer(s)] > 0
  /\ alive' = [alive EXCEPT ![s] = TRUE]
  /\ command' = [command EXCEPT ![s] = started[s]]
  /\ UNCHANGED <<launched, client, network, jobVars, started, conns, gone, daemon, booted, kills>>

\* A new Connection binds the other service; the earlier ones stay bound.
bindService(s) ==
  /\ conns[s] < MaxConns
  /\ conns' = [conns EXCEPT ![s] = @ + 1]

onStartCommand(s) ==
  /\ Free(s)
  /\ alive[s]
  /\ command[s]
  /\ command' = [command EXCEPT ![s] = FALSE]
  /\ bindService(s)
  /\ UNCHANGED <<launched, client, network, jobVars, alive, started, gone, daemon, booted, kills>>

\* Mutant: the callback is also run for a service that was never bound.
onServiceDisconnected_Any(s) ==
  /\ Free(s)
  /\ alive[s]
  /\ gone' = [gone EXCEPT ![s] = @ - 1]
  /\ bindService(s)
  /\ UNCHANGED <<launched, client, network, jobVars, alive, started, command, daemon, booted, kills>>

\* Every connection that is told of the death binds once more.
onServiceDisconnected(s) ==
  /\ Free(s)
  /\ alive[s]
  /\ gone[s] > 0
  /\ gone' = [gone EXCEPT ![s] = @ - 1]
  /\ bindService(s)
  /\ UNCHANGED <<launched, client, network, jobVars, alive, started, command, daemon, booted, kills>>

\* The services in the set "dead" end with their processes; those in "kept" will
\* be started again.  A service that only they bound ends with them.
Die(dead, kept) ==
  LET bound(s) == Peer(s) \notin dead /\ conns[Peer(s)] > 0
      ends(s)  == s \in dead \/ ~(started[s] \/ bound(s))
  IN /\ alive'   = [s \in Service |-> alive[s] /\ ~ends(s)]
     /\ started' = [s \in Service |-> started[s] /\ (s \notin dead \/ s \in kept)]
     /\ command' = [s \in Service |-> command[s] /\ started'[s]]
     /\ conns'   = [s \in Service |-> IF ends(s) THEN 0 ELSE conns[s]]
     /\ gone'    = [s \in Service |-> IF ends(s) THEN 0
                                      ELSE IF alive[Peer(s)] THEN conns[s] ELSE gone[s]]

Killed == kills < MaxKills /\ kills' = kills + 1

\* A job that is cut short will be run again.
KillMain ==
  /\ client \/ alive["Local"] \/ at # "idle"
  /\ Killed
  /\ \E kept \in SUBSET {"Local"} : Die({"Local"}, kept)
  /\ client' = FALSE
  /\ at' = "idle"
  /\ job' = IF at = "idle" THEN job ELSE "pending"
  /\ UNCHANGED <<launched, network, daemon, booted>>

KillRemote ==
  /\ alive["Remote"]
  /\ Killed
  /\ \E kept \in SUBSET {"Remote"} : Die({"Remote"}, kept)
  /\ UNCHANGED <<launched, client, network, jobVars, daemon, booted>>

\* KeepAliveService is START_STICKY.
KillDaemon ==
  /\ daemon = "up"
  /\ Killed
  /\ daemon' \in {"none", "started"}
  /\ UNCHANGED <<launched, client, network, jobVars, svcVars, booted>>

\* The device restarts.  The job is persisted.
Reboot ==
  /\ Killed
  /\ Die(Service, {})
  /\ client' = FALSE
  /\ at' = "idle"
  /\ job' = IF job = "none" THEN "none" ELSE "pending"
  /\ daemon' = "none"
  /\ booted' = TRUE
  /\ UNCHANGED <<launched, network>>

\* KeepAliveReceiver.onReceive for BOOT_COMPLETED, which an application that was
\* stopped does not get: it starts KeepAliveService (or is refused) and nothing
\* else.
onReceive ==
  /\ booted
  /\ at = "idle"
  /\ booted' = FALSE
  /\ daemon' \in IF launched THEN {daemon, "started"} ELSE {daemon}
  /\ UNCHANGED <<launched, client, network, jobVars, svcVars, kills>>

onCreateDaemon ==
  /\ daemon = "started"
  /\ daemon' = "up"
  /\ UNCHANGED <<launched, client, network, jobVars, svcVars, booted, kills>>

\* The user stops the application: jobs and services are gone until he starts
\* it again.
ForceStop ==
  /\ launched
  /\ Killed
  /\ launched' = FALSE
  /\ client' = FALSE
  /\ job' = "none"
  /\ at' = "idle"
  /\ Die(Service, {})
  /\ daemon' = "none"
  /\ UNCHANGED <<network, booted>>

Next ==
  \/ onCreateActivity
  \/ NetworkChanges
  \/ JobRuns
  \/ startJob
  \/ \E s \in Service : startServiceIfDead(s)
  \/ \E s \in Service : startServiceRefused(s)
  \/ JobEnds
  \/ \E s \in Service : onCreate(s)
  \/ \E s \in Service : onStartCommand(s)
  \/ \E s \in Service : onServiceDisconnected(s)
  \/ KillMain
  \/ KillRemote
  \/ KillDaemon
  \/ Reboot
  \/ onReceive
  \/ onCreateDaemon
  \/ ForceStop

Spec == Init /\ [][Next]_vars

\* Android runs a job whose network comes and goes for ever, creates what it
\* has to create, and the main thread goes on.  No fairness for the callback
\* onServiceDisconnected, for the user or for the network.
Fairness ==
  /\ SF_vars(JobRuns)
  /\ WF_vars(startJob \/ JobEnds)
  /\ \A s \in Service : WF_vars(startServiceIfDead(s) \/ startServiceRefused(s))
  /\ \A s \in Service : SF_vars(onCreate(s))

FairSpec == Spec /\ Fairness
-----------------------------------------------------------------------------
TypeOK ==
  /\ {launched, client, network, booted} \subseteq BOOLEAN
  /\ job \in {"none", "pending", "running", "rearmed"}
  /\ at \in {"idle", "rearm", "Local", "Remote", "end"}
  /\ alive \in [Service -> BOOLEAN]
  /\ started \in [Service -> BOOLEAN]
  /\ command \in [Service -> BOOLEAN]
  /\ conns \in [Service -> 0..MaxConns]
  /\ gone \in [Service -> 0..MaxConns]
  /\ daemon \in {"none", "started", "up"}
  /\ kills \in 0..MaxKills

\* The chain of jobs does not break: wherever processes are killed inside
\* onStartJob, and over reboots, a job is pending or running from the first
\* launch on (KeepAliveJobService.java, onStartJob lines 22 to 25).
JobChain == launched => job # "none"

\* The job, which runs every five seconds, adds no connection to a service that
\* runs.  Connections grow only through deaths of the other service, each of
\* which doubles them: all earlier ones are told, and all bind again
\* (LocalForegroundService.java, onServiceDisconnected).
DeathsDoubleConnections == \A s \in Service : conns[s] <= 2^kills

\* If the user does not stop the application, there is a network time and again
\* and Android lets the job start services time and again, because an activity
\* or one of the two is up, then both run in the end, whatever was killed.
BothRunAgain ==
  (<>[]launched /\ []<>network /\ []<>InForeground)
    => <>[](\A s \in Service : alive[s])
=============================================================================
