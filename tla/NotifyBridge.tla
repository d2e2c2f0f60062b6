----------------------------- MODULE NotifyBridge -----------------------------
(***************************************************************************)
(* The bridge between the threads of the native DHT client and the Dart    *)
(* isolate.                                                                *)
(*                                                                         *)
(* For each of eight kinds of events lib/cpp/freemanffi.cpp has a callback *)
(* and a global variable with the send port of a Dart ReceivePort.  A      *)
(* native thread has an event, calls the callback, which reads the         *)
(* variable, and posts the event to the port it has read; the isolate      *)
(* later takes it off its queue and hands it to the stream of its kind.  lib/dhtclient.dart makes the ports: the  *)
(* one for the network status in init and at each login, before the native *)
(* call, the others after a login that succeeds.  A login makes new ports  *)
(* and leaves the earlier ones open.                                       *)
(*                                                                         *)
(* The isolate is a single thread: pc says where it is, and a native       *)
(* thread may run between any two of its steps.  The native client is      *)
(* modelled from its callbacks: it raises events once a login has begun,   *)
(* and each kind has one thread that raises it.                            *)
(***************************************************************************)
EXTENDS Integers, Sequences, FiniteSets

CONSTANTS Raised,     \* kinds of events that occur
          MaxRaise,   \* bound: events of a kind
          MaxLogins,  \* bound: logins in the life of a process
          AutoLogin   \* isAccountExist and loginMode = 0: no password is asked

\* DhtClient.login registers the ports in this order.
LoginOrder == <<"msg_sent", "file_sent", "recv_msg", "find_user", "add_me", "add_reply", "new_post">>

Kind == {"net"} \cup {LoginOrder[k] : k \in 1..Len(LoginOrder)}

\* The native threads, by what they raise.
Thread == {"dht", "send", "recv", "post"}
ThreadOf == [k \in Kind |-> CASE k = "net"                      -> "dht"
                              [] k \in {"msg_sent", "file_sent"} -> "send"
                              [] k = "new_post"                  -> "post"
                              [] OTHER                           -> "recv"]

ASSUME BridgeAssumption ==
  /\ Raised \subseteq Kind
  /\ MaxRaise \in Nat
  /\ MaxLogins \in Nat
  /\ AutoLogin \in BOOLEAN

VARIABLES
  pc,       \* what the isolate does
  step,     \* ports registered by the login that runs
  waiting,  \* calls of _login that wait for the secure storage
  logins,   \* logins of this process
  page,     \* "none", "login" or "home"
  linked,   \* the native client raises events
  dhtUp,    \* the native client is connected to the DHT network
  shown,    \* isDhtConnected, the status the settings keep on disk
  port,     \* the port variables: 0, or the number of a ReceivePort of the kind
  open,     \* the ReceivePorts that listen, as <<kind, number>>
  holding,  \* the callbacks that run, at most one per thread, with their events
  queue,    \* the queue of the isolate
  raised,   \* per kind, the number of events so far
  handled,  \* per kind, the events handed to its stream
  lost      \* the events no port took

isolate == <<pc, step, waiting, logins, page>>
native  == <<linked, dhtUp, holding, raised, lost>>
vars    == <<isolate, native, shown, port, open, queue, handled>>
-----------------------------------------------------------------------------
\* An event, with the number of the port that its callback has found.
NotRead == -1
Event == [kind : Kind, no : 1..MaxRaise, up : BOOLEAN, to : {NotRead} \cup 0..(MaxLogins + 1)]

\* Mutant: the port that is replaced is closed.
Register_CloseOld(k) ==
  /\ port' = [port EXCEPT ![k] = @ + 1]
  /\ open' = (open \ {<<k, port[k]>>}) \cup {<<k, port[k] + 1>>}

\* A ReceivePort of kind k is made and its number stored in the port variable.
Register(k) ==
  /\ port' = [port EXCEPT ![k] = @ + 1]
  /\ open' = open \cup {<<k, port[k] + 1>>}

Init ==
  /\ pc = "dead"
  /\ step = 0
  /\ waiting = 0
  /\ logins = 0
  /\ page = "none"
  /\ linked = FALSE
  /\ dhtUp = FALSE
  /\ shown = FALSE
  /\ port = [k \in Kind |-> 0]
  /\ open = {}
  /\ holding = {}
  /\ queue = <<>>
  /\ raised = [k \in Kind |-> 0]
  /\ handled = [k \in Kind |-> <<>>]
  /\ lost = {}

\* main, Global.init: the native client is created and told its callbacks.
dhtclient_create ==
  /\ pc = "dead"
  /\ pc' = "init"
  /\ UNCHANGED <<step, waiting, logins, page, native, shown, port, open, queue, handled>>

\* The end of DhtClient.init.
initNetStatus ==
  /\ pc = "init"
  /\ pc' = "idle"
  /\ Register("net")
  /\ UNCHANGED <<step, waiting, logins, page, native, shown, queue, handled>>

\* LoginPage appears, and its first frame starts the automatic login.
showLoginPage ==
  /\ page' = "login"
  /\ waiting' = IF AutoLogin THEN waiting + 1 ELSE waiting

runApp ==
  /\ pc = "idle"
  /\ page = "none"
  /\ showLoginPage
  /\ UNCHANGED <<pc, step, logins, native, shown, port, open, queue, handled>>

\* The login button.
formSubmitted ==
  /\ pc = "idle"
  /\ page = "login"
  /\ waiting + logins < MaxLogins
  /\ waiting' = waiting + 1
  /\ UNCHANGED <<pc, step, logins, page, native, shown, port, open, queue, handled>>

\* The storage has answered: DhtClient.login runs, first setNetStatusNotify ...
loginNetStatus ==
  /\ pc = "idle"
  /\ waiting > 0
  /\ logins < MaxLogins
  /\ waiting' = waiting - 1
  /\ logins' = logins + 1
  /\ pc' = "native"
  /\ Register("net")
  /\ UNCHANGED <<step, page, native, shown, queue, handled>>

\* ... then the native login, during which the client starts to work ...
dhtclient_login ==
  /\ pc = "native"
  /\ ~linked
  /\ linked' = TRUE
  /\ UNCHANGED <<isolate, dhtUp, holding, raised, lost, shown, port, open, queue, handled>>

dhtclient_login_fails ==
  /\ pc = "native"
  /\ linked
  /\ pc' = "idle"
  /\ UNCHANGED <<step, waiting, logins, page, native, shown, port, open, queue, handled>>

dhtclient_login_succeeds ==
  /\ pc = "native"
  /\ linked
  /\ pc' = "register"
  /\ step' = 0
  /\ UNCHANGED <<waiting, logins, page, native, shown, port, open, queue, handled>>

\* ... then the other ports, one after the other ...
registerNext ==
  /\ pc = "register"
  /\ step < Len(LoginOrder)
  /\ step' = step + 1
  /\ Register(LoginOrder[step + 1])
  /\ UNCHANGED <<pc, waiting, logins, page, native, shown, queue, handled>>

\* ... and the home page replaces the login page.
loginDone ==
  /\ pc = "register"
  /\ step = Len(LoginOrder)
  /\ pc' = "idle"
  /\ page' = "home"
  /\ UNCHANGED <<step, waiting, logins, native, shown, port, open, queue, handled>>

\* "Exit" in the drawer: the login page replaces the home page.  The native
\* client is not told.
logout ==
  /\ pc = "idle"
  /\ page = "home"
  /\ waiting + logins < MaxLogins
  /\ showLoginPage
  /\ UNCHANGED <<pc, step, logins, native, shown, port, open, queue, handled>>

\* A native thread has an event of kind k, for which it will call the callback.
\* A network status is raised when it changes.
raise(k) ==
  /\ linked
  /\ \A e \in holding : ThreadOf[e.kind] # ThreadOf[k]
  /\ raised[k] < MaxRaise
  /\ raised' = [raised EXCEPT ![k] = @ + 1]
  /\ dhtUp' = IF k = "net" THEN ~dhtUp ELSE dhtUp
  /\ holding' = holding \cup {[kind |-> k, no |-> raised[k] + 1, up |-> dhtUp', to |-> NotRead]}
  /\ UNCHANGED <<isolate, linked, lost, shown, port, open, queue, handled>>

\* The callback reads the port variable.
callback(e) ==
  /\ e.to = NotRead
  /\ holding' = (holding \ {e}) \cup {[e EXCEPT !.to = port[e.kind]]}
  /\ UNCHANGED <<isolate, linked, dhtUp, raised, lost, shown, port, open, queue, handled>>

\* Mutant: a post that succeeded is made once more (a queue of four bounds it).
Dart_PostCObject_DL_Retry(e) ==
  /\ e.to # NotRead
  /\ IF <<e.kind, e.to>> \in open
       THEN Len(queue) < 4 /\ queue' = Append(queue, e) /\ UNCHANGED <<holding, lost>>
       ELSE lost' = lost \cup {e} /\ holding' = holding \ {e} /\ UNCHANGED queue
  /\ UNCHANGED <<isolate, linked, dhtUp, raised, shown, port, open, handled>>

\* Dart_PostCObject_DL: the event enters the queue of the isolate, unless there
\* is no such port; that is only logged.
Dart_PostCObject_DL(e) ==
  /\ e.to # NotRead
  /\ holding' = holding \ {e}
  /\ IF <<e.kind, e.to>> \in open
       THEN queue' = Append(queue, e) /\ UNCHANGED lost
       ELSE lost' = lost \cup {e} /\ UNCHANGED queue
  /\ UNCHANGED <<isolate, linked, dhtUp, raised, shown, port, open, handled>>

\* Mutant: only a connection is written to the settings.
listener_KeepsUp ==
  /\ pc = "idle"
  /\ queue # <<>>
  /\ LET e == Head(queue)
     IN /\ shown' = IF e.kind = "net" THEN shown \/ e.up ELSE shown
        /\ handled' = [handled EXCEPT ![e.kind] = Append(@, e.no)]
  /\ queue' = Tail(queue)
  /\ UNCHANGED <<isolate, native, port, open>>

\* The isolate runs the listener of the port: the event goes to the stream of
\* its kind; the network status goes to the settings first.
listener ==
  /\ pc = "idle"
  /\ queue # <<>>
  /\ LET e == Head(queue)
     IN /\ shown' = IF e.kind = "net" THEN e.up ELSE shown
        /\ handled' = [handled EXCEPT ![e.kind] = Append(@, e.no)]
  /\ queue' = Tail(queue)
  /\ UNCHANGED <<isolate, native, port, open>>

\* Mutant: a new process finds the port variables of the one before.
Kill_KeepsPorts ==
  /\ pc # "dead"
  /\ pc' = "dead"
  /\ step' = 0
  /\ waiting' = 0
  /\ logins' = 0
  /\ page' = "none"
  /\ linked' = FALSE
  /\ dhtUp' = FALSE
  /\ open' = {}
  /\ holding' = {}
  /\ queue' = <<>>
  /\ UNCHANGED <<port, shown, raised, handled, lost>>

\* The system kills the process.  The settings are on disk.
Kill ==
  /\ pc # "dead"
  /\ pc' = "dead"
  /\ step' = 0
  /\ waiting' = 0
  /\ logins' = 0
  /\ page' = "none"
  /\ linked' = FALSE
  /\ dhtUp' = FALSE
  /\ port' = [k \in Kind |-> 0]
  /\ open' = {}
  /\ holding' = {}
  /\ queue' = <<>>
  /\ UNCHANGED <<shown, raised, handled, lost>>

Next ==
  \/ dhtclient_create
  \/ initNetStatus
  \/ runApp
  \/ formSubmitted
  \/ loginNetStatus
  \/ dhtclient_login
  \/ dhtclient_login_fails
  \/ dhtclient_login_succeeds
  \/ registerNext
  \/ loginDone
  \/ logout
  \/ \E k \in Raised : raise(k)
  \/ \E e \in holding : callback(e) \/ Dart_PostCObject_DL(e)
  \/ listener
  \/ Kill

Spec == Init /\ [][Next]_vars

\* The isolate and the threads run on while the process lives, and the native
\* login returns.
Fairness ==
  /\ WF_vars(initNetStatus \/ runApp \/ registerNext \/ loginDone)
  /\ WF_vars(dhtclient_login)
  /\ WF_vars(dhtclient_login_fails \/ dhtclient_login_succeeds)
  /\ \A t \in Thread :
       WF_vars(\E e \in holding : ThreadOf[e.kind] = t /\ (callback(e) \/ Dart_PostCObject_DL(e)))
  /\ WF_vars(listener)

FairSpec == Spec /\ Fairness
-----------------------------------------------------------------------------
TypeOK ==
  /\ pc \in {"dead", "init", "idle", "native", "register"}
  /\ step \in 0..Len(LoginOrder)
  /\ waiting \in 0..(MaxLogins + 1)
  /\ logins \in 0..MaxLogins
  /\ page \in {"none", "login", "home"}
  /\ linked \in BOOLEAN
  /\ dhtUp \in BOOLEAN /\ shown \in BOOLEAN
  /\ port \in [Kind -> 0..(MaxLogins + 1)]
  /\ open \subseteq Kind \X (1..(MaxLogins + 1))
  /\ holding \subseteq Event
  /\ queue \in Seq(Event)
  /\ raised \in [Kind -> 0..MaxRaise]
  /\ handled \in [Kind -> Seq(1..MaxRaise)]
  /\ lost \subseteq Event

\* Every stream gets the events of its kind in the order in which they were
\* raised and none of them twice, also over logins that replace the ports while
\* events are under way (freemanffi.cpp, on_recv_msg and its siblings).
OnceInOrder ==
  \A k \in Kind : \A i, j \in 1..Len(handled[k]) : i < j => handled[k][i] < handled[k][j]

\* An event is lost only if its port had never been registered in this process
\* when the callback read the variable: a later login loses nothing that
\* is under way to the ports of an earlier one.
LostOnlyUnregistered == \A e \in lost : e.to = 0

\* No change of the network status is lost: its port is registered before the
\* native client can raise one (dhtclient.dart, init and login).
NetStatusNeverLost == \A e \in lost : e.kind # "net"

NetUnderWay ==
  \/ \E e \in holding : e.kind = "net"
  \/ \E i \in 1..Len(queue) : queue[i].kind = "net"

\* A status that was raised in the life of the process is what the home page
\* shows in the end, not one that it overtook (dhtclient.dart, setNetStatusNotify).
StatusSettles ==
  NetUnderWay ~> (pc = "dead" \/ (shown = dhtUp /\ ~NetUnderWay))
-----------------------------------------------------------------------------
\* The refinement: an event is due once its callback has found a port, whether a
\* thread holds it or the queue does.
ReadyNow == {k \in Kind : port[k] > 0}
DueNow ==
  [k \in Kind |-> {e.no : e \in {f \in holding : f.kind = k /\ f.to > 0}}
                 \cup {queue[i].no : i \in {j \in 1..Len(queue) : queue[j].kind = k}}]

RaisedNow ==
  [k \in Kind |-> IF \E e \in holding : e.kind = k /\ e.to = NotRead THEN raised[k] - 1 ELSE raised[k]]

Streams == INSTANCE EventStreams WITH ready <- ReadyNow, raised <- RaisedNow, due <- DueNow

\* Threads that hold events while logins replace the ports, one queue for all
\* kinds, and kills at any moment keep what EventStreams promises: whether an
\* event reaches its stream is decided when its callback reads the port, from then
\* on only the death of the process stops it, and a stream gets the events in order
\* and once (freemanffi.cpp, callbacks; dhtclient.dart, login).
ImplementsStreams == Streams!Spec
=============================================================================
