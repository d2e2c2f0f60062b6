-------------------------- MODULE NotifyBridgeProofs --------------------------
(***************************************************************************)
(* Theorems about NotifyBridge, for any number of logins and events: its   *)
(* inductive invariant and the properties that follow, the refinement of   *)
(* EventStreams, the order of a login and the first events, the network    *)
(* status, the refinement of MessageFlow, and what the promise of          *)
(* EventStreams is worth by itself.                                        *)
(***************************************************************************)
EXTENDS NotifyBridge, SequenceTheorems, FiniteSetTheorems, TLAPS

\* Before the login page there is no login, and the native client works only
\* once DhtClient.init has run.
Life ==
  /\ pc \in {"dead", "init"} => page = "none"
  /\ page = "none" => waiting = 0 /\ logins = 0
  /\ waiting + logins <= MaxLogins + 1
  /\ linked => pc \notin {"dead", "init"}

\* How far the numbers of the ports have come.
PortsCounted ==
  /\ pc \in {"dead", "init"} => port["net"] = 0
  /\ pc \notin {"dead", "init"} => port["net"] > 0
  /\ port["net"] <= logins + 1
  /\ \A i \in 1..Len(LoginOrder) : port[LoginOrder[i]] <= logins
  /\ \A i \in 1..Len(LoginOrder) :
       (pc = "native" \/ (pc = "register" /\ i > step)) => port[LoginOrder[i]] < logins

\* Every port that was registered in this process still listens.
PortsOpen ==
  /\ \A k \in Kind, n \in 1..(MaxLogins + 1) : n <= port[k] => <<k, n>> \in open
  /\ \A e \in holding : e.to <= port[e.kind]
  /\ \A e \in holding : e.kind = "net" => e.to # 0
  /\ holding # {} => linked

Lost == LostOnlyUnregistered /\ NetStatusNeverLost

\* The events of a kind are in the order of their numbers, from the stream over
\* the queue to the thread that holds one.
HeldInOrder ==
  /\ \A e \in holding : e.no = raised[e.kind]
  /\ \A e, f \in holding : ThreadOf[e.kind] = ThreadOf[f.kind] => e = f
QueueInOrder ==
  /\ \A i \in 1..Len(queue) : queue[i].no <= raised[queue[i].kind]
  /\ \A i, j \in 1..Len(queue) :
       (i < j /\ queue[i].kind = queue[j].kind) => queue[i].no < queue[j].no
  /\ \A i \in 1..Len(queue) : \A e \in holding :
       queue[i].kind = e.kind => queue[i].no < e.no
StreamsInOrder ==
  \A k \in Kind : \A i \in 1..Len(handled[k]) :
    /\ handled[k][i] <= raised[k]
    /\ \A j \in 1..Len(queue) : queue[j].kind = k => handled[k][i] < queue[j].no
    /\ \A e \in holding : e.kind = k => handled[k][i] < e.no

IInv ==
  /\ TypeOK
  /\ Life /\ PortsCounted /\ PortsOpen /\ Lost
  /\ HeldInOrder /\ QueueInOrder /\ StreamsInOrder /\ OnceInOrder
-----------------------------------------------------------------------------
\* The kinds of the login are seven different ones, and none is the status.
LEMMA KindsOfLogin ==
  /\ Len(LoginOrder) = 7
  /\ \A i \in 1..7 : LoginOrder[i] \in Kind /\ LoginOrder[i] # "net"
  /\ \A i, j \in 1..7 : LoginOrder[i] = LoginOrder[j] => i = j
  /\ \A k \in Kind : k = "net" \/ \E i \in 1..7 : k = LoginOrder[i]
  /\ "net" \in Kind
<1>1. Len(LoginOrder) = 7
  BY DEF LoginOrder
<1>2. \A i \in 1..7 : LoginOrder[i] \in Kind
  BY <1>1 DEF Kind
<1>3. \A i \in 1..7 : LoginOrder[i] # "net"
  BY DEF LoginOrder
<1>4. \A i, j \in 1..7 : LoginOrder[i] = LoginOrder[j] => i = j
  BY DEF LoginOrder
<1> QED
  BY <1>1, <1>2, <1>3, <1>4 DEF Kind

LEMMA Initially == Init => IInv
<1> SUFFICES ASSUME Init
             PROVE  IInv
  OBVIOUS
<1> USE DEF Init
<1>1. TypeOK
  <2>1. /\ step \in 0..Len(LoginOrder)
        /\ waiting \in 0..(MaxLogins + 1)
        /\ logins \in 0..MaxLogins
        /\ port \in [Kind -> 0..(MaxLogins + 1)]
        /\ raised \in [Kind -> 0..MaxRaise]
    BY KindsOfLogin, BridgeAssumption
  <2>2. queue \in Seq(Event) /\ handled \in [Kind -> Seq(1..MaxRaise)]
    OBVIOUS
  <2> QED
    BY <2>1, <2>2 DEF TypeOK
<1>2. Life /\ PortsCounted /\ PortsOpen /\ Lost
  BY KindsOfLogin, BridgeAssumption
     DEF Life, PortsCounted, PortsOpen, Lost, LostOnlyUnregistered, NetStatusNeverLost
<1>3. HeldInOrder /\ QueueInOrder /\ StreamsInOrder /\ OnceInOrder
  BY DEF HeldInOrder, QueueInOrder, StreamsInOrder, OnceInOrder
<1> QED
  BY <1>1, <1>2, <1>3 DEF IInv
\* A registration moves one port on by one, and the new number listens.
LEMMA RegisterEffect ==
  ASSUME TypeOK, NEW k \in Kind, Register(k), port[k] <= MaxLogins
  PROVE  /\ port' \in [Kind -> 0..(MaxLogins + 1)]
         /\ port'[k] = port[k] + 1
         /\ \A j \in Kind : j # k => port'[j] = port[j]
         /\ open' \subseteq Kind \X (1..(MaxLogins + 1))
         /\ open \subseteq open'
         /\ <<k, port'[k]>> \in open'
<1>1. port \in [Kind -> 0..(MaxLogins + 1)] /\ open \subseteq Kind \X (1..(MaxLogins + 1))
  BY DEF TypeOK
<1>2. /\ port' = [port EXCEPT ![k] = @ + 1]
      /\ open' = open \cup {<<k, port[k] + 1>>}
  BY DEF Register
<1>3. port[k] + 1 \in 1..(MaxLogins + 1)
  BY <1>1, BridgeAssumption
<1> QED
  BY <1>1, <1>2, <1>3

\* Types, the life of the isolate and the counts of the ports need one another;
\* TypeOK falls in three parts: the isolate, the ports, the events.
IsolateOK ==
  /\ pc \in {"dead", "init", "idle", "native", "register"}
  /\ step \in 0..Len(LoginOrder)
  /\ waiting \in 0..(MaxLogins + 1)
  /\ logins \in 0..MaxLogins
  /\ page \in {"none", "login", "home"}

PortsOK ==
  /\ port \in [Kind -> 0..(MaxLogins + 1)]
  /\ open \subseteq Kind \X (1..(MaxLogins + 1))
EventsOK ==
  /\ linked \in BOOLEAN /\ dhtUp \in BOOLEAN /\ shown \in BOOLEAN
  /\ holding \subseteq Event
  /\ queue \in Seq(Event)
  /\ raised \in [Kind -> 0..MaxRaise]
  /\ handled \in [Kind -> Seq(1..MaxRaise)]
  /\ lost \subseteq Event

LEMMA TypeParts == TypeOK <=> (IsolateOK /\ PortsOK /\ EventsOK)
  BY DEF TypeOK, IsolateOK, PortsOK, EventsOK

LEMMA TypePartsNext == TypeOK' <=> (IsolateOK' /\ PortsOK' /\ EventsOK')
  BY DEF TypeOK, IsolateOK, PortsOK, EventsOK

\* What an action leaves alone keeps its types.
LEMMA SamePorts == ASSUME PortsOK, UNCHANGED <<port, open>> PROVE PortsOK'
  BY DEF PortsOK

LEMMA SameEvents ==
  ASSUME EventsOK, UNCHANGED <<native, shown, queue, handled>> PROVE EventsOK'
  BY DEF EventsOK, native

LEMMA SameIsolate ==
  ASSUME IsolateOK, Life, PortsCounted, UNCHANGED <<isolate, port>>,
         linked' => (linked \/ pc = "native")
  PROVE  IsolateOK' /\ Life' /\ PortsCounted'
<1>1. UNCHANGED <<pc, step, waiting, logins, page>>
  BY DEF isolate
<1>2. IsolateOK'
  BY <1>1 DEF IsolateOK
<1>3. Life'
  BY <1>1 DEF Life
<1>4. PortsCounted'
  BY <1>1 DEF PortsCounted
<1> QED
  BY <1>2, <1>3, <1>4

\* A step of the isolate that registers no port.
LEMMA IsolateStep ==
  ASSUME IsolateOK, Life, PortsCounted,
         \/ dhtclient_create \/ runApp \/ formSubmitted \/ dhtclient_login_fails
         \/ dhtclient_login_succeeds \/ loginDone \/ logout
  PROVE  /\ UNCHANGED <<port, open, native, shown, queue, handled>>
         /\ IsolateOK' /\ Life' /\ PortsCounted'
<1> USE BridgeAssumption
<1>0. Len(LoginOrder) = 7
  BY KindsOfLogin
<1>1. CASE dhtclient_create
  BY <1>1 DEF dhtclient_create, native, IsolateOK, Life, PortsCounted
<1>2. CASE runApp
  BY <1>2 DEF runApp, showLoginPage, native, IsolateOK, Life, PortsCounted
<1>3. CASE formSubmitted
  <2>1. /\ UNCHANGED <<pc, step, logins, page, native, shown, port, open, queue, handled>>
        /\ waiting' = waiting + 1 /\ waiting + logins < MaxLogins
        /\ page = "login"
    BY <1>3 DEF formSubmitted
  <2>2. IsolateOK' /\ Life'
    <3>1. waiting' \in 0..(MaxLogins + 1) /\ waiting' + logins <= MaxLogins + 1
      BY <2>1 DEF IsolateOK
    <3>2. IsolateOK'
      BY <2>1, <3>1 DEF IsolateOK
    <3>3. Life'
      BY <2>1, <3>1 DEF Life, native
    <3> QED
      BY <3>2, <3>3
  <2>3. PortsCounted'
    BY <2>1 DEF PortsCounted
  <2> QED
    BY <2>1, <2>2, <2>3
<1>4. CASE dhtclient_login_fails
  BY <1>4 DEF dhtclient_login_fails, native, IsolateOK, Life, PortsCounted
<1>5. CASE dhtclient_login_succeeds
  <2>1. UNCHANGED <<port, open, native, shown, queue, handled>>
    BY <1>5 DEF dhtclient_login_succeeds
  <2>2. IsolateOK' /\ Life'
    BY <1>0, <1>5 DEF dhtclient_login_succeeds, native, IsolateOK, Life
  <2>3. PortsCounted'
    BY <1>0, <1>5 DEF dhtclient_login_succeeds, PortsCounted
  <2> QED
    BY <2>1, <2>2, <2>3
<1>6. CASE loginDone
  BY <1>6 DEF loginDone, native, IsolateOK, Life, PortsCounted
<1>7. CASE logout
  BY <1>7 DEF logout, showLoginPage, native, IsolateOK, Life, PortsCounted
<1> QED
  BY <1>1, <1>2, <1>3, <1>4, <1>5, <1>6, <1>7

\* A step of the isolate that registers port k.
LEMMA RegisteringStep ==
  ASSUME TypeOK, Life, PortsCounted, initNetStatus \/ loginNetStatus \/ registerNext
  PROVE  /\ UNCHANGED <<native, shown, queue, handled>>
         /\ PortsOK' /\ IsolateOK' /\ Life' /\ PortsCounted'
         /\ \E k \in Kind : Register(k) /\ port[k] <= MaxLogins
<1> USE BridgeAssumption
<1>0. /\ Len(LoginOrder) = 7 /\ "net" \in Kind
      /\ \A i \in 1..Len(LoginOrder) : LoginOrder[i] \in Kind /\ LoginOrder[i] # "net"
  BY KindsOfLogin
<1>1. IsolateOK /\ port \in [Kind -> 0..(MaxLogins + 1)]
  BY TypeParts DEF PortsOK
<1>2. ASSUME NEW k \in Kind, Register(k), port[k] <= MaxLogins
      PROVE  /\ PortsOK' /\ port'[k] = port[k] + 1
             /\ \A j \in Kind : j # k => port'[j] = port[j]
  BY <1>2, RegisterEffect DEF PortsOK
<1>3. CASE initNetStatus
  <2>1. UNCHANGED <<step, waiting, logins, page, native, shown, queue, handled>>
    BY <1>3 DEF initNetStatus
  <2>2. pc = "init" /\ pc' = "idle" /\ Register("net")
    BY <1>3 DEF initNetStatus
  <2>3. port["net"] <= MaxLogins
    BY <2>2 DEF PortsCounted
  <2>4. /\ PortsOK' /\ port'["net"] = port["net"] + 1
        /\ \A j \in Kind : j # "net" => port'[j] = port[j]
    BY <1>0, <1>2, <2>2, <2>3
  <2>5. IsolateOK' /\ Life'
    BY <1>1, <2>1, <2>2 DEF IsolateOK, Life, native
  <2>6. logins = 0
    BY <2>2 DEF Life
  <2>7. \A i \in 1..Len(LoginOrder) : port'[LoginOrder[i]] = port[LoginOrder[i]]
    BY <1>0, <2>4
  <2>8. PortsCounted'
    BY <1>1, <2>1, <2>2, <2>4, <2>6, <2>7 DEF PortsCounted
  <2> QED
    BY <1>0, <2>1, <2>2, <2>3, <2>4, <2>5, <2>8
<1>4. CASE loginNetStatus
  <2>1. UNCHANGED <<step, page, native, shown, queue, handled>>
    BY <1>4 DEF loginNetStatus
  <2>2. /\ pc = "idle" /\ pc' = "native" /\ Register("net")
        /\ waiting > 0 /\ waiting' = waiting - 1
        /\ logins < MaxLogins /\ logins' = logins + 1
    BY <1>4 DEF loginNetStatus
  <2>3. port["net"] <= MaxLogins
    <3>1. port["net"] \in Int /\ logins \in Int
      BY <1>0, <1>1 DEF IsolateOK
    <3> QED
      BY <2>2, <3>1 DEF PortsCounted
  <2>4. /\ PortsOK' /\ port'["net"] = port["net"] + 1
        /\ \A j \in Kind : j # "net" => port'[j] = port[j]
    BY <1>0, <1>2, <2>2, <2>3
  <2>5. IsolateOK'
    BY <1>1, <2>1, <2>2 DEF IsolateOK
  <2>6. Life'
    BY <1>1, <2>1, <2>2 DEF IsolateOK, Life
  <2>7. \A i \in 1..Len(LoginOrder) :
           port'[LoginOrder[i]] = port[LoginOrder[i]] /\ port[LoginOrder[i]] \in Int
    BY <1>0, <1>1, <2>4
  <2>8. \A i \in 1..Len(LoginOrder) : port'[LoginOrder[i]] < logins'
    BY <1>1, <2>2, <2>7 DEF PortsCounted, IsolateOK
  <2>9. PortsCounted'
    BY <1>1, <2>2, <2>4, <2>7, <2>8, <1>0 DEF PortsCounted, IsolateOK
  <2> QED
    BY <1>0, <2>1, <2>2, <2>3, <2>4, <2>5, <2>6, <2>9
<1>5. CASE registerNext
  <2> DEFINE k == LoginOrder[step + 1]
  <2>1. /\ UNCHANGED <<pc, waiting, logins, page, native, shown, queue, handled>>
        /\ pc = "register" /\ step < Len(LoginOrder) /\ step' = step + 1 /\ Register(k)
    BY <1>5 DEF registerNext
  <2>2. step + 1 \in 1..Len(LoginOrder)
    BY <1>0, <1>1, <2>1 DEF IsolateOK
  <2>3. k \in Kind /\ k # "net"
    BY <1>0, <2>2
  <2>4. port[k] < logins
    BY <1>1, <2>1, <2>2 DEF PortsCounted, IsolateOK
  <2>5. port[k] <= MaxLogins
    BY <1>1, <2>3, <2>4 DEF IsolateOK
  <2> HIDE DEF k
  <2>6. /\ PortsOK' /\ port'[k] = port[k] + 1
        /\ \A j \in Kind : j # k => port'[j] = port[j]
    BY <1>2, <2>1, <2>3, <2>5
  <2>7. IsolateOK'
    BY <1>0, <1>1, <2>1, <2>2 DEF IsolateOK
  <2>8. Life'
    BY <2>1 DEF Life, native
  <2>9. ASSUME NEW i \in 1..Len(LoginOrder)
        PROVE  /\ port'[LoginOrder[i]] <= logins
               /\ i > step + 1 => port'[LoginOrder[i]] < logins
    <3>1. CASE i = step + 1
      <4>1. port'[k] <= logins
        BY <1>1, <2>3, <2>4, <2>6 DEF IsolateOK
      <4> QED
        BY <1>1, <3>1, <4>1 DEF k, IsolateOK
    <3>2. CASE i # step + 1
      <4>1. LoginOrder[i] # k
        BY <1>0, <2>2, <3>2, KindsOfLogin DEF k
      <4>2. LoginOrder[i] \in Kind
        BY <1>0
      <4>3. port'[LoginOrder[i]] = port[LoginOrder[i]]
        BY <2>6, <4>1, <4>2
      <4>4. i > step + 1 => i > step
        BY <1>1 DEF IsolateOK
      <4> QED
        BY <2>1, <4>3, <4>4 DEF PortsCounted
    <3> QED
      BY <3>1, <3>2
  <2>10. port'["net"] = port["net"]
    BY <1>0, <2>3, <2>6
  <2>11. PortsCounted'
    BY <2>1, <2>9, <2>10 DEF PortsCounted
  <2> QED
    BY <2>1, <2>3, <2>5, <2>6, <2>7, <2>8, <2>11
<1> QED
  BY <1>3, <1>4, <1>5
\* The steps of the native threads, and of the isolate when it takes an event.
LEMMA EventStep ==
  ASSUME TypeOK, Life, PortsCounted,
         \/ dhtclient_login
         \/ \E k \in Raised : raise(k)
         \/ \E e \in holding : callback(e) \/ Dart_PostCObject_DL(e)
         \/ listener
  PROVE  /\ UNCHANGED <<isolate, port, open>>
         /\ EventsOK'
         /\ linked' => (linked \/ pc = "native")
<1> USE BridgeAssumption
<1>0. EventsOK /\ PortsOK
  BY TypeParts
<1>1. CASE dhtclient_login
  BY <1>0, <1>1 DEF dhtclient_login, EventsOK
<1>2. ASSUME NEW k \in Raised, raise(k)
      PROVE  /\ UNCHANGED <<isolate, port, open, linked>> /\ EventsOK'
  <2> DEFINE e == [kind |-> k, no |-> raised[k] + 1, up |-> dhtUp', to |-> NotRead]
  <2>1. /\ UNCHANGED <<isolate, linked, lost, shown, port, open, queue, handled>>
        /\ raised[k] < MaxRaise /\ raised' = [raised EXCEPT ![k] = @ + 1]
        /\ dhtUp' = IF k = "net" THEN ~dhtUp ELSE dhtUp
        /\ holding' = holding \cup {e}
    BY <1>2 DEF raise
  <2>2. dhtUp' \in BOOLEAN
    BY <1>0, <2>1, Zenon DEF EventsOK
  <2>3. k \in Kind /\ raised[k] + 1 \in 1..MaxRaise
    BY <1>0, <2>1 DEF EventsOK
  <2>4. e \in Event
    BY <2>2, <2>3 DEF Event
  <2>5. raised' \in [Kind -> 0..MaxRaise]
    BY <1>0, <2>1, <2>3 DEF EventsOK
  <2>6. EventsOK'
    BY <1>0, <2>1, <2>2, <2>4, <2>5 DEF EventsOK
  <2> QED
    BY <2>1, <2>6
<1>3. ASSUME NEW e \in holding, callback(e)
      PROVE  /\ UNCHANGED <<isolate, port, open, linked>> /\ EventsOK'
  <2> DEFINE f == [e EXCEPT !.to = port[e.kind]]
  <2>1. /\ UNCHANGED <<isolate, linked, dhtUp, raised, lost, shown, port, open, queue, handled>>
        /\ holding' = (holding \ {e}) \cup {f}
    BY <1>3 DEF callback
  <2>2. e \in Event
    BY <1>0 DEF EventsOK
  <2>3. f \in Event
    BY <1>0, <2>2 DEF PortsOK, Event
  <2>4. EventsOK'
    BY <1>0, <2>1, <2>3 DEF EventsOK
  <2> QED
    BY <2>1, <2>4
<1>4. ASSUME NEW e \in holding, Dart_PostCObject_DL(e)
      PROVE  /\ UNCHANGED <<isolate, port, open, linked>> /\ EventsOK'
  <2>1. e \in Event
    BY <1>0 DEF EventsOK
  <2>2. /\ UNCHANGED <<isolate, linked, dhtUp, raised, shown, port, open, handled>>
        /\ holding' = holding \ {e}
        /\ queue' = queue \/ queue' = Append(queue, e)
        /\ lost' = lost \/ lost' = lost \cup {e}
    BY <1>4 DEF Dart_PostCObject_DL
  <2>3. queue' \in Seq(Event)
    <3>1. queue \in Seq(Event) /\ Append(queue, e) \in Seq(Event)
      BY <1>0, <2>1 DEF EventsOK
    <3> QED
      BY <2>2, <3>1
  <2>4. EventsOK'
    BY <1>0, <2>1, <2>2, <2>3 DEF EventsOK
  <2> QED
    BY <2>2, <2>4
<1>5. ASSUME listener
      PROVE  /\ UNCHANGED <<isolate, port, open, linked>> /\ EventsOK'
  <2> DEFINE e == Head(queue)
  <2>1. /\ UNCHANGED <<isolate, native, port, open>>
        /\ queue # <<>> /\ queue' = Tail(queue)
        /\ shown' = IF e.kind = "net" THEN e.up ELSE shown
        /\ handled' = [handled EXCEPT ![e.kind] = Append(@, e.no)]
    BY <1>5 DEF listener
  <2>2. e \in Event /\ queue' \in Seq(Event)
    BY <1>0, <2>1 DEF EventsOK
  <2>3. shown' \in BOOLEAN
    BY <1>0, <2>1, <2>2 DEF EventsOK, Event
  <2>4. /\ e.kind \in Kind /\ e.no \in 1..MaxRaise
        /\ handled[e.kind] \in Seq(1..MaxRaise)
    BY <1>0, <2>2 DEF EventsOK, Event
  <2>5. handled' \in [Kind -> Seq(1..MaxRaise)]
    BY <1>0, <2>1, <2>4 DEF EventsOK
  <2>6. EventsOK'
    BY <1>0, <2>1, <2>2, <2>3, <2>5 DEF EventsOK, native
  <2> QED
    BY <2>1, <2>6 DEF native
<1> QED
  BY <1>1, <1>2, <1>3, <1>4, <1>5

LEMMA CountedStep ==
  ASSUME TypeOK, Life, PortsCounted, [Next]_vars
  PROVE  TypeOK' /\ Life' /\ PortsCounted'
<1>0. IsolateOK /\ PortsOK /\ EventsOK
  BY TypeParts
<1>1. CASE \/ dhtclient_create \/ runApp \/ formSubmitted \/ dhtclient_login_fails
           \/ dhtclient_login_succeeds \/ loginDone \/ logout
  BY <1>0, <1>1, IsolateStep, SamePorts, SameEvents, TypePartsNext
<1>2. CASE initNetStatus \/ loginNetStatus \/ registerNext
  BY <1>0, <1>2, RegisteringStep, SameEvents, TypePartsNext
<1>3. CASE \/ dhtclient_login
           \/ \E k \in Raised : raise(k)
           \/ \E e \in holding : callback(e) \/ Dart_PostCObject_DL(e)
           \/ listener
  BY <1>0, <1>3, EventStep, SameIsolate, SamePorts, TypePartsNext
<1>4. CASE Kill
  <2>0. /\ pc' = "dead" /\ step' = 0 /\ waiting' = 0 /\ logins' = 0 /\ page' = "none"
        /\ linked' = FALSE /\ dhtUp' = FALSE
        /\ port' = [k \in Kind |-> 0] /\ open' = {} /\ holding' = {} /\ queue' = <<>>
        /\ UNCHANGED <<shown, raised, handled, lost>>
    BY <1>4 DEF Kill
  <2>1. IsolateOK' /\ Life'
    <3>1. 0 \in 0..Len(LoginOrder) /\ 0 \in 0..MaxLogins /\ 0 \in 0..(MaxLogins + 1)
      BY KindsOfLogin, BridgeAssumption
    <3>2. IsolateOK'
      BY <2>0, <3>1 DEF IsolateOK
    <3>3. Life'
      BY <2>0, <3>1 DEF Life
    <3> QED
      BY <3>2, <3>3
  <2>2. PortsCounted'
    <3>1. \A i \in 1..Len(LoginOrder) : port'[LoginOrder[i]] = 0
      BY <2>0, KindsOfLogin
    <3> QED
      BY <2>0, <3>1, KindsOfLogin DEF PortsCounted
  <2>3. PortsOK'
    BY <2>0, BridgeAssumption DEF PortsOK
  <2>4. EventsOK'
    <3>1. linked' \in BOOLEAN /\ dhtUp' \in BOOLEAN /\ shown' \in BOOLEAN
      BY <1>0, <2>0 DEF EventsOK
    <3>2. holding' \subseteq Event /\ queue' \in Seq(Event)
      BY <2>0
    <3> QED
      BY <1>0, <2>0, <3>1, <3>2 DEF EventsOK
  <2> QED
    BY <2>1, <2>2, <2>3, <2>4, TypePartsNext
<1>5. CASE UNCHANGED vars
  <2>1. UNCHANGED <<isolate, port>> /\ (linked' => linked) /\ UNCHANGED <<port, open>>
    BY <1>5 DEF vars, native
  <2>2. UNCHANGED <<native, shown, queue, handled>>
    BY <1>5 DEF vars
  <2> QED
    BY <1>0, <2>1, <2>2, SameIsolate, SamePorts, SameEvents, TypePartsNext
<1> QED
  BY <1>1, <1>2, <1>3, <1>4, <1>5 DEF Next
\* No port is ever closed, so what is posted finds the port that was read.
LEMMA OpenStep ==
  ASSUME TypeOK, Life, PortsCounted, PortsOpen, Lost, [Next]_vars
  PROVE  PortsOpen' /\ Lost'
<1> USE BridgeAssumption
<1>0. /\ port \in [Kind -> 0..(MaxLogins + 1)]
      /\ \A e \in holding : e.kind \in Kind /\ e.to \in {NotRead} \cup 0..(MaxLogins + 1)
  BY DEF TypeOK, Event
<1>1. CASE UNCHANGED <<port, open, holding, lost>> /\ (linked => linked')
  BY <1>1 DEF PortsOpen, Lost, LostOnlyUnregistered, NetStatusNeverLost
<1>2. CASE initNetStatus \/ loginNetStatus \/ registerNext
  <2>1. PICK k \in Kind : Register(k) /\ port[k] <= MaxLogins
    BY <1>2, RegisteringStep
  <2>2. UNCHANGED <<holding, lost, linked>>
    BY <1>2, RegisteringStep DEF native
  <2>3. /\ port' \in [Kind -> 0..(MaxLogins + 1)]
        /\ port'[k] = port[k] + 1
        /\ \A j \in Kind : j # k => port'[j] = port[j]
        /\ open \subseteq open' /\ <<k, port'[k]>> \in open'
    BY <2>1, RegisterEffect
  <2>4. ASSUME NEW j \in Kind, NEW n \in 1..(MaxLogins + 1), n <= port'[j]
        PROVE  <<j, n>> \in open'
    <3>1. CASE n <= port[j]
      BY <2>3, <3>1 DEF PortsOpen
    <3>2. CASE ~(n <= port[j])
      <4>1. j = k
        BY <2>3, <2>4, <3>2
      <4>2. n = port'[k]
        BY <1>0, <2>3, <2>4, <3>2, <4>1
      <4> QED
        BY <2>3, <4>1, <4>2
    <3> QED
      BY <3>1, <3>2
  <2>5. \A j \in Kind : port[j] <= port'[j]
    BY <1>0, <2>3
  <2>6. \A e \in holding : e.to <= port'[e.kind]
    <3> SUFFICES ASSUME NEW e \in holding PROVE e.to <= port'[e.kind]
      OBVIOUS
    <3>1. /\ e.to \in Int /\ port[e.kind] \in Int /\ port'[e.kind] \in Int
          /\ e.to <= port[e.kind] /\ port[e.kind] <= port'[e.kind]
      BY <1>0, <2>3, <2>5 DEF PortsOpen, NotRead
    <3> QED
      BY <3>1
  <2>7. PortsOpen'
    BY <2>2, <2>4, <2>6 DEF PortsOpen
  <2> QED
    BY <2>2, <2>7 DEF Lost, LostOnlyUnregistered, NetStatusNeverLost
<1>3. ASSUME NEW k \in Raised, raise(k)
      PROVE  PortsOpen' /\ Lost'
  <2> DEFINE e == [kind |-> k, no |-> raised[k] + 1, up |-> dhtUp', to |-> NotRead]
  <2>1. UNCHANGED <<lost, port, open>> /\ holding' = holding \cup {e} /\ linked /\ linked' = linked
    BY <1>3 DEF raise
  <2>2. e.kind = k /\ e.to = -1
    BY DEF NotRead
  <2>3. port[k] \in Nat
    BY <1>0
  <2> HIDE DEF e
  <2>4. PortsOpen'
    BY <2>1, <2>2, <2>3 DEF PortsOpen
  <2> QED
    BY <2>1, <2>4 DEF Lost, LostOnlyUnregistered, NetStatusNeverLost
<1>4. ASSUME NEW e \in holding, callback(e)
      PROVE  PortsOpen' /\ Lost'
  <2> DEFINE f == [e EXCEPT !.to = port[e.kind]]
  <2>1. /\ UNCHANGED <<lost, port, open, linked>>
        /\ holding' = (holding \ {e}) \cup {f}
    BY <1>4 DEF callback
  <2>2. f.kind = e.kind /\ f.to = port[e.kind]
    BY DEF TypeOK, Event
  <2>3. linked /\ port[e.kind] \in Int
    BY <1>0 DEF PortsOpen
  <2>4. e.kind = "net" => port[e.kind] # 0
    BY <1>0, <2>3 DEF Life, PortsCounted
  <2> HIDE DEF f
  <2>5. PortsOpen'
    BY <2>1, <2>2, <2>3, <2>4 DEF PortsOpen
  <2> QED
    BY <2>1, <2>5 DEF Lost, LostOnlyUnregistered, NetStatusNeverLost
<1>5. ASSUME NEW e \in holding, Dart_PostCObject_DL(e)
      PROVE  PortsOpen' /\ Lost'
  <2>1. /\ UNCHANGED <<port, open, linked>> /\ holding' = holding \ {e}
        /\ <<e.kind, e.to>> \in open => lost' = lost
        /\ lost' = lost \/ lost' = lost \cup {e}
        /\ e.to # NotRead
    BY <1>5 DEF Dart_PostCObject_DL
  <2>2. e.to > 0 => e.to \in 1..(MaxLogins + 1)
    BY <1>0, <2>1
  <2>3. e.to > 0 => <<e.kind, e.to>> \in open
    BY <1>0, <2>2 DEF PortsOpen
  <2>4. lost' = lost \/ (e.to = 0 /\ e.kind # "net")
    BY <1>0, <2>1, <2>3 DEF PortsOpen
  <2>5. PortsOpen'
    BY <2>1 DEF PortsOpen
  <2> QED
    BY <2>1, <2>4, <2>5 DEF Lost, LostOnlyUnregistered, NetStatusNeverLost
<1>6. CASE Kill
  <2>1. holding' = {} /\ lost' = lost /\ port' = [k \in Kind |-> 0]
    BY <1>6 DEF Kill
  <2>2. PortsOpen'
    BY <2>1 DEF PortsOpen
  <2> QED
    BY <2>1, <2>2 DEF Lost, LostOnlyUnregistered, NetStatusNeverLost
<1>7. CASE \/ dhtclient_create \/ runApp \/ formSubmitted \/ dhtclient_login_fails
           \/ dhtclient_login_succeeds \/ loginDone \/ logout
  <2>1. UNCHANGED <<port, open, native>>
    BY <1>7, TypeParts, IsolateStep
  <2> QED
    BY <1>1, <2>1 DEF native
<1>8. CASE dhtclient_login \/ listener
  BY <1>1, <1>8 DEF dhtclient_login, listener, native
<1>9. CASE UNCHANGED vars
  BY <1>1, <1>9 DEF vars, native
<1> QED
  BY <1>2, <1>3, <1>4, <1>5, <1>6, <1>7, <1>8, <1>9 DEF Next
InOrder == HeldInOrder /\ QueueInOrder /\ StreamsInOrder /\ OnceInOrder

\* A new event has a number larger than every one of its kind, a posted event
\* goes behind all of its kind in the queue, and the first of the queue behind
\* all of its kind in its stream.
LEMMA OrderStep ==
  ASSUME TypeOK, InOrder, [Next]_vars
  PROVE  InOrder'
<1> USE DEF InOrder
<1>0. /\ holding \subseteq Event /\ queue \in Seq(Event)
      /\ raised \in [Kind -> 0..MaxRaise]
      /\ handled \in [Kind -> Seq(1..MaxRaise)]
      /\ \A e \in Event : e.kind \in Kind /\ e.no \in Nat
      /\ \A i \in 1..Len(queue) : queue[i] \in Event
      /\ \A k \in Kind : \A i \in 1..Len(handled[k]) : handled[k][i] \in Nat
  <2>1. /\ holding \subseteq Event /\ queue \in Seq(Event)
        /\ raised \in [Kind -> 0..MaxRaise]
        /\ handled \in [Kind -> Seq(1..MaxRaise)]
    BY DEF TypeOK
  <2>2. \A e \in Event : e.kind \in Kind /\ e.no \in Nat
    BY BridgeAssumption DEF Event
  <2>3. ASSUME NEW k \in Kind, NEW i \in 1..Len(handled[k])
        PROVE  handled[k][i] \in 1..MaxRaise
    <3>1. handled[k] \in Seq(1..MaxRaise)
      BY <2>1
    <3> QED
      BY <3>1, ElementOfSeq
  <2> QED
    BY <2>1, <2>2, <2>3, BridgeAssumption
<1>1. CASE UNCHANGED <<holding, queue, raised, handled>>
  BY <1>1 DEF HeldInOrder, QueueInOrder, StreamsInOrder, OnceInOrder
<1>2. ASSUME NEW k \in Raised, raise(k)
      PROVE  InOrder'
  <2> DEFINE e == [kind |-> k, no |-> raised[k] + 1, up |-> dhtUp', to |-> NotRead]
  <2>1. /\ UNCHANGED <<queue, handled>>
        /\ raised' = [raised EXCEPT ![k] = @ + 1]
        /\ holding' = holding \cup {e}
        /\ \A f \in holding : ThreadOf[f.kind] # ThreadOf[k]
    BY <1>2 DEF raise
  <2>2. e.kind = k /\ e.no = raised[k] + 1 /\ k \in Kind
    BY BridgeAssumption
  <2> HIDE DEF e
  <2>3. /\ raised'[k] = raised[k] + 1
        /\ \A j \in Kind : raised[j] <= raised'[j] /\ raised[j] \in Nat /\ raised'[j] \in Nat
        /\ \A j \in Kind : j # k => raised'[j] = raised[j]
    BY <1>0, <2>1, <2>2
  <2>4. HeldInOrder'
    <3>1. ASSUME NEW f \in holding'
          PROVE  f.no = raised'[f.kind]
      <4>1. CASE f = e
        BY <2>2, <2>3, <4>1
      <4>2. CASE f \in holding
        <5>1. f.no = raised[f.kind] /\ f.kind \in Kind /\ f.kind # k
          BY <1>0, <2>1, <4>2 DEF HeldInOrder
        <5> QED
          BY <2>3, <5>1
      <4> QED
        BY <2>1, <4>1, <4>2
    <3>2. ASSUME NEW f \in holding', NEW g \in holding', ThreadOf[f.kind] = ThreadOf[g.kind]
          PROVE  f = g
      BY <2>1, <2>2, <3>2 DEF HeldInOrder
    <3> QED
      BY <3>1, <3>2 DEF HeldInOrder
  <2>5. QueueInOrder'
    <3>1. ASSUME NEW i \in 1..Len(queue)
          PROVE  /\ queue[i].no <= raised'[queue[i].kind]
                 /\ queue[i].kind = k => queue[i].no < e.no
      <4>1. queue[i].no <= raised[queue[i].kind] /\ queue[i].kind \in Kind /\ queue[i].no \in Nat
        BY <1>0 DEF QueueInOrder
      <4> QED
        BY <2>2, <2>3, <4>1
    <3> QED
      BY <2>1, <2>2, <3>1 DEF QueueInOrder
  <2>6. StreamsInOrder'
    <3>1. ASSUME NEW j \in Kind, NEW i \in 1..Len(handled[j])
          PROVE  /\ handled[j][i] <= raised'[j]
                 /\ j = k => handled[j][i] < e.no
      <4>1. handled[j][i] <= raised[j] /\ handled[j][i] \in Nat
        BY <1>0 DEF StreamsInOrder
      <4> QED
        BY <2>2, <2>3, <4>1
    <3> QED
      BY <2>1, <2>2, <3>1 DEF StreamsInOrder
  <2>7. OnceInOrder'
    BY <2>1 DEF OnceInOrder
  <2> QED
    BY <2>4, <2>5, <2>6, <2>7
<1>3. ASSUME NEW e \in holding, callback(e)
      PROVE  InOrder'
  <2> DEFINE f == [e EXCEPT !.to = port[e.kind]]
  <2>1. /\ UNCHANGED <<raised, queue, handled>>
        /\ holding' = (holding \ {e}) \cup {f}
    BY <1>3 DEF callback
  <2>2. f.kind = e.kind /\ f.no = e.no
    BY <1>0 DEF Event
  <2> HIDE DEF f
  <2>3. HeldInOrder'
    BY <2>1, <2>2 DEF HeldInOrder
  <2>4. QueueInOrder'
    BY <2>1, <2>2 DEF QueueInOrder
  <2>5. StreamsInOrder' /\ OnceInOrder'
    BY <2>1, <2>2 DEF StreamsInOrder, OnceInOrder
  <2> QED
    BY <2>3, <2>4, <2>5
<1>4. ASSUME NEW e \in holding, Dart_PostCObject_DL(e)
      PROVE  InOrder'
  <2>1. /\ UNCHANGED <<raised, handled>> /\ holding' = holding \ {e}
        /\ queue' = queue \/ queue' = Append(queue, e)
    BY <1>4 DEF Dart_PostCObject_DL
  <2>2. \A f \in holding' : f.kind # e.kind
    BY <2>1 DEF HeldInOrder
  <2>3. HeldInOrder'
    BY <2>1 DEF HeldInOrder
  <2>4. CASE queue' = queue
    BY <2>1, <2>3, <2>4 DEF QueueInOrder, StreamsInOrder, OnceInOrder
  <2>5. CASE queue' = Append(queue, e)
    <3>1. /\ Len(queue') = Len(queue) + 1
          /\ \A i \in 1..Len(queue) : queue'[i] = queue[i]
          /\ queue'[Len(queue) + 1] = e
          /\ Len(queue) \in Nat
      BY <1>0, <2>5
    <3>2. \A i \in 1..Len(queue') :
            (i \in 1..Len(queue) /\ queue'[i] = queue[i]) \/ (i = Len(queue) + 1 /\ queue'[i] = e)
      BY <3>1
    <3>3. e.no <= raised[e.kind]
      <4>1. e.no \in Nat /\ e.no = raised[e.kind]
        BY <1>0 DEF HeldInOrder
      <4> QED
        BY <4>1
    <3>4. QueueInOrder'
      <4>1. \A i \in 1..Len(queue') : queue'[i].no <= raised'[queue'[i].kind]
        BY <2>1, <3>2, <3>3 DEF QueueInOrder
      <4>2. ASSUME NEW i \in 1..Len(queue'), NEW j \in 1..Len(queue'),
                   i < j, queue'[i].kind = queue'[j].kind
            PROVE  queue'[i].no < queue'[j].no
        <5>1. i \in 1..Len(queue) /\ queue'[i] = queue[i]
          BY <3>1, <3>2, <4>2
        <5>2. CASE j \in 1..Len(queue) /\ queue'[j] = queue[j]
          BY <4>2, <5>1, <5>2 DEF QueueInOrder
        <5>3. CASE queue'[j] = e
          BY <4>2, <5>1, <5>3 DEF QueueInOrder
        <5> QED
          BY <3>2, <5>2, <5>3
      <4>3. \A i \in 1..Len(queue') : \A f \in holding' :
              queue'[i].kind = f.kind => queue'[i].no < f.no
        BY <2>1, <2>2, <3>2 DEF QueueInOrder
      <4> QED
        BY <4>1, <4>2, <4>3 DEF QueueInOrder
    <3>5. StreamsInOrder'
      BY <2>1, <3>2 DEF StreamsInOrder
    <3> QED
      BY <2>1, <2>3, <3>4, <3>5 DEF OnceInOrder
  <2> QED
    BY <2>1, <2>4, <2>5
<1>5. CASE listener
  <2> DEFINE e == Head(queue)
  <2>1. /\ UNCHANGED <<holding, raised>>
        /\ queue # <<>> /\ queue' = Tail(queue)
        /\ handled' = [handled EXCEPT ![e.kind] = Append(@, e.no)]
    BY <1>5 DEF listener, native
  <2>2. /\ Len(queue) \in Nat \ {0} /\ Len(queue') = Len(queue) - 1
        /\ \A i \in 1..Len(queue') : i + 1 \in 1..Len(queue) /\ queue'[i] = queue[i + 1]
        /\ e = queue[1] /\ 1 \in 1..Len(queue)
    BY <1>0, <2>1
  <2>3. e.kind \in Kind /\ e.no \in Nat /\ handled[e.kind] \in Seq(1..MaxRaise)
    BY <1>0, <2>2
  <2> HIDE DEF e
  <2>4. /\ \A k \in Kind : k # e.kind => handled'[k] = handled[k]
        /\ handled'[e.kind] = Append(handled[e.kind], e.no)
    BY <1>0, <2>1, <2>3
  <2>5. /\ Len(handled'[e.kind]) = Len(handled[e.kind]) + 1
        /\ Len(handled[e.kind]) \in Nat
        /\ \A i \in 1..Len(handled[e.kind]) : handled'[e.kind][i] = handled[e.kind][i]
        /\ handled'[e.kind][Len(handled[e.kind]) + 1] = e.no
    BY <2>3, <2>4
  <2>6. \A k \in Kind : \A i \in 1..Len(handled'[k]) :
          \/ i \in 1..Len(handled[k]) /\ handled'[k][i] = handled[k][i]
          \/ k = e.kind /\ i = Len(handled[k]) + 1 /\ handled'[k][i] = e.no
    BY <2>4, <2>5
  <2>7. /\ e.no <= raised[e.kind]
        /\ \A j \in 1..Len(queue') : queue'[j].kind = e.kind => e.no < queue'[j].no
        /\ \A f \in holding : f.kind = e.kind => e.no < f.no
        /\ \A i \in 1..Len(handled[e.kind]) : handled[e.kind][i] < e.no
    <3>1. e.no <= raised[e.kind]
      BY <2>2 DEF QueueInOrder
    <3>2. ASSUME NEW j \in 1..Len(queue'), queue'[j].kind = e.kind
          PROVE  e.no < queue'[j].no
      <4>1. j + 1 \in 1..Len(queue) /\ 1 < j + 1 /\ queue'[j] = queue[j + 1]
        BY <2>2
      <4> QED
        BY <2>2, <3>2, <4>1 DEF QueueInOrder
    <3>3. \A f \in holding : f.kind = e.kind => e.no < f.no
      BY <2>2 DEF QueueInOrder
    <3>4. \A i \in 1..Len(handled[e.kind]) : handled[e.kind][i] < e.no
      BY <2>2, <2>3 DEF StreamsInOrder
    <3> QED
      BY <3>1, <3>2, <3>3, <3>4
  <2>8. HeldInOrder'
    BY <2>1 DEF HeldInOrder
  <2>9. QueueInOrder'
    <3>1. \A i \in 1..Len(queue') : queue'[i].no <= raised'[queue'[i].kind]
      BY <2>1, <2>2 DEF QueueInOrder
    <3>2. ASSUME NEW i \in 1..Len(queue'), NEW j \in 1..Len(queue'),
                 i < j, queue'[i].kind = queue'[j].kind
          PROVE  queue'[i].no < queue'[j].no
      <4>1. /\ i + 1 \in 1..Len(queue) /\ j + 1 \in 1..Len(queue) /\ i + 1 < j + 1
            /\ queue'[i] = queue[i + 1] /\ queue'[j] = queue[j + 1]
        BY <2>2, <3>2
      <4> QED
        BY <3>2, <4>1 DEF QueueInOrder
    <3>3. \A i \in 1..Len(queue') : \A f \in holding' :
            queue'[i].kind = f.kind => queue'[i].no < f.no
      BY <2>1, <2>2 DEF QueueInOrder
    <3> QED
      BY <3>1, <3>2, <3>3 DEF QueueInOrder
  <2>10. StreamsInOrder'
    <3>1. ASSUME NEW k \in Kind, NEW i \in 1..Len(handled'[k])
          PROVE  /\ handled'[k][i] <= raised'[k]
                 /\ \A j \in 1..Len(queue') : queue'[j].kind = k => handled'[k][i] < queue'[j].no
                 /\ \A f \in holding' : f.kind = k => handled'[k][i] < f.no
      <4>1. CASE i \in 1..Len(handled[k]) /\ handled'[k][i] = handled[k][i]
        BY <2>1, <2>2, <4>1 DEF StreamsInOrder
      <4>2. CASE k = e.kind /\ handled'[k][i] = e.no
        BY <2>1, <2>7, <4>2
      <4> QED
        BY <2>6, <4>1, <4>2
    <3> QED
      BY <3>1 DEF StreamsInOrder
  <2>11. OnceInOrder'
    <3>1. ASSUME NEW k \in Kind, NEW i \in 1..Len(handled'[k]), NEW j \in 1..Len(handled'[k]), i < j
          PROVE  handled'[k][i] < handled'[k][j]
      <4>1. CASE j \in 1..Len(handled[k]) /\ handled'[k][j] = handled[k][j]
        <5>1. i \in 1..Len(handled[k]) /\ handled'[k][i] = handled[k][i]
          BY <2>6, <3>1, <4>1
        <5> QED
          BY <3>1, <4>1, <5>1 DEF OnceInOrder
      <4>2. CASE k = e.kind /\ j = Len(handled[k]) + 1 /\ handled'[k][j] = e.no
        <5>1. i \in 1..Len(handled[k]) /\ handled'[k][i] = handled[k][i]
          BY <2>5, <2>6, <3>1, <4>2
        <5> QED
          BY <2>7, <4>2, <5>1
      <4> QED
        BY <2>6, <4>1, <4>2
    <3> QED
      BY <3>1 DEF OnceInOrder
  <2> QED
    BY <2>8, <2>9, <2>10, <2>11
<1>6. CASE Kill
  <2>1. holding' = {} /\ queue' = <<>> /\ UNCHANGED <<raised, handled>>
    BY <1>6 DEF Kill
  <2> QED
    BY <2>1 DEF HeldInOrder, QueueInOrder, StreamsInOrder, OnceInOrder
<1>7. CASE \/ dhtclient_create \/ initNetStatus \/ runApp \/ formSubmitted \/ loginNetStatus
           \/ dhtclient_login \/ dhtclient_login_fails \/ dhtclient_login_succeeds
           \/ registerNext \/ loginDone \/ logout
  BY <1>1, <1>7 DEF dhtclient_create, initNetStatus, runApp, formSubmitted, loginNetStatus,
       dhtclient_login, dhtclient_login_fails, dhtclient_login_succeeds, registerNext, loginDone,
       logout, native
<1>8. CASE UNCHANGED vars
  BY <1>1, <1>8 DEF vars, native
<1> QED
  BY <1>2, <1>3, <1>4, <1>5, <1>6, <1>7, <1>8 DEF Next
-----------------------------------------------------------------------------
\* Every step of the bridge keeps the invariant.
LEMMA InvariantStep ==
  ASSUME IInv, [Next]_vars
  PROVE  IInv'
<1>1. TypeOK' /\ Life' /\ PortsCounted'
  BY CountedStep DEF IInv
<1>2. PortsOpen' /\ Lost'
  BY OpenStep DEF IInv
<1>3. InOrder'
  BY OrderStep DEF IInv, InOrder
<1> QED
  BY <1>1, <1>2, <1>3 DEF IInv, InOrder

LEMMA Invariance == Spec => []IInv
<1>1. Init => IInv
  BY Initially
<1>2. IInv /\ [Next]_vars => IInv'
  BY InvariantStep
<1> QED
  BY <1>1, <1>2, PTL DEF Spec

\* The states of the bridge have their types, and the ports of a kind never
\* outnumber the logins by more than one.
THEOREM TypeCorrect == Spec => []TypeOK
<1>1. IInv => TypeOK
  BY DEF IInv
<1> QED
  BY <1>1, Invariance, PTL

\* However many logins replace the ports while native threads post events, each
\* stream gets the events of its kind in order and none of them twice.
THEOREM StreamsGetEventsOnceInOrder == Spec => []OnceInOrder
<1>1. IInv => OnceInOrder
  BY DEF IInv
<1> QED
  BY <1>1, Invariance, PTL

\* Only events whose port had not been registered are lost.
THEOREM RegisteredLosesNothing == Spec => []LostOnlyUnregistered
<1>1. IInv => LostOnlyUnregistered
  BY DEF IInv, Lost
<1> QED
  BY <1>1, Invariance, PTL

\* No network status is lost.
THEOREM StatusReachesQueue == Spec => []NetStatusNeverLost
<1>1. IInv => NetStatusNeverLost
  BY DEF IInv, Lost
<1> QED
  BY <1>1, Invariance, PTL
-----------------------------------------------------------------------------
\* NotifyBridge implements EventStreams: one lemma per kind of step.
LEMMA StreamsUnchanged ==
  ASSUME UNCHANGED <<port, holding, queue, raised, handled>>
  PROVE  UNCHANGED Streams!vars
<1>1. ReadyNow' = ReadyNow
  BY DEF ReadyNow
<1>2. DueNow' = DueNow
  BY DEF DueNow
<1>3. RaisedNow' = RaisedNow
  BY DEF RaisedNow
<1> QED
  BY <1>1, <1>2, <1>3 DEF Streams!vars

\* A registration makes the isolate ready for the kind.
LEMMA RegisterIsRegister ==
  ASSUME TypeOK, NEW k \in Kind, Register(k), UNCHANGED <<holding, queue, raised, handled>>
  PROVE  Streams!Next
<1>1. \A j \in Kind : port[j] \in Nat
  BY BridgeAssumption DEF TypeOK
<1>2. port' = [port EXCEPT ![k] = @ + 1] /\ port \in [Kind -> 0..(MaxLogins + 1)]
  BY DEF Register, TypeOK
<1>3. \A j \in Kind : port'[j] = IF j = k THEN port[k] + 1 ELSE port[j]
  BY <1>2
<1>4. ReadyNow' = ReadyNow \cup {k}
  BY <1>1, <1>3 DEF ReadyNow
<1>5. DueNow' = DueNow
  BY DEF DueNow
<1>6. RaisedNow' = RaisedNow
  BY DEF RaisedNow
<1>7. Streams!Register(k)
  BY <1>4, <1>5, <1>6 DEF Streams!Register
<1> QED
  BY <1>7 DEF Streams!Next

\* For the streams, an event that a thread has is raised when its callback reads
\* the port.
LEMMA RaiseStutters ==
  ASSUME TypeOK, NEW k \in Kind, raise(k)
  PROVE  UNCHANGED Streams!vars
<1> DEFINE e == [kind |-> k, no |-> raised[k] + 1, up |-> dhtUp', to |-> NotRead]
<1>1. /\ holding' = holding \cup {e}
      /\ raised' = [raised EXCEPT ![k] = @ + 1]
      /\ UNCHANGED <<port, queue, handled>>
      /\ \A f \in holding : ThreadOf[f.kind] # ThreadOf[k]
  BY DEF raise
<1>2. e.kind = k /\ e.to = NotRead /\ ~(e.to > 0)
  BY DEF NotRead
<1> HIDE DEF e
<1>3. raised \in [Kind -> Nat]
  BY BridgeAssumption DEF TypeOK
<1>4. \A j \in Kind : RaisedNow'[j] = RaisedNow[j]
  <2> SUFFICES ASSUME NEW j \in Kind PROVE RaisedNow'[j] = RaisedNow[j]
    OBVIOUS
  <2>1. CASE j = k
    <3>1. ~\E f \in holding : f.kind = k /\ f.to = NotRead
      BY <1>1
    <3>2. \E f \in holding' : f.kind = k /\ f.to = NotRead
      BY <1>1, <1>2
    <3>3. RaisedNow[k] = raised[k] /\ RaisedNow'[k] = raised'[k] - 1
      BY <3>1, <3>2 DEF RaisedNow
    <3>4. raised'[k] = raised[k] + 1
      BY <1>1, <1>3
    <3> QED
      BY <1>3, <2>1, <3>3, <3>4
  <2>2. CASE j # k
    <3>1. (\E f \in holding' : f.kind = j /\ f.to = NotRead)
            <=> (\E f \in holding : f.kind = j /\ f.to = NotRead)
      BY <1>1, <1>2, <2>2
    <3>2. raised'[j] = raised[j]
      BY <1>1, <1>3, <2>2
    <3> QED
      BY <3>1, <3>2 DEF RaisedNow
  <2> QED
    BY <2>1, <2>2
<1>5. RaisedNow' = RaisedNow
  BY <1>4 DEF RaisedNow
<1>6. \A j \in Kind : {f \in holding' : f.kind = j /\ f.to > 0} = {f \in holding : f.kind = j /\ f.to > 0}
  BY <1>1, <1>2
<1>7. DueNow' = DueNow
  BY <1>1, <1>6 DEF DueNow
<1>8. ReadyNow' = ReadyNow
  BY <1>1 DEF ReadyNow
<1> QED
  BY <1>1, <1>5, <1>7, <1>8 DEF Streams!vars

\* A callback raises its event, which is due if the port has been registered.
LEMMA CallbackIsRaise ==
  ASSUME TypeOK, HeldInOrder, NEW e \in holding, callback(e)
  PROVE  Streams!Raise(e.kind)
<1> DEFINE f == [e EXCEPT !.to = port[e.kind]]
           k == e.kind
<1>1. /\ e.to = NotRead
      /\ holding' = (holding \ {e}) \cup {f}
      /\ UNCHANGED <<port, raised, queue, handled>>
  BY DEF callback
<1>2. e \in Event /\ port \in [Kind -> 0..(MaxLogins + 1)] /\ raised \in [Kind -> Nat]
  BY BridgeAssumption DEF TypeOK
<1>3. /\ k \in Kind /\ f.kind = k /\ f.no = e.no /\ f.to = port[k] /\ port[k] \in Nat
      /\ ~(e.to > 0) /\ f.to # NotRead
  <2>1. k \in Kind /\ f.kind = k /\ f.no = e.no /\ f.to = port[k]
    BY <1>2 DEF Event
  <2>2. port[k] \in Nat
    BY <1>2, <2>1, BridgeAssumption
  <2> QED
    BY <1>1, <2>1, <2>2 DEF NotRead
<1>4. e.no = raised[k] /\ \A g \in holding : g.kind = k => g = e
  BY DEF HeldInOrder
<1> HIDE DEF f, k
<1>5. RaisedNow[k] + 1 = raised[k] /\ RaisedNow'[k] = raised[k]
  <2>1. RaisedNow[k] = raised[k] - 1
    BY <1>1, <1>3 DEF RaisedNow, k
  <2>2. \A g \in holding' : ~(g.kind = k /\ g.to = NotRead)
    BY <1>1, <1>3, <1>4
  <2>3. RaisedNow'[k] = raised[k]
    BY <1>1, <1>3, <2>2 DEF RaisedNow
  <2> QED
    BY <1>2, <1>3, <2>1, <2>3
<1>6. \A j \in Kind : j # k => RaisedNow'[j] = RaisedNow[j]
  <2> SUFFICES ASSUME NEW j \in Kind, j # k PROVE RaisedNow'[j] = RaisedNow[j]
    OBVIOUS
  <2>1. (\E g \in holding' : g.kind = j /\ g.to = NotRead)
          <=> (\E g \in holding : g.kind = j /\ g.to = NotRead)
    BY <1>1, <1>3 DEF k
  <2> QED
    BY <1>1, <2>1 DEF RaisedNow
<1>7. RaisedNow' = [RaisedNow EXCEPT ![k] = @ + 1]
  BY <1>5, <1>6 DEF RaisedNow
<1>8. \A j \in Kind : {g \in holding' : g.kind = j /\ g.to > 0}
        = {g \in holding : g.kind = j /\ g.to > 0} \cup (IF j = k /\ port[k] > 0 THEN {f} ELSE {})
  BY <1>1, <1>3
<1>9. \A j \in Kind : DueNow'[j] = IF j = k /\ k \in ReadyNow THEN DueNow[j] \cup {RaisedNow[k] + 1} ELSE DueNow[j]
  <2> SUFFICES ASSUME NEW j \in Kind
               PROVE  DueNow'[j] = IF j = k /\ k \in ReadyNow THEN DueNow[j] \cup {RaisedNow[k] + 1} ELSE DueNow[j]
    OBVIOUS
  <2>1. (k \in ReadyNow) = (port[k] > 0)
    BY <1>3 DEF ReadyNow
  <2>2. f.no = RaisedNow[k] + 1
    BY <1>3, <1>4, <1>5
  <2> QED
    BY <1>1, <1>8, <2>1, <2>2 DEF DueNow
<1>10. DueNow' = IF k \in ReadyNow THEN [DueNow EXCEPT ![k] = @ \cup {RaisedNow[k] + 1}] ELSE DueNow
  BY <1>9 DEF DueNow
<1>11. ReadyNow' = ReadyNow
  BY <1>1 DEF ReadyNow
<1>12. Streams!Raise(k)
  BY <1>1, <1>7, <1>10, <1>11 DEF Streams!Raise
<1> QED
  BY <1>12 DEF k

\* A post keeps due what is due: it finds a port whenever the callback did.
LEMMA PostStutters ==
  ASSUME TypeOK, PortsOpen, NEW e \in holding, Dart_PostCObject_DL(e)
  PROVE  UNCHANGED Streams!vars
<1>1. e.to # NotRead /\ holding' = holding \ {e} /\ UNCHANGED <<port, raised, handled>>
  BY DEF Dart_PostCObject_DL
<1>2. e.kind \in Kind /\ e.to \in {NotRead} \cup 0..(MaxLogins + 1) /\ queue \in Seq(Event)
  BY DEF TypeOK, Event
<1>3. (<<e.kind, e.to>> \in open) <=> e.to > 0
  <2>1. ASSUME <<e.kind, e.to>> \in open PROVE e.to > 0
    BY <2>1 DEF TypeOK
  <2>2. ASSUME e.to > 0 PROVE <<e.kind, e.to>> \in open
    <3>1. e.to \in 1..(MaxLogins + 1)
      BY <1>1, <1>2, <2>2, BridgeAssumption
    <3>2. e.to <= port[e.kind]
      BY DEF PortsOpen
    <3> QED
      BY <1>2, <3>1, <3>2 DEF PortsOpen
  <2> QED
    BY <2>1, <2>2
<1>4. \A k \in Kind : DueNow'[k] = DueNow[k]
  <2> SUFFICES ASSUME NEW k \in Kind PROVE DueNow'[k] = DueNow[k]
    OBVIOUS
  <2> DEFINE H(S) == {f.no : f \in {g \in S : g.kind = k /\ g.to > 0}}
             Q(q) == {q[i].no : i \in {j \in 1..Len(q) : q[j].kind = k}}
  <2>1. DueNow[k] = H(holding) \cup Q(queue) /\ DueNow'[k] = H(holding') \cup Q(queue')
    BY DEF DueNow
  <2>2. CASE e.to > 0
    <3>1. queue' = Append(queue, e)
      BY <1>3, <2>2 DEF Dart_PostCObject_DL
    <3>2. /\ Len(queue') = Len(queue) + 1 /\ Len(queue) \in Nat
          /\ \A i \in 1..Len(queue) : queue'[i] = queue[i]
          /\ queue'[Len(queue) + 1] = e
      BY <1>2, <3>1
    <3>3. \A i \in 1..Len(queue') : i \in 1..Len(queue) \/ i = Len(queue) + 1
      BY <3>2
    <3>4. Q(queue') = Q(queue) \cup (IF e.kind = k THEN {e.no} ELSE {})
      BY <3>2, <3>3
    <3>5. H(holding) = H(holding') \cup (IF e.kind = k THEN {e.no} ELSE {})
      BY <1>1, <2>2
    <3> QED
      BY <2>1, <3>4, <3>5
  <2>3. CASE ~(e.to > 0)
    <3>1. queue' = queue
      BY <1>3, <2>3 DEF Dart_PostCObject_DL
    <3>2. H(holding') = H(holding)
      BY <1>1, <2>3
    <3> QED
      BY <2>1, <3>1, <3>2
  <2> QED
    BY <2>2, <2>3
<1>5. DueNow' = DueNow
  BY <1>4 DEF DueNow
<1>6. ReadyNow' = ReadyNow
  BY <1>1 DEF ReadyNow
<1>7. \A k \in Kind : (\E f \in holding' : f.kind = k /\ f.to = NotRead)
                      <=> (\E f \in holding : f.kind = k /\ f.to = NotRead)
  BY <1>1
<1>8. RaisedNow' = RaisedNow
  BY <1>1, <1>7 DEF RaisedNow
<1> QED
  BY <1>1, <1>5, <1>6, <1>8 DEF Streams!vars

\* The event at the head of the queue is the oldest of its kind that is due.
LEMMA ListenerIsHandOn ==
  ASSUME TypeOK, QueueInOrder, listener
  PROVE  Streams!HandOn(Head(queue).kind)
<1> DEFINE e == Head(queue)
<1>1. /\ queue # <<>> /\ queue' = Tail(queue)
      /\ handled' = [handled EXCEPT ![e.kind] = Append(@, e.no)]
      /\ UNCHANGED <<port, holding, raised>>
  BY DEF listener, native
<1>2. /\ queue \in Seq(Event) /\ e \in Event /\ e.kind \in Kind /\ e.no \in Nat
  <2>1. queue \in Seq(Event)
    BY DEF TypeOK
  <2>2. e \in Event
    BY <1>1, <2>1
  <2>3. e.kind \in Kind /\ e.no \in 1..MaxRaise
    BY <2>2 DEF Event
  <2> QED
    BY <2>1, <2>2, <2>3, BridgeAssumption
<1>3. /\ e = queue[1] /\ 1 \in 1..Len(queue) /\ Len(queue') = Len(queue) - 1 /\ Len(queue) \in Nat
      /\ \A i \in 1..Len(queue') : queue'[i] = queue[i + 1]
  BY <1>1, <1>2
<1> HIDE DEF e
<1> DEFINE K == e.kind
           H(k) == {f.no : f \in {g \in holding : g.kind = k /\ g.to > 0}}
           Q(q, k) == {q[i].no : i \in {j \in 1..Len(q) : q[j].kind = k}}
<1>4. \A k \in Kind : DueNow[k] = H(k) \cup Q(queue, k) /\ DueNow'[k] = H(k) \cup Q(queue', k)
  BY <1>1 DEF DueNow
<1>5. \A i \in 1..Len(queue) : i = 1 \/ (i - 1 \in 1..Len(queue') /\ queue[i] = queue'[i - 1])
  BY <1>3
<1>6. \A i \in 1..Len(queue') : i + 1 \in 1..Len(queue) /\ i + 1 # 1
  BY <1>3
<1>7. \A k \in Kind : Q(queue, k) = Q(queue', k) \cup (IF k = K THEN {e.no} ELSE {})
  BY <1>3, <1>5, <1>6
<1>8. \A n \in Q(queue', K) : n \in Nat /\ e.no < n
  <2>1. ASSUME NEW i \in 1..Len(queue'), queue'[i].kind = K
        PROVE  queue'[i].no \in Nat /\ e.no < queue'[i].no
    <3>1. i + 1 \in 1..Len(queue) /\ 1 < i + 1 /\ queue'[i] = queue[i + 1]
      BY <1>3
    <3>2. queue[i + 1] \in Event
      BY <1>2, <3>1
    <3>3. queue[i + 1].no \in Nat
      BY <3>2, BridgeAssumption DEF Event
    <3> QED
      BY <1>3, <2>1, <3>1, <3>3 DEF QueueInOrder
  <2> QED
    BY <2>1
<1>9. \A n \in H(K) : n \in Nat /\ e.no < n
  <2>1. \A f \in holding : f.no \in Nat
    BY BridgeAssumption DEF TypeOK, Event
  <2> QED
    BY <1>3, <2>1 DEF QueueInOrder
<1>10. K \in Kind
  BY <1>2
<1>11. DueNow[K] = H(K) \cup Q(queue', K) \cup {e.no} /\ DueNow'[K] = H(K) \cup Q(queue', K)
  BY <1>4, <1>7, <1>10
<1>12. \A k \in Kind : k # K => DueNow'[k] = DueNow[k]
  BY <1>4, <1>7
<1> HIDE DEF K, H, Q
<1>13. /\ e.no \in DueNow[K]
       /\ \A m \in DueNow[K] : e.no <= m
       /\ DueNow'[K] = DueNow[K] \ {e.no}
  <2>1. e.no <= e.no /\ \A m \in H(K) \cup Q(queue', K) : e.no <= m /\ m # e.no
    BY <1>2, <1>8, <1>9
  <2> QED
    BY <1>11, <2>1
<1>14. DueNow' = [DueNow EXCEPT ![K] = @ \ {e.no}]
  BY <1>12, <1>13 DEF DueNow
<1>15. ReadyNow' = ReadyNow
  BY <1>1 DEF ReadyNow
<1>16. RaisedNow' = RaisedNow
  BY <1>1 DEF RaisedNow
<1>17. Streams!HandOn(K)
  BY <1>1, <1>13, <1>14, <1>15, <1>16 DEF Streams!HandOn, K
<1> QED
  BY <1>17 DEF K, e

\* A kill takes what is due, and the number of an event whose callback has not
\* read its port.
LEMMA KillIsDie ==
  ASSUME TypeOK, Kill
  PROVE  Streams!Die
<1>1. /\ port' = [k \in Kind |-> 0] /\ holding' = {} /\ queue' = <<>>
      /\ UNCHANGED <<raised, handled>>
  BY DEF Kill
<1>2. ReadyNow' = {}
  BY <1>1 DEF ReadyNow
<1>3. DueNow' = [k \in Kind |-> {}]
  BY <1>1 DEF DueNow
<1>4. raised \in [Kind -> Nat]
  BY BridgeAssumption DEF TypeOK
<1>5. RaisedNow' = raised
  BY <1>1, <1>4 DEF RaisedNow
<1>6. \A k \in Kind : RaisedNow'[k] >= RaisedNow[k]
  BY <1>4, <1>5 DEF RaisedNow
<1> QED
  BY <1>1, <1>2, <1>3, <1>4, <1>5, <1>6 DEF Streams!Die

LEMMA BridgeSimulates ==
  ASSUME IInv, [Next]_vars
  PROVE  [Streams!Next]_Streams!vars
<1> USE DEF IInv
<1>1. ASSUME NEW k \in Kind, Register(k), UNCHANGED <<native, queue, handled>>
      PROVE  Streams!Next
  BY <1>1, RegisterIsRegister DEF native
<1>2. CASE initNetStatus
  BY <1>1, <1>2, KindsOfLogin DEF initNetStatus
<1>3. CASE loginNetStatus
  BY <1>1, <1>3, KindsOfLogin DEF loginNetStatus
<1>4. CASE registerNext
  <2>1. step + 1 \in 1..7
    BY <1>4, KindsOfLogin DEF registerNext, TypeOK
  <2>2. LoginOrder[step + 1] \in Kind
    BY <2>1, KindsOfLogin
  <2> QED
    BY <1>1, <1>4, <2>2 DEF registerNext
<1>5. ASSUME NEW k \in Raised, raise(k)
      PROVE  UNCHANGED Streams!vars
  <2>1. k \in Kind
    BY BridgeAssumption
  <2> QED
    BY <1>5, <2>1, RaiseStutters
<1>6. ASSUME NEW e \in holding, callback(e) \/ Dart_PostCObject_DL(e)
      PROVE  [Streams!Next]_Streams!vars
  <2>1. CASE callback(e)
    <3>1. e.kind \in Kind
      BY DEF TypeOK, Event
    <3>2. Streams!Raise(e.kind)
      BY <2>1, CallbackIsRaise
    <3> QED
      BY <3>1, <3>2 DEF Streams!Next
  <2>2. CASE Dart_PostCObject_DL(e)
    BY <2>2, PostStutters
  <2> QED
    BY <1>6, <2>1, <2>2
<1>7. CASE listener
  <2>1. Streams!HandOn(Head(queue).kind)
    BY <1>7, ListenerIsHandOn
  <2>2. Head(queue).kind \in Kind
    <3>1. queue # <<>> /\ queue \in Seq(Event)
      BY <1>7 DEF listener, TypeOK
    <3>2. Head(queue) \in Event
      BY <3>1
    <3> QED
      BY <3>2 DEF Event
  <2> QED
    BY <2>1, <2>2 DEF Streams!Next
<1>8. CASE Kill
  BY <1>8, KillIsDie DEF Streams!Next
<1>9. CASE \/ dhtclient_create \/ runApp \/ formSubmitted \/ dhtclient_login
           \/ dhtclient_login_fails \/ dhtclient_login_succeeds \/ loginDone \/ logout
  <2>1. UNCHANGED <<port, holding, queue, raised, handled>>
    BY <1>9 DEF dhtclient_create, runApp, formSubmitted, dhtclient_login, dhtclient_login_fails,
         dhtclient_login_succeeds, loginDone, logout, native
  <2> QED
    BY <2>1, StreamsUnchanged
<1>10. CASE UNCHANGED vars
  BY <1>10, StreamsUnchanged DEF vars, native
<1> QED
  BY <1>2, <1>3, <1>4, <1>5, <1>6, <1>7, <1>8, <1>9, <1>10 DEF Next

\* Whatever threads, logins, the queue and kills do to events, it is a behaviour
\* of EventStreams.
THEOREM ImplementsStreamsTheorem == Spec => ImplementsStreams
<1>1. Init => Streams!Init
  BY DEF Init, Streams!Init, ReadyNow, DueNow, RaisedNow
<1>2. IInv /\ [Next]_vars => [Streams!Next]_Streams!vars
  BY BridgeSimulates
<1> QED
  BY <1>1, <1>2, Invariance, PTL DEF Spec, ImplementsStreams, Streams!Spec
-----------------------------------------------------------------------------
\* Nothing of the login's ports, and no event, is there before the client works,
\* and the home page is there only after the last port.
Started ==
  /\ ~linked => queue = <<>> /\ \A i \in 1..Len(LoginOrder) : port[LoginOrder[i]] = 0
  /\ linked => page # "none"
  /\ pc \in {"native", "register"} => page # "none"
  /\ pc = "register" => linked /\ \A i \in 1..step : port[LoginOrder[i]] > 0
  /\ page = "home" => linked /\ \A k \in Kind : port[k] > 0

LEMMA StartedStep ==
  ASSUME TypeOK, Life, PortsCounted, PortsOpen, Started, [Next]_vars
  PROVE  Started'
<1>0. /\ Len(LoginOrder) = 7
      /\ port \in [Kind -> Nat] /\ step \in 0..7
      /\ \A i \in 1..7 : LoginOrder[i] \in Kind /\ LoginOrder[i] # "net"
      /\ "net" \in Kind
  BY KindsOfLogin, BridgeAssumption DEF TypeOK
<1>1. ASSUME UNCHANGED <<step, port, queue, linked>>,
             page' # "none" \/ page' = page,
             page' = "home" => page = "home",
             pc' \in {"native", "register"} => pc \in {"native", "register"} /\ pc' = pc
      PROVE  Started'
  BY <1>1 DEF Started
<1>2. CASE \/ dhtclient_create \/ runApp \/ formSubmitted \/ dhtclient_login_fails \/ logout
  BY <1>1, <1>2 DEF dhtclient_create, runApp, formSubmitted, dhtclient_login_fails, logout,
       showLoginPage, native
<1>3. CASE dhtclient_login_succeeds
  <2>1. /\ pc = "native" /\ linked /\ pc' = "register" /\ step' = 0
        /\ UNCHANGED <<page, port, queue, linked>>
    BY <1>3 DEF dhtclient_login_succeeds, native
  <2> QED
    BY <2>1 DEF Started
<1>4. CASE loginDone
  <2>1. /\ pc = "register" /\ step = 7 /\ pc' = "idle" /\ page' = "home"
        /\ UNCHANGED <<port, queue, linked>>
    BY <1>0, <1>4 DEF loginDone, native
  <2>2. \A i \in 1..7 : port[LoginOrder[i]] > 0
    BY <2>1 DEF Started
  <2>3. port["net"] > 0
    BY <2>1 DEF PortsCounted
  <2>4. \A k \in Kind : port[k] > 0
    BY <2>2, <2>3, KindsOfLogin
  <2> QED
    BY <2>1, <2>4 DEF Started
<1>5. ASSUME NEW k \in Kind, Register(k), k = "net" \/ linked
      PROVE  /\ \A j \in Kind : port'[j] = IF j = k THEN port[k] + 1 ELSE port[j]
             /\ ~linked => \A i \in 1..7 : port'[LoginOrder[i]] = port[LoginOrder[i]]
             /\ \A j \in Kind : port[j] > 0 => port'[j] > 0
  <2>1. \A j \in Kind : port'[j] = IF j = k THEN port[k] + 1 ELSE port[j]
    BY <1>0, <1>5 DEF Register
  <2> QED
    BY <1>0, <1>5, <2>1
<1>6. CASE initNetStatus
  <2>1. /\ pc' = "idle" /\ Register("net")
        /\ UNCHANGED <<page, queue, linked>>
    BY <1>6 DEF initNetStatus, native
  <2>2. /\ ~linked => \A i \in 1..7 : port'[LoginOrder[i]] = port[LoginOrder[i]]
        /\ \A j \in Kind : port[j] > 0 => port'[j] > 0
    BY <1>0, <1>5, <2>1
  <2> QED
    BY <1>0, <2>1, <2>2 DEF Started
<1>7. CASE loginNetStatus
  <2>1. /\ waiting > 0 /\ pc' = "native" /\ Register("net")
        /\ UNCHANGED <<page, queue, linked>>
    BY <1>7 DEF loginNetStatus, native
  <2>2. /\ ~linked => \A i \in 1..7 : port'[LoginOrder[i]] = port[LoginOrder[i]]
        /\ \A j \in Kind : port[j] > 0 => port'[j] > 0
    BY <1>0, <1>5, <2>1
  <2>3. page # "none"
    BY <2>1 DEF Life
  <2> QED
    BY <1>0, <2>1, <2>2, <2>3 DEF Started
<1>8. CASE registerNext
  <2> DEFINE k == LoginOrder[step + 1]
  <2>1. /\ pc = "register" /\ pc' = pc /\ step < 7 /\ step' = step + 1 /\ Register(k)
        /\ UNCHANGED <<page, queue, linked>>
    BY <1>0, <1>8 DEF registerNext, native
  <2>2. linked /\ \A i \in 1..step : port[LoginOrder[i]] > 0
    BY <2>1 DEF Started
  <2>3. k \in Kind
    BY <1>0, <2>1
  <2>4. /\ port'[k] = port[k] + 1
        /\ \A j \in Kind : port[j] > 0 => port'[j] > 0
    BY <1>5, <2>1, <2>2, <2>3
  <2>5. \A i \in 1..(step + 1) : port'[LoginOrder[i]] > 0
    <3> SUFFICES ASSUME NEW i \in 1..(step + 1) PROVE port'[LoginOrder[i]] > 0
      OBVIOUS
    <3>1. CASE i = step + 1
      <4>1. port[k] \in Nat /\ LoginOrder[i] = k
        BY <1>0, <2>3, <3>1
      <4> QED
        BY <2>4, <4>1
    <3>2. CASE i # step + 1
      <4>1. i \in 1..step /\ LoginOrder[i] \in Kind
        BY <1>0, <2>1, <3>2
      <4> QED
        BY <2>2, <2>4, <4>1
    <3> QED
      BY <3>1, <3>2
  <2> QED
    BY <2>1, <2>2, <2>4, <2>5 DEF Started
<1>9. CASE dhtclient_login
  <2>1. /\ pc = "native" /\ linked' /\ UNCHANGED <<pc, step, page, port, queue>>
    BY <1>9 DEF dhtclient_login, isolate
  <2> QED
    BY <2>1 DEF Started
<1>10. ASSUME linked, linked' = linked, UNCHANGED <<pc, step, page, port>>
       PROVE  Started'
  BY <1>10 DEF Started
<1>11. ASSUME NEW k \in Raised, raise(k)
       PROVE  Started'
  BY <1>10, <1>11 DEF raise, isolate
<1>12. ASSUME NEW e \in holding, callback(e) \/ Dart_PostCObject_DL(e)
       PROVE  Started'
  BY <1>10, <1>12 DEF callback, Dart_PostCObject_DL, isolate, PortsOpen
<1>13. CASE listener
  <2>1. queue # <<>> /\ UNCHANGED <<pc, step, page, port, linked>>
    BY <1>13 DEF listener, isolate, native
  <2> QED
    BY <1>10, <2>1 DEF Started
<1>14. CASE Kill
  <2>1. pc' = "dead" /\ page' = "none" /\ ~linked' /\ queue' = <<>> /\ port' = [k \in Kind |-> 0]
    BY <1>14 DEF Kill
  <2> QED
    BY <1>0, <2>1 DEF Started
<1>15. CASE UNCHANGED vars
  BY <1>1, <1>15 DEF vars, isolate, native
<1> QED
  BY <1>2, <1>3, <1>4, <1>6, <1>7, <1>8, <1>9, <1>11, <1>12, <1>13, <1>14, <1>15 DEF Next

LEMMA AlwaysStarted == Spec => []Started
<1>1. Init => Started
  <2>1. \A i \in 1..7 : LoginOrder[i] \in Kind
    BY KindsOfLogin
  <2> QED
    BY <2>1, KindsOfLogin DEF Init, Started
<1>2. IInv /\ Started /\ [Next]_vars => Started'
  BY StartedStep DEF IInv
<1> QED
  BY <1>1, <1>2, Invariance, PTL DEF Spec

\* While the home page is shown, every port variable holds a port that listens,
\* so that no event whose callback starts then is lost (dhtclient.dart, login:
\* setMsgSentNotify to setNewPostNotify come before the login returns).
HomeListens == page = "home" => \A k \in Kind : <<k, port[k]>> \in open

\* The home page is never there with a kind of events nobody listens to, however
\* often the user exits and logs in again.
THEOREM HomePageListens == Spec => []HomeListens
<1>1. IInv /\ Started => HomeListens
  <2> SUFFICES ASSUME IInv, Started, page = "home", NEW k \in Kind
               PROVE  <<k, port[k]>> \in open
    BY DEF HomeListens
  <2>1. port[k] > 0 /\ port[k] \in 0..(MaxLogins + 1)
    BY DEF IInv, Started, TypeOK
  <2>2. port[k] \in 1..(MaxLogins + 1) /\ port[k] <= port[k]
    BY <2>1, BridgeAssumption
  <2> QED
    BY <2>2 DEF IInv, PortsOpen
<1> QED
  BY <1>1, Invariance, AlwaysStarted, PTL

\* The listener of the network status uses Global.l10n and Global.settings, which
\* the login page sets (dhtclient.dart, setNetStatusNotify): no status is under
\* way before that page has been there.
StatusFindsPage == NetUnderWay => page # "none"

\* A network status comes to the isolate only after the login page has appeared,
\* although its port is registered before.
THEOREM StatusComesAfterLoginPage == Spec => []StatusFindsPage
<1>1. IInv /\ Started => StatusFindsPage
  <2> SUFFICES ASSUME IInv, Started, NetUnderWay
               PROVE  page # "none"
    BY DEF StatusFindsPage
  <2>1. CASE holding # {}
    BY <2>1 DEF IInv, PortsOpen, Started
  <2>2. CASE queue # <<>>
    BY <2>2 DEF Started
  <2>3. holding # {} \/ queue # <<>>
    BY DEF NetUnderWay
  <2> QED
    BY <2>1, <2>2, <2>3
<1> QED
  BY <1>1, Invariance, AlwaysStarted, PTL
-----------------------------------------------------------------------------
\* The newest network status under way is the one the native client has.
NewestLast ==
  /\ \A e \in holding : e.kind = "net" => e.up = dhtUp
  /\ \A i \in 1..Len(queue) : queue[i].kind = "net" =>
       \/ queue[i].up = dhtUp
       \/ \E e \in holding : e.kind = "net"
       \/ \E j \in 1..Len(queue) : i < j /\ queue[j].kind = "net"

\* A status that is shown and right does not become wrong behind the back of the
\* bridge: whenever it is not right, a newer one is under way.
StatusFollows ==
  [][(NetUnderWay \/ shown = dhtUp) => (NetUnderWay' \/ shown' = dhtUp' \/ pc' = "dead")]_vars

LEMMA StatusStep ==
  ASSUME IInv, NewestLast, [Next]_vars
  PROVE  /\ NewestLast'
         /\ (NetUnderWay \/ shown = dhtUp) => (NetUnderWay' \/ shown' = dhtUp' \/ pc' = "dead")
<1> DEFINE Follows == (NetUnderWay \/ shown = dhtUp) => (NetUnderWay' \/ shown' = dhtUp' \/ pc' = "dead")
<1>0. /\ holding \subseteq Event /\ queue \in Seq(Event)
      /\ \A e \in holding : e.kind = "net" => e.to # 0
      /\ \A e, f \in holding : ThreadOf[e.kind] = ThreadOf[f.kind] => e = f
  BY DEF IInv, TypeOK, PortsOpen, HeldInOrder
<1>1. CASE UNCHANGED <<holding, queue, dhtUp, shown>>
  BY <1>1 DEF NewestLast, NetUnderWay
<1>2. ASSUME NEW k \in Raised, raise(k)
      PROVE  NewestLast' /\ Follows
  <2> DEFINE e == [kind |-> k, no |-> raised[k] + 1, up |-> dhtUp', to |-> NotRead]
  <2>1. /\ holding' = holding \cup {e}
        /\ dhtUp' = IF k = "net" THEN ~dhtUp ELSE dhtUp
        /\ UNCHANGED <<queue, shown>>
        /\ \A f \in holding : ThreadOf[f.kind] # ThreadOf[k]
    BY <1>2 DEF raise
  <2>2. e.kind = k /\ e.up = dhtUp'
    OBVIOUS
  <2> HIDE DEF e
  <2>3. CASE k = "net"
    <3>1. \A f \in holding' : f.kind = "net" => f = e
      BY <2>1, <2>3
    <3>2. NewestLast'
      BY <2>1, <2>2, <2>3, <3>1 DEF NewestLast
    <3>3. NetUnderWay'
      BY <2>1, <2>2, <2>3 DEF NetUnderWay
    <3> QED
      BY <3>2, <3>3
  <2>4. CASE k # "net"
    <3>1. dhtUp' = dhtUp
      BY <2>1, <2>4
    <3>2. NewestLast'
      BY <2>1, <2>2, <2>4, <3>1 DEF NewestLast
    <3>3. NetUnderWay => NetUnderWay'
      BY <2>1 DEF NetUnderWay
    <3> QED
      BY <2>1, <3>1, <3>2, <3>3
  <2> QED
    BY <2>3, <2>4
<1>3. ASSUME NEW e \in holding, callback(e)
      PROVE  NewestLast' /\ Follows
  <2> DEFINE f == [e EXCEPT !.to = port[e.kind]]
  <2>1. holding' = (holding \ {e}) \cup {f} /\ UNCHANGED <<queue, dhtUp, shown>>
    BY <1>3 DEF callback
  <2>2. f.kind = e.kind /\ f.up = e.up
    BY <1>0 DEF Event
  <2> HIDE DEF f
  <2>3. (\E g \in holding' : g.kind = "net") <=> (\E g \in holding : g.kind = "net")
    BY <2>1, <2>2
  <2>4. NewestLast'
    BY <2>1, <2>2, <2>3 DEF NewestLast
  <2> QED
    BY <2>1, <2>3, <2>4 DEF NetUnderWay
<1>4. ASSUME NEW e \in holding, Dart_PostCObject_DL(e)
      PROVE  NewestLast' /\ Follows
  <2>1. /\ holding' = holding \ {e} /\ e.to # NotRead /\ UNCHANGED <<dhtUp, shown>>
        /\ IF <<e.kind, e.to>> \in open THEN queue' = Append(queue, e) ELSE queue' = queue
    BY <1>4 DEF Dart_PostCObject_DL
  <2>2. /\ Len(Append(queue, e)) = Len(queue) + 1 /\ Len(queue) \in Nat
        /\ \A i \in 1..Len(queue) : Append(queue, e)[i] = queue[i]
        /\ Append(queue, e)[Len(queue) + 1] = e
    BY <1>0
  <2>3. CASE e.kind = "net"
    <3>1. e.to \in 1..(MaxLogins + 1)
      BY <1>0, <2>1, <2>3 DEF Event
    <3>2. <<e.kind, e.to>> \in open
      BY <1>0, <3>1 DEF IInv, PortsOpen, Event
    <3>3. queue' = Append(queue, e)
      BY <2>1, <3>2
    <3>4. /\ Len(queue) + 1 \in 1..Len(queue') /\ queue'[Len(queue) + 1] = e
          /\ \A i \in 1..Len(queue') : i = Len(queue) + 1 \/ i < Len(queue) + 1
      BY <2>2, <3>3
    <3>5. e.up = dhtUp'
      BY <2>1, <2>3 DEF NewestLast
    <3>6. NewestLast'
      BY <2>1, <2>3, <3>4, <3>5 DEF NewestLast
    <3>7. NetUnderWay'
      BY <2>3, <3>4 DEF NetUnderWay
    <3> QED
      BY <3>6, <3>7
  <2>4. CASE e.kind # "net"
    <3>1. (\E g \in holding' : g.kind = "net") <=> (\E g \in holding : g.kind = "net")
      BY <2>1, <2>4
    <3>2. CASE queue' = queue
      BY <2>1, <3>1, <3>2 DEF NewestLast, NetUnderWay
    <3>3. CASE queue' = Append(queue, e)
      <4>1. \A i \in 1..Len(queue) : i \in 1..Len(queue') /\ queue'[i] = queue[i]
        BY <2>2, <3>3
      <4>2. \A i \in 1..Len(queue') : queue'[i].kind = "net" => i \in 1..Len(queue)
        BY <2>2, <2>4, <3>3
      <4>3. NewestLast'
        BY <2>1, <3>1, <4>1, <4>2 DEF NewestLast
      <4>4. NetUnderWay => NetUnderWay'
        BY <3>1, <4>1 DEF NetUnderWay
      <4> QED
        BY <2>1, <4>3, <4>4
    <3> QED
      BY <2>1, <3>2, <3>3
  <2> QED
    BY <2>3, <2>4
<1>5. CASE listener
  <2> DEFINE e == Head(queue)
  <2>1. /\ queue # <<>> /\ queue' = Tail(queue)
        /\ shown' = IF e.kind = "net" THEN e.up ELSE shown
        /\ UNCHANGED <<holding, dhtUp>>
    BY <1>5 DEF listener, native
  <2>2. /\ Len(queue) \in Nat \ {0} /\ Len(queue') = Len(queue) - 1
        /\ \A i \in 1..Len(queue') : i + 1 \in 1..Len(queue) /\ queue'[i] = queue[i + 1]
        /\ e = queue[1] /\ 1 \in 1..Len(queue)
    BY <1>0, <2>1
  <2> HIDE DEF e
  <2>3. \A i \in 1..Len(queue) : i = 1 \/ (i - 1 \in 1..Len(queue') /\ queue[i] = queue'[i - 1])
    BY <2>2
  <2>4. NewestLast'
    <3>1. ASSUME NEW i \in 1..Len(queue'), queue'[i].kind = "net"
          PROVE  \/ queue'[i].up = dhtUp
                 \/ \E f \in holding : f.kind = "net"
                 \/ \E j \in 1..Len(queue') : i < j /\ queue'[j].kind = "net"
      <4>1. i + 1 \in 1..Len(queue) /\ queue'[i] = queue[i + 1]
        BY <2>2
      <4>2. \/ queue[i + 1].up = dhtUp
            \/ \E f \in holding : f.kind = "net"
            \/ \E j \in 1..Len(queue) : i + 1 < j /\ queue[j].kind = "net"
        BY <3>1, <4>1 DEF NewestLast
      <4>3. ASSUME NEW j \in 1..Len(queue), i + 1 < j, queue[j].kind = "net"
            PROVE  \E m \in 1..Len(queue') : i < m /\ queue'[m].kind = "net"
        <5>1. j # 1 /\ i < j - 1
          BY <4>3
        <5>2. j - 1 \in 1..Len(queue') /\ queue[j] = queue'[j - 1]
          BY <2>3, <5>1
        <5> QED
          BY <4>3, <5>1, <5>2
      <4> QED
        BY <4>1, <4>2, <4>3
    <3> QED
      BY <2>1, <3>1 DEF NewestLast
  <2>5. Follows
    <3>1. CASE e.kind = "net"
      <4>1. \/ e.up = dhtUp
            \/ \E f \in holding : f.kind = "net"
            \/ \E j \in 1..Len(queue) : 1 < j /\ queue[j].kind = "net"
        BY <2>2, <3>1 DEF NewestLast
      <4>2. ASSUME NEW j \in 1..Len(queue), 1 < j, queue[j].kind = "net"
            PROVE  NetUnderWay'
        <5>1. j # 1
          BY <4>2
        <5>2. j - 1 \in 1..Len(queue') /\ queue'[j - 1].kind = "net"
          BY <2>3, <4>2, <5>1
        <5> QED
          BY <5>2 DEF NetUnderWay
      <4> QED
        BY <2>1, <3>1, <4>1, <4>2 DEF NetUnderWay
    <3>2. CASE e.kind # "net"
      <4>1. ASSUME NetUnderWay PROVE NetUnderWay'
        <5>1. CASE \E f \in holding : f.kind = "net"
          BY <2>1, <5>1 DEF NetUnderWay
        <5>2. ASSUME NEW j \in 1..Len(queue), queue[j].kind = "net"
              PROVE  NetUnderWay'
          <6>1. j # 1
            BY <2>2, <3>2, <5>2
          <6>2. j - 1 \in 1..Len(queue') /\ queue'[j - 1].kind = "net"
            BY <2>3, <5>2, <6>1
          <6> QED
            BY <6>2 DEF NetUnderWay
        <5> QED
          BY <4>1, <5>1, <5>2 DEF NetUnderWay
      <4> QED
        BY <2>1, <3>2, <4>1
    <3> QED
      BY <3>1, <3>2
  <2> QED
    BY <2>4, <2>5
<1>6. CASE Kill
  <2>1. pc' = "dead" /\ holding' = {} /\ queue' = <<>>
    BY <1>6 DEF Kill
  <2> QED
    BY <2>1 DEF NewestLast
<1>7. CASE \/ dhtclient_create \/ initNetStatus \/ runApp \/ formSubmitted \/ loginNetStatus
           \/ dhtclient_login \/ dhtclient_login_fails \/ dhtclient_login_succeeds
           \/ registerNext \/ loginDone \/ logout
  BY <1>1, <1>7 DEF dhtclient_create, initNetStatus, runApp, formSubmitted, loginNetStatus,
       dhtclient_login, dhtclient_login_fails, dhtclient_login_succeeds, registerNext, loginDone,
       logout, native
<1>8. CASE UNCHANGED vars
  BY <1>1, <1>8 DEF vars, native
<1> QED
  BY <1>2, <1>3, <1>4, <1>5, <1>6, <1>7, <1>8 DEF Next

\* The status shown, once right, is wrong only while a newer status is under way,
\* or after the process has been killed.
THEOREM StatusNeverLeftBehind == Spec => StatusFollows
<1> DEFINE Follows == (NetUnderWay \/ shown = dhtUp) => (NetUnderWay' \/ shown' = dhtUp' \/ pc' = "dead")
<1>1. Init => NewestLast
  BY DEF Init, NewestLast
<1>2. IInv /\ NewestLast /\ [Next]_vars => NewestLast' /\ Follows
  BY StatusStep
<1>3. IInv /\ NewestLast /\ [Next]_vars => [Follows]_vars
  BY <1>2
<1> QED
  BY <1>1, <1>2, <1>3, Invariance, PTL DEF Spec, StatusFollows
-----------------------------------------------------------------------------
\* The last event of kind k that its thread has posted, or tried to, and those
\* that are in the queue.
Posted(k) == IF \E e \in holding : e.kind = k THEN raised[k] - 1 ELSE raised[k]
InQueue(k) == {queue[i].no : i \in {j \in 1..Len(queue) : queue[j].kind = k}}

\* The queue holds of each kind consecutive events, up to the last one posted.
NoGap ==
  /\ \A i \in 1..Len(queue) : port[queue[i].kind] > 0
  /\ \A e \in holding : e.to = 0 => InQueue(e.kind) = {}
  /\ \A k \in Kind : \E a \in 1..(Posted(k) + 1) : InQueue(k) = a..Posted(k)

LEMMA PostedType ==
  ASSUME IInv, NEW k \in Kind
  PROVE  /\ Posted(k) \in Nat /\ raised[k] \in Nat
         /\ \A n \in InQueue(k) : n \in Nat
<1>1. raised[k] \in Nat
  BY BridgeAssumption DEF IInv, TypeOK
<1>2. ASSUME NEW e \in holding, e.kind = k PROVE raised[k] >= 1
  <2>1. e \in Event /\ e.no = raised[k]
    BY <1>2 DEF IInv, TypeOK, HeldInOrder
  <2>2. e.no \in 1..MaxRaise
    BY <2>1 DEF Event
  <2> QED
    BY <2>1, <2>2, BridgeAssumption
<1>3. Posted(k) \in Nat
  BY <1>1, <1>2 DEF Posted
<1>4. ASSUME NEW i \in 1..Len(queue) PROVE queue[i].no \in Nat
  <2>1. queue[i] \in Event
    BY DEF IInv, TypeOK
  <2>2. queue[i].no \in 1..MaxRaise
    BY <2>1 DEF Event
  <2> QED
    BY <2>2, BridgeAssumption
<1> QED
  BY <1>1, <1>3, <1>4 DEF InQueue

\* What the steps of the threads and the listener do to them.
LEMMA RaiseEffect ==
  ASSUME IInv, NEW k \in Kind, raise(k)
  PROVE  \A j \in Kind : Posted(j)' = Posted(j) /\ InQueue(j)' = InQueue(j)
<1> DEFINE e == [kind |-> k, no |-> raised[k] + 1, up |-> dhtUp', to |-> NotRead]
<1>1. /\ holding' = holding \cup {e}
      /\ raised' = [raised EXCEPT ![k] = @ + 1]
      /\ queue' = queue
      /\ \A f \in holding : ThreadOf[f.kind] # ThreadOf[k]
  BY DEF raise
<1>2. e.kind = k
  OBVIOUS
<1> HIDE DEF e
<1>3. raised \in [Kind -> Nat]
  BY BridgeAssumption DEF IInv, TypeOK
<1> SUFFICES ASSUME NEW j \in Kind
             PROVE  Posted(j)' = Posted(j) /\ InQueue(j)' = InQueue(j)
  OBVIOUS
<1>4. CASE j = k
  <2>1. ~\E f \in holding : f.kind = k
    BY <1>1
  <2>2. \E f \in holding' : f.kind = k
    BY <1>1, <1>2
  <2>3. Posted(k) = raised[k] /\ Posted(k)' = raised'[k] - 1
    BY <2>1, <2>2 DEF Posted
  <2>4. raised'[k] = raised[k] + 1 /\ raised[k] \in Nat
    BY <1>1, <1>3
  <2> QED
    BY <1>1, <1>4, <2>3, <2>4 DEF InQueue
<1>5. CASE j # k
  <2>1. (\E f \in holding' : f.kind = j) <=> (\E f \in holding : f.kind = j)
    BY <1>1, <1>2, <1>5
  <2>2. raised'[j] = raised[j]
    BY <1>1, <1>3, <1>5
  <2> QED
    BY <1>1, <2>1, <2>2 DEF Posted, InQueue
<1> QED
  BY <1>4, <1>5

LEMMA CallbackEffect ==
  ASSUME IInv, NEW e \in holding, callback(e)
  PROVE  \A j \in Kind : Posted(j)' = Posted(j) /\ InQueue(j)' = InQueue(j)
<1> DEFINE f == [e EXCEPT !.to = port[e.kind]]
<1>1. /\ holding' = (holding \ {e}) \cup {f}
      /\ UNCHANGED <<raised, queue>>
  BY DEF callback
<1>2. f.kind = e.kind
  BY DEF IInv, TypeOK, Event
<1> HIDE DEF f
<1>3. \A j \in Kind : (\E g \in holding' : g.kind = j) <=> (\E g \in holding : g.kind = j)
  BY <1>1, <1>2
<1> QED
  BY <1>1, <1>3 DEF Posted, InQueue

LEMMA PostEffect ==
  ASSUME IInv, NEW e \in holding, Dart_PostCObject_DL(e)
  PROVE  /\ \A j \in Kind : j # e.kind => Posted(j)' = Posted(j) /\ InQueue(j)' = InQueue(j)
         /\ Posted(e.kind) = e.no - 1 /\ Posted(e.kind)' = e.no
         /\ \/ e.to > 0 /\ port[e.kind] > 0 /\ InQueue(e.kind)' = InQueue(e.kind) \cup {e.no}
                        /\ queue' = Append(queue, e)
            \/ e.to = 0 /\ queue' = queue /\ InQueue(e.kind)' = InQueue(e.kind)
<1>1. /\ e.to # NotRead /\ holding' = holding \ {e} /\ raised' = raised
      /\ IF <<e.kind, e.to>> \in open THEN queue' = Append(queue, e) ELSE queue' = queue
  BY DEF Dart_PostCObject_DL
<1>2. /\ e \in Event /\ queue \in Seq(Event) /\ port \in [Kind -> 0..(MaxLogins + 1)]
      /\ open \subseteq Kind \X (1..(MaxLogins + 1))
      /\ e.no = raised[e.kind] /\ raised[e.kind] \in Nat
      /\ \A g \in holding : g.kind = e.kind => g = e
  <2>1. e \in Event
    BY DEF IInv, TypeOK
  <2>2. e.kind \in Kind
    BY <2>1 DEF Event
  <2>3. raised[e.kind] \in Nat
    BY <2>2, PostedType
  <2> QED
    BY <2>1, <2>2, <2>3 DEF IInv, TypeOK, HeldInOrder
<1>3. e.kind \in Kind /\ e.to \in 0..(MaxLogins + 1)
  BY <1>1, <1>2 DEF Event
<1>4. ~\E g \in holding' : g.kind = e.kind
  BY <1>1, <1>2
<1>5. Posted(e.kind) = e.no - 1 /\ Posted(e.kind)' = e.no
  BY <1>1, <1>2, <1>4 DEF Posted
<1>6. \A j \in Kind : j # e.kind => Posted(j)' = Posted(j)
  <2> SUFFICES ASSUME NEW j \in Kind, j # e.kind PROVE Posted(j)' = Posted(j)
    OBVIOUS
  <2>1. (\E g \in holding' : g.kind = j) <=> (\E g \in holding : g.kind = j)
    BY <1>1
  <2> QED
    BY <1>1, <2>1 DEF Posted
<1>7. CASE e.to > 0
  <2>1. e.to \in 1..(MaxLogins + 1)
    BY <1>3, <1>7, BridgeAssumption
  <2>2. e.to <= port[e.kind]
    BY DEF IInv, PortsOpen
  <2>3. <<e.kind, e.to>> \in open
    BY <1>3, <2>1, <2>2 DEF IInv, PortsOpen
  <2>4. port[e.kind] > 0
    BY <1>2, <1>3, <2>1, <2>2, BridgeAssumption
  <2>5. queue' = Append(queue, e)
    BY <1>1, <2>3
  <2>6. /\ Len(queue') = Len(queue) + 1 /\ Len(queue) \in Nat
        /\ \A i \in 1..Len(queue) : queue'[i] = queue[i]
        /\ queue'[Len(queue) + 1] = e
    BY <1>2, <2>5
  <2>7. \A i \in 1..Len(queue') : i \in 1..Len(queue) \/ i = Len(queue) + 1
    BY <2>6
  <2>8. \A j \in Kind : InQueue(j)' = InQueue(j) \cup (IF j = e.kind THEN {e.no} ELSE {})
    BY <2>6, <2>7 DEF InQueue
  <2> QED
    BY <1>3, <1>5, <1>6, <1>7, <2>4, <2>5, <2>8
<1>8. CASE ~(e.to > 0)
  <2>1. e.to = 0
    BY <1>3, <1>8, BridgeAssumption
  <2>2. <<e.kind, e.to>> \notin open
    BY <1>2, <2>1
  <2>3. queue' = queue
    BY <1>1, <2>2
  <2>4. \A j \in Kind : InQueue(j)' = InQueue(j)
    BY <2>3 DEF InQueue
  <2> QED
    BY <1>3, <1>5, <1>6, <2>1, <2>3, <2>4
<1> QED
  BY <1>7, <1>8

LEMMA ListenerEffect ==
  ASSUME IInv, NoGap, listener, NEW k, NEW n, k = Head(queue).kind, n = Head(queue).no
  PROVE  /\ \A j \in Kind : Posted(j)' = Posted(j)
         /\ \A j \in Kind : j # k => InQueue(j)' = InQueue(j)
         /\ k \in Kind /\ n \in 1..Posted(k)
         /\ InQueue(k) = n..Posted(k) /\ InQueue(k)' = (n + 1)..Posted(k)
         /\ \A i \in 1..Len(queue') : i + 1 \in 1..Len(queue) /\ queue'[i] = queue[i + 1]
<1>1. /\ queue # <<>> /\ queue' = Tail(queue)
      /\ UNCHANGED <<holding, raised>>
  BY DEF listener, native
<1>2. queue \in Seq(Event) /\ Head(queue) \in Event
  BY <1>1 DEF IInv, TypeOK
<1>3. k \in Kind
  BY <1>2 DEF Event
<1>4. /\ Head(queue) = queue[1] /\ 1 \in 1..Len(queue) /\ Len(queue') = Len(queue) - 1 /\ Len(queue) \in Nat
      /\ \A i \in 1..Len(queue') : queue'[i] = queue[i + 1]
  BY <1>1, <1>2
<1>5. \A i \in 1..Len(queue) : i = 1 \/ (i - 1 \in 1..Len(queue') /\ queue[i] = queue'[i - 1])
  BY <1>4
<1>6. \A i \in 1..Len(queue') : i + 1 \in 1..Len(queue) /\ 1 < i + 1
  BY <1>4
<1>7. \A j \in Kind : InQueue(j) = InQueue(j)' \cup (IF j = k THEN {n} ELSE {})
  BY <1>4, <1>5, <1>6 DEF InQueue
<1>8. \A m \in InQueue(k)' : n < m
  <2>1. ASSUME NEW i \in 1..Len(queue'), queue'[i].kind = k
        PROVE  n < queue'[i].no
    BY <1>4, <1>6, <2>1 DEF IInv, QueueInOrder
  <2> QED
    BY <2>1 DEF InQueue
<1>9. Posted(k) \in Nat /\ \A m \in InQueue(k) : m \in Nat
  BY <1>3, PostedType
<1>10. PICK a \in 1..(Posted(k) + 1) : InQueue(k) = a..Posted(k)
  BY <1>3 DEF NoGap
<1>11. InQueue(k) = InQueue(k)' \cup {n}
  BY <1>3, <1>7
<1>12. n \in a..Posted(k)
  BY <1>10, <1>11
<1>13. a \in InQueue(k)
  BY <1>9, <1>10, <1>12
<1>14. n = a
  BY <1>8, <1>9, <1>10, <1>11, <1>12, <1>13
<1>15. InQueue(k)' = (a + 1)..Posted(k)
  <2>1. \A m \in InQueue(k)' : m \in (a + 1)..Posted(k)
    BY <1>8, <1>9, <1>10, <1>11, <1>14
  <2>2. \A m \in (a + 1)..Posted(k) : m \in InQueue(k)'
    BY <1>9, <1>10, <1>11, <1>14
  <2> QED
    BY <2>1, <2>2
<1>16. n \in 1..Posted(k)
  BY <1>9, <1>10, <1>12
<1>17. \A j \in Kind : Posted(j)' = Posted(j)
  BY <1>1 DEF Posted
<1> QED
  BY <1>3, <1>4, <1>6, <1>7, <1>10, <1>14, <1>15, <1>16, <1>17

LEMMA NoGapStep ==
  ASSUME IInv, NoGap, [Next]_vars
  PROVE  NoGap'
<1>0. /\ holding \subseteq Event /\ queue \in Seq(Event) /\ port \in [Kind -> Nat]
      /\ \A e \in Event : e.kind \in Kind
  BY BridgeAssumption DEF IInv, TypeOK, Event
<1>1. \A i \in 1..Len(queue) : queue[i] \in Event /\ queue[i].kind \in Kind
  <2>1. \A i \in 1..Len(queue) : queue[i] \in Event
    BY <1>0
  <2> QED
    BY <1>0, <2>1
<1>2. \A k \in Kind : InQueue(k) # {} => port[k] > 0
  BY DEF NoGap, InQueue
<1>3. ASSUME UNCHANGED <<holding, queue, raised>>,
             \A k \in Kind : port[k] > 0 => port'[k] > 0
      PROVE  NoGap'
  <2>1. \A k \in Kind : Posted(k)' = Posted(k) /\ InQueue(k)' = InQueue(k)
    BY <1>3 DEF Posted, InQueue
  <2>2. \A e \in holding : e.kind \in Kind
    BY <1>0
  <2> QED
    BY <1>1, <1>3, <2>1, <2>2 DEF NoGap
<1>4. CASE initNetStatus \/ loginNetStatus \/ registerNext
  <2>1. PICK k \in Kind : Register(k) /\ port[k] <= MaxLogins
    BY <1>4, RegisteringStep DEF IInv
  <2>2. UNCHANGED <<holding, queue, raised>>
    BY <1>4, RegisteringStep DEF IInv, native
  <2>3. \A j \in Kind : port'[j] = IF j = k THEN port[k] + 1 ELSE port[j]
    BY <1>0, <2>1 DEF Register
  <2>4. \A j \in Kind : port[j] > 0 => port'[j] > 0
    BY <1>0, <2>3
  <2> QED
    BY <1>3, <2>2, <2>4
<1>5. ASSUME NEW k \in Raised, raise(k)
      PROVE  NoGap'
  <2> DEFINE e == [kind |-> k, no |-> raised[k] + 1, up |-> dhtUp', to |-> NotRead]
  <2>1. k \in Kind
    BY BridgeAssumption
  <2>2. \A j \in Kind : Posted(j)' = Posted(j) /\ InQueue(j)' = InQueue(j)
    BY <1>5, <2>1, RaiseEffect
  <2>3. UNCHANGED <<port, queue>> /\ holding' = holding \cup {e}
    BY <1>5 DEF raise
  <2>4. e.to # 0
    BY DEF NotRead
  <2> HIDE DEF e
  <2>5. \A f \in holding' : f.to = 0 => f \in holding /\ f.kind \in Kind
    BY <1>0, <2>3, <2>4
  <2> QED
    BY <2>2, <2>3, <2>5 DEF NoGap
<1>6. ASSUME NEW e \in holding, callback(e)
      PROVE  NoGap'
  <2> DEFINE f == [e EXCEPT !.to = port[e.kind]]
  <2>1. \A j \in Kind : Posted(j)' = Posted(j) /\ InQueue(j)' = InQueue(j)
    BY <1>6, CallbackEffect
  <2>2. UNCHANGED <<port, queue>> /\ holding' = (holding \ {e}) \cup {f}
    BY <1>6 DEF callback
  <2>3. f.kind = e.kind /\ f.to = port[e.kind] /\ e.kind \in Kind
    BY <1>0 DEF Event
  <2> HIDE DEF f
  <2>4. ASSUME NEW g \in holding', g.to = 0 PROVE InQueue(g.kind)' = {}
    <3>1. CASE g = f
      BY <1>0, <1>2, <2>1, <2>3, <2>4, <3>1
    <3>2. CASE g \in holding
      BY <1>0, <2>1, <2>4, <3>2 DEF NoGap
    <3> QED
      BY <2>2, <3>1, <3>2
  <2> QED
    BY <2>1, <2>2, <2>4 DEF NoGap
<1>7. ASSUME NEW e \in holding, Dart_PostCObject_DL(e)
      PROVE  NoGap'
  <2>1. /\ \A j \in Kind : j # e.kind => Posted(j)' = Posted(j) /\ InQueue(j)' = InQueue(j)
        /\ Posted(e.kind) = e.no - 1 /\ Posted(e.kind)' = e.no
        /\ \/ e.to > 0 /\ port[e.kind] > 0 /\ InQueue(e.kind)' = InQueue(e.kind) \cup {e.no}
                       /\ queue' = Append(queue, e)
           \/ e.to = 0 /\ queue' = queue /\ InQueue(e.kind)' = InQueue(e.kind)
    BY <1>7, PostEffect
  <2>2. port' = port /\ holding' = holding \ {e}
    BY <1>7 DEF Dart_PostCObject_DL
  <2>3. e.kind \in Kind /\ Posted(e.kind) \in Nat /\ e.no \in Int
    <3>1. e.kind \in Kind
      BY <1>0
    <3>2. e.no \in 1..MaxRaise
      BY <1>0 DEF Event
    <3> QED
      BY <3>1, <3>2, PostedType
  <2>4. \A i \in 1..Len(queue') : port[queue'[i].kind] > 0
    <3>1. CASE queue' = queue
      BY <3>1 DEF NoGap
    <3>2. CASE queue' = Append(queue, e) /\ port[e.kind] > 0
      <4>1. \A i \in 1..Len(queue') : queue'[i] = e \/ (i \in 1..Len(queue) /\ queue'[i] = queue[i])
        BY <1>0, <3>2
      <4> QED
        BY <3>2, <4>1 DEF NoGap
    <3> QED
      BY <2>1, <3>1, <3>2
  <2>5. \A f \in holding' : f.to = 0 => InQueue(f.kind)' = {}
    <3>1. \A f \in holding' : f.kind # e.kind
      BY <2>2 DEF IInv, HeldInOrder
    <3> QED
      BY <1>0, <2>1, <2>2, <3>1 DEF NoGap
  <2>6. PICK a \in 1..(Posted(e.kind) + 1) : InQueue(e.kind) = a..Posted(e.kind)
    BY <2>3 DEF NoGap
  <2>7. \E b \in 1..(Posted(e.kind)' + 1) : InQueue(e.kind)' = b..Posted(e.kind)'
    <3>1. CASE InQueue(e.kind)' = InQueue(e.kind) \cup {e.no}
      <4>1. a \in 1..(e.no + 1) /\ a..(e.no - 1) \cup {e.no} = a..e.no
        BY <2>1, <2>3, <2>6
      <4>2. InQueue(e.kind)' = a..Posted(e.kind)'
        BY <2>1, <2>6, <3>1, <4>1
      <4> QED
        BY <2>1, <4>1, <4>2
    <3>2. CASE e.to = 0 /\ InQueue(e.kind)' = InQueue(e.kind)
      <4>1. InQueue(e.kind)' = {}
        BY <3>2 DEF NoGap
      <4>2. e.no + 1 \in 1..(e.no + 1) /\ (e.no + 1)..e.no = {}
        BY <2>1, <2>3
      <4> QED
        BY <2>1, <4>1, <4>2
    <3> QED
      BY <2>1, <3>1, <3>2
  <2>8. \A k \in Kind : \E b \in 1..(Posted(k)' + 1) : InQueue(k)' = b..Posted(k)'
    <3> SUFFICES ASSUME NEW k \in Kind
                 PROVE  \E b \in 1..(Posted(k)' + 1) : InQueue(k)' = b..Posted(k)'
      OBVIOUS
    <3>1. CASE k = e.kind
      BY <2>7, <3>1
    <3>2. CASE k # e.kind
      <4>1. Posted(k)' = Posted(k) /\ InQueue(k)' = InQueue(k)
        BY <2>1, <3>2
      <4> QED
        BY <4>1 DEF NoGap
    <3> QED
      BY <3>1, <3>2
  <2> QED
    BY <2>2, <2>4, <2>5, <2>8 DEF NoGap
<1>8. CASE listener
  <2> DEFINE k == Head(queue).kind
             n == Head(queue).no
  <2>0. PICK K, N : K = k /\ N = n
    OBVIOUS
  <2>1. /\ \A j \in Kind : Posted(j)' = Posted(j)
        /\ \A j \in Kind : j # K => InQueue(j)' = InQueue(j)
        /\ K \in Kind /\ N \in 1..Posted(K)
        /\ InQueue(K) = N..Posted(K) /\ InQueue(K)' = (N + 1)..Posted(K)
        /\ \A i \in 1..Len(queue') : i + 1 \in 1..Len(queue) /\ queue'[i] = queue[i + 1]
    BY <1>8, <2>0, ListenerEffect
  <2> HIDE DEF k, n
  <2>2. UNCHANGED <<port, holding>>
    BY <1>8 DEF listener, native
  <2>3. \A i \in 1..Len(queue') : port[queue'[i].kind] > 0
    BY <2>1 DEF NoGap
  <2>4. Posted(K) \in Nat
    BY <2>1, PostedType
  <2>5. \A f \in holding : f.to = 0 => InQueue(f.kind)' = {}
    <3> SUFFICES ASSUME NEW f \in holding, f.to = 0 PROVE InQueue(f.kind)' = {}
      OBVIOUS
    <3>1. InQueue(f.kind) = {} /\ f.kind \in Kind
      BY <1>0 DEF NoGap
    <3>2. N \in InQueue(K)
      BY <2>1, <2>4
    <3>3. f.kind # K
      BY <3>1, <3>2
    <3> QED
      BY <2>1, <3>1, <3>3
  <2>6. \A j \in Kind : \E b \in 1..(Posted(j)' + 1) : InQueue(j)' = b..Posted(j)'
    <3> SUFFICES ASSUME NEW j \in Kind
                 PROVE  \E b \in 1..(Posted(j)' + 1) : InQueue(j)' = b..Posted(j)'
      OBVIOUS
    <3>1. CASE j = K
      <4>1. N + 1 \in 1..(Posted(K) + 1)
        BY <2>1, <2>4
      <4> QED
        BY <2>1, <3>1, <4>1
    <3>2. CASE j # K
      BY <2>1, <3>2 DEF NoGap
    <3> QED
      BY <3>1, <3>2
  <2> QED
    BY <2>2, <2>3, <2>5, <2>6 DEF NoGap
<1>9. CASE Kill
  <2>1. holding' = {} /\ queue' = <<>> /\ raised' = raised
    BY <1>9 DEF Kill
  <2>2. \A k \in Kind : InQueue(k)' = {} /\ Posted(k)' = raised[k] /\ raised[k] \in Nat
    BY <2>1, PostedType DEF InQueue, Posted
  <2>3. \A k \in Kind : raised[k] + 1 \in 1..(Posted(k)' + 1) /\ InQueue(k)' = (raised[k] + 1)..Posted(k)'
    BY <2>2
  <2> QED
    BY <2>1, <2>3 DEF NoGap
<1>10. CASE \/ dhtclient_create \/ runApp \/ formSubmitted \/ dhtclient_login
            \/ dhtclient_login_fails \/ dhtclient_login_succeeds \/ loginDone \/ logout
  BY <1>3, <1>10 DEF dhtclient_create, runApp, formSubmitted, dhtclient_login,
       dhtclient_login_fails, dhtclient_login_succeeds, loginDone, logout, native
<1>11. CASE UNCHANGED vars
  BY <1>3, <1>11 DEF vars, native
<1> QED
  BY <1>4, <1>5, <1>6, <1>7, <1>8, <1>9, <1>10, <1>11 DEF Next

\* What waits in the queue of a kind are consecutive events up to the last one
\* that was posted: nothing between two queued events was lost.
THEOREM QueueHasNoGaps == Spec => []NoGap
<1>1. Init => NoGap
  <2> SUFFICES ASSUME Init PROVE NoGap
    OBVIOUS
  <2>1. holding = {} /\ queue = <<>> /\ \A k \in Kind : raised[k] = 0
    BY DEF Init
  <2>2. \A k \in Kind : InQueue(k) = {} /\ Posted(k) = 0
    BY <2>1 DEF InQueue, Posted
  <2>3. 1 \in 1..(0 + 1) /\ 1..0 = {}
    OBVIOUS
  <2>4. \A k \in Kind : \E a \in 1..(Posted(k) + 1) : InQueue(k) = a..Posted(k)
    BY <2>2, <2>3
  <2> QED
    BY <2>1, <2>4 DEF NoGap
<1>2. IInv /\ NoGap /\ [Next]_vars => NoGap'
  BY NoGapStep
<1> QED
  BY <1>1, <1>2, Invariance, PTL DEF Spec
-----------------------------------------------------------------------------
\* MessageFlow, without its pages, is what the bridge does to received messages.
\* Its session is how far the login has come, its rows are the messages that have
\* been received, its threads hold what they will post, and its queue is what
\* the queue of the isolate holds of them.  A message that a callback finds no
\* port for is in no hand from then on.
RowNo(n) == [pk |-> n, rand |-> -n, cid |-> "c"]

SessionNow  == IF ~linked THEN "down" ELSE IF port["recv_msg"] = 0 THEN "native" ELSE "home"
ReceivedNow == {-n : n \in 1..raised["recv_msg"]}
RowsNow     == {RowNo(n) : n \in 1..raised["recv_msg"]}
InHandNow   == {RowNo(e.no) : e \in {f \in holding : f.kind = "recv_msg" /\ f.to # 0}}

First(k)  == CHOOSE a \in 1..(Posted(k) + 1) : InQueue(k) = a..Posted(k)
Rows(a, n) == [i \in 1..(n - a + 1) |-> RowNo(a + i - 1)]
QueueNow   == Rows(First("recv_msg"), Posted("recv_msg"))

Flow == INSTANCE MessageFlow WITH
  Cid <- {"c"}, Msg <- {-n : n \in 1..MaxRaise}, Own <- {}, Quiet <- {},
  MaxDepth <- 1, Receivers <- 1, NoCid <- "none",
  session <- SessionNow, received <- ReceivedNow, sent <- {},
  rows <- RowsNow, nextPk <- raised["recv_msg"] + 1, unread <- 1..raised["recv_msg"],
  inHand <- InHandNow, queue <- QueueNow, checking <- {}, opening <- "none", depth <- 0,
  pages <- [i \in 1..1 |-> [cid |-> "none", list |-> {}, next |-> 0]]

\* MessageFlow asks of its constants what these are.
LEMMA FlowConstants ==
  LET Msg == {-n : n \in 1..MaxRaise}
  IN /\ Msg \cap {} = {}
     /\ (Msg \cup {}) \cap Nat = {}
     /\ {} \subseteq Msg
     /\ 1 \in Nat \ {0} /\ "none" \notin {"c"}
  BY BridgeAssumption

LEMMA FirstIs ==
  ASSUME NEW p \in Nat, NEW a \in 1..(p + 1), NEW S, S = a..p
  PROVE  (CHOOSE b \in 1..(p + 1) : S = b..p) = a
<1>1. ASSUME NEW b \in 1..(p + 1), S = b..p
      PROVE  b = a
  <2>1. b..p = a..p
    BY <1>1
  <2>2. CASE a <= p
    <3>1. a \in b..p
      BY <2>1, <2>2
    <3>2. b \in a..p
      BY <2>1, <3>1
    <3> QED
      BY <3>1, <3>2
  <2>3. CASE b <= p
    <3>1. b \in a..p
      BY <2>1, <2>3
    <3>2. a \in b..p
      BY <2>1, <3>1
    <3> QED
      BY <3>1, <3>2
  <2>4. CASE ~(a <= p) /\ ~(b <= p)
    BY <2>4
  <2> QED
    BY <2>2, <2>3, <2>4
<1> QED
  BY <1>1

\* The queue of MessageFlow, if that of the isolate holds the messages a to p.
LEMMA QueueIs ==
  ASSUME NEW a \in 1..(Posted("recv_msg") + 1), Posted("recv_msg") \in Nat,
         InQueue("recv_msg") = a..Posted("recv_msg")
  PROVE  QueueNow = Rows(a, Posted("recv_msg"))
<1>1. First("recv_msg") = a
  BY FirstIs DEF First
<1> QED
  BY <1>1 DEF QueueNow

LEMMA QueueIsNext ==
  ASSUME NEW p \in Nat, NEW a \in 1..(p + 1), Posted("recv_msg")' = p,
         InQueue("recv_msg")' = a..p
  PROVE  QueueNow' = Rows(a, p)
<1>1. First("recv_msg")' = a
  BY FirstIs DEF First
<1> QED
  BY <1>1 DEF QueueNow

LEMMA RowsAre ==
  ASSUME NEW n \in Nat, NEW a \in 1..(n + 1)
  PROVE  /\ Rows(a, n) \in Seq({RowNo(i) : i \in Nat}) /\ Len(Rows(a, n)) = n - a + 1
         /\ \A i \in 1..(n - a + 1) : Rows(a, n)[i] = RowNo(a + i - 1)
<1>1. n - a + 1 \in Nat
  OBVIOUS
<1>2. \A i \in 1..(n - a + 1) : a + i - 1 \in Nat
  OBVIOUS
<1>3. \A i \in 1..(n - a + 1) : RowNo(a + i - 1) \in {RowNo(j) : j \in Nat}
  BY <1>2
<1> QED
  BY <1>1, <1>3 DEF Rows

LEMMA NoRows ==
  ASSUME NEW n \in Nat
  PROVE  Rows(n + 1, n) = <<>>
<1>1. n + 1 \in 1..(n + 1) /\ n - (n + 1) + 1 = 0
  OBVIOUS
<1> DEFINE q == Rows(n + 1, n)
<1>2. q \in Seq({RowNo(i) : i \in Nat}) /\ Len(q) = n - (n + 1) + 1
  BY <1>1, RowsAre
<1> HIDE DEF q
<1>3. Len(q) = 0
  BY <1>1, <1>2
<1>4. q = <<>>
  BY <1>2, <1>3, EmptySeq
<1> QED
  BY <1>4 DEF q

LEMMA AppendRow ==
  ASSUME NEW n \in Nat \ {0}, NEW a \in 1..n
  PROVE  Append(Rows(a, n - 1), RowNo(n)) = Rows(a, n)
<1> DEFINE S == {RowNo(i) : i \in Nat}
           q == Rows(a, n - 1)
           r == Append(q, RowNo(n))
<1>1. q \in Seq(S) /\ Len(q) = n - a /\ \A i \in 1..(n - a) : q[i] = RowNo(a + i - 1)
  <2>1. n - 1 \in Nat /\ a \in 1..(n - 1 + 1) /\ n - 1 - a + 1 = n - a
    OBVIOUS
  <2> QED
    BY <2>1, RowsAre
<1>2. /\ Rows(a, n) \in Seq(S) /\ Len(Rows(a, n)) = n - a + 1
      /\ \A i \in 1..(n - a + 1) : Rows(a, n)[i] = RowNo(a + i - 1)
  <2>1. n \in Nat /\ a \in 1..(n + 1)
    OBVIOUS
  <2> QED
    BY <2>1, RowsAre
<1>3. RowNo(n) \in S
  OBVIOUS
<1> HIDE DEF S, q
<1>4. /\ r \in Seq(S) /\ Len(r) = n - a + 1
      /\ \A i \in 1..(n - a) : r[i] = q[i]
      /\ r[n - a + 1] = RowNo(n)
  BY <1>1, <1>3, AppendProperties
<1>5. \A i \in 1..(n - a + 1) : i \in 1..(n - a) \/ (i = n - a + 1 /\ a + i - 1 = n)
  OBVIOUS
<1>6. \A i \in 1..(n - a + 1) : r[i] = Rows(a, n)[i]
  BY <1>1, <1>2, <1>4, <1>5
<1> HIDE DEF r
<1>7. r = Rows(a, n)
  BY <1>2, <1>4, <1>6, SeqEqual
<1> QED
  BY <1>7 DEF r, q

LEMMA TailRows ==
  ASSUME NEW n \in Nat, NEW a \in 1..n
  PROVE  Rows(a, n) # <<>> /\ Head(Rows(a, n)) = RowNo(a) /\ Tail(Rows(a, n)) = Rows(a + 1, n)
<1> DEFINE S == {RowNo(i) : i \in Nat}
           q == Rows(a, n)
           r == Rows(a + 1, n)
<1>1. q \in Seq(S) /\ Len(q) = n - a + 1 /\ \A i \in 1..(n - a + 1) : q[i] = RowNo(a + i - 1)
  <2>1. a \in 1..(n + 1)
    OBVIOUS
  <2> QED
    BY <2>1, RowsAre
<1>2. r \in Seq(S) /\ Len(r) = n - a /\ \A i \in 1..(n - a) : r[i] = RowNo(a + 1 + i - 1)
  <2>1. a + 1 \in 1..(n + 1) /\ n - (a + 1) + 1 = n - a
    OBVIOUS
  <2> QED
    BY <2>1, RowsAre
<1> HIDE DEF S, q, r
<1>3. q # <<>> /\ Head(q) = q[1] /\ Tail(q) \in Seq(S) /\ Len(Tail(q)) = n - a
      /\ \A i \in 1..(n - a) : Tail(q)[i] = q[i + 1]
  BY <1>1
<1>4. q[1] = RowNo(a)
  <2>1. 1 \in 1..(n - a + 1) /\ a + 1 - 1 = a
    OBVIOUS
  <2> QED
    BY <1>1, <2>1
<1>5. \A i \in 1..(n - a) : Tail(q)[i] = r[i]
  <2>1. \A i \in 1..(n - a) : i + 1 \in 1..(n - a + 1) /\ a + (i + 1) - 1 = a + 1 + i - 1
    OBVIOUS
  <2> QED
    BY <1>1, <1>2, <1>3, <2>1
<1>6. Tail(q) = r
  BY <1>2, <1>3, <1>5, SeqEqual
<1> QED
  BY <1>3, <1>4, <1>6 DEF q, r

\* A step that leaves alone what concerns received messages.
LEMMA FlowUnchanged ==
  ASSUME SessionNow' = SessionNow, raised'["recv_msg"] = raised["recv_msg"],
         InHandNow' = InHandNow,
         Posted("recv_msg")' = Posted("recv_msg"), InQueue("recv_msg")' = InQueue("recv_msg")
  PROVE  UNCHANGED Flow!vars
<1>1. First("recv_msg")' = First("recv_msg")
  BY DEF First
<1>2. QueueNow' = QueueNow
  BY <1>1 DEF QueueNow
<1>3. ReceivedNow' = ReceivedNow /\ RowsNow' = RowsNow
  BY DEF ReceivedNow, RowsNow
<1> QED
  BY <1>2, <1>3 DEF Flow!vars

LEMMA RecvKind == "recv_msg" \in Kind /\ "recv_msg" # "net" /\ LoginOrder[3] = "recv_msg"
<1>1. LoginOrder[3] = "recv_msg"
  BY DEF LoginOrder
<1> QED
  BY <1>1, KindsOfLogin

\* A received message is saved when a thread has it ...
LEMMA RaiseIsSave ==
  ASSUME IInv, raise("recv_msg")
  PROVE  Flow!Next
<1> DEFINE n == raised["recv_msg"]
           e == [kind |-> "recv_msg", no |-> n + 1, up |-> dhtUp', to |-> NotRead]
<1>1. /\ linked /\ UNCHANGED <<linked, port>>
      /\ \A f \in holding : ThreadOf[f.kind] # ThreadOf["recv_msg"]
      /\ n < MaxRaise /\ raised' = [raised EXCEPT !["recv_msg"] = @ + 1]
      /\ holding' = holding \cup {e}
  BY DEF raise
<1>2. e.kind = "recv_msg" /\ e.no = n + 1 /\ e.to # 0
  BY DEF NotRead
<1> HIDE DEF e
<1>3. "recv_msg" \in Kind /\ n \in Nat /\ raised'["recv_msg"] = n + 1
  <2>1. "recv_msg" \in Kind /\ n \in Nat
    BY RecvKind, PostedType
  <2>2. raised \in [Kind -> 0..MaxRaise]
    BY DEF IInv, TypeOK
  <2> QED
    BY <1>1, <2>1, <2>2
<1>4. InHandNow = {} /\ InHandNow' = {RowNo(n + 1)}
  <2>1. \A f \in holding : f.kind # "recv_msg"
    BY <1>1
  <2>2. {f \in holding' : f.kind = "recv_msg" /\ f.to # 0} = {e}
    BY <1>1, <1>2, <2>1
  <2> QED
    BY <1>2, <2>1, <2>2 DEF InHandNow
<1>5. QueueNow' = QueueNow
  <2>1. Posted("recv_msg")' = Posted("recv_msg") /\ InQueue("recv_msg")' = InQueue("recv_msg")
    BY <1>3, RaiseEffect
  <2>2. First("recv_msg")' = First("recv_msg")
    BY <2>1 DEF First
  <2> QED
    BY <2>1, <2>2 DEF QueueNow
<1>6. SessionNow' = SessionNow /\ SessionNow # "down"
  BY <1>1 DEF SessionNow
<1> HIDE DEF n
<1>7. 1..(n + 1) = 1..n \cup {n + 1} /\ n + 1 \in 1..MaxRaise /\ n + 1 \notin 1..n
  BY <1>1, <1>3, BridgeAssumption
<1>8. ReceivedNow' = ReceivedNow \cup {-(n + 1)} /\ -(n + 1) \notin ReceivedNow
  <2>1. ReceivedNow = {-i : i \in 1..n} /\ ReceivedNow' = {-i : i \in 1..(n + 1)}
    BY <1>3 DEF ReceivedNow, n
  <2>2. ReceivedNow' = ReceivedNow \cup {-(n + 1)}
    BY <1>7, <2>1
  <2>3. \A i \in 1..n : -i # -(n + 1)
    BY <1>3
  <2> QED
    BY <2>1, <2>2, <2>3
<1>9. RowsNow' = RowsNow \cup {RowNo(n + 1)}
  <2>1. RowsNow = {RowNo(i) : i \in 1..n} /\ RowsNow' = {RowNo(i) : i \in 1..(n + 1)}
    BY <1>3 DEF RowsNow, n
  <2> QED
    BY <1>7, <2>1
<1>10. Flow!Cardinality(InHandNow) < 1
  <2>1. Flow!Cardinality({}) = Cardinality({})
    BY DEF Flow!Cardinality, Cardinality
  <2> QED
    BY <1>4, <2>1, FS_EmptySet
<1>11. -(n + 1) \in {-i : i \in 1..MaxRaise}
  BY <1>7
<1>12. RowNo(n + 1) = [pk |-> n + 1, rand |-> -(n + 1), cid |-> "c"]
  BY DEF RowNo
<1>13. Flow!saveMsg(-(n + 1), "c")
  <2>1. raised["recv_msg"] = n /\ raised'["recv_msg"] = n + 1
    BY <1>3 DEF n
  <2>2. 1..raised'["recv_msg"] = 1..raised["recv_msg"] \cup {raised["recv_msg"] + 1}
    BY <1>7, <2>1
  <2>3. raised'["recv_msg"] + 1 = raised["recv_msg"] + 1 + 1
    BY <2>1
  <2>4. RowNo(n + 1) = [pk |-> raised["recv_msg"] + 1, rand |-> -(n + 1), cid |-> "c"]
    BY <1>12, <2>1
  <2>5. InHandNow' = InHandNow \cup {[pk |-> raised["recv_msg"] + 1, rand |-> -(n + 1), cid |-> "c"]}
    BY <1>4, <2>4
  <2>6. RowsNow' = RowsNow \cup {[pk |-> raised["recv_msg"] + 1, rand |-> -(n + 1), cid |-> "c"]}
    BY <1>9, <2>4
  <2>7. UNCHANGED <<SessionNow, {}, QueueNow, {}, "none", 0,
                    [i \in 1..1 |-> [cid |-> "none", list |-> {}, next |-> 0]]>>
    BY <1>5, <1>6
  <2> QED
    BY <1>6, <1>8, <1>10, <2>2, <2>3, <2>5, <2>6, <2>7, Zenon DEF Flow!saveMsg
<1> QED
  BY <1>11, <1>13 DEF Flow!Next

\* ... it is lost to the isolate when its callback reads a port that has not been
\* registered ...
LEMMA CallbackIsMiss ==
  ASSUME IInv, NoGap, NEW e \in holding, callback(e)
  PROVE  [Flow!Next]_Flow!vars
<1> DEFINE f == [e EXCEPT !.to = port[e.kind]]
<1>1. /\ e.to = NotRead /\ holding' = (holding \ {e}) \cup {f}
      /\ UNCHANGED <<linked, port, raised, queue>>
  BY DEF callback
<1>2. /\ e.kind \in Kind /\ f.kind = e.kind /\ f.no = e.no /\ f.to = port[e.kind]
      /\ \A g \in holding : ThreadOf[g.kind] = ThreadOf[e.kind] => g = e
  BY DEF IInv, TypeOK, Event, HeldInOrder
<1>3. e.to # 0
  BY <1>1 DEF NotRead
<1> HIDE DEF f
<1>4. /\ Posted("recv_msg")' = Posted("recv_msg") /\ InQueue("recv_msg")' = InQueue("recv_msg")
      /\ SessionNow' = SessionNow
  BY <1>1, RecvKind, CallbackEffect DEF SessionNow
<1>5. CASE e.kind # "recv_msg"
  <2>1. {g \in holding' : g.kind = "recv_msg" /\ g.to # 0} = {g \in holding : g.kind = "recv_msg" /\ g.to # 0}
    BY <1>1, <1>2, <1>5
  <2>2. InHandNow' = InHandNow
    BY <2>1 DEF InHandNow
  <2> QED
    BY <1>1, <1>4, <2>2, FlowUnchanged
<1>6. CASE e.kind = "recv_msg"
  <2>1. {g \in holding : g.kind = "recv_msg" /\ g.to # 0} = {e}
    BY <1>2, <1>3, <1>6
  <2>2. InHandNow = {RowNo(e.no)}
    BY <2>1 DEF InHandNow
  <2>3. {g \in holding' : g.kind = "recv_msg" /\ g.to # 0} = IF port["recv_msg"] # 0 THEN {f} ELSE {}
    BY <1>1, <1>2, <1>6
  <2>4. CASE port["recv_msg"] # 0
    <3>1. InHandNow' = {RowNo(e.no)}
      BY <1>2, <2>3, <2>4 DEF InHandNow
    <3> QED
      BY <1>1, <1>4, <2>2, <3>1, FlowUnchanged
  <2>5. CASE port["recv_msg"] = 0
    <3>1. InHandNow' = {}
      BY <2>3, <2>5 DEF InHandNow
    <3>2. SessionNow # "home"
      BY <2>5 DEF SessionNow
    <3>3. First("recv_msg")' = First("recv_msg")
      BY <1>4 DEF First
    <3>4. QueueNow' = QueueNow
      BY <1>4, <3>3 DEF QueueNow
    <3>5. ReceivedNow' = ReceivedNow /\ RowsNow' = RowsNow /\ raised' = raised
      BY <1>1 DEF ReceivedNow, RowsNow
    <3>6. Flow!on_recv_msg(RowNo(e.no))
      BY <1>4, <2>2, <3>1, <3>2, <3>4, <3>5 DEF Flow!on_recv_msg
    <3> QED
      BY <2>2, <3>6 DEF Flow!Next
  <2> QED
    BY <2>4, <2>5
<1> QED
  BY <1>5, <1>6

\* ... and otherwise it is in hand until it is posted, behind all that is queued.
LEMMA PostIsOnRecvMsg ==
  ASSUME IInv, Started, NoGap, NEW e \in holding, Dart_PostCObject_DL(e)
  PROVE  [Flow!Next]_Flow!vars
<1>1. /\ holding' = holding \ {e} /\ UNCHANGED <<linked, port, raised>>
  BY DEF Dart_PostCObject_DL
<1>2. /\ \A j \in Kind : j # e.kind => Posted(j)' = Posted(j) /\ InQueue(j)' = InQueue(j)
      /\ Posted(e.kind) = e.no - 1 /\ Posted(e.kind)' = e.no
      /\ \/ e.to > 0 /\ port[e.kind] > 0 /\ InQueue(e.kind)' = InQueue(e.kind) \cup {e.no}
         \/ e.to = 0 /\ InQueue(e.kind)' = InQueue(e.kind)
  BY PostEffect
<1>3. SessionNow' = SessionNow
  BY <1>1 DEF SessionNow
<1>4. \A g \in holding : g.kind = e.kind => g = e
  BY DEF IInv, HeldInOrder
<1>5. e.no \in Nat /\ "recv_msg" \in Kind
  BY RecvKind, BridgeAssumption DEF IInv, TypeOK, Event
<1>6. CASE e.kind # "recv_msg"
  <2>1. {g \in holding' : g.kind = "recv_msg" /\ g.to # 0} = {g \in holding : g.kind = "recv_msg" /\ g.to # 0}
    BY <1>1, <1>6
  <2>2. InHandNow' = InHandNow
    BY <2>1 DEF InHandNow
  <2> QED
    BY <1>1, <1>2, <1>3, <1>5, <1>6, <2>2, FlowUnchanged
<1>7. CASE e.kind = "recv_msg"
  <2>1. {g \in holding' : g.kind = "recv_msg" /\ g.to # 0} = {}
    BY <1>1, <1>4, <1>7
  <2>2. InHandNow' = {}
    BY <2>1 DEF InHandNow
  <2>3. ReceivedNow' = ReceivedNow /\ RowsNow' = RowsNow /\ raised' = raised
    BY <1>1 DEF ReceivedNow, RowsNow
  <2>4. /\ Posted("recv_msg") = e.no - 1 /\ Posted("recv_msg")' = e.no /\ Posted("recv_msg") \in Nat
        /\ e.no \in Nat \ {0}
    BY <1>2, <1>5, <1>7, PostedType
  <2>5. PICK a \in 1..(Posted("recv_msg") + 1) : InQueue("recv_msg") = a..Posted("recv_msg")
    BY <1>5 DEF NoGap
  <2>6. QueueNow = Rows(a, e.no - 1)
    BY <2>4, <2>5, QueueIs
  <2>7. a \in 1..e.no
    BY <2>4, <2>5
  <2>8. CASE e.to > 0
    <3>1. InQueue("recv_msg")' = InQueue("recv_msg") \cup {e.no} /\ port["recv_msg"] > 0
      BY <1>2, <1>7, <2>8
    <3>2. InQueue("recv_msg")' = a..e.no
      <4>1. a..(e.no - 1) \cup {e.no} = a..e.no
        BY <2>4, <2>7
      <4> QED
        BY <2>4, <2>5, <3>1, <4>1
    <3>3. QueueNow' = Rows(a, e.no)
      <4>1. a \in 1..(e.no + 1)
        BY <2>4, <2>7
      <4> QED
        BY <2>4, <3>2, <4>1, QueueIsNext
    <3>4. QueueNow' = Append(QueueNow, RowNo(e.no))
      BY <2>4, <2>6, <2>7, <3>3, AppendRow
    <3>5. SessionNow = "home"
      <4>1. linked
        BY DEF IInv, PortsOpen
      <4> QED
        BY <3>1, <4>1 DEF SessionNow
    <3>6. InHandNow = {RowNo(e.no)}
      <4>1. {g \in holding : g.kind = "recv_msg" /\ g.to # 0} = {e}
        BY <1>4, <1>7, <2>8
      <4> QED
        BY <4>1 DEF InHandNow
    <3>7. Flow!on_recv_msg(RowNo(e.no))
      BY <1>3, <2>2, <2>3, <3>4, <3>5, <3>6 DEF Flow!on_recv_msg
    <3> QED
      BY <3>6, <3>7 DEF Flow!Next
  <2>9. CASE e.to = 0
    <3>1. InQueue("recv_msg")' = InQueue("recv_msg") /\ InQueue("recv_msg") = {}
      BY <1>2, <1>7, <2>9 DEF NoGap
    <3>2. QueueNow = Rows(e.no, e.no - 1)
      <4>1. e.no \in 1..(Posted("recv_msg") + 1) /\ e.no..Posted("recv_msg") = {}
        BY <2>4
      <4> QED
        BY <2>4, <3>1, <4>1, QueueIs
    <3>3. QueueNow' = Rows(e.no + 1, e.no)
      <4>1. e.no \in Nat /\ e.no + 1 \in 1..(e.no + 1) /\ (e.no + 1)..e.no = {}
        BY <2>4
      <4>2. InQueue("recv_msg")' = (e.no + 1)..e.no
        BY <3>1, <4>1
      <4> QED
        BY <2>4, <4>1, <4>2, QueueIsNext
    <3>4. e.no - 1 - e.no + 1 = 0 /\ e.no - (e.no + 1) + 1 = 0 /\ 1..0 = {}
      BY <2>4
    <3>5. QueueNow' = QueueNow
      BY <3>2, <3>3, <3>4 DEF Rows
    <3>6. InHandNow = {}
      <4>1. {g \in holding : g.kind = "recv_msg" /\ g.to # 0} = {}
        BY <1>4, <1>7, <2>9
      <4> QED
        BY <4>1 DEF InHandNow
    <3> QED
      BY <1>3, <2>2, <2>3, <3>5, <3>6 DEF Flow!vars
  <2> QED
    BY <1>2, <2>8, <2>9
<1> QED
  BY <1>6, <1>7

\* The listener hands the oldest queued message to the stream.
LEMMA ListenerIsDeliver ==
  ASSUME IInv, NoGap, listener
  PROVE  [Flow!Next]_Flow!vars
<1>0. PICK k, n : k = Head(queue).kind /\ n = Head(queue).no
  OBVIOUS
<1>1. UNCHANGED <<linked, port, raised, holding>>
  BY DEF listener, native
<1>2. /\ \A j \in Kind : Posted(j)' = Posted(j)
      /\ \A j \in Kind : j # k => InQueue(j)' = InQueue(j)
      /\ k \in Kind /\ n \in 1..Posted(k)
      /\ InQueue(k) = n..Posted(k) /\ InQueue(k)' = (n + 1)..Posted(k)
  BY <1>0, ListenerEffect
<1>3. SessionNow' = SessionNow /\ InHandNow' = InHandNow /\ ReceivedNow' = ReceivedNow /\ RowsNow' = RowsNow
  BY <1>1 DEF SessionNow, InHandNow, ReceivedNow, RowsNow
<1>4. CASE k # "recv_msg"
  BY <1>1, <1>2, <1>3, <1>4, RecvKind, FlowUnchanged
<1>5. CASE k = "recv_msg"
  <2>1. Posted("recv_msg") \in Nat /\ n \in 1..Posted("recv_msg") /\ Posted("recv_msg")' = Posted("recv_msg")
    BY <1>2, <1>5, PostedType
  <2>2. n \in 1..(Posted("recv_msg") + 1) /\ n + 1 \in 1..(Posted("recv_msg") + 1)
    BY <2>1
  <2>3. QueueNow = Rows(n, Posted("recv_msg"))
    BY <1>2, <1>5, <2>1, <2>2, QueueIs
  <2>4. QueueNow' = Rows(n + 1, Posted("recv_msg"))
    BY <1>2, <1>5, <2>1, <2>2, QueueIsNext
  <2>5. QueueNow # <<>> /\ QueueNow' = Tail(QueueNow)
    BY <2>1, <2>3, <2>4, TailRows
  <2>6. Flow!Deliver
    <3>1. UNCHANGED <<SessionNow, ReceivedNow, RowsNow, raised["recv_msg"] + 1, 1..raised["recv_msg"], InHandNow>>
      BY <1>1, <1>3
    <3>2. Flow!Idle
      BY DEF Flow!Idle
    <3>3. Flow!Broadcast(Head(QueueNow).pk, Head(QueueNow).rand)
      <4>1. \A i \in 1..1 : ~(i <= 0)
        OBVIOUS
      <4> QED
        BY <4>1 DEF Flow!Broadcast, Flow!Slot
    <3> QED
      BY <2>5, <3>1, <3>2, <3>3 DEF Flow!Deliver
  <2> QED
    BY <2>6 DEF Flow!Next
<1> QED
  BY <1>4, <1>5

\* A registration is the one of MessageFlow if it is the first for messages.
LEMMA RegisterIsSetRecvMsgNotify ==
  ASSUME IInv, Started, initNetStatus \/ loginNetStatus \/ registerNext
  PROVE  [Flow!Next]_Flow!vars
<1>1. PICK k \in Kind : Register(k) /\ (k = "net" \/ linked)
  <2>1. CASE initNetStatus \/ loginNetStatus
    BY <2>1, KindsOfLogin DEF initNetStatus, loginNetStatus
  <2>2. CASE registerNext
    <3>1. pc = "register" /\ step < Len(LoginOrder) /\ Register(LoginOrder[step + 1])
      BY <2>2 DEF registerNext
    <3>2. step \in 0..Len(LoginOrder)
      BY DEF IInv, TypeOK
    <3>3. step + 1 \in 1..7
      BY <3>1, <3>2, KindsOfLogin
    <3>4. LoginOrder[step + 1] \in Kind
      BY <3>3, KindsOfLogin
    <3>5. linked
      BY <3>1 DEF Started
    <3> QED
      BY <3>1, <3>4, <3>5
  <2> QED
    BY <2>1, <2>2
<1>2. UNCHANGED <<linked, holding, queue, raised>>
  BY RegisteringStep DEF IInv, native
<1>3. port \in [Kind -> Nat]
  BY BridgeAssumption DEF IInv, TypeOK
<1>4. \A j \in Kind : port'[j] = IF j = k THEN port[k] + 1 ELSE port[j]
  BY <1>1, <1>3 DEF Register
<1>5. /\ InHandNow' = InHandNow /\ ReceivedNow' = ReceivedNow /\ RowsNow' = RowsNow
      /\ Posted("recv_msg")' = Posted("recv_msg") /\ InQueue("recv_msg")' = InQueue("recv_msg")
  BY <1>2 DEF InHandNow, ReceivedNow, RowsNow, Posted, InQueue
<1>6. CASE SessionNow' = SessionNow
  BY <1>2, <1>5, <1>6, FlowUnchanged
<1>7. CASE SessionNow' # SessionNow
  <2>1. port'["recv_msg"] # port["recv_msg"]
    <3>1. ASSUME port'["recv_msg"] = port["recv_msg"] PROVE FALSE
      BY <1>2, <1>7, <3>1 DEF SessionNow
    <3> QED
      BY <3>1
  <2>2. k = "recv_msg"
    BY <1>4, <2>1, RecvKind
  <2>3. linked /\ port["recv_msg"] \in Nat /\ port'["recv_msg"] = port["recv_msg"] + 1
    BY <1>1, <1>3, <1>4, <2>2, RecvKind
  <2>4. port'["recv_msg"] # 0
    BY <2>3
  <2>5. SessionNow' = "home"
    BY <1>2, <2>3, <2>4 DEF SessionNow
  <2>6. SessionNow = "native"
    BY <1>7, <2>3, <2>5 DEF SessionNow
  <2>7. First("recv_msg")' = First("recv_msg")
    BY <1>5 DEF First
  <2>8. QueueNow' = QueueNow
    BY <1>5, <2>7 DEF QueueNow
  <2>9. Flow!setRecvMsgNotify
    BY <1>2, <1>5, <2>5, <2>6, <2>8 DEF Flow!setRecvMsgNotify
  <2> QED
    BY <2>9 DEF Flow!Next
<1> QED
  BY <1>6, <1>7

LEMMA LoginIsNativeLogin ==
  ASSUME IInv, Started, dhtclient_login
  PROVE  Flow!Next
<1>1. ~linked /\ linked' /\ UNCHANGED <<port, holding, raised, queue>>
  BY DEF dhtclient_login
<1>2. port["recv_msg"] = 0
  <2>1. 3 \in 1..Len(LoginOrder)
    BY KindsOfLogin
  <2> QED
    BY <1>1, <2>1, RecvKind DEF Started
<1>3. SessionNow = "down" /\ SessionNow' = "native"
  BY <1>1, <1>2 DEF SessionNow
<1>4. InHandNow' = InHandNow /\ ReceivedNow' = ReceivedNow /\ RowsNow' = RowsNow
  BY <1>1 DEF InHandNow, ReceivedNow, RowsNow
<1>5. QueueNow' = QueueNow
  <2>1. Posted("recv_msg")' = Posted("recv_msg") /\ InQueue("recv_msg")' = InQueue("recv_msg")
    BY <1>1 DEF Posted, InQueue
  <2>2. First("recv_msg")' = First("recv_msg")
    BY <2>1 DEF First
  <2> QED
    BY <2>1, <2>2 DEF QueueNow
<1>6. Flow!NativeLogin
  BY <1>1, <1>3, <1>4, <1>5 DEF Flow!NativeLogin
<1> QED
  BY <1>6 DEF Flow!Next

\* A kill before the native login takes nothing that MessageFlow knows of.
LEMMA KillIsKill ==
  ASSUME IInv, Started, NoGap, Kill
  PROVE  [Flow!Next]_Flow!vars
<1>1. ~linked' /\ holding' = {} /\ queue' = <<>> /\ raised' = raised
  BY DEF Kill
<1>2. SessionNow' = "down" /\ InHandNow' = {} /\ ReceivedNow' = ReceivedNow /\ RowsNow' = RowsNow
  BY <1>1 DEF SessionNow, InHandNow, ReceivedNow, RowsNow
<1>3. raised["recv_msg"] \in Nat
  BY RecvKind, PostedType
<1>4. QueueNow' = <<>>
  <2>1. Posted("recv_msg")' = raised["recv_msg"] /\ InQueue("recv_msg")' = {}
    BY <1>1 DEF Posted, InQueue
  <2>2. /\ raised["recv_msg"] + 1 \in 1..(raised["recv_msg"] + 1)
        /\ (raised["recv_msg"] + 1)..raised["recv_msg"] = {}
    BY <1>3
  <2>3. QueueNow' = Rows(raised["recv_msg"] + 1, raised["recv_msg"])
    BY <1>3, <2>1, <2>2, QueueIsNext
  <2> QED
    BY <1>3, <2>3, NoRows
<1>5. CASE linked
  <2>1. SessionNow # "down"
    BY <1>5 DEF SessionNow
  <2>2. [i \in 1..1 |-> [cid |-> "none", list |-> {}, next |-> 0]] = [i \in Flow!Slot |-> Flow!NoPage]
    BY DEF Flow!Slot, Flow!NoPage
  <2>3. Flow!Kill
    BY <1>1, <1>2, <1>4, <2>1, <2>2 DEF Flow!Kill
  <2> QED
    BY <2>3 DEF Flow!Next
<1>6. CASE ~linked
  <2>1. holding = {} /\ queue = <<>>
    BY <1>6 DEF IInv, PortsOpen, Started
  <2>2. SessionNow' = SessionNow /\ InHandNow' = InHandNow
    BY <1>2, <1>6, <2>1 DEF SessionNow, InHandNow
  <2>3. Posted("recv_msg")' = Posted("recv_msg") /\ InQueue("recv_msg")' = InQueue("recv_msg")
    BY <1>1, <2>1 DEF Posted, InQueue
  <2> QED
    BY <1>1, <2>2, <2>3, FlowUnchanged
<1> QED
  BY <1>5, <1>6

LEMMA BridgeDrives ==
  ASSUME IInv, Started, NoGap, [Next]_vars
  PROVE  [Flow!Next]_Flow!vars
<1>1. ASSUME UNCHANGED <<linked, port, holding, queue, raised>>
      PROVE  UNCHANGED Flow!vars
  <2>1. SessionNow' = SessionNow /\ InHandNow' = InHandNow
    BY <1>1 DEF SessionNow, InHandNow
  <2>2. Posted("recv_msg")' = Posted("recv_msg") /\ InQueue("recv_msg")' = InQueue("recv_msg")
    BY <1>1 DEF Posted, InQueue
  <2> QED
    BY <1>1, <2>1, <2>2, FlowUnchanged
<1>2. ASSUME NEW k \in Raised, raise(k)
      PROVE  [Flow!Next]_Flow!vars
  <2>1. CASE k = "recv_msg"
    BY <1>2, <2>1, RaiseIsSave
  <2>2. CASE k # "recv_msg"
    <3> DEFINE e == [kind |-> k, no |-> raised[k] + 1, up |-> dhtUp', to |-> NotRead]
    <3>1. /\ UNCHANGED <<linked, port>> /\ holding' = holding \cup {e}
          /\ raised' = [raised EXCEPT ![k] = @ + 1]
      BY <1>2 DEF raise
    <3>2. e.kind # "recv_msg"
      BY <2>2
    <3> HIDE DEF e
    <3>3. {g \in holding' : g.kind = "recv_msg" /\ g.to # 0} = {g \in holding : g.kind = "recv_msg" /\ g.to # 0}
      BY <3>1, <3>2
    <3>4. InHandNow' = InHandNow /\ SessionNow' = SessionNow
      BY <3>1, <3>3 DEF InHandNow, SessionNow
    <3>5. raised'["recv_msg"] = raised["recv_msg"]
      <4>1. raised \in [Kind -> 0..MaxRaise]
        BY DEF IInv, TypeOK
      <4> QED
        BY <2>2, <3>1, <4>1, RecvKind
    <3>6. Posted("recv_msg")' = Posted("recv_msg") /\ InQueue("recv_msg")' = InQueue("recv_msg")
      BY <1>2, RecvKind, RaiseEffect, BridgeAssumption
    <3> QED
      BY <3>4, <3>5, <3>6, FlowUnchanged
  <2> QED
    BY <2>1, <2>2
<1>3. ASSUME NEW e \in holding, callback(e) \/ Dart_PostCObject_DL(e)
      PROVE  [Flow!Next]_Flow!vars
  BY <1>3, CallbackIsMiss, PostIsOnRecvMsg
<1>4. CASE listener
  BY <1>4, ListenerIsDeliver
<1>5. CASE initNetStatus \/ loginNetStatus \/ registerNext
  BY <1>5, RegisterIsSetRecvMsgNotify
<1>6. CASE dhtclient_login
  BY <1>6, LoginIsNativeLogin
<1>7. CASE Kill
  BY <1>7, KillIsKill
<1>8. CASE \/ dhtclient_create \/ runApp \/ formSubmitted
           \/ dhtclient_login_fails \/ dhtclient_login_succeeds \/ loginDone \/ logout
  BY <1>1, <1>8 DEF dhtclient_create, runApp, formSubmitted,
       dhtclient_login_fails, dhtclient_login_succeeds, loginDone, logout, native
<1>9. CASE UNCHANGED vars
  BY <1>1, <1>9 DEF vars, native
<1> QED
  BY <1>2, <1>3, <1>4, <1>5, <1>6, <1>7, <1>8, <1>9 DEF Next

\* What happens to received messages between the native client and msgStream is
\* what MessageFlow says.
THEOREM BridgeDrivesFlow == Spec => Flow!Spec
<1>1. Init => Flow!Init
  <2> SUFFICES ASSUME Init PROVE Flow!Init
    OBVIOUS
  <2>1. ~linked /\ holding = {} /\ queue = <<>> /\ raised["recv_msg"] = 0
    BY RecvKind DEF Init
  <2>2. 1..0 = {} /\ 1 \in 1..(0 + 1) /\ 0 + 1 = 1 /\ 0 \in Nat
    OBVIOUS
  <2>3. Posted("recv_msg") = 0 /\ InQueue("recv_msg") = 1..0
    BY <2>1, <2>2 DEF Posted, InQueue
  <2>4. QueueNow = Rows(1, 0)
    BY <2>2, <2>3, QueueIs
  <2>5. Rows(0 + 1, 0) = <<>>
    BY <2>2, NoRows
  <2>6. QueueNow = <<>>
    BY <2>2, <2>4, <2>5
  <2>7. SessionNow = "down" /\ InHandNow = {} /\ ReceivedNow = {} /\ RowsNow = {}
    BY <2>1, <2>2 DEF SessionNow, InHandNow, ReceivedNow, RowsNow
  <2>8. [i \in 1..1 |-> [cid |-> "none", list |-> {}, next |-> 0]] = [i \in Flow!Slot |-> Flow!NoPage]
    BY DEF Flow!Slot, Flow!NoPage
  <2> QED
    BY <2>1, <2>2, <2>6, <2>7, <2>8 DEF Flow!Init
<1>2. IInv /\ Started /\ NoGap /\ [Next]_vars => [Flow!Next]_Flow!vars
  BY BridgeDrives
<1> QED
  BY <1>1, <1>2, Invariance, AlwaysStarted, QueueHasNoGaps, PTL DEF Spec, Flow!Spec
-----------------------------------------------------------------------------
\* What EventStreams promises is enough for the order of the streams.
PromisedOrder ==
  /\ RaisedNow \in [Kind -> Nat] /\ DueNow \in [Kind -> SUBSET Nat] /\ handled \in [Kind -> Seq(Nat)]
  /\ \A k \in Kind : \A n \in DueNow[k] : n <= RaisedNow[k]
  /\ \A k \in Kind : \A i \in 1..Len(handled[k]) :
       handled[k][i] <= RaisedNow[k] /\ \A n \in DueNow[k] : handled[k][i] < n
  /\ OnceInOrder

LEMMA PromiseStep ==
  ASSUME PromisedOrder, [Streams!Next]_Streams!vars
  PROVE  PromisedOrder'
<1>0. /\ RaisedNow \in [Kind -> Nat] /\ DueNow \in [Kind -> SUBSET Nat]
      /\ handled \in [Kind -> Seq(Nat)]
      /\ \A k \in Kind : RaisedNow[k] \in Nat /\ DueNow[k] \subseteq Nat /\ handled[k] \in Seq(Nat)
      /\ \A k \in Kind : \A i \in 1..Len(handled[k]) : handled[k][i] \in Nat
  BY DEF PromisedOrder
<1>1. ASSUME NEW k \in Kind, Streams!Register(k)
      PROVE  PromisedOrder'
  BY <1>1 DEF Streams!Register, PromisedOrder, OnceInOrder
<1>2. ASSUME NEW k \in Kind, Streams!Raise(k)
      PROVE  PromisedOrder'
  <2>1. /\ handled' = handled
        /\ RaisedNow' = [RaisedNow EXCEPT ![k] = @ + 1]
        /\ DueNow' = DueNow \/ DueNow' = [DueNow EXCEPT ![k] = @ \cup {RaisedNow[k] + 1}]
    BY <1>2 DEF Streams!Raise
  <2>2. RaisedNow' \in [Kind -> Nat] /\ DueNow' \in [Kind -> SUBSET Nat]
    <3>1. RaisedNow[k] + 1 \in Nat
      BY <1>0
    <3>2. RaisedNow' \in [Kind -> Nat]
      BY <1>0, <2>1, <3>1
    <3>3. DueNow[k] \cup {RaisedNow[k] + 1} \in SUBSET Nat
      BY <1>0, <3>1
    <3>4. [DueNow EXCEPT ![k] = @ \cup {RaisedNow[k] + 1}] \in [Kind -> SUBSET Nat]
      BY <1>0, <3>3, Zenon
    <3> QED
      BY <1>0, <2>1, <3>2, <3>4
  <2>3. ASSUME NEW h \in Kind
        PROVE  /\ RaisedNow[h] \in Nat /\ RaisedNow'[h] \in Nat
               /\ RaisedNow'[h] = IF h = k THEN RaisedNow[h] + 1 ELSE RaisedNow[h]
               /\ DueNow[h] \subseteq Nat
               /\ \A n \in DueNow'[h] : n \in DueNow[h] \/ (h = k /\ n = RaisedNow[h] + 1)
    <3>1. RaisedNow'[h] = IF h = k THEN RaisedNow[h] + 1 ELSE RaisedNow[h]
      BY <1>0, <2>1
    <3>2. DueNow'[h] = DueNow[h] \/ (h = k /\ DueNow'[h] = DueNow[h] \cup {RaisedNow[h] + 1})
      BY <1>0, <2>1, Zenon
    <3> QED
      BY <1>0, <2>2, <3>1, <3>2
  <2>4. ASSUME NEW h \in Kind, NEW n \in DueNow'[h]
        PROVE  n <= RaisedNow'[h]
    <3>1. n \in DueNow[h] => n <= RaisedNow[h]
      BY DEF PromisedOrder
    <3> QED
      BY <2>3, <3>1
  <2>5. ASSUME NEW h \in Kind, NEW i \in 1..Len(handled[h])
        PROVE  handled[h][i] <= RaisedNow'[h] /\ \A n \in DueNow'[h] : handled[h][i] < n
    <3>1. /\ handled[h][i] \in Nat /\ handled[h][i] <= RaisedNow[h]
          /\ \A n \in DueNow[h] : handled[h][i] < n
      BY <1>0 DEF PromisedOrder
    <3> QED
      BY <2>3, <3>1
  <2> QED
    BY <1>0, <2>1, <2>2, <2>4, <2>5 DEF PromisedOrder, OnceInOrder
<1>3. ASSUME NEW k \in Kind, Streams!HandOn(k)
      PROVE  PromisedOrder'
  <2>1. PICK n \in DueNow[k] : /\ \A m \in DueNow[k] : n <= m
                               /\ DueNow' = [DueNow EXCEPT ![k] = @ \ {n}]
                               /\ handled' = [handled EXCEPT ![k] = Append(@, n)]
                               /\ RaisedNow' = RaisedNow
    BY <1>3 DEF Streams!HandOn
  <2>2. DueNow' \in [Kind -> SUBSET Nat] /\ handled' \in [Kind -> Seq(Nat)] /\ n \in Nat
    BY <1>0, <2>1
  <2>3. \A h \in Kind : \A m \in DueNow'[h] : m \in DueNow[h] /\ (h = k => m # n)
    BY <1>0, <2>1
  <2>4. ASSUME NEW h \in Kind, h # k
        PROVE  handled'[h] = handled[h]
    BY <1>0, <2>1, <2>4
  <2>5. /\ Len(handled'[k]) = Len(handled[k]) + 1 /\ Len(handled[k]) \in Nat
        /\ \A i \in 1..Len(handled[k]) : handled'[k][i] = handled[k][i]
        /\ handled'[k][Len(handled[k]) + 1] = n
    <3>1. handled'[k] = Append(handled[k], n) /\ handled[k] \in Seq(Nat)
      BY <1>0, <2>1
    <3> QED
      BY <2>2, <3>1
  <2>6. ASSUME NEW h \in Kind, NEW i \in 1..Len(handled'[h])
        PROVE  handled'[h][i] <= RaisedNow'[h] /\ \A m \in DueNow'[h] : handled'[h][i] < m
    <3>1. CASE h # k \/ i \in 1..Len(handled[k])
      <4>1. i \in 1..Len(handled[h]) /\ handled'[h][i] = handled[h][i]
        BY <2>4, <2>5, <2>6, <3>1
      <4> QED
        BY <2>1, <2>3, <4>1 DEF PromisedOrder
    <3>2. CASE h = k /\ i = Len(handled[k]) + 1
      <4>1. handled'[h][i] = n /\ n <= RaisedNow[k]
        BY <2>1, <2>5, <3>2 DEF PromisedOrder
      <4>2. \A m \in DueNow'[h] : n <= m /\ m # n /\ m \in Nat
        BY <1>0, <2>1, <2>3, <3>2
      <4> QED
        BY <2>1, <2>2, <3>2, <4>1, <4>2
    <3> QED
      BY <2>5, <2>6, <3>1, <3>2
  <2>7. OnceInOrder'
    <3> SUFFICES ASSUME NEW h \in Kind, NEW i \in 1..Len(handled'[h]),
                        NEW j \in 1..Len(handled'[h]), i < j
                 PROVE  handled'[h][i] < handled'[h][j]
      BY DEF OnceInOrder
    <3>1. CASE h # k
      BY <2>4, <3>1 DEF PromisedOrder, OnceInOrder
    <3>2. CASE h = k /\ j \in 1..Len(handled[k])
      <4>1. i \in 1..Len(handled[k])
        BY <2>5, <3>2
      <4> QED
        BY <2>5, <3>2, <4>1 DEF PromisedOrder, OnceInOrder
    <3>3. CASE h = k /\ j = Len(handled[k]) + 1
      <4>1. i \in 1..Len(handled[k])
        BY <2>5, <3>3
      <4>2. handled[k][i] < n
        BY <2>1, <4>1 DEF PromisedOrder
      <4> QED
        BY <2>5, <3>3, <4>1, <4>2
    <3> QED
      BY <2>5, <3>1, <3>2, <3>3
  <2>8. \A h \in Kind : \A m \in DueNow'[h] : m <= RaisedNow'[h]
    BY <2>1, <2>3 DEF PromisedOrder
  <2> QED
    BY <1>0, <2>1, <2>2, <2>6, <2>7, <2>8 DEF PromisedOrder
<1>4. CASE Streams!Die
  <2>1. /\ DueNow' = [k \in Kind |-> {}] /\ handled' = handled
        /\ RaisedNow' \in [Kind -> Nat] /\ \A k \in Kind : RaisedNow'[k] >= RaisedNow[k]
    BY <1>4 DEF Streams!Die
  <2>2. \A k \in Kind : RaisedNow'[k] \in Nat /\ DueNow'[k] = {}
    BY <2>1
  <2>3. DueNow' \in [Kind -> SUBSET Nat]
    BY <2>1
  <2>4. ASSUME NEW h \in Kind, NEW i \in 1..Len(handled[h])
        PROVE  handled[h][i] <= RaisedNow'[h]
    BY <1>0, <2>1, <2>2 DEF PromisedOrder
  <2> QED
    BY <1>0, <2>1, <2>2, <2>3, <2>4 DEF PromisedOrder, OnceInOrder
<1>5. CASE UNCHANGED Streams!vars
  BY <1>5 DEF Streams!vars, PromisedOrder, OnceInOrder
<1> QED
  BY <1>1, <1>2, <1>3, <1>4, <1>5 DEF Streams!Next

\* Whatever keeps the promise of EventStreams hands events on in order and none
\* twice: OnceInOrder does not rest on threads or ports, only on the promise.
THEOREM PromiseGivesOrder == Streams!Spec => []OnceInOrder
<1>1. Streams!Init => PromisedOrder
  BY DEF Streams!Init, PromisedOrder, OnceInOrder
<1>2. PromisedOrder /\ [Streams!Next]_Streams!vars => PromisedOrder'
  BY PromiseStep
<1>3. PromisedOrder => OnceInOrder
  BY DEF PromisedOrder
<1> QED
  BY <1>1, <1>2, <1>3, PTL DEF Streams!Spec
=============================================================================
