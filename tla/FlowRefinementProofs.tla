------------------------- MODULE FlowRefinementProofs -------------------------
(***************************************************************************)
(* MessageFlow implements LivePages, for any number of conversations,      *)
(* messages, chat pages and receiving threads.                             *)
(***************************************************************************)
EXTENDS MessageFlowProofs

\* A message is on its way once: in one native hand or at one place of the queue,
\* which is empty until the ports are registered.
DueOnce ==
  /\ \A q, r \in inHand : q.rand = r.rand => q = r
  /\ \A q \in inHand : \A k \in 1..Len(queue) : queue[k].rand # q.rand
  /\ \A j, k \in 1..Len(queue) : queue[j].rand = queue[k].rand => j = k
  /\ session # "home" => queue = <<>>

\* Somewhere the message m goes by the key k.
Key(m, k) ==
  \/ \E r \in rows : r.rand = m /\ r.pk = k
  \/ \E r \in inHand : r.rand = m /\ r.pk = k
  \/ \E j \in 1..Len(queue) : queue[j].rand = m /\ queue[j].pk = k
  \/ \E i \in Slot : \E e \in pages[i].list : e.rand = m /\ e.id = k

\* A received message goes by one key everywhere, also after its row is erased:
\* the event that deletes it by its key finds it on every page.
OneKey == \A m \in Msg : \A k, l \in Nat \cup Rand : Key(m, k) /\ Key(m, l) => k = l

RInv == IInv /\ DueOnce /\ OneKey
-----------------------------------------------------------------------------
LEMMA DueOnceStep ==
  ASSUME IInv, DueOnce, [Next]_vars
  PROVE  DueOnce'
<1> USE DEF IInv
<1>1. CASE UNCHANGED <<session, inHand, queue>>
  BY <1>1 DEF DueOnce
<1>2. CASE NativeLogin \/ setRecvMsgNotify
  BY <1>2 DEF DueOnce, NativeLogin, setRecvMsgNotify
<1>3. ASSUME NEW m \in Msg, NEW c \in Cid, saveMsg(m, c) PROVE DueOnce'
  <2> DEFINE r == [pk |-> nextPk, rand |-> m, cid |-> c]
  <2>1. inHand' = inHand \cup {r} /\ r.rand = m /\ UNCHANGED <<session, queue>>
    BY <1>3 DEF saveMsg
  <2>2. /\ \A q \in inHand : q.rand # m
        /\ \A k \in 1..Len(queue) : queue[k].rand # m
    BY <1>3 DEF saveMsg, Known, InHandKnown, QueueKnown
  <2> HIDE DEF r
  <2> QED
    BY <2>1, <2>2 DEF DueOnce
<1>4. ASSUME NEW r \in inHand, on_recv_msg(r) PROVE DueOnce'
  <2>1. inHand' = inHand \ {r} /\ UNCHANGED session
    BY <1>4 DEF on_recv_msg
  <2>2. CASE session # "home"
    BY <1>4, <2>1, <2>2 DEF DueOnce, on_recv_msg
  <2>3. CASE session = "home"
    <3>1. queue' = Append(queue, r) /\ queue \in Seq(Row)
      BY <1>4, <2>3 DEF on_recv_msg, TypeOK
    <3>2. \A k \in 1..Len(queue') : \/ k \in 1..Len(queue) /\ queue'[k] = queue[k]
                                    \/ k = Len(queue) + 1 /\ queue'[k] = r
      BY <3>1
    <3> QED
      BY <2>1, <2>3, <3>2 DEF DueOnce
  <2> QED
    BY <2>2, <2>3
<1>5. CASE Deliver
  <2>1. /\ inHand' = inHand /\ session' = session
        /\ queue' = Tail(queue) /\ queue # <<>> /\ queue \in Seq(Row)
    BY <1>5 DEF Deliver, TypeOK
  <2>2. \A k \in 1..Len(queue') : k + 1 \in 1..Len(queue) /\ queue'[k] = queue[k + 1]
    BY <2>1
  <2>3. session = "home"
    BY <2>1 DEF DueOnce
  <2> QED
    BY <2>1, <2>2, <2>3 DEF DueOnce
<1>6. CASE Kill
  BY <1>6 DEF DueOnce, Kill
<1> QED
  BY <1>1, <1>2, <1>3, <1>4, <1>5, <1>6
  DEF Next, vars, OpenPage, getChatMsgData, ClosePage, sendMsg, pickFile, sendFileMsg,
      fileMissing, delMsg, clearConversation

\* A step gives a message no second key: what goes by a key afterwards went by it
\* before or has only just arrived.
LEMMA KeyStep ==
  ASSUME IInv, [Next]_vars, NEW m \in Msg, NEW k \in Nat \cup Rand, Key(m, k)'
  PROVE  Key(m, k) \/ (m \notin received /\ k = nextPk)
<1> USE FlowAssumption DEF IInv, Slot
\* A step that brings no row and no entry of a message brings no key of it.
<1>1. ASSUME \A r \in rows' : r.rand = m => r \in rows,
             \A r \in inHand' : r \in inHand,
             \A j \in 1..Len(queue') : \/ \E i \in 1..Len(queue) : queue[i] = queue'[j]
                                       \/ queue'[j] \in inHand,
             \A i \in Slot : \A e \in pages'[i].list :
               e.rand = m => e \in pages[i].list \/ Key(m, e.id)
      PROVE  Key(m, k)
  <2>1. CASE \E r \in rows' \cup inHand' : r.rand = m /\ r.pk = k
    BY <1>1, <2>1 DEF Key
  <2>2. CASE \E j \in 1..Len(queue') : queue'[j].rand = m /\ queue'[j].pk = k
    BY <1>1, <2>2 DEF Key
  <2>3. CASE \E i \in Slot : \E e \in pages'[i].list : e.rand = m /\ e.id = k
    BY <1>1, <2>3 DEF Key
  <2> QED
    BY <2>1, <2>2, <2>3 DEF Key
<1>2. CASE UNCHANGED <<rows, inHand, queue, pages>>
  BY <1>1, <1>2
<1>3. ASSUME NEW n \in Msg, NEW c \in Cid, saveMsg(n, c)
      PROVE  Key(m, k) \/ (m \notin received /\ k = nextPk)
  <2> DEFINE r == [pk |-> nextPk, rand |-> n, cid |-> c]
  <2>1. /\ rows' = rows \cup {r} /\ inHand' = inHand \cup {r}
        /\ r.rand = n /\ r.pk = nextPk /\ n \notin received
        /\ UNCHANGED <<queue, pages>>
    BY <1>3 DEF saveMsg
  <2> HIDE DEF r
  <2>2. CASE \E q \in rows' \cup inHand' : q.rand = m /\ q.pk = k
    BY <2>1, <2>2 DEF Key
  <2>3. CASE ~ \E q \in rows' \cup inHand' : q.rand = m /\ q.pk = k
    BY <2>1, <2>3 DEF Key
  <2> QED
    BY <2>2, <2>3
<1>4. ASSUME NEW r \in inHand, on_recv_msg(r) PROVE Key(m, k)
  <2>1. rows' = rows /\ inHand' \subseteq inHand /\ pages' = pages
    BY <1>4 DEF on_recv_msg
  <2>2. \A j \in 1..Len(queue') : (j \in 1..Len(queue) /\ queue'[j] = queue[j]) \/ queue'[j] = r
    BY <1>4 DEF on_recv_msg, TypeOK
  <2> QED
    BY <1>1, <2>1, <2>2
<1>5. CASE Deliver
  <2> DEFINE q == Head(queue)
  <2>1. /\ rows' = rows /\ inHand' = inHand
        /\ \A j \in 1..Len(queue') : j + 1 \in 1..Len(queue) /\ queue'[j] = queue[j + 1]
    BY <1>5 DEF Deliver, TypeOK
  <2>2. q \in Row /\ q = queue[1] /\ 1 \in 1..Len(queue)
    BY <1>5 DEF Deliver, TypeOK
  <2>3. Broadcast(q.pk, q.rand) /\ q.pk \in Nat \cup Rand /\ q.rand \in Rand
    BY <1>5, <2>2 DEF Deliver, Row
  <2>4. \A i \in Slot : \A e \in pages'[i].list :
          \/ e \in pages[i].list
          \/ e = [id |-> q.pk, rand |-> q.rand, at |-> pages[i].next]
    BY <2>3, BroadcastEffect
  <2>5. \A i \in Slot : \A e \in pages'[i].list :
          e \in pages[i].list \/ (e.id = q.pk /\ e.rand = q.rand)
    BY <2>4
  <2>6. \A i \in Slot : \A e \in pages'[i].list :
          e.rand = m => e \in pages[i].list \/ Key(m, e.id)
    BY <2>2, <2>5 DEF Key
  <2> QED
    BY <1>1, <2>1, <2>6
<1>6. CASE getChatMsgData
  <2>1. /\ rows' = rows /\ inHand' = inHand /\ queue' = queue
        /\ \A i \in Slot : \/ pages'[i] = pages[i]
                           \/ pages'[i].list = {[id |-> r.pk, rand |-> r.rand, at |-> r.pk] :
                                                 r \in RowsOf(opening)}
    BY <1>6 DEF getChatMsgData, TypeOK
  <2>2. ASSUME NEW i \in Slot, NEW e \in pages'[i].list, e.rand = m
        PROVE  e \in pages[i].list \/ Key(m, e.id)
    <3>1. CASE e \in {[id |-> r.pk, rand |-> r.rand, at |-> r.pk] : r \in RowsOf(opening)}
      <4>1. PICK r \in rows : e = [id |-> r.pk, rand |-> r.rand, at |-> r.pk]
        BY <3>1 DEF RowsOf
      <4> QED
        BY <2>2, <4>1 DEF Key
    <3> QED
      BY <2>1, <3>1
  <2> QED
    BY <1>1, <2>1, <2>2
<1>7. CASE ClosePage
  <2>1. \A i \in Slot : pages'[i].list \subseteq pages[i].list
    BY <1>7 DEF ClosePage, TypeOK, NoPage
  <2> QED
    BY <1>1, <1>7, <2>1 DEF ClosePage
<1>8. ASSUME NEW s \in Own, NEW c, Send(s, c), UNCHANGED <<inHand, queue>> PROVE Key(m, k)
  <2>1. Broadcast(s, s) /\ s \in Nat \cup Rand /\ s \in Rand /\ s # m
    BY <1>8 DEF Send, Rand
  <2>2. \A i \in Slot : \A e \in pages'[i].list :
          e \in pages[i].list \/ e = [id |-> s, rand |-> s, at |-> pages[i].next]
    BY <2>1, BroadcastEffect
  <2>3. \A i \in Slot : \A e \in pages'[i].list : e.rand = m => e \in pages[i].list
    BY <2>1, <2>2
  <2>4. \A r \in rows' : r.rand = m => r \in rows
    BY <1>8, <2>1 DEF Send
  <2> QED
    BY <1>1, <1>8, <2>3, <2>4
<1>9. ASSUME NEW e, delMsg(e) PROVE Key(m, k)
  <2>1. \A i \in Slot : pages'[i].list \subseteq pages[i].list
    BY <1>9 DEF delMsg, TypeOK, removeWhere, Page
  <2> QED
    BY <1>1, <1>9, <2>1 DEF delMsg, Erase
<1>10. ASSUME NEW c \in Cid, clearConversation(c) PROVE Key(m, k)
  BY <1>1, <1>10 DEF clearConversation, Erase
<1>11. CASE Kill
  BY <1>1, <1>11 DEF Kill, NoPage
<1> QED
  BY <1>2, <1>3, <1>4, <1>5, <1>6, <1>7, <1>8, <1>9, <1>10, <1>11
  DEF Next, vars, NativeLogin, setRecvMsgNotify, OpenPage, sendMsg, pickFile, sendFileMsg,
      fileMissing

\* Only what has arrived goes by a key.
LEMMA KeyArrived ==
  ASSUME IInv, NEW m \in Msg, NEW k, Key(m, k)
  PROVE  m \in received
BY FlowAssumption DEF IInv, TypeOK, Known, RowsDistinct, InHandKnown, QueueKnown, PagesKnown, Key

LEMMA RefinementInvariant == Spec => []RInv
<1>1. Init => DueOnce /\ OneKey
  BY DEF Init, DueOnce, OneKey, Key, NoPage
<1>2. IInv /\ DueOnce /\ OneKey /\ [Next]_vars => DueOnce' /\ OneKey'
  <2> SUFFICES ASSUME IInv, DueOnce, OneKey, [Next]_vars PROVE DueOnce' /\ OneKey'
    OBVIOUS
  <2>1. OneKey'
    <3> SUFFICES ASSUME NEW m \in Msg, NEW k \in Nat \cup Rand, NEW l \in Nat \cup Rand,
                        Key(m, k)', Key(m, l)'
                 PROVE  k = l
      BY DEF OneKey
    <3>1. Key(m, k) \/ (m \notin received /\ k = nextPk)
      BY KeyStep
    <3>2. Key(m, l) \/ (m \notin received /\ l = nextPk)
      BY KeyStep
    <3> QED
      BY <3>1, <3>2, KeyArrived DEF OneKey
  <2> QED
    BY <2>1, DueOnceStep
<1> QED
  BY <1>1, <1>2, Invariance, PTL DEF Spec, RInv
-----------------------------------------------------------------------------
\* What the refinement shows changes only with what it is made of.
LEMMA MapUnchanged ==
  /\ rows' = rows => StoredNow' = StoredNow
  /\ (inHand' = inHand /\ queue' = queue) => DueNow' = DueNow
  /\ pages' = pages => ShownNow' = ShownNow
BY DEF StoredNow, DueNow, ShownNow, RandsIn, RowsOf

\* An event with the random id "rand" comes up on the open pages, or nothing
\* does when it is no message that pages list.
LEMMA BroadcastShows ==
  ASSUME TypeOK, NEW id \in Nat \cup Rand, NEW rand \in Rand, Broadcast(id, rand)
  PROVE  IF rand \in Loud
         THEN ShownNow' = [i \in 1..MaxDepth |->
                IF i <= depth THEN ShownNow[i] \cup {rand} ELSE ShownNow[i]]
         ELSE ShownNow' = ShownNow
<1> USE DEF Slot
<1>1. ASSUME NEW i \in Slot
      PROVE  RandsIn(pages'[i].list) =
               IF rand \in Loud /\ i <= depth THEN RandsIn(pages[i].list) \cup {rand}
                                              ELSE RandsIn(pages[i].list)
  <2>1. \A e \in pages'[i].list \ pages[i].list : e.rand = rand
    BY BroadcastEffect
  <2>2. pages[i].list \subseteq pages'[i].list
    BY BroadcastEffect
  <2>3. i <= depth /\ rand \in Loud => \E e \in pages'[i].list : e.rand = rand
    BY BroadcastEffect DEF Loud
  <2>4. ~(i <= depth) => pages'[i] = pages[i]
    BY DEF Broadcast
  <2> QED
    BY <2>1, <2>2, <2>3, <2>4 DEF RandsIn
<1> QED
  BY <1>1 DEF ShownNow

\* Every step of the message path is a step of the promise, or none.
LEMMA Simulates ==
  ASSUME RInv, RInv', [Next]_vars
  PROVE  [Promise!Next]_Promise!vars
<1> USE FlowAssumption DEF RInv, IInv
<1>1. CASE NativeLogin
  BY <1>1, MapUnchanged DEF NativeLogin, Promise!vars
<1>2. CASE setRecvMsgNotify
  <2>1. Promise!Home
    BY <1>2, MapUnchanged DEF setRecvMsgNotify, Promise!Home
  <2> QED
    BY <2>1 DEF Promise!Next
<1>3. ASSUME NEW m \in Msg, NEW c \in Cid, saveMsg(m, c) PROVE [Promise!Next]_Promise!vars
  <2> DEFINE r == [pk |-> nextPk, rand |-> m, cid |-> c]
  <2>1. /\ rows' = rows \cup {r} /\ inHand' = inHand \cup {r}
        /\ r.rand = m /\ r.cid = c
        /\ received' = received \cup {m} /\ m \notin received
        /\ UNCHANGED <<session, queue, depth, pages>>
    BY <1>3 DEF saveMsg
  <2> HIDE DEF r
  <2>2. ShownNow' = ShownNow
    BY <2>1, MapUnchanged
  <2>3. CASE m \in Quiet
    <3>1. StoredNow' = StoredNow
      BY <2>1, <2>3 DEF StoredNow, RandsIn, RowsOf, Loud
    <3>2. DueNow' = DueNow
      BY <2>1, <2>3 DEF DueNow, RandsIn, Loud
    <3> QED
      BY <2>1, <2>2, <2>3, <3>1, <3>2 DEF Promise!vars
  <2>4. CASE m \notin Quiet
    <3>1. \A d \in Cid : StoredNow'[d] = IF d = c THEN StoredNow[d] \cup {m} ELSE StoredNow[d]
      BY <2>1, <2>4 DEF StoredNow, RandsIn, RowsOf, Loud
    <3>2. StoredNow' = [StoredNow EXCEPT ![c] = @ \cup {m}]
      BY <3>1 DEF StoredNow
    <3>3. DueNow' = DueNow \cup {m}
      BY <2>1, <2>4 DEF DueNow, RandsIn, Loud
    <3>4. Promise!Arrive(m, c)
      BY <2>1, <2>2, <2>4, <3>2, <3>3 DEF Promise!Arrive
    <3>5. m \in Loud
      BY <2>4 DEF Loud
    <3> QED
      BY <3>4, <3>5 DEF Promise!Next
  <2> QED
    BY <2>3, <2>4
<1>4. ASSUME NEW r \in inHand, on_recv_msg(r) PROVE [Promise!Next]_Promise!vars
  <2>1. inHand' = inHand \ {r} /\ UNCHANGED <<session, received, rows, depth, pages>>
    BY <1>4 DEF on_recv_msg
  <2>2. StoredNow' = StoredNow /\ ShownNow' = ShownNow
    BY <2>1, MapUnchanged
  <2>3. CASE session = "home"
    <3>1. queue' = Append(queue, r) /\ queue \in Seq(Row)
      BY <1>4, <2>3 DEF on_recv_msg, TypeOK
    <3>2. {queue'[k] : k \in 1..Len(queue')} = {queue[k] : k \in 1..Len(queue)} \cup {r}
      BY <3>1
    <3>3. DueNow' = DueNow
      BY <2>1, <3>2 DEF DueNow, RandsIn
    <3> QED
      BY <2>1, <2>2, <3>3 DEF Promise!vars
  <2>4. CASE session # "home"
    <3>1. queue = <<>> /\ queue' = queue
      BY <1>4, <2>4 DEF on_recv_msg, DueOnce
    <3>2. DueNow = RandsIn(inHand) /\ DueNow' = RandsIn(inHand')
      BY <3>1 DEF DueNow, RandsIn
    <3>3. \A q \in inHand : q.rand = r.rand => q = r
      BY DEF DueOnce
    <3>4. DueNow' = DueNow \ {r.rand}
      BY <2>1, <3>2, <3>3 DEF RandsIn
    <3>5. CASE r.rand \in Loud
      <4>1. r.rand \in DueNow
        BY <3>2, <3>5 DEF RandsIn
      <4>2. Promise!Drop(r.rand)
        BY <2>1, <2>2, <2>4, <3>4, <4>1 DEF Promise!Drop
      <4> QED
        BY <3>5, <4>2 DEF Promise!Next
    <3>6. CASE r.rand \notin Loud
      <4>1. DueNow' = DueNow
        BY <3>2, <3>4, <3>6 DEF RandsIn
      <4> QED
        BY <2>1, <2>2, <4>1 DEF Promise!vars
    <3> QED
      BY <3>5, <3>6
  <2> QED
    BY <2>3, <2>4
<1>5. CASE Deliver
  <2> DEFINE q == Head(queue)
  <2>1. /\ inHand' = inHand /\ queue' = Tail(queue) /\ queue # <<>> /\ queue \in Seq(Row)
        /\ UNCHANGED <<session, received, rows, depth>>
    BY <1>5 DEF Deliver, TypeOK
  <2>2. q \in Row /\ q = queue[1] /\ 1 \in 1..Len(queue)
    BY <2>1
  <2>3. Broadcast(q.pk, q.rand) /\ q.pk \in Nat \cup Rand /\ q.rand \in Rand
    BY <1>5, <2>2 DEF Deliver, Row
  <2>4. session = "home" /\ StoredNow' = StoredNow
    BY <2>1, MapUnchanged DEF DueOnce
  <2>5. \A k \in 1..Len(queue') : k + 1 \in 1..Len(queue) /\ queue'[k] = queue[k + 1]
    BY <2>1
  <2>6. \A k \in 1..Len(queue) : k = 1 \/ (k - 1 \in 1..Len(queue') /\ queue'[k - 1] = queue[k])
    BY <2>1
  <2> HIDE DEF q
  <2>7. {queue[k] : k \in 1..Len(queue)} = {queue'[k] : k \in 1..Len(queue')} \cup {q}
    BY <2>2, <2>5, <2>6
  <2>8. /\ \A r \in inHand : r.rand # q.rand
        /\ \A k \in 1..Len(queue') : queue'[k].rand # q.rand
    BY <2>2, <2>5 DEF DueOnce
  <2>9. DueNow' = DueNow \ {q.rand}
    <3> DEFINE before == {queue[k] : k \in 1..Len(queue)}
               after  == {queue'[k] : k \in 1..Len(queue')}
    <3>1. before = after \cup {q} /\ \A r \in after \cup inHand : r.rand # q.rand
      BY <2>7, <2>8
    <3>2. DueNow = RandsIn(inHand) \cup RandsIn(before) /\ DueNow' = RandsIn(inHand) \cup RandsIn(after)
      BY <2>1 DEF DueNow, RandsIn
    <3> HIDE DEF before, after
    <3> QED
      BY <3>1, <3>2 DEF RandsIn
  <2>10. CASE q.rand \in Loud
    <3>1. q.rand \in DueNow
      BY <2>7, <2>10 DEF DueNow, RandsIn
    <3>2. Promise!ComeUp(q.rand)
      BY <2>1, <2>3, <2>4, <2>9, <2>10, <3>1, BroadcastShows DEF Promise!ComeUp
    <3> QED
      BY <2>10, <3>2 DEF Promise!Next
  <2>11. CASE q.rand \notin Loud
    <3>1. DueNow' = DueNow
      BY <2>9, <2>11 DEF DueNow, RandsIn
    <3>2. ShownNow' = ShownNow
      BY <2>3, <2>11, BroadcastShows
    <3> QED
      BY <2>1, <2>4, <3>1, <3>2 DEF Promise!vars
  <2> QED
    BY <2>10, <2>11
<1>6. ASSUME NEW c \in Cid, OpenPage(c) PROVE [Promise!Next]_Promise!vars
  BY <1>6, MapUnchanged DEF OpenPage, Promise!vars
<1>7. CASE getChatMsgData
  <2>1. /\ opening \in Cid /\ session = "home" /\ depth < MaxDepth /\ depth \in Nat
        /\ depth' = depth + 1
        /\ UNCHANGED <<session, received, rows, inHand, queue>>
    BY <1>7 DEF getChatMsgData, TypeOK, StackOK
  <2>2. StoredNow' = StoredNow /\ DueNow' = DueNow
    BY <2>1, MapUnchanged
  <2>3. \A i \in Slot : IF i = depth + 1
          THEN pages'[i].list = {[id |-> r.pk, rand |-> r.rand, at |-> r.pk] : r \in RowsOf(opening)}
          ELSE pages'[i] = pages[i]
    BY <1>7 DEF getChatMsgData, TypeOK
  <2>4. RandsIn({[id |-> r.pk, rand |-> r.rand, at |-> r.pk] : r \in RowsOf(opening)})
          = StoredNow[opening]
    <3> DEFINE entry(r) == [id |-> r.pk, rand |-> r.rand, at |-> r.pk]
    <3>1. \A r \in RowsOf(opening) : entry(r).rand = r.rand
      OBVIOUS
    <3>2. StoredNow[opening] = {r.rand : r \in RowsOf(opening)} \cap Loud
      BY <2>1 DEF RandsIn, StoredNow
    <3> HIDE DEF entry
    <3>3. {e.rand : e \in {entry(r) : r \in RowsOf(opening)}} = {r.rand : r \in RowsOf(opening)}
      BY <3>1
    <3>4. RandsIn({entry(r) : r \in RowsOf(opening)}) = StoredNow[opening]
      BY <3>2, <3>3 DEF RandsIn
    <3> QED
      BY <3>4 DEF entry
  <2>5. \A i \in Slot : ShownNow'[i] = IF i = depth + 1 THEN StoredNow[opening] ELSE ShownNow[i]
    BY <2>3, <2>4 DEF ShownNow
  <2>6. ShownNow' = [ShownNow EXCEPT ![depth + 1] = StoredNow[opening]]
    BY <2>5 DEF ShownNow
  <2>7. Promise!Open(opening)
    BY <2>1, <2>2, <2>6 DEF Promise!Open
  <2> QED
    BY <2>1, <2>7 DEF Promise!Next
<1>8. CASE ClosePage
  <2>1. /\ depth > 0 /\ depth' = depth - 1
        /\ UNCHANGED <<session, received, rows, inHand, queue>>
    BY <1>8 DEF ClosePage
  <2>2. StoredNow' = StoredNow /\ DueNow' = DueNow
    BY <2>1, MapUnchanged
  <2>3. \A i \in Slot : IF i = depth THEN pages'[i].list = {} ELSE pages'[i] = pages[i]
    BY <1>8 DEF ClosePage, TypeOK, NoPage
  <2>4. \A i \in Slot : ShownNow'[i] = IF i = depth THEN {} ELSE ShownNow[i]
    BY <2>3 DEF ShownNow, RandsIn
  <2>5. ShownNow' = [ShownNow EXCEPT ![depth] = {}]
    BY <2>4 DEF ShownNow
  <2>6. Promise!Close
    BY <2>1, <2>2, <2>5 DEF Promise!Close
  <2> QED
    BY <2>6 DEF Promise!Next
\* What the user sends is no message of a peer.
<1>9. ASSUME NEW s \in Own, NEW c, Send(s, c), UNCHANGED <<session, received, inHand, queue, depth>>
      PROVE  UNCHANGED Promise!vars
  <2>1. Broadcast(s, s) /\ s \in Nat \cup Rand /\ s \in Rand /\ s \notin Loud
    BY <1>9 DEF Send, Rand, Loud
  <2> DEFINE r == [pk |-> nextPk, rand |-> s, cid |-> c]
  <2>2. rows' = rows \cup {r} /\ r.rand = s
    BY <1>9 DEF Send
  <2> HIDE DEF r
  <2>3. StoredNow' = StoredNow
    BY <2>1, <2>2 DEF StoredNow, RowsOf, RandsIn
  <2>4. ShownNow' = ShownNow
    BY <2>1, BroadcastShows
  <2> QED
    BY <1>9, <2>3, <2>4, MapUnchanged DEF Promise!vars
<1>10. ASSUME NEW s \in Own, sendMsg(s) PROVE [Promise!Next]_Promise!vars
  BY <1>9, <1>10 DEF sendMsg
<1>11. ASSUME NEW s \in Own, NEW c \in Cid, sendFileMsg(s, c) PROVE [Promise!Next]_Promise!vars
  BY <1>9, <1>11 DEF sendFileMsg
<1>12. CASE pickFile \/ \E c \in Cid : fileMissing(c)
  BY <1>12, MapUnchanged DEF pickFile, fileMissing, Promise!vars
\* The deleted key stands for one message on every page and in the table.
<1>13. ASSUME NEW e \in UNION {pages[i].list : i \in Slot}, delMsg(e)
       PROVE  [Promise!Next]_Promise!vars
  <2> DEFINE gone == {m \in Loud : Key(m, e.id)}
  <2>1. /\ rows' = {r \in rows : r.pk # e.id}
        /\ UNCHANGED <<session, received, inHand, queue, depth>>
    BY <1>13 DEF delMsg, Erase
  <2>2. e \in Entry /\ e.id \in Nat \cup Rand
    BY DEF TypeOK, Page, Entry
  <2>3. \A r \in rows : r.rand \in Loud => (r.pk = e.id <=> r.rand \in gone)
    <3> SUFFICES ASSUME NEW r \in rows, r.rand \in Loud
                 PROVE  r.pk = e.id <=> Key(r.rand, e.id)
      OBVIOUS
    <3>1. r.pk \in Nat \cup Rand /\ Key(r.rand, r.pk) /\ r.rand \in Msg
      BY DEF TypeOK, Row, Key, Loud
    <3> QED
      BY <2>2, <3>1 DEF OneKey
  <2>4. \A i \in Slot : \A f \in pages[i].list : f.rand \in Loud => (f.id = e.id <=> f.rand \in gone)
    <3> SUFFICES ASSUME NEW i \in Slot, NEW f \in pages[i].list, f.rand \in Loud
                 PROVE  f.id = e.id <=> Key(f.rand, e.id)
      OBVIOUS
    <3>1. f.id \in Nat \cup Rand /\ Key(f.rand, f.id) /\ f.rand \in Msg
      BY DEF TypeOK, Page, Entry, Key, Loud
    <3> QED
      BY <2>2, <3>1 DEF OneKey
  <2> HIDE DEF gone
  <2>5. \A c \in Cid : StoredNow'[c] = StoredNow[c] \ gone
    BY <2>1, <2>3 DEF StoredNow, RowsOf, RandsIn
  <2>6. \A i \in Slot : pages'[i].list = {f \in pages[i].list : f.id # e.id}
    <3> SUFFICES ASSUME NEW i \in Slot PROVE pages'[i].list = {f \in pages[i].list : f.id # e.id}
      OBVIOUS
    <3>1. CASE i <= depth
      BY <1>13, <3>1 DEF delMsg, TypeOK, removeWhere, Page
    <3>2. CASE ~(i <= depth)
      <4>1. i > depth
        BY <3>2 DEF TypeOK
      <4>2. pages[i].list = {} /\ pages'[i] = pages[i]
        BY <1>13, <3>2, <4>1 DEF delMsg, StackOK, NoPage
      <4> QED
        BY <4>2
    <3> QED
      BY <3>1, <3>2
  <2>7. \A i \in Slot : ShownNow'[i] = ShownNow[i] \ gone
    BY <2>4, <2>6 DEF ShownNow, RandsIn
  <2>8. StoredNow' = [c \in Cid |-> StoredNow[c] \ gone]
    BY <2>5 DEF StoredNow
  <2>9. ShownNow' = [i \in 1..MaxDepth |-> ShownNow[i] \ gone]
    BY <2>7 DEF ShownNow, Slot
  <2>10. Promise!Forget(gone)
    BY <2>1, <2>8, <2>9, MapUnchanged DEF Promise!Forget
  <2>11. gone \in SUBSET Loud
    BY DEF gone
  <2> QED
    BY <2>10, <2>11 DEF Promise!Next
<1>14. ASSUME NEW c \in Cid, clearConversation(c) PROVE [Promise!Next]_Promise!vars
  <2> DEFINE gone == RandsIn(RowsOf(c))
  <2>1. /\ rows' = rows \ RowsOf(c) /\ depth = 0
        /\ UNCHANGED <<session, received, inHand, queue, depth, pages>>
    BY <1>14 DEF clearConversation, Erase
  <2>2. \A r, q \in rows : r.rand = q.rand => r = q
    BY DEF Known, RowsDistinct
  <2>3. \A d \in Cid : StoredNow'[d] = StoredNow[d] \ gone
    BY <2>1, <2>2 DEF StoredNow, RowsOf, RandsIn
  <2>4. \A i \in Slot : ShownNow[i] = {}
    BY <2>1 DEF ShownNow, RandsIn, StackOK, Slot, NoPage
  <2>5. StoredNow' = [d \in Cid |-> StoredNow[d] \ gone]
    BY <2>3 DEF StoredNow
  <2>6. ShownNow' = [i \in 1..MaxDepth |-> ShownNow[i] \ gone]
    <3>1. ShownNow' = ShownNow
      BY <2>1, MapUnchanged
    <3> QED
      BY <2>4, <3>1 DEF ShownNow, Slot
  <2>7. Promise!Forget(gone)
    BY <2>1, <2>5, <2>6, MapUnchanged DEF Promise!Forget
  <2>8. gone \in SUBSET Loud
    BY DEF RandsIn
  <2> QED
    BY <2>7, <2>8 DEF Promise!Next
<1>15. CASE Kill
  <2>1. /\ session' = "down" /\ depth' = 0
        /\ UNCHANGED <<received, rows>>
    BY <1>15 DEF Kill
  <2>2. DueNow' = {}
    BY <1>15 DEF Kill, DueNow, RandsIn
  <2>3. ShownNow' = [i \in 1..MaxDepth |-> {}]
    BY <1>15 DEF Kill, ShownNow, RandsIn, NoPage, Slot
  <2>4. Promise!Die
    BY <2>1, <2>2, <2>3, MapUnchanged DEF Promise!Die
  <2> QED
    BY <2>4 DEF Promise!Next
<1>16. CASE UNCHANGED vars
  BY <1>16, MapUnchanged DEF vars, Promise!vars
<1> QED
  BY <1>1, <1>2, <1>3, <1>4, <1>5, <1>6, <1>7, <1>8, <1>10, <1>11, <1>12, <1>13, <1>14,
     <1>15, <1>16 DEF Next

\* The message path with its threads, queue, loads and echoes implements what
\* LivePages promises of the open pages.
THEOREM KeepsPromiseTheorem == Spec => KeepsPromise
<1>1. Init => Promise!Init
  BY DEF Init, Promise!Init, StoredNow, DueNow, ShownNow, RandsIn, RowsOf, NoPage, Slot
<1>2. RInv /\ RInv' /\ [Next]_vars => [Promise!Next]_Promise!vars
  BY Simulates
<1> QED
  BY <1>1, <1>2, RefinementInvariant, PTL DEF Spec, KeepsPromise, Promise!Spec
=============================================================================
