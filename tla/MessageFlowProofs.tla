-------------------------- MODULE MessageFlowProofs --------------------------
(***************************************************************************)
(* Theorems about MessageFlow, for any number of conversations, messages,  *)
(* chat pages and receiving threads.                                       *)
(***************************************************************************)
EXTENDS MessageFlow, FiniteSetTheorems, TLAPS

\* The slots up to depth hold pages and the others nothing; a page is open or
\* being opened only after the ports are registered, and only if there is room.
StackOK ==
  /\ (depth > 0 \/ opening # NoCid) => session = "home"
  /\ opening # NoCid => depth < MaxDepth
  /\ \A i \in Slot : IF i > depth THEN pages[i] = NoPage ELSE pages[i].cid \in Cid

\* A row has its key and its random id for itself.
RowsDistinct ==
  /\ \A r \in rows : r.pk < nextPk /\ r.rand \in received \cup sent
  /\ \A r, q \in rows : r.rand = q.rand => r = q

\* The random id of a received message stands for one primary key wherever it is.
InHandKnown ==
  \A q \in inHand : /\ q.rand \in received
                    /\ \A r \in rows : r.rand = q.rand => r.pk = q.pk
QueueKnown ==
  \A k \in 1..Len(queue) : /\ queue[k].rand \in received
                           /\ \A r \in rows : r.rand = queue[k].rand => r.pk = queue[k].pk
PagesKnown ==
  \A i \in Slot : \A e \in pages[i].list :
    /\ e.rand \in received \cup sent
    /\ \A r \in rows : (r.rand = e.rand /\ r.rand \in Msg) => r.pk = e.id

Known == RowsDistinct /\ InHandKnown /\ QueueKnown /\ PagesKnown

IInv ==
  /\ TypeOK
  /\ StackOK
  /\ Known
  /\ NoDuplicates
  /\ NothingMissed
-----------------------------------------------------------------------------
\* What one page makes of an event: nothing leaves the list, at most one entry
\* joins it, and only one whose random id it did not list.
LEMMA HandleEffect ==
  ASSUME NEW page \in Page, NEW id \in Nat \cup Rand, NEW rand \in Rand,
         NEW p, p = handleIncomingMsg(page, id, rand)
  PROVE  /\ p \in Page
         /\ p.cid = page.cid
         /\ page.list \subseteq p.list
         /\ \A e \in p.list \ page.list :
              /\ e = [id |-> id, rand |-> rand, at |-> page.next]
              /\ \A f \in page.list : f.rand # rand
         /\ rand \notin Quiet => \E e \in p.list : e.rand = rand
<1> DEFINE new == [id |-> id, rand |-> rand, at |-> page.next]
<1>1. new \in Entry
  BY DEF Page, Entry
<1>2. CASE rand \in Quiet \/ \E e \in page.list : e.rand = rand
  <2>1. p = page
    BY <1>2 DEF handleIncomingMsg
  <2> QED
    BY <1>2, <2>1
<1>3. CASE ~(rand \in Quiet \/ \E e \in page.list : e.rand = rand)
  <2>1. p = [page EXCEPT !.list = @ \cup {new}, !.next = @ + 1]
    BY <1>3 DEF handleIncomingMsg
  <2>2. p = [cid |-> page.cid, list |-> page.list \cup {new}, next |-> page.next + 1]
    BY <2>1 DEF Page
  <2>3. p \in Page
    BY <1>1, <2>2 DEF Page
  <2>4. /\ p.cid = page.cid
        /\ page.list \subseteq p.list
        /\ \A e \in p.list \ page.list : e = new
    BY <2>2
  <2>5. \A f \in page.list : f.rand # rand
    BY <1>3
  <2>6. \E e \in p.list : e.rand = rand
    <3>1. new \in p.list /\ new.rand = rand
      BY <2>2
    <3> QED
      BY <3>1
  <2> QED
    BY <2>3, <2>4, <2>5, <2>6
<1> QED
  BY <1>2, <1>3

\* What an event makes of the stack of pages.
LEMMA BroadcastEffect ==
  ASSUME TypeOK, NEW id \in Nat \cup Rand, NEW rand \in Rand, Broadcast(id, rand)
  PROVE  /\ pages' \in [Slot -> Page]
         /\ \A i \in Slot :
              /\ pages'[i].cid = pages[i].cid
              /\ i > depth => pages'[i] = pages[i]
              /\ pages[i].list \subseteq pages'[i].list
              /\ \A e \in pages'[i].list \ pages[i].list :
                   /\ e = [id |-> id, rand |-> rand, at |-> pages[i].next]
                   /\ \A f \in pages[i].list : f.rand # rand
              /\ (i <= depth /\ rand \notin Quiet)
                   => \E e \in pages'[i].list : e.rand = rand
<1> USE DEF Slot
<1>1. ASSUME NEW i \in Slot, i <= depth
      PROVE  pages'[i] = handleIncomingMsg(pages[i], id, rand)
  BY <1>1 DEF Broadcast
<1>2. ASSUME NEW i \in Slot, ~(i <= depth)
      PROVE  pages'[i] = pages[i]
  BY <1>2 DEF Broadcast
<1>3. \A i \in Slot : pages[i] \in Page
  BY DEF TypeOK
<1>4. ASSUME NEW i \in Slot
      PROVE  /\ pages'[i] \in Page
             /\ pages'[i].cid = pages[i].cid
             /\ i > depth => pages'[i] = pages[i]
             /\ pages[i].list \subseteq pages'[i].list
             /\ \A e \in pages'[i].list \ pages[i].list :
                  /\ e = [id |-> id, rand |-> rand, at |-> pages[i].next]
                  /\ \A f \in pages[i].list : f.rand # rand
             /\ (i <= depth /\ rand \notin Quiet)
                  => \E e \in pages'[i].list : e.rand = rand
  <2>1. CASE i <= depth
    <3>1. pages'[i] = handleIncomingMsg(pages[i], id, rand)
      BY <1>1, <2>1
    <3>2. ~(i > depth)
      BY <2>1, FlowAssumption DEF TypeOK
    <3>3. pages[i] \in Page
      BY <1>3
    <3> QED
      BY <2>1, <3>1, <3>2, <3>3, HandleEffect
  <2>2. CASE ~(i <= depth)
    BY <1>2, <1>3, <2>2
  <2> QED
    BY <2>1, <2>2
<1>5. pages' \in [Slot -> Page]
  BY <1>4 DEF Broadcast
<1> QED
  BY <1>4, <1>5
-----------------------------------------------------------------------------
LEMMA TypeInit == Init => TypeOK /\ StackOK
<1> SUFFICES ASSUME Init PROVE TypeOK /\ StackOK
  OBVIOUS
<1>1. NoPage \in Page
  BY DEF NoPage, Page
<1>2. pages \in [Slot -> Page]
  BY <1>1 DEF Init
<1>3. depth \in 0..MaxDepth
  BY FlowAssumption DEF Init
<1>4. queue \in Seq(Row)
  BY DEF Init
<1>5. TypeOK
  BY <1>2, <1>3, <1>4 DEF Init, TypeOK
<1>6. StackOK
  BY DEF Init, StackOK, Slot
<1> QED
  BY <1>5, <1>6

LEMMA TypeStep ==
  ASSUME TypeOK, StackOK, [Next]_vars
  PROVE  TypeOK' /\ StackOK'
<1> USE FlowAssumption DEF Slot
<1>1. CASE NativeLogin
  BY <1>1 DEF TypeOK, StackOK, NativeLogin
<1>2. CASE setRecvMsgNotify
  BY <1>2 DEF TypeOK, StackOK, setRecvMsgNotify
<1>3. ASSUME NEW m \in Msg, NEW c \in Cid, saveMsg(m, c) PROVE TypeOK' /\ StackOK'
  <2> DEFINE r == [pk |-> nextPk, rand |-> m, cid |-> c]
  <2>1. r \in Row
    BY DEF TypeOK, Row, Rand
  <2>2. rows' \subseteq Row /\ inHand' \subseteq Row
    BY <1>3, <2>1 DEF TypeOK, saveMsg
  <2>3. nextPk' \in Nat \ {0} /\ unread' \subseteq Nat /\ received' \subseteq Msg
    BY <1>3 DEF TypeOK, saveMsg
  <2> QED
    BY <1>3, <2>2, <2>3 DEF TypeOK, StackOK, saveMsg
<1>4. ASSUME NEW r \in inHand, on_recv_msg(r) PROVE TypeOK' /\ StackOK'
  <2>1. r \in Row
    BY DEF TypeOK
  <2>2. queue' \in Seq(Row)
    BY <1>4, <2>1 DEF TypeOK, on_recv_msg
  <2> QED
    BY <1>4, <2>2 DEF TypeOK, StackOK, on_recv_msg
<1>5. CASE Deliver
  <2>1. Head(queue) \in Row /\ queue' \in Seq(Row)
    BY <1>5 DEF TypeOK, Deliver
  <2>2. Head(queue).pk \in Nat \cup Rand /\ Head(queue).rand \in Rand
    BY <2>1 DEF Row
  <2>3. Broadcast(Head(queue).pk, Head(queue).rand)
    BY <1>5 DEF Deliver
  <2>4. pages' \in [Slot -> Page]
    BY <2>2, <2>3, BroadcastEffect
  <2>5. \A i \in Slot : /\ pages'[i].cid = pages[i].cid
                        /\ i > depth => pages'[i] = pages[i]
    BY <2>2, <2>3, BroadcastEffect
  <2>6. TypeOK'
    BY <1>5, <2>1, <2>4 DEF TypeOK, Deliver
  <2>7. StackOK'
    BY <1>5, <2>5 DEF StackOK, Deliver
  <2> QED
    BY <2>6, <2>7
<1>6. ASSUME NEW c \in Cid, OpenPage(c) PROVE TypeOK' /\ StackOK'
  <2>1. unread' \subseteq Nat
    BY <1>6 DEF TypeOK, OpenPage
  <2> QED
    BY <1>6, <2>1 DEF TypeOK, StackOK, OpenPage
<1>7. CASE getChatMsgData
  <2> DEFINE list == {[id |-> r.pk, rand |-> r.rand, at |-> r.pk] : r \in RowsOf(opening)}
             new  == [cid |-> opening, list |-> list, next |-> nextPk]
  <2>1. list \subseteq Entry
    BY DEF TypeOK, RowsOf, Row, Entry
  <2>2. new \in Page
    BY <1>7, <2>1 DEF TypeOK, Page
  <2>3. pages' = [pages EXCEPT ![depth + 1] = new]
    BY <1>7 DEF getChatMsgData
  <2>4. pages' \in [Slot -> Page]
    BY <2>2, <2>3 DEF TypeOK
  <2>5. depth' \in 0..MaxDepth /\ opening' = NoCid
    BY <1>7 DEF TypeOK, StackOK, getChatMsgData
  <2>6. opening \in Cid /\ new.cid = opening
    BY <1>7 DEF TypeOK, getChatMsgData
  <2>7. \A i \in Slot : IF i > depth' THEN pages'[i] = NoPage ELSE pages'[i].cid \in Cid
    <3> SUFFICES ASSUME NEW i \in Slot
                 PROVE  IF i > depth' THEN pages'[i] = NoPage ELSE pages'[i].cid \in Cid
      OBVIOUS
    <3>1. depth' = depth + 1 /\ depth \in Nat
      BY <1>7 DEF TypeOK, getChatMsgData
    <3>2. CASE i = depth + 1
      BY <2>3, <2>6, <3>1, <3>2 DEF TypeOK
    <3>3. CASE i # depth + 1
      <4>1. pages'[i] = pages[i]
        BY <2>3, <3>3 DEF TypeOK
      <4>2. i > depth' <=> i > depth
        BY <3>1, <3>3
      <4> QED
        BY <4>1, <4>2 DEF StackOK
    <3> QED
      BY <3>2, <3>3
  <2> QED
    BY <1>7, <2>4, <2>5, <2>7 DEF TypeOK, StackOK, getChatMsgData
<1>8. CASE ClosePage
  <2>1. NoPage \in Page
    BY DEF NoPage, Page
  <2>2. pages' \in [Slot -> Page]
    BY <1>8, <2>1 DEF TypeOK, ClosePage
  <2>3. depth' \in 0..MaxDepth
    BY <1>8 DEF TypeOK, ClosePage
  <2>4. TypeOK'
    BY <1>8, <2>2, <2>3 DEF TypeOK, ClosePage
  <2>5. StackOK'
    BY <1>8 DEF TypeOK, StackOK, ClosePage, Idle
  <2> QED
    BY <2>4, <2>5
<1>9. ASSUME NEW s \in Own, NEW c \in Cid, Send(s, c), checking' \subseteq Cid,
             UNCHANGED <<session, received, unread, inHand, queue, opening, depth>>
      PROVE  TypeOK' /\ StackOK'
  <2> DEFINE r == [pk |-> nextPk, rand |-> s, cid |-> c]
  <2>1. s \in Nat \cup Rand /\ s \in Rand
    BY DEF Rand
  <2>2. Broadcast(s, s)
    BY <1>9 DEF Send
  <2>3. pages' \in [Slot -> Page]
    BY <2>1, <2>2, BroadcastEffect
  <2>4. \A i \in Slot : /\ pages'[i].cid = pages[i].cid
                        /\ i > depth => pages'[i] = pages[i]
    BY <2>1, <2>2, BroadcastEffect
  <2>6. r \in Row
    BY <2>1 DEF TypeOK, Row
  <2>7. rows' \subseteq Row /\ nextPk' \in Nat \ {0} /\ sent' \subseteq Own
    BY <1>9, <2>6 DEF TypeOK, Send
  <2>8. TypeOK'
    BY <1>9, <2>3, <2>7 DEF TypeOK
  <2>9. StackOK'
    BY <1>9, <2>4 DEF StackOK
  <2> QED
    BY <2>8, <2>9
<1>14. ASSUME NEW s \in Own, sendMsg(s) PROVE TypeOK' /\ StackOK'
  <2>1. pages[depth].cid \in Cid
    BY <1>14 DEF TypeOK, StackOK, sendMsg
  <2> QED
    BY <1>9, <1>14, <2>1 DEF TypeOK, sendMsg
<1>15. ASSUME NEW s \in Own, NEW c \in Cid, sendFileMsg(s, c) PROVE TypeOK' /\ StackOK'
  BY <1>9, <1>15 DEF TypeOK, sendFileMsg
<1>16. CASE pickFile
  <2>1. checking' \subseteq Cid
    BY <1>16 DEF TypeOK, StackOK, pickFile
  <2> QED
    BY <1>16, <2>1 DEF TypeOK, StackOK, pickFile
<1>17. ASSUME NEW c \in Cid, fileMissing(c) PROVE TypeOK' /\ StackOK'
  BY <1>17 DEF TypeOK, StackOK, fileMissing
<1>10. ASSUME NEW e, delMsg(e) PROVE TypeOK' /\ StackOK'
  <2>1. \A i \in Slot : removeWhere(pages[i], e.id) \in Page
    <3> SUFFICES ASSUME NEW i \in Slot PROVE removeWhere(pages[i], e.id) \in Page
      OBVIOUS
    <3>1. pages[i] \in Page
      BY DEF TypeOK
    <3> QED
      BY <3>1 DEF Page, removeWhere
  <2>2. pages' \in [Slot -> Page]
    BY <1>10, <2>1 DEF TypeOK, delMsg
  <2>3. rows' \subseteq Row /\ unread' \subseteq Nat
    BY <1>10 DEF TypeOK, delMsg, Erase
  <2>4. TypeOK'
    BY <1>10, <2>2, <2>3 DEF TypeOK, delMsg
  <2>5. \A i \in Slot : /\ pages'[i].cid = pages[i].cid
                        /\ i > depth => pages'[i] = pages[i]
    <3> SUFFICES ASSUME NEW i \in Slot
                 PROVE  /\ pages'[i].cid = pages[i].cid
                        /\ i > depth => pages'[i] = pages[i]
      OBVIOUS
    <3>1. pages'[i] = IF i <= depth THEN removeWhere(pages[i], e.id) ELSE pages[i]
      BY <1>10 DEF delMsg
    <3>2. pages[i] \in Page
      BY DEF TypeOK
    <3>3. removeWhere(pages[i], e.id).cid = pages[i].cid
      BY <3>2 DEF removeWhere, Page
    <3> QED
      BY <3>1, <3>3 DEF TypeOK
  <2>6. StackOK'
    BY <1>10, <2>5 DEF StackOK, delMsg
  <2> QED
    BY <2>4, <2>6
<1>11. ASSUME NEW c \in Cid, clearConversation(c) PROVE TypeOK' /\ StackOK'
  BY <1>11 DEF TypeOK, StackOK, clearConversation, Erase
<1>12. CASE Kill
  <2>1. NoPage \in Page
    BY DEF NoPage, Page
  <2>2. pages' \in [Slot -> Page]
    BY <1>12, <2>1 DEF Kill
  <2>3. queue' \in Seq(Row)
    BY <1>12 DEF Kill
  <2> QED
    BY <1>12, <2>2, <2>3 DEF TypeOK, StackOK, Kill
<1>13. CASE UNCHANGED vars
  BY <1>13 DEF vars, TypeOK, StackOK
<1> QED
  BY <1>1, <1>2, <1>3, <1>4, <1>5, <1>6, <1>7, <1>8, <1>9, <1>10, <1>11, <1>12, <1>13,
     <1>14, <1>15, <1>16, <1>17 DEF Next

\* Every variable keeps its type (the whole module).
THEOREM TypeCorrect == Spec => []TypeOK
<1>1. TypeOK /\ StackOK /\ [Next]_vars => (TypeOK /\ StackOK)'
  BY TypeStep
<1> QED
  BY TypeInit, <1>1, PTL DEF Spec
-----------------------------------------------------------------------------
LEMMA KnownStep ==
  ASSUME TypeOK, TypeOK', StackOK, Known, [Next]_vars
  PROVE  Known'
<1> USE FlowAssumption DEF Slot, Rand
<1>1. CASE NativeLogin
  BY <1>1 DEF Known, RowsDistinct, InHandKnown, QueueKnown, PagesKnown, NativeLogin
<1>2. CASE setRecvMsgNotify
  BY <1>2 DEF Known, RowsDistinct, InHandKnown, QueueKnown, PagesKnown, setRecvMsgNotify
<1>3. ASSUME NEW m \in Msg, NEW c \in Cid, saveMsg(m, c) PROVE Known'
  <2> DEFINE r == [pk |-> nextPk, rand |-> m, cid |-> c]
  <2>1. m \notin received \cup sent
    BY <1>3 DEF saveMsg, TypeOK
  <2>2. rows' = rows \cup {r} /\ inHand' = inHand \cup {r} /\ received' = received \cup {m}
    BY <1>3 DEF saveMsg
  <2>3. nextPk' = nextPk + 1 /\ nextPk \in Nat /\ r.pk = nextPk /\ r.rand = m
    BY <1>3 DEF saveMsg, TypeOK
  <2>4. rows \subseteq Row
    BY DEF TypeOK
  <2>5. \A q \in rows : q.rand # m /\ q.pk \in Nat
    BY <2>1, <2>4 DEF Known, RowsDistinct, Row
  <2>6. RowsDistinct'
    BY <1>3, <2>1, <2>2, <2>3, <2>5 DEF Known, RowsDistinct, saveMsg
  <2>7. InHandKnown'
    BY <2>1, <2>2, <2>3, <2>5 DEF Known, InHandKnown
  <2>8. QueueKnown'
    BY <1>3, <2>1, <2>2, <2>3, <2>5 DEF Known, QueueKnown, saveMsg
  <2>9. PagesKnown'
    BY <1>3, <2>1, <2>2, <2>3, <2>5 DEF Known, PagesKnown, saveMsg
  <2> QED
    BY <2>6, <2>7, <2>8, <2>9 DEF Known
<1>4. ASSUME NEW r \in inHand, on_recv_msg(r) PROVE Known'
  <2>1. InHandKnown' /\ RowsDistinct' /\ PagesKnown'
    BY <1>4 DEF Known, RowsDistinct, InHandKnown, PagesKnown, on_recv_msg
  <2>2. \A k \in 1..Len(queue') : queue'[k] = r \/ (k \in 1..Len(queue) /\ queue'[k] = queue[k])
    BY <1>4 DEF TypeOK, on_recv_msg
  <2>3. QueueKnown'
    BY <1>4, <2>2 DEF Known, InHandKnown, QueueKnown, on_recv_msg
  <2> QED
    BY <2>1, <2>3 DEF Known
<1>5. CASE Deliver
  <2> DEFINE q == Head(queue)
  <2>1. q \in Row /\ q = queue[1] /\ 1 \in 1..Len(queue)
    BY <1>5 DEF TypeOK, Deliver
  <2>2. q.rand \in received /\ \A r \in rows : r.rand = q.rand => r.pk = q.pk
    BY <2>1 DEF Known, QueueKnown
  <2>3. RowsDistinct' /\ InHandKnown'
    BY <1>5 DEF Known, RowsDistinct, InHandKnown, Deliver
  <2>4. \A k \in 1..Len(queue') : k + 1 \in 1..Len(queue) /\ queue'[k] = queue[k + 1]
    BY <1>5 DEF TypeOK, Deliver
  <2>5. QueueKnown'
    BY <1>5, <2>4 DEF Known, QueueKnown, Deliver
  <2>6. Broadcast(q.pk, q.rand) /\ q.pk \in Nat \cup Rand /\ q.rand \in Rand
    BY <1>5, <2>1 DEF Deliver, Row
  <2>7. \A i \in Slot : \A e \in pages'[i].list \ pages[i].list : e.id = q.pk /\ e.rand = q.rand
    <3>1. \A i \in Slot : \A e \in pages'[i].list \ pages[i].list :
            e = [id |-> q.pk, rand |-> q.rand, at |-> pages[i].next]
      BY <2>6, BroadcastEffect
    <3> QED
      BY <3>1
  <2>8. PagesKnown'
    BY <1>5, <2>2, <2>7 DEF Known, PagesKnown, Deliver
  <2> QED
    BY <2>3, <2>5, <2>8 DEF Known
<1>6. ASSUME NEW c \in Cid, OpenPage(c) PROVE Known'
  BY <1>6 DEF Known, RowsDistinct, InHandKnown, QueueKnown, PagesKnown, OpenPage
<1>7. CASE getChatMsgData
  <2>1. RowsDistinct' /\ InHandKnown' /\ QueueKnown'
    BY <1>7 DEF Known, RowsDistinct, InHandKnown, QueueKnown, getChatMsgData
  <2>2. ASSUME NEW i \in Slot, NEW e \in pages'[i].list
        PROVE  \/ e \in pages[i].list
               \/ \E r \in rows : e.id = r.pk /\ e.rand = r.rand
    <3>1. CASE i = depth + 1
      <4>1. pages'[i].list
              = {[id |-> r.pk, rand |-> r.rand, at |-> r.pk] : r \in RowsOf(opening)}
        BY <1>7, <3>1 DEF TypeOK, getChatMsgData
      <4> QED
        BY <2>2, <4>1 DEF RowsOf
    <3>2. CASE i # depth + 1
      BY <1>7, <2>2, <3>2 DEF TypeOK, getChatMsgData
    <3> QED
      BY <3>1, <3>2
  <2>3. PagesKnown'
    <3> SUFFICES ASSUME NEW i \in Slot, NEW e \in pages'[i].list
                 PROVE  /\ e.rand \in received \cup sent
                        /\ \A r \in rows : (r.rand = e.rand /\ r.rand \in Msg) => r.pk = e.id
      BY <1>7 DEF PagesKnown, getChatMsgData
    <3>1. CASE e \in pages[i].list
      BY <3>1 DEF Known, PagesKnown
    <3>2. CASE \E r \in rows : e.id = r.pk /\ e.rand = r.rand
      BY <3>2 DEF Known, RowsDistinct
    <3> QED
      BY <2>2, <3>1, <3>2
  <2> QED
    BY <2>1, <2>3 DEF Known
<1>8. CASE ClosePage
  <2>1. \A i \in Slot : pages'[i] = pages[i] \/ pages'[i].list = {}
    BY <1>8 DEF TypeOK, ClosePage, NoPage
  <2> QED
    BY <1>8, <2>1 DEF Known, RowsDistinct, InHandKnown, QueueKnown, PagesKnown, ClosePage
<1>9. ASSUME NEW s \in Own, NEW c, Send(s, c),
             UNCHANGED <<received, inHand, queue>>
      PROVE  Known'
  <2> DEFINE r == [pk |-> nextPk, rand |-> s, cid |-> c]
  <2>1. s \notin Msg /\ s \notin received \cup sent
    BY <1>9 DEF Send, TypeOK
  <2>2. rows' = rows \cup {r} /\ sent' = sent \cup {s} /\ nextPk' = nextPk + 1
    BY <1>9 DEF Send
  <2>3. nextPk \in Nat /\ r.pk = nextPk /\ r.rand = s
    BY DEF TypeOK
  <2>4. \A q \in rows : q.rand # s /\ q.pk \in Nat
    BY <2>1 DEF TypeOK, Known, RowsDistinct, Row
  <2>5. RowsDistinct'
    BY <1>9, <2>2, <2>3, <2>4 DEF Known, RowsDistinct
  <2>6. InHandKnown'
    BY <1>9, <2>1, <2>2, <2>3 DEF Known, InHandKnown
  <2>7. QueueKnown'
    BY <1>9, <2>1, <2>2, <2>3 DEF Known, QueueKnown
  <2>8. Broadcast(s, s) /\ s \in Nat \cup Rand /\ s \in Rand
    BY <1>9 DEF Send
  <2>9. \A i \in Slot : \A e \in pages'[i].list \ pages[i].list : e.rand = s
    <3>1. \A i \in Slot : \A e \in pages'[i].list \ pages[i].list :
            e = [id |-> s, rand |-> s, at |-> pages[i].next]
      BY <2>8, BroadcastEffect
    <3> QED
      BY <3>1
  <2>10. PagesKnown'
    BY <1>9, <2>1, <2>2, <2>3, <2>9 DEF Known, PagesKnown
  <2> QED
    BY <2>5, <2>6, <2>7, <2>10 DEF Known
<1>14. ASSUME NEW s \in Own, sendMsg(s) PROVE Known'
  BY <1>9, <1>14 DEF sendMsg
<1>15. ASSUME NEW s \in Own, NEW c \in Cid, sendFileMsg(s, c) PROVE Known'
  BY <1>9, <1>15 DEF sendFileMsg
<1>16. CASE pickFile \/ \E c \in Cid : fileMissing(c)
  BY <1>16
     DEF Known, RowsDistinct, InHandKnown, QueueKnown, PagesKnown, pickFile, fileMissing
<1>10. ASSUME NEW e, delMsg(e) PROVE Known'
  <2>1. rows' \subseteq rows
    BY <1>10 DEF delMsg, Erase
  <2>2. \A i \in Slot : pages'[i].list \subseteq pages[i].list
    BY <1>10 DEF TypeOK, delMsg, removeWhere, Page
  <2> QED
    BY <1>10, <2>1, <2>2 DEF Known, RowsDistinct, InHandKnown, QueueKnown, PagesKnown, delMsg
<1>11. ASSUME NEW c \in Cid, clearConversation(c) PROVE Known'
  <2>1. rows' \subseteq rows
    BY <1>11 DEF clearConversation, Erase
  <2> QED
    BY <1>11, <2>1
       DEF Known, RowsDistinct, InHandKnown, QueueKnown, PagesKnown, clearConversation
<1>12. CASE Kill
  BY <1>12 DEF Known, RowsDistinct, InHandKnown, QueueKnown, PagesKnown, Kill, NoPage
<1>13. CASE UNCHANGED vars
  BY <1>13 DEF vars, Known, RowsDistinct, InHandKnown, QueueKnown, PagesKnown
<1> QED
  BY <1>1, <1>2, <1>3, <1>4, <1>5, <1>6, <1>7, <1>8, <1>9, <1>10, <1>11, <1>12, <1>13,
     <1>14, <1>15, <1>16 DEF Next
-----------------------------------------------------------------------------
LEMMA NoDuplicatesStep ==
  ASSUME TypeOK, TypeOK', StackOK, StackOK', Known, NoDuplicates, [Next]_vars
  PROVE  NoDuplicates'
<1> USE FlowAssumption DEF Slot, Rand
\* An event adds at most one entry to a page, with a random id new to it.
<1>1. ASSUME NEW id \in Nat \cup Rand, NEW rand \in Rand, Broadcast(id, rand), depth' = depth
      PROVE  NoDuplicates'
  <2> SUFFICES ASSUME NEW i \in 1..depth, NEW e \in pages'[i].list, NEW f \in pages'[i].list,
                      e.rand = f.rand
               PROVE  e = f
    BY <1>1 DEF NoDuplicates
  <2>1. i \in Slot
    BY DEF TypeOK
  <2> DEFINE new == [id |-> id, rand |-> rand, at |-> pages[i].next]
  <2>2. \A g \in pages'[i].list \ pages[i].list :
          g = new /\ \A h \in pages[i].list : h.rand # rand
    BY <1>1, <2>1, BroadcastEffect
  <2>3. new.rand = rand
    OBVIOUS
  <2> HIDE DEF new
  <2>4. CASE e \in pages[i].list /\ f \in pages[i].list
    BY <2>4 DEF NoDuplicates
  <2>5. CASE e \notin pages[i].list \/ f \notin pages[i].list
    BY <2>2, <2>3, <2>5
  <2> QED
    BY <2>4, <2>5
\* Every other step leaves a page as it is or takes entries off it.
<1>2. ASSUME \A i \in 1..depth' : i \in 1..depth /\ pages'[i].list \subseteq pages[i].list
      PROVE  NoDuplicates'
  BY <1>2 DEF NoDuplicates
<1>3. CASE NativeLogin \/ setRecvMsgNotify
  BY <1>2, <1>3 DEF NativeLogin, setRecvMsgNotify
<1>4. ASSUME NEW m \in Msg, NEW c \in Cid, saveMsg(m, c) PROVE NoDuplicates'
  BY <1>2, <1>4 DEF saveMsg
<1>5. ASSUME NEW r \in inHand, on_recv_msg(r) PROVE NoDuplicates'
  BY <1>2, <1>5 DEF on_recv_msg
<1>6. CASE Deliver
  <2>1. Head(queue) \in Row
    BY <1>6 DEF TypeOK, Deliver
  <2>2. Head(queue).pk \in Nat \cup Rand /\ Head(queue).rand \in Rand
    BY <2>1 DEF Row
  <2> QED
    BY <1>1, <1>6, <2>2 DEF Deliver
<1>7. ASSUME NEW c \in Cid, OpenPage(c) PROVE NoDuplicates'
  BY <1>2, <1>7 DEF OpenPage
\* Two rows of the table have two random ids.
<1>8. CASE getChatMsgData
  <2> SUFFICES ASSUME NEW i \in 1..depth', NEW e \in pages'[i].list, NEW f \in pages'[i].list,
                      e.rand = f.rand
               PROVE  e = f
    BY DEF NoDuplicates
  <2>1. depth' = depth + 1 /\ i \in Slot /\ depth \in Nat
    BY <1>8 DEF TypeOK, getChatMsgData
  <2>2. CASE i = depth + 1
    <3>1. pages'[i].list
            = {[id |-> r.pk, rand |-> r.rand, at |-> r.pk] : r \in RowsOf(opening)}
      BY <1>8, <2>1, <2>2 DEF TypeOK, getChatMsgData
    <3>2. PICK r \in rows : e = [id |-> r.pk, rand |-> r.rand, at |-> r.pk]
      BY <3>1 DEF RowsOf
    <3>3. PICK q \in rows : f = [id |-> q.pk, rand |-> q.rand, at |-> q.pk]
      BY <3>1 DEF RowsOf
    <3>4. r.rand = q.rand
      BY <3>2, <3>3
    <3>5. r = q
      BY <3>4 DEF Known, RowsDistinct
    <3> QED
      BY <3>2, <3>3, <3>5
  <2>3. CASE i # depth + 1
    <3>1. i \in 1..depth /\ pages'[i] = pages[i]
      BY <1>8, <2>1, <2>3 DEF TypeOK, getChatMsgData
    <3> QED
      BY <3>1 DEF NoDuplicates
  <2> QED
    BY <2>2, <2>3
<1>9. CASE ClosePage
  <2>1. \A i \in 1..depth' : i \in 1..depth /\ pages'[i] = pages[i]
    BY <1>9 DEF TypeOK, ClosePage
  <2> QED
    BY <1>2, <2>1
<1>10. ASSUME NEW s \in Own, NEW c, Send(s, c), depth' = depth PROVE NoDuplicates'
  BY <1>1, <1>10 DEF Send
<1>15. ASSUME NEW s \in Own, sendMsg(s) PROVE NoDuplicates'
  BY <1>10, <1>15 DEF sendMsg
<1>16. ASSUME NEW s \in Own, NEW c \in Cid, sendFileMsg(s, c) PROVE NoDuplicates'
  BY <1>10, <1>16 DEF sendFileMsg
<1>17. CASE pickFile \/ \E c \in Cid : fileMissing(c)
  BY <1>2, <1>17 DEF pickFile, fileMissing
<1>11. ASSUME NEW e, delMsg(e) PROVE NoDuplicates'
  <2>1. \A i \in Slot : pages'[i].list \subseteq pages[i].list
    BY <1>11 DEF TypeOK, delMsg, removeWhere, Page
  <2>2. depth' = depth /\ 1..depth \subseteq Slot
    BY <1>11 DEF TypeOK, delMsg
  <2> QED
    BY <1>2, <2>1, <2>2
<1>12. ASSUME NEW c \in Cid, clearConversation(c) PROVE NoDuplicates'
  BY <1>2, <1>12 DEF clearConversation
<1>13. CASE Kill
  BY <1>2, <1>13 DEF Kill
<1>14. CASE UNCHANGED vars
  BY <1>2, <1>14 DEF vars
<1> QED
  BY <1>3, <1>4, <1>5, <1>6, <1>7, <1>8, <1>9, <1>10, <1>11, <1>12, <1>13,
     <1>14, <1>15, <1>16, <1>17 DEF Next

LEMMA NothingMissedStep ==
  ASSUME TypeOK, TypeOK', StackOK, Known, NothingMissed, [Next]_vars
  PROVE  NothingMissed'
<1> USE FlowAssumption DEF Slot, Rand
<1> DEFINE OnItsWay(r) == r \in inHand \/ Queued(r)
\* A step under which the table gains no row of a peer, pages keep their entries
\* and their conversations and messages on their way stay there misses nothing.
<1>1. ASSUME \A i \in 1..depth' : /\ i \in 1..depth
                                 /\ pages'[i].cid = pages[i].cid
                                 /\ pages[i].list \subseteq pages'[i].list,
             \A r \in rows' : r.rand \in Msg => r \in rows,
             \A r \in rows' : OnItsWay(r) => OnItsWay(r)'
      PROVE  NothingMissed'
  BY <1>1 DEF NothingMissed, Listed
<1>2. CASE NativeLogin \/ setRecvMsgNotify
  BY <1>1, <1>2 DEF NativeLogin, setRecvMsgNotify, Queued
<1>3. ASSUME NEW m \in Msg, NEW c \in Cid, saveMsg(m, c) PROVE NothingMissed'
  <2> DEFINE q == [pk |-> nextPk, rand |-> m, cid |-> c]
  <2>1. rows' = rows \cup {q} /\ inHand' = inHand \cup {q}
    BY <1>3 DEF saveMsg
  <2> HIDE DEF q
  <2> QED
    BY <1>3, <2>1 DEF NothingMissed, saveMsg, Listed, Queued
\* With a page open the port is registered, so the message enters the queue.
<1>4. ASSUME NEW r \in inHand, on_recv_msg(r) PROVE NothingMissed'
  <2>1. CASE depth = 0
    BY <1>4, <2>1 DEF NothingMissed, on_recv_msg
  <2>2. CASE depth # 0
    <3>1. session = "home"
      BY <2>2 DEF StackOK, TypeOK
    <3>2. queue' = Append(queue, r) /\ inHand' = inHand \ {r}
      BY <1>4, <3>1 DEF on_recv_msg
    <3>3. \A k \in 1..Len(queue) : k \in 1..Len(queue') /\ queue'[k] = queue[k]
      BY <3>2 DEF TypeOK
    <3>4. Len(queue') \in 1..Len(queue') /\ queue'[Len(queue')] = r
      BY <3>2 DEF TypeOK
    <3>5. \A q \in rows : OnItsWay(q) => OnItsWay(q)'
      BY <3>2, <3>3, <3>4 DEF Queued
    <3> QED
      BY <1>1, <1>4, <3>5 DEF on_recv_msg
  <2> QED
    BY <2>1, <2>2
\* The message that leaves the queue is on every page afterwards.
<1>5. CASE Deliver
  <2> DEFINE q == Head(queue)
  <2>1. q \in Row /\ queue # <<>>
    BY <1>5 DEF TypeOK, Deliver
  <2>2. Broadcast(q.pk, q.rand) /\ q.pk \in Nat \cup Rand /\ q.rand \in Rand
    BY <1>5, <2>1 DEF Deliver, Row
  <2> SUFFICES ASSUME NEW i \in 1..depth, NEW r \in rows,
                      r.cid = pages'[i].cid, r.rand \in Msg \ Quiet
               PROVE  (Listed(i, r.rand) \/ r \in inHand \/ Queued(r))'
    BY <1>5 DEF NothingMissed, Deliver
  <2>3. i \in Slot /\ i <= depth
    BY DEF TypeOK
  <2>4. /\ pages'[i].cid = pages[i].cid
        /\ pages[i].list \subseteq pages'[i].list
        /\ q.rand \notin Quiet => \E e \in pages'[i].list : e.rand = q.rand
    BY <2>2, <2>3, BroadcastEffect
  <2>5. Listed(i, r.rand) \/ r \in inHand \/ Queued(r)
    BY <2>4 DEF NothingMissed
  <2>6. CASE Listed(i, r.rand) \/ r \in inHand
    BY <1>5, <2>4, <2>6 DEF Listed, Deliver
  <2>7. CASE Queued(r)
    <3>1. PICK k \in 1..Len(queue) : queue[k] = r
      BY <2>7 DEF Queued
    <3>2. CASE k = 1
      <4>1. r = q
        BY <2>1, <3>1, <3>2 DEF TypeOK
      <4> QED
        BY <2>4, <4>1 DEF Listed
    <3>3. CASE k # 1
      <4>1. k - 1 \in 1..Len(queue') /\ queue'[k - 1] = queue[k]
        BY <1>5, <2>1, <3>3 DEF TypeOK, Deliver
      <4> QED
        BY <3>1, <4>1 DEF Queued
    <3> QED
      BY <3>2, <3>3
  <2> QED
    BY <2>5, <2>6, <2>7
<1>6. ASSUME NEW c \in Cid, OpenPage(c) PROVE NothingMissed'
  BY <1>1, <1>6 DEF OpenPage, Queued
\* The page that opens lists every row of its conversation.
<1>7. CASE getChatMsgData
  <2> SUFFICES ASSUME NEW i \in 1..depth', NEW r \in rows,
                      r.cid = pages'[i].cid, r.rand \in Msg \ Quiet
               PROVE  (Listed(i, r.rand) \/ r \in inHand \/ Queued(r))'
    BY <1>7 DEF NothingMissed, getChatMsgData
  <2>1. depth' = depth + 1 /\ i \in Slot /\ depth \in Nat
    BY <1>7 DEF TypeOK, getChatMsgData
  <2>2. CASE i = depth + 1
    <3> DEFINE e == [id |-> r.pk, rand |-> r.rand, at |-> r.pk]
    <3>1. /\ pages'[i].list
               = {[id |-> q.pk, rand |-> q.rand, at |-> q.pk] : q \in RowsOf(opening)}
          /\ pages'[i].cid = opening
      BY <1>7, <2>1, <2>2 DEF TypeOK, getChatMsgData
    <3>2. r \in RowsOf(opening)
      BY <3>1 DEF RowsOf
    <3>3. e \in pages'[i].list /\ e.rand = r.rand
      BY <3>1, <3>2
    <3> QED
      BY <3>3 DEF Listed
  <2>3. CASE i # depth + 1
    <3>1. i \in 1..depth /\ pages'[i] = pages[i]
      BY <1>7, <2>1, <2>3 DEF TypeOK, getChatMsgData
    <3> QED
      BY <1>7, <3>1 DEF NothingMissed, Listed, Queued, getChatMsgData
  <2> QED
    BY <2>2, <2>3
<1>8. CASE ClosePage
  <2>1. \A i \in 1..depth' : i \in 1..depth /\ pages'[i] = pages[i]
    BY <1>8 DEF TypeOK, ClosePage
  <2> QED
    BY <1>1, <1>8, <2>1 DEF ClosePage, Queued
<1>9. ASSUME NEW s \in Own, NEW c, Send(s, c), UNCHANGED <<inHand, queue, depth>>
      PROVE  NothingMissed'
  <2>1. Broadcast(s, s) /\ s \in Nat \cup Rand /\ s \in Rand /\ s \notin Msg
    BY <1>9 DEF Send
  <2>2. \A i \in Slot : pages'[i].cid = pages[i].cid /\ pages[i].list \subseteq pages'[i].list
    BY <2>1, BroadcastEffect
  <2>3. 1..depth \subseteq Slot /\ depth' = depth
    BY <1>9 DEF TypeOK
  <2>4. \A r \in rows' : r.rand \in Msg => r \in rows
    BY <1>9, <2>1 DEF Send
  <2> QED
    BY <1>1, <1>9, <2>2, <2>3, <2>4 DEF Queued
<1>14. ASSUME NEW s \in Own, sendMsg(s) PROVE NothingMissed'
  BY <1>9, <1>14 DEF sendMsg
<1>15. ASSUME NEW s \in Own, NEW c \in Cid, sendFileMsg(s, c) PROVE NothingMissed'
  BY <1>9, <1>15 DEF sendFileMsg
<1>16. CASE pickFile \/ \E c \in Cid : fileMissing(c)
  BY <1>1, <1>16 DEF pickFile, fileMissing, Queued
\* What the deletion takes off a page it takes out of the table.
<1>10. ASSUME NEW e, delMsg(e) PROVE NothingMissed'
  <2> SUFFICES ASSUME NEW i \in 1..depth, NEW r \in rows',
                      r.cid = pages'[i].cid, r.rand \in Msg \ Quiet
               PROVE  (Listed(i, r.rand) \/ r \in inHand \/ Queued(r))'
    BY <1>10 DEF NothingMissed, delMsg
  <2>1. i \in Slot /\ i <= depth
    BY DEF TypeOK
  <2>2. pages[i] \in Page /\ pages'[i] = removeWhere(pages[i], e.id)
    BY <1>10, <2>1 DEF TypeOK, delMsg
  <2>3. pages'[i].cid = pages[i].cid /\ pages'[i].list = {f \in pages[i].list : f.id # e.id}
    BY <2>2 DEF removeWhere, Page
  <2>4. r \in rows /\ r.pk # e.id
    BY <1>10 DEF delMsg, Erase
  <2>5. Listed(i, r.rand) \/ r \in inHand \/ Queued(r)
    BY <2>3, <2>4 DEF NothingMissed
  <2>6. CASE Listed(i, r.rand)
    <3>1. PICK f \in pages[i].list : f.rand = r.rand
      BY <2>6 DEF Listed
    <3>2. f.id = r.pk
      BY <2>1, <2>4, <3>1 DEF Known, PagesKnown
    <3> QED
      BY <2>3, <2>4, <3>1, <3>2 DEF Listed
  <2>7. CASE r \in inHand \/ Queued(r)
    BY <1>10, <2>7 DEF delMsg, Queued
  <2> QED
    BY <2>5, <2>6, <2>7
<1>11. ASSUME NEW c \in Cid, clearConversation(c) PROVE NothingMissed'
  BY <1>11 DEF NothingMissed, clearConversation
<1>12. CASE Kill
  BY <1>12 DEF NothingMissed, Kill
<1>13. CASE UNCHANGED vars
  BY <1>1, <1>13 DEF vars, Queued
<1> QED
  BY <1>2, <1>3, <1>4, <1>5, <1>6, <1>7, <1>8, <1>9, <1>10, <1>11, <1>12, <1>13,
     <1>14, <1>15, <1>16 DEF Next
-----------------------------------------------------------------------------
LEMMA Invariance == Spec => []IInv
<1>1. Init => IInv
  <2> SUFFICES ASSUME Init PROVE IInv
    OBVIOUS
  <2>1. TypeOK /\ StackOK
    BY TypeInit
  <2>2. Known
    BY DEF Init, Known, RowsDistinct, InHandKnown, QueueKnown, PagesKnown, NoPage
  <2>3. NoDuplicates /\ NothingMissed
    BY DEF Init, NoDuplicates, NothingMissed
  <2> QED
    BY <2>1, <2>2, <2>3 DEF IInv
<1>2. IInv /\ [Next]_vars => IInv'
  <2> SUFFICES ASSUME IInv, [Next]_vars PROVE IInv'
    OBVIOUS
  <2>1. TypeOK' /\ StackOK'
    BY TypeStep DEF IInv
  <2>2. Known'
    BY <2>1, KnownStep DEF IInv
  <2>3. NoDuplicates'
    BY <2>1, NoDuplicatesStep DEF IInv
  <2>4. NothingMissed'
    BY <2>1, NothingMissedStep DEF IInv
  <2> QED
    BY <2>1, <2>2, <2>3, <2>4 DEF IInv
<1> QED
  BY <1>1, <1>2, PTL DEF Spec

\* No page lists a message twice, however load, port and echo interleave
\* (handleIncomingMsg, getChatMsgData).
THEOREM PagesListOnce == Spec => []NoDuplicates
<1>1. IInv => NoDuplicates
  BY DEF IInv
<1> QED
  BY <1>1, Invariance, PTL

\* A stored message that an open page of its conversation does not list is still
\* in the hands of a native thread or in the queue of the isolate.
THEOREM PagesMissNothing == Spec => []NothingMissed
<1>1. IInv => NothingMissed
  BY DEF IInv
<1> QED
  BY <1>1, Invariance, PTL

\* A received message that a step erases is on no page after that step.
THEOREM ErasureReachesPages == Spec => ErasedIsHidden
<1> DEFINE Hides == \A r \in rows \ rows' :
             r.rand \in Msg => \A i \in Slot : \A e \in pages'[i].list : e.rand # r.rand
<1>1. IInv /\ [Next]_vars => [Hides]_vars
  <2> SUFFICES ASSUME IInv, [Next]_vars,
                      NEW r \in rows \ rows', r.rand \in Msg,
                      NEW i \in Slot, NEW f \in pages'[i].list, f.rand = r.rand
               PROVE  FALSE
    OBVIOUS
  <2> USE FlowAssumption DEF IInv, Slot
  \* Only deleting and clearing take rows away.
  <2>1. PICK e : delMsg(e) \/ \E c \in Cid : clearConversation(c)
    <3>1. rows' # rows
      OBVIOUS
    <3>2. /\ ~ \E m \in Msg, c \in Cid : saveMsg(m, c)
          /\ ~ \E s \in Own : sendMsg(s)
          /\ ~ \E s \in Own, c \in Cid : sendFileMsg(s, c)
      BY DEF saveMsg, sendMsg, sendFileMsg, Send
    <3> QED
      BY <3>1, <3>2 DEF Next, vars, NativeLogin, setRecvMsgNotify, on_recv_msg, Deliver,
                        OpenPage, getChatMsgData, ClosePage, pickFile, fileMissing, Kill
  <2>2. CASE delMsg(e)
    <3>1. r.pk = e.id
      BY <2>2 DEF delMsg, Erase
    <3>2. CASE i <= depth
      <4>1. pages'[i].list = {g \in pages[i].list : g.id # e.id}
        BY <2>2, <3>2 DEF TypeOK, delMsg, removeWhere, Page
      <4>2. f.id = r.pk
        BY <4>1 DEF Known, PagesKnown
      <4> QED
        BY <3>1, <4>1, <4>2
    <3>3. CASE ~(i <= depth)
      <4>1. i > depth
        BY <3>3 DEF TypeOK
      <4>2. pages'[i].list = {}
        BY <2>2, <3>3, <4>1 DEF delMsg, StackOK, NoPage
      <4> QED
        BY <4>2
    <3> QED
      BY <3>2, <3>3
  <2>3. CASE \E c \in Cid : clearConversation(c)
    <3>1. depth = 0 /\ pages' = pages
      BY <2>3 DEF clearConversation
    <3>2. pages'[i].list = {}
      BY <3>1 DEF StackOK, NoPage
    <3> QED
      BY <3>2
  <2> QED
    BY <2>1, <2>2, <2>3
<1> QED
  BY <1>1, Invariance, PTL DEF Spec, ErasedIsHidden

\* A received message that the user deletes from a page leaves no row behind.
THEOREM DeletionReachesTable == Spec => DeletedIsErased
<1> DEFINE Erases == \A i \in 1..depth : \A e \in pages[i].list :
             e.rand \in Msg /\ (\E r \in rows' : r.rand = e.rand) => ~delMsg(e)
<1>1. IInv => Erases
  <2> SUFFICES ASSUME IInv, NEW i \in 1..depth, NEW e \in pages[i].list, e.rand \in Msg,
                      NEW r \in rows', r.rand = e.rand, delMsg(e)
               PROVE  FALSE
    OBVIOUS
  <2>1. r \in rows /\ r.pk # e.id
    BY DEF delMsg, Erase
  <2>2. i \in Slot
    BY FlowAssumption DEF IInv, TypeOK, Slot
  <2>3. r.pk = e.id
    BY <2>1, <2>2 DEF IInv, Known, PagesKnown
  <2> QED
    BY <2>1, <2>3
<1>2. IInv => [Erases]_vars
  BY <1>1
<1> QED
  BY <1>2, Invariance, PTL DEF Spec, DeletedIsErased
-----------------------------------------------------------------------------
\* With one receiving thread messages go along one path: keys grow from the head
\* of the queue to its end and on to the message in hand.
OnePath ==
  /\ inHand = {} \/ \E x \in inHand : inHand = {x}
  /\ \A x \in inHand : x.pk < nextPk /\ \A k \in 1..Len(queue) : queue[k].pk < x.pk
  /\ \A k \in 1..Len(queue) : queue[k].pk < nextPk
  /\ \A j, k \in 1..Len(queue) : j < k => queue[j].pk < queue[k].pk

\* The next entry of a page stands after all others.
PlacesOK == \A i \in Slot : \A e \in pages[i].list : e.at < pages[i].next

Due(m) == (\E x \in inHand : x.rand = m) \/ \E k \in 1..Len(queue) : queue[k].rand = m

\* What is still to come up on a page is newer than what it lists.
NewerToCome ==
  \A i \in 1..depth : \A r, q \in RowsOf(pages[i].cid) :
    (/\ Due(r.rand) /\ r.rand \notin Quiet /\ ~Listed(i, r.rand)
     /\ q.rand \in Msg /\ Listed(i, q.rand))
      => q.pk < r.pk

LEMMA KeysTyped ==
  ASSUME TypeOK
  PROVE  /\ nextPk \in Nat /\ Len(queue) \in Nat
         /\ \A x \in inHand : x.pk \in Nat
         /\ \A k \in 1..Len(queue) : queue[k] \in Row /\ queue[k].pk \in Nat
<1>1. \A x \in Row : x.pk \in Nat
  BY DEF Row
<1>2. Len(queue) \in Nat /\ \A k \in 1..Len(queue) : queue[k] \in Row
  BY DEF TypeOK
<1> QED
  BY <1>1, <1>2 DEF TypeOK

LEMMA OnePathStep ==
  ASSUME Receivers = 1, IInv, OnePath, [Next]_vars
  PROVE  OnePath'
<1> USE DEF IInv
<1>1. CASE UNCHANGED <<inHand, queue>> /\ (nextPk' = nextPk \/ nextPk' = nextPk + 1)
  <2>1. /\ nextPk \in Nat /\ \A x \in inHand : x.pk \in Nat
        /\ \A k \in 1..Len(queue) : queue[k].pk \in Nat
    BY KeysTyped
  <2> QED
    BY <1>1, <2>1 DEF OnePath
<1>2. ASSUME NEW m \in Msg, NEW c \in Cid, saveMsg(m, c)
      PROVE  OnePath'
  <2> DEFINE r == [pk |-> nextPk, rand |-> m, cid |-> c]
  <2>1. inHand = {}
    <3>1. ASSUME NEW x \in inHand, inHand = {x}
          PROVE  FALSE
      <4>1. Cardinality(inHand) = 1
        BY <3>1, FS_Singleton, Zenon
      <4>2. Cardinality(inHand) < 1
        BY <1>2 DEF saveMsg
      <4> QED
        BY <4>1, <4>2
    <3> QED
      BY <3>1 DEF OnePath
  <2>2. inHand' = {r} /\ r.pk = nextPk /\ queue' = queue /\ nextPk' = nextPk + 1
    BY <1>2, <2>1 DEF saveMsg
  <2>3. nextPk \in Nat /\ \A k \in 1..Len(queue) : queue[k].pk \in Nat
    BY KeysTyped
  <2> HIDE DEF r
  <2> QED
    BY <2>2, <2>3 DEF OnePath
<1>3. ASSUME NEW r \in inHand, on_recv_msg(r)
      PROVE  OnePath'
  <2>1. inHand' = {} /\ nextPk' = nextPk
    BY <1>3 DEF on_recv_msg, OnePath
  <2>2. \/ queue' = queue
        \/ queue' = Append(queue, r) /\ queue \in Seq(Row)
    BY <1>3 DEF on_recv_msg, TypeOK
  <2>3. CASE queue' = Append(queue, r) /\ queue \in Seq(Row)
    <3>1. \A k \in 1..Len(queue') : \/ k \in 1..Len(queue) /\ queue'[k] = queue[k]
                                    \/ k = Len(queue) + 1 /\ queue'[k] = r
      BY <2>3
    <3> QED
      BY <2>1, <3>1 DEF OnePath
  <2> QED
    BY <2>1, <2>2, <2>3 DEF OnePath
<1>4. CASE Deliver
  <2>1. inHand' = inHand /\ nextPk' = nextPk
    BY <1>4 DEF Deliver
  <2>2. \A k \in 1..Len(queue') : k + 1 \in 1..Len(queue) /\ queue'[k] = queue[k + 1]
    BY <1>4 DEF Deliver, TypeOK
  <2>3. /\ \A x \in inHand' : /\ x.pk < nextPk'
                              /\ \A k \in 1..Len(queue') : queue'[k].pk < x.pk
        /\ \A k \in 1..Len(queue') : queue'[k].pk < nextPk'
    BY <2>1, <2>2 DEF OnePath
  <2>4. ASSUME NEW j \in 1..Len(queue'), NEW k \in 1..Len(queue'), j < k
        PROVE  queue'[j].pk < queue'[k].pk
    <3>1. j + 1 < k + 1 /\ j + 1 \in 1..Len(queue) /\ k + 1 \in 1..Len(queue)
      BY <2>2, <2>4
    <3> QED
      BY <2>2, <3>1 DEF OnePath
  <2> QED
    BY <2>1, <2>3, <2>4 DEF OnePath
<1>5. CASE Kill
  BY <1>5 DEF OnePath, Kill
<1> QED
  BY <1>1, <1>2, <1>3, <1>4, <1>5
  DEF Next, vars, NativeLogin, setRecvMsgNotify, OpenPage, getChatMsgData, ClosePage, sendMsg,
      Send, pickFile, sendFileMsg, fileMissing, delMsg, clearConversation

LEMMA PlacesStep ==
  ASSUME IInv, PlacesOK, [Next]_vars
  PROVE  PlacesOK'
<1> USE DEF IInv, Slot
<1>1. ASSUME NEW id \in Nat \cup Rand, NEW rand \in Rand, Broadcast(id, rand)
      PROVE  PlacesOK'
  <2> SUFFICES ASSUME NEW i \in Slot, NEW e \in pages'[i].list
               PROVE  e.at < pages'[i].next
    BY DEF PlacesOK
  <2>1. pages[i] \in Page /\ pages[i].next \in Nat
    BY DEF TypeOK, Page
  <2>2. pages'[i] = handleIncomingMsg(pages[i], id, rand) \/ pages'[i] = pages[i]
    BY <1>1 DEF Broadcast
  <2>3. CASE pages'[i] = pages[i]
    BY <2>3 DEF PlacesOK
  <2>4. CASE pages'[i] # pages[i]
    <3>1. pages'[i].next = pages[i].next + 1
      BY <2>1, <2>2, <2>4 DEF handleIncomingMsg, Page
    <3>2. e \in pages[i].list \/ e.at = pages[i].next
      <4> HIDE DEF Slot, IInv
      <4>0. TypeOK
        BY DEF IInv
      <4>1. \A f \in pages'[i].list \ pages[i].list :
              f = [id |-> id, rand |-> rand, at |-> pages[i].next]
        BY <1>1, <4>0, BroadcastEffect
      <4>2. CASE e \notin pages[i].list
        <5>1. e = [id |-> id, rand |-> rand, at |-> pages[i].next]
          BY <4>1, <4>2
        <5> QED
          BY <5>1
      <4> QED
        BY <4>2
    <3>3. e \in pages[i].list => e.at < pages[i].next /\ e.at \in Nat
      BY <2>1 DEF PlacesOK, Page, Entry
    <3> QED
      BY <2>1, <3>1, <3>2, <3>3
  <2> QED
    BY <2>3, <2>4
<1>2. CASE Deliver
  <2>1. Head(queue) \in Row
    BY <1>2 DEF Deliver, TypeOK
  <2> QED
    BY <1>1, <1>2, <2>1 DEF Deliver, Row
<1>3. ASSUME NEW s \in Own, NEW c, Send(s, c)
      PROVE  PlacesOK'
  BY <1>1, <1>3 DEF Send, Rand
<1>4. CASE getChatMsgData
  <2> DEFINE list == {[id |-> r.pk, rand |-> r.rand, at |-> r.pk] : r \in RowsOf(opening)}
  <2>1. \A e \in list : e.at < nextPk
    BY DEF RowsOf, Known, RowsDistinct
  <2>2. \A i \in Slot : \/ pages'[i] = pages[i]
                        \/ pages'[i] = [cid |-> opening, list |-> list, next |-> nextPk]
    BY <1>4 DEF getChatMsgData, TypeOK
  <2> HIDE DEF list
  <2> QED
    BY <2>1, <2>2 DEF PlacesOK
<1>5. CASE ClosePage
  BY <1>5 DEF PlacesOK, ClosePage, NoPage, TypeOK
<1>6. ASSUME NEW e, delMsg(e)
      PROVE  PlacesOK'
  BY <1>6 DEF PlacesOK, delMsg, removeWhere, TypeOK, Page
<1>7. CASE Kill
  BY <1>7 DEF PlacesOK, Kill, NoPage
<1>8. CASE UNCHANGED pages
  BY <1>8 DEF PlacesOK
<1> QED
  BY <1>2, <1>3, <1>4, <1>5, <1>6, <1>7, <1>8
  DEF Next, vars, NativeLogin, setRecvMsgNotify, saveMsg, on_recv_msg, OpenPage, sendMsg,
      pickFile, sendFileMsg, fileMissing, clearConversation

LEMMA OrderStep ==
  ASSUME IInv, IInv', OnePath, PlacesOK, NewerToCome, ListOrder, [Next]_vars
  PROVE  NewerToCome' /\ ListOrder'
<1> USE FlowAssumption DEF Slot
<1>0. /\ depth \in Nat /\ 1..depth \subseteq Slot
      /\ \A m : Due(m) => m \in received /\ m \in Msg
  <2>1. depth \in Nat /\ depth <= MaxDepth
    BY DEF IInv, TypeOK
  <2>2. \A m : Due(m) => m \in received
    BY DEF IInv, Known, InHandKnown, QueueKnown, Due
  <2>3. received \subseteq Msg
    BY DEF IInv, TypeOK
  <2> QED
    BY <2>1, <2>2, <2>3
\* A step that brings no row, no message on its way and no entry of a peer's
\* message keeps the order.
<1>1. ASSUME \A i \in 1..depth' : i \in 1..depth /\ pages'[i].cid = pages[i].cid,
             \A r \in rows' : r.rand \in Msg => r \in rows,
             \A m \in Msg : Due(m)' => Due(m),
             \A i \in 1..depth' : \A e \in pages'[i].list : e.rand \in Msg => e \in pages[i].list,
             \A i \in 1..depth' : \A r \in rows' :
               r.rand \in Msg /\ Listed(i, r.rand) => Listed(i, r.rand)'
      PROVE  NewerToCome' /\ ListOrder'
  <2>1. \A m : Due(m)' => m \in Msg
    BY DEF IInv, TypeOK, Known, InHandKnown, QueueKnown, Due
  <2>2. NewerToCome'
    <3> SUFFICES ASSUME NEW i \in 1..depth', NEW r \in rows', NEW q \in rows',
                        r.cid = pages'[i].cid, q.cid = pages'[i].cid,
                        Due(r.rand)', r.rand \notin Quiet, ~Listed(i, r.rand)',
                        q.rand \in Msg, Listed(i, q.rand)'
                 PROVE  q.pk < r.pk
      BY DEF NewerToCome, RowsOf
    <3>1. i \in 1..depth /\ r \in rows /\ q \in rows /\ Due(r.rand) /\ ~Listed(i, r.rand)
      BY <1>1, <2>1
    <3>2. Listed(i, q.rand)
      BY <1>1 DEF Listed
    <3> QED
      BY <1>1, <3>1, <3>2 DEF NewerToCome, RowsOf
  <2>3. ListOrder'
    <3> SUFFICES ASSUME NEW i \in 1..depth', NEW r \in rows', NEW q \in rows',
                        r.cid = pages'[i].cid, q.cid = pages'[i].cid,
                        r.pk < q.pk, r.rand \in Msg, q.rand \in Msg,
                        NEW e \in pages'[i].list, NEW f \in pages'[i].list,
                        e.rand = r.rand, f.rand = q.rand
                 PROVE  e.at < f.at
      BY DEF ListOrder, RowsOf
    <3> QED
      BY <1>1 DEF ListOrder, RowsOf
  <2> QED
    BY <2>2, <2>3
<1>2. CASE UNCHANGED <<rows, inHand, queue, depth, pages>>
  BY <1>1, <1>2 DEF Due, Listed
<1>3. ASSUME NEW m \in Msg, NEW c \in Cid, saveMsg(m, c)
      PROVE  NewerToCome' /\ ListOrder'
  <2> DEFINE r0 == [pk |-> nextPk, rand |-> m, cid |-> c]
  <2>1. /\ rows' = rows \cup {r0} /\ inHand' = inHand \cup {r0}
        /\ r0.rand = m /\ r0.pk = nextPk /\ m \notin received
        /\ UNCHANGED <<queue, depth, pages>>
    BY <1>3 DEF saveMsg
  <2> HIDE DEF r0
  <2>2. \A i \in 1..depth : ~Listed(i, m)
    BY <1>0, <2>1 DEF IInv, TypeOK, Known, PagesKnown, Listed
  <2>3. \A n : Due(n)' => Due(n) \/ n = m
    BY <2>1 DEF Due
  <2>4. \A q \in rows : q.pk < nextPk /\ q.rand # m
    BY <2>1 DEF IInv, TypeOK, Known, RowsDistinct
  <2>5. NewerToCome'
    <3> SUFFICES ASSUME NEW i \in 1..depth, NEW r \in rows', NEW q \in rows',
                        r.cid = pages[i].cid, q.cid = pages[i].cid,
                        Due(r.rand)', r.rand \notin Quiet, ~Listed(i, r.rand),
                        q.rand \in Msg, Listed(i, q.rand)
                 PROVE  q.pk < r.pk
      BY <2>1 DEF NewerToCome, RowsOf, Listed
    <3>1. q \in rows
      BY <2>1, <2>2
    <3>2. CASE r = r0
      BY <2>1, <2>4, <3>1, <3>2
    <3>3. CASE r # r0
      <4>1. r \in rows /\ Due(r.rand)
        BY <2>1, <2>3, <2>4, <3>3
      <4> QED
        BY <3>1, <4>1 DEF NewerToCome, RowsOf
    <3> QED
      BY <3>2, <3>3
  <2>6. ListOrder'
    <3> SUFFICES ASSUME NEW i \in 1..depth, NEW r \in rows', NEW q \in rows',
                        r.cid = pages[i].cid, q.cid = pages[i].cid,
                        r.pk < q.pk, r.rand \in Msg, q.rand \in Msg,
                        NEW e \in pages[i].list, NEW f \in pages[i].list,
                        e.rand = r.rand, f.rand = q.rand
                 PROVE  e.at < f.at
      BY <2>1 DEF ListOrder, RowsOf
    <3>1. r \in rows /\ q \in rows
      BY <2>1, <2>2 DEF Listed
    <3> QED
      BY <3>1 DEF ListOrder, RowsOf
  <2> QED
    BY <2>5, <2>6
<1>4. ASSUME NEW r \in inHand, on_recv_msg(r)
      PROVE  NewerToCome' /\ ListOrder'
  <2>1. inHand' \subseteq inHand /\ UNCHANGED <<rows, depth, pages>>
    BY <1>4 DEF on_recv_msg
  <2>2. \A k \in 1..Len(queue') : (k \in 1..Len(queue) /\ queue'[k] = queue[k]) \/ queue'[k] = r
    BY <1>4 DEF on_recv_msg, IInv, TypeOK
  <2>3. \A m \in Msg : Due(m)' => Due(m)
    BY <2>1, <2>2 DEF Due
  <2> QED
    BY <1>1, <2>1, <2>3 DEF Listed
<1>5. CASE Deliver
  <2>0. PICK h : h = Head(queue)
    OBVIOUS
  <2>1. /\ h = queue[1] /\ 1 \in 1..Len(queue) /\ h \in Row
        /\ \A k \in 1..Len(queue') : k + 1 \in 1..Len(queue) /\ queue'[k] = queue[k + 1]
        /\ UNCHANGED <<rows, inHand, depth>>
    BY <1>5, <2>0 DEF Deliver, IInv, TypeOK
  <2>2. Broadcast(h.pk, h.rand) /\ h.pk \in Nat \cup Rand /\ h.rand \in Rand
    BY <1>5, <2>0, <2>1 DEF Deliver, Row
  <2>3. h.rand \in Msg /\ Due(h.rand) /\ \A r \in rows : r.rand = h.rand => r.pk = h.pk
    BY <1>0, <2>1 DEF IInv, Known, QueueKnown, Due
  <2>4. \A i \in Slot :
          /\ pages'[i].cid = pages[i].cid
          /\ pages[i].list \subseteq pages'[i].list
          /\ \A e \in pages'[i].list : \/ e \in pages[i].list
                                       \/ /\ e.rand = h.rand /\ e.at = pages[i].next
                                          /\ ~Listed(i, h.rand)
          /\ (i <= depth /\ h.rand \notin Quiet) => Listed(i, h.rand)'
    <3> SUFFICES ASSUME NEW i \in Slot
                 PROVE  /\ pages'[i].cid = pages[i].cid
                        /\ pages[i].list \subseteq pages'[i].list
                        /\ \A e \in pages'[i].list : \/ e \in pages[i].list
                                                     \/ /\ e.rand = h.rand /\ e.at = pages[i].next
                                                        /\ ~Listed(i, h.rand)
                        /\ (i <= depth /\ h.rand \notin Quiet) => Listed(i, h.rand)'
      OBVIOUS
    <3>1. TypeOK
      BY DEF IInv
    <3>2. /\ pages'[i].cid = pages[i].cid
          /\ pages[i].list \subseteq pages'[i].list
      BY <2>2, <3>1, BroadcastEffect
    <3>3. \A e \in pages'[i].list \ pages[i].list :
            /\ e = [id |-> h.pk, rand |-> h.rand, at |-> pages[i].next]
            /\ \A f \in pages[i].list : f.rand # h.rand
      BY <2>2, <3>1, BroadcastEffect
    <3>4. (i <= depth /\ h.rand \notin Quiet) => \E e \in pages'[i].list : e.rand = h.rand
      BY <2>2, <3>1, BroadcastEffect
    <3> QED
      BY <3>2, <3>3, <3>4 DEF Listed
  \* What is still on its way is newer than what has just come up.
  <2>5. ASSUME NEW m, Due(m)'
        PROVE  /\ Due(m)
               /\ \A r \in rows : r.rand = m => h.pk < r.pk
    <3>1. CASE \E x \in inHand : x.rand = m
      BY <2>1, <3>1 DEF Due, OnePath, IInv, Known, InHandKnown
    <3>2. CASE \E k \in 1..Len(queue') : queue'[k].rand = m
      <4>1. PICK k \in 1..Len(queue') : queue'[k].rand = m
        BY <3>2
      <4>2. k \in Nat /\ k >= 1 /\ k + 1 \in 1..Len(queue) /\ queue[k + 1].rand = m
        BY <2>1, <4>1
      <4>3. h.pk < queue[k + 1].pk
        BY <2>1, <4>2 DEF OnePath
      <4> QED
        BY <4>2, <4>3 DEF Due, IInv, Known, QueueKnown
    <3> QED
      BY <2>1, <2>5, <3>1, <3>2 DEF Due
  <2>6. NewerToCome'
    <3> SUFFICES ASSUME NEW i \in 1..depth, NEW r \in rows, NEW q \in rows,
                        r.cid = pages'[i].cid, q.cid = pages'[i].cid,
                        Due(r.rand)', r.rand \notin Quiet, ~Listed(i, r.rand)',
                        q.rand \in Msg, Listed(i, q.rand)'
                 PROVE  q.pk < r.pk
      BY <2>1 DEF NewerToCome, RowsOf
    <3>1. i \in Slot /\ r.cid = pages[i].cid /\ q.cid = pages[i].cid
      BY <1>0, <2>4
    <3>2. ~Listed(i, r.rand) /\ Due(r.rand) /\ h.pk < r.pk
      BY <2>4, <2>5, <3>1 DEF Listed
    <3>3. CASE q.rand = h.rand
      BY <2>3, <3>2, <3>3
    <3>4. CASE q.rand # h.rand
      <4>1. Listed(i, q.rand)
        BY <2>4, <3>1, <3>4 DEF Listed
      <4> QED
        BY <3>1, <3>2, <4>1 DEF NewerToCome, RowsOf
    <3> QED
      BY <3>3, <3>4
  <2>7. ListOrder'
    <3> SUFFICES ASSUME NEW i \in 1..depth, NEW r \in rows, NEW q \in rows,
                        r.cid = pages'[i].cid, q.cid = pages'[i].cid,
                        r.pk < q.pk, r.rand \in Msg, q.rand \in Msg,
                        NEW e \in pages'[i].list, NEW f \in pages'[i].list,
                        e.rand = r.rand, f.rand = q.rand
                 PROVE  e.at < f.at
      BY <2>1 DEF ListOrder, RowsOf
    <3>1. i \in Slot /\ r.cid = pages[i].cid /\ q.cid = pages[i].cid
      BY <1>0, <2>4
    <3>2. CASE e \in pages[i].list /\ f \in pages[i].list
      BY <3>1, <3>2 DEF ListOrder, RowsOf
    <3>3. CASE e \in pages[i].list /\ f \notin pages[i].list
      <4>1. f.at = pages[i].next
        BY <2>4, <3>1, <3>3
      <4> QED
        BY <3>1, <3>3, <4>1 DEF PlacesOK
    <3>4. CASE e \notin pages[i].list /\ f \in pages[i].list
      <4>1. r.rand = h.rand /\ ~Listed(i, r.rand)
        BY <2>4, <3>1, <3>4
      <4>2. Listed(i, q.rand)
        BY <3>4 DEF Listed
      <4>3. h.rand \notin Quiet
        BY <2>2, <3>1, <3>4 DEF Broadcast, handleIncomingMsg
      <4>4. q.pk < r.pk
        BY <2>3, <3>1, <4>1, <4>2, <4>3 DEF NewerToCome, RowsOf
      <4>5. q.pk \in Nat /\ r.pk \in Nat
        BY DEF IInv, TypeOK, Row
      <4> QED
        BY <4>4, <4>5
    <3>5. CASE e \notin pages[i].list /\ f \notin pages[i].list
      <4>1. r.rand = q.rand
        BY <2>4, <3>1, <3>5
      <4>2. r.pk \in Nat /\ q = r
        BY <4>1 DEF IInv, TypeOK, Row, Known, RowsDistinct
      <4> QED
        BY <4>2
    <3> QED
      BY <3>2, <3>3, <3>4, <3>5
  <2> QED
    BY <2>6, <2>7
<1>6. CASE getChatMsgData
  <2> DEFINE list == {[id |-> r.pk, rand |-> r.rand, at |-> r.pk] : r \in RowsOf(opening)}
  <2>0. PICK new \in Nat : new = depth + 1
    BY <1>0
  <2>1. UNCHANGED <<rows, inHand, queue>> /\ depth' = new
    BY <1>6, <2>0 DEF getChatMsgData
  <2>2. /\ new \in Slot
        /\ \A i \in 1..depth : i # new /\ pages'[i] = pages[i]
        /\ pages'[new] = [cid |-> opening, list |-> list, next |-> nextPk]
    BY <1>0, <1>6, <2>0 DEF getChatMsgData, IInv, TypeOK, StackOK
  <2>3. \A i \in 1..depth' : i \in 1..depth \/ i = new
    BY <1>0, <2>0, <2>1
  <2>4. \A m : Due(m)' = Due(m)
    BY <2>1 DEF Due
  <2>5. \A r \in RowsOf(opening) : Listed(new, r.rand)'
    <3> SUFFICES ASSUME NEW r \in RowsOf(opening)
                 PROVE  \E e \in list : e.rand = r.rand
      BY <2>2 DEF Listed
    <3> WITNESS [id |-> r.pk, rand |-> r.rand, at |-> r.pk] \in list
    <3> QED
      OBVIOUS
  <2>6. \A e \in list : \E r \in RowsOf(opening) : e.rand = r.rand /\ e.at = r.pk
    OBVIOUS
  <2> HIDE DEF list
  <2>7. NewerToCome'
    <3> SUFFICES ASSUME NEW i \in 1..depth', NEW r \in rows, NEW q \in rows,
                        r.cid = pages'[i].cid, q.cid = pages'[i].cid,
                        Due(r.rand)', r.rand \notin Quiet, ~Listed(i, r.rand)',
                        q.rand \in Msg, Listed(i, q.rand)'
                 PROVE  q.pk < r.pk
      BY <2>1 DEF NewerToCome, RowsOf
    <3>1. i # new
      BY <2>2, <2>5 DEF RowsOf
    <3>2. i \in 1..depth /\ pages'[i] = pages[i]
      BY <2>2, <2>3, <3>1
    <3> QED
      BY <2>4, <3>2 DEF NewerToCome, RowsOf, Listed
  <2>8. ListOrder'
    <3> SUFFICES ASSUME NEW i \in 1..depth', NEW r \in rows, NEW q \in rows,
                        r.cid = pages'[i].cid, q.cid = pages'[i].cid,
                        r.pk < q.pk, r.rand \in Msg, q.rand \in Msg,
                        NEW e \in pages'[i].list, NEW f \in pages'[i].list,
                        e.rand = r.rand, f.rand = q.rand
                 PROVE  e.at < f.at
      BY <2>1 DEF ListOrder, RowsOf
    <3>1. CASE i = new
      <4>1. e.at = r.pk /\ f.at = q.pk
        BY <2>2, <2>6, <3>1 DEF RowsOf, IInv, Known, RowsDistinct
      <4> QED
        BY <4>1
    <3>2. CASE i # new
      <4>1. i \in 1..depth /\ pages'[i] = pages[i]
        BY <2>2, <2>3, <3>2
      <4> QED
        BY <4>1 DEF ListOrder, RowsOf
    <3> QED
      BY <3>1, <3>2
  <2> QED
    BY <2>7, <2>8
<1>7. CASE ClosePage
  <2>1. \A i \in 1..depth' : i \in 1..depth /\ pages'[i] = pages[i]
    BY <1>0, <1>7 DEF ClosePage, IInv, TypeOK
  <2> QED
    BY <1>1, <1>7, <2>1 DEF ClosePage, Due, Listed
<1>8. ASSUME NEW s \in Own, NEW c, Send(s, c), UNCHANGED <<inHand, queue, depth>>
      PROVE  NewerToCome' /\ ListOrder'
  <2>1. Broadcast(s, s) /\ s \in Nat \cup Rand /\ s \in Rand /\ s \notin Msg
    BY <1>8 DEF Send, Rand
  <2>2. TypeOK
    BY DEF IInv
  <2>3. \A i \in Slot :
          /\ pages'[i].cid = pages[i].cid
          /\ pages[i].list \subseteq pages'[i].list
          /\ \A e \in pages'[i].list :
               e \in pages[i].list \/ e = [id |-> s, rand |-> s, at |-> pages[i].next]
    BY <2>1, <2>2, BroadcastEffect
  <2>4. \A i \in Slot : \A e \in pages'[i].list : e.rand \in Msg => e \in pages[i].list
    BY <2>1, <2>3
  <2>5. \A r \in rows' : r.rand \in Msg => r \in rows
    BY <1>8, <2>1 DEF Send
  <2>6. \A m \in Msg : Due(m)' => Due(m)
    BY <1>8 DEF Due
  <2>7. \A i \in Slot : \A m : Listed(i, m) => Listed(i, m)'
    BY <2>3 DEF Listed
  <2> QED
    BY <1>0, <1>1, <1>8, <2>3, <2>4, <2>5, <2>6, <2>7
<1>9. ASSUME NEW e, delMsg(e)
      PROVE  NewerToCome' /\ ListOrder'
  <2>1. \A i \in 1..depth : pages'[i].cid = pages[i].cid
                            /\ pages'[i].list = {f \in pages[i].list : f.id # e.id}
    BY <1>0, <1>9 DEF delMsg, IInv, TypeOK, removeWhere, Page
  <2>2. ASSUME NEW i \in 1..depth, NEW r \in rows', r.rand \in Msg, Listed(i, r.rand)
        PROVE  Listed(i, r.rand)'
    <3>1. PICK f \in pages[i].list : f.rand = r.rand
      BY <2>2 DEF Listed
    <3>2. r \in rows /\ r.pk # e.id
      BY <1>9 DEF delMsg, Erase
    <3>3. f.id = r.pk
      BY <1>0, <2>2, <3>1, <3>2 DEF IInv, Known, PagesKnown
    <3> QED
      BY <2>1, <3>1, <3>2, <3>3 DEF Listed
  <2>3. rows' \subseteq rows /\ depth' = depth /\ UNCHANGED <<inHand, queue>>
    BY <1>9 DEF delMsg, Erase
  <2>4. \A m \in Msg : Due(m)' => Due(m)
    BY <2>3 DEF Due
  <2> QED
    BY <1>1, <2>1, <2>2, <2>3, <2>4
<1>10. ASSUME NEW c \in Cid, clearConversation(c)
       PROVE  NewerToCome' /\ ListOrder'
  BY <1>1, <1>10 DEF clearConversation, Erase, Due
<1>11. CASE Kill
  BY <1>11 DEF NewerToCome, ListOrder, Kill
<1> QED
  BY <1>2, <1>3, <1>4, <1>5, <1>6, <1>7, <1>8, <1>9, <1>10, <1>11
  DEF Next, vars, NativeLogin, setRecvMsgNotify, OpenPage, sendMsg, pickFile, sendFileMsg,
      fileMissing

\* With a single receiving thread pages keep the order of the table, whether the
\* load or the port brought a message.
THEOREM OneThreadKeepsOrder ==
  ASSUME Receivers = 1
  PROVE  Spec => []ListOrder
<1> DEFINE OrderInv == OnePath /\ PlacesOK /\ NewerToCome /\ ListOrder
<1>1. Init => OrderInv
  BY DEF Init, OnePath, PlacesOK, NewerToCome, ListOrder, NoPage
<1>2. IInv /\ IInv' /\ OrderInv /\ [Next]_vars => OrderInv'
  BY OnePathStep, PlacesStep, OrderStep
<1>3. OrderInv => ListOrder
  OBVIOUS
<1> QED
  BY <1>1, <1>2, <1>3, Invariance, PTL DEF Spec
=============================================================================
