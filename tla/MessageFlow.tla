----------------------------- MODULE MessageFlow -----------------------------
(***************************************************************************)
(* The way of a chat message from the native DHT client to the list of an  *)
(* open chat page.                                                         *)
(*                                                                         *)
(* Three parties share it.  A native thread receives a message, saves it   *)
(* in the messages table and then posts it to the Dart port registered for *)
(* received messages (on_recv_msg in lib/cpp/freemanffi.cpp).  The Dart    *)
(* isolate takes one event at a time from its queue; a port message goes   *)
(* through the broadcast msgStream to every mounted ChatDetailsBody.  The  *)
(* user opens, closes and stacks chat pages, sends and deletes messages.   *)
(* Native threads run between any two steps of the isolate; a handler of   *)
(* the isolate and the microtasks it starts run without another event      *)
(* in between, so they are one action here.                                *)
(*                                                                         *)
(* A message is identified by its random id (randID); its primary key      *)
(* (msgID) is the row number the table gives it.  Content, avatars and     *)
(* times are left out.                                                     *)
(***************************************************************************)
EXTENDS Integers, Sequences, FiniteSets

CONSTANTS Cid,       \* conversations
          Msg,       \* random ids of the messages peers send
          Own,       \* random ids of the messages the user sends
          Quiet,     \* received messages whose live event is never listed:
                     \* an empty sender, or a file description that does not decode
          MaxDepth,  \* chat pages on the navigation stack at the same time
          Receivers, \* native threads that may each hold one received message
          NoCid      \* "no page is being opened"

ASSUME FlowAssumption ==
  /\ Msg \cap Own = {}
  /\ (Msg \cup Own) \cap Nat = {}      \* a random id is never a row number
  /\ Quiet \subseteq Msg
  /\ MaxDepth \in Nat \ {0}
  /\ Receivers \in Nat \ {0}
  /\ NoCid \notin Cid

VARIABLES
  session,   \* "down", "native" (native login done), "home" (ports registered)
  received,  \* messages of peers that have reached this device
  sent,      \* messages the user has sent
  rows,      \* the messages table
  nextPk,    \* its next primary key
  unread,    \* primary keys of the rows not marked read
  inHand,    \* rows saved by a native thread that has still to post them
  queue,     \* port messages the isolate has still to handle
  checking,  \* conversations with a send that waits for the file system
  opening,   \* conversation of the page whose initState is running
  depth,     \* number of chat pages on the navigation stack
  pages      \* the pages; the user sees pages[depth]

vars == <<session, received, sent, rows, nextPk, unread, inHand, queue, checking,
          opening, depth, pages>>
-----------------------------------------------------------------------------
Rand  == Msg \cup Own
Slot  == 1..MaxDepth
Row   == [pk : Nat, rand : Rand, cid : Cid]
\* An entry of a page's list.  "at" is its place: a larger one is newer, and an
\* entry inserted at index 0 gets the largest.
Entry == [id : Nat \cup Rand, rand : Rand, at : Nat]
Page  == [cid : Cid \cup {NoCid}, list : SUBSET Entry, next : Nat]

NoPage == [cid |-> NoCid, list |-> {}, next |-> 0]

Idle == opening = NoCid     \* the isolate is between two events

RowsOf(c) == {r \in rows : r.cid = c}

\* Drops from the table the rows of the set "gone".
Erase(gone) ==
  /\ rows'   = rows \ gone
  /\ unread' = unread \ {r.pk : r \in gone}

\* Mutant: the check for a message that is already listed is forgotten.
handleIncomingMsg_NoCheck(page, id, rand) ==
  IF rand \in Quiet
  THEN page
  ELSE [page EXCEPT !.list = @ \cup {[id |-> id, rand |-> rand, at |-> page.next]},
                    !.next = @ + 1]

\* What a listening page does with the event [id, rand, ...].
handleIncomingMsg(page, id, rand) ==
  IF rand \in Quiet \/ \E e \in page.list : e.rand = rand
  THEN page
  ELSE [page EXCEPT !.list = @ \cup {[id |-> id, rand |-> rand, at |-> page.next]},
                    !.next = @ + 1]

\* What a listening page does with the event ["del", id].
removeWhere(page, id) == [page EXCEPT !.list = {e \in @ : e.id # id}]

\* Mutant: a stream with one listener, the page mounted last.
Broadcast_TopOnly(id, rand) ==
  pages' = [i \in Slot |-> IF i = depth THEN handleIncomingMsg(pages[i], id, rand)
                                        ELSE pages[i]]

\* The broadcast stream reaches every mounted page.
Broadcast(id, rand) ==
  pages' = [i \in Slot |-> IF i <= depth THEN handleIncomingMsg(pages[i], id, rand)
                                         ELSE pages[i]]
-----------------------------------------------------------------------------
Init ==
  /\ session = "down"
  /\ received = {}
  /\ sent = {}
  /\ rows = {}
  /\ nextPk = 1
  /\ unread = {}
  /\ inHand = {}
  /\ queue = <<>>
  /\ checking = {}
  /\ opening = NoCid
  /\ depth = 0
  /\ pages = [i \in Slot |-> NoPage]

\* dhtclient_login succeeds: from here on messages arrive.
NativeLogin ==
  /\ session = "down"
  /\ session' = "native"
  /\ UNCHANGED <<received, sent, rows, nextPk, unread, inHand, queue, checking, opening, depth, pages>>

\* The rest of DhtClient.login: setRecvMsgNotify registers the port, and the
\* home page replaces the login page.
setRecvMsgNotify ==
  /\ session = "native"
  /\ session' = "home"
  /\ UNCHANGED <<received, sent, rows, nextPk, unread, inHand, queue, checking, opening, depth, pages>>

\* A native thread receives m for conversation c and saves it.
saveMsg(m, c) ==
  /\ session # "down"
  /\ m \notin received
  /\ Cardinality(inHand) < Receivers
  /\ received' = received \cup {m}
  /\ LET r == [pk |-> nextPk, rand |-> m, cid |-> c]
     IN /\ rows'   = rows \cup {r}
        /\ inHand' = inHand \cup {r}
  /\ nextPk' = nextPk + 1
  /\ unread' = unread \cup {nextPk}
  /\ UNCHANGED <<session, sent, queue, checking, opening, depth, pages>>

\* Mutant: the callback has been registered twice and posts each message twice.
on_recv_msg_Twice(r) ==
  /\ r \in inHand
  /\ inHand' = inHand \ {r}
  /\ queue'  = IF session = "home" THEN queue \o <<r, r>> ELSE queue
  /\ UNCHANGED <<session, received, sent, rows, nextPk, unread, checking, opening, depth, pages>>

\* It then calls on_recv_msg.  Posting to a port that was never registered
\* fails and is only logged.
on_recv_msg(r) ==
  /\ r \in inHand
  /\ inHand' = inHand \ {r}
  /\ queue'  = IF session = "home" THEN Append(queue, r) ELSE queue
  /\ UNCHANGED <<session, received, sent, rows, nextPk, unread, checking, opening, depth, pages>>

\* Mutant: the event carries the random id in the place of the key.
Deliver_NoKey ==
  /\ Idle
  /\ queue # <<>>
  /\ queue' = Tail(queue)
  /\ Broadcast(Head(queue).rand, Head(queue).rand)
  /\ UNCHANGED <<session, received, sent, rows, nextPk, unread, inHand, checking, opening, depth>>

\* The isolate hands the oldest port message to the stream.
Deliver ==
  /\ Idle
  /\ queue # <<>>
  /\ queue' = Tail(queue)
  /\ Broadcast(Head(queue).pk, Head(queue).rand)
  /\ UNCHANGED <<session, received, sent, rows, nextPk, unread, inHand, checking, opening, depth>>

\* Mutant: the login goes to the home page before it registers the ports.
OpenPage_BeforeHome(c) ==
  /\ session # "down"
  /\ Idle
  /\ depth < MaxDepth
  /\ opening' = c
  /\ unread'  = unread \ {r.pk : r \in RowsOf(c)}
  /\ UNCHANGED <<session, received, sent, rows, nextPk, inHand, queue, checking, depth, pages>>

\* ChatPage.initState: the conversation of the new page is marked read ...
OpenPage(c) ==
  /\ session = "home"
  /\ Idle
  /\ depth < MaxDepth
  /\ opening' = c
  /\ unread'  = unread \ {r.pk : r \in RowsOf(c)}
  /\ UNCHANGED <<session, received, sent, rows, nextPk, inHand, queue, checking, depth, pages>>

\* Mutant: the list that repData built newest first is taken as it is.
getChatMsgData_NotReversed ==
  /\ opening # NoCid
  /\ depth' = depth + 1
  /\ pages' = [pages EXCEPT ![depth + 1] =
                 [cid  |-> opening,
                  list |-> {[id |-> r.pk, rand |-> r.rand, at |-> nextPk - r.pk] : r \in RowsOf(opening)},
                  next |-> nextPk]]
  /\ opening' = NoCid
  /\ UNCHANGED <<session, received, sent, rows, nextPk, unread, inHand, queue, checking>>

\* ... and later in the same frame ChatDetailsBody.initState reads the table
\* and starts to listen.
getChatMsgData ==
  /\ opening # NoCid
  /\ depth' = depth + 1
  /\ pages' = [pages EXCEPT ![depth + 1] =
                 [cid  |-> opening,
                  list |-> {[id |-> r.pk, rand |-> r.rand, at |-> r.pk] : r \in RowsOf(opening)},
                  next |-> nextPk]]
  /\ opening' = NoCid
  /\ UNCHANGED <<session, received, sent, rows, nextPk, unread, inHand, queue, checking>>

\* The user goes back: dispose cancels the subscription.
ClosePage ==
  /\ Idle
  /\ depth > 0
  /\ depth' = depth - 1
  /\ pages' = [pages EXCEPT ![depth] = NoPage]
  /\ UNCHANGED <<session, received, sent, rows, nextPk, unread, inHand, queue, checking, opening>>

\* Mutant: the client has been released, and the call returns 0.
Send_NoClient(s, c) ==
  /\ s \notin sent
  /\ sent' = sent \cup {s}
  /\ Broadcast(0, 0)
  /\ UNCHANGED <<rows, nextPk>>

\* The native client stores and sends the message and returns its random id,
\* which the echo carries both as msgID and as randID.
Send(s, c) ==
  /\ s \notin sent
  /\ sent' = sent \cup {s}
  /\ rows' = rows \cup {[pk |-> nextPk, rand |-> s, cid |-> c]}
  /\ nextPk' = nextPk + 1
  /\ Broadcast(s, s)

\* A text goes out at once ...
sendMsg(s) ==
  /\ Idle
  /\ depth > 0
  /\ Send(s, pages[depth].cid)
  /\ UNCHANGED <<session, received, unread, inHand, queue, checking, opening, depth>>

\* ... a file, a voice message or an image when the file system has found it or
\* compressed it; the user may have left the page by then.
pickFile ==
  /\ Idle
  /\ depth > 0
  /\ checking' = checking \cup {pages[depth].cid}
  /\ UNCHANGED <<session, received, sent, rows, nextPk, unread, inHand, queue, opening, depth, pages>>

sendFileMsg(s, c) ==
  /\ Idle
  /\ c \in checking
  /\ checking' = checking \ {c}
  /\ Send(s, c)
  /\ UNCHANGED <<session, received, unread, inHand, queue, opening, depth>>

fileMissing(c) ==
  /\ Idle
  /\ c \in checking
  /\ checking' = checking \ {c}
  /\ UNCHANGED <<session, received, sent, rows, nextPk, unread, inHand, queue, opening, depth, pages>>

\* Mutant: only the page the user sees hears of the deletion.
delMsg_TopOnly(e) ==
  /\ Idle
  /\ depth > 0
  /\ e \in pages[depth].list
  /\ Erase({r \in rows : r.pk = e.id})
  /\ pages' = [pages EXCEPT ![depth] = removeWhere(@, e.id)]
  /\ UNCHANGED <<session, received, sent, nextPk, inHand, queue, checking, opening, depth>>

\* delMsg on an entry of the page the user sees.
delMsg(e) ==
  /\ Idle
  /\ depth > 0
  /\ e \in pages[depth].list
  /\ Erase({r \in rows : r.pk = e.id})
  /\ pages' = [i \in Slot |-> IF i <= depth THEN removeWhere(pages[i], e.id) ELSE pages[i]]
  /\ UNCHANGED <<session, received, sent, nextPk, inHand, queue, checking, opening, depth>>

\* "Clear history" in the menu of the chat list, which no chat page covers.
\* The event it sends is no JSON: a page would ignore it.
clearConversation(c) ==
  /\ session = "home"
  /\ Idle
  /\ depth = 0
  /\ RowsOf(c) # {}
  /\ Erase(RowsOf(c))
  /\ UNCHANGED <<session, received, sent, nextPk, inHand, queue, checking, opening, depth, pages>>

\* The system kills the process: the table survives, the rest does not.
Kill ==
  /\ session # "down"
  /\ session' = "down"
  /\ inHand' = {}
  /\ queue' = <<>>
  /\ checking' = {}
  /\ opening' = NoCid
  /\ depth' = 0
  /\ pages' = [i \in Slot |-> NoPage]
  /\ UNCHANGED <<received, sent, rows, nextPk, unread>>

Next ==
  \/ NativeLogin
  \/ setRecvMsgNotify
  \/ \E m \in Msg, c \in Cid : saveMsg(m, c)
  \/ \E r \in inHand : on_recv_msg(r)
  \/ Deliver
  \/ \E c \in Cid : OpenPage(c)
  \/ getChatMsgData
  \/ ClosePage
  \/ \E s \in Own : sendMsg(s)
  \/ pickFile
  \/ \E s \in Own, c \in Cid : sendFileMsg(s, c)
  \/ \E c \in Cid : fileMissing(c)
  \/ \E e \in UNION {pages[i].list : i \in Slot} : delMsg(e)
  \/ \E c \in Cid : clearConversation(c)
  \/ Kill

Spec == Init /\ [][Next]_vars

\* Threads and the event loop keep running while the process lives; nothing is
\* assumed of the user, of the peers or of the system that kills.  The event
\* loop takes events in the order of their arrival, so the user's later events
\* never overtake a port message for ever: strong fairness.
Fairness ==
  /\ \A m \in Msg : WF_vars(\E r \in inHand : r.rand = m /\ on_recv_msg(r))
  /\ SF_vars(Deliver)
  /\ WF_vars(getChatMsgData)

FairSpec == Spec /\ Fairness
-----------------------------------------------------------------------------
TypeOK ==
  /\ session \in {"down", "native", "home"}
  /\ received \subseteq Msg
  /\ sent \subseteq Own
  /\ rows \subseteq Row
  /\ nextPk \in Nat \ {0}
  /\ unread \subseteq Nat
  /\ inHand \subseteq Row
  /\ queue \in Seq(Row)
  /\ checking \subseteq Cid
  /\ opening \in Cid \cup {NoCid}
  /\ depth \in 0..MaxDepth
  /\ pages \in [Slot -> Page]

Listed(i, rand) == \E e \in pages[i].list : e.rand = rand
Queued(r)       == \E k \in 1..Len(queue) : queue[k] = r

\* A message that the table load and the port both bring, or that the echo and
\* the table both bring, stands once in the list of a page: the list view takes
\* the random id as the key of its items (chat_details_body.dart, lines 83, 158).
NoDuplicates ==
  \A i \in 1..depth : \A e, f \in pages[i].list : e.rand = f.rand => e = f

\* No window between the load, the subscription and the native threads loses a
\* message: what an open page does not list of its own conversation is still on
\* its way (chat_details_body.dart, initState; freemanffi.cpp, on_recv_msg).
NothingMissed ==
  \A i \in 1..depth : \A r \in rows :
    (r.cid = pages[i].cid /\ r.rand \in Msg \ Quiet)
      => \/ Listed(i, r.rand)
         \/ r \in inHand
         \/ Queued(r)

\* A page lists the stored messages of its conversation's peers in the order in
\* which they were stored, whether the load or the port brought them.  It takes
\* a single receiving thread (_recvWorkerThread in DhtClient.h).
ListOrder ==
  \A i \in 1..depth : \A r, q \in RowsOf(pages[i].cid) :
    (r.pk < q.pk /\ r.rand \in Msg /\ q.rand \in Msg)
      => \A e, f \in pages[i].list :
           (e.rand = r.rand /\ f.rand = q.rand) => e.at < f.at

\* A step that erases a received message from the table takes it off every page
\* of the stack, not only off the one the user deletes it on (dhtclient.dart,
\* delMsg, sends the "del" event to all listeners).
ErasedIsHidden ==
  [][\A r \in rows \ rows' :
       r.rand \in Msg => \A i \in Slot : \A e \in pages'[i].list : e.rand # r.rand]_vars

\* What the user deletes of a peer's messages is erased from the table, too:
\* each entry, loaded or live, carries the key of its row (dhtclient.dart, delMsg;
\* freemanffi.cpp, on_recv_msg).  Echoes of the user's own messages do not.
DeletedIsErased ==
  [][\A i \in 1..depth : \A e \in pages[i].list :
       e.rand \in Msg /\ (\E r \in rows' : r.rand = e.rand) => ~delMsg(e)]_vars

\* What reaches the device while its conversation is open ends on that page,
\* unless the user leaves the page or the process dies.
EventuallyListed ==
  \A m \in Msg \ Quiet, i \in Slot :
    (\E r \in inHand : session = "home" /\ i <= depth /\ r.rand = m /\ r.cid = pages[i].cid)
      ~> (Listed(i, m) \/ depth < i)
-----------------------------------------------------------------------------
\* The refinement: native threads and the queue together are what is due.
Loud == Msg \ Quiet
RandsIn(S) == {x.rand : x \in S} \cap Loud

StoredNow == [c \in Cid |-> RandsIn(RowsOf(c))]
DueNow    == RandsIn(inHand) \cup RandsIn({queue[k] : k \in 1..Len(queue)})
ShownNow  == [i \in Slot |-> RandsIn(pages[i].list)]

Promise == INSTANCE LivePages WITH
  MaxOpen <- MaxDepth,
  home    <- session = "home",
  arrived <- received \ Quiet,
  stored  <- StoredNow,
  due     <- DueNow,
  open    <- depth,
  shown   <- ShownNow

\* Threads, queue, table load, stream and echo together keep what LivePages
\* promises: above all, no step lets a message come up on one open page or go
\* from one only (on_recv_msg; dhtclient.dart, msgStream and delMsg).
KeepsPromise == Promise!Spec
-----------------------------------------------------------------------------
\* What the code says of itself and does not do.

\* chat_page.dart line 43 and chat_details_body.dart line 16: the page shows the
\* messages of its conversation.
OwnConversationOnly ==
  \A i \in 1..depth : \A e \in pages[i].list, r \in rows :
    e.rand = r.rand => r.cid = pages[i].cid
=============================================================================
