------------------------------ MODULE ChatList ------------------------------
(***************************************************************************)
(* The list of conversations on the home page (ui/chatlist/chatlist.dart   *)
(* and model/chat_list_data.dart): a view of the table of the native       *)
(* client that is read anew                                                *)
(*   - on every event of the message stream (StreamBuilder),               *)
(*   - whenever the home page is built (tabs, settings, network status),   *)
(*   - when a chat page opened from the list is left, and                  *)
(*   - when the menu of an entry closes,                                   *)
(* and sorted with a comparison of its own. Reads are synchronous calls:   *)
(* the list a rebuild shows is the table of that moment.                   *)
(*                                                                         *)
(* Conversations are numbered in the order of the native map, which is     *)
(* the order in which dhtclient_get_conversations returns them.            *)
(***************************************************************************)
EXTENDS Integers, SequencesExt

CONSTANTS NConvs,    \* conversations
          MaxClock,  \* bound: messages in a behaviour
          MaxDepth,  \* bound: chat pages on the navigation stack
          MaxEvents  \* bound: events of the message stream under way

ASSUME ChatListAssumption == /\ NConvs \in Nat \ {0}
                             /\ MaxClock \in Nat \ {0}
                             /\ MaxDepth \in Nat \ {0}
                             /\ MaxEvents \in Nat \ {0}

Convs == 1 .. NConvs
Times == 1 .. MaxClock
Tabs  == {"chats", "other"}

VARIABLES
  msgs,    \* table: the messages of each conversation, by their times
  unread,  \* table: those of them the user has not read
  istop,   \* table: the pinned conversations
  clock,   \* the time of the newest message
  events,  \* events on msgStream that the list has not heard of yet
  tab,     \* the tab of the home page
  stack,   \* the chat pages above the home page
  shown    \* _chatData

vars  == <<msgs, unread, istop, clock, events, tab, stack, shown>>
table == <<msgs, unread, istop>>

---------------------------------------------------------------------------
(* The list that is read and sorted *)

Newest(S) == CHOOSE t \in S : \A u \in S : u <= t

EntrySet == [conv : Convs, time : Times, isPinned : BOOLEAN,
             unreadCount : 0 .. MaxClock]

\* What a read of the table m, u, p finds of conversation c.
Entry(m, u, p, c) == [conv |-> c, time |-> Newest(m[c]),
                      isPinned |-> c \in p, unreadCount |-> Cardinality(u[c])]

\* A conversation without a message has no entry.
Entries(m, u, p) == {Entry(m, u, p, c) : c \in {d \in Convs : m[d] # {}}}

\* Mutant: the two arguments of compareTo are swapped.
compare_Swapped(a, b) == IF a.isPinned /\ ~b.isPinned THEN 0 ELSE a.time - b.time

\* The comparison handed to List.sort: a pinned conversation and an unpinned
\* one after it are called equal, every other pair is ordered by time.
compare(a, b) == IF a.isPinned /\ ~b.isPinned THEN 0 ELSE b.time - a.time

\* List.sort of the Dart library inserts, in a list of up to 32 elements, each
\* one behind the last element before it that does not compare as greater.
insert(s, e) ==
  LET stops == {j \in DOMAIN s : compare(s[j], e) <= 0}
  IN  InsertAt(s, Newest(stops \union {0}) + 1, e)

chatListData(m, u, p) ==
  LET upTo[c \in 0 .. NConvs] ==
        IF c = 0 THEN <<>>
        ELSE IF m[c] = {} THEN upTo[c - 1]
        ELSE insert(upTo[c - 1], Entry(m, u, p, c))
  IN  upTo[NConvs]

---------------------------------------------------------------------------

Init == /\ msgs = [c \in Convs |-> {}]
        /\ unread = [c \in Convs |-> {}]
        /\ istop = {}
        /\ clock = 0
        /\ events = 0
        /\ tab = "chats"
        /\ stack = <<>>
        /\ shown = <<>>

OnList == tab = "chats" /\ stack = <<>>

\* build: the FutureBuilder reads the table again.
refetch == shown' = chatListData(msgs', unread', istop')

\* msgController.add
AddEvent == /\ events < MaxEvents
            /\ events' = events + 1

\* A message arrives: the native client saves it as unread and its callback
\* posts it to the stream.
recvMsg(c) ==
  /\ clock < MaxClock
  /\ clock' = clock + 1
  /\ msgs' = [msgs EXCEPT ![c] = @ \union {clock'}]
  /\ unread' = [unread EXCEPT ![c] = @ \union {clock'}]
  /\ AddEvent
  /\ UNCHANGED <<istop, tab, stack, shown>>

\* The user sends a message on the top page; sendMsg adds its echo.
sendMsg ==
  /\ stack # <<>>
  /\ clock < MaxClock
  /\ clock' = clock + 1
  /\ msgs' = [msgs EXCEPT ![Last(stack)] = @ \union {clock'}]
  /\ AddEvent
  /\ UNCHANGED <<unread, istop, tab, stack, shown>>

\* The user deletes a message on the top page; delMsg adds an event.
delMsg ==
  /\ stack # <<>>
  /\ \E t \in msgs[Last(stack)] :
       /\ msgs' = [msgs EXCEPT ![Last(stack)] = @ \ {t}]
       /\ unread' = [unread EXCEPT ![Last(stack)] = @ \ {t}]
  /\ AddEvent
  /\ UNCHANGED <<istop, clock, tab, stack, shown>>

\* The StreamBuilder of the list, mounted below every page, hears an event.
Deliver == /\ events > 0
           /\ events' = events - 1
           /\ UNCHANGED <<table, clock, tab, stack>>
           /\ refetch

\* HomePage.build: a tap on a tab, or a notification of the settings (network
\* status, dark mode) at any time, builds a new ChatListPage widget. With t = tab
\* it is also the menu that closes with nothing chosen, or with "mark as read",
\* whose code is commented out.
HomeBuild(t) == /\ t = tab \/ stack = <<>>
                /\ tab' = t
                /\ UNCHANGED <<table, clock, events, stack>>
                /\ refetch

\* ChatPage.initState marks what the conversation holds as read.
setMessagesReaded(c) == /\ unread' = [unread EXCEPT ![c] = {}]
                        /\ stack' = Append(stack, c)
                        /\ UNCHANGED <<msgs, istop, clock, events, tab, shown>>

\* A tap on an entry of the list.
OpenFromList == /\ OnList
                /\ \E i \in DOMAIN shown : setMessagesReaded(shown[i].conv)

\* From a contact, a group or the avatar beside a message.
OpenFromContact(c) == /\ tab = "other" \/ stack # <<>>
                      /\ Len(stack) < MaxDepth
                      /\ setMessagesReaded(c)

\* Mutant: refresh() is not called when the chat page is left.
Leave_NoRefresh(s) == stack' = s /\ shown' = shown

\* Leaving a page: the page opened from the list is followed by refresh().
Leave(s) == /\ stack' = s
            /\ IF s = <<>> /\ tab = "chats" THEN refetch ELSE shown' = shown

Back == /\ stack # <<>>
        /\ UNCHANGED <<table, clock, events, tab>>
        /\ Leave(Front(stack))

\* _showMenu on an entry; the menu closes with setState whatever was chosen.
pinConversation(e) == /\ istop' = IF e.isPinned THEN istop \ {e.conv}
                                                ELSE istop \union {e.conv}
                      /\ UNCHANGED <<msgs, unread, clock, events, tab, stack>>
                      /\ refetch

clearConversation(e) == /\ msgs' = [msgs EXCEPT ![e.conv] = {}]
                        /\ unread' = [unread EXCEPT ![e.conv] = {}]
                        /\ AddEvent
                        /\ UNCHANGED <<istop, clock, tab, stack>>
                        /\ refetch

showMenu == /\ OnList
            /\ \E i \in DOMAIN shown : \/ pinConversation(shown[i])
                                       \/ clearConversation(shown[i])

\* Mutant: deleting a conversation keeps the unread counts of its messages.
delConversation_KeepsUnread ==
  /\ Len(stack) = 1
  /\ msgs' = [msgs EXCEPT ![Last(stack)] = {}]
  /\ istop' = istop \ {Last(stack)}
  /\ AddEvent
  /\ UNCHANGED <<unread, clock, tab>>
  /\ Leave(<<>>)

\* Quitting a group on its detail page: the conversation is deleted, and the
\* detail page and the chat page below it are popped (a third pop leaves the
\* list of groups, if that is where the chat was opened from).
delConversation ==
  /\ Len(stack) = 1
  /\ LET c == Last(stack)
     IN  /\ msgs' = [msgs EXCEPT ![c] = {}]
         /\ unread' = [unread EXCEPT ![c] = {}]
         /\ istop' = istop \ {c}
  /\ AddEvent
  /\ UNCHANGED <<clock, tab>>
  /\ Leave(<<>>)

Next == \/ \E c \in Convs : recvMsg(c) \/ OpenFromContact(c)
        \/ \E t \in Tabs : HomeBuild(t)
        \/ sendMsg \/ delMsg \/ Deliver \/ OpenFromList \/ Back
        \/ showMenu \/ delConversation

Spec == Init /\ [][Next]_vars

---------------------------------------------------------------------------
(* Properties *)

\* The table and the view of it have their types, unread messages are stored.
TypeOK == /\ msgs \in [Convs -> SUBSET Times]
          /\ unread \in [Convs -> SUBSET Times]
          /\ \A c \in Convs : unread[c] \subseteq msgs[c]
          /\ istop \subseteq Convs
          /\ clock \in 0 .. MaxClock
          /\ events \in 0 .. MaxEvents
          /\ tab \in Tabs
          /\ stack \in Seq(Convs) /\ Len(stack) <= MaxDepth
          /\ shown \in Seq(EntrySet)

\* When the user looks at the list and no event is under way, it holds every
\* conversation that has a message, once, with the time of its newest message,
\* its unread count and its pin, whichever way the user came back to it. This
\* is about the many places that change the table and the few that make the
\* list read it again (chatlist.dart 90, 175, 242; dhtclient.dart 563-889).
ListCurrent ==
  OnList /\ events = 0 => /\ ToSet(shown) = Entries(msgs, unread, istop)
                          /\ Len(shown) = Cardinality(ToSet(shown))

\* An entry stands directly above one with a newer message only if it is pinned
\* and the other is not: all the disorder the comparison can cause starts at a
\* pinned entry (chat_list_data.dart 56-80).
DisorderOnlyBelowPins ==
  \A i \in 1 .. Len(shown) - 1 :
    shown[i].time < shown[i + 1].time
      => shown[i].isPinned /\ ~shown[i + 1].isPinned
=============================================================================
