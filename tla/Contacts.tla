------------------------------- MODULE Contacts -------------------------------
(***************************************************************************)
(* The contacts table of the native client, the friend requests in it, and *)
(* the contacts page (lib/ui/friends/contacts_page.dart), which is a copy  *)
(* of it.                                                                  *)
(*                                                                         *)
(* The page hears only that something has changed: each event on           *)
(* friendsStream makes the next frame start a load of three reads of the   *)
(* table.  The reads are microtasks: no event of the isolate comes between *)
(* them, but the threads of the native client go on changing the table.    *)
(***************************************************************************)
EXTENDS Integers, FiniteSets

CONSTANTS User,      \* people, other than the user of the app
          MaxChange  \* bound: changes of the table that come from the network

ASSUME ContactsAssumption == IsFiniteSet(User) /\ MaxChange \in Nat

VARIABLES
  table,        \* progress of the friendship with each user
  applied,      \* users who have still to answer a request of ours
  changes,      \* changes that came from the network, to bound them
  inHand,       \* threads that have saved a change and not yet posted it
  queue,        \* port messages the isolate has still to handle
  dirty,        \* the page has to be built, which starts a load
  load,         \* where the load is
  readPending, readContacts, readNull,  \* what the load has read
  pendingCount, contacts, isNull,       \* the fields of the page, drawn by the next frame
  page          \* the page of a user that is open: whom it shows, and as what

read        == <<readPending, readContacts, readNull>>
fields      == <<pendingCount, contacts, isNull>>
contactVars == <<table, applied, changes, inHand, queue, dirty, load, read, fields, page>>
-----------------------------------------------------------------------------
AddFriendProgress ==
  {"NONE", "WAIT_ME_REVIEW", "REMOTE_NOT_ALLOW", "FANS", "ONLY_ME", "BOTH"}
ContactType == {"pending", "rejected", "approved"}
NoPage      == [user |-> "nobody", type |-> "none"]

\* Progress 2 selects the requests, progress 0 the user's own contacts.
dhtclient_get_contacts(type) ==
  {u \in User : IF type = "pending" THEN table[u] = "WAIT_ME_REVIEW"
                                    ELSE table[u] \in {"ONLY_ME", "BOTH"}}

\* Mutant: the progress is not translated.
getContactType_Raw(p) == {p}

\* What the details page takes a user for.  Without a row in the table, ftype is
\* not initialized; every value but four of them counts as pending.
getContactType(p) ==
  CASE p = "NONE"              -> ContactType
    [] p = "FANS"              -> {"rejected"}
    [] p \in {"ONLY_ME", "BOTH"} -> {"approved"}
    [] OTHER                   -> {"pending"}

ContactsInit ==
  /\ table \in [User -> {"NONE", "WAIT_ME_REVIEW", "ONLY_ME"}]
  /\ applied = {}
  /\ changes = 0 /\ inHand = 0 /\ queue = 0
  /\ dirty = TRUE
  /\ load = "idle"
  /\ readPending = 0 /\ readContacts = {} /\ readNull = FALSE
  /\ pendingCount = 0 /\ contacts = {} /\ isNull = FALSE
  /\ page = NoPage

\* A thread of the native client saves a change; it reports it later.
Save(u, p) ==
  /\ changes < MaxChange
  /\ changes' = changes + 1
  /\ table[u] # p
  /\ table' = [table EXCEPT ![u] = p]
  /\ inHand' = inHand + 1
  /\ UNCHANGED <<queue, dirty, load, read, fields, page>>

\* Somebody adds the user, who may have to review it.
onReceiveMsg_AddFriend(u) ==
  /\ \E p \in {"WAIT_ME_REVIEW", "FANS", "BOTH"} : Save(u, p)
  /\ UNCHANGED applied

\* The answer to a request of the user.
onReceiveMsg_add_friend_reply(u) ==
  /\ u \in applied
  /\ applied' = applied \ {u}
  /\ \E p \in {"BOTH", "REMOTE_NOT_ALLOW"} : Save(u, p)

\* on_add_me_request and on_recv_add_remote_reply post to the isolate.
on_add_me_request ==
  /\ inHand > 0
  /\ inHand' = inHand - 1
  /\ queue' = queue + 1
  /\ UNCHANGED <<table, applied, changes, dirty, load, read, fields, page>>

\* An event on friendsStream: the page is built by the next frame.
Refresh == dirty' = TRUE

\* The isolate takes a message of either kind: all it does is to tell the page.
setAddMeNotify ==
  /\ load = "idle"
  /\ queue > 0
  /\ queue' = queue - 1
  /\ Refresh
  /\ UNCHANGED <<table, applied, changes, inHand, load, read, fields, page>>

\* The page is built for another reason: with the home page, or by the index bar.
Rebuild ==
  /\ load = "idle"
  /\ Refresh
  /\ UNCHANGED <<table, applied, changes, inHand, queue, load, read, fields, page>>

sendAddFriendMsg(u) == applied' = applied \cup {u}

\* Mutant: the page is not told.
addContact_Silent(u) ==
  /\ \E p \in {"ONLY_ME", "BOTH"} : table' = [table EXCEPT ![u] = p]
  /\ UNCHANGED dirty

\* BOTH, if the other side has added the user already.
addContact(u) ==
  /\ \E p \in {"ONLY_ME", "BOTH"} : table' = [table EXCEPT ![u] = p]
  /\ Refresh

\* The profile page of somebody the contacts page shows ...
OpenProfile(u) ==
  /\ load = "idle"
  /\ page = NoPage
  /\ u \in contacts
  /\ page' = [user |-> u, type |-> "profile"]
  /\ UNCHANGED <<table, applied, changes, inHand, queue, dirty, load, read, fields>>

\* ... can delete the contact and goes back to the home page.
delContact ==
  /\ load = "idle"
  /\ page.type = "profile"
  /\ \E p \in {"NONE", "FANS"} : table' = [table EXCEPT ![page.user] = p]
  /\ page' = NoPage
  /\ Refresh
  /\ UNCHANGED <<applied, changes, inHand, queue, load, read, fields>>

\* The details page opens from a request, or from the avatar beside a message.
OpenDetails(u) ==
  /\ load = "idle"
  /\ page = NoPage
  /\ \E t \in getContactType(table[u]) : page' = [user |-> u, type |-> t]
  /\ UNCHANGED <<table, applied, changes, inHand, queue, dirty, load, read, fields>>

ClosePage ==
  /\ load = "idle"
  /\ page.user \in User
  /\ page' = NoPage
  /\ UNCHANGED <<table, applied, changes, inHand, queue, dirty, load, read, fields>>

\* Its two buttons allow or deny, for whom it takes for pending, and close it.
sendAddFriendReply(allow) ==
  /\ load = "idle"
  /\ page.type = "pending"
  /\ \E p \in IF allow THEN {"FANS", "BOTH"} ELSE {"NONE"} :
       table' = [table EXCEPT ![page.user] = p]
  /\ page' = NoPage
  /\ Refresh
  /\ UNCHANGED <<applied, changes, inHand, queue, load, read, fields>>

\* A frame builds the page and calls getContacts, which reads the requests ...
getContacts ==
  /\ dirty
  /\ load = "idle"
  /\ dirty' = FALSE
  /\ load' = "contacts"
  /\ readPending' = Cardinality(dhtclient_get_contacts("pending"))
  /\ UNCHANGED <<table, applied, changes, inHand, queue, readContacts, readNull, fields, page>>

\* ... then the contacts ...
getContacts_approved ==
  /\ load = "contacts"
  /\ load' = "null"
  /\ pendingCount' = readPending
  /\ readPending' = 0
  /\ readContacts' = dhtclient_get_contacts("approved")
  /\ UNCHANGED <<table, applied, changes, inHand, queue, dirty, readNull, contacts, isNull, page>>

\* ... then whether there are any ...
getContacts_isNull ==
  /\ load = "null"
  /\ load' = "done"
  /\ readNull' = (dhtclient_get_contacts("approved") = {})
  /\ UNCHANGED <<table, applied, changes, inHand, queue, dirty, readPending, readContacts, fields,
                 page>>

\* Mutant: an empty list is taken for a failure, and the load begins again.
getContacts_done_RetriesIfEmpty ==
  /\ load = "done"
  /\ load' = "idle"
  /\ IF readContacts = {}
     THEN dirty' = TRUE /\ UNCHANGED <<isNull, contacts>>
     ELSE isNull' = readNull /\ contacts' = readContacts /\ UNCHANGED dirty
  /\ readContacts' = {}
  /\ readNull' = FALSE
  /\ UNCHANGED <<table, applied, changes, inHand, queue, readPending, pendingCount, page>>

\* ... and fills the page, which the FutureBuilder has drawn by the next frame.
getContacts_done ==
  /\ load = "done"
  /\ load' = "idle"
  /\ isNull' = readNull
  /\ contacts' = readContacts
  /\ readContacts' = {}
  /\ readNull' = FALSE
  /\ UNCHANGED <<table, applied, changes, inHand, queue, dirty, readPending, pendingCount, page>>

ContactsNext ==
  \/ \E u \in User :
       \/ onReceiveMsg_AddFriend(u) \/ onReceiveMsg_add_friend_reply(u)
       \/ OpenProfile(u) \/ OpenDetails(u)
  \/ on_add_me_request \/ setAddMeNotify
  \/ Rebuild
  \/ ClosePage \/ delContact
  \/ \E allow \in BOOLEAN : sendAddFriendReply(allow)
  \/ getContacts \/ getContacts_approved \/ getContacts_isNull \/ getContacts_done
-----------------------------------------------------------------------------
ContactsTypeOK ==
  /\ table \in [User -> AddFriendProgress]
  /\ applied \subseteq User
  /\ changes \in 0..MaxChange /\ inHand \in Nat /\ queue \in Nat
  /\ dirty \in BOOLEAN
  /\ load \in {"idle", "contacts", "null", "done"}
  /\ readPending \in Nat /\ readContacts \subseteq User /\ readNull \in BOOLEAN
  /\ pendingCount \in Nat /\ contacts \subseteq User /\ isNull \in BOOLEAN
  /\ page \in [user : User, type : ContactType \cup {"profile"}] \cup {NoPage, [user |-> "nobody", type |-> "search"]}

\* Nothing more comes that would make the page load again.
Settled == inHand = 0 /\ queue = 0 /\ ~dirty /\ load = "idle"

Current ==
  /\ pendingCount = Cardinality(dhtclient_get_contacts("pending"))
  /\ contacts = dhtclient_get_contacts("approved")
  /\ isNull = (contacts = {})

\* When nothing is under way, the page shows the table, although the three reads
\* of its last load may have seen three different tables (contacts_page.dart,
\* lines 55 to 60).
ContactsCurrent == Settled => Current

\* DhtClient.h lines 605 and 606, "send that the friend request is allowed or
\* denied": an answer goes to somebody who has asked.
AnswersARequest ==
  [][\A allow \in BOOLEAN :
       sendAddFriendReply(allow) => table[page.user] = "WAIT_ME_REVIEW"]_contactVars
=============================================================================
