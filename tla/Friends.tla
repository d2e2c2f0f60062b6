-------------------------------- MODULE Friends --------------------------------
(***************************************************************************)
(* The way to a new contact: a search, a tap on one of its results, the    *)
(* request that this sends or the contact it adds, the answer of the other *)
(* side, and the contacts page, which has to follow.                       *)
(***************************************************************************)
EXTENDS Contacts, UserSearch

\* Those who deny every request (DENY_ALL); the others ask for any other mode.
CONSTANT Denying

ASSUME FriendsAssumption == Denying \subseteq Person /\ Person \ Denying \subseteq User

\* ApplyFriendMode, which the answer to a search names.
ApplyModes == {0, 1, 4}  \* NEED_MY_CHECK, AUTO_ALLOW, ALLOW_BY_ANSWER
AddModes   == {1, 2}     \* AUTO_ALLOW, AUTO_ALLOW_NOT_IN_CONTACTS
Modes(u)   == IF u \in Denying THEN {3} ELSE ApplyModes \cup AddModes

vars == <<contactVars, searchVars>>
-----------------------------------------------------------------------------
Init == ContactsInit /\ SearchInit

\* The add-friend page opens from the home page ...
OpenSearch ==
  /\ load = "idle"
  /\ page = NoPage
  /\ page' = [user |-> "nobody", type |-> "search"]
  /\ UNCHANGED <<table, applied, changes, inHand, queue, dirty, load, read, fields, searchVars>>

\* ... searches as long as it is open ...
SearchPage ==
  /\ load = "idle"
  /\ page.type = "search"
  /\ search \/ Type \/ Show
  /\ UNCHANGED contactVars

\* ... while answers come in, at any time.
SearchAnswers ==
  /\ load = "idle"
  /\ \E a \in Answer : setFindUserNotify(a)
  /\ UNCHANGED contactVars

\* The way back.
CloseSearch ==
  /\ load = "idle"
  /\ page.type = "search"
  /\ page' = NoPage
  /\ LeaveSearch
  /\ UNCHANGED <<table, applied, changes, inHand, queue, dirty, load, read, fields>>

\* A tap on a result: a request, a new contact, both or, for a user who denies
\* all requests, neither.
TapOnResult(u, mode) ==
  /\ load = "idle"
  /\ mounted
  /\ u \in UserOf(snap.list)
  /\ IF mode \in ApplyModes THEN sendAddFriendMsg(u) ELSE UNCHANGED applied
  /\ IF mode \in AddModes THEN addContact(u) ELSE UNCHANGED <<table, dirty>>
  /\ page' = NoPage
  /\ LeaveSearch
  /\ UNCHANGED <<changes, inHand, queue, load, read, fields>>

Next ==
  \/ ContactsNext /\ UNCHANGED searchVars
  \/ OpenSearch \/ SearchPage \/ SearchAnswers \/ CloseSearch
  \/ \E u \in Person : \E mode \in Modes(u) : TapOnResult(u, mode)

Spec == Init /\ [][Next]_vars

\* Threads run, the isolate takes its messages, and a page that has to be built
\* gets its frame while the app is in the foreground.
Fairness ==
  /\ WF_vars(on_add_me_request /\ UNCHANGED searchVars)
  /\ WF_vars(setAddMeNotify /\ UNCHANGED searchVars)
  /\ WF_vars((getContacts \/ getContacts_approved \/ getContacts_isNull \/ getContacts_done)
             /\ UNCHANGED searchVars)

FairSpec == Spec /\ Fairness
-----------------------------------------------------------------------------
TypeOK == ContactsTypeOK /\ SearchTypeOK

\* Whatever happens, the page shows the table again and again: no change stays
\* without an event that makes it load.
ContactsFollow == []<>Current
=============================================================================
