----------------------------- MODULE FriendsProofs -----------------------------
(***************************************************************************)
(* Theorems about Friends, for any users, any number of changes, searches  *)
(* and answers.                                                            *)
(***************************************************************************)
EXTENDS Friends, FiniteSetTheorems, TLAPS

\* What is read of the table are users, and their number is a number.
LEMMA ReadType ==
  ASSUME NEW type
  PROVE  /\ dhtclient_get_contacts(type) \subseteq User
         /\ Cardinality(dhtclient_get_contacts(type)) \in Nat
<1>1. dhtclient_get_contacts(type) \subseteq User
  BY DEF dhtclient_get_contacts
<1>2. IsFiniteSet(dhtclient_get_contacts(type))
  BY <1>1, ContactsAssumption, FS_Subset
<1> QED
  BY <1>1, <1>2, FS_CardinalityType

LEMMA InitType == Init => TypeOK
<1> SUFFICES ASSUME Init PROVE TypeOK
  OBVIOUS
<1>1. ContactsTypeOK
  <2>1. table \in [User -> AddFriendProgress]
    BY DEF Init, ContactsInit, AddFriendProgress
  <2>2. changes \in 0..MaxChange /\ inHand \in Nat /\ queue \in Nat
    BY ContactsAssumption DEF Init, ContactsInit
  <2> QED
    BY <2>1, <2>2 DEF Init, ContactsInit, ContactsTypeOK
<1>2. SearchTypeOK
  <2>1. asked \in [Answer -> 0..MaxAnswers]
    BY SearchAssumption DEF Init, SearchInit
  <2>2. snap \in [nr : 0..MaxSearch, list : Seq(Answer)]
    BY SearchAssumption DEF Init, SearchInit, NoSnap
  <2>3. nr \in 0..MaxSearch /\ early \in Nat /\ results \in Seq(Answer)
    BY SearchAssumption DEF Init, SearchInit
  <2> QED
    BY <2>1, <2>2, <2>3 DEF Init, SearchInit, SearchTypeOK
<1> QED
  BY <1>1, <1>2 DEF TypeOK

\* The actions of the contacts page and its table.
LEMMA ContactsType == ContactsTypeOK /\ ContactsNext => ContactsTypeOK'
<1> SUFFICES ASSUME ContactsTypeOK, ContactsNext PROVE ContactsTypeOK'
  OBVIOUS
<1> USE ContactsAssumption DEF ContactsTypeOK
<1>1. ASSUME NEW u \in User, NEW p \in AddFriendProgress, Save(u, p), applied' \subseteq User
      PROVE  ContactsTypeOK'
  BY <1>1 DEF Save, fields, read
<1>2. ASSUME NEW u \in User, onReceiveMsg_AddFriend(u) PROVE ContactsTypeOK'
  BY <1>1, <1>2 DEF onReceiveMsg_AddFriend, AddFriendProgress
<1>3. ASSUME NEW u \in User, onReceiveMsg_add_friend_reply(u) PROVE ContactsTypeOK'
  BY <1>1, <1>3 DEF onReceiveMsg_add_friend_reply, AddFriendProgress
<1>4. ASSUME NEW u \in User, OpenProfile(u) PROVE ContactsTypeOK'
  BY <1>4 DEF OpenProfile, fields, read
<1>5. ASSUME NEW u \in User, OpenDetails(u) PROVE ContactsTypeOK'
  <2>1. getContactType(table[u]) \subseteq ContactType
    BY DEF getContactType, ContactType, AddFriendProgress
  <2>2. page' \in [user : User, type : ContactType \cup {"profile"}]
    BY <1>5, <2>1 DEF OpenDetails
  <2> QED
    BY <1>5, <2>2 DEF OpenDetails, fields, read
<1>6. CASE on_add_me_request
  BY <1>6 DEF on_add_me_request, fields, read
<1>7. CASE setAddMeNotify
  BY <1>7 DEF setAddMeNotify, Refresh, fields, read
<1>8. CASE Rebuild
  BY <1>8 DEF Rebuild, Refresh, fields, read
<1>9. CASE ClosePage
  BY <1>9 DEF ClosePage, fields, read
<1>10. CASE delContact
  BY <1>10 DEF delContact, Refresh, AddFriendProgress, fields, read
<1>11. ASSUME NEW allow \in BOOLEAN, sendAddFriendReply(allow) PROVE ContactsTypeOK'
  BY <1>11 DEF sendAddFriendReply, Refresh, AddFriendProgress, fields, read
<1>12. CASE getContacts
  BY <1>12, ReadType DEF getContacts, fields
<1>13. CASE getContacts_approved
  BY <1>13, ReadType DEF getContacts_approved
<1>14. CASE getContacts_isNull
  BY <1>14 DEF getContacts_isNull, fields
<1>15. CASE getContacts_done
  BY <1>15 DEF getContacts_done
<1> QED
  BY <1>2, <1>3, <1>4, <1>5, <1>6, <1>7, <1>8, <1>9, <1>10, <1>11, <1>12, <1>13, <1>14, <1>15
     DEF ContactsNext

\* The list keeps its type, and so does what the page heard of it.
LEMMA AnswerType ==
  ASSUME SearchTypeOK, NEW a \in Answer, setFindUserNotify(a)
  PROVE  SearchTypeOK'
<1>1. asked' \in [Answer -> 0..MaxAnswers]
  BY SearchAssumption DEF setFindUserNotify, Take, SearchTypeOK
<1>2. results' \in Seq(Answer)
  <2>1. results \in Seq(Answer) /\ Append(results, a) \in Seq(Answer)
    BY DEF SearchTypeOK
  <2> QED
    BY <2>1 DEF setFindUserNotify
<1>3. snap' \in [nr : 0..MaxSearch, list : Seq(Answer)]
  BY <1>2 DEF setFindUserNotify, SearchTypeOK
<1> QED
  BY <1>1, <1>2, <1>3 DEF setFindUserNotify, SearchTypeOK

LEMMA SearchType ==
  ASSUME SearchTypeOK, search
  PROVE  SearchTypeOK'
<1> USE SearchAssumption
<1>1. nr' \in 0..MaxSearch
  BY DEF search, find_user, SearchTypeOK
<1>2. asked' \in [Answer -> 0..MaxAnswers]
  <2> PICK P \in SUBSET Person, n \in 1..MaxAnswers :
        asked' = [a \in Answer |-> IF a.nr = nr' /\ a.user \in P THEN n ELSE asked[a]]
    BY DEF search, find_user
  <2>1. n \in 0..MaxAnswers
    OBVIOUS
  <2> QED
    BY <2>1 DEF SearchTypeOK
<1>3. late' \subseteq Answer /\ results' \in Seq(Answer) /\ early' \in Nat
  BY DEF search, find_user
<1> QED
  BY <1>1, <1>2, <1>3 DEF search, SearchTypeOK

LEMMA LeaveType ==
  ASSUME SearchTypeOK, LeaveSearch
  PROVE  SearchTypeOK'
<1>1. snap' \in [nr : 0..MaxSearch, list : Seq(Answer)]
  BY SearchAssumption DEF LeaveSearch, NoSnap
<1> QED
  BY <1>1 DEF LeaveSearch, SearchTypeOK

LEMMA ShowType ==
  ASSUME SearchTypeOK, Show
  PROVE  SearchTypeOK'
<1>1. snap' \in [nr : 0..MaxSearch, list : Seq(Answer)]
  BY SearchAssumption DEF Show, NoSnap
<1>2. early' \in Nat
  BY DEF Show, SearchTypeOK
<1> QED
  BY <1>1, <1>2 DEF Show, SearchTypeOK

LEMMA NextType == TypeOK /\ [Next]_vars => TypeOK'
<1> SUFFICES ASSUME ContactsTypeOK, SearchTypeOK, [Next]_vars
             PROVE  ContactsTypeOK' /\ SearchTypeOK'
  BY DEF TypeOK
<1>1. UNCHANGED contactVars => ContactsTypeOK'
  BY DEF contactVars, ContactsTypeOK, read, fields
<1>2. UNCHANGED searchVars => SearchTypeOK'
  BY DEF searchVars, SearchTypeOK
<1>3. CASE ContactsNext /\ UNCHANGED searchVars
  BY <1>2, <1>3, ContactsType
<1>4. CASE OpenSearch
  BY <1>2, <1>4 DEF OpenSearch, ContactsTypeOK, read, fields
<1>5. CASE SearchPage
  <2>1. Type => SearchTypeOK'
    BY DEF Type, SearchTypeOK
  <2> QED
    BY <1>1, <1>5, <2>1, SearchType, ShowType DEF SearchPage
<1>6. CASE SearchAnswers
  BY <1>1, <1>6, AnswerType DEF SearchAnswers
<1>7. CASE CloseSearch
  BY <1>7, LeaveType DEF CloseSearch, ContactsTypeOK, read, fields
<1>8. ASSUME NEW u \in Person, NEW mode \in Modes(u), TapOnResult(u, mode)
      PROVE  ContactsTypeOK' /\ SearchTypeOK'
  <2>1. u \in User \/ u \in Denying
    BY FriendsAssumption
  <2>2. u \in Denying => mode \notin ApplyModes /\ mode \notin AddModes
    BY DEF Modes, ApplyModes, AddModes
  <2>3. applied' \subseteq User
    BY <1>8, <2>1, <2>2 DEF TapOnResult, sendAddFriendMsg, ContactsTypeOK
  <2>4. table' \in [User -> AddFriendProgress] /\ dirty' \in BOOLEAN
    BY <1>8 DEF TapOnResult, addContact, Refresh, ContactsTypeOK, AddFriendProgress
  <2> QED
    BY <1>8, <2>3, <2>4, LeaveType DEF TapOnResult, ContactsTypeOK, read, fields
<1>9. CASE UNCHANGED vars
  BY <1>1, <1>2, <1>9 DEF vars
<1> QED
  BY <1>3, <1>4, <1>5, <1>6, <1>7, <1>8, <1>9 DEF Next

\* Every variable of the contacts and of the search keeps its type.
THEOREM TypeCorrect == FairSpec => []TypeOK
BY InitType, NextType, PTL DEF FairSpec, Spec
-----------------------------------------------------------------------------
(***************************************************************************)
(* ContactsCurrent speaks of the moment when nothing is under way.  The    *)
(* invariant says of each stage of a load what it has read, as long as     *)
(* nothing has been reported since: a change of the table makes the        *)
(* premise false, and only a new load makes it true again.                 *)
(***************************************************************************)
Pending  == Cardinality(dhtclient_get_contacts("pending"))
Approved == dhtclient_get_contacts("approved")

LoadCurrent ==
  inHand = 0 /\ queue = 0 /\ ~dirty =>
    /\ IF load = "contacts" THEN readPending = Pending ELSE pendingCount = Pending
    /\ load \in {"null", "done"} => readContacts = Approved
    /\ load = "done" => readNull = (Approved = {})
    /\ load = "idle" => contacts = Approved /\ isNull = (Approved = {})

LEMMA ContactsStep ==
  ASSUME ContactsTypeOK, LoadCurrent, ContactsNext
  PROVE  LoadCurrent'
<1> USE DEF ContactsTypeOK, LoadCurrent, Pending, Approved, dhtclient_get_contacts
<1>1. ASSUME NEW u \in User, NEW p, Save(u, p) PROVE LoadCurrent'
  BY <1>1 DEF Save
<1>2. ASSUME NEW u \in User, onReceiveMsg_AddFriend(u) \/ onReceiveMsg_add_friend_reply(u)
      PROVE  LoadCurrent'
  BY <1>1, <1>2 DEF onReceiveMsg_AddFriend, onReceiveMsg_add_friend_reply
<1>3. ASSUME NEW u \in User, OpenProfile(u) \/ OpenDetails(u) PROVE LoadCurrent'
  BY <1>3 DEF OpenProfile, OpenDetails, fields, read
<1>4. CASE on_add_me_request
  BY <1>4 DEF on_add_me_request
<1>5. CASE setAddMeNotify \/ Rebuild \/ delContact
  BY <1>5 DEF setAddMeNotify, Rebuild, delContact, Refresh
<1>6. ASSUME NEW allow \in BOOLEAN, sendAddFriendReply(allow) PROVE LoadCurrent'
  BY <1>6 DEF sendAddFriendReply, Refresh
<1>7. CASE ClosePage
  BY <1>7 DEF ClosePage, fields, read
<1>8. CASE getContacts
  BY <1>8 DEF getContacts
<1>9. CASE getContacts_approved
  BY <1>9 DEF getContacts_approved
<1>10. CASE getContacts_isNull
  BY <1>10 DEF getContacts_isNull, fields
<1>11. CASE getContacts_done
  BY <1>11 DEF getContacts_done
<1> QED
  BY <1>2, <1>3, <1>4, <1>5, <1>6, <1>7, <1>8, <1>9, <1>10, <1>11 DEF ContactsNext

LEMMA NextCurrent == TypeOK /\ LoadCurrent /\ [Next]_vars => LoadCurrent'
<1> SUFFICES ASSUME ContactsTypeOK, LoadCurrent, [Next]_vars PROVE LoadCurrent'
  BY DEF TypeOK
<1>1. CASE UNCHANGED <<table, inHand, queue, dirty, load, read, fields>>
  BY <1>1 DEF LoadCurrent, Pending, Approved, dhtclient_get_contacts, read, fields
<1>2. CASE OpenSearch \/ SearchPage \/ SearchAnswers \/ CloseSearch \/ UNCHANGED vars
  BY <1>1, <1>2 DEF OpenSearch, SearchPage, SearchAnswers, CloseSearch, vars, contactVars, read,
                    fields
<1>3. ASSUME NEW u \in Person, NEW mode \in Modes(u), TapOnResult(u, mode)
      PROVE  LoadCurrent'
  <2>1. CASE mode \in AddModes
    BY <1>3, <2>1 DEF TapOnResult, addContact, Refresh, LoadCurrent
  <2>2. CASE mode \notin AddModes
    BY <1>1, <1>3, <2>2 DEF TapOnResult
  <2> QED
    BY <2>1, <2>2
<1> QED
  BY <1>2, <1>3, ContactsStep DEF Next

\* When no change is under way, the contacts page shows the table, whatever the
\* native threads did between the three reads of its last load
\* (contacts_page.dart, lines 54 to 62).
THEOREM ContactsCurrentTheorem == FairSpec => []ContactsCurrent
<1>1. Init => LoadCurrent
  BY DEF Init, ContactsInit, LoadCurrent
<1>2. LoadCurrent => ContactsCurrent
  BY DEF LoadCurrent, ContactsCurrent, Settled, Current, Pending, Approved
<1> QED
  BY <1>1, <1>2, NextCurrent, TypeCorrect, PTL DEF FairSpec, Spec
-----------------------------------------------------------------------------
(***************************************************************************)
(* The search.  An answer under way belongs to a search that has begun,    *)
(* and to the latest one or to those that were late when it began.         *)
(***************************************************************************)
SearchInv ==
  /\ \A a \in Answer : asked[a] > 0 => a.nr = nr \/ (a.nr < nr /\ a \in late)
  /\ snap.nr <= nr
  /\ OnlyLateAnswersMix
  /\ ShownIsFound

LEMMA SearchKeeps ==
  ASSUME SearchTypeOK, SearchInv, search
  PROVE  SearchInv'
<1>1. nr' = nr + 1 /\ nr \in Nat /\ results' = <<>> /\ UNCHANGED <<snap, mounted>> /\ early' = 0
  BY SearchAssumption DEF search, find_user, SearchTypeOK
<1>2. ASSUME NEW a \in Answer, asked'[a] > 0
      PROVE  a.nr = nr' \/ (a.nr < nr' /\ a \in late')
  <2> PICK P \in SUBSET Person, n \in 1..MaxAnswers :
        asked' = [b \in Answer |-> IF b.nr = nr' /\ b.user \in P THEN n ELSE asked[b]]
    BY DEF search, find_user
  <2>1. a.nr = nr' \/ asked[a] > 0
    BY <1>2
  <2>2. late' = {b \in Answer : asked[b] > 0}
    BY DEF search, find_user
  <2>3. a.nr \in Int
    BY DEF Answer
  <2> QED
    BY <1>1, <2>1, <2>2, <2>3 DEF SearchInv
<1>3. snap.nr \in Int /\ snap'.nr < nr'
  BY <1>1 DEF SearchTypeOK, SearchInv
<1>4. ShownIsFound'
  BY <1>1, <1>3 DEF SearchInv, ShownIsFound
<1> QED
  BY <1>1, <1>2, <1>3, <1>4 DEF SearchInv, OnlyLateAnswersMix

LEMMA AnswerKeeps ==
  ASSUME SearchTypeOK, SearchInv, NEW a \in Answer, setFindUserNotify(a)
  PROVE  SearchInv'
<1>1. asked[a] > 0 /\ asked' = [asked EXCEPT ![a] = @ - 1] /\ UNCHANGED <<nr, mounted, early, late>>
  BY DEF setFindUserNotify, Take
<1>2. \A b \in Answer : asked'[b] > 0 => asked[b] > 0
  BY <1>1 DEF SearchTypeOK
<1>3. a.nr = nr \/ a \in late
  BY <1>1 DEF SearchInv
<1>4. CASE a.user \in UserOf(results)
  <2>1. UNCHANGED <<results, snap>>
    BY <1>4 DEF setFindUserNotify
  <2> QED
    BY <1>1, <1>2, <2>1 DEF SearchInv, ShownIsFound, OnlyLateAnswersMix
<1>5. CASE a.user \notin UserOf(results)
  <2>1. /\ results' = Append(results, a)
        /\ snap' = IF mounted THEN [nr |-> nr, list |-> results'] ELSE snap
    BY <1>5 DEF setFindUserNotify
  <2>2. results \in Seq(Answer) /\ Len(results') = Len(results) + 1
    BY <2>1 DEF SearchTypeOK
  <2>3. OnlyLateAnswersMix'
    <3>1. \A k \in DOMAIN results' : (k \in DOMAIN results /\ results'[k] = results[k]) \/ results'[k] = a
      BY <2>1, <2>2
    <3> QED
      BY <1>1, <1>3, <3>1 DEF SearchInv, OnlyLateAnswersMix
  <2>4. mounted => snap' # NoSnap /\ snap'.list = results'
    <3>1. results' # <<>>
      BY <2>1, <2>2
    <3> QED
      BY <2>1, <3>1 DEF NoSnap
  <2>5. snap'.nr <= nr
    BY <2>1 DEF SearchInv, SearchTypeOK
  <2> QED
    BY <1>1, <1>2, <2>3, <2>4, <2>5 DEF SearchInv, ShownIsFound
<1> QED
  BY <1>4, <1>5

LEMMA NextSearch == TypeOK /\ SearchInv /\ [Next]_vars => SearchInv'
<1> SUFFICES ASSUME SearchTypeOK, SearchInv, [Next]_vars PROVE SearchInv'
  BY DEF TypeOK
<1>0. nr \in Nat /\ NoSnap.nr = 0
  BY DEF SearchTypeOK, NoSnap
<1>1. CASE UNCHANGED <<nr, asked, results, mounted, snap, early, late>>
  BY <1>1 DEF SearchInv, ShownIsFound, OnlyLateAnswersMix
<1>2. CASE LeaveSearch
  BY <1>0, <1>2 DEF LeaveSearch, SearchInv, ShownIsFound, OnlyLateAnswersMix
<1>3. CASE Show
  <2>1. mounted' => early' = Len(results)
    BY <1>3 DEF Show
  <2>2. Len(results) \in Nat
    BY DEF SearchTypeOK
  <2> QED
    BY <1>0, <1>3, <2>1, <2>2 DEF Show, SearchInv, ShownIsFound, OnlyLateAnswersMix
<1>4. CASE SearchPage
  BY <1>1, <1>3, <1>4, SearchKeeps DEF SearchPage, Type
<1>5. CASE SearchAnswers
  BY <1>5, AnswerKeeps DEF SearchAnswers
<1>6. CASE OpenSearch \/ UNCHANGED vars \/ (ContactsNext /\ UNCHANGED searchVars)
  BY <1>1, <1>6 DEF OpenSearch, vars, searchVars
<1> QED
  BY <1>2, <1>4, <1>5, <1>6 DEF Next, CloseSearch, TapOnResult

LEMMA InitSearch == Init => SearchInv
BY DEF Init, SearchInit, SearchInv, ShownIsFound, OnlyLateAnswersMix, NoSnap

\* The results on the page are those that have been found, but for the results of
\* an earlier search and those that came before the page listened
\* (add_friend_page.dart lines 118 to 127, dhtclient.dart lines 153 to 159).
THEOREM ShownIsFoundTheorem == FairSpec => []ShownIsFound
<1>1. SearchInv => ShownIsFound
  BY DEF SearchInv
<1> QED
  BY <1>1, InitSearch, NextSearch, TypeCorrect, PTL DEF FairSpec, Spec

\* What a search lists answers it, or was under way when it began
\* (dhtclient.dart lines 153 to 159 and 325 to 333).
THEOREM OnlyLateAnswersMixTheorem == FairSpec => []OnlyLateAnswersMix
<1>1. SearchInv => OnlyLateAnswersMix
  BY DEF SearchInv
<1> QED
  BY <1>1, InitSearch, NextSearch, TypeCorrect, PTL DEF FairSpec, Spec
=============================================================================
