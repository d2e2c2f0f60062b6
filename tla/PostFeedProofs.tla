---------------------------- MODULE PostFeedProofs ----------------------------
(***************************************************************************)
(* Theorems about PostFeed, for any number of posts, any page size and any *)
(* bounds.                                                                 *)
(***************************************************************************)
EXTENDS PostFeed, FiniteSetTheorems, FunctionTheorems, TLAPS

LEMMA NoticeType ==
  ASSUME NEW i \in Post, NEW b \in BOOLEAN
  PROVE  [id |-> i, ok |-> b] \in Notice
BY DEF Notice

\* What the native client hands out are rows of the set it was asked for.
LEMMA PageType ==
  ASSUME NEW S, S \subseteq Post, NEW o \in Nat, NEW k \in {"page", "other"}
  PROVE  /\ getPosts(S, o, k) \in Snap
         /\ \A n \in getPosts(S, o, k).posts : n.ok /\ n.id \in S \ hidden
<1>1. \A i \in dhtclient_get_posts(S, o) \ hidden : i \in S \ hidden /\ i \in Post
  BY DEF dhtclient_get_posts
<1>2. getPosts(S, o, k).posts \subseteq Notice
  BY <1>1, NoticeType DEF getPosts
<1>3. \A n \in getPosts(S, o, k).posts : n.ok /\ n.id \in S \ hidden
  BY <1>1 DEF getPosts
<1> QED
  BY <1>2, <1>3 DEF getPosts, Snap

LEMMA RowsArePosts ==
  ASSUME TypeOK
  PROVE  Rows \subseteq Post /\ hidden \subseteq Post /\ last \in Nat /\ MaxPost \in Nat
BY FeedAssumption DEF TypeOK, Rows, Post

LEMMA InitType == Init => TypeOK
<1> SUFFICES ASSUME Init PROVE TypeOK
  OBVIOUS
<1>1. last \in Nat /\ Rows \subseteq Post /\ hidden \subseteq Rows
  BY FeedAssumption DEF Init, Rows, Post
<1>2. snap \in Snap
  BY <1>1, PageType DEF Init
<1>3. base \in 0..last /\ front \in Int /\ back \in Int /\ offset \in Nat
  BY <1>1 DEF Init
<1>4. queue \in Seq(Notice) /\ list \subseteq Entry /\ replaced \subseteq Notice
  BY DEF Init
<1> QED
  BY <1>1, <1>2, <1>3, <1>4 DEF Init, TypeOK

LEMMA EmitType ==
  ASSUME TypeOK, NEW s \in Snap, Emit(s)
  PROVE  snap' \in Snap /\ dirty' \in BOOLEAN /\ replaced' \subseteq Notice
BY DEF TypeOK, Emit, Snap

LEMMA MergeType ==
  ASSUME TypeOK, NEW posts, posts \subseteq Notice, merge(posts)
  PROVE  list' \subseteq Entry /\ front' \in Int /\ back' \in Int
<1>1. last \in Nat /\ front \in Int /\ back \in Int /\ list \subseteq Entry
  BY RowsArePosts DEF TypeOK
<1>2. \A i \in Post : front \in Int /\ back + last - i \in Int
  BY <1>1, FeedAssumption DEF Post
<1>3. \A i \in Fresh(posts) : i \in Post
  BY DEF Fresh
<1>4. list' \subseteq Entry
  BY <1>1, <1>2, <1>3 DEF merge, Entry
<1> QED
  BY <1>1, <1>4 DEF merge

LEMMA NextType == TypeOK /\ [Next]_vars => TypeOK'
<1> SUFFICES ASSUME TypeOK, [Next]_vars PROVE TypeOK'
  OBVIOUS
<1> USE FeedAssumption
<1>0. Rows \subseteq Post /\ hidden \subseteq Post /\ last \in Nat /\ MaxPost \in Nat
  BY RowsArePosts
<1>1. ASSUME NEW i \in Post, NEW b \in BOOLEAN, on_new_post(i, b)
      PROVE  /\ queue' \in Seq(Notice) /\ tab' = tab
             /\ snap' \in Snap /\ dirty' \in BOOLEAN /\ rebuild' \in BOOLEAN
             /\ hasMore' \in BOOLEAN /\ disturbed' \in BOOLEAN
             /\ list' \subseteq Entry /\ front' \in Int /\ back' \in Int /\ offset' \in Nat
             /\ base' = base /\ replaced' \subseteq Notice
  BY <1>1, NoticeType DEF on_new_post, TypeOK, paging
<1>2. CASE NewPost
  <2>1. last + 1 \in Post
    BY <1>0, <1>2 DEF NewPost, Post
  <2>2. last' \in 0..MaxPost /\ hidden' \subseteq Rows' /\ base' \in 0..last'
    <3>1. base' = base /\ hidden' = hidden /\ last' = last + 1 /\ last < MaxPost
      BY <1>1, <1>2, <2>1 DEF NewPost
    <3>2. 1..last \subseteq 1..(last + 1) /\ hidden \subseteq 1..last /\ base \in 0..last
      BY <1>0 DEF TypeOK, Rows
    <3> QED
      BY <1>0, <3>1, <3>2 DEF Rows
  <2> QED
    BY <1>1, <1>2, <2>1, <2>2 DEF NewPost, TypeOK
<1>3. ASSUME NEW i \in Rows, TouchPost(i) PROVE TypeOK'
  <2>1. i \in Post /\ (i \notin hidden) \in BOOLEAN
    BY <1>0
  <2> QED
    BY <1>1, <1>3, <2>1 DEF TouchPost, TypeOK, Rows
<1>4. ASSUME NEW i \in Rows, delPost(i) PROVE TypeOK'
  <2>1. i \in Post
    BY <1>0
  <2> QED
    BY <1>1, <1>4, <2>1 DEF delPost, TypeOK, Rows
<1>5. CASE setNewPostNotify
  <2>1. Head(queue) \in Notice /\ Tail(queue) \in Seq(Notice)
    BY <1>5 DEF setNewPostNotify, TypeOK
  <2>2. [kind |-> "event", posts |-> {Head(queue)}] \in Snap
    BY <2>1 DEF Snap
  <2>3. snap' \in Snap /\ dirty' \in BOOLEAN /\ replaced' \subseteq Notice
    BY <1>5, <2>2, EmitType DEF setNewPostNotify
  <2> QED
    BY <1>5, <2>1, <2>3 DEF setNewPostNotify, TypeOK, paging, Rows
<1>6. CASE Scroll
  <2>1. getPosts(Rows, offset, "page") \in Snap
    BY <1>0, PageType DEF TypeOK
  <2>2. snap' \in Snap /\ dirty' \in BOOLEAN /\ replaced' \subseteq Notice
    BY <1>6, <2>1, EmitType DEF Scroll
  <2> QED
    BY <1>6, <2>2 DEF Scroll, TypeOK, paging, Rows
<1>7. ASSUME NEW o \in 0..MaxPost, LoadElsewhere(o) PROVE TypeOK'
  <2>1. getPosts(Friend \cap Rows, o, "other") \in Snap
    <3>1. Friend \cap Rows \subseteq Post /\ o \in Nat
      BY <1>0
    <3> QED
      BY <3>1, PageType
  <2>2. snap' \in Snap /\ dirty' \in BOOLEAN /\ replaced' \subseteq Notice
    BY <1>7, <2>1, EmitType DEF LoadElsewhere
  <2> QED
    BY <1>7, <2>2 DEF LoadElsewhere, TypeOK, paging, Rows
<1>8. CASE MarkRebuild
  BY <1>8 DEF MarkRebuild, TypeOK, paging, Rows
<1>9. CASE Frame
  <2>1. /\ list' \subseteq Entry /\ front' \in Int /\ back' \in Int
        /\ offset' \in Nat /\ hasMore' \in BOOLEAN /\ disturbed' \in BOOLEAN
    <3>1. CASE snap = NoSnap
      BY <1>9, <3>1 DEF Frame, TypeOK, paging
    <3>2. CASE snap # NoSnap
      <4>1. snap.posts \subseteq Notice
        BY DEF TypeOK, Snap
      <4>2. merge(snap.posts) /\ advance
        BY <1>9, <3>2 DEF Frame
      <4> QED
        BY <1>9, <3>2, <4>1, <4>2, MergeType DEF Frame, advance, TypeOK
    <3> QED
      BY <3>1, <3>2
  <2>2. getPosts(Rows, offset', "page") \in Snap
    BY <1>0, <2>1, PageType
  <2> QED
    BY <1>9, <2>1, <2>2 DEF Frame, TypeOK, Rows
<1>10. CASE LeaveTab
  <2>1. NoSnap \in Snap
    BY DEF NoSnap, Snap
  <2>2. /\ snap' = NoSnap /\ dirty' = FALSE /\ rebuild' = FALSE /\ disturbed' = FALSE
        /\ tab' = "world" /\ list' = {} /\ replaced' = {}
        /\ front' = -1 /\ back' = 0 /\ base' = 0
        /\ last' = last /\ hidden' = hidden /\ queue' = queue
        /\ offset' = offset /\ hasMore' = hasMore
    BY <1>10 DEF LeaveTab
  <2>3. base' \in 0..last' /\ front' \in Int /\ back' \in Int
    BY <1>0, <2>2
  <2> QED
    BY <2>1, <2>2, <2>3 DEF TypeOK, Rows
<1>11. CASE EnterTab
  <2>1. getPosts(Rows, 0, "page") \in Snap
    BY <1>0, PageType
  <2> QED
    BY <1>0, <1>11, <2>1 DEF EnterTab, TypeOK, Rows
<1>12. CASE UNCHANGED vars
  BY <1>12 DEF vars, paging, TypeOK, Rows
<1> QED
  BY <1>2, <1>3, <1>4, <1>5, <1>6, <1>7, <1>8, <1>9, <1>10, <1>11, <1>12 DEF Next

\* Every variable of the feed keeps its type.
THEOREM TypeCorrect == Spec => []TypeOK
BY InitType, NextType, PTL DEF Spec
-----------------------------------------------------------------------------
\* The loop over a snapshot inserts only posts the list does not have.
LEMMA MergeNoDuplicates ==
  ASSUME NoDuplicates, NEW posts, merge(posts)
  PROVE  NoDuplicates'
<1> SUFFICES ASSUME NEW e \in list', NEW f \in list', e.id = f.id PROVE e = f
  BY DEF NoDuplicates
<1> DEFINE place(i) == IF GoesOnTop(i, posts) THEN front ELSE back + last - i
<1> DEFINE new == {[id |-> i, at |-> place(i)] : i \in Fresh(posts)}
<1>1. list' \subseteq list \cup new
  BY DEF merge
<1>2. \A g \in new : g.id \in Fresh(posts) /\ g = [id |-> g.id, at |-> place(g.id)]
  OBVIOUS
<1> HIDE DEF new, place
<1>3. \A g \in list : g.id \notin Fresh(posts)
  BY DEF Fresh, Listed
<1>4. CASE e \in list /\ f \in list
  BY <1>4 DEF NoDuplicates
<1>5. CASE e \in new /\ f \in new
  BY <1>2, <1>5
<1> QED
  BY <1>1, <1>2, <1>3, <1>4, <1>5

LEMMA NextNoDuplicates == NoDuplicates /\ [Next]_vars => NoDuplicates'
<1> SUFFICES ASSUME NoDuplicates, [Next]_vars PROVE NoDuplicates'
  OBVIOUS
<1>1. CASE list' = list
  BY <1>1 DEF NoDuplicates
<1>2. CASE Frame
  BY <1>1, <1>2, MergeNoDuplicates DEF Frame, paging
<1>3. CASE LeaveTab
  BY <1>3 DEF LeaveTab, NoDuplicates
<1> QED
  BY <1>1, <1>2, <1>3 DEF Next, NewPost, TouchPost, delPost, on_new_post, setNewPostNotify,
                          Scroll, LoadElsewhere, MarkRebuild, EnterTab, paging, vars

\* No interleaving of loads, live events, pages of other lists and frames puts a
\* post into the list twice (discover_main.dart, lines 414 to 432).
THEOREM NoDuplicatesTheorem == Spec => []NoDuplicates
<1>1. Init => NoDuplicates
  BY DEF Init, NoDuplicates
<1> QED
  BY <1>1, NextNoDuplicates, PTL DEF Spec
-----------------------------------------------------------------------------
(***************************************************************************)
(* HiddenLeaves is not inductive: a snapshot or a queue may hold an older  *)
(* event that says the hidden post is visible, and a frame that builds it  *)
(* would list the post again.  HiddenInv says that the newer event is then *)
(* still behind it.                                                        *)
(***************************************************************************)
Yes(i)  == [id |-> i, ok |-> TRUE]
No(i)   == [id |-> i, ok |-> FALSE]

SnapHidden == \A i \in hidden : Yes(i) \in snap.posts => Unseen(No(i))
NoBoth     == \A i \in Post : ~(Yes(i) \in snap.posts /\ No(i) \in snap.posts)
QueueOrder ==
  \A i \in hidden : \A k \in 1..Len(queue) :
    queue[k] = Yes(i) => \E l \in 1..Len(queue) : k < l /\ queue[l] = No(i)
WorldEmpty == tab = "world" => list = {} /\ snap = NoSnap /\ ~dirty /\ ~rebuild
HiddenInv  == HiddenLeaves /\ SnapHidden /\ NoBoth /\ QueueOrder /\ WorldEmpty

\* A notice that is appended to the queue takes none away.
LEMMA AppendKeeps ==
  ASSUME TypeOK, NEW m \in Notice, queue' = Append(queue, m),
         UNCHANGED <<snap, dirty, replaced>>
  PROVE  /\ Unseen(m)'
         /\ \A n : Unseen(n) => Unseen(n)'
<1>1. queue \in Seq(Notice) /\ Len(queue) \in Nat
  BY DEF TypeOK
<1>2. Len(queue') = Len(queue) + 1 /\ queue'[Len(queue) + 1] = m
  BY <1>1
<1>3. \A k \in 1..Len(queue) : k \in 1..Len(queue') /\ queue'[k] = queue[k]
  BY <1>1, <1>2
<1> QED
  BY <1>1, <1>2, <1>3 DEF Unseen, Pending

\* The stream takes none away either: what it replaces is remembered.
LEMMA EmitKeeps ==
  ASSUME tab = "friends", NEW s, Emit(s), UNCHANGED queue
  PROVE  \A n : Unseen(n) => Unseen(n)'
BY DEF Emit, Unseen, Pending

\* What the isolate takes from the queue is in the snapshot.
LEMMA EventKeeps ==
  ASSUME TypeOK, tab = "friends", setNewPostNotify
  PROVE  \A n : Unseen(n) => Unseen(n)'
<1> SUFFICES ASSUME NEW n, Unseen(n) PROVE Unseen(n)'
  OBVIOUS
<1>1. queue \in Seq(Notice) /\ queue # <<>> /\ queue' = Tail(queue)
  BY DEF TypeOK, setNewPostNotify
<1>2. snap'.posts = {Head(queue)} /\ dirty' = TRUE
  BY DEF setNewPostNotify, Emit
<1>3. CASE \E k \in 1..Len(queue) : queue[k] = n
  <2> PICK k \in 1..Len(queue) : queue[k] = n
    BY <1>3
  <2>1. CASE k = 1
    BY <1>1, <1>2, <2>1 DEF Unseen, Pending
  <2>2. CASE k # 1
    <3>1. k - 1 \in 1..Len(queue') /\ queue'[k - 1] = n
      BY <1>1, <2>2
    <3> QED
      BY <3>1 DEF Unseen, Pending
  <2> QED
    BY <2>1, <2>2
<1>4. CASE (dirty /\ n \in snap.posts) \/ n \in replaced
  BY <1>4 DEF Unseen, setNewPostNotify, Emit
<1> QED
  BY <1>3, <1>4 DEF Unseen, Pending

\* A frame takes away only what it builds.
LEMMA FrameKeeps ==
  ASSUME Frame
  PROVE  \A n : Unseen(n) => Unseen(n)' \/ n \in snap.posts
BY DEF Frame, Unseen, Pending

\* Queued events keep their order.
LEMMA AppendOrder ==
  ASSUME TypeOK, QueueOrder, NEW m \in Notice, queue' = Append(queue, m),
         m.ok => m.id \notin hidden', hidden' \subseteq hidden \cup {m.id}
  PROVE  QueueOrder'
<1> SUFFICES ASSUME NEW i \in hidden', NEW k \in 1..Len(queue'), queue'[k] = Yes(i)
             PROVE  \E l \in 1..Len(queue') : k < l /\ queue'[l] = No(i)
  BY DEF QueueOrder, Yes, No
<1>1. queue \in Seq(Notice) /\ Len(queue) \in Nat
  BY DEF TypeOK
<1>2. Len(queue') = Len(queue) + 1 /\ queue'[Len(queue) + 1] = m
  BY <1>1
<1>3. \A j \in 1..Len(queue) : j \in 1..Len(queue') /\ queue'[j] = queue[j]
  BY <1>1, <1>2
<1>4. k # Len(queue) + 1
  BY <1>2 DEF Yes
<1>5. k \in 1..Len(queue) /\ queue[k] = Yes(i)
  BY <1>1, <1>2, <1>3, <1>4
<1>6. CASE i \in hidden
  <2> PICK l \in 1..Len(queue) : k < l /\ queue[l] = No(i)
    BY <1>5, <1>6 DEF QueueOrder
  <2> QED
    BY <1>3
<1>7. CASE i \notin hidden
  <2>1. i = m.id /\ ~m.ok
    BY <1>7
  <2>2. m = No(i)
    BY <2>1 DEF No, Notice
  <2> QED
    BY <1>1, <1>2, <1>5, <2>2
<1> QED
  BY <1>6, <1>7

\* The native client saves a change and reports it.
LEMMA ReportHidden ==
  ASSUME TypeOK, HiddenInv, NEW m \in Notice, queue' = Append(queue, m),
         UNCHANGED <<tab, snap, dirty, rebuild, list, replaced>>,
         m.ok => m.id \notin hidden', hidden' \subseteq hidden \cup {m.id}
  PROVE  HiddenInv'
<1>1. \A i \in hidden' : i \in hidden \/ Unseen(No(i))'
  <2> SUFFICES ASSUME NEW i \in hidden', i \notin hidden PROVE Unseen(No(i))'
    OBVIOUS
  <2>1. m = No(i)
    BY DEF No, Notice
  <2> QED
    BY <2>1, AppendKeeps
<1>2. \A n : Unseen(n) => Unseen(n)'
  BY AppendKeeps
<1>3. HiddenLeaves'
  BY <1>1, <1>2 DEF HiddenInv, HiddenLeaves, Listed, No
<1>4. SnapHidden'
  BY <1>1, <1>2 DEF HiddenInv, SnapHidden, Yes, No
<1>5. NoBoth' /\ WorldEmpty'
  BY DEF HiddenInv, NoBoth, WorldEmpty, Yes, No
<1>6. QueueOrder'
  BY AppendOrder DEF HiddenInv
<1> QED
  BY <1>3, <1>4, <1>5, <1>6 DEF HiddenInv

\* A page that is loaded holds no hidden post.
LEMMA LoadHidden ==
  ASSUME TypeOK, HiddenInv, tab = "friends",
         NEW S, S \subseteq Post, NEW o \in Nat, NEW k \in {"page", "other"},
         Emit(getPosts(S, o, k)), UNCHANGED <<tab, queue, hidden, list>>
  PROVE  HiddenInv'
<1>1. \A n \in snap'.posts : n.ok /\ n.id \notin hidden
  BY PageType DEF Emit
<1>2. \A i : No(i) \notin snap'.posts /\ (i \in hidden => Yes(i) \notin snap'.posts)
  BY <1>1 DEF Yes, No
<1>3. HiddenLeaves'
  BY EmitKeeps DEF HiddenInv, HiddenLeaves, Listed
<1> QED
  BY <1>2, <1>3 DEF HiddenInv, SnapHidden, NoBoth, QueueOrder, WorldEmpty, Yes, No

LEMMA EventHidden ==
  ASSUME TypeOK, HiddenInv, setNewPostNotify
  PROVE  HiddenInv'
<1>1. queue \in Seq(Notice) /\ queue # <<>> /\ queue' = Tail(queue)
  BY DEF TypeOK, setNewPostNotify
<1>2. /\ Len(queue) \in Nat /\ Len(queue') = Len(queue) - 1 /\ Head(queue) = queue[1]
      /\ \A k \in 1..Len(queue') : k + 1 \in 1..Len(queue) /\ queue'[k] = queue[k + 1]
  BY <1>1
<1>3. UNCHANGED <<hidden, tab, rebuild, list>>
  BY DEF setNewPostNotify, paging
<1>4. QueueOrder'
  <2> SUFFICES ASSUME NEW i \in hidden, NEW k \in 1..Len(queue'), queue'[k] = Yes(i)
               PROVE  \E l \in 1..Len(queue') : k < l /\ queue'[l] = No(i)
    BY <1>3 DEF QueueOrder, Yes, No
  <2>1. k + 1 \in 1..Len(queue) /\ queue[k + 1] = Yes(i)
    BY <1>2
  <2> PICK l \in 1..Len(queue) : k + 1 < l /\ queue[l] = No(i)
    BY <2>1 DEF HiddenInv, QueueOrder
  <2>2. l - 1 \in 1..Len(queue') /\ queue'[l - 1] = queue[l] /\ k < l - 1
    BY <1>2
  <2> QED
    BY <2>2
<1>5. CASE tab = "friends"
  <2>1. \A n : Unseen(n) => Unseen(n)'
    BY <1>5, EventKeeps
  <2>2. snap'.posts = {queue[1]}
    BY <1>2, <1>5 DEF setNewPostNotify, Emit
  <2>3. HiddenLeaves'
    BY <1>3, <2>1 DEF HiddenInv, HiddenLeaves, Listed
  <2>4. SnapHidden'
    <3> SUFFICES ASSUME NEW i \in hidden, Yes(i) \in snap'.posts PROVE Unseen(No(i))'
      BY <1>3 DEF SnapHidden, Yes, No
    <3>1. queue[1] = Yes(i) /\ 1 \in 1..Len(queue)
      BY <1>1, <2>2
    <3> PICK l \in 1..Len(queue) : 1 < l /\ queue[l] = No(i)
      BY <3>1 DEF HiddenInv, QueueOrder
    <3> QED
      BY <2>1 DEF Unseen, Pending
  <2>5. NoBoth'
    BY <2>2 DEF NoBoth, Yes, No
  <2> QED
    BY <1>3, <1>4, <1>5, <2>3, <2>4, <2>5 DEF HiddenInv, WorldEmpty
<1>6. CASE tab # "friends"
  <2>1. UNCHANGED <<snap, dirty, replaced>>
    BY <1>6 DEF setNewPostNotify, Emit
  <2>2. list = {} /\ snap.posts = {}
    BY <1>6 DEF HiddenInv, WorldEmpty, TypeOK, NoSnap
  <2> QED
    BY <1>3, <1>4, <2>1, <2>2
       DEF HiddenInv, WorldEmpty, HiddenLeaves, Listed, SnapHidden, NoBoth
<1> QED
  BY <1>5, <1>6

LEMMA FrameHidden ==
  ASSUME TypeOK, HiddenInv, Frame
  PROVE  HiddenInv'
<1>1. tab = "friends" /\ UNCHANGED <<hidden, queue, tab, replaced>>
  BY DEF Frame
<1>2. ASSUME NEW i \in hidden, Unseen(No(i)), No(i) \notin snap.posts
      PROVE  Unseen(No(i))'
  BY <1>2, FrameKeeps
<1>3. ASSUME NEW i \in hidden, Yes(i) \in snap.posts
      PROVE  Unseen(No(i))'
  <2>1. i \in Post
    BY RowsArePosts
  <2>2. No(i) \notin snap.posts
    BY <1>3, <2>1 DEF HiddenInv, NoBoth
  <2> QED
    BY <1>2, <1>3, <2>2 DEF HiddenInv, SnapHidden
<1>4. HiddenLeaves'
  <2> SUFFICES ASSUME NEW i \in hidden, NEW e \in list', e.id = i PROVE Unseen(No(i))'
    BY <1>1 DEF HiddenLeaves, Listed, No
  <2>1. CASE snap = NoSnap
    <3>1. e \in list /\ No(i) \notin snap.posts
      BY <2>1 DEF Frame, paging, NoSnap
    <3> QED
      BY <1>2, <3>1 DEF HiddenInv, HiddenLeaves, Listed, No
  <2>2. CASE snap # NoSnap
    <3>1. merge(snap.posts)
      BY <2>2 DEF Frame
    <3>2. (e \in list /\ No(i) \notin snap.posts) \/ i \in Fresh(snap.posts)
      BY <3>1 DEF merge, No
    <3> QED
      BY <1>2, <1>3, <3>2 DEF HiddenInv, HiddenLeaves, Listed, Fresh, Yes, No
  <2> QED
    BY <2>1, <2>2
<1>5. CASE UNCHANGED snap
  <2>1. SnapHidden' /\ NoBoth'
    BY <1>1, <1>3, <1>5 DEF HiddenInv, SnapHidden, NoBoth, Yes, No
  <2> QED
    BY <1>1, <1>4, <2>1 DEF HiddenInv, QueueOrder, WorldEmpty, Yes, No
<1>6. CASE snap' = getPosts(Rows, offset', "page")
  <2>1. offset' \in Nat
    BY FeedAssumption DEF Frame, advance, paging, TypeOK
  <2>2. \A n \in snap'.posts : n.ok /\ n.id \notin hidden
    BY <1>6, <2>1, RowsArePosts, PageType
  <2>3. \A i : No(i) \notin snap'.posts /\ (i \in hidden => Yes(i) \notin snap'.posts)
    BY <2>2 DEF Yes, No
  <2> QED
    BY <1>1, <1>4, <2>3 DEF HiddenInv, SnapHidden, NoBoth, QueueOrder, WorldEmpty, Yes, No
<1> QED
  BY <1>5, <1>6 DEF Frame

LEMMA NextHidden == TypeOK /\ HiddenInv /\ [Next]_vars => HiddenInv'
<1> SUFFICES ASSUME TypeOK, HiddenInv, [Next]_vars PROVE HiddenInv'
  OBVIOUS
<1>0. Rows \subseteq Post /\ hidden \subseteq Post /\ last \in Nat /\ hidden \subseteq Rows
  BY RowsArePosts DEF TypeOK
<1>1. CASE NewPost
  <2>1. last + 1 \in Post /\ last + 1 \notin hidden
    BY <1>0, <1>1, FeedAssumption DEF NewPost, Post, Rows
  <2>2. [id |-> last + 1, ok |-> TRUE] \in Notice
    BY <2>1, NoticeType
  <2> QED
    BY <1>1, <2>1, <2>2, ReportHidden DEF NewPost, on_new_post, paging
<1>2. ASSUME NEW i \in Rows, TouchPost(i) PROVE HiddenInv'
  <2>1. [id |-> i, ok |-> i \notin hidden] \in Notice
    BY <1>0, NoticeType
  <2> QED
    BY <1>2, <2>1, ReportHidden DEF TouchPost, on_new_post, paging
<1>3. ASSUME NEW i \in Rows, delPost(i) PROVE HiddenInv'
  <2>1. [id |-> i, ok |-> FALSE] \in Notice
    BY <1>0, NoticeType
  <2> QED
    BY <1>3, <2>1, ReportHidden DEF delPost, on_new_post, paging
<1>4. CASE Scroll
  BY <1>0, <1>4, LoadHidden DEF Scroll, paging, TypeOK
<1>5. ASSUME NEW o \in 0..MaxPost, LoadElsewhere(o) PROVE HiddenInv'
  <2>1. Friend \cap Rows \subseteq Post /\ o \in Nat
    BY <1>0, FeedAssumption
  <2>2. UNCHANGED <<tab, queue, hidden, list>> /\ Emit(getPosts(Friend \cap Rows, o, "other"))
    BY <1>5 DEF LoadElsewhere, paging
  <2>3. CASE tab = "friends"
    BY <2>1, <2>2, <2>3, LoadHidden
  <2>4. CASE tab # "friends"
    <3>1. UNCHANGED <<snap, dirty, replaced, rebuild>>
      BY <1>5, <2>2, <2>4 DEF Emit, LoadElsewhere
    <3> QED
      BY <2>2, <3>1 DEF HiddenInv, HiddenLeaves, Listed, SnapHidden, NoBoth, QueueOrder,
                        WorldEmpty, Unseen, Pending, Yes, No
  <2> QED
    BY <2>3, <2>4
<1>6. CASE LeaveTab
  <2>1. list' = {} /\ snap'.posts = {} /\ snap' = NoSnap /\ ~dirty' /\ ~rebuild'
    BY <1>6 DEF LeaveTab, NoSnap
  <2> QED
    BY <1>6, <2>1 DEF LeaveTab, HiddenInv, HiddenLeaves, Listed, SnapHidden, NoBoth,
                      QueueOrder, WorldEmpty, Yes, No
<1>7. CASE EnterTab
  <2>1. list' = {} /\ tab' = "friends" /\ UNCHANGED <<hidden, queue>>
    BY <1>7 DEF EnterTab, HiddenInv, WorldEmpty
  <2>2. \A n \in snap'.posts : n.ok /\ n.id \notin hidden
    BY <1>0, <1>7, PageType DEF EnterTab
  <2>3. \A i : No(i) \notin snap'.posts /\ (i \in hidden => Yes(i) \notin snap'.posts)
    BY <2>2 DEF Yes, No
  <2> QED
    BY <2>1, <2>3 DEF HiddenInv, HiddenLeaves, Listed, SnapHidden, NoBoth, QueueOrder,
                      WorldEmpty, Yes, No
<1>8. CASE MarkRebuild \/ UNCHANGED vars
  BY <1>8 DEF MarkRebuild, vars, paging, HiddenInv, HiddenLeaves, Listed, SnapHidden, NoBoth,
              QueueOrder, WorldEmpty, Unseen, Pending, Yes, No
<1> QED
  BY <1>1, <1>2, <1>3, <1>4, <1>5, <1>6, <1>7, <1>8, EventHidden, FrameHidden DEF Next

LEMMA InitHidden == Init => HiddenInv
<1> SUFFICES ASSUME Init PROVE HiddenInv
  OBVIOUS
<1>1. Rows \subseteq Post /\ list = {} /\ queue = <<>> /\ tab = "friends"
  BY FeedAssumption DEF Init, Rows, Post
<1>2. \A n \in snap.posts : n.ok /\ n.id \notin hidden
  BY <1>1, PageType DEF Init
<1>3. \A i : No(i) \notin snap.posts /\ (i \in hidden => Yes(i) \notin snap.posts)
  BY <1>2 DEF Yes, No
<1> QED
  BY <1>1, <1>3 DEF HiddenInv, HiddenLeaves, Listed, SnapHidden, NoBoth, QueueOrder,
                    WorldEmpty, Yes, No

\* A post that is deleted or hidden stays in the list no longer than the event
\* that says so is under way or has been replaced before a frame, in whatever
\* order older events, pages and frames come (discover_main.dart, lines 411 to 413).
THEOREM HiddenLeavesTheorem == Spec => []HiddenLeaves
<1>1. HiddenInv => HiddenLeaves
  BY DEF HiddenInv
<1> QED
  BY <1>1, InitHidden, NextHidden, TypeCorrect, PTL DEF Spec
-----------------------------------------------------------------------------
(***************************************************************************)
(* TopIsOnItsWay rests on what the events say: only a hidden post is       *)
(* reported as not visible, so that a frame removes no other.              *)
(***************************************************************************)
NoIsTrue ==
  /\ \A n \in snap.posts : ~n.ok => n.id \in hidden
  /\ \A k \in 1..Len(queue) : ~queue[k].ok => queue[k].id \in hidden
TopInv == TopIsOnItsWay /\ NoIsTrue /\ WorldEmpty

\* The rows of a page are those from the offset on.
LEMMA PageRows ==
  ASSUME TypeOK, NEW o \in Nat, NEW k
  PROVE  /\ \A i \in Visible : (o <= last - i /\ last - i < o + Limit)
              => Yes(i) \in getPosts(Rows, o, k).posts
         /\ \A n \in getPosts(Rows, o, k).posts :
              /\ n.ok /\ n.id \in Visible /\ n = Yes(n.id)
              /\ o <= last - n.id /\ last - n.id < o + Limit
<1>1. last \in Nat /\ Limit \in Nat
  BY RowsArePosts, FeedAssumption
<1>2. ASSUME NEW i \in Rows
      PROVE  Cardinality({j \in Rows : j > i}) = last - i
  <2>1. i \in 1..last
    BY DEF Rows
  <2>2. {j \in Rows : j > i} = (i + 1)..last
    BY <1>1, <2>1 DEF Rows
  <2>3. i + 1 \in Int /\ last \in Int
    BY <1>1, <2>1
  <2>4. Cardinality((i + 1)..last) = IF i + 1 > last THEN 0 ELSE last - (i + 1) + 1
    BY <2>3, FS_Interval
  <2>5. Cardinality((i + 1)..last) = last - i
    BY <1>1, <2>1, <2>4
  <2> QED
    BY <2>2, <2>5
<1>3. \A i \in Rows :
        i \in dhtclient_get_posts(Rows, o) <=> (o <= last - i /\ last - i < o + Limit)
  <2> SUFFICES ASSUME NEW i \in Rows
               PROVE  i \in dhtclient_get_posts(Rows, o)
                        <=> (o <= last - i /\ last - i < o + Limit)
    OBVIOUS
  <2>1. i \in dhtclient_get_posts(Rows, o) <=> last - i \in o..(o + Limit - 1)
    BY <1>2 DEF dhtclient_get_posts
  <2>2. i \in Nat
    BY DEF Rows
  <2> QED
    BY <1>1, <2>1, <2>2
<1>4. dhtclient_get_posts(Rows, o) \subseteq Rows
  BY DEF dhtclient_get_posts
<1>5. getPosts(Rows, o, k).posts = {Yes(i) : i \in dhtclient_get_posts(Rows, o) \ hidden}
  BY DEF getPosts, Yes
<1>6. \A i : Yes(i).ok /\ Yes(i).id = i
  BY DEF Yes
<1> HIDE DEF Yes
<1>7. \A i \in Visible : i \in Rows /\ i \notin hidden
  BY DEF Visible
<1>8. \A n \in getPosts(Rows, o, k).posts :
        n.ok /\ n = Yes(n.id) /\ n.id \in dhtclient_get_posts(Rows, o) \ hidden
  BY <1>5, <1>6
<1>9. \A n \in getPosts(Rows, o, k).posts : n.id \in Rows /\ n.id \in Visible
  BY <1>4, <1>8 DEF Visible
<1> QED
  BY <1>3, <1>5, <1>7, <1>8, <1>9

\* The first page holds the newest Limit rows that may be seen.
LEMMA FirstPage ==
  ASSUME TypeOK, NEW i \in Visible, last - i < Limit
  PROVE  Yes(i) \in getPosts(Rows, 0, "page").posts
<1>1. i \in 1..last /\ last \in Nat /\ Limit \in Nat
  BY RowsArePosts, FeedAssumption DEF Visible, Rows
<1>2. 0 <= last - i /\ last - i < 0 + Limit
  BY <1>1
<1> QED
  BY <1>2, PageRows

\* A row is no farther from the newest one than it is after another has come.
LEMMA NearerBefore ==
  ASSUME NEW a \in Nat, NEW b \in Nat, a <= b, NEW i \in Nat, NEW l \in Nat, b - i < l
  PROVE  a - i < l
OBVIOUS

LEMMA ReportTop ==
  ASSUME TypeOK, TopInv, NEW m \in Notice, queue' = Append(queue, m),
         UNCHANGED <<tab, snap, dirty, rebuild, list, replaced>>,
         hidden \subseteq hidden', ~m.ok => m.id \in hidden',
         \A i \in Visible' : i \in Visible \/ m = Yes(i),
         last <= last', last' \in Nat
  PROVE  TopInv'
<1>1. queue \in Seq(Notice) /\ Len(queue) \in Nat /\ last \in Nat /\ Limit \in Nat
  BY RowsArePosts, FeedAssumption DEF TypeOK
<1>2. TopIsOnItsWay'
  <2> SUFFICES ASSUME tab = "friends", NEW i \in Visible', last' - i < Limit
               PROVE  Listed(i) \/ Unseen(Yes(i))'
    BY DEF TopIsOnItsWay, Listed, Yes
  <2>1. CASE i \in Visible
    <3>0. i \in Nat
      BY <2>1 DEF Visible, Rows
    <3>1. last - i < Limit
      BY ONLY <1>1, <3>0, last \in Nat, last' \in Nat, last <= last', last' - i < Limit,
              NearerBefore
    <3> QED
      BY <2>1, <3>1, AppendKeeps DEF TopInv, TopIsOnItsWay, Yes
  <2>2. CASE m = Yes(i)
    BY <2>2, AppendKeeps
  <2> QED
    BY <2>1, <2>2
<1>3. NoIsTrue'
  <2>1. \A k \in 1..Len(queue') : (k \in 1..Len(queue) /\ queue'[k] = queue[k]) \/ queue'[k] = m
    BY <1>1
  <2> QED
    BY <2>1 DEF TopInv, NoIsTrue
<1> QED
  BY <1>2, <1>3 DEF TopInv, WorldEmpty

LEMMA LoadTop ==
  ASSUME TypeOK, TopInv, tab = "friends",
         NEW S, S \subseteq Post, NEW o \in Nat, NEW k \in {"page", "other"},
         Emit(getPosts(S, o, k)), UNCHANGED <<tab, queue, hidden, list, last>>
  PROVE  TopInv'
<1>1. \A n \in snap'.posts : n.ok
  BY PageType DEF Emit
<1>2. TopIsOnItsWay'
  BY EmitKeeps DEF TopInv, TopIsOnItsWay, Listed, Visible, Rows
<1> QED
  BY <1>1, <1>2 DEF TopInv, NoIsTrue, WorldEmpty

LEMMA EventTop ==
  ASSUME TypeOK, TopInv, setNewPostNotify
  PROVE  TopInv'
<1>1. queue \in Seq(Notice) /\ queue # <<>> /\ queue' = Tail(queue)
  BY DEF TypeOK, setNewPostNotify
<1>2. /\ Len(queue) \in Nat /\ Head(queue) = queue[1] /\ 1 \in 1..Len(queue)
      /\ \A k \in 1..Len(queue') : k + 1 \in 1..Len(queue) /\ queue'[k] = queue[k + 1]
  BY <1>1
<1>3. UNCHANGED <<hidden, tab, rebuild, list, last>>
  BY DEF setNewPostNotify, paging
<1>4. snap'.posts = {queue[1]} \/ UNCHANGED snap
  BY <1>2 DEF setNewPostNotify, Emit
<1>5. NoIsTrue'
  BY <1>2, <1>3, <1>4 DEF TopInv, NoIsTrue
<1>6. TopIsOnItsWay'
  BY <1>3, EventKeeps DEF TopInv, TopIsOnItsWay, Listed, Visible, Rows
<1>7. WorldEmpty'
  BY <1>3 DEF setNewPostNotify, Emit, TopInv, WorldEmpty
<1> QED
  BY <1>5, <1>6, <1>7 DEF TopInv

\* A frame lists the visible posts of its snapshot and removes none of them.
LEMMA FrameLists ==
  ASSUME TypeOK, NoIsTrue, Frame, NEW i \in Visible, Listed(i) \/ Yes(i) \in snap.posts
  PROVE  Listed(i)'
<1>1. No(i) \notin snap.posts
  BY DEF NoIsTrue, Visible, No
<1>2. CASE snap = NoSnap
  BY <1>2 DEF Frame, paging, NoSnap, Listed
<1>3. CASE snap # NoSnap
  <2> DEFINE place(j) == IF GoesOnTop(j, snap.posts) THEN front ELSE back + last - j
  <2>1. list' = {e \in list : [id |-> e.id, ok |-> FALSE] \notin snap.posts}
                \cup {[id |-> j, at |-> place(j)] : j \in Fresh(snap.posts)}
    BY <1>3 DEF Frame, merge
  <2> HIDE DEF place
  <2>2. CASE Listed(i)
    BY <1>1, <2>1, <2>2 DEF Listed, No
  <2>3. CASE ~Listed(i)
    <3>1. i \in Fresh(snap.posts)
      BY <2>3, RowsArePosts DEF Fresh, Yes, Visible
    <3>2. [id |-> i, at |-> place(i)] \in list'
      BY <2>1, <3>1
    <3> QED
      BY <3>2 DEF Listed
  <2> QED
    BY <2>2, <2>3
<1> QED
  BY <1>2, <1>3

LEMMA FrameTop ==
  ASSUME TypeOK, TopInv, Frame
  PROVE  TopInv'
<1>1. tab = "friends" /\ UNCHANGED <<hidden, queue, tab, last>>
  BY DEF Frame
<1>2. ASSUME NEW i \in Visible, Listed(i) \/ Yes(i) \in snap.posts PROVE Listed(i)'
  BY <1>2, FrameLists DEF TopInv
<1>3. TopIsOnItsWay'
  <2> SUFFICES ASSUME NEW i \in Visible, last - i < Limit
               PROVE  Listed(i)' \/ Unseen(Yes(i))'
    BY <1>1 DEF TopIsOnItsWay, Yes, Visible, Rows
  <2>1. Listed(i) \/ Unseen(Yes(i))
    BY <1>1 DEF TopInv, TopIsOnItsWay, Yes
  <2> QED
    BY <1>2, <2>1, FrameKeeps
<1>4. NoIsTrue'
  <2>1. \A n \in snap'.posts : n \in snap.posts \/ n.ok
    <3>1. offset' \in Nat
      BY FeedAssumption DEF Frame, advance, paging, TypeOK
    <3>2. \A n \in getPosts(Rows, offset', "page").posts : n.ok
      BY <3>1, RowsArePosts, PageType
    <3> QED
      BY <3>2 DEF Frame
  <2> QED
    BY <1>1, <2>1 DEF TopInv, NoIsTrue
<1> QED
  BY <1>1, <1>3, <1>4 DEF TopInv, WorldEmpty

LEMMA NextTop == TypeOK /\ TopInv /\ [Next]_vars => TopInv'
<1> SUFFICES ASSUME TypeOK, TopInv, [Next]_vars PROVE TopInv'
  OBVIOUS
<1>0. Rows \subseteq Post /\ hidden \subseteq Rows /\ last \in Nat
  BY RowsArePosts DEF TypeOK
<1>1. CASE NewPost
  <2>1. last + 1 \in Post /\ last' = last + 1 /\ hidden' = hidden
    BY <1>0, <1>1, FeedAssumption DEF NewPost, Post
  <2>2. [id |-> last + 1, ok |-> TRUE] \in Notice
    BY <2>1, NoticeType
  <2>3. \A i \in Visible' : i \in Visible \/ i = last + 1
    BY <1>0, <2>1 DEF Visible, Rows
  <2> QED
    BY <1>0, <1>1, <2>1, <2>2, <2>3, ReportTop DEF NewPost, on_new_post, paging, Yes
<1>2. ASSUME NEW i \in Rows, TouchPost(i) PROVE TopInv'
  <2>1. [id |-> i, ok |-> i \notin hidden] \in Notice
    BY <1>0, NoticeType
  <2>2. Visible' = Visible /\ UNCHANGED <<last, hidden>>
    BY <1>2 DEF TouchPost, Visible, Rows
  <2>3. /\ queue' = Append(queue, [id |-> i, ok |-> i \notin hidden])
        /\ UNCHANGED <<tab, snap, dirty, rebuild, list, replaced>>
    BY <1>2 DEF TouchPost, on_new_post, paging
  <2>4. ~[id |-> i, ok |-> i \notin hidden].ok => [id |-> i, ok |-> i \notin hidden].id \in hidden'
    BY <2>2
  <2>5. last <= last' /\ last' \in Nat
    BY <1>0, <2>2
  <2> QED
    BY <2>1, <2>2, <2>3, <2>4, <2>5, ReportTop
<1>3. ASSUME NEW i \in Rows, delPost(i) PROVE TopInv'
  <2>1. [id |-> i, ok |-> FALSE] \in Notice
    BY <1>0, NoticeType
  <2>2. Visible' \subseteq Visible
    BY <1>3 DEF delPost, Visible, Rows
  <2> QED
    BY <1>0, <1>3, <2>1, <2>2, ReportTop DEF delPost, on_new_post, paging
<1>4. CASE Scroll
  BY <1>0, <1>4, LoadTop DEF Scroll, paging, TypeOK
<1>5. ASSUME NEW o \in 0..MaxPost, LoadElsewhere(o) PROVE TopInv'
  <2>1. Friend \cap Rows \subseteq Post /\ o \in Nat
    BY <1>0, FeedAssumption
  <2>2. /\ UNCHANGED <<tab, queue, hidden, list, last, rebuild>>
        /\ Emit(getPosts(Friend \cap Rows, o, "other"))
    BY <1>5 DEF LoadElsewhere, paging
  <2>3. CASE tab = "friends"
    BY <2>1, <2>2, <2>3, LoadTop
  <2>4. CASE tab # "friends"
    <3>1. UNCHANGED <<snap, dirty, replaced>>
      BY <2>2, <2>4 DEF Emit
    <3> QED
      BY <2>2, <2>4, <3>1 DEF TopInv, TopIsOnItsWay, NoIsTrue, WorldEmpty
  <2> QED
    BY <2>3, <2>4
<1>6. CASE LeaveTab
  BY <1>6 DEF LeaveTab, TopInv, TopIsOnItsWay, NoIsTrue, WorldEmpty, NoSnap
<1>7. CASE EnterTab
  <2>1. tab' = "friends" /\ UNCHANGED <<hidden, queue, last>>
    BY <1>7 DEF EnterTab
  <2>2. dirty' /\ snap' = getPosts(Rows, 0, "page")
    BY <1>7 DEF EnterTab
  <2>3. TopIsOnItsWay'
    BY <1>0, <2>1, <2>2, FirstPage
       DEF TopIsOnItsWay, Unseen, Pending, Visible, Rows, Yes
  <2>4. \A n \in snap'.posts : n.ok
    BY <1>0, <2>2, PageType
  <2> QED
    BY <2>1, <2>3, <2>4 DEF TopInv, NoIsTrue, WorldEmpty
<1>8. CASE MarkRebuild \/ UNCHANGED vars
  <2>1. UNCHANGED <<last, hidden, queue, tab, snap, dirty, list, replaced>>
    BY <1>8 DEF MarkRebuild, vars, paging
  <2>2. TopIsOnItsWay' /\ NoIsTrue'
    BY <2>1 DEF TopInv, TopIsOnItsWay, NoIsTrue, Listed, Unseen, Pending, Visible, Rows
  <2>3. WorldEmpty'
    BY <1>8 DEF MarkRebuild, vars, paging, TopInv, WorldEmpty
  <2> QED
    BY <2>2, <2>3 DEF TopInv
<1> QED
  BY <1>1, <1>2, <1>3, <1>4, <1>5, <1>6, <1>7, <1>8, EventTop, FrameTop DEF Next

LEMMA InitTop == Init => TopInv
<1> SUFFICES ASSUME Init PROVE TopInv
  OBVIOUS
<1>1. Rows \subseteq Post /\ last \in Nat /\ tab = "friends" /\ queue = <<>>
  BY FeedAssumption DEF Init, Rows, Post
<1>2. dirty /\ snap = getPosts(Rows, 0, "page")
  BY DEF Init
<1>3. \A n \in snap.posts : n.ok
  BY <1>1, <1>2, PageType
<1>4. TopIsOnItsWay
  BY <1>1, <1>2, InitType, FirstPage DEF TopIsOnItsWay, Unseen, Pending, Yes
<1> QED
  BY <1>1, <1>3, <1>4 DEF TopInv, NoIsTrue, WorldEmpty

\* A page of the newest visible posts is always listed, under way, or in a
\* snapshot that was replaced before a frame: nothing else loses a post at the top
\* (discover_main.dart, lines 63 to 87 and 385 to 440).
THEOREM TopIsOnItsWayTheorem == Spec => []TopIsOnItsWay
<1>1. TopInv => TopIsOnItsWay
  BY DEF TopInv
<1> QED
  BY <1>1, InitTop, NextTop, TypeCorrect, PTL DEF Spec
-----------------------------------------------------------------------------
(***************************************************************************)
(* The next two properties are about a list that only its own pages have   *)
(* been built into.  They follow from what such a list has of the posts    *)
(* that were there when it began (QuietInv): all those the offset has      *)
(* passed, and all those newer than a listed one; and from what the page   *)
(* that is to be built next will add.  Later posts have each been reported *)
(* by an event (NewOnItsWay).                                              *)
(***************************************************************************)
Covered(i)    == Listed(i) \/ Unseen(Yes(i))
Held(i)       == Listed(i) \/ Yes(i) \in snap.posts
ReachedListed == \A i \in Visible : (i <= base /\ last - i < offset) => Listed(i)
GapFree       == \A e \in list : \A i \in Visible : (i <= base /\ i > e.id) => Listed(i)
EndListed     == (~hasMore /\ hidden = {}) => \A i \in 1..base : Listed(i)

PageReaches == \A i \in Visible : (i <= base /\ last - i < offset + Limit) => Held(i)
PageGapFree == \A n \in snap.posts : \A i \in Visible : (i <= base /\ i > n.id) => Held(i)
PageEnds    == (hidden = {} /\ Cardinality(snap.posts) # Limit) => \A i \in 1..base : Held(i)
PageSnap    == dirty /\ snap.kind = "page"
PageOK      == (\A n \in snap.posts : n.ok) /\ PageReaches /\ PageGapFree /\ PageEnds

NewOnItsWay == tab = "friends" => \A i \in Visible : i > base => Covered(i)
QuietInv ==
  (tab = "friends" /\ ~disturbed) =>
    ReachedListed /\ GapFree /\ EndListed /\ (PageSnap => PageOK)

\* A page that ends before the table does has as many rows as were asked for.
LEMMA FullPage ==
  ASSUME TypeOK, NEW o \in Nat, hidden = {}, o + Limit <= last
  PROVE  Cardinality(getPosts(Rows, o, "page").posts) = Limit
<1>1. last \in Nat /\ Limit \in Nat
  BY RowsArePosts, FeedAssumption
<1> DEFINE P == getPosts(Rows, o, "page").posts
           I == (last - o - Limit + 1)..(last - o)
           f == [i \in I |-> Yes(i)]
<1>2. \A i \in I : i \in Visible /\ o <= last - i /\ last - i < o + Limit
  BY <1>1 DEF Visible, Rows
<1>3. \A i \in I : Yes(i) \in P
  BY <1>2, PageRows
<1>4. \A n \in P : n.id \in I /\ n = Yes(n.id)
  <2> SUFFICES ASSUME NEW n \in P PROVE n.id \in I /\ n = Yes(n.id)
    OBVIOUS
  <2>1. n.id \in Visible /\ n = Yes(n.id) /\ o <= last - n.id /\ last - n.id < o + Limit
    BY PageRows
  <2>2. n.id \in Int
    BY <2>1 DEF Visible, Rows
  <2> QED
    BY <1>1, <2>1, <2>2
<1>5. \A i, j : Yes(i) = Yes(j) => i = j
  BY DEF Yes
<1> HIDE DEF P
<1>6. f \in Bijection(I, P)
  <2> HIDE DEF Yes, I
  <2>1. f \in [I -> P]
    BY <1>3
  <2>2. \A a, b \in I : f[a] = f[b] => a = b
    BY <1>5
  <2>3. \A t \in P : \E s \in I : f[s] = t
    BY <1>4
  <2> QED
    BY <2>1, <2>2, <2>3 DEF Bijection, Injection, Surjection, IsInjective
<1>7. last - o - Limit + 1 \in Int /\ last - o \in Int
  BY <1>1
<1>8. IsFiniteSet(I) /\ Cardinality(I) = Limit
  <2>1. Cardinality(I) = IF last - o - Limit + 1 > last - o THEN 0
                         ELSE (last - o) - (last - o - Limit + 1) + 1
    BY <1>7, FS_Interval
  <2>2. IsFiniteSet(I)
    BY <1>7, FS_Interval
  <2> QED
    BY <1>1, <2>1, <2>2
<1>9. Cardinality(I) = Cardinality(P)
  <2> HIDE DEF I, f
  <2>1. ExistsBijection(I, P)
    BY <1>6 DEF ExistsBijection
  <2> QED
    BY <1>8, <2>1, FS_Bijection
<1> QED
  BY <1>8, <1>9 DEF P

\* What a page adds to a list that has, of the first b posts, all those the
\* offset has passed.
LEMMA PageAdds ==
  ASSUME TypeOK, NEW o \in Nat, NEW b \in 0..last, NEW L,
         \A i \in Visible : (i <= b /\ last - i < o) => i \in L,
         NEW P, P = getPosts(Rows, o, "page").posts
  PROVE  /\ \A n \in P : n.ok
         /\ \A i \in Visible : (i <= b /\ last - i < o + Limit) => (i \in L \/ Yes(i) \in P)
         /\ \A n \in P : \A i \in Visible : (i <= b /\ i > n.id) => (i \in L \/ Yes(i) \in P)
         /\ (hidden = {} /\ Cardinality(P) # Limit)
              => \A i \in 1..b : i \in L \/ Yes(i) \in P
<1>1. last \in Nat /\ Limit \in Nat /\ b \in Nat /\ b <= last
  BY RowsArePosts, FeedAssumption
<1>2. \A i \in Visible : i \in Nat
  BY DEF Visible, Rows
<1>3. \A i \in Visible : (o <= last - i /\ last - i < o + Limit) => Yes(i) \in P
  BY PageRows
<1>4. \A n \in P : n.ok /\ n.id \in Visible /\ last - n.id < o + Limit
  BY PageRows
<1> HIDE DEF Yes
<1>5. ASSUME NEW i \in Visible, i <= b, last - i < o + Limit
      PROVE  i \in L \/ Yes(i) \in P
  BY <1>1, <1>2, <1>3, <1>5
<1>6. ASSUME NEW n \in P, NEW i \in Visible, i <= b, i > n.id
      PROVE  i \in L \/ Yes(i) \in P
  <2>1. last - i < o + Limit
    BY <1>1, <1>2, <1>4, <1>6
  <2> QED
    BY <1>5, <1>6, <2>1
<1>7. ASSUME hidden = {}, Cardinality(P) # Limit, NEW i \in 1..b
      PROVE  i \in L \/ Yes(i) \in P
  <2>1. i \in Visible /\ i \in Nat /\ i >= 1 /\ i <= b
    BY <1>1, <1>7 DEF Visible, Rows
  <2>2. ~(o + Limit <= last)
    BY <1>7, FullPage
  <2>3. last - i < o + Limit
    BY <1>1, <2>1, <2>2
  <2> QED
    BY <1>5, <2>1, <2>3
<1> QED
  BY <1>4, <1>5, <1>6, <1>7

\* No step loses a visible post that is listed or on its way.
LEMMA CoveredStays ==
  ASSUME TypeOK, NoIsTrue, [Next]_vars, tab = "friends", tab' = "friends",
         NEW i \in Visible, Covered(i)
  PROVE  Covered(i)'
<1>0. Rows \subseteq Post /\ last \in Nat
  BY RowsArePosts
<1>1. ASSUME NEW p \in Post, NEW b \in BOOLEAN, on_new_post(p, b) PROVE Covered(i)'
  <2>1. [id |-> p, ok |-> b] \in Notice
    BY NoticeType
  <2>2. Unseen(Yes(i)) => Unseen(Yes(i))'
    BY <1>1, <2>1, AppendKeeps DEF on_new_post
  <2> QED
    BY <1>1, <2>2 DEF on_new_post, paging, Covered, Listed, Yes
<1>2. ASSUME NEW s, Emit(s), UNCHANGED <<queue, list>> PROVE Covered(i)'
  BY <1>2, EmitKeeps DEF Covered, Listed, Yes
<1>3. CASE NewPost
  <2>1. last + 1 \in Post
    BY <1>0, <1>3, FeedAssumption DEF NewPost, Post
  <2> QED
    BY <1>1, <1>3, <2>1 DEF NewPost
<1>4. ASSUME NEW p \in Rows, TouchPost(p) \/ delPost(p) PROVE Covered(i)'
  BY <1>0, <1>1, <1>4 DEF TouchPost, delPost
<1>5. CASE setNewPostNotify
  <2>1. Unseen(Yes(i)) => Unseen(Yes(i))'
    BY <1>5, EventKeeps
  <2> QED
    BY <1>5, <2>1 DEF setNewPostNotify, paging, Covered, Listed, Yes
<1>6. CASE Scroll \/ \E o \in 0..MaxPost : LoadElsewhere(o)
  BY <1>2, <1>6 DEF Scroll, LoadElsewhere, paging
<1>7. CASE Frame
  <2>1. Listed(i) => Listed(i)'
    BY <1>7, FrameLists DEF Held
  <2>2. Yes(i) \in snap.posts => Listed(i)'
    BY <1>7, FrameLists DEF Held
  <2>3. Unseen(Yes(i)) => Unseen(Yes(i))' \/ Yes(i) \in snap.posts
    BY <1>7, FrameKeeps
  <2> QED
    BY <2>1, <2>2, <2>3 DEF Covered, Yes
<1>8. CASE MarkRebuild \/ UNCHANGED vars
  <2>1. UNCHANGED <<queue, snap, dirty, list, replaced>>
    BY <1>8 DEF MarkRebuild, vars, paging
  <2> QED
    BY <2>1 DEF Covered, Listed, Unseen, Pending, Yes
<1>9. ~LeaveTab /\ ~EnterTab
  BY DEF LeaveTab, EnterTab
<1> QED
  BY <1>3, <1>4, <1>5, <1>6, <1>7, <1>8, <1>9 DEF Next

\* A post that came after the list began has been reported.
LEMMA NextNewOnItsWay == TypeOK /\ NoIsTrue /\ NewOnItsWay /\ [Next]_vars => NewOnItsWay'
<1> SUFFICES ASSUME TypeOK, NoIsTrue, NewOnItsWay, [Next]_vars, tab' = "friends",
                    NEW i \in Visible', i > base'
             PROVE  Covered(i)'
  BY DEF NewOnItsWay
<1>0. Rows \subseteq Post /\ last \in Nat
  BY RowsArePosts
<1>1. ~LeaveTab
  BY DEF LeaveTab
<1>2. CASE EnterTab
  <2>1. i \in 1..last /\ base' = last
    BY <1>2 DEF EnterTab, Visible, Rows
  <2> QED
    BY <1>0, <2>1
<1>3. CASE ~EnterTab
  <2>1. base' = base /\ tab = "friends"
    BY <1>1, <1>3 DEF Next, NewPost, TouchPost, delPost, on_new_post, setNewPostNotify, Scroll,
                      LoadElsewhere, MarkRebuild, Frame, vars
  <2>2. CASE i \in Visible
    BY <2>1, <2>2, CoveredStays DEF NewOnItsWay
  <2>3. CASE i \notin Visible
    <3>1. NewPost
      BY <1>1, <1>3, <2>3 DEF Next, TouchPost, delPost, on_new_post, setNewPostNotify,
                              Scroll, LoadElsewhere, MarkRebuild, Frame, vars, Visible, Rows
    <3>2. i = last + 1 /\ i \in Post
      BY <1>0, <2>3, <3>1, FeedAssumption DEF NewPost, Visible, Rows, Post
    <3>3. Yes(i) \in Notice /\ queue' = Append(queue, Yes(i))
      BY <3>1, <3>2, NoticeType DEF NewPost, on_new_post, Yes
    <3>4. Unseen(Yes(i))'
      BY <3>1, <3>3, AppendKeeps DEF NewPost, on_new_post
    <3> QED
      BY <3>4 DEF Covered, Yes
  <2> QED
    BY <2>2, <2>3
<1> QED
  BY <1>2, <1>3

\* The native client reports a change: of the posts that were there when the list
\* began, fewer can be seen, and their distance to the newest grows.
LEMMA ReportQuiet ==
  ASSUME TypeOK, QuietInv, last' \in Nat, last <= last', hidden \subseteq hidden',
         \A i \in Visible' : i \in Visible \/ i > last,
         UNCHANGED <<tab, snap, dirty, paging, base, disturbed>>
  PROVE  QuietInv'
<1> SUFFICES ASSUME tab = "friends", ~disturbed
             PROVE  (ReachedListed /\ GapFree /\ EndListed /\ (PageSnap => PageOK))'
  BY DEF QuietInv
<1>1. last \in Nat /\ base \in Nat /\ base <= last /\ Limit \in Nat /\ offset \in Nat
  BY RowsArePosts, FeedAssumption DEF TypeOK
<1>2. /\ list' = list /\ snap' = snap /\ dirty' = dirty /\ offset' = offset
      /\ hasMore' = hasMore /\ base' = base
  BY DEF paging
<1>3. \A i : Listed(i)' <=> Listed(i)
  BY <1>2 DEF Listed
<1>4. \A i : Held(i)' <=> Held(i)
  BY <1>2, <1>3 DEF Held, Yes
<1>5. \A i \in Visible' : i \in Nat /\ (i <= base => i \in Visible)
  <2>1. \A i \in Visible' : i \in Nat
    BY DEF Visible, Rows
  <2> QED
    BY <1>1, <2>1
<1>6. \A i \in Nat, l \in Nat : last' - i < l => last - i < l
  BY ONLY <1>1, last' \in Nat, last <= last', NearerBefore
<1>7. hidden' = {} => hidden = {}
  OBVIOUS
<1>8. (ReachedListed /\ GapFree /\ EndListed)'
  BY <1>1, <1>2, <1>3, <1>5, <1>6, <1>7 DEF QuietInv, ReachedListed, GapFree, EndListed
<1>9. ASSUME PageSnap' PROVE PageOK'
  <2>1. PageOK
    BY <1>2, <1>9 DEF QuietInv, PageSnap
  <2>2. PageReaches'
    <3>1. offset + Limit \in Nat
      BY <1>1
    <3> QED
      BY <1>2, <1>4, <1>5, <1>6, <2>1, <3>1 DEF PageOK, PageReaches
  <2>3. PageGapFree'
    BY <1>2, <1>4, <1>5, <2>1 DEF PageOK, PageGapFree
  <2>4. PageEnds'
    BY <1>2, <1>4, <1>7, <2>1 DEF PageOK, PageEnds
  <2> QED
    BY <1>2, <2>1, <2>2, <2>3, <2>4 DEF PageOK
<1> QED
  BY <1>8, <1>9

\* The stream gets something else than a page of this list.
LEMMA OtherQuiet ==
  ASSUME QuietInv, snap'.kind # "page" \/ ~dirty' \/ UNCHANGED <<snap, dirty>>,
         UNCHANGED <<last, hidden, tab, paging, base, disturbed>>
  PROVE  QuietInv'
<1>1. /\ list' = list /\ offset' = offset /\ hasMore' = hasMore /\ base' = base
      /\ Visible' = Visible
  BY DEF paging, Visible, Rows
<1>2. \A i : Listed(i)' <=> Listed(i)
  BY <1>1 DEF Listed
<1>3. (ReachedListed /\ GapFree /\ EndListed)' <=> (ReachedListed /\ GapFree /\ EndListed)
  BY <1>1, <1>2 DEF ReachedListed, GapFree, EndListed
<1>4. CASE UNCHANGED <<snap, dirty>>
  <2>1. \A i : Held(i)' <=> Held(i)
    BY <1>2, <1>4 DEF Held, Yes
  <2>2. PageOK' <=> PageOK
    BY <1>1, <1>4, <2>1 DEF PageOK, PageReaches, PageGapFree, PageEnds
  <2> QED
    BY <1>3, <1>4, <2>2 DEF QuietInv, PageSnap
<1>5. CASE snap'.kind # "page" \/ ~dirty'
  BY <1>3, <1>5 DEF QuietInv, PageSnap
<1> QED
  BY <1>4, <1>5

\* A page that is loaded for a list which has all that the offset has passed.
LEMMA LoadQuiet ==
  ASSUME TypeOK, base' \in 0..last, offset' \in Nat, ReachedListed',
         snap' = getPosts(Rows, offset', "page"), UNCHANGED <<last, hidden>>
  PROVE  PageOK'
<1> DEFINE L == {i \in Visible : Listed(i)'}
           P == getPosts(Rows, offset', "page").posts
<1>1. Visible' = Visible
  BY DEF Visible, Rows
<1>2. \A i \in Visible : (i <= base' /\ last - i < offset') => i \in L
  BY <1>1 DEF ReachedListed, Listed
<1>3. /\ \A n \in P : n.ok
      /\ \A i \in Visible : (i <= base' /\ last - i < offset' + Limit) => (i \in L \/ Yes(i) \in P)
      /\ \A n \in P : \A i \in Visible : (i <= base' /\ i > n.id) => (i \in L \/ Yes(i) \in P)
      /\ (hidden = {} /\ Cardinality(P) # Limit) => \A i \in 1..base' : i \in L \/ Yes(i) \in P
  <2> HIDE DEF L
  <2> QED
    BY <1>2, PageAdds
<1>4. snap'.posts = P
  OBVIOUS
<1>5. \A i : (i \in L \/ Yes(i) \in P) => Held(i)'
  BY <1>4 DEF Held, Yes, Listed
<1> HIDE DEF L, P
<1> QED
  BY <1>1, <1>3, <1>4, <1>5 DEF PageOK, PageReaches, PageGapFree, PageEnds

\* A frame that builds a page of a quiet list makes it one that has more.
LEMMA FrameQuiet ==
  ASSUME TypeOK, NoIsTrue, QuietInv, Frame
  PROVE  QuietInv'
<1> SUFFICES ASSUME ~disturbed'
             PROVE  (ReachedListed /\ GapFree /\ EndListed /\ (PageSnap => PageOK))'
  BY DEF QuietInv
<1>1. tab = "friends" /\ UNCHANGED <<hidden, queue, tab, last, base>>
  BY DEF Frame
<1>2. ~disturbed
  BY DEF Frame, TypeOK
<1>3. Visible' = Visible
  BY <1>1 DEF Visible, Rows
<1>4. \A i \in Visible : Held(i) => Listed(i)'
  BY FrameLists DEF Held
<1>5. offset' \in Nat
  BY FeedAssumption DEF Frame, advance, paging, TypeOK
<1>6. (ReachedListed /\ GapFree /\ EndListed)'
  <2>1. CASE snap = NoSnap
    <3>1. list' = list /\ offset' = offset /\ hasMore' = hasMore
      BY <2>1 DEF Frame, paging
    <3>2. \A i : Listed(i)' <=> Listed(i)
      BY <3>1 DEF Listed
    <3> QED
      BY <1>1, <1>2, <1>3, <3>1, <3>2 DEF QuietInv, ReachedListed, GapFree, EndListed
  <2>2. CASE snap # NoSnap
    <3>1. merge(snap.posts) /\ advance /\ dirty /\ snap.kind = "page"
      BY <2>2 DEF Frame
    <3>2. PageOK
      BY <1>1, <1>2, <3>1 DEF QuietInv, PageSnap
    <3>3. ReachedListed'
      <4>1. offset' = offset + Limit
        BY <3>1 DEF advance
      <4>2. \A i \in Visible : (i <= base /\ last - i < offset + Limit) => Held(i)
        BY <3>2 DEF PageOK, PageReaches
      <4> QED
        BY <1>1, <1>3, <1>4, <4>1, <4>2 DEF ReachedListed
    <3>4. GapFree'
      <4>1. \A e \in list' : e \in list \/ \E n \in snap.posts : n.id = e.id
        <5> SUFFICES ASSUME NEW e \in list', e \notin list
                     PROVE  \E n \in snap.posts : n.id = e.id
          OBVIOUS
        <5>1. e.id \in Fresh(snap.posts)
          BY <3>1 DEF merge
        <5>2. Yes(e.id) \in snap.posts
          BY <5>1 DEF Fresh, Yes
        <5> QED
          BY <5>2 DEF Yes
      <4>2. \A e \in list : \A i \in Visible : (i <= base /\ i > e.id) => Held(i)
        BY <1>1, <1>2 DEF QuietInv, GapFree, Held
      <4>3. \A n \in snap.posts : \A i \in Visible : (i <= base /\ i > n.id) => Held(i)
        BY <3>2 DEF PageOK, PageGapFree
      <4>4. \A e \in list' : \A i \in Visible : (i <= base /\ i > e.id) => Held(i)
        BY <4>1, <4>2, <4>3
      <4> QED
        BY <1>1, <1>3, <1>4, <4>4 DEF GapFree
    <3>5. EndListed'
      <4> SUFFICES ASSUME ~hasMore', hidden = {}, NEW i \in 1..base PROVE Listed(i)'
        BY <1>1 DEF EndListed
      <4>1. Held(i)
        BY <3>1, <3>2 DEF advance, PageOK, PageEnds
      <4>2. i \in Visible
        BY RowsArePosts DEF Visible, Rows, TypeOK
      <4> QED
        BY <1>4, <4>1, <4>2
    <3> QED
      BY <3>3, <3>4, <3>5
  <2> QED
    BY <2>1, <2>2
<1>7. ASSUME PageSnap' PROVE PageOK'
  <2>1. snap' = getPosts(Rows, offset', "page")
    BY <1>7 DEF Frame, PageSnap
  <2>2. base' \in 0..last
    BY <1>1 DEF TypeOK
  <2> QED
    BY <1>1, <1>5, <1>6, <2>1, <2>2, LoadQuiet
<1> QED
  BY <1>6, <1>7

LEMMA NextQuiet ==
  TypeOK /\ NoIsTrue /\ WorldEmpty /\ QuietInv /\ [Next]_vars => QuietInv'
<1> SUFFICES ASSUME TypeOK, NoIsTrue, WorldEmpty, QuietInv, [Next]_vars PROVE QuietInv'
  OBVIOUS
<1>0. Rows \subseteq Post /\ hidden \subseteq Rows /\ last \in Nat /\ base \in 0..last
  BY RowsArePosts DEF TypeOK
<1>1. CASE NewPost
  <2>1. last' = last + 1 /\ hidden' = hidden
    BY <1>1 DEF NewPost
  <2>2. \A i \in Visible' : i \in Visible \/ i > last
    BY <1>0, <2>1 DEF Visible, Rows
  <2> QED
    BY <1>0, <1>1, <2>1, <2>2, ReportQuiet DEF NewPost, on_new_post
<1>2. ASSUME NEW i \in Rows, TouchPost(i) \/ delPost(i) PROVE QuietInv'
  <2>1. last' = last /\ hidden \subseteq hidden'
    BY <1>2 DEF TouchPost, delPost
  <2>2. \A j \in Visible' : j \in Visible
    BY <2>1 DEF Visible, Rows
  <2> QED
    BY <1>0, <1>2, <2>1, <2>2, ReportQuiet DEF TouchPost, delPost, on_new_post
<1>3. CASE setNewPostNotify
  <2>1. snap'.kind = "event" \/ UNCHANGED <<snap, dirty>>
    BY <1>3 DEF setNewPostNotify, Emit
  <2> QED
    BY <1>3, <2>1, OtherQuiet DEF setNewPostNotify
<1>4. CASE Scroll
  <2>1. (ReachedListed' /\ GapFree' /\ EndListed') \/ disturbed \/ tab # "friends"
    BY <1>4 DEF Scroll, paging, QuietInv, ReachedListed, GapFree, EndListed, Visible, Rows, Listed
  <2>2. ReachedListed' => PageOK'
    <3>1. snap' = getPosts(Rows, offset', "page") /\ base' \in 0..last /\ offset' \in Nat
      BY <1>0, <1>4 DEF Scroll, Emit, paging, TypeOK
    <3> QED
      BY <1>4, <3>1, LoadQuiet DEF Scroll
  <2> QED
    BY <1>4, <2>1, <2>2 DEF Scroll, QuietInv
<1>5. ASSUME NEW o \in 0..MaxPost, LoadElsewhere(o) PROVE QuietInv'
  <2>1. snap'.kind = "other" \/ UNCHANGED <<snap, dirty>>
    BY <1>5 DEF LoadElsewhere, Emit, getPosts
  <2> QED
    BY <1>5, <2>1, OtherQuiet DEF LoadElsewhere
<1>6. CASE MarkRebuild \/ UNCHANGED vars
  <2>1. UNCHANGED <<last, hidden, tab, snap, dirty, paging, base, disturbed>>
    BY <1>6 DEF MarkRebuild, vars
  <2> QED
    BY <2>1, OtherQuiet
<1>7. CASE LeaveTab
  BY <1>7 DEF LeaveTab, QuietInv
<1>8. CASE EnterTab
  <2>1. /\ list' = {} /\ offset' = 0 /\ hasMore' = TRUE /\ base' = last
        /\ snap' = getPosts(Rows, 0, "page") /\ UNCHANGED <<last, hidden>>
    BY <1>8 DEF EnterTab, WorldEmpty
  <2>2. \A i \in Visible' : ~(last' - i < offset')
    <3>1. \A i \in Visible' : i \in 1..last
      BY <2>1 DEF Visible, Rows
    <3> QED
      BY <1>0, <2>1, <3>1
  <2>3. ReachedListed' /\ GapFree' /\ EndListed'
    BY <2>1, <2>2 DEF ReachedListed, GapFree, EndListed
  <2>4. PageOK'
    BY <1>0, <2>1, <2>3, LoadQuiet
  <2> QED
    BY <2>3, <2>4 DEF QuietInv
<1> QED
  BY <1>1, <1>2, <1>3, <1>4, <1>5, <1>6, <1>7, <1>8, FrameQuiet DEF Next

LEMMA InitQuiet == Init => QuietInv /\ NewOnItsWay
<1> SUFFICES ASSUME Init PROVE QuietInv /\ NewOnItsWay
  OBVIOUS
<1>1. TypeOK /\ last \in Nat /\ base = last
  BY InitType, RowsArePosts DEF Init
<1>2. \A i \in Visible : i \in 1..last
  BY DEF Visible, Rows
<1>3. \A i \in Visible : ~(last - i < offset) /\ ~(i > base)
  BY <1>1, <1>2 DEF Init
<1>4. ReachedListed /\ GapFree /\ EndListed /\ NewOnItsWay
  BY <1>3 DEF Init, ReachedListed, GapFree, EndListed, NewOnItsWay
<1>5. PageOK
  <2>1. /\ base \in 0..last /\ offset = 0 /\ 0 \in Nat
        /\ snap.posts = getPosts(Rows, 0, "page").posts
    BY <1>1 DEF Init, TypeOK
  <2> DEFINE P == snap.posts
             L == {i \in Visible : Listed(i)}
  <2>2. /\ \A i \in Visible : (i <= base /\ last - i < 0) => i \in L
        /\ \A i \in L : Listed(i)
    BY <1>3, <2>1
  <2> HIDE DEF L
  <2>3. /\ \A n \in P : n.ok
        /\ \A i \in Visible : (i <= base /\ last - i < 0 + Limit) => (i \in L \/ Yes(i) \in P)
        /\ \A n \in P : \A i \in Visible : (i <= base /\ i > n.id) => (i \in L \/ Yes(i) \in P)
        /\ (hidden = {} /\ Cardinality(P) # Limit) => \A i \in 1..base : i \in L \/ Yes(i) \in P
    <3>1. P = getPosts(Rows, 0, "page").posts
      BY <2>1
    <3> HIDE DEF P
    <3> QED
      BY <1>1, <2>1, <2>2, <3>1, PageAdds
  <2>4. \A i : (i \in L \/ Yes(i) \in P) => Held(i)
    BY <2>2 DEF Held
  <2> QED
    BY <2>1, <2>3, <2>4 DEF PageOK, PageReaches, PageGapFree, PageEnds
<1> QED
  BY <1>4, <1>5 DEF QuietInv

LEMMA QuietIsComplete ==
  ASSUME TypeOK, QuietInv, NewOnItsWay, WorldEmpty
  PROVE  QuietFeedIsComplete
<1> SUFFICES ASSUME ~disturbed PROVE QuietFeedHasNoGap /\ QuietFeedEndsAtTheEnd
  BY DEF QuietFeedIsComplete
<1>1. base \in Nat /\ \A i \in Visible : i \in Nat
  BY RowsArePosts DEF TypeOK, Visible, Rows
<1>2. ASSUME tab = "friends", NEW i \in Visible, i <= base => Listed(i)
      PROVE  Covered(i)
  BY <1>1, <1>2 DEF NewOnItsWay, Covered
<1>3. QuietFeedHasNoGap
  <2> SUFFICES ASSUME NEW e \in list, NEW i \in Visible, i > e.id PROVE Covered(i)
    BY DEF QuietFeedHasNoGap, Covered, Yes
  <2>1. tab = "friends"
    BY DEF TypeOK, WorldEmpty
  <2>2. i <= base => Listed(i)
    BY <2>1 DEF QuietInv, GapFree
  <2> QED
    BY <1>2, <2>1, <2>2
<1>4. QuietFeedEndsAtTheEnd
  <2> SUFFICES ASSUME ~hasMore, hidden = {}, tab = "friends", NEW i \in Rows PROVE Covered(i)
    BY DEF QuietFeedEndsAtTheEnd, Covered, Yes
  <2>1. i \in Visible /\ (i <= base => i \in 1..base)
    BY <1>1 DEF Visible, Rows
  <2>2. i <= base => Listed(i)
    BY <2>1 DEF QuietInv, EndListed
  <2> QED
    BY <1>2, <2>1, <2>2
<1> QED
  BY <1>3, <1>4

\* As long as each frame has built a new page of this very list, the list has no
\* gap but for posts that are on their way, and its paging ends at the end of the
\* table if no row is hidden (discover_main.dart, lines 63 to 87 and 405 to 420).
THEOREM QuietFeedIsCompleteTheorem == Spec => []QuietFeedIsComplete
<1>1. TopInv => NoIsTrue /\ WorldEmpty
  BY DEF TopInv
<1> QED
  BY <1>1, InitTop, NextTop, InitQuiet, NextQuiet, NextNewOnItsWay, QuietIsComplete,
     TypeCorrect, PTL DEF Spec
-----------------------------------------------------------------------------
(***************************************************************************)
(* The order rests on the same invariant.  A page after the first starts   *)
(* at least Limit rows behind the newest, so if no more have come it holds *)
(* posts from before the list began; one that is newer than a listed post  *)
(* is then listed itself, and all others belong behind the list.           *)
(***************************************************************************)
ListSorted == \A e, f \in list : e.id > f.id => e.at < f.at
ListInPlace == \A e \in list : e.id <= base /\ e.at < back
PageGoesBehind ==
  \A n \in snap.posts : n.id <= base /\ \A e \in list : n.id > e.id => Listed(n.id)
Few == tab = "friends" /\ ~disturbed /\ last <= base + Limit
OrderInv ==
  Few => /\ snap # NoSnap
         /\ list # {} => Limit <= offset
         /\ ListInPlace /\ ListSorted
         /\ PageSnap => PageGoesBehind

\* Of a page that is not the first, the list has whatever is newer than one of its posts.
LEMMA LoadBehind ==
  ASSUME TypeOK, base' \in 0..last, offset' \in Nat, Limit <= offset', last <= base' + Limit,
         GapFree', snap' = getPosts(Rows, offset', "page"), UNCHANGED <<last, hidden>>
  PROVE  PageGoesBehind' /\ snap' # NoSnap
<1>1. last \in Nat /\ base' \in Nat /\ Limit \in Nat
  BY RowsArePosts, FeedAssumption
<1>2. \A n \in snap'.posts : n.id \in Visible' /\ offset' <= last - n.id /\ n.id \in Nat
  <2>1. \A n \in snap'.posts : n.id \in Visible /\ offset' <= last - n.id
    BY PageRows
  <2> QED
    BY <2>1 DEF Visible, Rows
<1>3. \A n \in snap'.posts : n.id <= base'
  BY <1>1, <1>2
<1>4. snap' # NoSnap
  BY DEF getPosts, NoSnap
<1> QED
  BY <1>2, <1>3, <1>4 DEF PageGoesBehind, GapFree, Listed

\* A page that goes behind a sorted list leaves it sorted.
LEMMA MergeBehind ==
  ASSUME TypeOK, ListInPlace, ListSorted, PageGoesBehind, merge(snap.posts),
         \A n \in snap.posts : n.ok, base' = base
  PROVE  ListInPlace' /\ ListSorted'
<1>1. /\ last \in Nat /\ back \in Int /\ base \in Nat
      /\ \A e \in list : e.id \in Nat /\ e.at \in Int
  BY RowsArePosts DEF TypeOK, Entry, Post
<1>2. \A i \in Fresh(snap.posts) :
        i \in Nat /\ i <= base /\ \A e \in list : i < e.id
  <2> SUFFICES ASSUME NEW i \in Fresh(snap.posts)
               PROVE  i \in Nat /\ i <= base /\ \A e \in list : i < e.id
    OBVIOUS
  <2>1. i \in Nat /\ Yes(i) \in snap.posts /\ ~Listed(i)
    BY DEF Fresh, Yes, Post
  <2>2. Yes(i).id = i
    BY DEF Yes
  <2>3. i <= base /\ \A e \in list : ~(i > e.id)
    BY <2>1, <2>2 DEF PageGoesBehind
  <2>4. \A e \in list : e.id # i
    BY <2>1 DEF Listed
  <2> QED
    BY <1>1, <2>1, <2>3, <2>4
<1>3. \A i \in Fresh(snap.posts) : ~GoesOnTop(i, snap.posts)
  BY <1>1, <1>2 DEF GoesOnTop
<1>4. \A e \in list' :
        \/ e \in list
        \/ e.id \in Fresh(snap.posts) /\ e.at = back + last - e.id
  BY <1>3 DEF merge
<1>5. back' = IF Fresh(snap.posts) = {} THEN back ELSE back + last + 1
  BY DEF merge
<1>6. ListInPlace'
  <2> SUFFICES ASSUME NEW e \in list' PROVE e.id <= base /\ e.at < back'
    BY DEF ListInPlace
  <2>1. CASE e \in list
    BY <1>1, <1>5, <2>1 DEF ListInPlace
  <2>2. CASE e.id \in Fresh(snap.posts) /\ e.at = back + last - e.id
    <3>1. back' = back + last + 1 /\ e.id \in Nat /\ e.id <= base
      BY <1>2, <1>5, <2>2
    <3> QED
      BY <1>1, <2>2, <3>1
  <2> QED
    BY <1>4, <2>1, <2>2
<1>7. ListSorted'
  <2> SUFFICES ASSUME NEW e \in list', NEW f \in list', e.id > f.id PROVE e.at < f.at
    BY DEF ListSorted
  <2>1. CASE e \in list /\ f \in list
    BY <2>1 DEF ListSorted
  <2>2. CASE e \in list /\ f \notin list
    <3>1. f.id \in Fresh(snap.posts) /\ f.at = back + last - f.id
      BY <1>4, <2>2
    <3>2. e.at < back /\ f.id \in Nat /\ f.id <= base /\ base <= last
      BY <1>2, <2>2, <3>1 DEF ListInPlace, TypeOK
    <3> QED
      BY <1>1, <2>2, <3>1, <3>2
  <2>3. CASE e \notin list /\ f \in list
    <3>1. e.id \in Fresh(snap.posts)
      BY <1>4, <2>3
    <3>2. e.id \in Nat /\ f.id \in Nat /\ e.id < f.id
      BY <1>1, <1>2, <2>3, <3>1
    <3> QED
      BY <3>2
  <2>4. CASE e \notin list /\ f \notin list
    <3>1. /\ e.id \in Nat /\ e.at = back + last - e.id
          /\ f.id \in Nat /\ f.at = back + last - f.id
      BY <1>2, <1>4, <2>4
    <3> QED
      BY <1>1, <3>1
  <2> QED
    BY <2>1, <2>2, <2>3, <2>4
<1> QED
  BY <1>6, <1>7

\* Steps that leave list and paging alone, and bring no page of this list.
LEMMA OtherOrder ==
  ASSUME TypeOK, OrderInv, last' \in Nat, last <= last', snap' # NoSnap \/ snap' = snap,
         snap'.kind # "page" \/ UNCHANGED <<snap, dirty>>,
         UNCHANGED <<tab, paging, base, disturbed>>
  PROVE  OrderInv'
<1> SUFFICES ASSUME Few'
             PROVE  (/\ snap # NoSnap
                     /\ list # {} => Limit <= offset
                     /\ ListInPlace /\ ListSorted
                     /\ PageSnap => PageGoesBehind)'
  BY DEF OrderInv
<1>1. last \in Nat /\ base + Limit \in Nat
  BY RowsArePosts, FeedAssumption DEF TypeOK
<1>2. list' = list /\ offset' = offset /\ back' = back /\ base' = base
  BY DEF paging
<1>3. Few
  BY <1>1, <1>2 DEF Few
<1>4. (snap # NoSnap /\ (list # {} => Limit <= offset) /\ ListInPlace /\ ListSorted)'
  BY <1>2, <1>3 DEF OrderInv, ListInPlace, ListSorted
<1>5. (PageSnap => PageGoesBehind)'
  <2>1. CASE snap'.kind # "page"
    BY <2>1 DEF PageSnap
  <2>2. CASE UNCHANGED <<snap, dirty>>
    BY <1>2, <1>3, <2>2 DEF OrderInv, PageSnap, PageGoesBehind, Listed
  <2> QED
    BY <2>1, <2>2
<1> QED
  BY <1>4, <1>5

LEMMA FrameOrder ==
  ASSUME TypeOK, QuietInv, QuietInv', OrderInv, Frame
  PROVE  OrderInv'
<1> SUFFICES ASSUME Few'
             PROVE  (/\ snap # NoSnap
                     /\ list # {} => Limit <= offset
                     /\ ListInPlace /\ ListSorted
                     /\ PageSnap => PageGoesBehind)'
  BY DEF OrderInv
<1>1. UNCHANGED <<hidden, last, base>> /\ tab = "friends" /\ Few
  BY DEF Frame, Few, TypeOK
<1>2. snap # NoSnap
  BY <1>1 DEF OrderInv
<1>3. merge(snap.posts) /\ advance /\ PageSnap
  BY <1>2 DEF Frame, Few, PageSnap
<1>4. PageOK /\ PageGoesBehind /\ ListInPlace /\ ListSorted
  BY <1>1, <1>3 DEF OrderInv, QuietInv, Few
<1>5. ListInPlace' /\ ListSorted'
  BY <1>1, <1>3, <1>4, MergeBehind DEF PageOK
<1>6. offset' \in Nat /\ Limit <= offset'
  BY <1>3, FeedAssumption DEF advance, TypeOK
<1>7. GapFree'
  BY DEF QuietInv, Few
<1>8. ASSUME snap' = getPosts(Rows, offset', "page") PROVE PageGoesBehind' /\ snap' # NoSnap
  <2>1. base' \in 0..last /\ last <= base' + Limit
    BY <1>1 DEF TypeOK, Few
  <2> QED
    BY <1>1, <1>6, <1>7, <1>8, <2>1, LoadBehind
<1>9. ASSUME UNCHANGED snap, dirty' = FALSE PROVE ~PageSnap' /\ snap' # NoSnap
  BY <1>2, <1>9 DEF PageSnap
<1> QED
  BY <1>5, <1>6, <1>8, <1>9 DEF Frame

LEMMA NextOrder ==
  TypeOK /\ WorldEmpty /\ QuietInv /\ QuietInv' /\ OrderInv /\ [Next]_vars => OrderInv'
<1> SUFFICES ASSUME TypeOK, WorldEmpty, QuietInv, QuietInv', OrderInv, [Next]_vars
             PROVE  OrderInv'
  OBVIOUS
<1>0. last \in Nat /\ base \in 0..last
  BY RowsArePosts DEF TypeOK
<1>1. CASE NewPost \/ \E i \in Rows : TouchPost(i) \/ delPost(i)
  <2>1. last' \in Nat /\ last <= last'
    <3>1. last' = last \/ last' = last + 1
      BY <1>1 DEF NewPost, TouchPost, delPost
    <3> QED
      BY <1>0, <3>1
  <2>2. UNCHANGED <<tab, snap, dirty, paging, base, disturbed>>
    BY <1>1 DEF NewPost, TouchPost, delPost, on_new_post
  <2> QED
    BY <2>1, <2>2, OtherOrder
<1>2. CASE setNewPostNotify \/ \E o \in 0..MaxPost : LoadElsewhere(o)
  <2>1. snap'.kind \in {"event", "other"} \/ UNCHANGED <<snap, dirty>>
    BY <1>2 DEF setNewPostNotify, LoadElsewhere, Emit, getPosts
  <2>2. snap' # NoSnap \/ snap' = snap
    BY <2>1 DEF NoSnap
  <2>3. UNCHANGED <<last, tab, paging, base, disturbed>>
    BY <1>2 DEF setNewPostNotify, LoadElsewhere
  <2> QED
    BY <1>0, <2>1, <2>2, <2>3, OtherOrder
<1>3. CASE MarkRebuild \/ UNCHANGED vars
  <2>1. UNCHANGED <<last, tab, snap, dirty, paging, base, disturbed>>
    BY <1>3 DEF MarkRebuild, vars
  <2> QED
    BY <1>0, <2>1, OtherOrder
<1>4. CASE Scroll
  <2> SUFFICES ASSUME Few'
               PROVE  (/\ snap # NoSnap
                       /\ list # {} => Limit <= offset
                       /\ ListInPlace /\ ListSorted
                       /\ PageSnap => PageGoesBehind)'
    BY DEF OrderInv
  <2>1. /\ list' = list /\ offset' = offset /\ back' = back /\ list # {}
        /\ snap' = getPosts(Rows, offset', "page")
        /\ UNCHANGED <<last, hidden, tab, base, disturbed>>
    BY <1>4 DEF Scroll, Emit, paging
  <2>2. Limit <= offset /\ ListInPlace /\ ListSorted
    BY <2>1 DEF Few, OrderInv
  <2>3. base' \in 0..last /\ offset' \in Nat /\ last <= base' + Limit /\ GapFree'
    BY <2>1 DEF TypeOK, Few, QuietInv
  <2>4. PageGoesBehind' /\ snap' # NoSnap
    BY <2>1, <2>2, <2>3, LoadBehind
  <2> QED
    BY <2>1, <2>2, <2>4 DEF ListInPlace, ListSorted
<1>5. CASE LeaveTab
  BY <1>5 DEF LeaveTab, OrderInv, Few
<1>6. CASE EnterTab
  <2>1. /\ list' = {} /\ base' = last /\ snap' = getPosts(Rows, 0, "page")
        /\ UNCHANGED <<last, hidden>>
    BY <1>6 DEF EnterTab, WorldEmpty
  <2>2. \A n \in snap'.posts : n.id <= base'
    <3>1. \A n \in snap'.posts : n.id \in Visible
      BY <2>1, PageRows
    <3> QED
      BY <1>0, <2>1, <3>1 DEF Visible, Rows
  <2>3. snap' # NoSnap
    BY <2>1 DEF getPosts, NoSnap
  <2> QED
    BY <2>1, <2>2, <2>3 DEF OrderInv, ListInPlace, ListSorted, PageGoesBehind
<1> QED
  BY <1>1, <1>2, <1>3, <1>4, <1>5, <1>6, FrameOrder DEF Next

LEMMA InitOrder == Init => OrderInv
<1> SUFFICES ASSUME Init PROVE OrderInv
  OBVIOUS
<1>1. TypeOK /\ last \in Nat /\ base = last
  BY InitType, RowsArePosts DEF Init
<1>2. \A n \in snap.posts : n.id <= base
  <2>1. \A n \in snap.posts : n.id \in Visible
    BY <1>1, PageRows DEF Init
  <2> QED
    BY <1>1, <2>1 DEF Visible, Rows
<1>3. snap # NoSnap /\ list = {}
  BY DEF Init, getPosts, NoSnap
<1> QED
  BY <1>2, <1>3 DEF OrderInv, ListInPlace, ListSorted, PageGoesBehind

\* A list of its own pages stays newest first while no more posts have come than
\* fit on a page, however scrolling, new posts and deletions interleave
\* (discover_main.dart, lines 414 to 432).
THEOREM QuietFeedIsInOrderTheorem == Spec => []QuietFeedIsInOrder
<1>1. TopInv => NoIsTrue /\ WorldEmpty
  BY DEF TopInv
<1>2. TypeOK /\ WorldEmpty /\ OrderInv => QuietFeedIsInOrder
  <2> SUFFICES ASSUME TypeOK, WorldEmpty, OrderInv, ~disturbed, last <= base + Limit,
                      NEW e \in list, NEW f \in list, e.id > f.id
               PROVE  e.at < f.at
    BY DEF QuietFeedIsInOrder
  <2>1. tab = "friends"
    BY DEF TypeOK, WorldEmpty
  <2> QED
    BY <2>1 DEF OrderInv, Few, ListSorted
<1> QED
  BY <1>1, <1>2, InitTop, NextTop, InitQuiet, NextQuiet, InitOrder, NextOrder,
     TypeCorrect, PTL DEF Spec
-----------------------------------------------------------------------------
(***************************************************************************)
(* What the properties above say together of a list that has settled.      *)
(***************************************************************************)
\* Nothing is on its way to the list, and every snapshot has been built.
Settled == tab = "friends" /\ queue = <<>> /\ ~dirty /\ replaced = {}

\* What the user sees in the end of a list that only its own pages have been built
\* into: the visible posts down to the last one listed, each once and none beside
\* them, newest first unless more have come than fit on a page; and all posts when
\* there is no more, if none is hidden (discover_main.dart, lines 380 to 432).
SettledFeedIsTheTable ==
  (Settled /\ ~disturbed) =>
    /\ \A i \in Post : Listed(i) <=> (i \in Visible /\ \E e \in list : e.id <= i)
    /\ \A e, f \in list : e.id = f.id => e = f
    /\ last <= base + Limit => \A e, f \in list : e.id > f.id => e.at < f.at
    /\ (~hasMore /\ hidden = {}) => {e.id : e \in list} = Rows

\* Pages, events and the list hold posts that have a row.
HaveRows(notices) == \A n \in notices : n.id \in Rows
QueueRows == \A k \in 1..Len(queue) : queue[k].id \in Rows
ListRows  == \A e \in list : e.id \in Rows
FromRows  == HaveRows(snap.posts) /\ QueueRows /\ ListRows

LEMMA InitFromRows == Init => FromRows
<1> SUFFICES ASSUME Init PROVE FromRows
  OBVIOUS
<1>1. Rows \subseteq Post /\ list = {} /\ queue = <<>>
  BY FeedAssumption DEF Init, Rows, Post
<1>2. \A n \in snap.posts : n.id \in Rows
  BY <1>1, PageType DEF Init
<1> QED
  BY <1>1, <1>2 DEF FromRows, HaveRows, QueueRows, ListRows

\* A report adds a row to the queue, and may add it to the table first.
LEMMA ReportFromRows ==
  ASSUME TypeOK, FromRows, NEW i \in Post, NEW ok \in BOOLEAN, on_new_post(i, ok),
         last' \in {last, last + 1}, i \in Rows'
  PROVE  FromRows'
<1>1. \A j \in Rows : j \in Rows'
  BY RowsArePosts DEF Rows
<1>2. queue \in Seq(Notice) /\ [id |-> i, ok |-> ok] \in Notice
  BY NoticeType DEF TypeOK
<1>3. queue' = Append(queue, [id |-> i, ok |-> ok]) /\ UNCHANGED <<snap, list>>
  BY DEF on_new_post, paging
<1>4. /\ Len(queue') = Len(queue) + 1 /\ Len(queue) \in Nat
      /\ \A k \in 1..Len(queue) : queue'[k] = queue[k]
      /\ queue'[Len(queue) + 1] = [id |-> i, ok |-> ok]
  BY <1>2, <1>3
<1>5. QueueRows'
  <2> SUFFICES ASSUME NEW k \in 1..Len(queue')
               PROVE  queue'[k].id \in Rows'
    BY DEF QueueRows
  <2>1. k \in 1..Len(queue) \/ k = Len(queue) + 1
    BY <1>4
  <2> QED
    BY <1>1, <1>4, <2>1 DEF FromRows, QueueRows
<1> QED
  BY <1>1, <1>3, <1>5 DEF FromRows, HaveRows, ListRows

\* A load puts rows into the snapshot, if the list hears of it at all.
LEMMA LoadFromRows ==
  ASSUME TypeOK, FromRows, NEW S, S \subseteq Rows, NEW o \in Nat, NEW k \in {"page", "other"},
         snap' \in {snap, getPosts(S, o, k)}, list' \subseteq list,
         UNCHANGED <<last, hidden, queue>>
  PROVE  FromRows'
<1>1. Rows' = Rows /\ S \subseteq Post
  BY RowsArePosts DEF Rows
<1>2. HaveRows(getPosts(S, o, k).posts)
  BY <1>1, PageType DEF HaveRows
<1>3. HaveRows(snap.posts)'
  BY <1>1, <1>2 DEF FromRows, HaveRows
<1> QED
  BY <1>1, <1>3 DEF FromRows, QueueRows, ListRows

LEMMA FrameFromRows == ASSUME TypeOK, FromRows, Frame PROVE FromRows'
<1>1. UNCHANGED <<last, hidden, queue>> /\ Rows' = Rows
  BY DEF Frame, Rows
<1>2. ListRows'
  <2>1. CASE snap = NoSnap
    BY <1>1, <2>1 DEF Frame, paging, FromRows, ListRows
  <2>2. CASE snap # NoSnap
    <3>1. merge(snap.posts)
      BY <2>2 DEF Frame
    <3>2. \A i \in Fresh(snap.posts) : i \in Rows
      BY DEF Fresh, FromRows, HaveRows
    <3>3. ASSUME NEW e \in list'
          PROVE  e \in list \/ \E i \in Fresh(snap.posts) : e.id = i
      BY <3>1 DEF merge
    <3> QED
      BY <1>1, <3>2, <3>3 DEF FromRows, ListRows
  <2> QED
    BY <2>1, <2>2
<1>3. HaveRows(snap.posts)'
  <2>1. CASE UNCHANGED snap
    BY <1>1, <2>1 DEF FromRows, HaveRows
  <2>2. CASE snap' = getPosts(Rows, offset', "page")
    <3>1. offset' \in Nat
      BY FeedAssumption DEF Frame, TypeOK, paging, advance
    <3>2. \A n \in snap'.posts : n.id \in Rows
      BY <2>2, <3>1, PageType, RowsArePosts
    <3> QED
      BY <1>1, <3>2 DEF HaveRows
  <2> QED
    BY <2>1, <2>2 DEF Frame
<1> QED
  BY <1>1, <1>2, <1>3 DEF FromRows, QueueRows

LEMMA NextFromRows == TypeOK /\ FromRows /\ [Next]_vars => FromRows'
<1> SUFFICES ASSUME TypeOK, FromRows, [Next]_vars PROVE FromRows'
  OBVIOUS
<1>0. Rows \subseteq Post /\ last \in Nat /\ MaxPost \in Nat /\ offset \in Nat
  BY RowsArePosts DEF TypeOK
<1>1. CASE NewPost
  <2>1. last' = last + 1 /\ last + 1 \in Post /\ last + 1 \in Rows'
    BY <1>0, <1>1 DEF NewPost, Post, Rows
  <2> QED
    BY <1>1, <2>1, ReportFromRows DEF NewPost
<1>2. ASSUME NEW i \in Rows, TouchPost(i) \/ delPost(i) PROVE FromRows'
  <2>1. i \in Post /\ last' = last /\ i \in Rows'
    BY <1>0, <1>2 DEF TouchPost, delPost, Rows
  <2>2. \E ok \in BOOLEAN : on_new_post(i, ok)
    BY <1>2 DEF TouchPost, delPost
  <2> QED
    BY <2>1, <2>2, ReportFromRows
<1>3. CASE setNewPostNotify
  <2>1. /\ queue # <<>> /\ queue' = Tail(queue) /\ queue \in Seq(Notice)
        /\ UNCHANGED <<last, list>> /\ Rows' = Rows
        /\ snap' \in {snap, [kind |-> "event", posts |-> {Head(queue)}]}
    BY <1>3 DEF setNewPostNotify, Emit, TypeOK, paging, Rows
  <2>2. /\ Len(queue) \in Nat /\ 1 \in 1..Len(queue) /\ Head(queue) = queue[1]
        /\ \A k \in 1..Len(queue') : k + 1 \in 1..Len(queue) /\ queue'[k] = queue[k + 1]
    BY <2>1
  <2>3. Head(queue).id \in Rows
    BY <2>2 DEF FromRows, QueueRows
  <2>4. QueueRows'
    BY <2>1, <2>2 DEF FromRows, QueueRows
  <2> QED
    BY <2>1, <2>3, <2>4 DEF FromRows, HaveRows, ListRows
<1>4. CASE Scroll
  BY <1>0, <1>4, LoadFromRows DEF Scroll, Emit, paging
<1>5. ASSUME NEW o \in 0..MaxPost, LoadElsewhere(o) PROVE FromRows'
  <2>1. o \in Nat /\ Friend \cap Rows \subseteq Rows
    BY <1>0
  <2> QED
    BY <1>5, <2>1, LoadFromRows DEF LoadElsewhere, Emit, paging
<1>6. CASE MarkRebuild \/ UNCHANGED vars
  BY <1>6 DEF MarkRebuild, vars, paging, FromRows, HaveRows, QueueRows, ListRows, Rows
<1>7. CASE LeaveTab
  BY <1>7 DEF LeaveTab, NoSnap, FromRows, HaveRows, QueueRows, ListRows, Rows
<1>8. CASE EnterTab
  BY <1>0, <1>8, LoadFromRows DEF EnterTab
<1> QED
  BY <1>1, <1>2, <1>3, <1>4, <1>5, <1>6, <1>7, <1>8, FrameFromRows DEF Next

\* A quiet list that has settled is the table, down to where it has been scrolled.
THEOREM SettledFeedIsTheTableTheorem == Spec => []SettledFeedIsTheTable
<1>1. ASSUME FromRows, NoDuplicates, HiddenLeaves, QuietFeedIsComplete, QuietFeedIsInOrder
      PROVE  SettledFeedIsTheTable
  <2> SUFFICES ASSUME Settled, ~disturbed
               PROVE  /\ \A i \in Post : Listed(i) <=> (i \in Visible /\ \E e \in list : e.id <= i)
                      /\ \A e, f \in list : e.id = f.id => e = f
                      /\ last <= base + Limit => \A e, f \in list : e.id > f.id => e.at < f.at
                      /\ (~hasMore /\ hidden = {}) => {e.id : e \in list} = Rows
    BY DEF SettledFeedIsTheTable
  <2>1. \A n : ~Unseen(n)
    BY DEF Settled, Unseen, Pending
  <2>2. \A e \in list : e.id \in Visible
    <3> SUFFICES ASSUME NEW e \in list PROVE e.id \in Visible
      OBVIOUS
    <3>1. e.id \in Rows /\ Listed(e.id)
      BY <1>1 DEF FromRows, ListRows, Listed
    <3>2. e.id \notin hidden
      BY <1>1, <2>1, <3>1 DEF HiddenLeaves
    <3> QED
      BY <3>1, <3>2 DEF Visible
  <2>3. \A e \in list, i \in Visible : i > e.id => Listed(i)
    BY <1>1, <2>1 DEF QuietFeedIsComplete, QuietFeedHasNoGap
  <2>4. ASSUME NEW i \in Post
        PROVE  Listed(i) <=> (i \in Visible /\ \E e \in list : e.id <= i)
    <3>1. ASSUME Listed(i) PROVE i \in Visible /\ \E e \in list : e.id <= i
      <4>1. PICK e \in list : e.id = i
        BY <3>1 DEF Listed
      <4>2. i <= i
        BY DEF Post
      <4> QED
        BY <2>2, <4>1, <4>2
    <3>2. ASSUME i \in Visible, NEW e \in list, e.id <= i PROVE Listed(i)
      <4>1. e.id \in Int /\ i \in Int
        BY <2>2 DEF Visible, Rows, Post
      <4>2. CASE e.id = i
        BY <4>2 DEF Listed
      <4>3. CASE i > e.id
        BY <2>3, <3>2, <4>3
      <4> QED
        BY <3>2, <4>1, <4>2, <4>3
    <3> QED
      BY <3>1, <3>2
  <2>5. ASSUME ~hasMore, hidden = {} PROVE {e.id : e \in list} = Rows
    <3>1. \A i \in Rows : Listed(i)
      BY <1>1, <2>1, <2>5 DEF QuietFeedIsComplete, QuietFeedEndsAtTheEnd, Settled
    <3> QED
      BY <1>1, <3>1 DEF FromRows, ListRows, Listed
  <2> QED
    BY <1>1, <2>4, <2>5 DEF NoDuplicates, QuietFeedIsInOrder
<1>2. Spec => []FromRows
  BY InitFromRows, NextFromRows, TypeCorrect, PTL DEF Spec
<1> QED
  BY <1>1, <1>2, NoDuplicatesTheorem, HiddenLeavesTheorem, QuietFeedIsCompleteTheorem,
     QuietFeedIsInOrderTheorem, PTL
=============================================================================
