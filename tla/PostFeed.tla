------------------------------- MODULE PostFeed -------------------------------
(***************************************************************************)
(* The posts of friends on the Discover page: pages read from the posts    *)
(* table, live events, and the list that is built of both                  *)
(* (lib/ui/discover/discover_main.dart).                                   *)
(*                                                                         *)
(* The page does not get its pages as results.  DhtClient.getPosts adds    *)
(* them to the broadcast postStream, to which the port listener adds every *)
(* live event, and to which the other pages that show posts add what they  *)
(* load.  A StreamBuilder keeps the latest of these snapshots, and the     *)
(* list, the offset and the flag hasMore change while a frame builds it: a *)
(* snapshot that is replaced before the frame is never seen, and one that  *)
(* is built again counts again.                                            *)
(*                                                                         *)
(* A post is the number of its row; a larger one is newer.  "hidden" are   *)
(* the posts that are deleted or not visible.  getPosts has no await of    *)
(* its own, so a load and the event it leads to are one step, and the flag *)
(* isLoading never stops one.                                              *)
(***************************************************************************)
EXTENDS Integers, Sequences, FiniteSets

CONSTANTS MaxPost,   \* bound: rows of the table
          Friend,    \* the posts of the friend whose profile is opened
          Limit,     \* rows on a page
          MaxOffset, \* bound: the offset of the paging
          MaxQueue   \* bound: port messages under way

ASSUME FeedAssumption ==
  /\ MaxPost \in Nat
  /\ Limit \in Nat \ {0}
  /\ MaxOffset \in Nat
  /\ MaxQueue \in Nat
  /\ Friend \subseteq 1..MaxPost

VARIABLES
  last,     \* newest row of the table
  hidden,   \* posts that are deleted or invisible
  queue,    \* port messages the isolate has still to handle
  tab,      \* "friends": the list is mounted; "world": it is not
  snap,     \* what the StreamBuilder heard last
  dirty,    \* it has still to be built
  rebuild,  \* the page itself has to be built, with a load after the frame
  list,     \* _posts
  front,    \* place of an entry inserted at index 0
  back,     \* first place behind the list
  offset,   \* _offset
  hasMore,  \* _hasMore
  base,     \* for the properties: the newest row when the list began
  replaced, \* for the properties: notices of snapshots no frame has built
  disturbed \* for the properties: a frame has built something else than a page
            \* loaded by this list, for the first time

paging == <<list, front, back, offset, hasMore>>
vars   == <<last, hidden, queue, tab, snap, dirty, rebuild, paging, base, replaced, disturbed>>
-----------------------------------------------------------------------------
Post   == 1..MaxPost
Notice == [id : Post, ok : BOOLEAN]    \* ok: visible and not deleted
\* kind: "page" of this list, live "event", page of an "other" list, or "none"
Snap   == [kind : {"none", "page", "event", "other"}, posts : SUBSET Notice]
NoSnap == [kind |-> "none", posts |-> {}]
Entry  == [id : Post, at : Int]        \* a smaller place is nearer to the top

Rows     == 1..last
Visible  == Rows \ hidden
Listed(i) == \E e \in list : e.id = i

\* Mutant: as many rows are handed out as were asked for.
dhtclient_get_posts_AsManyAsAsked(S, o) == {last - k : k \in o..(o + Limit - 1)}

\* The rows of S from the offset o on, newest first ...
dhtclient_get_posts(S, o) ==
  {i \in S : Cardinality({j \in S : j > i}) \in o..(o + Limit - 1)}

\* ... of which getPosts passes on those that may be seen.
getPosts(S, o, k) ==
  [kind |-> k, posts |-> {[id |-> i, ok |-> TRUE] : i \in dhtclient_get_posts(S, o) \ hidden}]

\* The stream: only a mounted list hears it.
Emit(s) ==
  IF tab = "friends"
  THEN /\ snap' = s
       /\ dirty' = TRUE
       /\ replaced' = IF dirty THEN replaced \cup snap.posts ELSE replaced
  ELSE UNCHANGED <<snap, dirty, replaced>>

\* Mutant: a page is appended without a look at what is listed, as the profile
\* of a contact does it.
Fresh_NoCheck(posts) == {i \in Post : [id |-> i, ok |-> TRUE] \in posts}

\* The posts of a snapshot that have to be inserted.
Fresh(posts) == {i \in Post : [id |-> i, ok |-> TRUE] \in posts /\ ~Listed(i)}

\* A post newer than the first of the list goes to index 0.  The posts of a
\* snapshot come newest first, so only the first of them can be that post.
GoesOnTop(i, posts) ==
  /\ \A j \in Fresh(posts) : j <= i
  /\ \E e \in list : e.id < i /\ \A f \in list : e.at <= f.at

\* Mutant: each post of a page goes behind the one that is older.
merge_OldestFirst(posts) ==
  /\ list' = {e \in list : [id |-> e.id, ok |-> FALSE] \notin posts}
             \cup {[id |-> i, at |-> back + i] : i \in Fresh(posts)}
  /\ back' = back + last + 1
  /\ UNCHANGED front

\* Mutant: hidden and deleted posts stay where they are.
merge_KeepHidden(posts) ==
  /\ list' = list
             \cup {[id |-> i, at |-> IF GoesOnTop(i, posts) THEN front ELSE back + last - i] :
                     i \in Fresh(posts)}
  /\ front' = IF \E i \in Fresh(posts) : GoesOnTop(i, posts) THEN front - 1 ELSE front
  /\ back'  = IF Fresh(posts) = {} THEN back ELSE back + last + 1

\* The loop of the builder over the posts of a snapshot.
merge(posts) ==
  /\ list' = {e \in list : [id |-> e.id, ok |-> FALSE] \notin posts}
             \cup {[id |-> i, at |-> IF GoesOnTop(i, posts) THEN front ELSE back + last - i] :
                     i \in Fresh(posts)}
  /\ front' = IF \E i \in Fresh(posts) : GoesOnTop(i, posts) THEN front - 1 ELSE front
  /\ back'  = IF Fresh(posts) = {} THEN back ELSE back + last + 1

\* Mutant: an off-by-one, the first post of the next page is skipped.
advance_SkipsOne ==
  /\ hasMore' = (Cardinality(snap.posts) = Limit)
  /\ offset'  = offset + Limit + 1

\* What every build of a snapshot does to the paging, whatever its posts are.
advance ==
  /\ hasMore' = (Cardinality(snap.posts) = Limit)
  /\ offset'  = offset + Limit
-----------------------------------------------------------------------------
\* The first frame of the home page has mounted the list, and the callback after
\* it has loaded a page of the table that earlier sessions have filled.
Init ==
  /\ last \in 0..MaxPost
  /\ hidden \in SUBSET (1..last)
  /\ queue = <<>>
  /\ tab = "friends"
  /\ snap = getPosts(Rows, 0, "page")
  /\ dirty = TRUE
  /\ rebuild = FALSE
  /\ list = {} /\ front = -1 /\ back = 0
  /\ offset = 0
  /\ hasMore = TRUE
  /\ base = last
  /\ replaced = {}
  /\ disturbed = FALSE

\* The native client saves a change of a post and reports it from one thread.
\* A load between the two finds the same rows as one just after them.
on_new_post(i, ok) ==
  /\ Len(queue) < MaxQueue
  /\ queue' = Append(queue, [id |-> i, ok |-> ok])
  /\ UNCHANGED <<tab, snap, dirty, rebuild, paging, base, replaced, disturbed>>

\* A friend's new post arrives.
NewPost ==
  /\ last < MaxPost
  /\ last' = last + 1
  /\ on_new_post(last + 1, TRUE)
  /\ UNCHANGED hidden

\* A post gets votes or replies.
TouchPost(i) ==
  /\ on_new_post(i, i \notin hidden)
  /\ UNCHANGED <<last, hidden>>

\* The user deletes a post, or its author withdraws it.
delPost(i) ==
  /\ i \notin hidden
  /\ hidden' = hidden \cup {i}
  /\ on_new_post(i, FALSE)
  /\ UNCHANGED last

\* The isolate hands a live event to the stream.
setNewPostNotify ==
  /\ queue # <<>>
  /\ queue' = Tail(queue)
  /\ Emit([kind |-> "event", posts |-> {Head(queue)}])
  /\ UNCHANGED <<last, hidden, tab, rebuild, paging, base, disturbed>>

\* The user comes near the end of the list.
Scroll ==
  /\ tab = "friends"
  /\ list # {}
  /\ hasMore
  /\ Emit(getPosts(Rows, offset, "page"))
  /\ UNCHANGED <<last, hidden, queue, tab, rebuild, paging, base, disturbed>>

\* Another page loads posts: the profile of a friend, at any offset.
LoadElsewhere(o) ==
  /\ Emit(getPosts(Friend \cap Rows, o, "other"))
  /\ UNCHANGED <<last, hidden, queue, tab, rebuild, paging, base, disturbed>>

\* A tap on the page, or a build of the home page that contains it.
MarkRebuild ==
  /\ tab = "friends"
  /\ rebuild' = TRUE
  /\ UNCHANGED <<last, hidden, queue, tab, snap, dirty, paging, base, replaced, disturbed>>

\* A frame builds the StreamBuilder, because of a new snapshot or because the
\* page is built; in the latter case more posts are loaded after the frame.
Frame ==
  /\ tab = "friends"
  /\ dirty \/ rebuild
  /\ offset < MaxOffset
  /\ IF snap = NoSnap
     THEN UNCHANGED <<paging, disturbed>>
     ELSE /\ merge(snap.posts)
          /\ advance
          /\ disturbed' = (disturbed \/ ~dirty \/ snap.kind # "page")
  /\ IF rebuild /\ hasMore'
     THEN snap' = getPosts(Rows, offset', "page") /\ dirty' = TRUE
     ELSE UNCHANGED snap /\ dirty' = FALSE
  /\ rebuild' = FALSE
  /\ UNCHANGED <<last, hidden, queue, tab, base, replaced>>

\* _handleTabChange: away from the list, which is cleared and unmounted ...
LeaveTab ==
  /\ tab = "friends"
  /\ tab' = "world"
  /\ snap' = NoSnap
  /\ dirty' = FALSE
  /\ rebuild' = FALSE
  /\ list' = {} /\ front' = -1 /\ back' = 0
  /\ base' = 0
  /\ replaced' = {}
  /\ disturbed' = FALSE
  /\ UNCHANGED <<last, hidden, queue, offset, hasMore>>

\* Mutant: the offset is not reset.
EnterTab_KeepsOffset ==
  /\ tab = "world"
  /\ tab' = "friends"
  /\ hasMore' = TRUE
  /\ snap' = getPosts(Rows, offset, "page")
  /\ dirty' = TRUE
  /\ base' = last
  /\ UNCHANGED <<last, hidden, queue, rebuild, list, front, back, offset, replaced, disturbed>>

\* ... and back to it, which starts from the first page.
EnterTab ==
  /\ tab = "world"
  /\ tab' = "friends"
  /\ offset' = 0
  /\ hasMore' = TRUE
  /\ snap' = getPosts(Rows, 0, "page")
  /\ dirty' = TRUE
  /\ base' = last
  /\ UNCHANGED <<last, hidden, queue, rebuild, list, front, back, replaced, disturbed>>

Next ==
  \/ NewPost
  \/ \E i \in Rows : TouchPost(i) \/ delPost(i)
  \/ setNewPostNotify
  \/ Scroll
  \/ \E o \in 0..MaxPost : LoadElsewhere(o)
  \/ MarkRebuild
  \/ Frame
  \/ LeaveTab
  \/ EnterTab

Spec == Init /\ [][Next]_vars
-----------------------------------------------------------------------------
TypeOK ==
  /\ last \in 0..MaxPost
  /\ hidden \subseteq Rows
  /\ queue \in Seq(Notice)
  /\ tab \in {"friends", "world"}
  /\ snap \in Snap
  /\ dirty \in BOOLEAN /\ rebuild \in BOOLEAN /\ hasMore \in BOOLEAN /\ disturbed \in BOOLEAN
  /\ list \subseteq Entry
  /\ front \in Int /\ back \in Int
  /\ offset \in Nat
  /\ base \in 0..last
  /\ replaced \subseteq Notice

\* A notice is still to be built, or it never will be since another snapshot has
\* replaced its own.
Pending(n) ==
  \/ \E k \in 1..Len(queue) : queue[k] = n
  \/ dirty /\ n \in snap.posts
Unseen(n) == Pending(n) \/ n \in replaced

\* No post stands twice in the list, whether a page, an event or the page of
\* another list brings it (discover_main.dart, lines 414 to 432).
NoDuplicates == \A e, f \in list : e.id = f.id => e = f

\* A post that is deleted or hidden stays in the list only as long as the event
\* that says so is under way, or for good if no frame has seen that event.
HiddenLeaves ==
  \A i \in hidden : Listed(i) => Unseen([id |-> i, ok |-> FALSE])

\* The newest rows, a page of them, are listed, under way, or in a snapshot that
\* no frame has seen: loads, events and rebuilds in any order lose nothing else
\* at the top of the list.
TopIsOnItsWay ==
  tab = "friends" =>
    \A i \in Visible : last - i < Limit => (Listed(i) \/ Unseen([id |-> i, ok |-> TRUE]))

\* As long as each frame has built a new page of this very list, paging leaves no
\* gap even while new posts shift the rows, and if no row is hidden it stops only
\* at the end of the table.
QuietFeedHasNoGap ==
  \A e \in list, i \in Visible :
    i > e.id => (Listed(i) \/ Unseen([id |-> i, ok |-> TRUE]))
QuietFeedEndsAtTheEnd ==
  (~hasMore /\ hidden = {} /\ tab = "friends") =>
    \A i \in Rows : Listed(i) \/ Unseen([id |-> i, ok |-> TRUE])
QuietFeedIsComplete == ~disturbed => QuietFeedHasNoGap /\ QuietFeedEndsAtTheEnd

\* It also keeps the list newest first, if not more posts than fit on a page have
\* come since the list began.  With more of them a page can bring two that are
\* newer than the list, and only one goes to index 0.
QuietFeedIsInOrder ==
  (~disturbed /\ last <= base + Limit) => \A e, f \in list : e.id > f.id => e.at < f.at
-----------------------------------------------------------------------------
\* dhtclient.dart line 394, "a new post arrives, pass it to the UI": when the next
\* snapshot replaces a live event, the list shows the post the event was about.
NewPostReachesUI ==
  [][(dirty /\ snap.kind = "event" /\ tab' = "friends" /\ snap' # snap)
       => \A n \in snap.posts : n.ok => \E e \in list' : e.id = n.id]_vars
=============================================================================
