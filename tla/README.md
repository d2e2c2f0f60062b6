# Freeman: a verification project

Freeman is a messenger without servers. A prebuilt C++ library (`FX::DhtClient`, only
`android/third_sdk/freeman/include/freex/DhtClient.h` and binaries are in the repository)
talks to a DHT network and keeps the tables of contacts, conversations and messages. A layer
of C functions, `lib/cpp/freemanffi.cpp`, exposes it to Dart, and `lib/dhtclient.dart` wraps
those functions and turns the library's callbacks into broadcast streams. The Flutter user
interface in `lib/ui` reads tables with synchronous calls and listens to the streams. On
Android a group of Java services keeps the process alive.

This directory holds TLA+ models of the parts of Freeman whose correctness depends on the
order of events, TLC configurations that check them on small instances, and TLAPS proofs of
their most important invariants for every value of the constants.

## Contents

1. [Inventory](#inventory)
2. [Modules](#modules)
3. [Runs](#runs)
4. [What the code says and does not do](#what-the-code-says-and-does-not-do)
5. [Bounds](#bounds)
6. [Fairness](#fairness)
7. [Proofs](#proofs)
8. [Not modelled](#not-modelled)
9. [Plan](#plan)

## Inventory

| Component | State | Operations | What is hard | What makes it correct |
|---|---|---|---|---|
| Message path (`freemanffi.cpp` on_recv_msg, `dhtclient.dart`, `ui/chatdetail`) | messages table, native threads with a message in hand, the isolate's queue, lists of the open chat pages | receive, post, deliver, open and close pages, send, delete, clear | table load, subscription and native threads interleave; several pages listen at once; two kinds of ids | a page lists every message of its conversation, once, in order; what is erased is gone from every page |
| Notify bridge (ports and callbacks) | eight port variables, open ReceivePorts, events in threads and in the queue, network status on disk | create, register, login, exit, callbacks, listeners | a login replaces ports while threads hold events; the client works before its ports exist | each stream gets its events once and in order; nothing is lost but what no port was ever registered for |
| Keep-alive services (Java) | job, two services with connections to each other, boot service | schedule, start, bind, die, reboot | any process dies at any point, and starts may be refused | the job survives; both services come back |
| Chat list (`chatlist.dart`, `chat_list_data.dart`) | a copy of the conversation table | read, sort, open, pin, clear, quit a group | many writers of the table, few triggers that read it again; a comparison that is no order | the list the user looks at is the table, in the order promised |
| Voice recorder (`voice_record_buttion.dart`) | flags, timer, native recorder | press, move, lift, tick, dispose | three awaits per recording, with finger and timer going on meanwhile | it records while held; what is cancelled is not sent; every recording ends |
| Voice player (`voice_play_widget.dart`) | a copy of the state of the `just_audio` player | play, pause, finish, dispose | states of the player arrive late | the button shows what the player does |
| Posts (`discover_main.dart`, `contact_profile.dart`) | list of posts, offset, hasMore, the latest snapshot of a stream | load a page, new post, delete, hide, change the tab, rebuild | pages, events and the pages of other lists come over one stream and change list and offset while a frame is built | no post twice, none skipped, hidden ones leave |
| Replies (`reply_page.dart`) | list of replies | load, add | load against event | no reply twice |
| Contacts and friend requests (`contacts_page.dart`, `contacts_details_page.dart`, `contact_profile.dart`) | the contacts table, the copy the page shows | request, answer, add, remove, load | a load is three reads with native threads in between; many writers must tell the page | the page follows the table; an answer goes to somebody who asked |
| User search (`add_friend_page.dart`, find_user) | the list of results, a StreamBuilder that is mounted and unmounted | search, answer, type, tap | answers carry no mark of their search, come in any order and repeat | what is found is shown, and belongs to the search |
| Groups (`group_detail_page.dart`, `group_create.dart`) | member list | create, add members, quit | two loads that are not awaited fill one list | each member once |
| Account and settings (`global.dart`, `login.dart`, `my_app_settings.dart`) | account, login mode, preferences | register, login, exit, search history | automatic login against the user's | exit means exit |
| Notice and Store buses (`notice.dart`, `store.dart`) | listeners by name | add, remove, send | listeners removed by name, for everyone | who listens hears |
| Data layer (FFI structures) | none | copy in, copy out | ownership of C memory | plain data, see below |
| Native library | tables, network | all | closed source | external |
| Widgets, themes, texts | none of their own | - | - | - |

The parts meet in three ways. The user interface **calls** the native client synchronously
through FFI: such a call is atomic for the isolate, but native threads run before, during and
after it. Native threads **post** events to ports; the isolate takes them one at a time. Dart
code **adds** to a broadcast stream whose listeners are the widgets that are mounted at that
moment, including those on pages that other pages cover.

## Modules

| Module | Models |
|---|---|
| `MessageFlow` | the way of a message from the native thread to the lists of open chat pages |
| `MCMessageFlow` | the symmetry that TLC uses for it |
| `MessageFlowProofs` | its theorems |
| `LivePages` | what the open chat pages promise, without threads, queue and events: the abstract specification of `MessageFlow` |
| `FlowRefinementProofs` | the theorem that `MessageFlow` implements `LivePages` |
| `NotifyBridge` | ports, callbacks, the order of a login, exit, the network status |
| `EventStreams` | what the bridge promises, without threads, ports, queue and logins: the abstract specification of `NotifyBridge` |
| `NotifyBridgeProofs` | its theorems, with the refinements of `EventStreams` and of `MessageFlow` |
| `KeepAlive` | the Android services |
| `KeepAliveProofs` | its theorems |
| `ChatList` | the list of conversations and its order |
| `ChatListProofs` | its theorems |
| `VoiceRecorder` | the recording button |
| `VoiceRecorderProofs` | its theorems |
| `PostFeed` | the list of friends' posts: paging, events, frames |
| `PostFeedProofs` | its theorems |
| `Contacts` | the contacts table, friend requests, the contacts page |
| `UserSearch` | the search for users |
| `Friends` | both together, with the tap on a result that leads from one to the other |
| `FriendsProofs` | its theorems |

`PROJECT.json` names, for each definition, the lines it translates. Definitions keep the name
of the function they model. A definition named `X_Suffix` with a comment that begins "Mutant"
is a plausible wrong version of `X`; it is not part of the model, and shows that a property
can fail.

### MessageFlow

*State.* `rows` is the messages table with its primary keys (`msgID`) and random ids
(`randID`); `inHand` are the rows native threads have saved and not posted; `queue` the port
messages the isolate has not handled; `pages[1..depth]` the chat pages on the navigation
stack, each with the list it shows. `opening` is set between the two halves of opening a page
(`ChatPage.initState` marks the conversation read, `ChatDetailsBody.initState` reads the
table and subscribes, later in the same frame): native threads run in between, other events of
the isolate do not.

*Actions.* `saveMsg` and `on_recv_msg` are the two halves of a native callback; `Deliver` is
the isolate handing an event to all mounted pages, where `handleIncomingMsg` inserts it unless
the random id is listed; `sendMsg` stores and echoes a text at once, while `pickFile` is the
await before a file, picture or voice message is sent (`sendFileMsg`) or found missing
(`fileMissing`); `delMsg` and `clearConversation` erase rows; `Kill` ends the process, which
leaves the table. `Quiet` are messages that reach a page and are not listed there, because
their sender is empty or their file description does not decode.

*Abstracted.* Content, avatars, times and paging (a page loads the whole table).

*The promise.* `LivePages` says what this machinery is for, with sets instead of threads, queue
and lists: a message that arrives is stored and due at once, a page opens with what is stored,
a due message comes up on all open pages in one step and an erased one goes from all of them in
one step. It also says what is not promised: a message erased while it is due comes up again,
and live messages come up on pages of other conversations. `KeepsPromise` is `MessageFlow` seen
as `LivePages`: `due` are the received messages in the threads' hands and in the queue, `open`
is `depth`, and a page shows the received messages it lists. The half-opened page (`opening`)
counts as not yet open; own messages are no part of the promise.

### NotifyBridge

*State.* `pc` and `step` say where the one thread of the isolate is: in `main`, inside the
native login, registering the seven ports of a login one after the other, or idle. `port` are
the port variables of `freemanffi.cpp`, `open` the ReceivePorts that listen. A native thread
has an event (`raise`), its callback reads the variable (`callback`), and posts later
(`Dart_PostCObject_DL`): a login between any two of these steps replaces the variable. `shown` is the network status in the preferences, which a new process inherits.

*Actions.* One per step of `DhtClient.init`, `_login` and `DhtClient.login`; `logout`;
`raise`, `callback`, `Dart_PostCObject_DL` and `listener` for an event of each of eight kinds;
`Kill`.

*External.* The native client raises events once a login has begun, with one thread per group
of kinds (`DhtClient.h` declares the worker threads).

*The promise.* `EventStreams` has one stream per kind. A kind becomes ready; every event raised
from then on is due; due events are handed on one by one, the oldest first; events of kinds that
are not ready, and all that is due when the process dies, are gone. `ImplementsStreams` is
`NotifyBridge` seen like that: a kind is ready when its port variable is set, an event is raised
when its callback reads that variable, and due is what threads hold for a port and what the queue
holds. Later logins are stutters, which is the point: replacing a port changes nothing for
anybody.

*Below `MessageFlow`.* `MessageFlow` takes from the bridge that its session goes from `down` over
`native` to `home`, that messages saved before `home` are missed, and that all others come
through one queue in the order of their posts. `NotifyBridgeProofs` maps `NotifyBridge` to
`MessageFlow` without pages and with one receiving thread: the session is read off `linked` and the
port of received messages, the rows are the messages raised, the thread's hand and the queue are
what the bridge has of that kind.

### KeepAlive

*State.* The job (10) and how far `onStartJob` has come; for each of the two services whether
it runs, was started, has a start command to come, the connections it holds (`conns`) and
those of them that may still hear of the other's death (`gone`); the boot service.

*Actions.* `onCreateActivity`, the steps of `onStartJob` (each a point where the process can
die, or where a start from the background can be refused with an exception), `onCreate`,
`onStartCommand` and `onServiceDisconnected` of the services, kills of each process, reboot
with `onReceive`, forced stop.

*External.* Android: which processes it kills, whether it restarts a started service, whether
it calls `onServiceDisconnected`. Only the branch for Android 7 and later is modelled, since
`minSdkVersion` is 24. The branches of `KeepAliveReceiver` for the screen and the network are
left out: nothing registers the receiver for them.

### ChatList

*State.* The table (`msgs`, `unread`, `istop`), events under way on `msgStream`, the tab and
the chat pages above the home page, and `shown`, the list as last built.

*Actions.* Each place that changes the table, with the trigger it has or has not: an event on
the stream, `HomeBuild` (tab, settings), `refresh` after a chat page opened from the list,
the `setState` of the menu. `compare` is the comparison of `chat_list_data.dart` as it is,
and `insert` the insertion sort by which the Dart library sorts up to 32 elements.

*Abstracted.* Conversations are numbered in the order of the native map. A read of the table
and the build that shows it are one step: the read is synchronous, and what follows it are
microtasks.

### VoiceRecorder

*State.* Calls that wait (`asking` for the permission, `starting` and `stopping` for the
recorder), the timer that `_timer` names (`timed`) and those it no longer names (`leaked`),
the flags of the widget, and whether the recorder records.

*Actions.* The gestures, the tails of the two asynchronous functions after each await, the
timer, and `dispose`. `record` may throw, which the code catches and then goes on as if it
recorded.

### PostFeed

*State.* The posts table (`last` rows, `hidden` ones), the port messages under way (`queue`),
the tab, and the page itself: the latest snapshot of `postStream` (`snap`) with what is still
to be built (`dirty`, `rebuild`), and `_posts`, `_offset`, `_hasMore`. A list entry has a place
instead of an index, so that an insertion at index 0 or at the end moves no other entry.
`base`, `replaced` and `disturbed` are only for the properties.

*Actions.* A change of a post with its event (`NewPost`, `TouchPost`, `delPost`),
`setNewPostNotify` (the isolate passes it to the stream), `Scroll` (load the next page),
`LoadElsewhere` (the profile of a friend loads posts over the same stream), `MarkRebuild` and
`Frame`, which is the builder: it merges the snapshot into the list (`merge`), moves the offset
(`advance`), and after a build of the page loads once more; `LeaveTab` and `EnterTab`.

*Abstracted.* Content, votes and times; `getPosts` has no await, so that a load and its event
are one step.

### Contacts, UserSearch, Friends

*State.* `Contacts`: for each user the progress of the friendship (`table`), requests of ours
that wait for an answer (`applied`), native threads and port messages that tell of a change
(`inHand`, `queue`), where the load of the contacts page is (`load`), what it has read and what
the page shows. `UserSearch`: answers under way by person and search (`asked`), the list
`listFindUserResult`, whether the StreamBuilder is mounted, and what it heard last.

*Actions.* `Contacts`: a request or an answer arrives, its thread posts, the isolate takes it;
the four steps of a load (`getContacts` to `getContacts_done`), between which native threads run
and other events of the isolate do not; a rebuild; the profile page with its deletion; the
details page with both answers. `UserSearch`: a search, typing, the frame that mounts the
StreamBuilder, an answer. `Friends` composes them: the search page opens and closes, and a tap
on a result sends a request, adds a contact, both, or neither, as the mode of the user found
says.

*External.* The network: which users answer, how often, in which order, and what requests and
answers come from them. The native client saves before it reports.

## Runs

Passing runs:

| Run | Properties | Shows |
|---|---|---|
| `flow_safety` | `TypeOK` `NoDuplicates` `NothingMissed` `ErasedIsHidden` `DeletedIsErased` `KeepsPromise` | with two receiving threads and two stacked pages, no window between load, subscription and threads loses or doubles a message, what is erased leaves every page, what the user deletes leaves the table, and the whole implements `LivePages` |
| `flow_single` | `ListOrder` `EventuallyListed` | with one receiving thread a page keeps the order of the table, and what arrives while its page is open is listed |
| `bridge` | `TypeOK` `OnceInOrder` `LostOnlyUnregistered` `NetStatusNeverLost` `StatusSettles` `ImplementsStreams` | logins that replace ports lose and double nothing; the status shown settles on the native one; the whole implements `EventStreams` |
| `keepalive` | `TypeOK` `JobChain` `DeathsDoubleConnections` `BothRunAgain` | the job survives all kills; connections grow only by deaths; both services run in the end |
| `chat_list` | `TypeOK` `ListCurrent` `DisorderOnlyBelowPins` | the visible list is the table; disorder starts at pinned entries |
| `recorder` | `TypeOK` `RecordingIsTimed` `CountdownInRange` `RecordingEnds` | every recording has a limit, and ends |
| `feed` | `TypeOK` `NoDuplicates` `HiddenLeaves` `TopIsOnItsWay` `QuietFeedIsComplete` `QuietFeedIsInOrder` | no order of pages, events, foreign pages and rebuilds lists a post twice, keeps a hidden one or loses one at the top but by a snapshot that was replaced; a list of its own pages has no gap and stays in order |
| `friends` | `TypeOK` `ContactsCurrent` `ShownIsFound` `OnlyLateAnswersMix` `ContactsFollow` | the contacts page shows the table whenever nothing is under way, and again and again; results shown are those found, with the two exceptions the properties name |

Every property of a passing run has a mutant in `PROJECT.json` that violates it.

`LostOnlyUnregistered` is as strong as the code allows: between the start of the native login
and the registration of a kind's port, events of that kind are lost. For messages this means
no live notification; the row is in the table, and no page is open yet (`NothingMissed`).

`CountdownInRange` and `ListOrder` name their limits: with a leaked timer the countdown runs
too fast and below zero, and with several receiving threads posts can overtake one another.

## What the code says and does not do

Runs with a violation, each a statement of the repository that the code does not keep:

| Run | Property | Statement | What happens |
|---|---|---|---|
| `flow_own_conversation` | `OwnConversationOnly` | a chat page shows its conversation (`chat_page.dart:43`, `chat_details_body.dart:16`) | live messages of every conversation are inserted |
| `recorder_cancel` | `ReleaseCancels` | "release to cancel" (`voice_record_buttion.dart:151`) | `_isCancel` is read after the await and may have been reset |
| `feed_new_post` | `NewPostReachesUI` | a new post arrives, pass it to the UI (`dhtclient.dart:394`) | a snapshot that another one replaces before the next frame is never built |
| `friends_answer` | `AnswersARequest` | send that a friend request is allowed or denied (`DhtClient.h:605`) | the details page offers both answers for people who have asked for nothing |

Behaviours that the models have and that no run states as a property, because it is a question
of intent or because nothing in the repository says otherwise:

- after Exit the login page logs in again by itself when the login mode is 0 (`login.dart` 54-75);
- a new process shows the network status of the one before until its first status event
  (`my_app_settings.dart` 77); `StatusSettles` says that the event corrects it;
- when the main process dies between the two starts of `onStartJob`, the remote service is
  only bound, counts as running, is never started and so never binds back, although
  `LocalForegroundService.java` 104 says that the two bind each other;
- a service that is restarted after a kill shows "kept running, so that messages arrive in
  time" (`LocalForegroundService.java` 77) in a process without a DHT client;
- a message deleted while its notification is under way is listed again;
- a message just sent is echoed with its random id as its id (`dhtclient.dart` 463), so that
  deleting it from the open page removes no row (`dhtclient.dart` 555); `DeletedIsErased` is
  therefore about received messages;
- messages that arrive on an open page stay unread: the conversation is marked read once,
  before (`chat_page.dart` 104);
- a pinned conversation may stay below an unpinned one with a newer message, since the
  comparison calls a pinned and a following unpinned entry equal (`chat_list_data.dart` 72);
- a finger lifted while the recorder is starting does not stop the recording that follows
  (`voice_record_buttion.dart` 78); its limit does (`RecordingEnds`);
- a hidden post on a page of the feed makes the page look short, and paging ends there
  (`discover_main.dart` 405): hence the premise `hidden = {}` of `QuietFeedEndsAtTheEnd`;
- every frame that builds a snapshot again, or builds an event or the page of another list,
  moves the offset by a page (`discover_main.dart` 406): hence the premise `~disturbed`;
- results of an earlier search that are still under way mix with those of a later one;
- events of a kind whose port is not registered yet are lost;
- nothing stops a recorder whose start ends after the button is disposed.

## Bounds

- `MessageFlow`: two conversations, two received messages, one own message, two stacked pages,
  one or two receiving threads. Two messages are what duplication, loss and order need; two
  pages are what broadcasting needs; two conversations tell one's own from another's. The
  proofs cover every size.
- `NotifyBridge`: two kinds of events (the status, which has its port before the login, and a
  kind whose port comes third of seven), two events of each, up to three logins in a process
  (the automatic one, the user's and one after Exit), any number of kills. `MaxRaise` counts
  over all processes.
- `KeepAlive`: three kills or reboots, so that a second one hits the recovery from the first
  and a third the recovery from that; `MaxConns` 9 is above 2^3, so that the bound on
  connections never hides one.
- `ChatList`: three conversations (two that the comparison orders and one between them),
  three messages, two chat pages, two events under way.
- `VoiceRecorder`: a limit of two seconds and a counter that goes on to four, three presses,
  two stops at a time.
- `PostFeed`: three rows with pages of two, so that there is a full page, a short one and one
  beyond the end; a friend who wrote the first and the last post; two events under way, so that
  two snapshots can come before one frame; offsets up to 4. Every number of rows and hidden
  posts is an initial state. 2.2 million states.
- `Friends`: one user, and a person who denies all requests and so never comes into the table;
  two searches with at most one answer per person, so that a late answer mixes; one change of
  the table that comes from the network beside those the user makes, so that a thread can run
  between the reads of a load. One million states; with more changes the liveness property
  takes too long. The theorems cover every number of users, searches, answers and changes.

`VoiceRecorder` may stop: once the button is disposed and nothing is awaited nothing happens
to it any more. Its configurations therefore do not look for deadlock; all others do.

## Fairness

- `MessageFlow`: threads post what they hold (weak), the isolate ends the opening of a page
  (weak) and takes port messages (strong: its queue is first come, first served, so later
  events of the user cannot pass a port message for ever). Nothing is assumed of the user, the
  peers or the system.
- `NotifyBridge`: the isolate, the threads and the native login go on (weak).
- `KeepAlive`: a job with its conditions met again and again runs (strong), `onStartJob` goes
  on (weak), and the system creates what was started or bound (strong: the main thread is busy
  with jobs again and again). `BothRunAgain` adds its own premises: the user does not stop the
  application, the network comes back, and the application is allowed to start services time
  and again. Nothing is assumed of `onServiceDisconnected`.
- `VoiceRecorder`: timers tick and the recorder answers a stop (weak). Nothing is assumed of
  the finger or of the answers to a start.
- `Friends`: a native thread posts what it has saved, the isolate takes its port messages, and a
  page that has to be built gets its frame and its load goes on (weak; the application is in the
  foreground). Nothing is assumed of the user, the network or other people.
- `PostFeed`, `ChatList`, `LivePages` and `EventStreams` state safety only and assume no fairness.

## Proofs

All proofs are checked by TLAPS with the SMT solver, Zenon and LS4.

**MessageFlowProofs** (assumption `FlowAssumption`): `TypeCorrect`, `PagesListOnce`
(`NoDuplicates`), `PagesMissNothing` (`NothingMissed`), `ErasureReachesPages`
(`ErasedIsHidden`), for any sets of conversations and messages and any number of pages and
threads. None is inductive alone. `IInv` adds that pages beyond `depth` are empty
(`StackOK`), that rows differ in key and random id and come from messages known to have been
received or sent (`RowsDistinct`), and that whatever a thread, the queue or a page holds of a
received message carries the key of its row as long as the row exists (`InHandKnown`,
`QueueKnown`, `PagesKnown`). The last is the heart: `delMsg` goes by key, `handleIncomingMsg`
by random id, and both agree only because of it. It is false of own messages, whose echo goes
by its random id. The same invariant gives `DeletionReachesTable` (`DeletedIsErased`).

`OneThreadKeepsOrder` (`ListOrder`) assumes `Receivers = 1`, as the configuration of
`flow_single` does; with several threads posts overtake one another. Three more invariants are
needed: messages go one path, in the order of their keys, from the thread's hand through the
queue to the pages (`OnePath`); a page gives each new entry a place behind all others
(`PlacesOK`); and what is still to come on a page is newer than what is listed (`NewerToCome`).

**FlowRefinementProofs** (`FlowAssumption`): `KeepsPromiseTheorem`, that `MessageFlow` implements
`LivePages` under the mapping above. `Init` maps to `Init`, and there is one lemma per kind of
step: most steps stutter, `saveMsg` is `Arrive`, `Deliver` of a message is `ComeUp`, a deletion
is `Forget`, `Kill` is `Die`. The invariant adds to `IInv` that a message is on its way only
once (`DueOnce`), so that it is not due any more when it has come up, and that it goes by one
key everywhere (`OneKey`), so that the event that deletes it finds it on every page.

**NotifyBridgeProofs** (`BridgeAssumption`): `TypeCorrect`, `StreamsGetEventsOnceInOrder`
(`OnceInOrder`), `RegisteredLosesNothing` (`LostOnlyUnregistered`), `StatusReachesQueue`
(`NetStatusNeverLost`), for any number of events and logins. `IInv` counts ports by the logins
that made them, says that every registered port is open and stays so, and orders the events of
a kind along their way: what a stream has had, before what is queued, before what a thread
holds, before what will be raised. The order rests on the model's premise that one thread
raises the events of a kind.

`ImplementsStreamsTheorem` (`ImplementsStreams`) has one lemma per kind of step: `Register` maps
to `Register`, `callback` to `Raise`, `listener` to `HandOn`, `Kill` to `Die`, and all others
stutter, `raise` and `Dart_PostCObject_DL` among them. That `HandOn` takes the oldest event that is
due needs `IInv`: what is queued of a kind is older than what a thread holds of it. In the other
direction `PromiseGivesOrder` proves that `EventStreams` alone implies `OnceInOrder`.

`Started` adds to `IInv` what a login has done before which step: no port of the login, and no
event, before the client works, and the home page only after the last port. `HomePageListens`
follows, that no kind of events is without a listener while the home page is shown, and
`StatusComesAfterLoginPage`, that the listener of the network status, whose port is the only one
registered before there is a page, never runs before the page has set what it uses.
`StatusNeverLeftBehind` is the part of `StatusSettles` that needs no fairness: the newest status
under way is the native one (`NewestLast`), so the status shown, once right, is wrong only while a
newer one is under way, or after the process was killed.

`BridgeDrivesFlow` proves that the bridge implements `MessageFlow` under the mapping above. The
queue of the image is a sequence of rows that has to be read off a queue with events of all
kinds; `QueueHasNoGaps` (`NoGap`) makes that possible: the queued events of a kind are consecutive,
up to the last one posted, so that the image is determined by its first and its last number. So
the order in which `MessageFlow` has logins, ports and posts happen is not assumed but proved, for
one receiving thread; what the pages do with the messages is proved of `MessageFlow` itself.

**KeepAliveProofs** (`KeepAliveAssumption`): `JobChainHolds` (`JobChain`), `TypeCorrect`,
`ConnectionsAreBounded` (`DeathsDoubleConnections`). The invariant of the first says what the
job is at each point of `onStartJob`: past its first step it has been scheduled again. The bound
on connections needs `ConnInv`: those that may still hear of a death are among those there are,
and both together are at most two to the number of deaths, since a death lets each of them hear
once and bind once more. That a power doubles when its exponent grows by one is a law the
provers do not know; `Doubling` takes it from the library theorem `FS_SUBSET` on the number of
subsets (in the library's own proof of that theorem the arithmetic of powers is left to the
reader). `StoppedStaysStoppedTheorem`: of an application the user has stopped nothing runs, and
nothing is left (a job, a service that was started or bound, the boot service) that one of the
actions needs to bring a part of it back.

**ChatListProofs** (`ChatListAssumption`): `TypeCorrect`, `ListFollowsTable` (`ListCurrent`),
`DisorderIsBounded` (`DisorderOnlyBelowPins`), for any number of conversations, messages and
pages. The list is the result of an insertion sort written as a recursive function, so what one
reading gives needs an induction over the conversations. The induction theorems of the library
have a predicate as a parameter, which the provers cannot instantiate; the lemma `Induction` puts
a set in its place and derives the step from a least counterexample, which the well-foundedness
of strict inclusion among finite sets provides (`FS_StrictSubsetOrderingWellFounded`, `WFMin`).
`ReadingCorrect` then says that a reading has the entries of the table, each once, with disorder
only below pinned entries, and `ReadInvariant` that whatever is shown was read so, and that it
was read from the table of this moment whenever the user looks and no event is under way.
`DisorderCrossesAPinTheorem` goes from neighbours to the whole list, by induction over the
distance: an entry above one with a newer message, however far, has a pinned entry with an
unpinned one right below it on the way there.

**VoiceRecorderProofs** (`RecorderAssumption`): `TypeCorrect`, `RecordingsAreTimed`
(`RecordingIsTimed`), `CountdownStaysInRange` (`CountdownInRange`), for any limit and any
number of presses. The strengthening `BelowLimit` says that while its own timer ticks a
recording is strictly below the limit: the tick that reaches the limit also ends the timer.
`FirstReleaseCancelsTheorem` says how far the promise goes that `recorder_cancel` refutes: a
recording that is sent although it was cancelled belongs to a second or later press, or had
reached its limit.

**PostFeedProofs** (`FeedAssumption`): all six properties of the run, for tables, pages, queues
and offsets of any size. `HiddenLeavesTheorem` needs that an older event which says that a
hidden post is visible has the newer one behind it, in the queue (`QueueOrder`) or on its way
to the snapshot (`SnapHidden`), and that a snapshot does not say both (`NoBoth`).
`TopIsOnItsWayTheorem` needs that only hidden posts are reported as not visible (`NoIsTrue`) and
that the first page holds the newest rows (`FirstPage`, by counting). For
`QuietFeedIsCompleteTheorem`, `QuietInv` says what a list that only its own pages have been
built into has of the posts that were there when it began: all that the offset has passed, all
that are newer than a listed one, and, with the page to be built next, a page more. The rows
shift while this goes on, but only away from the top, so that a page repeats posts and never
skips one; posts that came later have each their event (`NewOnItsWay`).
`QuietFeedIsInOrderTheorem` adds that such a page has only posts from before the list began,
if no more have come than fit on a page (`OrderInv`), so that all of them belong behind it.
`SettledFeedIsTheTableTheorem` puts these together, with the fact that nothing is listed that has
no row (`FromRows`): once a quiet list has settled, it is the table down to where it was scrolled.

**FriendsProofs** (`ContactsAssumption`, `SearchAssumption`, `FriendsAssumption`): `TypeCorrect`,
`ContactsCurrentTheorem`, `ShownIsFoundTheorem`, `OnlyLateAnswersMixTheorem`. The contacts page
is current because, whenever no thread holds a change, none is queued and none waits for a
frame, each part the load has read so far is that of the table (`LoadCurrent`); a change makes
this premise false, and only a new load makes it true again.
`SearchInv` bounds the answers under way: they are to the latest search, or were there when it
began.

Only model-checked are the liveness properties `EventuallyListed`, `StatusSettles`,
`BothRunAgain`, `RecordingEnds` and `ContactsFollow`, since no prover handles fairness and
`ENABLED`; of `StatusSettles` the safety part is proved. Every invariant and every other safety property of the passing runs is proved.

## Not modelled

- The native library, beyond what the code in `lib` relies on: only a header is available.
- The data layer: copying C structures into Dart objects has no state and no order. Messages
  and conversations are modelled where their ids matter.
- Widgets, themes, texts and routes.
- Replies: a reply page reads all replies of a post at once and replaces what it shows. The tab
  of one's own posts and the profile page run the code of `PostFeed` over other rows, and the
  profile page appends without a look at what is listed (the mutant `Fresh_NoCheck` is that).
- Groups: creating one, changing its members and showing them are synchronous calls followed by
  a new read. Quitting one is in `ChatList`.
- The page of new friends reads the table when it is opened, and `search_delegate.dart` searches
  demo routes, not users.
- The voice player and the card of a file copy the latest state or progress event; the Notice
  and Store buses have listeners in one case that never occurs; the search history is a list of
  strings.
- Most of the lines of C and C++ in the repository are headers of libraries (msgpack, SQLite,
  OpenSSL, fmt, asio, GnuTLS, the Dart API) under `android/third_sdk` and `lib/cpp/include`,
  which Freeman does not write and mostly does not call. The Kotlin, Swift and C++ runners of the
  platforms are generated by Flutter.

## Plan

1. *Done*: `MessageFlow` with its refinement of `LivePages`, `NotifyBridge`, `KeepAlive`,
   `ChatList`, `VoiceRecorder`, `PostFeed`, `Contacts`, `UserSearch` and `Friends`, with proofs of
   all their safety properties.
2. *Done*: `EventStreams`, which `NotifyBridge` implements, and the proof that `NotifyBridge`
   implements the part of `MessageFlow` below the pages.
3. An abstract feed that `PostFeed` implements as long as it is quiet;
   `SettledFeedIsTheTableTheorem` is its final state. The same for the contacts page, whose
   promise `ContactsCurrent` is.
4. The member list of a group, whose two loads fill one list.
