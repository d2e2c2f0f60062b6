---------------------------- MODULE VoiceRecorder ----------------------------
(***************************************************************************)
(* The button that records a voice message                                 *)
(* (ui/chatdetail/voice_record_buttion.dart), from the moment the chat     *)
(* page shows it until it is disposed.                                     *)
(*                                                                         *)
(* Everything runs on the one thread of the isolate; what interleaves are  *)
(* the awaits.  A start waits for the permission, then for the recorder; a *)
(* stop waits for the recorder.  Finger, timers and other calls go on      *)
(* meanwhile.  The recorder and the permission dialog are external: a      *)
(* start may be refused or fail, and a stop returns the path of what was   *)
(* recorded, or null if nothing was.                                       *)
(***************************************************************************)
EXTENDS Integers

CONSTANTS MaxSeconds,   \* the limit of a recording (60 in the code)
          MaxDuration,  \* bound: seconds counted
          MaxPresses,   \* bound: long presses
          MaxStops      \* bound: stops awaited when a timer ticks

ASSUME RecorderAssumption == /\ MaxSeconds \in Nat \ {0}
                             /\ MaxDuration \in Nat /\ MaxDuration > MaxSeconds
                             /\ MaxPresses \in Nat
                             /\ MaxStops \in Nat \ {0}

VARIABLES
  mounted,     \* the button is on the page
  held,        \* the finger is on it
  presses,     \* long presses so far
  asking,      \* calls of _startRecording that wait for the permission
  starting,    \* calls of _startRecording that wait for the recorder
  stopping,    \* calls of _stopRecording that wait for the recorder, by what the
               \* button said at the time: "cancel" or "send"
  mic,         \* the recorder records
  timed,       \* the timer in _timer ticks
  leaked,      \* timers that tick and that _timer no longer names
  duration,    \* _duration
  isRecording, \* _isRecording
  isCancel,    \* _isCancel
  sent         \* what the button said when the recordings sent were stopped

Label == {"cancel", "send"}

calls  == <<asking, starting, stopping>>
timers == <<timed, leaked>>
view   == <<duration, isRecording, isCancel>>
vars   == <<mounted, held, presses, calls, mic, timers, view, sent>>
-----------------------------------------------------------------------------
Init ==
  /\ mounted = TRUE
  /\ held = FALSE
  /\ presses = 0
  /\ asking = 0
  /\ starting = 0
  /\ stopping = [l \in Label |-> 0]
  /\ mic = FALSE
  /\ timed = FALSE
  /\ leaked = 0
  /\ duration = 0
  /\ isRecording = FALSE
  /\ isCancel = FALSE
  /\ sent = {}

Stops == stopping["cancel"] + stopping["send"]

\* onLongPressStart: _startRecording asks for the permission.
onLongPressStart ==
  /\ mounted
  /\ ~held
  /\ presses < MaxPresses
  /\ held' = TRUE
  /\ presses' = presses + 1
  /\ asking' = asking + 1
  /\ UNCHANGED <<mounted, starting, stopping, mic, timers, view, sent>>

\* The permission is granted, and record is called, or it is refused.
permission ==
  /\ asking > 0
  /\ asking' = asking - 1
  /\ starting' \in {starting, starting + 1}
  /\ UNCHANGED <<mounted, held, presses, stopping, mic, timers, view, sent>>

\* record returns, or throws and is caught, and _startRecording goes on all the
\* same: with a new timer in place of the one in _timer, whatever that does.
\* After dispose the new timer ticks, and setState throws.
recordReturns ==
  /\ starting > 0
  /\ starting' = starting - 1
  /\ mic' \in {mic, TRUE}
  /\ duration' = 0
  /\ isCancel' = FALSE
  /\ timed' = mounted
  /\ leaked' = IF timed \/ ~mounted THEN leaked + 1 ELSE leaked
  /\ isRecording' = (mounted \/ isRecording)
  /\ UNCHANGED <<mounted, held, presses, asking, stopping, sent>>

\* Mutant: the timer goes on ticking.
stopRecording_KeepsTimer ==
  IF isRecording
    THEN LET l == IF isCancel THEN "cancel" ELSE "send"
         IN  /\ stopping' = [stopping EXCEPT ![l] = @ + 1]
             /\ timed' = timed
    ELSE UNCHANGED <<stopping, timed>>

\* _stopRecording, up to its await.
stopRecording ==
  IF isRecording
    THEN LET l == IF isCancel THEN "cancel" ELSE "send"
         IN  /\ stopping' = [stopping EXCEPT ![l] = @ + 1]
             /\ timed' = FALSE
    ELSE UNCHANGED <<stopping, timed>>

\* onLongPressMoveUpdate, _checkCancel: the finger is in the cancel zone or not.
checkCancel ==
  /\ held
  /\ isCancel' \in BOOLEAN
  /\ UNCHANGED <<mounted, held, presses, calls, mic, timers, duration, isRecording, sent>>

onLongPressEnd ==
  /\ held
  /\ held' = FALSE
  /\ stopRecording
  /\ UNCHANGED <<mounted, presses, asking, starting, mic, leaked, view, sent>>

\* Mutant: at the limit the countdown starts over.
tick_StartsOver ==
  /\ mounted
  /\ timed \/ leaked > 0
  /\ duration < MaxDuration
  /\ duration' = IF duration + 1 >= MaxSeconds THEN 0 ELSE duration + 1
  /\ UNCHANGED <<mounted, held, presses, calls, mic, timers, isRecording, isCancel, sent>>

\* A timer ticks.  After dispose its setState throws.
tick ==
  /\ mounted
  /\ timed \/ leaked > 0
  /\ duration < MaxDuration
  /\ Stops < MaxStops
  /\ duration' = duration + 1
  /\ IF duration' >= MaxSeconds THEN stopRecording ELSE UNCHANGED <<stopping, timed>>
  /\ UNCHANGED <<mounted, held, presses, asking, starting, mic, leaked, isRecording,
                 isCancel, sent>>

\* Mutant: what is cancelled returns early.
stopReturns_Early(l) ==
  /\ stopping[l] > 0
  /\ stopping' = [stopping EXCEPT ![l] = @ - 1]
  /\ mic' = FALSE
  /\ IF mic /\ ~isCancel
       THEN /\ sent' = sent \union {l}
            /\ mounted' = FALSE
            /\ held' = FALSE
            /\ timed' = FALSE
            /\ isRecording' = FALSE
            /\ duration' = 0
       ELSE UNCHANGED <<sent, mounted, held, timed, isRecording, duration>>
  /\ UNCHANGED <<presses, asking, starting, leaked, isCancel>>

\* The recorder has stopped, and _stopRecording goes on: it sends what was
\* recorded if _isCancel is not set now, whereupon the page takes the button
\* away, and the button forgets the recording.
stopReturns(l) ==
  /\ stopping[l] > 0
  /\ stopping' = [stopping EXCEPT ![l] = @ - 1]
  /\ mic' = FALSE
  /\ IF mic /\ ~isCancel
       THEN /\ sent' = sent \union {l}
            /\ mounted' = FALSE
            /\ held' = FALSE
            /\ timed' = FALSE
       ELSE UNCHANGED <<sent, mounted, held, timed>>
  /\ isRecording' = (~mounted /\ isRecording)
  /\ duration' = IF mounted THEN 0 ELSE duration
  /\ UNCHANGED <<presses, asking, starting, leaked, isCancel>>

\* Mutant: dispose does not cancel the timer.
dispose_KeepsTimer ==
  /\ mounted
  /\ mounted' = FALSE
  /\ held' = FALSE
  /\ mic' \in {mic, FALSE}
  /\ UNCHANGED <<presses, calls, timers, view, sent>>

\* The user hides the button (_toggleRecorder) or leaves the page.  Disposing of
\* the recorder's controller may or may not stop the recorder.
dispose ==
  /\ mounted
  /\ mounted' = FALSE
  /\ held' = FALSE
  /\ timed' = FALSE
  /\ mic' \in {mic, FALSE}
  /\ UNCHANGED <<presses, calls, leaked, view, sent>>

Next ==
  \/ onLongPressStart
  \/ permission
  \/ recordReturns
  \/ checkCancel
  \/ onLongPressEnd
  \/ tick
  \/ \E l \in Label : stopReturns(l)
  \/ dispose

Spec == Init /\ [][Next]_vars

\* Timers tick, and the recorder answers.  The user owes nothing.
Fairness == WF_vars(tick) /\ \A l \in Label : WF_vars(stopReturns(l))

FairSpec == Spec /\ Fairness
-----------------------------------------------------------------------------
\* No more calls and lost timers than presses; a button that is not there is not
\* held, and its timer does not tick.
TypeOK ==
  /\ mounted \in BOOLEAN
  /\ held \in BOOLEAN
  /\ held \/ timed => mounted
  /\ presses \in 0..MaxPresses
  /\ asking \in Nat /\ starting \in Nat /\ leaked \in Nat
  /\ asking + starting + leaked <= presses
  /\ stopping \in [Label -> Nat]
  /\ mic \in BOOLEAN
  /\ timed \in BOOLEAN
  /\ duration \in 0..MaxDuration
  /\ isRecording \in BOOLEAN
  /\ isCancel \in BOOLEAN
  /\ sent \subseteq Label

\* A recording that the button shows has a timer that will end it, or is being
\* ended: no order of presses, releases and late answers leaves the button
\* recording without a limit (_startRecording, _stopRecording).
RecordingIsTimed == isRecording /\ mounted => timed \/ Stops > 0

\* The countdown stays above zero as long as no timer was lost to a second start
\* (_startRecording line 59, _formatDuration).
CountdownInRange == isRecording /\ leaked = 0 => duration <= MaxSeconds

\* Every recording that the button shows ends in the end, even if the finger is
\* never lifted (the limit in _startRecording lines 64 to 66).
RecordingEnds == (isRecording /\ mounted) ~> (~isRecording \/ ~mounted)
-----------------------------------------------------------------------------
\* What the code says of itself and does not do.

\* voice_record_buttion.dart line 151, "release to cancel": a recording that is
\* stopped while the button says so is not sent.
ReleaseCancels == "cancel" \notin sent
=============================================================================
