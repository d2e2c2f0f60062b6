------------------------- MODULE VoiceRecorderProofs -------------------------
(***************************************************************************)
(* The recording button, for any limit and any number of presses.          *)
(***************************************************************************)
EXTENDS VoiceRecorder, TLAPS

\* The conjuncts of TypeOK apart: the provers treat counters and flags best one
\* kind at a time.
Flags == /\ mounted \in BOOLEAN
         /\ held \in BOOLEAN
         /\ mic \in BOOLEAN
         /\ timed \in BOOLEAN
         /\ isRecording \in BOOLEAN
         /\ isCancel \in BOOLEAN

Gone == held \/ timed => mounted

Counters == /\ presses \in 0..MaxPresses
            /\ asking \in Nat /\ starting \in Nat /\ leaked \in Nat
            /\ asking + starting + leaked <= presses
            /\ duration \in 0..MaxDuration

Stopping == stopping \in [Label -> Nat]

Sent == sent \subseteq Label

\* While its own timer ticks, a recording with no lost timer is below the limit.
BelowLimit == isRecording /\ timed /\ leaked = 0 => duration < MaxSeconds

IInv == /\ Flags /\ Gone /\ Counters /\ Stopping /\ Sent
        /\ RecordingIsTimed
        /\ CountdownInRange
        /\ BelowLimit

LEMMA InitIInv == Init => IInv
<1> SUFFICES ASSUME Init
             PROVE  IInv
  OBVIOUS
<1> USE DEF Init
<1>1. Flags /\ Gone /\ Sent
  BY DEF Flags, Gone, Sent
<1>2. Counters
  BY RecorderAssumption DEF Counters
<1>3. Stopping
  BY DEF Stopping
<1>4. RecordingIsTimed /\ CountdownInRange /\ BelowLimit
  BY DEF RecordingIsTimed, CountdownInRange, BelowLimit
<1> QED
  BY <1>1, <1>2, <1>3, <1>4 DEF IInv

LEMMA NextIInv == IInv /\ [Next]_vars => IInv'
<1> SUFFICES ASSUME IInv, [Next]_vars
             PROVE  IInv'
  OBVIOUS
<1> USE RecorderAssumption DEF IInv
<1>1. CASE onLongPressStart
  <2>1. Flags'
    BY <1>1 DEF onLongPressStart, calls, timers, view, Flags
  <2>2. Gone'
    BY <1>1 DEF onLongPressStart, calls, timers, view, Flags, Gone
  <2>3. Counters'
    BY <1>1 DEF onLongPressStart, calls, timers, view, Flags, Counters
  <2>4. Stopping'
    BY <1>1 DEF onLongPressStart, calls, timers, view, Stopping
  <2>5. Sent'
    BY <1>1 DEF onLongPressStart, calls, timers, view, Sent
  <2>6. RecordingIsTimed'
    BY <1>1 DEF onLongPressStart, calls, timers, view, Flags, Gone, Stopping, RecordingIsTimed, Stops
  <2>7. CountdownInRange'
    BY <1>1 DEF onLongPressStart, calls, timers, view, Flags, Counters, CountdownInRange, BelowLimit
  <2>8. BelowLimit'
    BY <1>1 DEF onLongPressStart, calls, timers, view, Flags, Counters, CountdownInRange, BelowLimit
  <2> QED
    BY <2>1, <2>2, <2>3, <2>4, <2>5, <2>6, <2>7, <2>8
<1>2. CASE permission
  <2>1. Flags'
    BY <1>2 DEF permission, timers, view, Flags
  <2>2. Gone'
    BY <1>2 DEF permission, timers, view, Flags, Gone
  <2>3. Counters'
    <3>1. CASE starting' = starting
      BY <1>2, <3>1 DEF permission, timers, view, Counters
    <3>2. CASE starting' = starting + 1
      BY <1>2, <3>2 DEF permission, timers, view, Counters
    <3> QED
      BY <1>2, <3>1, <3>2 DEF permission
  <2>4. Stopping'
    BY <1>2 DEF permission, timers, view, Stopping
  <2>5. Sent'
    BY <1>2 DEF permission, timers, view, Sent
  <2>6. RecordingIsTimed'
    BY <1>2 DEF permission, timers, view, Flags, Gone, Stopping, RecordingIsTimed, Stops
  <2>7. CountdownInRange'
    BY <1>2 DEF permission, timers, view, Flags, Counters, CountdownInRange, BelowLimit
  <2>8. BelowLimit'
    BY <1>2 DEF permission, timers, view, Flags, Counters, CountdownInRange, BelowLimit
  <2> QED
    BY <2>1, <2>2, <2>3, <2>4, <2>5, <2>6, <2>7, <2>8
<1>3. CASE recordReturns
  <2>1. Flags'
    BY <1>3 DEF recordReturns, Flags
  <2>2. Gone'
    BY <1>3 DEF recordReturns, Flags, Gone
  <2>3. Counters'
    BY <1>3 DEF recordReturns, Flags, Counters
  <2>4. Stopping'
    BY <1>3 DEF recordReturns, Stopping
  <2>5. Sent'
    BY <1>3 DEF recordReturns, Sent
  <2>6. RecordingIsTimed'
    BY <1>3 DEF recordReturns, Flags, Gone, Stopping, RecordingIsTimed, Stops
  <2>7. CountdownInRange'
    BY <1>3 DEF recordReturns, Flags, Counters, CountdownInRange, BelowLimit
  <2>8. BelowLimit'
    BY <1>3 DEF recordReturns, Flags, Counters, CountdownInRange, BelowLimit
  <2> QED
    BY <2>1, <2>2, <2>3, <2>4, <2>5, <2>6, <2>7, <2>8
<1>4. CASE checkCancel
  <2>1. Flags'
    BY <1>4 DEF checkCancel, calls, timers, Flags
  <2>2. Gone'
    BY <1>4 DEF checkCancel, calls, timers, Flags, Gone
  <2>3. Counters'
    BY <1>4 DEF checkCancel, calls, timers, Flags, Counters
  <2>4. Stopping'
    BY <1>4 DEF checkCancel, calls, timers, Stopping
  <2>5. Sent'
    BY <1>4 DEF checkCancel, calls, timers, Sent
  <2>6. RecordingIsTimed'
    BY <1>4 DEF checkCancel, calls, timers, Flags, Gone, Stopping, RecordingIsTimed, Stops
  <2>7. CountdownInRange'
    BY <1>4 DEF checkCancel, calls, timers, Flags, Counters, CountdownInRange, BelowLimit
  <2>8. BelowLimit'
    BY <1>4 DEF checkCancel, calls, timers, Flags, Counters, CountdownInRange, BelowLimit
  <2> QED
    BY <2>1, <2>2, <2>3, <2>4, <2>5, <2>6, <2>7, <2>8
<1>5. CASE onLongPressEnd
  <2>1. Flags'
    BY <1>5 DEF onLongPressEnd, stopRecording, view, Label, Flags
  <2>2. Gone'
    BY <1>5 DEF onLongPressEnd, stopRecording, view, Label, Flags, Gone
  <2>3. Counters'
    BY <1>5 DEF onLongPressEnd, stopRecording, view, Label, Flags, Counters
  <2>4. Stopping'
    BY <1>5 DEF onLongPressEnd, stopRecording, view, Label, Stopping
  <2>5. Sent'
    BY <1>5 DEF onLongPressEnd, stopRecording, view, Label, Sent
  <2>6. RecordingIsTimed'
    BY <1>5 DEF onLongPressEnd, stopRecording, view, Label, Flags, Gone, Stopping, RecordingIsTimed, Stops
  <2>7. CountdownInRange'
    BY <1>5 DEF onLongPressEnd, stopRecording, view, Label, Flags, Counters, CountdownInRange, BelowLimit
  <2>8. BelowLimit'
    BY <1>5 DEF onLongPressEnd, stopRecording, view, Label, Flags, Counters, CountdownInRange, BelowLimit
  <2> QED
    BY <2>1, <2>2, <2>3, <2>4, <2>5, <2>6, <2>7, <2>8
<1>6. CASE tick
  <2>1. Flags'
    BY <1>6 DEF tick, stopRecording, Label, Flags
  <2>2. Gone'
    BY <1>6 DEF tick, stopRecording, Label, Flags, Gone
  <2>3. Counters'
    BY <1>6 DEF tick, stopRecording, Label, Flags, Counters
  <2>4. Stopping'
    BY <1>6 DEF tick, stopRecording, Label, Stopping
  <2>5. Sent'
    BY <1>6 DEF tick, stopRecording, Label, Sent
  <2>6. RecordingIsTimed'
    BY <1>6 DEF tick, stopRecording, Label, Flags, Gone, Stopping, RecordingIsTimed, Stops
  <2>7. CountdownInRange'
    BY <1>6 DEF tick, stopRecording, Label, Flags, Counters, CountdownInRange, BelowLimit
  <2>8. BelowLimit'
    BY <1>6 DEF tick, stopRecording, Label, Flags, Counters, CountdownInRange, BelowLimit
  <2> QED
    BY <2>1, <2>2, <2>3, <2>4, <2>5, <2>6, <2>7, <2>8
<1>7. ASSUME NEW l \in Label, stopReturns(l)
      PROVE  IInv'
  <2>1. Flags'
    BY <1>7 DEF stopReturns, Label, Flags
  <2>2. Gone'
    BY <1>7 DEF stopReturns, Label, Flags, Gone
  <2>3. Counters'
    BY <1>7 DEF stopReturns, Label, Flags, Counters
  <2>4. Stopping'
    BY <1>7 DEF stopReturns, Label, Stopping
  <2>5. Sent'
    BY <1>7 DEF stopReturns, Label, Sent
  <2>6. RecordingIsTimed'
    BY <1>7 DEF stopReturns, Label, Flags, Gone, Stopping, RecordingIsTimed, Stops
  <2>7. CountdownInRange'
    BY <1>7 DEF stopReturns, Label, Flags, Counters, CountdownInRange, BelowLimit
  <2>8. BelowLimit'
    BY <1>7 DEF stopReturns, Label, Flags, Counters, CountdownInRange, BelowLimit
  <2> QED
    BY <2>1, <2>2, <2>3, <2>4, <2>5, <2>6, <2>7, <2>8
<1>8. CASE dispose
  <2>1. Flags'
    BY <1>8 DEF dispose, calls, view, Flags
  <2>2. Gone'
    BY <1>8 DEF dispose, calls, view, Flags, Gone
  <2>3. Counters'
    BY <1>8 DEF dispose, calls, view, Flags, Counters
  <2>4. Stopping'
    BY <1>8 DEF dispose, calls, view, Stopping
  <2>5. Sent'
    BY <1>8 DEF dispose, calls, view, Sent
  <2>6. RecordingIsTimed'
    BY <1>8 DEF dispose, calls, view, Flags, Gone, Stopping, RecordingIsTimed, Stops
  <2>7. CountdownInRange'
    BY <1>8 DEF dispose, calls, view, Flags, Counters, CountdownInRange, BelowLimit
  <2>8. BelowLimit'
    BY <1>8 DEF dispose, calls, view, Flags, Counters, CountdownInRange, BelowLimit
  <2> QED
    BY <2>1, <2>2, <2>3, <2>4, <2>5, <2>6, <2>7, <2>8
<1>9. CASE UNCHANGED vars
  <2>1. Flags'
    BY <1>9 DEF vars, calls, timers, view, Flags
  <2>2. Gone'
    BY <1>9 DEF vars, calls, timers, view, Flags, Gone
  <2>3. Counters'
    BY <1>9 DEF vars, calls, timers, view, Flags, Counters
  <2>4. Stopping'
    BY <1>9 DEF vars, calls, timers, view, Stopping
  <2>5. Sent'
    BY <1>9 DEF vars, calls, timers, view, Sent
  <2>6. RecordingIsTimed'
    BY <1>9 DEF vars, calls, timers, view, Flags, Gone, Stopping, RecordingIsTimed, Stops
  <2>7. CountdownInRange'
    BY <1>9 DEF vars, calls, timers, view, Flags, Counters, CountdownInRange, BelowLimit
  <2>8. BelowLimit'
    BY <1>9 DEF vars, calls, timers, view, Flags, Counters, CountdownInRange, BelowLimit
  <2> QED
    BY <2>1, <2>2, <2>3, <2>4, <2>5, <2>6, <2>7, <2>8
<1> QED
  BY <1>1, <1>2, <1>3, <1>4, <1>5, <1>6, <1>7, <1>8, <1>9 DEF Next

LEMMA InvariantIInv == Spec => []IInv
  BY InitIInv, NextIInv, PTL DEF Spec

\* Every reachable state has its types, and what belongs to the button goes with it.
THEOREM TypeCorrect == Spec => []TypeOK
<1>1. IInv => TypeOK
  BY DEF IInv, TypeOK, Flags, Gone, Counters, Stopping, Sent
<1> QED
  BY <1>1, InvariantIInv, PTL

\* A recording that the button shows is timed or being stopped.
THEOREM RecordingsAreTimed == Spec => []RecordingIsTimed
<1>1. IInv => RecordingIsTimed
  BY DEF IInv
<1> QED
  BY <1>1, InvariantIInv, PTL

\* The countdown stays in its range unless a timer was lost.
THEOREM CountdownStaysInRange == Spec => []CountdownInRange
<1>1. IInv => CountdownInRange
  BY DEF IInv
<1> QED
  BY <1>1, InvariantIInv, PTL
-----------------------------------------------------------------------------
\* Until the second press there is one recording at most: before it nothing has
\* been recorded, once it runs no start is awaited any more, and a stop of it that
\* said "cancel" finds the flag still set, or the limit reached.
FirstPress ==
  presses <= 1 =>
    /\ presses = 0 => ~isRecording /\ ~mic /\ Stops = 0
    /\ isRecording \/ mic \/ Stops > 0 => asking = 0 /\ starting = 0
    /\ stopping["cancel"] > 0 /\ mic => (isCancel /\ ~held) \/ duration >= MaxSeconds

\* The promise "release to cancel" holds as far as this: a recording that is sent
\* although the button said so when it was stopped belongs to a later press, or had
\* reached its limit (_stopRecording, _startRecording).
FirstReleaseCancels ==
  [][("cancel" \in sent' /\ "cancel" \notin sent) => (presses > 1 \/ duration >= MaxSeconds)]_vars

LEMMA FirstPressStep ==
  ASSUME IInv, FirstPress, [Next]_vars
  PROVE  FirstPress'
<1> USE DEF Stops, Label
<1>0. /\ MaxSeconds \in Nat \ {0} /\ presses \in Nat /\ duration \in Nat
      /\ asking \in Nat /\ starting \in Nat /\ leaked \in Nat
      /\ asking + starting + leaked <= presses
      /\ stopping \in [Label -> Nat] /\ isRecording \in BOOLEAN /\ mic \in BOOLEAN
      /\ held \in BOOLEAN /\ isCancel \in BOOLEAN /\ (held => mounted)
  BY RecorderAssumption DEF IInv, Flags, Gone, Counters, Stopping
<1>1. CASE onLongPressStart
  BY <1>0, <1>1 DEF onLongPressStart, timers, view, FirstPress
<1>2. CASE permission
  <2>1. starting' \in Nat /\ asking' \in Nat /\ asking > 0
    BY <1>0, <1>2 DEF permission
  <2> QED
    BY <1>0, <1>2, <2>1 DEF permission, timers, view, FirstPress
<1>3. CASE recordReturns
  BY <1>0, <1>3 DEF recordReturns, FirstPress
<1>4. CASE checkCancel
  BY <1>0, <1>4 DEF checkCancel, calls, timers, FirstPress
<1>5. CASE onLongPressEnd
  BY <1>0, <1>5 DEF onLongPressEnd, stopRecording, view, FirstPress
<1>6. CASE tick
  BY <1>0, <1>6 DEF tick, stopRecording, FirstPress
<1>7. ASSUME NEW l \in Label, stopReturns(l)
      PROVE  FirstPress'
  BY <1>0, <1>7 DEF stopReturns, FirstPress
<1>8. CASE dispose
  BY <1>0, <1>8 DEF dispose, calls, view, FirstPress
<1>9. CASE UNCHANGED vars
  BY <1>9 DEF vars, calls, timers, view, FirstPress
<1> QED
  BY <1>1, <1>2, <1>3, <1>4, <1>5, <1>6, <1>7, <1>8, <1>9 DEF Next

\* Only a stop that returns sends, and only what _isCancel does not forbid then.
LEMMA SendsUncancelled ==
  ASSUME IInv, FirstPress, [Next]_vars, "cancel" \in sent', "cancel" \notin sent
  PROVE  presses > 1 \/ duration >= MaxSeconds
<1>1. PICK l \in Label : stopReturns(l)
  BY DEF Next, vars, calls, timers, view, onLongPressStart, permission, recordReturns, checkCancel,
       onLongPressEnd, tick, dispose
<1>2. l = "cancel" /\ mic /\ ~isCancel /\ stopping["cancel"] > 0
  BY <1>1 DEF stopReturns
<1>3. presses \in Nat
  BY DEF IInv, Counters
<1> QED
  BY <1>2, <1>3 DEF FirstPress

\* Whatever the finger, the permission and the recorder do in between, the first
\* release cancels.
THEOREM FirstReleaseCancelsTheorem == Spec => FirstReleaseCancels
<1> DEFINE Sends == "cancel" \in sent' /\ "cancel" \notin sent
           Late  == presses > 1 \/ duration >= MaxSeconds
<1>1. Init => FirstPress
  BY DEF Init, FirstPress, Stops, Label
<1>2. IInv /\ FirstPress /\ [Next]_vars => FirstPress'
  BY FirstPressStep
<1>3. IInv /\ FirstPress /\ [Next]_vars => [Sends => Late]_vars
  BY SendsUncancelled
<1> QED
  BY <1>1, <1>2, <1>3, InvariantIInv, PTL DEF Spec, FirstReleaseCancels
=============================================================================
