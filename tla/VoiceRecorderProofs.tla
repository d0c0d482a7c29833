------------------------- MODULE VoiceRecorderProofs -------------------------
(***************************************************************************)
(* The safety of the record button, for any number of presses, seconds and *)
(* receivers. VoiceInv adds to the properties what ties the press in       *)
(* progress to the file on disk: nothing it has sent is outgoing yet, and  *)
(* once it records, audioUrl names its file.                               *)
(***************************************************************************)
EXTENDS VoiceRecorder, SequenceTheorems, TLAPS

\* The press in progress is the latest one and was made in the chat on screen.
HeldInChat ==
    touch => /\ Len(presses) > 0
             /\ receiver \in Receivers
             /\ presses[Len(presses)] = receiver
             /\ isSwiped => Len(presses) \in cancelled

\* Recordings and outgoing messages belong to presses made, the outgoing ones
\* to finished presses.
PressesMade ==
    /\ \A s \in Seconds : contents[s] <= Len(presses)
    /\ \A m \in Outgoing : m.press <= Len(presses)
    /\ touch => \A m \in Outgoing : m.press < Len(presses)

\* Before its sound has ended a press has recorded nothing; afterwards, what it
\* has recorded is in the file audioUrl names.
FileOfPress ==
    /\ didFinishPlaying => \A s \in Seconds : contents[s] # Len(presses)
    /\ (touch /\ \E s \in Seconds : contents[s] = Len(presses)) =>
          audioUrl \in Seconds /\ contents[audioUrl] = Len(presses)

VoiceInv == /\ TypeOK /\ StartsOnlyWhileHeld /\ MicrophoneOff /\ SendsOwnRecording
            /\ AtMostOnce /\ HeldInChat /\ PressesMade /\ FileOfPress

-----------------------------------------------------------------------------
LEMMA PressNumbers ==
    ASSUME TypeOK
    PROVE  /\ Len(presses) \in Nat /\ Len(presses) \in 0..MaxPresses
           /\ Presses \subseteq Nat /\ 0 \notin Presses
           /\ \A s \in Seconds : contents[s] \in Nat
           /\ \A m \in Outgoing : m.press \in Presses /\ m.recording \in Presses
                                  /\ m.to \in Receivers
<1>1. Len(presses) \in Nat /\ Len(presses) \in 0..MaxPresses
  BY LenProperties, PressesAssumption DEF TypeOK
<1>2. Presses \subseteq Nat /\ 0 \notin Presses
  BY PressesAssumption DEF Presses
<1>3. \A s \in Seconds : contents[s] \in Nat
  <2>1. contents \in [Seconds -> Presses \cup {Nil}] /\ Nil \in Nat
    BY DEF TypeOK, Nil
  <2> QED
    BY Zenon, <1>2, <2>1
<1>4. \A i \in 1..Len(sent) : sent[i] \in AudioMessage
  BY ElementOfSeq DEF TypeOK
<1>5. \A m \in Outgoing : m \in Upload \/ m \in AudioMessage
  BY <1>4 DEF TypeOK, Outgoing
<1>6. \A m \in Outgoing : m.press \in Presses /\ m.recording \in Presses
                          /\ m.to \in Receivers
  BY <1>5 DEF Upload, AudioMessage
<1> QED
  BY <1>1, <1>2, <1>3, <1>6

LEMMA VoiceInit == Init => VoiceInv
<1> SUFFICES ASSUME Init PROVE VoiceInv
  OBVIOUS
<1>0. \A S : <<>> \in Seq(S)
  BY EmptySeq
<1>1. Len(presses) = 0 /\ Len(sent) = 0 /\ Outgoing = {}
  BY DEF Init, Outgoing
<1>2. TypeOK
  <2>1. presses \in Seq(Receivers) /\ sent \in Seq(AudioMessage)
    BY <1>0 DEF Init
  <2>2. 1 \in Seconds /\ 0 <= MaxPresses
    BY PressesAssumption, SecondsAssumption DEF Seconds
  <2> QED
    BY Zenon, <1>1, <2>1, <2>2 DEF Init, TypeOK
<1>3. StartsOnlyWhileHeld /\ MicrophoneOff /\ SendsOwnRecording
  BY <1>1 DEF Init, StartsOnlyWhileHeld, MicrophoneOff, SendsOwnRecording
<1>4. HeldInChat /\ PressesMade /\ FileOfPress
  BY <1>1 DEF Init, HeldInChat, PressesMade, FileOfPress, Nil
<1>5. AtMostOnce
  BY <1>1 DEF Init, AtMostOnce
<1> QED
  BY <1>2, <1>3, <1>4, <1>5 DEF VoiceInv

\* The user presses the button: a new press, with nothing recorded or sent.
LEMMA StepTouchDown ==
    ASSUME VoiceInv, onTouchDown
    PROVE  VoiceInv'
<1>0. TypeOK
  BY DEF VoiceInv
<1>1. /\ ~touch /\ touch' /\ ~isSwiped' /\ didFinishPlaying' = TRUE /\ touch' = TRUE /\ isSwiped' = FALSE
      /\ receiver # Nil /\ Len(presses) < MaxPresses
      /\ presses' = Append(presses, receiver)
      /\ UNCHANGED <<receiver, now, cancelled, audioUrl, audioRecorder, capturing,
                     contents, finishes, uploads, sent>>
  BY DEF onTouchDown, recorderVars
<1>2. presses \in Seq(Receivers) /\ receiver \in Receivers
  BY <1>0, <1>1 DEF TypeOK
<1>3. /\ presses' \in Seq(Receivers) /\ Len(presses') = Len(presses) + 1
      /\ \A i \in 1..Len(presses) : presses'[i] = presses[i]
      /\ presses'[Len(presses) + 1] = receiver
  BY <1>1, <1>2, AppendProperties
<1>4. /\ Len(presses) \in Nat
      /\ Presses \subseteq Nat /\ 0 \notin Presses
      /\ \A s \in Seconds : contents[s] \in Nat
      /\ \A m \in Outgoing : m.press \in Presses
  BY <1>0, PressNumbers
<1>5. Outgoing' = Outgoing
  BY <1>1 DEF Outgoing
<1>6. /\ \A s \in Seconds : contents[s] <= Len(presses)
      /\ \A m \in Outgoing : m.press <= Len(presses)
  BY DEF VoiceInv, PressesMade
<1>7. TypeOK'
  <2>1. Len(presses') <= MaxPresses
    BY <1>1, <1>3, <1>4, PressesAssumption
  <2> QED
    BY Zenon, <1>0, <1>1, <1>3, <2>1 DEF TypeOK
<1>8. StartsOnlyWhileHeld'
  BY <1>1 DEF StartsOnlyWhileHeld
<1>9. MicrophoneOff'
  BY <1>1 DEF VoiceInv, MicrophoneOff
<1>10. SendsOwnRecording'
  <2>1. \A m \in Outgoing : m.press \in 1..Len(presses)
    <3> TAKE m \in Outgoing
    <3>1. m.press \in Presses /\ m.press <= Len(presses)
      BY <1>4, <1>6
    <3> QED
      BY <1>4, <3>1, PressesAssumption DEF Presses
  <2> QED
    BY <1>1, <1>3, <1>5, <2>1 DEF VoiceInv, SendsOwnRecording
<1>11. HeldInChat'
  BY <1>1, <1>2, <1>3, <1>4 DEF HeldInChat
<1>12. PressesMade'
  <2>1. \A s \in Seconds : contents[s] <= Len(presses) + 1
    BY <1>4, <1>6
  <2>2. \A m \in Outgoing : m.press < Len(presses) + 1 /\ m.press <= Len(presses) + 1
    <3> TAKE m \in Outgoing
    <3>1. m.press \in Nat /\ m.press <= Len(presses)
      BY Zenon, <1>4, <1>6
    <3> QED
      BY <1>4, <3>1
  <2> QED
    BY <1>1, <1>3, <1>5, <2>1, <2>2 DEF PressesMade
<1>13. FileOfPress'
  BY <1>1, <1>3, <1>4, <1>6 DEF FileOfPress
<1>14. AtMostOnce'
  BY <1>1 DEF VoiceInv, AtMostOnce
<1> QED
  BY <1>7, <1>8, <1>9, <1>10, <1>11, <1>12, <1>13, <1>14 DEF VoiceInv

\* The start sound ends and the recording starts, or fails to.
LEMMA StepStart ==
    ASSUME VoiceInv, audioPlayerDidFinishPlaying
    PROVE  VoiceInv'
<1>0. TypeOK
  BY DEF VoiceInv
<1>1. /\ didFinishPlaying /\ didFinishPlaying' = FALSE
      /\ audioUrl' = now
      /\ UNCHANGED <<receiver, now, presses, cancelled, touch, isSwiped, finishes,
                     uploads, sent>>
      /\ \/ audioRecorder' \in {Nil, now} /\ capturing' = FALSE /\ UNCHANGED contents
         \/ /\ audioRecorder' = now /\ capturing' = TRUE
            /\ contents' = [contents EXCEPT ![now] = Len(presses)]
  BY DEF audioPlayerDidFinishPlaying, startRecording
<1>2. touch /\ ~isSwiped /\ receiver # Nil
  BY <1>1 DEF VoiceInv, StartsOnlyWhileHeld
<1>3. Len(presses) > 0 /\ Len(presses) \in Nat /\ Len(presses) \in Presses
  BY <1>0, <1>2, PressNumbers DEF VoiceInv, HeldInChat, Presses
<1>4. now \in Seconds /\ now # Nil /\ contents \in [Seconds -> Presses \cup {Nil}]
  BY <1>0, SecondsAssumption DEF TypeOK, Seconds, Nil
<1>5. Outgoing' = Outgoing /\ \A m \in Outgoing : m.press < Len(presses) /\ m.press \in Nat
  BY <1>0, <1>1, <1>2, PressNumbers DEF Outgoing, VoiceInv, PressesMade
<1>6. \A s \in Seconds : contents[s] # Len(presses) /\ contents[s] <= Len(presses)
  BY <1>1 DEF VoiceInv, FileOfPress, PressesMade
<1>7. /\ contents' \in [Seconds -> Presses \cup {Nil}]
      /\ \A s \in Seconds : \/ contents'[s] = contents[s]
                            \/ s = now /\ contents'[s] = Len(presses)
  BY <1>1, <1>3, <1>4
<1>8. capturing' => audioRecorder' = now /\ contents'[now] = Len(presses)
  BY <1>1, <1>4
<1>9. TypeOK'
  BY Zenon, <1>0, <1>1, <1>4, <1>7 DEF TypeOK
<1>10. StartsOnlyWhileHeld' /\ MicrophoneOff' /\ HeldInChat'
  BY <1>1, <1>2, <1>8 DEF StartsOnlyWhileHeld, MicrophoneOff, VoiceInv, HeldInChat
<1>11. SendsOwnRecording'
  BY <1>1, <1>5, <1>7 DEF VoiceInv, SendsOwnRecording
<1>12. PressesMade'
  BY <1>1, <1>3, <1>5, <1>6, <1>7 DEF VoiceInv, PressesMade
<1>13. FileOfPress'
  BY <1>1, <1>4, <1>6, <1>7, <1>8 DEF FileOfPress
<1>14. AtMostOnce'
  BY <1>1 DEF VoiceInv, AtMostOnce
<1> QED
  BY <1>9, <1>10, <1>11, <1>12, <1>13, <1>14 DEF VoiceInv

\* A press is cancelled: by a swipe, by the system, or by leaving the screen.
LEMMA StepCancel ==
    ASSUME VoiceInv, onSwipe \/ onTouchCancelled \/ tappedOnBackButton
    PROVE  VoiceInv'
<1>0. TypeOK
  BY DEF VoiceInv
<1>1. /\ didFinishPlaying' = FALSE
      /\ UNCHANGED <<now, presses, audioUrl, audioRecorder, capturing, contents,
                     finishes, uploads, sent>>
      /\ touch' \in {touch, FALSE} /\ isSwiped' \in BOOLEAN
      /\ cancelled' = IF touch THEN cancelled \cup {Len(presses)} ELSE cancelled
      /\ receiver' \in {receiver, Nil}
      /\ touch' => receiver' = receiver /\ touch' = touch
  BY Zenon DEF onSwipe, onTouchCancelled, tappedOnBackButton, TouchCancelled, recorderVars
<1>2. touch => Len(presses) \in Presses
  BY <1>0, PressNumbers DEF VoiceInv, HeldInChat, Presses
<1>3. Outgoing' = Outgoing
  BY <1>1 DEF Outgoing
<1>4. TypeOK'
  BY Zenon, <1>0, <1>1, <1>2 DEF TypeOK
<1>5. StartsOnlyWhileHeld' /\ MicrophoneOff' /\ HeldInChat'
  BY <1>1 DEF VoiceInv, StartsOnlyWhileHeld, MicrophoneOff, HeldInChat
<1>6. SendsOwnRecording' /\ PressesMade' /\ FileOfPress' /\ AtMostOnce'
  BY <1>1, <1>3 DEF VoiceInv, SendsOwnRecording, PressesMade, FileOfPress, AtMostOnce
<1> QED
  BY <1>4, <1>5, <1>6 DEF VoiceInv

\* The finger is lifted. What is uploaded comes from the file audioUrl names.
LEMMA StepTouchUp ==
    ASSUME VoiceInv, onTouchUp
    PROVE  VoiceInv'
<1>0. TypeOK
  BY DEF VoiceInv
<1>1. /\ touch /\ touch' = FALSE
      /\ UNCHANGED <<receiver, now, presses, cancelled, audioUrl, contents, sent>>
  BY DEF onTouchUp, onFinished, recorderVars
<1>2. /\ Len(presses) > 0 /\ Len(presses) \in Presses /\ Len(presses) \in Nat
      /\ receiver \in Receivers /\ presses[Len(presses)] = receiver
  BY <1>0, <1>1, PressNumbers DEF VoiceInv, HeldInChat, Presses
<1>3. CASE isSwiped
  <2>1. UNCHANGED <<isSwiped, didFinishPlaying, audioRecorder, capturing, finishes, uploads>>
    BY <1>3 DEF onTouchUp, onFinished, recorderVars
  <2>2. Outgoing' = Outgoing
    BY <1>1, <2>1 DEF Outgoing
  <2>3. ~didFinishPlaying /\ Len(presses) \in cancelled
    BY <1>1, <1>3 DEF VoiceInv, StartsOnlyWhileHeld, HeldInChat
  <2>4. TypeOK'
    BY Zenon, <1>0, <1>1, <2>1 DEF TypeOK
  <2>5. StartsOnlyWhileHeld' /\ MicrophoneOff' /\ HeldInChat'
    BY <1>1, <2>1, <2>3 DEF VoiceInv, StartsOnlyWhileHeld, MicrophoneOff, HeldInChat
  <2>6. SendsOwnRecording' /\ PressesMade' /\ FileOfPress' /\ AtMostOnce'
    BY <1>1, <2>1, <2>2, <2>3 DEF VoiceInv, SendsOwnRecording, PressesMade, FileOfPress,
                                  AtMostOnce
  <2> QED
    BY <2>4, <2>5, <2>6 DEF VoiceInv
<1>4. CASE ~isSwiped
  <2> DEFINE u == [press |-> Len(presses), recording |-> contents[audioUrl],
                   to |-> receiver, stage |-> "putData"]
  <2>1. /\ isSwiped' = FALSE /\ didFinishPlaying' = FALSE
        /\ audioRecorder' = Nil /\ capturing' = FALSE
        /\ finishes' = IF capturing THEN finishes + 1 ELSE finishes
        /\ uploads' = IF audioUrl = Nil \/ contents[audioUrl] = Nil THEN uploads
                      ELSE uploads \cup {u}
    BY <1>4 DEF onTouchUp, onFinished, finishRecording, uploadFileOnServer
  <2>2. uploads' # uploads =>
           /\ audioUrl \in Seconds /\ contents[audioUrl] \in Presses
           /\ u \in Upload
    BY <1>0, <1>2, <2>1 DEF TypeOK, Upload
  <2>3. uploads' \in {uploads, uploads \cup {u}}
    BY <2>1
  <2>4. u.press = Len(presses) /\ u.to = receiver /\ u.recording = contents[audioUrl]
    OBVIOUS
  <2> HIDE DEF u
  <2>5. \A m \in Outgoing' : m \in Outgoing \/ (m = u /\ uploads' # uploads)
    BY <1>1, <2>3 DEF Outgoing
  <2>6. TypeOK'
    <3>1. uploads' \subseteq Upload
      BY <1>0, <2>2, <2>3 DEF TypeOK
    <3>2. finishes' \in Nat
      BY <1>0, <2>1 DEF TypeOK
    <3> QED
      BY Zenon, <1>0, <1>1, <2>1, <3>1, <3>2 DEF TypeOK
  <2>7. StartsOnlyWhileHeld' /\ MicrophoneOff' /\ HeldInChat' /\ FileOfPress'
    BY <1>1, <2>1 DEF StartsOnlyWhileHeld, MicrophoneOff, HeldInChat, FileOfPress
  <2>8. SendsOwnRecording'
    BY <1>1, <1>2, <2>4, <2>5 DEF VoiceInv, SendsOwnRecording, FileOfPress
  <2>9. PressesMade'
    <3>1. Len(presses) <= Len(presses)
      BY <1>2
    <3> QED
      BY <1>1, <2>4, <2>5, <3>1 DEF VoiceInv, PressesMade
  <2>10. AtMostOnce'
    <3>1. \A m \in Outgoing : m.press # Len(presses)
      BY <1>0, <1>1, <1>2, PressNumbers DEF VoiceInv, PressesMade
    <3>2. /\ \A v \in uploads : v.press # u.press
          /\ \A i \in 1..Len(sent) : sent[i].press # u.press
      BY <2>4, <3>1 DEF Outgoing
    <3> QED
      BY <1>1, <2>3, <3>2 DEF VoiceInv, AtMostOnce
  <2> QED
    BY <2>6, <2>7, <2>8, <2>9, <2>10 DEF VoiceInv
<1> QED
  BY <1>3, <1>4

\* An upload moves on, ends, or is sent: the message keeps what it carries.
LEMMA StepUpload ==
    ASSUME VoiceInv, NEW u \in uploads, NEW ok \in BOOLEAN,
           putDataDone(u, ok) \/ downloadURLDone(u, ok)
    PROVE  VoiceInv'
<1>0. TypeOK
  BY DEF VoiceInv
<1>1. UNCHANGED <<receiver, now, presses, cancelled, touch, isSwiped, didFinishPlaying,
                  audioUrl, audioRecorder, capturing, contents, finishes>>
  BY DEF putDataDone, downloadURLDone, viewVars, recorderVars
<1>2. u \in Upload /\ u \in Outgoing /\ sent \in Seq(AudioMessage) /\ uploads \subseteq Upload
  BY <1>0 DEF TypeOK, Outgoing
<1>3. /\ uploads' \subseteq Upload /\ sent' \in Seq(AudioMessage)
      /\ \A m \in Outgoing' : \E x \in Outgoing :
            m.press = x.press /\ m.recording = x.recording /\ m.to = x.to
      /\ AtMostOnce'
  <2>1. CASE putDataDone(u, ok)
    <3> DEFINE v == [u EXCEPT !.stage = "downloadURL"]
    <3>1. v \in Upload /\ v.press = u.press /\ v.recording = u.recording /\ v.to = u.to
      BY <1>2 DEF Upload
    <3>2. uploads' \subseteq uploads \cup {v} /\ sent' = sent
      BY <2>1 DEF putDataDone
    <3> HIDE DEF v
    <3>3. \A m \in Outgoing' : m \in Outgoing \/ m = v
      BY <3>2 DEF Outgoing
    <3>4. uploads' \subseteq (uploads \ {u}) \cup {v}
      BY <2>1 DEF putDataDone, v
    <3>5. AtMostOnce'
      BY <3>1, <3>2, <3>4 DEF VoiceInv, AtMostOnce
    <3> QED
      BY <1>2, <3>1, <3>2, <3>3, <3>5
  <2>2. CASE downloadURLDone(u, ok)
    <3> DEFINE v == [press |-> u.press, recording |-> u.recording, to |-> u.to]
    <3>1. v \in AudioMessage /\ v.press = u.press /\ v.recording = u.recording /\ v.to = u.to
      BY <1>2 DEF Upload, AudioMessage
    <3>2. uploads' \subseteq uploads /\ sent' \in {sent, Append(sent, v)}
      BY <2>2 DEF downloadURLDone
    <3> HIDE DEF v
    <3>3. /\ Append(sent, v) \in Seq(AudioMessage)
          /\ Len(Append(sent, v)) = Len(sent) + 1 /\ Len(sent) \in Nat
          /\ \A i \in 1..Len(sent) : Append(sent, v)[i] = sent[i]
          /\ Append(sent, v)[Len(sent) + 1] = v
      BY <1>2, <3>1, AppendProperties, LenProperties
    <3>4. \A i \in 1..(Len(sent) + 1) : i \in 1..Len(sent) \/ i = Len(sent) + 1
      BY <3>3
    <3>5. \A i \in 1..Len(sent') : sent'[i] = v \/ \E j \in 1..Len(sent) : sent'[i] = sent[j]
      BY <3>2, <3>3, <3>4
    <3>6. \A m \in Outgoing' : m \in Outgoing \/ m = v
      BY <3>2, <3>5 DEF Outgoing
    <3>7. uploads' = uploads \ {u}
      BY <2>2 DEF downloadURLDone
    <3>8. AtMostOnce'
      <4>1. CASE sent' = sent
        BY <3>7, <4>1 DEF VoiceInv, AtMostOnce
      <4>2. CASE sent' = Append(sent, v)
        <5>1. \A i \in 1..Len(sent) : sent[i].press # v.press
          BY <3>1 DEF VoiceInv, AtMostOnce
        <5>2. \A w \in uploads' : w.press # v.press
          BY <3>1, <3>7 DEF VoiceInv, AtMostOnce
        <5>3. \A i, j \in 1..Len(sent') : sent'[i].press = sent'[j].press => i = j
          BY <3>3, <3>4, <4>2, <5>1 DEF VoiceInv, AtMostOnce
        <5>4. \A w \in uploads' : \A i \in 1..Len(sent') : w.press # sent'[i].press
          BY <3>3, <3>4, <3>7, <4>2, <5>2 DEF VoiceInv, AtMostOnce
        <5> QED
          BY <3>7, <5>3, <5>4 DEF VoiceInv, AtMostOnce
      <4> QED
        BY <3>2, <4>1, <4>2
    <3> QED
      BY <1>2, <3>1, <3>2, <3>3, <3>6, <3>8
  <2> QED
    BY <2>1, <2>2
<1>4. TypeOK'
  BY <1>0, <1>1, <1>3 DEF TypeOK
<1>5. StartsOnlyWhileHeld' /\ MicrophoneOff' /\ HeldInChat' /\ FileOfPress'
  BY <1>1 DEF VoiceInv, StartsOnlyWhileHeld, MicrophoneOff, HeldInChat, FileOfPress
<1>6. SendsOwnRecording' /\ PressesMade'
  BY <1>1, <1>3 DEF VoiceInv, SendsOwnRecording, PressesMade
<1> QED
  BY <1>3, <1>4, <1>5, <1>6 DEF VoiceInv

\* The recorder stops or reports, time passes, a chat is opened.
LEMMA StepOther ==
    ASSUME VoiceInv,
           \/ Interrupted
           \/ \E flag \in BOOLEAN : audioRecorderDidFinishRecording(flag)
           \/ Tick
           \/ \E r \in Receivers : viewDidLoad(r)
           \/ UNCHANGED vars
    PROVE  VoiceInv'
<1>0. TypeOK
  BY DEF VoiceInv
<1>1. /\ UNCHANGED <<presses, cancelled, touch, didFinishPlaying, audioUrl, contents,
                     uploads, sent>>
      /\ capturing' => capturing /\ audioRecorder' = audioRecorder
      /\ capturing' \in BOOLEAN /\ audioRecorder' \in {audioRecorder, Nil}
      /\ \/ receiver' = receiver /\ isSwiped' = isSwiped
         \/ receiver = Nil /\ receiver' \in Receivers /\ isSwiped' = FALSE
  <2>0. capturing \in BOOLEAN
    BY <1>0 DEF TypeOK
  <2>1. CASE Interrupted
    BY Zenon, <2>0, <2>1 DEF Interrupted, viewVars
  <2>2. CASE \E flag \in BOOLEAN : audioRecorderDidFinishRecording(flag)
    BY Zenon, <2>0, <2>2 DEF audioRecorderDidFinishRecording, viewVars
  <2>3. CASE Tick \/ UNCHANGED vars
    BY <2>0, <2>3 DEF Tick, vars, viewVars, recorderVars
  <2>4. CASE \E r \in Receivers : viewDidLoad(r)
    BY <2>0, <2>4 DEF viewDidLoad, recorderVars
  <2> QED
    BY Zenon, <2>1, <2>2, <2>3, <2>4
<1>2. now' \in Seconds /\ finishes' \in Nat
  <2>1. now' \in {now, now + 1} /\ (now' # now => now < MaxSeconds)
    BY DEF Interrupted, audioRecorderDidFinishRecording, Tick, viewDidLoad, vars
  <2>2. \/ finishes' = finishes
        \/ finishes' = finishes + 1
        \/ finishes > 0 /\ finishes' = finishes - 1
    BY DEF Interrupted, audioRecorderDidFinishRecording, Tick, viewDidLoad, vars,
           recorderVars
  <2>3. now \in Seconds /\ finishes \in Nat
    BY <1>0 DEF TypeOK
  <2> QED
    BY <2>1, <2>2, <2>3, SecondsAssumption DEF Seconds
<1>3. Outgoing' = Outgoing
  BY <1>1 DEF Outgoing
<1>4. TypeOK'
  BY Zenon, <1>0, <1>1, <1>2 DEF TypeOK
<1>5. StartsOnlyWhileHeld' /\ MicrophoneOff'
  BY <1>1 DEF VoiceInv, StartsOnlyWhileHeld, MicrophoneOff
<1>6. HeldInChat'
  <2>1. Nil \notin Receivers
    BY ReceiversAssumption DEF Nil
  <2> QED
    BY <1>1, <2>1 DEF VoiceInv, HeldInChat
<1>7. SendsOwnRecording' /\ PressesMade' /\ FileOfPress' /\ AtMostOnce'
  BY <1>1, <1>3 DEF VoiceInv, SendsOwnRecording, PressesMade, FileOfPress, AtMostOnce
<1> QED
  BY <1>4, <1>5, <1>6, <1>7 DEF VoiceInv

LEMMA VoiceStep == VoiceInv /\ [Next]_vars => VoiceInv'
<1> SUFFICES ASSUME VoiceInv, [Next]_vars PROVE VoiceInv'
  OBVIOUS
<1> QED
  BY StepTouchDown, StepStart, StepCancel, StepTouchUp, StepUpload, StepOther DEF Next

\* VoiceInv is inductive.
THEOREM VoiceInvariant == Spec => []VoiceInv
BY VoiceInit, VoiceStep, PTL DEF Spec

\* The variables of the record button have their types: only a press can be
\* recorded or sent, and a recorder captures only while there is one
\* (startRecording, finishRecording).
THEOREM VoiceTypes == Spec => []TypeOK
<1>1. VoiceInv => TypeOK
  BY DEF VoiceInv
<1> QED
  BY <1>1, VoiceInvariant, PTL

\* A recording only ever starts while the button is held and not swiped
\* (RecordView's onStart, onSwipe, onTouchCancel, onFinish).
THEOREM StartsWhileHeld == Spec => []StartsOnlyWhileHeld
<1>1. VoiceInv => StartsOnlyWhileHeld
  BY DEF VoiceInv
<1> QED
  BY <1>1, VoiceInvariant, PTL

\* After a press that was finished the microphone is off
\* (ChatVC.onFinished, SKAudioRecordPlay.finishRecording).
THEOREM MicrophoneOffAfterFinish == Spec => []MicrophoneOff
<1>1. VoiceInv => MicrophoneOff
  BY DEF VoiceInv
<1> QED
  BY <1>1, VoiceInvariant, PTL

\* A voice message goes to the chat it was recorded in, and a press that has
\* recorded sends its own recording (ChatVC.onFinished, uploadFileOnServer).
THEOREM OwnRecordingSent == Spec => []SendsOwnRecording
<1>1. VoiceInv => SendsOwnRecording
  BY DEF VoiceInv
<1> QED
  BY <1>1, VoiceInvariant, PTL

\* A press sends at most one message (uploadFileOnServer's two callbacks).
THEOREM SentAtMostOnce == Spec => []AtMostOnce
<1>1. VoiceInv => AtMostOnce
  BY DEF VoiceInv
<1> QED
  BY <1>1, VoiceInvariant, PTL

=============================================================================
