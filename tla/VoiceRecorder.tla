---------------------------- MODULE VoiceRecorder ----------------------------
(***************************************************************************)
(* Voice messages: the record button of a chat (iRecordView's RecordView   *)
(* and ChatVC, its delegate), the one recorder of the process              *)
(* (SKAudioRecordPlay) and the uploads of ChatHalper.                      *)
(*                                                                         *)
(* Holding the button plays a sound; when the sound ends the recording     *)
(* starts. Lifting the finger uploads the file audioUrl names, swiping     *)
(* cancels. Recordings and uploads outlive the chat screen. A recording is *)
(* identified by the press that started it; files are named by the second  *)
(* in which they are started.                                              *)
(***************************************************************************)
EXTENDS Naturals, Sequences

CONSTANTS
    Receivers,   \* the users one can chat with
    MaxPresses,  \* bound: presses of the record button
    MaxSeconds   \* bound: seconds on the clock

ASSUME PressesAssumption == MaxPresses \in Nat
ASSUME SecondsAssumption == MaxSeconds \in Nat \ {0}
ASSUME ReceiversAssumption == 0 \notin Receivers

Nil == 0

Seconds == 1..MaxSeconds
Presses == 1..MaxPresses

VARIABLES
    receiver,          \* the partner of the chat on screen, or Nil
    now,               \* the clock
    presses,           \* history: presses[p] is the chat the p-th press was made in
    cancelled,         \* history: presses the user has cancelled
    touch,             \* the button is held
    isSwiped,          \* RecordView.isSwiped
    didFinishPlaying,  \* the start sound's completion is set
    audioUrl,          \* the file of the latest start, or Nil; never reset
    audioRecorder,     \* the file of the current recorder, or Nil
    capturing,         \* the current recorder is recording
    contents,          \* contents[s]: the recording in the file named s, or Nil
    finishes,          \* recorders stopped whose delegate has not been called
    uploads,           \* uploads in progress
    sent               \* audio messages handed to sendMessage

viewVars == <<touch, isSwiped, didFinishPlaying>>
recorderVars == <<audioUrl, audioRecorder, capturing, contents, finishes>>
vars == <<receiver, now, presses, cancelled, viewVars, recorderVars, uploads, sent>>

Upload == [press : Presses, recording : Presses, to : Receivers,
           stage : {"putData", "downloadURL"}]
AudioMessage == [press : Presses, recording : Presses, to : Receivers]

Init == /\ receiver = Nil
        /\ now = 1
        /\ presses = <<>> /\ cancelled = {}
        /\ touch = FALSE /\ isSwiped = FALSE /\ didFinishPlaying = FALSE
        /\ audioUrl = Nil /\ audioRecorder = Nil /\ capturing = FALSE
        /\ contents = [s \in Seconds |-> Nil]
        /\ finishes = 0
        /\ uploads = {} /\ sent = <<>>

-----------------------------------------------------------------------------
(* The recorder.                                                           *)

\* The recorder is dropped and keeps recording.
finishRecordingNoStop ==
    /\ audioRecorder' = Nil
    /\ UNCHANGED <<capturing, finishes>>

\* stop() reports to the delegate, later, if the recorder was recording.
finishRecording ==
    /\ audioRecorder' = Nil
    /\ capturing' = FALSE
    /\ finishes' = IF capturing THEN finishes + 1 ELSE finishes

\* ChatVC.onStart releases the recorder there is, which ends it without a
\* report, so the finishRecording inside startRecording finds none. audioUrl
\* is assigned before anything can fail. The recorder cannot be created, or
\* record() returns false, or it records over whatever the file held.
startRecording ==
    /\ audioUrl' = now
    /\ \/ /\ audioRecorder' = Nil
          /\ capturing' = FALSE
          /\ UNCHANGED contents
       \/ /\ audioRecorder' = now
          /\ capturing' = FALSE
          /\ UNCHANGED contents
       \/ /\ audioRecorder' = now
          /\ capturing' = TRUE
          /\ contents' = [contents EXCEPT ![now] = Len(presses)]
    /\ UNCHANGED finishes

\* The system stops the recorder, for a phone call say.
Interrupted ==
    /\ capturing
    /\ capturing' = FALSE
    /\ finishes' = finishes + 1
    /\ UNCHANGED <<receiver, now, presses, cancelled, viewVars, audioUrl,
                   audioRecorder, contents, uploads, sent>>

\* The delegate call of a recorder that has stopped. If it failed, the current
\* recorder is finished, which may be a later one.
audioRecorderDidFinishRecording(flag) ==
    /\ finishes > 0
    /\ IF flag
       THEN /\ finishes' = finishes - 1
            /\ UNCHANGED <<audioRecorder, capturing>>
       ELSE /\ audioRecorder' = Nil
            /\ capturing' = FALSE
            /\ finishes' = IF capturing THEN finishes ELSE finishes - 1
    /\ UNCHANGED <<receiver, now, presses, cancelled, viewVars, audioUrl, contents,
                   uploads, sent>>

-----------------------------------------------------------------------------
(* The record button.                                                      *)

onTouchDown ==
    /\ receiver # Nil /\ ~touch
    /\ Len(presses) < MaxPresses
    /\ presses' = Append(presses, receiver)
    /\ touch' = TRUE
    /\ isSwiped' = FALSE
    /\ didFinishPlaying' = TRUE
    /\ UNCHANGED <<receiver, now, cancelled, recorderVars, uploads, sent>>

\* The start sound has ended. It may also never do, when it cannot be played.
audioPlayerDidFinishPlaying ==
    /\ didFinishPlaying
    /\ didFinishPlaying' = FALSE
    /\ startRecording
    /\ UNCHANGED <<receiver, now, presses, cancelled, touch, isSwiped, uploads, sent>>

\* The start sound's completion stays set.
onSwipeKeepsSound ==
    /\ touch /\ ~isSwiped
    /\ isSwiped' = TRUE
    /\ cancelled' = cancelled \cup {Len(presses)}
    /\ UNCHANGED <<receiver, now, presses, touch, didFinishPlaying, recorderVars,
                   uploads, sent>>

\* touchMoved far enough to the left. ChatVC.onCancel only prints.
onSwipe ==
    /\ touch /\ ~isSwiped
    /\ isSwiped' = TRUE
    /\ didFinishPlaying' = FALSE
    /\ cancelled' = cancelled \cup {Len(presses)}
    /\ UNCHANGED <<receiver, now, presses, touch, recorderVars, uploads, sent>>

\* What onTouchCancel, and with it ChatVC.onCancel, does.
TouchCancelled ==
    /\ touch' = FALSE
    /\ isSwiped' = FALSE
    /\ didFinishPlaying' = FALSE
    /\ cancelled' = IF touch THEN cancelled \cup {Len(presses)} ELSE cancelled

onTouchCancelled ==
    /\ touch
    /\ TouchCancelled
    /\ UNCHANGED <<receiver, now, presses, recorderVars, uploads, sent>>

\* uploadFileOnServer reads the file at once: without one nothing is uploaded.
uploadFileOnServer(file, to) ==
    uploads' = IF file = Nil \/ contents[file] = Nil THEN uploads
               ELSE uploads \cup {[press |-> Len(presses), recording |-> contents[file],
                                   to |-> to, stage |-> "putData"]}

\* The recorder is not finished.
onFinishedNoFinish ==
    /\ uploadFileOnServer(audioUrl, receiver)
    /\ UNCHANGED recorderVars

\* ChatVC.onFinished: the url is read before the recorder is finished.
onFinished ==
    /\ finishRecording
    /\ uploadFileOnServer(audioUrl, receiver)
    /\ UNCHANGED <<audioUrl, contents>>

\* The finger is lifted. After a swipe that is all; otherwise onFinish calls
\* the delegate, however short the press was.
onTouchUp ==
    /\ touch
    /\ touch' = FALSE
    /\ IF isSwiped
       THEN UNCHANGED <<isSwiped, didFinishPlaying, recorderVars, uploads>>
       ELSE /\ isSwiped' = FALSE
            /\ didFinishPlaying' = FALSE
            /\ onFinished
    /\ UNCHANGED <<receiver, now, presses, cancelled, sent>>

-----------------------------------------------------------------------------
(* Uploads. Every failure ends them silently.                              *)

\* The completion can be called again.
putDataDoneAgain(u, ok) ==
    /\ u.stage = "putData"
    /\ uploads' = IF ok THEN uploads \cup {[u EXCEPT !.stage = "downloadURL"]}
                  ELSE uploads \ {u}
    /\ UNCHANGED <<receiver, now, presses, cancelled, viewVars, recorderVars, sent>>

putDataDone(u, ok) ==
    /\ u.stage = "putData"
    /\ uploads' = (uploads \ {u}) \cup
                     (IF ok THEN {[u EXCEPT !.stage = "downloadURL"]} ELSE {})
    /\ UNCHANGED <<receiver, now, presses, cancelled, viewVars, recorderVars, sent>>

\* The receiver is read from the chat on screen when the upload ends.
downloadURLDoneOnScreen(u, ok) ==
    /\ u.stage = "downloadURL"
    /\ uploads' = uploads \ {u}
    /\ sent' = IF ok /\ receiver # Nil
               THEN Append(sent, [press |-> u.press, recording |-> u.recording,
                                  to |-> receiver])
               ELSE sent
    /\ UNCHANGED <<receiver, now, presses, cancelled, viewVars, recorderVars>>

downloadURLDone(u, ok) ==
    /\ u.stage = "downloadURL"
    /\ uploads' = uploads \ {u}
    /\ sent' = IF ok THEN Append(sent, [press |-> u.press, recording |-> u.recording,
                                        to |-> u.to])
               ELSE sent
    /\ UNCHANGED <<receiver, now, presses, cancelled, viewVars, recorderVars>>

-----------------------------------------------------------------------------
(* Screens and time.                                                       *)

\* A new ChatVC with a RecordView of its own.
viewDidLoad(r) ==
    /\ receiver = Nil
    /\ receiver' = r
    /\ isSwiped' = FALSE
    /\ UNCHANGED <<now, presses, cancelled, touch, didFinishPlaying, recorderVars,
                   uploads, sent>>

\* Leaving the screen cancels a touch on it.
tappedOnBackButton ==
    /\ receiver # Nil
    /\ receiver' = Nil
    /\ TouchCancelled
    /\ UNCHANGED <<now, presses, recorderVars, uploads, sent>>

Tick == /\ now < MaxSeconds
        /\ now' = now + 1
        /\ UNCHANGED <<receiver, presses, cancelled, viewVars, recorderVars, uploads,
                       sent>>

Next == \/ \E r \in Receivers : viewDidLoad(r)
        \/ tappedOnBackButton
        \/ Tick
        \/ onTouchDown \/ audioPlayerDidFinishPlaying
        \/ onSwipe \/ onTouchCancelled \/ onTouchUp
        \/ Interrupted
        \/ \E flag \in BOOLEAN : audioRecorderDidFinishRecording(flag)
        \/ \E u \in uploads, ok \in BOOLEAN : putDataDone(u, ok) \/ downloadURLDone(u, ok)

Spec == Init /\ [][Next]_vars

-----------------------------------------------------------------------------
(* Properties.                                                             *)

\* The variables have their types. There is a current recorder while one
\* records.
TypeOK ==
    /\ receiver \in Receivers \cup {Nil}
    /\ now \in Seconds
    /\ presses \in Seq(Receivers) /\ Len(presses) <= MaxPresses
    /\ cancelled \subseteq Presses
    /\ touch \in BOOLEAN /\ isSwiped \in BOOLEAN /\ didFinishPlaying \in BOOLEAN
    /\ audioUrl \in Seconds \cup {Nil}
    /\ audioRecorder \in Seconds \cup {Nil}
    /\ capturing \in BOOLEAN
    /\ capturing => audioRecorder # Nil
    /\ contents \in [Seconds -> Presses \cup {Nil}]
    /\ finishes \in Nat
    /\ uploads \subseteq Upload
    /\ sent \in Seq(AudioMessage)

\* A recording can only start while the user holds the button and has not
\* swiped: the completion of the start sound never outlives the press that set
\* it (onSwipe, onTouchCancel and onFinish reset it).
StartsOnlyWhileHeld == didFinishPlaying => touch /\ ~isSwiped /\ receiver # Nil

\* The microphone is on for the press in progress or for a cancelled one,
\* never after a press that was finished, whatever the late delegate calls of
\* earlier recorders do (finishRecording, audioRecorderDidFinishRecording).
MicrophoneOff ==
    capturing => \/ contents[audioRecorder] \in cancelled
                 \/ touch /\ contents[audioRecorder] = Len(presses)

\* The messages being uploaded and the ones sent.
Outgoing == uploads \cup { sent[i] : i \in 1..Len(sent) }

\* However uploads, screens and presses interleave, a voice message goes to the
\* user in whose chat the button was held, and a press whose recording has
\* started sends that recording (onFinished, uploadFileOnServer).
SendsOwnRecording ==
    \A m \in Outgoing :
        /\ m.to = presses[m.press]
        /\ (\E s \in Seconds : contents[s] = m.press) => m.recording = m.press

\* A press sends at most one message, although uploads overlap, go on after the
\* screen is left and take several steps (onFinished, uploadFileOnServer).
AtMostOnce ==
    /\ \A i, j \in 1..Len(sent) : sent[i].press = sent[j].press => i = j
    /\ \A u, v \in uploads : u.press = v.press => u = v
    /\ \A u \in uploads : \A i \in 1..Len(sent) : u.press # sent[i].press

\* What ChatVC.onCancel's comment says, "when users swipes to delete the
\* Record": a cancelled recording is not sent.
CancelledNotSent == \A i \in 1..Len(sent) : sent[i].recording \notin cancelled

\* The same comment: a cancelled recording does not go on.
CancelEndsRecording == capturing => contents[audioRecorder] \notin cancelled

\* What ChatVC.onFinished's comment says, "user finished recording": what a
\* press sends was recorded by that press.
SendsWhatWasRecorded == \A i \in 1..Len(sent) : sent[i].recording = sent[i].press

=============================================================================
