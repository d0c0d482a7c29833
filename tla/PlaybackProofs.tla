---------------------------- MODULE PlaybackProofs ----------------------------
(***************************************************************************)
(* The play buttons, for any number of cells, messages and callbacks.      *)
(* PlaybackInv adds to the properties that the progress closure belongs to *)
(* the cell that started the current player, or to a refused one.          *)
(***************************************************************************)
EXTENDS Playback, TLAPS

ClosureOfPlayer ==
    audioPlayer # Nil => \/ audioPlayer.cell = updateProgressBar
                         \/ updateProgressBar \in refused

PlaybackInv == TypeOK /\ CanBeStopped /\ OwnProgress /\ ClosureOfPlayer

-----------------------------------------------------------------------------
LEMMA PlaybackInit == Init => PlaybackInv
BY Zenon DEF Init, PlaybackInv, TypeOK, CanBeStopped, OwnProgress, ClosureOfPlayer

\* A cell is set up for a message.
LEMMA StepReuse ==
    ASSUME PlaybackInv, NEW c \in Cells, NEW m \in Messages, returnMessageCell(c, m)
    PROVE  PlaybackInv'
<1>1. TypeOK'
  BY DEF PlaybackInv, TypeOK, returnMessageCell
<1>2. CanBeStopped' /\ OwnProgress' /\ ClosureOfPlayer'
  BY DEF PlaybackInv, CanBeStopped, OwnProgress, ClosureOfPlayer, returnMessageCell
<1> QED
  BY <1>1, <1>2 DEF PlaybackInv

\* A button is tapped: to play, to play what cannot be played, or to stop.
LEMMA StepTap ==
    ASSUME PlaybackInv, NEW c \in Cells, didPlayAudio(c)
    PROVE  PlaybackInv'
<1>0. TypeOK
  BY DEF PlaybackInv
<1>1. /\ message[c] \in Messages
      /\ isSelected' = [isSelected EXCEPT ![c] = ~isSelected[c]]
      /\ isSelected' \in [Cells -> BOOLEAN]
      /\ isSelected'[c] = ~isSelected[c]
      /\ \A e \in Cells \ {c} : isSelected'[e] = isSelected[e]
      /\ UNCHANGED <<message, ticks, progress>>
  BY <1>0 DEF didPlayAudio, TypeOK
<1>2. CASE isSelected'[c] /\ message[c] \notin Unplayable
  <2> DEFINE p == [cell |-> c, message |-> message[c]]
  <2>1. /\ audioPlayer' = p /\ readyToPlay' = FALSE /\ refused' = refused
        /\ updateProgressBar' = c
    BY <1>2 DEF didPlayAudio, playAudio
  <2>2. p \in Player /\ p.cell = c /\ c # Nil
    BY <1>1, NilAssumption DEF Player
  <2>3. TypeOK'
    BY Zenon, <1>0, <1>1, <2>1, <2>2 DEF TypeOK
  <2>4. CanBeStopped' /\ OwnProgress' /\ ClosureOfPlayer'
    BY <1>1, <1>2, <2>1, <2>2 DEF PlaybackInv, CanBeStopped, OwnProgress, ClosureOfPlayer
  <2> QED
    BY <2>3, <2>4 DEF PlaybackInv
<1>3. CASE isSelected'[c] /\ message[c] \in Unplayable
  <2>1. /\ UNCHANGED <<audioPlayer, readyToPlay>> /\ refused' = refused \cup {c}
        /\ updateProgressBar' = c /\ c # Nil
    BY <1>3, NilAssumption DEF didPlayAudio, playAudio
  <2>2. TypeOK'
    BY <1>0, <1>1, <2>1 DEF TypeOK
  <2>3. CanBeStopped'
    <3>1. audioPlayer # Nil => audioPlayer.cell \in Cells
      BY <1>0 DEF TypeOK, Player
    <3> QED
      BY <1>1, <1>3, <2>1, <3>1 DEF PlaybackInv, CanBeStopped
  <2>4. OwnProgress' /\ ClosureOfPlayer'
    BY <1>1, <2>1 DEF PlaybackInv, OwnProgress, ClosureOfPlayer
  <2> QED
    BY <2>2, <2>3, <2>4 DEF PlaybackInv
<1>4. CASE ~isSelected'[c]
  <2>1. /\ audioPlayer' = Nil /\ readyToPlay' = FALSE
        /\ UNCHANGED <<updateProgressBar, refused>>
    BY <1>4 DEF didPlayAudio, stopPlayer
  <2>2. TypeOK'
    BY Zenon, <1>0, <1>1, <2>1 DEF TypeOK
  <2>3. CanBeStopped' /\ OwnProgress' /\ ClosureOfPlayer'
    BY <1>1, <2>1 DEF PlaybackInv, CanBeStopped, OwnProgress, ClosureOfPlayer
  <2> QED
    BY <2>2, <2>3 DEF PlaybackInv
<1> QED
  BY <1>2, <1>3, <1>4

\* The player becomes ready or calls back.
LEMMA StepPlayer ==
    ASSUME PlaybackInv, BecomesReady \/ Tick \/ UNCHANGED vars
    PROVE  PlaybackInv'
<1>1. UNCHANGED <<message, isSelected, audioPlayer, updateProgressBar, progress, refused>>
  BY DEF BecomesReady, Tick, vars
<1>2. readyToPlay' \in BOOLEAN /\ ticks' \subseteq Player
  BY Zenon DEF PlaybackInv, TypeOK, BecomesReady, Tick, vars
<1>3. TypeOK'
  BY <1>1, <1>2 DEF PlaybackInv, TypeOK
<1>4. CanBeStopped' /\ OwnProgress' /\ ClosureOfPlayer'
  BY <1>1 DEF PlaybackInv, CanBeStopped, OwnProgress, ClosureOfPlayer
<1> QED
  BY <1>3, <1>4 DEF PlaybackInv

\* A callback, late or not, writes the current player's time.
LEMMA StepProgress ==
    ASSUME PlaybackInv, NEW p \in ticks, ShowProgress(p)
    PROVE  PlaybackInv'
<1>0. TypeOK
  BY DEF PlaybackInv
<1>1. /\ UNCHANGED <<message, isSelected, audioPlayer, readyToPlay, updateProgressBar, refused>>
      /\ ticks' \subseteq Player
  BY <1>0 DEF ShowProgress, TypeOK
<1>2. \/ progress' = progress
      \/ /\ audioPlayer # Nil /\ updateProgressBar \in Cells
         /\ progress' = [progress EXCEPT ![updateProgressBar] = audioPlayer]
  BY <1>0 DEF ShowProgress, TypeOK
<1>3. TypeOK'
  BY <1>0, <1>1, <1>2 DEF TypeOK
<1>4. OwnProgress'
  <2>1. \A e \in Cells : \/ progress'[e] = progress[e]
                         \/ /\ e = updateProgressBar /\ progress'[e] = audioPlayer
                            /\ audioPlayer # Nil
    BY <1>0, <1>2 DEF TypeOK
  <2> QED
    BY <1>1, <2>1 DEF PlaybackInv, OwnProgress, ClosureOfPlayer
<1>5. CanBeStopped' /\ ClosureOfPlayer'
  BY <1>1 DEF PlaybackInv, CanBeStopped, ClosureOfPlayer
<1> QED
  BY <1>3, <1>4, <1>5 DEF PlaybackInv

\* PlaybackInv is inductive.
THEOREM PlaybackInvariant == Spec => []PlaybackInv
<1>1. PlaybackInv /\ [Next]_vars => PlaybackInv'
  BY StepReuse, StepTap, StepPlayer, StepProgress DEF Next
<1> QED
  BY <1>1, PlaybackInit, PTL DEF Spec

\* The variables have their types, and a sound has a progress closure
\* (didPlayAudio, playAudio).
THEOREM PlaybackTypes == Spec => []TypeOK
<1>1. PlaybackInv => TypeOK
  BY DEF PlaybackInv
<1> QED
  BY <1>1, PlaybackInvariant, PTL

\* The button that started the sound shows pause for as long as the sound goes
\* on: a tap on it stops the player (didPlayAudio, stopPlayer).
THEOREM SoundCanBeStopped == Spec => []CanBeStopped
<1>1. PlaybackInv => CanBeStopped
  BY DEF PlaybackInv
<1> QED
  BY <1>1, PlaybackInvariant, PTL

\* A progress bar shows a player its own button has started, or its button was
\* tapped for a message without a URL (updateProgressBar, playAudio).
THEOREM ProgressIsOwn == Spec => []OwnProgress
<1>1. PlaybackInv => OwnProgress
  BY DEF PlaybackInv
<1> QED
  BY <1>1, PlaybackInvariant, PTL

=============================================================================
