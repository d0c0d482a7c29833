------------------------------- MODULE Playback -------------------------------
(***************************************************************************)
(* Listening to voice messages: the play buttons of SenderAudioCell and    *)
(* ReceiverAudioCell (the same code twice, set up in returnMessageCell)    *)
(* and the one player of the process, SKAudioRecordPlay.                   *)
(*                                                                         *)
(* Each button toggles a state of its own, while one player and one        *)
(* progress closure serve all cells. UIKit hands a cell out again for      *)
(* another message with its button and progress as they are. Leaving a     *)
(* chat does nothing: its cells are among Cells like any others.           *)
(***************************************************************************)
EXTENDS Naturals, FiniteSets

CONSTANTS
    Cells,       \* audio cells of all chat tables
    Messages,    \* voice messages
    Unplayable,  \* messages whose content is not a URL
    Nil,         \* no player, message or cell
    MaxTicks     \* bound: progress callbacks waiting on the main queue

\* A player is known by the cell whose tap created it and by what it plays.
Player == [cell : Cells, message : Messages]

ASSUME UnplayableAssumption == Unplayable \subseteq Messages
ASSUME NilAssumption == Nil \notin Cells \cup Messages \cup Player
ASSUME TicksAssumption == MaxTicks \in Nat

VARIABLES
    message,           \* message[c]: the message returnMessageCell set c up for
    isSelected,        \* isSelected[c]: c's button shows pause
    audioPlayer,       \* SKAudioRecordPlay.audioPlayer
    readyToPlay,       \* its status is readyToPlay
    updateProgressBar, \* the cell the progress closure writes to
    ticks,             \* players with a periodic callback on the main queue
    progress,          \* progress[c]: the player whose time c's bar shows
    refused            \* history: cells tapped for a message without a URL

vars == <<message, isSelected, audioPlayer, readyToPlay, updateProgressBar, ticks,
          progress, refused>>

Init == /\ message = [c \in Cells |-> Nil]
        /\ isSelected = [c \in Cells |-> FALSE]
        /\ audioPlayer = Nil /\ readyToPlay = FALSE
        /\ updateProgressBar = Nil
        /\ ticks = {}
        /\ progress = [c \in Cells |-> Nil]
        /\ refused = {}

-----------------------------------------------------------------------------
(* SKAudioRecordPlay.                                                      *)

\* Without a URL playAudio returns and leaves the player there is. Otherwise
\* the new player replaces the old one, whose release ends its sound.
playAudio(c) ==
    IF message[c] \in Unplayable
    THEN /\ refused' = refused \cup {c}
         /\ UNCHANGED <<audioPlayer, readyToPlay>>
    ELSE /\ audioPlayer' = [cell |-> c, message |-> message[c]]
         /\ readyToPlay' = FALSE
         /\ UNCHANGED refused

stopPlayer == /\ audioPlayer' = Nil
              /\ readyToPlay' = FALSE

\* The callback shows the time of the player it was registered with.
ShowProgressOfCallback(p) ==
    /\ p \in ticks
    /\ ticks' = ticks \ {p}
    /\ progress' = IF audioPlayer # Nil /\ readyToPlay
                   THEN [progress EXCEPT ![updateProgressBar] = p] ELSE progress
    /\ UNCHANGED <<message, isSelected, audioPlayer, readyToPlay, updateProgressBar,
                   refused>>

\* The periodic callback of p, perhaps after p has been replaced: it reads the
\* current player's time and writes to the current closure's cell.
ShowProgress(p) ==
    /\ p \in ticks
    /\ ticks' = ticks \ {p}
    /\ progress' = IF audioPlayer # Nil /\ readyToPlay
                   THEN [progress EXCEPT ![updateProgressBar] = audioPlayer]
                   ELSE progress
    /\ UNCHANGED <<message, isSelected, audioPlayer, readyToPlay, updateProgressBar,
                   refused>>

-----------------------------------------------------------------------------
(* The cells.                                                              *)

\* The button is reset for the new message.
returnMessageCellReset(c, m) ==
    /\ message' = [message EXCEPT ![c] = m]
    /\ isSelected' = [isSelected EXCEPT ![c] = FALSE]
    /\ UNCHANGED <<audioPlayer, readyToPlay, updateProgressBar, ticks, progress, refused>>

\* A new or reused cell gets a tap handler for m, and nothing else.
returnMessageCell(c, m) ==
    /\ message' = [message EXCEPT ![c] = m]
    /\ UNCHANGED <<isSelected, audioPlayer, readyToPlay, updateProgressBar, ticks,
                   progress, refused>>

\* The progress closure stays as it is.
didPlayAudioNoProgress(c) ==
    /\ message[c] # Nil
    /\ isSelected' = [isSelected EXCEPT ![c] = ~@]
    /\ IF isSelected'[c] THEN playAudio(c) ELSE stopPlayer /\ UNCHANGED refused
    /\ UNCHANGED <<message, ticks, progress, updateProgressBar>>

\* The button is toggled. Selected, it plays and takes over the progress
\* closure; deselected, it stops the player, whoever started it.
didPlayAudio(c) ==
    /\ message[c] # Nil
    /\ isSelected' = [isSelected EXCEPT ![c] = ~@]
    /\ IF isSelected'[c]
       THEN /\ playAudio(c)
            /\ updateProgressBar' = c
       ELSE /\ stopPlayer
            /\ UNCHANGED <<updateProgressBar, refused>>
    /\ UNCHANGED <<message, ticks, progress>>

-----------------------------------------------------------------------------
(* AVPlayer (external).                                                    *)

BecomesReady ==
    /\ audioPlayer # Nil /\ ~readyToPlay
    /\ readyToPlay' = TRUE
    /\ UNCHANGED <<message, isSelected, audioPlayer, updateProgressBar, ticks, progress,
                   refused>>

Tick == /\ audioPlayer # Nil
        /\ Cardinality(ticks) < MaxTicks
        /\ ticks' = ticks \cup {audioPlayer}
        /\ UNCHANGED <<message, isSelected, audioPlayer, readyToPlay, updateProgressBar,
                       progress, refused>>

Next == \/ \E c \in Cells, m \in Messages : returnMessageCell(c, m)
        \/ \E c \in Cells : didPlayAudio(c)
        \/ BecomesReady
        \/ Tick
        \/ \E p \in ticks : ShowProgress(p)

Spec == Init /\ [][Next]_vars

-----------------------------------------------------------------------------
(* Properties.                                                             *)

\* The variables have their types, and once there is a player there is a
\* progress closure.
TypeOK ==
    /\ message \in [Cells -> Messages \cup {Nil}]
    /\ isSelected \in [Cells -> BOOLEAN]
    /\ audioPlayer \in Player \cup {Nil}
    /\ readyToPlay \in BOOLEAN
    /\ updateProgressBar \in Cells \cup {Nil}
    /\ ticks \subseteq Player
    /\ progress \in [Cells -> Player \cup {Nil}]
    /\ refused \subseteq Cells
    /\ audioPlayer # Nil => updateProgressBar # Nil

\* Whatever buttons were tapped since, and whatever messages their cells were
\* reused for, the button that started the sound still shows pause: one more
\* tap on it ends the sound (didPlayAudio, stopPlayer).
CanBeStopped == audioPlayer # Nil => isSelected[audioPlayer.cell]

\* A progress bar only ever shows the time of a player its own button has
\* started, although callbacks of replaced players arrive late and one closure
\* serves all cells. Only a button tapped for a message without a URL can take
\* over the progress of a sound it did not start (playAudio's early return).
OwnProgress ==
    \A c \in Cells : progress[c] # Nil => progress[c].cell = c \/ c \in refused

=============================================================================
