# A TLA+ model of the chat application

The repository is an iOS chat client: users sign in with Google, see who is
online, and exchange text and voice messages one to one. There is no server
code of its own; all state is in Firebase's Realtime Database and Storage,
whose client libraries are vendored under `Pods/`. Paths below are relative to
`src/ChatApplication/ChatApplication/` unless they start with `Pods/`.

## Inventory

| Part | State | Operations | What makes it hard |
|---|---|---|---|
| Messages: `ChatHalper`, `ChatVC` | the shared array `messageclass`, observers, one table per opened chat | `sendMessage`, `receiveMessage`, opening and leaving a chat | observers are never removed and share one array |
| Database client: `Pods/FirebaseDatabase` | outstanding puts, listens, held-back acknowledgements, views | `set`, observe, data and acknowledgements, disconnect, `restoreState` | lost connections between a put and its answer, resending, refused writes, the end of the process |
| Voice: `RecordView`, `ChatVC`, `SKAudioRecordPlay` | button, start sound, recorder, `audioUrl`, files, uploads | press, swipe, lift, sound and recorder callbacks, upload steps | callbacks that arrive late, state that outlives press and screen |
| Playback: `SKAudioRecordPlay`, the audio cells | one player and one progress closure, a button state per cell | tapping play, reusing a cell, progress callbacks | one player for all buttons; late callbacks of a replaced player |
| Chat table: `ChatTableView` | `message`, `messageSection`, UITableView's row counts and headers | `filterMessageArray`, `scrollToBottom`, `viewForHeaderInSection`, layout, midnight | blocks that run after later snapshots; unstable sorting; headers that outlive their day |
| Day headers: the `Date` extension | - | `isToday`, `isYesterday`, `dateByAddingDays` | month ends, leap days, the turn of the year |
| Presence and sign-in: `SceneDelegate`, `ViewController`, `SKGoogleLogin`, `ResentsUsersVC` | online state per user, list of users, sign-ins under way and their one handler | scene callbacks, `onlineState`, `receiveAllUsers`, `loginToGoogle`, `didSignInFor` | suspension, ended processes, writes that were never sent, answers that arrive in the background |
| List of users: `RecentTableView`, `RecentCell`, `downlodeImage` | the array, reused cells, `imageCache`, loads under way | new arrays, cells, taps, loads that succeed or fail | users change rows; images arrive for a cell that shows somebody else |

`PROJECT.json` lists every component, the hazards with their lines, and the
correspondence of definitions and source lines.

## Modules

* `ChatNode`: `createNode`, the name of the node two users share. The pair of
  ids is kept as an ordered pair.
* `RealtimeDatabase`: the database client and, external, the server, as
  operators on their state. A write goes into the views at once (`Put`) and
  stays outstanding until it is answered; while a listen is unanswered the
  acknowledgement is held back (`ReceiveAck`, `ReceiveSnap`); a lost connection
  loses what is in flight (`Disconnect`); `Reconnect` sends every listen and
  then every outstanding put in index order; `Restart` forgets everything: the
  next process builds the client anew, and persistence is never enabled. The
  database's rules may refuse to show a node (`Unreadable`): its listen is answered
  without data and removed, and the answer counts like any other (`ReceiveRefusal`).
* `Messaging`: the application over that client. One table and one observer
  per opened chat, never removed; a value event runs one block per observer.
* `Conversation`: the abstract promise. A message is sent, then delivered in
  the order of its device, or lost. `Messaging!Implements` is the refinement,
  with the puts that are neither stored nor lost as `waiting` and the server's
  messages as `delivered`.
* `MCMessaging`: users, accounts, refused messages and nodes for TLC.
* `VoiceRecorder`: record button, recorder, uploads. A recording is identified
  by its press, a file by the second that names it.
* `Playback`: the play buttons and the one player. A player is identified by
  the cell whose tap created it; cells are reused for other messages, and a
  callback may run after its player was replaced.
* `ChatTableView`: one table, its main queue, UITableView's row counts and its
  headers, which are asked for by a layout or when they scroll into view, while
  midnight may pass at any moment.
* `DayHeader`: the header text and the calendar arithmetic below it.
* `Presence`: scene life cycles, sign-ins, written states, lists of users. A
  sign-in is answered at any time, with success or not, through the one handler
  there is.
* `UserList`, `MCUserList`: the list of users on screen, its reused cells and
  their images. An image is identified by the user whose profile it is.
* `MessagingProofs` and, on top of it, `CurrentProofs`; `VoiceRecorderProofs`,
  `ChatTableViewProofs`, `DayHeaderProofs`, `PresenceProofs`, `PlaybackProofs`,
  `UserListProofs`: theorems and proofs.

The models meet at snapshots. `ChatTableView` takes any sequence of snapshots a
view can go through (`Changes`), so the event blocks `Messaging` hands to a
table are among them: `Convergence` says that a table's last snapshot is the
server's data, and `EventuallyShown` that the last snapshot comes on screen.
`UserList` takes arrays of any users in any order, and so those that
`Presence!usersChanged` hands over. `VoiceRecorder`'s uploads end in the call that
is `Messaging!SendVoice`.

Abstractions worth knowing. A message is its identity and addressees; texts are
left out. The data of a listen and its "ok" arrive as one answer. A request the
server has not processed when the connection is lost is lost with it. The
server may answer a listen after later puts, and pushes data before it
acknowledges the put that changed it. The rules do not change while the system
runs. A refused listen leaves its table as it is: the application registers no
handler for the cancellation. In `Presence` the database client is reduced to
ordered delivery: one step (`Flush`) takes the oldest write of a device to the
server and queues the new value for every device that listens, the queues of the
devices being read at their own pace. What this leaves out, lost connections and
writes that are sent again, `Messaging` covers for the same client. When a scene
reconnects inside a running process a second observer is registered; the model
keeps the list on screen and delivers the new observer's first value after the
events already under way.

## Runs

| Run | Checks | Bounds |
|---|---|---|
| `one_device` | `TypeOK`, `NoOvertaking`, `NothingVanishes`, `StaysVisible`, `Implements` | 3 messages, every second refused, 2 lost connections, 1 ended process |
| `two_devices` | `IdleIsCurrent` | one message each, 1 lost connection, 1 ended process |
| `two_chats` | `OwnConversation`, `IdleIsCurrent`, `Convergence` | one device, four users, one node that may not be read, two tables, 2 messages, the second refused, 1 lost connection, 1 ended process |
| `voice_recorder` | `TypeOK`, `StartsOnlyWhileHeld`, `MicrophoneOff`, `SendsOwnRecording`, `AtMostOnce` | two chats, 3 presses, 3 seconds |
| `chat_table` | `TypeOK`, `Chronological`, `RowsCurrent`, `HeadersCurrent`, `EndsAtBottom`, `EventuallyShown` | 3 messages over 3 days, one without a midnight, 1 refused, 1 midnight |
| `day_header` | `TypeOK`, `YesterdayHeader`, `OlderHeader`, `TomorrowIsNextDay` | every day of 2023 to 2025, followed for 3 days |
| `presence` | `TypeOK`, `PresenceFollowsScene`, `ListCurrent`, `OnlineIsSeen` | two devices, 9 scene changes, 3 sign-ins, 1 ended process |
| `playback` | `TypeOK`, `CanBeStopped`, `OwnProgress` | two cells, three messages, one without a URL, 2 callbacks waiting |
| `user_list` | `TypeOK`, `OpensShownUser`, `RightImage` | three users, one without an image, two cells, 2 arrays, 2 loads |

Three messages let one be acknowledged, one be in flight and one be held; two
lost connections let a put be sent again twice. In `two_devices` every message
is accepted and every node may be read; that a refused message leaves the tables,
and that a refused listen leaves nothing waiting, are questions of `two_chats`, where
the two tables are those of two readable chats, of one that is not, or of the same
chat opened again. Three presses cover a recording,
a cancelled one and a short tap after either, and three seconds let presses
share a file name or not. Six scene changes bring two devices to the
foreground; the rest let one leave and return or lose its scene, and three
sign-ins let one device have two answers under way. Midnight passes once, into
a 1 January, the one day on which yesterday is not recognised. Two cells for
three users force reuse, and two loads let one be late for the other; users with
an image are interchangeable, as are cells, so `MCUserList` uses symmetry. 2024 is
the leap year.

Deadlock is checked for `playback`, whose steps never run out. The other models
stop when their bounds are used up.

Three runs show where the code disagrees with its own comments, and end in a
violation: `voice_cancelled` and `voice_cancel_stops` (`ChatVC.onCancel`, "when
users swipes to delete the Record", only prints: the recorder goes on and the
recording can be sent by the next short tap), and `voice_short_tap`
(`ChatVC.onFinished`, "user finished recording", also runs for a press that
recorded nothing and then sends what `audioUrl` still names).

Exceptions the code really has are part of the passing properties, so they
state what holds: yesterday is not recognised on 1 January, tomorrow is wrong on
29 February and 31 December, the header's year may be the neighbouring one near
the new year, a day without a midnight may stand out of order, an empty
snapshot does not reload the table, a header is only as new as the last layout,
an ended process or a sign-in answered in the background leaves its user online,
a tap between a new array and its layout may open another chat or end the process, a load that was
under way when its cell was reused may put a wrong image there, and a button
tapped for a message without a URL shows the progress of the sound that goes on.
The properties bound these cases and do not catch them; the hazards in
`PROJECT.json` say of each what a property covers and what is left to the code.

## Fairness

* `Messaging!FairSpec`: weak fairness of each device's `SystemStep`. The main
  queue runs its blocks, the server answers, and `tryScheduleReconnect` retries
  without a limit. Nothing is assumed of the user; lost connections and ended
  processes are finitely many by their bounds.
* `ChatTableView!FairSpec`: the main queue is served and UIKit lays out.
* `Presence!FairSpec`: a running process sends its writes and handles events.

## Proofs

TLAPS proves every safety property of the passing runs, the action property
`StaysVisible` and the refinement, for all values of the constants that satisfy the
named assumptions: `Account \in [Devices -> Users]`, positive user ids, natural
bounds and times, refused messages and messages without a URL among the messages,
refused nodes among the nodes,
a first day of the week and a rule for the first week that exist, finitely many
users in `UserList`, and a `Nil` that is none of the values it stands beside. Each
invariant was checked with TLC on the run's instance before it was proved.

* `MessagingProofs` has four parts. First, `createNode` is symmetric and different
  pairs have different nodes; then `TypeCorrect` and `ConversationsSeparate`.
  `OwnConversation` is not inductive: a table is filled from an event, an event from
  a view, a view from the server's answers and the pending writes. `OwnInv` says
  that every message anywhere is genuine (its node is the one of its sender and
  receiver), that caches and tables only hold messages of their node, and that an
  event is only addressed to observers of its node.

  Second, `DeliveredInOrder` and `NoneVanishes`. `OrderInv` says that the
  outstanding puts and the requests under way are both in the order of sending, that
  while connected every outstanding put is stored, refused or under way, that
  nothing under way has been forgotten by the client, and that only resolved puts
  are acknowledged. The next request the server handles is then never ahead of a
  message that is still held.

  Third, `Refinement`, `Spec => Implements`, from both invariants: sending,
  `HandlePut` and `Kill` map to steps of `Conversation`, everything else to
  stuttering.

  Last, lemmas about queues of answers and of events: what an arrival or a departure
  does to what the queue still holds. `CurrentProofs` rests on them.
* `CurrentProofs`: `RestIsCurrent`, which states `IdleIsCurrent`, and
  `MessagesStayVisible`, which states `StaysVisible`.

  A device at rest is the end of a long way: the server's data goes through the
  queue of answers into the cache, a write leaves the view when it is answered, and
  the view goes through the queue of events into the table. `CurrentInv` says of
  each part that what is missing is still under way. What the server stores of a
  node it reports on is in the cache or in an answer, and an unanswered listen has
  its data coming with nothing older in front; every outstanding put is on its way
  or its answer is; a node is listened to while it is observed, unless it may not be
  read; acknowledgements are held back only while a listen is unanswered; and the last event queued for a table brings the view, or the table
  shows it.

  A message leaves the pending writes when its acknowledgement is handled or
  released, so it stays in the view only if the cache has it by then. `VisibleInv`
  says that in front of an acknowledgement under way, and before the answers that
  release a held-back one, comes the data with the message, unless the message was
  refused or the node is not listened to on this connection; and that the answer to
  a listen takes nothing from the cache.
* `VoiceRecorderProofs`: `StartsWhileHeld`, `MicrophoneOffAfterFinish`,
  `OwnRecordingSent`, `SentAtMostOnce`, `VoiceTypes`. The invariant adds that a held press is the last one and
  was made in the chat on screen, that files and messages only refer to presses
  made, and that once a held press has recorded, `audioUrl` names its file.
* `ChatTableViewProofs`: `TableIsChronological`, `RowsAreCurrent`,
  `HeadersAreCurrent`, `TableEndsAtBottom`, `TableTypes`. `TableInv` says that the
  sections are the days of the sorted array, one section each, dated at their
  midnight if they have one; that the headers of the last layout are those of the
  sections until midnight; that a table not at its bottom has a scroll block on the
  main queue; and that snapshots are finite, so that they can be sorted at all and a
  non-empty one really enqueues a block. Days are picked out of the array by
  counting (`OnDay`), a form of the code's filter that can be reasoned about without
  induction over sequences.
* `DayHeaderProofs`: `YesterdayIsYesterday`, `OlderIsDated`, `TomorrowIsTomorrow`,
  `DayHeaderTypes`, for any range of years. `DayInv` adds that the section's age is
  the distance of the two days in the calendar. The lemmas are about that calendar:
  the lengths of months and years, that the next day is one day further, and on
  which days subtracting a day in components gives the day before.
* `PresenceProofs`: `StateFollowsScene`, `ListsAreCurrent`, `PresenceTypes`. The invariant adds
  that the last snapshot on its way to a listening device is the server's state,
  that nobody becomes absent again, and that no more sign-ins are under way than
  were started.
* `PlaybackProofs`: `SoundCanBeStopped`, `ProgressIsOwn`, `PlaybackTypes`. The invariant
  adds that the progress closure belongs to the cell of the current player, unless that
  closure's button was refused.
* `UserListProofs`: `TapOpensShownUser`, `FoundImageIsRight`, `UserListTypes`. The
  invariant adds that the rows on screen show the users of the array while no reload is pending,
  that the cache holds only a user's own image, that loads are numbered, and that a
  cell without an older load only has loads for its own user.

Only model-checked: the liveness properties `Convergence`, `EventuallyShown` and
`OnlineIsSeen`. Liveness under fairness and `ENABLED` are out of the prover's reach.
Their safety cores are proved: a device at rest is current, the last snapshot of a
table leaves a reload or a scroll block behind, and a list with nothing under way
shows the server's state. The three runs that end in a violation are TLC's as well.

## Not modelled

Text cells, themes and storyboards, which have no behaviour of their own; the
application delegate, which configures SDKs at launch; the archive format of the
stored user details; the sign-in dialogue inside Google's SDK, whose source is not
in the repository; listens that are revoked after they were granted
(`onListenRevoked`), because the rules do not change, so `IdleIsCurrent` and
`Convergence` say nothing of a table that loses its listen; of the database,
transactions, filtered queries, `onDisconnect` writes, disk persistence and authentication, which the application does not use;
Storage beyond an upload that succeeds or fails; the other pods. Most of the
vendored code by volume is of this kind: `leveldb` serves only the database's disk
persistence, which is never enabled, and `nanopb` only the encoding of the SDKs'
own diagnostics and metrics, so no step of the chat reaches either.
