------------------------------- MODULE Presence -------------------------------
(***************************************************************************)
(* Who is online: SceneDelegate writes the state of the signed-in user     *)
(* whenever the scene changes, the sign-in screen (ViewController) when    *)
(* Google's answer arrives, and the list of users (ResentsUsersVC) shows   *)
(* the states of all others.                                               *)
(*                                                                         *)
(* Each device has a user of its own. The database client is taken for     *)
(* what RealtimeDatabase shows of it: the writes of a device reach the     *)
(* server in order, an observer gets every change in order, and writes     *)
(* that were not sent are lost with the process.                           *)
(***************************************************************************)
EXTENDS Naturals, Sequences

CONSTANTS
    Devices,     \* installations, one user each
    MaxChanges,  \* bound: scene changes, over all devices
    MaxKills,    \* bound: processes ended, over all devices
    MaxSignIns   \* bound: taps on the sign-in button, over all devices

ASSUME ChangesAssumption == MaxChanges \in Nat /\ MaxKills \in Nat /\ MaxSignIns \in Nat

VARIABLES
    scene,      \* scene[d]: where the scene is in its life cycle
    signedIn,   \* signedIn[d]: chatUserDetails is stored on d
    handler,    \* handler[d]: googleDidSignIn, none or one whose screen is
                \* part of the scene or of a scene that is gone
    flows,      \* flows[d]: sign-ins Google has not answered
    awake,      \* awake[d]: the process is running, not suspended
    writes,     \* writes[d]: online states written and not yet sent
    server,     \* server[d]: onlineState of the user of d below UserState
    snaps,      \* snaps[d]: value events on their way to d's observer
    listening,  \* listening[d]: the list of users is on screen
    users,      \* users[d]: RecentTableView.users, as a function of the user
    changes, kills, signIns,
    killed,     \* history: devices whose last process was ended
    late        \* history: devices whose last write was for an answer that
                \* arrived outside the foreground

signInVars == <<handler, flows, signIns>>

vars == <<scene, signedIn, handler, flows, awake, writes, server, snaps, listening, users,
          changes, kills, signIns, killed, late>>

Absent == "absent"
State == {Absent, "0", "1"}
Handlers == {"none", "attached", "detached"}
Scenes == {"unattached", "connected", "inactive", "active", "background"}

Foreground(d) == scene[d] \in {"inactive", "active"}

Init == /\ scene = [d \in Devices |-> "unattached"]
        /\ signedIn = [d \in Devices |-> FALSE]
        /\ handler = [d \in Devices |-> "none"]
        /\ flows = [d \in Devices |-> 0]
        /\ awake = [d \in Devices |-> FALSE]
        /\ writes = [d \in Devices |-> <<>>]
        /\ server = [d \in Devices |-> Absent]
        /\ snaps = [d \in Devices |-> <<>>]
        /\ listening = [d \in Devices |-> FALSE]
        /\ users = [d \in Devices |-> [e \in Devices |-> Absent]]
        /\ changes = 0 /\ kills = 0 /\ signIns = 0
        /\ killed = {} /\ late = {}

-----------------------------------------------------------------------------
(* ChatHalper.                                                             *)

\* Nothing is written before a user has signed in.
onlineState(d, state) ==
    writes' = IF signedIn'[d] THEN [writes EXCEPT ![d] = Append(@, state)] ELSE writes

\* receiveAllUsers registers the observer; the first value is what there is.
receiveAllUsers(d) ==
    /\ listening' = [listening EXCEPT ![d] = TRUE]
    /\ snaps' = [snaps EXCEPT ![d] = Append(@, server)]

\* The closure without removeAll and without the test for oneself.
usersChangedKeepsAll(d) ==
    /\ awake[d] /\ snaps[d] # <<>>
    /\ snaps' = [snaps EXCEPT ![d] = Tail(@)]
    /\ users' = [users EXCEPT ![d] = [e \in Devices |->
                   IF @[e] = Absent THEN Head(snaps[d])[e] ELSE @[e]]]
    /\ UNCHANGED <<scene, signedIn, awake, writes, server, listening, changes, kills,
                   killed, late, signInVars>>

\* The closure: the array is filled anew without oneself. It is handed over
\* once for each user of the snapshot, so not at all if there is none.
usersChanged(d) ==
    /\ awake[d] /\ snaps[d] # <<>>
    /\ snaps' = [snaps EXCEPT ![d] = Tail(@)]
    /\ users' = IF \A e \in Devices : Head(snaps[d])[e] = Absent THEN users
                ELSE [users EXCEPT ![d] = [e \in Devices |->
                        IF e = d THEN Absent ELSE Head(snaps[d])[e]]]
    /\ UNCHANGED <<scene, signedIn, awake, writes, server, listening, changes, kills,
                   killed, late, signInVars>>

-----------------------------------------------------------------------------
(* SceneDelegate.                                                          *)

Change(d, from, to) ==
    /\ changes < MaxChanges
    /\ changes' = changes + 1
    /\ scene[d] \in from
    /\ scene' = [scene EXCEPT ![d] = to]

\* A signed-in user is taken to a new, empty list of users at once, which
\* registers an observer of its own even if the process has one already.
willConnectTo(d) ==
    /\ Change(d, {"unattached"}, "connected")
    /\ awake' = [awake EXCEPT ![d] = TRUE]
    /\ IF signedIn[d]
       THEN /\ receiveAllUsers(d)
            /\ users' = [users EXCEPT ![d] = [e \in Devices |-> Absent]]
       ELSE UNCHANGED <<listening, snaps, users>>
    /\ UNCHANGED <<signedIn, writes, server, kills, killed, late, signInVars>>

sceneWillEnterForeground(d) ==
    /\ Change(d, {"connected", "background"}, "inactive")
    /\ awake' = [awake EXCEPT ![d] = TRUE]
    /\ killed' = killed \ {d} /\ late' = late \ {d}
    /\ UNCHANGED signedIn
    /\ onlineState(d, "1")
    /\ UNCHANGED <<server, snaps, listening, users, kills, signInVars>>

sceneDidBecomeActive(d) ==
    /\ Change(d, {"inactive"}, "active")
    /\ UNCHANGED signedIn
    /\ onlineState(d, "1")
    /\ UNCHANGED <<awake, server, snaps, listening, users, kills, killed, late, signInVars>>

sceneWillResignActive(d) ==
    /\ Change(d, {"active"}, "inactive")
    /\ UNCHANGED signedIn
    /\ onlineState(d, "1")
    /\ UNCHANGED <<awake, server, snaps, listening, users, kills, killed, late, signInVars>>

\* The state written when leaving is the one written when pausing.
sceneDidEnterBackgroundOnline(d) ==
    /\ Change(d, {"inactive"}, "background")
    /\ UNCHANGED signedIn
    /\ onlineState(d, "1")
    /\ UNCHANGED <<awake, server, snaps, listening, users, kills, killed, late, signInVars>>

sceneDidEnterBackground(d) ==
    /\ Change(d, {"inactive"}, "background")
    /\ UNCHANGED signedIn
    /\ onlineState(d, "0")
    /\ UNCHANGED <<awake, server, snaps, listening, users, kills, killed, late, signInVars>>

\* The system releases the scene of a background process, and with it the
\* navigation of the screen a handler belongs to.
sceneDidDisconnect(d) ==
    /\ awake[d]
    /\ Change(d, {"background"}, "unattached")
    /\ UNCHANGED signedIn
    /\ onlineState(d, "0")
    /\ late' = late \ {d}
    /\ handler' = [handler EXCEPT ![d] = IF @ = "none" THEN @ ELSE "detached"]
    /\ UNCHANGED <<awake, server, snaps, listening, users, kills, killed, flows, signIns>>

-----------------------------------------------------------------------------
(* The sign-in screen, and SKGoogleLogin between it and Google.            *)

\* loginToGoogle starts a sign-in, and has one handler for all of them. The
\* button can be tapped until the list of users covers it.
tappedOnSignin(d) ==
    /\ scene[d] = "active" /\ ~listening[d]
    /\ signIns < MaxSignIns
    /\ signIns' = signIns + 1
    /\ flows' = [flows EXCEPT ![d] = @ + 1]
    /\ handler' = [handler EXCEPT ![d] = "attached"]
    /\ UNCHANGED <<scene, signedIn, awake, writes, server, snaps, listening, users, changes,
                   kills, killed, late>>

\* The state is written before the details are stored, and so not at all the
\* first time.
saveUserDetailsWritesFirst(d) ==
    /\ signedIn' = [signedIn EXCEPT ![d] = TRUE]
    /\ writes' = IF signedIn[d] THEN [writes EXCEPT ![d] = Append(@, "1")] ELSE writes

saveUserDetails(d) ==
    /\ signedIn' = [signedIn EXCEPT ![d] = TRUE]
    /\ onlineState(d, "1")

\* Google answers a sign-in, in whatever state the scene is by then. The handler
\* saves the details and shows a new list of users if its screen is still part
\* of a scene. An error or an answer without data does nothing.
didSignInFor(d, ok) ==
    /\ awake[d] /\ flows[d] > 0
    /\ flows' = [flows EXCEPT ![d] = @ - 1]
    /\ IF ok THEN /\ saveUserDetails(d)
                  /\ late' = IF Foreground(d) THEN late ELSE late \cup {d}
             ELSE UNCHANGED <<signedIn, writes, late>>
    /\ IF ok /\ handler[d] = "attached"
       THEN /\ receiveAllUsers(d)
            /\ users' = [users EXCEPT ![d] = [e \in Devices |-> Absent]]
       ELSE UNCHANGED <<listening, snaps, users>>
    /\ UNCHANGED <<scene, awake, server, changes, kills, killed, handler, signIns>>

-----------------------------------------------------------------------------
(* The client, and the server and the system (external).                   *)

\* The client sends the oldest write; the server stores it and tells every
\* observer.
Flush(d) ==
    /\ awake[d] /\ writes[d] # <<>>
    /\ writes' = [writes EXCEPT ![d] = Tail(@)]
    /\ server' = [server EXCEPT ![d] = Head(writes[d])]
    /\ snaps' = [e \in Devices |-> IF listening[e] /\ server' # server
                                   THEN Append(snaps[e], server') ELSE snaps[e]]
    /\ UNCHANGED <<scene, signedIn, awake, listening, users, changes, kills, killed,
                   late, signInVars>>

Suspend(d) ==
    /\ awake[d] /\ scene[d] \in {"background", "unattached"}
    /\ awake' = [awake EXCEPT ![d] = FALSE]
    /\ UNCHANGED <<scene, signedIn, writes, server, snaps, listening, users, changes,
                   kills, killed, late, signInVars>>

\* The process ends without a call to the delegate.
Kill(d) ==
    /\ kills < MaxKills
    /\ scene[d] # "unattached" \/ awake[d]
    /\ kills' = kills + 1
    /\ scene' = [scene EXCEPT ![d] = "unattached"]
    /\ awake' = [awake EXCEPT ![d] = FALSE]
    /\ writes' = [writes EXCEPT ![d] = <<>>]
    /\ snaps' = [snaps EXCEPT ![d] = <<>>]
    /\ listening' = [listening EXCEPT ![d] = FALSE]
    /\ users' = [users EXCEPT ![d] = [e \in Devices |-> Absent]]
    /\ handler' = [handler EXCEPT ![d] = "none"]
    /\ flows' = [flows EXCEPT ![d] = 0]
    /\ killed' = killed \cup {d} /\ late' = late \ {d}
    /\ UNCHANGED <<signedIn, server, changes, signIns>>

Deliver(d) == Flush(d) \/ usersChanged(d)

Next == \E d \in Devices :
            \/ willConnectTo(d)
            \/ sceneWillEnterForeground(d) \/ sceneDidBecomeActive(d)
            \/ sceneWillResignActive(d) \/ sceneDidEnterBackground(d)
            \/ sceneDidDisconnect(d)
            \/ tappedOnSignin(d) \/ \E ok \in BOOLEAN : didSignInFor(d, ok)
            \/ Deliver(d) \/ Suspend(d) \/ Kill(d)

Spec == Init /\ [][Next]_vars

\* A running process sends its writes and handles its events.
FairSpec == Spec /\ \A d \in Devices : WF_vars(Deliver(d))

-----------------------------------------------------------------------------
(* Properties.                                                             *)

\* The variables have their types; one is never in one's own list.
TypeOK ==
    /\ scene \in [Devices -> Scenes]
    /\ signedIn \in [Devices -> BOOLEAN]
    /\ handler \in [Devices -> Handlers] /\ flows \in [Devices -> 0..MaxSignIns]
    /\ awake \in [Devices -> BOOLEAN]
    /\ writes \in [Devices -> Seq({"0", "1"})]
    /\ server \in [Devices -> State]
    /\ snaps \in [Devices -> Seq([Devices -> State])]
    /\ listening \in [Devices -> BOOLEAN]
    /\ users \in [Devices -> [Devices -> State]]
    /\ changes \in 0..MaxChanges /\ kills \in 0..MaxKills /\ signIns \in 0..MaxSignIns
    /\ killed \subseteq Devices /\ late \subseteq Devices
    /\ \A d \in Devices : users[d][d] = Absent

\* The state the server has of d once everything written has been sent.
Final(d) == IF writes[d] = <<>> THEN server[d] ELSE writes[d][Len(writes[d])]

\* What a signed-in device has written last is "1" exactly while its scene is
\* in the foreground. Only ending the process, or an answer of Google's that
\* arrives in the background, leaves a user online who is not, until the scene
\* changes again (SceneDelegate, onlineState, saveUserDetails, didSignInFor).
PresenceFollowsScene ==
    \A d \in Devices : signedIn[d] /\ d \notin killed \cup late =>
        (Final(d) = "1" <=> Foreground(d))

\* A list of users with no event under way shows everybody else's state on the
\* server (receiveAllUsers).
ListCurrent ==
    \A d \in Devices : listening[d] /\ snaps[d] = <<>> =>
        \A e \in Devices \ {d} : users[d][e] = server[e]

\* A user who stays in the foreground is, in the end, online in every list
\* that stays on the screen of a running process.
OnlineIsSeen ==
    \A d, e \in Devices : d # e =>
        (<>[](signedIn[d] /\ Foreground(d) /\ listening[e] /\ Foreground(e))
            => <>[](users[e][d] = "1"))

=============================================================================
