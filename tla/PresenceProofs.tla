---------------------------- MODULE PresenceProofs ----------------------------
(***************************************************************************)
(* Online states and lists of users, for any devices and bounds. The       *)
(* strengthenings say that the last event on its way to a list is what the *)
(* server stores, and that a state once stored never disappears.           *)
(***************************************************************************)
EXTENDS Presence, SequenceTheorems, TLAPS

Bit == {"0", "1"}

\* The last event on its way to a list is the server's state.
LastIsServer ==
    \A d \in Devices : listening[d] /\ snaps[d] # <<>> => snaps[d][Len(snaps[d])] = server

\* Whoever is in a list, or in an event, has a state on the server.
NeverAbsentAgain ==
    \A d, e \in Devices :
        /\ users[d][e] # Absent => server[e] # Absent
        /\ \A i \in 1..Len(snaps[d]) : snaps[d][i][e] # Absent => server[e] # Absent

FlowsCounted == \A d \in Devices : flows[d] <= signIns

PresenceInv == /\ TypeOK /\ PresenceFollowsScene /\ ListCurrent
               /\ LastIsServer /\ NeverAbsentAgain /\ FlowsCounted

-----------------------------------------------------------------------------
(* Facts about sequences and the two calls of ChatHalper.                  *)

LEMMA AppendFacts ==
    ASSUME NEW S, NEW s \in Seq(S), NEW x \in S
    PROVE  /\ Append(s, x) \in Seq(S) /\ Append(s, x) # <<>>
           /\ Append(s, x)[Len(Append(s, x))] = x
           /\ \A i \in 1..Len(Append(s, x)) :
                 \/ Append(s, x)[i] = x
                 \/ \E j \in 1..Len(s) : Append(s, x)[i] = s[j]
<1>1. /\ Append(s, x) \in Seq(S) /\ Append(s, x) # <<>>
      /\ Len(Append(s, x)) = Len(s) + 1 /\ Len(s) \in Nat
      /\ \A i \in 1..Len(s) : Append(s, x)[i] = s[i]
      /\ Append(s, x)[Len(s) + 1] = x
  BY AppendProperties, LenProperties
<1>2. \A i \in 1..(Len(s) + 1) : i \in 1..Len(s) \/ i = Len(s) + 1
  BY <1>1
<1> QED
  BY <1>1, <1>2

LEMMA TailFacts ==
    ASSUME NEW S, NEW s \in Seq(S), s # <<>>
    PROVE  /\ Head(s) \in S /\ Tail(s) \in Seq(S)
           /\ Tail(s) = <<>> => Head(s) = s[Len(s)]
           /\ Tail(s) # <<>> => Tail(s)[Len(Tail(s))] = s[Len(s)]
           /\ \A i \in 1..Len(Tail(s)) : \E j \in 1..Len(s) : Tail(s)[i] = s[j]
           /\ \E j \in 1..Len(s) : Head(s) = s[j]
<1>1. /\ Head(s) \in S /\ Tail(s) \in Seq(S) /\ Head(s) = s[1]
      /\ Len(Tail(s)) = Len(s) - 1
      /\ \A i \in 1..Len(Tail(s)) : Tail(s)[i] = s[i + 1]
  BY HeadTailProperties
<1>2. Len(s) \in Nat /\ Len(s) >= 1
  BY EmptySeq, LenProperties
<1>3. Tail(s) = <<>> => Len(s) = 1
  <2>1. Tail(s) = <<>> => Len(Tail(s)) = 0
    BY Zenon, EmptySeq
  <2> QED
    BY <1>1, <1>2, <2>1
<1>4. Tail(s) # <<>> => Len(Tail(s)) >= 1
  BY <1>1, <1>2, EmptySeq, LenProperties
<1> QED
  BY <1>1, <1>2, <1>3, <1>4

\* onlineState adds the state to what the device has written, if signed in.
LEMMA WriteFacts ==
    ASSUME TypeOK, NEW d \in Devices, NEW state \in Bit, onlineState(d, state)
    PROVE  /\ writes' \in [Devices -> Seq(Bit)]
           /\ \A e \in Devices \ {d} : writes'[e] = writes[e]
           /\ signedIn'[d] => writes'[d] # <<>> /\ writes'[d][Len(writes'[d])] = state
<1>1. writes \in [Devices -> Seq(Bit)]
  BY DEF TypeOK, Bit
<1>2. Append(writes[d], state) \in Seq(Bit) /\ Append(writes[d], state) # <<>>
      /\ Append(writes[d], state)[Len(Append(writes[d], state))] = state
  BY <1>1, AppendFacts
<1>3. \/ ~signedIn'[d] /\ writes' = writes
      \/ writes' = [writes EXCEPT ![d] = Append(writes[d], state)]
  BY DEF onlineState
<1> QED
  BY Zenon, <1>1, <1>2, <1>3

Snapshot == [Devices -> State]

\* receiveAllUsers has the server's state sent to the list.
LEMMA ObserveFacts ==
    ASSUME TypeOK, NEW d \in Devices, receiveAllUsers(d)
    PROVE  /\ listening' \in [Devices -> BOOLEAN] /\ snaps' \in [Devices -> Seq(Snapshot)]
           /\ \A e \in Devices \ {d} : listening'[e] = listening[e] /\ snaps'[e] = snaps[e]
           /\ snaps'[d] # <<>> /\ snaps'[d][Len(snaps'[d])] = server
           /\ \A i \in 1..Len(snaps'[d]) :
                 snaps'[d][i] = server \/ \E j \in 1..Len(snaps[d]) : snaps'[d][i] = snaps[d][j]
<1>1. snaps \in [Devices -> Seq(Snapshot)] /\ server \in Snapshot
      /\ listening \in [Devices -> BOOLEAN]
  BY DEF TypeOK, Snapshot
<1>2. snaps' = [snaps EXCEPT ![d] = Append(snaps[d], server)]
      /\ listening' = [listening EXCEPT ![d] = TRUE]
  BY DEF receiveAllUsers
<1>3. /\ Append(snaps[d], server) \in Seq(Snapshot) /\ Append(snaps[d], server) # <<>>
      /\ Append(snaps[d], server)[Len(Append(snaps[d], server))] = server
      /\ \A i \in 1..Len(Append(snaps[d], server)) :
            \/ Append(snaps[d], server)[i] = server
            \/ \E j \in 1..Len(snaps[d]) : Append(snaps[d], server)[i] = snaps[d][j]
  <2>1. snaps[d] \in Seq(Snapshot) /\ server \in Snapshot
    BY <1>1
  <2> QED
    BY <2>1, AppendFacts
<1>4. snaps'[d] = Append(snaps[d], server)
  BY <1>1, <1>2
<1> QED
  BY <1>1, <1>2, <1>3, <1>4

-----------------------------------------------------------------------------
LEMMA PresenceInit == Init => PresenceInv
<1> SUFFICES ASSUME Init PROVE PresenceInv
  OBVIOUS
<1>1. \A S : <<>> \in Seq(S)
  BY EmptySeq
<1>2. TypeOK
  <2>1. changes \in 0..MaxChanges /\ kills \in 0..MaxKills /\ signIns \in 0..MaxSignIns
        /\ 0 \in 0..MaxSignIns
    BY ChangesAssumption DEF Init
  <2>2. /\ scene \in [Devices -> Scenes] /\ handler \in [Devices -> Handlers]
        /\ server \in [Devices -> State] /\ users \in [Devices -> [Devices -> State]]
        /\ \A d \in Devices : users[d][d] = Absent
    BY DEF Init, Scenes, Handlers, State
  <2> QED
    BY Zenon, <1>1, <2>1, <2>2 DEF Init, TypeOK
<1>3. PresenceFollowsScene /\ ListCurrent /\ LastIsServer
  BY DEF Init, PresenceFollowsScene, ListCurrent, LastIsServer
<1>4. NeverAbsentAgain
  <2>1. Len(<<>>) = 0
    BY EmptySeq
  <2> QED
    BY <2>1 DEF Init, NeverAbsentAgain
<1>5. FlowsCounted
  <2>1. (\A d \in Devices : flows[d] = 0) /\ signIns = 0
    BY DEF Init
  <2>2. 0 <= 0
    OBVIOUS
  <2> QED
    BY Zenon, <2>1, <2>2 DEF FlowsCounted
<1> QED
  BY <1>2, <1>3, <1>4, <1>5 DEF PresenceInv

\* What the list properties depend on.
LEMMA ListUnchanged ==
    ASSUME PresenceInv, UNCHANGED <<server, snaps, listening, users>>
    PROVE  ListCurrent' /\ LastIsServer' /\ NeverAbsentAgain'
BY DEF PresenceInv, ListCurrent, LastIsServer, NeverAbsentAgain

\* The scene callbacks: each writes the state that goes with the new scene.
LEMMA StepScene ==
    ASSUME PresenceInv, NEW d \in Devices,
           \/ sceneWillEnterForeground(d) \/ sceneDidBecomeActive(d)
           \/ sceneWillResignActive(d) \/ sceneDidEnterBackground(d)
           \/ sceneDidDisconnect(d)
    PROVE  PresenceInv'
<1>0. TypeOK
  BY DEF PresenceInv
<1> DEFINE to == scene'[d]
           state == IF to \in {"inactive", "active"} THEN "1" ELSE "0"
<1>1. /\ changes < MaxChanges /\ changes' = changes + 1
      /\ UNCHANGED <<signedIn, server, snaps, listening, users, kills, flows, signIns>>
      /\ onlineState(d, state)
      /\ scene' = [scene EXCEPT ![d] = to]
      /\ to \in Scenes
      /\ awake' \in {awake, [awake EXCEPT ![d] = TRUE]}
      /\ killed' \in {killed, killed \ {d}} /\ late' \in {late, late \ {d}}
      /\ handler' = handler \/ handler' = [handler EXCEPT ![d] = IF handler[d] = "none" THEN handler[d] ELSE "detached"]
  <2>0. scene \in [Devices -> Scenes]
    BY <1>0 DEF TypeOK
  <2>1. CASE sceneWillEnterForeground(d)
    BY <2>0, <2>1 DEF sceneWillEnterForeground, Change, signInVars, Scenes
  <2>2. CASE sceneDidBecomeActive(d)
    BY <2>0, <2>2 DEF sceneDidBecomeActive, Change, signInVars, Scenes
  <2>3. CASE sceneWillResignActive(d)
    BY <2>0, <2>3 DEF sceneWillResignActive, Change, signInVars, Scenes
  <2>4. CASE sceneDidEnterBackground(d)
    BY <2>0, <2>4 DEF sceneDidEnterBackground, Change, signInVars, Scenes
  <2>5. CASE sceneDidDisconnect(d)
    BY <2>0, <2>5 DEF sceneDidDisconnect, Change, Scenes
  <2> QED
    BY <2>1, <2>2, <2>3, <2>4, <2>5
<1>2. /\ writes' \in [Devices -> Seq(Bit)]
      /\ \A e \in Devices \ {d} : writes'[e] = writes[e]
      /\ signedIn[d] => writes'[d] # <<>> /\ writes'[d][Len(writes'[d])] = state
  BY <1>0, <1>1, WriteFacts DEF Bit
<1>3. TypeOK'
  <2>1. /\ scene' \in [Devices -> Scenes] /\ awake' \in [Devices -> BOOLEAN]
        /\ handler' \in [Devices -> Handlers]
        /\ killed' \subseteq Devices /\ late' \subseteq Devices
    BY Zenon, <1>0, <1>1 DEF TypeOK, Handlers
  <2>2. changes' \in 0..MaxChanges
    BY <1>0, <1>1, ChangesAssumption DEF TypeOK
  <2> QED
    BY Zenon, <1>0, <1>1, <1>2, <2>1, <2>2 DEF TypeOK, Bit
<1>4. PresenceFollowsScene'
  <2> SUFFICES ASSUME NEW e \in Devices, signedIn'[e], e \notin killed' \cup late'
               PROVE  Final(e)' = "1" <=> Foreground(e)'
    BY DEF PresenceFollowsScene
  <2>1. CASE e = d
    BY <1>1, <1>2, <2>1 DEF Final, Foreground
  <2>2. CASE e # d
    <3>1. scene'[e] = scene[e] /\ writes'[e] = writes[e] /\ e \notin killed \cup late
      BY <1>0, <1>1, <1>2, <2>2 DEF TypeOK
    <3>2. Final(e) = "1" <=> Foreground(e)
      BY <1>1, <3>1 DEF PresenceInv, PresenceFollowsScene
    <3> QED
      BY <1>1, <3>1, <3>2 DEF Final, Foreground
  <2> QED
    BY <2>1, <2>2
<1>5. FlowsCounted'
  BY <1>1 DEF PresenceInv, FlowsCounted
<1> QED
  BY <1>1, <1>3, <1>4, <1>5, ListUnchanged DEF PresenceInv

\* A new list, or none, for an observer that has just been registered.
LEMMA ListObserved ==
    ASSUME PresenceInv, NEW d \in Devices, server' = server,
           \/ UNCHANGED <<listening, snaps, users>>
           \/ /\ receiveAllUsers(d)
              /\ users' = [users EXCEPT ![d] = [e \in Devices |-> Absent]]
    PROVE  /\ listening' \in [Devices -> BOOLEAN] /\ snaps' \in [Devices -> Seq(Snapshot)]
           /\ users' \in [Devices -> [Devices -> State]]
           /\ \A e \in Devices : users'[e][e] = Absent
           /\ ListCurrent' /\ LastIsServer' /\ NeverAbsentAgain'
<1>0. TypeOK
  BY DEF PresenceInv
<1>1. CASE UNCHANGED <<listening, snaps, users>>
  <2>1. ListCurrent' /\ LastIsServer' /\ NeverAbsentAgain'
    BY <1>1, ListUnchanged
  <2> QED
    BY <1>0, <1>1, <2>1 DEF TypeOK, Snapshot
<1>2. CASE /\ receiveAllUsers(d)
           /\ users' = [users EXCEPT ![d] = [e \in Devices |-> Absent]]
  <2>1. /\ listening' \in [Devices -> BOOLEAN] /\ snaps' \in [Devices -> Seq(Snapshot)]
        /\ \A e \in Devices \ {d} : listening'[e] = listening[e] /\ snaps'[e] = snaps[e]
        /\ snaps'[d] # <<>> /\ snaps'[d][Len(snaps'[d])] = server
        /\ \A i \in 1..Len(snaps'[d]) :
              snaps'[d][i] = server \/ \E j \in 1..Len(snaps[d]) : snaps'[d][i] = snaps[d][j]
    BY <1>0, <1>2, ObserveFacts
  <2>2. /\ users' \in [Devices -> [Devices -> State]]
        /\ \A e \in Devices \ {d} : users'[e] = users[e]
        /\ \A e \in Devices : users'[d][e] = Absent
    BY <1>0, <1>2 DEF TypeOK, State
  <2>3. \A e \in Devices : users'[e][e] = Absent
    BY SMTT(30), <1>0, <2>2 DEF TypeOK
  <2>4. ListCurrent' /\ LastIsServer'
    <3>1. ASSUME NEW x \in Devices, listening'[x], snaps'[x] = <<>>, NEW e \in Devices \ {x}
          PROVE  users'[x][e] = server[e]
      BY <2>1, <2>2, <3>1 DEF PresenceInv, ListCurrent
    <3>2. ASSUME NEW x \in Devices, listening'[x], snaps'[x] # <<>>
          PROVE  snaps'[x][Len(snaps'[x])] = server
      <4>1. CASE x = d
        BY <2>1, <4>1
      <4>2. CASE x # d
        BY <2>1, <3>2, <4>2 DEF PresenceInv, LastIsServer
      <4> QED
        BY <4>1, <4>2
    <3> QED
      BY <3>1, <3>2 DEF ListCurrent, LastIsServer
  <2>5. NeverAbsentAgain'
    <3> SUFFICES ASSUME NEW x \in Devices, NEW e \in Devices
                 PROVE  /\ users'[x][e] # Absent => server[e] # Absent
                        /\ \A i \in 1..Len(snaps'[x]) : snaps'[x][i][e] # Absent => server[e] # Absent
      BY DEF NeverAbsentAgain
    <3>1. CASE x = d
      BY <2>1, <2>2, <3>1 DEF PresenceInv, NeverAbsentAgain
    <3>2. CASE x # d
      BY <2>1, <2>2, <3>2 DEF PresenceInv, NeverAbsentAgain
    <3> QED
      BY <3>1, <3>2
  <2> QED
    BY <2>1, <2>2, <2>3, <2>4, <2>5
<1> QED
  BY <1>1, <1>2

LEMMA StepConnect ==
    ASSUME PresenceInv, NEW d \in Devices, willConnectTo(d)
    PROVE  PresenceInv'
<1>0. TypeOK
  BY DEF PresenceInv
<1>1. /\ changes < MaxChanges /\ changes' = changes + 1
      /\ scene[d] = "unattached" /\ scene' = [scene EXCEPT ![d] = "connected"]
      /\ awake' = [awake EXCEPT ![d] = TRUE]
      /\ UNCHANGED <<signedIn, writes, server, kills, killed, late, handler, flows, signIns>>
  BY DEF willConnectTo, Change, signInVars
<1>2. /\ listening' \in [Devices -> BOOLEAN] /\ snaps' \in [Devices -> Seq(Snapshot)]
      /\ users' \in [Devices -> [Devices -> State]]
      /\ \A e \in Devices : users'[e][e] = Absent
      /\ ListCurrent' /\ LastIsServer' /\ NeverAbsentAgain'
  <2>1. \/ UNCHANGED <<listening, snaps, users>>
        \/ /\ receiveAllUsers(d)
           /\ users' = [users EXCEPT ![d] = [e \in Devices |-> Absent]]
    BY Zenon DEF willConnectTo
  <2> QED
    BY <1>1, <2>1, ListObserved
<1>3. TypeOK'
  <2>1. scene' \in [Devices -> Scenes] /\ awake' \in [Devices -> BOOLEAN]
    BY <1>0, <1>1 DEF TypeOK, Scenes
  <2>2. changes' \in 0..MaxChanges
    BY <1>0, <1>1, ChangesAssumption DEF TypeOK
  <2> QED
    BY Zenon, <1>0, <1>1, <1>2, <2>1, <2>2 DEF TypeOK, Snapshot
<1>4. PresenceFollowsScene'
  BY <1>0, <1>1 DEF PresenceInv, PresenceFollowsScene, TypeOK, Final, Foreground
<1>5. FlowsCounted'
  BY <1>1 DEF PresenceInv, FlowsCounted
<1> QED
  BY <1>2, <1>3, <1>4, <1>5 DEF PresenceInv

\* Google answers, in the foreground or not.
LEMMA StepAnswer ==
    ASSUME PresenceInv, NEW d \in Devices, NEW ok \in BOOLEAN, didSignInFor(d, ok)
    PROVE  PresenceInv'
<1>0. TypeOK
  BY DEF PresenceInv
<1>1. /\ flows[d] > 0 /\ flows' = [flows EXCEPT ![d] = flows[d] - 1]
      /\ UNCHANGED <<scene, awake, server, changes, kills, killed, handler, signIns>>
  BY DEF didSignInFor
<1>2. /\ listening' \in [Devices -> BOOLEAN] /\ snaps' \in [Devices -> Seq(Snapshot)]
      /\ users' \in [Devices -> [Devices -> State]]
      /\ \A e \in Devices : users'[e][e] = Absent
      /\ ListCurrent' /\ LastIsServer' /\ NeverAbsentAgain'
  <2>1. \/ UNCHANGED <<listening, snaps, users>>
        \/ /\ receiveAllUsers(d)
           /\ users' = [users EXCEPT ![d] = [e \in Devices |-> Absent]]
    BY Zenon DEF didSignInFor
  <2> QED
    BY <1>1, <2>1, ListObserved
<1>3. /\ signedIn' \in [Devices -> BOOLEAN] /\ writes' \in [Devices -> Seq(Bit)]
      /\ late' \subseteq Devices
      /\ \A e \in Devices \ {d} :
            signedIn'[e] = signedIn[e] /\ writes'[e] = writes[e] /\ (e \in late' <=> e \in late)
      /\ \/ UNCHANGED <<signedIn, writes, late>>
         \/ /\ writes'[d] # <<>> /\ writes'[d][Len(writes'[d])] = "1"
            /\ Foreground(d) \/ d \in late'
  <2>1. CASE ok
    <3>1. /\ signedIn' = [signedIn EXCEPT ![d] = TRUE] /\ onlineState(d, "1")
          /\ late' = IF Foreground(d) THEN late ELSE late \cup {d}
      BY <2>1 DEF didSignInFor, saveUserDetails
    <3>2. signedIn' \in [Devices -> BOOLEAN] /\ signedIn'[d] = TRUE
          /\ \A e \in Devices \ {d} : signedIn'[e] = signedIn[e]
      BY <1>0, <3>1 DEF TypeOK
    <3>3. /\ writes' \in [Devices -> Seq(Bit)]
          /\ \A e \in Devices \ {d} : writes'[e] = writes[e]
          /\ signedIn'[d] => writes'[d] # <<>> /\ writes'[d][Len(writes'[d])] = "1"
      BY <1>0, <3>1, WriteFacts DEF Bit
    <3>4. late' \subseteq Devices /\ (Foreground(d) \/ d \in late')
          /\ \A e \in Devices \ {d} : e \in late' <=> e \in late
      BY <1>0, <3>1 DEF TypeOK
    <3> QED
      BY <3>2, <3>3, <3>4
  <2>2. CASE ~ok
    BY <1>0, <2>2 DEF didSignInFor, TypeOK, Bit
  <2> QED
    BY <2>1, <2>2
<1>4. TypeOK'
  <2>1. flows' \in [Devices -> 0..MaxSignIns]
    BY <1>0, <1>1, ChangesAssumption DEF TypeOK
  <2> QED
    BY Zenon, <1>0, <1>1, <1>2, <1>3, <2>1 DEF TypeOK, Snapshot, Bit
<1>5. PresenceFollowsScene'
  <2> SUFFICES ASSUME NEW e \in Devices, signedIn'[e], e \notin killed' \cup late'
               PROVE  Final(e)' = "1" <=> Foreground(e)'
    BY DEF PresenceFollowsScene
  <2>1. CASE e = d /\ ~UNCHANGED <<signedIn, writes, late>>
    BY <1>1, <1>3, <2>1 DEF Final, Foreground
  <2>2. CASE e # d \/ UNCHANGED <<signedIn, writes, late>>
    <3>1. signedIn[e] /\ writes'[e] = writes[e] /\ e \notin killed \cup late
      BY <1>1, <1>3, <2>2
    <3>2. Final(e) = "1" <=> Foreground(e)
      BY <3>1 DEF PresenceInv, PresenceFollowsScene
    <3> QED
      BY <1>1, <3>1, <3>2 DEF Final, Foreground
  <2> QED
    BY <2>1, <2>2
<1>6. FlowsCounted'
  <2>1. \A e \in Devices : flows[e] \in Nat /\ flows'[e] <= flows[e]
    BY <1>0, <1>1 DEF TypeOK
  <2> QED
    BY <1>0, <1>1, <2>1 DEF PresenceInv, FlowsCounted, TypeOK
<1> QED
  BY <1>2, <1>4, <1>5, <1>6 DEF PresenceInv

\* A write reaches the server: what it says in the end does not change, and
\* every list gets the new state.
LEMMA StepFlush ==
    ASSUME PresenceInv, NEW d \in Devices, Flush(d)
    PROVE  PresenceInv'
<1>0. TypeOK
  BY DEF PresenceInv
<1>1. /\ writes[d] # <<>> /\ writes' = [writes EXCEPT ![d] = Tail(writes[d])]
      /\ server' = [server EXCEPT ![d] = Head(writes[d])]
      /\ snaps' = [e \in Devices |-> IF listening[e] /\ server' # server
                                     THEN Append(snaps[e], server') ELSE snaps[e]]
      /\ UNCHANGED <<scene, signedIn, awake, listening, users, changes, kills, killed,
                     late, handler, flows, signIns>>
  BY DEF Flush, signInVars
<1>2. /\ Head(writes[d]) \in Bit /\ Tail(writes[d]) \in Seq(Bit)
      /\ Tail(writes[d]) = <<>> => Head(writes[d]) = writes[d][Len(writes[d])]
      /\ Tail(writes[d]) # <<>> =>
            Tail(writes[d])[Len(Tail(writes[d]))] = writes[d][Len(writes[d])]
  <2>1. writes[d] \in Seq(Bit)
    BY <1>0 DEF TypeOK, Bit
  <2> QED
    BY <1>1, <2>1, TailFacts
<1>3. /\ server' \in Snapshot /\ server'[d] = Head(writes[d])
      /\ \A e \in Devices \ {d} : server'[e] = server[e]
      /\ \A e \in Devices : server[e] # Absent => server'[e] # Absent
  BY <1>0, <1>1, <1>2 DEF TypeOK, Snapshot, State, Bit, Absent
<1>4. /\ writes' \in [Devices -> Seq(Bit)] /\ writes'[d] = Tail(writes[d])
      /\ \A e \in Devices \ {d} : writes'[e] = writes[e]
  BY <1>0, <1>1, <1>2 DEF TypeOK, Bit
<1>5. \A e \in Devices :
          /\ snaps'[e] \in Seq(Snapshot)
          /\ \/ snaps'[e] = snaps[e] /\ (listening[e] => server' = server)
             \/ /\ snaps'[e] # <<>> /\ snaps'[e][Len(snaps'[e])] = server'
                /\ \A i \in 1..Len(snaps'[e]) :
                      snaps'[e][i] = server' \/ \E j \in 1..Len(snaps[e]) : snaps'[e][i] = snaps[e][j]
  <2> TAKE e \in Devices
  <2>1. snaps[e] \in Seq(Snapshot)
    BY <1>0 DEF TypeOK, Snapshot
  <2>2. CASE listening[e] /\ server' # server
    <3>1. snaps'[e] = Append(snaps[e], server')
      BY <1>1, <2>2
    <3> QED
      BY <1>3, <2>1, <3>1, AppendFacts
  <2>3. CASE ~(listening[e] /\ server' # server)
    BY <1>1, <2>1, <2>3
  <2> QED
    BY <2>2, <2>3
<1>6. TypeOK'
  <2>1. snaps' \in [Devices -> Seq(Snapshot)]
    BY Zenon, <1>1, <1>5
  <2> QED
    BY Zenon, <1>0, <1>1, <1>3, <1>4, <2>1 DEF TypeOK, Snapshot, Bit
<1>7. PresenceFollowsScene'
  <2>1. \A e \in Devices : Final(e)' = Final(e)
    BY <1>1, <1>2, <1>3, <1>4 DEF Final
  <2> QED
    BY <1>1, <2>1 DEF PresenceInv, PresenceFollowsScene, Foreground
<1>8. ListCurrent' /\ LastIsServer'
  <2>1. ASSUME NEW x \in Devices, listening[x], snaps'[x] = <<>>, NEW e \in Devices \ {x}
        PROVE  users[x][e] = server'[e]
    BY <1>5, <2>1 DEF PresenceInv, ListCurrent
  <2>2. ASSUME NEW x \in Devices, listening[x], snaps'[x] # <<>>
        PROVE  snaps'[x][Len(snaps'[x])] = server'
    <3>1. CASE snaps'[x] = snaps[x] /\ server' = server
      BY <2>2, <3>1 DEF PresenceInv, LastIsServer
    <3>2. CASE snaps'[x][Len(snaps'[x])] = server'
      BY <3>2
    <3> QED
      BY <1>5, <2>2, <3>1, <3>2
  <2> QED
    BY ZenonT(30), <1>1, <2>1, <2>2 DEF ListCurrent, LastIsServer
<1>9. NeverAbsentAgain'
  BY <1>1, <1>3, <1>5 DEF PresenceInv, NeverAbsentAgain
<1>10. FlowsCounted'
  BY <1>1 DEF PresenceInv, FlowsCounted
<1> QED
  BY <1>6, <1>7, <1>8, <1>9, <1>10 DEF PresenceInv

\* A list handles an event: after the last one it shows the server's state.
LEMMA StepEvent ==
    ASSUME PresenceInv, NEW d \in Devices, usersChanged(d)
    PROVE  PresenceInv'
<1>0. TypeOK
  BY DEF PresenceInv
<1> DEFINE h == Head(snaps[d])
           list == [e \in Devices |-> IF e = d THEN Absent ELSE h[e]]
<1>1. /\ snaps[d] # <<>> /\ snaps' = [snaps EXCEPT ![d] = Tail(snaps[d])]
      /\ \/ users' = users /\ \A e \in Devices : h[e] = Absent
         \/ users' = [users EXCEPT ![d] = list]
      /\ UNCHANGED <<scene, signedIn, awake, writes, server, listening, changes, kills,
                     killed, late, handler, flows, signIns>>
  BY DEF usersChanged, signInVars
<1>2. /\ h \in Snapshot /\ Tail(snaps[d]) \in Seq(Snapshot)
      /\ Tail(snaps[d]) = <<>> => h = snaps[d][Len(snaps[d])]
      /\ Tail(snaps[d]) # <<>> => Tail(snaps[d])[Len(Tail(snaps[d]))] = snaps[d][Len(snaps[d])]
      /\ \A i \in 1..Len(Tail(snaps[d])) :
            \E j \in 1..Len(snaps[d]) : Tail(snaps[d])[i] = snaps[d][j]
      /\ \E j \in 1..Len(snaps[d]) : h = snaps[d][j]
  <2>1. snaps[d] \in Seq(Snapshot)
    BY <1>0 DEF TypeOK, Snapshot
  <2> QED
    BY <1>1, <2>1, TailFacts
<1>3. list \in Snapshot /\ list[d] = Absent /\ \A e \in Devices \ {d} : list[e] = h[e]
  BY <1>2 DEF Snapshot, State
<1> HIDE DEF h, list
<1>4. /\ snaps' \in [Devices -> Seq(Snapshot)] /\ snaps'[d] = Tail(snaps[d])
      /\ \A e \in Devices \ {d} : snaps'[e] = snaps[e]
  BY <1>0, <1>1, <1>2 DEF TypeOK, Snapshot
<1>5. /\ users' \in [Devices -> Snapshot]
      /\ \/ users'[d] = list
         \/ users'[d] = users[d] /\ \A e \in Devices : h[e] = Absent
      /\ \A e \in Devices \ {d} : users'[e] = users[e]
  BY ZenonT(30), <1>0, <1>1, <1>3 DEF TypeOK, Snapshot
<1>6. TypeOK'
  <2>1. \A e \in Devices : users'[e][e] = Absent
    BY Zenon, <1>0, <1>3, <1>5 DEF TypeOK
  <2> QED
    BY Zenon, <1>0, <1>1, <1>4, <1>5, <2>1 DEF TypeOK, Snapshot
<1>7. PresenceFollowsScene' /\ FlowsCounted'
  BY <1>1 DEF PresenceInv, PresenceFollowsScene, Final, Foreground, FlowsCounted
<1>8. \A e \in Devices : h[e] # Absent => server[e] # Absent
  BY <1>2 DEF PresenceInv, NeverAbsentAgain
<1>9. ListCurrent'
  <2> SUFFICES ASSUME NEW x \in Devices, listening'[x], snaps'[x] = <<>>,
                      NEW e \in Devices \ {x}
               PROVE  users'[x][e] = server'[e]
    BY DEF ListCurrent
  <2>1. CASE x = d
    <3>1. h = server
      BY <1>1, <1>2, <1>4, <2>1 DEF PresenceInv, LastIsServer
    <3>2. CASE users'[d] = list
      BY <1>1, <1>3, <2>1, <3>1, <3>2
    <3>3. CASE users'[d] = users[d] /\ \A y \in Devices : h[y] = Absent
      BY <1>1, <2>1, <3>1, <3>3 DEF PresenceInv, NeverAbsentAgain
    <3> QED
      BY <1>5, <3>2, <3>3
  <2>2. CASE x # d
    BY <1>1, <1>4, <1>5, <2>2 DEF PresenceInv, ListCurrent
  <2> QED
    BY <2>1, <2>2
<1>10. LastIsServer'
  BY <1>1, <1>2, <1>4 DEF PresenceInv, LastIsServer
<1>11. NeverAbsentAgain'
  <2> SUFFICES ASSUME NEW x \in Devices, NEW e \in Devices
               PROVE  /\ users'[x][e] # Absent => server[e] # Absent
                      /\ \A i \in 1..Len(snaps'[x]) : snaps'[x][i][e] # Absent => server[e] # Absent
    BY Zenon, <1>1 DEF NeverAbsentAgain
  <2>0. /\ users[x][e] # Absent => server[e] # Absent
        /\ \A i \in 1..Len(snaps[x]) : snaps[x][i][e] # Absent => server[e] # Absent
    BY DEF PresenceInv, NeverAbsentAgain
  <2>1. CASE x = d
    <3>1. users'[x][e] # Absent => server[e] # Absent
      BY <1>3, <1>5, <1>8, <2>0, <2>1
    <3>2. ASSUME NEW i \in 1..Len(snaps'[x]), snaps'[x][i][e] # Absent
          PROVE  server[e] # Absent
      <4>1. PICK j \in 1..Len(snaps[x]) : snaps'[x][i] = snaps[x][j]
        BY Zenon, <1>2, <1>4, <2>1
      <4> QED
        BY <2>0, <3>2, <4>1
    <3> QED
      BY <3>1, <3>2
  <2>2. CASE x # d
    BY SMTT(30), <1>4, <1>5, <2>0, <2>2
  <2> QED
    BY <2>1, <2>2
<1> QED
  BY <1>6, <1>7, <1>9, <1>10, <1>11 DEF PresenceInv

\* A sign-in starts, or a process is suspended.
LEMMA StepOther ==
    ASSUME PresenceInv,
           (\E d \in Devices : tappedOnSignin(d) \/ Suspend(d)) \/ UNCHANGED vars
    PROVE  PresenceInv'
<1>0. TypeOK
  BY DEF PresenceInv
<1>1. UNCHANGED <<scene, signedIn, writes, server, snaps, listening, users, changes, kills,
                  killed, late>>
  BY DEF tappedOnSignin, Suspend, vars
<1>2. /\ awake' \in [Devices -> BOOLEAN] /\ handler' \in [Devices -> Handlers]
      /\ flows' \in [Devices -> 0..MaxSignIns] /\ signIns' \in 0..MaxSignIns
      /\ FlowsCounted'
  <2>1. CASE \E d \in Devices : tappedOnSignin(d)
    <3>1. PICK d \in Devices : tappedOnSignin(d)
      BY <2>1
    <3>2. /\ signIns < MaxSignIns /\ signIns' = signIns + 1
          /\ flows' = [flows EXCEPT ![d] = flows[d] + 1]
          /\ handler' = [handler EXCEPT ![d] = "attached"] /\ awake' = awake
      BY <3>1 DEF tappedOnSignin
    <3>3. /\ signIns \in Nat /\ MaxSignIns \in Nat
          /\ \A e \in Devices : flows[e] \in Nat /\ flows[e] <= signIns
      BY <1>0, ChangesAssumption DEF TypeOK, PresenceInv, FlowsCounted
    <3>4. \A e \in Devices : flows'[e] \in 0..MaxSignIns /\ flows'[e] <= signIns'
      BY SMTT(30), <1>0, <3>2, <3>3 DEF TypeOK
    <3> QED
      BY <1>0, <3>2, <3>3, <3>4 DEF TypeOK, FlowsCounted, Handlers
  <2>2. CASE (\E d \in Devices : Suspend(d)) \/ UNCHANGED vars
    BY Zenon, <1>0, <2>2 DEF Suspend, vars, signInVars, TypeOK, PresenceInv, FlowsCounted
  <2> QED
    BY <2>1, <2>2
<1>3. TypeOK'
  BY Zenon, <1>0, <1>1, <1>2 DEF TypeOK
<1>4. PresenceFollowsScene'
  BY <1>1 DEF PresenceInv, PresenceFollowsScene, Final, Foreground
<1> QED
  BY <1>1, <1>2, <1>3, <1>4, ListUnchanged DEF PresenceInv

LEMMA StepKill ==
    ASSUME PresenceInv, NEW d \in Devices, Kill(d)
    PROVE  PresenceInv'
<1>0. TypeOK
  BY DEF PresenceInv
<1>1. /\ kills < MaxKills /\ kills' = kills + 1
      /\ scene' = [scene EXCEPT ![d] = "unattached"]
      /\ awake' = [awake EXCEPT ![d] = FALSE]
      /\ writes' = [writes EXCEPT ![d] = <<>>]
      /\ snaps' = [snaps EXCEPT ![d] = <<>>]
      /\ listening' = [listening EXCEPT ![d] = FALSE]
      /\ users' = [users EXCEPT ![d] = [e \in Devices |-> Absent]]
      /\ handler' = [handler EXCEPT ![d] = "none"]
      /\ flows' = [flows EXCEPT ![d] = 0]
      /\ killed' = killed \cup {d} /\ late' = late \ {d}
      /\ UNCHANGED <<signedIn, server, changes, signIns>>
  BY DEF Kill
<1>2. \A S : <<>> \in Seq(S)
  BY EmptySeq
<1>3. /\ writes' \in [Devices -> Seq(Bit)] /\ snaps' \in [Devices -> Seq(Snapshot)]
      /\ snaps'[d] = <<>>
      /\ \A e \in Devices \ {d} : writes'[e] = writes[e] /\ snaps'[e] = snaps[e]
  BY Zenon, <1>0, <1>1, <1>2 DEF TypeOK, Snapshot, Bit
<1>4. /\ users' \in [Devices -> Snapshot]
      /\ \A e \in Devices : users'[d][e] = Absent
      /\ \A e \in Devices \ {d} : users'[e] = users[e]
  BY <1>0, <1>1 DEF TypeOK, Snapshot, State
<1>5. /\ scene' \in [Devices -> Scenes] /\ awake' \in [Devices -> BOOLEAN]
      /\ listening' \in [Devices -> BOOLEAN] /\ listening'[d] = FALSE
      /\ handler' \in [Devices -> Handlers]
      /\ \A e \in Devices \ {d} : scene'[e] = scene[e] /\ listening'[e] = listening[e]
  BY <1>0, <1>1 DEF TypeOK, Scenes, Handlers
<1>6. kills' \in 0..MaxKills /\ flows' \in [Devices -> 0..MaxSignIns] /\ FlowsCounted'
  BY <1>0, <1>1, ChangesAssumption DEF TypeOK, PresenceInv, FlowsCounted
<1>7. TypeOK'
  <2>1. \A e \in Devices : users'[e][e] = Absent
    BY Zenon, <1>0, <1>4 DEF TypeOK
  <2>2. killed' \subseteq Devices /\ late' \subseteq Devices
    BY SMTT(30), <1>0, <1>1 DEF TypeOK
  <2> QED
    BY Zenon, <1>0, <1>1, <1>3, <1>4, <1>5, <1>6, <2>1, <2>2 DEF TypeOK, Snapshot, Bit
<1>8. PresenceFollowsScene'
  BY <1>1, <1>3, <1>5 DEF PresenceInv, PresenceFollowsScene, Final, Foreground
<1>9. ListCurrent' /\ LastIsServer'
  BY <1>1, <1>3, <1>4, <1>5 DEF PresenceInv, ListCurrent, LastIsServer
<1>10. NeverAbsentAgain'
  <2>1. Len(<<>>) = 0
    BY EmptySeq
  <2> QED
    BY <1>1, <1>3, <1>4, <2>1 DEF PresenceInv, NeverAbsentAgain
<1> QED
  BY <1>6, <1>7, <1>8, <1>9, <1>10 DEF PresenceInv

\* PresenceInv is inductive.
THEOREM PresenceInvariant == Spec => []PresenceInv
<1>1. PresenceInv /\ [Next]_vars => PresenceInv'
  BY StepScene, StepConnect, StepAnswer, StepFlush, StepEvent, StepOther, StepKill
     DEF Next, Deliver
<1> QED
  BY <1>1, PresenceInit, PTL DEF Spec

\* The variables have their types, and no device lists itself
\* (receiveAllUsers).
THEOREM PresenceTypes == Spec => []TypeOK
<1>1. PresenceInv => TypeOK
  BY DEF PresenceInv
<1> QED
  BY <1>1, PresenceInvariant, PTL

\* What a signed-in device has written last follows its scene, but for ended
\* processes and answers that come in the background (SceneDelegate,
\* ViewController.saveUserDetails, ChatHalper.onlineState).
THEOREM StateFollowsScene == Spec => []PresenceFollowsScene
<1>1. PresenceInv => PresenceFollowsScene
  BY DEF PresenceInv
<1> QED
  BY <1>1, PresenceInvariant, PTL

\* A list with no event under way shows the server's states
\* (ChatHalper.receiveAllUsers).
THEOREM ListsAreCurrent == Spec => []ListCurrent
<1>1. PresenceInv => ListCurrent
  BY DEF PresenceInv
<1> QED
  BY <1>1, PresenceInvariant, PTL

=============================================================================
