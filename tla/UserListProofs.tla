---------------------------- MODULE UserListProofs ----------------------------
(***************************************************************************)
(* The list of users, for any number of users, cells, arrays and loads.    *)
(* UserListInv adds to the properties how rows and cells agree between     *)
(* reloads, and which loads can still write to a cell.                     *)
(***************************************************************************)
EXTENDS UserList, FiniteSetTheorems, SequenceTheorems, TLAPS

\* Without a pending reload every row on screen shows the user of that row.
RowsMatch ==
    ~reloading => \A c \in Cells : row[c] # 0 =>
        row[c] \in DOMAIN users /\ users[row[c]] = user[c]

\* The cache holds a user's image under that user's URL only.
CacheOwn == \A u \in Users : imageCache[u] \in {Nil, u}

\* Loads have numbers of their own; the load a cell's user has called for is
\* for that user, and the image has not been found while it is under way.
LoadsNumbered ==
    /\ \A l \in loads : l.id <= started
    /\ \A l, m \in loads : l.id = m.id => l = m
    /\ \A l \in loads : l.id = latest[l.cell] =>
           l.user = user[l.cell] /\ l.cell \notin found

\* Only the latest load can write to a clean cell.
CleanLoads == \A l \in loads : l.cell \in clean => l.id = latest[l.cell]

UserListInv == /\ TypeOK /\ OpensShownUser /\ RightImage
               /\ RowsMatch /\ CacheOwn /\ LoadsNumbered /\ CleanLoads

-----------------------------------------------------------------------------
LEMMA UserListInit == Init => UserListInv
<1> SUFFICES ASSUME Init PROVE UserListInv
  OBVIOUS
<1>1. users \in Seq(Users)
  BY EmptySeq DEF Init
<1>2. TypeOK
  <2>1. arrays \in 0..MaxArrays /\ started \in 0..MaxLoads /\ 0 \in 0..MaxLoads /\ 0 \in Nat
    BY BoundsAssumption DEF Init
  <2>2. /\ row \in [Cells -> Nat] /\ latest \in [Cells -> 0..MaxLoads]
        /\ user \in [Cells -> Image] /\ image \in [Cells -> Image]
        /\ imageCache \in [Users -> Image]
    BY <2>1 DEF Init, Image
  <2>3. opened \in [shown : Image, user : Image, pending : BOOLEAN]
    BY DEF Init, Image
  <2> QED
    BY Zenon, <1>1, <2>1, <2>2, <2>3 DEF Init, TypeOK
<1>3. OpensShownUser /\ RightImage /\ RowsMatch /\ CacheOwn
  BY DEF Init, OpensShownUser, RightImage, RowsMatch, CacheOwn
<1>4. LoadsNumbered /\ CleanLoads
  BY DEF Init, LoadsNumbered, CleanLoads
<1> QED
  BY <1>2, <1>3, <1>4 DEF UserListInv

LEMMA ArraysOfUsers == Arrays \subseteq Seq(Users)
<1> SUFFICES ASSUME NEW s \in Arrays PROVE s \in Seq(Users)
  OBVIOUS
<1>1. Cardinality(Users) \in Nat
  BY UsersAssumption, FS_CardinalityType
<1>2. PICK n \in 0..Cardinality(Users) : s \in Injection(1..n, Users)
  BY DEF Arrays
<1>3. n \in Nat
  BY <1>1
<1>4. s \in [1..n -> Users]
  BY <1>2 DEF Injection, IsInjective
<1> QED
  BY <1>3, <1>4

\* The table changes: an array arrives, the table is laid out, a row leaves the
\* screen or is tapped.
LEMMA StepTable ==
    ASSUME UserListInv,
           \/ \E s \in Arrays : usersDidSet(s)
           \/ layoutSubviews
           \/ running /\ \E c \in Cells : didEndDisplaying(c) \/ didSelectRowAt(c)
           \/ UNCHANGED vars
    PROVE  UserListInv'
<1>0. TypeOK
  BY DEF UserListInv
<1>1. UNCHANGED <<user, image, imageCache, loads, started, found, latest, clean>>
  BY DEF usersDidSet, layoutSubviews, didEndDisplaying, didSelectRowAt, vars
<1>2. RightImage' /\ CacheOwn' /\ LoadsNumbered' /\ CleanLoads'
  BY <1>1 DEF UserListInv, RightImage, CacheOwn, LoadsNumbered, CleanLoads
<1>3. CASE \E s \in Arrays : usersDidSet(s)
  <2>1. PICK s \in Arrays : usersDidSet(s)
    BY <1>3
  <2>2. users' \in Seq(Users) /\ arrays' \in 0..MaxArrays /\ reloading' = TRUE
        /\ UNCHANGED <<row, opened, running>>
    BY <1>0, <2>1, ArraysOfUsers, BoundsAssumption DEF usersDidSet, TypeOK
  <2>3. TypeOK'
    BY <1>0, <1>1, <2>2 DEF TypeOK
  <2>4. OpensShownUser' /\ RowsMatch'
    BY <2>2 DEF UserListInv, OpensShownUser, RowsMatch
  <2> QED
    BY <1>2, <2>3, <2>4 DEF UserListInv
<1>4. CASE layoutSubviews
  <2>1. TypeOK'
    BY Zenon, <1>0, <1>1, <1>4 DEF TypeOK, layoutSubviews
  <2>2. OpensShownUser' /\ RowsMatch'
    BY <1>4 DEF UserListInv, OpensShownUser, RowsMatch, layoutSubviews
  <2> QED
    BY <1>2, <2>1, <2>2 DEF UserListInv
<1>5. CASE \E c \in Cells : didEndDisplaying(c)
  <2>1. PICK c \in Cells : didEndDisplaying(c)
    BY <1>5
  <2>2. /\ row' = [row EXCEPT ![c] = 0] /\ row' \in [Cells -> Nat]
        /\ UNCHANGED <<users, arrays, reloading, opened, running>>
        /\ \A e \in Cells : row'[e] \in {row[e], 0}
    BY <1>0, <2>1 DEF didEndDisplaying, TypeOK
  <2>3. TypeOK'
    BY <1>0, <1>1, <2>2 DEF TypeOK
  <2>4. OpensShownUser' /\ RowsMatch'
    BY <1>1, <2>2 DEF UserListInv, OpensShownUser, RowsMatch
  <2> QED
    BY <1>2, <2>3, <2>4 DEF UserListInv
<1>6. CASE running /\ \E c \in Cells : didSelectRowAt(c)
  <2>1. PICK c \in Cells : didSelectRowAt(c)
    BY <1>6
  <2> DEFINE there == IF row[c] \in DOMAIN users THEN users[row[c]] ELSE Nil
  <2>2. /\ row[c] # 0
        /\ opened' = [shown |-> user[c], user |-> there, pending |-> reloading]
        /\ UNCHANGED <<users, arrays, reloading, row>>
        /\ IF row[c] \in DOMAIN users THEN running' = running ELSE running' = FALSE
    BY <2>1 DEF didSelectRowAt
  <2>3. there \in Image
    <3>1. \A i \in DOMAIN users : users[i] \in Users
      BY <1>0, ElementOfSeq, LenProperties DEF TypeOK
    <3> QED
      BY <3>1 DEF Image
  <2>4. ~reloading => there = user[c] /\ running' = running
    BY <2>2 DEF UserListInv, RowsMatch
  <2> HIDE DEF there
  <2>5. /\ opened' \in [shown : Image, user : Image, pending : BOOLEAN]
        /\ running' \in BOOLEAN
    BY <1>0, <2>2, <2>3 DEF TypeOK
  <2>6. TypeOK'
    BY <1>0, <1>1, <2>2, <2>5 DEF TypeOK
  <2>7. OpensShownUser'
    BY <1>6, <2>2, <2>4 DEF OpensShownUser
  <2>8. RowsMatch'
    BY <1>1, <2>2 DEF UserListInv, RowsMatch
  <2> QED
    BY <1>2, <2>6, <2>7, <2>8 DEF UserListInv
<1>7. CASE UNCHANGED vars
  <2>1. UNCHANGED <<users, arrays, reloading, row, opened, running>>
    BY <1>7 DEF vars
  <2>2. TypeOK'
    BY <1>0, <1>1, <2>1 DEF TypeOK
  <2>3. OpensShownUser' /\ RowsMatch'
    BY <1>1, <2>1 DEF UserListInv, OpensShownUser, RowsMatch
  <2> QED
    BY <1>2, <2>2, <2>3 DEF UserListInv
<1> QED
  BY <1>3, <1>4, <1>5, <1>6, <1>7

\* A row comes on screen: without a URL, with a cached image, or with a load.
LEMMA StepRow ==
    ASSUME UserListInv, NEW c \in Cells, NEW r \in DOMAIN users, cellForRowAt(c, r)
    PROVE  UserListInv'
<1> DEFINE u == users[r]
<1>0. TypeOK
  BY DEF UserListInv
<1>1. u \in Users /\ r \in Nat
  BY <1>0, ElementOfSeq, LenProperties DEF TypeOK
<1>2. /\ ~reloading /\ UNCHANGED <<users, arrays, reloading, imageCache, opened, running>>
      /\ row' = [row EXCEPT ![c] = r]
      /\ user' = [user EXCEPT ![c] = u]
      /\ downlodeImage(c, u)
  BY DEF cellForRowAt
<1> HIDE DEF u
<1>3. /\ clean' = IF \E l \in loads : l.cell = c THEN clean \ {c} ELSE clean \cup {c}
      /\ clean' \subseteq Cells
  BY <1>0, <1>2 DEF downlodeImage, TypeOK
<1>4. /\ row' \in [Cells -> Nat] /\ user' \in [Cells -> Image]
      /\ user'[c] = u /\ \A e \in Cells \ {c} : user'[e] = user[e]
      /\ row'[c] = r /\ \A e \in Cells \ {c} : row'[e] = row[e]
  BY <1>0, <1>1, <1>2 DEF TypeOK, Image
<1>5. OpensShownUser' /\ CacheOwn'
  BY <1>2 DEF UserListInv, OpensShownUser, CacheOwn
<1>6. RowsMatch'
  BY <1>2, <1>4 DEF UserListInv, RowsMatch, u
<1>7. /\ \A l \in loads : l \in Load /\ l.id \in 1..MaxLoads /\ l.cell \in Cells
      /\ started \in Nat /\ MaxLoads \in Nat
  BY <1>0, BoundsAssumption DEF TypeOK, Load
<1>8. CASE loads' = loads /\ started' = started /\ latest' = [latest EXCEPT ![c] = 0]
  <2>1. \/ image' = image /\ found' = found \ {c}
        \/ /\ image' = [image EXCEPT ![c] = imageCache[u]] /\ imageCache[u] # Nil
           /\ found' = found \cup {c}
    BY <1>2, <1>7, <1>8 DEF downlodeImage
  <2>2. imageCache[u] \in {Nil, u}
    BY <1>1 DEF UserListInv, CacheOwn
  <2>3. TypeOK'
    <3>1. image' \in [Cells -> Image] /\ found' \subseteq Cells
      BY Zenon, <1>0, <1>1, <2>1, <2>2 DEF TypeOK, Image
    <3>2. latest' \in [Cells -> 0..MaxLoads]
      BY <1>0, <1>7, <1>8 DEF TypeOK
    <3> QED
      BY <1>0, <1>2, <1>3, <1>4, <1>8, <3>1, <3>2 DEF TypeOK
  <2>4. RightImage'
    BY <1>0, <1>3, <1>4, <2>1, <2>2 DEF UserListInv, RightImage, TypeOK
  <2>5. /\ latest'[c] = 0 /\ \A e \in Cells \ {c} : latest'[e] = latest[e]
        /\ found' \subseteq found \cup {c}
    BY <1>0, <1>8, <2>1 DEF TypeOK
  <2>6. LoadsNumbered' /\ CleanLoads'
    BY <1>3, <1>4, <1>7, <1>8, <2>5 DEF UserListInv, LoadsNumbered, CleanLoads
  <2> QED
    BY <1>5, <1>6, <2>3, <2>4, <2>6 DEF UserListInv
<1>9. CASE u \notin NoImage /\ imageCache[u] = Nil
  <2> DEFINE n == [id |-> started + 1, cell |-> c, user |-> u,
                   placeHolder |-> image[c], failed |-> FALSE]
  <2>1. /\ started < MaxLoads /\ started' = started + 1
        /\ loads' = loads \cup {n}
        /\ latest' = [latest EXCEPT ![c] = started + 1]
        /\ found' = found \ {c} /\ image' = image
    BY <1>2, <1>9 DEF downlodeImage
  <2>2. /\ n \in Load /\ n.id = started + 1 /\ n.cell = c /\ n.user = u
        /\ started + 1 \in 1..MaxLoads
    BY <1>0, <1>1, <1>7, <1>9, <2>1 DEF TypeOK, Load
  <2> HIDE DEF n
  <2>3. /\ latest' \in [Cells -> 0..MaxLoads]
        /\ latest'[c] = started + 1 /\ \A e \in Cells \ {c} : latest'[e] = latest[e]
    BY <1>0, <1>7, <2>1, <2>2 DEF TypeOK
  <2>4. TypeOK'
    <3>1. /\ loads' \subseteq Load /\ started' \in 0..MaxLoads
          /\ found' \subseteq Cells
      BY <1>0, <1>7, <2>1, <2>2 DEF TypeOK
    <3> QED
      BY <1>0, <1>2, <1>3, <1>4, <2>1, <2>3, <3>1 DEF TypeOK
  <2>5. RightImage'
    BY <1>3, <1>4, <2>1 DEF UserListInv, RightImage
  <2>6. \A l \in loads : l.id <= started /\ l.id # started + 1 /\ l.id <= started + 1
    BY <1>7 DEF UserListInv, LoadsNumbered
  <2>7. LoadsNumbered'
    <3>1. \A l \in loads' : l.id <= started'
      BY <1>7, <2>1, <2>2, <2>6
    <3>2. \A l, m \in loads' : l.id = m.id => l = m
      BY <2>1, <2>2, <2>6 DEF UserListInv, LoadsNumbered
    <3>3. \A l \in loads' : l.id = latest'[l.cell] =>
              l.user = user'[l.cell] /\ l.cell \notin found'
      BY <1>4, <1>7, <2>1, <2>2, <2>3, <2>6 DEF UserListInv, LoadsNumbered
    <3> QED
      BY <3>1, <3>2, <3>3 DEF LoadsNumbered
  <2>8. CleanLoads'
    BY <1>3, <1>7, <2>1, <2>2, <2>3 DEF UserListInv, CleanLoads
  <2> QED
    BY <1>5, <1>6, <2>4, <2>5, <2>7, <2>8 DEF UserListInv
<1> QED
  BY <1>2, <1>8, <1>9 DEF downlodeImage

\* A load ends, or its first block puts the placeholder back.
LEMMA StepLoad ==
    ASSUME UserListInv, NEW l \in loads,
           loadSucceeds(l) \/ loadErrs(l) \/ noData(l) \/ noImage(l)
    PROVE  UserListInv'
<1>0. TypeOK
  BY DEF UserListInv
<1>1. UNCHANGED <<users, arrays, reloading, row, user, started, latest, clean, opened,
                  running>>
  BY DEF loadSucceeds, loadErrs, noData, noImage, Restore
<1>2. /\ l \in Load /\ l.cell \in Cells /\ l.user \in Users /\ l.placeHolder \in Image
      /\ l.cell \in clean => l.id = latest[l.cell]
      /\ l.id = latest[l.cell] => l.user = user[l.cell] /\ l.cell \notin found
  BY <1>0 DEF TypeOK, Load, UserListInv, CleanLoads, LoadsNumbered
<1>3. OpensShownUser' /\ RowsMatch'
  BY <1>1 DEF UserListInv, OpensShownUser, RowsMatch
<1>4. CASE loadSucceeds(l)
  <2>1. /\ loads' = loads \ {l}
        /\ image' = [image EXCEPT ![l.cell] = l.user]
        /\ imageCache' = [imageCache EXCEPT ![l.user] = l.user]
        /\ found' = IF latest[l.cell] = l.id THEN found \cup {l.cell} ELSE found
    BY <1>4 DEF loadSucceeds
  <2>2. TypeOK'
    <3>1. image' \in [Cells -> Image] /\ imageCache' \in [Users -> Image]
          /\ loads' \subseteq Load /\ found' \subseteq Cells
      BY <1>0, <1>2, <2>1 DEF TypeOK, Image
    <3> QED
      BY <1>0, <1>1, <3>1 DEF TypeOK
  <2>3. CacheOwn'
    BY <1>0, <1>2, <2>1 DEF TypeOK, UserListInv, CacheOwn
  <2>4. RightImage'
    BY <1>0, <1>1, <1>2, <2>1 DEF TypeOK, UserListInv, RightImage
  <2>5. LoadsNumbered' /\ CleanLoads'
    BY <1>1, <2>1 DEF UserListInv, LoadsNumbered, CleanLoads
  <2> QED
    BY <1>3, <2>2, <2>3, <2>4, <2>5 DEF UserListInv
<1>5. CASE loadErrs(l) \/ noData(l) \/ noImage(l)
  <2> DEFINE f == [l EXCEPT !.failed = TRUE]
  <2>1. /\ loads' \subseteq (loads \ {l}) \cup {f}
        /\ image' = image \/ image' = [image EXCEPT ![l.cell] = l.placeHolder]
        /\ UNCHANGED <<imageCache, found>>
    BY <1>5 DEF loadErrs, noData, noImage, Restore
  <2>2. f \in Load /\ f.id = l.id /\ f.cell = l.cell /\ f.user = l.user
    BY Zenon, <1>2 DEF Load
  <2> HIDE DEF f
  <2>3. TypeOK'
    <3>1. image' \in [Cells -> Image] /\ loads' \subseteq Load
      BY Zenon, <1>0, <1>2, <2>1, <2>2 DEF TypeOK
    <3> QED
      BY <1>0, <1>1, <2>1, <3>1 DEF TypeOK
  <2>4. CacheOwn'
    BY <2>1 DEF UserListInv, CacheOwn
  <2>5. RightImage'
    BY <1>0, <1>1, <1>2, <2>1 DEF TypeOK, UserListInv, RightImage
  <2>6. LoadsNumbered' /\ CleanLoads'
    BY <1>1, <1>2, <2>1, <2>2 DEF UserListInv, LoadsNumbered, CleanLoads
  <2> QED
    BY <1>3, <2>3, <2>4, <2>5, <2>6 DEF UserListInv
<1> QED
  BY <1>4, <1>5

\* The cache drops an image.
LEMMA StepEvict ==
    ASSUME UserListInv, NEW u \in Users, Evict(u)
    PROVE  UserListInv'
<1>1. TypeOK'
  BY DEF UserListInv, TypeOK, Evict, Image
<1>2. CacheOwn'
  BY DEF UserListInv, TypeOK, CacheOwn, Evict
<1>3. OpensShownUser' /\ RightImage' /\ RowsMatch' /\ LoadsNumbered' /\ CleanLoads'
  BY DEF UserListInv, OpensShownUser, RightImage, RowsMatch, LoadsNumbered, CleanLoads, Evict
<1> QED
  BY <1>1, <1>2, <1>3 DEF UserListInv

\* UserListInv is inductive.
THEOREM UserListInvariant == Spec => []UserListInv
<1>1. UserListInv /\ [Next]_vars => UserListInv'
  BY StepTable, StepRow, StepLoad, StepEvict DEF Next
<1> QED
  BY <1>1, UserListInit, PTL DEF Spec

\* The variables have their types: a cell shows a user of the list or none, and
\* a load is for a cell and a user (cellForRowAt, downlodeImage).
THEOREM UserListTypes == Spec => []TypeOK
<1>1. UserListInv => TypeOK
  BY DEF UserListInv
<1> QED
  BY <1>1, UserListInvariant, PTL

\* A tap opens the chat of the user whose row was tapped and does not end the
\* process, unless a reload is pending (RecentTableView.didSelectRowAt).
THEOREM TapOpensShownUser == Spec => []OpensShownUser
<1>1. UserListInv => OpensShownUser
  BY DEF UserListInv
<1> QED
  BY <1>1, UserListInvariant, PTL

\* A cell that had no load under way when its row came on screen shows its own
\* user's image once that is found (UIImageView.downlodeImage).
THEOREM FoundImageIsRight == Spec => []RightImage
<1>1. UserListInv => RightImage
  BY DEF UserListInv
<1> QED
  BY <1>1, UserListInvariant, PTL

=============================================================================
