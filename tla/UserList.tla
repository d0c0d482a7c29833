------------------------------- MODULE UserList -------------------------------
(***************************************************************************)
(* The list of users on screen: RecentTableView, its reused cells          *)
(* (RecentCell), and the profile images that downlodeImage loads into them *)
(* asynchronously, with the process-wide imageCache.                       *)
(*                                                                         *)
(* Every snapshot of the users brings a new array in the order of a        *)
(* dictionary, so users change rows. An image is known by the user whose   *)
(* profile it is. UITableView and URLSession are external.                 *)
(***************************************************************************)
EXTENDS Naturals, FiniteSets, Sequences, Functions

CONSTANTS
    Users,      \* the other users
    NoImage,    \* users whose profile image is not a URL
    Cells,      \* cells of the table: the rows that fit the screen
    Nil,        \* no user, or the image a new cell starts with
    MaxArrays,  \* bound: arrays handed to the table
    MaxLoads    \* bound: image loads started

ASSUME UsersAssumption == IsFiniteSet(Users) /\ NoImage \subseteq Users
ASSUME NilAssumption == Nil \notin Users
ASSUME BoundsAssumption == MaxArrays \in Nat /\ MaxLoads \in Nat

VARIABLES
    users,       \* RecentTableView.users
    arrays,      \* how many arrays the table has got
    reloading,   \* reloadData has been called since the last layout
    row,         \* row[c]: the row c shows, or 0
    user,        \* user[c]: RecentCell.user
    image,       \* image[c]: whose image imgUser shows, or Nil
    imageCache,  \* imageCache[u]: the image cached for u's URL, or Nil
    loads,       \* loads under way
    started,     \* how many loads have been started
    latest,      \* history: the load c's user has called for, or 0
    found,       \* history: cells whose user's image was cached or has arrived
    clean,       \* history: cells that had no load under way when their row
                 \* came on screen
    opened,      \* the last tap: whom the row showed, whose chat was opened,
                 \* and whether a reload was pending
    running      \* the process has not trapped

vars == <<users, arrays, reloading, row, user, image, imageCache, loads, started,
          found, latest, clean, opened, running>>

\* What receiveAllUsers can hand over: users in any order, nobody twice.
Arrays == UNION { Injection(1..n, Users) : n \in 0..Cardinality(Users) }

Image == Users \cup {Nil}

Load == [id : 1..MaxLoads, cell : Cells, user : Users \ NoImage, placeHolder : Image,
         failed : BOOLEAN]

Init == /\ users = <<>> /\ arrays = 0 /\ reloading = FALSE
        /\ row = [c \in Cells |-> 0]
        /\ user = [c \in Cells |-> Nil]
        /\ image = [c \in Cells |-> Nil]
        /\ imageCache = [u \in Users |-> Nil]
        /\ loads = {} /\ started = 0
        /\ found = {} /\ latest = [c \in Cells |-> 0] /\ clean = {}
        /\ opened = [shown |-> Nil, user |-> Nil, pending |-> FALSE]
        /\ running = TRUE

-----------------------------------------------------------------------------
(* downlodeImage. The placeholder RecentCell passes is the image the cell  *)
(* shows, be it another user's.                                            *)

\* Loads whatever the URL is.
downlodeImageUnguarded(c, u) ==
    /\ clean' = IF \E l \in loads : l.cell = c THEN clean \ {c} ELSE clean \cup {c}
    /\ started < MaxLoads
    /\ started' = started + 1
    /\ loads' = loads \cup {[id |-> started', cell |-> c, user |-> u,
                             placeHolder |-> image[c], failed |-> FALSE]}
    /\ latest' = [latest EXCEPT ![c] = started']
    /\ found' = found \ {c}
    /\ UNCHANGED image

\* Without a URL nothing more happens; a cached image is shown at once.
downlodeImage(c, u) ==
    /\ clean' = IF \E l \in loads : l.cell = c THEN clean \ {c} ELSE clean \cup {c}
    /\ \/ /\ u \in NoImage
          /\ latest' = [latest EXCEPT ![c] = 0]
          /\ found' = found \ {c}
          /\ UNCHANGED <<image, loads, started>>
       \/ /\ u \notin NoImage /\ imageCache[u] # Nil
          /\ image' = [image EXCEPT ![c] = imageCache[u]]
          /\ latest' = [latest EXCEPT ![c] = 0]
          /\ found' = found \cup {c}
          /\ UNCHANGED <<loads, started>>
       \/ /\ u \notin NoImage /\ imageCache[u] = Nil
          /\ started < MaxLoads
          /\ started' = started + 1
          /\ loads' = loads \cup {[id |-> started', cell |-> c, user |-> u,
                                   placeHolder |-> image[c], failed |-> FALSE]}
          /\ latest' = [latest EXCEPT ![c] = started']
          /\ found' = found \ {c}
          /\ UNCHANGED image

\* The image is cached for the user the cell shows by now.
loadSucceedsForCell(l) ==
    /\ ~l.failed
    /\ loads' = loads \ {l}
    /\ image' = [image EXCEPT ![l.cell] = l.user]
    /\ imageCache' = [imageCache EXCEPT ![user[l.cell]] = l.user]
    /\ found' = IF latest[l.cell] = l.id THEN found \cup {l.cell} ELSE found
    /\ UNCHANGED <<users, arrays, reloading, row, user, started, latest, clean, opened, running>>

\* The data of an image has arrived. It goes into the cell, whomever it shows
\* by now, and into the cache under the URL that was asked for.
loadSucceeds(l) ==
    /\ ~l.failed
    /\ loads' = loads \ {l}
    /\ image' = [image EXCEPT ![l.cell] = l.user]
    /\ imageCache' = [imageCache EXCEPT ![l.user] = l.user]
    /\ found' = IF latest[l.cell] = l.id THEN found \cup {l.cell} ELSE found
    /\ UNCHANGED <<users, arrays, reloading, row, user, started, latest, clean, opened, running>>

\* The placeholder of a load is put back, whomever the cell shows by now.
Restore(l) ==
    /\ image' = [image EXCEPT ![l.cell] = l.placeHolder]
    /\ UNCHANGED <<users, arrays, reloading, row, user, imageCache, started, found,
                   latest, clean, opened, running>>

\* A load that ends with an error puts the placeholder back twice, in two
\* blocks: the return of the first one does not leave the handler.
loadErrs(l) ==
    /\ ~l.failed
    /\ loads' = (loads \ {l}) \cup {[l EXCEPT !.failed = TRUE]}
    /\ Restore(l)

noData(l) == loads' = loads \ {l} /\ Restore(l)

\* The data is not an image: nothing happens.
noImage(l) ==
    /\ ~l.failed
    /\ loads' = loads \ {l}
    /\ UNCHANGED <<users, arrays, reloading, row, user, image, imageCache, started, found,
                   latest, clean, opened, running>>

\* NSCache may drop any object at any time.
Evict(u) ==
    /\ imageCache[u] # Nil
    /\ imageCache' = [imageCache EXCEPT ![u] = Nil]
    /\ UNCHANGED <<users, arrays, reloading, row, user, image, loads, started, found,
                   latest, clean, opened, running>>

-----------------------------------------------------------------------------
(* The table.                                                              *)

\* The array is assigned and the table not reloaded.
usersDidSetNoReload(s) ==
    /\ arrays < MaxArrays
    /\ arrays' = arrays + 1
    /\ users' = s
    /\ UNCHANGED <<reloading, row, user, image, imageCache, loads, started, found,
                   latest, clean, opened, running>>

\* receiveAllUsers hands over an array, and didSet reloads the table.
usersDidSet(s) ==
    /\ arrays < MaxArrays
    /\ arrays' = arrays + 1
    /\ users' = s
    /\ reloading' = TRUE
    /\ UNCHANGED <<row, user, image, imageCache, loads, started, found, latest, clean,
                   opened, running>>

\* UITableView carries out a reload: every cell can be used again.
layoutSubviews ==
    /\ reloading
    /\ reloading' = FALSE
    /\ row' = [c \in Cells |-> 0]
    /\ UNCHANGED <<users, arrays, user, image, imageCache, loads, started, found, latest,
                   clean, opened, running>>

\* A row leaves the screen.
didEndDisplaying(c) ==
    /\ row[c] # 0
    /\ row' = [row EXCEPT ![c] = 0]
    /\ UNCHANGED <<users, arrays, reloading, user, image, imageCache, loads, started,
                   found, latest, clean, opened, running>>

\* Row r comes on screen in cell c: RecentCell.user's didSet updates the cell.
cellForRowAt(c, r) ==
    /\ ~reloading
    /\ row[c] = 0 /\ \A e \in Cells : row[e] # r
    /\ row' = [row EXCEPT ![c] = r]
    /\ user' = [user EXCEPT ![c] = users[r]]
    /\ downlodeImage(c, users[r])
    /\ UNCHANGED <<users, arrays, reloading, imageCache, opened, running>>

\* A tap on the row c shows opens the chat of the user who is there now: while a
\* reload is pending perhaps another, or nobody, and then the index traps.
didSelectRowAt(c) ==
    /\ row[c] # 0
    /\ \/ /\ row[c] \in DOMAIN users
          /\ opened' = [shown |-> user[c], user |-> users[row[c]], pending |-> reloading]
          /\ UNCHANGED running
       \/ /\ row[c] \notin DOMAIN users
          /\ opened' = [shown |-> user[c], user |-> Nil, pending |-> reloading]
          /\ running' = FALSE
    /\ UNCHANGED <<users, arrays, reloading, row, user, image, imageCache, loads, started,
                   found, latest, clean>>

Next == /\ running
        /\ \/ \E s \in Arrays : usersDidSet(s)
           \/ layoutSubviews
           \/ \E c \in Cells : didEndDisplaying(c) \/ didSelectRowAt(c)
           \/ \E c \in Cells, r \in DOMAIN users : cellForRowAt(c, r)
           \/ \E l \in loads : loadSucceeds(l) \/ loadErrs(l) \/ noData(l) \/ noImage(l)
           \/ \E u \in Users : Evict(u)

Spec == Init /\ [][Next]_vars

-----------------------------------------------------------------------------
(* Properties.                                                             *)

\* The variables have their types: loads are only started for URLs.
TypeOK ==
    /\ users \in Seq(Users) /\ arrays \in 0..MaxArrays /\ reloading \in BOOLEAN
    /\ row \in [Cells -> Nat]
    /\ user \in [Cells -> Image]
    /\ image \in [Cells -> Image]
    /\ imageCache \in [Users -> Image]
    /\ loads \subseteq Load /\ started \in 0..MaxLoads
    /\ found \subseteq Cells /\ latest \in [Cells -> 0..MaxLoads] /\ clean \subseteq Cells
    /\ opened \in [shown : Image, user : Image, pending : BOOLEAN]
    /\ running \in BOOLEAN

\* However snapshots reorder the users while rows scroll and cells are reused,
\* a tap opens the chat of the user whose row was tapped; only between an array
\* and the layout it calls for can it open another's, or index the array out of
\* its range and end the process (users' didSet, cellForRowAt, didSelectRowAt).
OpensShownUser == ~opened.pending => running /\ opened.user = opened.shown

\* Once the image of a cell's user was found in the cache or has arrived, the
\* cell shows it, if no load for another row was under way for the cell when
\* the row came on screen: whatever is reused, evicted, reloaded or restored, a
\* wrong image is always the work of such a load. In particular the cache never
\* holds an image under another user's URL (downlodeImage).
RightImage ==
    \A c \in found \cap clean : image[c] = user[c]

=============================================================================
