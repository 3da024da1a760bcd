------------------------- MODULE LogLifecycleProofs -------------------------
(***************************************************************************)
(* Theorems about the life of log server processes, for any set of them:   *)
(* about LogLifecycle, and about DbStart, which has variables of its own.  *)
(***************************************************************************)
EXTENDS LogLifecycle, DbStart, TLAPS

Up(p) == pc[p] # "off"

\* What the first steps of a process that is alone lead to: it finds no path,
\* binds the path to its socket, listens, and keeps both to its end.
Phase(p) ==
    /\ pc[p] = "bind" => path = "none"
    /\ pc[p] \in {"listen", "ring", "running", "close"} => path = p
    /\ pc[p] \in {"ring", "running", "close"} => listening[p]

\* A listening socket is bound, a bound one belongs to a process past bind and
\* before the end, and it is the only one the path can name.
Sockets ==
    /\ \A p \in Processes : listening[p] => bound[p]
    /\ \A p \in Processes : bound[p] => pc[p] \in {"listen", "ring", "running", "close"}

\* As long as no process has overlapped with another, at most one is up; if
\* none has crashed either, it finds and leaves the path free.
Alone ==
    /\ ~overlapped => \A p, q \in Processes : Up(p) /\ Up(q) => p = q
    /\ ~overlapped /\ ~crashed =>
         /\ \A p \in Processes : Phase(p)
         /\ (\A p \in Processes : ~Up(p)) => path = "none"

IInv == TypeOK /\ PathIsBound /\ Sockets /\ StaleNeedsCrash /\ Alone

Step(p) ==
    \/ Start(p) \/ Bind(p) \/ Listen(p) \/ MakeRing(p) \/ Fails(p)
    \/ Shutdown(p) \/ Close(p) \/ Unlink(p) \/ Crash(p)

-----------------------------------------------------------------------------
(* The invariant                                                           *)

LEMMA InitIInv == Init => IInv
  BY ProcessesOK DEF Init, IInv, TypeOK, Labels, PathIsBound, Sockets, StaleNeedsCrash,
    Alone, Up, Phase

LEMMA StutterKeeps ==
    ASSUME IInv, UNCHANGED vars
    PROVE  IInv'
  BY DEF IInv, TypeOK, Labels, PathIsBound, Sockets, StaleNeedsCrash, Alone, Up, Phase,
    vars

LEMMA TypeStep ==
    ASSUME TypeOK, NEW p \in Processes, Step(p)
    PROVE  TypeOK'
  BY DEF TypeOK, Labels, Step, Start, Bind, Listen, MakeRing, Fails, Shutdown, Close,
    Unlink, Crash, Goto, CloseSocket, Orphaned

LEMMA SocketsStep ==
    ASSUME TypeOK, PathIsBound, Sockets, NEW p \in Processes, Step(p)
    PROVE  PathIsBound' /\ Sockets'
  <1>1. CASE Start(p) \/ Listen(p) \/ MakeRing(p) \/ Shutdown(p)
    BY <1>1 DEF TypeOK, Labels, PathIsBound, Sockets, Start, Listen, MakeRing, Shutdown,
      Goto
  <1>2. CASE Bind(p)
    BY <1>2, ProcessesOK DEF TypeOK, Labels, PathIsBound, Sockets, Bind, Goto
  <1>3. CASE Fails(p) \/ Close(p) \/ Crash(p)
    BY <1>3, ProcessesOK DEF TypeOK, Labels, PathIsBound, Sockets, Fails, Close, Crash,
      Goto, CloseSocket, Orphaned
  <1>4. CASE Unlink(p)
    BY <1>4, ProcessesOK DEF TypeOK, Labels, PathIsBound, Sockets, Unlink, Goto
  <1> QED BY <1>1, <1>2, <1>3, <1>4 DEF Step

\* The step that closes the socket under the path is followed by its unlink.
LEMMA StaleStep ==
    ASSUME TypeOK, StaleNeedsCrash, NEW p \in Processes, Step(p)
    PROVE  StaleNeedsCrash'
  <1>1. CASE Start(p) \/ Listen(p) \/ MakeRing(p) \/ Shutdown(p) \/ Bind(p)
    BY <1>1, ProcessesOK DEF TypeOK, StaleNeedsCrash, Start, Listen, MakeRing, Shutdown,
      Bind, Goto
  <1>2. CASE Close(p)
    BY <1>2 DEF TypeOK, StaleNeedsCrash, Close, Goto
  <1>3. CASE Fails(p) \/ Unlink(p) \/ Crash(p)
    BY <1>3 DEF TypeOK, StaleNeedsCrash, Fails, Unlink, Crash
  <1> QED BY <1>1, <1>2, <1>3 DEF Step

LEMMA AloneStep ==
    ASSUME TypeOK, PathIsBound, Sockets, Alone, NEW p \in Processes, Step(p)
    PROVE  Alone'
  <1>1. CASE Start(p)
    BY <1>1 DEF TypeOK, Alone, Up, Phase, Start, Goto
  <1>2. CASE Bind(p)
    BY <1>2 DEF TypeOK, Alone, Up, Phase, Bind, Goto
  <1>3. CASE Listen(p)
    BY <1>3 DEF TypeOK, PathIsBound, Alone, Up, Phase, Listen, Goto
  <1>4. CASE MakeRing(p) \/ Shutdown(p)
    BY <1>4 DEF TypeOK, Alone, Up, Phase, MakeRing, Shutdown, Goto
  <1>5. CASE Fails(p)
    BY <1>5 DEF TypeOK, Alone, Up, Phase, Fails, Goto, CloseSocket
  <1>6. CASE Close(p)
    BY <1>6 DEF TypeOK, Alone, Up, Phase, Close, Goto, CloseSocket
  <1>7. CASE Unlink(p)
    BY <1>7 DEF TypeOK, Alone, Up, Phase, Unlink, Goto
  <1>8. CASE Crash(p)
    BY <1>8 DEF TypeOK, Alone, Up, Crash, Goto
  <1> QED BY <1>1, <1>2, <1>3, <1>4, <1>5, <1>6, <1>7, <1>8 DEF Step

LEMMA NextIInv == IInv /\ [Next]_vars => IInv'
  <1> SUFFICES ASSUME IInv, [Next]_vars PROVE IInv'
    OBVIOUS
  <1>1. CASE UNCHANGED vars
    BY <1>1, StutterKeeps
  <1>2. ASSUME NEW p \in Processes, Step(p)
        PROVE IInv'
    BY <1>2, TypeStep, SocketsStep, StaleStep, AloneStep DEF IInv
  <1> QED BY <1>1, <1>2 DEF Next, Step

LEMMA Invariance == Spec => []IInv
  BY InitIInv, NextIInv, PTL DEF Spec

-----------------------------------------------------------------------------
(* The theorems                                                            *)

\* Every variable keeps its type.
THEOREM TypeCorrect == Spec => []TypeOK
<1>1. IInv => TypeOK
  BY DEF IInv
<1> QED BY Invariance, <1>1, PTL

\* However many processes start, overlap and crash, the path names no socket
\* but the one that is bound to it (Bind, Orphaned).
THEOREM PathNamesItsSocket == Spec => []PathIsBound
<1>1. IInv => PathIsBound
  BY DEF IInv
<1> QED BY Invariance, <1>1, PTL

\* Every way out of main leaves no stale path, a crash excepted, whichever
\* processes run at the same time.
THEOREM OnlyCrashesLeaveStalePaths == Spec => []StaleNeedsCrash
<1>1. IInv => StaleNeedsCrash
  BY DEF IInv
<1> QED BY Invariance, <1>1, PTL

\* A process that runs is reached through the path, as long as none has crashed
\* or overlapped with another: the unchecked results of bind and listen are
\* harmless then.
THEOREM ReachedIfAlone == Spec => []AloneIsReachable
<1>1. IInv => AloneIsReachable
  BY DEF IInv, Alone, Phase, AloneIsReachable, Reachable
<1> QED BY Invariance, <1>1, PTL

-----------------------------------------------------------------------------
(* DbStart                                                                 *)

Directories == {"data", "segments", "tmp"}

DbTypes ==
    /\ exists \subseteq {"root"} \cup Directories
    /\ stage \in [Starters -> {"idle", "open", "make", "reopen", "started", "refused"}
                              \cup Errors]
    /\ dir \in [Starters -> 1..3]
    /\ handles \in [Starters -> SUBSET Directories]
    /\ rivals \in [Starters -> SUBSET Starters]

\* What a starter has opened, by the directory it is at.
Behind(i) == CASE i = 1 -> {} [] i = 2 -> {"data"} [] i = 3 -> {"data", "segments"}

\* A starter holds every directory before the one it is at, and each of them is
\* on the disk.
Holds(s) ==
    /\ Working(s) => handles[s] = Behind(dir[s])
    /\ stage[s] = "reopen" => Dirs[dir[s]] \in exists
    /\ handles[s] \subseteq exists

\* A directory is made in one that exists.
Rooted ==
    /\ "data" \in exists => "root" \in exists
    /\ {"segments", "tmp"} \cap exists # {} => "data" \in exists

\* Of two starters at work each is a rival of the other.
RivalsKnown ==
    \A s, t \in Starters : s # t /\ Working(s) /\ Working(t) => t \in rivals[s]

\* What a starter without rivals has not found is still missing when it makes it.
Unraced(s) ==
    /\ rivals[s] = {} /\ stage[s] = "make" => Dirs[dir[s]] \notin exists
    /\ stage[s] = "PathAlreadyExists" => rivals[s] # {}
    /\ stage[s] = "FileNotFound" => "root" \notin exists

DbInv ==
    /\ DbTypes /\ Rooted /\ RivalsKnown
    /\ \A s \in Starters : Holds(s) /\ Unraced(s)

LEMMA DirsAre ==
    /\ Len(Dirs) = 3
    /\ Dirs[1] = "data" /\ Dirs[2] = "segments" /\ Dirs[3] = "tmp"
  BY DEF Dirs

\* The directory at hand, its parent and the ones behind it.
LEMMA AtHand ==
    ASSUME NEW i \in 1..3
    PROVE  /\ Dirs[i] \in Directories
           /\ Behind(i) \subseteq Directories
           /\ i < 3 => Behind(i + 1) = Behind(i) \cup {Dirs[i]}
           /\ i = 3 => Behind(i) \cup {Dirs[i]} = Directories
           /\ i = 1 => ParentOf(Dirs[i]) = "root"
           /\ i # 1 => ParentOf(Dirs[i]) = "data" /\ "data" \in Behind(i)
  <1>1. CASE i = 1
    BY <1>1, DirsAre DEF Directories, Behind, ParentOf
  <1>2. CASE i = 2
    BY <1>2, DirsAre DEF Directories, Behind, ParentOf
  <1>3. CASE i = 3
    BY <1>3, DirsAre DEF Directories, Behind, ParentOf
  <1>4. QED
    BY <1>1, <1>2, <1>3

LEMMA DbInitInv == DbInit => DbInv
  BY DEF DbInit, DbInv, DbTypes, Rooted, RivalsKnown, Holds, Unraced, Working,
    Directories

LEMMA StartKeeps ==
    ASSUME DbInv, NEW s \in Starters, StartDb(s)
    PROVE  DbInv'
  <1>1. /\ ~Working(s) /\ exists' = exists
        /\ stage' = [stage EXCEPT ![s] = "open"]
        /\ dir' = [dir EXCEPT ![s] = 1] /\ handles' = [handles EXCEPT ![s] = {}]
        /\ rivals' = [t \in Starters |->
              IF t = s THEN {r \in Starters \ {s} : Working(r)}
              ELSE IF Working(t) THEN rivals[t] \cup {s} ELSE rivals[t]]
    BY DEF StartDb, ToStage
  <1>2. DbTypes'
    BY <1>1 DEF DbInv, DbTypes, Errors
  <1>3. Rooted'
    BY <1>1 DEF DbInv, Rooted
  <1>4. /\ stage'[s] = "open" /\ dir'[s] = 1 /\ handles'[s] = {}
        /\ \A t \in Starters : t # s => /\ stage'[t] = stage[t] /\ dir'[t] = dir[t]
                                         /\ handles'[t] = handles[t]
    BY <1>1 DEF DbInv, DbTypes, Errors
  <1>5. /\ Working(s)'
        /\ \A t \in Starters : t # s => (Working(t)' <=> Working(t))
    BY <1>4 DEF Working
  <1>6. RivalsKnown'
    BY <1>1, <1>5 DEF DbInv, RivalsKnown
  <1>7. ASSUME NEW t \in Starters PROVE Holds(t)' /\ Unraced(t)'
    <2>1. CASE t = s
      <3>1. Behind(1) = {}
        BY DEF Behind
      <3>2. QED
        BY <1>1, <1>4, <2>1, <3>1 DEF Holds, Unraced
    <2>2. CASE t # s
      <3>1. rivals'[t] = {} => rivals[t] = {}
        BY <1>1, <2>2
      <3>2. QED
        BY <1>1, <1>4, <1>5, <2>2, <3>1 DEF DbInv, Holds, Unraced
    <2>3. QED
      BY <2>1, <2>2
  <1>8. QED
    BY <1>2, <1>3, <1>6, <1>7 DEF DbInv

\* A step of s that makes nothing disturbs what is said of s alone.
LEMMA MoveKeeps ==
    ASSUME DbInv, NEW s \in Starters, UNCHANGED <<exists, rivals>>, DbTypes',
           \A t \in Starters : t # s => /\ stage'[t] = stage[t] /\ dir'[t] = dir[t]
                                         /\ handles'[t] = handles[t],
           Working(s)' => Working(s), Holds(s)', Unraced(s)'
    PROVE  DbInv'
  <1>1. Rooted'
    BY DEF DbInv, Rooted
  <1>2. \A t \in Starters : Working(t)' => Working(t)
    BY DEF Working
  <1>3. RivalsKnown'
    BY <1>2 DEF DbInv, RivalsKnown
  <1>4. ASSUME NEW t \in Starters PROVE Holds(t)' /\ Unraced(t)'
    <2>1. CASE t = s
      BY <2>1
    <2>2. CASE t # s
      <3>1. Working(t)' <=> Working(t)
        BY <2>2 DEF Working
      <3>2. QED
        BY <2>2, <3>1 DEF DbInv, Holds, Unraced
    <2>3. QED
      BY <2>1, <2>2
  <1>5. QED
    BY <1>1, <1>3, <1>4 DEF DbInv

\* A starter opens the directory at hand, found or made, and goes on.
LEMMA OpenedKeeps ==
    ASSUME DbInv, NEW s \in Starters, Working(s), Dirs[dir[s]] \in exists,
           Opened(s)
    PROVE  DbInv'
  <1> DEFINE i == dir[s]
             H == handles[s] \cup {Dirs[i]}
  <1>1. i \in 1..3 /\ handles[s] = Behind(i) /\ handles[s] \subseteq exists
    BY DEF DbInv, DbTypes, Holds
  <1>2. /\ H \in SUBSET Directories /\ H \subseteq exists
        /\ i < 3 => H = Behind(i + 1)
        /\ i = 3 => H = Directories
    BY <1>1, AtHand
  <1>3. /\ handles' = [handles EXCEPT ![s] = H] /\ UNCHANGED <<exists, rivals>>
        /\ \/ /\ i = 3 /\ stage' = [stage EXCEPT ![s] = "started"] /\ dir' = dir
           \/ /\ i # 3 /\ stage' = [stage EXCEPT ![s] = "open"]
              /\ dir' = [dir EXCEPT ![s] = i + 1]
    BY DirsAre DEF Opened, ToStage
  <1> HIDE DEF i, H
  <1>4. DbTypes'
    BY <1>1, <1>2, <1>3 DEF DbInv, DbTypes, Errors
  <1>5. /\ handles'[s] = H
        /\ \/ i = 3 /\ stage'[s] = "started"
           \/ i # 3 /\ stage'[s] = "open" /\ dir'[s] = i + 1
    BY <1>3 DEF DbInv, DbTypes, Errors
  <1>6. Holds(s)'
    BY <1>1, <1>2, <1>3, <1>5 DEF Holds, Working
  <1>7. Unraced(s)'
    BY <1>5 DEF Unraced
  <1>8. \A t \in Starters : t # s => /\ stage'[t] = stage[t] /\ dir'[t] = dir[t]
                                      /\ handles'[t] = handles[t]
    BY <1>3 DEF DbInv, DbTypes, Errors
  <1>9. QED
    BY <1>3, <1>4, <1>6, <1>7, <1>8, MoveKeeps

\* The starter that makes a directory is a rival of every other at work.
LEMMA MakeKeeps ==
    ASSUME DbInv, NEW s \in Starters, Make(s)
    PROVE  DbInv'
  <1> DEFINE d == Dirs[dir[s]]
  <1>1. /\ stage[s] = "make" /\ ParentOf(d) \in exists
        /\ exists' = exists \cup {d} /\ stage' = [stage EXCEPT ![s] = "reopen"]
        /\ UNCHANGED <<dir, handles, rivals>>
    BY DEF Make, ToStage
  <1>2. dir[s] \in 1..3 /\ d \in Directories
    BY AtHand DEF DbInv, DbTypes, Errors
  <1>3. DbTypes'
    BY <1>1, <1>2 DEF DbInv, DbTypes, Errors
  <1>4. Rooted'
    <2>1. d = "data" => "root" \in exists
      BY <1>1 DEF ParentOf
    <2>2. d # "data" => "data" \in exists
      BY <1>1 DEF ParentOf
    <2> HIDE DEF d
    <2>3. QED
      BY <1>1, <1>2, <2>1, <2>2 DEF DbInv, Rooted, Directories
  <1>5. /\ stage'[s] = "reopen" /\ Working(s)
        /\ \A t \in Starters : t # s => stage'[t] = stage[t]
        /\ \A t \in Starters : Working(t)' <=> Working(t)
    BY <1>1 DEF DbInv, DbTypes, Working
  <1>6. RivalsKnown'
    BY <1>1, <1>5 DEF DbInv, RivalsKnown
  <1>7. ASSUME NEW t \in Starters PROVE Holds(t)' /\ Unraced(t)'
    <2>1. CASE t = s
      BY <1>1, <1>5, <2>1 DEF DbInv, Holds, Unraced
    <2>2. CASE t # s
      <3>1. Holds(t)'
        BY <1>1, <1>5, <2>2 DEF DbInv, Holds
      <3>2. stage[t] = "make" => rivals[t] # {}
        BY <1>5, <2>2 DEF DbInv, RivalsKnown, Working
      <3>3. "root" \in exists' => "root" \in exists
        BY <1>1, <1>2 DEF Directories
      <3>4. QED
        BY <1>1, <1>5, <2>2, <3>1, <3>2, <3>3 DEF DbInv, Unraced
    <2>3. QED
      BY <2>1, <2>2
  <1>8. QED
    BY <1>3, <1>4, <1>6, <1>7 DEF DbInv

DbStep(s) ==
    \/ StartDb(s) \/ StartRelative(s) \/ Open(s) \/ Make(s) \/ MakeFails(s)
    \/ Reopen(s) \/ CrashDb(s)

LEMMA DbStepKeeps ==
    ASSUME DbInv, NEW s \in Starters, DbStep(s)
    PROVE  DbInv'
  <1>1. /\ dir[s] \in 1..3
        /\ Working(s) => handles[s] = Behind(dir[s])
        /\ handles[s] \subseteq exists
    BY DEF DbInv, DbTypes, Holds
  <1>2. CASE StartDb(s)
    BY <1>2, StartKeeps
  <1>3. ASSUME NEW error \in Errors, Working(s), Returns(s, error),
               error = "PathAlreadyExists" => rivals[s] # {},
               error = "FileNotFound" => "root" \notin exists
        PROVE  DbInv'
    <2>1. /\ stage' = [stage EXCEPT ![s] = error]
          /\ UNCHANGED <<exists, dir, handles, rivals>>
      BY <1>3 DEF Returns, ToStage
    <2>2. DbTypes' /\ stage'[s] = error /\ \A t \in Starters : t # s => stage'[t] = stage[t]
      BY <2>1 DEF DbInv, DbTypes
    <2>3. Holds(s)' /\ Unraced(s)'
      BY <1>1, <1>3, <2>1, <2>2 DEF Holds, Unraced, Working, Errors
    <2>4. QED
      BY <1>3, <2>1, <2>2, <2>3, MoveKeeps
  <1>4. CASE StartRelative(s)
    <2>1. /\ stage' = [stage EXCEPT ![s] = "refused"]
          /\ UNCHANGED <<exists, dir, handles, rivals>>
      BY <1>4 DEF StartRelative, ToStage
    <2>2. DbTypes' /\ stage'[s] = "refused" /\ \A t \in Starters : t # s => stage'[t] = stage[t]
      BY <2>1 DEF DbInv, DbTypes, Errors
    <2>3. Holds(s)' /\ Unraced(s)' /\ ~Working(s)'
      BY <1>1, <2>1, <2>2 DEF Holds, Unraced, Working
    <2>4. QED
      BY <2>1, <2>2, <2>3, MoveKeeps
  <1>5. CASE Open(s)
    <2>1. stage[s] = "open" /\ Working(s)
      BY <1>5 DEF Open, Working
    <2>2. CASE Dirs[dir[s]] \in exists /\ Opened(s)
      BY <2>1, <2>2, OpenedKeeps
    <2>3. CASE Returns(s, "SystemError")
      BY <1>3, <2>1, <2>3 DEF Errors
    <2>4. CASE /\ Dirs[dir[s]] \notin exists
               /\ ToStage(s, "make") /\ UNCHANGED <<exists, dir, handles, rivals>>
      <3>1. /\ stage' = [stage EXCEPT ![s] = "make"]
            /\ UNCHANGED <<exists, dir, handles, rivals>>
        BY <2>4 DEF ToStage
      <3>2. DbTypes' /\ stage'[s] = "make" /\ \A t \in Starters : t # s => stage'[t] = stage[t]
        BY <3>1 DEF DbInv, DbTypes
      <3>3. Holds(s)' /\ Unraced(s)'
        BY <1>1, <2>1, <2>4, <3>1, <3>2 DEF Holds, Unraced
      <3>4. QED
        BY <2>1, <3>1, <3>2, <3>3, MoveKeeps
    <2>5. QED
      BY <1>5, <2>2, <2>3, <2>4 DEF Open
  <1>6. CASE Make(s)
    BY <1>6, MakeKeeps
  <1>7. CASE MakeFails(s)
    <2>1. stage[s] = "make" /\ Working(s)
      BY <1>7 DEF MakeFails, Working
    <2>2. CASE Dirs[dir[s]] \in exists /\ Returns(s, "PathAlreadyExists")
      <3>1. rivals[s] # {}
        BY <2>1, <2>2 DEF DbInv, Unraced
      <3>2. QED
        BY <1>3, <2>1, <2>2, <3>1 DEF Errors
    <2>3. CASE ParentOf(Dirs[dir[s]]) \notin exists /\ Returns(s, "FileNotFound")
      <3>1. dir[s] = 1
        BY <1>1, <2>1, <2>3, AtHand
      <3>2. "root" \notin exists
        BY <2>3, <3>1, AtHand
      <3>3. QED
        BY <1>3, <2>1, <2>3, <3>2 DEF Errors
    <2>4. CASE Returns(s, "SystemError")
      BY <1>3, <2>1, <2>4 DEF Errors
    <2>5. QED
      BY <1>7, <2>2, <2>3, <2>4 DEF MakeFails
  <1>8. CASE Reopen(s)
    <2>1. stage[s] = "reopen" /\ Working(s)
      BY <1>8 DEF Reopen, Working
    <2>2. CASE Opened(s)
      <3>1. Dirs[dir[s]] \in exists
        BY <2>1 DEF DbInv, Holds
      <3>2. QED
        BY <2>1, <2>2, <3>1, OpenedKeeps
    <2>3. CASE Returns(s, "SystemError")
      BY <1>3, <2>1, <2>3 DEF Errors
    <2>4. QED
      BY <1>8, <2>2, <2>3 DEF Reopen
  <1>9. CASE CrashDb(s)
    <2>1. /\ stage' = [stage EXCEPT ![s] = "idle"] /\ handles' = [handles EXCEPT ![s] = {}]
          /\ UNCHANGED <<exists, dir, rivals>>
      BY <1>9 DEF CrashDb, ToStage
    <2>2. /\ DbTypes' /\ stage'[s] = "idle" /\ handles'[s] = {}
          /\ \A t \in Starters : t # s => stage'[t] = stage[t] /\ handles'[t] = handles[t]
      BY <2>1 DEF DbInv, DbTypes, Errors
    <2>3. Holds(s)' /\ Unraced(s)' /\ ~Working(s)'
      BY <2>1, <2>2 DEF Holds, Unraced, Working
    <2>4. QED
      BY <2>1, <2>2, <2>3, MoveKeeps
  <1>10. QED
    BY <1>2, <1>4, <1>5, <1>6, <1>7, <1>8, <1>9 DEF DbStep

LEMMA DbInvHolds == DbSpec => []DbInv
  <1>1. DbInv /\ [DbNext]_dbVars => DbInv'
    <2> SUFFICES ASSUME DbInv, [DbNext]_dbVars PROVE DbInv'
      OBVIOUS
    <2>1. CASE UNCHANGED dbVars
      BY <2>1 DEF dbVars, DbInv, DbTypes, Rooted, RivalsKnown, Holds, Unraced, Working
    <2>2. CASE DbNext
      BY <2>2, DbStepKeeps DEF DbNext, DbStep
    <2>3. QED
      BY <2>1, <2>2
  <1>2. QED
    BY <1>1, DbInitInv, PTL DEF DbSpec

\* However many processes start on the data directory at the same time, and
\* wherever each of them crashed or failed before: a start finds a directory in
\* its way only if it was raced, and misses one only below a missing parent.
THEOREM NoLeftoverHinders == DbSpec => []LeftoversDoNotHinder
<1>1. DbInv => LeftoversDoNotHinder
  BY DEF DbInv, Unraced, LeftoversDoNotHinder
<1> QED BY DbInvHolds, <1>1, PTL
=============================================================================
