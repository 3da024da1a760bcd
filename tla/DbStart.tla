-------------------------------- MODULE DbStart --------------------------------
(***************************************************************************)
(* DB.start (logs/src/root.zig) opens the data directory and the two       *)
(* directories inside it, and makes those that are missing.  Several       *)
(* processes may start on the same directory, may crash at any step, and   *)
(* start again.  Nothing removes a directory, and nothing else puts        *)
(* anything under these names.  No code of the repository calls DB.start.  *)
(***************************************************************************)
EXTENDS Naturals, Sequences

CONSTANTS Starters

\* The directories in the order they are opened in; each is made in another.
Dirs == <<"data", "segments", "tmp">>
ParentOf(d) == IF d = "data" THEN "root" ELSE "data"

VARIABLES
    exists,   \* the directories on the disk
    stage,    \* of a starter: "idle", "open", "make", "reopen", or how it ended:
              \* "started", "refused" or the error that start returned
    dir,      \* the index in Dirs of the directory it is at
    handles,  \* the directories it has opened
    rivals    \* the other starters at work at some moment since it began

dbVars == <<exists, stage, dir, handles, rivals>>

\* The errors of the system are one: permissions, limits, a full disk and so on.
Errors == {"PathAlreadyExists", "FileNotFound", "SystemError"}

Working(s) == stage[s] \in {"open", "make", "reopen"}

DbInit ==
    /\ exists \in {{}, {"root"}, {"root", "data"}, {"root", "data", "tmp"},
                   {"root", "data", "segments", "tmp"}}
    /\ stage = [s \in Starters |-> "idle"]
    /\ dir = [s \in Starters |-> 1]
    /\ handles = [s \in Starters |-> {}]
    /\ rivals = [s \in Starters |-> {}]

-----------------------------------------------------------------------------
(* The steps                                                               *)

ToStage(s, l) == stage' = [stage EXCEPT ![s] = l]

StartDb(s) ==
    /\ ~Working(s)
    /\ ToStage(s, "open")
    /\ dir' = [dir EXCEPT ![s] = 1]
    /\ handles' = [handles EXCEPT ![s] = {}]
    /\ rivals' = [t \in Starters |->
                    IF t = s THEN {r \in Starters \ {s} : Working(r)}
                    ELSE IF Working(t) THEN rivals[t] \cup {s} ELSE rivals[t]]
    /\ UNCHANGED exists

\* A path that is not absolute is refused before anything is opened.
StartRelative(s) ==
    /\ ~Working(s)
    /\ ToStage(s, "refused")
    /\ UNCHANGED <<exists, dir, handles, rivals>>

\* start returns an error; the directories it has opened stay open.
Returns(s, error) == ToStage(s, error) /\ UNCHANGED <<exists, dir, handles, rivals>>

\* The directory at hand has been opened: on to the next, or done.
Opened(s) ==
    /\ handles' = [handles EXCEPT ![s] = @ \cup {Dirs[dir[s]]}]
    /\ IF dir[s] = Len(Dirs)
       THEN ToStage(s, "started") /\ UNCHANGED dir
       ELSE ToStage(s, "open") /\ dir' = [dir EXCEPT ![s] = @ + 1]
    /\ UNCHANGED <<exists, rivals>>

OpenMakesFirst(s) ==
    /\ stage[s] = "open"
    /\ ToStage(s, "make")
    /\ UNCHANGED <<exists, dir, handles, rivals>>

\* FileNotFound leads to makeDir, every other error is returned.
Open(s) ==
    /\ stage[s] = "open"
    /\ \/ Dirs[dir[s]] \in exists /\ Opened(s)
       \/ /\ Dirs[dir[s]] \notin exists
          /\ ToStage(s, "make")
          /\ UNCHANGED <<exists, dir, handles, rivals>>
       \/ Returns(s, "SystemError")

Make(s) ==
    /\ stage[s] = "make"
    /\ Dirs[dir[s]] \notin exists /\ ParentOf(Dirs[dir[s]]) \in exists
    /\ exists' = exists \cup {Dirs[dir[s]]}
    /\ ToStage(s, "reopen")
    /\ UNCHANGED <<dir, handles, rivals>>

\* The directory is there by now, its parent is not, or the system refuses.
MakeFails(s) ==
    /\ stage[s] = "make"
    /\ \/ Dirs[dir[s]] \in exists /\ Returns(s, "PathAlreadyExists")
       \/ ParentOf(Dirs[dir[s]]) \notin exists /\ Returns(s, "FileNotFound")
       \/ Returns(s, "SystemError")

Reopen(s) ==
    /\ stage[s] = "reopen"
    /\ Opened(s) \/ Returns(s, "SystemError")

\* The process dies; its handles are closed and what it made stays.
CrashDb(s) ==
    /\ stage[s] # "idle"
    /\ ToStage(s, "idle")
    /\ handles' = [handles EXCEPT ![s] = {}]
    /\ UNCHANGED <<exists, dir, rivals>>

DbNext == \E s \in Starters :
    \/ StartDb(s) \/ StartRelative(s) \/ Open(s) \/ Make(s) \/ MakeFails(s)
    \/ Reopen(s) \/ CrashDb(s)

DbSpec == DbInit /\ [][DbNext]_dbVars

-----------------------------------------------------------------------------
(* Properties                                                              *)

\* What a crash or a failed start leaves on the disk never stands in the way of
\* a later one: that a directory is there already is an error only if another
\* starter was at work at the same time, and that one is missing only if the
\* data directory has no parent to be made in.
LeftoversDoNotHinder ==
    \A s \in Starters :
        /\ stage[s] = "PathAlreadyExists" => rivals[s] # {}
        /\ stage[s] = "FileNotFound" => "root" \notin exists
===============================================================================
