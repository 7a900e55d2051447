------------------------------- MODULE Tracker -------------------------------
(***************************************************************************)
(* The cursor store (internal/state/tracker.go).  The process keeps one    *)
(* cursor per database in memory and rewrites the whole .collector-state   *)
(* file on every SetCursor.  save() truncates the file and then writes it, *)
(* with no temporary file and no rename, so a failed or interrupted save   *)
(* can leave the old contents, an empty file or a prefix of the new JSON.  *)
(* A proper prefix of a JSON object never parses; an empty file does, as   *)
(* "no cursors".                                                           *)
(***************************************************************************)
EXTENDS SourceTime

CONSTANTS
    DB,             \* database paths
    SaveFaults      \* the ways a SetCursor may fail in this instance

ASSUME SaveFaultsAssumption ==
    SaveFaults \subseteq {"unresolved", "unwritten", "emptied", "torn"}

VARIABLES
    cursors,        \* Tracker.state: the process's cursors
    file,           \* the cursors .collector-state parses to
    torn            \* .collector-state does not parse

trackerVars == <<cursors, file, torn>>

NoCursors == [d \in DB |-> ZeroTime]

\* os.WriteFile succeeded: the file holds every cursor in memory.
Saved == file' = cursors' /\ torn' = FALSE

\* os.WriteFile failed before, at, or after truncation.
Damaged ==
    \/ /\ "unwritten" \in SaveFaults
       /\ UNCHANGED <<file, torn>>
    \/ /\ "emptied" \in SaveFaults
       /\ file' = NoCursors
       /\ torn' = FALSE
    \/ /\ "torn" \in SaveFaults
       /\ file' = NoCursors
       /\ torn' = TRUE

\* SetCursor returns nil.
SetCursor(d, c) ==
    /\ cursors' = [cursors EXCEPT ![d] = c]
    /\ Saved

\* SetCursor returns an error: the path does not resolve and nothing has
\* changed, or memory has the new cursor and the file may not.
SetCursorFails(d, c) ==
    \/ /\ "unresolved" \in SaveFaults
       /\ UNCHANGED trackerVars
    \/ /\ cursors' = [cursors EXCEPT ![d] = c]
       /\ Damaged

\* SetCursor with its error ignored by the caller.
SetCursorAnyhow(d, c) == SetCursor(d, c) \/ SetCursorFails(d, c)

\* load: a file that does not parse makes NewTracker fail.
Load ==
    /\ ~torn
    /\ cursors' = file
    /\ UNCHANGED <<file, torn>>

\* The process dies; only the file survives.
Lost ==
    /\ cursors' = NoCursors
    /\ UNCHANGED <<file, torn>>

\* The process dies inside os.WriteFile, after the truncation.
LostInSave ==
    /\ cursors' = NoCursors
    /\ file' = NoCursors
    /\ \/ "emptied" \in SaveFaults /\ torn' = FALSE
       \/ "torn" \in SaveFaults /\ torn' = TRUE
=============================================================================
