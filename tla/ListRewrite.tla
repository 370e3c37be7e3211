---------------------------- MODULE ListRewrite -----------------------------
(***************************************************************************)
(* Deleting and replacing blobs: listSession.rewrite of                    *)
(* gui/list_service.go builds a new list in a temporary file and swaps it  *)
(* in by two renames, with a .bak file in between.                         *)
(*                                                                         *)
(* The file system is a map from three names to list contents. Every call  *)
(* it makes is a step, can fail when Faults names it, and the process can  *)
(* die after any of them. The session mutex is held throughout, so the     *)
(* only interleaving is with crashes and failures. The contents of a list  *)
(* are its blobs; how it stores them is the subject of BinaryList.         *)
(***************************************************************************)
EXTENDS Integers, Sequences, SequencesExt

CONSTANTS
    Blob,       \* what is stored
    MaxLength,  \* capacity of the list
    Faults,     \* the calls that may fail, and "crash"
    Missing     \* no such file

FaultKinds == {"build", "sync", "close", "backup", "swap", "rollback", "reopen",
               "remove", "crash"}

ASSUME RewriteAssumption ==
    /\ MaxLength \in Nat \ {0}
    /\ Faults \subseteq FaultKinds
    /\ Missing \notin Seq(Blob)

VARIABLES
    dir,      \* the contents of path, path.bak and the temporary file
    session,  \* "closed", "open", or "broken": in the map, without a usable stream
    pc,       \* where rewrite is
    todo,     \* the blobs still to be copied into the temporary file
    edit,     \* history: the list before the latest rewrite and the one it builds
    struck    \* history: the faults of Told that have happened, with "gap" for a
              \* crash between the two renames

vars == <<dir, session, pc, todo, edit, struck>>

\* The faults the properties make a difference of.
Told == {"close", "reopen", "rollback", "remove", "crash", "gap"}

Names == {"path", "bak", "temp"}
Steps == {"idle", "build", "sync", "close", "clear", "backup", "swap", "drop", "reopen"}

Lists == UNION {[1 .. n -> Blob] : n \in 0 .. MaxLength}

TypeOK ==
    /\ dir \in [Names -> Lists \cup {Missing}]
    /\ session \in {"closed", "open", "broken"}
    /\ pc \in Steps
    /\ todo \in Lists
    /\ edit \in [old : Lists, new : Lists]
    /\ struck \subseteq Told

Init ==
    /\ dir = [n \in Names |-> Missing]
    /\ session = "closed"
    /\ pc = "idle"
    /\ todo = << >>
    /\ edit = [old |-> << >>, new |-> << >>]
    /\ struck = {}

Exists(n) == dir[n] # Missing
CanFail(f) == f \in Faults
Without(d, n) == [d EXCEPT ![n] = Missing]

\* os.Remove of n in directory d leaves the directory e; fs are the faults so
\* far. Its error is ignored everywhere.
Removed(d, n, e, fs) ==
    \/ e = Without(d, n) /\ struck' = fs
    \/ CanFail("remove") /\ e = d /\ struck' = fs \cup {"remove"}

\* OpenOrCreateFileStream: the directory after path has been opened.
OpenedOrCreated(d) == IF d["path"] = Missing THEN [d EXCEPT !["path"] = << >>] ELSE d

-----------------------------------------------------------------------------
(* The other calls on the list                                             *)

OpenList ==
    /\ pc = "idle" /\ session = "closed"
    /\ dir' = OpenedOrCreated(dir)
    /\ session' = "open"
    /\ UNCHANGED <<pc, todo, edit, struck>>

\* Also the way out of a session that a failed rewrite has left unusable.
CloseList ==
    /\ pc = "idle" /\ session # "closed"
    /\ session' = "closed"
    /\ UNCHANGED <<dir, pc, todo, edit, struck>>

AddBlob(b) ==
    /\ pc = "idle" /\ session = "open"
    /\ Len(dir["path"]) < MaxLength
    /\ dir' = [dir EXCEPT !["path"] = Append(@, b)]
    /\ UNCHANGED <<session, pc, todo, edit, struck>>

-----------------------------------------------------------------------------
(* rewrite                                                                 *)

\* rewrite removes the temporary file and returns an error, with the session s.
GiveUp(s, fs) ==
    /\ Removed(dir, "temp", dir', fs)
    /\ session' = s
    /\ pc' = "idle"
    /\ todo' = << >>
    /\ UNCHANGED edit

\* The new list is to hold these blobs; the temporary file is created empty.
Begin(blobs) ==
    /\ pc = "idle" /\ session = "open"
    /\ dir' = [dir EXCEPT !["temp"] = << >>]
    /\ todo' = blobs
    /\ edit' = [old |-> dir["path"], new |-> blobs]
    /\ pc' = "build"
    /\ UNCHANGED <<session, struck>>

DeleteBlob(i) ==
    /\ Exists("path") /\ i \in 1 .. Len(dir["path"])
    /\ Begin(RemoveAt(dir["path"], i))

ReplaceBlob(i, b) ==
    /\ Exists("path") /\ i \in 1 .. Len(dir["path"])
    /\ Begin([dir["path"] EXCEPT ![i] = b])

\* One AddReader per blob that stays or is put in place of another.
CopyBlob ==
    /\ pc = "build" /\ todo # << >>
    /\ dir' = [dir EXCEPT !["temp"] = Append(@, Head(todo))]
    /\ todo' = Tail(todo)
    /\ UNCHANGED <<session, pc, edit, struck>>

CopyFails ==
    /\ pc = "build" /\ todo # << >> /\ CanFail("build")
    /\ GiveUp("open", struck)

\* Mutant: the copy stops one blob early.
CopyDone_Early ==
    /\ pc = "build" /\ Len(todo) <= 1
    /\ pc' = "sync"
    /\ UNCHANGED <<dir, session, todo, edit, struck>>

CopyDone ==
    /\ pc = "build" /\ todo = << >>
    /\ pc' = "sync"
    /\ UNCHANGED <<dir, session, todo, edit, struck>>

\* Mutant: a sync that fails is tried again for ever.
SyncTemp_Retries ==
    /\ pc = "sync"
    /\ \/ pc' = "close"
       \/ CanFail("sync") /\ pc' = "build"
    /\ UNCHANGED <<dir, session, todo, edit, struck>>

\* Sync and Close of the new file.
SyncTemp ==
    /\ pc = "sync"
    /\ \/ /\ pc' = "close"
          /\ UNCHANGED <<dir, session, todo, edit, struck>>
       \/ CanFail("sync") /\ GiveUp("open", struck)

\* Close of the old stream. When it fails the stream is closed all the same.
CloseOld ==
    /\ pc = "close"
    /\ \/ /\ pc' = "clear"
          /\ session' = "broken"
          /\ UNCHANGED <<dir, todo, edit, struck>>
       \/ CanFail("close") /\ GiveUp("broken", struck \cup {"close"})

\* os.Remove(backup); its error is ignored.
ClearBackup ==
    /\ pc = "clear"
    /\ Removed(dir, "bak", dir', struck)
    /\ pc' = "backup"
    /\ UNCHANGED <<session, todo, edit>>

\* reopenLocked on directory d, the end of a rewrite that failed in the renames.
Reopened(d, fs) ==
    /\ \/ dir' = OpenedOrCreated(d) /\ session' = "open" /\ struck' = fs
       \/ /\ CanFail("reopen")
          /\ dir' = d /\ session' = "broken" /\ struck' = fs \cup {"reopen"}
    /\ pc' = "idle"
    /\ todo' = << >>
    /\ UNCHANGED edit

\* The temporary file of directory d is removed before that.
GiveUpAndReopen(d, fs) ==
    \/ Reopened(Without(d, "temp"), fs)
    \/ CanFail("remove") /\ Reopened(d, fs \cup {"remove"})

Renamed(d, from, to) == [d EXCEPT ![to] = d[from], ![from] = Missing]

\* Mutant: the old stream is not opened again.
Backup_NoReopen ==
    /\ pc = "backup"
    /\ \/ /\ dir' = Renamed(dir, "path", "bak")
          /\ pc' = "swap"
          /\ UNCHANGED <<session, todo, edit, struck>>
       \/ CanFail("backup") /\ GiveUp("broken", struck)

Backup ==
    /\ pc = "backup"
    /\ \/ /\ dir' = Renamed(dir, "path", "bak")
          /\ pc' = "swap"
          /\ UNCHANGED <<session, todo, edit, struck>>
       \/ CanFail("backup") /\ GiveUpAndReopen(dir, struck)

\* Mutant: no rollback of the first rename.
Swap_NoRollback ==
    /\ pc = "swap"
    /\ \/ /\ dir' = Renamed(dir, "temp", "path")
          /\ pc' = "drop"
          /\ UNCHANGED <<session, todo, edit, struck>>
       \/ CanFail("swap") /\ GiveUpAndReopen(dir, struck)

\* The rename that makes the edit. If it fails the first one is taken back; if
\* that fails too, the error is ignored.
Swap ==
    /\ pc = "swap"
    /\ \/ /\ dir' = Renamed(dir, "temp", "path")
          /\ pc' = "drop"
          /\ UNCHANGED <<session, todo, edit, struck>>
       \/ /\ CanFail("swap")
          /\ \/ GiveUpAndReopen(Renamed(dir, "bak", "path"), struck)
             \/ CanFail("rollback") /\ GiveUpAndReopen(dir, struck \cup {"rollback"})

DropBackup ==
    /\ pc = "drop"
    /\ Removed(dir, "bak", dir', struck)
    /\ pc' = "reopen"
    /\ UNCHANGED <<session, todo, edit>>

Reopen ==
    /\ pc = "reopen"
    /\ Reopened(dir, struck)

Crash ==
    /\ CanFail("crash")
    /\ struck' = struck \cup {"crash"} \cup (IF pc = "swap" THEN {"gap"} ELSE {})
    /\ session' = "closed" /\ pc' = "idle" /\ todo' = << >>
    /\ UNCHANGED <<dir, edit>>

Rewriting ==
    \/ CopyBlob \/ CopyFails \/ CopyDone \/ SyncTemp \/ CloseOld
    \/ ClearBackup \/ Backup \/ Swap \/ DropBackup \/ Reopen

Next ==
    \/ OpenList \/ CloseList \/ Crash
    \/ \E b \in Blob : AddBlob(b)
    \/ \E i \in 1 .. MaxLength : DeleteBlob(i) \/ \E b \in Blob : ReplaceBlob(i, b)
    \/ Rewriting

Fairness == WF_vars(Rewriting)

Spec == Init /\ [][Next]_vars /\ Fairness

-----------------------------------------------------------------------------
(* Properties                                                              *)

\* What the next OpenList finds at path; during the two renames of a running
\* rewrite that is what its rollback would restore.
Visible ==
    CASE Exists("path")                  -> dir["path"]
      [] ~Exists("path") /\ pc = "swap"  -> dir["bak"]
      [] OTHER                           -> << >>

EL == INSTANCE EditableList WITH list <- Visible

Never(faults) == struck \cap faults = {}

\* An edit happens at once or not at all, whichever calls of it fail and wherever
\* the process dies, but for two places: a crash between the renames and a
\* rollback that fails.
AtomicEdits ==
    [][Never({"gap", "rollback"})' => [EL!ListNext]_Visible]_vars

\* The same without exception: the comment of DeleteBlob says that it rebuilds
\* the list atomically.
AlwaysAtomic == EL!Spec

\* While rewrite runs, whatever has failed so far, the list before it or the
\* complete list it builds is on disk under path or path.bak.
RewritingListKept ==
    pc # "idle" => \E n \in {"path", "bak"} : dir[n] \in {edit.old, edit.new}

\* An open session has its file at path, and a rewrite, whether it succeeds or
\* fails, leaves the session usable: only a failure to close or reopen a file
\* breaks it.
SessionUsable ==
    /\ session = "open" => Exists("path")
    /\ Never({"close", "reopen"}) => (pc = "idle" => session # "broken")

\* Every rewrite returns.
RewriteReturns == pc # "idle" ~> pc = "idle"
=============================================================================
