------------------------------ MODULE ListView ------------------------------
(***************************************************************************)
(* The state of ListWindow, what each part of it can be, and what the      *)
(* window shows of it.                                                     *)
(***************************************************************************)
EXTENDS Window, Sequences, TLC

CONSTANTS
    Blob,    \* contents of blobs
    Room,    \* the capacity of every list
    Starts   \* the files there may be at the start, as functions from Path

\* ListInfo: a path, and its blobs.
Infos == [path: Path, blobs: Seq(Blob)]

\* BlobData: what the window has of a blob that it shows.
Contents == [index: Nat, data: Blob]

\* A rewrite that fails can leave a session whose file is closed.
ListSessions == {"live", "lost"}

\* A blob that the user chose: what the list showed under that index, and whether the
\* list could be right.
ChosenBlobs == [path: Path, index: Nat, seen: Blob, sure: BOOLEAN]

Rewriting == {"delete", "replace"}

Calls == {"open", "create", "close", "get", "add", "export", "pick"} \cup Rewriting

\* What a call returns.
Results(req) ==
    CASE req \in {"open", "create"} \cup Rewriting -> Infos
      [] req = "add"                               -> Nat
      [] req = "get"                               -> Contents
      [] OTHER                                     -> {"ok"}

\* The handlers that wait for the answer to a call, each with what it took from the window
\* when it began.
Waiting(req) ==
    [op: {"open", "create", "close", "select", "refresh", "add", "export"} \cup Rewriting,
     req: {req}, path: Path, index: Nat \cup {None}, blob: Blob \cup {None},
     seen: Blob \cup {None}, sure: BOOLEAN, answer: Results(req) \cup {None, Error},
     alone: BOOLEAN]

ASSUME ListWindowAssumption ==
    /\ Room \in Nat \ {0} /\ Faults \subseteq {"call"}
    /\ Starts # {} /\ \A f \in Starts : f \in [Path -> Seq(Blob) \cup {None}]
    /\ None \notin {Error} \cup Nat \cup Path \cup Blob \cup Seq(Blob) \cup Infos
                   \cup Contents \cup ListSessions \cup ChosenBlobs
    /\ \A req \in Calls : None \notin Results(req) \cup Waiting(req) /\ Error \notin Results(req)

VARIABLE files  \* the blobs of each list, or None where there is no file

IsLive(p) == sessions[p] = "live"

\* The index is one of the list.
Has(c) == IsLive(c.path) /\ c.index + 1 \in DOMAIN files[c.path]

-----------------------------------------------------------------------------
(* Properties                                                              *)

\* Between two handlers the window shows the list that is open with all its blobs, and
\* the blob that is marked, as it is in the file, unless handlers ran beside each other,
\* a request failed after it had done a part of its work (an add that breaks off leaves
\* the last blob with a tail), or the list or the blob could not be read after the file
\* was changed. Opening, refreshing or closing on its own puts that right if it succeeds.
ListTrue ==
    Idle /\ doubt = "none" =>
        IF win.list = None THEN win.selected = None /\ win.blob = None
        ELSE LET blobs == files[win.list.path] IN
             /\ IsLive(win.list.path) /\ win.list.blobs = blobs
             /\ win.blob # None => win.blob.index + 1 \in DOMAIN blobs
                                   /\ win.blob.data = blobs[win.blob.index + 1]

\* In whatever order the answers come: when none is awaited, the blob shown beside the
\* list is the one that is marked, so what is exported, replaced or deleted from there
\* has the index of what is read there; and the window is not busy.
BlobIsMarked ==
    Idle => /\ (win.blob = None <=> win.selected = None)
            /\ win.blob # None => win.blob.index = win.selected
            /\ ~win.busy

\* A blob that the user deletes, replaces or exports is the one that the list showed
\* under its index when he chose it, whatever handlers ran before and in between, but
\* for those that shift the index, another delete, replace or create, and for an add that
\* breaks off and leaves this blob, the last one, with a tail.
ActsOnSeen ==
    \A s \in Slot :
        \A req \in {"delete", "replace", "export"} :
            Pending(s, req) /\ call[s].sure /\ Has(call[s]) =>
                files[call[s].path][call[s].index + 1] = call[s].seen
=============================================================================
