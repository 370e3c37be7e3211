----------------------------- MODULE ListWindow -----------------------------
(***************************************************************************)
(* The list half of the editor window (gui/frontend/src/App.tsx) over the  *)
(* calls of gui/list_service.go. A handler keeps the list, the index and   *)
(* the selection that the window had when it began. The service takes      *)
(* blobs by their index, and deleting one shifts those behind it.          *)
(*                                                                         *)
(* A blob is a token: the window shows its size and, if it is selected,    *)
(* its content.                                                            *)
(***************************************************************************)
EXTENDS ListView, SequencesExt

vars == <<files, sessions, win, call, doubt>>

\* ListInfo
Info(p, blobs) == [path |-> p, blobs |-> blobs]

Init ==
    /\ files \in Starts
    /\ sessions = [p \in Path |-> None]
    /\ win = [list |-> None, selected |-> None, blob |-> None, busy |-> FALSE, confirm |-> None]
    /\ call = [s \in Slot |-> None]
    /\ doubt = "none"

-----------------------------------------------------------------------------
(* The service                                                             *)

\* What OpenList finds in the file; one that is not there is created.
Opened(p) == IF files[p] = None THEN << >> ELSE files[p]

\* OpenList reads through the session it finds. Without one, and if the request names
\* another capacity, it opens the file.
OpenList(s) ==
    LET p == call[s].path IN
    /\ Pending(s, "open")
    /\ files' = [files EXCEPT ![p] = Opened(p)]
    /\ sessions' = [sessions EXCEPT ![p] = "live"]
    /\ Answer(s, Info(p, Opened(p)))
    /\ UNCHANGED <<win, doubt>>

\* With overwrite set.
CreateList(s) ==
    LET p == call[s].path IN
    /\ Pending(s, "create")
    /\ files' = [files EXCEPT ![p] = << >>]
    /\ sessions' = [sessions EXCEPT ![p] = "live"]
    /\ Answer(s, Info(p, << >>))
    /\ UNCHANGED <<win, doubt>>

CloseList(s) ==
    /\ Pending(s, "close")
    /\ sessions' = [sessions EXCEPT ![call[s].path] = None]
    /\ Answer(s, "ok")
    /\ UNCHANGED <<files, win, doubt>>

GetBlob(s) ==
    LET c == call[s] IN
    /\ Pending(s, "get") /\ Has(c)
    /\ Answer(s, [index |-> c.index, data |-> files[c.path][c.index + 1]])
    /\ UNCHANGED <<files, sessions, win, doubt>>

AddBlob(s) ==
    LET c == call[s] IN
    /\ Pending(s, "add") /\ IsLive(c.path) /\ Len(files[c.path]) < Room
    /\ files' = [files EXCEPT ![c.path] = Append(files[c.path], c.blob)]
    /\ Answer(s, Len(files[c.path]))
    /\ UNCHANGED <<sessions, win, doubt>>

\* The other file it writes is no list that is open.
ExportBlob(s) ==
    /\ Pending(s, "export") /\ Has(call[s])
    /\ Answer(s, "ok")
    /\ UNCHANGED <<files, sessions, win, doubt>>

\* DeleteBlob and ReplaceBlobFromPath
Rewritten(c) ==
    IF c.req = "delete" THEN RemoveAt(files[c.path], c.index + 1)
                        ELSE ReplaceAt(files[c.path], c.index + 1, c.blob)

Rewrite(s) ==
    LET c == call[s] IN
    /\ Pending(s, "delete") \/ Pending(s, "replace")
    /\ Has(c)
    /\ files' = [files EXCEPT ![c.path] = Rewritten(c)]
    /\ Answer(s, Info(c.path, Rewritten(c)))
    /\ UNCHANGED <<sessions, win, doubt>>

\* The dialog of the system: a file with some content, or nothing.
PickFile(s) ==
    /\ Pending(s, "pick")
    /\ \/ Answer(s, Error)
       \/ \E b \in Blob : call' = [call EXCEPT ![s].answer = "ok", ![s].blob = b]
    /\ UNCHANGED <<files, sessions, win, doubt>>

\* An add that breaks off once it has begun to write: what it wrote is the tail of the
\* last blob from then on.
AddBreaks(s) ==
    LET c == call[s]
        blobs == files[c.path]
        StillSure(k) == k.sure /\ (k.path # c.path \/ k.index + 1 # Len(blobs)) IN
    /\ "call" \in Faults /\ Pending(s, "add") /\ IsLive(c.path)
    /\ Len(blobs) \in 1 .. Room - 1
    /\ \E b \in Blob : files' = [files EXCEPT ![c.path] = ReplaceAt(blobs, Len(blobs), b)]
    /\ call' = [t \in Slot |->
           IF t = s THEN [c EXCEPT !.answer = Error]
           ELSE IF call[t] = None THEN None
           ELSE [call[t] EXCEPT !.sure = StillSure(call[t])]]
    /\ win' = IF win.confirm = None THEN win
              ELSE [win EXCEPT !.confirm.sure = StillSure(win.confirm)]
    /\ doubt' = "shifted"
    /\ UNCHANGED sessions

\* A request for a list that is not open, or whose session lost its file, for a blob it
\* does not have, or for one blob too many fails; any other one may, before it has
\* changed anything.
Fails(s) ==
    LET c == call[s] IN
    /\ c # None /\ c.answer = None /\ c.req # "pick"
    /\ \/ "call" \in Faults
       \/ c.req \in {"get", "export", "delete", "replace"} /\ ~Has(c)
       \/ c.req = "add" /\ (IsLive(c.path) => Len(files[c.path]) >= Room)
       \/ c.req = "open" /\ sessions[c.path] = "lost"
    /\ Answer(s, Error)
    /\ UNCHANGED <<files, sessions, win, doubt>>

\* A request that fails late: the session that was there is closed already, the new file
\* is not, or only, begun; the list that the rewrite put in place, or the old one put back,
\* does not open, or there is none and an empty one opens; or all is done but for the
\* answer.
FailsLate(s) ==
    LET c == call[s]
        Put(blobs, session) == /\ files' = [files EXCEPT ![c.path] = blobs]
                               /\ sessions' = [sessions EXCEPT ![c.path] = session] IN
    /\ "call" \in Faults /\ c # None
    /\ doubt = "none" /\ c.alone  \* bound
    /\ \/ Pending(s, "close") /\ Put(files[c.path], None) /\ doubt' = "behind"
       \/ /\ Pending(s, "open") /\ doubt' = "behind"
          /\ \/ \E blobs \in {files[c.path], Opened(c.path)} : Put(blobs, None)
             \/ Put(Opened(c.path), "live")
       \/ /\ Pending(s, "create") /\ doubt' = "shifted"
          /\ \/ \E blobs \in {files[c.path], << >>, None} : Put(blobs, None)
             \/ Put(<< >>, "live")
       \/ /\ Pending(s, "delete") \/ Pending(s, "replace")
          /\ Has(c) /\ doubt' = "shifted"
          /\ \/ \E blobs \in {files[c.path], Rewritten(c), None} : Put(blobs, "lost")
             \/ \E blobs \in {Rewritten(c), << >>} : Put(blobs, "live")
    /\ Answer(s, Error)
    /\ UNCHANGED win

-----------------------------------------------------------------------------
(* The user                                                                *)

\* The handlers that change what an index stands for.
Shifting == {"delete", "replace", "create"}
Shifts(s) == call[s] # None /\ call[s].op \in Shifting

\* A handler begins. "alone" says that no other one ran beside it, "sure" that the
\* window was not shifted when the user chose the index, and that no other handler
\* began since that shifts it.
Begin(s, c) ==
    LET others == {t \in Slot : call[t] # None}
        shifts == c.op \in Shifting \/ \E t \in others : Shifts(t) IN
    /\ call[s] = None
    \* bound: a handler begins alone when there is doubt, or behind a dialog (but for what
    \* that asks), so that two run at a time at most; one that begins with the window
    \* shifted ends that
    /\ others = {} \/ (doubt = "none" /\ (win.confirm = None \/ c.op = "delete"))
    /\ doubt = "shifted" => c.op \in {"open", "create", "refresh", "close"}
    /\ call' = [t \in Slot |->
           IF t = s THEN [c EXCEPT !.alone = (others = {})]
           ELSE IF t \in others
           THEN [call[t] EXCEPT !.alone = FALSE, !.sure = call[t].sure /\ c.op \notin Shifting]
           ELSE None]
    /\ doubt' = IF others = {} \/ doubt = "shifted" THEN doubt
                ELSE IF shifts THEN "shifted" ELSE "behind"
    /\ UNCHANGED <<files, sessions>>

Handler(op, req, path) ==
    [op |-> op, req |-> req, path |-> path, index |-> None, blob |-> None,
     seen |-> None, sure |-> FALSE, answer |-> None, alone |-> TRUE]

\* What the list shows under an index, and whether that can be right.
Chosen(index) ==
    [path |-> win.list.path, index |-> index, seen |-> win.list.blobs[index + 1],
     sure |-> doubt # "shifted" /\ ~\E s \in Slot : Shifts(s)]

On(op, req, k) ==
    [Handler(op, req, k.path) EXCEPT !.index = k.index, !.seen = k.seen, !.sure = k.sure]

Listed == win.list # None
Indices == IF Listed THEN 0 .. Len(win.list.blobs) - 1 ELSE {}

\* From the dialogs, the list of recent files or a file dropped on the window.
OpenListPath(s, p) ==
    Begin(s, Handler("open", "open", p)) /\ Busy(TRUE)

\* submitListDialog: its button is off while the window is busy.
SubmitCreateList(s, p) ==
    Uncovered /\ ~win.busy /\ Begin(s, Handler("create", "create", p)) /\ Busy(TRUE)

\* Closing does not make the window busy.
CloseCurrent(s) ==
    Listed /\ Begin(s, Handler("close", "close", win.list.path)) /\ UNCHANGED win

\* The row is marked at once, its blob comes later.
SelectBlob(s, index) ==
    /\ Uncovered /\ index \in Indices
    /\ Begin(s, [Handler("select", "get", win.list.path) EXCEPT !.index = index])
    /\ win' = [win EXCEPT !.selected = index, !.busy = TRUE]

\* From the button, that waits while the window is busy, or with a shortcut.
RefreshList(s) ==
    /\ Listed
    /\ Begin(s, [Handler("refresh", "open", win.list.path) EXCEPT !.index = win.selected])
    /\ Busy(TRUE)

\* One file at a time (bound); dropped on the window, or picked before.
AddBlobPaths(s, b) ==
    /\ Listed
    /\ Begin(s, [Handler("add", "add", win.list.path) EXCEPT !.blob = b]) /\ Busy(TRUE)

\* First a dialog of the system. The buttons in the rows never wait.
ExportOrReplace(s, op, index) ==
    /\ Uncovered /\ index \in Indices
    /\ Begin(s, On(op, "pick", Chosen(index))) /\ UNCHANGED win

\* bound: while no handler that waits for an answer of the service is under way
RequestDeleteBlob(index) ==
    /\ \A s \in Slot : call[s] # None => call[s].req = "pick"
    /\ Uncovered /\ index \in Indices
    /\ win' = [win EXCEPT !.confirm = Chosen(index)]
    /\ UNCHANGED <<files, sessions, call, doubt>>

CancelConfirm ==
    /\ win.confirm # None
    /\ win' = [win EXCEPT !.confirm = None]
    /\ UNCHANGED <<files, sessions, call, doubt>>

\* Mutant: the blob that is marked by then is deleted.
RunConfirm_Marked(s) ==
    /\ win.confirm # None /\ ~win.busy
    /\ Begin(s, [On("delete", "delete", win.confirm) EXCEPT
                    !.index = IF win.selected = None THEN @ ELSE win.selected])
    /\ win' = [win EXCEPT !.confirm = None, !.busy = TRUE]

\* What was asked for is done, whatever the window shows by then.
RunConfirm(s) ==
    /\ win.confirm # None /\ ~win.busy
    /\ Begin(s, On("delete", "delete", win.confirm))
    /\ win' = [win EXCEPT !.confirm = None, !.busy = TRUE]

-----------------------------------------------------------------------------
(* The answers                                                             *)

\* The handler is done, and leaves the window in this doubt.
Done(s, left) ==
    /\ call' = [call EXCEPT ![s] = None]
    /\ doubt' = left
    /\ UNCHANGED <<files, sessions>>

\* One that nothing ran beside ends the doubt if it shows the list and the blob as they
\* are, or closes the list; if it only reads the list again, the blob may be behind.
Shown(s) == IF call[s].alone THEN "none" ELSE doubt
Listing(s) == IF call[s].alone /\ doubt = "shifted" THEN "behind" ELSE doubt

\* The file was changed and is not read again.
Unread == IF doubt = "none" THEN "behind" ELSE doubt

\* The handler goes on with its next request.
Proceed(s, req, index) ==
    /\ call' = [call EXCEPT ![s].req = req, ![s].index = index, ![s].answer = None,
                            ![s].blob = IF req = "replace" THEN call[s].blob ELSE None,
                            ![s].seen = IF req = "get" THEN None ELSE call[s].seen]
    /\ UNCHANGED <<files, sessions, doubt>>

Clear(info) == [win EXCEPT !.list = info, !.selected = None, !.blob = None, !.busy = FALSE]

\* openListPath and submitListDialog show the list; refreshList loads the blob that was
\* selected if it can still be there, addBlobPaths the one that was added.
ListArrives(s) ==
    LET c == call[s]
        stays == c.index # None /\ c.index < Len(c.answer.blobs) IN
    /\ Answered(s, "open") \/ Answered(s, "create")
    /\ \/ ~Ok(s) /\ Done(s, IF c.op = "add" THEN Unread ELSE doubt) /\ Busy(FALSE)
       \/ /\ Ok(s) /\ c.op \in {"open", "create"}
          /\ Done(s, Shown(s)) /\ win' = Clear(c.answer)
       \/ /\ Ok(s) /\ c.op = "refresh" /\ ~stays
          /\ Done(s, Shown(s)) /\ win' = Clear(c.answer)
       \/ /\ Ok(s) /\ c.op = "add" /\ c.index = None
          /\ Done(s, Listing(s)) /\ win' = [win EXCEPT !.list = c.answer, !.busy = FALSE]
       \/ /\ Ok(s)
          /\ (c.op = "refresh" /\ stays) \/ (c.op = "add" /\ c.index # None)
          /\ Proceed(s, "get", c.index) /\ win' = [win EXCEPT !.list = c.answer]

\* The list is read again even when the blob was not added.
AddArrives(s) ==
    /\ Answered(s, "add")
    /\ Proceed(s, "open", IF Ok(s) THEN call[s].answer ELSE None)
    /\ UNCHANGED win

\* Mutant: after an error the mark goes, the blob stays.
BlobArrives_OldBlob(s) ==
    LET c == call[s] IN
    /\ Answered(s, "get")
    /\ Done(s, IF c.op = "refresh" /\ Ok(s) THEN Shown(s)
               ELSE IF c.op = "replace" /\ ~Ok(s) THEN Unread ELSE doubt)
    /\ win' = [win EXCEPT !.busy = FALSE,
                          !.selected = IF Ok(s) THEN c.index
                                       ELSE IF c.op = "select" THEN None ELSE @,
                          !.blob = IF Ok(s) THEN c.answer ELSE @]

\* loadBlob. Only selectBlob takes the mark back after an error; replaceBlob has the old
\* content on the screen then.
BlobArrives(s) ==
    LET c == call[s] IN
    /\ Answered(s, "get")
    /\ Done(s, IF c.op = "refresh" /\ Ok(s) THEN Shown(s)
               ELSE IF c.op = "replace" /\ ~Ok(s) THEN Unread ELSE doubt)
    /\ win' = [win EXCEPT !.busy = FALSE,
                          !.selected = IF Ok(s) THEN c.index
                                       ELSE IF c.op = "select" THEN None ELSE @,
                          !.blob = IF Ok(s) THEN c.answer
                                   ELSE IF c.op = "select" THEN None ELSE @]

FileArrives(s) ==
    /\ Answered(s, "pick")
    /\ IF Ok(s) THEN Proceed(s, call[s].op, call[s].index) /\ Busy(TRUE)
                ELSE Done(s, doubt) /\ UNCHANGED win

ExportArrives(s) ==
    Answered(s, "export") /\ Done(s, doubt) /\ Busy(FALSE)

ReplaceArrives(s) ==
    /\ Answered(s, "replace")
    /\ IF Ok(s) THEN /\ Proceed(s, "get", call[s].index)
                     /\ win' = [win EXCEPT !.list = call[s].answer]
                ELSE Done(s, doubt) /\ Busy(FALSE)

\* Mutant: the blob that was shown stays.
DeleteArrives_KeepsBlob(s) ==
    /\ Answered(s, "delete")
    /\ Done(s, doubt)
    /\ win' = [win EXCEPT !.list = IF Ok(s) THEN call[s].answer ELSE @, !.busy = FALSE]

DeleteArrives(s) ==
    /\ Answered(s, "delete")
    /\ Done(s, doubt)
    /\ win' = IF Ok(s) THEN Clear(call[s].answer) ELSE [win EXCEPT !.busy = FALSE]

CloseArrives(s) ==
    /\ Answered(s, "close")
    /\ Done(s, IF Ok(s) THEN Shown(s) ELSE doubt)
    /\ win' = IF Ok(s) THEN [win EXCEPT !.list = None, !.selected = None, !.blob = None] ELSE win

Service(s) ==
    \/ OpenList(s) \/ CreateList(s) \/ CloseList(s) \/ GetBlob(s) \/ AddBlob(s) \/ AddBreaks(s)
    \/ ExportBlob(s) \/ Rewrite(s) \/ PickFile(s) \/ Fails(s) \/ FailsLate(s)

Arrives(s) ==
    \/ ListArrives(s) \/ AddArrives(s) \/ BlobArrives(s) \/ FileArrives(s)
    \/ ExportArrives(s) \/ ReplaceArrives(s) \/ DeleteArrives(s) \/ CloseArrives(s)

Acts(s) ==
    \/ \E p \in Path : OpenListPath(s, p) \/ SubmitCreateList(s, p)
    \/ \E index \in Indices :
          \/ SelectBlob(s, index)
          \/ ExportOrReplace(s, "export", index) \/ ExportOrReplace(s, "replace", index)
    \/ \E b \in Blob : AddBlobPaths(s, b)
    \/ CloseCurrent(s) \/ RefreshList(s) \/ RunConfirm(s)

Next ==
    \/ \E s \in Slot : Service(s) \/ Arrives(s) \/ Acts(s)
    \/ \E index \in Indices : RequestDeleteBlob(index)
    \/ CancelConfirm

Spec == Init /\ [][Next]_vars
=============================================================================
