---------------------------- MODULE TableWindow -----------------------------
(***************************************************************************)
(* The table half of the editor window (gui/frontend/src/App.tsx) over the *)
(* calls of gui/table_service.go. What a handler took from the state of    *)
(* the window when it began (table, selected, tableStart, pageSize) it     *)
(* keeps to its end.                                                       *)
(*                                                                         *)
(* The service does a request in one step, under the mutex of the session. *)
(* A row has one column. All sessions are read/write.                      *)
(***************************************************************************)
EXTENDS Window, FiniteSetsExt, TLC

CONSTANTS
    Shapes,     \* the rows each file may have, as functions from Path
    Value,      \* values of a cell, with 0
    PageSizes,  \* rows on a page
    Limit       \* hits that a search asks for

\* How many rows a table can come to have: those it has, one (created), none (cut off).
Totals == {shape[p] : shape \in Shapes, p \in Path} \cup {0, 1}

Rows(n) == {first .. end - 1 : first, end \in 0 .. n}

\* TableRows: the rows from one of them on.
Pages == [of: Path, start: Nat, rows: UNION {[R -> Value] : R \in UNION {Rows(n) : n \in Totals}}]

Requests == {"open", "create", "close", "rows", "set", "clear", "search", "pick"}

\* The answers to a request: none yet, an error, or what the call returns.
Answers(req) ==
    {None, Error} \cup (CASE req = "rows" -> Pages
                          [] req = "search" -> SUBSET Nat
                          [] OTHER -> {"ok"})

\* The handlers that wait for the answer to a request, each with what it took from the
\* window when it began.
Handlers(req) ==
    [op: {"open", "create", "load", "jump", "reload", "close", "search", "set", "clear"},
     req: {req}, path: Path, start: Nat, size: PageSizes \cup {None}, row: Nat \cup {None},
     value: Value \cup {None}, answer: Answers(req), alone: BOOLEAN]

ASSUME TableWindowAssumption ==
    /\ Shapes # {} /\ \A shape \in Shapes : shape \in [Path -> Nat]
    /\ 0 \in Value /\ Limit \in Nat \ {0}
    /\ PageSizes \subseteq Nat \ {0} /\ PageSizes # {}
    /\ Faults \subseteq {"call"}
    /\ None \notin Path \cup Pages \cup {Error, "ok"} /\ Error # "ok"
    /\ \A req \in Requests : None \notin Handlers(req)

VARIABLE cells  \* the rows of each file

vars == <<cells, sessions, win, call, doubt>>

Blank(n) == [r \in 0 .. n - 1 |-> 0]

Init ==
    /\ cells \in {[p \in Path |-> Blank(shape[p])] : shape \in Shapes}
    /\ sessions = {}
    /\ win \in [table : {None}, page : {None}, start : {0}, size : {Min(PageSizes)},
                selected : {None}, hits : {{}}, busy : {FALSE}, confirm : {None}]
    /\ call = [s \in Slot |-> None]
    /\ doubt = FALSE

-----------------------------------------------------------------------------
(* The service                                                             *)

\* OpenTable finds the session or makes it.
OpenTable(s) ==
    /\ Pending(s, "open")
    /\ sessions' = sessions \cup {call[s].path}
    /\ Answer(s, "ok")
    /\ UNCHANGED <<cells, win, doubt>>

\* CreateTable puts a blank table in the place of what was there, here one of one
\* row (bound).
CreateTable(s) ==
    /\ Pending(s, "create")
    /\ cells' = [cells EXCEPT ![call[s].path] = Blank(1)]
    /\ sessions' = sessions \cup {call[s].path}
    /\ Answer(s, "ok")
    /\ UNCHANGED <<win, doubt>>

CloseTable(s) ==
    /\ Pending(s, "close")
    /\ sessions' = sessions \ {call[s].path}
    /\ Answer(s, "ok")
    /\ UNCHANGED <<cells, win, doubt>>

\* The page from start on, clamped to the rows of the table.
Page(path, start, size) ==
    LET total == Cardinality(DOMAIN cells[path])
        first == Min({start, total})
        end == Min({first + size, total}) IN
    [of |-> path, start |-> first, rows |-> [r \in first .. end - 1 |-> cells[path][r]]]

GetTableRows(s) ==
    /\ Pending(s, "rows") /\ call[s].path \in sessions
    /\ Answer(s, Page(call[s].path, call[s].start, call[s].size))
    /\ UNCHANGED <<cells, sessions, win, doubt>>

\* SetTableCell and SetTableCellFromFile answer with the cell as it reads now.
SetTableCell(s) ==
    LET c == call[s] IN
    /\ Pending(s, "set") /\ c.path \in sessions /\ c.row \in DOMAIN cells[c.path]
    /\ cells' = [cells EXCEPT ![c.path][c.row] = c.value]
    /\ Answer(s, "ok")
    /\ UNCHANGED <<sessions, win, doubt>>

ClearTableRow(s) ==
    LET c == call[s] IN
    /\ Pending(s, "clear") /\ c.path \in sessions /\ c.row \in DOMAIN cells[c.path]
    /\ cells' = [cells EXCEPT ![c.path][c.row] = 0]
    /\ Answer(s, "ok")
    /\ UNCHANGED <<sessions, win, doubt>>

\* The first rows with that value.
SearchTableRows(s) ==
    LET c == call[s]
        found == {r \in DOMAIN cells[c.path] : cells[c.path][r] = c.value} IN
    /\ Pending(s, "search") /\ c.path \in sessions
    /\ Answer(s, {r \in found : Cardinality({f \in found : f < r}) < Limit})
    /\ UNCHANGED <<cells, sessions, win, doubt>>

\* The dialog of the system: a file with some content, or nothing.
PickFile(s) ==
    /\ Pending(s, "pick")
    /\ \/ Answer(s, Error)
       \/ \E v \in Value : call' = [call EXCEPT ![s].answer = "ok", ![s].value = v]
    /\ UNCHANGED <<cells, sessions, win, doubt>>

\* A request for a table that is not open, or a row that it does not have, fails;
\* any other one may. It changes nothing then.
Fails(s) ==
    /\ call[s] # None /\ call[s].answer = None /\ call[s].req # "pick"
    /\ \/ "call" \in Faults
       \/ call[s].req \in {"rows", "set", "clear", "search"} /\ call[s].path \notin sessions
       \/ call[s].req \in {"set", "clear"} /\ call[s].row \notin DOMAIN cells[call[s].path]
    /\ Answer(s, Error)
    /\ UNCHANGED <<cells, sessions, win, doubt>>

\* A request that fails late has done its work or a part of it: the new session stands,
\* the old one is closed, the file is truncated, the cell is written but not read back.
FailsLate(s) ==
    LET c == call[s] IN
    /\ "call" \in Faults /\ c # None
    /\ ~doubt  \* bound
    /\ \/ /\ Pending(s, "open")
          /\ sessions' = sessions \cup {c.path}
          /\ UNCHANGED <<cells, doubt>>
       \/ /\ Pending(s, "close") \/ Pending(s, "create")
          /\ sessions' = sessions \ {c.path}
          /\ \/ UNCHANGED cells
             \/ c.req = "create" /\ cells' = [cells EXCEPT ![c.path] = Blank(0)]
          /\ doubt' = TRUE
       \/ /\ Pending(s, "set") \/ Pending(s, "clear")
          /\ c.path \in sessions /\ c.row \in DOMAIN cells[c.path]
          /\ cells' = [cells EXCEPT ![c.path][c.row] = IF c.req = "set" THEN c.value ELSE 0]
          /\ doubt' = TRUE
          /\ UNCHANGED sessions
    /\ Answer(s, Error)
    /\ UNCHANGED win

-----------------------------------------------------------------------------
(* The user                                                                *)

\* A handler begins. "alone" says that no other one ran beside it; rows, row and
\* value are those of the request, start and size the page to read afterwards. A row
\* cleared in a table that is no longer shown brings up the page of that table.
Begin(s, c) ==
    LET others == {t \in Slot : call[t] # None} IN
    /\ call[s] = None
    \* bound: the handlers that begin in doubt are those that end it; one that begins
    \* beside another finds no dialog and no hits in the window but its own; no file is
    \* embedded behind a dialog
    /\ doubt => others = {} /\ c.op \in {"open", "create", "reload", "close"}
    /\ others # {} => (win.confirm = None \/ c.op = "clear") /\ (win.hits = {} \/ c.op = "jump")
    /\ win.confirm # None => c.op # "set"
    /\ call' = [t \in Slot |->
           IF t = s THEN [c EXCEPT !.alone = (others = {})]
           ELSE IF t \in others THEN [call[t] EXCEPT !.alone = FALSE] ELSE None]
    /\ doubt' = (doubt \/ others # {} \/ (c.op = "clear" /\ c.path # win.table))
    /\ UNCHANGED <<cells, sessions>>

Reading(op, req, path, start, size) ==
    [op |-> op, req |-> req, path |-> path, start |-> start, size |-> size,
     row |-> None, value |-> None, answer |-> None, alone |-> TRUE]

\* From the file dialog, the list of recent files or a file dropped on the window.
OpenTablePath(s, p) ==
    Begin(s, Reading("open", "open", p, 0, win.size)) /\ Busy(TRUE)

\* The button of the dialog is off while the window is busy.
SubmitCreateTable(s, p) ==
    /\ Uncovered /\ ~win.busy
    /\ Begin(s, Reading("create", "create", p, 0, win.size)) /\ Busy(TRUE)

\* The buttons for the page before and the page behind.
ChangePage(s) ==
    /\ Uncovered /\ win.table # None /\ win.page # None /\ ~win.busy
    /\ \E start \in {Max({0, win.page.start - win.size}), win.page.start + win.size} :
           /\ start # win.page.start
           /\ start > win.page.start => start < Cardinality(DOMAIN cells[win.table])
           /\ Begin(s, Reading("load", "rows", win.table, start, win.size))
    /\ Busy(TRUE)

\* The new size counts at once, the rows come later.
ChangePageSize(s, size) ==
    /\ Uncovered /\ win.table # None /\ size # win.size
    /\ Begin(s, Reading("load", "rows", win.table, 0, size))
    /\ win' = [win EXCEPT !.size = size, !.busy = TRUE]

\* The page with the first hit.
JumpToRow(s) ==
    /\ Uncovered /\ win.table # None /\ win.hits # {}
    /\ LET row == Min(win.hits) IN
       Begin(s, [Reading("jump", "rows", win.table, (row \div win.size) * win.size, win.size)
                    EXCEPT !.row = row])
    /\ Busy(TRUE)

\* The button waits while the window is busy, the command palette does not.
ReloadTable(s) ==
    /\ win.table # None
    /\ Begin(s, Reading("reload", "open", win.table, win.start, win.size)) /\ Busy(TRUE)

\* Closing does not make the window busy, nor does searching.
CloseCurrent(s) ==
    /\ win.table # None
    /\ Begin(s, Reading("close", "close", win.table, 0, None)) /\ UNCHANGED win

\* bound: for a value that a new cell does not have
SearchRows(s, v) ==
    /\ Uncovered /\ win.table # None /\ v # 0
    /\ Begin(s, [Reading("search", "search", win.table, 0, None) EXCEPT !.value = v])
    /\ UNCHANGED win

Select(row) ==
    /\ Uncovered /\ win.table # None /\ row \in DOMAIN win.page.rows
    /\ win' = [win EXCEPT !.selected = row]
    /\ UNCHANGED <<cells, sessions, call, doubt>>

\* selectedCell: the cell of the page that is selected.
CellSelected ==
    /\ win.table # None /\ win.page # None /\ win.selected # None
    /\ win.selected \in DOMAIN win.page.rows

Writing(req, v) ==
    [Reading("set", req, win.table, 0, None) EXCEPT !.row = win.selected, !.value = v]

\* The buttons of the inspector are off while the window is busy.
SaveCell(s, v) ==
    Uncovered /\ CellSelected /\ ~win.busy /\ Begin(s, Writing("set", v)) /\ Busy(TRUE)

ClearCell(s) == SaveCell(s, 0)

\* First the dialog of the system, then the call.
EmbedFile(s) ==
    CellSelected /\ Begin(s, Writing("pick", None)) /\ UNCHANGED win

\* bound: while no handler is under way
RequestClearRow ==
    /\ Idle
    /\ Uncovered /\ CellSelected /\ ~win.busy
    /\ win' = [win EXCEPT !.confirm = [path |-> win.table, row |-> win.selected,
                                       start |-> win.start, size |-> win.size]]
    /\ UNCHANGED <<cells, sessions, call, doubt>>

CancelConfirm ==
    /\ win.confirm # None
    /\ win' = [win EXCEPT !.confirm = None]
    /\ UNCHANGED <<cells, sessions, call, doubt>>

\* What was asked for is done, whatever the window shows by then.
RunConfirm(s) ==
    LET k == win.confirm IN
    /\ k # None /\ ~win.busy
    /\ Begin(s, [Reading("clear", "clear", k.path, k.start, k.size) EXCEPT !.row = k.row])
    /\ win' = [win EXCEPT !.confirm = None, !.busy = TRUE]

-----------------------------------------------------------------------------
(* The answers                                                             *)

\* The handler is done. A reload, an opening or a closing that nothing ran beside
\* ends the doubt; a file that was changed without its page being read begins one.
Done(s, heals, unread) ==
    /\ call' = [call EXCEPT ![s] = None]
    /\ doubt' = IF heals /\ call[s].alone THEN FALSE ELSE doubt \/ unread
    /\ UNCHANGED <<cells, sessions>>

\* The handler goes on with its next request.
Proceed(s, req) ==
    /\ call' = [call EXCEPT ![s].req = req, ![s].answer = None]
    /\ UNCHANGED <<cells, sessions, doubt>>

\* openTablePath, createTable and reloadTable read the rows after the header.
TableArrives(s, req) ==
    /\ Answered(s, req)
    /\ IF Ok(s) THEN Proceed(s, "rows") /\ UNCHANGED win
                ELSE Done(s, FALSE, FALSE) /\ Busy(FALSE)

\* A table is shown from its first row.
ShowTable(s) ==
    [win EXCEPT !.table = call[s].path, !.page = call[s].answer, !.start = call[s].answer.start,
                !.selected = None, !.hits = {}, !.busy = FALSE]

\* reloadTable leaves tableStart alone.
ShowAgain(s) ==
    [win EXCEPT !.table = call[s].path, !.page = call[s].answer,
                !.selected = None, !.hits = {}, !.busy = FALSE]

\* Mutant: loadRows leaves the selection.
ShowRows_KeepsSelected(s) ==
    [win EXCEPT !.page = call[s].answer, !.start = call[s].answer.start, !.busy = FALSE]

\* loadRows shows the page it got. jumpToRow selects the row if it is on it.
ShowRows(s) ==
    LET jump == call[s].op = "jump" /\ call[s].row \in DOMAIN call[s].answer.rows IN
    [win EXCEPT !.page = call[s].answer, !.start = call[s].answer.start, !.busy = FALSE,
                !.selected = IF jump THEN call[s].row ELSE None]

RowsArrive(s) ==
    LET op == call[s].op IN
    /\ Answered(s, "rows")
    /\ \/ ~Ok(s) /\ Done(s, FALSE, op \in {"clear", "create"}) /\ Busy(FALSE)
       \/ Ok(s) /\ op \in {"open", "create"} /\ Done(s, TRUE, FALSE) /\ win' = ShowTable(s)
       \/ Ok(s) /\ op = "reload" /\ Done(s, TRUE, FALSE) /\ win' = ShowAgain(s)
       \/ /\ Ok(s) /\ op \in {"load", "jump", "clear"}
          /\ Done(s, FALSE, FALSE) /\ win' = ShowRows(s)

\* The action of the dialog loads the rows again once the row is cleared.
ClearArrives(s) ==
    /\ Answered(s, "clear")
    /\ IF Ok(s) THEN Proceed(s, "rows") /\ Busy(TRUE)
                ELSE Done(s, FALSE, FALSE) /\ Busy(FALSE)

\* Mutant: the number of the row is taken as its place on the page.
ApplyCell_ByPlace(row, v) ==
    IF win.page = None \/ win.page.start + row \notin DOMAIN win.page.rows THEN win.page
    ELSE [win.page EXCEPT !.rows[win.page.start + row] = v]

\* applyCell changes the row of that number on the page that is shown now.
ApplyCell(row, v) ==
    IF win.page = None \/ row \notin DOMAIN win.page.rows THEN win.page
    ELSE [win.page EXCEPT !.rows[row] = v]

\* Mutant: a cell that was not saved leaves the window busy.
CellArrives_BusyAfterError(s) ==
    /\ Answered(s, "set")
    /\ Done(s, FALSE, FALSE)
    /\ win' = [win EXCEPT !.busy = ~Ok(s),
                          !.page = IF Ok(s) THEN ApplyCell(call[s].row, call[s].value) ELSE @]

CellArrives(s) ==
    /\ Answered(s, "set")
    /\ Done(s, FALSE, FALSE)
    /\ win' = [win EXCEPT !.busy = FALSE,
                          !.page = IF Ok(s) THEN ApplyCell(call[s].row, call[s].value) ELSE @]

FileArrives(s) ==
    /\ Answered(s, "pick")
    /\ IF Ok(s) THEN Proceed(s, "set") /\ Busy(TRUE)
                ELSE Done(s, FALSE, FALSE) /\ UNCHANGED win

HitsArrive(s) ==
    /\ Answered(s, "search")
    /\ Done(s, FALSE, FALSE)
    /\ win' = [win EXCEPT !.hits = IF Ok(s) THEN call[s].answer ELSE {}]

\* closeTable: tableStart stays.
CloseArrives(s) ==
    /\ Answered(s, "close")
    /\ Done(s, Ok(s), FALSE)
    /\ win' = IF Ok(s) THEN [win EXCEPT !.table = None, !.page = None, !.selected = None, !.hits = {}]
                       ELSE win

Service(s) ==
    \/ OpenTable(s) \/ CreateTable(s) \/ CloseTable(s) \/ GetTableRows(s) \/ SetTableCell(s)
    \/ ClearTableRow(s) \/ SearchTableRows(s) \/ PickFile(s) \/ Fails(s)
    \/ FailsLate(s)

Arrives(s) ==
    \/ TableArrives(s, "open") \/ TableArrives(s, "create") \/ RowsArrive(s) \/ ClearArrives(s)
    \/ CellArrives(s) \/ FileArrives(s) \/ HitsArrive(s) \/ CloseArrives(s)

Acts(s) ==
    \/ \E p \in Path : OpenTablePath(s, p) \/ SubmitCreateTable(s, p)
    \/ \E size \in PageSizes : ChangePageSize(s, size)
    \/ \E v \in Value : SaveCell(s, v) \/ SearchRows(s, v)
    \/ ChangePage(s) \/ JumpToRow(s) \/ ReloadTable(s) \/ CloseCurrent(s)
    \/ ClearCell(s) \/ EmbedFile(s) \/ RunConfirm(s)

Next ==
    \/ \E s \in Slot : Service(s) \/ Arrives(s) \/ Acts(s)
    \/ win.page # None /\ \E row \in DOMAIN win.page.rows : Select(row)
    \/ RequestClearRow \/ CancelConfirm

Spec == Init /\ [][Next]_vars

-----------------------------------------------------------------------------
(* Properties                                                              *)

\* Between two handlers the window shows the table that is open, and the page at
\* tableStart with the cells as they are in the file, unless handlers ran beside each
\* other, a row was cleared in a table no longer shown, a request failed after it had
\* done its work, or the rows could not be read after the file was changed. A reload, an
\* opening or a closing on its own always puts that right.
ScreenTrue ==
    Idle /\ ~doubt =>
        \/ win.table = None /\ win.page = None /\ win.selected = None /\ win.hits = {}
        \/ /\ win.table \in sessions
           /\ \E size \in PageSizes : win.page = Page(win.table, win.start, size)
           /\ win.hits \subseteq DOMAIN cells[win.table]

\* In whatever order the answers come, what is selected is a row of the page on the
\* screen; and a cell that is saved, cleared or embedded is on that page, which is of the
\* table it is written to, if no other handler runs beside. Without doubt the page is of
\* the table that is named. With others beside it, or in doubt, it may be of another one,
\* and the edit goes to the row of that number in the table that is named; a file goes to
\* the row that was selected when its dialog came up.
EditsOnPage ==
    /\ win.selected # None => win.page # None /\ win.selected \in DOMAIN win.page.rows
    /\ win.page # None /\ ~doubt => win.page.of = win.table
    /\ \A s \in Slot : call[s] # None /\ call[s].op = "set" /\ call[s].alone =>
           win.page # None /\ win.page.of = call[s].path /\ call[s].row \in DOMAIN win.page.rows

\* In whatever order the answers come: when none is awaited the window is not busy,
\* so no button stays off for ever.
NotStuck == Idle => ~win.busy
=============================================================================
