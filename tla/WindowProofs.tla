---------------------------- MODULE WindowProofs -----------------------------
(***************************************************************************)
(* Theorems about the two halves of the editor window, for all files,      *)
(* pages, blobs, slots and failures: what is known of the screen between   *)
(* the answers of the handlers under way (a bound in Begin lets no more    *)
(* than two run at a time). First the tables (TableWindow), then the lists *)
(* (ListWindow, here L).                                                   *)
(***************************************************************************)
EXTENDS TableWindow, ListView, FiniteSetTheorems, SequenceTheorems, WellFoundedInduction, TLAPS

-----------------------------------------------------------------------------
(* The inductive invariant                                                 *)

\* The requests of each handler.
Staged(c) ==
    \/ c.op \in {"open", "create", "clear"} /\ c.req \in {c.op, "rows"} /\ c.size \in PageSizes
    \/ c.op = "reload" /\ c.req \in {"open", "rows"} /\ c.size \in PageSizes
    \/ c.op \in {"load", "jump"} /\ c.req = "rows" /\ c.size \in PageSizes
    \/ c.op \in {"close", "search"} /\ c.req = c.op
    \/ c.op = "set" /\ c.req \in {"set", "pick"}
       /\ (c.req = "set" \/ c.answer = "ok" => c.value \in Value)

IsHandler(c) == c.req \in Requests /\ c \in Handlers(c.req) /\ Staged(c)

CellsOK == cells \in [Path -> UNION {[0 .. n - 1 -> Value] : n \in Totals}]

WinOK ==
    win \in [table: Path \cup {None}, page: Pages \cup {None}, start: Nat, size: PageSizes,
             selected: Nat \cup {None}, hits: SUBSET Nat, busy: BOOLEAN,
             confirm: [path: Path, row: Nat, start: Nat, size: PageSizes] \cup {None}]

TypeOK ==
    /\ CellsOK /\ sessions \subseteq Path /\ WinOK /\ doubt \in BOOLEAN
    /\ call = [s \in Slot |-> call[s]]
    /\ \A s \in Slot : call[s] # None => IsHandler(call[s])

\* A handler that nothing ran beside is the only one, and the others leave a doubt.
Alone ==
    \A s \in Slot : call[s] # None =>
        IF call[s].alone THEN \A t \in Slot : call[t] # None => t = s ELSE doubt

\* The handlers that make the window busy end that.
Holds(c) == c.op \notin {"close", "search"} /\ c.req # "pick"

BusyHeld == win.busy => \E s \in Slot : call[s] # None /\ Holds(call[s])

\* What a handler knows that nothing ran beside.
Sound(c) ==
    /\ c.op = "reload" => c.start = win.start
    /\ c.op \in {"load", "jump", "reload", "set", "search"} => c.path = win.table
    /\ c.op = "clear" /\ ~doubt => c.path = win.table
    /\ c.req \in {"open", "create"} /\ c.answer = "ok" => c.path \in sessions
    /\ c.req = "rows" /\ c.op \in {"open", "create", "reload"} => c.path \in sessions
    /\ c.req = "rows" /\ c.answer \notin {None, Error} =>
           c.path \in sessions /\ c.answer = Page(c.path, c.start, c.size)
    /\ c.req = "search" /\ c.answer \notin {None, Error} => c.answer \subseteq DOMAIN cells[c.path]

\* That page of the table of the window is what the file has.
Fits(page) ==
    /\ win.table \in sessions
    /\ \E size \in PageSizes : page = Page(win.table, win.start, size)
    /\ win.hits \subseteq DOMAIN cells[win.table]

Shown ==
    \/ win.table = None /\ win.page = None /\ win.selected = None /\ win.hits = {}
    \/ Fits(win.page)

\* What the handler did is not on the screen yet.
Unseen(c) ==
    \/ c.req \in {"close", "create", "set", "clear"} /\ c.answer = "ok"
    \/ c.req = "rows" /\ c.op \in {"create", "clear"}

ScreenOf(c) ==
    IF ~Unseen(c) THEN Shown
    ELSE /\ c.op = "set" => Fits(ApplyCell(c.row, c.value))
         /\ c.op = "clear" => win.table \in sessions /\ win.hits \subseteq DOMAIN cells[win.table]

Screen ==
    /\ \A s \in Slot : call[s] # None =>
           (call[s].alone => Sound(call[s])) /\ (~doubt => ScreenOf(call[s]))
    /\ Idle /\ ~doubt => Shown

\* What is selected is on the page (the first part of EditsOnPage).
SelectionOnPage ==
    win.selected # None => win.page # None /\ win.selected \in DOMAIN win.page.rows

IInv == TypeOK /\ Alone /\ BusyHeld /\ SelectionOnPage /\ Screen

-----------------------------------------------------------------------------
(* Numbers                                                                 *)

LEMMA Least ==
  ASSUME NEW T, T \subseteq Nat, T # {}
  PROVE  Min(T) \in T /\ \A y \in T : Min(T) <= y
<1> DEFINE R == OpToRel(<, Nat)
<1>1. IsWellFoundedOn(R, Nat)
  BY NatLessThanWellFounded
<1>2. \A x, y \in Nat : <<y, x>> \in R <=> y < x
  BY DEF OpToRel
<1> HIDE DEF R
<1>3. PICK x \in T : \A y \in T : ~(<<y, x>> \in R)
  BY <1>1, WFMin
<1>4. \A y \in T : y \in Nat /\ ~(y < x)
  BY <1>2, <1>3
<1>5. \A y \in T : x <= y
  BY <1>4
<1> QED
  BY <1>5 DEF Min

LEMMA Lesser ==
  ASSUME NEW a \in Nat, NEW b \in Nat
  PROVE  Min({a, b}) = IF a <= b THEN a ELSE b
<1> DEFINE T == {a, b}
<1>1. T \subseteq Nat /\ T # {}
  OBVIOUS
<1>2. Min(T) \in T /\ \A y \in T : Min(T) <= y
  BY <1>1, Least
<1> QED
  BY <1>2

LEMMA Greater ==
  ASSUME NEW a \in Int, NEW b \in Int
  PROVE  Max({a, b}) = IF a >= b THEN a ELSE b
<1>1. \E x \in {a, b} : \A y \in {a, b} : x >= y
  OBVIOUS
<1>2. Max({a, b}) \in {a, b} /\ \A y \in {a, b} : Max({a, b}) >= y
  BY <1>1 DEF Max
<1> QED
  BY <1>2

-----------------------------------------------------------------------------
(* Pages                                                                   *)

LEMMA TotalsAreNat == Totals \subseteq Nat
  BY TableWindowAssumption DEF Totals

LEMMA CellsOfTable ==
  ASSUME CellsOK, NEW p \in Path
  PROVE  \E n \in Totals : n \in Nat /\ cells[p] \in [0 .. n - 1 -> Value]
  BY TotalsAreNat DEF CellsOK

LEMMA TotalOfRows ==
  ASSUME NEW n \in Nat
  PROVE  Cardinality(0 .. n - 1) = n
<1>1. 0 \in Int /\ n - 1 \in Int
  OBVIOUS
<1>2. Cardinality(0 .. n - 1) = IF 0 > n - 1 THEN 0 ELSE (n - 1) - 0 + 1
  BY <1>1, FS_Interval
<1> QED
  BY <1>2

\* A page of the table p whose rows are f.
PageIn(p, f, start, size) ==
    LET total == Cardinality(DOMAIN f)
        first == Min({start, total})
        end == Min({first + size, total}) IN
    [of |-> p, start |-> first, rows |-> [r \in first .. end - 1 |-> f[r]]]

LEMMA PageOfCells == \A p, start, size : Page(p, start, size) = PageIn(p, cells[p], start, size)
  BY DEF Page, PageIn

\* What a page holds.
LEMMA PageShape ==
  ASSUME NEW p \in Path, NEW n \in Totals, NEW f \in [0 .. n - 1 -> Value],
         NEW start \in Nat, NEW size \in Nat
  PROVE  LET page == PageIn(p, f, start, size) IN
         /\ page \in Pages
         /\ page.start = (IF start <= n THEN start ELSE n)
         /\ \E end \in Nat :
                /\ page = [of |-> p, start |-> page.start, rows |-> page.rows]
                /\ page.rows = [r \in page.start .. end - 1 |-> f[r]]
                /\ end = (IF page.start + size <= n THEN page.start + size ELSE n)
<1> DEFINE first == Min({start, n})
           end == Min({first + size, n})
           rows == [r \in first .. end - 1 |-> f[r]]
<1>1. n \in Nat
  BY TotalsAreNat
<1>2. DOMAIN f = 0 .. n - 1 /\ Cardinality(DOMAIN f) = n
  BY <1>1, TotalOfRows
<1>3. first = (IF start <= n THEN start ELSE n) /\ first \in Nat /\ first <= start /\ first <= n
  BY <1>1, Lesser
<1>4. end = (IF first + size <= n THEN first + size ELSE n) /\ end \in Nat /\ end <= n
  <2>1. first + size \in Nat
    BY <1>3
  <2> HIDE DEF first
  <2> QED
    BY <1>1, <2>1, Lesser
<1>5. PageIn(p, f, start, size) = [of |-> p, start |-> first, rows |-> rows]
  BY <1>2 DEF PageIn
<1> HIDE DEF first, end
<1>6. rows \in [first .. end - 1 -> Value]
  BY <1>1, <1>3, <1>4
<1>7. first .. end - 1 \in Rows(n)
  <2>1. first \in 0 .. n /\ end \in 0 .. n
    BY <1>1, <1>3, <1>4
  <2> QED
    BY <2>1 DEF Rows
<1>8. rows \in UNION {[R -> Value] : R \in UNION {Rows(m) : m \in Totals}}
  BY <1>6, <1>7
<1>9. rows = [r \in first .. end - 1 |-> f[r]]
  OBVIOUS
<1> HIDE DEF rows
<1>10. [of |-> p, start |-> first, rows |-> rows] \in Pages
  BY <1>3, <1>8 DEF Pages
<1> QED
  BY <1>3, <1>4, <1>5, <1>9, <1>10

\* Rows of a page are numbers.
LEMMA RowsOfPage ==
  ASSUME NEW page \in Pages
  PROVE  /\ page = [of |-> page.of, start |-> page.start, rows |-> page.rows]
         /\ page.of \in Path /\ page.start \in Nat
         /\ DOMAIN page.rows \subseteq Nat
         /\ page.rows \in UNION {[R -> Value] : R \in UNION {Rows(n) : n \in Totals}}
         /\ page.rows \in [DOMAIN page.rows -> Value]
<1>1. /\ page = [of |-> page.of, start |-> page.start, rows |-> page.rows]
      /\ page.of \in Path /\ page.start \in Nat
      /\ page.rows \in UNION {[R -> Value] : R \in UNION {Rows(n) : n \in Totals}}
  BY DEF Pages
<1>2. PICK n \in Totals : \E R \in Rows(n) : page.rows \in [R -> Value]
  BY <1>1
<1>3. PICK R \in Rows(n) : page.rows \in [R -> Value]
  BY <1>2
<1>4. R \subseteq Nat
  <2>1. PICK first \in 0 .. n, end \in 0 .. n : R = first .. end - 1
    BY DEF Rows
  <2> QED
    BY <2>1, TotalsAreNat
<1> QED
  BY <1>1, <1>3, <1>4

\* The page that starts where a page starts is that page.
LEMMA PageAgain ==
  ASSUME NEW p \in Path, NEW n \in Totals, NEW f \in [0 .. n - 1 -> Value],
         NEW start \in Nat, NEW size \in Nat
  PROVE  PageIn(p, f, PageIn(p, f, start, size).start, size) = PageIn(p, f, start, size)
<1> DEFINE first == Min({start, n})
           end(i) == Min({i + size, n})
           PageAt(i) == [of |-> p, start |-> i, rows |-> [r \in i .. end(i) - 1 |-> f[r]]]
<1>1. n \in Nat
  BY TotalsAreNat
<1>2. DOMAIN f = 0 .. n - 1 /\ Cardinality(DOMAIN f) = n
  BY <1>1, TotalOfRows
<1>3. first \in Nat /\ first <= n
  BY <1>1, Lesser
<1>4. PageIn(p, f, start, size) = PageAt(first)
  BY <1>2 DEF PageIn
<1>5. PageIn(p, f, start, size).start = first
  BY <1>4
<1> HIDE DEF first
<1>6. Min({first, n}) = first
  BY <1>1, <1>3, Lesser
<1>7. PageIn(p, f, first, size) = PageAt(first)
  BY <1>2, <1>6 DEF PageIn
<1> QED
  BY <1>4, <1>5, <1>7

IsTable(f) == \E n \in Totals : f \in [0 .. n - 1 -> Value]

Written(f, row, v) == [f EXCEPT ![row] = v]

Patched(page, row, v) == [page EXCEPT !.rows[row] = v]

ApplyTo(page, row, v) ==
    IF page = None \/ row \notin DOMAIN page.rows THEN page ELSE Patched(page, row, v)

Applied(page, row, v) == IF row \in DOMAIN page.rows THEN Patched(page, row, v) ELSE page

LEMMA RowWritten ==
  ASSUME NEW of, NEW start, NEW rows, NEW row, NEW v
  PROVE  Patched([of |-> of, start |-> start, rows |-> rows], row, v)
         = [of |-> of, start |-> start, rows |-> [rows EXCEPT ![row] = v]]
  BY DEF Patched

\* A cell that is written changes on the page what ApplyCell changes.
LEMMA PageWritten ==
  ASSUME NEW p \in Path, NEW f, IsTable(f),
         NEW start \in Nat, NEW size \in Nat, NEW row \in DOMAIN f, NEW v
  PROVE  PageIn(p, Written(f, row, v), start, size) = Applied(PageIn(p, f, start, size), row, v)
<1>0. PICK n \in Totals : f \in [0 .. n - 1 -> Value]
  BY DEF IsTable
<1> DEFINE g == [f EXCEPT ![row] = v]
           first == Min({start, n})
           end == Min({first + size, n})
           PageAt(h) == [of |-> p, start |-> first, rows |-> [r \in first .. end - 1 |-> h[r]]]
<1>1. n \in Nat
  BY TotalsAreNat
<1>2. DOMAIN f = 0 .. n - 1 /\ Cardinality(DOMAIN f) = n
  BY <1>0, <1>1, TotalOfRows
<1>3. DOMAIN g = DOMAIN f
  OBVIOUS
<1>4. PageIn(p, f, start, size) = PageAt(f)
  BY <1>2 DEF PageIn
<1>5. PageIn(p, g, start, size) = PageAt(g)
  BY <1>2, <1>3 DEF PageIn
<1>6. first .. end - 1 \subseteq DOMAIN f
  <2>1. first \in Nat
    BY <1>1, Lesser
  <2>2. first + size \in Nat
    BY <2>1
  <2> HIDE DEF first
  <2>3. end \in Nat /\ end <= n
    BY <1>1, <2>2, Lesser
  <2> HIDE DEF end
  <2> QED
    BY <1>1, <1>2, <2>1, <2>3
<1> HIDE DEF first, end
<1> DEFINE R == first .. end - 1
<1>7. DOMAIN PageAt(f).rows = R
  OBVIOUS
<1>8. ASSUME row \in R PROVE PageAt(g) = Patched(PageAt(f), row, v)
  <2>1. [r \in R |-> g[r]] = [[r \in R |-> f[r]] EXCEPT ![row] = v]
    BY <1>6, <1>8
  <2>2. Patched(PageAt(f), row, v)
        = [of |-> p, start |-> first, rows |-> [PageAt(f).rows EXCEPT ![row] = v]]
    <3> DEFINE rows == [r \in R |-> f[r]]
    <3>1. PageAt(f) = [of |-> p, start |-> first, rows |-> rows] /\ PageAt(f).rows = rows
      OBVIOUS
    <3> HIDE DEF PageAt, rows
    <3>2. Patched([of |-> p, start |-> first, rows |-> rows], row, v)
          = [of |-> p, start |-> first, rows |-> [rows EXCEPT ![row] = v]]
      BY RowWritten
    <3> QED
      BY <3>1, <3>2
  <2> QED
    BY <2>1, <2>2
<1>9. ASSUME row \notin R PROVE PageAt(g) = PageAt(f)
  <2>1. [r \in R |-> g[r]] = [r \in R |-> f[r]]
    BY <1>6, <1>9
  <2> QED
    BY <2>1
<1>10. PageIn(p, g, start, size) = Applied(PageIn(p, f, start, size), row, v)
  <2> HIDE DEF PageAt, g
  <2> QED
    BY <1>4, <1>5, <1>7, <1>8, <1>9 DEF Applied
<1> QED
  BY <1>10 DEF Written

LEMMA PageIsPage ==
  ASSUME CellsOK, NEW p \in Path, NEW start \in Nat, NEW size \in Nat
  PROVE  Page(p, start, size) \in Pages
<1>1. PICK n \in Totals : cells[p] \in [0 .. n - 1 -> Value]
  BY CellsOfTable
<1>2. PageIn(p, cells[p], start, size) \in Pages
  BY <1>1, PageShape
<1> QED
  BY <1>2, PageOfCells

\* A table that is created or cut off.
LEMMA BlankTables ==
  ASSUME NEW n \in {0, 1}
  PROVE  n \in Totals /\ Blank(n) \in [0 .. n - 1 -> Value]
  BY TableWindowAssumption DEF Totals, Blank

\* A page with another value in one of its rows.
LEMMA PatchedPage ==
  ASSUME NEW page \in Pages, NEW row \in DOMAIN page.rows, NEW v \in Value
  PROVE  LET new == Patched(page, row, v) IN new \in Pages /\ DOMAIN new.rows = DOMAIN page.rows
<1>1. /\ page = [of |-> page.of, start |-> page.start, rows |-> page.rows]
      /\ page.of \in Path /\ page.start \in Nat
  BY RowsOfPage
<1>2. PICK R \in UNION {Rows(n) : n \in Totals} : page.rows \in [R -> Value]
  BY RowsOfPage
<1>a. PICK of, start, old : of = page.of /\ start = page.start /\ old = page.rows
  OBVIOUS
<1>b. PICK rows : rows = [old EXCEPT ![row] = v]
  OBVIOUS
<1>3. rows \in [R -> Value] /\ DOMAIN rows = DOMAIN page.rows
  BY <1>2, <1>a, <1>b
<1>c. page = [of |-> of, start |-> start, rows |-> old]
  BY <1>1, <1>a
<1>d. Patched([of |-> of, start |-> start, rows |-> old], row, v)
      = [of |-> of, start |-> start, rows |-> [old EXCEPT ![row] = v]]
  BY RowWritten
<1>4. Patched(page, row, v) = [of |-> page.of, start |-> page.start, rows |-> rows]
  BY <1>a, <1>b, <1>c, <1>d
<1>5. [of |-> page.of, start |-> page.start, rows |-> rows] \in Pages
  BY <1>1, <1>3 DEF Pages
<1> QED
  BY <1>3, <1>4, <1>5

-----------------------------------------------------------------------------
(* Handlers                                                                *)

LEMMA AnswersTo ==
  /\ Answers("rows") = {None, Error} \cup Pages
  /\ Answers("search") = {None, Error} \cup SUBSET Nat
  /\ \A req \in Requests \ {"rows", "search"} : Answers(req) = {None, Error, "ok"}
  BY DEF Answers

LEMMA FieldsOfHandler ==
  ASSUME NEW c, IsHandler(c)
  PROVE  /\ c = [op |-> c.op, req |-> c.req, path |-> c.path, start |-> c.start, size |-> c.size,
                 row |-> c.row, value |-> c.value, answer |-> c.answer, alone |-> c.alone]
         /\ c.op \in {"open", "create", "load", "jump", "reload", "close", "search", "set", "clear"}
         /\ c.req \in Requests /\ c.path \in Path /\ c.start \in Nat
         /\ c.size \in PageSizes \cup {None}
         /\ c.row \in Nat \cup {None} /\ c.value \in Value \cup {None}
         /\ c.answer \in Answers(c.req) /\ c.alone \in BOOLEAN
         /\ Staged(c) /\ c # None
<1>1. c \in Handlers(c.req) /\ c.req \in Requests /\ Staged(c)
  BY DEF IsHandler
<1>2. c # None
  BY <1>1, TableWindowAssumption
<1> QED
  BY <1>1, <1>2 DEF Handlers

LEMMA MakesHandler ==
  ASSUME NEW c,
         c = [op |-> c.op, req |-> c.req, path |-> c.path, start |-> c.start, size |-> c.size,
              row |-> c.row, value |-> c.value, answer |-> c.answer, alone |-> c.alone],
         c.op \in {"open", "create", "load", "jump", "reload", "close", "search", "set", "clear"},
         c.req \in Requests, c.path \in Path, c.start \in Nat, c.size \in PageSizes \cup {None},
         c.row \in Nat \cup {None}, c.value \in Value \cup {None}, c.answer = None,
         c.alone \in BOOLEAN, Staged(c)
  PROVE  IsHandler(c) /\ c # None
<1>1. c.answer \in Answers(c.req)
  BY DEF Answers
<1>2. c \in Handlers(c.req)
  BY <1>1 DEF Handlers
<1>3. c # None
  BY <1>2, TableWindowAssumption
<1> QED
  BY <1>2, <1>3 DEF IsHandler

Asked(c, req) == [c EXCEPT !.req = req, !.answer = None]

\* A handler that goes on with its next request.
LEMMA AsksNext ==
  ASSUME NEW c, IsHandler(c), NEW req,
         \/ c.op \in {"open", "create", "reload", "clear"} /\ req = "rows"
         \/ c.req = "pick" /\ c.answer = "ok" /\ req = "set"
  PROVE  LET d == Asked(c, req) IN
         /\ IsHandler(d) /\ d # None
         /\ d.op = c.op /\ d.path = c.path /\ d.start = c.start /\ d.size = c.size /\ d.row = c.row
         /\ d.req = req /\ d.answer = None /\ d.value = c.value /\ d.alone = c.alone
<1> DEFINE d == Asked(c, req)
<1>0. d = [c EXCEPT !.req = req, !.answer = None]
  BY DEF Asked
<1> HIDE DEF d
<1>1. /\ c = [op |-> c.op, req |-> c.req, path |-> c.path, start |-> c.start, size |-> c.size,
              row |-> c.row, value |-> c.value, answer |-> c.answer, alone |-> c.alone]
      /\ c.op \in {"open", "create", "load", "jump", "reload", "close", "search", "set", "clear"}
      /\ c.path \in Path /\ c.start \in Nat
      /\ c.size \in PageSizes \cup {None}
      /\ c.row \in Nat \cup {None} /\ c.value \in Value \cup {None} /\ c.alone \in BOOLEAN
      /\ Staged(c)
  BY FieldsOfHandler
<1>2. d = [op |-> c.op, req |-> req, path |-> c.path, start |-> c.start, size |-> c.size,
           row |-> c.row, value |-> c.value, answer |-> None, alone |-> c.alone]
  BY <1>0, <1>1
<1>3. Staged(d)
  BY <1>1, <1>2, TableWindowAssumption DEF Staged
<1>4. req \in Requests /\ None \in Answers(req)
  BY AnswersTo DEF Requests
<1>5. d \in Handlers(req)
  BY <1>1, <1>2, <1>4 DEF Handlers
<1>6. d # None
  BY <1>4, <1>5, TableWindowAssumption
<1> QED
  BY <1>2, <1>3, <1>4, <1>5, <1>6 DEF IsHandler, d

LEMMA RunsAlone ==
  ASSUME NEW c, IsHandler(c), NEW alone \in BOOLEAN
  PROVE  LET d == [c EXCEPT !.alone = alone] IN
         /\ IsHandler(d) /\ d # None /\ d.alone = alone /\ d.answer = c.answer
         /\ d.op = c.op /\ d.req = c.req /\ d.path = c.path /\ d.start = c.start
<1> DEFINE d == [c EXCEPT !.alone = alone]
<1>1. /\ c.req \in Requests /\ c.answer \in Answers(c.req) /\ c.value \in Value \cup {None}
      /\ c = [op |-> c.op, req |-> c.req, path |-> c.path, start |-> c.start, size |-> c.size,
              row |-> c.row, value |-> c.value, answer |-> c.answer, alone |-> c.alone]
  BY FieldsOfHandler
<1>2. Staged(c) /\ c \in Handlers(c.req)
  BY DEF IsHandler
<1>3. d = [op |-> c.op, req |-> c.req, path |-> c.path, start |-> c.start, size |-> c.size,
           row |-> c.row, value |-> c.value, answer |-> c.answer, alone |-> alone]
  BY <1>1
<1>4. Staged(d)
  BY <1>2, <1>3 DEF Staged
<1>5. d \in Handlers(c.req)
  BY <1>2, <1>3 DEF Handlers
<1>6. d # None
  BY <1>1, <1>5, TableWindowAssumption
<1> QED
  BY <1>1, <1>3, <1>4, <1>5, <1>6 DEF IsHandler

-----------------------------------------------------------------------------
(* Steps of a handler                                                      *)

\* What a step leaves of the handlers but one.
Others(s) ==
    /\ call' = [t \in Slot |-> call'[t]]
    /\ \A t \in Slot \ {s} : call'[t] = call[t]

LEMMA CellsAndWindow ==
  ASSUME TypeOK
  PROVE  /\ win = [table |-> win.table, page |-> win.page, start |-> win.start, size |-> win.size,
                   selected |-> win.selected, hits |-> win.hits, busy |-> win.busy,
                   confirm |-> win.confirm]
         /\ win.table \in Path \cup {None} /\ win.page \in Pages \cup {None}
         /\ win.start \in Nat /\ win.size \in PageSizes
         /\ win.selected \in Nat \cup {None} /\ win.hits \subseteq Nat /\ win.busy \in BOOLEAN
         /\ win.confirm \in [path: Path, row: Nat, start: Nat, size: PageSizes] \cup {None}
         /\ \A s \in Slot : call[s] # None => IsHandler(call[s])
         /\ doubt \in BOOLEAN /\ sessions \subseteq Path
         /\ PageSizes \subseteq Nat /\ None \notin Path
  BY TableWindowAssumption DEF TypeOK, WinOK

\* A handler goes on: from a request to its answer or from an answer to a request.
LEMMA HandlerGoesOn ==
  ASSUME IInv, NEW s \in Slot, call[s] # None, Others(s), IsHandler(call'[s]),
         call'[s].alone = call[s].alone,
         CellsOK', sessions' \subseteq Path, WinOK', SelectionOnPage', doubt' \in BOOLEAN,
         doubt => doubt',
         win'.busy => Holds(call'[s]) \/ (win.busy /\ ~Holds(call[s])),
         call[s].alone => Sound(call[s])',
         ~doubt /\ ~doubt' => ScreenOf(call[s])'
  PROVE  IInv'
<1>1. call'[s] # None
  BY FieldsOfHandler
<1>2. TypeOK'
  BY <1>1 DEF IInv, TypeOK, Others
<1>3. Alone'
  BY <1>1 DEF IInv, Alone, Others
<1>4. BusyHeld'
  BY <1>1 DEF IInv, BusyHeld, Others
<1>5. Screen'
  <2>1. ~Idle'
    BY <1>1 DEF Idle
  <2>2. ASSUME NEW t \in Slot, call'[t] # None
        PROVE  (call'[t].alone => Sound(call[t])') /\ (~doubt' => ScreenOf(call[t])')
    <3>1. CASE t = s
      BY <3>1, <1>1 DEF IInv, Alone
    <3>2. CASE t # s
      <4>1. call'[t] = call[t]
        BY <3>2 DEF Others
      <4>2. doubt /\ ~call[t].alone
        BY <2>2, <3>2, <4>1 DEF IInv, Alone
      <4> QED
        BY <4>1, <4>2
    <3> QED
      BY <3>1, <3>2
  <2> QED
    BY <2>1, <2>2 DEF Screen
<1> QED
  BY <1>2, <1>3, <1>4, <1>5 DEF IInv

\* A handler is done.
LEMMA HandlerEnds ==
  ASSUME IInv, NEW s \in Slot, call[s] # None, NEW heals, NEW unread, Done(s, heals, unread),
         WinOK', SelectionOnPage',
         ~win'.busy \/ (win.busy /\ ~Holds(call[s])),
         call[s].alone /\ (heals \/ (~doubt /\ ~unread)) => Shown'
  PROVE  IInv'
<1>1. /\ call' = [t \in Slot |-> call'[t]] /\ call'[s] = None
      /\ \A t \in Slot \ {s} : call'[t] = call[t]
  BY DEF IInv, TypeOK, Done
<1>2. UNCHANGED <<cells, sessions>> /\ doubt' \in BOOLEAN
  BY DEF IInv, TypeOK, Done
<1>3. doubt' <=> ~(heals /\ call[s].alone) /\ (doubt \/ unread)
  BY DEF IInv, TypeOK, Done
<1>4. ASSUME NEW t \in Slot, call'[t] # None
      PROVE  t # s /\ call'[t] = call[t] /\ IsHandler(call'[t]) /\ ~call[t].alone /\ ~call[s].alone
             /\ doubt /\ doubt'
  BY <1>1, <1>3, <1>4 DEF IInv, TypeOK, Alone
<1>5. TypeOK'
  BY <1>1, <1>2, <1>4 DEF IInv, TypeOK, CellsOK
<1>6. Alone'
  BY <1>4 DEF Alone
<1>7. BusyHeld'
  BY <1>1, <1>4 DEF IInv, BusyHeld
<1>8. Screen'
  <2>1. ASSUME NEW t \in Slot, call'[t] # None
        PROVE  (call'[t].alone => Sound(call[t])') /\ (~doubt' => ScreenOf(call[t])')
    BY <2>1, <1>4
  <2>2. ASSUME ~doubt' PROVE Shown'
    <3>1. call[s].alone
      BY <2>2, <1>3 DEF IInv, Alone
    <3> QED
      BY <2>2, <3>1, <1>3
  <2> QED
    BY <2>1, <2>2 DEF Screen
<1> QED
  BY <1>5, <1>6, <1>7, <1>8 DEF IInv

\* What the window shows stays, but for the selection.
SameScreen ==
    /\ win'.table = win.table /\ win'.page = win.page /\ win'.start = win.start
    /\ win'.selected = win.selected /\ win'.hits = win.hits

LEMMA ShownStays ==
  ASSUME Shown, SameScreen, UNCHANGED cells, sessions \subseteq sessions'
  PROVE  Shown'
<1>1. CASE win.table = None /\ win.page = None /\ win.selected = None /\ win.hits = {}
  BY <1>1 DEF Shown, SameScreen
<1>2. CASE Fits(win.page)
  <2>1. Fits(win.page)'
    BY <1>2 DEF Fits, SameScreen, Page
  <2> QED
    BY <2>1 DEF Shown
<1> QED
  BY <1>1, <1>2 DEF Shown

\* A handler begins.
LEMMA HandlerBegins ==
  ASSUME IInv, NEW s \in Slot, NEW c, IsHandler(c), c.alone, c.answer = None, Begin(s, c),
         c.req = "rows" => c.op \in {"load", "jump"},
         c.op = "reload" => c.start = win.start,
         c.op \in {"load", "jump", "reload", "set", "search"} => c.path = win.table,
         WinOK', SameScreen, win'.busy => Holds(c) \/ win.busy
  PROVE  IInv'
<1> DEFINE others == {t \in Slot : call[t] # None}
           d == [c EXCEPT !.alone = (others = {})]
<1>1. /\ call[s] = None /\ UNCHANGED <<cells, sessions>>
      /\ call' = [t \in Slot |-> IF t = s THEN d
                                 ELSE IF t \in others THEN [call[t] EXCEPT !.alone = FALSE] ELSE None]
      /\ doubt' = (doubt \/ others # {} \/ (c.op = "clear" /\ c.path # win.table))
      /\ doubt => others = {}
  BY DEF Begin
<1>2. /\ IsHandler(d) /\ d # None /\ d.alone = (others = {}) /\ d.answer = None
      /\ d.op = c.op /\ d.req = c.req /\ d.path = c.path /\ d.start = c.start
  <2>1. (others = {}) \in BOOLEAN
    OBVIOUS
  <2> HIDE DEF others
  <2> QED
    BY <2>1, RunsAlone
<1>3. ASSUME NEW t \in others
      PROVE  LET e == [call[t] EXCEPT !.alone = FALSE] IN
             IsHandler(e) /\ e # None /\ e.alone = FALSE /\ e.op = call[t].op /\ e.req = call[t].req
  BY RunsAlone DEF IInv, TypeOK
<1> HIDE DEF d
<1>4. call'[s] = d /\ s \notin others
  BY <1>1
<1>5. \A t \in Slot \ {s} : call'[t] # None => t \in others /\ ~call'[t].alone /\ IsHandler(call'[t])
                                               /\ (Holds(call[t]) => Holds(call'[t]))
  BY <1>1, <1>3 DEF Holds
<1>6. \A t \in others : t # s /\ call'[t] # None /\ (Holds(call[t]) => Holds(call'[t]))
  BY <1>1, <1>3 DEF Holds
<1>7. TypeOK'
  <2>1. call' = [t \in Slot |-> call'[t]]
    BY <1>1
  <2>2. doubt' \in BOOLEAN
    BY <1>1
  <2>3. \A t \in Slot : call'[t] # None => IsHandler(call'[t])
    BY <1>2, <1>4, <1>5
  <2> QED
    BY <1>1, <2>1, <2>2, <2>3 DEF IInv, TypeOK, CellsOK
<1>8. Alone'
  BY <1>1, <1>2, <1>4, <1>5 DEF Alone
<1>9. BusyHeld'
  <2>1. Holds(c) => Holds(call'[s]) /\ call'[s] # None
    BY <1>2, <1>4 DEF Holds
  <2>2. ASSUME win.busy PROVE \E t \in others : Holds(call[t])
    BY <2>2 DEF IInv, BusyHeld
  <2> QED
    BY <1>6, <2>1, <2>2 DEF BusyHeld
<1>10. SelectionOnPage'
  BY DEF IInv, SelectionOnPage, SameScreen
<1>11. Screen'
  <2>1. ~Idle'
    BY <1>2, <1>4 DEF Idle
  <2>2. ASSUME others = {} PROVE Sound(call[s])'
    BY <1>1, <1>2, <1>4, <2>2, TableWindowAssumption DEF Sound, SameScreen
  <2>3. ASSUME ~doubt' PROVE ScreenOf(call[s])'
    <3>1. ~doubt /\ Idle
      BY <1>1, <2>3 DEF Idle
    <3>2. Shown'
      BY <1>1, <3>1, ShownStays DEF IInv, Screen
    <3>3. ~Unseen(call[s])'
      BY <1>2, <1>4, TableWindowAssumption DEF Unseen
    <3> QED
      BY <3>2, <3>3 DEF ScreenOf
  <2>4. ASSUME NEW t \in Slot, call'[t] # None
        PROVE  (call'[t].alone => Sound(call[t])') /\ (~doubt' => ScreenOf(call[t])')
    <3>1. CASE t = s
      BY <3>1, <1>2, <1>4, <2>2, <2>3
    <3>2. CASE t # s
      BY <3>2, <2>4, <1>5, <1>1
    <3> QED
      BY <3>1, <3>2
  <2> QED
    BY <2>1, <2>4 DEF Screen
<1> QED
  BY <1>7, <1>8, <1>9, <1>10, <1>11 DEF IInv

-----------------------------------------------------------------------------
(* The service                                                             *)

\* What is known of a handler under way.
LEMMA Known ==
  ASSUME IInv, NEW s \in Slot, call[s] # None
  PROVE  /\ IsHandler(call[s]) /\ (call[s].alone => Sound(call[s]))
         /\ ~doubt => call[s].alone /\ ScreenOf(call[s])
         /\ call[s].alone \in BOOLEAN /\ doubt \in BOOLEAN
         /\ TypeOK /\ CellsOK /\ WinOK /\ SelectionOnPage /\ sessions \subseteq Path
<1>1. IsHandler(call[s])
  BY DEF IInv, TypeOK
<1>2. call[s].alone \in BOOLEAN
  BY <1>1, FieldsOfHandler
<1> QED
  BY <1>1, <1>2 DEF IInv, TypeOK, Alone, Screen

\* A handler that has its answer.
LEMMA HasAnswer ==
  ASSUME NEW c, IsHandler(c), NEW a \in Answers(c.req), c.req # "pick" \/ a = Error
  PROVE  LET d == [c EXCEPT !.answer = a] IN
         /\ IsHandler(d) /\ d # None /\ d.answer = a
         /\ d.op = c.op /\ d.req = c.req /\ d.path = c.path /\ d.start = c.start /\ d.size = c.size
         /\ d.row = c.row /\ d.value = c.value /\ d.alone = c.alone
<1> DEFINE d == [c EXCEPT !.answer = a]
<1>1. /\ c.req \in Requests /\ c # None
      /\ c = [op |-> c.op, req |-> c.req, path |-> c.path, start |-> c.start, size |-> c.size,
              row |-> c.row, value |-> c.value, answer |-> c.answer, alone |-> c.alone]
  BY FieldsOfHandler
<1>2. Staged(c) /\ c \in Handlers(c.req)
  BY DEF IsHandler
<1>3. d = [op |-> c.op, req |-> c.req, path |-> c.path, start |-> c.start, size |-> c.size,
           row |-> c.row, value |-> c.value, answer |-> a, alone |-> c.alone]
  BY <1>1
<1>4. Staged(d)
  BY <1>2, <1>3, TableWindowAssumption DEF Staged
<1>5. d \in Handlers(c.req)
  BY <1>2, <1>3 DEF Handlers
<1>6. d # None
  BY <1>1, <1>5, TableWindowAssumption
<1> QED
  BY <1>1, <1>3, <1>4, <1>5, <1>6 DEF IsHandler

\* What the handler s has taken, but for its answer.
Kept(s) ==
    /\ call'[s].op = call[s].op /\ call'[s].req = call[s].req /\ call'[s].path = call[s].path
    /\ call'[s].start = call[s].start /\ call'[s].size = call[s].size
    /\ call'[s].row = call[s].row /\ call'[s].value = call[s].value
    /\ call'[s].alone = call[s].alone

LEMMA Answering ==
  ASSUME TypeOK, NEW s \in Slot, call[s] # None, NEW a \in Answers(call[s].req), Answer(s, a),
         call[s].req # "pick" \/ a = Error
  PROVE  /\ Others(s) /\ Kept(s) /\ call'[s].answer = a
         /\ IsHandler(call'[s]) /\ call'[s] # None
<1>1. IsHandler(call[s]) /\ call = [t \in Slot |-> call[t]]
  BY DEF TypeOK
<1>2. call'[s] = [call[s] EXCEPT !.answer = a]
  BY <1>1 DEF Answer
<1>3. Others(s)
  BY <1>1 DEF Answer, Others
<1> DEFINE c == call[s]
<1> HIDE DEF c
<1>4. IsHandler(c) /\ a \in Answers(c.req) /\ (c.req # "pick" \/ a = Error)
  BY <1>1 DEF c
<1>5. LET d == [c EXCEPT !.answer = a] IN
      /\ IsHandler(d) /\ d # None /\ d.answer = a
      /\ d.op = c.op /\ d.req = c.req /\ d.path = c.path /\ d.start = c.start /\ d.size = c.size
      /\ d.row = c.row /\ d.value = c.value /\ d.alone = c.alone
  BY <1>4, HasAnswer
<1> QED
  BY <1>2, <1>3, <1>5 DEF Kept, c

LEMMA ServiceKeeps ==
  ASSUME IInv, NEW s \in Slot, call[s] # None, NEW a \in Answers(call[s].req), Answer(s, a),
         call[s].req # "pick" \/ a = Error, win' = win, CellsOK', sessions' \subseteq Path, doubt' \in BOOLEAN, doubt => doubt',
         call[s].alone => Sound(call[s])',
         ~doubt /\ ~doubt' => ScreenOf(call[s])'
  PROVE  IInv'
<1>1. TypeOK /\ WinOK /\ SelectionOnPage
  BY DEF IInv, TypeOK
<1>2. Others(s) /\ Kept(s) /\ IsHandler(call'[s])
  BY <1>1, Answering
<1>3. WinOK' /\ SelectionOnPage'
  BY <1>1 DEF WinOK, SelectionOnPage
<1>4. win'.busy => Holds(call'[s]) \/ (win.busy /\ ~Holds(call[s]))
  BY <1>2 DEF Kept, Holds
<1> QED
  BY <1>2, <1>3, <1>4, HandlerGoesOn DEF Kept

LEMMA OpenTableKeeps == ASSUME IInv, NEW s \in Slot, OpenTable(s) PROVE IInv'
<1>1. /\ call[s] # None /\ call[s].req = "open" /\ call[s].answer = None
      /\ sessions' = sessions \cup {call[s].path} /\ Answer(s, "ok") /\ UNCHANGED <<cells, win, doubt>>
  BY DEF OpenTable, Pending
<1>2. /\ IsHandler(call[s]) /\ (call[s].alone => Sound(call[s]))
      /\ ~doubt => call[s].alone /\ ScreenOf(call[s])
      /\ doubt \in BOOLEAN /\ TypeOK /\ CellsOK /\ sessions \subseteq Path
  BY <1>1, Known
<1>3. "ok" \in Answers(call[s].req) /\ call[s].path \in Path
  BY <1>1, <1>2, AnswersTo, FieldsOfHandler
<1>4. Kept(s) /\ call'[s].answer = "ok"
  BY <1>1, <1>2, <1>3, Answering
<1>5. CellsOK' /\ sessions' \subseteq Path /\ doubt' \in BOOLEAN
  BY <1>1, <1>2, <1>3 DEF CellsOK
<1>6. ASSUME call[s].alone PROVE Sound(call[s])'
  BY <1>1, <1>2, <1>4, <1>6 DEF Sound, Kept
<1>7. ASSUME ~doubt PROVE ScreenOf(call[s])'
  <2>1. ~Unseen(call[s]) /\ ~Unseen(call[s])'
    BY <1>1, <1>4 DEF Unseen, Kept
  <2>2. Shown /\ SameScreen
    BY <1>1, <1>2, <1>7, <2>1 DEF ScreenOf, SameScreen
  <2>3. Shown'
    BY <1>1, <2>2, ShownStays
  <2> QED
    BY <2>1, <2>3 DEF ScreenOf
<1> QED
  BY <1>1, <1>3, <1>5, <1>6, <1>7, ServiceKeeps

LEMMA CreateTableKeeps == ASSUME IInv, NEW s \in Slot, CreateTable(s) PROVE IInv'
<1>1. /\ call[s] # None /\ call[s].req = "create" /\ call[s].answer = None
      /\ cells' = [cells EXCEPT ![call[s].path] = Blank(1)]
      /\ sessions' = sessions \cup {call[s].path} /\ Answer(s, "ok") /\ UNCHANGED <<win, doubt>>
  BY DEF CreateTable, Pending
<1>2. /\ IsHandler(call[s]) /\ (call[s].alone => Sound(call[s]))
      /\ doubt \in BOOLEAN /\ TypeOK /\ CellsOK /\ sessions \subseteq Path
  BY <1>1, Known
<1>3. "ok" \in Answers(call[s].req) /\ call[s].path \in Path /\ call[s].op = "create"
  BY <1>1, <1>2, AnswersTo, FieldsOfHandler DEF Staged
<1>4. Kept(s) /\ call'[s].answer = "ok"
  BY <1>1, <1>2, <1>3, Answering
<1>5. CellsOK' /\ sessions' \subseteq Path /\ doubt' \in BOOLEAN
  BY <1>1, <1>2, <1>3, BlankTables DEF CellsOK
<1>6. ASSUME call[s].alone PROVE Sound(call[s])'
  BY <1>1, <1>3, <1>4 DEF Sound, Kept
<1>7. ScreenOf(call[s])'
  BY <1>1, <1>3, <1>4 DEF ScreenOf, Unseen, Kept
<1> QED
  BY <1>1, <1>3, <1>5, <1>6, <1>7, ServiceKeeps

LEMMA CloseTableKeeps == ASSUME IInv, NEW s \in Slot, CloseTable(s) PROVE IInv'
<1>1. /\ call[s] # None /\ call[s].req = "close" /\ call[s].answer = None
      /\ sessions' = sessions \ {call[s].path} /\ Answer(s, "ok") /\ UNCHANGED <<cells, win, doubt>>
  BY DEF CloseTable, Pending
<1>2. /\ IsHandler(call[s]) /\ (call[s].alone => Sound(call[s]))
      /\ doubt \in BOOLEAN /\ TypeOK /\ CellsOK /\ sessions \subseteq Path
  BY <1>1, Known
<1>3. "ok" \in Answers(call[s].req) /\ call[s].op = "close"
  BY <1>1, <1>2, AnswersTo, FieldsOfHandler DEF Staged
<1>4. Kept(s) /\ call'[s].answer = "ok"
  BY <1>1, <1>2, <1>3, Answering
<1>5. CellsOK' /\ sessions' \subseteq Path /\ doubt' \in BOOLEAN
  BY <1>1, <1>2 DEF CellsOK
<1>6. ASSUME call[s].alone PROVE Sound(call[s])'
  BY <1>1, <1>3, <1>4 DEF Sound, Kept
<1>7. ScreenOf(call[s])'
  BY <1>1, <1>3, <1>4 DEF ScreenOf, Unseen, Kept
<1> QED
  BY <1>1, <1>3, <1>5, <1>6, <1>7, ServiceKeeps

LEMMA GetTableRowsKeeps == ASSUME IInv, NEW s \in Slot, GetTableRows(s) PROVE IInv'
<1> DEFINE page == Page(call[s].path, call[s].start, call[s].size)
<1>1. /\ call[s] # None /\ call[s].req = "rows" /\ call[s].answer = None
      /\ call[s].path \in sessions /\ Answer(s, page) /\ UNCHANGED <<cells, sessions, win, doubt>>
  BY DEF GetTableRows, Pending
<1>2. /\ IsHandler(call[s]) /\ (call[s].alone => Sound(call[s]))
      /\ ~doubt => call[s].alone /\ ScreenOf(call[s])
      /\ doubt \in BOOLEAN /\ TypeOK /\ CellsOK /\ sessions \subseteq Path
  BY <1>1, Known
<1>3. call[s].path \in Path /\ call[s].start \in Nat /\ call[s].size \in Nat
  BY <1>1, <1>2, FieldsOfHandler, TableWindowAssumption DEF Staged
<1>4. page \in Answers(call[s].req)
  <2>1. page \in Pages
    BY <1>2, <1>3, PageIsPage
  <2> QED
    BY <1>1, <2>1, AnswersTo
<1>5. page' = page
  BY <1>1, <1>2, <1>4, Answering DEF Page, Kept
<1> HIDE DEF page
<1>6. Kept(s) /\ call'[s].answer = page
  BY <1>1, <1>2, <1>4, Answering
<1>7. CellsOK' /\ sessions' \subseteq Path /\ doubt' \in BOOLEAN
  BY <1>1, <1>2 DEF CellsOK
<1>8. ASSUME call[s].alone PROVE Sound(call[s])'
  <2>1. call'[s].answer = Page(call[s].path, call[s].start, call[s].size)'
    BY <1>5, <1>6 DEF page
  <2> QED
    BY <1>1, <1>2, <1>6, <1>8, <2>1 DEF Sound, Kept
<1>9. ASSUME ~doubt PROVE ScreenOf(call[s])'
  <2>1. Unseen(call[s]) <=> Unseen(call[s])'
    BY <1>1, <1>6 DEF Unseen, Kept
  <2>2. CASE ~Unseen(call[s])
    BY <1>1, <1>2, <1>9, <2>1, <2>2, ShownStays DEF ScreenOf, SameScreen
  <2>3. CASE Unseen(call[s])
    <3>1. call[s].op # "set"
      BY <1>1, <2>3 DEF Unseen
    <3> QED
      BY <1>1, <1>2, <1>6, <1>9, <2>1, <2>3, <3>1 DEF ScreenOf, Kept
  <2> QED
    BY <2>2, <2>3
<1> QED
  BY <1>1, <1>4, <1>7, <1>8, <1>9, ServiceKeeps

\* A cell is written; the window shows it when the answer comes.
LEMMA WrittenFits ==
  ASSUME TypeOK, NEW p \in sessions, NEW row \in DOMAIN cells[p], NEW v \in Value,
         cells' = [cells EXCEPT ![p][row] = v]
  PROVE  /\ CellsOK' /\ \A q \in Path : DOMAIN cells'[q] = DOMAIN cells[q]
         /\ win' = win /\ sessions' = sessions /\ win.table = p /\ Fits(win.page)
            => Fits(ApplyCell(row, v))'
<1>1. CellsOK /\ p \in Path /\ cells = [q \in Path |-> cells[q]]
  BY DEF TypeOK, CellsOK
<1>2. PICK n \in Totals : cells[p] \in [0 .. n - 1 -> Value]
  BY <1>1, CellsOfTable
<1> DEFINE f == cells[p]
           g == [f EXCEPT ![row] = v]
<1>3. cells' = [cells EXCEPT ![p] = g] /\ cells'[p] = g /\ \A q \in Path \ {p} : cells'[q] = cells[q]
  BY <1>1
<1>4. g \in [0 .. n - 1 -> Value] /\ DOMAIN g = DOMAIN f
  BY <1>2
<1>5. CellsOK'
  <2> HIDE DEF g
  <2> QED
    BY <1>1, <1>3, <1>4 DEF CellsOK
<1>6. \A q \in Path : DOMAIN cells'[q] = DOMAIN cells[q]
  BY <1>3, <1>4
<1>7. ASSUME win' = win, sessions' = sessions, win.table = p, Fits(win.page)
      PROVE  Fits(ApplyCell(row, v))'
  <2>1. PICK size \in PageSizes : win.page = Page(p, win.start, size)
    BY <1>7 DEF Fits
  <2>2. /\ size \in Nat /\ win.start \in Nat /\ win.page # None /\ row \in DOMAIN f
    <3>1. size \in Nat /\ win.start \in Nat
      BY CellsAndWindow
    <3>2. Page(p, win.start, size) \in Pages
      BY <1>1, <3>1, PageIsPage
    <3> QED
      BY <2>1, <3>1, <3>2, TableWindowAssumption
  <2>3. win.page = PageIn(p, f, win.start, size)
    BY <2>1, PageOfCells
  <2>10. PICK start : start = win.start
    OBVIOUS
  <2>11. PICK h : h = f
    OBVIOUS
  <2> DEFINE page == PageIn(p, h, start, size)
  <2>4. PageIn(p, g, start, size) = IF row \in DOMAIN page.rows THEN Patched(page, row, v) ELSE page
    <3>1. IsTable(h) /\ start \in Nat /\ row \in DOMAIN h
      BY <1>2, <2>2, <2>10, <2>11 DEF IsTable
    <3>2. p \in Path /\ n \in Totals /\ size \in Nat
      BY <1>1, <2>2
    <3>3. PageIn(p, Written(h, row, v), start, size) = Applied(page, row, v)
      BY <3>1, <3>2, PageWritten
    <3> QED
      BY <3>3, <2>11 DEF Written, Applied
  <2> HIDE DEF f, g, page
  <2>5. ApplyCell(row, v)' = PageIn(p, g, start, size)
    <3>1. win.page = page
      BY <2>3, <2>10, <2>11 DEF page
    <3>2. ApplyCell(row, v)' = IF win'.page = None \/ row \notin DOMAIN win'.page.rows THEN win'.page
                               ELSE Patched(win'.page, row, v)
      BY DEF ApplyCell, Patched
    <3> QED
      BY <1>7, <2>2, <2>4, <3>1, <3>2
  <2>6. Page(p, start, size)' = PageIn(p, g, start, size)
    BY <1>3, <1>7, <2>10 DEF Page, PageIn
  <2>7. win'.hits \subseteq DOMAIN cells'[p] /\ win'.table = p /\ win'.start = start /\ p \in sessions'
    BY <1>1, <1>6, <1>7, <2>10 DEF Fits
  <2>8. ApplyCell(row, v)' = Page(win.table, win.start, size)'
    BY <1>3, <1>7, <2>5, <2>10 DEF Page, PageIn
  <2> QED
    BY <2>7, <2>8 DEF Fits
<1> QED
  BY <1>5, <1>6, <1>7

LEMMA SetTableCellKeeps == ASSUME IInv, NEW s \in Slot, SetTableCell(s) PROVE IInv'
<1>1. /\ call[s] # None /\ call[s].req = "set" /\ call[s].answer = None
      /\ call[s].path \in sessions /\ call[s].row \in DOMAIN cells[call[s].path]
      /\ cells' = [cells EXCEPT ![call[s].path][call[s].row] = call[s].value]
      /\ Answer(s, "ok") /\ UNCHANGED <<sessions, win, doubt>>
  BY DEF SetTableCell, Pending
<1>2. /\ IsHandler(call[s]) /\ (call[s].alone => Sound(call[s]))
      /\ ~doubt => call[s].alone /\ ScreenOf(call[s])
      /\ doubt \in BOOLEAN /\ TypeOK /\ CellsOK /\ sessions \subseteq Path
  BY <1>1, Known
<1>3. /\ "ok" \in Answers(call[s].req) /\ call[s].op = "set" /\ call[s].value \in Value
      /\ call[s].path \in Path
  BY <1>1, <1>2, AnswersTo, FieldsOfHandler DEF Staged
<1>4. Kept(s) /\ call'[s].answer = "ok"
  BY <1>1, <1>2, <1>3, Answering
<1>5. /\ CellsOK' /\ sessions' \subseteq Path /\ doubt' \in BOOLEAN
      /\ win.table = call[s].path /\ Fits(win.page) => Fits(ApplyCell(call[s].row, call[s].value))'
  <2>1. PICK p \in sessions, v \in Value, row \in DOMAIN cells[call[s].path] : p = call[s].path /\ row = call[s].row /\ v = call[s].value
    BY <1>1, <1>3
  <2>2. row \in DOMAIN cells[p] /\ cells' = [cells EXCEPT ![p][row] = v]
    BY <1>1, <2>1
  <2>3. /\ CellsOK'
        /\ win' = win /\ sessions' = sessions /\ win.table = p /\ Fits(win.page)
           => Fits(ApplyCell(row, v))'
    BY <1>2, <2>2, WrittenFits
  <2>4. row = call'[s].row /\ v = call'[s].value
    BY <1>4, <2>1 DEF Kept
  <2>5. Fits(ApplyCell(row, v))' => Fits(ApplyCell(call[s].row, call[s].value))'
    BY <2>4 DEF Fits, ApplyCell
  <2> QED
    BY <1>1, <1>2, <2>1, <2>3, <2>5
<1>6. ASSUME call[s].alone PROVE Sound(call[s])'
  BY <1>1, <1>2, <1>3, <1>4, <1>6 DEF Sound, Kept
<1>7. ASSUME ~doubt PROVE ScreenOf(call[s])'
  <2>1. ~Unseen(call[s])
    BY <1>1, TableWindowAssumption DEF Unseen
  <2>2. Shown /\ win.table = call[s].path /\ win.table # None
    BY <1>2, <1>3, <1>7, <2>1, TableWindowAssumption DEF ScreenOf, Sound
  <2>3. Fits(ApplyCell(call[s].row, call[s].value))'
    BY <1>5, <2>2 DEF Shown
  <2> QED
    BY <1>1, <1>3, <1>4, <2>3 DEF ScreenOf, Unseen, Kept
<1> QED
  BY <1>1, <1>3, <1>5, <1>6, <1>7, ServiceKeeps

LEMMA ClearTableRowKeeps == ASSUME IInv, NEW s \in Slot, ClearTableRow(s) PROVE IInv'
<1>1. /\ call[s] # None /\ call[s].req = "clear" /\ call[s].answer = None
      /\ call[s].path \in sessions /\ call[s].row \in DOMAIN cells[call[s].path]
      /\ cells' = [cells EXCEPT ![call[s].path][call[s].row] = 0]
      /\ Answer(s, "ok") /\ UNCHANGED <<sessions, win, doubt>>
  BY DEF ClearTableRow, Pending
<1>2. /\ IsHandler(call[s]) /\ (call[s].alone => Sound(call[s]))
      /\ ~doubt => call[s].alone /\ ScreenOf(call[s])
      /\ doubt \in BOOLEAN /\ TypeOK /\ CellsOK /\ sessions \subseteq Path
  BY <1>1, Known
<1>3. /\ "ok" \in Answers(call[s].req) /\ call[s].op = "clear" /\ 0 \in Value
      /\ call[s].path \in Path
  BY <1>1, <1>2, AnswersTo, FieldsOfHandler, TableWindowAssumption DEF Staged
<1>4. Kept(s) /\ call'[s].answer = "ok"
  BY <1>1, <1>2, <1>3, Answering
<1>5. /\ CellsOK' /\ sessions' \subseteq Path /\ doubt' \in BOOLEAN
      /\ \A q \in Path : DOMAIN cells'[q] = DOMAIN cells[q]
  <2>1. PICK p \in sessions, row \in DOMAIN cells[call[s].path] : p = call[s].path /\ row = call[s].row
    BY <1>1
  <2>2. row \in DOMAIN cells[p] /\ cells' = [cells EXCEPT ![p][row] = 0]
    BY <1>1, <2>1
  <2>3. CellsOK' /\ \A q \in Path : DOMAIN cells'[q] = DOMAIN cells[q]
    BY <1>2, <1>3, <2>2, WrittenFits
  <2> QED
    BY <1>1, <1>2, <2>3
<1>6. ASSUME call[s].alone PROVE Sound(call[s])'
  BY <1>1, <1>2, <1>3, <1>4, <1>6 DEF Sound, Kept
<1>7. ASSUME ~doubt PROVE ScreenOf(call[s])'
  <2>1. ~Unseen(call[s])
    BY <1>1, TableWindowAssumption DEF Unseen
  <2>2. Shown /\ win.table = call[s].path /\ win.table # None
    BY <1>2, <1>3, <1>7, <2>1, TableWindowAssumption DEF ScreenOf, Sound
  <2>3. win.table \in sessions /\ win.hits \subseteq DOMAIN cells[win.table]
    BY <2>2 DEF Shown, Fits
  <2>4. win'.table \in sessions' /\ win'.hits \subseteq DOMAIN cells'[win'.table]
    BY <1>1, <1>3, <1>5, <2>2, <2>3
  <2> QED
    BY <1>1, <1>3, <1>4, <2>4 DEF ScreenOf, Unseen, Kept
<1> QED
  BY <1>1, <1>3, <1>5, <1>6, <1>7, ServiceKeeps

LEMMA SearchTableRowsKeeps == ASSUME IInv, NEW s \in Slot, SearchTableRows(s) PROVE IInv'
<1>1. /\ call[s] # None /\ call[s].req = "search" /\ call[s].answer = None
      /\ call[s].path \in sessions /\ UNCHANGED <<cells, sessions, win, doubt>>
      /\ \E a : a \subseteq DOMAIN cells[call[s].path] /\ Answer(s, a)
  <2> DEFINE found == {r \in DOMAIN cells[call[s].path] : cells[call[s].path][r] = call[s].value}
             a == {r \in found : Cardinality({f \in found : f < r}) < Limit}
  <2>1. /\ call[s] # None /\ call[s].req = "search" /\ call[s].answer = None
        /\ call[s].path \in sessions /\ UNCHANGED <<cells, sessions, win, doubt>> /\ Answer(s, a)
    BY DEF SearchTableRows, Pending
  <2>2. a \subseteq DOMAIN cells[call[s].path]
    OBVIOUS
  <2> HIDE DEF a
  <2> QED
    BY <2>1, <2>2
<1>2. /\ IsHandler(call[s]) /\ (call[s].alone => Sound(call[s]))
      /\ ~doubt => call[s].alone /\ ScreenOf(call[s])
      /\ doubt \in BOOLEAN /\ TypeOK /\ CellsOK /\ sessions \subseteq Path
  BY <1>1, Known
<1>3. PICK a : a \subseteq DOMAIN cells[call[s].path] /\ Answer(s, a)
  BY <1>1
<1>4. a \in Answers(call[s].req)
  <2>1. PICK n \in Totals : n \in Nat /\ cells[call[s].path] \in [0 .. n - 1 -> Value]
    BY <1>1, <1>2, CellsOfTable
  <2>2. a \subseteq Nat
    BY <1>3, <2>1
  <2> QED
    BY <1>1, <2>2, AnswersTo
<1>5. Kept(s) /\ call'[s].answer = a
  BY <1>1, <1>2, <1>3, <1>4, Answering
<1>6. CellsOK' /\ sessions' \subseteq Path /\ doubt' \in BOOLEAN
  BY <1>1, <1>2 DEF CellsOK
<1>7. ASSUME call[s].alone PROVE Sound(call[s])'
  BY <1>1, <1>2, <1>3, <1>5, <1>7 DEF Sound, Kept
<1>8. ASSUME ~doubt PROVE ScreenOf(call[s])'
  <2>1. ~Unseen(call[s]) /\ ~Unseen(call[s])'
    BY <1>1, <1>5 DEF Unseen, Kept
  <2> QED
    BY <1>1, <1>2, <1>8, <2>1, ShownStays DEF ScreenOf, SameScreen
<1> QED
  BY <1>1, <1>3, <1>4, <1>6, <1>7, <1>8, ServiceKeeps

\* A request that fails and leaves all that is read as it was.
LEMMA ErrorKeeps ==
  ASSUME IInv, NEW s \in Slot, call[s] # None, call[s].answer = None, Answer(s, Error),
         UNCHANGED <<cells, win, doubt>>, sessions \subseteq sessions', sessions' \subseteq Path
  PROVE  IInv'
<1>2. /\ IsHandler(call[s]) /\ (call[s].alone => Sound(call[s]))
      /\ ~doubt => call[s].alone /\ ScreenOf(call[s])
      /\ doubt \in BOOLEAN /\ TypeOK /\ CellsOK
  BY Known
<1>3. Error \in Answers(call[s].req)
  BY DEF Answers
<1>4. Kept(s) /\ call'[s].answer = Error
  BY <1>2, <1>3, Answering
<1>5. CellsOK' /\ doubt' \in BOOLEAN
  BY <1>2 DEF CellsOK
<1>6. ASSUME call[s].alone PROVE Sound(call[s])'
  BY <1>2, <1>4, <1>6, TableWindowAssumption DEF Sound, Kept
<1>7. ASSUME ~doubt PROVE ScreenOf(call[s])'
  <2>1. Unseen(call[s]) <=> Unseen(call[s])'
    BY <1>4, TableWindowAssumption DEF Unseen, Kept
  <2>2. CASE ~Unseen(call[s])
    BY <1>2, <1>7, <2>1, <2>2, ShownStays DEF ScreenOf, SameScreen
  <2>3. CASE Unseen(call[s])
    <3>1. call[s].op # "set"
      BY <2>3, TableWindowAssumption DEF Unseen
    <3>2. call[s].op = "clear" => win'.table \in sessions' /\ win'.hits \subseteq DOMAIN cells'[win'.table]
      BY <1>2, <1>7, <2>3 DEF ScreenOf
    <3> QED
      BY <1>4, <2>1, <2>3, <3>1, <3>2 DEF ScreenOf, Kept
  <2> QED
    BY <2>2, <2>3
<1> QED
  BY <1>2, <1>3, <1>5, <1>6, <1>7, ServiceKeeps

LEMMA FailsKeeps == ASSUME IInv, NEW s \in Slot, Fails(s) PROVE IInv'
<1>1. /\ call[s] # None /\ call[s].answer = None
      /\ Answer(s, Error) /\ UNCHANGED <<cells, sessions, win, doubt>>
  BY DEF Fails
<1>2. sessions \subseteq sessions' /\ sessions' \subseteq Path
  BY <1>1, Known
<1> QED
  BY <1>1, <1>2, ErrorKeeps

Picked(c, v) == [c EXCEPT !.answer = "ok", !.value = v]

LEMMA HasFile ==
  ASSUME NEW c, IsHandler(c), c.req = "pick", NEW v \in Value
  PROVE  LET d == Picked(c, v) IN
         /\ IsHandler(d) /\ d # None /\ d.answer = "ok"
         /\ d.op = c.op /\ d.req = c.req /\ d.path = c.path /\ d.start = c.start /\ d.alone = c.alone
<1> DEFINE d == Picked(c, v)
<1>0. d = [c EXCEPT !.answer = "ok", !.value = v]
  BY DEF Picked
<1> HIDE DEF d
<1>1. /\ c = [op |-> c.op, req |-> c.req, path |-> c.path, start |-> c.start, size |-> c.size,
              row |-> c.row, value |-> c.value, answer |-> c.answer, alone |-> c.alone]
      /\ c.op \in {"open", "create", "load", "jump", "reload", "close", "search", "set", "clear"}
      /\ c.path \in Path /\ c.start \in Nat /\ c.size \in PageSizes \cup {None}
      /\ c.row \in Nat \cup {None} /\ c.alone \in BOOLEAN
      /\ Staged(c)
  BY FieldsOfHandler
<1>2. d = [op |-> c.op, req |-> c.req, path |-> c.path, start |-> c.start, size |-> c.size,
           row |-> c.row, value |-> v, answer |-> "ok", alone |-> c.alone]
  BY <1>0, <1>1
<1>3. Staged(d)
  BY <1>1, <1>2 DEF Staged
<1>4. "pick" \in Requests /\ "ok" \in Answers("pick")
  BY AnswersTo DEF Requests
<1>5. d \in Handlers("pick")
  BY <1>1, <1>2, <1>4 DEF Handlers
<1>6. d # None
  BY <1>4, <1>5, TableWindowAssumption
<1> QED
  BY <1>2, <1>3, <1>4, <1>5, <1>6 DEF IsHandler, d

LEMMA PickFileKeeps == ASSUME IInv, NEW s \in Slot, PickFile(s) PROVE IInv'
<1>1. /\ call[s] # None /\ call[s].req = "pick" /\ call[s].answer = None
      /\ UNCHANGED <<cells, sessions, win, doubt>>
  BY DEF PickFile, Pending
<1>2. /\ IsHandler(call[s]) /\ (call[s].alone => Sound(call[s]))
      /\ ~doubt => call[s].alone /\ ScreenOf(call[s])
      /\ doubt \in BOOLEAN /\ TypeOK /\ CellsOK /\ WinOK /\ SelectionOnPage /\ sessions \subseteq Path
  BY <1>1, Known
<1>3. CASE Answer(s, Error)
  <2>1. sessions \subseteq sessions' /\ sessions' \subseteq Path
    BY <1>1, <1>2
  <2> QED
    BY <1>1, <1>3, <2>1, ErrorKeeps
<1>4. ASSUME NEW v \in Value, call' = [call EXCEPT ![s].answer = "ok", ![s].value = v]
      PROVE  IInv'
  <2>1. call = [t \in Slot |-> call[t]]
    BY <1>2 DEF TypeOK
  <2>2. Others(s) /\ call'[s] = Picked(call[s], v)
    BY <1>4, <2>1 DEF Others, Picked
  <2>3. PICK c : c = call[s]
    OBVIOUS
  <2>4. LET d == Picked(c, v) IN
        /\ IsHandler(d) /\ d # None /\ d.answer = "ok"
        /\ d.op = c.op /\ d.req = c.req /\ d.path = c.path /\ d.start = c.start /\ d.alone = c.alone
    BY <1>1, <1>2, <2>3, HasFile
  <2>5. /\ IsHandler(call'[s]) /\ call'[s].answer = "ok" /\ call'[s].op = call[s].op
        /\ call'[s].req = "pick" /\ call'[s].path = call[s].path /\ call'[s].start = call[s].start
        /\ call'[s].alone = call[s].alone
    BY <1>1, <2>2, <2>3, <2>4
  <2>6. CellsOK' /\ sessions' \subseteq Path /\ WinOK' /\ SelectionOnPage' /\ doubt' \in BOOLEAN
    BY <1>1, <1>2 DEF CellsOK, WinOK, SelectionOnPage
  <2>7. win'.busy => Holds(call'[s]) \/ (win.busy /\ ~Holds(call[s]))
    BY <1>1 DEF Holds
  <2>8. ASSUME call[s].alone PROVE Sound(call[s])'
    BY <1>1, <1>2, <2>5, <2>8 DEF Sound
  <2>9. ASSUME ~doubt PROVE ScreenOf(call[s])'
    <3>1. ~Unseen(call[s]) /\ ~Unseen(call[s])'
      BY <1>1, <2>5 DEF Unseen
    <3> QED
      BY <1>1, <1>2, <2>9, <3>1, ShownStays DEF ScreenOf, SameScreen
  <2> QED
    BY <1>1, <2>2, <2>5, <2>6, <2>7, <2>8, <2>9, HandlerGoesOn
<1> QED
  BY <1>3, <1>4 DEF PickFile

LEMMA FailsLateKeeps == ASSUME IInv, NEW s \in Slot, FailsLate(s) PROVE IInv'
<1>1. /\ call[s] # None /\ call[s].answer = None /\ Answer(s, Error) /\ win' = win /\ ~doubt
  BY DEF FailsLate, Pending
<1>2. /\ IsHandler(call[s]) /\ (call[s].alone => Sound(call[s]))
      /\ doubt \in BOOLEAN /\ TypeOK /\ CellsOK /\ sessions \subseteq Path
  BY <1>1, Known
<1>3. Error \in Answers(call[s].req) /\ call[s].path \in Path /\ Staged(call[s])
  BY <1>2, FieldsOfHandler DEF Answers
<1>4. Kept(s) /\ call'[s].answer = Error
  BY <1>1, <1>2, <1>3, Answering
<1>5. CASE Pending(s, "open") /\ sessions' = sessions \cup {call[s].path} /\ UNCHANGED <<cells, doubt>>
  <2>1. sessions \subseteq sessions' /\ sessions' \subseteq Path
    BY <1>2, <1>3, <1>5
  <2> QED
    BY <1>1, <1>5, <2>1, ErrorKeeps
<1>6. CASE /\ Pending(s, "close") \/ Pending(s, "create")
           /\ sessions' = sessions \ {call[s].path}
           /\ \/ UNCHANGED cells
              \/ call[s].req = "create" /\ cells' = [cells EXCEPT ![call[s].path] = Blank(0)]
           /\ doubt' = TRUE
  <2>1. CellsOK'
    BY <1>2, <1>3, <1>6, BlankTables DEF CellsOK
  <2>2. ASSUME call[s].alone PROVE Sound(call[s])'
    BY <1>3, <1>4, <1>6, TableWindowAssumption DEF Sound, Kept, Pending, Staged
  <2>3. sessions' \subseteq Path /\ doubt' \in BOOLEAN /\ doubt'
    BY <1>2, <1>6
  <2> QED
    BY <1>1, <1>3, <2>1, <2>2, <2>3, ServiceKeeps
<1>7. CASE /\ Pending(s, "set") \/ Pending(s, "clear")
           /\ call[s].path \in sessions /\ call[s].row \in DOMAIN cells[call[s].path]
           /\ cells' = [cells EXCEPT ![call[s].path][call[s].row] =
                           IF call[s].req = "set" THEN call[s].value ELSE 0]
           /\ doubt' = TRUE /\ UNCHANGED sessions
  <2>1. (IF call[s].req = "set" THEN call[s].value ELSE 0) \in Value
    BY <1>3, <1>7, TableWindowAssumption DEF Staged, Pending
  <2>2. PICK p \in sessions, v \in Value, row \in DOMAIN cells[call[s].path] :
            p = call[s].path /\ row = call[s].row
            /\ v = (IF call[s].req = "set" THEN call[s].value ELSE 0)
    BY <1>7, <2>1
  <2>3. row \in DOMAIN cells[p] /\ cells' = [cells EXCEPT ![p][row] = v]
    BY <1>7, <2>2
  <2>4. CellsOK'
    BY <1>2, <2>3, WrittenFits
  <2>5. ASSUME call[s].alone PROVE Sound(call[s])'
    BY <1>1, <1>2, <1>3, <1>4, <1>7, <2>5, TableWindowAssumption DEF Sound, Kept, Pending, Staged
  <2>6. sessions' \subseteq Path /\ doubt' \in BOOLEAN /\ doubt'
    BY <1>2, <1>7
  <2> QED
    BY <1>1, <1>3, <2>4, <2>5, <2>6, ServiceKeeps
<1> QED
  BY <1>5, <1>6, <1>7 DEF FailsLate

-----------------------------------------------------------------------------
(* The user                                                                *)

LEMMA ReadingIs ==
  ASSUME NEW op, NEW req, NEW path, NEW start, NEW size, NEW c, c = Reading(op, req, path, start, size)
  PROVE  /\ c = [op |-> op, req |-> req, path |-> path, start |-> start, size |-> size,
                 row |-> None, value |-> None, answer |-> None, alone |-> TRUE]
         /\ c = [op |-> c.op, req |-> c.req, path |-> c.path, start |-> c.start, size |-> c.size,
                 row |-> c.row, value |-> c.value, answer |-> c.answer, alone |-> c.alone]
         /\ c.op = op /\ c.req = req /\ c.path = path /\ c.start = start /\ c.size = size
         /\ c.row = None /\ c.value = None /\ c.answer = None /\ c.alone
  BY DEF Reading

\* A handler that reads a page, or closes.
LEMMA ReadingBegins ==
  ASSUME IInv, NEW s \in Slot,
         NEW op \in {"open", "create", "load", "reload", "close"}, NEW req,
         NEW path \in Path, NEW start \in Nat, NEW size \in PageSizes \cup {None},
         op = "close" \/ size \in PageSizes,
         req = (CASE op = "load" -> "rows" [] op = "reload" -> "open" [] OTHER -> op),
         Begin(s, Reading(op, req, path, start, size)),
         op = "reload" => start = win.start,
         op \in {"load", "reload"} => path = win.table,
         WinOK', SameScreen, win'.busy => op # "close" \/ win.busy
  PROVE  IInv'
<1>1. PICK c : c = Reading(op, req, path, start, size)
  OBVIOUS
<1>2. /\ c = [op |-> c.op, req |-> c.req, path |-> c.path, start |-> c.start, size |-> c.size,
              row |-> c.row, value |-> c.value, answer |-> c.answer, alone |-> c.alone]
      /\ c.op = op /\ c.req = req /\ c.path = path /\ c.start = start /\ c.size = size
      /\ c.row = None /\ c.value = None /\ c.answer = None /\ c.alone
      /\ c.alone = TRUE
  BY <1>1, ReadingIs
<1>3. req = (IF op = "load" THEN "rows" ELSE IF op = "reload" THEN "open" ELSE op)
  OBVIOUS
<1>4. Staged(c)
  BY <1>2, <1>3, TableWindowAssumption DEF Staged
<1>5. c.req \in Requests
  BY <1>2, <1>3 DEF Requests
<1>6. IsHandler(c)
  BY <1>2, <1>4, <1>5, MakesHandler
<1>7. Begin(s, c) /\ (c.req = "rows" => c.op = "load")
  BY <1>1, <1>2, <1>3
<1>8. win'.busy => Holds(c) \/ win.busy
  BY <1>2, <1>3 DEF Holds
<1> QED
  BY <1>2, <1>6, <1>7, <1>8, HandlerBegins

\* What a handler does to the window as it begins.
LEMMA BusyWindow ==
  ASSUME TypeOK, NEW b \in BOOLEAN, Busy(b)
  PROVE  WinOK' /\ SameScreen /\ win'.busy = b /\ win'.size = win.size /\ win'.confirm = win.confirm
<1>1. WinOK
  BY DEF TypeOK
<1>2. win' = [win EXCEPT !.busy = b]
  BY DEF Busy
<1>3. win = [table |-> win.table, page |-> win.page, start |-> win.start, size |-> win.size,
             selected |-> win.selected, hits |-> win.hits, busy |-> win.busy, confirm |-> win.confirm]
  BY <1>1 DEF WinOK
<1>4. win' = [table |-> win.table, page |-> win.page, start |-> win.start, size |-> win.size,
              selected |-> win.selected, hits |-> win.hits, busy |-> b, confirm |-> win.confirm]
  BY <1>2, <1>3
<1> QED
  BY <1>1, <1>4 DEF WinOK, SameScreen

LEMMA SameWindow ==
  ASSUME TypeOK, UNCHANGED win
  PROVE  WinOK' /\ SameScreen /\ win'.busy = win.busy
  BY DEF TypeOK, WinOK, SameScreen

LEMMA OpenTablePathKeeps ==
  ASSUME IInv, NEW s \in Slot, NEW p \in Path, OpenTablePath(s, p) PROVE IInv'
<1>1. TypeOK
  BY DEF IInv
<1>2. Begin(s, Reading("open", "open", p, 0, win.size)) /\ Busy(TRUE)
  BY DEF OpenTablePath
<1>3. WinOK' /\ SameScreen
  BY <1>1, <1>2, BusyWindow
<1>4. win.size \in PageSizes
  BY <1>1, CellsAndWindow
<1> QED
  BY <1>2, <1>3, <1>4, ReadingBegins

LEMMA SubmitCreateTableKeeps ==
  ASSUME IInv, NEW s \in Slot, NEW p \in Path, SubmitCreateTable(s, p) PROVE IInv'
<1>1. TypeOK
  BY DEF IInv
<1>2. Begin(s, Reading("create", "create", p, 0, win.size)) /\ Busy(TRUE)
  BY DEF SubmitCreateTable
<1>3. WinOK' /\ SameScreen
  BY <1>1, <1>2, BusyWindow
<1>4. win.size \in PageSizes
  BY <1>1, CellsAndWindow
<1> QED
  BY <1>2, <1>3, <1>4, ReadingBegins

LEMMA ChangePageKeeps == ASSUME IInv, NEW s \in Slot, ChangePage(s) PROVE IInv'
<1>1. TypeOK
  BY DEF IInv
<1>2. PICK start \in {Max({0, win.page.start - win.size}), win.page.start + win.size} :
          Begin(s, Reading("load", "rows", win.table, start, win.size))
  BY DEF ChangePage
<1>3. Busy(TRUE) /\ win.table # None /\ win.page # None
  BY DEF ChangePage
<1>4. WinOK' /\ SameScreen
  BY <1>1, <1>3, BusyWindow
<1>5. win.size \in PageSizes /\ win.size \in Nat /\ win.table \in Path /\ win.page \in Pages
  BY <1>1, <1>3, CellsAndWindow
<1>6. win.page.start \in Nat
  BY <1>5, RowsOfPage
<1>7. start \in Nat
  BY <1>2, <1>5, <1>6, Greater
<1> QED
  BY <1>2, <1>4, <1>5, <1>7, ReadingBegins

LEMMA ChangePageSizeKeeps ==
  ASSUME IInv, NEW s \in Slot, NEW size \in PageSizes, ChangePageSize(s, size) PROVE IInv'
<1>1. TypeOK
  BY DEF IInv
<1>2. /\ Begin(s, Reading("load", "rows", win.table, 0, size)) /\ win.table # None
      /\ win' = [win EXCEPT !.size = size, !.busy = TRUE]
  BY DEF ChangePageSize
<1>3. win = [table |-> win.table, page |-> win.page, start |-> win.start, size |-> win.size,
             selected |-> win.selected, hits |-> win.hits, busy |-> win.busy, confirm |-> win.confirm]
  BY <1>1, CellsAndWindow
<1>4. win' = [table |-> win.table, page |-> win.page, start |-> win.start, size |-> size,
              selected |-> win.selected, hits |-> win.hits, busy |-> TRUE, confirm |-> win.confirm]
  BY <1>2, <1>3
<1>5. WinOK' /\ SameScreen
  BY <1>1, <1>4 DEF TypeOK, WinOK, SameScreen
<1>6. win.table \in Path
  BY <1>1, <1>2, CellsAndWindow
<1> QED
  BY <1>2, <1>5, <1>6, ReadingBegins

LEMMA ReloadTableKeeps == ASSUME IInv, NEW s \in Slot, ReloadTable(s) PROVE IInv'
<1>1. TypeOK
  BY DEF IInv
<1>2. Begin(s, Reading("reload", "open", win.table, win.start, win.size)) /\ Busy(TRUE) /\ win.table # None
  BY DEF ReloadTable
<1>3. WinOK' /\ SameScreen
  BY <1>1, <1>2, BusyWindow
<1>4. win.size \in PageSizes /\ win.table \in Path /\ win.start \in Nat
  BY <1>1, <1>2, CellsAndWindow
<1> QED
  BY <1>2, <1>3, <1>4, ReadingBegins

LEMMA CloseCurrentKeeps == ASSUME IInv, NEW s \in Slot, CloseCurrent(s) PROVE IInv'
<1>1. TypeOK
  BY DEF IInv
<1>2. Begin(s, Reading("close", "close", win.table, 0, None)) /\ win.table # None /\ UNCHANGED win
  BY DEF CloseCurrent
<1>3. WinOK' /\ SameScreen /\ win'.busy = win.busy
  BY <1>1, <1>2, SameWindow
<1>4. win.table \in Path
  BY <1>1, <1>2, CellsAndWindow
<1> QED
  BY <1>2, <1>3, <1>4, ReadingBegins

LEMMA JumpToRowKeeps == ASSUME IInv, NEW s \in Slot, JumpToRow(s) PROVE IInv'
<1>1. TypeOK
  BY DEF IInv
<1> DEFINE row == Min(win.hits)
<1>2. /\ Begin(s, [Reading("jump", "rows", win.table, (row \div win.size) * win.size, win.size)
                     EXCEPT !.row = row])
      /\ Busy(TRUE) /\ win.table # None /\ win.hits # {}
  BY DEF JumpToRow
<1>3. win.size \in PageSizes /\ win.size \in Nat \ {0} /\ win.table \in Path /\ win.hits \subseteq Nat
  BY <1>1, <1>2, CellsAndWindow, TableWindowAssumption
<1>4. row \in Nat
  BY <1>2, <1>3, Least
<1> HIDE DEF row
<1>5. PICK start : start = (row \div win.size) * win.size
  OBVIOUS
<1>6. start \in Nat
  <2>1. row \div win.size \in Nat
    BY <1>3, <1>4
  <2> QED
    BY <1>3, <1>5, <2>1
<1>7. PICK b : b = Reading("jump", "rows", win.table, start, win.size)
  OBVIOUS
<1>8. PICK c : c = [b EXCEPT !.row = row]
  OBVIOUS
<1>9. b = [op |-> "jump", req |-> "rows", path |-> win.table, start |-> start, size |-> win.size,
           row |-> None, value |-> None, answer |-> None, alone |-> TRUE]
  BY <1>7 DEF Reading
<1>10. c = [op |-> "jump", req |-> "rows", path |-> win.table, start |-> start, size |-> win.size,
            row |-> row, value |-> None, answer |-> None, alone |-> TRUE]
  BY <1>8, <1>9
<1>11. Staged(c) /\ c.req \in Requests
  BY <1>3, <1>10 DEF Staged, Requests
<1>12. IsHandler(c)
  BY <1>3, <1>4, <1>6, <1>10, <1>11, MakesHandler
<1>13. Begin(s, c)
  BY <1>2, <1>5, <1>7, <1>8
<1>14. WinOK' /\ SameScreen
  BY <1>1, <1>2, BusyWindow
<1>15. c.alone /\ c.answer = None /\ c.op = "jump" /\ c.path = win.table /\ Holds(c)
  BY <1>10 DEF Holds
<1> QED
  BY <1>12, <1>13, <1>14, <1>15, HandlerBegins

LEMMA SearchRowsKeeps ==
  ASSUME IInv, NEW s \in Slot, NEW v \in Value, SearchRows(s, v) PROVE IInv'
<1>1. TypeOK
  BY DEF IInv
<1>2. /\ Begin(s, [Reading("search", "search", win.table, 0, None) EXCEPT !.value = v])
      /\ win.table # None /\ UNCHANGED win
  BY DEF SearchRows
<1>3. win.table \in Path
  BY <1>1, <1>2, CellsAndWindow
<1>4. PICK b : b = Reading("search", "search", win.table, 0, None)
  OBVIOUS
<1>5. PICK c : c = [b EXCEPT !.value = v]
  OBVIOUS
<1>6. b = [op |-> "search", req |-> "search", path |-> win.table, start |-> 0, size |-> None,
           row |-> None, value |-> None, answer |-> None, alone |-> TRUE]
  BY <1>4 DEF Reading
<1>7. c = [op |-> "search", req |-> "search", path |-> win.table, start |-> 0, size |-> None,
           row |-> None, value |-> v, answer |-> None, alone |-> TRUE]
  BY <1>5, <1>6
<1>8. Staged(c) /\ c.req \in Requests
  BY <1>7 DEF Staged, Requests
<1>9. IsHandler(c)
  BY <1>3, <1>7, <1>8, MakesHandler
<1>10. Begin(s, c)
  BY <1>2, <1>4, <1>5
<1>11. WinOK' /\ SameScreen /\ win'.busy = win.busy
  BY <1>1, <1>2, SameWindow
<1>12. c.alone /\ c.answer = None /\ c.op = "search" /\ c.req = "search" /\ c.path = win.table
  BY <1>7
<1> QED
  BY <1>9, <1>10, <1>11, <1>12, HandlerBegins

\* A handler that writes a cell begins, or one that picks the file for it.
LEMMA WritingBegins ==
  ASSUME IInv, NEW s \in Slot, NEW req \in {"set", "pick"}, NEW v \in Value \cup {None},
         req = "set" => v \in Value,
         CellSelected, Begin(s, Writing(req, v)),
         WinOK', SameScreen, win'.busy => req = "set" \/ win.busy
  PROVE  IInv'
<1>1. TypeOK
  BY DEF IInv
<1>2. win.table \in Path /\ win.selected \in Nat
  BY <1>1, CellsAndWindow DEF CellSelected
<1>3. PICK b : b = Reading("set", req, win.table, 0, None)
  OBVIOUS
<1>4. PICK c : c = [b EXCEPT !.row = win.selected, !.value = v]
  OBVIOUS
<1>5. b = [op |-> "set", req |-> req, path |-> win.table, start |-> 0, size |-> None,
           row |-> None, value |-> None, answer |-> None, alone |-> TRUE]
  BY <1>3 DEF Reading
<1>6. c = [op |-> "set", req |-> req, path |-> win.table, start |-> 0, size |-> None,
           row |-> win.selected, value |-> v, answer |-> None, alone |-> TRUE]
  BY <1>4, <1>5
<1>7. Staged(c) /\ c.req \in Requests
  BY <1>6, TableWindowAssumption DEF Staged, Requests
<1>8. IsHandler(c)
  BY <1>2, <1>6, <1>7, MakesHandler
<1>9. Begin(s, c)
  BY <1>3, <1>4 DEF Writing
<1>10. c.alone /\ c.answer = None /\ c.op = "set" /\ c.req = req /\ c.path = win.table
  BY <1>6
<1>11. (win'.busy => Holds(c) \/ win.busy) /\ c.req # "rows"
  BY <1>10 DEF Holds
<1> QED
  BY <1>8, <1>9, <1>10, <1>11, HandlerBegins

LEMMA SaveCellKeeps ==
  ASSUME IInv, NEW s \in Slot, NEW v \in Value, SaveCell(s, v) PROVE IInv'
<1>1. TypeOK
  BY DEF IInv
<1>2. CellSelected /\ Begin(s, Writing("set", v)) /\ Busy(TRUE)
  BY DEF SaveCell
<1>3. WinOK' /\ SameScreen
  BY <1>1, <1>2, BusyWindow
<1>4. PICK req : req = "set"
  OBVIOUS
<1>5. req \in {"set", "pick"} /\ Begin(s, Writing(req, v))
  BY <1>2, <1>4
<1> QED
  BY <1>2, <1>3, <1>4, <1>5, WritingBegins

LEMMA ClearCellKeeps == ASSUME IInv, NEW s \in Slot, ClearCell(s) PROVE IInv'
  BY SaveCellKeeps, TableWindowAssumption DEF ClearCell

LEMMA EmbedFileKeeps == ASSUME IInv, NEW s \in Slot, EmbedFile(s) PROVE IInv'
<1>1. TypeOK
  BY DEF IInv
<1>2. CellSelected /\ Begin(s, Writing("pick", None)) /\ UNCHANGED win
  BY DEF EmbedFile
<1>3. WinOK' /\ SameScreen /\ win'.busy = win.busy
  BY <1>1, <1>2, SameWindow
<1> QED
  BY <1>2, <1>3, WritingBegins

LEMMA RunConfirmKeeps == ASSUME IInv, NEW s \in Slot, RunConfirm(s) PROVE IInv'
<1>1. TypeOK
  BY DEF IInv
<1>2. PICK k : k = win.confirm
  OBVIOUS
<1>3. /\ Begin(s, [Reading("clear", "clear", k.path, k.start, k.size) EXCEPT !.row = k.row])
      /\ k # None /\ win' = [win EXCEPT !.confirm = None, !.busy = TRUE]
  BY <1>2 DEF RunConfirm
<1>4. k.path \in Path /\ k.row \in Nat /\ k.start \in Nat /\ k.size \in PageSizes
  BY <1>1, <1>2, <1>3, CellsAndWindow
<1>5. PICK b : b = Reading("clear", "clear", k.path, k.start, k.size)
  OBVIOUS
<1>6. PICK c : c = [b EXCEPT !.row = k.row]
  OBVIOUS
<1>7. b = [op |-> "clear", req |-> "clear", path |-> k.path, start |-> k.start, size |-> k.size,
           row |-> None, value |-> None, answer |-> None, alone |-> TRUE]
  BY <1>5 DEF Reading
<1>8. c = [op |-> "clear", req |-> "clear", path |-> k.path, start |-> k.start, size |-> k.size,
           row |-> k.row, value |-> None, answer |-> None, alone |-> TRUE]
  BY <1>6, <1>7
<1>9. Staged(c) /\ c.req \in Requests
  BY <1>4, <1>8 DEF Staged, Requests
<1>10. IsHandler(c)
  BY <1>4, <1>8, <1>9, MakesHandler
<1>11. Begin(s, c)
  BY <1>3, <1>5, <1>6
<1>12. win = [table |-> win.table, page |-> win.page, start |-> win.start, size |-> win.size,
              selected |-> win.selected, hits |-> win.hits, busy |-> win.busy, confirm |-> win.confirm]
  BY <1>1, CellsAndWindow
<1>13. win' = [table |-> win.table, page |-> win.page, start |-> win.start, size |-> win.size,
               selected |-> win.selected, hits |-> win.hits, busy |-> TRUE, confirm |-> None]
  BY <1>3, <1>12
<1>14. WinOK' /\ SameScreen
  BY <1>1, <1>13 DEF TypeOK, WinOK, SameScreen
<1>15. c.alone /\ c.answer = None /\ c.op = "clear" /\ c.req = "clear" /\ Holds(c)
  BY <1>8 DEF Holds
<1> QED
  BY <1>10, <1>11, <1>14, <1>15, HandlerBegins

\* The window changes, but not what its handlers know of it.
LEMMA WindowChanges ==
  ASSUME IInv, UNCHANGED <<cells, sessions, call, doubt>>, WinOK', SelectionOnPage',
         win'.table = win.table, win'.page = win.page, win'.start = win.start,
         win'.hits = win.hits, win'.busy = win.busy,
         win'.selected = win.selected \/ win.table # None
  PROVE  IInv'
<1>1. TypeOK'
  BY DEF IInv, TypeOK, CellsOK
<1>2. Alone' /\ BusyHeld'
  BY DEF IInv, Alone, BusyHeld
<1>3. ASSUME NEW s \in Slot, Sound(call[s]) PROVE Sound(call[s])'
  BY <1>3 DEF Sound, Page
<1>4. \A page : Fits(page) => Fits(page)'
  BY DEF Fits, Page
<1>5. Shown => Shown'
  BY <1>4 DEF Shown
<1>6. ASSUME NEW s \in Slot, ScreenOf(call[s]) PROVE ScreenOf(call[s])'
  <2>1. Fits(ApplyCell(call[s].row, call[s].value)) => Fits(ApplyCell(call[s].row, call[s].value))'
    <3>1. ApplyCell(call[s].row, call[s].value) = ApplyTo(win.page, call[s].row, call[s].value)
      BY DEF ApplyCell, ApplyTo, Patched
    <3>2. ApplyCell(call[s].row, call[s].value)' = ApplyTo(win'.page, call'[s].row, call'[s].value)
      BY DEF ApplyCell, ApplyTo, Patched
    <3>3. PICK page : page = ApplyCell(call[s].row, call[s].value)
      OBVIOUS
    <3>4. page = ApplyCell(call[s].row, call[s].value)'
      BY <3>1, <3>2, <3>3
    <3>5. Fits(page) => Fits(page)'
      BY <1>4
    <3>6. Fits(page)' => Fits(ApplyCell(call[s].row, call[s].value))'
      BY <3>4 DEF Fits
    <3> QED
      BY <3>3, <3>5, <3>6
  <2> QED
    BY <1>5, <1>6, <2>1 DEF ScreenOf, Unseen
<1>7. Screen'
  BY <1>3, <1>5, <1>6 DEF IInv, Screen, Idle
<1> QED
  BY <1>1, <1>2, <1>7 DEF IInv

LEMMA SelectKeeps ==
  ASSUME IInv, win.page # None, NEW row \in DOMAIN win.page.rows, Select(row) PROVE IInv'
<1>1. TypeOK
  BY DEF IInv
<1>2. row \in Nat
  <2>1. win.page \in Pages
    BY <1>1, CellsAndWindow
  <2> QED
    BY <2>1, RowsOfPage
<1>3. win' = [win EXCEPT !.selected = row] /\ win.table # None /\ UNCHANGED <<cells, sessions, call, doubt>>
  BY DEF Select
<1>4. win = [table |-> win.table, page |-> win.page, start |-> win.start, size |-> win.size,
             selected |-> win.selected, hits |-> win.hits, busy |-> win.busy, confirm |-> win.confirm]
  BY <1>1, CellsAndWindow
<1>5. win' = [table |-> win.table, page |-> win.page, start |-> win.start, size |-> win.size,
              selected |-> row, hits |-> win.hits, busy |-> win.busy, confirm |-> win.confirm]
  BY <1>3, <1>4
<1>6. WinOK' /\ SelectionOnPage'
  BY <1>1, <1>2, <1>5 DEF TypeOK, WinOK, SelectionOnPage
<1> QED
  BY <1>3, <1>5, <1>6, WindowChanges

LEMMA ConfirmKeeps == ASSUME IInv, RequestClearRow \/ CancelConfirm PROVE IInv'
<1>1. TypeOK /\ SelectionOnPage
  BY DEF IInv
<1>2. PICK k \in [path: Path, row: Nat, start: Nat, size: PageSizes] \cup {None} :
          win' = [win EXCEPT !.confirm = k]
  <2>1. CASE CancelConfirm
    BY <2>1 DEF CancelConfirm
  <2>2. CASE RequestClearRow
    <3>1. win' = [win EXCEPT !.confirm = [path |-> win.table, row |-> win.selected,
                                          start |-> win.start, size |-> win.size]]
          /\ win.table # None /\ win.selected # None
      BY <2>2 DEF RequestClearRow, CellSelected
    <3>2. win.table \in Path /\ win.selected \in Nat /\ win.start \in Nat /\ win.size \in PageSizes
      BY <1>1, <3>1, CellsAndWindow
    <3> QED
      BY <3>1, <3>2
  <2> QED
    BY <2>1, <2>2
<1>3. UNCHANGED <<cells, sessions, call, doubt>>
  BY DEF RequestClearRow, CancelConfirm
<1>4. win = [table |-> win.table, page |-> win.page, start |-> win.start, size |-> win.size,
             selected |-> win.selected, hits |-> win.hits, busy |-> win.busy, confirm |-> win.confirm]
  BY <1>1, CellsAndWindow
<1>5. win' = [table |-> win.table, page |-> win.page, start |-> win.start, size |-> win.size,
              selected |-> win.selected, hits |-> win.hits, busy |-> win.busy, confirm |-> k]
  BY <1>2, <1>4
<1>6. WinOK' /\ SelectionOnPage'
  BY <1>1, <1>5 DEF TypeOK, WinOK, SelectionOnPage
<1> QED
  BY <1>3, <1>5, <1>6, WindowChanges

-----------------------------------------------------------------------------
(* The answers                                                             *)

\* A handler goes on with its next request.
LEMMA Proceeding ==
  ASSUME IInv, NEW s \in Slot, call[s] # None, NEW req, Proceed(s, req),
         \/ call[s].op \in {"open", "create", "reload", "clear"} /\ req = "rows"
         \/ call[s].req = "pick" /\ call[s].answer = "ok" /\ req = "set"
  PROVE  /\ Others(s) /\ IsHandler(call'[s]) /\ call'[s].answer = None /\ call'[s].req = req
         /\ call'[s].op = call[s].op /\ call'[s].path = call[s].path
         /\ call'[s].start = call[s].start /\ call'[s].alone = call[s].alone
         /\ Holds(call'[s])
         /\ UNCHANGED <<cells, sessions, doubt>> /\ CellsOK' /\ sessions' \subseteq Path
<1>1. IsHandler(call[s]) /\ call = [t \in Slot |-> call[t]] /\ CellsOK /\ sessions \subseteq Path
  BY DEF IInv, TypeOK
<1>2. call' = [call EXCEPT ![s].req = req, ![s].answer = None] /\ UNCHANGED <<cells, sessions, doubt>>
  BY DEF Proceed
<1>3. Others(s) /\ call'[s] = Asked(call[s], req)
  BY <1>1, <1>2 DEF Others, Asked
<1>4. PICK c : c = call[s]
  OBVIOUS
<1>5. LET d == Asked(c, req) IN
      /\ IsHandler(d) /\ d # None
      /\ d.op = c.op /\ d.path = c.path /\ d.start = c.start /\ d.size = c.size /\ d.row = c.row
      /\ d.req = req /\ d.answer = None /\ d.value = c.value /\ d.alone = c.alone
  BY <1>1, <1>4, AsksNext
<1>6. Holds(call'[s])
  <2>1. call[s].req = "pick" => call[s].op = "set"
    BY <1>1, FieldsOfHandler DEF Staged
  <2> QED
    BY <1>3, <1>4, <1>5, <2>1 DEF Holds
<1>7. CellsOK'
  BY <1>1, <1>2 DEF CellsOK
<1> QED
  BY <1>1, <1>2, <1>3, <1>4, <1>5, <1>6, <1>7

LEMMA BusyKeepsSelection ==
  ASSUME IInv, NEW b \in BOOLEAN, Busy(b)
  PROVE  WinOK' /\ SelectionOnPage' /\ SameScreen /\ win'.busy = b
<1>1. WinOK' /\ SameScreen /\ win'.busy = b
  BY BusyWindow DEF IInv
<1> QED
  BY <1>1 DEF IInv, SelectionOnPage, SameScreen

LEMMA SameKeepsSelection ==
  ASSUME IInv, UNCHANGED win
  PROVE  WinOK' /\ SelectionOnPage' /\ SameScreen /\ win'.busy = win.busy
<1>1. WinOK' /\ SameScreen /\ win'.busy = win.busy
  BY SameWindow DEF IInv
<1> QED
  BY <1>1 DEF IInv, SelectionOnPage, SameScreen

\* A handler that ends and leaves the window as it was, but for "busy".
LEMMA EndsUnshown ==
  ASSUME IInv, NEW s \in Slot, call[s] # None, NEW unread, Done(s, FALSE, unread),
         WinOK', SelectionOnPage', SameScreen,
         ~win'.busy \/ (win.busy /\ ~Holds(call[s])),
         Unseen(call[s]) => unread
  PROVE  IInv'
<1>1. ~doubt => call[s].alone /\ ScreenOf(call[s])
  BY Known
<1>2. UNCHANGED <<cells, sessions>>
  BY DEF Done
<1>3. ASSUME ~doubt, ~unread PROVE Shown'
  <2>1. Shown
    BY <1>1, <1>3 DEF ScreenOf
  <2> QED
    BY <1>2, <2>1, ShownStays
<1> QED
  BY <1>3, HandlerEnds

LEMMA TableArrivesKeeps ==
  ASSUME IInv, NEW s \in Slot, NEW req \in {"open", "create"}, TableArrives(s, req) PROVE IInv'
<1>1. call[s] # None /\ call[s].req = req /\ call[s].answer # None
  BY DEF TableArrives, Answered
<1>2. /\ IsHandler(call[s]) /\ (call[s].alone => Sound(call[s]))
      /\ ~doubt => call[s].alone /\ ScreenOf(call[s])
      /\ call[s].alone \in BOOLEAN /\ doubt \in BOOLEAN
  BY <1>1, Known
<1>3. /\ call[s].op \in {"open", "create", "reload"} /\ call[s].answer \in {None, Error, "ok"}
      /\ req = "create" <=> call[s].op = "create"
  BY <1>1, <1>2, FieldsOfHandler, AnswersTo DEF Staged
<1>4. CASE Ok(s)
  <2>1. Proceed(s, "rows") /\ UNCHANGED win /\ call[s].answer = "ok"
    BY <1>1, <1>3, <1>4 DEF TableArrives, Ok
  <2>2. /\ Others(s) /\ IsHandler(call'[s]) /\ call'[s].answer = None /\ call'[s].req = "rows"
        /\ call'[s].op = call[s].op /\ call'[s].path = call[s].path
        /\ call'[s].start = call[s].start /\ call'[s].alone = call[s].alone
        /\ Holds(call'[s])
        /\ UNCHANGED <<cells, sessions, doubt>> /\ CellsOK' /\ sessions' \subseteq Path
    BY <1>1, <1>3, <2>1, Proceeding
  <2>3. WinOK' /\ SelectionOnPage' /\ SameScreen
    BY <2>1, SameKeepsSelection
  <2>4. ASSUME call[s].alone PROVE Sound(call[s])'
    BY <1>1, <1>2, <1>3, <2>1, <2>2, <2>4 DEF Sound
  <2>5. ASSUME ~doubt PROVE ScreenOf(call[s])'
    <3>1. CASE call[s].op = "create"
      BY <2>2, <3>1 DEF ScreenOf, Unseen
    <3>2. CASE call[s].op # "create"
      <4>1. ~Unseen(call[s]) /\ ~Unseen(call[s])'
        BY <1>1, <1>3, <2>2, <3>2 DEF Unseen
      <4> QED
        BY <1>2, <2>2, <2>3, <2>5, <4>1, ShownStays DEF ScreenOf
    <3> QED
      BY <3>1, <3>2
  <2> QED
    BY <1>1, <1>2, <2>2, <2>3, <2>4, <2>5, HandlerGoesOn
<1>5. CASE ~Ok(s)
  <2>1. Done(s, FALSE, FALSE) /\ Busy(FALSE) /\ call[s].answer = Error
    BY <1>5 DEF TableArrives, Ok
  <2>2. WinOK' /\ SelectionOnPage' /\ SameScreen /\ ~win'.busy
    BY <2>1, BusyKeepsSelection
  <2>3. ~Unseen(call[s])
    BY <1>1, <2>1, TableWindowAssumption DEF Unseen
  <2> QED
    BY <1>1, <2>1, <2>2, <2>3, EndsUnshown
<1> QED
  BY <1>4, <1>5

LEMMA ClearArrivesKeeps == ASSUME IInv, NEW s \in Slot, ClearArrives(s) PROVE IInv'
<1>1. call[s] # None /\ call[s].req = "clear" /\ call[s].answer # None
  BY DEF ClearArrives, Answered
<1>2. /\ IsHandler(call[s]) /\ (call[s].alone => Sound(call[s]))
      /\ ~doubt => call[s].alone /\ ScreenOf(call[s])
      /\ call[s].alone \in BOOLEAN /\ doubt \in BOOLEAN
  BY <1>1, Known
<1>3. call[s].op = "clear" /\ call[s].answer \in {None, Error, "ok"}
  BY <1>1, <1>2, FieldsOfHandler, AnswersTo DEF Staged
<1>4. CASE Ok(s)
  <2>1. Proceed(s, "rows") /\ Busy(TRUE) /\ call[s].answer = "ok"
    BY <1>1, <1>3, <1>4 DEF ClearArrives, Ok
  <2>2. /\ Others(s) /\ IsHandler(call'[s]) /\ call'[s].answer = None /\ call'[s].req = "rows"
        /\ call'[s].op = call[s].op /\ call'[s].path = call[s].path
        /\ call'[s].start = call[s].start /\ call'[s].alone = call[s].alone
        /\ Holds(call'[s])
        /\ UNCHANGED <<cells, sessions, doubt>> /\ CellsOK' /\ sessions' \subseteq Path
    BY <1>1, <1>3, <2>1, Proceeding
  <2>3. WinOK' /\ SelectionOnPage' /\ SameScreen
    BY <2>1, BusyKeepsSelection
  <2>4. ASSUME call[s].alone PROVE Sound(call[s])'
    BY <1>1, <1>2, <1>3, <2>2, <2>3, <2>4 DEF Sound, SameScreen
  <2>5. ASSUME ~doubt PROVE ScreenOf(call[s])'
    <3>1. Unseen(call[s]) /\ Unseen(call[s])'
      BY <1>1, <1>3, <2>1, <2>2 DEF Unseen
    <3>2. win.table \in sessions /\ win.hits \subseteq DOMAIN cells[win.table]
      BY <1>2, <1>3, <2>5, <3>1 DEF ScreenOf
    <3> QED
      BY <1>3, <2>2, <2>3, <3>1, <3>2 DEF ScreenOf, SameScreen
  <2> QED
    BY <1>1, <1>2, <2>2, <2>3, <2>4, <2>5, HandlerGoesOn
<1>5. CASE ~Ok(s)
  <2>1. Done(s, FALSE, FALSE) /\ Busy(FALSE) /\ call[s].answer = Error
    BY <1>5 DEF ClearArrives, Ok
  <2>2. WinOK' /\ SelectionOnPage' /\ SameScreen /\ ~win'.busy
    BY <2>1, BusyKeepsSelection
  <2>3. ~Unseen(call[s])
    BY <1>1, <2>1, TableWindowAssumption DEF Unseen
  <2> QED
    BY <1>1, <2>1, <2>2, <2>3, EndsUnshown
<1> QED
  BY <1>4, <1>5

LEMMA FileArrivesKeeps == ASSUME IInv, NEW s \in Slot, FileArrives(s) PROVE IInv'
<1>1. call[s] # None /\ call[s].req = "pick" /\ call[s].answer # None
  BY DEF FileArrives, Answered
<1>2. /\ IsHandler(call[s]) /\ (call[s].alone => Sound(call[s]))
      /\ ~doubt => call[s].alone /\ ScreenOf(call[s])
      /\ call[s].alone \in BOOLEAN /\ doubt \in BOOLEAN
  BY <1>1, Known
<1>3. call[s].op = "set" /\ call[s].answer \in {None, Error, "ok"}
  BY <1>1, <1>2, FieldsOfHandler, AnswersTo DEF Staged
<1>4. ~Unseen(call[s])
  BY <1>1 DEF Unseen
<1>5. CASE Ok(s)
  <2>1. Proceed(s, "set") /\ Busy(TRUE) /\ call[s].answer = "ok"
    BY <1>1, <1>3, <1>5 DEF FileArrives, Ok
  <2>2. /\ Others(s) /\ IsHandler(call'[s]) /\ call'[s].answer = None /\ call'[s].req = "set"
        /\ call'[s].op = call[s].op /\ call'[s].path = call[s].path
        /\ call'[s].start = call[s].start /\ call'[s].alone = call[s].alone
        /\ Holds(call'[s])
        /\ UNCHANGED <<cells, sessions, doubt>> /\ CellsOK' /\ sessions' \subseteq Path
    BY <1>1, <1>3, <2>1, Proceeding
  <2>3. WinOK' /\ SelectionOnPage' /\ SameScreen
    BY <2>1, BusyKeepsSelection
  <2>4. ASSUME call[s].alone PROVE Sound(call[s])'
    BY <1>1, <1>2, <1>3, <2>2, <2>3, <2>4 DEF Sound, SameScreen
  <2>5. ASSUME ~doubt PROVE ScreenOf(call[s])'
    <3>1. ~Unseen(call[s])'
      BY <2>2, TableWindowAssumption DEF Unseen
    <3> QED
      BY <1>2, <1>4, <2>2, <2>3, <2>5, <3>1, ShownStays DEF ScreenOf
  <2> QED
    BY <1>1, <1>2, <2>2, <2>3, <2>4, <2>5, HandlerGoesOn
<1>6. CASE ~Ok(s)
  <2>1. Done(s, FALSE, FALSE) /\ UNCHANGED win
    BY <1>6 DEF FileArrives
  <2>2. WinOK' /\ SelectionOnPage' /\ SameScreen /\ win'.busy = win.busy /\ win.busy \in BOOLEAN
    BY <2>1, SameKeepsSelection DEF IInv, TypeOK, WinOK
  <2>3. ~Holds(call[s])
    BY <1>1 DEF Holds
  <2> QED
    BY <1>1, <1>4, <2>1, <2>2, <2>3, EndsUnshown
<1> QED
  BY <1>5, <1>6

\* A page that was read is what the file has, from where it starts.
LEMMA PageFits ==
  ASSUME TypeOK, NEW p \in Path, NEW start \in Nat, NEW size \in PageSizes, p \in sessions,
         NEW page, page = Page(p, start, size), UNCHANGED <<cells, sessions>>,
         win'.table = p, win'.page = page, win'.start \in {start, page.start},
         win'.hits \subseteq DOMAIN cells[p]
  PROVE  Shown'
<1>1. CellsOK /\ size \in Nat
  BY CellsAndWindow DEF TypeOK
<1>2. PICK n \in Totals : cells[p] \in [0 .. n - 1 -> Value]
  BY <1>1, CellsOfTable
<1>3. page = PageIn(p, cells[p], start, size)
  BY PageOfCells
<1>4. PICK f : f = cells[p]
  OBVIOUS
<1>5. PageIn(p, f, PageIn(p, f, start, size).start, size) = PageIn(p, f, start, size)
  BY <1>1, <1>2, <1>4, PageAgain
<1>6. PageIn(p, f, win'.start, size) = page
  BY <1>3, <1>4, <1>5
<1>7. Page(win.table, win.start, size)' = PageIn(win'.table, cells'[win'.table], win'.start, size)
  BY DEF Page, PageIn
<1>8. win'.page = Page(win.table, win.start, size)'
  BY <1>4, <1>6, <1>7
<1> QED
  BY <1>8 DEF Shown, Fits

\* A page that is shown, and what is selected on it.
LEMMA PageShows ==
  ASSUME TypeOK, NEW table \in Path \cup {None}, NEW page \in Pages, NEW start \in Nat,
         NEW selected \in DOMAIN page.rows \cup {None}, NEW hits \in SUBSET Nat,
         win' = [table |-> table, page |-> page, start |-> start, size |-> win.size,
                 selected |-> selected, hits |-> hits, busy |-> FALSE, confirm |-> win.confirm]
  PROVE  WinOK' /\ SelectionOnPage'
<1>1. DOMAIN page.rows \subseteq Nat
  BY RowsOfPage
<1>2. /\ win.size \in PageSizes
      /\ win.confirm \in [path: Path, row: Nat, start: Nat, size: PageSizes] \cup {None}
  BY CellsAndWindow
<1>3. page # None
  BY TableWindowAssumption
<1> QED
  BY <1>1, <1>2, <1>3 DEF WinOK, SelectionOnPage

LEMMA RowsArriveKeeps == ASSUME IInv, NEW s \in Slot, RowsArrive(s) PROVE IInv'
<1>1. call[s] # None /\ call[s].req = "rows" /\ call[s].answer # None
  BY DEF RowsArrive, Answered
<1>2. /\ IsHandler(call[s]) /\ (call[s].alone => Sound(call[s]))
      /\ ~doubt => call[s].alone /\ ScreenOf(call[s])
      /\ TypeOK
  BY <1>1, Known
<1>3. /\ call[s].op \in {"open", "create", "reload", "load", "jump", "clear"}
      /\ call[s].answer \in {None, Error} \cup Pages
      /\ call[s].path \in Path /\ call[s].start \in Nat /\ call[s].size \in PageSizes
  BY <1>1, <1>2, FieldsOfHandler, AnswersTo DEF Staged
<1>4. win = [table |-> win.table, page |-> win.page, start |-> win.start, size |-> win.size,
             selected |-> win.selected, hits |-> win.hits, busy |-> win.busy, confirm |-> win.confirm]
      /\ win.table \in Path \cup {None} /\ win.start \in Nat /\ win.hits \in SUBSET Nat
  BY <1>2, CellsAndWindow
<1>5. CASE ~Ok(s) /\ Done(s, FALSE, call[s].op \in {"clear", "create"}) /\ Busy(FALSE)
  <2>1. WinOK' /\ SelectionOnPage' /\ SameScreen /\ ~win'.busy
    BY <1>5, BusyKeepsSelection
  <2>2. Unseen(call[s]) => call[s].op \in {"clear", "create"}
    BY <1>1 DEF Unseen
  <2> QED
    BY <1>1, <1>5, <2>1, <2>2, EndsUnshown
<1>6. ASSUME Ok(s)
      PROVE  /\ call[s].answer \in Pages /\ call[s].answer.start \in Nat
             /\ call[s].alone => /\ call[s].path \in sessions
                                 /\ call[s].answer = Page(call[s].path, call[s].start, call[s].size)
  <2>1. call[s].answer \in Pages /\ call[s].answer \notin {None, Error}
    BY <1>1, <1>3, <1>6 DEF Ok
  <2>2. call[s].answer.start \in Nat
    BY <2>1, RowsOfPage
  <2> QED
    BY <1>1, <1>2, <2>1, <2>2 DEF Sound
<1>7. CASE Ok(s) /\ call[s].op \in {"open", "create"} /\ Done(s, TRUE, FALSE) /\ win' = ShowTable(s)
  <2>1. win' = [table |-> call[s].path, page |-> call[s].answer, start |-> call[s].answer.start,
                size |-> win.size, selected |-> None, hits |-> {}, busy |-> FALSE,
                confirm |-> win.confirm]
    BY <1>4, <1>7 DEF ShowTable
  <2>2. WinOK' /\ SelectionOnPage'
    BY <1>2, <1>3, <1>6, <1>7, <2>1, PageShows
  <2>3. ASSUME call[s].alone PROVE Shown'
    <3>1. UNCHANGED <<cells, sessions>>
      BY <1>7 DEF Done
    <3> QED
      BY <1>2, <1>3, <1>6, <1>7, <2>1, <2>3, <3>1, PageFits
  <2>4. ~win'.busy
    BY <2>1
  <2> QED
    BY <1>1, <1>7, <2>2, <2>3, <2>4, HandlerEnds
<1>8. CASE Ok(s) /\ call[s].op = "reload" /\ Done(s, TRUE, FALSE) /\ win' = ShowAgain(s)
  <2>1. win' = [table |-> call[s].path, page |-> call[s].answer, start |-> win.start,
                size |-> win.size, selected |-> None, hits |-> {}, busy |-> FALSE,
                confirm |-> win.confirm]
    BY <1>4, <1>8 DEF ShowAgain
  <2>2. WinOK' /\ SelectionOnPage'
    BY <1>2, <1>3, <1>4, <1>6, <1>8, <2>1, PageShows
  <2>3. ASSUME call[s].alone PROVE Shown'
    <3>1. UNCHANGED <<cells, sessions>>
      BY <1>8 DEF Done
    <3>2. win.start = call[s].start
      BY <1>2, <1>8, <2>3 DEF Sound
    <3> QED
      BY <1>2, <1>3, <1>6, <1>8, <2>1, <2>3, <3>1, <3>2, PageFits
  <2>4. ~win'.busy
    BY <2>1
  <2> QED
    BY <1>1, <1>8, <2>2, <2>3, <2>4, HandlerEnds
<1>9. CASE Ok(s) /\ call[s].op \in {"load", "jump", "clear"} /\ Done(s, FALSE, FALSE) /\ win' = ShowRows(s)
  <2>1. PICK selected \in DOMAIN call[s].answer.rows \cup {None} :
            win' = [table |-> win.table, page |-> call[s].answer, start |-> call[s].answer.start,
                    size |-> win.size, selected |-> selected, hits |-> win.hits, busy |-> FALSE,
                    confirm |-> win.confirm]
    <3> DEFINE jump == call[s].op = "jump" /\ call[s].row \in DOMAIN call[s].answer.rows
    <3>1. PICK selected : selected = (IF jump THEN call[s].row ELSE None)
      OBVIOUS
    <3>2. win' = [win EXCEPT !.page = call[s].answer, !.start = call[s].answer.start, !.busy = FALSE,
                             !.selected = selected]
      BY <1>9, <3>1 DEF ShowRows
    <3>3. win' = [table |-> win.table, page |-> call[s].answer, start |-> call[s].answer.start,
                  size |-> win.size, selected |-> selected, hits |-> win.hits, busy |-> FALSE,
                  confirm |-> win.confirm]
      BY <1>4, <3>2
    <3> QED
      BY <3>1, <3>3
  <2>2. WinOK' /\ SelectionOnPage'
    BY <1>2, <1>3, <1>4, <1>6, <1>9, <2>1, PageShows
  <2>3. ASSUME call[s].alone, ~doubt PROVE Shown'
    <3>1. UNCHANGED <<cells, sessions>>
      BY <1>9 DEF Done
    <3>2. win.table = call[s].path
      BY <1>2, <1>9, <2>3 DEF Sound
    <3>3. win.hits \subseteq DOMAIN cells[win.table]
      <4>1. CASE call[s].op = "clear"
        BY <1>1, <1>2, <2>3, <4>1 DEF ScreenOf, Unseen
      <4>2. CASE call[s].op # "clear"
        <5>1. ~Unseen(call[s])
          BY <1>1, <1>9, <4>2 DEF Unseen
        <5>2. Shown /\ win.table # None
          BY <1>2, <1>3, <2>3, <3>2, <5>1, TableWindowAssumption DEF ScreenOf
        <5> QED
          BY <5>2 DEF Shown, Fits
      <4> QED
        BY <4>1, <4>2
    <3> QED
      BY <1>2, <1>3, <1>6, <1>9, <2>1, <2>3, <3>1, <3>2, <3>3, PageFits
  <2>4. ~win'.busy
    BY <2>1
  <2> QED
    BY <1>1, <1>9, <2>2, <2>3, <2>4, HandlerEnds
<1> QED
  BY <1>5, <1>7, <1>8, <1>9 DEF RowsArrive

LEMMA CellArrivesKeeps == ASSUME IInv, NEW s \in Slot, CellArrives(s) PROVE IInv'
<1>1. /\ call[s] # None /\ call[s].req = "set" /\ call[s].answer # None /\ Done(s, FALSE, FALSE)
      /\ win' = [win EXCEPT !.busy = FALSE,
                            !.page = IF Ok(s) THEN ApplyCell(call[s].row, call[s].value) ELSE win.page]
  BY DEF CellArrives, Answered
<1>2. /\ IsHandler(call[s]) /\ (call[s].alone => Sound(call[s]))
      /\ ~doubt => call[s].alone /\ ScreenOf(call[s])
      /\ TypeOK /\ SelectionOnPage /\ UNCHANGED <<cells, sessions>>
  BY <1>1, Known DEF Done
<1>3. /\ call[s].op = "set" /\ call[s].answer \in {None, Error, "ok"}
      /\ call[s].answer = "ok" => call[s].value \in Value
  BY <1>1, <1>2, FieldsOfHandler, AnswersTo DEF Staged
<1>4. win = [table |-> win.table, page |-> win.page, start |-> win.start, size |-> win.size,
             selected |-> win.selected, hits |-> win.hits, busy |-> win.busy, confirm |-> win.confirm]
      /\ win.page \in Pages \cup {None}
  BY <1>2, CellsAndWindow
<1>5. PICK page : page = (IF Ok(s) THEN ApplyCell(call[s].row, call[s].value) ELSE win.page)
  OBVIOUS
<1>6. win' = [table |-> win.table, page |-> page, start |-> win.start, size |-> win.size,
              selected |-> win.selected, hits |-> win.hits, busy |-> FALSE, confirm |-> win.confirm]
  BY <1>1, <1>4, <1>5
<1>7. /\ page \in Pages \cup {None} /\ (page = None <=> win.page = None)
      /\ page # None => DOMAIN page.rows = DOMAIN win.page.rows
  <2>1. CASE page = win.page
    BY <1>4, <2>1
  <2>2. CASE page # win.page
    <3>1. Ok(s) /\ call[s].value \in Value
      BY <1>1, <1>3, <1>5, <2>2 DEF Ok
    <3>2. ApplyCell(call[s].row, call[s].value) = ApplyTo(win.page, call[s].row, call[s].value)
      BY DEF ApplyCell, ApplyTo, Patched
    <3>3. /\ page = Patched(win.page, call[s].row, call[s].value) /\ win.page # None
          /\ call[s].row \in DOMAIN win.page.rows /\ win.page \in Pages
      BY <1>4, <1>5, <2>2, <3>1, <3>2 DEF ApplyTo
    <3>4. PICK old, row, v : old = win.page /\ row = call[s].row /\ v = call[s].value
      OBVIOUS
    <3>5. /\ old \in Pages /\ row \in DOMAIN old.rows /\ v \in Value
          /\ page = Patched(old, row, v)
      BY <3>1, <3>3, <3>4
    <3>6. page \in Pages /\ DOMAIN page.rows = DOMAIN old.rows
      BY <3>5, PatchedPage
    <3> QED
      BY <3>3, <3>4, <3>6, TableWindowAssumption
  <2> QED
    BY <2>1, <2>2
<1>8. WinOK' /\ SelectionOnPage'
  BY <1>2, <1>6, <1>7 DEF TypeOK, WinOK, SelectionOnPage
<1>9. ASSUME ~doubt PROVE Shown'
  <2>1. CASE Ok(s)
    <3>1. Unseen(call[s])
      BY <1>1, <1>3, <2>1 DEF Unseen, Ok
    <3>2. Fits(ApplyCell(call[s].row, call[s].value)) /\ page = ApplyCell(call[s].row, call[s].value)
      BY <1>2, <1>3, <1>5, <1>9, <2>1, <3>1 DEF ScreenOf
    <3>3. Fits(page)
      BY <3>2
    <3> QED
      BY <1>2, <1>6, <3>3 DEF Shown, Fits, Page
  <2>2. CASE ~Ok(s)
    <3>1. ~Unseen(call[s])
      BY <1>1, <2>2, TableWindowAssumption DEF Unseen, Ok
    <3>2. Shown /\ SameScreen
      BY <1>2, <1>5, <1>6, <1>9, <2>2, <3>1 DEF ScreenOf, SameScreen
    <3> QED
      BY <1>2, <3>2, ShownStays
  <2> QED
    BY <2>1, <2>2
<1>10. ~win'.busy
  BY <1>6
<1> QED
  BY <1>1, <1>8, <1>9, <1>10, HandlerEnds

LEMMA HitsArriveKeeps == ASSUME IInv, NEW s \in Slot, HitsArrive(s) PROVE IInv'
<1>1. /\ call[s] # None /\ call[s].req = "search" /\ call[s].answer # None /\ Done(s, FALSE, FALSE)
      /\ win' = [win EXCEPT !.hits = IF Ok(s) THEN call[s].answer ELSE {}]
  BY DEF HitsArrive, Answered
<1>2. /\ IsHandler(call[s]) /\ (call[s].alone => Sound(call[s]))
      /\ ~doubt => call[s].alone /\ ScreenOf(call[s])
      /\ TypeOK /\ SelectionOnPage /\ UNCHANGED <<cells, sessions>>
  BY <1>1, Known DEF Done
<1>3. /\ call[s].op = "search" /\ call[s].answer \in {None, Error} \cup SUBSET Nat
      /\ call[s].path \in Path
  BY <1>1, <1>2, FieldsOfHandler, AnswersTo DEF Staged
<1>4. win = [table |-> win.table, page |-> win.page, start |-> win.start, size |-> win.size,
             selected |-> win.selected, hits |-> win.hits, busy |-> win.busy, confirm |-> win.confirm]
      /\ win.busy \in BOOLEAN
  BY <1>2, CellsAndWindow
<1>5. PICK hits : hits = (IF Ok(s) THEN call[s].answer ELSE {})
  OBVIOUS
<1>6. win' = [table |-> win.table, page |-> win.page, start |-> win.start, size |-> win.size,
              selected |-> win.selected, hits |-> hits, busy |-> win.busy, confirm |-> win.confirm]
  BY <1>1, <1>4, <1>5
<1>7. hits \in SUBSET Nat
  BY <1>1, <1>3, <1>5 DEF Ok
<1>8. WinOK' /\ SelectionOnPage'
  BY <1>2, <1>6, <1>7 DEF TypeOK, WinOK, SelectionOnPage
<1>9. ASSUME ~doubt PROVE Shown'
  <2>1. ~Unseen(call[s])
    BY <1>1 DEF Unseen
  <2>2. Shown /\ win.table = call[s].path /\ win.table # None
    BY <1>2, <1>3, <1>9, <2>1, TableWindowAssumption DEF ScreenOf, Sound
  <2>3. hits \subseteq DOMAIN cells[win.table]
    BY <1>1, <1>2, <1>5, <1>9, <2>2 DEF Sound, Ok
  <2>4. /\ win.table \in sessions
        /\ \E size \in PageSizes : win.page = Page(win.table, win.start, size)
    BY <2>2 DEF Shown, Fits
  <2>5. /\ win'.table = win.table /\ win'.page = win.page /\ win'.start = win.start
        /\ win'.hits = hits /\ cells' = cells /\ sessions' = sessions
    BY <1>2, <1>6
  <2> QED
    BY <2>3, <2>4, <2>5 DEF Shown, Fits, Page
<1>10. ~win'.busy \/ (win.busy /\ ~Holds(call[s]))
  BY <1>3, <1>4, <1>6 DEF Holds
<1> QED
  BY <1>1, <1>8, <1>9, <1>10, HandlerEnds

LEMMA CloseArrivesKeeps == ASSUME IInv, NEW s \in Slot, CloseArrives(s) PROVE IInv'
<1>1. call[s] # None /\ call[s].req = "close" /\ call[s].answer # None /\ Done(s, Ok(s), FALSE)
  BY DEF CloseArrives, Answered
<1>2. /\ IsHandler(call[s])
      /\ ~doubt => call[s].alone /\ ScreenOf(call[s])
      /\ TypeOK /\ UNCHANGED <<cells, sessions>>
  BY <1>1, Known DEF Done
<1>3. call[s].op = "close"
  BY <1>1, <1>2, FieldsOfHandler, AnswersTo DEF Staged
<1>4. win = [table |-> win.table, page |-> win.page, start |-> win.start, size |-> win.size,
             selected |-> win.selected, hits |-> win.hits, busy |-> win.busy, confirm |-> win.confirm]
      /\ win.busy \in BOOLEAN
  BY <1>2, CellsAndWindow
<1>5. CASE Ok(s)
  <2>1. win' = [win EXCEPT !.table = None, !.page = None, !.selected = None, !.hits = {}]
    BY <1>5 DEF CloseArrives
  <2>2. win' = [table |-> None, page |-> None, start |-> win.start, size |-> win.size,
                selected |-> None, hits |-> {}, busy |-> win.busy, confirm |-> win.confirm]
    BY <1>4, <2>1
  <2>3. WinOK' /\ SelectionOnPage' /\ Shown'
    BY <1>2, <2>2 DEF TypeOK, WinOK, SelectionOnPage, Shown
  <2>4. ~win'.busy \/ (win.busy /\ ~Holds(call[s]))
    BY <1>3, <1>4, <2>2 DEF Holds
  <2> QED
    BY <1>1, <2>3, <2>4, HandlerEnds
<1>6. CASE ~Ok(s)
  <2>1. UNCHANGED win /\ Done(s, FALSE, FALSE)
    BY <1>1, <1>6 DEF CloseArrives, Done
  <2>2. WinOK' /\ SelectionOnPage' /\ SameScreen /\ win'.busy = win.busy
    BY <2>1, SameKeepsSelection
  <2>3. ~win'.busy \/ (win.busy /\ ~Holds(call[s]))
    BY <1>3, <1>4, <2>2 DEF Holds
  <2>4. ~Unseen(call[s])
    BY <1>1, <1>6, TableWindowAssumption DEF Unseen, Ok
  <2> QED
    BY <1>1, <2>1, <2>2, <2>3, <2>4, EndsUnshown
<1> QED
  BY <1>5, <1>6

-----------------------------------------------------------------------------
(* The theorems                                                            *)

LEMMA Initially == Init => IInv
<1> SUFFICES ASSUME Init PROVE IInv
  OBVIOUS
<1>1. PICK shape \in Shapes : cells = [p \in Path |-> Blank(shape[p])]
  BY DEF Init
<1>2. CellsOK
  <2>1. ASSUME NEW p \in Path
        PROVE  cells[p] \in UNION {[0 .. n - 1 -> Value] : n \in Totals}
    <3>1. shape[p] \in Nat /\ shape[p] \in Totals
      BY TableWindowAssumption DEF Totals
    <3>2. PICK n \in Totals : n = shape[p]
      BY <3>1
    <3>3. Blank(n) \in [0 .. n - 1 -> Value]
      BY TableWindowAssumption DEF Blank
    <3> QED
      BY <1>1, <3>2, <3>3
  <2> QED
    BY <1>1, <2>1 DEF CellsOK
<1>3. /\ sessions = {} /\ call = [s \in Slot |-> None] /\ doubt = FALSE
      /\ win \in [table : {None}, page : {None}, start : {0}, size : {Min(PageSizes)},
                  selected : {None}, hits : {{}}, busy : {FALSE}, confirm : {None}]
  BY DEF Init
<1>4. Min(PageSizes) \in PageSizes
  BY Least, TableWindowAssumption
<1>5. WinOK
  <2>1. PICK size \in PageSizes : size = Min(PageSizes)
    BY <1>4
  <2>2. win = [table |-> None, page |-> None, start |-> 0, size |-> size,
               selected |-> None, hits |-> {}, busy |-> FALSE, confirm |-> None]
    BY <1>3, <2>1
  <2> QED
    BY <2>2 DEF WinOK
<1>6. TypeOK /\ Alone
  BY <1>2, <1>3, <1>5 DEF TypeOK, Alone
<1>7. BusyHeld /\ SelectionOnPage /\ Shown
  BY <1>3 DEF BusyHeld, SelectionOnPage, Shown
<1>8. Screen
  BY <1>3, <1>7 DEF Screen
<1> QED
  BY <1>6, <1>7, <1>8 DEF IInv

LEMMA Preserved == IInv /\ [Next]_vars => IInv'
<1> SUFFICES ASSUME IInv, [Next]_vars PROVE IInv'
  OBVIOUS
<1>1. ASSUME NEW s \in Slot, Service(s) PROVE IInv'
  BY <1>1, OpenTableKeeps, CreateTableKeeps, CloseTableKeeps, GetTableRowsKeeps, SetTableCellKeeps,
     ClearTableRowKeeps, SearchTableRowsKeeps, PickFileKeeps, FailsKeeps, FailsLateKeeps DEF Service
<1>2. ASSUME NEW s \in Slot, Arrives(s) PROVE IInv'
  BY <1>2, TableArrivesKeeps, RowsArriveKeeps, ClearArrivesKeeps, CellArrivesKeeps, FileArrivesKeeps,
     HitsArriveKeeps, CloseArrivesKeeps DEF Arrives
<1>3. ASSUME NEW s \in Slot, Acts(s) PROVE IInv'
  BY <1>3, OpenTablePathKeeps, SubmitCreateTableKeeps, ChangePageSizeKeeps, SaveCellKeeps,
     SearchRowsKeeps, ChangePageKeeps, JumpToRowKeeps, ReloadTableKeeps, CloseCurrentKeeps,
     ClearCellKeeps, EmbedFileKeeps, RunConfirmKeeps DEF Acts
<1>4. CASE win.page # None /\ \E row \in DOMAIN win.page.rows : Select(row)
  BY <1>4, SelectKeeps
<1>5. CASE RequestClearRow \/ CancelConfirm
  BY <1>5, ConfirmKeeps
<1>6. CASE UNCHANGED vars
  <2>1. /\ UNCHANGED <<cells, sessions, call, doubt>> /\ win' = win
    BY <1>6 DEF vars
  <2>2. WinOK' /\ SelectionOnPage' /\ win'.busy = win.busy
    BY <2>1, SameKeepsSelection
  <2> QED
    BY <2>1, <2>2, WindowChanges
<1> QED
  BY <1>1, <1>2, <1>3, <1>4, <1>5, <1>6 DEF Next

-----------------------------------------------------------------------------
(* The cell that is edited                                                 *)

\* The page of the table, but for the cells on it.
PageStays ==
    /\ win'.table = win.table /\ (win'.page = None <=> win.page = None)
    /\ win.page # None => win'.page.of = win.page.of /\ DOMAIN win'.page.rows = DOMAIN win.page.rows

SameTarget(s) ==
    /\ call'[s].op = call[s].op /\ call'[s].path = call[s].path /\ call'[s].row = call[s].row
    /\ call'[s].alone = call[s].alone

LEMMA ScreenStays == ASSUME SameScreen PROVE PageStays
  BY DEF SameScreen, PageStays

\* A handler gets an answer or goes on with a request.
LEMMA TargetStays ==
  ASSUME IInv, NEW s \in Slot, call[s] # None, NEW a, NEW b,
         \/ call' = [call EXCEPT ![s].answer = a]
         \/ call' = [call EXCEPT ![s].answer = a, ![s].value = b]
         \/ call' = [call EXCEPT ![s].req = b, ![s].answer = a]
  PROVE  Others(s) /\ SameTarget(s)
<1>1. call = [t \in Slot |-> call[t]] /\ IsHandler(call[s])
  BY DEF IInv, TypeOK
<1>2. PICK c : c = call[s]
  OBVIOUS
<1>3. c = [op |-> c.op, req |-> c.req, path |-> c.path, start |-> c.start, size |-> c.size,
           row |-> c.row, value |-> c.value, answer |-> c.answer, alone |-> c.alone]
  BY <1>1, <1>2, FieldsOfHandler
<1>4. Others(s)
  BY <1>1 DEF Others
<1>5. \/ call'[s] = [c EXCEPT !.answer = a]
      \/ call'[s] = [c EXCEPT !.answer = a, !.value = b]
      \/ call'[s] = [c EXCEPT !.req = b, !.answer = a]
  BY <1>1, <1>2
<1>6. SameTarget(s)
  BY <1>2, <1>3, <1>5 DEF SameTarget
<1> QED
  BY <1>4, <1>6

LEMMA EditsGoOn ==
  ASSUME IInv, EditsOnPage, SelectionOnPage', NEW s \in Slot, call[s] # None,
         Others(s), SameTarget(s), PageStays, doubt => doubt'
  PROVE  EditsOnPage'
<1>1. ASSUME NEW t \in Slot, call'[t] # None, call'[t].op = "set", call'[t].alone
      PROVE  /\ call[t] # None /\ call[t].op = "set" /\ call[t].alone
             /\ call'[t].path = call[t].path /\ call'[t].row = call[t].row
  BY <1>1 DEF Others, SameTarget
<1> QED
  BY <1>1 DEF EditsOnPage, PageStays, SelectionOnPage

\* A handler is done; those beside it did not run alone.
LEMMA EditsEnd ==
  ASSUME IInv, EditsOnPage, SelectionOnPage', NEW s \in Slot, call[s] # None,
         NEW heals, NEW unread, Done(s, heals, unread),
         win'.page # None /\ ~doubt' => win'.page.of = win'.table
  PROVE  EditsOnPage'
<1>1. call'[s] = None /\ \A t \in Slot \ {s} : call'[t] = call[t]
  BY DEF IInv, TypeOK, Done
<1>2. ASSUME NEW t \in Slot, call'[t] # None PROVE ~call'[t].alone
  BY <1>1, <1>2 DEF IInv, Alone
<1> QED
  BY <1>2 DEF EditsOnPage, SelectionOnPage

\* One that leaves the page ends.
LEMMA EditsEndUnshown ==
  ASSUME IInv, EditsOnPage, SelectionOnPage', NEW s \in Slot, call[s] # None,
         NEW unread, Done(s, FALSE, unread), PageStays
  PROVE  EditsOnPage'
<1>1. doubt => doubt'
  BY DEF Done
<1>2. win'.page # None /\ ~doubt' => win'.page.of = win'.table
  BY <1>1 DEF EditsOnPage, PageStays
<1>3. PICK heals : heals = FALSE
  OBVIOUS
<1> QED
  BY <1>2, <1>3, EditsEnd

\* A handler begins that edits, if anything, the cell that is selected.
Aims(s, c) ==
    /\ Begin(s, c) /\ PageStays
    /\ c = [op |-> c.op, req |-> c.req, path |-> c.path, start |-> c.start, size |-> c.size,
            row |-> c.row, value |-> c.value, answer |-> c.answer, alone |-> c.alone]
    /\ c.op = "set" => CellSelected /\ c.path = win.table /\ c.row = win.selected

LEMMA EditsBegin ==
  ASSUME IInv, EditsOnPage, SelectionOnPage', NEW s \in Slot, NEW c, Aims(s, c)
  PROVE  EditsOnPage'
<1> DEFINE others == {t \in Slot : call[t] # None}
<1>1. /\ call[s] = None
      /\ call' = [t \in Slot |-> IF t = s THEN [c EXCEPT !.alone = (others = {})]
                                 ELSE IF t \in others THEN [call[t] EXCEPT !.alone = FALSE] ELSE None]
      /\ doubt => c.op # "set" /\ doubt'
  BY DEF Aims, Begin
<1>2. PICK alone : alone = (others = {})
  OBVIOUS
<1> HIDE DEF others
<1>3. PICK d : d = [c EXCEPT !.alone = alone]
  OBVIOUS
<1>4. d.op = c.op /\ d.path = c.path /\ d.row = c.row /\ d.alone = alone
  BY <1>3 DEF Aims
<1>5. call'[s] = d
  BY <1>1, <1>2, <1>3
<1>6. ASSUME NEW t \in Slot \ {s}, call'[t] # None PROVE ~call'[t].alone
  <2>1. t \in others /\ call[t] # None /\ call'[t] = [call[t] EXCEPT !.alone = FALSE]
    BY <1>1, <1>6 DEF others
  <2>2. IsHandler(call[t])
    BY <2>1 DEF IInv, TypeOK
  <2>3. PICK e : e = call[t]
    OBVIOUS
  <2>4. e = [op |-> e.op, req |-> e.req, path |-> e.path, start |-> e.start, size |-> e.size,
             row |-> e.row, value |-> e.value, answer |-> e.answer, alone |-> e.alone]
    BY <2>2, <2>3, FieldsOfHandler
  <2> QED
    BY <2>1, <2>3, <2>4
<1>7. c.op = "set" => /\ win.page # None /\ win.page.of = c.path
                      /\ c.row \in DOMAIN win.page.rows
  BY <1>1 DEF Aims, CellSelected, EditsOnPage
<1>8. ASSUME NEW t \in Slot, call'[t] # None, call'[t].op = "set", call'[t].alone
      PROVE  win'.page # None /\ win'.page.of = call'[t].path /\ call'[t].row \in DOMAIN win'.page.rows
  BY <1>4, <1>5, <1>6, <1>7, <1>8 DEF Aims, PageStays
<1>9. win'.page # None /\ ~doubt' => win'.page.of = win'.table
  BY <1>1 DEF Aims, PageStays, EditsOnPage
<1> QED
  BY <1>8, <1>9 DEF EditsOnPage, SelectionOnPage

LEMMA ServiceKeepsEdits ==
  ASSUME IInv, EditsOnPage, SelectionOnPage', NEW s \in Slot, Service(s) PROVE EditsOnPage'
<1>1. /\ call[s] # None /\ win' = win /\ (doubt => doubt')
      /\ \E a, b : call' = [call EXCEPT ![s].answer = a] \/ call' = [call EXCEPT ![s].answer = a, ![s].value = b]
  <2>1. CASE OpenTable(s) \/ CreateTable(s) \/ CloseTable(s)
    BY <2>1 DEF OpenTable, CreateTable, CloseTable, Pending, Answer
  <2>2. CASE GetTableRows(s)
    BY <2>2 DEF GetTableRows, Pending, Answer
  <2>3. CASE SetTableCell(s) \/ ClearTableRow(s)
    BY <2>3 DEF SetTableCell, ClearTableRow, Pending, Answer
  <2>4. CASE SearchTableRows(s)
    BY <2>4 DEF SearchTableRows, Pending, Answer
  <2>5. CASE PickFile(s)
    BY <2>5 DEF PickFile, Pending, Answer
  <2>6. CASE Fails(s)
    BY <2>6 DEF Fails, Answer
  <2>7. CASE FailsLate(s)
    BY <2>7 DEF FailsLate, Answer
  <2> QED
    BY <2>1, <2>2, <2>3, <2>4, <2>5, <2>6, <2>7 DEF Service
<1>2. Others(s) /\ SameTarget(s)
  BY <1>1, TargetStays
<1>3. PageStays
  BY <1>1 DEF PageStays
<1> QED
  BY <1>1, <1>2, <1>3, EditsGoOn

LEMMA UserKeepsEdits ==
  ASSUME IInv, EditsOnPage, SelectionOnPage', NEW s \in Slot, Acts(s) PROVE EditsOnPage'
<1>w. win = [table |-> win.table, page |-> win.page, start |-> win.start, size |-> win.size,
             selected |-> win.selected, hits |-> win.hits, busy |-> win.busy, confirm |-> win.confirm]
  BY CellsAndWindow DEF IInv
<1>b. ASSUME Busy(TRUE) \/ UNCHANGED win PROVE PageStays
  BY <1>b, BusyKeepsSelection, SameKeepsSelection, ScreenStays
<1>1. ASSUME NEW p \in Path, OpenTablePath(s, p) \/ SubmitCreateTable(s, p) PROVE EditsOnPage'
  <2>1. PICK op \in {"open", "create"} : Begin(s, Reading(op, op, p, 0, win.size)) /\ Busy(TRUE)
    BY <1>1 DEF OpenTablePath, SubmitCreateTable
  <2>2. PICK c : c = Reading(op, op, p, 0, win.size)
    OBVIOUS
  <2>3. Aims(s, c)
    BY <2>1, <2>2, <1>b DEF Aims, Reading
  <2> QED
    BY <2>3, EditsBegin
<1>2. ASSUME NEW size \in PageSizes, ChangePageSize(s, size) PROVE EditsOnPage'
  <2>1. PICK c : c = Reading("load", "rows", win.table, 0, size)
    OBVIOUS
  <2>2. Begin(s, c) /\ win' = [win EXCEPT !.size = size, !.busy = TRUE]
    BY <1>2, <2>1 DEF ChangePageSize
  <2>3. PageStays
    BY <1>w, <2>2 DEF PageStays
  <2>4. Aims(s, c)
    BY <2>1, <2>2, <2>3 DEF Aims, Reading
  <2> QED
    BY <2>4, EditsBegin
<1>3. ASSUME NEW v \in Value \cup {0}, SaveCell(s, v) PROVE EditsOnPage'
  <2>1. PICK c : c = Writing("set", v)
    OBVIOUS
  <2>2. Begin(s, c) /\ Busy(TRUE) /\ CellSelected
    BY <1>3, <2>1 DEF SaveCell
  <2>3. Aims(s, c)
    BY <2>1, <2>2, <1>b DEF Aims, Writing, Reading
  <2> QED
    BY <2>3, EditsBegin
<1>4. ASSUME NEW v \in Value, SearchRows(s, v) PROVE EditsOnPage'
  <2>1. PICK c : c = [Reading("search", "search", win.table, 0, None) EXCEPT !.value = v]
    OBVIOUS
  <2>2. Begin(s, c) /\ UNCHANGED win
    BY <1>4, <2>1 DEF SearchRows
  <2>3. Aims(s, c)
    BY <2>1, <2>2, <1>b DEF Aims, Reading
  <2> QED
    BY <2>3, EditsBegin
<1>5. ASSUME ChangePage(s) PROVE EditsOnPage'
  <2>1. PICK start : Begin(s, Reading("load", "rows", win.table, start, win.size)) /\ Busy(TRUE)
    BY <1>5 DEF ChangePage
  <2>2. PICK c : c = Reading("load", "rows", win.table, start, win.size)
    OBVIOUS
  <2>3. Aims(s, c)
    BY <2>1, <2>2, <1>b DEF Aims, Reading
  <2> QED
    BY <2>3, EditsBegin
<1>6. ASSUME JumpToRow(s) PROVE EditsOnPage'
  <2>1. PICK row, start : Begin(s, [Reading("jump", "rows", win.table, start, win.size) EXCEPT !.row = row])
                          /\ Busy(TRUE)
    BY <1>6 DEF JumpToRow
  <2>2. PICK c : c = [Reading("jump", "rows", win.table, start, win.size) EXCEPT !.row = row]
    OBVIOUS
  <2>3. Aims(s, c)
    BY <2>1, <2>2, <1>b DEF Aims, Reading
  <2> QED
    BY <2>3, EditsBegin
<1>7. ASSUME ReloadTable(s) PROVE EditsOnPage'
  <2>1. PICK c : c = Reading("reload", "open", win.table, win.start, win.size)
    OBVIOUS
  <2>2. Begin(s, c) /\ Busy(TRUE)
    BY <1>7, <2>1 DEF ReloadTable
  <2>3. Aims(s, c)
    BY <2>1, <2>2, <1>b DEF Aims, Reading
  <2> QED
    BY <2>3, EditsBegin
<1>8. ASSUME CloseCurrent(s) PROVE EditsOnPage'
  <2>1. PICK c : c = Reading("close", "close", win.table, 0, None)
    OBVIOUS
  <2>2. Begin(s, c) /\ UNCHANGED win
    BY <1>8, <2>1 DEF CloseCurrent
  <2>3. Aims(s, c)
    BY <2>1, <2>2, <1>b DEF Aims, Reading
  <2> QED
    BY <2>3, EditsBegin
<1>9. ASSUME EmbedFile(s) PROVE EditsOnPage'
  <2>1. PICK c : c = Writing("pick", None)
    OBVIOUS
  <2>2. Begin(s, c) /\ UNCHANGED win /\ CellSelected
    BY <1>9, <2>1 DEF EmbedFile
  <2>3. Aims(s, c)
    BY <2>1, <2>2, <1>b DEF Aims, Writing, Reading
  <2> QED
    BY <2>3, EditsBegin
<1>10. ASSUME RunConfirm(s) PROVE EditsOnPage'
  <2>1. PICK k : k = win.confirm
    OBVIOUS
  <2>2. PICK c : c = [Reading("clear", "clear", k.path, k.start, k.size) EXCEPT !.row = k.row]
    OBVIOUS
  <2>3. Begin(s, c) /\ win' = [win EXCEPT !.confirm = None, !.busy = TRUE]
    BY <1>10, <2>1, <2>2 DEF RunConfirm
  <2>4. PageStays
    BY <1>w, <2>3 DEF PageStays
  <2>5. Aims(s, c)
    BY <2>2, <2>3, <2>4 DEF Aims, Reading
  <2> QED
    BY <2>5, EditsBegin
<1> QED
  BY <1>1, <1>2, <1>3, <1>4, <1>5, <1>6, <1>7, <1>8, <1>9, <1>10 DEF Acts, ClearCell

LEMMA AnswersKeepEdits ==
  ASSUME IInv, EditsOnPage, SelectionOnPage', NEW s \in Slot, Arrives(s) PROVE EditsOnPage'
<1>1. call[s] # None
  BY DEF Arrives, TableArrives, RowsArrive, ClearArrives, CellArrives, FileArrives, HitsArrive,
         CloseArrives, Answered
<1>2. /\ IsHandler(call[s]) /\ (call[s].alone => Sound(call[s])) /\ (~doubt => call[s].alone)
      /\ TypeOK /\ call[s].alone \in BOOLEAN /\ doubt \in BOOLEAN
  BY <1>1, Known
<1>w. /\ win = [table |-> win.table, page |-> win.page, start |-> win.start, size |-> win.size,
                selected |-> win.selected, hits |-> win.hits, busy |-> win.busy, confirm |-> win.confirm]
      /\ win.page \in Pages \cup {None}
  BY <1>2, CellsAndWindow
<1>b. ASSUME NEW b \in BOOLEAN, Busy(b) \/ UNCHANGED win PROVE PageStays
  BY <1>b, BusyKeepsSelection, SameKeepsSelection, ScreenStays
\* The handler goes on, and the page stays.
<1>3. ASSUME NEW req, Proceed(s, req), PageStays PROVE EditsOnPage'
  <2>1. call' = [call EXCEPT ![s].req = req, ![s].answer = None] /\ doubt' = doubt
    BY <1>3 DEF Proceed
  <2>2. Others(s) /\ SameTarget(s)
    BY <1>1, <2>1, TargetStays
  <2> QED
    BY <1>1, <1>3, <2>1, <2>2, EditsGoOn
\* It is done, and the page stays.
<1>4. ASSUME NEW unread, Done(s, FALSE, unread), PageStays PROVE EditsOnPage'
  BY <1>1, <1>4, EditsEndUnshown
<1>5. ASSUME NEW req, TableArrives(s, req) PROVE EditsOnPage'
  BY <1>3, <1>4, <1>5, <1>b DEF TableArrives
<1>6. CASE ClearArrives(s)
  BY <1>3, <1>4, <1>6, <1>b DEF ClearArrives
<1>7. CASE FileArrives(s)
  BY <1>3, <1>4, <1>7, <1>b DEF FileArrives
<1>8. CASE HitsArrive(s)
  <2>1. PICK hits : win' = [win EXCEPT !.hits = hits]
    BY <1>8 DEF HitsArrive
  <2>2. PageStays
    BY <1>w, <2>1 DEF PageStays
  <2> QED
    BY <1>4, <1>8, <2>2 DEF HitsArrive
<1>9. CASE CloseArrives(s)
  <2>1. CASE Ok(s)
    <3>1. win' = [win EXCEPT !.table = None, !.page = None, !.selected = None, !.hits = {}]
          /\ Done(s, Ok(s), FALSE)
      BY <1>9, <2>1 DEF CloseArrives
    <3>2. win'.page = None
      BY <1>w, <3>1
    <3>3. PICK heals, unread : Done(s, heals, unread)
      BY <3>1
    <3> QED
      BY <1>1, <3>2, <3>3, EditsEnd
  <2>2. CASE ~Ok(s)
    <3>0. Ok(s) = FALSE
      BY <2>2 DEF Ok
    <3>1. Done(s, FALSE, FALSE) /\ UNCHANGED win
      BY <1>9, <3>0 DEF CloseArrives
    <3> QED
      BY <1>4, <1>b, <3>1
  <2> QED
    BY <2>1, <2>2
<1>10. CASE CellArrives(s)
  <2>1. PICK page : /\ win' = [win EXCEPT !.busy = FALSE, !.page = page]
                    /\ page = (IF Ok(s) THEN ApplyCell(call[s].row, call[s].value) ELSE win.page)
    BY <1>10 DEF CellArrives
  <2>2. win'.table = win.table /\ win'.page = page
    BY <1>w, <2>1
  <2>3. \/ page = win.page
        \/ /\ win.page # None /\ call[s].row \in DOMAIN win.page.rows
           /\ page = Patched(win.page, call[s].row, call[s].value)
    BY <2>1 DEF ApplyCell, Patched
  <2>4. /\ page = None <=> win.page = None
        /\ win.page # None => page.of = win.page.of /\ DOMAIN page.rows = DOMAIN win.page.rows
    <3>1. CASE page = win.page
      BY <3>1
    <3>2. CASE /\ win.page # None /\ call[s].row \in DOMAIN win.page.rows
               /\ page = Patched(win.page, call[s].row, call[s].value)
      <4>1. call[s].value \in Value
        <5>1. call[s].req = "set" /\ Staged(call[s])
          BY <1>2, <1>10, FieldsOfHandler DEF CellArrives, Answered
        <5> QED
          BY <5>1 DEF Staged
      <4>2. PICK old, row, v : old \in Pages /\ old = win.page /\ row = call[s].row /\ v = call[s].value
        BY <1>w, <3>2
      <4>3. CASE v \in Value
        <5>1. page \in Pages /\ DOMAIN page.rows = DOMAIN old.rows
          BY <3>2, <4>2, <4>3, PatchedPage
        <5>2. old = [of |-> old.of, start |-> old.start, rows |-> old.rows]
          BY <4>2, RowsOfPage
        <5>3. page.of = old.of
          BY <3>2, <4>2, <5>2 DEF Patched
        <5> QED
          BY <3>2, <4>2, <5>1, <5>3, TableWindowAssumption
      <4> QED
        BY <4>1, <4>2, <4>3
    <3> QED
      BY <2>3, <3>1, <3>2
  <2>5. PageStays
    BY <2>2, <2>4 DEF PageStays
  <2> QED
    BY <1>4, <1>10, <2>5 DEF CellArrives
<1>11. CASE RowsArrive(s)
  <2>1. CASE ~Ok(s)
    <3>1. PICK unread : Done(s, FALSE, unread) /\ Busy(FALSE)
      BY <1>11, <2>1 DEF RowsArrive
    <3> QED
      BY <1>4, <1>b, <3>1
  <2>2. CASE Ok(s)
    <3>1. /\ call[s].req = "rows" /\ call[s].answer \notin {None, Error}
      BY <1>11, <2>2 DEF RowsArrive, Answered, Ok
    <3>2. call[s].alone => call[s].answer.of = call[s].path
      <4>1. call[s].alone => call[s].answer = Page(call[s].path, call[s].start, call[s].size)
        BY <1>2, <3>1 DEF Sound
      <4>2. \A p, start, size : Page(p, start, size).of = p
        BY DEF Page
      <4> QED
        BY <4>1, <4>2
    <3>3. CASE /\ call[s].op \in {"open", "create", "reload"} /\ Done(s, TRUE, FALSE)
               /\ (win' = ShowTable(s) \/ win' = ShowAgain(s))
      <4>1. win'.table = call[s].path /\ win'.page = call[s].answer
        BY <1>w, <3>3 DEF ShowTable, ShowAgain
      <4>2. ~doubt' => call[s].alone
        BY <1>2, <3>3 DEF Done
      <4>3. PICK heals, unread : Done(s, heals, unread)
        BY <3>3
      <4> QED
        BY <1>1, <3>2, <4>1, <4>2, <4>3, EditsEnd
    <3>4. CASE /\ call[s].op \in {"load", "jump", "clear"} /\ Done(s, FALSE, FALSE)
               /\ win' = ShowRows(s)
      <4>1. PICK selected : win' = [win EXCEPT !.page = call[s].answer, !.start = call[s].answer.start,
                                               !.busy = FALSE, !.selected = selected]
        BY <3>4 DEF ShowRows
      <4>2. win'.table = win.table /\ win'.page = call[s].answer
        BY <1>w, <4>1
      <4>3. ~doubt' => ~doubt
        BY <3>4 DEF Done
      <4>4. ~doubt => call[s].alone /\ call[s].path = win.table
        BY <1>2, <3>4 DEF Sound
      <4>5. PICK heals, unread : Done(s, heals, unread)
        BY <3>4
      <4> QED
        BY <1>1, <3>2, <4>2, <4>3, <4>4, <4>5, EditsEnd
    <3> QED
      BY <1>11, <2>2, <3>3, <3>4 DEF RowsArrive
  <2> QED
    BY <2>1, <2>2
<1> QED
  BY <1>5, <1>6, <1>7, <1>8, <1>9, <1>10, <1>11 DEF Arrives

LEMMA EditsPreserved == IInv /\ EditsOnPage /\ [Next]_vars => EditsOnPage'
<1> SUFFICES ASSUME IInv, EditsOnPage, [Next]_vars PROVE EditsOnPage'
  OBVIOUS
<1>1. SelectionOnPage'
  BY Preserved DEF IInv
<1>2. ASSUME NEW s \in Slot, Service(s) \/ Arrives(s) \/ Acts(s) PROVE EditsOnPage'
  BY <1>1, <1>2, ServiceKeepsEdits, AnswersKeepEdits, UserKeepsEdits
<1>3. ASSUME UNCHANGED <<call, doubt>>, win'.table = win.table, win'.page = win.page PROVE EditsOnPage'
  BY <1>1, <1>3 DEF EditsOnPage, SelectionOnPage
<1>w. win = [table |-> win.table, page |-> win.page, start |-> win.start, size |-> win.size,
             selected |-> win.selected, hits |-> win.hits, busy |-> win.busy, confirm |-> win.confirm]
  BY CellsAndWindow DEF IInv
<1>4. ASSUME NEW row, Select(row) PROVE EditsOnPage'
  <2>1. win' = [win EXCEPT !.selected = row] /\ UNCHANGED <<call, doubt>>
    BY <1>4 DEF Select
  <2> QED
    BY <1>3, <1>w, <2>1
<1>5. CASE RequestClearRow \/ CancelConfirm
  <2>1. PICK k : win' = [win EXCEPT !.confirm = k]
    BY <1>5 DEF RequestClearRow, CancelConfirm
  <2>2. UNCHANGED <<call, doubt>>
    BY <1>5 DEF RequestClearRow, CancelConfirm
  <2> QED
    BY <1>3, <1>w, <2>1, <2>2
<1>6. CASE UNCHANGED vars
  BY <1>3, <1>6 DEF vars
<1> QED
  BY <1>2, <1>4, <1>5, <1>6 DEF Next

-----------------------------------------------------------------------------
(* The invariant of the table window                                       *)

\* IInv is an invariant of the window, for all tables, sizes of pages, slots, and requests
\* that fail.
THEOREM TableWindowInductive == Spec => []IInv
<1>1. Init => IInv
  BY Initially
<1>2. IInv /\ [Next]_vars => IInv'
  BY Preserved
<1> QED
  BY <1>1, <1>2, PTL DEF Spec

\* Between two handlers the window shows the table that is open and its cells as they are in
\* the file (App.tsx), unless one of the reasons that "doubt" names has come up and no reload.
THEOREM TableScreenIsTrue == Spec => []ScreenTrue
<1>1. IInv => ScreenTrue
  <2> SUFFICES ASSUME IInv, Idle, ~doubt
               PROVE  \/ win.table = None /\ win.page = None /\ win.selected = None /\ win.hits = {}
                      \/ /\ win.table \in sessions
                         /\ \E size \in PageSizes : win.page = Page(win.table, win.start, size)
                         /\ win.hits \subseteq DOMAIN cells[win.table]
    BY DEF ScreenTrue
  <2>1. Shown
    BY DEF IInv, Screen
  <2> QED
    BY <2>1 DEF Shown, Fits
<1> QED
  BY <1>1, TableWindowInductive, PTL

\* A selected row is on the page in whatever order the answers come, and a cell that is
\* edited with nothing beside is on the page that is shown (saveCell, clearCell, embedFile,
\* selectedCell).
THEOREM EditsStayOnPage == Spec => []EditsOnPage
<1>1. Init => IInv /\ EditsOnPage
  <2>1. Init => win.page = None /\ win.selected = None /\ \A s \in Slot : call[s] = None
    BY DEF Init
  <2> QED
    BY <2>1, Initially DEF EditsOnPage
<1>2. IInv /\ EditsOnPage /\ [Next]_vars => (IInv /\ EditsOnPage)'
  BY Preserved, EditsPreserved
<1> QED
  BY <1>1, <1>2, PTL DEF Spec

\* When no answer is awaited the window is not busy: each handler that sets "busy" takes it
\* back, also when its request fails.
THEOREM WindowIsNotStuck == Spec => []NotStuck
<1>1. IInv => NotStuck
  BY DEF IInv, BusyHeld, NotStuck, Idle
<1> QED
  BY <1>1, TableWindowInductive, PTL

-----------------------------------------------------------------------------
(* The list half of the window. It shares the constants and the variables  *)
(* of Window with the other one.                                           *)

L == INSTANCE ListWindow

-----------------------------------------------------------------------------
(* The inductive invariant of the list window                              *)

Returned(c) == c.answer \notin {None, Error}

\* The requests of each handler, and what it has by then.
ListStaged(c) ==
    \/ c.op \in {"open", "create", "close"} /\ c.req = c.op
    \/ c.op = "refresh" /\ c.req = "open"
    \/ c.op = "add" /\ c.req = "add" /\ c.blob # None
    \/ c.op = "add" /\ c.req = "open"
    \/ c.op \in {"select", "refresh", "add", "replace"} /\ c.req = "get" /\ c.index # None
    \/ /\ c.op \in {"export", "replace", "delete"} /\ c.req \in {c.op, "pick"} /\ c.index # None
       /\ c.op = "replace" /\ (c.req = "replace" \/ (c.req = "pick" /\ Returned(c))) => c.blob # None
       /\ c.op = "delete" => c.req = "delete"

\* An answer is about what was asked for.
ListTold(c) ==
    Returned(c) => /\ c.req \in {"open", "create", "delete", "replace"} => c.answer.path = c.path
                   /\ c.req = "get" => c.answer.index = c.index

IsListHandler(c) == c.req \in L!Calls /\ c \in L!Waiting(c.req) /\ ListStaged(c) /\ ListTold(c)

FilesOK ==
    /\ files \in [Path -> Seq(Blob) \cup {None}]
    /\ sessions \in [Path -> L!ListSessions \cup {None}]
    /\ \A p \in Path : L!IsLive(p) => files[p] # None

ListWinOK ==
    win \in [list: L!Infos \cup {None}, selected: Nat \cup {None}, blob: L!Contents \cup {None},
             busy: BOOLEAN, confirm: L!ChosenBlobs \cup {None}]

ListTypes ==
    /\ FilesOK /\ ListWinOK /\ doubt \in {"none", "behind", "shifted"}
    /\ call = [s \in Slot |-> call[s]]
    /\ \A s \in Slot : call[s] # None => IsListHandler(call[s])

\* A handler that nothing ran beside is the only one, and the others leave a doubt, the
\* greater one if they shift an index.
ListAlone ==
    \A s \in Slot : call[s] # None =>
        IF call[s].alone THEN \A t \in Slot : call[t] # None => t = s
        ELSE doubt # "none" /\ (call[s].op \in L!Shifting => doubt = "shifted")

\* The handlers that make the window busy end that.
ListHolds(c) == c.op # "close" /\ c.req # "pick"

ListBusyHeld == win.busy => \E s \in Slot : call[s] # None /\ ListHolds(call[s])

Marked == (win.blob = None <=> win.selected = None) /\ (win.blob # None => win.blob.index = win.selected)

\* The mark and the blob part only while a blob that was clicked is on its way.
ListMarked == Marked \/ \E s \in Slot : call[s] # None /\ call[s].op = "select"

BlobShown ==
    win.blob # None => /\ win.blob.index + 1 \in DOMAIN files[win.list.path]
                       /\ win.blob.data = files[win.list.path][win.blob.index + 1]

ListShown ==
    IF win.list = None THEN win.selected = None /\ win.blob = None
    ELSE L!IsLive(win.list.path) /\ win.list.blobs = files[win.list.path] /\ BlobShown

\* What a handler knows that nothing ran beside.
ListSound(c) ==
    /\ c.op \in {"close", "select", "refresh", "add", "export", "replace"} =>
           win.list # None /\ c.path = win.list.path
    /\ Returned(c) /\ c.req \in {"open", "create", "delete", "replace"} =>
           L!IsLive(c.path) /\ c.answer.blobs = files[c.path]
    /\ c.req = "get" /\ c.op # "select" =>
           L!IsLive(c.path) /\ win.list.blobs = files[c.path]
    /\ c.req = "get" /\ Returned(c) =>
           /\ L!IsLive(c.path) /\ c.index + 1 \in DOMAIN files[c.path]
           /\ c.answer.data = files[c.path][c.index + 1]

\* What the handler did is not on the screen yet.
ListUnseen(c) ==
    \/ c.req \in {"close", "create", "delete", "replace", "add"} /\ Returned(c)
    \/ c.req = "open" /\ c.op = "add" /\ c.index # None
    \/ c.req = "get" /\ c.op = "replace"

ListScreenOf(c) ==
    IF ~ListUnseen(c) THEN ListShown
    ELSE c.op = "add" => L!IsLive(win.list.path) /\ BlobShown

ListScreen ==
    /\ \A s \in Slot : call[s] # None =>
           (call[s].alone => ListSound(call[s])) /\ (doubt = "none" => ListScreenOf(call[s]))
    /\ L!Idle /\ doubt = "none" => ListShown

\* The blobs of a list are those its file has first.
Precedes(list) ==
    /\ files[list.path] # None /\ Len(list.blobs) <= Len(files[list.path])
    /\ \A i \in 1 .. Len(list.blobs) : list.blobs[i] = files[list.path][i]

Shifted(c) == c.req \in L!Shifting /\ Returned(c)

\* Unless it is shifted, the list on the screen or on its way is at most behind the file.
ListBehind ==
    doubt # "shifted" =>
        /\ win.list # None /\ (\A s \in Slot : call[s] # None => ~Shifted(call[s])) =>
               Precedes(win.list)
        /\ \A s \in Slot : call[s] # None /\ ~call[s].alone /\ call[s].req = "open"
                           /\ Returned(call[s]) => Precedes(call[s].answer)

SeenIn(k) ==
    /\ files[k.path] # None /\ k.index + 1 \in DOMAIN files[k.path]
    /\ files[k.path][k.index + 1] = k.seen

Unacted(c) ==
    /\ c.op \in {"delete", "replace", "export"}
    /\ c.req = "pick" \/ (c.req = c.op /\ c.answer = None)

\* A choice that is sure is right, and nothing that shifts it is under way.
ListChosen ==
    /\ \A s \in Slot : call[s] # None /\ call[s].sure /\ Unacted(call[s]) =>
           SeenIn(call[s]) /\ \A t \in Slot \ {s} : ~L!Shifts(t)
    /\ win.confirm # None /\ win.confirm.sure =>
           SeenIn(win.confirm) /\ \A t \in Slot : ~L!Shifts(t)

ListInv ==
    ListTypes /\ ListAlone /\ ListBusyHeld /\ ListMarked /\ ListScreen /\ ListBehind /\ ListChosen

-----------------------------------------------------------------------------
(* The handlers of the list window                                         *)

LEMMA ListNothing ==
  /\ None \notin Nat /\ None \notin Path /\ None \notin Blob /\ None \notin L!Infos
  /\ None \notin L!Contents /\ None \notin L!ListSessions /\ None \notin L!ChosenBlobs
  /\ None \notin Seq(Blob) /\ None # Error
  /\ \A req \in L!Calls : None \notin L!Results(req) /\ None \notin L!Waiting(req) /\ Error \notin L!Results(req)
  BY ListWindowAssumption
     DEF Infos, L!Infos, Contents, L!Contents, ListSessions, L!ListSessions, ChosenBlobs, L!ChosenBlobs,
         Calls, L!Calls, Rewriting, L!Rewriting, Results, L!Results, Waiting, L!Waiting

LEMMA ListResults ==
  /\ \A req \in {"open", "create", "delete", "replace"} : L!Results(req) = L!Infos
  /\ L!Results("add") = Nat /\ L!Results("get") = L!Contents
  /\ \A req \in {"close", "export", "pick"} : L!Results(req) = {"ok"}
  BY DEF L!Results, L!Rewriting

ListOps == {"open", "create", "close", "select", "refresh", "add", "export", "delete", "replace"}

LEMMA ListFields ==
  ASSUME NEW c, IsListHandler(c)
  PROVE  /\ c = [op |-> c.op, req |-> c.req, path |-> c.path, index |-> c.index, blob |-> c.blob,
                 seen |-> c.seen, sure |-> c.sure, answer |-> c.answer, alone |-> c.alone]
         /\ c.op \in ListOps /\ c.req \in L!Calls /\ c.path \in Path /\ c.index \in Nat \cup {None}
         /\ c.blob \in Blob \cup {None} /\ c.seen \in Blob \cup {None} /\ c.sure \in BOOLEAN
         /\ c.answer \in L!Results(c.req) \cup {None, Error} /\ c.alone \in BOOLEAN
         /\ ListStaged(c) /\ ListTold(c) /\ c # None
         /\ Returned(c) => c.answer \in L!Results(c.req)
<1>1. c \in L!Waiting(c.req) /\ c.req \in L!Calls /\ ListStaged(c) /\ ListTold(c)
  BY DEF IsListHandler
<1>2. c # None
  BY <1>1, ListNothing
<1> QED
  BY <1>1, <1>2 DEF L!Waiting, L!Rewriting, ListOps, Returned

LEMMA MakesListHandler ==
  ASSUME NEW c,
         c = [op |-> c.op, req |-> c.req, path |-> c.path, index |-> c.index, blob |-> c.blob,
              seen |-> c.seen, sure |-> c.sure, answer |-> c.answer, alone |-> c.alone],
         c.op \in ListOps, c.req \in L!Calls, c.path \in Path, c.index \in Nat \cup {None},
         c.blob \in Blob \cup {None}, c.seen \in Blob \cup {None}, c.sure \in BOOLEAN,
         c.answer \in L!Results(c.req) \cup {None, Error}, c.alone \in BOOLEAN,
         ListStaged(c), ListTold(c)
  PROVE  IsListHandler(c) /\ c # None
<1>1. c \in L!Waiting(c.req)
  BY DEF L!Waiting, L!Rewriting, ListOps
<1>2. c # None
  BY <1>1, ListNothing
<1> QED
  BY <1>1, <1>2 DEF IsListHandler

\* Everything of a handler but its answer.
SameTask(d, c) ==
    /\ d.op = c.op /\ d.req = c.req /\ d.path = c.path /\ d.index = c.index
    /\ d.seen = c.seen /\ d.sure = c.sure /\ d.alone = c.alone

\* An answer that tells of what was asked for.
Fitting(c, a) ==
    \/ a = Error
    \/ /\ a \in L!Results(c.req) /\ c.req # "pick"
       /\ c.req \in {"open", "create", "delete", "replace"} => a.path = c.path
       /\ c.req = "get" => a.index = c.index

LEMMA HasListAnswer ==
  ASSUME NEW c, IsListHandler(c), NEW a, Fitting(c, a)
  PROVE  LET d == [c EXCEPT !.answer = a] IN
         IsListHandler(d) /\ d.answer = a /\ SameTask(d, c) /\ d.blob = c.blob
<1> DEFINE d == [c EXCEPT !.answer = a]
<1>1. /\ c = [op |-> c.op, req |-> c.req, path |-> c.path, index |-> c.index, blob |-> c.blob,
              seen |-> c.seen, sure |-> c.sure, answer |-> c.answer, alone |-> c.alone]
      /\ c.op \in ListOps /\ c.req \in L!Calls /\ c.path \in Path /\ c.index \in Nat \cup {None}
      /\ c.blob \in Blob \cup {None} /\ c.seen \in Blob \cup {None} /\ c.sure \in BOOLEAN
      /\ c.alone \in BOOLEAN /\ ListStaged(c)
  BY ListFields
<1>2. d = [op |-> c.op, req |-> c.req, path |-> c.path, index |-> c.index, blob |-> c.blob,
           seen |-> c.seen, sure |-> c.sure, answer |-> a, alone |-> c.alone]
  BY <1>1
<1> HIDE DEF d
<1>3. /\ d = [op |-> d.op, req |-> d.req, path |-> d.path, index |-> d.index, blob |-> d.blob,
              seen |-> d.seen, sure |-> d.sure, answer |-> d.answer, alone |-> d.alone]
      /\ SameTask(d, c) /\ d.blob = c.blob /\ d.answer = a
  BY <1>2 DEF SameTask
<1>4. a \in L!Results(c.req) \cup {None, Error}
  BY DEF Fitting
<1>5. ListStaged(d)
  BY <1>1, <1>3 DEF ListStaged, SameTask, Returned, Fitting
<1>6. ListTold(d)
  BY <1>3 DEF ListTold, SameTask, Returned, Fitting
<1>7. IsListHandler(d)
  BY <1>1, <1>3, <1>4, <1>5, <1>6, MakesListHandler DEF SameTask
<1> QED
  BY <1>3, <1>7 DEF d

Chooses(c, b) == [c EXCEPT !.answer = "ok", !.blob = b]

LEMMA HasListFile ==
  ASSUME NEW c, IsListHandler(c), c.req = "pick", NEW b \in Blob
  PROVE  LET d == Chooses(c, b) IN IsListHandler(d) /\ d.answer = "ok" /\ SameTask(d, c)
<1> DEFINE d == Chooses(c, b)
<1>0. d = [c EXCEPT !.answer = "ok", !.blob = b]
  BY DEF Chooses
<1> HIDE DEF d
<1>1. /\ c = [op |-> c.op, req |-> c.req, path |-> c.path, index |-> c.index, blob |-> c.blob,
              seen |-> c.seen, sure |-> c.sure, answer |-> c.answer, alone |-> c.alone]
      /\ c.op \in ListOps /\ c.req \in L!Calls /\ c.path \in Path /\ c.index \in Nat \cup {None}
      /\ c.seen \in Blob \cup {None} /\ c.sure \in BOOLEAN
      /\ c.alone \in BOOLEAN /\ ListStaged(c)
  BY ListFields
<1>2. d = [op |-> c.op, req |-> c.req, path |-> c.path, index |-> c.index, blob |-> b,
           seen |-> c.seen, sure |-> c.sure, answer |-> "ok", alone |-> c.alone]
  BY <1>0, <1>1
<1>3. /\ d = [op |-> d.op, req |-> d.req, path |-> d.path, index |-> d.index, blob |-> d.blob,
              seen |-> d.seen, sure |-> d.sure, answer |-> d.answer, alone |-> d.alone]
      /\ SameTask(d, c) /\ d.blob = b /\ d.answer = "ok"
  BY <1>2 DEF SameTask
<1>4. d.answer \in L!Results(d.req) \cup {None, Error}
  BY <1>3, ListResults DEF SameTask
<1>5. ListStaged(d) /\ ListTold(d)
  BY <1>1, <1>3, ListNothing DEF ListStaged, SameTask, ListTold
<1>6. IsListHandler(d)
  BY <1>1, <1>3, <1>4, <1>5, MakesListHandler DEF SameTask
<1> QED
  BY <1>3, <1>6 DEF d

\* A handler with its next request.
Asking(c, req, index) ==
    [c EXCEPT !.req = req, !.index = index, !.answer = None,
              !.blob = IF req = "replace" THEN c.blob ELSE None,
              !.seen = IF req = "get" THEN None ELSE c.seen]

LEMMA AsksListNext ==
  ASSUME NEW c, IsListHandler(c), NEW req, NEW index \in Nat \cup {None},
         \/ c.op \in {"refresh", "add", "replace"} /\ req = "get" /\ index # None
         \/ c.op = "add" /\ req = "open"
         \/ c.req = "pick" /\ Returned(c) /\ req = c.op /\ index = c.index
  PROVE  LET d == Asking(c, req, index) IN
         /\ IsListHandler(d) /\ d.op = c.op /\ d.req = req /\ d.path = c.path /\ d.index = index
         /\ d.sure = c.sure /\ d.answer = None /\ d.alone = c.alone
         /\ req # "get" => d.seen = c.seen
<1> DEFINE d == Asking(c, req, index)
           blob == IF req = "replace" THEN c.blob ELSE None
           seen == IF req = "get" THEN None ELSE c.seen
<1>0. d = [c EXCEPT !.req = req, !.index = index, !.answer = None, !.blob = blob, !.seen = seen]
  BY DEF Asking
<1>a. /\ req = "replace" => blob = c.blob
      /\ req # "get" => seen = c.seen
      /\ blob \in {c.blob, None} /\ seen \in {c.seen, None}
  OBVIOUS
<1> HIDE DEF d, blob, seen
<1>1. /\ c = [op |-> c.op, req |-> c.req, path |-> c.path, index |-> c.index, blob |-> c.blob,
              seen |-> c.seen, sure |-> c.sure, answer |-> c.answer, alone |-> c.alone]
      /\ c.op \in ListOps /\ c.req \in L!Calls /\ c.path \in Path /\ c.index \in Nat \cup {None}
      /\ c.blob \in Blob \cup {None} /\ c.seen \in Blob \cup {None} /\ c.sure \in BOOLEAN
      /\ c.alone \in BOOLEAN /\ ListStaged(c)
  BY ListFields
<1>2. d = [op |-> c.op, req |-> req, path |-> c.path, index |-> index, blob |-> blob,
           seen |-> seen, sure |-> c.sure, answer |-> None, alone |-> c.alone]
  BY <1>0, <1>1
<1>3. /\ d = [op |-> d.op, req |-> d.req, path |-> d.path, index |-> d.index, blob |-> d.blob,
              seen |-> d.seen, sure |-> d.sure, answer |-> d.answer, alone |-> d.alone]
      /\ d.op = c.op /\ d.req = req /\ d.path = c.path /\ d.index = index /\ d.blob = blob
      /\ d.seen = seen /\ d.sure = c.sure /\ d.answer = None /\ d.alone = c.alone
  BY <1>2
<1>4. ListTold(d)
  BY <1>3 DEF ListTold, Returned
<1>5. ListStaged(d) /\ req \in L!Calls
  BY <1>1, <1>3, <1>a, ListNothing DEF ListStaged, Returned, L!Calls, L!Rewriting
<1>6. IsListHandler(d)
  BY <1>1, <1>3, <1>4, <1>5, <1>a, MakesListHandler
<1> QED
  BY <1>3, <1>6, <1>a DEF d

\* A handler beside which another one begins, or that begins.
Beside(c, alone, sure) == [c EXCEPT !.alone = alone, !.sure = sure]

LEMMA StaysListHandler ==
  ASSUME NEW c, IsListHandler(c), NEW alone \in BOOLEAN, NEW sure \in BOOLEAN
  PROVE  LET d == Beside(c, alone, sure) IN
         /\ IsListHandler(d) /\ d.alone = alone /\ d.sure = sure
         /\ d.op = c.op /\ d.req = c.req /\ d.path = c.path /\ d.index = c.index
         /\ d.seen = c.seen /\ d.answer = c.answer
<1> DEFINE d == Beside(c, alone, sure)
<1>0. d = [c EXCEPT !.alone = alone, !.sure = sure]
  BY DEF Beside
<1> HIDE DEF d
<1>1. /\ c = [op |-> c.op, req |-> c.req, path |-> c.path, index |-> c.index, blob |-> c.blob,
              seen |-> c.seen, sure |-> c.sure, answer |-> c.answer, alone |-> c.alone]
      /\ c.op \in ListOps /\ c.req \in L!Calls /\ c.path \in Path /\ c.index \in Nat \cup {None}
      /\ c.blob \in Blob \cup {None} /\ c.seen \in Blob \cup {None}
      /\ c.answer \in L!Results(c.req) \cup {None, Error} /\ ListStaged(c) /\ ListTold(c)
  BY ListFields
<1>2. d = [op |-> c.op, req |-> c.req, path |-> c.path, index |-> c.index, blob |-> c.blob,
           seen |-> c.seen, sure |-> sure, answer |-> c.answer, alone |-> alone]
  BY <1>0, <1>1
<1>3. /\ d = [op |-> d.op, req |-> d.req, path |-> d.path, index |-> d.index, blob |-> d.blob,
              seen |-> d.seen, sure |-> d.sure, answer |-> d.answer, alone |-> d.alone]
      /\ d.op = c.op /\ d.req = c.req /\ d.path = c.path /\ d.index = c.index /\ d.blob = c.blob
      /\ d.seen = c.seen /\ d.sure = sure /\ d.answer = c.answer /\ d.alone = alone
  BY <1>2
<1>4. ListTold(d) /\ ListStaged(d)
  BY <1>1, <1>3 DEF ListTold, Returned, ListStaged
<1>5. IsListHandler(d)
  BY <1>1, <1>3, <1>4, MakesListHandler
<1> QED
  BY <1>3, <1>5 DEF d

-----------------------------------------------------------------------------
(* Steps of a handler of the list window                                   *)

LEMMA ListState ==
  ASSUME ListTypes
  PROVE  /\ win = [list |-> win.list, selected |-> win.selected, blob |-> win.blob,
                   busy |-> win.busy, confirm |-> win.confirm]
         /\ win.list \in L!Infos \cup {None} /\ win.selected \in Nat \cup {None}
         /\ win.blob \in L!Contents \cup {None} /\ win.busy \in BOOLEAN
         /\ win.confirm \in L!ChosenBlobs \cup {None}
         /\ doubt \in {"none", "behind", "shifted"}
         /\ call = [s \in Slot |-> call[s]]
         /\ \A s \in Slot : call[s] # None => IsListHandler(call[s])
         /\ FilesOK /\ ListWinOK
  BY DEF ListTypes, ListWinOK

\* What is known of a handler under way.
LEMMA ListKnown ==
  ASSUME ListInv, NEW s \in Slot, call[s] # None
  PROVE  /\ IsListHandler(call[s]) /\ (call[s].alone => ListSound(call[s]))
         /\ doubt = "none" => call[s].alone /\ ListScreenOf(call[s])
         /\ call[s].op \in L!Shifting /\ doubt # "shifted" => call[s].alone
         /\ call[s].alone => \A t \in Slot : call[t] # None => t = s
         /\ doubt \in {"none", "behind", "shifted"} /\ call[s].alone \in BOOLEAN
         /\ ListTypes /\ FilesOK /\ ListWinOK /\ call[s].path \in Path
         /\ Returned(call[s]) => call[s].answer \in L!Results(call[s].req)
         /\ ListStaged(call[s]) /\ ListTold(call[s])
<1>1. IsListHandler(call[s])
  BY DEF ListInv, ListTypes
<1>2. /\ call[s].alone \in BOOLEAN /\ call[s].path \in Path
      /\ Returned(call[s]) => call[s].answer \in L!Results(call[s].req)
      /\ ListStaged(call[s]) /\ ListTold(call[s])
  BY <1>1, ListFields
<1> QED
  BY <1>1, <1>2 DEF ListInv, ListTypes, ListAlone, ListScreen

SameMark == win'.selected = win.selected /\ win'.blob = win.blob

\* What the doubt may become: a greater one, if nothing ran beside.
DoubtGrows(s) ==
    doubt' \in {"none", "behind", "shifted"}
    /\ (doubt' = doubt \/ (doubt = "none" /\ call[s].alone))

\* What is chosen stays right.
ChoiceStays == \A k : k.path \in Path /\ SeenIn(k) => SeenIn(k)'

\* The list on the screen, with nothing shifted by another handler, is one the file
\* begins with.
OthersShift(s) == \E t \in Slot \ {s} : call[t] # None /\ Shifted(call[t])

ListFollows(s) ==
    win'.list # None => OthersShift(s) \/ Precedes(win.list)'

\* A handler goes on: from a request to its answer or from an answer to a request.
LEMMA ListHandlerGoesOn ==
  ASSUME ListInv, NEW s \in Slot, call[s] # None, Others(s), IsListHandler(call'[s]),
         call'[s].alone = call[s].alone, call'[s].op = call[s].op,
         FilesOK', ListWinOK', DoubtGrows(s),
         win'.busy => ListHolds(call'[s]) \/ (win.busy /\ ~ListHolds(call[s])),
         SameMark,
         call[s].alone => ListSound(call[s])',
         doubt = "none" /\ doubt' = "none" => ListScreenOf(call[s])',
         doubt' # "shifted" => Shifted(call'[s]) \/ ListFollows(s),
         doubt' # "shifted" /\ ~call[s].alone =>
             /\ \A i \in L!Infos : Precedes(i) => Precedes(i)'
             /\ call'[s].req = "open" /\ Returned(call'[s]) => Precedes(call[s].answer)',
         L!Shifts(s) \/ ChoiceStays,
         call'[s].sure /\ Unacted(call'[s]) =>
             /\ call[s].sure /\ Unacted(call[s]) /\ ChoiceStays
             /\ call'[s].path = call[s].path /\ call'[s].index = call[s].index
             /\ call'[s].seen = call[s].seen,
         win'.confirm = win.confirm
  PROVE  ListInv'
<1>1. call'[s] # None
  BY ListFields
<1>k. /\ ListTypes /\ (call[s].alone => \A t \in Slot : call[t] # None => t = s)
      /\ call[s].alone \in BOOLEAN /\ doubt \in {"none", "behind", "shifted"}
  BY ListKnown
<1>2. ListTypes'
  BY <1>1, <1>k DEF ListTypes, Others, DoubtGrows
<1>3. ListAlone'
  <2>1. ASSUME NEW t \in Slot, call'[t] # None
        PROVE  IF call'[t].alone THEN \A u \in Slot : call'[u] # None => u = t
               ELSE doubt' # "none" /\ (call'[t].op \in L!Shifting => doubt' = "shifted")
    <3>1. CASE t = s
      BY <1>k, <3>1 DEF ListInv, ListAlone, Others, DoubtGrows
    <3>2. CASE t # s
      <4>1. call'[t] = call[t] /\ call[t] # None /\ ~call[t].alone /\ ~call[s].alone
        BY <2>1, <3>2 DEF ListInv, ListAlone, Others
      <4> QED
        BY <4>1, <2>1, <1>k DEF ListInv, ListAlone, DoubtGrows
    <3> QED
      BY <3>1, <3>2
  <2> QED
    BY <2>1 DEF ListAlone
<1>4. ListBusyHeld'
  BY <1>1 DEF ListInv, ListBusyHeld, Others
<1>5. ListMarked'
  <2>1. CASE Marked
    BY <2>1 DEF SameMark, Marked, ListMarked
  <2>2. ASSUME NEW t \in Slot, call[t] # None, call[t].op = "select" PROVE ListMarked'
    BY <1>1, <2>2 DEF ListMarked, Others
  <2> QED
    BY <2>1, <2>2 DEF ListInv, ListMarked
<1>6. ListScreen'
  <2>1. ~L!Idle'
    BY <1>1 DEF L!Idle
  <2>2. ASSUME NEW t \in Slot, call'[t] # None
        PROVE  (call'[t].alone => ListSound(call[t])') /\ (doubt' = "none" => ListScreenOf(call[t])')
    <3>1. CASE t = s
      BY <3>1, <1>k DEF ListInv, ListAlone, DoubtGrows
    <3>2. CASE t # s
      <4>1. call'[t] = call[t] /\ call[t] # None /\ ~call[t].alone /\ ~call[s].alone
        BY <2>2, <3>2 DEF ListInv, ListAlone, Others
      <4>2. doubt # "none"
        BY <4>1 DEF ListInv, ListAlone
      <4> QED
        BY <4>1, <4>2 DEF DoubtGrows
    <3> QED
      BY <3>1, <3>2
  <2> QED
    BY <2>1, <2>2 DEF ListScreen
<1>7. ListBehind'
  <2>1. SUFFICES ASSUME doubt' # "shifted" PROVE ListBehind'
    BY DEF ListBehind
  <2>2. ASSUME win'.list # None, \A t \in Slot : call'[t] # None => ~Shifted(call'[t])
        PROVE  Precedes(win.list)'
    <3>1. ~OthersShift(s)
      BY <2>2 DEF OthersShift, Others
    <3>2. ~Shifted(call'[s])
      BY <1>1, <2>2
    <3> QED
      BY <2>1, <2>2, <3>1, <3>2 DEF ListFollows
  <2>3. ASSUME NEW t \in Slot, call'[t] # None, ~call'[t].alone, call'[t].req = "open", Returned(call'[t])
        PROVE  Precedes(call[t].answer)'
    <3>1. CASE t = s
      BY <2>1, <2>3, <3>1
    <3>2. CASE t # s
      <4>1. call'[t] = call[t] /\ call[t] # None /\ ~call[t].alone /\ ~call[s].alone
        BY <2>3, <3>2 DEF ListInv, ListAlone, Others
      <4>2. doubt # "shifted"
        BY <4>1, <2>1 DEF DoubtGrows
      <4>3. Precedes(call[t].answer)
        BY <2>3, <4>1, <4>2 DEF ListInv, ListBehind
      <4>4. PICK i \in L!Infos : i = call[t].answer
        BY <2>3, <4>1, ListKnown, ListResults
      <4>5. Precedes(i)'
        BY <2>1, <4>1, <4>3, <4>4
      <4> QED
        BY <4>1, <4>4, <4>5 DEF Precedes
    <3> QED
      BY <3>1, <3>2
  <2> QED
    BY <2>2, <2>3 DEF ListBehind
<1>8. ListChosen'
  <2>s. \A t \in Slot : L!Shifts(t)' <=> L!Shifts(t)
    BY <1>1 DEF L!Shifts, Others, L!Shifting
  <2>1. ASSUME NEW t \in Slot, call'[t] # None, call'[t].sure, Unacted(call'[t])
        PROVE  SeenIn(call[t])' /\ \A u \in Slot \ {t} : ~L!Shifts(u)'
    <3>1. call[t] # None /\ call[t].sure /\ Unacted(call[t]) /\ ChoiceStays
      <4>1. CASE t = s
        BY <2>1, <4>1
      <4>2. CASE t # s
        <5>1. call[t] # None /\ call[t].sure /\ Unacted(call[t])
          BY <2>1, <4>2 DEF Others
        <5>2. ~L!Shifts(s)
          BY <4>2, <5>1 DEF ListInv, ListChosen
        <5> QED
          BY <5>1, <5>2
      <4> QED
        BY <4>1, <4>2
    <3>2. SeenIn(call[t]) /\ call[t].path \in Path /\ \A u \in Slot \ {t} : ~L!Shifts(u)
      BY <3>1, ListKnown DEF ListInv, ListChosen
    <3>3. PICK k : k = call[t]
      OBVIOUS
    <3>4. SeenIn(k)'
      BY <3>1, <3>2, <3>3 DEF ChoiceStays
    <3>5. call'[t].path = k.path /\ call'[t].index = k.index /\ call'[t].seen = k.seen
      BY <2>1, <3>3 DEF Others
    <3>6. SeenIn(call[t])'
      BY <3>4, <3>5 DEF SeenIn
    <3> QED
      BY <2>s, <3>2, <3>6
  <2>2. ASSUME win'.confirm # None, win'.confirm.sure
        PROVE  SeenIn(win.confirm)' /\ \A t \in Slot : ~L!Shifts(t)'
    <3>1. SeenIn(win.confirm) /\ win.confirm.path \in Path /\ \A t \in Slot : ~L!Shifts(t)
      BY <2>2, <1>k, ListState DEF ListInv, ListChosen, L!ChosenBlobs
    <3>2. PICK k : k = win.confirm
      OBVIOUS
    <3>3. SeenIn(k)'
      BY <3>1, <3>2 DEF ChoiceStays
    <3> QED
      BY <2>s, <3>1, <3>2, <3>3
  <2> QED
    BY <2>1, <2>2 DEF ListChosen
<1> QED
  BY <1>2, <1>3, <1>4, <1>5, <1>6, <1>7, <1>8 DEF ListInv

-----------------------------------------------------------------------------
(* The service of the lists                                                *)

LEMMA ListAnswering ==
  ASSUME ListTypes, NEW s \in Slot, call[s] # None, NEW a, L!Answer(s, a), Fitting(call[s], a)
  PROVE  /\ Others(s) /\ IsListHandler(call'[s]) /\ SameTask(call'[s], call[s])
         /\ call'[s].answer = a /\ a # None
<1>1. IsListHandler(call[s]) /\ call = [t \in Slot |-> call[t]]
  BY ListState
<1>2. call'[s] = [call[s] EXCEPT !.answer = a] /\ Others(s)
  BY <1>1 DEF L!Answer, Others
<1>3. PICK c : c = call[s]
  OBVIOUS
<1>4. LET d == [c EXCEPT !.answer = a] IN
      IsListHandler(d) /\ d.answer = a /\ SameTask(d, c) /\ d.blob = c.blob
  BY <1>1, <1>3, HasListAnswer
<1>5. call[s].req \in L!Calls
  BY <1>1, ListFields
<1> QED
  BY <1>2, <1>3, <1>4, <1>5, ListNothing DEF Fitting

\* The service answers: what it did to the files is for each call to say.
LEMMA ListServiceKeeps ==
  ASSUME ListInv, NEW s \in Slot, call[s] # None, call[s].answer = None,
         NEW a, L!Answer(s, a), Fitting(call[s], a), win' = win, FilesOK', DoubtGrows(s),
         call[s].alone => ListSound(call[s])',
         doubt = "none" /\ doubt' = "none" => ListScreenOf(call[s])',
         doubt' # "shifted" => Shifted(call'[s]) \/ ListFollows(s),
         doubt' # "shifted" /\ ~call[s].alone =>
             /\ \A i \in L!Infos : Precedes(i) => Precedes(i)'
             /\ call[s].req = "open" /\ a # Error => Precedes(call[s].answer)',
         L!Shifts(s) \/ ChoiceStays, call[s].req = "pick" => ChoiceStays
  PROVE  ListInv'
<1>1. ListTypes /\ ListWinOK
  BY DEF ListInv, ListTypes
<1>2. /\ Others(s) /\ IsListHandler(call'[s]) /\ SameTask(call'[s], call[s])
      /\ call'[s].answer = a /\ a # None
  BY <1>1, ListAnswering
<1>3. ListWinOK' /\ SameMark
  BY <1>1 DEF ListWinOK, SameMark
<1>4. win'.busy => ListHolds(call'[s]) \/ (win.busy /\ ~ListHolds(call[s]))
  BY <1>2 DEF ListHolds, SameTask
<1>5. ASSUME call'[s].sure, Unacted(call'[s])
      PROVE  /\ call[s].sure /\ Unacted(call[s]) /\ ChoiceStays
             /\ call'[s].path = call[s].path /\ call'[s].index = call[s].index
             /\ call'[s].seen = call[s].seen
  BY <1>2, <1>5 DEF Unacted, SameTask
<1>6. call'[s].req = call[s].req /\ call'[s].op = call[s].op /\ call'[s].alone = call[s].alone
      /\ (Returned(call'[s]) => a # Error)
  BY <1>2 DEF SameTask, Returned
<1> QED
  BY <1>2, <1>3, <1>4, <1>5, <1>6, ListHandlerGoesOn

\* A list can grow.
Growing ==
    \A p \in Path : files[p] # None =>
        /\ files'[p] # None /\ Len(files[p]) <= Len(files'[p])
        /\ \A i \in 1 .. Len(files[p]) : files'[p][i] = files[p][i]

LEMMA GrowingKeeps ==
  ASSUME ListInv, FilesOK', Growing, win' = win
  PROVE  /\ \A i \in L!Infos : Precedes(i) => Precedes(i)'
         /\ ChoiceStays
         /\ \A s \in Slot : call[s] # None /\ ~Shifted(call[s]) /\ doubt # "shifted" => ListFollows(s)
         /\ win.list # None /\ L!IsLive(win.list.path) /\ BlobShown => BlobShown'
<1>0. /\ \A p \in Path : files[p] # None => files[p] \in Seq(Blob)
      /\ \A p \in Path : files'[p] # None => files'[p] \in Seq(Blob)
      /\ \A p \in Path : L!IsLive(p) => files[p] # None
      /\ win.list # None => win.list \in L!Infos /\ win.list.path \in Path
  BY ListState DEF ListInv, FilesOK, L!Infos
<1>1. ASSUME NEW i \in L!Infos, Precedes(i) PROVE Precedes(i)'
  <2>1. i.path \in Path /\ i.blobs \in Seq(Blob)
    BY DEF L!Infos
  <2>2. /\ files[i.path] # None /\ Len(i.blobs) <= Len(files[i.path])
        /\ \A j \in 1 .. Len(i.blobs) : i.blobs[j] = files[i.path][j]
    BY <1>1 DEF Precedes
  <2>3. /\ files'[i.path] # None /\ Len(files[i.path]) <= Len(files'[i.path])
        /\ \A j \in 1 .. Len(files[i.path]) : files'[i.path][j] = files[i.path][j]
    BY <2>1, <2>2 DEF Growing
  <2>4. Len(i.blobs) \in Nat /\ Len(files[i.path]) \in Nat /\ Len(files'[i.path]) \in Nat
    BY <1>0, <2>1, <2>2, <2>3
  <2>5. Len(i.blobs) <= Len(files'[i.path])
        /\ \A j \in 1 .. Len(i.blobs) : i.blobs[j] = files'[i.path][j]
    BY <2>2, <2>3, <2>4
  <2> QED
    BY <2>3, <2>5 DEF Precedes
<1>2. ASSUME NEW k, k.path \in Path, SeenIn(k) PROVE SeenIn(k)'
  <2>1. files[k.path] # None /\ k.index + 1 \in DOMAIN files[k.path]
        /\ files[k.path][k.index + 1] = k.seen
    BY <1>2 DEF SeenIn
  <2>2. /\ files'[k.path] # None /\ Len(files[k.path]) <= Len(files'[k.path])
        /\ \A j \in 1 .. Len(files[k.path]) : files'[k.path][j] = files[k.path][j]
    BY <1>2, <2>1 DEF Growing
  <2>3. k.index + 1 \in 1 .. Len(files[k.path]) /\ DOMAIN files'[k.path] = 1 .. Len(files'[k.path])
        /\ Len(files'[k.path]) \in Nat /\ Len(files[k.path]) \in Nat
    BY <1>0, <1>2, <2>1, <2>2
  <2>4. PICK n : n = k.index + 1
    OBVIOUS
  <2>5. n \in 1 .. Len(files'[k.path])
    BY <2>2, <2>3, <2>4
  <2> QED
    BY <2>1, <2>2, <2>3, <2>4, <2>5 DEF SeenIn
<1>3. ASSUME NEW s \in Slot, call[s] # None, ~Shifted(call[s]), doubt # "shifted"
      PROVE  ListFollows(s)
  <2>1. ASSUME win.list # None, ~OthersShift(s) PROVE Precedes(win.list)'
    <3>1. Precedes(win.list)
      BY <1>3, <2>1 DEF ListInv, ListBehind, OthersShift
    <3>2. PICK i \in L!Infos : i = win.list
      BY <1>0, <2>1
    <3> QED
      BY <1>1, <3>1, <3>2
  <2> QED
    BY <1>3, <2>1 DEF ListFollows
<1>4. ASSUME win.list # None, L!IsLive(win.list.path), BlobShown PROVE BlobShown'
  <2>1. SUFFICES ASSUME win.blob # None PROVE BlobShown'
    BY DEF BlobShown
  <2>2. PICK p \in Path : p = win.list.path
    BY <1>0, <1>4
  <2>3. PICK n : n = win.blob.index + 1
    OBVIOUS
  <2>4. files[p] # None /\ n \in DOMAIN files[p] /\ win.blob.data = files[p][n]
    BY <1>0, <1>4, <2>1, <2>2, <2>3 DEF BlobShown
  <2>5. /\ files'[p] # None /\ Len(files[p]) <= Len(files'[p])
        /\ \A j \in 1 .. Len(files[p]) : files'[p][j] = files[p][j]
    BY <2>4 DEF Growing
  <2>6. n \in 1 .. Len(files[p]) /\ DOMAIN files'[p] = 1 .. Len(files'[p])
        /\ Len(files'[p]) \in Nat /\ Len(files[p]) \in Nat
    BY <1>0, <2>4, <2>5
  <2>7. n \in DOMAIN files'[p] /\ win.blob.data = files'[p][n]
    BY <2>4, <2>5, <2>6
  <2> QED
    BY <2>2, <2>3, <2>7 DEF BlobShown
<1> QED
  BY <1>1, <1>2, <1>3, <1>4 DEF ChoiceStays

\* An answer that changes no file and no session.
LEMMA ReadingKeeps ==
  ASSUME ListInv, NEW s \in Slot, call[s] # None, call[s].answer = None,
         NEW a, L!Answer(s, a), Fitting(call[s], a), UNCHANGED <<files, sessions, win, doubt>>,
         call[s].alone => ListSound(call[s])',
         doubt = "none" => (ListUnseen(call[s])' <=> ListUnseen(call[s])),
         a = Error \/ call[s].req \notin L!Shifting \cup {"open"}
  PROVE  ListInv'
<1>1. FilesOK' /\ DoubtGrows(s) /\ Growing
  <2>1. ListTypes
    BY ListKnown
  <2>2. FilesOK'
    BY <2>1 DEF ListTypes, FilesOK, L!IsLive
  <2>3. Growing
    <3>1. \A p \in Path : files[p] # None => Len(files[p]) <= Len(files[p])
      BY <2>1 DEF ListTypes, FilesOK
    <3> QED
      BY <3>1 DEF Growing
  <2> QED
    BY <2>1, <2>2, <2>3 DEF DoubtGrows, ListTypes
<1>2. /\ \A i \in L!Infos : Precedes(i) => Precedes(i)'
      /\ ChoiceStays
      /\ ~Shifted(call[s]) /\ doubt # "shifted" => ListFollows(s)
  BY <1>1, GrowingKeeps
<1>3. ~Shifted(call[s])
  BY DEF Shifted, Returned
<1>4. SameTask(call'[s], call[s])
  BY ListAnswering DEF ListInv
<1>5. ASSUME doubt = "none" PROVE ListScreenOf(call[s])'
  <2>1. ListScreenOf(call[s])
    BY <1>5, ListKnown
  <2>2. ListShown' <=> ListShown
    BY DEF ListShown, L!IsLive, BlobShown
  <2>3. BlobShown' <=> BlobShown
    BY DEF BlobShown
  <2>4. L!IsLive(win.list.path)' <=> L!IsLive(win.list.path)
    BY DEF L!IsLive
  <2> QED
    BY <1>4, <1>5, <2>1, <2>2, <2>3, <2>4 DEF ListScreenOf, SameTask
<1> QED
  BY <1>1, <1>2, <1>3, <1>5, ListServiceKeeps

LEMMA ListFailsKeeps == ASSUME ListInv, NEW s \in Slot, L!Fails(s) PROVE ListInv'
<1>1. /\ call[s] # None /\ call[s].answer = None /\ L!Answer(s, Error)
      /\ UNCHANGED <<files, sessions, win, doubt>>
  BY DEF L!Fails
<1>2. Fitting(call[s], Error)
  BY DEF Fitting
<1>3. SameTask(call'[s], call[s]) /\ call'[s].answer = Error
  BY <1>1, <1>2, ListAnswering DEF ListInv
<1>4. ASSUME call[s].alone PROVE ListSound(call[s])'
  <2>1. ListSound(call[s])
    BY <1>1, <1>4, ListKnown
  <2> QED
    BY <1>1, <1>3, <2>1 DEF ListSound, SameTask, Returned, L!IsLive
<1>5. ListUnseen(call[s])' <=> ListUnseen(call[s])
  BY <1>1, <1>3 DEF ListUnseen, SameTask, Returned
<1> QED
  BY <1>1, <1>2, <1>4, <1>5, ReadingKeeps

LEMMA GetBlobKeeps == ASSUME ListInv, NEW s \in Slot, L!GetBlob(s) PROVE ListInv'
<1> DEFINE a == [index |-> call[s].index, data |-> files[call[s].path][call[s].index + 1]]
<1>1. /\ call[s] # None /\ call[s].answer = None /\ call[s].req = "get" /\ L!Has(call[s])
      /\ L!Answer(s, a) /\ UNCHANGED <<files, sessions, win, doubt>>
  BY DEF L!GetBlob, L!Pending
<1>2. /\ IsListHandler(call[s]) /\ FilesOK /\ call[s].path \in Path /\ ListStaged(call[s])
      /\ (call[s].alone => ListSound(call[s]))
  BY <1>1, ListKnown
<1>3. L!IsLive(call[s].path) /\ call[s].index + 1 \in DOMAIN files[call[s].path]
      /\ files[call[s].path] \in Seq(Blob)
  BY <1>1, <1>2 DEF L!Has, FilesOK
<1>4. call[s].index \in Nat
  BY <1>1, <1>2, ListFields DEF ListStaged
<1>5. a \in L!Contents /\ a.index = call[s].index
      /\ a.data = files[call[s].path][call[s].index + 1]
  BY <1>3, <1>4 DEF L!Contents
<1> HIDE DEF a
<1>6. Fitting(call[s], a)
  BY <1>1, <1>5, ListResults DEF Fitting
<1>7. SameTask(call'[s], call[s]) /\ call'[s].answer = a
  BY <1>1, <1>6, ListAnswering DEF ListInv
<1>8. ASSUME call[s].alone PROVE ListSound(call[s])'
  <2>1. /\ call'[s].req = "get" /\ call'[s].op = call[s].op /\ call'[s].path = call[s].path
        /\ call'[s].index = call[s].index /\ call'[s].answer.data = a.data
    BY <1>1, <1>7 DEF SameTask
  <2>2. ListSound(call[s])
    BY <1>2, <1>8
  <2>3. \A p : (L!IsLive(p)' <=> L!IsLive(p))
    BY <1>1 DEF L!IsLive
  <2> QED
    BY <1>1, <1>3, <1>5, <2>1, <2>2, <2>3 DEF ListSound
<1>9. ListUnseen(call[s])' <=> ListUnseen(call[s])
  BY <1>1, <1>7 DEF ListUnseen, SameTask
<1>10. call[s].req \notin L!Shifting \cup {"open"}
  BY <1>1 DEF L!Shifting
<1> QED
  BY <1>1, <1>6, <1>8, <1>9, <1>10, ReadingKeeps

LEMMA ExportBlobKeeps == ASSUME ListInv, NEW s \in Slot, L!ExportBlob(s) PROVE ListInv'
<1>1. /\ call[s] # None /\ call[s].answer = None /\ call[s].req = "export"
      /\ L!Answer(s, "ok") /\ UNCHANGED <<files, sessions, win, doubt>>
  BY DEF L!ExportBlob, L!Pending
<1>2. Fitting(call[s], "ok")
  BY <1>1, ListResults DEF Fitting
<1>3. SameTask(call'[s], call[s]) /\ call'[s].answer = "ok"
  BY <1>1, <1>2, ListAnswering DEF ListInv
<1>4. ASSUME call[s].alone PROVE ListSound(call[s])'
  <2>1. ListSound(call[s])
    BY <1>1, <1>4, ListKnown
  <2> QED
    BY <1>1, <1>3, <2>1 DEF ListSound, SameTask
<1>5. ListUnseen(call[s])' <=> ListUnseen(call[s])
  BY <1>1, <1>3 DEF ListUnseen, SameTask
<1>6. call[s].req \notin L!Shifting \cup {"open"}
  BY <1>1 DEF L!Shifting
<1> QED
  BY <1>1, <1>2, <1>4, <1>5, <1>6, ReadingKeeps

LEMMA PickListFileKeeps == ASSUME ListInv, NEW s \in Slot, L!PickFile(s) PROVE ListInv'
<1>1. /\ call[s] # None /\ call[s].req = "pick" /\ call[s].answer = None
      /\ UNCHANGED <<files, sessions, win, doubt>>
  BY DEF L!PickFile, L!Pending
<1>2. /\ IsListHandler(call[s]) /\ (call[s].alone => ListSound(call[s])) /\ ListTypes
      /\ doubt = "none" => ListScreenOf(call[s])
      /\ doubt \in {"none", "behind", "shifted"}
  BY <1>1, ListKnown
<1>3. CASE L!Answer(s, Error)
  <2>1. Fitting(call[s], Error)
    BY DEF Fitting
  <2>2. SameTask(call'[s], call[s]) /\ call'[s].answer = Error
    BY <1>1, <1>3, <2>1, ListAnswering DEF ListInv
  <2>3. call[s].alone => ListSound(call[s])'
    BY <1>1, <1>2, <2>2 DEF ListSound, SameTask
  <2>4. ListUnseen(call[s])' <=> ListUnseen(call[s])
    BY <1>1, <2>2 DEF ListUnseen, SameTask
  <2> QED
    BY <1>1, <1>3, <2>1, <2>3, <2>4, ReadingKeeps
<1>4. ASSUME NEW b \in Blob, call' = [call EXCEPT ![s].answer = "ok", ![s].blob = b]
      PROVE  ListInv'
  <2>1. call = [t \in Slot |-> call[t]]
    BY <1>2, ListState
  <2>2. Others(s) /\ call'[s] = Chooses(call[s], b)
    BY <1>4, <2>1 DEF Others, Chooses
  <2>3. PICK c : c = call[s]
    OBVIOUS
  <2>4. LET d == Chooses(c, b) IN IsListHandler(d) /\ d.answer = "ok" /\ SameTask(d, c)
    BY <1>1, <1>2, <2>3, HasListFile
  <2>5. IsListHandler(call'[s]) /\ call'[s].answer = "ok" /\ SameTask(call'[s], call[s])
    BY <2>2, <2>3, <2>4
  <2>6. /\ call'[s].alone = call[s].alone /\ call'[s].op = call[s].op /\ call'[s].req = "pick"
        /\ call'[s].sure = call[s].sure /\ call'[s].path = call[s].path
        /\ call'[s].index = call[s].index /\ call'[s].seen = call[s].seen
    BY <1>1, <2>5 DEF SameTask
  <2>7. FilesOK' /\ ListWinOK' /\ SameMark /\ DoubtGrows(s)
    BY <1>1, <1>2 DEF ListTypes, FilesOK, L!IsLive, ListWinOK, SameMark, DoubtGrows
  <2>8. Growing
    <3>1. \A p \in Path : files[p] # None => Len(files[p]) <= Len(files[p])
      BY <1>2 DEF ListTypes, FilesOK
    <3> QED
      BY <1>1, <3>1 DEF Growing
  <2>9. ~Shifted(call[s])
    BY <1>1 DEF Shifted, Returned
  <2>10. /\ \A i \in L!Infos : Precedes(i) => Precedes(i)'
         /\ ChoiceStays
         /\ doubt # "shifted" => ListFollows(s)
    BY <1>1, <2>7, <2>8, <2>9, GrowingKeeps
  <2>11. ASSUME call[s].alone PROVE ListSound(call[s])'
    BY <1>1, <1>2, <2>6, <2>11 DEF ListSound
  <2>12. ASSUME doubt = "none" PROVE ListScreenOf(call[s])'
    <3>1. ~ListUnseen(call[s]) /\ ~ListUnseen(call[s])'
      BY <1>1, <2>6 DEF ListUnseen
    <3>2. ListShown' <=> ListShown
      BY <1>1 DEF ListShown, L!IsLive, BlobShown
    <3> QED
      BY <1>2, <2>12, <3>1, <3>2 DEF ListScreenOf
  <2>13. Unacted(call'[s]) => Unacted(call[s])
    BY <1>1, <2>6 DEF Unacted
  <2>14. win'.busy => ListHolds(call'[s]) \/ (win.busy /\ ~ListHolds(call[s]))
    BY <1>1 DEF ListHolds
  <2>15. doubt' # "shifted" => Shifted(call'[s]) \/ ListFollows(s)
    BY <1>1, <2>10
  <2>16. win'.confirm = win.confirm /\ call'[s].req # "open"
    BY <1>1, <2>6
  <2> QED
    BY <1>1, <2>2, <2>5, <2>6, <2>7, <2>10, <2>11, <2>12, <2>13, <2>14, <2>15, <2>16,
       ListHandlerGoesOn
<1> QED
  BY <1>3, <1>4 DEF L!PickFile

LEMMA NoBlobs == << >> \in Seq(Blob) /\ << >> # None /\ Len(<< >>) = 0
<1>1. << >> \in Seq(Blob)
  BY EmptySeq
<1> QED
  BY <1>1, ListNothing, EmptySeq

LEMMA OpenListKeeps == ASSUME ListInv, NEW s \in Slot, L!OpenList(s) PROVE ListInv'
<1>p. PICK p \in Path : p = call[s].path
  BY ListKnown DEF L!OpenList, L!Pending
<1>b. PICK blobs : blobs = L!Opened(p)
  OBVIOUS
<1>1. /\ call[s] # None /\ call[s].req = "open" /\ call[s].answer = None /\ UNCHANGED <<win, doubt>>
      /\ files' = [files EXCEPT ![p] = blobs] /\ sessions' = [sessions EXCEPT ![p] = "live"]
      /\ L!Answer(s, L!Info(p, blobs))
  BY <1>p, <1>b DEF L!OpenList, L!Pending
<1>2. /\ FilesOK /\ ListStaged(call[s]) /\ ListTypes
      /\ (call[s].alone => ListSound(call[s]))
      /\ doubt = "none" => ListScreenOf(call[s])
      /\ doubt \in {"none", "behind", "shifted"}
  BY <1>1, ListKnown
<1> DEFINE a == L!Info(p, blobs)
<1>3. blobs \in Seq(Blob) /\ (files[p] # None => blobs = files[p]) /\ blobs # None
  BY <1>2, <1>b, NoBlobs DEF FilesOK, L!Opened
<1>4. a \in L!Infos /\ a.path = p /\ a.blobs = blobs
  BY <1>2, <1>3 DEF L!Info, L!Infos
<1>5. L!Answer(s, a)
  BY <1>1
<1> HIDE DEF a
<1>6. Fitting(call[s], a)
  BY <1>1, <1>p, <1>4, ListResults DEF Fitting
<1>7. SameTask(call'[s], call[s]) /\ call'[s].answer = a
  BY <1>1, <1>5, <1>6, ListAnswering DEF ListInv
<1>8. /\ files'[p] = blobs /\ L!IsLive(p)'
      /\ \A q \in Path \ {p} : /\ files'[q] = files[q] /\ sessions'[q] = sessions[q]
                               /\ (L!IsLive(q)' <=> L!IsLive(q))
  <2>1. files'[p] = blobs /\ sessions'[p] = "live"
    BY <1>1, <1>2 DEF FilesOK
  <2>2. \A q \in Path \ {p} : files'[q] = files[q] /\ sessions'[q] = sessions[q]
    BY <1>1, <1>2 DEF FilesOK
  <2> QED
    BY <2>1, <2>2 DEF L!IsLive
<1>9. FilesOK'
  <2>1. files' \in [Path -> Seq(Blob) \cup {None}] /\ sessions' \in [Path -> L!ListSessions \cup {None}]
    BY <1>1, <1>2, <1>3 DEF FilesOK, L!ListSessions
  <2>2. \A q \in Path : L!IsLive(q)' => files'[q] # None
    BY <1>2, <1>3, <1>8 DEF FilesOK
  <2> QED
    BY <2>1, <2>2 DEF FilesOK
<1>10. Growing
  <2>1. \A q \in Path : files[q] # None => files'[q] = files[q] /\ Len(files[q]) <= Len(files[q])
    BY <1>2, <1>3, <1>8 DEF FilesOK
  <2> QED
    BY <1>8, <2>1 DEF Growing
<1>11. ~Shifted(call[s])
  BY <1>1 DEF Shifted, Returned
<1>12. /\ \A i \in L!Infos : Precedes(i) => Precedes(i)'
       /\ ChoiceStays
       /\ doubt # "shifted" => ListFollows(s)
       /\ win.list # None /\ L!IsLive(win.list.path) /\ BlobShown => BlobShown'
  BY <1>1, <1>9, <1>10, <1>11, GrowingKeeps
<1>13. \A q \in Path : L!IsLive(q) => L!IsLive(q)' /\ files'[q] = files[q]
  BY <1>2, <1>3, <1>8 DEF FilesOK
<1>14. win.list # None => win.list.path \in Path
  BY <1>2, ListState DEF L!Infos
<1>15. ASSUME call[s].alone PROVE ListSound(call[s])'
  <2>1. call'[s].path = p /\ call'[s].req = "open" /\ call'[s].op = call[s].op
    BY <1>1, <1>p, <1>7 DEF SameTask
  <2>2. L!IsLive(call[s].path)' /\ call'[s].answer.blobs = files'[call'[s].path]
    BY <1>4, <1>7, <1>8, <2>1 DEF L!IsLive
  <2> QED
    BY <1>1, <1>2, <1>p, <1>15, <2>1, <2>2 DEF ListSound
<1>16. ASSUME doubt = "none" PROVE ListScreenOf(call[s])'
  <2>1. ListUnseen(call[s])' <=> ListUnseen(call[s])
    BY <1>1, <1>7 DEF ListUnseen, SameTask
  <2>2. ListUnseen(call[s]) => call[s].op = "add"
    BY <1>1, <1>2 DEF ListUnseen
  <2>3. ASSUME win.list # None, L!IsLive(win.list.path)
        PROVE  L!IsLive(win.list.path)' /\ files'[win.list.path] = files[win.list.path]
    <3>1. PICK q \in Path : q = win.list.path
      BY <1>14, <2>3
    <3> QED
      BY <1>1, <1>13, <2>3, <3>1 DEF L!IsLive
  <2>4. CASE ~ListUnseen(call[s])
    <3>1. ListShown
      BY <1>2, <1>16, <2>4 DEF ListScreenOf
    <3>2. ListShown'
      BY <1>1, <1>12, <2>3, <3>1 DEF ListShown
    <3> QED
      BY <2>1, <2>4, <3>2 DEF ListScreenOf
  <2>5. CASE ListUnseen(call[s])
    <3>1. L!IsLive(win.list.path) /\ BlobShown /\ call[s].op = "add" /\ call[s].alone
      BY <1>1, <1>2, <1>16, <2>2, <2>5, ListKnown DEF ListScreenOf
    <3>2. win.list # None
      BY <1>2, <3>1 DEF ListSound
    <3>3. L!IsLive(win.list.path)' /\ BlobShown'
      BY <1>12, <2>3, <3>1, <3>2
    <3> QED
      BY <2>1, <2>5, <3>3 DEF ListScreenOf
  <2> QED
    BY <2>4, <2>5
<1>17. ASSUME doubt # "shifted" PROVE Precedes(call[s].answer)'
  <2>1. Len(blobs) <= Len(blobs)
    BY <1>3
  <2>2. a.path = p /\ a.blobs = blobs /\ files'[p] # None /\ files'[p] = blobs
    BY <1>3, <1>4, <1>8
  <2> QED
    BY <1>7, <2>1, <2>2 DEF Precedes
<1>18. DoubtGrows(s)
  BY <1>1, <1>2 DEF DoubtGrows
<1> QED
  BY <1>1, <1>5, <1>6, <1>9, <1>12, <1>15, <1>16, <1>17, <1>18, ListServiceKeeps

LEMMA CreateListKeeps == ASSUME ListInv, NEW s \in Slot, L!CreateList(s) PROVE ListInv'
<1>p. PICK p \in Path : p = call[s].path
  BY ListKnown DEF L!CreateList, L!Pending
<1> DEFINE a == L!Info(p, << >>)
<1>1. /\ call[s] # None /\ call[s].req = "create" /\ call[s].answer = None /\ UNCHANGED <<win, doubt>>
      /\ files' = [files EXCEPT ![p] = << >>] /\ sessions' = [sessions EXCEPT ![p] = "live"]
      /\ L!Answer(s, a)
  BY <1>p DEF L!CreateList, L!Pending
<1>2. /\ FilesOK /\ ListStaged(call[s]) /\ ListTypes
      /\ doubt \in {"none", "behind", "shifted"}
      /\ call[s].op \in L!Shifting /\ doubt # "shifted" => call[s].alone
  BY <1>1, ListKnown
<1>3. call[s].op = "create" /\ call[s].op \in L!Shifting /\ L!Shifts(s)
  BY <1>1, <1>2 DEF ListStaged, L!Shifting, L!Shifts
<1>4. a \in L!Infos /\ a.path = p /\ a.blobs = << >>
  BY NoBlobs DEF L!Info, L!Infos
<1> HIDE DEF a
<1>5. Fitting(call[s], a)
  BY <1>1, <1>p, <1>4, ListResults DEF Fitting
<1>6. SameTask(call'[s], call[s]) /\ call'[s].answer = a /\ a # None /\ a # Error
  <2>1. "create" \in L!Calls
    BY DEF L!Calls
  <2> QED
    BY <1>1, <1>4, <1>5, <2>1, ListAnswering, ListNothing, ListResults DEF ListInv
<1>7. /\ files'[p] = << >> /\ L!IsLive(p)'
      /\ \A q \in Path \ {p} : /\ files'[q] = files[q] /\ sessions'[q] = sessions[q]
                               /\ (L!IsLive(q)' <=> L!IsLive(q))
  <2>1. files'[p] = << >> /\ sessions'[p] = "live"
    BY <1>1, <1>2 DEF FilesOK
  <2>2. \A q \in Path \ {p} : files'[q] = files[q] /\ sessions'[q] = sessions[q]
    BY <1>1, <1>2 DEF FilesOK
  <2> QED
    BY <2>1, <2>2 DEF L!IsLive
<1>8. FilesOK'
  <2>1. files' \in [Path -> Seq(Blob) \cup {None}] /\ sessions' \in [Path -> L!ListSessions \cup {None}]
    BY <1>1, <1>2, NoBlobs DEF FilesOK, L!ListSessions
  <2>2. \A q \in Path : L!IsLive(q)' => files'[q] # None
    BY <1>2, <1>7, NoBlobs DEF FilesOK
  <2> QED
    BY <2>1, <2>2 DEF FilesOK
<1>9. /\ call'[s].req = "create" /\ call'[s].op = "create" /\ call'[s].path = p
      /\ L!IsLive(call[s].path)' /\ call'[s].answer.blobs = files'[call'[s].path]
  BY <1>1, <1>p, <1>3, <1>4, <1>6, <1>7 DEF SameTask, L!IsLive
<1>10. call[s].alone => ListSound(call[s])'
  BY <1>9 DEF ListSound
<1>11. ListScreenOf(call[s])'
  BY <1>6, <1>9 DEF ListScreenOf, ListUnseen, Returned
<1>12. Shifted(call'[s])
  BY <1>6, <1>9 DEF Shifted, Returned, L!Shifting
<1>13. DoubtGrows(s)
  BY <1>1, <1>2 DEF DoubtGrows
<1>14. doubt' # "shifted" => call[s].alone
  BY <1>1, <1>2, <1>3
<1> QED
  BY <1>1, <1>3, <1>5, <1>8, <1>10, <1>11, <1>12, <1>13, <1>14, ListServiceKeeps

LEMMA CloseListKeeps == ASSUME ListInv, NEW s \in Slot, L!CloseList(s) PROVE ListInv'
<1>p. PICK p \in Path : p = call[s].path
  BY ListKnown DEF L!CloseList, L!Pending
<1>1. /\ call[s] # None /\ call[s].req = "close" /\ call[s].answer = None
      /\ UNCHANGED <<files, win, doubt>>
      /\ sessions' = [sessions EXCEPT ![p] = None] /\ L!Answer(s, "ok")
  BY <1>p DEF L!CloseList, L!Pending
<1>2. /\ FilesOK /\ ListStaged(call[s]) /\ ListTypes
      /\ doubt \in {"none", "behind", "shifted"}
      /\ (call[s].alone => ListSound(call[s]))
  BY <1>1, ListKnown
<1>3. call[s].op = "close"
  BY <1>1, <1>2 DEF ListStaged
<1>5. Fitting(call[s], "ok")
  BY <1>1, ListResults DEF Fitting
<1>6. SameTask(call'[s], call[s]) /\ call'[s].answer = "ok" /\ "ok" # None /\ "ok" # Error
  <2>1. "close" \in L!Calls
    BY DEF L!Calls
  <2> QED
    BY <1>1, <1>5, <2>1, ListAnswering, ListNothing, ListResults DEF ListInv
<1>7. /\ sessions'[p] = None
      /\ \A q \in Path \ {p} : sessions'[q] = sessions[q]
  BY <1>1, <1>2 DEF FilesOK
<1>8. \A q \in Path : L!IsLive(q)' => L!IsLive(q)
  BY <1>7, ListNothing DEF L!IsLive, L!ListSessions
<1>9. FilesOK'
  BY <1>1, <1>2, <1>8 DEF FilesOK
<1>10. Growing
  <2>1. \A q \in Path : files[q] # None => Len(files[q]) <= Len(files[q])
    BY <1>2 DEF FilesOK
  <2> QED
    BY <1>1, <2>1 DEF Growing
<1>11. ~Shifted(call[s])
  BY <1>1 DEF Shifted, Returned
<1>12. /\ \A i \in L!Infos : Precedes(i) => Precedes(i)'
       /\ ChoiceStays
       /\ doubt # "shifted" => ListFollows(s)
  BY <1>1, <1>9, <1>10, <1>11, GrowingKeeps
<1>13. ASSUME call[s].alone PROVE ListSound(call[s])'
  BY <1>1, <1>2, <1>3, <1>6, <1>13 DEF ListSound, SameTask
<1>14. ListScreenOf(call[s])'
  BY <1>1, <1>3, <1>6 DEF ListScreenOf, ListUnseen, Returned, SameTask
<1>15. DoubtGrows(s)
  BY <1>1, <1>2 DEF DoubtGrows
<1> QED
  BY <1>1, <1>5, <1>9, <1>12, <1>13, <1>14, <1>15, ListServiceKeeps

LEMMA ListAddKeeps == ASSUME ListInv, NEW s \in Slot, L!AddBlob(s) PROVE ListInv'
<1>p. PICK p \in Path : p = call[s].path
  BY ListKnown DEF L!AddBlob, L!Pending
<1>1. /\ call[s] # None /\ call[s].req = "add" /\ call[s].answer = None /\ L!IsLive(p)
      /\ UNCHANGED <<sessions, win, doubt>>
      /\ files' = [files EXCEPT ![p] = Append(files[p], call[s].blob)]
      /\ L!Answer(s, Len(files[p]))
  BY <1>p DEF L!AddBlob, L!Pending
<1>2. /\ FilesOK /\ ListStaged(call[s]) /\ ListTypes /\ IsListHandler(call[s])
      /\ doubt \in {"none", "behind", "shifted"}
      /\ (call[s].alone => ListSound(call[s]))
      /\ doubt = "none" => call[s].alone /\ ListScreenOf(call[s])
  BY <1>1, ListKnown
<1>3. call[s].op = "add" /\ call[s].blob \in Blob /\ files[p] # None /\ files[p] \in Seq(Blob)
  BY <1>1, <1>2, ListFields DEF ListStaged, FilesOK
<1>4. PICK a \in Nat : a = Len(files[p])
  BY <1>3
<1>5. Fitting(call[s], a) /\ L!Answer(s, a)
  BY <1>1, <1>4, ListResults DEF Fitting
<1>6. SameTask(call'[s], call[s]) /\ call'[s].answer = a /\ a # None /\ a # Error
  <2>1. "add" \in L!Calls
    BY DEF L!Calls
  <2> QED
    BY <1>1, <1>5, <2>1, ListAnswering, ListNothing, ListResults DEF ListInv
<1>7. PICK b \in Blob : b = call[s].blob
  BY <1>3
<1>8. /\ files'[p] = Append(files[p], b) /\ Append(files[p], b) \in Seq(Blob)
      /\ Len(Append(files[p], b)) = a + 1
      /\ \A i \in 1 .. a : Append(files[p], b)[i] = files[p][i]
      /\ \A q \in Path \ {p} : files'[q] = files[q]
  BY <1>1, <1>2, <1>3, <1>4, <1>7 DEF FilesOK
<1>9. \A q : L!IsLive(q)' <=> L!IsLive(q)
  BY <1>1 DEF L!IsLive
<1>10. FilesOK'
  <2>1. files'[p] # None
    BY <1>8, ListNothing
  <2>2. files' \in [Path -> Seq(Blob) \cup {None}]
    BY <1>1, <1>2, <1>8 DEF FilesOK
  <2> QED
    BY <1>1, <1>2, <1>8, <1>9, <2>1, <2>2 DEF FilesOK
<1>11. Growing
  <2>1. \A q \in Path \ {p} : files[q] # None => Len(files[q]) <= Len(files[q])
    BY <1>2 DEF FilesOK
  <2>2. files'[p] # None /\ Len(files[p]) <= Len(files'[p])
    <3>1. files'[p] # None
      BY <1>8, ListNothing
    <3>2. Len(files'[p]) = a + 1 /\ Len(files[p]) = a
      BY <1>4, <1>8
    <3> QED
      BY <1>4, <3>1, <3>2
  <2> QED
    BY <1>4, <1>8, <2>1, <2>2 DEF Growing
<1>12. ~Shifted(call[s])
  BY <1>1 DEF Shifted, Returned
<1>13. /\ \A i \in L!Infos : Precedes(i) => Precedes(i)'
       /\ ChoiceStays
       /\ doubt # "shifted" => ListFollows(s)
       /\ win.list # None /\ L!IsLive(win.list.path) /\ BlobShown => BlobShown'
  BY <1>1, <1>10, <1>11, <1>12, GrowingKeeps
<1>14. ASSUME call[s].alone PROVE ListSound(call[s])'
  BY <1>1, <1>2, <1>3, <1>6, <1>14 DEF ListSound, SameTask
<1>15. ASSUME doubt = "none" PROVE ListScreenOf(call[s])'
  <2>1. ~ListUnseen(call[s])
    BY <1>1 DEF ListUnseen, Returned
  <2>2. ListShown /\ win.list # None
    BY <1>2, <1>3, <1>15, <2>1 DEF ListScreenOf, ListSound
  <2>3. L!IsLive(win.list.path) /\ BlobShown
    BY <2>2 DEF ListShown
  <2>4. L!IsLive(win.list.path)' /\ BlobShown'
    BY <1>1, <1>13, <2>2, <2>3 DEF L!IsLive
  <2>5. ListUnseen(call[s])'
    BY <1>1, <1>6 DEF ListUnseen, SameTask, Returned
  <2> QED
    BY <2>4, <2>5 DEF ListScreenOf
<1>16. DoubtGrows(s)
  BY <1>1, <1>2 DEF DoubtGrows
<1> QED
  BY <1>1, <1>5, <1>10, <1>13, <1>14, <1>15, <1>16, ListServiceKeeps

\* A blob is taken out, or another one put in its place.
LEMMA RewrittenList ==
  ASSUME NEW c, NEW blobs, blobs = files[c.path], blobs \in Seq(Blob), c.index \in Nat,
         c.index + 1 \in DOMAIN blobs, c.req = "delete" \/ c.blob \in Blob
  PROVE  L!Rewritten(c) \in Seq(Blob)
<1>1. PICK i : i = c.index + 1
  OBVIOUS
<1>2. i \in 1 .. Len(blobs) /\ Len(blobs) \in Nat
  BY <1>1
<1>3. CASE c.req = "delete"
  <2>1. SubSeq(blobs, 1, i - 1) \in Seq(Blob) /\ SubSeq(blobs, i + 1, Len(blobs)) \in Seq(Blob)
    BY <1>2
  <2>2. L!RemoveAt(blobs, i) \in Seq(Blob)
    BY <2>1 DEF L!RemoveAt
  <2> QED
    BY <1>1, <1>3, <2>2 DEF L!Rewritten
<1>4. CASE c.req # "delete"
  <2>1. L!ReplaceAt(blobs, i, c.blob) \in Seq(Blob)
    BY <1>2, <1>4 DEF L!ReplaceAt
  <2> QED
    BY <1>1, <1>4, <2>1 DEF L!Rewritten
<1> QED
  BY <1>3, <1>4

LEMMA RewriteKeeps == ASSUME ListInv, NEW s \in Slot, L!Rewrite(s) PROVE ListInv'
<1>p. PICK p \in Path : p = call[s].path
  BY ListKnown DEF L!Rewrite, L!Pending
<1>r. PICK blobs : blobs = L!Rewritten(call[s])
  OBVIOUS
<1> DEFINE a == L!Info(p, blobs)
<1>1. /\ call[s] # None /\ call[s].req \in {"delete", "replace"} /\ call[s].answer = None
      /\ L!Has(call[s]) /\ UNCHANGED <<sessions, win, doubt>>
      /\ files' = [files EXCEPT ![p] = blobs]
      /\ L!Answer(s, a)
  BY <1>p, <1>r DEF L!Rewrite, L!Pending
<1>2. /\ FilesOK /\ ListStaged(call[s]) /\ ListTypes /\ IsListHandler(call[s])
      /\ doubt \in {"none", "behind", "shifted"}
      /\ (call[s].alone => ListSound(call[s]))
      /\ call[s].op \in L!Shifting /\ doubt # "shifted" => call[s].alone
  BY <1>1, ListKnown
<1>3. /\ call[s].op = call[s].req /\ call[s].op \in L!Shifting /\ L!Shifts(s)
      /\ L!IsLive(p) /\ files[p] # None /\ files[p] \in Seq(Blob)
      /\ call[s].index \in Nat /\ (call[s].req = "replace" => call[s].blob \in Blob)
      /\ call[s].index + 1 \in DOMAIN files[p]
  BY <1>1, <1>2, <1>p, ListFields DEF ListStaged, L!Shifting, L!Shifts, L!Has, FilesOK
<1>4. blobs \in Seq(Blob) /\ blobs # None
  BY <1>1, <1>3, <1>p, <1>r, RewrittenList, ListNothing
<1>5. a \in L!Infos /\ a.path = p /\ a.blobs = blobs
  BY <1>4 DEF L!Info, L!Infos
<1> HIDE DEF a
<1>6. Fitting(call[s], a)
  BY <1>1, <1>p, <1>5, ListResults DEF Fitting
<1>7. SameTask(call'[s], call[s]) /\ call'[s].answer = a /\ a # None /\ a # Error
  <2>1. "delete" \in L!Calls
    BY DEF L!Calls, L!Rewriting
  <2> QED
    BY <1>1, <1>5, <1>6, <2>1, ListAnswering, ListNothing, ListResults DEF ListInv
<1>8. \A q : L!IsLive(q)' <=> L!IsLive(q)
  BY <1>1 DEF L!IsLive
<1>9. files'[p] = blobs /\ FilesOK'
  <2>1. files'[p] = blobs /\ \A q \in Path \ {p} : files'[q] = files[q]
    BY <1>1, <1>2 DEF FilesOK
  <2>2. files' \in [Path -> Seq(Blob) \cup {None}]
    BY <1>1, <1>2, <1>4 DEF FilesOK
  <2> QED
    BY <1>1, <1>2, <1>4, <1>8, <2>1, <2>2 DEF FilesOK
<1>10. /\ call'[s].req = call[s].req /\ call'[s].op = call[s].op /\ call'[s].path = p
       /\ L!IsLive(call[s].path)' /\ call'[s].answer.blobs = files'[call'[s].path]
  BY <1>1, <1>p, <1>3, <1>5, <1>7, <1>8, <1>9 DEF SameTask, L!IsLive
<1>11. ASSUME call[s].alone PROVE ListSound(call[s])'
  BY <1>1, <1>2, <1>p, <1>3, <1>10, <1>11 DEF ListSound
<1>12. ListScreenOf(call[s])'
  BY <1>1, <1>3, <1>7, <1>10 DEF ListScreenOf, ListUnseen, Returned
<1>13. Shifted(call'[s])
  BY <1>1, <1>7, <1>10 DEF Shifted, Returned, L!Shifting
<1>14. DoubtGrows(s)
  BY <1>1, <1>2 DEF DoubtGrows
<1>15. doubt' # "shifted" => call[s].alone
  BY <1>1, <1>2, <1>3
<1> QED
  BY <1>1, <1>3, <1>6, <1>9, <1>11, <1>12, <1>13, <1>14, <1>15, ListServiceKeeps

LEMMA ListFailsLateKeeps == ASSUME ListInv, NEW s \in Slot, L!FailsLate(s) PROVE ListInv'
<1>p. PICK p \in Path : p = call[s].path
  BY ListKnown DEF L!FailsLate, L!Pending
<1>1. /\ call[s] # None /\ call[s].answer = None /\ L!Answer(s, Error) /\ win' = win
      /\ doubt = "none" /\ call[s].alone
  BY DEF L!FailsLate, L!Pending
<1>2. /\ FilesOK /\ ListStaged(call[s]) /\ ListTypes /\ IsListHandler(call[s]) /\ ListSound(call[s])
  BY <1>1, ListKnown
<1>3. Fitting(call[s], Error)
  BY DEF Fitting
<1>4. SameTask(call'[s], call[s]) /\ call'[s].answer = Error
  BY <1>1, <1>3, ListAnswering DEF ListInv
<1>5. ASSUME call[s].req # "get" PROVE ListSound(call[s])'
  BY <1>1, <1>2, <1>4, <1>5 DEF ListSound, SameTask, Returned
<1>6. ASSUME call[s].req \in {"close", "open"}, doubt' = "behind",
             NEW blobs \in Seq(Blob) \cup {None}, NEW session \in {"live", None},
             files[p] # None => blobs = files[p], session = "live" => blobs # None,
             files' = [files EXCEPT ![p] = blobs], sessions' = [sessions EXCEPT ![p] = session]
      PROVE  ListInv'
  <2>1. /\ files'[p] = blobs /\ sessions'[p] = session
        /\ \A q \in Path \ {p} : sessions'[q] = sessions[q] /\ files'[q] = files[q]
    BY <1>2, <1>6 DEF FilesOK
  <2>2. FilesOK'
    <3>1. files' \in [Path -> Seq(Blob) \cup {None}] /\ sessions' \in [Path -> L!ListSessions \cup {None}]
      BY <1>2, <1>6 DEF FilesOK, L!ListSessions
    <3>2. \A q \in Path : L!IsLive(q)' => files'[q] # None
      BY <1>2, <1>6, <2>1, ListNothing DEF FilesOK, L!IsLive, L!ListSessions
    <3> QED
      BY <3>1, <3>2 DEF FilesOK
  <2>3. Growing
    <3>1. \A q \in Path : files[q] # None => files'[q] = files[q] /\ Len(files[q]) <= Len(files[q])
      BY <1>2, <1>6, <2>1 DEF FilesOK
    <3> QED
      BY <3>1 DEF Growing
  <2>4. ~Shifted(call[s])
    BY <1>1 DEF Shifted, Returned
  <2>5. ChoiceStays /\ ListFollows(s)
    BY <1>1, <2>2, <2>3, <2>4, GrowingKeeps
  <2>6. DoubtGrows(s)
    BY <1>1, <1>6 DEF DoubtGrows
  <2> QED
    BY <1>1, <1>3, <1>5, <1>6, <2>2, <2>5, <2>6, ListServiceKeeps
<1>7. ASSUME call[s].req \in {"create", "delete", "replace"}, doubt' = "shifted",
             NEW blobs \in Seq(Blob) \cup {None}, NEW session \in L!ListSessions \cup {None},
             session = "live" => blobs # None,
             files' = [files EXCEPT ![p] = blobs], sessions' = [sessions EXCEPT ![p] = session]
      PROVE  ListInv'
  <2>1. files' \in [Path -> Seq(Blob) \cup {None}] /\ sessions' \in [Path -> L!ListSessions \cup {None}]
    BY <1>2, <1>7 DEF FilesOK
  <2>2. /\ sessions'[p] = session /\ files'[p] = blobs
        /\ \A q \in Path \ {p} : sessions'[q] = sessions[q] /\ files'[q] = files[q]
    BY <1>2, <1>7 DEF FilesOK
  <2>3. FilesOK'
    BY <1>2, <1>7, <2>1, <2>2 DEF FilesOK, L!IsLive
  <2>4. DoubtGrows(s) /\ L!Shifts(s)
    BY <1>1, <1>2, <1>7 DEF DoubtGrows, L!Shifts, L!Shifting, ListStaged
  <2> QED
    BY <1>1, <1>3, <1>5, <1>7, <2>3, <2>4, ListServiceKeeps
<1> DEFINE Put(blobs, session) ==
               files' = [files EXCEPT ![p] = blobs] /\ sessions' = [sessions EXCEPT ![p] = session]
<1>8. CASE call[s].req = "close" /\ doubt' = "behind" /\ Put(files[p], None)
  <2>1. PICK blobs \in Seq(Blob) \cup {None} : blobs = files[p]
    BY <1>2 DEF FilesOK
  <2> QED
    BY <1>6, <1>8, <2>1, ListNothing DEF L!ListSessions
<1>9. CASE /\ call[s].req = "open" /\ doubt' = "behind"
           /\ \/ \E blobs \in {files[p], L!Opened(p)} : Put(blobs, None)
              \/ Put(L!Opened(p), "live")
  <2>1. /\ L!Opened(p) \in Seq(Blob) /\ L!Opened(p) # None /\ files[p] \in Seq(Blob) \cup {None}
        /\ files[p] # None => L!Opened(p) = files[p]
    BY <1>2, NoBlobs DEF FilesOK, L!Opened
  <2>2. PICK opened : opened = L!Opened(p)
    OBVIOUS
  <2>3. CASE Put(opened, "live")
    BY <1>6, <1>9, <2>1, <2>2, <2>3
  <2>4. CASE Put(opened, None)
    BY <1>6, <1>9, <2>1, <2>2, <2>4, ListNothing
  <2>5. CASE Put(files[p], None)
    <3>1. PICK blobs \in Seq(Blob) \cup {None} : blobs = files[p]
      BY <2>1
    <3> QED
      BY <1>6, <1>9, <2>5, <3>1, ListNothing DEF L!ListSessions
  <2> QED
    BY <1>9, <2>2, <2>3, <2>4, <2>5
<1>10. CASE /\ call[s].req = "create" /\ doubt' = "shifted"
            /\ \/ \E blobs \in {files[p], << >>, None} : Put(blobs, None)
               \/ Put(<< >>, "live")
  <2>1. files[p] \in Seq(Blob) \cup {None} /\ None # "live"
    BY <1>2, ListNothing DEF FilesOK, L!ListSessions
  <2>2. CASE Put(<< >>, "live")
    BY <1>7, <1>10, <2>2, NoBlobs DEF L!ListSessions
  <2>3. ASSUME NEW blobs \in {files[p], << >>, None}, Put(blobs, None) PROVE ListInv'
    BY <1>7, <1>10, <2>1, <2>3, NoBlobs
  <2> QED
    BY <1>10, <2>2, <2>3
<1>11. CASE /\ call[s].req \in {"delete", "replace"} /\ doubt' = "shifted" /\ L!Has(call[s])
            /\ \/ \E blobs \in {files[p], L!Rewritten(call[s]), None} : Put(blobs, "lost")
               \/ \E blobs \in {L!Rewritten(call[s]), << >>} : Put(blobs, "live")
  <2>1. /\ files[p] \in Seq(Blob) /\ call[s].index \in Nat
        /\ (call[s].req = "replace" => call[s].blob \in Blob)
        /\ call[s].index + 1 \in DOMAIN files[p]
    BY <1>1, <1>2, <1>11, <1>p, ListFields DEF ListStaged, L!Has, FilesOK
  <2>2. PICK new : new = L!Rewritten(call[s])
    OBVIOUS
  <2>3. new \in Seq(Blob) /\ new # None
    BY <1>11, <1>p, <2>1, <2>2, RewrittenList, ListNothing
  <2>4. ASSUME NEW blobs \in {files[p], new, None}, Put(blobs, "lost") PROVE ListInv'
    BY <1>7, <1>11, <2>1, <2>3, <2>4 DEF L!ListSessions
  <2>5. ASSUME NEW blobs \in {new, << >>}, Put(blobs, "live") PROVE ListInv'
    BY <1>7, <1>11, <2>3, <2>5, NoBlobs DEF L!ListSessions
  <2> QED
    BY <1>11, <2>2, <2>4, <2>5
<1> QED
  BY <1>p, <1>8, <1>9, <1>10, <1>11 DEF L!FailsLate, L!Pending

\* An add breaks off: only the last blob is another one, and no choice of it is sure any more.
LEMMA AddBreaksKeeps == ASSUME ListInv, NEW s \in Slot, L!AddBreaks(s) PROVE ListInv'
<1>c. PICK c : c = call[s]
  OBVIOUS
<1>p. PICK p \in Path : p = c.path
  BY <1>c, ListKnown DEF L!AddBreaks, L!Pending
<1>n. PICK n : n = Len(files[p])
  OBVIOUS
<1> DEFINE Still(k) == k.sure /\ (k.path # p \/ k.index + 1 # n)
<1>1. /\ call[s] # None /\ c.req = "add" /\ c.answer = None /\ L!IsLive(p) /\ n \in 1 .. Room - 1
      /\ \E b \in Blob : files' = [files EXCEPT ![p] = L!ReplaceAt(files[p], n, b)]
      /\ call' = [t \in Slot |-> IF t = s THEN [c EXCEPT !.answer = Error]
                                 ELSE IF call[t] = None THEN None
                                 ELSE [call[t] EXCEPT !.sure = Still(call[t])]]
      /\ win' = IF win.confirm = None THEN win
                ELSE [win EXCEPT !.confirm.sure = Still(win.confirm)]
      /\ doubt' = "shifted" /\ UNCHANGED sessions
  BY <1>c, <1>p, <1>n DEF L!AddBreaks, L!Pending
<1>2. /\ ListTypes /\ FilesOK /\ IsListHandler(c) /\ ListStaged(c)
      /\ (c.alone => \A t \in Slot : call[t] # None => t = s)
      /\ (c.alone => ListSound(c))
  BY <1>1, <1>c, ListKnown
<1>3. c.op = "add" /\ files[p] \in Seq(Blob) /\ files[p] # None /\ n \in DOMAIN files[p] /\ n \in Nat
  BY <1>1, <1>2, <1>n DEF ListStaged, FilesOK
<1>4. /\ FilesOK'
      /\ \A q \in Path \ {p} : files'[q] = files[q]
      /\ files'[p] # None /\ DOMAIN files'[p] = DOMAIN files[p]
      /\ \A i \in DOMAIN files[p] : i # n => files'[p][i] = files[p][i]
  <2>1. PICK b \in Blob : files' = [files EXCEPT ![p] = L!ReplaceAt(files[p], n, b)]
    BY <1>1
  <2>2. PICK blobs : blobs = L!ReplaceAt(files[p], n, b)
    OBVIOUS
  <2>3. /\ blobs \in Seq(Blob) /\ DOMAIN blobs = DOMAIN files[p]
        /\ \A i \in DOMAIN files[p] : i # n => blobs[i] = files[p][i]
    BY <1>3, <2>2 DEF L!ReplaceAt
  <2>4. files'[p] = blobs /\ \A q \in Path \ {p} : files'[q] = files[q]
    BY <1>2, <2>1, <2>2 DEF FilesOK
  <2>5. files' \in [Path -> Seq(Blob) \cup {None}] /\ blobs # None
    BY <1>2, <2>1, <2>2, <2>3, ListNothing DEF FilesOK
  <2> QED
    BY <1>1, <1>2, <2>3, <2>4, <2>5 DEF FilesOK, L!IsLive
<1>5. /\ call'[s] # None /\ IsListHandler(call'[s]) /\ call'[s].answer = Error
      /\ SameTask(call'[s], c)
  <2>1. call'[s] = [c EXCEPT !.answer = Error] /\ Fitting(c, Error)
    BY <1>1 DEF Fitting
  <2>2. LET d == [c EXCEPT !.answer = Error] IN
        IsListHandler(d) /\ d.answer = Error /\ SameTask(d, c) /\ d.blob = c.blob
    BY <1>2, <2>1, HasListAnswer
  <2> QED
    BY <2>1, <2>2, ListFields
<1>6. ASSUME NEW t \in Slot \ {s}, call[t] # None
      PROVE  /\ IsListHandler(call'[t]) /\ call'[t] # None
             /\ call'[t].alone = call[t].alone /\ (call'[t].sure <=> Still(call[t]))
             /\ call'[t].op = call[t].op /\ call'[t].req = call[t].req
             /\ call'[t].path = call[t].path /\ call'[t].index = call[t].index
             /\ call'[t].seen = call[t].seen /\ call'[t].answer = call[t].answer
  <2>1. PICK k : k = call[t]
    OBVIOUS
  <2>2. IsListHandler(k) /\ k.alone \in BOOLEAN /\ k.sure \in BOOLEAN
    BY <1>2, <1>6, <2>1, ListState, ListFields
  <2>3. PICK sure \in BOOLEAN : sure = Still(k)
    BY <2>2
  <2>4. call'[t] = [k EXCEPT !.sure = sure]
    BY <1>1, <1>6, <2>1, <2>3
  <2>5. [k EXCEPT !.sure = sure] = Beside(k, k.alone, sure)
    <3>1. k = [op |-> k.op, req |-> k.req, path |-> k.path, index |-> k.index, blob |-> k.blob,
               seen |-> k.seen, sure |-> k.sure, answer |-> k.answer, alone |-> k.alone]
      BY <2>2, ListFields
    <3> QED
      BY <3>1 DEF Beside
  <2>6. LET d == Beside(k, k.alone, sure) IN
        /\ IsListHandler(d) /\ d.alone = k.alone /\ d.sure = sure
        /\ d.op = k.op /\ d.req = k.req /\ d.path = k.path /\ d.index = k.index
        /\ d.seen = k.seen /\ d.answer = k.answer
    BY <2>2, StaysListHandler
  <2> QED
    BY <2>1, <2>3, <2>4, <2>5, <2>6, ListFields
<1>7. \A t \in Slot \ {s} : call[t] = None => call'[t] = None
  BY <1>1
<1>8. /\ ListWinOK' /\ win'.busy = win.busy /\ SameMark
      /\ (win'.confirm = None <=> win.confirm = None)
      /\ win.confirm # None => /\ win'.confirm.path = win.confirm.path
                               /\ win'.confirm.index = win.confirm.index
                               /\ win'.confirm.seen = win.confirm.seen
                               /\ (win'.confirm.sure <=> Still(win.confirm))
  <2>1. CASE win.confirm = None
    BY <1>1, <1>2, <2>1 DEF ListTypes, ListWinOK, SameMark
  <2>2. CASE win.confirm # None
    <3>1. PICK k \in L!ChosenBlobs : k = win.confirm
      BY <1>2, <2>2, ListState
    <3>2. k = [path |-> k.path, index |-> k.index, seen |-> k.seen, sure |-> k.sure]
          /\ k.sure \in BOOLEAN
      BY DEF L!ChosenBlobs
    <3>3. PICK sure \in BOOLEAN : sure = Still(k)
      BY <3>2
    <3>4. PICK l : l = [k EXCEPT !.sure = sure]
      OBVIOUS
    <3>5. l \in L!ChosenBlobs /\ l.path = k.path /\ l.index = k.index /\ l.seen = k.seen /\ l.sure = sure
      BY <3>2, <3>4 DEF L!ChosenBlobs
    <3>6. win' = [win EXCEPT !.confirm = l]
      BY <1>1, <2>2, <3>1, <3>3, <3>4
    <3>7. ListWinOK' /\ win'.busy = win.busy /\ SameMark /\ win'.confirm = l
      BY <1>2, <3>5, <3>6, ListState DEF ListWinOK, SameMark
    <3> QED
      BY <2>2, <3>1, <3>3, <3>5, <3>7, ListNothing
  <2> QED
    BY <2>1, <2>2
<1>9. \A k : k.path \in Path /\ (k.path # p \/ k.index + 1 # n) /\ SeenIn(k) => SeenIn(k)'
  BY <1>3, <1>4 DEF SeenIn
<1>10. ListTypes'
  BY <1>1, <1>4, <1>5, <1>6, <1>7, <1>8 DEF ListTypes
<1>11. ListAlone'
  <2>1. ASSUME NEW t \in Slot, call'[t] # None, call'[t].alone, NEW u \in Slot, call'[u] # None
        PROVE  u = t
    <3>1. /\ call[t] # None /\ call[t].alone /\ call[u] # None
      BY <1>1, <1>c, <1>5, <1>6, <1>7, <2>1 DEF SameTask
    <3> QED
      BY <3>1 DEF ListInv, ListAlone
  <2> QED
    BY <1>1, <2>1 DEF ListAlone
<1>12. ListBusyHeld' /\ ListMarked'
  <2>1. ListBusyHeld'
    BY <1>5, <1>8, <1>1, <1>c, <1>3, <1>6 DEF ListInv, ListBusyHeld, ListHolds, SameTask
  <2>2. ASSUME Marked PROVE ListMarked'
    BY <1>8, <2>2 DEF SameMark, Marked, ListMarked
  <2>3. ASSUME NEW t \in Slot, call[t] # None, call[t].op = "select" PROVE ListMarked'
    BY <1>c, <1>3, <1>6, <2>3 DEF ListMarked
  <2> QED
    BY <2>1, <2>2, <2>3 DEF ListInv, ListMarked
<1>13. ListScreen' /\ ListBehind'
  <2>1. ASSUME NEW t \in Slot, call'[t] # None, call'[t].alone PROVE ListSound(call[t])'
    <3>1. call[t] # None /\ call[t].alone
      BY <1>1, <1>c, <1>5, <1>6, <1>7, <2>1 DEF SameTask
    <3>2. t = s /\ c.alone
      BY <1>1, <1>c, <3>1 DEF ListInv, ListAlone
    <3>3. /\ call'[t].req = "add" /\ call'[t].answer = Error /\ call'[t].op = "add"
          /\ call'[t].path = c.path
      BY <1>1, <1>3, <1>5, <3>2 DEF SameTask
    <3>4. win'.list = win.list
      BY <1>1, <1>2, ListState
    <3> QED
      BY <1>2, <1>3, <3>2, <3>3, <3>4 DEF ListSound, Returned
  <2>2. ~L!Idle'
    BY <1>5 DEF L!Idle
  <2> QED
    BY <1>1, <2>1, <2>2 DEF ListScreen, ListBehind
<1>14. ListChosen'
  <2>1. \A t \in Slot : L!Shifts(t)' <=> L!Shifts(t)
    BY <1>1, <1>c, <1>5, <1>6, <1>7 DEF L!Shifts, L!Shifting, SameTask
  <2>2. ASSUME NEW t \in Slot, call'[t] # None, call'[t].sure, Unacted(call'[t])
        PROVE  SeenIn(call[t])' /\ \A u \in Slot \ {t} : ~L!Shifts(u)'
    <3>1. t # s /\ call[t] # None
      BY <1>3, <1>5, <1>7, <2>2 DEF Unacted, SameTask
    <3>2. PICK k : k = call[t]
      OBVIOUS
    <3>3. /\ Still(k) /\ k.sure /\ Unacted(k) /\ k.path \in Path
          /\ call'[t].path = k.path /\ call'[t].index = k.index /\ call'[t].seen = k.seen
      BY <1>6, <2>2, <3>1, <3>2, ListKnown DEF Unacted
    <3>4. SeenIn(k) /\ \A u \in Slot \ {t} : ~L!Shifts(u)
      BY <3>1, <3>2, <3>3 DEF ListInv, ListChosen
    <3>5. SeenIn(k)'
      BY <1>9, <3>3, <3>4
    <3> QED
      BY <2>1, <3>3, <3>4, <3>5 DEF SeenIn
  <2>3. ASSUME win'.confirm # None, win'.confirm.sure
        PROVE  SeenIn(win.confirm)' /\ \A t \in Slot : ~L!Shifts(t)'
    <3>1. PICK k \in L!ChosenBlobs : k = win.confirm
      BY <1>2, <1>8, <2>3, ListState
    <3>2. /\ Still(k) /\ k.sure /\ k.path \in Path /\ win.confirm # None
          /\ win'.confirm.path = k.path /\ win'.confirm.index = k.index /\ win'.confirm.seen = k.seen
      BY <1>8, <2>3, <3>1 DEF L!ChosenBlobs
    <3>3. SeenIn(k) /\ \A t \in Slot : ~L!Shifts(t)
      BY <3>1, <3>2 DEF ListInv, ListChosen
    <3>4. SeenIn(k)'
      BY <1>9, <3>2, <3>3
    <3> QED
      BY <2>1, <3>2, <3>3, <3>4 DEF SeenIn
  <2> QED
    BY <2>2, <2>3 DEF ListChosen
<1> QED
  BY <1>10, <1>11, <1>12, <1>13, <1>14 DEF ListInv

LEMMA ListServiceIsSafe == ASSUME ListInv, NEW s \in Slot, L!Service(s) PROVE ListInv'
  BY OpenListKeeps, CreateListKeeps, CloseListKeeps, GetBlobKeeps, ListAddKeeps, ExportBlobKeeps,
     RewriteKeeps, PickListFileKeeps, AddBreaksKeeps, ListFailsKeeps, ListFailsLateKeeps DEF L!Service

-----------------------------------------------------------------------------
(* The user and the lists                                                  *)

LEMMA BesideOnly ==
  ASSUME NEW c, IsListHandler(c), NEW alone
  PROVE  [c EXCEPT !.alone = alone] = Beside(c, alone, c.sure)
<1>1. c = [op |-> c.op, req |-> c.req, path |-> c.path, index |-> c.index, blob |-> c.blob,
           seen |-> c.seen, sure |-> c.sure, answer |-> c.answer, alone |-> c.alone]
  BY ListFields
<1> QED
  BY <1>1 DEF Beside

\* A handler begins.
LEMMA ListHandlerBegins ==
  ASSUME ListInv, NEW s \in Slot, NEW c, IsListHandler(c), c.answer = None, L!Begin(s, c),
         c.req = "get" => c.op = "select", c.op = "add" => c.req = "add",
         c.op \in {"close", "select", "refresh", "add", "export", "replace"} =>
             win.list # None /\ c.path = win.list.path,
         ListWinOK', win'.list = win.list, win'.blob = win.blob,
         win'.selected = win.selected \/ (c.op = "select" /\ win.list # None),
         win'.busy => ListHolds(c) \/ win.busy,
         win'.confirm = None \/ (win'.confirm = win.confirm /\ c.op \notin L!Shifting),
         c.sure /\ Unacted(c) => SeenIn(c) /\ \A t \in Slot : ~L!Shifts(t)
  PROVE  ListInv'
<1> DEFINE others == {t \in Slot : call[t] # None}
           shifts == c.op \in L!Shifting \/ \E t \in others : L!Shifts(t)
           Next1(t) == Beside(call[t], FALSE, call[t].sure /\ c.op \notin L!Shifting)
<1>t. ListTypes /\ FilesOK /\ doubt \in {"none", "behind", "shifted"}
  BY ListState DEF ListInv
<1>1. /\ call[s] = None /\ UNCHANGED <<files, sessions>>
      /\ call' = [t \in Slot |-> IF t = s THEN [c EXCEPT !.alone = (others = {})]
                                 ELSE IF t \in others THEN Next1(t) ELSE None]
      /\ doubt' = (IF others = {} \/ doubt = "shifted" THEN doubt
                   ELSE IF shifts THEN "shifted" ELSE "behind")
      /\ others = {} \/ doubt = "none"
  BY DEF L!Begin, Beside
<1>2. PICK alone \in BOOLEAN : alone = (others = {})
  OBVIOUS
<1> HIDE DEF others, shifts
<1>3. PICK d : d = Beside(c, alone, c.sure)
  OBVIOUS
<1>4. /\ IsListHandler(d) /\ d # None /\ d.alone = alone /\ d.sure = c.sure
      /\ d.op = c.op /\ d.req = c.req /\ d.path = c.path /\ d.index = c.index
      /\ d.seen = c.seen /\ d.answer = None
  <2>1. c.sure \in BOOLEAN
    BY ListFields
  <2>2. LET e == Beside(c, alone, c.sure) IN
        /\ IsListHandler(e) /\ e.alone = alone /\ e.sure = c.sure
        /\ e.op = c.op /\ e.req = c.req /\ e.path = c.path /\ e.index = c.index
        /\ e.seen = c.seen /\ e.answer = c.answer
    BY <2>1, StaysListHandler
  <2> QED
    BY <1>3, <2>2, ListFields
<1>5. ASSUME NEW t \in others
      PROVE  /\ t \in Slot /\ call[t] # None /\ t # s
             /\ IsListHandler(call'[t]) /\ call'[t] # None /\ call'[t].alone = FALSE
             /\ (call'[t].sure <=> call[t].sure /\ c.op \notin L!Shifting)
             /\ call'[t].op = call[t].op /\ call'[t].req = call[t].req
             /\ call'[t].path = call[t].path /\ call'[t].index = call[t].index
             /\ call'[t].seen = call[t].seen /\ call'[t].answer = call[t].answer
  <2>1. t \in Slot /\ call[t] # None /\ t # s
    BY <1>1 DEF others
  <2>2. PICK b : b = call[t]
    OBVIOUS
  <2>3. PICK sure \in BOOLEAN : sure = (b.sure /\ c.op \notin L!Shifting)
    OBVIOUS
  <2>4. IsListHandler(b)
    BY <1>t, <2>1, <2>2, ListState
  <2>5. PICK e : e = Beside(b, FALSE, sure)
    OBVIOUS
  <2>6. /\ IsListHandler(e) /\ e.alone = FALSE /\ e.sure = sure
        /\ e.op = b.op /\ e.req = b.req /\ e.path = b.path /\ e.index = b.index
        /\ e.seen = b.seen /\ e.answer = b.answer
    <3>1. LET f == Beside(b, FALSE, sure) IN
          /\ IsListHandler(f) /\ f.alone = FALSE /\ f.sure = sure
          /\ f.op = b.op /\ f.req = b.req /\ f.path = b.path /\ f.index = b.index
          /\ f.seen = b.seen /\ f.answer = b.answer
      BY <2>4, StaysListHandler
    <3> QED
      BY <2>5, <3>1
  <2>7. call'[t] = e
    <3>1. call'[t] = Next1(t)
      BY <1>1, <2>1
    <3> QED
      BY <2>2, <2>3, <2>5, <3>1 DEF Beside
  <2>8. e # None
    BY <2>6, ListFields
  <2> QED
    BY <2>1, <2>2, <2>3, <2>6, <2>7, <2>8
<1> HIDE DEF Next1
<1>6. call'[s] = d /\ s \notin others
  <2>1. [c EXCEPT !.alone = (others = {})] = Beside(c, (others = {}), c.sure)
    BY BesideOnly
  <2> QED
    BY <1>1, <1>2, <1>3, <2>1 DEF others
<1>7. /\ \A t \in Slot \ {s} : call'[t] # None => t \in others
      /\ \A t \in Slot \ {s} : t \notin others => call'[t] = None
  BY <1>1
<1>8. ListTypes'
  <2>1. call' = [t \in Slot |-> call'[t]]
    BY <1>1
  <2>2. doubt' \in {"none", "behind", "shifted"}
    BY <1>1, <1>t
  <2>3. \A t \in Slot : call'[t] # None => IsListHandler(call'[t])
    BY <1>4, <1>5, <1>6, <1>7
  <2>4. FilesOK'
    BY <1>1, <1>t DEF FilesOK, L!IsLive
  <2> QED
    BY <2>1, <2>2, <2>3, <2>4 DEF ListTypes
<1>9. ASSUME others # {}
      PROVE  /\ doubt = "none" /\ doubt' # "none" /\ alone = FALSE
             /\ (shifts => doubt' = "shifted") /\ (~shifts => doubt' = "behind")
  BY <1>1, <1>2, <1>9
<1>10. ListAlone'
  <2>1. ASSUME NEW t \in Slot, call'[t] # None
        PROVE  IF call'[t].alone THEN \A u \in Slot : call'[u] # None => u = t
               ELSE doubt' # "none" /\ (call'[t].op \in L!Shifting => doubt' = "shifted")
    <3>1. CASE t = s /\ others = {}
      BY <1>2, <1>4, <1>6, <1>7, <3>1
    <3>2. CASE t = s /\ others # {}
      <4>1. c.op \in L!Shifting => shifts
        BY DEF shifts
      <4> QED
        BY <1>4, <1>6, <1>9, <3>2, <4>1
    <3>3. CASE t # s
      <4>1. t \in others /\ others # {}
        BY <1>7, <2>1, <3>3
      <4>2. call[t].op \in L!Shifting => shifts
        BY <1>5, <4>1 DEF shifts, L!Shifts
      <4> QED
        BY <1>5, <1>9, <4>1, <4>2
    <3> QED
      BY <3>1, <3>2, <3>3
  <2> QED
    BY <2>1 DEF ListAlone
<1>11. ListBusyHeld'
  <2>1. ListHolds(c) => ListHolds(call'[s]) /\ call'[s] # None
    BY <1>4, <1>6 DEF ListHolds
  <2>2. ASSUME win.busy PROVE \E t \in others : ListHolds(call[t])
    BY <2>2 DEF ListInv, ListBusyHeld, others
  <2>3. \A t \in others : ListHolds(call[t]) => ListHolds(call'[t]) /\ call'[t] # None
    BY <1>5, <1>7 DEF ListHolds
  <2>4. \A t \in others : t \in Slot
    BY <1>5
  <2> QED
    BY <2>1, <2>2, <2>3, <2>4 DEF ListBusyHeld
<1>12. ListMarked'
  <2>1. CASE c.op = "select"
    BY <1>4, <1>6, <2>1 DEF ListMarked
  <2>2. CASE c.op # "select" /\ Marked
    <3>1. Marked'
      BY <2>2 DEF Marked
    <3> QED
      BY <3>1 DEF ListMarked
  <2>3. ASSUME NEW t \in Slot, call[t] # None, call[t].op = "select" PROVE ListMarked'
    <3>1. t \in others
      BY <2>3 DEF others
    <3> QED
      BY <1>5, <1>7, <2>3, <3>1 DEF ListMarked
  <2> QED
    BY <2>1, <2>2, <2>3 DEF ListInv, ListMarked
<1>13. ListScreen'
  <2>1. ~L!Idle'
    BY <1>4, <1>6 DEF L!Idle
  <2>2. ASSUME others = {} PROVE ListSound(call[s])'
    BY <1>4, <1>6 DEF ListSound, Returned
  <2>3. ASSUME doubt' = "none" PROVE ListScreenOf(call[s])'
    <3>1. others = {} /\ doubt = "none"
      BY <1>1, <1>9, <2>3
    <3>2. L!Idle
      BY <3>1 DEF L!Idle, others
    <3>3. ListShown
      BY <3>1, <3>2 DEF ListInv, ListScreen
    <3>4. BlobShown' <=> BlobShown
      BY <1>1 DEF BlobShown
    <3>5. ListShown'
      BY <1>1, <3>3, <3>4 DEF ListShown, L!IsLive
    <3>6. ~ListUnseen(call[s])'
      <4>1. /\ call'[s].op = c.op /\ call'[s].req = c.req /\ call'[s].answer = None
            /\ ListStaged(call'[s])
        BY <1>4, <1>6, ListFields
      <4> QED
        BY <4>1 DEF ListUnseen, Returned
    <3> QED
      BY <3>5, <3>6 DEF ListScreenOf
  <2>4. ASSUME NEW t \in Slot, call'[t] # None
        PROVE  (call'[t].alone => ListSound(call[t])') /\ (doubt' = "none" => ListScreenOf(call[t])')
    <3>1. CASE t = s
      BY <1>2, <1>4, <1>6, <2>2, <2>3, <3>1
    <3>2. CASE t # s
      <4>1. t \in others
        BY <1>7, <2>4, <3>2
      <4> QED
        BY <1>5, <1>9, <4>1
    <3> QED
      BY <3>1, <3>2
  <2> QED
    BY <2>1, <2>4 DEF ListScreen
<1>14. ListBehind'
  <2>1. SUFFICES ASSUME doubt' # "shifted" PROVE ListBehind'
    BY DEF ListBehind
  <2>2. doubt # "shifted"
    BY <1>1, <1>9, <2>1
  <2>4. ASSUME win'.list # None, \A t \in Slot : call'[t] # None => ~Shifted(call'[t])
        PROVE  Precedes(win.list)'
    <3>1. ASSUME NEW t \in Slot, call[t] # None PROVE ~Shifted(call[t])
      <4>1. t \in others
        BY <3>1 DEF others
      <4>2. ~Shifted(call'[t]) /\ call'[t].req = call[t].req /\ call'[t].answer = call[t].answer
        BY <1>5, <1>7, <2>4, <4>1
      <4> QED
        BY <4>2 DEF Shifted, Returned
    <3>2. Precedes(win.list)
      BY <2>2, <2>4, <3>1 DEF ListInv, ListBehind
    <3> QED
      BY <1>1, <3>2 DEF Precedes
  <2>5. ASSUME NEW t \in Slot, call'[t] # None, ~call'[t].alone, call'[t].req = "open", Returned(call'[t])
        PROVE  Precedes(call[t].answer)'
    <3>1. t # s
      BY <1>4, <1>6, <2>5 DEF Returned
    <3>2. t \in others /\ others # {}
      BY <1>7, <2>5, <3>1
    <3>3. /\ call[t] # None /\ call[t].req = "open" /\ Returned(call[t]) /\ call'[t].answer = call[t].answer
          /\ call[t].alone
      <4>1. doubt = "none"
        BY <1>9, <3>2
      <4> QED
        BY <1>5, <2>5, <3>2, <4>1, ListKnown DEF Returned
    <3>4. /\ ListSound(call[t]) /\ ListTold(call[t]) /\ call[t].answer \in L!Infos
          /\ call[t].path \in Path
      BY <1>9, <3>2, <3>3, ListKnown, ListResults
    <3>5. L!IsLive(call[t].path) /\ call[t].answer.blobs = files[call[t].path]
          /\ call[t].answer.path = call[t].path
      BY <3>3, <3>4 DEF ListSound, ListTold
    <3>6. files[call[t].path] \in Seq(Blob) /\ files[call[t].path] # None
      BY <1>t, <3>4, <3>5 DEF FilesOK
    <3>7. Precedes(call[t].answer)
      BY <3>5, <3>6 DEF Precedes
    <3> QED
      BY <1>1, <3>3, <3>7 DEF Precedes
  <2> QED
    BY <2>4, <2>5 DEF ListBehind
<1>15. ListChosen'
  <2>0. /\ \A t \in others : L!Shifts(t)' <=> L!Shifts(t)
        /\ \A t \in Slot \ {s} : t \notin others => ~L!Shifts(t)'
        /\ L!Shifts(s)' <=> c.op \in L!Shifting
    BY <1>4, <1>5, <1>6, <1>7 DEF L!Shifts
  <2>1. ASSUME NEW t \in Slot, call'[t] # None, call'[t].sure, Unacted(call'[t])
        PROVE  SeenIn(call[t])' /\ \A u \in Slot \ {t} : ~L!Shifts(u)'
    <3>1. CASE t = s
      <4>1. c.sure /\ Unacted(c)
        BY <1>4, <1>6, <2>1, <3>1 DEF Unacted
      <4>2. SeenIn(call[t])'
        BY <1>1, <1>4, <1>6, <3>1, <4>1 DEF SeenIn
      <4> QED
        BY <1>5, <2>0, <3>1, <4>1, <4>2
    <3>2. CASE t # s
      <4>1. /\ t \in others /\ call[t] # None /\ call[t].sure /\ c.op \notin L!Shifting
            /\ Unacted(call[t]) /\ call'[t].path = call[t].path /\ call'[t].index = call[t].index
            /\ call'[t].seen = call[t].seen
        BY <1>5, <1>7, <2>1, <3>2 DEF Unacted
      <4>2. SeenIn(call[t]) /\ \A u \in Slot \ {t} : ~L!Shifts(u)
        BY <4>1 DEF ListInv, ListChosen
      <4>3. SeenIn(call[t])'
        BY <1>1, <4>1, <4>2 DEF SeenIn
      <4> QED
        BY <1>5, <2>0, <4>1, <4>2, <4>3
    <3> QED
      BY <3>1, <3>2
  <2>2. ASSUME win'.confirm # None, win'.confirm.sure
        PROVE  SeenIn(win.confirm)' /\ \A t \in Slot : ~L!Shifts(t)'
    <3>1. SeenIn(win.confirm) /\ \A t \in Slot : ~L!Shifts(t)
      BY <2>2 DEF ListInv, ListChosen
    <3>2. SeenIn(win.confirm)'
      BY <1>1, <2>2, <3>1 DEF SeenIn
    <3> QED
      BY <1>5, <2>0, <2>2, <3>1, <3>2
  <2> QED
    BY <2>1, <2>2 DEF ListChosen
<1> QED
  BY <1>8, <1>10, <1>11, <1>12, <1>13, <1>14, <1>15 DEF ListInv

-----------------------------------------------------------------------------
(* The actions of the user in the list window                              *)

\* A handler that has only begun.
Fresh(op, req, path, index, blob, seen, sure) ==
    [op |-> op, req |-> req, path |-> path, index |-> index, blob |-> blob,
     seen |-> seen, sure |-> sure, answer |-> None, alone |-> TRUE]

LEMMA FreshHandler ==
  ASSUME NEW c, c = Fresh(c.op, c.req, c.path, c.index, c.blob, c.seen, c.sure),
         c.op \in ListOps, c.req \in L!Calls, c.path \in Path, c.index \in Nat \cup {None},
         c.blob \in Blob \cup {None}, c.seen \in Blob \cup {None}, c.sure \in BOOLEAN,
         ListStaged(c)
  PROVE  IsListHandler(c) /\ c.answer = None
<1>1. c.answer = None /\ c.alone = TRUE
  BY DEF Fresh
<1>2. c = [op |-> c.op, req |-> c.req, path |-> c.path, index |-> c.index, blob |-> c.blob,
           seen |-> c.seen, sure |-> c.sure, answer |-> c.answer, alone |-> c.alone]
  BY <1>1 DEF Fresh
<1>3. ListTold(c)
  BY <1>1 DEF ListTold, Returned
<1>4. c.answer \in L!Results(c.req) \cup {None, Error} /\ c.alone \in BOOLEAN
  BY <1>1
<1> QED
  BY <1>1, <1>2, <1>3, <1>4, MakesListHandler

\* The window with other fields.
LEMMA ListWinMade ==
  ASSUME ListTypes, win' = [list |-> win.list, selected |-> win'.selected, blob |-> win.blob,
                            busy |-> win'.busy, confirm |-> win'.confirm],
         win'.selected \in Nat \cup {None}, win'.busy \in BOOLEAN,
         win'.confirm \in L!ChosenBlobs \cup {None}
  PROVE  ListWinOK' /\ win'.list = win.list /\ win'.blob = win.blob
<1>1. win.list \in L!Infos \cup {None} /\ win.blob \in L!Contents \cup {None}
  BY ListState
<1> QED
  BY <1>1 DEF ListWinOK

LEMMA BusyList ==
  ASSUME ListTypes, NEW b \in BOOLEAN, L!Busy(b)
  PROVE  /\ ListWinOK' /\ win'.list = win.list /\ win'.selected = win.selected
         /\ win'.blob = win.blob /\ win'.busy = b /\ win'.confirm = win.confirm
<1>1. /\ win' = [list |-> win.list, selected |-> win.selected, blob |-> win.blob,
                 busy |-> b, confirm |-> win.confirm]
      /\ win.list \in L!Infos \cup {None} /\ win.selected \in Nat \cup {None}
      /\ win.blob \in L!Contents \cup {None} /\ win.confirm \in L!ChosenBlobs \cup {None}
  BY ListState DEF L!Busy
<1> QED
  BY <1>1 DEF ListWinOK

LEMMA ListPath ==
  ASSUME ListTypes, win.list # None
  PROVE  win.list.path \in Path /\ win.list.blobs \in Seq(Blob)
  BY ListState DEF L!Infos

LEMMA OpenListPathKeeps ==
  ASSUME ListInv, NEW s \in Slot, NEW p \in Path, L!OpenListPath(s, p) PROVE ListInv'
<1>1. ListTypes
  BY DEF ListInv
<1>2. PICK c : c = L!Handler("open", "open", p)
  OBVIOUS
<1>3. c = Fresh("open", "open", p, None, None, None, FALSE)
  BY <1>2 DEF L!Handler, Fresh
<1>4. /\ c.op = "open" /\ c.req = "open" /\ c.path = p /\ c.index = None /\ c.blob = None /\ c.seen = None
      /\ c.sure = FALSE
  BY <1>3 DEF Fresh
<1>f. c = Fresh(c.op, c.req, c.path, c.index, c.blob, c.seen, c.sure)
  BY <1>3, <1>4
<1>5. ListStaged(c)
  BY <1>4 DEF ListStaged
<1>g. /\ c.op \in ListOps /\ c.req \in L!Calls /\ c.path \in Path /\ c.index \in Nat \cup {None}
      /\ c.blob \in Blob \cup {None} /\ c.seen \in Blob \cup {None} /\ c.sure \in BOOLEAN
  BY <1>1, <1>4 DEF ListOps, L!Calls
<1>6. IsListHandler(c) /\ c.answer = None
  BY <1>5, <1>f, <1>g, FreshHandler
<1>7. /\ ListWinOK' /\ win'.list = win.list /\ win'.selected = win.selected
      /\ win'.blob = win.blob /\ win'.busy = TRUE /\ win'.confirm = win.confirm
  BY <1>1, BusyList DEF L!OpenListPath
<1>8. L!Begin(s, c)
  BY <1>2 DEF L!OpenListPath
<1> QED
  BY <1>4, <1>6, <1>7, <1>8, ListHandlerBegins DEF ListHolds, L!Shifting

LEMMA SubmitCreateListKeeps ==
  ASSUME ListInv, NEW s \in Slot, NEW p \in Path, L!SubmitCreateList(s, p) PROVE ListInv'
<1>1. ListTypes
  BY DEF ListInv
<1>2. PICK c : c = L!Handler("create", "create", p)
  OBVIOUS
<1>3. c = Fresh("create", "create", p, None, None, None, FALSE)
  BY <1>2 DEF L!Handler, Fresh
<1>4. /\ c.op = "create" /\ c.req = "create" /\ c.path = p /\ c.index = None /\ c.blob = None /\ c.seen = None
      /\ c.sure = FALSE
  BY <1>3 DEF Fresh
<1>f. c = Fresh(c.op, c.req, c.path, c.index, c.blob, c.seen, c.sure)
  BY <1>3, <1>4
<1>5. ListStaged(c)
  BY <1>4 DEF ListStaged
<1>g. /\ c.op \in ListOps /\ c.req \in L!Calls /\ c.path \in Path /\ c.index \in Nat \cup {None}
      /\ c.blob \in Blob \cup {None} /\ c.seen \in Blob \cup {None} /\ c.sure \in BOOLEAN
  BY <1>1, <1>4 DEF ListOps, L!Calls
<1>6. IsListHandler(c) /\ c.answer = None
  BY <1>5, <1>f, <1>g, FreshHandler
<1>7. /\ ListWinOK' /\ win'.list = win.list /\ win'.selected = win.selected
      /\ win'.blob = win.blob /\ win'.busy = TRUE /\ win'.confirm = win.confirm
  BY <1>1, BusyList DEF L!SubmitCreateList
<1>8. L!Begin(s, c) /\ win'.confirm = None
  BY <1>2, <1>7 DEF L!SubmitCreateList, L!Uncovered
<1> QED
  BY <1>4, <1>6, <1>7, <1>8, ListHandlerBegins DEF ListHolds

LEMMA CloseCurrentListKeeps ==
  ASSUME ListInv, NEW s \in Slot, L!CloseCurrent(s) PROVE ListInv'
<1>1. ListTypes /\ win.list # None /\ win' = win
  BY DEF ListInv, L!CloseCurrent, L!Listed
<1>0. PICK p \in Path : p = win.list.path
  BY <1>1, ListPath
<1>2. PICK c : c = L!Handler("close", "close", p)
  OBVIOUS
<1>3. c = Fresh("close", "close", p, None, None, None, FALSE)
  BY <1>2 DEF L!Handler, Fresh
<1>4. /\ c.op = "close" /\ c.req = "close" /\ c.path = p /\ c.index = None /\ c.blob = None /\ c.seen = None
      /\ c.sure = FALSE
  BY <1>3 DEF Fresh
<1>f. c = Fresh(c.op, c.req, c.path, c.index, c.blob, c.seen, c.sure)
  BY <1>3, <1>4
<1>5. ListStaged(c)
  BY <1>4 DEF ListStaged
<1>g. /\ c.op \in ListOps /\ c.req \in L!Calls /\ c.path \in Path /\ c.index \in Nat \cup {None}
      /\ c.blob \in Blob \cup {None} /\ c.seen \in Blob \cup {None} /\ c.sure \in BOOLEAN
  BY <1>1, <1>4 DEF ListOps, L!Calls
<1>6. IsListHandler(c) /\ c.answer = None
  BY <1>5, <1>f, <1>g, FreshHandler
<1>7. ListWinOK'
  BY <1>1, ListState DEF ListWinOK
<1>8. L!Begin(s, c)
  BY <1>0, <1>2 DEF L!CloseCurrent
<1> QED
  BY <1>0, <1>1, <1>4, <1>6, <1>7, <1>8, ListHandlerBegins DEF L!Shifting

LEMMA SelectBlobKeeps ==
  ASSUME ListInv, NEW s \in Slot, NEW index \in L!Indices, L!SelectBlob(s, index) PROVE ListInv'
<1>1. /\ ListTypes /\ win.list # None /\ index \in Nat
      /\ win' = [win EXCEPT !.selected = index, !.busy = TRUE] /\ win.confirm = None
  BY DEF ListInv, L!SelectBlob, L!Indices, L!Listed, L!Uncovered
<1>0. PICK p \in Path : p = win.list.path
  BY <1>1, ListPath
<1>2. PICK c : c = [L!Handler("select", "get", p) EXCEPT !.index = index]
  OBVIOUS
<1>3. c = Fresh("select", "get", p, index, None, None, FALSE)
  BY <1>2 DEF L!Handler, Fresh
<1>4. /\ c.op = "select" /\ c.req = "get" /\ c.path = p /\ c.index = index /\ c.blob = None /\ c.seen = None
      /\ c.sure = FALSE
  BY <1>3 DEF Fresh
<1>f. c = Fresh(c.op, c.req, c.path, c.index, c.blob, c.seen, c.sure)
  BY <1>3, <1>4
<1>5. ListStaged(c)
  BY <1>1, <1>4, ListNothing DEF ListStaged
<1>g. /\ c.op \in ListOps /\ c.req \in L!Calls /\ c.path \in Path /\ c.index \in Nat \cup {None}
      /\ c.blob \in Blob \cup {None} /\ c.seen \in Blob \cup {None} /\ c.sure \in BOOLEAN
  BY <1>1, <1>4 DEF ListOps, L!Calls
<1>6. IsListHandler(c) /\ c.answer = None
  BY <1>5, <1>f, <1>g, FreshHandler
<1>7. /\ win' = [list |-> win.list, selected |-> win'.selected, blob |-> win.blob,
                 busy |-> win'.busy, confirm |-> win'.confirm]
      /\ win'.selected = index /\ win'.busy = TRUE /\ win'.confirm = None
  BY <1>1, ListState
<1>8. ListWinOK' /\ win'.list = win.list /\ win'.blob = win.blob
  BY <1>1, <1>7, ListWinMade
<1>9. L!Begin(s, c)
  BY <1>0, <1>2 DEF L!SelectBlob
<1> QED
  BY <1>0, <1>1, <1>4, <1>6, <1>7, <1>8, <1>9, ListHandlerBegins DEF ListHolds

LEMMA RefreshListKeeps ==
  ASSUME ListInv, NEW s \in Slot, L!RefreshList(s) PROVE ListInv'
<1>1. ListTypes /\ win.list # None
  BY DEF ListInv, L!RefreshList, L!Listed
<1>0. PICK p \in Path : p = win.list.path
  BY <1>1, ListPath
<1>a. PICK index \in Nat \cup {None} : index = win.selected
  BY <1>1, ListState
<1>2. PICK c : c = [L!Handler("refresh", "open", p) EXCEPT !.index = index]
  OBVIOUS
<1>3. c = Fresh("refresh", "open", p, index, None, None, FALSE)
  BY <1>2 DEF L!Handler, Fresh
<1>4. /\ c.op = "refresh" /\ c.req = "open" /\ c.path = p /\ c.index = index /\ c.blob = None /\ c.seen = None
      /\ c.sure = FALSE
  BY <1>3 DEF Fresh
<1>f. c = Fresh(c.op, c.req, c.path, c.index, c.blob, c.seen, c.sure)
  BY <1>3, <1>4
<1>5. ListStaged(c)
  BY <1>4 DEF ListStaged
<1>g. /\ c.op \in ListOps /\ c.req \in L!Calls /\ c.path \in Path /\ c.index \in Nat \cup {None}
      /\ c.blob \in Blob \cup {None} /\ c.seen \in Blob \cup {None} /\ c.sure \in BOOLEAN
  BY <1>1, <1>4 DEF ListOps, L!Calls
<1>6. IsListHandler(c) /\ c.answer = None
  BY <1>5, <1>f, <1>g, FreshHandler
<1>7. /\ ListWinOK' /\ win'.list = win.list /\ win'.selected = win.selected
      /\ win'.blob = win.blob /\ win'.busy = TRUE /\ win'.confirm = win.confirm
  BY <1>1, BusyList DEF L!RefreshList
<1>8. L!Begin(s, c)
  BY <1>0, <1>a, <1>2 DEF L!RefreshList
<1> QED
  BY <1>0, <1>1, <1>4, <1>6, <1>7, <1>8, ListHandlerBegins DEF ListHolds, L!Shifting

LEMMA AddBlobPathsKeeps ==
  ASSUME ListInv, NEW s \in Slot, NEW b \in Blob, L!AddBlobPaths(s, b) PROVE ListInv'
<1>1. ListTypes /\ win.list # None
  BY DEF ListInv, L!AddBlobPaths, L!Listed
<1>0. PICK p \in Path : p = win.list.path
  BY <1>1, ListPath
<1>2. PICK c : c = [L!Handler("add", "add", p) EXCEPT !.blob = b]
  OBVIOUS
<1>3. c = Fresh("add", "add", p, None, b, None, FALSE)
  BY <1>2 DEF L!Handler, Fresh
<1>4. /\ c.op = "add" /\ c.req = "add" /\ c.path = p /\ c.index = None /\ c.blob = b /\ c.seen = None
      /\ c.sure = FALSE
  BY <1>3 DEF Fresh
<1>f. c = Fresh(c.op, c.req, c.path, c.index, c.blob, c.seen, c.sure)
  BY <1>3, <1>4
<1>5. ListStaged(c)
  BY <1>4, ListNothing DEF ListStaged
<1>g. /\ c.op \in ListOps /\ c.req \in L!Calls /\ c.path \in Path /\ c.index \in Nat \cup {None}
      /\ c.blob \in Blob \cup {None} /\ c.seen \in Blob \cup {None} /\ c.sure \in BOOLEAN
  BY <1>1, <1>4 DEF ListOps, L!Calls
<1>6. IsListHandler(c) /\ c.answer = None
  BY <1>5, <1>f, <1>g, FreshHandler
<1>7. /\ ListWinOK' /\ win'.list = win.list /\ win'.selected = win.selected
      /\ win'.blob = win.blob /\ win'.busy = TRUE /\ win'.confirm = win.confirm
  BY <1>1, BusyList DEF L!AddBlobPaths
<1>8. L!Begin(s, c)
  BY <1>0, <1>2 DEF L!AddBlobPaths
<1> QED
  BY <1>0, <1>1, <1>4, <1>6, <1>7, <1>8, ListHandlerBegins DEF ListHolds, L!Shifting

\* What a list shows that is not shifted and that nothing shifts is so.
LEMMA ChosenIsSeen ==
  ASSUME ListInv, NEW index \in L!Indices, NEW k, k = L!Chosen(index)
  PROVE  /\ k \in L!ChosenBlobs /\ k.path = win.list.path /\ win.list # None
         /\ k.sure => SeenIn(k) /\ \A t \in Slot : ~L!Shifts(t)
<1>1. ListTypes /\ win.list # None /\ index \in 0 .. Len(win.list.blobs) - 1
  BY DEF ListInv, L!Indices, L!Listed
<1>2. PICK blobs \in Seq(Blob) : blobs = win.list.blobs
  BY <1>1, ListPath
<1>3. index \in Nat /\ index + 1 \in 1 .. Len(blobs) /\ DOMAIN blobs = 1 .. Len(blobs)
  BY <1>1, <1>2
<1>4. blobs[index + 1] \in Blob
  BY <1>3
<1>5. PICK sure \in BOOLEAN : sure = (doubt # "shifted" /\ ~\E t \in Slot : L!Shifts(t))
  OBVIOUS
<1>6. PICK p \in Path : p = win.list.path
  BY <1>1, ListPath
<1>7. k = [path |-> p, index |-> index, seen |-> blobs[index + 1], sure |-> sure]
  BY <1>2, <1>5, <1>6 DEF L!Chosen
<1>8. k \in L!ChosenBlobs
  BY <1>3, <1>4, <1>7 DEF L!ChosenBlobs
<1>9. ASSUME k.sure PROVE SeenIn(k) /\ \A t \in Slot : ~L!Shifts(t)
  <2>0. k.sure = sure
    BY <1>7
  <2>1. doubt # "shifted" /\ \A t \in Slot : ~L!Shifts(t)
    BY <1>5, <1>9, <2>0
  <2>2. ASSUME NEW t \in Slot, call[t] # None PROVE ~Shifted(call[t])
    <3>1. ListStaged(call[t])
      BY <2>2, ListKnown
    <3> QED
      BY <2>1, <2>2, <3>1 DEF L!Shifts, Shifted, L!Shifting, ListStaged
  <2>3. Precedes(win.list)
    BY <1>1, <2>1, <2>2 DEF ListInv, ListBehind
  <2>4. files[p] # None /\ Len(blobs) <= Len(files[p])
        /\ \A i \in 1 .. Len(blobs) : blobs[i] = files[p][i]
    BY <1>2, <1>6, <2>3 DEF Precedes
  <2>5. files[p] \in Seq(Blob)
    BY <1>1, <2>4 DEF ListTypes, FilesOK
  <2>6. index + 1 \in DOMAIN files[p] /\ files[p][index + 1] = blobs[index + 1]
    <3>1. PICK f \in Seq(Blob) : f = files[p]
      BY <2>5
    <3>2. DOMAIN f = 1 .. Len(f) /\ Len(f) \in Nat /\ Len(blobs) \in Nat /\ Len(blobs) <= Len(f)
      BY <2>4, <3>1
    <3> QED
      BY <1>3, <2>4, <3>1, <3>2
  <2>7. k.path = p /\ k.index = index /\ k.seen = blobs[index + 1]
    BY <1>7
  <2>8. SeenIn(k)
    BY <2>4, <2>6, <2>7 DEF SeenIn
  <2> QED
    BY <2>1, <2>8
<1> QED
  BY <1>1, <1>6, <1>7, <1>8, <1>9

LEMMA OnChosen ==
  ASSUME NEW k \in L!ChosenBlobs, NEW op \in {"export", "replace", "delete"},
         NEW req \in {"pick", "delete"}, (op = "delete") <=> (req = "delete"), NEW c, c = L!On(op, req, k)
  PROVE  /\ IsListHandler(c) /\ c.op = op /\ c.req = req /\ c.path = k.path /\ c.index = k.index
         /\ c.seen = k.seen /\ c.sure = k.sure /\ c.answer = None
<1>1. k.path \in Path /\ k.index \in Nat /\ k.seen \in Blob /\ k.sure \in BOOLEAN
  BY DEF L!ChosenBlobs
<1>2. c = Fresh(op, req, k.path, k.index, None, k.seen, k.sure)
  BY DEF L!On, L!Handler, Fresh
<1>3. /\ c.op = op /\ c.req = req /\ c.path = k.path /\ c.index = k.index /\ c.blob = None
      /\ c.seen = k.seen /\ c.sure = k.sure /\ c.answer = None
  BY <1>2 DEF Fresh
<1>4. ListStaged(c)
  BY <1>1, <1>3, ListNothing DEF ListStaged, Returned
<1>5. c.op \in ListOps /\ c.req \in L!Calls
  BY <1>3 DEF ListOps, L!Calls, L!Rewriting
<1>6. c = Fresh(c.op, c.req, c.path, c.index, c.blob, c.seen, c.sure)
  BY <1>2, <1>3
<1>7. /\ c.path \in Path /\ c.index \in Nat \cup {None} /\ c.blob \in Blob \cup {None}
      /\ c.seen \in Blob \cup {None} /\ c.sure \in BOOLEAN
  BY <1>1, <1>3
<1> QED
  BY <1>3, <1>4, <1>5, <1>6, <1>7, FreshHandler

LEMMA ExportOrReplaceKeeps ==
  ASSUME ListInv, NEW s \in Slot, NEW index \in L!Indices, NEW op \in {"export", "replace"},
         L!ExportOrReplace(s, op, index)
  PROVE  ListInv'
<1>1. ListTypes /\ win' = win /\ win.confirm = None
  BY DEF ListInv, L!ExportOrReplace, L!Uncovered
<1>2. PICK k : k = L!Chosen(index)
  OBVIOUS
<1>3. /\ k \in L!ChosenBlobs /\ k.path = win.list.path /\ win.list # None
      /\ k.sure => SeenIn(k) /\ \A t \in Slot : ~L!Shifts(t)
  BY <1>2, ChosenIsSeen
<1>4. PICK c : c = L!On(op, "pick", k)
  OBVIOUS
<1>5. /\ IsListHandler(c) /\ c.op = op /\ c.req = "pick" /\ c.path = k.path /\ c.index = k.index
      /\ c.seen = k.seen /\ c.sure = k.sure /\ c.answer = None
  BY <1>3, <1>4, OnChosen
<1>6. L!Begin(s, c)
  BY <1>2, <1>4 DEF L!ExportOrReplace
<1>7. ListWinOK'
  BY <1>1, ListState DEF ListWinOK
<1>8. c.sure => SeenIn(c) /\ \A t \in Slot : ~L!Shifts(t)
  BY <1>3, <1>5 DEF SeenIn
<1> QED
  BY <1>1, <1>3, <1>5, <1>6, <1>7, <1>8, ListHandlerBegins

LEMMA RunListConfirmKeeps ==
  ASSUME ListInv, NEW s \in Slot, L!RunConfirm(s) PROVE ListInv'
<1>1. ListTypes /\ win' = [win EXCEPT !.confirm = None, !.busy = TRUE] /\ win.confirm # None
  BY DEF ListInv, L!RunConfirm
<1>2. PICK k \in L!ChosenBlobs : k = win.confirm
  BY <1>1, ListState
<1>3. k.sure => SeenIn(k) /\ \A t \in Slot : ~L!Shifts(t)
  BY <1>1, <1>2 DEF ListInv, ListChosen
<1>4. PICK c : c = L!On("delete", "delete", k)
  OBVIOUS
<1>5. /\ IsListHandler(c) /\ c.op = "delete" /\ c.req = "delete" /\ c.path = k.path /\ c.index = k.index
      /\ c.seen = k.seen /\ c.sure = k.sure /\ c.answer = None
  BY <1>4, OnChosen
<1>6. L!Begin(s, c)
  BY <1>2, <1>4 DEF L!RunConfirm
<1>7. /\ win' = [list |-> win.list, selected |-> win'.selected, blob |-> win.blob,
                 busy |-> win'.busy, confirm |-> win'.confirm]
      /\ win'.selected = win.selected /\ win'.busy = TRUE /\ win'.confirm = None
      /\ win.selected \in Nat \cup {None}
  BY <1>1, ListState
<1>8. ListWinOK' /\ win'.list = win.list /\ win'.blob = win.blob
  BY <1>1, <1>7, ListWinMade
<1>9. c.sure => SeenIn(c) /\ \A t \in Slot : ~L!Shifts(t)
  BY <1>3, <1>5 DEF SeenIn
<1> QED
  BY <1>5, <1>6, <1>7, <1>8, <1>9, ListHandlerBegins DEF ListHolds

LEMMA ListConfirmKeeps ==
  ASSUME ListInv, UNCHANGED <<files, sessions, call, doubt>>, ListWinOK',
         win'.list = win.list, win'.selected = win.selected, win'.blob = win.blob,
         win'.busy = win.busy,
         win'.confirm # None /\ win'.confirm.sure =>
             SeenIn(win.confirm)' /\ \A t \in Slot : ~L!Shifts(t)
  PROVE  ListInv'
<1>1. ListTypes'
  BY DEF ListInv, ListTypes, FilesOK, L!IsLive
<1>2. ListAlone' /\ ListBusyHeld'
  BY DEF ListInv, ListAlone, ListBusyHeld
<1>3. ListMarked'
  BY DEF ListInv, ListMarked, Marked
<1>4. ListScreen'
  <2>1. BlobShown' <=> BlobShown
    BY DEF BlobShown
  <2>2. ListShown' <=> ListShown
    BY <2>1 DEF ListShown, L!IsLive
  <2>3. ASSUME NEW t \in Slot
        PROVE  /\ ListSound(call[t])' <=> ListSound(call[t])
               /\ ListScreenOf(call[t])' <=> ListScreenOf(call[t])
    <3>1. ListSound(call[t])' <=> ListSound(call[t])
      BY DEF ListSound, L!IsLive
    <3>2. ListScreenOf(call[t])' <=> ListScreenOf(call[t])
      BY <2>1, <2>2 DEF ListScreenOf, L!IsLive
    <3> QED
      BY <3>1, <3>2
  <2>4. L!Idle' <=> L!Idle
    BY DEF L!Idle
  <2> QED
    BY <2>2, <2>3, <2>4 DEF ListInv, ListScreen
<1>5. ListBehind'
  BY DEF ListInv, ListBehind, Precedes
<1>6. ListChosen'
  <2>1. \A t \in Slot : (L!Shifts(t)' <=> L!Shifts(t)) /\ (SeenIn(call[t])' <=> SeenIn(call[t]))
    BY DEF L!Shifts, SeenIn
  <2> QED
    BY <2>1 DEF ListInv, ListChosen
<1> QED
  BY <1>1, <1>2, <1>3, <1>4, <1>5, <1>6 DEF ListInv

LEMMA RequestDeleteBlobKeeps ==
  ASSUME ListInv, NEW index \in L!Indices, L!RequestDeleteBlob(index) PROVE ListInv'
<1>1. /\ ListTypes /\ win' = [win EXCEPT !.confirm = L!Chosen(index)]
      /\ UNCHANGED <<files, sessions, call, doubt>>
  BY DEF ListInv, L!RequestDeleteBlob
<1>2. PICK k : k = L!Chosen(index)
  OBVIOUS
<1>4. /\ win' = [list |-> win.list, selected |-> win'.selected, blob |-> win.blob,
                 busy |-> win'.busy, confirm |-> win'.confirm]
      /\ win'.selected = win.selected /\ win'.busy = win.busy /\ win'.confirm = k
      /\ win.selected \in Nat \cup {None} /\ win.busy \in BOOLEAN
  BY <1>1, <1>2, ListState
<1>5. k \in L!ChosenBlobs
  BY <1>2, ChosenIsSeen
<1>6. ListWinOK' /\ win'.list = win.list /\ win'.blob = win.blob
  BY <1>1, <1>4, <1>5, ListWinMade
<1>7. k.sure => SeenIn(win.confirm)' /\ \A t \in Slot : ~L!Shifts(t)
  <2>1. k.sure => SeenIn(k) /\ \A t \in Slot : ~L!Shifts(t)
    BY <1>2, ChosenIsSeen
  <2> QED
    BY <1>1, <1>4, <2>1 DEF SeenIn
<1> QED
  BY <1>1, <1>4, <1>6, <1>7, ListConfirmKeeps

LEMMA CancelConfirmKeeps == ASSUME ListInv, L!CancelConfirm PROVE ListInv'
<1>1. /\ ListTypes /\ win' = [win EXCEPT !.confirm = None]
      /\ UNCHANGED <<files, sessions, call, doubt>>
  BY DEF ListInv, L!CancelConfirm
<1>2. /\ win' = [list |-> win.list, selected |-> win'.selected, blob |-> win.blob,
                 busy |-> win'.busy, confirm |-> win'.confirm]
      /\ win'.selected = win.selected /\ win'.busy = win.busy /\ win'.confirm = None
      /\ win.selected \in Nat \cup {None} /\ win.busy \in BOOLEAN
  BY <1>1, ListState
<1>3. ListWinOK' /\ win'.list = win.list /\ win'.blob = win.blob
  BY <1>1, <1>2, ListWinMade
<1> QED
  BY <1>1, <1>2, <1>3, ListConfirmKeeps

LEMMA ListUserIsSafe == ASSUME ListInv, NEW s \in Slot, L!Acts(s) PROVE ListInv'
  BY OpenListPathKeeps, SubmitCreateListKeeps, CloseCurrentListKeeps, SelectBlobKeeps, RefreshListKeeps,
     AddBlobPathsKeeps, ExportOrReplaceKeeps, RunListConfirmKeeps DEF L!Acts

-----------------------------------------------------------------------------
(* The answers in the list window                                          *)

\* A handler ends, and leaves a doubt that covers what the window then shows.
LEMMA ListHandlerEnds ==
  ASSUME ListInv, NEW s \in Slot, call[s] # None, NEW left \in {"none", "behind", "shifted"},
         L!Done(s, left), ~call[s].alone => left = doubt,
         ListWinOK', win'.confirm = win.confirm,
         win'.busy => win.busy /\ ~ListHolds(call[s]),
         Marked' \/ (SameMark /\ call[s].op # "select"),
         left = "none" => ListShown',
         left # "shifted" => ListFollows(s)
  PROVE  ListInv'
<1>d. doubt' = left
  BY DEF L!Done
<1>k. /\ ListTypes /\ (call[s].alone => \A t \in Slot : call[t] # None => t = s)
      /\ call[s].alone \in BOOLEAN /\ call = [t \in Slot |-> call[t]]
  BY ListKnown, ListState
<1>0. UNCHANGED <<files, sessions>> /\ call' = [call EXCEPT ![s] = None]
  BY DEF L!Done
<1>1. /\ call' = [t \in Slot |-> call'[t]] /\ call'[s] = None
      /\ \A t \in Slot \ {s} : call'[t] = call[t]
  BY <1>0, <1>k
<1>2. ListTypes'
  <2>1. FilesOK'
    BY <1>0, <1>k DEF ListTypes, FilesOK, L!IsLive
  <2>2. \A t \in Slot : call'[t] # None => IsListHandler(call'[t])
    BY <1>1, <1>k DEF ListTypes
  <2> QED
    BY <1>1, <1>d, <2>1, <2>2 DEF ListTypes
\* The others did not run alone.
<1>3. ASSUME NEW t \in Slot, call'[t] # None
      PROVE  /\ t # s /\ call'[t] = call[t] /\ call[t] # None /\ ~call[t].alone /\ ~call[s].alone
             /\ doubt # "none" /\ doubt' = doubt
             /\ call[t].op \in L!Shifting => doubt = "shifted"
  <2>1. t # s /\ call'[t] = call[t] /\ call[t] # None /\ ~call[s].alone
    BY <1>1, <1>3, <1>k
  <2>2. ~call[t].alone
    BY <2>1 DEF ListInv, ListAlone
  <2> QED
    BY <1>d, <2>1, <2>2 DEF ListInv, ListAlone
<1>4. ListAlone'
  BY <1>3 DEF ListAlone
<1>5. ListBusyHeld'
  BY <1>1 DEF ListInv, ListBusyHeld
<1>6. ListMarked'
  <2>1. CASE Marked
    BY <2>1 DEF SameMark, Marked, ListMarked
  <2>2. ASSUME NEW t \in Slot, call[t] # None, call[t].op = "select" PROVE ListMarked'
    BY <1>1, <2>2 DEF ListMarked
  <2> QED
    BY <2>1, <2>2 DEF ListInv, ListMarked
<1>7. ListScreen'
  <2>1. L!Idle' /\ doubt' = "none" => ListShown'
    BY <1>d
  <2> QED
    BY <1>3, <2>1 DEF ListScreen
<1>8. ListBehind'
  <2>1. SUFFICES ASSUME doubt' # "shifted" PROVE ListBehind'
    BY DEF ListBehind
  <2>2. ListFollows(s)
    BY <1>d, <2>1
  <2>3. OthersShift(s) => \E t \in Slot : call'[t] # None /\ Shifted(call'[t])
    BY <1>1 DEF OthersShift
  <2>4. ASSUME NEW t \in Slot, call'[t] # None, ~call'[t].alone, call'[t].req = "open", Returned(call'[t])
        PROVE  Precedes(call[t].answer)'
    <3>1. doubt # "shifted" /\ call'[t] = call[t]
      BY <1>3, <2>1, <2>4
    <3>2. Precedes(call[t].answer)
      BY <1>3, <2>4, <3>1 DEF ListInv, ListBehind
    <3> QED
      BY <1>0, <3>1, <3>2 DEF Precedes
  <2> QED
    BY <2>2, <2>3, <2>4 DEF ListBehind, ListFollows
<1>9. ListChosen'
  <2>0. \A t \in Slot : L!Shifts(t)' => L!Shifts(t)
    BY <1>1 DEF L!Shifts
  <2>1. ASSUME NEW t \in Slot, call'[t] # None, call'[t].sure, Unacted(call'[t])
        PROVE  SeenIn(call[t])' /\ \A u \in Slot \ {t} : ~L!Shifts(u)'
    <3>1. call'[t] = call[t] /\ call[t] # None
      BY <1>3, <2>1
    <3>2. SeenIn(call[t]) /\ \A u \in Slot \ {t} : ~L!Shifts(u)
      BY <2>1, <3>1 DEF ListInv, ListChosen
    <3>3. SeenIn(call[t])'
      BY <1>0, <3>1, <3>2 DEF SeenIn
    <3> QED
      BY <2>0, <3>2, <3>3
  <2>2. ASSUME win'.confirm # None, win'.confirm.sure
        PROVE  SeenIn(win.confirm)' /\ \A t \in Slot : ~L!Shifts(t)'
    <3>1. SeenIn(win.confirm) /\ \A t \in Slot : ~L!Shifts(t)
      BY <2>2 DEF ListInv, ListChosen
    <3>2. SeenIn(win.confirm)'
      BY <1>0, <3>1 DEF SeenIn
    <3> QED
      BY <2>0, <3>1, <3>2
  <2> QED
    BY <2>1, <2>2 DEF ListChosen
<1> QED
  BY <1>2, <1>4, <1>5, <1>6, <1>7, <1>8, <1>9 DEF ListInv

\* The window after an answer.
LEMMA ClearedList ==
  ASSUME ListTypes, NEW info \in L!Infos \cup {None}, win' = L!Clear(info)
  PROVE  /\ ListWinOK' /\ win'.list = info /\ win'.selected = None /\ win'.blob = None
         /\ win'.busy = FALSE /\ win'.confirm = win.confirm
<1>1. /\ win' = [list |-> info, selected |-> None, blob |-> None, busy |-> FALSE,
                 confirm |-> win.confirm]
      /\ win.confirm \in L!ChosenBlobs \cup {None}
  BY ListState DEF L!Clear
<1> QED
  BY <1>1 DEF ListWinOK

LEMMA RelistedList ==
  ASSUME ListTypes, NEW info \in L!Infos, NEW busy \in BOOLEAN,
         win' = [win EXCEPT !.list = info, !.busy = busy]
  PROVE  /\ ListWinOK' /\ win'.list = info /\ win'.selected = win.selected /\ win'.blob = win.blob
         /\ win'.busy = busy /\ win'.confirm = win.confirm
<1>1. /\ win' = [list |-> info, selected |-> win.selected, blob |-> win.blob, busy |-> busy,
                 confirm |-> win.confirm]
      /\ win.selected \in Nat \cup {None} /\ win.blob \in L!Contents \cup {None}
      /\ win.confirm \in L!ChosenBlobs \cup {None}
  BY ListState
<1> QED
  BY <1>1 DEF ListWinOK

LEMMA SameListWindow == ASSUME ListTypes, win' = win PROVE ListWinOK'
  BY ListState DEF ListWinOK

LEMMA ListProceeding ==
  ASSUME ListInv, NEW s \in Slot, call[s] # None, NEW req, NEW index, L!Proceed(s, req, index)
  PROVE  Others(s) /\ call'[s] = Asking(call[s], req, index) /\ UNCHANGED <<files, sessions, doubt>>
<1>1. call = [t \in Slot |-> call[t]]
  BY ListState DEF ListInv
<1>2. UNCHANGED <<files, sessions, doubt>>
  BY DEF L!Proceed
<1>3. PICK c : c = call[s]
  OBVIOUS
<1>4. IsListHandler(c)
  BY <1>3, ListKnown
<1>5. c = [op |-> c.op, req |-> c.req, path |-> c.path, index |-> c.index, blob |-> c.blob,
           seen |-> c.seen, sure |-> c.sure, answer |-> c.answer, alone |-> c.alone]
  BY <1>4, ListFields
<1>6. call'[s] = Asking(call[s], req, index)
  BY <1>1, <1>3, <1>5 DEF L!Proceed, Asking
<1>7. Others(s)
  BY <1>1 DEF L!Proceed, Others
<1> QED
  BY <1>2, <1>6, <1>7

\* The list as it is in the file.
LEMMA WholePrecedes ==
  ASSUME FilesOK, NEW list \in L!Infos, L!IsLive(list.path), list.blobs = files[list.path]
  PROVE  Precedes(list)
<1>1. list.path \in Path
  BY DEF L!Infos
<1>2. files[list.path] # None /\ files[list.path] \in Seq(Blob)
  BY <1>1 DEF FilesOK
<1>3. Len(list.blobs) \in Nat
  BY <1>2
<1> QED
  BY <1>2, <1>3 DEF Precedes, L!IsLive

\* While the list stays, it is one the file begins with.
LEMMA SameListFollows ==
  ASSUME ListInv, NEW s \in Slot, call[s] # None, UNCHANGED <<files, sessions>>,
         win'.list = win.list, doubt # "shifted", ~Shifted(call[s])
  PROVE  ListFollows(s)
<1>1. SUFFICES ASSUME win.list # None
               PROVE  OthersShift(s) \/ Precedes(win.list)'
  BY DEF ListFollows
<1>2. OthersShift(s) \/ Precedes(win.list)
  BY <1>1 DEF ListInv, ListBehind, OthersShift
<1> QED
  BY <1>2 DEF Precedes

\* So is a list that was read, unless it is shifted.
LEMMA AnswerPrecedes ==
  ASSUME ListInv, NEW s \in Slot, call[s] # None, Returned(call[s]),
         call[s].req \in {"open", "create", "delete", "replace"},
         call[s].alone \/ doubt # "shifted"
  PROVE  /\ call[s].answer \in L!Infos /\ call[s].answer.path = call[s].path
         /\ Precedes(call[s].answer)
<1>1. /\ FilesOK /\ ListStaged(call[s]) /\ ListTold(call[s])
      /\ call[s].alone => ListSound(call[s])
      /\ call[s].op \in L!Shifting /\ doubt # "shifted" => call[s].alone
      /\ call[s].answer \in L!Results(call[s].req)
  BY ListKnown
<1>2. call[s].answer \in L!Infos /\ call[s].answer.path = call[s].path
  BY <1>1, ListResults DEF ListTold, L!IsLive
<1>3. CASE call[s].alone
  <2>1. L!IsLive(call[s].path) /\ call[s].answer.blobs = files[call[s].path]
    BY <1>1, <1>2, <1>3 DEF ListSound
  <2> QED
    BY <1>1, <1>2, <2>1, WholePrecedes
<1>4. CASE ~call[s].alone
  <2>1. call[s].req = "open"
    BY <1>1, <1>4 DEF ListStaged, L!Shifting
  <2> QED
    BY <1>2, <1>4, <2>1 DEF ListInv, ListBehind
<1> QED
  BY <1>3, <1>4

\* A handler ends that shows nothing.
LEMMA ListEndsUnshown ==
  ASSUME ListInv, NEW s \in Slot, call[s] # None, NEW left \in {doubt, L!Unread}, L!Done(s, left),
         ListWinOK', win'.list = win.list, SameMark, win'.confirm = win.confirm,
         win'.busy => win.busy /\ ~ListHolds(call[s]),
         ~Shifted(call[s]), call[s].op # "select",
         left = "none" => ~ListUnseen(call[s])
  PROVE  ListInv'
<1>1. /\ doubt = "none" => call[s].alone /\ ListScreenOf(call[s])
      /\ doubt \in {"none", "behind", "shifted"}
  BY ListKnown
<1>2. /\ left \in {"none", "behind", "shifted"} /\ (~call[s].alone => left = doubt)
      /\ left = "none" => doubt = "none"
      /\ left # "shifted" => doubt # "shifted"
  BY <1>1 DEF L!Unread
<1>3. UNCHANGED <<files, sessions>>
  BY DEF L!Done
<1>4. ASSUME left = "none" PROVE ListShown'
  <2>1. ListShown
    BY <1>1, <1>2, <1>4 DEF ListScreenOf
  <2>2. BlobShown => BlobShown'
    BY <1>3 DEF BlobShown, SameMark
  <2> QED
    BY <1>3, <2>1, <2>2 DEF ListShown, SameMark, L!IsLive
<1>5. left # "shifted" => ListFollows(s)
  BY <1>2, <1>3, SameListFollows
<1> QED
  BY <1>2, <1>4, <1>5, ListHandlerEnds

LEMMA Unfailed ==
  ASSUME NEW s \in Slot, call[s].answer # None
  PROVE  L!Ok(s) <=> Returned(call[s])
  BY DEF L!Ok, Returned

LEMMA ExportArrivesKeeps == ASSUME ListInv, NEW s \in Slot, L!ExportArrives(s) PROVE ListInv'
<1>1. /\ call[s] # None /\ call[s].req = "export" /\ L!Done(s, doubt) /\ L!Busy(FALSE)
  BY DEF L!ExportArrives, L!Answered
<1>2. ListStaged(call[s]) /\ ListTypes
  BY <1>1, ListKnown
<1>3. call[s].op # "select" /\ ~Shifted(call[s]) /\ ~ListUnseen(call[s])
  BY <1>1, <1>2 DEF ListStaged, Shifted, L!Shifting, ListUnseen
<1>4. /\ ListWinOK' /\ win'.list = win.list /\ SameMark /\ win'.busy = FALSE
      /\ win'.confirm = win.confirm
  BY <1>1, <1>2, BusyList DEF SameMark
<1> QED
  BY <1>1, <1>3, <1>4, ListEndsUnshown

LEMMA FileOfListArrivesKeeps == ASSUME ListInv, NEW s \in Slot, L!FileArrives(s) PROVE ListInv'
<1>1. call[s] # None /\ call[s].req = "pick" /\ call[s].answer # None
  BY DEF L!FileArrives, L!Answered
<1>2. /\ IsListHandler(call[s]) /\ ListStaged(call[s]) /\ ListTypes
      /\ (call[s].alone => ListSound(call[s]))
      /\ doubt = "none" => ListScreenOf(call[s])
      /\ doubt \in {"none", "behind", "shifted"}
  BY <1>1, ListKnown
<1>3. /\ call[s].op \in {"export", "replace"} /\ ~Shifted(call[s]) /\ ~ListUnseen(call[s])
      /\ call[s].index \in Nat
  BY <1>1, <1>2, ListFields DEF ListStaged, Shifted, L!Shifting, ListUnseen
<1>4. CASE ~L!Ok(s)
  <2>1. L!Done(s, doubt) /\ win' = win
    BY <1>4 DEF L!FileArrives
  <2>2. ListWinOK' /\ SameMark
    BY <1>2, <2>1, SameListWindow DEF SameMark
  <2>3. ~ListHolds(call[s])
    BY <1>1 DEF ListHolds
  <2> QED
    BY <1>1, <1>3, <2>1, <2>2, <2>3, ListEndsUnshown
<1>5. CASE L!Ok(s)
  <2>0. PICK c : c = call[s]
    OBVIOUS
  <2>1. L!Proceed(s, c.op, c.index) /\ L!Busy(TRUE) /\ Returned(c)
    BY <1>1, <1>5, <2>0 DEF L!FileArrives, Returned, L!Ok
  <2>2. PICK d : d = Asking(c, c.op, c.index)
    OBVIOUS
  <2>3. Others(s) /\ call'[s] = d /\ UNCHANGED <<files, sessions, doubt>>
    BY <1>1, <2>0, <2>1, <2>2, ListProceeding
  <2>4. /\ IsListHandler(d) /\ d.op = c.op /\ d.req = c.op /\ d.path = c.path /\ d.index = c.index
        /\ d.sure = c.sure /\ d.answer = None /\ d.alone = c.alone /\ d.seen = c.seen
    <3>1. PICK req, index : req = c.op /\ index = c.index
      OBVIOUS
    <3>2. LET e == Asking(c, req, index) IN
          /\ IsListHandler(e) /\ e.op = c.op /\ e.req = req /\ e.path = c.path /\ e.index = index
          /\ e.sure = c.sure /\ e.answer = None /\ e.alone = c.alone
          /\ req # "get" => e.seen = c.seen
      BY <1>1, <1>2, <1>3, <2>0, <2>1, <3>1, AsksListNext
    <3>3. c.op # "get"
      BY <1>3, <2>0
    <3> QED
      BY <2>2, <3>1, <3>2, <3>3
  <2>5. /\ ListWinOK' /\ win'.list = win.list /\ SameMark /\ win'.confirm = win.confirm
    BY <1>2, <2>1, BusyList DEF SameMark
  <2>6. ListHolds(call'[s])
    BY <1>3, <2>0, <2>3, <2>4 DEF ListHolds
  <2>7. call[s].alone => ListSound(call[s])'
    <3>1. call'[s].req \notin {"get", "open", "create"} /\ ~Returned(call'[s])
      BY <1>3, <2>0, <2>3, <2>4 DEF Returned
    <3> QED
      BY <1>2, <2>0, <2>3, <2>4, <2>5, <3>1 DEF ListSound, Returned
  <2>8. doubt = "none" => ListScreenOf(call[s])'
    <3>1. ~ListUnseen(call[s])'
      BY <1>3, <2>0, <2>3, <2>4 DEF ListUnseen, Returned
    <3>2. doubt = "none" => ListShown
      BY <1>2, <1>3 DEF ListScreenOf
    <3>3. BlobShown => BlobShown'
      BY <2>3, <2>5 DEF BlobShown, SameMark
    <3>4. ListShown => ListShown'
      BY <2>3, <2>5, <3>3 DEF ListShown, SameMark, L!IsLive
    <3> QED
      BY <3>1, <3>2, <3>4 DEF ListScreenOf
  <2>9. doubt # "shifted" => ListFollows(s)
    BY <1>1, <1>3, <2>3, <2>5, SameListFollows
  <2>10. ChoiceStays /\ \A i \in L!Infos : Precedes(i) => Precedes(i)'
    BY <2>3 DEF ChoiceStays, SeenIn, Precedes
  <2>12. FilesOK'
    BY <1>2, <2>3 DEF ListTypes, FilesOK, L!IsLive
  <2>13. DoubtGrows(s)
    BY <1>2, <2>3 DEF DoubtGrows
  <2>14. Unacted(call[s])
    BY <1>1, <1>3 DEF Unacted
  <2>15. ~Returned(call'[s])
    BY <2>3, <2>4 DEF Returned
  <2>17. /\ IsListHandler(call'[s]) /\ call'[s].alone = call[s].alone /\ call'[s].op = call[s].op
         /\ call'[s].path = call[s].path /\ call'[s].index = call[s].index
         /\ call'[s].seen = call[s].seen /\ call'[s].sure = call[s].sure
    BY <2>0, <2>3, <2>4
  <2> QED
    BY <1>1, <2>3, <2>5, <2>6, <2>7, <2>8, <2>9, <2>10, <2>12, <2>13, <2>14, <2>15, <2>17,
       ListHandlerGoesOn
<1> QED
  BY <1>4, <1>5

\* A handler goes on to read.
LEMMA ListAskedNext ==
  ASSUME ListInv, NEW s \in Slot, call[s] # None, NEW req, NEW index \in Nat \cup {None},
         L!Proceed(s, req, index),
         \/ call[s].op \in {"refresh", "add", "replace"} /\ req = "get" /\ index # None
         \/ call[s].op = "add" /\ req = "open"
  PROVE  /\ Others(s) /\ UNCHANGED <<files, sessions, doubt>>
         /\ IsListHandler(call'[s]) /\ call'[s].op = call[s].op /\ call'[s].req = req
         /\ call'[s].path = call[s].path /\ call'[s].index = index
         /\ call'[s].alone = call[s].alone /\ ~Returned(call'[s])
<1>1. PICK c : c = call[s]
  OBVIOUS
<1>2. IsListHandler(c)
  BY <1>1, ListKnown
<1>3. PICK d : d = Asking(c, req, index)
  OBVIOUS
<1>4. Others(s) /\ call'[s] = d /\ UNCHANGED <<files, sessions, doubt>>
  BY <1>1, <1>3, ListProceeding
<1>5. LET e == Asking(c, req, index) IN
      /\ IsListHandler(e) /\ e.op = c.op /\ e.req = req /\ e.path = c.path /\ e.index = index
      /\ e.sure = c.sure /\ e.answer = None /\ e.alone = c.alone
      /\ req # "get" => e.seen = c.seen
  BY <1>1, <1>2, AsksListNext
<1> QED
  BY <1>1, <1>3, <1>4, <1>5 DEF Returned

LEMMA ListReadsNext ==
  ASSUME ListInv, NEW s \in Slot, call[s] # None, NEW req, NEW index \in Nat \cup {None},
         L!Proceed(s, req, index),
         \/ call[s].op \in {"refresh", "add", "replace"} /\ req = "get" /\ index # None
         \/ call[s].op = "add" /\ req = "open",
         ListWinOK', SameMark, win'.confirm = win.confirm,
         call[s].alone => ListSound(call[s])',
         doubt = "none" => ListScreenOf(call[s])',
         doubt # "shifted" => ListFollows(s)
  PROVE  ListInv'
<1>1. /\ Others(s) /\ UNCHANGED <<files, sessions, doubt>>
      /\ IsListHandler(call'[s]) /\ call'[s].op = call[s].op /\ call'[s].req = req
      /\ call'[s].alone = call[s].alone /\ ~Returned(call'[s])
  BY ListAskedNext
<1>2. ListTypes /\ doubt \in {"none", "behind", "shifted"}
  BY ListKnown
<1>3. ListHolds(call'[s]) /\ ~Unacted(call'[s])
  BY <1>1 DEF ListHolds, Unacted
<1>4. ChoiceStays /\ \A i \in L!Infos : Precedes(i) => Precedes(i)'
  BY <1>1 DEF ChoiceStays, SeenIn, Precedes
<1>6. FilesOK'
  BY <1>1, <1>2 DEF ListTypes, FilesOK, L!IsLive
<1>7. DoubtGrows(s)
  BY <1>1, <1>2 DEF DoubtGrows
<1> QED
  BY <1>1, <1>3, <1>4, <1>6, <1>7, ListHandlerGoesOn

LEMMA AddArrivesKeeps == ASSUME ListInv, NEW s \in Slot, L!AddArrives(s) PROVE ListInv'
<1>1. /\ call[s] # None /\ call[s].req = "add" /\ call[s].answer # None /\ win' = win
  BY DEF L!AddArrives, L!Answered
<1>2. PICK index : index = IF L!Ok(s) THEN call[s].answer ELSE None
  OBVIOUS
<1>3. L!Proceed(s, "open", index)
  BY <1>2 DEF L!AddArrives
<1>4. /\ ListTypes /\ ListStaged(call[s])
      /\ (call[s].alone => ListSound(call[s]))
      /\ doubt = "none" => ListScreenOf(call[s])
      /\ Returned(call[s]) => call[s].answer \in L!Results(call[s].req)
  BY <1>1, ListKnown
<1>5. call[s].op = "add" /\ ~Shifted(call[s])
  BY <1>1, <1>4 DEF ListStaged, Shifted, L!Shifting
<1>6. /\ index \in Nat \cup {None}
      /\ index # None <=> Returned(call[s])
  BY <1>1, <1>2, <1>4, ListResults, ListNothing, Unfailed
<1>7. /\ Others(s) /\ UNCHANGED <<files, sessions, doubt>>
      /\ IsListHandler(call'[s]) /\ call'[s].op = call[s].op /\ call'[s].req = "open"
      /\ call'[s].path = call[s].path /\ call'[s].index = index
      /\ call'[s].alone = call[s].alone /\ ~Returned(call'[s])
  BY <1>1, <1>3, <1>5, <1>6, ListAskedNext
<1>8. ListWinOK' /\ SameMark
  BY <1>1, <1>4, SameListWindow DEF SameMark
<1>9. call[s].alone => ListSound(call[s])'
  BY <1>1, <1>4, <1>5, <1>7 DEF ListSound, Returned
<1>10. doubt = "none" => ListScreenOf(call[s])'
  <2>1. BlobShown' <=> BlobShown
    BY <1>1, <1>7 DEF BlobShown
  <2>2. ListShown' <=> ListShown
    BY <1>1, <1>7, <2>1 DEF ListShown, L!IsLive
  <2>3. (index # None) <=> ListUnseen(call[s])
    BY <1>1, <1>5, <1>6 DEF ListUnseen
  <2>4. ListUnseen(call[s])' <=> index # None
    BY <1>5, <1>7 DEF ListUnseen
  <2> QED
    BY <1>1, <1>4, <1>5, <1>7, <2>1, <2>2, <2>3, <2>4 DEF ListScreenOf, L!IsLive
<1>11. doubt # "shifted" => ListFollows(s)
  BY <1>1, <1>5, <1>7, SameListFollows
<1> QED
  BY <1>1, <1>3, <1>5, <1>6, <1>8, <1>9, <1>10, <1>11, ListReadsNext

LEMMA ReplaceArrivesKeeps == ASSUME ListInv, NEW s \in Slot, L!ReplaceArrives(s) PROVE ListInv'
<1>1. call[s] # None /\ call[s].req = "replace" /\ call[s].answer # None
  BY DEF L!ReplaceArrives, L!Answered
<1>2. /\ IsListHandler(call[s]) /\ ListTypes /\ ListStaged(call[s]) /\ ListTold(call[s])
      /\ (call[s].alone => ListSound(call[s]))
      /\ call[s].op \in L!Shifting /\ doubt # "shifted" => call[s].alone
      /\ doubt = "none" => call[s].alone
      /\ Returned(call[s]) => call[s].answer \in L!Results(call[s].req)
  BY <1>1, ListKnown
<1>3. call[s].op = "replace" /\ call[s].index # None
  BY <1>1, <1>2 DEF ListStaged
<1>4. CASE ~L!Ok(s)
  <2>1. L!Done(s, doubt) /\ L!Busy(FALSE)
    BY <1>4 DEF L!ReplaceArrives
  <2>2. ~Returned(call[s])
    BY <1>1, <1>4, Unfailed
  <2>3. ~Shifted(call[s]) /\ ~ListUnseen(call[s])
    BY <1>1, <2>2 DEF Shifted, ListUnseen
  <2>4. /\ ListWinOK' /\ win'.list = win.list /\ SameMark /\ win'.busy = FALSE
        /\ win'.confirm = win.confirm
    BY <1>2, <2>1, BusyList DEF SameMark
  <2> QED
    BY <1>1, <1>3, <2>1, <2>3, <2>4, ListEndsUnshown
<1>5. CASE L!Ok(s)
  <2>1. PICK index \in Nat : index = call[s].index
    BY <1>2, <1>3, ListFields
  <2>2. Returned(call[s]) /\ L!Proceed(s, "get", index) /\ win' = [win EXCEPT !.list = call[s].answer]
    BY <1>1, <1>5, <2>1, Unfailed DEF L!ReplaceArrives
  <2>3. PICK info \in L!Infos : info = call[s].answer
    BY <1>1, <1>2, <2>2, ListResults
  <2>4. PICK busy \in BOOLEAN : busy = win.busy
    BY <1>2, ListState
  <2>5. win' = [win EXCEPT !.list = info, !.busy = busy]
    BY <1>2, <2>2, <2>3, <2>4, ListState
  <2>6. /\ ListWinOK' /\ win'.list = info /\ SameMark /\ win'.confirm = win.confirm
    BY <1>2, <2>5, RelistedList DEF SameMark
  <2>7. /\ Others(s) /\ UNCHANGED <<files, sessions, doubt>>
        /\ IsListHandler(call'[s]) /\ call'[s].op = call[s].op /\ call'[s].req = "get"
        /\ call'[s].path = call[s].path /\ call'[s].index = index
        /\ call'[s].alone = call[s].alone /\ ~Returned(call'[s])
    BY <1>1, <1>3, <2>1, <2>2, ListNothing, ListAskedNext
  <2>8. info.path = call[s].path /\ info # None
    BY <1>1, <1>2, <2>2, <2>3, ListNothing DEF ListTold
  <2>9. call[s].alone => L!IsLive(info.path) /\ info.blobs = files[info.path]
    BY <1>1, <1>2, <2>2, <2>3, <2>8 DEF ListSound
  <2>10. call[s].alone => ListSound(call[s])'
    BY <1>3, <2>6, <2>7, <2>8, <2>9 DEF ListSound, L!IsLive
  <2>11. ListScreenOf(call[s])'
    <3>1. ListUnseen(call[s])' /\ call'[s].op # "add"
      BY <1>3, <2>7 DEF ListUnseen
    <3> QED
      BY <3>1 DEF ListScreenOf
  <2>12. doubt # "shifted" => ListFollows(s)
    <3>1. ASSUME doubt # "shifted" PROVE Precedes(info)
      <4>1. L!IsLive(info.path) /\ info.blobs = files[info.path]
        BY <1>2, <1>3, <2>9, <3>1 DEF L!Shifting
      <4> QED
        BY <1>2, <4>1, WholePrecedes DEF ListTypes
    <3> QED
      BY <2>6, <2>7, <3>1 DEF ListFollows, Precedes
  <2> QED
    BY <1>1, <1>3, <2>1, <2>2, <2>6, <2>10, <2>11, <2>12, ListNothing, ListReadsNext
<1> QED
  BY <1>4, <1>5

LEMMA DeleteArrivesKeeps == ASSUME ListInv, NEW s \in Slot, L!DeleteArrives(s) PROVE ListInv'
<1>1. call[s] # None /\ call[s].req = "delete" /\ call[s].answer # None /\ L!Done(s, doubt)
  BY DEF L!DeleteArrives, L!Answered
<1>2. /\ IsListHandler(call[s]) /\ ListTypes /\ ListStaged(call[s]) /\ ListTold(call[s])
      /\ (call[s].alone => ListSound(call[s]))
      /\ call[s].op \in L!Shifting /\ doubt # "shifted" => call[s].alone
      /\ Returned(call[s]) => call[s].answer \in L!Results(call[s].req)
      /\ doubt \in {"none", "behind", "shifted"}
  BY <1>1, ListKnown
<1>3. call[s].op = "delete"
  BY <1>1, <1>2 DEF ListStaged
<1>4. CASE ~L!Ok(s)
  <2>1. L!Busy(FALSE)
    BY <1>4 DEF L!DeleteArrives, L!Busy
  <2>2. ~Returned(call[s])
    BY <1>1, <1>4, Unfailed
  <2>3. ~Shifted(call[s]) /\ ~ListUnseen(call[s])
    BY <1>1, <2>2 DEF Shifted, ListUnseen
  <2>4. /\ ListWinOK' /\ win'.list = win.list /\ SameMark /\ win'.busy = FALSE
        /\ win'.confirm = win.confirm
    BY <1>2, <2>1, BusyList DEF SameMark
  <2> QED
    BY <1>1, <1>3, <2>3, <2>4, ListEndsUnshown
<1>5. CASE L!Ok(s)
  <2>1. Returned(call[s]) /\ win' = L!Clear(call[s].answer)
    BY <1>1, <1>5, Unfailed DEF L!DeleteArrives
  <2>2. PICK info \in L!Infos : info = call[s].answer
    BY <1>1, <1>2, <2>1, ListResults
  <2>3. /\ ListWinOK' /\ win'.list = info /\ win'.selected = None /\ win'.blob = None
        /\ win'.busy = FALSE /\ win'.confirm = win.confirm
    BY <1>2, <2>1, <2>2, ClearedList
  <2>4. info.path = call[s].path /\ info # None
    BY <1>1, <1>2, <2>1, <2>2, ListNothing DEF ListTold
  <2>5. call[s].alone => L!IsLive(info.path) /\ info.blobs = files[info.path]
    BY <1>1, <1>2, <2>1, <2>2, <2>4 DEF ListSound
  <2>6. UNCHANGED <<files, sessions>>
    BY <1>1 DEF L!Done
  <2>7. Marked'
    BY <2>3 DEF Marked
  <2>8. doubt = "none" => ListShown'
    BY <1>2, <1>3, <2>3, <2>4, <2>5, <2>6 DEF ListShown, BlobShown, L!IsLive, L!Shifting
  <2>9. doubt # "shifted" => ListFollows(s)
    <3>1. ASSUME doubt # "shifted" PROVE Precedes(info)
      <4>1. L!IsLive(info.path) /\ info.blobs = files[info.path]
        BY <1>2, <1>3, <2>5, <3>1 DEF L!Shifting
      <4> QED
        BY <1>2, <4>1, WholePrecedes DEF ListTypes
    <3> QED
      BY <2>3, <2>6, <3>1 DEF ListFollows, Precedes
  <2> QED
    BY <1>1, <1>2, <2>3, <2>7, <2>8, <2>9, ListHandlerEnds
<1> QED
  BY <1>4, <1>5

LEMMA CloseListArrivesKeeps == ASSUME ListInv, NEW s \in Slot, L!CloseArrives(s) PROVE ListInv'
<1>1. call[s] # None /\ call[s].req = "close" /\ call[s].answer # None
  BY DEF L!CloseArrives, L!Answered
<1>2. /\ ListTypes /\ ListStaged(call[s]) /\ call[s].alone \in BOOLEAN
      /\ doubt \in {"none", "behind", "shifted"}
  BY <1>1, ListKnown
<1>3. call[s].op = "close" /\ ~Shifted(call[s]) /\ ~ListHolds(call[s])
  BY <1>1, <1>2 DEF ListStaged, Shifted, L!Shifting, ListHolds
<1>4. CASE ~L!Ok(s)
  <2>0. L!Ok(s) = FALSE
    BY <1>4 DEF L!Ok
  <2>1. L!Done(s, doubt) /\ win' = win
    BY <2>0 DEF L!CloseArrives, L!Done
  <2>2. ~Returned(call[s])
    BY <1>1, <1>4, Unfailed
  <2>3. ~ListUnseen(call[s])
    BY <1>1, <2>2 DEF ListUnseen
  <2>4. ListWinOK' /\ SameMark
    BY <1>2, <2>1, SameListWindow DEF SameMark
  <2> QED
    BY <1>1, <1>3, <2>1, <2>3, <2>4, ListEndsUnshown
<1>5. CASE L!Ok(s)
  <2>0. PICK left \in {"none", "behind", "shifted"} :
            left = L!Shown(s) /\ (~call[s].alone => left = doubt)
    BY <1>2 DEF L!Shown
  <2>1. /\ L!Done(s, left)
        /\ win' = [win EXCEPT !.list = None, !.selected = None, !.blob = None]
    BY <1>5, <2>0 DEF L!CloseArrives, L!Done
  <2>2. /\ win' = [list |-> None, selected |-> None, blob |-> None, busy |-> win.busy,
                   confirm |-> win.confirm]
        /\ win.busy \in BOOLEAN /\ win.confirm \in L!ChosenBlobs \cup {None}
    BY <1>2, <2>1, ListState
  <2>3. /\ ListWinOK' /\ win'.list = None /\ win'.selected = None /\ win'.blob = None
        /\ win'.busy = win.busy /\ win'.confirm = win.confirm
    BY <2>2 DEF ListWinOK
  <2>4. Marked' /\ ListShown' /\ ListFollows(s)
    BY <2>3 DEF Marked, ListShown, ListFollows
  <2> QED
    BY <1>1, <1>3, <2>0, <2>1, <2>3, <2>4, ListHandlerEnds
<1> QED
  BY <1>4, <1>5

LEMMA ListArrivesKeeps == ASSUME ListInv, NEW s \in Slot, L!ListArrives(s) PROVE ListInv'
<1>1. call[s] # None /\ call[s].req \in {"open", "create"} /\ call[s].answer # None
  BY DEF L!ListArrives, L!Answered
<1>2. /\ IsListHandler(call[s]) /\ ListTypes /\ ListStaged(call[s]) /\ ListTold(call[s])
      /\ (call[s].alone => ListSound(call[s]))
      /\ doubt = "none" => call[s].alone /\ ListScreenOf(call[s])
      /\ Returned(call[s]) => call[s].answer \in L!Results(call[s].req)
      /\ call[s].path \in Path /\ FilesOK /\ call[s].alone \in BOOLEAN
      /\ doubt \in {"none", "behind", "shifted"}
  BY <1>1, ListKnown
<1>3. /\ call[s].op \in {"open", "create", "refresh", "add"}
      /\ call[s].op = "create" <=> call[s].req = "create"
      /\ call[s].index \in Nat \cup {None}
  BY <1>1, <1>2, ListFields DEF ListStaged
<1>4. CASE ~L!Ok(s)
  <2>0. PICK left \in {doubt, L!Unread} : left = IF call[s].op = "add" THEN L!Unread ELSE doubt
    OBVIOUS
  <2>1. L!Done(s, left) /\ L!Busy(FALSE)
    BY <1>4, <2>0 DEF L!ListArrives
  <2>2. ~Returned(call[s])
    BY <1>1, <1>4, Unfailed
  <2>3. ~Shifted(call[s]) /\ (left = "none" => ~ListUnseen(call[s]))
    BY <1>1, <2>0, <2>2 DEF Shifted, ListUnseen, L!Unread
  <2>4. /\ ListWinOK' /\ win'.list = win.list /\ SameMark /\ win'.busy = FALSE
        /\ win'.confirm = win.confirm
    BY <1>2, <2>1, BusyList DEF SameMark
  <2> QED
    BY <1>1, <1>3, <2>0, <2>1, <2>3, <2>4, ListEndsUnshown
<1>5. CASE L!Ok(s)
  <2>1. Returned(call[s])
    BY <1>1, <1>5, Unfailed
  <2>2. PICK info \in L!Infos : info = call[s].answer
    BY <1>1, <1>2, <2>1, ListResults
  <2>3. info.path = call[s].path /\ info # None /\ info.blobs \in Seq(Blob)
    BY <1>1, <1>2, <2>1, <2>2, ListNothing DEF ListTold, L!Infos
  <2>4. call[s].alone \/ doubt # "shifted" => Precedes(info)
    BY <1>1, <2>1, <2>2, AnswerPrecedes
  <2>5. call[s].alone => L!IsLive(info.path) /\ info.blobs = files[info.path]
    BY <1>1, <1>2, <2>1, <2>2, <2>3 DEF ListSound
  \* The list is shown and no blob.
  <2>7. CASE L!Done(s, L!Shown(s)) /\ win' = L!Clear(call[s].answer)
    <3>0. PICK left \in {"none", "behind", "shifted"} : left = L!Shown(s)
      BY <1>2 DEF L!Shown
    <3>1. /\ ListWinOK' /\ win'.list = info /\ win'.selected = None /\ win'.blob = None
          /\ win'.busy = FALSE /\ win'.confirm = win.confirm
      BY <1>2, <2>2, <2>7, ClearedList
    <3>2. UNCHANGED <<files, sessions>> /\ L!Done(s, left)
      BY <2>7, <3>0 DEF L!Done
    <3>3. Marked'
      BY <3>1 DEF Marked
    <3>4. /\ ~call[s].alone => left = doubt
          /\ left = "none" => call[s].alone
          /\ left # "shifted" => call[s].alone \/ doubt # "shifted"
      BY <1>2, <3>0 DEF L!Shown
    <3>5. left = "none" => ListShown'
      BY <2>3, <2>5, <3>1, <3>2, <3>4 DEF ListShown, BlobShown, L!IsLive
    <3>6. left # "shifted" => ListFollows(s)
      BY <2>4, <3>1, <3>2, <3>4 DEF ListFollows, Precedes
    <3> QED
      BY <1>1, <3>1, <3>2, <3>3, <3>4, <3>5, <3>6, ListHandlerEnds
  \* The blob was not added, and the list is shown.
  <2>8. CASE /\ call[s].op = "add" /\ call[s].index = None /\ L!Done(s, L!Listing(s))
             /\ win' = [win EXCEPT !.list = call[s].answer, !.busy = FALSE]
    <3>0. PICK left \in {"none", "behind", "shifted"}, no \in BOOLEAN : left = L!Listing(s) /\ no = FALSE
      BY <1>2 DEF L!Listing
    <3>1. /\ ListWinOK' /\ win'.list = info /\ SameMark
          /\ win'.busy = FALSE /\ win'.confirm = win.confirm
      BY <1>2, <2>2, <2>8, <3>0, RelistedList DEF SameMark
    <3>2. UNCHANGED <<files, sessions>> /\ L!Done(s, left)
      BY <2>8, <3>0 DEF L!Done
    <3>3. /\ ~call[s].alone => left = doubt
          /\ left = "none" => doubt = "none"
          /\ left # "shifted" => call[s].alone \/ doubt # "shifted"
      BY <1>2, <3>0 DEF L!Listing
    <3>4. ASSUME doubt = "none" PROVE ListShown'
      <4>1. call[s].alone /\ ~ListUnseen(call[s])
        BY <1>1, <1>2, <1>3, <2>8, <3>4 DEF ListUnseen
      <4>2. ListShown
        BY <1>2, <3>4, <4>1 DEF ListScreenOf
      <4>3. win.list # None /\ win.list.path = info.path
        BY <1>2, <2>3, <2>8, <4>1 DEF ListSound
      <4>4. L!IsLive(info.path) /\ info.blobs = files[info.path] /\ BlobShown
        BY <2>5, <4>1, <4>2, <4>3 DEF ListShown
      <4>5. BlobShown'
        BY <3>1, <3>2, <4>3, <4>4 DEF BlobShown, SameMark
      <4> QED
        BY <2>3, <3>1, <3>2, <4>4, <4>5 DEF ListShown, L!IsLive
    <3>5. left # "shifted" => ListFollows(s)
      BY <2>4, <3>1, <3>2, <3>3 DEF ListFollows, Precedes
    <3> QED
      BY <1>1, <2>8, <3>1, <3>2, <3>3, <3>4, <3>5, ListHandlerEnds
  \* The blob is loaded.
  <2>9. CASE /\ call[s].op \in {"refresh", "add"} /\ call[s].index # None
             /\ L!Proceed(s, "get", call[s].index) /\ win' = [win EXCEPT !.list = call[s].answer]
    <3>0. PICK index \in Nat : index = call[s].index
      BY <1>3, <2>9
    <3>1. PICK busy \in BOOLEAN : busy = win.busy
      BY <1>2, ListState
    <3>2. win' = [win EXCEPT !.list = info, !.busy = busy]
      BY <1>2, <2>2, <2>9, <3>1, ListState
    <3>3. /\ ListWinOK' /\ win'.list = info /\ SameMark /\ win'.confirm = win.confirm
      BY <1>2, <3>2, RelistedList DEF SameMark
    <3>4. /\ Others(s) /\ UNCHANGED <<files, sessions, doubt>>
          /\ IsListHandler(call'[s]) /\ call'[s].op = call[s].op /\ call'[s].req = "get"
          /\ call'[s].path = call[s].path /\ call'[s].index = index
          /\ call'[s].alone = call[s].alone /\ ~Returned(call'[s])
      BY <1>1, <2>9, <3>0, ListNothing, ListAskedNext
    <3>5. call[s].alone => ListSound(call[s])'
      <4>2. call'[s].req \notin {"open", "create", "delete", "replace"} /\ call'[s].path = info.path
        BY <2>3, <3>4
      <4> QED
        BY <2>3, <2>5, <3>3, <3>4, <4>2 DEF ListSound, L!IsLive
    <3>6. doubt = "none" => ListScreenOf(call[s])'
      <4>1. ASSUME doubt = "none" PROVE ListShown'
        <5>1. call[s].alone /\ win.list # None /\ win.list.path = info.path
          BY <1>2, <2>3, <2>9, <4>1 DEF ListSound
        <5>2. L!IsLive(info.path) /\ BlobShown
          <6>1. CASE call[s].op = "refresh"
            <7>1. ~ListUnseen(call[s])
              BY <1>1, <1>3, <6>1 DEF ListUnseen
            <7> QED
              BY <1>2, <4>1, <5>1, <7>1 DEF ListScreenOf, ListShown
          <6>2. CASE call[s].op = "add"
            BY <1>2, <4>1, <5>1, <6>2 DEF ListScreenOf, ListShown
          <6> QED
            BY <2>9, <6>1, <6>2
        <5>3. info.blobs = files[info.path]
          BY <2>5, <5>1, <5>2 DEF L!IsLive
        <5>4. BlobShown'
          BY <3>3, <3>4, <5>1, <5>2 DEF BlobShown, SameMark
        <5> QED
          BY <2>3, <3>3, <3>4, <5>2, <5>3, <5>4 DEF ListShown, L!IsLive
      <4>2. ~ListUnseen(call[s])'
        BY <2>9, <3>4 DEF ListUnseen
      <4> QED
        BY <4>1, <4>2 DEF ListScreenOf
    <3>7. doubt # "shifted" => ListFollows(s)
      BY <2>4, <3>3, <3>4 DEF ListFollows, Precedes
    <3> QED
      BY <1>1, <2>9, <3>0, <3>3, <3>5, <3>6, <3>7, ListNothing, ListReadsNext
  <2> QED
    BY <1>1, <1>3, <1>5, <2>7, <2>8, <2>9 DEF L!ListArrives
<1> QED
  BY <1>4, <1>5

LEMMA BlobArrivesKeeps == ASSUME ListInv, NEW s \in Slot, L!BlobArrives(s) PROVE ListInv'
<1>1. call[s] # None /\ call[s].req = "get" /\ call[s].answer # None
  BY DEF L!BlobArrives, L!Answered
<1>2. /\ IsListHandler(call[s]) /\ ListTypes /\ ListStaged(call[s]) /\ ListTold(call[s])
      /\ (call[s].alone => ListSound(call[s]))
      /\ doubt = "none" => call[s].alone /\ ListScreenOf(call[s])
      /\ Returned(call[s]) => call[s].answer \in L!Results(call[s].req)
      /\ FilesOK /\ call[s].path \in Path /\ call[s].alone \in BOOLEAN
      /\ doubt \in {"none", "behind", "shifted"}
  BY <1>1, ListKnown
<1>3. /\ call[s].op \in {"select", "refresh", "add", "replace"} /\ ~Shifted(call[s])
      /\ call[s].index \in Nat
  BY <1>1, <1>2, ListFields DEF ListStaged, Shifted, L!Shifting
<1>4. PICK left \in {"none", "behind", "shifted"} :
          left = IF call[s].op = "refresh" /\ L!Ok(s) THEN L!Shown(s)
                 ELSE IF call[s].op = "replace" /\ ~L!Ok(s) THEN L!Unread ELSE doubt
  BY <1>2 DEF L!Shown, L!Unread
<1>5. L!Done(s, left) /\ UNCHANGED <<files, sessions>>
  BY <1>4 DEF L!BlobArrives, L!Done
\* The doubt ends with a blob that a refresh reads, and stays none but for a blob that
\* could not be read again.
<1>s. /\ ~call[s].alone => left = doubt
      /\ left = "none" => \/ call[s].alone /\ call[s].op = "refresh" /\ L!Ok(s)
                          \/ doubt = "none" /\ ~(call[s].op = "replace" /\ ~L!Ok(s))
      /\ left # "shifted" => doubt # "shifted" \/ (call[s].alone /\ call[s].op = "refresh" /\ L!Ok(s))
  BY <1>2, <1>4 DEF L!Shown, L!Unread
<1>6. PICK selected, blob :
          /\ selected = (IF L!Ok(s) THEN call[s].index
                         ELSE IF call[s].op = "select" THEN None ELSE win.selected)
          /\ blob = (IF L!Ok(s) THEN call[s].answer
                     ELSE IF call[s].op = "select" THEN None ELSE win.blob)
  OBVIOUS
<1>7. /\ win' = [list |-> win.list, selected |-> selected, blob |-> blob, busy |-> FALSE,
                 confirm |-> win.confirm]
      /\ win.list \in L!Infos \cup {None} /\ win.confirm \in L!ChosenBlobs \cup {None}
      /\ win.selected \in Nat \cup {None} /\ win.blob \in L!Contents \cup {None}
  BY <1>2, <1>6, ListState DEF L!BlobArrives
<1>8. L!Ok(s) => call[s].answer \in L!Contents /\ call[s].answer.index = call[s].index
  BY <1>1, <1>2, ListResults, Unfailed DEF ListTold
<1>9. selected \in Nat \cup {None} /\ blob \in L!Contents \cup {None}
  BY <1>3, <1>6, <1>7, <1>8
<1>10. /\ ListWinOK' /\ win'.list = win.list /\ win'.selected = selected /\ win'.blob = blob
       /\ win'.busy = FALSE /\ win'.confirm = win.confirm
  BY <1>7, <1>9 DEF ListWinOK
<1>11. Marked' \/ (SameMark /\ call[s].op # "select")
  <2>1. CASE L!Ok(s)
    <3>1. selected = call[s].index /\ blob = call[s].answer /\ blob # None /\ selected # None
      BY <1>3, <1>6, <1>8, <2>1, ListNothing
    <3> QED
      BY <1>8, <1>10, <2>1, <3>1 DEF Marked
  <2>2. CASE ~L!Ok(s) /\ call[s].op = "select"
    BY <1>6, <1>10, <2>2 DEF Marked
  <2>3. CASE ~L!Ok(s) /\ call[s].op # "select"
    BY <1>6, <1>10, <2>3 DEF SameMark
  <2> QED
    BY <2>1, <2>2, <2>3
<1>12. ASSUME left = "none" PROVE ListShown'
  <2>0. /\ call[s].alone
        /\ \/ call[s].op = "refresh" /\ L!Ok(s)
           \/ doubt = "none" /\ ~(call[s].op = "replace" /\ ~L!Ok(s))
    BY <1>2, <1>s, <1>12
  <2>1. win.list # None /\ call[s].path = win.list.path
    BY <1>2, <1>3, <2>0 DEF ListSound
  <2>2. CASE ~L!Ok(s)
    <3>1. doubt = "none" /\ call[s].op # "replace"
      BY <2>0, <2>2
    <3>2. ~ListUnseen(call[s])
      BY <1>1, <3>1 DEF ListUnseen
    <3>3. ListShown
      BY <1>2, <3>1, <3>2 DEF ListScreenOf
    <3>4. blob \in {None, win.blob}
      BY <1>6, <2>2
    <3>5. BlobShown'
      BY <1>5, <1>10, <2>1, <3>3, <3>4 DEF ListShown, BlobShown
    <3> QED
      BY <1>5, <1>10, <2>1, <3>3, <3>5 DEF ListShown, L!IsLive
  <2>3. CASE L!Ok(s)
    <3>1. /\ L!IsLive(call[s].path) /\ call[s].index + 1 \in DOMAIN files[call[s].path]
          /\ call[s].answer.data = files[call[s].path][call[s].index + 1]
      BY <1>1, <1>2, <2>0, <2>3, Unfailed DEF ListSound
    <3>2. win.list.blobs = files[call[s].path]
      <4>1. CASE call[s].op # "select"
        BY <1>1, <1>2, <2>0, <3>1, <4>1 DEF ListSound, L!IsLive
      <4>2. CASE call[s].op = "select"
        <5>1. doubt = "none"
          BY <2>0, <4>2
        <5>2. ~ListUnseen(call[s])
          BY <1>1, <4>2 DEF ListUnseen
        <5> QED
          BY <1>2, <2>1, <5>1, <5>2 DEF ListScreenOf, ListShown
      <4> QED
        BY <4>1, <4>2
    <3>3. blob = call[s].answer
      BY <1>6, <2>3
    <3>4. BlobShown'
      BY <1>5, <1>8, <1>10, <2>1, <2>3, <3>1, <3>3 DEF BlobShown
    <3> QED
      BY <1>5, <1>10, <2>1, <3>1, <3>2, <3>4 DEF ListShown, L!IsLive
  <2> QED
    BY <2>2, <2>3
<1>13. ASSUME left # "shifted" PROVE ListFollows(s)
  <2>1. CASE doubt # "shifted"
    BY <1>1, <1>3, <1>5, <1>10, <2>1, SameListFollows
  <2>2. CASE call[s].alone /\ call[s].op = "refresh"
    <3>1. /\ L!IsLive(call[s].path) /\ win.list # None /\ call[s].path = win.list.path
          /\ win.list.blobs = files[call[s].path]
      BY <1>1, <1>2, <2>2 DEF ListSound
    <3>2. PICK list \in L!Infos : list = win.list
      BY <1>7, <3>1
    <3>3. Precedes(list)
      BY <1>2, <3>1, <3>2, WholePrecedes
    <3> QED
      BY <1>5, <1>10, <3>2, <3>3 DEF ListFollows, Precedes
  <2> QED
    BY <1>s, <1>13, <2>1, <2>2
<1> QED
  BY <1>1, <1>5, <1>10, <1>11, <1>12, <1>13, <1>s, ListHandlerEnds

LEMMA ListAnswersAreSafe == ASSUME ListInv, NEW s \in Slot, L!Arrives(s) PROVE ListInv'
  BY ListArrivesKeeps, AddArrivesKeeps, BlobArrivesKeeps, FileOfListArrivesKeeps, ExportArrivesKeeps,
     ReplaceArrivesKeeps, DeleteArrivesKeeps, CloseListArrivesKeeps DEF L!Arrives

-----------------------------------------------------------------------------
(* The invariant of the list window                                        *)

LEMMA ListInitially == L!Init => ListInv
<1> SUFFICES ASSUME L!Init PROVE ListInv
  OBVIOUS
<1>1. /\ files \in [Path -> Seq(Blob) \cup {None}]
      /\ sessions = [p \in Path |-> None] /\ call = [s \in Slot |-> None] /\ doubt = "none"
      /\ win = [list |-> None, selected |-> None, blob |-> None, busy |-> FALSE, confirm |-> None]
  BY ListWindowAssumption DEF L!Init
<1>2. /\ win.list = None /\ win.selected = None /\ win.blob = None /\ win.busy = FALSE
      /\ win.confirm = None
  BY <1>1
<1>3. /\ \A p \in Path : sessions[p] = None
      /\ \A s \in Slot : call[s] = None
  BY <1>1
<1>4. FilesOK
  BY <1>1, <1>3, ListNothing DEF FilesOK, L!IsLive, L!ListSessions
<1>5. ListWinOK
  BY <1>1 DEF ListWinOK
<1>6. ListTypes
  BY <1>1, <1>3, <1>4, <1>5 DEF ListTypes
<1>7. ListAlone /\ ListBusyHeld /\ ListMarked
  BY <1>2, <1>3 DEF ListAlone, ListBusyHeld, ListMarked, Marked
<1>8. ListScreen
  BY <1>2, <1>3 DEF ListScreen, ListShown
<1>9. ListBehind /\ ListChosen
  BY <1>2, <1>3 DEF ListBehind, ListChosen
<1> QED
  BY <1>6, <1>7, <1>8, <1>9 DEF ListInv

LEMMA ListStutters == ASSUME ListInv, UNCHANGED L!vars PROVE ListInv'
<1>1. UNCHANGED <<files, sessions, win, call, doubt>>
  BY DEF L!vars
<1>2. ListWinOK'
  BY <1>1, ListState DEF ListInv, ListWinOK
<1>3. win'.confirm # None /\ win'.confirm.sure =>
          SeenIn(win.confirm)' /\ \A t \in Slot : ~L!Shifts(t)
  BY <1>1 DEF ListInv, ListChosen, SeenIn
<1> QED
  BY <1>1, <1>2, <1>3, ListConfirmKeeps

LEMMA ListPreserved == ListInv /\ [L!Next]_(L!vars) => ListInv'
  BY ListServiceIsSafe, ListAnswersAreSafe, ListUserIsSafe, RequestDeleteBlobKeeps,
     CancelConfirmKeeps, ListStutters DEF L!Next

\* Every reachable state of the list window satisfies the inductive invariant, whatever the
\* files, the slots and the faults are.
THEOREM ListWindowInductive == L!Spec => []ListInv
<1>1. L!Init => ListInv
  BY ListInitially
<1>2. ListInv /\ [L!Next]_(L!vars) => ListInv'
  BY ListPreserved
<1> QED
  BY <1>1, <1>2, PTL DEF L!Spec

\* Between two handlers the window shows the list that is open, and the blob that is marked,
\* as they are in the file, unless the doubt tells why not.
THEOREM ListScreenIsTrue == L!Spec => []ListTrue
<1>1. ListInv => ListTrue
  BY DEF ListInv, ListScreen, ListShown, BlobShown, ListTrue, Idle, L!Idle, IsLive, L!IsLive
<1> QED
  BY <1>1, ListWindowInductive, PTL

\* When no answer is awaited, the blob that is shown is the one that is marked, and the
\* window is not busy, in whatever order the answers came.
THEOREM BlobStaysMarked == L!Spec => []BlobIsMarked
<1>1. ListInv => BlobIsMarked
  BY DEF ListInv, ListMarked, Marked, ListBusyHeld, Idle, L!Idle, BlobIsMarked
<1> QED
  BY <1>1, ListWindowInductive, PTL

\* What the user deletes, replaces or exports is the blob that he chose, whatever handlers
\* ran before and, of those that may begin, beside it, unless one of them shifts the index
\* or an add leaves this blob with a tail.
THEOREM ListActsOnSeen == L!Spec => []ActsOnSeen
<1>1. ASSUME ListInv PROVE ActsOnSeen
  <2>1. SUFFICES ASSUME NEW s \in Slot, NEW req \in {"delete", "replace", "export"},
                        Pending(s, req), call[s].sure, Has(call[s])
                 PROVE  files[call[s].path][call[s].index + 1] = call[s].seen
    BY DEF ActsOnSeen
  <2>2. call[s] # None /\ call[s].req = req /\ call[s].answer = None
    BY <2>1 DEF Pending
  <2>3. ListStaged(call[s])
    BY <1>1, <2>2, ListKnown
  <2>4. Unacted(call[s])
    BY <2>2, <2>3 DEF Unacted, ListStaged
  <2> QED
    BY <1>1, <2>1, <2>2, <2>4 DEF ListInv, ListChosen, SeenIn
<1> QED
  BY <1>1, ListWindowInductive, PTL

==============================================================================
