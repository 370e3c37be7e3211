------------------------------- MODULE Table --------------------------------
(***************************************************************************)
(* Table files (binarytable/table.go, header.go, column.go): a header      *)
(* with the row count, the length of the schema and the schema as text,    *)
(* then rows of fixed size. A table is a header in memory over a stream:   *)
(* several users (editor sessions, command line processes) can have the    *)
(* same stream open, each with the header it read.                         *)
(*                                                                         *)
(* Cells of the stream are numbers (an int32 takes one) or text tokens;    *)
(* zero bytes read as the number 0. A file may be created again while      *)
(* others have it open: the editor closes its own sessions on the path     *)
(* first, but nothing stops another process. Those others work on with     *)
(* stale headers, and the first of their writes spoils the file.           *)
(***************************************************************************)
EXTENDS Integers, Sequences, SequencesExt, FiniteSets

CONSTANTS
    Layouts,  \* headers a creation may ask for: [rows, columns]
    Byte,     \* values of a byte of a cell, with 0
    User,     \* those that open the file
    Faults,   \* "write", "crash"
    None

VARIABLES
    stream,    \* the cells of the file; None before it exists
    header,    \* the header each user works with, or None
    creating,  \* who writes which header and the next write of it, or None
    clearing,  \* per user: the row ClearTableRow works on and the next column, or None
    stale,     \* history: those that have it open since before the last creation was done
    spoiled    \* history: one of them has written since the creation began

vars == <<stream, header, creating, clearing, stale, spoiled>>

Num(n) == <<"num", n>>
Text(s) == <<"text", s>>
Zero == Num(0)

Types == {"INT", "STRING", "RAW"}
Column == [name : STRING, length : Nat, type : Types]
\* Numbers; names, types and separators.
Token == ({"num"} \X Nat) \cup ({"text"} \X (STRING \cup Types \cup {"/", "\n"}))
Empty == [rows |-> 0, columns |-> << >>]
Creation == [by : User, h : Layouts, at : {"prefix", "schema"}]
Clearing == [row : Nat, c : Nat]

\* None is none of the values it stands beside.
ASSUME TableAssumption ==
    /\ 0 \in Byte /\ Byte \subseteq Nat
    /\ Faults \subseteq {"write", "crash"}
    /\ Layouts \subseteq [rows : Nat, columns : Seq(Column)]
    /\ None \notin Layouts \cup {Empty} \cup Creation \cup Clearing
    /\ None \notin Seq(Token)
    /\ \A l \in Layouts : None \notin
           [layout : {l}, cells : [(0 .. l.rows - 1) \X DOMAIN l.columns -> Seq(Nat)]]

-----------------------------------------------------------------------------
(* The schema                                                              *)

\* encodeColumns: name/length/TYPE and a line feed.
Line(c) == <<Text(c.name), Text("/"), Num(c.length), Text("/"), Text(c.type), Text("\n")>>
EncodeColumns(columns) ==
    [p \in 1 .. 6 * Len(columns) |-> Line(columns[(p - 1) \div 6 + 1])[((p - 1) % 6) + 1]]

\* NewHeader: names are not empty, have no separator and differ; lengths are positive.
ValidHeader(columns) ==
    /\ \A i \in DOMAIN columns : columns[i].name \notin {"", "/", "\n"} /\ columns[i].length > 0
    /\ \A i, j \in DOMAIN columns : columns[i].name = columns[j].name => i = j

\* The lines found so far with the one begun, unless it is empty.
Ended(lines) ==
    IF lines.begun = << >> THEN lines.whole ELSE Append(lines.whole, lines.begun)

Cut(lines, token) ==
    IF token = Text("\n") THEN [whole |-> Ended(lines), begun |-> << >>]
    ELSE [whole |-> lines.whole, begun |-> Append(lines.begun, token)]

\* The lines of a text, without the empty ones: the text is cut at each break.
Lines(text) ==
    LET cut[i \in 0 .. Len(text)] ==
            IF i = 0 THEN [whole |-> << >>, begun |-> << >>]
            ELSE CHOOSE new \in {Cut(old, text[i]) : old \in {cut[i - 1]}} : TRUE
    IN  Ended(cut[Len(text)])

\* A line of parseColumns: SplitN at the first two separators. The model has one
\* token for each part.
LineOK(l) ==
    /\ Len(l) = 5 /\ l[2] = Text("/") /\ l[4] = Text("/")
    /\ l[1][1] = "text" /\ l[3][1] = "num" /\ l[5] \in {Text(type) : type \in Types}

ColumnOf(l) == [name |-> l[1][2], length |-> l[3][2], type |-> l[5][2]]

-----------------------------------------------------------------------------
(* The layout of a file                                                    *)

SchemaSize(h) == 2 + Len(EncodeColumns(h.columns))

\* StartPos of column c in a row: the lengths before it.
StartPos(h, c) ==
    LET before[i \in 0 .. Len(h.columns)] ==
            IF i = 0 THEN 0 ELSE before[i - 1] + h.columns[i].length
    IN  before[c - 1]

MaxRowLength(h) == StartPos(h, Len(h.columns) + 1)

Capacity(h) == SchemaSize(h) + h.rows * MaxRowLength(h)

Position(h, row, c) == SchemaSize(h) + row * MaxRowLength(h) + StartPos(h, c)

\* WriteAt: a gap before the cells is filled with zeros.
Written(s, at, data) ==
    [p \in 1 .. (IF at + Len(data) > Len(s) THEN at + Len(data) ELSE Len(s)) |->
        CASE p \in at + 1 .. at + Len(data) -> data[p - at]
          [] p \notin at + 1 .. at + Len(data) /\ p <= Len(s) -> s[p]
          [] OTHER -> Zero]

Prefix(h) == <<Num(h.rows), Num(Len(EncodeColumns(h.columns)))>>

\* The header with these lines as its schema, or None when one of them is corrupt.
HeaderOf(rows, lines) ==
    LET columns == [i \in DOMAIN lines |-> ColumnOf(lines[i])] IN
    IF (\A i \in DOMAIN lines : LineOK(lines[i])) /\ ValidHeader(columns)
    THEN [rows |-> rows, columns |-> columns] ELSE None

\* FromReader: the header that stream s begins with, or None when it is corrupt.
FromReader(s) ==
    IF s # None /\ Len(s) >= 2 /\ s[1][1] = "num" /\ s[2][1] = "num" /\ s[2][2] <= Len(s) - 2
    THEN CHOOSE h \in {HeaderOf(s[1][2], lines) :
                        lines \in {Lines(text) : text \in {SubSeq(s, 3, 2 + s[2][2])}}} : TRUE
    ELSE None

\* n cells behind position at; what lies behind the end of the stream reads as zero.
Cells(s, at, n) == [k \in 1 .. n |-> IF at + k <= Len(s) THEN s[at + k][2] ELSE 0]

\* getValue
GetValue(s, h, row, c) ==
    CHOOSE v \in {Cells(s, at, h.columns[c].length) : at \in {Position(h, row, c)}} : TRUE

-----------------------------------------------------------------------------
TypeOK ==
    /\ stream \in Seq(Token) \cup {None}
    /\ header \in [User -> Layouts \cup {Empty, None}]
    /\ creating \in Creation \cup {None}
    /\ clearing \in [User -> Clearing \cup {None}]
    /\ \A u \in User : clearing[u] # None =>
           /\ header[u] # None /\ clearing[u].row \in 0 .. header[u].rows - 1
           /\ clearing[u].c \in 1 .. Len(header[u].columns)
    /\ stale \subseteq {u \in User : header[u] # None}
    /\ spoiled \in BOOLEAN

Init ==
    /\ stream = None
    /\ header = [u \in User |-> None]
    /\ creating = None
    /\ clearing = [u \in User |-> None]
    /\ stale = {}
    /\ spoiled = FALSE

Ready(u) == header[u] # None /\ clearing[u] = None

-----------------------------------------------------------------------------
(* Creating, opening, closing                                              *)

\* CreateFile truncates to the capacity; New on a growable stream has it empty. Whether
\* the file exists is not asked (-force), or was asked before (fileExists).
\* Bound: one creation at a time.
CreateFile(u, l) ==
    /\ creating = None /\ header[u] = None
    /\ ValidHeader(l.columns)
    /\ stream' \in {[p \in 1 .. Capacity(l) |-> Zero], << >>}
    /\ creating' = [by |-> u, h |-> l, at |-> "prefix"]
    /\ stale' = {o \in User : header[o] # None}
    /\ spoiled' = FALSE
    /\ UNCHANGED <<header, clearing>>

\* writeHeader: the numbers first, then the schema; the creator then has the table.
WritePrefix ==
    /\ creating # None /\ creating.at = "prefix"
    /\ stream' = Written(stream, 0, Prefix(creating.h))
    /\ creating' = [creating EXCEPT !.at = "schema"]
    /\ UNCHANGED <<header, clearing, stale, spoiled>>

WriteSchema ==
    /\ creating # None /\ creating.at = "schema"
    /\ stream' = Written(stream, 2, EncodeColumns(creating.h.columns))
    /\ header' = [header EXCEPT ![creating.by] = creating.h]
    /\ creating' = None
    /\ UNCHANGED <<clearing, stale, spoiled>>

CreateFails ==
    /\ "write" \in Faults /\ creating # None
    /\ creating' = None
    /\ UNCHANGED <<stream, header, clearing, stale, spoiled>>

\* Bound: a spoiled file is not opened, its contents can be anything.
Open(u) ==
    /\ header[u] = None /\ ~spoiled
    /\ creating # None => creating.by # u
    /\ FromReader(stream) # None
    /\ header' = [header EXCEPT ![u] = FromReader(stream)]
    /\ stale' = IF creating = None THEN stale ELSE stale \cup {u}
    /\ UNCHANGED <<stream, creating, clearing, spoiled>>

Close(u) ==
    /\ Ready(u)
    /\ header' = [header EXCEPT ![u] = None]
    /\ stale' = stale \ {u}
    /\ UNCHANGED <<stream, creating, clearing, spoiled>>

-----------------------------------------------------------------------------
(* Writing cells                                                           *)

Nums(bytes) == [k \in DOMAIN bytes |-> Num(bytes[k])]

\* Mutant: the two numbers in front of the schema are forgotten.
WriteCell_NoPrefix(u, row, c, data) ==
    /\ ~spoiled
    /\ stream' = Written(stream, Position(header[u], row, c) - 2, Nums(data))
    /\ spoiled' = (u \in stale)

\* WriteAtFull of the cell by u. Bound: once the file is spoiled, nothing but a creation
\* writes to it.
WriteCell(u, row, c, data) ==
    /\ ~spoiled
    /\ stream' = Written(stream, Position(header[u], row, c), Nums(data))
    /\ spoiled' = (u \in stale)

\* Mutant: no test of the length of the value.
Fits_Any(h, row, c, data) == c \in DOMAIN h.columns /\ row \in 0 .. h.rows - 1

\* The tests of setValue: column, length of the value, row.
Fits(h, row, c, data) ==
    /\ c \in DOMAIN h.columns
    /\ Len(data) <= h.columns[c].length
    /\ row \in 0 .. h.rows - 1

\* setValue; a value shorter than the column leaves the rest of the cell alone.
SetValue(u, row, c, data) ==
    /\ Ready(u) /\ Fits(header[u], row, c, data)
    /\ WriteCell(u, row, c, data)
    /\ UNCHANGED <<header, creating, clearing, stale>>

\* The value with zeros up to the length of the column.
Padded(h, c, data) ==
    [k \in 1 .. h.columns[c].length |-> IF k <= Len(data) THEN data[k] ELSE 0]

\* SetString and the editor's writePadded: the rest of the cell is zeroed.
SetPadded(u, row, c, data) ==
    /\ Ready(u) /\ Fits(header[u], row, c, data)
    /\ WriteCell(u, row, c, Padded(header[u], c, data))
    /\ UNCHANGED <<header, creating, clearing, stale>>

\* The command line's setCell: text for a STRING column is padded, bytes and text for a
\* RAW one are not, and a number has the length of its column.
SetCell(u, row, c, data, from) ==
    /\ Ready(u) /\ c \in DOMAIN header[u].columns
    /\ \/ /\ from = "bytes" \/ header[u].columns[c].type = "RAW"
          /\ SetValue(u, row, c, data)
       \/ /\ from = "value" /\ header[u].columns[c].type = "STRING"
          /\ SetPadded(u, row, c, data)
       \/ /\ from = "value" /\ header[u].columns[c].type = "INT"
          /\ Len(data) = header[u].columns[c].length
          /\ SetValue(u, row, c, data)

ClearBegin(u, row) ==
    /\ Ready(u) /\ row \in 0 .. header[u].rows - 1 /\ header[u].columns # << >>
    /\ clearing' = [clearing EXCEPT ![u] = [row |-> row, c |-> 1]]
    /\ UNCHANGED <<stream, header, creating, stale, spoiled>>

\* ClearTableRow zeroes a row column by column; a write that fails ends it.
ClearStep(u) ==
    LET h == header[u]
        k == clearing[u] IN
    /\ k # None
    /\ \/ /\ WriteCell(u, k.row, k.c, Padded(h, k.c, << >>))
          /\ clearing' = [clearing EXCEPT ![u] =
                 IF k.c = Len(h.columns) THEN None ELSE [k EXCEPT !.c = k.c + 1]]
       \/ /\ "write" \in Faults
          /\ clearing' = [clearing EXCEPT ![u] = None]
          /\ UNCHANGED <<stream, spoiled>>
    /\ UNCHANGED <<header, creating, stale>>

\* All users of the model die together; what was written stays.
Crash ==
    /\ "crash" \in Faults
    /\ header' = [u \in User |-> None]
    /\ clearing' = [u \in User |-> None]
    /\ creating' = None
    /\ stale' = {}
    /\ UNCHANGED <<stream, spoiled>>

-----------------------------------------------------------------------------
(* Searching                                                               *)

WithoutZeros(cell) == SelectSeq(cell, LAMBDA b : b # 0)

\* The value of a cell as the editor shows it and the searches compare it.
Shown(type, cell) == IF type = "STRING" THEN WithoutZeros(cell) ELSE cell

\* IndexOfInt, IndexOfLong, IndexOfDouble and IndexOfString: the first row from start on
\* with the value, or -1.
IndexOf(u, c, value, start) ==
    LET h == header[u]
        from[row \in 0 .. h.rows] ==
            IF row = h.rows THEN -1
            ELSE IF Shown(h.columns[c].type, GetValue(stream, h, row, c)) = value THEN row
            ELSE from[row + 1]
    IN  from[start]

\* Mutant: the search goes on at the row it has just found.
WithNext_SameRow(u, c, value, rows) ==
    LET next == IndexOf(u, c, value, IF rows = << >> THEN 0 ELSE Last(rows)) IN
    IF next = -1 THEN rows ELSE Append(rows, next)

\* One round of the loop of SearchTableRows over one of the IndexOf functions: the next
\* row found is added to those before it.
WithNext(u, c, value, rows) ==
    LET next == IndexOf(u, c, value, IF rows = << >> THEN 0 ELSE Last(rows) + 1) IN
    IF next = -1 THEN rows ELSE Append(rows, next)

Search(u, c, value, limit) ==
    LET after[n \in 0 .. limit] ==
            IF n = 0 THEN << >> ELSE WithNext(u, c, value, after[n - 1])
    IN  after[limit]

\* Its loop for bytes, which takes every row in turn until it has limit hits.
SearchBytes(u, c, value, limit) ==
    LET h == header[u]
        upto[row \in 0 .. h.rows] ==
            IF row = 0 THEN << >>
            ELSE IF Len(upto[row - 1]) < limit /\ GetValue(stream, h, row - 1, c) = value
                 THEN Append(upto[row - 1], row - 1) ELSE upto[row - 1]
    IN  upto[h.rows]

SearchTableRows(u, c, value, format, limit) ==
    IF format = "hex" \/ header[u].columns[c].type = "RAW"
    THEN SearchBytes(u, c, value, limit)
    ELSE Search(u, c, value, limit)

\* table search of the command line, which does not search RAW columns: the first row
\* from start on.
TableSearch(u, c, value, start) ==
    IF header[u].columns[c].type = "RAW" THEN None ELSE IndexOf(u, c, value, start)

\* Values offered for a cell: a byte repeated, up to one longer than any column.
SomeLengths == UNION {UNION {0 .. l.columns[c].length + 1 : c \in DOMAIN l.columns} : l \in Layouts}
Values == {[k \in 1 .. n |-> b] : n \in SomeLengths, b \in Byte}
SomeRows == UNION {0 .. l.rows : l \in Layouts}
SomeColumns == UNION {1 .. Len(l.columns) + 1 : l \in Layouts}

Next ==
    \/ WritePrefix \/ WriteSchema \/ CreateFails \/ Crash
    \/ \E u \in User :
          \/ \E l \in Layouts : CreateFile(u, l)
          \/ Open(u) \/ Close(u) \/ ClearStep(u)
          \/ \E row \in SomeRows :
                \/ ClearBegin(u, row)
                \/ \E c \in SomeColumns, data \in Values :
                    \/ SetPadded(u, row, c, data)
                    \/ \E from \in {"value", "bytes"} : SetCell(u, row, c, data, from)

Spec == Init /\ [][Next]_vars

-----------------------------------------------------------------------------
(* Properties                                                              *)

\* The table that an open of the file would find now, from the header it has. That of a
\* file that was truncated but not yet written reads as a table without rows and columns.
\* Of a spoiled file nothing is promised.
TableOf(h) ==
    IF h \in {None, Empty} \/ spoiled THEN None
    ELSE [layout |-> h,
          cells |-> [rc \in (0 .. h.rows - 1) \X DOMAIN h.columns |->
                         GetValue(stream, h, rc[1], rc[2])]]

Found == CHOOSE t \in {TableOf(h) : h \in {FromReader(stream)}} : TRUE

CS == INSTANCE CellStore WITH NoTable <- None, table <- Found

\* The file is a cell store: every write changes one cell, none changes the header,
\* and creation, interrupted or not, gives the table that was asked for or none.
RefinesCellStore == CS!Spec

\* Unless a user with an old header spoils it, whoever has opened the file since the
\* creation works with the header that is in it, so all positions are right, whatever
\* was written through other headers and whatever creations and writes broke off.
HeadersAgree ==
    ~spoiled => \A u \in User \ stale : header[u] # None => header[u] = FromReader(stream)

\* found are, in order, the first of the rows in showing, as many as there are up to limit.
FirstOf(found, showing, limit) ==
    /\ Len(found) <= limit /\ Range(found) \subseteq showing
    /\ \A i, j \in DOMAIN found : i < j => found[i] < found[j]
    /\ \A row \in showing \ Range(found) :
           Len(found) = limit /\ \A i \in DOMAIN found : found[i] < row

\* A search through any of these headers returns, in order, the first rows of the file's
\* table that show the value, as many as there are up to the limit; that of the command
\* line the first one from its start on.
SearchExact ==
    \A u \in User, t \in {Found} \ {None} :
        Ready(u) /\ u \notin stale =>
            \A c \in DOMAIN t.layout.columns, format \in {"typed", "hex"}, value \in Values :
                LET type == IF format = "hex" THEN "RAW" ELSE t.layout.columns[c].type
                    showing == {row \in 0 .. t.layout.rows - 1 :
                                    Shown(type, t.cells[<<row, c>>]) = value}
                IN  /\ \A limit \in 1 .. 2 :
                           FirstOf(SearchTableRows(u, c, value, format, limit), showing, limit)
                    /\ type # "RAW" => \A start \in 0 .. t.layout.rows :
                           LET behind == {row \in showing : row >= start} IN
                           TableSearch(u, c, value, start)
                               = IF behind = {} THEN -1 ELSE Min(behind)
=============================================================================
