# A verification development for BinaryTableData

BinaryTableData stores tables of fixed-width rows, lists of variable-length
blobs and block-compressed streams in files that its Kotlin library
(`src/lib`) and its Go port (`src/tinygo`) read in both directions. On the Go
library stand a command line tool and a desktop editor (Wails: a Go service
behind a TypeScript window). This directory holds TLA+ models of that code, the
TLC runs that check them on small instances, and TLAPS proofs.

## 1. The system

| Component | Source | State | Operations | What is hard about it |
| --- | --- | --- | --- | --- |
| BinaryList | `tinygo/binarytable/binarylist.go` | stream; `realSize`, `maxSize` under `l.mu` | `NewBinaryList`, `Initialize`, `Add*`, `Reader/Open/Bytes`, `GuessListCapacity` | three writes per Add that can fail or be cut off by a crash; readers outside the lock; the capacity is not stored |
| Streams | `stream.go`, `file.go`, `bytearray.go`, `subreader.go`, `ioadapter.go` | bytes, size (cached in `FileStream`) | `ReadAt`, `WriteAt`, `Grow`, `Sync`, `Close`, windows and joins | boundaries, growth in blocks, a cached size that another handle outgrows |
| Block deflate | `deflate.go`, `compression.go` | header, block index, blocks | `Deflate`, `ReadDeflateHeader`, `DeflateReader.ReadAt`, `InflateStream` | reading while the writer is under way or after it died, exact multiples of the block size, the caller's header bytes |
| Cache | `cache.go` | LRU list and map under a mutex | `Get`, `Put`, `Contains`, `Remove`, `Clear` | recency order, the limit, `Get` and `Put` of one block as two critical sections |
| Table | `table.go`, `header.go`, `column.go`, `search.go`, `encoding.go` | header and columns, one stream | create/open, cell get/set by column, `SetString`, `GetAllRows`, `IndexOf*` | offsets of cells, stale tails after short writes, rows past the end |
| App | `gui/app.go` | `tables`, `lists` under `a.mu` | `CloseAll`, dialogs | two levels of locks, sessions opened outside the lock |
| List service | `gui/list_service.go` | `listSession` (stream, list, max) under `s.mu` | create, open, open compressed, close, add, get, export, delete, replace | check-then-act on the session map; the rename protocol of `rewrite` |
| Table service | `gui/table_service.go` | `tableSession` under `s.mu` | create, open, open read-only or compressed, close, rows, set, clear, search | the same map races; multi-column clears that stop half-way |
| Deflate service | `gui/deflate_service.go` | files | inspect, pack, unpack | removal of the output when a step fails |
| CLI | `internal/cli/*.go`, `cmd` | none between calls | table, list, deflate, crypto, zlib commands | several processes on one file; no clean-up of partial outputs |
| Crypto | `cryptoutil/*.go` | none | AES-CBC with PKCS7, RSA, random strings | padding at block boundaries |
| Editor window | `gui/frontend/src/*` | the open table page, the open list, selection | open, load, edit, search, embed | answers that arrive after the user has moved on |
| Kotlin library | `lib/src/main/kotlin/**` | as the Go library | as the Go library | shared `position()` of a mapped buffer, unsynchronised growth, `Int` arithmetic |

How they interact: the CLI and the services call the library directly. A table
or list holds one `Stream`; a compressed view is a `DeflateReader` over a
read-only `FileStream`, wrapped by `AsStream`. The window calls the services
through Wails; every call runs on a goroutine of its own, so two calls for one
path interleave at every lock. A session is found in a map under `a.mu`, which
is released before the session's own mutex is taken.

## 2. The plan

In the order of what goes wrong at the greatest cost: first the stored blobs,
then the protocols around them, then what reads and shows them.

| Step | Module | Question | State |
| --- | --- | --- | --- |
| 1 | `BinaryList`, `BlobLog` | Does an acknowledged blob survive everything? | checked and proved |
| 2 | `ListCapacity` | Does a reopened list know its capacity? | checked and proved |
| 3 | `ListRewrite`, `EditableList` | Is a delete or replace atomic? | checked and proved |
| 4 | `Sessions` | Do concurrent calls of the editor leak, block or lose? | checked; proved but for the blocking |
| 5 | `Deflate`, `CacheOps` | Is every read of a compressed file right, at any moment? | checked and proved |
| 6 | `Table`, `CellStore` | Is a table file a store of independent cells, also while it is created again under others? Are searches exact? | checked and proved |
| 7 | `Streams`, `ByteSequence` | Sizes, growth, windows and joins; copies that race with writers | checked and proved |
| 8 | `TableWindow`, `ListWindow` | The window's state (`App.tsx`) against answers that come late, out of order, with an error or for something closed | checked and proved |
| 9 | `WholeFile` | Pack, unpack and the other commands that make a file from a file: what is left when one of their steps fails | checked and proved |
| 10 | `KotlinList` | The Kotlin list on the same file format, against `BlobLog` | not planned any more: the port is the program that is developed |

Which module rests on which: `BinaryList` instantiates `BlobLog`, `ListRewrite`
instantiates `EditableList`, `Table` instantiates `CellStore` and `Streams`
instantiates `ByteSequence`, each as the abstract specification it implements.
`Deflate` extends `CacheOps`, `ListCapacity` extends `CapacityLayout` (the layout
and what must hold of it), and `TableWindow` and `ListWindow` both extend `Window`
(what the two halves of the window share), the second through `ListView` (the
state of the list half and what must hold of it). `ListRewrite` takes a list as the sequence of its
blobs, which is what `BinaryList` shows a list to be; `Sessions` takes it as a
sequence with a cached count per session, which is the part of it that other
sessions make stale. `TableWindow` and `ListWindow` stand on the services: a
request is one step, as `Sessions` and `Table` show the work of a call on a session
to be, and a delete or replace happens at once or not at all, as in
`EditableList`. `WholeFile` takes a codec as something that adds a layer or takes it
away, which for the block format is what `Deflate` shows.

Theorems, in order, all done: the safety of `BinaryList` and that it implements
`BlobLog`; `ListRewrite` with `EditableList`; the cache and the reads of
`Deflate`; `Sessions`; `ListCapacity`; `Streams` with `ByteSequence`; `WholeFile`;
`Table` with `CellStore` and its searches; `TableWindow`; `ListWindow`.

## 3. The modules and the code

### BinaryList (`binarylist.go`)

`size`, `count`, `index` and `payload` are the file; `realSize` is the field of
the same name, or `Closed` when no process has the list open. `pc` is the place
of the method that holds `l.mu`: `"idle"` means the mutex is free. Every call of
`WriteAt` or `Grow`, and each part of `io.Copy`, is a step. `AddBegin`, `CopyBytes`,
`CopyDone`, `GrowToStart`, `WriteIndex` and `WriteCount` are the course of
`addReaderLocked`; `Fail` and `TooLong` are its error returns; `Crash` ends the
process anywhere. `NewBinaryList`, `Initialize` and `Reserve` open a list.
`OpenReader` is `Reader`, and `views` are the `SubReader`s that callers hold
after `l.mu` was released. `acked` is a history variable: the blob each
successful `Add` stored.

Abstractions: count and slot are written whole (four bytes at one offset; a torn
integer is not modelled), a write that returned is on disk (the code syncs only
in `rewrite`; the model's crash is the death of the process, not of the
machine).

### BlobLog, EditableList, CellStore

What a caller may rely on, without offsets, locks or steps. `BlobLog`: blobs are
appended and never changed, except that the last one can gain a tail when an
append fails, because a list stores no lengths. `EditableList`: an append,
delete or replace happens at once. `CellStore`: a layout fixed by the creation,
and cells of which a write changes one.

### ListCapacity, CapacityLayout (`GuessListCapacity` and its callers)

Index and payload share one address space, so a wrong capacity can write a slot
into a blob. `Create`, `OpenRecovered`, `OpenNamed`, `OpenListNamed` and `Close`
are the ways the editor and the CLI get at a list; `Add`, `AddFails`,
`DeleteBlob` and `ReplaceBlob` change it. `AddFails` is an Add that breaks off at
any of its writes, by an error or by the death of the process: in the copy of
the payload, behind it, or at the count, when the slot is in the file already.
`made` (the capacity the list was laid
out for), `damaged`, `spilled`, `over` (opened with a larger capacity than it
was made for) and `beyond` (an Add, whether it succeeded or not, wrote a slot behind
those of `made`) are history.

`rewrite` adds the blobs one after the other to a new list. `Rebuilt` says where
they come to lie, from the places they had: a blob begins where those before it
end.

### ListRewrite (`listSession.rewrite`)

The file system is a map from `path`, `path.bak` and the temporary name to list
contents. Each call of `rewrite` on it is an action (`Begin`, `CopyBlob`,
`CopyDone`, `SyncTemp`, `CloseOld`, `ClearBackup`, `Backup`, `Swap`,
`DropBackup`, `Reopen`), with the error path the code takes when it fails, the
rollback of the first rename and the ignored errors of `os.Remove` included. The
session is `"broken"` when it is in the map without a usable stream.

### Sessions (`app.go`, the open, create and close calls, and calls on a session)

Goroutines run one call each, for one path. `amu` and `mu` are the mutexes,
`registry` the two maps of `App`, `session` the session objects. A call is the
sequence of its critical sections: `OpenLookUp`, `CloseOld`, `Make`, `Register`,
`Info` for an open; `CreateLock`, `Evict` and the same tail for a creation;
`CloseTake`, `CloseAllTake` and `CloseEach`; `LookUp`, `Lock` and `Work` for a
call on a session. A creation that fails in `Make` may have truncated the file
that was there, and `CreateList` removes it then (`Spoils`): the blobs are gone,
whatever the caller is told. A blob list is a sequence of numbers in an inode, because
`rewrite` puts another inode at the path while an old session may hold the old
one. Session objects that nobody refers to are used again.

### Deflate, CacheOps (`deflate.go`, `cache.go`)

The file is a sequence of cells. `WriteField`, `WriteData`, `WriteStart` and
`WriteEnd` are the writes of `Deflate` in their order, `Die` is the death of the
writer after any of them. A client's `ReadAt` is `Start`, then for each block
`GetBlock`, `FetchBlock` and `PutBlock` (the cache and the source are locked one
call at a time), and `Return`. `Open` may happen at any moment. Distances are
scaled: an integer takes one cell, `FieldsAt` stands for 100 and `Reserve` for
512. The compressor is external: any run of 1 to `MaxPacked` cells, of which
only the whole inflates.

### Table (`table.go`, `header.go`, `column.go`, `search.go`, the setters and searches of the callers)

`stream` is the file, `header` the header each user read, `creating` and
`clearing` the two operations that take several writes. `FromReader` parses the
header as the code does, so a header that is cut off reads as a table without
columns or as corrupt. `EncodeColumns` writes a line per column, `Lines` cuts a
text into its lines (`Cut` takes one token, `Ended` what is left when the text
ends), and `HeaderOf` makes a header of them or refuses them. `SetValue` leaves the rest of a longer cell alone,
`SetPadded` (`SetString` and the editor's `writePadded`) clears it, and
`SetCell` is the command line's choice between the two.

A creation (`CreateFile`, `WritePrefix`, `WriteSchema`) truncates the file under
whoever has it open. Those users are `stale`: their header is that of the old
table. When one of them writes, the file is `spoiled` until it is created again.
Both are history. `IndexOf` stands for the four `IndexOf*` functions, `Search` and
`SearchBytes` for the two loops of `SearchTableRows` (`WithNext` is one turn of the first), `TableSearch` for the command line's
`table search`. A number is the bytes it has. Columns are taken by their index: the
command line's `resolveColumn` takes a name that is a number for an index, so a
column of such a name cannot be reached by it.

### Streams, ByteSequence (`stream.go`, `file.go`, `bytearray.go`, `subreader.go`, `ioadapter.go`)

`auto` is an `AutoSizeStream`, blocks and length; `store` is a file or an array,
`known` the size that each `FileStream` or `ByteArrayStream` over it remembers.
Each method is one step, as each takes its lock for all of itself. A copy
(`CopyAt`, or `io.Copy` between the two adapters) is a step per call: `CopyRead` or
`PumpRead`, then `CopyWrite`, while `AutoWrite`, `StoreWrite`, `AutoGrow` and
`StoreGrow` are the other goroutines. `SubReadAt` and `JoinedReadAt` are the reads
of views, which have no state but what they were made with. `ByteSequence` is
what an `AutoSizeStream` implements: bytes that change only where they are
written. `ToBytes` is that sequence: byte `i` is in the block that `i` falls
into.

The other modules take a stream as a sequence whose size is known exactly. That
is `SizeExact`, and it has an exception in the code: a write to a file that fails
behind its end before the first byte moves the remembered size to its offset.

### Window, TableWindow, ListView, ListWindow (`App.tsx` over the two services)

`win` is the React state: the open table or list, the page or blob shown, the
selection, the hits, the dialog, `busy`. A handler of the window is a sequence
of calls with the window free in between. `call` has the handlers under way,
each with what it took from the state when it began (a closure keeps that to its
end), its request and then its answer. The user's actions (`OpenTablePath`,
`ChangePage`, `SaveCell`, `RunConfirm`, `SelectBlob` ...) begin a handler; the
service's (`GetTableRows`, `SetTableCell`, `AddBlob`, `Rewrite` ...) answer a
request, in one step; `...Arrives` is the code behind the `await`. A handler is a
record whose fields depend on its request (`Handlers`, `Waiting`), and an answer is
one that this request can have (`Results`). `Fails` is a
request that changes nothing, `FailsLate` one that has done its work or a part
of it, and `AddBreaks` an add that fails once it has written something: the
last blob has that as its tail from then on, as in `BlobLog`. The guards of the user's actions are the `disabled` conditions of the
buttons; what has none, or can be reached with a shortcut, from the palette or
by dropping a file, has none in the model.

`doubt` is history and names every way in which the window is known to go
wrong. In `ListWindow` it is `"behind"` when the list shown may lack a change and
`"shifted"` when its indices, or what is under one of them, may have moved. A
session that lost its file in a rewrite answers no request through that file: `OpenList` goes
through its index too (`infoLocked`) and fails, so the list has to be closed, or
opened with another capacity.

### WholeFile (`deflate_service.go`, `cli/compression.go`, `cli/crypto.go`)

`link` is the directory, `data` the content of each file, `run` the command of
each process with the steps it still has to take. The editor looks for the
output before it opens the input, the command line opens first and compares the
files too, a buffer command (zlib, aes, rsa, `list get`, `ExportBlob`) has its
whole input in memory before it creates anything, `rsa generate` writes two
files. A content is a text under some layers; a file that is being written is
the text `p`. After an error in the write, the sync or the close the editor
removes the output and ignores whether that worked: a command whose removal
failed ends as `"left"`. `first`, `before`, `same` and `touched` are history. A new file
is one of the numbers that no name and no command holds; which one makes no
difference.

## 4. What the runs check

The configuration of a run is the file of its name.

| Run | Instance | What it shows |
| --- | --- | --- |
| `BinaryList_faults` | capacity 3, blobs empty, short and too long for `MaxOffset` = 19, one reader | 52,718 states: `AckedDurable`, `NoOverlap`, `OffsetsOrdered`, `OffsetsFit` through failures and crashes; views that are stable and exact; the mutex comes back; refinement of `BlobLog` |
| `Capacity` | capacities 1 and 2, named 1 and 3, default 4, blobs of 0, 1 and 5 bytes, adds that break off with 2 or 4 bytes of the blob, or with all of it and with or without its slot | 161,179 states: `DataBehindIndex` (no index write hits a blob unless an Add, successful or not, gets to a slot the list was not made for), `CapacityRecovered`, both unless an Add left bytes before the first blob |
| `Rewrite` | lists up to 2 of two blobs, every call can fail, crashes | 139,642 states: `AtomicEdits` but for the two known places, `RewritingListKept`, `SessionUsable`, `RewriteReturns`; `AtomicEdits` is the refinement of `EditableList`, with those two places excepted |
| `Sessions` | two goroutines, one of which opens and closes, all modes, two blobs | 154,820 states: `NoLeak`, `AckedKept`, `NotClosedUnderCall`, `CallsReturn` |
| `Deflate` | source of two full blocks, cache of one block, two readers, a caller header longer than the fields reach | 1.85 million states: `ReadsExact`, `CacheCoherent`, `FinishedReadable`, `CallerCellsKept`, `ReadsAdvance` |
| `Table` | an INT and a STRING column or one RAW column, two users, two rows, creations over an open file, failing writes, crashes | 45,768 states up to symmetry: `HeadersAgree`, `SearchExact`, refinement of `CellStore` |
| `Streams` | blocks of 2, chunks of 1, offsets up to 3, a file with a writer and a reader or an array of 1 byte, writes that fail at any byte | 256,580 states: `RefinesBytes`, `WindowExact` (of `SubReader` and `JoinedReader`), `SizeExact`, `CopyExact` |
| `TableWindow` | two tables, of two rows and one, pages of one or two rows, two handlers, any request may fail | 1.45 million states up to symmetry: `ScreenTrue`, `EditsOnPage`, `NotStuck` |
| `ListWindow` | a list of two blobs and a path without a file, room for two, two handlers, any request may fail, an add also half way | 2.02 million states up to symmetry: `ListTrue`, `BlobIsMarked`, `ActsOnSeen` |
| `WholeFile` | two names for two files or one, two processes, two commands, any step may fail or be the last, and the removal after it may fail | 1.29 million states up to symmetry: `InputKept`, `ExitTellsTruth`, `NoPartialLeft` |

Two more runs end in a counterexample, each against something the repository
says of the code:

- `Capacity_failedAdd` (`DataAlwaysBehindIndex`). An Add that fails in an empty
  list leaves its bytes where the first blob would begin. The next blob goes
  behind them, the first offset no longer ends on a whole entry or on the right
  one, and the list is reopened with another capacity, in whose index the blobs
  lie: a list made for one blob reopens with four, and the slot of the next Add
  takes the first bytes of its blob.
- `Rewrite_atomic` (`AlwaysAtomic`). Between its two renames `rewrite` leaves
  nothing at `path`. A crash there makes the next `OpenList` create an empty list;
  `path.bak` still holds the blobs, until the next rewrite removes it.

Seen in variants of these runs, or on the way to them, and kept out of the
properties by a condition that names them:

- Library. A list opened with a larger capacity than it was made for and filled
  beyond that writes slots into its first blobs. Deleting the only blob leaves
  an empty file without a capacity. `FileStream.Grow` goes by the size the
  stream remembers, so with two streams on a file growing one truncates what the
  other wrote. A write behind the end of a file that fails at once makes `Size`
  too large. A `JoinedReader` one of whose parts has grown reads past its own
  `Size`. The fields of the deflate header are at fixed positions, so what a caller
  has from byte 100 on is overwritten there, although `deflate.go:39` says that
  "Bytes [0,headerSize) are left untouched": that sentence (`HeaderUntouched`) fails
  at the first write on the instance of the `Deflate` run, and `CallerCellsKept` says
  what is true instead. A value shorter than its column,
  set by `SetValue`, leaves the tail of the value before it. A write through a
  header that was read before the file was created again spoils the new table.
- Sessions. Two calls that open one path both miss the map and register in turn;
  nothing closes the first session, and an acknowledged blob is overwritten
  through the other. `OpenTable` returns a read-only session that is in the map,
  although it opens tables read/write. A session that lost its file in a failed
  rewrite answers every call with an error, `OpenList` included; closing it helps, or
  opening it with another capacity.
- Window. An answer is shown although the window has moved on: the page of
  another table under the name of this one, hits of another table, a list that
  was closed. Where page and table differ the inspector shows a cell of the one
  and writes to the other. A file embedded in a cell goes to the cell that was
  selected before the dialog. An add that breaks off changes the last blob under a
  preview that stays as it was. A delete or replace that began before another one of them ended
  acts on a shifted index. A row cleared in a table no longer shown brings up
  that table's page. When the rows, or the blob, cannot be read after a change,
  what is shown is old. `tableStart` is not brought back when a reload answers
  with fewer rows.
- Search. The editor pads a RAW value that is shorter than its column, and a
  search for the bytes that were typed does not find it.
- Whole files. The editor compares paths, so two links to one file pass its test
  and the input is truncated. Nothing is locked: another process can change a
  name between any two steps. A creation that fails leaves the old file
  truncated; the command line never removes an output, and where the editor's removal
  fails the cut file stays. When `rsa generate`
  cannot write the private key, the new public one stays beside the old private
  one.

### Bounds, and why they are enough

- `MaxSize` = 3 and `MaxOffset` = 19 (`BinaryList`): the list fills up, the
  32-bit limit is met by the start and by the length of a blob, and there is a
  first, a middle and a last blob. `SchemaSize` is 4, the count alone. Nothing
  depends on the distance in between; the theorems hold for every value.
- `MaxFile` (`ListCapacity`): an Add *fails* only below this offset, so that
  failed adds do not lengthen the file for ever; adds that succeed are bounded
  by the capacity. It leaves room for a failed add before, between and after the
  blobs.
- `MaxLength` (`ListRewrite`) is the capacity of the list; 2 gives a blob that
  stays and one that goes, before or after it.
- `MaxSessions`, `MaxFiles` and `MaxAdds` (`Sessions`): sessions and inodes that
  are referenced or open at once, and blobs offered. Unreferenced ones are used
  again, so calls go on for ever; a call that would need a third session object
  waits. `MaxAdds` numbers the blobs so that a lost one is noticed.
- `Length`, `BlockSize`, `MaxPacked` and `Capacity` (`Deflate`): two full blocks
  and the empty one that the code adds, reads inside one block and across the
  border, a cache that must evict. `CHECK_DEADLOCK` is off in the `Deflate` run
  because a writer that died and clients that are done really stop.
- `MaxLength`, `BlockSize`, `ChunkSize`, `Capacity` and `Sizes` (`Streams`): a
  write or read can lie in one block, cross into the next or leave a gap; a copy
  takes two turns, so that the other goroutines get between them; the array is
  shorter than what is copied to it. `CopyAt` starts at 1 in the source, so that
  the offsets of source and target differ, or agree, with `to`.
- `Table`: values reach one byte beyond the longest column, rows one beyond the
  last.
- `Named` (`ListCapacity`): capacities below and above the one the list was made
  for.
- `Table`: one creation at a time; a spoiled file is not opened, and only a
  creation writes to it, because the properties promise nothing of it. Two rows
  and a limit of one or two hits let a search end at the limit, at the last row,
  and between.
- `TableWindow`: two rows on pages of one give a page before and behind; a page
  of two has both. Two handlers give every order of two answers; a handler that
  begins beside another one leaves a doubt, in which only one at a time begins, so
  that two is also the most the guards admit. A handler
  begins in doubt only if it can end it; behind a dialog a cell is not saved;
  `RequestClearRow` waits until no handler is under way (`RunConfirm` does not);
  a table that is created has one row; `FailsLate` happens once until the doubt
  it leaves is over; a search is for a value that a new cell does not have.
- `ListWindow`: as in `TableWindow`; besides, one file is added at a time, and a
  delete is asked for while no request waits for the service. `Room` of 2 and a
  list of two blobs: a delete shifts the other blob or does not, and an add
  finds the list full.
- `WholeFile`: `Files` = 4 is enough for both names and a file that each process
  still holds after it lost its name; `Runs` is the number of commands.
  `CHECK_DEADLOCK` is off because the commands run out.

### Fairness

- `BinaryList`: weak fairness of the steps of a method that has begun. The code
  runs on from one write to the next; nobody else can take the mutex. A failure
  or crash is never required to happen, and a new call is never required to
  begin.
- `ListRewrite`: weak fairness of the steps of a rewrite that has begun, for the
  same reason.
- `Sessions`: strong fairness of every goroutine's next step. A goroutine that
  waits for a mutex is enabled only while it is free; Go's `sync.Mutex` hands
  itself to a waiter it has starved for a millisecond, which is what strong
  fairness says.
- None in `ListCapacity`, `Table`, `Streams`, `TableWindow`, `ListWindow`,
  `WholeFile` and `Deflate`. The windows' `NotStuck` and `BlobIsMarked` say of
  every state without an open call what a liveness property would say of the
  end. That a `ReadAt` of a compressed file ends is checked as an action
  property: every step of a read lowers a variant (`ReadsAdvance`), whatever the
  scheduler does.

## 5. What is proved

Eight modules hold the proofs, one per component; `ListProofs` covers both the
editing and the capacity of a list (the latter as the instance `C` of
`ListCapacity`), `WindowProofs` both halves of the window (the list half as the
instance `L` of `ListWindow`). What they show holds for every value
of the constants the assumptions of the modules allow: any number of blobs,
files, names, goroutines and processes, every size of a block, an index or a
cache, every choice of the calls that fail. `PROJECT.json` lists the theorems
and the property of a run each of them states.

They go the same way. The invariants the runs check are seldom inductive; the
`IInv` of a module adds what the code relies on while an operation is under
way. There is one lemma per action for `IInv /\ action => IInv'`, and
`Inductive` is `Spec => []IInv`. TLC checked each `IInv` on the instance of the
module's run before it was proved.

Induction over data cannot be taken from the library here: its theorems have an
operator for a parameter, which the provers cannot instantiate. Where a proof
needs one it is done with sets in the place of predicates: a set of natural
numbers has a least element (`Least`), so a set that has the first number and
with each its successor has all of them (`Induct`), and the functions that are
defined by recursion exist and take those steps (`Iterated`).

### BinaryListProofs

From `ListAssumption` alone: the capacity is positive, the schema covers the
count, the index fits below the offset limit, blobs are sequences of bytes.
`IInv` adds what the fields of an Add under way say of the file (`AddInv`: where
the payload starts, how much of the blob has been copied to that place, which
slot has been written), that the payload is what the stream holds from
`DataStart` on (`Layout`), and that views lie in the written part
(`ViewsInside`).

- `TypeCorrect`, `OffsetsAreOrdered`, `OffsetsAre32Bit`, `AcknowledgedIsDurable`,
  `BlobsDoNotOverlap`: the safety invariants of the run.
- `ViewsAreStable`: no step changes a byte a `SubReader` shows. This is the action
  property that makes reading outside `l.mu` sound; it follows because every
  write of an Add goes to `start` or behind and every view ends before.
- `ViewsAreTrue`, `ViewsAreExact`: a second invariant, `ViewInv`, on top of the
  first, and from both that a view shows its blob and nothing of another. It is
  needed because the last blob has no end but that of the stream: what keeps a
  view from showing the next blob is that an Add under way starts where the
  stream ended when the view was opened, or later.
- `ImplementsLog`: the detailed list is a `BlobLog`. `WriteCount` is the append,
  `CopyBytes` the tail the last blob gains while an Add is under way, a failed
  Add leaves it, and the other steps are stutters.

### ListProofs

The editing: `IInv` says for each place of `rewrite` what its three files hold. While the new
list is built, the temporary file followed by the blobs still to be copied is
the new list (`Built`). The old one is at `path` before the first rename, at
`path.bak` between the two, and afterwards the new one is at `path` (`Placed`).
The session has its stream up to `CloseOld` and not again before the end
(`Usable`).

- `ListIsKept`, `SessionStaysUsable`: the invariants of the run.
- `EditsAreAtomic`: every step is an edit of `EditableList` or leaves alone what
  the next open finds, but for a crash between the renames and a rollback that
  fails.

The capacity: `CapacityInv` is `TypeOK`, that offsets ascend and lie in the file whatever failed
(`Ordered`), and, unless an Add failed before the first blob (`spilled`), that
the first blob or the end of an empty list is where the index of the capacity
it was made for ends (`LaidOut`). `LaidOut` is what makes `GuessListCapacity`
right: `(first[1] - SchemaSize) \div 4` is the capacity again.

- `CapacityIsRecovered`, `DataStaysBehindIndex`: the two invariants of the run.

### SessionsProofs

`IInv` (a call holds only the session its place is about, a mutex is held by
the call that works on its session, nobody counts more blobs than were offered)
holds for any number of goroutines that open, create and close.

- `WorkIsExclusive`: no two calls work on one session at a time.
- `NotClosedUnderACall`: a session's file is not closed while a call holds the
  session's mutex.

`NoLeak` and `AckedKept` need `OneController`, one goroutine that opens, creates
and closes while any number of others use the sessions; that is also what the
run has. The hypothesis is not for convenience: two opens of one path that both
miss the map break both properties (the first of the `Sessions` items in section
4). `SInv` adds that the map entry of a call is empty between its look-up and
its registration (`Vacant`), that an open session is in a map or in the hands of
a call that will close or register it (`Found`), that sessions stay with their
kind (`Kinds`), and that at most one is open on the list and knows its count
(`Current`). `SafeInductive` is its theorem.

- `NothingLeaks`, `AckedStays`: the two invariants of the run.

### DeflateProofs

First the cache: a `Get` loses no entry and gives no key a second one, a `Put`
adds its own entry and keeps the bound (`GetKeeps`, `PutKeeps`). Then the file:
`FileInv` says that the end of an index entry is written last, so that until
then the entry spans nothing, whatever the writer has done and wherever it died.
A reader therefore sees a block whole or not at all, although the file grows
while it reads (`ReaderInv`), and what a `ReadAt` has copied so far is what the
source holds (`ReadInv`).

- `ReadsAreExact`, `CacheIsCoherent`, `FinishedIsReadable`: the invariants of the
  run.
- `ReadAtAdvances`: every step of a read lowers its variant, so no read goes on
  for ever.
- `CallerIsKept`: no step of `Deflate` changes a byte of the caller's header that
  is not in one of the five fields. That is what is left of "Bytes [0,headerSize)
  are left untouched" (`deflate.go:39`) for every length; the sentence itself is
  proved for `HeaderSize <= FieldsAt`, at most 100 bytes, which the check at
  `deflate.go:49` does not ask for.

### StreamsProofs

`IInv` is `TypeOK` and `Whole`: the blocks of an `AutoSizeStream` are as many as
its length needs, and behind the length they are zero. The second part is what
makes growing show zeros.

- `ImplementsBytes`: the blocks are one growing sequence of bytes
  (`ByteSequence`), step by step.

The rest has the hypothesis `OneWriter`, one stream at a time that writes to the
file; with two, `Grow` (`file.go:141`) goes by a size that is out of date and
truncates. `WInv` adds what each stream remembers of the size (`FileSizes`,
`ArraySizes`), how far a copy has come (`CopyPlace`) and that what it moved or
holds in its buffer is what the source has (`CopyTrue`).

- `SizesAreExact`, `CopiesAreExact`, `WindowsAreExact`: the invariants of the run.

### WholeFileProofs

The properties speak of the beginning and the end of a command. What is known
in between follows from the number of steps still to be taken, as the steps come
in one order per command: `Makes` says it of a command with an input, `Pairs` of
`rsa generate`. Before the output is created both names stand for what they did
at the start; from the opening on, `read` is the input; between creation and
write the output is the file that the command writes; afterwards it is
the whole output. Both parts speak of nothing but the names of the command,
so a step of another process leaves them true or marks the command as touched
(`GoodKept`, `StepKeeps`).

- `InputsAreKept`, `ExitIsTrue`, `NoCutFileIsLeft`: the invariants of the run.

### TableProofs

The file is a sequence of tokens and a header is what parsing makes of it, so
the first facts are about the format. A schema that was written reads back as
the columns it was made of (`SchemaReadBack`, over the lines it is made of,
`LinesOfSchema`), and what a creation cut off half-way leaves does not: zeros
are no columns at all (`ZerosRead`), and the two numbers without the schema no
table (`PrefixReads`). Columns of a row, rows, and the cells of
both do not overlap, and all end within the capacity (`ColumnsApart`, `RowsApart`,
`CellsApart`). A write changes the bytes from its offset on and no others
(`WrittenAt`).

`IInv` is `TypeOK`, the invariant `HeadersAgree` itself, and three parts that the
code never states: what the file begins with at each place of a creation, cut
off anywhere (`Shape`), that who creates has no header of his own and those who
have one are stale by then (`CreatorAlone`), and that there is a file while
anybody uses it (`Exists`).

- `TableHeadersAgree`: whoever is not stale works with the header in the file.
- `TableRefinesCellStore`: every step, of a creation, a write or a clear that
  fails or dies half-way too, is a step of `CellStore` on the table that an open
  would find, or a stutter.
- `TableSearchExact`: each of the searches finds the first rows that show the
  value, in order, and leaves none out. The loops are functions of the step they
  are at; the lemmas say of each step what has been found by then (`FirstOf`).

### WindowProofs

Both halves go the same way. A handler that nothing ran beside is the only one
(`Alone`, `ListAlone`) and knows more than the others: its answer is what the
file has, and what it took from the window when it began is still there (`Sound`,
`ListSound`). What it has done and not yet shown is listed (`Unseen`,
`ListUnseen`), and but for that the screen is what the file has (`Screen`,
`ListScreen`). With two at a time there is a doubt, and no property speaks of the
screen before a reload that runs alone. A busy window has a handler that will
end that (`BusyHeld`, `ListBusyHeld`). The proofs are for any set of slots, but
`Begin` lets no more than two of them be in use at a time (section 4), so what is
proved is about two handlers that overlap, of any kind and in any order, and any
number one after the other.

- `TableWindowInductive` (`IInv`), `TableScreenIsTrue`, `EditsStayOnPage`,
  `WindowIsNotStuck`: the table half and the three invariants of its run.
  `EditsOnPage` ties three things together: the selection is on the page, the page
  is of the table that saving writes to, and a save that nothing ran beside goes to
  a cell of that page. With a doubt only the first is promised of the screen, which
  is what the hazard at `App.tsx:219` costs.
- `ListWindowInductive` (`ListInv`), `ListScreenIsTrue`, `BlobStaysMarked`,
  `ListActsOnSeen`: the list half and the three invariants of its run.

`ActsOnSeen` speaks of handlers that run beside others, and needs the most. While
nothing has shifted an index, the list on the screen is one the file begins with
(`Precedes`): adding only appends, and an answer that comes late is at most
behind. An add that breaks off changes the last blob; it counts as a shift, and a
choice of that blob is not sure any more. That is `ListBehind`, and it has to hold of the answers that are on their
way as of the list shown. So what the user chooses is under its index in the
file, and it stays there until a handler that shifts indices begins, at which
point no choice counts as sure any more (`ListChosen`). The mark and the blob part
only while a blob that was clicked is on its way, and that handler brings them
together again whatever its answer is (`ListMarked`).

### Only model-checked

- `LockReleased`, `RewriteReturns` and `CallsReturn` are liveness under fairness,
  which is beyond this proof system.
- The bounds that the runs put on the user and the faults of the two windows
  (section 4) are guards of the modules, so the theorems have them too.
- The two runs that end in a counterexample state nothing to be proved.

## 6. What is not modelled

The codecs between numbers and the bytes of a cell are pure functions that
nothing else depends on; a number is its bytes, so the search for a float as Go
compares it (0.0 and -0.0, NaN) is not covered. Cryptography and whole-buffer
compression are stateless wrappers of libraries; `WholeFile` takes them as one
codec. The deflate panel of the window is three calls that each show their
answer, and the recent files change nothing that is checked. The compressed
views of the window are read-only and go the same way as the others. The Kotlin
library is the original of the Go port and its formats are the same; a second
model of it would repeat `BinaryList`. Dialogs, windows, generated bindings,
argument parsing and printing are presentation. `Remove`, `Len` and `Clear` of
the cache have no caller outside its tests. The reasons stand beside each
component in `PROJECT.json`, which also lists the hazards of the code at their
lines, those that no property covers yet included.
