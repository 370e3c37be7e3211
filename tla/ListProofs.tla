---------------------------- MODULE ListProofs ------------------------------
(***************************************************************************)
(* Theorems about the editing of a list (ListRewrite), for every set of    *)
(* blobs, every capacity and every choice of calls that may fail: the      *)
(* inductive invariant says, for each place rewrite can be in, what each   *)
(* of the three files holds. Behind them, theorems about the capacity of   *)
(* a list (ListCapacity, here C), for every size of the schema, every      *)
(* default, and all capacities, lengths and failures.                      *)
(***************************************************************************)
EXTENDS ListRewrite, CapacityLayout, SequenceTheorems, TLAPS

\* The capacity of a list shares neither a constant nor a variable with ListRewrite.
\* CapacityLayout is what C reads a file by, under the same names.
C == INSTANCE ListCapacity

\* An edit takes out one blob or puts another in its place.
OneEdit(old, new) ==
    \E i \in DOMAIN old : \/ new = RemoveAt(old, i)
                          \/ \E b \in Blob : new = [old EXCEPT ![i] = b]

\* The temporary file and what is still to be copied make up the new list, and
\* once nothing is, the temporary file is the new list.
Built ==
    /\ pc # "idle" => OneEdit(edit.old, edit.new)
    /\ pc = "build" => Exists("temp") /\ dir["temp"] \o todo = edit.new
    /\ pc \in {"sync", "close", "clear", "backup", "swap"} => dir["temp"] = edit.new

\* The old list stays at path until the first rename, is at path.bak between
\* the two, and the new list is at path after the second.
Placed ==
    /\ pc \in {"build", "sync", "close", "clear", "backup"} => dir["path"] = edit.old
    /\ pc = "swap" => ~Exists("path") /\ dir["bak"] = edit.old
    /\ pc \in {"drop", "reopen"} => dir["path"] = edit.new

\* The session has its stream up to CloseOld and not again before the end.
Usable ==
    /\ session = "open" => Exists("path")
    /\ pc \in {"build", "sync", "close"} => session = "open"
    /\ pc \in {"clear", "backup", "swap", "drop", "reopen"} => session = "broken"
    /\ pc = "idle" /\ Never({"close", "reopen"}) => session # "broken"

IInv == TypeOK /\ Built /\ Placed /\ Usable

-----------------------------------------------------------------------------
(* Lists                                                                   *)

\* The lists are the sequences of blobs that fit the capacity.
LEMMA ListsAreSequences == Lists = {s \in Seq(Blob) : Len(s) <= MaxLength}
<1>1. ASSUME NEW s \in Lists PROVE s \in Seq(Blob) /\ Len(s) <= MaxLength
  <2>1. PICK n \in 0 .. MaxLength : s \in [1 .. n -> Blob]
    BY DEF Lists
  <2> QED
    BY <2>1, RewriteAssumption
<1>2. ASSUME NEW s \in Seq(Blob), Len(s) <= MaxLength PROVE s \in Lists
  <2>1. s \in [1 .. Len(s) -> Blob] /\ Len(s) \in 0 .. MaxLength
    BY <1>2, RewriteAssumption
  <2> QED
    BY <2>1 DEF Lists
<1> QED
  BY <1>1, <1>2

\* No list is mistaken for the absence of a file.
LEMMA MissingIsNoList == Missing \notin Lists
  BY ListsAreSequences, RewriteAssumption

LEMMA EmptyIsList == << >> \in Lists
  BY ListsAreSequences, RewriteAssumption

\* Appending to a list that is not full gives a list.
LEMMA AppendIsList ==
  ASSUME NEW s \in Lists, Len(s) < MaxLength, NEW b \in Blob
  PROVE  Append(s, b) \in Lists
  BY ListsAreSequences, RewriteAssumption

\* DeleteBlob of rewrite's two edits.
LEMMA RemoveIsList ==
  ASSUME NEW s \in Lists, NEW i \in 1 .. Len(s)
  PROVE  RemoveAt(s, i) \in Lists
<1>1. s \in Seq(Blob) /\ Len(s) <= MaxLength
  BY ListsAreSequences
<1>2. /\ SubSeq(s, 1, i - 1) \in Seq(Blob) /\ Len(SubSeq(s, 1, i - 1)) = i - 1
      /\ SubSeq(s, i + 1, Len(s)) \in Seq(Blob)
      /\ Len(SubSeq(s, i + 1, Len(s))) = Len(s) - i
  BY <1>1
<1>3. ASSUME NEW p \in Seq(Blob), NEW q \in Seq(Blob)
      PROVE  p \o q \in Seq(Blob) /\ Len(p \o q) = Len(p) + Len(q)
  OBVIOUS
<1>4. RemoveAt(s, i) \in Seq(Blob) /\ Len(RemoveAt(s, i)) = (i - 1) + (Len(s) - i)
  BY <1>2, <1>3 DEF RemoveAt
<1> QED
  BY <1>1, <1>4, ListsAreSequences, RewriteAssumption

\* ReplaceBlobFromPath is the other.
LEMMA ReplaceIsList ==
  ASSUME NEW s \in Lists, NEW i \in 1 .. Len(s), NEW b \in Blob
  PROVE  [s EXCEPT ![i] = b] \in Lists
<1>1. s \in Seq(Blob) /\ Len(s) <= MaxLength
  BY ListsAreSequences
<1> QED
  BY <1>1, ListsAreSequences

\* Copying one blob moves the border between two parts of a list.
LEMMA CopyOne ==
  ASSUME NEW s \in Lists, NEW t \in Lists, t # << >>, s \o t \in Lists
  PROVE  /\ Append(s, Head(t)) \in Lists
         /\ Tail(t) \in Lists
         /\ Append(s, Head(t)) \o Tail(t) = s \o t
<1>1. s \in Seq(Blob) /\ t \in Seq(Blob) /\ Len(s \o t) <= MaxLength /\ Len(t) <= MaxLength
  BY ListsAreSequences
<1>2. Len(t) > 0 /\ Head(t) \in Blob /\ Tail(t) \in Seq(Blob) /\ Len(Tail(t)) = Len(t) - 1
  BY <1>1
<1>3. Len(Append(s, Head(t))) <= MaxLength /\ Append(s, Head(t)) \in Seq(Blob)
  BY <1>1, <1>2, RewriteAssumption
<1>4. Append(s, Head(t)) \o Tail(t) = s \o t
  BY <1>1, <1>2
<1> QED
  BY <1>1, <1>2, <1>3, <1>4, ListsAreSequences, RewriteAssumption

-----------------------------------------------------------------------------
(* The steps keep the invariant                                            *)

LEMMA InitIInv == Init => IInv
<1> SUFFICES ASSUME Init PROVE IInv
  OBVIOUS
<1>1. TypeOK
  BY EmptyIsList DEF Init, TypeOK, Steps
<1>2. Built /\ Placed /\ Usable
  BY DEF Init, Built, Placed, Usable
<1> QED
  BY <1>1, <1>2 DEF IInv

LEMMA StutterIInv == IInv /\ UNCHANGED vars => IInv'
  BY DEF IInv, TypeOK, Built, Placed, Usable, Exists, Never, vars

\* The calls between rewrites.
LEMMA IdleIInv ==
  ASSUME IInv, OpenList \/ CloseList \/ \E b \in Blob : AddBlob(b)
  PROVE  IInv'
<1>1. pc = "idle" /\ pc' = "idle" /\ UNCHANGED <<todo, edit, struck>>
  BY DEF OpenList, CloseList, AddBlob
<1>2. dir' \in [Names -> Lists \cup {Missing}] /\ (session' = "open" => dir'["path"] # Missing)
  <2>1. CASE OpenList
    BY <2>1, EmptyIsList, MissingIsNoList
       DEF OpenList, OpenedOrCreated, IInv, TypeOK, Names
  <2>2. CASE CloseList
    BY <2>2 DEF CloseList, IInv, TypeOK
  <2>3. ASSUME NEW b \in Blob, AddBlob(b)
        PROVE  dir' \in [Names -> Lists \cup {Missing}] /\ dir'["path"] # Missing
    <3>1. dir["path"] \in Lists
      BY <2>3 DEF AddBlob, IInv, TypeOK, Usable, Exists, Names
    <3>2. Append(dir["path"], b) \in Lists
      BY <2>3, <3>1, AppendIsList DEF AddBlob
    <3> QED
      BY <2>3, <3>2, MissingIsNoList DEF AddBlob, IInv, TypeOK, Names
  <2> QED
    BY <2>1, <2>2, <2>3
<1>3. session' \in {"open", "closed"} \/ session' = session
  BY DEF OpenList, CloseList, AddBlob
<1>4. TypeOK'
  BY <1>1, <1>2, <1>3 DEF IInv, TypeOK
<1>5. Built' /\ Placed'
  BY <1>1 DEF Built, Placed
<1>6. Usable'
  BY <1>1, <1>2, <1>3 DEF IInv, Usable, Exists, Never
<1> QED
  BY <1>4, <1>5, <1>6 DEF IInv

\* An edit starts with the list at path and an empty temporary file.
LEMMA BeginIInv ==
  ASSUME IInv, NEW new \in Lists, OneEdit(dir["path"], new), Exists("path"), Begin(new)
  PROVE  IInv'
<1>1. dir["path"] \in Lists
  BY DEF IInv, TypeOK, Exists, Names
<1>2. /\ dir' \in [Names -> Lists \cup {Missing}]
      /\ dir'["path"] = dir["path"] /\ dir'["temp"] = << >>
  BY EmptyIsList DEF Begin, IInv, TypeOK, Names
<1>3. TypeOK'
  BY <1>1, <1>2 DEF Begin, IInv, TypeOK, Steps
<1>4. << >> \o new = new
  BY ListsAreSequences
<1>5. Built'
  BY <1>2, <1>4, EmptyIsList, MissingIsNoList DEF Begin, Built, Exists
<1>6. Placed' /\ Usable'
  BY <1>2 DEF Begin, Placed, Usable, Exists
<1> QED
  BY <1>3, <1>5, <1>6 DEF IInv

LEMMA EditIInv ==
  ASSUME IInv, NEW i \in 1 .. MaxLength,
         DeleteBlob(i) \/ \E b \in Blob : ReplaceBlob(i, b)
  PROVE  IInv'
<1>1. /\ dir["path"] \in Lists /\ Exists("path")
      /\ i \in 1 .. Len(dir["path"]) /\ i \in DOMAIN dir["path"]
  <2>1. Exists("path") /\ i \in 1 .. Len(dir["path"])
    BY DEF DeleteBlob, ReplaceBlob
  <2>2. dir["path"] \in Lists
    BY <2>1 DEF IInv, TypeOK, Exists, Names
  <2> QED
    BY <2>1, <2>2, ListsAreSequences
<1>2. CASE DeleteBlob(i)
  <2> DEFINE new == RemoveAt(dir["path"], i)
  <2>1. new \in Lists
    BY <1>1, RemoveIsList
  <2>2. OneEdit(dir["path"], new) /\ Begin(new)
    BY <1>1, <1>2 DEF OneEdit, DeleteBlob
  <2> QED
    BY <1>1, <2>1, <2>2, BeginIInv
<1>3. ASSUME NEW b \in Blob, ReplaceBlob(i, b)
      PROVE  IInv'
  <2> DEFINE new == [dir["path"] EXCEPT ![i] = b]
  <2>1. new \in Lists
    BY <1>1, ReplaceIsList
  <2>2. OneEdit(dir["path"], new) /\ Begin(new)
    BY <1>1, <1>3 DEF OneEdit, ReplaceBlob
  <2> QED
    BY <1>1, <2>1, <2>2, BeginIInv
<1> QED
  BY <1>2, <1>3

\* Copying into the temporary file, and the sync and close that end it.
LEMMA CopyIInv == IInv /\ (CopyBlob \/ CopyDone) => IInv'
<1> SUFFICES ASSUME IInv, CopyBlob \/ CopyDone PROVE IInv'
  OBVIOUS
<1>1. /\ pc = "build" /\ dir["temp"] \in Lists /\ todo \in Lists
      /\ dir["temp"] \o todo = edit.new /\ edit.new \in Lists
  BY DEF CopyBlob, CopyDone, IInv, TypeOK, Built, Exists, Names
<1>2. CASE CopyBlob
  <2>1. /\ dir' = [dir EXCEPT !["temp"] = Append(dir["temp"], Head(todo))]
        /\ todo # << >> /\ todo' = Tail(todo) /\ UNCHANGED <<session, pc, edit, struck>>
    BY <1>2 DEF CopyBlob
  <2>2. /\ Append(dir["temp"], Head(todo)) \in Lists /\ todo' \in Lists
        /\ Append(dir["temp"], Head(todo)) \o todo' = edit.new
    BY <1>1, <2>1, CopyOne
  <2>3. /\ dir' \in [Names -> Lists \cup {Missing}] /\ dir'["path"] = dir["path"]
        /\ dir'["temp"] = Append(dir["temp"], Head(todo))
    BY <2>1, <2>2 DEF IInv, TypeOK, Names
  <2>4. TypeOK'
    BY <2>1, <2>2, <2>3 DEF IInv, TypeOK
  <2>5. Built'
    BY <1>1, <2>1, <2>2, <2>3, MissingIsNoList DEF IInv, Built, Exists
  <2>6. Placed' /\ Usable'
    BY <1>1, <2>1, <2>3 DEF IInv, Placed, Usable, Exists, Never
  <2> QED
    BY <2>4, <2>5, <2>6 DEF IInv
<1>3. CASE CopyDone
  <2>1. dir["temp"] = edit.new
    BY <1>1, <1>3, ListsAreSequences DEF CopyDone
  <2>2. pc' = "sync" /\ UNCHANGED <<dir, session, todo, edit, struck>>
    BY <1>3 DEF CopyDone
  <2>3. TypeOK'
    BY <2>2 DEF IInv, TypeOK, Steps
  <2> QED
    BY <1>1, <2>1, <2>2, <2>3 DEF IInv, Built, Placed, Usable, Exists, Never
<1> QED
  BY <1>2, <1>3

\* What os.Remove leaves: every other file as it was.
LEMMA RemovedKeeps ==
  ASSUME NEW d \in [Names -> Lists \cup {Missing}], NEW n \in Names, NEW e, NEW fs,
         fs \subseteq Told, Removed(d, n, e, fs)
  PROVE  /\ e \in [Names -> Lists \cup {Missing}]
         /\ \A m \in Names : m # n => e[m] = d[m]
         /\ struck' \subseteq Told
         /\ fs \subseteq struck'
  BY DEF Removed, Without, Told

\* Giving up before the old stream is closed, or because closing it failed.
LEMMA GiveUpIInv ==
  ASSUME IInv, NEW s, NEW fs, fs \subseteq Told, GiveUp(s, fs),
         \/ s = "open" /\ session = "open"
         \/ s = "broken" /\ "close" \in fs
  PROVE  IInv'
<1>1. /\ dir' \in [Names -> Lists \cup {Missing}] /\ dir'["path"] = dir["path"]
      /\ struck' \subseteq Told /\ fs \subseteq struck'
  BY RemovedKeeps DEF GiveUp, IInv, TypeOK, Names
<1>2. session' = s /\ pc' = "idle" /\ todo' = << >> /\ UNCHANGED edit
  BY DEF GiveUp
<1>3. TypeOK'
  BY <1>1, <1>2, EmptyIsList DEF IInv, TypeOK, Steps
<1>4. Built' /\ Placed'
  BY <1>2 DEF Built, Placed
<1>5. Usable'
  BY <1>1, <1>2 DEF IInv, Usable, Exists, Never
<1> QED
  BY <1>3, <1>4, <1>5 DEF IInv

LEMMA StopEarlyIInv == IInv /\ (CopyFails \/ SyncTemp \/ CloseOld) => IInv'
<1> SUFFICES ASSUME IInv, CopyFails \/ SyncTemp \/ CloseOld PROVE IInv'
  OBVIOUS
<1>1. session = "open" /\ pc \in {"build", "sync", "close"} /\ struck \subseteq Told
  BY DEF CopyFails, SyncTemp, CloseOld, IInv, Usable, TypeOK
<1>2. CASE GiveUp("open", struck)
  BY <1>1, <1>2, GiveUpIInv
<1>3. CASE GiveUp("broken", struck \cup {"close"})
  <2>1. struck \cup {"close"} \subseteq Told
    BY <1>1 DEF Told
  <2> QED
    BY <1>3, <2>1, GiveUpIInv
<1>4. CASE pc = "sync" /\ pc' = "close" /\ UNCHANGED <<dir, session, todo, edit, struck>>
  BY <1>1, <1>4 DEF IInv, TypeOK, Steps, Built, Placed, Usable, Exists, Never
<1>5. CASE /\ pc = "close" /\ pc' = "clear" /\ session' = "broken"
           /\ UNCHANGED <<dir, todo, edit, struck>>
  BY <1>1, <1>5 DEF IInv, TypeOK, Steps, Built, Placed, Usable, Exists, Never
<1> QED
  BY <1>2, <1>3, <1>4, <1>5 DEF CopyFails, SyncTemp, CloseOld

\* The two removals of path.bak touch neither the list nor the temporary file.
LEMMA BackupRemovedIInv == IInv /\ (ClearBackup \/ DropBackup) => IInv'
<1> SUFFICES ASSUME IInv, ClearBackup \/ DropBackup PROVE IInv'
  OBVIOUS
<1>1. Removed(dir, "bak", dir', struck) /\ UNCHANGED <<session, todo, edit>>
  BY DEF ClearBackup, DropBackup
<1>2. /\ dir' \in [Names -> Lists \cup {Missing}]
      /\ dir'["path"] = dir["path"] /\ dir'["temp"] = dir["temp"]
      /\ struck' \subseteq Told
  BY <1>1, RemovedKeeps DEF IInv, TypeOK, Names
<1>3. \/ pc = "clear" /\ pc' = "backup"
      \/ pc = "drop" /\ pc' = "reopen"
  BY DEF ClearBackup, DropBackup
<1>4. TypeOK'
  BY <1>1, <1>2, <1>3 DEF IInv, TypeOK, Steps
<1> QED
  BY <1>1, <1>2, <1>3, <1>4 DEF IInv, Built, Placed, Usable, Exists, Never

\* reopenLocked, whether the temporary file goes before it or stays.
LEMMA ReopenedIInv ==
  ASSUME IInv, NEW d \in [Names -> Lists \cup {Missing}], NEW fs, fs \subseteq Told,
         Reopened(d, fs)
  PROVE  IInv'
<1>1. pc' = "idle" /\ todo' = << >> /\ UNCHANGED edit
  BY DEF Reopened
<1>2. /\ dir' \in [Names -> Lists \cup {Missing}] /\ struck' \subseteq Told
      /\ \/ session' = "open" /\ dir'["path"] # Missing
         \/ session' = "broken" /\ "reopen" \in struck'
  BY EmptyIsList, MissingIsNoList DEF Reopened, OpenedOrCreated, Names, Told
<1>3. TypeOK'
  BY <1>1, <1>2, EmptyIsList DEF IInv, TypeOK, Steps
<1>4. Built' /\ Placed'
  BY <1>1 DEF Built, Placed
<1>5. Usable'
  BY <1>1, <1>2 DEF Usable, Exists, Never
<1> QED
  BY <1>3, <1>4, <1>5 DEF IInv

LEMMA GiveUpAndReopenIInv ==
  ASSUME IInv, NEW d \in [Names -> Lists \cup {Missing}], NEW fs, fs \subseteq Told,
         GiveUpAndReopen(d, fs)
  PROVE  IInv'
<1>1. Without(d, "temp") \in [Names -> Lists \cup {Missing}]
  BY DEF Without, Names
<1>2. fs \cup {"remove"} \subseteq Told
  BY DEF Told
<1> QED
  BY <1>1, <1>2, ReopenedIInv DEF GiveUpAndReopen

\* A rename moves a file, whatever was under the new name.
LEMMA RenamedFile ==
  ASSUME NEW d \in [Names -> Lists \cup {Missing}],
         NEW from \in Names, NEW to \in Names, from # to
  PROVE  /\ Renamed(d, from, to) \in [Names -> Lists \cup {Missing}]
         /\ Renamed(d, from, to)[to] = d[from]
         /\ Renamed(d, from, to)[from] = Missing
         /\ \A n \in Names \ {from, to} : Renamed(d, from, to)[n] = d[n]
  BY DEF Renamed

\* The two renames, and the rollback when the second one fails.
LEMMA RenameIInv == IInv /\ (Backup \/ Swap \/ Reopen) => IInv'
<1> SUFFICES ASSUME IInv, Backup \/ Swap \/ Reopen PROVE IInv'
  OBVIOUS
<1>1. dir \in [Names -> Lists \cup {Missing}] /\ struck \subseteq Told
  BY DEF IInv, TypeOK
<1>2. /\ Renamed(dir, "bak", "path") \in [Names -> Lists \cup {Missing}]
      /\ struck \cup {"rollback"} \subseteq Told
  BY <1>1, RenamedFile DEF Names, Told
<1>3. CASE /\ pc = "backup" /\ pc' = "swap" /\ dir' = Renamed(dir, "path", "bak")
           /\ UNCHANGED <<session, todo, edit, struck>>
  <2>1. /\ dir' \in [Names -> Lists \cup {Missing}] /\ dir'["bak"] = dir["path"]
        /\ dir'["path"] = Missing /\ dir'["temp"] = dir["temp"]
    BY <1>1, <1>3, RenamedFile DEF Names
  <2>2. TypeOK'
    BY <1>3, <2>1 DEF IInv, TypeOK, Steps
  <2> QED
    BY <1>3, <2>1, <2>2 DEF IInv, Built, Placed, Usable, Exists, Never
<1>4. CASE /\ pc = "swap" /\ pc' = "drop" /\ dir' = Renamed(dir, "temp", "path")
           /\ UNCHANGED <<session, todo, edit, struck>>
  <2>1. dir' \in [Names -> Lists \cup {Missing}] /\ dir'["path"] = dir["temp"]
    BY <1>1, <1>4, RenamedFile DEF Names
  <2>2. TypeOK'
    BY <1>4, <2>1 DEF IInv, TypeOK, Steps
  <2> QED
    BY <1>4, <2>1, <2>2 DEF IInv, Built, Placed, Usable, Exists, Never
<1>5. CASE \/ GiveUpAndReopen(dir, struck)
           \/ GiveUpAndReopen(Renamed(dir, "bak", "path"), struck)
           \/ GiveUpAndReopen(dir, struck \cup {"rollback"})
  BY <1>1, <1>2, <1>5, GiveUpAndReopenIInv
<1>6. CASE Reopen
  BY <1>1, <1>6, ReopenedIInv DEF Reopen
<1> QED
  BY <1>3, <1>4, <1>5, <1>6 DEF Backup, Swap

LEMMA CrashIInv == IInv /\ Crash => IInv'
<1> SUFFICES ASSUME IInv, Crash PROVE IInv'
  OBVIOUS
<1>1. TypeOK'
  BY EmptyIsList DEF IInv, TypeOK, Crash, Steps, Told
<1> QED
  BY <1>1 DEF IInv, Crash, Built, Placed, Usable

LEMMA NextIInv == IInv /\ [Next]_vars => IInv'
<1> SUFFICES ASSUME IInv, [Next]_vars PROVE IInv'
  OBVIOUS
<1>1. CASE OpenList \/ CloseList \/ \E b \in Blob : AddBlob(b)
  BY <1>1, IdleIInv
<1>2. ASSUME NEW i \in 1 .. MaxLength,
             DeleteBlob(i) \/ \E b \in Blob : ReplaceBlob(i, b)
      PROVE  IInv'
  BY <1>2, EditIInv
<1>3. CASE CopyBlob \/ CopyDone
  BY <1>3, CopyIInv
<1>4. CASE CopyFails \/ SyncTemp \/ CloseOld
  BY <1>4, StopEarlyIInv
<1>5. CASE ClearBackup \/ DropBackup
  BY <1>5, BackupRemovedIInv
<1>6. CASE Backup \/ Swap \/ Reopen
  BY <1>6, RenameIInv
<1>7. CASE Crash
  BY <1>7, CrashIInv
<1>8. CASE UNCHANGED vars
  BY <1>8, StutterIInv
<1> QED
  BY <1>1, <1>2, <1>3, <1>4, <1>5, <1>6, <1>7, <1>8 DEF Next, Rewriting

\* What rewrite relies on at each of its places holds throughout, whatever fails
\* and wherever the process dies.
THEOREM Inductive == Spec => []IInv
<1>1. IInv /\ [Next]_vars => IInv'
  BY NextIInv
<1> QED
  BY <1>1, InitIInv, PTL DEF Spec

\* The variables keep their types: no rewrite grows a list beyond its capacity.
THEOREM TypeCorrect == Spec => []TypeOK
<1>1. IInv => TypeOK
  BY DEF IInv
<1> QED
  BY <1>1, Inductive, PTL

\* While rewrite runs, the list before it or the complete new one is on disk
\* under path or path.bak, whatever has failed so far.
THEOREM ListIsKept == Spec => []RewritingListKept
<1>1. IInv => RewritingListKept
  BY DEF IInv, TypeOK, Steps, Placed, RewritingListKept
<1> QED
  BY <1>1, Inductive, PTL

\* An open session has its file, and only a failure to close or reopen a file
\* leaves a session without a usable stream.
THEOREM SessionStaysUsable == Spec => []SessionUsable
<1>1. IInv => SessionUsable
  BY DEF IInv, Usable, SessionUsable
<1> QED
  BY <1>1, Inductive, PTL

-----------------------------------------------------------------------------
(* Every edit happens at once or not at all                                *)

\* Visible changes as EditableList allows.
Atomic == Never({"gap", "rollback"})' => [EL!ListNext]_Visible

\* What the next open finds depends on path alone, except between the renames.
LEMMA VisibleIsPath ==
  /\ Exists("path") => Visible = dir["path"]
  /\ ~Exists("path") /\ pc # "swap" => Visible = << >>
  /\ ~Exists("path") /\ pc = "swap" => Visible = dir["bak"]
  BY DEF Visible

LEMMA VisibleIsPathNext ==
  /\ Exists("path")' => Visible' = dir'["path"]
  /\ ~Exists("path")' /\ pc' # "swap" => Visible' = << >>
  /\ ~Exists("path")' /\ pc' = "swap" => Visible' = dir'["bak"]
  BY DEF Visible, Exists

\* A step that leaves path alone, away from the swap, changes nothing visible.
LEMMA PathAlone ==
  ASSUME dir'["path"] = dir["path"], pc # "swap", pc' # "swap"
  PROVE  UNCHANGED Visible
  BY VisibleIsPath, VisibleIsPathNext DEF Exists

\* Nothing but AddBlob and the second rename changes what is visible.
LEMMA IdleAtomic ==
  ASSUME IInv, OpenList \/ CloseList \/ \E b \in Blob : AddBlob(b)
  PROVE  Atomic
<1>1. pc = "idle" /\ pc' = "idle"
  BY DEF OpenList, CloseList, AddBlob
<1>2. CASE OpenList
  BY <1>1, <1>2, EmptyIsList, MissingIsNoList, VisibleIsPath, VisibleIsPathNext
     DEF OpenList, OpenedOrCreated, Exists, IInv, TypeOK, Names, Atomic
<1>3. CASE CloseList
  BY <1>1, <1>3, PathAlone DEF CloseList, Atomic
<1>4. ASSUME NEW b \in Blob, AddBlob(b)
      PROVE  Atomic
  <2>1. dir["path"] \in Lists /\ dir["path"] # Missing /\ Len(dir["path"]) < MaxLength
    BY <1>4 DEF AddBlob, IInv, TypeOK, Usable, Exists, Names
  <2>2. dir'["path"] = Append(dir["path"], b) /\ dir'["path"] \in Lists
    BY <1>4, <2>1, AppendIsList DEF AddBlob, IInv, TypeOK, Names
  <2>3. Visible = dir["path"] /\ Visible' = dir'["path"]
    BY <2>1, <2>2, MissingIsNoList, VisibleIsPath, VisibleIsPathNext DEF Exists
  <2>4. EL!Append1(b)
    BY <2>1, <2>2, <2>3 DEF EL!Append1
  <2> QED
    BY <2>4 DEF EL!ListNext, Atomic
<1> QED
  BY <1>2, <1>3, <1>4

\* What the renames that fail, and the reopen, leave at path.
LEMMA ReopenedPath ==
  ASSUME NEW d \in [Names -> Lists \cup {Missing}], d["path"] # Missing, NEW fs,
         Reopened(d, fs) \/ GiveUpAndReopen(d, fs)
  PROVE  dir'["path"] = d["path"] /\ pc' = "idle" /\ fs \subseteq struck'
  BY DEF GiveUpAndReopen, Reopened, OpenedOrCreated, Without, Names

LEMMA RewriteAtomic ==
  ASSUME IInv, Rewriting
  PROVE  Atomic
<1>1. dir \in [Names -> Lists \cup {Missing}] /\ struck \subseteq Told
  BY DEF IInv, TypeOK
<1>2. CASE CopyBlob \/ CopyDone
  <2>1. dir'["path"] = dir["path"] /\ pc = "build" /\ pc' \in {"build", "sync"}
    BY <1>1, <1>2 DEF CopyBlob, CopyDone, Names
  <2> QED
    BY <2>1, PathAlone DEF Atomic
<1>3. CASE CopyFails \/ SyncTemp \/ CloseOld
  <2>1. pc \in {"build", "sync", "close"} /\ pc' # "swap"
    BY <1>3 DEF CopyFails, SyncTemp, CloseOld, GiveUp
  <2>2. dir' = dir \/ \E fs : Removed(dir, "temp", dir', fs)
    BY <1>3 DEF CopyFails, SyncTemp, CloseOld, GiveUp
  <2>3. dir'["path"] = dir["path"]
    BY <1>1, <2>2 DEF Removed, Without, Names
  <2> QED
    BY <2>1, <2>3, PathAlone DEF Atomic
<1>4. CASE ClearBackup \/ DropBackup
  <2>1. pc \in {"clear", "drop"} /\ pc' # "swap"
    BY <1>4 DEF ClearBackup, DropBackup
  <2>2. dir'["path"] = dir["path"]
    BY <1>1, <1>4, RemovedKeeps DEF ClearBackup, DropBackup, Names
  <2> QED
    BY <2>1, <2>2, PathAlone DEF Atomic
<1>5. CASE Backup
  <2>1. pc = "backup" /\ dir["path"] = edit.old /\ dir["path"] # Missing
    BY <1>5, MissingIsNoList DEF Backup, IInv, TypeOK, Placed
  <2>2. Visible = dir["path"]
    BY <2>1, VisibleIsPath DEF Exists
  <2>3. CASE dir' = Renamed(dir, "path", "bak") /\ pc' = "swap"
    <3>1. dir'["path"] = Missing /\ dir'["bak"] = dir["path"]
      BY <1>1, <2>3, RenamedFile DEF Names
    <3> QED
      BY <2>2, <2>3, <3>1, VisibleIsPathNext DEF Exists, Atomic
  <2>4. CASE GiveUpAndReopen(dir, struck)
    BY <1>1, <2>1, <2>4, ReopenedPath, PathAlone DEF Atomic
  <2> QED
    BY <1>5, <2>3, <2>4 DEF Backup
<1>6. CASE Swap
  <2>1. /\ pc = "swap" /\ dir["path"] = Missing /\ dir["bak"] = edit.old
        /\ dir["temp"] = edit.new /\ OneEdit(edit.old, edit.new)
        /\ edit.old # Missing /\ edit.new # Missing
    BY <1>6, MissingIsNoList DEF Swap, IInv, TypeOK, Built, Placed, Exists
  <2>2. Visible = edit.old
    BY <2>1, VisibleIsPath DEF Exists
  <2>3. CASE dir' = Renamed(dir, "temp", "path")
    <3>1. dir'["path"] = edit.new
      BY <1>1, <2>1, <2>3, RenamedFile DEF Names
    <3>2. Visible' = edit.new
      BY <2>1, <3>1, VisibleIsPathNext DEF Exists
    <3>3. PICK i \in DOMAIN Visible : \/ Visible' = RemoveAt(Visible, i)
                                      \/ \E b \in Blob : Visible' = [Visible EXCEPT ![i] = b]
      BY <2>1, <2>2, <3>2 DEF OneEdit
    <3>4. EL!Delete(i) \/ \E b \in Blob : EL!Replace(i, b)
      BY <3>3 DEF EL!Delete, EL!Replace, EL!RemoveAt, RemoveAt
    <3> QED
      BY <3>4 DEF EL!ListNext, Atomic
  <2>4. CASE GiveUpAndReopen(Renamed(dir, "bak", "path"), struck)
    <3>1. /\ Renamed(dir, "bak", "path") \in [Names -> Lists \cup {Missing}]
          /\ Renamed(dir, "bak", "path")["path"] = edit.old
      BY <1>1, <2>1, RenamedFile DEF Names
    <3>2. dir'["path"] = edit.old
      BY <2>1, <2>4, <3>1, ReopenedPath
    <3> QED
      BY <2>1, <2>2, <3>2, VisibleIsPathNext DEF Exists, Atomic
  <2>5. CASE GiveUpAndReopen(dir, struck \cup {"rollback"})
    <3>1. "rollback" \in struck'
      BY <2>5 DEF GiveUpAndReopen, Reopened
    <3> QED
      BY <3>1 DEF Never, Atomic
  <2> QED
    BY <1>6, <2>3, <2>4, <2>5 DEF Swap
<1>7. CASE Reopen
  <2>1. pc = "reopen" /\ dir["path"] # Missing
    BY <1>7, MissingIsNoList DEF Reopen, IInv, TypeOK, Placed
  <2> QED
    BY <1>1, <1>7, <2>1, ReopenedPath, PathAlone DEF Reopen, Atomic
<1> QED
  BY <1>2, <1>3, <1>4, <1>5, <1>6, <1>7 DEF Rewriting

LEMMA OtherAtomic ==
  ASSUME IInv,
         \/ Crash
         \/ \E i \in 1 .. MaxLength : DeleteBlob(i) \/ \E b \in Blob : ReplaceBlob(i, b)
  PROVE  Atomic
<1>1. CASE Crash
  <2>1. dir' = dir /\ pc' = "idle" /\ (pc = "swap" => "gap" \in struck')
    BY <1>1 DEF Crash
  <2>2. CASE pc = "swap"
    BY <2>1, <2>2 DEF Atomic, Never
  <2>3. CASE pc # "swap"
    BY <2>1, <2>3, PathAlone DEF Atomic
  <2> QED
    BY <2>2, <2>3
<1>2. ASSUME NEW i \in 1 .. MaxLength,
             DeleteBlob(i) \/ \E b \in Blob : ReplaceBlob(i, b)
      PROVE  Atomic
  <2>1. pc = "idle" /\ pc' = "build" /\ dir' = [dir EXCEPT !["temp"] = << >>]
    BY <1>2 DEF DeleteBlob, ReplaceBlob, Begin
  <2>2. dir'["path"] = dir["path"]
    BY <2>1 DEF IInv, TypeOK, Names
  <2> QED
    BY <2>1, <2>2, PathAlone DEF Atomic
<1> QED
  BY <1>1, <1>2

\* Every edit is in force at once or not at all, whichever calls of rewrite fail
\* and wherever the process dies, up to the first crash between the renames or
\* rollback that fails. Each step of Next is an edit of EditableList or leaves
\* alone what the next open finds.
THEOREM EditsAreAtomic == Spec => AtomicEdits
<1>1. ASSUME IInv, Next PROVE Atomic
  BY <1>1, IdleAtomic, RewriteAtomic, OtherAtomic DEF Next
<1>2. IInv /\ [Next]_vars => [Atomic]_vars
  BY <1>1
<1>3. [Atomic]_vars => [Never({"gap", "rollback"})' => [EL!ListNext]_Visible]_vars
  BY DEF Atomic
<1> QED
  BY <1>2, <1>3, Inductive, PTL DEF Spec, AtomicEdits

-----------------------------------------------------------------------------
(* The capacity                                                            *)

\* A function on 1 .. n is a sequence of length n.
LEMMA FunctionIsSequence ==
  ASSUME NEW S, NEW n \in Nat, NEW s \in [1 .. n -> S]
  PROVE  s \in Seq(S) /\ Len(s) = n
  OBVIOUS

-----------------------------------------------------------------------------
(* The inductive invariant                                                 *)

\* Blobs follow each other and end in the file, whatever failed.
Ordered ==
    /\ \A i, j \in 1 .. C!count : i <= j => first[i] <= first[j]
    /\ \A i \in 1 .. C!count : first[i] <= size

\* The first blob, or the end of a list without one, is where the index of the capacity
\* it was made for ends; only a capacity the user named may be larger than that.
LaidOut ==
    /\ C!count > 0 => made > 0 /\ first[1] = C!DataStart(made)
    /\ C!count = 0 /\ size > 0 => made > 0 /\ size = C!DataStart(made)
    /\ cap > 0 /\ ~over => cap <= made
    /\ damaged => beyond

CapacityInv == C!TypeOK /\ Ordered /\ (~spilled => LaidOut)

-----------------------------------------------------------------------------
(* Lemmas                                                                  *)

LEMMA Sizes ==
  /\ SchemaSize \in Nat /\ SchemaSize >= 4 /\ C!EntrySize = 4
  /\ DefaultCapacity \in Nat /\ DefaultCapacity > 0
  /\ \A m \in Nat : C!DataStart(m) \in Nat /\ C!DataStart(m) = SchemaSize + 4 * m
  BY CapacityAssumption DEF EntrySize, C!EntrySize, C!DataStart

\* There is room for the schema and for every slot of the index before the payload.
LEMMA RoomForIndex ==
  ASSUME NEW m \in Nat, NEW k \in Nat, k < m
  PROVE  /\ C!DataStart(m) \in Nat /\ C!DataStart(m) >= C!EntrySize
         /\ SchemaSize + C!EntrySize \in Nat /\ SchemaSize + C!EntrySize <= C!DataStart(m)
         /\ SchemaSize + C!EntrySize * k + C!EntrySize \in Nat
         /\ SchemaSize + C!EntrySize * k + C!EntrySize <= C!DataStart(m)
<1>1. SchemaSize \in Nat /\ SchemaSize >= 4 /\ C!DataStart(m) = SchemaSize + 4 * m
  BY Sizes
<1>2. 4 * m >= 4 /\ 4 * k + 4 <= 4 * m
  OBVIOUS
<1> QED
  BY <1>1, <1>2 DEF C!EntrySize

LEMMA State ==
  ASSUME C!TypeOK
  PROVE  /\ size \in Nat /\ first \in Seq(Nat) /\ C!count \in Nat /\ cap \in Nat /\ made \in Nat
         /\ \A i \in 1 .. C!count : first[i] \in Nat
         /\ DOMAIN first = 1 .. C!count
  BY DEF C!TypeOK, C!count

\* What a capacity reserves gives the capacity back.
LEMMA EntriesOfIndex ==
  ASSUME NEW m \in Nat
  PROVE  C!EntriesUpTo(C!DataStart(m)) = m
<1>1. /\ C!DataStart(m) >= SchemaSize /\ C!DataStart(m) - SchemaSize = 4 * m
  BY Sizes
<1>2. (4 * m) % 4 = 0 /\ (4 * m) \div 4 = m
  OBVIOUS
<1> QED
  BY <1>1, <1>2 DEF C!EntriesUpTo, C!EntrySize

\* C!GuessListCapacity finds the capacity that the file was laid out for.
LEMMA GuessIsRight ==
  ASSUME CapacityInv, ~spilled, size > 0
  PROVE  C!GuessListCapacity = made /\ made > 0
<1>1. C!TypeOK /\ Ordered /\ LaidOut
  BY DEF CapacityInv
<1>2. made > 0
  BY <1>1, State DEF LaidOut
<1>3. CASE C!count > 0
  <2>1. first[1] = C!DataStart(made) /\ first[1] <= size
    BY <1>1, <1>3, State DEF LaidOut, Ordered
  <2>2. size >= SchemaSize + C!EntrySize /\ size >= C!EntrySize
    <3>1. made \in Nat /\ 0 < made /\ size \in Nat
      BY <1>1, <1>2, State
    <3>2. C!DataStart(made) \in Nat /\ C!DataStart(made) >= C!EntrySize /\ SchemaSize + C!EntrySize <= C!DataStart(made)
      BY <3>1, RoomForIndex
    <3> QED
      BY <2>1, <3>1, <3>2, Sizes
  <2>3. C!GuessListCapacity = C!EntriesUpTo(first[1])
    BY <1>1, <1>3, <2>2, State, Sizes DEF C!GuessListCapacity
  <2> QED
    BY <1>1, <1>2, <2>1, <2>3, State, EntriesOfIndex
<1>4. CASE C!count = 0
  <2>1. size = C!DataStart(made)
    BY <1>1, <1>4 DEF LaidOut
  <2>2. size >= C!EntrySize
    <3>1. made \in Nat /\ 0 < made
      BY <1>1, <1>2, State
    <3> QED
      BY <2>1, <3>1, RoomForIndex
  <2>3. C!GuessListCapacity = C!EntriesUpTo(size)
    BY <1>1, <1>4, <2>2, State, Sizes DEF C!GuessListCapacity
  <2> QED
    BY <1>1, <1>2, <2>1, <2>3, State, EntriesOfIndex
<1> QED
  BY <1>1, <1>3, <1>4, State

\* What a caller opens the list with is at least 1.
LEMMA RecoveredIsPositive ==
  ASSUME C!TypeOK
  PROVE  C!Recovered \in Nat /\ C!Recovered > 0
<1>1. \A n \in Nat : C!EntriesUpTo(n) \in Nat
  <2> SUFFICES ASSUME NEW n \in Nat, n >= SchemaSize PROVE (n - SchemaSize) \div 4 \in Nat
    BY Sizes DEF C!EntriesUpTo
  <2>1. n - SchemaSize \in Nat
    BY Sizes
  <2>2. \A k \in Nat : k \div 4 \in Nat
    OBVIOUS
  <2> QED
    BY <2>1, <2>2
<1>2. C!GuessListCapacity \in Nat
  BY <1>1, State DEF C!GuessListCapacity
<1> QED
  BY <1>2, Sizes DEF C!Recovered

-----------------------------------------------------------------------------
(* Opening                                                                 *)

\* An open with a capacity m leaves the index where it is, or makes one for m in a list
\* that has none.
LEMMA OpenKeeps ==
  ASSUME CapacityInv, NEW m \in Nat, m > 0, C!OpenWith(m),
         \/ size' = size
         \/ C!count = 0 /\ size < C!DataStart(m) /\ size' = C!DataStart(m),
         over' \in BOOLEAN,
         ~spilled /\ ~over' => m <= made'
  PROVE  CapacityInv'
<1>1. /\ C!TypeOK /\ Ordered /\ size \in Nat /\ C!count \in Nat /\ C!DataStart(m) \in Nat
      /\ first' = first /\ beyond' = beyond /\ damaged' = damaged /\ spilled' = spilled
      /\ cap' = m /\ C!count <= m /\ C!count' = C!count
      /\ made' = IF size' # size \/ size = 0 THEN m ELSE made
  BY State, Sizes DEF CapacityInv, C!OpenWith, C!count
<1>2. C!TypeOK'
  BY <1>1 DEF C!TypeOK
<1>3. Ordered'
  BY <1>1 DEF Ordered
<1>4. ASSUME ~spilled PROVE LaidOut'
  <2>1. LaidOut
    BY <1>4 DEF CapacityInv
  <2>2. C!count' > 0 => made' > 0 /\ first'[1] = C!DataStart(made')
    <3> SUFFICES ASSUME C!count > 0 PROVE made' > 0 /\ first[1] = C!DataStart(made')
      BY <1>1
    <3>1. first[1] = C!DataStart(made) /\ made > 0 /\ first[1] <= size /\ made \in Nat
      BY <1>1, <2>1, State DEF LaidOut, Ordered
    <3>2. size > 0
      BY <1>1, <3>1, Sizes
    <3>3. size' = size
      BY <1>1
    <3> QED
      BY <1>1, <3>1, <3>2, <3>3
  <2>3. C!count' = 0 /\ size' > 0 => made' > 0 /\ size' = C!DataStart(made')
    <3> SUFFICES ASSUME C!count = 0, size' > 0 PROVE made' > 0 /\ size' = C!DataStart(made')
      BY <1>1
    <3>1. CASE size' = size
      BY <1>1, <2>1, <3>1 DEF LaidOut
    <3>2. CASE size < C!DataStart(m) /\ size' = C!DataStart(m)
      BY <1>1, <3>2
    <3> QED
      BY <3>1, <3>2
  <2>4. cap' > 0 /\ ~over' => cap' <= made'
    BY <1>1, <1>4
  <2>5. damaged' => beyond'
    BY <1>1, <2>1 DEF LaidOut
  <2> QED
    BY <2>2, <2>3, <2>4, <2>5 DEF LaidOut
<1> QED
  BY <1>1, <1>2, <1>3, <1>4 DEF CapacityInv

LEMMA OpenRecoveredKeeps == CapacityInv /\ C!OpenRecovered => CapacityInv'
<1> SUFFICES ASSUME CapacityInv, C!OpenRecovered PROVE CapacityInv'
  OBVIOUS
<1>1. /\ C!TypeOK /\ size' = size /\ C!OpenWith(C!Recovered) /\ over' = FALSE
      /\ C!Recovered \in Nat /\ C!Recovered > 0
  BY RecoveredIsPositive DEF CapacityInv, C!OpenRecovered
<1>2. ASSUME ~spilled PROVE C!Recovered <= made'
  <2>1. CASE size = 0
    BY <1>1, <2>1 DEF C!OpenWith
  <2>2. CASE size # 0
    <3>1. size > 0 /\ made \in Nat
      BY <1>1, <2>2, State
    <3>2. C!GuessListCapacity = made /\ made > 0
      BY <1>2, <3>1, GuessIsRight
    <3> QED
      BY <1>1, <2>2, <3>1, <3>2 DEF C!Recovered, C!OpenWith
  <2> QED
    BY <2>1, <2>2
<1> QED
  BY <1>1, <1>2, OpenKeeps

LEMMA OpenNamedKeeps ==
  ASSUME CapacityInv, NEW m \in Named, C!OpenNamed(m) \/ C!OpenListNamed(m)
  PROVE  CapacityInv'
<1>1. m \in Nat /\ m > 0 /\ C!TypeOK
  BY CapacityAssumption DEF CapacityInv
<1>2. C!OpenWith(m) /\ over' = (m > made')
  BY DEF C!OpenNamed, C!OpenListNamed
<1>3. \/ size' = size
      \/ C!count = 0 /\ size < C!DataStart(m) /\ size' = C!DataStart(m)
  BY DEF C!OpenNamed, C!OpenListNamed
<1>4. made' \in Nat
  BY <1>1, <1>2, State DEF C!OpenWith
<1>5. over' \in BOOLEAN
  BY <1>2
<1>6. ~over' => m <= made'
  <2>1. ~(m > made') => m <= made'
    BY <1>1, <1>4
  <2> QED
    BY <1>2, <2>1
<1> QED
  BY <1>1, <1>2, <1>3, <1>5, <1>6, OpenKeeps

LEMMA CreateKeeps ==
  ASSUME NEW m \in Capacities, C!Create(m)
  PROVE  CapacityInv'
<1>1. m \in Nat /\ m > 0 /\ C!DataStart(m) \in Nat
  BY CapacityAssumption, Sizes
<1>2. /\ size' = C!DataStart(m) /\ first' = << >> /\ cap' = m /\ made' = m
      /\ over' = FALSE /\ beyond' = FALSE /\ damaged' = FALSE /\ spilled' = FALSE
      /\ C!count' = 0
  BY DEF C!Create, C!count
<1>3. C!TypeOK'
  <2>1. first' \in Seq(Nat)
    BY <1>2
  <2>2. over' \in BOOLEAN /\ beyond' \in BOOLEAN /\ damaged' \in BOOLEAN /\ spilled' \in BOOLEAN
    BY <1>2, Zenon
  <2>3. cap' > 0 => C!count' <= cap'
    BY <1>1, <1>2
  <2>4. size' \in Nat /\ cap' \in Nat /\ made' \in Nat
    BY <1>1, <1>2
  <2> QED
    BY <2>1, <2>2, <2>3, <2>4, Zenon DEF C!TypeOK
<1>4. Ordered'
  BY <1>2 DEF Ordered
<1>5. LaidOut'
  BY <1>1, <1>2 DEF LaidOut
<1> QED
  BY <1>3, <1>4, <1>5 DEF CapacityInv

LEMMA CloseKeeps == CapacityInv /\ C!Close => CapacityInv'
<1> SUFFICES ASSUME CapacityInv, C!Close PROVE CapacityInv'
  OBVIOUS
<1>1. /\ C!TypeOK /\ Ordered /\ cap' = 0 /\ over' = FALSE /\ C!count' = C!count
      /\ UNCHANGED <<size, first, made, beyond, damaged, spilled>>
  BY DEF CapacityInv, C!Close, C!count
<1>2. C!TypeOK'
  <2>1. over' \in BOOLEAN /\ beyond' \in BOOLEAN /\ damaged' \in BOOLEAN /\ spilled' \in BOOLEAN
    BY <1>1, Zenon DEF C!TypeOK
  <2>2. cap' \in Nat /\ (cap' > 0 => C!count' <= cap')
    BY <1>1
  <2>3. size' \in Nat /\ first' \in Seq(Nat) /\ made' \in Nat
    BY <1>1, Zenon DEF C!TypeOK
  <2> QED
    BY <2>1, <2>2, <2>3, Zenon DEF C!TypeOK
<1>3. Ordered'
  BY <1>1 DEF Ordered
<1>4. LaidOut => LaidOut'
  BY <1>1 DEF LaidOut
<1> QED
  BY <1>1, <1>2, <1>3, <1>4 DEF CapacityInv

-----------------------------------------------------------------------------
(* Adding                                                                  *)

\* Where the next blob starts there is none yet, and no index slot of the list.
LEMMA NextStart ==
  ASSUME CapacityInv, cap > 0
  PROVE  /\ C!StartOfNext \in Nat /\ C!StartOfNext >= size /\ C!StartOfNext >= C!DataStart(cap)
         /\ \A i \in 1 .. C!count : first[i] <= C!StartOfNext
<1>1. /\ size \in Nat /\ cap \in Nat /\ C!DataStart(cap) \in Nat /\ Ordered
      /\ \A i \in 1 .. C!count : first[i] \in Nat
  BY State, Sizes DEF CapacityInv
<1>2. C!StartOfNext \in Nat /\ C!StartOfNext >= size /\ C!StartOfNext >= C!DataStart(cap)
  BY <1>1 DEF C!StartOfNext
<1> QED
  BY <1>1, <1>2 DEF Ordered

\* A slot below the capacity that a list was made for is not in a blob.
LEMMA SlotIsFree ==
  ASSUME NEW f \in Seq(Nat), NEW n \in Nat, NEW m \in Nat, NEW k \in Nat, k < m,
         \A i \in 1 .. Len(f) : f[i] >= C!DataStart(m)
  PROVE  ~C!SlotHitsBlob(k, f, n)
<1>1. SchemaSize + C!EntrySize * k + C!EntrySize <= C!DataStart(m)
  BY RoomForIndex
<1>2. SchemaSize + C!EntrySize * k + C!EntrySize \in Nat /\ C!DataStart(m) \in Nat
  BY RoomForIndex
<1>3. ASSUME NEW i \in 1 .. Len(f)
      PROVE  ~(f[i] < SchemaSize + C!EntrySize * k + C!EntrySize)
  <2>1. f[i] \in Nat /\ f[i] >= C!DataStart(m)
    BY <1>3
  <2> QED
    BY <1>1, <1>2, <2>1
<1> QED
  BY <1>3 DEF C!SlotHitsBlob

LEMMA AddKeeps ==
  ASSUME CapacityInv, NEW n \in Lengths, C!Add(n)
  PROVE  CapacityInv'
<1> DEFINE start == C!StartOfNext
<1>1. /\ C!TypeOK /\ Ordered /\ n \in Nat /\ cap > 0 /\ C!count < cap
      /\ first' = Append(first, start) /\ size' = start + n
      /\ damaged' = (damaged \/ C!SlotHitsBlob(C!count, first', size'))
      /\ made' = IF C!count = 0 /\ size < C!DataStart(cap) THEN cap ELSE made
      /\ over' = (over /\ made' < cap)
      /\ beyond' = (beyond \/ (over' /\ C!count >= made'))
      /\ cap' = cap /\ spilled' = spilled
  BY CapacityAssumption DEF CapacityInv, C!Add, C!LaidOutFor
<1>2. /\ size \in Nat /\ first \in Seq(Nat) /\ C!count \in Nat /\ cap \in Nat /\ made \in Nat
      /\ \A i \in 1 .. C!count : first[i] \in Nat
      /\ C!DataStart(cap) \in Nat /\ Len(first) = C!count
  BY <1>1, State, Sizes DEF C!count
<1>3. /\ start \in Nat /\ start >= size /\ start >= C!DataStart(cap)
      /\ \A i \in 1 .. C!count : first[i] <= start
  BY <1>1, NextStart
<1>4. start = size \/ (size < C!DataStart(cap) /\ start = C!DataStart(cap))
  BY DEF C!StartOfNext
<1> HIDE DEF start
<1>5. /\ first' \in Seq(Nat) /\ C!count' = C!count + 1
      /\ \A i \in 1 .. C!count : first'[i] = first[i]
      /\ first'[C!count + 1] = start
  BY <1>1, <1>2, <1>3 DEF C!count
<1>6. made' \in Nat /\ size' \in Nat
  BY <1>1, <1>2, <1>3
<1>7. C!TypeOK'
  BY <1>1, <1>2, <1>5, <1>6 DEF C!TypeOK
<1>8. Ordered'
  <2>1. ASSUME NEW i \in 1 .. C!count + 1
        PROVE  first'[i] \in Nat /\ first'[i] <= start
    <3>1. CASE i = C!count + 1
      BY <1>3, <1>5, <3>1
    <3>2. CASE i # C!count + 1
      <4>1. i \in 1 .. C!count
        BY <1>2, <3>2
      <4> QED
        BY <1>2, <1>3, <1>5, <4>1
    <3> QED
      BY <3>1, <3>2
  <2>2. ASSUME NEW i \in 1 .. C!count + 1, NEW j \in 1 .. C!count + 1, i <= j
        PROVE  first'[i] <= first'[j]
    <3>1. CASE j = C!count + 1
      BY <1>5, <2>1, <3>1
    <3>2. CASE j # C!count + 1
      <4>1. j \in 1 .. C!count /\ i \in 1 .. C!count
        BY <1>2, <2>2, <3>2
      <4> QED
        BY <1>1, <1>5, <2>2, <4>1 DEF Ordered
    <3> QED
      BY <3>1, <3>2
  <2>3. ASSUME NEW i \in 1 .. C!count + 1 PROVE first'[i] <= size'
    <3>1. first'[i] \in Nat /\ first'[i] <= start
      BY <2>1
    <3>2. start <= size'
      BY <1>1, <1>3
    <3> QED
      BY <1>3, <1>6, <3>1, <3>2
  <2> QED
    BY <1>5, <2>2, <2>3 DEF Ordered
<1>9. ASSUME ~spilled PROVE LaidOut'
  <2>1. LaidOut
    BY <1>9 DEF CapacityInv
  <2>2. first'[1] = C!DataStart(made') /\ made' > 0
    <3>1. CASE C!count = 0
      <4>1. first'[1] = start
        BY <1>5, <3>1
      <4>2. CASE size < C!DataStart(cap)
        BY <1>1, <1>2, <1>3, <1>4, <3>1, <4>1, <4>2
      <4>3. CASE ~(size < C!DataStart(cap))
        <5>1. C!DataStart(cap) > 0
          BY <1>2, Sizes
        <5>2. size > 0 /\ start = size /\ made' = made
          BY <1>1, <1>2, <1>4, <4>3, <5>1
        <5> QED
          BY <2>1, <3>1, <4>1, <5>2 DEF LaidOut
      <4> QED
        BY <4>2, <4>3
    <3>2. CASE C!count # 0
      <4>1. made' = made /\ C!count > 0 /\ first'[1] = first[1]
        BY <1>1, <1>2, <1>5, <3>2
      <4> QED
        BY <2>1, <4>1 DEF LaidOut
    <3> QED
      BY <3>1, <3>2
  <2>3. ASSUME ~over' PROVE cap <= made'
    <3>1. CASE ~over
      <4>1. cap <= made
        BY <1>1, <2>1, <3>1 DEF LaidOut
      <4> QED
        BY <1>1, <1>2, <4>1
    <3>2. CASE over
      <4>1. ~(made' < cap)
        BY <1>1, <2>3, <3>2
      <4> QED
        BY <1>2, <1>6, <4>1
    <3> QED
      BY <3>1, <3>2
  <2>4. ASSUME C!SlotHitsBlob(C!count, first', size') PROVE beyond'
    <3>1. ASSUME NEW i \in 1 .. Len(first') PROVE first'[i] >= C!DataStart(made')
      <4>1. Len(first') = C!count + 1 /\ 1 \in 1 .. Len(first') /\ 1 <= i
        BY <1>2, <1>5 DEF C!count
      <4>2. first'[1] <= first'[i]
        BY <1>5, <1>8, <4>1 DEF Ordered
      <4> QED
        BY <2>2, <4>2
    <3>2. ~(C!count < made')
      BY <1>2, <1>5, <1>6, <2>4, <3>1, SlotIsFree
    <3>3. ~(cap <= made') /\ C!count >= made'
      BY <1>1, <1>2, <1>6, <3>2
    <3>4. over'
      BY <2>3, <3>3
    <3> QED
      BY <1>1, <3>3, <3>4
  <2>5. damaged' => beyond'
    BY <1>1, <2>1, <2>4 DEF LaidOut
  <2>6. C!count' # 0
    BY <1>2, <1>5
  <2> QED
    BY <1>1, <2>2, <2>3, <2>5, <2>6 DEF LaidOut
<1> QED
  BY <1>1, <1>7, <1>8, <1>9 DEF CapacityInv

LEMMA AddFailsKeeps ==
  ASSUME CapacityInv, NEW n \in Nat, NEW slot \in BOOLEAN, C!AddFails(n, slot)
  PROVE  CapacityInv'
<1> DEFINE start == C!StartOfNext
<1>1. /\ C!TypeOK /\ Ordered /\ cap > 0 /\ C!count < cap /\ size' = start + n
      /\ damaged' = (damaged \/ (slot /\ C!SlotHitsBlob(C!count, first, size')))
      /\ made' = IF C!count = 0 /\ size < C!DataStart(cap) THEN cap ELSE made
      /\ over' = (over /\ made' < cap)
      /\ beyond' = (beyond \/ (slot /\ over' /\ C!count >= made'))
      /\ spilled' = (spilled \/ (C!count = 0 /\ n > 0))
      /\ first' = first /\ cap' = cap /\ C!count' = C!count
  BY DEF CapacityInv, C!AddFails, C!LaidOutFor, C!count
<1>1a. /\ cap > 0 /\ size' = start + n /\ cap' = cap /\ first' = first /\ C!count' = C!count
       /\ made' = IF C!count = 0 /\ size < C!DataStart(cap) THEN cap ELSE made
  BY <1>1
<1>2. /\ size \in Nat /\ first \in Seq(Nat) /\ C!count \in Nat /\ cap \in Nat /\ made \in Nat
      /\ C!DataStart(cap) \in Nat /\ Len(first) = C!count
      /\ \A i \in 1 .. C!count : first[i] \in Nat
  BY <1>1, State, Sizes DEF C!count
<1>3. start \in Nat /\ \A i \in 1 .. C!count : first[i] <= start
  BY <1>1, NextStart
<1>4. start = IF size < C!DataStart(cap) THEN C!DataStart(cap) ELSE size
  BY DEF C!StartOfNext
<1> HIDE DEF start
<1>5. size' \in Nat /\ size' >= start /\ made' \in Nat
  BY <1>1, <1>2, <1>3
<1>6. over' \in BOOLEAN /\ beyond' \in BOOLEAN /\ damaged' \in BOOLEAN /\ spilled' \in BOOLEAN
  BY <1>1, Zenon DEF C!TypeOK
<1>7. C!TypeOK'
  <2>1. first' \in Seq(Nat) /\ cap' \in Nat /\ (cap' > 0 => C!count' <= cap')
    BY <1>1, <1>2
  <2> QED
    BY <1>5, <1>6, <2>1, Zenon DEF C!TypeOK
<1>8. Ordered'
  BY <1>1, <1>2, <1>3, <1>5 DEF Ordered
<1>9. ASSUME ~spilled' PROVE LaidOut'
  <2>0. ~spilled /\ ~(C!count = 0 /\ n > 0)
    BY <1>1, <1>9, Zenon DEF C!TypeOK
  <2>1. LaidOut /\ (C!count = 0 => n = 0)
    BY <2>0 DEF CapacityInv
  <2>2. CASE C!count = 0
    <3>1. size' = start
      BY <1>1, <1>3, <2>1, <2>2
    <3>2. size' > 0 => made' > 0 /\ size' = C!DataStart(made')
      <4>1. CASE size < C!DataStart(cap)
        <5>1. made' = cap /\ size' = C!DataStart(cap) /\ cap > 0
          BY <1>1a, <1>4, <2>2, <3>1, <4>1, <1>2
        <5> QED
          BY <5>1, Zenon
      <4>2. CASE ~(size < C!DataStart(cap))
        <5>1. made' = made /\ size' = size
          BY <1>1a, <1>4, <2>2, <3>1, <4>2
        <5>2. size > 0 => made > 0 /\ size = C!DataStart(made)
          BY <2>1, <2>2 DEF LaidOut
        <5> QED
          BY <5>1, <5>2, Zenon
      <4> QED
        BY <4>1, <4>2
    <3>3. cap' > 0 /\ ~over' => cap' <= made'
      <4>1. CASE size < C!DataStart(cap)
        BY <1>1, <1>2, <2>2, <4>1
      <4>2. CASE ~(size < C!DataStart(cap))
        <5>1. made' = made /\ (size < C!DataStart(cap) \/ over' = (over /\ made < cap))
          BY <1>1, <2>2, <4>2
        <5>2. ~over => cap <= made
          BY <1>1, <2>1 DEF LaidOut
        <5>3. ~over' => ~over \/ ~(made < cap)
          BY <4>2, <5>1
        <5> QED
          BY <1>1, <1>2, <5>1, <5>2, <5>3
      <4> QED
        BY <4>1, <4>2
    <3>4. ~C!SlotHitsBlob(C!count, first, size')
      BY <1>2, <2>2 DEF C!SlotHitsBlob
    <3> QED
      BY <1>1, <2>1, <2>2, <3>2, <3>3, <3>4 DEF LaidOut
  <2>3. CASE C!count # 0
    <3>1. made' = made /\ C!count > 0 /\ made > 0 /\ first[1] = C!DataStart(made)
      BY <1>1, <1>2, <2>1, <2>3 DEF LaidOut
    <3>2. ASSUME ~over' PROVE cap <= made
      <4>1. ~over \/ ~(made < cap)
        BY <1>1, <3>1, <3>2
      <4>2. ~over => cap <= made
        BY <1>1a, <2>1 DEF LaidOut
      <4> QED
        BY <1>2, <4>1, <4>2
    <3>3. ASSUME C!SlotHitsBlob(C!count, first, size') PROVE over' /\ C!count >= made
      <4>1. ASSUME NEW i \in 1 .. Len(first) PROVE first[i] >= C!DataStart(made)
        <5>1. 1 \in 1 .. C!count /\ i \in 1 .. C!count /\ 1 <= i
          BY <1>2, <3>1
        <5>2. first[1] <= first[i]
          BY <1>1, <5>1 DEF Ordered
        <5> QED
          BY <3>1, <5>2
      <4>2. ~(C!count < made)
        BY <1>2, <1>5, <3>3, <4>1, SlotIsFree
      <4>3. ~(cap <= made)
        BY <1>1, <1>2, <4>2
      <4> QED
        BY <1>2, <3>2, <4>2, <4>3
    <3>4. damaged' => beyond'
      BY <1>1, <2>1, <3>1, <3>3 DEF LaidOut
    <3> QED
      BY <1>1, <2>3, <3>1, <3>2, <3>4 DEF LaidOut
  <2> QED
    BY <2>2, <2>3
<1> QED
  BY <1>7, <1>8, <1>9 DEF CapacityInv

-----------------------------------------------------------------------------
(* Writing the list again                                                  *)

\* Starts in order from first[1] on, up to the end.
LEMMA RebuiltKeeps ==
  ASSUME CapacityInv, cap > 0, NEW k \in Nat, k <= cap, NEW starts \in [1 .. k -> Int], NEW end \in Int,
         C!count > 0,
         k > 0 => starts[1] = first[1] /\ first[1] <= end,
         \A i, j \in 1 .. k : i <= j => starts[i] <= starts[j],
         \A i \in 1 .. k : starts[i] <= end,
         C!Rebuilt(starts, end)
  PROVE  CapacityInv'
<1>1. /\ C!TypeOK /\ cap \in Nat /\ first[1] \in Nat /\ C!DataStart(cap) \in Nat
  <2>1. C!TypeOK /\ cap \in Nat /\ C!count \in Nat /\ \A i \in 1 .. C!count : first[i] \in Nat
    BY State DEF CapacityInv
  <2>2. 1 \in 1 .. C!count
    BY <2>1
  <2> QED
    BY <2>1, <2>2, Sizes
<1>2. DOMAIN starts = 1 .. k
  OBVIOUS
<1> DEFINE d == C!DataStart(cap) - first[1]
<1>3. /\ first' = [j \in 1 .. k |-> starts[j] - first[1] + C!DataStart(cap)]
      /\ size' = IF starts = << >> THEN 0 ELSE end - first[1] + C!DataStart(cap)
      /\ made' = cap /\ over' = FALSE
      /\ UNCHANGED <<cap, beyond, damaged, spilled>>
  BY <1>2 DEF C!Rebuilt
<1>4. \A j \in 1 .. k : starts[j] \in Int
  OBVIOUS
<1>5. d \in Int
  BY <1>1
<1>6. \A j \in 1 .. k : starts[j] - first[1] + C!DataStart(cap) = starts[j] + d
  BY <1>1, <1>4
<1>7. \A j \in 1 .. k : first'[j] = starts[j] + d
  BY <1>3, <1>6
<1>8. ASSUME NEW j \in 1 .. k PROVE first'[j] \in Nat
  <2>1. 1 \in 1 .. k /\ 1 <= j
    BY <1>8
  <2>2. starts[1] <= starts[j] /\ starts[1] = first[1]
    BY <2>1
  <2>3. starts[j] - first[1] + C!DataStart(cap) \in Nat
    BY <1>1, <1>4, <2>2
  <2> QED
    BY <1>3, <2>3
<1>9. first' \in [1 .. k -> Nat]
  BY <1>3, <1>8
<1>10. first' \in Seq(Nat) /\ C!count' = k
  BY <1>9, FunctionIsSequence DEF C!count
<1>11. starts = << >> <=> k = 0
  <2>1. CASE k = 0
    <3>1. starts \in Seq(Int) /\ Len(starts) = 0
      BY <2>1, FunctionIsSequence
    <3> QED
      BY <2>1, <3>1
  <2>2. CASE k # 0
    BY <1>2, <2>2
  <2> QED
    BY <2>1, <2>2
<1>12. k > 0 => size' = end + d
  BY <1>1, <1>3, <1>11
<1>13. k = 0 => size' = 0
  BY <1>3, <1>11
<1>14. size' \in Nat
  <2>1. CASE k > 0
    <3>1. end - first[1] + C!DataStart(cap) \in Nat
      BY <1>1, <2>1
    <3> QED
      BY <1>3, <1>11, <2>1, <3>1
  <2> QED
    BY <1>13, <2>1
<1>15. k > 0 => first'[1] = C!DataStart(cap)
  BY <1>1, <1>7
<1> HIDE DEF d
<1>16. C!TypeOK'
  BY <1>1, <1>3, <1>10, <1>14 DEF C!TypeOK
<1>17. Ordered'
  <2>1. ASSUME NEW i \in 1 .. k, NEW j \in 1 .. k, i <= j
        PROVE  first'[i] <= first'[j]
    BY <1>4, <1>5, <1>7, <2>1
  <2>2. ASSUME NEW i \in 1 .. k PROVE first'[i] <= size'
    <3>1. size' = end + d /\ first'[i] = starts[i] + d /\ starts[i] <= end
      BY <1>7, <1>12, <2>2
    <3> QED
      BY <1>4, <1>5, <3>1
  <2> QED
    BY <1>10, <2>1, <2>2 DEF Ordered
<1>18. ASSUME ~spilled PROVE LaidOut'
  BY <1>1, <1>3, <1>10, <1>13, <1>15, <1>18 DEF LaidOut, CapacityInv
<1> QED
  BY <1>3, <1>16, <1>17, <1>18 DEF CapacityInv

\* The blob i ends where the next one starts, or with the file.
LEMMA LengthOfBlob ==
  ASSUME C!TypeOK, Ordered, NEW i \in 1 .. C!count
  PROVE  /\ C!LengthOf(i) \in Nat /\ first[1] <= first[i]
         /\ i < C!count => first[i] + C!LengthOf(i) = first[i + 1]
         /\ i = C!count => first[i] + C!LengthOf(i) = size
         /\ \A j \in 1 .. C!count : i < j => first[i] + C!LengthOf(i) <= first[j]
         /\ first[i] + C!LengthOf(i) <= size
<1>1. /\ size \in Nat /\ C!count \in Nat /\ \A j \in 1 .. C!count : first[j] \in Nat
      /\ Len(first) = C!count
  BY State DEF C!count
<1>2. first[1] <= first[i]
  BY <1>1 DEF Ordered
<1>3. CASE i < C!count
  <2>1. i + 1 \in 1 .. C!count /\ i <= i + 1 /\ C!LengthOf(i) = first[i + 1] - first[i]
    BY <1>1, <1>3 DEF C!LengthOf, C!EndOf
  <2>2. first[i] <= first[i + 1] /\ first[i + 1] <= size
    BY <2>1 DEF Ordered
  <2>3. \A j \in 1 .. C!count : i < j => first[i + 1] <= first[j]
    BY <1>1, <2>1 DEF Ordered
  <2>4. first[i] + C!LengthOf(i) = first[i + 1] /\ C!LengthOf(i) \in Nat
    BY <1>1, <2>1, <2>2
  <2> QED
    BY <1>1, <1>2, <1>3, <2>2, <2>3, <2>4
<1>4. CASE i = C!count
  <2>1. C!LengthOf(i) = size - first[i]
    BY <1>1, <1>4 DEF C!LengthOf, C!EndOf
  <2>2. first[i] <= size
    BY DEF Ordered
  <2> QED
    BY <1>1, <1>2, <1>4, <2>1, <2>2
<1> QED
  BY <1>1, <1>3, <1>4

LEMMA DeleteKeeps ==
  ASSUME CapacityInv, NEW i \in 1 .. C!count, C!DeleteBlob(i)
  PROVE  CapacityInv'
<1> DEFINE starts == [j \in 1 .. C!count - 1 |->
                         IF j < i THEN first[j] ELSE first[j + 1] - C!LengthOf(i)]
           end == size - C!LengthOf(i)
<1>1. /\ C!TypeOK /\ Ordered /\ cap > 0 /\ C!count <= cap /\ C!Rebuilt(starts, end)
  BY DEF CapacityInv, C!TypeOK, C!DeleteBlob
<1>2. /\ size \in Nat /\ C!count \in Nat /\ cap \in Nat
      /\ \A j \in 1 .. C!count : first[j] \in Nat
  BY <1>1, State
<1>3. /\ C!LengthOf(i) \in Nat /\ first[1] <= first[i]
      /\ i < C!count => first[i] + C!LengthOf(i) = first[i + 1]
      /\ i = C!count => first[i] + C!LengthOf(i) = size
      /\ \A j \in 1 .. C!count : i < j => first[i] + C!LengthOf(i) <= first[j]
      /\ first[i] + C!LengthOf(i) <= size
  BY <1>1, LengthOfBlob
<1>4. \A j \in 1 .. C!count - 1 : /\ j < i => starts[j] = first[j] /\ j \in 1 .. C!count
                                /\ j >= i => /\ starts[j] = first[j + 1] - C!LengthOf(i)
                                             /\ j + 1 \in 1 .. C!count
  BY <1>2
<1>5. starts \in [1 .. C!count - 1 -> Int]
  BY <1>2, <1>3
<1>6. end \in Int /\ end >= first[1]
  BY <1>2, <1>3
<1>7. ASSUME NEW j \in 1 .. C!count - 1 PROVE starts[j] <= end
  <2>1. CASE j < i
    <3>1. j \in 1 .. C!count /\ i \in 1 .. C!count /\ j <= i
      BY <1>2, <1>4, <2>1
    <3> HIDE DEF starts, end
    <3>2. first[j] <= first[i]
      BY <1>1, <3>1 DEF Ordered
    <3> QED
      BY <1>2, <1>3, <1>4, <2>1, <3>1, <3>2 DEF starts, end
  <2>2. CASE j >= i
    <3>1. j + 1 \in 1 .. C!count /\ starts[j] = first[j + 1] - C!LengthOf(i)
      BY <1>4, <2>2
    <3>2. first[j + 1] <= size
      BY <1>1, <3>1 DEF Ordered
    <3> QED
      BY <1>2, <1>3, <3>1, <3>2
  <2> QED
    BY <1>2, <2>1, <2>2
<1>8. ASSUME NEW j \in 1 .. C!count - 1, NEW k \in 1 .. C!count - 1, j <= k
      PROVE  starts[j] <= starts[k]
  <2>1. CASE k < i
    <3>1. starts[j] = first[j] /\ starts[k] = first[k] /\ j \in 1 .. C!count /\ k \in 1 .. C!count
      BY <1>2, <1>4, <1>8, <2>1
    <3> QED
      BY <1>1, <1>8, <3>1 DEF Ordered
  <2>2. CASE j < i /\ k >= i
    <3>1. /\ starts[j] = first[j] /\ j \in 1 .. C!count
          /\ starts[k] = first[k + 1] - C!LengthOf(i) /\ k + 1 \in 1 .. C!count /\ i < k + 1
      BY <1>2, <1>4, <2>2
    <3>2. first[j] <= first[i] /\ first[i] + C!LengthOf(i) <= first[k + 1]
      BY <1>1, <1>2, <1>3, <2>2, <3>1 DEF Ordered
    <3> QED
      BY <1>2, <1>3, <3>1, <3>2
  <2>3. CASE j >= i
    <3>1. /\ starts[j] = first[j + 1] - C!LengthOf(i) /\ j + 1 \in 1 .. C!count
          /\ starts[k] = first[k + 1] - C!LengthOf(i) /\ k + 1 \in 1 .. C!count
          /\ j + 1 <= k + 1
      BY <1>2, <1>4, <1>8, <2>3
    <3>2. first[j + 1] <= first[k + 1]
      BY <1>1, <3>1 DEF Ordered
    <3> QED
      BY <1>2, <1>3, <3>1, <3>2
  <2> QED
    BY <1>2, <2>1, <2>2, <2>3
<1>9. C!count - 1 > 0 => starts[1] = first[1]
  <2> SUFFICES ASSUME C!count - 1 > 0 PROVE starts[1] = first[1]
    OBVIOUS
  <2>1. 1 \in 1 .. C!count - 1
    BY <1>2
  <2>2. CASE 1 < i
    BY <1>4, <2>1, <2>2
  <2>3. CASE i = 1
    BY <1>2, <1>3, <1>4, <2>1, <2>3
  <2> QED
    BY <1>2, <2>2, <2>3
<1> HIDE DEF starts, end
<1>10. C!count - 1 \in Nat /\ C!count - 1 <= cap /\ C!count > 0
  BY <1>1, <1>2
<1> QED
  BY <1>1, <1>5, <1>6, <1>7, <1>8, <1>9, <1>10, RebuiltKeeps

LEMMA ReplaceKeeps ==
  ASSUME CapacityInv, NEW i \in 1 .. C!count, NEW n \in Lengths, C!ReplaceBlob(i, n)
  PROVE  CapacityInv'
<1> DEFINE starts == [j \in 1 .. C!count |->
                         IF j <= i THEN first[j] ELSE first[j] + n - C!LengthOf(i)]
           end == size + n - C!LengthOf(i)
<1>1. /\ C!TypeOK /\ Ordered /\ cap > 0 /\ C!count <= cap /\ C!Rebuilt(starts, end) /\ n \in Nat
  BY CapacityAssumption DEF CapacityInv, C!TypeOK, C!ReplaceBlob
<1>2. /\ size \in Nat /\ C!count \in Nat /\ cap \in Nat
      /\ \A j \in 1 .. C!count : first[j] \in Nat
  BY <1>1, State
<1>3. /\ C!LengthOf(i) \in Nat /\ first[1] <= first[i]
      /\ \A j \in 1 .. C!count : i < j => first[i] + C!LengthOf(i) <= first[j]
      /\ first[i] + C!LengthOf(i) <= size
  BY <1>1, LengthOfBlob
<1>4. \A j \in 1 .. C!count : /\ j <= i => starts[j] = first[j]
                            /\ j > i => starts[j] = first[j] + n - C!LengthOf(i)
  BY <1>2
<1>5. starts \in [1 .. C!count -> Int]
  BY <1>1, <1>2, <1>3
<1>6. end \in Int /\ end >= first[1]
  BY <1>1, <1>2, <1>3
<1>7. ASSUME NEW j \in 1 .. C!count PROVE starts[j] <= end
  <2>1. CASE j <= i
    <3>1. first[j] <= first[i]
      BY <1>1, <2>1 DEF Ordered
    <3> QED
      BY <1>1, <1>2, <1>3, <1>4, <2>1, <3>1
  <2>2. CASE j > i
    <3>1. first[j] <= size
      BY <1>1 DEF Ordered
    <3> QED
      BY <1>1, <1>2, <1>3, <1>4, <2>2, <3>1
  <2> QED
    BY <1>2, <2>1, <2>2
<1>8. ASSUME NEW j \in 1 .. C!count, NEW k \in 1 .. C!count, j <= k
      PROVE  starts[j] <= starts[k]
  <2>1. first[j] <= first[k]
    BY <1>1, <1>8 DEF Ordered
  <2>2. CASE k <= i
    BY <1>2, <1>4, <1>8, <2>1, <2>2
  <2>3. CASE j <= i /\ k > i
    <3>1. first[j] <= first[i] /\ first[i] + C!LengthOf(i) <= first[k]
      BY <1>1, <1>2, <1>3, <2>3 DEF Ordered
    <3>2. starts[j] = first[j] /\ starts[k] = first[k] + n - C!LengthOf(i)
      BY <1>4, <2>3
    <3>3. first[i] \in Nat /\ first[j] \in Nat /\ first[k] \in Nat
      BY <1>2
    <3> HIDE DEF starts
    <3> QED
      BY <1>1, <1>3, <3>1, <3>2, <3>3
  <2>4. CASE j > i
    <3>1. k > i
      BY <1>8, <2>4
    <3>2. /\ starts[j] = first[j] + n - C!LengthOf(i)
          /\ starts[k] = first[k] + n - C!LengthOf(i)
      BY <1>4, <2>4, <3>1
    <3>3. first[j] \in Nat /\ first[k] \in Nat
      BY <1>2
    <3> HIDE DEF starts
    <3> QED
      BY <1>1, <1>3, <2>1, <3>2, <3>3
  <2> QED
    BY <1>2, <2>2, <2>3, <2>4
<1>9. starts[1] = first[1] /\ C!count > 0
  BY <1>2, <1>4
<1> HIDE DEF starts, end
<1> QED
  BY <1>1, <1>2, <1>5, <1>6, <1>7, <1>8, <1>9, RebuiltKeeps

-----------------------------------------------------------------------------
(* The theorems                                                            *)

LEMMA CapacityInitially == C!Init => CapacityInv
<1> SUFFICES ASSUME C!Init PROVE CapacityInv
  OBVIOUS
<1>1. /\ size = 0 /\ first = << >> /\ cap = 0 /\ made = 0 /\ C!count = 0
      /\ over = FALSE /\ beyond = FALSE /\ damaged = FALSE /\ spilled = FALSE
  BY DEF C!Init, C!count
<1>2. C!TypeOK
  <2>1. first \in Seq(Nat)
    BY <1>1
  <2>2. over \in BOOLEAN /\ beyond \in BOOLEAN /\ damaged \in BOOLEAN /\ spilled \in BOOLEAN
    BY <1>1, Zenon
  <2>3. size \in Nat /\ cap \in Nat /\ made \in Nat /\ (cap > 0 => C!count <= cap)
    BY <1>1
  <2> QED
    BY <2>1, <2>2, <2>3, Zenon DEF C!TypeOK
<1>3. Ordered /\ LaidOut
  BY <1>1 DEF Ordered, LaidOut
<1> QED
  BY <1>2, <1>3 DEF CapacityInv

LEMMA CapacityPreserved == CapacityInv /\ [C!Next]_(C!vars) => CapacityInv'
<1> SUFFICES ASSUME CapacityInv, [C!Next]_(C!vars) PROVE CapacityInv'
  OBVIOUS
<1>1. CASE UNCHANGED C!vars
  BY <1>1 DEF C!vars, CapacityInv, C!TypeOK, Ordered, LaidOut, C!count
<1>2. CASE \E m \in Capacities : C!Create(m)
  BY <1>2, CreateKeeps
<1>3. CASE C!OpenRecovered
  BY <1>3, OpenRecoveredKeeps
<1>4. CASE \E m \in Named : C!OpenNamed(m) \/ C!OpenListNamed(m)
  BY <1>4, OpenNamedKeeps
<1>5. CASE C!Close
  BY <1>5, CloseKeeps
<1>6. CASE \E n \in Lengths : C!Add(n)
  BY <1>6, AddKeeps
<1>7. CASE \/ \E n \in Partial : C!AddFails(n, FALSE)
           \/ \E n \in Lengths, slot \in BOOLEAN : C!AddFails(n, slot)
  BY <1>7, AddFailsKeeps, CapacityAssumption
<1>8. CASE \E i \in 1 .. C!count : C!DeleteBlob(i) \/ \E n \in Lengths : C!ReplaceBlob(i, n)
  BY <1>8, DeleteKeeps, ReplaceKeeps
<1> QED
  BY <1>1, <1>2, <1>3, <1>4, <1>5, <1>6, <1>7, <1>8 DEF C!Next

\* The invariant holds in every state.
THEOREM CapacityInductive == C!Spec => []CapacityInv
  BY CapacityInitially, CapacityPreserved, PTL DEF C!Spec

\* Offsets, sizes and capacities keep their types, and an open list never holds more
\* blobs than its capacity.
THEOREM CapacityTypes == C!Spec => []C!TypeOK
<1>1. CapacityInv => C!TypeOK
  BY DEF CapacityInv
<1> QED
  BY <1>1, CapacityInductive, PTL

\* The capacity a list was laid out for is read back from its file, for every history
\* in which no Add left bytes before the first blob.
THEOREM CapacityIsRecovered == C!Spec => []CapacityRecovered
<1>1. CapacityInv => C!CapacityRecovered
  BY GuessIsRight DEF C!CapacityRecovered
<1>2. C!CapacityRecovered <=> CapacityRecovered
  BY DEF CapacityRecovered, C!CapacityRecovered, GuessListCapacity, C!GuessListCapacity,
     EntriesUpTo, C!EntriesUpTo, EntrySize, C!EntrySize, count, C!count
<1> QED
  BY <1>1, <1>2, CapacityInductive, PTL

\* No index write lands in a blob, and the index of an open list ends before its first
\* blob, whatever writes fail, but for a named capacity that is larger than the list was
\* made for, and then only once an Add gets to a slot it was not made for.
THEOREM DataStaysBehindIndex == C!Spec => []DataBehindIndex
<1>1. ASSUME CapacityInv, ~spilled
      PROVE  /\ damaged => beyond
             /\ cap > 0 /\ C!count > 0 /\ ~over => first[1] >= C!DataStart(cap)
  <2>1. LaidOut /\ cap \in Nat /\ made \in Nat
    BY <1>1, State DEF CapacityInv
  <2>2. ASSUME cap > 0, C!count > 0, ~over PROVE first[1] >= C!DataStart(cap)
    <3>1. cap <= made /\ first[1] = C!DataStart(made)
      BY <2>1, <2>2 DEF LaidOut
    <3> QED
      BY <2>1, <3>1, Sizes
  <2> QED
    BY <2>1, <2>2 DEF LaidOut
<1>2. CapacityInv => C!DataBehindIndex
  BY <1>1 DEF C!DataBehindIndex
<1>3. C!DataBehindIndex <=> DataBehindIndex
  BY DEF DataBehindIndex, C!DataBehindIndex, DataStart, C!DataStart, EntrySize, C!EntrySize,
     count, C!count
<1> QED
  BY <1>2, <1>3, CapacityInductive, PTL
=============================================================================
