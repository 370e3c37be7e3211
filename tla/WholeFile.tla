----------------------------- MODULE WholeFile ------------------------------
(***************************************************************************)
(* The commands that make a file from a file: packing and unpacking in the *)
(* editor (gui/deflate_service.go) and on the command line                 *)
(* (internal/cli/compression.go), the commands that take a whole file into *)
(* memory and write another (zlib, aes, rsa, list get, the editor's        *)
(* ExportBlob), and rsa generate. A command goes step by step over names,  *)
(* that can be links to one file, and other processes run beside it. Any   *)
(* step may fail; a process may die.                                       *)
(*                                                                         *)
(* A content is some text under a number of layers: packing, compressing   *)
(* and encrypting add one, undoing that takes it away (one codec stands    *)
(* for all). A file while p writes it, or after p gave up, is the text p.  *)
(***************************************************************************)
EXTENDS Integers, Sequences

CONSTANTS
    Name,    \* names of files
    Texts,   \* what files have in them at the start
    Starts,  \* what the names may link to at the start, as functions to 1 .. Files or None
    Proc,    \* processes: editors and command lines
    Files,   \* files that exist at a time, at most (bound)
    Runs,    \* commands that begin, at most (bound)
    Faults,  \* "io": any step may fail; "crash": a process may die at any point
    Torn,    \* a text written by two processes, or taken from a file that changed
    None

ASSUME WholeFileAssumption ==
    /\ Files \in Nat \ {0} /\ Runs \in Nat
    /\ Starts # {} /\ \A l \in Starts : l \in [Name -> 1 .. Files \cup {None}]
    /\ Faults \subseteq {"io", "crash"}
    /\ None \notin 1 .. Files /\ {Torn, None} \cap Texts = {} /\ Proc \cap (Texts \cup {Torn}) = {}

VARIABLES
    link,   \* the file that a name stands for, or None
    data,   \* the content of each file
    run,    \* per process the command under way, or None
    begun   \* the commands so far

vars == <<link, data, run, begun>>

Plain(text) == [text |-> text, layers |-> 0]
Nothing == Plain(None)  \* no such file

\* A name to a reader of the directory.
ContentIn(l, d, n) == IF l[n] = None THEN Nothing ELSE d[l[n]]
Content(n) == ContentIn(link, data, n)

Init ==
    /\ link \in Starts
    /\ data \in [1 .. Files -> {[text |-> t, layers |-> k] : t \in Texts, k \in {0, 1}} \cup {Nothing}]
    /\ \A f \in 1 .. Files : data[f] = Nothing <=> \A n \in Name : link[n] # f
    /\ run = [p \in Proc |-> None]
    /\ begun = 0

-----------------------------------------------------------------------------
(* Commands                                                                *)

Gui == {"PackDeflate", "UnpackDeflate"}
Cli == {"deflatePack", "deflateUnpack"}
\* zlib compress, aes encrypt, rsa encrypt and sign; zlib decompress, aes and rsa decrypt;
\* list get and ExportBlob
Buffer == {"encode", "decode", "copy"}

Adds == {"PackDeflate", "deflatePack", "encode"}
Takes == {"UnpackDeflate", "deflateUnpack", "decode"}

Readable(cmd, c) == cmd \in Takes => c.layers > 0

Output(cmd, c) ==
    [c EXCEPT !.layers = CASE cmd \in Adds -> @ + 1 [] cmd \in Takes -> @ - 1 [] OTHER -> @]

\* The halves of a key pair; the pair has the number of the run.
Key(pair, half) == Plain([pair |-> pair, half |-> half])

SameFile(in, out) == link[in] # None /\ link[in] = link[out]

\* Mutant: only the names are compared.
Refused_NamesOnly(cmd, in, out) == cmd \in Gui \cup Cli /\ in = out

\* The editor compares the paths, the command line the files as well.
Refused(cmd, in, out) ==
    \/ cmd \in Gui \cup Cli /\ in = out
    \/ cmd \in Cli /\ SameFile(in, out)

\* The steps up to the output. Editor: stat, open. Command line: open, stat. A buffer
\* command has no stat, rsa generate no input.
Steps(cmd) ==
    CASE cmd \in Gui -> <<"check", "open", "create", "write", "sync", "close", "inspect">>
      [] cmd \in Cli -> <<"open", "check", "create", "write", "sync">>
      [] cmd \in Buffer -> <<"open", "create", "write">>
      [] cmd = "rsaGenerate" -> <<"create", "write", "create", "write">>

At(p, step) == run[p] # None /\ run[p].status = "running" /\ run[p].steps[1] = step

-----------------------------------------------------------------------------
(* Steps                                                                   *)

\* The step of p leaves links l, files d and the command in state r. Another command
\* sees it ("touched") when one of its own names changes.
Step(p, r, l, d) ==
    /\ link' = l
    /\ data' = [f \in 1 .. Files |->
           IF \/ \E n \in Name : l[n] = f
              \/ \E q \in Proc : run[q] # None /\ f \in {run[q].source, run[q].target}
              \/ r # None /\ f \in {r.source, r.target}
           THEN d[f] ELSE Nothing]
    /\ run' = [q \in Proc |->
           IF q = p THEN r
           ELSE IF run[q] # None /\ \E n \in run[q].names :
                       <<l[n], ContentIn(l, d, n)>> # <<link[n], Content(n)>>
           THEN [run[q] EXCEPT !.touched = TRUE] ELSE run[q]]
    /\ UNCHANGED begun

Ends(p, status) == [run[p] EXCEPT !.status = status]

\* The command after its step; after the last one it reports success.
Advance(p) ==
    IF Len(run[p].steps) = 1 THEN Ends(p, "ok") ELSE [run[p] EXCEPT !.steps = Tail(@)]

\* A command begins. names, first, before, same and touched are history: the names it
\* deals with, the contents of its input and outputs, whether these are one file, and
\* whether another process changed one of them since.
Begin(p, cmd, in, outs, force) ==
    /\ run[p] = None /\ begun < Runs
    /\ cmd # "rsaGenerate" => ~Refused(cmd, in, outs[1])
    /\ begun' = begun + 1
    /\ run' = [run EXCEPT ![p] =
           [cmd |-> cmd, in |-> in, outs |-> outs, force |-> force, pair |-> begun',
            steps |-> Steps(cmd), status |-> "running",
            source |-> None, read |-> Nothing, target |-> None, created |-> FALSE,
            names |-> {in, outs[1], outs[Len(outs)]}, first |-> Content(in),
            before |-> Content(outs[1]), same |-> SameFile(in, outs[1]), touched |-> FALSE]]
    /\ UNCHANGED <<link, data>>

\* Without overwrite or -force the output must not be there.
Check(p) ==
    /\ At(p, "check")
    /\ Step(p, IF run[p].force \/ link[run[p].outs[1]] = None THEN Advance(p) ELSE Ends(p, "error"),
            link, data)

\* A stream stays with the file, and with the size it has now; a buffer is read at once.
Open(p) ==
    LET c == Content(run[p].in) IN
    /\ At(p, "open")
    /\ Step(p, IF c = Nothing \/ ~Readable(run[p].cmd, c) THEN Ends(p, "error")
               ELSE [Advance(p) EXCEPT !.source = link[run[p].in], !.read = c],
            link, data)

Unused == {f \in 1 .. Files :
    /\ \A n \in Name : link[n] # f
    /\ \A q \in Proc : run[q] # None => f \notin {run[q].source, run[q].target}}

\* Create and truncate: what the file had in it is gone.
Create(p) ==
    LET n == Head(run[p].outs)
        f == IF link[n] = None THEN CHOOSE g \in Unused : TRUE ELSE link[n] IN
    /\ At(p, "create")
    /\ link[n] = None => Unused # {}  \* bound
    /\ Step(p, [Advance(p) EXCEPT !.target = f, !.created = TRUE],
            [link EXCEPT ![n] = f], [data EXCEPT ![f] = Plain(p)])

\* What is written in the end: torn, if another process wrote to the file meanwhile.
Wrote(p, c) == [data EXCEPT ![run[p].target] = IF @ = Plain(p) THEN c ELSE Plain(Torn)]

\* The output that is written is done with.
Written(p) ==
    IF run[p].cmd = "rsaGenerate" THEN [Advance(p) EXCEPT !.outs = Tail(@) \o <<Head(@)>>]
    ELSE Advance(p)

Half(p) == IF Len(run[p].steps) > 2 THEN "public" ELSE "private"

\* The input must be what it was when it was opened, as a stream knows the size from
\* then; else a read may fail or not.
Write(p) ==
    LET r == run[p] IN
    /\ At(p, "write")
    /\ \/ /\ r.cmd \in Buffer \/ (r.cmd \in Gui \cup Cli /\ data[r.source] = r.read)
          /\ Step(p, Written(p), link, Wrote(p, Output(r.cmd, r.read)))
       \/ r.cmd = "rsaGenerate" /\ Step(p, Written(p), link, Wrote(p, Key(r.pair, Half(p))))
       \/ /\ r.cmd \in Gui \cup Cli /\ data[r.source] # r.read
          /\ Step(p, Written(p), link, Wrote(p, [text |-> Torn, layers |-> 1]))

\* The output is not touched by the steps behind it.
Settle(p) == (At(p, "sync") \/ At(p, "close")) /\ Step(p, Advance(p), link, data)

\* inspectDeflateFile reads the header of the packed file again.
Inspect(p) ==
    LET r == run[p]
        c == Content(IF r.cmd = "PackDeflate" THEN r.outs[1] ELSE r.in) IN
    /\ At(p, "inspect")
    /\ Step(p, Ends(p, IF c = Nothing \/ c.layers = 0 THEN "error" ELSE "ok"), link, data)

\* Mutant: nothing is removed when Deflate or CopyAt fails.
Removes_Unsynced(p) == run[p].cmd \in Gui /\ run[p].steps[1] \in {"sync", "close"}

\* After an error in these steps the editor removes the output; it does not look whether
\* that worked.
Removes(p) == run[p].cmd \in Gui /\ run[p].steps[1] \in {"write", "sync", "close"}

\* Mutant: the second WriteFile of rsa generate, its error not looked at.
Fails_LastIgnored(p) ==
    LET r == run[p] IN
    /\ r # None /\ r.status = "running" /\ "io" \in Faults
    /\ Step(p, Ends(p, IF r.cmd = "rsaGenerate" /\ Len(r.steps) = 1 THEN "ok" ELSE "error"),
            IF Removes(p) THEN [link EXCEPT ![r.outs[1]] = None] ELSE link, data)

\* A step that fails; then the removal may fail as well ("left"). A creation may fail
\* after the file was truncated.
Fails(p) ==
    LET r == run[p]
        ioError == "io" \in Faults
        readError == At(p, "write") /\ r.source # None /\ data[r.source] # r.read IN
    /\ r # None /\ r.status = "running" /\ (ioError \/ readError)
    /\ \/ Step(p, Ends(p, "error"),
               IF Removes(p) THEN [link EXCEPT ![r.outs[1]] = None] ELSE link, data)
       \/ ioError /\ Removes(p) /\ Step(p, Ends(p, "left"), link, data)
       \/ /\ At(p, "create") /\ link[Head(r.outs)] # None
          /\ Step(p, [Ends(p, "error") EXCEPT !.created = TRUE],
                  link, [data EXCEPT ![link[Head(r.outs)]] = Plain(p)])

\* The command has reported, or its process died.
Finish(p) ==
    /\ run[p] # None
    /\ run[p].status # "running" \/ "crash" \in Faults
    /\ Step(p, None, link, data)

Next ==
    \E p \in Proc :
        \/ \E cmd \in Gui \cup Cli, in, out \in Name, force \in BOOLEAN :
               Begin(p, cmd, in, <<out>>, force)
        \/ \E cmd \in Buffer, in, out \in Name : Begin(p, cmd, in, <<out>>, TRUE)
        \/ \E public, private \in Name :
               Begin(p, "rsaGenerate", public, <<public, private>>, TRUE)
        \/ Check(p) \/ Open(p) \/ Create(p) \/ Write(p) \/ Settle(p) \/ Inspect(p)
        \/ Fails(p) \/ Finish(p)

Spec == Init /\ [][Next]_vars

-----------------------------------------------------------------------------
(* Properties                                                              *)

Commands == Gui \cup Cli \cup Buffer \cup {"rsaGenerate"}
Keys == [pair : Nat, half : {"public", "private"}]
Contents == [text : Texts \cup {Torn, None} \cup Proc \cup Keys, layers : Nat]
Places == 1 .. Files \cup {None}
Command ==
    [cmd : Commands, in : Name, outs : Seq(Name), force : BOOLEAN, pair : Nat,
     steps : Seq({"check", "open", "create", "write", "sync", "close", "inspect"}),
     status : {"running", "ok", "error", "left"}, source : Places, read : Contents, target : Places,
     created : BOOLEAN, names : SUBSET Name, first : Contents, before : Contents,
     same : BOOLEAN, touched : BOOLEAN]

TypeOK ==
    /\ link \in [Name -> Places]
    /\ data \in [1 .. Files -> Contents]
    /\ run \in [Proc -> Command \cup {None}]
    /\ begun \in 0 .. Runs

\* A command that no other one interfered with, and that did not get two links to one
\* file past its test.
Fair(p) == run[p] # None /\ ~run[p].touched /\ ~(run[p].cmd \in Gui /\ run[p].same)

\* At every point of a command its input is as it was, except that a buffer command may
\* be asked to write over it; and without overwrite or -force so is a file that had the
\* name of the output.
InputKept ==
    \A p \in Proc : Fair(p) =>
        LET r == run[p] IN
        /\ r.cmd \in Gui \cup Cli \/ (r.cmd \in Buffer /\ ~r.same /\ r.in # r.outs[1]) =>
               Content(r.in) = r.first
        /\ ~r.force /\ r.before # Nothing => Content(r.outs[1]) = r.before

\* A command that reports success has made the whole output from the input it was given;
\* rsa generate both halves of one pair, unless both go to one file.
ExitTellsTruth ==
    \A p \in Proc : Fair(p) /\ run[p].status = "ok" =>
        LET r == run[p] IN
        IF r.cmd # "rsaGenerate" THEN Content(r.outs[1]) = Output(r.cmd, r.first)
        ELSE LET public == r.outs[1]
                 private == r.outs[2] IN
             /\ Content(private) = Key(r.pair, "private")
             /\ link[public] # link[private] => Content(public) = Key(r.pair, "public")

\* After an error of the editor's pack or unpack the output is as it was, gone, or whole;
\* never a file cut short, unless the creation itself failed, or the removal after
\* another error did ("left").
NoPartialLeft ==
    \A p \in Proc : Fair(p) /\ run[p].status = "error" /\ run[p].cmd \in Gui =>
        \/ Content(run[p].outs[1]) \in {run[p].before, Nothing, Output(run[p].cmd, run[p].first)}
        \/ run[p].steps[1] = "create"
=============================================================================
