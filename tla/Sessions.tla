------------------------------ MODULE Sessions ------------------------------
(***************************************************************************)
(* The sessions of the desktop editor (gui/app.go, list_service.go,        *)
(* table_service.go): calls of the frontend run concurrently, each in a    *)
(* goroutine, over the maps App.tables and App.lists, guarded by App.mu,   *)
(* and over sessions guarded by a mutex each.                              *)
(*                                                                         *)
(* All calls here are for one path: calls for different paths share only   *)
(* App.mu. A session on a list keeps the count it read when it was opened, *)
(* so two open sessions on one file know nothing of each other's blobs. A  *)
(* blob is a number, the order in which they were offered; a file is an    *)
(* inode, because rewrite puts another one at the path. What a table       *)
(* session does to its cells is not modelled here.                         *)
(***************************************************************************)
EXTENDS Integers, Sequences, SequencesExt, FiniteSets

CONSTANTS
    Proc,         \* goroutines, one call at a time each
    Controllers,  \* those that also open, create and close; all of them use sessions
    Modes,        \* how files are opened: "rw" is read/write with the capacity found
                  \* in the file; "alt" is read-only for a table and a capacity named
                  \* by the user for a list; "deflate" is through the decompressor
    MaxSessions,  \* sessions that are referenced or open at one time
    MaxFiles,     \* inodes in use at one time
    MaxAdds,      \* blobs offered
    None          \* no session, no holder

ASSUME SessionsAssumption ==
    /\ Controllers \subseteq Proc
    /\ {"rw"} \subseteq Modes /\ Modes \subseteq {"rw", "alt", "deflate"}
    /\ MaxSessions \in Nat \ {0} /\ MaxFiles \in Nat \ {0} /\ MaxAdds \in Nat
    /\ None \notin Proc \cup Nat

Session == 1 .. MaxSessions
Inode == 1 .. MaxFiles
Kind == {"tables", "lists"}

VARIABLES
    call,      \* the call each goroutine runs: where it is, what it is for
    amu,       \* holder of App.mu across steps
    mu,        \* holder of each session's mutex across steps
    registry,  \* App.tables[path] and App.lists[path]
    session,   \* the sessions: stream, mode, count known, file
    file,      \* blobs of each inode
    path,      \* the inode at the path
    acked,     \* blobs whose AddBlob returned, not deleted or created over since
    added      \* blobs offered so far

vars == <<call, amu, mu, registry, session, file, path, acked, added>>
disk == <<file, path, acked, added>>

Owning == {"open", "create", "close", "closeAll"}
Using == {"add", "delete", "read"}
Places == {"idle", "begin", "closeOld", "evict", "make", "register", "info",
           "closeEach", "lock", "work"}

Idle == [at |-> "idle", name |-> "none", kind |-> "lists", mode |-> "rw", hand |-> {}]
Closed == [open |-> FALSE, kind |-> "lists", mode |-> "rw", size |-> 0, file |-> 1]

TypeOK ==
    /\ call \in [Proc -> [at : Places, name : Owning \cup Using \cup {"none"},
                          kind : Kind, mode : Modes, hand : SUBSET Session]]
    /\ amu \in Proc \cup {None}
    /\ mu \in [Session -> Proc \cup {None}]
    /\ registry \in [Kind -> Session \cup {None}]
    /\ session \in [Session -> [open : BOOLEAN, kind : Kind, mode : Modes,
                                size : 0 .. MaxAdds, file : Inode]]
    /\ file \in [Inode -> Seq(0 .. MaxAdds)]
    /\ path \in Inode
    /\ acked \subseteq 1 .. added
    /\ added \in 0 .. MaxAdds

Init ==
    /\ call = [p \in Proc |-> Idle]
    /\ amu = None
    /\ mu = [s \in Session |-> None]
    /\ registry = [k \in Kind |-> None]
    /\ session = [s \in Session |-> Closed]
    /\ file = [i \in Inode |-> << >>]
    /\ path = 1
    /\ acked = {}
    /\ added = 0

At(p, place) == call[p].at = place
Goto(p, place) == call' = [call EXCEPT ![p].at = place]
GotoWith(p, place, hand) == call' = [call EXCEPT ![p].at = place, ![p].hand = hand]
Return(p) == call' = [call EXCEPT ![p] = Idle]
Registered == {registry[k] : k \in Kind} \ {None}

Begin(p) ==
    /\ At(p, "idle")
    /\ \E name \in Using \cup (IF p \in Controllers THEN Owning ELSE {}),
          kind \in Kind, mode \in Modes :
           /\ name \in {"add", "delete", "closeAll"} => kind = "lists"
           /\ name # "open" => mode = "rw"
           /\ call' = [call EXCEPT ![p] = [Idle EXCEPT !.at = "begin",
                                           !.name = name, !.kind = kind, !.mode = mode]]
    /\ UNCHANGED <<amu, mu, registry, session, disk>>

Is(p, name) == At(p, "begin") /\ call[p].name = name /\ amu = None

-----------------------------------------------------------------------------
(* Open: openTable, OpenCompressedTable, OpenList, OpenCompressedList      *)

\* Whether a session found in the map serves a request for a mode.
Reusable(s, mode) ==
    IF mode = "deflate"
    THEN session[s].mode = "deflate"
    ELSE session[s].mode # "deflate" /\ (mode = "rw" \/ session[s].mode = mode)

\* Mutant: a session that is not what was asked for is forgotten, not closed.
OpenLookUp_Forgets(p) ==
    LET k == call[p].kind
        s == registry[k]
        found == s # None /\ Reusable(s, call[p].mode) IN
    /\ Is(p, "open")
    /\ IF found THEN GotoWith(p, "info", {s}) ELSE Goto(p, "make")
    /\ registry' = IF found THEN registry ELSE [registry EXCEPT ![k] = None]
    /\ UNCHANGED <<amu, mu, session, disk>>

\* The look-up under App.mu.
OpenLookUp(p) ==
    LET k == call[p].kind
        s == registry[k] IN
    /\ Is(p, "open")
    /\ \/ /\ s # None /\ Reusable(s, call[p].mode)
          /\ GotoWith(p, "info", {s})
          /\ UNCHANGED registry
       \/ /\ s # None /\ ~Reusable(s, call[p].mode)
          /\ registry' = [registry EXCEPT ![k] = None]
          /\ GotoWith(p, "closeOld", {s})
       \/ /\ s = None
          /\ Goto(p, "make")
          /\ UNCHANGED registry
    /\ UNCHANGED <<amu, mu, session, disk>>

\* close() of session s under its mutex.
Close(s) ==
    /\ mu[s] = None
    /\ session' = [session EXCEPT ![s] = Closed]

CloseOld(p) ==
    /\ At(p, "closeOld")
    /\ \E s \in call[p].hand : Close(s)
    /\ GotoWith(p, "make", {})
    /\ UNCHANGED <<amu, mu, registry, disk>>

-----------------------------------------------------------------------------
(* Create: CreateTable, CreateList                                         *)

\* App.mu is kept while the sessions on the path are closed.
CreateLock(p) ==
    /\ Is(p, "create")
    /\ amu' = p
    /\ registry' = [k \in Kind |-> None]
    /\ GotoWith(p, "evict", Registered)
    /\ UNCHANGED <<mu, session, disk>>

\* One session after the other; the order of the two maps makes no difference.
Evict(p) ==
    /\ At(p, "evict")
    /\ \/ \E s \in call[p].hand :
             /\ Close(s)
             /\ GotoWith(p, "evict", call[p].hand \ {s})
             /\ UNCHANGED amu
       \/ /\ call[p].hand = {}
          /\ amu' = None
          /\ Goto(p, "make")
          /\ UNCHANGED session
    /\ UNCHANGED <<mu, registry, disk>>

-----------------------------------------------------------------------------
(* The file of a new session, and its entry in the map                     *)

Unused(s) ==
    /\ ~session[s].open /\ s \notin Registered
    /\ \A p \in Proc : s \notin call[p].hand

\* A new session: memory of one nobody refers to is reused.
NewSession(s) == Unused(s) /\ \A t \in Session : Unused(t) => s <= t

\* List session s has inode i open.
Uses(s, i) == session[s].open /\ session[s].kind = "lists" /\ session[s].file = i

\* What a create that fails may have done to the file that was there: truncated it, and
\* CreateList removes it then, so that the next file at the path is another one.
Spoils(p) ==
    /\ call[p].name = "create"
    /\ acked' = {}
    /\ \/ file' = [file EXCEPT ![path] = << >>] /\ UNCHANGED path
       \/ \E fresh \in Inode :
             /\ call[p].kind = "lists"
             /\ \A j \in Inode : j < fresh => \E s \in Session : Uses(s, j)
             /\ \A s \in Session : ~Uses(s, fresh)
             /\ path' = fresh
             /\ file' = [j \in Inode |-> IF j # path /\ \E s \in Session : Uses(s, j)
                                         THEN file[j] ELSE << >>]

\* create truncates the file that is there; open reads its count. Either can fail,
\* and then the path is left without a session.
Make(p) ==
    LET create == call[p].name = "create" IN
    /\ At(p, "make")
    /\ \/ \E s \in Session :
             /\ NewSession(s)
             /\ file' = IF create THEN [file EXCEPT ![path] = << >>] ELSE file
             /\ acked' = IF create THEN {} ELSE acked
             /\ session' = [session EXCEPT ![s] = IF call[p].kind = "lists"
                    THEN [open |-> TRUE, kind |-> "lists", mode |-> call[p].mode,
                          size |-> Len(file'[path]), file |-> path]
                    ELSE [Closed EXCEPT !.open = TRUE, !.kind = "tables",
                                        !.mode = call[p].mode]]
             /\ GotoWith(p, "register", {s})
             /\ UNCHANGED path
       \/ Return(p) /\ UNCHANGED <<session, file, path, acked>>
       \/ Return(p) /\ Spoils(p) /\ UNCHANGED session
    /\ UNCHANGED <<amu, mu, registry, added>>

\* Nothing is asked of a session that may have come into the map meanwhile.
Register(p) ==
    /\ At(p, "register") /\ amu = None
    /\ \E s \in call[p].hand : registry' = [registry EXCEPT ![call[p].kind] = s]
    /\ Goto(p, "info")
    /\ UNCHANGED <<amu, mu, session, disk>>

\* info() waits for the session's mutex.
Info(p) ==
    /\ At(p, "info")
    /\ \A s \in call[p].hand : mu[s] = None
    /\ Return(p)
    /\ UNCHANGED <<amu, mu, registry, session, disk>>

-----------------------------------------------------------------------------
(* CloseTable, CloseList, CloseAll                                         *)

CloseTake(p) ==
    LET k == call[p].kind IN
    /\ Is(p, "close")
    /\ registry' = [registry EXCEPT ![k] = None]
    /\ GotoWith(p, "closeEach", {registry[k]} \ {None})
    /\ UNCHANGED <<amu, mu, session, disk>>

CloseAllTake(p) ==
    /\ Is(p, "closeAll")
    /\ registry' = [k \in Kind |-> None]
    /\ GotoWith(p, "closeEach", Registered)
    /\ UNCHANGED <<amu, mu, session, disk>>

\* Mutant: the session's mutex is not taken.
CloseEach_NoLock(p) ==
    /\ At(p, "closeEach")
    /\ \/ \E s \in call[p].hand :
             /\ session' = [session EXCEPT ![s] = Closed]
             /\ GotoWith(p, "closeEach", call[p].hand \ {s})
       \/ call[p].hand = {} /\ Return(p) /\ UNCHANGED session
    /\ UNCHANGED <<amu, mu, registry, disk>>

CloseEach(p) ==
    /\ At(p, "closeEach")
    /\ \/ \E s \in call[p].hand :
             /\ Close(s)
             /\ GotoWith(p, "closeEach", call[p].hand \ {s})
       \/ call[p].hand = {} /\ Return(p) /\ UNCHANGED session
    /\ UNCHANGED <<amu, mu, registry, disk>>

-----------------------------------------------------------------------------
(* Calls on an open session                                                *)

\* getTable, getList; without a session the call returns an error.
LookUp(p) ==
    LET s == registry[call[p].kind] IN
    /\ At(p, "begin") /\ call[p].name \in Using /\ amu = None
    /\ IF s = None THEN Return(p) ELSE GotoWith(p, "lock", {s})
    /\ UNCHANGED <<amu, mu, registry, session, disk>>

Lock(p) ==
    /\ At(p, "lock")
    /\ \E s \in call[p].hand : mu[s] = None /\ mu' = [mu EXCEPT ![s] = p]
    /\ Goto(p, "work")
    /\ UNCHANGED <<amu, registry, session, disk>>

\* The blobs as session s sees them; 0 for a slot behind the end of a file that
\* was truncated under it.
Seen(s) ==
    LET f == file[session[s].file] IN
    [i \in 1 .. session[s].size |-> IF i <= Len(f) THEN f[i] ELSE 0]

\* AddReader through session s: the slot and the count it writes follow from the
\* count it knows.
Add(s) ==
    /\ added < MaxAdds
    /\ added' = added + 1
    /\ file' = [file EXCEPT ![session[s].file] = Append(Seen(s), added')]
    /\ session' = [session EXCEPT ![s].size = @ + 1]
    /\ acked' = acked \cup {added'}
    /\ UNCHANGED path

InUse(i) == i = path \/ \E s \in Session : Uses(s, i)

Legible(s) == \A i \in 1 .. session[s].size : Seen(s)[i] # 0

\* Mutant: the session goes on with the file it had.
Delete_KeepsInode(s) ==
    \E i \in 1 .. session[s].size, fresh \in Inode :
        /\ ~InUse(fresh) /\ \A j \in Inode : j < fresh => InUse(j)
        /\ Legible(s)
        /\ file' = [file EXCEPT ![fresh] = RemoveAt(Seen(s), i)]
        /\ path' = fresh
        /\ session' = [session EXCEPT ![s].size = @ - 1]
        /\ acked' = acked \ {Seen(s)[i]}
        /\ UNCHANGED added

\* rewrite through session s: a new inode with the blobs but one takes the path.
Delete(s) ==
    \E i \in 1 .. session[s].size, fresh \in Inode :
        /\ ~InUse(fresh) /\ \A j \in Inode : j < fresh => InUse(j)
        /\ Legible(s)
        /\ file' = [j \in Inode |->
                      CASE j = fresh -> RemoveAt(Seen(s), i)
                        [] j # fresh /\ (\E t \in Session \ {s} : Uses(t, j)) -> file[j]
                        [] OTHER -> << >>]
        /\ path' = fresh
        /\ session' = [session EXCEPT ![s].size = @ - 1, ![s].file = fresh]
        /\ acked' = acked \ {Seen(s)[i]}
        /\ UNCHANGED added

\* A call that ends without an effect on the blobs: an error, or a reading call.
Refused(s, name) ==
    /\ \/ ~session[s].open
       \/ name # "read" /\ session[s].mode = "deflate"
       \/ name = "delete" /\ (session[s].size = 0 \/ ~Legible(s))
       \/ name = "add" /\ added = MaxAdds
       \/ name = "read"
    /\ UNCHANGED <<session, disk>>

\* Mutant: the map is consulted again before the session is let go.
Work_LocksApp(p) ==
    /\ At(p, "work") /\ amu = None
    /\ \E s \in call[p].hand :
           /\ \/ Refused(s, call[p].name)
              \/ /\ session[s].open /\ session[s].mode # "deflate"
                 /\ \/ call[p].name = "add" /\ Add(s)
                    \/ call[p].name = "delete" /\ Delete(s)
           /\ mu' = [mu EXCEPT ![s] = None]
    /\ Return(p)
    /\ UNCHANGED <<amu, registry>>

\* The call does its work and releases the mutex. Reading, and all that is done to
\* a table, leaves the blobs alone.
Work(p) ==
    /\ At(p, "work")
    /\ \E s \in call[p].hand :
           /\ \/ Refused(s, call[p].name)
              \/ /\ session[s].open /\ session[s].mode # "deflate"
                 /\ \/ call[p].name = "add" /\ Add(s)
                    \/ call[p].name = "delete" /\ Delete(s)
           /\ mu' = [mu EXCEPT ![s] = None]
    /\ Return(p)
    /\ UNCHANGED <<amu, registry>>

-----------------------------------------------------------------------------
Step(p) ==
    \/ OpenLookUp(p) \/ CloseOld(p)
    \/ CreateLock(p) \/ Evict(p)
    \/ Make(p) \/ Register(p) \/ Info(p)
    \/ CloseTake(p) \/ CloseAllTake(p) \/ CloseEach(p)
    \/ LookUp(p) \/ Lock(p) \/ Work(p)

Next == \E p \in Proc : Begin(p) \/ Step(p)

\* A goroutine that can go on does; one that waits for a mutex gets it, because a
\* sync.Mutex hands itself to a waiter it has starved for a millisecond.
Fairness == \A p \in Proc : SF_vars(Step(p))

Spec == Init /\ [][Next]_vars /\ Fairness

-----------------------------------------------------------------------------
(* Properties                                                              *)

Quiet == \A p \in Proc : At(p, "idle")

\* When no call is running, a session with an open file is in a map, so that
\* CloseAll, which closes every open table and list, finds it.
NoLeak == Quiet => \A s \in Session : session[s].open => s \in Registered

\* A blob whose AddBlob returned is in the file at the path until it is deleted or
\* a create over the list truncates it, also one that then fails: no call of another
\* session writes over it, and it did not go into a file that another call has replaced.
AckedKept == \A b \in acked : \E i \in DOMAIN file[path] : file[path][i] = b

\* The file of a session is not closed while a call works on it.
NotClosedUnderCall ==
    [][\A s \in Session :
           mu[s] # None /\ session[s].open => session'[s].open]_vars

\* Every call returns: the two levels of mutexes do not deadlock.
CallsReturn == \A p \in Proc : ~At(p, "idle") ~> At(p, "idle")

=============================================================================
