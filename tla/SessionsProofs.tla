--------------------------- MODULE SessionsProofs ---------------------------
(***************************************************************************)
(* Theorems about the sessions of the editor, for every set of goroutines, *)
(* every choice of modes and every bound on sessions, files and blobs.     *)
(***************************************************************************)
EXTENDS Sessions, SequenceTheorems, TLAPS

\* A function on 1 .. n is a sequence of length n.
LEMMA FunctionIsSequence ==
  ASSUME NEW S, NEW n \in Nat, NEW s \in [1 .. n -> S]
  PROVE  s \in Seq(S) /\ Len(s) = n
  OBVIOUS

\* Removing an element closes the gap.
LEMMA RemoveOne ==
  ASSUME NEW S, NEW s \in Seq(S), NEW i \in 1 .. Len(s)
  PROVE  /\ RemoveAt(s, i) \in Seq(S)
         /\ Len(RemoveAt(s, i)) = Len(s) - 1
         /\ \A j \in 1 .. Len(s) - 1 : RemoveAt(s, i)[j] = s[IF j < i THEN j ELSE j + 1]
<1> DEFINE p == SubSeq(s, 1, i - 1)
           q == SubSeq(s, i + 1, Len(s))
<1>1. p \in Seq(S) /\ Len(p) = i - 1 /\ \A j \in 1 .. i - 1 : p[j] = s[j]
  OBVIOUS
<1>2. q \in Seq(S) /\ Len(q) = Len(s) - i /\ \A j \in 1 .. Len(s) - i : q[j] = s[i + j]
  OBVIOUS
<1>3. RemoveAt(s, i) = p \o q
  BY DEF RemoveAt
<1> HIDE DEF p, q
<1>4. /\ p \o q \in Seq(S) /\ Len(p \o q) = Len(p) + Len(q)
      /\ \A j \in 1 .. Len(p) + Len(q) :
            (p \o q)[j] = IF j <= Len(p) THEN p[j] ELSE q[j - Len(p)]
  BY <1>1, <1>2, ConcatProperties
<1>5. i \in Nat /\ Len(s) \in Nat /\ i <= Len(s)
  OBVIOUS
<1>6. ASSUME NEW j \in 1 .. Len(s) - 1
      PROVE  (p \o q)[j] = s[IF j < i THEN j ELSE j + 1]
  <2>1. CASE j < i
    BY <1>1, <1>2, <1>4, <1>5, <2>1
  <2>2. CASE ~(j < i)
    <3>1. j - (i - 1) \in 1 .. Len(s) - i /\ i + (j - (i - 1)) = j + 1
      BY <1>5, <2>2
    <3>2. (p \o q)[j] = q[j - (i - 1)]
      BY <1>1, <1>2, <1>4, <1>5, <2>2
    <3>3. q[j - (i - 1)] = s[j + 1]
      BY <1>2, <3>1
    <3> QED
      BY <2>2, <3>2, <3>3
  <2> QED
    BY <2>1, <2>2
<1> QED
  BY <1>1, <1>2, <1>3, <1>4, <1>5, <1>6

\* What is at another place than the one removed is still there.
LEMMA RemoveKeepsOthers ==
  ASSUME NEW S, NEW s \in Seq(S), NEW i \in 1 .. Len(s), NEW k \in 1 .. Len(s), k # i
  PROVE  \E j \in 1 .. Len(s) - 1 : RemoveAt(s, i)[j] = s[k]
<1>1. Len(s) \in Nat /\ i \in 1 .. Len(s) /\ k \in 1 .. Len(s)
  OBVIOUS
<1>2. CASE k < i
  <2>1. k \in 1 .. Len(s) - 1
    BY <1>1, <1>2
  <2> QED
    BY <1>2, <2>1, RemoveOne
<1>3. CASE ~(k < i)
  <2>1. k - 1 \in 1 .. Len(s) - 1 /\ ~(k - 1 < i) /\ (k - 1) + 1 = k
    BY <1>1, <1>3
  <2>2. RemoveAt(s, i)[k - 1] = s[k]
    BY <2>1, RemoveOne
  <2> QED
    BY <2>1, <2>2
<1> QED
  BY <1>2, <1>3

-----------------------------------------------------------------------------
(* The invariant of any number of controllers                              *)

CallState == [at : Places, name : Owning \cup Using \cup {"none"},
              kind : Kind, mode : Modes, hand : SUBSET Session]

SessionState == [open : BOOLEAN, kind : Kind, mode : Modes,
                 size : 0 .. MaxAdds, file : Inode]

OwnerPlaces == {"closeOld", "evict", "make", "register", "info", "closeEach"}

\* A call that opens or closes belongs to a controller, and a call holds no session
\* but the one or the ones its place is about.
GoodCall(p, c) ==
    /\ c.name \in Owning => p \in Controllers
    /\ c.at \in OwnerPlaces => c.name \in Owning
    /\ c.name \in {"add", "delete"} => c.kind = "lists"
    /\ c.at \in {"idle", "begin", "make"} => c.hand = {}
    /\ c.at \in {"closeOld", "register", "info", "lock", "work"} =>
         \E s \in Session : c.hand = {s}

Calls == \A p \in Proc : GoodCall(p, call[p])

\* A mutex is held by the call that works on its session, and by no other.
Mutexes ==
    \A p \in Proc, s \in Session : mu[s] = p <=> At(p, "work") /\ s \in call[p].hand

\* No file and no session counts more blobs than were offered.
Lengths ==
    /\ \A i \in Inode : Len(file[i]) <= added
    /\ \A s \in Session : session[s].size <= added

IInv == TypeOK /\ Calls /\ Mutexes /\ Lengths

LEMMA Constants ==
  /\ None \notin Proc /\ None \notin Session /\ 1 \in Session /\ 1 \in Inode
  /\ MaxAdds \in Nat /\ "rw" \in Modes /\ Controllers \subseteq Proc
  BY SessionsAssumption DEF Session, Inode

LEMMA IdleCall == Idle \in CallState /\ \A p \in Proc : GoodCall(p, Idle)
  BY Constants DEF Idle, CallState, GoodCall, Places, Owning, Using, Kind, OwnerPlaces

LEMMA ClosedSession == Closed \in SessionState /\ Closed.open = FALSE /\ Closed.size = 0
  BY Constants DEF Closed, SessionState, Kind

LEMMA Types ==
  ASSUME TypeOK
  PROVE  /\ call \in [Proc -> CallState] /\ amu \in Proc \cup {None}
         /\ mu \in [Session -> Proc \cup {None}]
         /\ registry \in [Kind -> Session \cup {None}]
         /\ session \in [Session -> SessionState]
         /\ file \in [Inode -> Seq(0 .. MaxAdds)] /\ path \in Inode
         /\ acked \subseteq 1 .. added /\ added \in 0 .. MaxAdds
  BY DEF TypeOK, CallState, SessionState

\* The three ways a step leaves its call.
LEMMA GotoCall ==
  ASSUME TypeOK, NEW p \in Proc, NEW place \in Places, Goto(p, place)
  PROVE  \E c \in CallState :
           /\ call' = [call EXCEPT ![p] = c] /\ c.at = place
           /\ c.name = call[p].name /\ c.kind = call[p].kind /\ c.mode = call[p].mode
           /\ c.hand = call[p].hand
<1> DEFINE c == [call[p] EXCEPT !.at = place]
<1>1. call[p] \in CallState
  BY Types
<1>2. /\ c \in CallState /\ c.at = place
      /\ c.name = call[p].name /\ c.kind = call[p].kind /\ c.mode = call[p].mode
      /\ c.hand = call[p].hand
  BY <1>1 DEF CallState
<1>3. call' = [call EXCEPT ![p] = c]
  BY DEF Goto
<1> HIDE DEF c
<1> QED
  BY <1>2, <1>3

LEMMA GotoWithCall ==
  ASSUME TypeOK, NEW p \in Proc, NEW place \in Places, NEW hand \in SUBSET Session,
         GotoWith(p, place, hand)
  PROVE  \E c \in CallState :
           /\ call' = [call EXCEPT ![p] = c] /\ c.at = place
           /\ c.name = call[p].name /\ c.kind = call[p].kind /\ c.mode = call[p].mode
           /\ c.hand = hand
<1> DEFINE c == [call[p] EXCEPT !.at = place, !.hand = hand]
<1>1. call[p] \in CallState /\ call \in [Proc -> CallState]
  BY Types
<1>2. /\ c \in CallState /\ c.at = place
      /\ c.name = call[p].name /\ c.kind = call[p].kind /\ c.mode = call[p].mode
      /\ c.hand = hand
  BY <1>1 DEF CallState
<1>3. call' = [call EXCEPT ![p] = c]
  BY <1>1 DEF GotoWith
<1> HIDE DEF c
<1> QED
  BY <1>2, <1>3

LEMMA ReturnCall ==
  ASSUME TypeOK, NEW p \in Proc, Return(p)
  PROVE  Idle \in CallState /\ call' = [call EXCEPT ![p] = Idle]
  BY IdleCall DEF Return

\* A step outside the sessions' mutexes that leaves the files alone.
LEMMA ControlStep ==
  ASSUME IInv, NEW p \in Proc, NEW c \in CallState, GoodCall(p, c),
         call' = [call EXCEPT ![p] = c], c.at # "work", ~At(p, "work"),
         amu' \in Proc \cup {None}, registry' \in [Kind -> Session \cup {None}],
         UNCHANGED <<mu, disk>>,
         session' = session \/ \E s \in Session : session' = [session EXCEPT ![s] = Closed]
  PROVE  IInv'
<1> USE Types
<1>1. TypeOK /\ Calls /\ Mutexes /\ Lengths /\ UNCHANGED <<mu, file, path, acked, added>>
  BY DEF IInv, disk
<1>2. \A q \in Proc : call'[q] = IF q = p THEN c ELSE call[q]
  BY <1>1
<1>3. /\ session' \in [Session -> SessionState]
      /\ \A s \in Session : session'[s].size <= added
  <2>1. \A s \in Session : session[s].size <= added /\ added \in Nat
    BY <1>1, Constants DEF Lengths
  <2>2. CASE session' = session
    BY <1>1, <2>1, <2>2
  <2>3. ASSUME NEW s \in Session, session' = [session EXCEPT ![s] = Closed]
        PROVE  /\ session' \in [Session -> SessionState]
               /\ \A t \in Session : session'[t].size <= added
    BY <1>1, <2>1, <2>3, ClosedSession
  <2> QED
    BY <2>2, <2>3
<1>4. TypeOK'
  <2>1. call' \in [Proc -> CallState]
    BY <1>1
  <2> QED
    BY <1>1, <1>3, <2>1 DEF TypeOK, CallState, SessionState
<1>5. Calls'
  BY <1>1, <1>2 DEF Calls
<1>6. Mutexes'
  BY <1>1, <1>2 DEF Mutexes, At
<1>7. Lengths'
  BY <1>1, <1>3 DEF Lengths
<1> QED
  BY <1>4, <1>5, <1>6, <1>7 DEF IInv

Control(p) ==
    \/ Begin(p) \/ OpenLookUp(p) \/ CloseOld(p) \/ CreateLock(p) \/ Evict(p)
    \/ Register(p) \/ Info(p) \/ CloseTake(p) \/ CloseAllTake(p) \/ CloseEach(p) \/ LookUp(p)

\* What each of these steps makes of its call.
LEMMA ControlCall ==
  ASSUME IInv, NEW p \in Proc, Control(p)
  PROVE  \E c \in CallState : /\ call' = [call EXCEPT ![p] = c]
                              /\ GoodCall(p, c) /\ c.at # "work" /\ ~At(p, "work")
<1> DEFINE Goal == \E c \in CallState : /\ call' = [call EXCEPT ![p] = c]
                                        /\ GoodCall(p, c) /\ c.at # "work" /\ ~At(p, "work")
<1>1. /\ TypeOK /\ call[p] \in CallState /\ GoodCall(p, call[p])
      /\ registry \in [Kind -> Session \cup {None}]
      /\ registry[call[p].kind] \in Session \cup {None}
      /\ Registered \in SUBSET Session
  <2>1. /\ TypeOK /\ call[p] \in CallState /\ GoodCall(p, call[p])
        /\ registry \in [Kind -> Session \cup {None}]
    BY Types DEF IInv, Calls
  <2>2. call[p].kind \in Kind
    BY <2>1 DEF CallState
  <2> QED
    BY <2>1, <2>2 DEF Registered
<1>2. ASSUME NEW place \in {"make", "info"}, Goto(p, place), ~At(p, "work"),
             call[p].name \in Owning,
             place = "make" => call[p].hand = {},
             place = "info" => \E s \in Session : call[p].hand = {s}
      PROVE  Goal
  <2>1. place \in Places
    BY DEF Places
  <2>2. PICK c \in CallState :
           /\ call' = [call EXCEPT ![p] = c] /\ c.at = place
           /\ c.name = call[p].name /\ c.kind = call[p].kind /\ c.hand = call[p].hand
    BY <1>1, <1>2, <2>1, GotoCall
  <2>3. GoodCall(p, c)
    BY <1>1, <1>2, <2>2 DEF GoodCall
  <2> QED
    BY <1>2, <2>2, <2>3
<1>3. ASSUME NEW place \in OwnerPlaces, NEW hand \in SUBSET Session,
             GotoWith(p, place, hand), ~At(p, "work"), call[p].name \in Owning,
             place = "make" => hand = {},
             place \in {"info", "closeOld"} => \E s \in Session : hand = {s},
             place # "register"
      PROVE  Goal
  <2>1. place \in Places /\ place \notin {"work", "idle", "begin", "lock"}
    BY DEF Places, OwnerPlaces
  <2>2. PICK c \in CallState :
           /\ call' = [call EXCEPT ![p] = c] /\ c.at = place
           /\ c.name = call[p].name /\ c.kind = call[p].kind /\ c.hand = hand
    BY <1>1, <1>3, <2>1, GotoWithCall
  <2>3. GoodCall(p, c)
    BY <1>1, <1>3, <2>1, <2>2 DEF GoodCall
  <2> QED
    BY <1>3, <2>1, <2>2, <2>3
<1>4. ASSUME Return(p), ~At(p, "work") PROVE Goal
  BY <1>1, <1>4, ReturnCall, IdleCall DEF Idle
<1> SUFFICES Goal
  OBVIOUS
<1> HIDE DEF Goal
<1>5. CASE Begin(p)
  <2>1. PICK name \in Using \cup (IF p \in Controllers THEN Owning ELSE {}),
             kind \in Kind, mode \in Modes :
           /\ name \in {"add", "delete", "closeAll"} => kind = "lists"
           /\ call' = [call EXCEPT ![p] = [Idle EXCEPT !.at = "begin",
                                           !.name = name, !.kind = kind, !.mode = mode]]
    BY <1>5 DEF Begin
  <2> DEFINE c == [Idle EXCEPT !.at = "begin", !.name = name, !.kind = kind, !.mode = mode]
  <2>2. c.at = "begin" /\ c.name = name /\ c.kind = kind /\ c.hand = {}
    BY DEF Idle
  <2>3. c \in CallState
    BY IdleCall DEF CallState, Places
  <2> HIDE DEF c
  <2>4. GoodCall(p, c)
    <3>1. name \in Owning => p \in Controllers
      BY DEF Owning, Using
    <3> QED
      BY <2>1, <2>2, <3>1 DEF GoodCall, OwnerPlaces
  <2>5. ~At(p, "work")
    BY <1>5 DEF Begin, At
  <2> QED
    BY <2>1, <2>2, <2>3, <2>4, <2>5 DEF Goal, c
<1>6. CASE OpenLookUp(p)
  <2>1. call[p].at = "begin" /\ call[p].name \in Owning /\ ~At(p, "work") /\ call[p].hand = {}
    BY <1>1, <1>6 DEF OpenLookUp, Is, At, GoodCall, Owning
  <2>2. ASSUME Goto(p, "make") PROVE Goal
    BY <1>2, <2>1, <2>2
  <2>3. ASSUME NEW s \in Session, NEW place \in {"info", "closeOld"}, GotoWith(p, place, {s})
        PROVE  Goal
    <3>1. place \in OwnerPlaces /\ {s} \in SUBSET Session /\ place # "make" /\ place # "register"
      BY DEF OwnerPlaces
    <3> QED
      BY <1>3, <2>1, <2>3, <3>1
  <2> QED
    BY <1>1, <1>6, <2>2, <2>3 DEF OpenLookUp
<1>7. CASE CloseOld(p)
  <2>1. /\ ~At(p, "work") /\ GotoWith(p, "make", {}) /\ call[p].name \in Owning
        /\ "make" \in OwnerPlaces /\ {} \in SUBSET Session
    BY <1>1, <1>7 DEF CloseOld, At, OwnerPlaces, GoodCall
  <2> QED
    BY <1>3, <2>1
<1>8. CASE CreateLock(p)
  <2>1. /\ call[p].name \in Owning /\ ~At(p, "work") /\ GotoWith(p, "evict", Registered)
        /\ "evict" \in OwnerPlaces
    BY <1>8 DEF CreateLock, Is, At, OwnerPlaces, Owning
  <2> QED
    BY <1>1, <1>3, <2>1
<1>9. CASE Evict(p)
  <2>1. ~At(p, "work") /\ call[p].name \in Owning /\ "evict" \in OwnerPlaces
    BY <1>1, <1>9 DEF Evict, At, GoodCall, OwnerPlaces
  <2>2. ASSUME NEW s \in call[p].hand, GotoWith(p, "evict", call[p].hand \ {s}) PROVE Goal
    <3>1. call[p].hand \ {s} \in SUBSET Session
      BY <1>1 DEF CallState
    <3> QED
      BY <1>3, <2>1, <2>2, <3>1
  <2>3. ASSUME call[p].hand = {}, Goto(p, "make") PROVE Goal
    BY <1>2, <2>1, <2>3
  <2> QED
    BY <1>9, <2>2, <2>3 DEF Evict
<1>10. CASE Register(p)
  <2>1. ~At(p, "work") /\ Goto(p, "info") /\ call[p].at = "register"
    BY <1>10 DEF Register, At
  <2>2. call[p].name \in Owning /\ \E s \in Session : call[p].hand = {s}
    BY <1>1, <2>1 DEF GoodCall, OwnerPlaces
  <2> QED
    BY <1>2, <2>1, <2>2
<1>11. CASE Info(p)
  BY <1>4, <1>11 DEF Info, At
<1>12. CASE CloseTake(p)
  <2>1. /\ call[p].name \in Owning /\ ~At(p, "work") /\ "closeEach" \in OwnerPlaces
        /\ GotoWith(p, "closeEach", {registry[call[p].kind]} \ {None})
    BY <1>12 DEF CloseTake, Is, At, OwnerPlaces, Owning
  <2>2. {registry[call[p].kind]} \ {None} \in SUBSET Session
    BY <1>1
  <2> QED
    BY <1>3, <2>1, <2>2
<1>13. CASE CloseAllTake(p)
  <2>1. /\ call[p].name \in Owning /\ ~At(p, "work") /\ "closeEach" \in OwnerPlaces
        /\ GotoWith(p, "closeEach", Registered)
    BY <1>13 DEF CloseAllTake, Is, At, OwnerPlaces, Owning
  <2> QED
    BY <1>1, <1>3, <2>1
<1>14. CASE CloseEach(p)
  <2>1. ~At(p, "work") /\ call[p].name \in Owning /\ "closeEach" \in OwnerPlaces
    BY <1>1, <1>14 DEF CloseEach, At, GoodCall, OwnerPlaces
  <2>2. ASSUME NEW s \in call[p].hand, GotoWith(p, "closeEach", call[p].hand \ {s}) PROVE Goal
    <3>1. call[p].hand \ {s} \in SUBSET Session
      BY <1>1 DEF CallState
    <3> QED
      BY <1>3, <2>1, <2>2, <3>1
  <2> QED
    BY <1>4, <1>14, <2>1, <2>2 DEF CloseEach
<1>15. CASE LookUp(p)
  <2>1. call[p].name \in Using /\ ~At(p, "work") /\ "lock" \in Places /\ call[p].name \notin Owning
    BY <1>15 DEF LookUp, At, Places, Using, Owning
  <2>2. ASSUME NEW s \in Session, GotoWith(p, "lock", {s}) PROVE Goal
    <3>1. {s} \in SUBSET Session
      OBVIOUS
    <3>2. PICK c \in CallState :
             /\ call' = [call EXCEPT ![p] = c] /\ c.at = "lock"
             /\ c.name = call[p].name /\ c.kind = call[p].kind /\ c.hand = {s}
      BY <1>1, <2>1, <2>2, <3>1, GotoWithCall
    <3>3. GoodCall(p, c)
      BY <1>1, <2>1, <3>2 DEF GoodCall, OwnerPlaces
    <3> QED
      BY <2>1, <3>2, <3>3 DEF Goal
  <2> QED
    BY <1>1, <1>4, <1>15, <2>1, <2>2 DEF LookUp
<1> QED
  BY <1>5, <1>6, <1>7, <1>8, <1>9, <1>10, <1>11, <1>12, <1>13, <1>14, <1>15 DEF Control

\* What each of these steps makes of the maps and the sessions.
LEMMA ControlState ==
  ASSUME IInv, NEW p \in Proc, Control(p)
  PROVE  /\ amu' \in Proc \cup {None} /\ registry' \in [Kind -> Session \cup {None}]
         /\ UNCHANGED <<mu, disk>>
         /\ \/ session' = session
            \/ \E s \in Session : /\ s \in call[p].hand /\ mu[s] = None
                                  /\ session' = [session EXCEPT ![s] = Closed]
<1>1. /\ amu \in Proc \cup {None} /\ registry \in [Kind -> Session \cup {None}]
      /\ call[p] \in CallState /\ None \in Session \cup {None} /\ None \in Proc \cup {None}
  BY Types DEF IInv
<1>2. call[p].hand \in SUBSET Session /\ call[p].kind \in Kind
  BY <1>1 DEF CallState
<1>3. CASE Begin(p) \/ Info(p) \/ LookUp(p)
  BY <1>1, <1>3 DEF Begin, Info, LookUp
<1>4. CASE OpenLookUp(p)
  BY <1>1, <1>2, <1>4 DEF OpenLookUp
<1>5. CASE CloseOld(p)
  BY <1>1, <1>2, <1>5 DEF CloseOld, Close
<1>6. CASE CreateLock(p)
  BY <1>1, <1>6 DEF CreateLock
<1>7. CASE Evict(p)
  BY <1>1, <1>2, <1>7 DEF Evict, Close
<1>8. CASE Register(p)
  BY <1>1, <1>2, <1>8 DEF Register
<1>9. CASE CloseTake(p)
  BY <1>1, <1>2, <1>9 DEF CloseTake
<1>10. CASE CloseAllTake(p)
  BY <1>1, <1>10 DEF CloseAllTake
<1>11. CASE CloseEach(p)
  BY <1>1, <1>2, <1>11 DEF CloseEach, Close
<1> QED
  BY <1>3, <1>4, <1>5, <1>6, <1>7, <1>8, <1>9, <1>10, <1>11 DEF Control

LEMMA ControlKeeps ==
  ASSUME IInv, NEW p \in Proc, Control(p)
  PROVE  IInv'
<1>1. PICK c \in CallState : /\ call' = [call EXCEPT ![p] = c]
                             /\ GoodCall(p, c) /\ c.at # "work" /\ ~At(p, "work")
  BY ControlCall
<1> QED
  BY <1>1, ControlState, ControlStep

-----------------------------------------------------------------------------
(* A new session, and the calls that hold a mutex                          *)

\* What a create that fails leaves of the files is lists, none longer than before.
LEMMA SpoilsTypes ==
  ASSUME IInv, NEW p \in Proc, Spoils(p)
  PROVE  /\ path' \in Inode /\ file' \in [Inode -> Seq(0 .. MaxAdds)]
         /\ \A i \in Inode : Len(file'[i]) <= added
<1>1. /\ path \in Inode /\ file \in [Inode -> Seq(0 .. MaxAdds)] /\ added \in 0 .. MaxAdds
      /\ \A i \in Inode : Len(file[i]) <= added
  BY Types DEF IInv, Lengths
<1>2. << >> \in Seq(0 .. MaxAdds) /\ Len(<< >>) <= added
  BY <1>1
<1>3. CASE file' = [file EXCEPT ![path] = << >>] /\ UNCHANGED path
  BY <1>1, <1>2, <1>3
<1>4. ASSUME NEW fresh \in Inode, path' = fresh,
             file' = [j \in Inode |-> IF j # path /\ \E s \in Session : Uses(s, j)
                                     THEN file[j] ELSE << >>]
      PROVE  /\ path' \in Inode /\ file' \in [Inode -> Seq(0 .. MaxAdds)]
             /\ \A i \in Inode : Len(file'[i]) <= added
  <2>1. ASSUME NEW i \in Inode
        PROVE  file'[i] \in {file[i], << >>}
    BY <1>4
  <2>2. file' \in [Inode -> Seq(0 .. MaxAdds)]
    BY <1>1, <1>2, <1>4
  <2> QED
    BY <1>1, <1>2, <1>4, <2>1, <2>2
<1> QED
  BY <1>3, <1>4 DEF Spoils

\* What Make does: the call fails, or it comes to hold a session nobody had.
LEMMA MakeEffect ==
  ASSUME IInv, NEW p \in Proc, Make(p)
  PROVE  /\ At(p, "make") /\ call[p].hand = {} /\ UNCHANGED <<amu, mu, registry, added>>
         /\ \/ /\ call' = [call EXCEPT ![p] = Idle] /\ UNCHANGED <<session, file, path, acked>>
            \/ call' = [call EXCEPT ![p] = Idle] /\ Spoils(p) /\ UNCHANGED session
            \/ /\ UNCHANGED path
               /\ \E s \in Session, v \in SessionState, c \in CallState :
                      /\ Unused(s) /\ session' = [session EXCEPT ![s] = v]
                      /\ v.open /\ v.kind = call[p].kind /\ v.size <= added
                      /\ v.kind = "lists" => v.file = path /\ v.size = Len(file'[path])
                      /\ call' = [call EXCEPT ![p] = c] /\ c.at = "register" /\ c.hand = {s}
                      /\ c.name = call[p].name /\ c.kind = call[p].kind
                      /\ \/ /\ call[p].name = "create"
                            /\ file' = [file EXCEPT ![path] = << >>] /\ acked' = {}
                         \/ call[p].name # "create" /\ UNCHANGED <<file, acked>>
<1> DEFINE Goal == \E s \in Session, v \in SessionState, c \in CallState :
                 /\ Unused(s) /\ session' = [session EXCEPT ![s] = v]
                 /\ v.open /\ v.kind = call[p].kind /\ v.size <= added
                 /\ v.kind = "lists" => v.file = path /\ v.size = Len(file'[path])
                 /\ call' = [call EXCEPT ![p] = c] /\ c.at = "register" /\ c.hand = {s}
                 /\ c.name = call[p].name /\ c.kind = call[p].kind
                 /\ \/ /\ call[p].name = "create"
                       /\ file' = [file EXCEPT ![path] = << >>] /\ acked' = {}
                    \/ call[p].name # "create" /\ UNCHANGED <<file, acked>>
<1>1. /\ TypeOK /\ call[p] \in CallState /\ GoodCall(p, call[p]) /\ path \in Inode
      /\ file \in [Inode -> Seq(0 .. MaxAdds)] /\ added \in 0 .. MaxAdds
      /\ \A i \in Inode : Len(file[i]) <= added
  BY Types DEF IInv, Calls, Lengths
<1>2. At(p, "make") /\ call[p].hand = {} /\ UNCHANGED <<amu, mu, registry, added>>
  BY <1>1 DEF Make, At, GoodCall
<1>3. ASSUME NEW s \in Session, NewSession(s), GotoWith(p, "register", {s}),
             file' = IF call[p].name = "create" THEN [file EXCEPT ![path] = << >>] ELSE file,
             acked' = IF call[p].name = "create" THEN {} ELSE acked,
             session' = [session EXCEPT ![s] = IF call[p].kind = "lists"
                    THEN [open |-> TRUE, kind |-> "lists", mode |-> call[p].mode,
                          size |-> Len(file'[path]), file |-> path]
                    ELSE [Closed EXCEPT !.open = TRUE, !.kind = "tables",
                                        !.mode = call[p].mode]]
      PROVE  Goal
  <2> DEFINE v == IF call[p].kind = "lists"
                    THEN [open |-> TRUE, kind |-> "lists", mode |-> call[p].mode,
                          size |-> Len(file'[path]), file |-> path]
                    ELSE [Closed EXCEPT !.open = TRUE, !.kind = "tables",
                                        !.mode = call[p].mode]
  <2>1. Len(file'[path]) \in Nat /\ Len(file'[path]) <= added
    <3>1. CASE call[p].name = "create"
      BY <1>1, <1>3, <3>1
    <3>2. CASE call[p].name # "create"
      BY <1>1, <1>3, <3>2
    <3> QED
      BY <3>1, <3>2
  <2>2. added \in Nat /\ Len(file'[path]) \in 0 .. MaxAdds
    BY <1>1, <2>1, Constants
  <2>3. call[p].mode \in Modes /\ call[p].kind \in {"tables", "lists"}
    BY <1>1 DEF CallState, Kind
  <2>4. v \in SessionState
    <3>1. CASE call[p].kind = "lists"
      BY <1>1, <2>2, <2>3, <3>1 DEF SessionState, Kind
    <3>2. CASE call[p].kind # "lists"
      BY <2>3, <3>2, ClosedSession DEF SessionState, Kind
    <3> QED
      BY <3>1, <3>2
  <2>5. /\ v.open /\ v.kind = call[p].kind /\ v.size <= added
        /\ v.kind = "lists" => v.file = path /\ v.size = Len(file'[path])
    <3>1. CASE call[p].kind = "lists"
      BY <2>1, <3>1
    <3>2. CASE call[p].kind # "lists"
      BY <2>2, <2>3, <3>2 DEF Closed
    <3> QED
      BY <3>1, <3>2
  <2>6. session' = [session EXCEPT ![s] = v] /\ Unused(s)
    BY <1>3 DEF NewSession
  <2> HIDE DEF v
  <2>7. TypeOK /\ GotoWith(p, "register", {s}) /\ "register" \in Places /\ {s} \in SUBSET Session
    BY <1>1, <1>3 DEF Places
  <2>8. PICK c \in CallState :
           /\ call' = [call EXCEPT ![p] = c] /\ c.at = "register"
           /\ c.name = call[p].name /\ c.kind = call[p].kind /\ c.hand = {s}
    BY <2>7, GotoWithCall
  <2>9. \/ /\ call[p].name = "create"
           /\ file' = [file EXCEPT ![path] = << >>] /\ acked' = {}
        \/ call[p].name # "create" /\ UNCHANGED <<file, acked>>
    BY <1>3
  <2> QED
    BY <2>4, <2>5, <2>6, <2>8, <2>9
<1> HIDE DEF Goal
<1>4. \/ Goal /\ UNCHANGED path
      \/ Return(p) /\ UNCHANGED <<session, file, path, acked>>
      \/ Return(p) /\ Spoils(p) /\ UNCHANGED session
  BY <1>3 DEF Make
<1> QED
  BY <1>1, <1>2, <1>4, ReturnCall DEF Goal

LEMMA MakeKeeps ==
  ASSUME IInv, NEW p \in Proc, Make(p)
  PROVE  IInv'
<1>1. /\ TypeOK /\ Calls /\ Mutexes /\ Lengths
      /\ At(p, "make") /\ call[p].hand = {} /\ UNCHANGED <<amu, mu, registry, added>>
  BY MakeEffect DEF IInv
<1>2. /\ call \in [Proc -> CallState] /\ session \in [Session -> SessionState]
      /\ file \in [Inode -> Seq(0 .. MaxAdds)] /\ path \in Inode /\ added \in 0 .. MaxAdds
  BY <1>1, Types
<1>3. CASE /\ call' = [call EXCEPT ![p] = Idle] /\ UNCHANGED session
           /\ UNCHANGED <<file, path, acked>> \/ Spoils(p)
  <2>0. /\ path' \in Inode /\ file' \in [Inode -> Seq(0 .. MaxAdds)]
        /\ acked' \subseteq 1 .. added /\ \A i \in Inode : Len(file'[i]) <= added
    <3>1. CASE UNCHANGED <<file, path, acked>>
      BY <1>1, <1>2, <3>1 DEF Lengths, TypeOK
    <3>2. CASE Spoils(p)
      BY <3>2, SpoilsTypes DEF Spoils
    <3> QED
      BY <1>3, <3>1, <3>2
  <2>1. \A q \in Proc : call'[q] = IF q = p THEN Idle ELSE call[q]
    BY <1>2, <1>3
  <2>2. TypeOK'
    <3>1. call' \in [Proc -> CallState]
      BY <1>2, <1>3, IdleCall
    <3> QED
      BY <1>1, <1>3, <2>0, <3>1 DEF TypeOK, CallState
  <2>3. Calls'
    BY <1>1, <2>1, IdleCall DEF Calls
  <2>4. Mutexes'
    BY <1>1, <2>1 DEF Mutexes, At, Idle
  <2>5. Lengths'
    BY <1>1, <1>3, <2>0 DEF Lengths
  <2> QED
    BY <2>2, <2>3, <2>4, <2>5 DEF IInv
<1>4. ASSUME NEW s \in Session, NEW v \in SessionState, NEW c \in CallState,
             session' = [session EXCEPT ![s] = v], v.size <= added,
             call' = [call EXCEPT ![p] = c], c.at = "register", c.hand = {s},
             UNCHANGED path, c.name = call[p].name, c.kind = call[p].kind,
             \/ file' = [file EXCEPT ![path] = << >>] /\ acked' = {}
             \/ UNCHANGED <<file, acked>>
      PROVE  IInv'
  <2>1. \A q \in Proc : call'[q] = IF q = p THEN c ELSE call[q]
    BY <1>2, <1>4
  <2>2. /\ file' \in [Inode -> Seq(0 .. MaxAdds)] /\ acked' \subseteq 1 .. added
        /\ \A i \in Inode : Len(file'[i]) <= added
    <3>1. CASE file' = [file EXCEPT ![path] = << >>] /\ acked' = {}
      <4>1. << >> \in Seq(0 .. MaxAdds) /\ Len(<< >>) = 0 /\ 0 <= added
        BY <1>2
      <4>2. \A i \in Inode : file'[i] = IF i = path THEN << >> ELSE file[i]
        BY <1>2, <3>1
      <4>3. \A i \in Inode : Len(file'[i]) <= added
        BY <1>1, <4>1, <4>2 DEF Lengths
      <4> QED
        BY <1>2, <3>1, <4>1, <4>3
    <3>2. CASE UNCHANGED <<file, acked>>
      BY <1>1, <1>2, <3>2 DEF Lengths, TypeOK
    <3> QED
      BY <1>4, <3>1, <3>2
  <2>3. TypeOK'
    <3>1. call' \in [Proc -> CallState] /\ session' \in [Session -> SessionState]
      BY <1>2, <1>4
    <3> QED
      BY <1>1, <1>4, <2>2, <3>1 DEF TypeOK, CallState, SessionState
  <2>4. Calls'
    <3>1. GoodCall(p, call[p]) /\ call[p].at = "make"
      BY <1>1 DEF Calls, At
    <3>2. GoodCall(p, c)
      BY <1>4, <3>1 DEF GoodCall, OwnerPlaces
    <3> QED
      BY <1>1, <2>1, <3>2 DEF Calls
  <2>5. Mutexes'
    BY <1>1, <1>4, <2>1 DEF Mutexes, At
  <2>6. Lengths'
    <3>1. \A t \in Session : session'[t].size <= added
      BY <1>1, <1>2, <1>4 DEF Lengths
    <3> QED
      BY <1>1, <2>2, <3>1 DEF Lengths
  <2> QED
    BY <2>3, <2>4, <2>5, <2>6 DEF IInv
<1> QED
  BY <1>3, <1>4, MakeEffect

LEMMA LockEffect ==
  ASSUME IInv, NEW p \in Proc, Lock(p)
  PROVE  /\ At(p, "lock") /\ UNCHANGED <<amu, registry, session, disk>>
         /\ \E s \in Session, c \in CallState :
              /\ call[p].hand = {s} /\ mu[s] = None /\ mu' = [mu EXCEPT ![s] = p]
              /\ call' = [call EXCEPT ![p] = c] /\ c.at = "work" /\ c.hand = {s}
              /\ c.name = call[p].name /\ c.kind = call[p].kind
<1>1. /\ TypeOK /\ GoodCall(p, call[p]) /\ Goto(p, "work") /\ "work" \in Places
      /\ call[p].at = "lock"
  BY DEF IInv, Calls, Lock, Places, At
<1>2. PICK s \in Session : call[p].hand = {s}
  BY <1>1 DEF GoodCall
<1>3. mu[s] = None /\ mu' = [mu EXCEPT ![s] = p]
  BY <1>2 DEF Lock
<1>4. PICK c \in CallState :
         /\ call' = [call EXCEPT ![p] = c] /\ c.at = "work"
         /\ c.name = call[p].name /\ c.kind = call[p].kind /\ c.hand = call[p].hand
  BY <1>1, GotoCall
<1> QED
  BY <1>1, <1>2, <1>3, <1>4 DEF Lock, At

LEMMA LockKeeps ==
  ASSUME IInv, NEW p \in Proc, Lock(p)
  PROVE  IInv'
<1>1. /\ TypeOK /\ Calls /\ Mutexes /\ Lengths
      /\ At(p, "lock") /\ UNCHANGED <<amu, registry, session, file, path, acked, added>>
  BY LockEffect DEF IInv, disk
<1>2. PICK s \in Session, c \in CallState :
              /\ call[p].hand = {s} /\ mu[s] = None /\ mu' = [mu EXCEPT ![s] = p]
              /\ call' = [call EXCEPT ![p] = c] /\ c.at = "work" /\ c.hand = {s}
              /\ c.name = call[p].name /\ c.kind = call[p].kind
  BY LockEffect
<1>3. call \in [Proc -> CallState] /\ mu \in [Session -> Proc \cup {None}]
  BY <1>1, Types
<1>4. \A q \in Proc : call'[q] = IF q = p THEN c ELSE call[q]
  BY <1>2, <1>3
<1>5. TypeOK'
  <2>1. call' \in [Proc -> CallState] /\ mu' \in [Session -> Proc \cup {None}]
    BY <1>2, <1>3
  <2> QED
    BY <1>1, <2>1 DEF TypeOK, CallState
<1>6. Calls'
  <2>1. GoodCall(p, call[p]) /\ call[p].at = "lock"
    BY <1>1 DEF Calls, At
  <2>2. GoodCall(p, c)
    BY <1>2, <2>1 DEF GoodCall, OwnerPlaces
  <2> QED
    BY <1>1, <1>4, <2>2 DEF Calls
<1>7. Mutexes'
  <2> SUFFICES ASSUME NEW q \in Proc, NEW t \in Session
               PROVE  mu'[t] = q <=> call'[q].at = "work" /\ t \in call'[q].hand
    BY DEF Mutexes, At
  <2>1. mu[t] = q <=> call[q].at = "work" /\ t \in call[q].hand
    BY <1>1 DEF Mutexes, At
  <2>2. mu'[t] = IF t = s THEN p ELSE mu[t]
    BY <1>2, <1>3
  <2>3. call[p].at # "work" /\ None \notin Proc
    BY <1>1, Constants DEF At
  <2>4. CASE q = p
    BY <1>2, <1>4, <2>1, <2>2, <2>3, <2>4
  <2>5. CASE q # p
    BY <1>2, <1>4, <2>1, <2>2, <2>3, <2>5
  <2> QED
    BY <2>4, <2>5
<1>8. Lengths'
  BY <1>1 DEF Lengths
<1> QED
  BY <1>5, <1>6, <1>7, <1>8 DEF IInv

LEMMA SeenList ==
  ASSUME IInv, NEW s \in Session
  PROVE  /\ Seen(s) \in Seq(0 .. MaxAdds) /\ Len(Seen(s)) = session[s].size
         /\ Len(Seen(s)) \in Nat /\ session[s].file \in Inode
         /\ \A i \in 1 .. session[s].size :
              Seen(s)[i] = IF i <= Len(file[session[s].file])
                           THEN file[session[s].file][i] ELSE 0
<1>1. session[s] \in SessionState /\ file \in [Inode -> Seq(0 .. MaxAdds)] /\ MaxAdds \in Nat
  BY Types, Constants DEF IInv
<1>2. session[s].size \in Nat /\ session[s].file \in Inode
  BY <1>1 DEF SessionState
<1>3. file[session[s].file] \in Seq(0 .. MaxAdds)
  BY <1>1, <1>2
<1> DEFINE f == file[session[s].file]
           n == session[s].size
<1>4. f \in Seq(0 .. MaxAdds) /\ n \in Nat
  BY <1>2, <1>3
<1>5. Seen(s) = [i \in 1 .. n |-> IF i <= Len(f) THEN f[i] ELSE 0]
  BY DEF Seen
<1> HIDE DEF f, n
<1>6. ASSUME NEW i \in 1 .. n
      PROVE  (IF i <= Len(f) THEN f[i] ELSE 0) \in 0 .. MaxAdds
  <2>1. CASE i <= Len(f)
    <3>1. i \in 1 .. Len(f)
      BY <1>4, <2>1
    <3>2. f[i] \in 0 .. MaxAdds
      BY <1>4, <3>1, ElementOfSeq
    <3> QED
      BY <2>1, <3>2
  <2>2. CASE ~(i <= Len(f))
    BY <1>1, <2>2
  <2> QED
    BY <2>1, <2>2
<1>7. Seen(s) \in [1 .. n -> 0 .. MaxAdds]
  BY <1>5, <1>6
<1>8. Seen(s) \in Seq(0 .. MaxAdds) /\ Len(Seen(s)) = n
  <2>1. n \in Nat
    BY <1>4
  <2> QED
    BY <1>7, <2>1, FunctionIsSequence
<1> QED
  BY <1>2, <1>4, <1>5, <1>8 DEF f, n

\* What Work does: nothing to the blobs, or one of the two edits.
LEMMA WorkEffect ==
  ASSUME IInv, NEW p \in Proc, Work(p)
  PROVE  /\ At(p, "work") /\ UNCHANGED <<amu, registry>> /\ call' = [call EXCEPT ![p] = Idle]
         /\ \E s \in Session :
              /\ call[p].hand = {s} /\ mu' = [mu EXCEPT ![s] = None]
              /\ \/ UNCHANGED <<session, disk>>
                 \/ /\ session[s].open /\ call[p].kind = "lists"
                    /\ Add(s) \/ Delete(s)
<1>1. GoodCall(p, call[p]) /\ call[p].at = "work"
  BY DEF IInv, Calls, Work, At
<1>2. PICK s \in Session : call[p].hand = {s}
  BY <1>1 DEF GoodCall
<1>3. /\ \/ Refused(s, call[p].name)
         \/ /\ session[s].open
            /\ \/ call[p].name = "add" /\ Add(s)
               \/ call[p].name = "delete" /\ Delete(s)
      /\ mu' = [mu EXCEPT ![s] = None]
  BY <1>2 DEF Work
<1>4. call[p].name \in {"add", "delete"} => call[p].kind = "lists"
  BY <1>1 DEF GoodCall
<1>5. Refused(s, call[p].name) => UNCHANGED <<session, disk>>
  BY DEF Refused
<1> QED
  BY <1>2, <1>3, <1>4, <1>5 DEF Work, Return

\* What an edit leaves: the session stays open, and counts no more than was offered.
LEMMA AddTypes ==
  ASSUME IInv, NEW s \in Session, Add(s)
  PROVE  /\ \E w \in SessionState : /\ session' = [session EXCEPT ![s] = w]
                                    /\ w.open = session[s].open /\ w.kind = session[s].kind
                                    /\ w.file = session[s].file
                                    /\ w.size = session[s].size + 1 /\ w.size <= added'
         /\ added' = added + 1 /\ added' \in 0 .. MaxAdds /\ path' = path
         /\ acked' = acked \cup {added'} /\ acked' \subseteq 1 .. added'
         /\ file' = [file EXCEPT ![session[s].file] = Append(Seen(s), added')]
         /\ file' \in [Inode -> Seq(0 .. MaxAdds)]
         /\ \A i \in Inode : Len(file'[i]) <= added'
<1>1. /\ session[s] \in SessionState /\ session[s].size <= added /\ added \in 0 .. MaxAdds
      /\ MaxAdds \in Nat /\ acked \subseteq 1 .. added /\ file \in [Inode -> Seq(0 .. MaxAdds)]
      /\ session \in [Session -> SessionState]
      /\ \A i \in Inode : Len(file[i]) <= added
  BY Types, Constants DEF IInv, Lengths
<1>2. /\ added < MaxAdds /\ added' = added + 1 /\ path' = path /\ acked' = acked \cup {added'}
      /\ file' = [file EXCEPT ![session[s].file] = Append(Seen(s), added')]
      /\ session' = [session EXCEPT ![s].size = @ + 1]
  BY DEF Add
<1>3. added' \in 0 .. MaxAdds /\ session[s].size + 1 \in 0 .. MaxAdds
      /\ session[s].size + 1 <= added' /\ added <= added'
  <2>1. session[s].size \in Nat
    BY <1>1 DEF SessionState
  <2> QED
    BY <1>1, <1>2, <2>1
<1>4. acked' \subseteq 1 .. added'
  BY <1>1, <1>2, <1>3
<1> DEFINE w == [session[s] EXCEPT !.size = @ + 1]
<1>5. /\ w \in SessionState /\ w.open = session[s].open /\ w.kind = session[s].kind
      /\ w.file = session[s].file /\ w.size = session[s].size + 1
  BY <1>1, <1>3 DEF SessionState
<1>6. session' = [session EXCEPT ![s] = w]
  BY <1>1, <1>2
<1> HIDE DEF w
<1>7. /\ Append(Seen(s), added') \in Seq(0 .. MaxAdds)
      /\ Len(Append(Seen(s), added')) = session[s].size + 1
      /\ session[s].file \in Inode
  BY <1>3, SeenList
<1>8. file' \in [Inode -> Seq(0 .. MaxAdds)]
  BY <1>1, <1>2, <1>7
<1>9. ASSUME NEW i \in Inode PROVE Len(file'[i]) <= added'
  <2>1. CASE i = session[s].file
    <3>1. file'[i] = Append(Seen(s), added')
      BY <1>1, <1>2, <2>1
    <3> QED
      BY <1>3, <1>7, <3>1
  <2>2. CASE i # session[s].file
    <3>1. file'[i] = file[i] /\ Len(file[i]) <= added
      BY <1>1, <1>2, <2>2
    <3>2. file[i] \in Seq(0 .. MaxAdds)
      BY <1>1
    <3>3. Len(file[i]) \in Nat
      BY <3>2
    <3> QED
      BY <1>1, <1>3, <3>1, <3>3
  <2> QED
    BY <2>1, <2>2
<1> QED
  BY <1>2, <1>3, <1>4, <1>5, <1>6, <1>8, <1>9

LEMMA DeleteTypes ==
  ASSUME IInv, NEW s \in Session, Delete(s)
  PROVE  \E i \in 1 .. session[s].size, fresh \in Inode, w \in SessionState :
           /\ session' = [session EXCEPT ![s] = w]
           /\ w.open = session[s].open /\ w.kind = session[s].kind
           /\ w.file = fresh /\ w.size = session[s].size - 1
           /\ path' = fresh /\ added' = added /\ acked' = acked \ {Seen(s)[i]}
           /\ file' \in [Inode -> Seq(0 .. MaxAdds)]
           /\ file'[fresh] = RemoveAt(Seen(s), i)
           /\ \A j \in Inode : Len(file'[j]) <= added
<1>1. /\ session[s] \in SessionState /\ session[s].size <= added /\ added \in 0 .. MaxAdds
      /\ MaxAdds \in Nat /\ file \in [Inode -> Seq(0 .. MaxAdds)]
      /\ session \in [Session -> SessionState]
      /\ \A i \in Inode : Len(file[i]) <= added
  BY Types, Constants DEF IInv, Lengths
<1>2. PICK i \in 1 .. session[s].size, fresh \in Inode :
        /\ file' = [j \in Inode |->
                      CASE j = fresh -> RemoveAt(Seen(s), i)
                        [] j # fresh /\ (\E t \in Session \ {s} : Uses(t, j)) -> file[j]
                        [] OTHER -> << >>]
        /\ path' = fresh
        /\ session' = [session EXCEPT ![s].size = @ - 1, ![s].file = fresh]
        /\ acked' = acked \ {Seen(s)[i]} /\ added' = added
  BY DEF Delete
<1>3. session[s].size \in Nat /\ session[s].size - 1 \in 0 .. MaxAdds
  BY <1>1 DEF SessionState
<1> DEFINE w == [session[s] EXCEPT !.size = @ - 1, !.file = fresh]
<1>4. /\ w \in SessionState /\ w.open = session[s].open /\ w.kind = session[s].kind
      /\ w.file = fresh /\ w.size = session[s].size - 1
  BY <1>1, <1>3 DEF SessionState
<1>5. session' = [session EXCEPT ![s] = w]
  BY <1>1, <1>2
<1> HIDE DEF w
<1> DEFINE r == RemoveAt(Seen(s), i)
<1>6. r \in Seq(0 .. MaxAdds) /\ Len(r) = session[s].size - 1
  BY SeenList, RemoveOne
<1> HIDE DEF r
<1>7. << >> \in Seq(0 .. MaxAdds) /\ Len(<< >>) = 0
  OBVIOUS
<1>8. ASSUME NEW j \in Inode
      PROVE  file'[j] \in Seq(0 .. MaxAdds) /\ Len(file'[j]) <= added
  <2>1. file'[j] = r \/ file'[j] = file[j] \/ file'[j] = << >>
    BY <1>2 DEF r
  <2>2. CASE file'[j] = r
    BY <1>1, <1>3, <1>6, <2>2
  <2>3. CASE file'[j] = file[j]
    BY <1>1, <2>3
  <2>4. CASE file'[j] = << >>
    BY <1>1, <1>7, <2>4
  <2> QED
    BY <2>1, <2>2, <2>3, <2>4
<1>9. file'[fresh] = r
  BY <1>2 DEF r
<1>10. file' \in [Inode -> Seq(0 .. MaxAdds)]
  <2>1. file' = [j \in Inode |-> file'[j]]
    BY <1>2
  <2> QED
    BY <1>8, <2>1
<1> QED
  BY <1>2, <1>4, <1>5, <1>8, <1>9, <1>10 DEF r

LEMMA WorkKeeps ==
  ASSUME IInv, NEW p \in Proc, Work(p)
  PROVE  IInv'
<1>1. /\ TypeOK /\ Calls /\ Mutexes /\ Lengths /\ At(p, "work") /\ UNCHANGED <<amu, registry>>
      /\ call' = [call EXCEPT ![p] = Idle]
  BY WorkEffect DEF IInv
<1>2. PICK s \in Session :
              /\ call[p].hand = {s} /\ mu' = [mu EXCEPT ![s] = None]
              /\ UNCHANGED <<session, disk>> \/ Add(s) \/ Delete(s)
  BY WorkEffect
<1>3. /\ call \in [Proc -> CallState] /\ mu \in [Session -> Proc \cup {None}]
      /\ session \in [Session -> SessionState] /\ added \in 0 .. MaxAdds /\ MaxAdds \in Nat
      /\ acked \subseteq 1 .. added
  BY <1>1, Types, Constants
<1>4. \A q \in Proc : call'[q] = IF q = p THEN Idle ELSE call[q]
  BY <1>1, <1>3
<1>5. /\ session' \in [Session -> SessionState] /\ file' \in [Inode -> Seq(0 .. MaxAdds)]
      /\ path' \in Inode /\ acked' \subseteq 1 .. added' /\ added' \in 0 .. MaxAdds
      /\ Lengths'
  <2>1. CASE UNCHANGED <<session, disk>>
    BY <1>1, <2>1 DEF disk, TypeOK, Lengths, SessionState
  <2>2. CASE Add(s)
    <3>1. PICK w \in SessionState : session' = [session EXCEPT ![s] = w] /\ w.size <= added'
      BY <2>2, AddTypes
    <3>2. /\ added' = added + 1 /\ added' \in 0 .. MaxAdds /\ path' = path
          /\ acked' \subseteq 1 .. added' /\ file' \in [Inode -> Seq(0 .. MaxAdds)]
          /\ \A i \in Inode : Len(file'[i]) <= added'
      BY <2>2, AddTypes
    <3>3. \A t \in Session : session'[t].size <= added'
      <4> SUFFICES ASSUME NEW t \in Session PROVE session'[t].size <= added'
        OBVIOUS
      <4>1. CASE t = s
        BY <1>3, <3>1, <4>1
      <4>2. CASE t # s
        <5>1. session'[t] = session[t] /\ session[t].size <= added /\ session[t].size \in Nat
          BY <1>1, <1>3, <3>1, <4>2 DEF Lengths, SessionState
        <5> QED
          BY <1>3, <3>2, <5>1
      <4> QED
        BY <4>1, <4>2
    <3> QED
      BY <1>1, <1>3, <3>1, <3>2, <3>3 DEF Lengths, TypeOK
  <2>3. CASE Delete(s)
    <3>1. PICK i \in 1 .. session[s].size, fresh \in Inode, w \in SessionState :
           /\ session' = [session EXCEPT ![s] = w]
           /\ w.open = session[s].open /\ w.kind = session[s].kind
           /\ w.file = fresh /\ w.size = session[s].size - 1
           /\ path' = fresh /\ added' = added /\ acked' = acked \ {Seen(s)[i]}
           /\ file' \in [Inode -> Seq(0 .. MaxAdds)]
           /\ file'[fresh] = RemoveAt(Seen(s), i)
           /\ \A j \in Inode : Len(file'[j]) <= added
      BY <2>3, DeleteTypes
    <3>2. \A t \in Session : session'[t].size <= added
      <4>1. session[s].size - 1 <= added
        BY <1>1, <1>3 DEF Lengths, SessionState
      <4> QED
        BY <1>1, <1>3, <3>1, <4>1 DEF Lengths
    <3> QED
      BY <1>3, <3>1, <3>2 DEF Lengths
  <2> QED
    BY <1>2, <2>1, <2>2, <2>3
<1>6. TypeOK'
  <2>1. call' \in [Proc -> CallState] /\ mu' \in [Session -> Proc \cup {None}]
    BY <1>1, <1>2, <1>3, IdleCall
  <2> QED
    BY <1>1, <1>5, <2>1 DEF TypeOK, CallState, SessionState
<1>7. Calls'
  BY <1>1, <1>4, IdleCall DEF Calls
<1>8. Mutexes'
  <2> SUFFICES ASSUME NEW q \in Proc, NEW t \in Session
               PROVE  mu'[t] = q <=> call'[q].at = "work" /\ t \in call'[q].hand
    BY DEF Mutexes, At
  <2>1. mu[t] = q <=> call[q].at = "work" /\ t \in call[q].hand
    BY <1>1 DEF Mutexes, At
  <2>2. mu'[t] = IF t = s THEN None ELSE mu[t]
    BY <1>2, <1>3
  <2>3. mu[s] = p /\ None \notin Proc
    BY <1>1, <1>2, Constants DEF Mutexes
  <2>4. CASE q = p
    BY <1>2, <1>4, <2>1, <2>2, <2>3, <2>4 DEF Idle
  <2>5. CASE q # p
    BY <1>4, <2>1, <2>2, <2>3, <2>5
  <2> QED
    BY <2>4, <2>5
<1> QED
  BY <1>5, <1>6, <1>7, <1>8 DEF IInv

-----------------------------------------------------------------------------
(* The theorems that hold of any number of controllers                     *)

LEMMA Initially == Init => IInv
<1> SUFFICES ASSUME Init PROVE IInv
  OBVIOUS
<1>1. /\ call = [p \in Proc |-> Idle] /\ amu = None /\ mu = [s \in Session |-> None]
      /\ registry = [k \in Kind |-> None] /\ session = [s \in Session |-> Closed]
      /\ file = [i \in Inode |-> << >>] /\ path = 1 /\ acked = {} /\ added = 0
  BY DEF Init
<1>2. << >> \in Seq(0 .. MaxAdds) /\ Len(<< >>) = 0 /\ 0 \in 0 .. MaxAdds
  BY Constants
<1>3. TypeOK
  <2>1. call \in [Proc -> CallState] /\ session \in [Session -> SessionState]
    BY <1>1, IdleCall, ClosedSession
  <2>2. /\ amu \in Proc \cup {None} /\ mu \in [Session -> Proc \cup {None}]
        /\ registry \in [Kind -> Session \cup {None}]
        /\ file \in [Inode -> Seq(0 .. MaxAdds)] /\ path \in Inode
        /\ acked \subseteq 1 .. added /\ added \in 0 .. MaxAdds
    BY <1>1, <1>2, Constants
  <2> QED
    BY <2>1, <2>2 DEF TypeOK, CallState, SessionState
<1>4. Calls
  BY <1>1, IdleCall DEF Calls
<1>5. Mutexes
  BY <1>1, Constants DEF Mutexes, At, Idle
<1>6. Lengths
  BY <1>1, <1>2, ClosedSession DEF Lengths
<1> QED
  BY <1>3, <1>4, <1>5, <1>6 DEF IInv

LEMMA NextCases ==
  ASSUME Next
  PROVE  \E p \in Proc : Control(p) \/ Make(p) \/ Lock(p) \/ Work(p)
  BY DEF Next, Step, Control

LEMMA Preserved == IInv /\ [Next]_vars => IInv'
<1> SUFFICES ASSUME IInv, [Next]_vars PROVE IInv'
  OBVIOUS
<1>1. CASE UNCHANGED vars
  BY <1>1 DEF IInv, vars, TypeOK, Calls, Mutexes, Lengths, At, GoodCall, Seen
<1>2. CASE Next
  <2>1. PICK p \in Proc : Control(p) \/ Make(p) \/ Lock(p) \/ Work(p)
    BY <1>2, NextCases
  <2> QED
    BY <2>1, ControlKeeps, MakeKeeps, LockKeeps, WorkKeeps
<1> QED
  BY <1>1, <1>2

\* The invariant holds in every state.
THEOREM Inductive == Spec => []IInv
  BY Initially, Preserved, PTL DEF Spec

\* The calls, the maps, the sessions and the files always have their types.
THEOREM TypeCorrect == Spec => []TypeOK
<1>1. IInv => TypeOK
  BY DEF IInv
<1> QED
  BY <1>1, Inductive, PTL

\* A session's mutex does what listSession.mu and tableSession.mu are for: two
\* goroutines never work on one session.
WorkersExclude ==
    \A p, q \in Proc : At(p, "work") /\ At(q, "work") /\ p # q =>
                         call[p].hand \cap call[q].hand = {}

\* No two calls work on the same session, whatever opens and closes meanwhile.
THEOREM WorkIsExclusive == Spec => []WorkersExclude
<1>1. IInv => WorkersExclude
  <2> SUFFICES ASSUME IInv, NEW p \in Proc, NEW q \in Proc, At(p, "work"), At(q, "work"),
                      NEW s \in call[p].hand, s \in call[q].hand
               PROVE  p = q
    BY DEF WorkersExclude
  <2>1. s \in Session
    BY Types DEF IInv, CallState
  <2> QED
    BY <2>1 DEF IInv, Mutexes
<1> QED
  BY <1>1, Inductive, PTL

\* The action of NotClosedUnderCall.
StaysOpen == \A s \in Session : mu[s] # None /\ session[s].open => session'[s].open

\* The file of a session is never closed while a call holds the session's mutex,
\* whichever goroutines open, create, close and close all.
THEOREM NotClosedUnderACall == Spec => NotClosedUnderCall
<1>1. IInv /\ [Next]_vars => [StaysOpen]_vars
  <2> SUFFICES ASSUME IInv, Next, NEW s \in Session, mu[s] # None, session[s].open
               PROVE  session'[s].open
    BY DEF StaysOpen
  <2>1. PICK p \in Proc : Control(p) \/ Make(p) \/ Lock(p) \/ Work(p)
    BY NextCases
  <2>2. session \in [Session -> SessionState]
    BY Types DEF IInv
  <2>3. CASE Control(p)
    BY <2>2, <2>3, ControlState
  <2>4. CASE Make(p)
    <3>1. CASE session' = session
      BY <3>1
    <3>2. ASSUME NEW t \in Session, NEW v \in SessionState, v.open,
                 session' = [session EXCEPT ![t] = v]
          PROVE  session'[s].open
      BY <2>2, <3>2
    <3> QED
      BY <2>4, <3>1, <3>2, MakeEffect
  <2>5. CASE Lock(p)
    BY <2>5, LockEffect
  <2>6. CASE Work(p)
    <3>1. PICK t \in Session : UNCHANGED <<session, disk>> \/ Add(t) \/ Delete(t)
      BY <2>6, WorkEffect
    <3>2. ASSUME NEW w \in SessionState, w.open = session[t].open,
                 session' = [session EXCEPT ![t] = w]
          PROVE  session'[s].open
      BY <2>2, <3>2
    <3>3. CASE Add(t)
      BY <3>2, <3>3, AddTypes
    <3>4. CASE Delete(t)
      BY <3>2, <3>4, DeleteTypes
    <3> QED
      BY <3>1, <3>3, <3>4
  <2> QED
    BY <2>1, <2>3, <2>4, <2>5, <2>6
<1>2. NotClosedUnderCall <=> [][StaysOpen]_vars
  BY DEF NotClosedUnderCall, StaysOpen
<1> QED
  BY <1>1, <1>2, Inductive, PTL DEF Spec

-----------------------------------------------------------------------------
(* One controller: what keeps the sessions of a path apart                 *)

(***************************************************************************)
(* The look-up of open and the registration are two critical sections, and *)
(* create registers without asking again. Nothing but the order in which   *)
(* the frontend calls keeps two goroutines from being between the two, so  *)
(* what follows is about one goroutine that opens, creates and closes, and *)
(* any number that use the sessions meanwhile.                             *)
(***************************************************************************)
OneController == \A p, q \in Controllers : p = q

\* Places where a call is to close or to register what it holds.
Holding == {"closeOld", "evict", "register", "closeEach"}

\* A session is in the map of its kind, and a call uses sessions of the kind it named.
Kinds ==
    /\ \A k \in Kind, s \in Session :
         registry[k] = s /\ session[s].open => session[s].kind = k
    /\ \A p \in Proc, s \in Session :
         /\ call[p].at \in {"register", "lock", "work"}
         /\ s \in call[p].hand /\ session[s].open
         => session[s].kind = call[p].kind

\* Between the look-up and the registration of a call its entry in the map is empty,
\* and so is the other map's while the path is created.
Vacancy(c) ==
    /\ c.at \in {"closeOld", "make", "register"} => registry[c.kind] = None
    /\ c.at = "evict" \/ (c.at \in {"make", "register"} /\ c.name = "create")
         => \A k \in Kind : registry[k] = None
    /\ c.at = "evict" => c.name = "create"
    /\ c.at = "closeOld" => c.name = "open"

Vacant == \A p \in Proc : Vacancy(call[p])

\* An open session is in a map, or with a call that is to close or to register it.
Found ==
    \A s \in Session : session[s].open =>
        \/ \E k \in Kind : registry[k] = s
        \/ \E p \in Proc : call[p].at \in Holding /\ s \in call[p].hand

ListOpen(s) == session[s].open /\ session[s].kind = "lists"

\* One session at most is open on the list; it works on the file at the path and
\* knows its count.
Current ==
    /\ \A s \in Session : ListOpen(s) =>
         session[s].file = path /\ session[s].size = Len(file[path])
    /\ \A s, t \in Session : ListOpen(s) /\ ListOpen(t) => s = t

Maps == Kinds /\ Vacant /\ Found
SInv == IInv /\ Maps /\ Current /\ AckedKept

\* The step opens no session.
OpensNone == \A t \in Session : session'[t].open =>
                session[t].open /\ session'[t].kind = session[t].kind

\* What call p puts into a map is the session it was to register there.
RegistersOwn(p) ==
    /\ \A k \in Kind, t \in Session : registry'[k] = t /\ registry[k] # t =>
         At(p, "register") /\ t \in call[p].hand /\ k = call[p].kind
    /\ At(p, "register") \/ \A k \in Kind : registry'[k] \in {registry[k], None}

\* The session that call c comes to use is of its kind.
UsesOwnKind(c) ==
    \A t \in Session :
        c.at \in {"register", "lock", "work"} /\ t \in c.hand /\ session'[t].open =>
        session[t].kind = c.kind

VacancyNext(c) ==
    /\ c.at \in {"closeOld", "make", "register"} => registry'[c.kind] = None
    /\ c.at = "evict" \/ (c.at \in {"make", "register"} /\ c.name = "create")
         => \A k \in Kind : registry'[k] = None
    /\ c.at = "evict" => c.name = "create"
    /\ c.at = "closeOld" => c.name = "open"

\* No session that stays open drops out of a map or of the hand of call p.
DropsNone(p, c) ==
    \A t \in Session :
        /\ session'[t].open
        /\ (\E k \in Kind : registry[k] = t) \/ (call[p].at \in Holding /\ t \in call[p].hand)
        => (\E k \in Kind : registry'[k] = t) \/ (c.at \in Holding /\ t \in c.hand)

\* A step of call p that becomes c keeps Maps if all of this holds of it.
LEMMA MapStep ==
  ASSUME OneController, IInv, Maps, NEW p \in Proc, NEW c \in CallState,
         call' = [call EXCEPT ![p] = c], OpensNone, RegistersOwn(p), UsesOwnKind(c),
         VacancyNext(c), DropsNone(p, c)
  PROVE  Maps'
<1> USE DEF OpensNone, RegistersOwn, UsesOwnKind, VacancyNext, DropsNone
<1>1. \A q \in Proc : call'[q] = IF q = p THEN c ELSE call[q]
  BY Types DEF IInv
<1>2. Kinds /\ Vacant /\ Found /\ Calls
  BY DEF Maps, IInv
<1>3. Kinds'
  <2>1. ASSUME NEW k \in Kind, NEW s \in Session, registry'[k] = s, session'[s].open
        PROVE  session'[s].kind = k
    <3>1. session[s].open /\ session'[s].kind = session[s].kind
      BY <2>1
    <3>2. CASE registry[k] = s
      BY <1>2, <3>1, <3>2 DEF Kinds
    <3>3. CASE registry[k] # s
      <4>1. call[p].at = "register" /\ s \in call[p].hand /\ k = call[p].kind
        BY <2>1, <3>3 DEF At
      <4> QED
        BY <1>2, <3>1, <4>1 DEF Kinds
    <3> QED
      BY <3>2, <3>3
  <2>2. ASSUME NEW q \in Proc, NEW s \in Session,
               call'[q].at \in {"register", "lock", "work"},
               s \in call'[q].hand, session'[s].open
        PROVE  session'[s].kind = call'[q].kind
    <3>1. session[s].open /\ session'[s].kind = session[s].kind
      BY <2>2
    <3>2. CASE q = p
      BY <1>1, <2>2, <3>1, <3>2
    <3>3. CASE q # p
      BY <1>1, <1>2, <2>2, <3>1, <3>3 DEF Kinds
    <3> QED
      BY <3>2, <3>3
  <2> QED
    BY <2>1, <2>2 DEF Kinds
<1>4. Vacant'
  <2> SUFFICES ASSUME NEW q \in Proc PROVE Vacancy(call[q])'
    BY DEF Vacant
  <2>1. CASE q = p
    BY <1>1, <2>1 DEF Vacancy
  <2>2. CASE q # p /\ At(p, "register")
    <3>1. p \in Controllers
      BY <1>2, <2>2 DEF Calls, GoodCall, OwnerPlaces, At
    <3>2. call[q].at \notin OwnerPlaces
      BY <1>2, <2>2, <3>1, Constants DEF Calls, GoodCall, OneController
    <3> QED
      BY <1>1, <2>2, <3>2 DEF Vacancy, OwnerPlaces
  <2>3. CASE q # p /\ \A k \in Kind : registry'[k] \in {registry[k], None}
    <3>1. Vacancy(call[q]) /\ call'[q] = call[q] /\ call[q].kind \in Kind
      BY <1>1, <1>2, <2>3, Types DEF Vacant, IInv, CallState
    <3> QED
      BY <2>3, <3>1 DEF Vacancy
  <2> QED
    BY <2>1, <2>2, <2>3
<1>5. Found'
  <2> SUFFICES ASSUME NEW s \in Session, session'[s].open
               PROVE  \/ \E k \in Kind : registry'[k] = s
                      \/ \E q \in Proc : call'[q].at \in Holding /\ s \in call'[q].hand
    BY DEF Found
  <2>1. session[s].open
    OBVIOUS
  <2>2. CASE \E k \in Kind : registry[k] = s
    BY <1>1, <2>2
  <2>3. ASSUME NEW q \in Proc, call[q].at \in Holding, s \in call[q].hand
        PROVE  \/ \E k \in Kind : registry'[k] = s
               \/ \E r \in Proc : call'[r].at \in Holding /\ s \in call'[r].hand
    BY <1>1, <2>3
  <2> QED
    BY <1>2, <2>1, <2>2, <2>3 DEF Found
<1> QED
  BY <1>3, <1>4, <1>5 DEF Maps

\* The cases of MapStep in which the maps stay as they are.
LEMMA IdleMapStep ==
  ASSUME OneController, IInv, Maps, NEW p \in Proc, NEW c \in CallState,
         call' = [call EXCEPT ![p] = c], OpensNone, UNCHANGED registry,
         call[p].at \notin Holding, c.at \notin Holding, UsesOwnKind(c),
         c.at = "make" => registry[c.kind] = None /\ c.name # "create"
  PROVE  Maps'
<1>1. RegistersOwn(p) /\ VacancyNext(c) /\ DropsNone(p, c)
  BY DEF RegistersOwn, VacancyNext, DropsNone, Holding
<1> QED
  BY <1>1, MapStep

LEMMA ControlMaps ==
  ASSUME OneController, IInv, Maps, NEW p \in Proc, Control(p)
  PROVE  Maps'
<1>1. /\ TypeOK /\ call[p] \in CallState /\ GoodCall(p, call[p])
      /\ registry \in [Kind -> Session \cup {None}] /\ session \in [Session -> SessionState]
      /\ Kinds /\ Vacancy(call[p]) /\ Found
  BY Types DEF IInv, Calls, Maps, Vacant
<1>2. /\ call[p].kind \in Kind /\ call[p].hand \in SUBSET Session
      /\ registry[call[p].kind] \in Session \cup {None} /\ Registered \in SUBSET Session
      /\ None \notin Session
  <2>1. call[p].kind \in Kind /\ call[p].hand \in SUBSET Session
    BY <1>1 DEF CallState
  <2> QED
    BY <1>1, <2>1, Constants DEF Registered
<1>3. OpensNone
  <2>1. CASE session' = session
    BY <2>1 DEF OpensNone
  <2>2. ASSUME NEW s \in Session, session' = [session EXCEPT ![s] = Closed]
        PROVE  OpensNone
    BY <1>1, <2>2, ClosedSession DEF OpensNone
  <2> QED
    BY <2>1, <2>2, ControlState
<1>4. ASSUME Return(p), UNCHANGED registry, call[p].at \notin Holding
      PROVE  Maps'
  BY <1>1, <1>3, <1>4, ReturnCall, IdleMapStep DEF Idle, Holding, UsesOwnKind
<1>5. CASE Begin(p)
  <2>1. PICK name \in Using \cup (IF p \in Controllers THEN Owning ELSE {}),
             kind \in Kind, mode \in Modes :
           /\ name \in {"add", "delete", "closeAll"} => kind = "lists"
           /\ call' = [call EXCEPT ![p] = [Idle EXCEPT !.at = "begin",
                                           !.name = name, !.kind = kind, !.mode = mode]]
    BY <1>5 DEF Begin
  <2> DEFINE c == [Idle EXCEPT !.at = "begin", !.name = name, !.kind = kind, !.mode = mode]
  <2>2. c.at = "begin"
    BY DEF Idle
  <2>3. c \in CallState
    BY IdleCall DEF CallState, Places
  <2>4. call' = [call EXCEPT ![p] = c]
    BY <2>1
  <2> HIDE DEF c
  <2>5. call[p].at = "idle" /\ UNCHANGED registry
    BY <1>5 DEF Begin, At
  <2> QED
    BY <1>3, <2>2, <2>3, <2>4, <2>5, IdleMapStep DEF Holding, UsesOwnKind
<1>6. CASE OpenLookUp(p)
  <2>1. call[p].at = "begin" /\ call[p].name = "open"
    BY <1>6 DEF OpenLookUp, Is, At
  <2> DEFINE s == registry[call[p].kind]
  <2>2. CASE s # None /\ GotoWith(p, "info", {s}) /\ UNCHANGED registry
    <3>1. "info" \in Places /\ {s} \in SUBSET Session
      BY <1>2, <2>2 DEF Places
    <3>2. PICK c \in CallState :
           /\ call' = [call EXCEPT ![p] = c] /\ c.at = "info"
           /\ c.name = call[p].name /\ c.kind = call[p].kind /\ c.hand = {s}
      BY <1>1, <2>2, <3>1, GotoWithCall
    <3> QED
      BY <1>3, <2>1, <2>2, <3>2, IdleMapStep DEF Holding, UsesOwnKind
  <2>3. CASE /\ s # None /\ GotoWith(p, "closeOld", {s})
             /\ registry' = [registry EXCEPT ![call[p].kind] = None]
    <3>1. "closeOld" \in Places /\ {s} \in SUBSET Session
      BY <1>2, <2>3 DEF Places
    <3>2. PICK c \in CallState :
           /\ call' = [call EXCEPT ![p] = c] /\ c.at = "closeOld"
           /\ c.name = call[p].name /\ c.kind = call[p].kind /\ c.hand = {s}
      BY <1>1, <2>3, <3>1, GotoWithCall
    <3>3. \A k \in Kind : registry'[k] = IF k = call[p].kind THEN None ELSE registry[k]
      BY <1>1, <2>3
    <3>4. ASSUME NEW t \in Session, NEW k \in Kind, registry[k] = t
          PROVE  registry'[k] = t \/ t \in c.hand
      BY <3>2, <3>3, <3>4
    <3> HIDE DEF s
    <3>5. c.at \in Holding /\ call[p].at \notin Holding
      BY <2>1, <3>2 DEF Holding
    <3>6. \A k \in Kind : registry'[k] \in {registry[k], None}
      BY <3>3
    <3>7. \A k \in Kind, t \in Session : registry'[k] = t => registry[k] = t
      BY <1>2, <3>3
    <3>8. registry'[c.kind] = None
      BY <1>2, <3>2, <3>3
    <3>9. RegistersOwn(p) /\ UsesOwnKind(c) /\ VacancyNext(c) /\ DropsNone(p, c)
      BY <2>1, <3>2, <3>4, <3>5, <3>6, <3>7, <3>8 DEF RegistersOwn, UsesOwnKind, VacancyNext, DropsNone
    <3> QED
      BY <1>3, <3>2, <3>9, MapStep
  <2>4. CASE s = None /\ Goto(p, "make") /\ UNCHANGED registry
    <3>1. "make" \in Places
      BY DEF Places
    <3>2. PICK c \in CallState :
           /\ call' = [call EXCEPT ![p] = c] /\ c.at = "make"
           /\ c.name = call[p].name /\ c.kind = call[p].kind /\ c.hand = call[p].hand
      BY <1>1, <2>4, <3>1, GotoCall
    <3> QED
      BY <1>3, <2>1, <2>4, <3>2, IdleMapStep DEF Holding, UsesOwnKind
  <2> QED
    BY <1>6, <2>2, <2>3, <2>4 DEF OpenLookUp
<1>7. CASE CloseOld(p)
  <2>1. /\ call[p].at = "closeOld" /\ GotoWith(p, "make", {}) /\ UNCHANGED registry
        /\ "make" \in Places /\ {} \in SUBSET Session
    BY <1>7 DEF CloseOld, At, Places
  <2>2. PICK s \in Session : call[p].hand = {s}
    BY <1>1, <2>1 DEF GoodCall
  <2>3. session' = [session EXCEPT ![s] = Closed]
    BY <1>7, <2>2 DEF CloseOld, Close
  <2>4. PICK c \in CallState :
           /\ call' = [call EXCEPT ![p] = c] /\ c.at = "make"
           /\ c.name = call[p].name /\ c.kind = call[p].kind /\ c.hand = {}
    BY <1>1, <2>1, GotoWithCall
  <2>5. ~session'[s].open
    BY <1>1, <2>3, ClosedSession
  <2>6. registry[c.kind] = None /\ c.name # "create"
    BY <1>1, <2>1, <2>4 DEF Vacancy
  <2>7. RegistersOwn(p) /\ UsesOwnKind(c) /\ VacancyNext(c) /\ DropsNone(p, c)
    BY <2>1, <2>2, <2>4, <2>5, <2>6 DEF At, RegistersOwn, UsesOwnKind, VacancyNext, DropsNone
  <2> QED
    BY <1>3, <2>4, <2>7, MapStep
<1>8. CASE CreateLock(p)
  <2>1. /\ call[p].at = "begin" /\ call[p].name = "create" /\ GotoWith(p, "evict", Registered)
        /\ registry' = [k \in Kind |-> None] /\ "evict" \in Places
    BY <1>8 DEF CreateLock, Is, At, Places
  <2>2. PICK c \in CallState :
           /\ call' = [call EXCEPT ![p] = c] /\ c.at = "evict"
           /\ c.name = call[p].name /\ c.kind = call[p].kind /\ c.hand = Registered
    BY <1>1, <1>2, <2>1, GotoWithCall
  <2>3. \A k \in Kind : registry'[k] = None
    BY <2>1
  <2>4. ASSUME NEW t \in Session, NEW k \in Kind, registry[k] = t PROVE t \in c.hand
    BY <1>2, <2>2, <2>4 DEF Registered
  <2>5. c.at \in Holding /\ call[p].at \notin Holding
    BY <2>1, <2>2 DEF Holding
  <2>6. RegistersOwn(p) /\ UsesOwnKind(c) /\ VacancyNext(c) /\ DropsNone(p, c)
    BY <1>2, <2>1, <2>2, <2>3, <2>4, <2>5 DEF RegistersOwn, UsesOwnKind, VacancyNext, DropsNone
  <2> QED
    BY <1>3, <2>2, <2>6, MapStep
<1>9. CASE Evict(p)
  <2>1. call[p].at = "evict" /\ UNCHANGED registry /\ {"evict", "make"} \subseteq Places
    BY <1>9 DEF Evict, At, Places
  <2>2. call[p].name = "create" /\ \A k \in Kind : registry[k] = None
    BY <1>1, <2>1 DEF Vacancy
  <2>3. ASSUME NEW s \in call[p].hand, Close(s), GotoWith(p, "evict", call[p].hand \ {s})
        PROVE  Maps'
    <3>1. call[p].hand \ {s} \in SUBSET Session /\ s \in Session
      BY <1>2
    <3>2. PICK c \in CallState :
           /\ call' = [call EXCEPT ![p] = c] /\ c.at = "evict"
           /\ c.name = call[p].name /\ c.kind = call[p].kind /\ c.hand = call[p].hand \ {s}
      BY <1>1, <2>1, <2>3, <3>1, GotoWithCall
    <3>3. ~session'[s].open
      BY <1>1, <2>3, <3>1, ClosedSession DEF Close
    <3>4. c.at \in Holding
      BY <3>2 DEF Holding
    <3>5. RegistersOwn(p) /\ UsesOwnKind(c) /\ VacancyNext(c) /\ DropsNone(p, c)
      BY <1>2, <2>1, <2>2, <3>2, <3>3, <3>4 DEF RegistersOwn, UsesOwnKind, VacancyNext, DropsNone
    <3> QED
      BY <1>3, <3>2, <3>5, MapStep
  <2>4. ASSUME call[p].hand = {}, Goto(p, "make") PROVE Maps'
    <3>1. PICK c \in CallState :
           /\ call' = [call EXCEPT ![p] = c] /\ c.at = "make"
           /\ c.name = call[p].name /\ c.kind = call[p].kind /\ c.hand = call[p].hand
      BY <1>1, <2>1, <2>4, GotoCall
    <3>2. RegistersOwn(p) /\ UsesOwnKind(c) /\ VacancyNext(c) /\ DropsNone(p, c)
      BY <1>2, <2>1, <2>2, <2>4, <3>1 DEF RegistersOwn, UsesOwnKind, VacancyNext, DropsNone
    <3> QED
      BY <1>3, <3>1, <3>2, MapStep
  <2> QED
    BY <1>9, <2>3, <2>4 DEF Evict
<1>10. CASE Register(p)
  <2>1. call[p].at = "register" /\ Goto(p, "info") /\ "info" \in Places
    BY <1>10 DEF Register, At, Places
  <2>2. PICK s \in Session : call[p].hand = {s}
    BY <1>1, <2>1 DEF GoodCall
  <2>3. registry' = [registry EXCEPT ![call[p].kind] = s]
    BY <1>10, <2>2 DEF Register
  <2>4. PICK c \in CallState :
           /\ call' = [call EXCEPT ![p] = c] /\ c.at = "info"
           /\ c.name = call[p].name /\ c.kind = call[p].kind /\ c.hand = call[p].hand
    BY <1>1, <2>1, GotoCall
  <2>5. registry[call[p].kind] = None
    BY <1>1, <2>1 DEF Vacancy
  <2>6. \A k \in Kind : registry'[k] = IF k = call[p].kind THEN s ELSE registry[k]
    BY <1>1, <2>3
  <2>7. \A k \in Kind, t \in Session : registry'[k] = t /\ registry[k] # t =>
            t = s /\ k = call[p].kind
    BY <2>6
  <2>8. \A t \in Session : (\E k \in Kind : registry[k] = t) \/ t = s =>
                              \E k \in Kind : registry'[k] = t
    BY <1>2, <2>5, <2>6
  <2>9. RegistersOwn(p) /\ UsesOwnKind(c) /\ VacancyNext(c) /\ DropsNone(p, c)
    BY <2>1, <2>2, <2>4, <2>7, <2>8 DEF At, RegistersOwn, UsesOwnKind, VacancyNext, DropsNone
  <2> QED
    BY <1>3, <2>4, <2>9, MapStep
<1>11. CASE Info(p)
  <2>1. Return(p) /\ UNCHANGED registry /\ call[p].at = "info"
    BY <1>11 DEF Info, At
  <2> QED
    BY <1>4, <2>1 DEF Holding
<1>12. CASE CloseTake(p)
  <2>1. /\ call[p].at = "begin" /\ "closeEach" \in Places
        /\ GotoWith(p, "closeEach", {registry[call[p].kind]} \ {None})
        /\ registry' = [registry EXCEPT ![call[p].kind] = None]
    BY <1>12 DEF CloseTake, Is, At, Places
  <2>2. {registry[call[p].kind]} \ {None} \in SUBSET Session
    BY <1>2
  <2>3. PICK c \in CallState :
           /\ call' = [call EXCEPT ![p] = c] /\ c.at = "closeEach"
           /\ c.name = call[p].name /\ c.kind = call[p].kind
           /\ c.hand = {registry[call[p].kind]} \ {None}
    BY <1>1, <2>1, <2>2, GotoWithCall
  <2>4. \A k \in Kind : registry'[k] = IF k = call[p].kind THEN None ELSE registry[k]
    BY <1>1, <2>1
  <2>5. \A k \in Kind, t \in Session : registry[k] = t => registry'[k] = t \/ t \in c.hand
    BY <1>2, <2>3, <2>4
  <2>6. \A k \in Kind : registry'[k] \in {registry[k], None}
    BY <2>4
  <2>7. \A k \in Kind, t \in Session : registry'[k] = t => registry[k] = t
    BY <1>2, <2>4
  <2>8. c.at \in Holding /\ call[p].at \notin Holding
    BY <2>1, <2>3 DEF Holding
  <2>9. RegistersOwn(p) /\ UsesOwnKind(c) /\ VacancyNext(c) /\ DropsNone(p, c)
    BY <2>3, <2>5, <2>6, <2>7, <2>8 DEF RegistersOwn, UsesOwnKind, VacancyNext, DropsNone
  <2> QED
    BY <1>3, <2>3, <2>9, MapStep
<1>13. CASE CloseAllTake(p)
  <2>1. /\ call[p].at = "begin" /\ GotoWith(p, "closeEach", Registered)
        /\ registry' = [k \in Kind |-> None] /\ "closeEach" \in Places
    BY <1>13 DEF CloseAllTake, Is, At, Places
  <2>2. PICK c \in CallState :
           /\ call' = [call EXCEPT ![p] = c] /\ c.at = "closeEach"
           /\ c.name = call[p].name /\ c.kind = call[p].kind /\ c.hand = Registered
    BY <1>1, <1>2, <2>1, GotoWithCall
  <2>3. \A k \in Kind : registry'[k] = None
    BY <2>1
  <2>4. ASSUME NEW t \in Session, NEW k \in Kind, registry[k] = t PROVE t \in c.hand
    BY <1>2, <2>2, <2>4 DEF Registered
  <2>5. c.at \in Holding /\ call[p].at \notin Holding
    BY <2>1, <2>2 DEF Holding
  <2>6. RegistersOwn(p) /\ UsesOwnKind(c) /\ VacancyNext(c) /\ DropsNone(p, c)
    BY <1>2, <2>2, <2>3, <2>4, <2>5 DEF RegistersOwn, UsesOwnKind, VacancyNext, DropsNone
  <2> QED
    BY <1>3, <2>2, <2>6, MapStep
<1>14. CASE CloseEach(p)
  <2>1. call[p].at = "closeEach" /\ UNCHANGED registry /\ "closeEach" \in Places
    BY <1>14 DEF CloseEach, At, Places
  <2>2. ASSUME NEW s \in call[p].hand, Close(s), GotoWith(p, "closeEach", call[p].hand \ {s})
        PROVE  Maps'
    <3>1. call[p].hand \ {s} \in SUBSET Session /\ s \in Session
      BY <1>2
    <3>2. PICK c \in CallState :
           /\ call' = [call EXCEPT ![p] = c] /\ c.at = "closeEach"
           /\ c.name = call[p].name /\ c.kind = call[p].kind /\ c.hand = call[p].hand \ {s}
      BY <1>1, <2>1, <2>2, <3>1, GotoWithCall
    <3>3. ~session'[s].open
      BY <1>1, <2>2, <3>1, ClosedSession DEF Close
    <3>4. c.at \in Holding
      BY <3>2 DEF Holding
    <3>5. RegistersOwn(p) /\ UsesOwnKind(c) /\ VacancyNext(c) /\ DropsNone(p, c)
      BY <1>2, <2>1, <3>2, <3>3, <3>4 DEF RegistersOwn, UsesOwnKind, VacancyNext, DropsNone
    <3> QED
      BY <1>3, <3>2, <3>5, MapStep
  <2>3. ASSUME call[p].hand = {}, Return(p) PROVE Maps'
    <3>1. RegistersOwn(p) /\ UsesOwnKind(Idle) /\ VacancyNext(Idle) /\ DropsNone(p, Idle)
      BY <1>2, <2>1, <2>3 DEF Idle, RegistersOwn, UsesOwnKind, VacancyNext, DropsNone, Holding
    <3> QED
      BY <1>1, <1>3, <2>3, <3>1, ReturnCall, MapStep
  <2> QED
    BY <1>14, <2>2, <2>3 DEF CloseEach
<1>15. CASE LookUp(p)
  <2>1. call[p].at = "begin" /\ UNCHANGED <<registry, session>> /\ "lock" \in Places
    BY <1>15 DEF LookUp, At, Places
  <2> DEFINE s == registry[call[p].kind]
  <2>2. CASE s # None /\ GotoWith(p, "lock", {s})
    <3>1. {s} \in SUBSET Session
      BY <1>2, <2>2
    <3>2. PICK c \in CallState :
           /\ call' = [call EXCEPT ![p] = c] /\ c.at = "lock"
           /\ c.name = call[p].name /\ c.kind = call[p].kind /\ c.hand = {s}
      BY <1>1, <2>1, <2>2, <3>1, GotoWithCall
    <3>3. \A t \in Session : t \in c.hand /\ session'[t].open => session[t].kind = c.kind
      BY <1>1, <1>2, <2>1, <3>2 DEF Kinds
    <3> QED
      BY <1>3, <2>1, <3>2, <3>3, IdleMapStep DEF Holding, UsesOwnKind
  <2>3. CASE Return(p)
    BY <1>4, <2>1, <2>3 DEF Holding
  <2> QED
    BY <1>15, <2>2, <2>3 DEF LookUp
<1> QED
  BY <1>5, <1>6, <1>7, <1>8, <1>9, <1>10, <1>11, <1>12, <1>13, <1>14, <1>15 DEF Control

LEMMA ControlSafe ==
  ASSUME OneController, SInv, NEW p \in Proc, Control(p)
  PROVE  SInv'
<1>1. IInv /\ Maps /\ Current /\ AckedKept /\ session \in [Session -> SessionState]
  BY Types DEF SInv, IInv
<1>2. UNCHANGED <<file, path, acked, added>>
  BY <1>1, ControlState DEF disk
<1>3. \A t \in Session : session'[t].open => session'[t] = session[t]
  <2>1. CASE session' = session
    BY <2>1
  <2>2. ASSUME NEW s \in Session, session' = [session EXCEPT ![s] = Closed]
        PROVE  \A t \in Session : session'[t].open => session'[t] = session[t]
    BY <1>1, <2>2, ClosedSession
  <2> QED
    BY <1>1, <2>1, <2>2, ControlState
<1>4. Current'
  BY <1>1, <1>2, <1>3 DEF Current, ListOpen
<1>5. AckedKept'
  BY <1>1, <1>2 DEF AckedKept
<1> QED
  BY <1>1, <1>4, <1>5, ControlKeeps, ControlMaps DEF SInv

LEMMA LockSafe ==
  ASSUME OneController, SInv, NEW p \in Proc, Lock(p)
  PROVE  SInv'
<1>1. IInv /\ Maps /\ Current /\ AckedKept
  BY DEF SInv
<1>2. call[p].at = "lock" /\ UNCHANGED <<registry, session, file, path, acked>>
  BY <1>1, LockEffect DEF At, disk
<1>3. PICK s \in Session, c \in CallState :
              /\ call[p].hand = {s} /\ mu[s] = None /\ mu' = [mu EXCEPT ![s] = p]
              /\ call' = [call EXCEPT ![p] = c] /\ c.at = "work" /\ c.hand = {s}
              /\ c.name = call[p].name /\ c.kind = call[p].kind
  BY <1>1, LockEffect
<1>4. Maps'
  <2>1. UsesOwnKind(c)
    BY <1>1, <1>2, <1>3 DEF UsesOwnKind, Maps, Kinds
  <2>2. OpensNone
    BY <1>2 DEF OpensNone
  <2> QED
    BY <1>1, <1>2, <1>3, <2>1, <2>2, IdleMapStep DEF Holding
<1>5. Current' /\ AckedKept'
  BY <1>1, <1>2 DEF Current, ListOpen, AckedKept
<1> QED
  BY <1>1, <1>4, <1>5, LockKeeps DEF SInv

\* The session a call works on, when it is open, is of the call's kind.
LEMMA WorksOnOwnKind ==
  ASSUME Maps, NEW p \in Proc, NEW s \in Session, At(p, "work"), call[p].hand = {s},
         session[s].open
  PROVE  session[s].kind = call[p].kind
  BY DEF Maps, Kinds, At

LEMMA WorkSafe ==
  ASSUME OneController, SInv, NEW p \in Proc, Work(p)
  PROVE  SInv'
<1>1. /\ IInv /\ Maps /\ Current /\ AckedKept /\ session \in [Session -> SessionState]
      /\ file \in [Inode -> Seq(0 .. MaxAdds)] /\ path \in Inode
  BY Types DEF SInv, IInv
<1>2. /\ call[p].at = "work" /\ At(p, "work") /\ UNCHANGED registry
      /\ call' = [call EXCEPT ![p] = Idle]
  BY <1>1, WorkEffect DEF At
<1>3. PICK s \in Session :
              /\ call[p].hand = {s} /\ mu' = [mu EXCEPT ![s] = None]
              /\ \/ UNCHANGED <<session, disk>>
                 \/ /\ session[s].open /\ call[p].kind = "lists"
                    /\ Add(s) \/ Delete(s)
  BY <1>1, WorkEffect
<1>4. ASSUME OpensNone PROVE Maps'
  BY <1>1, <1>2, <1>4, IdleCall, IdleMapStep DEF Holding, Idle, UsesOwnKind
<1>5. CASE UNCHANGED <<session, disk>>
  BY <1>1, <1>4, <1>5, WorkKeeps DEF SInv, disk, OpensNone, Current, ListOpen, AckedKept
<1>6. ASSUME session[s].open, call[p].kind = "lists", Add(s) \/ Delete(s)
      PROVE  SInv'
  <2>1. ListOpen(s)
    BY <1>1, <1>2, <1>3, <1>6, WorksOnOwnKind DEF ListOpen
  <2>2. /\ session[s].file = path /\ session[s].size = Len(file[path])
        /\ \A t \in Session : ListOpen(t) => t = s
    BY <1>1, <2>1 DEF Current
  <2>3. Seen(s) = file[path]
    <3>1. /\ Seen(s) \in Seq(0 .. MaxAdds) /\ Len(Seen(s)) = Len(file[path])
          /\ \A i \in 1 .. Len(file[path]) :
               Seen(s)[i] = IF i <= Len(file[path]) THEN file[path][i] ELSE 0
      BY <1>1, <2>2, SeenList
    <3>2. file[path] \in Seq(0 .. MaxAdds)
      BY <1>1
    <3>3. \A i \in 1 .. Len(file[path]) : Seen(s)[i] = file[path][i]
      BY <3>1, <3>2
    <3> QED
      BY <3>1, <3>2, <3>3, SeqEqual
  <2>4. ASSUME NEW w \in SessionState, session' = [session EXCEPT ![s] = w],
               w.open = session[s].open, w.kind = session[s].kind,
               w.file = path', w.size = Len(file'[path'])
        PROVE  OpensNone /\ Current'
    <3>1. \A t \in Session : session'[t] = IF t = s THEN w ELSE session[t]
      BY <1>1, <2>4
    <3>2. OpensNone
      BY <2>4, <3>1 DEF OpensNone
    <3>3. \A t \in Session : ListOpen(t)' => t = s
      BY <2>2, <3>1 DEF ListOpen
    <3> QED
      BY <2>4, <3>1, <3>2, <3>3 DEF Current
  <2>5. file[path] \in Seq(0 .. MaxAdds) /\ Len(file[path]) \in Nat
    BY <1>1
  <2>6. CASE Add(s)
    <3>1. PICK w \in SessionState : /\ session' = [session EXCEPT ![s] = w]
                                    /\ w.open = session[s].open /\ w.kind = session[s].kind
                                    /\ w.file = session[s].file
                                    /\ w.size = session[s].size + 1 /\ w.size <= added'
      BY <1>1, <2>6, AddTypes
    <3>2. /\ path' = path /\ added' \in 0 .. MaxAdds /\ acked' = acked \cup {added'}
          /\ file'[path] = Append(file[path], added')
      BY <1>1, <2>2, <2>3, <2>6, AddTypes
    <3> DEFINE g == Append(file[path], added')
    <3>3. /\ Len(g) = Len(file[path]) + 1 /\ g[Len(file[path]) + 1] = added'
          /\ \A i \in 1 .. Len(file[path]) : g[i] = file[path][i]
          /\ DOMAIN g = 1 .. Len(file[path]) + 1
      BY <2>5, <3>2
    <3>4. DOMAIN file[path] = 1 .. Len(file[path])
      BY <2>5
    <3>5. file'[path'] = g
      BY <3>2
    <3> HIDE DEF g
    <3>6. AckedKept'
      <4> SUFFICES ASSUME NEW b \in acked' PROVE \E i \in DOMAIN g : g[i] = b
        BY <3>5 DEF AckedKept
      <4>1. CASE b = added'
        <5>1. Len(file[path]) + 1 \in DOMAIN g
          BY <2>5, <3>3
        <5> QED
          BY <3>3, <4>1, <5>1
      <4>2. CASE b \in acked
        <5>1. PICK i \in 1 .. Len(file[path]) : file[path][i] = b
          BY <1>1, <3>4, <4>2 DEF AckedKept
        <5>2. i \in DOMAIN g
          BY <2>5, <3>3
        <5> QED
          BY <3>3, <5>1, <5>2
      <4> QED
        BY <3>2, <4>1, <4>2
    <3>7. w.file = path' /\ w.size = Len(file'[path'])
      BY <2>2, <3>1, <3>2, <3>3, <3>5
    <3>8. OpensNone /\ Current'
      BY <2>4, <3>1, <3>7
    <3> QED
      BY <1>1, <1>4, <3>6, <3>8, WorkKeeps DEF SInv
  <2>7. CASE Delete(s)
    <3>1. PICK i \in 1 .. session[s].size, fresh \in Inode, w \in SessionState :
           /\ session' = [session EXCEPT ![s] = w]
           /\ w.open = session[s].open /\ w.kind = session[s].kind
           /\ w.file = fresh /\ w.size = session[s].size - 1
           /\ path' = fresh /\ added' = added /\ acked' = acked \ {Seen(s)[i]}
           /\ file' \in [Inode -> Seq(0 .. MaxAdds)]
           /\ file'[fresh] = RemoveAt(Seen(s), i)
           /\ \A j \in Inode : Len(file'[j]) <= added
      BY <1>1, <2>7, DeleteTypes
    <3> DEFINE g == RemoveAt(file[path], i)
    <3>2. i \in 1 .. Len(file[path])
      BY <2>2
    <3>3. g \in Seq(0 .. MaxAdds) /\ Len(g) = Len(file[path]) - 1
      BY <2>5, <3>2, RemoveOne
    <3>4. file'[path'] = g /\ acked' = acked \ {file[path][i]}
      BY <2>3, <3>1
    <3>5. DOMAIN file[path] = 1 .. Len(file[path]) /\ DOMAIN g = 1 .. Len(file[path]) - 1
      BY <2>5, <3>3, LenProperties
    <3>6. AckedKept'
      <4> SUFFICES ASSUME NEW b \in acked' PROVE \E j \in DOMAIN g : g[j] = b
        BY <3>4 DEF AckedKept
      <4>1. PICK k \in 1 .. Len(file[path]) : file[path][k] = b
        BY <1>1, <3>4, <3>5 DEF AckedKept
      <4>2. k # i
        BY <3>4, <4>1
      <4>3. \E j \in 1 .. Len(file[path]) - 1 : g[j] = file[path][k]
        BY <2>5, <3>2, <4>2, RemoveKeepsOthers
      <4> QED
        BY <3>5, <4>1, <4>3
    <3>7. w.file = path' /\ w.size = Len(file'[path'])
      BY <2>2, <3>1, <3>3, <3>4
    <3>8. OpensNone /\ Current'
      BY <2>4, <3>1, <3>7
    <3> QED
      BY <1>1, <1>4, <3>6, <3>8, WorkKeeps DEF SInv
  <2> QED
    BY <1>6, <2>6, <2>7
<1> QED
  BY <1>3, <1>5, <1>6

\* The only step that opens a session. No list is open on the path then: it would be
\* in the map, or with a call of the one controller, and that call is this one.
LEMMA MakeSafe ==
  ASSUME OneController, SInv, NEW p \in Proc, Make(p)
  PROVE  SInv'
<1>1. /\ IInv /\ Maps /\ Current /\ AckedKept /\ session \in [Session -> SessionState]
      /\ file \in [Inode -> Seq(0 .. MaxAdds)] /\ path \in Inode
      /\ call \in [Proc -> CallState] /\ registry \in [Kind -> Session \cup {None}]
      /\ Kinds /\ Vacant /\ Found /\ Calls
  BY Types DEF SInv, IInv, Maps
<1>2. /\ call[p].at = "make" /\ call[p].hand = {} /\ UNCHANGED <<mu, registry, added>>
      /\ Vacancy(call[p]) /\ call[p].kind \in Kind
  BY <1>1, MakeEffect DEF At, Vacant, CallState
<1>3. \A q \in Proc : call[q].at \in OwnerPlaces => q = p
  <2>1. p \in Controllers
    BY <1>1, <1>2 DEF Calls, GoodCall, OwnerPlaces
  <2> QED
    BY <1>1, <2>1, Constants DEF Calls, GoodCall, OneController
<1>4. \A t \in Session : session[t].open => \E k \in Kind : registry[k] = t
  BY <1>1, <1>2, <1>3 DEF Found, Holding, OwnerPlaces
<1>5. ASSUME NEW t \in Session, ListOpen(t)
      PROVE  call[p].name # "create" /\ call[p].kind # "lists"
  <2>1. PICK k \in Kind : registry[k] = t
    BY <1>4, <1>5 DEF ListOpen
  <2>2. k = "lists"
    BY <1>1, <1>5, <2>1 DEF Kinds, ListOpen
  <2> QED
    BY <1>2, <2>1, <2>2, Constants DEF Vacancy
<1>6. CASE /\ call' = [call EXCEPT ![p] = Idle] /\ UNCHANGED session
           /\ UNCHANGED <<file, path, acked>> \/ Spoils(p)
  <2>1. UsesOwnKind(Idle) /\ OpensNone
    BY <1>6 DEF UsesOwnKind, OpensNone, Idle
  <2>2. Maps'
    BY <1>1, <1>2, <1>6, <2>1, IdleCall, IdleMapStep DEF Idle, Holding
  <2>3. Current' /\ AckedKept'
    <3>1. CASE UNCHANGED <<file, path, acked>>
      BY <1>1, <1>6, <3>1 DEF Current, ListOpen, AckedKept
    <3>2. CASE Spoils(p)
      <4>1. \A t \in Session : ~ListOpen(t)'
        BY <1>6, <1>5, <3>2 DEF Spoils, ListOpen
      <4> QED
        BY <3>2, <4>1 DEF Spoils, Current, AckedKept
    <3> QED
      BY <1>6, <3>1, <3>2
  <2> QED
    BY <1>1, <2>2, <2>3, MakeKeeps DEF SInv
<1>7. ASSUME NEW s \in Session, NEW v \in SessionState, NEW c \in CallState,
             Unused(s), session' = [session EXCEPT ![s] = v],
             v.open, v.kind = call[p].kind,
             v.kind = "lists" => v.file = path /\ v.size = Len(file'[path]),
             call' = [call EXCEPT ![p] = c], c.at = "register", c.hand = {s},
             c.name = call[p].name, c.kind = call[p].kind, UNCHANGED path,
             \/ /\ call[p].name = "create"
                /\ file' = [file EXCEPT ![path] = << >>] /\ acked' = {}
             \/ call[p].name # "create" /\ UNCHANGED <<file, acked>>
      PROVE  SInv'
  <2>1. \A t \in Session : session'[t] = IF t = s THEN v ELSE session[t]
    BY <1>1, <1>7
  <2>2. \A q \in Proc : call'[q] = IF q = p THEN c ELSE call[q]
    BY <1>1, <1>7
  <2>3. /\ \A k \in Kind : registry[k] # s
        /\ \A q \in Proc : s \notin call[q].hand
    BY <1>7, Constants DEF Unused, Registered
  <2>4. Kinds'
    <3>1. ASSUME NEW k \in Kind, NEW t \in Session, registry'[k] = t, session'[t].open
          PROVE  session'[t].kind = k
      BY <1>1, <1>2, <2>1, <2>3, <3>1 DEF Kinds
    <3>2. ASSUME NEW q \in Proc, NEW t \in Session,
                 call'[q].at \in {"register", "lock", "work"},
                 t \in call'[q].hand, session'[t].open
          PROVE  session'[t].kind = call'[q].kind
      <4>1. CASE q = p
        BY <1>7, <2>1, <2>2, <3>2, <4>1
      <4>2. CASE q # p
        <5>1. call'[q] = call[q] /\ t # s /\ session'[t] = session[t]
          BY <2>1, <2>2, <2>3, <3>2, <4>2
        <5> QED
          BY <1>1, <3>2, <5>1 DEF Kinds
      <4> QED
        BY <4>1, <4>2
    <3> QED
      BY <3>1, <3>2 DEF Kinds
  <2>5. Vacant'
    <3> SUFFICES ASSUME NEW q \in Proc PROVE Vacancy(call[q])'
      BY DEF Vacant
    <3>1. CASE q = p
      BY <1>2, <1>7, <2>2, <3>1 DEF Vacancy
    <3>2. CASE q # p
      BY <1>1, <1>2, <2>2, <3>2 DEF Vacancy, Vacant
    <3> QED
      BY <3>1, <3>2
  <2>6. Found'
    <3> SUFFICES ASSUME NEW t \in Session, session'[t].open
                 PROVE  \/ \E k \in Kind : registry'[k] = t
                        \/ \E q \in Proc : call'[q].at \in Holding /\ t \in call'[q].hand
      BY DEF Found
    <3>1. CASE t = s
      BY <1>7, <2>2, <3>1 DEF Holding
    <3>2. CASE t # s
      BY <1>2, <1>4, <2>1, <3>2
    <3> QED
      BY <3>1, <3>2
  <2>8. Current'
    <3>1. ASSUME NEW t \in Session, ListOpen(t)'
          PROVE  session'[t].file = path' /\ session'[t].size = Len(file'[path'])
      <4>1. CASE t = s
        BY <1>2, <1>7, <2>1, <3>1, <4>1 DEF ListOpen
      <4>2. CASE t # s
        <5>1. ListOpen(t) /\ session'[t] = session[t]
          BY <2>1, <3>1, <4>2 DEF ListOpen
        <5>2. file' = file
          BY <1>5, <1>7, <5>1
        <5> QED
          BY <1>1, <1>2, <1>7, <5>1, <5>2 DEF Current
      <4> QED
        BY <4>1, <4>2
    <3>2. ASSUME NEW t \in Session, NEW u \in Session, ListOpen(t)', ListOpen(u)'
          PROVE  t = u
      <4>1. \A r \in Session : ListOpen(r)' => r = s \/ ListOpen(r)
        BY <2>1 DEF ListOpen
      <4>2. ListOpen(s)' => call[p].kind = "lists"
        BY <1>7, <2>1 DEF ListOpen
      <4>3. CASE t = s \/ u = s
        BY <1>5, <3>2, <4>1, <4>2, <4>3
      <4>4. CASE t # s /\ u # s
        BY <1>1, <3>2, <4>1, <4>4 DEF Current
      <4> QED
        BY <4>3, <4>4
    <3> QED
      BY <3>1, <3>2 DEF Current
  <2>9. AckedKept'
    BY <1>1, <1>2, <1>7 DEF AckedKept
  <2> QED
    BY <1>1, <2>4, <2>5, <2>6, <2>8, <2>9, MakeKeeps DEF SInv, Maps
<1> QED
  BY <1>1, <1>6, <1>7, MakeEffect

LEMMA SafeInitially == Init => SInv
<1> SUFFICES ASSUME Init PROVE SInv
  OBVIOUS
<1>1. /\ call = [p \in Proc |-> Idle] /\ registry = [k \in Kind |-> None]
      /\ session = [s \in Session |-> Closed] /\ acked = {}
  BY DEF Init
<1>2. \A s \in Session : ~session[s].open
  BY <1>1, ClosedSession
<1>3. Maps
  BY <1>1, <1>2 DEF Maps, Kinds, Vacant, Vacancy, Found, Idle
<1>4. Current /\ AckedKept
  BY <1>1, <1>2 DEF Current, ListOpen, AckedKept
<1> QED
  BY <1>3, <1>4, Initially DEF SInv

LEMMA SafePreserved == OneController /\ SInv /\ [Next]_vars => SInv'
<1> SUFFICES ASSUME OneController, SInv, [Next]_vars PROVE SInv'
  OBVIOUS
<1>1. CASE UNCHANGED vars
  <2>1. IInv /\ Maps /\ Current /\ AckedKept
    BY DEF SInv
  <2>2. Maps' /\ Current' /\ AckedKept'
    BY <1>1, <2>1 DEF vars, Maps, Kinds, Vacant, Vacancy, Found, Current, ListOpen, AckedKept
  <2> QED
    BY <1>1, <2>1, <2>2, Preserved DEF SInv
<1>2. CASE Next
  <2>1. PICK p \in Proc : Control(p) \/ Make(p) \/ Lock(p) \/ Work(p)
    BY <1>2, NextCases
  <2> QED
    BY <2>1, ControlSafe, MakeSafe, LockSafe, WorkSafe
<1> QED
  BY <1>1, <1>2

\* One goroutine opens, creates and closes; whatever the others do with the sessions
\* meanwhile, the maps are right about them.
THEOREM SafeInductive == OneController => (Spec => []SInv)
<1> SUFFICES ASSUME OneController PROVE Spec => []SInv
  OBVIOUS
<1>1. SInv /\ [Next]_vars => SInv'
  BY SafePreserved
<1> QED
  BY <1>1, SafeInitially, PTL DEF Spec

\* With one controller no session leaks: when no call is running, App.tables or
\* App.lists holds every session that is open, so CloseAll closes all of them.
THEOREM NothingLeaks == OneController => (Spec => []NoLeak)
<1> SUFFICES ASSUME OneController PROVE Spec => []NoLeak
  OBVIOUS
<1>1. SInv => NoLeak
  <2> SUFFICES ASSUME Found, TypeOK, Quiet, NEW s \in Session, session[s].open
               PROVE  s \in Registered
    BY DEF SInv, IInv, Maps, NoLeak
  <2>1. \A p \in Proc : call[p].at \notin Holding
    BY DEF Quiet, At, Holding
  <2>2. PICK k \in Kind : registry[k] = s
    BY <2>1 DEF Found
  <2> QED
    BY <2>2, Constants DEF Registered
<1> QED
  BY <1>1, SafeInductive, PTL

\* With one controller a blob whose AddBlob returned stays in the file at the path
\* until it is deleted or a create over the list truncates it, also one that then fails.
THEOREM AckedStays == OneController => (Spec => []AckedKept)
<1> SUFFICES ASSUME OneController PROVE Spec => []AckedKept
  OBVIOUS
<1>1. SInv => AckedKept
  BY DEF SInv
<1> QED
  BY <1>1, SafeInductive, PTL
=============================================================================
