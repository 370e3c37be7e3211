-------------------------- MODULE WholeFileProofs ---------------------------
(***************************************************************************)
(* Proofs about WholeFile: inputs survive, success tells the truth and the *)
(* editor leaves no cut file, for any number of files, names, processes    *)
(* and commands, whatever step fails and whichever process dies.           *)
(*                                                                         *)
(* The invariants of the runs speak of the beginning and the end of a      *)
(* command. What is known in between follows from the steps it still has   *)
(* to take: Makes says it of a command with an input, Pairs of rsa         *)
(* generate. Both speak of what the names of the command stand for only,   *)
(* so another process leaves them true unless it touches one of those.     *)
(***************************************************************************)
EXTENDS WholeFile, TLAPS

\* How many steps are left when the step is next.
Due(cmd, step) ==
    CASE cmd \in Gui -> [check |-> 7, open |-> 6, create |-> 5, write |-> 4][step]
      [] cmd \in Cli -> [open |-> 5, check |-> 4, create |-> 3, write |-> 2][step]
      [] cmd \in Buffer -> [open |-> 3, check |-> 3, create |-> 2, write |-> 1][step]

\* How many steps are left.
Left(r) == Len(r.steps)

\* The steps left are the last ones of the command.
Course(r) ==
    /\ Left(r) \in 1 .. Len(Steps(r.cmd))
    /\ \A i \in 1 .. Left(r) :
          r.steps[i] = Steps(r.cmd)[Len(Steps(r.cmd)) - Left(r) + i]
    /\ r.status = "ok" => Left(r) = 1

Shape(r) ==
    /\ Course(r)
    /\ Len(r.outs) = IF r.cmd = "rsaGenerate" THEN 2 ELSE 1
    /\ r.in \in r.names /\ \A i \in 1 .. Len(r.outs) : r.outs[i] \in r.names
    /\ r.cmd \in Gui \cup Cli => r.in # r.outs[1]
    /\ r.cmd \notin Gui \cup Cli => r.force
    /\ r.cmd # "rsaGenerate" /\ Left(r) < Due(r.cmd, "open") => Readable(r.cmd, r.read)

Past(r, step) == Left(r) < Due(r.cmd, step) \/ r.status = "ok"

\* The output is not to be another name of the input.
Separate(r) == r.cmd \in Gui \cup Cli \/ (r.cmd \in Buffer /\ ~r.same /\ r.in # r.outs[1])

\* The output is as it was: it has not been created, nor has its creation failed.
Before(r) ==
    \/ Left(r) > Due(r.cmd, "create")
    \/ ~Past(r, "create") /\ r.status # "error"

\* What is known of a command with an input between its steps, from the links l and
\* the files d.
Makes(p, r, l, d) ==
    /\ Before(r) =>
         /\ ContentIn(l, d, r.in) = r.first /\ ContentIn(l, d, r.outs[1]) = r.before
         /\ r.same <=> l[r.in] # None /\ l[r.in] = l[r.outs[1]]
    /\ Past(r, "open") => r.read = r.first
    /\ Past(r, "open") /\ r.cmd \in Gui \cup Cli => r.source = l[r.in] /\ r.source # None
    /\ Past(r, "create") /\ ~Past(r, "write") /\ r.status = "running" =>
         /\ l[r.outs[1]] = r.target /\ r.target # None
         /\ ContentIn(l, d, r.outs[1]) = Plain(p)
    /\ Past(r, "write") /\ r.status # "error" =>
         ContentIn(l, d, r.outs[1]) = Output(r.cmd, r.first)
    /\ Separate(r) => /\ ContentIn(l, d, r.in) = r.first
                      /\ l[r.in] # None => l[r.in] # l[r.outs[1]]
    /\ ~r.force /\ Past(r, "check") => r.before = Nothing
    /\ r.cmd \in Gui /\ r.status = "error" =>
         \/ ContentIn(l, d, r.outs[1]) \in {r.before, Nothing, Output(r.cmd, r.first)}
         \/ r.steps[1] = "create"

\* What is known of rsa generate; the output to be made next, or last, is the first one.
Pairs(p, r, l, d) ==
    LET now == r.outs[1]
        other == r.outs[2] IN
    /\ r.status = "running" /\ Left(r) \in {1, 3} =>
         /\ l[now] = r.target /\ r.target # None /\ ContentIn(l, d, now) = Plain(p)
    /\ r.status = "running" /\ Left(r) = 2 => ContentIn(l, d, other) = Key(r.pair, "public")
    /\ r.status = "running" /\ Left(r) = 1 /\ l[now] # l[other] =>
         ContentIn(l, d, other) = Key(r.pair, "public")
    /\ r.status = "ok" =>
         /\ ContentIn(l, d, other) = Key(r.pair, "private")
         /\ l[now] # l[other] => ContentIn(l, d, now) = Key(r.pair, "public")

\* The condition of Fair, of a record.
Clean(r) == ~r.touched /\ ~(r.cmd \in Gui /\ r.same)

Good(p, r, l, d) ==
    /\ Shape(r)
    /\ Clean(r) /\ r.cmd # "rsaGenerate" => Makes(p, r, l, d)
    /\ Clean(r) /\ r.cmd = "rsaGenerate" => Pairs(p, r, l, d)

IInv == TypeOK /\ \A p \in Proc : run[p] # None => Good(p, run[p], link, data)

-----------------------------------------------------------------------------
(* The course of a command                                                 *)

\* The numbers of steps, by the kind of the command.
LEMMA Dues ==
  ASSUME NEW cmd \in Commands
  PROVE  /\ cmd \in Gui => /\ Len(Steps(cmd)) = 7 /\ Due(cmd, "check") = 7 /\ Due(cmd, "open") = 6
                           /\ Due(cmd, "create") = 5 /\ Due(cmd, "write") = 4
         /\ cmd \in Cli => /\ Len(Steps(cmd)) = 5 /\ Due(cmd, "check") = 4 /\ Due(cmd, "open") = 5
                           /\ Due(cmd, "create") = 3 /\ Due(cmd, "write") = 2
         /\ cmd \in Buffer => /\ Len(Steps(cmd)) = 3 /\ Due(cmd, "check") = 3 /\ Due(cmd, "open") = 3
                              /\ Due(cmd, "create") = 2 /\ Due(cmd, "write") = 1
         /\ cmd = "rsaGenerate" => Len(Steps(cmd)) = 4
         /\ ~(cmd \in Gui /\ cmd \in Cli) /\ ~(cmd \in Gui /\ cmd \in Buffer)
         /\ ~(cmd \in Cli /\ cmd \in Buffer)
         /\ cmd = "rsaGenerate" <=> ~(cmd \in Gui \/ cmd \in Cli \/ cmd \in Buffer)
  BY SMTT(30) DEF Commands, Gui, Cli, Buffer, Steps, Due

\* The next step, by the kind of the command and the number of steps left.
LEMMA NextStep ==
  ASSUME NEW r, r.cmd \in Commands, Course(r)
  PROVE  /\ Left(r) \in Nat /\ Left(r) > 0
         /\ r.cmd \in Gui => /\ Left(r) <= 7
                             /\ r.steps[1] = <<"check", "open", "create", "write", "sync",
                                               "close", "inspect">>[8 - Left(r)]
         /\ r.cmd \in Cli => /\ Left(r) <= 5
                             /\ r.steps[1] = <<"open", "check", "create", "write", "sync">>
                                               [6 - Left(r)]
         /\ r.cmd \in Buffer => /\ Left(r) <= 3
                                /\ r.steps[1] = <<"open", "create", "write">>[4 - Left(r)]
         /\ r.cmd = "rsaGenerate" =>
                /\ Left(r) <= 4
                /\ r.steps[1] = <<"create", "write", "create", "write">>[5 - Left(r)]
<1> DEFINE n == Left(r)
           m == Len(Steps(r.cmd))
<1>1. m \in Nat
  BY Dues
<1>2. n \in 1 .. m /\ r.steps[1] = Steps(r.cmd)[m - n + 1]
  <2>1. n \in 1 .. m /\ \A i \in 1 .. n : r.steps[i] = Steps(r.cmd)[m - n + i]
    BY DEF Course
  <2> HIDE DEF n, m
  <2>2. 1 \in 1 .. n
    BY <1>1, <2>1
  <2> QED
    BY <2>1, <2>2
<1> HIDE DEF n, m
<1>3. CASE r.cmd \in Gui
  <2>1. m = 7 /\ ~(r.cmd \in Cli) /\ ~(r.cmd \in Buffer) /\ ~(r.cmd = "rsaGenerate")
    BY <1>3, Dues DEF m
  <2>2. Steps(r.cmd) = <<"check", "open", "create", "write", "sync", "close", "inspect">>
    BY <1>3, <2>1 DEF Steps
  <2>3. m - n + 1 = 8 - n /\ n \in Nat /\ n > 0 /\ n <= 7
    BY <1>1, <1>2, <2>1
  <2> QED
    BY <1>2, <2>1, <2>2, <2>3, Zenon DEF n
<1>4. CASE r.cmd \in Cli
  <2>1. m = 5 /\ ~(r.cmd \in Gui) /\ ~(r.cmd \in Buffer) /\ ~(r.cmd = "rsaGenerate")
    BY <1>4, Dues DEF m
  <2>2. Steps(r.cmd) = <<"open", "check", "create", "write", "sync">>
    BY <1>4, <2>1 DEF Steps
  <2>3. m - n + 1 = 6 - n /\ n \in Nat /\ n > 0 /\ n <= 5
    BY <1>1, <1>2, <2>1
  <2> QED
    BY <1>2, <2>1, <2>2, <2>3, Zenon DEF n
<1>5. CASE r.cmd \in Buffer
  <2>1. m = 3 /\ ~(r.cmd \in Gui) /\ ~(r.cmd \in Cli) /\ ~(r.cmd = "rsaGenerate")
    BY <1>5, Dues DEF m
  <2>2. Steps(r.cmd) = <<"open", "create", "write">>
    BY <1>5, <2>1 DEF Steps
  <2>3. m - n + 1 = 4 - n /\ n \in Nat /\ n > 0 /\ n <= 3
    BY <1>1, <1>2, <2>1
  <2> QED
    BY <1>2, <2>1, <2>2, <2>3, Zenon DEF n
<1>6. CASE r.cmd = "rsaGenerate"
  <2>1. m = 4 /\ ~(r.cmd \in Gui) /\ ~(r.cmd \in Cli) /\ ~(r.cmd \in Buffer)
    BY <1>6, Dues DEF m
  <2>2. Steps(r.cmd) = <<"create", "write", "create", "write">>
    BY <1>6, <2>1 DEF Steps
  <2>3. m - n + 1 = 5 - n /\ n \in Nat /\ n > 0 /\ n <= 4
    BY <1>1, <1>2, <2>1
  <2> QED
    BY <1>2, <2>1, <2>2, <2>3, Zenon DEF n
<1> QED
  BY <1>3, <1>4, <1>5, <1>6, Dues

\* What the order of the steps says of a command with an input, kind by kind no more.
Numbers(r) ==
    LET n == Left(r)
        c == Due(r.cmd, "create")
        o == Due(r.cmd, "open")
        w == Due(r.cmd, "write")
        k == Due(r.cmd, "check")
        step == r.steps[1] IN
    /\ n \in Nat /\ c \in Nat /\ o \in Nat /\ w \in Nat /\ k \in Nat
    /\ n >= 1 /\ w >= 1 /\ c = w + 1 /\ o > c /\ k > c
    /\ r.cmd \in Gui \cup Cli => o # k
    /\ step = "check" => n = k /\ r.cmd \in Gui \cup Cli
    /\ step = "open" => n = o
    /\ step = "create" <=> n = c
    /\ step = "write" <=> n = w
    /\ step \in {"sync", "close", "inspect"} <=> n < w
    /\ step \in {"sync", "close"} /\ r.cmd \in Gui => n > 1
    /\ step = "inspect" => n = 1

LEMMA InOrder ==
  ASSUME NEW r, r.cmd \in Commands, r.cmd # "rsaGenerate", Course(r)
  PROVE  Numbers(r)
<1> DEFINE n == Left(r)
           step == r.steps[1]
<1>1. n \in Nat /\ n > 0
  BY NextStep
<1>2. CASE r.cmd \in Gui
  <2>1. /\ n <= 7
        /\ step = <<"check", "open", "create", "write", "sync", "close", "inspect">>[8 - n]
    BY <1>2, NextStep
  <2>2. /\ Due(r.cmd, "check") = 7 /\ Due(r.cmd, "open") = 6
        /\ Due(r.cmd, "create") = 5 /\ Due(r.cmd, "write") = 4
    BY <1>2, Dues
  <2> HIDE DEF n, step
  <2>3. \/ n = 7 /\ step = "check"
        \/ n = 6 /\ step = "open"
        \/ n = 5 /\ step = "create"
        \/ n = 4 /\ step = "write"
        \/ n = 3 /\ step = "sync"
        \/ n = 2 /\ step = "close"
        \/ n = 1 /\ step = "inspect"
    BY <1>1, <2>1
  <2> QED
    <3> DEFINE c == Due(r.cmd, "create")
               o == Due(r.cmd, "open")
               w == Due(r.cmd, "write")
               k == Due(r.cmd, "check")
    <3>1. /\ n \in Nat /\ c \in Nat /\ o \in Nat /\ w \in Nat /\ k \in Nat
          /\ n >= 1 /\ w >= 1 /\ c = w + 1 /\ o > c /\ k > c /\ o # k
      BY <1>1, <2>2
    <3>2. /\ step = "check" => n = k
          /\ step = "open" => n = o
          /\ step = "create" <=> n = c
          /\ step = "write" <=> n = w
      BY <2>2, <2>3
    <3>3. /\ step \in {"sync", "close", "inspect"} <=> n < w
          /\ step \in {"sync", "close"} => n > 1
          /\ step = "inspect" => n = 1
      BY <2>2, <2>3
    <3> QED
      BY <1>2, <3>1, <3>2, <3>3 DEF Numbers, n, step
<1>3. CASE r.cmd \in Cli
  <2>1. n <= 5 /\ step = <<"open", "check", "create", "write", "sync">>[6 - n]
    BY <1>3, NextStep
  <2>2. /\ Due(r.cmd, "check") = 4 /\ Due(r.cmd, "open") = 5
        /\ Due(r.cmd, "create") = 3 /\ Due(r.cmd, "write") = 2 /\ ~(r.cmd \in Gui)
    BY <1>3, Dues
  <2> HIDE DEF n, step
  <2>3. \/ n = 5 /\ step = "open"
        \/ n = 4 /\ step = "check"
        \/ n = 3 /\ step = "create"
        \/ n = 2 /\ step = "write"
        \/ n = 1 /\ step = "sync"
    BY <1>1, <2>1
  <2> QED
    <3> DEFINE c == Due(r.cmd, "create")
               o == Due(r.cmd, "open")
               w == Due(r.cmd, "write")
               k == Due(r.cmd, "check")
    <3>1. /\ n \in Nat /\ c \in Nat /\ o \in Nat /\ w \in Nat /\ k \in Nat
          /\ n >= 1 /\ w >= 1 /\ c = w + 1 /\ o > c /\ k > c /\ o # k
      BY <1>1, <2>2
    <3>2. /\ step = "check" => n = k
          /\ step = "open" => n = o
          /\ step = "create" <=> n = c
          /\ step = "write" <=> n = w
      BY <2>2, <2>3
    <3>3. /\ step \in {"sync", "close", "inspect"} <=> n < w
          /\ step # "inspect" /\ ~(r.cmd \in Gui)
      BY <2>2, <2>3
    <3> QED
      BY <1>3, <2>2, <3>1, <3>2, <3>3 DEF Numbers, n, step
<1>4. CASE r.cmd \in Buffer
  <2>1. n <= 3 /\ step = <<"open", "create", "write">>[4 - n]
    BY <1>4, NextStep
  <2>2. /\ Due(r.cmd, "check") = 3 /\ Due(r.cmd, "open") = 3
        /\ Due(r.cmd, "create") = 2 /\ Due(r.cmd, "write") = 1
        /\ ~(r.cmd \in Gui) /\ ~(r.cmd \in Cli)
    BY <1>4, Dues
  <2> HIDE DEF n, step
  <2>3. \/ n = 3 /\ step = "open"
        \/ n = 2 /\ step = "create"
        \/ n = 1 /\ step = "write"
    BY <1>1, <2>1
  <2> QED
    <3> DEFINE c == Due(r.cmd, "create")
               o == Due(r.cmd, "open")
               w == Due(r.cmd, "write")
               k == Due(r.cmd, "check")
    <3>1. /\ n \in Nat /\ c \in Nat /\ o \in Nat /\ w \in Nat /\ k \in Nat
          /\ n >= 1 /\ w >= 1 /\ c = w + 1 /\ o > c /\ k > c
      BY <1>1, <2>2
    <3>2. /\ step # "check"
          /\ step = "open" => n = o
          /\ step = "create" <=> n = c
          /\ step = "write" <=> n = w
      BY <2>2, <2>3
    <3>3. /\ step \in {"sync", "close", "inspect"} <=> n < w
          /\ step # "inspect" /\ ~(r.cmd \in Gui)
      BY <2>2, <2>3
    <3> QED
      BY <1>4, <2>2, <3>1, <3>2, <3>3 DEF Numbers, n, step
<1> QED
  BY <1>2, <1>3, <1>4, Dues

-----------------------------------------------------------------------------
(* The record of a command                                                 *)

\* The fields that a command never changes.
SameTask(r, q) ==
    /\ q.cmd = r.cmd /\ q.in = r.in /\ q.force = r.force /\ q.pair = r.pair /\ q.names = r.names
    /\ q.first = r.first /\ q.before = r.before /\ q.same = r.same /\ q.touched = r.touched

Onward(r, q) ==
    /\ SameTask(r, q)
    /\ Course(q)
    /\ Left(r) = 1 => Left(q) = 1 /\ q.status = "ok"
    /\ Left(r) > 1 => Left(q) = Left(r) - 1 /\ q.status = "running"

\* Ending a command changes its status and nothing else.
LEMMA EndsIs ==
  ASSUME NEW p \in Proc, run[p] \in Command, NEW s \in {"ok", "error", "left"}
  PROVE  /\ Ends(p, s) \in Command /\ Ends(p, s).status = s
         /\ SameTask(run[p], Ends(p, s))
         /\ Ends(p, s).steps = run[p].steps /\ Ends(p, s).outs = run[p].outs
         /\ Ends(p, s).source = run[p].source /\ Ends(p, s).read = run[p].read
         /\ Ends(p, s).target = run[p].target
<1> DEFINE r == run[p]
           q == [r EXCEPT !.status = s]
<1>1. r \in Command
  OBVIOUS
<1>2. Ends(p, s) = q
  BY DEF Ends
<1> HIDE DEF r
<1>3. /\ q \in Command /\ q.status = s
      /\ SameTask(r, q)
      /\ q.steps = r.steps /\ q.outs = r.outs
      /\ q.source = r.source /\ q.read = r.read /\ q.target = r.target
  BY <1>1 DEF Command, SameTask
<1> QED
  BY <1>2, <1>3 DEF r

\* The course goes on without its first step.
LEMMA TailCourse ==
  ASSUME NEW r \in Command, Course(r), Left(r) > 1, r.status # "ok"
  PROVE  /\ Tail(r.steps) \in Seq({"check", "open", "create", "write", "sync", "close", "inspect"})
         /\ Len(Tail(r.steps)) = Left(r) - 1 /\ Left(r) - 1 \in 1 .. Len(Steps(r.cmd))
         /\ \A i \in 1 .. Left(r) - 1 :
              Tail(r.steps)[i] = Steps(r.cmd)[Len(Steps(r.cmd)) - (Left(r) - 1) + i]
<1> DEFINE T == {"check", "open", "create", "write", "sync", "close", "inspect"}
           s == r.steps
           m == Len(Steps(r.cmd))
<1>1. s \in Seq(T) /\ m \in Nat /\ Len(s) \in 1 .. m
  BY Dues DEF Command, Course, Left
<1>2. \A i \in 1 .. Len(s) : s[i] = Steps(r.cmd)[m - Len(s) + i]
  BY DEF Course, Left
<1> HIDE DEF T, s, m
<1>3. Len(s) \in Nat /\ Len(s) > 1 /\ s # << >>
  <2>1. Len(s) > 1
    BY DEF s, Left
  <2>2. Len(s) \in Nat /\ Len(s) > 1
    BY <1>1, <2>1
  <2>3. Len(<< >>) = 0
    OBVIOUS
  <2> QED
    BY <2>2, <2>3
<1>4. Tail(s) \in Seq(T) /\ Len(Tail(s)) = Len(s) - 1 /\ \A i \in 1 .. Len(s) - 1 : Tail(s)[i] = s[i + 1]
  BY <1>1, <1>3
<1>5. ASSUME NEW i \in 1 .. Len(s) - 1
      PROVE  Tail(s)[i] = Steps(r.cmd)[m - (Len(s) - 1) + i]
  <2>1. i + 1 \in 1 .. Len(s) /\ m - (Len(s) - 1) + i = m - Len(s) + (i + 1)
    BY <1>1, <1>3
  <2> QED
    BY <1>2, <1>4, <2>1
<1>6. Len(s) - 1 \in 1 .. m
  BY <1>1, <1>3
<1> QED
  BY <1>4, <1>5, <1>6 DEF s, T, m, Left

\* A step that is done leaves the ones behind it, or success.
LEMMA AdvanceIs ==
  ASSUME NEW p \in Proc, run[p] \in Command, Course(run[p]), run[p].status = "running"
  PROVE  /\ Advance(p) \in Command
         /\ Onward(run[p], Advance(p))
         /\ Advance(p).outs = run[p].outs /\ Advance(p).target = run[p].target
         /\ Advance(p).source = run[p].source /\ Advance(p).read = run[p].read
<1> DEFINE r == run[p]
<1>1. r \in Command /\ Course(r) /\ r.status = "running"
  OBVIOUS
<1>2. CASE Left(r) = 1
  <2>1. Advance(p) = Ends(p, "ok")
    BY <1>2 DEF Advance, Left
  <2> DEFINE q == Ends(p, "ok")
  <2>2. /\ q \in Command /\ q.status = "ok" /\ SameTask(r, q)
        /\ q.steps = r.steps /\ q.outs = r.outs
        /\ q.source = r.source /\ q.read = r.read /\ q.target = r.target
    BY EndsIs
  <2> HIDE DEF q, r
  <2>3. Course(q) /\ Left(q) = Left(r)
    BY <1>1, <1>2, <2>2 DEF Course, SameTask, Left
  <2>4. Onward(r, q)
    BY <1>2, <2>2, <2>3 DEF Onward
  <2> QED
    BY <2>1, <2>2, <2>4 DEF q, r
<1>3. CASE Left(r) > 1
  <2> DEFINE q == [r EXCEPT !.steps = Tail(r.steps)]
             t == Tail(r.steps)
  <2>1. Advance(p) = q
    <3>1. ~(Left(r) = 1)
      <4> HIDE DEF r
      <4> QED
        BY <1>3
    <3>2. ~(Len(r.steps) = 1)
      BY <3>1, Zenon DEF Left
    <3> QED
      BY <3>2, Zenon DEF Advance
  <2>2. /\ t \in Seq({"check", "open", "create", "write", "sync", "close", "inspect"})
        /\ Len(t) = Left(r) - 1 /\ Left(r) - 1 \in 1 .. Len(Steps(r.cmd))
        /\ \A i \in 1 .. Left(r) - 1 :
             t[i] = Steps(r.cmd)[Len(Steps(r.cmd)) - (Left(r) - 1) + i]
    <3>1. r.status # "ok"
      BY <1>1
    <3> HIDE DEF r
    <3> QED
      BY <1>1, <1>3, <3>1, TailCourse
  <2> HIDE DEF r, t
  <2>3. /\ q \in Command /\ q.status = "running" /\ SameTask(r, q)
        /\ q.steps = t /\ q.outs = r.outs
        /\ q.source = r.source /\ q.read = r.read /\ q.target = r.target
    BY <1>1, <2>2 DEF Command, SameTask, t
  <2> HIDE DEF q
  <2>4. Course(q) /\ Left(q) = Left(r) - 1
    <3>1. Left(q) = Left(r) - 1 /\ Left(r) = Len(r.steps)
      BY <2>2, <2>3 DEF Left
    <3> QED
      BY <2>2, <2>3, <3>1 DEF Course, SameTask
  <2>5. Onward(r, q)
    BY <1>3, <2>2, <2>3, <2>4 DEF Onward
  <2> QED
    BY <2>1, <2>3, <2>5 DEF r
<1>4. Left(r) = 1 \/ Left(r) > 1
  <2>1. Len(Steps(r.cmd)) \in Nat
    BY <1>1, Dues DEF Command
  <2>2. Left(r) \in 1 .. Len(Steps(r.cmd))
    BY <1>1 DEF Course
  <2> HIDE DEF r
  <2> QED
    BY <2>1, <2>2
<1> QED
  BY <1>2, <1>3, <1>4

-----------------------------------------------------------------------------
(* Steps and what they leave alone                                         *)

\* A command knows no more than its names: it keeps what it knows when they stand for
\* the same files with the same contents.
LEMMA GoodKept ==
  ASSUME NEW p, NEW r, NEW l, NEW d, NEW k, NEW e, Good(p, r, l, d),
         \A n \in r.names : k[n] = l[n] /\ ContentIn(k, e, n) = ContentIn(l, d, n)
  PROVE  Good(p, r, k, e)
<1>1. /\ k[r.in] = l[r.in] /\ ContentIn(k, e, r.in) = ContentIn(l, d, r.in)
      /\ k[r.outs[1]] = l[r.outs[1]]
      /\ ContentIn(k, e, r.outs[1]) = ContentIn(l, d, r.outs[1])
  BY DEF Good, Shape
<1>2. r.cmd = "rsaGenerate" =>
        /\ k[r.outs[2]] = l[r.outs[2]]
        /\ ContentIn(k, e, r.outs[2]) = ContentIn(l, d, r.outs[2])
  BY DEF Good, Shape
<1>3. Makes(p, r, l, d) => Makes(p, r, k, e)
  BY <1>1, Zenon DEF Makes
<1>4. r.cmd = "rsaGenerate" /\ Pairs(p, r, l, d) => Pairs(p, r, k, e)
  BY <1>1, <1>2, Zenon DEF Pairs
<1> QED
  BY <1>3, <1>4, Zenon DEF Good

\* A step of one process that knows its own command keeps the invariant: the files that
\* a name or a command stands for are as the step left them, and a command whose names
\* the step changed is touched.
LEMMA StepKeeps ==
  ASSUME IInv, NEW p \in Proc, NEW r, NEW l \in [Name -> Places], NEW d \in [1 .. Files -> Contents],
         Step(p, r, l, d), r = None \/ (r \in Command /\ Good(p, r, l, d))
  PROVE  IInv'
<1>1. /\ link \in [Name -> Places] /\ data \in [1 .. Files -> Contents]
      /\ run \in [Proc -> Command \cup {None}] /\ begun \in 0 .. Runs
  BY DEF IInv, TypeOK
<1>2. link' = l /\ begun' = begun
  BY DEF Step
<1>3. /\ data' \in [1 .. Files -> Contents]
      /\ \A n \in Name : ContentIn(link', data', n) = ContentIn(l, d, n)
  <2> DEFINE held(f) == \/ \E n \in Name : l[n] = f
                        \/ \E q \in Proc : run[q] # None /\ f \in {run[q].source, run[q].target}
                        \/ r # None /\ f \in {r.source, r.target}
  <2>1. data' = [f \in 1 .. Files |-> IF held(f) THEN d[f] ELSE Nothing]
    BY DEF Step
  <2>2. \A n \in Name : held(l[n])
    OBVIOUS
  <2>3. Nothing \in Contents
    BY DEF Nothing, Plain, Contents
  <2> HIDE DEF held
  <2>4. data' \in [1 .. Files -> Contents]
    BY <2>1, <2>3
  <2>5. ASSUME NEW n \in Name, l[n] # None PROVE data'[l[n]] = d[l[n]]
    <3>1. l[n] \in 1 .. Files
      BY <2>5 DEF Places
    <3> QED
      BY <2>1, <2>2, <3>1
  <2> QED
    BY <1>2, <2>4, <2>5 DEF ContentIn
<1>4. /\ DOMAIN run' = Proc /\ run'[p] = r
      /\ \A q \in Proc \ {p} : run'[q] =
            IF run[q] # None /\ \E n \in run[q].names :
                    <<l[n], ContentIn(l, d, n)>> # <<link[n], Content(n)>>
            THEN [run[q] EXCEPT !.touched = TRUE] ELSE run[q]
  BY DEF Step
<1>5. ASSUME NEW q \in Proc \ {p}
      PROVE  /\ run'[q] \in Command \cup {None}
             /\ run'[q] # None => Good(q, run'[q], link', data')
  <2>1. run[q] \in Command \cup {None}
    BY <1>1
  <2>2. CASE run[q] = None
    BY <1>4, <2>2
  <2>3. CASE run[q] # None /\ \E n \in run[q].names :
                    <<l[n], ContentIn(l, d, n)>> # <<link[n], Content(n)>>
    <3> DEFINE c == run[q]
               t == [c EXCEPT !.touched = TRUE]
    <3>1. run'[q] = t
      BY <1>4, <2>3
    <3>2. c \in Command /\ Shape(c)
      BY <2>1, <2>3 DEF IInv, Good
    <3> HIDE DEF c
    <3>3. /\ t \in Command /\ t.touched
          /\ t.cmd = c.cmd /\ t.steps = c.steps /\ t.status = c.status /\ t.outs = c.outs
          /\ t.names = c.names /\ t.in = c.in /\ t.force = c.force /\ t.read = c.read
      BY <3>2 DEF Command
    <3> HIDE DEF t
    <3>4. Shape(t)
      <4>1. Left(t) = Left(c)
        BY <3>3 DEF Left
      <4> QED
        BY <3>2, <3>3, <4>1, Zenon DEF Shape, Course
    <3> QED
      BY <3>1, <3>3, <3>4, Zenon DEF Good, Clean
  <2>4. CASE run[q] # None /\ ~\E n \in run[q].names :
                    <<l[n], ContentIn(l, d, n)>> # <<link[n], Content(n)>>
    <3>1. run'[q] = run[q] /\ Good(q, run[q], link, data) /\ run[q].names \subseteq Name
      BY <1>4, <2>1, <2>4 DEF IInv, Command
    <3>2. ASSUME NEW n \in run[q].names
          PROVE  link'[n] = link[n] /\ ContentIn(link', data', n) = ContentIn(link, data, n)
      <4>1. <<l[n], ContentIn(l, d, n)>> = <<link[n], Content(n)>>
        BY <2>4
      <4>2. l[n] = link[n] /\ ContentIn(l, d, n) = ContentIn(link, data, n)
        BY <4>1 DEF Content
      <4>3. n \in Name
        BY <3>1
      <4> QED
        BY <1>2, <1>3, <4>2, <4>3
    <3>3. Good(q, run[q], link', data')
      BY <3>1, <3>2, GoodKept
    <3> QED
      BY <2>1, <3>1, <3>3
  <2> QED
    BY <2>2, <2>3, <2>4
<1>6. /\ run'[p] \in Command \cup {None}
      /\ run'[p] # None => Good(p, run'[p], link', data')
  <2>1. ASSUME r \in Command, Good(p, r, l, d) PROVE Good(p, r, link', data')
    <3>1. r.names \subseteq Name
      BY <2>1 DEF Command
    <3>2. \A n \in r.names : link'[n] = l[n] /\ ContentIn(link', data', n) = ContentIn(l, d, n)
      BY <1>2, <1>3, <3>1
    <3> QED
      BY <2>1, <3>2, GoodKept
  <2> QED
    BY <1>4, <2>1
<1>7. \A q \in Proc : /\ run'[q] \in Command \cup {None}
                      /\ run'[q] # None => Good(q, run'[q], link', data')
  BY <1>5, <1>6
<1>8. run' \in [Proc -> Command \cup {None}]
  <2>1. run' = [q \in Proc |-> run'[q]]
    BY DEF Step
  <2> QED
    BY <1>7, <2>1
<1> QED
  BY <1>1, <1>2, <1>3, <1>7, <1>8 DEF IInv, TypeOK

-----------------------------------------------------------------------------
(* What a command with an input knows, step by step                        *)

\* Hypotheses of the lemmas: a command with an input that is under way.
Making(p, r, l, d) ==
    /\ r.cmd \in Commands /\ r.cmd # "rsaGenerate" /\ Course(r) /\ Makes(p, r, l, d)
    /\ r.status = "running"

\* A step that touches no file goes on: when the input was opened it is the first one,
\* and when the output was looked for there was none, or force is set.
LEMMA QuietMakes ==
  ASSUME NEW p, NEW r, NEW q, NEW l, NEW d, Making(p, r, l, d), Onward(r, q),
         q.outs = r.outs, q.target = r.target,
         Left(r) # Due(r.cmd, "create"), Left(r) # Due(r.cmd, "write"),
         IF Left(r) = Due(r.cmd, "open")
         THEN /\ q.read = r.first
              /\ r.cmd \in Gui \cup Cli => q.source = l[r.in] /\ q.source # None
         ELSE q.read = r.read /\ q.source = r.source,
         Left(r) = Due(r.cmd, "check") /\ ~r.force => r.before = Nothing
  PROVE  Makes(p, q, l, d)
<1> DEFINE n == Left(r)
           c == Due(r.cmd, "create")
           o == Due(r.cmd, "open")
           w == Due(r.cmd, "write")
           k == Due(r.cmd, "check")
<1>1. /\ n \in Nat /\ c \in Nat /\ o \in Nat /\ w \in Nat /\ k \in Nat
      /\ n >= 1 /\ w >= 1 /\ c = w + 1 /\ o > c /\ k > c
  BY InOrder DEF Numbers, Making
<1>2. /\ q.cmd = r.cmd /\ q.in = r.in /\ q.force = r.force /\ q.first = r.first
      /\ q.before = r.before /\ q.same = r.same /\ q.outs = r.outs /\ q.target = r.target
  BY DEF Onward, SameTask
<1>3. \/ n = 1 /\ Left(q) = 1 /\ q.status = "ok"
      \/ n > 1 /\ Left(q) = n - 1 /\ q.status = "running"
  <2>1. /\ n = 1 => Left(q) = 1 /\ q.status = "ok"
        /\ n > 1 => Left(q) = n - 1 /\ q.status = "running"
    BY DEF Onward
  <2> QED
    BY <1>1, <2>1
<1>4. Makes(p, r, l, d) /\ r.status = "running" /\ n # c /\ n # w
  BY DEF Making
<1>5. Before(q) => Before(r)
  BY <1>1, <1>2, <1>3, <1>4 DEF Before, Past
<1>6. /\ Past(q, "open") => Past(r, "open") \/ n = o
      /\ Past(q, "check") => Past(r, "check") \/ n = k
      /\ Past(q, "create") <=> Past(r, "create")
      /\ Past(q, "write") <=> Past(r, "write")
  <2>1. Left(q) \in Nat /\ (n = 1 \/ n > 1)
    BY <1>1, <1>3
  <2>2. /\ Due(q.cmd, "open") = o /\ Due(q.cmd, "create") = c
        /\ Due(q.cmd, "write") = w /\ Due(q.cmd, "check") = k
    BY <1>2
  <2> HIDE DEF c, o, w, k
  <2>3. CASE n = 1 /\ Left(q) = 1 /\ q.status = "ok"
    BY <1>1, <1>4, <2>2, <2>3 DEF Past, c, o, w, k
  <2>4. CASE n > 1 /\ Left(q) = n - 1 /\ q.status = "running"
    BY <1>1, <1>4, <2>2, <2>4 DEF Past, c, o, w, k
  <2> QED
    BY <1>3, <2>3, <2>4
<1>7. Separate(q) <=> Separate(r)
  BY <1>2, Zenon DEF Separate
<1>8. q.status # "error" /\ (n = o => ~Past(r, "open")) /\ (~Past(r, "open") \/ Past(r, "open"))
  BY <1>1, <1>3, <1>4 DEF Past
<1> HIDE DEF n, c, o, w, k
<1>9. IF n = o THEN /\ q.read = r.first
                    /\ r.cmd \in Gui \cup Cli => q.source = l[r.in] /\ q.source # None
      ELSE q.read = r.read /\ q.source = r.source
  BY DEF n, o
<1>10. n = k /\ ~r.force => r.before = Nothing
  BY DEF n, k
<1> HIDE DEF Past, Before, Separate
<1> QED
  BY <1>2, <1>4, <1>5, <1>6, <1>7, <1>8, <1>9, <1>10, ZenonT(30) DEF Makes

\* A command that reports an error: the fields its step leaves.
Ended(r, q) ==
    /\ SameTask(r, q) /\ q.status = "error" /\ Left(q) = Left(r) /\ q.steps[1] = r.steps[1]
    /\ q.outs = r.outs /\ q.source = r.source /\ q.read = r.read

\* What both kinds of error keep.
LEMMA EndedIs ==
  ASSUME NEW p, NEW r, NEW q, NEW l, NEW d, Making(p, r, l, d), Ended(r, q)
  PROVE  /\ q.cmd = r.cmd /\ q.in = r.in /\ q.force = r.force /\ q.first = r.first
         /\ q.before = r.before /\ q.same = r.same /\ q.outs = r.outs /\ q.status = "error"
         /\ q.read = r.read /\ q.source = r.source
         /\ Past(q, "open") <=> Past(r, "open")
         /\ Past(q, "check") <=> Past(r, "check")
         /\ Before(q) => Before(r)
         /\ Separate(q) <=> Separate(r)
<1>1. /\ q.cmd = r.cmd /\ q.in = r.in /\ q.force = r.force /\ q.first = r.first
      /\ q.before = r.before /\ q.same = r.same /\ q.outs = r.outs /\ q.status = "error"
      /\ q.read = r.read /\ q.source = r.source /\ Left(q) = Left(r) /\ r.status = "running"
  BY DEF Ended, SameTask, Making
<1>2. /\ Past(q, "open") <=> Past(r, "open")
      /\ Past(q, "check") <=> Past(r, "check")
  BY <1>1 DEF Past
<1>3. Before(q) => Before(r)
  BY <1>1 DEF Before
<1>4. Separate(q) <=> Separate(r)
  BY <1>1, Zenon DEF Separate
<1> QED
  BY <1>1, <1>2, <1>3, <1>4

\* An error that changes no file; of the editor, unless it comes from the write.
LEMMA ErrorMakes ==
  ASSUME NEW p, NEW r, NEW q, NEW l, NEW d, Making(p, r, l, d), Ended(r, q),
         r.cmd \in Gui => Left(r) # Due(r.cmd, "write")
  PROVE  Makes(p, q, l, d)
<1>1. Numbers(r) /\ Makes(p, r, l, d) /\ r.status = "running" /\ q.steps[1] = r.steps[1]
  BY InOrder DEF Making, Ended
<1>2. r.cmd \in Gui =>
        \/ ContentIn(l, d, r.outs[1]) \in {r.before, Nothing, Output(r.cmd, r.first)}
        \/ r.steps[1] = "create"
  <2> SUFFICES ASSUME r.cmd \in Gui, r.steps[1] # "create"
               PROVE  ContentIn(l, d, r.outs[1]) \in {r.before, Nothing, Output(r.cmd, r.first)}
    OBVIOUS
  <2>1. Before(r) \/ Past(r, "write")
    BY <1>1 DEF Numbers, Before, Past
  <2>2. Before(r) => ContentIn(l, d, r.outs[1]) = r.before
    BY <1>1, Zenon DEF Makes
  <2>3. Past(r, "write") => ContentIn(l, d, r.outs[1]) = Output(r.cmd, r.first)
    BY <1>1 DEF Makes
  <2> QED
    BY <2>1, <2>2, <2>3
<1>3. /\ q.cmd = r.cmd /\ q.in = r.in /\ q.force = r.force /\ q.first = r.first
      /\ q.before = r.before /\ q.same = r.same /\ q.outs = r.outs /\ q.status = "error"
      /\ q.read = r.read /\ q.source = r.source /\ q.status # "running"
      /\ Past(q, "open") <=> Past(r, "open")
      /\ Past(q, "check") <=> Past(r, "check")
      /\ Before(q) => Before(r)
      /\ Separate(q) <=> Separate(r)
  BY EndedIs
<1> QED
  BY <1>1, <1>2, <1>3, ZenonT(30) DEF Makes

\* The editor removes the output after an error from the write on.
LEMMA RemovedMakes ==
  ASSUME NEW p, NEW r, NEW q, NEW l \in [Name -> Places], NEW d, Making(p, r, l, d), Ended(r, q),
         r.in \in Name, r.outs[1] \in Name, r.in # r.outs[1],
         Left(r) <= Due(r.cmd, "write")
  PROVE  Makes(p, q, [l EXCEPT ![r.outs[1]] = None], d)
<1> DEFINE k == [l EXCEPT ![r.outs[1]] = None]
<1>1. Numbers(r) /\ Makes(p, r, l, d) /\ r.status = "running" /\ q.steps[1] = r.steps[1]
  BY InOrder DEF Making, Ended
<1>2. k[r.in] = l[r.in] /\ k[r.outs[1]] = None
  OBVIOUS
<1> HIDE DEF k
<1>3. ContentIn(k, d, r.in) = ContentIn(l, d, r.in) /\ ContentIn(k, d, r.outs[1]) = Nothing
  BY <1>2 DEF ContentIn
<1>4. ~Before(q) /\ ~Before(r)
  BY <1>1, EndedIs DEF Numbers, Before, Past
<1>5. /\ q.cmd = r.cmd /\ q.in = r.in /\ q.force = r.force /\ q.first = r.first
      /\ q.before = r.before /\ q.same = r.same /\ q.outs = r.outs /\ q.status = "error"
      /\ q.read = r.read /\ q.source = r.source /\ q.status # "running"
      /\ Past(q, "open") <=> Past(r, "open")
      /\ Past(q, "check") <=> Past(r, "check")
      /\ Before(q) => Before(r)
      /\ Separate(q) <=> Separate(r)
  BY EndedIs
<1>6. Makes(p, q, k, d)
  BY <1>1, <1>2, <1>3, <1>4, <1>5, ZenonT(30) DEF Makes
<1> QED
  BY <1>6 DEF k

\* A creation that fails may have truncated the file that had the name.
LEMMA TruncatedMakes ==
  ASSUME NEW p, NEW r, NEW q, NEW l \in [Name -> Places], NEW d \in [1 .. Files -> Contents],
         Making(p, r, l, d), Ended(r, q),
         r.in \in Name, r.outs[1] \in Name, l[r.outs[1]] # None, r.steps[1] = "create"
  PROVE  Makes(p, q, l, [d EXCEPT ![l[r.outs[1]]] = Plain(p)])
<1> DEFINE e == [d EXCEPT ![l[r.outs[1]]] = Plain(p)]
<1>1. Numbers(r) /\ Makes(p, r, l, d) /\ r.status = "running" /\ q.steps[1] = r.steps[1]
  BY InOrder DEF Making, Ended
<1>2. l[r.in] # None /\ l[r.in] # l[r.outs[1]] => e[l[r.in]] = d[l[r.in]]
  <2>1. l[r.in] \in 1 .. Files \cup {None}
    BY DEF Places
  <2> QED
    BY <2>1
<1> HIDE DEF e
<1>3. (l[r.in] # None => l[r.in] # l[r.outs[1]]) => ContentIn(l, e, r.in) = ContentIn(l, d, r.in)
  BY <1>2 DEF ContentIn
<1>4. ~Before(q)
  BY <1>1, EndedIs DEF Numbers, Before, Past, Ended
<1>5. /\ q.cmd = r.cmd /\ q.in = r.in /\ q.force = r.force /\ q.first = r.first
      /\ q.before = r.before /\ q.same = r.same /\ q.outs = r.outs /\ q.status = "error"
      /\ q.read = r.read /\ q.source = r.source /\ q.status # "running"
      /\ Past(q, "open") <=> Past(r, "open")
      /\ Past(q, "check") <=> Past(r, "check")
      /\ Before(q) => Before(r)
      /\ Separate(q) <=> Separate(r)
  BY EndedIs
<1>6. Makes(p, q, l, e)
  BY <1>1, <1>3, <1>4, <1>5, ZenonT(30) DEF Makes
<1> QED
  BY <1>6 DEF e

\* What the record says after a step that goes on from the creation or the write.
LEMMA OnwardIs ==
  ASSUME NEW r, NEW q, r.cmd \in Commands, r.cmd # "rsaGenerate", Course(r), Onward(r, q),
         q.outs = r.outs, r.status = "running",
         r.steps[1] \in {"create", "write"}
  PROVE  /\ q.cmd = r.cmd /\ q.in = r.in /\ q.force = r.force /\ q.first = r.first
         /\ q.before = r.before /\ q.same = r.same /\ q.outs = r.outs
         /\ q.status # "error" /\ ~Before(q)
         /\ Past(r, "open") /\ Past(q, "open") /\ Past(q, "create")
         /\ Past(q, "check") => Past(r, "check")
         /\ r.steps[1] = "create" => ~Past(q, "write")
         /\ r.steps[1] = "write" => Past(q, "write") /\ Past(r, "create") /\ ~Past(r, "write")
         /\ Separate(q) <=> Separate(r)
<1> DEFINE n == Left(r)
           m == Left(q)
           c == Due(r.cmd, "create")
           o == Due(r.cmd, "open")
           w == Due(r.cmd, "write")
           k == Due(r.cmd, "check")
<1>1. /\ n \in Nat /\ c \in Nat /\ o \in Nat /\ w \in Nat /\ k \in Nat
      /\ n >= 1 /\ w >= 1 /\ c = w + 1 /\ o > c /\ k > c
      /\ r.steps[1] = "create" <=> n = c
      /\ r.steps[1] = "write" <=> n = w
  BY InOrder DEF Numbers
<1>2. /\ q.cmd = r.cmd /\ q.in = r.in /\ q.force = r.force /\ q.first = r.first
      /\ q.before = r.before /\ q.same = r.same /\ q.outs = r.outs
  BY DEF Onward, SameTask
<1>3. /\ n = 1 => m = 1 /\ q.status = "ok"
      /\ n > 1 => m = n - 1 /\ q.status = "running"
  BY DEF Onward
<1>4. Separate(q) <=> Separate(r)
  BY <1>2, Zenon DEF Separate
<1>5. /\ Due(q.cmd, "open") = o /\ Due(q.cmd, "create") = c
      /\ Due(q.cmd, "write") = w /\ Due(q.cmd, "check") = k
  BY <1>2
<1> HIDE DEF n, m, c, o, w, k
<1>6. CASE n = c
  <2>1. n > 1 /\ m = n - 1 /\ q.status = "running" /\ r.steps[1] = "create" /\ ~(n = w)
    BY <1>1, <1>3, <1>6
  <2> QED
    BY <1>1, <1>2, <1>4, <1>5, <1>6, <2>1 DEF Past, Before, n, m, c, o, w, k
<1>7. CASE n = w
  <2>1. /\ m < w \/ q.status = "ok"
        /\ m \in Nat /\ m <= w /\ q.status \in {"running", "ok"}
        /\ r.steps[1] = "write" /\ ~(n = c)
    BY <1>1, <1>3, <1>7
  <2> QED
    BY <1>1, <1>2, <1>4, <1>5, <1>7, <2>1 DEF Past, Before, n, m, c, o, w, k
<1> QED
  BY <1>1, <1>6, <1>7

\* The output is created: as a new file f, or the one that had the name.
LEMMA CreateMakes ==
  ASSUME NEW p, NEW r, NEW q, NEW l \in [Name -> Places], NEW d \in [1 .. Files -> Contents],
         NEW f \in 1 .. Files, Making(p, r, l, d), Onward(r, q), q.outs = r.outs,
         q.source = r.source, q.read = r.read, q.target = f,
         r.in \in Name, r.outs[1] \in Name, r.steps[1] = "create",
         r.cmd \in Gui \cup Cli => r.in # r.outs[1],
         f = l[r.outs[1]] \/ \A n \in Name : l[n] # f
  PROVE  Makes(p, q, [l EXCEPT ![r.outs[1]] = f], [d EXCEPT ![f] = Plain(p)])
<1> DEFINE k == [l EXCEPT ![r.outs[1]] = f]
           e == [d EXCEPT ![f] = Plain(p)]
<1>1. Makes(p, r, l, d) /\ r.status = "running"
  BY DEF Making
<1>2. /\ q.cmd = r.cmd /\ q.in = r.in /\ q.force = r.force /\ q.first = r.first
      /\ q.before = r.before /\ q.same = r.same /\ q.outs = r.outs
      /\ q.status # "error" /\ ~Before(q)
      /\ Past(r, "open") /\ Past(q, "open") /\ Past(q, "create")
      /\ Past(q, "check") => Past(r, "check")
      /\ ~Past(q, "write")
      /\ Separate(q) <=> Separate(r)
  BY OnwardIs DEF Making
<1>3. f # None
  BY WholeFileAssumption
<1>4. k[r.outs[1]] = f /\ e[f] = Plain(p)
  OBVIOUS
<1>5. ContentIn(k, e, r.outs[1]) = Plain(p)
  BY <1>3, <1>4 DEF ContentIn
<1>6. r.in # r.outs[1] => k[r.in] = l[r.in]
  OBVIOUS
<1>7. r.in # r.outs[1] /\ (l[r.in] # None => l[r.in] # l[r.outs[1]]) =>
         /\ ContentIn(k, e, r.in) = ContentIn(l, d, r.in)
         /\ k[r.in] # None => k[r.in] # k[r.outs[1]]
  <2>1. l[r.in] \in 1 .. Files \cup {None}
    BY DEF Places
  <2> SUFFICES ASSUME r.in # r.outs[1], l[r.in] # None => l[r.in] # l[r.outs[1]]
               PROVE  /\ ContentIn(k, e, r.in) = ContentIn(l, d, r.in)
                      /\ k[r.in] # None => k[r.in] # k[r.outs[1]]
    OBVIOUS
  <2>2. l[r.in] # None => l[r.in] # f /\ e[l[r.in]] = d[l[r.in]]
    BY <2>1
  <2> HIDE DEF k, e
  <2> QED
    BY <1>4, <1>6, <2>2 DEF ContentIn
<1>8. Separate(r) => r.in # r.outs[1]
  BY DEF Separate
<1> HIDE DEF k, e
<1>9. Makes(p, q, k, e)
  BY <1>1, <1>2, <1>3, <1>4, <1>5, <1>6, <1>7, <1>8, ZenonT(30) DEF Makes
<1> QED
  BY <1>9 DEF k, e

\* The output is written, from the input it was given.
LEMMA WriteMakes ==
  ASSUME NEW p, NEW r, NEW q, NEW l \in [Name -> Places], NEW d \in [1 .. Files -> Contents],
         Making(p, r, l, d), Onward(r, q), q.outs = r.outs,
         q.source = r.source, q.read = r.read,
         r.in \in Name, r.outs[1] \in Name, r.steps[1] = "write"
  PROVE  /\ d[r.target] = Plain(p) /\ r.read = r.first
         /\ r.cmd \in Gui \cup Cli => d[r.source] = r.read
         /\ Makes(p, q, l, [d EXCEPT ![r.target] = Output(r.cmd, r.read)])
<1> DEFINE e == [d EXCEPT ![r.target] = Output(r.cmd, r.read)]
<1>1. Makes(p, r, l, d) /\ r.status = "running"
  BY DEF Making
<1>2. /\ q.cmd = r.cmd /\ q.in = r.in /\ q.force = r.force /\ q.first = r.first
      /\ q.before = r.before /\ q.same = r.same /\ q.outs = r.outs
      /\ q.status # "error" /\ ~Before(q)
      /\ Past(r, "open") /\ Past(q, "open") /\ Past(q, "create")
      /\ Past(q, "check") => Past(r, "check")
      /\ Past(q, "write") /\ Past(r, "create") /\ ~Past(r, "write")
      /\ Separate(q) <=> Separate(r)
  BY OnwardIs DEF Making
<1>3. /\ l[r.outs[1]] = r.target /\ r.target # None
      /\ ContentIn(l, d, r.outs[1]) = Plain(p) /\ r.read = r.first
  BY <1>1, <1>2, Zenon DEF Makes
<1>4. d[r.target] = Plain(p) /\ r.target \in 1 .. Files
  BY <1>3 DEF ContentIn, Places
<1>5. r.cmd \in Gui \cup Cli => d[r.source] = r.read
  <2> SUFFICES ASSUME r.cmd \in Gui \cup Cli PROVE d[r.source] = r.read
    OBVIOUS
  <2>1. r.source = l[r.in] /\ r.source # None
    BY <1>1, <1>2, Zenon DEF Makes
  <2>2. Separate(r)
    BY DEF Separate
  <2>3. ContentIn(l, d, r.in) = r.first
    BY <1>1, <2>2, Zenon DEF Makes
  <2> QED
    BY <1>3, <2>1, <2>3 DEF ContentIn
<1>6. ContentIn(l, e, r.outs[1]) = Output(r.cmd, r.first)
  BY <1>3, <1>4 DEF ContentIn
<1>7. (l[r.in] # None => l[r.in] # l[r.outs[1]]) => ContentIn(l, e, r.in) = ContentIn(l, d, r.in)
  <2>1. l[r.in] \in 1 .. Files \cup {None}
    BY DEF Places
  <2> SUFFICES ASSUME l[r.in] # None => l[r.in] # l[r.outs[1]]
               PROVE  ContentIn(l, e, r.in) = ContentIn(l, d, r.in)
    OBVIOUS
  <2>2. l[r.in] # None => e[l[r.in]] = d[l[r.in]]
    BY <1>3, <1>4, <2>1
  <2> HIDE DEF e
  <2> QED
    BY <2>2 DEF ContentIn
<1> HIDE DEF e
<1>8. Makes(p, q, l, e)
  BY <1>1, <1>2, <1>3, <1>6, <1>7, ZenonT(30) DEF Makes
<1> QED
  BY <1>3, <1>4, <1>5, <1>8 DEF e

-----------------------------------------------------------------------------
(* The steps of a command keep the invariant                               *)

\* What a process has in hand.
LEMMA Mine ==
  ASSUME IInv, NEW p \in Proc, run[p] # None
  PROVE  /\ run[p] \in Command /\ run[p].cmd \in Commands /\ run[p].in \in Name
         /\ run[p].outs \in Seq(Name) /\ run[p].outs[1] \in Name
         /\ run[p].cmd = "rsaGenerate" => run[p].outs[2] \in Name
         /\ Good(p, run[p], link, data) /\ Shape(run[p]) /\ Course(run[p])
         /\ link \in [Name -> Places] /\ data \in [1 .. Files -> Contents]
<1>1. /\ link \in [Name -> Places] /\ data \in [1 .. Files -> Contents]
      /\ run[p] \in Command /\ Good(p, run[p], link, data)
  BY DEF IInv, TypeOK
<1> DEFINE r == run[p]
<1>2. r \in Command /\ Shape(r)
  BY <1>1 DEF Good
<1> HIDE DEF r
<1>3. r.cmd \in Commands /\ r.in \in Name /\ r.outs \in Seq(Name) /\ r.names \subseteq Name
  BY <1>2 DEF Command
<1>4. r.outs[1] \in r.names /\ (r.cmd = "rsaGenerate" => r.outs[2] \in r.names) /\ Course(r)
  BY <1>2 DEF Shape
<1> QED
  BY <1>1, <1>2, <1>3, <1>4 DEF r

LEMMA CleanSame ==
  ASSUME NEW r, NEW q, SameTask(r, q)
  PROVE  Clean(q) <=> Clean(r)
  BY Zenon DEF SameTask, Clean

\* The next step of rsa generate.
LEMMA PairStep ==
  ASSUME NEW r, r.cmd = "rsaGenerate", Course(r)
  PROVE  \/ r.steps[1] = "create" /\ (Left(r) = 4 \/ Left(r) = 2)
         \/ r.steps[1] = "write" /\ (Left(r) = 3 \/ Left(r) = 1)
<1> DEFINE n == Left(r)
           step == r.steps[1]
<1>1. /\ n \in Nat /\ n > 0 /\ n <= 4
      /\ step = <<"create", "write", "create", "write">>[5 - n]
  BY NextStep DEF Commands
<1> HIDE DEF n, step
<1>2. \/ step = "create" /\ (n = 4 \/ n = 2)
      \/ step = "write" /\ (n = 3 \/ n = 1)
  BY <1>1
<1> QED
  BY <1>2 DEF n, step

\* A step that goes on keeps the shape of the record.
LEMMA OnwardShape ==
  ASSUME NEW r, NEW q, r.cmd \in Commands, Shape(r), Onward(r, q),
         Len(q.outs) = Len(r.outs), \A i \in 1 .. Len(r.outs) : q.outs[i] \in r.names,
         r.cmd # "rsaGenerate" =>
            /\ q.outs = r.outs
            /\ IF Left(r) = Due(r.cmd, "open") THEN Readable(r.cmd, q.read) ELSE q.read = r.read
  PROVE  Shape(q)
<1>1. /\ q.cmd = r.cmd /\ q.in = r.in /\ q.force = r.force /\ q.names = r.names /\ Course(q)
  BY DEF Onward, SameTask
<1>2. /\ Course(r) /\ Len(q.outs) = IF q.cmd = "rsaGenerate" THEN 2 ELSE 1
      /\ q.in \in q.names /\ \A i \in 1 .. Len(q.outs) : q.outs[i] \in q.names
      /\ q.cmd \notin Gui \cup Cli => q.force
  BY <1>1 DEF Shape
<1>3. q.cmd \in Gui \cup Cli => q.in # q.outs[1]
  <2>1. r.cmd \in Gui \cup Cli => r.cmd # "rsaGenerate"
    BY Dues
  <2> QED
    BY <1>1, <2>1 DEF Shape
<1>4. ASSUME q.cmd # "rsaGenerate", Left(q) < Due(q.cmd, "open")
      PROVE  Readable(q.cmd, q.read)
  <2>1. Left(r) \in Nat /\ Left(r) >= 1 /\ Due(r.cmd, "open") \in Nat
    BY <1>1, <1>2, <1>4, InOrder DEF Numbers
  <2>2. \/ Left(r) = 1 /\ Left(q) = 1
        \/ Left(r) > 1 /\ Left(q) = Left(r) - 1
    <3>1. Left(r) = 1 \/ Left(r) > 1
      BY <2>1
    <3> QED
      BY <3>1 DEF Onward
  <2>3. Left(r) < Due(r.cmd, "open") \/ Left(r) = Due(r.cmd, "open")
    BY <1>1, <1>4, <2>1, <2>2
  <2>4. CASE Left(r) = Due(r.cmd, "open")
    BY <1>1, <1>4, <2>4
  <2>5. CASE Left(r) < Due(r.cmd, "open")
    <3>1. ~(Left(r) = Due(r.cmd, "open"))
      BY <2>1, <2>5
    <3> QED
      BY <1>1, <1>4, <2>5, <3>1, Zenon DEF Shape
  <2> QED
    BY <2>3, <2>4, <2>5
<1> QED
  BY <1>1, <1>2, <1>3, <1>4 DEF Shape

\* A command that ends with an error: its record.
Stopped(r, q) ==
    /\ SameTask(r, q) /\ q.status = "error" /\ q.steps = r.steps
    /\ q.outs = r.outs /\ q.source = r.source /\ q.read = r.read

LEMMA StoppedIs ==
  ASSUME NEW r, NEW q, Shape(r), Stopped(r, q)
  PROVE  Ended(r, q) /\ Shape(q) /\ (Clean(q) <=> Clean(r))
<1>1. /\ q.cmd = r.cmd /\ q.in = r.in /\ q.force = r.force /\ q.names = r.names
      /\ q.status = "error" /\ q.steps = r.steps /\ q.outs = r.outs /\ q.read = r.read
      /\ Left(q) = Left(r)
  BY DEF Stopped, SameTask, Left
<1>2. Ended(r, q)
  BY <1>1 DEF Ended, Stopped
<1>3. Course(q)
  BY <1>1 DEF Shape, Course
<1>4. Shape(q)
  BY <1>1, <1>3, Zenon DEF Shape
<1> QED
  BY <1>2, <1>4, CleanSame DEF Stopped

LEMMA ErrorGood ==
  ASSUME NEW p, NEW r, NEW q, NEW l, NEW d, r.cmd \in Commands, Good(p, r, l, d),
         r.status = "running", Stopped(r, q), r.cmd \in Gui => Left(r) # Due(r.cmd, "write")
  PROVE  Good(p, q, l, d)
<1>1. Shape(r) /\ Course(r) /\ Shape(q) /\ Ended(r, q) /\ (Clean(q) <=> Clean(r)) /\ q.cmd = r.cmd
  BY StoppedIs DEF Good, Shape, Stopped, SameTask
<1>2. Clean(q) /\ q.cmd # "rsaGenerate" => Makes(p, q, l, d)
  <2> SUFFICES ASSUME Clean(q), q.cmd # "rsaGenerate" PROVE Makes(p, q, l, d)
    OBVIOUS
  <2>1. Making(p, r, l, d)
    BY <1>1 DEF Making, Good
  <2> QED
    BY <1>1, <2>1, ErrorMakes
<1>3. Pairs(p, q, l, d)
  <2>1. q.status = "error" /\ q.status # "running" /\ q.status # "ok"
    BY DEF Stopped
  <2> QED
    BY <2>1, Zenon DEF Pairs
<1> QED
  BY <1>1, <1>2, <1>3, Zenon DEF Good

\* The removal after an error failed: the files are as they were.
LEMMA LeftKeeps ==
  ASSUME IInv, NEW p \in Proc, run[p] # None, run[p].status = "running",
         run[p].cmd \in Gui, run[p].steps[1] \in {"write", "sync", "close"},
         Step(p, Ends(p, "left"), link, data)
  PROVE  IInv'
<1> DEFINE r == run[p]
           q == Ends(p, "left")
<1>1. /\ r \in Command /\ r.cmd \in Commands /\ Shape(r) /\ Good(p, r, link, data)
      /\ r.status = "running" /\ r.cmd \in Gui /\ r.steps[1] \in {"write", "sync", "close"}
      /\ link \in [Name -> Places] /\ data \in [1 .. Files -> Contents]
  BY Mine
<1>2. /\ q \in Command /\ q.status = "left" /\ SameTask(r, q)
      /\ q.steps = r.steps /\ q.outs = r.outs /\ q.source = r.source /\ q.read = r.read
  BY <1>1, EndsIs
<1> HIDE DEF r, q
<1>3. /\ q.cmd = r.cmd /\ q.in = r.in /\ q.force = r.force /\ q.names = r.names
      /\ q.first = r.first /\ q.before = r.before /\ q.same = r.same /\ Left(q) = Left(r)
      /\ (Clean(q) <=> Clean(r))
  BY <1>2, CleanSame DEF SameTask, Left
<1>4. Shape(q)
  <2>1. Course(q)
    BY <1>1, <1>2, <1>3 DEF Shape, Course
  <2> QED
    BY <1>1, <1>2, <1>3, <2>1, Zenon DEF Shape
<1>5. ASSUME Clean(q), q.cmd # "rsaGenerate" PROVE Makes(p, q, link, data)
  <2>1. Makes(p, r, link, data)
    BY <1>1, <1>3, <1>5 DEF Good
  <2>2. \A s \in {"open", "check", "create", "write"} : Past(q, s) <=> Past(r, s)
    BY <1>1, <1>2, <1>3 DEF Past
  <2>3. Before(q) <=> Before(r)
    BY <1>1, <1>2, <1>3, <2>2 DEF Before
  <2>4. Separate(q) <=> Separate(r)
    BY <1>2, <1>3, Zenon DEF Separate
  <2>5. q.status # "running" /\ q.status # "error" /\ r.status # "error"
    BY <1>1, <1>2
  <2> HIDE DEF Past, Before, Separate
  <2> QED
    BY <1>2, <1>3, <2>1, <2>2, <2>3, <2>4, <2>5, Zenon DEF Makes
<1>6. Pairs(p, q, link, data)
  <2>1. q.status # "running" /\ q.status # "ok"
    BY <1>2
  <2> QED
    BY <2>1, Zenon DEF Pairs
<1>7. Good(p, q, link, data)
  BY <1>4, <1>5, <1>6, Zenon DEF Good
<1> QED
  BY <1>1, <1>2, <1>7, StepKeeps DEF q

\* A step that touches no file, of a command with an input.
LEMMA QuietGood ==
  ASSUME NEW p, NEW r, NEW q, NEW l, NEW d, r.cmd \in Commands, r.cmd # "rsaGenerate",
         Good(p, r, l, d), r.status = "running", Onward(r, q),
         q.outs = r.outs, q.target = r.target,
         Left(r) # Due(r.cmd, "create"), Left(r) # Due(r.cmd, "write"),
         IF Left(r) = Due(r.cmd, "open")
         THEN /\ Readable(r.cmd, q.read)
              /\ Makes(p, r, l, d) =>
                    /\ q.read = r.first
                    /\ r.cmd \in Gui \cup Cli => q.source = l[r.in] /\ q.source # None
         ELSE q.read = r.read /\ q.source = r.source,
         Left(r) = Due(r.cmd, "check") /\ ~r.force /\ Makes(p, r, l, d) => r.before = Nothing
  PROVE  Good(p, q, l, d)
<1>1. Shape(r) /\ Course(r) /\ q.cmd = r.cmd /\ (Clean(q) <=> Clean(r))
  BY CleanSame DEF Good, Shape, Onward, SameTask
<1>2. Shape(q)
  <2>1. \A i \in 1 .. Len(r.outs) : q.outs[i] \in r.names
    BY <1>1 DEF Shape
  <2> QED
    BY <1>1, <2>1, OnwardShape
<1>3. ASSUME Clean(q) PROVE Makes(p, q, l, d)
  <2>1. Making(p, r, l, d) /\ Makes(p, r, l, d)
    BY <1>1, <1>3 DEF Making, Good
  <2> QED
    BY <2>1, QuietMakes
<1> QED
  BY <1>1, <1>2, <1>3, Zenon DEF Good

\* The facts of a command that is about to take a step, with what it would be with the
\* step behind it and what it would be with an error.
LEMMA Ready ==
  ASSUME IInv, NEW p \in Proc, run[p] # None, run[p].status = "running"
  PROVE  /\ Advance(p) \in Command /\ Onward(run[p], Advance(p))
         /\ Advance(p).outs = run[p].outs /\ Advance(p).target = run[p].target
         /\ Advance(p).source = run[p].source /\ Advance(p).read = run[p].read
         /\ Ends(p, "error") \in Command /\ Stopped(run[p], Ends(p, "error"))
<1>1. run[p] \in Command /\ Course(run[p])
  BY Mine
<1>2. Stopped(run[p], Ends(p, "error")) /\ Ends(p, "error") \in Command
  BY <1>1, EndsIs DEF Stopped
<1> QED
  BY <1>1, <1>2, AdvanceIs

\* A command that fails with the files as they are keeps the invariant.
LEMMA ErrorKeeps ==
  ASSUME IInv, NEW p \in Proc, run[p] # None, run[p].status = "running",
         run[p].cmd \in Gui => Left(run[p]) # Due(run[p].cmd, "write"),
         Step(p, Ends(p, "error"), link, data)
  PROVE  IInv'
<1>1. Good(p, Ends(p, "error"), link, data)
  BY Mine, Ready, ErrorGood
<1> QED
  BY <1>1, Mine, Ready, StepKeeps

LEMMA CheckKeeps ==
  ASSUME IInv, NEW p \in Proc, Check(p)
  PROVE  IInv'
<1> DEFINE r == run[p]
<1>1. r # None /\ r.status = "running" /\ r.steps[1] = "check"
  BY DEF Check, At
<1>2. /\ r.cmd \in Commands /\ Course(r) /\ Good(p, r, link, data) /\ r.outs[1] \in Name
      /\ link \in [Name -> Places] /\ data \in [1 .. Files -> Contents]
  BY <1>1, Mine
<1>3. r.cmd # "rsaGenerate"
  <2> HIDE DEF r
  <2>1. r.steps[1] # "create" /\ r.steps[1] # "write"
    BY <1>1
  <2> QED
    BY <1>2, <2>1, PairStep
<1>4. /\ Left(r) = Due(r.cmd, "check") /\ r.cmd \in Gui \cup Cli
      /\ ~(Left(r) = Due(r.cmd, "create")) /\ ~(Left(r) = Due(r.cmd, "write"))
      /\ ~(Left(r) = Due(r.cmd, "open")) /\ Left(r) > Due(r.cmd, "create")
  <2> HIDE DEF r
  <2>1. Numbers(r)
    BY <1>2, <1>3, InOrder
  <2> QED
    BY <1>1, <2>1 DEF Numbers
<1>5. CASE r.force \/ link[r.outs[1]] = None
  <2>1. Step(p, Advance(p), link, data)
    BY <1>5, Zenon DEF Check
  <2>2. ASSUME ~r.force, Makes(p, r, link, data) PROVE r.before = Nothing
    <3>1. Before(r)
      BY <1>4 DEF Before
    <3>2. ContentIn(link, data, r.outs[1]) = r.before
      BY <2>2, <3>1, Zenon DEF Makes
    <3> QED
      BY <1>5, <2>2, <3>2, Zenon DEF ContentIn
  <2> DEFINE q == Advance(p)
  <2>3. /\ q \in Command /\ Onward(r, q) /\ q.outs = r.outs /\ q.target = r.target
        /\ q.source = r.source /\ q.read = r.read
    BY <1>1, Ready
  <2> HIDE DEF q, r
  <2>4. Good(p, q, link, data)
    BY <1>1, <1>2, <1>3, <1>4, <2>2, <2>3, QuietGood
  <2> QED
    BY <1>2, <2>1, <2>3, <2>4, StepKeeps DEF q
<1>6. CASE ~(r.force \/ link[r.outs[1]] = None)
  <2>1. Step(p, Ends(p, "error"), link, data)
    BY <1>6, Zenon DEF Check
  <2> QED
    BY <1>1, <1>4, <2>1, ErrorKeeps
<1> QED
  BY <1>5, <1>6

LEMMA OpenKeeps ==
  ASSUME IInv, NEW p \in Proc, Open(p)
  PROVE  IInv'
<1> DEFINE r == run[p]
           c == Content(r.in)
<1>1. r # None /\ r.status = "running" /\ r.steps[1] = "open"
  BY DEF Open, At
<1>2. /\ r.cmd \in Commands /\ Course(r) /\ Good(p, r, link, data) /\ r.in \in Name
      /\ link \in [Name -> Places] /\ data \in [1 .. Files -> Contents]
  BY <1>1, Mine
<1>3. r.cmd # "rsaGenerate"
  <2> HIDE DEF r
  <2>1. r.steps[1] # "create" /\ r.steps[1] # "write"
    BY <1>1
  <2> QED
    BY <1>2, <2>1, PairStep
<1>4. /\ Left(r) = Due(r.cmd, "open") /\ Left(r) > Due(r.cmd, "create")
      /\ ~(Left(r) = Due(r.cmd, "create")) /\ ~(Left(r) = Due(r.cmd, "write"))
      /\ Left(r) = Due(r.cmd, "check") => ~(r.cmd \in Gui \cup Cli)
  <2> HIDE DEF r
  <2>1. Numbers(r)
    BY <1>2, <1>3, InOrder
  <2> QED
    BY <1>1, <2>1 DEF Numbers
<1>5. CASE c = Nothing \/ ~Readable(r.cmd, c)
  <2>1. Step(p, Ends(p, "error"), link, data)
    BY <1>5, Zenon DEF Open
  <2> QED
    BY <1>1, <1>4, <2>1, ErrorKeeps
<1>6. CASE ~(c = Nothing \/ ~Readable(r.cmd, c))
  <2> DEFINE a == Advance(p)
             q == [a EXCEPT !.source = link[r.in], !.read = c]
  <2>1. Step(p, q, link, data)
    BY <1>6, Zenon DEF Open
  <2>2. /\ a \in Command /\ Onward(r, a) /\ a.outs = r.outs /\ a.target = r.target
    BY <1>1, Ready
  <2>3. c = ContentIn(link, data, r.in) /\ link[r.in] \in Places /\ c # Nothing
    BY <1>2, <1>6 DEF Content
  <2>4. link[r.in] # None /\ c \in Contents
    <3>1. link[r.in] # None
      BY <2>3 DEF ContentIn
    <3>2. c = data[link[r.in]] /\ link[r.in] \in 1 .. Files
      BY <2>3, <3>1 DEF ContentIn, Places
    <3> QED
      BY <1>2, <3>1, <3>2
  <2>5. Readable(r.cmd, c)
    BY <1>6
  <2> HIDE DEF a, r, c
  <2>6. /\ q \in Command /\ q.source = link[r.in] /\ q.read = c /\ q.outs = a.outs
        /\ q.target = a.target /\ q.status = a.status /\ q.steps = a.steps /\ SameTask(a, q)
    BY <2>2, <2>3, <2>4 DEF Command, SameTask
  <2> HIDE DEF q
  <2>7. Onward(r, q) /\ q.outs = r.outs /\ q.target = r.target
    <3>1. Left(q) = Left(a)
      BY <2>6 DEF Left
    <3>2. Course(q) /\ SameTask(r, q)
      BY <2>2, <2>6, <3>1 DEF Onward, SameTask, Course
    <3> QED
      BY <2>2, <2>6, <3>1, <3>2 DEF Onward
  <2>8. ASSUME Makes(p, r, link, data)
        PROVE  q.read = r.first /\ q.source = link[r.in] /\ q.source # None
    <3>1. Before(r)
      BY <1>4 DEF Before
    <3>2. ContentIn(link, data, r.in) = r.first
      BY <2>8, <3>1, Zenon DEF Makes
    <3> QED
      BY <2>3, <2>4, <2>6, <3>2
  <2>9. r.cmd \notin Gui \cup Cli => r.force
    BY <1>2 DEF Good, Shape
  <2>10. Good(p, q, link, data)
    BY <1>1, <1>2, <1>3, <1>4, <2>5, <2>6, <2>7, <2>8, <2>9, QuietGood
  <2> QED
    BY <1>2, <2>1, <2>6, <2>10, StepKeeps
<1> QED
  BY <1>5, <1>6

LEMMA SettleKeeps ==
  ASSUME IInv, NEW p \in Proc, Settle(p)
  PROVE  IInv'
<1> DEFINE r == run[p]
           q == Advance(p)
<1>1. r # None /\ r.status = "running" /\ r.steps[1] \in {"sync", "close"} /\ Step(p, q, link, data)
  BY DEF Settle, At
<1>2. /\ r.cmd \in Commands /\ Course(r) /\ Good(p, r, link, data)
      /\ link \in [Name -> Places] /\ data \in [1 .. Files -> Contents]
  BY <1>1, Mine
<1>3. /\ q \in Command /\ Onward(r, q) /\ q.outs = r.outs /\ q.target = r.target
      /\ q.source = r.source /\ q.read = r.read
  BY <1>1, Ready
<1> HIDE DEF r, q
<1>4. r.cmd # "rsaGenerate"
  BY <1>1, <1>2, PairStep
<1>5. /\ ~(Left(r) = Due(r.cmd, "create")) /\ ~(Left(r) = Due(r.cmd, "write"))
      /\ ~(Left(r) = Due(r.cmd, "open")) /\ ~(Left(r) = Due(r.cmd, "check"))
  BY <1>1, <1>2, <1>4, InOrder DEF Numbers
<1>6. Good(p, q, link, data)
  BY <1>1, <1>2, <1>3, <1>4, <1>5, QuietGood
<1> QED
  BY <1>1, <1>2, <1>3, <1>6, StepKeeps

LEMMA InspectKeeps ==
  ASSUME IInv, NEW p \in Proc, Inspect(p)
  PROVE  IInv'
<1> DEFINE r == run[p]
           q == Ends(p, "ok")
<1>1. /\ r # None /\ r.status = "running" /\ r.steps[1] = "inspect"
      /\ Step(p, q, link, data) \/ Step(p, Ends(p, "error"), link, data)
  BY DEF Inspect, At
<1>2. /\ r \in Command /\ r.cmd \in Commands /\ Course(r) /\ Good(p, r, link, data)
      /\ link \in [Name -> Places] /\ data \in [1 .. Files -> Contents]
  BY <1>1, Mine
<1>3. /\ q \in Command /\ q.status = "ok" /\ SameTask(r, q) /\ q.steps = r.steps
      /\ q.outs = r.outs /\ q.source = r.source /\ q.read = r.read /\ q.target = r.target
  BY <1>2, EndsIs
<1>4. r.cmd # "rsaGenerate"
  <2> HIDE DEF r
  <2> QED
    BY <1>1, <1>2, PairStep
<1>5. /\ ~(Left(r) = Due(r.cmd, "create")) /\ ~(Left(r) = Due(r.cmd, "write"))
      /\ ~(Left(r) = Due(r.cmd, "open")) /\ ~(Left(r) = Due(r.cmd, "check")) /\ Left(r) = 1
  <2> HIDE DEF r
  <2> QED
    BY <1>1, <1>2, <1>4, InOrder DEF Numbers
<1>6. CASE Step(p, q, link, data)
  <2> HIDE DEF r, q
  <2>1. Left(q) = 1 /\ Course(q)
    <3>1. Left(q) = Left(r)
      BY <1>3 DEF Left
    <3> QED
      BY <1>2, <1>3, <1>5, <3>1 DEF Course, SameTask
  <2>2. Onward(r, q)
    BY <1>3, <1>5, <2>1 DEF Onward
  <2>3. Good(p, q, link, data)
    BY <1>1, <1>2, <1>3, <1>4, <1>5, <2>2, QuietGood
  <2> QED
    BY <1>2, <1>3, <1>6, <2>3, StepKeeps
<1>7. CASE Step(p, Ends(p, "error"), link, data)
  BY <1>1, <1>5, <1>7, ErrorKeeps
<1> QED
  BY <1>1, <1>6, <1>7

\* rsa generate creates an output.
LEMMA CreatePairs ==
  ASSUME NEW p, NEW r, NEW q, NEW l \in [Name -> Places], NEW d \in [1 .. Files -> Contents],
         NEW f \in 1 .. Files, r.cmd = "rsaGenerate", Course(r), Pairs(p, r, l, d), Onward(r, q),
         r.status = "running", q.outs = r.outs, q.target = f,
         r.outs[1] \in Name, r.outs[2] \in Name, r.steps[1] = "create"
  PROVE  Pairs(p, q, [l EXCEPT ![r.outs[1]] = f], [d EXCEPT ![f] = Plain(p)])
<1> DEFINE k == [l EXCEPT ![r.outs[1]] = f]
           e == [d EXCEPT ![f] = Plain(p)]
           now == r.outs[1]
           other == r.outs[2]
<1>1. Left(r) = 4 \/ Left(r) = 2
  BY PairStep
<1>2. q.status = "running" /\ q.pair = r.pair /\ (Left(q) = 3 \/ (Left(q) = 1 /\ Left(r) = 2))
  BY <1>1 DEF Onward, SameTask
<1>3. f # None /\ k[now] = f /\ e[f] = Plain(p)
  BY WholeFileAssumption
<1>4. k[now] # k[other] => k[other] = l[other] /\ (l[other] # None => e[l[other]] = d[l[other]])
  <2> SUFFICES ASSUME k[now] # k[other]
               PROVE  k[other] = l[other] /\ (l[other] # None => e[l[other]] = d[l[other]])
    OBVIOUS
  <2>1. other # now /\ k[other] = l[other] /\ l[other] \in 1 .. Files \cup {None} /\ l[other] # f
    BY <1>3 DEF Places
  <2> QED
    BY <2>1
<1> HIDE DEF k, e, now, other
<1>5. ContentIn(k, e, now) = Plain(p)
  BY <1>3 DEF ContentIn
<1>6. k[now] # k[other] => ContentIn(k, e, other) = ContentIn(l, d, other)
  BY <1>4 DEF ContentIn
<1>7. Left(r) = 2 => ContentIn(l, d, other) = Key(r.pair, "public")
  BY DEF Pairs, other
<1>8. Left(q) # 2 /\ q.status # "ok"
  BY <1>2
<1>9. q.outs[1] = now /\ q.outs[2] = other
  BY DEF now, other
<1>10. Pairs(p, q, k, e)
  BY <1>2, <1>3, <1>5, <1>6, <1>7, <1>8, <1>9 DEF Pairs
<1> QED
  BY <1>10 DEF k, e, now

LEMMA CreateKeeps ==
  ASSUME IInv, NEW p \in Proc, Create(p)
  PROVE  IInv'
<1> DEFINE r == run[p]
           n == Head(run[p].outs)
           f == IF link[n] = None THEN CHOOSE g \in Unused : TRUE ELSE link[n]
           a == Advance(p)
           q == [a EXCEPT !.target = f, !.created = TRUE]
           l == [link EXCEPT ![n] = f]
           d == [data EXCEPT ![f] = Plain(p)]
<1>1. /\ r # None /\ r.status = "running" /\ r.steps[1] = "create" /\ Step(p, q, l, d)
      /\ link[n] = None => Unused # {}
  BY DEF Create, At
<1>2. /\ r \in Command /\ r.cmd \in Commands /\ r.in \in Name /\ r.outs \in Seq(Name)
      /\ r.outs[1] \in Name /\ (r.cmd = "rsaGenerate" => r.outs[2] \in Name)
      /\ Good(p, r, link, data) /\ Shape(r) /\ Course(r)
      /\ link \in [Name -> Places] /\ data \in [1 .. Files -> Contents]
  BY <1>1, Mine
<1>3. n = r.outs[1] /\ f \in 1 .. Files /\ (f = link[n] \/ \A m \in Name : link[m] # f)
  <2>1. n = r.outs[1] /\ link[n] \in 1 .. Files \cup {None}
    <3> HIDE DEF r
    <3>1. Len(r.outs) \in {1, 2}
      BY <1>2 DEF Shape
    <3>2. Head(r.outs) = r.outs[1] /\ link[r.outs[1]] \in 1 .. Files \cup {None}
      BY <1>2, <3>1 DEF Places
    <3> QED
      BY <3>2 DEF r
  <2>2. link[n] = None => f \in Unused
    BY <1>1
  <2> HIDE DEF n, f
  <2>3. f \in Unused => f \in 1 .. Files /\ \A m \in Name : link[m] # f
    BY DEF Unused
  <2>4. link[n] # None => f = link[n]
    BY DEF f
  <2> QED
    BY <2>1, <2>2, <2>3, <2>4
<1>4. /\ a \in Command /\ Onward(r, a) /\ a.outs = r.outs
      /\ a.source = r.source /\ a.read = r.read
  BY <1>1, Ready
<1> HIDE DEF r, n, f, a
<1>5. /\ q \in Command /\ q.target = f /\ q.source = a.source /\ q.read = a.read
      /\ q.outs = a.outs /\ q.status = a.status /\ q.steps = a.steps /\ SameTask(a, q)
  BY <1>3, <1>4 DEF Command, SameTask, Places
<1> HIDE DEF q
<1>6. Onward(r, q)
  <2>1. Left(q) = Left(a)
    BY <1>5 DEF Left
  <2>2. Course(q) /\ SameTask(r, q)
    BY <1>4, <1>5, <2>1 DEF Onward, SameTask, Course
  <2> QED
    BY <1>4, <1>5, <2>1, <2>2 DEF Onward
<1>7. l \in [Name -> Places] /\ d \in [1 .. Files -> Contents]
  BY <1>2, <1>3 DEF Places, Contents, Plain
<1>8. Shape(q) /\ (Clean(q) <=> Clean(r)) /\ q.cmd = r.cmd
  <2>1. \A i \in 1 .. Len(r.outs) : q.outs[i] \in r.names
    BY <1>2, <1>4, <1>5 DEF Shape
  <2>2. r.cmd # "rsaGenerate" =>
          IF Left(r) = Due(r.cmd, "open") THEN Readable(r.cmd, q.read) ELSE q.read = r.read
    <3> SUFFICES ASSUME r.cmd # "rsaGenerate" PROVE ~(Left(r) = Due(r.cmd, "open"))
      BY <1>4, <1>5
    <3> QED
      BY <1>1, <1>2, InOrder DEF Numbers
  <2>3. Shape(q)
    BY <1>2, <1>4, <1>5, <1>6, <2>1, <2>2, OnwardShape
  <2>4. SameTask(r, q)
    BY <1>6 DEF Onward
  <2> QED
    BY <2>3, <2>4, CleanSame DEF SameTask
<1>9. q.outs = r.outs /\ q.source = r.source /\ q.read = r.read
  BY <1>4, <1>5
<1>10. Clean(q) /\ q.cmd # "rsaGenerate" => Makes(p, q, l, d)
  <2> SUFFICES ASSUME Clean(q), q.cmd # "rsaGenerate" PROVE Makes(p, q, l, d)
    OBVIOUS
  <2>1. Making(p, r, link, data)
    BY <1>1, <1>2, <1>8 DEF Making, Good
  <2>2. r.cmd \in Gui \cup Cli => r.in # r.outs[1]
    BY <1>2 DEF Shape
  <2>3. f = link[r.outs[1]] \/ \A m \in Name : link[m] # f
    BY <1>3
  <2>4. Makes(p, q, [link EXCEPT ![r.outs[1]] = f], [data EXCEPT ![f] = Plain(p)])
    BY <1>1, <1>2, <1>3, <1>5, <1>6, <1>8, <1>9, <2>1, <2>2, <2>3, CreateMakes
  <2> QED
    BY <1>3, <2>4
<1>11. Clean(q) /\ q.cmd = "rsaGenerate" => Pairs(p, q, l, d)
  <2> SUFFICES ASSUME Clean(q), q.cmd = "rsaGenerate" PROVE Pairs(p, q, l, d)
    OBVIOUS
  <2>1. Pairs(p, r, link, data)
    BY <1>2, <1>8 DEF Good
  <2>3. f = link[r.outs[1]] \/ \A m \in Name : link[m] # f
    BY <1>3
  <2>4. Pairs(p, q, [link EXCEPT ![r.outs[1]] = f], [data EXCEPT ![f] = Plain(p)])
    BY <1>1, <1>2, <1>3, <1>5, <1>6, <1>8, <1>9, <2>1, <2>3, CreatePairs
  <2> QED
    BY <1>3, <2>4
<1> HIDE DEF l, d
<1>12. Good(p, q, l, d)
  BY <1>8, <1>10, <1>11 DEF Good
<1> QED
  BY <1>1, <1>5, <1>7, <1>12, StepKeeps DEF r

\* What a command makes is a content.
LEMMA OutputIs ==
  ASSUME NEW cmd \in Commands, NEW c \in Contents, Readable(cmd, c)
  PROVE  Output(cmd, c) \in Contents
<1>1. ~(cmd \in Adds /\ cmd \in Takes)
  BY DEF Adds, Takes
<1>2. c.layers \in Nat /\ (cmd \in Takes => c.layers > 0)
  BY DEF Contents, Readable
<1> DEFINE n == CASE cmd \in Adds -> c.layers + 1 [] cmd \in Takes -> c.layers - 1
                  [] OTHER -> c.layers
<1>3. n \in Nat
  <2>1. CASE cmd \in Adds
    BY <1>1, <1>2, <2>1
  <2>2. CASE cmd \in Takes
    BY <1>1, <1>2, <2>2
  <2>3. CASE cmd \notin Adds /\ cmd \notin Takes
    BY <1>2, <2>3
  <2> QED
    BY <2>1, <2>2, <2>3
<1>4. Output(cmd, c) = [c EXCEPT !.layers = n]
  BY Zenon DEF Output
<1> HIDE DEF n
<1> QED
  BY <1>3, <1>4 DEF Contents

\* What is written goes to a content, whatever the file had become.
LEMMA WroteIs ==
  ASSUME NEW p \in Proc, NEW c \in Contents, data \in [1 .. Files -> Contents]
  PROVE  /\ Wrote(p, c) \in [1 .. Files -> Contents]
         /\ data[run[p].target] = Plain(p) => Wrote(p, c) = [data EXCEPT ![run[p].target] = c]
<1>1. Plain(Torn) \in Contents
  BY DEF Plain, Contents
<1> QED
  BY <1>1 DEF Wrote

\* rsa generate writes a half of the pair and turns to the other output.
LEMMA WritePairs ==
  ASSUME NEW p, NEW r, NEW q, NEW l \in [Name -> Places], NEW d \in [1 .. Files -> Contents],
         r.cmd = "rsaGenerate", Course(r), Pairs(p, r, l, d), Onward(r, q),
         r.status = "running", q.outs[1] = r.outs[2], q.outs[2] = r.outs[1],
         r.outs[1] \in Name, r.outs[2] \in Name, r.steps[1] = "write"
  PROVE  /\ d[r.target] = Plain(p)
         /\ Pairs(p, q, l, [d EXCEPT ![r.target] =
                Key(r.pair, IF Left(r) > 2 THEN "public" ELSE "private")])
<1> DEFINE now == r.outs[1]
           other == r.outs[2]
           half == IF Left(r) > 2 THEN "public" ELSE "private"
           e == [d EXCEPT ![r.target] = Key(r.pair, half)]
<1>1. \/ Left(r) = 3 /\ half = "public" /\ Left(q) = 2 /\ q.status = "running"
      \/ Left(r) = 1 /\ half = "private" /\ Left(q) = 1 /\ q.status = "ok"
  BY PairStep DEF Onward
<1>2. l[now] = r.target /\ r.target # None /\ ContentIn(l, d, now) = Plain(p)
  <2>1. Left(r) \in {1, 3}
    BY <1>1
  <2> QED
    BY <2>1 DEF Pairs
<1>3. d[r.target] = Plain(p) /\ r.target \in 1 .. Files /\ q.pair = r.pair
  BY <1>2 DEF ContentIn, Places, Onward, SameTask
<1>4. ContentIn(l, e, now) = Key(r.pair, half)
  BY <1>2, <1>3 DEF ContentIn
<1>5. l[now] # l[other] => ContentIn(l, e, other) = ContentIn(l, d, other)
  <2>1. l[other] \in 1 .. Files \cup {None}
    BY DEF Places
  <2> QED
    BY <1>2, <2>1 DEF ContentIn
<1>6. Left(r) = 1 /\ l[now] # l[other] => ContentIn(l, d, other) = Key(r.pair, "public")
  BY DEF Pairs
<1>7. q.outs[1] = other /\ q.outs[2] = now
  OBVIOUS
<1> HIDE DEF e, now, other, half
<1>8. Pairs(p, q, l, e)
  <2>1. CASE Left(r) = 3 /\ half = "public" /\ Left(q) = 2 /\ q.status = "running"
    BY <1>3, <1>4, <1>7, <2>1 DEF Pairs
  <2>2. CASE Left(r) = 1 /\ half = "private" /\ Left(q) = 1 /\ q.status = "ok"
    BY <1>3, <1>4, <1>5, <1>6, <1>7, <2>2 DEF Pairs
  <2> QED
    BY <1>1, <2>1, <2>2
<1> QED
  BY <1>3, <1>8 DEF e, half

\* A command with an input writes: what it makes from what it read, unless the file it
\* reads is another one by now.
LEMMA OutputKeeps ==
  ASSUME IInv, NEW p \in Proc, At(p, "write"), run[p].cmd # "rsaGenerate", NEW c \in Contents,
         \/ c = Output(run[p].cmd, run[p].read)
         \/ run[p].cmd \in Gui \cup Cli /\ data[run[p].source] # run[p].read,
         Step(p, Written(p), link, Wrote(p, c))
  PROVE  IInv'
<1> DEFINE r == run[p]
           q == Advance(p)
           d == Wrote(p, c)
<1>1. /\ r # None /\ r.status = "running" /\ r.steps[1] = "write" /\ r.cmd # "rsaGenerate"
      /\ Step(p, q, link, d)
      /\ c = Output(r.cmd, r.read) \/ (r.cmd \in Gui \cup Cli /\ data[r.source] # r.read)
  BY DEF At, Written
<1>2. /\ r \in Command /\ r.cmd \in Commands /\ r.in \in Name /\ r.outs[1] \in Name
      /\ Good(p, r, link, data) /\ Shape(r) /\ Course(r)
      /\ link \in [Name -> Places] /\ data \in [1 .. Files -> Contents]
  BY <1>1, Mine
<1>3. /\ q \in Command /\ Onward(r, q) /\ q.outs = r.outs
      /\ q.source = r.source /\ q.read = r.read
  BY <1>1, Ready
<1>4. /\ d \in [1 .. Files -> Contents]
      /\ data[r.target] = Plain(p) => d = [data EXCEPT ![r.target] = c]
  BY <1>2, WroteIs
<1> HIDE DEF r, q, d
<1>5. Shape(q) /\ (Clean(q) <=> Clean(r)) /\ q.cmd = r.cmd
  <2>1. \A i \in 1 .. Len(r.outs) : q.outs[i] \in r.names
    BY <1>2, <1>3 DEF Shape
  <2>2. Shape(q)
    BY <1>2, <1>3, <2>1, OnwardShape, InOrder, <1>1 DEF Numbers
  <2>3. SameTask(r, q)
    BY <1>3 DEF Onward
  <2> QED
    BY <2>2, <2>3, CleanSame DEF SameTask
<1>6. ASSUME Clean(q) PROVE Makes(p, q, link, d)
  <2>1. Making(p, r, link, data)
    BY <1>1, <1>2, <1>5, <1>6 DEF Making, Good
  <2>2. /\ data[r.target] = Plain(p)
        /\ r.cmd \in Gui \cup Cli => data[r.source] = r.read
        /\ Makes(p, q, link, [data EXCEPT ![r.target] = Output(r.cmd, r.read)])
    BY <1>1, <1>2, <1>3, <2>1, WriteMakes
  <2>3. c = Output(r.cmd, r.read)
    BY <1>1, <2>2
  <2> QED
    BY <1>4, <2>2, <2>3
<1>7. Good(p, q, link, d)
  BY <1>1, <1>5, <1>6, Zenon DEF Good
<1> QED
  BY <1>1, <1>2, <1>3, <1>4, <1>7, StepKeeps

\* Two outputs change places.
LEMMA Rotated ==
  ASSUME NEW S, NEW t \in Seq(S), Len(t) = 2
  PROVE  LET u == Tail(t) \o <<Head(t)>> IN
         u \in Seq(S) /\ Len(u) = 2 /\ u[1] = t[2] /\ u[2] = t[1]
<1>1. t # << >> /\ 1 \in 1 .. Len(t) /\ 2 \in 1 .. Len(t)
  <2>1. Len(<< >>) = 0
    OBVIOUS
  <2> QED
    BY <2>1
<1>2. Tail(t) \in Seq(S) /\ Len(Tail(t)) = 1 /\ Tail(t)[1] = t[2] /\ Head(t) = t[1] /\ t[1] \in S
  BY <1>1
<1>3. ASSUME NEW u \in Seq(S), Len(u) = 1, NEW v \in S
      PROVE  /\ u \o <<v>> \in Seq(S) /\ Len(u \o <<v>>) = 2
             /\ (u \o <<v>>)[1] = u[1] /\ (u \o <<v>>)[2] = v
  <2>1. <<v>> \in Seq(S) /\ Len(<<v>>) = 1 /\ <<v>>[1] = v
    OBVIOUS
  <2>2. ASSUME NEW x \in Seq(S), Len(x) = 1
        PROVE  /\ u \o x \in Seq(S) /\ Len(u \o x) = 2
               /\ (u \o x)[1] = u[1] /\ (u \o x)[2] = x[1]
    <3>1. u \o x \in Seq(S) /\ Len(u \o x) = Len(u) + Len(x)
      OBVIOUS
    <3>2. \A i \in 1 .. Len(u) + Len(x) :
             (u \o x)[i] = IF i <= Len(u) THEN u[i] ELSE x[i - Len(u)]
      OBVIOUS
    <3> QED
      BY <1>3, <2>2, <3>1, <3>2
  <2> QED
    BY <2>1, <2>2
<1> QED
  BY <1>2, <1>3

\* rsa generate writes.
LEMMA HalfKeeps ==
  ASSUME IInv, NEW p \in Proc, At(p, "write"), run[p].cmd = "rsaGenerate",
         Step(p, Written(p), link, Wrote(p, Key(run[p].pair, Half(p))))
  PROVE  IInv'
<1> DEFINE r == run[p]
           a == Advance(p)
           q == [a EXCEPT !.outs = Tail(a.outs) \o <<Head(a.outs)>>]
           c == Key(r.pair, Half(p))
           d == Wrote(p, c)
<1>1. /\ r # None /\ r.status = "running" /\ r.steps[1] = "write" /\ r.cmd = "rsaGenerate"
      /\ Step(p, q, link, d)
  BY DEF At, Written
<1>2. /\ r \in Command /\ r.cmd \in Commands /\ r.outs \in Seq(Name)
      /\ r.outs[1] \in Name /\ r.outs[2] \in Name
      /\ Good(p, r, link, data) /\ Shape(r) /\ Course(r)
      /\ link \in [Name -> Places] /\ data \in [1 .. Files -> Contents]
  BY <1>1, Mine
<1>3. a \in Command /\ Onward(r, a) /\ a.outs = r.outs
  BY <1>1, Ready
<1>4. Half(p) = (IF Left(r) > 2 THEN "public" ELSE "private") /\ r.pair \in Nat
  <2>1. r.pair \in Nat
    <3> HIDE DEF r
    <3> QED
      BY <1>2 DEF Command
  <2> QED
    BY <2>1 DEF Half, Left
<1>5. c \in Contents
  BY <1>4 DEF Key, Plain, Contents, Keys
<1> HIDE DEF c
<1>6. /\ d \in [1 .. Files -> Contents]
      /\ data[r.target] = Plain(p) => d = [data EXCEPT ![r.target] = c]
  BY <1>2, <1>5, WroteIs
<1> HIDE DEF r, a, d
<1>7. /\ q \in Command /\ q.outs \in Seq(Name) /\ Len(q.outs) = 2
      /\ q.outs[1] = r.outs[2] /\ q.outs[2] = r.outs[1]
      /\ q.status = a.status /\ q.steps = a.steps /\ SameTask(a, q)
  <2> DEFINE s == Tail(a.outs) \o <<Head(a.outs)>>
  <2>1. Len(a.outs) = 2 /\ a.outs \in Seq(Name)
    BY <1>1, <1>2, <1>3 DEF Shape
  <2>2. s \in Seq(Name) /\ Len(s) = 2 /\ s[1] = a.outs[2] /\ s[2] = a.outs[1]
    BY <2>1, Rotated
  <2> HIDE DEF s
  <2>3. /\ q \in Command /\ q.outs = s
        /\ q.status = a.status /\ q.steps = a.steps /\ SameTask(a, q)
    BY <1>3, <2>2 DEF Command, SameTask, s
  <2> QED
    BY <1>3, <2>2, <2>3
<1> HIDE DEF q
<1>8. Onward(r, q)
  <2>1. Left(q) = Left(a)
    BY <1>7 DEF Left
  <2>2. Course(q) /\ SameTask(r, q)
    BY <1>3, <1>7, <2>1 DEF Onward, SameTask, Course
  <2> QED
    BY <1>3, <1>7, <2>1, <2>2 DEF Onward
<1>9. Shape(q) /\ (Clean(q) <=> Clean(r)) /\ q.cmd = r.cmd
  <2>1. Len(q.outs) = Len(r.outs) /\ \A i \in 1 .. Len(r.outs) : q.outs[i] \in r.names
    BY <1>1, <1>2, <1>7 DEF Shape
  <2>2. Shape(q)
    BY <1>1, <1>2, <1>8, <2>1, OnwardShape
  <2>3. SameTask(r, q)
    BY <1>8 DEF Onward
  <2> QED
    BY <2>2, <2>3, CleanSame DEF SameTask
<1>10. ASSUME Clean(q) PROVE Pairs(p, q, link, d)
  <2>1. Pairs(p, r, link, data)
    BY <1>1, <1>2, <1>9, <1>10 DEF Good
  <2>2. /\ data[r.target] = Plain(p)
        /\ Pairs(p, q, link, [data EXCEPT ![r.target] =
                Key(r.pair, IF Left(r) > 2 THEN "public" ELSE "private")])
    BY <1>1, <1>2, <1>7, <1>8, <2>1, WritePairs
  <2> QED
    BY <1>4, <1>6, <2>2 DEF c
<1>11. Good(p, q, link, d)
  BY <1>1, <1>9, <1>10, Zenon DEF Good
<1> QED
  BY <1>1, <1>2, <1>6, <1>7, <1>11, StepKeeps

LEMMA WriteKeeps ==
  ASSUME IInv, NEW p \in Proc, Write(p)
  PROVE  IInv'
<1> DEFINE r == run[p]
<1>1. At(p, "write") /\ r # None /\ r.steps[1] = "write"
  BY DEF Write, At
<1>2. r \in Command /\ r.cmd \in Commands /\ Shape(r) /\ Course(r)
  BY <1>1, Mine
<1>3. r.cmd \in Gui \cup Cli \cup Buffer <=> r.cmd # "rsaGenerate"
  BY <1>2, Dues
<1>4. CASE /\ r.cmd \in Buffer \/ (r.cmd \in Gui \cup Cli /\ data[r.source] = r.read)
           /\ Step(p, Written(p), link, Wrote(p, Output(r.cmd, r.read)))
  <2>1. r.cmd # "rsaGenerate"
    BY <1>3, <1>4
  <2>2. Output(r.cmd, r.read) \in Contents
    <3> HIDE DEF r
    <3>1. Left(r) < Due(r.cmd, "open")
      BY <1>1, <1>2, <2>1, InOrder DEF Numbers
    <3>2. Readable(r.cmd, r.read) /\ r.read \in Contents
      BY <1>2, <2>1, <3>1 DEF Shape, Command
    <3> QED
      BY <1>2, <3>2, OutputIs
  <2> QED
    BY <1>1, <1>4, <2>1, <2>2, OutputKeeps
<1>5. CASE r.cmd = "rsaGenerate" /\ Step(p, Written(p), link, Wrote(p, Key(r.pair, Half(p))))
  BY <1>1, <1>5, HalfKeeps
<1>6. CASE /\ r.cmd \in Gui \cup Cli /\ data[r.source] # r.read
           /\ Step(p, Written(p), link, Wrote(p, [text |-> Torn, layers |-> 1]))
  <2>1. r.cmd # "rsaGenerate" /\ [text |-> Torn, layers |-> 1] \in Contents
    BY <1>3, <1>6 DEF Contents
  <2> QED
    BY <1>1, <1>6, <2>1, OutputKeeps
<1> QED
  BY <1>4, <1>5, <1>6 DEF Write

\* A command that ends with an error keeps its shape, and rsa generate knows nothing more.
LEMMA StoppedGood ==
  ASSUME NEW p, NEW r, NEW q, NEW l, NEW d, Shape(r), Stopped(r, q),
         Clean(r) /\ r.cmd # "rsaGenerate" => Makes(p, q, l, d)
  PROVE  Good(p, q, l, d)
<1>1. Shape(q) /\ (Clean(q) <=> Clean(r)) /\ q.cmd = r.cmd
  BY StoppedIs DEF Stopped, SameTask
<1>2. q.status # "running" /\ q.status # "ok"
  BY DEF Stopped
<1>3. Pairs(p, q, l, d)
  BY <1>2, Zenon DEF Pairs
<1> QED
  BY <1>1, <1>3, Zenon DEF Good

LEMMA FailsKeeps ==
  ASSUME IInv, NEW p \in Proc, Fails(p)
  PROVE  IInv'
<1> DEFINE r == run[p]
           s == Ends(p, "error")
           n == Head(r.outs)
           t == [s EXCEPT !.created = TRUE]
<1>1. /\ r # None /\ r.status = "running"
      /\ \/ Step(p, s, IF Removes(p) THEN [link EXCEPT ![r.outs[1]] = None] ELSE link, data)
         \/ Removes(p) /\ Step(p, Ends(p, "left"), link, data)
         \/ /\ r.steps[1] = "create" /\ link[n] # None
            /\ Step(p, t, link, [data EXCEPT ![link[n]] = Plain(p)])
  BY DEF Fails, At
<1>2. /\ r \in Command /\ r.cmd \in Commands /\ r.in \in Name /\ r.outs[1] \in Name
      /\ Good(p, r, link, data) /\ Shape(r) /\ Course(r)
      /\ link \in [Name -> Places] /\ data \in [1 .. Files -> Contents]
  BY <1>1, Mine
<1>3. s \in Command /\ Stopped(r, s)
  BY <1>1, Ready
<1>4. Removes(p) <=> r.cmd \in Gui /\ r.steps[1] \in {"write", "sync", "close"}
  BY DEF Removes
<1>5. r.cmd \in Gui => r.cmd # "rsaGenerate"
  BY <1>2, Dues
<1>6. Clean(r) /\ r.cmd # "rsaGenerate" => Making(p, r, link, data)
  <2> HIDE DEF r
  <2> QED
    BY <1>1, <1>2 DEF Making, Good
<1>7. CASE Removes(p) /\ Step(p, s, [link EXCEPT ![r.outs[1]] = None], data)
  <2> DEFINE l == [link EXCEPT ![r.outs[1]] = None]
  <2> HIDE DEF r, s
  <2>1. Left(r) <= Due(r.cmd, "write") /\ r.in # r.outs[1]
    <3>1. Numbers(r)
      BY <1>2, <1>4, <1>5, <1>7, InOrder
    <3>2. Left(r) = Due(r.cmd, "write") \/ Left(r) < Due(r.cmd, "write")
      BY <1>4, <1>7, <3>1 DEF Numbers
    <3> QED
      BY <1>2, <1>4, <1>7, <3>1, <3>2 DEF Shape, Numbers
  <2>2. l \in [Name -> Places]
    BY <1>2 DEF Places
  <2>3. Clean(r) /\ r.cmd # "rsaGenerate" => Makes(p, s, l, data)
    BY <1>2, <1>3, <1>6, <2>1, RemovedMakes, StoppedIs
  <2> HIDE DEF l
  <2>4. Good(p, s, l, data)
    BY <1>2, <1>3, <2>3, StoppedGood
  <2> QED
    BY <1>2, <1>3, <1>7, <2>2, <2>4, StepKeeps DEF l
<1>8. CASE ~Removes(p) /\ Step(p, s, link, data)
  <2>1. r.cmd \in Gui => ~(Left(r) = Due(r.cmd, "write"))
    <3> HIDE DEF r
    <3> QED
      BY <1>2, <1>4, <1>5, <1>8, InOrder DEF Numbers
  <2> QED
    BY <1>1, <1>8, <2>1, ErrorKeeps
<1>9. CASE /\ r.steps[1] = "create" /\ link[n] # None
           /\ Step(p, t, link, [data EXCEPT ![link[n]] = Plain(p)])
  <2> DEFINE d == [data EXCEPT ![link[n]] = Plain(p)]
  <2>1. n = r.outs[1]
    <3> HIDE DEF r
    <3>1. r.outs \in Seq(Name) /\ Len(r.outs) \in {1, 2}
      BY <1>2 DEF Command, Shape
    <3> QED
      BY <3>1
  <2> HIDE DEF r, s, n
  <2>2. t \in Command /\ Stopped(r, t)
    <3>1. /\ t \in Command /\ SameTask(s, t) /\ t.status = s.status /\ t.steps = s.steps
          /\ t.outs = s.outs /\ t.source = s.source /\ t.read = s.read
      BY <1>3 DEF Command, SameTask
    <3> QED
      BY <1>3, <3>1 DEF Stopped, SameTask
  <2> HIDE DEF t
  <2>3. d \in [1 .. Files -> Contents]
    BY <1>2 DEF Plain, Contents
  <2>4. Clean(r) /\ r.cmd # "rsaGenerate" => Makes(p, t, link, d)
    <3> SUFFICES ASSUME Clean(r), r.cmd # "rsaGenerate" PROVE Makes(p, t, link, d)
      OBVIOUS
    <3>1. Making(p, r, link, data) /\ Ended(r, t)
      BY <1>2, <1>6, <2>2, StoppedIs
    <3>2. link[r.outs[1]] # None /\ r.steps[1] = "create"
      BY <1>9, <2>1
    <3>3. Makes(p, t, link, [data EXCEPT ![link[r.outs[1]]] = Plain(p)])
      BY <1>2, <3>1, <3>2, TruncatedMakes
    <3> QED
      BY <2>1, <3>3
  <2> HIDE DEF d
  <2>5. Good(p, t, link, d)
    BY <1>2, <2>2, <2>4, StoppedGood
  <2> QED
    BY <1>2, <1>9, <2>2, <2>3, <2>5, StepKeeps DEF d
<1>10. CASE Removes(p) /\ Step(p, Ends(p, "left"), link, data)
  BY <1>1, <1>4, <1>10, LeftKeeps
<1> QED
  BY <1>1, <1>7, <1>8, <1>9, <1>10

LEMMA FinishKeeps ==
  ASSUME IInv, NEW p \in Proc, Finish(p)
  PROVE  IInv'
<1>1. Step(p, None, link, data)
  BY DEF Finish
<1>2. link \in [Name -> Places] /\ data \in [1 .. Files -> Contents]
  BY DEF IInv, TypeOK
<1> QED
  BY <1>1, <1>2, StepKeeps

\* The course of a command.
LEMMA StepsAre ==
  ASSUME NEW cmd \in Commands
  PROVE  Steps(cmd) \in Seq({"check", "open", "create", "write", "sync", "close", "inspect"})
<1>1. CASE cmd \in Gui
  <2>1. ~(cmd \in Cli) /\ ~(cmd \in Buffer) /\ ~(cmd = "rsaGenerate")
    BY <1>1, Dues
  <2>2. Steps(cmd) = <<"check", "open", "create", "write", "sync", "close", "inspect">>
    BY <1>1, <2>1 DEF Steps
  <2> QED
    BY <2>2
<1>2. CASE cmd \in Cli
  <2>1. ~(cmd \in Gui) /\ ~(cmd \in Buffer) /\ ~(cmd = "rsaGenerate")
    BY <1>2, Dues
  <2>2. Steps(cmd) = <<"open", "check", "create", "write", "sync">>
    BY <1>2, <2>1 DEF Steps
  <2> QED
    BY <2>2
<1>3. CASE cmd \in Buffer
  <2>1. ~(cmd \in Gui) /\ ~(cmd \in Cli) /\ ~(cmd = "rsaGenerate")
    BY <1>3, Dues
  <2>2. Steps(cmd) = <<"open", "create", "write">>
    BY <1>3, <2>1 DEF Steps
  <2> QED
    BY <2>2
<1>4. CASE cmd = "rsaGenerate"
  <2>1. ~(cmd \in Gui) /\ ~(cmd \in Cli) /\ ~(cmd \in Buffer)
    BY <1>4, Dues
  <2>2. Steps(cmd) = <<"create", "write", "create", "write">>
    BY <1>4, <2>1 DEF Steps
  <2> QED
    BY <2>2
<1> QED
  BY <1>1, <1>2, <1>3, <1>4, Dues

\* A command that begins: its output is as it was, and it is not the input when the code
\* has to look.
LEMMA BeginKeeps ==
  ASSUME IInv, NEW p \in Proc, NEW cmd \in Commands, NEW in \in Name, NEW outs \in Seq(Name),
         Len(outs) = IF cmd = "rsaGenerate" THEN 2 ELSE 1,
         NEW force \in BOOLEAN, cmd \notin Gui \cup Cli => force,
         Begin(p, cmd, in, outs, force)
  PROVE  IInv'
<1> DEFINE r == [cmd |-> cmd, in |-> in, outs |-> outs, force |-> force, pair |-> begun + 1,
                 steps |-> Steps(cmd), status |-> "running",
                 source |-> None, read |-> Nothing, target |-> None, created |-> FALSE,
                 names |-> {in, outs[1], outs[Len(outs)]}, first |-> Content(in),
                 before |-> Content(outs[1]), same |-> SameFile(in, outs[1]), touched |-> FALSE]
<1>1. /\ run' = [run EXCEPT ![p] = r] /\ begun < Runs /\ begun' = begun + 1
      /\ link' = link /\ data' = data
      /\ cmd # "rsaGenerate" => ~Refused(cmd, in, outs[1])
  BY DEF Begin
<1>2. /\ link \in [Name -> Places] /\ data \in [1 .. Files -> Contents]
      /\ run \in [Proc -> Command \cup {None}] /\ begun \in 0 .. Runs
  BY DEF IInv, TypeOK
<1>3. outs[1] \in Name /\ outs[Len(outs)] \in Name /\ (cmd = "rsaGenerate" => Len(outs) = 2)
  OBVIOUS
<1>4. \A n \in Name : Content(n) \in Contents
  BY <1>2 DEF Content, ContentIn, Nothing, Plain, Contents, Places
<1>5. Nothing \in Contents /\ begun + 1 \in Nat /\ begun' \in 0 .. Runs
  BY <1>1, <1>2, WholeFileAssumption DEF Nothing, Plain, Contents
<1>6. Steps(cmd) \in Seq({"check", "open", "create", "write", "sync", "close", "inspect"})
  BY StepsAre
<1>7. SameFile(in, outs[1]) \in BOOLEAN
  BY DEF SameFile
<1>8. r \in Command
  BY <1>3, <1>4, <1>5, <1>6, <1>7 DEF Command, Places
<1>9. /\ r.cmd = cmd /\ r.in = in /\ r.outs = outs /\ r.force = force /\ r.steps = Steps(cmd)
      /\ r.status = "running" /\ r.names = {in, outs[1], outs[Len(outs)]}
      /\ r.first = Content(in) /\ r.before = Content(outs[1])
      /\ r.same = SameFile(in, outs[1]) /\ r.touched = FALSE
  OBVIOUS
<1> HIDE DEF r
<1>10. Course(r)
  <2>1. Left(r) = Len(Steps(cmd)) /\ Left(r) \in Nat /\ Left(r) >= 1
    <3> DEFINE m == Len(Steps(cmd))
    <3>1. m = 7 \/ m = 5 \/ m = 3 \/ m = 4
      BY Dues
    <3>2. Left(r) = m
      BY <1>9 DEF Left
    <3> HIDE DEF m
    <3> QED
      BY <3>1, <3>2 DEF m
  <2> QED
    BY <1>9, <2>1 DEF Course
<1>11. cmd # "rsaGenerate" =>
          /\ Left(r) \in Nat /\ \A s \in {"check", "open", "create", "write"} : Due(cmd, s) \in Nat
          /\ Left(r) >= Due(cmd, "check") /\ Left(r) >= Due(cmd, "open")
          /\ Left(r) > Due(cmd, "create") /\ Left(r) > Due(cmd, "write")
  <2> DEFINE m == Len(Steps(cmd))
  <2>1. Left(r) = m
    BY <1>9 DEF Left
  <2>2. cmd \in Gui => /\ m = 7 /\ Due(cmd, "check") = 7 /\ Due(cmd, "open") = 6
                       /\ Due(cmd, "create") = 5 /\ Due(cmd, "write") = 4
    BY Dues
  <2>3. cmd \in Cli => /\ m = 5 /\ Due(cmd, "check") = 4 /\ Due(cmd, "open") = 5
                       /\ Due(cmd, "create") = 3 /\ Due(cmd, "write") = 2
    BY Dues
  <2>4. cmd \in Buffer => /\ m = 3 /\ Due(cmd, "check") = 3 /\ Due(cmd, "open") = 3
                          /\ Due(cmd, "create") = 2 /\ Due(cmd, "write") = 1
    BY Dues
  <2>5. cmd # "rsaGenerate" => cmd \in Gui \/ cmd \in Cli \/ cmd \in Buffer
    BY Dues
  <2> HIDE DEF m
  <2> QED
    BY <2>1, <2>2, <2>3, <2>4, <2>5
<1>12. cmd \in Gui \cup Cli => in # outs[1] /\ (cmd \in Cli => ~SameFile(in, outs[1]))
  BY <1>1, Dues DEF Refused
<1>13. Shape(r)
  <2>1. \A i \in 1 .. Len(outs) : outs[i] \in r.names
    BY <1>9
  <2>2. ~(cmd # "rsaGenerate" /\ Left(r) < Due(cmd, "open"))
    BY <1>11
  <2> QED
    BY <1>9, <1>10, <1>12, <2>1, <2>2 DEF Shape
<1>14. Clean(r) /\ cmd # "rsaGenerate" => Makes(p, r, link, data)
  <2> SUFFICES ASSUME Clean(r), cmd # "rsaGenerate" PROVE Makes(p, r, link, data)
    OBVIOUS
  <2>1. ~Past(r, "open") /\ ~Past(r, "check") /\ ~Past(r, "create") /\ ~Past(r, "write")
    BY <1>9, <1>11 DEF Past
  <2>2. /\ ContentIn(link, data, r.in) = r.first /\ ContentIn(link, data, r.outs[1]) = r.before
        /\ r.same <=> link[r.in] # None /\ link[r.in] = link[r.outs[1]]
    BY <1>9 DEF Content, SameFile
  <2>3. Separate(r) => (link[r.in] # None => link[r.in] # link[r.outs[1]])
    <3>1. Separate(r) => ~r.same
      BY <1>9, <1>12 DEF Separate, Clean
    <3> QED
      BY <2>2, <3>1
  <2>4. r.status # "error"
    BY <1>9
  <2> QED
    BY <2>1, <2>2, <2>3, <2>4, Zenon DEF Makes
<1>15. cmd = "rsaGenerate" => Pairs(p, r, link, data)
  <2>1. cmd = "rsaGenerate" => Left(r) = 4
    BY <1>9, Dues DEF Left
  <2> QED
    BY <1>9, <2>1 DEF Pairs
<1>16. Good(p, r, link, data)
  BY <1>9, <1>13, <1>14, <1>15 DEF Good
<1>17. \A q \in Proc : run'[q] # None => Good(q, run'[q], link', data')
  BY <1>1, <1>2, <1>16 DEF IInv
<1>18. run' \in [Proc -> Command \cup {None}]
  BY <1>1, <1>2, <1>8
<1> QED
  BY <1>1, <1>2, <1>5, <1>17, <1>18 DEF IInv, TypeOK

-----------------------------------------------------------------------------
(* The theorems                                                            *)

LEMMA InitGood == Init => IInv
<1> SUFFICES ASSUME Init PROVE IInv
  OBVIOUS
<1>1. link \in [Name -> Places]
  BY WholeFileAssumption DEF Init, Places
<1>2. data \in [1 .. Files -> Contents]
  BY DEF Init, Contents, Nothing, Plain
<1>3. run \in [Proc -> Command \cup {None}] /\ \A p \in Proc : run[p] = None
  BY DEF Init
<1>4. begun \in 0 .. Runs
  BY WholeFileAssumption DEF Init
<1> QED
  BY <1>1, <1>2, <1>3, <1>4 DEF IInv, TypeOK

LEMMA NextKeeps == IInv /\ [Next]_vars => IInv'
<1> SUFFICES ASSUME IInv, [Next]_vars PROVE IInv'
  OBVIOUS
<1>1. CASE UNCHANGED vars
  BY <1>1 DEF IInv, TypeOK, vars
<1>2. CASE Next
  <2> PICK p \in Proc :
        \/ \E cmd \in Gui \cup Cli, in, out \in Name, force \in BOOLEAN :
               Begin(p, cmd, in, <<out>>, force)
        \/ \E cmd \in Buffer, in, out \in Name : Begin(p, cmd, in, <<out>>, TRUE)
        \/ \E public, private \in Name :
               Begin(p, "rsaGenerate", public, <<public, private>>, TRUE)
        \/ Check(p) \/ Open(p) \/ Create(p) \/ Write(p) \/ Settle(p) \/ Inspect(p)
        \/ Fails(p) \/ Finish(p)
    BY <1>2 DEF Next
  <2>1. ASSUME NEW cmd \in Gui \cup Cli, NEW in \in Name, NEW out \in Name, NEW force \in BOOLEAN,
               Begin(p, cmd, in, <<out>>, force)
        PROVE  IInv'
    <3>1. cmd \in Commands /\ cmd # "rsaGenerate"
      BY DEF Commands, Gui, Cli
    <3>2. <<out>> \in Seq(Name) /\ Len(<<out>>) = 1
      OBVIOUS
    <3> QED
      BY <2>1, <3>1, <3>2, BeginKeeps
  <2>2. ASSUME NEW cmd \in Buffer, NEW in \in Name, NEW out \in Name,
               Begin(p, cmd, in, <<out>>, TRUE)
        PROVE  IInv'
    <3>1. cmd \in Commands /\ cmd # "rsaGenerate"
      BY DEF Commands, Buffer
    <3>2. <<out>> \in Seq(Name) /\ Len(<<out>>) = 1
      OBVIOUS
    <3> QED
      BY <2>2, <3>1, <3>2, BeginKeeps
  <2>3. ASSUME NEW public \in Name, NEW private \in Name,
               Begin(p, "rsaGenerate", public, <<public, private>>, TRUE)
        PROVE  IInv'
    <3>1. "rsaGenerate" \in Commands
      BY DEF Commands
    <3>2. <<public, private>> \in Seq(Name) /\ Len(<<public, private>>) = 2
      OBVIOUS
    <3> QED
      BY <2>3, <3>1, <3>2, BeginKeeps
  <2> QED
    BY <2>1, <2>2, <2>3, CheckKeeps, OpenKeeps, CreateKeeps, WriteKeeps, SettleKeeps,
       InspectKeeps, FailsKeeps, FinishKeeps
<1> QED
  BY <1>1, <1>2

\* What every command knows of its input and its outputs holds at every point of every
\* run of the program, however the processes take turns, fail and die.
THEOREM Inductive == Spec => []IInv
  BY InitGood, NextKeeps, PTL DEF Spec

\* Every variable keeps its type: the commands of gui/deflate_service.go and
\* internal/cli stay within their records, and no content gets a negative layer.
THEOREM TypeCorrect == Spec => []TypeOK
<1>1. IInv => TypeOK
  BY DEF IInv
<1> QED
  BY <1>1, Inductive, PTL

\* What is known of a command that the properties speak of.
LEMMA FairIs ==
  ASSUME IInv, NEW p \in Proc, Fair(p)
  PROVE  /\ run[p].cmd \in Commands /\ Shape(run[p]) /\ Course(run[p])
         /\ run[p].cmd # "rsaGenerate" => Makes(p, run[p], link, data)
         /\ run[p].cmd = "rsaGenerate" => Pairs(p, run[p], link, data)
<1>1. run[p] # None /\ Clean(run[p])
  BY DEF Fair, Clean
<1> QED
  BY <1>1, Mine DEF Good

\* The input of a command is at every point as it was, and without overwrite (-force) so
\* is what had the name of the output: PackDeflate and UnpackDeflate of the editor, the
\* deflate, zlib, aes and rsa commands and list get of the command line.
THEOREM InputsAreKept == Spec => []InputKept
<1>1. ASSUME IInv PROVE InputKept
  <2> SUFFICES ASSUME NEW p \in Proc, Fair(p)
               PROVE  LET r == run[p] IN
                      /\ r.cmd \in Gui \cup Cli \/ (r.cmd \in Buffer /\ ~r.same /\ r.in # r.outs[1]) =>
                             Content(r.in) = r.first
                      /\ ~r.force /\ r.before # Nothing => Content(r.outs[1]) = r.before
    BY DEF InputKept
  <2> DEFINE r == run[p]
  <2>1. /\ r.cmd \in Commands /\ Shape(r) /\ Course(r)
        /\ r.cmd # "rsaGenerate" => Makes(p, r, link, data)
    BY <1>1, FairIs
  <2> HIDE DEF r
  <2>2. r.cmd \in Gui \cup Cli \cup Buffer => r.cmd # "rsaGenerate"
    BY <2>1, Dues
  <2>3. Separate(r) => Content(r.in) = r.first
    <3>1. Separate(r) => r.cmd \in Gui \cup Cli \cup Buffer
      BY DEF Separate
    <3> QED
      BY <2>1, <2>2, <3>1, Zenon DEF Makes, Content
  <2>4. ASSUME ~r.force, r.before # Nothing
        PROVE  Content(r.outs[1]) = r.before
    <3>1. r.cmd \in Gui \cup Cli
      BY <2>1, <2>4, Zenon DEF Shape
    <3>2. Makes(p, r, link, data) /\ Numbers(r)
      BY <2>1, <2>2, <3>1, InOrder
    <3>3. ~Past(r, "check")
      BY <2>4, <3>2, Zenon DEF Makes
    <3>4. Before(r)
      BY <3>2, <3>3 DEF Past, Before, Numbers
    <3> QED
      BY <3>2, <3>4, Zenon DEF Makes, Content
  <2> QED
    BY <2>3, <2>4 DEF r, Separate
<1> QED
  BY <1>1, Inductive, PTL

\* A command that exits with success has made the whole output from the input it was
\* given; rsa generate has written two halves that belong together.
THEOREM ExitIsTrue == Spec => []ExitTellsTruth
<1>1. ASSUME IInv PROVE ExitTellsTruth
  <2> SUFFICES ASSUME NEW p \in Proc, Fair(p), run[p].status = "ok"
               PROVE  LET r == run[p] IN
                      IF r.cmd # "rsaGenerate" THEN Content(r.outs[1]) = Output(r.cmd, r.first)
                      ELSE LET public == r.outs[1]
                               private == r.outs[2] IN
                           /\ Content(private) = Key(r.pair, "private")
                           /\ link[public] # link[private] => Content(public) = Key(r.pair, "public")
    BY DEF ExitTellsTruth
  <2> DEFINE r == run[p]
  <2>1. /\ r.cmd # "rsaGenerate" => Makes(p, r, link, data)
        /\ r.cmd = "rsaGenerate" => Pairs(p, r, link, data)
        /\ r.status = "ok"
    BY <1>1, FairIs
  <2> HIDE DEF r
  <2>2. Past(r, "write") /\ r.status # "error"
    BY <2>1 DEF Past
  <2>3. r.cmd # "rsaGenerate" => Content(r.outs[1]) = Output(r.cmd, r.first)
    BY <2>1, <2>2, Zenon DEF Makes, Content
  <2>4. r.cmd = "rsaGenerate" =>
           /\ Content(r.outs[2]) = Key(r.pair, "private")
           /\ link[r.outs[1]] # link[r.outs[2]] => Content(r.outs[1]) = Key(r.pair, "public")
    BY <2>1, Zenon DEF Pairs, Content
  <2> QED
    BY <2>3, <2>4 DEF r
<1> QED
  BY <1>1, Inductive, PTL

\* After an error of PackDeflate or UnpackDeflate the output is as it was, gone, or whole;
\* a file cut short is left only by a creation that failed, or where the removal failed too
\* (gui/deflate_service.go ignores the error of os.Remove).
THEOREM NoCutFileIsLeft == Spec => []NoPartialLeft
<1>1. ASSUME IInv PROVE NoPartialLeft
  <2> SUFFICES ASSUME NEW p \in Proc, Fair(p), run[p].status = "error", run[p].cmd \in Gui
               PROVE  \/ Content(run[p].outs[1]) \in
                            {run[p].before, Nothing, Output(run[p].cmd, run[p].first)}
                      \/ run[p].steps[1] = "create"
    BY DEF NoPartialLeft
  <2> DEFINE r == run[p]
  <2>1. r.cmd \in Commands /\ (r.cmd # "rsaGenerate" => Makes(p, r, link, data))
        /\ r.status = "error" /\ r.cmd \in Gui
    BY <1>1, FairIs
  <2> HIDE DEF r
  <2>2. Makes(p, r, link, data)
    BY <2>1, Dues
  <2> QED
    BY <2>1, <2>2, Zenon DEF Makes, Content, r
<1> QED
  BY <1>1, Inductive, PTL
=============================================================================
