------------------------------- MODULE Window -------------------------------
(***************************************************************************)
(* What the table half and the list half of the editor window share        *)
(* (gui/frontend/src/App.tsx).                                             *)
(*                                                                         *)
(* A handler of the window is a sequence of calls of the service with the  *)
(* window free in between: the user goes on, other answers come first. A   *)
(* call is a request and, later, its answer.                               *)
(***************************************************************************)
EXTENDS Integers, FiniteSets

CONSTANTS
    Path,    \* the files
    Slot,    \* one for each handler under way at a time
    Faults,  \* "call": any request can fail
    Error,   \* the answer of a request that failed
    None

VARIABLES
    sessions,  \* the open files, a.tables or a.lists
    win,       \* the state of App.tsx
    call,      \* per slot the handler under way, or None
    doubt      \* history: what may have made the window untrue, and no reload since

Idle == \A s \in Slot : call[s] = None

\* The service has still to answer this request.
Pending(s, req) == call[s] # None /\ call[s].req = req /\ call[s].answer = None

Answer(s, a) == call' = [call EXCEPT ![s].answer = a]

\* The answer to this request is there.
Answered(s, req) == call[s] # None /\ call[s].req = req /\ call[s].answer # None

Ok(s) == call[s].answer # Error

\* No dialog is in front of the page; behind one, drops and shortcuts go on.
Uncovered == win.confirm = None

Busy(b) == win' = [win EXCEPT !.busy = b]
=============================================================================
