------------------------------- MODULE Broker -------------------------------
(***************************************************************************)
(* The execution broker, docker/broker/broker.py.                          *)
(*                                                                         *)
(* A ThreadingHTTPServer runs every POST /run on a thread of its own.  The *)
(* threads share two things: the dictionary of Spark sessions, one per     *)
(* connect_url, and sys.stdout, which redirect_stdout replaces for the     *)
(* whole process while a cell runs.  Here a thread is the cell it executes *)
(* and every access to something shared is one action.                     *)
(*                                                                         *)
(* What a cell prints is counted line by line: a buffer says how many      *)
(* lines of each cell it has received.  A session goes by the name of the  *)
(* cell that created it.                                                   *)
(***************************************************************************)
EXTENDS Naturals

CONSTANTS
    Cells,          \* the requests, each served once, by a thread of its own
    Urls,           \* connect_urls
    UrlOf,          \* [Cells -> Urls]
    MaxLines,       \* a cell prints at most so many lines
    Restarts,       \* whether the process may be killed and started again
    Console,        \* the stream that is sys.stdout at first
    None            \* no session, no answer

ASSUME ConstantsAssumption ==
    /\ UrlOf \in [Cells -> Urls]
    /\ MaxLines \in Nat
    /\ Restarts \in BOOLEAN
    /\ Console \notin Cells /\ None \notin Cells

VARIABLES
    pc,             \* where each thread is
    sessions,       \* _sessions
    spark,          \* the session each thread has got
    stdout,         \* sys.stdout: the console or the buffer of a cell
    saved,          \* what the redirect_stdout of a cell will put back
    buffer,         \* [cell -> lines of each cell written to its StringIO]
    answer          \* what a cell was answered: output and error

\* History variables, read by properties only.
VARIABLES
    printed,        \* the lines each cell has printed
    overlapped,     \* cells whose redirection overlapped another one
    raced           \* connect_urls for which two threads missed at once

history == <<printed, overlapped, raced>>
vars == <<pc, sessions, spark, stdout, saved, buffer, answer, history>>

Lines == [Cells -> 0 .. MaxLines]
NoLines == [d \in Cells |-> 0]
Answers == [stdout : Lines, error : BOOLEAN]
PCs == {"idle", "lookup", "connect", "save", "redirect", "exec",
        "collect", "fail", "done"}

\* Threads in "with redirect_stdout(buf)", from __enter__ to __exit__.
Inside == {c \in Cells : pc[c] \in {"redirect", "exec"}}

\* Threads that have missed u in _sessions and are creating its session.
Creating(u) == {c \in Cells : pc[c] = "connect" /\ UrlOf[c] = u}

Goto(c, there) == pc' = [pc EXCEPT ![c] = there]

-----------------------------------------------------------------------------
\* do_POST: a request with both fields; any other one is answered with 400.
Receive(c) ==
    /\ pc[c] = "idle"
    /\ Goto(c, "lookup")
    /\ UNCHANGED <<sessions, spark, stdout, saved, buffer, answer, history>>

\* _session: a hit goes on to the cell, a miss has a session to create.
Lookup(c) ==
    /\ pc[c] = "lookup"
    /\ LET u == UrlOf[c] IN
       \/ /\ sessions[u] # None
          /\ spark' = [spark EXCEPT ![c] = sessions[u]]
          /\ Goto(c, "save")
          /\ UNCHANGED raced
       \/ /\ sessions[u] = None
          /\ raced' = IF Creating(u) = {} THEN raced ELSE raced \cup {u}
          /\ Goto(c, "connect")
          /\ UNCHANGED spark
    /\ UNCHANGED <<sessions, stdout, saved, buffer, answer, printed, overlapped>>

\* Mutant: the session is not put into the dictionary.
ConnectUncached(c) ==
    /\ pc[c] = "connect"
    /\ \/ /\ spark' = [spark EXCEPT ![c] = c]
          /\ Goto(c, "save")
       \/ Goto(c, "fail") /\ UNCHANGED spark
    /\ UNCHANGED <<sessions, stdout, saved, buffer, answer, history>>

\* The session is created and cached, or getOrCreate raises and nothing is.
Connect(c) ==
    /\ pc[c] = "connect"
    /\ \/ /\ sessions' = [sessions EXCEPT ![UrlOf[c]] = c]
          /\ spark' = [spark EXCEPT ![c] = c]
          /\ Goto(c, "save")
       \/ Goto(c, "fail") /\ UNCHANGED <<sessions, spark>>
    /\ UNCHANGED <<stdout, saved, buffer, answer, history>>

\* redirect_stdout.__enter__ keeps the stream that is current now.
Save(c) ==
    /\ pc[c] = "save"
    /\ saved' = [saved EXCEPT ![c] = stdout]
    /\ overlapped' = IF Inside = {} THEN overlapped
                     ELSE overlapped \cup Inside \cup {c}
    /\ Goto(c, "redirect")
    /\ UNCHANGED <<sessions, spark, stdout, buffer, answer, printed, raced>>

\* Mutant: a redirection that is in place is left in place.
RedirectOnce(c) ==
    /\ pc[c] = "redirect"
    /\ stdout' = IF stdout = Console THEN c ELSE stdout
    /\ Goto(c, "exec")
    /\ UNCHANGED <<sessions, spark, saved, buffer, answer, history>>

\* Then it puts the buffer in its place.
Redirect(c) ==
    /\ pc[c] = "redirect"
    /\ stdout' = c
    /\ Goto(c, "exec")
    /\ UNCHANGED <<sessions, spark, saved, buffer, answer, history>>

\* Mutant: the line reaches the stream twice.
PrintLineTwice(c) ==
    /\ pc[c] = "exec" /\ printed[c] < MaxLines
    /\ printed' = [printed EXCEPT ![c] = @ + 1]
    /\ buffer' = IF stdout = Console THEN buffer
                 ELSE [buffer EXCEPT ![stdout][c] = @ + 2]
    /\ UNCHANGED <<pc, sessions, spark, stdout, saved, answer, overlapped, raced>>

\* The cell prints a line, to the stream that is current now.
PrintLine(c) ==
    /\ pc[c] = "exec" /\ printed[c] < MaxLines
    /\ printed' = [printed EXCEPT ![c] = @ + 1]
    /\ buffer' = IF stdout = Console THEN buffer
                 ELSE [buffer EXCEPT ![stdout][c] = @ + 1]
    /\ UNCHANGED <<pc, sessions, spark, stdout, saved, answer, overlapped, raced>>

\* Mutant: a cell that raises leaves its buffer in place.
LeaveUnrestored(c) ==
    /\ pc[c] = "exec"
    /\ \E there \in {"collect", "fail", "done"} :
           /\ Goto(c, there)
           /\ stdout' = IF there = "collect" THEN saved[c] ELSE stdout
    /\ UNCHANGED <<sessions, spark, saved, buffer, answer, history>>

\* The cell ends or raises, and __exit__ puts back what __enter__ has kept.
\* SystemExit is no Exception: _run does not catch it and the thread ends.
Leave(c) ==
    /\ pc[c] = "exec"
    /\ stdout' = saved[c]
    /\ \E there \in {"collect", "fail", "done"} : Goto(c, there)
    /\ UNCHANGED <<sessions, spark, saved, buffer, answer, history>>

\* getvalue of the buffer, with or without a traceback, is the answer.
Collect(c) ==
    /\ pc[c] \in {"collect", "fail"}
    /\ answer' = [answer EXCEPT ![c] = [stdout |-> buffer[c], error |-> pc[c] = "fail"]]
    /\ Goto(c, "done")
    /\ UNCHANGED <<sessions, spark, stdout, saved, buffer, history>>

\* The process dies with its threads; the next one starts with nothing.
Restart ==
    /\ Restarts
    /\ pc' = [c \in Cells |-> IF pc[c] = "idle" THEN "idle" ELSE "done"]
    /\ sessions' = [u \in Urls |-> None]
    /\ spark' = [c \in Cells |-> None]
    /\ stdout' = Console
    /\ raced' = {}
    /\ UNCHANGED <<saved, buffer, answer, printed, overlapped>>

-----------------------------------------------------------------------------
Init ==
    /\ pc = [c \in Cells |-> "idle"]
    /\ sessions = [u \in Urls |-> None]
    /\ spark = [c \in Cells |-> None]
    /\ stdout = Console
    /\ saved = [c \in Cells |-> Console]
    /\ buffer = [c \in Cells |-> NoLines]
    /\ answer = [c \in Cells |-> None]
    /\ printed = NoLines
    /\ overlapped = {}
    /\ raced = {}

Thread(c) ==
    \/ Receive(c) \/ Lookup(c) \/ Connect(c) \/ Save(c) \/ Redirect(c)
    \/ PrintLine(c) \/ Leave(c) \/ Collect(c)

Next == Restart \/ \E c \in Cells : Thread(c)

Spec == Init /\ [][Next]_vars

-----------------------------------------------------------------------------
(* Properties.                                                             *)

\* Well-formedness of the state: every buffer holds no more lines of a cell
\* than the cell has printed.
TypeOK ==
    /\ pc \in [Cells -> PCs]
    /\ sessions \in [Urls -> Cells \cup {None}]
    /\ spark \in [Cells -> Cells \cup {None}]
    /\ stdout \in Cells \cup {Console}
    /\ saved \in [Cells -> Cells \cup {Console}]
    /\ buffer \in [Cells -> Lines]
    /\ answer \in [Cells -> Answers \cup {None}]
    /\ printed \in Lines
    /\ overlapped \subseteq Cells /\ raced \subseteq Urls
    /\ \A c, d \in Cells : buffer[d][c] <= printed[c]

\* What c has printed and nothing else.
OwnLines(c) == [d \in Cells |-> IF d = c THEN printed[c] ELSE 0]

\* A cell is answered with exactly what it printed, unless another cell ran
\* at the same time: what other cells left in sys.stdout earlier, raising or
\* not, does not matter to it (redirect_stdout in _run).
AloneGetsItsOutput ==
    \A c \in Cells \ overlapped :
        answer[c] # None => answer[c].stdout = OwnLines(c)

\* When no cell runs, sys.stdout is the console's again, unless cells have
\* overlapped: then it may stay the buffer of one of those, and only theirs.
RestoredUnlessOverlapped ==
    Inside = {} => stdout \in {Console} \cup overlapped

\* All cells on one connect_url run on one session, the one in _sessions, as
\* long as no two threads missed that url at the same time.
SessionSharedUnlessRaced ==
    \A c \in Cells :
        spark[c] # None /\ UrlOf[c] \notin raced => spark[c] = sessions[UrlOf[c]]
=============================================================================
