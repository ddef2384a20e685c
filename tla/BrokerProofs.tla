---------------------------- MODULE BrokerProofs ----------------------------
(***************************************************************************)
(* Proofs about Broker, for any number of cells, connect_urls and lines.   *)
(*                                                                         *)
(* TypeOK is inductive.  What a lone cell is answered follows from Capture:*)
(* sys.stdout is the buffer of a cell that did not overlap only while that *)
(* cell runs, and no other cell keeps that buffer to put it back later.    *)
(***************************************************************************)
EXTENDS Broker, TLAPS

-----------------------------------------------------------------------------
(* Type correctness.                                                       *)

LEMMA TypeInit == Init => TypeOK
  BY ConstantsAssumption DEF Init, TypeOK, Lines, NoLines, PCs

LEMMA TypePrint ==
    ASSUME TypeOK, NEW c \in Cells, PrintLine(c)
    PROVE  TypeOK'
  <1> USE DEF TypeOK
  <1>1. printed[c] \in Nat /\ printed[c] + 1 \in 0 .. MaxLines
    BY ConstantsAssumption DEF PrintLine, Lines
  <1>2. printed' \in Lines /\ \A d \in Cells : printed[d] <= printed'[d]
    BY <1>1, ConstantsAssumption DEF PrintLine, Lines
  <1>3. CASE stdout = Console
    <2>1. buffer' = buffer
      BY <1>3 DEF PrintLine
    <2>2. \A x, d \in Cells : buffer'[d][x] <= printed'[x]
      <3> SUFFICES ASSUME NEW x \in Cells, NEW d \in Cells
                   PROVE  buffer[d][x] <= printed'[x]
        BY <2>1
      <3>1. buffer[d][x] \in Nat /\ printed[x] \in Nat /\ printed'[x] \in Nat
        BY <1>2, ConstantsAssumption DEF Lines
      <3> QED
        BY <3>1, <1>2
    <2> QED
      BY <1>2, <2>1, <2>2 DEF PrintLine, history
  <1>4. CASE stdout \in Cells
    <2>1. buffer' = [buffer EXCEPT ![stdout] = [buffer[stdout] EXCEPT ![c] = @ + 1]]
      BY <1>4, ConstantsAssumption DEF PrintLine
    <2>2. buffer[stdout] \in Lines /\ buffer[stdout][c] \in Nat
      BY <1>4, ConstantsAssumption DEF Lines
    <2>3. buffer[stdout][c] + 1 \in 0 .. MaxLines
      BY <1>1, <1>4, <2>2, ConstantsAssumption
    <2>4. buffer' \in [Cells -> Lines]
      BY <1>4, <2>1, <2>2, <2>3 DEF Lines
    <2>5. \A x, d \in Cells : buffer'[d][x] <= printed'[x]
      <3> SUFFICES ASSUME NEW x \in Cells, NEW d \in Cells
                   PROVE  buffer'[d][x] <= printed'[x]
        OBVIOUS
      <3>1. /\ buffer[d][x] \in Nat /\ printed[x] \in Nat /\ printed'[x] \in Nat
            /\ buffer[d][x] <= printed[x] /\ printed[x] <= printed'[x]
        BY <1>2, ConstantsAssumption DEF Lines
      <3>2. CASE d = stdout /\ x = c
        <4>1. buffer'[d][x] = buffer[d][x] + 1
          BY <2>1, <2>2, <3>2, <1>4 DEF Lines
        <4>2. printed'[x] = printed[x] + 1
          BY <3>2 DEF PrintLine, Lines
        <4> QED
          BY <3>1, <4>1, <4>2
      <3>3. CASE ~(d = stdout /\ x = c)
        <4>1. buffer'[d][x] = buffer[d][x]
          BY <2>1, <2>2, <3>3, <1>4 DEF Lines
        <4> QED
          BY <3>1, <4>1
      <3> QED
        BY <3>2, <3>3
    <2> QED
      BY <1>2, <2>4, <2>5 DEF PrintLine, history
  <1> QED
    BY <1>3, <1>4

LEMMA TypeThread ==
    ASSUME TypeOK, NEW c \in Cells, Thread(c)
    PROVE  TypeOK'
  <1> USE DEF TypeOK, history, Goto, PCs
  <1>1. CASE Receive(c)
    BY <1>1 DEF Receive
  <1>2. CASE Lookup(c)
    <2>1. UrlOf[c] \in Urls
      BY ConstantsAssumption
    <2> QED
      BY <1>2, <2>1 DEF Lookup
  <1>3. CASE Connect(c)
    BY <1>3 DEF Connect
  <1>4. CASE Save(c)
    <2>1. overlapped' \subseteq Cells
      BY <1>4 DEF Save, Inside
    <2> QED
      BY <1>4, <2>1 DEF Save
  <1>5. CASE Redirect(c)
    BY <1>5 DEF Redirect
  <1>6. CASE PrintLine(c)
    BY <1>6, TypePrint
  <1>7. CASE Leave(c)
    BY <1>7 DEF Leave
  <1>8. CASE Collect(c)
    <2>1. [stdout |-> buffer[c], error |-> pc[c] = "fail"] \in Answers
      BY DEF Answers
    <2> QED
      BY <1>8, <2>1 DEF Collect
  <1> QED
    BY <1>1, <1>2, <1>3, <1>4, <1>5, <1>6, <1>7, <1>8 DEF Thread

LEMMA TypeRestart == TypeOK /\ Restart => TypeOK'
  BY DEF TypeOK, Restart, PCs

LEMMA TypeStep == TypeOK /\ [Next]_vars => TypeOK'
  <1> SUFFICES ASSUME TypeOK, [Next]_vars
               PROVE  TypeOK'
    OBVIOUS
  <1>1. CASE UNCHANGED vars
    BY <1>1 DEF vars, history, TypeOK
  <1> QED
    BY <1>1, TypeThread, TypeRestart DEF Next

\* The state of the broker is well formed, and no buffer holds more lines of a
\* cell than that cell has printed: no print of broker.py is counted twice.
THEOREM TypeCorrect == Spec => []TypeOK
  BY TypeInit, TypeStep, PTL DEF Spec

-----------------------------------------------------------------------------
(* Captured output.                                                        *)

\* Two cells that run at the same time have overlapped.
Apart == \A c, d \in Inside : c # d => c \in overlapped

\* sys.stdout is the buffer of a cell that has not overlapped exactly while
\* that cell executes, and no cell will put such a buffer back.
Streams ==
    /\ \A c \in Cells \ overlapped : stdout = c <=> pc[c] = "exec"
    /\ \A c \in Inside : saved[c] \in {Console} \cup overlapped

\* A cell that has not overlapped has its own lines in its buffer.
OwnBuffers == \A c \in Cells \ overlapped : buffer[c] = OwnLines(c)

\* The answer is the last thing a thread makes.
AnsweredLast == \A c \in Cells : answer[c] # None => pc[c] = "done"

Capture ==
    Apart /\ Streams /\ OwnBuffers /\ AnsweredLast /\ AloneGetsItsOutput

LEMMA CaptureInit == Init => Capture
  BY ConstantsAssumption DEF Init, Capture, Apart, Streams, OwnBuffers, AnsweredLast,
     AloneGetsItsOutput, Inside, OwnLines, NoLines

\* Steps that move a thread outside the redirection, and print nothing.
LEMMA CaptureElsewhere ==
    ASSUME TypeOK, Capture, NEW c \in Cells, NEW there \in {"lookup", "connect", "save", "fail"},
           pc[c] \in {"idle", "lookup", "connect"}, Goto(c, there),
           UNCHANGED <<stdout, saved, buffer, answer, printed, overlapped>>
    PROVE  Capture'
  <1>1. /\ \A d \in Cells : pc'[d] = "exec" <=> pc[d] = "exec"
        /\ \A d \in Cells : pc'[d] = "redirect" <=> pc[d] = "redirect"
        /\ \A d \in Cells : pc[d] = "done" => pc'[d] = "done"
    BY DEF TypeOK, Goto
  <1>2. Inside' = Inside
    BY <1>1 DEF Inside
  <1> QED
    BY <1>1, <1>2 DEF Capture, Apart, Streams, OwnBuffers, AnsweredLast,
       AloneGetsItsOutput, OwnLines

LEMMA CaptureSave ==
    ASSUME TypeOK, Capture, NEW c \in Cells, Save(c)
    PROVE  Capture'
  <1>1. /\ pc' = [pc EXCEPT ![c] = "redirect"] /\ pc[c] = "save"
        /\ Inside' = Inside \cup {c} /\ c \notin Inside
    BY DEF Save, Goto, TypeOK, Inside
  <1>2. overlapped \subseteq overlapped'
    BY DEF Save
  <1>3. Inside # {} => Inside' \subseteq overlapped'
    BY <1>1 DEF Save
  <1>4. Apart'
    <2>1. CASE Inside = {}
      BY <1>1, <2>1 DEF Apart
    <2>2. CASE Inside # {}
      BY <1>3, <2>2 DEF Apart
    <2> QED
      BY <2>1, <2>2
  <1>5. Streams'
    <2>1. \A d \in Cells \ overlapped' : stdout' = d <=> pc'[d] = "exec"
      BY <1>1, <1>2 DEF Capture, Streams, Save, TypeOK
    <2>2. stdout \in {Console} \cup overlapped'
      <3>1. CASE stdout \in Cells \ overlapped
        <4>1. stdout \in Inside
          BY <3>1 DEF Capture, Streams, Inside
        <4> QED
          BY <4>1, <1>3, <1>1
      <3> QED
        BY <3>1, <1>2 DEF TypeOK
    <2>3. \A d \in Inside' : saved'[d] \in {Console} \cup overlapped'
      BY <1>1, <1>2, <2>2 DEF Capture, Streams, Save, TypeOK, Inside
    <2> QED
      BY <2>1, <2>3 DEF Streams
  <1> QED
    BY <1>1, <1>2, <1>4, <1>5 DEF Capture, OwnBuffers, AnsweredLast, AloneGetsItsOutput,
       OwnLines, Save, TypeOK

LEMMA CaptureRedirect ==
    ASSUME TypeOK, Capture, NEW c \in Cells, Redirect(c)
    PROVE  Capture'
  <1>1. /\ pc' = [pc EXCEPT ![c] = "exec"] /\ pc[c] = "redirect"
        /\ Inside' = Inside /\ c \in Inside
    BY DEF Redirect, Goto, TypeOK, Inside
  <1>2. \A d \in Cells \ overlapped : d # c => pc[d] # "exec"
    BY <1>1 DEF Capture, Apart, Inside
  <1>3. Streams'
    BY <1>1, <1>2 DEF Capture, Streams, Redirect, history, TypeOK
  <1> QED
    BY <1>1, <1>3 DEF Capture, Apart, OwnBuffers, AnsweredLast, AloneGetsItsOutput,
       OwnLines, Redirect, history, TypeOK

LEMMA CapturePrint ==
    ASSUME TypeOK, Capture, NEW c \in Cells, PrintLine(c)
    PROVE  Capture'
  <1>1. /\ pc' = pc /\ pc[c] = "exec" /\ c \in Inside /\ stdout' = stdout
        /\ saved' = saved /\ overlapped' = overlapped /\ answer' = answer
    BY DEF PrintLine, Inside
  <1>2. Inside' = Inside
    BY <1>1 DEF Inside
  <1>3. \A d \in Cells \ overlapped : stdout = d => d = c
    BY <1>1 DEF Capture, Apart, Streams, Inside
  <1>4. c \notin overlapped => stdout = c
    BY <1>1 DEF Capture, Streams
  <1>5. ASSUME NEW d \in Cells \ overlapped
        PROVE  /\ buffer'[d] = OwnLines(d)'
               /\ d # c => OwnLines(d)' = OwnLines(d)
    <2>1. /\ printed' = [printed EXCEPT ![c] = printed[c] + 1]
          /\ printed[c] \in Nat /\ printed \in [Cells -> 0 .. MaxLines]
      BY ConstantsAssumption DEF PrintLine, TypeOK, Lines
    <2>2. buffer[d] = OwnLines(d)
      BY DEF Capture, OwnBuffers
    <2>3. CASE d # c
      <3>1. OwnLines(d)' = OwnLines(d)
        BY <2>1, <2>3 DEF OwnLines
      <3>2. buffer'[d] = buffer[d]
        BY <1>3, <2>3 DEF PrintLine, TypeOK
      <3> QED
        BY <2>2, <3>1, <3>2
    <2>4. CASE d = c
      <3>1. buffer' = [buffer EXCEPT ![c] = [buffer[c] EXCEPT ![c] = buffer[c][c] + 1]]
        <4>1. stdout = c /\ stdout # Console
          BY <1>4, <2>4, ConstantsAssumption
        <4> QED
          BY <4>1 DEF PrintLine
      <3>2. buffer'[c] = [OwnLines(c) EXCEPT ![c] = printed[c] + 1]
        BY <3>1, <2>2, <2>4 DEF OwnLines, TypeOK
      <3>3. OwnLines(c)' = [OwnLines(c) EXCEPT ![c] = printed[c] + 1]
        BY <2>1 DEF OwnLines
      <3> QED
        BY <3>2, <3>3, <2>4
    <2> QED
      BY <2>3, <2>4
  <1>6. OwnBuffers'
    BY <1>1, <1>5 DEF OwnBuffers
  <1>7. AloneGetsItsOutput'
    <2> SUFFICES ASSUME NEW d \in Cells \ overlapped, answer[d] # None
                 PROVE  answer[d].stdout = OwnLines(d)'
      BY <1>1 DEF AloneGetsItsOutput
    <2>1. d # c
      BY <1>1 DEF Capture, AnsweredLast
    <2> QED
      BY <2>1, <1>5 DEF Capture, AloneGetsItsOutput
  <1> QED
    BY <1>1, <1>2, <1>6, <1>7 DEF Capture, Apart, Streams, AnsweredLast

LEMMA CaptureLeave ==
    ASSUME TypeOK, Capture, NEW c \in Cells, Leave(c)
    PROVE  Capture'
  <1>1. PICK there \in {"collect", "fail", "done"} : pc' = [pc EXCEPT ![c] = there]
    BY DEF Leave, Goto
  <1>2. /\ pc[c] = "exec" /\ c \in Inside /\ Inside' = Inside \ {c}
        /\ \A d \in Cells : pc'[d] = "exec" <=> pc[d] = "exec" /\ d # c
    BY <1>1 DEF Leave, Inside, TypeOK
  <1>3. \A d \in Cells \ overlapped : d # c => pc[d] # "exec"
    BY <1>2 DEF Capture, Apart, Inside
  <1>4. stdout' \in {Console} \cup overlapped
    BY <1>2 DEF Capture, Streams, Leave
  <1>5. Streams'
    BY <1>2, <1>3, <1>4, ConstantsAssumption DEF Capture, Streams, Leave, history
  <1> QED
    BY <1>1, <1>2, <1>5 DEF Capture, Apart, OwnBuffers, AnsweredLast, AloneGetsItsOutput,
       OwnLines, Leave, history, TypeOK

LEMMA CaptureCollect ==
    ASSUME TypeOK, Capture, NEW c \in Cells, Collect(c)
    PROVE  Capture'
  <1>1. /\ pc' = [pc EXCEPT ![c] = "done"] /\ pc[c] \in {"collect", "fail"}
        /\ answer' = [answer EXCEPT ![c] =
                          [stdout |-> buffer[c], error |-> pc[c] = "fail"]]
    BY DEF Collect, Goto
  <1>2. Inside' = Inside /\ \A d \in Cells : pc'[d] = "exec" <=> pc[d] = "exec"
    BY <1>1 DEF Inside, TypeOK
  <1>3. AloneGetsItsOutput'
    <2> SUFFICES ASSUME NEW d \in Cells \ overlapped, answer'[d] # None
                 PROVE  answer'[d].stdout = OwnLines(d)
      BY DEF AloneGetsItsOutput, Collect, history, OwnLines
    <2>1. CASE d = c
      BY <1>1, <2>1 DEF Capture, OwnBuffers, TypeOK
    <2>2. CASE d # c
      BY <1>1, <2>2 DEF Capture, AloneGetsItsOutput, TypeOK
    <2> QED
      BY <2>1, <2>2
  <1> QED
    BY <1>1, <1>2, <1>3 DEF Capture, Apart, Streams, OwnBuffers, AnsweredLast,
       OwnLines, Collect, history, TypeOK

LEMMA CaptureRestart ==
    ASSUME TypeOK, Capture, Restart
    PROVE  Capture'
  <1>1. Inside' = {} /\ \A d \in Cells : pc'[d] # "exec"
    BY DEF Restart, Inside
  <1>2. \A d \in Cells : pc[d] = "done" => pc'[d] = "done"
    BY DEF Restart
  <1> QED
    BY <1>1, <1>2, ConstantsAssumption DEF Capture, Apart, Streams, OwnBuffers, AnsweredLast,
       AloneGetsItsOutput, OwnLines, Restart

LEMMA CaptureStep == TypeOK /\ Capture /\ [Next]_vars => Capture'
  <1> SUFFICES ASSUME TypeOK, Capture, [Next]_vars
               PROVE  Capture'
    OBVIOUS
  <1>1. ASSUME NEW c \in Cells, Receive(c)
        PROVE  Capture'
    BY <1>1, CaptureElsewhere DEF Receive, history
  <1>2. ASSUME NEW c \in Cells, Lookup(c)
        PROVE  Capture'
    BY <1>2, CaptureElsewhere DEF Lookup
  <1>3. ASSUME NEW c \in Cells, Connect(c)
        PROVE  Capture'
    BY <1>3, CaptureElsewhere DEF Connect, history
  <1>4. CASE UNCHANGED vars
    BY <1>4 DEF vars, history, Capture, Apart, Streams, OwnBuffers, AnsweredLast,
       AloneGetsItsOutput, Inside, OwnLines
  <1> QED
    BY <1>1, <1>2, <1>3, <1>4, CaptureSave, CaptureRedirect, CapturePrint, CaptureLeave,
       CaptureCollect, CaptureRestart DEF Next, Thread

LEMMA CaptureRestores == TypeOK /\ Capture => RestoredUnlessOverlapped
  BY DEF TypeOK, Capture, Streams, RestoredUnlessOverlapped, Inside

LEMMA CaptureHolds == Spec => [](TypeOK /\ Capture)
  <1>1. Init => TypeOK /\ Capture
    BY TypeInit, CaptureInit
  <1>2. (TypeOK /\ Capture) /\ [Next]_vars => (TypeOK /\ Capture)'
    BY TypeStep, CaptureStep
  <1> QED
    BY <1>1, <1>2, PTL DEF Spec

\* A cell whose redirection overlapped no other one is answered with what it
\* printed, whatever cells before it did to sys.stdout (_run).
THEOREM LoneCellsGetTheirOutput == Spec => []AloneGetsItsOutput
  <1>1. Capture => AloneGetsItsOutput
    BY DEF Capture
  <1> QED
    BY CaptureHolds, <1>1, PTL

\* With no cell running, sys.stdout is the console or the buffer of a cell that
\* overlapped another (redirect_stdout in _run).
THEOREM StreamIsRestored == Spec => []RestoredUnlessOverlapped
  BY CaptureHolds, CaptureRestores, PTL

-----------------------------------------------------------------------------
(* Sessions.                                                               *)

\* As long as no two threads missed u at once, a thread creates its session
\* only while there is none, and all threads share the one there is.
Sharing ==
    \A u \in Urls \ raced :
        /\ \A c, d \in Creating(u) : c = d
        /\ Creating(u) # {} => sessions[u] = None
        /\ \A c \in Cells : UrlOf[c] = u /\ spark[c] # None => spark[c] = sessions[u]

LEMMA SharingStep == TypeOK /\ Sharing /\ [Next]_vars => Sharing'
  <1> SUFFICES ASSUME TypeOK, Sharing, [Next]_vars, NEW u \in Urls \ raced'
               PROVE  /\ \A c, d \in Creating(u)' : c = d
                      /\ Creating(u)' # {} => sessions'[u] = None
                      /\ \A c \in Cells : /\ UrlOf[c] = u /\ spark'[c] # None
                                          => spark'[c] = sessions'[u]
    BY DEF Sharing
  <1>1. ASSUME NEW c \in Cells, Thread(c), ~Lookup(c), ~Connect(c)
        PROVE  /\ Creating(u)' = Creating(u) /\ raced' = raced
               /\ sessions' = sessions /\ spark' = spark
    BY <1>1 DEF Thread, Receive, Save, Redirect, PrintLine, Leave, Collect, Goto, history,
       Creating, TypeOK
  <1>2. ASSUME NEW c \in Cells, Lookup(c)
        PROVE  /\ \A e, d \in Creating(u)' : e = d
               /\ Creating(u)' # {} => sessions'[u] = None
               /\ \A d \in Cells : /\ UrlOf[d] = u /\ spark'[d] # None
                                   => spark'[d] = sessions'[u]
    <2>1. u \notin raced /\ sessions' = sessions
      BY <1>2 DEF Lookup
    <2>2. CASE sessions[UrlOf[c]] # None
      <3>1. Creating(u)' = Creating(u)
        BY <1>2, <2>2 DEF Lookup, Goto, Creating, TypeOK
      <3> QED
        BY <1>2, <2>1, <2>2, <3>1 DEF Lookup, Sharing, TypeOK
    <2>3. CASE sessions[UrlOf[c]] = None
      <3>1. Creating(u)' = IF UrlOf[c] = u THEN Creating(u) \cup {c} ELSE Creating(u)
        BY <1>2, <2>3 DEF Lookup, Goto, Creating, TypeOK
      <3>2. UrlOf[c] = u => Creating(u) = {}
        BY <1>2, <2>3 DEF Lookup
      <3> QED
        BY <1>2, <2>1, <2>3, <3>1, <3>2 DEF Lookup, Sharing
    <2> QED
      BY <2>2, <2>3
  <1>3. ASSUME NEW c \in Cells, Connect(c)
        PROVE  /\ \A e, d \in Creating(u)' : e = d
               /\ Creating(u)' # {} => sessions'[u] = None
               /\ \A d \in Cells : /\ UrlOf[d] = u /\ spark'[d] # None
                                   => spark'[d] = sessions'[u]
    <2>1. u \notin raced
      BY <1>3 DEF Connect, history
    <2>2. Creating(u)' = Creating(u) \ {c} /\ (UrlOf[c] = u => c \in Creating(u))
      BY <1>3 DEF Connect, Goto, Creating, TypeOK
    <2>3. CASE UrlOf[c] = u
      <3>1. Creating(u)' = {} /\ sessions[u] = None
        BY <2>1, <2>2, <2>3 DEF Sharing
      <3>2. \A d \in Cells : UrlOf[d] = u => spark[d] = None
        BY <2>1, <3>1 DEF Sharing
      <3> QED
        BY <1>3, <2>3, <3>1, <3>2 DEF Connect, TypeOK
    <2>4. CASE UrlOf[c] # u
      <3>1. sessions'[u] = sessions[u]
        BY <1>3, <2>4 DEF Connect, TypeOK
      <3>2. \A d \in Cells : UrlOf[d] = u => spark'[d] = spark[d]
        BY <1>3, <2>4 DEF Connect, TypeOK
      <3> QED
        BY <2>1, <2>2, <3>1, <3>2 DEF Sharing
    <2> QED
      BY <2>3, <2>4
  <1>4. CASE Restart
    BY <1>4 DEF Restart, Creating
  <1>5. CASE UNCHANGED vars
    BY <1>5 DEF vars, history, Creating, Sharing
  <1> QED
    BY <1>1, <1>2, <1>3, <1>4, <1>5 DEF Next, Sharing

\* Cells on one connect_url share the session that is in _sessions, unless two
\* threads missed it at the same time (_session).
THEOREM SessionsAreShared == Spec => []SessionSharedUnlessRaced
  <1>1. Init => Sharing
    BY DEF Init, Sharing, Creating
  <1>2. TypeOK /\ Sharing => SessionSharedUnlessRaced
    BY ConstantsAssumption DEF Sharing, SessionSharedUnlessRaced
  <1> QED
    BY TypeCorrect, SharingStep, <1>1, <1>2, PTL DEF Spec
=============================================================================
