--------------------------------- MODULE Logger --------------------------------
(***************************************************************************)
(* tools/src/logger.cpp: the process-wide logger, its mutex, the console   *)
(* and the log file, the threads that use it and the terminate handler.    *)
(*                                                                         *)
(* A message is a number of lines; their text, and which of clog and cerr  *)
(* shows them, is left out.  The stream's buffer is in the process, `file` *)
(* is with the operating system and outlives it.                           *)
(***************************************************************************)
EXTENDS Naturals, Sequences

CONSTANTS
  Threads,
  Nobody,
  MaxLines,    \* bound: lines of a message
  MaxCalls,    \* bound: log() calls of a thread
  MaxOpens,    \* bound: calls of configure()
  MaxDiskFull  \* bound: how often the disk becomes full

ASSUME NobodyAssumption == Nobody \notin Threads
ASSUME BoundsAssumption ==
  MaxLines \in Nat \ {0} /\ {MaxCalls, MaxOpens, MaxDiskFull} \subseteq Nat

VARIABLES
  process,   \* "running", "aborted" by the handler or "crashed"
  pc,
  owner,     \* who holds m_mutex
  calls,     \* log() calls begun
  lines,     \* lines of the message being logged
  next,      \* the line write() is at
  fatal,     \* the thread is in the terminate handler
  opens,
  is_open,   \* m_log_file.is_open()
  failed,    \* its failbit or badbit: output is dropped without a word
  console, buffer, file,  \* sequences of lines
  diskFull, fills
threadVars == <<pc, owner, calls, lines, next, fatal>>
fileVars == <<is_open, failed, buffer, file>>
disk == <<diskFull, fills>>
vars == <<process, threadVars, opens, fileVars, console, disk>>

Line(t, k) == [thread |-> t, call |-> calls[t], line |-> k]
SessionStarted == [thread |-> Nobody, call |-> 0, line |-> 1]

Init ==
  /\ process = "running"
  /\ pc = [t \in Threads |-> "idle"] /\ owner = Nobody
  /\ calls = [t \in Threads |-> 0]
  /\ lines = [t \in Threads |-> 1] /\ next = [t \in Threads |-> 1]
  /\ fatal = [t \in Threads |-> FALSE]
  /\ opens = 0 /\ is_open = FALSE /\ failed = FALSE
  /\ console = <<>> /\ buffer = <<>> /\ file = <<>>
  /\ diskFull = FALSE /\ fills = 0

Goto(t, label) == pc' = [pc EXCEPT ![t] = label]

-----------------------------------------------------------------------------
(* The file stream *)

Empties(b) ==
  IF diskFull /\ b # <<>>
  THEN /\ failed' = TRUE /\ UNCHANGED file
       /\ buffer' \in {b, <<>>}
  ELSE failed' = failed /\ file' = file \o b /\ buffer' = <<>>

NoFlush == UNCHANGED <<failed, buffer, file>>
Flush ==
  IF is_open /\ ~failed THEN Empties(buffer) ELSE NoFlush

\* operator<< fills the buffer, and empties it when it is full.
Put(line) ==
  IF is_open /\ ~failed
  THEN \/ buffer' = Append(buffer, line) /\ UNCHANGED <<failed, file>>
       \/ Empties(Append(buffer, line))
  ELSE NoFlush

-----------------------------------------------------------------------------
(* configure() and write() *)

\* Programs call it before anything is logged.
\* Without a directory nothing changes; without a file logging goes on on the
\* console; with one, appended to, a line marks the new session.  close()
\* writes out what an earlier failure left in the buffer, if it can.
Configure ==
  /\ process = "running" /\ opens < MaxOpens
  /\ \A t \in Threads : calls[t] = 0
  /\ opens' = opens + 1
  /\ \/ UNCHANGED fileVars
     \/ LET closed == IF is_open /\ ~diskFull THEN file \o buffer ELSE file IN
          /\ is_open' \in BOOLEAN
          /\ buffer' = <<>>
          /\ failed' = (is_open' /\ diskFull)
          /\ file' = IF is_open' /\ ~diskFull THEN Append(closed, SessionStarted) ELSE closed
  /\ UNCHANGED <<process, threadVars, console, disk>>

\* log() up to the lock: the message is put together.
Begin(t) ==
  /\ calls' = [calls EXCEPT ![t] = @ + 1]
  /\ \E n \in 1 .. MaxLines : lines' = [lines EXCEPT ![t] = n]
  /\ next' = [next EXCEPT ![t] = 1]
  /\ Goto(t, "log")

Log(t) ==
  /\ process = "running" /\ pc[t] = "idle" /\ calls[t] < MaxCalls
  /\ Begin(t)
  /\ UNCHANGED <<process, owner, fatal, opens, fileVars, console, disk>>

Lock(t) ==
  /\ process = "running" /\ pc[t] = "log" /\ owner = Nobody
  /\ owner' = t
  /\ Goto(t, "line")
  /\ UNCHANGED <<process, calls, lines, next, fatal, opens, fileVars, console, disk>>

LockPerLine(t) ==
  IF next[t] < lines[t] THEN Goto(t, "log") /\ owner' = Nobody
  ELSE Goto(t, "end") /\ UNCHANGED owner
NextLine(t) ==
  /\ Goto(t, IF next[t] < lines[t] THEN "line" ELSE "end")
  /\ UNCHANGED owner

\* One turn of the loop: the console, which is flushed, and the file.
WriteLine(t) ==
  /\ process = "running" /\ pc[t] = "line"
  /\ console' = Append(console, Line(t, next[t]))
  /\ Put(Line(t, next[t]))
  /\ next' = [next EXCEPT ![t] = @ + 1]
  /\ NextLine(t)
  /\ UNCHANGED <<process, calls, lines, fatal, opens, is_open, disk>>

FlushWithoutUnlock(t) ==
  /\ process = "running" /\ pc[t] = "end"
  /\ owner = Nobody
  /\ Flush
  /\ Goto(t, IF fatal[t] THEN "flush" ELSE "idle")
  /\ UNCHANGED <<process, owner, calls, lines, next, fatal, opens, is_open, console, disk>>

ReturnUnflushed(t) ==
  /\ process = "running" /\ pc[t] = "end"
  /\ NoFlush
  /\ owner' = Nobody
  /\ Goto(t, IF fatal[t] THEN "flush" ELSE "idle")
  /\ UNCHANGED <<process, calls, lines, next, fatal, opens, is_open, console, disk>>

\* The last flush of write(), and the lock_guard's destructor.
WriteEnds(t) ==
  /\ process = "running" /\ pc[t] = "end"
  /\ Flush
  /\ owner' = Nobody
  /\ Goto(t, IF fatal[t] THEN "flush" ELSE "idle")
  /\ UNCHANGED <<process, calls, lines, next, fatal, opens, is_open, console, disk>>

-----------------------------------------------------------------------------
(* The terminate handler *)

AbortAtOnce(t) ==
  /\ process = "running" /\ pc[t] = "idle" /\ ~fatal[t]
  /\ fatal' = [fatal EXCEPT ![t] = TRUE]
  /\ Goto(t, "abort")
  /\ UNCHANGED <<process, owner, calls, lines, next, opens, fileVars, console, disk>>

\* An exception that nobody catches: log() its reason, flush(), abort().
Terminate(t) ==
  /\ process = "running" /\ pc[t] = "idle" /\ ~fatal[t]
  /\ fatal' = [fatal EXCEPT ![t] = TRUE]
  /\ Begin(t)
  /\ UNCHANGED <<process, owner, opens, fileVars, console, disk>>

\* Logger::flush, which takes the mutex.
FlushCall(t) ==
  /\ process = "running" /\ pc[t] = "flush" /\ owner = Nobody
  /\ Flush
  /\ Goto(t, "abort")
  /\ UNCHANGED <<process, owner, calls, lines, next, fatal, opens, is_open, console, disk>>

Abort(t) ==
  /\ process = "running" /\ pc[t] = "abort"
  /\ process' = "aborted"
  /\ UNCHANGED <<threadVars, opens, fileVars, console, disk>>

\* What the handler does not see: an access violation, or a kill.
Crash ==
  /\ process = "running" /\ process' = "crashed"
  /\ UNCHANGED <<threadVars, opens, fileVars, console, disk>>

DiskChanges ==
  /\ \/ ~diskFull /\ fills < MaxDiskFull /\ diskFull' = TRUE /\ fills' = fills + 1
     \/ diskFull /\ diskFull' = FALSE /\ UNCHANGED fills
  /\ UNCHANGED <<process, threadVars, opens, fileVars, console>>

Step(t) ==
  Lock(t) \/ WriteLine(t) \/ WriteEnds(t) \/ FlushCall(t) \/ Abort(t)
Next ==
  \/ \E t \in Threads : Log(t) \/ Terminate(t) \/ Step(t)
  \/ Configure \/ Crash \/ DiskChanges

Spec == Init /\ [][Next]_vars
FairSpec == Spec /\ \A t \in Threads : WF_vars(Step(t))

-----------------------------------------------------------------------------
(* Properties *)

\* The lines of one message stand together and in order, in the console and in
\* the file, whatever the other threads log and wherever the disk fails
\* (lines 203, 216-239).
SameMessage(a, b) == a.thread = b.thread /\ a.call = b.call
Together(log) ==
  \A i, j \in DOMAIN log :
    i < j /\ SameMessage(log[i], log[j]) /\ log[i].thread # Nobody =>
      /\ log[i].line < log[j].line
      /\ \A k \in i .. j : SameMessage(log[i], log[k])
LinesTogether == Together(console) /\ Together(file \o buffer)

\* A crash, even one the handler does not see, costs the log file no message
\* whose log() has returned: as long as the file takes output, only the thread
\* that holds the mutex has lines in the buffer (lines 203, 241-243;
\* docs/tasks/TOOLS-001.md:42-43).
OnlyOwnersLinesAtRisk ==
  is_open /\ ~failed =>
    \A i \in DOMAIN buffer : owner # Nobody /\ buffer[i].thread = owner

\* After an abort() by the handler the reason is on the console, and, if the
\* file takes output, all of it is in the file (lines 169-194;
\* docs/tasks/TOOLS-001.md:51-52).
ReasonRecorded ==
  process = "aborted" =>
    \E t \in Threads :
      fatal[t] /\ \A k \in 1 .. lines[t] :
        /\ \E i \in DOMAIN console : console[i] = Line(t, k)
        /\ is_open /\ ~failed =>
             \E i \in DOMAIN file : file[i] = Line(t, k)

\* log() comes back in every thread, the terminate handler's calls included:
\* no thread waits for the mutex for ever.
CallsReturn ==
  \A t \in Threads : pc[t] # "idle" ~> pc[t] = "idle" \/ process # "running"

=============================================================================
