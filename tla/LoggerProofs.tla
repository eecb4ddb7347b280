------------------------------ MODULE LoggerProofs -----------------------------
(***************************************************************************)
(* What the logger's mutex and its flushes are worth, for any number of    *)
(* threads, messages of any length, and wherever the disk fails.           *)
(***************************************************************************)
EXTENDS Logger, SequenceTheorems, TLAPS

-----------------------------------------------------------------------------
(* Logs, and what appending to one or losing its end does to it *)

Lines == [thread : Threads \cup {Nobody}, call : Nat, line : Nat]

\* A log holds no line of a call that has not begun or that the call has not
\* reached, and the lines of a message stand together.
Tidy(log, begun, reached) ==
  /\ Together(log)
  /\ \A i \in DOMAIN log : log[i].thread \in Threads =>
       /\ 1 <= log[i].call /\ log[i].call <= begun[log[i].thread]
       /\ 1 <= log[i].line
       /\ log[i].call = begun[log[i].thread] => log[i].line < reached[log[i].thread]

\* Nobody else has written since this message began.
StillLast(log, t, call) ==
  \A i \in DOMAIN log :
    log[i].thread = t /\ log[i].call = call =>
      \A k \in i .. Len(log) : SameMessage(log[i], log[k])

Shorter(short, log) ==
  Len(short) <= Len(log) /\ \A i \in 1 .. Len(short) : short[i] = log[i]

\* A log that loses its end stays tidy.
LEMMA ShorterTidy ==
  ASSUME NEW log \in Seq(Lines), NEW short \in Seq(Lines), Shorter(short, log),
         NEW begun, NEW reached, Tidy(log, begun, reached)
  PROVE  /\ Tidy(short, begun, reached)
         /\ \A t, call : StillLast(log, t, call) => StillLast(short, t, call)
<1>1. /\ DOMAIN short = 1 .. Len(short) /\ DOMAIN log = 1 .. Len(log)
      /\ Len(short) \in Nat /\ Len(log) \in Nat
  OBVIOUS
<1>2. \A i \in DOMAIN short : i \in DOMAIN log /\ short[i] = log[i]
  BY <1>1 DEF Shorter
<1>3. Together(short)
  BY <1>1, <1>2 DEF Tidy, Together
<1>4. Tidy(short, begun, reached)
  BY <1>2, <1>3 DEF Tidy
<1>5. ASSUME NEW t, NEW call, StillLast(log, t, call) PROVE StillLast(short, t, call)
  BY <1>1, <1>2, <1>5 DEF StillLast, Shorter
<1> QED
  BY <1>4, <1>5

\* The owner's next line goes behind the lines of its message, and they are the
\* end of the log.
LEMMA AppendTidy ==
  ASSUME NEW log \in Seq(Lines), NEW begun \in [Threads -> Nat],
         NEW reached \in [Threads -> Nat \ {0}], NEW t \in Threads,
         begun[t] > 0, Tidy(log, begun, reached), StillLast(log, t, begun[t])
  PROVE  LET line == [thread |-> t, call |-> begun[t], line |-> reached[t]] IN
           /\ Append(log, line) \in Seq(Lines)
           /\ Tidy(Append(log, line), begun, [reached EXCEPT ![t] = @ + 1])
           /\ StillLast(Append(log, line), t, begun[t])
<1> DEFINE line == [thread |-> t, call |-> begun[t], line |-> reached[t]]
           longer == Append(log, line)
           further == [reached EXCEPT ![t] = @ + 1]
<1>1. line \in Lines
  BY DEF Lines
<1> HIDE DEF line
<1>2. /\ longer \in Seq(Lines) /\ Len(longer) = Len(log) + 1 /\ Len(log) \in Nat
      /\ DOMAIN log = 1 .. Len(log) /\ DOMAIN longer = 1 .. Len(log) + 1
      /\ longer[Len(log) + 1] = line
      /\ \A i \in 1 .. Len(log) : longer[i] = log[i]
  BY <1>1
<1> HIDE DEF longer
<1>3. \A i \in DOMAIN longer : i \in 1 .. Len(log) \/ i = Len(log) + 1
  BY <1>2
<1>4. line.thread = t /\ line.call = begun[t] /\ line.line = reached[t]
  BY DEF line
<1>5. \A i \in 1 .. Len(log) : log[i] \in Lines
  BY <1>2
<1>6. t # Nobody
  BY NobodyAssumption
<1>7. Together(longer)
  <2> SUFFICES ASSUME NEW i \in DOMAIN longer, NEW j \in DOMAIN longer, i < j,
                      SameMessage(longer[i], longer[j]), longer[i].thread # Nobody
               PROVE  /\ longer[i].line < longer[j].line
                      /\ \A k \in i .. j : SameMessage(longer[i], longer[k])
    BY DEF Together
  <2>1. i \in 1 .. Len(log)
    BY <1>2, <1>3
  <2>2. CASE j \in 1 .. Len(log)
    <3>1. /\ log[i].line < log[j].line
          /\ \A k \in i .. j : SameMessage(log[i], log[k])
      BY <1>2, <2>1, <2>2 DEF Tidy, Together
    <3> QED
      BY <1>2, <2>1, <2>2, <3>1
  <2>3. CASE j = Len(log) + 1
    <3>1. log[i].thread = t /\ log[i].call = begun[t]
      BY <1>2, <1>4, <2>1, <2>3 DEF SameMessage
    <3>2. log[i].line < reached[t]
      BY <1>2, <2>1, <3>1 DEF Tidy
    <3>3. \A k \in i .. Len(log) : SameMessage(log[i], log[k])
      BY <1>2, <2>1, <3>1 DEF StillLast
    <3>4. ASSUME NEW k \in i .. j PROVE SameMessage(longer[i], longer[k])
      <4>1. CASE k = Len(log) + 1
        BY <4>1, <2>3
      <4>2. CASE k \in i .. Len(log)
        BY <4>2, <3>3, <1>2, <2>1
      <4> QED
        BY <4>1, <4>2, <2>1, <2>3, <1>2
    <3> QED
      BY <3>2, <3>4, <1>2, <1>4, <2>1, <2>3
  <2> QED
    BY <2>2, <2>3, <1>3
<1>8. ASSUME NEW i \in DOMAIN longer, longer[i].thread \in Threads
      PROVE  /\ 1 <= longer[i].call /\ longer[i].call <= begun[longer[i].thread]
             /\ 1 <= longer[i].line
             /\ longer[i].call = begun[longer[i].thread] =>
                  longer[i].line < further[longer[i].thread]
  <2>1. CASE i = Len(log) + 1
    BY <2>1, <1>2, <1>4
  <2>2. CASE i \in 1 .. Len(log)
    <3>1. longer[i] = log[i] /\ log[i] \in Lines /\ i \in DOMAIN log
      BY <2>2, <1>2, <1>5
    <3>2. /\ 1 <= log[i].call /\ log[i].call <= begun[log[i].thread]
          /\ 1 <= log[i].line
          /\ log[i].call = begun[log[i].thread] => log[i].line < reached[log[i].thread]
      BY <1>8, <3>1 DEF Tidy
    <3>3. /\ reached[log[i].thread] \in Nat /\ log[i].line \in Nat
          /\ further[log[i].thread] \in {reached[log[i].thread], reached[log[i].thread] + 1}
      BY <1>8, <3>1 DEF Lines
    <3>4. log[i].line < reached[log[i].thread] => log[i].line < further[log[i].thread]
      BY <3>3
    <3> QED
      BY <3>1, <3>2, <3>4
  <2> QED
    BY <2>1, <2>2, <1>3
<1>9. StillLast(longer, t, begun[t])
  <2> SUFFICES ASSUME NEW i \in DOMAIN longer, longer[i].thread = t,
                      longer[i].call = begun[t], NEW k \in i .. Len(longer)
               PROVE  SameMessage(longer[i], longer[k])
    BY DEF StillLast
  <2>1. CASE k = Len(log) + 1
    BY <2>1, <1>2, <1>4 DEF SameMessage
  <2>2. CASE k # Len(log) + 1
    <3>1. i \in 1 .. Len(log) /\ k \in i .. Len(log)
      BY <2>2, <1>2
    <3> QED
      BY <3>1, <1>2 DEF StillLast
  <2> QED
    BY <2>1, <2>2
<1>10. Tidy(longer, begun, further)
  BY <1>7, <1>8 DEF Tidy
<1> QED
  BY <1>2, <1>9, <1>10 DEF longer, line

\* A new call has no line yet, so a log is as tidy as before.
LEMMA BeginTidy ==
  ASSUME NEW log \in Seq(Lines), NEW begun \in [Threads -> Nat],
         NEW reached \in [Threads -> Nat \ {0}], NEW t \in Threads,
         Tidy(log, begun, reached)
  PROVE  Tidy(log, [begun EXCEPT ![t] = @ + 1], [reached EXCEPT ![t] = 1])
<1> DEFINE more == [begun EXCEPT ![t] = @ + 1]
           anew == [reached EXCEPT ![t] = 1]
<1> SUFFICES ASSUME NEW i \in DOMAIN log, log[i].thread \in Threads
             PROVE  /\ 1 <= log[i].call /\ log[i].call <= more[log[i].thread]
                    /\ 1 <= log[i].line
                    /\ log[i].call = more[log[i].thread] => log[i].line < anew[log[i].thread]
  BY DEF Tidy
<1>1. log[i].call \in Nat
  <2>1. log[i] \in Lines
    OBVIOUS
  <2> QED
    BY <2>1 DEF Lines
<1>2. /\ 1 <= log[i].call /\ log[i].call <= begun[log[i].thread] /\ 1 <= log[i].line
      /\ log[i].call = begun[log[i].thread] => log[i].line < reached[log[i].thread]
  BY DEF Tidy
<1>3. CASE log[i].thread = t
  BY <1>1, <1>2, <1>3
<1>4. CASE log[i].thread # t
  BY <1>2, <1>4
<1> QED
  BY <1>3, <1>4

-----------------------------------------------------------------------------
(* The inductive invariant *)

Typed ==
  /\ process \in {"running", "aborted", "crashed"}
  /\ pc \in [Threads -> {"idle", "log", "line", "end", "flush", "abort"}]
  /\ owner \in Threads \cup {Nobody}
  /\ calls \in [Threads -> Nat]
  /\ lines \in [Threads -> Nat \ {0}] /\ next \in [Threads -> Nat \ {0}]
  /\ fatal \in [Threads -> BOOLEAN]
  /\ is_open \in BOOLEAN /\ failed \in BOOLEAN /\ diskFull \in BOOLEAN
  /\ console \in Seq(Lines) /\ buffer \in Seq(Lines) /\ file \in Seq(Lines)

\* The mutex, and how far each thread is with its message.
Progress ==
  \A t \in Threads :
    /\ owner = t <=> pc[t] \in {"line", "end"}
    /\ pc[t] # "idle" => calls[t] > 0
    /\ pc[t] = "log" => next[t] = 1
    /\ pc[t] = "line" => next[t] <= lines[t]
    /\ pc[t] \in {"end", "flush", "abort"} => next[t] = lines[t] + 1
    /\ pc[t] \in {"flush", "abort"} => fatal[t]
    /\ fatal[t] => pc[t] # "idle"

\* Both logs are tidy, and end with the message of the mutex's owner.
LogsTidy ==
  /\ Tidy(console, calls, next) /\ Tidy(file \o buffer, calls, next)
  /\ owner \in Threads => /\ StillLast(console, owner, calls[owner])
                          /\ StillLast(file \o buffer, owner, calls[owner])

\* The lines a call has written are on the console, and in the file or on the
\* way to it.
Written ==
  \A t \in Threads : pc[t] \in {"line", "end", "flush", "abort"} =>
    \A k \in 1 .. next[t] - 1 :
      /\ \E i \in DOMAIN console : console[i] = Line(t, k)
      /\ is_open /\ ~failed =>
           \/ \E i \in DOMAIN file : file[i] = Line(t, k)
           \/ pc[t] \in {"line", "end"} /\ \E i \in DOMAIN buffer : buffer[i] = Line(t, k)

Inv == Typed /\ Progress /\ LogsTidy /\ OnlyOwnersLinesAtRisk /\ Written /\ ReasonRecorded
-----------------------------------------------------------------------------
(* The stream *)

\* Every line of both parts is in the whole.
LEMMA ConcatKeeps ==
  ASSUME NEW s \in Seq(Lines), NEW b \in Seq(Lines)
  PROVE  /\ \A i \in DOMAIN s : i \in DOMAIN (s \o b) /\ (s \o b)[i] = s[i]
         /\ \A i \in DOMAIN b :
              Len(s) + i \in DOMAIN (s \o b) /\ (s \o b)[Len(s) + i] = b[i]
<1>1. /\ DOMAIN s = 1 .. Len(s) /\ DOMAIN b = 1 .. Len(b)
      /\ Len(s) \in Nat /\ Len(b) \in Nat
  OBVIOUS
<1>2. DOMAIN (s \o b) = 1 .. Len(s) + Len(b)
  BY ConcatProperties, LenProperties
<1>3. \A i \in 1 .. Len(s) + Len(b) :
        (s \o b)[i] = IF i <= Len(s) THEN s[i] ELSE b[i - Len(s)]
  BY ConcatProperties
<1>4. ASSUME NEW i \in 1 .. Len(b)
      PROVE  Len(s) + i \in 1 .. Len(s) + Len(b) /\ (s \o b)[Len(s) + i] = b[i]
  <2>1. /\ Len(s) + i \in 1 .. Len(s) + Len(b) /\ ~(Len(s) + i <= Len(s))
        /\ (Len(s) + i) - Len(s) = i
    BY <1>1
  <2> QED
    BY <1>3, <2>1
<1>5. ASSUME NEW i \in 1 .. Len(s)
      PROVE  i \in 1 .. Len(s) + Len(b) /\ (s \o b)[i] = s[i]
  BY <1>1, <1>3
<1> QED
  BY <1>1, <1>2, <1>4, <1>5

\* What flush() and operator<< leave: the stream may have failed and lost what
\* was in its buffer, or else nothing is lost.
LEMMA FlushStep ==
  ASSUME Typed, is_open' = is_open, Flush
  PROVE  /\ file' \in Seq(Lines) /\ buffer' \in Seq(Lines) /\ failed' \in BOOLEAN
         /\ failed => failed'
         /\ Shorter(file' \o buffer', file \o buffer)
         /\ is_open /\ ~failed' => buffer' = <<>> /\ file' = file \o buffer
<1> USE DEF Typed
<1>1. CASE NoFlush /\ ~(is_open /\ ~failed)
  BY <1>1 DEF NoFlush, Shorter
<1>2. CASE is_open /\ ~failed /\ diskFull /\ buffer # <<>>
  <2>1. /\ failed' = TRUE /\ file' = file /\ buffer' \in {buffer, <<>>}
    BY <1>2 DEF Flush, Empties
  <2>2. CASE buffer' = buffer
    BY <2>1, <2>2 DEF Shorter
  <2>3. CASE buffer' = <<>>
    <3>1. file' \o buffer' = file
      BY <2>1, <2>3, ConcatEmptySeq
    <3>2. Shorter(file, file \o buffer)
      BY ConcatProperties DEF Shorter
    <3> QED
      BY <2>1, <2>3, <3>1, <3>2
  <2> QED
    BY <2>1, <2>2, <2>3
<1>3. CASE is_open /\ ~failed /\ ~(diskFull /\ buffer # <<>>)
  <2>1. /\ failed' = failed /\ file' = file \o buffer /\ buffer' = <<>>
    BY <1>3 DEF Flush, Empties
  <2>2. file' \in Seq(Lines)
    BY <2>1, ConcatProperties
  <2>3. file' \o buffer' = file \o buffer
    BY <2>1, <2>2, ConcatEmptySeq
  <2> QED
    BY <2>1, <2>2, <2>3 DEF Shorter
<1> QED
  BY <1>1, <1>2, <1>3 DEF Flush

\* file \o Append(buffer, line) is the line behind what is written so far.
LEMMA AppendConcat ==
  ASSUME NEW s \in Seq(Lines), NEW b \in Seq(Lines), NEW line \in Lines
  PROVE  s \o Append(b, line) = Append(s \o b, line) /\ Append(b, line) \in Seq(Lines)
<1>1. /\ Append(b, line) \in Seq(Lines) /\ s \o b \in Seq(Lines)
      /\ Append(s \o b, line) \in Seq(Lines) /\ s \o Append(b, line) \in Seq(Lines)
  BY ConcatProperties
<1>2. Len(s \o Append(b, line)) = Len(Append(s \o b, line))
  BY <1>1, ConcatProperties
<1> DEFINE longer == Append(b, line)
           whole == s \o b
<1>3. /\ Len(s) \in Nat /\ Len(b) \in Nat /\ Len(longer) = Len(b) + 1
      /\ Len(whole) = Len(s) + Len(b)
      /\ Len(s \o longer) = Len(s) + Len(b) + 1
  BY <1>1, ConcatProperties
<1>4. ASSUME NEW i \in 1 .. Len(s \o longer)
      PROVE  (s \o longer)[i] = Append(whole, line)[i]
  <2>1. CASE i <= Len(s)
    <3>1. (s \o longer)[i] = s[i] /\ whole[i] = s[i]
      BY <1>1, <1>3, <2>1, ConcatProperties
    <3>2. Append(whole, line)[i] = whole[i]
      BY <1>1, <1>3, <2>1
    <3> QED BY <3>1, <3>2
  <2>2. CASE Len(s) < i /\ i <= Len(s) + Len(b)
    <3>1. (s \o longer)[i] = longer[i - Len(s)] /\ whole[i] = b[i - Len(s)]
      BY <1>1, <1>3, <2>2, ConcatProperties
    <3>2. longer[i - Len(s)] = b[i - Len(s)] /\ Append(whole, line)[i] = whole[i]
      BY <1>1, <1>3, <2>2
    <3> QED BY <3>1, <3>2
  <2>3. CASE i = Len(s) + Len(b) + 1
    <3>1. (s \o longer)[i] = longer[i - Len(s)]
      BY <1>1, <1>3, <2>3, ConcatProperties
    <3>2. longer[i - Len(s)] = line /\ Append(whole, line)[i] = line
      BY <1>1, <1>3, <2>3
    <3> QED BY <3>1, <3>2
  <2> QED BY <1>3, <1>4, <2>1, <2>2, <2>3
<1> QED
  BY <1>1, <1>2, <1>4, SeqEqual

LEMMA PutStep ==
  ASSUME Typed, is_open' = is_open, NEW line \in Lines, Put(line)
  PROVE  /\ file' \in Seq(Lines) /\ buffer' \in Seq(Lines) /\ failed' \in BOOLEAN
         /\ failed => failed'
         /\ \/ file' \o buffer' = Append(file \o buffer, line)
            \/ Shorter(file' \o buffer', file \o buffer)
         /\ is_open /\ ~failed' =>
              \/ file' = file /\ buffer' = Append(buffer, line)
              \/ file' = file \o Append(buffer, line) /\ buffer' = <<>>
<1> USE DEF Typed
<1>1. CASE NoFlush /\ ~(is_open /\ ~failed)
  BY <1>1 DEF NoFlush, Shorter
<1>2. CASE is_open /\ ~failed /\ buffer' = Append(buffer, line) /\ UNCHANGED <<failed, file>>
  BY <1>2, AppendConcat
<1> DEFINE full == Append(buffer, line)
<1>3. full \in Seq(Lines) /\ file \o full = Append(file \o buffer, line)
  BY AppendConcat
<1> HIDE DEF full
<1>4. CASE is_open /\ ~failed /\ Empties(full) /\ diskFull /\ full # <<>>
  <2>1. /\ failed' = TRUE /\ file' = file /\ buffer' \in {full, <<>>}
    BY <1>4 DEF Empties
  <2>2. CASE buffer' = full
    BY <1>3, <2>1, <2>2
  <2>3. CASE buffer' = <<>>
    <3>1. file' \o buffer' = file
      BY <2>1, <2>3, ConcatEmptySeq
    <3>2. Shorter(file, file \o buffer)
      BY ConcatProperties DEF Shorter
    <3> QED
      BY <2>1, <2>3, <3>1, <3>2
  <2> QED
    BY <2>1, <2>2, <2>3
<1>5. CASE is_open /\ ~failed /\ Empties(full) /\ ~(diskFull /\ full # <<>>)
  <2>1. /\ failed' = failed /\ file' = file \o full /\ buffer' = <<>>
    BY <1>5 DEF Empties
  <2>2. file' \in Seq(Lines)
    BY <1>3, <2>1, ConcatProperties
  <2>3. file' \o buffer' = file \o full
    BY <2>1, <2>2, ConcatEmptySeq
  <2> QED
    BY <1>3, <2>1, <2>2, <2>3 DEF full
<1> QED
  BY <1>1, <1>2, <1>4, <1>5 DEF Put, full

-----------------------------------------------------------------------------
(* Every step keeps the invariant *)

LEMMA InitInv == Init => Inv
<1> SUFFICES ASSUME Init PROVE Inv
  OBVIOUS
<1>1. <<>> \in Seq(Lines) /\ <<>> \o <<>> = <<>>
  BY EmptySeq, ConcatEmptySeq
<1>2. Typed
  <2>1. fatal \in [Threads -> BOOLEAN]
    BY DEF Init
  <2>2. /\ calls \in [Threads -> Nat] /\ lines \in [Threads -> Nat \ {0}]
        /\ next \in [Threads -> Nat \ {0}]
        /\ pc \in [Threads -> {"idle", "log", "line", "end", "flush", "abort"}]
    BY DEF Init
  <2>3. /\ process \in {"running", "aborted", "crashed"}
        /\ is_open \in BOOLEAN /\ failed \in BOOLEAN /\ diskFull \in BOOLEAN
    BY DEF Init
  <2> QED
    BY <1>1, <2>1, <2>2, <2>3 DEF Init, Typed
<1>5. Progress
  BY NobodyAssumption DEF Init, Progress
<1>3. LogsTidy
  BY <1>1, NobodyAssumption DEF Init, LogsTidy, Tidy, Together
<1>4. OnlyOwnersLinesAtRisk /\ Written /\ ReasonRecorded
  BY DEF Init, OnlyOwnersLinesAtRisk, Written, ReasonRecorded
<1> QED
  BY <1>2, <1>3, <1>4, <1>5 DEF Inv

\* log(), or the terminate handler's call of it, up to the mutex.
LEMMA BeginStep ==
  ASSUME Inv, NEW t \in Threads, process = "running", pc[t] = "idle", Begin(t),
         fatal' \in {fatal, [fatal EXCEPT ![t] = TRUE]},
         UNCHANGED <<process, owner, opens, fileVars, console, disk>>
  PROVE  Inv'
<1> USE DEF Inv
<1>1. /\ calls' = [calls EXCEPT ![t] = @ + 1] /\ next' = [next EXCEPT ![t] = 1]
      /\ pc' = [pc EXCEPT ![t] = "log"]
  BY DEF Begin, Goto
<1>2. PICK n \in 1 .. MaxLines : lines' = [lines EXCEPT ![t] = n]
  BY DEF Begin
<1>3. UNCHANGED <<process, owner, is_open, failed, buffer, file, console, diskFull>>
  BY DEF fileVars, disk
<1>4. n \in Nat \ {0}
  BY BoundsAssumption
<1>5. Typed'
  <2>1. fatal' \in [Threads -> BOOLEAN]
    BY DEF Typed
  <2>2. calls' \in [Threads -> Nat] /\ next' \in [Threads -> Nat \ {0}]
        /\ lines' \in [Threads -> Nat \ {0}]
    BY <1>1, <1>2, <1>4 DEF Typed
  <2>3. pc' \in [Threads -> {"idle", "log", "line", "end", "flush", "abort"}]
    BY <1>1 DEF Typed
  <2> QED
    BY <1>3, <2>1, <2>2, <2>3 DEF Typed
<1>6. Progress'
  BY <1>1, <1>2, <1>3, <1>4 DEF Typed, Progress
<1>7. owner # t
  BY DEF Progress
<1>8. LogsTidy'
  <2>1. file \o buffer \in Seq(Lines)
    BY ConcatProperties DEF Typed
  <2>2. Tidy(console, calls', next') /\ Tidy(file \o buffer, calls', next')
    BY <1>1, <2>1, BeginTidy DEF LogsTidy, Typed
  <2>3. owner \in Threads => calls'[owner] = calls[owner]
    BY <1>1, <1>7 DEF Typed
  <2> QED
    BY <1>3, <2>2, <2>3 DEF LogsTidy
<1>9. OnlyOwnersLinesAtRisk' /\ ReasonRecorded'
  BY <1>3 DEF OnlyOwnersLinesAtRisk, ReasonRecorded
<1>10. Written'
  <2> SUFFICES ASSUME NEW u \in Threads, pc'[u] \in {"line", "end", "flush", "abort"},
                      NEW k \in 1 .. next'[u] - 1
               PROVE  /\ \E i \in DOMAIN console : console[i] = Line(u, k)'
                      /\ is_open /\ ~failed =>
                           \/ \E i \in DOMAIN file : file[i] = Line(u, k)'
                           \/ /\ pc'[u] \in {"line", "end"}
                              /\ \E i \in DOMAIN buffer : buffer[i] = Line(u, k)'
    BY <1>3 DEF Written
  <2>1. u # t
    BY <1>1 DEF Typed
  <2>2. pc'[u] = pc[u] /\ next'[u] = next[u] /\ calls'[u] = calls[u]
    BY <1>1, <2>1 DEF Typed
  <2>3. Line(u, k)' = Line(u, k)
    BY <2>2 DEF Line
  <2> QED
    BY <2>2, <2>3 DEF Written
<1> QED
  BY <1>5, <1>6, <1>8, <1>9, <1>10

\* The mutex is free: nothing of this call is in a log yet.
LEMMA LockStep == ASSUME Inv, NEW t \in Threads, Lock(t) PROVE Inv'
<1> USE DEF Inv
<1>1. /\ process = "running" /\ pc[t] = "log" /\ owner = Nobody /\ owner' = t
      /\ pc' = [pc EXCEPT ![t] = "line"]
      /\ UNCHANGED <<process, calls, lines, next, fatal, is_open, failed, buffer, file,
                     console, diskFull>>
  BY DEF Lock, Goto, fileVars, disk
<1>2. Typed' /\ next[t] = 1 /\ t # Nobody
  BY <1>1, NobodyAssumption DEF Typed, Progress
<1>3. Progress'
  BY <1>1, <1>2, NobodyAssumption DEF Typed, Progress
<1>4. LogsTidy'
  <2>1. \A log \in Seq(Lines) : Tidy(log, calls, next) => StillLast(log, t, calls[t])
    <3> SUFFICES ASSUME NEW log \in Seq(Lines), Tidy(log, calls, next),
                        NEW i \in DOMAIN log, log[i].thread = t, log[i].call = calls[t]
                 PROVE  FALSE
      BY DEF StillLast
    <3>1. 1 <= log[i].line /\ log[i].line < next[t] /\ log[i] \in Lines
      BY DEF Tidy
    <3> QED
      BY <1>2, <3>1 DEF Lines
  <2>2. file \o buffer \in Seq(Lines) /\ console \in Seq(Lines)
    BY ConcatProperties DEF Typed
  <2> QED
    BY <1>1, <2>1, <2>2 DEF LogsTidy
<1>5. OnlyOwnersLinesAtRisk' /\ ReasonRecorded'
  BY <1>1 DEF OnlyOwnersLinesAtRisk, ReasonRecorded
<1>6. Written'
  <2> SUFFICES ASSUME NEW u \in Threads, pc'[u] \in {"line", "end", "flush", "abort"},
                      NEW k \in 1 .. next[u] - 1
               PROVE  /\ \E i \in DOMAIN console : console[i] = Line(u, k)
                      /\ is_open /\ ~failed =>
                           \/ \E i \in DOMAIN file : file[i] = Line(u, k)
                           \/ /\ pc'[u] \in {"line", "end"}
                              /\ \E i \in DOMAIN buffer : buffer[i] = Line(u, k)
    BY <1>1 DEF Written, Line
  <2>1. u # t
    BY <1>2
  <2>2. pc'[u] = pc[u]
    BY <1>1, <2>1 DEF Typed
  <2> QED
    BY <2>2 DEF Written
<1> QED
  BY <1>2, <1>3, <1>4, <1>5, <1>6
\* The owner writes a line to both logs, as far as the stream takes it.
LEMMA WriteLineStep == ASSUME Inv, NEW t \in Threads, WriteLine(t) PROVE Inv'
<1> USE DEF Inv
<1> DEFINE line == Line(t, next[t])
<1>1. /\ process = "running" /\ pc[t] = "line"
      /\ console' = Append(console, line) /\ Put(line)
      /\ next' = [next EXCEPT ![t] = @ + 1]
      /\ pc' = [pc EXCEPT ![t] = IF next[t] < lines[t] THEN "line" ELSE "end"]
      /\ UNCHANGED <<process, owner, calls, lines, fatal, is_open, diskFull>>
  BY DEF WriteLine, NextLine, Goto, disk
<1>2. owner = t /\ t # Nobody /\ calls[t] > 0 /\ next[t] <= lines[t]
      /\ next[t] \in Nat /\ lines[t] \in Nat /\ calls[t] \in Nat
  BY <1>1, NobodyAssumption DEF Typed, Progress
<1>3. line \in Lines
  BY <1>2 DEF Line, Lines
<1>4. /\ file' \in Seq(Lines) /\ buffer' \in Seq(Lines) /\ failed' \in BOOLEAN
      /\ failed => failed'
      /\ \/ file' \o buffer' = Append(file \o buffer, line)
         \/ Shorter(file' \o buffer', file \o buffer)
      /\ is_open /\ ~failed' =>
           \/ file' = file /\ buffer' = Append(buffer, line)
           \/ file' = file \o Append(buffer, line) /\ buffer' = <<>>
  BY <1>1, <1>3, PutStep
<1>5. /\ file \o buffer \in Seq(Lines) /\ file' \o buffer' \in Seq(Lines)
      /\ console \in Seq(Lines) /\ console' \in Seq(Lines)
  BY <1>1, <1>3, <1>4, ConcatProperties DEF Typed
<1>6. Typed'
  <2>1. next' \in [Threads -> Nat \ {0}]
    BY <1>1 DEF Typed
  <2>2. pc' \in [Threads -> {"idle", "log", "line", "end", "flush", "abort"}]
    BY <1>1 DEF Typed
  <2> QED
    BY <1>1, <1>4, <1>5, <2>1, <2>2 DEF Typed
<1>7. Progress'
  <2> SUFFICES ASSUME NEW u \in Threads
               PROVE  /\ owner = u <=> pc'[u] \in {"line", "end"}
                      /\ pc'[u] # "idle" => calls[u] > 0
                      /\ pc'[u] = "log" => next'[u] = 1
                      /\ pc'[u] = "line" => next'[u] <= lines[u]
                      /\ pc'[u] \in {"end", "flush", "abort"} => next'[u] = lines[u] + 1
                      /\ pc'[u] \in {"flush", "abort"} => fatal[u]
                      /\ fatal[u] => pc'[u] # "idle"
    BY <1>1 DEF Progress
  <2>1. CASE u = t
    BY <1>1, <1>2, <2>1 DEF Typed
  <2>2. CASE u # t
    BY <1>1, <1>2, <2>2 DEF Typed, Progress
  <2> QED
    BY <2>1, <2>2
<1>8. LogsTidy'
  <2>1. /\ Tidy(console, calls, next) /\ StillLast(console, t, calls[t])
        /\ Tidy(file \o buffer, calls, next) /\ StillLast(file \o buffer, t, calls[t])
    BY <1>2 DEF LogsTidy
  <2>2. \A log \in Seq(Lines) :
          Tidy(log, calls, next) /\ StillLast(log, t, calls[t]) =>
            Tidy(Append(log, line), calls, next') /\ StillLast(Append(log, line), t, calls[t])
    BY <1>1, <1>2, AppendTidy DEF Typed, Line
  <2>3. \A log, short \in Seq(Lines) :
          /\ Shorter(short, log) /\ Tidy(log, calls, next) /\ StillLast(log, t, calls[t])
          => Tidy(short, calls, next') /\ StillLast(short, t, calls[t])
    <3> SUFFICES ASSUME NEW log \in Seq(Lines), NEW short \in Seq(Lines), Shorter(short, log),
                        Tidy(log, calls, next), StillLast(log, t, calls[t])
                 PROVE  Tidy(short, calls, next') /\ StillLast(short, t, calls[t])
      OBVIOUS
    <3>1. Tidy(short, calls, next) /\ StillLast(short, t, calls[t])
      BY ShorterTidy
    <3>2. \A u \in Threads : next[u] \in Nat /\ next'[u] \in {next[u], next[u] + 1}
      BY <1>1 DEF Typed
    <3>3. \A i \in DOMAIN short : short[i].line \in Nat
      <4>1. \A i \in DOMAIN short : short[i] \in Lines
        OBVIOUS
      <4> QED
        BY <4>1 DEF Lines
    <3>4. Tidy(short, calls, next')
      BY SMTT(30), <3>1, <3>2, <3>3 DEF Tidy
    <3> QED
      BY <3>1, <3>4
  <2>4. /\ Tidy(console', calls, next') /\ StillLast(console', t, calls[t])
        /\ Tidy(file' \o buffer', calls, next') /\ StillLast(file' \o buffer', t, calls[t])
    BY <1>1, <1>4, <1>5, <2>1, <2>2, <2>3
  <2> QED
    BY <1>1, <1>2, <2>4 DEF LogsTidy
<1>9. OnlyOwnersLinesAtRisk'
  <2> SUFFICES ASSUME is_open, ~failed', NEW i \in DOMAIN buffer'
               PROVE  owner # Nobody /\ buffer'[i].thread = owner
    BY <1>1 DEF OnlyOwnersLinesAtRisk
  <2>1. buffer' = Append(buffer, line) /\ ~failed
    BY <1>4
  <2>2. (i \in DOMAIN buffer /\ buffer'[i] = buffer[i]) \/ buffer'[i] = line
    BY <1>3, <2>1 DEF Typed
  <2> QED
    BY <1>2, <2>1, <2>2 DEF OnlyOwnersLinesAtRisk, Line
<1>10. Written'
  <2> SUFFICES ASSUME NEW u \in Threads, pc'[u] \in {"line", "end", "flush", "abort"},
                      NEW k \in 1 .. next'[u] - 1
               PROVE  /\ \E i \in DOMAIN console' : console'[i] = Line(u, k)
                      /\ is_open /\ ~failed' =>
                           \/ \E i \in DOMAIN file' : file'[i] = Line(u, k)
                           \/ /\ pc'[u] \in {"line", "end"}
                              /\ \E i \in DOMAIN buffer' : buffer'[i] = Line(u, k)
    BY <1>1 DEF Written, Line
  <2>1. \A i \in DOMAIN console : i \in DOMAIN console' /\ console'[i] = console[i]
    BY SMTT(30), <1>1, <1>3 DEF Typed
  <2>2. \E i \in DOMAIN console' : console'[i] = line
    <3>1. Len(console) + 1 \in DOMAIN console' /\ console'[Len(console) + 1] = line
      BY <1>1, <1>3 DEF Typed
    <3> QED
      BY <3>1
  <2>3. ASSUME is_open, ~failed'
        PROVE  /\ \A i \in DOMAIN file : i \in DOMAIN file' /\ file'[i] = file[i]
               /\ \A i \in DOMAIN buffer : \/ \E j \in DOMAIN file' : file'[j] = buffer[i]
                                           \/ \E j \in DOMAIN buffer' : buffer'[j] = buffer[i]
               /\ \/ \E j \in DOMAIN file' : file'[j] = line
                  \/ \E j \in DOMAIN buffer' : buffer'[j] = line
    <3> DEFINE longer == Append(buffer, line)
    <3>1. /\ longer \in Seq(Lines)
          /\ \A i \in DOMAIN buffer : i \in DOMAIN longer /\ longer[i] = buffer[i]
          /\ Len(buffer) + 1 \in DOMAIN longer /\ longer[Len(buffer) + 1] = line
      BY SMTT(30), <1>3 DEF Typed
    <3> HIDE DEF longer
    <3>2. CASE file' = file /\ buffer' = longer
      BY <3>1, <3>2
    <3>3. CASE file' = file \o longer
      <4>1. /\ \A i \in DOMAIN file : i \in DOMAIN file' /\ file'[i] = file[i]
            /\ \A i \in DOMAIN longer :
                 Len(file) + i \in DOMAIN file' /\ file'[Len(file) + i] = longer[i]
        BY ZenonT(30), <3>1, <3>3, ConcatKeeps DEF Typed
      <4> QED
        BY <3>1, <4>1
    <3> QED
      BY <1>4, <2>3, <3>2, <3>3 DEF longer
  <2>4. CASE u = t /\ k = next[t]
    BY <1>1, <1>2, <2>2, <2>3, <2>4 DEF Typed
  <2>5. CASE ~(u = t /\ k = next[t])
    <3>1. /\ pc[u] \in {"line", "end", "flush", "abort"} /\ k \in 1 .. next[u] - 1
          /\ (pc[u] \in {"line", "end"}) <=> (pc'[u] \in {"line", "end"})
      BY <1>1, <1>2, <2>5 DEF Typed
    <3> QED
      BY <1>4, <2>1, <2>3, <3>1 DEF Written
  <2> QED
    BY <2>4, <2>5
<1>11. ReasonRecorded'
  BY <1>1 DEF ReasonRecorded
<1> QED
  BY <1>6, <1>7, <1>8, <1>9, <1>10, <1>11
\* A flush by a thread that has the mutex, or when nobody has it: the logs lose
\* at most their end, and if the file takes output the buffer is in it.
LEMMA FlushKeeps ==
  ASSUME Inv, Flush, UNCHANGED <<process, calls, lines, next, fatal, opens, is_open,
                                 console, disk>>,
         owner' \in {owner, Nobody}, NEW t \in Threads,
         \A u \in Threads : u # t => pc'[u] = pc[u],
         pc[t] \in {"end", "flush"}, pc'[t] \in {"idle", "flush", "abort"},
         Typed', Progress'
  PROVE  Inv'
<1> USE DEF Inv
<1>1. /\ file' \in Seq(Lines) /\ buffer' \in Seq(Lines) /\ failed' \in BOOLEAN
      /\ failed => failed'
      /\ Shorter(file' \o buffer', file \o buffer)
      /\ is_open /\ ~failed' => buffer' = <<>> /\ file' = file \o buffer
  BY FlushStep
<1>2. UNCHANGED <<process, calls, lines, next, fatal, is_open, console, diskFull>>
  BY DEF disk
<1>3. LogsTidy'
  <2>1. file \o buffer \in Seq(Lines) /\ file' \o buffer' \in Seq(Lines)
    BY <1>1, ConcatProperties DEF Typed
  <2>2. /\ Tidy(file' \o buffer', calls, next)
        /\ \A u, call : StillLast(file \o buffer, u, call) =>
                          StillLast(file' \o buffer', u, call)
    BY <1>1, <2>1, ShorterTidy DEF LogsTidy
  <2>3. owner' \in Threads => owner' = owner
    BY NobodyAssumption
  <2> QED
    BY <1>2, <2>2, <2>3 DEF LogsTidy
<1>4. OnlyOwnersLinesAtRisk' /\ ReasonRecorded'
  <2>1. OnlyOwnersLinesAtRisk'
    BY <1>1, <1>2 DEF OnlyOwnersLinesAtRisk
  <2>2. process = "aborted" => ReasonRecorded'
    <3> SUFFICES ASSUME process = "aborted" PROVE ReasonRecorded'
      OBVIOUS
    <3>1. PICK u \in Threads :
            fatal[u] /\ \A k \in 1 .. lines[u] :
              /\ \E i \in DOMAIN console : console[i] = Line(u, k)
              /\ is_open /\ ~failed => \E i \in DOMAIN file : file[i] = Line(u, k)
      BY DEF ReasonRecorded
    <3>2. ASSUME is_open, ~failed'
          PROVE  /\ ~failed
                 /\ \A i \in DOMAIN file : i \in DOMAIN file' /\ file'[i] = file[i]
      <4>1. ~failed /\ file' = file \o buffer
        BY <1>1, <3>2
      <4>2. file \in Seq(Lines) /\ buffer \in Seq(Lines)
        BY DEF Typed
      <4> QED
        BY <4>1, <4>2, ConcatKeeps
    <3>3. \A k : Line(u, k)' = Line(u, k)
      BY <1>2 DEF Line
    <3> QED
      BY <1>2, <3>1, <3>2, <3>3 DEF ReasonRecorded
  <2> QED
    BY <1>2, <2>1, <2>2 DEF ReasonRecorded
<1>5. Written'
  <2> SUFFICES ASSUME NEW u \in Threads, pc'[u] \in {"line", "end", "flush", "abort"},
                      NEW k \in 1 .. next[u] - 1
               PROVE  /\ \E i \in DOMAIN console : console[i] = Line(u, k)
                      /\ is_open /\ ~failed' => \E i \in DOMAIN file' : file'[i] = Line(u, k)
    BY <1>2 DEF Written, Line
  <2>1. pc[u] \in {"line", "end", "flush", "abort"}
    BY DEF Typed
  <2>2. /\ \E i \in DOMAIN console : console[i] = Line(u, k)
        /\ is_open /\ ~failed =>
             \/ \E i \in DOMAIN file : file[i] = Line(u, k)
             \/ \E i \in DOMAIN buffer : buffer[i] = Line(u, k)
    BY <2>1 DEF Written
  <2>3. ASSUME is_open, ~failed'
        PROVE  /\ \A i \in DOMAIN file : i \in DOMAIN file' /\ file'[i] = file[i]
               /\ \A i \in DOMAIN buffer :
                    Len(file) + i \in DOMAIN file' /\ file'[Len(file) + i] = buffer[i]
    <3>1. file' = file \o buffer
      BY <1>1, <2>3
    <3>2. file \in Seq(Lines) /\ buffer \in Seq(Lines)
      BY DEF Typed
    <3> QED
      BY <3>1, <3>2, ConcatKeeps
  <2> QED
    BY <1>1, <2>2, <2>3
<1> QED
  BY <1>3, <1>4, <1>5

\* write() ends with a flush, before the mutex is given back.
LEMMA WriteEndsStep == ASSUME Inv, NEW t \in Threads, WriteEnds(t) PROVE Inv'
<1>1. /\ process = "running" /\ pc[t] = "end" /\ Flush /\ owner' = Nobody
      /\ pc' = [pc EXCEPT ![t] = IF fatal[t] THEN "flush" ELSE "idle"]
      /\ UNCHANGED <<process, calls, lines, next, fatal, opens, is_open, console, disk>>
  BY DEF WriteEnds, Goto
<1>2. owner = t /\ t # Nobody
  BY <1>1, NobodyAssumption DEF Inv, Typed, Progress
<1>3. /\ file' \in Seq(Lines) /\ buffer' \in Seq(Lines) /\ failed' \in BOOLEAN
  BY <1>1, FlushStep DEF Inv
<1>4. Typed'
  <2>1. pc' \in [Threads -> {"idle", "log", "line", "end", "flush", "abort"}]
    BY <1>1 DEF Inv, Typed
  <2> QED
    BY <1>1, <1>3, <2>1 DEF Inv, Typed, disk
<1>5. Progress'
  BY <1>1, <1>2, NobodyAssumption DEF Inv, Typed, Progress
<1>6. pc'[t] \in {"idle", "flush"} /\ \A u \in Threads : u # t => pc'[u] = pc[u]
  BY <1>1 DEF Inv, Typed
<1> QED
  BY <1>1, <1>4, <1>5, <1>6, FlushKeeps

\* Logger::flush, called by the terminate handler.
LEMMA FlushCallStep == ASSUME Inv, NEW t \in Threads, FlushCall(t) PROVE Inv'
<1>1. /\ process = "running" /\ pc[t] = "flush" /\ owner = Nobody /\ owner' = owner
      /\ Flush /\ pc' = [pc EXCEPT ![t] = "abort"]
      /\ UNCHANGED <<process, calls, lines, next, fatal, opens, is_open, console, disk>>
  BY DEF FlushCall, Goto
<1>2. /\ file' \in Seq(Lines) /\ buffer' \in Seq(Lines) /\ failed' \in BOOLEAN
  BY <1>1, FlushStep DEF Inv
<1>3. Typed'
  <2>1. pc' \in [Threads -> {"idle", "log", "line", "end", "flush", "abort"}]
    BY <1>1 DEF Inv, Typed
  <2> QED
    BY <1>1, <1>2, <2>1 DEF Inv, Typed, disk
<1>4. Progress'
  BY <1>1 DEF Inv, Typed, Progress
<1>5. pc'[t] = "abort" /\ \A u \in Threads : u # t => pc'[u] = pc[u]
  BY <1>1 DEF Inv, Typed
<1> QED
  BY <1>1, <1>3, <1>4, <1>5, FlushKeeps

\* configure() comes before the first log(): the logs hold no message.
LEMMA ConfigureStep == ASSUME Inv, Configure PROVE Inv'
<1> USE DEF Inv
<1>1. /\ process = "running" /\ \A t \in Threads : calls[t] = 0
      /\ UNCHANGED <<process, pc, owner, calls, lines, next, fatal, console, diskFull>>
  BY DEF Configure, threadVars, disk
<1>2. \A t \in Threads : pc[t] = "idle" /\ owner # t
  BY <1>1 DEF Typed, Progress
<1>3. owner = Nobody /\ process # "aborted"
  BY <1>1, <1>2 DEF Typed
<1>4. SessionStarted \in Lines
  BY DEF SessionStarted, Lines
<1> DEFINE closed == IF is_open /\ ~diskFull THEN file \o buffer ELSE file
<1>5. \/ UNCHANGED <<is_open, failed, buffer, file>>
      \/ /\ is_open' \in BOOLEAN /\ buffer' = <<>> /\ failed' \in BOOLEAN
         /\ file' \in {closed, Append(closed, SessionStarted)}
  BY DEF Configure, fileVars
<1>6. closed \in Seq(Lines) /\ Append(closed, SessionStarted) \in Seq(Lines)
  <2>1. closed \in Seq(Lines)
    BY ConcatProperties DEF Typed
  <2> QED
    BY <1>4, <2>1
<1>7. Typed'
  <2>1. /\ is_open' \in BOOLEAN /\ failed' \in BOOLEAN
        /\ buffer' \in Seq(Lines) /\ file' \in Seq(Lines)
    <3>1. CASE UNCHANGED <<is_open, failed, buffer, file>>
      BY <3>1 DEF Typed
    <3>2. CASE buffer' = <<>> /\ file' \in {closed, Append(closed, SessionStarted)}
               /\ is_open' \in BOOLEAN /\ failed' \in BOOLEAN
      <4> HIDE DEF closed
      <4>1. <<>> \in Seq(Lines)
        OBVIOUS
      <4> QED
        BY <1>6, <3>2, <4>1
    <3> QED
      BY <1>5, <3>1, <3>2
  <2> QED
    BY <1>1, <2>1 DEF Typed
<1>8. Progress'
  BY <1>1 DEF Progress
<1>9. OnlyOwnersLinesAtRisk'
  <2>1. CASE UNCHANGED <<is_open, failed, buffer, file>>
    BY <1>1, <2>1 DEF OnlyOwnersLinesAtRisk
  <2>2. CASE buffer' = <<>>
    BY <2>2 DEF OnlyOwnersLinesAtRisk
  <2> QED
    BY <1>5, <2>1, <2>2
<1>10. Written' /\ ReasonRecorded'
  BY <1>1, <1>2, <1>3 DEF Written, ReasonRecorded
<1>11. LogsTidy'
  <2>1. file \o buffer \in Seq(Lines)
    BY ConcatProperties DEF Typed
  <2>2. \A i \in DOMAIN (file \o buffer) : (file \o buffer)[i].thread \notin Threads
    <3>1. \A t \in Threads : calls[t] = 0 /\ calls[t] \in Nat
      BY <1>1 DEF Typed
    <3>2. \A i \in DOMAIN (file \o buffer) : (file \o buffer)[i].call \in Nat
      <4>1. \A i \in DOMAIN (file \o buffer) : (file \o buffer)[i] \in Lines
        BY <2>1
      <4> QED
        BY <4>1 DEF Lines
    <3> QED
      BY <3>1, <3>2 DEF LogsTidy, Tidy
  <2>3. \A i \in DOMAIN file : file[i].thread \notin Threads
    <3>1. \A i \in DOMAIN file : i \in DOMAIN (file \o buffer) /\ (file \o buffer)[i] = file[i]
      BY ConcatProperties DEF Typed
    <3> QED
      BY <2>2, <3>1
  <2>4. \A i \in DOMAIN closed : closed[i].thread \notin Threads
    BY <2>2, <2>3
  <2> HIDE DEF closed
  <2>5. \A i \in DOMAIN Append(closed, SessionStarted) :
          Append(closed, SessionStarted)[i].thread \notin Threads
    <3>1. \A i \in DOMAIN Append(closed, SessionStarted) :
            \/ i \in DOMAIN closed /\ Append(closed, SessionStarted)[i] = closed[i]
            \/ Append(closed, SessionStarted)[i] = SessionStarted
      BY <1>4, <1>6
    <3>2. SessionStarted.thread \notin Threads
      BY NobodyAssumption DEF SessionStarted
    <3> QED
      BY <2>4, <3>1, <3>2
  <2>6. \A log \in Seq(Lines) :
          (\A i \in DOMAIN log : log[i].thread \notin Threads) => Tidy(log, calls, next)
    <3> SUFFICES ASSUME NEW log \in Seq(Lines), \A i \in DOMAIN log : log[i].thread \notin Threads
                 PROVE  Tidy(log, calls, next)
      OBVIOUS
    <3>1. \A i \in DOMAIN log : log[i] \in Lines
      OBVIOUS
    <3>2. \A i \in DOMAIN log : log[i].thread = Nobody
      BY <3>1 DEF Lines
    <3> QED
      BY <3>2, NobodyAssumption DEF Tidy, Together
  <2>7. file' \o buffer' \in {file \o buffer, closed, Append(closed, SessionStarted)}
    <3>1. \A log \in Seq(Lines) : log \o <<>> = log
      BY ConcatEmptySeq
    <3> QED
      BY <1>5, <1>6, <3>1
  <2>8. Tidy(file' \o buffer', calls, next)
    BY <1>6, <2>1, <2>2, <2>4, <2>5, <2>6, <2>7
  <2> QED
    BY <1>1, <1>3, <2>8, NobodyAssumption DEF LogsTidy
<1> QED
  BY <1>7, <1>8, <1>9, <1>10, <1>11

\* abort(), a crash, the disk: nothing of the logs changes any more, or yet.
LEMMA ProcessStep ==
  ASSUME Inv, UNCHANGED <<threadVars, opens, fileVars, console>>, diskFull' \in BOOLEAN,
         \/ process' = process
         \/ process' = "crashed"
         \/ process' = "aborted" /\ \E t \in Threads : pc[t] = "abort"
  PROVE  Inv'
<1> USE DEF Inv
<1>1. UNCHANGED <<pc, owner, calls, lines, next, fatal, is_open, failed, buffer, file, console>>
  BY DEF threadVars, fileVars
<1>2. Typed'
  BY <1>1 DEF Typed
<1>3. Progress' /\ LogsTidy' /\ OnlyOwnersLinesAtRisk'
  BY <1>1 DEF Progress, LogsTidy, OnlyOwnersLinesAtRisk
<1>4. Written'
  BY <1>1 DEF Written, Line
<1>5. ReasonRecorded'
  <2>1. CASE process' = process
    BY <1>1, <2>1 DEF ReasonRecorded, Line
  <2>2. CASE process' = "crashed"
    BY <2>2 DEF ReasonRecorded
  <2>3. CASE process' = "aborted" /\ \E t \in Threads : pc[t] = "abort"
    <3>1. PICK t \in Threads : pc[t] = "abort"
      BY <2>3
    <3>2. fatal[t] /\ next[t] = lines[t] + 1 /\ lines[t] \in Nat
      BY <3>1 DEF Progress, Typed
    <3>3. \A k \in 1 .. lines[t] :
            /\ \E i \in DOMAIN console : console[i] = Line(t, k)
            /\ is_open /\ ~failed => \E i \in DOMAIN file : file[i] = Line(t, k)
      BY <3>1, <3>2 DEF Written
    <3> QED
      BY <1>1, <3>2, <3>3 DEF ReasonRecorded, Line
  <2> QED
    BY <2>1, <2>2, <2>3
<1> QED
  BY <1>2, <1>3, <1>4, <1>5

LEMMA NextInv == Inv /\ [Next]_vars => Inv'
<1> SUFFICES ASSUME Inv, [Next]_vars PROVE Inv'
  OBVIOUS
<1>1. ASSUME NEW t \in Threads, Log(t) \/ Terminate(t) PROVE Inv'
  <2>1. /\ process = "running" /\ pc[t] = "idle" /\ Begin(t)
        /\ fatal' \in {fatal, [fatal EXCEPT ![t] = TRUE]}
        /\ UNCHANGED <<process, owner, opens, fileVars, console, disk>>
    BY <1>1 DEF Log, Terminate
  <2> QED
    BY <2>1, BeginStep
<1>2. ASSUME NEW t \in Threads, Step(t) PROVE Inv'
  <2>1. CASE Abort(t)
    BY <2>1, ProcessStep DEF Abort, disk, Inv, Typed
  <2> QED
    BY <1>2, <2>1, LockStep, WriteLineStep, WriteEndsStep, FlushCallStep DEF Step
<1>3. CASE Configure
  BY <1>3, ConfigureStep
<1>4. CASE Crash
  BY <1>4, ProcessStep DEF Crash, disk, Inv, Typed
<1>5. CASE DiskChanges
  BY <1>5, ProcessStep DEF DiskChanges
<1>6. CASE UNCHANGED vars
  BY <1>6, ProcessStep DEF vars, disk, Inv, Typed
<1> QED
  BY <1>1, <1>2, <1>3, <1>4, <1>5, <1>6 DEF Next

-----------------------------------------------------------------------------
(* The theorems *)

\* Every reachable state satisfies the inductive invariant.
THEOREM InvariantHolds == Spec => []Inv
BY InitInv, NextInv, PTL DEF Spec

\* The lines of a message stand together and in order, in both logs, for any
\* number of threads and wherever the stream loses its buffer.
THEOREM MessagesStandTogether == Spec => []LinesTogether
<1>1. Inv => LinesTogether
  BY DEF Inv, LogsTidy, Tidy, LinesTogether
<1> QED
  BY <1>1, InvariantHolds, PTL

\* As long as the file takes output, a crash costs it no message whose log()
\* has returned.
THEOREM CrashCostsOnlyTheOwner == Spec => []OnlyOwnersLinesAtRisk
<1>1. Inv => OnlyOwnersLinesAtRisk
  BY DEF Inv
<1> QED
  BY <1>1, InvariantHolds, PTL

\* The terminate handler does not abort before its reason is where it belongs.
THEOREM AbortLeavesReason == Spec => []ReasonRecorded
<1>1. Inv => ReasonRecorded
  BY DEF Inv
<1> QED
  BY <1>1, InvariantHolds, PTL
=============================================================================
