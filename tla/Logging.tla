------------------------------- MODULE Logging -------------------------------
(***************************************************************************)
(* The logger of src/Logging/Logging.c: a buffer of messages per thread and *)
(* the files they are written to under logMutex.  A message is its number   *)
(* among those of its thread, its level and the bytes it takes.             *)
(***************************************************************************)
EXTENDS Naturals, Sequences
S == INSTANCE SequencesExt

CONSTANTS
    NoThread,
    Threads, Levels,
    Files,       \* file -> the levels of its flags
    BufferSize,  \* BL_LOGGING_BUFFERSIZE
    Sizes        \* the sizes of messages, each of which ends in NUL

VARIABLES
    files,     \* the files registered
    logMutex,  \* who holds it
    buffer,    \* what is in each thread's buffer
    batches,   \* what the thread's call is about to give bl_internal_write_log
    text,      \* that the thread has written a message and not its newline
    out,       \* what each file holds
    closed,    \* that the cleanup has run
    logged,    \* history: the messages of each thread
    dropped,   \* history: that a message was lost to a lock or an allocation
    stray      \* history: that a line was written after the cleanup

loggingVars == <<files, logMutex, buffer, batches, text, out, closed, logged, dropped, stray>>

Newline == [by |-> NoThread, number |-> 0, level |-> 0, size |-> 0]
IsNewline(line) == line.by = NoThread

\* After bl_log_init.
Init ==
    /\ files = {} /\ logMutex = NoThread
    /\ buffer = [t \in Threads |-> <<>>] /\ batches = [t \in Threads |-> <<>>]
    /\ text = [t \in Threads |-> FALSE]
    /\ out = [f \in DOMAIN Files |-> <<>>]
    /\ closed = FALSE
    /\ logged = [t \in Threads |-> <<>>] /\ dropped = FALSE /\ stray = FALSE

IsIdle(t) == batches[t] = <<>>

Register(f) ==
    /\ f \notin files /\ ~closed
    /\ logMutex = NoThread
    /\ files' = files \union {f}
    /\ UNCHANGED <<logMutex, buffer, batches, text, out, closed, logged, dropped, stray>>

-----------------------------------------------------------------------------
(* bl_vlog and bl_log_flush.  The buffer is the thread's own: what becomes  *)
(* of it is one step with the call, what it held is written after that.     *)

bytesWritten(t) == S!FoldLeft(LAMBDA acc, m : acc + m.size, 0, buffer[t])

\* bl_internal_write_log returns at once from an empty buffer.
Flushed(t) == IF buffer[t] = <<>> THEN <<>> ELSE <<buffer[t]>>

Log(t, level, size) ==
    LET message == [by |-> t, number |-> Len(logged[t]) + 1, level |-> level, size |-> size]
        fits    == size <= BufferSize - bytesWritten(t)
    IN  /\ IsIdle(t)
        /\ logged' = [logged EXCEPT ![t] = Append(@, message)]
        /\ buffer' = [buffer EXCEPT ![t] = IF fits THEN Append(@, message)
                                           ELSE IF size <= BufferSize THEN <<message>> ELSE <<>>]
        /\ batches' = [batches EXCEPT ![t] = IF fits THEN <<>>
                                             ELSE IF size <= BufferSize THEN Flushed(t)
                                             ELSE Append(Flushed(t), <<message>>)]
        /\ UNCHANGED <<files, logMutex, text, out, closed, dropped, stray>>

Flush(t) ==
    /\ IsIdle(t) /\ buffer[t] # <<>>
    /\ batches' = [batches EXCEPT ![t] = Flushed(t)]
    /\ buffer' = [buffer EXCEPT ![t] = <<>>]
    /\ UNCHANGED <<files, logMutex, text, out, closed, logged, dropped, stray>>

-----------------------------------------------------------------------------
(* bl_internal_write_log, line by line.                                     *)

\* Mutant: it does not wait for the mutex.
WriteBeginsAnyway(t) ==
    /\ batches[t] # <<>> /\ logMutex # t
    /\ logMutex' = t
    /\ UNCHANGED <<files, buffer, batches, text, out, closed, logged, dropped, stray>>

WriteBegins(t) ==
    /\ batches[t] # <<>> /\ logMutex = NoThread
    /\ logMutex' = t
    /\ UNCHANGED <<files, buffer, batches, text, out, closed, logged, dropped, stray>>

\* The mutex cannot be locked, or there is no memory for a long message; bound:
\* once.
WriteFails(t) ==
    /\ ~dropped
    /\ batches[t] # <<>> /\ logMutex # t
    /\ batches' = [batches EXCEPT ![t] = Tail(@)] /\ dropped' = TRUE
    /\ UNCHANGED <<files, logMutex, buffer, text, out, closed, logged, stray>>

\* What every file that takes the line's level gets.
Puts(level, what) ==
    out' = [f \in DOMAIN out |->
               IF f \in files /\ level \in Files[f] /\ ~closed THEN Append(out[f], what) ELSE out[f]]

Line(t) == Head(Head(batches[t]))

WriteText(t) ==
    /\ logMutex = t /\ ~text[t] /\ Head(batches[t]) # <<>>
    /\ Puts(Line(t).level, Line(t))
    /\ text' = [text EXCEPT ![t] = TRUE]
    /\ stray' = (stray \/ (closed /\ files # {}))
    /\ UNCHANGED <<files, logMutex, buffer, batches, closed, logged, dropped>>

WriteNewline(t) ==
    /\ logMutex = t /\ text[t]
    /\ Puts(Line(t).level, Newline)
    /\ text' = [text EXCEPT ![t] = FALSE]
    /\ batches' = [batches EXCEPT ![t] = <<Tail(Head(@))>> \o Tail(@)]
    /\ UNCHANGED <<files, logMutex, buffer, closed, logged, dropped, stray>>

WriteEnds(t) ==
    /\ logMutex = t /\ Head(batches[t]) = <<>>
    /\ logMutex' = NoThread
    /\ batches' = [batches EXCEPT ![t] = Tail(@)]
    /\ UNCHANGED <<files, buffer, text, out, closed, logged, dropped, stray>>

Writes(t) == WriteBegins(t) \/ WriteText(t) \/ WriteNewline(t) \/ WriteEnds(t)

\* internal_cleanup: it takes no mutex, and neither forgets the files nor that
\* the logger was initialized.
Cleanup ==
    /\ ~closed
    /\ closed' = TRUE
    /\ UNCHANGED <<files, logMutex, buffer, batches, text, out, logged, dropped, stray>>
-----------------------------------------------------------------------------
\* What the thread's call and its buffer hold back.
Waiting(t) == S!ToSet(buffer[t]) \union UNION { S!ToSet(batches[t][b]) : b \in DOMAIN batches[t] }

Written(f) == S!ToSet(out[f])

(* Every line ends before another begins.  A line of a file is a message of *)
(* a level it takes, and a thread's come in the order the thread logged     *)
(* them, each once (lines 49-128).  No message is missing: after one that   *)
(* a file has or is yet to have, it has or is yet to have all the thread's. *)
(* A file registered later misses what was written before, and one that was *)
(* closed what came after.                                                  *)
LogsLines ==
    \A f \in files :
        /\ \A n \in DOMAIN out[f] :
               n < Len(out[f]) => (IsNewline(out[f][n]) <=> ~IsNewline(out[f][n + 1]))
        /\ \A n \in DOMAIN out[f] : ~IsNewline(out[f][n]) =>
               out[f][n] \in S!ToSet(logged[out[f][n].by]) /\ out[f][n].level \in Files[f]
        /\ \A m, n \in DOMAIN out[f] :
               m < n /\ out[f][m].by = out[f][n].by /\ ~IsNewline(out[f][m]) =>
                   out[f][m].number < out[f][n].number
        /\ ~dropped /\ ~closed => \A t \in Threads :
               \A early, late \in { m \in S!ToSet(logged[t]) : m.level \in Files[f] } :
                   early.number <= late.number /\ early \in Written(f) \union Waiting(t) =>
                       late \in Written(f) \union Waiting(t)
=============================================================================
