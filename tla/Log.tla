-------------------------------- MODULE Log --------------------------------
(***************************************************************************)
(* src/lib/util/log.c: lines that go through stdio's buffer to a file      *)
(* opened for appending.  Header and message of a line are one element of  *)
(* the sequences; the process may die at any time and log to the same file *)
(* again.                                                                  *)
(***************************************************************************)
EXTENDS Calls, SequencesExt

CONSTANT MaxLog    \* bound on the elements between two calls of log_clear()

VARIABLE log

Severities == 0..3     \* LOG_DEBUG, LOG_INFO, LOG_WARNING, LOG_ERROR

LogInfo == 1

\* what log_append() writes, and what log_init() does
Appended == 4
Dashes == 5

Puts(l, line) == [l EXCEPT !.pending = Append(@, line), !.sent = Append(@, line)]

\* fflush(); stdio does the same when its buffer is full, for a part of it
Flushed(l) == [l EXCEPT !.file = @ \o l.pending, !.pending = <<>>]

-----------------------------------------------------------------------------
\* log_new(), log_init(): the file, a clock or the host name may be refused
LogInit(file) ==
    \/ /\ log' = Puts([file |-> file, sent |-> file, pending |-> <<>>,
                       level |-> LogInfo, open |-> TRUE], Dashes)
       /\ Returns(None)
    \/ Returns(Failed) /\ UNCHANGED log

Room == Len(log.sent) < MaxLog

LogSetLevel(level) == log' = [log EXCEPT !.level = level] /\ Returns(None)

\* log_append(), log_vappend(): not flushed
LogAppend == Room /\ log' = Puts(log, Appended) /\ Returns(None)

\* PrintUnflushed: the line waits for another one
PrintUnflushed(level) ==
    /\ Room
    /\ log' = IF level < log.level THEN log ELSE Puts(log, level)
    /\ Returns(None)

\* print() for log_printf(), log_vprintf(), log_debug(), ..., log_error()
LogPrintf(level) ==
    /\ Room
    /\ log' = IF level < log.level THEN log ELSE Flushed(Puts(log, level))
    /\ Returns(None)

StdioFlush ==
    /\ log.pending # <<>>
    /\ log' = [log EXCEPT !.file = Append(@, Head(log.pending)), !.pending = Tail(@)]
    /\ Returns(None)

\* log_clear(): ftruncate() knows nothing of what is still in the buffer
LogClear ==
    /\ log' = [log EXCEPT !.file = <<>>, !.sent = log.pending]
    /\ Returns(None)

\* log_print(): rewind() flushes; what is copied then is not followed
LogPrint == log' = Flushed(log) /\ Returns(None)

\* log_set_file() closes the old file and goes on in one of the caller's
LogSetFile ==
    /\ log' = [log EXCEPT !.file = <<>>, !.pending = <<>>, !.sent = <<>>]
    /\ Returns(None)

\* log_destroy(), log_delete(): fclose() flushes
LogDestroy == log' = [Flushed(log) EXCEPT !.open = FALSE] /\ Returns(None)

LogCrash == log' = [log EXCEPT !.pending = <<>>, !.open = FALSE] /\ Returns(None)

\* the file is not followed any more
LogGone == log' = None /\ Returns(None)

LogNext ==
    \/ log = None /\ LogInit(<<>>)
    \/ /\ log # None /\ ~log.open
       /\ LogGone \/ (Len(log.file) < MaxLog /\ LogInit(log.file))
    \/ /\ log # None /\ log.open
       /\ \/ \E level \in Severities : LogSetLevel(level) \/ LogPrintf(level)
          \/ LogAppend \/ StdioFlush \/ LogClear \/ LogPrint \/ LogSetFile
          \/ LogDestroy \/ LogCrash

-----------------------------------------------------------------------------
(* Properties *)

\* The file holds what was written since it was cleared, in that order, up to
\* some point; every line of log_printf() is before that point once the call is
\* over, also when the process dies later, whatever was appended or cleared in
\* between (print(), log_clear(), log_append()).
LogKept ==
    log # None =>
        /\ IsPrefix(log.file, log.sent)
        /\ \A i \in DOMAIN log.sent : log.sent[i] \in Severities => i <= Len(log.file)
        /\ log.open => log.file \o log.pending = log.sent
=============================================================================
