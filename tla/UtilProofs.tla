----------------------------- MODULE UtilProofs -----------------------------
(***************************************************************************)
(* Proofs about the modules of src/lib/util.  Clock: it is a Stopwatch,    *)
(* for seconds of any number of ticks, units that divide them, and times   *)
(* of any size.  Log: what was logged is in the file, whatever its length  *)
(* and also when the process has died since.  Config: no key or value      *)
(* outlives the text it points into, and of a text of any lines the parser *)
(* reads what each line says by itself, up to the first that says nothing. *)
(* ConfigFile: any number of processes, a path of any depth and any order  *)
(* of their system calls and deaths write the first text of a              *)
(* configuration once.  Options: on a command line of any length each text *)
(* goes to the option whose flag stands before it.                         *)
(***************************************************************************)
EXTENDS Clock, Log, Options, Config, ConfigFile, Induction

-----------------------------------------------------------------------------
(* Clock *)

ClockSpec ==
    /\ clock = None /\ now = 0 /\ returned = None /\ Fine
    /\ [][ClockNext]_<<now, clock, returned, fault>>

\* A time whose fraction is one: tv_nsec is less than a second.
Times == [sec : Int, nsec : 0..Second - 1]

ClockInv ==
    /\ now \in Nat
    /\ clock # None => clock \in [start : Times, current : Times, active : BOOLEAN]

-----------------------------------------------------------------------------
(* Times of two parts and what they count *)

\* A quotient is the number of whole divisors.
LEMMA Division ==
  ASSUME NEW m \in Nat \ {0}, NEW q \in Int, NEW r \in 0..m - 1
  PROVE  (q * m + r) \div m = q
OBVIOUS

\* A number is its quotient and its remainder.
LEMMA Divided ==
  ASSUME NEW m \in Nat \ {0}, NEW n \in Int
  PROVE  n \div m \in Int /\ n % m \in 0..m - 1 /\ n = (n \div m) * m + (n % m)
OBVIOUS

\* A number of ticks comes back.
LEMMA TicksOfTimespec ==
  ASSUME NEW n \in Int
  PROVE  Timespec(n) \in Times /\ Ticks(Timespec(n)) = n
BY Divided, TimeAssumption DEF Timespec, Ticks, Times

\* _timespec_diff() borrows a second.
LEMMA DiffTicks ==
  ASSUME NEW t \in Times, NEW u \in Times
  PROVE  Diff(t, u) \in Times /\ Ticks(Diff(t, u)) = Ticks(t) - Ticks(u)
<1>1. /\ t.sec \in Int /\ t.nsec \in 0..Second - 1
      /\ u.sec \in Int /\ u.nsec \in 0..Second - 1
  BY DEF Times
<1>2. /\ (t.sec - u.sec) * Second = t.sec * Second - u.sec * Second
      /\ (t.sec - u.sec - 1) * Second = t.sec * Second - u.sec * Second - Second
  BY <1>1, TimeAssumption
<1>3. t.sec * Second \in Int /\ u.sec * Second \in Int
  BY <1>1, TimeAssumption
<1>4. CASE t.nsec < u.nsec
  <2>1. Diff(t, u) = [sec |-> t.sec - u.sec - 1, nsec |-> t.nsec - u.nsec + Second]
    BY <1>4 DEF Diff
  <2>2. t.sec - u.sec - 1 \in Int /\ t.nsec - u.nsec + Second \in 0..Second - 1
    BY <1>1, <1>4, TimeAssumption
  <2>3. Ticks(Diff(t, u)) = (t.sec - u.sec - 1) * Second + (t.nsec - u.nsec + Second)
    BY <2>1 DEF Ticks
  <2> QED
    BY <1>1, <1>2, <1>3, <2>1, <2>2, <2>3, TimeAssumption DEF Ticks, Times
<1>5. CASE ~(t.nsec < u.nsec)
  <2>1. Diff(t, u) = [sec |-> t.sec - u.sec, nsec |-> t.nsec - u.nsec]
    BY <1>5 DEF Diff
  <2>2. t.sec - u.sec \in Int /\ t.nsec - u.nsec \in 0..Second - 1
    BY <1>1, <1>5, TimeAssumption
  <2>3. Ticks(Diff(t, u)) = (t.sec - u.sec) * Second + (t.nsec - u.nsec)
    BY <2>1 DEF Ticks
  <2> QED
    BY <1>1, <1>2, <1>3, <2>1, <2>2, <2>3, TimeAssumption DEF Ticks, Times
<1> QED
  BY <1>4, <1>5

\* clock_elapsed_ns() tells the ticks, clock_elapsed_ms() and _us() whole units.
LEMMA ElapsedNumbers ==
  ASSUME NEW t \in Times
  PROVE  ElapsedTicks(t) = Ticks(t) /\ ElapsedUnits(t) = Ticks(t) \div Unit
<1>1. t.sec \in Int /\ t.nsec \in 0..Second - 1
  BY DEF Times
<1>2. t.nsec % Second = t.nsec
  BY <1>1, TimeAssumption
<1> DEFINE k == Second \div Unit
           q == t.nsec \div Unit
           r == t.nsec % Unit
<1>3. k \in Int /\ Second = k * Unit
  BY Divided, TimeAssumption
<1>4. q \in Int /\ r \in 0..Unit - 1 /\ t.nsec = q * Unit + r
  <2>1. t.nsec \in Int /\ Unit \in Nat \ {0}
    BY <1>1, TimeAssumption
  <2> QED
    BY <2>1, Divided
<1> HIDE DEF k, q, r
<1>5. t.sec * Second + t.nsec = (t.sec * k + q) * Unit + r
  <2>1. t.sec * (k * Unit) = (t.sec * k) * Unit
    BY <1>1, <1>3, TimeAssumption
  <2>2. (t.sec * k + q) * Unit = (t.sec * k) * Unit + q * Unit
    BY <1>1, <1>3, <1>4, TimeAssumption
  <2>3. (t.sec * k) * Unit \in Int /\ q * Unit \in Int
    BY <1>1, <1>3, <1>4, TimeAssumption
  <2> QED
    BY <1>3, <1>4, <2>1, <2>2, <2>3, TimeAssumption
<1>6. t.sec * k + q \in Int
  BY <1>1, <1>3, <1>4
<1>7. (t.sec * Second + t.nsec) \div Unit = t.sec * k + q
  <2>1. ((t.sec * k + q) * Unit + r) \div Unit = t.sec * k + q
    BY <1>4, <1>6, Division, TimeAssumption
  <2> QED
    BY <1>5, <2>1
<1> QED
  BY <1>2, <1>7 DEF ElapsedTicks, ElapsedUnits, Ticks, k, q

-----------------------------------------------------------------------------
(* Each call does what Stopwatch says. *)

\* The fractions stay below a second.
LEMMA ClockTyped == ClockInv /\ [ClockNext]_<<now, clock, returned, fault>> => ClockInv'
<1> SUFFICES ASSUME ClockInv, [ClockNext]_<<now, clock, returned, fault>> PROVE ClockInv'
  OBVIOUS
<1>1. Zero \in Times
  BY TicksOfTimespec DEF Zero
<1>2. CASE UNCHANGED <<now, clock>>
  BY <1>2 DEF ClockInv
<1>3. CASE ClockInit
  BY <1>1, <1>3, TimeAssumption DEF ClockInit, Cleared, ClockInv
<1>4. CASE ClockDestroy
  BY <1>4 DEF ClockDestroy, ClockInv
<1>5. ASSUME clock # None,
             \/ Time \/ ClockClear \/ ClockStart \/ ClockStop
             \/ ClockReset \/ ClockContinue \/ ClockRead
      PROVE  ClockInv'
  <2>1. /\ clock \in [start : Times, current : Times, active : BOOLEAN]
        /\ Timespec(now) \in Times /\ now \in Nat
    BY <1>5, TicksOfTimespec DEF ClockInv
  <2>2. CASE Time
    BY <2>1, <2>2, TimeAssumption DEF Time, ClockInv
  <2>3. CASE ClockClear
    BY <1>1, <2>1, <2>3 DEF ClockClear, Cleared, ClockInv
  <2>4. CASE ClockStart \/ ClockStop \/ ClockReset \/ ClockRead
    BY <1>1, <2>1, <2>4 DEF ClockStart, ClockStop, ClockReset, ClockRead, ClockInv
  <2>5. CASE ClockContinue
    <3>1. now' \in Nat /\ Timespec(now') \in Times
      BY <2>1, <2>5, TimeAssumption, TicksOfTimespec DEF ClockContinue
    <3>2. ClockElapsed(clock, now) \in Times
      BY <2>1, DiffTicks DEF ClockElapsed
    <3>3. Diff(Timespec(now'), ClockElapsed(clock, now)) \in Times
      BY <3>1, <3>2, DiffTicks
    <3> QED
      BY <2>1, <2>5, <3>1, <3>3 DEF ClockContinue, ClockInv
  <2> QED
    BY <1>5, <2>2, <2>3, <2>4, <2>5
<1> QED
  BY <1>2, <1>3, <1>4, <1>5 DEF ClockNext, ClockInitFails

\* What the refinement takes for the running total, in ticks.
LEMMA TotalTicks ==
  ASSUME NEW c \in [start : Times, current : Times, active : BOOLEAN], NEW t \in Nat
  PROVE  /\ ClockElapsed(c, t) \in Times
         /\ Ticks(ClockElapsed(c, t)) =
                (IF c.active THEN t ELSE Ticks(c.current)) - Ticks(c.start)
BY DiffTicks, TicksOfTimespec DEF ClockElapsed

\* The ticks of a time are a number.
LEMMA TicksInt == ASSUME NEW t \in Times PROVE Ticks(t) \in Int
BY TimeAssumption DEF Times, Ticks

\* Each call is the one of Stopwatch with its name, or clears or reads it.
LEMMA ClockRefines ==
  ASSUME ClockInv, ClockInv', [ClockNext]_<<now, clock, returned, fault>>,
         clock # None, clock' # None
  PROVE  [Watch!Next]_<<clock, now, returned>>
<1> DEFINE started == Ticks(clock.start)
           stopped == Ticks(clock.current)
           total == Ticks(ClockElapsed(clock, now))
<1>1. /\ clock \in [start : Times, current : Times, active : BOOLEAN]
      /\ clock' \in [start : Times, current : Times, active : BOOLEAN]
      /\ now \in Nat /\ now' \in Nat
  BY DEF ClockInv
<1>2. /\ total = (IF clock.active THEN now ELSE stopped) - started
      /\ total' = (IF clock'.active THEN now' ELSE stopped') - started'
  BY <1>1, TotalTicks
<1>3. started \in Int /\ stopped \in Int /\ started' \in Int /\ stopped' \in Int
  BY <1>1, TicksInt
<1>4. Ticks(Zero) = 0 /\ Ticks(Timespec(now)) = now
  BY <1>1, TicksOfTimespec DEF Zero
<1>5. Watch!Next <=>
         \/ Watch!Pass \/ Watch!Start \/ Watch!Stop \/ Watch!Continue
         \/ Watch!Clear \/ Watch!Read
  BY DEF Watch!Next
<1>6. CASE UNCHANGED <<clock, now, returned>>
  BY <1>6
<1>7. CASE Time
  <2>1. Watch!Pass
    BY <1>1, <1>2, <1>3, <1>7, TimeAssumption DEF Time, Watch!Pass
  <2> QED
    BY <1>5, <2>1
<1>8. CASE ClockClear
  <2>1. /\ ~clock'.active /\ now' = now
        /\ started' = 0 /\ stopped' = 0 /\ returned' = None
    BY <1>4, <1>8 DEF ClockClear, Cleared, Returns
  <2>2. Watch!Clear
    BY <1>1, <1>2, <2>1 DEF Watch!Clear
  <2> QED
    BY <1>5, <2>2
<1>9. CASE ClockStart
  <2>1. clock'.active /\ now' = now /\ started' = now /\ returned' = None
    BY <1>1, <1>4, <1>9 DEF ClockStart, Returns
  <2>2. Watch!Start
    BY <1>1, <1>2, <2>1 DEF Watch!Start
  <2> QED
    BY <1>5, <2>2
<1>10. CASE ClockStop
  <2>1. /\ ~clock'.active /\ now' = now /\ started' = started /\ stopped' = now
        /\ returned' = None
    BY <1>1, <1>4, <1>10 DEF ClockStop, Returns
  <2>2. Watch!Stop
    BY <1>1, <1>2, <1>3, <2>1 DEF Watch!Stop
  <2> QED
    BY <1>5, <2>2
<1>11. CASE ClockReset
  <2>1. CASE clock.active
    <3>1. clock'.active /\ now' = now /\ started' = now /\ returned' = None
      BY <1>1, <1>4, <1>11, <2>1 DEF ClockReset, Returns
    <3>2. Watch!Start
      BY <1>1, <1>2, <3>1 DEF Watch!Start
    <3> QED
      BY <1>5, <3>2
  <2>2. CASE ~clock.active
    <3>1. /\ ~clock'.active /\ now' = now /\ started' = 0 /\ stopped' = 0
          /\ returned' = None
      BY <1>1, <1>4, <1>11, <2>2 DEF ClockReset, Returns
    <3>2. Watch!Clear
      BY <1>1, <1>2, <3>1 DEF Watch!Clear
    <3> QED
      BY <1>5, <3>2
  <2> QED
    BY <2>1, <2>2
<1>12. CASE ClockContinue
  <2>1. ClockElapsed(clock, now) \in Times /\ Timespec(now') \in Times
    BY <1>1, TotalTicks, TicksOfTimespec
  <2>2. clock'.active /\ now' >= now /\ returned' = None
    BY <1>1, <1>12, TimeAssumption DEF ClockContinue, Returns
  <2>3. started' = now' - total
    BY <1>1, <1>12, <2>1, DiffTicks, TicksOfTimespec DEF ClockContinue
  <2>4. Watch!Continue
    BY <1>1, <1>2, <1>3, <2>2, <2>3 DEF Watch!Continue
  <2> QED
    BY <1>5, <2>4
<1>13. CASE ClockRead
  <2>1. /\ clock'.active = clock.active /\ now' = now /\ started' = started
        /\ ~clock.active => stopped' = stopped
        /\ returned' = <<ElapsedTicks(ClockElapsed(clock, now)),
                         ElapsedUnits(ClockElapsed(clock, now))>>
    BY <1>1, <1>13 DEF ClockRead, Returns
  <2>2. returned' = <<total, total \div Unit>>
    BY <1>1, <2>1, TotalTicks, ElapsedNumbers
  <2>3. Watch!Read
    BY <1>1, <1>2, <2>1, <2>2 DEF Watch!Read
  <2> QED
    BY <1>5, <2>3
<1> QED
  BY <1>6, <1>7, <1>8, <1>9, <1>10, <1>11, <1>12, <1>13
     DEF ClockNext, ClockInit, ClockInitFails, ClockDestroy

\* Whatever second begins between two calls, and however often it is stopped,
\* read and continued: a clock tells what a stopwatch of its ticks tells
\* (clock_start(), ..., clock_elapsed_ns()).
THEOREM ClockImplementsStopwatch == ClockSpec => ClockAgrees
<1> DEFINE Agrees == (clock # None /\ clock' # None) => Watch!Next
<1>1. clock = None /\ now = 0 => ClockInv /\ Watch!Init
  BY DEF ClockInv, Watch!Init
<1>2. ClockInv /\ ClockInv' /\ [ClockNext]_<<now, clock, returned, fault>>
         => [Agrees]_<<clock, now, returned>>
  BY ClockRefines
<1> QED
  BY <1>1, <1>2, ClockTyped, PTL DEF ClockSpec, ClockAgrees

-----------------------------------------------------------------------------
(* Log *)

LogSpec == log = None /\ returned = None /\ Fine /\ [][LogNext]_<<log, returned, fault>>

Elements == 0..5

Logs == [file : Seq(Elements), sent : Seq(Elements), pending : Seq(Elements),
         level : Severities, open : BOOLEAN]

LogType == log \in Logs

\* Nothing that log_printf() wrote waits in stdio's buffer.
Waiting(pending) == \A i \in DOMAIN pending : pending[i] \notin Severities

\* What is in the file and what waits for it make up what was written.
Whole(file, pending, sent) == sent = file \o pending /\ Waiting(pending)

\* What the process leaves behind when it ends.
Left(file, sent) ==
    /\ IsPrefix(file, sent)
    /\ \A i \in DOMAIN sent : sent[i] \in Severities => i <= Len(file)

LogInv ==
    log # None =>
        /\ LogType
        /\ Left(log.file, log.sent)
        /\ log.open => Whole(log.file, log.pending, log.sent)

-----------------------------------------------------------------------------
(* Sequences *)

\* As long as nothing logged waits, the process may die.
LEMMA WholeLeft ==
  ASSUME NEW f \in Seq(Elements), NEW p \in Seq(Elements), NEW s, Whole(f, p, s)
  PROVE  Left(f, s)
<1>1. /\ s \in Seq(Elements) /\ Len(s) = Len(f) + Len(p)
      /\ \A i \in 1..Len(f) : s[i] = f[i]
      /\ \A i \in 1..Len(s) : i > Len(f) => s[i] = p[i - Len(f)] /\ i - Len(f) \in 1..Len(p)
  BY DEF Whole
<1>2. SubSeq(f, 1, Len(f)) = SubSeq(s, 1, Len(f))
  BY <1>1
<1>3. \A i \in DOMAIN s : s[i] \in Severities => i <= Len(f)
  BY <1>1 DEF Whole, Waiting
<1> QED
  BY <1>1, <1>2, <1>3 DEF Left, IsPrefix

\* One more element at the end.
LEMMA AppendWhole ==
  ASSUME NEW f \in Seq(Elements), NEW p \in Seq(Elements), NEW x \in Elements
  PROVE  f \o Append(p, x) = Append(f \o p, x)
OBVIOUS

\* stdio writes the first element that waits.
LEMMA FlushWhole ==
  ASSUME NEW f \in Seq(Elements), NEW p \in Seq(Elements), p # <<>>
  PROVE  /\ Append(f, Head(p)) \o Tail(p) = f \o p
         /\ Append(f, Head(p)) \in Seq(Elements) /\ Tail(p) \in Seq(Elements)
         /\ Waiting(p) => Waiting(Tail(p))
<1>1. Append(f, Head(p)) \in Seq(Elements) /\ Tail(p) \in Seq(Elements)
  OBVIOUS
<1>2. Append(f, Head(p)) \o Tail(p) = f \o p
  OBVIOUS
<1>3. Waiting(p) => Waiting(Tail(p))
  BY DEF Waiting
<1> QED
  BY <1>1, <1>2, <1>3

\* Nothing in the file, or nothing that waits.
LEMMA EmptyWhole ==
  ASSUME NEW f \in Seq(Elements)
  PROVE  f \o <<>> = f /\ <<>> \o f = f
OBVIOUS

-----------------------------------------------------------------------------
(* What a call writes, field by field. *)

\* One element more, in the buffer.
LEMMA PutsFields ==
  ASSUME NEW l \in Logs, NEW x \in Elements, NEW m, m = Puts(l, x)
  PROVE  /\ m \in Logs
         /\ m.file = l.file /\ m.open = l.open
         /\ m.pending = Append(l.pending, x)
         /\ m.sent = Append(l.sent, x)
<1>1. Append(l.pending, x) \in Seq(Elements) /\ Append(l.sent, x) \in Seq(Elements)
  BY DEF Logs
<1>2. m = [l EXCEPT !.pending = Append(l.pending, x), !.sent = Append(l.sent, x)]
  BY DEF Puts
<1> QED
  BY <1>1, <1>2 DEF Logs

\* fflush().
LEMMA FlushedFields ==
  ASSUME NEW l \in Logs, NEW m, m = Flushed(l)
  PROVE  /\ m \in Logs
         /\ m.file = l.file \o l.pending /\ m.pending = <<>>
         /\ m.sent = l.sent /\ m.open = l.open
<1>1. l.file \o l.pending \in Seq(Elements) /\ <<>> \in Seq(Elements)
  BY DEF Logs
<1>2. m = [l EXCEPT !.file = l.file \o l.pending, !.pending = <<>>]
  BY DEF Flushed
<1> QED
  BY <1>1, <1>2 DEF Logs

\* A log whose parts fit is sound.
LEMMA Sound ==
  ASSUME log' \in Logs, Whole(log'.file, log'.pending, log'.sent)
  PROVE  LogInv'
<1>1. Left(log'.file, log'.sent)
  BY WholeLeft DEF Logs
<1> QED
  BY <1>1 DEF LogInv, LogType

\* log_init() begins with its line of dashes, which may wait.
LEMMA InitSound ==
  ASSUME LogInv, NEW f \in Seq(Elements), LogInit(f)
  PROVE  LogInv'
<1>1. CASE UNCHANGED log
  BY <1>1 DEF LogInv, LogType, Left, Whole, Waiting
<1>2. CASE ~UNCHANGED log
  <2> DEFINE l == [file |-> f, sent |-> f, pending |-> <<>>, level |-> LogInfo, open |-> TRUE]
  <2>1. log' = Puts(l, Dashes)
    BY <1>2 DEF LogInit
  <2>2. l \in Logs /\ Dashes \in Elements
    BY DEF Logs, Severities, LogInfo, Dashes, Elements
  <2>3. l.file = f /\ l.sent = f /\ l.pending = <<>>
    OBVIOUS
  <2> HIDE DEF l
  <2>4. /\ log' \in Logs /\ log'.file = f
        /\ log'.pending = Append(<<>>, Dashes) /\ log'.sent = Append(f, Dashes)
    BY <2>1, <2>2, <2>3, PutsFields, ZenonT(60)
  <2>5. f \o Append(<<>>, Dashes) = Append(f, Dashes)
    BY <2>2
  <2>6. Waiting(Append(<<>>, Dashes))
    BY DEF Waiting, Severities, Dashes
  <2> QED
    BY <2>4, <2>5, <2>6, Sound DEF Whole
<1> QED
  BY <1>1, <1>2

\* Each call keeps the log sound, and so does the end of the process.
LEMMA LogStep == LogInv /\ [LogNext]_<<log, returned, fault>> => LogInv'
<1> SUFFICES ASSUME LogInv, [LogNext]_<<log, returned, fault>> PROVE LogInv'
  OBVIOUS
<1>1. CASE UNCHANGED log
  BY <1>1 DEF LogInv, LogType, Left, Whole, Waiting
<1>2. CASE log = None /\ LogInit(<<>>)
  BY <1>2, <<>> \in Seq(Elements), InitSound
<1>3. CASE log # None /\ LogInit(log.file)
  BY <1>3, InitSound DEF LogInv, LogType, Logs
<1>4. CASE log' = None
  BY <1>4 DEF LogInv
<1>5. ASSUME log # None, log.open,
             \/ \E level \in Severities : LogSetLevel(level) \/ LogPrintf(level)
             \/ LogAppend \/ StdioFlush \/ LogClear \/ LogPrint \/ LogSetFile
             \/ LogDestroy \/ LogCrash
      PROVE  LogInv'
  <2>1. /\ log \in Logs /\ Whole(log.file, log.pending, log.sent)
        /\ Left(log.file, log.sent)
        /\ log.file \in Seq(Elements) /\ log.pending \in Seq(Elements)
    BY <1>5 DEF LogInv, LogType, Logs
  <2>2. ASSUME NEW level \in Severities, LogSetLevel(level)
        PROVE  LogInv'
    <3>1. /\ log' \in Logs
          /\ log'.file = log.file /\ log'.pending = log.pending /\ log'.sent = log.sent
      BY <2>1, <2>2 DEF LogSetLevel, Logs
    <3> QED
      BY <2>1, <3>1, Sound
  <2>3. ASSUME NEW level \in Severities, LogPrintf(level)
        PROVE  LogInv'
    <3>1. CASE UNCHANGED log
      BY <1>1, <3>1
    <3>2. CASE log' = Flushed(Puts(log, level))
      <4> DEFINE m == Puts(log, level)
      <4>1. level \in Elements
        BY DEF Severities, Elements
      <4>2. /\ m \in Logs /\ m.file = log.file
            /\ m.pending = Append(log.pending, level) /\ m.sent = Append(log.sent, level)
        BY <2>1, <4>1, PutsFields
      <4> HIDE DEF m
      <4>3. /\ log' \in Logs /\ log'.file = log.file \o Append(log.pending, level)
            /\ log'.pending = <<>> /\ log'.sent = Append(log.sent, level)
        BY <3>2, <4>2, FlushedFields DEF m
      <4>4. log'.sent = log'.file
        BY <2>1, <4>1, <4>3, AppendWhole, ZenonT(60) DEF Whole
      <4>5. Whole(log'.file, log'.pending, log'.sent)
        BY <4>3, <4>4, EmptyWhole DEF Whole, Waiting, Logs
      <4> QED
        BY <4>3, <4>5, Sound
    <3> QED
      BY <2>3, <3>1, <3>2 DEF LogPrintf
  <2>4. CASE LogAppend
    <3>1. Appended \in Elements /\ Appended \notin Severities
      BY DEF Appended, Elements, Severities
    <3>2. /\ log' \in Logs /\ log'.file = log.file
          /\ log'.pending = Append(log.pending, Appended)
          /\ log'.sent = Append(log.sent, Appended)
      BY <2>1, <2>4, <3>1, PutsFields DEF LogAppend
    <3>3. Waiting(log'.pending)
      BY <2>1, <3>1, <3>2 DEF Whole, Waiting
    <3> QED
      BY <2>1, <3>1, <3>2, <3>3, AppendWhole, Sound DEF Whole
  <2>5. CASE StdioFlush
    <3>1. /\ Append(log.file, Head(log.pending)) \in Seq(Elements)
          /\ Tail(log.pending) \in Seq(Elements)
      BY <2>1, <2>5, FlushWhole DEF StdioFlush
    <3>2. /\ log' \in Logs /\ log'.file = Append(log.file, Head(log.pending))
          /\ log'.pending = Tail(log.pending) /\ log'.sent = log.sent
      BY <2>1, <2>5, <3>1 DEF StdioFlush, Logs
    <3> QED
      BY <2>1, <2>5, <3>2, FlushWhole, Sound DEF StdioFlush, Whole
  <2>6. CASE LogClear
    <3>1. /\ log' \in Logs /\ log'.file = <<>>
          /\ log'.pending = log.pending /\ log'.sent = log.pending
      <4>1. log' = [log EXCEPT !.file = <<>>, !.sent = log.pending]
        BY <2>6 DEF LogClear
      <4>2. <<>> \in Seq(Elements)
        OBVIOUS
      <4>3. log' \in Logs
        BY <2>1, <4>1, <4>2 DEF Logs
      <4> QED
        BY <2>1, <4>1, <4>3 DEF Logs
    <3> QED
      BY <2>1, <3>1, EmptyWhole, Sound DEF Whole
  <2>7. CASE LogPrint
    <3>1. /\ log' \in Logs /\ log'.file = log.file \o log.pending
          /\ log'.pending = <<>> /\ log'.sent = log.sent
      BY <2>1, <2>7, FlushedFields DEF LogPrint
    <3>2. Whole(log'.file, log'.pending, log'.sent)
      BY <2>1, <3>1, EmptyWhole DEF Whole, Waiting, Logs
    <3> QED
      BY <3>1, <3>2, Sound
  <2>8. CASE LogSetFile
    <3>1. /\ log' \in Logs /\ log'.file = <<>>
          /\ log'.pending = <<>> /\ log'.sent = <<>>
      <4>1. log' = [log EXCEPT !.file = <<>>, !.pending = <<>>, !.sent = <<>>]
        BY <2>8 DEF LogSetFile
      <4>2. <<>> \in Seq(Elements)
        OBVIOUS
      <4>3. log' \in Logs
        BY <2>1, <4>1, <4>2 DEF Logs
      <4> QED
        BY <2>1, <4>1, <4>3 DEF Logs
    <3> QED
      BY <3>1, Sound DEF Whole, Waiting
  <2>9. CASE LogDestroy
    <3> DEFINE m == Flushed(log)
    <3>1. /\ m \in Logs /\ m.file = log.file \o log.pending
          /\ m.pending = <<>> /\ m.sent = log.sent
      BY <2>1, FlushedFields
    <3> HIDE DEF m
    <3>2. log' = [m EXCEPT !.open = FALSE]
      BY <2>9 DEF LogDestroy, m
    <3>3. /\ log' \in Logs /\ log'.file = log.file \o log.pending
          /\ log'.pending = <<>> /\ log'.sent = log.sent
      BY <3>1, <3>2 DEF Logs
    <3>4. Whole(log'.file, log'.pending, log'.sent)
      BY <2>1, <3>3, EmptyWhole DEF Whole, Waiting, Logs
    <3> QED
      BY <3>3, <3>4, Sound
  <2>10. CASE LogCrash
    <3>1. /\ log' \in Logs /\ log'.file = log.file
          /\ log'.sent = log.sent /\ ~log'.open
      <4>1. log' = [log EXCEPT !.pending = <<>>, !.open = FALSE]
        BY <2>10 DEF LogCrash
      <4>2. <<>> \in Seq(Elements)
        OBVIOUS
      <4>3. log' \in Logs
        BY <2>1, <4>1, <4>2 DEF Logs
      <4> QED
        BY <2>1, <4>1, <4>3 DEF Logs
    <3> QED
      BY <2>1, <3>1 DEF LogInv, LogType
  <2> QED
    BY <1>5, <2>2, <2>3, <2>4, <2>5, <2>6, <2>7, <2>8, <2>9, <2>10
<1> QED
  BY <1>1, <1>2, <1>3, <1>4, <1>5 DEF LogNext, LogGone

\* Whatever is appended, cleared, printed or logged, and whenever the process
\* dies and starts again: a line that log_printf() has returned from is in the
\* file, in its place (print(), log_clear(), log_destroy()).
THEOREM LinesKept == LogSpec => []LogKept
<1>1. log = None => LogInv
  BY DEF LogInv
<1>2. LogInv => LogKept
  BY DEF LogInv, LogKept, Left, Whole
<1> QED
  BY <1>1, <1>2, LogStep, PTL DEF LogSpec

-----------------------------------------------------------------------------
(* Config *)

ConfigSpec ==
    /\ config = None /\ returned = None /\ Fine
    /\ [][ConfigNext]_<<config, returned, fault>>

Fields == {"mem", "values", "handles", "handled", "path", "parser"}

IsConfig(c) == c = [f \in Fields |-> c[f]]

\* Values are read while there is a text to read them from.
TextHeld ==
    config # None =>
        /\ IsConfig(config)
        /\ Parsing => config.mem = "live"
        /\ config.values # <<>> => config.mem = "live"

\* The steps of the parser, which leave the memory of the text alone.
LEMMA ParserKeepsText ==
  ASSUME IsConfig(config), ParserStep
  PROVE  IsConfig(config') /\ config'.mem = config.mem
<1> USE DEF IsConfig, Fields
<1>1. ASSUME NEW value, ParserEnds(value)
      PROVE  IsConfig(config') /\ config'.mem = config.mem
  BY <1>1 DEF ParserEnds
<1>2. CASE ParserSkip
  BY <1>2 DEF ParserSkip, Moved
<1>3. CASE ParserSkipLine
  <2>1. PICK p : config' = [config EXCEPT !.parser.p = p]
    BY <1>3 DEF ParserSkipLine, Moved
  <2> QED
    BY <2>1
<1>4. CASE ParserReadKey
  <2>1. \/ ParserEnds(Failed)
        \/ \E p, k : config' = [config EXCEPT !.parser.p = p, !.parser.key = k]
    BY <1>4 DEF ParserReadKey
  <2>2. ASSUME NEW p, NEW k, config' = [config EXCEPT !.parser.p = p, !.parser.key = k]
        PROVE  IsConfig(config') /\ config'.mem = config.mem
    BY <2>2
  <2> QED
    BY <1>1, <2>1, <2>2
<1>5. CASE ParserReadValue
  <2> DEFINE key == config.parser.key
             ends == Positions(Characters, config.parser.p, {NewLine})
             p == Min(ends) + 1
             entry == <<key, String(Characters, config.parser.p, Min(ends))>>
             v == Append(config.values, entry)
             h == IF key \in HandledKeys(config.handles) THEN Append(config.handled, entry)
                                                         ELSE config.handled
  <2>1. \/ ParserEnds(Failed)
        \/ config' = [config EXCEPT !.parser.p = p, !.parser.key = None,
                                    !.values = v, !.handled = h]
    BY <1>5 DEF ParserReadValue
  <2> HIDE DEF p, v, h
  <2> QED
    BY <1>1, <2>1
<1> QED
  BY <1>1, <1>2, <1>3, <1>4, <1>5 DEF ParserStep

\* No call leaves a value behind without its text.
LEMMA TextStep == TextHeld /\ [ConfigNext]_<<config, returned, fault>> => TextHeld'
<1> SUFFICES ASSUME TextHeld, [ConfigNext]_<<config, returned, fault>> PROVE TextHeld'
  OBVIOUS
<1>1. CASE UNCHANGED config
  BY <1>1 DEF TextHeld, IsConfig, Parsing
<1>2. CASE ConfigInit
  <2>1. IsConfig(config') /\ config'.values = <<>> /\ config'.parser = None
    BY <1>2 DEF ConfigInit, IsConfig, Fields
  <2> QED
    BY <2>1 DEF TextHeld, Parsing
<1>3. CASE config' = None
  BY <1>3 DEF TextHeld
<1>4. CASE config # None /\ ParserStep
  <2>1. IsConfig(config) /\ config.mem = "live"
    BY <1>4 DEF TextHeld, ParserStep
  <2>2. IsConfig(config') /\ config'.mem = "live"
    BY <1>4, <2>1, ParserKeepsText
  <2> QED
    BY <2>2 DEF TextHeld
<1>5. ASSUME config # None, ~Parsing,
             \/ \E lines \in TextLines(IF config.mem = "none" THEN MaxLines ELSE MaxLinesAgain) :
                   ConfigParse(lines)
             \/ ConfigParseFails \/ ConfigSetPath
             \/ \E key \in HandleKeys : ConfigInsertHandle(key) \/ ConfigTakeHandle(key)
      PROVE  TextHeld'
  <2>1. IsConfig(config) /\ config.parser = None
    BY <1>5 DEF TextHeld, Parsing
  <2>2. ASSUME NEW lines, ConfigParse(lines)
        PROVE  TextHeld'
    <3>1. CASE config' = [config EXCEPT !.mem = "live", !.values = <<>>, !.handled = <<>>,
                             !.parser = [lines |-> lines, p |-> 1, key |-> None]]
      <4>1. IsConfig(config') /\ config'.mem = "live"
        BY <2>1, <3>1 DEF IsConfig, Fields
      <4> QED
        BY <4>1 DEF TextHeld
    <3> QED
      BY <1>1, <2>2, <3>1 DEF ConfigParse
  <2>3. CASE ConfigParseFails
    <3>1. CASE config' = [config EXCEPT !.mem = Released, !.values = <<>>, !.handled = <<>>]
      <4>1. IsConfig(config') /\ config'.values = <<>> /\ config'.parser = None
        BY <2>1, <3>1 DEF IsConfig, Fields
      <4> QED
        BY <4>1 DEF TextHeld, Parsing
    <3> QED
      BY <1>1, <2>3, <3>1 DEF ConfigParseFails
  <2>4. ASSUME \/ \E v : config' = [config EXCEPT !.path = v]
               \/ \E v : config' = [config EXCEPT !.handles = v]
        PROVE  TextHeld'
    <3>1. /\ IsConfig(config') /\ config'.parser = None
          /\ config'.mem = config.mem /\ config'.values = config.values
      BY <2>1, <2>4 DEF IsConfig, Fields
    <3> QED
      BY <1>5, <3>1 DEF TextHeld, Parsing
  <2>5. CASE ConfigSetPath
    BY <2>4, <2>5 DEF ConfigSetPath
  <2>6. ASSUME NEW key, ConfigInsertHandle(key) \/ ConfigTakeHandle(key)
        PROVE  TextHeld'
    BY <1>1, <2>4, <2>6 DEF ConfigInsertHandle, ConfigTakeHandle
  <2> QED
    BY <1>5, <2>2, <2>3, <2>5, <2>6
<1> QED
  BY <1>1, <1>2, <1>3, <1>4, <1>5 DEF ConfigNext, ConfigCall, ConfigDestroy

\* Whatever is parsed, with success or not, and however often: no key or value
\* that can be looked up lies in memory that has been freed (config_parse(),
\* config_destroy()).
THEOREM NoValueOutlivesText == ConfigSpec => []ValuesAlive
<1>1. config = None => TextHeld
  BY DEF TextHeld
<1>2. TextHeld => ValuesAlive
  BY DEF TextHeld, ValuesAlive
<1> QED
  BY <1>1, <1>2, TextStep, PTL DEF ConfigSpec

-----------------------------------------------------------------------------
(* Config: texts *)

Alphabet == UNION {Range(line) : line \in Lines}

Strings == Seq(Alphabet)

Entries == Strings \X Strings

\* The least of some numbers is found by looking for it.
LEMMA LeastIs ==
  ASSUME NEW S, S \subseteq Int, NEW x \in S, \A y \in S : x <= y
  PROVE  Min(S) = x
<1>1. \A z \in S : (\A y \in S : z <= y) => z = x
  <2> TAKE z \in S
  <2>1. z \in Int /\ x \in Int /\ x <= z
    OBVIOUS
  <2> QED
    BY <2>1
<1> QED
  BY <1>1 DEF Min

LEMMA HasLeast ==
  ASSUME NEW S, S \subseteq Nat, S # {}
  PROVE  Min(S) \in S /\ \A y \in S : Min(S) <= y
<1>1. PICK x \in S : \A y \in S : x <= y
  BY LeastNumber
<1>2. S \subseteq Int
  OBVIOUS
<1>3. Min(S) = x
  BY <1>1, <1>2, LeastIs
<1> QED
  BY <1>1, <1>3

\* line is part of text, from behind o on.
PlacedAt(text, line, o) ==
    /\ o \in Nat /\ o + Len(line) <= Len(text)
    /\ \A j \in 1..Len(line) : text[o + j] = line[j]

PartAt(text, line, o) ==
    text \in Strings /\ line \in Strings /\ PlacedAt(text, line, o)

\* e is the first place from p on where one of the characters is.
FirstAt(line, p, chars, e) ==
    /\ p \in 1..Len(line) /\ e \in p..Len(line)
    /\ line[e] \in chars /\ \A j \in p..e - 1 : line[j] \notin chars

\* What is found first in the line is found first in the text, where it is behind o.
FurtherBy(o, p, a) == a = o + p

LEMMA FirstFound ==
  ASSUME NEW text, NEW line, NEW o, PartAt(text, line, o),
         NEW p, NEW chars, NEW e, FirstAt(line, p, chars, e),
         NEW a, NEW b, FurtherBy(o, p, a), FurtherBy(o, e, b)
  PROVE  /\ Min(Positions(text, a, chars)) = b
         /\ Min({Len(text)} \cup Positions(text, a, chars)) = b
<1> DEFINE N == Len(line)
           M == Len(text)
           P == Positions(text, o + p, chars)
<1>1. /\ N \in Nat /\ M \in Nat /\ o \in Nat /\ o + N <= M
      /\ \A j \in 1..N : text[o + j] = line[j]
  <2>1. text \in Seq(Alphabet) /\ line \in Seq(Alphabet)
    BY DEF PartAt, Strings
  <2> QED
    BY <2>1, LenProperties DEF PartAt, PlacedAt
<1> HIDE DEF N, M
<1>2. /\ p \in 1..N /\ e \in p..N
      /\ line[e] \in chars /\ \A j \in p..e - 1 : line[j] \notin chars
  BY DEF N, FirstAt
<1>3. Positions(line, p, chars) \subseteq Int /\ e \in Positions(line, p, chars)
      /\ \A i \in Positions(line, p, chars) : e <= i
  BY <1>1, <1>2 DEF Positions, N
<1>4. P \subseteq Int /\ o + e \in P
  BY <1>1, <1>2 DEF Positions, M
<1>5. ASSUME NEW i \in P PROVE o + e <= i
  <2>1. i \in o + p..M /\ text[i] \in chars
    BY DEF Positions, M
  <2> SUFFICES ASSUME i < o + e PROVE FALSE
    BY <1>1, <1>2, <2>1
  <2>2. i - o \in p..e - 1 /\ i - o \in 1..N /\ o + (i - o) = i
    BY <1>1, <1>2, <2>1
  <2>3. text[i] = line[i - o]
    BY <1>1, <2>2
  <2> QED
    BY <1>2, <2>1, <2>2, <2>3
<1> HIDE DEF P
<1>6. Min(P) = o + e
  BY <1>4, <1>5, LeastIs
<1>7. Min({M} \cup P) = o + e
  <2>1. {M} \cup P \subseteq Int /\ o + e \in {M} \cup P
    BY <1>1, <1>4
  <2>2. \A y \in {M} \cup P : o + e <= y
    BY <1>1, <1>2, <1>5
  <2> QED
    BY <2>1, <2>2, LeastIs
<1>8. Min(Positions(line, p, chars)) = e
  BY <1>3, LeastIs
<1>9. a = o + p /\ b = o + e
  BY DEF FurtherBy
<1>10. Min(P) = b /\ Min({M} \cup P) = b /\ P # {}
  BY <1>4, <1>6, <1>7, <1>9
<1>11. P = Positions(text, a, chars)
  BY <1>9 DEF P
<1> QED
  BY <1>3, <1>8, <1>10, <1>11 DEF M

\* A string is the same in the line and in the text.
LEMMA StringMoves ==
  ASSUME NEW text, NEW line, NEW o, PartAt(text, line, o),
         NEW p \in 1..Len(line), NEW end \in p..Len(line)
  PROVE  /\ String(text, o + p, o + end) = String(line, p, end)
         /\ String(line, p, end) \in Strings
<1> DEFINE N == Len(line)
           M == Len(text)
           L == {end} \cup Positions(line, p, {Blank})
           T == {o + end} \cup Positions(text, o + p, {Blank})
           b == Min(L)
<1>1. /\ N \in Nat /\ M \in Nat /\ o \in Nat /\ o + N <= M
      /\ \A j \in 1..N : text[o + j] = line[j]
      /\ text \in Seq(Alphabet) /\ line \in Seq(Alphabet)
  <2>1. text \in Seq(Alphabet) /\ line \in Seq(Alphabet)
    BY DEF PartAt, Strings
  <2> QED
    BY <2>1, LenProperties DEF PartAt, PlacedAt
<1> HIDE DEF N, M
<1>2. p \in 1..N /\ end \in p..N
  BY DEF N
<1>3. L \subseteq Nat /\ L # {} /\ end \in L /\ \A i \in L : i \in p..N
  BY <1>1, <1>2 DEF Positions, N
<1>4. b \in L /\ \A i \in L : b <= i
  <2> HIDE DEF L
  <2> QED
    BY <1>3, HasLeast
<1>5. b \in p..end
  <2>1. b <= end /\ b \in p..N
    BY <1>3, <1>4
  <2> HIDE DEF b
  <2> QED
    BY <1>1, <1>2, <2>1
<1>6. Min(T) = o + b
  <2>1. T \subseteq Int
    BY <1>1, <1>2 DEF Positions, M
  <2>2. o + b \in T
    <3>1. CASE b = end
      BY <3>1
    <3>2. CASE b # end
      <4>1. b \in Positions(line, p, {Blank})
        BY <1>4, <3>2
      <4>2. b \in p..N /\ line[b] = Blank
        BY <4>1 DEF Positions, N
      <4>3. text[o + b] = Blank /\ o + b \in o + p..M
        BY <1>1, <1>2, <4>2
      <4> HIDE DEF b
      <4> QED
        BY <4>3 DEF Positions, M
    <3> QED
      BY <3>1, <3>2
  <2>3. ASSUME NEW i \in T PROVE o + b <= i
    <3>1. CASE i = o + end
      <4> HIDE DEF b
      <4> QED
        BY <1>1, <1>2, <1>5, <3>1
    <3>2. CASE i \in Positions(text, o + p, {Blank})
      <4> SUFFICES ASSUME i < o + b PROVE FALSE
        <5> HIDE DEF b
        <5> QED
          BY <1>1, <1>2, <1>5, <2>1
      <4>1. i \in o + p..M /\ text[i] = Blank
        BY <3>2 DEF Positions, M
      <4> HIDE DEF b
      <4>2. i - o \in p..N /\ i - o \in 1..N /\ o + (i - o) = i /\ i - o < b
        BY <1>1, <1>2, <1>5, <4>1
      <4>3. line[i - o] = Blank
        BY <1>1, <4>1, <4>2
      <4>4. i - o \in L
        BY <4>2, <4>3 DEF Positions, N
      <4> HIDE DEF L
      <4>5. b <= i - o
        BY <1>4, <4>4 DEF b
      <4> QED
        BY <1>1, <1>2, <1>5, <4>1, <4>2, <4>5
    <3> QED
      BY <3>1, <3>2
  <2> HIDE DEF T, b
  <2> QED
    BY <2>1, <2>2, <2>3, LeastIs
<1> DEFINE s == String(text, o + p, o + end)
           t == String(line, p, end)
<1>7. s = SubSeq(text, o + p, o + b - 1) /\ t = SubSeq(line, p, b - 1)
  <2>1. s = SubSeq(text, o + p, Min(T) - 1)
    BY DEF String
  <2>2. t = SubSeq(line, p, b - 1)
    BY DEF String
  <2>3. Min(T) - 1 = o + b - 1
    <3> DEFINE m == Min(T)
    <3>1. m = o + b
      BY <1>6
    <3> HIDE DEF m, b
    <3>2. m - 1 = o + b - 1
      BY <1>1, <1>2, <1>5, <3>1
    <3> QED
      BY <3>2 DEF m
  <2>4. s = SubSeq(text, o + p, o + b - 1)
    BY <2>1, <2>3, Zenon
  <2> QED
    BY <2>2, <2>4
<1> HIDE DEF b
<1>8. /\ t \in Seq(Alphabet) /\ Len(t) = b - 1 + 1 - p
      /\ \A j \in Nat : 1 <= j /\ j <= b - 1 + 1 - p => t[j] = line[p + j - 1]
  <2> DEFINE c == b - 1
  <2>1. p \in Int /\ c \in Int /\ 1 <= p /\ p <= c + 1 /\ c <= Len(line)
    BY <1>1, <1>2, <1>5 DEF N
  <2>2. line \in Seq(Alphabet)
    BY <1>1
  <2> HIDE DEF c
  <2>3. /\ SubSeq(line, p, c) \in Seq(Alphabet) /\ Len(SubSeq(line, p, c)) = c + 1 - p
        /\ \A j \in Nat : 1 <= j /\ j <= c + 1 - p => SubSeq(line, p, c)[j] = line[p + j - 1]
    BY <2>1, <2>2, PartOf
  <2> QED
    BY <1>7, <2>3 DEF c
<1>9. /\ s \in Seq(Alphabet) /\ Len(s) = o + b - 1 + 1 - (o + p)
      /\ \A j \in Nat : 1 <= j /\ j <= o + b - 1 + 1 - (o + p) => s[j] = text[o + p + j - 1]
  <2> DEFINE c == o + b - 1
             q == o + p
  <2>1. q \in Int /\ c \in Int /\ 1 <= q /\ q <= c + 1 /\ c <= Len(text)
    BY <1>1, <1>2, <1>5 DEF M
  <2>2. text \in Seq(Alphabet)
    BY <1>1
  <2> HIDE DEF c, q
  <2>3. /\ SubSeq(text, q, c) \in Seq(Alphabet) /\ Len(SubSeq(text, q, c)) = c + 1 - q
        /\ \A j \in Nat : 1 <= j /\ j <= c + 1 - q => SubSeq(text, q, c)[j] = text[q + j - 1]
    BY <2>1, <2>2, PartOf
  <2> QED
    BY <1>7, <2>3 DEF c, q
<1> HIDE DEF s, t
<1>10. Len(s) = Len(t) /\ Len(t) \in Nat
  BY <1>1, <1>2, <1>5, <1>8, <1>9
<1>11. ASSUME NEW j \in 1..Len(s) PROVE s[j] = t[j]
  <2>1. j \in Nat /\ 1 <= j /\ j <= b - 1 + 1 - p /\ j <= o + b - 1 + 1 - (o + p)
    <3>1. j \in Nat /\ 1 <= j /\ j <= Len(s)
      BY <1>10
    <3>2. Len(s) = b - 1 + 1 - p /\ Len(s) = o + b - 1 + 1 - (o + p)
      BY <1>8, <1>9, <1>10
    <3> QED
      BY <3>1, <3>2
  <2>2. p + j - 1 \in 1..N /\ o + p + j - 1 = o + (p + j - 1)
    BY <1>1, <1>2, <1>5, <2>1
  <2> QED
    BY <1>1, <1>8, <1>9, <2>1, <2>2
<1>12. s = t
  BY <1>8, <1>9, <1>10, <1>11, SeqEqual
<1> QED
  BY <1>8, <1>12 DEF s, t, Strings
-----------------------------------------------------------------------------
(* Config: texts of lines *)

\* f[k] is what the first k of some sequences are together.
Joins(S, seqs, f) ==
    /\ f \in [0..Len(seqs) -> Seq(S)] /\ f[0] = <<>>
    /\ \A k \in 1..Len(seqs) : f[k] = f[k - 1] \o seqs[k]

\* There are such, and FlattenSeq is the last of them.
LEMMA FlattenJoins ==
  ASSUME NEW S, NEW seqs \in Seq(Seq(S))
  PROVE  \E f : Joins(S, seqs, f) /\ FlattenSeq(seqs) = f[Len(seqs)]
<1> DEFINE n == Len(seqs)
           X == Nat \X Seq(S)
           start == <<0, <<>>>>
           add(i, t) == IF i + 1 <= n THEN t \o seqs[i + 1] ELSE t
           step == [x \in X |-> <<x[1] + 1, add(x[1], x[2])>>]
<1>1. n \in Nat /\ \A i \in 1..n : seqs[i] \in Seq(S)
  BY LenProperties
<1> HIDE DEF n
<1>2. start \in X
  BY EmptySeq
<1>3. \A i \in Nat : \A t \in Seq(S) : add(i, t) \in Seq(S)
  <2> SUFFICES ASSUME NEW i \in Nat, NEW t \in Seq(S), i + 1 <= n PROVE t \o seqs[i + 1] \in Seq(S)
    OBVIOUS
  <2>1. seqs[i + 1] \in Seq(S)
    BY <1>1
  <2> QED
    BY <2>1, ConcatProperties
<1>4. step \in [X -> X]
  <2> HIDE DEF add
  <2>1. ASSUME NEW x \in X PROVE <<x[1] + 1, add(x[1], x[2])>> \in X
    BY <1>3
  <2> QED
    BY <2>1
<1>5. PICK g : Iterates(X, start, step, g)
  <2> HIDE DEF X, start, step
  <2> QED
    BY <1>2, <1>4, NumberRecursion DEF SelfMaps
<1>6. g \in [Nat -> X] /\ g[0] = start /\ \A i \in Nat : g[i + 1] = step[g[i]]
  BY <1>5 DEF Iterates
<1>7. \A i \in Nat : g[i] \in X /\ g[i + 1] = <<g[i][1] + 1, add(g[i][1], g[i][2])>>
  <2> HIDE DEF add
  <2> QED
    BY <1>6
<1> DEFINE T == {i \in Nat : g[i][1] = i}
<1>8. Nat \subseteq T
  <2>1. 0 \in T
    BY <1>6
  <2>2. \A i \in Nat : i \in T => i + 1 \in T
    <3>1. ASSUME NEW i \in Nat, g[i][1] = i PROVE g[i + 1][1] = i + 1
      <4> HIDE DEF add, X
      <4>1. g[i + 1] = <<g[i][1] + 1, add(g[i][1], g[i][2])>>
        BY <1>7
      <4> QED
        BY <3>1, <4>1
    <3>2. \A i \in Nat : i \in T <=> g[i][1] = i
      OBVIOUS
    <3>3. \A i \in Nat : i + 1 \in Nat
      OBVIOUS
    <3> HIDE DEF T
    <3> QED
      BY <3>1, <3>2, <3>3
  <2> HIDE DEF T
  <2> QED
    BY <2>1, <2>2, NumberInduction
<1> DEFINE f == [i \in 0..n |-> g[i][2]]
<1>9. /\ \A i \in 0..n : f[i] \in Seq(S)
      /\ f[0] = <<>> /\ \A i \in 1..n : f[i] = f[i - 1] \o seqs[i]
      /\ n # 0 => f[1] = seqs[1]
  <2>1. \A i \in 0..n : f[i] \in Seq(S)
    <3>1. \A i \in 0..n : i \in Nat
      BY <1>1
    <3>2. \A i \in 0..n : g[i] \in Nat \X Seq(S)
      BY <1>7, <3>1
    <3> QED
      BY <3>2
  <2>2. f[0] = <<>>
    BY <1>1, <1>6
  <2>3. ASSUME NEW i \in 1..n PROVE f[i] = f[i - 1] \o seqs[i]
    <3>1. i - 1 \in Nat /\ (i - 1) + 1 = i /\ i \in 0..n /\ i - 1 \in 0..n /\ i <= n
      BY <1>1
    <3>2. g[i - 1][1] = i - 1
      BY <1>8, <3>1
    <3>3. g[i] = <<g[i - 1][1] + 1, add(g[i - 1][1], g[i - 1][2])>>
      <4> HIDE DEF add, X
      <4> QED
        BY <1>7, <3>1
    <3>4. g[i][2] = add(i - 1, g[i - 1][2])
      <4> HIDE DEF add
      <4> QED
        BY <3>2, <3>3
    <3>5. add(i - 1, g[i - 1][2]) = g[i - 1][2] \o seqs[i]
      BY <3>1
    <3> QED
      BY <3>1, <3>4, <3>5
  <2>4. n # 0 => f[1] = seqs[1]
    <3> SUFFICES ASSUME n # 0 PROVE f[1] = seqs[1]
      OBVIOUS
    <3>1. 1 \in 1..n /\ 1 - 1 = 0
      BY <1>1
    <3> HIDE DEF f
    <3>2. f[1] = <<>> \o seqs[1] /\ seqs[1] \in Seq(S)
      BY <1>1, <2>2, <2>3, <3>1
    <3> QED
      BY <3>2, ConcatEmptySeq
  <2> QED
    BY <2>1, <2>2, <2>3, <2>4
<1>10. f \in [0..n -> Seq(S)]
  BY <1>9
<1> HIDE DEF f
<1>11. Joins(S, seqs, f)
  BY <1>9, <1>10 DEF Joins, n
<1>12. FlattenSeq(seqs) = f[n]
  <2>1. CASE n = 0
    <3>1. FlattenSeq(seqs) = seqs
      BY <2>1 DEF FlattenSeq, n
    <3>2. seqs = <<>>
      BY <2>1, EmptySeq DEF n
    <3> QED
      BY <1>9, <2>1, <3>1, <3>2
  <2>2. CASE n # 0
    <3> DEFINE Flat(h) == h = [i \in 1..n |-> IF i = 1 THEN seqs[i] ELSE h[i - 1] \o seqs[i]]
               flat == CHOOSE h : Flat(h)
    <3>1. FlattenSeq(seqs) = flat[n]
      BY <2>2 DEF FlattenSeq, n
    <3>2. Flat([i \in 1..n |-> f[i]])
      <4>1. ASSUME NEW i \in 1..n
            PROVE  f[i] = IF i = 1 THEN seqs[i] ELSE [j \in 1..n |-> f[j]][i - 1] \o seqs[i]
        <5>1. CASE i = 1
          BY <1>9, <2>2, <5>1
        <5>2. CASE i # 1
          <6>1. i - 1 \in 1..n
            BY <1>1, <5>2
          <6>2. f[i] = f[i - 1] \o seqs[i]
            BY <1>9
          <6> QED
            BY <5>2, <6>1, <6>2
        <5> QED
          BY <5>1, <5>2
      <4> QED
        BY <4>1
    <3>3. Flat(flat)
      <4> HIDE DEF Flat
      <4> QED
        BY <3>2
    <3> HIDE DEF flat
    <3>4. \A i \in 1..n : flat[i] = IF i = 1 THEN seqs[i] ELSE flat[i - 1] \o seqs[i]
      BY <3>3
    <3> DEFINE U == {i \in Nat : i + 1 \in 1..n => flat[i + 1] = f[i + 1]}
    <3>5. 0 \in U
      <4>1. 1 \in 1..n /\ 0 + 1 = 1
        BY <1>1, <2>2
      <4> QED
        BY <1>9, <2>2, <3>4, <4>1
    <3>6. ASSUME NEW i \in Nat, i \in U, (i + 1) + 1 \in 1..n PROVE flat[(i + 1) + 1] = f[(i + 1) + 1]
      <4> DEFINE j == (i + 1) + 1
      <4>1. i + 1 \in 1..n /\ j # 1 /\ j - 1 = i + 1 /\ j \in 1..n
        BY <1>1, <3>6
      <4>2. flat[i + 1] = f[i + 1]
        BY <3>6, <4>1
      <4> HIDE DEF j
      <4>3. flat[j] = f[j]
        BY <1>9, <3>4, <4>1, <4>2
      <4> QED
        BY <4>3 DEF j
    <3>7. \A i \in Nat : i \in U => i + 1 \in U
      BY <3>6
    <3> HIDE DEF U
    <3>8. Nat \subseteq U
      BY <3>5, <3>7, NumberInduction
    <3>9. n - 1 \in Nat /\ (n - 1) + 1 = n /\ n \in 1..n
      BY <1>1, <2>2
    <3> QED
      BY <3>1, <3>8, <3>9 DEF U
  <2> QED
    BY <2>1, <2>2
<1> QED
  BY <1>11, <1>12 DEF n

\* Each sequence lies behind those before it.
LEMMA JoinedPart ==
  ASSUME NEW S, NEW seqs \in Seq(Seq(S)), NEW f, Joins(S, seqs, f), NEW k \in 1..Len(seqs)
  PROVE  /\ f[Len(seqs)] \in Seq(S) /\ Len(f[k]) = Len(f[k - 1]) + Len(seqs[k])
         /\ PlacedAt(f[Len(seqs)], seqs[k], Len(f[k - 1]))
<1> DEFINE n == Len(seqs)
           o == Len(f[k - 1])
           N == Len(seqs[k])
<1>1. n \in Nat /\ k \in 1..n /\ \A i \in 1..n : seqs[i] \in Seq(S)
  BY LenProperties
<1>2. /\ \A i \in 0..n : f[i] \in Seq(S) /\ Len(f[i]) \in Nat
      /\ \A i \in 1..n : f[i] = f[i - 1] \o seqs[i]
  <2>1. \A i \in 0..n : f[i] \in Seq(S)
    BY DEF Joins
  <2> QED
    BY <2>1, LenProperties DEF Joins
<1> HIDE DEF n
<1>3. seqs[k] \in Seq(S) /\ N \in Nat /\ o \in Nat /\ k - 1 \in 0..n /\ f[k - 1] \in Seq(S)
  BY <1>1, <1>2, LenProperties
<1>4. /\ Len(f[k]) = o + N /\ \A j \in 1..N : f[k][o + j] = seqs[k][j]
  <2> DEFINE a == f[k - 1]
             b == seqs[k]
  <2>1. a \in Seq(S) /\ b \in Seq(S) /\ f[k] = a \o b /\ Len(a) \in Nat /\ Len(b) \in Nat
    BY <1>1, <1>2, <1>3
  <2> HIDE DEF a, b
  <2>2. /\ Len(a \o b) = Len(a) + Len(b)
        /\ \A i \in 1..Len(a) + Len(b) : (a \o b)[i] = IF i <= Len(a) THEN a[i] ELSE b[i - Len(a)]
    BY <2>1, ConcatProperties
  <2>3. ASSUME NEW j \in 1..Len(b) PROVE (a \o b)[Len(a) + j] = b[j]
    BY <2>1, <2>2
  <2> QED
    BY <2>1, <2>2, <2>3 DEF a, b
<1> DEFINE Keeps(i) == /\ o + N <= Len(f[i])
                       /\ \A j \in 1..N : f[i][o + j] = seqs[k][j]
           U == {m \in Nat : k + m <= n => Keeps(k + m)}
<1> HIDE DEF o, N
<1>5. 0 \in U
  BY <1>1, <1>2, <1>3, <1>4
<1>6. ASSUME NEW i \in k..n, i + 1 <= n, Keeps(i) PROVE Keeps(i + 1)
  <2> DEFINE a == f[i]
             b == seqs[i + 1]
             c == f[i + 1]
  <2>1. i + 1 \in 1..n /\ (i + 1) - 1 = i /\ i \in 0..n
    BY <1>1, <1>6
  <2>2. a \in Seq(S) /\ b \in Seq(S) /\ c = a \o b /\ Len(a) \in Nat
    BY <1>1, <1>2, <2>1
  <2>3. o + N <= Len(a) /\ \A j \in 1..N : a[o + j] = seqs[k][j]
    BY <1>6
  <2> HIDE DEF a, b, c
  <2>4. Len(b) \in Nat
    BY <2>2, LenProperties
  <2>5. /\ Len(c) = Len(a) + Len(b)
        /\ \A j \in 1..Len(a) + Len(b) : c[j] = IF j <= Len(a) THEN a[j] ELSE b[j - Len(a)]
    BY <2>2, ConcatProperties
  <2>6. o + N <= Len(c)
    BY <1>3, <2>2, <2>3, <2>4, <2>5
  <2>7. ASSUME NEW j \in 1..N PROVE c[o + j] = seqs[k][j]
    <3>1. o + j \in 1..Len(a) + Len(b) /\ o + j <= Len(a)
      BY <1>3, <2>2, <2>3, <2>4
    <3> QED
      BY <2>3, <2>5, <3>1
  <2> QED
    BY <2>6, <2>7 DEF c
<1>7. ASSUME NEW m \in Nat, m \in U, k + (m + 1) <= n PROVE Keeps(k + (m + 1))
  <2> DEFINE i == k + m
  <2>1. i \in k..n /\ i + 1 <= n /\ k + (m + 1) = i + 1 /\ k + m <= n
    BY <1>1, <1>7
  <2>2. Keeps(i)
    BY <1>7, <2>1
  <2> HIDE DEF Keeps, i
  <2>3. Keeps(i + 1)
    BY <1>6, <2>1, <2>2
  <2> QED
    BY <2>1, <2>3
<1>8. \A m \in Nat : m \in U => m + 1 \in U
  <2> HIDE DEF Keeps
  <2> QED
    BY <1>7
<1> HIDE DEF U
<1>9. n - k \in U
  <2>1. Nat \subseteq U
    BY <1>5, <1>8, NumberInduction
  <2> QED
    BY <1>1, <2>1
<1>10. Keeps(n)
  <2>1. k + (n - k) = n /\ k + (n - k) <= n
    BY <1>1
  <2> HIDE DEF Keeps
  <2> QED
    BY <1>9, <2>1 DEF U
<1>11. n \in 0..n
  BY <1>1
<1> QED
  BY <1>2, <1>3, <1>4, <1>10, <1>11 DEF o, N, n, PlacedAt
-----------------------------------------------------------------------------
(* Config: what a line assigns *)

LineEnds == Comments \cup {NewLine}

\* i is where the line starts, s where the first sign behind i is, and v where the
\* value behind s starts
StartsAt(line, i) ==
    i \in 1..Len(line) /\ line[i] # Blank /\ \A j \in 1..i - 1 : line[j] = Blank
SignAt(line, i, s) ==
    s \in i..Len(line) /\ line[s] = "=" /\ \A j \in i..s - 1 : line[j] # "="
ValueAt(line, s, v) ==
    v \in s + 1..Len(line) /\ line[v] # Blank /\ \A j \in s + 1..v - 1 : line[j] = Blank

\* A line by itself: it is blank, a comment, or an assignment.
ByItself(line) ==
    /\ line \in Strings /\ Len(line) \in Nat \ {0}
    /\ line[Len(line)] = NewLine /\ \A j \in 1..Len(line) - 1 : line[j] # NewLine
    /\ \E i : StartsAt(line, i) /\
          \/ line[i] \in LineEnds /\ Assigned(line) = <<>>
          \/ /\ line[i] \notin LineEnds
             /\ \E s, v :
                   /\ SignAt(line, i, s) /\ s < Len(line)
                   /\ ValueAt(line, s, v) /\ line[v] \notin LineEnds
                   /\ Assigned(line) = << <<String(line, i, s), String(line, v, Len(line))>> >>

LEMMA CharactersDiffer ==
  /\ Blank # NewLine /\ Blank \notin Comments /\ NewLine \notin Comments
  /\ "=" # Blank /\ "=" \notin LineEnds /\ Blank \notin LineEnds
  /\ NewLine \in LineEnds
BY DEF Blank, NewLine, Comments, LineEnds

LEMMA LinesAreStrings == Lines \subseteq Strings /\ None \notin Strings
BY ConfigAssumption DEF Strings, Alphabet

LEMMA LineByItself ==
  ASSUME NEW line \in Lines, Assigned(line) # None
  PROVE  ByItself(line)
<1> DEFINE N == Len(line)
           skip(p) == {i \in p..N : line[i] # Blank}
           start == Min(skip(1))
           signs == Positions(line, start, {"="})
           s == Min(signs)
           v == Min(skip(s + 1))
<1>1. line \in Strings /\ N \in Nat /\ line \in Seq(Alphabet)
  <2>1. line \in Seq(Alphabet)
    BY LinesAreStrings DEF Strings
  <2> QED
    BY <2>1, LenProperties DEF Strings
<1>2. Assigned(line) =
        IF Positions(line, 1, {NewLine}) # {N} THEN None
        ELSE IF line[start] \in LineEnds THEN <<>>
        ELSE IF signs = {} THEN None
        ELSE IF line[v] \in LineEnds THEN None
        ELSE << <<String(line, start, s), String(line, v, N)>> >>
  BY DEF Assigned, LineEnds
<1> HIDE DEF N, start, signs, s, v
<1>3. Positions(line, 1, {NewLine}) = {N}
  BY <1>2
<1>4. N \in 1..N /\ line[N] = NewLine /\ \A j \in 1..N : line[j] = NewLine => j = N
  BY <1>3 DEF Positions, N
<1>5. line[N] # Blank /\ line[N] # "=" /\ N # 0
  BY <1>4, CharactersDiffer DEF LineEnds
<1>6. ASSUME NEW p \in Nat, 1 <= p, p <= N
      PROVE  /\ Min(skip(p)) \in p..N /\ line[Min(skip(p))] # Blank
             /\ \A j \in p..Min(skip(p)) - 1 : line[j] = Blank
  <2> DEFINE S == skip(p)
  <2>1. S \subseteq Nat /\ N \in S /\ \A j \in S : j \in p..N /\ line[j] # Blank
    BY <1>1, <1>5, <1>6
  <2> HIDE DEF S
  <2>2. Min(S) \in S /\ \A j \in S : Min(S) <= j
    BY <2>1, HasLeast
  <2> DEFINE m == Min(S)
  <2> HIDE DEF m
  <2>3. m \in p..N /\ line[m] # Blank /\ m \in S /\ \A j \in S : m <= j
    BY <2>1, <2>2 DEF m
  <2>4. ASSUME NEW j \in p..m - 1 PROVE line[j] = Blank
    <3>1. j \in p..N /\ ~(m <= j)
      BY <1>1, <1>6, <2>3
    <3>2. j \notin S
      BY <2>3, <3>1
    <3> QED
      BY <3>1, <3>2 DEF S
  <2> QED
    BY <2>3, <2>4 DEF m, S
<1>7. 1 <= N
  BY <1>1, <1>5
<1>8. StartsAt(line, start)
  BY <1>1, <1>6, <1>7 DEF StartsAt, start, N
<1>9. /\ line \in Strings /\ N \in Nat \ {0} /\ line[N] = NewLine
      /\ \A j \in 1..N - 1 : line[j] # NewLine
  BY <1>1, <1>4, <1>5
<1>10. CASE line[start] \in LineEnds
  <2>1. Assigned(line) = <<>>
    BY <1>2, <1>3, <1>10
  <2> QED
    BY <1>8, <1>9, <1>10, <2>1 DEF ByItself, N
<1>11. CASE line[start] \notin LineEnds
  <2>1. /\ signs # {} /\ line[v] \notin LineEnds
        /\ Assigned(line) = << <<String(line, start, s), String(line, v, N)>> >>
    BY <1>2, <1>3, <1>11
  <2>2. start \in 1..N
    BY <1>8 DEF StartsAt, N
  <2>3. signs \subseteq Nat /\ \A j \in signs : j \in start..N /\ line[j] = "="
    BY <1>1, <2>2 DEF signs, Positions, N
  <2>4. s \in signs /\ \A j \in signs : s <= j
    BY <2>1, <2>3, HasLeast DEF s
  <2>5. s \in start..N /\ line[s] = "=" /\ s < N
    <3>1. s \in start..N /\ line[s] = "=" /\ s # N
      BY <1>5, <2>3, <2>4
    <3> QED
      BY <1>1, <2>2, <3>1
  <2>6. ASSUME NEW j \in start..s - 1 PROVE line[j] # "="
    <3>1. j \in start..N /\ ~(s <= j)
      BY <1>1, <2>2, <2>5
    <3>2. j \notin signs
      BY <2>4, <3>1
    <3> QED
      BY <3>1, <3>2 DEF signs, Positions, N
  <2>7. SignAt(line, start, s)
    BY <2>5, <2>6 DEF SignAt, N
  <2>8. ValueAt(line, s, v)
    <3>1. s + 1 \in Nat /\ 1 <= s + 1 /\ s + 1 <= N
      BY <1>1, <2>2, <2>5
    <3> DEFINE q == s + 1
    <3> HIDE DEF q
    <3>2. /\ Min(skip(q)) \in q..N /\ line[Min(skip(q))] # Blank
          /\ \A j \in q..Min(skip(q)) - 1 : line[j] = Blank
      BY <1>6, <3>1 DEF q
    <3> QED
      BY <3>2 DEF ValueAt, v, q, N
  <2> QED
    BY <1>8, <1>9, <1>11, <2>1, <2>5, <2>7, <2>8 DEF ByItself, N
<1> QED
  BY <1>10, <1>11

\* What such a line assigns is a sequence of entries.
LEMMA AssignedEntries ==
  ASSUME NEW line, ByItself(line)
  PROVE  Assigned(line) \in Seq(Entries)
<1>1. PICK i : StartsAt(line, i) /\
          \/ line[i] \in LineEnds /\ Assigned(line) = <<>>
          \/ /\ line[i] \notin LineEnds
             /\ \E s, v :
                   /\ SignAt(line, i, s) /\ s < Len(line)
                   /\ ValueAt(line, s, v) /\ line[v] \notin LineEnds
                   /\ Assigned(line) = << <<String(line, i, s), String(line, v, Len(line))>> >>
  BY DEF ByItself
<1>2. CASE Assigned(line) = <<>>
  BY <1>2, EmptySeq
<1>3. ASSUME NEW s, NEW v, SignAt(line, i, s), ValueAt(line, s, v),
             Assigned(line) = << <<String(line, i, s), String(line, v, Len(line))>> >>
      PROVE  Assigned(line) \in Seq(Entries)
  <2> DEFINE N == Len(line)
             a == String(line, i, s)
             b == String(line, v, Len(line))
  <2>1. line \in Strings /\ N \in Nat
    BY DEF ByItself
  <2>2. i \in 1..N /\ s \in i..N /\ v \in s + 1..N /\ v \in 1..N /\ N \in v..N
    BY <1>1, <1>3, <2>1 DEF StartsAt, SignAt, ValueAt
  <2>3. PartAt(line, line, 0)
    <3>1. 0 + Len(line) <= Len(line) /\ \A j \in 1..Len(line) : 0 + j = j
      BY <2>1
    <3> QED
      BY <2>1, <3>1 DEF PartAt, PlacedAt
  <2>4. a \in Strings /\ b \in Strings
    BY <2>2, <2>3, StringMoves
  <2> HIDE DEF a, b
  <2>5. <<a, b>> \in Entries
    BY <2>4 DEF Entries
  <2> QED
    BY <1>3, <2>5 DEF a, b
<1> QED
  BY <1>1, <1>2, <1>3
-----------------------------------------------------------------------------
(* Config: where the parser is *)

BadLines(lines) == {i \in DOMAIN lines : Assigned(lines[i]) = None}

GoodLines(lines) == IF BadLines(lines) = {} THEN Len(lines) ELSE Min(BadLines(lines)) - 1

Expected(lines) == [i \in 1..GoodLines(lines) |-> Assigned(lines[i])]

\* f[k] are the characters of the first k lines, e[k] is what they assign.
Laid(lines, f, e) ==
    /\ lines \in Seq(Lines)
    /\ Joins(Alphabet, lines, f) /\ Joins(Entries, Expected(lines), e)

TextOf(lines, f) == f[Len(lines)]

\* The parser is in line k + 1: before what it assigns, or behind the sign.
InLine(lines, f, e, k, p, key, values) ==
    LET line == lines[k + 1]
        q == p - Len(f[k])
    IN  /\ k \in 0..GoodLines(lines) - 1
        /\ q \in 1..Len(line)
        /\ values = e[k]
        /\ \/ key = None /\ \A j \in 1..q - 1 : line[j] = Blank
           \/ /\ key # None
              /\ \E i, s : /\ StartsAt(line, i) /\ line[i] \notin LineEnds /\ SignAt(line, i, s)
                           /\ key = String(line, i, s)
                           /\ s < q /\ \A j \in s + 1..q - 1 : line[j] = Blank

\* It has read all lines up to the first that is bad.
Through(lines, f, e, p, values) ==
    /\ \E rest \in Seq(Entries) : values = e[GoodLines(lines)] \o rest
    /\ GoodLines(lines) = Len(lines) =>
          p > Len(TextOf(lines, f)) /\ values = e[GoodLines(lines)]

At(lines, f, e, p, key, values) ==
    \/ \E k : InLine(lines, f, e, k, p, key, values)
    \/ Through(lines, f, e, p, values)

\* The lines up to the first bad one are lines by themselves.
LEMMA GoodOnes ==
  ASSUME NEW lines \in Seq(Lines)
  PROVE  /\ Len(lines) \in Nat /\ GoodLines(lines) \in 0..Len(lines)
         /\ \A i \in 1..GoodLines(lines) : ByItself(lines[i])
         /\ Expected(lines) \in Seq(Seq(Entries)) /\ Len(Expected(lines)) = GoodLines(lines)
         /\ BadLines(lines) = {} <=> GoodLines(lines) = Len(lines)
<1> DEFINE n == Len(lines)
           B == BadLines(lines)
           g == GoodLines(lines)
<1>1. n \in Nat /\ DOMAIN lines = 1..n /\ \A i \in 1..n : lines[i] \in Lines
  BY LenProperties
<1> HIDE DEF n
<1>2. B \subseteq 1..n /\ \A i \in 1..n : i \notin B => Assigned(lines[i]) # None
  BY <1>1 DEF BadLines
<1>3. g = IF B = {} THEN n ELSE Min(B) - 1
  BY DEF GoodLines, n
<1> HIDE DEF B, g
<1>4. /\ g \in 0..n /\ \A i \in 1..g : i \in 1..n /\ i \notin B
      /\ B = {} <=> g = n
  <2>1. CASE B = {}
    BY <1>1, <1>3, <2>1
  <2>2. CASE B # {}
    <3> DEFINE m == Min(B)
    <3>1. B \subseteq Nat
      BY <1>1, <1>2
    <3>2. m \in B /\ \A i \in B : m <= i
      BY <2>2, <3>1, HasLeast
    <3> HIDE DEF m
    <3>3. m \in 1..n /\ g = m - 1
      BY <1>2, <1>3, <2>2, <3>2 DEF m
    <3>4. g \in 0..n /\ g # n
      BY <1>1, <3>3
    <3>5. ASSUME NEW i \in 1..g PROVE i \in 1..n /\ i \notin B
      <4>1. i \in 1..n /\ ~(m <= i)
        BY <1>1, <3>3
      <4> QED
        BY <3>2, <4>1
    <3> QED
      BY <2>2, <3>4, <3>5
  <2> QED
    BY <2>1, <2>2
<1>5. \A i \in 1..g : ByItself(lines[i])
  BY <1>1, <1>2, <1>4, LineByItself
<1>6. \A i \in 1..g : Assigned(lines[i]) \in Seq(Entries)
  BY <1>5, AssignedEntries
<1>7. Expected(lines) = [i \in 1..g |-> Assigned(lines[i])]
  BY DEF Expected, g
<1>8. Expected(lines) \in Seq(Seq(Entries)) /\ Len(Expected(lines)) = g
  BY <1>1, <1>4, <1>6, <1>7
<1> QED
  BY <1>1, <1>4, <1>5, <1>8 DEF n, B, g

\* What is known of line k + 1 and its place in the text.
LEMMA LineFacts ==
  ASSUME NEW lines, NEW f, NEW e, Laid(lines, f, e), NEW k \in 0..GoodLines(lines) - 1
  PROVE  LET line == lines[k + 1]
         IN  /\ ByItself(line) /\ PartAt(TextOf(lines, f), line, Len(f[k]))
             /\ Len(f[k]) \in Nat /\ Len(f[k + 1]) = Len(f[k]) + Len(line)
             /\ e[k] \in Seq(Entries) /\ e[k + 1] = e[k] \o Assigned(line)
<1> DEFINE g == GoodLines(lines)
           n == Len(lines)
<1>1. lines \in Seq(Lines)
  BY DEF Laid
<1>2. /\ n \in Nat /\ g \in 0..n /\ \A i \in 1..g : ByItself(lines[i])
      /\ Len(Expected(lines)) = g /\ Expected(lines) = [i \in 1..g |-> Assigned(lines[i])]
  BY <1>1, GoodOnes DEF Expected
<1>3. /\ k \in 0..g - 1 /\ Joins(Alphabet, lines, f) /\ Joins(Entries, Expected(lines), e)
  BY DEF Laid
<1> HIDE DEF g, n
<1>4. k \in Nat /\ k + 1 \in 1..g /\ k + 1 \in 1..n /\ (k + 1) - 1 = k /\ k \in 0..g
  BY <1>2, <1>3
<1>5. lines \in Seq(Seq(Alphabet))
  <2>1. Lines \subseteq Seq(Alphabet)
    BY LinesAreStrings DEF Strings
  <2> QED
    BY <1>1, <2>1, SeqMonotonic
<1>6. /\ f[Len(lines)] \in Seq(Alphabet) /\ Len(f[k + 1]) = Len(f[k]) + Len(lines[k + 1])
      /\ PlacedAt(f[Len(lines)], lines[k + 1], Len(f[k]))
  <2> DEFINE i == k + 1
  <2>1. i \in 1..Len(lines) /\ i - 1 = k
    BY <1>4 DEF n
  <2> HIDE DEF i
  <2>2. /\ f[Len(lines)] \in Seq(Alphabet) /\ Len(f[i]) = Len(f[i - 1]) + Len(lines[i])
        /\ PlacedAt(f[Len(lines)], lines[i], Len(f[i - 1]))
    <3> DEFINE S == Alphabet
    <3>1. lines \in Seq(Seq(S)) /\ Joins(S, lines, f)
      BY <1>3, <1>5
    <3> HIDE DEF S
    <3>2. /\ f[Len(lines)] \in Seq(S) /\ Len(f[i]) = Len(f[i - 1]) + Len(lines[i])
          /\ PlacedAt(f[Len(lines)], lines[i], Len(f[i - 1]))
      BY <2>1, <3>1, JoinedPart
    <3> QED
      BY <3>2 DEF S
  <2> QED
    BY <2>1, <2>2 DEF i
<1>7. ByItself(lines[k + 1])
  BY <1>2, <1>4
<1>8. PartAt(TextOf(lines, f), lines[k + 1], Len(f[k]))
  BY <1>6, <1>7 DEF PartAt, PlacedAt, TextOf, ByItself, Strings
<1>9. e[k] \in Seq(Entries) /\ e[k + 1] = e[k] \o Assigned(lines[k + 1])
  <2>1. e \in [0..g -> Seq(Entries)] /\ \A i \in 1..g : e[i] = e[i - 1] \o Expected(lines)[i]
    BY <1>2, <1>3 DEF Joins
  <2> QED
    BY <1>2, <1>4, <2>1
<1> QED
  BY <1>6, <1>7, <1>8, <1>9 DEF PlacedAt

\* Before a line nothing of it has been read.
LEMMA BeforeLine ==
  ASSUME NEW lines, NEW f, NEW e, Laid(lines, f, e), NEW k \in 0..GoodLines(lines)
  PROVE  At(lines, f, e, Len(f[k]) + 1, None, e[k])
<1> DEFINE g == GoodLines(lines)
           n == Len(lines)
<1>1. lines \in Seq(Lines)
  BY DEF Laid
<1>2. n \in Nat /\ g \in 0..n /\ k \in 0..g /\ Len(Expected(lines)) = g
  BY <1>1, GoodOnes
<1>3. CASE k = g
  <2>1. e[g] \in Seq(Entries)
    BY <1>2 DEF Laid, Joins
  <2>2. e[g] = e[g] \o <<>> /\ <<>> \in Seq(Entries)
    BY <2>1, ConcatEmptySeq, EmptySeq
  <2>3. f[n] \in Seq(Alphabet)
    <3>1. f \in [0..n -> Seq(Alphabet)]
      BY DEF Laid, Joins
    <3>2. n \in 0..n
      BY <1>2
    <3> HIDE DEF n
    <3> QED
      BY <3>1, <3>2
  <2>4. g = n => Len(f[k]) + 1 > Len(TextOf(lines, f))
    <3>1. Len(f[n]) \in Nat
      BY <2>3, LenProperties
    <3> HIDE DEF g, n
    <3> QED
      BY <1>3, <3>1 DEF TextOf, n
  <2> QED
    BY <1>3, <2>2, <2>4 DEF At, Through
<1>4. CASE k # g
  <2>1. k \in 0..g - 1
    BY <1>2, <1>4
  <2> DEFINE line == lines[k + 1]
             o == Len(f[k])
  <2>2. o \in Nat /\ Len(line) \in Nat \ {0}
    BY <2>1, LineFacts DEF ByItself
  <2>3. (o + 1) - o = 1 /\ 1 \in 1..Len(line) /\ \A j \in 1..1 - 1 : FALSE
    BY <2>2
  <2> HIDE DEF o, line
  <2>4. InLine(lines, f, e, k, o + 1, None, e[k])
    BY <2>1, <2>3 DEF InLine, o, line
  <2> QED
    BY <2>4 DEF At, o
<1> QED
  BY <1>3, <1>4
-----------------------------------------------------------------------------
(* Config: what the parser does at a character *)

\* There is one start, one sign behind it and one value behind that.
LEMMA OneStart ==
  ASSUME NEW line, Len(line) \in Nat, NEW i, NEW j, StartsAt(line, i), StartsAt(line, j)
  PROVE  i = j
<1>1. i \in 1..Len(line) /\ j \in 1..Len(line)
  BY DEF StartsAt
<1>2. ~(i < j)
  BY <1>1 DEF StartsAt
<1>3. ~(j < i)
  BY <1>1 DEF StartsAt
<1> QED
  BY <1>1, <1>2, <1>3

LEMMA OneSign ==
  ASSUME NEW line, Len(line) \in Nat, NEW b, StartsAt(line, b),
         NEW i, NEW j, SignAt(line, b, i), SignAt(line, b, j)
  PROVE  i = j
<1>1. b \in Nat /\ i \in b..Len(line) /\ j \in b..Len(line)
  BY DEF SignAt, StartsAt
<1>2. ~(i < j)
  BY <1>1 DEF SignAt
<1>3. ~(j < i)
  BY <1>1 DEF SignAt
<1> QED
  BY <1>1, <1>2, <1>3

LEMMA OneValue ==
  ASSUME NEW line, Len(line) \in Nat, NEW s \in Nat,
         NEW i, NEW j, ValueAt(line, s, i), ValueAt(line, s, j)
  PROVE  i = j
<1>1. i \in s + 1..Len(line) /\ j \in s + 1..Len(line)
  BY DEF ValueAt
<1>2. ~(i < j)
  BY <1>1 DEF ValueAt
<1>3. ~(j < i)
  BY <1>1 DEF ValueAt
<1> QED
  BY <1>1, <1>2, <1>3

\* At the first character of a line it is known what kind of line it is,
LEMMA FirstCharacter ==
  ASSUME NEW line, ByItself(line), NEW q, StartsAt(line, q)
  PROVE  \/ line[q] \in LineEnds /\ Assigned(line) = <<>>
         \/ /\ line[q] \notin LineEnds
            /\ \E s, v :
                   /\ SignAt(line, q, s) /\ s < Len(line)
                   /\ ValueAt(line, s, v) /\ line[v] \notin LineEnds
                   /\ Assigned(line) = << <<String(line, q, s), String(line, v, Len(line))>> >>
<1>1. Len(line) \in Nat
  BY DEF ByItself
<1>2. \A i : StartsAt(line, i) => i = q
  BY <1>1, OneStart
<1> QED
  BY <1>2 DEF ByItself

\* and at the first one of the value what it assigns.
LEMMA ValueCharacter ==
  ASSUME NEW line, ByItself(line), NEW i, StartsAt(line, i), line[i] \notin LineEnds,
         NEW s, SignAt(line, i, s), NEW q, ValueAt(line, s, q)
  PROVE  /\ line[q] \notin LineEnds
         /\ Assigned(line) = << <<String(line, i, s), String(line, q, Len(line))>> >>
<1>1. Len(line) \in Nat
  BY DEF ByItself
<1>2. PICK t, v : /\ SignAt(line, i, t) /\ t < Len(line)
                  /\ ValueAt(line, t, v) /\ line[v] \notin LineEnds
                  /\ Assigned(line) = << <<String(line, i, t), String(line, v, Len(line))>> >>
  BY FirstCharacter
<1>3. t = s
  BY <1>1, <1>2, OneSign
<1>4. s \in Nat
  BY <1>1 DEF StartsAt, SignAt
<1>5. v = q
  BY <1>1, <1>2, <1>3, <1>4, OneValue
<1> QED
  BY <1>2, <1>3, <1>5

LEMMA TextIs ==
  ASSUME NEW lines, NEW f, NEW e, Laid(lines, f, e)
  PROVE  TextOf(lines, f) \in Strings /\ Len(TextOf(lines, f)) \in Nat
<1>1. Len(lines) \in Nat
  BY LenProperties DEF Laid
<1>2. Len(lines) \in 0..Len(lines)
  BY <1>1
<1>3. f \in [0..Len(lines) -> Seq(Alphabet)]
  BY DEF Laid, Joins
<1>4. f[Len(lines)] \in Seq(Alphabet)
  BY <1>2, <1>3
<1> QED
  BY <1>4, LenProperties DEF TextOf, Strings

LEMMA ExpectedIs ==
  ASSUME NEW lines, NEW f, NEW e, Laid(lines, f, e)
  PROVE  e[GoodLines(lines)] \in Seq(Entries)
<1> DEFINE g == GoodLines(lines)
<1>1. lines \in Seq(Lines)
  BY DEF Laid
<1>2. Len(Expected(lines)) = g /\ g \in 0..Len(lines) /\ Len(lines) \in Nat
  BY <1>1, GoodOnes
<1>3. e \in [0..g -> Seq(Entries)]
  BY <1>2 DEF Laid, Joins
<1>4. g \in 0..g
  BY <1>2
<1> QED
  BY <1>3, <1>4

\* Once it is through the good lines it may go on and find entries as it likes.
LEMMA ThroughStays ==
  ASSUME NEW lines, NEW f, NEW e, Laid(lines, f, e), NEW p \in Nat, NEW values,
         Through(lines, f, e, p, values), p <= Len(TextOf(lines, f)), NEW r
  PROVE  /\ Through(lines, f, e, r, values)
         /\ \A entry \in Entries : Through(lines, f, e, r, Append(values, entry))
<1> DEFINE g == GoodLines(lines)
<1>1. Len(TextOf(lines, f)) \in Nat
  BY TextIs
<1>2. g # Len(lines)
  BY <1>1 DEF Through
<1>3. PICK rest \in Seq(Entries) : values = e[g] \o rest
  BY DEF Through
<1>4. e[g] \in Seq(Entries)
  BY ExpectedIs
<1>5. ASSUME NEW entry \in Entries
      PROVE  \E more \in Seq(Entries) : Append(values, entry) = e[g] \o more
  <2> DEFINE a == e[g]
             one == <<entry>>
  <2>1. one \in Seq(Entries)
    OBVIOUS
  <2>2. a \in Seq(Entries) /\ a \o rest \in Seq(Entries)
    BY <1>4, ConcatProperties
  <2> HIDE DEF a
  <2>3. Append(a \o rest, entry) = (a \o rest) \o one
    BY <2>2, AppendIsConcat
  <2> HIDE DEF one
  <2>4. (a \o rest) \o one = a \o (rest \o one) /\ rest \o one \in Seq(Entries)
    BY <2>1, <2>2, ConcatAssociative, ConcatProperties
  <2> QED
    BY <1>3, <2>3, <2>4 DEF a
<1> QED
  BY <1>2, <1>3, <1>5 DEF Through

\* The line k + 1, which lies behind o, and the place q in it where the parser is.
InTheLine(lines, f, e, k, p, values, line, o, q) ==
    /\ k \in 0..GoodLines(lines) - 1 /\ k + 1 \in 0..GoodLines(lines)
    /\ line = lines[k + 1] /\ o = Len(f[k]) /\ q = p - o
    /\ ByItself(line) /\ PartAt(TextOf(lines, f), line, o)
    /\ o \in Nat /\ q \in 1..Len(line) /\ p = o + q /\ TextOf(lines, f)[p] = line[q]
    /\ Len(f[k + 1]) = o + Len(line)
    /\ values = e[k] /\ e[k] \in Seq(Entries) /\ e[k + 1] = e[k] \o Assigned(line)

\* Inside of a line the parser is at the first character, or at that of the value,
\* unless it is at a blank.
LEMMA InLineIs ==
  ASSUME NEW lines, NEW f, NEW e, Laid(lines, f, e), NEW p \in Nat, NEW key, NEW values,
         NEW k, InLine(lines, f, e, k, p, key, values)
  PROVE  \E line, o, q :
            /\ InTheLine(lines, f, e, k, p, values, line, o, q)
            /\ line[q] # Blank =>
                  \/ key = None /\ StartsAt(line, q)
                  \/ /\ key # None
                     /\ \E i, s : /\ StartsAt(line, i) /\ line[i] \notin LineEnds
                                  /\ SignAt(line, i, s) /\ key = String(line, i, s)
                                  /\ ValueAt(line, s, q)
<1> DEFINE line == lines[k + 1]
           text == TextOf(lines, f)
           o == Len(f[k])
           q == p - o
           N == Len(line)
           g == GoodLines(lines)
<1>1. k \in 0..g - 1 /\ k + 1 \in 0..g
  <2>1. g \in Nat
    BY GoodOnes DEF Laid
  <2>2. k \in 0..g - 1
    BY DEF InLine
  <2> HIDE DEF g
  <2> QED
    BY <2>1, <2>2
<1>2. /\ ByItself(line) /\ PartAt(text, line, o) /\ Len(f[k + 1]) = o + N
      /\ e[k] \in Seq(Entries) /\ e[k + 1] = e[k] \o Assigned(line)
  BY <1>1, LineFacts
<1>3. o \in Nat /\ N \in Nat /\ q \in 1..N /\ o + q = p /\ text[p] = line[q]
  <2>1. o \in Nat /\ N \in Nat /\ q \in 1..N
    BY <1>2 DEF InLine, PartAt, PlacedAt, ByItself
  <2>2. o + q = p
    BY <2>1
  <2> HIDE DEF line, o, q, text
  <2>3. text[o + q] = line[q]
    BY <1>2, <2>1 DEF PartAt, PlacedAt
  <2> QED
    BY <2>1, <2>2, <2>3
<1>4. values = e[k]
  BY DEF InLine
<1>5. \/ key = None /\ \A j \in 1..q - 1 : line[j] = Blank
      \/ /\ key # None
         /\ \E i, s : /\ StartsAt(line, i) /\ line[i] \notin LineEnds /\ SignAt(line, i, s)
                      /\ key = String(line, i, s)
                      /\ s < q /\ \A j \in s + 1..q - 1 : line[j] = Blank
  BY DEF InLine
<1>6. InTheLine(lines, f, e, k, p, values, line, o, q)
  BY <1>1, <1>2, <1>3, <1>4 DEF InTheLine
<1> HIDE DEF line, text, o, q, N, g
<1>7. ASSUME line[q] # Blank
      PROVE  \/ key = None /\ StartsAt(line, q)
             \/ /\ key # None
                /\ \E i, s : /\ StartsAt(line, i) /\ line[i] \notin LineEnds
                             /\ SignAt(line, i, s) /\ key = String(line, i, s)
                             /\ ValueAt(line, s, q)
  <2>1. CASE key = None /\ \A j \in 1..q - 1 : line[j] = Blank
    BY <1>3, <1>7, <2>1 DEF StartsAt, N
  <2>2. ASSUME NEW i, NEW s, StartsAt(line, i), SignAt(line, i, s),
               s < q, \A j \in s + 1..q - 1 : line[j] = Blank
        PROVE  ValueAt(line, s, q)
    <3>1. s \in Nat
      BY <1>3, <2>2 DEF SignAt, StartsAt, N
    <3> QED
      BY <1>3, <1>7, <2>2, <3>1 DEF ValueAt, N
  <2> QED
    BY <1>5, <2>1, <2>2
<1> QED
  BY <1>6, <1>7

\* The line ends where the first end of a line is found.
LEMMA LineEndFound ==
  ASSUME NEW lines, NEW f, NEW e, NEW k, NEW p, NEW values,
         NEW line, NEW o, NEW q, InTheLine(lines, f, e, k, p, values, line, o, q)
  PROVE  /\ FurtherBy(o, Len(line), Min(Positions(TextOf(lines, f), p, {NewLine})))
         /\ FurtherBy(o, Len(line),
               Min({Len(TextOf(lines, f))} \cup Positions(TextOf(lines, f), p, {NewLine})))
<1> DEFINE text == TextOf(lines, f)
           N == Len(line)
           chars == {NewLine}
<1>1. /\ PartAt(text, line, o) /\ q \in 1..N /\ p = o + q /\ N \in Nat \ {0}
      /\ line[N] = NewLine /\ \A j \in 1..N - 1 : line[j] # NewLine
  BY DEF InTheLine, ByItself
<1> HIDE DEF text
<1>2. N \in q..N /\ line[N] \in chars /\ \A j \in q..N - 1 : line[j] \notin chars
  <2>1. N \in q..N /\ \A j \in q..N - 1 : j \in 1..N - 1
    BY <1>1
  <2> QED
    BY <1>1, <2>1
<1>3. FirstAt(line, q, chars, N)
  BY <1>1, <1>2 DEF FirstAt
<1> DEFINE b == o + N
<1>4. FurtherBy(o, q, p) /\ FurtherBy(o, N, b)
  BY <1>1 DEF FurtherBy
<1> HIDE DEF chars, N, b
<1>5. /\ Min(Positions(text, p, chars)) = b
      /\ Min({Len(text)} \cup Positions(text, p, chars)) = b
  BY <1>1, <1>3, <1>4, FirstFound
<1> QED
  BY <1>4, <1>5 DEF text, chars, N

\* The sign of the line is the first that is found.
LEMMA SignFound ==
  ASSUME NEW lines, NEW f, NEW e, NEW k, NEW p, NEW values,
         NEW line, NEW o, NEW q, InTheLine(lines, f, e, k, p, values, line, o, q),
         NEW s, SignAt(line, q, s)
  PROVE  FurtherBy(o, s, Min(Positions(TextOf(lines, f), p, {"="})))
<1> DEFINE text == TextOf(lines, f)
           chars == {"="}
           b == o + s
<1>1. /\ PartAt(text, line, o) /\ q \in 1..Len(line) /\ p = o + q
  BY DEF InTheLine
<1>2. FirstAt(line, q, chars, s)
  BY <1>1 DEF FirstAt, SignAt
<1>3. FurtherBy(o, q, p) /\ FurtherBy(o, s, b)
  BY <1>1 DEF FurtherBy
<1> HIDE DEF text, chars, b
<1>4. /\ Min(Positions(text, p, chars)) = b
      /\ Min({Len(text)} \cup Positions(text, p, chars)) = b
  BY <1>1, <1>2, <1>3, FirstFound
<1> QED
  BY <1>3, <1>4 DEF text, chars

\* What is found behind p makes a string.
LEMMA FoundString ==
  ASSUME NEW text \in Strings, NEW p \in Nat, 1 <= p, p <= Len(text), NEW chars,
         Positions(text, p, chars) # {}
  PROVE  /\ Min(Positions(text, p, chars)) \in p..Len(text)
         /\ String(text, p, Min(Positions(text, p, chars))) \in Strings
<1> DEFINE S == Positions(text, p, chars)
           m == Min(S)
           N == Len(text)
<1>1. N \in Nat
  BY LenProperties DEF Strings
<1>2. S \subseteq Nat /\ \A j \in S : j \in p..N
  BY <1>1 DEF Positions
<1> HIDE DEF S
<1>3. m \in S
  BY <1>2, HasLeast DEF S
<1>4. PartAt(text, text, 0)
  <2>1. 0 + N <= N /\ \A j \in 1..N : 0 + j = j
    BY <1>1
  <2> QED
    BY <1>1, <2>1 DEF PartAt, PlacedAt
<1> HIDE DEF m, N
<1>5. m \in p..N /\ p \in 1..N
  BY <1>1, <1>2, <1>3 DEF N
<1>6. String(text, p, m) \in Strings
  BY <1>4, <1>5, StringMoves DEF N
<1> QED
  BY <1>5, <1>6 DEF m, S, N

\* A line that assigns nothing has been read.
LEMMA NothingRead ==
  ASSUME NEW lines, NEW f, NEW e, Laid(lines, f, e), NEW k, NEW p, NEW values,
         NEW line, NEW o, NEW q, InTheLine(lines, f, e, k, p, values, line, o, q),
         Assigned(line) = <<>>
  PROVE  At(lines, f, e, o + Len(line) + 1, None, values)
<1>1. e[k + 1] = e[k] /\ values = e[k] /\ Len(f[k + 1]) = o + Len(line)
  BY ConcatEmptySeq DEF InTheLine
<1> DEFINE m == k + 1
<1>2. m \in 0..GoodLines(lines)
  BY DEF InTheLine
<1> HIDE DEF m
<1>3. At(lines, f, e, Len(f[m]) + 1, None, e[m])
  BY <1>2, BeforeLine
<1> QED
  BY <1>1, <1>3 DEF m

\* A character that is skipped.
LEMMA SkipReads ==
  ASSUME NEW lines, NEW f, NEW e, Laid(lines, f, e), NEW p \in Nat, NEW key, NEW values,
         At(lines, f, e, p, key, values), p <= Len(TextOf(lines, f)),
         TextOf(lines, f)[p] \in {Blank, NewLine}
  PROVE  At(lines, f, e, p + 1, key, values)
<1>1. CASE Through(lines, f, e, p, values)
  <2> DEFINE r == p + 1
  <2> HIDE DEF r
  <2>1. Through(lines, f, e, r, values)
    BY <1>1, ThroughStays
  <2> QED
    BY <2>1 DEF At, r
<1>2. ASSUME NEW k, InLine(lines, f, e, k, p, key, values)
      PROVE  At(lines, f, e, p + 1, key, values)
  <2>1. PICK line, o, q :
           /\ InTheLine(lines, f, e, k, p, values, line, o, q)
           /\ line[q] # Blank =>
                 \/ key = None /\ StartsAt(line, q)
                 \/ /\ key # None
                    /\ \E i, s : /\ StartsAt(line, i) /\ line[i] \notin LineEnds
                                 /\ SignAt(line, i, s) /\ key = String(line, i, s)
                                 /\ ValueAt(line, s, q)
    BY <1>2, InLineIs
  <2> DEFINE N == Len(line)
  <2>2. /\ o \in Nat /\ N \in Nat \ {0} /\ q \in 1..N /\ p = o + q /\ line[q] \in {Blank, NewLine}
        /\ line[N] = NewLine /\ \A j \in 1..N - 1 : line[j] # NewLine
        /\ k \in 0..GoodLines(lines) - 1 /\ line = lines[k + 1] /\ o = Len(f[k])
        /\ values = e[k] /\ q = p - o
    BY <2>1 DEF InTheLine, ByItself
  <2>3. CASE line[q] = Blank
    <3>1. q + 1 \in 1..N /\ (p + 1) - o = q + 1
      <4>1. q # N
        BY <2>2, <2>3, CharactersDiffer
      <4>2. o \in Nat /\ N \in Nat /\ q \in 1..N /\ p = o + q
        BY <2>2
      <4> HIDE DEF N
      <4>3. q + 1 \in 1..N
        BY <4>1, <4>2
      <4>4. (p + 1) - o = q + 1
        BY <4>2
      <4> QED
        BY <4>3, <4>4
    <3>0. q \in Nat /\ N \in Nat
      BY <2>2
    <3> HIDE DEF N
    <3>2. CASE key = None /\ \A j \in 1..q - 1 : line[j] = Blank
      <4>1. \A j \in 1..(q + 1) - 1 : line[j] = Blank
        BY <2>3, <3>0, <3>2
      <4>2. InLine(lines, f, e, k, p + 1, key, values)
        BY <2>2, <3>1, <3>2, <4>1 DEF InLine, N
      <4> QED
        BY <4>2 DEF At
    <3>3. ASSUME NEW i, NEW s, key # None, StartsAt(line, i), line[i] \notin LineEnds,
                 SignAt(line, i, s), key = String(line, i, s),
                 s < q, \A j \in s + 1..q - 1 : line[j] = Blank
          PROVE  At(lines, f, e, p + 1, key, values)
      <4>1. s \in Nat
        BY <2>2, <3>3 DEF SignAt, StartsAt, N
      <4>2. s < q + 1 /\ \A j \in s + 1..(q + 1) - 1 : line[j] = Blank
        BY <2>3, <3>0, <3>3, <4>1
      <4>3. InLine(lines, f, e, k, p + 1, key, values)
        BY <2>2, <3>1, <3>3, <4>2 DEF InLine, N
      <4> QED
        BY <4>3 DEF At
    <3> QED
      BY <1>2, <2>2, <3>2, <3>3 DEF InLine
  <2>4. CASE line[q] = NewLine
    <3>1. q = N /\ line[q] # Blank /\ line[q] \in LineEnds
      BY <2>2, <2>4, CharactersDiffer
    <3>2. CASE key = None /\ StartsAt(line, q)
      <4>1. Assigned(line) = <<>>
        BY <2>1, <3>1, <3>2, FirstCharacter DEF InTheLine
      <4>2. At(lines, f, e, o + N + 1, None, values)
        BY <2>1, <4>1, NothingRead
      <4> QED
        BY <2>2, <3>1, <3>2, <4>2
    <3>3. ASSUME NEW i, NEW s, StartsAt(line, i), line[i] \notin LineEnds,
                 SignAt(line, i, s), ValueAt(line, s, q)
          PROVE  FALSE
      BY <2>1, <3>1, <3>3, ValueCharacter DEF InTheLine
    <3> QED
      BY <2>1, <3>1, <3>2, <3>3
  <2> QED
    BY <2>2, <2>3, <2>4
<1> QED
  BY <1>1, <1>2 DEF At

\* A comment is skipped up to the end of its line.
LEMMA SkipLineReads ==
  ASSUME NEW lines, NEW f, NEW e, Laid(lines, f, e), NEW p \in Nat, NEW key, NEW values,
         At(lines, f, e, p, key, values), p <= Len(TextOf(lines, f)),
         TextOf(lines, f)[p] \in Comments,
         NEW r, r = Min({Len(TextOf(lines, f))} \cup Positions(TextOf(lines, f), p, {NewLine})) + 1
  PROVE  At(lines, f, e, r, key, values)
<1>1. CASE Through(lines, f, e, p, values)
  BY <1>1, ThroughStays DEF At
<1>2. ASSUME NEW k, InLine(lines, f, e, k, p, key, values)
      PROVE  At(lines, f, e, r, key, values)
  <2>1. PICK line, o, q :
           /\ InTheLine(lines, f, e, k, p, values, line, o, q)
           /\ line[q] # Blank =>
                 \/ key = None /\ StartsAt(line, q)
                 \/ /\ key # None
                    /\ \E i, s : /\ StartsAt(line, i) /\ line[i] \notin LineEnds
                                 /\ SignAt(line, i, s) /\ key = String(line, i, s)
                                 /\ ValueAt(line, s, q)
    BY <1>2, InLineIs
  <2>2. ByItself(line) /\ line[q] # Blank /\ line[q] \in LineEnds
    BY <2>1, CharactersDiffer DEF InTheLine, LineEnds
  <2>3. ASSUME NEW i, NEW s, StartsAt(line, i), line[i] \notin LineEnds,
               SignAt(line, i, s), ValueAt(line, s, q)
        PROVE  FALSE
    BY <2>2, <2>3, ValueCharacter
  <2>4. key = None /\ StartsAt(line, q)
    BY <2>1, <2>2, <2>3
  <2>5. Assigned(line) = <<>>
    BY <2>2, <2>4, FirstCharacter
  <2> DEFINE end == Min({Len(TextOf(lines, f))} \cup Positions(TextOf(lines, f), p, {NewLine}))
  <2>6. r = o + Len(line) + 1
    <3>1. InTheLine(lines, f, e, k, p, values, line, o, q)
      BY <2>1
    <3>2. FurtherBy(o, Len(line), end)
      BY <3>1, LineEndFound
    <3> QED
      BY <3>2 DEF FurtherBy
  <2> QED
    BY <2>1, <2>4, <2>5, <2>6, NothingRead
<1> QED
  BY <1>1, <1>2 DEF At

\* A key is read up to the first sign.
LEMMA KeyReads ==
  ASSUME NEW lines, NEW f, NEW e, Laid(lines, f, e), NEW p \in Nat, NEW values,
         At(lines, f, e, p, None, values), p <= Len(TextOf(lines, f)),
         TextOf(lines, f)[p] \notin LineEnds \cup {Blank},
         NEW m, m = Min(Positions(TextOf(lines, f), p, {"="}))
  PROVE  At(lines, f, e, m + 1, String(TextOf(lines, f), p, m), values)
<1> DEFINE text == TextOf(lines, f)
           key == String(text, p, m)
<1>1. CASE Through(lines, f, e, p, values)
  <2> DEFINE r == m + 1
  <2> HIDE DEF r
  <2>1. Through(lines, f, e, r, values)
    BY <1>1, ThroughStays
  <2> QED
    BY <2>1 DEF At, r
<1>2. ASSUME NEW k, InLine(lines, f, e, k, p, None, values)
      PROVE  At(lines, f, e, m + 1, key, values)
  <2>1. PICK line, o, q :
           /\ InTheLine(lines, f, e, k, p, values, line, o, q)
           /\ line[q] # Blank => StartsAt(line, q)
    BY <1>2, InLineIs
  <2> DEFINE N == Len(line)
  <2>2. /\ ByItself(line) /\ line[q] # Blank /\ line[q] \notin LineEnds
        /\ o \in Nat /\ q \in 1..N /\ p = o + q /\ N \in Nat /\ PartAt(text, line, o)
        /\ k \in 0..GoodLines(lines) - 1 /\ line = lines[k + 1] /\ o = Len(f[k])
        /\ values = e[k]
    BY <2>1 DEF InTheLine, ByItself
  <2>3. PICK s : SignAt(line, q, s) /\ s < N
    BY <2>1, <2>2, FirstCharacter
  <2>4. s \in q..N /\ line[s] = "=" /\ \A j \in q..s - 1 : line[j] # "="
    BY <2>3 DEF SignAt
  <2> HIDE DEF text
  <2>5. m = o + s
    <3>1. FurtherBy(o, s, m)
      BY <2>1, <2>3, SignFound DEF text
    <3> QED
      BY <3>1 DEF FurtherBy
  <2>6. key = String(line, q, s) /\ key \in Strings
    <3>1. PartAt(text, line, o) /\ q \in 1..Len(line) /\ s \in q..Len(line)
      BY <2>2, <2>4
    <3>2. String(text, o + q, o + s) = String(line, q, s) /\ String(line, q, s) \in Strings
      BY <3>1, StringMoves
    <3>3. key = String(text, o + q, o + s)
      BY <2>2, <2>5
    <3> QED
      BY <3>2, <3>3
  <2>7. key # None
    BY <2>6, LinesAreStrings
  <2> HIDE DEF key
  <2>8. /\ (m + 1) - o = s + 1 /\ s + 1 \in 1..N /\ s < s + 1
        /\ \A j \in s + 1..(s + 1) - 1 : line[j] = Blank
    <3> HIDE DEF N
    <3>1. s \in Nat /\ o \in Nat /\ N \in Nat /\ s < N /\ m = o + s
      BY <2>2, <2>3, <2>4, <2>5
    <3>2. (m + 1) - o = s + 1
      BY <3>1
    <3>3. s + 1 \in 1..N /\ s < s + 1
      BY <3>1
    <3>4. \A j \in s + 1..(s + 1) - 1 : FALSE
      BY <3>1
    <3> QED
      BY <3>2, <3>3, <3>4
  <2>9. InLine(lines, f, e, k, m + 1, key, values)
    BY <2>1, <2>2, <2>3, <2>6, <2>7, <2>8 DEF InLine
  <2> QED
    BY <2>9 DEF At
<1> QED
  BY <1>1, <1>2 DEF At

\* A value is read up to the end of its line.
LEMMA ValueReads ==
  ASSUME NEW lines, NEW f, NEW e, Laid(lines, f, e), NEW p \in Nat, NEW key, NEW values,
         At(lines, f, e, p, key, values), 1 <= p, p <= Len(TextOf(lines, f)),
         TextOf(lines, f)[p] \notin LineEnds \cup {Blank},
         key # None, key \in Strings,
         Positions(TextOf(lines, f), p, {NewLine}) # {},
         NEW m, m = Min(Positions(TextOf(lines, f), p, {NewLine})),
         NEW entry, entry = <<key, String(TextOf(lines, f), p, m)>>
  PROVE  entry \in Entries /\ At(lines, f, e, m + 1, None, Append(values, entry))
<1> DEFINE text == TextOf(lines, f)
<1>1. entry \in Entries
  BY TextIs, FoundString DEF Entries
<1>2. CASE Through(lines, f, e, p, values)
  <2> DEFINE r == m + 1
  <2> HIDE DEF r
  <2>1. Through(lines, f, e, r, Append(values, entry))
    BY <1>1, <1>2, ThroughStays
  <2> QED
    BY <1>1, <2>1 DEF At, r
<1>3. ASSUME NEW k, InLine(lines, f, e, k, p, key, values)
      PROVE  At(lines, f, e, m + 1, None, Append(values, entry))
  <2>1. PICK line, o, q :
           /\ InTheLine(lines, f, e, k, p, values, line, o, q)
           /\ line[q] # Blank =>
                 \E i, s : /\ StartsAt(line, i) /\ line[i] \notin LineEnds
                           /\ SignAt(line, i, s) /\ key = String(line, i, s)
                           /\ ValueAt(line, s, q)
    BY <1>3, InLineIs
  <2> DEFINE N == Len(line)
  <2>2. /\ ByItself(line) /\ line[q] # Blank /\ line[q] \notin LineEnds
        /\ o \in Nat /\ q \in 1..N /\ p = o + q /\ N \in Nat /\ PartAt(text, line, o)
        /\ k + 1 \in 0..GoodLines(lines) /\ Len(f[k + 1]) = o + N
        /\ values = e[k] /\ e[k] \in Seq(Entries) /\ e[k + 1] = e[k] \o Assigned(line)
    BY <2>1 DEF InTheLine, ByItself
  <2>3. PICK i, s : /\ StartsAt(line, i) /\ line[i] \notin LineEnds
                    /\ SignAt(line, i, s) /\ key = String(line, i, s)
                    /\ ValueAt(line, s, q)
    BY <2>1, <2>2
  <2>4. Assigned(line) = << <<key, String(line, q, N)>> >>
    BY <2>2, <2>3, ValueCharacter
  <2>5. m = o + N
    <3>1. InTheLine(lines, f, e, k, p, values, line, o, q)
      BY <2>1
    <3>2. FurtherBy(o, N, m)
      BY <3>1, LineEndFound
    <3> QED
      BY <3>2 DEF FurtherBy
  <2>6. String(text, p, m) = String(line, q, N)
    <3>1. N \in q..N
      BY <2>2
    <3> QED
      BY <2>2, <2>5, <3>1, StringMoves
  <2>7. Append(values, entry) = e[k + 1]
    <3>1. Assigned(line) = <<entry>>
      BY <2>4, <2>6
    <3>2. Append(values, entry) = values \o <<entry>>
      BY <1>1, <2>2, AppendIsConcat
    <3> QED
      BY <2>2, <3>1, <3>2
  <2> DEFINE l == k + 1
  <2>8. l \in 0..GoodLines(lines)
    BY <2>2
  <2>9. m + 1 = Len(f[l]) + 1
    BY <2>2, <2>5
  <2> HIDE DEF l
  <2>10. At(lines, f, e, Len(f[l]) + 1, None, e[l])
    BY <2>8, BeforeLine
  <2> QED
    BY <2>7, <2>9, <2>10 DEF l
<1> QED
  BY <1>1, <1>2, <1>3 DEF At
-----------------------------------------------------------------------------
(* Config: handles *)

\* The values that a handle is called for, and those among the first of them.
Called(values, handles) == {i \in DOMAIN values : values[i][1] \in handles}

CalledUpTo(values, handles, i) == {j \in Called(values, handles) : j <= i}

CalledOnce(values, handles, handled) ==
    /\ Len(handled) = Cardinality(Called(values, handles))
    /\ \A i \in Called(values, handles) :
          handled[Cardinality(CalledUpTo(values, handles, i))] = values[i]

\* A value more is a call more if there is a handle for it.
LEMMA CallMore ==
  ASSUME NEW values \in Seq(Entries), NEW handles, NEW handled \in Seq(Entries),
         CalledOnce(values, handles, handled), NEW entry \in Entries,
         NEW more, more = IF entry[1] \in handles THEN Append(handled, entry) ELSE handled
  PROVE  more \in Seq(Entries) /\ CalledOnce(Append(values, entry), handles, more)
<1> DEFINE n == Len(values)
           m == Len(handled)
           all == Append(values, entry)
           C == Called(values, handles)
           D == Called(all, handles)
           c(i) == Cardinality(CalledUpTo(values, handles, i))
           d(i) == Cardinality(CalledUpTo(all, handles, i))
<1>1. /\ n \in Nat /\ m \in Nat /\ DOMAIN values = 1..n
      /\ all \in Seq(Entries) /\ DOMAIN all = 1..n + 1 /\ all[n + 1] = entry
      /\ \A i \in 1..n : all[i] = values[i]
  <2>1. /\ n \in Nat /\ m \in Nat /\ DOMAIN values = 1..n
        /\ all \in Seq(Entries) /\ Len(all) = n + 1 /\ all[n + 1] = entry
        /\ \A i \in 1..n : all[i] = values[i]
    BY LenProperties, AppendProperties
  <2> HIDE DEF all
  <2>2. DOMAIN all = 1..Len(all)
    BY <2>1, LenProperties
  <2> QED
    BY <2>1, <2>2
<1>2. /\ more \in Seq(Entries)
      /\ entry[1] \in handles =>
            /\ Len(more) = m + 1 /\ more[m + 1] = entry
            /\ \A i \in 1..m : more[i] = handled[i]
      /\ entry[1] \notin handles => more = handled
  BY AppendProperties
<1> HIDE DEF all, n, m
<1>3. /\ C \subseteq 1..n
      /\ entry[1] \in handles => D = C \cup {n + 1}
      /\ entry[1] \notin handles => D = C
  <2>1. C = {i \in 1..n : values[i][1] \in handles}
    BY <1>1 DEF Called
  <2>2. D = {i \in 1..n + 1 : all[i][1] \in handles}
    BY <1>1 DEF Called
  <2>3. \A i : i \in 1..n + 1 <=> i \in 1..n \/ i = n + 1
    BY <1>1
  <2>4. \A i \in 1..n : all[i][1] = values[i][1]
    BY <1>1
  <2>5. all[n + 1][1] = entry[1]
    BY <1>1
  <2> QED
    BY <2>1, <2>2, <2>3, <2>4, <2>5
<1>4. IsFiniteSet(C) /\ Cardinality(C) = m /\ n + 1 \notin C
  <2>1. IsFiniteSet(1..n)
    BY <1>1, FS_Interval
  <2>2. IsFiniteSet(C)
    BY <1>3, <2>1, FS_Subset
  <2>3. n + 1 \notin C
    BY <1>1, <1>3
  <2> QED
    BY <2>2, <2>3 DEF CalledOnce, m
<1> HIDE DEF C, D
<1>5. Len(more) = Cardinality(D)
  <2>1. CASE entry[1] \in handles
    <3>1. Cardinality(C \cup {n + 1}) = Cardinality(C) + 1
      BY <1>4, FS_AddElement
    <3> QED
      BY <1>2, <1>3, <1>4, <2>1, <3>1
  <2>2. CASE entry[1] \notin handles
    BY <1>2, <1>3, <1>4, <2>2 DEF m
  <2> QED
    BY <2>1, <2>2
<1>6. ASSUME NEW i \in C PROVE d(i) = c(i) /\ c(i) \in 1..m /\ i \in 1..n
  <2>1. i \in 1..n
    BY <1>3
  <2>2. CalledUpTo(values, handles, i) = {j \in C : j <= i}
    BY DEF CalledUpTo, C
  <2>3. CalledUpTo(all, handles, i) = {j \in D : j <= i}
    BY DEF CalledUpTo, D
  <2>4. ~(n + 1 <= i)
    BY <1>1, <2>1
  <2>5. CalledUpTo(all, handles, i) = CalledUpTo(values, handles, i)
    BY <1>3, <2>2, <2>3, <2>4
  <2> DEFINE B == CalledUpTo(values, handles, i)
  <2>6. B \subseteq C /\ i \in B
    BY <1>1, <2>1, <2>2
  <2> HIDE DEF B
  <2>7. IsFiniteSet(B) /\ Cardinality(B) <= m /\ Cardinality(B) \in Nat /\ Cardinality(B) # 0
    <3>1. IsFiniteSet(B) /\ Cardinality(B) <= Cardinality(C)
      BY <1>4, <2>6, FS_Subset
    <3>2. Cardinality(B) \in Nat /\ (Cardinality(B) = 0 <=> B = {})
      BY <3>1, FS_CardinalityType, FS_EmptySet
    <3> QED
      BY <1>4, <2>6, <3>1, <3>2
  <2>8. Cardinality(B) \in 1..m
    BY <1>1, <2>7
  <2> QED
    BY <2>1, <2>5, <2>8 DEF B
<1>7. ASSUME NEW i \in C PROVE more[d(i)] = all[i]
  <2>1. handled[c(i)] = values[i]
    BY DEF CalledOnce, C
  <2>2. d(i) = c(i) /\ c(i) \in 1..m /\ i \in 1..n
    BY <1>6
  <2> HIDE DEF c, d
  <2>3. more[c(i)] = handled[c(i)]
    BY <1>2, <2>2
  <2> QED
    BY <1>1, <2>1, <2>2, <2>3
<1>8. ASSUME entry[1] \in handles PROVE more[d(n + 1)] = all[n + 1]
  <2>1. CalledUpTo(all, handles, n + 1) = {j \in D : j <= n + 1}
    BY DEF CalledUpTo, D
  <2>2. \A j \in D : j <= n + 1
    <3>1. \A j \in 1..n : j <= n + 1
      BY <1>1
    <3>2. n + 1 <= n + 1
      BY <1>1
    <3>3. \A j \in D : j \in 1..n \/ j = n + 1
      BY <1>3, <1>8
    <3> QED
      BY <3>1, <3>2, <3>3
  <2>3. CalledUpTo(all, handles, n + 1) = D
    BY <2>1, <2>2
  <2>4. d(n + 1) = m + 1
    BY <1>2, <1>5, <1>8, <2>3
  <2> HIDE DEF d
  <2> QED
    BY <1>1, <1>2, <1>8, <2>4
<1>9. ASSUME NEW i \in D PROVE more[d(i)] = all[i]
  <2>1. i \in C \/ (entry[1] \in handles /\ i = n + 1)
    BY <1>3
  <2> HIDE DEF d
  <2> QED
    BY <1>7, <1>8, <2>1
<1>10. CalledOnce(all, handles, more)
  BY <1>5, <1>9 DEF CalledOnce, D
<1> QED
  BY <1>2, <1>10 DEF all
-----------------------------------------------------------------------------
(* Config: what has been read *)

Reads(lines, p, key, values) ==
    \E f, e : /\ Laid(lines, f, e)
              /\ FlattenSeq(lines) = TextOf(lines, f)
              /\ FlattenSeq(Expected(lines)) = e[GoodLines(lines)]
              /\ At(lines, f, e, p, key, values)

\* The first character is where the first line starts.
LEMMA ReadsAtFirst ==
  ASSUME NEW lines \in Seq(Lines)
  PROVE  Reads(lines, 1, None, <<>>)
<1>1. lines \in Seq(Seq(Alphabet))
  <2>1. Lines \subseteq Seq(Alphabet)
    BY LinesAreStrings DEF Strings
  <2> QED
    BY <2>1, SeqMonotonic
<1>2. PICK f : Joins(Alphabet, lines, f) /\ FlattenSeq(lines) = f[Len(lines)]
  BY <1>1, FlattenJoins
<1> DEFINE expected == Expected(lines)
<1>3. expected \in Seq(Seq(Entries)) /\ Len(expected) = GoodLines(lines)
  BY GoodOnes
<1> HIDE DEF expected
<1>4. PICK e : Joins(Entries, expected, e) /\ FlattenSeq(expected) = e[Len(expected)]
  BY <1>3, FlattenJoins
<1>5. Laid(lines, f, e)
  BY <1>2, <1>4 DEF Laid, expected
<1>6. At(lines, f, e, 1, None, <<>>)
  <2>1. f[0] = <<>> /\ e[0] = <<>>
    BY <1>2, <1>4 DEF Joins
  <2>2. Len(f[0]) + 1 = 1
    BY <2>1
  <2>3. 0 \in 0..GoodLines(lines)
    BY GoodOnes
  <2> DEFINE k == 0
  <2>4. k \in 0..GoodLines(lines)
    BY <2>3
  <2> HIDE DEF k
  <2>5. At(lines, f, e, Len(f[k]) + 1, None, e[k])
    BY <1>5, <2>4, BeforeLine
  <2> QED
    BY <2>1, <2>2, <2>5 DEF k
<1> QED
  BY <1>2, <1>3, <1>4, <1>5, <1>6 DEF Reads, TextOf, expected

\* At the end of the text what the lines assign has been read, and nothing else if
\* all of them are good.
LEMMA ReadsToTheEnd ==
  ASSUME NEW lines \in Seq(Lines), NEW p \in Nat, NEW key, NEW values \in Seq(Entries),
         Reads(lines, p, key, values), p > Len(FlattenSeq(lines))
  PROVE  /\ IsPrefix(FlattenSeq(Expected(lines)), values)
         /\ BadLines(lines) = {} => FlattenSeq(Expected(lines)) = values
<1>1. PICK f, e : /\ Laid(lines, f, e) /\ FlattenSeq(lines) = TextOf(lines, f)
                  /\ FlattenSeq(Expected(lines)) = e[GoodLines(lines)]
                  /\ At(lines, f, e, p, key, values)
  BY DEF Reads
<1>2. ASSUME NEW k, InLine(lines, f, e, k, p, key, values) PROVE FALSE
  <2>1. PICK line, o, q : InTheLine(lines, f, e, k, p, values, line, o, q)
    BY <1>1, <1>2, InLineIs
  <2> DEFINE N == Len(line)
             M == Len(TextOf(lines, f))
  <2>2. /\ o \in Nat /\ q \in 1..N /\ p = o + q /\ o + N <= M /\ p > M /\ N \in Nat
    BY <1>1, <2>1 DEF InTheLine, PartAt, PlacedAt, ByItself
  <2>3. M \in Nat
    BY <1>1, TextIs
  <2> HIDE DEF N, M
  <2> QED
    BY <2>2, <2>3
<1>3. Through(lines, f, e, p, values)
  BY <1>1, <1>2 DEF At
<1> DEFINE a == e[GoodLines(lines)]
<1>4. a \in Seq(Entries)
  BY <1>1, ExpectedIs
<1>5. PICK rest \in Seq(Entries) : values = a \o rest
  BY <1>3 DEF Through
<1>6. BadLines(lines) = {} => a = values
  <2>1. BadLines(lines) = {} => GoodLines(lines) = Len(lines)
    BY GoodOnes
  <2> QED
    BY <1>3, <2>1 DEF Through
<1> HIDE DEF a
<1>7. IsPrefix(a, values)
  <2> DEFINE n == Len(a)
             x == SubSeq(a, 1, n)
             y == SubSeq(values, 1, n)
  <2>1. /\ n \in Nat /\ n <= Len(values) /\ Len(rest) \in Nat /\ Len(values) \in Nat
        /\ \A j \in 1..n + Len(rest) : values[j] = IF j <= n THEN a[j] ELSE rest[j - n]
    BY <1>4, <1>5, LenProperties, ConcatProperties
  <2>2. 1 <= 1 /\ 1 <= n + 1 /\ n <= Len(a) /\ 1 \in Int /\ n \in Int /\ n + 1 - 1 = n
    BY <2>1
  <2> HIDE DEF n
  <2>3. x \in Seq(Entries) /\ Len(x) = n /\ \A j \in Nat : 1 <= j /\ j <= n => x[j] = a[1 + j - 1]
    BY <1>4, <2>2, PartOf
  <2>4. y \in Seq(Entries) /\ Len(y) = n /\ \A j \in Nat : 1 <= j /\ j <= n => y[j] = values[1 + j - 1]
    BY <2>1, <2>2, PartOf
  <2> HIDE DEF x, y
  <2>5. ASSUME NEW j \in 1..Len(x) PROVE x[j] = y[j]
    <3>1. j \in Nat /\ 1 <= j /\ j <= n /\ 1 + j - 1 = j /\ j \in 1..n + Len(rest)
      BY <2>1, <2>3
    <3> QED
      BY <2>1, <2>3, <2>4, <3>1
  <2>6. x = y
    BY <2>3, <2>4, <2>5, SeqEqual
  <2> QED
    BY <2>1, <2>6 DEF IsPrefix, n, x, y
<1> QED
  BY <1>1, <1>6, <1>7 DEF a
-----------------------------------------------------------------------------
(* Config: the steps of the parser, and the calls between them *)

Readers == [lines : Seq(Lines), p : Nat \ {0}, key : {None} \cup Strings]

Configs ==
    [mem : {"none", "live", "freed"}, values : Seq(Entries), handles : [HandleKeys -> Nat],
     handled : Seq(Entries), path : BOOLEAN, parser : {None} \cup Readers]

\* What the parser has read is what stands before it, and handles have been called
\* for what they are for.
Reading(c) ==
    /\ c \in Configs
    /\ c.parser # None =>
          /\ Reads(c.parser.lines, c.parser.p, c.parser.key, c.values)
          /\ CalledOnce(c.values, HandledKeys(c.handles), c.handled)

ParserInv == config # None => Reading(config)

\* The fields of a configuration whose parser has moved.
LEMMA Moves ==
  ASSUME config \in Configs, config.parser # None,
         NEW p \in Nat \ {0}, NEW key \in {None} \cup Strings,
         NEW values \in Seq(Entries), NEW handled \in Seq(Entries),
         \/ config' = [config EXCEPT !.parser.p = p] /\ key = config.parser.key
                /\ values = config.values /\ handled = config.handled
         \/ config' = [config EXCEPT !.parser.p = p, !.parser.key = key]
                /\ values = config.values /\ handled = config.handled
         \/ config' = [config EXCEPT !.parser.p = p, !.parser.key = key,
                                     !.values = values, !.handled = handled],
         Reads(config.parser.lines, p, key, values),
         CalledOnce(values, HandledKeys(config.handles), handled)
  PROVE  Reading(config')
<1> DEFINE c == config
           r == [lines |-> c.parser.lines, p |-> p, key |-> key]
<1>1. c.parser \in Readers
  BY DEF Configs
<1>2. r \in Readers
  BY <1>1 DEF Readers
<1>3. config' = [mem |-> c.mem, values |-> values, handles |-> c.handles,
                 handled |-> handled, path |-> c.path, parser |-> r]
  <2>1. /\ c = [mem |-> c.mem, values |-> c.values, handles |-> c.handles,
                handled |-> c.handled, path |-> c.path, parser |-> c.parser]
        /\ c.parser = [lines |-> c.parser.lines, p |-> c.parser.p, key |-> c.parser.key]
    BY <1>1 DEF Configs, Readers
  <2>2. CASE config' = [config EXCEPT !.parser.p = p] /\ key = config.parser.key
                /\ values = config.values /\ handled = config.handled
    BY <2>1, <2>2
  <2>3. CASE config' = [config EXCEPT !.parser.p = p, !.parser.key = key]
                /\ values = config.values /\ handled = config.handled
    BY <2>1, <2>3
  <2>4. CASE config' = [config EXCEPT !.parser.p = p, !.parser.key = key,
                                      !.values = values, !.handled = handled]
    BY <2>1, <2>4
  <2> QED
    BY <2>2, <2>3, <2>4
<1>4. config' \in Configs
  BY <1>2, <1>3 DEF Configs
<1>5. /\ config'.parser.lines = c.parser.lines /\ config'.parser.p = p
      /\ config'.parser.key = key /\ config'.values = values
      /\ config'.handles = c.handles /\ config'.handled = handled
  BY <1>3
<1> QED
  BY <1>4, <1>5 DEF Reading
\* Each step of the parser reads on.
LEMMA ReadsOn ==
  ASSUME config # None, Reading(config), ParserStep
  PROVE  Reading(config')
<1> DEFINE lines == config.parser.lines
           p == config.parser.p
           key == config.parser.key
           values == config.values
           text == Characters
           N == Len(text)
           good == GoodLines(lines)
<1>1. /\ config \in Configs /\ config.parser # None /\ config.parser \in Readers
      /\ Reads(lines, p, key, values)
      /\ CalledOnce(values, HandledKeys(config.handles), config.handled)
  BY DEF Reading, ParserStep, Parsing, Configs
<1>2. /\ lines \in Seq(Lines) /\ p \in Nat /\ 1 <= p /\ key \in {None} \cup Strings
      /\ values \in Seq(Entries) /\ config.handled \in Seq(Entries)
  BY <1>1 DEF Configs, Readers
<1>3. PICK f, e : /\ Laid(lines, f, e) /\ text = TextOf(lines, f)
                  /\ FlattenSeq(Expected(lines)) = e[good]
                  /\ At(lines, f, e, p, key, values)
  BY <1>1 DEF Reads, Characters
<1>4. text \in Strings /\ N \in Nat
  BY <1>3, TextIs
<1> HIDE DEF good
<1>5. ASSUME NEW q \in Nat \ {0}, NEW k \in {None} \cup Strings,
             NEW v \in Seq(Entries), NEW h \in Seq(Entries),
             \/ config' = [config EXCEPT !.parser.p = q] /\ k = key
                    /\ v = values /\ h = config.handled
             \/ config' = [config EXCEPT !.parser.p = q, !.parser.key = k]
                    /\ v = values /\ h = config.handled
             \/ config' = [config EXCEPT !.parser.p = q, !.parser.key = k,
                                         !.values = v, !.handled = h],
             At(lines, f, e, q, k, v), CalledOnce(v, HandledKeys(config.handles), h)
      PROVE  Reading(config')
  <2>1. Reads(lines, q, k, v)
    BY <1>3, <1>5 DEF Reads, Characters, good
  <2> QED
    BY <1>1, <1>5, <2>1, Moves
<1>6. ASSUME NEW value, ParserEnds(value) PROVE Reading(config')
  <2>1. config' = [config EXCEPT !.parser = None]
    BY <1>6 DEF ParserEnds
  <2>2. config' \in Configs /\ config'.parser = None
    BY <1>1, <2>1 DEF Configs
  <2> QED
    BY <2>2 DEF Reading
<1> SUFFICES ASSUME p <= N, ParserSkip \/ ParserSkipLine \/ ParserReadKey \/ ParserReadValue
             PROVE  Reading(config')
  BY <1>2, <1>4, <1>6 DEF ParserStep
<1> DEFINE ends == Positions(text, p, {NewLine})
           signs == Positions(text, p, {"="})
<1>7. Char = text[p]
  BY DEF Char
<1> HIDE DEF lines, p, key, values, text
<1>8. CASE ParserSkip
  <2> DEFINE q == p + 1
  <2>1. config' = [config EXCEPT !.parser.p = q] /\ text[p] \in {Blank, NewLine}
    BY <1>7, <1>8 DEF ParserSkip, Moved, p
  <2>2. q \in Nat \ {0}
    BY <1>2
  <2>3. At(lines, f, e, q, key, values)
    BY <1>2, <1>3, <2>1, SkipReads
  <2> HIDE DEF q
  <2> QED
    BY <1>1, <1>2, <1>5, <2>1, <2>2, <2>3 DEF values
<1>9. CASE ParserSkipLine
  <2> DEFINE S == {Len(text)} \cup Positions(text, p, {NewLine})
             m == Min(S)
             q == m + 1
  <2>1. config' = [config EXCEPT !.parser.p = q] /\ text[p] \in Comments
    BY <1>7, <1>9 DEF ParserSkipLine, Moved, p, text
  <2>2. S \subseteq Nat /\ S # {}
    BY <1>2, <1>4 DEF Positions
  <2> HIDE DEF S
  <2>3. m \in Nat
    BY <2>2, HasLeast
  <2> HIDE DEF m
  <2>4. q \in Nat \ {0}
    BY <2>3
  <2>5. q = Min({Len(TextOf(lines, f))} \cup Positions(TextOf(lines, f), p, {NewLine})) + 1
    BY <1>3 DEF m, S
  <2> HIDE DEF q
  <2>6. At(lines, f, e, q, key, values)
    BY <1>2, <1>3, <2>1, <2>5, SkipLineReads
  <2> QED
    BY <1>1, <1>2, <1>5, <2>1, <2>4, <2>6 DEF values
<1>10. CASE ParserReadKey
  <2> DEFINE m == Min(signs)
             q == m + 1
             k == String(text, p, m)
  <2>1. key = None /\ text[p] \notin LineEnds \cup {Blank}
    BY <1>7, <1>10 DEF ParserReadKey, Starts, LineEnds, key
  <2>2. \/ ParserEnds(Failed)
        \/ signs # {} /\ config' = [config EXCEPT !.parser.p = q, !.parser.key = k]
    BY <1>10 DEF ParserReadKey, p, text
  <2> SUFFICES ASSUME signs # {}, config' = [config EXCEPT !.parser.p = q, !.parser.key = k]
               PROVE  Reading(config')
    BY <1>6, <2>2
  <2>3. m \in p..N /\ k \in Strings
    BY <1>2, <1>4, FoundString
  <2>4. m = Min(Positions(TextOf(lines, f), p, {"="}))
    BY <1>3
  <2>5. k = String(TextOf(lines, f), p, m)
    BY <1>3
  <2> HIDE DEF m, k
  <2>6. q \in Nat \ {0}
    BY <1>2, <2>3
  <2>7. At(lines, f, e, q, k, values)
    BY <1>2, <1>3, <2>1, <2>4, <2>5, KeyReads
  <2> HIDE DEF q
  <2> QED
    BY <1>1, <1>2, <1>5, <2>3, <2>6, <2>7 DEF values
<1>11. CASE ParserReadValue
  <2> DEFINE m == Min(ends)
             q == m + 1
             entry == <<key, String(text, p, m)>>
             v == Append(values, entry)
             h == IF key \in HandledKeys(config.handles) THEN Append(config.handled, entry)
                                                         ELSE config.handled
  <2>1. key # None /\ text[p] \notin LineEnds \cup {Blank}
    BY <1>7, <1>11 DEF ParserReadValue, Starts, LineEnds, key
  <2>2. \/ ParserEnds(Failed)
        \/ /\ ends # {}
           /\ config' = [config EXCEPT !.parser.p = q, !.parser.key = None,
                                       !.values = v, !.handled = h]
    BY <1>11 DEF ParserReadValue, p, text, key, values
  <2> SUFFICES ASSUME ends # {},
                      config' = [config EXCEPT !.parser.p = q, !.parser.key = None,
                                               !.values = v, !.handled = h]
               PROVE  Reading(config')
    BY <1>6, <2>2
  <2>3. m \in p..N
    BY <1>2, <1>4, FoundString
  <2>4. m = Min(Positions(TextOf(lines, f), p, {NewLine})) /\ Positions(TextOf(lines, f), p, {NewLine}) # {}
    BY <1>3
  <2>5. entry = <<key, String(TextOf(lines, f), p, m)>> /\ entry[1] = key
    BY <1>3
  <2> HIDE DEF m, entry
  <2>6. entry \in Entries /\ At(lines, f, e, q, None, v)
    BY <1>2, <1>3, <2>1, <2>4, <2>5, ValueReads
  <2>7. q \in Nat \ {0}
    BY <1>2, <2>3
  <2>8. v \in Seq(Entries)
    BY <1>2, <2>6, AppendProperties
  <2>9. h = IF entry[1] \in HandledKeys(config.handles) THEN Append(config.handled, entry)
                                                        ELSE config.handled
    BY <2>5
  <2> HIDE DEF h, q
  <2>10. h \in Seq(Entries) /\ CalledOnce(v, HandledKeys(config.handles), h)
    BY <1>1, <1>2, <2>6, <2>9, CallMore
  <2> HIDE DEF v
  <2> QED
    BY <1>5, <2>6, <2>7, <2>8, <2>10
<1> QED
  BY <1>8, <1>9, <1>10, <1>11
LEMMA TextLinesAre == ASSUME NEW max, NEW lines \in TextLines(max) PROVE lines \in Seq(Lines)
<1>1. PICK n \in 0..max : lines \in [1..n -> Lines]
  BY DEF TextLines
<1>2. n \in Nat
  BY <1>1
<1> QED
  BY <1>1, <1>2

\* Between two runs of the parser nothing is being read.
LEMMA ReadingStep == ParserInv /\ [ConfigNext]_<<config, returned, fault>> => ParserInv'
<1> SUFFICES ASSUME ParserInv, [ConfigNext]_<<config, returned, fault>> PROVE ParserInv'
  OBVIOUS
<1>1. CASE UNCHANGED config
  BY <1>1 DEF ParserInv, Reading
<1>2. CASE ConfigInit
  <2>1. <<>> \in Seq(Entries)
    BY EmptySeq
  <2>2. config' \in Configs /\ config'.parser = None
    BY <1>2, <2>1 DEF ConfigInit, Configs
  <2> QED
    BY <2>2 DEF ParserInv, Reading
<1>3. CASE config' = None
  BY <1>3 DEF ParserInv
<1>4. CASE config # None /\ ParserStep
  BY <1>4, ReadsOn DEF ParserInv
<1>5. ASSUME config # None, ~Parsing,
             \/ \E lines \in TextLines(IF config.mem = "none" THEN MaxLines ELSE MaxLinesAgain) :
                   ConfigParse(lines)
             \/ ConfigParseFails \/ ConfigSetPath
             \/ \E key \in HandleKeys : ConfigInsertHandle(key) \/ ConfigTakeHandle(key)
      PROVE  ParserInv'
  <2>1. config \in Configs /\ config.parser = None
    BY <1>5 DEF ParserInv, Reading, Parsing
  <2>2. <<>> \in Seq(Entries)
    BY EmptySeq
  <2>3. ASSUME NEW lines \in Seq(Lines), ConfigParse(lines)
        PROVE  ParserInv'
    <3> DEFINE r == [lines |-> lines, p |-> 1, key |-> None]
    <3>1. CASE config' = [config EXCEPT !.mem = "live", !.values = <<>>, !.handled = <<>>,
                             !.parser = r]
      <4>1. r \in Readers
        BY DEF Readers
      <4>2. r.lines = lines /\ r.p = 1 /\ r.key = None
        OBVIOUS
      <4> HIDE DEF r
      <4>3. /\ config' \in Configs /\ config'.parser = r
            /\ config'.values = <<>> /\ config'.handled = <<>>
        BY <2>1, <2>2, <3>1, <4>1 DEF Configs
      <4>4. Reads(lines, 1, None, <<>>)
        BY ReadsAtFirst
      <4>5. \A handles : CalledOnce(<<>>, handles, <<>>)
        <5>1. \A handles : Called(<<>>, handles) = {}
          BY DEF Called
        <5>2. Len(<<>>) = Cardinality({})
          BY FS_EmptySet
        <5> QED
          BY <5>1, <5>2 DEF CalledOnce
      <4> QED
        BY <4>2, <4>3, <4>4, <4>5 DEF ParserInv, Reading
    <3> QED
      BY <1>1, <2>3, <3>1 DEF ConfigParse
  <2>4. CASE ConfigParseFails
    <3>1. CASE config' = [config EXCEPT !.mem = Released, !.values = <<>>, !.handled = <<>>]
      <4>1. Released \in {"none", "freed"}
        BY DEF Released
      <4>2. config' \in Configs /\ config'.parser = None
        BY <2>1, <2>2, <3>1, <4>1 DEF Configs
      <4> QED
        BY <4>2 DEF ParserInv, Reading
    <3> QED
      BY <1>1, <2>4, <3>1 DEF ConfigParseFails
  <2>5. ASSUME \/ \E v \in BOOLEAN : config' = [config EXCEPT !.path = v]
               \/ \E v \in [HandleKeys -> Nat] : config' = [config EXCEPT !.handles = v]
        PROVE  ParserInv'
    <3>1. config' \in Configs /\ config'.parser = None
      BY <2>1, <2>5 DEF Configs
    <3> QED
      BY <3>1 DEF ParserInv, Reading
  <2>6. CASE ConfigSetPath
    BY <2>5, <2>6 DEF ConfigSetPath
  <2>7. ASSUME NEW key \in HandleKeys, ConfigInsertHandle(key) \/ ConfigTakeHandle(key)
        PROVE  ParserInv'
    <3> DEFINE with(n) == [config.handles EXCEPT ![key] = n]
    <3>1. config.handles \in [HandleKeys -> Nat]
      BY <2>1 DEF Configs
    <3>2. \A n \in Nat : with(n) \in [HandleKeys -> Nat]
      BY <3>1
    <3>3. /\ config.handles[key] + 1 \in Nat
          /\ key \in HandledKeys(config.handles) => config.handles[key] - 1 \in Nat
      BY <3>1 DEF HandledKeys
    <3>4. \/ UNCHANGED config
          \/ config' = [config EXCEPT !.handles = with(config.handles[key] + 1)]
          \/ /\ key \in HandledKeys(config.handles)
             /\ config' = [config EXCEPT !.handles = with(config.handles[key] - 1)]
      BY <2>7 DEF ConfigInsertHandle, ConfigTakeHandle
    <3> HIDE DEF with
    <3> QED
      BY <1>1, <2>5, <3>2, <3>3, <3>4
  <2> QED
    BY <1>5, <2>3, <2>4, <2>6, <2>7, TextLinesAre
<1> QED
  BY <1>1, <1>2, <1>3, <1>4, <1>5 DEF ConfigNext, ConfigCall, ConfigDestroy

\* Of a text of any number of lines of any kind, what the lines up to the first bad
\* one assign is read, and that alone if there is no bad one; for each assignment to
\* a key that has handles one of them is called, in their order
\* (config_parser_parse()).
THEOREM LinesAreRead == ConfigSpec => []ParserAgrees
<1>1. config = None => ParserInv
  BY DEF ParserInv
<1>2. ParserInv => ParserAgrees
  <2> SUFFICES ASSUME ParserInv, config # None, Parsing, config.parser.p > Len(Characters)
               PROVE  LET lines == config.parser.lines
                          values == config.values
                          bad == {i \in DOMAIN lines : Assigned(lines[i]) = None}
                          good == IF bad = {} THEN Len(lines) ELSE Min(bad) - 1
                          expected == FlattenSeq([i \in 1..good |-> Assigned(lines[i])])
                          called == {i \in DOMAIN values : values[i][1] \in HandledKeys(config.handles)}
                      IN  /\ IsPrefix(expected, values)
                          /\ bad = {} => expected = values
                          /\ Len(config.handled) = Cardinality(called)
                          /\ \A i \in called :
                                config.handled[Cardinality({j \in called : j <= i})] = values[i]
    BY DEF ParserAgrees
  <2> DEFINE lines == config.parser.lines
             p == config.parser.p
             key == config.parser.key
             values == config.values
             handles == HandledKeys(config.handles)
             handled == config.handled
  <2>1. /\ config \in Configs /\ config.parser \in Readers
        /\ Reads(lines, p, key, values) /\ CalledOnce(values, handles, handled)
    BY DEF ParserInv, Reading, Parsing, Configs
  <2>2. lines \in Seq(Lines) /\ p \in Nat /\ values \in Seq(Entries)
    BY <2>1 DEF Configs, Readers
  <2>3. p > Len(FlattenSeq(lines))
    BY DEF Characters
  <2> HIDE DEF lines, p, key, values
  <2>4. /\ IsPrefix(FlattenSeq(Expected(lines)), values)
        /\ BadLines(lines) = {} => FlattenSeq(Expected(lines)) = values
    BY <2>1, <2>2, <2>3, ReadsToTheEnd
  <2> QED
    BY <2>1, <2>4 DEF Expected, GoodLines, BadLines, CalledOnce, Called, CalledUpTo, lines, values
<1> QED
  BY <1>1, <1>2, ReadingStep, PTL DEF ConfigSpec

-----------------------------------------------------------------------------
(* ConfigFile *)

DiskSpec ==
    /\ disk = None /\ returned = None /\ Fine
    /\ [][DiskNext]_<<disk, returned, fault>>

Pcs == {"idle", "look", "mkdir", "open", "text", "maps", "done", "failed"}

Disks ==
    [node : [Levels -> {"none", "dir", "file"}],
     slash : BOOLEAN, written : Nat, lost : BOOLEAN, created : BOOLEAN,
     pc : [Processes -> Pcs], level : [Processes -> Levels],
     fd : [Processes -> BOOLEAN]]

DiskType == disk \in Disks

\* Whoever climbs has every level below behind it, and opens only at the top.
Climbed ==
    /\ \A p \in Processes : disk.pc[p] \in {"look", "mkdir", "open"} =>
           \A j \in 1..disk.level[p] - 1 : disk.node[j] # "none"
    /\ \A p \in Processes : disk.pc[p] = "open" => disk.level[p] = File
    /\ \A p \in Processes : disk.pc[p] \in {"look", "mkdir"} => disk.level[p] <= Depth

\* Who is past open() has the file in place.
InPlace ==
    \A p \in Processes :
        disk.pc[p] \in {"text", "maps", "done"} => ~Missing(Target) /\ ~Blocked(File)

\* The descriptor of O_CREAT and O_EXCL is the right to write the text.
OneWriter ==
    /\ \A p \in Processes : disk.fd[p] =>
           disk.pc[p] = "text" /\ disk.written = 0 /\ ~disk.lost /\ disk.created
    /\ \A p, q \in Processes : disk.fd[p] /\ disk.fd[q] => p = q
    /\ disk.created => disk.node[File] = "file"
    /\ ~disk.created => disk.written = 0 /\ ~disk.lost
    /\ disk.written <= 1
    /\ (disk.created /\ disk.written = 0 /\ \A p \in Processes : ~disk.fd[p]) => disk.lost

DiskInv == disk # None => DiskType /\ Climbed /\ InPlace /\ OneWriter

-----------------------------------------------------------------------------
(* What a step writes, field by field. *)

\* A step that only moves a process.
LEMMA GoesFields ==
  ASSUME DiskType, NEW p \in Processes, NEW x \in Pcs, disk' = Goes(p, x)
  PROVE  /\ DiskType'
         /\ disk'.pc = [disk.pc EXCEPT ![p] = x]
         /\ disk'.level = disk.level /\ disk'.fd = disk.fd
         /\ disk'.node = disk.node /\ disk'.slash = disk.slash
         /\ disk'.written = disk.written /\ disk'.lost = disk.lost
         /\ disk'.created = disk.created
BY DEF Goes, DiskType, Disks

\* The pc of a process that has reached level k.
Looks(k) == IF k > Depth THEN "open" ELSE "look"

\* Climbing leaves a well-typed disk.
LEMMA ClimbStays ==
  ASSUME NEW d \in Disks, NEW p \in Processes, NEW k \in Levels, NEW x \in Pcs
  PROVE  [d EXCEPT !.level[p] = k, !.pc[p] = x] \in Disks
BY DEF Disks

\* path_create() goes on with level k.
LEMMA ClimbFields ==
  ASSUME DiskType, NEW p \in Processes, NEW k \in Levels,
         NEW d, d = Climb(p, k)
  PROVE  /\ d \in Disks
         /\ d.pc = [disk.pc EXCEPT ![p] = Looks(k)]
         /\ d.level = [disk.level EXCEPT ![p] = k] /\ d.fd = disk.fd
         /\ d.node = disk.node /\ d.slash = disk.slash
         /\ d.written = disk.written /\ d.lost = disk.lost
         /\ d.created = disk.created
<1>1. d = [disk EXCEPT !.level[p] = k, !.pc[p] = Looks(k)]
  BY DEF Climb, Looks
<1>2. Looks(k) \in Pcs
  BY DEF Looks, Pcs
<1>3. \A x \in Pcs : [disk EXCEPT !.level[p] = k, !.pc[p] = x] \in Disks
  BY ClimbStays, Zenon DEF DiskType
<1>4. d \in Disks
  BY <1>1, <1>2, <1>3, Zenon
<1> QED
  BY <1>1, <1>4 DEF DiskType, Disks

\* mkdir() at level k, after which path_create() goes on.
LEMMA MakeFields ==
  ASSUME DiskType, NEW p \in Processes, NEW k \in Levels, k + 1 \in Levels,
         disk' = [Climb(p, k + 1) EXCEPT !.node[k] = IF @ = "none" THEN "dir" ELSE @]
  PROVE  /\ DiskType'
         /\ disk'.pc = [disk.pc EXCEPT ![p] = Looks(k + 1)]
         /\ disk'.level = [disk.level EXCEPT ![p] = k + 1] /\ disk'.fd = disk.fd
         /\ disk'.slash = disk.slash
         /\ disk'.written = disk.written /\ disk'.lost = disk.lost
         /\ disk'.created = disk.created
         /\ \A j \in Levels : disk'.node[j] = IF j = k /\ disk.node[k] = "none"
                                              THEN "dir" ELSE disk.node[j]
<1> DEFINE d == Climb(p, k + 1)
           m == IF d.node[k] = "none" THEN "dir" ELSE d.node[k]
<1>1. /\ d \in Disks
      /\ d.pc = [disk.pc EXCEPT ![p] = Looks(k + 1)]
      /\ d.level = [disk.level EXCEPT ![p] = k + 1] /\ d.fd = disk.fd
      /\ d.node = disk.node /\ d.slash = disk.slash
      /\ d.written = disk.written /\ d.lost = disk.lost
      /\ d.created = disk.created
  BY ClimbFields
<1>2. disk' = [d EXCEPT !.node[k] = m]
  OBVIOUS
<1>3. m \in {"none", "dir", "file"}
  BY <1>1 DEF Disks
<1> HIDE DEF d
<1> QED
  BY <1>1, <1>2, <1>3 DEF DiskType, Disks

-----------------------------------------------------------------------------
(* Each step of a process keeps the invariant. *)

\* Leaving for a place of which nothing is claimed.
LEMMA Retreats ==
  ASSUME DiskType, Climbed, InPlace, OneWriter, NEW p \in Processes,
         disk.pc[p] # "text", disk' = Goes(p, "failed")
  PROVE  (DiskType /\ Climbed /\ InPlace /\ OneWriter)'
<1>1. /\ DiskType' /\ disk'.pc = [disk.pc EXCEPT ![p] = "failed"]
      /\ disk'.level = disk.level /\ disk'.fd = disk.fd
      /\ disk'.node = disk.node /\ disk'.slash = disk.slash
      /\ disk'.written = disk.written /\ disk'.lost = disk.lost
      /\ disk'.created = disk.created
  BY GoesFields DEF Pcs
<1>2. Climbed'
  BY <1>1 DEF Climbed, DiskType, Disks
<1>3. InPlace'
  BY <1>1 DEF InPlace, Missing, Blocked, Target, DiskType, Disks
<1>4. OneWriter'
  BY <1>1 DEF OneWriter, DiskType, Disks
<1> QED
  BY <1>1, <1>2, <1>3, <1>4

\* stat() of the path, from which a process retreats, goes on or climbs.
LEMMA LookForFileStep ==
  ASSUME DiskType, Climbed, InPlace, OneWriter, NEW p \in Processes, LookForFile(p)
  PROVE  (DiskType /\ Climbed /\ InPlace /\ OneWriter)'
<1> USE DepthAssumption DEF File, Levels
<1>1. CASE disk' = Goes(p, "failed")
  BY <1>1, Retreats DEF LookForFile
<1>2. CASE ~Blocked(File) /\ ~Missing(Target) /\ disk' = Goes(p, "maps")
  <2>1. /\ DiskType' /\ disk'.pc = [disk.pc EXCEPT ![p] = "maps"]
        /\ disk'.level = disk.level /\ disk'.fd = disk.fd
        /\ disk'.node = disk.node /\ disk'.slash = disk.slash
        /\ disk'.written = disk.written /\ disk'.lost = disk.lost
        /\ disk'.created = disk.created
    BY <1>2, GoesFields DEF Pcs
  <2>2. Climbed'
    BY <2>1 DEF Climbed, DiskType, Disks
  <2>3. InPlace'
    BY <1>2, <2>1 DEF InPlace, Missing, Blocked, Target, DiskType, Disks
  <2>4. OneWriter'
    BY <2>1 DEF OneWriter, DiskType, Disks, LookForFile
  <2> QED
    BY <2>1, <2>2, <2>3, <2>4
<1>3. CASE disk' = Climb(p, 1)
  <2>1. /\ DiskType' /\ disk'.pc = [disk.pc EXCEPT ![p] = Looks(1)]
        /\ disk'.level = [disk.level EXCEPT ![p] = 1] /\ disk'.fd = disk.fd
        /\ disk'.node = disk.node /\ disk'.slash = disk.slash
        /\ disk'.written = disk.written /\ disk'.lost = disk.lost
        /\ disk'.created = disk.created
    BY <1>3, ClimbFields DEF DiskType
  <2>2. Climbed'
    BY <2>1 DEF Climbed, DiskType, Disks, Looks
  <2>3. InPlace'
    BY <2>1 DEF InPlace, Missing, Blocked, Target, DiskType, Disks, Looks
  <2>4. OneWriter'
    BY <2>1 DEF OneWriter, DiskType, Disks, LookForFile
  <2> QED
    BY <2>1, <2>2, <2>3, <2>4
<1> QED
  BY <1>1, <1>2, <1>3 DEF LookForFile

\* What path_create() has found at a level is there.
LEMMA LookAtDirectoryStep ==
  ASSUME DiskType, Climbed, InPlace, OneWriter, NEW p \in Processes, LookAtDirectory(p)
  PROVE  (DiskType /\ Climbed /\ InPlace /\ OneWriter)'
<1> USE DepthAssumption DEF File, Levels
<1> DEFINE k == disk.level[p]
<1>1. disk.pc[p] = "look" /\ k \in Nat /\ k <= Depth /\ k >= 1
  BY DEF LookAtDirectory, Climbed, DiskType, Disks
<1>2. CASE disk' = Goes(p, "failed")
  BY <1>1, <1>2, Retreats
<1>3. CASE disk' = Goes(p, "mkdir")
  <2>1. /\ DiskType' /\ disk'.pc = [disk.pc EXCEPT ![p] = "mkdir"]
        /\ disk'.level = disk.level /\ disk'.fd = disk.fd
        /\ disk'.node = disk.node /\ disk'.slash = disk.slash
        /\ disk'.written = disk.written /\ disk'.lost = disk.lost
        /\ disk'.created = disk.created
    BY <1>3, GoesFields DEF Pcs
  <2>2. Climbed'
    BY <1>1, <2>1 DEF Climbed, DiskType, Disks
  <2>3. InPlace'
    BY <2>1 DEF InPlace, Missing, Blocked, Target, DiskType, Disks
  <2>4. OneWriter'
    BY <1>1, <2>1 DEF OneWriter, DiskType, Disks
  <2> QED
    BY <2>1, <2>2, <2>3, <2>4
<1>4. CASE disk.node[k] = "dir" /\ disk' = Climb(p, k + 1)
  <2>1. /\ DiskType' /\ disk'.pc = [disk.pc EXCEPT ![p] = Looks(k + 1)]
        /\ disk'.level = [disk.level EXCEPT ![p] = k + 1] /\ disk'.fd = disk.fd
        /\ disk'.node = disk.node /\ disk'.slash = disk.slash
        /\ disk'.written = disk.written /\ disk'.lost = disk.lost
        /\ disk'.created = disk.created
    <3>1. k + 1 \in Levels
      BY <1>1
    <3> QED
      BY <1>4, <3>1, ClimbFields DEF DiskType
  <2>2. Climbed'
    <3>1. \A j \in 1..k : disk.node[j] # "none"
      BY <1>1, <1>4 DEF Climbed
    <3> HIDE DEF k
    <3> QED
      BY <1>1, <2>1, <3>1 DEF Climbed, DiskType, Disks, Looks
  <2>3. InPlace'
    BY <2>1 DEF InPlace, Missing, Blocked, Target, DiskType, Disks, Looks
  <2>4. OneWriter'
    BY <1>1, <2>1 DEF OneWriter, DiskType, Disks
  <2> QED
    BY <2>1, <2>2, <2>3, <2>4
<1> QED
  BY <1>2, <1>3, <1>4 DEF LookAtDirectory

\* A directory that is made hides no file.
LEMMA MakeDirectoryStep ==
  ASSUME DiskType, Climbed, InPlace, OneWriter, NEW p \in Processes, MakeDirectory(p)
  PROVE  (DiskType /\ Climbed /\ InPlace /\ OneWriter)'
<1> USE DepthAssumption DEF File, Levels
<1> DEFINE k == disk.level[p]
<1>1. disk.pc[p] = "mkdir" /\ k \in Nat /\ k <= Depth /\ k >= 1
  BY DEF MakeDirectory, Climbed, DiskType, Disks
<1>2. CASE disk' = Goes(p, "failed")
  BY <1>1, <1>2, Retreats
<1>3. CASE disk' = [Climb(p, k + 1) EXCEPT !.node[k] = IF @ = "none" THEN "dir" ELSE @]
  <2>1. /\ DiskType' /\ disk'.pc = [disk.pc EXCEPT ![p] = Looks(k + 1)]
        /\ disk'.level = [disk.level EXCEPT ![p] = k + 1] /\ disk'.fd = disk.fd
        /\ disk'.slash = disk.slash
        /\ disk'.written = disk.written /\ disk'.lost = disk.lost
        /\ disk'.created = disk.created
        /\ \A j \in Levels : disk'.node[j] = IF j = k /\ disk.node[k] = "none"
                                             THEN "dir" ELSE disk.node[j]
    BY <1>1, <1>3, k \in Levels, k + 1 \in Levels, MakeFields
  <2>2. Climbed'
    BY <1>1, <2>1 DEF Climbed, DiskType, Disks, Looks
  <2>3. InPlace'
    <3>1. \A q \in Processes : disk'.pc[q] \in {"text", "maps", "done"} =>
             disk.pc[q] \in {"text", "maps", "done"}
      BY <2>1 DEF DiskType, Disks, Looks
    <3>2. ~Missing(Target) => ~Missing(Target)'
      BY <1>1, <2>1 DEF Missing, Target, DiskType, Disks
    <3>3. ~Blocked(File) => ~Blocked(File)'
      BY <1>1, <2>1 DEF Blocked, DiskType, Disks
    <3> QED
      BY <3>1, <3>2, <3>3 DEF InPlace
  <2>4. OneWriter'
    <3>1. disk'.node[File] = disk.node[File]
      BY <1>1, <2>1
    <3> HIDE DEF k
    <3> QED
      BY <1>1, <2>1, <3>1 DEF OneWriter, DiskType, Disks
  <2> QED
    BY <2>1, <2>2, <2>3, <2>4
<1> QED
  BY <1>2, <1>3 DEF MakeDirectory

\* Only the open() that creates the file yields a descriptor.
LEMMA OpenFileStep ==
  ASSUME DiskType, Climbed, InPlace, OneWriter, NEW p \in Processes, OpenFile(p)
  PROVE  (DiskType /\ Climbed /\ InPlace /\ OneWriter)'
<1> USE DepthAssumption DEF File, Levels
<1>1. disk.pc[p] = "open" /\ disk.level[p] = File
  BY DEF OpenFile, Climbed
<1>2. CASE disk' = Goes(p, "failed")
  BY <1>1, <1>2, Retreats
<1>3. CASE /\ ~Blocked(File) /\ ~disk.slash /\ disk.node[File] = "file"
           /\ disk' = [disk EXCEPT !.pc[p] = "text", !.fd[p] = FALSE]
  <2>1. /\ DiskType' /\ disk'.pc = [disk.pc EXCEPT ![p] = "text"]
        /\ disk'.level = disk.level /\ disk'.fd = [disk.fd EXCEPT ![p] = FALSE]
        /\ disk'.node = disk.node /\ disk'.slash = disk.slash
        /\ disk'.written = disk.written /\ disk'.lost = disk.lost
        /\ disk'.created = disk.created
    BY <1>3 DEF DiskType, Disks, Pcs
  <2>2. Climbed'
    BY <2>1 DEF Climbed, DiskType, Disks
  <2>3. ~Missing(Target) /\ ~Blocked(File)
    BY <1>1, <1>3 DEF Climbed, Missing, Target, DiskType, Disks
  <2>4. InPlace'
    BY <2>1, <2>3 DEF InPlace, Missing, Blocked, Target, DiskType, Disks
  <2>5. OneWriter'
    BY <1>1, <2>1 DEF OneWriter, DiskType, Disks
  <2> QED
    BY <2>1, <2>2, <2>4, <2>5
<1>4. CASE /\ ~Blocked(File) /\ ~disk.slash /\ disk.node[File] = "none"
           /\ disk' = [disk EXCEPT !.pc[p] = "text", !.fd[p] = TRUE,
                                   !.node[File] = "file", !.created = TRUE]
  <2>1. /\ DiskType' /\ disk'.pc = [disk.pc EXCEPT ![p] = "text"]
        /\ disk'.level = disk.level /\ disk'.fd = [disk.fd EXCEPT ![p] = TRUE]
        /\ disk'.node = [disk.node EXCEPT ![File] = "file"] /\ disk'.slash = disk.slash
        /\ disk'.written = disk.written /\ disk'.lost = disk.lost
        /\ disk'.created = TRUE
    BY <1>4 DEF DiskType, Disks, Pcs
  <2>2. Climbed'
    BY <2>1 DEF Climbed, DiskType, Disks
  <2>3. ~Missing(Target)' /\ ~Blocked(File)'
    BY <1>1, <1>4, <2>1 DEF Climbed, Missing, Blocked, Target, DiskType, Disks
  <2>4. InPlace'
    BY <2>1, <2>3 DEF InPlace
  <2>5. ~disk.created /\ disk.written = 0 /\ \A q \in Processes : ~disk.fd[q]
    BY <1>4 DEF OneWriter
  <2>6. ~disk.lost
    BY <2>5 DEF OneWriter
  <2>7. OneWriter'
    BY <2>1, <2>5, <2>6 DEF OneWriter, DiskType, Disks
  <2> QED
    BY <2>1, <2>2, <2>4, <2>7
<1> QED
  BY <1>2, <1>3, <1>4 DEF OpenFile

\* The descriptor is used up with the text.
LEMMA TextInitStep ==
  ASSUME DiskType, Climbed, InPlace, OneWriter, NEW p \in Processes, TextInit(p)
  PROVE  (DiskType /\ Climbed /\ InPlace /\ OneWriter)'
<1> USE DepthAssumption DEF File, Levels
<1> DEFINE n == IF disk.fd[p] THEN disk.written + 1 ELSE disk.written
<1>1. /\ DiskType' /\ disk'.pc = [disk.pc EXCEPT ![p] = "maps"]
      /\ disk'.level = disk.level /\ disk'.fd = [disk.fd EXCEPT ![p] = FALSE]
      /\ disk'.node = disk.node /\ disk'.slash = disk.slash
      /\ disk'.written = n /\ disk'.lost = disk.lost
      /\ disk'.created = disk.created
  <2>1. disk' = [disk EXCEPT !.pc[p] = "maps", !.fd[p] = FALSE, !.written = n]
    BY DEF TextInit
  <2>2. n \in Nat
    BY DEF DiskType, Disks
  <2> HIDE DEF n
  <2> QED
    BY <2>1, <2>2 DEF DiskType, Disks, Pcs
<1>2. Climbed'
  BY <1>1 DEF Climbed, DiskType, Disks
<1>3. InPlace'
  BY <1>1 DEF InPlace, Missing, Blocked, Target, DiskType, Disks, TextInit
<1>4. OneWriter'
  BY <1>1 DEF OneWriter, DiskType, Disks
<1> QED
  BY <1>1, <1>2, <1>3, <1>4

\* A process that dies with the descriptor loses the text.
LEMMA CrashStep ==
  ASSUME DiskType, Climbed, InPlace, OneWriter, NEW p \in Processes, Crash(p)
  PROVE  (DiskType /\ Climbed /\ InPlace /\ OneWriter)'
<1> USE DepthAssumption DEF File, Levels
<1> DEFINE l == disk.lost \/ disk.fd[p]
<1>1. /\ DiskType' /\ disk'.pc = [disk.pc EXCEPT ![p] = "failed"]
      /\ disk'.level = disk.level /\ disk'.fd = [disk.fd EXCEPT ![p] = FALSE]
      /\ disk'.node = disk.node /\ disk'.slash = disk.slash
      /\ disk'.written = disk.written /\ disk'.lost = l
      /\ disk'.created = disk.created
  <2>1. disk' = [disk EXCEPT !.pc[p] = "failed", !.fd[p] = FALSE, !.lost = l]
    BY DEF Crash
  <2>2. l \in BOOLEAN
    BY DEF DiskType, Disks
  <2> HIDE DEF l
  <2> QED
    BY <2>1, <2>2 DEF DiskType, Disks, Pcs
<1>2. Climbed'
  BY <1>1 DEF Climbed, DiskType, Disks
<1>3. InPlace'
  BY <1>1 DEF InPlace, Missing, Blocked, Target, DiskType, Disks
<1>4. OneWriter'
  BY <1>1 DEF OneWriter, DiskType, Disks
<1> QED
  BY <1>1, <1>2, <1>3, <1>4

\* The maps do not touch the disk.
LEMMA InitMapsStep ==
  ASSUME DiskType, Climbed, InPlace, OneWriter, NEW p \in Processes, InitMaps(p)
  PROVE  (DiskType /\ Climbed /\ InPlace /\ OneWriter)'
<1> USE DepthAssumption DEF File, Levels
<1>1. CASE disk' = Goes(p, "failed")
  BY <1>1, Retreats DEF InitMaps
<1>2. CASE disk' = Goes(p, "done")
  <2>1. /\ DiskType' /\ disk'.pc = [disk.pc EXCEPT ![p] = "done"]
        /\ disk'.level = disk.level /\ disk'.fd = disk.fd
        /\ disk'.node = disk.node /\ disk'.slash = disk.slash
        /\ disk'.written = disk.written /\ disk'.lost = disk.lost
        /\ disk'.created = disk.created
    BY <1>2, GoesFields DEF Pcs
  <2>2. Climbed'
    BY <2>1 DEF Climbed, DiskType, Disks
  <2>3. InPlace'
    BY <2>1 DEF InPlace, Missing, Blocked, Target, DiskType, Disks, InitMaps
  <2>4. OneWriter'
    BY <2>1 DEF OneWriter, DiskType, Disks, InitMaps
  <2> QED
    BY <2>1, <2>2, <2>3, <2>4
<1> QED
  BY <1>1, <1>2 DEF InitMaps

\* Nor does another try.
LEMMA AgainStep ==
  ASSUME DiskType, Climbed, InPlace, OneWriter, NEW p \in Processes, Again(p)
  PROVE  (DiskType /\ Climbed /\ InPlace /\ OneWriter)'
<1> USE DepthAssumption DEF File, Levels
<1>1. /\ DiskType' /\ disk'.pc = [disk.pc EXCEPT ![p] = "idle"]
      /\ disk'.level = [disk.level EXCEPT ![p] = 1] /\ disk'.fd = disk.fd
      /\ disk'.node = disk.node /\ disk'.slash = disk.slash
      /\ disk'.written = disk.written /\ disk'.lost = disk.lost
      /\ disk'.created = disk.created
  <2>1. disk' = [disk EXCEPT !.pc[p] = "idle", !.level[p] = 1]
    BY DEF Again
  <2>2. 1 \in Levels /\ "idle" \in Pcs
    BY DEF Pcs
  <2>3. DiskType'
    BY <2>1, <2>2 DEF DiskType, Disks
  <2> QED
    BY <2>1, <2>3 DEF DiskType, Disks
<1>2. Climbed'
  BY <1>1 DEF Climbed, DiskType, Disks
<1>3. InPlace'
  BY <1>1 DEF InPlace, Missing, Blocked, Target, DiskType, Disks
<1>4. OneWriter'
  BY <1>1 DEF OneWriter, DiskType, Disks, Again
<1> QED
  BY <1>1, <1>2, <1>3, <1>4

\* Every step of the processes keeps the invariant.
LEMMA DiskStep == DiskInv /\ [DiskNext]_<<disk, returned, fault>> => DiskInv'
<1> SUFFICES ASSUME DiskInv, [DiskNext]_<<disk, returned, fault>>, disk' # None
             PROVE  (DiskType /\ Climbed /\ InPlace /\ OneWriter)'
  BY DEF DiskInv
<1>1. CASE UNCHANGED disk
  BY <1>1 DEF DiskInv, DiskType, Climbed, InPlace, OneWriter, Missing, Blocked, Target
<1>2. CASE Begin
  <2>1. PICK node \in Trees, slash \in BOOLEAN :
           disk' = [node |-> node, slash |-> slash, written |-> 0, lost |-> FALSE,
                    created |-> FALSE, pc |-> [p \in Processes |-> "idle"],
                    level |-> [p \in Processes |-> 1], fd |-> [p \in Processes |-> FALSE]]
    BY <1>2 DEF Begin
  <2>2. node \in [Levels -> {"none", "dir", "file"}] /\ 1 \in Levels
    BY DepthAssumption DEF Trees, Levels, File
  <2> QED
    BY <2>1, <2>2 DEF DiskType, Disks, Pcs, Climbed, InPlace, OneWriter
<1>3. CASE disk # None /\ Gone
  BY <1>3 DEF Gone
<1>4. ASSUME disk # None, NEW p \in Processes, ProcessStep(p)
      PROVE  (DiskType /\ Climbed /\ InPlace /\ OneWriter)'
  BY <1>4, LookForFileStep, LookAtDirectoryStep, MakeDirectoryStep, OpenFileStep,
     TextInitStep, InitMapsStep, CrashStep, AgainStep DEF DiskInv, ProcessStep
<1> QED
  BY <1>1, <1>2, <1>3, <1>4 DEF DiskNext

\* However many processes share the file, and wherever each of them dies: its
\* first text is written at most once, and who succeeds leaves with the file in
\* place (config_init(), path_create()).
THEOREM FirstTextOnce == DiskSpec => []DefaultsOnce
<1>1. disk = None /\ returned = None /\ Fine => DiskInv
  BY DEF DiskInv
<1>2. DiskInv => DefaultsOnce
  BY DEF DiskInv, DefaultsOnce, InPlace, OneWriter
<1> QED
  BY <1>1, <1>2, DiskStep, PTL DEF DiskSpec

-----------------------------------------------------------------------------
(* Options *)

OptionsSpec ==
    /\ opts = None /\ returned = None /\ Fine
    /\ [][OptionsNext]_<<opts, returned, fault>>

Parsers == [po : [ProgramOptions -> [argv : Nat, argc : Nat, passed : BOOLEAN]],
            parsing : BOOLEAN, line : Seq(Tokens \cup {Text, Dash}),
            token : Nat, i : Nat, flag : Nat]

\* The flag f of token t is behind the parser s.
Handled(s, t, f) ==
    /\ t \in DOMAIN s.line /\ s.line[t] \in Tokens /\ f \in DOMAIN s.line[t]
    /\ t < s.token \/ (t = s.token /\ f < s.flag)

OptionAt(s, t, f) == OptionOf[s.line[t][f]]

TextsOf(s, o) == {k \in 1..Len(s.line) : k - s.po[o].argv \in 0..s.po[o].argc - 1}

\* Where the parser stands: before a token, or inside of one, with texts only
\* between the token and i.
Standing(s) ==
    /\ s.token \in 1..Len(s.line) + 1 /\ s.flag >= 1
    /\ s.flag = 1 => s.i = s.token
    /\ s.flag # 1 =>
          /\ s.token <= Len(s.line) /\ s.line[s.token] \in Tokens
          /\ s.flag <= Len(s.line[s.token])
          /\ s.i \in s.token..Len(s.line)
          /\ \A k \in s.token + 1..s.i : s.line[k] = Text

\* The option o, whose flag is in token t, has as many texts as it takes; between
\* them and the token are texts only.
Provided(s, t, o) ==
    LET a == s.po[o].argv
        c == s.po[o].argc
    IN  /\ s.po[o].passed
        /\ IF Accepts[o] < 0 THEN c > 0 ELSE c = Accepts[o]
        /\ c > 0 => /\ a > t
                    /\ a + c <= IF t < s.token THEN s.token ELSE s.i + 1
                    /\ \A k \in t + 1..a + c - 1 : s.line[k] = Text

FlagsProvided(s) ==
    \A t, f : Handled(s, t, f) =>
        s.line[t][f] \in DOMAIN OptionOf /\ Provided(s, t, OptionAt(s, t, f))

FlagsOnce(s) ==
    \A t, f, u, g :
        Handled(s, t, f) /\ Handled(s, u, g) /\ OptionAt(s, t, f) = OptionAt(s, u, g)
            => t = u /\ f = g

InTurn(s) ==
    \A t, f, g : Handled(s, t, f) /\ Handled(s, t, g) /\ f < g =>
        \A k \in TextsOf(s, OptionAt(s, t, f)), l \in TextsOf(s, OptionAt(s, t, g)) : k < l

PassedByFlag(s) ==
    \A o \in ProgramOptions :
        s.po[o].passed => \E t, f : Handled(s, t, f) /\ OptionAt(s, t, f) = o

\* What is behind the parser and no token of flags is a text of some option.
TextsTaken(s) ==
    \A k \in 1..Len(s.line) :
        (k < s.token \/ (s.token < k /\ k <= s.i)) /\ s.line[k] \notin Tokens =>
            s.line[k] = Text /\ \E o \in ProgramOptions : s.po[o].passed /\ k \in TextsOf(s, o)

ParserSound(s) ==
    /\ Standing(s) /\ FlagsProvided(s) /\ FlagsOnce(s)
    /\ InTurn(s) /\ PassedByFlag(s) /\ TextsTaken(s)

OptionsInv ==
    opts # None => opts \in Parsers /\ (opts.parsing => ParserSound(opts))

\* A token has a flag.
LEMMA TokenFlags ==
  ASSUME NEW t \in Tokens
  PROVE  Len(t) \in Nat /\ Len(t) >= 1 /\ DOMAIN t = 1..Len(t)
<1> DEFINE S == {t[f] : f \in DOMAIN t}
<1>1. t # <<>> /\ t \in Seq(S)
  BY OptionsAssumption
<1> HIDE DEF S
<1> QED
  BY <1>1

\* What handle_argument() finds behind i are texts, and no more than are there.
LEMMA FoundTexts ==
  ASSUME opts \in Parsers, opts.i \in 1..Len(opts.line), NEW most \in Nat
  PROVE  /\ Found(most) \in Nat /\ Found(most) <= most
         /\ opts.i + Found(most) <= Len(opts.line)
         /\ \A k \in opts.i + 1..opts.i + Found(most) : opts.line[k] = Text
<1> DEFINE N == Len(opts.line)
           i == opts.i
           ends == {k \in i + 1..N : opts.line[k] # Text} \cup {N + 1}
<1>1. N \in Nat /\ i \in 1..N
  BY DEF Parsers
<1>2. ends \subseteq Nat /\ ends # {}
  BY <1>1
<1>3. PICK e \in ends : \A k \in ends : e <= k
  BY <1>2, LeastNumber
<1>4. e \in i + 1..N + 1
  BY <1>1
<1>5. Following(i) = i + 1..e - 1
  <2>1. ASSUME NEW j \in i + 1..N, \A k \in i + 1..j : opts.line[k] = Text PROVE j <= e - 1
    BY <1>1, <1>3, <1>4, <2>1
  <2>2. ASSUME NEW j \in i + 1..e - 1, NEW k \in i + 1..j PROVE opts.line[k] = Text
    BY <1>1, <1>3, <1>4
  <2> QED
    BY <1>1, <1>4, <2>1, <2>2 DEF Following
<1>6. Cardinality(Following(i)) = e - 1 - i
  <2>1. /\ i + 1 \in Int /\ e - 1 \in Int
        /\ i + 1 > e - 1 => e - 1 - i = 0
        /\ i + 1 <= e - 1 => e - 1 - (i + 1) + 1 = e - 1 - i
    BY <1>1, <1>4
  <2>2. Cardinality(i + 1..e - 1) = IF i + 1 > e - 1 THEN 0 ELSE e - 1 - (i + 1) + 1
    BY <2>1, FS_Interval
  <2> QED
    BY <1>5, <2>1, <2>2
<1>7. Found(most) \in Nat /\ Found(most) <= most /\ i + Found(most) <= e - 1
  BY <1>1, <1>4, <1>6 DEF Found
<1>8. \A k \in i + 1..i + Found(most) : k \in Following(i)
  BY <1>1, <1>4, <1>5, <1>7
<1> QED
  BY <1>1, <1>4, <1>7, <1>8 DEF Following

\* From s to u a flag of the option o has been handled, and n texts taken for it.
Served(s, u, o, n) ==
    /\ u \in Parsers /\ u.parsing /\ u.line = s.line
    /\ u.po = [s.po EXCEPT ![o] = [argv |-> IF n > 0 THEN s.i + 1 ELSE 0,
                                   argc |-> n, passed |-> TRUE]]
    /\ IF s.flag = Len(s.line[s.token])
       THEN u.i = s.i + n + 1 /\ u.token = s.i + n + 1 /\ u.flag = 1
       ELSE u.i = s.i + n /\ u.token = s.token /\ u.flag = s.flag + 1

\* What handle_argument() knows before: the flag was declared, its option not
\* passed yet, and n texts that suit it follow.
Serving(s, o, n) ==
    /\ s \in Parsers /\ s.token <= Len(s.line) /\ s.line[s.token] \in Tokens
    /\ s.line[s.token][s.flag] \in DOMAIN OptionOf
    /\ o \in ProgramOptions /\ o = OptionAt(s, s.token, s.flag) /\ ~s.po[o].passed
    /\ n \in Nat /\ s.i + n <= Len(s.line)
    /\ \A k \in s.i + 1..s.i + n : s.line[k] = Text
    /\ IF Accepts[o] < 0 THEN n > 0 ELSE n = Accepts[o]

\* The option gets its texts, and those of the others are left to them.
LEMMA ServedKeeps ==
  ASSUME NEW s, NEW o, NEW n, NEW u,
         ParserSound(s), Serving(s, o, n), Served(s, u, o, n)
  PROVE  ParserSound(u)
<1> DEFINE line == s.line
           N == Len(s.line)
           F == Len(s.line[s.token])
<1>marks. /\ Text \notin Tokens /\ Dash \notin Tokens
  BY OptionsAssumption
<1>1. /\ N \in Nat /\ s.token \in Nat /\ s.i \in Nat /\ s.flag \in Nat /\ DOMAIN line = 1..N
      /\ s.po \in [ProgramOptions -> [argv : Nat, argc : Nat, passed : BOOLEAN]]
      /\ u.po \in [ProgramOptions -> [argv : Nat, argc : Nat, passed : BOOLEAN]]
      /\ u.line = line /\ Text \notin Tokens /\ Dash \notin Tokens
      /\ \A k \in 1..N : line[k] \in Tokens \cup {Text, Dash}
  BY <1>marks DEF Parsers, Served, Serving
<1>flags. F \in Nat /\ F >= 1 /\ DOMAIN line[s.token] = 1..F
  BY TokenFlags DEF Serving
<1> n \in Nat /\ o \in ProgramOptions /\ s.i + n <= N /\ line[s.token] \in Tokens
  BY DEF Serving
<1>types. N \in Nat /\ s.i \in Nat /\ s.token \in Nat
  BY <1>1
<1>2. /\ F \in Nat /\ s.flag \in 1..F /\ DOMAIN line[s.token] = 1..F
      /\ s.token \in 1..N /\ s.i \in s.token..N
      /\ \A k \in s.token + 1..s.i : line[k] = Text
  BY <1>1, <1>flags DEF Standing, ParserSound, Serving
<1>3. \A k \in s.token + 1..s.i + n : line[k] = Text
  BY <1>1, <1>2 DEF Serving
<1>4. /\ \A q \in ProgramOptions : q # o => u.po[q] = s.po[q]
      /\ u.po[o].passed /\ u.po[o].argc = n
      /\ n > 0 => u.po[o].argv = s.i + 1
  BY <1>1 DEF Served
<1>5. /\ s.token <= u.token /\ s.i <= u.i /\ u.i \in Nat /\ u.token \in Nat /\ u.flag \in Nat
      /\ s.flag = F => u.i = s.i + n + 1 /\ u.token = s.i + n + 1 /\ u.flag = 1
      /\ s.flag # F => u.i = s.i + n /\ u.token = s.token /\ u.flag = s.flag + 1
  BY <1>1, <1>2 DEF Served, Parsers
<1>6. Standing(u)
  <2>1. CASE s.flag = F
    BY <1>1, <1>2, <1>5, <2>1 DEF Standing
  <2>2. CASE s.flag # F
    <3>1. u.token = s.token /\ u.i = s.i + n /\ u.flag = s.flag + 1
      BY <1>5, <2>2
    <3>2. u.flag <= F /\ u.flag # 1 /\ u.flag >= 1
      BY <1>2, <2>2, <3>1
    <3>3. u.i \in u.token..N /\ u.token \in 1..N + 1 /\ u.token <= N
      BY <1>1, <1>2, <3>1
    <3> QED
      BY <1>1, <1>3, <3>1, <3>2, <3>3 DEF Standing
  <2> QED
    BY <2>1, <2>2
<1>7. /\ \A q \in ProgramOptions : q # o => TextsOf(u, q) = TextsOf(s, q)
      /\ TextsOf(u, o) = s.i + 1..s.i + n
  <2>1. ASSUME NEW q \in ProgramOptions, q # o PROVE TextsOf(u, q) = TextsOf(s, q)
    BY <1>1, <1>4, <2>1 DEF TextsOf
  <2>2. CASE n = 0
    BY <1>1, <1>2, <1>4, <2>2 DEF TextsOf
  <2>3. CASE n > 0
    <3>1. u.po[o].argv = s.i + 1 /\ u.po[o].argc = n
      BY <1>4, <2>3
    <3>2. \A k \in 1..N : k - (s.i + 1) \in 0..n - 1 <=> k \in s.i + 1..s.i + n
      BY <1>1, <1>2
    <3>3. s.i + 1..s.i + n \subseteq 1..N
      BY <1>1, <1>2
    <3>4. TextsOf(u, o) = {k \in 1..N : k - (s.i + 1) \in 0..n - 1}
      BY <1>1, <3>1 DEF TextsOf
    <3>5. \A k \in s.i + 1..s.i + n : k \in 1..N
      BY <3>3
    <3> QED
      <4>1. ASSUME NEW k \in TextsOf(u, o) PROVE k \in s.i + 1..s.i + n
        BY <3>2, <3>4
      <4>2. ASSUME NEW k \in s.i + 1..s.i + n PROVE k \in TextsOf(u, o)
        BY <3>2, <3>4, <3>5
      <4> QED
        BY <2>1, <4>1, <4>2
  <2> QED
    BY <2>1, <2>2, <2>3
<1>8. \A t, f : Handled(u, t, f) <=> Handled(s, t, f) \/ (t = s.token /\ f = s.flag)
  <2> SUFFICES ASSUME NEW t \in 1..N, line[t] \in Tokens, NEW f \in DOMAIN line[t]
               PROVE  (t < u.token \/ (t = u.token /\ f < u.flag)) <=>
                        \/ t < s.token \/ (t = s.token /\ f < s.flag)
                        \/ t = s.token /\ f = s.flag
    BY <1>1, <1>2 DEF Handled
  <2>1. f \in Nat /\ f >= 1 /\ (t = s.token => f <= F)
    BY TokenFlags
  <2>2. t \notin s.token + 1..s.i + n
    BY <1>1, <1>3
  <2>3. CASE s.flag = F
    <3>1. t < s.token \/ t = s.token \/ t > s.i + n
      BY <1>types, <2>2
    <3>2. u.token = s.i + n + 1 /\ u.flag = 1 /\ s.token <= s.i
      BY <1>2, <1>5, <2>3
    <3> QED
      BY <1>types, <2>1, <2>3, <3>1, <3>2
  <2>4. CASE s.flag # F
    BY <1>1, <1>2, <1>5, <2>1, <2>2, <2>4
  <2> QED
    BY <2>3, <2>4
<1>10. ASSUME NEW t, NEW f, Handled(s, t, f)
       PROVE  /\ OptionAt(s, t, f) \in ProgramOptions /\ OptionAt(s, t, f) # o
              /\ s.po[OptionAt(s, t, f)].passed /\ Provided(s, t, OptionAt(s, t, f))
              /\ t \in 1..s.token
  <2> DEFINE q == OptionAt(s, t, f)
  <2>1. line[t][f] \in DOMAIN OptionOf /\ Provided(s, t, q) /\ ~s.po[o].passed
    BY <1>10 DEF FlagsProvided, ParserSound, Serving
  <2>2. q \in ProgramOptions
    BY <2>1, OptionsAssumption DEF OptionAt, ProgramOptions
  <2>3. s.po[q].passed
    BY <2>1 DEF Provided
  <2>4. t \in 1..N /\ t <= s.token
    BY <1>1, <1>10 DEF Handled
  <2> QED
    BY <1>1, <2>1, <2>2, <2>3, <2>4
<1>11. \A t, f : OptionAt(u, t, f) = OptionAt(s, t, f)
  BY <1>1 DEF OptionAt
<1>12. ASSUME NEW t \in 1..s.token, NEW q \in ProgramOptions, q # o, Provided(s, t, q)
       PROVE  Provided(u, t, q)
  <2> DEFINE a == s.po[q].argv
             c == s.po[q].argc
  <2>1. u.po[q] = s.po[q] /\ a \in Nat /\ c \in Nat
    BY <1>1, <1>4, <1>12
  <2>2. ASSUME c > 0 PROVE a + c <= IF t < u.token THEN u.token ELSE u.i + 1
    <3>1. a + c <= IF t < s.token THEN s.token ELSE s.i + 1
      BY <1>12, <2>2 DEF Provided
    <3> HIDE DEF a, c
    <3>2. CASE t < s.token
      BY <1>1, <1>5, <2>1, <3>1, <3>2
    <3>3. CASE t = s.token
      <4>1. a + c <= s.i + 1
        BY <1>1, <3>1, <3>3
      <4> QED
        <5>1. CASE s.flag = F
          BY <1>types, <1>2, <1>5, <2>1, <3>3, <4>1, <5>1
        <5>2. CASE s.flag # F
          BY <1>types, <1>5, <2>1, <3>3, <4>1, <5>2
        <5> QED
          BY <5>1, <5>2
    <3> QED
      BY <1>1, <3>2, <3>3
  <2> QED
    BY <1>1, <1>12, <2>1, <2>2 DEF Provided
<1>13. Provided(u, s.token, o)
  <2>1. u.po[o].argc = n /\ u.po[o].passed
    BY <1>4
  <2>2. ASSUME n > 0
        PROVE  /\ u.po[o].argv = s.i + 1 /\ s.i + 1 > s.token
               /\ s.i + 1 + n <= IF s.token < u.token THEN u.token ELSE u.i + 1
               /\ \A k \in s.token + 1..s.i + 1 + n - 1 : line[k] = Text
    <3>1. u.po[o].argv = s.i + 1 /\ s.i + 1 > s.token
      BY <1>1, <1>2, <1>4, <2>2
    <3>2. s.i + 1 + n <= IF s.token < u.token THEN u.token ELSE u.i + 1
      <4>1. CASE s.flag = F
        BY <1>1, <1>2, <1>5, <4>1
      <4>2. CASE s.flag # F
        BY <1>1, <1>2, <1>5, <4>2
      <4> QED
        BY <4>1, <4>2
    <3>3. s.i + 1 + n - 1 = s.i + n
      BY <1>types
    <3> QED
      BY <1>3, <3>1, <3>2, <3>3
  <2>3. IF Accepts[o] < 0 THEN n > 0 ELSE n = Accepts[o]
    BY DEF Serving
  <2> QED
    BY <1>1, <2>1, <2>2, <2>3 DEF Provided
<1>14. FlagsProvided(u)
  <2> SUFFICES ASSUME NEW t, NEW f, Handled(u, t, f)
               PROVE  line[t][f] \in DOMAIN OptionOf /\ Provided(u, t, OptionAt(s, t, f))
    BY <1>1, <1>11 DEF FlagsProvided
  <2>1. CASE Handled(s, t, f)
    BY <1>10, <1>12, <2>1 DEF FlagsProvided, ParserSound
  <2>2. CASE t = s.token /\ f = s.flag
    BY <1>13, <2>2 DEF Serving
  <2> QED
    BY <1>8, <2>1, <2>2
<1>15. FlagsOnce(u)
  BY <1>8, <1>10, <1>11 DEF FlagsOnce, ParserSound, Serving
<1>16. InTurn(u)
  <2> SUFFICES ASSUME NEW t, NEW f, NEW g, Handled(u, t, f), Handled(u, t, g), f < g,
                      NEW k \in TextsOf(u, OptionAt(s, t, f)),
                      NEW l \in TextsOf(u, OptionAt(s, t, g))
               PROVE  k < l
    BY <1>11 DEF InTurn
  <2>1. CASE Handled(s, t, f) /\ Handled(s, t, g)
    BY <1>7, <1>10, <2>1 DEF InTurn, ParserSound
  <2>2. CASE Handled(s, t, f) /\ t = s.token /\ g = s.flag
    <3> DEFINE q == OptionAt(s, t, f)
    <3>1. k \in TextsOf(s, q) /\ Provided(s, t, q) /\ q \in ProgramOptions
      BY <1>7, <1>10, <2>2
    <3> DEFINE a == s.po[q].argv
               c == s.po[q].argc
    <3>2. a \in Nat /\ c \in Nat
      BY <1>1, <3>1
    <3>3. k \in 1..N /\ k - a \in 0..c - 1
      BY <3>1 DEF TextsOf
    <3>4. c > 0 => a + c <= s.i + 1
      BY <1>1, <3>1, <2>2 DEF Provided
    <3>5. l \in s.i + 1..s.i + n
      BY <1>7, <2>2 DEF Serving
    <3> HIDE DEF a, c, q
    <3>6. k < a + c /\ c > 0 /\ k \in Nat
      BY <1>types, <3>2, <3>3
    <3>7. k <= s.i
      BY <1>types, <3>2, <3>4, <3>6
    <3> QED
      BY <1>types, <3>5, <3>6, <3>7
  <2>3. CASE t = s.token /\ f = s.flag
    <3>1. g = s.flag \/ Handled(s, t, g)
      BY <1>8
    <3>2. g \in Nat /\ (Handled(s, t, g) => g < s.flag)
      BY <1>1, <1>2, <2>3 DEF Handled
    <3> QED
      BY <1>1, <2>3, <3>1, <3>2
  <2> QED
    BY <1>8, <2>1, <2>2, <2>3
<1>17. PassedByFlag(u)
  <2> SUFFICES ASSUME NEW q \in ProgramOptions, u.po[q].passed
               PROVE  \E t, f : Handled(u, t, f) /\ OptionAt(s, t, f) = q
    BY <1>11 DEF PassedByFlag
  <2>1. CASE q = o
    BY <1>8, <2>1 DEF Serving
  <2>2. CASE q # o
    BY <1>4, <1>8, <2>2 DEF PassedByFlag, ParserSound
  <2> QED
    BY <2>1, <2>2
<1>18. TextsTaken(u)
  <2> SUFFICES ASSUME NEW k \in 1..N, k < u.token \/ (u.token < k /\ k <= u.i), line[k] \notin Tokens
               PROVE  /\ line[k] = Text
                      /\ \E q \in ProgramOptions : u.po[q].passed /\ k \in TextsOf(u, q)
    BY <1>1 DEF TextsTaken
  <2>1. k # s.token
    BY <1>2
  <2>2. k < s.token \/ (s.token < k /\ k <= s.i) \/ k \in s.i + 1..s.i + n
    BY <1>1, <1>2, <1>5, <2>1
  <2>3. CASE k \in s.i + 1..s.i + n
    BY <1>3, <1>1, <1>2, <1>4, <1>7, <2>3
  <2>4. CASE k < s.token \/ (s.token < k /\ k <= s.i)
    <3>1. PICK q \in ProgramOptions : line[k] = Text /\ s.po[q].passed /\ k \in TextsOf(s, q)
      BY <1>1, <2>2, <2>4 DEF TextsTaken, ParserSound
    <3> QED
      BY <1>4, <1>7, <3>1 DEF Serving
  <2> QED
    BY <2>2, <2>3, <2>4
<1> QED
  BY <1>6, <1>14, <1>15, <1>16, <1>17, <1>18 DEF ParserSound

\* Before the first token nothing is handled and no option passed.
LEMMA InitParser ==
  ASSUME NEW s \in Parsers, s.token = 1, s.i = 1, s.flag = 1,
         \A o \in ProgramOptions : ~s.po[o].passed
  PROVE  ParserSound(s)
<1>1. Len(s.line) \in Nat /\ DOMAIN s.line = 1..Len(s.line)
  BY DEF Parsers
<1>2. \A t, f : ~Handled(s, t, f)
  <2> SUFFICES ASSUME NEW t, NEW f, Handled(s, t, f) PROVE FALSE
    OBVIOUS
  <2>1. t \in 1..Len(s.line) /\ s.line[t] \in Tokens /\ f \in DOMAIN s.line[t]
    BY <1>1 DEF Handled
  <2>2. f \in Nat /\ f >= 1
    BY <2>1, TokenFlags
  <2> QED
    BY <1>1, <2>1, <2>2 DEF Handled
<1> QED
  BY <1>1, <1>2 DEF ParserSound, Standing, FlagsProvided, FlagsOnce, InTurn, PassedByFlag, TextsTaken

\* A parser that has ended is one.
LEMMA EndedParser ==
  ASSUME NEW po \in [ProgramOptions -> [argv : Nat, argc : Nat, passed : BOOLEAN]]
  PROVE  Ended(po) \in Parsers /\ ~Ended(po).parsing /\ Ended(po).po = po
<1>1. <<>> \in Seq(Tokens \cup {Text, Dash})
  OBVIOUS
<1> QED
  BY <1>1 DEF Ended, Parsers

\* A command line is a sequence.
LEMMA CommandLineIs ==
  ASSUME NEW max \in Nat, NEW line \in CommandLines(max)
  PROVE  line \in Seq(Tokens \cup {Text, Dash})
<1>1. PICK n \in 0..max : line \in [1..n -> Tokens \cup {Text, Dash}]
  BY DEF CommandLines
<1> QED
  BY <1>1

\* A flag that is handled keeps the invariant, whatever comes of it.
LEMMA HandleStep ==
  ASSUME OptionsInv, opts # None, opts.parsing, opts.token <= Len(opts.line),
         opts.line[opts.token] \in Tokens,
         NEW flag, flag = opts.line[opts.token][opts.flag], HandleArgument(flag)
  PROVE  OptionsInv'
<1> DEFINE o == OptionOf[flag]
           n == Found(IF Accepts[o] < 0 THEN Len(opts.line) ELSE Accepts[o])
           Slots == [argv : Nat, argc : Nat, passed : BOOLEAN]
<1>1. /\ opts \in Parsers /\ opts.po \in [ProgramOptions -> Slots]
      /\ ParserSound(opts)
  BY DEF OptionsInv, Parsers
<1>2. CASE opts' = Ended(opts.po)
  BY <1>1, <1>2, EndedParser DEF OptionsInv
<1>3. CASE flag \in DOMAIN OptionOf /\ ~opts.po[o].passed
  <2>1. o \in ProgramOptions /\ Accepts[o] \in Int
    BY <1>3, OptionsAssumption DEF ProgramOptions
  <2>2. Len(opts.line) \in Nat /\ opts.i \in 1..Len(opts.line)
    BY <1>1 DEF Parsers, Standing, ParserSound
  <2> DEFINE most == IF Accepts[o] < 0 THEN Len(opts.line) ELSE Accepts[o]
  <2>3. most \in Nat
    BY <2>1, <2>2
  <2>4. /\ n \in Nat /\ opts.i + n <= Len(opts.line)
        /\ \A k \in opts.i + 1..opts.i + n : opts.line[k] = Text
    BY <1>1, <2>2, <2>3, FoundTexts
  <2> HIDE DEF n, most
  <2>5. CASE /\ n = Accepts[o] \/ (Accepts[o] < 0 /\ n > 0)
             /\ opts' = Behind(Passed(o, n), n)
    <3>1. Served(opts, opts', o, n)
      <4> DEFINE slot == [argv |-> IF n > 0 THEN opts.i + 1 ELSE 0, argc |-> n, passed |-> TRUE]
      <4>1. Passed(o, n) = [opts.po EXCEPT ![o] = slot]
        BY DEF Passed
      <4>2. slot \in Slots
        BY <2>2, <2>4
      <4> HIDE DEF slot
      <4>3. Passed(o, n) \in [ProgramOptions -> Slots]
        BY <1>1, <4>1, <4>2
      <4>4. /\ opts'.po = Passed(o, n) /\ opts'.line = opts.line /\ opts'.parsing
            /\ IF opts.flag = Len(opts.line[opts.token])
               THEN opts'.i = opts.i + n + 1 /\ opts'.token = opts.i + n + 1 /\ opts'.flag = 1
               ELSE opts'.i = opts.i + n /\ opts'.token = opts.token /\ opts'.flag = opts.flag + 1
        BY <1>1, <2>5, <2>2, <2>4 DEF Behind, Parsers
      <4>5. opts' \in Parsers
        <5>1. opts'.token \in Nat /\ opts'.i \in Nat /\ opts'.flag \in Nat
          BY <1>1, <2>2, <2>4, <4>4 DEF Parsers
        <5>2. opts' = [opts EXCEPT !.po = opts'.po, !.i = opts'.i, !.token = opts'.token,
                                   !.flag = opts'.flag]
          BY <1>1, <2>5, <4>4 DEF Behind, Parsers
        <5> QED
          BY <1>1, <4>3, <4>4, <5>1, <5>2 DEF Parsers
      <4> QED
        BY <4>1, <4>4, <4>5 DEF Served, slot
    <3>2. IF Accepts[o] < 0 THEN n > 0 ELSE n = Accepts[o]
      BY <2>1, <2>4, <2>5
    <3>3. o = OptionAt(opts, opts.token, opts.flag)
      BY DEF OptionAt
    <3>4. Serving(opts, o, n)
      BY <1>1, <1>3, <2>1, <2>4, <3>2, <3>3 DEF Serving
    <3>5. ParserSound(opts')
      BY <1>1, <3>1, <3>4, ServedKeeps
    <3> QED
      BY <3>1, <3>5 DEF OptionsInv, Served
  <2>6. CASE opts' = Ended([opts.po EXCEPT ![o].passed = TRUE, ![o].argc = n])
    <3>1. [opts.po EXCEPT ![o].passed = TRUE, ![o].argc = n] \in [ProgramOptions -> Slots]
      BY <1>1, <2>1, <2>4
    <3> QED
      BY <2>6, <3>1, EndedParser DEF OptionsInv
  <2> QED
    BY <1>3, <2>5, <2>6 DEF HandleArgument, n
<1> QED
  BY <1>2, <1>3 DEF HandleArgument

\* Every step of the parser and of its caller keeps the invariant.
LEMMA OptionsKept ==
  OptionsInv /\ [OptionsNext]_<<opts, returned, fault>> => OptionsInv'
<1> DEFINE Slots == [argv : Nat, argc : Nat, passed : BOOLEAN]
<1> SUFFICES ASSUME OptionsInv, [OptionsNext]_<<opts, returned, fault>>, opts' # None
             PROVE  OptionsInv'
  BY DEF OptionsInv
<1>1. CASE UNCHANGED opts
  BY <1>1 DEF OptionsInv
<1>2. CASE OptionsInit
  <2>1. Untouched \in [ProgramOptions -> Slots]
    BY DEF Untouched
  <2> QED
    BY <1>2, <2>1, EndedParser DEF OptionsInit, OptionsInv
<1>3. CASE opts # None /\ \E line \in CommandLines(IF opts.po = Untouched THEN MaxArgs ELSE MaxAgain) :
                             OptionsParse(line)
  <2>1. PICK line \in CommandLines(IF opts.po = Untouched THEN MaxArgs ELSE MaxAgain) :
               OptionsParse(line)
    BY <1>3
  <2>2. line \in Seq(Tokens \cup {Text, Dash})
    BY CommandLineIs, OptionsAssumption
  <2> DEFINE po == Unpassed(opts.po, OptionCount)
  <2>3. opts.po \in [ProgramOptions -> Slots]
    BY <1>3 DEF OptionsInv, Parsers
  <2>4. po \in [ProgramOptions -> Slots] /\ \A o \in ProgramOptions : ~po[o].passed
    <3>1. ASSUME NEW o \in ProgramOptions PROVE po[o] = [opts.po[o] EXCEPT !.passed = FALSE]
      BY OptionsAssumption DEF Unpassed, ProgramOptions
    <3>2. ASSUME NEW o \in ProgramOptions PROVE po[o] \in Slots /\ ~po[o].passed
      BY <2>3, <3>1
    <3>3. po = [o \in ProgramOptions |-> po[o]]
      BY DEF Unpassed
    <3> HIDE DEF po
    <3> QED
      BY <3>2, <3>3
  <2> HIDE DEF po
  <2>5. opts' = [Ended(po) EXCEPT !.parsing = TRUE, !.line = line]
    BY <2>1 DEF OptionsParse, po
  <2>6. /\ opts' \in Parsers /\ opts'.token = 1 /\ opts'.i = 1 /\ opts'.flag = 1
        /\ opts'.po = po
    BY <2>2, <2>4, <2>5 DEF Ended, Parsers
  <2> QED
    BY <2>4, <2>6, InitParser DEF OptionsInv
<1>4. CASE opts # None /\ \E n \in 0..OptionCount : OptionsParseFails(n)
  <2>1. PICK n \in 0..OptionCount : OptionsParseFails(n)
    BY <1>4
  <2>2. opts.po \in [ProgramOptions -> Slots]
    BY <1>4 DEF OptionsInv, Parsers
  <2>3. ASSUME NEW o \in ProgramOptions
        PROVE  (IF o <= n THEN [opts.po[o] EXCEPT !.passed = FALSE] ELSE opts.po[o]) \in Slots
    BY <2>2
  <2>4. Unpassed(opts.po, n) \in [ProgramOptions -> Slots]
    BY <2>3 DEF Unpassed
  <2> QED
    BY <2>1, <2>4, EndedParser DEF OptionsParseFails, OptionsInv
<1>5. CASE opts # None /\ ParseToken
  <2>1. /\ opts.parsing /\ opts.token <= Len(opts.line) /\ opts.token \in 1..Len(opts.line)
        /\ opts.line \in Seq(Tokens \cup {Text, Dash})
        /\ opts.po \in [ProgramOptions -> Slots]
    BY <1>5 DEF OptionsInv, Parsers, ParseToken, Standing, ParserSound
  <2>2. opts.line[opts.token] \in Tokens \cup {Text, Dash}
    BY <2>1
  <2>3. CASE opts' = Ended(opts.po)
    BY <2>1, <2>3, EndedParser DEF OptionsInv
  <2>4. CASE opts.line[opts.token] \in Tokens /\ HandleArgument(opts.line[opts.token][opts.flag])
    BY <1>5, <2>1, <2>4, HandleStep
  <2> QED
    BY <1>5, <2>2, <2>3, <2>4 DEF ParseToken
<1>6. CASE opts # None /\ OptionsParsed
  BY <1>6, EndedParser DEF OptionsParsed, OptionsInv, Parsers
<1>7. CASE OptionsDestroy
  BY <1>7 DEF OptionsDestroy
<1> QED
  BY <1>1, <1>2, <1>3, <1>4, <1>5, <1>6, <1>7 DEF OptionsNext

\* A parser that has got to the end of the line has given each text to the option
\* it belongs to.
LEMMA SoundAgrees ==
  ASSUME opts \in Parsers, ParserSound(opts), opts.token > Len(opts.line)
  PROVE  OptionsAgree
<1> DEFINE line == opts.line
           po == opts.po
           N == Len(opts.line)
           flagged == {t \in DOMAIN line : line[t] \notin {Text, Dash}}
           before(k) == CHOOSE t \in flagged : t < k /\ \A u \in t + 1..k : u \notin flagged
           texts(o) == {k \in 1..Len(line) : k - po[o].argv \in 0..po[o].argc - 1}
           flags == UNION {{t} \X DOMAIN line[t] : t \in flagged}
           at(o) == {x \in flags : OptionOf[line[x[1]][x[2]]] = o}
           passed == {o \in ProgramOptions : po[o].passed}
<1>1. /\ N \in Nat /\ DOMAIN line = 1..N /\ opts.token = N + 1 /\ opts.i = N + 1
      /\ \A k \in 1..N : line[k] \in Tokens \cup {Text, Dash}
      /\ \A o \in ProgramOptions : po[o].argv \in Nat /\ po[o].argc \in Nat
  BY DEF Parsers, ParserSound, Standing
<1>2. Text \notin Tokens /\ Dash \notin Tokens
  BY OptionsAssumption
<1>3. flagged = {t \in 1..N : line[t] \in Tokens}
  BY <1>1, <1>2
<1>4. \A t, f : Handled(opts, t, f) <=> t \in flagged /\ f \in DOMAIN line[t]
  BY <1>1, <1>3 DEF Handled
<1>5. \A t, f : <<t, f>> \in flags <=> Handled(opts, t, f)
  BY <1>4
<1>6. \A x \in flags : x = <<x[1], x[2]>> /\ Handled(opts, x[1], x[2])
  BY <1>4
<1>7. \A o, t, f : <<t, f>> \in at(o) <=> Handled(opts, t, f) /\ OptionAt(opts, t, f) = o
  BY <1>5 DEF OptionAt
<1>8. \A o : \A x \in at(o) : /\ x = <<x[1], x[2]>> /\ Handled(opts, x[1], x[2])
                             /\ OptionAt(opts, x[1], x[2]) = o
  BY <1>6 DEF OptionAt
<1>9. \A o : texts(o) = TextsOf(opts, o)
  BY DEF TextsOf
<1>10. \A t, f : Handled(opts, t, f) =>
          /\ OptionAt(opts, t, f) \in passed
          /\ Provided(opts, t, OptionAt(opts, t, f))
  <2> SUFFICES ASSUME NEW t, NEW f, Handled(opts, t, f)
               PROVE  /\ OptionAt(opts, t, f) \in passed
                      /\ Provided(opts, t, OptionAt(opts, t, f))
    OBVIOUS
  <2>1. line[t][f] \in DOMAIN OptionOf /\ Provided(opts, t, OptionAt(opts, t, f))
    BY DEF ParserSound, FlagsProvided
  <2>2. OptionAt(opts, t, f) \in ProgramOptions
    BY <2>1, OptionsAssumption DEF OptionAt, ProgramOptions
  <2> QED
    BY <2>1, <2>2 DEF Provided
<1>11. ASSUME NEW o \in passed
       PROVE  \E t, f : Handled(opts, t, f) /\ OptionAt(opts, t, f) = o
  BY DEF ParserSound, PassedByFlag
<1>12. ASSUME NEW o \in passed, NEW t, NEW f, Handled(opts, t, f), OptionAt(opts, t, f) = o
       PROVE  /\ IF Accepts[o] < 0 THEN texts(o) # {} ELSE Cardinality(texts(o)) = Accepts[o]
              /\ \A k \in texts(o) : /\ k \in 1..N /\ t < k /\ line[k] = Text
                                     /\ \A u \in t + 1..k : line[u] = Text
  <2> DEFINE a == po[o].argv
             c == po[o].argc
  <2>1. Provided(opts, t, o) /\ t \in 1..N
    BY <1>1, <1>4, <1>10, <1>12
  <2>2. a \in Nat /\ c \in Nat /\ Accepts[o] \in Int
    BY <1>1, OptionsAssumption DEF ProgramOptions
  <2>3. /\ IF Accepts[o] < 0 THEN c > 0 ELSE c = Accepts[o]
        /\ c > 0 => a > t /\ a + c <= N + 1 /\ \A k \in t + 1..a + c - 1 : line[k] = Text
    BY <1>1, <2>1 DEF Provided
  <2> HIDE DEF a, c
  <2>4. texts(o) = {k \in 1..N : k - a \in 0..c - 1}
    BY DEF a, c
  <2> HIDE DEF texts
  <2>5. CASE c = 0
    <3>1. texts(o) = {}
      BY <2>2, <2>4, <2>5
    <3> QED
      BY <2>2, <2>3, <2>5, <3>1, FS_EmptySet
  <2>6. CASE c > 0
    <3>1. texts(o) = a..a + c - 1
      <4> SUFFICES ASSUME NEW k PROVE k \in texts(o) <=> k \in a..a + c - 1
        OBVIOUS
      <4>1. k \in texts(o) <=> k \in 1..N /\ k - a \in 0..c - 1
        BY <2>4
      <4>2. a > t /\ a + c <= N + 1
        BY <2>3, <2>6
      <4> QED
        BY <1>1, <2>1, <2>2, <2>6, <4>1, <4>2
    <3>2. Cardinality(texts(o)) = c /\ a \in texts(o)
      <4> DEFINE e == a + c - 1
      <4>1. a \in Int /\ e \in Int /\ ~(a > e) /\ e - a + 1 = c /\ a \in a..e
        BY <2>2, <2>6
      <4> HIDE DEF e
      <4>2. Cardinality(a..e) = IF a > e THEN 0 ELSE e - a + 1
        BY <4>1, FS_Interval
      <4> QED
        BY <3>1, <4>1, <4>2 DEF e
    <3>3. ASSUME NEW k \in texts(o)
          PROVE  k \in 1..N /\ t < k /\ \A u \in t + 1..k : line[u] = Text
      BY <1>1, <2>1, <2>2, <2>3, <2>6, <3>1
    <3>4. ASSUME NEW k \in texts(o) PROVE k \in t + 1..k
      BY <1>1, <2>1, <3>3
    <3> QED
      BY <2>2, <2>3, <3>2, <3>3, <3>4
  <2> QED
    BY <2>2, <2>5, <2>6
<1>13. passed = {o \in ProgramOptions : at(o) # {}}
  <2>1. ASSUME NEW o \in passed PROVE at(o) # {}
    <3>1. PICK t, f : Handled(opts, t, f) /\ OptionAt(opts, t, f) = o
      BY <1>11
    <3>2. <<t, f>> \in at(o)
      BY <1>7, <3>1
    <3> QED
      BY <3>2
  <2>2. ASSUME NEW o \in ProgramOptions, at(o) # {} PROVE o \in passed
    <3>1. PICK x \in at(o) : TRUE
      BY <2>2
    <3> QED
      BY <1>8, <1>10, <3>1
  <2> QED
    BY <2>1, <2>2
<1>14. ASSUME NEW o \in passed
       PROVE  /\ Cardinality(at(o)) = 1
              /\ IF Accepts[o] < 0 THEN texts(o) # {} ELSE Cardinality(texts(o)) = Accepts[o]
  <2>1. PICK t, f : Handled(opts, t, f) /\ OptionAt(opts, t, f) = o
    BY <1>11
  <2>2. \A x \in at(o) : x = <<t, f>>
    BY <1>8, <2>1 DEF ParserSound, FlagsOnce
  <2>3. at(o) = {<<t, f>>}
    BY <1>7, <2>1, <2>2
  <2> QED
    BY <1>12, <2>1, <2>3, FS_Singleton
<1>15. DOMAIN line \ flagged = UNION {texts(o) : o \in passed}
  <2>1. ASSUME NEW k \in DOMAIN line \ flagged PROVE \E o \in passed : k \in texts(o)
    <3>1. k \in 1..N /\ k < opts.token /\ line[k] \notin Tokens
      BY <1>1, <1>3
    <3> QED
      BY <1>9, <3>1 DEF ParserSound, TextsTaken
  <2>2. ASSUME NEW o \in passed, NEW k \in texts(o) PROVE k \in DOMAIN line \ flagged
    <3>1. PICK t, f : Handled(opts, t, f) /\ OptionAt(opts, t, f) = o
      BY <1>11
    <3>2. k \in 1..N /\ line[k] = Text
      BY <1>12, <3>1
    <3> QED
      BY <1>1, <3>2
  <2> QED
    BY <2>1, <2>2
<1>16. ASSUME NEW o \in passed, NEW q \in passed, NEW k \in texts(o), NEW l \in texts(q)
       PROVE  /\ o # q => k # l
              /\ \A x \in at(o), y \in at(q) :
                    /\ line[k] = Text /\ before(k) = x[1]
                    /\ x[1] = y[1] /\ x[2] < y[2] => k < l
  <2>1. PICK t, f : Handled(opts, t, f) /\ OptionAt(opts, t, f) = o
    BY <1>11
  <2>2. PICK u, g : Handled(opts, u, g) /\ OptionAt(opts, u, g) = q
    BY <1>11
  <2>3. /\ t \in flagged /\ u \in flagged /\ t \in 1..N /\ u \in 1..N /\ f \in Nat /\ g \in Nat
    <3>1. /\ t \in flagged /\ f \in DOMAIN line[t] /\ u \in flagged /\ g \in DOMAIN line[u]
      BY <1>4, <2>1, <2>2
    <3>2. t \in 1..N /\ u \in 1..N /\ line[t] \in Tokens /\ line[u] \in Tokens
      BY <1>3, <3>1
    <3> QED
      BY <3>1, <3>2, TokenFlags
  <2>4. /\ k \in 1..N /\ t < k /\ line[k] = Text /\ \A v \in t + 1..k : line[v] = Text
        /\ l \in 1..N /\ u < l /\ line[l] = Text /\ \A v \in u + 1..l : line[v] = Text
    BY <1>12, <2>1, <2>2
  <2>5. line[t] # Text /\ line[u] # Text
    BY <2>3
  <2>6. ASSUME k = l PROVE t = u
    <3>1. ~(t < u) /\ ~(u < t)
      BY <1>1, <2>3, <2>4, <2>5, <2>6
    <3> QED
      BY <2>3, <3>1
  <2>7. ASSUME t = u, f < g PROVE k < l
    BY <1>9, <2>1, <2>2, <2>7 DEF ParserSound, InTurn
  <2>8. ASSUME t = u, g < f PROVE l < k
    BY <1>9, <2>1, <2>2, <2>8 DEF ParserSound, InTurn
  <2>9. ASSUME o # q, k = l PROVE FALSE
    <3>1. t = u /\ f # g
      BY <2>1, <2>2, <2>6, <2>9
    <3> QED
      BY <1>1, <2>3, <2>4, <2>7, <2>8, <2>9, <3>1
  <2>10. before(k) = t
    <3>1. \A v \in t + 1..k : v \notin flagged
      BY <2>4
    <3>2. ASSUME NEW v \in flagged, v < k, \A w \in v + 1..k : w \notin flagged PROVE v = t
      <4>1. v \in 1..N
        BY <1>1
      <4> QED
        BY <1>1, <2>3, <2>4, <3>1, <3>2, <4>1
    <3> QED
      BY <2>3, <2>4, <3>1, <3>2
  <2>11. ASSUME NEW x \in at(o), NEW y \in at(q)
         PROVE  x[1] = t /\ x[2] = f /\ y[1] = u /\ y[2] = g
    BY <1>8, <2>1, <2>2 DEF ParserSound, FlagsOnce
  <2> QED
    BY <2>4, <2>7, <2>9, <2>10, <2>11
<1> QED
  BY <1>13, <1>14, <1>15, <1>16 DEF OptionsAgree

\* When options_parse() gets through the line, every text on it belongs to the
\* option whose flag stands before it, and no option is passed without its flag
\* (handle_argument()).
THEOREM TextsGoToTheirOptions == OptionsSpec => []OptionsAgree
<1>1. opts = None /\ returned = None /\ Fine => OptionsInv
  BY DEF OptionsInv
<1>2. OptionsInv => OptionsAgree
  BY SoundAgrees DEF OptionsInv, OptionsAgree
<1> QED
  BY <1>1, <1>2, OptionsKept, PTL DEF OptionsSpec

=============================================================================
