------------------------------- MODULE Clock -------------------------------
(***************************************************************************)
(* src/lib/util/clock.c: a stopwatch that keeps two points of time, in     *)
(* seconds and fractions.  A clock that is stopped has "elapsed" what lies *)
(* between them; one that runs asks for the time instead.                  *)
(***************************************************************************)
EXTENDS Calls

CONSTANTS
    Second,     \* ticks of a second, 10^9 in the program
    Unit,       \* ticks of the unit clock_elapsed_ms() or _us() counts in
    MaxTime     \* bound on the time

ASSUME TimeAssumption ==
    /\ Second \in Nat \ {0} /\ Unit \in Nat \ {0} /\ Second % Unit = 0
    /\ MaxTime \in Nat

VARIABLES
    now,        \* of the clock with clock_gettime()'s id, which is monotonic
    clock

Timespec(ticks) == [sec |-> ticks \div Second, nsec |-> ticks % Second]

Ticks(ts) == ts.sec * Second + ts.nsec

Zero == Timespec(0)

\* NoBorrow: a negative fraction stays negative
NoBorrow(t1, t2) == [sec |-> t1.sec - t2.sec, nsec |-> t1.nsec - t2.nsec]

\* _timespec_diff()
Diff(t1, t2) ==
    IF t1.nsec < t2.nsec
    THEN [sec |-> t1.sec - t2.sec - 1, nsec |-> t1.nsec - t2.nsec + Second]
    ELSE [sec |-> t1.sec - t2.sec, nsec |-> t1.nsec - t2.nsec]

\* _clock_elapsed()
ClockElapsed(c, time) == Diff(IF c.active THEN Timespec(time) ELSE c.current, c.start)

\* clock_elapsed_ns(), and _us() and _ms()
ElapsedTicks(ts) == ts.sec * Second + (ts.nsec % Second)
ElapsedUnits(ts) == ts.sec * (Second \div Unit) + (ts.nsec \div Unit)

-----------------------------------------------------------------------------
Time == now' \in now + 1..MaxTime /\ UNCHANGED <<clock, returned, fault>>

Cleared == [start |-> Zero, current |-> Zero, active |-> FALSE]

\* clock_init(), and clock_new() which calls it
ClockInit ==
    /\ clock = None
    /\ now' \in 0..MaxTime
    /\ clock' = Cleared
    /\ Returns(None)

\* clock_gettime() knows no such clock; clock_new() does not ask, and the clock
\* it then returns is not followed
ClockInitFails ==
    /\ clock = None
    /\ Returns(Failed)
    /\ UNCHANGED <<now, clock>>

ClockClear ==
    /\ clock' = Cleared
    /\ Returns(None)
    /\ UNCHANGED now

ClockStart ==
    /\ clock' = [clock EXCEPT !.start = Timespec(now), !.active = TRUE]
    /\ Returns(None)
    /\ UNCHANGED now

ClockStop ==
    /\ clock' = [clock EXCEPT !.current = Timespec(now), !.active = FALSE]
    /\ Returns(None)
    /\ UNCHANGED now

ClockReset ==
    /\ clock' = [clock EXCEPT !.current = Zero,
                              !.start = IF clock.active THEN Timespec(now) ELSE Zero]
    /\ Returns(None)
    /\ UNCHANGED now

\* clock_continue(): time passes between its two looks at the clock
ClockContinue ==
    /\ now' \in now..MaxTime
    /\ clock' = [start |-> Diff(Timespec(now'), ClockElapsed(clock, now)), active |-> TRUE,
                 current |-> IF clock.active THEN Timespec(now) ELSE clock.current]
    /\ Returns(None)

\* clock_elapsed_ns(), _us() and _ms()
ClockRead ==
    /\ clock' = [clock EXCEPT !.current = IF clock.active THEN Timespec(now) ELSE @]
    /\ LET ts == ClockElapsed(clock, now)
       IN  Returns(<<ElapsedTicks(ts), ElapsedUnits(ts)>>)
    /\ UNCHANGED now

\* clock_destroy(), clock_delete(); time is followed while there is a clock
ClockDestroy ==
    /\ clock' = None
    /\ Returns(None)
    /\ now' = 0

ClockNext ==
    \/ ClockInit \/ ClockInitFails
    \/ /\ clock # None
       /\ \/ Time \/ ClockClear \/ ClockStart \/ ClockStop
          \/ ClockReset \/ ClockContinue \/ ClockRead \/ ClockDestroy

-----------------------------------------------------------------------------
(* Properties *)

\* A clock tells the time that passed while it ran, across seconds, pauses and
\* continuations; what passes inside of clock_continue() is left out and, after
\* a second clock_stop(), the pause is counted (_timespec_diff(),
\* clock_continue(), clock_stop()).
Watch == INSTANCE Stopwatch WITH
    Nothing <- None,
    running <- clock # None /\ clock.active,
    total <- IF clock = None THEN 0 ELSE Ticks(ClockElapsed(clock, now)),
    since <- IF clock = None \/ clock.active THEN 0 ELSE Ticks(clock.current)
ClockAgrees ==
    /\ Watch!Init
    /\ [][(clock # None /\ clock' # None) => Watch!Next]_<<clock, now, returned>>
=============================================================================
