----------------------------- MODULE Stopwatch -----------------------------
(* What a clock promises, in ticks: it adds up the time while it runs. *)
EXTENDS Integers

CONSTANTS
    Unit,
    Nothing     \* what all calls but Read return

VARIABLES
    now, running, total,
    since,      \* when it was stopped last, 0 while it runs
    returned

Init == ~running /\ since = 0 /\ total = 0

Pass ==
    /\ now' >= now
    /\ total' = IF running THEN total + now' - now ELSE total
    /\ UNCHANGED <<running, since, returned>>

Start ==
    /\ now' = now
    /\ running' /\ since' = 0 /\ total' = 0
    /\ returned' = Nothing

\* stopping once more counts the time since the last stop
Stop ==
    /\ now' = now
    /\ ~running' /\ since' = now
    /\ total' = IF running THEN total ELSE total + now - since
    /\ returned' = Nothing

\* what passes while the call looks at the time twice does not count
Continue ==
    /\ now' >= now
    /\ running' /\ since' = 0 /\ total' = total
    /\ returned' = Nothing

Clear ==
    /\ now' = now
    /\ ~running' /\ since' = 0 /\ total' = 0
    /\ returned' = Nothing

Read ==
    /\ returned' = <<total, total \div Unit>>
    /\ UNCHANGED <<now, running, since, total>>

Next == Pass \/ Start \/ Stop \/ Continue \/ Clear \/ Read
=============================================================================
