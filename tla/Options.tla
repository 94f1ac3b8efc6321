------------------------------ MODULE Options ------------------------------
(***************************************************************************)
(* src/lib/util/options.c: options_parse() goes through the command line   *)
(* and gives each option the texts behind its flag.  A token of the line   *)
(* is the sequence of the flags it holds (several short ones, or a long    *)
(* one), a Text, or a Dash: "-" alone, which is neither.                   *)
(***************************************************************************)
EXTENDS Calls, Sequences

CONSTANTS
    OptionCount,   \* the options are 1..OptionCount, in the caller's order
    Accepts,       \* how many texts each takes; less than 0: one or more
    OptionOf,      \* the option of each flag that the caller has declared
    Text, Dash,
    Tokens,        \* flag sequences, besides Text and Dash
    MaxArgs,       \* the longest command line
    MaxAgain       \* the longest one of a further call with the same options

ASSUME OptionsAssumption ==
    /\ OptionCount \in Nat /\ MaxArgs \in Nat /\ MaxAgain \in Nat
    /\ Accepts \in [1..OptionCount -> Int]
    /\ \A f \in DOMAIN OptionOf : OptionOf[f] \in 1..OptionCount
    /\ Text \notin Tokens /\ Dash \notin Tokens
    /\ \A t \in Tokens : t # <<>> /\ t \in Seq({t[f] : f \in DOMAIN t})

VARIABLE opts

ProgramOptions == 1..OptionCount

CommandLines(max) == UNION {[1..n -> Tokens \cup {Text, Dash}] : n \in 0..max}

\* PROGRAM_OPTION_INIT; an option's texts are argc tokens from "argv" on
Untouched == [o \in ProgramOptions |-> [argv |-> 0, argc |-> 0, passed |-> FALSE]]

-----------------------------------------------------------------------------
(* One token *)

Following(n) == {j \in n + 1..Len(opts.line) : \A k \in n + 1..j : opts.line[k] = Text}

\* how many texts are found behind opts.i, of at most "most"
Found(most) == IF Cardinality(Following(opts.i)) < most
               THEN Cardinality(Following(opts.i)) ELSE most

\* the loop goes on behind a flag whose option has taken n texts
Behind(po, n) ==
    LET last == opts.flag = Len(opts.line[opts.token])
    IN  [opts EXCEPT !.po = po,
                     !.i = IF last THEN @ + n + 1 ELSE @ + n,
                     !.token = IF last THEN opts.i + n + 1 ELSE @,
                     !.flag = IF last THEN 1 ELSE @ + 1]

\* PassedFromFlag: the flag itself is the first of its texts
PassedFromFlag(o, n) ==
    [opts.po EXCEPT ![o] = [argv |-> IF n > 0 THEN opts.i ELSE 0, argc |-> n, passed |-> TRUE]]

Passed(o, n) ==
    [opts.po EXCEPT ![o] = [argv |-> IF n > 0 THEN opts.i + 1 ELSE 0, argc |-> n, passed |-> TRUE]]

\* the call is over; opts.po, the caller's, is all that stays
Ended(po) == [po |-> po, parsing |-> FALSE, line |-> <<>>, token |-> 1, i |-> 1, flag |-> 1]

\* handle_argument(): unknown, passed twice, and too few texts are errors; the
\* last leaves the option passed and its argv as it was
HandleArgument(flag) ==
    IF flag \notin DOMAIN OptionOf \/ opts.po[OptionOf[flag]].passed
    THEN opts' = Ended(opts.po) /\ Returns(Failed)
    ELSE LET o == OptionOf[flag]
             n == Found(IF Accepts[o] < 0 THEN Len(opts.line) ELSE Accepts[o])
         IN  IF n = Accepts[o] \/ (Accepts[o] < 0 /\ n > 0)
             THEN opts' = Behind(Passed(o, n), n) /\ Returns(None)
             ELSE /\ opts' = Ended([opts.po EXCEPT ![o].passed = TRUE, ![o].argc = n])
                  /\ Returns(Failed)

-----------------------------------------------------------------------------
(* options_parse() *)

\* PROGRAM_OPTION_INIT of the caller's array
OptionsInit ==
    /\ opts = None
    /\ opts' = Ended(Untouched)
    /\ Returns(None)

Unpassed(po, n) == [o \in ProgramOptions |-> IF o <= n THEN [po[o] EXCEPT !.passed = FALSE]
                                            ELSE po[o]]

\* argc and argv of earlier calls stay
OptionsParse(line) ==
    /\ ~opts.parsing
    /\ opts' = [Ended(Unpassed(opts.po, OptionCount)) EXCEPT !.parsing = TRUE, !.line = line]
    /\ Returns(None)

\* map_init() or, for one of the options, map_insert() fails
OptionsParseFails(n) ==
    /\ ~opts.parsing
    /\ opts' = Ended(Unpassed(opts.po, n))
    /\ Returns(Failed)

ParseToken ==
    /\ opts.parsing
    /\ opts.token <= Len(opts.line)
    /\ IF opts.line[opts.token] \in {Text, Dash}
       THEN opts' = Ended(opts.po) /\ Returns(Failed)
       ELSE HandleArgument(opts.line[opts.token][opts.flag])

OptionsParsed ==
    /\ opts.parsing
    /\ opts.token > Len(opts.line)
    /\ opts' = Ended(opts.po)
    /\ Returns(None)

OptionsDestroy == ~opts.parsing /\ opts' = None /\ Returns(None)

OptionsNext ==
    \/ OptionsInit
    \/ /\ opts # None
       /\ \/ \E line \in CommandLines(IF opts.po = Untouched THEN MaxArgs ELSE MaxAgain) :
                OptionsParse(line)
          \/ \E o \in 0..OptionCount : OptionsParseFails(o)
          \/ ParseToken \/ OptionsParsed \/ OptionsDestroy

-----------------------------------------------------------------------------
(* Properties *)

\* When options_parse() gets through the line, every text on it belongs to one
\* option: one whose flag is in the last token with flags before it, that takes
\* so many; flags of one token are served from left to right, and no option is
\* passed that is not on the line (options_parse(), handle_argument()).
OptionsAgree ==
    (opts # None /\ opts.parsing /\ opts.token > Len(opts.line)) =>
        LET line == opts.line
            po == opts.po
            flagged == {t \in DOMAIN line : line[t] \notin {Text, Dash}}
            before(k) == CHOOSE t \in flagged : t < k /\ \A u \in t + 1..k : u \notin flagged
            texts(o) == {k \in 1..Len(line) : k - po[o].argv \in 0..po[o].argc - 1}
            flags == UNION {{t} \X DOMAIN line[t] : t \in flagged}
            at(o) == {x \in flags : OptionOf[line[x[1]][x[2]]] = o}
            passed == {o \in ProgramOptions : po[o].passed}
        IN  /\ passed = {o \in ProgramOptions : at(o) # {}}
            /\ \A o \in passed : /\ Cardinality(at(o)) = 1
                                 /\ IF Accepts[o] < 0 THEN texts(o) # {}
                                    ELSE Cardinality(texts(o)) = Accepts[o]
            /\ DOMAIN line \ flagged = UNION {texts(o) : o \in passed}
            /\ \A o, q \in passed : \A k \in texts(o), l \in texts(q) :
                  /\ o # q => k # l
                  /\ \A x \in at(o), y \in at(q) :
                        /\ line[k] = Text /\ before(k) = x[1]
                        /\ x[1] = y[1] /\ x[2] < y[2] => k < l
=============================================================================
