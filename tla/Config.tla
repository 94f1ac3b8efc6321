------------------------------- MODULE Config -------------------------------
(***************************************************************************)
(* src/lib/util/config.c and config_parser.c: a text of assignments that   *)
(* is read into memory, cut into strings in place, and kept for as long as *)
(* the keys and values in the map point into it.  A text is a sequence of  *)
(* characters; a string is what precedes the first blank.                  *)
(***************************************************************************)
EXTENDS Calls, SequencesExt

CONSTANTS
    Lines,          \* what texts are made of
    HandleKeys,     \* keys that callers have handles for
    MaxHandles,     \* bound on the handles of one key
    MaxLines,       \* the longest text
    MaxLinesAgain   \* the longest one that is read when there has been another

\* NULL is no string
ASSUME ConfigAssumption ==
    LET chars == UNION {Range(line) : line \in Lines}
    IN  Lines \subseteq Seq(chars) /\ None \notin Seq(chars)

VARIABLE config

Blank == " "
NewLine == "\n"
Comments == {"#", ";"}

TextLines(max) == UNION {[1..n -> Lines] : n \in 0..max}

Positions(text, p, chars) == {i \in p..Len(text) : text[i] \in chars}

\* keys with a handle in handle_map, which keeps as many of one key as it is given
HandledKeys(handles) == {key \in HandleKeys : handles[key] > 0}

\* the C string that starts at p once the character at "end" has become a NUL
String(text, p, end) == SubSeq(text, p, Min({end} \cup Positions(text, p, {Blank})) - 1)

-----------------------------------------------------------------------------
(* The parser, which is at parser.p and has read parser.key if any *)

Parsing == config.parser # None

Characters == FlattenSeq(config.parser.lines)

Char == Characters[config.parser.p]

Moved(p) == [config EXCEPT !.parser.p = p]

\* config_parser_parse() returns, config_parser_delete()
ParserEnds(value) == config' = [config EXCEPT !.parser = None] /\ Returns(value)

ParserSkip ==
    /\ Char \in {Blank, NewLine}
    /\ config' = Moved(config.parser.p + 1)
    /\ Returns(None)

\* parser_skip_line()
ParserSkipLine ==
    /\ Char \in Comments
    /\ config' = Moved(Min({Len(Characters)} \cup Positions(Characters, config.parser.p, {NewLine})) + 1)
    /\ Returns(None)

Starts == Char \notin Comments \cup {Blank, NewLine}

\* parser_read_key(): a key may go on over the end of its line
ParserReadKey ==
    LET p == config.parser.p
        signs == Positions(Characters, p, {"="})
    IN  /\ Starts /\ config.parser.key = None
        /\ IF signs = {} THEN ParserEnds(Failed)
           ELSE /\ config' = [config EXCEPT !.parser.p = Min(signs) + 1,
                                            !.parser.key = String(Characters, p, Min(signs))]
                /\ Returns(None)

\* ReadValueKeepsKey: the key is not forgotten
ReadValueKeepsKey ==
    LET p == config.parser.p
        ends == Positions(Characters, p, {NewLine})
    IN  /\ Starts /\ config.parser.key # None
        /\ IF ends = {} THEN ParserEnds(Failed)
           ELSE /\ config' = [config EXCEPT !.parser.p = Min(ends) + 1,
                        !.values = Append(@, <<config.parser.key, String(Characters, p, Min(ends))>>)]
                /\ Returns(None)

\* parser_read_value(), then map_insert(), which may fail, and a handle of the key
ParserReadValue ==
    LET p == config.parser.p
        key == config.parser.key
        ends == Positions(Characters, p, {NewLine})
        entry == <<key, String(Characters, p, Min(ends))>>
    IN  /\ Starts /\ key # None
        /\ \/ ParserEnds(Failed)
           \/ /\ ends # {}
              /\ config' = [config EXCEPT !.parser.p = Min(ends) + 1, !.parser.key = None,
                      !.values = Append(@, entry),
                      !.handled = IF key \in HandledKeys(config.handles) THEN Append(@, entry) ELSE @]
              /\ Returns(None)

ParserStep ==
    /\ Parsing
    /\ IF config.parser.p > Len(Characters) THEN ParserEnds(None)
       ELSE ParserSkip \/ ParserSkipLine \/ ParserReadKey \/ ParserReadValue

-----------------------------------------------------------------------------
(* Calls *)

\* config_new(), config_init(), of which the file is modelled by ConfigFile
ConfigInit ==
    /\ config = None
    /\ config' = [mem |-> "none", values |-> <<>>, handles |-> [key \in HandleKeys |-> 0],
                  handled |-> <<>>, path |-> TRUE, parser |-> None]
    /\ Returns(None)

\* the memory of a text that has been replaced, or could not be
Released == IF config.mem = "none" THEN "none" ELSE "freed"

\* config_parse() as far as config_parser_new(), which reads the file
ConfigParse(lines) ==
    IF config.mem = "freed"
    THEN Stray("free") /\ UNCHANGED <<config, returned>>
    ELSE /\ config.path
         /\ config' = [config EXCEPT !.mem = "live", !.values = <<>>, !.handled = <<>>,
                             !.parser = [lines |-> lines, p |-> 1, key |-> None]]
         /\ Returns(None)

\* FailsWithValues: the map is not cleared
FailsWithValues ==
    IF config.mem = "freed"
    THEN Stray("free") /\ UNCHANGED <<config, returned>>
    ELSE /\ config' = [config EXCEPT !.mem = Released]
         /\ Returns(Failed)

\* config_parser_new() fails: no such file, too large, no memory, ...; the text
\* is gone and config->mem still points at it
ConfigParseFails ==
    IF config.mem = "freed"
    THEN Stray("free") /\ UNCHANGED <<config, returned>>
    ELSE /\ config' = [config EXCEPT !.mem = Released, !.values = <<>>, !.handled = <<>>]
         /\ Returns(Failed)

\* strdup() may fail and leave no path
ConfigSetPath ==
    \/ config' = [config EXCEPT !.path = TRUE] /\ Returns(None)
    \/ config' = [config EXCEPT !.path = FALSE] /\ Returns(Failed)

\* config_insert_handle(), where map_insert() may fail
ConfigInsertHandle(key) ==
    \/ /\ config.handles[key] < MaxHandles
       /\ config' = [config EXCEPT !.handles[key] = @ + 1]
       /\ Returns(None)
    \/ Returns(Failed) /\ UNCHANGED config

\* config_take_handle() takes one handle of that key, if there is any
ConfigTakeHandle(key) ==
    IF key \in HandledKeys(config.handles)
    THEN config' = [config EXCEPT !.handles[key] = @ - 1] /\ Returns(key)
    ELSE Returns(None) /\ UNCHANGED config

\* config_destroy(), config_delete()
ConfigDestroy ==
    IF config.mem = "freed"
    THEN Stray("free") /\ UNCHANGED <<config, returned>>
    ELSE config' = None /\ Returns(None)

ConfigCall ==
    /\ ~Parsing
    /\ \/ \E lines \in TextLines(IF config.mem = "none" THEN MaxLines ELSE MaxLinesAgain) :
             ConfigParse(lines)
       \/ ConfigParseFails \/ ConfigSetPath \/ ConfigDestroy
       \/ \E key \in HandleKeys : ConfigInsertHandle(key) \/ ConfigTakeHandle(key)

ConfigNext == Fine /\ (ConfigInit \/ (config # None /\ (ParserStep \/ ConfigCall)))

-----------------------------------------------------------------------------
(* Properties *)

\* what a line assigns, as a sequence; None if it is not a line by itself
Assigned(line) ==
    LET skip(p) == {i \in p..Len(line) : line[i] # Blank}
        start == Min(skip(1))
        signs == Positions(line, start, {"="})
        value == Min(skip(Min(signs) + 1))
    IN  IF Positions(line, 1, {NewLine}) # {Len(line)} THEN None
        ELSE IF line[start] \in Comments \cup {NewLine} THEN <<>>
        ELSE IF signs = {} THEN None
        ELSE IF line[value] \in Comments \cup {NewLine} THEN None
        ELSE << <<String(line, start, Min(signs)), String(line, value, Len(line))>> >>

\* Lines that are blank, comments or assignments are read as such, up to the
\* first that is none of these, whatever follows; for each assignment to a key
\* that has handles one of them is called, in their order (config_parser_parse()).
ParserAgrees ==
    (config # None /\ Parsing /\ config.parser.p > Len(Characters)) =>
        LET lines == config.parser.lines
            values == config.values
            bad == {i \in DOMAIN lines : Assigned(lines[i]) = None}
            good == IF bad = {} THEN Len(lines) ELSE Min(bad) - 1
            expected == FlattenSeq([i \in 1..good |-> Assigned(lines[i])])
            called == {i \in DOMAIN values : values[i][1] \in HandledKeys(config.handles)}
        IN  /\ IsPrefix(expected, values)
            /\ bad = {} => expected = values
            /\ Len(config.handled) = Cardinality(called)
            /\ \A i \in called :
                  config.handled[Cardinality({j \in called : j <= i})] = values[i]

\* No key or value that can be looked up lies in memory that has been freed
\* (config_parse(), config_destroy()).
ValuesAlive == (config # None /\ config.values # <<>>) => config.mem = "live"

\* config_test.c parses twice because "multiple parser runs shouldn't have an
\* effect on ressource allocations": each text is freed once (config_parse()).
TextFreedOnce == fault # "free"
=============================================================================
