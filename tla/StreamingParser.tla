--------------------------- MODULE StreamingParser ---------------------------
(***************************************************************************)
(* analyze_streaming_parser_product of streaming_parser_products.py: a     *)
(* stream of chunks is fed to a parser of JSON boundaries and, in step, to *)
(* an automaton that watches for a literal; a match that ends where the    *)
(* parser is inside a string is a violation.                               *)
(*                                                                         *)
(* The two automata are given by their steps, which is what the tables the *)
(* code builds hold.  A state of the parser is its mode and its depth.     *)
(* Whether json.loads accepts a text with balanced brackets is left open.  *)
(***************************************************************************)
EXTENDS Naturals, Sequences, FiniteSets

CONSTANTS
    Plain,          \* characters without a role in JSON
    Streams,        \* the streams considered: sequences of chunks
    Literals,       \* the literals watched for
    MaxNesting      \* max_depth

Quote == "quote"
Backslash == "backslash"
Open == "open"
Close == "close"
Blank == "blank"
Characters == Plain \cup {Quote, Backslash, Open, Close, Blank}

ASSUME StreamAssumption ==
    /\ Streams \subseteq Seq(Seq(Characters))
    /\ Literals \subseteq Seq(Characters) \ {<< >>}
    /\ MaxNesting \in Nat \ {0}

VARIABLES
    stream,         \* input: the chunks
    literal,        \* input
    chunk,          \* the chunk being fed
    offset,         \* characters of it already fed
    events,         \* characters fed so far
    trace,          \* states of the parser: trace[i + 1] after i characters
    matched,        \* state of the monitor: the length of the prefix matched
    flagged,        \* violations: an event each, and the chunk it came in
    parsing         \* "feed", "complete", "incomplete" or "invalid"

streamVars == <<stream, literal, chunk, offset, events, trace, matched, flagged, parsing>>

State(mode, depth) == [mode |-> mode, depth |-> depth]
StartState == State("start", 0)
Done == State("done", 0)
Error == State("error", 0)

\* Between strings, d brackets deep.
Outside(d, c) ==
    CASE c = Quote -> State("string", d)
      [] c = Open -> IF d < MaxNesting THEN State("outside", d + 1) ELSE Error
      [] c = Close -> IF d > 1 THEN State("outside", d - 1) ELSE Done
      [] OTHER -> State("outside", d)

\* The transition table of build_json_boundary_streaming_parser.
Parse(s, c) ==
    CASE s.mode = "start" ->
           IF c = Blank THEN StartState ELSE IF c = Open THEN State("outside", 1) ELSE Error
      [] s.mode = "done" -> IF c = Blank THEN Done ELSE Error
      [] s.mode = "error" -> Error
      [] s.mode = "outside" -> Outside(s.depth, c)
      [] s.mode = "string" ->
           IF c = Quote THEN State("outside", s.depth)
           ELSE IF c = Backslash THEN State("escape", s.depth) ELSE s
      [] s.mode = "escape" -> State("string", s.depth)

Ends(s, t) == Len(t) <= Len(s) /\ SubSeq(s, Len(s) - Len(t) + 1, Len(s)) = t

\* The longest prefix of the literal that s ends with.
LongestEnd(s) ==
    CHOOSE n \in 0..Len(literal) :
        /\ Ends(s, SubSeq(literal, 1, n))
        /\ \A m \in n + 1..Len(literal) : ~Ends(s, SubSeq(literal, 1, m))

\* Mutant of Watch: after a mismatch the match starts over from nothing.
WatchRestart(m, c) ==
    IF m < Len(literal) /\ literal[m + 1] = c THEN m + 1 ELSE IF literal[1] = c THEN 1 ELSE 0

\* The transition table of build_substring_monitor: from the prefix matched and
\* one character more.
Watch(m, c) == LongestEnd(Append(SubSeq(literal, 1, m), c))

StreamInit ==
    /\ stream \in Streams
    /\ literal \in Literals
    /\ chunk = 1
    /\ offset = 0
    /\ events = << >>
    /\ trace = <<StartState>>
    /\ matched = 0
    /\ flagged = {}
    /\ parsing = "feed"

Now == trace[Len(trace)]
Protected(s) == s.mode \in {"string", "escape"}

\* Mutant of Judged: the parser is asked before it has taken the character.
JudgedBefore(before, after) == before

\* The state of the parser a match is judged by.
Judged(before, after) == after

\* One character to the parser and to the monitor.
Feed ==
    /\ parsing = "feed" /\ chunk <= Len(stream)
    /\ offset < Len(stream[chunk])
    /\ LET c == stream[chunk][offset + 1]
       IN  /\ events' = Append(events, c)
           /\ trace' = Append(trace, Parse(Now, c))
           /\ matched' = Watch(matched, c)
           /\ flagged' = IF Protected(Judged(Now, Parse(Now, c))) /\ matched' = Len(literal)
                         THEN flagged \cup {[event |-> Len(events'), chunk |-> chunk]}
                         ELSE flagged
    /\ offset' = offset + 1
    /\ UNCHANGED <<stream, literal, chunk, parsing>>

NextChunk ==
    /\ parsing = "feed" /\ chunk <= Len(stream)
    /\ offset = Len(stream[chunk])
    /\ chunk' = chunk + 1
    /\ offset' = 0
    /\ UNCHANGED <<stream, literal, events, trace, matched, flagged, parsing>>

\* The stream is at its end.
CloseStream ==
    /\ parsing = "feed" /\ chunk > Len(stream)
    /\ parsing' \in IF Now = Done THEN {"complete", "invalid"} ELSE {"incomplete"}
    /\ UNCHANGED <<stream, literal, chunk, offset, events, trace, matched, flagged>>

Streaming == Feed \/ NextChunk \/ CloseStream

StreamEnded == parsing # "feed" /\ UNCHANGED streamVars

StreamNext == Streaming \/ StreamEnded

StreamSpec == StreamInit /\ [][StreamNext]_streamVars

-----------------------------------------------------------------------------
\* A violation is reported for exactly the occurrences of the literal in the text
\* that end inside a string, wherever chunks end and however occurrences overlap,
\* and with the chunk that holds the last character.
OccurrencesFlagged ==
    LET Fed[k \in 0..Len(stream)] == IF k = 0 THEN 0 ELSE Fed[k - 1] + Len(stream[k])
    IN  flagged = {[event |-> i, chunk |-> CHOOSE k \in DOMAIN stream : Fed[k - 1] < i /\ i <= Fed[k]] :
                     i \in {j \in DOMAIN events : Ends(SubSeq(events, 1, j), literal) /\ Protected(trace[j + 1])}}

=============================================================================
