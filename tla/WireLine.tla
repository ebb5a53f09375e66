------------------------------ MODULE WireLine ------------------------------
(***************************************************************************)
(* The way of a text from an agent to the panel: Bridge.push of            *)
(* tools/claude_buddy_bridge.py writes it into a line of JSON, swaps in    *)
(* the line what the panel's font cannot show, and main/tiny_json.c reads  *)
(* it back.  Characters stand for their kind; of the line only the text's  *)
(* string is kept, from behind its opening quote to the object's brace.    *)
(***************************************************************************)
EXTENDS Integers, Sequences, SequencesExt

CONSTANT MaxLen  \* bound: the characters of a text

VARIABLES
  text,  \* what the agent wrote
  line   \* what push wrote

Chars == {"plain", "quote", "backslash", "curly quote", "wide backslash", "emoji"}

\* json.dumps: a quote and a backslash get a backslash before them.
Dumps(s) ==
  FlattenSeq([i \in DOMAIN s |->
    IF s[i] \in {"quote", "backslash"} THEN <<"backslash", s[i]>> ELSE <<s[i]>>])

\* _SYMBOL_MAP and the font: a swap for what has one, nothing for the rest.
Rendered(c) ==
  CASE c = "curly quote"    -> <<"quote">>
    [] c = "wide backslash" -> <<"backslash">>
    [] c = "emoji"          -> <<>>
    [] OTHER                -> <<c>>

DeviceSafe(s) == FlattenSeq([i \in DOMAIN s |-> Rendered(s[i])])

Line(s) == DeviceSafe(Append(Append(Dumps(s), "quote"), "brace"))

Init == text = <<>> /\ line = Line(<<>>)

Say(c) ==
  /\ Len(text) < MaxLen
  /\ text' = Append(text, c)
  /\ line' = Line(text')

\* A new turn begins with no text.
Clear == text # <<>> /\ text' = <<>> /\ line' = Line(<<>>)

Next == Clear \/ \E c \in Chars : Say(c)

Spec == Init /\ [][Next]_<<text, line>>

-----------------------------------------------------------------------------
(* tiny_json *)

\* The character at i has an odd number of backslashes right before it.
Escaped(s, i) ==
  \E n \in 1 .. i - 1 :
    /\ n % 2 = 1
    /\ \A k \in i - n .. i - 1 : s[k] = "backslash"
    /\ i - n > 1 => s[i - n - 1] # "backslash"

\* skip_value ends a string at the first quote that is not escaped.
Closing(s) == {i \in DOMAIN s : s[i] = "quote" /\ ~Escaped(s, i)}

\* tj_value_string leaves the escaping backslashes out.
Value(s) ==
  LET kept == SelectSeq([i \in DOMAIN s |-> i],
                        LAMBDA i : s[i] # "backslash" \/ Escaped(s, i))
  IN  [i \in DOMAIN kept |-> s[kept[i]]]

\* The string ends before the object's brace, and nowhere else.
WellFormed ==
  /\ Closing(line) # {}
  /\ \A i \in Closing(line) : i = Len(line) - 1

\* What the comment in push says: only string values change, so the line stays
\* valid JSON.  The panel reads the text the agent wrote, as its font can show
\* it.
LineStaysJson ==
  WellFormed /\ Value(SubSeq(line, 1, Len(line) - 2)) = DeviceSafe(text)
=============================================================================
