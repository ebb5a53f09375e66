------------------------------ MODULE JsonRead ------------------------------
(***************************************************************************)
(* main/tiny_json.c: how a handler finds a member of the host's JSON line  *)
(* and takes its value, without a parser's stack: find walks over the      *)
(* members from the head, skipping each value; a string is decoded into a  *)
(* buffer and never ends in half a UTF-8 character, here or in the copy    *)
(* that cjk_utf8_lcpy makes of it.  The line may be torn: its end is lost. *)
(* Characters stand for their kind; a wide one is three bytes.  A text     *)
(* without quotes, which tj_value_string takes too, is not written here.   *)
(***************************************************************************)
EXTENDS Integers, Sequences, SequencesExt

CONSTANTS
  MemberKeys, \* the keys there are
  Documents,  \* bound: what the host may write: sequences of members, pairs of key and value
  Caps,       \* bound: the sizes of the buffers
  Copies      \* bound: the sizes of the buffers of the second copy

VARIABLES
  doc,     \* what the host wrote: its members in order
  line,    \* its text as it arrived
  want,    \* key: the key, buffer size and copy size asked for, "nobody" before
  at,      \* the cursor of tj_object_find
  got      \* <<"scanning">>, or what came out: <<"nothing">> or <<"found", value>>

json == <<doc, line, want, at, got>>

-----------------------------------------------------------------------------
(* What the host writes *)

Letters == {"k", "m", "n"}

Plain == Letters \union {"1", "quote", "\\", "lbrace", "rbrace", "[", "]", "colon", "comma"}

Value == [kind : {"string", "number", "array", "object"}, parts : Seq(Seq(Plain \union {"wide"}))]

\* A number, a text and the one text of an object have one part; json.dumps
\* writes no key twice.
ASSUME WellFormed ==
  /\ MemberKeys \subseteq Seq(Letters) \ {<<>>}
  /\ Caps \subseteq Nat \ {0} /\ Copies \subseteq Nat \ {0}
  /\ \A d \in Documents :
       /\ d \in Seq(MemberKeys \X Value)
       /\ \A i, j \in DOMAIN d : d[i][1] = d[j][1] => i = j
       /\ \A i \in DOMAIN d :
            /\ d[i][2].kind # "array" => Len(d[i][2].parts) = 1
            /\ d[i][2].kind = "number" => d[i][2].parts[1] \in Seq({"1"}) \ {<<>>}

Bytes(content) ==
  FlattenSeq([i \in DOMAIN content |->
    IF content[i] = "wide" THEN <<"lead", "tail", "tail">> ELSE <<content[i]>>])

Escaped(s) ==
  FlattenSeq([i \in DOMAIN s |->
    IF s[i] \in {"quote", "\\"} THEN <<"\\", s[i]>> ELSE <<s[i]>>])

Quoted(content) == <<"quote">> \o Escaped(Bytes(content)) \o <<"quote">>

Listed(texts) ==
  FlattenSeq([i \in DOMAIN texts |-> (IF i > 1 THEN <<"comma">> ELSE <<>>) \o texts[i]])

\* Keys are quoted, or bare when the console's tokenizer has taken the quotes;
\* none has what would have to be escaped.
KeyText(key, bare) == IF bare THEN key ELSE <<"quote">> \o key \o <<"quote">>

Member(key, text, bare) == KeyText(key, bare) \o <<"colon">> \o text

\* An inner object has a key that may be asked for, again.
Written(v) ==
  CASE v.kind = "string" -> Quoted(v.parts[1])
    [] v.kind = "number" -> v.parts[1]
    [] v.kind = "array"  -> <<"[">> \o Listed([i \in DOMAIN v.parts |-> Quoted(v.parts[i])]) \o <<"]">>
    [] OTHER             -> <<"lbrace">> \o Member(<<"k">>, Quoted(v.parts[1]), FALSE) \o <<"rbrace">>

Text(d, bare) ==
  <<"lbrace">> \o Listed([i \in DOMAIN d |-> Member(d[i][1], Written(d[i][2]), bare)]) \o <<"rbrace">>

-----------------------------------------------------------------------------
(* The documents of the run *)

SmallKeys == {<<"k">>, <<"k", "m">>, <<"n">>}

\* Texts with what the reader must not mistake for structure, or tear apart.
Contents ==
  {<<>>, <<"k">>, <<"quote">>, <<"\\">>, <<"rbrace">>, <<"k", "wide">>, <<"wide", "wide">>,
   <<"\\", "quote">>, <<"k", "colon", "comma">>}

Short == {<<>>, <<"quote">>, <<"]", "\\">>}

Valued(kind, parts) == [kind |-> kind, parts |-> parts]

MemberValues ==
  {Valued("string", <<x>>) : x \in Contents} \union {Valued("number", <<<<"1", "1">>>>)}
    \union {Valued("array", q) : q \in {<<>>} \union {<<x>> : x \in Short} \union {<<x, y>> : x, y \in Short}}
    \union {Valued("object", <<x>>) : x \in Short}

Members == SmallKeys \X MemberValues

Followers == SmallKeys \X {Valued("string", <<<<"quote">>>>), Valued("number", <<<<"1", "1">>>>)}

SmallDocuments ==
  {<<>>} \union {<<m>> : m \in Members}
    \union {q \in Members \X Followers : q[1][1] # q[2][1]}

-----------------------------------------------------------------------------
(* Skipping *)

\* From behind an opening quote to behind the closing one; 0 without one.
StringEndPlain(s, p) ==      \* mutant: a backslash is like any other
  LET end[i \in p .. Len(s) + 1] ==
        IF i > Len(s) THEN 0 ELSE IF s[i] = "quote" THEN i + 1 ELSE end[i + 1]
  IN  end[p]

StringEnd(s, p) ==
  LET end[i \in p .. Len(s) + 2] ==
        IF i > Len(s) THEN 0
        ELSE CASE s[i] = "\\"   -> end[i + 2]
               [] s[i] = "quote" -> i + 1
               [] OTHER          -> end[i + 1]
  IN  end[p]

\* From behind an opening bracket of either kind, at depth 1, to behind the one
\* that brings the depth back to zero.
NestedEnd(s, p) ==
  LET end[x \in (p .. Len(s) + 1) \X Nat] ==
        LET i     == x[1]
            depth == x[2]
        IN  IF depth = 0 THEN i
            ELSE IF i > Len(s) THEN 0
            ELSE CASE s[i] = "quote" ->
                        LET e == StringEnd(s, i + 1) IN IF e = 0 THEN 0 ELSE end[<<e, depth>>]
                   [] s[i] \in {"lbrace", "["} -> end[<<i + 1, depth + 1>>]
                   [] s[i] \in {"rbrace", "]"} -> end[<<i + 1, depth - 1>>]
                   [] OTHER -> end[<<i + 1, depth>>]
  IN  end[<<p, 1>>]

\* A number or a word ends before a separator, or where the line does.
BareEnd(s, p) ==
  LET stops == {i \in p .. Len(s) : s[i] \in {"comma", "rbrace", "]"}}
  IN  IF stops = {} THEN Len(s) + 1 ELSE CHOOSE i \in stops : \A j \in stops : i <= j

\* skip_value.
ValueEnd(s, p) ==
  IF p > Len(s) THEN 0
  ELSE CASE s[p] = "quote"      -> StringEnd(s, p + 1)
         [] s[p] \in {"lbrace", "["} -> NestedEnd(s, p + 1)
         [] OTHER               -> BareEnd(s, p)

\* read_key: the key and where it ends, 0 when there is none.
KeyAt(s, p) ==
  LET e == IF s[p] = "quote" THEN StringEnd(s, p + 1)
           ELSE CHOOSE i \in p .. Len(s) + 1 :
                  (i > Len(s) \/ s[i] \notin Letters) /\ \A j \in p .. i - 1 : s[j] \in Letters
  IN  IF e \in {0, p} THEN <<<<>>, 0>>
      ELSE <<IF s[p] = "quote" THEN SubSeq(s, p + 1, e - 2) ELSE SubSeq(s, p, e - 1), e>>

-----------------------------------------------------------------------------
(* Taking the value *)

\* An escaping backslash is left out of what is copied.
Decoded(s) ==
  LET from[i \in 1 .. Len(s) + 1] ==
        IF i > Len(s) THEN <<>>
        ELSE IF s[i] = "\\" /\ i < Len(s) THEN <<s[i + 1]>> \o from[i + 2]
        ELSE <<s[i]>> \o from[i + 1]
  IN  from[1]

\* The end of the copy is taken back to the last whole character.
Trimmed(s) ==
  LET lead == CHOOSE i \in 0 .. Len(s) :
                (i = 0 \/ s[i] # "tail") /\ \A j \in i + 1 .. Len(s) : s[j] = "tail"
  IN  IF lead > 0 /\ s[lead] = "lead" /\ Len(s) - lead < 2 THEN SubSeq(s, 1, lead - 1) ELSE s

\* tj_value_string of a quoted span.
ValueString(span, cap) ==
  LET all == Decoded(SubSeq(span, 2, Len(span) - 1))
  IN  Trimmed(SubSeq(all, 1, IF Len(all) < cap - 1 THEN Len(all) ELSE cap - 1))

\* cjk_utf8_lcpy: whole characters while they fit.
Lcpy(s, cap) ==
  LET to[i \in 0 .. Len(s)] ==
        LET n == IF i < Len(s) /\ s[i + 1] = "lead" THEN 3 ELSE 1
        IN  IF i = Len(s) \/ i + n > cap - 1 \/ i + n > Len(s) THEN i ELSE to[i + n]
  IN  SubSeq(s, 1, to[0])

\* tj_array_next, to the end, or to an empty item, which no array of a host has.
Items(s) ==
  LET from[p \in 1 .. Len(s) + 1] ==
        LET b == IF p <= Len(s) /\ s[p] = "comma" THEN p + 1 ELSE p
            e == IF b > Len(s) \/ s[b] = "]" THEN 0 ELSE ValueEnd(s, b)
        IN  IF e \in {0, b} THEN <<>> ELSE <<SubSeq(s, b, e - 1)>> \o from[e]
  IN  from[2]

Panel(span) == Lcpy(ValueString(span, want.cap), want.copy)

\* What a handler makes of the span of a member.
Handed(span) ==
  CASE span[1] = "quote" -> Panel(span)
    [] span[1] = "["     -> LET all == Items(span) IN [i \in DOMAIN all |-> Panel(all[i])]
    [] OTHER             -> span

-----------------------------------------------------------------------------
(* tj_object_find *)

Idle == [key |-> <<>>, cap |-> 0, copy |-> 0]

Nothing == <<"nothing">>

JsonOff == doc = <<>> /\ line = <<>> /\ want = Idle /\ at = 0 /\ got = Nothing

JsonInit == doc \in Documents /\ line = <<>> /\ want = Idle /\ at = 0 /\ got = Nothing

\* The line arrives, whole or torn.
Arrive ==
  /\ line = <<>>
  /\ \E bare \in BOOLEAN :
       LET s == Text(doc, bare) IN \E n \in 1 .. Len(s) : line' = SubSeq(s, 1, n)
  /\ UNCHANGED <<doc, want, at, got>>

\* A handler asks for a key, from the head.
Ask ==
  /\ line # <<>> /\ got # <<"scanning">>
  /\ want' \in [key : MemberKeys, cap : Caps, copy : Copies]
  /\ at' = 2 /\ got' = <<"scanning">>
  /\ UNCHANGED <<doc, line>>

\* One turn of the loop: a member, the one asked for or another.
Miss == got' = Nothing /\ at' = 0

Scan ==
  /\ got = <<"scanning">>
  /\ IF at > Len(line) \/ line[at] = "rbrace" THEN Miss
     ELSE LET key == KeyAt(line, at)
              b   == key[2] + 1
              e   == ValueEnd(line, b)
          IN  IF key[2] = 0 \/ key[2] > Len(line) \/ line[key[2]] # "colon" \/ e = 0 THEN Miss
              ELSE IF key[1] = want.key THEN got' = <<"found", Handed(SubSeq(line, b, e - 1))>> /\ at' = 0
              ELSE got' = got /\ at' = IF e <= Len(line) /\ line[e] = "comma" THEN e + 1 ELSE e
  /\ UNCHANGED <<doc, line, want>>

JsonNext == Arrive \/ Ask \/ Scan

-----------------------------------------------------------------------------
(* Properties *)

\* As many characters of a text as a buffer holds.
Fitting(content, cap) ==
  LET fits == {n \in 0 .. Len(content) : Len(Bytes(SubSeq(content, 1, n))) < cap}
  IN  SubSeq(content, 1, CHOOSE n \in fits : \A k \in fits : k <= n)

Whole(content) == Bytes(Fitting(Fitting(content, want.cap), want.copy))

Meant(v) ==
  CASE v.kind = "string" -> Whole(v.parts[1])
    [] v.kind = "array"  -> [i \in DOMAIN v.parts |-> Whole(v.parts[i])]
    [] OTHER             -> Written(v)

\* A handler gets the value of the member it asks for, whatever its texts and the
\* other members look like: as much of a text as fits, in whole characters, and
\* nothing when there is no such member.  Of a torn line it gets the same or
\* nothing, but for a number at the tear.
ReadsMember ==
  at = 0 /\ want # Idle =>
    LET named == {i \in DOMAIN doc : doc[i][1] = want.key}
        torn  == line \notin {Text(doc, TRUE), Text(doc, FALSE)}
    IN  IF named = {} THEN got = Nothing
        ELSE \A i \in named :
               \/ got = <<"found", Meant(doc[i][2])>>
               \/ torn /\ got = Nothing
               \/ torn /\ doc[i][2].kind = "number" /\ got[2] = SubSeq(Written(doc[i][2]), 1, Len(got[2]))
=============================================================================
