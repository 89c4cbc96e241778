-------------------------------- MODULE Json --------------------------------
(***************************************************************************)
(* json.hpp: the parser and the writer.                                    *)
(*                                                                         *)
(* A text is a sequence of tokens, spelled as in the file: the structural *)
(* characters, literals, numbers, and the members of Keys for strings.     *)
(* One spelling stands for each case the code tells apart.  White space is *)
(* skipped between any two tokens, so there is none.  What is inside a     *)
(* string is a text of its own, below: bytes, and escapes as one symbol.   *)
(***************************************************************************)
EXTENDS Encodings, SequencesExt

CONSTANTS
    Keys,        \* strings, as object keys or as values
    MaxDepth     \* how deep parseValue nests: 64

Structural == {"[", "]", "{", "}", ",", ":"}
Literals == {"null"}

\* The numbers std::stod reads to their end, with the double it makes of them, named
\* by its shortest spelling.  It also takes spellings JSON does not have (+1, 01, 1.
\* and .5: here +1), and it throws at what does not fit a double (1e999).
stod ==
    [n \in {"1", "+1", "0.123456789", "0.12345678901"} |-> IF n = "+1" THEN "1" ELSE n]

\* What begins no value, or breaks off inside one: a misspelt literal, a number with
\* something after it, a string that parseString refuses.
Malformed == {"nul"}

Tokens == Keys \cup Literals \cup DOMAIN stod \cup {"1e999"} \cup Malformed \cup Structural

Leaf(token) == [type |-> "leaf", token |-> token]
Number(value) == [type |-> "number", value |-> value]
Array(items) == [type |-> "array", items |-> items]
Object(members) == [type |-> "object", members |-> members]

-----------------------------------------------------------------------------
(* The document.                                                           *)

Fail(pos) == [ok |-> FALSE, pos |-> pos]
Done(value, pos) == [ok |-> TRUE, value |-> value, pos |-> pos]
At(t, pos, token) == pos <= Len(t) /\ t[pos] = token

\* Json::set: an existing key keeps its place and gets the new value.
set(members, key, value) ==
    IF \E i \in DOMAIN members : members[i].key = key
    THEN [i \in DOMAIN members |-> IF members[i].key = key THEN [key |-> key, value |-> value] ELSE members[i]]
    ELSE Append(members, [key |-> key, value |-> value])

\* Everything that begins like no other value comes here.
parseNumber(t, pos) ==
    IF t[pos] \in DOMAIN stod THEN Done(Number(stod[t[pos]]), pos + 1) ELSE Fail(pos)

RECURSIVE parseValue(_, _, _), parseArray(_, _, _, _), parseObject(_, _, _, _)

\* depth: how many values this one is inside of.
parseValue(t, pos, depth) ==
    IF depth >= MaxDepth \/ pos > Len(t) THEN Fail(pos)
    ELSE CASE t[pos] \in Literals \cup Keys -> Done(Leaf(t[pos]), pos + 1)
           [] t[pos] = "[" -> IF At(t, pos + 1, "]") THEN Done(Array(<< >>), pos + 2)
                              ELSE parseArray(t, pos + 1, depth + 1, << >>)
           [] t[pos] = "{" -> IF At(t, pos + 1, "}") THEN Done(Object(<< >>), pos + 2)
                              ELSE parseObject(t, pos + 1, depth + 1, << >>)
           [] OTHER -> parseNumber(t, pos)

\* The loops, from the next element or member on.
parseArray(t, pos, depth, items) ==
    LET r == parseValue(t, pos, depth)
    IN IF ~r.ok THEN r
       ELSE IF At(t, r.pos, ",") THEN parseArray(t, r.pos + 1, depth, Append(items, r.value))
       ELSE IF At(t, r.pos, "]") THEN Done(Array(Append(items, r.value)), r.pos + 1)
       ELSE Fail(r.pos)

\* Mutant: the comma after a member is not gone past.
parseObjectStuck(t, pos, depth, members) ==
    LET keyed == pos <= Len(t) /\ t[pos] \in Keys
        r == parseValue(t, pos + 2, depth)
    IN IF ~keyed THEN Fail(pos)
       ELSE IF ~At(t, pos + 1, ":") THEN Fail(pos + 1)
       ELSE IF ~r.ok THEN r
       ELSE IF At(t, r.pos, ",") THEN parseObject(t, r.pos, depth, set(members, t[pos], r.value))
       ELSE IF At(t, r.pos, "}") THEN Done(Object(set(members, t[pos], r.value)), r.pos + 1)
       ELSE Fail(r.pos)

parseObject(t, pos, depth, members) ==
    LET keyed == pos <= Len(t) /\ t[pos] \in Keys
        r == parseValue(t, pos + 2, depth)
    IN IF ~keyed THEN Fail(pos)
       ELSE IF ~At(t, pos + 1, ":") THEN Fail(pos + 1)
       ELSE IF ~r.ok THEN r
       ELSE IF At(t, r.pos, ",") THEN parseObject(t, r.pos + 1, depth, set(members, t[pos], r.value))
       ELSE IF At(t, r.pos, "}") THEN Done(Object(set(members, t[pos], r.value)), r.pos + 1)
       ELSE Fail(r.pos)

\* Json::parse: one value, and nothing after it.
parse(t) ==
    LET r == parseValue(t, 1, 0)
    IN IF r.ok /\ r.pos <= Len(t) THEN Fail(r.pos) ELSE r

\* Mutant: elements are not separated.
JoinedBare(texts) == FoldLeft(LAMBDA a, b : a \o b, << >>, texts)

\* The texts of the elements, with commas between them.
Joined(texts) == FoldLeft(LAMBDA a, b : IF a = << >> THEN b ELSE a \o << "," >> \o b, << >>, texts)

\* %.10g, of a number that is not integral; whatever was read is finite.
writeNumber(value) == IF value = "0.12345678901" THEN "0.123456789" ELSE value

RECURSIVE write(_)
write(value) ==
    CASE value.type = "leaf" -> << value.token >>
      [] value.type = "number" -> << writeNumber(value.value) >>
      [] value.type = "array" ->
            << "[" >> \o Joined([i \in DOMAIN value.items |-> write(value.items[i])]) \o << "]" >>
      [] value.type = "object" ->
            << "{" >> \o Joined([i \in DOMAIN value.members |->
                                    << value.members[i].key, ":" >> \o write(value.members[i].value)])
                      \o << "}" >>

-----------------------------------------------------------------------------
(* The inside of a string, as symbols of module Encodings.                 *)

Quote == 34

\* A backslash that begins no escape: followed by another character than the known
\* ones, by too few hexadecimal digits, by something else than one, or by nothing.
Broken == Escape(65536)

\* The bytes the text of a string stands for, from after its first quote to the next.
\* Two escapes that make a surrogate pair are one character; otherwise each is
\* written as it comes, and so are control characters.
RECURSIVE parseString(_, _)
parseString(s, out) ==
    IF s = << >> \/ s[1] = Broken THEN [ok |-> FALSE]
    ELSE IF s[1] = Quote THEN [ok |-> TRUE, bytes |-> out]
    ELSE IF ~IsEscape(s[1]) THEN parseString(Tail(s), Append(out, s[1]))
    ELSE LET cp == s[1] - 256
             low == s[2] - 256
         IN IF ~(IsHigh(cp) /\ Len(s) > 1 /\ IsEscape(s[2]))
            THEN parseString(Tail(s), out \o appendUtf8(cp))
            ELSE IF s[2] = Broken THEN [ok |-> FALSE]
            ELSE parseString(SubSeq(s, 3, Len(s)),
                             out \o (IF IsLow(low) THEN appendUtf8(Paired(cp, low))
                                     ELSE appendUtf8(cp) \o appendUtf8(low)))

Replacement == << Escape(65533) >>

\* writeString with asciiOnly.  The two-character escapes of quotes, backslashes
\* and the common control characters are escapes like any other.
RECURSIVE writeString(_)
writeString(s) ==
    IF s = << >> THEN << >>
    ELSE LET c == s[1]
         IN IF c < 128
            THEN (IF c < 32 \/ c \in {34, 92} THEN << Escape(c) >> ELSE << c >>) \o writeString(Tail(s))
            ELSE IF Extra(c) = 0 THEN Replacement \o writeString(Tail(s))
            ELSE IF Extra(c) >= Len(s) THEN Replacement
            ELSE IF ~IsSequence(s) THEN Replacement \o writeString(Tail(s))
            ELSE writeEscapedCodePoint(CodePoint(s))
                 \o writeString(SubSeq(s, 2 + Extra(c), Len(s)))
=============================================================================
