------------------------------- MODULE Codec --------------------------------
(***************************************************************************)
(* The encodings on the way between widget, daemon and network, against    *)
(* what the other side makes of them: the JSON text the daemon reads and   *)
(* writes, the base64 the widget decodes, and the checksum of an echo      *)
(* request.  The one variable is an input that grows symbol by symbol.     *)
(***************************************************************************)
EXTENDS Json, Payload

CONSTANTS
    Characters,     \* code points widgets write as they are
    Units,          \* UTF-16 units widgets write as escapes
    Bytes,          \* for base64 and the checksum
    MaxTokens, MaxAnyTokens, MaxText, MaxBytes   \* bounds on the inputs' lengths

Kinds == {"document", "text", "bytes"}

-----------------------------------------------------------------------------
(* The grammar of RFC 8259, over tokens, d levels deep.                    *)

Scalars == Keys \cup Literals \cup {"1", "0.123456789", "0.12345678901", "1e999"}

RECURSIVE IsValue(_, _), IsElements(_, _), IsMembers(_, _)
IsValue(t, d) ==
    /\ d > 0
    /\ \/ Len(t) = 1 /\ t[1] \in Scalars
       \/ /\ Len(t) > 1
          /\ LET inner == SubSeq(t, 2, Len(t) - 1)
             IN \/ t[1] = "[" /\ Last(t) = "]" /\ (inner = << >> \/ IsElements(inner, d - 1))
                \/ t[1] = "{" /\ Last(t) = "}" /\ (inner = << >> \/ IsMembers(inner, d - 1))
IsElements(t, d) ==
    \/ IsValue(t, d)
    \/ \E i \in DOMAIN t : /\ t[i] = ","
                           /\ IsElements(SubSeq(t, 1, i - 1), d)
                           /\ IsValue(SubSeq(t, i + 1, Len(t)), d)
IsMember(t, d) == Len(t) > 2 /\ t[1] \in Keys /\ t[2] = ":" /\ IsValue(SubSeq(t, 3, Len(t)), d)
IsMembers(t, d) ==
    \/ IsMember(t, d)
    \/ \E i \in DOMAIN t : /\ t[i] = ","
                           /\ IsMembers(SubSeq(t, 1, i - 1), d)
                           /\ IsMember(SubSeq(t, i + 1, Len(t)), d)

\* The texts the grammar can complete to a value: an empty one, and a container whose
\* last element or member is whole or can itself be completed.
RECURSIVE Begins(_, _)
Begins(t, d) ==
    LET Element(e) == IsValue(e, d - 1) \/ Begins(e, d - 1)
        Member(e) ==
            /\ d > 1
            /\ e # << >> => e[1] \in Keys
            /\ Len(e) > 1 => e[2] = ":"
            /\ Len(e) > 2 => Element(SubSeq(e, 3, Len(e)))
        inner == Tail(t)
        From(i) == SubSeq(inner, i + 1, Len(inner))
    IN /\ d > 0
       /\ \/ t = << >>
          \/ t \in {<< "[" >>, << "{" >>}
          \/ /\ t[1] = "["
             /\ \/ Element(inner)
                \/ \E i \in DOMAIN inner : /\ inner[i] = "," /\ Element(From(i))
                                           /\ IsElements(SubSeq(inner, 1, i - 1), d - 1)
          \/ /\ t[1] = "{"
             /\ \/ Member(inner)
                \/ \E i \in DOMAIN inner : /\ inner[i] = "," /\ Member(From(i))
                                           /\ IsMembers(SubSeq(inner, 1, i - 1), d - 1)

-----------------------------------------------------------------------------
(* The inputs.                                                             *)

\* A document grows freely while it is short, then as long as the grammar can
\* complete it or the parser has nothing against it but that it ends: neither of
\* the two hides from the other the texts it refuses too early.
MayGrow(t) ==
    /\ Len(t) < MaxTokens
    /\ \/ Len(t) < MaxAnyTokens
       \/ Begins(t, MaxDepth)
       \/ ~parse(t).ok /\ parse(t).pos > Len(t)

\* The tokens a document grows by: every spelling among the first, then one of
\* each kind.
Growth(t) == IF Len(t) < MaxAnyTokens THEN Tokens ELSE Keys \cup {"1"} \cup Structural

Symbols == [char: Characters, escaped: {FALSE}] \cup [char: Units \cup {Broken - 256}, escaped: {TRUE}]
EndQuote == [char |-> Quote, escaped |-> FALSE]
IsOpen(t) == t = << >> \/ Last(t) # EndQuote

Init == input \in [kind: Kinds, is: {<< >>}]

Grow(kind, symbols) ==
    /\ input.kind = kind
    /\ \E x \in symbols : input' = [input EXCEPT !.is = Append(@, x)]

Next ==
    \/ Grow("document", Growth(input.is)) /\ MayGrow(input.is)
    \/ Grow("text", Symbols) /\ IsOpen(input.is) /\ Len(input.is) < MaxText
    \/ Grow("text", {EndQuote}) /\ IsOpen(input.is)
    \/ Grow("bytes", Bytes) /\ Len(input.is) < MaxBytes

Spec == Init /\ [][Next]_input

-----------------------------------------------------------------------------
\* Json::parse accepts the texts the grammar allows and no others, up to the nesting
\* it is limited to and what std::stod makes of numbers: a spelling like +1 is taken
\* for the number 1, and a number that does not fit a double is refused.
ParsesGrammar ==
    input.kind = "document" =>
        LET Respelt(t) == [i \in DOMAIN t |-> IF t[i] = "+1" THEN "1" ELSE t[i]]
        IN parse(input.is).ok <=> /\ IsValue(Respelt(input.is), MaxDepth)
                                  /\ ~Contains(input.is, "1e999")

\* A document that was read and written again is read as the same document, but for
\* its numbers, which keep ten digits: what dump produces is always accepted,
\* duplicate keys and empty containers included, and writing it again changes nothing.
DocumentsSurvive ==
    input.kind = "document" /\ parse(input.is).ok =>
        LET text == write(parse(input.is).value)
            TenDigits(t) == [i \in DOMAIN t |-> IF t[i] = "0.12345678901" THEN "0.123456789" ELSE t[i]]
        IN /\ parse(text).ok
           /\ parse(text).value = parse(TenDigits(input.is)).value
           /\ write(parse(text).value) = text

\* The UTF-16 units of a character, as the widget holds it.
Utf16(cp) ==
    IF cp < 65536 THEN << cp >>
    ELSE << 55296 + (cp - 65536) \div 1024, 56320 + ((cp - 65536) % 1024) >>

\* A string is read exactly when it ends and every backslash in it begins an escape,
\* and then a name comes back to the widget as it left it, unit by unit: whatever
\* mixture of plain characters and escapes it was written with, raw control
\* characters, surrogates that make a pair and ones that do not, what parseString made
\* of it and writeString with asciiOnly made of that is read by the widget's
\* JSON.parse as the same text, and holds ASCII only.
NamesSurvive ==
    input.kind = "text" =>
        LET Concat(texts) == FoldLeft(LAMBDA a, b : a \o b, << >>, texts)
            sent == Concat([i \in DOMAIN input.is |->
                        IF input.is[i].escaped THEN << Escape(input.is[i].char) >>
                        ELSE appendUtf8(input.is[i].char)])
            name == IF IsOpen(input.is) THEN input.is ELSE Front(input.is)
            meant == Concat([i \in DOMAIN name |->
                        IF name[i].escaped THEN << name[i].char >> ELSE Utf16(name[i].char)])
            read == parseString(sent, << >>)
            back == writeString(read.bytes)
        IN /\ read.ok <=> ~IsOpen(input.is) /\ ~Contains(sent, Broken)
           /\ read.ok =>
                /\ \A i \in DOMAIN back : IsEscape(back[i]) \/ back[i] \in 32..127
                /\ [i \in DOMAIN back |-> IF IsEscape(back[i]) THEN back[i] - 256 ELSE back[i]] = meant
=============================================================================
