------------------------------- MODULE Pieces -------------------------------
(***************************************************************************)
(* How a reply is read aloud: speech.pieces cuts it at sentence ends into  *)
(* parts the synthesiser reads well, and speak_pieces has each part read   *)
(* in turn.                                                                *)
(*                                                                         *)
(* Grain: one action is one round of a loop of pieces, or one part read.   *)
(* A text is a sequence of characters: a letter, a blank, or the mark that *)
(* ends a sentence.  Parts are told by where they are in the text: a span  *)
(* is the positions of its first and last character.                       *)
(***************************************************************************)
EXTENDS Integers, Sequences, FiniteSets, SequencesExt

CONSTANTS
    Limit,     \* PIECE_CHARS
    MaxText    \* how many characters the texts have at most

PiecesAssumption == Limit \in Nat \ {0} /\ MaxText \in Nat

Chars == {"w", " ", "."}

VARIABLES
    text,
    rest,       \* the sentences not read yet
    sentence,   \* the sentence being cut, as a set of at most one span
    current,    \* the spans joined so far, a blank between two
    parts,      \* the parts in the order they will be read, each a sequence of spans
    said,       \* how many parts have been read aloud
    speech      \* going; over; failed

vars == <<text, rest, sentence, current, parts, said, speech>>

Span == (1..MaxText) \X (1..MaxText)

Solid == {i \in DOMAIN text : text[i] # " "}

Length(span) == span[2] - span[1] + 1

\* The length of spans joined by a blank.
Size(spans) == FoldLeft(LAMBDA n, span : n + Length(span) + 1, -1, spans)

\* A sentence begins at the first word, or after a mark and blanks.
Begins(i) ==
    LET before == {j \in Solid : j < i}
    IN i \in Solid /\ (before = {} \/ (i - 1 \notin Solid /\ text[Max(before)] = "."))

Sentences ==
    LET starts == {i \in DOMAIN text : Begins(i)}
        Till(i) == Max({k \in Solid : k >= i /\ ~\E j \in starts : i < j /\ j <= k})
        ordered == CHOOSE s \in SetToSeqs(starts) : \A m, n \in DOMAIN s : m < n => s[m] < s[n]
    IN [n \in DOMAIN ordered |-> <<ordered[n], Till(ordered[n])>>]

InitOf(given) ==
    /\ text = given
    /\ rest = Sentences
    /\ sentence = {}
    /\ current = <<>>
    /\ parts = <<>>
    /\ said = 0
    /\ speech = "going"

Init == \E n \in 0..MaxText : \E given \in [1..n -> Chars] : InitOf(given)

-----------------------------------------------------------------------------
(* pieces *)

Take ==
    /\ sentence = {} /\ rest # <<>>
    /\ sentence' = {Head(rest)}
    /\ rest' = Tail(rest)
    /\ UNCHANGED <<text, current, parts, said, speech>>

\* Where a sentence that is too long is cut: at its last blank within the limit, else at the limit.
CutAt(span) ==
    LET blanks == {i \in span[1] + 1 .. span[1] + Limit - 1 : text[i] = " "}
    IN IF blanks = {} THEN span[1] + Limit ELSE Max(blanks)

\* A span from one position up to another, stripped of blanks.
Strip(from, to) ==
    LET solid == {i \in Solid : from <= i /\ i <= to}
    IN <<Min(solid), Max(solid)>>

\* A sentence longer than a part: its beginning is a part by itself.
Cut(span) ==
    /\ Length(span) > Limit
    /\ parts' = Append(parts, <<Strip(span[1], CutAt(span) - 1)>>)
    /\ sentence' = {Strip(CutAt(span), span[2])}
    /\ UNCHANGED <<text, rest, current, said, speech>>

\* Mutant: the blank between two sentences is not counted.
JoinTight(span) ==
    /\ Length(span) <= Limit
    /\ IF current # <<>> /\ Size(current) + Length(span) > Limit
       THEN parts' = Append(parts, current) /\ current' = <<span>>
       ELSE current' = Append(current, span) /\ UNCHANGED parts
    /\ sentence' = {}
    /\ UNCHANGED <<text, rest, said, speech>>

\* What is left of a sentence joins those before it, if they fit in a part together.
Join(span) ==
    /\ Length(span) <= Limit
    /\ IF current # <<>> /\ Size(current) + 1 + Length(span) > Limit
       THEN parts' = Append(parts, current) /\ current' = <<span>>
       ELSE current' = Append(current, span) /\ UNCHANGED parts
    /\ sentence' = {}
    /\ UNCHANGED <<text, rest, said, speech>>

Split == rest = <<>> /\ sentence = {} /\ current = <<>>

\* Mutant: what is left when the sentences are over is not a part.
CloseEmpty ==
    /\ rest = <<>> /\ sentence = {} /\ current # <<>>
    /\ current' = <<>>
    /\ UNCHANGED <<text, rest, sentence, parts, said, speech>>

Close ==
    /\ rest = <<>> /\ sentence = {} /\ current # <<>>
    /\ parts' = Append(parts, current)
    /\ current' = <<>>
    /\ UNCHANGED <<text, rest, sentence, said, speech>>

-----------------------------------------------------------------------------
(* speak_pieces *)

\* The speech service reads a part, or does not answer: what was read so far is all there is.
Say ==
    /\ Split /\ speech = "going"
    /\ IF said = Len(parts) THEN speech' = "over" /\ UNCHANGED said
       ELSE \/ said' = said + 1 /\ UNCHANGED speech
            \/ speech' = "failed" /\ UNCHANGED said
    /\ UNCHANGED <<text, rest, sentence, current, parts>>

Next ==
    \/ Take
    \/ \E span \in sentence : Cut(span) \/ Join(span)
    \/ Close
    \/ Say

Spec == Init /\ [][Next]_vars

-----------------------------------------------------------------------------
(* Properties *)

TypeOK ==
    /\ rest \in Seq(Span)
    /\ sentence \subseteq Span /\ Cardinality(sentence) <= 1
    /\ current \in Seq(Span)
    /\ parts \in Seq(Seq(Span))
    /\ said \in 0..Len(parts)
    /\ speech \in {"going", "over", "failed"}

\* speech.py 56-57: no part is longer than the limit, the blanks that join its sentences included.
PiecesFit == \A n \in DOMAIN parts : Size(parts[n]) \in 1..Limit

\* The characters of a part, by their positions.
Positions(part) == UNION {part[k][1]..part[k][2] : k \in DOMAIN part}

\* speech.py 76-77: a text read to the end was read whole, and no word of it twice.
ReadWhole ==
    speech = "over" =>
        /\ Solid \subseteq UNION {Positions(parts[n]) : n \in DOMAIN parts}
        /\ \A m, n \in DOMAIN parts : m # n => Positions(parts[m]) \cap Positions(parts[n]) = {}

\* speech.py 56-57: the parts are in the order of the text.  They are not: a sentence cut for its
\* length goes before the short ones that still waited to be joined.
PiecesInOrder ==
    \A m, n \in 1..said : m < n =>
        \A i \in Positions(parts[m]), j \in Positions(parts[n]) : i < j

=============================================================================
