------------------------------- MODULE Redact -------------------------------
(***************************************************************************)
(* ReasoningFilter: what of a model's reasoning is sent while it arrives   *)
(* in fragments, until the first flush.  A character is kept with its      *)
(* place in the reasoning; the text that replaces a value has place 0.     *)
(* There are as few kinds of characters as the patterns tell apart, and no *)
(* <think> marks, which are removed before anything else is looked at.     *)
(***************************************************************************)
EXTENDS Naturals, Sequences, SequencesExt, FiniteSetsExt

CONSTANTS
    Chars,         \* the characters reasoning is made of
    WordChars,     \* those of them that are word characters
    Spaces,        \* those at which text may be cut
    TagEnds,       \* those that may follow the name of a tag
    Secrets,       \* the values to redact
    Tag,           \* how a prompt block's tag begins
    MAX_HOLDS,
    MaxFragment,   \* the longest fragment
    MaxText        \* the longest reasoning

RedactAssumption ==
    /\ WordChars \subseteq Chars /\ Spaces \subseteq Chars /\ TagEnds \subseteq Chars
    /\ "redacted" \notin Chars
    /\ IsFiniteSet(Secrets)
    /\ \A s \in Secrets \cup {Tag} : s \in Seq(Chars) /\ s # <<>>
    \* "</?name" has no space, and < only at its beginning.
    /\ \A i \in DOMAIN Tag : Tag[i] \notin Spaces /\ (Tag[i] = Tag[1] => i = 1)
    /\ Tag[1] \notin TagEnds
    \* No address or name of a place begins with what ends a tag: redacted, it would hide the tag before it.
    /\ \A s \in Secrets : s[1] \notin TagEnds
    /\ MAX_HOLDS \in Nat /\ MAX_HOLDS > 1
    /\ MaxFragment \in Nat /\ MaxText \in Nat

VARIABLES
    text,      \* history, the reasoning that arrived
    buffer,    \* what is held back
    sent,      \* history, the places that were sent, in the order they were sent
    dropped,   \* history, the places of the pieces that were dropped
    over       \* the reasoning was flushed

vars == <<text, buffer, sent, dropped, over>>

Redacted == [c |-> "redacted", at |-> 0]
Char == [c : Chars \cup {"redacted"}, at : 0..MaxText]

\* The longest pattern: a tag is followed by one more character.
Hold == Max({Len(Tag) + 1} \cup {Len(s) : s \in Secrets})

-----------------------------------------------------------------------------
(* Patterns *)

Chars_of(t) == [i \in DOMAIN t |-> t[i].c]

At(t, i, pattern) == i + Len(pattern) - 1 <= Len(t) /\ SubSeq(t, i, i + Len(pattern) - 1) = pattern

\* (?<!\w)value(?=\W), or at the end of the text when nothing more can come.
ValueAt(t, i, value, closed) ==
    LET next == i + Len(value) IN
    /\ At(t, i, value)
    /\ i > 1 => t[i - 1] \notin WordChars
    /\ IF next > Len(t) THEN closed ELSE t[next] \notin WordChars

\* The longest of the values found at i.
Found(t, i, closed) == {Len(s) : s \in {v \in Secrets : ValueAt(t, i, v, closed)}}

\* </?tag(?=[\s>/])
TagAt(t, i) == At(t, i, Tag) /\ i + Len(Tag) <= Len(t) /\ t[i + Len(Tag)] \in TagEnds

\* _clean: every value replaced, from left to right.
Clean(t, closed) ==
    LET c == Chars_of(t)
        rest[i \in 1..Len(t) + 1] ==
            IF i > Len(t) THEN <<>>
            ELSE LET found == Found(c, i, closed) IN
                 IF found = {} THEN <<t[i]>> \o rest[i + 1]
                               ELSE <<Redacted>> \o rest[i + Max(found)]
    IN rest[1]

-----------------------------------------------------------------------------
(* feed and flush *)

\* Mutant: whatever is there is cut at the last space.
CutAnywhere(b) == Max({0} \cup {i \in DOMAIN b : b[i].c \in Spaces})

\* Mutant: a long run is cut wherever the limit falls.
CutBlind(b) ==
    LET limit == IF Len(b) > Hold THEN Len(b) - Hold ELSE 0
        space == Max({0} \cup {i \in 1..limit : b[i].c \in Spaces})
    IN IF space > 0 THEN space
       ELSE IF Len(b) > MAX_HOLDS * Hold THEN limit ELSE 0

\* How much of what is held can go: up to a space as far back as the longest pattern, or a long
\* run without one up to there, unless a tag may begin just before.
Cut(b) ==
    LET limit == IF Len(b) > Hold THEN Len(b) - Hold ELSE 0
        space == Max({0} \cup {i \in 1..limit : b[i].c \in Spaces})
        tag == Max({0} \cup {i \in limit - Hold + 1..limit : b[i].c = Tag[1]})
    IN IF space > 0 THEN space
       ELSE IF Len(b) > MAX_HOLDS * Hold THEN (IF tag > 1 THEN tag - 1 ELSE limit)
       ELSE 0

Quotes(t) == \E i \in DOMAIN t : TagAt(Chars_of(t), i)

\* The places of a piece.  A redacted value has none to be sent.
Places(piece) == FlattenSeq([k \in DOMAIN piece |-> IF piece[k].at = 0 THEN <<>> ELSE <<piece[k].at>>])

\* Mutant: a piece with a redacted value is dropped too.
SendUnredacted(piece) ==
    IF Quotes(piece) \/ Len(Places(piece)) < Len(piece)
      THEN dropped' = dropped \cup ToSet(Places(piece)) /\ UNCHANGED sent
      ELSE sent' = sent \o Places(piece) /\ UNCHANGED dropped

\* _guard: a piece that quotes a tag is dropped.
Send(piece) ==
    IF Quotes(piece) THEN dropped' = dropped \cup ToSet(Places(piece)) /\ UNCHANGED sent
                     ELSE sent' = sent \o Places(piece) /\ UNCHANGED dropped

Init ==
    /\ text = <<>>
    /\ buffer = <<>>
    /\ sent = <<>>
    /\ dropped = {}
    /\ over = FALSE

Feed ==
    /\ ~over
    /\ \E n \in 1..MaxFragment : \E fragment \in [1..n -> Chars] :
         LET came == [i \in 1..n |-> [c |-> fragment[i], at |-> Len(text) + i]]
             held == Clean(buffer \o came, FALSE)
             cut == Cut(held)
         IN /\ Len(text) + n <= MaxText
            /\ text' = text \o fragment
            /\ buffer' = SubSeq(held, cut + 1, Len(held))
            /\ Send(SubSeq(held, 1, cut))
    /\ UNCHANGED over

Flush ==
    /\ ~over
    /\ over' = TRUE
    /\ buffer' = <<>>
    /\ Send(Clean(buffer, TRUE))
    /\ UNCHANGED text

Next == Feed \/ Flush

Spec == Init /\ [][Next]_vars

-----------------------------------------------------------------------------
(* Properties *)

TypeOK ==
    /\ text \in Seq(Chars) /\ Len(text) <= MaxText
    /\ buffer \in Seq(Char)
    /\ sent \in Seq(1..MaxText)
    /\ dropped \subseteq 1..MaxText
    /\ over \in BOOLEAN

Between(i, n) == i..i + n - 1

\* redact.py 3-4 and 12-13: a value that is a word of its own is never sent whole, wherever the
\* fragments and the cuts divide it.
NoValueSent ==
    \A i \in DOMAIN text, s \in Secrets :
        ValueAt(text, i, s, over) => ~(Between(i, Len(s)) \subseteq ToSet(sent))

\* redact.py 6-7 and 12-14: nor is a tag.
NoTagSent ==
    \A i \in DOMAIN text : TagAt(text, i) => ~(Between(i, Len(Tag)) \subseteq ToSet(sent))

\* redact.py 74-75: when the call ended, everything was sent once, in order, but the values and the
\* pieces that quote a tag.
RestIsSent ==
    /\ \A i, j \in DOMAIN sent : i < j => sent[i] < sent[j]
    /\ over => \A i \in DOMAIN text :
         \/ i \in ToSet(sent)
         \/ i \in dropped /\ \E j \in DOMAIN text : TagAt(text, j)
         \/ \E s \in Secrets, j \in 1..i : At(text, j, s) /\ i \in Between(j, Len(s))

=============================================================================
