--------------------------- MODULE AnnualFigures ---------------------------
(***************************************************************************)
(* The annual figures the analyst reads: xbrl.annual_series picks, among   *)
(* the tags a company may report a line item under and the units of each,  *)
(* the one that reports the latest year, and mark_stale flags the items    *)
(* that stopped being reported long before the anchor, revenue.            *)
(*                                                                         *)
(* What changes is EDGAR's document about the company: a filing states a   *)
(* figure of a period, again or for the first time, in any column (a tag   *)
(* and a unit) and in any order of dates.  The figures are computed from   *)
(* the document as it stands.  Time is in units as coarse as the bounds    *)
(* allow; the value of a figure is its place in its column.                *)
(***************************************************************************)
EXTENDS Integers, Sequences, FiniteSets, SequencesExt

CONSTANTS
    LINE_ITEMS,   \* LINE_ITEMS[i]: the tags of line item i, in order of preference
    Anchor,       \* the item the others are held against
    Units,        \* Units[t]: the units of tag t, in the order the document has them
    Balances,     \* the tags of balances, the others being of flows
    YearDays,     \* _YEAR_DAYS: how long a fiscal year may be
    StaleDays,    \* STALE_DAYS
    Years,        \* how many fiscal years are asked for
    Ends,         \* when the periods end
    MaxDelay,     \* how long after its period a figure is filed, at most
    MaxFacts      \* how many figures are filed

Items == DOMAIN LINE_ITEMS
Tags == UNION {{LINE_ITEMS[i][n] : n \in DOMAIN LINE_ITEMS[i]} : i \in Items}
Columns == UNION {{<<t, Units[t][n]>> : n \in DOMAIN Units[t]} : t \in Tags}

FiguresAssumption ==
    /\ Anchor \in Items
    /\ \A i \in Items : LINE_ITEMS[i] \in Seq(Tags) /\ IsInjective(LINE_ITEMS[i])
    /\ \A t \in Tags : Units[t] \in Seq(ToSet(Units[t]))
    /\ Years \in Nat \ {0} /\ MaxDelay \in Nat \ {0} /\ StaleDays \in Nat /\ MaxFacts \in Nat
    /\ YearDays \subseteq Nat /\ Ends \subseteq Nat

VARIABLE document   \* companyfacts: document[c]: the figures of column c

\* A figure: the days of its period, which of an instant are none; FY: `fp` says so of its filing;
\* annual: the form of its filing is one of _ANNUAL_FORMS.
Fact == [end : Ends, days : YearDays \cup {0, 1}, FY : BOOLEAN, annual : BOOLEAN, filed : Nat]

Init == document = [c \in Columns |-> <<>>]

\* A filing states a balance, or a flow of a year or less.
File(c, end, delay) ==
    \E days \in IF c[1] \in Balances THEN {0} ELSE YearDays \cup {1}, annual \in BOOLEAN :
        document' = [document EXCEPT ![c] = Append(@,
            [end |-> end, days |-> days, FY |-> annual, annual |-> annual, filed |-> end + delay])]

-----------------------------------------------------------------------------
(* annual_points *)

Is_annual(fact) == IF fact.days = 0 THEN fact.FY ELSE fact.days \in YearDays

\* Mutant: a later figure replaces an earlier one, whenever it was filed.
KeptLast(by_end, fact) == {f \in by_end : f.end # fact.end} \cup {fact}

\* One round of the loop: the figure stands for its year unless one filed as late does.
Kept(by_end, fact) ==
    IF \/ ~fact.annual \/ ~Is_annual(fact)
       \/ \E f \in by_end : f.end = fact.end /\ f.filed >= fact.filed
    THEN by_end
    ELSE {f \in by_end : f.end # fact.end} \cup {fact}

NewestFirst(points) == \A m, n \in DOMAIN points : m < n => points[m].end > points[n].end

\* One figure for each end, newest first.
Annual_points(facts) ==
    CHOOSE points \in SetToSeqs(FoldLeft(Kept, {}, facts)) : NewestFirst(points)

-----------------------------------------------------------------------------
(* annual_series and mark_stale *)

NotFound == [found |-> FALSE, tag |-> "none", unit |-> "none", years |-> <<>>, stale |-> FALSE]

\* Mutant: of two tags that report the latest year, the last is taken.
BetterOrEqual(best, points) == ~best.found \/ points[1].end >= best.years[1].end

Better(best, points) == ~best.found \/ points[1].end > best.years[1].end

\* One round of the two loops, over the tags and over the units of each.
Best(best, c) ==
    LET points == Annual_points(document[c]) IN
    IF points # <<>> /\ Better(best, points)
    THEN [found |-> TRUE, tag |-> c[1], unit |-> c[2], years |-> points, stale |-> FALSE]
    ELSE best

Rounds(tags) == FlattenSeq([n \in DOMAIN tags |->
    [m \in DOMAIN Units[tags[n]] |-> <<tags[n], Units[tags[n]][m]>>]])

Annual_series(tags) ==
    LET best == FoldLeft(Best, NotFound, Rounds(tags))
    IN  [best EXCEPT !.years = SubSeq(@, 1, IF Len(@) < Years THEN Len(@) ELSE Years)]

\* Mutant: held against the oldest year that is shown of the anchor.
StaleOldest(series, anchor) ==
    series.found /\ anchor.years[Len(anchor.years)].end - series.years[1].end > StaleDays

Stale(series, anchor) == series.found /\ anchor.years[1].end - series.years[1].end > StaleDays

Mark_stale(items) ==
    IF ~items[Anchor].found THEN items
    ELSE [i \in Items |-> [items[i] EXCEPT !.stale = Stale(items[i], items[Anchor])]]

Annual_financials == Mark_stale([i \in Items |-> Annual_series(LINE_ITEMS[i])])

-----------------------------------------------------------------------------
Filed == FoldFunction(LAMBDA facts, n : n + Len(facts), 0, document)

Next ==
    /\ Filed < MaxFacts
    /\ \E c \in Columns, end \in Ends, delay \in 1..MaxDelay : File(c, end, delay)

Spec == Init /\ [][Next]_document

-----------------------------------------------------------------------------
(* Properties *)

TypeOK == document \in [Columns -> Seq(Fact)]

\* The figures of whole years that annual filings state in a column.
Yearly(c) == {n \in DOMAIN document[c] : document[c][n].annual /\ Is_annual(document[c][n])}
YearEnds(c) == {document[c][n].end : n \in Yearly(c)}
YearEndsOf(i) == UNION {YearEnds(c) : c \in {d \in Columns : d[1] \in ToSet(LINE_ITEMS[i])}}

\* xbrl.py 12-15, sec.py 28: an item is shown in the column that reports its latest year, and of two tags
\* that both do, in the first.
LatestTag ==
    LET figures == Annual_financials IN
    \A i \in Items :
        LET series == figures[i]
            before(tag) == {t \in ToSet(LINE_ITEMS[i]) :
                              \E m, n \in DOMAIN LINE_ITEMS[i] :
                                m < n /\ LINE_ITEMS[i][m] = t /\ LINE_ITEMS[i][n] = tag}
        IN  /\ series.found <=> YearEndsOf(i) # {}
            /\ series.found =>
                 /\ series.years[1].end = Max(YearEndsOf(i))
                 /\ \A c \in Columns : c[1] \in before(series.tag) =>
                      series.years[1].end \notin YearEnds(c)

\* xbrl.py 34: the latest years of that column are shown, none left out between them, newest first and
\* each once, as the latest annual filing stated it.
AsLastStated ==
    LET figures == Annual_financials IN
    \A i \in Items :
        LET series == figures[i]
            c == <<series.tag, series.unit>>
            shown == {series.years[n].end : n \in DOMAIN series.years}
        IN  series.found =>
              /\ \A n \in 2..Len(series.years) : series.years[n].end < series.years[n - 1].end
              /\ \A end \in YearEnds(c) \ shown : Len(series.years) = Years /\ \A e \in shown : end < e
              /\ \A n \in DOMAIN series.years :
                   /\ \E m \in Yearly(c) : document[c][m] = series.years[n]
                   /\ \A m \in Yearly(c) : document[c][m].end = series.years[n].end =>
                        document[c][m].filed <= series.years[n].filed

\* xbrl.py 61-62: where revenue is known, an item that is not flagged is reported of a year that ended
\* no more than STALE_DAYS before the latest of which any revenue is; nor is one flagged that is.
FlaggedIfStale ==
    LET figures == Annual_financials
        revenue == YearEndsOf(Anchor) IN
    \A i \in Items :
        YearEndsOf(i) # {} =>
          (figures[i].stale <=>
             \E end \in revenue : \A e \in YearEndsOf(i) : e + StaleDays < end)

=============================================================================
