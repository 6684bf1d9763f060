---------------------------- MODULE AnswerProofs ----------------------------
(***************************************************************************)
(* Proofs about MCJobAnswer's parts: for any events, batches, lengths and  *)
(* routes, what a read yields and why it ends, what a caller is told, and  *)
(* what is recorded of an answer; for any number of redrafts, reminders,   *)
(* attempts and steps, what a run of the pipeline saves and tells; for any *)
(* tags, units and figures, what is shown of a line item; and for any text *)
(* and limit, what is read aloud.                                          *)
(***************************************************************************)
EXTENDS MCJobAnswer, SequenceTheorems, FiniteSetTheorems, WellFoundedInduction, TLAPS

-----------------------------------------------------------------------------
(* EventRead: a read, its batch, and what it has yielded *)

\* Only an expiry moves the start of the stream, or makes the status unknown; the job is marked after
\* its outcome.
RecordsStand ==
    /\ first # 1 => "stream" \in expired
    /\ status = "gone" => "hash" \in expired
    /\ status \in FINISHED => Outcomes # {}

\* What was yielded, up to the id the next read starts after.
Yielded ==
    /\ gen.after = IF got = <<>> THEN gen.from ELSE got[Len(got)]
    /\ gen.after <= Len(log)
    /\ \A n \in 1..Len(got) : got[n] > gen.from + n - 1 /\ got[n] <= gen.after
    /\ \A m, n \in 1..Len(got) : m < n => got[m] < got[n]
    /\ first = 1 => /\ gen.after = gen.from + Len(got)
                    /\ \A n \in 1..Len(got) : got[n] = gen.from + n

\* What was read and not yielded, which leaves no gap while nothing expired.
BatchStands ==
    /\ \A i \in gen.batch : i > gen.after /\ i <= Len(log)
    /\ first = 1 => \A i \in gen.batch, j \in Ids : j > gen.after /\ j <= i => j \in gen.batch

\* An outcome ends the read; what else ends it was seen before the last look at the stream.
EndsRead ==
    /\ \A n \in 1..Len(got) : log[got[n]] \in TERMINAL => n = Len(got) /\ gen.at \in {"over", "closed"}
    /\ gen.finishing = TRUE => Outcomes # {} \/ expired # {}
    /\ gen.at = "exists" => gen.after > 0
    /\ EndsForAReason

ReadInv ==
    /\ ReadTypeOK
    /\ RecordsStand
    /\ Yielded
    /\ BatchStands
    /\ EndsRead

LEMMA ReadTypes ==
    ASSUME ReadTypeOK
    PROVE  /\ MaxLog \in Nat /\ Len(log) \in Nat /\ Len(log) <= MaxLog /\ Len(got) \in Nat
           /\ DOMAIN got = 1..Len(got) /\ \A n \in 1..Len(got) : got[n] \in Ids
           /\ gen.after \in Nat /\ gen.from \in Nat /\ gen.batch \subseteq Ids
           /\ first \in Nat /\ first >= 1
           /\ gen \in Generator
BY ReadAssumption DEF ReadTypeOK, Generator, Ids

\* The log only grows.
LEMMA LogGrows ==
    ASSUME ReadInv, NEW e \in Events \cup TERMINAL, Len(log) < MaxLog, log' = Append(log, e),
           UNCHANGED <<first, status, expired, gen, late, got>>
    PROVE  ReadInv'
<1>1. PICK L \in Nat : L = Len(log)
    BY ReadTypes DEF ReadInv
<1>2. /\ log' \in Seq(Events \cup TERMINAL) /\ Len(log') = L + 1
      /\ \A i \in 1..L : log'[i] = log[i]
    BY <1>1 DEF ReadInv, ReadTypeOK
<1>3. ReadTypeOK'
    BY <1>1, <1>2, ReadTypes DEF ReadInv, ReadTypeOK
<1>4. Outcomes \subseteq Outcomes'
    BY <1>1, <1>2 DEF Outcomes
<1>5. RecordsStand' /\ Yielded' /\ BatchStands'
    <2>1. RecordsStand'
        BY <1>4 DEF ReadInv, RecordsStand
    <2>2. L <= Len(log')
        BY <1>2
    <2>3. Yielded'
        BY <1>1, <2>2, <1>2, ReadTypes DEF ReadInv, Yielded
    <2>4. BatchStands'
        BY <1>1, <1>2, ReadTypes DEF ReadInv, BatchStands, Ids
    <2> QED
        BY <2>1, <2>3, <2>4
<1>6. \A n \in 1..Len(got) : log'[got[n]] = log[got[n]]
    <2>1. ASSUME NEW n \in 1..Len(got)
          PROVE  got[n] \in 1..L
        BY <1>1, <2>1, ReadTypes DEF ReadInv, Yielded, Ids
    <2> QED
        BY <1>2, <2>1
<1>7. EndsForAReason'
    <2>1. Len(got) \in Nat /\ (got # <<>> => Len(got) \in 1..Len(got))
        BY ReadTypes DEF ReadInv, ReadTypeOK
    <2> QED
        BY <1>4, <1>6, <2>1 DEF ReadInv, EndsRead, EndsForAReason
<1>8. EndsRead'
    BY <1>4, <1>6, <1>7 DEF ReadInv, EndsRead
<1> QED
    BY <1>3, <1>5, <1>8 DEF ReadInv

\* The worker's steps and the expiries.
LEMMA WorldKept ==
    ASSUME ReadInv, World
    PROVE  ReadInv'
<1>1. CASE Publish
    BY <1>1, LogGrows DEF Publish
<1>2. CASE Abandon
    BY <1>2, LogGrows DEF Abandon, TERMINAL
<1>3. CASE Mark
    <2>1. /\ UNCHANGED <<log, first, expired, gen, late, got>>
          /\ status' \in {"going"} \cup FINISHED /\ (status' \in FINISHED => Outcomes # {})
        BY <1>3 DEF Mark, FINISHED
    <2>2. ReadTypeOK'
        BY <2>1 DEF ReadInv, ReadTypeOK
    <2>3. RecordsStand'
        BY <2>1 DEF ReadInv, RecordsStand, Outcomes, FINISHED
    <2> QED
        BY <2>1, <2>2, <2>3 DEF ReadInv, Yielded, BatchStands, EndsRead, EndsForAReason, Outcomes
<1>4. CASE Expire
    <2>1. /\ UNCHANGED <<log, gen, late, got>> /\ expired' # {} /\ expired \subseteq expired'
          /\ \/ first' = Len(log) + 1 /\ UNCHANGED status
             \/ status' = "gone" /\ UNCHANGED first
          /\ first' # first => "stream" \in expired' /\ first <= Len(log)
          /\ status' # status => "hash" \in expired'
          /\ expired' \subseteq Expiring
        BY <1>4 DEF Expire, ExistsStream, ReadInv, ReadTypeOK
    <2>2. ReadTypeOK'
        BY <2>1, ReadTypes DEF ReadInv, ReadTypeOK
    <2>3. RecordsStand'
        BY <2>1 DEF ReadInv, RecordsStand, Outcomes, FINISHED
    <2>4. first' = 1 => first = 1
        BY <2>1, ReadTypes DEF ReadInv
    <2>5. Yielded' /\ BatchStands'
        BY <2>1, <2>4 DEF ReadInv, Yielded, BatchStands, Ids
    <2>6. EndsRead'
        BY <2>1 DEF ReadInv, EndsRead, EndsForAReason, Outcomes
    <2> QED
        BY <2>2, <2>3, <2>5, <2>6 DEF ReadInv
<1> QED
    BY <1>1, <1>2, <1>3, <1>4 DEF World

LEMMA DeadlineKept ==
    ASSUME ReadInv, Deadline
    PROVE  ReadInv'
<1>1. late' = TRUE /\ UNCHANGED <<log, first, status, expired, gen, got>>
    BY DEF Deadline, records
<1>2. ReadTypeOK' /\ RecordsStand'
    BY <1>1 DEF ReadInv, ReadTypeOK, RecordsStand, Outcomes
<1>3. Yielded' /\ BatchStands' /\ EndsRead'
    BY <1>1 DEF ReadInv, Yielded, BatchStands, Ids, EndsRead, EndsForAReason, Outcomes
<1> QED
    BY <1>2, <1>3 DEF ReadInv

\* A read is opened after an event that was published, if any.
LEMMA OpenKept ==
    ASSUME ReadInv, NEW at \in Nat, at <= Len(log), Open(at)
    PROVE  ReadInv'
<1>1. /\ gen' = [at |-> "read", from |-> at, after |-> at, batch |-> {}, finishing |-> FALSE]
      /\ got' = <<>> /\ late' = FALSE /\ UNCHANGED <<log, first, status, expired>>
    BY DEF Open, records
<1>2. /\ gen'.at = "read" /\ gen'.from = at /\ gen'.after = at /\ gen'.batch = {}
      /\ gen'.finishing = FALSE /\ Len(got') = 0
    BY <1>1
<1>3. gen' \in Generator
    BY <1>1, ReadTypes DEF ReadInv, Generator
<1>4. ReadTypeOK' /\ RecordsStand'
    <2>1. <<>> \in Seq(Ids)
        OBVIOUS
    <2>2. ReadTypeOK'
        BY <1>1, <1>3, <2>1 DEF ReadInv, ReadTypeOK
    <2> QED
        BY <1>1, <2>2 DEF ReadInv, RecordsStand, Outcomes
<1>5. Yielded'
    BY <1>1, <1>2 DEF Yielded
<1>6. BatchStands' /\ EndsRead'
    BY <1>2 DEF BatchStands, EndsRead, EndsForAReason
<1> QED
    BY <1>4, <1>5, <1>6 DEF ReadInv

\* Hanging up closes the generator where it stands.
LEMMA CloseKept ==
    ASSUME ReadInv, gen' = [gen EXCEPT !.at = "closed", !.batch = {}, !.finishing = FALSE],
           UNCHANGED <<records, late, got>>
    PROVE  ReadInv'
<1>1. gen \in Generator /\ UNCHANGED <<log, first, status, expired, late, got>>
    BY ReadTypes DEF ReadInv, records
<1>2. /\ gen'.at = "closed" /\ gen'.from = gen.from /\ gen'.after = gen.after /\ gen'.batch = {}
      /\ gen'.finishing = FALSE /\ gen' \in Generator
    BY <1>1 DEF Generator
<1>3. ReadTypeOK' /\ RecordsStand'
    BY <1>1, <1>2 DEF ReadInv, ReadTypeOK, RecordsStand, Outcomes
<1>4. Yielded' /\ BatchStands' /\ EndsRead'
    BY <1>1, <1>2 DEF ReadInv, Yielded, BatchStands, EndsRead, EndsForAReason
<1> QED
    BY <1>3, <1>4 DEF ReadInv

\* A step of the generator that yields nothing, and reads no batch.
LEMMA PollStands ==
    ASSUME ReadInv, NEW at \in {"read", "status", "exists", "over"}, NEW finishing \in BOOLEAN,
           gen.at \notin {"over", "closed"},
           gen' = [gen EXCEPT !.at = at, !.finishing = finishing],
           UNCHANGED <<records, late, got>>,
           finishing = TRUE => Outcomes # {} \/ expired # {},
           at = "exists" => gen.after > 0,
           at = "over" => late = TRUE \/ expired # {} \/ \E i \in Outcomes : i <= gen.from
    PROVE  ReadInv'
<1>1. gen \in Generator /\ UNCHANGED <<log, first, status, expired, late, got>>
    BY ReadTypes DEF ReadInv, records
<1>2. /\ gen'.at = at /\ gen'.from = gen.from /\ gen'.after = gen.after /\ gen'.batch = gen.batch
      /\ gen'.finishing = finishing /\ gen' \in Generator
    BY <1>1 DEF Generator
<1>3. ReadTypeOK' /\ RecordsStand'
    BY <1>1, <1>2 DEF ReadInv, ReadTypeOK, RecordsStand, Outcomes
<1>4. Yielded' /\ BatchStands'
    BY <1>1, <1>2 DEF ReadInv, Yielded, BatchStands, Ids
<1>5. EndsRead'
    BY <1>1, <1>2 DEF ReadInv, EndsRead, EndsForAReason, Outcomes
<1> QED
    BY <1>3, <1>4, <1>5 DEF ReadInv

\* The last look at the stream of a job that is over finds the outcome read, or lost.
LEMMA NothingLeft ==
    ASSUME ReadInv, gen.at = "read", gen.finishing = TRUE, Left = {}
    PROVE  expired # {} \/ \E i \in Outcomes : i <= gen.from
<1>1. SUFFICES ASSUME expired = {}
               PROVE  \E i \in Outcomes : i <= gen.from
    OBVIOUS
<1>2. first = 1
    BY <1>1 DEF ReadInv, RecordsStand
<1>3. PICK i \in Outcomes : TRUE
    BY <1>1 DEF ReadInv, EndsRead
<1>4. i \in 1..Len(log) /\ log[i] \in TERMINAL
    BY DEF Outcomes
<1>5. i <= gen.after
    BY <1>2, <1>4, ReadTypes DEF ReadInv, Left
<1>6. CASE i > gen.from
    <2>1. PICK n \in Nat : n = i - gen.from
        BY <1>4, <1>6, ReadTypes DEF ReadInv
    <2>2. n \in 1..Len(got)
        BY <1>2, <1>4, <1>5, <1>6, <2>1, ReadTypes DEF ReadInv, Yielded
    <2>3. got[n] = i
        BY <1>2, <1>4, <2>1, <2>2, ReadTypes DEF ReadInv, Yielded
    <2> QED
        BY <1>4, <2>2, <2>3 DEF ReadInv, EndsRead
<1> QED
    BY <1>4, <1>6, ReadTypes DEF ReadInv

LEMMA PollKept ==
    ASSUME ReadInv, Poll
    PROVE  ReadInv'
<1>1. gen \in Generator /\ gen.finishing \in BOOLEAN
    BY ReadTypes DEF ReadInv, Generator
<1>2. CASE Read
    <2>1. gen.at = "read" /\ UNCHANGED <<records, late, got>>
        BY <1>2 DEF Read
    <2>2. CASE late = TRUE
        <3>1. gen' = [gen EXCEPT !.at = "over"]
            BY <1>2, <2>2 DEF Read
        <3>2. gen' = [gen EXCEPT !.at = "over", !.finishing = gen.finishing]
            BY <1>1, <3>1 DEF Generator
        <3> QED
            BY <1>1, <2>1, <2>2, <3>2, PollStands DEF ReadInv, EndsRead
    <2>3. CASE late # TRUE /\ Left = {}
        <3>1. PICK at \in {"over", "status"} : /\ at = IF gen.finishing THEN "over" ELSE "status"
                                             /\ gen' = [gen EXCEPT !.at = at]
            BY <1>2, <2>3 DEF Read, ReadInv, ReadTypeOK
        <3>2. gen' = [gen EXCEPT !.at = at, !.finishing = gen.finishing]
            BY <1>1, <3>1 DEF Generator
        <3>3. at = "over" => expired # {} \/ \E i \in Outcomes : i <= gen.from
            BY <1>1, <2>1, <2>3, <3>1, NothingLeft
        <3> QED
            BY <1>1, <2>1, <3>2, <3>3, PollStands DEF ReadInv, EndsRead
    <2>4. CASE late # TRUE /\ Left # {}
        <3>1. PICK batch \in SUBSET Left :
                 /\ gen' = [gen EXCEPT !.at = "yield", !.batch = batch]
                 /\ batch = {i \in Left : i <= gen.after + ReadCount \/ i < first + ReadCount}
            BY <1>2, <2>4 DEF Read, ReadInv, ReadTypeOK
        <3>2. UNCHANGED <<log, first, status, expired, late, got>>
            BY <2>1 DEF records
        <3>3. Left \subseteq Ids /\ \A i \in Left : i > gen.after /\ i <= Len(log)
            BY ReadTypes DEF ReadInv, Left, Ids
        <3>4. /\ gen'.at = "yield" /\ gen'.from = gen.from /\ gen'.after = gen.after
              /\ gen'.batch = batch /\ gen'.finishing = gen.finishing /\ gen' \in Generator
            BY <1>1, <3>1, <3>3 DEF Generator
        <3>5. first = 1 => \A i \in batch, j \in Ids : j > gen.after /\ j <= i => j \in batch
            BY <3>1, <3>3, ReadTypes, ReadAssumption DEF ReadInv, Left, Ids
        <3>6. ReadTypeOK' /\ RecordsStand' /\ Yielded'
            BY <3>2, <3>4 DEF ReadInv, ReadTypeOK, RecordsStand, Outcomes, Yielded
        <3>7. BatchStands'
            BY <3>1, <3>2, <3>3, <3>4, <3>5 DEF BatchStands
        <3>8. EndsRead'
            BY <2>1, <3>2, <3>4 DEF ReadInv, EndsRead, EndsForAReason, Outcomes
        <3> QED
            BY <3>6, <3>7, <3>8 DEF ReadInv
    <2> QED
        BY <2>2, <2>3, <2>4
<1>3. CASE Status
    <2>1. gen.at = "status" /\ UNCHANGED <<records, late, got>>
        BY <1>3 DEF Status
    <2>2. CASE status \in FINISHED \cup {"gone"}
        <3>1. gen' = [gen EXCEPT !.at = "read", !.finishing = TRUE]
            BY <1>3, <2>2 DEF Status
        <3>2. Outcomes # {} \/ expired # {}
            BY <2>2 DEF ReadInv, RecordsStand
        <3> QED
            BY <2>1, <3>1, <3>2, PollStands
    <2>3. CASE status \notin FINISHED \cup {"gone"}
        <3>1. PICK at \in {"read", "exists"} : /\ at = IF gen.after = 0 THEN "read" ELSE "exists"
                                             /\ gen' = [gen EXCEPT !.at = at]
            BY <1>3, <2>3 DEF Status
        <3>2. gen' = [gen EXCEPT !.at = at, !.finishing = gen.finishing]
            BY <1>1, <3>1 DEF Generator
        <3>3. at = "exists" => gen.after > 0
            BY <3>1, ReadTypes DEF ReadInv
        <3> QED
            BY <1>1, <2>1, <3>2, <3>3, PollStands DEF ReadInv, EndsRead
    <2> QED
        BY <2>2, <2>3
<1>4. CASE Exists
    <2>1. gen.at = "exists" /\ UNCHANGED <<records, late, got>>
        BY <1>4 DEF Exists
    <2>2. PICK finishing \in BOOLEAN : finishing = ~ExistsStream
        BY DEF ExistsStream
    <2>3. gen' = [gen EXCEPT !.at = "read", !.finishing = finishing]
        BY <1>4, <2>2 DEF Exists
    <2>4. finishing = TRUE => expired # {}
        <3>1. gen.after > 0 /\ gen.after <= Len(log)
            BY <2>1 DEF ReadInv, EndsRead, Yielded
        <3>2. finishing = TRUE => ~(first <= Len(log))
            BY <2>2 DEF ExistsStream
        <3>3. first = 1 => first <= Len(log)
            BY <3>1, ReadTypes DEF ReadInv
        <3> QED
            BY <3>2, <3>3 DEF ReadInv, RecordsStand
    <2> QED
        BY <2>1, <2>3, <2>4, PollStands
<1> QED
    BY <1>2, <1>3, <1>4 DEF Poll

\* The least of the batch is yielded.
LEMMA YieldKept ==
    ASSUME ReadInv, NEW i \in gen.batch, Yield(i)
    PROVE  ReadInv'
<1>1. /\ gen.at = "yield" /\ (\A j \in gen.batch : i <= j) /\ got' = Append(got, i)
      /\ UNCHANGED <<log, first, status, expired, late>>
    BY DEF Yield, records
<1>2. /\ gen \in Generator /\ i \in Ids /\ i \in Nat /\ gen.batch \subseteq Ids
      /\ i \in 0..MaxLog /\ gen.batch \ {i} \in SUBSET Ids
    BY ReadTypes DEF ReadInv, Ids
<1>3. PICK at \in {"over", "read", "yield"} :
         /\ log[i] \in TERMINAL => at = "over"
         /\ at = "over" => log[i] \in TERMINAL
         /\ gen' = [gen EXCEPT !.after = i, !.batch = @ \ {i}, !.at = at]
    BY DEF Yield
<1>4. /\ gen'.at = at /\ gen'.from = gen.from /\ gen'.after = i /\ gen'.batch = gen.batch \ {i}
      /\ gen'.finishing = gen.finishing /\ gen' \in Generator
    <2>1. /\ gen'.at = at /\ gen'.from = gen.from /\ gen'.after = i
          /\ gen'.batch = gen.batch \ {i} /\ gen'.finishing = gen.finishing
        BY <1>2, <1>3 DEF Generator
    <2>2. gen' \in Generator
        BY <1>2, <1>3 DEF Generator
    <2> QED
        BY <2>1, <2>2
<1>5. PICK n \in Nat : n = Len(got)
    BY ReadTypes DEF ReadInv
<1>6. /\ got' \in Seq(Ids) /\ Len(got') = n + 1 /\ got'[n + 1] = i /\ got' # <<>>
      /\ \A m \in 1..n : got'[m] = got[m]
    BY <1>1, <1>2, <1>5 DEF ReadInv, ReadTypeOK
<1>7. /\ \A m \in 1..n : got[m] \in Nat /\ got[m] > gen.from + m - 1 /\ got[m] <= gen.after
      /\ gen.from + n <= gen.after /\ gen.from \in Nat /\ gen.after \in Nat
    <2>1. /\ \A m \in 1..n : got[m] \in Nat /\ got[m] > gen.from + m - 1 /\ got[m] <= gen.after
          /\ gen.from \in Nat /\ gen.after \in Nat
        BY <1>5, ReadTypes DEF ReadInv, Yielded, Ids
    <2>2. CASE n = 0
        <3>1. got \in Seq(Ids)
            BY DEF ReadInv, ReadTypeOK
        <3>2. got = <<>>
            BY <1>5, <2>2, <3>1, EmptySeq
        <3> QED
            BY <2>1, <2>2, <3>2 DEF ReadInv, Yielded
    <2>3. CASE n # 0
        <3>1. n \in 1..n
            BY <2>3
        <3> QED
            BY <2>1, <3>1
    <2> QED
        BY <2>1, <2>2, <2>3
<1>8. i > gen.after /\ i <= Len(log)
    BY DEF ReadInv, BatchStands
<1>9. first = 1 => i = gen.after + 1
    <2>1. first = 1 => \A j \in Ids : j > gen.after /\ j <= i => j \in gen.batch
        BY DEF ReadInv, BatchStands
    <2>2. gen.after + 1 \in Ids /\ gen.after + 1 <= i
        BY <1>2, <1>7, <1>8, ReadTypes DEF ReadInv, Ids
    <2>3. first = 1 => i <= gen.after + 1
        BY <1>1, <1>7, <2>1, <2>2
    <2> QED
        BY <1>2, <1>7, <1>8, <2>3 DEF Ids
<1>10. ReadTypeOK' /\ RecordsStand'
    BY <1>1, <1>4, <1>6 DEF ReadInv, ReadTypeOK, RecordsStand, Outcomes
<1>11. Yielded'
    <2>1. gen'.after = got'[Len(got')] /\ gen'.after <= Len(log')
        BY <1>1, <1>4, <1>6, <1>8
    <2>2. ASSUME NEW m \in 1..n + 1
          PROVE  got'[m] > gen.from + m - 1 /\ got'[m] <= i
        <3>1. CASE m = n + 1
            <4>1. got'[m] = i
                BY <1>6, <3>1
            <4>2. i > gen.from + n /\ gen.from + m - 1 = gen.from + n
                BY <1>2, <1>7, <1>8, <3>1
            <4> QED
                BY <1>2, <4>1, <4>2
        <3>2. CASE m \in 1..n
            <4>1. got'[m] = got[m]
                BY <1>6, <3>2
            <4>2. got[m] \in Nat /\ got[m] > gen.from + m - 1 /\ got[m] <= gen.after
                BY <1>7, <3>2
            <4>3. gen.after \in Nat
                BY <1>7
            <4>4. got[m] <= i
                BY <1>2, <1>8, <4>2, <4>3
            <4> QED
                BY <4>1, <4>2, <4>4
        <3> QED
            BY <3>1, <3>2
    <2>3. ASSUME NEW m \in 1..n + 1, NEW k \in 1..n + 1, m < k
          PROVE  got'[m] < got'[k]
        <3>1. CASE k = n + 1
            <4>1. m \in 1..n
                BY <2>3, <3>1
            <4>2. got[m] \in Nat /\ got[m] <= gen.after
                BY <1>7, <4>1
            <4> QED
                BY <1>2, <1>6, <1>7, <1>8, <3>1, <4>1, <4>2
        <3>2. CASE k \in 1..n
            BY <1>5, <1>6, <2>3, <3>2 DEF ReadInv, Yielded
        <3> QED
            BY <3>1, <3>2
    <2>4. first = 1 => /\ i = gen.from + n + 1
                       /\ \A m \in 1..n + 1 : got'[m] = gen.from + m
        <3>1. first = 1 => gen.after = gen.from + n /\ \A m \in 1..n : got[m] = gen.from + m
            BY <1>5 DEF ReadInv, Yielded
        <3>2. ASSUME first = 1, NEW m \in 1..n + 1
              PROVE  got'[m] = gen.from + m
            <4>1. CASE m = n + 1
                BY <1>6, <1>7, <1>9, <3>1, <3>2, <4>1
            <4>2. CASE m \in 1..n
                BY <1>6, <3>1, <3>2, <4>2
            <4> QED
                BY <4>1, <4>2
        <3> QED
            BY <1>7, <1>9, <3>1, <3>2
    <2>5. gen.from + (n + 1) = gen.from + n + 1
        BY <1>7
    <2> QED
        BY <1>1, <1>4, <1>6, <2>1, <2>2, <2>3, <2>4, <2>5 DEF Yielded
<1>12. BatchStands'
    BY <1>1, <1>2, <1>4, <1>7, <1>8 DEF ReadInv, BatchStands, Ids
<1>13. EndsRead'
    <2>1. ASSUME NEW m \in 1..n + 1, log[got'[m]] \in TERMINAL
          PROVE  m = n + 1 /\ at = "over"
        <3>1. CASE m = n + 1
            BY <1>3, <1>6, <2>1, <3>1
        <3>2. CASE m \in 1..n
            BY <1>1, <1>5, <1>6, <2>1, <3>2 DEF ReadInv, EndsRead
        <3> QED
            BY <3>1, <3>2
    <2>2. at = "over" => log'[got'[Len(got')]] \in TERMINAL
        BY <1>1, <1>3, <1>6
    <2>3. EndsForAReason'
        BY <1>4, <1>6, <2>2 DEF EndsForAReason
    <2> QED
        BY <1>1, <1>4, <1>6, <2>1, <2>3 DEF ReadInv, EndsRead, Outcomes
<1> QED
    BY <1>10, <1>11, <1>12, <1>13 DEF ReadInv

LEMMA ReadStarts ==
    ASSUME ReadInit
    PROVE  ReadInv
<1>1. /\ log = <<>> /\ Len(log) = 0 /\ first = 1 /\ status = "going" /\ got = <<>> /\ Len(got) = 0
      /\ gen = [at |-> "closed", from |-> 0, after |-> 0, batch |-> {}, finishing |-> FALSE]
      /\ late = FALSE /\ expired = {}
    BY DEF ReadInit
<1>2. ReadTypeOK
    <2>1. gen \in Generator /\ first \in 1..MaxLog + 1
        BY <1>1, ReadAssumption DEF Generator
    <2>2. <<>> \in Seq(Ids) /\ <<>> \in Seq(Events \cup TERMINAL)
        OBVIOUS
    <2>3. log \in Seq(Events \cup TERMINAL) /\ Len(log) <= MaxLog /\ got \in Seq(Ids)
        BY <1>1, <2>2, ReadAssumption
    <2>4. status \in {"going", "gone"} \cup FINISHED /\ late \in BOOLEAN /\ expired \subseteq Expiring
        BY <1>1
    <2> QED
        BY <2>1, <2>3, <2>4 DEF ReadTypeOK
<1>3. RecordsStand /\ Yielded /\ BatchStands /\ EndsRead
    BY <1>1 DEF RecordsStand, FINISHED, Yielded, BatchStands, EndsRead, EndsForAReason
<1> QED
    BY <1>2, <1>3 DEF ReadInv

LEMMA ReadRests ==
    ASSUME ReadInv, UNCHANGED readVars
    PROVE  ReadInv'
<1>1. UNCHANGED <<log, first, status, expired, gen, late, got>>
    BY DEF readVars, records
<1>2. ReadTypeOK' /\ RecordsStand' /\ Yielded'
    BY <1>1 DEF ReadInv, ReadTypeOK, RecordsStand, Outcomes, Yielded
<1>3. BatchStands' /\ EndsRead'
    BY <1>1 DEF ReadInv, BatchStands, Ids, EndsRead, EndsForAReason, Outcomes
<1> QED
    BY <1>2, <1>3 DEF ReadInv

-----------------------------------------------------------------------------
(* JobAnswer: what a caller is told *)

IsSequence(s) == \E S : s \in Seq(S)

LEMMA Appended ==
    ASSUME NEW s, NEW x, IsSequence(s)
    PROVE  /\ IsSequence(Append(s, x))
           /\ Len(s) \in Nat /\ Len(Append(s, x)) = Len(s) + 1
           /\ \A n \in 1..Len(s) : Append(s, x)[n] = s[n]
           /\ Append(s, x)[Len(s) + 1] = x
<1>1. PICK S : s \in Seq(S)
    BY DEF IsSequence
<1>2. PICK T : T = S \cup {x}
    OBVIOUS
<1>3. s \in Seq(T) /\ x \in T
    BY <1>1, <1>2
<1>4. Append(s, x) \in Seq(T)
    BY <1>3
<1> QED
    BY <1>3, <1>4 DEF IsSequence

\* The routes that answer with the job's outcome, and where among what is shown their answer begins.
Answering == {"job", "voice", "mcp"}
Place == IF route = "voice" THEN 2 ELSE 1

LastGot == log[got[Len(got)]]

\* A response in progress has shown its answer if it read the outcome, and nothing of one before.
Answers ==
    route \in Answering /\ client \in {"heard", "connected"} =>
        /\ Told => Len(shown) >= Place /\ shown[Place] = LastGot
        /\ ~Told => Len(shown) = Place - 1

\* One that ended has too, or was told that there is none yet.
Answered ==
    route \in Answering /\ client = "ended" /\ Len(shown) >= Place =>
        /\ Told => shown[Place] = LastGot
        /\ ~Told => late = TRUE \/ expired # {}

\* An SSE client was sent every event up to the last one read.
Streamed ==
    route = "sse" /\ expired = {} =>
        /\ Len(shown) = gen.after
        /\ \A n \in 1..Len(shown) : shown[n] = n

AnswerInv ==
    /\ ReadInv
    /\ IsSequence(shown)
    /\ route \notin Chat => due = <<>> /\ state.finished = FALSE
    /\ route # "sse" => gen.from = 0
    /\ client \in {"waiting", "heard"} => got = <<>>
    /\ client = "waiting" => Len(shown) = 0 /\ gen.after = 0
    /\ Answers
    /\ Answered
    /\ Streamed

\* Nothing was told yet while there are events to read or to yield.
LEMMA NotTold ==
    ASSUME ReadInv, gen.at \notin {"over", "closed"}
    PROVE  ~Told
BY ReadTypes DEF ReadInv, EndsRead, Told

LEMMA NothingGot ==
    ASSUME got = <<>>
    PROVE  ~Told /\ Len(got) = 0
BY DEF Told

\* Records and reader may move on, if what was read stays.
LEMMA AnswerRests ==
    ASSUME AnswerInv, ReadInv', got' = got, gen'.from = gen.from, gen'.after = gen.after,
           \A n \in 1..Len(got) : log'[got[n]] = log[got[n]],
           late = TRUE => late' = TRUE, expired \subseteq expired',
           UNCHANGED <<route, client, shown>>,
           route \notin Chat => due' = <<>> /\ state'.finished = FALSE
    PROVE  AnswerInv'
<1>1. DOMAIN got = 1..Len(got) /\ Len(got) \in Nat
    BY ReadTypes DEF AnswerInv, ReadInv
<1>2. Told' <=> Told
    BY <1>1 DEF Told
<1>3. Told => Len(got) \in 1..Len(got)
    BY <1>1 DEF Told
<1>4. Told => LastGot' = LastGot
    BY <1>3 DEF LastGot
<1>5. Place' = Place
    BY DEF Place
<1>6. Answers'
    BY <1>2, <1>4, <1>5 DEF AnswerInv, Answers
<1>7. Answered'
    BY <1>2, <1>4, <1>5 DEF AnswerInv, Answered
<1>8. Streamed'
    BY DEF AnswerInv, Streamed
<1> QED
    BY <1>6, <1>7, <1>8 DEF AnswerInv

LEMMA WorldRests ==
    ASSUME AnswerInv, World, UNCHANGED answerVars
    PROVE  AnswerInv'
<1>1. ReadInv' /\ ReadInv /\ ReadTypeOK
    BY WorldKept DEF AnswerInv, ReadInv
<1>2. /\ UNCHANGED <<gen, late, got>> /\ expired \subseteq expired'
      /\ \/ UNCHANGED log
         \/ \E e \in Events \cup TERMINAL : log' = Append(log, e)
    BY DEF World, Publish, Mark, Abandon, Expire, TERMINAL
<1>3. ASSUME NEW n \in 1..Len(got)
      PROVE  log'[got[n]] = log[got[n]]
    <2>1. log \in Seq(Events \cup TERMINAL)
        BY <1>1 DEF ReadTypeOK
    <2>2. got[n] \in 1..MaxLog /\ MaxLog \in Nat /\ Len(log) \in Nat /\ gen.after \in Nat
        BY <1>1, <1>3, ReadTypes DEF Ids
    <2>3. got[n] <= gen.after /\ gen.after <= Len(log)
        BY <1>1, <1>3 DEF ReadInv, Yielded
    <2>4. got[n] \in 1..Len(log)
        BY <2>2, <2>3
    <2> QED
        BY <1>2, <2>1, <2>4
<1>4. UNCHANGED <<route, client, shown, due, state>>
    BY DEF answerVars, chat
<1> QED
    BY <1>1, <1>2, <1>3, <1>4, AnswerRests DEF AnswerInv

LEMMA PollRests ==
    ASSUME AnswerInv, Poll, UNCHANGED answerVars
    PROVE  AnswerInv'
<1>1. ReadInv' /\ gen \in Generator
    BY PollKept, ReadTypes DEF AnswerInv, ReadInv
<1>2. /\ UNCHANGED <<log, first, status, expired, late, got>>
      /\ gen'.from = gen.from /\ gen'.after = gen.after
    <2>1. CASE Read
        BY <1>1, <2>1 DEF Read, Generator, records
    <2>2. CASE Status
        BY <1>1, <2>2 DEF Status, Generator, records
    <2>3. CASE Exists
        BY <1>1, <2>3 DEF Exists, Generator, records
    <2> QED
        BY <2>1, <2>2, <2>3 DEF Poll
<1>3. UNCHANGED <<route, client, shown, due, state>>
    BY DEF answerVars, chat
<1> QED
    BY <1>1, <1>2, <1>3, AnswerRests DEF AnswerInv

LEMMA TimeRests ==
    ASSUME AnswerInv, TimePasses
    PROVE  AnswerInv'
<1>1. ReadInv'
    BY DeadlineKept DEF AnswerInv, TimePasses
<1>2. /\ UNCHANGED <<log, first, status, expired, gen, got>> /\ late' = TRUE
      /\ UNCHANGED <<route, client, shown, due, state>>
    BY DEF TimePasses, Deadline, records, answerVars, chat
<1> QED
    BY <1>1, <1>2, AnswerRests DEF AnswerInv

\* The read of a job's events is opened for a client that is there.
LEMMA OpenedRests ==
    ASSUME AnswerInv, NEW at \in Nat, Open(at), client' = "connected",
           UNCHANGED <<route, shown, chat>>,
           \/ at = 0 /\ client = "waiting" /\ route # "voice"
           \/ at = 0 /\ client = "heard" /\ route = "voice"
           \/ at = gen.after /\ route = "sse"
    PROVE  AnswerInv'
<1>1. ReadInv /\ Len(log) \in Nat /\ gen.after \in Nat /\ gen.after <= Len(log)
    BY ReadTypes DEF AnswerInv, ReadInv, Yielded
<1>2. ReadInv'
    BY <1>1, OpenKept
<1>3. /\ gen' = [at |-> "read", from |-> at, after |-> at, batch |-> {}, finishing |-> FALSE]
      /\ got' = <<>> /\ UNCHANGED <<log, first, status, expired>> /\ UNCHANGED <<due, state>>
    BY DEF Open, records, chat
<1>4. gen'.from = at /\ gen'.after = at
    BY <1>3
<1>5. ~Told'
    BY <1>3 DEF Told
<1>6. Streamed'
    <2>1. route = "sse" => at = gen.after
        BY DEF AnswerInv
    <2> QED
        BY <1>3, <1>4, <2>1 DEF AnswerInv, Streamed
<1>7. Answers'
    <2>1. CASE route = "voice"
        <3>1. client = "heard" /\ route \in Answering /\ ~Told
            BY <2>1, NothingGot DEF AnswerInv, Answering
        <3> QED
            BY <1>5, <2>1, <3>1 DEF AnswerInv, Answers, Place
    <2>2. CASE route \in Answering /\ route # "voice"
        <3>1. client = "waiting" /\ Len(shown) = 0
            BY <2>2 DEF AnswerInv, Answering
        <3> QED
            BY <1>5, <2>2, <3>1 DEF Answers, Place
    <2>3. CASE route \notin Answering
        BY <2>3 DEF Answers
    <2> QED
        BY <2>1, <2>2, <2>3
<1>8. Answered'
    BY DEF Answered
<1> QED
    BY <1>2, <1>3, <1>4, <1>6, <1>7, <1>8 DEF AnswerInv

\* What leaves the reader alone.
LEMMA ReaderRests ==
    ASSUME AnswerInv, UNCHANGED <<readVars, route, client, shown>>,
           route \notin Chat => due' = <<>> /\ state'.finished = FALSE
    PROVE  AnswerInv'
<1>1. ReadInv' /\ UNCHANGED <<log, first, status, expired, gen, late, got>>
    BY ReadRests DEF AnswerInv, readVars, records
<1> QED
    BY <1>1, AnswerRests

\* A part is shown, or the response ends, on a route that does not wait for an answer.
LEMMA OthersShown ==
    ASSUME AnswerInv, UNCHANGED <<readVars, route>>, IsSequence(shown'),
           client' \notin {"waiting", "heard"},
           route \notin Answering \/ client' = "gone" \/ (client' = "ended" /\ Len(shown') = 0),
           route = "sse" => UNCHANGED shown,
           route \notin Chat => due' = <<>> /\ state'.finished = FALSE
    PROVE  AnswerInv'
<1>1. ReadInv' /\ UNCHANGED <<log, first, status, expired, gen, late, got>>
    BY ReadRests DEF AnswerInv, readVars, records
<1>2. Answers' /\ Answered'
    BY DEF Answers, Answered, Place
<1>3. Streamed'
    BY <1>1 DEF AnswerInv, Streamed
<1> QED
    BY <1>1, <1>2, <1>3 DEF AnswerInv

\* The recording of a voice turn is transcribed.
LEMMA HearKept ==
    ASSUME AnswerInv, Hear
    PROVE  AnswerInv'
<1>1. /\ route = "voice" /\ client = "waiting" /\ client' = "heard"
      /\ shown' = Append(shown, "transcript") /\ UNCHANGED <<readVars, route, due, state>>
    BY DEF Hear, Show, chat
<1>2. ReadInv' /\ UNCHANGED <<log, first, status, expired, gen, late, got>>
    BY <1>1, ReadRests DEF AnswerInv, readVars, records
<1>3. Len(shown') = 1 /\ IsSequence(shown') /\ got' = <<>>
    <2>1. IsSequence(shown) /\ Len(shown) = 0 /\ got = <<>>
        BY <1>1 DEF AnswerInv
    <2>2. IsSequence(shown') /\ Len(shown') = Len(shown) + 1
        BY <1>1, <2>1, Appended
    <2> QED
        BY <1>2, <2>1, <2>2
<1>4. ~Told'
    BY <1>3 DEF Told
<1>5. Answers' /\ Answered' /\ Streamed'
    BY <1>1, <1>3, <1>4 DEF Answers, Answered, Streamed, Place
<1> QED
    BY <1>1, <1>2, <1>3, <1>5 DEF AnswerInv

\* An event is read.  What is read before the outcome is no answer; the outcome is the last.
LEMMA GotStands ==
    ASSUME AnswerInv, NEW i \in gen.batch, Yield(i)
    PROVE  /\ ReadInv' /\ UNCHANGED <<log, first, status, expired, late>>
           /\ gen'.from = gen.from /\ gen'.after = i /\ LastGot' = log[i]
           /\ ~Told /\ (Told' <=> log[i] \in TERMINAL)
           /\ first = 1 => i = gen.after + 1
<1>1. ReadInv /\ ReadInv' /\ gen \in Generator
    BY YieldKept, ReadTypes DEF AnswerInv, ReadInv
<1>2. /\ UNCHANGED <<log, first, status, expired, late>> /\ got' = Append(got, i)
      /\ gen.at = "yield"
    BY DEF Yield, records
<1>3. gen'.from = gen.from /\ gen'.after = i
    BY <1>1 DEF Yield, Generator
<1>4. ~Told
    BY <1>1, <1>2, NotTold
<1>5. PICK n \in Nat : n = Len(got)
    BY <1>1, ReadTypes DEF ReadInv
<1>6. /\ Len(got') = n + 1 /\ got'[n + 1] = i /\ DOMAIN got = 1..n /\ DOMAIN got' = 1..n + 1
      /\ \A m \in 1..n : got'[m] = got[m]
    <2>1. got \in Seq(Ids) /\ i \in Ids
        BY <1>1, ReadTypes DEF ReadInv, ReadTypeOK
    <2> QED
        BY <1>2, <1>5, <2>1
<1>7. LastGot' = log[i]
    BY <1>2, <1>6 DEF LastGot
<1>8. Told' <=> log[i] \in TERMINAL
    <2>1. Told' => \E m \in 1..n + 1 : log[got'[m]] \in TERMINAL
        BY <1>2, <1>6 DEF Told
    <2>2. \A m \in 1..n : log[got'[m]] \notin TERMINAL
        BY <1>4, <1>6 DEF Told
    <2>3. log[got'[n + 1]] = log[i] /\ \A m \in 1..n + 1 : m = n + 1 \/ m \in 1..n
        BY <1>6
    <2>4. log[i] \in TERMINAL => Told'
        BY <1>2, <1>6, <2>3 DEF Told
    <2> QED
        BY <2>1, <2>2, <2>3, <2>4
<1>9. first = 1 => i = gen.after + 1
    <2>1. first = 1 => gen.after = gen.from + n
        BY <1>1, <1>5 DEF ReadInv, Yielded
    <2>2. first = 1 => i = gen.from + (n + 1)
        BY <1>1, <1>2, <1>3, <1>6 DEF ReadInv, Yielded
    <2>3. gen.from \in Nat
        BY <1>1, ReadTypes DEF ReadInv
    <2> QED
        BY <2>1, <2>2, <2>3
<1> QED
    BY <1>1, <1>2, <1>3, <1>4, <1>7, <1>8, <1>9

LEMMA FollowKept ==
    ASSUME AnswerInv, NEW i \in gen.batch, Follow(i)
    PROVE  AnswerInv'
<1>1. /\ client = "connected" /\ Yield(i) /\ (Pass(i) \/ Outcome(i) \/ Result(i))
      /\ UNCHANGED <<route, due, state>>
    BY DEF Follow, chat
<1>2. /\ ReadInv' /\ UNCHANGED <<log, first, status, expired, late>>
      /\ gen'.from = gen.from /\ gen'.after = i /\ LastGot' = log[i]
      /\ ~Told /\ (Told' <=> log[i] \in TERMINAL)
      /\ first = 1 => i = gen.after + 1
    BY <1>1, GotStands
<1>3. Place' = Place /\ Place \in {1, 2}
    BY <1>1 DEF Place
<1>4. CASE Pass(i)
    <2>1. route = "sse" /\ shown' = Append(shown, i) /\ client' = client
        BY <1>4 DEF Pass, Show
    <2>2. /\ IsSequence(shown') /\ Len(shown) \in Nat /\ Len(shown') = Len(shown) + 1
          /\ \A n \in 1..Len(shown) : shown'[n] = shown[n]
          /\ shown'[Len(shown) + 1] = i
        BY <2>1, Appended DEF AnswerInv
    <2>3. Streamed'
        <3>1. SUFFICES ASSUME expired = {}
                       PROVE  Len(shown') = i /\ \A n \in 1..Len(shown') : shown'[n] = n
            BY <1>2 DEF Streamed
        <3>2. first = 1
            BY <3>1 DEF AnswerInv, ReadInv, RecordsStand
        <3>3. Len(shown) = gen.after /\ \A n \in 1..Len(shown) : shown[n] = n
            BY <2>1, <3>1 DEF AnswerInv, Streamed
        <3>4. Len(shown') = i
            BY <1>2, <2>2, <3>2, <3>3
        <3>5. ASSUME NEW n \in 1..Len(shown')
              PROVE  shown'[n] = n
            <4>1. CASE n = Len(shown) + 1
                BY <2>2, <3>4, <4>1
            <4>2. CASE n \in 1..Len(shown)
                BY <2>2, <3>3, <4>2
            <4> QED
                BY <2>2, <4>1, <4>2
        <3> QED
            BY <3>4, <3>5
    <2>4. Answers' /\ Answered'
        BY <1>1, <2>1 DEF Answers, Answered, Answering
    <2> QED
        BY <1>1, <1>2, <2>1, <2>2, <2>3, <2>4 DEF AnswerInv
<1>5. CASE Outcome(i) \/ Result(i)
    <2>1. /\ route \in Answering
          /\ log[i] \in TERMINAL => shown' = Append(shown, log[i]) /\ client' \in {client, "ended"}
          /\ log[i] \notin TERMINAL => shown' = shown /\ client' = client
        BY <1>5 DEF Outcome, Result, Show, Answering, TERMINAL
    <2>2. Len(shown) = Place - 1
        BY <1>1, <1>2, <2>1 DEF AnswerInv, Answers
    <2>3. log[i] \in TERMINAL => Len(shown') = Place /\ shown'[Place] = log[i]
        BY <1>3, <2>1, <2>2, Appended DEF AnswerInv
    <2>4. IsSequence(shown')
        <3>1. IsSequence(shown)
            BY DEF AnswerInv
        <3>2. CASE shown' = shown
            BY <3>1, <3>2
        <3>3. CASE shown' = Append(shown, log[i])
            BY <3>1, <3>3, Appended
        <3> QED
            BY <2>1, <3>2, <3>3
    <2>5. Answers'
        BY <1>2, <1>3, <2>1, <2>2, <2>3 DEF Answers
    <2>6. Answered'
        <3>1. log[i] \notin TERMINAL => client' = "connected"
            BY <1>1, <2>1
        <3> QED
            BY <1>2, <1>3, <2>3, <3>1 DEF Answered
    <2>7. Streamed' /\ route # "sse"
        BY <1>1, <2>1 DEF Streamed, Answering
    <2> QED
        BY <1>1, <1>2, <2>1, <2>4, <2>5, <2>6, <2>7 DEF AnswerInv
<1> QED
    BY <1>1, <1>4, <1>5

\* An event of a chat answer is mapped.
LEMMA MapKept ==
    ASSUME AnswerInv, NEW i \in gen.batch, Map(i)
    PROVE  AnswerInv'
<1>1. route \in Chat /\ client = "connected" /\ Yield(i) /\ UNCHANGED <<route, client, shown>>
    BY DEF Map
<1>2. ReadInv' /\ gen'.from = gen.from
    BY <1>1, GotStands
<1>3. route # "sse" /\ route \notin Answering
    BY <1>1 DEF Chat, Answering
<1> QED
    BY <1>1, <1>2, <1>3 DEF AnswerInv, Answers, Answered, Streamed

\* A read that is over told the outcome, or ended for another reason.
LEMMA ConcludeKept ==
    ASSUME AnswerInv, Conclude
    PROVE  AnswerInv'
<1>1. /\ client = "connected" /\ gen.at = "over" /\ (EndStream \/ Speak \/ Accepted \/ Abandoned)
      /\ UNCHANGED <<readVars, route, due, state>>
    BY DEF Conclude, chat
<1>2. CASE EndStream
    <2>1. route = "sse" /\ UNCHANGED shown /\ client' \in {"timed out", "ended"}
        BY <1>2 DEF EndStream
    <2> QED
        BY <1>1, <2>1, OthersShown DEF AnswerInv, Answering, Chat
<1>3. CASE Speak \/ Accepted \/ Abandoned
    <2>1. PICK p : shown' = Append(shown, p)
        BY <1>3 DEF Speak, Accepted, Abandoned, Show
    <2>2. client' = "ended" /\ route \in Answering
        BY <1>3 DEF Speak, Accepted, Abandoned, Answering
    <2>3. ReadInv' /\ UNCHANGED <<log, first, status, expired, gen, late, got>>
        BY <1>1, ReadRests DEF AnswerInv, readVars, records
    <2>4. /\ IsSequence(shown') /\ Len(shown) \in Nat /\ Len(shown') = Len(shown) + 1
          /\ \A n \in 1..Len(shown) : shown'[n] = shown[n]
        BY <2>1, Appended DEF AnswerInv
    <2>5. (Told' <=> Told) /\ LastGot' = LastGot /\ Place' = Place /\ Place \in {1, 2}
        BY <1>1, <2>3 DEF Told, LastGot, Place
    <2>6. Told => Len(shown) >= Place /\ shown[Place] = LastGot
        BY <1>1, <2>2 DEF AnswerInv, Answers
    <2>7. Told => shown'[Place] = LastGot
        BY <2>4, <2>5, <2>6
    <2>8. ~Told => late = TRUE \/ expired # {}
        <3>1. SUFFICES ASSUME ~Told, expired = {}
                       PROVE  late = TRUE
            OBVIOUS
        <3>2. gen.from = 0 /\ ReadTypeOK /\ EndsForAReason
            BY <2>2 DEF AnswerInv, Answering, ReadInv, EndsRead
        <3>3. ~(\E i \in Outcomes : i <= gen.from)
            BY <3>2, ReadTypes DEF Outcomes
        <3>4. got # <<>> => Len(got) \in DOMAIN got
            BY <3>2, ReadTypes, EmptySeq DEF ReadTypeOK
        <3>5. late \in BOOLEAN
            BY <3>2 DEF ReadTypeOK
        <3> QED
            BY <1>1, <3>1, <3>2, <3>3, <3>4, <3>5 DEF EndsForAReason, Told
    <2>9. Answered'
        BY <2>3, <2>5, <2>7, <2>8 DEF Answered
    <2>10. Answers' /\ Streamed'
        BY <1>1, <2>2 DEF Answers, Streamed, Answering
    <2> QED
        BY <1>1, <2>2, <2>3, <2>4, <2>9, <2>10 DEF AnswerInv
<1> QED
    BY <1>1, <1>2, <1>3

\* A client hangs up.
LEMMA HangUpKept ==
    ASSUME AnswerInv, HangUp
    PROVE  AnswerInv'
<1>1. /\ client' = "gone" /\ due' = <<>> /\ UNCHANGED <<records, late, got, route, shown, state>>
      /\ gen' = [gen EXCEPT !.at = "closed", !.batch = {}, !.finishing = FALSE]
    BY DEF HangUp
<1>2. ReadInv' /\ gen \in Generator
    BY <1>1, CloseKept, ReadTypes DEF AnswerInv, ReadInv
<1>3. gen'.from = gen.from /\ gen'.after = gen.after /\ expired' = expired
    BY <1>1, <1>2 DEF Generator, records
<1>4. Answers' /\ Answered' /\ Streamed'
    BY <1>1, <1>3 DEF AnswerInv, Answers, Answered, Streamed
<1> QED
    BY <1>1, <1>2, <1>3, <1>4 DEF AnswerInv

\* A read is begun, or taken up again after the last event the client was sent.
LEMMA OpenedKept ==
    ASSUME AnswerInv, CreateJob \/ StartDesk \/ AskChat \/ StartTurn \/ Resume
    PROVE  AnswerInv'
<1>1. CASE CreateJob \/ StartDesk \/ AskChat
    <2>1. /\ Open(0) /\ client = "waiting" /\ route # "voice" /\ client' = "connected"
          /\ UNCHANGED <<route, shown, chat>>
        BY <1>1 DEF CreateJob, StartDesk, AskChat, Begin, Chat
    <2> QED
        BY <2>1, OpenedRests
<1>2. CASE StartTurn
    <2>1. /\ Open(0) /\ client = "heard" /\ route = "voice" /\ client' = "connected"
          /\ UNCHANGED <<route, shown, chat>>
        BY <1>2 DEF StartTurn, Begin
    <2> QED
        BY <2>1, OpenedRests
<1>3. CASE Resume
    <2>1. /\ Open(LastSeen) /\ route = "sse" /\ client' = "connected"
          /\ UNCHANGED <<route, shown, chat>>
        BY <1>3 DEF Resume
    <2>2. LastSeen = gen.after /\ gen.after \in Nat
        BY ReadTypes DEF AnswerInv, ReadInv, Yielded, LastSeen
    <2> QED
        BY <2>1, <2>2, OpenedRests
<1> QED
    BY <1>1, <1>2, <1>3

LEMMA SendKept ==
    ASSUME AnswerInv, Send
    PROVE  AnswerInv'
<1>1. /\ client = "connected" /\ due # <<>> /\ shown' = Append(shown, Head(due))
      /\ client' \in {client, "ended"} /\ UNCHANGED <<readVars, route, state>>
    BY DEF Send, Show
<1>2. route \in Chat /\ route \notin Answering /\ route # "sse"
    BY <1>1 DEF AnswerInv, Chat, Answering
<1>3. IsSequence(shown')
    BY <1>1, Appended DEF AnswerInv
<1> QED
    BY <1>1, <1>2, <1>3, OthersShown

LEMMA AnswerKept ==
    ASSUME AnswerInv, Next
    PROVE  AnswerInv'
<1>1. CASE World /\ UNCHANGED answerVars
    BY <1>1, WorldRests
<1>2. CASE Poll /\ UNCHANGED answerVars
    BY <1>2, PollRests
<1>3. CASE TimePasses
    BY <1>3, TimeRests
<1>4. CASE CreateJob \/ StartDesk \/ AskChat \/ StartTurn \/ Resume
    BY <1>4, OpenedKept
<1>5. CASE Hear
    BY <1>5, HearKept
<1>6. CASE Conclude
    BY <1>6, ConcludeKept
<1>7. CASE Send
    BY <1>7, SendKept
<1>8. CASE HangUp
    BY <1>8, HangUpKept
<1>9. ASSUME NEW i \in gen.batch, Follow(i) \/ Map(i)
      PROVE  AnswerInv'
    BY <1>9, FollowKept, MapKept
<1>10. CASE MapEnd
    <2>1. route \in Chat /\ UNCHANGED <<readVars, route, client, shown>>
        BY <1>10 DEF MapEnd
    <2> QED
        BY <2>1, ReaderRests
<1>11. CASE Settle \/ Slow
    <2>1. UNCHANGED <<readVars, route, client, shown, due, state>>
        BY <1>11 DEF Settle, Remember, Release, RecordingFails, Slow, chat
    <2> QED
        BY <2>1, ReaderRests DEF AnswerInv
<1>12. CASE Finish
    <2>1. /\ state.finished = TRUE \/ state.finished # FALSE
          /\ client' = "ended" /\ UNCHANGED <<readVars, route, shown, due, state>>
        BY <1>12 DEF Finish, chat
    <2>2. route \in Chat
        BY <1>12 DEF AnswerInv, Finish
    <2>3. route \notin Answering /\ route # "sse"
        BY <2>2 DEF Chat, Answering
    <2> QED
        BY <2>1, <2>2, <2>3, OthersShown DEF AnswerInv
<1>13. CASE Unheard
    <2>1. /\ route = "voice" /\ client = "waiting" /\ client' = "ended"
          /\ UNCHANGED <<readVars, route, shown, due, state>>
        BY <1>13 DEF Unheard, chat
    <2> QED
        BY <2>1, OthersShown DEF AnswerInv
<1> QED
    BY <1>1, <1>2, <1>3, <1>4, <1>5, <1>6, <1>7, <1>8, <1>9, <1>10, <1>11, <1>12, <1>13
       DEF Next, Respond

LEMMA AnswerStarts ==
    ASSUME NEW r, InitOf(r)
    PROVE  AnswerInv
<1>1. /\ ReadInv /\ client = "waiting" /\ shown = <<>> /\ due = <<>>
      /\ state = [content_sent |-> FALSE, finished |-> FALSE]
    BY ReadStarts DEF InitOf
<1>2. got = <<>> /\ gen.from = 0 /\ gen.after = 0
    BY DEF InitOf, ReadInit
<1>3. IsSequence(shown) /\ Len(shown) = 0
    <2>1. shown \in Seq({})
        BY <1>1
    <2> QED
        BY <1>1, <2>1 DEF IsSequence
<1>4. Answers /\ Answered /\ Streamed
    BY <1>1, <1>2, <1>3 DEF Answers, Answered, Streamed
<1> QED
    BY <1>1, <1>2, <1>3, <1>4 DEF AnswerInv

LEMMA AnswerAlways == JobSpec => []AnswerInv
<1>1. JobInit => AnswerInv
    BY AnswerStarts DEF JobInit, Init
<1>2. ASSUME AnswerInv, [JobNext]_jobVars
      PROVE  AnswerInv'
    <2>1. CASE Next
        BY <1>2, <2>1, AnswerKept
    <2>2. CASE UNCHANGED vars
        <3>1. UNCHANGED <<readVars, route, client, shown, due, state>>
            BY <2>2 DEF vars, answerVars, chat
        <3> QED
            BY <1>2, <3>1, ReaderRests DEF AnswerInv
    <2> QED
        BY <1>2, <2>1, <2>2 DEF JobNext, jobVars
<1> QED
    BY <1>1, <1>2, PTL DEF JobSpec

\* queue/events.py 47, api/events.py 3-5: a read skips nothing and repeats nothing, and nor do the
\* reads of a client that resumes.
THEOREM ReadInOrderHolds == JobSpec => []ReadInOrder
<1>1. ASSUME AnswerInv
      PROVE  ReadInOrder
    <2>1. DOMAIN got = 1..Len(got)
        BY <1>1, ReadTypes DEF AnswerInv, ReadInv
    <2>2. InOrderOnce
        BY <1>1, <2>1 DEF AnswerInv, ReadInv, Yielded, InOrderOnce
    <2>3. route = "sse" /\ expired = {} => shown = [n \in 1..Len(shown) |-> n]
        <3>1. PICK S : shown \in Seq(S)
            BY <1>1 DEF AnswerInv, IsSequence
        <3>2. shown = [n \in 1..Len(shown) |-> shown[n]]
            BY <3>1
        <3> QED
            BY <1>1, <3>2 DEF AnswerInv, Streamed
    <2> QED
        BY <2>2, <2>3 DEF ReadInOrder, ResumedInOrder
<1> QED
    BY <1>1, AnswerAlways, PTL

\* queue/events.py 47-49, jobs.py, desk.py, voice/routes.py: a read ends with the outcome, at its
\* deadline or because records expired, and what the caller is told is the job's first outcome, or
\* that it has none yet.
THEOREM OutcomeToldHolds == JobSpec => []OutcomeTold
<1>1. ASSUME AnswerInv
      PROVE  OutcomeTold
    <2>1. EndsForAReason /\ ReadInv /\ ReadTypeOK
        BY <1>1 DEF AnswerInv, ReadInv, EndsRead
    <2>2. ASSUME route \in Answering, client = "ended", Answer # <<>>
          PROVE  Len(shown) >= Place /\ Answer[1] = shown[Place]
        <3>1. PICK S : shown \in Seq(S)
            BY <1>1 DEF AnswerInv, IsSequence
        <3>2. Len(shown) \in Nat /\ (shown # <<>> => Len(shown) \in Nat \ {0})
            BY <3>1, EmptySeq
        <3>3. CASE route = "voice"
            <4>1. shown # <<>> /\ Answer = Tail(shown)
                BY <2>2, <3>3 DEF Answer
            <4>2. Tail(shown) \in Seq(S) /\ Len(Tail(shown)) = Len(shown) - 1
                BY <3>1, <4>1
            <4>3. Len(Tail(shown)) \in Nat \ {0}
                BY <2>2, <4>1, <4>2, EmptySeq
            <4>4. Len(shown) >= 2 /\ Tail(shown)[1] = shown[2]
                BY <3>1, <3>2, <4>1, <4>2, <4>3
            <4> QED
                BY <3>3, <4>1, <4>4 DEF Place
        <3>4. CASE route # "voice"
            BY <2>2, <3>2, <3>4 DEF Answer, Place
        <3> QED
            BY <3>3, <3>4
    <2>3. ASSUME Told, "stream" \notin expired, route \in Answering
          PROVE  /\ got[Len(got)] \in Outcomes
                 /\ \A j \in Outcomes : got[Len(got)] <= j
        <3>1. PICK n \in 1..Len(got) : n = Len(got) /\ log[got[n]] \in TERMINAL
            BY <2>1, <2>3, ReadTypes DEF Told, ReadInv, EndsRead
        <3>2. first = 1 /\ gen.from = 0
            BY <1>1, <2>3 DEF AnswerInv, ReadInv, RecordsStand, Answering
        <3>3. \A m \in 1..Len(got) : got[m] = m
            BY <2>1, <3>2, ReadTypes DEF ReadInv, Yielded
        <3>4. n \in 1..Len(log)
            BY <2>1, <3>1, <3>2, <3>3, ReadTypes DEF ReadInv, Yielded
        <3>5. n \in Outcomes
            BY <3>1, <3>3, <3>4 DEF Outcomes
        <3>6. ASSUME NEW j \in Outcomes, j < n
              PROVE  FALSE
            <4>1. j \in 1..Len(got) /\ j # n /\ log[j] \in TERMINAL
                BY <2>1, <3>1, <3>6, ReadTypes DEF Outcomes
            <4> QED
                BY <2>1, <3>1, <3>3, <4>1 DEF ReadInv, EndsRead
        <3>7. \A j \in Outcomes : j \in Nat
            BY DEF Outcomes
        <3> QED
            BY <3>1, <3>3, <3>5, <3>6, <3>7
    <2>4. ToldTheOutcome
        <3>1. SUFFICES ASSUME route \in Answering, client = "ended", Answer # <<>>
                       PROVE  /\ Told => ("stream" \notin expired =>
                                     \E i \in Outcomes : i = got[Len(got)] /\ Answer[1] = log[i]
                                                          /\ \A j \in Outcomes : i <= j)
                              /\ ~Told => late = TRUE \/ expired # {}
            BY DEF ToldTheOutcome, Answering
        <3>2. /\ Told => Answer[1] = log[got[Len(got)]]
              /\ ~Told => late = TRUE \/ expired # {}
            BY <1>1, <2>2, <3>1 DEF AnswerInv, Answered, LastGot
        <3> QED
            BY <2>3, <3>1, <3>2
    <2> QED
        BY <2>1, <2>4 DEF OutcomeTold
<1> QED
    BY <1>1, AnswerAlways, PTL

-----------------------------------------------------------------------------
(* JobAnswer: what is recorded of a chat answer *)

\* What an answer is made of until its read ends without an outcome.
Ordinary == Texts \ {"timed out"}

SentPart == [content : Seq(Texts), stop : BOOLEAN, error : BOOLEAN]

\* The contents of the parts ps, joined; f joins the first n of them.
Joined(ps) == LET f[n \in 0..Len(ps)] == IF n = 0 THEN <<>> ELSE f[n - 1] \o ps[n].content
              IN f[Len(ps)]
Joining(f, ps, n) == f = [k \in 0..n |-> IF k = 0 THEN <<>> ELSE f[k - 1] \o ps[k].content]

Alike(s, t, n) == \A k \in 1..n : s[k] = t[k]

\* The least of some naturals.
LEMMA LeastThere ==
    ASSUME NEW S \in SUBSET Nat, S # {}
    PROVE  \E i \in S : \A j \in S : i <= j
<1>1. PICK i \in S : \A j \in S : ~(<<j, i>> \in OpToRel(<, Nat))
    BY WFMin, NatLessThanWellFounded
<1>2. \A j \in S : ~(j < i)
    BY <1>1 DEF OpToRel
<1> QED
    BY <1>2

LEMMA JoiningAt ==
    ASSUME NEW ps, NEW n \in Nat, NEW f, Joining(f, ps, n), NEW k \in 0..n
    PROVE  f[k] = IF k = 0 THEN <<>> ELSE f[k - 1] \o ps[k].content
<1> DEFINE h == [i \in 0..n |-> IF i = 0 THEN <<>> ELSE f[i - 1] \o ps[i].content]
<1>1. f = h
    BY DEF Joining
<1>2. h[k] = IF k = 0 THEN <<>> ELSE f[k - 1] \o ps[k].content
    OBVIOUS
<1> HIDE DEF h
<1> QED
    BY <1>1, <1>2

LEMMA JoiningOne ==
    ASSUME NEW s, NEW t, NEW n \in Nat, NEW m \in Nat, n <= m, NEW f, NEW g,
           Joining(f, s, n), Joining(g, t, m), Alike(s, t, n)
    PROVE  f[n] = g[n]
<1> DEFINE bad == {k \in 0..n : f[k] # g[k]}
<1>1. SUFFICES ASSUME bad # {}
               PROVE  FALSE
    OBVIOUS
<1>2. PICK k \in bad : \A i \in bad : k <= i
    BY <1>1, LeastThere, bad \in SUBSET Nat
<1>3. /\ f[k] = IF k = 0 THEN <<>> ELSE f[k - 1] \o s[k].content
      /\ g[k] = IF k = 0 THEN <<>> ELSE g[k - 1] \o t[k].content
    <2>1. k \in 0..n /\ k \in 0..m
        OBVIOUS
    <2> QED
        BY <2>1, JoiningAt
<1>4. k # 0 => k - 1 \in 0..n /\ k - 1 \notin bad /\ k \in 1..n
    BY <1>2
<1>5. k # 0 => f[k - 1] = g[k - 1] /\ s[k] = t[k]
    BY <1>4 DEF Alike
<1> QED
    BY <1>3, <1>5

LEMMA JoiningExists ==
    ASSUME NEW ps, NEW n \in Nat
    PROVE  \E f : Joining(f, ps, n)
<1> DEFINE bad == {m \in 0..n : ~ \E f : Joining(f, ps, m)}
<1>1. SUFFICES ASSUME bad # {}
               PROVE  FALSE
    OBVIOUS
<1>2. PICK k \in bad : \A i \in bad : k <= i
    BY <1>1, LeastThere, bad \in SUBSET Nat
<1>3. CASE k = 0
    <2> DEFINE g == [i \in 0..0 |-> <<>>]
    <2>1. g = [i \in 0..0 |-> IF i = 0 THEN <<>> ELSE g[i - 1] \o ps[i].content]
        OBVIOUS
    <2>2. Joining(g, ps, 0)
        BY <2>1 DEF Joining
    <2> QED
        BY <1>3, <2>2
<1>4. CASE k # 0
    <2>1. PICK f : Joining(f, ps, k - 1)
        BY <1>2, <1>4
    <2>2. PICK last : last = f[k - 1] \o ps[k].content
        OBVIOUS
    <2> DEFINE g == [i \in 0..k |-> IF i = k THEN last ELSE f[i]]
    <2>3. ASSUME NEW i \in 0..k
          PROVE  g[i] = IF i = 0 THEN <<>> ELSE g[i - 1] \o ps[i].content
        <3>1. i # k => f[i] = IF i = 0 THEN <<>> ELSE f[i - 1] \o ps[i].content
            <4>1. i # k => i \in 0..k - 1
                OBVIOUS
            <4>2. k - 1 \in Nat
                BY <1>4
            <4> QED
                BY <2>1, <4>1, <4>2, JoiningAt
        <3>2. i # 0 => g[i - 1] = f[i - 1]
            OBVIOUS
        <3> QED
            BY <1>4, <2>2, <3>1, <3>2
    <2>4. g = [i \in 0..k |-> IF i = 0 THEN <<>> ELSE g[i - 1] \o ps[i].content]
        BY <2>3
    <2>5. Joining(g, ps, k)
        BY <2>4 DEF Joining
    <2> QED
        BY <2>5
<1> QED
    BY <1>3, <1>4

LEMMA JoiningTyped ==
    ASSUME NEW ps \in Seq(SentPart), NEW f, Joining(f, ps, Len(ps))
    PROVE  f[Len(ps)] \in Seq(Texts)
<1>0. PICK n \in Nat : n = Len(ps)
    OBVIOUS
<1> DEFINE bad == {i \in 0..n : f[i] \notin Seq(Texts)}
<1>1. SUFFICES ASSUME bad # {}
               PROVE  FALSE
    BY <1>0
<1>2. PICK k \in bad : \A i \in bad : k <= i
    BY <1>1, LeastThere, bad \in SUBSET Nat
<1>3. f[k] = IF k = 0 THEN <<>> ELSE f[k - 1] \o ps[k].content
    BY <1>0, JoiningAt
<1>4. k # 0 => k - 1 \in 0..n /\ k - 1 \notin bad /\ k \in 1..n
    BY <1>2
<1>5. k # 0 => f[k - 1] \in Seq(Texts) /\ ps[k] \in SentPart
    BY <1>0, <1>4
<1>6. k # 0 => ps[k].content \in Seq(Texts)
    BY <1>5 DEF SentPart
<1>7. k # 0 => f[k - 1] \o ps[k].content \in Seq(Texts)
    BY <1>5, <1>6
<1>8. f[k] \notin Seq(Texts) /\ <<>> \in Seq(Texts)
    OBVIOUS
<1> HIDE DEF bad
<1> QED
    BY <1>3, <1>7, <1>8

\* What Joined computes.
LEMMA JoinedIs ==
    ASSUME NEW ps \in Seq(SentPart)
    PROVE  \E f : Joining(f, ps, Len(ps)) /\ Joined(ps) = f[Len(ps)] /\ Joined(ps) \in Seq(Texts)
<1> DEFINE fn == CHOOSE f : f = [n \in 0..Len(ps) |-> IF n = 0 THEN <<>> ELSE f[n - 1] \o ps[n].content]
<1>1. fn = [n \in 0..Len(ps) |-> IF n = 0 THEN <<>> ELSE fn[n - 1] \o ps[n].content]
    BY Len(ps) \in Nat, JoiningExists DEF Joining
<1>2. Joined(ps) = fn[Len(ps)]
    BY DEF Joined
<1>3. Joining(fn, ps, Len(ps))
    BY <1>1 DEF Joining
<1> HIDE DEF fn
<1> QED
    BY <1>2, <1>3, JoiningTyped

LEMMA JoinedNone == Joined(<<>>) = <<>>
<1>1. <<>> \in Seq(SentPart) /\ Len(<<>>) = 0
    OBVIOUS
<1>2. PICK f : Joining(f, <<>>, 0) /\ Joined(<<>>) = f[0]
    BY <1>1, JoinedIs
<1> QED
    BY <1>2, JoiningAt

LEMMA JoinedMore ==
    ASSUME NEW ps \in Seq(SentPart), NEW p \in SentPart
    PROVE  /\ Joined(ps) \in Seq(Texts)
           /\ Joined(Append(ps, p)) = Joined(ps) \o p.content
<1>1. PICK t, n : t = Append(ps, p) /\ n = Len(ps)
    OBVIOUS
<1>2. t \in Seq(SentPart) /\ n \in Nat /\ Len(t) = n + 1 /\ t[n + 1] = p
    BY <1>1
<1>3. Alike(ps, t, n)
    BY <1>1 DEF Alike
<1>4. PICK f : Joining(f, ps, n) /\ Joined(ps) = f[n] /\ Joined(ps) \in Seq(Texts)
    BY <1>1, JoinedIs
<1>5. PICK g : Joining(g, t, n + 1) /\ Joined(t) = g[n + 1]
    BY <1>2, JoinedIs
<1>6. n + 1 \in Nat /\ n <= n + 1 /\ n + 1 \in 0..n + 1 /\ n + 1 # 0 /\ n + 1 - 1 = n
    BY <1>2
<1>7. g[n + 1] = g[n] \o p.content
    <2>1. PICK m \in Nat : m = n + 1
        BY <1>6
    <2>2. g[m] = IF m = 0 THEN <<>> ELSE g[m - 1] \o t[m].content
        BY <1>5, <1>6, <2>1, JoiningAt
    <2>3. m - 1 = n /\ m # 0 /\ t[m] = p
        BY <1>2, <2>1
    <2> QED
        BY <2>1, <2>2, <2>3
<1>8. f[n] = g[n]
    BY <1>2, <1>3, <1>4, <1>5, <1>6, JoiningOne
<1> QED
    BY <1>1, <1>4, <1>5, <1>7, <1>8

\* What a sequence begins with.
LEMMA Beginning ==
    ASSUME NEW S, NEW s \in Seq(S), NEW t \in Seq(S)
    PROVE  Len(s) <= Len(s \o t) /\ SubSeq(s \o t, 1, Len(s)) = s
<1>1. PICK u, n : u = s \o t /\ n = Len(s)
    OBVIOUS
<1>2. u \in Seq(S) /\ n \in Nat /\ n <= Len(u) /\ \A i \in 1..n : u[i] = s[i]
    BY <1>1
<1>3. PICK v : v = SubSeq(u, 1, n)
    OBVIOUS
<1>4. v \in Seq(S) /\ Len(v) = n /\ \A i \in 1..n : v[i] = u[i]
    BY <1>2, <1>3
<1>5. v = s
    BY <1>1, <1>2, <1>4, SeqEqual
<1> QED
    BY <1>1, <1>2, <1>3, <1>5

\* The end of the answer was sent.
SeenEnd == \E n \in 1..Len(shown) : shown[n].stop = TRUE

\* What was mapped and not sent yet.
Rest == IF due = <<>> THEN <<>> ELSE due[1].content

\* What was mapped is what was sent and what is due; a client that hung up was sent less.
SentTogether ==
    \E r \in Seq(Texts) : /\ sent = Joined(shown) \o r
                          /\ client # "gone" \/ SeenEnd => r = Rest

SentTypes ==
    /\ shown \in Seq(SentPart)
    /\ due \in Seq(SentPart) /\ Len(due) <= 1

\* The end is mapped once, when nothing more is read, and is the last that is sent.
EndsOnce ==
    /\ client = "waiting" => state.finished = FALSE /\ due = <<>>
    /\ client \in {"gone", "ended"} => due = <<>>
    /\ due # <<>> => due[1].stop = state.finished
    /\ SeenEnd => due = <<>> /\ state.finished = TRUE
    /\ state.finished = TRUE => gen.at \in {"over", "closed"}

\* A job that succeeded did so first.
DoneFirst == \A i, j \in Outcomes : log[i] = "done" => i <= j

RecordTypes ==
    /\ state \in [content_sent : BOOLEAN, finished : BOOLEAN]
    /\ sent \in Seq(Texts)
    /\ recording \in [at : {"none", "remember", "release", "over", "failed"}, text : Seq(Texts), done : BOOLEAN]
    /\ slow \in BOOLEAN
    /\ released \in BOOLEAN

\* The recording starts with the end of the answer and has all of it, and does one thing after the
\* other.
Recorded ==
    /\ state.finished = FALSE => recording = NoTask /\ sent \in Seq(Ordinary)
    /\ state.finished = TRUE => recording.at # "none" /\ recording.text = sent
    /\ recording.at \in {"none", "remember"} => alias = Nothing
    /\ recording.at \in {"release", "over"} =>
         alias = IF recording.text \in FIXED_NOTES THEN Nothing ELSE recording.text
    /\ recording.at = "release" => recording.done = TRUE
    /\ released = TRUE => recording.at = "over" /\ recording.done = TRUE
    /\ recording.at = "over" /\ recording.done = TRUE => released = TRUE
    /\ recording.done = TRUE => sent \in Seq(Ordinary) /\ \E i \in Outcomes : log[i] = "done"

\* A stream ends when its recording is over, or is left alone.
EndAwaited ==
    route = "stream" /\ client = "ended" =>
        state.finished = TRUE /\ (recording.at \in {"over", "failed"} \/ slow = TRUE)

RecordInv ==
    /\ RecordTypes
    /\ DoneFirst
    /\ Recorded
    /\ EndAwaited
    /\ route \in Chat => SentTypes /\ SentTogether /\ EndsOnce

\* Events may be published, if those before stay and no job succeeds after it failed.
LEMMA RecordMoves ==
    ASSUME RecordInv, DoneFirst', \A i \in Outcomes : i \in Outcomes' /\ log'[i] = log[i], UNCHANGED <<gen, answerVars>>
    PROVE  RecordInv'
<1>1. UNCHANGED <<gen, route, client, shown, state, due, sent, recording, slow, alias, released>>
    BY DEF answerVars, chat, settled
<1>2. RecordTypes' /\ Recorded' /\ EndAwaited'
    BY <1>1 DEF RecordInv, RecordTypes, Recorded, EndAwaited
<1>3. route \in Chat => SentTypes' /\ SentTogether' /\ EndsOnce'
    BY <1>1 DEF RecordInv, SentTypes, SentTogether, Rest, SeenEnd, EndsOnce
<1> QED
    BY <1>1, <1>2, <1>3 DEF RecordInv

LEMMA WorldRecorded ==
    ASSUME AnswerInv, RecordInv, World, UNCHANGED answerVars
    PROVE  RecordInv'
<1>1. /\ UNCHANGED gen /\ log \in Seq(Events \cup TERMINAL)
      /\ \/ UNCHANGED log
         \/ Outcomes = {} /\ \E e \in Events \cup TERMINAL : log' = Append(log, e)
         \/ log' = Append(log, "error")
    BY DEF World, Publish, Mark, Abandon, Expire, AnswerInv, ReadInv, ReadTypeOK
<1>2. CASE UNCHANGED log
    BY <1>1, <1>2, RecordMoves DEF RecordInv, DoneFirst, Outcomes
<1>3. ASSUME NEW e \in Events \cup TERMINAL, log' = Append(log, e), Outcomes = {} \/ e = "error"
      PROVE  RecordInv'
    <2>1. PICK n \in Nat : n = Len(log)
        BY <1>1
    <2>2. /\ Len(log') = n + 1 /\ log'[n + 1] = e
          /\ \A i \in 1..n : log'[i] = log[i]
        BY <1>1, <1>3, <2>1
    <2>3. \A i \in Outcomes : i \in 1..n /\ i \in Outcomes' /\ log'[i] = log[i]
        BY <2>1, <2>2 DEF Outcomes
    <2>4. \A i \in Outcomes' : i \in 1..n + 1 /\ (i \in Outcomes \/ i = n + 1)
        BY <2>1, <2>2 DEF Outcomes
    <2>5. DoneFirst'
        <3>1. ASSUME NEW i \in Outcomes', NEW j \in Outcomes', log'[i] = "done"
              PROVE  i <= j
            <4>1. CASE i \in Outcomes /\ j \in Outcomes
                BY <2>3, <3>1, <4>1 DEF RecordInv, DoneFirst
            <4>2. CASE i \in Outcomes /\ j = n + 1
                BY <2>3, <4>2
            <4>3. CASE i = n + 1
                <5>1. Outcomes = {}
                    BY <1>3, <2>2, <3>1, <4>3
                <5> QED
                    BY <2>4, <4>3, <5>1
            <4> QED
                BY <2>4, <4>1, <4>2, <4>3
        <3> QED
            BY <3>1 DEF DoneFirst
    <2> QED
        BY <1>1, <2>3, <2>5, RecordMoves
<1> QED
    BY <1>1, <1>2, <1>3 DEF TERMINAL

\* What is told on another route is not recorded.
LEMMA OthersUnrecorded ==
    ASSUME RecordInv, route \notin Chat, UNCHANGED <<log, route, state, sent, settled>>
    PROVE  RecordInv'
<1>1. UNCHANGED <<recording, slow, alias, released>> /\ route # "stream"
    BY DEF settled, Chat
<1> QED
    BY <1>1 DEF RecordInv, RecordTypes, Recorded, DoneFirst, Outcomes, EndAwaited

\* A reader of a chat answer goes on, if the answer has not ended or its read is over.
LEMMA ReaderUnrecorded ==
    ASSUME RecordInv, route \in Chat, UNCHANGED <<log, route, shown, chat, settled>>,
           \/ client' = client
           \/ client = "waiting" /\ client' = "connected"
           \/ client = "connected" /\ client' = "ended" /\ due = <<>> /\ state.finished = TRUE
              /\ (recording.at \in {"over", "failed"} \/ slow = TRUE),
           state.finished = TRUE => gen'.at \in {"over", "closed"}
    PROVE  RecordInv'
<1>1. UNCHANGED <<state, due, sent, recording, slow, alias, released>>
    BY DEF chat, settled
<1>2. RecordTypes' /\ Recorded' /\ DoneFirst'
    BY <1>1 DEF RecordInv, RecordTypes, Recorded, DoneFirst, Outcomes
<1>3. EndAwaited'
    BY <1>1 DEF RecordInv, EndAwaited
<1>4. (SeenEnd' <=> SeenEnd) /\ Rest' = Rest
    BY <1>1 DEF SeenEnd, Rest
<1>5. SentTypes' /\ SentTogether'
    BY <1>1, <1>4 DEF RecordInv, SentTypes, SentTogether
<1>6. EndsOnce'
    BY <1>1, <1>4 DEF RecordInv, EndsOnce
<1> QED
    BY <1>2, <1>3, <1>5, <1>6 DEF RecordInv

\* What an event adds to an answer.
LEMMA ContentTyped ==
    ASSUME RecordInv, NEW e, e # "timeout"
    PROVE  Content(e) \in Seq(Ordinary)
<1>1. /\ "token" \in Ordinary /\ "break" \in Ordinary /\ "retrying" \in Ordinary /\ "notice" \in Ordinary
      /\ "error" \in Ordinary
    BY DEF Ordinary, Texts
<1>2. \A t \in Ordinary : <<t>> \in Seq(Ordinary) /\ Apart(t) \in Seq(Ordinary) /\ <<>> \in Seq(Ordinary)
    BY <1>1 DEF Apart
<1>3. Apart("notice") \o <<"break">> \in Seq(Ordinary)
    BY <1>1, <1>2
<1> QED
    BY <1>1, <1>2, <1>3 DEF Content

LEMMA OrdinaryTexts ==
    ASSUME NEW s \in Seq(Ordinary)
    PROVE  s \in Seq(Texts) /\ s # <<"timed out">>
<1>1. Ordinary \subseteq Texts /\ "timed out" \notin Ordinary
    BY DEF Ordinary
<1>2. s \in Seq(Texts)
    <2>1. Len(s) \in Nat /\ s \in [1..Len(s) -> Ordinary]
        OBVIOUS
    <2>2. s \in [1..Len(s) -> Texts]
        BY <1>1, <2>1
    <2> QED
        BY <2>1, <2>2
<1>3. ASSUME s = <<"timed out">>
      PROVE  FALSE
    <2>1. Len(s) = 1
        BY <1>3
    <2>2. s[1] \in Ordinary
        BY <2>1
    <2>3. s[1] = "timed out"
        BY <1>3
    <2> QED
        BY <1>1, <2>2, <2>3
<1> QED
    BY <1>2, <1>3

\* The parts of an event carry its content, and end the answer if the event does.
LEMMA PartsCarry ==
    ASSUME NEW e, Content(e) \in Seq(Texts)
    PROVE  /\ Parts(e) \in Seq(SentPart) /\ Len(Parts(e)) <= 1
           /\ Parts(e) = <<>> => Content(e) = <<>>
           /\ Parts(e) # <<>> => Parts(e)[1].content = Content(e) /\ (Parts(e)[1].stop = TRUE <=> Closing(e))
           /\ Parts(e) = <<>> => ~Closing(e)
<1>1. PICK error \in BOOLEAN : error = (e \in {"error", "lost"})
    <2>1. CASE e \in {"error", "lost"}
        BY Zenon, <2>1
    <2>2. CASE e \notin {"error", "lost"}
        <3>1. FALSE = (e \in {"error", "lost"})
            BY <2>2
        <3> QED
            BY Zenon, <3>1
    <2> QED
        BY <2>1, <2>2
<1>2. PICK p : p = [content |-> Content(e), stop |-> TRUE, error |-> error]
    OBVIOUS
<1>3. p \in SentPart /\ p.content = Content(e) /\ p.stop = TRUE
    BY <1>2 DEF SentPart
<1>4. PICK q : q = Part(Content(e))
    OBVIOUS
<1>5. q \in SentPart /\ q.content = Content(e) /\ q.stop = FALSE
    BY <1>4 DEF SentPart, Part
<1>6. <<p>> \in Seq(SentPart) /\ <<q>> \in Seq(SentPart) /\ Len(<<p>>) = 1 /\ Len(<<q>>) = 1
      /\ <<p>>[1] = p /\ <<q>>[1] = q /\ <<>> \in Seq(SentPart) /\ Len(<<>>) = 0
      /\ <<p>> # <<>> /\ <<q>> # <<>>
    BY <1>3, <1>5
<1>7. CASE Closing(e)
    <2>1. Parts(e) = <<p>>
        BY <1>1, <1>2, <1>7 DEF Parts
    <2> QED
        BY <1>3, <1>6, <1>7, <2>1
<1>8. CASE ~Closing(e) /\ (Content(e) # <<>> \/ e \in {"reasoning", "progress", "tool"})
    <2>1. Parts(e) = <<q>>
        BY <1>4, <1>8 DEF Parts
    <2> QED
        BY <1>5, <1>6, <1>8, <2>1
<1>9. CASE ~Closing(e) /\ ~(Content(e) # <<>> \/ e \in {"reasoning", "progress", "tool"})
    <2>1. Parts(e) = <<>> /\ Content(e) = <<>>
        BY <1>9 DEF Parts
    <2> QED
        BY <1>6, <1>9, <2>1
<1> QED
    BY <1>7, <1>8, <1>9

\* An event, or the end of the read, is mapped: what was mapped is sent but for what it adds.
LEMMA MappedTogether ==
    ASSUME AnswerInv, RecordInv, route \in Chat, client = "connected", due = <<>>, state.finished = FALSE,
           NEW e, Content(e) \in Seq(Texts), Mapped(e), UNCHANGED <<route, client, shown>>,
           Closing(e) => gen'.at \in {"over", "closed"}
    PROVE  /\ SentTypes' /\ SentTogether' /\ EndsOnce'
           /\ state' \in [content_sent : BOOLEAN, finished : BOOLEAN]
           /\ state'.finished = TRUE <=> Closing(e)
           /\ sent' \in Seq(Texts) /\ sent' = sent \o Content(e)
<1>1. due' = Parts(e) /\ sent' = sent \o Content(e)
    BY DEF Mapped
<1>2. PICK content_sent \in BOOLEAN, finished \in BOOLEAN :
        /\ content_sent = (state.content_sent \/ Content(e) # <<>>)
        /\ finished = Closing(e)
    <2>1. PICK content_sent \in BOOLEAN : content_sent = (state.content_sent \/ Content(e) # <<>>)
        BY Zenon
    <2>2. PICK finished \in BOOLEAN : finished = Closing(e)
        <3>1. CASE Closing(e)
            BY Zenon, <3>1
        <3>2. CASE ~Closing(e)
            <4>1. FALSE = Closing(e)
                BY <3>2
            <4> QED
                BY Zenon, <4>1
        <3> QED
            BY <3>1, <3>2
    <2> QED
        BY <2>1, <2>2
<1>3. /\ state' = [content_sent |-> content_sent, finished |-> finished]
      /\ finished = TRUE <=> Closing(e)
    BY <1>2 DEF Mapped
<1>4. /\ state' \in [content_sent : BOOLEAN, finished : BOOLEAN]
      /\ state'.finished = finished
    BY <1>3
<1>5. /\ shown \in Seq(SentPart) /\ sent \in Seq(Texts)
      /\ SentTogether /\ EndsOnce
    BY DEF RecordInv, RecordTypes, SentTypes
<1>6. ~SeenEnd /\ ~SeenEnd' /\ Rest = <<>>
    BY <1>5 DEF EndsOnce, SeenEnd, Rest
<1>7. sent = Joined(shown) /\ Joined(shown) \in Seq(Texts)
    <2>1. sent = Joined(shown) \o <<>>
        BY <1>5, <1>6 DEF SentTogether
    <2>2. Joined(shown) \in Seq(Texts)
        BY <1>5, JoinedIs
    <2> QED
        BY <2>1, <2>2
<1>8. /\ due' \in Seq(SentPart) /\ Len(due') <= 1
      /\ due' = <<>> => Content(e) = <<>>
      /\ due' # <<>> => due'[1].content = Content(e) /\ (due'[1].stop = TRUE <=> Closing(e))
    BY <1>1, PartsCarry
<1>9. SentTypes'
    BY <1>5, <1>8 DEF SentTypes
<1>10. SentTogether'
    <2>1. Rest' = Content(e)
        BY <1>8 DEF Rest
    <2>2. Joined(shown)' = Joined(shown)
        BY DEF Joined
    <2> QED
        BY <1>1, <1>7, <2>1, <2>2 DEF SentTogether
<1>11. EndsOnce'
    <2>1. due' # <<>> => due'[1].stop = state'.finished
        <3>1. due' # <<>> => due'[1] \in SentPart
            BY <1>8, EmptySeq
        <3>2. due' # <<>> => due'[1].stop \in BOOLEAN
            BY <3>1 DEF SentPart
        <3> QED
            BY <1>3, <1>4, <1>8, <3>2
    <2> QED
        BY <1>3, <1>4, <1>6, <2>1 DEF EndsOnce
<1>12. sent' \in Seq(Texts)
    BY <1>1, <1>5
<1> QED
    BY <1>1, <1>3, <1>4, <1>9, <1>10, <1>11, <1>12

LEMMA MapRecorded ==
    ASSUME AnswerInv, RecordInv, NEW i \in gen.batch, Map(i)
    PROVE  RecordInv'
<1>1. /\ route \in Chat /\ client = "connected" /\ due = <<>> /\ Yield(i) /\ Mapped(log[i])
      /\ IF log[i] \in TERMINAL THEN Record(log[i] = "done") ELSE UNCHANGED recording
      /\ UNCHANGED <<route, client, shown, slow, alias, released>>
    BY DEF Map
<1>2. PICK e : e = log[i]
    OBVIOUS
<1>3. i \in 1..Len(log) /\ e \in Events \cup TERMINAL
    <2>1. i \in Nat /\ i >= 1 /\ i <= Len(log) /\ gen.after \in Nat /\ Len(log) \in Nat
        BY ReadTypes DEF AnswerInv, ReadInv, BatchStands, Ids
    <2>2. i \in 1..Len(log) /\ log \in Seq(Events \cup TERMINAL)
        BY <2>1 DEF AnswerInv, ReadInv, ReadTypeOK
    <2> QED
        BY <1>2, <2>2
<1>4. Closing(e) <=> e \in TERMINAL
    BY <1>3, RouteAssumption DEF Closing, TERMINAL
<1>5. gen.at = "yield" /\ log' = log /\ (e \in TERMINAL => gen'.at = "over")
    <2>1. gen \in Generator
        BY ReadTypes DEF AnswerInv, ReadInv
    <2> QED
        BY <1>1, <1>2, <2>1 DEF Yield, records, Generator
<1>6. state.finished = FALSE
    BY <1>1, <1>5 DEF RecordInv, RecordTypes, EndsOnce
<1>7. e # "timeout"
    BY <1>3, RouteAssumption DEF TERMINAL
<1>8. Content(e) \in Seq(Ordinary) /\ Content(e) \in Seq(Texts)
    BY <1>7, ContentTyped, OrdinaryTexts
<1>9. /\ SentTypes' /\ SentTogether' /\ EndsOnce'
      /\ state' \in [content_sent : BOOLEAN, finished : BOOLEAN]
      /\ state'.finished = TRUE <=> Closing(e)
      /\ sent' \in Seq(Texts) /\ sent' = sent \o Content(e)
    <2>1. Mapped(e)
        BY <1>1, <1>2
    <2>2. Closing(e) => gen'.at \in {"over", "closed"}
        BY <1>4, <1>5
    <2> QED
        BY <1>1, <1>6, <1>8, <2>1, <2>2, MappedTogether
<1>10. recording = NoTask /\ sent \in Seq(Ordinary) /\ alias = Nothing /\ released = FALSE
    <2>1. recording = NoTask /\ sent \in Seq(Ordinary)
        BY <1>6 DEF RecordInv, Recorded
    <2>2. recording.at = "none"
        BY <2>1 DEF NoTask
    <2> QED
        BY <2>1, <2>2 DEF RecordInv, RecordTypes, Recorded
<1>11. sent' \in Seq(Ordinary)
    BY <1>8, <1>9, <1>10
<1>12. PICK done \in BOOLEAN : done = (e = "done")
    OBVIOUS
<1>13. /\ e \in TERMINAL => recording' = [at |-> "remember", text |-> sent', done |-> done]
       /\ e \notin TERMINAL => recording' = NoTask
    BY <1>1, <1>2, <1>10, <1>12 DEF Record
<1>14. RecordTypes'
    <2>1. recording' \in [at : {"none", "remember", "release", "over", "failed"}, text : Seq(Texts), done : BOOLEAN]
        <3>1. recording \in [at : {"none", "remember", "release", "over", "failed"}, text : Seq(Texts), done : BOOLEAN]
            BY DEF RecordInv, RecordTypes
        <3>2. CASE e \in TERMINAL
            <4>1. recording' = [at |-> "remember", text |-> sent', done |-> done]
                BY <1>13, <3>2
            <4>2. sent' \in Seq(Texts)
                BY <1>9
            <4> QED
                BY <4>1, <4>2
        <3>3. CASE e \notin TERMINAL
            BY <1>10, <1>13, <3>1, <3>3
        <3> QED
            BY <3>2, <3>3
    <2> QED
        BY <1>1, <1>9, <2>1 DEF RecordInv, RecordTypes
<1>15. DoneFirst' /\ Outcomes' = Outcomes
    BY <1>5 DEF RecordInv, DoneFirst, Outcomes
<1>16. Recorded'
    <2>1. CASE e \in TERMINAL
        <3>1. /\ recording'.at = "remember" /\ recording'.text = sent' /\ recording'.done = done
              /\ state'.finished = TRUE /\ alias' = Nothing /\ released' = FALSE
            BY <1>1, <1>4, <1>9, <1>10, <1>13, <2>1
        <3>2. done = TRUE => \E k \in Outcomes' : log'[k] = "done"
            BY <1>2, <1>3, <1>5, <1>12, <2>1 DEF Outcomes
        <3> QED
            BY <1>11, <3>1, <3>2 DEF Recorded
    <2>2. CASE e \notin TERMINAL
        <3>1. /\ recording' = NoTask /\ recording'.at = "none" /\ recording'.done = FALSE
              /\ state'.finished = FALSE /\ alias' = Nothing /\ released' = FALSE
            BY <1>1, <1>4, <1>9, <1>10, <1>13, <2>2 DEF NoTask
        <3> QED
            BY <1>11, <3>1 DEF Recorded
    <2> QED
        BY <2>1, <2>2
<1>17. EndAwaited'
    BY <1>1 DEF EndAwaited
<1> QED
    BY <1>9, <1>14, <1>15, <1>16, <1>17 DEF RecordInv

LEMMA EndRecorded ==
    ASSUME AnswerInv, RecordInv, MapEnd
    PROVE  RecordInv'
<1>1. PICK e \in {"lost", "timeout"} : Mapped(e)
    BY DEF MapEnd
<1>2. /\ route \in Chat /\ client = "connected" /\ due = <<>> /\ gen.at = "over" /\ Record(FALSE)
      /\ UNCHANGED <<log, gen, route, client, shown, slow, alias, released>>
    BY DEF MapEnd, readVars, records
<1>3. state.finished = FALSE
    BY DEF MapEnd, RecordInv, RecordTypes
<1>4. Closing(e)
    BY <1>1 DEF Closing
<1>5. Content(e) \in Seq(Texts)
    <2>1. \A t \in Texts : Apart(t) \in Seq(Texts)
        <3>1. "break" \in Texts
            BY DEF Texts
        <3>2. \A t \in Texts : <<t>> \in Seq(Texts) /\ <<"break", t>> \in Seq(Texts)
            BY <3>1
        <3> QED
            BY <3>2 DEF Apart
    <2>2. "error" \in Texts /\ "timed out" \in Texts
        BY DEF Texts
    <2>3. Content(e) = Apart("error") \/ Content(e) = Apart("timed out")
        BY <1>1 DEF Content
    <2> QED
        BY <2>1, <2>2, <2>3
<1>6. /\ SentTypes' /\ SentTogether' /\ EndsOnce'
      /\ state' \in [content_sent : BOOLEAN, finished : BOOLEAN]
      /\ state'.finished = TRUE
      /\ sent' \in Seq(Texts)
    BY <1>1, <1>2, <1>3, <1>4, <1>5, MappedTogether
<1>7. alias = Nothing /\ released = FALSE
    <2>1. recording = NoTask
        BY <1>3 DEF RecordInv, Recorded
    <2>2. recording.at = "none"
        BY <2>1 DEF NoTask
    <2> QED
        BY <2>2 DEF RecordInv, RecordTypes, Recorded
<1>8. /\ recording' = [at |-> "remember", text |-> sent', done |-> FALSE]
      /\ recording'.at = "remember" /\ recording'.text = sent' /\ recording'.done = FALSE
    BY <1>2 DEF Record
<1>9. RecordTypes'
    BY <1>2, <1>6, <1>8 DEF RecordInv, RecordTypes
<1>10. Recorded' /\ DoneFirst' /\ EndAwaited'
    BY <1>2, <1>6, <1>7, <1>8 DEF RecordInv, Recorded, DoneFirst, Outcomes, EndAwaited
<1> QED
    BY <1>6, <1>9, <1>10 DEF RecordInv

\* What is due goes out.
LEMMA SendRecorded ==
    ASSUME AnswerInv, RecordInv, Send
    PROVE  RecordInv'
<1>1. /\ client = "connected" /\ due # <<>> /\ shown' = Append(shown, Head(due)) /\ due' = Tail(due)
      /\ client' = client \/ (route = "ask" /\ client' = "ended")
      /\ UNCHANGED <<log, gen, route, state, sent, recording, slow, alias, released>>
    BY DEF Send, Show, readVars, records, settled
<1>2. route \in Chat
    BY <1>1 DEF AnswerInv
<1>3. SentTypes /\ SentTogether /\ EndsOnce
    BY <1>2 DEF RecordInv
<1>4. PICK p \in SentPart : p = due[1] /\ Head(due) = p
    <2>1. due \in Seq(SentPart) /\ Len(due) # 0
        BY <1>1, <1>3, EmptySeq DEF SentTypes
    <2> QED
        BY <2>1
<1>5. due' = <<>>
    <2>1. due \in Seq(SentPart) /\ Len(due) \in Nat /\ Len(due) # 0 /\ Len(due) <= 1
        BY <1>1, <1>3, EmptySeq DEF SentTypes
    <2>3. Tail(due) \in Seq(SentPart) /\ Len(Tail(due)) = Len(due) - 1
        BY <1>1, <2>1, HeadTailProperties
    <2>2. Tail(due) \in Seq(SentPart) /\ Len(Tail(due)) = 0
        BY <2>1, <2>3
    <2> QED
        BY <1>1, <2>2, EmptySeq
<1>6. PICK n \in Nat : n = Len(shown)
    BY <1>3 DEF SentTypes
<1>7. /\ shown' \in Seq(SentPart) /\ Len(shown') = n + 1 /\ shown'[n + 1] = p
      /\ \A m \in 1..n : shown'[m] = shown[m]
    BY <1>1, <1>3, <1>4, <1>6 DEF SentTypes
<1>8. SentTypes'
    <2>1. <<>> \in Seq(SentPart) /\ Len(<<>>) <= 1
        OBVIOUS
    <2> QED
        BY <1>5, <1>7, <2>1 DEF SentTypes
<1>9. /\ Joined(shown') = Joined(shown) \o p.content
      /\ Joined(shown) \in Seq(Texts) /\ p.content \in Seq(Texts)
    <2>1. p.content \in Seq(Texts)
        BY DEF SentPart
    <2> QED
        BY <1>1, <1>3, <1>4, <2>1, JoinedMore DEF SentTypes
<1>10. ~SeenEnd /\ p.stop = state.finished
    BY <1>1, <1>3, <1>4 DEF EndsOnce
<1>11. sent = Joined(shown) \o p.content
    <2>1. Rest = p.content
        BY <1>1, <1>4 DEF Rest
    <2> QED
        BY <1>1, <1>3, <2>1 DEF SentTogether
<1>12. SentTogether'
    <2>1. sent' = Joined(shown') /\ Joined(shown') \in Seq(Texts)
        BY <1>1, <1>9, <1>11 DEF RecordInv, RecordTypes
    <2>2. sent' = Joined(shown') \o <<>> /\ <<>> \in Seq(Texts)
        BY <2>1
    <2>3. Rest' = <<>>
        BY <1>5 DEF Rest
    <2>4. Joined(shown') = Joined(shown)'
        BY DEF Joined
    <2> QED
        BY <2>2, <2>3, <2>4 DEF SentTogether
<1>13. EndsOnce'
    <2>1. SeenEnd' => state.finished = TRUE
        <3>1. ASSUME NEW m \in 1..n + 1, shown'[m].stop = TRUE
              PROVE  m = n + 1
            <4>1. m \in 1..n => shown'[m] = shown[m]
                BY <1>7
            <4>2. m \in 1..n => shown[m].stop # TRUE
                BY <1>6, <1>10 DEF SeenEnd
            <4>3. m \in 1..n \/ m = n + 1
                OBVIOUS
            <4>4. m \notin 1..n
                BY <3>1, <4>1, <4>2
            <4> QED
                BY <4>3, <4>4
        <3> QED
            BY <1>7, <1>10, <3>1 DEF SeenEnd
    <2>2. client' # "waiting" /\ (state.finished = TRUE => gen.at \in {"over", "closed"})
        BY <1>1, <1>3 DEF EndsOnce
    <2> QED
        BY <1>1, <1>5, <2>1, <2>2 DEF EndsOnce
<1>14. RecordTypes' /\ Recorded' /\ DoneFirst'
    BY <1>1 DEF RecordInv, RecordTypes, Recorded, DoneFirst, Outcomes
<1>15. EndAwaited'
    BY <1>1 DEF RecordInv, EndAwaited
<1> QED
    BY <1>8, <1>12, <1>13, <1>14, <1>15 DEF RecordInv

\* A client that hangs up is sent no more.
LEMMA HangUpRecorded ==
    ASSUME AnswerInv, RecordInv, HangUp
    PROVE  RecordInv'
<1>1. /\ client \in {"heard", "connected"} /\ client' = "gone" /\ due' = <<>>
      /\ gen' = [gen EXCEPT !.at = "closed", !.batch = {}, !.finishing = FALSE]
      /\ UNCHANGED <<log, route, shown, state, sent, recording, slow, alias, released>>
    BY DEF HangUp, records, settled
<1>2. gen'.at = "closed"
    <2>1. gen \in Generator
        BY ReadTypes DEF AnswerInv, ReadInv
    <2> QED
        BY <1>1, <2>1 DEF Generator
<1>3. RecordTypes' /\ Recorded' /\ DoneFirst' /\ EndAwaited'
    BY <1>1 DEF RecordInv, RecordTypes, Recorded, DoneFirst, Outcomes, EndAwaited
<1>4. (SeenEnd' <=> SeenEnd) /\ Rest' = <<>> /\ Joined(shown)' = Joined(shown)
    BY <1>1 DEF SeenEnd, Rest, Joined
<1>5. ASSUME route \in Chat
      PROVE  SentTypes' /\ SentTogether' /\ EndsOnce'
    <2>1. SentTypes /\ SentTogether /\ EndsOnce
        BY <1>5 DEF RecordInv
    <2>2. SentTypes'
        <3>1. <<>> \in Seq(SentPart) /\ Len(<<>>) <= 1
            OBVIOUS
        <3> QED
            BY <1>1, <2>1, <3>1 DEF SentTypes
    <2>3. SeenEnd => Rest = <<>>
        BY <2>1 DEF EndsOnce, Rest
    <2>4. SentTogether'
        BY <1>1, <1>4, <2>1, <2>3 DEF SentTogether
    <2>5. EndsOnce'
        BY <1>1, <1>2, <1>4, <2>1 DEF EndsOnce
    <2> QED
        BY <2>2, <2>4, <2>5
<1> QED
    BY <1>1, <1>3, <1>5 DEF RecordInv

\* The recording's own steps.
LEMMA SettleRecorded ==
    ASSUME RecordInv, Settle \/ Slow
    PROVE  RecordInv'
<1>1. UNCHANGED <<log, gen, route, client, shown, state, due, sent>>
    BY DEF Settle, Slow, Remember, Release, RecordingFails, readVars, records, chat
<1>2. recording \in [at : {"none", "remember", "release", "over", "failed"}, text : Seq(Texts), done : BOOLEAN]
    BY DEF RecordInv, RecordTypes
<1>3. state.finished = TRUE /\ recording.text = sent
    <2>1. recording.at # "none"
        BY DEF Settle, Slow, Remember, Release, RecordingFails
    <2>2. recording # NoTask
        BY <2>1 DEF NoTask
    <2> QED
        BY <2>2 DEF RecordInv, RecordTypes, Recorded
<1>4. DoneFirst' /\ (route \in Chat => SentTypes' /\ SentTogether' /\ EndsOnce')
    <2>1. (SeenEnd' <=> SeenEnd) /\ Rest' = Rest /\ Joined(shown)' = Joined(shown)
        BY <1>1 DEF SeenEnd, Rest, Joined
    <2> QED
        BY <1>1, <2>1 DEF RecordInv, DoneFirst, Outcomes, SentTypes, SentTogether, EndsOnce
<1>5. CASE Remember
    <2>1. PICK at \in {"release", "over"} :
             /\ recording' = [recording EXCEPT !.at = at]
             /\ at = IF recording.done THEN "release" ELSE "over"
        BY <1>5 DEF Remember
    <2>2. /\ recording.at = "remember" /\ UNCHANGED <<slow, released>>
          /\ alias' = IF recording.text \in FIXED_NOTES THEN alias ELSE recording.text
        BY <1>5 DEF Remember
    <2>3. /\ recording'.at = at /\ recording'.text = recording.text /\ recording'.done = recording.done
          /\ recording' \in [at : {"none", "remember", "release", "over", "failed"}, text : Seq(Texts), done : BOOLEAN]
        BY <1>2, <2>1
    <2>4. at = "release" <=> recording.done = TRUE
        BY <1>2, <2>1
    <2>5. RecordTypes'
        BY <1>1, <2>2, <2>3 DEF RecordInv, RecordTypes
    <2>6. alias = Nothing /\ released = FALSE
        BY <2>2 DEF RecordInv, RecordTypes, Recorded
    <2>7. Recorded'
        BY <1>1, <1>3, <2>1, <2>2, <2>3, <2>4, <2>6 DEF RecordInv, Recorded, Outcomes
    <2>8. EndAwaited'
        BY <1>1, <2>2 DEF RecordInv, EndAwaited
    <2> QED
        BY <1>4, <2>2, <2>5, <2>7, <2>8, <1>1 DEF RecordInv
<1>6. CASE Release
    <2>1. /\ recording.at = "release" /\ recording' = [recording EXCEPT !.at = "over"] /\ released' = TRUE
          /\ UNCHANGED <<slow, alias>>
        BY <1>6 DEF Release
    <2>2. /\ recording'.at = "over" /\ recording'.text = recording.text /\ recording'.done = recording.done
          /\ recording' \in [at : {"none", "remember", "release", "over", "failed"}, text : Seq(Texts), done : BOOLEAN]
        BY <1>2, <2>1
    <2>3. RecordTypes'
        BY <1>1, <2>1, <2>2 DEF RecordInv, RecordTypes
    <2>4. Recorded'
        BY <1>1, <1>3, <2>1, <2>2 DEF RecordInv, Recorded, Outcomes
    <2>5. EndAwaited'
        BY <1>1, <2>1 DEF RecordInv, EndAwaited
    <2> QED
        BY <1>1, <1>4, <2>3, <2>4, <2>5 DEF RecordInv
<1>7. CASE RecordingFails
    <2>1. /\ recording.at \in {"remember", "release"} /\ recording' = [recording EXCEPT !.at = "failed"]
          /\ UNCHANGED <<slow, alias, released>>
        BY <1>7 DEF RecordingFails
    <2>2. /\ recording'.at = "failed" /\ recording'.text = recording.text /\ recording'.done = recording.done
          /\ recording' \in [at : {"none", "remember", "release", "over", "failed"}, text : Seq(Texts), done : BOOLEAN]
        BY <1>2, <2>1
    <2>3. RecordTypes'
        BY <1>1, <2>1, <2>2 DEF RecordInv, RecordTypes
    <2>4. released = FALSE
        BY <2>1 DEF RecordInv, RecordTypes, Recorded
    <2>5. Recorded'
        BY <1>1, <1>3, <2>1, <2>2, <2>4 DEF RecordInv, Recorded, Outcomes
    <2>6. EndAwaited'
        BY <1>1, <2>1 DEF RecordInv, EndAwaited
    <2> QED
        BY <1>1, <1>4, <2>3, <2>5, <2>6 DEF RecordInv
<1>8. CASE Slow
    <2>1. slow' = TRUE /\ UNCHANGED <<recording, alias, released>>
        BY <1>8 DEF Slow
    <2>2. RecordTypes' /\ Recorded' /\ EndAwaited'
        BY <1>1, <2>1 DEF RecordInv, RecordTypes, Recorded, Outcomes, EndAwaited
    <2> QED
        BY <1>1, <1>4, <2>2 DEF RecordInv
<1> QED
    BY <1>5, <1>6, <1>7, <1>8 DEF Settle

LEMMA RecordKept ==
    ASSUME AnswerInv, RecordInv, Next
    PROVE  RecordInv'
<1>1. CASE World /\ UNCHANGED answerVars
    BY <1>1, WorldRecorded
<1>2. CASE (Poll /\ UNCHANGED answerVars) \/ TimePasses
    <2>1. UNCHANGED <<log, route, client, shown, chat, settled, state, sent>>
        BY <1>2 DEF answerVars, chat, TimePasses, Poll, Read, Status, Exists, Deadline, records
    <2>2. CASE route \in Chat
        <3>1. state.finished = TRUE => gen'.at \in {"over", "closed"}
            <4>1. state.finished = TRUE => gen.at \in {"over", "closed"}
                BY <2>2 DEF RecordInv, EndsOnce
            <4> QED
                BY <1>2, <4>1 DEF TimePasses, Poll, Read, Status, Exists, Deadline
        <3> QED
            BY <2>1, <2>2, <3>1, ReaderUnrecorded
    <2>3. CASE route \notin Chat
        BY <2>1, <2>3, OthersUnrecorded
    <2> QED
        BY <2>2, <2>3
<1>3. CASE CreateJob \/ StartDesk \/ StartTurn \/ Resume \/ Hear \/ Unheard \/ Conclude
    <2>1. route \notin Chat /\ UNCHANGED <<log, route, state, sent, settled>>
        BY <1>3 DEF CreateJob, StartDesk, StartTurn, Begin, Resume, Open, Hear, Unheard, Conclude, EndStream, Speak,
           Accepted, Abandoned, Chat, readVars, records, chat
    <2> QED
        BY <2>1, OthersUnrecorded
<1>4. ASSUME NEW i \in gen.batch, Follow(i)
      PROVE  RecordInv'
    <2>1. route \notin Chat /\ UNCHANGED <<log, route, state, sent, settled>>
        BY <1>4 DEF Follow, Pass, Outcome, Result, Yield, Chat, records, chat
    <2> QED
        BY <2>1, OthersUnrecorded
<1>5. CASE AskChat
    <2>1. /\ route \in Chat /\ client = "waiting" /\ client' = "connected"
          /\ UNCHANGED <<log, route, shown, chat, settled>>
        BY <1>5 DEF AskChat, Begin, Open, records
    <2>2. state.finished = FALSE
        BY <2>1 DEF RecordInv, EndsOnce
    <2> QED
        BY <2>1, <2>2, ReaderUnrecorded
<1>6. CASE Finish
    <2>1. /\ client = "connected" /\ client' = "ended" /\ due = <<>>
          /\ recording.at \in {"over", "failed"} \/ slow = TRUE
          /\ UNCHANGED <<log, gen, route, shown, chat, settled>>
        BY <1>6 DEF Finish, readVars, records
    <2>2. state.finished = TRUE
        BY <1>6 DEF Finish, RecordInv, RecordTypes
    <2>3. route \in Chat
        BY <2>2 DEF AnswerInv
    <2>4. gen.at \in {"over", "closed"}
        BY <2>2, <2>3 DEF RecordInv, EndsOnce
    <2> QED
        BY <2>1, <2>2, <2>3, <2>4, ReaderUnrecorded
<1>7. ASSUME NEW i \in gen.batch, Map(i)
      PROVE  RecordInv'
    BY <1>7, MapRecorded
<1>8. CASE MapEnd
    BY <1>8, EndRecorded
<1>9. CASE Send
    BY <1>9, SendRecorded
<1>10. CASE HangUp
    BY <1>10, HangUpRecorded
<1>11. CASE Settle \/ Slow
    BY <1>11, SettleRecorded
<1> QED
    BY <1>1, <1>2, <1>3, <1>4, <1>5, <1>6, <1>7, <1>8, <1>9, <1>10, <1>11 DEF Next, Respond

LEMMA RecordStarts ==
    ASSUME NEW r, InitOf(r)
    PROVE  RecordInv
<1>1. /\ log = <<>> /\ client = "waiting" /\ shown = <<>> /\ due = <<>> /\ sent = <<>>
      /\ state = [content_sent |-> FALSE, finished |-> FALSE] /\ recording = NoTask
      /\ slow = FALSE /\ released = FALSE /\ alias = Nothing
    BY DEF InitOf, ReadInit
<1>2. Outcomes = {}
    BY <1>1 DEF Outcomes
<1>3. <<>> \in Seq(Texts) /\ <<>> \in Seq(Ordinary) /\ <<>> \in Seq(SentPart) /\ Len(<<>>) = 0
    OBVIOUS
<1>4. /\ recording = [at |-> "none", text |-> <<>>, done |-> FALSE]
      /\ recording.at = "none" /\ recording.text = <<>> /\ recording.done = FALSE
    BY <1>1 DEF NoTask, Nothing
<1>5. state.finished = FALSE
    BY <1>1
<1>6. RecordTypes
    <2>1. recording \in [at : {"none", "remember", "release", "over", "failed"}, text : Seq(Texts), done : BOOLEAN]
        BY <1>3, <1>4
    <2> QED
        BY <1>1, <1>3, <2>1 DEF RecordTypes
<1>7. DoneFirst /\ Recorded /\ EndAwaited
    BY <1>1, <1>2, <1>3, <1>4, <1>5 DEF DoneFirst, Recorded, EndAwaited
<1>8. ~SeenEnd /\ Rest = <<>>
    BY <1>1, <1>3 DEF SeenEnd, Rest
<1>9. SentTypes /\ EndsOnce
    BY <1>1, <1>3, <1>5, <1>8 DEF SentTypes, EndsOnce
<1>10. SentTogether
    <2>1. Joined(shown) = <<>> /\ <<>> \o <<>> = <<>>
        BY <1>1, JoinedNone
    <2> QED
        BY <1>1, <1>3, <1>8, <2>1 DEF SentTogether
<1> QED
    BY <1>6, <1>7, <1>9, <1>10 DEF RecordInv

LEMMA RecordRests ==
    ASSUME RecordInv, UNCHANGED vars
    PROVE  RecordInv'
<1>1. UNCHANGED <<log, gen, answerVars>>
    BY DEF vars, readVars, records
<1> QED
    BY <1>1, RecordMoves DEF RecordInv, DoneFirst, Outcomes

LEMMA RecordAlways == JobSpec => []RecordInv
<1>1. JobInit => RecordInv
    BY RecordStarts DEF JobInit, Init
<1>2. AnswerInv /\ RecordInv /\ [JobNext]_jobVars => RecordInv'
    BY RecordKept, RecordRests DEF JobNext, jobVars
<1> QED
    BY <1>1, <1>2, AnswerAlways, PTL DEF JobSpec

\* settle.py 3-6 and 42-45, routes.py 6-7: what is recorded of an answer is what was sent, by the time
\* its end can be seen, under the alias the next request looks for; a request is released once
\* its answer was delivered.
THEOREM AnswerRecordedHolds == JobSpec => []AnswerRecorded
<1>1. ASSUME RecordInv
      PROVE  AnswerRecorded
    <2>1. Content_shown = Joined(shown)
        BY DEF Content_shown, Joined
    <2>2. RecordsWhatWasSent
        <3>1. SUFFICES ASSUME route \in Chat
                       PROVE  /\ SawTheEnd => recording.at # "none" /\ recording.text = Joined(shown)
                              /\ recording.at # "none" =>
                                   /\ Len(Joined(shown)) <= Len(recording.text)
                                   /\ SubSeq(recording.text, 1, Len(Joined(shown))) = Joined(shown)
            BY <2>1 DEF RecordsWhatWasSent
        <3>2. SentTypes /\ SentTogether /\ EndsOnce
            BY <1>1, <3>1 DEF RecordInv
        <3>3. Joined(shown) \in Seq(Texts)
            BY <3>2, JoinedIs DEF SentTypes
        <3>4. SawTheEnd => SeenEnd
            BY <3>2 DEF SawTheEnd, SeenEnd, SentTypes, SentPart
        <3>5. SeenEnd => sent = Joined(shown) /\ state.finished = TRUE
            <4>1. SeenEnd => state.finished = TRUE /\ Rest = <<>>
                BY <3>2 DEF EndsOnce, Rest
            <4>2. SeenEnd => sent = Joined(shown) \o <<>>
                BY <3>2, <4>1 DEF SentTogether
            <4> QED
                BY <3>3, <4>1, <4>2
        <3>6. recording.at # "none" => recording.text = sent
            BY <1>1 DEF RecordInv, RecordTypes, Recorded, NoTask
        <3>7. PICK r \in Seq(Texts) : sent = Joined(shown) \o r
            BY <3>2 DEF SentTogether
        <3>8. Len(Joined(shown)) <= Len(sent) /\ SubSeq(sent, 1, Len(Joined(shown))) = Joined(shown)
            BY <3>3, <3>7, Beginning
        <3> QED
            BY <1>1, <3>4, <3>5, <3>6, <3>8 DEF RecordInv, Recorded
    <2>3. EndFindsTheAlias
        <3>1. SUFFICES ASSUME route = "stream", client = "ended", slow # TRUE, recording.at # "failed"
                       PROVE  /\ Joined(shown) \notin FIXED_NOTES => alias = Joined(shown)
                              /\ Joined(shown) \in FIXED_NOTES => alias = Nothing
                              /\ released <=> recording.done
            BY <2>1 DEF EndFindsTheAlias
        <3>2. state.finished = TRUE /\ recording.at = "over" /\ recording.text = sent
            BY <1>1, <3>1 DEF RecordInv, EndAwaited, Recorded
        <3>3. SentTypes /\ SentTogether /\ EndsOnce
            BY <1>1, <3>1 DEF RecordInv, Chat
        <3>4. sent = Joined(shown)
            <4>1. Rest = <<>>
                BY <3>1, <3>3 DEF EndsOnce, Rest
            <4>2. sent = Joined(shown) \o <<>>
                BY <3>1, <3>3, <4>1 DEF SentTogether
            <4> QED
                BY <3>3, <4>2, JoinedIs DEF SentTypes
        <3>5. alias = IF sent \in FIXED_NOTES THEN Nothing ELSE sent
            BY <1>1, <3>2 DEF RecordInv, Recorded
        <3>6. released = TRUE <=> recording.done = TRUE
            BY <1>1, <3>2 DEF RecordInv, Recorded
        <3>7. released \in BOOLEAN /\ recording.done \in BOOLEAN
            BY <1>1 DEF RecordInv, RecordTypes
        <3> QED
            BY <3>4, <3>5, <3>6, <3>7
    <2>4. ReleasedIsDone
        <3>1. SUFFICES ASSUME released = TRUE
                       PROVE  /\ \E i \in Outcomes : log[i] = "done" /\ \A j \in Outcomes : i <= j
                              /\ alias = recording.text
            BY <1>1 DEF ReleasedIsDone, RecordInv, RecordTypes
        <3>2. recording.at = "over" /\ recording.done = TRUE
            BY <1>1, <3>1 DEF RecordInv, Recorded
        <3>3. sent \in Seq(Ordinary) /\ \E i \in Outcomes : log[i] = "done"
            BY <1>1, <3>2 DEF RecordInv, Recorded
        <3>4. recording.text = sent
            BY <1>1, <3>2 DEF RecordInv, RecordTypes, Recorded, NoTask
        <3>5. recording.text \notin FIXED_NOTES
            BY <3>3, <3>4, OrdinaryTexts DEF FIXED_NOTES
        <3>6. alias = recording.text
            BY <1>1, <3>2, <3>5 DEF RecordInv, Recorded
        <3> QED
            BY <1>1, <3>3, <3>6 DEF RecordInv, DoneFirst
    <2> QED
        BY <2>2, <2>3, <2>4 DEF AnswerRecorded
<1> QED
    BY <1>1, RecordAlways, PTL

-----------------------------------------------------------------------------
(* Research: the run of the pipeline *)

ToldLine == {"drafting", "redrafting", "checking", "verdict", "sizing", "saving"}
             \X (Nat \cup {"approve", "revise"})

Checking == Run!Line("checking", 0)
Sizing == Run!Line("sizing", 0)
Saving == Run!Line("saving", 0)

\* The lines ts tell the rounds of the verdicts vs, and then ls.
Tells(ts, vs, ls) ==
    /\ Len(ts) = 3 * Len(vs) + Len(ls)
    /\ \A k \in 1..Len(vs) : /\ ts[3 * k - 2] = Run!Draft_line(k)
                             /\ ts[3 * k - 1] = Checking
                             /\ ts[3 * k] = Run!Line("verdict", vs[k])
    /\ \A i \in 1..Len(ls) : ts[3 * Len(vs) + i] = ls[i]

LEMMA TellsMore ==
    ASSUME NEW ts \in Seq(ToldLine), NEW vs \in Seq(Run!Verdicts), NEW ls \in Seq(ToldLine), NEW l \in ToldLine,
           Tells(ts, vs, ls)
    PROVE  Append(ts, l) \in Seq(ToldLine) /\ Tells(Append(ts, l), vs, Append(ls, l))
<1>1. PICK t, n, m, us, ms : /\ t = Len(ts) /\ n = Len(vs) /\ m = Len(ls)
                             /\ us = Append(ts, l) /\ ms = Append(ls, l)
    OBVIOUS
<1>2. /\ t \in Nat /\ n \in Nat /\ m \in Nat /\ t = 3 * n + m
      /\ us \in Seq(ToldLine) /\ Len(us) = t + 1 /\ us[t + 1] = l /\ \A i \in 1..t : us[i] = ts[i]
      /\ Len(ms) = m + 1 /\ ms[m + 1] = l /\ \A i \in 1..m : ms[i] = ls[i]
    <2>1. Len(ts) = 3 * Len(vs) + Len(ls)
        BY DEF Tells
    <2>2. Len(us) = Len(ts) + 1 /\ us[Len(ts) + 1] = l /\ \A i \in 1..Len(ts) : us[i] = ts[i]
        BY <1>1
    <2>3. Len(ms) = Len(ls) + 1 /\ ms[Len(ls) + 1] = l /\ \A i \in 1..Len(ls) : ms[i] = ls[i]
        BY <1>1
    <2>4. us \in Seq(ToldLine) /\ Len(ts) \in Nat /\ Len(vs) \in Nat /\ Len(ls) \in Nat
        BY <1>1
    <2> QED
        BY <1>1, <2>1, <2>2, <2>3, <2>4
<1>3. \A k \in 1..n : 3 * k - 2 \in 1..t /\ 3 * k - 1 \in 1..t /\ 3 * k \in 1..t
    BY <1>2
<1>4. \A k \in 1..n : /\ us[3 * k - 2] = Run!Draft_line(k)
                      /\ us[3 * k - 1] = Checking
                      /\ us[3 * k] = Run!Line("verdict", vs[k])
    BY <1>1, <1>2, <1>3 DEF Tells
<1>5. \A i \in 1..m + 1 : us[3 * n + i] = ms[i]
    <2>1. ASSUME NEW i \in 1..m
          PROVE  us[3 * n + i] = ms[i]
        <3>1. 3 * n + i \in 1..t
            BY <1>2
        <3>2. ts[3 * n + i] = ls[i]
            BY <1>1 DEF Tells
        <3> QED
            BY <1>2, <3>1, <3>2
    <2>2. us[3 * n + (m + 1)] = ms[m + 1]
        <3>1. 3 * n + (m + 1) = t + 1
            BY <1>2
        <3> QED
            BY <1>2, <3>1
    <2>3. \A i \in 1..m + 1 : i \in 1..m \/ i = m + 1
        BY <1>2
    <2> QED
        BY <2>1, <2>2, <2>3
<1>6. Len(us) = 3 * n + (m + 1)
    BY <1>2
<1> QED
    BY <1>1, <1>2, <1>4, <1>5, <1>6 DEF Tells

LEMMA TellsRound ==
    ASSUME NEW ts \in Seq(ToldLine), NEW vs \in Seq(Run!Verdicts), NEW v \in Run!Verdicts,
           Tells(ts, vs, <<Run!Draft_line(Len(vs) + 1), Checking>>)
    PROVE  /\ Append(ts, Run!Line("verdict", v)) \in Seq(ToldLine)
           /\ Tells(Append(ts, Run!Line("verdict", v)), Append(vs, v), <<>>)
<1>1. PICK l, n, us, ws : /\ l = Run!Line("verdict", v) /\ n = Len(vs)
                          /\ us = Append(ts, l) /\ ws = Append(vs, v)
    OBVIOUS
<1>2. l \in ToldLine /\ n \in Nat
    BY <1>1 DEF Run!Line, ToldLine, Run!Verdicts
<1>3. Len(ts) = 3 * n + 2 /\ ts[3 * n + 1] = Run!Draft_line(n + 1) /\ ts[3 * n + 2] = Checking
    BY <1>1 DEF Tells
<1>4. /\ us \in Seq(ToldLine) /\ Len(us) = 3 * n + 3 /\ us[3 * n + 3] = l
      /\ \A i \in 1..3 * n + 2 : us[i] = ts[i]
    <2>1. /\ us \in Seq(ToldLine) /\ Len(us) = Len(ts) + 1 /\ us[Len(ts) + 1] = l
          /\ \A i \in 1..Len(ts) : us[i] = ts[i]
        BY <1>1, <1>2
    <2>2. Len(ts) + 1 = 3 * n + 3
        BY <1>2, <1>3
    <2> QED
        BY <1>3, <2>1, <2>2
<1>5. Len(ws) = n + 1 /\ ws[n + 1] = v /\ \A i \in 1..n : ws[i] = vs[i]
    BY <1>1
<1>6. ASSUME NEW k \in 1..n
      PROVE  /\ us[3 * k - 2] = Run!Draft_line(k)
             /\ us[3 * k - 1] = Checking
             /\ us[3 * k] = Run!Line("verdict", ws[k])
    <2>1. 3 * k - 2 \in 1..3 * n + 2 /\ 3 * k - 1 \in 1..3 * n + 2 /\ 3 * k \in 1..3 * n + 2
        BY <1>2
    <2> QED
        BY <1>1, <1>4, <1>5, <2>1 DEF Tells
<1>7. ASSUME NEW k, k = n + 1
      PROVE  /\ us[3 * k - 2] = Run!Draft_line(k)
             /\ us[3 * k - 1] = Checking
             /\ us[3 * k] = Run!Line("verdict", ws[k])
    <2>1. /\ 3 * k - 2 = 3 * n + 1 /\ 3 * k - 1 = 3 * n + 2 /\ 3 * k = 3 * n + 3
          /\ 3 * n + 1 \in 1..3 * n + 2 /\ 3 * n + 2 \in 1..3 * n + 2
        BY <1>2, <1>7
    <2> QED
        BY <1>1, <1>3, <1>4, <1>5, <1>7, <2>1
<1>8. \A k \in 1..n + 1 : k \in 1..n \/ k = n + 1
    BY <1>2
<1>9. Len(us) = 3 * (n + 1) + 0 /\ Len(<<>>) = 0 /\ \A i : i \notin 1..0
    BY <1>2, <1>4
<1> QED
    BY <1>1, <1>4, <1>5, <1>6, <1>7, <1>8, <1>9 DEF Tells

\* A review of the n-th draft sends it back.
Back(vs, n) == n > 0 => vs[n] = "revise" /\ n <= MAX_REVISIONS

Tell(ls) == told \in Seq(ToldLine) /\ Tells(told, verdicts, ls)

Reviews == Len(verdicts)
On == role.step # "off"
Drafted == <<Run!Draft_line(Reviews + 1)>>
Checked == <<Run!Draft_line(Reviews + 1), Checking>>

\* What was told since the last review.
ToldSince ==
    /\ node = "load_context" => Tell(<<>>)
    /\ node = "analyst" => Tell(IF On THEN Drafted ELSE <<>>)
    /\ node = "checker" => Tell(IF On THEN Checked ELSE Drafted)
    /\ node = "advisor" => Tell(IF On THEN <<Sizing>> ELSE <<>>)
    /\ node = "save" => Tell(<<Sizing>>)
    /\ \/ Tell(<<>>)
       \/ Back(verdicts, Reviews) /\ (Tell(Drafted) \/ Tell(Checked))
       \/ ~Back(verdicts, Reviews) /\ (Tell(<<Sizing>>) \/ Tell(<<Sizing, Saving>>))

\* The pipeline's state tells of the drafts and the reviews.
RunCounts ==
    /\ drafts \in {Reviews, Reviews + 1}
    /\ pipeline.story = IF drafts = 0 THEN None ELSE drafts
    /\ pipeline.revisions = IF drafts = 0 THEN 0 ELSE drafts - 1
    /\ Reviews > 0 => pipeline.review = [of |-> Reviews, verdict |-> verdicts[Reviews]]
    /\ \A k \in 0..Reviews : k < drafts => Back(verdicts, k)

\* What is saved.
Together ==
    /\ drafts = Reviews /\ ~Back(verdicts, Reviews)
    /\ pipeline.advice = [story |-> drafts, review |-> pipeline.review]

\* Where the run stands.
RunStands ==
    /\ On => node \in Run!Roles
    /\ role.step = "remind" => role.reminders < MAX_REMINDERS
    /\ node = "load_context" => drafts = 0
    /\ node = "analyst" => drafts = Reviews /\ Back(verdicts, Reviews)
    /\ node = "checker" => drafts = Reviews + 1
    /\ node = "advisor" => drafts = Reviews /\ ~Back(verdicts, Reviews)
    /\ node \in {"save", "done"} => Together
    /\ theses # <<>> => node \in {"done", "failed"} /\ Together /\ theses = <<pipeline>>

RunInv == Run!TypeOK /\ ToldSince /\ RunCounts /\ RunStands

LEMMA RunTypes ==
    ASSUME RunInv
    PROVE  /\ verdicts \in Seq(Run!Verdicts) /\ Reviews \in Nat /\ Reviews = Len(verdicts)
           /\ MAX_REVISIONS \in Nat /\ MAX_REMINDERS \in Nat /\ RECURSION_LIMIT \in Nat
           /\ RETRY_ATTEMPTS \in Nat \ {0} /\ None \notin Nat
           /\ drafts \in Nat /\ drafts <= MAX_REVISIONS + 1
           /\ pipeline \in Run!State /\ role \in Run!Role
<1>1. verdicts \in Seq(Run!Verdicts) /\ pipeline \in Run!State /\ role \in Run!Role /\ drafts \in 0..MAX_REVISIONS + 1
    BY DEF RunInv, Run!TypeOK
<1>2. /\ MAX_REVISIONS \in Nat /\ MAX_REMINDERS \in Nat /\ RECURSION_LIMIT \in Nat
      /\ RETRY_ATTEMPTS \in Nat \ {0} /\ None \notin Nat
    BY PartsAssumption DEF Run!ResearchAssumption
<1>3. Reviews \in Nat /\ Reviews = Len(verdicts)
    BY <1>1 DEF Reviews
<1> QED
    BY <1>1, <1>2, <1>3

\* The lines of the pipeline.
LEMMA LinesTyped ==
    /\ Checking \in ToldLine /\ Sizing \in ToldLine /\ Saving \in ToldLine
    /\ \A n \in Nat : Run!Draft_line(n + 1) \in ToldLine
<1>1. \A n \in Nat : n \in Nat \cup {"approve", "revise"}
    OBVIOUS
<1>2. \A n \in Nat : n + 1 - 1 \in Nat
    OBVIOUS
<1> QED
    BY <1>1, <1>2 DEF ToldLine, Checking, Sizing, Saving, Run!Draft_line, Run!Line

LEMMA TwoLines ==
    ASSUME NEW l \in ToldLine, NEW m \in ToldLine
    PROVE  Append(<<l>>, m) = <<l, m>> /\ <<l>> \in Seq(ToldLine) /\ <<l, m>> \in Seq(ToldLine)
<1>1. <<l>> \in Seq(ToldLine) /\ Len(<<l>>) = 1 /\ <<l>>[1] = l
    OBVIOUS
<1>2. <<l, m>> \in Seq(ToldLine) /\ Len(<<l, m>>) = 2 /\ <<l, m>>[1] = l /\ <<l, m>>[2] = m
    OBVIOUS
<1>4. ASSUME NEW ls \in Seq(ToldLine)
      PROVE  /\ Append(ls, m) \in Seq(ToldLine) /\ Len(Append(ls, m)) = Len(ls) + 1
             /\ \A i \in 1..Len(ls) : Append(ls, m)[i] = ls[i]
             /\ Append(ls, m)[Len(ls) + 1] = m
    BY AppendProperties
<1>3. ASSUME NEW ls \in Seq(ToldLine), Len(ls) = 1, ls[1] = l
      PROVE  Append(ls, m) = <<l, m>>
    <2>4. /\ Append(ls, m) \in Seq(ToldLine) /\ Len(Append(ls, m)) = Len(ls) + 1
          /\ \A i \in 1..Len(ls) : Append(ls, m)[i] = ls[i]
          /\ Append(ls, m)[Len(ls) + 1] = m
        BY <1>4
    <2>1. Append(ls, m) \in Seq(ToldLine) /\ Len(Append(ls, m)) = 2
        BY <1>3, <2>4
    <2>2. Append(ls, m)[1] = l /\ Append(ls, m)[2] = m
        BY <1>3, <2>4
    <2>3. \A i \in 1..2 : i = 1 \/ i = 2
        OBVIOUS
    <2> QED
        BY <1>2, <2>1, <2>2, <2>3, SeqEqual
<1> QED
    BY <1>1, <1>2, <1>3

\* Nothing changes but where a role is in its loop.
LEMMA RunGoesOn ==
    ASSUME RunInv, On, On', role' \in Run!Role, Run!RoleOnly,
           role'.step = "remind" => role'.reminders < MAX_REMINDERS
    PROVE  RunInv'
<1>1. UNCHANGED <<node, pipeline, theses, told, verdicts, drafts>>
    BY DEF Run!RoleOnly
<1>2. Run!TypeOK'
    BY <1>1 DEF RunInv, Run!TypeOK
<1>3. ToldSince'
    BY <1>1 DEF RunInv, ToldSince, Tell, Reviews, Drafted, Checked
<1>4. RunCounts'
    BY <1>1 DEF RunInv, RunCounts, Reviews
<1>5. RunStands'
    BY <1>1 DEF RunInv, RunStands, Together, Reviews
<1> QED
    BY <1>2, <1>3, <1>4, <1>5 DEF RunInv

LEMMA RoleKept ==
    ASSUME RunInv, Run!Reply \/ Run!Retry \/ Run!Remind \/ Run!Tools
    PROVE  RunInv'
<1>1. role \in Run!Role /\ role.step \in {"agent", "tools", "remind"} /\ Run!RoleOnly
    BY RunTypes DEF Run!Reply, Run!Retry, Run!Remind, Run!Tools, Run!In
<1>2. ASSUME NEW next \in {"agent", "tools", "remind", "end"}, role.steps < RECURSION_LIMIT
      PROVE  Run!Step(next) \in Run!Role /\ Run!Step(next).step = next /\ Run!Step(next).reminders = role.reminders
    <2>1. role.steps + 1 \in 0..RECURSION_LIMIT
        BY <1>1, <1>2, RunTypes DEF Run!Role
    <2> QED
        BY <1>1, <2>1 DEF Run!Step, Run!Role
<1>3. 1 \in 1..RETRY_ATTEMPTS
    BY RunTypes
<1>4. CASE Run!Reply
    <2>1. role.steps < RECURSION_LIMIT
        BY <1>4 DEF Run!Reply, Run!In
    <2>2. PICK next \in {"tools", "remind", "end"}, called \in {"nothing", "lookup", "submit"} :
             /\ \/ role' = [Run!Step(next) EXCEPT !.called = called, !.attempt = 1]
                \/ role' = [Run!Step(next) EXCEPT !.attempt = 1]
             /\ next = "remind" => role.reminders < MAX_REMINDERS
        BY <1>4 DEF Run!Reply
    <2>3. PICK after \in Run!Role : after = Run!Step(next) /\ after.step = next /\ after.reminders = role.reminders
        BY <1>2, <2>1
    <2>4. role' \in Run!Role /\ role'.step = next /\ role'.reminders = role.reminders
        BY <1>3, <2>2, <2>3 DEF Run!Role
    <2>5. On /\ On'
        BY <1>1, <2>4 DEF On
    <2>6. role'.step = "remind" => role'.reminders < MAX_REMINDERS
        BY <2>2, <2>4
    <2> QED
        BY <1>1, <2>4, <2>5, <2>6, RunGoesOn
<1>5. CASE Run!Retry
    <2>1. role.attempt + 1 \in 1..RETRY_ATTEMPTS /\ role' = [role EXCEPT !.attempt = @ + 1]
        BY <1>1, <1>5, RunTypes DEF Run!Retry, Run!Role
    <2>2. role' \in Run!Role /\ role'.step = "agent"
        BY <1>1, <1>5, <2>1 DEF Run!Role, Run!Retry, Run!In
    <2> QED
        BY <1>1, <2>2, RunGoesOn DEF On
<1>6. CASE Run!Remind
    <2>1. role.steps < RECURSION_LIMIT /\ role' = [Run!Step("agent") EXCEPT !.reminders = @ + 1]
        BY <1>6 DEF Run!Remind, Run!In
    <2>2. Run!Step("agent") \in Run!Role /\ Run!Step("agent").step = "agent"
          /\ Run!Step("agent").reminders = role.reminders
        BY <1>2, <2>1
    <2>3. role.reminders + 1 \in 0..MAX_REMINDERS
        <3>1. role.step = "remind"
            BY <1>6 DEF Run!Remind, Run!In
        <3>2. role.reminders < MAX_REMINDERS
            BY <3>1 DEF RunInv, RunStands
        <3> QED
            BY <1>1, <3>2, RunTypes DEF Run!Role
    <2>4. role' \in Run!Role /\ role'.step = "agent"
        BY <2>1, <2>2, <2>3 DEF Run!Role
    <2> QED
        BY <1>1, <2>4, RunGoesOn DEF On
<1>7. CASE Run!Tools
    <2>1. role.steps < RECURSION_LIMIT
        BY <1>7 DEF Run!Tools, Run!In
    <2>2. \/ role' = [Run!Step("end") EXCEPT !.called = "nothing", !.result = TRUE]
          \/ role' = [Run!Step("agent") EXCEPT !.called = "nothing"]
        BY <1>7 DEF Run!Tools
    <2>3. role' \in Run!Role /\ role'.step \in {"end", "agent"}
        BY <1>2, <2>1, <2>2 DEF Run!Role
    <2> QED
        BY <1>1, <2>3, RunGoesOn DEF On
<1> QED
    BY <1>4, <1>5, <1>6, <1>7

\* A part of the pipeline begins: it tells a line, and its role is on.
LEMMA RoleStarts ==
    ASSUME RunInv, node \in Run!Roles, NEW l \in ToldLine, Run!Start(l),
           NEW before \in Seq(ToldLine), Tell(before), Tell(Append(before, l))' => ToldSince'
    PROVE  RunInv'
<1>1. /\ told' = Append(told, l) /\ role' = [Run!Off EXCEPT !.step = "agent"]
      /\ UNCHANGED <<node, pipeline, theses, verdicts, drafts>>
    BY DEF Run!Start
<1>2. role' \in Run!Role /\ role'.step = "agent"
    <2>1. 0 \in 0..MAX_REMINDERS /\ 0 \in 0..RECURSION_LIMIT /\ 1 \in 1..RETRY_ATTEMPTS
        BY RunTypes
    <2> QED
        BY <1>1, <2>1 DEF Run!Off, Run!Role
<1>3. Run!TypeOK'
    BY <1>1, <1>2 DEF RunInv, Run!TypeOK
<1>4. Tell(Append(before, l))'
    <2>1. told' \in Seq(ToldLine) /\ Tells(told', verdicts, Append(before, l))
        BY <1>1, RunTypes, TellsMore DEF Tell
    <2> QED
        BY <1>1, <2>1 DEF Tell
<1>5. RunCounts'
    BY <1>1 DEF RunInv, RunCounts, Reviews
<1>6. RunStands'
    BY <1>1, <1>2 DEF RunInv, RunStands, Together, Reviews, On
<1> QED
    BY <1>3, <1>4, <1>5, <1>6 DEF RunInv

LEMMA RunStarts ==
    ASSUME RunInv, Run!Analyst \/ Run!Checker \/ Run!Advisor
    PROVE  RunInv'
<1>1. /\ node' = node /\ verdicts' = verdicts /\ ~On /\ On'
      /\ Reviews' = Reviews /\ Drafted' = Drafted /\ Checked' = Checked
    <2>1. node' = node /\ verdicts' = verdicts /\ role.step = "off" /\ role' = [Run!Off EXCEPT !.step = "agent"]
        BY DEF Run!Analyst, Run!Checker, Run!Advisor, Run!Start
    <2> QED
        BY <2>1 DEF On, Run!Off, Reviews, Drafted, Checked
<1>2. Reviews \in Nat /\ Run!Draft_line(Reviews + 1) \in ToldLine
    BY RunTypes, LinesTyped
<1>3. CASE Run!Analyst
    <2>1. node = "analyst" /\ Tell(<<>>) /\ Back(verdicts, Reviews)
        BY <1>1, <1>3 DEF Run!Analyst, RunInv, ToldSince, RunStands
    <2>2. Run!Start(Run!Draft_line(Reviews + 1))
        <3>1. drafts = Reviews /\ pipeline.story = (IF drafts = 0 THEN None ELSE drafts)
              /\ pipeline.revisions = IF drafts = 0 THEN 0 ELSE drafts - 1
            BY <2>1 DEF RunInv, RunStands, RunCounts
        <3>2. (pipeline.story = None <=> Reviews = 0) /\ (Reviews # 0 => pipeline.revisions + 1 = Reviews)
            BY <1>2, <3>1, RunTypes
        <3>3. Run!Draft_line(Reviews + 1) = IF Reviews = 0 THEN Run!Line("drafting", 0)
                                            ELSE Run!Line("redrafting", Reviews)
            <4>1. PICK k \in Nat, j \in Nat : k = Reviews /\ j = k + 1
                BY <1>2
            <4>2. (j = 1 <=> k = 0) /\ j - 1 = k
                BY <4>1
            <4>3. Run!Draft_line(j) = IF k = 0 THEN Run!Line("drafting", 0) ELSE Run!Line("redrafting", k)
                BY <4>2 DEF Run!Draft_line
            <4> QED
                BY <4>1, <4>3
        <3> QED
            BY <1>3, <3>2, <3>3 DEF Run!Analyst
    <2>3. PICK l \in ToldLine : l = Run!Draft_line(Reviews + 1)
        BY <1>2
    <2>4. Append(<<>>, l) = <<l>> /\ <<>> \in Seq(ToldLine) /\ Drafted' = <<l>>
        BY <1>1, <2>3 DEF Drafted
    <2>5. Tell(<<l>>)' => ToldSince'
        BY <1>1, <2>1, <2>4 DEF ToldSince
    <2> QED
        BY <2>1, <2>2, <2>3, <2>4, <2>5, RoleStarts DEF Run!Roles
<1>4. CASE Run!Checker
    <2>1. node = "checker" /\ Tell(Drafted) /\ Back(verdicts, Reviews)
        <3>1. node = "checker" /\ drafts = Reviews + 1 /\ Tell(Drafted)
            BY <1>1, <1>4 DEF Run!Checker, RunInv, ToldSince, RunStands
        <3>2. Reviews \in 0..Reviews /\ Reviews < drafts
            BY <1>2, <3>1
        <3> QED
            BY <3>1, <3>2 DEF RunInv, RunCounts
    <2>2. Run!Start(Checking)
        BY <1>4 DEF Run!Checker, Checking
    <2>3. Append(Drafted, Checking) = Checked /\ Drafted \in Seq(ToldLine)
        BY <1>2, TwoLines, LinesTyped DEF Drafted, Checked
    <2>4. Tell(Checked)' => ToldSince'
        BY <1>1, <2>1 DEF ToldSince
    <2> QED
        BY <1>1, <2>1, <2>2, <2>3, <2>4, LinesTyped, RoleStarts DEF Run!Roles
<1>5. CASE Run!Advisor
    <2>1. node = "advisor" /\ Tell(<<>>) /\ ~Back(verdicts, Reviews)
        BY <1>1, <1>5 DEF Run!Advisor, RunInv, ToldSince, RunStands
    <2>2. Run!Start(Sizing)
        BY <1>5 DEF Run!Advisor, Sizing
    <2>3. Append(<<>>, Sizing) = <<Sizing>> /\ <<>> \in Seq(ToldLine)
        OBVIOUS
    <2>4. Tell(<<Sizing>>)' => ToldSince'
        BY <1>1, <2>1 DEF ToldSince
    <2> QED
        BY <1>1, <2>1, <2>2, <2>3, <2>4, LinesTyped, RoleStarts DEF Run!Roles
<1> QED
    BY <1>3, <1>4, <1>5

LEMMA RunLoaded ==
    ASSUME RunInv, Run!LoadContext
    PROVE  RunInv'
<1>1. node = "load_context" /\ node' = "analyst" /\ UNCHANGED <<pipeline, role, theses, told, verdicts, drafts>>
    BY DEF Run!LoadContext
<1>2. Run!TypeOK'
    BY <1>1 DEF RunInv, Run!TypeOK, Run!Roles
<1>3. ~On /\ drafts = 0
    BY <1>1 DEF RunInv, RunStands, Run!Roles
<1>4. Reviews = 0 /\ drafts = Reviews /\ Back(verdicts, Reviews)
    <2>1. drafts \in {Reviews, Reviews + 1}
        BY DEF RunInv, RunCounts
    <2> QED
        BY <1>3, <2>1, RunTypes DEF Back
<1>5. ToldSince'
    BY <1>1, <1>3 DEF RunInv, ToldSince, Tell, Reviews, On, Drafted, Checked
<1>6. RunCounts'
    BY <1>1 DEF RunInv, RunCounts, Reviews
<1>7. RunStands'
    BY <1>1, <1>3, <1>4 DEF RunInv, RunStands, Together, Reviews, On, Run!Roles
<1> QED
    BY <1>2, <1>5, <1>6, <1>7 DEF RunInv

\* The Analyst hands a draft in.
LEMMA RunDrafted ==
    ASSUME RunInv, Run!AnalystEnd
    PROVE  RunInv'
<1>1. /\ node = "analyst" /\ On /\ drafts' = drafts + 1 /\ node' = "checker" /\ role' = Run!Off
      /\ UNCHANGED <<theses, told, verdicts>>
      /\ pipeline' = [pipeline EXCEPT !.story = drafts + 1,
                        !.revisions = IF pipeline.story = None THEN pipeline.revisions ELSE pipeline.revisions + 1]
    BY DEF Run!AnalystEnd, Run!HandedIn, On
<1>2. /\ drafts = Reviews /\ Back(verdicts, Reviews) /\ Tell(Drafted) /\ theses = <<>>
      /\ pipeline.story = (IF drafts = 0 THEN None ELSE drafts)
      /\ pipeline.revisions = IF drafts = 0 THEN 0 ELSE drafts - 1
    BY <1>1 DEF RunInv, RunStands, RunCounts, ToldSince
<1>3. Reviews \in Nat /\ Reviews <= MAX_REVISIONS /\ drafts + 1 \in Run!Drafts /\ drafts \in 0..MAX_REVISIONS
    BY <1>2, RunTypes DEF Back, Run!Drafts
<1>4. pipeline' = [pipeline EXCEPT !.story = drafts + 1, !.revisions = drafts]
    <2>1. CASE drafts = 0
        BY <1>1, <1>2, <2>1
    <2>2. CASE drafts # 0
        <3>1. pipeline.story # None
            BY <1>2, <2>2, RunTypes
        <3>2. pipeline.revisions + 1 = drafts
            BY <1>2, <2>2, RunTypes
        <3> QED
            BY <1>1, <3>1, <3>2
    <2> QED
        BY <2>1, <2>2
<1>5. /\ pipeline' \in Run!State /\ pipeline'.story = drafts' /\ pipeline'.revisions = drafts' - 1
      /\ pipeline'.review = pipeline.review /\ drafts' # 0 /\ drafts' = Reviews + 1 /\ drafts' \in 0..MAX_REVISIONS + 1
    <2>1. /\ pipeline' \in Run!State /\ pipeline'.story = drafts + 1 /\ pipeline'.revisions = drafts
          /\ pipeline'.review = pipeline.review
        BY <1>3, <1>4, RunTypes DEF Run!State
    <2>2. drafts = drafts + 1 - 1 /\ drafts + 1 # 0 /\ drafts + 1 \in 0..MAX_REVISIONS + 1
        BY <1>3, RunTypes
    <2>3. drafts' = drafts + 1 /\ drafts + 1 = Reviews + 1
        BY <1>1, <1>2
    <2>4. drafts' - 1 = drafts
        <3>1. drafts \in Nat
            BY <1>3, RunTypes
        <3> QED
            BY <2>3, <3>1
    <2>5. drafts' # 0 /\ drafts' = Reviews + 1 /\ drafts' \in 0..MAX_REVISIONS + 1
        BY <2>2, <2>3
    <2>6. pipeline'.story = drafts' /\ pipeline'.revisions = drafts' - 1
        BY <2>1, <2>3, <2>4
    <2> QED
        BY <2>1, <2>5, <2>6
<1>6. role' \in Run!Role /\ role'.step = "off"
    BY <1>1, RunTypes DEF Run!Off, Run!Role
<1>7. Run!TypeOK'
    BY <1>1, <1>3, <1>5, <1>6 DEF RunInv, Run!TypeOK, Run!Roles
<1>8. Reviews' = Reviews /\ Drafted' = Drafted /\ Checked' = Checked
    BY <1>1 DEF Reviews, Drafted, Checked
<1>9. ToldSince'
    BY <1>1, <1>2, <1>6, <1>8 DEF ToldSince, Tell, On
<1>10. RunCounts'
    <2>1. \A k \in 0..Reviews : k < drafts \/ k = Reviews
        BY <1>2, <1>3
    <2>2. \A k \in 0..Reviews : Back(verdicts, k)
        BY <1>2, <2>1 DEF RunInv, RunCounts
    <2>3. Reviews > 0 => pipeline.review = [of |-> Reviews, verdict |-> verdicts[Reviews]]
        BY DEF RunInv, RunCounts
    <2> QED
        BY <1>1, <1>5, <1>8, <2>2, <2>3 DEF RunCounts
<1>11. RunStands'
    BY <1>1, <1>2, <1>5, <1>6, <1>8 DEF RunStands, On
<1> QED
    BY <1>7, <1>9, <1>10, <1>11 DEF RunInv

\* The Checker hands a review in.
LEMMA RunReviewed ==
    ASSUME RunInv, Run!CheckerEnd
    PROVE  RunInv'
<1>1. /\ node = "checker" /\ On /\ role' = Run!Off /\ UNCHANGED <<theses, drafts>>
    BY DEF Run!CheckerEnd, Run!HandedIn, On
<1>2. PICK v \in Run!Verdicts :
         /\ pipeline' = [pipeline EXCEPT !.review = [of |-> pipeline.story, verdict |-> v]]
         /\ verdicts' = Append(verdicts, v)
         /\ told' = Append(told, Run!Line("verdict", v))
         /\ node' = IF v = "revise" /\ pipeline.revisions < MAX_REVISIONS THEN "analyst" ELSE "advisor"
    BY DEF Run!CheckerEnd, Run!Needs_revision
<1>3. /\ drafts = Reviews + 1 /\ Tell(Checked) /\ theses = <<>>
      /\ pipeline.story = (IF drafts = 0 THEN None ELSE drafts)
      /\ pipeline.revisions = IF drafts = 0 THEN 0 ELSE drafts - 1
    BY <1>1 DEF RunInv, RunStands, RunCounts, ToldSince
<1>4. Reviews \in Nat /\ pipeline.story = Reviews + 1 /\ pipeline.revisions = Reviews /\ drafts \in Run!Drafts
    BY <1>3, RunTypes DEF Run!Drafts
<1>5. PICK n : n = Reviews + 1
    OBVIOUS
<1>6. /\ verdicts' \in Seq(Run!Verdicts) /\ Reviews' = n /\ n \in Nat /\ n > 0 /\ verdicts'[n] = v
      /\ \A k \in 1..Reviews : verdicts'[k] = verdicts[k]
    BY <1>2, <1>5, RunTypes DEF Reviews
<1>7. pipeline' = [pipeline EXCEPT !.review = [of |-> n, verdict |-> v]] /\ drafts' = n
    BY <1>1, <1>2, <1>3, <1>4, <1>5
<1>8. [of |-> n, verdict |-> v] \in Run!Review
    BY <1>3, <1>4, <1>5 DEF Run!Review
<1>9. /\ pipeline' \in Run!State /\ pipeline'.story = n /\ pipeline'.revisions = n - 1
      /\ pipeline'.review = [of |-> n, verdict |-> v]
    BY <1>4, <1>5, <1>7, <1>8, RunTypes DEF Run!State
<1>10. role' \in Run!Role /\ role'.step = "off"
    BY <1>1, RunTypes DEF Run!Off, Run!Role
<1>11. Run!TypeOK'
    BY <1>1, <1>2, <1>6, <1>9, <1>10 DEF RunInv, Run!TypeOK, Run!Roles
<1>12. Tell(<<>>)'
    <2>1. told' \in Seq(ToldLine) /\ Tells(told', verdicts', <<>>)
        BY <1>2, <1>3, RunTypes, TellsRound DEF Tell, Checked, Reviews
    <2> QED
        BY <2>1 DEF Tell
<1>13. node' = (IF Back(verdicts', n) THEN "analyst" ELSE "advisor") /\ node' \in {"analyst", "advisor"}
    <2>1. pipeline.revisions < MAX_REVISIONS <=> n <= MAX_REVISIONS
        BY <1>4, <1>5, RunTypes
    <2> QED
        BY <1>2, <1>6, <2>1 DEF Back
<1>14. ToldSince'
    BY <1>10, <1>12, <1>13 DEF ToldSince, On
<1>15. RunCounts'
    <2>1. \A k \in 0..n : k < n => k \in 0..Reviews /\ k < drafts
        BY <1>3, <1>4, <1>5
    <2>2. \A k \in 0..n : k < n => Back(verdicts, k)
        BY <2>1 DEF RunInv, RunCounts
    <2>3. \A k \in 0..n : k < n => Back(verdicts', k)
        <3>1. \A k \in 0..n : k < n /\ k > 0 => k \in 1..Reviews
            BY <1>4, <1>5
        <3> QED
            BY <1>6, <2>2, <3>1 DEF Back
    <2> QED
        BY <1>6, <1>7, <1>9, <2>3 DEF RunCounts
<1>16. RunStands'
    BY <1>1, <1>3, <1>6, <1>7, <1>10, <1>13 DEF RunStands, On
<1> QED
    BY <1>11, <1>14, <1>15, <1>16 DEF RunInv

\* The Strategist hands its advice in.
LEMMA RunAdvised ==
    ASSUME RunInv, Run!AdvisorEnd
    PROVE  RunInv'
<1>1. /\ node = "advisor" /\ On /\ node' = "save" /\ role' = Run!Off
      /\ UNCHANGED <<theses, told, verdicts, drafts>>
      /\ pipeline' = [pipeline EXCEPT !.advice = [story |-> pipeline.story, review |-> pipeline.review]]
    BY DEF Run!AdvisorEnd, Run!HandedIn, On
<1>2. /\ drafts = Reviews /\ ~Back(verdicts, Reviews) /\ Tell(<<Sizing>>) /\ theses = <<>>
      /\ pipeline.story = (IF drafts = 0 THEN None ELSE drafts)
      /\ Reviews > 0 => pipeline.review = [of |-> Reviews, verdict |-> verdicts[Reviews]]
    BY <1>1 DEF RunInv, RunStands, RunCounts, ToldSince
<1>3. Reviews \in Nat /\ Reviews > 0 /\ pipeline.story = drafts /\ drafts \in Run!Drafts
    BY <1>2, RunTypes DEF Back, Run!Drafts
<1>4. pipeline.review \in Run!Review
    BY <1>2, <1>3, RunTypes DEF Run!Review
<1>5. [story |-> pipeline.story, review |-> pipeline.review] \in Run!Advice
    BY <1>3, <1>4 DEF Run!Advice
<1>6. /\ pipeline' \in Run!State /\ pipeline'.advice = [story |-> drafts, review |-> pipeline'.review]
      /\ pipeline'.story = pipeline.story /\ pipeline'.review = pipeline.review
      /\ pipeline'.revisions = pipeline.revisions
    BY <1>1, <1>3, <1>5, RunTypes DEF Run!State
<1>7. role' \in Run!Role /\ role'.step = "off"
    BY <1>1, RunTypes DEF Run!Off, Run!Role
<1>8. Run!TypeOK'
    BY <1>1, <1>6, <1>7 DEF RunInv, Run!TypeOK, Run!Roles
<1>9. Reviews' = Reviews
    BY <1>1 DEF Reviews
<1>10. ToldSince'
    BY <1>1, <1>2, <1>9 DEF ToldSince, Tell
<1>11. RunCounts'
    BY <1>1, <1>6, <1>9 DEF RunInv, RunCounts
<1>12. RunStands'
    BY <1>1, <1>2, <1>6, <1>7, <1>9 DEF RunStands, Together, On
<1> QED
    BY <1>8, <1>10, <1>11, <1>12 DEF RunInv

\* The thesis is saved; its last line may not be published.
LEMMA RunSaved ==
    ASSUME RunInv, Run!Save
    PROVE  RunInv'
<1>1. /\ node = "save" /\ theses' = Append(theses, pipeline) /\ UNCHANGED <<pipeline, role, verdicts, drafts>>
      /\ \/ told' = Append(told, Saving) /\ node' = "done"
         \/ told' = told /\ node' = "failed"
    BY DEF Run!Save, Saving
<1>2. Together /\ Tell(<<Sizing>>) /\ theses = <<>> /\ ~On /\ role.step # "remind"
    BY <1>1 DEF RunInv, RunStands, ToldSince, Run!Roles, On
<1>3. theses' = <<pipeline>> /\ Len(theses') <= 1
    BY <1>1, <1>2
<1>4. Run!TypeOK'
    BY <1>1, <1>3 DEF RunInv, Run!TypeOK
<1>5. Reviews' = Reviews /\ Together' /\ On' = On
    BY <1>1, <1>2 DEF Reviews, Together, On
<1>6. ToldSince'
    <2>1. CASE told' = Append(told, Saving) /\ node' = "done"
        <3>1. <<Sizing>> \in Seq(ToldLine) /\ Append(<<Sizing>>, Saving) = <<Sizing, Saving>>
            BY TwoLines, LinesTyped
        <3>2. told' \in Seq(ToldLine) /\ Tells(told', verdicts, <<Sizing, Saving>>)
            BY <1>2, <2>1, <3>1, LinesTyped, RunTypes, TellsMore DEF Tell
        <3>3. Tell(<<Sizing, Saving>>)'
            BY <1>1, <3>2 DEF Tell
        <3> QED
            BY <1>1, <1>2, <1>5, <2>1, <3>3 DEF ToldSince, Together
    <2>2. CASE told' = told /\ node' = "failed"
        <3>1. Tell(<<Sizing>>)'
            BY <1>1, <1>2, <2>2 DEF Tell
        <3> QED
            BY <1>1, <1>2, <1>5, <2>2, <3>1 DEF ToldSince, Together
    <2> QED
        BY <1>1, <2>1, <2>2
<1>7. RunCounts'
    BY <1>1, <1>5 DEF RunInv, RunCounts
<1>8. RunStands'
    BY <1>1, <1>2, <1>3, <1>5 DEF RunStands
<1> QED
    BY <1>4, <1>6, <1>7, <1>8 DEF RunInv

LEMMA RunFailed ==
    ASSUME RunInv, Run!Fail
    PROVE  RunInv'
<1>1. /\ node \notin {"done", "failed"} /\ node' = "failed" /\ role' = Run!Off
      /\ UNCHANGED <<pipeline, theses, told, verdicts, drafts>>
    BY DEF Run!Fail, Run!Running
<1>2. theses = <<>>
    BY <1>1 DEF RunInv, RunStands
<1>3. role' \in Run!Role /\ role'.step = "off"
    BY <1>1, RunTypes DEF Run!Off, Run!Role
<1>4. Run!TypeOK'
    BY <1>1, <1>3 DEF RunInv, Run!TypeOK
<1>5. Reviews' = Reviews /\ Drafted' = Drafted /\ Checked' = Checked
    BY <1>1 DEF Reviews, Drafted, Checked
<1>6. ToldSince'
    BY <1>1, <1>5 DEF RunInv, ToldSince, Tell
<1>7. RunCounts'
    BY <1>1, <1>5 DEF RunInv, RunCounts
<1>8. RunStands'
    BY <1>1, <1>2, <1>3 DEF RunStands, On
<1> QED
    BY <1>4, <1>6, <1>7, <1>8 DEF RunInv

LEMMA RunRests ==
    ASSUME RunInv, UNCHANGED researchVars
    PROVE  RunInv'
<1>1. UNCHANGED <<node, pipeline, role, theses, told, verdicts, drafts>>
    BY DEF researchVars
<1>2. Run!TypeOK' /\ ToldSince' /\ RunCounts' /\ RunStands'
    BY <1>1 DEF RunInv, Run!TypeOK, ToldSince, Tell, RunCounts, RunStands, Together, Reviews, On, Drafted, Checked
<1> QED
    BY <1>2 DEF RunInv

LEMMA RunBegins ==
    ASSUME Run!Init
    PROVE  RunInv
<1>1. /\ node = "load_context" /\ role = Run!Off /\ theses = <<>> /\ told = <<>> /\ verdicts = <<>> /\ drafts = 0
      /\ pipeline = [story |-> None, review |-> None, advice |-> None, revisions |-> 0]
    BY DEF Run!Init
<1>2. /\ MAX_REVISIONS \in Nat /\ MAX_REMINDERS \in Nat /\ RECURSION_LIMIT \in Nat /\ RETRY_ATTEMPTS \in Nat \ {0}
    BY PartsAssumption DEF Run!ResearchAssumption
<1>3. role \in Run!Role /\ role.step = "off" /\ pipeline \in Run!State /\ verdicts \in Seq(Run!Verdicts)
    BY <1>1, <1>2 DEF Run!Off, Run!Role, Run!State
<1>4. Run!TypeOK
    BY <1>1, <1>2, <1>3 DEF Run!TypeOK
<1>5. Reviews = 0
    BY <1>1 DEF Reviews
<1>6. Tell(<<>>)
    BY <1>1 DEF Tell, Tells
<1> QED
    BY <1>1, <1>3, <1>4, <1>5, <1>6 DEF RunInv, ToldSince, RunCounts, RunStands, On

LEMMA RunAlways == JobSpec => []RunInv
<1>1. JobInit => RunInv
    BY RunBegins DEF JobInit
<1>2. RunInv /\ Run!Next => RunInv'
    BY RoleKept, RunStarts, RunLoaded, RunDrafted, RunReviewed, RunAdvised, RunSaved, RunFailed
    DEF Run!Next, Run!RoleFails
<1>3. RunInv /\ [JobNext]_jobVars => RunInv'
    BY <1>2, RunRests DEF JobNext, jobVars, researchVars
<1> QED
    BY <1>1, <1>3, PTL DEF JobSpec

\* pipeline.py 1-2, 51-64 and 75: a thesis is saved with its own review and the advice on both, each
\* redraft answers the review that asked for it, and the progress told the run as it went.
THEOREM ThesisBelongsHolds == JobSpec => []ThesisBelongs
<1>1. ASSUME RunInv
      PROVE  ThesisBelongs
    <2>1. Run!SavedBelongsTogether
        <3>1. CASE theses = <<>>
            BY <3>1 DEF Run!SavedBelongsTogether
        <3>2. CASE theses # <<>>
            <4>1. Together /\ theses = <<pipeline>> /\ Reviews \in Nat /\ MAX_REVISIONS \in Nat
                BY <1>1, <3>2, RunTypes DEF RunInv, RunStands
            <4>2. drafts = Reviews /\ Reviews > 0 /\ (verdicts[Reviews] = "revise" => Reviews > MAX_REVISIONS)
                BY <4>1 DEF Together, Back
            <4>3. /\ pipeline.story = drafts /\ pipeline.revisions = drafts - 1
                  /\ pipeline.review = [of |-> Reviews, verdict |-> verdicts[Reviews]]
                BY <1>1, <4>1, <4>2 DEF RunInv, RunCounts
            <4>4. verdicts[Reviews] \in {"approve", "revise"} /\ drafts <= MAX_REVISIONS + 1
                BY <1>1, <4>1, <4>2, RunTypes DEF Run!Verdicts
            <4>5. verdicts[Reviews] = "approve" \/ pipeline.revisions = MAX_REVISIONS
                BY <4>1, <4>2, <4>3, <4>4
            <4>6. pipeline.advice = [story |-> pipeline.story, review |-> pipeline.review]
                BY <4>1, <4>3 DEF Together
            <4>7. \A i \in DOMAIN theses : theses[i] = pipeline
                BY <4>1
            <4> QED
                BY <4>2, <4>3, <4>5, <4>6, <4>7 DEF Run!SavedBelongsTogether
        <3> QED
            BY <3>1, <3>2
    <2>2. Run!RedraftAnswersReview
        <3>1. drafts > 0 => pipeline.revisions = drafts - 1
            BY <1>1, RunTypes DEF RunInv, RunCounts
        <3>2. ASSUME node = "analyst", pipeline.story # None
              PROVE  pipeline.review = [of |-> pipeline.story, verdict |-> "revise"]
            <4>1. drafts = Reviews /\ Back(verdicts, Reviews) /\ drafts # 0 /\ pipeline.story = drafts
                BY <1>1, <3>2 DEF RunInv, RunStands, RunCounts
            <4>2. Reviews > 0
                BY <1>1, <4>1, RunTypes
            <4> QED
                BY <1>1, <4>1, <4>2 DEF RunInv, RunCounts, Back
        <3> QED
            BY <3>1, <3>2 DEF Run!RedraftAnswersReview
    <2>3. Run!ToldAsItWent
        <3>1. \A k : Run!Sent_back(k) <=> Back(verdicts, k)
            BY DEF Run!Sent_back, Back
        <3>2. PICK ls \in Seq(ToldLine) :
                 /\ told \in Seq(ToldLine) /\ Tells(told, verdicts, ls)
                 /\ ls \in {<<>>} \cup (IF Back(verdicts, Reviews) THEN {Drafted, Checked}
                                        ELSE {<<Sizing>>, <<Sizing, Saving>>})
            <4>1. /\ <<>> \in Seq(ToldLine) /\ Drafted \in Seq(ToldLine) /\ Checked \in Seq(ToldLine)
                  /\ <<Sizing>> \in Seq(ToldLine) /\ <<Sizing, Saving>> \in Seq(ToldLine)
                BY <1>1, RunTypes, LinesTyped DEF Drafted, Checked
            <4> QED
                BY <1>1, <4>1 DEF RunInv, ToldSince, Tell
        <3>3. SubSeq(told, 3 * Reviews + 1, Len(told)) = ls
            <4>1. PICK n \in Nat, t \in Nat, m \in Nat : n = Reviews /\ t = Len(told) /\ m = Len(ls)
                BY <1>1, <3>2, RunTypes
            <4>2. t = 3 * n + m /\ \A i \in 1..m : told[3 * n + i] = ls[i]
                BY <3>2, <4>1 DEF Tells, Reviews
            <4>3. PICK sub : sub = SubSeq(told, 3 * n + 1, t)
                OBVIOUS
            <4>4. sub \in Seq(ToldLine) /\ Len(sub) = m /\ \A i \in 1..m : sub[i] = told[3 * n + i]
                <5>1. 3 * n + 1 \in 1..t + 1
                    BY <4>2
                <5>2. \A i \in 1..m : 3 * n + 1 + i - 1 = 3 * n + i
                    OBVIOUS
                <5>3. 3 * n + 1 \in Nat /\ (IF 3 * n + 1 <= t THEN t - (3 * n + 1) + 1 ELSE 0) = m
                    BY <4>2
                <5>4. PICK a \in Nat : a = 3 * n + 1
                    BY <5>3
                <5>5. /\ sub \in Seq(ToldLine) /\ Len(sub) = (IF a <= t THEN t - a + 1 ELSE 0)
                      /\ \A i \in 1..Len(sub) : sub[i] = told[a + i - 1]
                    BY <3>2, <4>1, <4>3, <5>1, <5>4
                <5> QED
                    BY <5>2, <5>3, <5>4, <5>5
            <4>5. sub = ls
                BY <3>2, <4>1, <4>2, <4>4, SeqEqual
            <4> QED
                BY <4>1, <4>3, <4>5
        <3>4. \A k \in 1..Reviews : k < Reviews => Back(verdicts, k)
            <4>1. \A k \in 1..Reviews : k \in 0..Reviews /\ (k < Reviews => k < drafts)
                BY <1>1, RunTypes DEF RunInv, RunCounts
            <4> QED
                BY <1>1, <4>1 DEF RunInv, RunCounts
        <3> QED
            BY <3>1, <3>2, <3>3, <3>4 DEF Run!ToldAsItWent, Tells, Reviews, Drafted, Checked, Checking, Sizing, Saving
    <2> QED
        BY <2>1, <2>2, <2>3 DEF ThesisBelongs
<1> QED
    BY <1>1, RunAlways, PTL

-----------------------------------------------------------------------------
(* AnnualFigures: what a fold over a sequence computes *)

\* f folds the places s of the sequence es, the highest of them last.
Folding(f, step, base, es, n) ==
    \A s \in SUBSET (1..n) :
        f[s] = IF s = {} THEN base ELSE step[<<f[s \ {Figures!Max(s)}], es[Figures!Max(s)]>>]

\* A fold of the first n elements, whose results are of A, and what it takes.
Steps(A, E, step, base, es, n) ==
    /\ n \in Nat /\ base \in A /\ step \in [A \X E -> A]
    /\ \A i \in 1..n : es[i] \in E
Folds(A, step, base, es, n) == \E f \in [SUBSET (1..n) -> A] : Folding(f, step, base, es, n)

LEMMA MaxIs ==
    ASSUME NEW s, NEW m \in s, \A j \in s : j \in Int /\ j <= m
    PROVE  Figures!Max(s) = m
<1>1. \A y \in s : m >= y
    OBVIOUS
<1>2. \A x \in s : (\A y \in s : x >= y) => x = m
    OBVIOUS
<1> QED
    BY <1>1, <1>2 DEF Figures!Max

LEMMA MaxThere ==
    ASSUME NEW n \in Nat, NEW s \in SUBSET (1..n), s # {}
    PROVE  Figures!Max(s) \in s
<1> DEFINE below == {n - j : j \in s}
<1>1. \A j \in s : j \in 1..n
    OBVIOUS
<1>2. below \in SUBSET Nat /\ below # {}
    <2>1. \A j \in s : n - j \in Nat
        BY <1>1
    <2> QED
        BY <2>1
<1>3. PICK i \in below : \A j \in below : i <= j
    BY <1>2, LeastThere
<1>4. PICK m \in s : i = n - m
    OBVIOUS
<1>5. ASSUME NEW j \in s
      PROVE  j \in Int /\ j <= m
    <2>1. n - m <= n - j
        BY <1>3, <1>4
    <2> QED
        BY <1>1, <2>1
<1> QED
    BY <1>5, MaxIs

LEMMA FoldingExists ==
    ASSUME NEW A, NEW E, NEW step, NEW base, NEW es, NEW n, Steps(A, E, step, base, es, n)
    PROVE  Folds(A, step, base, es, n)
<1> DEFINE There(i) == Folds(A, step, base, es, i)
           bad == {i \in 0..n : ~There(i)}
<1>0. /\ n \in Nat /\ base \in A /\ step \in [A \X E -> A]
      /\ \A i \in 1..n : es[i] \in E
    BY DEF Steps
<1>1. SUFFICES ASSUME bad # {}
               PROVE  FALSE
    <2>1. n \in 0..n
        BY <1>0
    <2>2. n \notin bad => There(n)
        BY <2>1
    <2> HIDE DEF bad
    <2>3. bad = {} => There(n)
        BY <2>2
    <2> QED
        BY <2>3
<1>2. PICK k \in bad : \A i \in bad : k <= i
    <2>1. bad \in SUBSET Nat
        BY <1>0
    <2> QED
        BY <1>1, <2>1, LeastThere
<1>3. CASE k = 0
    <2> DEFINE f == [s \in SUBSET (1..k) |-> base]
    <2>1. f \in [SUBSET (1..k) -> A]
        BY <1>0
    <2>2. \A s \in SUBSET (1..k) : s = {}
        BY <1>3
    <2>3. Folding(f, step, base, es, k)
        BY <2>2 DEF Folding
    <2> QED
        BY <2>1, <2>3 DEF Folds
<1>4. CASE k # 0
    <2>1. PICK j \in Nat : k = j + 1 /\ j + 1 <= n
        BY <1>0, <1>4
    <2>2. j \in 0..n /\ j \notin bad /\ k \in 1..n
        <3>1. j \in 0..n /\ k \in 1..n /\ ~(k <= j)
            BY <1>0, <2>1
        <3> HIDE DEF bad
        <3> QED
            BY <1>2, <3>1
    <2>3. PICK g \in [SUBSET (1..j) -> A] : Folding(g, step, base, es, j)
        BY <2>2 DEF Folds
    <2>4. 1..k = (1..j) \cup {k} /\ k \notin 1..j
        BY <2>1
    <2>5. \A s \in SUBSET (1..k) : s \ {k} \in SUBSET (1..j) /\ (k \notin s => s \in SUBSET (1..j))
        BY <2>4
    <2> DEFINE f == [s \in SUBSET (1..k) |-> IF k \in s THEN step[<<g[s \ {k}], es[k]>>] ELSE g[s]]
    <2>6. f \in [SUBSET (1..k) -> A]
        <3>1. ASSUME NEW s \in SUBSET (1..k)
              PROVE  (IF k \in s THEN step[<<g[s \ {k}], es[k]>>] ELSE g[s]) \in A
            <4>1. g[s \ {k}] \in A /\ (k \notin s => g[s] \in A)
                BY <2>5
            <4>2. es[k] \in E
                BY <1>0, <2>2
            <4> QED
                BY <1>0, <4>1, <4>2
        <3> QED
            BY <3>1
    <2>7. ASSUME NEW s \in SUBSET (1..k)
          PROVE  f[s] = IF s = {} THEN base ELSE step[<<f[s \ {Figures!Max(s)}], es[Figures!Max(s)]>>]
        <3>1. CASE k \in s
            <4>1. Figures!Max(s) = k
                <5>1. \A i \in s : i \in 1..k
                    OBVIOUS
                <5>2. \A i \in s : i \in Int /\ i <= k
                    BY <2>1, <5>1
                <5> QED
                    BY <3>1, <5>2, MaxIs
            <4>2. s \ {k} \in SUBSET (1..k) /\ k \notin s \ {k}
                OBVIOUS
            <4>3. f[s \ {k}] = g[s \ {k}] /\ f[s] = step[<<g[s \ {k}], es[k]>>]
                BY <3>1, <4>2
            <4> HIDE DEF f
            <4> QED
                BY <3>1, <4>1, <4>3
        <3>2. CASE k \notin s
            <4>1. s \in SUBSET (1..j) /\ f[s] = g[s]
                BY <2>5, <3>2
            <4>2. PICK r : r = s \ {Figures!Max(s)}
                OBVIOUS
            <4>3. r \in SUBSET (1..k) /\ k \notin r
                BY <3>2, <4>2
            <4>4. f[r] = g[r]
                BY <4>3
            <4> HIDE DEF f
            <4> QED
                BY <2>3, <4>1, <4>2, <4>4 DEF Folding
        <3> QED
            BY <3>1, <3>2
    <2> HIDE DEF f
    <2>8. Folding(f, step, base, es, k)
        BY <2>7 DEF Folding
    <2>9. There(k)
        BY <2>6, <2>8 DEF Folds
    <2> QED
        BY <2>9
<1> QED
    BY <1>3, <1>4

\* The elements are taken one after the other.
LEMMA InTurn ==
    ASSUME NEW n \in Nat, NEW i \in 1..n
    PROVE  /\ Figures!Max(1..i) = i
           /\ 1..i \in SUBSET (1..n) /\ 1..i # {}
           /\ (1..i) \ {Figures!Max(1..i)} = 1..(i - 1)
<1>1. Figures!Max(1..i) = i
    <2>1. i \in 1..i /\ \A j \in 1..i : j \in Int /\ j <= i
        OBVIOUS
    <2> QED
        BY <2>1, MaxIs
<1>2. (1..i) \ {i} = 1..(i - 1) /\ 1..i # {} /\ 1..i \in SUBSET (1..n)
    OBVIOUS
<1> QED
    BY <1>1, <1>2

-----------------------------------------------------------------------------
(* AnnualFigures: the figures of a column *)

Fact == Figures!Fact

\* What annual_points has kept of the first n figures: one for each end, as filed last.
AnnualOf(facts, n) == {m \in 1..n : facts[m].annual = TRUE /\ Figures!Is_annual(facts[m])}
KeptOf(by_end, facts, n) ==
    /\ IsFiniteSet(by_end)
    /\ \A f, h \in by_end : f.end = h.end => f = h
    /\ \A f \in by_end : \E m \in AnnualOf(facts, n) : facts[m] = f
    /\ \A f \in by_end, m \in AnnualOf(facts, n) : facts[m].end = f.end => facts[m].filed <= f.filed
    /\ \A m \in AnnualOf(facts, n) : \E f \in by_end : f.end = facts[m].end

LEMMA FactTypes ==
    ASSUME NEW f \in Fact
    PROVE  f.end \in Nat /\ f.filed \in Nat /\ f.annual \in BOOLEAN
BY PartsAssumption DEF Fact, Figures!Fact, Figures!FiguresAssumption

LEMMA KeptMore ==
    ASSUME NEW facts \in Seq(Fact), NEW i \in 1..Len(facts), NEW j \in Nat, i = j + 1,
           NEW by_end \in SUBSET Fact, KeptOf(by_end, facts, j),
           NEW next, next = Figures!Kept(by_end, facts[i])
    PROVE  next \in SUBSET Fact /\ KeptOf(next, facts, i)
<1>1. PICK fact : fact = facts[i]
    OBVIOUS
<1>2. fact \in Fact
    BY <1>1
<1> DEFINE same == \E f \in by_end : f.end = fact.end /\ f.filed >= fact.filed
           yearly == fact.annual = TRUE /\ Figures!Is_annual(fact)
<1>3. AnnualOf(facts, i) = AnnualOf(facts, j) \cup (IF yearly THEN {i} ELSE {})
    <2>1. 1..i = (1..j) \cup {i}
        OBVIOUS
    <2> QED
        BY <1>1, <2>1 DEF AnnualOf
<1>4. ASSUME NEW m \in AnnualOf(facts, j)
      PROVE  facts[m] \in Fact
    <2>1. m \in 1..Len(facts)
        BY DEF AnnualOf
    <2> QED
        BY <2>1
<1>5. CASE ~yearly
    <2>1. next = by_end
        BY <1>1, <1>5, <1>2, FactTypes DEF Figures!Kept
    <2>2. AnnualOf(facts, i) = AnnualOf(facts, j)
        BY <1>3, <1>5
    <2> QED
        BY <2>1, <2>2 DEF KeptOf
<1>6. CASE yearly /\ same
    <2>1. next = by_end
        BY <1>1, <1>6 DEF Figures!Kept
    <2>2. AnnualOf(facts, i) = AnnualOf(facts, j) \cup {i}
        BY <1>3, <1>6
    <2>3. PICK h \in by_end : h.end = fact.end /\ h.filed >= fact.filed
        BY <1>6
    <2>4. ASSUME NEW f \in by_end, f.end = fact.end
          PROVE  fact.filed <= f.filed
        <3>1. f = h
            BY <2>3, <2>4 DEF KeptOf
        <3> QED
            BY <1>2, <2>3, <3>1, FactTypes
    <2> QED
        BY <1>1, <2>1, <2>2, <2>3, <2>4 DEF KeptOf
<1>7. CASE yearly /\ ~same
    <2> DEFINE others == {f \in by_end : f.end # fact.end}
    <2>1. next = others \cup {fact}
        BY <1>1, <1>7 DEF Figures!Kept
    <2>2. AnnualOf(facts, i) = AnnualOf(facts, j) \cup {i}
        BY <1>3, <1>7
    <2>3. IsFiniteSet(next)
        <3>1. IsFiniteSet(by_end) /\ others \in SUBSET by_end
            BY DEF KeptOf
        <3>2. IsFiniteSet(others)
            BY <3>1, FS_Subset
        <3> HIDE DEF others
        <3> QED
            BY <2>1, <3>2, FS_AddElement
    <2>4. \A f, h \in next : f.end = h.end => f = h
        BY <2>1 DEF KeptOf
    <2>5. \A f \in next : \E m \in AnnualOf(facts, i) : facts[m] = f
        <3>1. i \in AnnualOf(facts, i) /\ facts[i] = fact
            BY <1>1, <2>2
        <3>2. ASSUME NEW f \in others
              PROVE  \E m \in AnnualOf(facts, i) : facts[m] = f
            BY <2>2 DEF KeptOf
        <3> QED
            BY <2>1, <3>1, <3>2
    <2>6. ASSUME NEW f \in next, NEW m \in AnnualOf(facts, i), facts[m].end = f.end
          PROVE  facts[m].filed <= f.filed
        <3>1. CASE f \in others
            <4>1. m # i
                BY <1>1, <2>6, <3>1
            <4> QED
                BY <2>2, <2>6, <3>1, <4>1 DEF KeptOf
        <3>2. CASE f = fact
            <4>1. CASE m = i
                BY <1>1, <1>2, <3>2, <4>1, FactTypes
            <4>2. CASE m # i
                <5>1. m \in AnnualOf(facts, j)
                    BY <2>2, <4>2
                <5>2. PICK h \in by_end : h.end = facts[m].end
                    BY <5>1 DEF KeptOf
                <5>3. facts[m].filed <= h.filed /\ ~(h.filed >= fact.filed)
                    BY <1>7, <2>6, <3>2, <5>1, <5>2 DEF KeptOf
                <5>4. h.filed \in Nat /\ fact.filed \in Nat /\ facts[m].filed \in Nat
                    BY <1>2, <1>4, <5>1, FactTypes
                <5> QED
                    BY <3>2, <5>3, <5>4
            <4> QED
                BY <4>1, <4>2
        <3> QED
            BY <2>1, <3>1, <3>2
    <2>7. ASSUME NEW m \in AnnualOf(facts, i)
          PROVE  \E f \in next : f.end = facts[m].end
        <3>1. CASE facts[m].end = fact.end
            BY <2>1, <3>1
        <3>2. CASE facts[m].end # fact.end
            <4>1. m \in AnnualOf(facts, j)
                BY <1>1, <2>2, <3>2
            <4>2. PICK f \in by_end : f.end = facts[m].end
                BY <4>1 DEF KeptOf
            <4> QED
                BY <2>1, <3>2, <4>2
        <3> QED
            BY <3>1, <3>2
    <2>8. next \in SUBSET Fact
        BY <1>2, <2>1
    <2> QED
        BY <2>3, <2>4, <2>5, <2>6, <2>7, <2>8 DEF KeptOf
<1> QED
    BY <1>5, <1>6, <1>7

FoldedKept(facts) == Figures!FoldLeft(Figures!Kept, {}, facts)

LEMMA KeptFolds ==
    ASSUME NEW facts \in Seq(Fact)
    PROVE  FoldedKept(facts) \in SUBSET Fact /\ KeptOf(FoldedKept(facts), facts, Len(facts))
<1> DEFINE Iter(f) == f = [s \in SUBSET DOMAIN facts |->
                             IF s = {} THEN {}
                             ELSE Figures!Kept(f[s \ {Figures!Max(s)}], facts[Figures!Max(s)])]
           fn == CHOOSE f : Iter(f)
<1>1. FoldedKept(facts) = fn[DOMAIN facts]
    BY DEF FoldedKept, Figures!FoldLeft, Figures!MapThenFoldSet
<1>2. PICK n \in Nat : n = Len(facts) /\ DOMAIN facts = 1..n
    OBVIOUS
<1>3. \A i \in 1..n : facts[i] \in Fact
    BY <1>2
<1>4. Iter(fn)
    <2> DEFINE step == [p \in (SUBSET Fact) \X Fact |-> Figures!Kept(p[1], p[2])]
    <2>1. step \in [(SUBSET Fact) \X Fact -> SUBSET Fact]
        BY DEF Figures!Kept
    <2>2. PICK f \in [SUBSET (1..n) -> SUBSET Fact] : Folding(f, step, {}, facts, n)
        <3>1. Steps(SUBSET Fact, Fact, step, {}, facts, n)
            BY <1>2, <1>3, <2>1 DEF Steps
        <3> HIDE DEF step
        <3>2. Folds(SUBSET Fact, step, {}, facts, n)
            BY <3>1, FoldingExists
        <3> QED
            BY <3>2 DEF Folds
    <2>3. ASSUME NEW s \in SUBSET (1..n)
          PROVE  f[s] = IF s = {} THEN {} ELSE Figures!Kept(f[s \ {Figures!Max(s)}], facts[Figures!Max(s)])
        <3>1. CASE s = {}
            BY <2>2, <3>1 DEF Folding
        <3>2. CASE s # {}
            <4>1. PICK m : m = Figures!Max(s)
                OBVIOUS
            <4>2. m \in 1..n
                BY <3>2, <4>1, MaxThere
            <4>3. f[s \ {m}] \in SUBSET Fact /\ facts[m] \in Fact
                BY <1>3, <4>2
            <4>4. f[s] = step[<<f[s \ {m}], facts[m]>>]
                BY <2>2, <3>2, <4>1 DEF Folding
            <4>5. step[<<f[s \ {m}], facts[m]>>] = Figures!Kept(f[s \ {m}], facts[m])
                BY <4>3
            <4> QED
                BY <3>2, <4>1, <4>4, <4>5
        <3> QED
            BY <3>1, <3>2
    <2>4. Iter(f)
        BY <1>2, <2>3
    <2> HIDE DEF Iter
    <2> QED
        BY <2>4
<1> HIDE DEF fn
<1>5. ASSUME NEW s \in SUBSET (1..n)
      PROVE  fn[s] = IF s = {} THEN {} ELSE Figures!Kept(fn[s \ {Figures!Max(s)}], facts[Figures!Max(s)])
    BY <1>2, <1>4
<1> DEFINE Good(i) == fn[1..i] \in SUBSET Fact /\ KeptOf(fn[1..i], facts, i)
           bad == {i \in 0..n : ~Good(i)}
<1>6. SUFFICES ASSUME bad # {}
               PROVE  FALSE
    <2>1. n \in 0..n
        OBVIOUS
    <2>2. n \notin bad => Good(n)
        BY <2>1
    <2> HIDE DEF bad
    <2> QED
        BY <1>1, <1>2, <2>2
<1>7. PICK k \in bad : \A i \in bad : k <= i
    <2>1. bad \in SUBSET Nat
        OBVIOUS
    <2> QED
        BY <1>6, <2>1, LeastThere
<1>8. CASE k = 0
    <2>1. 1..0 = {} /\ {} \in SUBSET (1..n)
        OBVIOUS
    <2>2. fn[1..0] = {}
        BY <1>5, <2>1
    <2>3. KeptOf({}, facts, 0)
        BY <2>1, FS_EmptySet DEF KeptOf, AnnualOf
    <2> QED
        BY <1>8, <2>2, <2>3
<1>9. CASE k # 0
    <2>1. PICK j \in Nat : k = j + 1 /\ j + 1 <= n
        BY <1>9
    <2>2. k \in 1..n /\ Good(j)
        <3>1. j \in 0..n /\ k \in 1..n /\ ~(k <= j)
            BY <2>1
        <3>2. j \notin bad
            BY <1>7, <3>1
        <3> QED
            BY <3>1, <3>2
    <2>3. fn[1..k] = Figures!Kept(fn[1..j], facts[k])
        <3>1. Figures!Max(1..k) = k /\ 1..k \in SUBSET (1..n) /\ 1..k # {} /\ (1..k) \ {k} = 1..j
            <4>1. k - 1 = j
                BY <2>1
            <4> QED
                BY <2>2, <4>1, InTurn
        <3> QED
            BY <1>5, <3>1
    <2>4. Good(k)
        <3>1. k \in 1..Len(facts)
            BY <1>2, <2>2
        <3> QED
            BY <2>1, <2>2, <2>3, <3>1, KeptMore
    <2> QED
        BY <2>4
<1> QED
    BY <1>8, <1>9

SameCardinality(S) == Figures!Cardinality(S) = Cardinality(S)

LEMMA CardinalityIs == \A S : SameCardinality(S)
BY DEF SameCardinality, Cardinality, Figures!Cardinality

Ordered(p, S, n) == p \in [1..n -> S] /\ \A i, j \in 1..n : i < j => p[i].end > p[j].end

LEMMA OrderExists ==
    ASSUME NEW n \in Nat, NEW S \in SUBSET Fact, IsFiniteSet(S), Cardinality(S) = n,
           \A f, h \in S : f.end = h.end => f = h
    PROVE  \E p : Ordered(p, S, n)
<1> DEFINE Separate(T) == IsFiniteSet(T) /\ \A f, h \in T : f.end = h.end => f = h
           Fine(i) == \A T \in SUBSET Fact : Separate(T) /\ Cardinality(T) = i => \E p : Ordered(p, T, i)
           bad == {i \in Nat : ~Fine(i)}
<1>1. SUFFICES ASSUME bad # {}
               PROVE  FALSE
    OBVIOUS
<1>2. PICK k \in bad : \A i \in bad : k <= i
    <2>1. bad \in SUBSET Nat
        OBVIOUS
    <2> QED
        BY <1>1, <2>1, LeastThere
<1>3. PICK T \in SUBSET Fact : Separate(T) /\ Cardinality(T) = k /\ ~ \E p : Ordered(p, T, k)
    OBVIOUS
<1>4. CASE k = 0
    <2>1. T = {} /\ 1..0 = {}
        BY <1>3, <1>4, FS_EmptySet
    <2> DEFINE p == [i \in 1..0 |-> 0]
    <2>2. p \in [1..0 -> T] /\ \A i, j \in 1..0 : i < j => p[i].end > p[j].end
        BY <2>1
    <2> QED
        BY <1>3, <1>4, <2>2 DEF Ordered
<1>5. CASE k # 0
    <2>1. PICK j \in Nat : k = j + 1
        BY <1>5
    <2>2. j \notin bad
        <3>1. ~(k <= j)
            BY <2>1
        <3> HIDE DEF bad
        <3> QED
            BY <1>2, <3>1
    <2>3. T # {}
        BY <1>3, <1>5, FS_EmptySet
    <2>4. \A f \in T : f.end \in Nat
        BY FactTypes
    <2>5. PICK last \in T : \A f \in T : last.end <= f.end
        <3> DEFINE ends == {f.end : f \in T}
        <3>1. ends \in SUBSET Nat /\ ends # {}
            BY <2>3, <2>4
        <3>2. PICK e \in ends : \A d \in ends : e <= d
            BY <3>1, LeastThere
        <3>3. PICK f \in T : f.end = e
            BY <3>2
        <3> QED
            BY <3>2, <3>3
    <2>6. PICK R : R = T \ {last}
        OBVIOUS
    <2>7. R \in SUBSET Fact /\ Separate(R) /\ Cardinality(R) = j
        <3>1. IsFiniteSet(R) /\ Cardinality(R) = k - 1
            BY <1>3, <2>6, FS_RemoveElement
        <3> QED
            BY <1>3, <2>1, <2>6, <3>1
    <2>8. PICK p : Ordered(p, R, j)
        BY <2>1, <2>2, <2>7
    <2> DEFINE q == [i \in 1..k |-> IF i = k THEN last ELSE p[i]]
    <2>9. \A i \in 1..k : i # k => i \in 1..j /\ q[i] = p[i] /\ p[i] \in R
        BY <2>1, <2>8 DEF Ordered
    <2>10. k \in 1..k /\ q[k] = last
        BY <2>1
    <2>11. q \in [1..k -> T]
        BY <2>6, <2>9
    <2>12. ASSUME NEW a \in 1..k, NEW b \in 1..k, a < b
           PROVE  q[a].end > q[b].end
        <3>1. a # k /\ a \in 1..j
            BY <2>1, <2>12
        <3>2. CASE b = k
            <4>1. q[a] \in T /\ q[a] # last
                BY <2>6, <2>9, <3>1
            <4>2. last.end <= q[a].end /\ last.end # q[a].end
                BY <1>3, <2>5, <4>1
            <4>3. last.end \in Nat /\ q[a].end \in Nat
                BY <2>4, <4>1
            <4>4. q[b] = last
                BY <2>10, <3>2
            <4> QED
                BY <4>2, <4>3, <4>4
        <3>3. CASE b # k
            <4>1. b \in 1..j /\ q[a] = p[a] /\ q[b] = p[b]
                BY <2>9, <3>1, <3>3
            <4> HIDE DEF q
            <4> QED
                BY <2>8, <2>12, <3>1, <4>1 DEF Ordered
        <3> QED
            BY <3>2, <3>3
    <2> HIDE DEF q
    <2>13. Ordered(q, T, k)
        BY <2>11, <2>12 DEF Ordered
    <2> QED
        BY <1>3, <2>13
<1> QED
    BY <1>4, <1>5

\* The figures of a column, in order: one for each end, as filed last.
Points(pts, facts) ==
    /\ pts \in Seq(Fact)
    /\ \A i, j \in 1..Len(pts) : i < j => pts[i].end > pts[j].end
    /\ \A i \in 1..Len(pts) : \E m \in AnnualOf(facts, Len(facts)) : facts[m] = pts[i]
    /\ \A i \in 1..Len(pts), m \in AnnualOf(facts, Len(facts)) :
         facts[m].end = pts[i].end => facts[m].filed <= pts[i].filed
    /\ \A m \in AnnualOf(facts, Len(facts)) : \E i \in 1..Len(pts) : pts[i].end = facts[m].end

LEMMA PointsAre ==
    ASSUME NEW facts \in Seq(Fact)
    PROVE  Points(Figures!Annual_points(facts), facts)
<1>1. PICK S : S = FoldedKept(facts)
    OBVIOUS
<1>2. S \in SUBSET Fact /\ KeptOf(S, facts, Len(facts))
    BY <1>1, KeptFolds
<1>3. PICK pts : pts = Figures!Annual_points(facts)
    OBVIOUS
<1>4. pts = CHOOSE p \in Figures!SetToSeqs(S) : Figures!NewestFirst(p)
    BY <1>1, <1>3 DEF Figures!Annual_points, FoldedKept
<1>5. IsFiniteSet(S)
    BY <1>2 DEF KeptOf
<1>6. PICK n \in Nat : n = Cardinality(S) /\ n = Figures!Cardinality(S)
    <2>1. SameCardinality(S)
        BY CardinalityIs
    <2> QED
        BY <1>5, <2>1, FS_CardinalityType DEF SameCardinality
<1>7. \A p : p \in Figures!SetToSeqs(S) <=>
             p \in [1..n -> S] /\ \A i, j \in 1..n : i # j => p[i] # p[j]
    BY <1>6 DEF Figures!SetToSeqs
<1>8. \E p \in Figures!SetToSeqs(S) : Figures!NewestFirst(p)
    <2>1. PICK p : Ordered(p, S, n)
        BY <1>2, <1>5, <1>6, OrderExists DEF KeptOf
    <2>2. p \in [1..n -> S] /\ DOMAIN p = 1..n
        BY <2>1 DEF Ordered
    <2>3. ASSUME NEW i \in 1..n, NEW j \in 1..n, i # j
          PROVE  p[i] # p[j]
        <3>1. p[i].end \in Nat /\ p[j].end \in Nat
            BY <1>2, <2>2, FactTypes
        <3>2. i < j \/ j < i
            BY <2>3
        <3> QED
            BY <2>1, <3>1, <3>2 DEF Ordered
    <2>4. Figures!NewestFirst(p)
        BY <2>1, <2>2 DEF Ordered, Figures!NewestFirst
    <2> QED
        BY <1>7, <2>2, <2>3, <2>4
<1>9. pts \in Figures!SetToSeqs(S) /\ Figures!NewestFirst(pts)
    BY <1>4, <1>8
<1>10. pts \in [1..n -> S] /\ \A i, j \in 1..n : i # j => pts[i] # pts[j]
    BY <1>7, <1>9
<1>11. pts \in Seq(Fact) /\ Len(pts) = n /\ DOMAIN pts = 1..n
    BY <1>2, <1>6, <1>10
<1>12. ASSUME NEW f \in S
       PROVE  \E i \in 1..n : pts[i] = f
    <2>1. pts \in Injection(1..n, S)
        BY <1>10 DEF Injection, IsInjective
    <2>2. Cardinality(1..n) = n
        BY <1>6, FS_Interval
    <2>3. pts \in Surjection(1..n, S)
        BY <1>5, <1>6, <2>1, <2>2, FS_Injection
    <2> QED
        BY <2>3 DEF Surjection
<1>13. \A i, j \in 1..n : i < j => pts[i].end > pts[j].end
    BY <1>9, <1>11 DEF Figures!NewestFirst
<1>14. \A m \in AnnualOf(facts, Len(facts)) : \E i \in 1..n : pts[i].end = facts[m].end
    BY <1>2, <1>12 DEF KeptOf
<1>15. \A i \in 1..n : pts[i] \in S
    BY <1>10
<1>16. Points(pts, facts)
    BY <1>2, <1>11, <1>13, <1>14, <1>15 DEF Points, KeptOf
<1> QED
    BY <1>3, <1>16

-----------------------------------------------------------------------------
(* AnnualFigures: the columns of a line item, in the order they are looked at *)

\* f joins the first sequences of s, one more at each place.
Joins(f, s, n) == f = [i \in 1..n |-> IF i = 1 THEN s[i] ELSE f[i - 1] \o s[i]]

LEMMA JoinsAt ==
    ASSUME NEW s, NEW n \in Nat, NEW f, Joins(f, s, n), NEW i \in 1..n
    PROVE  f[i] = IF i = 1 THEN s[i] ELSE f[i - 1] \o s[i]
<1> DEFINE h == [k \in 1..n |-> IF k = 1 THEN s[k] ELSE f[k - 1] \o s[k]]
<1>1. f = h
    BY DEF Joins
<1>2. h[i] = IF i = 1 THEN s[i] ELSE f[i - 1] \o s[i]
    OBVIOUS
<1> HIDE DEF h
<1> QED
    BY <1>1, <1>2

LEMMA JoinsExists ==
    ASSUME NEW s, NEW n \in Nat
    PROVE  \E f : Joins(f, s, n)
<1> DEFINE bad == {m \in 0..n : ~ \E f : Joins(f, s, m)}
<1>1. SUFFICES ASSUME bad # {}
               PROVE  FALSE
    OBVIOUS
<1>2. PICK k \in bad : \A i \in bad : k <= i
    BY <1>1, LeastThere, bad \in SUBSET Nat
<1>3. CASE k = 0
    <2>1. Joins([i \in {} |-> 0], s, 0)
        BY DEF Joins
    <2> QED
        BY <1>3, <2>1
<1>4. CASE k # 0
    <2>1. PICK f : Joins(f, s, k - 1)
        BY <1>2, <1>4
    <2> DEFINE g == [i \in 1..k |-> IF i = k THEN (IF k = 1 THEN s[k] ELSE f[k - 1] \o s[k]) ELSE f[i]]
    <2>2. ASSUME NEW i \in 1..k
          PROVE  g[i] = IF i = 1 THEN s[i] ELSE g[i - 1] \o s[i]
        <3>1. i # k => f[i] = IF i = 1 THEN s[i] ELSE f[i - 1] \o s[i]
            <4>1. i # k => i \in 1..k - 1
                OBVIOUS
            <4>2. k - 1 \in Nat
                BY <1>4
            <4> QED
                BY <2>1, <4>1, <4>2, JoinsAt
        <3>2. i # 1 => g[i - 1] = f[i - 1]
            OBVIOUS
        <3> QED
            BY <3>1, <3>2
    <2>3. g = [i \in 1..k |-> IF i = 1 THEN s[i] ELSE g[i - 1] \o s[i]]
        BY <2>2
    <2>4. Joins(g, s, k)
        BY <2>3 DEF Joins
    <2> QED
        BY <2>4
<1> QED
    BY <1>3, <1>4

LEMMA JoinsTyped ==
    ASSUME NEW S, NEW n \in Nat, NEW s \in [1..n -> Seq(S)], NEW f, Joins(f, s, n)
    PROVE  \A i \in 1..n : f[i] \in Seq(S)
<1> DEFINE bad == {i \in 1..n : f[i] \notin Seq(S)}
<1>1. SUFFICES ASSUME bad # {}
               PROVE  FALSE
    OBVIOUS
<1>2. PICK k \in bad : \A i \in bad : k <= i
    BY <1>1, LeastThere, bad \in SUBSET Nat
<1>3. f[k] = IF k = 1 THEN s[k] ELSE f[k - 1] \o s[k]
    BY JoinsAt
<1>4. k # 1 => k - 1 \in 1..n /\ k - 1 \notin bad
    BY <1>2
<1>5. k # 1 => f[k - 1] \in Seq(S)
    BY <1>4
<1>6. s[k] \in Seq(S) /\ f[k] \notin Seq(S)
    OBVIOUS
<1>7. k # 1 => f[k - 1] \o s[k] \in Seq(S)
    BY <1>5, <1>6
<1> HIDE DEF bad
<1> QED
    BY <1>3, <1>6, <1>7

LEMMA FlattenJoins ==
    ASSUME NEW S, NEW s \in Seq(Seq(S)), s # <<>>
    PROVE  \E f : Joins(f, s, Len(s)) /\ Figures!FlattenSeq(s) = f[Len(s)] /\ Figures!FlattenSeq(s) \in Seq(S)
<1>1. Len(s) \in Nat /\ Len(s) # 0 /\ s \in [1..Len(s) -> Seq(S)]
    BY EmptySeq
<1> DEFINE fn == CHOOSE f : f = [i \in 1..Len(s) |-> IF i = 1 THEN s[i] ELSE f[i - 1] \o s[i]]
<1>2. fn = [i \in 1..Len(s) |-> IF i = 1 THEN s[i] ELSE fn[i - 1] \o s[i]]
    BY <1>1, JoinsExists DEF Joins
<1>3. Figures!FlattenSeq(s) = fn[Len(s)]
    BY <1>1 DEF Figures!FlattenSeq
<1>4. Joins(fn, s, Len(s))
    BY <1>2 DEF Joins
<1> HIDE DEF fn
<1>5. \A i \in 1..Len(s) : fn[i] \in Seq(S)
    BY <1>1, <1>4, JoinsTyped
<1>6. fn[Len(s)] \in Seq(S)
    BY <1>1, <1>5
<1> QED
    BY <1>3, <1>4, <1>6

\* The columns of the first i tags: each of their own, none left out, those of an earlier tag first.
InOrder(cs, tags, i) ==
    /\ cs \in Seq(Figures!Columns)
    /\ \A m \in 1..Len(cs) : \E a \in 1..i : cs[m][1] = tags[a]
    /\ \A c \in Figures!Columns, a \in 1..i : c[1] = tags[a] => \E m \in 1..Len(cs) : cs[m] = c
    /\ \A m, k \in 1..Len(cs), a, b \in 1..i :
         cs[m][1] = tags[a] /\ cs[k][1] = tags[b] /\ a < b => m < k

ColumnsOf(t) == [m \in DOMAIN Units[t] |-> <<t, Units[t][m]>>]

LEMMA ColumnsTyped ==
    ASSUME NEW t \in Figures!Tags
    PROVE  /\ ColumnsOf(t) \in Seq(Figures!Columns)
           /\ \A m \in 1..Len(ColumnsOf(t)) : ColumnsOf(t)[m][1] = t
           /\ \A c \in Figures!Columns : c[1] = t => \E m \in 1..Len(ColumnsOf(t)) : ColumnsOf(t)[m] = c
<1>1. PICK n \in Nat : n = Len(Units[t]) /\ DOMAIN Units[t] = 1..n
    BY PartsAssumption DEF Figures!FiguresAssumption
<1>2. \A m \in 1..n : <<t, Units[t][m]>> \in Figures!Columns
    BY <1>1 DEF Figures!Columns
<1>3. PICK cs : cs = ColumnsOf(t)
    OBVIOUS
<1>4. cs = [m \in 1..n |-> <<t, Units[t][m]>>]
    BY <1>1, <1>3 DEF ColumnsOf
<1>5. cs \in Seq(Figures!Columns) /\ Len(cs) = n
    BY <1>1, <1>2, <1>4
<1>6. \A m \in 1..n : cs[m][1] = t
    BY <1>4
<1>7. ASSUME NEW c \in Figures!Columns, c[1] = t
      PROVE  \E m \in 1..n : cs[m] = c
    <2>1. PICK u \in Figures!Tags : c \in {<<u, Units[u][m]>> : m \in DOMAIN Units[u]}
        BY DEF Figures!Columns
    <2>2. PICK m \in DOMAIN Units[u] : c = <<u, Units[u][m]>>
        BY <2>1
    <2>3. u = t
        BY <1>7, <2>2
    <2> QED
        BY <1>1, <1>4, <2>2, <2>3
<1> QED
    BY <1>3, <1>5, <1>6, <1>7

LEMMA InOrderMore ==
    ASSUME NEW n \in Nat, NEW tags \in [1..n -> Figures!Tags], NEW i \in 1..n, NEW j \in Nat, i = j + 1,
           \A a, b \in 1..n : tags[a] = tags[b] => a = b,
           NEW cs, InOrder(cs, tags, j), NEW ds, ds = cs \o ColumnsOf(tags[i])
    PROVE  InOrder(ds, tags, i)
<1>1. PICK t \in Figures!Tags : t = tags[i]
    OBVIOUS
<1>2. PICK us : us = ColumnsOf(t)
    OBVIOUS
<1>3. /\ us \in Seq(Figures!Columns)
      /\ \A m \in 1..Len(us) : us[m][1] = t
      /\ \A c \in Figures!Columns : c[1] = t => \E m \in 1..Len(us) : us[m] = c
    BY <1>2, ColumnsTyped
<1>4. cs \in Seq(Figures!Columns) /\ ds = cs \o us
    BY <1>1, <1>2 DEF InOrder
<1>5. PICK x \in Nat : x = Len(cs)
    BY <1>4
<1>6. PICK y \in Nat : y = Len(us)
    BY <1>3
<1>7. /\ ds \in Seq(Figures!Columns) /\ Len(ds) = x + y
      /\ \A m \in 1..x : ds[m] = cs[m]
      /\ \A m \in 1..x + y : m > x => ds[m] = us[m - x] /\ m - x \in 1..y
    BY <1>3, <1>4, <1>5, <1>6
<1>8. \A m \in 1..x + y : m \in 1..x \/ m > x
    BY <1>5, <1>6
<1>9. \A a \in 1..i : a \in 1..j \/ a = i
    OBVIOUS
<1>10. \A m \in 1..x : \E a \in 1..j : ds[m][1] = tags[a]
    BY <1>5, <1>7 DEF InOrder
<1>11. \A m \in 1..x + y : m > x => ds[m][1] = tags[i]
    <2>1. ASSUME NEW m \in 1..x + y, m > x
          PROVE  ds[m][1] = tags[i]
        <3>1. PICK d \in 1..y : ds[m] = us[d]
            BY <1>7, <2>1
        <3> QED
            BY <1>1, <1>3, <1>6, <3>1
    <2> QED
        BY <2>1
<1>12. ASSUME NEW m \in 1..x + y
       PROVE  \E a \in 1..i : ds[m][1] = tags[a]
    <2>1. i \in 1..i /\ \A a \in 1..j : a \in 1..i
        OBVIOUS
    <2> QED
        BY <1>8, <1>10, <1>11, <2>1
<1>13. ASSUME NEW c \in Figures!Columns, NEW a \in 1..i, c[1] = tags[a]
       PROVE  \E m \in 1..x + y : ds[m] = c
    <2>1. CASE a = i
        <3>1. PICK m \in 1..y : us[m] = c
            BY <1>1, <1>3, <1>6, <1>13, <2>1
        <3>2. x + m \in 1..x + y /\ x + m > x /\ x + m - x = m
            BY <1>5, <1>6
        <3>3. PICK k \in 1..x + y : k = x + m
            BY <3>2
        <3>4. k > x /\ k - x = m
            BY <3>2, <3>3
        <3>5. ds[k] = us[k - x]
            BY <1>7, <3>4
        <3> QED
            BY <3>1, <3>4, <3>5
    <2>2. CASE a \in 1..j
        <3>1. PICK m \in 1..x : cs[m] = c
            BY <1>5, <1>13, <2>2 DEF InOrder
        <3>2. m \in 1..x + y
            BY <1>5, <1>6
        <3> QED
            BY <1>7, <3>1, <3>2
    <2> QED
        BY <1>9, <2>1, <2>2
<1>14. ASSUME NEW m \in 1..x + y, NEW k \in 1..x + y, NEW a \in 1..i, NEW b \in 1..i,
              ds[m][1] = tags[a], ds[k][1] = tags[b], a < b
       PROVE  m < k
    <2>1. a \in 1..j /\ a # i
        BY <1>14
    <2>2. \A d, e \in 1..i : tags[d] = tags[e] => d = e
        <3>1. \A d \in 1..i : d \in 1..n
            OBVIOUS
        <3> QED
            BY <3>1
    <2>3. m \in 1..x
        <3>1. ~(m > x)
            BY <1>11, <1>14, <2>1, <2>2, i \in 1..i
        <3> QED
            BY <1>8, <3>1
    <2>4. CASE k > x
        BY <1>5, <1>6, <2>3, <2>4
    <2>5. CASE k \in 1..x
        <3>1. PICK d \in 1..j : ds[k][1] = tags[d]
            BY <1>10, <2>5
        <3>2. d = b
            <4>1. d \in 1..i
                OBVIOUS
            <4> QED
                BY <1>14, <2>2, <3>1, <4>1
        <3>3. b \in 1..j
            BY <3>2
        <3>4. cs[m][1] = tags[a] /\ cs[k][1] = tags[b]
            BY <1>7, <1>14, <2>3, <2>5
        <3>5. m \in 1..Len(cs) /\ k \in 1..Len(cs)
            BY <1>5, <2>3, <2>5
        <3>6. \A p, q \in 1..Len(cs), d1, d2 \in 1..j :
                cs[p][1] = tags[d1] /\ cs[q][1] = tags[d2] /\ d1 < d2 => p < q
            BY DEF InOrder
        <3> QED
            BY <1>14, <2>1, <3>3, <3>4, <3>5, <3>6
    <2> QED
        BY <1>8, <2>4, <2>5
<1>15. 1..Len(ds) = 1..x + y
    BY <1>7
<1>16. \A m \in 1..Len(ds) : \E a \in 1..i : ds[m][1] = tags[a]
    BY <1>12, <1>15
<1>17. \A c \in Figures!Columns, a \in 1..i : c[1] = tags[a] => \E m \in 1..Len(ds) : ds[m] = c
    BY <1>13, <1>15
<1>18. \A m, k \in 1..Len(ds), a, b \in 1..i :
         ds[m][1] = tags[a] /\ ds[k][1] = tags[b] /\ a < b => m < k
    BY <1>14, <1>15
<1> QED
    BY <1>7, <1>16, <1>17, <1>18 DEF InOrder

LEMMA RoundsAre ==
    ASSUME NEW i \in Figures!Items
    PROVE  InOrder(Figures!Rounds(LINE_ITEMS[i]), LINE_ITEMS[i], Len(LINE_ITEMS[i]))
<1>1. PICK tags : tags = LINE_ITEMS[i]
    OBVIOUS
<1>2. tags \in Seq(Figures!Tags) /\ Figures!IsInjective(tags)
    BY <1>1, PartsAssumption DEF Figures!FiguresAssumption
<1>3. PICK n \in Nat : n = Len(tags)
    BY <1>2
<1>4. tags \in [1..n -> Figures!Tags] /\ DOMAIN tags = 1..n
    BY <1>2, <1>3
<1>5. \A a, b \in 1..n : tags[a] = tags[b] => a = b
    BY <1>2, <1>4 DEF Figures!IsInjective
<1>6. PICK cs : cs = [a \in 1..n |-> ColumnsOf(tags[a])]
    OBVIOUS
<1>7. Figures!Rounds(tags) = Figures!FlattenSeq(cs)
    BY <1>4, <1>6 DEF Figures!Rounds, ColumnsOf
<1>8. \A a \in 1..n : cs[a] = ColumnsOf(tags[a]) /\ cs[a] \in Seq(Figures!Columns)
    BY <1>4, <1>6, ColumnsTyped
<1>9. cs \in Seq(Seq(Figures!Columns)) /\ Len(cs) = n
    BY <1>3, <1>6, <1>8
<1>10. InOrder(<<>>, tags, 0)
    BY DEF InOrder
<1>11. CASE n = 0
    <2>1. cs = <<>>
        BY <1>9, <1>11, EmptySeq
    <2>2. Figures!FlattenSeq(cs) = <<>>
        BY <2>1 DEF Figures!FlattenSeq
    <2> QED
        BY <1>1, <1>3, <1>7, <1>10, <1>11, <2>2
<1>12. CASE n # 0
    <2>1. cs # <<>>
        BY <1>9, <1>12, EmptySeq
    <2>2. PICK f : Joins(f, cs, n) /\ Figures!FlattenSeq(cs) = f[n]
        BY <1>9, <2>1, FlattenJoins
    <2> DEFINE bad == {a \in 1..n : ~InOrder(f[a], tags, a)}
    <2>3. bad = {}
        <3>1. SUFFICES ASSUME bad # {}
                       PROVE  FALSE
            OBVIOUS
        <3>2. PICK k \in bad : \A a \in bad : k <= a
            <4>1. bad \in SUBSET Nat
                OBVIOUS
            <4> QED
                BY <3>1, <4>1, LeastThere
        <3>3. k \in 1..n /\ ~InOrder(f[k], tags, k)
            OBVIOUS
        <3>4. f[k] = IF k = 1 THEN cs[k] ELSE f[k - 1] \o cs[k]
            BY <1>3, <2>2, <3>3, JoinsAt
        <3>5. PICK j \in Nat : k = j + 1
            BY <3>3
        <3>6. \E ds : InOrder(ds, tags, j) /\ f[k] = ds \o cs[k]
            <4>1. CASE k = 1
                <5>1. <<>> \o cs[k] = cs[k]
                    BY <1>8, <3>3
                <5>2. f[k] = <<>> \o cs[k] /\ j = 0
                    BY <3>4, <3>5, <4>1, <5>1
                <5> QED
                    BY <1>10, <5>2
            <4>2. CASE k # 1
                <5>1. j \in 1..n /\ ~(k <= j) /\ k - 1 = j
                    BY <3>3, <3>5, <4>2
                <5>2. j \notin bad
                    <6> HIDE DEF bad
                    <6> QED
                        BY <3>2, <5>1
                <5> QED
                    BY <3>4, <4>2, <5>1, <5>2
            <4> QED
                BY <4>1, <4>2
        <3>7. PICK ds : InOrder(ds, tags, j) /\ f[k] = ds \o cs[k]
            BY <3>6
        <3>8. InOrder(f[k], tags, k)
            BY <1>3, <1>4, <1>5, <1>8, <3>3, <3>5, <3>7, InOrderMore
        <3> QED
            BY <3>3, <3>8
    <2>4. n \in 1..n
        BY <1>3, <1>12
    <2>5. InOrder(f[n], tags, n)
        BY <2>3, <2>4
    <2> QED
        BY <1>1, <1>3, <1>7, <2>2, <2>5
<1> QED
    BY <1>11, <1>12

-----------------------------------------------------------------------------
(* AnnualFigures: the series of a line item *)

PointsOf(c) == Figures!Annual_points(document[c])

\* The figures of column c: one for each year that ends in it, newest first, as filed last.
ColumnPoints(pts, c) ==
    /\ pts \in Seq(Fact)
    /\ \A i, j \in 1..Len(pts) : i < j => pts[i].end > pts[j].end
    /\ \A i \in 1..Len(pts) : \E m \in Figures!Yearly(c) : document[c][m] = pts[i]
    /\ \A i \in 1..Len(pts), m \in Figures!Yearly(c) :
         document[c][m].end = pts[i].end => document[c][m].filed <= pts[i].filed
    /\ \A e \in Figures!YearEnds(c) : e \in Nat /\ \E i \in 1..Len(pts) : pts[i].end = e
    /\ \A i \in 1..Len(pts) : pts[i].end \in Figures!YearEnds(c)

LEMMA ColumnShown ==
    ASSUME Figures!TypeOK, NEW c \in Figures!Columns, NEW pts, pts = PointsOf(c)
    PROVE  ColumnPoints(pts, c)
<1>1. PICK facts \in Seq(Fact) : facts = document[c]
    BY DEF Figures!TypeOK, Fact
<1>2. Points(pts, facts)
    BY <1>1, PointsAre DEF PointsOf
<1>3. AnnualOf(facts, Len(facts)) = Figures!Yearly(c)
    <2>1. DOMAIN facts = 1..Len(facts) /\ \A m \in 1..Len(facts) : facts[m] \in Fact
        BY <1>1
    <2>2. \A m \in 1..Len(facts) : facts[m].annual \in BOOLEAN
        BY <2>1, FactTypes
    <2> QED
        BY <1>1, <2>1, <2>2 DEF AnnualOf, Figures!Yearly
<1>4. \A m \in Figures!Yearly(c) : facts[m] \in Fact
    <2>1. \A m \in AnnualOf(facts, Len(facts)) : m \in 1..Len(facts)
        BY DEF AnnualOf
    <2> QED
        BY <1>1, <1>3, <2>1
<1>5. \A m \in Figures!Yearly(c) : facts[m].end \in Nat
    BY <1>4, FactTypes
<1>6. /\ pts \in Seq(Fact)
      /\ \A i, j \in 1..Len(pts) : i < j => pts[i].end > pts[j].end
      /\ \A i \in 1..Len(pts) : \E m \in Figures!Yearly(c) : facts[m] = pts[i]
      /\ \A i \in 1..Len(pts), m \in Figures!Yearly(c) :
           facts[m].end = pts[i].end => facts[m].filed <= pts[i].filed
      /\ \A m \in Figures!Yearly(c) : \E i \in 1..Len(pts) : pts[i].end = facts[m].end
    BY <1>2, <1>3 DEF Points
<1>7. Figures!YearEnds(c) = {facts[m].end : m \in Figures!Yearly(c)}
    BY <1>1 DEF Figures!YearEnds
<1>8. \A e \in Figures!YearEnds(c) : e \in Nat /\ \E i \in 1..Len(pts) : pts[i].end = e
    BY <1>5, <1>6, <1>7
<1>9. \A i \in 1..Len(pts) : pts[i].end \in Figures!YearEnds(c)
    BY <1>6, <1>7
<1> QED
    BY <1>1, <1>6, <1>8, <1>9 DEF ColumnPoints

\* The latest year of a column is its first figure.
LEMMA ColumnLatest ==
    ASSUME Figures!TypeOK, NEW c \in Figures!Columns, NEW pts, pts = PointsOf(c)
    PROVE  /\ pts = <<>> => Figures!YearEnds(c) = {}
           /\ pts # <<>> => /\ 1 \in 1..Len(pts) /\ pts[1].end \in Nat
                            /\ pts[1].end \in Figures!YearEnds(c)
                            /\ \A e \in Figures!YearEnds(c) : e \in Nat /\ e <= pts[1].end
<1>1. /\ pts \in Seq(Fact)
      /\ \A i, j \in 1..Len(pts) : i < j => pts[i].end > pts[j].end
      /\ \A e \in Figures!YearEnds(c) : e \in Nat /\ \E i \in 1..Len(pts) : pts[i].end = e
      /\ \A i \in 1..Len(pts) : pts[i].end \in Figures!YearEnds(c)
    BY ColumnShown DEF ColumnPoints
<1>2. PICK n \in Nat : n = Len(pts)
    BY <1>1
<1>3. CASE pts = <<>>
    BY <1>1, <1>3
<1>4. CASE pts # <<>>
    <2>1. n # 0 /\ 1 \in 1..n
        BY <1>1, <1>2, <1>4, EmptySeq
    <2>2. pts[1].end \in Figures!YearEnds(c) /\ pts[1].end \in Nat
        BY <1>1, <1>2, <2>1
    <2>3. ASSUME NEW e \in Figures!YearEnds(c)
          PROVE  e \in Nat /\ e <= pts[1].end
        <3>1. e \in Nat
            BY <1>1
        <3>2. PICK i \in 1..n : pts[i].end = e
            BY <1>1, <1>2
        <3>3. CASE i = 1
            BY <2>2, <3>1, <3>2, <3>3
        <3>4. CASE i # 1
            <4>1. 1 < i
                BY <3>4
            <4>2. pts[1].end > pts[i].end
                BY <1>1, <1>2, <2>1, <4>1
            <4> QED
                BY <2>2, <3>1, <3>2, <4>2
        <3> QED
            BY <3>3, <3>4
    <2> QED
        BY <1>2, <1>4, <2>1, <2>2, <2>3
<1> QED
    BY <1>3, <1>4

SeriesType == [found : BOOLEAN,
               tag : {c[1] : c \in Figures!Columns} \cup {"none"},
               unit : {c[2] : c \in Figures!Columns} \cup {"none"},
               years : Seq(Fact), stale : BOOLEAN]

\* The figures of the k-th column are later than those of the columns before it, and as late as
\* those of the n first.
LatestOf(years, cs, k, n) ==
    /\ years = PointsOf(cs[k])
    /\ \A m \in 1..n : PointsOf(cs[m]) # <<>> =>
         /\ PointsOf(cs[m])[1].end <= years[1].end
         /\ m < k => PointsOf(cs[m])[1].end < years[1].end

\* What annual_series has found in the first n columns.
SeriesOf(b, cs, n) ==
    /\ b \in SeriesType /\ b.stale = FALSE
    /\ b.found = FALSE => b.years = <<>> /\ \A m \in 1..n : PointsOf(cs[m]) = <<>>
    /\ b.found = TRUE => b.years # <<>>
                         /\ \E k \in 1..n : cs[k] = <<b.tag, b.unit>> /\ LatestOf(b.years, cs, k, n)

LEMMA BestMore ==
    ASSUME Figures!TypeOK, NEW cs \in Seq(Figures!Columns), NEW i \in 1..Len(cs), NEW j \in Nat, i = j + 1,
           NEW b, SeriesOf(b, cs, j), NEW next, next = Figures!Best(b, cs[i])
    PROVE  SeriesOf(next, cs, i)
<1>1. PICK c \in Figures!Columns : c = cs[i]
    OBVIOUS
<1>2. PICK pts : pts = PointsOf(c)
    OBVIOUS
<1>3. /\ pts \in Seq(Fact)
      /\ pts # <<>> => pts[1].end \in Nat
    BY <1>2, ColumnShown, ColumnLatest DEF ColumnPoints
<1>4. b \in SeriesType /\ b.found \in BOOLEAN /\ b.years \in Seq(Fact) /\ b.stale = FALSE
    BY DEF SeriesOf, SeriesType
<1>5. i \in 1..i /\ \A m \in 1..i : m \in 1..j \/ m = i
    OBVIOUS
<1>6. \A m \in 1..j : m \in 1..i /\ m \in 1..Len(cs) /\ m < i
    OBVIOUS
<1> DEFINE better == pts # <<>> /\ (b.found = FALSE \/ pts[1].end > b.years[1].end)
<1>7. next = IF better THEN [found |-> TRUE, tag |-> c[1], unit |-> c[2], years |-> pts, stale |-> FALSE]
             ELSE b
    BY <1>1, <1>2, <1>4 DEF Figures!Best, Figures!Better, PointsOf
<1>8. c = <<c[1], c[2]>>
    BY DEF Figures!Columns
<1>9. \A m \in 1..j : PointsOf(cs[m]) # <<>> => PointsOf(cs[m])[1].end \in Nat
    BY <1>6, ColumnLatest
<1>10. b.years # <<>> => b.years[1].end \in Nat
    <2>1. b.years # <<>> => b.years[1] \in Fact
        BY <1>4, EmptySeq
    <2> QED
        BY <2>1, FactTypes
<1>11. CASE better
    <2>1. /\ next.found = TRUE /\ next.tag = c[1] /\ next.unit = c[2] /\ next.years = pts
          /\ next.stale = FALSE
        BY <1>7, <1>11
    <2>2. next \in SeriesType
        BY <1>3, <1>7, <1>11 DEF SeriesType
    <2>3. ASSUME NEW m \in 1..j, PointsOf(cs[m]) # <<>>
          PROVE  PointsOf(cs[m])[1].end < pts[1].end
        <3>1. b.found = TRUE
            BY <1>4, <2>3 DEF SeriesOf
        <3>2. pts[1].end > b.years[1].end /\ b.years # <<>>
            BY <1>11, <3>1 DEF SeriesOf
        <3>3. PointsOf(cs[m])[1].end <= b.years[1].end
            BY <2>3, <3>1 DEF SeriesOf, LatestOf
        <3> QED
            BY <1>3, <1>9, <1>10, <1>11, <2>3, <3>2, <3>3
    <2>4. LatestOf(pts, cs, i, i)
        <3>1. PointsOf(cs[i])[1].end <= pts[1].end
            BY <1>1, <1>2, <1>3, <1>11
        <3>2. \A m \in 1..j : PointsOf(cs[m]) # <<>> => PointsOf(cs[m])[1].end <= pts[1].end
            BY <1>3, <1>9, <1>11, <2>3
        <3>3. ~(i < i)
            OBVIOUS
        <3> QED
            BY <1>1, <1>2, <1>5, <2>3, <3>1, <3>2, <3>3 DEF LatestOf
    <2> QED
        BY <1>1, <1>5, <1>8, <1>11, <2>1, <2>2, <2>4 DEF SeriesOf
<1>12. CASE ~better
    <2>1. next = b
        BY <1>7, <1>12
    <2>2. CASE b.found = FALSE
        <3>1. pts = <<>>
            BY <1>12, <2>2
        <3> QED
            BY <1>1, <1>2, <1>5, <2>1, <2>2, <3>1 DEF SeriesOf
    <2>3. CASE b.found = TRUE
        <3>1. PICK k \in 1..j : cs[k] = <<b.tag, b.unit>> /\ LatestOf(b.years, cs, k, j)
            BY <2>3 DEF SeriesOf
        <3>2. b.years # <<>>
            BY <2>3 DEF SeriesOf
        <3>3. pts # <<>> => pts[1].end <= b.years[1].end
            <4>1. pts # <<>> => ~(pts[1].end > b.years[1].end)
                BY <1>12
            <4>2. pts # <<>> => pts[1].end \in Nat /\ b.years[1].end \in Nat
                BY <1>3, <1>10, <3>2
            <4> QED
                BY <4>1, <4>2
        <3>4. k \in 1..i /\ k < i
            BY <1>6
        <3>5. LatestOf(b.years, cs, k, i)
            <4>1. ~(i < k)
                BY <3>4
            <4> QED
                BY <1>1, <1>2, <1>5, <3>1, <3>3, <4>1 DEF LatestOf
        <3> QED
            BY <1>4, <2>1, <2>3, <3>1, <3>2, <3>4, <3>5 DEF SeriesOf
    <2> QED
        BY <1>4, <2>2, <2>3
<1> QED
    BY <1>11, <1>12

LEMMA BestFolds ==
    ASSUME Figures!TypeOK, NEW cs \in Seq(Figures!Columns)
    PROVE  SeriesOf(Figures!FoldLeft(Figures!Best, Figures!NotFound, cs), cs, Len(cs))
<1> DEFINE Iter(f) == f = [s \in SUBSET DOMAIN cs |->
                             IF s = {} THEN Figures!NotFound
                             ELSE Figures!Best(f[s \ {Figures!Max(s)}], cs[Figures!Max(s)])]
           fn == CHOOSE f : Iter(f)
<1>1. Figures!FoldLeft(Figures!Best, Figures!NotFound, cs) = fn[DOMAIN cs]
    BY DEF Figures!FoldLeft, Figures!MapThenFoldSet
<1>2. PICK n \in Nat : n = Len(cs) /\ DOMAIN cs = 1..n
    OBVIOUS
<1>3. \A i \in 1..n : cs[i] \in Figures!Columns
    BY <1>2
<1>4. Figures!NotFound \in SeriesType /\ SeriesOf(Figures!NotFound, cs, 0)
    BY DEF SeriesType, SeriesOf, Figures!NotFound
<1>5. Iter(fn)
    <2> DEFINE step == [p \in SeriesType \X Figures!Columns |-> Figures!Best(p[1], p[2])]
    <2>1. step \in [SeriesType \X Figures!Columns -> SeriesType]
        <3>1. ASSUME NEW b \in SeriesType, NEW c \in Figures!Columns
              PROVE  Figures!Best(b, c) \in SeriesType
            <4>1. PICK pts : pts = PointsOf(c)
                OBVIOUS
            <4>2. pts \in Seq(Fact)
                BY <4>1, ColumnShown DEF ColumnPoints
            <4>3. [found |-> TRUE, tag |-> c[1], unit |-> c[2], years |-> pts, stale |-> FALSE] \in SeriesType
                BY <4>2 DEF SeriesType
            <4> QED
                BY <4>1, <4>3 DEF Figures!Best, PointsOf
        <3> QED
            BY <3>1
    <2>2. PICK f \in [SUBSET (1..n) -> SeriesType] : Folding(f, step, Figures!NotFound, cs, n)
        <3>1. Steps(SeriesType, Figures!Columns, step, Figures!NotFound, cs, n)
            BY <1>2, <1>3, <1>4, <2>1 DEF Steps
        <3> HIDE DEF step
        <3>2. Folds(SeriesType, step, Figures!NotFound, cs, n)
            BY <3>1, FoldingExists
        <3> QED
            BY <3>2 DEF Folds
    <2>3. ASSUME NEW s \in SUBSET (1..n)
          PROVE  f[s] = IF s = {} THEN Figures!NotFound
                        ELSE Figures!Best(f[s \ {Figures!Max(s)}], cs[Figures!Max(s)])
        <3>1. CASE s = {}
            BY <2>2, <3>1 DEF Folding
        <3>2. CASE s # {}
            <4>1. PICK m : m = Figures!Max(s)
                OBVIOUS
            <4>2. m \in 1..n
                BY <3>2, <4>1, MaxThere
            <4>3. f[s \ {m}] \in SeriesType /\ cs[m] \in Figures!Columns
                BY <1>3, <4>2
            <4>4. f[s] = step[<<f[s \ {m}], cs[m]>>]
                BY <2>2, <3>2, <4>1 DEF Folding
            <4>5. step[<<f[s \ {m}], cs[m]>>] = Figures!Best(f[s \ {m}], cs[m])
                BY <4>3
            <4> QED
                BY <3>2, <4>1, <4>4, <4>5
        <3> QED
            BY <3>1, <3>2
    <2>4. Iter(f)
        BY <1>2, <2>3
    <2> HIDE DEF Iter
    <2> QED
        BY <2>4
<1> HIDE DEF fn
<1>6. ASSUME NEW s \in SUBSET (1..n)
      PROVE  fn[s] = IF s = {} THEN Figures!NotFound
                     ELSE Figures!Best(fn[s \ {Figures!Max(s)}], cs[Figures!Max(s)])
    BY <1>2, <1>5
<1> DEFINE Good(i) == SeriesOf(fn[1..i], cs, i)
           bad == {i \in 0..n : ~Good(i)}
<1>7. SUFFICES ASSUME bad # {}
               PROVE  FALSE
    <2>1. n \in 0..n
        OBVIOUS
    <2>2. n \notin bad => Good(n)
        BY <2>1
    <2> HIDE DEF bad
    <2> QED
        BY <1>1, <1>2, <2>2
<1>8. PICK k \in bad : \A i \in bad : k <= i
    <2>1. bad \in SUBSET Nat
        OBVIOUS
    <2> QED
        BY <1>7, <2>1, LeastThere
<1>9. CASE k = 0
    <2>1. 1..0 = {} /\ {} \in SUBSET (1..n)
        OBVIOUS
    <2>2. fn[1..0] = Figures!NotFound
        BY <1>6, <2>1
    <2> QED
        BY <1>4, <1>9, <2>2
<1>10. CASE k # 0
    <2>1. PICK j \in Nat : k = j + 1 /\ j + 1 <= n
        BY <1>10
    <2>2. k \in 1..n /\ Good(j)
        <3>1. j \in 0..n /\ k \in 1..n /\ ~(k <= j)
            BY <2>1
        <3>2. j \notin bad
            BY <1>8, <3>1
        <3> QED
            BY <3>1, <3>2
    <2>3. fn[1..k] = Figures!Best(fn[1..j], cs[k])
        <3>1. Figures!Max(1..k) = k /\ 1..k \in SUBSET (1..n) /\ 1..k # {} /\ (1..k) \ {k} = 1..j
            <4>1. k - 1 = j
                BY <2>1
            <4> QED
                BY <2>2, <4>1, InTurn
        <3> QED
            BY <1>6, <3>1
    <2>4. Good(k)
        <3>1. k \in 1..Len(cs)
            BY <1>2, <2>2
        <3> QED
            BY <2>1, <2>2, <2>3, <3>1, BestMore
    <2> QED
        BY <2>4
<1> QED
    BY <1>9, <1>10

\* The series s, cut to so many years, is that of line item i.
SeriesShown(s, i) ==
    /\ s \in SeriesType /\ s.stale = FALSE
    /\ s.found = FALSE => Figures!YearEndsOf(i) = {}
    /\ s.found = TRUE =>
         \E c \in Figures!Columns, n \in Nat \ {0} :
            /\ s.tag = c[1] /\ s.unit = c[2] /\ c[1] \in Figures!ToSet(LINE_ITEMS[i])
            /\ n <= Len(PointsOf(c)) /\ (n = Len(PointsOf(c)) \/ n = Years)
            /\ Len(s.years) = n /\ \A m \in 1..n : s.years[m] = PointsOf(c)[m]
            /\ s.years[1].end \in Figures!YearEndsOf(i)
            /\ \A e \in Figures!YearEndsOf(i) : e \in Nat /\ e <= s.years[1].end
            /\ \A d \in Figures!Columns, a, b \in DOMAIN LINE_ITEMS[i] :
                 a < b /\ LINE_ITEMS[i][a] = d[1] /\ LINE_ITEMS[i][b] = s.tag =>
                   s.years[1].end \notin Figures!YearEnds(d)

LEMMA SeriesAre ==
    ASSUME Figures!TypeOK, NEW i \in Figures!Items, NEW s, s = Figures!Annual_series(LINE_ITEMS[i])
    PROVE  SeriesShown(s, i)
<1>1. PICK tags : tags = LINE_ITEMS[i]
    OBVIOUS
<1>2. tags \in Seq(Figures!Tags)
    BY <1>1, PartsAssumption DEF Figures!FiguresAssumption
<1>3. PICK cs : cs = Figures!Rounds(tags)
    OBVIOUS
<1>4. InOrder(cs, tags, Len(tags))
    BY <1>1, <1>3, RoundsAre
<1>5. PICK n \in Nat : n = Len(tags)
    BY <1>2
<1>6. cs \in Seq(Figures!Columns)
    BY <1>4 DEF InOrder
<1>7. PICK N \in Nat : N = Len(cs)
    BY <1>6
<1>8. PICK b : b = Figures!FoldLeft(Figures!Best, Figures!NotFound, cs)
    OBVIOUS
<1>9. SeriesOf(b, cs, N)
    BY <1>6, <1>7, <1>8, BestFolds
<1>10. b \in SeriesType /\ b.found \in BOOLEAN /\ b.years \in Seq(Fact) /\ b.stale = FALSE
    BY <1>9 DEF SeriesOf, SeriesType
<1>11. PICK L \in Nat : L = Len(b.years)
    BY <1>10
<1>12. Years \in Nat /\ Years # 0
    BY PartsAssumption DEF Figures!FiguresAssumption
<1>13. PICK most \in Nat : most = IF L < Years THEN L ELSE Years
    BY <1>12
<1>14. s = [b EXCEPT !.years = SubSeq(b.years, 1, most)]
    BY <1>1, <1>3, <1>8, <1>11, <1>13 DEF Figures!Annual_series
<1>15. /\ s.found = b.found /\ s.tag = b.tag /\ s.unit = b.unit /\ s.stale = FALSE
       /\ s.years = SubSeq(b.years, 1, most)
    BY <1>10, <1>14 DEF SeriesType
<1>23. s \in SeriesType
    <2>1. SubSeq(b.years, 1, most) \in Seq(Fact)
        <3>1. most <= L
            BY <1>12, <1>13
        <3> QED
            BY <1>10, <1>11, <3>1
    <2> QED
        BY <1>10, <1>14, <2>1 DEF SeriesType
<1>16. most <= L /\ Len(s.years) = most /\ \A m \in 1..most : s.years[m] = b.years[m]
    <2>1. most <= L
        BY <1>12, <1>13
    <2> QED
        BY <1>10, <1>11, <1>15, <2>1
<1>17. DOMAIN tags = 1..n
    BY <1>2, <1>5
<1>18. \A m \in 1..N : cs[m] \in Figures!Columns
    BY <1>6, <1>7
<1>19. Figures!YearEndsOf(i) = UNION {Figures!YearEnds(c) : c \in {d \in Figures!Columns : \E a \in 1..n : d[1] = tags[a]}}
    BY <1>1, <1>17 DEF Figures!YearEndsOf, Figures!ToSet
<1>20. \A e \in Figures!YearEndsOf(i) : \E m \in 1..N : e \in Figures!YearEnds(cs[m])
    <2>1. ASSUME NEW e \in Figures!YearEndsOf(i)
          PROVE  \E m \in 1..N : e \in Figures!YearEnds(cs[m])
        <3>1. PICK c \in Figures!Columns, a \in 1..n : c[1] = tags[a] /\ e \in Figures!YearEnds(c)
            BY <1>19
        <3>2. PICK m \in 1..N : cs[m] = c
            BY <1>4, <1>5, <1>7, <3>1 DEF InOrder
        <3> QED
            BY <3>1, <3>2
    <2> QED
        BY <2>1
<1>21. CASE b.found = FALSE
    <2>1. \A m \in 1..N : PointsOf(cs[m]) = <<>>
        BY <1>9, <1>21 DEF SeriesOf
    <2>2. \A m \in 1..N : Figures!YearEnds(cs[m]) = {}
        BY <1>18, <2>1, ColumnLatest
    <2>3. Figures!YearEndsOf(i) = {}
        BY <1>20, <2>2
    <2> QED
        BY <1>15, <1>21, <1>23, <2>3 DEF SeriesShown
<1>22. CASE b.found = TRUE
    <2>1. PICK k \in 1..N : cs[k] = <<b.tag, b.unit>> /\ LatestOf(b.years, cs, k, N)
        BY <1>9, <1>22 DEF SeriesOf
    <2>2. b.years # <<>> /\ L # 0
        BY <1>9, <1>10, <1>11, <1>22, EmptySeq DEF SeriesOf
    <2>3. PICK c \in Figures!Columns : c = cs[k]
        BY <1>18
    <2>4. b.years = PointsOf(c) /\ c[1] = b.tag /\ c[2] = b.unit
        BY <2>1, <2>3 DEF LatestOf
    <2>5. most # 0 /\ 1 \in 1..most /\ (most = L \/ most = Years) /\ s.years[1] = b.years[1]
        BY <1>12, <1>13, <1>16, <2>2
    <2>6. PICK top \in Nat : top = b.years[1].end /\ top \in Figures!YearEnds(c)
        BY <2>2, <2>4, ColumnLatest
    <2>7. PICK t \in 1..n : c[1] = tags[t]
        BY <1>4, <1>5, <1>7, <2>3 DEF InOrder
    <2>8. top \in Figures!YearEndsOf(i)
        BY <1>19, <2>6, <2>7
    <2>9. ASSUME NEW m \in 1..N, NEW e \in Figures!YearEnds(cs[m])
          PROVE  e \in Nat /\ e <= top /\ (m < k => e < top)
        <3>1. PICK pts : pts = PointsOf(cs[m])
            OBVIOUS
        <3>2. pts # <<>> /\ pts[1].end \in Nat /\ e \in Nat /\ e <= pts[1].end
            <4>1. cs[m] \in Figures!Columns
                BY <1>18
            <4> QED
                BY <3>1, <4>1, ColumnLatest
        <3>3. pts[1].end <= top /\ (m < k => pts[1].end < top)
            BY <2>1, <2>6, <3>1, <3>2 DEF LatestOf
        <3> QED
            BY <3>2, <3>3
    <2>10. \A e \in Figures!YearEndsOf(i) : e \in Nat /\ e <= top
        BY <1>20, <2>9
    <2>11. ASSUME NEW d \in Figures!Columns, NEW a \in 1..n, NEW r \in 1..n,
                  a < r, tags[a] = d[1], tags[r] = s.tag
           PROVE  top \notin Figures!YearEnds(d)
        <3>1. PICK m \in 1..N : cs[m] = d
            BY <1>4, <1>5, <1>7, <2>11 DEF InOrder
        <3>2. cs[m][1] = tags[a] /\ cs[k][1] = tags[r]
            BY <1>15, <2>3, <2>4, <2>11, <3>1
        <3>3. m < k
            BY <1>4, <1>5, <1>7, <2>11, <3>2 DEF InOrder
        <3>4. \A e \in Figures!YearEnds(d) : e < top
            BY <2>9, <3>1, <3>3
        <3>5. ~(top < top)
            OBVIOUS
        <3> QED
            BY <3>4, <3>5
    <2>12. c[1] \in Figures!ToSet(tags)
        BY <1>17, <2>7 DEF Figures!ToSet
    <2>13. /\ s.tag = c[1] /\ s.unit = c[2]
           /\ most <= Len(PointsOf(c)) /\ (most = Len(PointsOf(c)) \/ most = Years)
           /\ \A m \in 1..most : s.years[m] = PointsOf(c)[m]
           /\ s.years[1].end = top
        BY <1>11, <1>15, <1>16, <2>4, <2>5, <2>6
    <2>14. s.found = TRUE /\ s.stale = FALSE
        BY <1>15, <1>22
    <2>15. most \in Nat \ {0}
        BY <2>5
    <2> QED
        BY <1>1, <1>16, <1>17, <1>23, <2>8, <2>10, <2>11, <2>12, <2>13, <2>14, <2>15 DEF SeriesShown
<1> QED
    BY <1>10, <1>21, <1>22

\* What a series has of its column: the newest figures, as many as are asked for.
NewestOf(s) ==
    \E c \in Figures!Columns : c = <<s.tag, s.unit>> /\ \E n \in Nat \ {0} :
        /\ n <= Len(PointsOf(c)) /\ (n = Len(PointsOf(c)) \/ n = Years)
        /\ s.years \in Seq(Fact) /\ Len(s.years) = n
        /\ \A m \in 1..n : s.years[m] = PointsOf(c)[m]

LEMMA ShownSeries ==
    ASSUME NEW i \in Figures!Items, NEW s, SeriesShown(s, i), s.found = TRUE
    PROVE  NewestOf(s)
<1>1. PICK c \in Figures!Columns, n \in Nat \ {0} :
         /\ s.tag = c[1] /\ s.unit = c[2] /\ c[1] \in Figures!ToSet(LINE_ITEMS[i])
         /\ n <= Len(PointsOf(c)) /\ (n = Len(PointsOf(c)) \/ n = Years)
         /\ Len(s.years) = n /\ \A m \in 1..n : s.years[m] = PointsOf(c)[m]
    BY DEF SeriesShown
<1>2. c = <<c[1], c[2]>>
    BY DEF Figures!Columns
<1>3. s.years \in Seq(Fact)
    BY DEF SeriesShown, SeriesType
<1> QED
    BY <1>1, <1>2, <1>3 DEF NewestOf

LEMMA ShownLatest ==
    ASSUME NEW i \in Figures!Items, NEW s, SeriesShown(s, i), s.found = TRUE
    PROVE  /\ s.years[1].end \in Nat /\ s.years[1].end \in Figures!YearEndsOf(i)
           /\ \A e \in Figures!YearEndsOf(i) : e \in Nat /\ e <= s.years[1].end
BY DEF SeriesShown

LEMMA FinancialsAre ==
    ASSUME Figures!TypeOK, NEW fin, fin = Figures!Annual_financials, NEW i \in Figures!Items
    PROVE  \E s : /\ SeriesShown(s, i)
                  /\ fin[i].found = s.found /\ fin[i].tag = s.tag /\ fin[i].unit = s.unit
                  /\ fin[i].years = s.years
                  /\ fin[i].stale \in BOOLEAN
                  /\ Figures!YearEndsOf(i) # {} =>
                       (fin[i].stale = TRUE <=>
                          \E end \in Figures!YearEndsOf(Anchor) :
                             \A e \in Figures!YearEndsOf(i) : e + StaleDays < end)
<1>1. PICK items : items = [k \in Figures!Items |-> Figures!Annual_series(LINE_ITEMS[k])]
    OBVIOUS
<1>2. fin = Figures!Mark_stale(items)
    BY <1>1 DEF Figures!Annual_financials
<1>3. PICK s : s = items[i]
    OBVIOUS
<1>4. s = Figures!Annual_series(LINE_ITEMS[i])
    BY <1>1, <1>3
<1>5. SeriesShown(s, i)
    BY <1>4, SeriesAre
<1>6. Anchor \in Figures!Items /\ StaleDays \in Nat
    BY PartsAssumption DEF Figures!FiguresAssumption
<1>7. PICK a : a = items[Anchor]
    OBVIOUS
<1>8. a = Figures!Annual_series(LINE_ITEMS[Anchor])
    BY <1>1, <1>6, <1>7
<1>9. SeriesShown(a, Anchor)
    BY <1>6, <1>8, SeriesAre
<1>10. s \in SeriesType /\ s.found \in BOOLEAN /\ a.found \in BOOLEAN /\ s.stale = FALSE
    BY <1>5, <1>9 DEF SeriesShown, SeriesType
<1>11. s.found = FALSE => Figures!YearEndsOf(i) = {}
    BY <1>5 DEF SeriesShown
<1>12. CASE a.found = FALSE
    <2>1. fin = items
        BY <1>2, <1>7, <1>12 DEF Figures!Mark_stale
    <2>2. Figures!YearEndsOf(Anchor) = {}
        BY <1>9, <1>12 DEF SeriesShown
    <2> QED
        BY <1>3, <1>5, <1>10, <2>1, <2>2
<1>13. CASE a.found = TRUE
    <2>1. fin[i] = [s EXCEPT !.stale = Figures!Stale(s, a)]
        BY <1>2, <1>3, <1>7, <1>13 DEF Figures!Mark_stale
    <2>2. PICK flag \in BOOLEAN : flag = Figures!Stale(s, a)
        BY DEF Figures!Stale
    <2>3. fin[i].stale = flag
        BY <1>10, <2>1, <2>2 DEF SeriesType
    <2>4. /\ fin[i].found = s.found /\ fin[i].tag = s.tag /\ fin[i].unit = s.unit
          /\ fin[i].years = s.years
        BY <1>10, <2>1 DEF SeriesType
    <2>5. PICK last \in Nat : /\ last = a.years[1].end /\ last \in Figures!YearEndsOf(Anchor)
                              /\ \A e \in Figures!YearEndsOf(Anchor) : e \in Nat /\ e <= last
        BY <1>6, <1>9, <1>13, ShownLatest
    <2>6. ASSUME Figures!YearEndsOf(i) # {}
          PROVE  flag = TRUE <=> \E end \in Figures!YearEndsOf(Anchor) :
                                    \A e \in Figures!YearEndsOf(i) : e + StaleDays < end
        <3>1. s.found = TRUE
            BY <1>10, <1>11, <2>6
        <3>2. PICK top \in Nat : /\ top = s.years[1].end /\ top \in Figures!YearEndsOf(i)
                                 /\ \A e \in Figures!YearEndsOf(i) : e \in Nat /\ e <= top
            BY <1>5, <3>1, ShownLatest
        <3>3. flag = TRUE <=> last - top > StaleDays
            BY <2>2, <2>5, <3>1, <3>2 DEF Figures!Stale
        <3>4. ASSUME last - top > StaleDays
              PROVE  \A e \in Figures!YearEndsOf(i) : e + StaleDays < last
            BY <1>6, <2>5, <3>2, <3>4
        <3>5. ASSUME NEW end \in Figures!YearEndsOf(Anchor),
                     \A e \in Figures!YearEndsOf(i) : e + StaleDays < end
              PROVE  last - top > StaleDays
            <4>1. end \in Nat /\ end <= last
                BY <2>5
            <4>2. top + StaleDays < end
                BY <3>2, <3>5
            <4> QED
                BY <1>6, <2>5, <3>2, <4>1, <4>2
        <3> QED
            BY <2>5, <3>3, <3>4, <3>5
    <2> QED
        BY <1>5, <2>3, <2>4, <2>6
<1> QED
    BY <1>10, <1>12, <1>13

\* What the analyst reads is current, whatever the document says.
LEMMA FiguresAreCurrent ==
    ASSUME Figures!TypeOK
    PROVE  Figures!LatestTag /\ Figures!AsLastStated /\ Figures!FlaggedIfStale
<1>1. PICK fin : fin = Figures!Annual_financials
    OBVIOUS
<1>2. ASSUME NEW i \in Figures!Items
      PROVE  /\ fin[i].found <=> Figures!YearEndsOf(i) # {}
             /\ fin[i].found =>
                  /\ fin[i].years[1].end = Figures!Max(Figures!YearEndsOf(i))
                  /\ \A c \in Figures!Columns :
                       c[1] \in {t \in Figures!ToSet(LINE_ITEMS[i]) :
                                   \E m, n \in DOMAIN LINE_ITEMS[i] :
                                     m < n /\ LINE_ITEMS[i][m] = t /\ LINE_ITEMS[i][n] = fin[i].tag} =>
                         fin[i].years[1].end \notin Figures!YearEnds(c)
    <2>1. PICK s : SeriesShown(s, i) /\ fin[i].found = s.found /\ fin[i].tag = s.tag /\ fin[i].years = s.years
        BY <1>1, FinancialsAre
    <2>2. s.found \in BOOLEAN
        BY <2>1 DEF SeriesShown, SeriesType
    <2>3. CASE s.found = FALSE
        <3>1. Figures!YearEndsOf(i) = {}
            BY <2>1, <2>3 DEF SeriesShown
        <3> QED
            BY <2>1, <2>3, <3>1
    <2>4. CASE s.found = TRUE
        <3>1. /\ s.years[1].end \in Figures!YearEndsOf(i)
              /\ \A e \in Figures!YearEndsOf(i) : e \in Nat /\ e <= s.years[1].end
            BY <2>1, <2>4, ShownLatest
        <3>2. Figures!Max(Figures!YearEndsOf(i)) = s.years[1].end
            BY <3>1, MaxIs
        <3>3. \A d \in Figures!Columns, m, n \in DOMAIN LINE_ITEMS[i] :
                 m < n /\ LINE_ITEMS[i][m] = d[1] /\ LINE_ITEMS[i][n] = s.tag =>
                   s.years[1].end \notin Figures!YearEnds(d)
            BY <2>1, <2>4 DEF SeriesShown
        <3> QED
            BY <2>1, <2>4, <3>1, <3>2, <3>3
    <2> QED
        BY <2>2, <2>3, <2>4
<1>3. Figures!LatestTag
    BY <1>1, <1>2 DEF Figures!LatestTag
<1> DEFINE Column(i) == <<fin[i].tag, fin[i].unit>>
           Ended(i) == {fin[i].years[n].end : n \in DOMAIN fin[i].years}
<1>4. ASSUME NEW i \in Figures!Items, fin[i].found
      PROVE  /\ \A n \in 2..Len(fin[i].years) : fin[i].years[n].end < fin[i].years[n - 1].end
             /\ \A end \in Figures!YearEnds(Column(i)) \ Ended(i) :
                  Len(fin[i].years) = Years /\ \A e \in Ended(i) : end < e
             /\ \A n \in DOMAIN fin[i].years :
                  /\ \E m \in Figures!Yearly(Column(i)) : document[Column(i)][m] = fin[i].years[n]
                  /\ \A m \in Figures!Yearly(Column(i)) :
                       document[Column(i)][m].end = fin[i].years[n].end =>
                         document[Column(i)][m].filed <= fin[i].years[n].filed
    <2>0. PICK c, shows : c = Column(i) /\ shows = Ended(i)
        OBVIOUS
    <2>1. PICK s : SeriesShown(s, i) /\ fin[i].found = s.found /\ fin[i].tag = s.tag
                   /\ fin[i].unit = s.unit /\ fin[i].years = s.years
        BY <1>1, FinancialsAre
    <2>2. s.found \in BOOLEAN
        BY <2>1 DEF SeriesShown, SeriesType
    <2>3. s.found = TRUE
        BY <1>4, <2>1, <2>2
    <2>16. PICK d \in Figures!Columns :
             /\ d = <<s.tag, s.unit>>
             /\ \E n \in Nat \ {0} :
                  /\ n <= Len(PointsOf(d)) /\ (n = Len(PointsOf(d)) \/ n = Years)
                  /\ s.years \in Seq(Fact) /\ Len(s.years) = n
                  /\ \A m \in 1..n : s.years[m] = PointsOf(d)[m]
        <3>1. NewestOf(s)
            BY <2>1, <2>3, ShownSeries
        <3> QED
            BY <3>1 DEF NewestOf
    <2>17. c = d
        BY <2>0, <2>1, <2>16
    <2>18. c \in Figures!Columns
        BY <2>17
    <2>4. \E n \in Nat \ {0} :
             /\ n <= Len(PointsOf(c)) /\ (n = Len(PointsOf(c)) \/ n = Years)
             /\ s.years \in Seq(Fact) /\ Len(s.years) = n
             /\ \A m \in 1..n : s.years[m] = PointsOf(c)[m]
        BY <2>16, <2>17
    <2>5. PICK n \in Nat \ {0} :
             /\ n <= Len(PointsOf(c)) /\ (n = Len(PointsOf(c)) \/ n = Years)
             /\ s.years \in Seq(Fact) /\ Len(s.years) = n
             /\ \A m \in 1..n : s.years[m] = PointsOf(c)[m]
        BY <2>4
    <2>6. PICK pts : pts = PointsOf(c)
        OBVIOUS
    <2>7. /\ pts \in Seq(Fact)
          /\ \A k, j \in 1..Len(pts) : k < j => pts[k].end > pts[j].end
          /\ \A k \in 1..Len(pts) : \E m \in Figures!Yearly(c) : document[c][m] = pts[k]
          /\ \A k \in 1..Len(pts), m \in Figures!Yearly(c) :
                document[c][m].end = pts[k].end => document[c][m].filed <= pts[k].filed
          /\ \A e \in Figures!YearEnds(c) : e \in Nat /\ \E k \in 1..Len(pts) : pts[k].end = e
        <3>1. ColumnPoints(pts, c)
            BY <2>6, <2>18, ColumnShown
        <3> QED
            BY <3>1 DEF ColumnPoints
    <2>8. PICK l \in Nat : l = Len(pts)
        BY <2>7
    <2>9. PICK ys : ys = fin[i].years
        OBVIOUS
    <2>10. /\ n <= l /\ (n = l \/ n = Years) /\ Len(ys) = n /\ DOMAIN ys = 1..n
           /\ \A m \in 1..n : ys[m] = pts[m] /\ m \in 1..l
        BY <2>1, <2>5, <2>6, <2>8, <2>9
    <2>11. \A k \in 1..l : pts[k].end \in Nat
        <3>1. \A k \in 1..l : pts[k] \in Fact
            BY <2>7, <2>8
        <3> QED
            BY <3>1, FactTypes
    <2>12. \A k, j \in 1..l : k < j => pts[j].end < pts[k].end
        BY <2>7, <2>8, <2>11
    <2>13. ASSUME NEW m \in 2..n
           PROVE  ys[m].end < ys[m - 1].end
        <3>1. PICK k \in 1..n : k = m - 1 /\ k < m /\ m \in 1..n
            OBVIOUS
        <3>2. ys[m] = pts[m] /\ ys[k] = pts[k] /\ m \in 1..l /\ k \in 1..l
            BY <2>10, <3>1
        <3> QED
            BY <2>12, <3>1, <3>2
    <2>14. ASSUME NEW end \in Figures!YearEnds(c) \ shows
           PROVE  n = Years /\ \A e \in shows : end < e
        <3>1. PICK k \in 1..l : pts[k].end = end
            BY <2>7, <2>8
        <3>2. k \notin 1..n
            <4>1. k \in 1..n => end \in shows
                BY <2>0, <2>9, <2>10, <3>1
            <4> QED
                BY <2>14, <4>1
        <3>3. k > n /\ n # l
            BY <2>5, <2>8, <3>2
        <3>4. ASSUME NEW e \in shows
              PROVE  end < e
            <4>1. PICK m \in 1..n : e = ys[m].end
                BY <2>0, <2>9, <2>10
            <4>2. m < k /\ m \in 1..l /\ ys[m] = pts[m]
                BY <2>10, <3>3, <4>1
            <4> QED
                BY <2>12, <3>1, <4>1, <4>2
        <3> QED
            BY <2>10, <3>3, <3>4
    <2>15. ASSUME NEW k \in 1..n
           PROVE  /\ \E m \in Figures!Yearly(c) : document[c][m] = ys[k]
                  /\ \A m \in Figures!Yearly(c) : document[c][m].end = ys[k].end =>
                       document[c][m].filed <= ys[k].filed
        <3>1. ys[k] = pts[k] /\ k \in 1..Len(pts)
            BY <2>8, <2>10
        <3> QED
            BY <2>7, <3>1
    <2> QED
        BY <2>0, <2>9, <2>10, <2>13, <2>14, <2>15
<1>5. Figures!AsLastStated
    BY <1>1, <1>4 DEF Figures!AsLastStated
<1>6. ASSUME NEW i \in Figures!Items, Figures!YearEndsOf(i) # {}
      PROVE  fin[i].stale <=> \E end \in Figures!YearEndsOf(Anchor) :
                                \A e \in Figures!YearEndsOf(i) : e + StaleDays < end
    <2>1. /\ fin[i].stale \in BOOLEAN
          /\ fin[i].stale = TRUE <=> \E end \in Figures!YearEndsOf(Anchor) :
                                        \A e \in Figures!YearEndsOf(i) : e + StaleDays < end
        BY <1>1, <1>6, FinancialsAre
    <2> QED
        BY <2>1
<1>7. Figures!FlaggedIfStale
    BY <1>1, <1>6 DEF Figures!FlaggedIfStale
<1> QED
    BY <1>3, <1>5, <1>7

LEMMA FiledTyped ==
    ASSUME Figures!TypeOK, Figures!Next
    PROVE  Figures!TypeOK'
<1>1. PICK c \in Figures!Columns, end \in Ends, delay \in 1..MaxDelay : Figures!File(c, end, delay)
    BY DEF Figures!Next
<1>2. PICK days \in IF c[1] \in Balances THEN {0} ELSE YearDays \cup {1}, annual \in BOOLEAN :
         document' = [document EXCEPT ![c] = Append(document[c],
            [end |-> end, days |-> days, FY |-> annual, annual |-> annual, filed |-> end + delay])]
    BY <1>1 DEF Figures!File
<1>3. end + delay \in Nat
    BY PartsAssumption DEF Figures!FiguresAssumption
<1>4. PICK fact : fact = [end |-> end, days |-> days, FY |-> annual, annual |-> annual, filed |-> end + delay]
    OBVIOUS
<1>5. fact \in Figures!Fact
    BY <1>3, <1>4 DEF Figures!Fact
<1>6. document \in [Figures!Columns -> Seq(Figures!Fact)]
    BY DEF Figures!TypeOK
<1>7. Append(document[c], fact) \in Seq(Figures!Fact)
    BY <1>5, <1>6
<1>8. document' = [document EXCEPT ![c] = Append(document[c], fact)]
    BY <1>2, <1>4
<1> QED
    BY <1>6, <1>7, <1>8 DEF Figures!TypeOK

\* The document only ever has figures.
LEMMA FiguresAlways == JobSpec => []Figures!TypeOK
<1>1. JobInit => Figures!TypeOK
    BY DEF JobInit, Figures!Init, Figures!TypeOK
<1>2. Figures!TypeOK /\ [JobNext]_jobVars => Figures!TypeOK'
    <2> SUFFICES ASSUME Figures!TypeOK, [JobNext]_jobVars
                 PROVE  Figures!TypeOK'
        OBVIOUS
    <2>1. CASE Figures!Next
        BY <2>1, FiledTyped
    <2>2. CASE UNCHANGED document
        BY <2>2 DEF Figures!TypeOK
    <2> QED
        BY <2>1, <2>2 DEF JobNext, jobVars
<1> QED
    BY <1>1, <1>2, PTL DEF JobSpec

\* xbrl.py: of any tags, units and figures, filed in any order, each line item is shown in the column that
\* reports its latest year, as it was last stated, and flagged if and only if it stopped long before
\* the anchor did.
THEOREM FiguresCurrentHolds == JobSpec => []FiguresCurrent
<1>1. Figures!TypeOK => FiguresCurrent
    BY FiguresAreCurrent DEF FiguresCurrent
<1> QED
    BY <1>1, FiguresAlways, PTL

-----------------------------------------------------------------------------
(* Pieces: how long a part is *)

Span == Voice!Span

LEMMA SpanTypes ==
    ASSUME NEW sp \in Span
    PROVE  /\ sp[1] \in 1..MaxText /\ sp[2] \in 1..MaxText /\ sp = <<sp[1], sp[2]>>
           /\ Voice!Length(sp) = sp[2] - sp[1] + 1 /\ Voice!Length(sp) \in Int
BY PartsAssumption DEF Span, Voice!Span, Voice!Length, Voice!PiecesAssumption

LEMMA SameMax == \A S : Voice!Max(S) = Figures!Max(S)
BY DEF Voice!Max, Figures!Max

\* g adds up the lengths of the first n spans, a blank between two.
Adds(g, spans, n) ==
    /\ g[0] = -1
    /\ \A i \in 1..n : g[i] = g[i - 1] + Voice!Length(spans[i]) + 1

LEMMA SizeAdds ==
    ASSUME NEW spans \in Seq(Span)
    PROVE  \E g \in [0..Len(spans) -> Int] : Adds(g, spans, Len(spans)) /\ Voice!Size(spans) = g[Len(spans)]
<1> DEFINE Iter(f) == f = [s \in SUBSET DOMAIN spans |->
                             IF s = {} THEN -1
                             ELSE f[s \ {Voice!Max(s)}] + Voice!Length(spans[Voice!Max(s)]) + 1]
           fn == CHOOSE f : Iter(f)
<1>1. Voice!Size(spans) = fn[DOMAIN spans]
    BY DEF Voice!Size, Voice!FoldLeft, Voice!MapThenFoldSet
<1>2. PICK n \in Nat : n = Len(spans) /\ DOMAIN spans = 1..n
    OBVIOUS
<1>3. \A i \in 1..n : spans[i] \in Span
    BY <1>2
<1>4. Iter(fn)
    <2> DEFINE step == [p \in Int \X Span |-> p[1] + Voice!Length(p[2]) + 1]
    <2>1. step \in [Int \X Span -> Int]
        <3>1. ASSUME NEW k \in Int, NEW sp \in Span
              PROVE  k + Voice!Length(sp) + 1 \in Int
            BY SpanTypes
        <3> QED
            BY <3>1
    <2>2. PICK f \in [SUBSET (1..n) -> Int] : Folding(f, step, -1, spans, n)
        <3>1. Steps(Int, Span, step, -1, spans, n)
            BY <1>2, <1>3, <2>1 DEF Steps
        <3> HIDE DEF step
        <3>2. Folds(Int, step, -1, spans, n)
            BY <3>1, FoldingExists
        <3> QED
            BY <3>2 DEF Folds
    <2>3. ASSUME NEW s \in SUBSET (1..n)
          PROVE  f[s] = IF s = {} THEN -1
                        ELSE f[s \ {Voice!Max(s)}] + Voice!Length(spans[Voice!Max(s)]) + 1
        <3>1. CASE s = {}
            BY <2>2, <3>1 DEF Folding
        <3>2. CASE s # {}
            <4>1. PICK m : m = Figures!Max(s) /\ m = Voice!Max(s)
                BY SameMax
            <4>2. m \in 1..n
                BY <3>2, <4>1, MaxThere
            <4>3. f[s \ {m}] \in Int /\ spans[m] \in Span
                BY <1>3, <4>2
            <4>4. f[s] = step[<<f[s \ {m}], spans[m]>>]
                BY <2>2, <3>2, <4>1 DEF Folding
            <4>5. step[<<f[s \ {m}], spans[m]>>] = f[s \ {m}] + Voice!Length(spans[m]) + 1
                BY <4>3
            <4> QED
                BY <3>2, <4>1, <4>4, <4>5
        <3> QED
            BY <3>1, <3>2
    <2>4. Iter(f)
        BY <1>2, <2>3
    <2> HIDE DEF Iter
    <2> QED
        BY <2>4
<1> HIDE DEF fn
<1>5. ASSUME NEW s \in SUBSET (1..n)
      PROVE  fn[s] = IF s = {} THEN -1
                     ELSE fn[s \ {Voice!Max(s)}] + Voice!Length(spans[Voice!Max(s)]) + 1
    BY <1>2, <1>4
<1> DEFINE g == [i \in 0..n |-> fn[1..i]]
<1>6. g[0] = -1
    <2>1. 1..0 = {} /\ {} \in SUBSET (1..n) /\ 0 \in 0..n
        OBVIOUS
    <2> QED
        BY <1>5, <2>1
<1>7. ASSUME NEW i \in 1..n
      PROVE  g[i] = g[i - 1] + Voice!Length(spans[i]) + 1
    <2>1. Voice!Max(1..i) = i /\ 1..i \in SUBSET (1..n) /\ 1..i # {} /\ (1..i) \ {i} = 1..(i - 1)
        BY InTurn, SameMax
    <2>2. fn[1..i] = fn[1..(i - 1)] + Voice!Length(spans[i]) + 1
        BY <1>5, <2>1
    <2>3. i \in 0..n /\ i - 1 \in 0..n
        OBVIOUS
    <2> QED
        BY <2>2, <2>3
<1>8. g[n] = Voice!Size(spans)
    BY <1>1, <1>2
<1>9. DOMAIN g = 0..n
    OBVIOUS
<1> HIDE DEF g
<1>10. \A i \in 0..n : g[i] \in Int
    <2> DEFINE bad == {i \in 0..n : g[i] \notin Int}
    <2>1. SUFFICES ASSUME bad # {}
                   PROVE  FALSE
        OBVIOUS
    <2>2. PICK k \in bad : \A i \in bad : k <= i
        <3>1. bad \in SUBSET Nat
            OBVIOUS
        <3> QED
            BY <2>1, <3>1, LeastThere
    <2>3. k # 0
        BY <1>6
    <2>4. PICK j \in 0..n : k = j + 1 /\ k \in 1..n
        BY <2>3
    <2>5. j \notin bad
        <3>1. ~(k <= j)
            BY <2>4
        <3> HIDE DEF bad
        <3> QED
            BY <2>2, <3>1
    <2>6. g[k] = g[j] + Voice!Length(spans[k]) + 1
        <3>1. k - 1 = j
            BY <2>4
        <3> QED
            BY <1>7, <2>4, <3>1
    <2>7. g[j] \in Int /\ Voice!Length(spans[k]) \in Int
        BY <1>3, <2>4, <2>5, SpanTypes
    <2>8. g[k] \in Int
        BY <2>6, <2>7
    <2> QED
        BY <2>8
<1>11. g \in [0..n -> Int]
    <2>1. g = [i \in 0..n |-> g[i]]
        BY <1>9 DEF g
    <2> QED
        BY <1>10, <2>1
<1> QED
    BY <1>2, <1>6, <1>7, <1>8, <1>11 DEF Adds

LEMMA AddsOne ==
    ASSUME NEW s, NEW t, NEW n \in Nat, NEW m \in Nat, n <= m, NEW f, NEW g,
           Adds(f, s, n), Adds(g, t, m), Alike(s, t, n)
    PROVE  f[n] = g[n]
<1> DEFINE bad == {k \in 0..n : f[k] # g[k]}
<1>1. SUFFICES ASSUME bad # {}
               PROVE  FALSE
    OBVIOUS
<1>2. PICK k \in bad : \A i \in bad : k <= i
    <2>1. bad \in SUBSET Nat
        OBVIOUS
    <2> QED
        BY <1>1, <2>1, LeastThere
<1>3. k # 0
    BY DEF Adds
<1>4. PICK j \in 0..n : j = k - 1 /\ k \in 1..n /\ k \in 1..m /\ ~(k <= j)
    BY <1>3
<1>5. f[j] = g[j]
    <2>1. j \notin bad
        <3> HIDE DEF bad
        <3> QED
            BY <1>2, <1>4
    <2> QED
        BY <2>1
<1>6. f[k] = f[j] + Voice!Length(s[k]) + 1 /\ g[k] = g[j] + Voice!Length(t[k]) + 1
    BY <1>4 DEF Adds
<1>7. s[k] = t[k]
    BY <1>4 DEF Alike
<1> QED
    BY <1>4, <1>5, <1>6, <1>7

LEMMA SizeNone == Voice!Size(<<>>) = -1
<1>1. <<>> \in Seq(Span) /\ Len(<<>>) = 0
    OBVIOUS
<1>2. PICK g \in [0..0 -> Int] : Adds(g, <<>>, 0) /\ Voice!Size(<<>>) = g[0]
    BY <1>1, SizeAdds
<1> QED
    BY <1>2 DEF Adds

LEMMA SizeMore ==
    ASSUME NEW s \in Seq(Span), NEW sp \in Span
    PROVE  /\ Voice!Size(s) \in Int
           /\ Voice!Size(Append(s, sp)) = Voice!Size(s) + Voice!Length(sp) + 1
<1>1. PICK t : t = Append(s, sp)
    OBVIOUS
<1>2. PICK n \in Nat : n = Len(s)
    OBVIOUS
<1>3. t \in Seq(Span) /\ Len(t) = n + 1 /\ t[n + 1] = sp /\ \A i \in 1..n : s[i] = t[i]
    BY <1>1, <1>2
<1>4. PICK f \in [0..n -> Int] : Adds(f, s, n) /\ Voice!Size(s) = f[n]
    BY <1>2, SizeAdds
<1>5. PICK m \in Nat : m = n + 1 /\ n <= m /\ m \in 1..m /\ m - 1 = n
    BY <1>2
<1>6. PICK g \in [0..m -> Int] : Adds(g, t, m) /\ Voice!Size(t) = g[m]
    BY <1>3, <1>5, SizeAdds
<1>7. f[n] = g[n]
    <2>1. Adds(f, s, n) /\ Adds(g, t, m) /\ Alike(s, t, n) /\ n <= m
        BY <1>3, <1>4, <1>5, <1>6 DEF Alike
    <2> QED
        BY <2>1, AddsOne
<1>8. g[m] = g[n] + Voice!Length(t[m]) + 1
    BY <1>5, <1>6 DEF Adds
<1> QED
    BY <1>1, <1>3, <1>4, <1>5, <1>6, <1>7, <1>8

LEMMA SizeOne ==
    ASSUME NEW sp \in Span
    PROVE  Voice!Size(<<sp>>) = Voice!Length(sp)
<1>1. <<sp>> = Append(<<>>, sp) /\ <<>> \in Seq(Span)
    OBVIOUS
<1>2. Voice!Size(<<sp>>) = -1 + Voice!Length(sp) + 1
    BY <1>1, SizeNone, SizeMore
<1> QED
    BY <1>2, SpanTypes

-----------------------------------------------------------------------------
(* Pieces: the sentences of a text *)

\* p is the k positions of S, in order.
Ascending(p, S, k) ==
    /\ p \in [1..k -> S]
    /\ \A s \in S : \E i \in 1..k : p[i] = s
    /\ \A i, j \in 1..k : i < j => p[i] < p[j]
Ascends(S) == IsFiniteSet(S) /\ Cardinality(S) \in Nat /\ \E p : Ascending(p, S, Cardinality(S))

LEMMA AscendingExists ==
    ASSUME NEW n \in Nat, NEW S \in SUBSET (1..n)
    PROVE  Ascends(S)
<1> DEFINE Fine(i) == \A T \in SUBSET (1..i) : Ascends(T)
           bad == {i \in Nat : ~Fine(i)}
<1>1. SUFFICES ASSUME bad # {}
               PROVE  FALSE
    <2>1. n \notin bad => Fine(n)
        OBVIOUS
    <2> HIDE DEF bad
    <2> QED
        BY <2>1
<1>2. PICK k \in bad : \A i \in bad : k <= i
    <2>1. bad \in SUBSET Nat
        OBVIOUS
    <2> QED
        BY <1>1, <2>1, LeastThere
<1>3. PICK T \in SUBSET (1..k) : ~Ascends(T)
    OBVIOUS
<1>4. k # 0
    <2>1. SUFFICES ASSUME k = 0
                   PROVE  FALSE
        OBVIOUS
    <2>2. T = {}
        BY <2>1
    <2>3. IsFiniteSet(T) /\ Cardinality(T) = 0
        BY <2>2, FS_EmptySet
    <2>4. Ascending(<<>>, T, 0)
        BY <2>2 DEF Ascending
    <2> QED
        BY <1>3, <2>3, <2>4 DEF Ascends
<1>5. PICK j \in Nat : k = j + 1 /\ Fine(j)
    <2>1. PICK j \in Nat : k = j + 1 /\ ~(k <= j)
        BY <1>4
    <2>2. j \notin bad
        <3> HIDE DEF bad
        <3> QED
            BY <1>2, <2>1
    <2> QED
        BY <2>1, <2>2
<1>6. k \in T
    <2>1. SUFFICES ASSUME k \notin T
                   PROVE  FALSE
        OBVIOUS
    <2>2. T \in SUBSET (1..j)
        BY <1>5, <2>1
    <2> QED
        BY <1>3, <1>5, <2>2
<1>7. PICK U : U = T \ {k} /\ T = U \cup {k} /\ k \notin U
    <2>1. PICK U : U = T \ {k}
        OBVIOUS
    <2>2. T = U \cup {k} /\ k \notin U
        BY <1>6, <2>1
    <2> QED
        BY <2>1, <2>2
<1>8. U \in SUBSET (1..j)
    BY <1>5, <1>7
<1>9. Ascends(U)
    BY <1>5, <1>8
<1>10. PICK m \in Nat : m = Cardinality(U)
    BY <1>9 DEF Ascends
<1>11. PICK p : Ascending(p, U, m)
    BY <1>9, <1>10 DEF Ascends
<1>12. IsFiniteSet(T) /\ Cardinality(T) = m + 1
    <2>1. IsFiniteSet(U)
        BY <1>9 DEF Ascends
    <2>2. IsFiniteSet(U \cup {k}) /\ Cardinality(U \cup {k}) = Cardinality(U) + 1
        BY <1>7, <2>1, FS_AddElement
    <2> QED
        BY <1>7, <1>10, <2>2
<1> DEFINE q == [i \in 1..(m + 1) |-> IF i = m + 1 THEN k ELSE p[i]]
<1>13. \A i \in 1..(m + 1) : i = m + 1 \/ i \in 1..m
    OBVIOUS
<1>14. \A i \in 1..m : p[i] \in U /\ p[i] \in 1..j /\ i \in 1..(m + 1) /\ i # m + 1
    <2>1. p \in [1..m -> U]
        BY <1>11 DEF Ascending
    <2>2. \A i \in 1..m : i \in 1..(m + 1) /\ i # m + 1
        BY <1>10
    <2> QED
        BY <1>8, <2>1, <2>2
<1>15. q \in [1..(m + 1) -> T]
    BY <1>7, <1>13, <1>14
<1>16. q[m + 1] = k /\ \A i \in 1..m : q[i] = p[i]
    BY <1>14
<1>17. \A s \in T : \E i \in 1..(m + 1) : q[i] = s
    <2>1. ASSUME NEW s \in T
          PROVE  \E i \in 1..(m + 1) : q[i] = s
        <3>1. m + 1 \in 1..(m + 1)
            OBVIOUS
        <3> HIDE DEF q
        <3>2. CASE s = k
            BY <1>16, <3>1, <3>2
        <3>3. CASE s # k
            <4>1. s \in U
                BY <1>7, <3>3
            <4>2. PICK i \in 1..m : p[i] = s
                BY <1>11, <4>1 DEF Ascending
            <4> QED
                BY <1>14, <1>16, <4>2
        <3> QED
            BY <3>2, <3>3
    <2> QED
        BY <2>1
<1>18. ASSUME NEW a \in 1..(m + 1), NEW b \in 1..(m + 1), a < b
       PROVE  q[a] < q[b]
    <2>1. a \in 1..m /\ q[a] = p[a] /\ p[a] \in 1..j
        BY <1>14, <1>18
    <2>2. CASE b = m + 1
        BY <1>5, <1>16, <2>1, <2>2
    <2>3. CASE b # m + 1
        <3>1. b \in 1..m
            BY <2>3
        <3> HIDE DEF q
        <3> QED
            BY <1>11, <1>16, <1>18, <2>1, <3>1 DEF Ascending
    <2> QED
        BY <2>2, <2>3
<1> HIDE DEF q
<1>19. Ascending(q, T, m + 1)
    BY <1>15, <1>17, <1>18 DEF Ascending
<1> QED
    BY <1>3, <1>12, <1>19 DEF Ascends

\* What the sentences of a text are: spans one after the other, which together read each word.
Proper(S, sp) == sp \in Span /\ sp[1] \in S /\ sp[2] \in S /\ sp[1] <= sp[2]
In(i, sp) == sp[1] <= i /\ i <= sp[2]
Reads(spans, i) == \E k \in 1..Len(spans) : In(i, spans[k])
OneByOne(S, spans) ==
    /\ spans \in Seq(Span)
    /\ \A k \in 1..Len(spans) : Proper(S, spans[k])
    /\ \A j, k \in 1..Len(spans) : j < k => spans[j][2] < spans[k][1]

TextTyped == \E n \in 0..MaxText : DOMAIN text = 1..n

SolidTyped(S) == \E n \in 0..MaxText : S \in SUBSET (1..n)

LEMMA SolidIs == TextTyped => SolidTyped(Voice!Solid)
<1>1. ASSUME NEW n \in 0..MaxText, DOMAIN text = 1..n
      PROVE  Voice!Solid \in SUBSET (1..n)
    BY <1>1 DEF Voice!Solid
<1> QED
    BY <1>1 DEF TextTyped, SolidTyped

\* A set of positions that is not empty has a last and a first one.
LEMMA LastIs ==
    ASSUME NEW n \in Nat, NEW T \in SUBSET (1..n), T # {}
    PROVE  Voice!Max(T) \in T /\ \A i \in T : i <= Voice!Max(T)
<1>1. PICK m : m = Figures!Max(T) /\ m = Voice!Max(T)
    BY SameMax
<1>2. m \in T
    BY <1>1, MaxThere
<1> DEFINE Last(x) == \A y \in T : x >= y
<1>3. \E x \in T : Last(x)
    <2> DEFINE above == {n - i : i \in T}
    <2>1. above \in SUBSET Nat /\ above # {}
        <3>1. \A i \in T : n - i \in Nat
            OBVIOUS
        <3> QED
            BY <3>1
    <2>2. PICK a \in above : \A b \in above : a <= b
        BY <2>1, LeastThere
    <2>3. PICK x \in T : a = n - x
        OBVIOUS
    <2>4. \A y \in T : n - x <= n - y
        BY <2>2, <2>3
    <2>5. \A y \in T : x >= y
        BY <2>4
    <2> QED
        BY <2>5
<1>4. Last(m)
    <2>1. m = CHOOSE x \in T : Last(x)
        BY <1>1 DEF Voice!Max
    <2> QED
        BY <1>3, <2>1
<1> QED
    BY <1>1, <1>2, <1>4

LEMMA FirstIs ==
    ASSUME NEW n \in Nat, NEW T \in SUBSET (1..n), T # {}
    PROVE  Voice!Min(T) \in T /\ \A i \in T : Voice!Min(T) <= i
<1> DEFINE First(x) == \A y \in T : x <= y
<1>1. \E x \in T : First(x)
    <2>1. T \in SUBSET Nat
        OBVIOUS
    <2> QED
        BY <2>1, LeastThere
<1>2. Voice!Min(T) = CHOOSE x \in T : First(x)
    BY DEF Voice!Min
<1> QED
    BY <1>1, <1>2

Starts == {i \in DOMAIN text : Voice!Begins(i)}
Till(i) == Voice!Max({k \in Voice!Solid : k >= i /\ ~\E j \in Starts : i < j /\ j <= k})

LEMMA TillIs ==
    ASSUME TextTyped, NEW i \in Starts
    PROVE  /\ i \in Voice!Solid /\ Till(i) \in Voice!Solid /\ i <= Till(i)
           /\ \A j \in Starts : i < j => Till(i) < j
           /\ \A k \in Voice!Solid : i <= k /\ (~\E j \in Starts : i < j /\ j <= k) => k <= Till(i)
<1>1. PICK n \in Nat : DOMAIN text = 1..n
    BY PartsAssumption DEF TextTyped, Voice!PiecesAssumption
<1>2. PICK S : S = Voice!Solid /\ S \in SUBSET (1..n)
    BY <1>1 DEF Voice!Solid
<1>3. i \in S
    BY <1>2 DEF Starts, Voice!Begins
<1> DEFINE T == {k \in S : k >= i /\ ~\E j \in Starts : i < j /\ j <= k}
<1>4. T \in SUBSET (1..n)
    BY <1>2
<1>5. i \in T
    <2>1. i \in Int /\ i >= i /\ ~\E j \in Starts : i < j /\ j <= i
        <3>1. \A j \in Starts : j \in 1..n
            BY <1>1 DEF Starts
        <3>2. i \in 1..n
            BY <1>2, <1>3
        <3> QED
            BY <3>1, <3>2
    <2> QED
        BY <1>3, <2>1
<1>6. PICK m : m = Till(i) /\ m = Voice!Max(T)
    BY <1>2 DEF Till
<1>7. m \in T /\ \A k \in T : k <= m
    <2> HIDE DEF T
    <2> QED
        BY <1>4, <1>5, <1>6, LastIs
<1>8. m \in S /\ m >= i /\ \A j \in Starts : ~(i < j /\ j <= m)
    BY <1>7
<1>9. \A j \in Starts : j \in Int
    BY <1>1 DEF Starts
<1>10. m \in Int /\ i \in Int
    BY <1>2, <1>3, <1>8
<1>11. \A j \in Starts : i < j => m < j
    BY <1>8, <1>9, <1>10
<1>12. \A k \in S : k \in Int
    BY <1>2
<1>13. ASSUME NEW k \in S, i <= k, ~\E j \in Starts : i < j /\ j <= k
       PROVE  k <= m
    <2>1. k \in T
        BY <1>10, <1>12, <1>13
    <2> QED
        BY <1>7, <2>1
<1> QED
    BY <1>2, <1>3, <1>6, <1>8, <1>10, <1>11, <1>13

LEMMA SentencesAre ==
    ASSUME TextTyped
    PROVE  /\ OneByOne(Voice!Solid, Voice!Sentences)
           /\ \A i \in Voice!Solid : Reads(Voice!Sentences, i)
<1>1. PICK n \in Nat : DOMAIN text = 1..n /\ n <= MaxText
    BY PartsAssumption DEF TextTyped, Voice!PiecesAssumption
<1>2. PICK S : S = Voice!Solid /\ S \in SUBSET (1..n)
    BY <1>1 DEF Voice!Solid
<1>3. PICK B : B = Starts /\ B \in SUBSET (1..n)
    BY <1>1 DEF Starts
<1>4. Ascends(B)
    BY <1>3, AscendingExists
<1>5. PICK m \in Nat : m = Cardinality(B) /\ m = Voice!Cardinality(B)
    BY <1>4 DEF Ascends, Cardinality, Voice!Cardinality
<1> DEFINE Sorted(s) == \A a, b \in DOMAIN s : a < b => s[a] < s[b]
<1>6. PICK ord : ord = CHOOSE s \in Voice!SetToSeqs(B) : Sorted(s)
    OBVIOUS
<1>7. Voice!Sentences = [a \in DOMAIN ord |-> <<ord[a], Till(ord[a])>>]
    BY <1>3, <1>6 DEF Voice!Sentences, Starts, Till
<1>8. \A p : p \in Voice!SetToSeqs(B) <=> p \in [1..m -> B] /\ \A a, b \in 1..m : a # b => p[a] # p[b]
    BY <1>5 DEF Voice!SetToSeqs
<1>9. \E s \in Voice!SetToSeqs(B) : Sorted(s)
    <2>1. PICK p : Ascending(p, B, m)
        BY <1>4, <1>5 DEF Ascends
    <2>2. p \in [1..m -> B] /\ DOMAIN p = 1..m
        BY <2>1 DEF Ascending
    <2>3. ASSUME NEW a \in 1..m, NEW b \in 1..m, a # b
          PROVE  p[a] # p[b]
        <3>1. p[a] \in 1..n /\ p[b] \in 1..n
            BY <1>3, <2>2
        <3>2. a < b \/ b < a
            BY <2>3
        <3> QED
            BY <2>1, <3>1, <3>2 DEF Ascending
    <2>4. Sorted(p)
        BY <2>1, <2>2 DEF Ascending
    <2> QED
        BY <1>8, <2>2, <2>3, <2>4
<1>10. ord \in Voice!SetToSeqs(B) /\ Sorted(ord)
    <2> HIDE DEF Sorted
    <2> QED
        BY <1>6, <1>9
<1>11. ord \in [1..m -> B] /\ (\A a, b \in 1..m : a # b => ord[a] # ord[b]) /\ DOMAIN ord = 1..m
    BY <1>8, <1>10
<1>12. \A a, b \in 1..m : a < b => ord[a] < ord[b]
    BY <1>10, <1>11
<1>13. ASSUME NEW b \in B
       PROVE  \E a \in 1..m : ord[a] = b
    <2>1. ord \in Injection(1..m, B)
        BY <1>11 DEF Injection, IsInjective
    <2>2. Cardinality(1..m) = m /\ IsFiniteSet(B)
        BY <1>4, FS_Interval DEF Ascends
    <2>3. ord \in Surjection(1..m, B)
        BY <1>5, <2>1, <2>2, FS_Injection
    <2> QED
        BY <2>3 DEF Surjection
<1>14. PICK ss : ss = Voice!Sentences
    OBVIOUS
<1>15. \A b \in B : /\ b \in S /\ Till(b) \in S /\ b <= Till(b)
                    /\ \A j \in B : b < j => Till(b) < j
                    /\ \A k \in S : b <= k /\ (~\E j \in B : b < j /\ j <= k) => k <= Till(b)
    BY <1>2, <1>3, TillIs
<1>16. \A a \in 1..m : ord[a] \in B /\ ss[a] = <<ord[a], Till(ord[a])>>
    BY <1>7, <1>11, <1>14
<1>17. \A i \in S : i \in 1..MaxText /\ i \in Int
    BY <1>1, <1>2, PartsAssumption DEF Voice!PiecesAssumption
<1>18. ASSUME NEW a \in 1..m
       PROVE  Proper(S, ss[a]) /\ ss[a][1] = ord[a] /\ ss[a][2] = Till(ord[a])
    <2>1. PICK b \in B : b = ord[a] /\ ss[a] = <<b, Till(b)>>
        BY <1>16
    <2>2. PICK t : t = Till(b)
        OBVIOUS
    <2>3. b \in S /\ t \in S /\ b <= t
        BY <1>15, <2>2
    <2>4. b \in 1..MaxText /\ t \in 1..MaxText
        BY <1>17, <2>3
    <2> QED
        BY <2>1, <2>2, <2>3, <2>4 DEF Proper, Span, Voice!Span
<1>19. DOMAIN ss = 1..m
    BY <1>7, <1>11, <1>14
<1>20. ss \in Seq(Span) /\ Len(ss) = m
    <2>1. \A a \in 1..m : ss[a] \in Span
        BY <1>18 DEF Proper
    <2>2. ss = [a \in 1..m |-> ss[a]]
        BY <1>7, <1>14, <1>19
    <2> QED
        BY <2>1, <2>2
<1>21. ASSUME NEW a \in 1..m, NEW b \in 1..m, a < b
       PROVE  ss[a][2] < ss[b][1]
    BY <1>12, <1>15, <1>16, <1>18, <1>21
<1>22. ASSUME NEW i \in S
       PROVE  Reads(ss, i)
    <2> DEFINE D == {j \in B : j <= i}
    <2>1. D # {}
        <3>1. PICK f \in S : \A j \in S : f <= j
            <4>1. S \in SUBSET Nat /\ S # {}
                BY <1>2, <1>22
            <4> QED
                BY <4>1, LeastThere
        <3>2. Voice!Begins(f)
            <4>1. {j \in S : j < f} = {}
                BY <1>17, <3>1
            <4> QED
                BY <1>2, <3>1, <4>1 DEF Voice!Begins
        <3>3. f \in B /\ f <= i
            BY <1>1, <1>2, <1>3, <3>1, <3>2 DEF Starts
        <3> QED
            BY <3>3
    <2>2. D \in SUBSET (1..n)
        BY <1>3
    <2>3. PICK d : d = Voice!Max(D)
        OBVIOUS
    <2>4. d \in D /\ \A j \in D : j <= d
        <3> HIDE DEF D
        <3> QED
            BY <2>1, <2>2, <2>3, LastIs
    <2>5. d \in B /\ d <= i
        BY <2>4
    <2>6. ~\E j \in B : d < j /\ j <= i
        <3>1. \A j \in B : j <= i => j <= d
            BY <2>4
        <3>2. \A j \in B : j \in Int
            BY <1>3
        <3> HIDE DEF D
        <3> QED
            BY <2>5, <3>1, <3>2
    <2>7. i <= Till(d)
        BY <1>15, <2>5, <2>6
    <2>8. PICK a \in 1..m : ord[a] = d
        BY <1>13, <2>5
    <2>9. In(i, ss[a])
        BY <1>18, <2>5, <2>7, <2>8 DEF In
    <2> QED
        BY <1>20, <2>9 DEF Reads
<1>23. OneByOne(S, ss)
    BY <1>18, <1>20, <1>21 DEF OneByOne
<1> QED
    BY <1>2, <1>14, <1>22, <1>23

-----------------------------------------------------------------------------
(* Pieces: what was read, and what is left *)

\* Whether the nth part reads a place of the text; part 0 is the one that is being joined.
Spot(ps, cur, n, i) == IF n = 0 THEN Reads(cur, i) ELSE Reads(ps[n], i)
Done(ps, cur, i) == \E n \in 0..Len(ps) : Spot(ps, cur, n, i)
NoneTwice(ps, cur) ==
    \A i \in Int : \A m, n \in 0..Len(ps) : Spot(ps, cur, m, i) /\ Spot(ps, cur, n, i) => m = n
PartsTyped(ps, cur) == ps \in Seq(Seq(Span)) /\ cur \in Seq(Span)

\* Everything done is before a span.
Ahead(ps, cur, sp) == \A i \in Int : Done(ps, cur, i) => i < sp[1]

\* The parts read one span more.
OneMore(ps, cur, ps2, cur2, sp) ==
    /\ PartsTyped(ps2, cur2)
    /\ \A i \in Int : Done(ps2, cur2, i) <=> Done(ps, cur, i) \/ In(i, sp)
    /\ NoneTwice(ps2, cur2)

LEMMA ReadsMore ==
    ASSUME NEW s \in Seq(Span), NEW sp \in Span, NEW i
    PROVE  Reads(Append(s, sp), i) <=> Reads(s, i) \/ In(i, sp)
<1>1. PICK n \in Nat : n = Len(s)
    OBVIOUS
<1>2. PICK t : t = Append(s, sp)
    OBVIOUS
<1>3. Len(t) = n + 1 /\ t[n + 1] = sp /\ \A k \in 1..n : t[k] = s[k]
    BY <1>1, <1>2
<1>4. \A k : k \in 1..(n + 1) <=> k \in 1..n \/ k = n + 1
    BY <1>1
<1> QED
    BY <1>1, <1>2, <1>3, <1>4 DEF Reads

LEMMA ReadsOne ==
    ASSUME NEW sp, NEW i
    PROVE  /\ Reads(<<sp>>, i) <=> In(i, sp)
           /\ ~Reads(<<>>, i)
BY DEF Reads

LEMMA SpotsJoined ==
    ASSUME NEW ps, NEW cur, NEW sp \in Span, PartsTyped(ps, cur), NoneTwice(ps, cur), Ahead(ps, cur, sp)
    PROVE  OneMore(ps, cur, ps, Append(cur, sp), sp)
<1>1. PICK c : c = Append(cur, sp)
    OBVIOUS
<1>2. PartsTyped(ps, c) /\ Len(ps) \in Nat
    BY <1>1 DEF PartsTyped
<1>3. \A i : Reads(c, i) <=> Reads(cur, i) \/ In(i, sp)
    BY <1>1, ReadsMore DEF PartsTyped
<1>4. ASSUME NEW i \in Int, NEW n \in 0..Len(ps)
      PROVE  Spot(ps, c, n, i) <=> Spot(ps, cur, n, i) \/ (n = 0 /\ In(i, sp))
    BY <1>3 DEF Spot
<1>5. 0 \in 0..Len(ps)
    BY <1>2
<1>6. \A i \in Int : Done(ps, c, i) <=> Done(ps, cur, i) \/ In(i, sp)
    BY <1>4, <1>5 DEF Done
<1>7. NoneTwice(ps, c)
    <2>1. SUFFICES ASSUME NEW i \in Int, NEW m \in 0..Len(ps), NEW n \in 0..Len(ps),
                          Spot(ps, c, m, i), Spot(ps, c, n, i)
                   PROVE  m = n
        BY DEF NoneTwice
    <2>2. CASE In(i, sp)
        <3>1. ~Done(ps, cur, i)
            <4>1. sp[1] \in Int /\ sp[1] <= i
                BY <2>2, SpanTypes DEF In
            <4> QED
                BY <4>1 DEF Ahead
        <3> QED
            BY <1>4, <2>1, <3>1 DEF Done
    <2>3. CASE ~In(i, sp)
        BY <1>4, <2>1, <2>3 DEF NoneTwice
    <2> QED
        BY <2>2, <2>3
<1> QED
    BY <1>1, <1>2, <1>6, <1>7 DEF OneMore

\* One part more at the end.
LEMMA SpotAppended ==
    ASSUME NEW ps, NEW cur, NEW cur2, PartsTyped(ps, cur), NEW p \in Seq(Span), NEW i,
           NEW N \in Nat, N = Len(ps)
    PROVE  /\ Len(Append(ps, p)) = N + 1
           /\ Spot(Append(ps, p), cur2, 0, i) <=> Reads(cur2, i)
           /\ \A n \in 1..N : Spot(Append(ps, p), cur2, n, i) <=> Spot(ps, cur, n, i)
           /\ Spot(Append(ps, p), cur2, N + 1, i) <=> Reads(p, i)
<1>1. ps \in Seq(Seq(Span))
    BY DEF PartsTyped
<1>2. PICK qs : qs = Append(ps, p)
    OBVIOUS
<1>3. Len(qs) = N + 1 /\ qs[N + 1] = p /\ \A n \in 1..N : qs[n] = ps[n] /\ n # 0
    BY <1>1, <1>2
<1>4. N + 1 # 0
    OBVIOUS
<1> QED
    BY <1>2, <1>3, <1>4 DEF Spot

LEMMA SpotsClosed ==
    ASSUME NEW ps, NEW cur, NEW sp \in Span, PartsTyped(ps, cur), NoneTwice(ps, cur), Ahead(ps, cur, sp)
    PROVE  OneMore(ps, cur, Append(ps, cur), <<sp>>, sp)
<1>1. PICK qs, c, N : qs = Append(ps, cur) /\ c = <<sp>> /\ N = Len(ps)
    OBVIOUS
<1>2. PartsTyped(qs, c) /\ N \in Nat /\ cur \in Seq(Span)
    BY <1>1 DEF PartsTyped
<1>3. ASSUME NEW i \in Int
      PROVE  /\ Len(qs) = N + 1
             /\ Spot(qs, c, 0, i) <=> In(i, sp)
             /\ \A n \in 1..N : Spot(qs, c, n, i) <=> Spot(ps, cur, n, i)
             /\ Spot(qs, c, N + 1, i) <=> Spot(ps, cur, 0, i)
    <2>1. Reads(c, i) <=> In(i, sp)
        BY <1>1, ReadsOne
    <2>2. Spot(ps, cur, 0, i) <=> Reads(cur, i)
        BY DEF Spot
    <2> QED
        BY <1>1, <1>2, <2>1, <2>2, SpotAppended
<1>4. Len(qs) = N + 1
    BY <1>3
<1>5. \A n : /\ n \in 0..(N + 1) <=> n = 0 \/ n \in 1..N \/ n = N + 1
             /\ n \in 0..N <=> n = 0 \/ n \in 1..N
             /\ n \in 1..N => n # 0 /\ n # N + 1
    BY <1>2
<1>6. N + 1 # 0
    BY <1>2
<1>7. \A i \in Int : Done(qs, c, i) <=> Done(ps, cur, i) \/ In(i, sp)
    BY <1>1, <1>3, <1>4, <1>5 DEF Done
<1>8. NoneTwice(qs, c)
    <2>1. SUFFICES ASSUME NEW i \in Int, NEW m \in 0..(N + 1), NEW n \in 0..(N + 1),
                          Spot(qs, c, m, i), Spot(qs, c, n, i)
                   PROVE  m = n
        BY <1>4 DEF NoneTwice
    <2>2. In(i, sp) => ~Done(ps, cur, i)
        <3>1. In(i, sp) => sp[1] \in Int /\ sp[1] <= i
            BY SpanTypes DEF In
        <3> QED
            BY <3>1 DEF Ahead
    <2>3. \A k \in 0..N : Spot(ps, cur, k, i) => Done(ps, cur, i)
        BY <1>1 DEF Done
    <2>4. \A j, k \in 0..N : Spot(ps, cur, j, i) /\ Spot(ps, cur, k, i) => j = k
        BY <1>1 DEF NoneTwice
    <2> QED
        BY <1>3, <1>5, <1>6, <2>1, <2>2, <2>3, <2>4
<1> QED
    BY <1>1, <1>2, <1>7, <1>8 DEF OneMore

LEMMA SpotsCut ==
    ASSUME NEW ps, NEW cur, NEW sp \in Span, PartsTyped(ps, cur), NoneTwice(ps, cur), Ahead(ps, cur, sp)
    PROVE  OneMore(ps, cur, Append(ps, <<sp>>), cur, sp)
<1>1. PICK qs, N : qs = Append(ps, <<sp>>) /\ N = Len(ps)
    OBVIOUS
<1>2. PartsTyped(qs, cur) /\ N \in Nat /\ <<sp>> \in Seq(Span)
    BY <1>1 DEF PartsTyped
<1>3. ASSUME NEW i \in Int
      PROVE  /\ Len(qs) = N + 1
             /\ Spot(qs, cur, 0, i) <=> Spot(ps, cur, 0, i)
             /\ \A n \in 1..N : Spot(qs, cur, n, i) <=> Spot(ps, cur, n, i)
             /\ Spot(qs, cur, N + 1, i) <=> In(i, sp)
    <2>1. Reads(<<sp>>, i) <=> In(i, sp)
        BY ReadsOne
    <2>2. Spot(ps, cur, 0, i) <=> Reads(cur, i)
        BY DEF Spot
    <2> QED
        BY <1>1, <1>2, <2>1, <2>2, SpotAppended
<1>4. Len(qs) = N + 1
    BY <1>3
<1>5. \A n : /\ n \in 0..(N + 1) <=> n \in 0..N \/ n = N + 1
             /\ n \in 0..N <=> n = 0 \/ n \in 1..N
             /\ n \in 0..N => n # N + 1
    BY <1>2
<1>6. ASSUME NEW i \in Int, NEW n \in 0..N
      PROVE  Spot(qs, cur, n, i) <=> Spot(ps, cur, n, i)
    BY <1>3, <1>5
<1>7. \A i \in Int : Done(qs, cur, i) <=> Done(ps, cur, i) \/ In(i, sp)
    BY <1>1, <1>3, <1>4, <1>5, <1>6 DEF Done
<1>8. NoneTwice(qs, cur)
    <2>1. SUFFICES ASSUME NEW i \in Int, NEW m \in 0..(N + 1), NEW n \in 0..(N + 1),
                          Spot(qs, cur, m, i), Spot(qs, cur, n, i)
                   PROVE  m = n
        BY <1>4 DEF NoneTwice
    <2>2. In(i, sp) => ~Done(ps, cur, i)
        <3>1. In(i, sp) => sp[1] \in Int /\ sp[1] <= i
            BY SpanTypes DEF In
        <3> QED
            BY <3>1 DEF Ahead
    <2>3. \A k \in 0..N : Spot(ps, cur, k, i) => Done(ps, cur, i)
        BY <1>1 DEF Done
    <2>4. \A j, k \in 0..N : Spot(ps, cur, j, i) /\ Spot(ps, cur, k, i) => j = k
        BY <1>1 DEF NoneTwice
    <2> QED
        BY <1>3, <1>5, <1>6, <2>1, <2>2, <2>3, <2>4
<1> QED
    BY <1>1, <1>2, <1>7, <1>8 DEF OneMore

\* The last part, when nothing is left.
LEMMA SpotsEnd ==
    ASSUME NEW ps, NEW cur, PartsTyped(ps, cur), NoneTwice(ps, cur)
    PROVE  /\ PartsTyped(Append(ps, cur), <<>>) /\ NoneTwice(Append(ps, cur), <<>>)
           /\ \A i \in Int : Done(Append(ps, cur), <<>>, i) <=> Done(ps, cur, i)
<1>1. PICK qs, N : qs = Append(ps, cur) /\ N = Len(ps)
    OBVIOUS
<1>2. PartsTyped(qs, <<>>) /\ N \in Nat /\ cur \in Seq(Span)
    BY <1>1 DEF PartsTyped
<1>3. ASSUME NEW i \in Int
      PROVE  /\ Len(qs) = N + 1
             /\ ~Spot(qs, <<>>, 0, i)
             /\ \A n \in 1..N : Spot(qs, <<>>, n, i) <=> Spot(ps, cur, n, i)
             /\ Spot(qs, <<>>, N + 1, i) <=> Spot(ps, cur, 0, i)
    <2>1. ~Reads(<<>>, i)
        BY ReadsOne
    <2>2. Spot(ps, cur, 0, i) <=> Reads(cur, i)
        BY DEF Spot
    <2> QED
        BY <1>1, <1>2, <2>1, <2>2, SpotAppended
<1>4. Len(qs) = N + 1
    BY <1>3
<1>5. \A n : /\ n \in 0..(N + 1) <=> n = 0 \/ n \in 1..N \/ n = N + 1
             /\ n \in 0..N <=> n = 0 \/ n \in 1..N
             /\ n \in 1..N => n # 0 /\ n # N + 1
    BY <1>2
<1>6. \A i \in Int : Done(qs, <<>>, i) <=> Done(ps, cur, i)
    BY <1>1, <1>3, <1>4, <1>5 DEF Done
<1>7. NoneTwice(qs, <<>>)
    <2>1. SUFFICES ASSUME NEW i \in Int, NEW m \in 0..(N + 1), NEW n \in 0..(N + 1),
                          Spot(qs, <<>>, m, i), Spot(qs, <<>>, n, i)
                   PROVE  m = n
        BY <1>4 DEF NoneTwice
    <2>2. \A j, k \in 0..N : Spot(ps, cur, j, i) /\ Spot(ps, cur, k, i) => j = k
        BY <1>1 DEF NoneTwice
    <2> QED
        BY <1>3, <1>5, <2>1, <2>2
<1> QED
    BY <1>1, <1>2, <1>6, <1>7

-----------------------------------------------------------------------------
(* Pieces: every word is read, or still to come *)

\* The sentence being cut and those not read yet, in their order.
Unread(S, sen, rst) ==
    /\ OneByOne(S, rst)
    /\ sen \in SUBSET Span /\ \A a, b \in sen : a = b
    /\ \A sp \in sen : Proper(S, sp) /\ \A k \in 1..Len(rst) : sp[2] < rst[k][1]
Covered(S, ps, cur, sen, rst) ==
    \A i \in S : Done(ps, cur, i) \/ (\E sp \in sen : In(i, sp)) \/ Reads(rst, i)
Behind(ps, cur, sen, rst) ==
    /\ \A sp \in sen : Ahead(ps, cur, sp)
    /\ \A k \in 1..Len(rst) : Ahead(ps, cur, rst[k])
Whole(S, ps, cur, sen, rst) ==
    /\ PartsTyped(ps, cur) /\ NoneTwice(ps, cur)
    /\ Unread(S, sen, rst) /\ Covered(S, ps, cur, sen, rst) /\ Behind(ps, cur, sen, rst)

LEMMA WholeBegins ==
    ASSUME NEW S, NEW rst, OneByOne(S, rst), \A i \in S : Reads(rst, i)
    PROVE  Whole(S, <<>>, <<>>, {}, rst)
<1>1. (\A i : ~Spot(<<>>, <<>>, 0, i)) /\ \A n \in 0..Len(<<>>) : n = 0
    <2>1. \A i : ~Reads(<<>>, i)
        BY ReadsOne
    <2>2. Len(<<>>) = 0
        OBVIOUS
    <2> QED
        BY <2>1, <2>2 DEF Spot
<1>2. \A i : ~Done(<<>>, <<>>, i)
    BY <1>1 DEF Done
<1>3. PartsTyped(<<>>, <<>>) /\ NoneTwice(<<>>, <<>>)
    BY <1>1 DEF PartsTyped, NoneTwice
<1>4. Behind(<<>>, <<>>, {}, rst)
    BY <1>2 DEF Behind, Ahead
<1> QED
    BY <1>3, <1>4 DEF Whole, Unread, Covered

LEMMA WholeTakes ==
    ASSUME NEW S, NEW ps, NEW cur, NEW rst, rst # <<>>, Whole(S, ps, cur, {}, rst)
    PROVE  Whole(S, ps, cur, {Head(rst)}, Tail(rst))
<1>1. OneByOne(S, rst) /\ rst \in Seq(Span)
    BY DEF Whole, Unread, OneByOne
<1>2. PICK n \in Nat : n + 1 = Len(rst)
    <2>1. Len(rst) \in Nat /\ Len(rst) # 0
        BY <1>1, EmptySeq
    <2>2. Len(rst) - 1 \in Nat /\ (Len(rst) - 1) + 1 = Len(rst)
        BY <2>1
    <2> QED
        BY <2>2
<1>3. PICK h, t : h = Head(rst) /\ t = Tail(rst)
    OBVIOUS
<1>4. h = rst[1] /\ h \in Span /\ t \in Seq(Span) /\ Len(t) = n /\ \A k \in 1..n : t[k] = rst[k + 1]
    BY <1>1, <1>2, <1>3
<1>5. \A k \in 1..n : k + 1 \in 1..(n + 1) /\ 1 < k + 1
    BY <1>2
<1>6. 1 \in 1..(n + 1) /\ \A k \in 1..(n + 1) : k = 1 \/ (k - 1 \in 1..n /\ (k - 1) + 1 = k)
    BY <1>2
<1>7. Unread(S, {h}, t)
    <2>1. \A k \in 1..n : Proper(S, t[k]) /\ h[2] < t[k][1]
        BY <1>1, <1>2, <1>4, <1>5, <1>6 DEF OneByOne
    <2>2. ASSUME NEW j \in 1..n, NEW k \in 1..n, j < k
          PROVE  t[j][2] < t[k][1]
        <3>1. j + 1 < k + 1
            BY <2>2
        <3>2. t[j] = rst[j + 1] /\ t[k] = rst[k + 1]
            BY <1>4
        <3>3. rst[j + 1][2] < rst[k + 1][1]
            BY <1>1, <1>2, <1>5, <3>1 DEF OneByOne
        <3> QED
            BY <3>2, <3>3
    <2>3. Proper(S, h)
        BY <1>1, <1>2, <1>4, <1>6 DEF OneByOne
    <2>4. OneByOne(S, t)
        BY <1>4, <2>1, <2>2 DEF OneByOne
    <2> QED
        BY <1>4, <2>1, <2>3, <2>4 DEF Unread
<1>8. \A i : Reads(rst, i) => In(i, h) \/ Reads(t, i)
    <2>1. SUFFICES ASSUME NEW i, NEW k \in 1..(n + 1), In(i, rst[k])
                   PROVE  In(i, h) \/ Reads(t, i)
        BY <1>2 DEF Reads
    <2>2. CASE k = 1
        BY <1>4, <2>1, <2>2
    <2>3. CASE k # 1
        <3>1. k - 1 \in 1..n /\ t[k - 1] = rst[k]
            BY <1>4, <1>6, <2>3
        <3> QED
            BY <1>4, <2>1, <3>1 DEF Reads
    <2> QED
        BY <2>2, <2>3
<1>9. Covered(S, ps, cur, {h}, t)
    BY <1>8 DEF Whole, Covered
<1>10. Behind(ps, cur, {h}, t)
    <2>1. Behind(ps, cur, {}, rst)
        BY DEF Whole
    <2>2. Ahead(ps, cur, h)
        BY <1>2, <1>4, <1>6, <2>1 DEF Behind
    <2>3. \A k \in 1..n : Ahead(ps, cur, t[k])
        BY <1>2, <1>4, <1>5, <2>1 DEF Behind
    <2> QED
        BY <1>4, <2>2, <2>3 DEF Behind
<1> QED
    BY <1>3, <1>7, <1>9, <1>10 DEF Whole

\* A span that is read leaves the sentences after it.
LEMMA WholeReads ==
    ASSUME NEW S, NEW ps, NEW cur, NEW sp, NEW rst, NEW ps2, NEW cur2,
           Whole(S, ps, cur, {sp}, rst), OneMore(ps, cur, ps2, cur2, sp), S \in SUBSET Int
    PROVE  Whole(S, ps2, cur2, {}, rst)
<1>1. Proper(S, sp) /\ sp[2] \in Int /\ OneByOne(S, rst) /\ \A k \in 1..Len(rst) : sp[2] < rst[k][1]
    BY SpanTypes DEF Whole, Unread, Proper
<1>2. \A k \in 1..Len(rst) : rst[k][1] \in Int
    BY <1>1 DEF OneByOne, Proper
<1>3. Covered(S, ps2, cur2, {}, rst)
    BY DEF Whole, Covered, OneMore
<1>4. Behind(ps2, cur2, {}, rst)
    <2>1. ASSUME NEW k \in 1..Len(rst), NEW i \in Int, Done(ps2, cur2, i)
          PROVE  i < rst[k][1]
        <3>1. Done(ps, cur, i) \/ In(i, sp)
            BY <2>1 DEF OneMore
        <3>2. Done(ps, cur, i) => i < rst[k][1]
            BY DEF Whole, Behind, Ahead
        <3>3. In(i, sp) => i < rst[k][1]
            BY <1>1, <1>2 DEF In
        <3> QED
            BY <3>1, <3>2, <3>3
    <2> QED
        BY <2>1 DEF Behind, Ahead
<1>5. Unread(S, {}, rst)
    BY <1>1 DEF Unread
<1> QED
    BY <1>3, <1>4, <1>5 DEF Whole, OneMore

\* A span that is cut in two, between which there is no word, is read up to the cut.
Halves(S, sp, a, b) ==
    /\ Proper(S, a) /\ Proper(S, b)
    /\ a[1] = sp[1] /\ b[2] = sp[2] /\ a[2] < b[1]
    /\ \A i \in S : i <= a[2] \/ b[1] <= i

LEMMA WholeCuts ==
    ASSUME NEW S \in SUBSET Int, NEW ps, NEW cur, NEW sp, NEW rst, NEW a, NEW b,
           Whole(S, ps, cur, {sp}, rst), Halves(S, sp, a, b)
    PROVE  /\ Whole(S, Append(ps, <<a>>), cur, {b}, rst)
           /\ Append(ps, <<a>>) \in Seq(Seq(Span))
<1>1. /\ Proper(S, sp) /\ OneByOne(S, rst) /\ (\A k \in 1..Len(rst) : sp[2] < rst[k][1])
      /\ PartsTyped(ps, cur) /\ NoneTwice(ps, cur) /\ Ahead(ps, cur, sp)
    BY DEF Whole, Unread, Behind
<1>2. /\ a \in Span /\ b \in Span /\ a[1] \in Int /\ a[2] \in Int /\ b[1] \in Int /\ b[2] \in Int
      /\ a[1] <= a[2] /\ b[1] <= b[2]
    BY SpanTypes DEF Halves, Proper
<1>3. Ahead(ps, cur, a)
    BY <1>1 DEF Halves, Ahead
<1>4. PICK ps2 : ps2 = Append(ps, <<a>>)
    OBVIOUS
<1>5. OneMore(ps, cur, ps2, cur, a)
    BY <1>1, <1>2, <1>3, <1>4, SpotsCut
<1>6. Unread(S, {b}, rst)
    BY <1>1, <1>2 DEF Unread, Halves
<1>7. Covered(S, ps2, cur, {b}, rst)
    <2>1. SUFFICES ASSUME NEW i \in S
                   PROVE  Done(ps2, cur, i) \/ In(i, b) \/ Reads(rst, i)
        BY DEF Covered
    <2>2. Done(ps, cur, i) \/ In(i, sp) \/ Reads(rst, i)
        BY DEF Whole, Covered
    <2>3. In(i, sp) => In(i, a) \/ In(i, b)
        BY DEF Halves, In
    <2>4. Done(ps2, cur, i) <=> Done(ps, cur, i) \/ In(i, a)
        BY <1>5 DEF OneMore
    <2> QED
        BY <2>2, <2>3, <2>4
<1>8. ASSUME NEW i \in Int, Done(ps2, cur, i)
      PROVE  i < b[1] /\ \A k \in 1..Len(rst) : i < rst[k][1]
    <2>1. \A k \in 1..Len(rst) : rst[k][1] \in Int
        BY <1>1 DEF OneByOne, Proper
    <2>2. Done(ps, cur, i) \/ In(i, a)
        BY <1>5, <1>8 DEF OneMore
    <2>3. Done(ps, cur, i) => i < sp[1] /\ \A k \in 1..Len(rst) : i < rst[k][1]
        BY DEF Whole, Behind, Ahead
    <2>4. In(i, a) => i <= a[2]
        BY DEF In
    <2>5. a[2] < b[1] /\ b[1] <= b[2] /\ b[2] = sp[2] /\ sp[1] = a[1]
        BY <1>2 DEF Halves
    <2>6. i < b[1]
        BY <1>2, <2>2, <2>3, <2>4, <2>5
    <2>7. \A k \in 1..Len(rst) : sp[2] < rst[k][1]
        BY <1>1
    <2>8. \A k \in 1..Len(rst) : i < rst[k][1]
        BY <1>2, <2>1, <2>2, <2>3, <2>4, <2>5, <2>7
    <2> QED
        BY <2>6, <2>8
<1>9. Behind(ps2, cur, {b}, rst)
    BY <1>8 DEF Behind, Ahead
<1> QED
    BY <1>4, <1>5, <1>6, <1>7, <1>9 DEF Whole, OneMore, PartsTyped

LEMMA WholeEnds ==
    ASSUME NEW S \in SUBSET Int, NEW ps, NEW cur, NEW rst, Whole(S, ps, cur, {}, rst), rst = <<>>
    PROVE  Whole(S, Append(ps, cur), <<>>, {}, rst)
<1>1. PartsTyped(ps, cur) /\ NoneTwice(ps, cur)
    BY DEF Whole
<1>2. PICK ps2 : ps2 = Append(ps, cur)
    OBVIOUS
<1>3. /\ PartsTyped(ps2, <<>>) /\ NoneTwice(ps2, <<>>)
      /\ \A i \in Int : Done(ps2, <<>>, i) <=> Done(ps, cur, i)
    BY <1>1, <1>2, SpotsEnd
<1>4. Covered(S, ps2, <<>>, {}, rst)
    BY <1>3 DEF Whole, Covered
<1>5. Behind(ps2, <<>>, {}, rst)
    BY <1>3 DEF Whole, Behind, Ahead
<1>6. Unread(S, {}, rst)
    BY DEF Whole
<1> QED
    BY <1>2, <1>3, <1>4, <1>5, <1>6 DEF Whole

\* When nothing is left, the parts are the whole text.
LEMMA WholeIsRead ==
    ASSUME NEW S \in SUBSET Int, NEW ps, Whole(S, ps, <<>>, {}, <<>>)
    PROVE  /\ \A i \in S : \E n \in 1..Len(ps) : Reads(ps[n], i)
           /\ \A i \in Int : \A m, n \in 1..Len(ps) : Reads(ps[m], i) /\ Reads(ps[n], i) => m = n
<1>1. PICK N \in Nat : N = Len(ps)
    BY DEF Whole, PartsTyped
<1>2. \A i : ~Reads(<<>>, i)
    BY ReadsOne
<1>3. \A n : n \in 0..N <=> n = 0 \/ n \in 1..N
    BY <1>1
<1>4. \A n \in 1..N : n # 0
    BY <1>1
<1>5. \A i \in S : \E n \in 1..N : Reads(ps[n], i)
    BY <1>1, <1>2, <1>3 DEF Whole, Covered, Done, Spot
<1>6. \A i \in Int : \A m, n \in 1..N : Reads(ps[m], i) /\ Reads(ps[n], i) => m = n
    BY <1>1, <1>3, <1>4 DEF Whole, NoneTwice, Spot
<1> QED
    BY <1>1, <1>5, <1>6

-----------------------------------------------------------------------------
(* Pieces: the steps *)

LimitIs == Limit \in Nat /\ Limit > 0 /\ MaxText \in Nat

LEMMA LimitHolds == LimitIs
BY PartsAssumption DEF LimitIs, Voice!PiecesAssumption

\* A sentence that is too long is cut between two words.
LEMMA CutHalves ==
    ASSUME TextTyped, NEW sp, Proper(Voice!Solid, sp), Voice!Length(sp) > Limit
    PROVE  \E a, b : /\ a = Voice!Strip(sp[1], Voice!CutAt(sp) - 1) /\ b = Voice!Strip(Voice!CutAt(sp), sp[2])
                     /\ Halves(Voice!Solid, sp, a, b) /\ Voice!Length(a) \in 1..Limit
<1>1. PICK n \in Nat : DOMAIN text = 1..n /\ n <= MaxText
    BY LimitHolds DEF TextTyped, LimitIs
<1>2. PICK S : S = Voice!Solid /\ S \in SUBSET (1..n)
    BY <1>1 DEF Voice!Solid
<1>3. PICK x \in S, y \in S : x = sp[1] /\ y = sp[2] /\ x <= y /\ sp \in Span /\ x \in 1..n /\ y \in 1..n
    BY <1>2 DEF Proper
<1>4. y >= x + Limit
    BY <1>3, LimitHolds, SpanTypes DEF LimitIs
<1>5. PICK c \in Int : c = Voice!CutAt(sp) /\ x < c /\ c <= x + Limit
    <2> DEFINE blanks == {i \in (x + 1)..(x + Limit - 1) : text[i] = " "}
    <2>1. Voice!CutAt(sp) = IF blanks = {} THEN x + Limit ELSE Voice!Max(blanks)
        BY <1>3 DEF Voice!CutAt
    <2>0. x \in Int /\ Limit \in Int /\ x < x + Limit
        BY <1>3, LimitHolds DEF LimitIs
    <2>2. CASE blanks = {}
        <3>1. Voice!CutAt(sp) = x + Limit
            BY <2>1, <2>2
        <3> QED
            BY <2>0, <3>1
    <2>3. CASE blanks # {}
        <3>0. ASSUME NEW i \in (x + 1)..(x + Limit - 1)
              PROVE  i \in 1..n /\ i \in Int /\ x < i /\ i <= x + Limit
            <4>1. x \in Int /\ y \in Int /\ 1 <= x /\ y <= n
                BY <1>1, <1>3
            <4> QED
                BY <1>1, <1>4, <2>0, <4>1
        <3>1. blanks \in SUBSET (1..n)
            BY <3>0
        <3>2. \A i \in blanks : i \in Int /\ x < i /\ i <= x + Limit
            BY <3>0
        <3> HIDE DEF blanks
        <3>3. Voice!Max(blanks) \in blanks
            BY <2>3, <3>1, LastIs
        <3> QED
            BY <2>1, <2>3, <3>2, <3>3
    <2> QED
        BY <2>2, <2>3
<1>6. c <= y
    BY <1>3, <1>4, <1>5, LimitHolds DEF LimitIs
<1> DEFINE A == {i \in S : x <= i /\ i <= c - 1}
           B == {i \in S : c <= i /\ i <= y}
<1>7. A \in SUBSET (1..n) /\ B \in SUBSET (1..n) /\ x \in A /\ y \in B
    <2>1. \A i \in S : i \in 1..n
        BY <1>2
    <2>2. A \in SUBSET (1..n) /\ B \in SUBSET (1..n)
        BY <2>1
    <2>3. x \in Int /\ y \in Int /\ x <= x /\ x <= c - 1 /\ y <= y
        BY <1>3, <1>5
    <2>4. x \in A
        BY <2>3
    <2>5. y \in B
        BY <1>6, <2>3
    <2> QED
        BY <2>2, <2>4, <2>5
<1>8. PICK a1, a2, b1, b2 : /\ a1 = Voice!Min(A) /\ a2 = Voice!Max(A) /\ b1 = Voice!Min(B) /\ b2 = Voice!Max(B)
    OBVIOUS
<1>9. Voice!Strip(x, c - 1) = <<a1, a2>> /\ Voice!Strip(c, y) = <<b1, b2>>
    BY <1>2, <1>8 DEF Voice!Strip
<1>10. /\ a1 \in A /\ a2 \in A /\ b1 \in B /\ b2 \in B
       /\ \A i \in A : a1 <= i /\ i <= a2
       /\ \A i \in B : b1 <= i /\ i <= b2
    <2> HIDE DEF A, B
    <2> QED
        BY <1>7, <1>8, FirstIs, LastIs
<1>11. \A i \in S : i \in 1..n /\ i \in Int
    BY <1>2
<1>12. a1 = x /\ b2 = y
    BY <1>3, <1>7, <1>10
<1>13. a1 \in S /\ a2 \in S /\ b1 \in S /\ b2 \in S /\ a1 <= a2 /\ a2 <= c - 1 /\ c <= b1 /\ b1 <= b2
    BY <1>7, <1>10
<1>14. \A i \in S : i <= a2 \/ b1 <= i
    <2>1. ASSUME NEW i \in S
          PROVE  i <= a2 \/ b1 <= i
        <3>1. i \in Int /\ a2 \in Int /\ b1 \in Int /\ x <= a2 /\ b1 <= y
            BY <1>11, <1>12, <1>13
        <3>2. CASE i < x
            BY <1>3, <3>1, <3>2
        <3>3. CASE y < i
            BY <1>3, <3>1, <3>3
        <3>4. CASE x <= i /\ i <= c - 1
            BY <1>10, <3>4
        <3>5. CASE c <= i /\ i <= y
            BY <1>10, <3>5
        <3> QED
            BY <1>3, <1>5, <3>1, <3>2, <3>3, <3>4, <3>5
    <2> QED
        BY <2>1
<1> HIDE DEF A, B
<1>15. \A i \in S : i \in 1..MaxText
    BY <1>1, <1>11, LimitHolds DEF LimitIs
<1>16. PICK a, b : a = <<a1, a2>> /\ b = <<b1, b2>>
    OBVIOUS
<1>17. a \in Span /\ b \in Span
    BY <1>13, <1>15, <1>16 DEF Span, Voice!Span
<1>18. Halves(S, sp, a, b)
    <2>1. a2 \in Int /\ b1 \in Int
        BY <1>11, <1>13
    <2> QED
        BY <1>3, <1>5, <1>12, <1>13, <1>14, <1>16, <1>17, <2>1 DEF Halves, Proper
<1>19. Voice!Length(a) \in 1..Limit
    <2>1. Voice!Length(a) = a2 - a1 + 1
        BY <1>16, <1>17, SpanTypes
    <2>2. a2 \in Int /\ a1 \in Int
        BY <1>11, <1>13
    <2> QED
        BY <1>5, <1>12, <1>13, <2>1, <2>2, LimitHolds DEF LimitIs
<1> QED
    BY <1>2, <1>3, <1>5, <1>9, <1>16, <1>18, <1>19

\* How long each part is.
Sized(ps, cur) ==
    /\ \A n \in 1..Len(ps) : Voice!Size(ps[n]) \in 1..Limit
    /\ cur # <<>> => Voice!Size(cur) \in 1..Limit

LEMMA SizedMore ==
    ASSUME NEW ps \in Seq(Seq(Span)), NEW cur, NEW p \in Seq(Span), NEW cur2,
           Sized(ps, cur), Voice!Size(p) \in 1..Limit,
           cur2 # <<>> => Voice!Size(cur2) \in 1..Limit
    PROVE  Sized(Append(ps, p), cur2)
<1>1. PICK N \in Nat : N = Len(ps)
    OBVIOUS
<1>2. PICK qs : qs = Append(ps, p)
    OBVIOUS
<1>3. Len(qs) = N + 1 /\ qs[N + 1] = p /\ \A n \in 1..N : qs[n] = ps[n]
    BY <1>1, <1>2
<1>4. \A n : n \in 1..(N + 1) => n \in 1..N \/ n = N + 1
    BY <1>1
<1> QED
    BY <1>1, <1>2, <1>3, <1>4 DEF Sized

VoiceInv ==
    /\ TextTyped
    /\ Whole(Voice!Solid, parts, current, sentence, rest)
    /\ Sized(parts, current)
    /\ said \in 0..Len(parts) /\ speech \in {"going", "over", "failed"}
    /\ speech = "over" => Voice!Split

VoiceStep == part = "voice" /\ Voice!Next /\ UNCHANGED <<vars, researchVars, document>>

LEMMA VoiceInits ==
    ASSUME JobInit
    PROVE  VoiceInv
<1>1. PICK n \in 0..MaxText : \E given \in [1..n -> Voice!Chars] : Voice!InitOf(given)
    <2>1. CASE part = "voice"
        BY <2>1 DEF JobInit, Voice!Init
    <2>2. CASE part # "voice"
        <3>1. Voice!InitOf(<<>>) /\ 0 \in 0..MaxText
            BY <2>2, LimitHolds DEF JobInit, LimitIs
        <3>2. <<>> \in [1..0 -> Voice!Chars]
            OBVIOUS
        <3> QED
            BY <3>1, <3>2
    <2> QED
        BY <2>1, <2>2
<1>2. PICK given \in [1..n -> Voice!Chars] : Voice!InitOf(given)
    BY <1>1
<1>3. TextTyped
    BY <1>2 DEF TextTyped, Voice!InitOf
<1>4. PICK S, ss : S = Voice!Solid /\ ss = Voice!Sentences /\ OneByOne(S, ss) /\ \A i \in S : Reads(ss, i)
    BY <1>3, SentencesAre
<1>5. Whole(S, <<>>, <<>>, {}, ss)
    BY <1>4, WholeBegins
<1>6. Sized(<<>>, <<>>)
    BY DEF Sized
<1>7. said \in 0..Len(parts)
    BY <1>2 DEF Voice!InitOf
<1> QED
    BY <1>2, <1>3, <1>4, <1>5, <1>6, <1>7 DEF VoiceInv, Voice!InitOf

LEMMA VoiceSame ==
    ASSUME VoiceInv, UNCHANGED voiceVars
    PROVE  VoiceInv'
BY DEF VoiceInv, TextTyped, Voice!Solid, Voice!Split, voiceVars

LEMMA VoiceSteps ==
    ASSUME VoiceInv, Voice!Next
    PROVE  VoiceInv'
<1>1. PICK S : S = Voice!Solid /\ S \in SUBSET Int
    <2>1. Voice!Solid \in SUBSET Int
        BY SolidIs, LimitHolds DEF VoiceInv, SolidTyped, LimitIs
    <2> QED
        BY <2>1
<1>2. TextTyped /\ Whole(S, parts, current, sentence, rest) /\ Sized(parts, current)
    BY <1>1 DEF VoiceInv
<1>3. parts \in Seq(Seq(Span)) /\ current \in Seq(Span) /\ PartsTyped(parts, current)
    BY <1>2 DEF Whole, PartsTyped
<1>4. text' = text
    BY DEF Voice!Next, Voice!Take, Voice!Cut, Voice!Join, Voice!Close, Voice!Say
<1>5. TextTyped' /\ Voice!Solid' = S
    BY <1>1, <1>2, <1>4 DEF TextTyped, Voice!Solid
<1>6. ASSUME NEW n \in Nat, NEW p, n = Len(parts), p \in Seq(Span), said' = said, speech' = speech,
             parts' = Append(parts, p), speech # "over"
      PROVE  said' \in 0..Len(parts') /\ speech' \in {"going", "over", "failed"} /\ (speech' = "over" => Voice!Split')
    <2>1. Len(parts') = n + 1 /\ said \in 0..n
        BY <1>3, <1>6 DEF VoiceInv
    <2> QED
        BY <1>6, <2>1 DEF VoiceInv
<1>7. PICK N \in Nat : N = Len(parts)
    BY <1>3
<1>8. CASE Voice!Take
    <2>1. sentence = {} /\ rest # <<>> /\ sentence' = {Head(rest)} /\ rest' = Tail(rest)
          /\ current' = current /\ parts' = parts /\ said' = said /\ speech' = speech
        BY <1>8 DEF Voice!Take
    <2>2. Whole(S, parts', current', sentence', rest')
        BY <1>2, <2>1, WholeTakes
    <2>3. speech # "over"
        BY <2>1 DEF VoiceInv, Voice!Split
    <2> QED
        BY <1>2, <1>5, <2>1, <2>2, <2>3 DEF VoiceInv
<1>9. ASSUME NEW sp \in sentence, Voice!Cut(sp) \/ Voice!Join(sp)
      PROVE  VoiceInv'
    <2>1. sentence = {sp} /\ Proper(S, sp) /\ sp \in Span /\ Ahead(parts, current, sp) /\ NoneTwice(parts, current)
        BY <1>2, <1>9 DEF Whole, Unread, Behind, Proper
    <2>2. Whole(S, parts, current, {sp}, rest)
        BY <1>2, <2>1
    <2>3. speech # "over"
        BY <1>9 DEF VoiceInv, Voice!Split
    <2>4. CASE Voice!Cut(sp)
        <3>1. Voice!Length(sp) > Limit
              /\ parts' = Append(parts, <<Voice!Strip(sp[1], Voice!CutAt(sp) - 1)>>)
              /\ sentence' = {Voice!Strip(Voice!CutAt(sp), sp[2])}
              /\ rest' = rest /\ current' = current /\ said' = said /\ speech' = speech
            BY <2>4 DEF Voice!Cut
        <3>2. PICK a, b : /\ a = Voice!Strip(sp[1], Voice!CutAt(sp) - 1) /\ b = Voice!Strip(Voice!CutAt(sp), sp[2])
                          /\ Halves(S, sp, a, b) /\ Voice!Length(a) \in 1..Limit
            BY <1>1, <1>2, <2>1, <3>1, CutHalves
        <3>3. Whole(S, Append(parts, <<a>>), current, {b}, rest)
            BY <1>1, <2>2, <3>2, WholeCuts
        <3>4. a \in Span /\ <<a>> \in Seq(Span)
            BY <3>2 DEF Halves, Proper
        <3>5. Voice!Size(<<a>>) \in 1..Limit
            BY <3>2, <3>4, SizeOne
        <3>6. Sized(Append(parts, <<a>>), current)
            BY <1>2, <1>3, <3>4, <3>5, SizedMore DEF Sized
        <3>7. Whole(S, parts', current', sentence', rest') /\ Sized(parts', current')
            BY <3>1, <3>2, <3>3, <3>6
        <3>8. said' \in 0..Len(parts') /\ speech' \in {"going", "over", "failed"} /\ (speech' = "over" => Voice!Split')
            BY <1>6, <1>7, <2>3, <3>1, <3>2, <3>4
        <3> QED
            BY <1>5, <3>7, <3>8 DEF VoiceInv
    <2>5. CASE Voice!Join(sp)
        <3>1. Voice!Length(sp) <= Limit /\ sentence' = {} /\ rest' = rest /\ said' = said /\ speech' = speech
            BY <2>5 DEF Voice!Join
        <3>2. Voice!Length(sp) \in 1..Limit
            <4>1. Voice!Length(sp) \in Int /\ Voice!Length(sp) >= 1
                BY <2>1, SpanTypes DEF Proper
            <4> QED
                BY <3>1, <4>1, LimitHolds DEF LimitIs
        <3>3. CASE current # <<>> /\ Voice!Size(current) + 1 + Voice!Length(sp) > Limit
            <4>1. parts' = Append(parts, current) /\ current' = <<sp>>
                BY <2>5, <3>3 DEF Voice!Join
            <4>2. OneMore(parts, current, Append(parts, current), <<sp>>, sp)
                BY <1>3, <2>1, SpotsClosed
            <4>3. Whole(S, parts', current', {}, rest)
                BY <1>1, <2>2, <4>1, <4>2, WholeReads
            <4>4. Voice!Size(<<sp>>) \in 1..Limit
                BY <2>1, <3>2, SizeOne
            <4>5. Voice!Size(current) \in 1..Limit
                BY <1>2, <3>3 DEF Sized
            <4>6. Sized(Append(parts, current), <<sp>>)
                BY <1>2, <1>3, <4>4, <4>5, SizedMore
            <4>7. said' \in 0..Len(parts') /\ speech' \in {"going", "over", "failed"} /\ (speech' = "over" => Voice!Split')
                BY <1>3, <1>6, <1>7, <2>3, <3>1, <4>1
            <4> QED
                BY <1>5, <3>1, <4>1, <4>3, <4>6, <4>7 DEF VoiceInv
        <3>4. CASE ~(current # <<>> /\ Voice!Size(current) + 1 + Voice!Length(sp) > Limit)
            <4>1. current' = Append(current, sp) /\ parts' = parts
                BY <2>5, <3>4 DEF Voice!Join
            <4>2. OneMore(parts, current, parts, Append(current, sp), sp)
                BY <1>3, <2>1, SpotsJoined
            <4>3. Whole(S, parts', current', {}, rest)
                BY <1>1, <2>2, <4>1, <4>2, WholeReads
            <4>4. Voice!Size(Append(current, sp)) \in 1..Limit
                <5>1. Voice!Size(current) \in Int
                      /\ Voice!Size(Append(current, sp)) = Voice!Size(current) + Voice!Length(sp) + 1
                    BY <1>3, <2>1, SizeMore
                <5>2. CASE current = <<>>
                    BY <3>2, <5>1, <5>2, SizeNone
                <5>3. CASE current # <<>>
                    BY <1>2, <3>2, <3>4, <5>1, <5>3, LimitHolds DEF Sized, LimitIs
                <5> QED
                    BY <5>2, <5>3
            <4>5. Sized(parts', current')
                BY <1>2, <4>1, <4>4 DEF Sized
            <4>6. said' \in 0..Len(parts') /\ speech' \in {"going", "over", "failed"} /\ speech' # "over"
                BY <2>3, <3>1, <4>1 DEF VoiceInv
            <4> QED
                BY <1>5, <3>1, <4>3, <4>5, <4>6 DEF VoiceInv
        <3> QED
            BY <3>3, <3>4
    <2> QED
        BY <1>9, <2>4, <2>5
<1>10. CASE Voice!Close
    <2>1. rest = <<>> /\ sentence = {} /\ current # <<>> /\ parts' = Append(parts, current) /\ current' = <<>>
          /\ rest' = rest /\ sentence' = {} /\ said' = said /\ speech' = speech
        BY <1>10 DEF Voice!Close
    <2>2. Whole(S, Append(parts, current), <<>>, {}, rest)
        BY <1>1, <1>2, <2>1, WholeEnds
    <2>3. Sized(Append(parts, current), <<>>)
        BY <1>2, <1>3, <2>1, SizedMore DEF Sized
    <2>4. speech # "over"
        BY <2>1 DEF VoiceInv, Voice!Split
    <2>5. said' \in 0..Len(parts') /\ speech' \in {"going", "over", "failed"} /\ (speech' = "over" => Voice!Split')
        BY <1>3, <1>6, <1>7, <2>1, <2>4
    <2> QED
        BY <1>5, <2>1, <2>2, <2>3, <2>5 DEF VoiceInv
<1>11. CASE Voice!Say
    <2>1. UNCHANGED <<rest, sentence, current, parts>> /\ Voice!Split
        BY <1>11 DEF Voice!Say
    <2>2. Voice!Split'
        BY <2>1 DEF Voice!Split
    <2>3. said' \in 0..Len(parts')
        <3>1. said \in 0..N /\ (said' = said \/ (said # N /\ said' = said + 1))
            BY <1>7, <1>11 DEF Voice!Say, VoiceInv
        <3>2. said' \in 0..N
            BY <3>1
        <3> QED
            BY <1>7, <2>1, <3>2
    <2>4. speech' \in {"going", "over", "failed"}
        BY <1>11 DEF Voice!Say
    <2>5. Whole(S, parts', current', sentence', rest') /\ Sized(parts', current')
        BY <1>2, <2>1
    <2> QED
        BY <1>5, <2>2, <2>3, <2>4, <2>5 DEF VoiceInv
<1> QED
    BY <1>8, <1>9, <1>10, <1>11 DEF Voice!Next

LEMMA VoiceAlways == JobSpec => []VoiceInv
<1>1. JobInit => VoiceInv
    BY VoiceInits
<1>2. VoiceInv /\ [JobNext]_jobVars => VoiceInv'
    <2> SUFFICES ASSUME VoiceInv, [JobNext]_jobVars
                 PROVE  VoiceInv'
        OBVIOUS
    <2>1. CASE Voice!Next
        BY <2>1, VoiceSteps
    <2>2. CASE UNCHANGED voiceVars
        BY <2>2, VoiceSame
    <2> QED
        BY <2>1, <2>2 DEF JobNext, jobVars
<1> QED
    BY <1>1, <1>2, PTL DEF JobSpec

\* The places a part reads, as the property tells them.
LEMMA PositionsAre ==
    ASSUME NEW p \in Seq(Span), NEW i
    PROVE  i \in Voice!Positions(p) <=> i \in Int /\ Reads(p, i)
<1>1. \A k \in 1..Len(p) : p[k][1] \in Int /\ p[k][2] \in Int
    <2>1. \A k \in 1..Len(p) : p[k] \in Span
        OBVIOUS
    <2> QED
        BY <2>1, SpanTypes
<1>2. DOMAIN p = 1..Len(p)
    OBVIOUS
<1>3. i \in Voice!Positions(p) <=> \E k \in 1..Len(p) : i \in p[k][1]..p[k][2]
    BY <1>2 DEF Voice!Positions
<1>4. \A k \in 1..Len(p) : i \in p[k][1]..p[k][2] <=> i \in Int /\ In(i, p[k])
    BY <1>1 DEF In
<1> QED
    BY <1>3, <1>4 DEF Reads

LEMMA AloudIs ==
    ASSUME VoiceInv
    PROVE  ReadAloudWhole
<1>1. PICK S : S = Voice!Solid /\ S \in SUBSET Int /\ Whole(S, parts, current, sentence, rest)
    <2>1. Voice!Solid \in SUBSET Int
        BY SolidIs, LimitHolds DEF VoiceInv, SolidTyped, LimitIs
    <2> QED
        BY <2>1 DEF VoiceInv
<1>2. parts \in Seq(Seq(Span)) /\ DOMAIN parts = 1..Len(parts) /\ \A n \in 1..Len(parts) : parts[n] \in Seq(Span)
    BY <1>1 DEF Whole, PartsTyped
<1>3. Voice!PiecesFit
    BY <1>2 DEF Voice!PiecesFit, VoiceInv, Sized
<1>4. ASSUME speech = "over"
      PROVE  /\ S \subseteq UNION {Voice!Positions(parts[n]) : n \in DOMAIN parts}
             /\ \A m, n \in DOMAIN parts : m # n => Voice!Positions(parts[m]) \cap Voice!Positions(parts[n]) = {}
    <2>1. rest = <<>> /\ sentence = {} /\ current = <<>>
        BY <1>4 DEF VoiceInv, Voice!Split
    <2>2. Whole(S, parts, <<>>, {}, <<>>)
        BY <1>1, <2>1
    <2>3. /\ \A i \in S : \E n \in 1..Len(parts) : Reads(parts[n], i)
          /\ \A i \in Int : \A m, n \in 1..Len(parts) : Reads(parts[m], i) /\ Reads(parts[n], i) => m = n
        BY <1>1, <2>2, WholeIsRead
    <2>4. \A n \in 1..Len(parts) : \A i : i \in Voice!Positions(parts[n]) <=> i \in Int /\ Reads(parts[n], i)
        BY <1>2, PositionsAre
    <2>5. ASSUME NEW i \in S
          PROVE  i \in UNION {Voice!Positions(parts[n]) : n \in DOMAIN parts}
        <3>1. PICK n \in 1..Len(parts) : Reads(parts[n], i)
            BY <2>3
        <3>2. i \in Voice!Positions(parts[n])
            BY <1>1, <2>4, <3>1
        <3> QED
            BY <1>2, <3>2
    <2>6. ASSUME NEW m \in 1..Len(parts), NEW n \in 1..Len(parts), m # n, NEW i,
                 i \in Voice!Positions(parts[m]), i \in Voice!Positions(parts[n])
          PROVE  FALSE
        BY <2>3, <2>4, <2>6
    <2> QED
        BY <1>2, <2>5, <2>6
<1>5. Voice!ReadWhole
    BY <1>1, <1>4 DEF Voice!ReadWhole
<1> QED
    BY <1>3, <1>5 DEF ReadAloudWhole

\* speech.py 56-57 and 76-77: of a text of any length no part is longer than PIECE_CHARS, whatever that is,
\* and once it is read to the end every word of it was read, none twice.
THEOREM ReadAloudWholeHolds == JobSpec => []ReadAloudWhole
<1>1. VoiceInv => ReadAloudWhole
    BY AloudIs
<1> QED
    BY <1>1, VoiceAlways, PTL

-----------------------------------------------------------------------------
(* The types of every part *)

Clients == {"waiting", "heard", "connected", "gone", "ended", "timed out"}

\* An answer is on one of the instance's routes, and its client at one of the places told of it.
ClientInv == part = "answer" => route \in Routes /\ client \in Clients

LEMMA ClientSteps ==
    ASSUME ClientInv, part = "answer", Next
    PROVE  route \in Routes /\ route' = route /\ client' \in Clients
<1>1. route \in Routes /\ client \in Clients
    BY DEF ClientInv
<1>2. CASE UNCHANGED answerVars
    BY <1>1, <1>2 DEF answerVars
<1>3. CASE CreateJob \/ StartDesk \/ AskChat \/ StartTurn
    BY <1>1, <1>3 DEF CreateJob, StartDesk, AskChat, StartTurn, Begin, Clients
<1>4. CASE Hear \/ Unheard \/ Resume
    BY <1>1, <1>4 DEF Hear, Unheard, Resume, Clients
<1>5. CASE Conclude
    BY <1>1, <1>5 DEF Conclude, EndStream, Speak, Accepted, Abandoned, Clients
<1>6. CASE MapEnd
    BY <1>1, <1>6 DEF MapEnd
<1>7. CASE Send
    BY <1>1, <1>7 DEF Send, Clients
<1>8. CASE Finish \/ HangUp
    BY <1>1, <1>8 DEF Finish, HangUp, Clients
<1>9. ASSUME NEW i \in gen.batch, Follow(i) \/ Map(i)
      PROVE  route' = route /\ client' \in Clients
    BY <1>1, <1>9 DEF Follow, Map, Pass, Outcome, Result, Clients
<1>10. CASE Settle \/ Slow
    BY <1>1, <1>10 DEF Settle, Remember, Release, RecordingFails, Slow
<1> QED
    BY <1>1, <1>2, <1>3, <1>4, <1>5, <1>6, <1>7, <1>8, <1>9, <1>10 DEF Next, Respond, TimePasses

LEMMA ClientAlways == JobSpec => []ClientInv
<1>1. JobInit => ClientInv
    BY DEF JobInit, Init, InitOf, ClientInv, Clients
<1>2. ClientInv /\ [JobNext]_jobVars => ClientInv'
    <2> SUFFICES ASSUME ClientInv, [JobNext]_jobVars
                 PROVE  ClientInv'
        OBVIOUS
    <2>1. part' = part
        BY DEF JobNext, jobVars
    <2>2. CASE part = "answer" /\ Next
        BY <2>1, <2>2, ClientSteps DEF ClientInv
    <2>3. CASE UNCHANGED vars
        BY <2>1, <2>3 DEF ClientInv, vars, answerVars
    <2> QED
        BY <2>2, <2>3 DEF JobNext, jobVars
<1> QED
    BY <1>1, <1>2, PTL DEF JobSpec

LEMMA AnswerTyped ==
    ASSUME AnswerInv, RecordInv, ClientInv, part = "answer"
    PROVE  TypeOK
<1>1. ReadTypeOK
    BY DEF AnswerInv, ReadInv
<1>2. route \in Routes /\ client \in Clients
    BY DEF ClientInv
<1>3. RecordTypes
    BY DEF RecordInv
<1>4. Len(due) <= 1
    <2>1. CASE route \in Chat
        BY <2>1 DEF RecordInv, SentTypes
    <2>2. CASE route \notin Chat
        <3>1. due = <<>>
            BY <2>2 DEF AnswerInv
        <3> QED
            BY <3>1
    <2> QED
        BY <2>1, <2>2
<1>5. recording.at \in {"none", "remember", "release", "over", "failed"}
    BY <1>3 DEF RecordTypes
<1> QED
    BY <1>1, <1>2, <1>3, <1>4, <1>5 DEF TypeOK, RecordTypes, Clients

LEMMA VoiceTyped ==
    ASSUME VoiceInv
    PROVE  Voice!TypeOK
<1>1. /\ rest \in Seq(Span) /\ current \in Seq(Span) /\ parts \in Seq(Seq(Span))
      /\ sentence \in SUBSET Span /\ \A a, b \in sentence : a = b
    BY DEF VoiceInv, Whole, Unread, OneByOne, PartsTyped
<1>2. Voice!Cardinality(sentence) = Cardinality(sentence)
    BY DEF Cardinality, Voice!Cardinality
<1>3. Cardinality(sentence) <= 1
    <2>1. CASE sentence = {}
        BY <2>1, FS_EmptySet
    <2>2. CASE sentence # {}
        <3>1. PICK sp : sentence = {sp}
            BY <1>1, <2>2
        <3>2. Cardinality({sp}) = 1
            BY FS_Singleton
        <3> QED
            BY <3>1, <3>2
    <2> QED
        BY <2>1, <2>2
<1> QED
    BY <1>1, <1>2, <1>3 DEF VoiceInv, Voice!TypeOK, Span

\* Every variable of the four parts keeps its type, for any constants.
THEOREM TypesOKHolds == JobSpec => []TypesOK
<1>1. AnswerInv /\ RecordInv /\ ClientInv /\ RunInv /\ VoiceInv /\ Figures!TypeOK => TypesOK
    BY AnswerTyped, VoiceTyped DEF RunInv, TypesOK
<1> QED
    BY <1>1, AnswerAlways, RecordAlways, ClientAlways, RunAlways, VoiceAlways, FiguresAlways, PTL

=============================================================================
