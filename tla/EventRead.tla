----------------------------- MODULE EventRead -----------------------------
(***************************************************************************)
(* How the API reads a job's event stream: events.read is a generator that *)
(* polls the stream for entries after the last one it yielded and, when it *)
(* finds none, looks whether more can come.  The worker appends to the     *)
(* stream and publishes the outcome before it marks the job finished; the  *)
(* stream and the status hash of a job expire, each on its own.            *)
(*                                                                         *)
(* Grain: one action is one broker command, or one event handed to the     *)
(* caller.  An event is its type; its entry id is its index in `log`.      *)
(***************************************************************************)
EXTENDS Naturals, Sequences

CONSTANTS
    Events,       \* the types of event a job publishes before its outcome
    ReadCount,    \* READ_COUNT: how many entries one read returns at most
    MaxLog,       \* how many events are published in all
    Expiring      \* the records of the job that may expire

TERMINAL == {"done", "error"}
FINISHED == {"done", "failed"}

ASSUME ReadAssumption ==
    /\ Events \cap TERMINAL = {}
    /\ ReadCount \in Nat \ {0}
    /\ MaxLog \in Nat
    /\ Expiring \subseteq {"stream", "hash"}

VARIABLES
    log,       \* the events published, those that expired included
    first,     \* the oldest event the stream still has; there is no stream past the end of log
    status,    \* the status in the hash job:{id}: queued or running is "going"; "gone" when expired
    gen,       \* the generator
    late,      \* the deadline given to the read has passed
    got,       \* history, the ids yielded since the read was opened
    expired    \* history, the records that have expired

records == <<log, first, status, expired>>
readVars == <<records, gen, late, got>>

Ids == 1..MaxLog

\* from: where the read was opened; after: the last id yielded; batch: what was read, not yielded.
Generator == [at : {"closed", "read", "status", "exists", "yield", "over"}, from : 0..MaxLog,
              after : 0..MaxLog, batch : SUBSET Ids, finishing : BOOLEAN]

Outcomes == {i \in 1..Len(log) : log[i] \in TERMINAL}
Left == {i \in 1..Len(log) : i >= first /\ i > gen.after}
ExistsStream == first <= Len(log)

ReadInit ==
    /\ log = <<>>
    /\ first = 1
    /\ status = "going"
    /\ gen = [at |-> "closed", from |-> 0, after |-> 0, batch |-> {}, finishing |-> FALSE]
    /\ late = FALSE
    /\ got = <<>>
    /\ expired = {}

-----------------------------------------------------------------------------
(* The worker and the clock *)

Publish ==
    /\ Outcomes = {}
    /\ Len(log) < MaxLog
    /\ \E e \in Events \cup TERMINAL : log' = Append(log, e)
    /\ UNCHANGED <<first, status, expired, gen, late, got>>

\* Mutant: a job is marked finished before its outcome is published.
MarkAnyTime ==
    /\ status = "going"
    /\ status' \in FINISHED
    /\ UNCHANGED <<log, first, expired, gen, late, got>>

\* Running while a worker has it, finished once its outcome was published; a mark makes a hash that
\* had expired anew.
Mark ==
    /\ status \notin FINISHED
    /\ status' = IF Outcomes = {} THEN "going"
                 ELSE IF \E i \in Outcomes : log[i] = "done" THEN "done" ELSE "failed"
    /\ status' # status
    /\ UNCHANGED <<log, first, expired, gen, late, got>>

\* A job delivered once too often after its outcome is told that it was abandoned.
Abandon ==
    /\ Outcomes # {}
    /\ Len(log) < MaxLog
    /\ log' = Append(log, "error")
    /\ UNCHANGED <<first, status, expired, gen, late, got>>

\* EVENTS_TTL_S after its latest event, or its latest mark.
Expire ==
    /\ \/ "stream" \in Expiring /\ ExistsStream /\ first' = Len(log) + 1
          /\ expired' = expired \cup {"stream"} /\ UNCHANGED status
       \/ "hash" \in Expiring /\ status # "gone" /\ status' = "gone"
          /\ expired' = expired \cup {"hash"} /\ UNCHANGED first
    /\ UNCHANGED <<log, gen, late, got>>

Deadline ==
    /\ gen.at \notin {"closed", "over"}
    /\ ~late
    /\ late' = TRUE
    /\ UNCHANGED <<records, gen, got>>

-----------------------------------------------------------------------------
(* events.read *)

\* A read from the start, or after the id of an event the caller has seen.
Open(after) ==
    /\ gen' = [at |-> "read", from |-> after, after |-> after, batch |-> {}, finishing |-> FALSE]
    /\ got' = <<>>
    /\ late' = FALSE
    /\ UNCHANGED records

\* Mutant: the deadline only bounds how long a read blocks.
ReadOn ==
    /\ gen.at = "read"
    /\ gen' = IF Left = {} THEN [gen EXCEPT !.at = IF gen.finishing THEN "over" ELSE "status"]
              ELSE [gen EXCEPT !.at = "yield", !.batch = Left]
    /\ UNCHANGED <<records, late, got>>

\* The deadline, else XREAD: a batch; or nothing, which ends the read if the job was over before.
Read ==
    /\ gen.at = "read"
    /\ gen' = IF late THEN [gen EXCEPT !.at = "over"]
              ELSE IF Left = {} THEN [gen EXCEPT !.at = IF gen.finishing THEN "over" ELSE "status"]
              ELSE [gen EXCEPT !.at = "yield",
                               !.batch = {i \in Left : i <= gen.after + ReadCount
                                                    \/ i < first + ReadCount}]
    /\ UNCHANGED <<records, late, got>>

\* Mutant: no last read once the job is known finished.
StatusEnds ==
    /\ gen.at = "status"
    /\ gen' = [gen EXCEPT !.at = IF status \in FINISHED \cup {"gone"} THEN "over" ELSE "read"]
    /\ UNCHANGED <<records, late, got>>

\* _over: HGET of the job's status; a stream never read from is not looked for.
Status ==
    /\ gen.at = "status"
    /\ gen' = IF status \in FINISHED \cup {"gone"}
              THEN [gen EXCEPT !.at = "read", !.finishing = TRUE]
              ELSE [gen EXCEPT !.at = IF gen.after = 0 THEN "read" ELSE "exists"]
    /\ UNCHANGED <<records, late, got>>

\* _over: EXISTS of the stream.
Exists ==
    /\ gen.at = "exists"
    /\ gen' = [gen EXCEPT !.at = "read", !.finishing = ~ExistsStream]
    /\ UNCHANGED <<records, late, got>>

\* Mutant: the next read starts where the last one did.
YieldAgain(i) ==
    /\ gen.at = "yield"
    /\ i \in gen.batch
    /\ \A j \in gen.batch : i <= j
    /\ gen' = [gen EXCEPT !.batch = @ \ {i},
                          !.at = IF log[i] \in TERMINAL THEN "over"
                                 ELSE IF gen.batch = {i} THEN "read" ELSE "yield"]
    /\ got' = Append(got, i)
    /\ UNCHANGED <<records, late>>

\* The next event of the batch is handed to the caller, who comes back for more.
Yield(i) ==
    /\ gen.at = "yield"
    /\ i \in gen.batch
    /\ \A j \in gen.batch : i <= j
    /\ gen' = [gen EXCEPT !.after = i, !.batch = @ \ {i},
                          !.at = IF log[i] \in TERMINAL THEN "over"
                                 ELSE IF gen.batch = {i} THEN "read" ELSE "yield"]
    /\ got' = Append(got, i)
    /\ UNCHANGED <<records, late>>

World == Publish \/ Mark \/ Abandon \/ Expire
Poll == Read \/ Status \/ Exists

-----------------------------------------------------------------------------
(* Properties *)

ReadTypeOK ==
    /\ log \in Seq(Events \cup TERMINAL) /\ Len(log) <= MaxLog
    /\ first \in 1..MaxLog + 1
    /\ status \in {"going", "gone"} \cup FINISHED
    /\ gen \in Generator
    /\ late \in BOOLEAN
    /\ got \in Seq(Ids)
    /\ expired \subseteq Expiring

\* queue/events.py 47: "events after entry id `after`, as they arrive": a read yields every event
\* in order, once, and skips none but those that have expired.
InOrderOnce ==
    /\ \A n \in DOMAIN got : got[n] > gen.from + n - 1
    /\ \A m, n \in DOMAIN got : m < n => got[m] < got[n]
    /\ first = 1 => \A n \in DOMAIN got : got[n] = gen.from + n

\* queue/events.py 47-49: a read that ends gave the job's outcome, had reached its deadline, was
\* opened past the outcome, or lost records that expired: never merely because the job was seen
\* finished before its last events were read.
EndsForAReason ==
    gen.at = "over" =>
        \/ got # <<>> /\ log[got[Len(got)]] \in TERMINAL
        \/ late
        \/ \E i \in Outcomes : i <= gen.from
        \/ expired # {}

=============================================================================
