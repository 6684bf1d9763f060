------------------------------- MODULE Backup -------------------------------
(***************************************************************************)
(* services/backup/backup.sh: one dump after another, each a dump of the   *)
(* database and a tar of AnythingLLM's storage, whose SQLite file is being *)
(* written meanwhile; the run may fail or be killed at any command, and    *)
(* compose starts it again.                                                *)
(*                                                                         *)
(* Grain: one action is one command, a copy one page at a time.  Files are *)
(* named after the run that wrote them, for their stamp and their mtime    *)
(* order them alike.  What tar and pg_dump read of the rest is left out.   *)
(***************************************************************************)
EXTENDS Integers, FiniteSets, FiniteSetsExt

CONSTANTS
    Keep,        \* BACKUP_KEEP
    DbTries,     \* DB_TRIES
    MaxRuns,     \* how many dumps are begun
    MaxWrites,   \* how often AnythingLLM writes a page while one dump copies
    Day,         \* the moments of a day
    DumpAt,      \* 03:00
    Slowness     \* how many moments may pass while the next dump is worked out

BackupAssumption ==
    /\ {Keep, DbTries, MaxRuns, Day} \subseteq Nat \ {0} /\ MaxWrites \in Nat
    /\ DumpAt \in 0..Day - 1
    /\ Slowness \in 0..Day - DumpAt   \* it takes less than there is from 03:00 to midnight

Pages == {1, 2}

VARIABLES
    run,          \* which dump this is
    at,           \* the command it is at
    n,            \* the copies of the SQLite file it has tried
    partials,     \* the *.partial files on disk: their kind and the run that began them
    dumps, tars,  \* the runs whose files are on disk
    db,           \* db[p]: how often page p was written since the copying began
    mtime,        \* its mtime: a write in the same tick of the clock leaves it
    before,       \* the mtime read before the copies
    copy, check,  \* the pages of the two copies, -1 when not yet copied
    clock,        \* the time, in moments since some midnight
    sched,        \* now, next and today, as they were read
    held,         \* history, every content the file had since the copying began
    everDumped, everTarred,  \* history, the runs whose files were put in place
    broken        \* history, how many runs ended between the two renames

files == <<partials, dumps, tars, everDumped, everTarred>>
sqlite == <<db, mtime, held>>
copies == <<n, before, copy, check>>
times == <<clock, sched>>
vars == <<run, at, files, sqlite, copies, times, broken>>

Uncopied == [p \in Pages |-> -1]
Fresh == [p \in Pages |-> 0]

Init ==
    /\ run = 1 /\ at = "pg_dump"
    /\ partials = {} /\ dumps = {} /\ tars = {} /\ everDumped = {} /\ everTarred = {}
    /\ db = Fresh /\ mtime = 0 /\ held = {Fresh}
    /\ n = 0 /\ before = 0 /\ copy = Uncopied /\ check = Uncopied
    /\ clock = 0 /\ sched = [now |-> 0, next |-> 0, today |-> 0]
    /\ broken = 0

-----------------------------------------------------------------------------
(* dump *)

\* Mutant: pg_dump writes the file itself.
PgDumpFinal ==
    /\ at = "pg_dump"
    /\ dumps' = dumps \cup {run} /\ everDumped' = everDumped \cup {run}
    /\ at' = "stat"
    /\ n' = 1
    /\ UNCHANGED <<run, partials, tars, everTarred, sqlite, before, copy, check, times, broken>>

\* The SQLite file is there, and pg_dump writes its partial; or it fails half way, see Fail.
PgDump ==
    /\ at = "pg_dump"
    /\ partials' = partials \cup {<<"dump", run>>}
    /\ at' = "stat"
    /\ n' = 1
    /\ UNCHANGED <<run, dumps, tars, everDumped, everTarred, sqlite, before, copy, check, times, broken>>

\* AnythingLLM writes a page of its file.
WriteDb(p) ==
    /\ at \in {"stat", "copy", "check", "compare"}
    /\ db[1] + db[2] < MaxWrites
    /\ db' = [db EXCEPT ![p] = @ + 1]
    /\ mtime' \in {mtime, mtime + 1}
    /\ held' = held \cup {db'}
    /\ UNCHANGED <<run, at, files, copies, times, broken>>

Stat ==
    /\ at = "stat"
    /\ before' = mtime
    /\ at' = "copy"
    /\ UNCHANGED <<run, files, sqlite, n, copy, check, times, broken>>

\* cp reads the pages in order.
Copy(p) ==
    /\ at = "copy" /\ copy[p] = -1 /\ \A q \in 1..p - 1 : copy[q] # -1
    /\ copy' = [copy EXCEPT ![p] = db[p]]
    /\ at' = IF p = Max(Pages) THEN "check" ELSE "copy"
    /\ UNCHANGED <<run, files, sqlite, n, before, check, times, broken>>

CopyAgain(p) ==
    /\ at = "check" /\ check[p] = -1 /\ \A q \in 1..p - 1 : check[q] # -1
    /\ check' = [check EXCEPT ![p] = db[p]]
    /\ at' = IF p = Max(Pages) THEN "compare" ELSE "check"
    /\ UNCHANGED <<run, files, sqlite, n, before, copy, times, broken>>

\* Mutant: the mtime alone is compared.
StillMtime == mtime = before
\* The file held still across both copies, and they are identical.
Still == mtime = before /\ copy = check

Accept ==
    /\ at = "compare"
    /\ Still
    /\ at' = "tar"
    /\ UNCHANGED <<run, files, sqlite, copies, times, broken>>

Retry ==
    /\ at = "compare"
    /\ ~Still
    /\ n < DbTries
    /\ n' = n + 1
    /\ copy' = Uncopied /\ check' = Uncopied
    /\ at' = "stat"
    /\ UNCHANGED <<run, files, sqlite, before, times, broken>>

\* tar_storage, retried while the storage changes, and SNAP removed.
Tar ==
    /\ at = "tar"
    /\ partials' = partials \cup {<<"tar", run>>}
    /\ at' = "keep_dump"
    /\ db' = Fresh /\ mtime' = 0 /\ held' = {Fresh}
    /\ n' = 0 /\ before' = 0 /\ copy' = Uncopied /\ check' = Uncopied
    /\ UNCHANGED <<run, dumps, tars, everDumped, everTarred, times, broken>>

KeepDump ==
    /\ at = "keep_dump"
    /\ partials' = partials \ {<<"dump", run>>}
    /\ dumps' = dumps \cup {run}
    /\ everDumped' = everDumped \cup {run}
    /\ at' = "keep_tar"
    /\ UNCHANGED <<run, tars, everTarred, sqlite, copies, times, broken>>

KeepTar ==
    /\ at = "keep_tar"
    /\ partials' = partials \ {<<"tar", run>>}
    /\ tars' = tars \cup {run}
    /\ everTarred' = everTarred \cup {run}
    /\ at' = "prune_dumps"
    /\ UNCHANGED <<run, dumps, everDumped, sqlite, copies, times, broken>>

\* Mutant: tail from the BACKUP_KEEP-th on.
NewestButOne(kept) == {r \in kept : Cardinality({s \in kept : s > r}) < Keep - 1}
\* prune: the newest BACKUP_KEEP of them.
Newest(kept) == {r \in kept : Cardinality({s \in kept : s > r}) < Keep}

PruneDumps ==
    /\ at = "prune_dumps"
    /\ dumps' = Newest(dumps)
    /\ at' = "prune_tars"
    /\ UNCHANGED <<run, partials, tars, everDumped, everTarred, sqlite, copies, times, broken>>

PruneTars ==
    /\ at = "prune_tars"
    /\ tars' = Newest(tars)
    /\ at' = "now"
    /\ \E t \in 0..Day - 1 : clock' = t
    /\ UNCHANGED <<run, partials, dumps, everDumped, everTarred, sqlite, copies, sched, broken>>

-----------------------------------------------------------------------------
(* Failures *)

Dumping == at \in {"pg_dump", "stat", "copy", "check", "compare", "tar",
                   "keep_dump", "keep_tar", "prune_dumps", "prune_tars"}

Gone ==
    /\ Dumping
    /\ at' = "gone"
    /\ broken' = IF at = "keep_tar" THEN broken + 1 ELSE broken
    /\ db' = Fresh /\ mtime' = 0 /\ held' = {Fresh}
    /\ n' = 0 /\ before' = 0 /\ copy' = Uncopied /\ check' = Uncopied
    /\ UNCHANGED <<run, dumps, tars, everDumped, everTarred, times>>

\* A command fails, or the file kept changing: the trap removes its partials.
Fail == Gone /\ partials' = {p \in partials : p[2] # run}

\* The container is killed, and no trap runs; pg_dump or tar may have begun its file.
Kill ==
    /\ Gone
    /\ \/ UNCHANGED partials
       \/ at = "pg_dump" /\ partials' = partials \cup {<<"dump", run>>}
       \/ at = "tar" /\ partials' = partials \cup {<<"tar", run>>}

\* Mutant: what a killed run left is kept.
RestartLeaving ==
    /\ at = "gone"
    /\ run < MaxRuns
    /\ run' = run + 1
    /\ at' = "pg_dump"
    /\ UNCHANGED <<files, sqlite, copies, times, broken>>

\* Compose starts the script again: partials are removed, and it dumps at once.
Restart ==
    /\ at = "gone"
    /\ run < MaxRuns
    /\ run' = run + 1
    /\ partials' = {}
    /\ at' = "pg_dump"
    /\ UNCHANGED <<dumps, tars, everDumped, everTarred, sqlite, copies, times, broken>>

-----------------------------------------------------------------------------
(* The loop: three readings of the clock, and time passes between them *)

Tick ==
    /\ at \in {"next", "today"}
    /\ clock < sched.now + Slowness
    /\ clock' = clock + 1
    /\ UNCHANGED <<run, at, files, sqlite, copies, sched, broken>>

ReadNow ==
    /\ at = "now"
    /\ sched' = [sched EXCEPT !.now = clock]
    /\ at' = "next"
    /\ UNCHANGED <<run, files, sqlite, copies, clock, broken>>

DayOf(time) == time \div Day

\* tomorrow 03:00
ReadNext ==
    /\ at = "next"
    /\ sched' = [sched EXCEPT !.next = (DayOf(clock) + 1) * Day + DumpAt]
    /\ at' = "today"
    /\ UNCHANGED <<run, files, sqlite, copies, clock, broken>>

\* Mutant: 03:00 itself is still to come.
PickAlso(today, now, next) == IF today >= now THEN today ELSE next
Pick(today, now, next) == IF today > now THEN today ELSE next

\* today 03:00, and the nearer of the two that is still to come.
ReadToday ==
    /\ at = "today"
    /\ LET today == DayOf(clock) * Day + DumpAt
       IN sched' = [sched EXCEPT !.today = today, !.next = Pick(today, sched.now, @)]
    /\ at' = "sleep"
    /\ UNCHANGED <<run, files, sqlite, copies, clock, broken>>

\* The sleep is over, and the next dump begins.
Wake ==
    /\ at = "sleep"
    /\ run < MaxRuns
    /\ run' = run + 1
    /\ at' = "pg_dump"
    /\ clock' = 0 /\ sched' = [now |-> 0, next |-> 0, today |-> 0]
    /\ UNCHANGED <<files, sqlite, copies, broken>>

Next ==
    \/ PgDump \/ Stat \/ Accept \/ Retry \/ Tar \/ KeepDump \/ KeepTar \/ PruneDumps \/ PruneTars
    \/ \E p \in Pages : WriteDb(p) \/ Copy(p) \/ CopyAgain(p)
    \/ Fail \/ Kill \/ Restart
    \/ Tick \/ ReadNow \/ ReadNext \/ ReadToday \/ Wake

Spec == Init /\ [][Next]_vars

-----------------------------------------------------------------------------
(* Properties *)

TypeOK ==
    /\ run \in 1..MaxRuns
    /\ partials \subseteq {"dump", "tar"} \X (1..run)
    /\ n \in 0..DbTries
    /\ dumps \subseteq everDumped /\ everDumped \subseteq 1..run
    /\ tars \subseteq everTarred /\ everTarred \subseteq everDumped
    /\ {copy, check} \subseteq [Pages -> -1..MaxWrites]

\* backup.sh 6: of the dumps and of the tars that were ever put in place, the newest BACKUP_KEEP are
\* on disk, wherever a run failed or was killed.
NewestKept ==
    /\ \A r \in everDumped \ dumps : Cardinality({s \in everDumped : s > r}) >= Keep
    /\ \A r \in everTarred \ tars : Cardinality({s \in everTarred : s > r}) >= Keep

\* backup.sh 5-7, "a failing run never erodes the history": as many runs can be restored, with both
\* their files, as were completed, up to BACKUP_KEEP; less one for each run that ended between its two
\* renames, whose dump alone takes a place among the dumps.
PairsKept ==
    LET complete == everDumped \cap everTarred
        wanted == IF Cardinality(complete) < Keep THEN Cardinality(complete) ELSE Keep
    IN Cardinality(dumps \cap tars) + broken >= wanted

\* backup.sh 22-27: while the script sleeps, whatever died before, the disk holds at most BACKUP_KEEP
\* files of each kind and nothing of a run that was killed.
DiskBounded ==
    at = "sleep" => /\ Cardinality(dumps) <= Keep /\ Cardinality(tars) <= Keep
                    /\ partials = {}

\* backup.sh 30: the copy that is accepted is what the file was at one moment, even when its mtime
\* does not tell two writes apart.
HeldStill == at = "tar" => copy \in held

\* backup.sh 3: the next dump is at the first 03:00 after now, whatever time passes, and whether it
\* passes midnight, between the three readings of the clock.
NextIsFirst ==
    at = "sleep" => /\ sched.next > sched.now
                    /\ sched.next % Day = DumpAt
                    /\ sched.next - sched.now <= Day

=============================================================================
