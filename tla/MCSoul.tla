------------------------------- MODULE MCSoul -------------------------------
(***************************************************************************)
(* Instances of Soul, InvestorFacts and InvestorSetup for TLC: what the    *)
(* desk keeps of an investor, written by several at once; and of Backup,   *)
(* which keeps it every night.  Soul and InvestorFacts share the persona   *)
(* lock, which orders the writes of either, and no other state; no         *)
(* statement takes keyed facts and memories both; the setup takes each     *)
(* write as one transaction; and the backup is a process of its own.  So a *)
(* behaviour is one of one of them: `part` says which.                     *)
(***************************************************************************)
EXTENDS Soul, Sequences, TLC

CONSTANTS
    Names, DefaultName, Memories, MaxRows, MaxMemories,
    Readers, Topics, Tickers,
    Keep, DbTries, MaxRuns, MaxWrites, Day, DumpAt, Slowness

VARIABLES
    part,
    keyed, memory, stored, factsLock, writer, renamed, kept, forgotten,
    user, remembered, held, call, known, settled,
    run, at, n, partials, dumps, tars, db, mtime, before, copy, check, clock, sched, still,
    everDumped, everTarred, broken

Facts == INSTANCE InvestorFacts WITH Writers <- Turns, rows <- keyed, lock <- factsLock
Guided == INSTANCE InvestorSetup WITH Calls <- Turns, Turns <- Readers, turn <- known
Nightly == INSTANCE Backup WITH held <- still

ASSUME KeptAssumption ==
    Facts!FactsAssumption /\ Guided!SetupAssumption /\ Nightly!BackupAssumption

factsVars == <<keyed, memory, stored, factsLock, writer, renamed, kept, forgotten>>
setupVars == <<user, remembered, held, call, known, settled>>
backupVars == <<run, at, n, partials, dumps, tars, db, mtime, before, copy, check, clock, sched, still,
                everDumped, everTarred, broken>>

\* The parts that do not run stay in their initial states.
KeptInit ==
    /\ part \in {"soul", "keyed", "memories", "setup", "backup"}
    /\ Init
    /\ Facts!Init
    /\ Guided!Init
    /\ Nightly!Init

KeptNext ==
    /\ UNCHANGED part
    /\ \/ part = "soul" /\ Next /\ UNCHANGED <<factsVars, setupVars, backupVars>>
       \/ part = "keyed" /\ Facts!KeyedNext /\ UNCHANGED <<vars, setupVars, backupVars>>
       \/ part = "memories" /\ Facts!MemoryNext /\ UNCHANGED <<vars, setupVars, backupVars>>
       \/ part = "setup" /\ Guided!Next /\ UNCHANGED <<vars, factsVars, backupVars>>
       \/ part = "backup" /\ Nightly!Next /\ UNCHANGED <<vars, factsVars, setupVars>>

KeptSpec == KeptInit /\ [][KeptNext]_<<vars, part, factsVars, setupVars, backupVars>>

Symmetry == Permutations(Turns)

-----------------------------------------------------------------------------
(* Properties *)

\* Every variable of the parts has its type.
TypesOK == TypeOK /\ Facts!TypeOK /\ Guided!TypeOK /\ Nightly!TypeOK

\* facts.py 3-5, memories.py 54: the rows of a key are one chain whose last alone is active, and two in a
\* row differ; a memory the desk was told is stored is in the table until it is forgotten.
FactsKept == Facts!OneChain /\ Facts!NothingRepeated /\ Facts!KeptOrForgotten

\* tools/persona.py 54-56 and 98: a step of the setup that was skipped or answered is not put to the
\* investor again, by the facts as they are or by a turn that read them while they changed.
NotAskedAgain == Facts!NotOfferedAgain /\ Guided!NotAskedAgain

\* graph/setup.py 73: an investor who is ready stays ready, until something they said is taken away.
ReadyStays == Guided!ReadyStays

\* backup.sh 3-7 and 22-30: the newest BACKUP_KEEP of each kind of file are on disk, and no more once the
\* script sleeps; as many of them pair as should, less one for each run that ended between its two
\* renames; the SQLite copy in them is what the file was at one moment; and the script sleeps until
\* the first 03:00 after now.
BackupsKept ==
    /\ Nightly!NewestKept /\ Nightly!DiskBounded
    /\ Nightly!PairsKept
    /\ Nightly!HeldStill
    /\ Nightly!NextIsFirst

=============================================================================
