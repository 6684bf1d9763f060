----------------------------- MODULE ChatProofs -----------------------------
(***************************************************************************)
(* Proofs about MCChat's parts but the lock (see ThreadLockProofs): for    *)
(* any conversations, turns, windows and lengths, the thread a             *)
(* conversation continues, what a turn does once, the history its model is *)
(* shown, and what a client shows of a turn while it is relayed.           *)
(***************************************************************************)
EXTENDS MCChat, FiniteSetTheorems, SequenceTheorems, WellFoundedInduction, TLAPS

-----------------------------------------------------------------------------
(* ChatThreads: the threads a conversation can come to *)

\* The pair that the words of job j make with the prompt all conversations open with.
OpeningPair(j) == <<j, 1, "own">>

\* Conversation d was answered by job j first.
Opened(d, j) == history[d] # <<>> /\ history[d][1] = OpeningPair(j)

\* None that job j answered first lost its thread.
SteadyJob(j) == \A d \in Conversations : Opened(d, j) => d \notin unsure

\* Something of its own leads conversation d to thread t: a turn of it that ran there, the request it makes
\* after its first, or a later pair of it, whose alias is t or is to be.
On(d, t) ==
    \/ t \in placed[d]
    \/ \E p \in Threads!Pairs : /\ p[1] = d /\ p[2] > 1
                                /\ aliases[p] = t \/ \E k \in tasks : k.pair = p /\ k.thread = t
    \/ /\ request[d].at \in {"own", "add"} \/ (request[d].at = "turn" /\ history[d] # <<>>)
       /\ request[d].thread = t

\* Where the request of conversation d stands, and what its pairs are.
Stands(d) ==
    /\ request[d].at # "idle" => Len(history[d]) < MaxTurns
    /\ request[d].at \in {"create", "fork", "submit"} => history[d] = <<>> /\ outcome[d] = "none"
    /\ request[d].at = "idle" /\ history[d] = <<>> => outcome[d] = "none"
    /\ request[d].at \in {"find", "own", "add"} => history[d] # <<>>
    /\ request[d].at = "submit" => request[d].thread \in {Threads!Base, Threads!Forked(d)}
    /\ request[d].at = "submit" /\ request[d].thread = Threads!Base => Threads!Base \in threads
    /\ request[d].at \in {"own", "add", "turn"} => request[d].thread \in Threads!Threads
    /\ history[d] # <<>> =>
         history[d][1][1] = Anyone \/ \E j \in Conversations : history[d][1] = OpeningPair(j)
    /\ \A i \in DOMAIN history[d] : i > 1 => history[d][i][1] = d /\ history[d][i][2] > 1
    /\ history[d] = <<>> => \A t \in Threads!Threads : ~On(d, t)

\* T[j] is the thread of the job that conversation j queued for its opening.
HoldsBase(T, j) ==
    \/ outcome[j] # "none" /\ T[j] = Threads!Base
    \/ request[j].at = "submit" /\ request[j].thread = Threads!Base

\* Whoever waits for a job, attaches to it or records its words does so on its thread.
JobStands(T, j) ==
    /\ outcome[j] # "none" => /\ T[j] \in {Threads!Base, Threads!Forked(j)}
                              /\ T[j] = Threads!Base => Threads!Base \in threads
    /\ outcome[j] = "none" => /\ aliases[OpeningPair(j)] = NoThread
                              /\ \A d \in Conversations : ~Opened(d, j)
    /\ \A k \in tasks : k.pair = OpeningPair(j) => outcome[j] # "none" /\ k.thread = T[j]
    /\ SteadyJob(j) /\ aliases[OpeningPair(j)] # NoThread => aliases[OpeningPair(j)] = T[j]

Waits(T, d) ==
    request[d].at = "turn" /\ history[d] = <<>> =>
        \E j \in Conversations : request[d].job = j /\ outcome[j] # "none" /\ request[d].thread = T[j]

RecordStands(T) == \A r \in opening : outcome[r.job] # "none" /\ r.thread = T[r.job]

ThreadsInvOf(T) ==
    /\ Threads!TypeOK
    /\ RecordStands(T)
    /\ \A d \in Conversations : Stands(d) /\ Waits(T, d)
    /\ \A j \in Conversations : JobStands(T, j)
    /\ \A i, j \in Conversations : HoldsBase(T, i) /\ HoldsBase(T, j) => i = j
    /\ \A d, j \in Conversations, t \in Threads!Threads :
         SteadyJob(j) /\ Opened(d, j) /\ On(d, t) => t = T[j]

ThreadsInv == \E T \in [Conversations -> Threads!Threads] : ThreadsInvOf(T)

\* The ids of conversations and of threads differ.
LEMMA Ids ==
    ASSUME NEW c \in Conversations
    PROVE  /\ c # Anyone
           /\ Threads!Forked(c) # Threads!Base
           /\ \A d \in Conversations : Threads!Forked(c) = Threads!Forked(d) => c = d
           /\ Threads!Forked(c) \in Threads!Threads /\ Threads!Base \in Threads!Threads
           /\ NoThread \notin Threads!Threads
           /\ OpeningPair(c) \in Threads!Pairs
<1>1. Anyone \notin Conversations /\ MaxTurns \in Nat \ {0} /\ NoThread \notin Threads!Threads
    BY PartsAssumption DEF Threads!ThreadsAssumption, Threads!Threads, Threads!Turns
<1>2. 1 \in Threads!Turns
    BY <1>1 DEF Threads!Turns
<1> QED
    BY <1>1, <1>2 DEF Threads!Forked, Threads!Base, Threads!Threads, OpeningPair, Threads!Pairs, Threads!Answers

\* Whoever holds the first-message thread created it.
LEMMA HeldIsThere ==
    ASSUME NEW T, ThreadsInvOf(T), NEW j \in Conversations, HoldsBase(T, j)
    PROVE  Threads!Base \in threads
BY DEF ThreadsInvOf, HoldsBase, JobStands, Stands

\* A step that answers nobody: it leads no conversation of a steady job elsewhere.
LEMMA ThreadsFrame ==
    ASSUME NEW T, ThreadsInvOf(T), Threads!TypeOK',
           threads \subseteq threads', unsure \subseteq unsure', history' = history, opening' \subseteq opening,
           \A j \in Conversations : outcome'[j] = "none" <=> outcome[j] = "none",
           \A k \in tasks' : \E l \in tasks : l.pair = k.pair /\ l.thread = k.thread,
           \A j \in Conversations :
               \/ aliases'[OpeningPair(j)] = aliases[OpeningPair(j)]
               \/ outcome[j] # "none" /\ (SteadyJob(j) => aliases'[OpeningPair(j)] = T[j]),
           \A d \in Conversations : Stands(d)' /\ Waits(T, d)',
           \A i, j \in Conversations : HoldsBase(T, i)' /\ HoldsBase(T, j)' => i = j,
           \A d, j \in Conversations, t \in Threads!Threads :
               SteadyJob(j)' /\ SteadyJob(j) /\ Opened(d, j) /\ On(d, t)' => On(d, t) \/ t = T[j]
    PROVE  ThreadsInvOf(T)'
<1>1. \A d, j \in Conversations : (SteadyJob(j)' => SteadyJob(j)) /\ (Opened(d, j)' <=> Opened(d, j))
    BY DEF SteadyJob, Opened
<1>2. RecordStands(T)'
    <2>1. \A r \in opening' : r.job \in Conversations /\ r \in opening
        BY DEF ThreadsInvOf, Threads!TypeOK
    <2> QED
        BY <2>1 DEF ThreadsInvOf, RecordStands
<1>3. ASSUME NEW j \in Conversations
      PROVE  JobStands(T, j)'
    <2>1. JobStands(T, j)
        BY DEF ThreadsInvOf
    <2>2. outcome'[j] = "none" <=> outcome[j] = "none"
        OBVIOUS
    <2>3. \A k \in tasks' : k.pair = OpeningPair(j) => outcome'[j] # "none" /\ k.thread = T[j]
        BY <2>1, <2>2 DEF JobStands
    <2>4. outcome'[j] = "none" => /\ aliases'[OpeningPair(j)] = NoThread
                                  /\ \A d \in Conversations : ~Opened(d, j)'
        BY <1>1, <2>1, <2>2 DEF JobStands
    <2>5. SteadyJob(j)' /\ aliases'[OpeningPair(j)] # NoThread => aliases'[OpeningPair(j)] = T[j]
        BY <1>1, <2>1 DEF JobStands
    <2>6. outcome'[j] # "none" => /\ T[j] \in {Threads!Base, Threads!Forked(j)}
                                  /\ T[j] = Threads!Base => Threads!Base \in threads'
        BY <2>1, <2>2 DEF JobStands
    <2>7. OpeningPair(j)' = OpeningPair(j)
        BY DEF OpeningPair
    <2>8. Threads!Base' = Threads!Base /\ Threads!Forked(j)' = Threads!Forked(j)
        BY DEF Threads!Base, Threads!Forked
    <2> QED
        BY <2>3, <2>4, <2>5, <2>6, <2>7, <2>8 DEF JobStands
<1>4. \A d, j \in Conversations, t \in Threads!Threads :
        SteadyJob(j)' /\ Opened(d, j)' /\ On(d, t)' => t = T[j]
    BY <1>1 DEF ThreadsInvOf
<1>5. Threads!Threads' = Threads!Threads
    BY DEF Threads!Threads, Threads!Turns
<1> QED
    BY <1>2, <1>3, <1>4, <1>5 DEF ThreadsInvOf

\* A step of another's, which leads conversation d nowhere.
LEMMA OthersStand ==
    ASSUME NEW T, ThreadsInvOf(T), NEW d \in Conversations, threads \subseteq threads',
           history'[d] = history[d], request'[d] = request[d],
           \A j \in Conversations : outcome'[j] = "none" <=> outcome[j] = "none",
           \A t \in Threads!Threads : On(d, t)' => On(d, t)
    PROVE  Stands(d)' /\ Waits(T, d)'
<1>1. Stands(d) /\ Waits(T, d)
    BY DEF ThreadsInvOf
<1>2. Stands(d)'
    BY <1>1 DEF Stands, OpeningPair, Threads!Base, Threads!Forked
<1>3. Waits(T, d)'
    BY <1>1 DEF Waits
<1> QED
    BY <1>2, <1>3

\* What a request record is.
RequestType == [Conversations -> [at : Threads!Steps, thread : Threads!Threads \cup {NoThread},
                                  job : Conversations \cup {Anyone}]]

\* A step that moves the request of conversation c alone, and leads it nowhere it did not come already.
LEMMA RequestMoves ==
    ASSUME NEW T, ThreadsInvOf(T), NEW c \in Conversations, NEW record,
           request' = [request EXCEPT ![c] = record],
           record \in [at : Threads!Steps, thread : Threads!Threads \cup {NoThread}, job : Conversations \cup {Anyone}],
           UNCHANGED <<aliases, history, opening, outcome, tasks, placed>>,
           threads \subseteq threads', threads' \subseteq Threads!Threads,
           unsure \subseteq unsure', unsure' \subseteq Conversations,
           Stands(c)', Waits(T, c)',
           HoldsBase(T, c)' => HoldsBase(T, c) \/ \A d \in Conversations : ~HoldsBase(T, d),
           \A j \in Conversations :
               /\ record.at \in {"own", "add"} \/ (record.at = "turn" /\ history[c] # <<>>)
               /\ Opened(c, j) /\ SteadyJob(j) /\ SteadyJob(j)'
               => On(c, record.thread) \/ record.thread = T[j]
    PROVE  ThreadsInvOf(T)'
<1>1. request \in RequestType
    BY DEF ThreadsInvOf, Threads!TypeOK, RequestType
<1>2. request' \in RequestType
    BY <1>1 DEF RequestType
<1>3. Threads!TypeOK'
    BY <1>2 DEF ThreadsInvOf, Threads!TypeOK, RequestType
<1>4. request'[c] = record /\ \A d \in Conversations \ {c} : request'[d] = request[d]
    BY <1>1 DEF RequestType
<1>5. \A d \in Conversations \ {c}, t \in Threads!Threads : On(d, t)' => On(d, t)
    BY <1>4 DEF On
<1>6. \A t \in Threads!Threads :
        On(c, t)' => \/ On(c, t)
                     \/ /\ record.at \in {"own", "add"} \/ (record.at = "turn" /\ history[c] # <<>>)
                        /\ record.thread = t
    BY <1>4 DEF On
<1>7. \A d \in Conversations : Stands(d)' /\ Waits(T, d)'
    BY <1>4, <1>5, OthersStand
<1>8. \A i, j \in Conversations : HoldsBase(T, i)' /\ HoldsBase(T, j)' => i = j
    <2>1. \A d \in Conversations \ {c} : HoldsBase(T, d)' => HoldsBase(T, d)
        BY <1>4 DEF HoldsBase, Threads!Base
    <2> QED
        BY <2>1 DEF ThreadsInvOf
<1>9. \A d, j \in Conversations, t \in Threads!Threads :
        SteadyJob(j)' /\ SteadyJob(j) /\ Opened(d, j) /\ On(d, t)' => On(d, t) \/ t = T[j]
    BY <1>5, <1>6
<1> QED
    BY <1>3, <1>7, <1>8, <1>9, ThreadsFrame

\* Asking leads nowhere yet: an opening that attaches comes to the thread of its job.
LEMMA AskKept ==
    ASSUME NEW T, ThreadsInvOf(T), NEW c \in Conversations, Threads!Ask(c)
    PROVE  ThreadsInvOf(T)'
<1>1. /\ request[c].at = "idle" /\ Len(history[c]) < MaxTurns
      /\ UNCHANGED <<threads, aliases, history, opening, outcome, tasks, placed, unsure>>
    BY DEF Threads!Ask, Threads!At
<1>2. PICK record \in [at : {"create", "find", "turn"}, thread : Threads!Threads \cup {NoThread},
                       job : Conversations \cup {Anyone}] :
         /\ request' = [request EXCEPT ![c] = record]
         /\ record.at = "find" <=> history[c] # <<>>
         /\ record.at = "turn" => \E r \in opening : record.thread = r.thread /\ record.job = r.job
    <2>1. CASE history[c] # <<>> \/ Threads!Attachable = {}
        <3> DEFINE step == IF history[c] # <<>> THEN "find" ELSE "create"
        <3>1. request' = [request EXCEPT ![c] = [at |-> step, thread |-> NoThread, job |-> c]]
            BY <2>1 DEF Threads!Ask, Threads!GoTo
        <3>2. step \in {"create", "find"} /\ (step = "find" <=> history[c] # <<>>)
            OBVIOUS
        <3> HIDE DEF step
        <3>3. [at |-> step, thread |-> NoThread, job |-> c]
                \in [at : {"create", "find", "turn"}, thread : Threads!Threads \cup {NoThread},
                    job : Conversations \cup {Anyone}]
            BY <3>2
        <3> QED
            BY <3>1, <3>2, <3>3
    <2>2. CASE history[c] = <<>> /\ Threads!Attachable # {}
        <3>1. PICK r \in opening : request' = [request EXCEPT ![c] = [at |-> "turn", thread |-> r.thread,
                                                                      job |-> r.job]]
            BY <2>2 DEF Threads!Ask, Threads!Await, Threads!Attachable
        <3>2. r.thread \in Threads!Threads /\ r.job \in Conversations
            BY DEF ThreadsInvOf, Threads!TypeOK
        <3>3. [at |-> "turn", thread |-> r.thread, job |-> r.job]
                \in [at : {"create", "find", "turn"}, thread : Threads!Threads \cup {NoThread},
                    job : Conversations \cup {Anyone}]
            BY <3>2
        <3> QED
            BY <2>2, <3>1, <3>3
    <2> QED
        BY <2>1, <2>2
<1>3. request \in RequestType
    BY DEF ThreadsInvOf, Threads!TypeOK, RequestType
<1>4. request'[c] = record
    BY <1>2, <1>3 DEF RequestType
<1>5. record.at = "turn" => \E j \in Conversations : /\ record.job = j /\ outcome[j] # "none"
                                                     /\ record.thread = T[j] /\ record.thread \in Threads!Threads
    BY <1>2 DEF ThreadsInvOf, RecordStands, Threads!TypeOK
<1>6. Stands(c) /\ Waits(T, c)
    BY DEF ThreadsInvOf
<1>7. \A t \in Threads!Threads : On(c, t)' => On(c, t)
    BY <1>1, <1>2, <1>4 DEF On
<1>8. Stands(c)'
    BY <1>1, <1>2, <1>4, <1>5, <1>6, <1>7 DEF Stands, OpeningPair
<1>9. Waits(T, c)'
    BY <1>1, <1>4, <1>5 DEF Waits
<1>10. HoldsBase(T, c)' => HoldsBase(T, c)
    BY <1>1, <1>2, <1>4 DEF HoldsBase, Threads!Base
<1>11. record \in [at : Threads!Steps, thread : Threads!Threads \cup {NoThread}, job : Conversations \cup {Anyone}]
    BY <1>2 DEF Threads!Steps
<1>12. threads' \subseteq Threads!Threads /\ unsure' \subseteq Conversations
    BY <1>1 DEF ThreadsInvOf, Threads!TypeOK
<1> QED
    BY <1>1, <1>2, <1>8, <1>9, <1>10, <1>11, <1>12, RequestMoves

LEMMA ForkKept ==
    ASSUME NEW T, ThreadsInvOf(T), NEW c \in Conversations, Threads!Fork(c)
    PROVE  ThreadsInvOf(T)'
<1> DEFINE record == [at |-> "submit", thread |-> Threads!Forked(c), job |-> c]
<1>1. /\ request[c].at = "fork" /\ threads' = threads \cup {Threads!Forked(c)}
      /\ request' = [request EXCEPT ![c] = record]
      /\ UNCHANGED <<aliases, history, opening, outcome, tasks, placed, unsure>>
    BY DEF Threads!Fork, Threads!At, Threads!GoTo
<1>2. request'[c] = record
    BY <1>1 DEF ThreadsInvOf, Threads!TypeOK
<1>3. Stands(c)
    BY DEF ThreadsInvOf
<1>4. \A t \in Threads!Threads : On(c, t)' => On(c, t)
    BY <1>1, <1>2 DEF On
<1>5. Stands(c)'
    BY <1>1, <1>2, <1>3, <1>4, Ids DEF Stands, OpeningPair, Threads!Base, Threads!Forked
<1>6. Waits(T, c)'
    BY <1>2 DEF Waits
<1>7. HoldsBase(T, c)' => HoldsBase(T, c)
    BY <1>1, <1>2, Ids DEF HoldsBase, Threads!Base
<1>8. record \in [at : Threads!Steps, thread : Threads!Threads \cup {NoThread}, job : Conversations \cup {Anyone}]
    BY Ids DEF Threads!Steps
<1>9. threads' \subseteq Threads!Threads /\ unsure' \subseteq Conversations
    BY <1>1, Ids DEF ThreadsInvOf, Threads!TypeOK
<1>10. record.at = "submit"
    OBVIOUS
<1> HIDE DEF record
<1> QED
    BY <1>1, <1>5, <1>6, <1>7, <1>8, <1>9, <1>10, RequestMoves

\* A new conversation: the thread it creates is held by no other.
LEMMA CreateKept ==
    ASSUME NEW T, ThreadsInvOf(T), NEW c \in Conversations, Threads!Create(c)
    PROVE  ThreadsInvOf(T)'
<1>1. PICK record \in {[at |-> "fork", thread |-> Threads!Forked(c), job |-> c],
                       [at |-> "submit", thread |-> Threads!Base, job |-> c]} :
         /\ request' = [request EXCEPT ![c] = record]
         /\ record.at = "submit" => Threads!Base \notin threads
    BY DEF Threads!Create, Threads!GoTo
<1>2. /\ request[c].at = "create" /\ threads' = threads \cup {Threads!Base}
      /\ UNCHANGED <<aliases, history, opening, outcome, tasks, placed, unsure>>
    BY DEF Threads!Create, Threads!At
<1>3. request'[c] = record
    BY <1>1 DEF ThreadsInvOf, Threads!TypeOK
<1>4. record \in [at : Threads!Steps, thread : Threads!Threads \cup {NoThread}, job : Conversations \cup {Anyone}]
    BY <1>1, Ids DEF Threads!Steps
<1>5. record.at \in {"fork", "submit"} /\ (record.at = "submit" => record.thread = Threads!Base)
    BY <1>1
<1>6. Stands(c)
    BY DEF ThreadsInvOf
<1>7. \A t \in Threads!Threads : On(c, t)' => On(c, t)
    BY <1>2, <1>3, <1>5 DEF On
<1>8. Stands(c)'
    BY <1>2, <1>3, <1>5, <1>6, <1>7 DEF Stands, OpeningPair, Threads!Base, Threads!Forked
<1>9. Waits(T, c)'
    BY <1>3, <1>5 DEF Waits
<1>10. HoldsBase(T, c)' => HoldsBase(T, c) \/ \A d \in Conversations : ~HoldsBase(T, d)
    BY <1>1, <1>2, <1>3, <1>5, HeldIsThere DEF HoldsBase, Threads!Base
<1>11. threads' \subseteq Threads!Threads /\ unsure' \subseteq Conversations
    BY <1>2, Ids DEF ThreadsInvOf, Threads!TypeOK
<1> QED
    BY <1>1, <1>2, <1>4, <1>5, <1>8, <1>9, <1>10, <1>11, RequestMoves

\* A request that goes on finds its thread by a pair of its own, or of the job that answered it first.
LEMMA CarriedPair ==
    ASSUME NEW T, ThreadsInvOf(T), NEW c \in Conversations, NEW i \in DOMAIN Threads!CarriedPairs(c)
    PROVE  \E k \in DOMAIN history[c] : Threads!CarriedPairs(c)[i] = history[c][k]
<1>1. history[c] \in Seq(Threads!Pairs)
    BY DEF ThreadsInvOf, Threads!TypeOK
<1>2. PICK N \in Nat : N = Len(history[c]) /\ DOMAIN history[c] = 1..N
    BY <1>1
<1>3. PICK from \in 1..N + 1 : Threads!CarriedPairs(c) = SubSeq(history[c], from, N)
    <2>1. (IF N > Window THEN N - Window + 1 ELSE 1) \in 1..N + 1
        BY <1>2, PartsAssumption DEF Threads!ThreadsAssumption
    <2> QED
        BY <1>2, <2>1 DEF Threads!CarriedPairs, Threads!Oldest
<1>4. i \in 1..1 + N - from /\ Threads!CarriedPairs(c)[i] = history[c][i + from - 1]
    BY <1>1, <1>2, <1>3
<1>5. i + from - 1 \in 1..N
    BY <1>4
<1> QED
    BY <1>2, <1>4, <1>5

LEMMA Carried ==
    ASSUME NEW T, ThreadsInvOf(T), NEW c \in Conversations, NEW i \in DOMAIN Threads!CarriedPairs(c),
           NEW p, p = Threads!CarriedPairs(c)[i]
    PROVE  /\ p \in Threads!Pairs
           /\ \/ p[1] = Anyone
              \/ p[1] = c /\ p[2] > 1
              \/ \E j \in Conversations : p = OpeningPair(j) /\ Opened(c, j)
<1>1. PICK k \in DOMAIN history[c] : p = history[c][k]
    BY CarriedPair
<1>2. history[c] \in Seq(Threads!Pairs) /\ Stands(c)
    BY DEF ThreadsInvOf, Threads!TypeOK
<1>3. p \in Threads!Pairs /\ history[c] # <<>>
    BY <1>1, <1>2
<1>4. CASE k = 1
    BY <1>1, <1>2, <1>3, <1>4 DEF Stands, Opened
<1>5. CASE k # 1
    <2>1. k > 1
        BY <1>1, <1>2, <1>5
    <2> QED
        BY <1>1, <1>2, <1>3, <2>1 DEF Stands
<1> QED
    BY <1>3, <1>4, <1>5

LEMMA FindKept ==
    ASSUME NEW T, ThreadsInvOf(T), NEW c \in Conversations, Threads!Find(c)
    PROVE  ThreadsInvOf(T)'
<1>1. /\ request[c].at = "find" /\ UNCHANGED <<threads, aliases, history, opening, outcome, tasks, placed>>
      /\ unsure \subseteq unsure' /\ unsure' \subseteq unsure \cup {c}
    BY DEF Threads!Find, Threads!At
<1>2. Stands(c) /\ history[c] # <<>>
    BY <1>1 DEF ThreadsInvOf, Stands
<1>3. PICK thread \in Threads!Threads :
         /\ request' = [request EXCEPT ![c] = [at |-> "own", thread |-> thread, job |-> c]]
         /\ \A j \in Conversations : Opened(c, j) /\ SteadyJob(j) /\ c \notin unsure' => thread = T[j]
    <2>1. CASE Threads!Known(c) = {}
        <3> DEFINE thread == Threads!Prompt(c, Threads!Oldest(c))
        <3>1. request' = [request EXCEPT ![c] = [at |-> "own", thread |-> thread, job |-> c]]
              /\ c \in unsure'
            BY <2>1 DEF Threads!Find, Threads!GoTo
        <3>2. thread \in Threads!Threads
            <4>1. history[c] \in Seq(Threads!Pairs)
                BY DEF ThreadsInvOf, Threads!TypeOK
            <4>2. PICK N \in Nat : N = Len(history[c]) /\ N < MaxTurns
                BY <1>1, <1>2, <4>1 DEF Stands
            <4>3. (IF N > Window THEN N - Window + 1 ELSE 1) \in 1..MaxTurns
                BY <4>2, PartsAssumption DEF Threads!ThreadsAssumption
            <4>4. Threads!Oldest(c) \in Threads!Turns
                BY <4>2, <4>3 DEF Threads!Oldest, Threads!Turns
            <4> HIDE DEF thread
            <4> QED
                BY <4>4 DEF Threads!Prompt, Threads!Threads, thread
        <3> HIDE DEF thread
        <3> QED
            BY <3>1, <3>2
    <2>2. CASE Threads!Known(c) # {}
        <3>1. PICK i \in Threads!Known(c) :
                 request' = [request EXCEPT ![c] = [at |-> "own",
                                                    thread |-> aliases[Threads!CarriedPairs(c)[i]],
                                                    job |-> c]]
            BY <2>2 DEF Threads!Find, Threads!GoTo
        <3>2. i \in DOMAIN Threads!CarriedPairs(c) /\ aliases[Threads!CarriedPairs(c)[i]] # NoThread
            BY DEF Threads!Known
        <3>3. PICK p \in Threads!Pairs : p = Threads!CarriedPairs(c)[i]
            BY <3>2, Carried
        <3>4. aliases[p] \in Threads!Threads
            BY <3>2, <3>3 DEF ThreadsInvOf, Threads!TypeOK
        <3>5. ASSUME NEW j \in Conversations, Opened(c, j), SteadyJob(j)
              PROVE  aliases[p] = T[j]
            <4>1. p[1] # Anyone
                <5>1. PICK k \in DOMAIN history[c] : p = history[c][k]
                    BY <3>2, <3>3, CarriedPair
                <5>2. history[c] \in Seq(Threads!Pairs)
                    BY DEF ThreadsInvOf, Threads!TypeOK
                <5>3. k > 1 => p[1] = c
                    BY <1>2, <5>1 DEF Stands
                <5>4. k = 1 => p[1] = j
                    BY <3>5, <5>1 DEF Opened, OpeningPair
                <5> QED
                    BY <5>1, <5>2, <5>3, <5>4, Ids
            <4>2. CASE p[1] = c /\ p[2] > 1
                <5>1. On(c, aliases[p])
                    BY <4>2 DEF On
                <5> QED
                    BY <3>4, <3>5, <5>1 DEF ThreadsInvOf
            <4>3. CASE \E h \in Conversations : p = OpeningPair(h) /\ Opened(c, h)
                <5>1. p = OpeningPair(j)
                    BY <3>5, <4>3 DEF Opened
                <5>2. JobStands(T, j)
                    BY DEF ThreadsInvOf
                <5> QED
                    BY <3>2, <3>3, <3>5, <5>1, <5>2 DEF JobStands
            <4> QED
                BY <3>2, <3>3, <4>1, <4>2, <4>3, Carried
        <3> QED
            BY <3>1, <3>3, <3>4, <3>5
    <2> QED
        BY <2>1, <2>2
<1> DEFINE record == [at |-> "own", thread |-> thread, job |-> c]
<1>4. request'[c] = record
    BY <1>3 DEF ThreadsInvOf, Threads!TypeOK
<1>5. Stands(c)'
    BY <1>1, <1>2, <1>4 DEF Stands, OpeningPair
<1>6. Waits(T, c)' /\ (HoldsBase(T, c)' => HoldsBase(T, c))
    BY <1>1, <1>4 DEF Waits, HoldsBase, Threads!Base
<1>7. record \in [at : Threads!Steps, thread : Threads!Threads \cup {NoThread}, job : Conversations \cup {Anyone}]
    BY DEF Threads!Steps
<1>8. unsure' \subseteq Conversations /\ threads' \subseteq Threads!Threads
    BY <1>1 DEF ThreadsInvOf, Threads!TypeOK
<1>9. record.thread = thread /\ request' = [request EXCEPT ![c] = record]
    BY <1>3
<1> HIDE DEF record
<1>10. \A j \in Conversations : Opened(c, j) /\ SteadyJob(j) /\ SteadyJob(j)' => record.thread = T[j]
    <2>1. \A j \in Conversations : Opened(c, j) /\ SteadyJob(j)' => c \notin unsure'
        BY <1>1 DEF SteadyJob, Opened
    <2> QED
        BY <1>3, <1>9, <2>1
<1> QED
    BY <1>1, <1>5, <1>6, <1>7, <1>8, <1>9, <1>10, RequestMoves

LEMMA OwnKept ==
    ASSUME NEW T, ThreadsInvOf(T), NEW c \in Conversations, Threads!Own(c)
    PROVE  ThreadsInvOf(T)'
<1> DEFINE record == [at |-> "add", thread |-> request[c].thread, job |-> c]
<1>1. /\ request[c].at = "own" /\ threads' = threads \cup {request[c].thread}
      /\ request' = [request EXCEPT ![c] = record]
      /\ UNCHANGED <<aliases, history, opening, outcome, tasks, placed, unsure>>
    BY DEF Threads!Own, Threads!At, Threads!GoTo
<1>2. request'[c] = record
    BY <1>1 DEF ThreadsInvOf, Threads!TypeOK
<1>3. Stands(c) /\ request[c].thread \in Threads!Threads /\ history[c] # <<>>
    BY <1>1 DEF ThreadsInvOf, Stands
<1>4. Stands(c)'
    BY <1>1, <1>2, <1>3 DEF Stands, OpeningPair, Threads!Base
<1>5. Waits(T, c)' /\ (HoldsBase(T, c)' => HoldsBase(T, c))
    BY <1>1, <1>2 DEF Waits, HoldsBase, Threads!Base
<1>6. record \in [at : Threads!Steps, thread : Threads!Threads \cup {NoThread}, job : Conversations \cup {Anyone}]
    BY <1>3 DEF Threads!Steps
<1>7. threads' \subseteq Threads!Threads /\ unsure' \subseteq Conversations
    BY <1>1, <1>3 DEF ThreadsInvOf, Threads!TypeOK
<1>8. On(c, record.thread)
    BY <1>1 DEF On
<1> HIDE DEF record
<1> QED
    BY <1>1, <1>4, <1>5, <1>6, <1>7, <1>8, RequestMoves

\* The aliases a request adds lead where it came to.
LEMMA AddKept ==
    ASSUME NEW T, ThreadsInvOf(T), NEW c \in Conversations, Threads!Add(c)
    PROVE  ThreadsInvOf(T)'
<1> DEFINE carried == {Threads!CarriedPairs(c)[i] : i \in DOMAIN Threads!CarriedPairs(c)}
           t0 == request[c].thread
<1>1. /\ request[c].at = "add" /\ aliases' = Threads!WithAliases(carried, t0)
      /\ request' = [request EXCEPT ![c] = [at |-> "turn", thread |-> t0, job |-> c]]
      /\ UNCHANGED <<threads, history, opening, outcome, tasks, placed, unsure>>
    BY DEF Threads!Add, Threads!At, Threads!GoTo
<1>2. \A p \in carried : \/ p[1] = Anyone
                         \/ p[1] = c /\ p[2] > 1
                         \/ \E j \in Conversations : p = OpeningPair(j) /\ Opened(c, j)
    BY Carried
<1>3. request \in RequestType /\ aliases \in [Threads!Pairs -> Threads!Threads \cup {NoThread}]
    BY DEF ThreadsInvOf, Threads!TypeOK, RequestType
<1>4. /\ request'[c] = [at |-> "turn", thread |-> t0, job |-> c]
      /\ \A d \in Conversations \ {c} : request'[d] = request[d]
    BY <1>1, <1>3 DEF RequestType
<1>5. Stands(c) /\ t0 \in Threads!Threads /\ history[c] # <<>> /\ On(c, t0)
    BY <1>1 DEF ThreadsInvOf, Stands, On
<1> HIDE DEF carried, t0
<1>6. \A p \in Threads!Pairs : aliases'[p] = aliases[p] \/ (p \in carried /\ aliases'[p] = t0)
    BY <1>1 DEF Threads!WithAliases
<1>7. Threads!TypeOK'
    <2>1. aliases' \in [Threads!Pairs -> Threads!Threads \cup {NoThread}]
        BY <1>1, <1>3, <1>5 DEF Threads!WithAliases
    <2>2. request' \in RequestType
        BY <1>1, <1>3, <1>5 DEF RequestType, Threads!Steps
    <2> QED
        BY <1>1, <2>1, <2>2 DEF ThreadsInvOf, Threads!TypeOK, RequestType
<1>8. ASSUME NEW d \in Conversations, NEW t \in Threads!Threads, On(d, t)'
      PROVE  On(d, t)
    <2>1. CASE \E p \in Threads!Pairs : p[1] = d /\ p[2] > 1 /\ aliases'[p] = t
        <3>1. PICK p \in Threads!Pairs : p[1] = d /\ p[2] > 1 /\ aliases'[p] = t
            BY <2>1
        <3>2. CASE aliases'[p] = aliases[p]
            BY <3>1, <3>2 DEF On
        <3>3. CASE p \in carried /\ aliases'[p] = t0
            <4>1. d = c
                <5>1. d # Anyone
                    BY Ids
                <5>2. \A j : ~(OpeningPair(j)[2] > 1)
                    BY DEF OpeningPair
                <5> QED
                    BY <1>2, <3>1, <3>3, <5>1, <5>2
            <4> QED
                BY <1>5, <3>1, <3>3, <4>1
        <3> QED
            BY <1>6, <3>1, <3>2, <3>3
    <2>2. CASE ~ \E p \in Threads!Pairs : p[1] = d /\ p[2] > 1 /\ aliases'[p] = t
        <3>1. CASE d = c
            BY <1>1, <1>4, <1>5, <1>8, <2>2, <3>1 DEF On
        <3>2. CASE d # c
            BY <1>1, <1>4, <1>8, <2>2, <3>2 DEF On
        <3> QED
            BY <3>1, <3>2
    <2> QED
        BY <2>1, <2>2
<1>9. ASSUME NEW j \in Conversations
      PROVE  \/ aliases'[OpeningPair(j)] = aliases[OpeningPair(j)]
             \/ outcome[j] # "none" /\ (SteadyJob(j) => aliases'[OpeningPair(j)] = T[j])
    <2>1. CASE OpeningPair(j) \in carried /\ aliases'[OpeningPair(j)] = t0
        <3>1. Opened(c, j)
            BY <1>2, <2>1, Ids DEF OpeningPair, Opened
        <3>2. outcome[j] # "none"
            BY <3>1 DEF ThreadsInvOf, JobStands
        <3>3. SteadyJob(j) => t0 = T[j]
            BY <1>5, <3>1 DEF ThreadsInvOf
        <3> QED
            BY <2>1, <3>2, <3>3
    <2> QED
        BY <1>6, <2>1, Ids
<1>10. Stands(c)'
    BY <1>1, <1>4, <1>5 DEF Stands, OpeningPair
<1>11. Waits(T, c)'
    BY <1>1, <1>5 DEF Waits
<1>12. \A d \in Conversations : Stands(d)' /\ Waits(T, d)'
    BY <1>1, <1>4, <1>8, <1>10, <1>11, OthersStand
<1>13. \A i, j \in Conversations : HoldsBase(T, i)' /\ HoldsBase(T, j)' => i = j
    <2>1. \A d \in Conversations : HoldsBase(T, d)' => HoldsBase(T, d)
        BY <1>1, <1>4 DEF HoldsBase, Threads!Base
    <2> QED
        BY <2>1 DEF ThreadsInvOf
<1> QED
    BY <1>1, <1>7, <1>8, <1>9, <1>12, <1>13, ThreadsFrame

\* What moves no request: the job of an opening ends, its record goes, and a recording leads where its
\* turn ran.
LEMMA NoRequestMoves ==
    ASSUME NEW T, ThreadsInvOf(T), Threads!TypeOK',
           UNCHANGED <<threads, history, request, placed, unsure>>, opening' \subseteq opening,
           \A j \in Conversations : outcome'[j] = "none" <=> outcome[j] = "none",
           \A k \in tasks' : \E l \in tasks : l.pair = k.pair /\ l.thread = k.thread,
           \A p \in Threads!Pairs :
               aliases'[p] = aliases[p] \/ \E k \in tasks : k.pair = p /\ aliases'[p] = k.thread
    PROVE  ThreadsInvOf(T)'
<1>1. \A d \in Conversations, t \in Threads!Threads : On(d, t)' => On(d, t)
    BY DEF On
<1>2. \A d \in Conversations : Stands(d)' /\ Waits(T, d)'
    BY <1>1, OthersStand
<1>3. \A i, j \in Conversations : HoldsBase(T, i)' /\ HoldsBase(T, j)' => i = j
    <2>1. \A d \in Conversations : HoldsBase(T, d)' => HoldsBase(T, d)
        BY DEF HoldsBase, Threads!Base
    <2> QED
        BY <2>1 DEF ThreadsInvOf
<1>4. \A j \in Conversations :
        \/ aliases'[OpeningPair(j)] = aliases[OpeningPair(j)]
        \/ outcome[j] # "none" /\ (SteadyJob(j) => aliases'[OpeningPair(j)] = T[j])
    BY Ids DEF ThreadsInvOf, JobStands
<1> QED
    BY <1>1, <1>2, <1>3, <1>4, ThreadsFrame

LEMMA FinishKept ==
    ASSUME NEW T, ThreadsInvOf(T), NEW c \in Conversations, Threads!Finish(c)
    PROVE  ThreadsInvOf(T)'
<1>1. PICK end \in {"done", "lost"} : outcome' = [outcome EXCEPT ![c] = end]
    BY DEF Threads!Finish
<1>2. /\ outcome[c] # "none"
      /\ UNCHANGED <<threads, aliases, history, request, opening, tasks, placed, unsure>>
    BY DEF Threads!Finish
<1>3. Threads!TypeOK'
    BY <1>1, <1>2 DEF ThreadsInvOf, Threads!TypeOK, Threads!Outcomes
<1>4. \A j \in Conversations : outcome'[j] = "none" <=> outcome[j] = "none"
    BY <1>1, <1>2 DEF ThreadsInvOf, Threads!TypeOK
<1> QED
    BY <1>2, <1>3, <1>4, NoRequestMoves

LEMMA ExpireKept ==
    ASSUME NEW T, ThreadsInvOf(T), Threads!Expire
    PROVE  ThreadsInvOf(T)'
<1>1. opening' = {} /\ UNCHANGED <<threads, aliases, history, request, outcome, tasks, placed, unsure>>
    BY DEF Threads!Expire
<1>2. Threads!TypeOK'
    BY <1>1 DEF ThreadsInvOf, Threads!TypeOK
<1> QED
    BY <1>1, <1>2, NoRequestMoves

LEMMA RememberKept ==
    ASSUME NEW T, ThreadsInvOf(T), NEW k \in tasks, Threads!Remember(k)
    PROVE  ThreadsInvOf(T)'
<1>1. /\ aliases' = Threads!WithAliases({k.pair}, k.thread) \/ aliases' = aliases
      /\ tasks' \subseteq tasks \cup {[k EXCEPT !.at = "release"]}
      /\ UNCHANGED <<threads, history, request, opening, outcome, placed, unsure>>
    BY DEF Threads!Remember
<1>2. k \in [at : {"remember", "release"}, pair : Threads!Pairs, thread : Threads!Threads,
             release : SUBSET Conversations]
    BY DEF ThreadsInvOf, Threads!TypeOK
<1>3. Threads!TypeOK'
    <2>1. aliases' \in [Threads!Pairs -> Threads!Threads \cup {NoThread}]
        BY <1>1, <1>2 DEF ThreadsInvOf, Threads!TypeOK, Threads!WithAliases
    <2>2. [k EXCEPT !.at = "release"] \in [at : {"remember", "release"}, pair : Threads!Pairs,
                                           thread : Threads!Threads, release : SUBSET Conversations]
        BY <1>2
    <2> QED
        BY <1>1, <2>1, <2>2 DEF ThreadsInvOf, Threads!TypeOK
<1>4. \A l \in tasks' : \E h \in tasks : h.pair = l.pair /\ h.thread = l.thread
    BY <1>1, <1>2
<1>5. \A p \in Threads!Pairs :
        aliases'[p] = aliases[p] \/ \E h \in tasks : h.pair = p /\ aliases'[p] = h.thread
    BY <1>1, <1>2 DEF Threads!WithAliases
<1> QED
    BY <1>1, <1>3, <1>4, <1>5, NoRequestMoves

LEMMA ReleaseKept ==
    ASSUME NEW T, ThreadsInvOf(T), NEW k \in tasks, Threads!Release(k)
    PROVE  ThreadsInvOf(T)'
<1>1. /\ tasks' \subseteq tasks /\ opening' \subseteq opening
      /\ UNCHANGED <<threads, aliases, history, request, outcome, placed, unsure>>
    BY DEF Threads!Release
<1>2. Threads!TypeOK'
    BY <1>1 DEF ThreadsInvOf, Threads!TypeOK
<1> QED
    BY <1>1, <1>2, NoRequestMoves

\* Submitting: the job it queues is the first on its thread, or it comes to the thread of the job it attaches to.
LEMMA SubmitKept ==
    ASSUME ThreadsInv, NEW c \in Conversations, Threads!Submit(c)
    PROVE  ThreadsInv'
<1>1. PICK T \in [Conversations -> Threads!Threads] : ThreadsInvOf(T)
    BY DEF ThreadsInv
<1>2. /\ request[c].at = "submit" /\ UNCHANGED <<threads, aliases, history, tasks, placed, unsure>>
    BY DEF Threads!Submit, Threads!At
<1>3. /\ Stands(c) /\ history[c] = <<>> /\ outcome[c] = "none"
      /\ request[c].thread \in {Threads!Base, Threads!Forked(c)}
      /\ request[c].thread = Threads!Base => Threads!Base \in threads
    BY <1>1, <1>2 DEF ThreadsInvOf, Stands
<1>4. request \in RequestType
    BY <1>1 DEF ThreadsInvOf, Threads!TypeOK, RequestType
<1>5. CASE Threads!Attachable # {}
    <2>1. PICK r \in opening : request' = [request EXCEPT ![c] = [at |-> "turn", thread |-> r.thread,
                                                                  job |-> r.job]]
        BY <1>5 DEF Threads!Submit, Threads!Await, Threads!Attachable
    <2> DEFINE record == [at |-> "turn", thread |-> r.thread, job |-> r.job]
    <2>2. /\ r.job \in Conversations /\ r.thread \in Threads!Threads
          /\ outcome[r.job] # "none" /\ r.thread = T[r.job]
        BY <1>1 DEF ThreadsInvOf, Threads!TypeOK, RecordStands
    <2>3. opening' = opening /\ outcome' = outcome
        BY <1>5 DEF Threads!Submit
    <2>4. request'[c] = record
        BY <1>4, <2>1 DEF RequestType
    <2>5. \A t \in Threads!Threads : On(c, t)' => On(c, t)
        BY <1>2, <1>3, <2>4 DEF On
    <2>6. Stands(c)'
        BY <1>2, <1>3, <2>2, <2>3, <2>4, <2>5 DEF Stands, OpeningPair
    <2>7. Waits(T, c)' /\ (HoldsBase(T, c)' => HoldsBase(T, c))
        BY <2>2, <2>3, <2>4 DEF Waits, HoldsBase, Threads!Base
    <2>8. record \in [at : Threads!Steps, thread : Threads!Threads \cup {NoThread},
                      job : Conversations \cup {Anyone}]
        BY <2>2 DEF Threads!Steps
    <2>9. threads' \subseteq Threads!Threads /\ unsure' \subseteq Conversations
        BY <1>1, <1>2 DEF ThreadsInvOf, Threads!TypeOK
    <2>10. record.at = "turn" /\ request' = [request EXCEPT ![c] = record]
        BY <2>1
    <2> HIDE DEF record
    <2>11. ThreadsInvOf(T)'
        BY <1>1, <1>2, <1>3, <2>3, <2>6, <2>7, <2>8, <2>9, <2>10, RequestMoves
    <2>12. Conversations' = Conversations /\ Threads!Threads' = Threads!Threads
        BY DEF Threads!Threads, Threads!Turns
    <2> QED
        BY <1>1, <2>11, <2>12 DEF ThreadsInv
<1>6. CASE Threads!Attachable = {}
    <2>1. PICK t0 \in Threads!Threads : t0 = request[c].thread
        BY <1>3, Ids
    <2>2. /\ opening' = {[job |-> c, thread |-> t0]}
          /\ outcome' = [outcome EXCEPT ![c] = "live"]
          /\ request' = [request EXCEPT ![c] = [at |-> "turn", thread |-> t0, job |-> c]]
        BY <1>6, <2>1 DEF Threads!Submit, Threads!GoTo
    <2>3. PICK U \in [Conversations -> Threads!Threads] :
             U[c] = t0 /\ \A j \in Conversations \ {c} : U[j] = T[j]
        <3>1. [T EXCEPT ![c] = t0] \in [Conversations -> Threads!Threads]
            BY <1>1
        <3> QED
            BY <1>1, <3>1
    <2>4. /\ request'[c] = [at |-> "turn", thread |-> t0, job |-> c]
          /\ \A d \in Conversations \ {c} : request'[d] = request[d]
        BY <1>4, <2>2 DEF RequestType
    <2>5. outcome'[c] = "live" /\ \A d \in Conversations \ {c} : outcome'[d] = outcome[d]
        BY <1>1, <2>2 DEF ThreadsInvOf, Threads!TypeOK
    <2>6. Threads!TypeOK'
        <3>1. request' \in RequestType
            BY <1>4, <2>2, <2>1 DEF RequestType, Threads!Steps
        <3>2. outcome' \in [Conversations -> Threads!Outcomes]
            BY <1>1, <2>2 DEF ThreadsInvOf, Threads!TypeOK, Threads!Outcomes
        <3>3. opening' \subseteq [job : Conversations, thread : Threads!Threads]
            BY <2>2, <2>1
        <3> QED
            BY <1>1, <1>2, <3>1, <3>2, <3>3 DEF ThreadsInvOf, Threads!TypeOK, RequestType
    <2>7. \A d \in Conversations, t \in Threads!Threads : On(d, t)' => On(d, t)
        BY <1>2, <1>3, <2>4 DEF On
    <2>8. \A d, j \in Conversations : (SteadyJob(j)' <=> SteadyJob(j)) /\ (Opened(d, j)' <=> Opened(d, j))
        BY <1>2 DEF SteadyJob, Opened
    <2>9. JobStands(T, c)
        BY <1>1 DEF ThreadsInvOf
    <2>10. ASSUME NEW d \in Conversations \ {c}
           PROVE  Stands(d)'
        <3>1. Stands(d)
            BY <1>1 DEF ThreadsInvOf
        <3> QED
            BY <1>2, <2>4, <2>5, <2>7, <3>1 DEF Stands, OpeningPair, Threads!Base, Threads!Forked
    <2>11. ASSUME NEW d \in Conversations \ {c}
           PROVE  Waits(U, d)'
        <3>1. Waits(T, d)
            BY <1>1 DEF ThreadsInvOf
        <3> QED
            BY <1>2, <1>3, <2>3, <2>4, <2>5, <3>1 DEF Waits
    <2>12. Stands(c)' /\ Waits(U, c)'
        <3>1. Waits(U, c)'
            BY <2>3, <2>4, <2>5 DEF Waits
        <3> QED
            BY <1>2, <1>3, <2>1, <2>4, <2>7, <3>1 DEF Stands, OpeningPair
    <2>13. JobStands(U, c)'
        BY <1>2, <1>3, <2>1, <2>3, <2>5, <2>8, <2>9 DEF JobStands, OpeningPair, Threads!Base, Threads!Forked
    <2>14. ASSUME NEW j \in Conversations \ {c}
           PROVE  JobStands(U, j)'
        <3>1. JobStands(T, j)
            BY <1>1 DEF ThreadsInvOf
        <3> QED
            BY <1>2, <2>3, <2>5, <2>8, <3>1 DEF JobStands, OpeningPair, Threads!Base, Threads!Forked
    <2>15. RecordStands(U)'
        BY <2>2, <2>3, <2>5 DEF RecordStands
    <2>16. \A j \in Conversations : HoldsBase(U, j)' => HoldsBase(T, j)
        BY <1>2, <2>1, <2>3, <2>4, <2>5 DEF HoldsBase, Threads!Base
    <2>17. \A d, j \in Conversations, t \in Threads!Threads :
             SteadyJob(j)' /\ Opened(d, j)' /\ On(d, t)' => t = U[j]
        <3>1. \A d \in Conversations : ~Opened(d, c)
            BY <1>3, <2>9 DEF JobStands
        <3>2. \A d, j \in Conversations, t \in Threads!Threads : SteadyJob(j) /\ Opened(d, j) /\ On(d, t) => t = T[j]
            BY <1>1 DEF ThreadsInvOf
        <3> QED
            BY <2>3, <2>7, <2>8, <3>1, <3>2
    <2>18. \A i, j \in Conversations : HoldsBase(U, i)' /\ HoldsBase(U, j)' => i = j
        BY <1>1, <2>16 DEF ThreadsInvOf
    <2>19. Threads!Threads' = Threads!Threads
        BY DEF Threads!Threads, Threads!Turns
    <2>20. \E V \in [Conversations -> Threads!Threads] :
             /\ RecordStands(V)'
             /\ \A d \in Conversations : Stands(d)' /\ Waits(V, d)'
             /\ \A j \in Conversations : JobStands(V, j)'
             /\ \A i, j \in Conversations : HoldsBase(V, i)' /\ HoldsBase(V, j)' => i = j
             /\ \A d, j \in Conversations, t \in Threads!Threads :
                  SteadyJob(j)' /\ Opened(d, j)' /\ On(d, t)' => t = V[j]
        <3> WITNESS U \in [Conversations -> Threads!Threads]
        <3> QED
            BY <2>10, <2>11, <2>12, <2>13, <2>14, <2>15, <2>17, <2>18
    <2> QED
        BY <2>6, <2>19, <2>20 DEF ThreadsInv, ThreadsInvOf
<1> QED
    BY <1>5, <1>6

\* An answer is recorded on the thread its request came to; the first is that of the job it waited for.
LEMMA AnswerKept ==
    ASSUME NEW T, ThreadsInvOf(T), NEW c \in Conversations, NEW answer \in Threads!Answers,
           Threads!Answer(c, answer)
    PROVE  ThreadsInvOf(T)'
<1>1. PICK N \in Nat : N = Len(history[c]) /\ (N = 0 <=> history[c] = <<>>)
    BY DEF ThreadsInvOf, Threads!TypeOK
<1>2. PICK p, t0, task : /\ p = Threads!Pair(c, N + 1, answer, request[c].job) /\ t0 = request[c].thread
                         /\ task = [at |-> "remember", pair |-> p, thread |-> t0,
                                    release |-> IF N + 1 = 1 /\ answer = "own" THEN {request[c].job} ELSE {}]
    OBVIOUS
<1>3. /\ request[c].at = "turn"
      /\ N = 0 /\ answer = "own" => outcome[request[c].job] = "done"
      /\ history' = [history EXCEPT ![c] = Append(@, p)]
      /\ tasks' \subseteq tasks \cup {task}
      /\ placed' = [placed EXCEPT ![c] = @ \cup {t0}]
      /\ request' = [request EXCEPT ![c] = Threads!Idle]
      /\ UNCHANGED <<threads, aliases, opening, outcome, unsure>>
    BY <1>1, <1>2 DEF Threads!Answer, Threads!At
<1>4. Stands(c) /\ Waits(T, c)
    BY DEF ThreadsInvOf
<1>5. N < MaxTurns /\ t0 \in Threads!Threads
    BY <1>1, <1>2, <1>3, <1>4 DEF Stands
<1>6. N = 0 => \E j \in Conversations : request[c].job = j /\ outcome[j] # "none" /\ t0 = T[j]
    BY <1>1, <1>2, <1>3, <1>4 DEF Waits
<1>7. /\ p \in Threads!Pairs
      /\ N # 0 => p[1] = c /\ p[2] > 1
      /\ N = 0 => \/ p[1] = Anyone /\ p[2] = 1
                  \/ \E j \in Conversations : p = OpeningPair(j) /\ outcome[j] # "none" /\ t0 = T[j]
    <2>1. N + 1 \in Threads!Turns
        BY <1>5, PartsAssumption DEF Threads!ThreadsAssumption, Threads!Turns
    <2>2. CASE N = 0
        <3>1. p = <<IF answer = "own" THEN request[c].job ELSE Anyone, 1, answer>>
            BY <1>2, <2>2 DEF Threads!Pair
        <3>2. CASE answer = "own"
            <4>1. PICK j \in Conversations : request[c].job = j /\ outcome[j] # "none" /\ t0 = T[j]
                BY <1>6, <2>2
            <4>2. p = OpeningPair(j)
                BY <3>1, <3>2, <4>1 DEF OpeningPair
            <4> QED
                BY <2>2, <4>1, <4>2, Ids
        <3>3. CASE answer # "own"
            <4>1. p = <<Anyone, 1, answer>>
                BY <3>1, <3>3
            <4> QED
                BY <2>1, <2>2, <4>1 DEF Threads!Pairs
        <3> QED
            BY <3>2, <3>3
    <2>3. CASE N # 0
        <3>1. p = <<c, N + 1, answer>>
            BY <1>2, <2>3 DEF Threads!Pair
        <3> QED
            BY <2>1, <2>3, <3>1 DEF Threads!Pairs
    <2> QED
        BY <2>2, <2>3
<1>8. task.pair = p /\ task.thread = t0
    BY <1>2
<1>9. /\ history \in [Conversations -> Seq(Threads!Pairs)] /\ request \in RequestType
      /\ placed \in [Conversations -> SUBSET Threads!Threads]
    BY DEF ThreadsInvOf, Threads!TypeOK, RequestType
<1>10. /\ \A d \in Conversations \ {c} : /\ request'[d] = request[d] /\ history'[d] = history[d]
                                         /\ placed'[d] = placed[d]
       /\ request'[c] = Threads!Idle /\ request'[c].at = "idle"
       /\ history'[c] = Append(history[c], p) /\ placed'[c] = placed[c] \cup {t0}
    BY <1>3, <1>9 DEF RequestType, Threads!Idle
<1>11. Threads!TypeOK'
    <2>1. history' \in [Conversations -> Seq(Threads!Pairs)]
        BY <1>3, <1>7, <1>9
    <2>2. placed' \in [Conversations -> SUBSET Threads!Threads]
        BY <1>3, <1>5, <1>9
    <2>3. request' \in RequestType
        BY <1>3, <1>9 DEF RequestType, Threads!Idle, Threads!Steps
    <2>4. task \in [at : {"remember", "release"}, pair : Threads!Pairs, thread : Threads!Threads,
                    release : SUBSET Conversations]
        <3>1. (IF N + 1 = 1 /\ answer = "own" THEN {request[c].job} ELSE {}) \in SUBSET Conversations
            BY <1>1, <1>6
        <3> QED
            BY <1>2, <1>5, <1>7, <3>1
    <2> QED
        BY <1>3, <2>1, <2>2, <2>3, <2>4 DEF ThreadsInvOf, Threads!TypeOK, RequestType
<1>12. /\ Len(history'[c]) = N + 1 /\ history'[c] # <<>> /\ DOMAIN history'[c] = 1..N + 1
       /\ history'[c][N + 1] = p
       /\ \A i \in 1..N : history'[c][i] = history[c][i]
       /\ DOMAIN history[c] = 1..N
    <2>1. PICK before \in Seq(Threads!Pairs) : before = history[c] /\ Len(before) = N
        BY <1>1, <1>9
    <2>2. /\ Len(Append(before, p)) = N + 1
          /\ DOMAIN Append(before, p) = 1..N + 1 /\ DOMAIN before = 1..N
          /\ \A i \in 1..N : Append(before, p)[i] = before[i]
          /\ Append(before, p)[N + 1] = p
        BY <1>7, <2>1
    <2>3. Append(before, p) # <<>>
        BY <2>2
    <2> QED
        BY <1>10, <2>1, <2>2, <2>3
<1>13. \A d, j \in Conversations : /\ Opened(d, j) => Opened(d, j)'
                                   /\ Opened(d, j)' => \/ Opened(d, j)
                                                       \/ d = c /\ N = 0 /\ p = OpeningPair(j)
    <2>1. \A j \in Conversations : /\ Opened(c, j) => Opened(c, j)'
                                   /\ Opened(c, j)' => Opened(c, j) \/ (N = 0 /\ p = OpeningPair(j))
        <3>1. CASE N = 0
            <4>1. history[c] = <<>> /\ history'[c] # <<>> /\ history'[c][1] = p
                BY <1>1, <1>12, <3>1
            <4> QED
                BY <3>1, <4>1 DEF Opened, OpeningPair
        <3>2. CASE N # 0
            <4>1. history'[c][1] = history[c][1] /\ history[c] # <<>> /\ history'[c] # <<>>
                BY <1>1, <1>12, <3>2
            <4> QED
                BY <3>2, <4>1 DEF Opened, OpeningPair
        <3> QED
            BY <3>1, <3>2
    <2>2. \A d \in Conversations \ {c}, j \in Conversations : Opened(d, j)' <=> Opened(d, j)
        BY <1>10 DEF Opened, OpeningPair
    <2> QED
        BY <2>1, <2>2
<1>14. \A j \in Conversations : SteadyJob(j)' => SteadyJob(j)
    BY <1>3, <1>13 DEF SteadyJob
<1>15. ASSUME NEW d \in Conversations \ {c}, NEW t \in Threads!Threads, On(d, t)'
       PROVE  On(d, t)
    <2>1. ~(p[1] = d /\ p[2] > 1)
        BY <1>7, Ids DEF OpeningPair
    <2>2. \A k \in tasks' : k \in tasks \/ k.pair = p
        BY <1>3, <1>8
    <2>3. (\E q \in Threads!Pairs : /\ q[1] = d /\ q[2] > 1
                                    /\ aliases'[q] = t \/ \E k \in tasks' : k.pair = q /\ k.thread = t)
          => On(d, t)
        BY <1>3, <2>1, <2>2 DEF On
    <2> QED
        BY <1>10, <1>15, <2>3 DEF On
<1>16. ASSUME NEW t \in Threads!Threads, On(c, t)'
       PROVE  On(c, t) \/ t = t0
    <2>1. \A k \in tasks' : k \in tasks \/ k.thread = t0
        BY <1>3, <1>8
    <2>2. (\E q \in Threads!Pairs : /\ q[1] = c /\ q[2] > 1
                                    /\ aliases'[q] = t \/ \E k \in tasks' : k.pair = q /\ k.thread = t)
          => On(c, t) \/ t = t0
        BY <1>3, <2>1 DEF On
    <2> QED
        BY <1>10, <1>16, <2>2 DEF On
<1>17. N # 0 => On(c, t0)
    BY <1>1, <1>2, <1>3 DEF On
<1>18. N = 0 => \A t \in Threads!Threads : ~On(c, t)
    BY <1>1, <1>4 DEF Stands
<1>19. \A d \in Conversations \ {c} : Stands(d)' /\ Waits(T, d)'
    BY <1>3, <1>10, <1>15, OthersStand
<1>20. Stands(c)' /\ Waits(T, c)'
    <2>1. history'[c][1][1] = Anyone \/ \E j \in Conversations : history'[c][1] = OpeningPair(j)
        <3>1. CASE N = 0
            BY <1>7, <1>12, <3>1
        <3>2. CASE N # 0
            BY <1>1, <1>4, <1>12, <3>2 DEF Stands
        <3> QED
            BY <3>1, <3>2
    <2>2. \A i \in DOMAIN history'[c] : i > 1 => history'[c][i][1] = c /\ history'[c][i][2] > 1
        BY <1>4, <1>7, <1>12 DEF Stands
    <2> QED
        BY <1>10, <1>12, <2>1, <2>2 DEF Stands, Waits, OpeningPair
<1>21. RecordStands(T)'
    BY <1>3 DEF ThreadsInvOf, RecordStands
<1>22. ASSUME NEW j \in Conversations
       PROVE  JobStands(T, j)'
    <2>1. JobStands(T, j)
        BY DEF ThreadsInvOf
    <2>2. p = OpeningPair(j) => outcome[j] # "none" /\ t0 = T[j]
        <3>1. OpeningPair(j)[2] = 1 /\ OpeningPair(j)[1] = j /\ j # Anyone
            BY Ids DEF OpeningPair
        <3>2. \A i \in Conversations : OpeningPair(i) = OpeningPair(j) => i = j
            BY DEF OpeningPair
        <3> QED
            BY <1>7, <3>1, <3>2
    <2>3. \A k \in tasks' : k \in tasks \/ (k.pair = p /\ k.thread = t0)
        BY <1>3, <1>8
    <2>4. \A k \in tasks' : k.pair = OpeningPair(j) => outcome'[j] # "none" /\ k.thread = T[j]
        BY <1>3, <2>1, <2>2, <2>3 DEF JobStands
    <2>5. outcome'[j] = "none" => \A d \in Conversations : ~Opened(d, j)'
        BY <1>3, <1>13, <2>1, <2>2 DEF JobStands
    <2> QED
        BY <1>3, <1>14, <2>1, <2>4, <2>5 DEF JobStands, OpeningPair, Threads!Base, Threads!Forked
<1>23. \A i, j \in Conversations : HoldsBase(T, i)' /\ HoldsBase(T, j)' => i = j
    <2>1. \A d \in Conversations : HoldsBase(T, d)' => HoldsBase(T, d)
        BY <1>3, <1>10 DEF HoldsBase, Threads!Base
    <2> QED
        BY <2>1 DEF ThreadsInvOf
<1>24. ASSUME NEW d \in Conversations, NEW j \in Conversations, NEW t \in Threads!Threads,
              SteadyJob(j)', Opened(d, j)', On(d, t)'
       PROVE  t = T[j]
    <2>1. CASE d # c
        BY <1>13, <1>14, <1>15, <1>24, <2>1 DEF ThreadsInvOf
    <2>2. CASE d = c /\ N # 0
        BY <1>13, <1>14, <1>16, <1>17, <1>24, <2>2 DEF ThreadsInvOf
    <2>3. CASE d = c /\ N = 0
        <3>1. p = OpeningPair(j)
            BY <1>1, <1>13, <1>24, <2>3 DEF Opened
        <3>2. t0 = T[j]
            BY <1>7, <2>3, <3>1, Ids DEF OpeningPair
        <3> QED
            BY <1>16, <1>18, <1>24, <2>3, <3>2
    <2> QED
        BY <2>1, <2>2, <2>3
<1>25. Threads!Threads' = Threads!Threads
    BY DEF Threads!Threads, Threads!Turns
<1> QED
    BY <1>11, <1>19, <1>20, <1>21, <1>22, <1>23, <1>24, <1>25 DEF ThreadsInvOf

LEMMA ThreadsInit ==
    ASSUME Threads!Init
    PROVE  ThreadsInv
<1>1. Threads!TypeOK
    BY DEF Threads!Init, Threads!TypeOK, Threads!Idle, Threads!Steps, Threads!Outcomes
<1>2. /\ \A c \in Conversations : /\ placed[c] = {} /\ request[c].at = "idle" /\ history[c] = <<>>
                                  /\ Len(history[c]) = 0 /\ outcome[c] = "none"
      /\ opening = {} /\ tasks = {} /\ \A p \in Threads!Pairs : aliases[p] = NoThread
    BY DEF Threads!Init, Threads!Idle
<1>3. \A c \in Conversations, t \in Threads!Threads : ~On(c, t)
    BY <1>2, Ids DEF On
<1>4. PICK T \in [Conversations -> Threads!Threads] : T = [c \in Conversations |-> Threads!Base]
    BY Ids
<1>5. \A c \in Conversations : Stands(c) /\ Waits(T, c)
    BY <1>2, <1>3 DEF Stands, Waits
<1>6. \A j \in Conversations : JobStands(T, j) /\ ~HoldsBase(T, j)
    BY <1>2, Ids DEF JobStands, HoldsBase, Opened
<1>7. RecordStands(T)
    BY <1>2 DEF RecordStands
<1>8. ThreadsInvOf(T)
    BY <1>1, <1>2, <1>3, <1>5, <1>6, <1>7 DEF ThreadsInvOf
<1> QED
    BY <1>8 DEF ThreadsInv

LEMMA ThreadsStep ==
    ASSUME ThreadsInv, Threads!Next
    PROVE  ThreadsInv'
<1>1. PICK T \in [Conversations -> Threads!Threads] : ThreadsInvOf(T)
    BY DEF ThreadsInv
<1>2. ThreadsInvOf(T)' => ThreadsInv'
    <2>1. Threads!Threads' = Threads!Threads
        BY DEF Threads!Threads, Threads!Turns
    <2> QED
        BY <2>1 DEF ThreadsInv
<1>3. ASSUME NEW c \in Conversations,
             \/ Threads!Ask(c) \/ Threads!Create(c) \/ Threads!Fork(c)
             \/ Threads!Find(c) \/ Threads!Own(c) \/ Threads!Add(c) \/ Threads!Finish(c)
      PROVE  ThreadsInv'
    BY <1>1, <1>2, <1>3, AskKept, CreateKept, ForkKept, FindKept, OwnKept, AddKept, FinishKept
<1>4. ASSUME NEW c \in Conversations, NEW answer \in Threads!AnswersTo(c), Threads!Answer(c, answer)
      PROVE  ThreadsInv'
    BY <1>1, <1>2, <1>4, AnswerKept DEF Threads!AnswersTo
<1>5. ASSUME NEW k \in tasks, Threads!Remember(k) \/ Threads!Release(k)
      PROVE  ThreadsInv'
    BY <1>1, <1>2, <1>5, RememberKept, ReleaseKept
<1>6. ASSUME Threads!Expire
      PROVE  ThreadsInv'
    BY <1>1, <1>2, <1>6, ExpireKept
<1>7. ASSUME NEW c \in Conversations, Threads!Submit(c)
      PROVE  ThreadsInv'
    BY <1>7, SubmitKept
<1> QED
    BY <1>3, <1>4, <1>5, <1>6, <1>7 DEF Threads!Next

LEMMA ThreadsRest ==
    ASSUME ThreadsInv, UNCHANGED threadsVars
    PROVE  ThreadsInv'
<1>1. PICK T \in [Conversations -> Threads!Threads] : ThreadsInvOf(T)
    BY DEF ThreadsInv
<1>2. UNCHANGED <<threads, aliases, history, request, opening, outcome, tasks, placed, unsure>>
    BY DEF threadsVars
<1>3. Threads!TypeOK'
    BY <1>1, <1>2 DEF ThreadsInvOf, Threads!TypeOK
<1>4. ThreadsInvOf(T)'
    BY <1>1, <1>2, <1>3, NoRequestMoves
<1>5. Threads!Threads' = Threads!Threads
    BY DEF Threads!Threads, Threads!Turns
<1> QED
    BY <1>4, <1>5 DEF ThreadsInv

LEMMA ThreadsAlways == ChatSpec => []ThreadsInv
<1>1. ChatInit => ThreadsInv
    BY ThreadsInit DEF ChatInit
<1>2. ThreadsInv /\ [ChatNext]_chatVars => ThreadsInv'
    BY ThreadsStep, ThreadsRest DEF ChatNext, chatVars
<1> QED
    BY <1>1, <1>2, PTL DEF ChatSpec

\* A sound conversation that had an answer had its first from some job, and that job is steady.
LEMMA SoundOpened ==
    ASSUME NEW T, ThreadsInvOf(T), NEW c \in Conversations, Threads!Sound(c), NEW t \in placed[c]
    PROVE  \E j \in Conversations : Opened(c, j) /\ SteadyJob(j) /\ t = T[j] /\ outcome[j] # "none"
<1>1. t \in Threads!Threads /\ On(c, t)
    BY DEF ThreadsInvOf, Threads!TypeOK, On
<1>2. Stands(c) /\ history[c] # <<>>
    BY <1>1 DEF ThreadsInvOf, Stands
<1>3. 1 \in DOMAIN history[c]
    BY <1>2 DEF ThreadsInvOf, Threads!TypeOK
<1>4. PICK j \in Conversations : Opened(c, j)
    BY <1>2, <1>3 DEF Stands, Opened, Threads!Sound
<1>5. SteadyJob(j)
    BY <1>4 DEF SteadyJob, Opened, Threads!Sound, Threads!Companions
<1>6. outcome[j] # "none"
    BY <1>4 DEF ThreadsInvOf, JobStands
<1>7. t = T[j]
    BY <1>1, <1>4, <1>5 DEF ThreadsInvOf
<1> QED
    BY <1>4, <1>5, <1>6, <1>7

\* threads.py 7-11: a conversation whose requests always carried a known pair stays on one thread, and
\* shares it with no other that opened with the same words, unless one job answered both openings.
THEOREM ThreadKeptHolds == ChatSpec => []ThreadKept
<1>1. ASSUME ThreadsInv
      PROVE  ThreadKept
    <2>1. PICK T \in [Conversations -> Threads!Threads] : ThreadsInvOf(T)
        BY <1>1 DEF ThreadsInv
    <2>2. ASSUME NEW c \in Conversations, Threads!Sound(c), NEW s \in placed[c], NEW t \in placed[c]
          PROVE  s = t
        <3>1. PICK i \in Conversations : Opened(c, i) /\ s = T[i]
            BY <2>1, <2>2, SoundOpened
        <3>2. PICK j \in Conversations : Opened(c, j) /\ t = T[j]
            BY <2>1, <2>2, SoundOpened
        <3>3. i = j
            BY <3>1, <3>2 DEF Opened, OpeningPair
        <3> QED
            BY <3>1, <3>2, <3>3
    <2>3. ASSUME NEW c \in Conversations, NEW d \in Conversations, Threads!Sound(c), Threads!Sound(d),
                 d \notin Threads!Companions(c), NEW t \in placed[c], t \in placed[d]
          PROVE  FALSE
        <3>1. PICK i \in Conversations : Opened(c, i) /\ t = T[i] /\ outcome[i] # "none"
            BY <2>1, <2>3, SoundOpened
        <3>2. PICK j \in Conversations : Opened(d, j) /\ t = T[j] /\ outcome[j] # "none"
            BY <2>1, <2>3, SoundOpened
        <3>3. i # j
            BY <2>3, <3>1, <3>2 DEF Opened, Threads!Companions
        <3>4. JobStands(T, i) /\ JobStands(T, j)
            BY <2>1 DEF ThreadsInvOf
        <3>5. t = Threads!Base
            BY <3>1, <3>2, <3>3, <3>4, Ids DEF JobStands
        <3>6. HoldsBase(T, i) /\ HoldsBase(T, j)
            BY <3>1, <3>2, <3>5 DEF HoldsBase
        <3> QED
            BY <2>1, <3>3, <3>6 DEF ThreadsInvOf
    <2>4. Threads!KeepsItsThread /\ Threads!KeptApart
        BY <2>2, <2>3 DEF Threads!KeepsItsThread, Threads!KeptApart
    <2> QED
        BY <2>4 DEF ThreadKept
<1> QED
    BY <1>1, ThreadsAlways, PTL

-----------------------------------------------------------------------------
(* ChatTurn: what a turn does once *)

Kind(i) == messages[i].kind
LastPlace == Len(messages)

\* No reply is followed by a message of the investor's.
Unanswered ==
    \A i \in 1..LastPlace : Kind(i) = "ai" => \A j \in i..LastPlace : Kind(j) # "human"

\* What the node that runs next goes by.
TurnStands ==
    /\ turnNode # "idle" => LastPlace > 0
    /\ turnNode = "context" /\ Kind(LastPlace) = "human" => turn.decided = 0
    /\ turnNode = "agent" /\ turn.opening = TRUE => Unanswered
    /\ turnNode = "tools" => /\ Kind(LastPlace) = "ai"
                             /\ \E n \in 1..MaxToolCalls : messages[LastPlace].calls = {LastPlace} \X (1..n)
    /\ turnNode \in {"compact", "summary"} => turn.told = turn.decided
    /\ turnNode = "summary" => Turn!Due /\ Turn!Span \subseteq saved

\* A tool's result comes after a reply.
RepliesFirst(ms) == \A j \in 1..Len(ms) : ms[j].kind = "tool" => \E i \in 1..j - 1 : ms[i].kind = "ai"

TurnInv ==
    /\ Turn!TypeOK
    /\ turn.decided <= 1
    /\ TurnStands
    /\ RepliesFirst(messages)
    /\ Turn!SummaryIsWhole

\* The least of some naturals.
LEMMA LeastExists ==
    ASSUME NEW S \in SUBSET Nat, S # {}
    PROVE  \E i \in S : \A j \in S : i <= j
<1>1. PICK i \in S : \A j \in S : ~(<<j, i>> \in OpToRel(<, Nat))
    BY WFMin, NatLessThanWellFounded
<1>2. \A j \in S : ~(j < i)
    BY <1>1 DEF OpToRel
<1> QED
    BY <1>2

\* The calls of a reply are put in some order, each once.
LEMMA InSomeOrder ==
    ASSUME NEW S, IsFiniteSet(S), S # {}
    PROVE  \E n \in Nat \ {0} : Turn!SetToSeq(S) \in [1..n -> S]
<1>1. \A T : Turn!Cardinality(T) = Cardinality(T)
    BY DEF Turn!Cardinality, Cardinality
<1>2. PICK n : n = Cardinality(S)
    OBVIOUS
<1>3. n \in Nat \ {0}
    BY <1>2, FS_CardinalityType, FS_EmptySet
<1>4. \E f \in [1..n -> S] : Turn!IsInjective(f)
    BY <1>2, FS_CardinalityType DEF ExistsBijection, Bijection, Injection, IsInjective, Turn!IsInjective
<1>5. Turn!SetToSeq(S) \in [1..n -> S]
    BY <1>1, <1>2, <1>4 DEF Turn!SetToSeq
<1> QED
    BY <1>3, <1>5

\* The window begins at a place in the thread, at a human message, and has at most its length of messages.
LEMMA WindowBegins ==
    ASSUME Turn!TypeOK
    PROVE  /\ Turn!Window_start \in 0..Len(messages)
           /\ Len(messages) <= Turn!Window_start + HISTORY_MESSAGES
           /\ Turn!Window_start < Len(messages) => messages[Turn!Window_start + 1].kind = "human"
<1>1. PICK N \in Nat : N = Len(messages)
    BY DEF Turn!TypeOK
<1>2. PICK start \in 0..N : /\ start = IF N > HISTORY_MESSAGES THEN N - HISTORY_MESSAGES ELSE 0
                            /\ N <= start + HISTORY_MESSAGES
    <2>1. HISTORY_MESSAGES \in Nat \ {0}
        BY PartsAssumption DEF Turn!TurnAssumption
    <2>2. PICK start : start = IF N > HISTORY_MESSAGES THEN N - HISTORY_MESSAGES ELSE 0
        OBVIOUS
    <2>3. start \in 0..N /\ N <= start + HISTORY_MESSAGES
        BY <1>1, <2>1, <2>2
    <2> QED
        BY <2>2, <2>3
<1> DEFINE from == {i \in start..N : i < N => messages[i + 1].kind = "human"}
<1>3. N \in from /\ from \in SUBSET Nat /\ from \subseteq 0..N
    BY <1>1, <1>2
<1>4. Turn!Window_start = CHOOSE i \in from : \A j \in from : i <= j
    BY <1>1, <1>2 DEF Turn!Window_start
<1>7. \A i \in from : start <= i /\ i \in 0..N /\ (i < N => messages[i + 1].kind = "human")
    BY <1>1, <1>2
<1> HIDE DEF from
<1>5. \E i \in from : \A j \in from : i <= j
    BY <1>3, LeastExists
<1>6. PICK w \in from : w = Turn!Window_start
    BY <1>4, <1>5
<1>8. w \in 0..N /\ start <= w /\ (w < N => messages[w + 1].kind = "human")
    BY <1>6, <1>7
<1>9. N <= w + HISTORY_MESSAGES
    <2>1. HISTORY_MESSAGES \in Nat
        BY PartsAssumption DEF Turn!TurnAssumption
    <2> QED
        BY <1>1, <1>2, <1>8, <2>1
<1> QED
    BY <1>1, <1>6, <1>8, <1>9

\* Messages put after others.
LEMMA Longer ==
    ASSUME NEW ms \in Seq(Turn!Message), NEW more \in Seq(Turn!Message)
    PROVE  /\ ms \o more \in Seq(Turn!Message)
           /\ Len(ms \o more) = Len(ms) + Len(more)
           /\ \A i \in 1..Len(ms) : (ms \o more)[i] = ms[i]
           /\ \A i \in Len(ms) + 1..Len(ms) + Len(more) : (ms \o more)[i] = more[i - Len(ms)]
OBVIOUS

\* Tools' results put after a reply.
LEMMA RepliesStayFirst ==
    ASSUME NEW ms \in Seq(Turn!Message), NEW more \in Seq(Turn!Message), RepliesFirst(ms),
           \A i \in 1..Len(more) : more[i].kind = "tool" => \E k \in 1..Len(ms) : ms[k].kind = "ai"
    PROVE  RepliesFirst(ms \o more)
<1>1. PICK n \in Nat, m \in Nat : n = Len(ms) /\ m = Len(more)
    OBVIOUS
<1>2. PICK all \in Seq(Turn!Message) :
         /\ all = ms \o more /\ Len(all) = n + m
         /\ \A i \in 1..n : all[i] = ms[i]
         /\ \A i \in n + 1..n + m : all[i] = more[i - n]
    BY <1>1, Longer
<1>3. ASSUME NEW j \in 1..n + m, all[j].kind = "tool"
      PROVE  \E i \in 1..j - 1 : all[i].kind = "ai"
    <2>1. CASE j <= n
        <3>1. j \in 1..n
            BY <1>1, <2>1
        <3>2. PICK i \in 1..j - 1 : ms[i].kind = "ai"
            BY <1>1, <1>2, <1>3, <3>1 DEF RepliesFirst
        <3>3. i \in 1..n
            BY <1>1, <3>1
        <3> QED
            BY <1>2, <3>2, <3>3
    <2>2. CASE j > n
        <3>1. j \in n + 1..n + m /\ j - n \in 1..m
            BY <1>1, <2>2
        <3>2. PICK k \in 1..n : ms[k].kind = "ai"
            BY <1>1, <1>2, <1>3, <3>1
        <3>3. k \in 1..j - 1
            BY <1>1, <2>2
        <3> QED
            BY <1>2, <3>2, <3>3
    <2> QED
        BY <1>1, <2>1, <2>2
<1> QED
    BY <1>2, <1>3 DEF RepliesFirst

LEMMA TurnParts ==
    ASSUME Turn!TypeOK
    PROVE  /\ messages \in Seq(Turn!Message) /\ LastPlace \in Nat /\ LastPlace <= MaxMessages
           /\ MaxMessages \in Nat /\ MaxToolCalls \in Nat
           /\ \A i \in 1..LastPlace : Kind(i) \in {"human", "ai", "tool"}
<1>1. messages \in Seq(Turn!Message) /\ LastPlace \in Nat /\ LastPlace <= MaxMessages
    BY DEF Turn!TypeOK, LastPlace
<1>2. MaxMessages \in Nat /\ MaxToolCalls \in Nat
    BY PartsAssumption DEF Turn!TurnAssumption
<1>3. \A i \in 1..LastPlace : messages[i] \in Turn!Message
    BY <1>1 DEF LastPlace
<1> QED
    BY <1>1, <1>2, <1>3 DEF Turn!Message, Kind

\* The investor's message: nothing is decided yet.
LEMMA TurnAsked ==
    ASSUME TurnInv, Turn!Ask
    PROVE  TurnInv'
<1> DEFINE new == <<Turn!Human(Turn!Next_place)>>
<1>1. /\ LastPlace < MaxMessages /\ messages' = messages \o new /\ turnNode' = "context"
      /\ UNCHANGED <<summarized, covered, saved, clean>>
    BY DEF Turn!Ask, Turn!Add, Turn!Compacted, LastPlace
<1>2. PICK phrase \in BOOLEAN : turn' = [Turn!NoTurn EXCEPT !.phrase = phrase]
    BY DEF Turn!Ask
<1>3. turn' = [phrase |-> phrase, decided |-> 0, told |-> 0, opening |-> FALSE]
    BY <1>2 DEF Turn!NoTurn
<1>4. /\ messages \in Seq(Turn!Message) /\ LastPlace \in Nat /\ MaxMessages \in Nat
      /\ LastPlace = Len(messages)
    BY TurnParts DEF TurnInv, LastPlace
<1>5. /\ Turn!Human(Turn!Next_place) \in Turn!Message /\ Turn!Human(Turn!Next_place).kind = "human"
    BY <1>1, <1>4 DEF Turn!Human, Turn!Message, Turn!CallIds, Turn!Next_place
<1>6. new \in Seq(Turn!Message) /\ Len(new) = 1 /\ new[1].kind = "human"
    BY <1>5
<1> HIDE DEF new
<1>7. messages' \in Seq(Turn!Message) /\ LastPlace' = LastPlace + 1
    <2>1. /\ messages \o new \in Seq(Turn!Message)
          /\ Len(messages \o new) = Len(messages) + Len(new)
        BY <1>4, <1>6, Longer
    <2> QED
        BY <1>1, <1>4, <1>6, <2>1 DEF LastPlace
<1>8. Turn!TypeOK'
    <2>1. turn' \in Turn!Turn
        BY <1>3, <1>4 DEF Turn!Turn
    <2>2. Len(messages') <= MaxMessages
        BY <1>1, <1>4, <1>7 DEF LastPlace
    <2> QED
        BY <1>1, <1>7, <2>1, <2>2 DEF TurnInv, Turn!TypeOK, Turn!Nodes
<1>9. TurnStands'
    BY <1>1, <1>3, <1>4, <1>7 DEF TurnStands
<1>10. RepliesFirst(messages)'
    BY <1>1, <1>4, <1>6, RepliesStayFirst DEF TurnInv
<1> QED
    BY <1>1, <1>3, <1>8, <1>9, <1>10 DEF TurnInv, Turn!SummaryIsWhole

\* A decision is applied on the investor's own message, where none was yet.
LEMMA TurnDecided ==
    ASSUME TurnInv, Turn!Decide
    PROVE  TurnInv'
<1>1. /\ turnNode = "context" /\ turnNode' = "known" /\ messages[Len(messages)].kind = "human"
      /\ turn' = [turn EXCEPT !.decided = @ + 1]
      /\ UNCHANGED <<messages, summarized, covered, saved, clean>>
    BY DEF Turn!Decide, Turn!Deciding, Turn!Compacted
<1>2. /\ LastPlace \in Nat /\ LastPlace <= MaxMessages
      /\ MaxMessages \in Nat /\ LastPlace = Len(messages) /\ LastPlace > 0
    BY <1>1, TurnParts DEF TurnInv, LastPlace, TurnStands
<1>3. turn.decided = 0
    BY <1>1, <1>2 DEF TurnInv, TurnStands, Kind
<1>4. turn \in Turn!Turn
    BY DEF TurnInv, Turn!TypeOK
<1>5. turn' = [turn EXCEPT !.decided = 1]
    BY <1>1, <1>3
<1>6. turn'.decided = 1 /\ turn' \in Turn!Turn
    BY <1>2, <1>4, <1>5 DEF Turn!Turn
<1>7. Turn!TypeOK'
    BY <1>1, <1>6 DEF TurnInv, Turn!TypeOK, Turn!Nodes
<1>8. LastPlace' = LastPlace
    BY <1>1 DEF LastPlace
<1>9. TurnStands'
    BY <1>1, <1>2, <1>8 DEF TurnStands
<1>10. RepliesFirst(messages)'
    BY <1>1 DEF TurnInv
<1> QED
    BY <1>1, <1>6, <1>7, <1>9, <1>10 DEF TurnInv, Turn!SummaryIsWhole

\* The rest of the context is read.
LEMMA TurnRead ==
    ASSUME TurnInv, Turn!Context
    PROVE  TurnInv'
<1>1. /\ turnNode \in {"context", "known"} /\ turnNode' = "agent"
      /\ UNCHANGED <<messages, summarized, covered, saved, clean>>
    BY DEF Turn!Context, Turn!Compacted
<1>2. PICK opens \in BOOLEAN : opens = Turn!Opening
    BY DEF Turn!Opening
<1>3. turn' = [turn EXCEPT !.opening = opens]
    BY <1>2 DEF Turn!Context
<1>4. /\ messages \in Seq(Turn!Message) /\ LastPlace \in Nat
      /\ LastPlace = Len(messages) /\ LastPlace > 0
    BY <1>1, TurnParts DEF TurnInv, LastPlace, TurnStands
<1>5. turn \in Turn!Turn /\ turn.decided <= 1
    BY DEF TurnInv, Turn!TypeOK
<1>6. turn'.opening = opens /\ turn'.decided = turn.decided /\ turn' \in Turn!Turn
    BY <1>3, <1>5 DEF Turn!Turn
<1>7. Turn!TypeOK'
    BY <1>1, <1>6 DEF TurnInv, Turn!TypeOK, Turn!Nodes
<1>8. LastPlace' = LastPlace /\ \A i : Kind(i)' = Kind(i)
    BY <1>1 DEF LastPlace, Kind
<1>9. turn'.opening = TRUE => Unanswered'
    BY <1>1, <1>2, <1>4, <1>6, <1>8 DEF Turn!Opening, Unanswered, Kind
<1>10. TurnStands'
    BY <1>1, <1>4, <1>8, <1>9 DEF TurnStands
<1>11. RepliesFirst(messages)'
    BY <1>1 DEF TurnInv
<1> QED
    BY <1>1, <1>5, <1>6, <1>7, <1>10, <1>11 DEF TurnInv, Turn!SummaryIsWhole

\* The model's reply.
LEMMA TurnReplied ==
    ASSUME TurnInv, Turn!Agent
    PROVE  TurnInv'
<1>1. /\ LastPlace < MaxMessages /\ turnNode = "agent"
      /\ UNCHANGED <<summarized, covered, saved, turn, clean>>
    BY DEF Turn!Agent, Turn!Compacted, LastPlace
<1>2. PICK n \in 0..MaxToolCalls, said \in BOOLEAN :
         /\ messages' = messages \o <<Turn!Ai(said, {Turn!Next_place} \X (1..n), Turn!Next_place)>>
         /\ turnNode' = IF n = 0 THEN "notice" ELSE "tools"
    BY DEF Turn!Agent, Turn!Add
<1>3. PICK reply : reply = Turn!Ai(said, {Turn!Next_place} \X (1..n), Turn!Next_place)
    OBVIOUS
<1>4. /\ messages \in Seq(Turn!Message) /\ LastPlace \in Nat /\ MaxMessages \in Nat
      /\ MaxToolCalls \in Nat /\ LastPlace = Len(messages) /\ Turn!Next_place = LastPlace + 1
    BY TurnParts DEF TurnInv, LastPlace, Turn!Next_place
<1>5. /\ reply.kind = "ai" /\ reply.calls = {LastPlace + 1} \X (1..n)
      /\ reply \in Turn!Message
    <2>1. {LastPlace + 1} \X (1..n) \in SUBSET Turn!CallIds
        BY <1>1, <1>2, <1>4 DEF Turn!CallIds
    <2> QED
        BY <1>1, <1>3, <1>4, <2>1 DEF Turn!Ai, Turn!Message
<1>6. PICK new : new = <<reply>>
    OBVIOUS
<1>7. /\ new \in Seq(Turn!Message) /\ Len(new) = 1 /\ new[1] = reply
      /\ messages' = messages \o new
    BY <1>2, <1>3, <1>5, <1>6
<1>11. PICK N \in Nat : N = LastPlace
    BY <1>4
<1>12. /\ messages' \in Seq(Turn!Message) /\ Len(messages') = N + 1
       /\ messages'[N + 1] = reply
    <2>1. /\ messages \o new \in Seq(Turn!Message)
          /\ Len(messages \o new) = Len(messages) + Len(new)
          /\ \A i \in Len(messages) + 1..Len(messages) + Len(new) :
                (messages \o new)[i] = new[i - Len(messages)]
        BY <1>4, <1>7, Longer
    <2>2. N + 1 \in N + 1..N + 1 /\ N + 1 - N = 1
        OBVIOUS
    <2> QED
        BY <1>4, <1>7, <1>11, <2>1, <2>2
<1>8. Turn!TypeOK'
    <2>1. Len(messages') <= MaxMessages
        BY <1>1, <1>4, <1>11, <1>12
    <2> QED
        BY <1>1, <1>2, <1>12, <2>1 DEF TurnInv, Turn!TypeOK, Turn!Nodes
<1>9. TurnStands'
    <2>1. n # 0 => n \in 1..MaxToolCalls
        BY <1>2, <1>4
    <2>2. LastPlace' = N + 1 /\ N + 1 > 0
        BY <1>12 DEF LastPlace
    <2>3. messages'[LastPlace'].kind = "ai" /\ messages'[LastPlace'].calls = {LastPlace'} \X (1..n)
        BY <1>5, <1>11, <1>12, <2>2
    <2> QED
        BY <1>2, <2>1, <2>2, <2>3 DEF TurnStands, Kind
<1>10. RepliesFirst(messages)'
    BY <1>4, <1>5, <1>7, RepliesStayFirst DEF TurnInv
<1> QED
    BY <1>1, <1>8, <1>9, <1>10 DEF TurnInv, Turn!SummaryIsWhole

\* The results of calls, one place after another.
ResultsFrom(rs, calls, n) ==
    \A k \in 1..Len(rs) : /\ rs[k].kind = "tool" /\ rs[k].n = n + k
                          /\ rs[k].calls # {} /\ rs[k].calls \subseteq calls

\* What the tools add: the results of the reply's calls, of which there are some.
LEMMA ToolsAdd ==
    ASSUME TurnInv, Turn!Tools
    PROVE  \E results \in Seq(Turn!Message) :
             /\ messages' = messages \o results
             /\ Len(results) # 0 /\ Len(messages) + Len(results) <= MaxMessages
             /\ ResultsFrom(results, messages[Len(messages)].calls, Len(messages))
<1>1. /\ messages \in Seq(Turn!Message) /\ LastPlace \in Nat /\ MaxMessages \in Nat
      /\ MaxToolCalls \in Nat /\ LastPlace = Len(messages)
    BY TurnParts DEF TurnInv, LastPlace
<1>2. turnNode = "tools"
    BY DEF Turn!Tools
<1>3. LastPlace > 0 /\ Kind(LastPlace) = "ai"
    BY <1>2 DEF TurnInv, TurnStands
<1>4. PICK made : made = messages[Len(messages)].calls
    OBVIOUS
<1>5. made # {} /\ IsFiniteSet(made) /\ made \subseteq Turn!CallIds
    <2>1. PICK n \in 1..MaxToolCalls : made = {LastPlace} \X (1..n)
        BY <1>1, <1>2, <1>4 DEF TurnInv, TurnStands
    <2>2. IsFiniteSet({LastPlace}) /\ IsFiniteSet(1..n)
        <3>1. n \in Int /\ 1 \in Int
            BY <1>1
        <3> QED
            BY <3>1, FS_Singleton, FS_Interval
    <2>3. IsFiniteSet(made)
        BY <2>1, <2>2, FS_Product
    <2>4. LastPlace \in 1..MaxMessages
        BY <1>1, <1>3, TurnParts DEF TurnInv
    <2>5. 1..n \subseteq 1..MaxToolCalls /\ 1 \in 1..n
        BY <1>1
    <2>6. <<LastPlace, 1>> \in made /\ made \subseteq Turn!CallIds
        BY <2>1, <2>4, <2>5 DEF Turn!CallIds
    <2> QED
        BY <2>3, <2>6
<1>6. PICK n \in Nat \ {0} : Turn!SetToSeq(made) \in [1..n -> made]
    BY <1>5, InSomeOrder
<1>7. PICK order \in [1..n -> made] : order = Turn!SetToSeq(made)
    BY <1>6
<1>8. Len(order) = n /\ DOMAIN order = 1..n
    BY <1>6
<1> DEFINE results == [k \in 1..n |-> Turn!ToolResult(order[k], Len(messages) + k)]
<1>9. Len(messages) + n <= MaxMessages /\ messages' = messages \o results
    BY <1>4, <1>7, <1>8 DEF Turn!Tools, Turn!Add
<1>10. ASSUME NEW k \in 1..n
       PROVE  /\ results[k] \in Turn!Message /\ results[k].kind = "tool"
              /\ results[k].n = Len(messages) + k
              /\ results[k].calls # {} /\ results[k].calls \subseteq made
    <2>1. results[k] = Turn!ToolResult(order[k], Len(messages) + k)
        OBVIOUS
    <2>2. order[k] \in made /\ {order[k]} \in SUBSET Turn!CallIds /\ Len(messages) + k \in 0..MaxMessages
        BY <1>1, <1>5, <1>6, <1>7, <1>9
    <2> QED
        BY <2>1, <2>2 DEF Turn!ToolResult, Turn!Message
<1>11. results \in Seq(Turn!Message) /\ Len(results) = n
    BY <1>6, <1>10
<1> HIDE DEF results
<1>12. ResultsFrom(results, made, Len(messages))
    BY <1>10, <1>11 DEF ResultsFrom
<1> QED
    BY <1>4, <1>6, <1>9, <1>11, <1>12

LEMMA ToolsRan ==
    ASSUME TurnInv, Turn!Tools
    PROVE  TurnInv'
<1>1. /\ messages \in Seq(Turn!Message) /\ LastPlace \in Nat /\ MaxMessages \in Nat
      /\ LastPlace = Len(messages)
    BY TurnParts DEF TurnInv, LastPlace
<1>2. /\ turnNode = "tools" /\ turnNode' = "context"
      /\ UNCHANGED <<summarized, covered, saved, turn, clean>>
    BY DEF Turn!Tools, Turn!Compacted
<1>3. LastPlace > 0 /\ Kind(LastPlace) = "ai"
    BY <1>2 DEF TurnInv, TurnStands
<1>4. PICK results \in Seq(Turn!Message) :
         /\ messages' = messages \o results
         /\ Len(results) # 0 /\ Len(messages) + Len(results) <= MaxMessages
         /\ ResultsFrom(results, messages[Len(messages)].calls, Len(messages))
    BY ToolsAdd
<1>5. PICK N \in Nat : N = Len(messages)
    BY <1>1
<1>7. PICK n \in Nat : n = Len(results) /\ n # 0
    BY <1>4
<1>6. \A k \in 1..n : results[k].kind = "tool"
    BY <1>4, <1>5, <1>7 DEF ResultsFrom
<1>13. /\ messages' \in Seq(Turn!Message) /\ Len(messages') = N + n
       /\ messages'[N + n].kind = "tool"
    <2>1. N + n \in N + 1..N + n /\ N + n - N \in 1..n
        BY <1>5, <1>7
    <2>2. (messages \o results)[N + n] = results[N + n - N]
        BY <1>1, <1>4, <1>5, <1>7, <2>1, Longer
    <2>3. /\ messages \o results \in Seq(Turn!Message)
          /\ Len(messages \o results) = Len(messages) + Len(results)
        BY <1>1, <1>4, Longer
    <2> QED
        BY <1>4, <1>5, <1>7, <1>6, <2>1, <2>2, <2>3
<1>14. Turn!TypeOK'
    BY <1>2, <1>4, <1>5, <1>7, <1>13 DEF TurnInv, Turn!TypeOK, Turn!Nodes
<1>15. TurnStands'
    <2>1. LastPlace' = N + n /\ N + n > 0
        BY <1>5, <1>7, <1>13 DEF LastPlace
    <2> QED
        BY <1>2, <1>13, <2>1 DEF TurnStands, Kind
<1>16. RepliesFirst(messages)'
    <2>1. LastPlace \in 1..Len(messages) /\ messages[LastPlace].kind = "ai"
        BY <1>1, <1>3 DEF Kind
    <2> QED
        BY <1>1, <1>4, <2>1, RepliesStayFirst DEF TurnInv
<1> QED
    BY <1>2, <1>14, <1>15, <1>16 DEF TurnInv, Turn!SummaryIsWhole

\* The reply tells what was decided.
LEMMA TurnNoticed ==
    ASSUME TurnInv, Turn!Notice
    PROVE  TurnInv'
<1>1. /\ turnNode = "notice" /\ turnNode' = "compact" /\ turn' = [turn EXCEPT !.told = turn.decided]
      /\ UNCHANGED <<summarized, covered, saved, clean>>
    BY DEF Turn!Notice, Turn!Compacted
<1>2. /\ messages \in Seq(Turn!Message) /\ LastPlace \in Nat /\ LastPlace <= MaxMessages
      /\ LastPlace = Len(messages) /\ LastPlace > 0
    BY <1>1, TurnParts DEF TurnInv, LastPlace, TurnStands
<1>3. messages[Len(messages)] \in Turn!Message
    BY <1>2
<1>4. PICK said \in BOOLEAN : messages' = [messages EXCEPT ![Len(messages)].text = said]
    <2>1. (messages[Len(messages)].text \/ turn.decided > 0) \in BOOLEAN
        OBVIOUS
    <2> QED
        BY <2>1 DEF Turn!Notice
<1>5. [messages[Len(messages)] EXCEPT !.text = said] \in Turn!Message
    BY <1>3 DEF Turn!Message
<1>6. PICK N \in Nat, ms \in Seq(Turn!Message), m \in Turn!Message :
         N = Len(messages) /\ ms = messages /\ m = [messages[Len(messages)] EXCEPT !.text = said]
    BY <1>2, <1>5
<1>11. /\ messages' = [ms EXCEPT ![N] = m] /\ N \in 1..N /\ Len(ms) = N /\ m.kind = ms[N].kind
    BY <1>2, <1>3, <1>4, <1>6 DEF Turn!Message
<1>15. ms \in [1..N -> Turn!Message]
    BY <1>11
<1>16. [ms EXCEPT ![N] = m] \in [1..N -> Turn!Message]
    BY <1>15
<1>12. PICK after \in [1..N -> Turn!Message] : after = [ms EXCEPT ![N] = m]
    BY <1>16
<1>13. /\ after \in Seq(Turn!Message) /\ Len(after) = N
       /\ \A i \in 1..N : after[i].kind = ms[i].kind
    BY <1>11, <1>12, <1>15
<1>14. messages' = after /\ LastPlace' = LastPlace
    BY <1>6, <1>11, <1>12, <1>13 DEF LastPlace
<1>7. turn' \in Turn!Turn /\ turn'.told = turn'.decided /\ turn'.decided = turn.decided
    BY <1>1 DEF TurnInv, Turn!TypeOK, Turn!Turn
<1>8. Turn!TypeOK'
    <2>1. Len(messages') <= MaxMessages
        BY <1>2, <1>14 DEF LastPlace
    <2> QED
        BY <1>1, <1>7, <1>13, <1>14, <2>1 DEF TurnInv, Turn!TypeOK, Turn!Nodes
<1>9. TurnStands'
    BY <1>1, <1>2, <1>7, <1>14 DEF TurnStands
<1>10. RepliesFirst(messages)'
    <2>1. \A i \in 1..N : \A j \in 1..i - 1 : j \in 1..N
        OBVIOUS
    <2> QED
        BY <1>6, <1>11, <1>13, <1>14, <2>1 DEF TurnInv, RepliesFirst
<1> QED
    BY <1>1, <1>7, <1>8, <1>9, <1>10 DEF TurnInv, Turn!SummaryIsWhole

\* Compaction: the facts of the span first, then its summary.
LEMMA TurnFlushed ==
    ASSUME TurnInv, Turn!Flush
    PROVE  TurnInv'
<1>1. turnNode = "compact" /\ UNCHANGED <<messages, summarized, covered, turn>>
    BY DEF Turn!Flush
<1>2. \/ Turn!Due /\ saved' = saved \cup Turn!Span /\ turnNode' = "summary" /\ UNCHANGED clean
      \/ turnNode' = "idle" /\ clean' = TRUE /\ UNCHANGED saved
    BY DEF Turn!Flush
<1>3. Turn!Span \subseteq 1..MaxMessages
    BY WindowBegins, TurnParts DEF TurnInv, Turn!TypeOK, Turn!Span, LastPlace
<1>4. Turn!TypeOK'
    <2>1. saved' \subseteq 1..MaxMessages /\ turnNode' \in Turn!Nodes /\ clean' \in BOOLEAN
        BY <1>2, <1>3 DEF TurnInv, Turn!TypeOK, Turn!Nodes
    <2> QED
        BY <1>1, <2>1 DEF TurnInv, Turn!TypeOK
<1>5. LastPlace' = LastPlace /\ \A i : Kind(i)' = Kind(i)
    BY <1>1 DEF LastPlace, Kind
<1>6. Turn!Due' = Turn!Due /\ Turn!Span' = Turn!Span
    BY <1>1 DEF Turn!Due, Turn!Span, Turn!Window_start
<1>7. TurnStands'
    <2>1. turnNode' \in {"summary", "idle"} /\ saved \subseteq saved'
        BY <1>2
    <2>2. turnNode' = "summary" => Turn!Due' /\ Turn!Span' \subseteq saved'
        BY <1>2, <1>6
    <2> QED
        BY <1>1, <1>5, <2>1, <2>2 DEF TurnInv, TurnStands
<1>8. RepliesFirst(messages)'
    BY <1>1 DEF TurnInv
<1>9. Turn!SummaryIsWhole'
    BY <1>1, <1>2 DEF TurnInv, Turn!SummaryIsWhole
<1> QED
    BY <1>1, <1>4, <1>7, <1>8, <1>9 DEF TurnInv

LEMMA TurnSummarized ==
    ASSUME TurnInv, Turn!Summarize
    PROVE  TurnInv'
<1>1. /\ turnNode = "summary" /\ turnNode' = "idle" /\ clean' = TRUE
      /\ summarized' = Turn!Window_start /\ covered' = covered \cup Turn!Span
      /\ UNCHANGED <<messages, saved, turn>>
    BY DEF Turn!Summarize
<1>2. PICK w : w = Turn!Window_start
    OBVIOUS
<1>3. w \in Nat /\ w <= MaxMessages /\ MaxMessages \in Nat /\ summarized \in Nat
    BY <1>2, WindowBegins, TurnParts DEF TurnInv, Turn!TypeOK, LastPlace
<1>4. summarized <= w
    <2>1. BATCH \in Nat \ {0}
        BY PartsAssumption DEF Turn!TurnAssumption
    <2> QED
        BY <1>1, <1>2, <1>3, <2>1 DEF TurnInv, TurnStands, Turn!Due
<1>5. covered' = 1..summarized' /\ covered' \subseteq saved'
    <2>1. covered = 1..summarized /\ covered \subseteq saved /\ Turn!Span \subseteq saved
        BY <1>1 DEF TurnInv, TurnStands, Turn!SummaryIsWhole
    <2>2. Turn!Span = summarized + 1..w
        BY <1>2 DEF Turn!Span
    <2>3. (1..summarized) \cup (summarized + 1..w) = 1..w
        BY <1>3, <1>4
    <2> QED
        BY <1>1, <1>2, <2>1, <2>2, <2>3
<1>6. Turn!TypeOK'
    <2>1. summarized' \in 0..MaxMessages /\ covered' \subseteq 1..MaxMessages
        BY <1>1, <1>2, <1>3, <1>5
    <2> QED
        BY <1>1, <2>1 DEF TurnInv, Turn!TypeOK, Turn!Nodes
<1>7. TurnStands'
    BY <1>1 DEF TurnStands
<1>8. RepliesFirst(messages)'
    BY <1>1 DEF TurnInv
<1> QED
    BY <1>1, <1>5, <1>6, <1>7, <1>8 DEF TurnInv, Turn!SummaryIsWhole

\* A turn that dies or could not compact is over, and nothing else changed.
LEMMA TurnStopped ==
    ASSUME TurnInv, Turn!CompactionFails \/ Turn!Die
    PROVE  TurnInv'
<1>1. /\ turnNode' = "idle" /\ clean' = FALSE
      /\ UNCHANGED <<messages, summarized, covered, saved, turn>>
    BY DEF Turn!CompactionFails, Turn!Die, Turn!Compacted
<1>2. Turn!TypeOK' /\ TurnStands'
    BY <1>1 DEF TurnInv, Turn!TypeOK, Turn!Nodes, TurnStands
<1>3. RepliesFirst(messages)'
    BY <1>1 DEF TurnInv
<1> QED
    BY <1>1, <1>2, <1>3 DEF TurnInv, Turn!SummaryIsWhole

LEMMA TurnInit ==
    ASSUME Turn!Init
    PROVE  TurnInv
<1>1. /\ messages = <<>> /\ Len(messages) = 0 /\ summarized = 0 /\ covered = {} /\ saved = {}
      /\ turnNode = "idle" /\ clean = TRUE
      /\ turn = [phrase |-> FALSE, decided |-> 0, told |-> 0, opening |-> FALSE]
    BY DEF Turn!Init, Turn!NoTurn
<1>2. MaxMessages \in Nat
    BY PartsAssumption DEF Turn!TurnAssumption
<1>3. turn \in Turn!Turn
    BY <1>1, <1>2 DEF Turn!Turn
<1>4. Turn!TypeOK
    BY <1>1, <1>2, <1>3 DEF Turn!TypeOK, Turn!Nodes
<1>5. TurnStands
    BY <1>1 DEF TurnStands
<1>6. RepliesFirst(messages) /\ Turn!SummaryIsWhole
    BY <1>1 DEF RepliesFirst, Turn!SummaryIsWhole
<1> QED
    BY <1>1, <1>4, <1>5, <1>6 DEF TurnInv

LEMMA TurnRest ==
    ASSUME TurnInv, UNCHANGED turnVars
    PROVE  TurnInv'
<1>1. UNCHANGED <<messages, summarized, covered, saved, turnNode, turn, clean>>
    BY DEF turnVars
<1>2. Turn!TypeOK'
    BY <1>1 DEF TurnInv, Turn!TypeOK
<1>3. /\ LastPlace' = LastPlace /\ \A i : Kind(i)' = Kind(i)
      /\ Turn!Due' = Turn!Due /\ Turn!Span' = Turn!Span
    BY <1>1 DEF LastPlace, Kind, Turn!Due, Turn!Span, Turn!Window_start
<1>4. TurnStands' /\ RepliesFirst(messages)' /\ Turn!SummaryIsWhole'
    BY <1>1, <1>3 DEF TurnInv, TurnStands, Unanswered, Turn!SummaryIsWhole
<1> QED
    BY <1>1, <1>2, <1>4 DEF TurnInv

LEMMA TurnAlways == ChatSpec => []TurnInv
<1>1. ChatInit => TurnInv
    BY TurnInit DEF ChatInit
<1>2. TurnInv /\ Turn!Next => TurnInv'
    BY TurnAsked, TurnDecided, TurnRead, TurnReplied, ToolsRan, TurnNoticed, TurnFlushed, TurnSummarized,
       TurnStopped DEF Turn!Next
<1>3. TurnInv /\ [ChatNext]_chatVars => TurnInv'
    BY <1>2, TurnRest DEF ChatNext, chatVars
<1> QED
    BY <1>1, <1>3, PTL DEF ChatSpec

\* chat.py 3-7, setup.py 58-60: a soul decision is applied once and told, and the thread opened once.
THEOREM TurnActsOnceHolds == ChatSpec => []TurnActsOnce
<1>1. ASSUME TurnInv
      PROVE  TurnActsOnce
    <2>1. Turn!DecidedOnce
        BY <1>1 DEF TurnInv, TurnStands, Turn!DecidedOnce
    <2>2. ASSUME turnNode = "agent", turn.opening = TRUE, NEW i \in 1..LastPlace, Kind(i) = "human",
                 NEW j \in 1..i
          PROVE  Kind(j) = "human"
        <3>1. LastPlace \in Nat /\ Kind(j) \in {"human", "ai", "tool"} /\ Unanswered
            BY <1>1, <2>2, TurnParts DEF TurnInv, TurnStands
        <3>2. \A k \in 1..i : Kind(k) # "ai"
            BY <2>2, <3>1 DEF Unanswered
        <3>3. Kind(j) # "tool"
            BY <1>1, <3>1, <3>2 DEF TurnInv, RepliesFirst, Kind, LastPlace
        <3> QED
            BY <3>1, <3>2, <3>3
    <2>3. DOMAIN messages = 1..LastPlace
        BY <1>1 DEF TurnInv, Turn!TypeOK, LastPlace
    <2>4. Turn!OpensOnce
        <3>1. turn.opening \in BOOLEAN
            BY <1>1 DEF TurnInv, Turn!TypeOK, Turn!Turn
        <3> QED
            BY <2>2, <2>3, <3>1 DEF Turn!OpensOnce, Kind
    <2> QED
        BY <2>1, <2>4 DEF TurnActsOnce
<1> QED
    BY <1>1, TurnAlways, PTL

-----------------------------------------------------------------------------
(* Sequences joined one after another *)

\* f joins the first sequences of s, one more at each place.
Joins(f, s, n) == f = [i \in 1..n |-> IF i = 1 THEN s[i] ELSE f[i - 1] \o s[i]]

Agree(s, t, n) == \A i \in 1..n : s[i] = t[i]

\* Nothing is in these places.
Blank(s, m, n) == \A i \in m..n : s[i] = <<>>

LEMMA JoinsAt ==
    ASSUME NEW s, NEW n \in Nat, NEW f, Joins(f, s, n), NEW i \in 1..n
    PROVE  f[i] = IF i = 1 THEN s[i] ELSE f[i - 1] \o s[i]
<1> DEFINE h == [k \in 1..n |-> IF k = 1 THEN s[k] ELSE f[k - 1] \o s[k]]
<1>1. f = h
    BY DEF Joins
<1>2. h[i] = IF i = 1 THEN s[i] ELSE f[i - 1] \o s[i]
    OBVIOUS
<1> HIDE DEF h
<1> QED
    BY <1>1, <1>2

LEMMA JoinsOne ==
    ASSUME NEW s, NEW t, NEW n \in Nat, NEW m \in Nat, n <= m, NEW f, NEW g,
           Joins(f, s, n), Joins(g, t, m), Agree(s, t, n)
    PROVE  Agree(f, g, n)
<1> DEFINE bad == {i \in 1..n : f[i] # g[i]}
<1>1. SUFFICES ASSUME bad # {}
               PROVE  FALSE
    BY DEF Agree
<1>2. PICK k \in bad : \A i \in bad : k <= i
    BY <1>1, LeastExists, bad \in SUBSET Nat
<1>3. /\ f[k] = IF k = 1 THEN s[k] ELSE f[k - 1] \o s[k]
      /\ g[k] = IF k = 1 THEN t[k] ELSE g[k - 1] \o t[k]
    <2>1. k \in 1..n /\ k \in 1..m
        OBVIOUS
    <2> QED
        BY <2>1, JoinsAt
<1>4. k # 1 => k - 1 \in 1..n /\ k - 1 \notin bad
    BY <1>2
<1> QED
    BY <1>3, <1>4 DEF Agree

LEMMA JoinsExists ==
    ASSUME NEW s, NEW n \in Nat
    PROVE  \E f : Joins(f, s, n)
<1> DEFINE bad == {m \in 0..n : ~ \E f : Joins(f, s, m)}
<1>1. SUFFICES ASSUME bad # {}
               PROVE  FALSE
    OBVIOUS
<1>2. PICK k \in bad : \A i \in bad : k <= i
    BY <1>1, LeastExists, bad \in SUBSET Nat
<1>3. CASE k = 0
    <2>1. Joins([i \in {} |-> 0], s, 0)
        BY DEF Joins
    <2> QED
        BY <1>3, <2>1
<1>4. CASE k # 0
    <2>1. PICK f : Joins(f, s, k - 1)
        BY <1>2, <1>4
    <2> DEFINE g == [i \in 1..k |-> IF i = k THEN (IF k = 1 THEN s[k] ELSE f[k - 1] \o s[k]) ELSE f[i]]
    <2>2. ASSUME NEW i \in 1..k
          PROVE  g[i] = IF i = 1 THEN s[i] ELSE g[i - 1] \o s[i]
        <3>1. i # k => f[i] = IF i = 1 THEN s[i] ELSE f[i - 1] \o s[i]
            <4>1. i # k => i \in 1..k - 1
                OBVIOUS
            <4>2. k - 1 \in Nat
                BY <1>4
            <4> QED
                BY <2>1, <4>1, <4>2, JoinsAt
        <3>2. i # 1 => g[i - 1] = f[i - 1]
            OBVIOUS
        <3> QED
            BY <3>1, <3>2
    <2>3. g = [i \in 1..k |-> IF i = 1 THEN s[i] ELSE g[i - 1] \o s[i]]
        BY <2>2
    <2>4. Joins(g, s, k)
        BY <2>3 DEF Joins
    <2> QED
        BY <2>4
<1> QED
    BY <1>3, <1>4

LEMMA JoinsTyped ==
    ASSUME NEW S, NEW n \in Nat, NEW s \in [1..n -> Seq(S)], NEW f, Joins(f, s, n)
    PROVE  \A i \in 1..n : f[i] \in Seq(S)
<1> DEFINE bad == {i \in 1..n : f[i] \notin Seq(S)}
<1>1. SUFFICES ASSUME bad # {}
               PROVE  FALSE
    OBVIOUS
<1>2. PICK k \in bad : \A i \in bad : k <= i
    BY <1>1, LeastExists, bad \in SUBSET Nat
<1>3. f[k] = IF k = 1 THEN s[k] ELSE f[k - 1] \o s[k]
    BY JoinsAt
<1>4. k # 1 => k - 1 \in 1..n /\ k - 1 \notin bad
    BY <1>2
<1>5. k # 1 => f[k - 1] \in Seq(S)
    BY <1>4
<1>6. s[k] \in Seq(S) /\ f[k] \notin Seq(S)
    OBVIOUS
<1>7. k # 1 => f[k - 1] \o s[k] \in Seq(S)
    BY <1>5, <1>6
<1> HIDE DEF bad
<1> QED
    BY <1>3, <1>6, <1>7

\* What FlattenSeq computes, step by step.
LEMMA FlattenJoins ==
    ASSUME NEW S, NEW s \in Seq(Seq(S)), s # <<>>
    PROVE  \E f : Joins(f, s, Len(s)) /\ Relaying!FlattenSeq(s) = f[Len(s)] /\ Relaying!FlattenSeq(s) \in Seq(S)
<1>1. Len(s) \in Nat /\ Len(s) # 0 /\ s \in [1..Len(s) -> Seq(S)]
    BY EmptySeq
<1> DEFINE fn == CHOOSE f : f = [i \in 1..Len(s) |-> IF i = 1 THEN s[i] ELSE f[i - 1] \o s[i]]
<1>2. fn = [i \in 1..Len(s) |-> IF i = 1 THEN s[i] ELSE fn[i - 1] \o s[i]]
    BY <1>1, JoinsExists DEF Joins
<1>3. Relaying!FlattenSeq(s) = fn[Len(s)]
    BY <1>1 DEF Relaying!FlattenSeq
<1>4. Joins(fn, s, Len(s))
    BY <1>2 DEF Joins
<1> HIDE DEF fn
<1>5. \A i \in 1..Len(s) : fn[i] \in Seq(S)
    BY <1>1, <1>4, JoinsTyped
<1>6. fn[Len(s)] \in Seq(S)
    BY <1>1, <1>5
<1> QED
    BY <1>3, <1>4, <1>6

LEMMA FlattenNone == Relaying!FlattenSeq(<<>>) = <<>>
BY DEF Relaying!FlattenSeq

LEMMA FlattenLonger ==
    ASSUME NEW S, NEW s \in Seq(Seq(S)), NEW t \in Seq(Seq(S)), NEW n \in Nat, NEW m \in Nat,
           Len(s) = n, Len(t) = m, m = n + 1, \A i \in 1..n : s[i] = t[i]
    PROVE  Relaying!FlattenSeq(s) \in Seq(S) /\ Relaying!FlattenSeq(t) = Relaying!FlattenSeq(s) \o t[m]
<1>1. t # <<>> /\ m \in 1..m /\ t[m] \in Seq(S)
    BY EmptySeq
<1>2. PICK g : Joins(g, t, m) /\ Relaying!FlattenSeq(t) = g[m]
    BY <1>1, FlattenJoins
<1>3. g[m] = IF m = 1 THEN t[m] ELSE g[m - 1] \o t[m]
    BY <1>1, <1>2, JoinsAt
<1>4. CASE n = 0
    <2>1. s = <<>>
        BY <1>4, EmptySeq
    <2>2. Relaying!FlattenSeq(s) = <<>> /\ <<>> \in Seq(S) /\ <<>> \o t[m] = t[m]
        BY <1>1, <2>1, FlattenNone
    <2> QED
        BY <1>2, <1>3, <1>4, <2>2
<1>5. CASE n # 0
    <2>1. s # <<>>
        BY <1>5, EmptySeq
    <2>2. PICK f : Joins(f, s, n) /\ Relaying!FlattenSeq(s) = f[n] /\ Relaying!FlattenSeq(s) \in Seq(S)
        BY <2>1, FlattenJoins
    <2>3. n <= m /\ n \in 1..n /\ m # 1 /\ m - 1 = n
        BY <1>5
    <2>4. \A i \in 1..n : f[i] = g[i]
        <3>1. Agree(s, t, n)
            BY DEF Agree
        <3>2. Agree(f, g, n)
            BY <1>2, <2>2, <2>3, <3>1, JoinsOne
        <3> QED
            BY <3>2 DEF Agree
    <2> QED
        BY <1>2, <1>3, <2>2, <2>3, <2>4
<1> QED
    BY <1>4, <1>5

LEMMA FlattenAppend ==
    ASSUME NEW S, NEW s \in Seq(Seq(S)), NEW e \in Seq(S)
    PROVE  Relaying!FlattenSeq(s) \in Seq(S) /\ Relaying!FlattenSeq(Append(s, e)) = Relaying!FlattenSeq(s) \o e
<1>1. PICK t, n, m : t = Append(s, e) /\ n = Len(s) /\ m = Len(t)
    OBVIOUS
<1>2. t \in Seq(Seq(S)) /\ n \in Nat /\ m \in Nat /\ m = n + 1
    BY <1>1
<1>3. \A i \in 1..n : s[i] = t[i]
    BY <1>1
<1>4. t[m] = e
    BY <1>1, <1>2
<1> HIDE <1>1
<1>5. Relaying!FlattenSeq(s) \in Seq(S) /\ Relaying!FlattenSeq(t) = Relaying!FlattenSeq(s) \o t[m]
    BY <1>1, <1>2, <1>3, FlattenLonger
<1> QED
    BY <1>1, <1>4, <1>5

LEMMA OneLonger ==
    ASSUME NEW S, NEW s \in Seq(S), NEW t \in Seq(S), NEW e \in S, NEW n \in Nat, Len(s) = n,
           Len(t) = n + 1, \A i \in 1..n : t[i] = s[i], t[n + 1] = e
    PROVE  t = Append(s, e)
<1>1. PICK u : u = Append(s, e)
    OBVIOUS
<1>2. u \in Seq(S) /\ Len(u) = n + 1 /\ \A i \in 1..n + 1 : u[i] = t[i]
    BY <1>1
<1> QED
    BY <1>1, <1>2, SeqEqual

LEMMA BlanksAfter ==
    ASSUME NEW S, NEW s \in Seq(S), NEW t \in Seq(S), NEW b \in Seq(S), NEW n \in Nat, NEW m \in Nat,
           Len(s) = n, Len(t) = n + m, Len(b) = m, Agree(t, s, n), Blank(b, 1, m), Blank(t, n + 1, n + m)
    PROVE  t = s \o b
<1>1. PICK u : u = s \o b
    OBVIOUS
<1>7. /\ u \in Seq(S) /\ Len(u) = Len(s) + Len(b)
      /\ \A i \in 1..Len(s) + Len(b) : u[i] = IF i <= Len(s) THEN s[i] ELSE b[i - Len(s)]
    BY <1>1, ConcatProperties
<1>5. u \in Seq(S) /\ Len(u) = n + m
    BY <1>7
<1>6. \A i \in 1..n + m : u[i] = IF i <= n THEN s[i] ELSE b[i - n]
    BY <1>7
<1>2. \A i \in 1..n : u[i] = t[i]
    BY <1>5, <1>6 DEF Agree
<1>3. ASSUME NEW i \in 1..n + m, i \notin 1..n
      PROVE  u[i] = t[i]
    <2>1. i - n \in 1..m /\ i \in n + 1..n + m
        BY <1>3
    <2>2. u[i] = b[i - n]
        BY <1>6, <1>3, <2>1
    <2> QED
        BY <2>1, <2>2 DEF Blank
<1>4. \A i \in 1..n + m : u[i] = t[i]
    BY <1>2, <1>3
<1> QED
    BY <1>1, <1>5, <1>4, SeqEqual

\* Sequences that add nothing.
LEMMA FlattenBlank ==
    ASSUME NEW S, NEW s \in Seq(Seq(S)), \A i \in 1..Len(s) : s[i] = <<>>
    PROVE  Relaying!FlattenSeq(s) = <<>>
<1>1. CASE s = <<>>
    BY <1>1, FlattenNone
<1>2. CASE s # <<>>
    <2>1. PICK f : Joins(f, s, Len(s)) /\ Relaying!FlattenSeq(s) = f[Len(s)]
        BY <1>2, FlattenJoins
    <2> DEFINE bad == {i \in 1..Len(s) : f[i] # <<>>}
    <2>2. SUFFICES ASSUME bad # {}
                   PROVE  FALSE
        BY <1>2, <2>1, EmptySeq, Len(s) \in Nat
    <2>3. PICK k \in bad : \A i \in bad : k <= i
        BY <2>2, LeastExists, bad \in SUBSET Nat
    <2>4. f[k] = IF k = 1 THEN s[k] ELSE f[k - 1] \o s[k]
        BY <2>1, JoinsAt, Len(s) \in Nat
    <2>5. k # 1 => k - 1 \in 1..Len(s) /\ k - 1 \notin bad
        BY <2>3
    <2>6. k # 1 => f[k - 1] = <<>>
        BY <2>5
    <2>7. <<>> \o <<>> = <<>>
        OBVIOUS
    <2> QED
        BY <2>4, <2>6, <2>7
<1> QED
    BY <1>1, <1>2

\* The same, after sequences that may add something.
LEMMA FlattenMore ==
    ASSUME NEW S, NEW s \in Seq(Seq(S)), NEW t \in Seq(Seq(S)), \A i \in 1..Len(t) : t[i] = <<>>
    PROVE  Relaying!FlattenSeq(s \o t) = Relaying!FlattenSeq(s)
<1> DEFINE upto(n) == SubSeq(s \o t, 1, Len(s) + n)
<1> DEFINE bad == {n \in 0..Len(t) : Relaying!FlattenSeq(upto(n)) # Relaying!FlattenSeq(s)}
<1>1. s \o t \in Seq(Seq(S)) /\ Len(s \o t) = Len(s) + Len(t) /\ Len(s) \in Nat /\ Len(t) \in Nat
    OBVIOUS
<1>2. \A n \in 0..Len(t) : upto(n) \in Seq(Seq(S)) /\ Len(upto(n)) = Len(s) + n
    BY <1>1
<1>3. upto(0) = s
    BY <1>1
<1>4. upto(Len(t)) = s \o t
    BY <1>1
<1>5. ASSUME bad = {}
      PROVE  Relaying!FlattenSeq(s \o t) = Relaying!FlattenSeq(s)
    <2>1. Len(t) \in 0..Len(t)
        BY <1>1
    <2>2. Relaying!FlattenSeq(upto(Len(t))) = Relaying!FlattenSeq(s)
        BY <1>5, <2>1
    <2> HIDE DEF upto, bad
    <2> QED
        BY <1>4, <2>2
<1>6. SUFFICES ASSUME bad # {}
               PROVE  FALSE
    BY <1>5
<1>7. PICK k \in bad : \A i \in bad : k <= i
    BY <1>6, LeastExists, bad \in SUBSET Nat
<1>8. k \in 1..Len(t)
    <2>1. k \in 0..Len(t) /\ k # 0
        BY <1>3
    <2> QED
        BY <1>1, <2>1
<1>13. k - 1 \in 0..Len(t) /\ k - 1 \notin bad
    <2>1. k - 1 \in 0..Len(t) /\ ~(k <= k - 1)
        BY <1>1, <1>8
    <2> QED
        BY <1>7, <2>1
<1>14. Relaying!FlattenSeq(upto(k - 1)) = Relaying!FlattenSeq(s) /\ Relaying!FlattenSeq(upto(k)) # Relaying!FlattenSeq(s)
    BY <1>13
<1> HIDE DEF bad
<1>9. upto(k) = Append(upto(k - 1), <<>>)
    <2>1. (s \o t)[Len(s) + k] = <<>>
        BY <1>1, <1>8
    <2>2. PICK N \in Nat : N = Len(s) + k
        BY <1>1, <1>8
    <2>3. N \in 1..Len(s \o t) /\ N - 1 = Len(s) + (k - 1)
        BY <1>1, <1>8, <2>2
    <2>4. SubSeq(s \o t, 1, N) = Append(SubSeq(s \o t, 1, N - 1), (s \o t)[N])
        <3>1. PICK u : u = s \o t
            OBVIOUS
        <3>2. u \in Seq(Seq(S)) /\ N \in 1..Len(u)
            BY <1>1, <2>3, <3>1
        <3>3. SubSeq(u, 1, N) = Append(SubSeq(u, 1, N - 1), u[N])
            BY <3>2
        <3> QED
            BY <3>1, <3>3
    <2> QED
        BY <2>1, <2>2, <2>3, <2>4
<1>10. <<>> \in Seq(S)
    OBVIOUS
<1>11. Relaying!FlattenSeq(upto(k)) = Relaying!FlattenSeq(upto(k - 1)) \o <<>> /\ Relaying!FlattenSeq(upto(k - 1)) \in Seq(S)
    BY <1>2, <1>9, <1>10, <1>13, FlattenAppend
<1> QED
    BY <1>11, <1>14
-----------------------------------------------------------------------------
(* ChatTurn: the history a model is shown *)

\* Each tool's result, of some calls, comes after a reply that made them, with results only between.
AfterItsReply(ms, j) ==
    \E i \in 1..j - 1 : /\ ms[i].kind = "ai" /\ ms[j].calls \subseteq ms[i].calls
                        /\ \A k \in i + 1..j : ms[k].kind = "tool"
Told(ms) == \A j \in 1..Len(ms) : ms[j].kind = "tool" => ms[j].calls # {} /\ AfterItsReply(ms, j)

Numbered(ms) == \A i \in 1..Len(ms) : ms[i].n = i

\* How far the summary reaches: to a message of the investor's, and, where no compaction is due, to within
\* the window and a batch of the end.
Reached ==
    /\ summarized <= LastPlace
    /\ summarized < LastPlace => Kind(summarized + 1) = "human"
    /\ turnNode # "idle" => summarized < LastPlace
    /\ clean = TRUE /\ turnNode = "idle" => LastPlace < summarized + HISTORY_MESSAGES + BATCH
    /\ clean = TRUE /\ turnNode \in {"context", "known", "agent"} /\ Kind(LastPlace) = "human" =>
         LastPlace <= summarized + HISTORY_MESSAGES + BATCH

HistoryInv == TurnInv /\ Told(messages) /\ Numbered(messages) /\ Reached

\* What followed a reply follows it, whatever is put after.
LEMMA StaysAfter ==
    ASSUME NEW ms \in Seq(Turn!Message), NEW all \in Seq(Turn!Message), Len(ms) <= Len(all),
           \A i \in 1..Len(ms) : all[i].kind = ms[i].kind /\ all[i].calls = ms[i].calls,
           NEW j \in 1..Len(ms), AfterItsReply(ms, j)
    PROVE  AfterItsReply(all, j)
<1>1. PICK i \in 1..j - 1 : /\ ms[i].kind = "ai" /\ ms[j].calls \subseteq ms[i].calls
                            /\ \A k \in i + 1..j : ms[k].kind = "tool"
    BY DEF AfterItsReply
<1>2. i \in 1..Len(ms) /\ i + 1..j \subseteq 1..Len(ms)
    OBVIOUS
<1>3. \A k \in i + 1..j : all[k].kind = "tool"
    BY <1>1, <1>2
<1> QED
    BY <1>1, <1>2, <1>3 DEF AfterItsReply

\* A message that is no tool's result put after others.
LEMMA ToldOne ==
    ASSUME NEW ms \in Seq(Turn!Message), NEW m \in Turn!Message, Told(ms), Numbered(ms),
           m.kind # "tool", m.n = Len(ms) + 1
    PROVE  Told(ms \o <<m>>) /\ Numbered(ms \o <<m>>)
<1>1. PICK N \in Nat : N = Len(ms)
    OBVIOUS
<1>2. PICK all \in Seq(Turn!Message) :
         /\ all = ms \o <<m>> /\ Len(all) = N + 1
         /\ \A i \in 1..N : all[i] = ms[i]
         /\ all[N + 1] = m
    <2>1. PICK all : all = ms \o <<m>>
        OBVIOUS
    <2>2. all \in Seq(Turn!Message) /\ Len(all) = N + 1
        BY <1>1, <2>1
    <2>3. all[N + 1] = m /\ \A i \in 1..N : all[i] = ms[i]
        BY <1>1, <2>1
    <2> QED
        BY <2>1, <2>2, <2>3
<1>3. ASSUME NEW j \in 1..N + 1, all[j].kind = "tool"
      PROVE  all[j].calls # {} /\ AfterItsReply(all, j)
    <2>1. j \in 1..N
        BY <1>1, <1>2, <1>3
    <2>2. ms[j].calls # {} /\ AfterItsReply(ms, j)
        BY <1>1, <1>2, <1>3, <2>1 DEF Told
    <2>3. Len(ms) <= Len(all) /\ \A i \in 1..Len(ms) : all[i].kind = ms[i].kind /\ all[i].calls = ms[i].calls
        BY <1>1, <1>2
    <2>4. AfterItsReply(all, j)
        BY <1>1, <2>1, <2>2, <2>3, StaysAfter
    <2> QED
        BY <1>2, <2>1, <2>2, <2>4
<1>4. ASSUME NEW i \in 1..N + 1
      PROVE  all[i].n = i
    <2>1. CASE i \in 1..N
        BY <1>1, <1>2, <2>1 DEF Numbered
    <2>2. CASE i = N + 1
        BY <1>1, <1>2, <2>2
    <2> QED
        BY <1>1, <2>1, <2>2
<1> QED
    BY <1>2, <1>3, <1>4 DEF Told, Numbered

\* The results of a reply's calls put after it.
LEMMA ToldResults ==
    ASSUME NEW ms \in Seq(Turn!Message), NEW rs \in Seq(Turn!Message), Told(ms), Numbered(ms),
           Len(ms) # 0, ms[Len(ms)].kind = "ai", ResultsFrom(rs, ms[Len(ms)].calls, Len(ms))
    PROVE  Told(ms \o rs) /\ Numbered(ms \o rs)
<1>1. PICK N \in Nat : N = Len(ms)
    OBVIOUS
<1>2. PICK n \in Nat : n = Len(rs)
    OBVIOUS
<1>3. PICK all \in Seq(Turn!Message) :
         /\ all = ms \o rs /\ Len(all) = N + n
         /\ \A i \in 1..N : all[i] = ms[i]
         /\ \A i \in N + 1..N + n : all[i] = rs[i - N]
    <2>1. PICK all : all = ms \o rs
        OBVIOUS
    <2>2. all \in Seq(Turn!Message) /\ Len(all) = N + n
        BY <1>1, <1>2, <2>1, Longer
    <2>3. \A i \in 1..N : all[i] = ms[i]
        BY <1>1, <2>1, Longer
    <2>4. \A i \in N + 1..N + n : all[i] = rs[i - N]
        BY <1>1, <1>2, <2>1, Longer
    <2> QED
        BY <2>1, <2>2, <2>3, <2>4
<1>4. ASSUME NEW i \in N + 1..N + n
      PROVE  /\ all[i].kind = "tool" /\ all[i].n = i
             /\ all[i].calls # {} /\ all[i].calls \subseteq ms[N].calls
    <2>1. PICK k \in 1..n : k = i - N /\ N + k = i
        BY <1>1, <1>2
    <2>2. rs[k].kind = "tool" /\ rs[k].n = N + k /\ rs[k].calls # {} /\ rs[k].calls \subseteq ms[N].calls
        BY <1>1, <1>2, <2>1 DEF ResultsFrom
    <2> QED
        BY <1>3, <2>1, <2>2
<1>5. ASSUME NEW j \in 1..N + n, all[j].kind = "tool"
      PROVE  all[j].calls # {} /\ AfterItsReply(all, j)
    <2>1. CASE j \in 1..N
        <3>1. ms[j].calls # {} /\ AfterItsReply(ms, j)
            BY <1>1, <1>3, <1>5, <2>1 DEF Told
        <3>2. /\ Len(ms) <= Len(all)
              /\ \A i \in 1..Len(ms) : all[i].kind = ms[i].kind /\ all[i].calls = ms[i].calls
            BY <1>1, <1>3
        <3>3. AfterItsReply(all, j)
            BY <1>1, <2>1, <3>1, <3>2, StaysAfter
        <3> QED
            BY <1>3, <2>1, <3>1, <3>3
    <2>2. CASE j \in N + 1..N + n
        <3>1. N \in 1..j - 1 /\ N \in 1..N /\ N + 1..j \subseteq N + 1..N + n
            BY <1>1, <2>2
        <3>2. all[N].kind = "ai" /\ all[N].calls = ms[N].calls
            BY <1>1, <1>3, <3>1
        <3> QED
            BY <1>4, <2>2, <3>1, <3>2 DEF AfterItsReply
    <2>3. j \in 1..N \/ j \in N + 1..N + n
        BY <1>1
    <2> QED
        BY <2>1, <2>2, <2>3
<1>6. ASSUME NEW i \in 1..N + n
      PROVE  all[i].n = i
    <2>1. CASE i \in 1..N
        BY <1>1, <1>3, <2>1 DEF Numbered
    <2>2. CASE i \in N + 1..N + n
        BY <1>4, <2>2
    <2>3. i \in 1..N \/ i \in N + 1..N + n
        BY <1>1
    <2> QED
        BY <2>1, <2>2, <2>3
<1> QED
    BY <1>3, <1>5, <1>6 DEF Told, Numbered

\* Nothing but what a message says is changed.
LEMMA ToldSame ==
    ASSUME NEW ms \in Seq(Turn!Message), NEW all \in Seq(Turn!Message), Told(ms), Numbered(ms),
           Len(ms) = Len(all),
           \A i \in 1..Len(ms) : /\ all[i].kind = ms[i].kind /\ all[i].calls = ms[i].calls
                                 /\ all[i].n = ms[i].n
    PROVE  Told(all) /\ Numbered(all)
<1>1. ASSUME NEW j \in 1..Len(ms), all[j].kind = "tool"
      PROVE  all[j].calls # {} /\ AfterItsReply(all, j)
    <2>1. ms[j].calls # {} /\ AfterItsReply(ms, j)
        BY <1>1 DEF Told
    <2>2. Len(ms) <= Len(all) /\ \A i \in 1..Len(ms) : all[i].kind = ms[i].kind /\ all[i].calls = ms[i].calls
        OBVIOUS
    <2>3. AfterItsReply(all, j)
        BY <2>1, <2>2, StaysAfter
    <2> QED
        BY <2>1, <2>3
<1> QED
    BY <1>1 DEF Told, Numbered

-----------------------------------------------------------------------------

LEMMA WindowConstants == HISTORY_MESSAGES \in Nat \ {0} /\ BATCH \in Nat \ {0}
BY PartsAssumption DEF Turn!TurnAssumption

LEMMA HistoryParts ==
    ASSUME HistoryInv
    PROVE  /\ messages \in Seq(Turn!Message) /\ LastPlace \in Nat /\ summarized \in Nat
           /\ LastPlace = Len(messages) /\ summarized <= LastPlace
BY TurnParts DEF HistoryInv, TurnInv, Turn!TypeOK, LastPlace, Reached

\* The investor's message: the thread may open with it again.
LEMMA HistoryAsked ==
    ASSUME HistoryInv, Turn!Ask
    PROVE  HistoryInv'
<1>1. PICK m : m = Turn!Human(Turn!Next_place)
    OBVIOUS
<1>2. /\ turnNode = "idle" /\ turnNode' = "context" /\ messages' = messages \o <<m>>
      /\ UNCHANGED <<summarized, covered, saved, clean>> /\ Len(messages) < MaxMessages
    BY <1>1 DEF Turn!Ask, Turn!Add, Turn!Compacted
<1>3. PICK N \in Nat : N = Len(messages)
    BY HistoryParts
<1>4. messages \in Seq(Turn!Message) /\ LastPlace = N /\ summarized \in Nat /\ summarized <= N
    BY <1>3, HistoryParts
<1>5. m.kind = "human" /\ m.n = N + 1 /\ m \in Turn!Message
    <2>1. MaxMessages \in Nat /\ N + 1 \in 0..MaxMessages
        BY <1>2, <1>3, TurnParts DEF HistoryInv, TurnInv
    <2> QED
        BY <1>1, <1>3, <2>1 DEF Turn!Human, Turn!Message, Turn!Next_place
<1>6. Told(messages) /\ Numbered(messages) /\ m.kind # "tool" /\ m.n = Len(messages) + 1
    BY <1>3, <1>5 DEF HistoryInv
<1>7. Told(messages)' /\ Numbered(messages)'
    BY <1>2, <1>4, <1>5, <1>6, ToldOne
<1>8. PICK all : all = messages \o <<m>>
    OBVIOUS
<1>9. Len(all) = N + 1 /\ all[N + 1] = m /\ \A i \in 1..N : all[i] = messages[i]
    BY <1>3, <1>4, <1>5, <1>8
<1>10. LastPlace' = N + 1 /\ Kind(N + 1)' = "human" /\ \A i \in 1..N : Kind(i)' = Kind(i)
    BY <1>2, <1>5, <1>8, <1>9 DEF LastPlace, Kind
<1>11. Kind(summarized + 1)' = "human"
    <2>1. summarized < N => summarized + 1 \in 1..N /\ Kind(summarized + 1) = "human"
        BY <1>4 DEF HistoryInv, Reached
    <2> QED
        BY <1>2, <1>4, <1>10, <2>1
<1>12. Reached'
    <2>1. clean = TRUE => N < summarized + HISTORY_MESSAGES + BATCH
        BY <1>2, <1>4 DEF HistoryInv, Reached
    <2>2. clean = TRUE => N + 1 <= summarized + HISTORY_MESSAGES + BATCH
        BY <1>4, <2>1, WindowConstants
    <2>3. summarized <= N + 1 /\ summarized < N + 1
        BY <1>4
    <2> QED
        BY <1>2, <1>10, <1>11, <2>2, <2>3 DEF Reached
<1>13. TurnInv'
    BY TurnAsked DEF HistoryInv
<1> QED
    BY <1>7, <1>12, <1>13 DEF HistoryInv

\* The thread stays as it is, and the turn goes on.
LEMMA HistoryStays ==
    ASSUME HistoryInv, UNCHANGED <<messages, summarized>>, TurnInv', clean' = clean, turnNode # "idle",
           turnNode' # "idle",
           turnNode' \in {"context", "known", "agent"} => turnNode \in {"context", "known", "agent"}
    PROVE  HistoryInv'
<1>1. LastPlace' = LastPlace /\ Kind(summarized + 1)' = Kind(summarized + 1) /\ Kind(LastPlace)' = Kind(LastPlace)
    BY DEF LastPlace, Kind
<1>2. Reached'
    BY <1>1 DEF HistoryInv, Reached
<1> QED
    BY <1>2 DEF HistoryInv

LEMMA HistoryDecided ==
    ASSUME HistoryInv, Turn!Decide
    PROVE  HistoryInv'
<1>1. /\ UNCHANGED <<messages, summarized>> /\ clean' = clean
      /\ turnNode = "context" /\ turnNode' = "known"
    BY DEF Turn!Decide, Turn!Compacted
<1>2. TurnInv'
    BY TurnDecided DEF HistoryInv
<1> QED
    BY <1>1, <1>2, HistoryStays

LEMMA HistoryRead ==
    ASSUME HistoryInv, Turn!Context
    PROVE  HistoryInv'
<1>1. /\ UNCHANGED <<messages, summarized>> /\ clean' = clean
      /\ turnNode \in {"context", "known"} /\ turnNode' = "agent"
    BY DEF Turn!Context, Turn!Compacted
<1>2. TurnInv'
    BY TurnRead DEF HistoryInv
<1> QED
    BY <1>1, <1>2, HistoryStays

\* The thread grows in a turn: what the summary reached, it still reaches.
LEMMA ReachedGrows ==
    ASSUME HistoryInv, turnNode # "idle", turnNode' # "idle", summarized' = summarized,
           NEW N \in Nat, N = Len(messages), Len(messages') \in Nat, N <= Len(messages'),
           \A i \in 1..N : Kind(i)' = Kind(i),
           turnNode' \in {"context", "known", "agent"} => Kind(LastPlace)' # "human"
    PROVE  Reached'
<1>1. LastPlace = N /\ LastPlace' \in Nat /\ N <= LastPlace' /\ summarized \in Nat
    BY HistoryParts DEF LastPlace
<1>2. summarized < N /\ Kind(summarized + 1) = "human"
    BY <1>1 DEF HistoryInv, Reached
<1>3. Kind(summarized + 1)' = Kind(summarized + 1)
    <2>1. summarized + 1 \in 1..N
        BY <1>1, <1>2
    <2> QED
        BY <2>1
<1>4. Kind(summarized + 1)' = "human" /\ summarized < LastPlace' /\ summarized <= LastPlace'
    BY <1>1, <1>2, <1>3
<1> QED
    BY <1>4 DEF Reached

\* The model's reply.
LEMMA HistoryReplied ==
    ASSUME HistoryInv, Turn!Agent
    PROVE  HistoryInv'
<1>1. PICK n \in 0..MaxToolCalls, said \in BOOLEAN :
         /\ messages' = messages \o <<Turn!Ai(said, {Turn!Next_place} \X (1..n), Turn!Next_place)>>
         /\ turnNode' = IF n = 0 THEN "notice" ELSE "tools"
    BY DEF Turn!Agent, Turn!Add
<1>2. PICK m : m = Turn!Ai(said, {Turn!Next_place} \X (1..n), Turn!Next_place)
    OBVIOUS
<1>3. PICK N \in Nat : N = Len(messages)
    BY HistoryParts
<1>4. /\ turnNode = "agent" /\ turnNode' \in {"notice", "tools"} /\ summarized' = summarized
      /\ messages' = messages \o <<m>> /\ messages \in Seq(Turn!Message) /\ N < MaxMessages
    BY <1>1, <1>2, <1>3, HistoryParts DEF Turn!Agent, Turn!Compacted
<1>5. m.kind = "ai" /\ m.n = N + 1 /\ m \in Turn!Message
    <2>1. MaxMessages \in Nat /\ MaxToolCalls \in Nat
        BY TurnParts DEF HistoryInv, TurnInv
    <2>2. N + 1 \in 1..MaxMessages /\ N + 1 \in 0..MaxMessages /\ 1..n \subseteq 1..MaxToolCalls
        BY <1>1, <1>4, <2>1
    <2>3. {N + 1} \X (1..n) \in SUBSET Turn!CallIds
        BY <2>2 DEF Turn!CallIds
    <2>4. Turn!Next_place = N + 1
        BY <1>3 DEF Turn!Next_place
    <2> QED
        BY <1>1, <1>2, <2>2, <2>3, <2>4 DEF Turn!Ai, Turn!Message
<1>6. Told(messages) /\ Numbered(messages) /\ m.kind # "tool" /\ m.n = Len(messages) + 1
    BY <1>3, <1>5 DEF HistoryInv
<1>7. Told(messages)' /\ Numbered(messages)'
    BY <1>4, <1>5, <1>6, ToldOne
<1>8. Len(messages') \in Nat /\ N <= Len(messages') /\ \A i \in 1..N : Kind(i)' = Kind(i)
    <2>1. PICK all : all = messages \o <<m>>
        OBVIOUS
    <2>2. Len(all) = N + 1 /\ \A i \in 1..N : all[i] = messages[i]
        BY <1>3, <1>4, <1>5, <2>1
    <2> QED
        BY <1>4, <2>1, <2>2 DEF Kind
<1>9. Reached'
    BY <1>3, <1>4, <1>8, ReachedGrows
<1>10. TurnInv'
    BY TurnReplied DEF HistoryInv
<1> QED
    BY <1>7, <1>9, <1>10 DEF HistoryInv

LEMMA HistoryRan ==
    ASSUME HistoryInv, Turn!Tools
    PROVE  HistoryInv'
<1>1. PICK results \in Seq(Turn!Message) :
         /\ messages' = messages \o results
         /\ Len(results) # 0 /\ Len(messages) + Len(results) <= MaxMessages
         /\ ResultsFrom(results, messages[Len(messages)].calls, Len(messages))
    BY ToolsAdd DEF HistoryInv
<1>2. PICK N \in Nat : N = Len(messages)
    BY HistoryParts
<1>3. PICK n \in Nat : n = Len(results) /\ n # 0
    BY <1>1
<1>4. /\ turnNode = "tools" /\ turnNode' = "context" /\ summarized' = summarized
      /\ messages \in Seq(Turn!Message)
    BY HistoryParts DEF Turn!Tools, Turn!Compacted
<1>5. N # 0 /\ messages[Len(messages)].kind = "ai"
    BY <1>2, <1>4 DEF HistoryInv, TurnInv, TurnStands, Kind, LastPlace
<1>6. Told(messages) /\ Numbered(messages) /\ Len(messages) # 0
    BY <1>2, <1>5 DEF HistoryInv
<1>7. Told(messages)' /\ Numbered(messages)'
    BY <1>1, <1>4, <1>5, <1>6, ToldResults
<1>8. /\ Len(messages') = N + n /\ \A i \in 1..N : Kind(i)' = Kind(i)
      /\ Kind(N + n)' = "tool"
    <2>1. PICK all : all = messages \o results
        OBVIOUS
    <2>2. Len(all) = N + n
        BY <1>2, <1>3, <1>4, <2>1, Longer
    <2>3. \A i \in 1..N : all[i] = messages[i]
        BY <1>2, <1>4, <2>1, Longer
    <2>4. \A i \in N + 1..N + n : all[i] = results[i - N]
        BY <1>2, <1>3, <1>4, <2>1, Longer
    <2>5. N + n \in N + 1..N + n /\ N + n - N \in 1..n
        BY <1>3
    <2>6. results[N + n - N].kind = "tool"
        BY <1>1, <1>3, <2>5 DEF ResultsFrom
    <2>7. all[N + n].kind = "tool"
        BY <2>4, <2>5, <2>6
    <2> QED
        BY <1>1, <2>1, <2>2, <2>3, <2>7 DEF Kind
<1>9. Reached'
    <2>1. Len(messages') \in Nat /\ N <= Len(messages')
        BY <1>8
    <2>2. Kind(LastPlace)' # "human"
        BY <1>8 DEF LastPlace
    <2> QED
        BY <1>2, <1>4, <1>8, <2>1, <2>2, ReachedGrows
<1>10. TurnInv'
    BY ToolsRan DEF HistoryInv
<1> QED
    BY <1>7, <1>9, <1>10 DEF HistoryInv

\* The notice changes what the last reply says.
LEMMA HistoryNoticed ==
    ASSUME HistoryInv, Turn!Notice
    PROVE  HistoryInv'
<1>1. PICK N \in Nat : N = Len(messages)
    BY HistoryParts
<1>2. /\ turnNode = "notice" /\ turnNode' = "compact" /\ summarized' = summarized
      /\ messages \in Seq(Turn!Message)
    BY HistoryParts DEF Turn!Notice, Turn!Compacted
<1>3. PICK said : messages' = [messages EXCEPT ![Len(messages)].text = said]
    BY DEF Turn!Notice
<1>4. messages' \in Seq(Turn!Message) /\ TurnInv'
    BY TurnNoticed DEF HistoryInv, TurnInv, Turn!TypeOK
<1>5. /\ DOMAIN messages = 1..N /\ DOMAIN messages' = 1..N
      /\ \A i \in 1..N : messages[i] \in Turn!Message
    BY <1>1, <1>2, <1>3
<1>6. ASSUME NEW i \in 1..N
      PROVE  /\ messages'[i].kind = messages[i].kind /\ messages'[i].calls = messages[i].calls
             /\ messages'[i].n = messages[i].n
    <2>1. messages'[i] = IF i = N THEN [messages[N] EXCEPT !.text = said] ELSE messages[i]
        BY <1>1, <1>3, <1>5
    <2> QED
        BY <1>5, <2>1 DEF Turn!Message
<1>7. Len(messages') = N
    BY <1>4, <1>5
<1>8. Told(messages) /\ Numbered(messages)
    BY DEF HistoryInv
<1>9. Told(messages)' /\ Numbered(messages)'
    <2>1. PICK all \in Seq(Turn!Message) : all = messages'
        BY <1>4
    <2>2. /\ Len(messages) = Len(all)
          /\ \A i \in 1..Len(messages) :
                /\ all[i].kind = messages[i].kind /\ all[i].calls = messages[i].calls
                /\ all[i].n = messages[i].n
        BY <1>1, <1>6, <1>7, <2>1
    <2>3. Told(all) /\ Numbered(all)
        BY <1>2, <1>8, <2>2, ToldSame
    <2> QED
        BY <2>1, <2>3
<1>10. Reached'
    <2>1. Len(messages') \in Nat /\ N <= Len(messages') /\ \A i \in 1..N : Kind(i)' = Kind(i)
        BY <1>6, <1>7 DEF Kind
    <2> QED
        BY <1>1, <1>2, <2>1, ReachedGrows
<1> QED
    BY <1>4, <1>9, <1>10 DEF HistoryInv

\* Where no compaction is due, all but a window and less than a batch is summarised.
LEMMA HistoryFlushed ==
    ASSUME HistoryInv, Turn!Flush
    PROVE  HistoryInv'
<1>1. turnNode = "compact" /\ UNCHANGED <<messages, summarized, covered, turn>>
    BY DEF Turn!Flush
<1>2. \/ turnNode' = "summary" /\ UNCHANGED clean
      \/ ~Turn!Due /\ turnNode' = "idle" /\ clean' = TRUE
    BY DEF Turn!Flush
<1>3. TurnInv'
    BY TurnFlushed DEF HistoryInv
<1>4. CASE turnNode' = "summary" /\ UNCHANGED clean
    BY <1>1, <1>3, <1>4, HistoryStays
<1>5. CASE ~Turn!Due /\ turnNode' = "idle" /\ clean' = TRUE
    <2>1. PICK w : w = Turn!Window_start
        OBVIOUS
    <2>2. LastPlace \in Nat /\ summarized \in Nat /\ w \in Nat /\ LastPlace <= w + HISTORY_MESSAGES
        BY <2>1, WindowBegins, HistoryParts DEF HistoryInv, TurnInv
    <2>3. ~(w >= summarized + BATCH)
        BY <1>5, <2>1 DEF Turn!Due
    <2>4. LastPlace < summarized + HISTORY_MESSAGES + BATCH
        BY <2>2, <2>3, WindowConstants
    <2>5. LastPlace' = LastPlace /\ Kind(summarized + 1)' = Kind(summarized + 1)
        BY <1>1 DEF LastPlace, Kind
    <2>6. Reached'
        BY <1>1, <1>5, <2>4, <2>5 DEF HistoryInv, Reached
    <2> QED
        BY <1>1, <1>3, <2>6 DEF HistoryInv
<1> QED
    BY <1>2, <1>4, <1>5

LEMMA HistorySummarized ==
    ASSUME HistoryInv, Turn!Summarize
    PROVE  HistoryInv'
<1>1. PICK w : w = Turn!Window_start
    OBVIOUS
<1>2. turnNode' = "idle" /\ summarized' = w /\ UNCHANGED messages
    BY <1>1 DEF Turn!Summarize
<1>3. /\ w \in 0..Len(messages) /\ Len(messages) <= w + HISTORY_MESSAGES
      /\ w < Len(messages) => messages[w + 1].kind = "human"
    BY <1>1, WindowBegins DEF HistoryInv, TurnInv
<1>4. LastPlace = Len(messages) /\ LastPlace \in Nat
    BY HistoryParts
<1>5. LastPlace' = LastPlace /\ Kind(summarized + 1)' = messages[w + 1].kind
    BY <1>2 DEF LastPlace, Kind
<1>6. w <= LastPlace /\ LastPlace < w + HISTORY_MESSAGES + BATCH
    BY <1>3, <1>4, WindowConstants
<1>7. Reached'
    BY <1>2, <1>3, <1>4, <1>5, <1>6 DEF Reached
<1>8. TurnInv'
    BY TurnSummarized DEF HistoryInv
<1> QED
    BY <1>2, <1>7, <1>8 DEF HistoryInv

LEMMA HistoryStopped ==
    ASSUME HistoryInv, Turn!CompactionFails \/ Turn!Die
    PROVE  HistoryInv'
<1>1. turnNode' = "idle" /\ clean' = FALSE /\ UNCHANGED <<messages, summarized>>
    BY DEF Turn!CompactionFails, Turn!Die, Turn!Compacted
<1>2. LastPlace' = LastPlace /\ Kind(summarized + 1)' = Kind(summarized + 1)
    BY <1>1 DEF LastPlace, Kind
<1>3. Reached'
    BY <1>1, <1>2 DEF HistoryInv, Reached
<1>4. TurnInv'
    BY TurnStopped DEF HistoryInv
<1> QED
    BY <1>1, <1>3, <1>4 DEF HistoryInv

LEMMA HistoryInit ==
    ASSUME Turn!Init
    PROVE  HistoryInv
<1>1. messages = <<>> /\ Len(messages) = 0 /\ summarized = 0 /\ turnNode = "idle"
    BY DEF Turn!Init
<1>2. 0 < 0 + HISTORY_MESSAGES + BATCH
    BY WindowConstants
<1>3. Told(messages) /\ Numbered(messages) /\ Reached
    BY <1>1, <1>2 DEF Told, Numbered, Reached, LastPlace
<1> QED
    BY <1>3, TurnInit DEF HistoryInv

LEMMA HistoryRest ==
    ASSUME HistoryInv, UNCHANGED turnVars
    PROVE  HistoryInv'
<1>1. UNCHANGED <<messages, summarized, turnNode, clean>>
    BY DEF turnVars
<1>2. LastPlace' = LastPlace /\ Kind(summarized + 1)' = Kind(summarized + 1) /\ Kind(LastPlace)' = Kind(LastPlace)
    BY <1>1 DEF LastPlace, Kind
<1>3. Reached'
    BY <1>1, <1>2 DEF HistoryInv, Reached
<1>4. TurnInv'
    BY TurnRest DEF HistoryInv
<1> QED
    BY <1>1, <1>3, <1>4 DEF HistoryInv

LEMMA HistoryAlways == ChatSpec => []HistoryInv
<1>1. ChatInit => HistoryInv
    BY HistoryInit DEF ChatInit
<1>2. HistoryInv /\ Turn!Next => HistoryInv'
    BY HistoryAsked, HistoryDecided, HistoryRead, HistoryReplied, HistoryRan, HistoryNoticed, HistoryFlushed,
       HistorySummarized, HistoryStopped DEF Turn!Next
<1>3. HistoryInv /\ [ChatNext]_chatVars => HistoryInv'
    BY <1>2, HistoryRest DEF ChatNext, chatVars
<1> QED
    BY <1>1, <1>3, PTL DEF ChatSpec

-----------------------------------------------------------------------------
(* Sequences laid one after another: where each begins *)

\* In out, the sequences of b one after another, the i-th ends at p[i].
Placing(p, b, out) ==
    /\ p \in [0..Len(b) -> Nat] /\ p[0] = 0 /\ p[Len(b)] = Len(out)
    /\ \A i \in 1..Len(b) : /\ p[i] = p[i - 1] + Len(b[i])
                            /\ \A t \in 1..Len(b[i]) : out[p[i - 1] + t] = b[i][t]

LEMMA SameFlatten == \A s : Turn!FlattenSeq(s) = Relaying!FlattenSeq(s)
BY DEF Turn!FlattenSeq, Relaying!FlattenSeq

\* One sequence is the beginning of another.
Begins(s, t) == Len(s) <= Len(t) /\ \A k \in 1..Len(s) : t[k] = s[k]

LEMMA JoinsBegin ==
    ASSUME NEW S, NEW n \in Nat, NEW b \in [1..n -> Seq(S)], NEW f, Joins(f, b, n), NEW i \in 1..n
    PROVE  \A m \in i..n : Begins(f[i], f[m])
<1>0. \A k \in 1..n : f[k] = IF k = 1 THEN b[k] ELSE f[k - 1] \o b[k]
    BY JoinsAt
<1> DEFINE bad == {m \in i..n : ~Begins(f[i], f[m])}
<1>1. SUFFICES ASSUME bad # {}
               PROVE  FALSE
    OBVIOUS
<1>2. PICK m \in bad : \A k \in bad : m <= k
    BY <1>1, LeastExists, bad \in SUBSET Nat
<1>3. \A k \in 1..n : f[k] \in Seq(S)
    BY JoinsTyped
<1>4. m \in i..n /\ ~Begins(f[i], f[m])
    OBVIOUS
<1>5. m # i
    <2>1. Begins(f[i], f[i])
        BY <1>3 DEF Begins
    <2> QED
        BY <1>4, <2>1
<1>6. m - 1 \in i..n /\ m - 1 \notin bad /\ m \in 1..n /\ m # 1 /\ m - 1 \in 1..n
    BY <1>2, <1>5
<1>7. Begins(f[i], f[m - 1])
    BY <1>6
<1>8. f[m] = f[m - 1] \o b[m]
    BY <1>0, <1>6
<1>9. PICK s \in Seq(S), t \in Seq(S), u \in Seq(S) : s = f[i] /\ t = f[m - 1] /\ u = b[m]
    BY <1>3, <1>6
<1>10. Len(t \o u) = Len(t) + Len(u) /\ \A k \in 1..Len(t) : (t \o u)[k] = t[k]
    OBVIOUS
<1>11. Begins(s, t \o u)
    <2>1. Len(s) <= Len(t) /\ \A k \in 1..Len(s) : t[k] = s[k]
        BY <1>7, <1>9 DEF Begins
    <2>2. Len(s) <= Len(t \o u)
        BY <1>10, <2>1
    <2>3. \A k \in 1..Len(s) : (t \o u)[k] = s[k]
        BY <1>10, <2>1
    <2> QED
        BY <2>2, <2>3 DEF Begins
<1> HIDE DEF bad
<1> QED
    BY <1>4, <1>8, <1>9, <1>11

LEMMA PlacingExists ==
    ASSUME NEW S, NEW b \in Seq(Seq(S))
    PROVE  Turn!FlattenSeq(b) \in Seq(S) /\ \E p : Placing(p, b, Turn!FlattenSeq(b))
<1>1. PICK n \in Nat : n = Len(b)
    OBVIOUS
<1>2. CASE b = <<>>
    <2>1. Turn!FlattenSeq(b) = <<>>
        BY <1>2, SameFlatten, FlattenNone
    <2>2. Placing([k \in 0..0 |-> 0], <<>>, <<>>)
        BY DEF Placing
    <2> QED
        BY <1>2, <2>1, <2>2
<1>3. CASE b # <<>>
    <2>1. n # 0 /\ b \in [1..n -> Seq(S)]
        BY <1>1, <1>3, EmptySeq
    <2>2. PICK f : Joins(f, b, n) /\ Turn!FlattenSeq(b) = f[n] /\ Turn!FlattenSeq(b) \in Seq(S)
        BY <1>1, <1>3, SameFlatten, FlattenJoins
    <2>3. \A k \in 1..n : f[k] \in Seq(S)
        BY <2>1, <2>2, JoinsTyped
    <2> DEFINE p == [k \in 0..n |-> IF k = 0 THEN 0 ELSE Len(f[k])]
    <2>4. p \in [0..n -> Nat] /\ p[0] = 0 /\ p[n] = Len(f[n])
        BY <2>1, <2>3
    <2>5. ASSUME NEW i \in 1..n
          PROVE  /\ p[i] = p[i - 1] + Len(b[i])
                 /\ \A t \in 1..Len(b[i]) : f[n][p[i - 1] + t] = b[i][t]
        <3>1. Begins(f[i], f[n])
            BY <2>1, <2>2, JoinsBegin
        <3>2. b[i] \in Seq(S) /\ f[i] \in Seq(S) /\ p[i] = Len(f[i])
            BY <2>1, <2>3
        <3>3. CASE i = 1
            <4>1. f[i] = b[i]
                BY <2>1, <2>2, <3>3, JoinsAt
            <4>2. p[i - 1] = 0 /\ p[i] = Len(b[i]) /\ Len(b[i]) \in Nat
                BY <2>4, <3>2, <3>3, <4>1
            <4>3. \A t \in 1..Len(b[i]) : f[n][t] = b[i][t] /\ 0 + t = t
                BY <3>1, <3>2, <4>1 DEF Begins
            <4> HIDE DEF p
            <4> QED
                BY <4>2, <4>3
        <3>4. CASE i # 1
            <4>1. PICK j \in 1..n : j = i - 1
                BY <3>4
            <4>5. f[i] = IF i = 1 THEN b[i] ELSE f[i - 1] \o b[i]
                BY <2>2, JoinsAt
            <4>6. p[j] = Len(f[j]) /\ f[j] \in Seq(S)
                BY <2>3, <4>1
            <4>2. f[i] = f[j] \o b[i] /\ p[j] = Len(f[j]) /\ f[j] \in Seq(S)
                BY <3>4, <4>1, <4>5, <4>6
            <4>3. Len(f[i]) = Len(f[j]) + Len(b[i]) /\ Len(f[j]) \in Nat /\ Len(b[i]) \in Nat
                BY <3>2, <4>2
            <4> HIDE DEF p
            <4>7. PICK x \in Nat, y \in Nat : x = Len(f[j]) /\ y = Len(b[i])
                BY <4>3
            <4>4. ASSUME NEW t \in 1..Len(b[i])
                  PROVE  f[n][p[j] + t] = b[i][t]
                <5>3. t \in 1..y
                    BY <4>7
                <5>0. x + t \in x + 1..x + y /\ x + t - x = t /\ x + t \in 1..x + y
                    BY <5>3
                <5>1. p[j] + t \in Len(f[j]) + 1..Len(f[j]) + Len(b[i]) /\ Len(f[j]) + t - Len(f[j]) = t
                    BY <4>2, <4>7, <5>0
                <5>2. (f[j] \o b[i])[p[j] + t] = b[i][t]
                    BY <3>2, <4>2, <5>1
                <5>4. p[j] + t \in 1..Len(f[i])
                    BY <4>2, <4>3, <4>7, <5>0
                <5> QED
                    BY <3>1, <4>2, <5>2, <5>4 DEF Begins
            <4> QED
                BY <3>2, <4>1, <4>2, <4>3, <4>4
        <3> QED
            BY <3>3, <3>4
    <2> HIDE DEF p
    <2>6. Placing(p, b, f[n])
        BY <1>1, <2>4, <2>5 DEF Placing
    <2> QED
        BY <2>2, <2>6
<1> QED
    BY <1>2, <1>3

LEMMA PlacesGrow ==
    ASSUME NEW S, NEW b \in Seq(Seq(S)), NEW out \in Seq(S), NEW p, Placing(p, b, out),
           NEW i \in 0..Len(b)
    PROVE  \A j \in i..Len(b) : p[i] <= p[j]
<1>1. PICK n \in Nat : n = Len(b)
    OBVIOUS
<1> DEFINE bad == {j \in i..n : ~(p[i] <= p[j])}
<1>2. SUFFICES ASSUME bad # {}
               PROVE  FALSE
    BY <1>1
<1>3. PICK j \in bad : \A k \in bad : j <= k
    <2>1. bad \in SUBSET Nat
        BY <1>1
    <2> QED
        BY <1>2, <2>1, LeastExists
<1>4. j \in i..n /\ ~(p[i] <= p[j]) /\ p[i] \in Nat /\ p[j] \in Nat
    <2>1. p \in [0..n -> Nat] /\ i \in 0..n
        BY <1>1 DEF Placing
    <2>2. j \in i..n /\ j \in 0..n /\ ~(p[i] <= p[j])
        BY <1>1, <2>1
    <2> QED
        BY <2>1, <2>2
<1>5. j # i /\ j - 1 \in i..n /\ j \in 1..n
    BY <1>1, <1>4
<1>6. j - 1 \notin bad
    BY <1>3, <1>4
<1>7. p[i] <= p[j - 1]
    BY <1>5, <1>6
<1>8. p[j] = p[j - 1] + Len(b[j]) /\ p[j - 1] \in Nat /\ Len(b[j]) \in Nat
    <2>1. p \in [0..n -> Nat] /\ p[j] = p[j - 1] + Len(b[j])
        BY <1>1, <1>5 DEF Placing
    <2>2. j - 1 \in 0..n /\ b[j] \in Seq(S)
        BY <1>1, <1>5
    <2> QED
        BY <2>1, <2>2
<1> QED
    BY <1>4, <1>7, <1>8

LEMMA PlacesCover ==
    ASSUME NEW S, NEW b \in Seq(Seq(S)), NEW out \in Seq(S), NEW p, Placing(p, b, out),
           NEW q \in 1..Len(out)
    PROVE  \E i \in 1..Len(b) : \E t \in 1..Len(b[i]) : q = p[i - 1] + t
<1>1. PICK n \in Nat : n = Len(b)
    OBVIOUS
<1>2. p[n] = Len(out) /\ p[0] = 0 /\ \A k \in 0..n : p[k] \in Nat
    BY <1>1 DEF Placing
<1> DEFINE past == {k \in 0..n : q <= p[k]}
<1>3. n \in past /\ past \in SUBSET Nat
    BY <1>1, <1>2
<1>4. PICK k \in past : \A j \in past : k <= j
    BY <1>3, LeastExists
<1>5. k \in 0..n /\ q <= p[k] /\ k # 0
    BY <1>2
<1>6. k \in 1..n /\ k - 1 \in 0..n /\ k - 1 \notin past
    BY <1>4, <1>5
<1>7. p[k - 1] < q
    BY <1>2, <1>6
<1>8. p[k] = p[k - 1] + Len(b[k]) /\ p[k - 1] \in Nat /\ Len(b[k]) \in Nat
    BY <1>1, <1>2, <1>6 DEF Placing
<1>9. q - p[k - 1] \in 1..Len(b[k]) /\ q = p[k - 1] + (q - p[k - 1])
    BY <1>5, <1>7, <1>8
<1> QED
    BY <1>1, <1>6, <1>9

-----------------------------------------------------------------------------
(* The results shown for calls nothing answered *)

\* Some elements are put in some order, each of them.
LEMMA InEveryOrder ==
    ASSUME NEW S, IsFiniteSet(S)
    PROVE  \E n \in Nat : /\ Turn!SetToSeq(S) \in [1..n -> S]
                          /\ \A x \in S : \E k \in 1..n : Turn!SetToSeq(S)[k] = x
<1>1. \A T : Turn!Cardinality(T) = Cardinality(T)
    BY DEF Turn!Cardinality, Cardinality
<1>2. PICK n \in Nat : n = Cardinality(S)
    BY FS_CardinalityType
<1>3. \E f \in [1..n -> S] : Turn!IsInjective(f)
    BY <1>2, FS_CardinalityType DEF ExistsBijection, Bijection, Injection, IsInjective, Turn!IsInjective
<1>4. PICK f \in [1..n -> S] : f = Turn!SetToSeq(S) /\ Turn!IsInjective(f)
    BY <1>1, <1>2, <1>3 DEF Turn!SetToSeq
<1> DEFINE T == {f[k] : k \in 1..n}
<1>5. T \in SUBSET S
    OBVIOUS
<1>6. IsFiniteSet(1..n) /\ Cardinality(1..n) = n
    <2>1. 1 \in Int /\ n \in Int
        OBVIOUS
    <2> QED
        BY <2>1, FS_Interval
<1>7. f \in Bijection(1..n, T)
    BY <1>4 DEF Bijection, Injection, Surjection, IsInjective, Turn!IsInjective
<1>8. Cardinality(T) = Cardinality(S)
    BY <1>2, <1>6, <1>7, FS_Bijection DEF ExistsBijection
<1>9. S = T
    BY <1>5, <1>8, FS_Subset
<1> QED
    BY <1>4, <1>9

\* The failure results after message i: each answers one of its calls, and none of the calls is left.
Failures(u, calls, results) ==
    /\ u \in Seq(Turn!Message)
    /\ \A k \in 1..Len(u) : u[k].kind = "tool" /\ u[k].n = 0 /\ u[k].calls \subseteq calls
    /\ \A c \in calls \ results : \E k \in 1..Len(u) : u[k].calls = {c}

LEMMA CallsFinite == IsFiniteSet(Turn!CallIds)
<1>1. MaxMessages \in Int /\ MaxToolCalls \in Int /\ 1 \in Int
    BY PartsAssumption DEF Turn!TurnAssumption
<1>2. IsFiniteSet(1..MaxMessages) /\ IsFiniteSet(1..MaxToolCalls)
    BY <1>1, FS_Interval
<1> QED
    BY <1>2, FS_Product DEF Turn!CallIds

LEMMA UnfinishedOther ==
    ASSUME NEW ms, NEW i, ms[i].kind # "ai"
    PROVE  Turn!Unfinished(ms, i) = <<>>
BY DEF Turn!Unfinished

LEMMA UnfinishedReply ==
    ASSUME NEW ms \in Seq(Turn!Message), NEW i \in 1..Len(ms), ms[i].kind = "ai"
    PROVE  Failures(Turn!Unfinished(ms, i), ms[i].calls, Turn!Results(ms, i))
<1>1. PICK calls, results : calls = ms[i].calls /\ results = Turn!Results(ms, i)
    OBVIOUS
<1>0. calls \in SUBSET Turn!CallIds
    <2>1. ms[i] \in Turn!Message
        OBVIOUS
    <2> QED
        BY <1>1, <2>1 DEF Turn!Message
<1>2. PICK missing : missing = calls \ results
    OBVIOUS
<1>3. missing \in SUBSET Turn!CallIds /\ IsFiniteSet(missing)
    BY <1>0, <1>2, CallsFinite, FS_Subset
<1>4. PICK n \in Nat : /\ Turn!SetToSeq(missing) \in [1..n -> missing]
                       /\ \A x \in missing : \E k \in 1..n : Turn!SetToSeq(missing)[k] = x
    BY <1>3, InEveryOrder
<1>5. PICK order \in [1..n -> missing] : order = Turn!SetToSeq(missing)
    BY <1>4
<1> DEFINE u == [k \in 1..n |-> Turn!ToolResult(order[k], 0)]
<1>6. Turn!Unfinished(ms, i) = u
    BY <1>1, <1>2, <1>5 DEF Turn!Unfinished
<1>7. ASSUME NEW k \in 1..n
      PROVE  u[k] \in Turn!Message /\ u[k].kind = "tool" /\ u[k].n = 0 /\ u[k].calls = {order[k]}
    <2>1. u[k] = Turn!ToolResult(order[k], 0)
        OBVIOUS
    <2>2. order[k] \in missing /\ {order[k]} \in SUBSET Turn!CallIds
        BY <1>3
    <2>3. 0 \in 0..MaxMessages
        BY PartsAssumption DEF Turn!TurnAssumption
    <2> QED
        BY <2>1, <2>2, <2>3 DEF Turn!ToolResult, Turn!Message
<1>8. u \in Seq(Turn!Message) /\ Len(u) = n
    BY <1>7
<1> HIDE DEF u
<1>9. Failures(u, calls, results)
    <2>1. \A c \in calls \ results : \E k \in 1..n : order[k] = c
        BY <1>2, <1>4, <1>5
    <2>2. \A k \in 1..n : order[k] \in calls
        BY <1>2
    <2>3. \A k \in 1..n : u[k].kind = "tool" /\ u[k].n = 0 /\ u[k].calls \subseteq calls
        BY <1>7, <2>2
    <2>4. \A c \in calls \ results : \E k \in 1..n : u[k].calls = {c}
        BY <1>7, <2>1
    <2> QED
        BY <1>8, <2>3, <2>4 DEF Failures
<1> QED
    BY <1>1, <1>6, <1>9

-----------------------------------------------------------------------------
(* Each message with what is shown after it *)

\* What is shown of message i of ms.
Shown(ms, i, b) ==
    /\ b \in Seq(Turn!Message)
    /\ Turn!Empty(ms[i]) => Len(b) = 0
    /\ ~Turn!Empty(ms[i]) => /\ Len(b) > 0 /\ b[1] = ms[i]
                             /\ ms[i].kind # "ai" => Len(b) = 1
                             /\ \A t \in 2..Len(b) : /\ b[t].kind = "tool" /\ b[t].n = 0
                                                     /\ b[t].calls \subseteq ms[i].calls
                             /\ ms[i].kind = "ai" =>
                                  \A c \in ms[i].calls \ Turn!Results(ms, i) :
                                    \E t \in 2..Len(b) : b[t].calls = {c}

LEMMA ShownOne ==
    ASSUME NEW ms \in Seq(Turn!Message), NEW i \in 1..Len(ms)
    PROVE  Shown(ms, i, IF Turn!Empty(ms[i]) THEN <<>> ELSE <<ms[i]>> \o Turn!Unfinished(ms, i))
<1>1. CASE Turn!Empty(ms[i])
    BY <1>1 DEF Shown
<1>2. CASE ~Turn!Empty(ms[i])
    <2>1. PICK m, u : m = ms[i] /\ u = Turn!Unfinished(ms, i) /\ m \in Turn!Message
        OBVIOUS
    <2>2. CASE m.kind # "ai"
        <3>1. u = <<>> /\ <<m>> \o u = <<m>>
            <4>1. u = <<>>
                BY <2>1, <2>2, UnfinishedOther
            <4>2. <<m>> \in Seq(Turn!Message)
                BY <2>1
            <4> QED
                BY <4>1, <4>2, ConcatEmptySeq
        <3>2. <<m>> \in Seq(Turn!Message) /\ Len(<<m>>) = 1 /\ <<m>>[1] = m /\ 2..1 = {}
            BY <2>1
        <3> QED
            BY <1>2, <2>1, <2>2, <3>1, <3>2 DEF Shown
    <2>3. CASE m.kind = "ai"
        <3>1. Failures(u, m.calls, Turn!Results(ms, i))
            BY <2>1, <2>3, UnfinishedReply
        <3>2. PICK n \in Nat : n = Len(u) /\ u \in Seq(Turn!Message)
            BY <3>1 DEF Failures
        <3>3. PICK b : b = <<m>> \o u
            OBVIOUS
        <3>4. b \in Seq(Turn!Message) /\ Len(b) = n + 1 /\ b[1] = m
            BY <2>1, <3>2, <3>3
        <3>5. \A k \in 1..n : b[k + 1] = u[k]
            BY <2>1, <3>2, <3>3
        <3>6. ASSUME NEW t \in 2..n + 1
              PROVE  b[t].kind = "tool" /\ b[t].n = 0 /\ b[t].calls \subseteq m.calls
            <4>1. PICK k \in 1..n : t = k + 1
                <5>1. t - 1 \in 1..n /\ t = (t - 1) + 1
                    BY <3>2
                <5> QED
                    BY <5>1
            <4> QED
                BY <3>1, <3>2, <3>5, <4>1 DEF Failures
        <3>7. ASSUME NEW c \in m.calls \ Turn!Results(ms, i)
              PROVE  \E t \in 2..n + 1 : b[t].calls = {c}
            <4>1. PICK k \in 1..n : u[k].calls = {c}
                BY <3>1, <3>2 DEF Failures
            <4>2. k + 1 \in 2..n + 1
                OBVIOUS
            <4> QED
                BY <3>5, <4>1, <4>2
        <3>8. Len(b) > 0
            BY <3>4
        <3> QED
            BY <1>2, <2>1, <2>3, <3>3, <3>4, <3>6, <3>7, <3>8 DEF Shown
    <2> QED
        BY <2>2, <2>3
<1> QED
    BY <1>1, <1>2

\* What a model is shown of some messages, and where what is shown of each of them is.
ShownAs(ms, out, b, p) ==
    /\ b \in Seq(Seq(Turn!Message)) /\ Len(b) = Len(ms)
    /\ \A i \in 1..Len(ms) : Shown(ms, i, b[i])
    /\ out \in Seq(Turn!Message) /\ Placing(p, b, out)

LEMMA AnsweredShown ==
    ASSUME NEW ms \in Seq(Turn!Message)
    PROVE  \E b, p : ShownAs(ms, Turn!Answered(ms), b, p)
<1>1. PICK n \in Nat : n = Len(ms) /\ DOMAIN ms = 1..n
    OBVIOUS
<1> DEFINE b == [i \in 1..n |-> IF Turn!Empty(ms[i]) THEN <<>> ELSE <<ms[i]>> \o Turn!Unfinished(ms, i)]
<1>2. \A i \in 1..n : Shown(ms, i, b[i])
    BY <1>1, ShownOne
<1>3. \A i \in 1..n : b[i] \in Seq(Turn!Message)
    BY <1>2 DEF Shown
<1>4. b \in Seq(Seq(Turn!Message)) /\ Len(b) = n
    BY <1>3
<1>5. Turn!Answered(ms) = Turn!FlattenSeq(b)
    BY <1>1 DEF Turn!Answered
<1> HIDE DEF b
<1>6. Turn!FlattenSeq(b) \in Seq(Turn!Message) /\ \E p : Placing(p, b, Turn!FlattenSeq(b))
    BY <1>4, PlacingExists
<1> QED
    BY <1>1, <1>2, <1>4, <1>5, <1>6 DEF ShownAs

-----------------------------------------------------------------------------
(* What is shown is answered *)

\* The results that follow a reply answer its calls, and there are no others.
EachAnswered(ms) ==
    /\ \A i \in 1..Len(ms) : ms[i].kind = "ai" => Turn!Results(ms, i) = ms[i].calls
    /\ \A j \in 1..Len(ms) : ms[j].kind = "tool" =>
         \E i \in 1..j - 1 : ms[i].kind = "ai" /\ \A k \in i + 1..j : ms[k].kind = "tool"

LEMMA ResultsAre ==
    ASSUME NEW ms, NEW i, NEW c
    PROVE  c \in Turn!Results(ms, i) <=>
             \E j \in i + 1..Len(ms) : c \in ms[j].calls /\ \A k \in i + 1..j : ms[k].kind = "tool"
BY DEF Turn!Results

\* Where what is shown of a message begins and ends.
LEMMA ShownAt ==
    ASSUME NEW ms \in Seq(Turn!Message), NEW out, NEW b, NEW p, ShownAs(ms, out, b, p),
           NEW i \in 1..Len(ms)
    PROVE  /\ p[i - 1] \in Nat /\ p[i] \in Nat /\ p[i] = p[i - 1] + Len(b[i]) /\ p[i] <= Len(out)
           /\ Len(b[i]) \in Nat /\ Len(out) \in Nat /\ out \in Seq(Turn!Message)
           /\ \A t \in 1..Len(b[i]) : p[i - 1] + t \in 1..Len(out) /\ out[p[i - 1] + t] = b[i][t]
           /\ \A m \in i + 1..Len(ms) : p[i] <= p[m - 1]
<1>1. PICK n \in Nat : n = Len(ms)
    OBVIOUS
<1>2. /\ b \in Seq(Seq(Turn!Message)) /\ Len(b) = n /\ out \in Seq(Turn!Message) /\ Placing(p, b, out)
      /\ Len(out) \in Nat
    BY <1>1 DEF ShownAs
<1>3. p \in [0..n -> Nat] /\ p[n] = Len(out)
    BY <1>2 DEF Placing
<1>4. i \in 0..n /\ i - 1 \in 0..n /\ i \in 1..n
    BY <1>1
<1>5. p[i - 1] \in Nat /\ p[i] \in Nat
    BY <1>3, <1>4
<1>6. p[i] = p[i - 1] + Len(b[i]) /\ \A t \in 1..Len(b[i]) : out[p[i - 1] + t] = b[i][t]
    BY <1>2, <1>4 DEF Placing
<1>7. \A m \in i..n : p[i] <= p[m]
    BY <1>2, <1>4, PlacesGrow
<1>8. p[i] <= Len(out)
    <2>1. n \in i..n
        BY <1>4
    <2> QED
        BY <1>3, <1>7, <2>1
<1>9. b[i] \in Seq(Turn!Message) /\ Len(b[i]) \in Nat
    BY <1>2, <1>4
<1>10. ASSUME NEW t \in 1..Len(b[i])
       PROVE  p[i - 1] + t \in 1..Len(out)
    BY <1>2, <1>5, <1>6, <1>8, <1>9
<1>11. ASSUME NEW m \in i + 1..n
       PROVE  p[i] <= p[m - 1]
    <2>1. m - 1 \in i..n
        BY <1>4
    <2> QED
        BY <1>7, <2>1
<1> QED
    BY <1>1, <1>2, <1>5, <1>6, <1>8, <1>9, <1>10, <1>11

\* Every message shown belongs to one of the thread's.
LEMMA ShownOf ==
    ASSUME NEW ms \in Seq(Turn!Message), NEW out, NEW b, NEW p, ShownAs(ms, out, b, p),
           NEW q \in 1..Len(out)
    PROVE  \E i \in 1..Len(ms) : \E t \in 1..Len(b[i]) :
             q = p[i - 1] + t /\ out[q] = b[i][t] /\ ~Turn!Empty(ms[i])
<1>1. /\ b \in Seq(Seq(Turn!Message)) /\ Len(b) = Len(ms) /\ out \in Seq(Turn!Message)
      /\ Placing(p, b, out)
    BY DEF ShownAs
<1>2. PICK i \in 1..Len(b) : \E t \in 1..Len(b[i]) : q = p[i - 1] + t
    BY <1>1, PlacesCover
<1>3. PICK t \in 1..Len(b[i]) : q = p[i - 1] + t
    BY <1>2
<1>4. out[q] = b[i][t]
    BY <1>1, <1>3 DEF Placing
<1>5. Shown(ms, i, b[i])
    BY <1>1 DEF ShownAs
<1>6. Turn!Empty(ms[i]) => Len(b[i]) = 0
    BY <1>5 DEF Shown
<1>7. Len(b[i]) # 0
    BY <1>1
<1> QED
    BY <1>1, <1>3, <1>4, <1>6, <1>7

\* From x to y, out answers the calls of message i that nothing in ms does.
FailuresShown(ms, i, out, x, y) ==
    \A c \in ms[i].calls \ Turn!Results(ms, i) : \E q \in x..y : out[q].calls = {c}

\* A message that is not an empty reply is shown first, then the failures of its calls.
LEMMA ShownHead ==
    ASSUME NEW ms \in Seq(Turn!Message), NEW out, NEW b, NEW p, ShownAs(ms, out, b, p),
           NEW i \in 1..Len(ms), ~Turn!Empty(ms[i])
    PROVE  /\ p[i - 1] + 1 \in 1..Len(out) /\ out[p[i - 1] + 1] = ms[i] /\ p[i - 1] + 1 <= p[i]
           /\ ms[i].kind # "ai" => p[i] = p[i - 1] + 1
           /\ \A q \in p[i - 1] + 2..p[i] :
                out[q].kind = "tool" /\ out[q].n = 0 /\ out[q].calls \subseteq ms[i].calls
           /\ ms[i].kind = "ai" => FailuresShown(ms, i, out, p[i - 1] + 2, p[i])
<1>1. /\ p[i - 1] \in Nat /\ p[i] \in Nat /\ p[i] = p[i - 1] + Len(b[i])
      /\ \A t \in 1..Len(b[i]) : p[i - 1] + t \in 1..Len(out) /\ out[p[i - 1] + t] = b[i][t]
    BY ShownAt
<1>2. Shown(ms, i, b[i])
    BY DEF ShownAs
<1>3. PICK x \in Nat, y \in Nat, z \in Nat : x = p[i - 1] /\ z = p[i] /\ y = Len(b[i])
    <2>1. b[i] \in Seq(Turn!Message)
        BY <1>2 DEF Shown
    <2> QED
        BY <1>1, <2>1
<1>4. /\ y > 0 /\ b[i][1] = ms[i]
      /\ ms[i].kind # "ai" => y = 1
      /\ \A t \in 2..y : /\ b[i][t].kind = "tool" /\ b[i][t].n = 0
                         /\ b[i][t].calls \subseteq ms[i].calls
      /\ ms[i].kind = "ai" => \A c \in ms[i].calls \ Turn!Results(ms, i) :
                                \E t \in 2..y : b[i][t].calls = {c}
    BY <1>2, <1>3 DEF Shown
<1>5. z = x + y /\ \A t \in 1..y : x + t \in 1..Len(out) /\ out[x + t] = b[i][t]
    BY <1>1, <1>3
<1>6. 1 \in 1..y /\ x + 1 <= z /\ 2..y \subseteq 1..y
    BY <1>4, <1>5
<1>7. x + 1 \in 1..Len(out) /\ out[x + 1] = ms[i]
    BY <1>4, <1>5, <1>6
<1>8. ASSUME NEW q \in x + 2..z
      PROVE  out[q].kind = "tool" /\ out[q].n = 0 /\ out[q].calls \subseteq ms[i].calls
    <2>1. PICK t \in 2..y : q = x + t
        <3>1. q - x \in 2..y /\ q = x + (q - x)
            BY <1>5
        <3> QED
            BY <3>1
    <2>2. out[q] = b[i][t]
        BY <1>5, <1>6, <2>1
    <2> QED
        BY <1>4, <2>2
<1>9. ASSUME ms[i].kind = "ai", NEW c \in ms[i].calls \ Turn!Results(ms, i)
      PROVE  \E q \in x + 2..z : out[q].calls = {c}
    <2>1. PICK t \in 2..y : b[i][t].calls = {c}
        BY <1>4, <1>9
    <2>2. x + t \in x + 2..z
        BY <1>5
    <2>3. out[x + t] = b[i][t]
        BY <1>5, <1>6
    <2> QED
        BY <2>1, <2>2, <2>3
<1>10. ms[i].kind # "ai" => z = x + 1
    BY <1>4, <1>5
<1>11. ms[i].kind = "ai" => FailuresShown(ms, i, out, x + 2, z)
    BY <1>9 DEF FailuresShown
<1> QED
    BY <1>3, <1>6, <1>7, <1>8, <1>10, <1>11

\* After a reply, up to the last of the results that follow it in the thread, results alone are shown.
LEMMA ResultsShown ==
    ASSUME NEW ms \in Seq(Turn!Message), NEW out, NEW b, NEW p, ShownAs(ms, out, b, p),
           NEW i \in 1..Len(ms), ~Turn!Empty(ms[i]), NEW j \in i..Len(ms),
           \A k \in i + 1..j : ms[k].kind = "tool"
    PROVE  \A q \in p[i - 1] + 2..p[j] : out[q].kind = "tool"
<1>1. SUFFICES ASSUME NEW q \in p[i - 1] + 2..p[j]
               PROVE  out[q].kind = "tool"
    OBVIOUS
<1>2. PICK n \in Nat : n = Len(ms)
    OBVIOUS
<1>3. j \in 1..n /\ i \in 1..n
    BY <1>2
<1>4. /\ p[i - 1] \in Nat /\ p[j] \in Nat /\ p[j] <= Len(out) /\ Len(out) \in Nat
      /\ \A m \in j + 1..n : p[j] <= p[m - 1]
    BY <1>2, <1>3, ShownAt
<1>5. q \in 1..Len(out)
    BY <1>4
<1>6. PICK m \in 1..n : \E t \in 1..Len(b[m]) :
         q = p[m - 1] + t /\ out[q] = b[m][t] /\ ~Turn!Empty(ms[m])
    BY <1>2, <1>5, ShownOf
<1>7. PICK t \in 1..Len(b[m]) : q = p[m - 1] + t /\ out[q] = b[m][t] /\ ~Turn!Empty(ms[m])
    BY <1>6
<1>8. /\ p[m - 1] \in Nat /\ p[m] \in Nat /\ p[m] = p[m - 1] + Len(b[m]) /\ Len(b[m]) \in Nat
      /\ \A k \in m + 1..n : p[m] <= p[k - 1]
    BY <1>2, ShownAt
<1>9. p[m - 1] < q /\ q <= p[m]
    <2>1. PICK x \in Nat, y \in Nat : x = p[m - 1] /\ y = Len(b[m])
        BY <1>8
    <2>2. t \in 1..y /\ q = x + t /\ p[m] = x + y
        BY <1>7, <1>8, <2>1
    <2>3. x < q /\ q <= x + y
        BY <2>2
    <2> QED
        BY <2>1, <2>2, <2>3
<1>10. m <= j
    <2>1. SUFFICES ASSUME m > j
                   PROVE  FALSE
        BY <1>3
    <2>2. m \in j + 1..n
        BY <1>3, <2>1
    <2> QED
        BY <1>4, <1>8, <1>9, <2>2
<1>11. i <= m
    <2>1. SUFFICES ASSUME m < i
                   PROVE  FALSE
        BY <1>3
    <2>2. i \in m + 1..n
        BY <1>3, <2>1
    <2>3. p[m] <= p[i - 1]
        BY <1>8, <2>2
    <2> QED
        BY <1>4, <1>8, <1>9, <2>3
<1>12. CASE m = i
    <2>1. q \in p[m - 1] + 2..p[m]
        BY <1>4, <1>8, <1>9, <1>12
    <2> QED
        BY <1>2, <1>12, <2>1, ShownHead
<1>13. CASE m # i
    <2>1. m \in i + 1..j
        BY <1>3, <1>10, <1>11, <1>13
    <2>2. ms[m].kind = "tool"
        BY <2>1
    <2>3. p[m] = p[m - 1] + 1 /\ out[p[m - 1] + 1] = ms[m]
        BY <1>2, <1>7, <2>2, ShownHead
    <2>4. q = p[m - 1] + 1
        BY <1>8, <1>9, <2>3
    <2> QED
        BY <2>2, <2>3, <2>4
<1> QED
    BY <1>12, <1>13

\* A message shown is one of the thread's, or the failure of a call of a reply shown before it.
LEMMA ShownIs ==
    ASSUME NEW ms \in Seq(Turn!Message), NEW out, NEW b, NEW p, ShownAs(ms, out, b, p),
           NEW q \in 1..Len(out)
    PROVE  \E i \in 1..Len(ms) :
             /\ ~Turn!Empty(ms[i])
             /\ \/ q = p[i - 1] + 1 /\ out[q] = ms[i]
                \/ q \in p[i - 1] + 2..p[i] /\ out[q].kind = "tool" /\ ms[i].kind = "ai"
<1>1. PICK i \in 1..Len(ms) : \E t \in 1..Len(b[i]) :
         q = p[i - 1] + t /\ out[q] = b[i][t] /\ ~Turn!Empty(ms[i])
    BY ShownOf
<1>2. PICK t \in 1..Len(b[i]) : q = p[i - 1] + t /\ out[q] = b[i][t] /\ ~Turn!Empty(ms[i])
    BY <1>1
<1>3. p[i - 1] \in Nat /\ p[i] \in Nat /\ p[i] = p[i - 1] + Len(b[i]) /\ Len(b[i]) \in Nat
    BY ShownAt
<1>4. PICK x \in Nat, y \in Nat : x = p[i - 1] /\ y = Len(b[i])
    BY <1>3
<1>5. t \in 1..y /\ q = x + t /\ p[i] = x + y
    BY <1>2, <1>3, <1>4
<1>6. CASE t = 1
    <2>1. q = p[i - 1] + 1 /\ out[q] = ms[i]
        BY <1>2, <1>6, ShownHead
    <2> QED
        BY <1>2, <2>1
<1>7. CASE t # 1
    <2>1. q \in x + 2..x + y /\ x + y # x + 1
        BY <1>5, <1>7
    <2>4. q \in p[i - 1] + 2..p[i] /\ p[i] # p[i - 1] + 1
        BY <1>4, <1>5, <2>1
    <2>2. out[q].kind = "tool"
        <3>1. \A z \in p[i - 1] + 2..p[i] : out[z].kind = "tool"
            BY <1>2, ShownHead
        <3> QED
            BY <2>4, <3>1
    <2>3. ms[i].kind = "ai"
        BY <1>2, <2>4, ShownHead
    <2> QED
        BY <1>2, <2>2, <2>3, <2>4
<1> QED
    BY <1>6, <1>7

\* The results shown after a reply answer its calls.
LEMMA ReplyAnswered ==
    ASSUME NEW ms \in Seq(Turn!Message), Told(ms), NEW out, NEW b, NEW p, ShownAs(ms, out, b, p),
           NEW q \in 1..Len(out), out[q].kind = "ai"
    PROVE  Turn!Results(out, q) = out[q].calls
<1>1. PICK i \in 1..Len(ms) : /\ ~Turn!Empty(ms[i])
                              /\ q = p[i - 1] + 1 /\ out[q] = ms[i]
    BY ShownIs
<1>2. PICK n \in Nat : n = Len(ms)
    OBVIOUS
<1>3. i \in 1..n /\ ms[i].kind = "ai"
    BY <1>1, <1>2
<1>4. /\ p[i - 1] \in Nat /\ p[i] \in Nat /\ q <= p[i] /\ p[i] <= Len(out) /\ Len(out) \in Nat
      /\ \A m \in i + 1..n : p[i] <= p[m - 1]
    BY <1>1, <1>2, ShownAt, ShownHead
<1>5. q + 1 = p[i - 1] + 2 /\ q \in Nat
    BY <1>1, <1>4
<1>6. ASSUME NEW c \in ms[i].calls
      PROVE  c \in Turn!Results(out, q)
    <2>1. CASE c \in Turn!Results(ms, i)
        <3>1. PICK j \in i + 1..n : c \in ms[j].calls /\ \A k \in i + 1..j : ms[k].kind = "tool"
            BY <1>2, <2>1, ResultsAre
        <3>2. j \in 1..n /\ j \in i..n /\ j \in i + 1..j
            BY <1>3
        <3>3. ms[j].kind = "tool" /\ ~Turn!Empty(ms[j])
            BY <3>1, <3>2 DEF Turn!Empty
        <3>4. /\ p[j - 1] + 1 \in 1..Len(out) /\ out[p[j - 1] + 1] = ms[j] /\ p[j - 1] + 1 <= p[j]
              /\ p[j] \in Nat /\ p[j - 1] \in Nat /\ p[i] <= p[j - 1]
            <4>1. /\ p[j - 1] + 1 \in 1..Len(out) /\ out[p[j - 1] + 1] = ms[j]
                  /\ p[j - 1] + 1 <= p[j]
                BY <1>2, <3>2, <3>3, ShownHead
            <4>2. p[j] \in Nat /\ p[j - 1] \in Nat
                BY <1>2, <3>2, ShownAt
            <4>3. p[i] <= p[j - 1]
                BY <1>4, <3>1
            <4> QED
                BY <4>1, <4>2, <4>3
        <3>5. \A x \in p[i - 1] + 2..p[j] : out[x].kind = "tool"
            <4>1. i \in 1..Len(ms) /\ ~Turn!Empty(ms[i]) /\ j \in i..Len(ms)
                BY <1>1, <1>2, <3>2
            <4>2. \A k \in i + 1..j : ms[k].kind = "tool"
                BY <3>1
            <4> QED
                BY <4>1, <4>2, ResultsShown
        <3>6. PICK z \in Nat : z = p[j - 1] + 1
            BY <3>4
        <3>7. z \in q + 1..Len(out) /\ q + 1..z \subseteq p[i - 1] + 2..p[j]
            <4>1. z \in 1..Len(out) /\ q + 1 <= z /\ z <= p[j]
                BY <1>4, <1>5, <3>4, <3>6
            <4>2. z \in q + 1..Len(out) /\ q + 1..z \subseteq q + 1..p[j]
                BY <1>5, <3>4, <4>1
            <4> QED
                BY <1>5, <4>2
        <3>8. c \in out[z].calls /\ \A k \in q + 1..z : out[k].kind = "tool"
            BY <3>1, <3>4, <3>5, <3>6, <3>7
        <3> QED
            BY <3>7, <3>8, ResultsAre
    <2>2. CASE c \notin Turn!Results(ms, i)
        <3>1. PICK z \in p[i - 1] + 2..p[i] : out[z].calls = {c}
            <4>1. c \in ms[i].calls \ Turn!Results(ms, i)
                BY <1>6, <2>2
            <4>2. FailuresShown(ms, i, out, p[i - 1] + 2, p[i])
                BY <1>1, <1>3, ShownHead
            <4> QED
                BY <4>1, <4>2 DEF FailuresShown
        <3>2. \A x \in p[i - 1] + 2..p[i] : out[x].kind = "tool"
            BY <1>1, ShownHead
        <3>3. z \in q + 1..Len(out) /\ q + 1..z \subseteq p[i - 1] + 2..p[i]
            BY <1>4, <1>5
        <3>4. c \in out[z].calls /\ \A k \in q + 1..z : out[k].kind = "tool"
            BY <3>1, <3>2, <3>3
        <3> QED
            BY <3>3, <3>4, ResultsAre
    <2> QED
        BY <2>1, <2>2
<1>7. ASSUME NEW c \in Turn!Results(out, q)
      PROVE  c \in ms[i].calls
    <2>1. PICK z \in q + 1..Len(out) : c \in out[z].calls /\ \A k \in q + 1..z : out[k].kind = "tool"
        BY <1>7, ResultsAre
    <2>2. z \in 1..Len(out) /\ z > q /\ z \in q + 1..z
        BY <1>4, <1>5
    <2>3. out[z].kind = "tool"
        BY <2>1, <2>2
    <2>4. PICK m \in 1..n :
             /\ ~Turn!Empty(ms[m])
             /\ \/ z = p[m - 1] + 1 /\ out[z] = ms[m]
                \/ z \in p[m - 1] + 2..p[m] /\ out[z].kind = "tool" /\ ms[m].kind = "ai"
        BY <1>2, <2>2, ShownIs
    <2>5. /\ p[m - 1] \in Nat /\ p[m] \in Nat /\ p[m - 1] + 1 <= p[m]
          /\ \A k \in m + 1..n : p[m] <= p[k - 1]
        BY <1>2, <2>4, ShownAt, ShownHead
    <2>6. z <= p[m] /\ p[m - 1] < z
        BY <2>4, <2>5
    <2>7. i <= m
        <3>1. SUFFICES ASSUME m < i
                       PROVE  FALSE
            BY <1>3
        <3>2. i \in m + 1..n
            BY <1>3, <3>1
        <3>3. p[m] <= p[i - 1]
            BY <2>5, <3>2
        <3> QED
            BY <1>1, <1>4, <2>2, <2>5, <2>6, <3>3
    <2>8. CASE m = i
        <3>1. z \in p[i - 1] + 2..p[i]
            BY <1>1, <1>4, <2>2, <2>6, <2>8
        <3>2. out[z].calls \subseteq ms[i].calls
            BY <1>1, <3>1, ShownHead
        <3> QED
            BY <2>1, <3>2
    <2>9. CASE m # i
        <3>1. m \in i + 1..n
            BY <1>3, <2>7, <2>9
        <3>2. p[i] <= p[m - 1]
            BY <1>4, <3>1
        <3>3. PICK w \in Nat : w = p[m - 1] + 1 /\ w \in q + 1..z
            BY <1>4, <1>5, <2>5, <2>6, <3>2
        <3>4. out[w] = ms[m]
            BY <1>2, <2>4, <3>3, ShownHead
        <3>5. ms[m].kind = "tool"
            BY <2>1, <3>3, <3>4
        <3>6. out[z] = ms[m]
            BY <2>4, <3>5
        <3>7. ms[m].calls # {} /\ AfterItsReply(ms, m)
            BY <1>2, <3>5 DEF Told
        <3>8. PICK a \in 1..m - 1 : /\ ms[a].kind = "ai" /\ ms[m].calls \subseteq ms[a].calls
                                    /\ \A k \in a + 1..m : ms[k].kind = "tool"
            BY <3>7 DEF AfterItsReply
        <3>9. a \in 1..n /\ i \in Nat /\ m \in Nat /\ a <= m - 1
            BY <1>3, <3>1, <3>8
        <3>10. ~(a < i)
            <4>1. a < i => i \in a + 1..m
                BY <1>3, <3>1, <3>9
            <4> QED
                BY <1>3, <3>8, <4>1
        <3>11. ~(i < a)
            <4>1. SUFFICES ASSUME i < a
                           PROVE  FALSE
                OBVIOUS
            <4>2. ~Turn!Empty(ms[a])
                BY <3>7, <3>8 DEF Turn!Empty
            <4>3. a \in i + 1..n /\ m \in a + 1..n
                BY <1>3, <3>1, <3>9, <4>1
            <4>4. /\ out[p[a - 1] + 1] = ms[a] /\ p[a - 1] + 1 <= p[a] /\ p[a] \in Nat /\ p[a - 1] \in Nat
                  /\ p[a] <= p[m - 1] /\ p[i] <= p[a - 1]
                <5>1. out[p[a - 1] + 1] = ms[a] /\ p[a - 1] + 1 <= p[a]
                    BY <1>2, <3>9, <4>2, ShownHead
                <5>2. p[a] \in Nat /\ p[a - 1] \in Nat /\ p[a] <= p[m - 1]
                    BY <1>2, <3>9, <4>3, ShownAt
                <5>3. p[i] <= p[a - 1]
                    BY <1>4, <4>3
                <5> QED
                    BY <5>1, <5>2, <5>3
            <4>5. p[a - 1] + 1 \in q + 1..z
                <5>1. PICK v \in Nat, w1 \in Nat, w2 \in Nat : v = p[a - 1] /\ w1 = p[i] /\ w2 = p[m - 1]
                    BY <1>4, <2>5, <4>4
                <5>2. q <= w1 /\ w1 <= v /\ v + 1 <= w2 /\ w2 < z /\ q \in Nat /\ z \in Nat
                    <6>1. q <= w1 /\ q \in Nat
                        BY <1>4, <1>5, <5>1
                    <6>2. w1 <= v /\ v + 1 <= w2
                        <7>1. PICK u \in Nat : u = p[a]
                            BY <4>4
                        <7>2. v + 1 <= u /\ u <= w2 /\ w1 <= v
                            BY <4>4, <5>1, <7>1
                        <7> QED
                            BY <7>2
                    <6>3. w2 < z /\ z \in Nat
                        BY <2>2, <2>6, <5>1
                    <6> QED
                        BY <6>1, <6>2, <6>3
                <5>3. v + 1 \in q + 1..z
                    BY <5>2
                <5> QED
                    BY <5>1, <5>3
            <4>6. out[p[a - 1] + 1].kind = "tool"
                BY <2>1, <4>5
            <4> QED
                BY <3>8, <4>4, <4>6
        <3>12. a = i
            BY <3>9, <3>10, <3>11
        <3> QED
            BY <2>1, <3>6, <3>8, <3>12
    <2> QED
        BY <2>8, <2>9
<1> QED
    BY <1>1, <1>6, <1>7

LEMMA AnsweredWell ==
    ASSUME NEW ms \in Seq(Turn!Message), Told(ms), NEW out, NEW b, NEW p, ShownAs(ms, out, b, p)
    PROVE  EachAnswered(out)
<1>1. \A i \in 1..Len(out) : out[i].kind = "ai" => Turn!Results(out, i) = out[i].calls
    BY ReplyAnswered
<1>2. ASSUME NEW q \in 1..Len(out), out[q].kind = "tool"
      PROVE  \E a \in 1..q - 1 : out[a].kind = "ai" /\ \A k \in a + 1..q : out[k].kind = "tool"
    <2>1. PICK n \in Nat : n = Len(ms)
        OBVIOUS
    <2>2. PICK m \in 1..n :
             /\ ~Turn!Empty(ms[m])
             /\ \/ q = p[m - 1] + 1 /\ out[q] = ms[m]
                \/ q \in p[m - 1] + 2..p[m] /\ out[q].kind = "tool" /\ ms[m].kind = "ai"
        BY <2>1, ShownIs
    <2>3. /\ p[m - 1] \in Nat /\ p[m] \in Nat /\ out[p[m - 1] + 1] = ms[m] /\ p[m - 1] + 1 <= p[m]
        BY <2>1, <2>2, ShownAt, ShownHead
    <2>4. CASE ms[m].kind = "ai"
        <3>1. q \in p[m - 1] + 2..p[m]
            BY <1>2, <2>2, <2>4
        <3>2. PICK a \in Nat : a = p[m - 1] + 1 /\ a \in 1..q - 1
            BY <2>3, <3>1
        <3>3. \A x \in p[m - 1] + 2..p[m] : out[x].kind = "tool"
            BY <2>1, <2>2, ShownHead
        <3>4. a + 1..q \subseteq p[m - 1] + 2..p[m]
            <4>1. a + 1 = p[m - 1] + 2 /\ a \in Nat
                BY <2>3, <3>2
            <4>2. q <= p[m] /\ q \in Nat
                BY <3>1
            <4> QED
                BY <2>3, <4>1, <4>2
        <3> QED
            BY <2>3, <2>4, <3>2, <3>3, <3>4
    <2>5. CASE ms[m].kind # "ai"
        <3>1. q = p[m - 1] + 1 /\ ms[m].kind = "tool"
            BY <1>2, <2>2, <2>5
        <3>2. ms[m].calls # {} /\ AfterItsReply(ms, m)
            BY <2>1, <3>1 DEF Told
        <3>3. PICK i \in 1..m - 1 : /\ ms[i].kind = "ai" /\ ms[m].calls \subseteq ms[i].calls
                                    /\ \A k \in i + 1..m : ms[k].kind = "tool"
            BY <3>2 DEF AfterItsReply
        <3>4. i \in 1..n /\ m \in i..n /\ m \in i + 1..n /\ ~Turn!Empty(ms[i])
            BY <3>2, <3>3 DEF Turn!Empty
        <3>5. /\ p[i - 1] \in Nat /\ p[i] \in Nat /\ out[p[i - 1] + 1] = ms[i] /\ p[i - 1] + 1 <= p[i]
              /\ p[i] <= p[m - 1]
            <4>1. out[p[i - 1] + 1] = ms[i] /\ p[i - 1] + 1 <= p[i]
                BY <2>1, <3>4, ShownHead
            <4>2. p[i - 1] \in Nat /\ p[i] \in Nat /\ p[i] <= p[m - 1]
                BY <2>1, <3>4, ShownAt
            <4> QED
                BY <4>1, <4>2
        <3>6. \A x \in p[i - 1] + 2..p[m] : out[x].kind = "tool"
            <4>1. m \in i..Len(ms) /\ i \in 1..Len(ms) /\ \A k \in i + 1..m : ms[k].kind = "tool"
                BY <2>1, <3>3, <3>4
            <4> QED
                BY <3>4, <4>1, ResultsShown
        <3>7. PICK a \in Nat : a = p[i - 1] + 1 /\ a \in 1..q - 1
            <4>1. PICK x \in Nat, y \in Nat, z \in Nat : x = p[i - 1] /\ y = p[i] /\ z = p[m - 1]
                BY <2>3, <3>5
            <4>2. x + 1 <= y /\ y <= z /\ q = z + 1
                BY <3>1, <3>5, <4>1
            <4>3. x + 1 \in 1..q - 1
                BY <4>2
            <4> QED
                BY <4>1, <4>3
        <3>8. a + 1..q \subseteq p[i - 1] + 2..p[m]
            <4>1. a + 1 = p[i - 1] + 2
                BY <3>5, <3>7
            <4>2. q <= p[m]
                BY <2>3, <3>1
            <4>3. q \in Nat /\ a \in Nat
                BY <3>7
            <4> QED
                BY <2>3, <4>1, <4>2, <4>3
        <3> QED
            BY <3>3, <3>5, <3>6, <3>7, <3>8
    <2> QED
        BY <2>4, <2>5
<1> QED
    BY <1>1, <1>2 DEF EachAnswered

-----------------------------------------------------------------------------
(* The last messages of a thread, and of what is shown of it *)

LEMMA FromIs ==
    ASSUME NEW ms \in Seq(Turn!Message), NEW k \in 1..Len(ms) + 1
    PROVE  /\ Turn!From(ms, k) \in Seq(Turn!Message) /\ Len(Turn!From(ms, k)) = Len(ms) - k + 1
           /\ \A i \in 1..Len(ms) - k + 1 : Turn!From(ms, k)[i] = ms[k + i - 1]
<1>1. PICK n \in Nat : n = Len(ms)
    OBVIOUS
<1>2. k \in Int /\ n \in Int /\ k \in 1..n + 1 /\ \A i \in k..n : ms[i] \in Turn!Message
    BY <1>1
<1>3. /\ SubSeq(ms, k, n) \in Seq(Turn!Message) /\ Len(SubSeq(ms, k, n)) = IF k <= n THEN n - k + 1 ELSE 0
      /\ \A i \in 1..n - k + 1 : SubSeq(ms, k, n)[i] = ms[k + i - 1]
    BY <1>2, SubSeqProperties
<1>4. (IF k <= n THEN n - k + 1 ELSE 0) = n - k + 1
    BY <1>1, <1>2
<1> QED
    BY <1>1, <1>3, <1>4 DEF Turn!From

\* What of some messages comes after the first d of them.
Rest(ms, rest, d) == Len(ms) = d + Len(rest) /\ \A i \in 1..Len(rest) : rest[i] = ms[d + i]

LEMMA FromRest ==
    ASSUME NEW ms \in Seq(Turn!Message), NEW d \in 0..Len(ms)
    PROVE  Turn!From(ms, d + 1) \in Seq(Turn!Message) /\ Rest(ms, Turn!From(ms, d + 1), d)
<1>1. PICK n \in Nat, k \in Nat : n = Len(ms) /\ k = d + 1 /\ k \in 1..n + 1
    OBVIOUS
<1>2. /\ Turn!From(ms, k) \in Seq(Turn!Message) /\ Len(Turn!From(ms, k)) = n - k + 1
      /\ \A i \in 1..n - k + 1 : Turn!From(ms, k)[i] = ms[k + i - 1]
    BY <1>1, FromIs
<1>3. n = d + (n - k + 1) /\ \A i \in 1..n - k + 1 : k + i - 1 = d + i
    BY <1>1
<1> QED
    BY <1>1, <1>2, <1>3 DEF Rest

\* Results between two places are results in the rest too.
LEMMA RestTools ==
    ASSUME NEW ms \in Seq(Turn!Message), NEW rest \in Seq(Turn!Message), NEW d \in Nat, Rest(ms, rest, d),
           NEW i \in 0..Len(rest), NEW j \in 0..Len(rest)
    PROVE  (\A k \in i + 1..j : rest[k].kind = "tool") <=> (\A k \in d + i + 1..d + j : ms[k].kind = "tool")
<1>1. PICK m \in Nat : m = Len(rest) /\ \A x \in 1..m : rest[x] = ms[d + x]
    BY DEF Rest
<1>2. ASSUME \A k \in i + 1..j : rest[k].kind = "tool", NEW k \in d + i + 1..d + j
      PROVE  ms[k].kind = "tool"
    <2>1. PICK x : x = k - d
        OBVIOUS
    <2>2. x \in i + 1..j /\ x \in 1..m /\ d + x = k
        BY <1>1, <2>1
    <2> QED
        BY <1>1, <1>2, <2>2
<1>3. ASSUME \A k \in d + i + 1..d + j : ms[k].kind = "tool", NEW k \in i + 1..j
      PROVE  rest[k].kind = "tool"
    <2>1. k \in 1..m /\ d + k \in d + i + 1..d + j
        BY <1>1
    <2> QED
        BY <1>1, <1>3, <2>1
<1> QED
    BY <1>2, <1>3

LEMMA RestAnswered ==
    ASSUME NEW ms \in Seq(Turn!Message), NEW rest \in Seq(Turn!Message), NEW d \in Nat, Rest(ms, rest, d),
           EachAnswered(ms), Len(rest) # 0 => rest[1].kind # "tool"
    PROVE  EachAnswered(rest)
<1>1. PICK m \in Nat : m = Len(rest) /\ Len(ms) = d + m /\ \A x \in 1..m : rest[x] = ms[d + x]
    BY DEF Rest
<1>2. ASSUME NEW i \in 1..m, rest[i].kind = "ai"
      PROVE  Turn!Results(rest, i) = rest[i].calls
    <2>1. d + i \in 1..d + m /\ ms[d + i] = rest[i]
        BY <1>1
    <2>2. Turn!Results(ms, d + i) = rest[i].calls
        BY <1>1, <1>2, <2>1 DEF EachAnswered
    <2>3. ASSUME NEW c \in Turn!Results(rest, i)
          PROVE  c \in Turn!Results(ms, d + i)
        <3>1. PICK j \in i + 1..m : c \in rest[j].calls /\ \A k \in i + 1..j : rest[k].kind = "tool"
            BY <1>1, <2>3, ResultsAre
        <3>2. /\ d + j \in d + i + 1..Len(ms) /\ ms[d + j] = rest[j]
              /\ i \in 0..Len(rest) /\ j \in 0..Len(rest)
            BY <1>1
        <3>3. \A k \in d + i + 1..d + j : ms[k].kind = "tool"
            BY <3>1, <3>2, RestTools
        <3> QED
            BY <3>1, <3>2, <3>3, ResultsAre
    <2>4. ASSUME NEW c \in Turn!Results(ms, d + i)
          PROVE  c \in Turn!Results(rest, i)
        <3>1. PICK z \in d + i + 1..Len(ms) : c \in ms[z].calls /\ \A k \in d + i + 1..z : ms[k].kind = "tool"
            BY <2>4, ResultsAre
        <3>2. PICK j \in i + 1..m : z = d + j
            <4>1. z - d \in i + 1..m /\ z = d + (z - d)
                BY <1>1
            <4> QED
                BY <4>1
        <3>3. ms[z] = rest[j] /\ i \in 0..Len(rest) /\ j \in 0..Len(rest)
            BY <1>1, <3>2
        <3>4. \A k \in i + 1..j : rest[k].kind = "tool"
            BY <3>1, <3>2, <3>3, RestTools
        <3> QED
            BY <1>1, <3>1, <3>3, <3>4, ResultsAre
    <2> QED
        BY <2>2, <2>3, <2>4
<1>3. ASSUME NEW j \in 1..m, rest[j].kind = "tool"
      PROVE  \E i \in 1..j - 1 : rest[i].kind = "ai" /\ \A k \in i + 1..j : rest[k].kind = "tool"
    <2>1. d + j \in 1..Len(ms) /\ ms[d + j].kind = "tool"
        BY <1>1, <1>3
    <2>2. PICK z \in 1..d + j - 1 : ms[z].kind = "ai" /\ \A k \in z + 1..d + j : ms[k].kind = "tool"
        BY <2>1 DEF EachAnswered
    <2>3. z > d
        <3>1. SUFFICES ASSUME z <= d
                       PROVE  FALSE
            BY <1>1
        <3>2. d + 1 \in z + 1..d + j /\ 1 \in 1..m
            BY <1>1, <3>1
        <3>3. rest[1] = ms[d + 1] /\ rest[1].kind # "tool"
            BY <1>1, <3>2
        <3> QED
            BY <2>2, <3>2, <3>3
    <2>4. PICK i \in 1..j - 1 : z = d + i
        <3>1. z - d \in 1..j - 1 /\ z = d + (z - d)
            BY <1>1, <2>3
        <3> QED
            BY <3>1
    <2>5. rest[i] = ms[z] /\ i \in 0..Len(rest) /\ j \in 0..Len(rest)
        BY <1>1, <2>4
    <2>6. \A k \in i + 1..j : rest[k].kind = "tool"
        <3>1. \A k \in d + i + 1..d + j : ms[k].kind = "tool"
            BY <2>2, <2>4
        <3> QED
            BY <2>5, <3>1, RestTools
    <2> QED
        BY <2>2, <2>5, <2>6
<1> QED
    BY <1>1, <1>2, <1>3 DEF EachAnswered

LEMMA RestTold ==
    ASSUME NEW ms \in Seq(Turn!Message), NEW rest \in Seq(Turn!Message), NEW d \in Nat, Rest(ms, rest, d),
           Told(ms), Len(rest) # 0 => rest[1].kind # "tool"
    PROVE  Told(rest)
<1>1. PICK m \in Nat : m = Len(rest) /\ Len(ms) = d + m /\ \A x \in 1..m : rest[x] = ms[d + x]
    BY DEF Rest
<1>2. ASSUME NEW j \in 1..m, rest[j].kind = "tool"
      PROVE  rest[j].calls # {} /\ AfterItsReply(rest, j)
    <2>1. d + j \in 1..Len(ms) /\ ms[d + j] = rest[j]
        BY <1>1
    <2>2. ms[d + j].calls # {} /\ AfterItsReply(ms, d + j)
        BY <1>2, <2>1 DEF Told
    <2>3. PICK z \in 1..d + j - 1 : /\ ms[z].kind = "ai" /\ ms[d + j].calls \subseteq ms[z].calls
                                    /\ \A k \in z + 1..d + j : ms[k].kind = "tool"
        BY <2>2 DEF AfterItsReply
    <2>4. z > d
        <3>1. SUFFICES ASSUME z <= d
                       PROVE  FALSE
            BY <1>1
        <3>2. d + 1 \in z + 1..d + j /\ 1 \in 1..m
            BY <1>1, <3>1
        <3>3. rest[1] = ms[d + 1] /\ rest[1].kind # "tool"
            BY <1>1, <3>2
        <3> QED
            BY <2>3, <3>2, <3>3
    <2>5. PICK i \in 1..j - 1 : z = d + i
        <3>1. z - d \in 1..j - 1 /\ z = d + (z - d)
            BY <1>1, <2>4
        <3> QED
            BY <3>1
    <2>6. rest[i] = ms[z] /\ i \in 0..Len(rest) /\ j \in 0..Len(rest)
        BY <1>1, <2>5
    <2>7. \A k \in i + 1..j : rest[k].kind = "tool"
        BY <2>3, <2>5, <2>6, RestTools
    <2> QED
        BY <2>1, <2>2, <2>3, <2>6, <2>7 DEF AfterItsReply
<1> QED
    BY <1>1, <1>2 DEF Told

\* What is left of what is left.
LEMMA RestOfRest ==
    ASSUME NEW ms \in Seq(Turn!Message), NEW mid \in Seq(Turn!Message), NEW rest \in Seq(Turn!Message),
           NEW d \in Nat, NEW e \in Nat, Rest(ms, mid, d), Rest(mid, rest, e)
    PROVE  Rest(ms, rest, d + e)
<1>0. PICK n \in Nat : n = Len(rest)
    OBVIOUS
<1>1. n = Len(rest) /\ Len(mid) = e + n /\ \A x \in 1..n : rest[x] = mid[e + x]
    BY <1>0 DEF Rest
<1>2. Len(ms) = d + Len(mid) /\ \A x \in 1..Len(mid) : mid[x] = ms[d + x]
    BY DEF Rest
<1>3. ASSUME NEW x \in 1..n
      PROVE  rest[x] = ms[d + e + x]
    <2>1. e + x \in 1..Len(mid) /\ d + (e + x) = d + e + x
        BY <1>1
    <2> QED
        BY <1>1, <1>2, <2>1
<1>4. Len(ms) = d + e + n
    BY <1>1, <1>2
<1> QED
    BY <1>1, <1>3, <1>4 DEF Rest

\* The last messages: they open on no result, and are all where all fit and open with the investor's.
LEMMA RecentIs ==
    ASSUME NEW ms \in Seq(Turn!Message), NEW limit \in Nat
    PROVE  /\ Turn!Recent(ms, limit) \in Seq(Turn!Message)
           /\ \E d \in Nat : /\ Rest(ms, Turn!Recent(ms, limit), d)
                             /\ Len(ms) <= limit /\ Len(ms) # 0 /\ ms[1].kind = "human" => d = 0
           /\ Len(Turn!Recent(ms, limit)) # 0 => Turn!Recent(ms, limit)[1].kind # "tool"
<1>1. PICK n \in Nat : n = Len(ms)
    OBVIOUS
<1>2. PICK d \in 0..n : /\ d + 1 = IF n > limit THEN n - limit + 1 ELSE 1
                        /\ n <= limit => d = 0
    <2>1. PICK d : d = IF n > limit THEN n - limit ELSE 0
        OBVIOUS
    <2>2. /\ d \in 0..n
          /\ d + 1 = IF n > limit THEN n - limit + 1 ELSE 1
          /\ n <= limit => d = 0
        BY <1>1, <2>1
    <2> QED
        BY <2>2
<1>3. PICK window \in Seq(Turn!Message) : window = Turn!Last_n(ms, limit) /\ Rest(ms, window, d)
    <2>1. Turn!Last_n(ms, limit) = Turn!From(ms, d + 1)
        BY <1>1, <1>2 DEF Turn!Last_n, Turn!From
    <2> QED
        BY <1>1, <2>1, FromRest
<1>4. PICK w \in Nat : w = Len(window) /\ DOMAIN window = 1..w /\ n = d + w
    BY <1>1, <1>3 DEF Rest
<1> DEFINE humans == {i \in 1..w : window[i].kind = "human"}
           starts == {i \in 1..w + 1 : i \in 1..w => window[i].kind # "tool"}
           among == IF humans # {} THEN humans ELSE starts
<1>5. Turn!Recent(ms, limit) = Turn!From(window, CHOOSE i \in among : \A j \in among : i <= j)
    BY <1>3, <1>4 DEF Turn!Recent
<1>6. among \subseteq starts /\ w + 1 \in starts /\ among # {} /\ among \in SUBSET Nat
    OBVIOUS
<1>7. w # 0 /\ window[1].kind = "human" => 1 \in among
    BY <1>4
<1>8. \A i \in starts : i \in 1..w + 1 /\ (i \in 1..w => window[i].kind # "tool")
    OBVIOUS
<1> HIDE DEF among, starts
<1>9. PICK f \in among : f = (CHOOSE i \in among : \A j \in among : i <= j) /\ \A j \in among : f <= j
    <2>1. \E i \in among : \A j \in among : i <= j
        BY <1>6, LeastExists
    <2> QED
        BY <2>1
<1>10. f \in 1..w + 1 /\ (f \in 1..w => window[f].kind # "tool")
    BY <1>6, <1>8
<1>11. PICK e \in 0..w : f = e + 1
    <2>1. f - 1 \in 0..w /\ f = (f - 1) + 1
        BY <1>10
    <2> QED
        BY <2>1
<1>12. PICK rest \in Seq(Turn!Message) : rest = Turn!Recent(ms, limit) /\ Rest(window, rest, e)
    BY <1>4, <1>5, <1>9, <1>11, FromRest
<1>13. Rest(ms, rest, d + e) /\ d + e \in Nat
    BY <1>3, <1>12, RestOfRest
<1>14. Len(rest) # 0 => rest[1].kind # "tool"
    <2>1. Len(rest) # 0 => 1 \in 1..Len(rest) /\ f \in 1..w
        BY <1>4, <1>11, <1>12 DEF Rest
    <2>2. Len(rest) # 0 => rest[1] = window[f]
        BY <1>11, <1>12, <2>1 DEF Rest
    <2> QED
        BY <1>10, <2>1, <2>2
<1>15. n <= limit /\ n # 0 /\ ms[1].kind = "human" => d + e = 0
    <2>1. SUFFICES ASSUME n <= limit, n # 0, ms[1].kind = "human"
                   PROVE  d + e = 0
        OBVIOUS
    <2>2. d = 0 /\ w = n /\ 1 \in 1..w
        BY <1>2, <1>4, <2>1
    <2>3. window[1] = ms[1]
        BY <1>3, <1>4, <2>2 DEF Rest
    <2>4. 1 \in among
        BY <1>7, <2>1, <2>2, <2>3
    <2>5. f <= 1
        BY <1>9, <2>4
    <2> QED
        BY <1>10, <1>11, <2>2, <2>5
<1> QED
    BY <1>1, <1>12, <1>13, <1>14, <1>15

\* Where no failure had to be added, no more is shown than there is.
LEMMA NoneAdded ==
    ASSUME NEW ms \in Seq(Turn!Message), NEW out, NEW b, NEW p, ShownAs(ms, out, b, p),
           \A q \in 1..Len(out) : out[q].n # 0
    PROVE  Len(out) <= Len(ms)
<1>1. PICK n \in Nat : n = Len(ms)
    OBVIOUS
<1>2. p \in [0..n -> Nat] /\ p[0] = 0 /\ p[n] = Len(out)
    BY <1>1 DEF ShownAs, Placing
<1> DEFINE bad == {i \in 0..n : ~(p[i] <= i)}
<1>3. ASSUME bad # {}
      PROVE  FALSE
    <2>1. PICK i \in bad : \A k \in bad : i <= k
        BY <1>1, <1>3, LeastExists, bad \in SUBSET Nat
    <2>2. i \in 0..n /\ p[i] \in Nat /\ ~(p[i] <= i)
        BY <1>2
    <2>3. i \in 1..n
        BY <1>2, <2>2
    <2>4. i - 1 \in 0..n /\ i - 1 \notin bad
        BY <2>1, <2>3
    <2>5. p[i - 1] <= i - 1 /\ p[i - 1] \in Nat
        BY <1>2, <2>4
    <2>6. p[i] > p[i - 1] + 1
        BY <2>2, <2>3, <2>5
    <2>7. p[i] <= Len(out) /\ Len(out) \in Nat /\ p[i] = p[i - 1] + Len(b[i])
        BY <1>1, <2>3, ShownAt
    <2>8. ~Turn!Empty(ms[i])
        <3>1. Shown(ms, i, b[i])
            BY <1>1, <2>3 DEF ShownAs
        <3>2. Len(b[i]) # 0
            BY <2>2, <2>5, <2>6, <2>7
        <3> QED
            BY <3>1, <3>2 DEF Shown
    <2>9. \A q \in p[i - 1] + 2..p[i] : out[q].n = 0
        BY <1>1, <2>3, <2>8, ShownHead
    <2>10. p[i - 1] + 2 \in p[i - 1] + 2..p[i] /\ p[i - 1] + 2 \in 1..Len(out)
        BY <2>2, <2>5, <2>6, <2>7
    <2> QED
        BY <2>9, <2>10
<1>4. n \in 0..n /\ n \notin bad
    BY <1>3
<1> QED
    BY <1>1, <1>2, <1>4

\* What is after the summary opens with a message of the investor's, and its results follow replies.
LEMMA AfterSummary ==
    ASSUME HistoryInv
    PROVE  \E ms \in Seq(Turn!Message) :
             /\ ms = Turn!From(messages, summarized + 1) /\ Rest(messages, ms, summarized) /\ Told(ms)
             /\ Len(ms) # 0 => ms[1].kind = "human"
<1>1. /\ messages \in Seq(Turn!Message) /\ summarized \in 0..Len(messages) /\ summarized \in Nat
      /\ LastPlace = Len(messages) /\ Told(messages)
    BY HistoryParts DEF HistoryInv
<1>2. PICK ms \in Seq(Turn!Message) :
         ms = Turn!From(messages, summarized + 1) /\ Rest(messages, ms, summarized)
    BY <1>1, FromRest
<1>3. Len(ms) # 0 => ms[1].kind = "human"
    <2>1. SUFFICES ASSUME Len(ms) # 0
                   PROVE  ms[1].kind = "human"
        OBVIOUS
    <2>2. summarized < LastPlace /\ 1 \in 1..Len(ms)
        BY <1>1, <1>2, <2>1 DEF Rest
    <2>3. ms[1] = messages[summarized + 1]
        BY <1>2, <2>2 DEF Rest
    <2> QED
        BY <2>2, <2>3 DEF HistoryInv, Reached, Kind
<1>4. Told(ms)
    BY <1>1, <1>2, <1>3, RestTold
<1> QED
    BY <1>2, <1>3, <1>4

LEMMA Limit == HISTORY_MESSAGES + BATCH \in Nat
BY WindowConstants

LEMMA HistoryIsAnswered ==
    ASSUME HistoryInv
    PROVE  EachAnswered(Turn!History) /\ Turn!History \in Seq(Turn!Message)
<1>1. PICK ms \in Seq(Turn!Message) :
         /\ ms = Turn!From(messages, summarized + 1) /\ Rest(messages, ms, summarized) /\ Told(ms)
         /\ Len(ms) # 0 => ms[1].kind = "human"
    BY AfterSummary
<1>2. PICK out : out = Turn!Answered(ms)
    OBVIOUS
<1>3. EachAnswered(out) /\ out \in Seq(Turn!Message)
    <2>1. PICK b, p : ShownAs(ms, out, b, p)
        BY <1>2, AnsweredShown
    <2> QED
        BY <1>1, <2>1, AnsweredWell DEF ShownAs
<1>4. PICK limit \in Nat : limit = HISTORY_MESSAGES + BATCH
    BY Limit
<1>5. PICK rest : rest = Turn!Recent(out, limit)
    OBVIOUS
<1>6. rest \in Seq(Turn!Message) /\ (Len(rest) # 0 => rest[1].kind # "tool")
    BY <1>3, <1>5, RecentIs
<1>7. PICK d \in Nat : Rest(out, rest, d)
    BY <1>3, <1>5, RecentIs
<1>8. EachAnswered(rest)
    BY <1>3, <1>6, <1>7, RestAnswered
<1> QED
    BY <1>1, <1>2, <1>4, <1>5, <1>6, <1>8 DEF Turn!History

LEMMA HistoryAnsweredHolds ==
    ASSUME HistoryInv
    PROVE  Turn!HistoryAnswered
<1>1. PICK h : h = Turn!History
    OBVIOUS
<1>2. EachAnswered(h) /\ h \in Seq(Turn!Message) /\ DOMAIN h = 1..Len(h)
    BY <1>1, HistoryIsAnswered
<1>3. \A i \in DOMAIN h : h[i].kind = "ai" => Turn!Results(h, i) = h[i].calls
    BY <1>2 DEF EachAnswered
<1>4. \A i \in DOMAIN h : h[i].kind = "tool" =>
         \E j \in 1..i - 1 : h[j].kind = "ai" /\ \A k \in j + 1..i : h[k].kind = "tool"
    BY <1>2 DEF EachAnswered
<1> QED
    BY <1>1, <1>3, <1>4 DEF Turn!HistoryAnswered

\* All that no summary covers is within the window and a batch.
LEMMA NothingUnseenHolds ==
    ASSUME HistoryInv
    PROVE  Turn!NothingUnseen
<1>1. SUFFICES ASSUME turnNode = "agent", clean = TRUE, messages[Len(messages)].kind = "human",
                      0 \notin Turn!Places(Turn!Answered(Turn!From(messages, summarized + 1))),
                      NEW i \in 1..LastPlace, ~Turn!Empty(messages[i]), i \notin covered
               PROVE  i \in Turn!Places(Turn!History)
    <2>1. clean \in BOOLEAN /\ DOMAIN messages = 1..LastPlace
        BY HistoryParts DEF HistoryInv, TurnInv, Turn!TypeOK
    <2> QED
        BY <2>1 DEF Turn!NothingUnseen
<1>2. PICK ms \in Seq(Turn!Message) :
         /\ ms = Turn!From(messages, summarized + 1) /\ Rest(messages, ms, summarized) /\ Told(ms)
         /\ Len(ms) # 0 => ms[1].kind = "human"
    BY AfterSummary
<1>3. PICK out : out = Turn!Answered(ms)
    OBVIOUS
<1>4. PICK b, p : ShownAs(ms, out, b, p)
    BY <1>3, AnsweredShown
<1>5. /\ LastPlace \in Nat /\ summarized \in Nat /\ LastPlace = Len(messages)
      /\ covered = 1..summarized /\ LastPlace <= summarized + HISTORY_MESSAGES + BATCH
    BY <1>1, HistoryParts DEF HistoryInv, Reached, TurnInv, Turn!SummaryIsWhole, Kind, LastPlace
<1>6. i > summarized
    BY <1>1, <1>5
<1>7. PICK j \in 1..Len(ms) : i = summarized + j /\ ms[j] = messages[i]
    <2>1. Len(messages) = summarized + Len(ms) /\ \A k \in 1..Len(ms) : ms[k] = messages[summarized + k]
        BY <1>2 DEF Rest
    <2>2. i - summarized \in 1..Len(ms) /\ i = summarized + (i - summarized)
        BY <1>5, <1>6, <2>1
    <2> QED
        BY <2>1, <2>2
<1>8. out \in Seq(Turn!Message) /\ DOMAIN out = 1..Len(out)
    BY <1>4 DEF ShownAs
<1>9. p[j - 1] + 1 \in 1..Len(out) /\ out[p[j - 1] + 1] = messages[i]
    BY <1>1, <1>4, <1>7, ShownHead
<1>10. messages[i].n = i
    BY <1>1, <1>5 DEF HistoryInv, Numbered
<1>11. Len(out) <= HISTORY_MESSAGES + BATCH
    <2>1. \A q \in 1..Len(out) : out[q].n # 0
        BY <1>1, <1>2, <1>3, <1>8 DEF Turn!Places
    <2>2. Len(out) <= Len(ms) /\ Len(messages) = summarized + Len(ms)
        BY <1>2, <1>4, <2>1, NoneAdded DEF Rest
    <2>3. Len(out) \in Nat /\ Len(ms) \in Nat
        BY <1>8
    <2> QED
        BY <1>5, <2>2, <2>3, WindowConstants
<1>12. Len(out) # 0 /\ out[1].kind = "human"
    <2>1. 1 \in 1..Len(ms) /\ ms[1].kind = "human" /\ ~Turn!Empty(ms[1])
        BY <1>2, <1>7 DEF Turn!Empty
    <2>2. p[1 - 1] = 0
        BY <1>4 DEF ShownAs, Placing
    <2>3. p[1 - 1] + 1 \in 1..Len(out) /\ out[p[1 - 1] + 1] = ms[1]
        BY <1>4, <2>1, ShownHead
    <2> QED
        BY <1>8, <2>1, <2>2, <2>3
<1>13. PICK limit \in Nat : limit = HISTORY_MESSAGES + BATCH
    BY Limit
<1>14. PICK rest : rest = Turn!Recent(out, limit)
    OBVIOUS
<1>15. PICK d \in Nat : Rest(out, rest, d) /\ d = 0
    BY <1>8, <1>11, <1>12, <1>13, <1>14, RecentIs
<1>16. Turn!History = rest /\ rest \in Seq(Turn!Message)
    BY <1>2, <1>3, <1>8, <1>13, <1>14, RecentIs DEF Turn!History
<1>17. PICK q \in 1..Len(rest) : rest[q].n = i
    <2>1. Len(out) = Len(rest) /\ \A k \in 1..Len(rest) : rest[k] = out[k]
        BY <1>8, <1>15, <1>16 DEF Rest
    <2> QED
        BY <1>9, <1>10, <2>1
<1> QED
    BY <1>16, <1>17 DEF Turn!Places

\* history.py 14-15, chat.py 102-105, compaction.py 4-6: the history a model is shown is one it accepts,
\* and all of the thread is in it or in the summary, whatever turns and compactions failed.
THEOREM HistoryWholeHolds == ChatSpec => []HistoryWhole
<1>1. HistoryInv => HistoryWhole
    BY HistoryAnsweredHolds, NothingUnseenHolds DEF HistoryInv, TurnInv, HistoryWhole
<1> QED
    BY <1>1, HistoryAlways, PTL

-----------------------------------------------------------------------------
(* ChatRelay: what a client shows of a turn *)

Stamps == Relaying!Stamp

\* An event has text if it is a token or reasoning, and a token has a fragment.
Events ==
    {e \in Relaying!Event : /\ e.type = "token" => e.text # <<>>
                            /\ e.type \notin {"token", "reasoning"} => e.text = <<>>}

Marks(e) == {e.text[n] : n \in DOMAIN e.text}

Closes(e) == e.type \in {"reset", "message_end"}

\* A client shows a token still if no event after it closed the message.
Showing(es) == {i \in DOMAIN es : es[i].type = "token" /\ \A j \in DOMAIN es : Closes(es[j]) => i > j}

Thoughts(es) == [i \in DOMAIN es |-> IF es[i].type = "reasoning" THEN es[i].text ELSE <<>>]
Shows(es) == [i \in DOMAIN es |-> IF i \in Showing(es) THEN <<es[i].text[1].at>> ELSE <<>>]

Thought(es) == Relaying!FlattenSeq(Thoughts(es))
Partial(es) == Relaying!FlattenSeq(Shows(es))

LEMMA EventTypes ==
    ASSUME NEW es \in Seq(Events)
    PROVE  /\ Len(es) \in Nat /\ DOMAIN es = 1..Len(es)
           /\ \A i \in DOMAIN es : es[i] \in Events /\ es[i].text \in Seq(Stamps)
           /\ \A i \in DOMAIN es : es[i].type = "token" => es[i].text[1].at \in Nat
<1>1. Len(es) \in Nat /\ DOMAIN es = 1..Len(es) /\ \A i \in DOMAIN es : es[i] \in Events
    OBVIOUS
<1>2. ASSUME NEW e \in Events
      PROVE  e.text \in Seq(Stamps) /\ (e.type = "token" => e.text[1].at \in Nat)
    <2>1. e.text \in Seq(Stamps)
        BY DEF Events, Relaying!Event, Stamps
    <2>2. e.type = "token" => e.text # <<>>
        BY DEF Events
    <2>3. e.text # <<>> => e.text[1] \in Stamps
        BY <2>1, EmptySeq
    <2> QED
        BY <2>1, <2>2, <2>3 DEF Stamps, Relaying!Stamp
<1> QED
    BY <1>1, <1>2

LEMMA EventTexts ==
    ASSUME NEW es \in Seq(Events)
    PROVE  Thoughts(es) \in Seq(Seq(Stamps)) /\ Shows(es) \in Seq(Seq(Nat))
<1>1. PICK n \in Nat : DOMAIN es = 1..n
    BY EventTypes
<1>2. \A i \in 1..n : es[i].text \in Seq(Stamps) /\ (i \in Showing(es) => es[i].text[1].at \in Nat)
    BY <1>1, EventTypes DEF Showing
<1>3. <<>> \in Seq(Stamps) /\ <<>> \in Seq(Nat)
    OBVIOUS
<1>4. Thoughts(es) \in [1..n -> Seq(Stamps)]
    BY <1>1, <1>2, <1>3 DEF Thoughts
<1>5. \A x \in Nat : <<x>> \in Seq(Nat)
    OBVIOUS
<1>6. Shows(es) \in [1..n -> Seq(Nat)]
    BY <1>1, <1>2, <1>3, <1>5 DEF Shows
<1> QED
    BY <1>4, <1>6

\* What one more event adds.
LEMMA OneMore ==
    ASSUME NEW es \in Seq(Events), NEW e \in Events
    PROVE  /\ Append(es, e) \in Seq(Events)
           /\ Thought(es) \in Seq(Stamps) /\ Partial(es) \in Seq(Nat)
           /\ Thought(Append(es, e)) = Thought(es) \o (IF e.type = "reasoning" THEN e.text ELSE <<>>)
           /\ Closes(e) => Partial(Append(es, e)) = <<>>
           /\ ~Closes(e) /\ e.type # "token" => Partial(Append(es, e)) = Partial(es)
           /\ e.type = "token" => Partial(Append(es, e)) = Partial(es) \o <<e.text[1].at>>
<1>1. PICK fs, n : fs = Append(es, e) /\ n = Len(es)
    OBVIOUS
<1>2. /\ fs \in Seq(Events) /\ n \in Nat /\ DOMAIN es = 1..n /\ DOMAIN fs = 1..n + 1
      /\ \A i \in 1..n : fs[i] = es[i]
      /\ fs[n + 1] = e
    BY <1>1
<1>3. Thought(es) \in Seq(Stamps) /\ Partial(es) \in Seq(Nat)
    BY EventTexts, FlattenAppend, <<>> \in Seq(Stamps), <<>> \in Seq(Nat) DEF Thought, Partial
<1> HIDE <1>1
<1>4. PICK x : x = IF e.type = "reasoning" THEN e.text ELSE <<>>
    OBVIOUS
<1>5. x \in Seq(Stamps)
    BY <1>4 DEF Events, Relaying!Event, Stamps
<1>6. Thoughts(fs) = Append(Thoughts(es), x)
    <2>1. Thoughts(es) \in Seq(Seq(Stamps)) /\ Thoughts(fs) \in Seq(Seq(Stamps))
        BY <1>2, EventTexts
    <2>2. Len(Thoughts(es)) = n /\ Len(Thoughts(fs)) = n + 1
        BY <1>2, <2>1 DEF Thoughts
    <2>3. \A i \in 1..n : Thoughts(fs)[i] = Thoughts(es)[i]
        BY <1>2 DEF Thoughts
    <2>4. Thoughts(fs)[n + 1] = x
        BY <1>2, <1>4 DEF Thoughts
    <2> QED
        BY <1>2, <1>5, <2>1, <2>2, <2>3, <2>4, OneLonger
<1>7. Thought(fs) = Thought(es) \o x
    BY <1>5, <1>6, EventTexts, FlattenAppend DEF Thought
<1>8. ASSUME Closes(e)
      PROVE  Partial(fs) = <<>>
    <2>1. Showing(fs) = {}
        BY <1>2, <1>8 DEF Showing, Closes
    <2>2. Shows(fs) \in Seq(Seq(Nat)) /\ \A i \in 1..Len(Shows(fs)) : Shows(fs)[i] = <<>>
        BY <1>2, <2>1, EventTexts DEF Shows
    <2> QED
        BY <2>2, FlattenBlank DEF Partial
<1>9. ASSUME ~Closes(e), NEW y \in Seq(Nat),
             y = IF e.type = "token" THEN <<e.text[1].at>> ELSE <<>>
      PROVE  Partial(fs) = Partial(es) \o y
    <2>1. \A i \in 1..n : i \in Showing(fs) <=> i \in Showing(es)
        BY <1>2, <1>9 DEF Showing
    <2>2. n + 1 \in Showing(fs) <=> e.type = "token"
        BY <1>2, <1>9 DEF Showing
    <2>3. Shows(es) \in Seq(Seq(Nat)) /\ Shows(fs) \in Seq(Seq(Nat))
        BY <1>2, EventTexts
    <2>4. Len(Shows(es)) = n /\ Len(Shows(fs)) = n + 1
        BY <1>2, <2>3 DEF Shows
    <2>5. \A i \in 1..n : Shows(fs)[i] = Shows(es)[i]
        BY <1>2, <2>1 DEF Shows
    <2>6. Shows(fs)[n + 1] = y
        BY <1>2, <1>9, <2>2 DEF Shows
    <2>7. Shows(fs) = Append(Shows(es), y)
        BY <1>2, <1>9, <2>3, <2>4, <2>5, <2>6, OneLonger
    <2> QED
        BY <1>9, <2>3, <2>7, FlattenAppend DEF Partial
<1>10. e.type # "token" => <<>> \in Seq(Nat) /\ Partial(es) \o <<>> = Partial(es)
    BY <1>3
<1>11. e.type = "token" => <<e.text[1].at>> \in Seq(Nat) /\ ~Closes(e)
    BY <1>2, EventTypes DEF Closes
<1>12. ~Closes(e) /\ e.type # "token" => Partial(fs) = Partial(es)
    BY <1>9, <1>10
<1>13. e.type = "token" => Partial(fs) = Partial(es) \o <<e.text[1].at>>
    BY <1>9, <1>11
<1> QED
    BY <1>1, <1>2, <1>3, <1>4, <1>7, <1>8, <1>12, <1>13

\* Events that close nothing and have no text add nothing.
Plain(es) == \A i \in DOMAIN es : es[i].type \notin {"token", "reasoning", "reset", "message_end"}

LEMMA PlainMore ==
    ASSUME NEW es \in Seq(Events), NEW more \in Seq(Events), Plain(more)
    PROVE  /\ es \o more \in Seq(Events)
           /\ Thought(es \o more) = Thought(es)
           /\ Partial(es \o more) = Partial(es)
<1>1. PICK fs, n, m : fs = es \o more /\ n = Len(es) /\ m = Len(more)
    OBVIOUS
<1>2. /\ fs \in Seq(Events) /\ n \in Nat /\ m \in Nat
      /\ DOMAIN es = 1..n /\ DOMAIN fs = 1..n + m /\ DOMAIN more = 1..m
      /\ \A i \in 1..n : fs[i] = es[i]
      /\ \A i \in 1..m : fs[n + i] = more[i]
    BY <1>1
<1> HIDE <1>1
<1> DEFINE blanks == [i \in 1..m |-> <<>>]
<1>3. ASSUME NEW S
      PROVE  blanks \in Seq(Seq(S)) /\ Len(blanks) = m /\ \A i \in 1..Len(blanks) : blanks[i] = <<>>
    <2>1. <<>> \in Seq(S)
        OBVIOUS
    <2>2. blanks \in [1..m -> Seq(S)]
        BY <2>1
    <2> QED
        BY <1>2, <2>2
<1>4. \A i \in 1..m : ~Closes(more[i]) /\ fs[n + i].type \notin {"token", "reasoning"}
    BY <1>2 DEF Plain, Closes
<1>12. n \in Nat /\ m \in Nat
    BY <1>2
<1>5. ASSUME NEW i \in 1..n + m, i \notin 1..n
      PROVE  i - n \in 1..m /\ n + (i - n) = i /\ i \in n + 1..n + m
    BY <1>5, <1>12
<1>6. \A i \in n + 1..n + m : fs[i].type \notin {"token", "reasoning"} /\ ~Closes(fs[i])
    <2> TAKE i \in n + 1..n + m
    <2>1. i \in 1..n + m /\ i \notin 1..n
        BY <1>12
    <2> QED
        BY <1>2, <1>4, <1>5, <2>1
<1> HIDE DEF blanks
<1>7. Thoughts(fs) = Thoughts(es) \o blanks
    <2>1. Thoughts(es) \in Seq(Seq(Stamps)) /\ Thoughts(fs) \in Seq(Seq(Stamps)) /\ blanks \in Seq(Seq(Stamps))
        BY <1>2, <1>3, EventTexts
    <2>2. Len(Thoughts(es)) = n /\ Len(Thoughts(fs)) = n + m
        BY <1>2, <2>1 DEF Thoughts
    <2>3. Agree(Thoughts(fs), Thoughts(es), n)
        BY <1>2 DEF Thoughts, Agree
    <2>4. Blank(Thoughts(fs), n + 1, n + m)
        BY <1>2, <1>6 DEF Thoughts, Blank
    <2> QED
        <3>1. Len(blanks) = m /\ Blank(blanks, 1, m)
            BY <1>3 DEF Blank
        <3> QED
            BY <1>2, <2>1, <2>2, <2>3, <2>4, <3>1, BlanksAfter
<1>8. \A i \in 1..n + m : i \in Showing(fs) <=> i \in Showing(es)
    <2>1. \A i \in 1..n : i \in 1..n + m
        BY <1>12
    <2>2. \A i \in 1..n + m : i \in 1..n \/ i \in n + 1..n + m
        BY <1>12
    <2>3. ASSUME NEW i \in 1..n
          PROVE  i \in Showing(fs) <=> i \in Showing(es)
        BY <1>2, <1>6, <2>1, <2>2, <2>3 DEF Showing
    <2>4. ASSUME NEW i \in n + 1..n + m
          PROVE  i \notin Showing(fs) /\ i \notin Showing(es)
        <3>1. i \notin 1..n
            BY <1>12
        <3> QED
            BY <1>2, <1>6, <3>1 DEF Showing
    <2> QED
        BY <2>2, <2>3, <2>4
<1>9. Shows(fs) = Shows(es) \o blanks
    <2>1. Shows(es) \in Seq(Seq(Nat)) /\ Shows(fs) \in Seq(Seq(Nat)) /\ blanks \in Seq(Seq(Nat))
        BY <1>2, <1>3, EventTexts
    <2>2. Len(Shows(es)) = n /\ Len(Shows(fs)) = n + m
        BY <1>2, <2>1 DEF Shows
    <2>3. Agree(Shows(fs), Shows(es), n)
        BY <1>2, <1>8 DEF Shows, Agree
    <2>4. Blank(Shows(fs), n + 1, n + m)
        BY <1>2, <1>6, <1>8 DEF Shows, Showing, Blank
    <2> QED
        <3>1. Len(blanks) = m /\ Blank(blanks, 1, m)
            BY <1>3 DEF Blank
        <3> QED
            BY <1>2, <2>1, <2>2, <2>3, <2>4, <3>1, BlanksAfter
<1>10. Thought(fs) = Thought(es)
    BY <1>2, <1>3, <1>7, EventTexts, FlattenMore DEF Thought
<1>11. Partial(fs) = Partial(es)
    BY <1>2, <1>3, <1>9, EventTexts, FlattenMore DEF Partial
<1> QED
    BY <1>1, <1>2, <1>10, <1>11

\* What one event shows came before what the next ones do.
InOrder(es) ==
    \A i, j \in DOMAIN es : i < j => \A s \in Marks(es[i]), t \in Marks(es[j]) : s.at < t.at

\* Neighbours that have text have it of one attempt.
Parted(es) ==
    \A i \in DOMAIN es : i + 1 \in DOMAIN es => \A s \in Marks(es[i]), t \in Marks(es[i + 1]) : s.of = t.of

\* There is a token that a reset would take back.
Void(es) ==
    \E j \in DOMAIN es : es[j].type = "token" /\ \A k \in DOMAIN es : k >= j => ~Closes(es[k])

ResetsVoid(es) ==
    \A i \in DOMAIN es : es[i].type = "reset" =>
        \E j \in 1..i - 1 : es[j].type = "token" /\ \A k \in j..i - 1 : ~Closes(es[k])

\* The last event shows text of that attempt, if any.
LastOf(es, id) == \A i \in DOMAIN es : i + 1 \notin DOMAIN es => \A s \in Marks(es[i]) : s.of = id
LastBare(es) == \A i \in DOMAIN es : i + 1 \notin DOMAIN es => Marks(es[i]) = {}

Before(es, x) == \A i \in DOMAIN es : \A s \in Marks(es[i]) : s.at < x

Good(es) == InOrder(es) /\ Parted(es) /\ ResetsVoid(es)

\* What e shows came after all of es.
After(es, e) == \A i \in DOMAIN es : \A s \in Marks(es[i]), t \in Marks(e) : s.at < t.at

\* Each event is one of es, or shows what e does.
With(fs, es, e) == \A i \in DOMAIN fs : Marks(fs[i]) = Marks(e) \/ (i \in DOMAIN es /\ fs[i] = es[i])

\* One more event, which came after the others, of the attempt of the last.
LEMMA GoodMore ==
    ASSUME NEW es \in Seq(Events), NEW e \in Events, Good(es), NEW id,
           After(es, e), LastOf(es, id), \A t \in Marks(e) : t.of = id,
           e.type = "reset" => Void(es)
    PROVE  /\ Good(Append(es, e))
           /\ LastOf(Append(es, e), id) \/ Marks(e) = {}
           /\ Marks(e) = {} => LastBare(Append(es, e))
           /\ Void(es) /\ ~Closes(e) => Void(Append(es, e))
           /\ e.type = "token" => Void(Append(es, e))
           /\ With(Append(es, e), es, e)
<1>1. PICK fs, n : fs = Append(es, e) /\ n = Len(es)
    OBVIOUS
<1>2. /\ n \in Nat /\ DOMAIN es = 1..n /\ DOMAIN fs = 1..n + 1
      /\ \A i \in 1..n : fs[i] = es[i]
      /\ fs[n + 1] = e
    BY <1>1
<1> HIDE <1>1
<1>3. InOrder(fs)
    BY <1>2 DEF Good, InOrder, After
<1>4. Parted(fs)
    <2> SUFFICES ASSUME NEW i \in 1..n + 1, i + 1 \in 1..n + 1,
                        NEW s \in Marks(fs[i]), NEW t \in Marks(fs[i + 1])
                 PROVE  s.of = t.of
        BY <1>2 DEF Parted
    <2>1. CASE i + 1 \in 1..n
        <3>1. i \in 1..n
            BY <1>2, <2>1
        <3>2. fs[i] = es[i] /\ fs[i + 1] = es[i + 1]
            BY <1>2, <2>1, <3>1
        <3> QED
            BY <1>2, <2>1, <3>1, <3>2 DEF Good, Parted
    <2>2. CASE i = n
        <3>1. i \in DOMAIN es /\ i + 1 \notin DOMAIN es /\ fs[i] = es[i] /\ fs[i + 1] = e
            BY <1>2, <2>2
        <3> QED
            BY <3>1 DEF LastOf
    <2> QED
        BY <1>2, <2>1, <2>2
<1>5. ResetsVoid(fs)
    <2> SUFFICES ASSUME NEW i \in 1..n + 1, fs[i].type = "reset"
                 PROVE  \E j \in 1..i - 1 : fs[j].type = "token" /\ \A k \in j..i - 1 : ~Closes(fs[k])
        BY <1>2 DEF ResetsVoid
    <2>1. CASE i \in 1..n
        <3>1. PICK j \in 1..i - 1 : es[j].type = "token" /\ \A k \in j..i - 1 : ~Closes(es[k])
            BY <1>2, <2>1 DEF Good, ResetsVoid
        <3> QED
            BY <1>2, <2>1, <3>1
    <2>2. CASE i = n + 1
        <3>1. PICK j \in DOMAIN es : es[j].type = "token" /\ \A k \in DOMAIN es : k >= j => ~Closes(es[k])
            BY <1>2, <2>2 DEF Void
        <3> QED
            BY <1>2, <2>2, <3>1
    <2> QED
        BY <1>2, <2>1, <2>2
<1>6. \A i \in DOMAIN fs : i + 1 \notin DOMAIN fs => fs[i] = e
    BY <1>2
<1>7. LastOf(fs, id) \/ Marks(e) = {}
    BY <1>6 DEF LastOf
<1>8. Marks(e) = {} => LastBare(fs)
    BY <1>6 DEF LastBare
<1>9. ASSUME Void(es), ~Closes(e)
      PROVE  Void(fs)
    <2>1. PICK j \in DOMAIN es : es[j].type = "token" /\ \A k \in DOMAIN es : k >= j => ~Closes(es[k])
        BY <1>9 DEF Void
    <2> QED
        BY <1>2, <1>9, <2>1 DEF Void
<1>10. ASSUME e.type = "token"
       PROVE  Void(fs)
    <2>1. n + 1 \in DOMAIN fs /\ \A k \in DOMAIN fs : k >= n + 1 => k = n + 1
        BY <1>2
    <2>2. ~Closes(e)
        BY <1>10 DEF Closes
    <2> QED
        BY <1>2, <1>10, <2>1, <2>2 DEF Void
<1>11. With(fs, es, e)
    <2>1. \A i \in 1..n + 1 : i = n + 1 \/ i \in 1..n
        BY <1>2
    <2> QED
        BY <1>2, <2>1 DEF With
<1> QED
    BY <1>1, <1>3, <1>4, <1>5, <1>7, <1>8, <1>9, <1>10, <1>11 DEF Good

LEMMA PlainStays ==
    ASSUME NEW es \in Seq(Events), NEW more \in Seq(Events), Good(es), Plain(more)
    PROVE  /\ Good(es \o more)
           /\ \A id : LastOf(es, id) => LastOf(es \o more, id)
           /\ more # <<>> => LastBare(es \o more)
           /\ Void(es) => Void(es \o more)
           /\ \A x : Before(es, x) => Before(es \o more, x)
<1>1. PICK fs, n, m : fs = es \o more /\ n = Len(es) /\ m = Len(more)
    OBVIOUS
<1>2. /\ fs \in Seq(Events) /\ n \in Nat /\ m \in Nat
      /\ DOMAIN es = 1..n /\ DOMAIN fs = 1..n + m /\ DOMAIN more = 1..m
      /\ \A i \in 1..n : fs[i] = es[i]
      /\ \A i \in 1..m : fs[n + i] = more[i]
      /\ more # <<>> => m > 0
    BY <1>1, EmptySeq
<1> HIDE <1>1
<1>3. ASSUME NEW i \in 1..n + m, i \notin 1..n
      PROVE  Marks(fs[i]) = {} /\ ~Closes(fs[i]) /\ fs[i].type # "reset"
    <2>1. i - n \in 1..m /\ n + (i - n) = i
        BY <1>2, <1>3
    <2>2. fs[i] = more[i - n] /\ more[i - n] \in Events
        BY <1>2, <2>1
    <2>3. fs[i].type \notin {"token", "reasoning", "reset", "message_end"}
        BY <1>2, <2>1, <2>2 DEF Plain
    <2>4. fs[i].text = <<>>
        BY <2>2, <2>3 DEF Events
    <2> QED
        BY <2>3, <2>4 DEF Marks, Closes
<1>4. InOrder(fs)
    <2> SUFFICES ASSUME NEW i \in 1..n + m, NEW j \in 1..n + m, i < j,
                        NEW s \in Marks(fs[i]), NEW t \in Marks(fs[j])
                 PROVE  s.at < t.at
        BY <1>2 DEF InOrder
    <2>1. i \in 1..n /\ j \in 1..n
        BY <1>3
    <2> QED
        BY <1>2, <2>1 DEF Good, InOrder
<1>5. Parted(fs)
    <2> SUFFICES ASSUME NEW i \in 1..n + m, i + 1 \in 1..n + m,
                        NEW s \in Marks(fs[i]), NEW t \in Marks(fs[i + 1])
                 PROVE  s.of = t.of
        BY <1>2 DEF Parted
    <2>1. i \in 1..n /\ i + 1 \in 1..n
        BY <1>3
    <2> QED
        BY <1>2, <2>1 DEF Good, Parted
<1>6. ResetsVoid(fs)
    <2> SUFFICES ASSUME NEW i \in 1..n + m, fs[i].type = "reset"
                 PROVE  \E j \in 1..i - 1 : fs[j].type = "token" /\ \A k \in j..i - 1 : ~Closes(fs[k])
        BY <1>2 DEF ResetsVoid
    <2>1. i \in 1..n
        BY <1>3
    <2>2. PICK j \in 1..i - 1 : es[j].type = "token" /\ \A k \in j..i - 1 : ~Closes(es[k])
        BY <1>2, <2>1 DEF Good, ResetsVoid
    <2>3. j \in 1..n /\ \A k \in j..i - 1 : k \in 1..n
        BY <1>2, <2>1
    <2>4. fs[j].type = "token"
        BY <1>2, <2>2, <2>3
    <2>5. \A k \in j..i - 1 : ~Closes(fs[k])
        BY <1>2, <2>2, <2>3
    <2> QED
        BY <2>4, <2>5
<1>7. ASSUME NEW id, LastOf(es, id)
      PROVE  LastOf(fs, id)
    <2> SUFFICES ASSUME NEW i \in 1..n + m, i + 1 \notin 1..n + m, NEW s \in Marks(fs[i])
                 PROVE  s.of = id
        BY <1>2 DEF LastOf
    <2>1. i \in 1..n /\ i + 1 \notin 1..n
        BY <1>2, <1>3
    <2> QED
        BY <1>2, <1>7, <2>1 DEF LastOf
<1>8. ASSUME more # <<>>
      PROVE  LastBare(fs)
    <2> SUFFICES ASSUME NEW i \in 1..n + m, i + 1 \notin 1..n + m
                 PROVE  Marks(fs[i]) = {}
        BY <1>2 DEF LastBare
    <2>1. i \notin 1..n
        BY <1>2, <1>8
    <2> QED
        BY <1>3, <2>1
<1>9. ASSUME Void(es)
      PROVE  Void(fs)
    <2>1. PICK j \in DOMAIN es : es[j].type = "token" /\ \A k \in DOMAIN es : k >= j => ~Closes(es[k])
        BY <1>9 DEF Void
    <2>2. j \in 1..n + m /\ fs[j].type = "token"
        BY <1>2, <2>1
    <2>3. ASSUME NEW k \in 1..n + m, k >= j
          PROVE  ~Closes(fs[k])
        <3>1. CASE k \in 1..n
            BY <1>2, <2>1, <2>3, <3>1
        <3> QED
            BY <1>3, <3>1
    <2> QED
        BY <1>2, <2>2, <2>3 DEF Void
<1>10. ASSUME NEW x, Before(es, x)
       PROVE  Before(fs, x)
    BY <1>2, <1>3, <1>10 DEF Before
<1> QED
    BY <1>1, <1>4, <1>5, <1>6, <1>7, <1>8, <1>9, <1>10 DEF Good

\* What was published of it before a publish failed.
LEMMA GoodPrefix ==
    ASSUME NEW es \in Seq(Events), NEW n \in 0..Len(es), Good(es)
    PROVE  /\ SubSeq(es, 1, n) \in Seq(Events) /\ Good(SubSeq(es, 1, n))
           /\ \A x : Before(es, x) => Before(SubSeq(es, 1, n), x)
<1>1. PICK fs, m : fs = SubSeq(es, 1, n) /\ m = Len(es)
    OBVIOUS
<1>2. /\ fs \in Seq(Events) /\ m \in Nat /\ n \in Nat /\ n <= m
      /\ DOMAIN es = 1..m /\ DOMAIN fs = 1..n
      /\ \A i \in 1..n : fs[i] = es[i] /\ i \in 1..m
    BY <1>1
<1> HIDE <1>1
<1>3. InOrder(fs) /\ Parted(fs)
    BY <1>2 DEF Good, InOrder, Parted
<1>4. ResetsVoid(fs)
    <2> SUFFICES ASSUME NEW i \in 1..n, fs[i].type = "reset"
                 PROVE  \E j \in 1..i - 1 : fs[j].type = "token" /\ \A k \in j..i - 1 : ~Closes(fs[k])
        BY <1>2 DEF ResetsVoid
    <2>1. PICK j \in 1..i - 1 : es[j].type = "token" /\ \A k \in j..i - 1 : ~Closes(es[k])
        BY <1>2 DEF Good, ResetsVoid
    <2> QED
        BY <1>2, <2>1
<1>5. \A x : Before(es, x) => Before(fs, x)
    BY <1>2 DEF Before
<1> QED
    BY <1>1, <1>2, <1>3, <1>4, <1>5 DEF Good

-----------------------------------------------------------------------------
(* ChatRelay: its state *)

\* The reasoning held back: this attempt's, in order, and after all that was shown.
Holding(es, h, id, x) ==
    /\ \A n \in DOMAIN h : h[n].of = id /\ h[n].at < x
    /\ \A m, n \in DOMAIN h : m < n => h[m].at < h[n].at
    /\ \A i \in DOMAIN es : \A s \in Marks(es[i]), n \in DOMAIN h : s.at < h[n].at

\* What fs shows was shown in es, or held back.
Origin(fs, es, h) ==
    \A i \in DOMAIN fs : \A s \in Marks(fs[i]) :
        (\E n \in DOMAIN h : s = h[n]) \/ (i \in DOMAIN es /\ s \in Marks(es[i]))

\* A flush shows all of it.
LEMMA FlushMore ==
    ASSUME NEW es \in Seq(Events), NEW h \in Seq(Stamps), NEW id, NEW x \in Nat,
           Good(es), Before(es, x), Holding(es, h, id, x), LastOf(es, id),
           NEW fs, fs = es \o Relaying!Flush(h)
    PROVE  /\ fs \in Seq(Events) /\ Good(fs) /\ Before(fs, x) /\ LastOf(fs, id)
           /\ Void(es) => Void(fs)
           /\ Thought(fs) = Thought(es) \o h /\ Partial(fs) = Partial(es)
           /\ h = <<>> => fs = es
           /\ Origin(fs, es, h)
<1>1. Thought(es) \in Seq(Stamps)
    BY EventTexts, FlattenAppend, <<>> \in Seq(Stamps) DEF Thought
<1>2. CASE h = <<>>
    <2>1. fs = es
        BY <1>2 DEF Relaying!Flush
    <2>2. Thought(es) \o h = Thought(es)
        BY <1>1, <1>2
    <2>3. Origin(fs, es, h)
        BY <2>1 DEF Origin
    <2> QED
        BY <2>1, <2>2, <2>3
<1>3. CASE h # <<>>
    <2>1. PICK e : e = Relaying!Text("reasoning", h)
        OBVIOUS
    <2>2. e \in Events /\ e.type = "reasoning" /\ e.text = h
        BY <2>1 DEF Relaying!Text, Relaying!Event, Events, Stamps
    <2>3. fs = Append(es, e)
        <3>1. fs = es \o <<e>>
            BY <1>3, <2>1 DEF Relaying!Flush
        <3> QED
            BY <2>2, <3>1
    <2>4. \A t \in Marks(e) : \E n \in DOMAIN h : t = h[n]
        BY <2>2 DEF Marks
    <2>5. Marks(e) # {}
        <3>1. 1 \in DOMAIN h
            BY <1>3, EmptySeq
        <3> QED
            BY <2>2, <3>1 DEF Marks
    <2>6. /\ Good(fs) /\ LastOf(fs, id)
          /\ Void(es) => Void(fs)
          /\ With(fs, es, e)
        <3>1. After(es, e)
            BY <2>4 DEF Holding, After
        <3>2. \A t \in Marks(e) : t.of = id
            BY <2>4 DEF Holding
        <3>3. e.type # "reset" /\ ~Closes(e)
            BY <2>2 DEF Closes
        <3> QED
            BY <2>2, <2>3, <2>5, <3>1, <3>2, <3>3, GoodMore
    <2>7. /\ fs \in Seq(Events) /\ Thought(fs) = Thought(es) \o h /\ Partial(fs) = Partial(es)
        <3>1. e.type = "reasoning" /\ ~Closes(e) /\ e.type # "token"
            BY <2>2 DEF Closes
        <3> QED
            BY <2>2, <2>3, <3>1, OneMore
    <2>8. Origin(fs, es, h)
        BY <2>4, <2>6 DEF Origin, With
    <2>9. Before(fs, x)
        BY <2>8 DEF Before, Holding, Origin
    <2> QED
        BY <1>3, <2>6, <2>7, <2>8, <2>9
<1> QED
    BY <1>2, <1>3

Parts(h, first, more) == first \in Seq(Stamps) /\ more \in Seq(Stamps) /\ h = first \o more

\* No thinking is lost between these events with what is held back after them, and those, and they show
\* the same text.
SameShown(fs, more, es, h) == Thought(fs) \o more = Thought(es) \o h /\ Partial(fs) = Partial(es)

\* The filter lets go of the first of it.
LEMMA LetGo ==
    ASSUME NEW es \in Seq(Events), NEW h \in Seq(Stamps), NEW id, NEW x \in Nat,
           NEW first \in Seq(Stamps), NEW more \in Seq(Stamps), Parts(h, first, more),
           Good(es), Before(es, x), Holding(es, h, id, x), LastOf(es, id),
           NEW fs, fs = es \o Relaying!Flush(first)
    PROVE  /\ fs \in Seq(Events) /\ Good(fs) /\ Before(fs, x) /\ LastOf(fs, id)
           /\ Holding(fs, more, id, x) /\ Holding(es, more, id, x)
           /\ Void(es) => Void(fs)
           /\ SameShown(fs, more, es, h)
<1> USE DEF Parts
<1>1. PICK n \in Nat, m \in Nat : n = Len(first) /\ m = Len(more)
    OBVIOUS
<1>2. /\ DOMAIN h = 1..n + m /\ DOMAIN first = 1..n /\ DOMAIN more = 1..m
      /\ \A i \in 1..n + m : h[i] = IF i <= n THEN first[i] ELSE more[i - n]
    BY <1>1, ConcatProperties
<1>3. \A i \in 1..n : i \in DOMAIN h /\ first[i] = h[i]
    <2>1. \A i \in 1..n : i \in 1..n + m /\ i <= n
        OBVIOUS
    <2> QED
        BY <1>2, <2>1
<1>4. \A i \in 1..m : n + i \in DOMAIN h /\ more[i] = h[n + i]
    <2>1. \A i \in 1..m : n + i \in 1..n + m /\ ~(n + i <= n) /\ (n + i) - n = i
        OBVIOUS
    <2> QED
        BY <1>2, <2>1
<1>5. Holding(es, first, id, x)
    BY <1>2, <1>3 DEF Holding
<1>6. Holding(es, more, id, x)
    <2>1. ASSUME NEW i \in 1..m
          PROVE  more[i].of = id /\ more[i].at < x
        <3>1. n + i \in DOMAIN h /\ more[i] = h[n + i]
            BY <1>4
        <3> QED
            BY <3>1 DEF Holding
    <2>2. \A i, j \in DOMAIN more : i < j => more[i].at < more[j].at
        <3>1. \A i, j \in 1..m : i < j => n + i < n + j
            OBVIOUS
        <3> QED
            BY <1>2, <1>4, <3>1 DEF Holding
    <2>3. \A i \in DOMAIN es : \A s \in Marks(es[i]), j \in DOMAIN more : s.at < more[j].at
        BY <1>2, <1>4 DEF Holding
    <2> QED
        BY <1>2, <2>1, <2>2, <2>3 DEF Holding
<1>7. /\ fs \in Seq(Events) /\ Good(fs) /\ Before(fs, x) /\ LastOf(fs, id)
      /\ Void(es) => Void(fs)
      /\ Thought(fs) = Thought(es) \o first /\ Partial(fs) = Partial(es)
      /\ Origin(fs, es, first)
    BY <1>5, FlushMore
<1>8. Holding(fs, more, id, x)
    <2>1. ASSUME NEW k \in 1..n, NEW i \in 1..m
          PROVE  h[k].at < h[n + i].at
        <3>1. k \in DOMAIN h /\ n + i \in DOMAIN h
            BY <1>3, <1>4
        <3>2. k < n + i
            OBVIOUS
        <3> QED
            BY <3>1, <3>2 DEF Holding
    <2>2. ASSUME NEW i \in DOMAIN fs, NEW s \in Marks(fs[i]), NEW j \in DOMAIN more
          PROVE  s.at < more[j].at
        <3>1. CASE \E k \in DOMAIN first : s = first[k]
            <4>1. PICK k \in 1..n : s = first[k]
                BY <1>2, <3>1
            <4>2. j \in 1..m
                BY <1>2
            <4>3. first[k] = h[k] /\ more[j] = h[n + j]
                BY <1>3, <1>4, <4>2
            <4>4. h[k].at < h[n + j].at
                BY <2>1, <4>2
            <4> QED
                BY <4>1, <4>3, <4>4
        <3>2. CASE i \in DOMAIN es /\ s \in Marks(es[i])
            BY <1>6, <3>2 DEF Holding
        <3> QED
            BY <1>7, <3>1, <3>2 DEF Origin
    <2> QED
        BY <1>6, <2>2 DEF Holding
<1>9. Thought(fs) \o more = Thought(es) \o h
    <2>1. PICK t : t = Thought(es)
        OBVIOUS
    <2>2. t \in Seq(Stamps)
        BY <2>1, EventTexts, FlattenAppend, <<>> \in Seq(Stamps) DEF Thought
    <2>3. (t \o first) \o more = t \o (first \o more)
        BY <2>2, ConcatAssociative
    <2> QED
        BY <1>7, <2>1, <2>3
<1> QED
    BY <1>6, <1>7, <1>8, <1>9 DEF SameShown

RelayType == [streamed : BOOLEAN, thought : BOOLEAN, reply : Seq(Nat), notices : 0..MaxNotices,
              reasoning : BOOLEAN]

\* What the relay goes by: an attempt that streamed has shown text that a reset would take back, and one
\* that showed neither text nor reasoning left nothing for a retry to part.  While every publish succeeds,
\* a client shows what the attempt in progress said.
RelayStands ==
    /\ node # "failed" => /\ Holding(events, held, call.id, clock)
                          /\ LastOf(events, call.id)
                          /\ relay.streamed = TRUE => Void(events)
    /\ node = "agent" /\ relay.streamed = FALSE /\ relay.thought = FALSE => held = <<>> /\ LastBare(events)
    /\ node # "agent" => held = <<>>
    /\ node \in {"context", "tools", "notice", "done"} => relay.streamed = FALSE

RelayShows ==
    /\ Thought(events) \o held = heard
    /\ node = "agent" => Partial(events) = call.said /\ (call.said # <<>> => relay.streamed = TRUE)
    /\ node \in {"notice", "done"} => Partial(events) = relay.reply
    /\ node \in {"context", "tools"} => Partial(events) = <<>>

RelayInv ==
    /\ Relaying!TypeOK
    /\ events \in Seq(Events) /\ Good(events) /\ Before(events, clock)
    /\ RelayStands
    /\ unsent = FALSE => RelayShows
    /\ unsent = TRUE => node = "failed"

\* A publish failed.
Failed(r) ==
    /\ node' = "failed" /\ unsent' = TRUE /\ held' = <<>> /\ relay' = r
    /\ events' \in Seq(Events) /\ Good(events') /\ Before(events', clock')

LEMMA RelayTypes ==
    ASSUME RelayInv
    PROVE  /\ node \in Relaying!Nodes /\ call \in Relaying!Call /\ relay \in RelayType /\ held \in Seq(Stamps)
           /\ clock \in Nat /\ heard \in Seq(Stamps) /\ unsent \in BOOLEAN
           /\ MaxFragments + MaxNested \in Nat /\ MaxNotices \in Nat /\ MaxCalls \in Nat /\ RETRY_ATTEMPTS \in Nat \ {0}
           /\ MaxFragments \in Nat /\ MaxNested \in Nat /\ call.id \in Nat /\ MaxTools \in Nat
BY PartsAssumption DEF RelayInv, Relaying!TypeOK, Relaying!RelayAssumption, RelayType, Stamps, Relaying!Call

LEMMA EventsTyped ==
    ASSUME NEW es \in Seq(Events)
    PROVE  es \in Seq(Relaying!Event)
<1>1. \A i \in 1..Len(es) : es[i] \in Relaying!Event
    BY EventTypes DEF Events
<1> QED
    BY <1>1

LEMMA RelayFailed ==
    ASSUME RelayInv, NEW r \in RelayType, Failed(r), call' \in Relaying!Call,
           clock' \in 0..MaxFragments + MaxNested, heard' \in Seq(Stamps)
    PROVE  RelayInv'
<1>1. Relaying!TypeOK'
    BY EventsTyped, <<>> \in Seq(Stamps) DEF Failed, Relaying!TypeOK, Relaying!Nodes, RelayType, Stamps
<1>2. RelayStands'
    BY DEF Failed, RelayStands
<1> QED
    BY <1>1, <1>2 DEF Failed, RelayInv

\* A part whose events follow a flush is relayed whole, or up to some event.
LEMMA AfterFlushed ==
    ASSUME RelayInv, node # "failed", NEW evs \in Seq(Events), NEW r, NEW next,
           NEW fs, fs = events \o Relaying!Flush(held), Good(fs \o evs), Before(fs \o evs, clock'),
           Relaying!Relay(Relaying!AfterFlush(evs, r), next)
    PROVE  \/ /\ events' = fs \o evs /\ held' = <<>> /\ relay' = r /\ unsent' = unsent /\ node' = next
           \/ Failed(r)
<1>1. PICK out : out = Relaying!Flush(held) \o evs
    OBVIOUS
<1>2. Relaying!Flush(held) \in Seq(Events)
    <2>1. held # <<>> => Relaying!Text("reasoning", held) \in Events
        BY RelayTypes DEF Relaying!Text, Relaying!Event, Events, Stamps
    <2>2. \A e \in Events : <<e>> \in Seq(Events)
        OBVIOUS
    <2>3. <<>> \in Seq(Events)
        OBVIOUS
    <2> QED
        BY <2>1, <2>2, <2>3 DEF Relaying!Flush
<1>3. events \in Seq(Events) /\ out \in Seq(Events) /\ fs \o evs = events \o out
    BY <1>1, <1>2, ConcatAssociative DEF RelayInv
<1>4. Relaying!AfterFlush(evs, r) = [out |-> out, relay |-> r, held |-> <<>>]
    BY <1>1 DEF Relaying!AfterFlush
<1>5. CASE Relaying!Feed([out |-> out, relay |-> r, held |-> <<>>]) /\ node' = next
    BY <1>3, <1>5 DEF Relaying!Feed
<1>6. CASE Relaying!FeedFails([out |-> out, relay |-> r, held |-> <<>>])
    <2>1. Relaying!Flush(<<>>) = <<>>
        BY DEF Relaying!Flush
    <2>2. PICK k \in DOMAIN out, flushed \in BOOLEAN :
             events' = events \o SubSeq(out, 1, k - 1) \o (IF flushed THEN Relaying!Flush(<<>>) ELSE <<>>)
        BY <1>6 DEF Relaying!FeedFails
    <2>3. PICK gs : gs = events \o out
        OBVIOUS
    <2>4. PICK n : n = Len(events) + (k - 1)
        OBVIOUS
    <2>5. PICK sub : sub = SubSeq(out, 1, k - 1)
        OBVIOUS
    <2>6. sub \in Seq(Events) /\ k \in 1..Len(out) /\ Len(events) \in Nat /\ Len(out) \in Nat /\ Len(sub) = k - 1
        BY <1>3, <2>5
    <2>7. gs \in Seq(Events) /\ n \in 0..Len(gs)
        BY <1>3, <2>3, <2>4, <2>6
    <2>8. events' = events \o sub
        <3>1. (events \o sub) \o <<>> = events \o sub
            BY <1>3, <2>6
        <3> QED
            BY <2>1, <2>2, <2>5, <3>1
    <2>9. SubSeq(gs, 1, n) = events \o sub
        <3>1. SubSeq(gs, 1, n) \in Seq(Events) /\ Len(SubSeq(gs, 1, n)) = n
              /\ \A i \in 1..n : SubSeq(gs, 1, n)[i] = gs[i]
            BY <2>7
        <3>2. /\ events \o sub \in Seq(Events) /\ Len(events \o sub) = n
              /\ \A i \in 1..n : (events \o sub)[i] = IF i <= Len(events) THEN events[i] ELSE sub[i - Len(events)]
            BY <1>3, <2>4, <2>6, ConcatProperties
        <3>3. \A i \in 1..n : gs[i] = IF i <= Len(events) THEN events[i] ELSE out[i - Len(events)]
            <4>1. \A i \in 1..n : i \in 1..Len(events) + Len(out)
                BY <2>4, <2>6
            <4> QED
                BY <1>3, <2>3, <4>1, ConcatProperties
        <3>4. \A i \in 1..k - 1 : sub[i] = out[i]
            BY <1>3, <2>5, <2>6
        <3>5. \A i \in 1..n : i <= Len(events) \/ i - Len(events) \in 1..k - 1
            BY <2>4, <2>6
        <3>6. \A i \in 1..n : SubSeq(gs, 1, n)[i] = (events \o sub)[i]
            BY <3>1, <3>2, <3>3, <3>4, <3>5
        <3> QED
            BY <3>1, <3>2, <3>6, SeqEqual
    <2>10. events' \in Seq(Events) /\ Good(events') /\ Before(events', clock')
        BY <1>3, <2>3, <2>7, <2>8, <2>9, GoodPrefix
    <2> QED
        BY <1>6, <2>10 DEF Relaying!FeedFails, Failed
<1> QED
    BY <1>4, <1>5, <1>6 DEF Relaying!Relay

LEMMA EmptyEvents ==
    /\ <<>> \in Seq(Events) /\ Good(<<>>) /\ \A x : Before(<<>>, x) /\ LastOf(<<>>, x)
    /\ LastBare(<<>>) /\ Thought(<<>>) = <<>> /\ Partial(<<>>) = <<>>
<1>1. <<>> \in Seq(Events) /\ DOMAIN <<>> = {}
    OBVIOUS
<1>2. Thoughts(<<>>) = <<>> /\ Shows(<<>>) = <<>>
    BY <1>1 DEF Thoughts, Shows
<1>3. Thought(<<>>) = <<>> /\ Partial(<<>>) = <<>>
    BY <1>2, FlattenNone DEF Thought, Partial
<1>4. Good(<<>>)
    BY <1>1 DEF Good, InOrder, Parted, ResetsVoid
<1> QED
    BY <1>1, <1>3, <1>4 DEF Before, LastOf, LastBare

LEMMA RelayInit ==
    ASSUME ChatInit
    PROVE  RelayInv
<1>1. Relaying!Init
    BY DEF ChatInit
<1>2. Relaying!TypeOK
    <2>1. <<>> \in Seq(Nat) /\ <<>> \in Seq(Stamps) /\ <<>> \in Seq(Relaying!Event)
        OBVIOUS
    <2>2. call \in Relaying!Call
        BY <1>1, <2>1, PartsAssumption DEF Relaying!Init, Relaying!RelayAssumption, Relaying!Call
    <2>3. relay \in RelayType
        BY <1>1, <2>1, PartsAssumption DEF Relaying!Init, Relaying!RelayAssumption, RelayType
    <2>4. clock \in 0..MaxFragments + MaxNested
        BY <1>1, PartsAssumption DEF Relaying!Init, Relaying!RelayAssumption
    <2> QED
        BY <1>1, <2>1, <2>2, <2>3, <2>4 DEF Relaying!Init, Relaying!TypeOK, Relaying!Nodes, Stamps, RelayType
<1>3. RelayStands
    <2>1. Holding(<<>>, <<>>, call.id, clock)
        BY DEF Holding
    <2> QED
        BY <1>1, <2>1, EmptyEvents DEF Relaying!Init, RelayStands
<1>4. RelayShows
    BY <1>1, EmptyEvents, <<>> \o <<>> = <<>> DEF Relaying!Init, RelayShows
<1> QED
    BY <1>1, <1>2, <1>3, <1>4, EmptyEvents DEF Relaying!Init, RelayInv

\* Everything held back is shown.
LEMMA HeldShown ==
    ASSUME RelayInv, node # "failed", NEW fs, fs = events \o Relaying!Flush(held)
    PROVE  /\ fs \in Seq(Events) /\ Good(fs) /\ Before(fs, clock) /\ LastOf(fs, call.id)
           /\ relay.streamed = TRUE => Void(fs)
           /\ Thought(fs) = Thought(events) \o held /\ Partial(fs) = Partial(events)
           /\ unsent = FALSE => Thought(fs) = heard
           /\ held = <<>> => fs = events
<1>1. /\ events \in Seq(Events) /\ held \in Seq(Stamps) /\ clock \in Nat
      /\ Good(events) /\ Before(events, clock)
      /\ Holding(events, held, call.id, clock) /\ LastOf(events, call.id)
      /\ relay.streamed = TRUE => Void(events)
      /\ unsent = FALSE => Thought(events) \o held = heard
    BY RelayTypes DEF RelayInv, RelayStands, RelayShows
<1>2. /\ fs \in Seq(Events) /\ Good(fs) /\ Before(fs, clock) /\ LastOf(fs, call.id)
      /\ Void(events) => Void(fs)
      /\ Thought(fs) = Thought(events) \o held /\ Partial(fs) = Partial(events)
      /\ held = <<>> => fs = events
    BY <1>1, FlushMore
<1> QED
    BY <1>1, <1>2

LEMMA LaterBefore ==
    ASSUME NEW es \in Seq(Events), NEW x \in Nat, NEW y \in Nat, x <= y, Before(es, x)
    PROVE  Before(es, y)
<1>1. ASSUME NEW i \in DOMAIN es, NEW s \in Marks(es[i])
      PROVE  s.at < y
    <2>1. s \in Stamps
        <3>1. es[i].text \in Seq(Stamps)
            BY EventTypes
        <3> QED
            BY <3>1 DEF Marks
    <2>2. s.at \in Nat /\ s.at < x
        BY <1>1, <2>1 DEF Stamps, Relaying!Stamp, Before
    <2> QED
        BY <2>2
<1> QED
    BY <1>1 DEF Before

\* A part of plain events only.
LEMMA PlainPart ==
    ASSUME RelayInv, node # "failed", NEW evs \in Seq(Events), Plain(evs), NEW r, NEW next,
           clock' \in Nat, clock <= clock', Relaying!Relay(Relaying!AfterFlush(evs, r), next)
    PROVE  \/ /\ events' \in Seq(Events) /\ Good(events') /\ Before(events', clock')
              /\ LastOf(events', call.id)
              /\ relay.streamed = TRUE => Void(events')
              /\ evs # <<>> => LastBare(events')
              /\ evs = <<>> /\ held = <<>> => events' = events
              /\ Thought(events') = Thought(events) \o held /\ Partial(events') = Partial(events)
              /\ unsent = FALSE => Thought(events') = heard
              /\ held' = <<>> /\ relay' = r /\ unsent' = unsent /\ node' = next
           \/ Failed(r)
<1>1. PICK fs : fs = events \o Relaying!Flush(held)
    OBVIOUS
<1>2. /\ fs \in Seq(Events) /\ Good(fs) /\ Before(fs, clock) /\ LastOf(fs, call.id)
      /\ relay.streamed = TRUE => Void(fs)
      /\ Thought(fs) = Thought(events) \o held /\ Partial(fs) = Partial(events)
      /\ unsent = FALSE => Thought(fs) = heard
      /\ held = <<>> => fs = events
    BY <1>1, HeldShown
<1>3. PICK gs : gs = fs \o evs
    OBVIOUS
<1>4. /\ gs \in Seq(Events) /\ Thought(gs) = Thought(fs) /\ Partial(gs) = Partial(fs)
    BY <1>2, <1>3, PlainMore
<1>5. /\ Good(gs)
      /\ \A id : LastOf(fs, id) => LastOf(gs, id)
      /\ evs # <<>> => LastBare(gs)
      /\ Void(fs) => Void(gs)
      /\ \A x : Before(fs, x) => Before(gs, x)
    BY <1>2, <1>3, PlainStays
<1>6. Before(gs, clock')
    <2>1. Before(gs, clock) /\ clock \in Nat
        BY <1>2, <1>5, RelayTypes
    <2> QED
        BY <1>4, <2>1, LaterBefore
<1>7. evs = <<>> => gs = fs
    BY <1>2, <1>3
<1>8. \/ events' = gs /\ held' = <<>> /\ relay' = r /\ unsent' = unsent /\ node' = next
      \/ Failed(r)
    BY <1>1, <1>3, <1>5, <1>6, AfterFlushed
<1>9. CASE events' = gs /\ held' = <<>> /\ relay' = r /\ unsent' = unsent /\ node' = next
    BY <1>2, <1>4, <1>5, <1>6, <1>7, <1>9
<1> QED
    BY <1>8, <1>9

\* A part with one event that is not plain.
LEMMA OnePart ==
    ASSUME RelayInv, node # "failed", NEW e \in Events, NEW r, NEW next,
           NEW fs, fs = events \o Relaying!Flush(held),
           After(fs, e),
           \A t \in Marks(e) : t.of = call.id /\ t.at < clock',
           e.type = "reset" => Void(fs),
           clock' \in Nat, clock <= clock', Relaying!Relay(Relaying!AfterFlush(<<e>>, r), next)
    PROVE  \/ /\ events' \in Seq(Events) /\ Good(events') /\ Before(events', clock')
              /\ Marks(e) # {} => LastOf(events', call.id)
              /\ Marks(e) = {} => LastBare(events')
              /\ e.type = "token" => Void(events')
              /\ Thought(events') = Thought(fs) \o (IF e.type = "reasoning" THEN e.text ELSE <<>>)
              /\ Closes(e) => Partial(events') = <<>>
              /\ ~Closes(e) /\ e.type # "token" => Partial(events') = Partial(fs)
              /\ e.type = "token" => Partial(events') = Partial(fs) \o <<e.text[1].at>>
              /\ held' = <<>> /\ relay' = r /\ unsent' = unsent /\ node' = next
           \/ Failed(r)
<1>1. fs \in Seq(Events) /\ Good(fs) /\ Before(fs, clock) /\ LastOf(fs, call.id) /\ clock \in Nat
    BY HeldShown, RelayTypes
<1>2. PICK gs : gs = Append(fs, e)
    OBVIOUS
<1>3. PICK id : id = call.id
    OBVIOUS
<1>4. LastOf(fs, id) /\ \A t \in Marks(e) : t.of = id
    BY <1>1, <1>3
<1>5. /\ Good(gs)
      /\ LastOf(gs, id) \/ Marks(e) = {}
      /\ Marks(e) = {} => LastBare(gs)
      /\ e.type = "token" => Void(gs)
      /\ With(gs, fs, e)
    BY <1>1, <1>2, <1>4, GoodMore
<1>6. /\ gs \in Seq(Events)
      /\ Thought(gs) = Thought(fs) \o (IF e.type = "reasoning" THEN e.text ELSE <<>>)
      /\ Closes(e) => Partial(gs) = <<>>
      /\ ~Closes(e) /\ e.type # "token" => Partial(gs) = Partial(fs)
      /\ e.type = "token" => Partial(gs) = Partial(fs) \o <<e.text[1].at>>
    BY <1>1, <1>2, OneMore
<1>7. Before(gs, clock')
    <2>1. Before(fs, clock')
        BY <1>1, LaterBefore
    <2> QED
        BY <1>5, <2>1 DEF Before, With
<1>8. gs = fs \o <<e>> /\ <<e>> \in Seq(Events)
    BY <1>1, <1>2
<1>9. \/ events' = gs /\ held' = <<>> /\ relay' = r /\ unsent' = unsent /\ node' = next
      \/ Failed(r)
    BY <1>5, <1>7, <1>8, AfterFlushed
<1>10. CASE events' = gs /\ held' = <<>> /\ relay' = r /\ unsent' = unsent /\ node' = next
    BY <1>3, <1>5, <1>6, <1>7, <1>10
<1> QED
    BY <1>9, <1>10

LEMMA RelayTyped ==
    ASSUME node' \in Relaying!Nodes, call' \in Relaying!Call, relay' \in RelayType, held' \in Seq(Stamps),
           events' \in Seq(Events), clock' \in 0..MaxFragments + MaxNested, heard' \in Seq(Stamps),
           unsent' \in BOOLEAN
    PROVE  Relaying!TypeOK'
BY EventsTyped DEF Relaying!TypeOK, RelayType, Stamps

LEMMA NoneHeld ==
    /\ \A es, id, x : Holding(es, <<>>, id, x)
    /\ \A es, id : LastBare(es) => LastOf(es, id)
    /\ <<>> \in Seq(Stamps)
    /\ \A s \in Seq(Stamps) : s \o <<>> = s
<1>1. DOMAIN <<>> = {} /\ <<>> \in Seq(Stamps)
    OBVIOUS
<1>2. \A es, id, x : Holding(es, <<>>, id, x)
    BY <1>1 DEF Holding
<1>3. \A es, id : LastBare(es) => LastOf(es, id)
    BY DEF LastBare, LastOf
<1> QED
    BY <1>1, <1>2, <1>3

LEMMA PlainOne ==
    ASSUME NEW type \in {"progress", "retrying", "message_end", "reset", "notice", "tool"}
    PROVE  /\ Relaying!Ev(type) \in Events /\ Marks(Relaying!Ev(type)) = {} /\ Relaying!Ev(type).type = type
           /\ <<Relaying!Ev(type)>> \in Seq(Events) /\ <<Relaying!Ev(type)>> # <<>>
           /\ type \notin {"message_end", "reset"} => Plain(<<Relaying!Ev(type)>>)
<1>1. PICK e : e = Relaying!Ev(type)
    OBVIOUS
<1>2. e.type = type /\ e.text = <<>> /\ e \in Relaying!Event
    BY <1>1, <<>> \in Seq(Relaying!Stamp) DEF Relaying!Ev, Relaying!Event
<1>3. e \in Events /\ Marks(e) = {}
    BY <1>2 DEF Events, Marks
<1>4. <<e>> \in Seq(Events) /\ <<e>> # <<>>
    BY <1>3
<1>5. type \notin {"message_end", "reset"} => Plain(<<e>>)
    BY <1>2 DEF Plain
<1> QED
    BY <1>1, <1>2, <1>3, <1>4, <1>5

LEMMA NoneMore == <<>> \in Seq(Events) /\ Plain(<<>>)
<1>1. <<>> \in Seq(Events) /\ DOMAIN <<>> = {}
    OBVIOUS
<1> QED
    BY <1>1 DEF Plain

LEMMA ToolEvents ==
    ASSUME NEW n \in Nat
    PROVE  [i \in 1..n |-> Relaying!Ev("tool")] \in Seq(Events) /\ Plain([i \in 1..n |-> Relaying!Ev("tool")])
<1>1. Relaying!Ev("tool") \in Events /\ Relaying!Ev("tool").type = "tool"
    BY PlainOne
<1>2. [i \in 1..n |-> Relaying!Ev("tool")] \in [1..n -> Events]
    BY <1>1
<1> QED
    BY <1>1, <1>2 DEF Plain

LEMMA RelayAsked ==
    ASSUME RelayInv, Relaying!Ask
    PROVE  RelayInv'
<1>1. /\ node = "context" /\ relay.streamed = FALSE /\ relay \in RelayType /\ held = <<>> /\ unsent = FALSE
      /\ unsent \in BOOLEAN /\ clock' = clock /\ heard' = heard
    BY RelayTypes DEF RelayInv, RelayStands, Relaying!Ask
<1>2. call' \in Relaying!Call /\ call'.said = <<>>
    <2>1. call' = [Relaying!Attempt EXCEPT !.number = @ + 1, !.attempt = 1] /\ call.number < MaxCalls
        BY DEF Relaying!Ask
    <2>2. <<>> \in Seq(Nat) /\ 1 \in 0..RETRY_ATTEMPTS /\ call.number + 1 \in 0..MaxCalls /\ call.id + 1 \in Nat
        BY <2>1, RelayTypes DEF Relaying!Call
    <2> QED
        BY <2>1, <2>2, RelayTypes DEF Relaying!Attempt, Relaying!Call
<1>3. clock \in 0..MaxFragments + MaxNested /\ heard \in Seq(Stamps) /\ clock \in Nat
    BY RelayTypes DEF RelayInv, Relaying!TypeOK
<1>4. Relaying!Relay(Relaying!AfterFlush(<<Relaying!Ev("progress")>>, relay), "agent")
    BY DEF Relaying!Ask, Relaying!Custom
<1>5. <<Relaying!Ev("progress")>> \in Seq(Events) /\ <<Relaying!Ev("progress")>> # <<>>
      /\ Plain(<<Relaying!Ev("progress")>>)
    BY PlainOne
<1>6. \/ /\ events' \in Seq(Events) /\ Good(events') /\ Before(events', clock')
         /\ LastBare(events') /\ Partial(events') = Partial(events) /\ Thought(events') = heard
         /\ held' = <<>> /\ relay' = relay /\ unsent' = unsent /\ node' = "agent"
      \/ Failed(relay)
    <2>1. node # "failed" /\ clock' \in Nat /\ clock <= clock'
        BY <1>1, <1>3
    <2> QED
        BY <1>1, <1>4, <1>5, <2>1, PlainPart
<1>7. CASE /\ events' \in Seq(Events) /\ Good(events') /\ Before(events', clock')
           /\ LastBare(events') /\ Partial(events') = Partial(events) /\ Thought(events') = heard
           /\ held' = <<>> /\ relay' = relay /\ unsent' = unsent /\ node' = "agent"
    <2>1. Relaying!TypeOK'
        BY <1>1, <1>2, <1>3, <1>7, NoneHeld, RelayTyped DEF Relaying!Nodes
    <2>2. RelayStands'
        BY <1>1, <1>7, NoneHeld DEF RelayStands
    <2>3. RelayShows'
        BY <1>1, <1>2, <1>3, <1>7, NoneHeld DEF RelayInv, RelayShows
    <2> QED
        BY <1>1, <1>7, <2>1, <2>2, <2>3 DEF RelayInv
<1> QED
    BY <1>1, <1>2, <1>3, <1>6, <1>7, RelayFailed

LEMMA RelaySaid ==
    ASSUME RelayInv, Relaying!Say
    PROVE  RelayInv'
<1>1. /\ node = "agent" /\ relay \in RelayType /\ unsent = FALSE /\ clock' = clock + 1 /\ heard' = heard
      /\ clock < MaxFragments
    BY RelayTypes DEF RelayInv, Relaying!Say, Relaying!Stream
<1>2. /\ clock \in Nat /\ clock' \in Nat /\ clock <= clock' /\ clock' \in 0..MaxFragments + MaxNested
      /\ heard \in Seq(Stamps) /\ call.id \in Nat
    BY <1>1, RelayTypes
<1>3. call' \in Relaying!Call /\ call'.said = call.said \o <<clock>> /\ call'.id = call.id
    <2>1. call' = [call EXCEPT !.said = @ \o <<clock>>, !.mused = @ \/ FALSE]
        BY DEF Relaying!Say, Relaying!Stream
    <2>2. call.said \o <<clock>> \in Seq(Nat)
        BY <1>2, RelayTypes DEF Relaying!Call
    <2>3. (call.mused \/ FALSE) \in BOOLEAN
        OBVIOUS
    <2> QED
        BY <2>1, <2>2, <2>3, RelayTypes DEF Relaying!Call
<1> DEFINE r == [relay EXCEPT !.streamed = TRUE]
<1>4. r \in RelayType /\ r.streamed = TRUE
    BY <1>1 DEF RelayType
<1>5. PICK stamp : stamp = [of |-> call.id, at |-> clock]
    OBVIOUS
<1>6. PICK e : e = Relaying!Text("token", <<stamp>>)
    OBVIOUS
<1>7. /\ stamp \in Stamps /\ stamp.at = clock /\ stamp.of = call.id /\ e \in Relaying!Event
      /\ e.type = "token" /\ e.text = <<stamp>>
    BY <1>2, <1>5, <1>6 DEF Relaying!Text, Relaying!Event, Relaying!Stamp, Stamps
<1>8. e \in Events /\ Marks(e) = {stamp} /\ e.text[1].at = clock /\ ~Closes(e)
    BY <1>7 DEF Events, Marks, Closes
<1>9. Relaying!Relay(Relaying!AfterFlush(<<e>>, r), "agent")
    BY <1>5, <1>6 DEF Relaying!Say, Relaying!Token
<1>10. PICK fs : fs = events \o Relaying!Flush(held)
    OBVIOUS
<1>11. fs \in Seq(Events) /\ Before(fs, clock) /\ Thought(fs) = heard /\ Partial(fs) = Partial(events)
    BY <1>1, <1>10, HeldShown
<1>12. After(fs, e)
    BY <1>7, <1>8, <1>11 DEF Before, After
<1>13. \A t \in Marks(e) : t.of = call.id /\ t.at < clock'
    BY <1>1, <1>2, <1>7, <1>8
<1>14. \/ /\ events' \in Seq(Events) /\ Good(events') /\ Before(events', clock')
          /\ LastOf(events', call.id) /\ Void(events') /\ Thought(events') = Thought(fs) \o <<>>
          /\ Partial(events') = Partial(fs) \o <<clock>>
          /\ held' = <<>> /\ relay' = r /\ unsent' = unsent /\ node' = "agent"
       \/ Failed(r)
    <2>1. e.type # "reset" /\ e.type # "reasoning" /\ Marks(e) # {} /\ node # "failed"
        BY <1>1, <1>7, <1>8
    <2> HIDE DEF r
    <2> QED
        BY <1>2, <1>7, <1>8, <1>9, <1>10, <1>12, <1>13, <2>1, OnePart
<1>15. CASE /\ events' \in Seq(Events) /\ Good(events') /\ Before(events', clock')
            /\ LastOf(events', call.id) /\ Void(events') /\ Thought(events') = Thought(fs) \o <<>>
            /\ Partial(events') = Partial(fs) \o <<clock>>
            /\ held' = <<>> /\ relay' = r /\ unsent' = unsent /\ node' = "agent"
    <2>1. Relaying!TypeOK'
        BY <1>1, <1>2, <1>3, <1>4, <1>15, NoneHeld, RelayTyped DEF Relaying!Nodes
    <2>2. RelayStands'
        BY <1>3, <1>4, <1>15, NoneHeld DEF RelayStands
    <2>3. RelayShows'
        BY <1>1, <1>2, <1>3, <1>4, <1>11, <1>15, NoneHeld DEF RelayInv, RelayShows
    <2> QED
        BY <1>1, <1>15, <2>1, <2>2, <2>3 DEF RelayInv
<1> QED
    BY <1>1, <1>2, <1>3, <1>4, <1>14, <1>15, RelayFailed

LEMMA RelayThought ==
    ASSUME RelayInv, Relaying!Think
    PROVE  RelayInv'
<1>1. /\ node = "agent" /\ relay \in RelayType /\ unsent = FALSE /\ clock' = clock + 1
      /\ clock < MaxFragments /\ held \in Seq(Stamps)
      /\ events \in Seq(Events) /\ Good(events) /\ Before(events, clock)
      /\ Holding(events, held, call.id, clock) /\ LastOf(events, call.id)
      /\ relay.streamed = TRUE => Void(events)
      /\ Thought(events) \o held = heard
      /\ Partial(events) = call.said /\ (call.said # <<>> => relay.streamed = TRUE)
    BY RelayTypes DEF RelayInv, RelayStands, RelayShows, Relaying!Think, Relaying!Stream
<1>2. /\ clock \in Nat /\ clock' \in Nat /\ clock <= clock' /\ clock' \in 0..MaxFragments + MaxNested
      /\ heard \in Seq(Stamps) /\ call.id \in Nat
    BY <1>1, RelayTypes
<1>3. call' \in Relaying!Call /\ call'.said = call.said /\ call'.id = call.id
    <2>1. call' = [call EXCEPT !.said = @ \o <<>>, !.mused = @ \/ TRUE]
        BY DEF Relaying!Think, Relaying!Stream
    <2>2. call.said \o <<>> = call.said /\ call.said \in Seq(Nat)
        BY RelayTypes DEF Relaying!Call
    <2>3. (call.mused \/ TRUE) \in BOOLEAN
        OBVIOUS
    <2> QED
        BY <2>1, <2>2, <2>3, RelayTypes DEF Relaying!Call
<1> DEFINE r == [relay EXCEPT !.thought = TRUE]
<1>4. r \in RelayType /\ r.thought = TRUE /\ r.streamed = relay.streamed
    BY <1>1 DEF RelayType
<1>5. PICK stamp : stamp = [of |-> call.id, at |-> clock]
    OBVIOUS
<1>6. stamp \in Stamps /\ stamp.at = clock /\ stamp.of = call.id
    BY <1>2, <1>5 DEF Relaying!Stamp, Stamps
<1>7. PICK h : h = held \o <<stamp>>
    OBVIOUS
<1>8. PICK N \in Nat : N = Len(held) /\ DOMAIN held = 1..N
    BY <1>1
<1>9. /\ h \in Seq(Stamps) /\ Len(h) = N + 1 /\ DOMAIN h = 1..N + 1
      /\ \A i \in 1..N : h[i] = held[i]
      /\ h[N + 1] = stamp
    BY <1>1, <1>6, <1>7, <1>8
<1>10. \A n \in 1..N + 1 : n \in 1..N \/ n = N + 1
    OBVIOUS
<1>11. heard' = heard \o <<stamp>> /\ heard' \in Seq(Stamps) /\ Thought(events) \o h = heard'
    <2>1. heard' = Append(heard, stamp)
        BY <1>5 DEF Relaying!Think
    <2>2. PICK t : t = Thought(events)
        OBVIOUS
    <2>3. t \in Seq(Stamps)
        BY <1>1, <2>2, EventTexts, FlattenAppend, NoneHeld DEF Thought
    <2>4. <<stamp>> \in Seq(Stamps)
        BY <1>6
    <2>5. (t \o held) \o <<stamp>> = t \o (held \o <<stamp>>)
        BY <1>1, <2>3, <2>4, ConcatAssociative
    <2>6. Append(heard, stamp) = heard \o <<stamp>> /\ Append(heard, stamp) \in Seq(Stamps)
        BY <1>2, <1>6
    <2> QED
        BY <1>1, <1>7, <2>1, <2>2, <2>5, <2>6
<1>12. Before(events, clock') /\ Holding(events, h, call.id, clock')
    <2>1. Before(events, clock')
        BY <1>1, <1>2, LaterBefore
    <2>2. \A i \in 1..N : held[i].at < clock /\ held[i].at \in Nat /\ held[i].of = call.id
        <3>1. \A i \in 1..N : held[i] \in Stamps
            BY <1>1, <1>8
        <3> QED
            BY <1>1, <1>8, <3>1 DEF Holding, Stamps, Relaying!Stamp
    <2>3. \A n \in 1..N + 1 : h[n].of = call.id /\ h[n].at < clock'
        <3>1. stamp.at < clock' /\ \A i \in 1..N : held[i].at < clock'
            BY <1>1, <1>2, <1>6, <2>2
        <3> QED
            BY <1>6, <1>9, <1>10, <2>2, <3>1
    <2>4. ASSUME NEW m \in 1..N + 1, NEW n \in 1..N + 1, m < n
          PROVE  h[m].at < h[n].at
        <3>1. m \in 1..N
            BY <1>10, <2>4
        <3>2. CASE n \in 1..N
            BY <1>1, <1>8, <1>9, <2>4, <3>1, <3>2 DEF Holding
        <3>3. CASE n = N + 1
            BY <1>6, <1>9, <2>2, <3>1, <3>3
        <3> QED
            BY <1>10, <3>2, <3>3
    <2>5. ASSUME NEW i \in DOMAIN events, NEW s \in Marks(events[i]), NEW n \in 1..N + 1
          PROVE  s.at < h[n].at
        <3>1. CASE n \in 1..N
            BY <1>1, <1>8, <1>9, <3>1 DEF Holding
        <3>2. CASE n = N + 1
            BY <1>1, <1>6, <1>9, <3>2 DEF Before
        <3> QED
            BY <1>10, <3>1, <3>2
    <2> QED
        BY <1>9, <2>1, <2>3, <2>4, <2>5 DEF Holding
<1>13. PICK n \in 0..Len(held) + 1 : Relaying!Relay(Relaying!Reasoning(stamp, n), "agent")
    BY <1>5 DEF Relaying!Think
<1>14. PICK first, more : first = SubSeq(h, 1, n) /\ more = SubSeq(h, n + 1, Len(held) + 1)
    OBVIOUS
<1>15. first \in Seq(Stamps) /\ more \in Seq(Stamps) /\ h = first \o more
    <2>1. n \in 0..N + 1 /\ n \in Nat /\ n <= N + 1 /\ first = SubSeq(h, 1, n) /\ more = SubSeq(h, n + 1, N + 1)
        BY <1>8, <1>13, <1>14
    <2>2. first \in Seq(Stamps)
        BY <1>9, <2>1
    <2>3. \A i \in n + 1..N + 1 : h[i] \in Stamps
        BY <1>9, <2>1
    <2>4. more \in Seq(Stamps)
        BY <1>9, <2>1, <2>3
    <2>5. 1 \in 1..Len(h) + 1 /\ n \in 1 - 1..Len(h) /\ N + 1 \in n..Len(h)
        BY <1>9, <2>1
    <2>6. SubSeq(h, 1, n) \o SubSeq(h, n + 1, N + 1) = SubSeq(h, 1, N + 1)
        BY <1>9, <2>5, ConcatAdjacentSubSeq
    <2>7. SubSeq(h, 1, N + 1) = h
        BY <1>9, SubSeqFull
    <2> QED
        BY <2>1, <2>2, <2>4, <2>6, <2>7
<1>16. PICK gs : gs = events \o Relaying!Flush(first)
    OBVIOUS
<1>17. /\ gs \in Seq(Events) /\ Good(gs) /\ Before(gs, clock') /\ LastOf(gs, call.id)
       /\ Holding(gs, more, call.id, clock') /\ Holding(events, more, call.id, clock')
       /\ Void(events) => Void(gs)
       /\ SameShown(gs, more, events, h)
    <2>1. Good(events) /\ events \in Seq(Events) /\ LastOf(events, call.id)
        BY <1>1
    <2>2. clock' \in Nat /\ Before(events, clock') /\ Holding(events, h, call.id, clock')
        BY <1>2, <1>12
    <2>3. Parts(h, first, more)
        BY <1>15 DEF Parts
    <2>7. h \in Seq(Stamps) /\ first \in Seq(Stamps) /\ more \in Seq(Stamps)
        BY <1>9, <1>15
    <2>4. PICK id, y : id = call.id /\ y = clock'
        OBVIOUS
    <2>5. /\ events \in Seq(Events) /\ Good(events) /\ LastOf(events, id)
          /\ y \in Nat /\ Before(events, y) /\ Holding(events, h, id, y)
        BY <2>1, <2>2, <2>4
    <2>6. /\ gs \in Seq(Events) /\ Good(gs) /\ Before(gs, y) /\ LastOf(gs, id)
          /\ Holding(gs, more, id, y) /\ Holding(events, more, id, y)
          /\ Void(events) => Void(gs)
          /\ SameShown(gs, more, events, h)
        BY <1>16, <2>3, <2>5, <2>7, LetGo
    <2> QED
        BY <2>4, <2>6
<1>18. PICK hs : hs = events \o Relaying!Flush(more)
    OBVIOUS
<1>19. hs \in Seq(Events) /\ Good(hs) /\ Before(hs, clock')
    BY <1>1, <1>2, <1>12, <1>15, <1>17, <1>18, FlushMore
<1>20. Relaying!Reasoning(stamp, n) = [out |-> Relaying!Flush(first), relay |-> r, held |-> more]
    BY <1>7, <1>14 DEF Relaying!Reasoning
<1>21. CASE Relaying!Feed([out |-> Relaying!Flush(first), relay |-> r, held |-> more]) /\ node' = "agent"
    <2>1. events' = gs /\ held' = more /\ relay' = r /\ unsent' = unsent
        BY <1>16, <1>21 DEF Relaying!Feed
    <2>2. Relaying!TypeOK'
        BY <1>1, <1>2, <1>3, <1>4, <1>11, <1>15, <1>17, <1>21, <2>1, RelayTyped DEF Relaying!Nodes
    <2>3. RelayStands'
        BY <1>1, <1>3, <1>4, <1>17, <1>21, <2>1 DEF RelayStands
    <2>4. RelayShows'
        BY <1>1, <1>3, <1>4, <1>11, <1>17, <1>21, <2>1 DEF RelayShows, SameShown
    <2> QED
        BY <1>1, <1>17, <2>1, <2>2, <2>3, <2>4 DEF RelayInv
<1>22. CASE Relaying!FeedFails([out |-> Relaying!Flush(first), relay |-> r, held |-> more])
    <2>1. PICK k \in DOMAIN Relaying!Flush(first), flushed \in BOOLEAN :
             events' = events \o SubSeq(Relaying!Flush(first), 1, k - 1)
                              \o (IF flushed THEN Relaying!Flush(more) ELSE <<>>)
        BY <1>22 DEF Relaying!FeedFails
    <2>2. k = 1
        <3>1. first = <<>> => Relaying!Flush(first) = <<>>
            BY DEF Relaying!Flush
        <3>2. first # <<>> => DOMAIN Relaying!Flush(first) = {1}
            BY DEF Relaying!Flush
        <3> QED
            BY <3>1, <3>2
    <2>3. SubSeq(Relaying!Flush(first), 1, k - 1) = <<>>
        BY <2>2
    <2>4. events \o <<>> = events
        BY <1>1
    <2>5. events' = hs \/ events' = events
        BY <1>18, <2>1, <2>3, <2>4
    <2>6. Failed(r)
        BY <1>1, <1>12, <1>19, <1>22, <2>5 DEF Relaying!FeedFails, Failed
    <2> QED
        BY <1>2, <1>3, <1>4, <1>11, <2>6, RelayFailed
<1> QED
    BY <1>13, <1>20, <1>21, <1>22 DEF Relaying!Relay

LEMMA RelayUnheard ==
    ASSUME RelayInv, Relaying!ThinkUnheard
    PROVE  RelayInv'
<1>1. /\ node = "agent" /\ clock < MaxFragments /\ clock' = clock + 1
      /\ UNCHANGED <<node, relay, held, events, heard, unsent>>
    BY DEF Relaying!ThinkUnheard, Relaying!Stream
<1>2. /\ clock \in Nat /\ clock' \in Nat /\ clock <= clock' /\ clock' \in 0..MaxFragments + MaxNested
    BY <1>1, RelayTypes
<1>3. call' \in Relaying!Call /\ call'.said = call.said /\ call'.id = call.id
    <2>1. call' = [call EXCEPT !.said = @ \o <<>>, !.mused = @ \/ TRUE]
        BY DEF Relaying!ThinkUnheard, Relaying!Stream
    <2>2. call.said \o <<>> = call.said /\ call.said \in Seq(Nat)
        BY RelayTypes DEF Relaying!Call
    <2>3. (call.mused \/ TRUE) \in BOOLEAN
        OBVIOUS
    <2> QED
        BY <2>1, <2>2, <2>3, RelayTypes DEF Relaying!Call
<1>4. Relaying!TypeOK'
    BY <1>1, <1>2, <1>3 DEF RelayInv, Relaying!TypeOK
<1>5. Before(events, clock') /\ (Holding(events, held, call.id, clock) => Holding(events, held, call.id, clock'))
    <2>1. Before(events, clock')
        BY <1>2, LaterBefore DEF RelayInv
    <2>2. \A n \in DOMAIN held : held[n].at \in Nat
        <3>1. \A n \in DOMAIN held : held[n] \in Stamps
            BY RelayTypes
        <3> QED
            BY <3>1 DEF Stamps, Relaying!Stamp
    <2>3. \A n \in DOMAIN held : held[n].at < clock => held[n].at < clock'
        BY <1>2, <2>2
    <2> QED
        BY <2>1, <2>3 DEF Holding
<1>6. RelayStands'
    BY <1>1, <1>3, <1>5 DEF RelayInv, RelayStands
<1>7. unsent = FALSE => RelayShows'
    BY <1>1, <1>3 DEF RelayInv, RelayShows
<1> QED
    BY <1>1, <1>4, <1>5, <1>6, <1>7 DEF RelayInv

LEMMA RelayRetried ==
    ASSUME RelayInv, Relaying!Retry
    PROVE  RelayInv'
<1>1. /\ node = "agent" /\ relay \in RelayType /\ unsent = FALSE /\ clock' = clock /\ heard' = heard
      /\ call.attempt < RETRY_ATTEMPTS /\ call' = Relaying!Attempt
    BY RelayTypes DEF RelayInv, Relaying!Retry
<1>2. call' \in Relaying!Call /\ call'.said = <<>>
    <2>1. <<>> \in Seq(Nat)
        OBVIOUS
    <2>2. call \in Relaying!Call /\ RETRY_ATTEMPTS \in Nat
        BY RelayTypes
    <2>3. call.attempt \in Nat /\ call.id \in Nat
        BY <2>2 DEF Relaying!Call
    <2>4. call.attempt + 1 \in 0..RETRY_ATTEMPTS /\ call.id + 1 \in Nat
        BY <1>1, <2>2, <2>3
    <2> QED
        BY <1>1, <2>1, <2>2, <2>4 DEF Relaying!Attempt, Relaying!Call
<1>3. /\ clock \in 0..MaxFragments + MaxNested /\ heard \in Seq(Stamps) /\ clock \in Nat
      /\ node # "failed" /\ clock' \in Nat /\ clock <= clock'
    <2>1. clock \in 0..MaxFragments + MaxNested
        BY DEF RelayInv, Relaying!TypeOK
    <2>2. clock \in Nat /\ clock <= clock /\ heard \in Seq(Stamps)
        BY RelayTypes
    <2> QED
        BY <1>1, <2>1, <2>2
<1>4. Partial(events) = call.said /\ (call.said # <<>> => relay.streamed = TRUE)
    BY <1>1 DEF RelayInv, RelayShows
<1> DEFINE Anew(r) ==
        /\ events' \in Seq(Events) /\ Good(events') /\ Before(events', clock')
        /\ LastBare(events') /\ Thought(events') = heard /\ Partial(events') = <<>>
        /\ held' = <<>> /\ relay' = r /\ unsent' = unsent /\ node' = "agent"
<1> DEFINE reset == [relay EXCEPT !.streamed = FALSE, !.thought = FALSE]
           retrying == [relay EXCEPT !.thought = FALSE]
<1>5. relay.streamed \in BOOLEAN /\ relay.thought \in BOOLEAN
    BY <1>1 DEF RelayType
<1>6. /\ reset \in RelayType /\ reset.streamed = FALSE /\ reset.thought = FALSE
      /\ retrying \in RelayType /\ retrying.streamed = relay.streamed /\ retrying.thought = FALSE
    BY <1>1 DEF RelayType
<1>7. Relaying!Relay(Relaying!Custom("retry", FALSE), "agent")
    BY DEF Relaying!Retry
<1>8. Relaying!Custom("retry", FALSE) =
         IF relay.streamed THEN Relaying!AfterFlush(<<Relaying!Ev("reset")>>, reset)
         ELSE IF relay.thought THEN Relaying!AfterFlush(<<Relaying!Ev("retrying")>>, retrying)
         ELSE Relaying!AfterFlush(<<>>, relay)
    BY DEF Relaying!Custom
<1> HIDE DEF reset, retrying
<1>9. ASSUME relay.streamed = TRUE
      PROVE  Anew(reset) \/ Failed(reset)
    <2>1. PICK fs : fs = events \o Relaying!Flush(held)
        OBVIOUS
    <2>2. Void(fs) /\ Thought(fs) = heard
        BY <1>1, <1>3, <1>9, <2>1, HeldShown
    <2>3. PICK e : e = Relaying!Ev("reset")
        OBVIOUS
    <2>4. e \in Events /\ Marks(e) = {} /\ e.type = "reset" /\ Closes(e)
        BY <2>3, PlainOne DEF Closes
    <2>5. Relaying!Relay(Relaying!AfterFlush(<<e>>, reset), "agent")
        BY <1>7, <1>8, <1>9, <2>3
    <2>6. After(fs, e) /\ \A t \in Marks(e) : t.of = call.id /\ t.at < clock'
        BY <2>4 DEF After
    <2>7. \/ /\ events' \in Seq(Events) /\ Good(events') /\ Before(events', clock')
             /\ LastBare(events')
             /\ Thought(events') = Thought(fs) \o <<>> /\ Partial(events') = <<>>
             /\ held' = <<>> /\ relay' = reset /\ unsent' = unsent /\ node' = "agent"
          \/ Failed(reset)
        BY <1>3, <2>1, <2>2, <2>4, <2>5, <2>6, OnePart
    <2>8. Thought(fs) \o <<>> = heard
        BY <1>3, <2>2, NoneHeld
    <2> QED
        BY <1>6, <2>7, <2>8
<1>10. ASSUME relay.streamed = FALSE, relay.thought = TRUE
       PROVE  Anew(retrying) \/ Failed(retrying)
    <2>1. Relaying!Relay(Relaying!AfterFlush(<<Relaying!Ev("retrying")>>, retrying), "agent")
        BY <1>7, <1>8, <1>10
    <2>2. <<Relaying!Ev("retrying")>> \in Seq(Events) /\ <<Relaying!Ev("retrying")>> # <<>>
          /\ Plain(<<Relaying!Ev("retrying")>>)
        BY PlainOne
    <2>3. \/ /\ events' \in Seq(Events) /\ Good(events') /\ Before(events', clock')
             /\ LastBare(events') /\ Thought(events') = heard /\ Partial(events') = Partial(events)
             /\ held' = <<>> /\ relay' = retrying /\ unsent' = unsent /\ node' = "agent"
          \/ Failed(retrying)
        BY <1>1, <1>3, <2>1, <2>2, PlainPart
    <2> QED
        BY <1>4, <1>6, <1>10, <2>3
<1>11. ASSUME relay.streamed = FALSE, relay.thought = FALSE
       PROVE  Anew(relay) \/ Failed(relay)
    <2>1. Relaying!Relay(Relaying!AfterFlush(<<>>, relay), "agent")
        BY <1>7, <1>8, <1>11
    <2>2. held = <<>> /\ LastBare(events)
        BY <1>1, <1>11 DEF RelayInv, RelayStands
    <2>3. \/ /\ events' \in Seq(Events) /\ Good(events') /\ Before(events', clock')
             /\ events' = events /\ Thought(events') = heard /\ Partial(events') = Partial(events)
             /\ held' = <<>> /\ relay' = relay /\ unsent' = unsent /\ node' = "agent"
          \/ Failed(relay)
        BY <1>1, <1>3, <2>1, <2>2, NoneMore, PlainPart
    <2> QED
        BY <1>4, <1>11, <2>2, <2>3
<1>12. PICK r \in RelayType : (Anew(r) \/ Failed(r)) /\ (Anew(r) => r.streamed = FALSE /\ r.thought = FALSE)
    <2>1. CASE relay.streamed = TRUE
        BY <1>6, <1>9, <2>1
    <2>2. CASE relay.streamed = FALSE /\ relay.thought = TRUE
        BY <1>6, <1>10, <2>2
    <2>3. CASE relay.streamed = FALSE /\ relay.thought = FALSE
        BY <1>1, <1>11, <2>3
    <2> QED
        BY <1>5, <2>1, <2>2, <2>3
<1>13. CASE Anew(r)
    <2>1. Relaying!TypeOK'
        BY <1>1, <1>2, <1>3, <1>13, NoneHeld, RelayTyped DEF Relaying!Nodes
    <2>2. RelayStands'
        BY <1>12, <1>13, NoneHeld DEF RelayStands
    <2>3. RelayShows'
        BY <1>1, <1>2, <1>3, <1>13, NoneHeld DEF RelayShows
    <2> QED
        BY <1>1, <1>13, <2>1, <2>2, <2>3 DEF RelayInv
<1> QED
    BY <1>1, <1>2, <1>3, <1>12, <1>13, RelayFailed

\* A node other than the model's relays a part of plain events, and the model is not called.
LEMMA RelayPlain ==
    ASSUME RelayInv, node \in {"tools", "notice"}, NEW evs \in Seq(Events), Plain(evs), NEW r \in RelayType,
           r.streamed = relay.streamed, r.reply = relay.reply, NEW next \in {"context", "tools", "notice"},
           next = "notice" <=> node = "notice",
           clock' \in 0..MaxFragments + MaxNested, clock <= clock', call' = call, heard' = heard,
           Relaying!Relay(Relaying!AfterFlush(evs, r), next)
    PROVE  RelayInv'
<1>1. /\ relay.streamed = FALSE /\ unsent = FALSE /\ held = <<>> /\ node # "failed"
      /\ clock' \in Nat /\ call \in Relaying!Call /\ heard \in Seq(Stamps)
    <2>1. clock' \in Nat
        BY RelayTypes
    <2> QED
        BY <2>1, RelayTypes DEF RelayInv, RelayStands
<1>2. \/ /\ events' \in Seq(Events) /\ Good(events') /\ Before(events', clock') /\ LastOf(events', call.id)
         /\ Partial(events') = Partial(events) /\ Thought(events') = heard
         /\ held' = <<>> /\ relay' = r /\ unsent' = unsent /\ node' = next
      \/ Failed(r)
    BY <1>1, PlainPart
<1>3. CASE /\ events' \in Seq(Events) /\ Good(events') /\ Before(events', clock') /\ LastOf(events', call.id)
           /\ Partial(events') = Partial(events) /\ Thought(events') = heard
           /\ held' = <<>> /\ relay' = r /\ unsent' = unsent /\ node' = next
    <2>1. Relaying!TypeOK'
        BY <1>1, <1>3, NoneHeld, RelayTyped DEF Relaying!Nodes
    <2>2. RelayStands'
        BY <1>1, <1>3, NoneHeld DEF RelayStands
    <2>3. RelayShows'
        BY <1>1, <1>3, NoneHeld DEF RelayInv, RelayShows
    <2> QED
        BY <1>1, <1>3, <2>1, <2>2, <2>3 DEF RelayInv
<1> QED
    BY <1>1, <1>2, <1>3, RelayFailed

LEMMA RelayNested ==
    ASSUME RelayInv, Relaying!Nested
    PROVE  RelayInv'
<1>1. /\ node = "tools" /\ relay \in RelayType /\ call' = call /\ heard' = heard
      /\ clock' \in 0..MaxFragments + MaxNested /\ clock <= clock'
    BY RelayTypes DEF Relaying!Nested
<1>2. PICK event \in {"progress", "retry"} : Relaying!Relay(Relaying!Custom(event, TRUE), "tools")
    BY DEF Relaying!Nested
<1>3. CASE event = "progress"
    <2>1. Relaying!Custom(event, TRUE) = Relaying!AfterFlush(<<Relaying!Ev("progress")>>, relay)
        BY <1>3 DEF Relaying!Custom
    <2>2. <<Relaying!Ev("progress")>> \in Seq(Events) /\ Plain(<<Relaying!Ev("progress")>>)
        BY PlainOne
    <2> QED
        BY <1>1, <1>2, <2>1, <2>2, RelayPlain
<1>4. CASE event = "retry"
    <2>1. Relaying!Custom(event, TRUE) = Relaying!AfterFlush(<<>>, relay)
        BY <1>4 DEF Relaying!Custom
    <2> QED
        BY <1>1, <1>2, <2>1, NoneMore, RelayPlain
<1> QED
    BY <1>3, <1>4

LEMMA RelayTools ==
    ASSUME RelayInv, Relaying!Tools
    PROVE  RelayInv'
<1>1. /\ node = "tools" /\ relay \in RelayType /\ call' = call /\ heard' = heard
      /\ clock' \in 0..MaxFragments + MaxNested /\ clock <= clock'
    <2>1. clock \in 0..MaxFragments + MaxNested
        BY DEF RelayInv, Relaying!TypeOK
    <2>2. clock' = clock /\ clock <= clock
        BY RelayTypes DEF Relaying!Tools
    <2> QED
        BY <2>1, <2>2, RelayTypes DEF Relaying!Tools
<1>2. PICK results \in 1..MaxTools : Relaying!Relay(Relaying!ToolsUpdate(results), "context")
    BY DEF Relaying!Tools
<1>3. results \in Nat
    BY RelayTypes
<1> QED
    BY <1>1, <1>2, <1>3, ToolEvents, RelayPlain DEF Relaying!ToolsUpdate

LEMMA RelayNoticed ==
    ASSUME RelayInv, Relaying!Notice
    PROVE  RelayInv'
<1>1. /\ node = "notice" /\ relay \in RelayType /\ call' = call /\ heard' = heard
      /\ clock' \in 0..MaxFragments + MaxNested /\ clock <= clock' /\ relay.notices < MaxNotices
    <2>1. clock \in 0..MaxFragments + MaxNested
        BY DEF RelayInv, Relaying!TypeOK
    <2>2. clock' = clock /\ clock <= clock
        BY RelayTypes DEF Relaying!Notice
    <2> QED
        BY <2>1, <2>2, RelayTypes DEF Relaying!Notice
<1> DEFINE r == [relay EXCEPT !.notices = @ + 1]
<1>2. r \in RelayType /\ r.streamed = relay.streamed /\ r.reply = relay.reply
    <2>1. relay.notices + 1 \in 0..MaxNotices
        BY <1>1, RelayTypes DEF RelayType
    <2> QED
        BY <1>1, <2>1 DEF RelayType
<1>3. Relaying!Relay(Relaying!AfterFlush(<<Relaying!Ev("notice")>>, r), "notice")
    BY DEF Relaying!Notice, Relaying!Custom
<1>4. <<Relaying!Ev("notice")>> \in Seq(Events) /\ Plain(<<Relaying!Ev("notice")>>)
    BY PlainOne
<1> HIDE DEF r
<1> QED
    BY <1>1, <1>2, <1>3, <1>4, RelayPlain

LEMMA RelayReplied ==
    ASSUME RelayInv, Relaying!Reply
    PROVE  RelayInv'
<1>1. /\ node = "agent" /\ relay \in RelayType /\ unsent = FALSE /\ clock' = clock /\ heard' = heard
      /\ call' = call
    BY RelayTypes DEF RelayInv, Relaying!Reply
<1>2. /\ clock \in 0..MaxFragments + MaxNested /\ heard \in Seq(Stamps) /\ clock \in Nat
      /\ node # "failed" /\ clock' \in Nat /\ clock <= clock' /\ call \in Relaying!Call /\ call.said \in Seq(Nat)
    <2>1. clock \in 0..MaxFragments + MaxNested
        BY DEF RelayInv, Relaying!TypeOK
    <2>2. clock \in Nat /\ clock <= clock /\ heard \in Seq(Stamps)
        BY RelayTypes
    <2>3. call \in Relaying!Call /\ call.said \in Seq(Nat)
        BY RelayTypes DEF Relaying!Call
    <2> QED
        BY <1>1, <2>1, <2>2, <2>3
<1>3. Partial(events) = call.said /\ (call.said # <<>> => relay.streamed = TRUE)
    BY <1>1 DEF RelayInv, RelayShows
<1>4. PICK calls \in 0..MaxTools :
         Relaying!Relay(Relaying!AgentUpdate(call.said, calls), IF calls > 0 THEN "tools" ELSE "notice")
    BY DEF Relaying!Reply
<1> DEFINE r == [relay EXCEPT !.streamed = FALSE, !.thought = FALSE, !.reply = call.said]
           next == IF calls > 0 THEN "tools" ELSE "notice"
           tools == [i \in 1..calls |-> Relaying!Ev("tool")]
<1>5. r \in RelayType /\ r.streamed = FALSE /\ r.reply = call.said
    BY <1>1, <1>2 DEF RelayType
<1>6. tools \in Seq(Events) /\ Plain(tools) /\ calls \in Nat
    <2>1. calls \in Nat
        BY RelayTypes
    <2> QED
        BY <2>1, ToolEvents
<1>7. Relaying!Relay(Relaying!AfterFlush((IF relay.streamed /\ calls > 0 THEN <<Relaying!Ev("message_end")>> ELSE <<>>)
                                           \o tools, r), next)
    BY <1>4 DEF Relaying!AgentUpdate
<1>8. relay.streamed \in BOOLEAN /\ next \in {"tools", "notice"}
    BY <1>1 DEF RelayType
<1> DEFINE Whole ==
        /\ events' \in Seq(Events) /\ Good(events') /\ Before(events', clock') /\ LastOf(events', call.id)
        /\ Thought(events') = heard /\ Partial(events') = IF calls > 0 THEN <<>> ELSE call.said
        /\ held' = <<>> /\ relay' = r /\ unsent' = unsent /\ node' = next
<1> HIDE DEF tools, r
<1>9. ASSUME relay.streamed = TRUE, calls > 0
      PROVE  Whole \/ Failed(r)
    <2>1. PICK e : e = Relaying!Ev("message_end")
        OBVIOUS
    <2>2. e \in Events /\ Marks(e) = {} /\ e.type = "message_end" /\ Closes(e)
        BY <2>1, PlainOne DEF Closes
    <2>3. Relaying!Relay(Relaying!AfterFlush(<<e>> \o tools, r), next)
        BY <1>7, <1>9, <2>1
    <2>4. PICK fs : fs = events \o Relaying!Flush(held)
        OBVIOUS
    <2>5. fs \in Seq(Events) /\ Good(fs) /\ Before(fs, clock) /\ LastOf(fs, call.id) /\ Thought(fs) = heard
        BY <1>1, <1>2, <2>4, HeldShown
    <2>6. PICK gs : gs = Append(fs, e)
        OBVIOUS
    <2>7. Good(gs) /\ LastBare(gs) /\ With(gs, fs, e)
        <3>1. After(fs, e) /\ \A t \in Marks(e) : t.of = call.id
            BY <2>2 DEF After
        <3>2. e.type # "reset"
            BY <2>2
        <3> QED
            BY <2>2, <2>5, <2>6, <3>1, <3>2, GoodMore
    <2>8. gs \in Seq(Events) /\ Thought(gs) = Thought(fs) \o <<>> /\ Partial(gs) = <<>>
        <3>1. e.type # "reasoning"
            BY <2>2
        <3> QED
            BY <2>2, <2>5, <2>6, <3>1, OneMore
    <2>9. Before(gs, clock) /\ LastOf(gs, call.id)
        BY <2>2, <2>5, <2>7, NoneHeld DEF Before, With
    <2>10. PICK hs : hs = gs \o tools
        OBVIOUS
    <2>11. hs \in Seq(Events) /\ Thought(hs) = Thought(gs) /\ Partial(hs) = Partial(gs)
        BY <1>6, <2>8, <2>10, PlainMore
    <2>12. Good(hs) /\ LastOf(hs, call.id) /\ Before(hs, clock')
        BY <1>1, <1>6, <2>7, <2>8, <2>9, <2>10, PlainStays
    <2>13. <<e>> \o tools \in Seq(Events) /\ fs \o (<<e>> \o tools) = hs
        <3>1. <<e>> \in Seq(Events) /\ Append(fs, e) = fs \o <<e>>
            BY <2>2, <2>5
        <3>2. (fs \o <<e>>) \o tools = fs \o (<<e>> \o tools)
            BY <1>6, <2>5, <3>1, ConcatAssociative
        <3> QED
            BY <1>6, <2>6, <2>10, <3>1, <3>2
    <2>14. PICK evs : evs = <<e>> \o tools
        OBVIOUS
    <2>15. /\ evs \in Seq(Events) /\ Good(fs \o evs) /\ Before(fs \o evs, clock')
           /\ Relaying!Relay(Relaying!AfterFlush(evs, r), next)
        BY <2>3, <2>12, <2>13, <2>14
    <2>16. \/ events' = fs \o evs /\ held' = <<>> /\ relay' = r /\ unsent' = unsent /\ node' = next
           \/ Failed(r)
        BY <1>2, <2>4, <2>15, AfterFlushed
    <2>17. Thought(hs) = heard
        BY <1>2, <2>5, <2>8, <2>11, NoneHeld
    <2> QED
        BY <1>9, <2>8, <2>11, <2>12, <2>13, <2>14, <2>16, <2>17
<1>10. ASSUME ~(relay.streamed = TRUE /\ calls > 0)
       PROVE  Whole \/ Failed(r)
    <2>1. <<>> \o tools = tools
        BY <1>6
    <2>2. Relaying!Relay(Relaying!AfterFlush(tools, r), next)
        BY <1>7, <1>8, <1>10, <2>1
    <2>3. \/ /\ events' \in Seq(Events) /\ Good(events') /\ Before(events', clock') /\ LastOf(events', call.id)
             /\ Partial(events') = Partial(events) /\ Thought(events') = heard
             /\ held' = <<>> /\ relay' = r /\ unsent' = unsent /\ node' = next
          \/ Failed(r)
        BY <1>1, <1>2, <1>6, <2>2, PlainPart
    <2>4. calls > 0 => call.said = <<>>
        BY <1>3, <1>8, <1>10
    <2> QED
        BY <1>3, <2>3, <2>4
<1>11. Whole \/ Failed(r)
    BY <1>9, <1>10
<1>12. CASE Whole
    <2>1. Relaying!TypeOK'
        BY <1>1, <1>2, <1>5, <1>8, <1>12, NoneHeld, RelayTyped DEF Relaying!Nodes
    <2>2. RelayStands'
        BY <1>1, <1>5, <1>8, <1>12, NoneHeld DEF RelayStands
    <2>3. RelayShows'
        BY <1>1, <1>2, <1>5, <1>12, NoneHeld DEF RelayShows
    <2> QED
        BY <1>1, <1>12, <2>1, <2>2, <2>3 DEF RelayInv
<1> QED
    BY <1>1, <1>2, <1>5, <1>11, <1>12, RelayFailed

LEMMA RelayEnded ==
    ASSUME RelayInv, Relaying!Return \/ Relaying!Raise
    PROVE  RelayInv'
<1>1. PICK ending \in {"done", "failed"} :
         Relaying!Flushed(ending) /\ (ending = "done" => node = "notice") /\ node # "failed"
    BY DEF Relaying!Return, Relaying!Raise
<1>2. held' = <<>> /\ UNCHANGED <<call, relay, clock, heard>>
    BY <1>1 DEF Relaying!Flushed
<1>3. /\ call \in Relaying!Call /\ relay \in RelayType /\ clock \in 0..MaxFragments + MaxNested
      /\ heard \in Seq(Stamps) /\ unsent = FALSE
    BY <1>1, RelayTypes DEF RelayInv, Relaying!TypeOK
<1>4. CASE events' = events \o Relaying!Flush(held) /\ unsent' = unsent /\ node' = ending
    <2>1. PICK fs : fs = events \o Relaying!Flush(held)
        OBVIOUS
    <2>2. /\ fs \in Seq(Events) /\ Good(fs) /\ Before(fs, clock) /\ LastOf(fs, call.id)
          /\ Thought(fs) = heard /\ Partial(fs) = Partial(events)
        BY <1>1, <1>3, <2>1, HeldShown
    <2>3. events' = fs
        BY <1>4, <2>1
    <2>4. Relaying!TypeOK'
        BY <1>2, <1>3, <1>4, <2>2, <2>3, NoneHeld, RelayTyped DEF Relaying!Nodes
    <2>5. RelayStands'
        BY <1>1, <1>2, <1>4, <2>2, <2>3, NoneHeld DEF RelayInv, RelayStands
    <2>6. RelayShows'
        BY <1>1, <1>2, <1>3, <1>4, <2>2, <2>3, NoneHeld DEF RelayInv, RelayShows
    <2> QED
        BY <1>2, <1>3, <1>4, <2>2, <2>3, <2>4, <2>5, <2>6 DEF RelayInv
<1>5. CASE unsent' = TRUE /\ node' = "failed" /\ UNCHANGED events
    <2>1. Failed(relay)
        BY <1>2, <1>5 DEF RelayInv, Failed
    <2> QED
        BY <1>2, <1>3, <2>1, RelayFailed
<1> QED
    BY <1>1, <1>4, <1>5 DEF Relaying!Flushed

LEMMA RelayRest ==
    ASSUME RelayInv, UNCHANGED relayVars
    PROVE  RelayInv'
<1>1. UNCHANGED <<node, call, relay, held, events, clock, heard, unsent>>
    BY DEF relayVars
<1>2. Relaying!TypeOK' /\ RelayStands' /\ (unsent' = FALSE => RelayShows')
    BY <1>1 DEF RelayInv, Relaying!TypeOK, RelayStands, RelayShows
<1> QED
    BY <1>1, <1>2 DEF RelayInv

LEMMA RelayAlways == ChatSpec => []RelayInv
<1>1. ChatInit => RelayInv
    BY RelayInit
<1>2. RelayInv /\ Relaying!Next => RelayInv'
    BY RelayAsked, RelaySaid, RelayThought, RelayUnheard, RelayRetried, RelayReplied, RelayNested, RelayTools,
       RelayNoticed, RelayEnded DEF Relaying!Next
<1>3. RelayInv /\ [ChatNext]_chatVars => RelayInv'
    BY <1>2, RelayRest DEF ChatNext, chatVars
<1> QED
    BY <1>1, <1>3, PTL DEF ChatSpec

\* stream.py 57-58 and 132-133: all reasoning is shown, before what it led to.
THEOREM ThinkingShownHolds == ChatSpec => []ThinkingShown
<1>1. ASSUME RelayInv
      PROVE  ThinkingShown
    <2>1. Relaying!Texts("reasoning") = Thought(events)
        BY DEF Relaying!Texts, Thought, Thoughts
    <2>2. Relaying!AllThinkingShown
        <3>1. node \in {"done", "failed"} => held = <<>>
            BY <1>1 DEF RelayInv, RelayStands
        <3> QED
            BY <1>1, <2>1, <3>1, RelayTypes DEF RelayInv, RelayShows, Relaying!AllThinkingShown
    <2>3. \A e : Marks(e) = Relaying!ToSet(e.text)
        BY DEF Marks, Relaying!ToSet
    <2>4. Relaying!ShownInOrder
        BY <1>1, <2>3 DEF RelayInv, Good, InOrder, Relaying!ShownInOrder
    <2> QED
        BY <2>2, <2>4 DEF ThinkingShown
<1> QED
    BY <1>1, RelayAlways, PTL

\* stream.py 7-9, queue/models.py 95-103: a client shows one attempt's text alone, and in the end the
\* reply; a reset voids something, and parts two attempts.
THEOREM ReplyShownHolds == ChatSpec => []ReplyShown
<1>1. ASSUME RelayInv
      PROVE  ReplyShown
    <2>1. \A i \in DOMAIN events : i \in Nat
        BY <1>1 DEF RelayInv
    <2>2. Relaying!Partial = Partial(events)
        <3> DEFINE ends == {i \in DOMAIN events : events[i].type \in {"reset", "message_end"}}
                   since == {i \in DOMAIN events : \A j \in ends : i > j}
        <3>1. \A i \in DOMAIN events : (i \in since /\ events[i].type = "token") <=> i \in Showing(events)
            BY DEF Showing, Closes
        <3>2. [i \in DOMAIN events |-> IF i \in since /\ events[i].type = "token" THEN <<events[i].text[1].at>> ELSE <<>>]
               = Shows(events)
            BY <3>1 DEF Shows
        <3> QED
            BY <3>2 DEF Relaying!Partial, Partial
    <2>3. Relaying!ClientShowsTheReply
        BY <1>1, <2>2, RelayTypes DEF RelayInv, RelayShows, Relaying!ClientShowsTheReply
    <2>4. Relaying!ResetVoids
        <3> SUFFICES ASSUME NEW i \in DOMAIN events, events[i].type = "reset"
                     PROVE  \E j \in 1..i - 1 :
                               /\ events[j].type = "token"
                               /\ \A k \in j..i - 1 : events[k].type \notin {"reset", "message_end"}
            BY DEF Relaying!ResetVoids
        <3> QED
            BY <1>1 DEF RelayInv, Good, ResetsVoid, Closes
    <2>5. \A e : Marks(e) = Relaying!ToSet(e.text)
        BY DEF Marks, Relaying!ToSet
    <2>6. Relaying!AttemptsAreParted
        BY <1>1, <2>5 DEF RelayInv, Good, Parted, Relaying!AttemptsAreParted
    <2> QED
        BY <2>3, <2>4, <2>6 DEF ReplyShown
<1> QED
    BY <1>1, RelayAlways, PTL

=============================================================================
