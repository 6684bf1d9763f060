-------------------------- MODULE ChatTypesProofs --------------------------
(***************************************************************************)
(* The parts of MCChat together: what is proved of the lock alone holds in *)
(* a chat, and the types of all parts, from the invariant of each.         *)
(***************************************************************************)
EXTENDS ChatProofs, RedactProofs, ThreadLockProofs

\* lock.py 1 and 7-8: in a chat the lock of a conversation behaves as ThreadLock says, so that what is
\* proved of it alone holds there: Exclusive, BusyBehindAJob and NoTheft.
THEOREM ChatLocks == ChatSpec => Spec
<1>1. ChatInit => Init
    BY DEF ChatInit
<1>2. [ChatNext]_chatVars => [Next]_vars
    BY DEF ChatNext, chatVars
<1> QED
    BY <1>1, <1>2, PTL DEF ChatSpec, Spec

\* Every variable of the parts of a chat has its type: the part that runs keeps its invariant, and the others rest.
THEOREM ChatTypesHold == ChatSpec => []TypesOK
<1>1. ChatSpec => []TypeOK
    BY ChatLocks, LockTypeCorrect, PTL
<1>2. RedactInv => Redaction!TypeOK
    <2> SUFFICES ASSUME RedactInv
                 PROVE  Redaction!TypeOK
        OBVIOUS
    <2>1. PICK b : Redacts(text, buffer, sent, dropped, over, b)
        BY DEF RedactInv
    <2>2. buffer \in Seq(Redaction!Char) /\ sent \in Seq(1..MaxText) /\ dropped \subseteq 1..MaxText
        BY <2>1 DEF Redacts, Covers, Sent_well
    <2> QED
        BY <2>2 DEF RedactInv, Redaction!TypeOK
<1>3. ThreadsInv => Threads!TypeOK
    BY DEF ThreadsInv, ThreadsInvOf
<1>4. TypeOK /\ RelayInv /\ ThreadsInv /\ TurnInv /\ RedactInv => TypesOK
    BY <1>2, <1>3 DEF TypesOK, RelayInv, TurnInv
<1> QED
    BY <1>1, <1>4, RelayAlways, ThreadsAlways, TurnAlways, RedactAlways, PTL

=============================================================================
