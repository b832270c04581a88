-------------------------- MODULE RuntimeStoreProofs --------------------------
(***************************************************************************)
(* Proofs about RuntimeStore, for every number of callers and messages and *)
(* every TTL, window and limit.                                            *)
(***************************************************************************)
EXTENDS RuntimeStore, FiniteSetTheorems, TLAPS

-----------------------------------------------------------------------------
(* What the bounds keep: NewestRecords drops records and never invents one.*)
LEMMA NewestRecordsSubset == ASSUME NEW R PROVE NewestRecords(R) \subseteq R
BY DEF NewestRecords

(* NewestSeen leaves an entry as it is or drops it.                        *)
LEMMA NewestSeenEntries ==
    ASSUME NEW S \in [Messages -> Nat], NEW T \in NewestSeen(S)
    PROVE  /\ T \in [Messages -> Nat]
           /\ \A m \in Messages : T[m] = S[m] \/ T[m] = 0
<1>1. CASE Cardinality(Remembering(S)) <= MaxSeen
  BY <1>1 DEF NewestSeen
<1>2. CASE ~(Cardinality(Remembering(S)) <= MaxSeen)
  <2>1. PICK K \in SUBSET Remembering(S) :
          T = [m \in Messages |-> IF m \in K THEN S[m] ELSE 0]
    BY <1>2 DEF NewestSeen
  <2>2. QED BY <2>1
<1>3. QED BY <1>1, <1>2

(* Pruning the table leaves a table.                                       *)
LEMMA UnexpiredSeenType ==
    ASSUME TypeOK, NEW now
    PROVE  UnexpiredSeen(now) \in [Messages -> Nat]
BY DEF TypeOK, UnexpiredSeen

LEMMA UnexpiredRecordsSubset == ASSUME NEW now PROVE UnexpiredRecords(now) \subseteq records
BY DEF UnexpiredRecords

(* A thread that finishes is idle again, and the others are untouched.     *)
LEMMA FinishType ==
    ASSUME TypeOK, NEW t \in Threads, Finish(t)
    PROVE  /\ call' \in [Threads -> Call]
           /\ \A u \in Threads : call'[u].op \in {"judged", "record"} => call'[u].msg \in Messages
<1>1. Idle \in Call /\ Idle.op = "idle"
  BY DEF Idle, Call, Ops, Codes
<1>2. QED BY <1>1 DEF Finish, TypeOK

(* A call cut short leaves its thread idle or ended, with no message.      *)
LEMMA AbandonType ==
    ASSUME TypeOK, NEW t \in Threads, Abandon(t)
    PROVE  /\ call' \in [Threads -> Call]
           /\ \A u \in Threads : call'[u].op \in {"judged", "record"} => call'[u].msg \in Messages
<1>1. Idle \in Call /\ Idle.op = "idle" /\ Ended \in Call /\ Ended.op = "ended"
  BY DEF Idle, Ended, Call, Ops, Codes
<1>2. QED BY <1>1 DEF Abandon, TypeOK

(* A thread that has read the clock carries a well-formed call.            *)
LEMMA EnterType ==
    ASSUME TypeOK, NEW t \in Threads, NEW op \in Ops, NEW id \in Nat, Enter(t, op, id),
           op = "record" => call[t].msg \in Messages, op # "judged"
    PROVE  /\ call' \in [Threads -> Call]
           /\ \A u \in Threads : call'[u].op \in {"judged", "record"} => call'[u].msg \in Messages
<1> DEFINE c == [op |-> op, msg |-> call[t].msg, code |-> call[t].code,
                 received |-> call[t].received, now |-> clock, id |-> id]
<1>1. c \in Call /\ (c.op = "record" => c.msg \in Messages) /\ c.op # "judged"
  BY DEF TypeOK, Call
<1>2. call' = [call EXCEPT ![t] = c]
  BY DEF Enter, TypeOK
<1> HIDE DEF c
<1>3. QED BY <1>1, <1>2 DEF TypeOK

(* Every rewrite of the file from a subset of the records and a table.     *)
LEMMA ReplaceType ==
    ASSUME TypeOK, NEW R \in SUBSET records, NEW S \in [Messages -> Nat], Replace(R, S)
    PROVE  /\ records' \subseteq records
           /\ seen' \in [Messages -> Nat]
BY NewestRecordsSubset, NewestSeenEntries DEF Replace

(* Every operation keeps the type invariant.                               *)
LEMMA TypeStep == TypeOK /\ [Next]_vars => TypeOK'
<1> SUFFICES ASSUME TypeOK, [Next]_vars PROVE TypeOK'
  OBVIOUS
<1> USE MessagesAssumption, LimitsAssumption
<1>1. ASSUME NEW t \in Callers, NEW m \in Messages, Ingest(t, m) PROVE TypeOK'
  <2>1. ClampStamp(StampOf[m], clock) \in Int
    BY DEF ClampStamp, TypeOK
  <2> DEFINE received == ClampStamp(StampOf[m], clock)
             c == [op |-> "judged", msg |-> m, received |-> received, now |-> 0, id |-> 0,
                   code |-> IF received <= clock - TTL THEN NoCode ELSE ContentOf[m]]
  <2>2. c \in Call /\ c.msg \in Messages
    BY <2>1 DEF Call, Ops, Codes
  <2>3. call' = [call EXCEPT ![t] = c]
    BY <1>1 DEF Ingest
  <2> HIDE DEF c
  <2>4. QED BY <1>1, <2>2, <2>3 DEF Ingest, TypeOK, Threads
<1>2. ASSUME NEW t \in Callers, EnterRecordMessage(t) PROVE TypeOK'
  BY <1>2, EnterType DEF EnterRecordMessage, TypeOK, Threads, Ops
<1>3. ASSUME NEW t \in Callers, RecordMessage(t) PROVE TypeOK'
  <2> DEFINE c == call[t]
             R == UnexpiredRecords(c.now)
             S == UnexpiredSeen(c.now)
             marked == [S EXCEPT ![c.msg] = RememberUntil(c)]
  <2>1. /\ c \in Call
        /\ R \subseteq records
        /\ S \in [Messages -> Nat]
        /\ marked \in [Messages -> Nat]
    <3>1. c \in Call BY DEF TypeOK, Threads
    <3>2. R \subseteq records BY UnexpiredRecordsSubset
    <3>3. S \in [Messages -> Nat] BY UnexpiredSeenType
    <3>4. RememberUntil(c) \in Nat BY <3>1 DEF RememberUntil, Call
    <3>5. QED BY <3>1, <3>2, <3>3, <3>4
  <2>2. /\ call' \in [Threads -> Call]
        /\ \A u \in Threads : call'[u].op \in {"judged", "record"} => call'[u].msg \in Messages
        /\ clock' = clock
    BY <1>3, FinishType DEF RecordMessage, Threads
  <2> HIDE DEF R, S, marked
  <2>3. CASE /\ Replace(R, S)
             /\ UNCHANGED <<nextId, accounted>>
    BY <2>1, <2>2, <2>3, ReplaceType DEF TypeOK
  <2>4. CASE /\ c.msg \in Messages
             /\ Replace(R, marked)
             /\ accounted' = accounted \cup {c.msg}
             /\ UNCHANGED nextId
    BY <2>1, <2>2, <2>4, ReplaceType DEF TypeOK
  <2>5. CASE /\ c.msg \in Messages
             /\ Replace(R \cup {NewRecord(c)}, marked)
             /\ accounted' = accounted \cup {c.msg}
             /\ nextId' = nextId + 1
    <3>1. /\ records' \subseteq records \cup {NewRecord(c)}
          /\ seen' \in [Messages -> Nat]
      BY <2>1, <2>5, NewestRecordsSubset, NewestSeenEntries DEF Replace
    <3>2. /\ NewRecord(c) \in Record
          /\ NewRecord(c).id = nextId
      BY <2>1, <2>5 DEF NewRecord, Record, Call, TypeOK
    <3>3. QED BY <2>2, <2>5, <3>1, <3>2 DEF TypeOK, Record
  <2>6. CASE WriteFails
    BY <2>2, <2>6 DEF WriteFails, TypeOK
  <2>7. c.msg \in Messages
    BY <1>3 DEF RecordMessage, TypeOK, Threads
  <2>8. QED BY <1>3, <2>3, <2>4, <2>5, <2>6, <2>7 DEF RecordMessage, R, S, marked
<1>4. ASSUME NEW t \in Callers, NEW r \in records, EnterRemove(t, r) PROVE TypeOK'
  <2>1. r.id \in Nat
    BY DEF TypeOK, Record
  <2>2. QED BY <1>4, <2>1, EnterType DEF EnterRemove, TypeOK, Threads, Ops
<1>5. ASSUME NEW t \in Callers, Remove(t) PROVE TypeOK'
  <2> DEFINE R == {r \in UnexpiredRecords(call[t].now) : r.id # call[t].id}
             S == UnexpiredSeen(call[t].now)
  <2>1. R \subseteq records /\ S \in [Messages -> Nat]
    BY UnexpiredRecordsSubset, UnexpiredSeenType
  <2>2. /\ call' \in [Threads -> Call]
        /\ \A u \in Threads : call'[u].op \in {"judged", "record"} => call'[u].msg \in Messages
        /\ clock' = clock
    BY <1>5, FinishType DEF Remove, Threads
  <2> HIDE DEF R, S
  <2>3. CASE Replace(R, S) /\ UNCHANGED <<nextId, accounted>>
    BY <2>1, <2>2, <2>3, ReplaceType DEF TypeOK
  <2>4. CASE WriteFails
    BY <2>2, <2>4 DEF WriteFails, TypeOK
  <2>5. QED BY <1>5, <2>3, <2>4 DEF Remove, R, S
<1>6. ASSUME NEW t \in Callers, NEW b \in BOOLEAN, Clear(t, b) PROVE TypeOK'
  <2>1. SeenAfterClear(b) \in [Messages -> Nat]
    BY DEF SeenAfterClear, TypeOK
  <2>2. CASE /\ Replace({}, SeenAfterClear(b))
             /\ accounted' = IF b THEN {} ELSE accounted
             /\ UNCHANGED nextId
    <3>1. {} \in SUBSET records
      OBVIOUS
    <3>2. records' \subseteq records /\ seen' \in [Messages -> Nat]
      BY <2>1, <2>2, <3>1, ReplaceType
    <3>3. QED BY <1>6, <2>2, <3>2 DEF Clear, TypeOK
  <2>3. CASE WriteFails
    BY <1>6, <2>3 DEF Clear, WriteFails, TypeOK
  <2>4. QED BY <1>6, <2>2, <2>3 DEF Clear
<1>7. ASSUME NEW t \in Threads, Die(t) \/ ListFails(t) PROVE TypeOK'
  BY <1>7, AbandonType DEF Die, ListFails, WriteFails, TypeOK
<1>8. ASSUME NEW t \in Threads, EnterList(t) PROVE TypeOK'
  BY <1>8, EnterType DEF EnterList, TypeOK, Ops
<1>9. ASSUME NEW t \in Threads, ListAndPrune(t) PROVE TypeOK'
  <2> DEFINE R == UnexpiredRecords(call[t].now)
             S == UnexpiredSeen(call[t].now)
  <2>1. R \subseteq records /\ S \in [Messages -> Nat]
    BY UnexpiredRecordsSubset, UnexpiredSeenType
  <2>2. /\ call' \in [Threads -> Call]
        /\ \A u \in Threads : call'[u].op \in {"judged", "record"} => call'[u].msg \in Messages
        /\ UNCHANGED <<clock, nextId, accounted>>
    BY <1>9, FinishType DEF ListAndPrune
  <2> HIDE DEF R, S
  <2>3. CASE UNCHANGED <<records, seen>>
    BY <2>2, <2>3 DEF TypeOK
  <2>4. CASE Replace(R, S)
    BY <2>1, <2>2, <2>4, ReplaceType DEF TypeOK
  <2>5. QED BY <1>9, <2>3, <2>4 DEF ListAndPrune, R, S
<1>10. CASE Restart
  <2>1. Maintainer \in Threads
    BY DEF Threads
  <2>2. QED BY <1>10, <2>1, FinishType DEF Restart, TypeOK
<1>11. CASE Tick
  BY <1>11 DEF Tick, TypeOK
<1>12. CASE UNCHANGED vars
  BY <1>12 DEF vars, TypeOK
<1>13. QED
  BY <1>1, <1>2, <1>3, <1>4, <1>5, <1>6, <1>7, <1>8, <1>9, <1>10, <1>11, <1>12
     DEF Next, Caller, Lister

(* The types of the store, for any number of callers, messages and limits. *)
THEOREM TypeCorrect == Spec => []TypeOK
<1>1. Init => TypeOK
  BY DEF Init, TypeOK, Idle, Call, Ops, Codes
<1>2. QED BY <1>1, TypeStep, PTL DEF Spec

-----------------------------------------------------------------------------
(* What a waiting call carries.  Its clock is never ahead of the host's;   *)
(* its code is the one in its message; and when senders' clocks are not    *)
(* ahead, its message was stamped no later than the clock it read.         *)
Faithful(c, time) ==
    /\ c.now <= time
    /\ c.op \in {"judged", "record"} =>
          /\ c.code \in {NoCode, ContentOf[c.msg]}
          /\ PhoneAhead = 0 => /\ c.received = StampOf[c.msg]
                               /\ c.received <= time
                               /\ c.op = "record" => c.received <= c.now

CallsFaithful == \A t \in Threads : Faithful(call[t], clock)

LEMMA FinishFaithful ==
    ASSUME TypeOK, CallsFaithful, NEW t \in Threads, Finish(t), clock' = clock
    PROVE  CallsFaithful'
<1>1. Faithful(Idle, clock)
  BY DEF Faithful, Idle, TypeOK
<1>2. QED BY <1>1 DEF CallsFaithful, Finish, TypeOK

LEMMA AbandonFaithful ==
    ASSUME TypeOK, CallsFaithful, NEW t \in Threads, Abandon(t), clock' = clock
    PROVE  CallsFaithful'
<1>1. Faithful(Idle, clock) /\ Faithful(Ended, clock)
  BY DEF Faithful, Idle, Ended, TypeOK
<1>2. QED BY <1>1 DEF CallsFaithful, Abandon, TypeOK

LEMMA EnterFaithful ==
    ASSUME TypeOK, CallsFaithful, NEW t \in Threads, NEW op \in Ops, NEW id, Enter(t, op, id),
           op = "record" => call[t].op = "judged", op # "judged", clock' = clock
    PROVE  CallsFaithful'
<1> DEFINE c == [op |-> op, msg |-> call[t].msg, code |-> call[t].code,
                 received |-> call[t].received, now |-> clock, id |-> id]
<1>1. Faithful(call[t], clock)
  BY DEF CallsFaithful
<1>2. Faithful(c, clock)
  BY <1>1 DEF Faithful, TypeOK
<1>3. call' = [call EXCEPT ![t] = c]
  BY DEF Enter, TypeOK
<1> HIDE DEF c
<1>4. QED BY <1>2, <1>3 DEF CallsFaithful, TypeOK

LEMMA CallsStep == TypeOK /\ CallsFaithful /\ [Next]_vars => CallsFaithful'
<1> SUFFICES ASSUME TypeOK, CallsFaithful, [Next]_vars PROVE CallsFaithful'
  OBVIOUS
<1> USE MessagesAssumption, LimitsAssumption
<1>1. ASSUME NEW t \in Callers, NEW m \in Messages, Ingest(t, m) PROVE CallsFaithful'
  <2> DEFINE received == ClampStamp(StampOf[m], clock)
             c == [op |-> "judged", msg |-> m, received |-> received, now |-> 0, id |-> 0,
                   code |-> IF received <= clock - TTL THEN NoCode ELSE ContentOf[m]]
  <2>1. PhoneAhead = 0 => received = StampOf[m] /\ received <= clock
    BY <1>1 DEF Ingest, ClampStamp, TypeOK
  <2>2. Faithful(c, clock)
    BY <2>1 DEF Faithful, TypeOK
  <2>3. call' = [call EXCEPT ![t] = c] /\ clock' = clock
    BY <1>1 DEF Ingest
  <2> HIDE DEF c
  <2>4. QED BY <2>2, <2>3 DEF CallsFaithful, TypeOK, Threads
<1>2. ASSUME NEW t \in Callers, EnterRecordMessage(t) PROVE CallsFaithful'
  BY <1>2, EnterFaithful DEF EnterRecordMessage, Threads, Ops
<1>3. ASSUME NEW t \in Callers, RecordMessage(t) \/ Remove(t) PROVE CallsFaithful'
  BY <1>3, FinishFaithful DEF RecordMessage, Remove, Threads
<1>4. ASSUME NEW t \in Callers, NEW r \in records, EnterRemove(t, r) PROVE CallsFaithful'
  BY <1>4, EnterFaithful DEF EnterRemove, Threads, Ops
<1>5. ASSUME NEW t \in Callers, NEW b \in BOOLEAN, Clear(t, b) PROVE CallsFaithful'
  BY <1>5 DEF Clear, CallsFaithful
<1>6. ASSUME NEW t \in Threads, EnterList(t) PROVE CallsFaithful'
  BY <1>6, EnterFaithful DEF EnterList, Ops
<1>7. ASSUME NEW t \in Threads, ListAndPrune(t) \/ ListFails(t) \/ Die(t)
      PROVE  CallsFaithful'
  BY <1>7, FinishFaithful, AbandonFaithful DEF ListAndPrune, ListFails, Die
<1>8. CASE Tick
  <2>1. ASSUME NEW t \in Threads PROVE Faithful(call[t], clock + 1)
    BY DEF CallsFaithful, Faithful, TypeOK, Call
  <2>2. QED BY <1>8, <2>1 DEF Tick, CallsFaithful
<1>9. CASE UNCHANGED vars
  BY <1>9 DEF vars, CallsFaithful
<1>10. CASE Restart
  <2>1. Maintainer \in Threads
    BY DEF Threads
  <2>2. QED BY <1>10, <2>1, FinishFaithful DEF Restart
<1>11. QED
  BY <1>1, <1>2, <1>3, <1>4, <1>5, <1>6, <1>7, <1>8, <1>9, <1>10 DEF Next, Caller, Lister

LEMMA CallsInvariant == Spec => [](TypeOK /\ CallsFaithful)
<1>1. Init => CallsFaithful
  BY DEF Init, CallsFaithful, Faithful, Idle
<1>2. QED BY <1>1, CallsStep, TypeCorrect, PTL DEF Spec

-----------------------------------------------------------------------------
(* A step adds a record only by recording a message whose code no record   *)
(* kept by the same transaction carries.                                   *)
Records(t) ==
    LET c == call[t] IN
    /\ c.op = "record" /\ c.code # NoCode
    /\ ~IsDuplicate(c, UnexpiredRecords(c.now))
    /\ UnexpiredSeen(c.now)[c.msg] <= c.now
    /\ records' \subseteq UnexpiredRecords(c.now) \cup {NewRecord(c)}
    /\ accounted' = accounted \cup {c.msg}

(* Every other step only takes records away, and accounts for at least the *)
(* messages it did before, except for a clear that forgets them all.       *)
Forgets == records' = {} /\ accounted' = {}
Shrinks == records' \subseteq records /\ accounted \subseteq accounted'

LEMMA RecordsStep ==
    [Next]_vars => Shrinks \/ Forgets \/ \E t \in Callers : Records(t)
<1> SUFFICES ASSUME [Next]_vars
             PROVE  Shrinks \/ Forgets \/ \E t \in Callers : Records(t)
  OBVIOUS
<1>1. ASSUME NEW R \in SUBSET records, NEW S, Replace(R, S) PROVE records' \subseteq records
  BY <1>1, NewestRecordsSubset DEF Replace
<1>2. ASSUME NEW t \in Callers, RecordMessage(t)
      PROVE  Shrinks \/ Records(t)
  <2> DEFINE R == UnexpiredRecords(call[t].now)
  <2>1. R \subseteq records
    BY UnexpiredRecordsSubset
  <2>2. CASE (\E S : Replace(R, S)) /\ accounted \subseteq accounted'
    BY <1>1, <2>1, <2>2 DEF Shrinks
  <2>3. CASE WriteFails
    BY <2>3 DEF WriteFails, Shrinks
  <2>4. CASE /\ UnexpiredSeen(call[t].now)[call[t].msg] <= call[t].now
             /\ call[t].code # NoCode /\ ~IsDuplicate(call[t], R)
             /\ accounted' = accounted \cup {call[t].msg}
             /\ \E S : Replace(R \cup {NewRecord(call[t])}, S)
    BY <1>2, <2>4, NewestRecordsSubset DEF Records, RecordMessage, Replace
  <2> HIDE DEF R
  <2>5. QED BY <1>2, <2>2, <2>3, <2>4 DEF RecordMessage, R
<1>3. ASSUME NEW t \in Callers, Remove(t) PROVE Shrinks
  <2>1. {r \in UnexpiredRecords(call[t].now) : r.id # call[t].id} \in SUBSET records
    BY UnexpiredRecordsSubset
  <2>2. QED BY <1>1, <1>3, <2>1 DEF Remove, WriteFails, Shrinks
<1>4. ASSUME NEW t \in Callers, NEW b \in BOOLEAN, Clear(t, b) PROVE Shrinks \/ Forgets
  <2>1. CASE WriteFails
    BY <2>1 DEF WriteFails, Shrinks
  <2>2. CASE /\ \E S : Replace({}, S)
             /\ accounted' = IF b THEN {} ELSE accounted
    <3>1. records' = {}
      BY <2>2, NewestRecordsSubset DEF Replace
    <3>2. QED BY <2>2, <3>1 DEF Shrinks, Forgets
  <2>3. QED BY <1>4, <2>1, <2>2 DEF Clear
<1>5. ASSUME NEW t \in Threads, ListAndPrune(t) PROVE Shrinks
  <2>1. UnexpiredRecords(call[t].now) \in SUBSET records
    BY UnexpiredRecordsSubset
  <2>2. QED BY <1>1, <1>5, <2>1 DEF ListAndPrune, Shrinks
<1>6. CASE UNCHANGED <<records, accounted>>
  BY <1>6 DEF Shrinks
<1>7. QED
  BY <1>2, <1>3, <1>4, <1>5, <1>6
     DEF Next, Caller, Lister, Ingest, EnterRecordMessage, EnterRemove, Die, EnterList,
         Restart, ListFails, WriteFails, Tick, vars

(* The same code never shows twice within the dedupe window.               *)
THEOREM NoDuplicates == Spec => []NoDuplicateCodes
<1>1. Init => NoDuplicateCodes
  BY DEF Init, NoDuplicateCodes
<1>2. TypeOK /\ CallsFaithful /\ NoDuplicateCodes /\ [Next]_vars => NoDuplicateCodes'
  <2> SUFFICES ASSUME TypeOK, CallsFaithful, NoDuplicateCodes, [Next]_vars
               PROVE  NoDuplicateCodes'
    OBVIOUS
  <2>1. CASE records' \subseteq records
    BY <2>1 DEF NoDuplicateCodes
  <2>2. ASSUME NEW t \in Callers, Records(t) PROVE NoDuplicateCodes'
    <3> DEFINE c == call[t]
    <3>1. c.code = ContentOf[c.msg]
      BY <2>2 DEF Records, CallsFaithful, Faithful, Threads
    <3>2. c.received \in Int /\ NewRecord(c).received = c.received /\ NewRecord(c).msg = c.msg
      BY DEF NewRecord, TypeOK, Threads, Call
    <3>3. ASSUME NEW r \in UnexpiredRecords(c.now), ContentOf[r.msg] = ContentOf[c.msg]
          PROVE  /\ r.received \in Int
                 /\ \/ r.received - c.received > Window
                    \/ c.received - r.received > Window
      <4>1. r.received \in Int
        BY DEF TypeOK, Record, UnexpiredRecords
      <4>2. QED BY <2>2, <3>1, <3>2, <3>3, <4>1, LimitsAssumption DEF Records, IsDuplicate
    <3>4. records' \subseteq UnexpiredRecords(c.now) \cup {NewRecord(c)}
      BY <2>2 DEF Records
    <3>5. UnexpiredRecords(c.now) \subseteq records
      BY UnexpiredRecordsSubset
    <3> HIDE DEF c
    <3>6. QED BY <3>2, <3>3, <3>4, <3>5 DEF NoDuplicateCodes
  <2>3. records' \subseteq records \/ \E t \in Callers : Records(t)
    BY RecordsStep DEF Shrinks, Forgets
  <2>4. QED BY <2>1, <2>2, <2>3
<1>3. QED BY <1>1, <1>2, CallsInvariant, PTL DEF Spec

-----------------------------------------------------------------------------
(* The dedupe table is large enough when it can hold every message: _bound *)
(* then drops nothing from it.                                             *)
TableFits == IsFiniteSet(Messages) /\ Cardinality(Messages) <= MaxSeen

LEMMA TableKept ==
    ASSUME TableFits, NEW S, NEW T \in NewestSeen(S)
    PROVE  T = S
<1>1. Remembering(S) \in SUBSET Messages
  BY DEF Remembering
<1>2. Cardinality(Remembering(S)) <= Cardinality(Messages)
  BY <1>1, FS_Subset DEF TableFits
<1>3. Cardinality(Remembering(S)) \in Nat /\ Cardinality(Messages) \in Nat
  BY <1>1, FS_Subset, FS_CardinalityType DEF TableFits
<1>4. Cardinality(Remembering(S)) <= MaxSeen
  BY <1>2, <1>3, LimitsAssumption DEF TableFits
<1>5. QED BY <1>4 DEF NewestSeen

(* What a step can do to the entry of a message it still accounts for:     *)
(* remember it anew, keep it, or drop it once some thread's clock passed   *)
(* its expiry.                                                             *)
Remembers(t, m) == call[t].op = "record" /\ call[t].msg = m /\ seen'[m] = call[t].now + TTL
Keeps(m) == m \in accounted /\ seen'[m] = seen[m]
Drops(t, m) == m \in accounted /\ seen[m] <= call[t].now

LEMMA SeenStep ==
    ASSUME TypeOK, TableFits, [Next]_vars, NEW m \in accounted'
    PROVE  \/ \E t \in Callers : Remembers(t, m)
           \/ Keeps(m)
           \/ \E t \in Threads : Drops(t, m)
<1> USE LimitsAssumption
<1>1. ASSUME NEW R, NEW S, Replace(R, S) PROVE seen' = S
  BY <1>1, TableKept DEF Replace
<1>2. ASSUME NEW t \in Threads, m \in accounted, seen'[m] = UnexpiredSeen(call[t].now)[m]
      PROVE  Keeps(m) \/ Drops(t, m)
  <2>1. m \in Messages /\ seen[m] \in Nat /\ call[t].now \in Nat
    BY <1>2 DEF TypeOK, Call
  <2>2. QED BY <1>2, <2>1 DEF UnexpiredSeen, Keeps, Drops
<1>3. ASSUME NEW t \in Callers, RecordMessage(t)
      PROVE  Remembers(t, m) \/ Keeps(m) \/ Drops(t, m)
  <2> DEFINE c == call[t]
             S == UnexpiredSeen(c.now)
             marked == [S EXCEPT ![c.msg] = RememberUntil(c)]
  <2>0. t \in Threads /\ c.op = "record"
    BY <1>3 DEF Threads, RecordMessage
  <2>1. CASE seen' = S /\ UNCHANGED accounted
    BY <1>2, <2>0, <2>1
  <2>2. CASE seen' = marked /\ accounted' = accounted \cup {c.msg}
    <3>1. c.msg \in Messages /\ S \in [Messages -> Nat] /\ m \in Messages
      BY <2>0, <2>2, UnexpiredSeenType DEF TypeOK
    <3>2. CASE m = c.msg
      BY <2>0, <2>2, <3>1, <3>2 DEF Remembers, RememberUntil
    <3>3. CASE m # c.msg
      <4>1. m \in accounted /\ seen'[m] = S[m]
        BY <2>2, <3>1, <3>3
      <4>2. QED BY <1>2, <2>0, <4>1
    <3>4. QED BY <3>2, <3>3
  <2>3. CASE WriteFails
    BY <2>3 DEF WriteFails, Keeps
  <2> HIDE DEF S, marked
  <2>4. QED BY <1>1, <1>3, <2>1, <2>2, <2>3 DEF RecordMessage, S, marked
<1>4. ASSUME NEW t \in Callers, Remove(t) PROVE Keeps(m) \/ Drops(t, m)
  <2>1. t \in Threads
    BY DEF Threads
  <2>2. CASE WriteFails
    BY <2>2 DEF WriteFails, Keeps
  <2>3. CASE UNCHANGED accounted /\ seen' = UnexpiredSeen(call[t].now)
    BY <1>2, <2>1, <2>3
  <2>4. QED BY <1>1, <1>4, <2>2, <2>3 DEF Remove
<1>5. ASSUME NEW t \in Callers, NEW b \in BOOLEAN, Clear(t, b) PROVE Keeps(m)
  BY <1>1, <1>5 DEF Clear, SeenAfterClear, WriteFails, Keeps
<1>6. ASSUME NEW t \in Threads, ListAndPrune(t) PROVE Keeps(m) \/ Drops(t, m)
  <2>1. CASE UNCHANGED seen
    BY <1>6, <2>1 DEF ListAndPrune, Keeps
  <2>2. CASE seen' = UnexpiredSeen(call[t].now)
    BY <1>2, <1>6, <2>2 DEF ListAndPrune
  <2>3. QED BY <1>1, <1>6, <2>1, <2>2 DEF ListAndPrune
<1>7. CASE UNCHANGED <<seen, accounted>>
  BY <1>7 DEF Keeps
<1>8. QED
  BY <1>3, <1>4, <1>5, <1>6, <1>7
     DEF Next, Caller, Lister, Threads, Ingest, EnterRecordMessage, EnterRemove, Die,
         EnterList, ListFails, WriteFails, Restart, Tick, vars

LEMMA ClockStep == [Next]_vars => clock' \in {clock, clock + 1}
<1> SUFFICES ASSUME [Next]_vars PROVE clock' \in {clock, clock + 1}
  OBVIOUS
<1>1. ASSUME NEW t \in Callers, Caller(t) PROVE clock' = clock
  <2>1. CASE EnterRecordMessage(t) \/ RecordMessage(t) \/ Remove(t)
    BY <2>1 DEF EnterRecordMessage, RecordMessage, Remove
  <2>2. CASE \E m \in Messages : Ingest(t, m)
    BY <2>2 DEF Ingest
  <2>3. CASE \E r \in records : EnterRemove(t, r)
    BY <2>3 DEF EnterRemove
  <2>4. CASE \E b \in BOOLEAN : Clear(t, b)
    BY <2>4 DEF Clear
  <2>5. QED BY <1>1, <2>1, <2>2, <2>3, <2>4 DEF Caller
<1>2. ASSUME NEW t \in Threads, Lister(t) PROVE clock' = clock
  BY <1>2 DEF Lister, EnterList, ListAndPrune, ListFails, Die
<1>3. CASE Restart \/ Tick
  BY <1>3 DEF Restart, Tick
<1>4. CASE UNCHANGED vars
  BY <1>4 DEF vars
<1>5. QED BY <1>1, <1>2, <1>3, <1>4 DEF Next

(* A message is remembered for as long as its code could be live, provided *)
(* the senders' clocks are not ahead of the host's and the table fits.     *)
(* The run RuntimeStorePhoneAhead shows that the first is needed.          *)
THEOREM Remembered ==
    ASSUME PhoneAhead = 0, TableFits
    PROVE  Spec => []RememberedWhileFresh
<1>1. Init => RememberedWhileFresh
  BY DEF Init, RememberedWhileFresh
<1>2. TypeOK /\ CallsFaithful /\ RememberedWhileFresh /\ TypeOK' /\ [Next]_vars
        => RememberedWhileFresh'
  <2> SUFFICES ASSUME TypeOK, CallsFaithful, RememberedWhileFresh, TypeOK', [Next]_vars,
                      NEW m \in accounted'
               PROVE  seen'[m] >= StampOf[m] + TTL \/ clock' >= StampOf[m] + TTL
    BY DEF RememberedWhileFresh
  <2>1. /\ m \in Messages /\ StampOf[m] \in Int /\ seen[m] \in Nat /\ seen'[m] \in Nat
        /\ clock \in Nat /\ clock' \in Nat /\ TTL \in Nat
    BY MessagesAssumption, LimitsAssumption DEF TypeOK
  <2>2. clock' >= clock
    BY <2>1, ClockStep
  <2>3. ASSUME NEW t \in Callers, Remembers(t, m) PROVE seen'[m] >= StampOf[m] + TTL
    <3>1. t \in Threads /\ call[t].now \in Nat
      BY DEF Threads, TypeOK, Call
    <3>2. StampOf[m] <= call[t].now
      BY <2>3, <3>1 DEF Remembers, CallsFaithful, Faithful
    <3>3. QED BY <2>1, <2>3, <3>1, <3>2 DEF Remembers
  <2>4. CASE Keeps(m)
    BY <2>1, <2>2, <2>4 DEF Keeps, RememberedWhileFresh
  <2>5. ASSUME NEW t \in Threads, Drops(t, m) PROVE clock' >= StampOf[m] + TTL
    <3>1. call[t].now \in Nat /\ call[t].now <= clock
      BY DEF TypeOK, Call, CallsFaithful, Faithful
    <3>2. seen[m] >= StampOf[m] + TTL \/ clock >= StampOf[m] + TTL
      BY <2>5 DEF Drops, RememberedWhileFresh
    <3>3. QED BY <2>1, <2>2, <2>5, <3>1, <3>2 DEF Drops
  <2>6. QED BY <2>3, <2>4, <2>5, SeenStep
<1>3. QED BY <1>1, <1>2, CallsInvariant, PTL DEF Spec

-----------------------------------------------------------------------------
(* The store implements CodeVault.  Besides what is remembered, this needs *)
(* that a record's message was accounted for and stamped when the record   *)
(* says it was received.                                                   *)
RecordsFaithful ==
    \A r \in records :
        /\ r.msg \in accounted
        /\ PhoneAhead = 0 => r.received = StampOf[r.msg]

LEMMA RecordsFaithfulStep ==
    TypeOK /\ CallsFaithful /\ RecordsFaithful /\ [Next]_vars => RecordsFaithful'
<1> SUFFICES ASSUME TypeOK, CallsFaithful, RecordsFaithful, [Next]_vars
             PROVE  RecordsFaithful'
  OBVIOUS
<1>1. CASE Shrinks \/ Forgets
  BY <1>1 DEF Shrinks, Forgets, RecordsFaithful
<1>2. ASSUME NEW t \in Callers, Records(t) PROVE RecordsFaithful'
  <2>1. /\ records' \subseteq records \cup {NewRecord(call[t])}
        /\ accounted' = accounted \cup {call[t].msg}
    BY <1>2, UnexpiredRecordsSubset DEF Records
  <2>2. /\ NewRecord(call[t]).msg = call[t].msg
        /\ PhoneAhead = 0 => NewRecord(call[t]).received = StampOf[call[t].msg]
    BY <1>2 DEF NewRecord, Records, CallsFaithful, Faithful, Threads
  <2>3. QED BY <2>1, <2>2 DEF RecordsFaithful
<1>3. QED BY <1>1, <1>2, RecordsStep

(* The messages that are Live                                              *)
Selectable == {m \in Messages : \E r \in records : r.msg = m /\ Expires(r) > clock}

(* What is selectable after a step, by a record that was there before, was *)
(* selectable before.                                                      *)
LEMMA LiveBefore ==
    ASSUME TypeOK, [Next]_vars, NEW m \in Messages, NEW r \in records',
           r.msg = m, Expires(r) > clock', r \in records
    PROVE  m \in Selectable
<1>1. r.received \in Int /\ clock \in Nat /\ clock' \in {clock, clock + 1}
  BY ClockStep DEF TypeOK, Record
<1>2. Expires(r) > clock
  BY <1>1, LimitsAssumption DEF Expires
<1>3. QED BY <1>2 DEF Selectable

(* Where nothing becomes selectable, some messages are settled.            *)
LEMMA SettleStep ==
    ASSUME TypeOK, RecordsFaithful, accounted \subseteq accounted',
           Selectable' \subseteq Selectable
    PROVE  \E settled \in SUBSET Messages : Vault!Settle(settled)
<1>0. PICK settled \in SUBSET Messages :
        settled = {m \in Messages : m \notin Selectable' /\ m \in accounted'}
  OBVIOUS
<1>1. \A m \in Selectable : m \in accounted
  BY DEF Selectable, RecordsFaithful
<1>2. \A m \in Messages :
         IF m \in settled THEN m \notin Selectable' /\ m \in accounted'
         ELSE /\ m \in Selectable' <=> m \in Selectable
              /\ m \in accounted' <=> m \in accounted
  BY <1>0, <1>1
<1>3. Vault!Settle(settled)
  BY <1>2 DEF Vault!Settle, Selectable, Live
<1>4. QED BY <1>3

(* A message whose code becomes selectable was never dealt with: had it    *)
(* been, the table would still remember it.                                *)
LEMMA RecordedAnew ==
    ASSUME PhoneAhead = 0, TypeOK, CallsFaithful, RememberedWhileFresh, [Next]_vars,
           NEW t \in Callers, Records(t), Expires(NewRecord(call[t])) > clock'
    PROVE  call[t].msg \in Messages /\ call[t].msg \notin accounted
<1> DEFINE c == call[t]
           m == c.msg
<1>1. c.op = "record" /\ t \in Threads
  BY DEF Records, Threads
<1>2. m \in Messages /\ c \in Call /\ Faithful(c, clock)
  BY <1>1 DEF CallsFaithful, TypeOK
<1>3. /\ StampOf[m] \in Int /\ c.received = StampOf[m]
      /\ c.now \in Nat /\ c.now <= clock /\ clock \in Nat
      /\ clock' \in {clock, clock + 1} /\ seen[m] \in Nat
  BY <1>1, <1>2, ClockStep, MessagesAssumption DEF Faithful, Call, TypeOK
<1>4. seen[m] <= c.now
  BY <1>2, <1>3 DEF Records, UnexpiredSeen
<1>5. StampOf[m] + TTL > clock
  BY <1>3, LimitsAssumption DEF Expires, NewRecord
<1>6. QED BY <1>2, <1>3, <1>4, <1>5, LimitsAssumption DEF RememberedWhileFresh

(* A code that becomes selectable is an offer of CodeVault: no code that   *)
(* stays selectable is the same text.                                      *)
LEMMA OfferStep ==
    ASSUME PhoneAhead = 0, TypeOK, CallsFaithful, RecordsFaithful, RememberedWhileFresh,
           [Next]_vars, NEW t \in Callers, Records(t),
           NewRecord(call[t]) \in records', Expires(NewRecord(call[t])) > clock'
    PROVE  \E m \in Messages, evicted \in SUBSET Messages : Vault!Offer(m, evicted)
<1> DEFINE c == call[t]
<1>0. c.msg \in Messages
  BY DEF Records, TypeOK, Threads
<1>m. PICK m \in Messages : m = c.msg
  BY <1>0
<1>e. PICK evicted \in SUBSET Messages : evicted = {n \in Selectable : n \notin Selectable'}
  BY DEF Selectable
<1>1. /\ StampOf[m] \in Int /\ c.received = StampOf[m]
      /\ c.code = ContentOf[m] /\ c.now \in Nat /\ c.now <= clock /\ clock \in Nat
      /\ clock' \in {clock, clock + 1} /\ seen[m] \in Nat
  <2>1. c.op = "record" /\ c.code # NoCode /\ t \in Threads
    BY DEF Records, Threads
  <2>2. Faithful(c, clock) /\ c \in Call
    BY <2>1 DEF CallsFaithful, TypeOK
  <2>3. QED BY <1>m, <2>1, <2>2, ClockStep, MessagesAssumption DEF Faithful, Call, TypeOK
<1>2. NewRecord(c).msg = m /\ NewRecord(c).received = StampOf[m]
  BY <1>1, <1>m DEF NewRecord
<1>3. m \in Selectable'
  BY <1>1, <1>2 DEF Selectable
<1>4. m \notin accounted
  BY <1>m, RecordedAnew
<1>5. \A n \in Selectable : n \in accounted
  BY DEF Selectable, RecordsFaithful
<1>6. ASSUME NEW n \in Selectable', n # m
      PROVE  n \in Selectable /\ ~Vault!SameText(m, n)
  <2>0. n \in Messages
    BY DEF Selectable
  <2>1. PICK r \in records' : r.msg = n /\ Expires(r) > clock'
    BY DEF Selectable
  <2>2. r \in UnexpiredRecords(c.now) /\ r \in records
    BY <1>2, <1>6, <2>1, UnexpiredRecordsSubset DEF Records
  <2>3. n \in Selectable
    BY <2>0, <2>1, <2>2, LiveBefore
  <2>4. r.received = StampOf[n] /\ StampOf[n] \in Int
    BY <2>0, <2>1, <2>2, MessagesAssumption DEF RecordsFaithful
  <2>5. \/ ContentOf[n] # ContentOf[m]
        \/ ~(StampOf[n] - StampOf[m] <= Window)
        \/ ~(StampOf[m] - StampOf[n] <= Window)
    BY <1>1, <2>1, <2>2, <2>4 DEF Records, IsDuplicate
  <2>6. QED BY <2>3, <2>5 DEF Vault!SameText
<1>7. accounted' = accounted \cup {m}
  BY <1>m DEF Records
<1> HIDE DEF c
<1>8. Vault!Offer(m, evicted)
  <2>1. Vault!Unseen(m)
    BY <1>1, <1>4, <1>5 DEF Vault!Unseen, Selectable, Live
  <2>2. \A n \in evicted : Vault!Offered(n)
    BY <1>e DEF Vault!Offered, Selectable, Live
  <2>3. \A n \in Messages \ evicted : Vault!Offered(n) => ~Vault!SameText(m, n)
    <3>1. ASSUME NEW n \in Messages \ evicted, Vault!Offered(n) PROVE n \in Selectable
      BY <3>1 DEF Vault!Offered, Selectable, Live
    <3>2. m \notin Selectable
      BY <1>4, <1>5
    <3>3. QED BY <1>6, <1>e, <3>1, <3>2
  <2>4. \A n \in Messages :
           IF n = m THEN n \in Selectable'
           ELSE IF n \in evicted THEN n \notin Selectable' /\ n \in accounted'
           ELSE /\ n \in Selectable' <=> n \in Selectable
                /\ n \in accounted' <=> n \in accounted
    BY <1>3, <1>5, <1>6, <1>7, <1>e
  <2>5. QED BY <1>1, <2>1, <2>2, <2>3, <2>4 DEF Vault!Offer, Selectable, Live
<1>9. QED BY <1>8

(* Every step of the store, or none, is a step of CodeVault.               *)
LEMMA VaultStep ==
    ASSUME PhoneAhead = 0, TypeOK, CallsFaithful, RecordsFaithful, RememberedWhileFresh,
           [Next]_vars
    PROVE  Vault!Next
<1>1. CASE Shrinks
  <2>1. Selectable' \subseteq Selectable
    BY <1>1, LiveBefore DEF Shrinks, Selectable
  <2>2. QED BY <1>1, <2>1, SettleStep DEF Shrinks, Vault!Next
<1>2. CASE Forgets
  BY <1>2 DEF Forgets, Live, Vault!Next, Vault!Forget
<1>3. ASSUME NEW t \in Callers, Records(t) PROVE Vault!Next
  <2> DEFINE new == NewRecord(call[t])
  <2>1. CASE new \in records' /\ Expires(new) > clock'
    BY <1>3, <2>1, OfferStep DEF Vault!Next
  <2>2. CASE ~(new \in records' /\ Expires(new) > clock')
    <3>1. records' \subseteq records \cup {new} /\ accounted \subseteq accounted'
      BY <1>3, UnexpiredRecordsSubset DEF Records
    <3> HIDE DEF new
    <3>2. Selectable' \subseteq Selectable
      BY <2>2, <3>1, LiveBefore DEF Selectable
    <3>3. QED BY <3>1, <3>2, SettleStep DEF Vault!Next
  <2>3. QED BY <2>1, <2>2
<1>4. QED BY <1>1, <1>2, <1>3, RecordsStep

(* The store keeps what CodeVault promises: every message is offered once  *)
(* at most, and never two that are the same text, provided the senders'    *)
(* clocks are not ahead and the dedupe table has room (store.py:531-595).  *)
THEOREM ImplementsVault ==
    ASSUME PhoneAhead = 0, TableFits
    PROVE  Spec => VaultSpec
<1>1. Init => Vault!Init /\ RecordsFaithful
  BY DEF Init, Vault!Init, Live, RecordsFaithful
<1>2. TypeOK /\ CallsFaithful /\ RecordsFaithful /\ RememberedWhileFresh /\ [Next]_vars
        => Vault!Next
  BY VaultStep
<1>3. Spec => []RecordsFaithful
  BY <1>1, RecordsFaithfulStep, CallsInvariant, PTL DEF Spec
<1>4. Spec => []RememberedWhileFresh
  BY Remembered
<1>5. QED BY <1>1, <1>2, <1>3, <1>4, CallsInvariant, PTL DEF Spec, VaultSpec, Vault!Spec

(* A message that was dealt with never becomes selectable again, provided  *)
(* the senders' clocks are not ahead and the dedupe table has room.  The   *)
(* run RuntimeStorePhoneAhead shows that the first is needed               *)
(* (tests/test_store.py:179, README.md:559).                               *)
THEOREM NeverReappears ==
    ASSUME PhoneAhead = 0, TableFits
    PROVE  Spec => NoReappearance
<1>1. TypeOK /\ CallsFaithful /\ RememberedWhileFresh /\ [Next]_vars =>
        \A m \in accounted \cap accounted' : ~Live(m) => ~Live(m)'
  <2> SUFFICES ASSUME TypeOK, CallsFaithful, RememberedWhileFresh, [Next]_vars,
                      NEW m \in accounted, Live(m)'
               PROVE  Live(m)
    OBVIOUS
  <2>0. m \in Messages
    BY DEF TypeOK
  <2>1. PICK r \in records' : r.msg = m /\ Expires(r) > clock'
    BY DEF Live
  <2>2. ASSUME NEW t \in Callers, Records(t), r = NewRecord(call[t]) PROVE FALSE
    BY <2>1, <2>2, RecordedAnew DEF NewRecord
  <2>3. r \in records
    BY <2>2, RecordsStep, UnexpiredRecordsSubset DEF Shrinks, Forgets, Records
  <2>4. QED BY <2>0, <2>1, <2>3, LiveBefore DEF Selectable, Live
<1>2. Spec => []RememberedWhileFresh
  BY Remembered
<1>3. QED BY <1>1, <1>2, CallsInvariant, PTL DEF Spec, NoReappearance

-----------------------------------------------------------------------------
(* What _bound keeps of a finite set of records whose ids are distinct.    *)
Listed(R) ==
    /\ R \subseteq Record
    /\ IsFiniteSet(R)
    /\ \A r, s \in R : r.id = s.id => r = s

Above(R, r) == {s \in R : Newer(s, r)}

(* Newer orders such a set from end to end, so a newer record has fewer    *)
(* records above it.                                                       *)
LEMMA AboveGrows ==
    ASSUME NEW R, Listed(R), NEW r \in R, NEW s \in R, Newer(s, r)
    PROVE  /\ Above(R, s) \subseteq Above(R, r)
           /\ Above(R, s) # Above(R, r)
           /\ Cardinality(Above(R, s)) < Cardinality(Above(R, r))
<1>1. \A x \in R : x.received \in Int /\ x.id \in Nat
  BY DEF Listed, Record
<1>2. Above(R, s) \subseteq Above(R, r)
  BY <1>1 DEF Above, Newer
<1>3. s \in Above(R, r) /\ s \notin Above(R, s)
  BY <1>1 DEF Above, Newer
<1>4. Above(R, r) \in SUBSET R
  BY DEF Above
<1>5. IsFiniteSet(Above(R, r))
  BY <1>4, FS_Subset DEF Listed
<1>6. Above(R, s) \in SUBSET Above(R, r) /\ Above(R, s) # Above(R, r)
  BY <1>2, <1>3
<1>7. /\ Cardinality(Above(R, s)) <= Cardinality(Above(R, r))
      /\ Cardinality(Above(R, s)) # Cardinality(Above(R, r))
  BY <1>5, <1>6, FS_Subset
<1>8. Cardinality(Above(R, s)) \in Nat /\ Cardinality(Above(R, r)) \in Nat
  BY <1>5, <1>6, FS_Subset, FS_CardinalityType
<1>9. QED BY <1>6, <1>7, <1>8

LEMMA NewerTotal ==
    ASSUME NEW R, Listed(R), NEW r \in R, NEW s \in R, r # s
    PROVE  Newer(r, s) \/ Newer(s, r)
<1>1. /\ r.received \in Int /\ s.received \in Int
      /\ r.id \in Nat /\ s.id \in Nat /\ r.id # s.id
  BY DEF Listed, Record
<1>2. QED BY <1>1 DEF Newer

LEMMA AboveCount ==
    ASSUME NEW R, Listed(R), NEW r \in R
    PROVE  Cardinality(Above(R, r)) \in Nat /\ Above(R, r) \in FiniteSubsetsOf(R)
<1>1. Above(R, r) \in SUBSET R
  BY DEF Above
<1>2. IsFiniteSet(Above(R, r))
  BY <1>1, FS_Subset DEF Listed
<1>3. QED BY <1>1, <1>2, FS_CardinalityType DEF FiniteSubsetsOf

LEMMA KeptByCount ==
    ASSUME NEW R
    PROVE  NewestRecords(R) = {r \in R : Cardinality(Above(R, r)) < MaxRecords}
BY DEF NewestRecords, Above

(* Every record it keeps is newer than every record it drops.              *)
LEMMA KeptAreNewer ==
    ASSUME NEW R, Listed(R), NEW r \in R \ NewestRecords(R), NEW s \in NewestRecords(R)
    PROVE  Newer(s, r)
<1>1. r \in R /\ s \in R /\ r # s
  BY NewestRecordsSubset
<1>2. Cardinality(Above(R, r)) >= MaxRecords /\ Cardinality(Above(R, s)) < MaxRecords
  BY <1>1, KeptByCount, AboveCount, LimitsAssumption
<1>3. CASE Newer(r, s)
  <2>1. Cardinality(Above(R, r)) < Cardinality(Above(R, s))
    BY <1>1, <1>3, AboveGrows
  <2>2. QED BY <1>1, <1>2, <2>1, AboveCount, LimitsAssumption
<1>4. QED BY <1>1, <1>3, NewerTotal

(* It keeps MaxRecords at most: their ranks are distinct and below that.   *)
LEMMA KeptAtMost ==
    ASSUME NEW R, Listed(R)
    PROVE  IsFiniteSet(NewestRecords(R)) /\ Cardinality(NewestRecords(R)) <= MaxRecords
<1> DEFINE N == NewestRecords(R)
           rank == [r \in N |-> Cardinality(Above(R, r))]
           ranks == 0 .. (MaxRecords - 1)
<1>1. \A r \in N : r \in R /\ Cardinality(Above(R, r)) \in ranks
  BY KeptByCount, NewestRecordsSubset, AboveCount, LimitsAssumption
<1>2. ASSUME NEW r \in N, NEW s \in N, rank[r] = rank[s] PROVE r = s
  <2>1. SUFFICES ASSUME r # s PROVE FALSE
    OBVIOUS
  <2>2. Newer(r, s) \/ Newer(s, r)
    BY <1>1, <2>1, NewerTotal
  <2>3. rank[r] < rank[s] \/ rank[s] < rank[r]
    BY <1>1, <2>2, AboveGrows
  <2>4. QED BY <1>1, <1>2, <2>3, LimitsAssumption
<1>3. rank \in Injection(N, ranks)
  BY <1>1, <1>2 DEF Injection, IsInjective
<1>4. IsFiniteSet(ranks) /\ Cardinality(ranks) = MaxRecords
  BY FS_Interval, LimitsAssumption
<1>5. QED BY <1>3, <1>4, FS_Injection

(* It drops a record only when it keeps MaxRecords: those above the newest *)
(* dropped one, at least MaxRecords, are all kept.                         *)
LEMMA FullWhenDropping ==
    ASSUME NEW R, Listed(R), NewestRecords(R) # R
    PROVE  Cardinality(NewestRecords(R)) = MaxRecords
<1> DEFINE N == NewestRecords(R)
           above == {Above(R, r) : r \in R \ N}
<1>1. N \subseteq R /\ above # {}
  BY NewestRecordsSubset
<1>2. above \subseteq FiniteSubsetsOf(R)
  BY AboveCount
<1>3. \E A \in above : \A B \in above : ~(<<B, A>> \in StrictSubsetOrdering(R))
  <2> HIDE DEF above
  <2>1. IsWellFoundedOn(StrictSubsetOrdering(R), FiniteSubsetsOf(R))
    BY FS_StrictSubsetOrderingWellFounded
  <2>2. QED BY <1>1, <1>2, <2>1, WFMin
<1>4. PICK d \in R \ N :
         \A r \in R \ N : ~(<<Above(R, r), Above(R, d)>> \in StrictSubsetOrdering(R))
  BY <1>3
<1>5. ASSUME NEW s \in Above(R, d) PROVE s \in N
  <2>1. s \in R /\ Newer(s, d)
    BY <1>5 DEF Above
  <2>2. Above(R, s) \subseteq Above(R, d) /\ Above(R, s) # Above(R, d)
    BY <2>1, AboveGrows
  <2>3. Above(R, s) \in SUBSET R /\ Above(R, d) \in SUBSET R
    BY DEF Above
  <2>4. <<Above(R, s), Above(R, d)>> \in StrictSubsetOrdering(R)
    BY <2>2, <2>3 DEF StrictSubsetOrdering
  <2>5. QED BY <1>4, <2>1, <2>4
<1>6. IsFiniteSet(N) /\ Cardinality(N) <= MaxRecords /\ Cardinality(N) \in Nat
  BY KeptAtMost, FS_CardinalityType
<1>7. Cardinality(Above(R, d)) <= Cardinality(N)
  <2>1. Above(R, d) \in SUBSET N
    BY <1>5
  <2>2. QED BY <1>6, <2>1, FS_Subset
<1>8. Cardinality(Above(R, d)) >= MaxRecords /\ Cardinality(Above(R, d)) \in Nat
  BY KeptByCount, AboveCount, LimitsAssumption
<1>9. QED BY <1>6, <1>7, <1>8, LimitsAssumption

(* So a transaction that works with the records R loses one of them only   *)
(* to MaxRecords that were received no earlier.                            *)
PushedOut(r) ==
    /\ Cardinality(records') = MaxRecords
    /\ \A s \in records' : s.received >= r.received

LEMMA DroppedByBound ==
    ASSUME NEW R, NEW S, Listed(R), Replace(R, S), NEW r \in R, r \notin records'
    PROVE  PushedOut(r)
<1>1. records' = NewestRecords(R) /\ r \in R \ NewestRecords(R)
  BY DEF Replace
<1>2. Cardinality(records') = MaxRecords
  BY <1>1, FullWhenDropping
<1>3. ASSUME NEW s \in records' PROVE s.received >= r.received
  <2>1. Newer(s, r) /\ s \in R
    BY <1>1, KeptAreNewer, NewestRecordsSubset
  <2>2. s.received \in Int /\ r.received \in Int
    BY <2>1 DEF Listed, Record
  <2>3. QED BY <2>1, <2>2 DEF Newer
<1>4. QED BY <1>2, <1>3 DEF PushedOut

(* The file never holds infinitely many records: a step adds one at most.  *)
LEMMA ListedInvariant == Spec => []Listed(records)
<1>1. Init => IsFiniteSet(records)
  BY FS_EmptySet DEF Init
<1>2. IsFiniteSet(records) /\ [Next]_vars => IsFiniteSet(records)'
  <2> SUFFICES ASSUME IsFiniteSet(records), [Next]_vars PROVE IsFiniteSet(records')
    OBVIOUS
  <2>1. CASE Shrinks
    BY <2>1, FS_Subset DEF Shrinks
  <2>2. CASE Forgets
    BY <2>2, FS_EmptySet DEF Forgets
  <2>3. ASSUME NEW t \in Callers, Records(t) PROVE IsFiniteSet(records')
    <3>1. records' \in SUBSET (records \cup {NewRecord(call[t])})
      BY <2>3, UnexpiredRecordsSubset DEF Records
    <3>2. IsFiniteSet(records \cup {NewRecord(call[t])})
      BY FS_AddElement
    <3>3. QED BY <3>1, <3>2, FS_Subset
  <2>4. QED BY <2>1, <2>2, <2>3, RecordsStep
<1>3. TypeOK /\ IsFiniteSet(records) => Listed(records)
  BY DEF TypeOK, Listed
<1>4. QED BY <1>1, <1>2, <1>3, TypeCorrect, PTL DEF Spec

LEMMA ListedSubset ==
    ASSUME Listed(records), NEW R \in SUBSET records
    PROVE  Listed(R)
BY FS_Subset DEF Listed

(* A record that is live now is live at the clock of any waiting call.     *)
LEMMA LiveIsUnexpired ==
    ASSUME TypeOK, CallsFaithful, NEW t \in Threads, NEW r \in records, Expires(r) > clock
    PROVE  r \in UnexpiredRecords(call[t].now)
<1>1. call[t].now \in Nat /\ call[t].now <= clock /\ clock \in Nat /\ r.received \in Int
  BY DEF TypeOK, Call, CallsFaithful, Faithful, Record
<1>2. QED BY <1>1, LimitsAssumption DEF Expires, UnexpiredRecords

(* What becomes of a live record that a step takes away.                   *)
LEMMA LiveKeptStep ==
    ASSUME TypeOK, CallsFaithful, Listed(records), [Next]_vars,
           NEW r \in records \ records', Expires(r) > clock
    PROVE  \/ \E t \in Callers : Remove(t) /\ call[t].id = r.id
           \/ \E t \in Callers, b \in BOOLEAN : Clear(t, b)
           \/ PushedOut(r)
<1>1. ASSUME NEW t \in Callers, RecordMessage(t) PROVE PushedOut(r)
  <2> DEFINE c == call[t]
             R == UnexpiredRecords(c.now)
  <2>1. t \in Threads /\ R \in SUBSET records
    BY UnexpiredRecordsSubset DEF Threads
  <2>2. Listed(R) /\ r \in R
    BY <2>1, ListedSubset, LiveIsUnexpired
  <2>3. CASE \E S : Replace(R, S)
    BY <2>2, <2>3, DroppedByBound
  <2>4. CASE c.op = "record" /\ \E S : Replace(R \cup {NewRecord(c)}, S)
    <3>1. NewRecord(c) \in Record /\ NewRecord(c).id = nextId
      BY <2>1, <2>4 DEF NewRecord, Record, TypeOK, Call
    <3>2. \A s \in R : s.id # NewRecord(c).id
      BY <2>1, <3>1 DEF TypeOK, Record
    <3>3. IsFiniteSet(R \cup {NewRecord(c)})
      BY <2>2, FS_AddElement DEF Listed
    <3>4. Listed(R \cup {NewRecord(c)})
      BY <2>2, <3>1, <3>2, <3>3 DEF Listed
    <3>5. QED BY <2>2, <2>4, <3>4, DroppedByBound
  <2>5. CASE WriteFails
    BY <2>5 DEF WriteFails
  <2> HIDE DEF R
  <2>6. QED BY <1>1, <2>3, <2>4, <2>5 DEF RecordMessage, R
<1>2. ASSUME NEW t \in Callers, Remove(t), call[t].id # r.id PROVE PushedOut(r)
  <2> DEFINE R == {s \in UnexpiredRecords(call[t].now) : s.id # call[t].id}
  <2>1. t \in Threads /\ R \in SUBSET records
    BY UnexpiredRecordsSubset DEF Threads
  <2>2. Listed(R) /\ r \in R
    BY <1>2, <2>1, ListedSubset, LiveIsUnexpired
  <2>3. \E S : Replace(R, S)
    BY <1>2 DEF Remove, WriteFails
  <2>4. QED BY <2>2, <2>3, DroppedByBound
<1>3. ASSUME NEW t \in Threads, ListAndPrune(t) PROVE PushedOut(r)
  <2> DEFINE R == UnexpiredRecords(call[t].now)
  <2>1. R \in SUBSET records
    BY UnexpiredRecordsSubset
  <2>2. Listed(R) /\ r \in R
    BY <2>1, ListedSubset, LiveIsUnexpired
  <2>3. \E S : Replace(R, S)
    BY <1>3 DEF ListAndPrune
  <2>4. QED BY <2>2, <2>3, DroppedByBound
<1>4. QED
  BY <1>1, <1>2, <1>3
     DEF Next, Caller, Lister, Ingest, EnterRecordMessage, EnterRemove, Die, EnterList,
         Restart, ListFails, WriteFails, Tick, vars

(* A live code is lost only when it is removed or cleared, or to newer     *)
(* ones that fill the store, whatever old clocks the transactions work     *)
(* with and however they interleave, fail and die (store.py:324-331,       *)
(* 515-518, 612-653).                                                      *)
THEOREM LiveKept == Spec => LiveCodesKept
<1>1. TypeOK /\ CallsFaithful /\ Listed(records) /\ [Next]_vars =>
        \A r \in records \ records' :
           Expires(r) > clock =>
              \/ \E t \in Callers : Remove(t) /\ call[t].id = r.id
              \/ \E t \in Callers, b \in BOOLEAN : Clear(t, b)
              \/ PushedOut(r)
  BY LiveKeptStep
<1>2. QED BY <1>1, CallsInvariant, ListedInvariant, PTL DEF Spec, LiveCodesKept, PushedOut

-----------------------------------------------------------------------------
(* What _bound keeps of the dedupe table.                                  *)
Outlasted(m) ==
    /\ Cardinality(Remembering(seen')) = MaxSeen
    /\ \A n \in Remembering(seen') : seen'[n] >= seen[m]

LEMMA ForgottenByBound ==
    ASSUME NEW R, NEW S \in [Messages -> Nat], Replace(R, S), NEW m \in Messages,
           seen[m] > 0, S[m] = seen[m], seen'[m] # S[m]
    PROVE  Outlasted(m)
<1>1. ~(Cardinality(Remembering(S)) <= MaxSeen)
  BY DEF Replace, NewestSeen
<1>2. PICK K \in SUBSET Remembering(S) :
        /\ Cardinality(K) = MaxSeen
        /\ \A k \in K, n \in Remembering(S) \ K : S[k] >= S[n]
        /\ seen' = [n \in Messages |-> IF n \in K THEN S[n] ELSE 0]
  BY <1>1 DEF Replace, NewestSeen
<1>3. K \subseteq Messages /\ \A k \in K : S[k] > 0
  BY DEF Remembering
<1>4. Remembering(seen') = K
  BY <1>2, <1>3 DEF Remembering
<1>5. m \in Remembering(S) \ K
  BY <1>2 DEF Remembering
<1>6. \A n \in K : seen'[n] >= seen[m]
  BY <1>2, <1>3, <1>5
<1>7. QED BY <1>2, <1>4, <1>6 DEF Outlasted

(* An entry that has not expired now has not expired at the clock of any   *)
(* waiting call, and is not the one such a call may overwrite.             *)
LEMMA FreshIsUnexpired ==
    ASSUME TypeOK, CallsFaithful, NEW t \in Threads, NEW m \in Messages, seen[m] > clock
    PROVE  UnexpiredSeen(call[t].now)[m] = seen[m] /\ seen[m] > call[t].now /\ seen[m] > 0
<1>1. call[t].now \in Nat /\ call[t].now <= clock /\ clock \in Nat /\ seen[m] \in Nat
  BY DEF TypeOK, Call, CallsFaithful, Faithful
<1>2. QED BY <1>1 DEF UnexpiredSeen

LEMMA EntryKeptStep ==
    ASSUME TypeOK, CallsFaithful, [Next]_vars, NEW m \in Messages,
           seen[m] > clock, seen'[m] # seen[m]
    PROVE  (\E t \in Callers : Clear(t, TRUE)) \/ Outlasted(m)
<1>1. ASSUME NEW t \in Callers, RecordMessage(t) PROVE Outlasted(m)
  <2> DEFINE c == call[t]
             S == UnexpiredSeen(c.now)
             marked == [S EXCEPT ![c.msg] = RememberUntil(c)]
  <2>1. t \in Threads /\ c.op = "record" /\ c.msg \in Messages /\ c.now \in Nat
    BY <1>1 DEF Threads, RecordMessage, TypeOK, Call
  <2>2. S \in [Messages -> Nat] /\ marked \in [Messages -> Nat]
    BY <2>1, UnexpiredSeenType, LimitsAssumption DEF RememberUntil
  <2>3. S[m] = seen[m] /\ S[m] > c.now /\ seen[m] > 0
    BY <2>1, FreshIsUnexpired
  <2>4. CASE \E R : Replace(R, S)
    BY <2>2, <2>3, <2>4, ForgottenByBound
  <2>5. CASE S[c.msg] <= c.now /\ \E R : Replace(R, marked)
    <3>1. S[m] \in Nat /\ S[c.msg] \in Nat
      BY <2>1, <2>2
    <3>2. m # c.msg
      BY <2>1, <2>3, <2>5, <3>1
    <3>3. marked[m] = seen[m]
      BY <2>2, <2>3, <3>2
    <3> HIDE DEF S, marked
    <3>4. QED BY <2>2, <2>3, <2>5, <3>3, ForgottenByBound
  <2>6. CASE WriteFails
    BY <2>6 DEF WriteFails
  <2> HIDE DEF S, marked
  <2>7. QED BY <1>1, <2>4, <2>5, <2>6 DEF RecordMessage, S, marked
<1>2. ASSUME NEW t \in Threads, NEW R, Replace(R, UnexpiredSeen(call[t].now)) PROVE Outlasted(m)
  BY <1>2, UnexpiredSeenType, FreshIsUnexpired, ForgottenByBound
<1>3. ASSUME NEW t \in Callers, Remove(t) PROVE Outlasted(m)
  <2>1. t \in Threads
    BY DEF Threads
  <2>2. CASE WriteFails
    BY <2>2 DEF WriteFails
  <2>3. QED BY <1>2, <1>3, <2>1, <2>2 DEF Remove
<1>4. ASSUME NEW t \in Threads, ListAndPrune(t) PROVE Outlasted(m)
  BY <1>2, <1>4 DEF ListAndPrune
<1>5. ASSUME NEW t \in Callers, Clear(t, FALSE) PROVE Outlasted(m)
  <2>1. seen \in [Messages -> Nat] /\ clock \in Nat /\ seen[m] > 0
    BY DEF TypeOK
  <2>2. Replace({}, seen)
    BY <1>5 DEF Clear, SeenAfterClear, WriteFails
  <2>3. QED BY <2>1, <2>2, ForgottenByBound
<1>6. CASE UNCHANGED seen
  BY <1>6
<1>7. QED
  BY <1>1, <1>3, <1>4, <1>5, <1>6
     DEF Next, Caller, Lister, Ingest, EnterRecordMessage, EnterRemove, Die, EnterList,
         Restart, ListFails, WriteFails, Tick, vars

(* The store forgets a message before its time only with the whole table,  *)
(* or to as many as the table holds that last at least as long, for any    *)
(* limits and interleaving (store.py:332-336, 515-523, 562-566, 652).      *)
THEOREM EntriesKeptAlways == Spec => EntriesKept
<1>1. TypeOK /\ CallsFaithful /\ [Next]_vars =>
        \A m \in Messages :
           (seen[m] > clock /\ seen'[m] # seen[m]) =>
             \/ \E t \in Callers : Clear(t, TRUE)
             \/ Outlasted(m)
  BY EntryKeptStep
<1>2. QED BY <1>1, CallsInvariant, PTL DEF Spec, EntriesKept, Outlasted
=============================================================================
