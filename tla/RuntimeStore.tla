----------------------------- MODULE RuntimeStore -----------------------------
(***************************************************************************)
(* The private runtime store (oma2fa/store.py) as its callers use it:      *)
(* Oma2FAService.ingest, delete and clear (oma2fa/service.py), from        *)
(* several threads and processes at once.                                  *)
(*                                                                         *)
(* A store operation reads the wall clock first and then takes the lock    *)
(* (a thread lock and an flock), so every operation is two steps: the      *)
(* clock a transaction works with may be old by the time it runs.  ingest  *)
(* reads the clock once more before that, to clamp and to judge the        *)
(* message.  Inside the lock an operation loads, prunes, changes and       *)
(* rewrites the whole file; os.replace makes that one step.                *)
(*                                                                         *)
(* A message stands for its opaque message key; ContentOf is the content   *)
(* key of the code detect_otp finds in it (NoCode if none).  A record's    *)
(* msg field stands for the code, service and content key stored from it.  *)
(***************************************************************************)
EXTENDS Integers, FiniteSets

CONSTANTS
    Callers,     (* threads and processes that call the service            *)
    Maintainer,  (* the bridge's maintenance thread, which lists in a loop *)
    Messages,    (* messages the transports deliver, any number of times   *)
    ContentOf,   (* message -> content key, or NoCode                      *)
    StampOf,     (* message -> the time its sender stamped on it           *)
    NoCode,      (* "no code in this message"                              *)
    NoMessage,   (* the message of a call that carries none                *)
    TTL,         (* DEFAULT_TTL_SECONDS                                    *)
    Window,      (* DEFAULT_DEDUPE_WINDOW_SECONDS                          *)
    FutureSkew,  (* MAX_FUTURE_SKEW_SECONDS                                *)
    MaxRecords,  (* MAX_RECORDS                                            *)
    MaxSeen,     (* MAX_SEEN_ENTRIES                                       *)
    PhoneAhead,  (* how far the sender's clock may run ahead of this host  *)
    MaxTime,     (* bound: the clock stops here                            *)
    MaxIds       (* bound: records created                                 *)

Threads == Callers \cup {Maintainer}

ASSUME ThreadsAssumption == Maintainer \notin Callers

ASSUME MessagesAssumption ==
    /\ StampOf \in [Messages -> Int]
    /\ NoMessage \notin Messages

ASSUME LimitsAssumption ==
    /\ TTL \in Nat \ {0}
    /\ Window \in Nat
    /\ FutureSkew \in Nat
    /\ MaxRecords \in Nat \ {0}
    /\ MaxSeen \in Nat \ {0}
    /\ PhoneAhead \in Nat
    /\ MaxTime \in Nat
    /\ MaxIds \in Nat

VARIABLES
    clock,      (* time.time(), in ticks                                   *)
    records,    (* state["records"]                                        *)
    seen,       (* state["seen"]: message -> expiry, 0 where absent        *)
    call,       (* what each thread is doing                               *)
    nextId,     (* the next record id, secrets.token_urlsafe               *)
    accounted   (* history: messages some transaction has remembered       *)

vars == <<clock, records, seen, call, nextId, accounted>>

-----------------------------------------------------------------------------
(* A call in progress.  "judged": ingest has clamped and judged the        *)
(* message.  "record", "list", "remove": the operation has read the clock  *)
(* and waits for the lock.  "ended": there is no maintenance thread.       *)

Ops == {"idle", "judged", "record", "list", "remove", "ended"}

Idle == [op |-> "idle", msg |-> NoMessage, code |-> NoCode, received |-> 0,
         now |-> 0, id |-> 0]

Ended == [Idle EXCEPT !.op = "ended"]

Starting(t) == call[t].op = "idle"

(* The operation reads the clock, outside the lock it then waits for.      *)
Enter(t, op, id) ==
    call' = [call EXCEPT ![t] = [op |-> op, msg |-> @.msg, code |-> @.code,
                                 received |-> @.received, now |-> clock, id |-> id]]

Finish(t) == call' = [call EXCEPT ![t] = Idle]

(* The call is cut short.  A caller may call again; nothing in the         *)
(* maintenance loop catches an exception, so that thread is gone for good. *)
Abandon(t) == call' = [call EXCEPT ![t] = IF t = Maintainer THEN Ended ELSE Idle]

Expires(r) == r.received + TTL

(* _prune                                                                  *)
UnexpiredRecords(now) == {r \in records : Expires(r) > now}
UnexpiredSeen(now) == [m \in Messages |-> IF seen[m] > now THEN seen[m] ELSE 0]

(* _bound: newest by received_at first; sorted() keeps insertion order     *)
(* among equals.  The dedupe table keeps the latest expiries; ties there   *)
(* follow dict order, which the model leaves open.                         *)
Newer(r, s) == \/ r.received > s.received
               \/ r.received = s.received /\ r.id < s.id

(* Mutant: sorted() without reverse=True keeps the oldest.                 *)
OldestRecords(R) ==
    {r \in R : Cardinality({s \in R : Newer(r, s)}) < MaxRecords}

NewestRecords(R) ==
    {r \in R : Cardinality({s \in R : Newer(s, r)}) < MaxRecords}

Remembering(S) == {m \in Messages : S[m] > 0}

(* Mutant: the same slip for the table keeps what expires first.           *)
EarliestSeen(S) ==
    IF Cardinality(Remembering(S)) <= MaxSeen
    THEN {S}
    ELSE {[m \in Messages |-> IF m \in K THEN S[m] ELSE 0] :
            K \in {K \in SUBSET Remembering(S) :
                     /\ Cardinality(K) = MaxSeen
                     /\ \A m \in K, n \in Remembering(S) \ K : S[m] <= S[n]}}

NewestSeen(S) ==
    IF Cardinality(Remembering(S)) <= MaxSeen
    THEN {S}
    ELSE {[m \in Messages |-> IF m \in K THEN S[m] ELSE 0] :
            K \in {K \in SUBSET Remembering(S) :
                     /\ Cardinality(K) = MaxSeen
                     /\ \A m \in K, n \in Remembering(S) \ K : S[m] >= S[n]}}

(* _write_unlocked: bound and replace the file.                            *)
Replace(R, S) ==
    /\ records' = NewestRecords(R)
    /\ seen' \in NewestSeen(S)

(* _write_unlocked raising StoreError before os.replace: the old file is   *)
(* still there.  An error after os.replace leaves what Replace leaves.     *)
WriteFails == UNCHANGED <<records, seen, nextId, accounted>>

-----------------------------------------------------------------------------
(* Service and store operations                                            *)

(* A sender's stamp beyond the allowed skew is replaced by the host's time.*)
ClampStamp(stamp, now) == IF stamp > now + FutureSkew THEN now ELSE stamp

(* ingest: read the clock, clamp the stamp, and judge the message: one     *)
(* older than the TTL is only remembered, with no code.  A transport may   *)
(* deliver any message again at any time (poll, retry, second source).     *)
Ingest(t, m) ==
    LET received == ClampStamp(StampOf[m], clock) IN
    /\ Starting(t)
    /\ StampOf[m] <= clock + PhoneAhead
    /\ call' = [call EXCEPT ![t] =
                   [op |-> "judged", msg |-> m, received |-> received, now |-> 0, id |-> 0,
                    code |-> IF received <= clock - TTL THEN NoCode ELSE ContentOf[m]]]
    /\ UNCHANGED <<clock, records, seen, nextId, accounted>>

(* record_message reads the clock again, before it takes the lock.         *)
EnterRecordMessage(t) ==
    /\ call[t].op = "judged"
    /\ Enter(t, "record", 0)
    /\ UNCHANGED <<clock, records, seen, nextId, accounted>>

(* Mutant: the two receipt times are subtracted without abs().             *)
IsLaterDuplicate(c, R) ==
    \E r \in R : /\ ContentOf[r.msg] = c.code
                 /\ c.received - r.received \in 0 .. Window

(* A stored record with the same content key, received within the window.  *)
IsDuplicate(c, R) ==
    \E r \in R : /\ ContentOf[r.msg] = c.code
                 /\ r.received - c.received <= Window
                 /\ c.received - r.received <= Window

(* Mutant: the id is made from a counter that has already moved on.        *)
NewRecordLateId(c) == [id |-> nextId + 1, msg |-> c.msg, received |-> c.received]

NewRecord(c) == [id |-> nextId, msg |-> c.msg, received |-> c.received]

(* Mutant: a message is remembered for the dedupe window only.             *)
RememberForWindow(c) == c.now + Window

RememberUntil(c) == c.now + TTL

(* record_message under the lock: a remembered message is a duplicate; a   *)
(* new one is remembered for TTL from now, and its code, if it has one and *)
(* no live record carries it already, becomes a record.                    *)
RecordMessage(t) ==
    LET c == call[t]
        R == UnexpiredRecords(c.now)
        S == UnexpiredSeen(c.now)
        marked == [S EXCEPT ![c.msg] = RememberUntil(c)]
    IN
    /\ c.op = "record"
    /\ Finish(t)
    /\ UNCHANGED clock
    /\ \/ /\ S[c.msg] > c.now
          /\ Replace(R, S)
          /\ UNCHANGED <<nextId, accounted>>
       \/ /\ S[c.msg] <= c.now
          /\ c.code = NoCode \/ IsDuplicate(c, R)
          /\ Replace(R, marked)
          /\ accounted' = accounted \cup {c.msg}
          /\ UNCHANGED nextId
       \/ /\ S[c.msg] <= c.now
          /\ c.code # NoCode /\ ~IsDuplicate(c, R)
          /\ nextId < MaxIds
          /\ Replace(R \cup {NewRecord(c)}, marked)
          /\ accounted' = accounted \cup {c.msg}
          /\ nextId' = nextId + 1
       \/ WriteFails

(* list (also behind get and snapshot): read the clock ...                 *)
EnterList(t) ==
    /\ Starting(t)
    /\ Enter(t, "list", 0)
    /\ UNCHANGED <<clock, records, seen, nextId, accounted>>

(* Mutant: list filters expired codes out without rewriting the file.      *)
ListOnly(t) ==
    /\ call[t].op = "list"
    /\ Finish(t)
    /\ UNCHANGED <<clock, records, seen, nextId, accounted>>

(* ... and under the lock prune, rewriting the file only if that changed it.*)
ListAndPrune(t) ==
    LET R == UnexpiredRecords(call[t].now)
        S == UnexpiredSeen(call[t].now)
    IN
    /\ call[t].op = "list"
    /\ Finish(t)
    /\ IF R = records /\ S = seen THEN UNCHANGED <<records, seen>> ELSE Replace(R, S)
    /\ UNCHANGED <<clock, nextId, accounted>>

(* A StoreError, from the lock, the load or the rewrite.  In a maintenance *)
(* tick it leaves _maintain_once and with it the loop of _maintain.        *)
ListFails(t) ==
    /\ call[t].op = "list"
    /\ Abandon(t)
    /\ WriteFails
    /\ UNCHANGED clock

(* delete and use, of a record the caller has seen: read the clock ...     *)
EnterRemove(t, r) ==
    /\ Starting(t)
    /\ r \in records
    /\ Enter(t, "remove", r.id)
    /\ UNCHANGED <<clock, records, seen, nextId, accounted>>

(* ... and under the lock prune, drop that record and rewrite the file.    *)
Remove(t) ==
    LET R == {r \in UnexpiredRecords(call[t].now) : r.id # call[t].id} IN
    /\ call[t].op = "remove"
    /\ Finish(t)
    /\ UNCHANGED clock
    /\ \/ /\ Replace(R, UnexpiredSeen(call[t].now))
          /\ UNCHANGED <<nextId, accounted>>
       \/ WriteFails

(* Mutant: clear starts from an empty state.                               *)
ClearedTable(includeSeen) == [m \in Messages |-> 0]

SeenAfterClear(includeSeen) ==
    IF includeSeen THEN [m \in Messages |-> 0] ELSE seen

(* clear: drop every record, and the dedupe table too if include_seen.  It *)
(* reads no clock and prunes nothing.                                      *)
Clear(t, includeSeen) ==
    /\ Starting(t)
    /\ \/ /\ Replace({}, SeenAfterClear(includeSeen))
          /\ accounted' = IF includeSeen THEN {} ELSE accounted
          /\ UNCHANGED nextId
       \/ WriteFails
    /\ UNCHANGED <<clock, call>>

(* The process dies.  Nothing but its call is lost: the file is replaced   *)
(* whole or not at all, and the lock goes with the descriptor.             *)
Die(t) ==
    /\ call[t].op # "ended"
    /\ Abandon(t)
    /\ UNCHANGED <<clock, records, seen, nextId, accounted>>

(* Another bridge is started, whose start() starts a maintenance thread.   *)
Restart ==
    /\ call[Maintainer].op = "ended"
    /\ Finish(Maintainer)
    /\ UNCHANGED <<clock, records, seen, nextId, accounted>>

Tick ==
    /\ clock < MaxTime
    /\ clock' = clock + 1
    /\ UNCHANGED <<records, seen, call, nextId, accounted>>

-----------------------------------------------------------------------------
Init ==
    /\ clock = 0
    /\ records = {}
    /\ seen = [m \in Messages |-> 0]
    /\ call = [t \in Threads |-> Idle]
    /\ nextId = 0
    /\ accounted = {}

Caller(t) ==
    \/ \E m \in Messages : Ingest(t, m)
    \/ EnterRecordMessage(t)
    \/ RecordMessage(t)
    \/ \E r \in records : EnterRemove(t, r)
    \/ Remove(t)
    \/ \E includeSeen \in BOOLEAN : Clear(t, includeSeen)

Lister(t) == EnterList(t) \/ ListAndPrune(t) \/ ListFails(t) \/ Die(t)

Next ==
    \/ \E t \in Callers : Caller(t)
    \/ \E t \in Threads : Lister(t)
    \/ Restart
    \/ Tick

Spec == Init /\ [][Next]_vars

(* The maintenance thread takes a snapshot every 15 s for as long as there *)
(* is one, and comes to the end of it: with the pruning, or with an error  *)
(* and its own end.  Nothing brings the thread back.                       *)
FairSpec == /\ Spec
            /\ WF_vars(EnterList(Maintainer))
            /\ WF_vars(ListAndPrune(Maintainer) \/ ListFails(Maintainer))

-----------------------------------------------------------------------------
(* Properties                                                              *)

Record == [id : Nat, msg : Messages, received : Int]
Codes == {ContentOf[m] : m \in Messages} \cup {NoCode}
Call == [op : Ops, msg : Messages \cup {NoMessage}, code : Codes,
         received : Int, now : Nat, id : Nat]

(* Every variable keeps its type, a message is being recorded only where   *)
(* there is one, and ids are never handed out twice.                       *)
TypeOK ==
    /\ clock \in Nat
    /\ records \subseteq Record
    /\ seen \in [Messages -> Nat]
    /\ call \in [Threads -> Call]
    /\ nextId \in Nat
    /\ accounted \subseteq Messages
    /\ \A t \in Threads : call[t].op \in {"judged", "record"} => call[t].msg \in Messages
    /\ \A r \in records : r.id < nextId
    /\ \A r, s \in records : r.id = s.id => r = s

(* The code of m is selectable now.                                        *)
Live(m) == \E r \in records : r.msg = m /\ Expires(r) > clock

(* The same code, delivered by two transports within the dedupe window,    *)
(* never shows twice, however the two record_message calls interleave      *)
(* (store.py:573-580).                                                     *)
NoDuplicateCodes ==
    \A r, s \in records :
        (r # s /\ ContentOf[r.msg] = ContentOf[s.msg])
            => \/ r.received - s.received > Window
               \/ s.received - r.received > Window

(* A message the store has dealt with is remembered until its own code     *)
(* could no longer be live, whichever thread pruned the table and with     *)
(* whatever stale clock (store.py:515-523, 562-566).                       *)
RememberedWhileFresh ==
    \A m \in accounted : seen[m] >= StampOf[m] + TTL \/ clock >= StampOf[m] + TTL

(* A code that is still live disappears only because somebody removed that *)
(* very record or cleared the store, or because newer records filled it:   *)
(* a prune with an old clock or a concurrent rewrite never loses one       *)
(* (store.py:324-331, 515-518, 612-653).                                   *)
LiveCodesKept ==
    [][\A r \in records \ records' :
          Expires(r) > clock =>
             \/ \E t \in Callers : Remove(t) /\ call[t].id = r.id
             \/ \E t \in Callers, b \in BOOLEAN : Clear(t, b)
             \/ /\ Cardinality(records') = MaxRecords
                /\ \A s \in records' : s.received >= r.received]_vars

(* What the store remembers of a message it forgets before its time only   *)
(* with the whole table, or because the table is full of entries that last *)
(* at least as long, also where threads that read the clock at different   *)
(* times extend and prune it (store.py:332-336, 515-523, 562-566, 652).    *)
EntriesKept ==
    [][\A m \in Messages :
          (seen[m] > clock /\ seen'[m] # seen[m]) =>
             \/ \E t \in Callers : Clear(t, TRUE)
             \/ /\ Cardinality(Remembering(seen')) = MaxSeen
                /\ \A n \in Remembering(seen') : seen'[n] >= seen[m]]_vars

(* A message whose code was consumed, cleared, dropped or expired never    *)
(* becomes selectable again, however often a transport redelivers it       *)
(* (tests/test_store.py:179, README.md:559).                               *)
NoReappearance ==
    [][\A m \in accounted \cap accounted' : ~Live(m) => ~Live(m)']_vars

(* An expired code is erased from the file, not only hidden: the           *)
(* maintenance listing prunes it (tests/test_store.py:143, store.py:597),  *)
(* whatever the other threads do, if from some time on there is a          *)
(* maintenance thread.  Its tick lets every StoreError end it              *)
(* (bridge.py:375, 387-389): then the code stays until somebody else uses  *)
(* the store.                                                              *)
ExpiredCodesErased ==
    <>[](call[Maintainer].op # "ended") =>
        \A i \in 0 .. MaxIds :
            (\E r \in records : r.id = i /\ Expires(r) < clock)
                ~> (\A r \in records : r.id # i)

(* The store implements CodeVault: every message is offered at most once   *)
(* (unless the dedupe table itself is cleared), and two offered codes are  *)
(* never the same text.                                                    *)
Vault == INSTANCE CodeVault WITH
    status <- [m \in Messages |->
                 IF Live(m) THEN "offered"
                 ELSE IF m \in accounted THEN "gone" ELSE "unseen"]

VaultSpec == Vault!Spec
=============================================================================
