------------------------ MODULE PickerAgreementProofs ------------------------
(***************************************************************************)
(* More proofs about PickerSession: that a running bridge loses no         *)
(* request, and that a picker that waits for nothing agrees with the       *)
(* bridge, for any number of codes, requests in flight and lines in the    *)
(* pipe.                                                                   *)
(***************************************************************************)
EXTENDS PickerSessionProofs

-----------------------------------------------------------------------------
(* The lines in a pipe, whatever their order                               *)

Lines(s) == {s[i] : i \in 1..Len(s)}

LEMMA LinesAppended ==
    ASSUME NEW S, NEW s \in Seq(S), NEW x
    PROVE  Lines(Append(s, x)) = Lines(s) \cup {x}
  <1>1. /\ Len(s) \in Nat /\ Len(Append(s, x)) = Len(s) + 1
        /\ \A i \in 1..Len(s) : Append(s, x)[i] = s[i]
        /\ Append(s, x)[Len(s) + 1] = x
    OBVIOUS
  <1>2. \A i \in 1..Len(Append(s, x)) : i \in 1..Len(s) \/ i = Len(s) + 1
    BY <1>1
  <1>3. (1..Len(s)) \subseteq 1..Len(Append(s, x)) /\ Len(s) + 1 \in 1..Len(Append(s, x))
    BY <1>1
  <1>. QED BY <1>1, <1>2, <1>3 DEF Lines

LEMMA LinesRead ==
    ASSUME NEW S, NEW s \in Seq(S), s # <<>>
    PROVE  Lines(s) = {Head(s)} \cup Lines(Tail(s))
  <1>1. /\ Len(s) \in Nat /\ Len(Tail(s)) = Len(s) - 1
        /\ \A k \in 1..Len(Tail(s)) : Tail(s)[k] = s[k + 1]
        /\ Head(s) = s[1] /\ 1 \in 1..Len(s)
    OBVIOUS
  <1>2. ASSUME NEW k \in 1..Len(Tail(s)) PROVE k + 1 \in 1..Len(s)
    BY <1>1
  <1>3. ASSUME NEW i \in 1..Len(s), i # 1 PROVE i - 1 \in 1..Len(Tail(s)) /\ Tail(s)[i - 1] = s[i]
    BY <1>1, <1>3
  <1>4. ASSUME NEW x \in Lines(s) PROVE x = Head(s) \/ x \in Lines(Tail(s))
    <2>1. PICK i \in 1..Len(s) : x = s[i]
      BY DEF Lines
    <2>2. CASE i = 1
      BY <1>1, <2>1, <2>2
    <2>3. CASE i # 1
      <3>1. i - 1 \in 1..Len(Tail(s)) /\ x = Tail(s)[i - 1]
        BY <1>3, <2>1, <2>3
      <3>. QED BY <3>1 DEF Lines
    <2>. QED BY <2>2, <2>3
  <1>5. ASSUME NEW x \in Lines(Tail(s)) PROVE x \in Lines(s)
    BY <1>1, <1>2 DEF Lines
  <1>6. Head(s) \in Lines(s)
    BY <1>1 DEF Lines
  <1>. QED BY <1>4, <1>5, <1>6

-----------------------------------------------------------------------------
(* Where a request is                                                      *)

IsAnswer(a, q) == a.kind = "answer" /\ a.id = q.id

Holds(m, q) == Busy(m) /\ m.id = q.id

(* What is done for a request, and said of it, is about its code.          *)
Linked(p, out, m) ==
    \A q \in p :
        /\ Holds(m, q) => m.method = q.method /\ m.record = q.record
        /\ \A a \in Lines(out) : IsAnswer(a, q) => a.record = q.record

(* None is lost.                                                           *)
Kept(p, in, out, m) ==
    \A q \in p : q \in Lines(in) \/ Holds(m, q) \/ \E a \in Lines(out) : IsAnswer(a, q)

(* A request is in one place only.                                         *)
Separate(p, in, out, m) ==
    /\ \A q, r \in p : q.id = r.id => q = r
    /\ Lines(in) \subseteq p
    /\ \A q \in Lines(in) : ~Holds(m, q) /\ \A a \in Lines(out) : ~IsAnswer(a, q)
    /\ \A q \in p : Holds(m, q) => \A a \in Lines(out) : ~IsAnswer(a, q)
    /\ Busy(m) => \E q \in p : Holds(m, q)
    /\ \A a \in Lines(out) : a.kind = "answer" => \E q \in p : IsAnswer(a, q)

LEMMA Apart ==
    ASSUME NEW p \in SUBSET Request, NEW in \in Seq(Request), NEW out \in Seq(Line),
           NEW m \in Dispatcher, InOnePlace(p, in, out, m)
    PROVE  Separate(p, in, out, m)
  BY DEF InOnePlace, Separate, Lines, Holds, IsAnswer

(* A new request is nowhere yet.                                           *)
LEMMA SentLinked ==
    ASSUME NEW p \in SUBSET Request, NEW in \in Seq(Request), NEW out \in Seq(Line),
           NEW m \in Dispatcher, InOnePlace(p, in, out, m), Linked(p, out, m),
           NEW q \in Request, \A r \in p : r.id # q.id
    PROVE  /\ ~Holds(m, q) /\ \A a \in Lines(out) : ~IsAnswer(a, q)
           /\ Linked(p \cup {q}, out, m)
           /\ Kept(p, in, out, m) => Kept(p \cup {q}, Append(in, q), out, m)
  <1>1. ~Holds(m, q) /\ \A a \in Lines(out) : ~IsAnswer(a, q)
    <2>1. Separate(p, in, out, m)
      BY Apart
    <2>. QED BY <2>1 DEF Separate, Holds, IsAnswer
  <1>2. Lines(Append(in, q)) = Lines(in) \cup {q}
    BY LinesAppended
  <1>. QED BY <1>1, <1>2 DEF Linked, Kept

(* A request that was answered is not waited for any more; another one's   *)
(* answer is another line.                                                 *)
LEMMA ReadLinked ==
    ASSUME NEW p \in SUBSET Request, NEW in \in Seq(Request), NEW out \in Seq(Line),
           NEW m \in Dispatcher, InOnePlace(p, in, out, m), Linked(p, out, m), out # <<>>,
           NEW q \in p, IsAnswer(Head(out), q)
    PROVE  /\ Linked(p \ {q}, Tail(out), m)
           /\ Kept(p, in, out, m) => Kept(p \ {q}, in, Tail(out), m)
           /\ \A r \in p \ {q} : ~IsAnswer(Head(out), r)
           /\ \A a \in Lines(Tail(out)) : ~IsAnswer(a, q)
  <1>1. Lines(out) = {Head(out)} \cup Lines(Tail(out))
    BY LinesRead
  <1>2. \A r \in p \ {q} : ~IsAnswer(Head(out), r)
    <2>1. Separate(p, in, out, m)
      BY Apart
    <2>. QED BY <2>1 DEF Separate, IsAnswer
  <1>3. InOnePlace(p \ {q}, in, Tail(out), m) /\ \A r \in p \ {q} : r.id # q.id
    BY ReadAnswer DEF IsAnswer
  <1>4. p \ {q} \in SUBSET Request /\ Tail(out) \in Seq(Line)
    OBVIOUS
  <1>5. Separate(p \ {q}, in, Tail(out), m)
    BY <1>3, <1>4, Apart
  <1>6. \A a \in Lines(Tail(out)) : ~IsAnswer(a, q)
    BY <1>3, <1>5 DEF Separate, IsAnswer
  <1>. QED BY <1>1, <1>2, <1>6 DEF Linked, Kept

-----------------------------------------------------------------------------
(* No request is lost.  The dispatch thread does what the method asks for. *)

Dutiful ==
    /\ main.at \in {"get", "copy", "paste"} => main.method = "activate"
    /\ main.at = "sources" => main.method \in {"refresh", "start"}
    /\ main.at = "remove" => main.method # "refresh"

Tracked ==
    /\ Dutiful
    /\ Linked(pending, output, main)
    /\ Running => Kept(pending, input, output, main)

LEMMA TrackedInit == Init => Tracked
  BY Unoccupied DEF Init, Tracked, Dutiful, Linked, Kept, Running, At, Dead

(* Only the dispatch thread moves, and stays with its request.             *)
LEMMA TrackedGoesOn ==
    ASSUME TInv, Tracked, UNCHANGED <<pending, input>>, Lines(output') = Lines(output),
           Dutiful', Busy(main') <=> Busy(main),
           UNCHANGED <<main.id, main.method, main.record>>, main.at # "dead"
    PROVE  Tracked'
  BY DEF Tracked, Linked, Kept, Holds, Running, At

LEMMA TrackedUser == TInv /\ Tracked /\ User => Tracked'
  <1> SUFFICES ASSUME TInv, Tracked, User PROVE Tracked'
    OBVIOUS
  <1>1. /\ Ready /\ UNCHANGED <<output, main>>
        /\ \E method \in Method, record \in Record \cup {NoRecord} :
              SendRequest(pending, method, record)
    BY DEF User, Refresh, Clear, DeleteRecord, Activate, TInv, Types, Method, bridge
  <1>2. PICK q \in Request :
           /\ \A r \in pending : r.id # q.id
           /\ pending' = pending \cup {q}
           /\ input' = IF Running THEN Append(input, q) ELSE input
    <2>1. PICK method \in Method, record \in Record \cup {NoRecord} :
             SendRequest(pending, method, record)
      BY <1>1
    <2> DEFINE q == [id |-> FreeId(pending), method |-> method, record |-> record]
    <2>2. q \in Request /\ \A r \in pending : r.id # q.id
      BY <1>1, FreeNumber DEF Ready, Request
    <2>. QED BY <2>1, <2>2 DEF SendRequest
  <1>3. /\ Linked(pending', output, main)
        /\ Running => Kept(pending', input', output, main)
    BY <1>2, SentLinked DEF TInv, Types, Tracked
  <1>. QED BY <1>1, <1>3 DEF Tracked, Dutiful, Running, At

LEMMA TrackedApplySnapshot == TInv /\ Tracked /\ ApplySnapshot => Tracked'
  <1> SUFFICES ASSUME TInv, Tracked, ApplySnapshot PROVE Tracked'
    OBVIOUS
  <1>1. /\ output \in Seq(Line) /\ output # <<>> /\ output' = Tail(output)
        /\ Head(output).kind # "answer" /\ UNCHANGED <<pending, input, main>>
    BY DEF ApplySnapshot, Reading, TInv, Types, bridge
  <1>2. Lines(output) = {Head(output)} \cup Lines(output')
    BY <1>1, LinesRead
  <1>. QED BY <1>1, <1>2 DEF Tracked, Dutiful, Linked, Kept, IsAnswer, Running, At

LEMMA TrackedHandleResponse == TInv /\ Tracked /\ HandleResponse => Tracked'
  <1> SUFFICES ASSUME TInv, Tracked, HandleResponse PROVE Tracked'
    OBVIOUS
  <1>1. /\ Types /\ output \in Seq(Line) /\ output # <<>> /\ output' = Tail(output)
        /\ output' \in Seq(Line) /\ Head(output).kind = "answer" /\ main' = main
    BY DEF HandleResponse, Reading, TInv, Types, bridge
  <1>2. PICK q \in pending :
           /\ q.id = Head(output).id
           /\ IF Head(output).ok THEN HandleSuccess(q, Head(output)) ELSE HandleFailure(q)
    BY DEF HandleResponse
  <1>3. /\ Linked(pending \ {q}, output', main)
        /\ Running => Kept(pending \ {q}, input, output', main)
    BY <1>1, <1>2, ReadLinked DEF TInv, Types, Tracked, IsAnswer
  <1>4. CASE pending' = pending \ {q} /\ input' = input
    BY <1>1, <1>3, <1>4 DEF Tracked, Dutiful, Running, At
  <1>5. CASE SendRequest(pending \ {q}, "refresh", NoRecord)
    <2> DEFINE n == [id |-> FreeId(pending \ {q}), method |-> "refresh", record |-> NoRecord]
    <2>1. /\ InOnePlace(pending \ {q}, input, output', main)
          /\ \A r \in pending \ {q} : r.id # q.id
          /\ q.id \in Id
      BY <1>1, <1>2, ReadAnswer DEF TInv, Types, Request
    <2>2. n \in Request /\ \A r \in pending \ {q} : r.id # n.id
      BY <2>1, FreeNumber DEF Request, Method
    <2>3. /\ pending' = (pending \ {q}) \cup {n}
          /\ input' = IF Running THEN Append(input, n) ELSE input
      BY <1>5 DEF SendRequest
    <2>. HIDE DEF n
    <2>4. /\ Linked(pending', output', main)
          /\ Running => Kept(pending', input', output', main)
      BY <1>1, <1>3, <2>1, <2>2, <2>3, SentLinked DEF Types
    <2>. QED BY <1>1, <2>4 DEF Tracked, Dutiful, Running, At
  <1>. QED BY <1>2, <1>4, <1>5 DEF HandleSuccess, HandleFailure

LEMMA TrackedExitStart ==
    TInv /\ Tracked /\ (BridgeExited \/ StartBridge \/ BridgeDies) => Tracked'
  <1> SUFFICES ASSUME TInv, Tracked, BridgeExited \/ StartBridge \/ BridgeDies PROVE Tracked'
    OBVIOUS
  <1>1. CASE BridgeExited
    BY <1>1 DEF BridgeExited, Tracked, Dutiful, Linked, Kept, Running, At, bridge
  <1>2. CASE StartBridge
    <2>1. output' = <<>> /\ main'.at = "sources" /\ main'.method = "start" /\ ~Busy(main')
      BY <1>2, Unoccupied DEF StartBridge, TInv, Connected, Busy
    <2>2. PICK q : pending' = {q} /\ input' = <<q>>
      BY <1>2 DEF StartBridge, TInv, Connected
    <2>3. q \in Lines(input')
      BY <2>2 DEF Lines
    <2>. QED BY <2>1, <2>2, <2>3 DEF Tracked, Dutiful, Linked, Kept, Holds, Lines
  <1>3. CASE BridgeDies
    <2>1. main' = Dead /\ main'.at = "dead" /\ ~Busy(main') /\ UNCHANGED <<pending, output>>
      BY <1>3, Unoccupied DEF BridgeDies, Dead, picker
    <2>. QED BY <2>1 DEF Tracked, Dutiful, Linked, Holds, Running, At
  <1>. QED BY <1>1, <1>2, <1>3

LEMMA TrackedDispatch == TInv /\ Tracked /\ Dispatch => Tracked'
  <1> SUFFICES ASSUME TInv, Tracked, Dispatch PROVE Tracked'
    OBVIOUS
  <1> USE DEF picker, At
  <1>0. /\ main \in Dispatcher /\ Doing /\ Types
        /\ Dutiful /\ Linked(pending, output, main)
    BY DEF TInv, Types, Tracked
  <1>1. CASE HandleLine
    <2>1. /\ input \in Seq(Request) /\ input # <<>> /\ input' = Tail(input)
          /\ Head(input) \in Request /\ main.at = "loop" /\ Begin(Head(input))
          /\ UNCHANGED <<pending, output>>
      BY <1>0, <1>1 DEF HandleLine, Types
    <2>2. Lines(input) = {Head(input)} \cup Lines(input')
      BY <2>1, LinesRead
    <2>3. /\ main'.at \in {"sources", "get", "remove"} /\ main'.id = Head(input).id
          /\ main'.method = Head(input).method /\ main'.record = Head(input).record
          /\ Dutiful'
      <3>1. CASE Head(input).method = "refresh"
        BY <2>1, <3>1 DEF Begin, Dutiful
      <3>2. CASE Head(input).method = "activate"
        BY <2>1, <3>2 DEF Begin, Dutiful
      <3>3. CASE Head(input).method \in {"delete", "clear"}
        BY <2>1, <3>3 DEF Begin, Dutiful
      <3>. QED BY <2>1, <3>1, <3>2, <3>3 DEF Request, Method
    <2>4. ~Busy(main) /\ Head(input) \in pending
          /\ \A r \in pending : r.id = Head(input).id => r = Head(input)
      <3>1. Separate(pending, input, output, main)
        BY Apart DEF TInv, Types
      <3>. QED BY <2>1, <2>2, <3>1 DEF Separate, Busy
    <2>5. Linked(pending', output', main')
      BY <1>0, <2>1, <2>3, <2>4 DEF Linked, Holds
    <2>6. Kept(pending, input, output, main)
      BY <2>1 DEF Tracked, Running
    <2>7. Kept(pending', input', output', main')
      <3>1. Holds(main', Head(input))
        BY <2>1, <2>3 DEF Holds, Busy, Request, Method
      <3>. QED BY <2>1, <2>2, <2>4, <2>6, <3>1 DEF Kept, Holds
    <2>. QED BY <2>3, <2>5, <2>7 DEF Tracked
  <1>2. CASE Get
    <2>1. /\ UNCHANGED <<main.id, main.method, main.record, pending, input, output>>
          /\ main.at = "get" /\ main'.at \in {"copy", "answer"}
      BY <1>0, <1>2 DEF Get, Go, Refuse, Dispatcher
    <2>. QED BY <1>0, <2>1, TrackedGoesOn DEF Dutiful, Busy
  <1>3. CASE Copy
    <2>1. /\ UNCHANGED <<main.id, main.method, main.record, pending, input, output>>
          /\ main.at = "copy" /\ main'.at \in {"paste", "answer"}
      BY <1>0, <1>3 DEF Copy, Go, Refuse, Dispatcher
    <2>. QED BY <1>0, <2>1, TrackedGoesOn DEF Dutiful, Busy
  <1>4. CASE Paste \/ Remove \/ Take
    <2>1. /\ UNCHANGED <<main.id, main.method, main.record, pending, input, output>>
          /\ \/ main.at = "paste" /\ main'.at = "remove"
             \/ main.at \in {"remove", "take"} /\ main'.at \in {"answer", "take", "emit"}
      BY <1>0, <1>4 DEF Paste, Remove, Take, Go, AfterRemove, Dispatcher
    <2>. QED BY <1>0, <2>1, TrackedGoesOn DEF Dutiful, Busy
  <1>5. CASE StoreFails
    <2>1. /\ UNCHANGED <<main.id, main.method, main.record, pending, input, output>>
          /\ main.at \in {"get", "remove", "take"} /\ main'.at = "answer"
      BY <1>0, <1>5 DEF StoreFails, Refuse, Dispatcher
    <2>. QED BY <1>0, <2>1, TrackedGoesOn DEF Dutiful, Busy
  <1>6. CASE Emit
    <2>1. /\ UNCHANGED <<pending, input>> /\ main.at = "emit"
          /\ Lines(output') = Lines(output) \cup {[kind |-> "snapshot", codes |-> published]}
      BY <1>0, <1>6, LinesAppended DEF Emit, EmitSnapshot, Types
    <2>2. \A a \in Lines(output') : a.kind = "answer" => a \in Lines(output)
      BY <2>1
    <2>3. Lines(output) \subseteq Lines(output')
      BY <2>1
    <2>4. CASE main.method = "start"
      <3>1. main' = Waiting /\ main'.at = "loop" /\ ~Busy(main') /\ ~Busy(main)
        BY <1>6, <2>4, Unoccupied DEF Emit, Refuse, Busy
      <3>. QED BY <2>1, <2>2, <2>3, <3>1
             DEF Tracked, Dutiful, Linked, Kept, Holds, IsAnswer, Running
    <2>5. CASE main.method # "start"
      <3>1. UNCHANGED <<main.id, main.method, main.record>> /\ main'.at = "answer"
        BY <1>0, <1>6, <2>5 DEF Emit, Refuse, Dispatcher
      <3>. QED BY <2>1, <2>2, <2>3, <3>1
             DEF Tracked, Dutiful, Linked, Kept, Holds, Busy, IsAnswer, Running
    <2>. QED BY <2>4, <2>5
  <1>7. CASE Reply
    <2> DEFINE a == [kind |-> "answer", id |-> main.id, ok |-> main.ok,
                     record |-> main.record, deleted |-> main.deleted]
    <2>1. /\ UNCHANGED <<pending, input>> /\ main.at = "answer" /\ main' = Waiting
          /\ main'.at = "loop" /\ ~Busy(main')
          /\ Lines(output') = Lines(output) \cup {a}
      BY <1>0, <1>7, LinesAppended, Unoccupied DEF Reply, Types
    <2>2. Busy(main)
      BY <1>0, <2>1 DEF Busy, Doing
    <2>3. \A q \in pending : IsAnswer(a, q) <=> Holds(main, q)
      BY <2>2 DEF IsAnswer, Holds
    <2>4. a.record = main.record
      OBVIOUS
    <2>. HIDE DEF a
    <2>5. Linked(pending', output', main')
      BY <1>0, <2>1, <2>3, <2>4 DEF Linked, Holds
    <2>6. Running /\ Kept(pending, input, output, main)
      BY <2>1 DEF Tracked, Running
    <2>7. Kept(pending', input', output', main')
      BY <2>1, <2>3, <2>6 DEF Kept
    <2>. QED BY <2>1, <2>5, <2>7 DEF Tracked, Dutiful
  <1>8. CASE AskSources
    <2>1. /\ UNCHANGED <<main.id, main.method, main.record, pending, input, output>>
          /\ main.at = "sources" /\ main'.at \in {"take", "answer"}
      BY <1>0, <1>8 DEF AskSources, Go, Refuse, Dispatcher
    <2>. QED BY <1>0, <2>1, TrackedGoesOn DEF Dutiful, Busy
  <1>. QED BY <1>1, <1>2, <1>3, <1>4, <1>5, <1>6, <1>7, <1>8 DEF Dispatch

LEMMA TrackedNext == TInv /\ Quiet /\ Tracked /\ [Next]_vars => Tracked'
  <1> SUFFICES ASSUME TInv, Quiet, Tracked, [Next]_vars PROVE Tracked'
    OBVIOUS
  <1> USE DEF picker, bridge
  <1>1. CASE UNCHANGED <<pending, input, output, main>>
    BY <1>1 DEF Tracked, Dutiful, Running, At
  <1>2. CASE TickEmits \/ ReaderEmits
    <2>1. /\ output \in Seq(Line) /\ UNCHANGED <<pending, input, main>>
          /\ output' = Append(output, [kind |-> "snapshot", codes |-> published])
      BY <1>2 DEF TickEmits, ReaderEmits, EmitSnapshot, TInv, Types
    <2>2. Lines(output') = Lines(output) \cup {[kind |-> "snapshot", codes |-> published]}
      BY <2>1, LinesAppended
    <2>3. \A a \in Lines(output') : a.kind = "answer" => a \in Lines(output)
      BY <2>2
    <2>4. Lines(output) \subseteq Lines(output')
      BY <2>2
    <2>. QED BY <2>1, <2>3, <2>4 DEF Tracked, Dutiful, Linked, Kept, IsAnswer, Running, At
  <1>3. CASE DropExpired \/ Tick \/ TickFails \/ Announce \/ AnnounceFails \/ Elsewhere
             \/ (\E r \in Record : Ingest(r)) \/ UNCHANGED vars
    BY <1>1, <1>3
       DEF DropExpired, Tick, TickFails, Announce, AnnounceFails, Elsewhere, Becomes, Ingest,
           vars
  <1>. QED BY <1>2, <1>3, TrackedUser, TrackedApplySnapshot, TrackedHandleResponse,
              TrackedExitStart, TrackedDispatch DEF Next, Service, Maintenance, Reader

LEMMA TrackedAlways == Spec => []Tracked
  <1>. QED BY TrackedInit, TrackedNext, TypesKept, PTL DEF Spec

(* A running bridge loses no request, whatever fails: one the picker waits *)
(* for is on its way, in hand, or answered by a line on its way back, and  *)
(* still about the same code (bridge.py:373-380, Service.qml:379-415).     *)
THEOREM NothingLost == Spec => []NoRequestLost
  <1>1. TInv /\ Tracked => NoRequestLost
    <2> SUFFICES ASSUME TInv, Tracked, Running, NEW q \in pending
                 PROVE  \/ \E i \in DOMAIN input : input[i] = q
                        \/ /\ ~At("loop")
                           /\ <<main.id, main.method, main.record>> = <<q.id, q.method, q.record>>
                        \/ \E i \in DOMAIN output :
                              /\ output[i].kind = "answer"
                              /\ output[i].id = q.id /\ output[i].record = q.record
      BY DEF NoRequestLost
    <2>0. /\ input \in Seq(Request) /\ output \in Seq(Line)
          /\ DOMAIN input = 1..Len(input) /\ DOMAIN output = 1..Len(output)
      BY DEF TInv, Types
    <2>1. CASE q \in Lines(input)
      BY <2>0, <2>1 DEF Lines
    <2>2. CASE Holds(main, q)
      BY <2>2 DEF Tracked, Linked, Holds, Busy, At
    <2>3. CASE \E a \in Lines(output) : IsAnswer(a, q)
      <3>1. PICK a \in Lines(output) : IsAnswer(a, q)
        BY <2>3
      <3>2. a.record = q.record
        BY <3>1 DEF Tracked, Linked
      <3>3. PICK i \in 1..Len(output) : a = output[i]
        BY DEF Lines
      <3>. QED BY <2>0, <3>1, <3>2, <3>3 DEF IsAnswer
    <2>. QED BY <2>1, <2>2, <2>3 DEF Tracked, Kept
  <1>. QED BY <1>1, TrackedAlways, TypesKept, PTL

-----------------------------------------------------------------------------
(* What the picker sends, and when                                         *)

(* A request that is new is nowhere but on its way, and a deletion is of a *)
(* code that was shown.                                                    *)
Joins(q) ==
    /\ q \in Request /\ q \notin pending
    /\ ~Holds(main', q) /\ \A a \in Lines(output') : ~IsAnswer(a, q)
    /\ Running => q \in Lines(input')
    /\ q.method = "delete" => q.record \in records

LEMMA JoinStep ==
    ASSUME TInv, Tracked, [Next]_vars, NEW q \in pending' \ pending
    PROVE  Joins(q) \/ StartBridge
  <1> USE DEF picker, bridge
  <1>0. /\ pending \in SUBSET Request /\ input \in Seq(Request) /\ output \in Seq(Line)
        /\ main \in Dispatcher /\ InOnePlace(pending, input, output, main)
        /\ Linked(pending, output, main)
    BY DEF TInv, Types, Tracked
  <1>1. ASSUME User PROVE Joins(q)
    <2>1. PICK method \in Method, record \in Record \cup {NoRecord} :
             /\ SendRequest(pending, method, record)
             /\ method = "delete" => record \in records
             /\ Ready /\ UNCHANGED <<output, main>>
      BY <1>0, <1>1 DEF User, Refresh, Clear, DeleteRecord, Activate, TInv, Types, Method
    <2> DEFINE n == [id |-> FreeId(pending), method |-> method, record |-> record]
    <2>2. n \in Request /\ \A r \in pending : r.id # n.id
      BY <2>1, FreeNumber DEF Ready, Request
    <2>3. n.method = method /\ n.record = record
      OBVIOUS
    <2>4. q = n /\ (Running => input' = Append(input, n))
      BY <2>1 DEF SendRequest
    <2>. HIDE DEF n
    <2>5. ~Holds(main, n) /\ \A a \in Lines(output) : ~IsAnswer(a, n)
      BY <1>0, <2>2, SentLinked
    <2>6. Running => n \in Lines(input')
      <3>1. Lines(Append(input, n)) = Lines(input) \cup {n}
        BY <1>0, LinesAppended
      <3>. QED BY <2>4, <3>1
    <2>. QED BY <2>1, <2>2, <2>3, <2>4, <2>5, <2>6 DEF Joins
  <1>2. ASSUME HandleResponse PROVE Joins(q)
    <2>1. /\ output # <<>> /\ output' = Tail(output) /\ output' \in Seq(Line)
          /\ Head(output).kind = "answer" /\ main' = main
      BY <1>0, <1>2 DEF HandleResponse, Reading
    <2>2. PICK a \in pending :
             /\ a.id = Head(output).id
             /\ SendRequest(pending \ {a}, "refresh", NoRecord) \/ pending' \subseteq pending
      BY <1>2 DEF HandleResponse, HandleSuccess, HandleFailure
    <2> DEFINE n == [id |-> FreeId(pending \ {a}), method |-> "refresh", record |-> NoRecord]
    <2>3. q = n /\ (Running => input' = Append(input, n))
      BY <2>2 DEF SendRequest
    <2>4. /\ InOnePlace(pending \ {a}, input, output', main)
          /\ \A r \in pending \ {a} : r.id # a.id
          /\ a.id \in Id /\ Linked(pending \ {a}, output', main)
      BY <1>0, <2>1, <2>2, ReadAnswer, ReadLinked DEF Request, IsAnswer
    <2>5. n \in Request /\ (\A r \in pending \ {a} : r.id # n.id) /\ n.method = "refresh"
      BY <2>4, FreeNumber DEF Request, Method
    <2>. HIDE DEF n
    <2>6. ~Holds(main, n) /\ \A b \in Lines(output') : ~IsAnswer(b, n)
      BY <1>0, <2>1, <2>4, <2>5, SentLinked
    <2>7. Running => n \in Lines(input')
      <3>1. Lines(Append(input, n)) = Lines(input) \cup {n}
        BY <1>0, LinesAppended
      <3>. QED BY <2>3, <3>1
    <2>. QED BY <2>1, <2>3, <2>5, <2>6, <2>7 DEF Joins
  <1>3. ASSUME ~User, ~HandleResponse, ~StartBridge PROVE pending' \subseteq pending
    <2>1. CASE Dispatch
      BY <2>1
         DEF Dispatch, HandleLine, AskSources, Get, Copy, Paste, Remove, Take, Emit, StoreFails,
             Reply
    <2>2. CASE Maintenance \/ Reader \/ TickFails \/ AnnounceFails \/ BridgeDies
      BY <2>2
         DEF Maintenance, Tick, TickEmits, Reader, Announce, ReaderEmits, TickFails,
             AnnounceFails, BridgeDies
    <2>3. CASE ApplySnapshot \/ BridgeExited \/ DropExpired \/ Elsewhere
               \/ (\E r \in Record : Ingest(r)) \/ UNCHANGED vars
      BY <2>3 DEF ApplySnapshot, BridgeExited, DropExpired, Elsewhere, Becomes, Ingest, vars
    <2>. QED BY <1>3, <2>1, <2>2, <2>3 DEF Next, Service
  <1>. QED BY <1>1, <1>2, <1>3

-----------------------------------------------------------------------------
(* What the codes have become                                              *)

Born == {r \in Record : status[r] # "awaited"}

(* A code is live once: it is not known before, and what is past stays so. *)
LEMMA StatusStep ==
    ASSUME TInv, [Next]_vars
    PROVE  Past \subseteq Past' /\ Born \subseteq Born' /\ Live' \cap Born \subseteq Live
  <1> USE DEF store, picker, bridge, history, Past, Born, Live
  <1>0. status \in [Record -> {"awaited", "live", "gone", "expired"}]
    BY DEF TInv, Types
  <1>1. CASE status' = status
    BY <1>1
  <1>2. CASE Elsewhere \/ \E r \in Record : Ingest(r)
    BY <1>0, <1>2 DEF Elsewhere, Becomes, Ingest
  <1>3. CASE Remove
    BY <1>0, <1>3 DEF Remove, Removed
  <1>. QED
    BY <1>1, <1>2, <1>3
       DEF Next, User, Refresh, Clear, DeleteRecord, Activate, Service, ApplySnapshot,
           HandleResponse, BridgeExited, StartBridge, DropExpired, Dispatch, HandleLine,
           AskSources, Get, Copy, Paste, Take, Emit, StoreFails, Reply, Maintenance, Tick,
           TickEmits, Reader, Announce, ReaderEmits, TickFails, AnnounceFails, BridgeDies, vars

(* The picker and the bridge only know codes that were recorded.           *)
KnownBorn ==
    /\ ~bridgeAlive => records = {}
    /\ records \cup published \subseteq Born
    /\ \A a \in Lines(output) : a.kind = "snapshot" => a.codes \subseteq Born
    /\ \A q \in pending : q.method = "delete" => q.record \in Born

(* What a step can write: the snapshot in hand, or an answer.              *)
WritesSnapshot ==
    /\ publisher # "nobody" /\ publisher' = "nobody" /\ published' = published
    /\ output' = Append(output, [kind |-> "snapshot", codes |-> published])

WritesAnswer ==
    /\ Reply
    /\ output' = Append(output, [kind |-> "answer", id |-> main.id, ok |-> main.ok,
                                 record |-> main.record, deleted |-> main.deleted])

Reads == output # <<>> /\ output' = Tail(output)

LEMMA OutputStep ==
    ASSUME TInv, [Next]_vars
    PROVE  \/ output' = output
           \/ WritesSnapshot
           \/ WritesAnswer
           \/ Reads /\ ApplySnapshot /\ Head(output).kind = "snapshot"
           \/ Reads /\ HandleResponse /\ Head(output).kind = "answer"
  <1> USE DEF store, picker, bridge, history
  <1>1. CASE Emit \/ TickEmits \/ ReaderEmits
    BY <1>1 DEF Emit, TickEmits, ReaderEmits, EmitSnapshot, WritesSnapshot
  <1>2. CASE Reply
    BY <1>2 DEF Reply, WritesAnswer
  <1>3. CASE ApplySnapshot \/ HandleResponse
    BY <1>3 DEF ApplySnapshot, HandleResponse, Reading, Reads
  <1>. QED
    BY <1>1, <1>2, <1>3
       DEF Next, User, Refresh, Clear, DeleteRecord, Activate, Service, BridgeExited,
           StartBridge, DropExpired, Dispatch, HandleLine, AskSources, Get, Copy, Paste, Remove,
           Take, StoreFails, Maintenance, Tick, Reader, Announce, TickFails, AnnounceFails,
           BridgeDies, Elsewhere, Becomes, Ingest, vars

(* The lines in the pipe after a step                                      *)
LEMMA LinesStep ==
    ASSUME TInv, [Next]_vars, NEW a \in Lines(output')
    PROVE  \/ a \in Lines(output)
           \/ a = [kind |-> "snapshot", codes |-> published]
           \/ /\ Reply
              /\ a = [kind |-> "answer", id |-> main.id, ok |-> main.ok,
                      record |-> main.record, deleted |-> main.deleted]
  <1>1. output \in Seq(Line)
    BY DEF TInv, Types
  <1>2. CASE WritesSnapshot
    <2>1. Lines(output') = Lines(output) \cup {[kind |-> "snapshot", codes |-> published]}
      BY <1>1, <1>2, LinesAppended DEF WritesSnapshot
    <2>. QED BY <2>1
  <1>3. CASE WritesAnswer
    <2> DEFINE n == [kind |-> "answer", id |-> main.id, ok |-> main.ok,
                     record |-> main.record, deleted |-> main.deleted]
    <2>1. Lines(output') = Lines(output) \cup {n}
      BY <1>1, <1>3, LinesAppended DEF WritesAnswer
    <2>. QED BY <1>3, <2>1 DEF WritesAnswer
  <1>4. CASE Reads
    BY <1>1, <1>4, LinesRead DEF Reads
  <1>. QED BY <1>2, <1>3, <1>4, OutputStep

(* What the picker shows and the bridge has published after a step         *)
LEMMA KnownStep ==
    ASSUME TInv, [Next]_vars
    PROVE  /\ \/ records' \subseteq records
              \/ ApplySnapshot /\ records' = Head(output).codes
           /\ published' \in {published, Live, {}}
  <1> USE DEF store, picker, bridge, history
  <1>1. CASE User \/ DropExpired
    BY <1>1 DEF User, Refresh, Clear, DeleteRecord, Activate, DropExpired
  <1>2. CASE Service
    BY <1>2 DEF Service, ApplySnapshot, HandleResponse, HandleSuccess, HandleFailure,
                BridgeExited, StartBridge
  <1>3. CASE Dispatch
    BY <1>3
       DEF Dispatch, HandleLine, AskSources, Get, Copy, Paste, Remove, Take, TakeSnapshot, Emit,
                EmitSnapshot, StoreFails, Reply
  <1>4. CASE Maintenance \/ Reader
    BY <1>4 DEF Maintenance, Tick, TickEmits, Reader, Announce, ReaderEmits, TakeSnapshot,
                EmitSnapshot
  <1>5. CASE TickFails \/ AnnounceFails \/ BridgeDies \/ Elsewhere
             \/ (\E r \in Record : Ingest(r)) \/ UNCHANGED vars
    BY <1>5 DEF TickFails, AnnounceFails, BridgeDies, Elsewhere, Becomes, Ingest, vars
  <1>. QED BY <1>1, <1>2, <1>3, <1>4, <1>5 DEF Next

LEMMA KnownBornNext ==
    TInv /\ Tracked /\ KnownBorn /\ [Next]_vars => KnownBorn'
  <1> SUFFICES ASSUME TInv, Tracked, KnownBorn, [Next]_vars PROVE KnownBorn'
    OBVIOUS
  <1>1. Born \subseteq Born' /\ Live \subseteq Born
    BY StatusStep DEF Live, Born
  <1>2. output \in Seq(Line) /\ (output # <<>> => Head(output) \in Lines(output))
    <2>1. output \in Seq(Line)
      BY DEF TInv, Types
    <2>. QED BY <2>1, LinesRead
  <1>3. records' \subseteq Born' /\ published' \subseteq Born'
    BY <1>1, <1>2, KnownStep DEF KnownBorn, ApplySnapshot, Reading
  <1>4. \A a \in Lines(output') : a.kind = "snapshot" => a.codes \subseteq Born'
    BY <1>1, LinesStep DEF KnownBorn
  <1>5. ASSUME NEW q \in pending', q.method = "delete" PROVE q.record \in Born'
    <2>1. CASE q \in pending
      BY <1>1, <1>5, <2>1 DEF KnownBorn
    <2>2. CASE q \notin pending
      <3>1. ~StartBridge
        BY <1>5, <2>2 DEF StartBridge
      <3>. QED BY <1>1, <1>5, <2>2, <3>1, JoinStep DEF Joins, KnownBorn
    <2>. QED BY <2>1, <2>2
  <1>6. ~bridgeAlive' => records' = {}
    <2>1. CASE bridgeAlive' = bridgeAlive
      BY <2>1, KnownStep DEF KnownBorn, ApplySnapshot, Reading
    <2>2. CASE BridgeExited \/ StartBridge
      BY <2>2 DEF BridgeExited, StartBridge
    <2>. QED
      BY <2>1, <2>2
         DEF Next, User, Refresh, Clear, DeleteRecord, Activate, Service, ApplySnapshot,
             HandleResponse, DropExpired, Dispatch, HandleLine, AskSources, Get, Copy, Paste,
             Remove, Take, Emit, StoreFails, Reply, Maintenance, Tick, TickEmits, Reader,
             Announce, ReaderEmits, TickFails, AnnounceFails, BridgeDies, Elsewhere, Becomes,
             Ingest, vars, picker
  <1>. QED BY <1>3, <1>4, <1>5, <1>6 DEF KnownBorn

-----------------------------------------------------------------------------
(* A deletion that is answered, or will be, without error is of a code     *)
(* that is past, whether it was this request that deleted it or not.       *)
Succeeds(q) == Holds(main, q) /\ main.at \in {"take", "emit", "answer"} /\ main.ok

DeletionsPast ==
    \A q \in pending : q.method = "delete" =>
        /\ Succeeds(q) => q.record \in Past
        /\ \A a \in Lines(output) : IsAnswer(a, q) /\ a.ok => q.record \in Past

LEMMA SucceedsStep ==
    ASSUME TInv, Tracked, Tracked', [Next]_vars, NEW q \in pending, q \in pending',
           q.method = "delete", Succeeds(q)'
    PROVE  Succeeds(q) \/ (Remove /\ Holds(main, q))
  <1> USE DEF picker, bridge, At
  <1>0. /\ main \in Dispatcher /\ Doing /\ Dutiful /\ main'.method = "delete" /\ Busy(main')
        /\ main'.id = q.id /\ main'.at \in {"take", "emit", "answer"} /\ main'.ok
    BY DEF TInv, Types, Tracked, Linked, Succeeds, Holds
  <1>1. CASE main' = main
    BY <1>1 DEF Succeeds, Holds
  <1>2. CASE StartBridge \/ BridgeDies \/ Reply
    BY <1>0, <1>2, Unoccupied DEF StartBridge, BridgeDies, Reply, Busy
  <1>3. CASE HandleLine
    <2>1. Head(input) \in Request /\ Begin(Head(input))
      BY <1>3 DEF HandleLine, TInv, Types
    <2>. QED BY <1>0, <2>1 DEF Begin
  <1>4. CASE AskSources \/ Get \/ Copy \/ Paste
    BY <1>0, <1>4 DEF AskSources, Get, Copy, Paste, Go, Refuse, Dutiful, Dispatcher
  <1>5. CASE StoreFails
    BY <1>0, <1>5 DEF StoreFails, Refuse, Dispatcher
  <1>6. CASE Remove
    <2>1. main.id = main'.id /\ main.method = main'.method /\ main.at = "remove"
      BY <1>0, <1>6 DEF Remove, Dispatcher
    <2>. QED BY <1>0, <1>6, <2>1 DEF Holds, Busy
  <1>7. CASE Take
    <2>1. /\ main.id = main'.id /\ main.method = main'.method /\ main.ok = main'.ok
          /\ main.at = "take"
      BY <1>0, <1>7 DEF Take, Go, Dispatcher
    <2>. QED BY <1>0, <2>1 DEF Succeeds, Holds, Busy
  <1>8. CASE Emit
    <2>1. main.at = "emit" /\ main.method # "start" /\ main' = [main EXCEPT !.at = "answer"]
      BY <1>0, <1>8, Unoccupied DEF Emit, Refuse, Busy, Dispatcher
    <2>2. main.id = main'.id /\ main.ok = main'.ok
      BY <1>0, <2>1 DEF Dispatcher
    <2>. QED BY <1>0, <2>1, <2>2 DEF Succeeds, Holds, Busy
  <1>. QED
    BY <1>1, <1>2, <1>3, <1>4, <1>5, <1>6, <1>7, <1>8
       DEF Next, User, Refresh, Clear, DeleteRecord, Activate, Service, ApplySnapshot,
           HandleResponse, BridgeExited, DropExpired, Dispatch, Maintenance, Tick, TickEmits,
           Reader, Announce, ReaderEmits, TickFails, AnnounceFails, Elsewhere, Becomes,
           Ingest, vars

LEMMA DeletionsPastNext ==
    TInv /\ Tracked /\ Tracked' /\ KnownBorn /\ DeletionsPast /\ [Next]_vars => DeletionsPast'
  <1> SUFFICES ASSUME TInv, Tracked, Tracked', KnownBorn, DeletionsPast, [Next]_vars,
                      NEW q \in pending', q.method = "delete"
               PROVE  /\ Succeeds(q)' => q.record \in Past'
                      /\ \A a \in Lines(output') : IsAnswer(a, q) /\ a.ok => q.record \in Past'
    BY DEF DeletionsPast
  <1>0. Past \subseteq Past' /\ status \in [Record -> {"awaited", "live", "gone", "expired"}]
    BY StatusStep DEF TInv, Types
  <1>1. CASE q \notin pending
    <2>1. ~StartBridge
      BY <1>1 DEF StartBridge
    <2>. QED BY <1>1, <2>1, JoinStep DEF Joins, Succeeds, Holds
  <1>2. CASE q \in pending
    <2>1. ASSUME NEW a \in Lines(output'), IsAnswer(a, q), a.ok PROVE q.record \in Past'
      <3>1. CASE a \in Lines(output)
        BY <1>0, <1>2, <2>1, <3>1 DEF DeletionsPast
      <3>2. CASE /\ Reply
                 /\ a = [kind |-> "answer", id |-> main.id, ok |-> main.ok,
                         record |-> main.record, deleted |-> main.deleted]
        <4>1. main.at = "answer" /\ main.method # "start" /\ main.id = q.id /\ main.ok
          BY <2>1, <3>2 DEF Reply, At, IsAnswer, TInv, Doing
        <4>. QED BY <1>0, <1>2, <4>1 DEF DeletionsPast, Succeeds, Holds, Busy
      <3>3. CASE a = [kind |-> "snapshot", codes |-> published]
        BY <2>1, <3>3 DEF IsAnswer
      <3>. QED BY <3>1, <3>2, <3>3, LinesStep
    <2>2. ASSUME Succeeds(q)' PROVE q.record \in Past'
      <3>1. CASE Succeeds(q)
        BY <1>0, <1>2, <3>1 DEF DeletionsPast
      <3>2. CASE Remove /\ Holds(main, q)
        <4>1. main.method = "delete" /\ main.record = q.record
          BY <1>2, <3>2 DEF Tracked, Linked
        <4>2. q.record \in Born
          BY <1>2 DEF KnownBorn
        <4>3. CASE q.record \in Live
          BY <3>2, <4>1, <4>2, <4>3 DEF Remove, Removed, Past, Live
        <4>4. CASE q.record \notin Live
          BY <1>0, <4>2, <4>4 DEF Past, Born, Live
        <4>. QED BY <4>3, <4>4
      <3>. QED BY <1>2, <2>2, <3>1, <3>2, SucceedsStep
    <2>. QED BY <2>1, <2>2
  <1>. QED BY <1>1, <1>2

-----------------------------------------------------------------------------
(* The view that a picker has, or will have when it has read its pipe, is  *)
(* the last that was published, as long as none is in hand.                *)

NoView(out) == \A a \in Lines(out) : a.kind # "snapshot"

LastView(out, codes) ==
    \E k \in 1..Len(out) :
        /\ out[k].kind = "snapshot" /\ out[k].codes = codes
        /\ \A l \in (k + 1)..Len(out) : out[l].kind # "snapshot"

LEMMA ViewWritten ==
    ASSUME NEW S, NEW out \in Seq(S), NEW s, s.kind = "snapshot"
    PROVE  LastView(Append(out, s), s.codes)
  <1>1. /\ Len(out) \in Nat /\ Len(Append(out, s)) = Len(out) + 1
        /\ Append(out, s)[Len(out) + 1] = s
    OBVIOUS
  <1>2. Len(out) + 1 \in 1..Len(Append(out, s))
    BY <1>1
  <1>3. (Len(out) + 1 + 1)..Len(Append(out, s)) = {}
    BY <1>1
  <1>. QED BY <1>1, <1>2, <1>3 DEF LastView

LEMMA AnswerWritten ==
    ASSUME NEW S, NEW out \in Seq(S), NEW a, a.kind # "snapshot", NEW codes,
           LastView(out, codes)
    PROVE  LastView(Append(out, a), codes)
  <1>1. /\ Len(out) \in Nat /\ Len(Append(out, a)) = Len(out) + 1
        /\ \A i \in 1..Len(out) : Append(out, a)[i] = out[i]
        /\ Append(out, a)[Len(out) + 1] = a
    OBVIOUS
  <1>2. PICK k \in 1..Len(out) :
           /\ out[k].kind = "snapshot" /\ out[k].codes = codes
           /\ \A l \in (k + 1)..Len(out) : out[l].kind # "snapshot"
    BY DEF LastView
  <1>3. k \in 1..Len(Append(out, a)) /\ Append(out, a)[k] = out[k]
    BY <1>1
  <1>4. ASSUME NEW l \in (k + 1)..Len(Append(out, a)) PROVE Append(out, a)[l].kind # "snapshot"
    <2>1. CASE l = Len(out) + 1
      BY <1>1, <2>1
    <2>2. CASE l # Len(out) + 1
      <3>1. l \in (k + 1)..Len(out) /\ l \in 1..Len(out)
        BY <1>1, <2>2
      <3>. QED BY <1>1, <1>2, <3>1
    <2>. QED BY <2>1, <2>2
  <1>. QED BY <1>2, <1>3, <1>4 DEF LastView

LEMMA ViewRead ==
    ASSUME NEW S, NEW out \in Seq(S), out # <<>>, NEW codes, LastView(out, codes)
    PROVE  \/ LastView(Tail(out), codes)
           \/ /\ Head(out).kind = "snapshot" /\ Head(out).codes = codes
              /\ NoView(Tail(out))
  <1>1. /\ Len(out) \in Nat /\ Len(Tail(out)) = Len(out) - 1
        /\ \A k \in 1..Len(Tail(out)) : Tail(out)[k] = out[k + 1]
        /\ Head(out) = out[1]
    OBVIOUS
  <1>2. PICK k \in 1..Len(out) :
           /\ out[k].kind = "snapshot" /\ out[k].codes = codes
           /\ \A l \in (k + 1)..Len(out) : out[l].kind # "snapshot"
    BY DEF LastView
  <1>3. CASE k = 1
    <2>1. ASSUME NEW i \in 1..Len(Tail(out)) PROVE Tail(out)[i].kind # "snapshot"
      <3>1. i + 1 \in (k + 1)..Len(out)
        BY <1>1, <1>3
      <3>. QED BY <1>1, <1>2, <3>1
    <2>. QED BY <1>1, <1>2, <1>3, <2>1 DEF NoView, Lines
  <1>4. CASE k # 1
    <2>1. k - 1 \in 1..Len(Tail(out)) /\ (k - 1) + 1 = k
      BY <1>1, <1>4
    <2>2. Tail(out)[k - 1] = out[k]
      BY <1>1, <2>1
    <2>3. ASSUME NEW l \in ((k - 1) + 1)..Len(Tail(out)) PROVE Tail(out)[l].kind # "snapshot"
      <3>1. l + 1 \in (k + 1)..Len(out) /\ l \in 1..Len(Tail(out))
        BY <1>1, <2>1
      <3>. QED BY <1>1, <1>2, <3>1
    <2>. QED BY <1>2, <2>1, <2>2, <2>3 DEF LastView
  <1>. QED BY <1>3, <1>4

LEMMA LastViewIsView ==
    ASSUME NEW out, NEW codes, LastView(out, codes)
    PROVE  ~NoView(out)
  BY DEF LastView, NoView, Lines

(* When no snapshot is in hand, one was not a moment ago either, or it was *)
(* written just now, or the bridge has just started.                       *)
LEMMA PublisherStep ==
    ASSUME TInv, Quiet, [Next]_vars, Running', publisher' = "nobody"
    PROVE  \/ WritesSnapshot
           \/ StartBridge
           \/ Running /\ publisher = "nobody" /\ published' = published
  <1> USE DEF store, picker, bridge, history, Running, At
  <1>1. CASE Emit \/ TickEmits \/ ReaderEmits
    BY <1>1 DEF Emit, TickEmits, ReaderEmits, EmitSnapshot, WritesSnapshot
  <1>2. CASE Take \/ Tick \/ Announce
    BY <1>2 DEF Take, Tick, Announce, TakeSnapshot
  <1>3. CASE BridgeDies
    BY <1>3 DEF BridgeDies, Dead
  <1>4. CASE StartBridge
    BY <1>4
  <1>5. CASE User \/ ApplySnapshot \/ HandleResponse \/ BridgeExited \/ DropExpired
    <2>1. UNCHANGED <<main, publisher, published>>
      BY <1>5 DEF User, Refresh, Clear, DeleteRecord, Activate, ApplySnapshot, HandleResponse,
                  BridgeExited, DropExpired
    <2>. QED BY <2>1
  <1>6. CASE HandleLine \/ AskSources \/ Get \/ Copy \/ Paste \/ Remove \/ StoreFails \/ Reply
    <2>1. main.at # "dead" /\ UNCHANGED <<publisher, published>>
      BY <1>6 DEF HandleLine, AskSources, Get, Copy, Paste, Remove, StoreFails, Reply
    <2>. QED BY <2>1
  <1>7. CASE TickFails \/ AnnounceFails \/ Elsewhere \/ (\E r \in Record : Ingest(r))
             \/ UNCHANGED vars
    <2>1. UNCHANGED <<main, publisher, published>>
      BY <1>7 DEF TickFails, AnnounceFails, Elsewhere, Becomes, Ingest, vars
    <2>. QED BY <2>1
  <1>. QED
    BY <1>1, <1>2, <1>3, <1>4, <1>5, <1>6, <1>7
       DEF Next, Service, Dispatch, Maintenance, Reader

Viewed ==
    (NoView(output) /\ records \subseteq published) \/ LastView(output, published)

ViewsPublished == Running /\ publisher = "nobody" => Viewed

LEMMA ViewsPublishedNext ==
    TInv /\ Quiet /\ KnownBorn /\ ViewsPublished /\ [Next]_vars => ViewsPublished'
  <1> SUFFICES ASSUME TInv, Quiet, KnownBorn, ViewsPublished, [Next]_vars,
                      Running', publisher' = "nobody"
               PROVE  Viewed'
    BY DEF ViewsPublished
  <1>0. output \in Seq(Line)
    BY DEF TInv, Types
  <1>1. CASE WritesSnapshot
    <2> DEFINE s == [kind |-> "snapshot", codes |-> published]
    <2>1. s.kind = "snapshot" /\ s.codes = published
      OBVIOUS
    <2>2. output' = Append(output, s) /\ published' = published
      BY <1>1 DEF WritesSnapshot
    <2>. HIDE DEF s
    <2>3. LastView(Append(output, s), s.codes)
      BY <1>0, <2>1, ViewWritten
    <2>. QED BY <2>1, <2>2, <2>3 DEF Viewed
  <1>2. CASE StartBridge
    <2>1. output' = <<>> /\ records' = {}
      BY <1>2 DEF StartBridge, TInv, Connected, KnownBorn
    <2>2. Lines(output') = {}
      BY <2>1 DEF Lines
    <2>. QED BY <2>1, <2>2 DEF Viewed, NoView
  <1>3. CASE Running /\ publisher = "nobody" /\ published' = published
    <2>0. Viewed
      BY <1>3 DEF ViewsPublished
    <2>1. CASE output' = output
      <3>1. ~ApplySnapshot
        BY <1>0, <2>1 DEF ApplySnapshot, Reading
      <3>2. records' \subseteq records
        BY <3>1, KnownStep
      <3>. QED BY <1>3, <2>0, <2>1, <3>2 DEF Viewed
    <2>2. CASE WritesAnswer
      <3> DEFINE a == [kind |-> "answer", id |-> main.id, ok |-> main.ok,
                       record |-> main.record, deleted |-> main.deleted]
      <3>1. output' = Append(output, a) /\ records' = records
        BY <2>2 DEF WritesAnswer, Reply, picker
      <3>2. a.kind # "snapshot"
        OBVIOUS
      <3>. HIDE DEF a
      <3>3. LastView(output, published) => LastView(output', published')
        BY <1>0, <1>3, <3>1, <3>2, AnswerWritten
      <3>4. Lines(output') = Lines(output) \cup {a}
        BY <1>0, <3>1, LinesAppended
      <3>. QED BY <1>3, <2>0, <3>1, <3>2, <3>3, <3>4 DEF Viewed, NoView
    <2>3. CASE Reads
      <3>1. Lines(output) = {Head(output)} \cup Lines(output') /\ output' = Tail(output)
            /\ output # <<>>
        BY <1>0, <2>3, LinesRead DEF Reads
      <3>2. LastView(output, published) =>
               \/ LastView(output', published')
               \/ /\ Head(output).kind = "snapshot" /\ Head(output).codes = published
                  /\ NoView(output')
        BY <1>0, <1>3, <3>1, ViewRead
      <3>3. CASE ApplySnapshot /\ Head(output).kind = "snapshot"
        <4>1. records' = Head(output).codes /\ ~NoView(output)
          BY <3>1, <3>3 DEF ApplySnapshot, NoView
        <4>. QED BY <1>3, <2>0, <3>2, <4>1 DEF Viewed
      <3>4. CASE HandleResponse /\ Head(output).kind = "answer"
        <4>1. ~ApplySnapshot
          BY <3>4 DEF ApplySnapshot, Reading
        <4>2. records' \subseteq records /\ (NoView(output) => NoView(output'))
          BY <3>1, <4>1, KnownStep DEF NoView
        <4>. QED BY <1>3, <2>0, <3>2, <3>4, <4>2 DEF Viewed
      <3>5. (ApplySnapshot /\ Head(output).kind = "snapshot")
            \/ (HandleResponse /\ Head(output).kind = "answer")
        <4>1. ~WritesSnapshot
          BY <1>3 DEF WritesSnapshot
        <4>2. output' # output /\ ~WritesAnswer
          BY <1>0, <2>3 DEF WritesAnswer, Reads
        <4>. QED BY <4>1, <4>2, OutputStep
      <3>. QED BY <3>3, <3>4, <3>5
    <2>4. ~WritesSnapshot
      BY <1>3 DEF WritesSnapshot
    <2>. QED BY <2>1, <2>2, <2>3, <2>4, OutputStep
  <1>. QED BY <1>1, <1>2, <1>3, PublisherStep
-----------------------------------------------------------------------------
(* A code that the bridge has published last and that is still live is     *)
(* missing from the picker only while a request that hides it, or that     *)
(* will bring it back, is under way.                                       *)

Hides(q, r) ==
    q.method \in {"refresh", "clear"} \/ (q.method = "delete" /\ q.record = r)

(* It has yet to be served, or it fails.                                   *)
Outstanding(q) ==
    \/ q \in Lines(input)
    \/ /\ Holds(main, q)
       /\ main.at \in {"sources", "remove", "take"} \/ (main.at = "answer" /\ ~main.ok)
    \/ \E a \in Lines(output) : IsAnswer(a, q) /\ ~a.ok

Excused(r) == \E q \in pending : Hides(q, r) /\ Outstanding(q)

MissingExcused ==
    Running /\ publisher = "nobody" /\ NoView(output) /\ adrift = {}
        => \A r \in (published \cap Live) \ records : Excused(r)

(* A request that is just being sent is on its way.                        *)
LEMMA SentExcuses ==
    ASSUME TInv, Running, NEW requests, NEW method, NEW record,
           SendRequest(requests, method, record), NEW r,
           method \in {"refresh", "clear"} \/ (method = "delete" /\ record = r),
           [id |-> FreeId(requests), method |-> method, record |-> record] \in Request
    PROVE  Excused(r)' /\ Lines(input) \subseteq Lines(input')
  <1> DEFINE n == [id |-> FreeId(requests), method |-> method, record |-> record]
  <1>1. n \in pending' /\ input' = Append(input, n) /\ n.method = method /\ n.record = record
    BY DEF SendRequest
  <1>. HIDE DEF n
  <1>2. Lines(input') = Lines(input) \cup {n}
    BY <1>1, LinesAppended DEF TInv, Types
  <1>. QED BY <1>1, <1>2 DEF Excused, Hides, Outstanding

(* A live code is hidden by a request only, or for a reason that is known. *)
LEMMA HiddenExcused ==
    ASSUME TInv, Tracked, DeletionsPast, [Next]_vars, Running, ~ApplySnapshot,
           adrift' = {}, NEW r \in Live, r \in Live', r \in records, r \notin records'
    PROVE  Excused(r)'
  <1> USE DEF store, picker, bridge, history
  <1>1. CASE User
    <2>1. /\ Ready
          /\ \/ SendRequest(pending, "clear", NoRecord)
             \/ SendRequest(pending, "delete", r)
      BY <1>1 DEF User, Refresh, Clear, DeleteRecord, Activate
    <2>2. FreeId(pending) \in Id
      BY <2>1, FreeNumber DEF Ready
    <2>3. r \in Record
      BY DEF Live
    <2>. QED BY <2>1, <2>2, <2>3, SentExcuses DEF Request, Method
  <1>2. CASE HandleResponse
    <2>1. PICK q \in pending :
             /\ q.id = Head(output).id
             /\ Head(output).ok /\ HandleSuccess(q, Head(output))
      BY <1>2 DEF HandleResponse, HandleFailure
    <2>2. q.method = "delete" /\ q.record = r
      BY <2>1 DEF HandleSuccess
    <2>3. Head(output) \in Lines(output) /\ Head(output).kind = "answer"
      BY <1>2, LinesRead DEF HandleResponse, Reading, TInv, Types
    <2>4. r \in Past
      BY <2>1, <2>2, <2>3 DEF DeletionsPast, IsAnswer
    <2>. QED BY <2>4 DEF Past, Live
  <1>3. CASE BridgeExited
    BY <1>3 DEF BridgeExited
  <1>4. CASE StartBridge
    BY <1>4 DEF StartBridge
  <1>5. CASE DropExpired
    BY <1>5 DEF DropExpired, Live
  <1>. QED
    BY <1>1, <1>2, <1>3, <1>4, <1>5
       DEF Next, Service, Dispatch, HandleLine, AskSources, Get, Copy, Paste, Remove, Take, Emit,
           StoreFails, Reply, Maintenance, Tick, TickEmits, Reader, Announce, ReaderEmits,
           TickFails, AnnounceFails, BridgeDies, Elsewhere, Becomes, Ingest, vars

(* Only what hides it has failed when a request that hides a code ends.    *)
LEMMA EndExcused ==
    ASSUME TInv, Tracked, HandleResponse, Running, adrift' = {}, NEW r, Excused(r)
    PROVE  Excused(r)'
  <1>0. /\ pending \in SUBSET Request /\ input \in Seq(Request) /\ output \in Seq(Line)
        /\ main \in Dispatcher /\ InOnePlace(pending, input, output, main)
        /\ Linked(pending, output, main)
    BY DEF TInv, Types, Tracked
  <1>1. /\ output # <<>> /\ output' = Tail(output) /\ Head(output).kind = "answer"
        /\ main' = main
    BY DEF HandleResponse, Reading, bridge
  <1>2. PICK q \in pending :
           /\ q.id = Head(output).id
           /\ IF Head(output).ok THEN HandleSuccess(q, Head(output)) ELSE HandleFailure(q)
    BY DEF HandleResponse
  <1>3. PICK e \in pending : Hides(e, r) /\ Outstanding(e)
    BY DEF Excused
  <1>4. Lines(output) = {Head(output)} \cup Lines(output')
    BY <1>0, <1>1, LinesRead
  <1>5. IsAnswer(Head(output), q) /\ Head(output) \in Lines(output)
    BY <1>1, <1>2, <1>4 DEF IsAnswer
  <1>6. CASE e = q
    <2>1. ~Head(output).ok
      <3>1. e \notin Lines(input) /\ ~Holds(main, e)
        BY <1>0, <1>5, <1>6, Apart DEF Separate
      <3>2. \A a \in Lines(output') : ~IsAnswer(a, q)
        BY <1>0, <1>1, <1>5, ReadLinked
      <3>. QED BY <1>3, <1>4, <1>6, <3>1, <3>2 DEF Outstanding
    <2>2. HandleFailure(q)
      BY <1>2, <2>1
    <2>3. q.method # "refresh"
      BY <2>2 DEF HandleFailure
    <2>4. SendRequest(pending \ {q}, "refresh", NoRecord)
      BY <1>3, <1>6, <2>2, <2>3 DEF HandleFailure, Hides
    <2>5. FreeId(pending \ {q}) \in Id
      <3>1. \A s \in pending \ {q} : s.id # q.id
        BY <1>0, Apart DEF Separate
      <3>2. q.id \in Id
        BY <1>0 DEF Request
      <3>. QED BY <3>1, <3>2, FreeNumber
    <2>. QED BY <2>4, <2>5, SentExcuses DEF Request, Method
  <1>7. CASE e # q
    <2>1. e \in pending' /\ Lines(input) \subseteq Lines(input')
      <3>1. CASE UNCHANGED input
        BY <1>2, <1>7, <3>1 DEF HandleSuccess, HandleFailure, SendRequest
      <3>2. CASE SendRequest(pending \ {q}, "refresh", NoRecord)
        BY <1>0, <1>7, <3>2, LinesAppended DEF SendRequest
      <3>. QED BY <1>2, <3>1, <3>2 DEF HandleSuccess, HandleFailure
    <2>2. ~IsAnswer(Head(output), e)
      BY <1>0, <1>1, <1>5, <1>7, ReadLinked
    <2>. QED BY <1>1, <1>3, <1>4, <2>1, <2>2 DEF Excused, Outstanding
  <1>. QED BY <1>6, <1>7
(* The dispatch thread serves it, which removes the code or publishes, or  *)
(* says that it has failed.                                                *)
LEMMA DispatchExcused ==
    ASSUME TInv, Tracked, Dispatch, publisher' = "nobody", NEW r \in Live, r \in Live',
           Excused(r)
    PROVE  Excused(r)'
  <1> USE DEF picker, At
  <1>0. /\ input \in Seq(Request) /\ output \in Seq(Line) /\ main \in Dispatcher
        /\ UNCHANGED pending
    BY DEF TInv, Types, Dispatch, HandleLine, AskSources, Get, Copy, Paste, Remove, Take, Emit,
           StoreFails, Reply
  <1>1. PICK q \in pending : Hides(q, r) /\ Outstanding(q)
    BY DEF Excused
  <1>2. SUFFICES Outstanding(q)'
    BY <1>0, <1>1 DEF Excused
  <1>3. Lines(output) \subseteq Lines(output')
    <2>1. CASE output' = output
      BY <2>1
    <2>2. CASE WritesSnapshot
      BY <1>0, <2>2, LinesAppended DEF WritesSnapshot
    <2>3. CASE WritesAnswer
      BY <1>0, <2>3, LinesAppended DEF WritesAnswer
    <2>. QED
      BY <2>1, <2>2, <2>3, OutputStep
         DEF Next, Dispatch, HandleLine, AskSources, Get, Copy, Paste, Remove, Take, Emit,
             EmitSnapshot,
             StoreFails, Reply, WritesSnapshot, WritesAnswer
  <1>4. CASE \E a \in Lines(output) : IsAnswer(a, q) /\ ~a.ok
    BY <1>3, <1>4 DEF Outstanding
  <1>5. CASE q \in Lines(input)
    <2>1. CASE HandleLine
      <3>1. /\ input # <<>> /\ input' = Tail(input) /\ Begin(Head(input))
            /\ Lines(input) = {Head(input)} \cup Lines(input')
        BY <1>0, <2>1, LinesRead DEF HandleLine
      <3>2. CASE Head(input) = q
        <4>1. q.method \in {"refresh", "delete", "clear"} /\ q \in Request
          BY <1>0, <1>1, <3>1, <3>2 DEF Hides
        <4>2. main'.at \in {"sources", "remove"} /\ main'.id = q.id /\ main'.method = q.method
          <5>1. CASE q.method = "refresh"
            BY <3>1, <3>2, <5>1 DEF Begin
          <5>2. CASE q.method \in {"delete", "clear"}
            BY <3>1, <3>2, <5>2 DEF Begin
          <5>. QED BY <4>1, <5>1, <5>2
        <4>. QED BY <4>1, <4>2 DEF Outstanding, Holds, Busy
      <3>. QED BY <1>5, <3>1, <3>2 DEF Outstanding
    <2>2. CASE ~HandleLine
      <3>1. input' = input
        BY <2>2 DEF Dispatch, AskSources, Get, Copy, Paste, Remove, Take, Emit, StoreFails, Reply
      <3>. QED BY <1>5, <3>1 DEF Outstanding
    <2>. QED BY <2>1, <2>2
  <1>6. CASE /\ Holds(main, q)
             /\ main.at \in {"sources", "remove", "take"} \/ (main.at = "answer" /\ ~main.ok)
    <2>1. main.method = q.method /\ main.record = q.record /\ main.method # "start"
      BY <1>6 DEF Tracked, Linked, Holds, Busy
    <2>2. CASE Remove
      <3>1. main.at = "remove" /\ r \in Removed
        BY <1>1, <2>1, <2>2 DEF Remove, Removed, Hides, Tracked, Dutiful
      <3>2. r \notin Live'
        BY <2>2, <3>1 DEF Remove, Live
      <3>. QED BY <3>2
    <2>3. CASE StoreFails
      <3>1. main'.at = "answer" /\ ~main'.ok /\ main'.id = main.id /\ main'.method = main.method
        BY <1>0, <2>3 DEF StoreFails, Refuse, Dispatcher
      <3>. QED BY <1>6, <2>1, <3>1 DEF Outstanding, Holds, Busy
    <2>4. CASE Reply
      <3> DEFINE a == [kind |-> "answer", id |-> main.id, ok |-> main.ok,
                       record |-> main.record, deleted |-> main.deleted]
      <3>1. main.at = "answer" /\ output' = Append(output, a)
        BY <2>4 DEF Reply
      <3>2. IsAnswer(a, q) /\ ~a.ok
        BY <1>6, <3>1 DEF IsAnswer, Holds
      <3>. HIDE DEF a
      <3>3. Lines(output') = Lines(output) \cup {a}
        BY <1>0, <3>1, LinesAppended
      <3>. QED BY <3>2, <3>3 DEF Outstanding
    <2>5. CASE Take
      BY <2>5 DEF Take, TakeSnapshot
    <2>6. ~HandleLine /\ ~Get /\ ~Copy /\ ~Paste /\ ~Emit
      BY <1>6 DEF HandleLine, AskSources, Get, Copy, Paste, Emit
    <2>7. CASE AskSources
      <3>1. /\ main'.at = "take" \/ (main'.at = "answer" /\ ~main'.ok)
            /\ main'.id = main.id /\ main'.method = main.method
        BY <1>0, <2>7 DEF AskSources, Go, Refuse, Dispatcher
      <3>. QED BY <1>6, <2>1, <3>1 DEF Outstanding, Holds, Busy
    <2>. QED BY <2>2, <2>3, <2>4, <2>5, <2>6, <2>7 DEF Dispatch
  <1>. QED BY <1>1, <1>4, <1>5, <1>6 DEF Outstanding

LEMMA StaysExcused ==
    ASSUME TInv, Tracked, [Next]_vars, Running, Running', ~ApplySnapshot, adrift' = {},
           publisher' = "nobody", NEW r \in Live, r \in Live', Excused(r)
    PROVE  Excused(r)'
  <1> USE DEF store, picker, bridge, history
  <1>1. CASE User
    <2>1. /\ Ready /\ UNCHANGED <<output, main>>
          /\ \E method \in Method, record \in Record \cup {NoRecord} :
                SendRequest(pending, method, record)
      BY <1>1 DEF User, Refresh, Clear, DeleteRecord, Activate, TInv, Types, Method
    <2>2. pending \subseteq pending' /\ Lines(input) \subseteq Lines(input')
      <3>1. PICK method \in Method, record \in Record \cup {NoRecord} :
               SendRequest(pending, method, record)
        BY <2>1
      <3> DEFINE n == [id |-> FreeId(pending), method |-> method, record |-> record]
      <3>2. n \in Request
        BY <2>1, FreeNumber DEF Ready, Request
      <3>3. pending' = pending \cup {n} /\ input' = Append(input, n)
        BY <3>1 DEF SendRequest
      <3>. HIDE DEF n
      <3>. QED BY <3>2, <3>3, LinesAppended DEF TInv, Types
    <2>. QED BY <2>1, <2>2 DEF Excused, Outstanding
  <1>2. CASE UNCHANGED <<pending, input, main>> /\ Lines(output) \subseteq Lines(output')
    BY <1>2 DEF Excused, Outstanding
  <1>3. CASE TickEmits \/ ReaderEmits
    <2>1. output \in Seq(Line) /\ UNCHANGED <<pending, input, main>>
          /\ output' = Append(output, [kind |-> "snapshot", codes |-> published])
      BY <1>3 DEF TickEmits, ReaderEmits, EmitSnapshot, TInv, Types
    <2>. QED BY <1>2, <2>1, LinesAppended
  <1>4. CASE StartBridge \/ BridgeExited \/ BridgeDies
    BY <1>4 DEF StartBridge, BridgeExited, BridgeDies, TInv, Connected, Running, At, Dead
  <1>5. CASE DropExpired \/ Tick \/ TickFails \/ Announce \/ AnnounceFails \/ Elsewhere
             \/ (\E s \in Record : Ingest(s)) \/ UNCHANGED vars
    <2>1. UNCHANGED <<pending, input, main, output>>
      BY <1>5 DEF DropExpired, Tick, TickFails, Announce, AnnounceFails, Elsewhere, Becomes,
                  Ingest, vars
    <2>. QED BY <1>2, <2>1
  <1>. QED BY <1>1, <1>3, <1>4, <1>5, EndExcused, DispatchExcused
           DEF Next, Service, Maintenance, Reader
LEMMA MissingExcusedNext ==
    /\ TInv /\ Quiet /\ Tracked /\ KnownBorn /\ DeletionsPast /\ ViewsPublished
    /\ MissingExcused /\ [Next]_vars
    => MissingExcused'
  <1> SUFFICES ASSUME TInv, Quiet, Tracked, KnownBorn, DeletionsPast, ViewsPublished,
                      MissingExcused, [Next]_vars, Running', publisher' = "nobody",
                      NoView(output'), adrift' = {},
                      NEW r \in (published' \cap Live') \ records'
               PROVE  Excused(r)'
    BY DEF MissingExcused
  <1>0. output \in Seq(Line)
    BY DEF TInv, Types
  <1>1. ~WritesSnapshot
    <2>1. SUFFICES ASSUME WritesSnapshot PROVE FALSE
      OBVIOUS
    <2> DEFINE s == [kind |-> "snapshot", codes |-> published]
    <2>2. output' = Append(output, s)
      BY <2>1 DEF WritesSnapshot
    <2>3. s.kind = "snapshot"
      OBVIOUS
    <2>. HIDE DEF s
    <2>4. s \in Lines(output')
      BY <1>0, <2>2, LinesAppended
    <2>. QED BY <2>3, <2>4 DEF NoView
  <1>2. ~StartBridge
    BY DEF StartBridge
  <1>3. Running /\ publisher = "nobody" /\ published' = published
    BY <1>1, <1>2, PublisherStep
  <1>4. r \in published /\ r \in Live
    BY <1>3, StatusStep DEF KnownBorn
  <1>5. ~ApplySnapshot
    <2>1. SUFFICES ASSUME ApplySnapshot PROVE FALSE
      OBVIOUS
    <2>2. /\ output # <<>> /\ output' = Tail(output) /\ Head(output).kind = "snapshot"
          /\ records' = Head(output).codes
      BY <2>1 DEF ApplySnapshot, Reading
    <2>3. LastView(output, published)
      BY <1>0, <1>3, <2>2, LinesRead DEF ViewsPublished, Viewed, NoView
    <2>4. Head(output).codes = published
      BY <1>0, <2>2, <2>3, ViewRead, LastViewIsView
    <2>. QED BY <1>4, <2>2, <2>4
  <1>6. NoView(output)
    <2>1. CASE WritesAnswer
      BY <1>0, <2>1, LinesAppended DEF WritesAnswer, NoView
    <2>2. CASE Reads /\ Head(output).kind = "answer"
      BY <1>0, <2>2, LinesRead DEF Reads, NoView
    <2>. QED BY <1>1, <1>5, <2>1, <2>2, OutputStep
  <1>7. adrift = {}
    <2>1. ~BridgeExited
      BY <1>3 DEF BridgeExited
    <2>2. CASE HandleResponse
      BY <2>2 DEF HandleResponse, HandleSuccess, HandleFailure
    <2>. QED
      BY <1>5, <2>1, <2>2
         DEF Next, User, Refresh, Clear, DeleteRecord, Activate, Service, StartBridge,
             DropExpired, Dispatch, HandleLine, AskSources, Get, Copy, Paste, Remove, Take, Emit,
             StoreFails, Reply, Maintenance, Tick, TickEmits, Reader, Announce, ReaderEmits,
             TickFails, AnnounceFails, BridgeDies, Elsewhere, Becomes, Ingest, vars, history
  <1>8. CASE r \in records
    BY <1>3, <1>4, <1>5, <1>8, HiddenExcused
  <1>9. CASE r \notin records
    <2>1. Excused(r)
      BY <1>3, <1>4, <1>6, <1>7, <1>9 DEF MissingExcused
    <2>. QED BY <1>3, <1>4, <1>5, <2>1, StaysExcused
  <1>. QED BY <1>8, <1>9

(* A picker that waits for nothing shows what the bridge published last,   *)
(* but for codes that are not live any more, unless it knows a reason: a   *)
(* deletion it hid and that failed does not stay hidden, and no answer     *)
(* undoes a later snapshot (Service.qml:325-355, bridge.py:133-138).       *)
THEOREM Agreement == Spec => []PickerAgrees
  <1> DEFINE Views == KnownBorn /\ DeletionsPast /\ ViewsPublished /\ MissingExcused
  <1>1. Init => Views
    BY DEF Init, KnownBorn, DeletionsPast, ViewsPublished, MissingExcused, Running, At, Dead,
           Lines
  <1>2. TInv /\ Quiet /\ Tracked /\ Tracked' /\ Views /\ [Next]_vars => Views'
    BY KnownBornNext, DeletionsPastNext, ViewsPublishedNext, MissingExcusedNext
  <1>3. TInv /\ Views => PickerAgrees
    <2> SUFFICES ASSUME TInv, ViewsPublished, MissingExcused, Running, pending = {},
                        output = <<>>, publisher = "nobody", adrift = {}
                 PROVE  records \subseteq published /\ published \cap Live \subseteq records
      BY DEF PickerAgrees
    <2>1. NoView(output) /\ ~LastView(output, published)
      BY LastViewIsView DEF NoView, Lines
    <2>2. records \subseteq published
      BY <2>1 DEF ViewsPublished, Viewed
    <2>3. ASSUME NEW r \in published \cap Live, r \notin records PROVE FALSE
      BY <2>1, <2>3 DEF MissingExcused, Excused
    <2>. QED BY <2>2, <2>3
  <1>. QED
    <2>. HIDE DEF Views
    <2>. QED BY <1>1, <1>2, <1>3, TrackedAlways, TypesKept, PTL DEF Spec
=============================================================================
