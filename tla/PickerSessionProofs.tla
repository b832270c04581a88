------------------------- MODULE PickerSessionProofs -------------------------
(***************************************************************************)
(* Proofs about PickerSession: its types, that a code whose consumption    *)
(* was confirmed is not shown again, and that activation consumes only     *)
(* what it has copied, for any number of codes, requests in flight and     *)
(* lines in the pipe.                                                      *)
(***************************************************************************)
EXTENDS PickerSession, TLAPS

Points == {"dead", "loop", "sources", "get", "copy", "paste", "remove", "take", "emit",
           "answer"}

Dispatcher == {m \in [at : Points, id : Id, method : Method \cup {"start"},
                      record : Record \cup {NoRecord}, ok : BOOLEAN, deleted : BOOLEAN] :
                  m.deleted => m.record \in Record}

Line == Snapshot \cup Answer

-----------------------------------------------------------------------------
(* A request in flight is in one place: on its way to the bridge, in the   *)
(* hands of the dispatch thread m, or answered by a line on its way back.  *)
(* Its number tells it from all others there.                              *)

Busy(m) == m.at \notin {"dead", "loop"} /\ m.method # "start"

InOnePlace(p, in, out, m) ==
    /\ \A q1, q2 \in p : q1.id = q2.id => q1 = q2
    /\ \A i \in 1..Len(in) : in[i] \in p
    /\ \A i, j \in 1..Len(in) : i # j => in[i].id # in[j].id
    /\ Busy(m) =>
          /\ \E q \in p : q.id = m.id
          /\ \A i \in 1..Len(in) : in[i].id # m.id
    /\ \A k \in 1..Len(out) : out[k].kind = "answer" =>
          /\ \E q \in p : q.id = out[k].id
          /\ \A i \in 1..Len(in) : in[i].id # out[k].id
          /\ Busy(m) => out[k].id # m.id
          /\ \A l \in 1..Len(out) : l # k /\ out[l].kind = "answer" => out[l].id # out[k].id

Connected ==
    /\ Running => bridgeAlive
    /\ ~Running => input = <<>>
    /\ ~bridgeAlive => pending = {} /\ output = <<>>

Types ==
    /\ status \in [Record -> {"awaited", "live", "gone", "expired"}]
    /\ records \in SUBSET Record
    /\ pending \in SUBSET Request
    /\ bridgeAlive \in BOOLEAN
    /\ input \in Seq(Request)
    /\ output \in Seq(Line)
    /\ main \in Dispatcher
    /\ publisher \in {"nobody", "main", "maintenance", "reader"}
    /\ published \in SUBSET Record
    /\ maintenance \in {"off", "on", "ended"}
    /\ ingested \in BOOLEAN
    /\ copied \in SUBSET Record
    /\ confirmed \in SUBSET Record
    /\ adrift \in SUBSET {"wiped", "unrefreshed"}

(* What the dispatch thread holds at its points                            *)
Doing ==
    /\ main.method = "start" => main.at \in {"dead", "loop", "sources", "take", "emit"}
    /\ main.at = "copy" => main.record \in Record
    /\ main.at = "paste" => main.record \in copied
    /\ main.at = "remove" /\ main.method = "activate" => main.record \in copied

TInv == Types /\ Connected /\ Doing /\ InOnePlace(pending, input, output, main)

(* A number that no request in flight has can be found if there is one.    *)
LEMMA FreeNumber ==
    ASSUME NEW requests, \E id \in Id : \A q \in requests : q.id # id
    PROVE  FreeId(requests) \in Id /\ \A q \in requests : q.id # FreeId(requests)
  BY DEF FreeId

(* The picker has read a line that answers nothing.                        *)
LEMMA ReadSnapshot ==
    ASSUME NEW p \in SUBSET Request, NEW in \in Seq(Request), NEW out \in Seq(Line),
           NEW m \in Dispatcher, InOnePlace(p, in, out, m), out # <<>>
    PROVE  InOnePlace(p, in, Tail(out), m)
  <1>1. /\ Tail(out) \in Seq(Line) /\ Len(Tail(out)) = Len(out) - 1
        /\ \A k \in 1..Len(Tail(out)) : Tail(out)[k] = out[k + 1]
        /\ Len(out) \in Nat
    OBVIOUS
  <1>2. \A k \in 1..Len(Tail(out)) : k + 1 \in 1..Len(out)
    BY <1>1
  <1>3. ASSUME NEW k \in 1..Len(Tail(out)), Tail(out)[k].kind = "answer"
        PROVE  /\ \E q \in p : q.id = Tail(out)[k].id
               /\ \A i \in 1..Len(in) : in[i].id # Tail(out)[k].id
               /\ Busy(m) => Tail(out)[k].id # m.id
               /\ \A l \in 1..Len(Tail(out)) :
                     l # k /\ Tail(out)[l].kind = "answer" => Tail(out)[l].id # Tail(out)[k].id
    <2>1. k + 1 \in 1..Len(out) /\ Tail(out)[k] = out[k + 1]
      BY <1>1, <1>2
    <2>2. ASSUME NEW l \in 1..Len(Tail(out)), l # k, Tail(out)[l].kind = "answer"
          PROVE  Tail(out)[l].id # Tail(out)[k].id
      <3>1. l + 1 \in 1..Len(out) /\ Tail(out)[l] = out[l + 1] /\ l + 1 # k + 1
        BY <1>1, <1>2, <2>2
      <3>. QED BY <1>3, <2>1, <2>2, <3>1 DEF InOnePlace
    <2>. QED BY <1>3, <2>1, <2>2 DEF InOnePlace
  <1>. QED BY <1>3 DEF InOnePlace

(* The picker has read an answer and forgets the request.                  *)
LEMMA ReadAnswer ==
    ASSUME NEW p \in SUBSET Request, NEW in \in Seq(Request), NEW out \in Seq(Line),
           NEW m \in Dispatcher, InOnePlace(p, in, out, m), out # <<>>,
           Head(out).kind = "answer", NEW q \in p, q.id = Head(out).id
    PROVE  /\ InOnePlace(p \ {q}, in, Tail(out), m)
           /\ \A r \in p \ {q} : r.id # q.id
  <1>1. /\ Tail(out) \in Seq(Line) /\ Len(Tail(out)) = Len(out) - 1
        /\ \A k \in 1..Len(Tail(out)) : Tail(out)[k] = out[k + 1]
        /\ Len(out) \in Nat /\ Head(out) = out[1] /\ 1 \in 1..Len(out)
    OBVIOUS
  <1>2. \A k \in 1..Len(Tail(out)) : k + 1 \in 1..Len(out) /\ k + 1 # 1
    BY <1>1
  <1>3. InOnePlace(p, in, Tail(out), m)
    BY ReadSnapshot
  <1>4. /\ \A i \in 1..Len(in) : in[i].id # q.id
        /\ Busy(m) => m.id # q.id
        /\ \A k \in 1..Len(Tail(out)) : Tail(out)[k].kind = "answer" => Tail(out)[k].id # q.id
    <2>1. out[1].kind = "answer" /\ out[1].id = q.id
      BY <1>1
    <2>2. \A k \in 1..Len(out) : k # 1 /\ out[k].kind = "answer" => out[k].id # out[1].id
      BY <1>1, <2>1 DEF InOnePlace
    <2>. QED BY <1>1, <1>2, <2>1, <2>2 DEF InOnePlace
  <1>5. \A r \in p \ {q} : r.id # q.id
    BY DEF InOnePlace
  <1>. QED BY <1>3, <1>4, <1>5 DEF InOnePlace

(* The picker has sent a request with a free number.                       *)
LEMMA Sent ==
    ASSUME NEW p \in SUBSET Request, NEW in \in Seq(Request), NEW out \in Seq(Line),
           NEW m \in Dispatcher, InOnePlace(p, in, out, m),
           NEW q \in Request, \A r \in p : r.id # q.id
    PROVE  InOnePlace(p \cup {q}, in, out, m) /\ InOnePlace(p \cup {q}, Append(in, q), out, m)
  <1>1. InOnePlace(p \cup {q}, in, out, m)
    BY DEF InOnePlace
  <1>2. /\ Len(Append(in, q)) = Len(in) + 1 /\ Len(in) \in Nat
        /\ \A i \in 1..Len(in) : Append(in, q)[i] = in[i]
        /\ Append(in, q)[Len(in) + 1] = q
    OBVIOUS
  <1>3. \A i \in 1..Len(Append(in, q)) : i \in 1..Len(in) \/ i = Len(in) + 1
    BY <1>2
  <1>4. \A i \in 1..Len(in) : in[i].id # q.id
    BY DEF InOnePlace
  <1>5. Busy(m) => m.id # q.id
    BY DEF InOnePlace
  <1>6. \A k \in 1..Len(out) : out[k].kind = "answer" => out[k].id # q.id
    BY DEF InOnePlace
  <1>. QED BY <1>1, <1>2, <1>3, <1>4, <1>5, <1>6 DEF InOnePlace

(* The bridge has written a snapshot.                                      *)
LEMMA WroteSnapshot ==
    ASSUME NEW p \in SUBSET Request, NEW in \in Seq(Request), NEW out \in Seq(Line),
           NEW m \in Dispatcher, InOnePlace(p, in, out, m), NEW s \in Snapshot
    PROVE  InOnePlace(p, in, Append(out, s), m)
  <1>1. /\ Len(Append(out, s)) = Len(out) + 1 /\ Len(out) \in Nat
        /\ \A i \in 1..Len(out) : Append(out, s)[i] = out[i]
        /\ Append(out, s)[Len(out) + 1] = s
    OBVIOUS
  <1>2. \A i \in 1..Len(Append(out, s)) : i \in 1..Len(out) \/ i = Len(out) + 1
    BY <1>1
  <1>3. s.kind # "answer"
    BY DEF Snapshot
  <1>. QED BY <1>1, <1>2, <1>3 DEF InOnePlace

(* The dispatch thread has answered its request.                           *)
LEMMA WroteAnswer ==
    ASSUME NEW p \in SUBSET Request, NEW in \in Seq(Request), NEW out \in Seq(Line),
           NEW m \in Dispatcher, InOnePlace(p, in, out, m), Busy(m),
           NEW a \in Answer, a.id = m.id, NEW n \in Dispatcher, ~Busy(n)
    PROVE  InOnePlace(p, in, Append(out, a), n)
  <1>1. /\ Len(Append(out, a)) = Len(out) + 1 /\ Len(out) \in Nat
        /\ \A i \in 1..Len(out) : Append(out, a)[i] = out[i]
        /\ Append(out, a)[Len(out) + 1] = a
    OBVIOUS
  <1>2. \A i \in 1..Len(Append(out, a)) : i \in 1..Len(out) \/ i = Len(out) + 1
    BY <1>1
  <1>. QED BY <1>1, <1>2 DEF InOnePlace

(* The dispatch thread has taken up a request.                             *)
LEMMA TookUp ==
    ASSUME NEW p \in SUBSET Request, NEW in \in Seq(Request), NEW out \in Seq(Line),
           NEW m \in Dispatcher, InOnePlace(p, in, out, m), in # <<>>,
           NEW n \in Dispatcher, n.id = Head(in).id
    PROVE  InOnePlace(p, Tail(in), out, n)
  <1>1. /\ Len(Tail(in)) = Len(in) - 1 /\ Len(in) \in Nat
        /\ \A k \in 1..Len(Tail(in)) : Tail(in)[k] = in[k + 1]
        /\ Head(in) = in[1] /\ 1 \in 1..Len(in)
    OBVIOUS
  <1>2. \A k \in 1..Len(Tail(in)) : k + 1 \in 1..Len(in) /\ k + 1 # 1
    BY <1>1
  <1>3. \A i, j \in 1..Len(Tail(in)) : i # j => Tail(in)[i].id # Tail(in)[j].id
    <2> SUFFICES ASSUME NEW i \in 1..Len(Tail(in)), NEW j \in 1..Len(Tail(in)), i # j
                 PROVE  Tail(in)[i].id # Tail(in)[j].id
      OBVIOUS
    <2>1. i + 1 # j + 1 /\ i + 1 \in 1..Len(in) /\ j + 1 \in 1..Len(in)
      BY <1>2
    <2>. QED BY <1>1, <2>1 DEF InOnePlace
  <1>4. \A i \in 1..Len(Tail(in)) : Tail(in)[i].id # n.id
    BY <1>1, <1>2 DEF InOnePlace
  <1>5. (\E q \in p : q.id = n.id) /\ (\A i \in 1..Len(Tail(in)) : Tail(in)[i] \in p)
    BY <1>1, <1>2 DEF InOnePlace
  <1>6. \A k \in 1..Len(out) : out[k].kind = "answer" =>
           /\ \E q \in p : q.id = out[k].id
           /\ \A i \in 1..Len(Tail(in)) : Tail(in)[i].id # out[k].id
           /\ out[k].id # n.id
           /\ \A l \in 1..Len(out) : l # k /\ out[l].kind = "answer" => out[l].id # out[k].id
    BY <1>1, <1>2 DEF InOnePlace
  <1>. QED BY <1>3, <1>4, <1>5, <1>6 DEF InOnePlace

(* The dispatch thread goes on with its request, or drops everything.      *)
LEMMA WentOn ==
    ASSUME NEW p \in SUBSET Request, NEW in \in Seq(Request), NEW out \in Seq(Line),
           NEW m \in Dispatcher, InOnePlace(p, in, out, m), NEW n \in Dispatcher,
           Busy(n) => Busy(m) /\ n.id = m.id
    PROVE  InOnePlace(p, in, out, n) /\ InOnePlace(p, <<>>, out, n)
  BY DEF InOnePlace

-----------------------------------------------------------------------------
(* Types                                                                   *)

LEMMA Unoccupied ==
    /\ 1 \in Id
    /\ Dead \in Dispatcher /\ Waiting \in Dispatcher /\ ~Busy(Dead) /\ ~Busy(Waiting)
    /\ [Dead EXCEPT !.at = "sources"] \in Dispatcher
    /\ [Dead EXCEPT !.at = "sources"].at = "sources"
    /\ [Dead EXCEPT !.at = "sources"].method = "start"
    /\ Waiting.deleted = FALSE /\ Waiting.at = "loop"
  <1>1. 1 \in Id
    BY SessionAssumption DEF Id
  <1>2. Dead \in Dispatcher /\ Dead.at = "dead" /\ Dead.method = "start" /\ Dead.deleted = FALSE
    BY <1>1 DEF Dead, Dispatcher, Points
  <1>3. \A point \in Points :
           /\ [Dead EXCEPT !.at = point] \in Dispatcher
           /\ [Dead EXCEPT !.at = point].at = point
           /\ [Dead EXCEPT !.at = point].method = "start"
           /\ [Dead EXCEPT !.at = point].deleted = FALSE
    BY <1>2 DEF Dispatcher
  <1>4. "sources" \in Points /\ "loop" \in Points
    BY DEF Points
  <1>. QED BY <1>1, <1>2, <1>3, <1>4 DEF Waiting, Busy

LEMMA TInit == Init => TInv
  <1> SUFFICES ASSUME Init PROVE TInv
    OBVIOUS
  <1>1. main \in Dispatcher /\ main.at = "dead" /\ ~Busy(main)
    BY Unoccupied DEF Init, Dead
  <1>2. Types
    <2>1. status \in [Record -> {"awaited", "live", "gone", "expired"}]
      BY DEF Init
    <2>2. input \in Seq(Request) /\ output \in Seq(Line)
      BY DEF Init
    <2>. QED BY <1>1, <2>1, <2>2 DEF Init, Types
  <1>3. Connected
    BY <1>1 DEF Init, Connected, Running, At
  <1>4. InOnePlace({}, <<>>, <<>>, main)
    BY <1>1 DEF InOnePlace
  <1>5. Doing
    BY <1>1 DEF Doing
  <1>. QED BY <1>2, <1>3, <1>4, <1>5 DEF Init, TInv

LEMMA SentStep ==
    ASSUME TInv, bridgeAlive, Ready, NEW method \in Method, NEW record \in Record \cup {NoRecord},
           SendRequest(pending, method, record),
           UNCHANGED <<store, bridgeAlive, output, bridge, history>>, records' \in SUBSET Record
    PROVE  TInv'
  <1> DEFINE q == [id |-> FreeId(pending), method |-> method, record |-> record]
  <1>1. q \in Request /\ \A r \in pending : r.id # q.id
    BY FreeNumber DEF Ready, Request
  <1>2. pending' = pending \cup {q} /\ input' = (IF Running THEN Append(input, q) ELSE input)
    BY DEF SendRequest
  <1>3. InOnePlace(pending', input', output, main)
    BY <1>1, <1>2, Sent DEF TInv, Types
  <1>4. Types'
    BY <1>1, <1>2 DEF TInv, Types, bridge, history, store
  <1>5. Connected'
    BY <1>2 DEF TInv, Types, Connected, Running, At, bridge
  <1>. QED BY <1>3, <1>4, <1>5 DEF TInv, Doing, bridge, history

LEMMA TUser == TInv /\ User => TInv'
  <1> SUFFICES ASSUME TInv, User PROVE TInv'
    OBVIOUS
  <1>1. CASE Refresh
    BY <1>1, SentStep DEF Refresh, Ready, Method, TInv, Types
  <1>2. CASE Clear
    BY <1>2, SentStep DEF Clear, Ready, Method, TInv, Types
  <1>3. ASSUME NEW r \in Record, DeleteRecord(r) PROVE TInv'
    BY <1>3, SentStep DEF DeleteRecord, Ready, Method, TInv, Types
  <1>4. ASSUME NEW r \in Record, Activate(r) PROVE TInv'
    BY <1>4, SentStep DEF Activate, Ready, Method, TInv, Types
  <1>. QED BY <1>1, <1>2, <1>3, <1>4 DEF User

LEMMA TApplySnapshot == TInv /\ ApplySnapshot => TInv'
  <1> SUFFICES ASSUME TInv, ApplySnapshot PROVE TInv'
    OBVIOUS
  <1> USE DEF ApplySnapshot, Reading, store, bridge
  <1>1. output # <<>> /\ output' = Tail(output) /\ Head(output) \in Snapshot
    BY DEF TInv, Types, Line, Snapshot, Answer
  <1>2. InOnePlace(pending, input, output', main)
    BY <1>1, ReadSnapshot DEF TInv, Types
  <1>3. Types'
    BY <1>1 DEF TInv, Types, Snapshot
  <1>4. Connected'
    BY DEF TInv, Connected, Running, At
  <1>. QED BY <1>2, <1>3, <1>4 DEF TInv, Doing

LEMMA THandleResponse == TInv /\ HandleResponse => TInv'
  <1> SUFFICES ASSUME TInv, HandleResponse PROVE TInv'
    OBVIOUS
  <1> USE DEF HandleResponse, Reading, store, bridge
  <1>1. output # <<>> /\ output' = Tail(output) /\ Head(output) \in Answer /\ Head(output).kind = "answer"
    BY DEF TInv, Types, Line, Snapshot, Answer
  <1>2. PICK q \in pending :
           /\ q.id = Head(output).id
           /\ IF Head(output).ok THEN HandleSuccess(q, Head(output)) ELSE HandleFailure(q)
    OBVIOUS
  <1>3. /\ InOnePlace(pending \ {q}, input, output', main)
        /\ \A r \in pending \ {q} : r.id # q.id
    BY <1>1, <1>2, ReadAnswer DEF TInv, Types
  <1>4. q \in Request /\ q.id \in Id
    BY DEF TInv, Types, Request
  <1>5. Connected'
    BY <1>1, <1>2
       DEF TInv, Types, Connected, Running, At, HandleSuccess, HandleFailure, SendRequest
  <1>6. CASE HandleSuccess(q, Head(output))
    <2>1. confirmed' \in SUBSET Record /\ records' \in SUBSET Record
      <3>1. Head(output).deleted => Head(output).record \in Record
        BY <1>1 DEF Answer
      <3>. QED BY <1>1, <1>6, <3>1 DEF TInv, Types, HandleSuccess
    <2>2. Types'
      BY <1>1, <1>6, <2>1 DEF TInv, Types, HandleSuccess
    <2>. QED BY <1>3, <1>5, <1>6, <2>2 DEF TInv, Doing, HandleSuccess
  <1>7. CASE HandleFailure(q)
    <2>1. Types /\ output' \in Seq(Line)
      BY <1>1 DEF TInv, Types
    <2>2. CASE q.method \in {"delete", "clear"}
      <3> DEFINE f == FreeId(pending \ {q})
                 n == [id |-> f, method |-> "refresh", record |-> NoRecord]
      <3>1. f \in Id /\ \A r \in pending \ {q} : r.id # f
        BY <1>3, <1>4, FreeNumber
      <3>2. n \in Request /\ \A r \in pending \ {q} : r.id # n.id
        BY <3>1 DEF Request, Method
      <3>3. pending' = (pending \ {q}) \cup {n} /\ input' = (IF Running THEN Append(input, n) ELSE input)
        BY <1>7, <2>2 DEF HandleFailure, SendRequest
      <3>4. InOnePlace(pending', input', output', main)
        BY <1>3, <2>1, <3>2, <3>3, Sent DEF Types
      <3>. HIDE DEF n
      <3>5. pending' \in SUBSET Request /\ input' \in Seq(Request)
        <4>1. Append(input, n) \in Seq(Request) /\ input \in Seq(Request)
          BY <2>1, <3>2 DEF Types
        <4>. QED BY <2>1, <3>2, <3>3, <4>1 DEF Types
      <3>6. adrift' \in SUBSET {"wiped", "unrefreshed"} /\ records' = records /\ confirmed' = confirmed
        BY <1>7, <2>1 DEF Types, HandleFailure
      <3>7. Types'
        BY <2>1, <3>5, <3>6 DEF Types
      <3>. QED BY <1>5, <3>4, <3>7 DEF TInv, Doing
    <2>3. CASE q.method \notin {"delete", "clear"}
      <3>1. pending' = pending \ {q} /\ input' = input
        BY <1>7, <2>3 DEF HandleFailure
      <3>2. Types'
        BY <1>1, <1>7, <2>1, <3>1 DEF Types, HandleFailure
      <3>. QED BY <1>3, <1>5, <3>1, <3>2 DEF TInv, Doing
    <2>. QED BY <2>2, <2>3
  <1>. QED BY <1>2, <1>6, <1>7

LEMMA TExitStart == TInv /\ (BridgeExited \/ StartBridge) => TInv'
  <1> SUFFICES ASSUME TInv, BridgeExited \/ StartBridge PROVE TInv'
    OBVIOUS
  <1>1. CASE BridgeExited
    <2>1. /\ pending' = {} /\ input' = <<>> /\ output' = <<>> /\ main' = main /\ main.at = "dead"
          /\ bridgeAlive' = FALSE
      BY <1>1 DEF BridgeExited, TInv, Connected, Running, At, bridge
    <2>2. InOnePlace({}, <<>>, <<>>, main)
      BY <2>1 DEF InOnePlace, Busy
    <2>3. Types'
      BY <1>1, <2>1 DEF BridgeExited, TInv, Types, store, bridge
    <2>4. Connected'
      BY <2>1 DEF Connected, Running, At
    <2>. QED BY <2>1, <2>2, <2>3, <2>4 DEF TInv, Doing
  <1>2. CASE StartBridge
    <2> DEFINE q == [id |-> FreeId(pending), method |-> "refresh", record |-> NoRecord]
    <2>1. pending = {} /\ output = <<>>
      BY <1>2 DEF StartBridge, TInv, Connected
    <2>2. q \in Request
      BY <2>1, Unoccupied, FreeNumber DEF Request, Method
    <2>3. main' \in Dispatcher /\ main'.at = "sources" /\ main'.method = "start"
      BY <1>2, Unoccupied DEF StartBridge
    <2>4. pending' = {q} /\ input' = <<q>> /\ output' = <<>> /\ bridgeAlive' = TRUE
      BY <1>2, <2>1 DEF StartBridge
    <2>5. InOnePlace({q}, <<q>>, <<>>, main')
      BY <2>3 DEF InOnePlace, Busy
    <2>6. Types'
      BY <1>2, <2>2, <2>3, <2>4 DEF StartBridge, TInv, Types, store, history
    <2>7. Connected'
      BY <2>3, <2>4 DEF Connected, Running, At
    <2>. QED BY <2>3, <2>4, <2>5, <2>6, <2>7 DEF TInv, Doing
  <1>. QED BY <1>1, <1>2

(* Steps that move no line and leave the dispatch thread where it is.      *)
LEMMA TElsewhere ==
    ASSUME TInv, UNCHANGED <<pending, bridgeAlive, input, output, main, copied>>, Types'
    PROVE  TInv'
  BY DEF TInv, Connected, Doing, Running, At

(* Steps of a running bridge that write a snapshot, and keep the request   *)
(* in hand or drop the one nobody sent.                                    *)
LEMMA TEmitted ==
    ASSUME TInv, Running, NEW t, EmitSnapshot(t), UNCHANGED <<pending, bridgeAlive, input>>,
           main' \in Dispatcher, Busy(main') => Busy(main) /\ main'.id = main.id, main'.at # "dead"
    PROVE  output' \in Seq(Line) /\ InOnePlace(pending', input', output', main') /\ Connected'
  <1> DEFINE s == [kind |-> "snapshot", codes |-> published]
  <1>1. s \in Snapshot /\ s \in Line
    BY DEF TInv, Types, Snapshot, Line
  <1>2. output' = Append(output, s)
    BY DEF EmitSnapshot
  <1>3. InOnePlace(pending, input, output, main')
    BY WentOn DEF TInv, Types
  <1>. HIDE DEF s
  <1>4. InOnePlace(pending, input, output', main')
    BY <1>1, <1>2, <1>3, WroteSnapshot DEF TInv, Types
  <1>5. output' \in Seq(Line)
    BY <1>1, <1>2 DEF TInv, Types
  <1>. QED BY <1>4, <1>5 DEF TInv, Connected, Running, At

(* Steps of the dispatch thread within a request                           *)
LEMMA TDispatched ==
    ASSUME TInv, UNCHANGED <<pending, bridgeAlive, input, output>>,
           main' \in Dispatcher, Busy(main') => Busy(main) /\ main'.id = main.id,
           main.at # "dead", main'.at # "dead", main' \in Dispatcher => Types', Doing'
    PROVE  TInv'
  <1>1. InOnePlace(pending, input, output, main')
    BY WentOn DEF TInv, Types
  <1>. QED BY <1>1 DEF TInv, Connected, Running, At

(* What becomes of main when the thread goes on, or refuses                *)
LEMMA Going ==
    ASSUME main \in Dispatcher, NEW point \in Points \ {"dead", "loop"}, Go(point)
    PROVE  main' \in Dispatcher /\ main'.id = main.id /\ main'.method = main.method
           /\ main'.at = point /\ main'.record = main.record /\ main'.deleted = main.deleted
  BY DEF Go, Dispatcher

LEMMA Refusing ==
    ASSUME main \in Dispatcher, Refuse
    PROVE  main' \in Dispatcher /\ main'.id = main.id /\ main'.method = main.method
           /\ main'.at = "answer" /\ main'.deleted = FALSE
  BY DEF Refuse, Dispatcher, Points

LEMMA Beginning ==
    ASSUME NEW q \in Request, Begin(q)
    PROVE  /\ main'.at \in {"sources", "get", "remove"} /\ main'.id = q.id
           /\ main'.method = q.method /\ main'.deleted = FALSE
           /\ q.method = "activate" => main'.at = "get"
           /\ main' \in Dispatcher
  <1>1. q.id \in Id /\ q.method \in Method /\ q.record \in Record \cup {NoRecord}
    BY DEF Request
  <1>2. CASE q.method = "refresh"
    BY <1>1, <1>2 DEF Begin, Method, Dispatcher, Points
  <1>3. CASE q.method = "activate"
    BY <1>1, <1>3 DEF Begin, Method, Dispatcher, Points
  <1>4. CASE q.method \in {"delete", "clear"}
    BY <1>1, <1>4 DEF Begin, Method, Dispatcher, Points
  <1>. QED BY <1>1, <1>2, <1>3, <1>4 DEF Method

LEMMA TDispatch == TInv /\ Dispatch => TInv'
  <1> SUFFICES ASSUME TInv, Dispatch PROVE TInv'
    OBVIOUS
  <1> USE DEF store, picker, history, At
  <1>0. main \in Dispatcher /\ Types /\ Connected /\ Doing
        /\ InOnePlace(pending, input, output, main)
    BY DEF TInv, Types
  <1>1. CASE HandleLine
    <2>1. /\ input # <<>> /\ input' = Tail(input) /\ input' \in Seq(Request)
          /\ Head(input) \in Request
      BY <1>0, <1>1 DEF HandleLine, Types
    <2>5. /\ main'.at \in {"sources", "get", "remove"} /\ main'.id = Head(input).id
          /\ main'.method = Head(input).method
          /\ Head(input).method = "activate" => main'.at = "get"
          /\ main' \in Dispatcher
      BY <1>0, <1>1, <2>1, Beginning DEF HandleLine
    <2>2. main' \in Dispatcher /\ main'.id = Head(input).id /\ main'.at # "dead" /\ Doing'
      <3>1. Head(input).method # "start"
        BY <2>1 DEF Request, Method
      <3>. QED BY <2>5, <3>1 DEF Doing
    <2>3. InOnePlace(pending, input', output, main')
      BY <1>0, <2>1, <2>2, TookUp DEF Types
    <2>4. Types'
      BY <1>0, <1>1, <2>1, <2>2 DEF HandleLine, Types
    <2>6. Connected'
      BY <1>0, <1>1, <2>2 DEF HandleLine, Connected, Running
    <2>7. output' = output /\ pending' = pending
      BY <1>1 DEF HandleLine
    <2>. QED BY <2>2, <2>3, <2>4, <2>6, <2>7 DEF TInv
  <1>2. CASE Get
    <2>1. main' \in Dispatcher /\ main'.id = main.id /\ main'.method = main.method
          /\ main'.at \notin {"dead", "loop"} /\ main.at = "get"
      <3>1. CASE main.record \in Live
        BY <1>0, <1>2, <3>1, Going DEF Get, Points
      <3>2. CASE main.record \notin Live
        BY <1>0, <1>2, <3>2, Refusing DEF Get
      <3>. QED BY <3>1, <3>2
    <2>2. Doing'
      <3>0. main.method # "start"
        BY <1>0, <2>1 DEF Doing
      <3>1. CASE main.record \in Live
        BY <1>0, <1>2, <3>0, <3>1, Going DEF Get, Points, Doing, Live
      <3>2. CASE main.record \notin Live
        BY <1>0, <1>2, <3>0, <3>2, Refusing DEF Get, Doing
      <3>. QED BY <3>1, <3>2
    <2>. QED BY <1>0, <1>2, <2>1, <2>2, TDispatched DEF Get, Types, Busy
  <1>3. CASE Copy
    <2>1. main' \in Dispatcher /\ main'.id = main.id /\ main'.method = main.method
          /\ main'.at \notin {"dead", "loop"} /\ main.at = "copy"
      <3>1. CASE Go("paste")
        BY <1>0, <1>3, <3>1, Going DEF Copy, Points
      <3>2. CASE Refuse
        BY <1>0, <1>3, <3>2, Refusing DEF Copy
      <3>. QED BY <1>3, <3>1, <3>2 DEF Copy
    <2>2. copied' \in SUBSET Record
      BY <1>0, <1>3, <2>1 DEF Copy, Types, Doing
    <2>3. Doing'
      <3>1. CASE copied' = copied \cup {main.record} /\ Go("paste")
        BY <1>0, <2>1, <3>1, Going DEF Points, Doing
      <3>2. CASE Refuse
        BY <1>0, <2>1, <3>2, Refusing DEF Doing
      <3>. QED BY <1>3, <3>1, <3>2 DEF Copy
    <2>. QED BY <1>0, <1>3, <2>1, <2>2, <2>3, TDispatched DEF Copy, Types, Busy
  <1>4. CASE Paste
    <2>1. main' \in Dispatcher /\ main'.id = main.id /\ main'.method = main.method
          /\ main'.at \notin {"dead", "loop"} /\ main.at = "paste"
      BY <1>0, <1>4, Going DEF Paste, Points
    <2>2. Doing'
      BY <1>0, <1>4, <2>1, Going DEF Paste, Points, Doing
    <2>. QED BY <1>0, <1>4, <2>1, <2>2, TDispatched DEF Paste, Types, Busy
  <1>5. CASE Remove
    <2>1. main' \in Dispatcher /\ main'.id = main.id /\ main'.method = main.method
          /\ main'.at \notin {"dead", "loop"} /\ main.at = "remove"
      BY <1>0, <1>5 DEF Remove, AfterRemove, Removed, Live, Dispatcher, Points
    <2>2. status' \in [Record -> {"awaited", "live", "gone", "expired"}]
      BY <1>0, <1>5 DEF Remove, Types
    <2>3. Doing'
      BY <1>0, <1>5, <2>1 DEF Remove, AfterRemove, Dispatcher, Doing
    <2>. QED BY <1>0, <1>5, <2>1, <2>2, <2>3, TDispatched DEF Remove, Types, Busy
  <1>6. CASE Take
    <2>1. main' \in Dispatcher /\ main'.id = main.id /\ main'.method = main.method
          /\ main'.at \notin {"dead", "loop"} /\ main.at = "take"
      BY <1>0, <1>6, Going DEF Take, Points
    <2>2. published' \in SUBSET Record /\ publisher' = "main"
      BY <1>6 DEF Take, TakeSnapshot, Live
    <2>3. Doing'
      BY <1>0, <1>6, <2>1, Going DEF Take, Points, Doing
    <2>. QED BY <1>0, <1>6, <2>1, <2>2, <2>3, TDispatched DEF Take, TakeSnapshot, Types, Busy
  <1>7. CASE Emit
    <2>1. /\ main' \in Dispatcher /\ main'.at # "dead" /\ main.at = "emit"
          /\ Busy(main') => Busy(main) /\ main'.id = main.id
          /\ Doing'
      <3>1. CASE main.method = "start"
        BY <1>7, <3>1, Unoccupied DEF Emit, Doing
      <3>2. CASE main.method # "start" /\ Refuse
        BY <1>0, <1>7, <3>2, Refusing DEF Emit, Busy, Doing
      <3>3. CASE main.method # "start" /\ main' = [main EXCEPT !.at = "answer"]
        BY <1>0, <1>7, <3>3 DEF Emit, Busy, Dispatcher, Points, Doing
      <3>. QED BY <1>7, <3>1, <3>2, <3>3 DEF Emit
    <2>2. /\ output' \in Seq(Line) /\ Connected'
          /\ InOnePlace(pending', input', output', main')
      BY <1>7, <2>1, TEmitted DEF Emit, Running
    <2>3. Types'
      BY <1>0, <1>7, <2>1, <2>2 DEF Emit, EmitSnapshot, Types
    <2>. QED BY <2>1, <2>2, <2>3 DEF TInv
  <1>8. CASE StoreFails
    <2>1. main' \in Dispatcher /\ main'.id = main.id /\ main'.method = main.method
          /\ main'.at \notin {"dead", "loop"} /\ main.at \notin {"dead", "loop"}
      BY <1>0, <1>8, Refusing DEF StoreFails
    <2>2. Doing'
      BY <1>0, <1>8, <2>1, Refusing DEF StoreFails, Doing
    <2>. QED BY <1>0, <1>8, <2>1, <2>2, TDispatched DEF StoreFails, Types, Busy
  <1>9. CASE Reply
    <2> DEFINE a == [kind |-> "answer", id |-> main.id, ok |-> main.ok,
                     record |-> main.record, deleted |-> main.deleted]
    <2>1. a \in Answer /\ a.id = main.id
      BY <1>0 DEF Answer, Dispatcher
    <2>2. output' = Append(output, a) /\ main' = Waiting
      BY <1>9 DEF Reply
    <2>. HIDE DEF a
    <2>3. Busy(main)
      BY <1>0, <1>9 DEF Reply, Busy, Doing
    <2>4. InOnePlace(pending, input, output', main')
      BY <1>0, <2>1, <2>2, <2>3, WroteAnswer, Unoccupied DEF Types
    <2>5. output' \in Seq(Line)
      BY <1>0, <2>1, <2>2 DEF Types, Line
    <2>6. Types'
      BY <1>0, <1>9, <2>2, <2>5, Unoccupied DEF Reply, Types
    <2>7. Doing'
      BY <2>2, Unoccupied DEF Doing
    <2>. QED BY <1>0, <1>9, <2>2, <2>4, <2>6, <2>7, Unoccupied DEF Reply, TInv, Connected, Running
  <1>10. CASE AskSources
    <2>1. /\ main' \in Dispatcher /\ main'.id = main.id /\ main'.method = main.method
          /\ main.at = "sources"
          /\ main'.method = "start" => main'.at = "take"
          /\ main'.at \in {"take", "answer"}
      <3>1. CASE Go("take")
        BY <1>0, <1>10, <3>1, Going DEF AskSources, Points
      <3>2. CASE main.method = "refresh" /\ Refuse
        BY <1>0, <1>10, <3>2, Refusing DEF AskSources
      <3>. QED BY <1>10, <3>1, <3>2 DEF AskSources
    <2>2. Doing'
      BY <2>1 DEF Doing
    <2>. QED BY <1>0, <1>10, <2>1, <2>2, TDispatched DEF AskSources, Types, Busy
  <1>. QED BY <1>1, <1>2, <1>3, <1>4, <1>5, <1>6, <1>7, <1>8, <1>9, <1>10 DEF Dispatch

(* Nothing of the bridge goes on in a process that has ended.              *)
Quiet == ~Running => publisher = "nobody" /\ maintenance = "off" /\ ~ingested

LEMMA QuietStep == TInv /\ Quiet /\ [Next]_vars => Quiet'
  <1> SUFFICES ASSUME TInv, Quiet, [Next]_vars PROVE Quiet'
    OBVIOUS
  <1> USE DEF store, picker, bridge, history, Quiet, Running, At
  <1>0. main \in Dispatcher
    BY DEF TInv, Types
  <1>1. CASE User
    BY <1>1 DEF User, Refresh, Clear, DeleteRecord, Activate
  <1>2. CASE Service
    <2>1. CASE StartBridge
      BY <2>1, Unoccupied DEF StartBridge
    <2>2. CASE ApplySnapshot \/ HandleResponse \/ BridgeExited
      BY <2>2 DEF ApplySnapshot, HandleResponse, BridgeExited
    <2>. QED BY <1>2, <2>1, <2>2 DEF Service
  <1>3. CASE Dispatch
    <2>1. main.at # "dead"
      BY <1>3 DEF Dispatch, HandleLine, AskSources, Get, Copy, Paste, Remove, Take, Emit,
                  StoreFails, Reply
    <2>2. CASE HandleLine
      <3>1. Head(input) \in Request
        BY <2>2 DEF HandleLine, TInv, Types
      <3>. QED BY <2>2, <3>1, Beginning DEF HandleLine
    <2>3. CASE AskSources \/ Get
      BY <1>0, <2>1, <2>3 DEF AskSources, Get, Go, Refuse, Dispatcher
    <2>4. CASE Copy
      BY <1>0, <2>1, <2>4 DEF Copy, Go, Refuse, Dispatcher
    <2>5. CASE Paste \/ Remove \/ Take
      BY <1>0, <2>1, <2>5 DEF Paste, Remove, Take, Go, AfterRemove, Dispatcher
    <2>6. CASE Emit
      BY <1>0, <2>1, <2>6, Unoccupied DEF Emit, Refuse, Dispatcher
    <2>7. CASE StoreFails \/ Reply
      BY <1>0, <2>1, <2>7, Unoccupied DEF StoreFails, Reply, Refuse, Dispatcher
    <2>. QED BY <1>3, <2>2, <2>3, <2>4, <2>5, <2>6, <2>7 DEF Dispatch
  <1>4. CASE Maintenance
    BY <1>4 DEF Maintenance, Tick, TickEmits, EmitSnapshot
  <1>5. CASE Reader
    BY <1>5 DEF Reader, Announce, ReaderEmits, EmitSnapshot
  <1>6. CASE DropExpired \/ TickFails \/ AnnounceFails \/ Elsewhere \/ BridgeDies
    BY <1>6 DEF DropExpired, TickFails, AnnounceFails, Elsewhere, Becomes, BridgeDies
  <1>7. ASSUME NEW r \in Record, Ingest(r) PROVE Quiet'
    BY <1>7 DEF Ingest
  <1>8. CASE UNCHANGED vars
    BY <1>8 DEF vars
  <1>. QED BY <1>1, <1>2, <1>3, <1>4, <1>5, <1>6, <1>7, <1>8 DEF Next

LEMMA TBackground ==
    ASSUME TInv, Quiet, Maintenance \/ Reader \/ TickFails \/ AnnounceFails
    PROVE  TInv'
  <1> USE DEF store, picker, history
  <1>1. Types
    BY DEF TInv
  <1>2. CASE Tick \/ TickFails \/ Announce \/ AnnounceFails
    <2>1. Types'
      BY <1>1, <1>2
         DEF Tick, TickFails, Announce, AnnounceFails, TakeSnapshot, Live, Types
    <2>. QED BY <1>2, <2>1, TElsewhere DEF Tick, TickFails, Announce, AnnounceFails
  <1>3. CASE TickEmits \/ ReaderEmits
    <2> DEFINE t == IF TickEmits THEN "maintenance" ELSE "reader"
    <2>1. EmitSnapshot(t) /\ publisher = t /\ t # "nobody"
      BY <1>3 DEF TickEmits, ReaderEmits, EmitSnapshot
    <2>2. Running
      BY <2>1 DEF Quiet
    <2>3. UNCHANGED <<pending, bridgeAlive, input, main>> /\ main.at # "dead"
      BY <1>3, <2>2 DEF TickEmits, ReaderEmits, Running, At
    <2>. HIDE DEF t
    <2>4. /\ output' \in Seq(Line) /\ Connected'
          /\ InOnePlace(pending', input', output', main')
      BY <1>1, <2>1, <2>2, <2>3, TEmitted DEF Types
    <2>5. Types'
      BY <1>1, <1>3, <2>1, <2>4 DEF TickEmits, ReaderEmits, EmitSnapshot, Types
    <2>6. Doing'
      BY <1>3 DEF TickEmits, ReaderEmits, TInv, Doing
    <2>. QED BY <2>4, <2>5, <2>6 DEF TInv
  <1>. QED BY <1>2, <1>3 DEF Maintenance, Reader

LEMMA TDies == TInv /\ BridgeDies => TInv'
  <1> SUFFICES ASSUME TInv, BridgeDies PROVE TInv'
    OBVIOUS
  <1> USE DEF store, picker, history, BridgeDies
  <1>1. /\ main' = Dead /\ Dead.at = "dead" /\ Dead.method = "start"
        /\ main' \in Dispatcher
    BY Unoccupied DEF Dead
  <1>2. InOnePlace(pending, <<>>, output, Dead)
    BY WentOn, Unoccupied DEF TInv, Types
  <1>3. Types'
    <2>1. input' \in Seq(Request)
      OBVIOUS
    <2>. QED BY <1>1, <2>1 DEF TInv, Types
  <1>4. Connected' /\ Doing'
    BY <1>1 DEF TInv, Connected, Doing, Running, At
  <1>. QED BY <1>1, <1>2, <1>3, <1>4 DEF TInv

LEMMA TNext == TInv /\ Quiet /\ [Next]_vars => TInv'
  <1> SUFFICES ASSUME TInv, Quiet, [Next]_vars PROVE TInv'
    OBVIOUS
  <1>1. CASE DropExpired \/ Elsewhere \/ \E r \in Record : Ingest(r)
    <2> USE DEF DropExpired, Elsewhere, Becomes, Ingest, store, picker, bridge, history
    <2>1. Types'
      BY <1>1 DEF TInv, Types
    <2>. QED BY <1>1, <2>1, TElsewhere
  <1>2. CASE UNCHANGED vars
    BY <1>2 DEF vars, store, picker, bridge, history, TInv, Types, Connected, Doing, Running, At
  <1>. QED BY <1>1, <1>2, TUser, TApplySnapshot, THandleResponse, TExitStart, TDispatch,
              TBackground, TDies DEF Next, Service

LEMMA TypesKept == Spec => [](TInv /\ Quiet)
  <1>1. Init => TInv /\ Quiet
    BY TInit DEF Init, Quiet
  <1>2. TInv /\ Quiet /\ [Next]_vars => (TInv /\ Quiet)'
    BY TNext, QuietStep
  <1>. QED BY <1>1, <1>2, PTL DEF Spec

(* Every variable keeps its type, and every request that is on its way to  *)
(* the bridge is one the picker waits for (Service.qml:192-213, 379-415).  *)
THEOREM TypeCorrect == Spec => []TypeOK
  <1>1. TInv => TypeOK
    BY DEF TInv, Types, InOnePlace, TypeOK, Line, Dispatcher, Points
  <1>. QED BY <1>1, TypesKept, PTL

(* Activation consumes only codes that were on the clipboard               *)
(* (bridge.py:431-449, activation.py:122-175).                             *)
THEOREM OnlyCopied == Spec => OnlyCopiedConsumed
  <1>1. TInv => (At("remove") /\ main.method = "activate" => main.record \in copied)
    BY DEF TInv, Doing, At
  <1>. QED BY <1>1, TypesKept, PTL DEF OnlyCopiedConsumed

-----------------------------------------------------------------------------
(* No resurrection                                                         *)
(*                                                                         *)
(* What the picker shows, rs, is replaced by each snapshot in the pipe,    *)
(* out, in turn.  A consumed code stays hidden because a view without it   *)
(* stands before the answer that confirms its consumption, and no later    *)
(* one has it.                                                             *)

Past == {r \in Record : status[r] \in {"gone", "expired"}}

Shown(rs, out, k) ==
    IF k = 0 THEN rs ELSE IF out[k].kind = "snapshot" THEN out[k].codes ELSE {}

HiddenFrom(r, j, rs, out) == \A k \in j..Len(out) : r \notin Shown(rs, out, k)

(* Line i comes after a view from which on the code is hidden.             *)
Dropped(r, i, rs, out) ==
    \E j \in 0..Len(out) :
        /\ j < i
        /\ j = 0 \/ out[j].kind = "snapshot"
        /\ HiddenFrom(r, j, rs, out)

Confirms(a) == a.kind = "answer" /\ a.deleted

DispatchSettled ==
    main.deleted =>
        /\ main.at \in {"take", "emit", "answer"}
        /\ main.record \in Past
        /\ main.at # "take" => main.record \notin published
        /\ main.at = "answer" => Dropped(main.record, Len(output) + 1, records, output)

AnswersSettled ==
    \A i \in 1..Len(output) : Confirms(output[i]) =>
        /\ output[i].record \in Past \ published
        /\ Dropped(output[i].record, i, records, output)

ConfirmedSettled ==
    \A r \in confirmed : r \in Past \ published /\ HiddenFrom(r, 0, records, output)

Settled == DispatchSettled /\ AnswersSettled /\ ConfirmedSettled

(* A line has been written that does not show the code.                    *)
LEMMA HiddenAppended ==
    ASSUME NEW r, NEW rs, NEW out \in Seq(Line), NEW s \in Line,
           s.kind = "snapshot" => r \notin s.codes
    PROVE  /\ \A j \in Nat : HiddenFrom(r, j, rs, out) => HiddenFrom(r, j, rs, Append(out, s))
           /\ \A i \in Nat : Dropped(r, i, rs, out) => Dropped(r, i, rs, Append(out, s))
  <1>1. /\ Len(out) \in Nat /\ Len(Append(out, s)) = Len(out) + 1
        /\ \A k \in 1..Len(out) : Append(out, s)[k] = out[k]
        /\ Append(out, s)[Len(out) + 1] = s
    OBVIOUS
  <1>2. ASSUME NEW j \in Nat, HiddenFrom(r, j, rs, out), NEW k \in j..Len(Append(out, s))
        PROVE  r \notin Shown(rs, Append(out, s), k)
    <2>1. CASE k = Len(out) + 1
      BY <1>1, <2>1 DEF Shown
    <2>2. CASE k # Len(out) + 1
      <3>1. k \in j..Len(out) /\ (k # 0 => k \in 1..Len(out))
        BY <1>1, <1>2, <2>2
      <3>. QED BY <1>1, <1>2, <3>1 DEF HiddenFrom, Shown
    <2>. QED BY <2>1, <2>2
  <1>3. \A j \in Nat : HiddenFrom(r, j, rs, out) => HiddenFrom(r, j, rs, Append(out, s))
    BY <1>2 DEF HiddenFrom
  <1>4. ASSUME NEW i \in Nat, Dropped(r, i, rs, out) PROVE Dropped(r, i, rs, Append(out, s))
    <2>1. PICK j \in 0..Len(out) : /\ j < i /\ HiddenFrom(r, j, rs, out)
                                   /\ j = 0 \/ out[j].kind = "snapshot"
      BY <1>4 DEF Dropped
    <2>2. j \in 0..Len(Append(out, s)) /\ (j = 0 \/ Append(out, s)[j].kind = "snapshot")
      BY <1>1, <2>1
    <2>. QED BY <1>1, <1>3, <2>1, <2>2 DEF Dropped
  <1>. QED BY <1>3, <1>4

(* The picker has read a line: it shows the snapshot, or no more than      *)
(* before.                                                                 *)
LEMMA HiddenRead ==
    ASSUME NEW r, NEW rs, NEW new, NEW out \in Seq(Line), out # <<>>,
           IF Head(out).kind = "snapshot" THEN new = Head(out).codes ELSE new \subseteq rs
    PROVE  /\ HiddenFrom(r, 0, rs, out) => HiddenFrom(r, 0, new, Tail(out))
           /\ \A i \in Nat : i > 1 /\ Dropped(r, i, rs, out) => Dropped(r, i - 1, new, Tail(out))
  <1>1. /\ Len(out) \in Nat /\ Len(Tail(out)) = Len(out) - 1
        /\ \A k \in 1..Len(Tail(out)) : Tail(out)[k] = out[k + 1]
        /\ Head(out) = out[1] /\ 1 \in 1..Len(out)
    OBVIOUS
  <1>2. \A k \in 1..Len(Tail(out)) : Shown(new, Tail(out), k) = Shown(rs, out, k + 1)
    BY <1>1 DEF Shown
  <1>3. Shown(new, Tail(out), 0) = new
    BY DEF Shown
  <1>4. ASSUME HiddenFrom(r, 0, rs, out) PROVE HiddenFrom(r, 0, new, Tail(out))
    <2>1. r \notin new
      <3>1. 0 \in 0..Len(out) /\ 1 \in 0..Len(out)
        BY <1>1
      <3>. QED BY <1>1, <1>4, <3>1 DEF HiddenFrom, Shown
    <2>2. ASSUME NEW k \in 1..Len(Tail(out)) PROVE r \notin Shown(new, Tail(out), k)
      <3>1. k + 1 \in 0..Len(out)
        BY <1>1
      <3>. QED BY <1>2, <1>4, <3>1 DEF HiddenFrom
    <2>. QED BY <1>3, <2>1, <2>2 DEF HiddenFrom
  <1>5. ASSUME NEW i \in Nat, i > 1, Dropped(r, i, rs, out)
        PROVE  Dropped(r, i - 1, new, Tail(out))
    <2>1. PICK j \in 0..Len(out) : /\ j < i /\ HiddenFrom(r, j, rs, out)
                                   /\ j = 0 \/ out[j].kind = "snapshot"
      BY <1>5 DEF Dropped
    <2>2. CASE j = 0
      <3>1. HiddenFrom(r, 0, new, Tail(out)) /\ 0 < i - 1 /\ 0 \in 0..Len(Tail(out))
        BY <1>1, <1>4, <1>5, <2>1, <2>2
      <3>. QED BY <3>1 DEF Dropped
    <2>3. CASE j = 1
      <3>1. Head(out).kind = "snapshot"
        BY <1>1, <2>1, <2>3
      <3>2. r \notin new
        BY <1>1, <2>1, <2>3, <3>1 DEF HiddenFrom, Shown
      <3>3. ASSUME NEW k \in 1..Len(Tail(out)) PROVE r \notin Shown(new, Tail(out), k)
        <4>1. k + 1 \in j..Len(out)
          BY <1>1, <2>3
        <4>. QED BY <1>2, <2>1, <4>1 DEF HiddenFrom
      <3>4. HiddenFrom(r, 0, new, Tail(out))
        BY <1>3, <3>2, <3>3 DEF HiddenFrom
      <3>5. 0 < i - 1 /\ 0 \in 0..Len(Tail(out))
        BY <1>1, <1>5
      <3>. QED BY <3>4, <3>5 DEF Dropped
    <2>4. CASE j > 1
      <3>1. /\ j - 1 \in 0..Len(Tail(out)) /\ j - 1 \in 1..Len(Tail(out)) /\ j - 1 < i - 1
            /\ (j - 1) + 1 = j
        BY <1>1, <2>1, <2>4
      <3>2. Tail(out)[j - 1].kind = "snapshot"
        BY <1>1, <2>1, <2>4, <3>1
      <3>3. ASSUME NEW k \in (j - 1)..Len(Tail(out)) PROVE r \notin Shown(new, Tail(out), k)
        <4>1. k + 1 \in j..Len(out) /\ k \in 1..Len(Tail(out))
          BY <1>1, <2>4, <3>1
        <4>. QED BY <1>2, <2>1, <4>1 DEF HiddenFrom
      <3>4. HiddenFrom(r, j - 1, new, Tail(out))
        BY <3>3 DEF HiddenFrom
      <3>. QED BY <3>1, <3>2, <3>4 DEF Dropped
    <2>. QED BY <2>1, <2>2, <2>3, <2>4
  <1>. QED BY <1>4, <1>5

(* Codes stay consumed, no snapshot in hand shows one that is, and the     *)
(* picker shows no more than before: what is settled stays settled.        *)
LEMMA StaysSettled ==
    ASSUME TInv, Settled, Past \subseteq Past', (published' \cap Past) \subseteq published,
           records' \subseteq records, UNCHANGED <<output, confirmed>>
    PROVE  AnswersSettled' /\ ConfirmedSettled'
           /\ \A r, i : Dropped(r, i, records, output) => Dropped(r, i, records', output')
  <1>1. \A r, j : HiddenFrom(r, j, records, output) => HiddenFrom(r, j, records', output')
    BY DEF HiddenFrom, Shown
  <1>2. \A r, i : Dropped(r, i, records, output) => Dropped(r, i, records', output')
    BY <1>1 DEF Dropped
  <1>. QED BY <1>1, <1>2 DEF Settled, AnswersSettled, ConfirmedSettled

(* The dispatch thread goes on with what it holds.                         *)
LEMMA HeldSettled ==
    ASSUME TInv, Settled, Past \subseteq Past', (published' \cap Past) \subseteq published,
           records' \subseteq records, UNCHANGED <<output, confirmed>>,
           main' = main \/ main'.deleted = FALSE
    PROVE  Settled'
  <1>1. DispatchSettled'
    BY StaysSettled DEF Settled, DispatchSettled
  <1>. QED BY <1>1, StaysSettled DEF Settled

(* A snapshot has been written, and the dispatch thread has not moved, or  *)
(* it has written it or given up.                                          *)
LEMMA EmittedSettled ==
    ASSUME TInv, Settled, NEW t, EmitSnapshot(t), UNCHANGED <<status, records, confirmed>>,
           \/ main' = main
           \/ main'.deleted = FALSE
           \/ /\ main.at = "emit" /\ main'.at = "answer"
              /\ main'.record = main.record /\ main'.deleted = main.deleted
    PROVE  Settled'
  <1> DEFINE s == [kind |-> "snapshot", codes |-> published]
  <1>1. s \in Line /\ s.kind = "snapshot" /\ s.codes = published
    BY DEF TInv, Types, Snapshot, Line
  <1>2. output' = Append(output, s) /\ published' = published /\ Past' = Past
    BY DEF EmitSnapshot, Past
  <1>. HIDE DEF s
  <1>3. /\ output \in Seq(Line) /\ Len(output) \in Nat /\ Len(output') = Len(output) + 1
        /\ output' \in Seq(Line)
        /\ \A i \in 1..Len(output) : output'[i] = output[i]
        /\ output'[Len(output) + 1] = s
    BY <1>1, <1>2 DEF TInv, Types
  <1>4. ASSUME NEW r, r \notin published
        PROVE  /\ HiddenFrom(r, 0, records, output) => HiddenFrom(r, 0, records', output')
               /\ \A i \in Nat : Dropped(r, i, records, output) => Dropped(r, i, records', output')
               /\ Dropped(r, Len(output') + 1, records', output')
    <2>1. /\ HiddenFrom(r, 0, records, output) => HiddenFrom(r, 0, records', output')
          /\ \A i \in Nat : Dropped(r, i, records, output) => Dropped(r, i, records', output')
      BY <1>1, <1>2, <1>3, <1>4, HiddenAppended
    <2>2. HiddenFrom(r, Len(output'), records', output')
      <3>1. \A k \in Len(output')..Len(output') : k = Len(output) + 1
        BY <1>3
      <3>. QED BY <1>1, <1>3, <1>4, <3>1 DEF HiddenFrom, Shown
    <2>3. /\ Len(output') \in 0..Len(output') /\ output'[Len(output')].kind = "snapshot"
          /\ Len(output') < Len(output') + 1
      BY <1>1, <1>3
    <2>. QED BY <2>1, <2>2, <2>3 DEF Dropped
  <1>5. AnswersSettled'
    <2> SUFFICES ASSUME NEW i \in 1..Len(output'), Confirms(output'[i])
                 PROVE  /\ output'[i].record \in Past \ published
                        /\ Dropped(output'[i].record, i, records', output')
      BY <1>2 DEF AnswersSettled
    <2>1. i \in 1..Len(output)
      BY <1>1, <1>3 DEF Confirms
    <2>2. output'[i] = output[i]
      BY <1>3, <2>1
    <2>3. /\ output[i].record \in Past \ published
          /\ Dropped(output[i].record, i, records, output)
      BY <2>1, <2>2 DEF Settled, AnswersSettled
    <2>. QED BY <1>4, <2>2, <2>3
  <1>6. ConfirmedSettled'
    BY <1>2, <1>4 DEF Settled, ConfirmedSettled
  <1>7. DispatchSettled'
    <2> SUFFICES ASSUME main'.deleted PROVE
                     /\ main'.at \in {"take", "emit", "answer"}
                     /\ main'.record \in Past
                     /\ main'.at # "take" => main'.record \notin published
                     /\ main'.at = "answer" => Dropped(main'.record, Len(output') + 1, records', output')
      BY <1>2 DEF DispatchSettled
    <2>1. CASE main' = main
      BY <1>4, <2>1 DEF Settled, DispatchSettled
    <2>2. CASE /\ main.at = "emit" /\ main'.at = "answer"
               /\ main'.record = main.record /\ main'.deleted = main.deleted
      BY <1>4, <2>2 DEF Settled, DispatchSettled
    <2>. QED BY <2>1, <2>2
  <1>. QED BY <1>5, <1>6, <1>7 DEF Settled

(* The picker has read a line, and learns of a consumption only from an    *)
(* answer that confirms it.                                                *)
LEMMA ReadSettled ==
    ASSUME TInv, Settled, output # <<>>, output' = Tail(output),
           IF Head(output).kind = "snapshot" THEN records' = Head(output).codes
                                             ELSE records' \subseteq records,
           UNCHANGED <<status, main, published>>,
           \/ confirmed' = confirmed
           \/ Confirms(Head(output)) /\ confirmed' = confirmed \cup {Head(output).record}
    PROVE  Settled'
  <1>1. /\ output \in Seq(Line) /\ Len(output) \in Nat /\ Len(output') = Len(output) - 1
        /\ \A i \in 1..Len(output') : output'[i] = output[i + 1] /\ i + 1 \in 1..Len(output)
        /\ Head(output) = output[1] /\ 1 \in 1..Len(output)
    BY DEF TInv, Types
  <1>2. Past' = Past
    BY DEF Past
  <1>3. ASSUME NEW r
        PROVE  /\ HiddenFrom(r, 0, records, output) => HiddenFrom(r, 0, records', output')
               /\ \A i \in Nat : i > 1 /\ Dropped(r, i, records, output)
                                    => Dropped(r, i - 1, records', output')
    BY <1>1, HiddenRead
  <1>4. AnswersSettled'
    <2> SUFFICES ASSUME NEW i \in 1..Len(output'), Confirms(output'[i])
                 PROVE  /\ output'[i].record \in Past \ published
                        /\ Dropped(output'[i].record, i, records', output')
      BY <1>2 DEF AnswersSettled
    <2>1. /\ output'[i] = output[i + 1] /\ i + 1 \in 1..Len(output)
          /\ i + 1 \in Nat /\ i + 1 > 1 /\ (i + 1) - 1 = i
      BY <1>1
    <2>2. /\ output'[i].record \in Past \ published
          /\ Dropped(output'[i].record, i + 1, records, output)
      BY <2>1 DEF Settled, AnswersSettled
    <2>3. Dropped(output'[i].record, (i + 1) - 1, records', output')
      BY <1>3, <2>1, <2>2
    <2>. QED BY <2>1, <2>2, <2>3
  <1>5. ConfirmedSettled'
    <2>1. ASSUME NEW r \in confirmed
          PROVE  r \in Past \ published /\ HiddenFrom(r, 0, records', output')
      BY <1>3 DEF Settled, ConfirmedSettled
    <2>2. ASSUME Confirms(Head(output))
          PROVE  /\ Head(output).record \in Past \ published
                 /\ HiddenFrom(Head(output).record, 0, records', output')
      <3> DEFINE r == Head(output).record
      <3>1. r \in Past \ published /\ Dropped(r, 1, records, output)
        BY <1>1, <2>2 DEF Settled, AnswersSettled
      <3>2. HiddenFrom(r, 0, records, output)
        BY <1>1, <3>1 DEF Dropped
      <3>. QED BY <1>3, <3>1, <3>2
    <2>. QED BY <1>2, <2>1, <2>2 DEF ConfirmedSettled
  <1>6. DispatchSettled'
    <2>1. ASSUME Dropped(main.record, Len(output) + 1, records, output)
          PROVE  Dropped(main.record, Len(output') + 1, records', output')
      <3>1. Len(output) + 1 \in Nat /\ Len(output) + 1 > 1 /\ (Len(output) + 1) - 1 = Len(output') + 1
        BY <1>1
      <3>. QED BY <1>3, <2>1, <3>1
    <2>. QED BY <1>2, <2>1 DEF Settled, DispatchSettled
  <1>. QED BY <1>4, <1>5, <1>6 DEF Settled

(* The dispatch thread has answered.                                       *)
LEMMA RepliedSettled == TInv /\ Settled /\ Reply => Settled'
  <1> SUFFICES ASSUME TInv, Settled, Reply PROVE Settled'
    OBVIOUS
  <1> DEFINE a == [kind |-> "answer", id |-> main.id, ok |-> main.ok,
                   record |-> main.record, deleted |-> main.deleted]
  <1>1. /\ a \in Line /\ a.kind = "answer" /\ a.record = main.record
        /\ a.deleted = main.deleted /\ a.kind # "snapshot"
    BY DEF TInv, Types, Dispatcher, Line, Answer
  <1>2. output' = Append(output, a) /\ main.at = "answer" /\ main' = Waiting
    BY DEF Reply, At
  <1>. HIDE DEF a
  <1>3. /\ output \in Seq(Line) /\ Len(output) \in Nat /\ Len(output') = Len(output) + 1
        /\ \A i \in 1..Len(output) : output'[i] = output[i]
        /\ output'[Len(output) + 1] = a
    BY <1>1, <1>2 DEF TInv, Types
  <1>4. UNCHANGED <<records, published, confirmed>> /\ Past' = Past
    BY DEF Reply, picker, history, store, Past
  <1>5. ASSUME NEW r
        PROVE  /\ HiddenFrom(r, 0, records, output) => HiddenFrom(r, 0, records', output')
               /\ \A i \in Nat : Dropped(r, i, records, output) => Dropped(r, i, records', output')
    BY <1>1, <1>2, <1>3, <1>4, HiddenAppended
  <1>6. AnswersSettled'
    <2> SUFFICES ASSUME NEW i \in 1..Len(output'), Confirms(output'[i])
                 PROVE  /\ output'[i].record \in Past \ published
                        /\ Dropped(output'[i].record, i, records', output')
      BY <1>4 DEF AnswersSettled
    <2>1. CASE i \in 1..Len(output)
      <3>1. /\ output[i].record \in Past \ published
            /\ Dropped(output[i].record, i, records, output)
        BY <1>3, <2>1 DEF Settled, AnswersSettled
      <3>2. i \in Nat
        BY <1>3, <2>1
      <3>3. Dropped(output[i].record, i, records', output')
        BY <1>5, <3>1, <3>2
      <3>. QED BY <1>3, <2>1, <3>1, <3>3
    <2>2. CASE i = Len(output) + 1
      <3>1. output'[i] = a /\ main.deleted
        BY <1>1, <1>3, <2>2 DEF Confirms
      <3>2. /\ main.record \in Past \ published
            /\ Dropped(main.record, Len(output) + 1, records, output)
        BY <1>2, <3>1 DEF Settled, DispatchSettled
      <3>3. i \in Nat
        BY <1>3, <2>2
      <3>4. Dropped(main.record, i, records', output')
        BY <1>5, <2>2, <3>2, <3>3
      <3>. QED BY <1>1, <3>1, <3>2, <3>4
    <2>. QED BY <1>3, <2>1, <2>2
  <1>7. ConfirmedSettled'
    BY <1>4, <1>5 DEF Settled, ConfirmedSettled
  <1>8. DispatchSettled'
    BY <1>2, Unoccupied DEF DispatchSettled
  <1>. QED BY <1>6, <1>7, <1>8 DEF Settled

(* The dispatch thread keeps what it says of its request, or forgets it.   *)
LEMMA DispatchStaysSettled == TInv /\ Settled /\ Dispatch => Settled'
  <1> SUFFICES ASSUME TInv, Settled, Dispatch PROVE Settled'
    OBVIOUS
  <1> USE DEF store, picker, history, At
  <1>0. main \in Dispatcher /\ status \in [Record -> {"awaited", "live", "gone", "expired"}]
    BY DEF TInv, Types
  <1>1. CASE HandleLine
    <2>1. Head(input) \in Request
      BY <1>1 DEF HandleLine, TInv, Types
    <2>2. main'.deleted = FALSE
      BY <1>1, <2>1, Beginning DEF HandleLine
    <2>. QED BY <1>1, <2>2, HeldSettled DEF HandleLine, Past
  <1>2. CASE AskSources \/ Get \/ Copy \/ Paste
    <2>1. main.deleted = FALSE
      BY <1>2 DEF Settled, DispatchSettled, AskSources, Get, Copy, Paste, TInv, Types, Dispatcher
    <2>2. main'.deleted = FALSE
      <3>1. CASE Get
        BY <1>0, <2>1, <3>1 DEF Get, Go, Refuse, Dispatcher
      <3>2. CASE Copy
        BY <1>0, <2>1, <3>2 DEF Copy, Go, Refuse, Dispatcher
      <3>3. CASE Paste
        BY <1>0, <2>1, <3>3 DEF Paste, Go, Dispatcher
      <3>4. CASE AskSources
        BY <1>0, <2>1, <3>4 DEF AskSources, Go, Refuse, Dispatcher
      <3>. QED BY <1>2, <3>1, <3>2, <3>3, <3>4
    <2>. QED BY <1>2, <2>2, HeldSettled DEF AskSources, Get, Copy, Paste, Past
  <1>3. CASE Remove
    <2>1. Past \subseteq Past'
      BY <1>0, <1>3 DEF Remove, Past, Removed, Live
    <2>2. UNCHANGED <<published, records, output, confirmed>>
      BY <1>3 DEF Remove
    <2>3. CASE Removed = {} \/ main.method = "clear"
      <3>1. main'.deleted = FALSE
        BY <1>0, <1>3, <2>3 DEF Remove, Dispatcher
      <3>. QED BY <2>1, <2>2, <3>1, HeldSettled
    <2>4. CASE Removed # {} /\ main.method # "clear"
      <3>1. main'.at = "take" /\ main'.record = main.record
        BY <1>0, <1>3, <2>4 DEF Remove, AfterRemove, Dispatcher
      <3>2. main.record \in Record /\ Removed = {main.record} /\ status'[main.record] = "gone"
        BY <1>0, <1>3, <2>4 DEF Remove, Removed, Live
      <3>3. DispatchSettled'
        BY <3>1, <3>2 DEF DispatchSettled, Past
      <3>. QED BY <2>1, <2>2, <3>3, StaysSettled DEF Settled
    <2>. QED BY <2>3, <2>4
  <1>4. CASE Take
    <2>1. published' = Live /\ UNCHANGED <<status, records, output, confirmed>>
      BY <1>4 DEF Take, TakeSnapshot
    <2>2. Past' = Past /\ Past \cap Live = {}
      BY <2>1 DEF Past, Live
    <2>3. /\ main'.at = "emit" /\ main'.record = main.record /\ main'.deleted = main.deleted
          /\ main.at = "take"
      BY <1>0, <1>4 DEF Take, Go, Dispatcher
    <2>4. DispatchSettled'
      BY <2>1, <2>2, <2>3 DEF Settled, DispatchSettled
    <2>. QED BY <2>1, <2>2, <2>4, StaysSettled DEF Settled
  <1>5. CASE Emit
    <2>1. EmitSnapshot("main") /\ UNCHANGED <<status, records, confirmed>> /\ main.at = "emit"
      BY <1>5 DEF Emit
    <2>2. CASE main.method = "start" \/ Refuse
      <3>1. main'.deleted = FALSE
        BY <1>0, <1>5, <2>2, Unoccupied, Refusing DEF Emit
      <3>. QED BY <2>1, <3>1, EmittedSettled
    <2>3. CASE main' = [main EXCEPT !.at = "answer"]
      <3>1. /\ main'.at = "answer" /\ main'.record = main.record
            /\ main'.deleted = main.deleted
        BY <1>0, <2>3 DEF Dispatcher
      <3>. QED BY <2>1, <3>1, EmittedSettled
    <2>. QED BY <1>5, <2>2, <2>3 DEF Emit
  <1>6. CASE StoreFails
    <2>1. main'.deleted = FALSE
      BY <1>0, <1>6, Refusing DEF StoreFails
    <2>. QED BY <1>6, <2>1, HeldSettled DEF StoreFails, Past
  <1>7. CASE Reply
    BY <1>7, RepliedSettled
  <1>. QED BY <1>1, <1>2, <1>3, <1>4, <1>5, <1>6, <1>7 DEF Dispatch

LEMMA ServiceStaysSettled == TInv /\ Settled /\ Service => Settled'
  <1> SUFFICES ASSUME TInv, Settled, Service PROVE Settled'
    OBVIOUS
  <1> USE DEF store, bridge, history
  <1>1. CASE ApplySnapshot
    BY <1>1, ReadSettled DEF ApplySnapshot, Reading
  <1>2. CASE HandleResponse
    <2>1. /\ output # <<>> /\ output' = Tail(output)
          /\ Head(output).kind = "answer" /\ Head(output).kind # "snapshot"
          /\ UNCHANGED <<status, main, published>>
      BY <1>2 DEF HandleResponse, Reading
    <2>2. PICK q \in pending :
             IF Head(output).ok THEN HandleSuccess(q, Head(output)) ELSE HandleFailure(q)
      BY <1>2 DEF HandleResponse
    <2>3. CASE HandleSuccess(q, Head(output))
      <3>1. records' \subseteq records
        BY <2>3 DEF HandleSuccess
      <3>. QED BY <2>1, <2>3, <3>1, ReadSettled DEF HandleSuccess, Confirms
    <2>4. CASE HandleFailure(q)
      BY <2>1, <2>4, ReadSettled DEF HandleFailure
    <2>. QED BY <2>2, <2>3, <2>4
  <1>3. CASE BridgeExited
    BY <1>3, HeldSettled DEF BridgeExited, Past
  <1>4. CASE StartBridge
    <2>1. main'.deleted = FALSE
      BY <1>4 DEF StartBridge, Dead
    <2>. QED BY <1>4, <2>1, HeldSettled DEF StartBridge, Past
  <1>. QED BY <1>1, <1>2, <1>3, <1>4 DEF Service

LEMMA SettledNext == TInv /\ Settled /\ [Next]_vars => Settled'
  <1> SUFFICES ASSUME TInv, Settled, [Next]_vars PROVE Settled'
    OBVIOUS
  <1> USE DEF store, picker, bridge, history
  <1>0. status \in [Record -> {"awaited", "live", "gone", "expired"}]
    BY DEF TInv, Types
  <1>1. CASE User \/ DropExpired
    <2>1. records' \subseteq records
          /\ UNCHANGED <<status, published, output, confirmed, main>>
      BY <1>1 DEF User, Refresh, Clear, DeleteRecord, Activate, DropExpired
    <2>. QED BY <2>1, HeldSettled DEF Past
  <1>2. CASE Tick \/ Announce
    <2>1. published' = Live /\ UNCHANGED <<status, records, output, confirmed, main>>
      BY <1>2 DEF Tick, Announce, TakeSnapshot
    <2>2. Past' = Past /\ Past \cap Live = {}
      BY <2>1 DEF Past, Live
    <2>. QED BY <2>1, <2>2, HeldSettled
  <1>3. CASE TickEmits \/ ReaderEmits
    BY <1>3, EmittedSettled DEF TickEmits, ReaderEmits
  <1>4. CASE TickFails \/ AnnounceFails \/ UNCHANGED vars
    BY <1>4, HeldSettled DEF TickFails, AnnounceFails, vars, Past
  <1>5. CASE BridgeDies
    <2>1. main'.deleted = FALSE
      BY <1>5 DEF BridgeDies, Dead
    <2>. QED BY <1>5, <2>1, HeldSettled DEF BridgeDies, Past
  <1>6. CASE Elsewhere \/ \E r \in Record : Ingest(r)
    <2>1. /\ Past \subseteq Past'
          /\ UNCHANGED <<records, published, output, confirmed, main>>
      BY <1>0, <1>6 DEF Elsewhere, Becomes, Ingest, Past
    <2>. QED BY <2>1, HeldSettled
  <1>. QED BY <1>1, <1>2, <1>3, <1>4, <1>5, <1>6, DispatchStaysSettled, ServiceStaysSettled
           DEF Next, Maintenance, Reader

(* A code whose deletion or activation was confirmed is not shown again    *)
(* (bridge.py:133-138, 373-380, 431-453; Service.qml:315-355).             *)
THEOREM ConfirmedStaysHidden == Spec => []NoResurrection
  <1>1. Init => Settled
    BY Unoccupied
       DEF Init, Settled, DispatchSettled, AnswersSettled, ConfirmedSettled, Dead
  <1>2. TInv /\ Settled /\ [Next]_vars => Settled'
    BY SettledNext
  <1>3. TInv /\ Settled => NoResurrection
    <2> SUFFICES ASSUME TInv, Settled, NEW r \in confirmed PROVE r \notin records
      BY DEF NoResurrection
    <2>1. 0 \in 0..Len(output)
      BY DEF TInv, Types
    <2>. QED BY <2>1 DEF Settled, ConfirmedSettled, HiddenFrom, Shown
  <1>. QED BY <1>1, <1>2, <1>3, TypesKept, PTL DEF Spec
=============================================================================
