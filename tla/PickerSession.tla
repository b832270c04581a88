---------------------------- MODULE PickerSession ----------------------------
(***************************************************************************)
(* One picker and the bridge it talks to: src/Service.qml keeps a copy of  *)
(* the selectable codes, sends requests over a pipe to the bridge process  *)
(* (oma2fa/bridge.py) and applies the answers and the snapshot events that *)
(* come back over another one.  In the bridge the dispatch thread serves   *)
(* the requests, the maintenance thread looks for changes by other         *)
(* processes, and the reader of an adapter announces what it has ingested. *)
(*                                                                         *)
(* A code is in the store from when its message is recorded until it is    *)
(* consumed or expires, and never again (RuntimeStore).  The store does    *)
(* each call in one step and may fail.  Statuses are not in this module.   *)
(***************************************************************************)
EXTENDS Naturals, Sequences

CONSTANTS
    Record,        (* codes                                                *)
    NoRecord,      (* the argument of a request without one                *)
    MaxInFlight,   (* bound: requests the user leaves unanswered           *)
    PipeRoom       (* bound: lines the bridge's output pipe holds          *)

ASSUME SessionAssumption ==
    /\ NoRecord \notin Record
    /\ MaxInFlight \in Nat \ {0}
    /\ PipeRoom \in Nat \ {0}

VARIABLES
    status,       (* of each code in the store                             *)
    records,      (* Service.qml: the codes that are shown                 *)
    pending,      (* Service.qml: pendingRequests                          *)
    bridgeAlive,  (* Service.qml                                           *)
    input,        (* lines on their way to the bridge                      *)
    output,       (* lines on their way to the picker                      *)
    main,         (* what the dispatch thread is doing                     *)
    publisher,    (* who holds _publish_lock with a snapshot in hand       *)
    published,    (* _last_record_ids: the snapshot in hand, or the last   *)
    maintenance,  (* whether the maintenance thread ticks                  *)
    ingested,     (* the reader has yet to announce what it recorded       *)
    copied,       (* history: codes that were on the clipboard             *)
    confirmed,    (* history: codes the picker knows to be consumed        *)
    adrift        (* history: why the picker may disagree with the bridge  *)

store == <<status>>
picker == <<records, pending, bridgeAlive>>
bridge == <<main, publisher, published, maintenance, ingested>>
history == <<copied, confirmed, adrift>>
vars == <<store, picker, input, output, bridge, history>>

-----------------------------------------------------------------------------
(* Requests are numbered from 1 on; here a number is used again once its   *)
(* request has been answered, since only those in flight are compared.     *)
Id == 1..MaxInFlight

Method == {"refresh", "delete", "clear", "activate"}

Request == [id : Id, method : Method, record : Record \cup {NoRecord}]

Snapshot == [kind : {"snapshot"}, codes : SUBSET Record]
Answer == {a \in [kind : {"answer"}, id : Id, ok : BOOLEAN,
                  record : Record \cup {NoRecord}, deleted : BOOLEAN] :
              a.deleted => a.record \in Record}

(* JsonBridge.start is treated as a request nobody sent.                   *)
Dead == [at |-> "dead", id |-> 1, method |-> "start", record |-> NoRecord,
         ok |-> TRUE, deleted |-> FALSE]

(* The dispatch thread waits for a line.                                   *)
Waiting == [Dead EXCEPT !.at = "loop"]

At(point) == main.at = point
Go(point) == main' = [main EXCEPT !.at = point]

(* Mutant: a failure is not answered.                                      *)
RefuseSilently == main' = Waiting

(* The request fails, or cannot do what it was asked to, and says so.      *)
Refuse == main' = [main EXCEPT !.at = "answer", !.ok = FALSE, !.deleted = FALSE]

Running == ~At("dead")
Live == {r \in Record : status[r] = "live"}

-----------------------------------------------------------------------------
(* Service.qml                                                             *)

FreeId(requests) == CHOOSE id \in Id : \A q \in requests : q.id # id

(* Mutant: a request that nobody asked for is not remembered.              *)
SendUnremembered(requests, method, record) ==
    LET q == [id |-> FreeId(requests), method |-> method, record |-> record]
    IN  /\ pending' = IF method = "refresh" THEN requests ELSE requests \cup {q}
        /\ input' = IF Running THEN Append(input, q) ELSE input

(* sendRequest, with these requests still unanswered.  What is written to  *)
(* a bridge that has just died is lost with it.                            *)
SendRequest(requests, method, record) ==
    LET q == [id |-> FreeId(requests), method |-> method, record |-> record]
    IN  /\ pending' = requests \cup {q}
        /\ input' = IF Running THEN Append(input, q) ELSE input

Ready == bridgeAlive /\ \E id \in Id : \A q \in pending : q.id # id

Refresh ==
    /\ Ready
    /\ SendRequest(pending, "refresh", NoRecord)
    /\ UNCHANGED <<store, records, bridgeAlive, output, bridge, history>>

(* The picker hides at once what it asks to be deleted ...                 *)
DeleteRecord(r) ==
    /\ Ready /\ r \in records
    /\ SendRequest(pending, "delete", r)
    /\ records' = records \ {r}
    /\ UNCHANGED <<store, bridgeAlive, output, bridge, history>>

Clear ==
    /\ Ready
    /\ SendRequest(pending, "clear", NoRecord)
    /\ records' = {}
    /\ UNCHANGED <<store, bridgeAlive, output, bridge, history>>

(* ... but not what it activates.                                          *)
Activate(r) ==
    /\ Ready /\ r \in records
    /\ SendRequest(pending, "activate", r)
    /\ UNCHANGED <<store, records, bridgeAlive, output, bridge, history>>

Reading(kind) ==
    /\ bridgeAlive /\ output # <<>> /\ Head(output).kind = kind
    /\ output' = Tail(output)

(* applySnapshot                                                           *)
ApplySnapshot ==
    /\ Reading("snapshot")
    /\ records' = Head(output).codes
    /\ adrift' = {}
    /\ UNCHANGED <<store, pending, bridgeAlive, input, bridge, copied, confirmed>>

(* Mutant: what was hidden stays hidden when its deletion has failed.      *)
ForgetFailure(q) ==
    /\ pending' = pending \ {q}
    /\ adrift' = IF q.method = "refresh" THEN adrift \cup {"unrefreshed"} ELSE adrift
    /\ UNCHANGED <<records, input, confirmed>>

(* A failed deletion is reconciled with the store by another request.      *)
HandleFailure(q) ==
    /\ IF q.method \in {"delete", "clear"}
       THEN SendRequest(pending \ {q}, "refresh", NoRecord)
       ELSE pending' = pending \ {q} /\ UNCHANGED input
    /\ adrift' = IF q.method = "refresh" THEN adrift \cup {"unrefreshed"} ELSE adrift
    /\ UNCHANGED <<records, confirmed>>

(* removeLocal and clearLocal; snapshots come as events.                   *)
HandleSuccess(q, answer) ==
    /\ pending' = pending \ {q}
    /\ records' = CASE q.method = "delete" -> records \ {q.record}
                    [] q.method = "clear" -> {}
                    [] OTHER -> records
    /\ adrift' = IF q.method = "clear" /\ records # {} THEN adrift \cup {"wiped"} ELSE adrift
    /\ confirmed' = IF answer.deleted THEN confirmed \cup {answer.record} ELSE confirmed
    /\ UNCHANGED input

(* handleResponse                                                          *)
HandleResponse ==
    /\ Reading("answer")
    /\ \E q \in pending :
          /\ q.id = Head(output).id
          /\ IF Head(output).ok THEN HandleSuccess(q, Head(output))
                                ELSE HandleFailure(q)
    /\ UNCHANGED <<store, bridgeAlive, bridge, copied>>

(* Mutant: the timer relies on the bridge to notice.                       *)
DropPublished ==
    /\ \E r \in records : status[r] = "expired"
    /\ maintenance = "on" \/ ~Running
    /\ records' = {r \in records : status[r] # "expired"}
    /\ UNCHANGED <<store, pending, bridgeAlive, input, output, bridge, history>>

(* The timer that drops expired codes without asking.                      *)
DropExpired ==
    /\ \E r \in records : status[r] = "expired"
    /\ records' = {r \in records : status[r] # "expired"}
    /\ UNCHANGED <<store, pending, bridgeAlive, input, output, bridge, history>>

(* What the process wrote before it ended is read first.                   *)
BridgeExited ==
    /\ bridgeAlive /\ ~Running /\ output = <<>>
    /\ bridgeAlive' = FALSE
    /\ pending' = {}
    /\ records' = {}
    /\ adrift' = {}
    /\ UNCHANGED <<store, input, output, bridge, copied, confirmed>>

(* restartTimer, startBridge and bridgeStarted                             *)
StartBridge ==
    /\ ~bridgeAlive
    /\ bridgeAlive' = TRUE
    /\ LET q == [id |-> FreeId(pending), method |-> "refresh", record |-> NoRecord]
       IN  pending' = pending \cup {q} /\ input' = <<q>>
    /\ main' = [Dead EXCEPT !.at = "sources"]
    /\ published' = {}
    /\ UNCHANGED <<store, records, output, publisher, maintenance, ingested, history>>

-----------------------------------------------------------------------------
(* Publication in the bridge                                               *)

(* The store is read under _publish_lock, and ...                          *)
TakeSnapshot(t) ==
    /\ publisher = "nobody"
    /\ publisher' = t
    /\ published' = Live

(* ... its answer is written before the lock is released, when the pipe    *)
(* has room.                                                               *)
EmitSnapshot(t) ==
    /\ publisher = t /\ Len(output) < PipeRoom
    /\ output' = Append(output, [kind |-> "snapshot", codes |-> published])
    /\ publisher' = "nobody"
    /\ UNCHANGED published

(* _maintain_once publishes what other processes have changed.             *)
Tick ==
    /\ maintenance = "on" /\ Live # published
    /\ TakeSnapshot("maintenance")
    /\ UNCHANGED <<store, picker, input, output, main, maintenance, ingested, history>>

(* A StoreError ends the maintenance thread, and an adapter's maintain may *)
(* keep it for good.                                                       *)
TickFails ==
    /\ maintenance = "on" /\ publisher = "nobody"
    /\ maintenance' = "ended"
    /\ UNCHANGED <<store, picker, input, output, main, publisher, published, ingested, history>>

TickEmits ==
    /\ EmitSnapshot("maintenance")
    /\ UNCHANGED <<store, picker, input, main, maintenance, ingested, history>>

(* The reader of an adapter records a code, then calls _changed.           *)
Ingest(r) ==
    /\ Running /\ ~ingested
    /\ status[r] = "awaited"
    /\ status' = [status EXCEPT ![r] = "live"]
    /\ ingested' = TRUE
    /\ UNCHANGED <<picker, input, output, main, publisher, published, maintenance, history>>

Announce ==
    /\ ingested /\ TakeSnapshot("reader")
    /\ ingested' = FALSE
    /\ UNCHANGED <<store, picker, input, output, main, maintenance, history>>

AnnounceFails ==
    /\ ingested /\ publisher = "nobody"
    /\ ingested' = FALSE
    /\ UNCHANGED <<store, picker, input, output, main, publisher, published, maintenance,
                   history>>

ReaderEmits ==
    /\ EmitSnapshot("reader")
    /\ UNCHANGED <<store, picker, input, main, maintenance, ingested, history>>

-----------------------------------------------------------------------------
(* The dispatch thread                                                     *)

Begin(q) ==
    main' = [at |-> CASE q.method = "refresh" -> "sources"
                      [] q.method = "activate" -> "get"
                      [] q.method \in {"delete", "clear"} -> "remove",
             id |-> q.id, method |-> q.method, record |-> q.record,
             ok |-> TRUE, deleted |-> FALSE]

(* handle_line                                                             *)
HandleLine ==
    /\ At("loop") /\ input # <<>>
    /\ Begin(Head(input))
    /\ input' = Tail(input)
    /\ UNCHANGED <<store, picker, output, publisher, published, maintenance, ingested, history>>

(* A refresh asks each source that is wanted, as the start starts it.  An  *)
(* adapter may raise, and it may keep this thread for good (the deadlock   *)
(* of TetherAdapter).  What BlueFerry's probe for raw events finds it      *)
(* records and announces here: Ingest and Announce stand for that too.     *)
AskSources ==
    /\ At("sources")
    /\ \/ Go("take")
       \/ main.method = "refresh" /\ Refuse
    /\ UNCHANGED <<store, picker, input, output, publisher, published, maintenance, ingested,
                   history>>

(* activate looks the code up ...                                          *)
Get ==
    /\ At("get")
    /\ IF main.record \in Live THEN Go("copy") ELSE Refuse
    /\ UNCHANGED <<store, picker, input, output, publisher, published, maintenance, ingested,
                   history>>

(* Mutant: a wl-copy that has ended at once, without an error, is taken to *)
(* have copied the code.                                                   *)
CopyUnchecked ==
    /\ At("copy")
    /\ Go("paste")
    /\ \/ copied' = copied \cup {main.record}
       \/ UNCHANGED copied
    /\ UNCHANGED <<store, picker, input, output, publisher, published, maintenance, ingested,
                   confirmed, adrift>>

(* ... offers it on the clipboard, and gives up (ActivationError) if there *)
(* is no process that offers it ...                                        *)
Copy ==
    /\ At("copy")
    /\ \/ copied' = copied \cup {main.record} /\ Go("paste")
       \/ UNCHANGED copied /\ Refuse
    /\ UNCHANGED <<store, picker, input, output, publisher, published, maintenance, ingested,
                   confirmed, adrift>>

(* ... pastes it where it may, of which nothing else depends ...           *)
Paste ==
    /\ At("paste") /\ Go("remove")
    /\ UNCHANGED <<store, picker, input, output, publisher, published, maintenance, ingested,
                   history>>

Removed == IF main.method = "clear" THEN Live ELSE Live \cap {main.record}

(* Mutant: the answer is enough to tell the picker.                        *)
AnswerAtOnce == "answer"

(* Only a change is published (Oma2FAService.delete, clear).               *)
AfterRemove == IF Removed = {} THEN "answer" ELSE "take"

(* ... and deletes it, as delete and clear do.                             *)
Remove ==
    /\ At("remove")
    /\ status' = [r \in Record |-> IF r \in Removed THEN "gone" ELSE status[r]]
    /\ main' = [main EXCEPT !.at = AfterRemove,
                            !.deleted = main.method # "clear" /\ Removed # {}]
    /\ UNCHANGED <<picker, input, output, publisher, published, maintenance, ingested, history>>

(* emit_snapshot, for _changed, refresh and start                          *)
Take ==
    /\ At("take")
    /\ TakeSnapshot("main")
    /\ Go("emit")
    /\ UNCHANGED <<store, picker, input, output, maintenance, ingested, history>>

(* start ends by starting the maintenance thread.  After a request, the    *)
(* store may fail yet for the status that follows.                         *)
Emit ==
    /\ At("emit")
    /\ EmitSnapshot("main")
    /\ \/ main' = IF main.method = "start" THEN Waiting ELSE [main EXCEPT !.at = "answer"]
       \/ main.method # "start" /\ Refuse
    /\ maintenance' = IF main.method = "start" THEN "on" ELSE maintenance
    /\ UNCHANGED <<store, picker, input, ingested, history>>

(* A StoreError                                                            *)
StoreFails ==
    /\ main.at \in {"get", "remove", "take"} /\ main.method # "start"
    /\ At("take") => publisher = "nobody"
    /\ Refuse
    /\ UNCHANGED <<store, picker, input, output, publisher, published, maintenance, ingested,
                   history>>

Reply ==
    /\ At("answer") /\ Len(output) < PipeRoom
    /\ output' = Append(output, [kind |-> "answer", id |-> main.id, ok |-> main.ok,
                                 record |-> main.record, deleted |-> main.deleted])
    /\ main' = Waiting
    /\ UNCHANGED <<store, picker, input, publisher, published, maintenance, ingested, history>>

(* The bridge dies, at any point, or because the store or an adapter fails *)
(* at its start.                                                           *)
BridgeDies ==
    /\ Running
    /\ main' = Dead
    /\ input' = <<>>
    /\ publisher' = "nobody"
    /\ published' = {}
    /\ maintenance' = "off"
    /\ ingested' = FALSE
    /\ UNCHANGED <<store, picker, output, history>>

-----------------------------------------------------------------------------
(* Other processes and time                                                *)

Becomes(r, from, to) ==
    /\ status[r] = from
    /\ status' = [status EXCEPT ![r] = to]
    /\ UNCHANGED <<picker, input, output, bridge, history>>

(* A hook or the webhook records a code, somebody uses one, one expires.   *)
Elsewhere ==
    \E r \in Record :
        \/ Becomes(r, "awaited", "live")
        \/ Becomes(r, "live", "gone")
        \/ Becomes(r, "live", "expired")

Init ==
    /\ status = [r \in Record |-> "awaited"]
    /\ records = {} /\ pending = {} /\ bridgeAlive = FALSE
    /\ input = <<>> /\ output = <<>>
    /\ main = Dead
    /\ publisher = "nobody" /\ published = {}
    /\ maintenance = "off" /\ ingested = FALSE
    /\ copied = {} /\ confirmed = {} /\ adrift = {}

User == Refresh \/ Clear \/ \E r \in Record : DeleteRecord(r) \/ Activate(r)

Service == ApplySnapshot \/ HandleResponse \/ BridgeExited \/ StartBridge

Dispatch ==
    \/ HandleLine \/ AskSources \/ Get \/ Copy \/ Paste \/ Remove
    \/ Take \/ Emit \/ StoreFails \/ Reply

Maintenance == Tick \/ TickEmits

Reader == Announce \/ ReaderEmits

Next ==
    \/ User \/ Service \/ DropExpired
    \/ Dispatch \/ Maintenance \/ Reader
    \/ TickFails \/ AnnounceFails \/ BridgeDies \/ Elsewhere
    \/ \E r \in Record : Ingest(r)

Spec == Init /\ [][Next]_vars

(* The event loop of the picker and the threads of the bridge go on, but   *)
(* for a dispatch thread in the hands of an adapter.  Nobody has to use    *)
(* the picker, and nothing has to fail or to happen elsewhere.             *)
FairSpec ==
    /\ Spec
    /\ WF_vars(Service) /\ WF_vars(DropExpired)
    /\ WF_vars(Dispatch /\ ~At("sources")) /\ WF_vars(Maintenance) /\ WF_vars(Reader)

-----------------------------------------------------------------------------
(* Properties                                                              *)

(* Every variable keeps its type, and every request on its way to the      *)
(* bridge or in its hands is one the picker waits for, as long as the      *)
(* picker believes the bridge alive.                                       *)
TypeOK ==
    /\ status \in [Record -> {"awaited", "live", "gone", "expired"}]
    /\ records \in SUBSET Record
    /\ pending \in SUBSET Request
    /\ bridgeAlive \in BOOLEAN
    /\ input \in Seq(Request)
    /\ output \in Seq(Snapshot \cup Answer)
    /\ main \in [at : {"dead", "loop", "sources", "get", "copy", "paste", "remove", "take",
                        "emit", "answer"},
                 id : Id, method : Method \cup {"start"}, record : Record \cup {NoRecord},
                 ok : BOOLEAN, deleted : BOOLEAN]
    /\ publisher \in {"nobody", "main", "maintenance", "reader"}
    /\ published \in SUBSET Record
    /\ maintenance \in {"off", "on", "ended"}
    /\ ingested \in BOOLEAN
    /\ copied \in SUBSET Record
    /\ confirmed \in SUBSET Record
    /\ adrift \in SUBSET {"wiped", "unrefreshed"}
    /\ \A i \in DOMAIN input : input[i] \in pending

(* A code whose deletion or activation was confirmed is not shown again:   *)
(* no snapshot from before arrives after the answer (bridge.py:133-138,    *)
(* 373-380).                                                               *)
NoResurrection == records \cap confirmed = {}

(* A running bridge loses no request, whatever fails: one the picker waits *)
(* for is on its way, in hand, or answered by a line on its way back, and  *)
(* still about the same code (bridge.py:373-380, Service.qml:379-415).     *)
NoRequestLost ==
    Running => \A q \in pending :
        \/ \E i \in DOMAIN input : input[i] = q
        \/ ~At("loop") /\ <<main.id, main.method, main.record>> = <<q.id, q.method, q.record>>
        \/ \E i \in DOMAIN output :
              /\ output[i].kind = "answer"
              /\ output[i].id = q.id /\ output[i].record = q.record

(* A picker that waits for nothing shows what the bridge published last,   *)
(* but for codes that are not live any more, unless it knows a reason: a   *)
(* deletion it hid and that failed does not stay hidden, and no answer     *)
(* undoes a later snapshot (Service.qml:325-355, bridge.py:133-138).       *)
PickerAgrees ==
    (Running /\ pending = {} /\ output = <<>> /\ publisher = "nobody" /\ adrift = {})
        => /\ records \subseteq published
           /\ published \cap Live \subseteq records

(* Activation consumes only what was on the clipboard (bridge.py:431-449,  *)
(* activation.py:122-175).                                                 *)
OnlyCopiedConsumed ==
    [][At("remove") /\ main.method = "activate" /\ main' # main /\ status' # status
          => main.record \in copied]_vars

(* Every request is answered or given up, so that its number becomes free  *)
(* again (Service.qml:315-327, 400), whatever fails and however often the  *)
(* bridge dies, unless an adapter keeps the dispatch thread for good       *)
(* (bridge.py:396-401).                                                    *)
RequestsEnd ==
    []<>~At("sources") => \A id \in Id : []<>(\A q \in pending : q.id # id)

(* A picker that stays connected and waits for no answer shows what is in  *)
(* the store in the end, unless the answer to a clear has wiped out newer  *)
(* codes, or a refresh has failed (bridge.py:373-380, Service.qml:325).    *)
PickerConverges ==
    <>[](Running /\ bridgeAlive /\ pending = {} /\ maintenance = "on")
        => <>[](records = Live \/ adrift # {})

(* An expired code leaves the picker whatever becomes of the bridge        *)
(* (Service.qml:455-471).                                                  *)
ExpiredLeaves ==
    \A r \in Record : <>[](status[r] = "expired" => r \notin records)
=============================================================================
