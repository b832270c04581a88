-------------------------- MODULE WebhookServerProofs --------------------------
(***************************************************************************)
(* Proofs about WebhookServer, for any number of servers and any maximal   *)
(* age: its types, that a server which has been stopped leaves no          *)
(* heartbeat, that stop waits only for a thread which runs the loop, that  *)
(* a server which serves has its heartbeat renewed, and that no server     *)
(* removes the heartbeat of another.                                       *)
(***************************************************************************)
EXTENDS WebhookServer, TLAPS

(* What holds of each server.  Only in a bridge does another thread than   *)
(* the serving one look at _serving, and nothing interrupts a bridge's     *)
(* serving thread on its way into a loop that stop waits for.  Once stop   *)
(* has seen both threads end, or the process has yet to start them, nobody *)
(* publishes in its name; so once its heartbeat is gone it stays away.     *)
Orderly(s) ==
    /\ ~Alive(s) => serving[s] = "none" /\ maintenance[s] = "none"
    /\ serving[s] = "load" => owner[s] = "none" /\ maintenance[s] = "none"
    /\ owner[s] = "bind" => s \in Bridged /\ serving[s] = "none" /\ maintenance[s] = "none"
    /\ owner[s] \in {"start", "up", "check", "shutdown"} => s \in Bridged
    /\ ~Alive(s) \/ owner[s] = "bind" \/ serving[s] = "load" => heartbeat.by # s
    /\ owner[s] \in {"joinMaintenance", "clear", "stopped"} /\ "late" \notin excuse[s] => Ended(s)
    /\ owner[s] \in {"clear", "stopped"} /\ "late" \notin excuse[s] => maintenance[s] = "none"
    /\ owner[s] = "stopped" /\ excuse[s] \cap {"late", "unusable"} = {} => heartbeat.by # s
    /\ owner[s] = "shutdown" => serving[s] \in {"enter", "listen", "clear", "ended"}
    /\ IsServing(s) /\ ~Stopping(s) => maintenance[s] # "none"

Types ==
    /\ heartbeat \in [by : Server \cup {Former, Nobody}, age : 0..MaxAge + 1]
    /\ storeOk \in BOOLEAN
    /\ serving \in [Server -> ServingPoints]
    /\ owner \in [Server -> OwnerPoints]
    /\ maintenance \in [Server -> {"none", "wait", "due"}]
    /\ excuse \in [Server -> SUBSET {"error", "late", "unusable"}]

IInv == Types /\ \A s \in Server : Orderly(s)

(* A step of server t as the others see it                                 *)
Apart(t) ==
    \A s \in Server \ {t} :
        /\ serving'[s] = serving[s] /\ owner'[s] = owner[s]
        /\ maintenance'[s] = maintenance[s] /\ excuse'[s] = excuse[s]
        /\ heartbeat'.by = s => heartbeat.by = s

LEMMA ApartKeepsOrder ==
    ASSUME IInv, NEW t \in Server, Types', Apart(t), Orderly(t)'
    PROVE  IInv'
  <1>1. ASSUME NEW s \in Server \ {t} PROVE Orderly(s)'
    <2>1. Orderly(s)
      BY DEF IInv
    <2>. QED BY <2>1 DEF Apart, Orderly, Stopping, IsServing, StopPoints, Alive, Ended
  <1>. QED BY <1>1 DEF IInv

LEMMA HeartbeatsTyped ==
    /\ MaxAge + 1 \in Nat /\ 0 \in 0..MaxAge + 1
    /\ Missing \in [by : Server \cup {Former, Nobody}, age : 0..MaxAge + 1]
    /\ Missing.by = Nobody /\ Missing.age = 0
    /\ Nobody \notin Server /\ Former \notin Server /\ Nobody # Former
  BY ServersAssumption DEF Missing

(* What the operations on the file do to it                                *)
LEMMA Published ==
    ASSUME Types, NEW s \in Server, PublishHeartbeat(s)
    PROVE  /\ heartbeat' \in [by : Server \cup {Former, Nobody}, age : 0..MaxAge + 1]
           /\ \A t \in Server \ {s} : heartbeat'.by = t => heartbeat.by = t
           /\ heartbeat # Missing => heartbeat' # Missing
  BY HeartbeatsTyped DEF Types, PublishHeartbeat

LEMMA Cleared ==
    ASSUME Types, NEW s \in Server, ClearHeartbeat(s)
    PROVE  /\ heartbeat' \in [by : Server \cup {Former, Nobody}, age : 0..MaxAge + 1]
           /\ \A t \in Server : heartbeat'.by = t => heartbeat.by = t
           /\ storeOk => heartbeat'.by # s
           /\ heartbeat # Missing /\ heartbeat' = Missing => heartbeat.by = s
  BY HeartbeatsTyped DEF Types, ClearHeartbeat

LEMMA Died ==
    ASSUME IInv, NEW s \in Server, NEW how \in Ends, Die(s, how)
    PROVE  IInv' /\ (heartbeat # Missing => heartbeat' # Missing)
  <1> USE DEF IInv, Types, Die, Own
  <1>1. /\ heartbeat' \in [by : Server \cup {Former, Nobody}, age : 0..MaxAge + 1]
        /\ \A t \in Server : heartbeat'.by = t => heartbeat.by = t
        /\ heartbeat'.by # s
        /\ heartbeat # Missing => heartbeat' # Missing
    BY HeartbeatsTyped
  <1>2. Types'
    BY <1>1 DEF OwnerPoints, ServingPoints
  <1>3. Orderly(s)'
    BY <1>1 DEF Orderly, Stopping, IsServing, StopPoints, Alive, Ends, Ended
  <1>4. Apart(s)
    BY <1>1 DEF Apart
  <1>. QED BY <1>1, <1>2, <1>3, <1>4, ApartKeepsOrder

(* The threads of one server                                               *)
LEMMA ServingKeepsOrder == ASSUME IInv, NEW s \in Server, ServingThread(s) PROVE IInv'
  <1> USE DEF Serve, Own, Excuse
  <1>0. Types /\ Orderly(s)
    BY DEF IInv
  <1>1. CASE Bind(s)
    <2>1. Types' /\ Apart(s)
      <3>1. owner[s] \in OwnerPoints /\ "start" \in OwnerPoints /\ "publish" \in ServingPoints
        BY <1>0 DEF Types, OwnerPoints, ServingPoints
      <3>. QED BY <1>0, <1>1, <3>1 DEF Bind, Types, Apart
    <2>2. Orderly(s)'
      <3>1. CASE s \in Bridged
        BY <1>0, <1>1, <3>1
           DEF Bind, Types, Orderly, Stopping, IsServing, StopPoints, Alive, Ends, Ended
      <3>2. CASE s \notin Bridged
        BY <1>0, <1>1, <3>2
           DEF Bind, Types, Orderly, Stopping, IsServing, StopPoints, Alive, Ends, Ended
      <3>. QED BY <3>1, <3>2
    <2>. QED BY <2>1, <2>2, ApartKeepsOrder
  <1>2. CASE BindFails(s)
    <2>1. Types' /\ Apart(s)
      BY <1>0, <1>2 DEF BindFails, Types, Apart, ServingPoints, OwnerPoints, StopPoints, Ends
    <2>2. Orderly(s)'
      BY <1>0, <1>2
         DEF BindFails, Types, Orderly, Stopping, IsServing, StopPoints, Alive, Ends, Ended
    <2>. QED BY <2>1, <2>2, ApartKeepsOrder
  <1>3. CASE Publish(s)
    <2>1. PublishHeartbeat(s)
      BY <1>3 DEF Publish
    <2>2. Types' /\ Apart(s)
      BY <1>0, <1>3, <2>1, Published DEF Publish, Types, Apart, ServingPoints
    <2>3. Orderly(s)'
      BY <1>0, <1>3
         DEF Publish, Types, Orderly, Stopping, IsServing, StopPoints, Alive, Ends, Ended
    <2>. QED BY <2>2, <2>3, ApartKeepsOrder
  <1>4. CASE Begin(s)
    <2>1. Types' /\ Apart(s)
      BY <1>0, <1>4 DEF Begin, Types, Apart, ServingPoints
    <2>2. Orderly(s)'
      BY <1>0, <1>4 DEF Begin, Types, Orderly, Stopping, IsServing, StopPoints, Alive, Ends, Ended
    <2>. QED BY <2>1, <2>2, ApartKeepsOrder
  <1>5. CASE LeaveServing(s)
    <2>1. ClearHeartbeat(s)
      BY <1>5 DEF LeaveServing
    <2>2. Types' /\ Apart(s)
      BY <1>0, <1>5, <2>1, Cleared
         DEF LeaveServing, Types, Apart, ServingPoints, OwnerPoints, StopPoints
    <2>3. Orderly(s)'
      BY <1>0, <1>5, <2>1, Cleared
         DEF LeaveServing, Types, Orderly, Stopping, IsServing, StopPoints, Alive, Ends, Ended
    <2>. QED BY <2>2, <2>3, ApartKeepsOrder
  <1>6. CASE LeaveLoop(s)
    <2>1. Types' /\ Apart(s)
      BY <1>0, <1>6 DEF LeaveLoop, Types, Apart, ServingPoints
    <2>2. Orderly(s)'
      BY <1>0, <1>6
         DEF LeaveLoop, Types, Orderly, Stopping, IsServing, StopPoints, Alive, Ends, Ended
    <2>. QED BY <2>1, <2>2, ApartKeepsOrder
  <1>7. CASE EnterLoop(s)
    <2>1. Types' /\ Apart(s)
      BY <1>0, <1>7 DEF EnterLoop, Types, Apart, ServingPoints
    <2>2. Orderly(s)'
      BY <1>0, <1>7
         DEF EnterLoop, Types, Orderly, Open, Stopping, IsServing, StopPoints, Alive, Ends, Ended
    <2>. QED BY <2>1, <2>2, ApartKeepsOrder
  <1>. QED BY <1>1, <1>2, <1>3, <1>4, <1>5, <1>6, <1>7 DEF ServingThread

LEMMA MaintenanceKeepsOrder == ASSUME IInv, NEW s \in Server, MaintenanceThread(s) PROVE IInv'
  <1> USE DEF MaintenanceAt
  <1>0. Types /\ Orderly(s)
    BY DEF IInv
  <1>1. CASE Due(s) \/ MaintenanceEnds(s)
    <2>1. Types' /\ Apart(s)
      BY <1>0, <1>1 DEF Due, MaintenanceEnds, Types, Apart
    <2>2. Orderly(s)'
      BY <1>0, <1>1
         DEF Due, MaintenanceEnds, Types, Orderly, Stopping, IsServing, StopPoints, Alive, Ended
    <2>. QED BY <2>1, <2>2, ApartKeepsOrder
  <1>2. CASE Maintain(s)
    <2>1. Types' /\ Apart(s)
      BY <1>0, <1>2, Published DEF Maintain, Types, Apart
    <2>2. Orderly(s)'
      BY <1>0, <1>2 DEF Maintain, Types, Orderly, Stopping, IsServing, StopPoints, Alive, Ended
    <2>. QED BY <2>1, <2>2, ApartKeepsOrder
  <1>. QED BY <1>1, <1>2 DEF MaintenanceThread

LEMMA StoppingKeepsOrder ==
    ASSUME IInv, NEW s \in Server, StoppingThread(s) \/ Close(s) PROVE IInv'
  <1> USE DEF Own, Excuse
  <1>0. Types /\ Orderly(s)
    BY DEF IInv
  <1>1. CASE Started(s) \/ StartFails(s) \/ CheckServing(s) \/ ShutDown(s) \/ ServerClose(s)
              \/ Close(s)
    <2> USE DEF Started, StartFails, CheckServing, ShutDown, ServerClose, Close
    <2>1. Types' /\ Apart(s)
      BY <1>0, <1>1 DEF Types, Apart, OwnerPoints, StopPoints
    <2>2. Orderly(s)'
      BY <1>0, <1>1 DEF Types, Orderly, Stopping, IsServing, StopPoints, Alive, Ends, Ended
    <2>. QED BY <2>1, <2>2, ApartKeepsOrder
  <1>2. CASE JoinServing(s)
    <2>1. Types' /\ Apart(s)
      BY <1>0, <1>2 DEF JoinServing, Types, Apart, OwnerPoints, StopPoints
    <2>2. Orderly(s)'
      BY <1>0, <1>2
         DEF JoinServing, Types, Orderly, Stopping, IsServing, StopPoints, Alive, Ends, Ended
    <2>. QED BY <2>1, <2>2, ApartKeepsOrder
  <1>3. CASE JoinMaintenance(s)
    <2>1. Types' /\ Apart(s)
      BY <1>0, <1>3 DEF JoinMaintenance, Types, Apart, OwnerPoints, StopPoints
    <2>2. Orderly(s)'
      BY <1>0, <1>3
         DEF JoinMaintenance, Types, Orderly, Stopping, IsServing, StopPoints, Alive, Ends, Ended
    <2>. QED BY <2>1, <2>2, ApartKeepsOrder
  <1>4. CASE StopClears(s)
    <2>1. ClearHeartbeat(s)
      BY <1>4 DEF StopClears
    <2>2. Types' /\ Apart(s)
      BY <1>0, <1>4, <2>1, Cleared DEF StopClears, Types, Apart, OwnerPoints, StopPoints
    <2>3. Orderly(s)'
      BY <1>0, <1>4, <2>1, Cleared
         DEF StopClears, Types, Orderly, Stopping, IsServing, StopPoints, Alive, Ends, Ended
    <2>. QED BY <2>2, <2>3, ApartKeepsOrder
  <1>. QED BY <1>1, <1>2, <1>3, <1>4 DEF StoppingThread

LEMMA Invariance == Spec => []IInv
  <1>1. Init => IInv
    BY HeartbeatsTyped
      
          DEF Init, IInv, Types, Orderly, Stopping, IsServing, StopPoints, Alive, Ends, Ended,
              ServingPoints,
                 OwnerPoints
  <1>2. IInv /\ [Next]_vars => IInv'
    <2> SUFFICES ASSUME IInv, [Next]_vars PROVE IInv'
      OBVIOUS
    <2>0. Types /\ \A s \in Server : Orderly(s)
      BY DEF IInv
    <2>1. ASSUME NEW s \in Server, Launch(s) PROVE IInv'
      <3>1. Types' /\ Apart(s)
        BY <2>0, <2>1 DEF Launch, Serve, Own, Types, Apart, ServingPoints, OwnerPoints
      <3>2. Orderly(s)'
        BY <2>0, <2>1
           DEF Launch, Serve, Own, Types, Orderly, Stopping, IsServing, StopPoints, Alive, Ends,
               Ended
      <3>. QED BY <3>1, <3>2, ApartKeepsOrder
    <2>2. ASSUME NEW s \in Server, Interrupt(s) PROVE IInv'
      <3>1. Types' /\ Apart(s)
        BY <2>0, <2>2 DEF Interrupt, Serve, Own, Types, Apart, ServingPoints, OwnerPoints, Ends
      <3>2. Orderly(s)'
        BY <2>0, <2>2
           DEF Interrupt, Serve, Own, Types, Orderly, Stopping, IsServing, StopPoints, Alive,
               Ends, Ended
      <3>. QED BY <3>1, <3>2, ApartKeepsOrder
    <2>3. ASSUME NEW s \in Server, Exit(s) \/ Kill(s) PROVE IInv'
      BY <2>3, Died DEF Exit, Kill, Ends
    <2>4. CASE TimePasses
      <3>1. Types' /\ heartbeat'.by = heartbeat.by
        BY <2>0, <2>4, HeartbeatsTyped, ServersAssumption DEF TimePasses, Types
      <3>. QED BY <2>0, <2>4, <3>1
         DEF TimePasses, IInv, Orderly, Stopping, IsServing, StopPoints, Alive, Ended
    <2>5. CASE StoreTurns \/ UNCHANGED vars
      <3>1. UNCHANGED <<heartbeat, serving, owner, maintenance, excuse>> /\ storeOk' \in BOOLEAN
        BY <2>0, <2>5 DEF StoreTurns, vars, Types
      <3>. QED BY <2>0, <3>1 DEF IInv, Types, Orderly, Stopping, IsServing, Alive, Ended
    <2>. QED BY <2>1, <2>2, <2>3, <2>4, <2>5, ServingKeepsOrder, MaintenanceKeepsOrder,
                StoppingKeepsOrder DEF Next
  <1>. QED BY <1>1, <1>2, PTL DEF Spec

(* Every variable keeps its type, and no thread outlives its process       *)
(* (webhook.py:199-216, 345-362).                                          *)
THEOREM TypeCorrect == Spec => []TypeOK
  <1>1. IInv => TypeOK
    BY DEF IInv, Types, Orderly, TypeOK
  <1>. QED BY <1>1, Invariance, PTL

(* A server that has been stopped, with no join timed out and the store    *)
(* usable, is not taken to be running, however its threads interleave      *)
(* with it and with other servers (webhook.py:380-391, 412-424).           *)
THEOREM StoppedIsGone == Spec => []StoppedLeavesNoHeartbeat
  <1>1. IInv => StoppedLeavesNoHeartbeat
    BY DEF IInv, Orderly, StoppedLeavesNoHeartbeat
  <1>. QED BY <1>1, Invariance, PTL

(* stop waits in shutdown only for a serving thread that is about to enter *)
(* the loop, in it, or past it, whatever that thread does between the look *)
(* at _serving and the call (webhook.py:380-391, 412-415).                 *)
THEOREM ShutdownOfALoopThatRuns == Spec => []ShutdownAwaitsLoop
  <1>1. IInv => ShutdownAwaitsLoop
    BY DEF IInv, Orderly, ShutdownAwaitsLoop
  <1>. QED BY <1>1, Invariance, PTL

(* A server that serves and is not asked to stop has a thread that renews  *)
(* its heartbeat, whatever the store has refused (webhook.py:364-371,      *)
(* 403-410).                                                               *)
THEOREM ServingRenews == Spec => []ServingIsRenewed
  <1>1. IInv => ServingIsRenewed
    BY DEF IInv, Orderly, ServingIsRenewed
  <1>. QED BY <1>1, Invariance, PTL

(* No server removes the heartbeat of another, whatever the order in which *)
(* one stops and the next one starts (store.py:494-513).                   *)
THEOREM OthersHeartbeatKept == Spec => OwnHeartbeatOnly
  <1>1. IInv /\ [Next]_vars =>
           [(heartbeat # Missing /\ heartbeat' = Missing) =>
               \E s \in Server : heartbeat.by = s /\ Stopping(s)]_vars
    <2> SUFFICES ASSUME IInv, [Next]_vars, heartbeat # Missing, heartbeat' = Missing
                 PROVE  \E s \in Server : heartbeat.by = s /\ Stopping(s)
      OBVIOUS
    <2>0. Types
      BY DEF IInv
    <2>1. ASSUME NEW s \in Server, ServingThread(s)
          PROVE  heartbeat.by = s /\ Stopping(s)
      <3>1. ~Publish(s)
        BY <2>0, Published DEF Publish
      <3>2. LeaveServing(s)
        BY <2>1, <3>1 DEF ServingThread, Bind, BindFails, Begin, EnterLoop, LeaveLoop
      <3>. QED BY <2>0, <3>2, Cleared DEF LeaveServing, Stopping
    <2>2. ASSUME NEW s \in Server, MaintenanceThread(s) PROVE FALSE
      BY <2>0, <2>2, Published DEF MaintenanceThread, Due, Maintain, MaintenanceEnds
    <2>3. ASSUME NEW s \in Server, StoppingThread(s)
          PROVE  heartbeat.by = s /\ Stopping(s)
      <3>1. StopClears(s)
        BY <2>3 DEF StoppingThread, Started, StartFails, CheckServing, ShutDown, ServerClose,
                    JoinServing, JoinMaintenance
      <3>. QED BY <2>0, <3>1, Cleared DEF StopClears, Stopping, IsServing, StopPoints
    <2>4. ASSUME NEW s \in Server, Launch(s) \/ Interrupt(s) \/ Close(s) PROVE FALSE
      BY <2>4 DEF Launch, Interrupt, Close
    <2>5. ASSUME NEW s \in Server, Exit(s) \/ Kill(s) PROVE FALSE
      BY <2>5, Died DEF Exit, Kill, Ends
    <2>6. CASE TimePasses
      BY <2>0, <2>6, HeartbeatsTyped DEF TimePasses, Types
    <2>7. CASE StoreTurns \/ UNCHANGED vars
      BY <2>7 DEF StoreTurns, vars
    <2>. QED BY <2>1, <2>2, <2>3, <2>4, <2>5, <2>6, <2>7 DEF Next
  <1>. QED BY <1>1, Invariance, PTL DEF Spec, OwnHeartbeatOnly
=============================================================================
