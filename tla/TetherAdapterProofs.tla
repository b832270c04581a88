-------------------------- MODULE TetherAdapterProofs --------------------------
(***************************************************************************)
(* Proofs about TetherAdapter, for any number of connection slots.         *)
(*                                                                         *)
(* NoOrphanConnection is inductive together with TypeOK.  For              *)
(* LateFailureHarmless one more fact is needed, FailuresAreReal: a thread  *)
(* that is about to drop a connection which still works is that            *)
(* connection's own reader.  It survives because a slot is not used again  *)
(* while anybody refers to it.                                             *)
(***************************************************************************)
EXTENDS TetherAdapter, TLAPS

(* Whoever drops a working connection is its reader (tether.py:212-216).   *)
FailuresAreReal ==
    \A t \in Threads :
        At(t, "drop") /\ link[target[t]] = "up" => t = target[t]

IInv == TypeOK /\ NoOrphanConnection /\ FailuresAreReal

LEMMA NoneIsNobody == None \notin Conns /\ None \notin Threads
  BY ThreadsAssumption DEF Threads

LEMMA DriversAreThreads == Drivers \subseteq Threads /\ Conns \subseteq Threads /\ Drivers \cap Conns = {}
  BY ThreadsAssumption DEF Threads, Drivers

(* Every initial state satisfies the invariant.                            *)
LEMMA InitEstablishes == Init => IInv
  BY ThreadsAssumption, DriversAreThreads
     DEF Init, IInv, TypeOK, NoOrphanConnection, FailuresAreReal, At, Threads,
         Points, Sending, Closing, Drivers

(* TypeOK, one action at a time.                                           *)
LEMMA TypeStep == TypeOK /\ [Next]_vars => TypeOK'
  <1> SUFFICES ASSUME TypeOK, [Next]_vars PROVE TypeOK'
    OBVIOUS
  <1> USE NoneIsNobody, DriversAreThreads
  <1> USE DEF TypeOK, At, Goto, Points, Sending, Closing, timing, locks
  <1>1. ASSUME NEW t \in Drivers, Enable(t) PROVE TypeOK'
    BY <1>1 DEF Enable
  <1>2. ASSUME NEW t \in Drivers, Disable(t) PROVE TypeOK'
    BY <1>2 DEF Disable
  <1>3. CASE Refresh
    BY <1>3 DEF Refresh, Running, Drivers
  <1>4. CASE Tick
    BY <1>4 DEF Tick, Drivers
  <1>5. ASSUME NEW t \in Drivers, At(t, "start") \/ At(t, "maintain"), ~Running, Connect(t)
        PROVE TypeOK'
    <2>1. CASE daemon = "down" /\ sock' = sock
      BY <1>5, <2>1 DEF Connect, Running
    <2>2. CASE daemon = "up"
      <3>1. PICK c \in Conns :
               /\ Unused(c)
               /\ link' = [link EXCEPT ![c] = "up"]
               /\ sock' = c
               /\ pc' = [pc EXCEPT ![t] = "subscribe", ![c] = "reading"]
               /\ target' = [target EXCEPT ![t] = c]
        BY <1>5, <2>2 DEF Connect
      <3>2. t # c /\ target[c] = None
        BY <3>1 DEF Unused
      <3>3. pc' \in [Threads -> Points] /\ target' \in [Threads -> Conns \cup {None}]
        BY <3>1
      <3>4. \A u \in Threads :
               (target'[u] # None) <=> (pc'[u] \in Sending \cup Closing \cup {"drop"})
        BY <3>1, <3>2
      <3>5. /\ stopping' = FALSE /\ mapOpen' = TRUE /\ backoff' = FALSE /\ refreshDue' = FALSE
            /\ lifecycle' = t /\ writer' = writer /\ daemon' = daemon /\ active' = active
        BY <1>5, <2>2 DEF Connect
      <3>6. link' \in [Conns -> {"up", "broken", "closed"}] /\ sock' \in Conns
        BY <3>1
      <3> QED
        BY <3>3, <3>4, <3>5, <3>6
    <2> QED
      BY <1>5, <2>1, <2>2 DEF Connect
  <1>6. ASSUME NEW t \in Drivers, At(t, "start") \/ At(t, "maintain"), Pass(t)
        PROVE TypeOK'
    BY <1>6 DEF Pass
  <1>7. ASSUME NEW t \in Drivers, Start(t) PROVE TypeOK'
    BY <1>5, <1>6, <1>7 DEF Start
  <1>8. CASE Maintain
    <2>1. CASE Connect(Maint) /\ ~Running
      BY <1>5, <1>8, <2>1 DEF Maintain, Drivers
    <2>2. CASE Pass(Maint)
      BY <1>6, <1>8, <2>2 DEF Maintain, Drivers
    <2>3. CASE Running /\ ~Pass(Maint)
      BY <1>8, <2>3 DEF Maintain, Running, Drivers
    <2> QED
      BY <1>8, <2>1, <2>2, <2>3 DEF Maintain
  <1>9. ASSUME NEW t \in Drivers, Stop(t) PROVE TypeOK'
    BY <1>9 DEF Stop, Running
  <1>10. ASSUME NEW t \in Threads, Pick(t) PROVE TypeOK'
    BY <1>10 DEF Pick, Running, Return, Release, AfterSend
  <1>11. ASSUME NEW t \in Threads, SendSucceeds(t) PROVE TypeOK'
    BY <1>11 DEF SendSucceeds, Return, Release, AfterSend
  <1>12. ASSUME NEW t \in Threads, SendFails(t) PROVE TypeOK'
    BY <1>12 DEF SendFails
  <1>13. ASSUME NEW t \in Threads, Drop(t) PROVE TypeOK'
    BY <1>13 DEF Drop, OwnsSocket, Return, Release, AfterDrop, Leaving
  <1>14. ASSUME NEW t \in Threads, Close(t) PROVE TypeOK'
    BY <1>14 DEF Close, Return, Release, AfterDrop, Leaving
  <1>15. ASSUME NEW c \in Conns, Event(c) PROVE TypeOK'
    BY <1>15 DEF Event
  <1>16. ASSUME NEW c \in Conns, NEW open \in BOOLEAN, PhoneEvent(c, open) PROVE TypeOK'
    BY <1>16 DEF PhoneEvent
  <1>17. ASSUME NEW c \in Conns, EndOfFile(c) \/ GiveUp(c) PROVE TypeOK'
    BY <1>17 DEF EndOfFile, GiveUp
  <1>18. CASE Environment
    BY <1>18 DEF Environment, DaemonStarts, DaemonDies, BackoffElapses, RefreshElapses
  <1>19. CASE UNCHANGED vars
    BY <1>19 DEF vars
  <1> QED
    BY <1>1, <1>2, <1>3, <1>4, <1>7, <1>8, <1>9, <1>10, <1>11, <1>12, <1>13,
       <1>14, <1>15, <1>16, <1>17, <1>18, <1>19
       DEF Next, Bridge, Transport, Reader

(* What a step may do to the other threads: it moves at most itself and,   *)
(* when it connects, the reader of a slot that nobody refers to.           *)
LEMMA OrphanStep == TypeOK /\ NoOrphanConnection /\ [Next]_vars => NoOrphanConnection'
  <1> SUFFICES ASSUME TypeOK, NoOrphanConnection, [Next]_vars,
                      NEW c \in Conns, link'[c] # "closed"
               PROVE  Attended(c)'
    BY DEF NoOrphanConnection
  <1> USE NoneIsNobody, DriversAreThreads
  <1> USE DEF At, Goto, timing, locks
  <1> DEFINE Closer(t) == pc[t] \in Closing /\ target[t] = c
  <1>1. ASSUME pc' = pc, target' = target, sock' = sock, link[c] # "closed"
        PROVE  Attended(c)'
    BY <1>1 DEF Attended, NoOrphanConnection
  <1>2. ASSUME NEW u \in Threads, pc[u] \notin Closing, link[c] # "closed", sock' = sock,
               \A t \in Threads \ {u} : pc'[t] = pc[t] /\ target'[t] = target[t]
        PROVE  Attended(c)'
    BY <1>2 DEF Attended, NoOrphanConnection
  <1>3. ASSUME NEW t \in Drivers, Enable(t) \/ Disable(t) PROVE Attended(c)'
    BY <1>2, <1>3 DEF Enable, Disable, TypeOK, Closing
  <1>4. CASE Refresh \/ Tick
    BY <1>2, <1>4 DEF Refresh, Tick, TypeOK, Closing, Drivers
  <1>5. ASSUME NEW t \in Drivers, At(t, "start") \/ At(t, "maintain"), ~Running, Connect(t)
        PROVE  Attended(c)'
    <2>1. CASE sock' = sock /\ link' = link /\ Goto(t, "idle") /\ UNCHANGED target
      BY <1>2, <1>5, <2>1 DEF TypeOK, Closing
    <2>2. CASE daemon = "up"
      <3>1. PICK d \in Conns :
               /\ Unused(d)
               /\ link' = [link EXCEPT ![d] = "up"]
               /\ sock' = d
               /\ pc' = [pc EXCEPT ![t] = "subscribe", ![d] = "reading"]
               /\ target' = [target EXCEPT ![t] = d]
        BY <1>5, <2>2 DEF Connect
      <3>2. CASE c = d
        BY <3>1, <3>2 DEF Attended
      <3>3. CASE c # d
        <4>1. PICK u \in Threads : Closer(u)
          BY <1>5, <3>1, <3>3 DEF NoOrphanConnection, Attended, Running, TypeOK
        <4>2. u # t /\ u # d
          BY <1>5, <3>1, <4>1 DEF Unused, Closing
        <4> QED
          BY <3>1, <4>1, <4>2 DEF Attended, TypeOK
      <3> QED
        BY <3>2, <3>3
    <2> QED
      BY <1>5, <2>1, <2>2 DEF Connect
  <1>6. ASSUME NEW t \in Drivers, At(t, "start") \/ At(t, "maintain"), Pass(t)
        PROVE  Attended(c)'
    BY <1>2, <1>6 DEF Pass, TypeOK, Closing
  <1>7. ASSUME NEW t \in Drivers, Start(t) PROVE Attended(c)'
    BY <1>5, <1>6, <1>7 DEF Start
  <1>8. CASE Maintain
    <2>1. CASE ~Running /\ Connect(Maint)
      BY <1>5, <1>8, <2>1 DEF Maintain, Drivers
    <2>2. CASE Pass(Maint)
      BY <1>6, <1>8, <2>2 DEF Maintain, Drivers
    <2>3. CASE Goto(Maint, "pick") /\ UNCHANGED <<link, sock, target>>
      BY <1>2, <1>8, <2>3 DEF Maintain, TypeOK, Closing, Drivers
    <2> QED
      BY <1>8, <2>1, <2>2, <2>3 DEF Maintain
  <1>9. ASSUME NEW t \in Drivers, Stop(t) PROVE Attended(c)'
    <2>1. CASE sock = c
      BY <1>9, <2>1 DEF Stop, Running, Attended, Closing, TypeOK
    <2>2. CASE sock # c
      <3>1. PICK u \in Threads : Closer(u)
        BY <1>9, <2>2 DEF NoOrphanConnection, Attended, Stop
      <3>2. u # t
        BY <1>9, <3>1 DEF Stop, Closing
      <3> QED
        BY <1>9, <3>1, <3>2 DEF Stop, Attended, TypeOK
    <2> QED
      BY <2>1, <2>2
  <1>10. ASSUME NEW t \in Threads, Pick(t) PROVE Attended(c)'
    BY <1>2, <1>10 DEF Pick, Return, TypeOK, Closing
  <1>11. ASSUME NEW t \in Threads, SendSucceeds(t) PROVE Attended(c)'
    BY <1>2, <1>11 DEF SendSucceeds, Return, TypeOK, Closing, Sending
  <1>12. ASSUME NEW t \in Threads, SendFails(t) PROVE Attended(c)'
    BY <1>2, <1>12 DEF SendFails, TypeOK, Closing, Sending
  <1>13. ASSUME NEW t \in Threads, Drop(t) PROVE Attended(c)'
    <2>1. CASE OwnsSocket(t) /\ sock = c
      BY <1>13, <2>1 DEF Drop, OwnsSocket, Attended, Closing, TypeOK, Return
    <2>2. CASE ~(OwnsSocket(t) /\ sock = c)
      <3>1. CASE sock' = c
        BY <3>1 DEF Attended
      <3>2. CASE sock' # c
        <4>1. PICK u \in Threads : Closer(u)
          BY <1>13, <2>2, <3>2 DEF NoOrphanConnection, Attended, Drop
        <4>2. u # t
          BY <1>13, <4>1 DEF Drop, Closing
        <4> QED
          BY <1>13, <4>1, <4>2 DEF Drop, Return, Attended, TypeOK
      <3> QED
        BY <3>1, <3>2
    <2> QED
      BY <2>1, <2>2
  <1>14. ASSUME NEW t \in Threads, Close(t) PROVE Attended(c)'
    <2>1. target[t] # c /\ link[c] # "closed"
      BY <1>14 DEF Close, TypeOK, Closing
    <2>2. CASE sock = c
      BY <1>14, <2>2 DEF Close, Attended
    <2>3. CASE sock # c
      <3>1. PICK u \in Threads : Closer(u)
        BY <2>1, <2>3 DEF NoOrphanConnection, Attended
      <3> QED
        BY <1>14, <2>1, <3>1 DEF Close, Return, Attended, TypeOK
    <2> QED
      BY <2>2, <2>3
  <1>15. ASSUME NEW d \in Conns, Reader(d) PROVE Attended(c)'
    BY <1>1, <1>2, <1>15
       DEF Reader, Event, PhoneEvent, EndOfFile, GiveUp, TypeOK, Closing
  <1>16. CASE Environment
    BY <1>1, <1>16
       DEF Environment, DaemonStarts, DaemonDies, BackoffElapses, RefreshElapses, TypeOK
  <1>17. CASE UNCHANGED vars
    BY <1>1, <1>17 DEF vars
  <1> QED
    BY <1>3, <1>4, <1>7, <1>8, <1>9, <1>10, <1>11, <1>12, <1>13, <1>14, <1>15,
       <1>16, <1>17 DEF Next, Bridge, Transport

(* A thread starts dropping a working connection only as its reader.       *)
LEMMA FailureStep == TypeOK /\ FailuresAreReal /\ [Next]_vars => FailuresAreReal'
  <1> SUFFICES ASSUME TypeOK, FailuresAreReal, [Next]_vars,
                      NEW u \in Threads, pc'[u] = "drop", link'[target'[u]] = "up"
               PROVE  u = target'[u]
    BY DEF FailuresAreReal, At
  <1> USE NoneIsNobody, DriversAreThreads
  <1> USE DEF At, Goto, timing, locks
  <1>1. ASSUME pc[u] = "drop", target'[u] = target[u], link[target[u]] = "up"
        PROVE  u = target'[u]
    BY <1>1 DEF FailuresAreReal
  <1>2. ASSUME NEW t \in Drivers, Enable(t) \/ Disable(t) PROVE u = target'[u]
    BY <1>1, <1>2 DEF Enable, Disable, TypeOK
  <1>3. CASE Refresh \/ Tick
    BY <1>1, <1>3 DEF Refresh, Tick, TypeOK
  <1>4. ASSUME NEW t \in Drivers, Connect(t) PROVE u = target'[u]
    <2>1. CASE link' = link /\ Goto(t, "idle") /\ UNCHANGED target
      BY <1>1, <2>1 DEF TypeOK
    <2>2. CASE daemon = "up"
      <3>1. PICK d \in Conns :
               /\ Unused(d)
               /\ link' = [link EXCEPT ![d] = "up"]
               /\ pc' = [pc EXCEPT ![t] = "subscribe", ![d] = "reading"]
               /\ target' = [target EXCEPT ![t] = d]
        BY <1>4, <2>2 DEF Connect
      <3>2. u # t /\ u # d
        BY <3>1 DEF TypeOK
      <3>3. pc[u] = "drop" /\ target'[u] = target[u] /\ target[u] # d
        BY <3>1, <3>2 DEF TypeOK, Unused
      <3>4. link[target[u]] = "up"
        BY <3>1, <3>3 DEF TypeOK
      <3> QED
        BY <1>1, <3>3, <3>4
    <2> QED
      BY <1>4, <2>1, <2>2 DEF Connect
  <1>5. ASSUME NEW t \in Drivers, Start(t) PROVE u = target'[u]
    BY <1>1, <1>4, <1>5 DEF Start, Pass, TypeOK
  <1>6. CASE Maintain
    BY <1>1, <1>4, <1>6 DEF Maintain, Pass, TypeOK, Drivers
  <1>7. ASSUME NEW t \in Drivers, Stop(t) PROVE u = target'[u]
    BY <1>1, <1>7 DEF Stop, TypeOK
  <1>8. ASSUME NEW t \in Threads, Pick(t) PROVE u = target'[u]
    BY <1>1, <1>8 DEF Pick, Return, AfterSend, TypeOK
  <1>9. ASSUME NEW t \in Threads, SendSucceeds(t) PROVE u = target'[u]
    BY <1>1, <1>9 DEF SendSucceeds, Return, AfterSend, TypeOK
  <1>10. ASSUME NEW t \in Threads, SendFails(t) PROVE u = target'[u]
    BY <1>1, <1>10 DEF SendFails, TypeOK
  <1>11. ASSUME NEW t \in Threads, Drop(t) PROVE u = target'[u]
    BY <1>1, <1>11 DEF Drop, Return, AfterDrop, TypeOK
  <1>12. ASSUME NEW t \in Threads, Close(t) PROVE u = target'[u]
    <2>1. u # t
      BY <1>12 DEF Close, Return, AfterDrop, TypeOK
    <2>2. pc[u] = "drop" /\ target'[u] = target[u]
      BY <1>12, <2>1 DEF Close, Return, TypeOK
    <2>3. target[u] \in Conns
      BY <2>2 DEF TypeOK
    <2>4. link[target[u]] = "up"
      BY <1>12, <2>2, <2>3 DEF Close, TypeOK
    <2> QED
      BY <1>1, <2>2, <2>4
  <1>13. ASSUME NEW d \in Conns, Reader(d) PROVE u = target'[u]
    BY <1>1, <1>13 DEF Reader, Event, PhoneEvent, EndOfFile, GiveUp, TypeOK
  <1>14. CASE Environment
    <2>1. pc[u] = "drop" /\ target'[u] = target[u]
      BY <1>14 DEF Environment, DaemonStarts, DaemonDies, BackoffElapses, RefreshElapses
    <2>2. target[u] \in Conns
      BY <2>1 DEF TypeOK
    <2>3. link[target[u]] = "up"
      BY <1>14, <2>1, <2>2
         DEF Environment, DaemonStarts, DaemonDies, BackoffElapses, RefreshElapses
    <2> QED
      BY <1>1, <2>1, <2>3
  <1>15. CASE UNCHANGED vars
    BY <1>1, <1>15 DEF vars
  <1> QED
    BY <1>2, <1>3, <1>5, <1>6, <1>7, <1>8, <1>9, <1>10, <1>11, <1>12, <1>13,
       <1>14, <1>15 DEF Next, Bridge, Transport

(* The invariant holds in every reachable state.                           *)
LEMMA Invariance == Spec => []IInv
  <1>1. Init => IInv
    BY InitEstablishes
  <1>2. IInv /\ [Next]_vars => IInv'
    BY TypeStep, OrphanStep, FailureStep DEF IInv
  <1> QED
    BY <1>1, <1>2, PTL DEF Spec

(* A thread refers to a connection exactly while it sends on it, drops it  *)
(* or closes it, whatever the others do (tether.py:208-235).               *)
THEOREM TypeCorrect == Spec => []TypeOK
  <1>1. IInv => TypeOK
    BY DEF IInv
  <1>. QED BY <1>1, Invariance, PTL

(* No connection to tetherd is ever left open with nobody in charge of it, *)
(* for any number of connections that linger (tether.py:220-235, 360-371). *)
THEOREM ConnectionsAttended == Spec => []NoOrphanConnection
  BY Invariance, PTL DEF IInv

(* A failure of an old connection, however late it is noticed, never takes *)
(* down the connection that replaced it (tether.py:222-223).               *)
THEOREM LateFailures == Spec => LateFailureHarmless
  <1> DEFINE Harmless(c) ==
        (sock = c /\ sock' # c /\ link[c] = "up") =>
           \/ \E t \in Drivers : At(t, "stop") /\ pc'[t] = "closeQuiet"
           \/ At(c, "drop") /\ pc'[c] \in Closing
  <1>1. ASSUME IInv, [Next]_vars PROVE [\A c \in Conns : Harmless(c)]_vars
    <2> SUFFICES ASSUME NEW c \in Conns, sock = c, sock' # c, link[c] = "up"
                 PROVE  \/ \E t \in Drivers : At(t, "stop") /\ pc'[t] = "closeQuiet"
                        \/ At(c, "drop") /\ pc'[c] \in Closing
      OBVIOUS
    <2> USE NoneIsNobody, DriversAreThreads, <1>1 DEF IInv, At, Goto, timing
    <2>1. ASSUME NEW t \in Drivers, Stop(t)
          PROVE  At(t, "stop") /\ pc'[t] = "closeQuiet"
      BY <2>1 DEF Stop, Running, TypeOK
    <2>2. ASSUME NEW t \in Threads, Drop(t)
          PROVE  At(c, "drop") /\ pc'[c] \in Closing
      <3>1. At(t, "drop") /\ target[t] = c /\ pc'[t] \in Closing
        BY <2>2 DEF Drop, OwnsSocket, TypeOK, Closing
      <3> QED
        BY <3>1 DEF FailuresAreReal
    <2>3. (\E t \in Drivers : Stop(t)) \/ (\E t \in Threads : Drop(t))
      <3>1. Running
        BY DEF Running
      <3> QED
        BY <3>1 DEF Next, Bridge, Transport, Reader, Environment, vars, Enable, Disable,
           Start, Pass, Refresh, Tick, Maintain, Pick, SendSucceeds, SendFails, Close, Event,
           PhoneEvent, EndOfFile, GiveUp, DaemonStarts, DaemonDies, BackoffElapses,
           RefreshElapses
    <2> QED
      BY <2>1, <2>2, <2>3
  <1> QED
    BY <1>1, Invariance, PTL DEF Spec, LateFailureHarmless
=============================================================================
