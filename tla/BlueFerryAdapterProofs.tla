------------------------- MODULE BlueFerryAdapterProofs -------------------------
(***************************************************************************)
(* Proofs about BlueFerryAdapter, for any number of helper slots: its      *)
(* types, that no helper is left running unattended, that the holder of    *)
(* the lifecycle lock writes to no closed pipe and goes on to release it,  *)
(* and that a late failure takes down no helper that runs.                 *)
(*                                                                         *)
(* Apart from the release, they rest on two facts.  Only the holder of it  *)
(* replaces the attached helper; and a slot is not used again while a      *)
(* thread refers to it, as a process object is not.                        *)
(***************************************************************************)
EXTENDS BlueFerryAdapter, TLAPS

(* Whoever stops a helper has detached it, ...                             *)
StoppedDetached == \A t \in Threads : pc[t] \in {"kill", "reap"} => proc # at[t]

(* ... so the attached one has its pipe open.                              *)
AttachedOpen == proc # None => helper[proc] \in {"up", "dead"}

(* The holder of the lock writes to the attached helper.                   *)
LockedWritesAttached == \A t \in Threads : At(t, "write") /\ lifecycle = t => proc = at[t]

(* Whoever is about to detach a helper has found it dead.                  *)
FailuresAreReal == \A t \in Threads : At(t, "detach") => helper[at[t]] # "up"

Safe ==
    NoOrphanHelper /\ StoppedDetached /\ AttachedOpen /\ LockedWritesAttached /\ FailuresAreReal

LEMMA NobodyIsNone ==
    /\ None \notin Helpers /\ None \notin Threads
    /\ Main \in Threads /\ Maint \in Threads /\ Main \notin Helpers /\ Maint \notin Helpers
    /\ Helpers \subseteq Threads /\ Drivers \subseteq Threads /\ Drivers = {Main, Maint}
  BY ThreadsAssumption DEF Threads, Drivers

LEMMA Forgotten ==
    ASSUME NEW startup \in BOOLEAN, Forget(startup)
    PROVE  /\ flag' \in [Methods -> {"none", "waiting", "late"}]
           /\ pending' \in [Helpers -> [Methods -> Nat]]
           /\ dirty' \in BOOLEAN /\ gate' \in BOOLEAN
  BY DEF Forget, NothingPending

-----------------------------------------------------------------------------
(* Types                                                                   *)

Referring == {"load", "write", "detach", "kill", "reap", "initial"}

LEMMA Returned ==
    ASSUME TypeOK, NEW t \in Threads, Return(t)
    PROVE  /\ pc' \in [Threads -> Points] /\ at' \in [Threads -> Helpers \cup {None}]
           /\ why' \in [Threads -> Reasons \cup {"none"}]
           /\ lifecycle' \in Threads \cup {None}
           /\ pc'[t] \in {"reading", "idle"} /\ at'[t] = None
           /\ \A u \in Threads \ {t} : pc'[u] = pc[u] /\ at'[u] = at[u]
           /\ lifecycle' # lifecycle => lifecycle' = None
  BY DEF Return, Goto, Release, TypeOK, Points

(* A step of one thread                                                    *)
LEMMA ThreadTyped ==
    ASSUME TypeOK, NEW t \in Threads,
           helper' \in [Helpers -> {"up", "dead", "closing", "closed"}],
           proc' \in Helpers \cup {None}, active' \in BOOLEAN,
           dirty' \in BOOLEAN, gate' \in BOOLEAN,
           flag' \in [Methods -> {"none", "waiting", "late"}],
           pending' \in [Helpers -> [Methods -> Nat]],
           lifecycle' \in Threads \cup {None},
           pc' \in [Threads -> Points], at' \in [Threads -> Helpers \cup {None}],
           why' \in [Threads -> Reasons \cup {"none"}], events' \in 0..MaxEvents,
           \A u \in Threads \ {t} : pc'[u] \in Referring => pc[u] \in Referring /\ at'[u] = at[u],
           pc'[t] \in Referring => at'[t] # None
    PROVE  TypeOK'
  BY DEF TypeOK, Referring

LEMMA StartingTyped ==
    ASSUME TypeOK, NEW t \in Threads, Starting(t), UNCHANGED events PROVE TypeOK'
  <1> USE NobodyIsNone DEF TypeOK
  <1>1. ASSUME NEW h \in Helpers, Spawn(t, h) PROVE TypeOK'
    <2>1. /\ pc' \in [Threads -> Points] /\ why' \in [Threads -> Reasons \cup {"none"}]
          /\ helper' \in [Helpers -> {"up", "dead", "closing", "closed"}]
          /\ \A u \in Threads : pc'[u] \in Referring => pc[u] \in Referring
      BY <1>1 DEF Spawn, Points, Reasons, Referring
    <2>2. Forget(TRUE)
      BY <1>1 DEF Spawn
    <2>. QED BY <1>1, <2>1, <2>2, Forgotten DEF Spawn, Referring
  <1>2. CASE SpawnFails(t)
    <2>1. Forget(FALSE) /\ Return(t)
      BY <1>2 DEF SpawnFails
    <2>. QED BY <1>2, <2>1, Forgotten, Returned, ThreadTyped DEF SpawnFails, Referring
  <1>3. CASE Pass(t)
    <2>1. Return(t)
      BY <1>3 DEF Pass
    <2>. QED BY <1>3, <2>1, Returned, ThreadTyped DEF Pass, flags, Referring
  <1>. QED BY <1>1, <1>2, <1>3 DEF Starting

LEMMA RequestingTyped ==
    ASSUME TypeOK, NEW t \in Threads, Requesting(t), UNCHANGED events PROVE TypeOK'
  <1> USE NobodyIsNone DEF flags
  <1>0. TypeOK
    OBVIOUS
  <1>1. CASE EnterRefresh(t)
    <2>1. Alive(proc) => proc # None
      BY DEF Alive
    <2>2. CASE Goto(t, "start") /\ UNCHANGED at
      BY <1>1, <2>2 DEF EnterRefresh, Goto, TypeOK, Points
    <2>3. CASE Alive(proc) /\ Goto(t, "load") /\ at' = [at EXCEPT ![t] = proc]
      BY <1>1, <2>1, <2>3 DEF EnterRefresh, Goto, TypeOK, Points
    <2>. QED BY <1>1, <2>2, <2>3 DEF EnterRefresh
  <1>2. CASE Loaded(t)
    <2>1. CASE Return(t)
      BY <1>2, <2>1, Returned, ThreadTyped DEF Loaded, TypeOK, Referring
    <2>2. CASE Goto(t, "threads") /\ UNCHANGED <<lifecycle, at, why>>
      BY <1>2, <2>2 DEF Loaded, Goto, TypeOK, Points
    <2>. QED BY <1>2, <2>1, <2>2 DEF Loaded
  <1>3. CASE RequestThreads(t)
    <2>1. CASE Return(t)
      <3>1. dirty' \in BOOLEAN /\ flag' \in [Methods -> {"none", "waiting", "late"}]
        <4>1. \/ flag' = [flag EXCEPT !["threads"] = "waiting"] /\ dirty' = dirty
              \/ flag' = flag /\ (dirty' = dirty \/ dirty' = TRUE)
          BY <1>3 DEF RequestThreads
        <4>. QED BY <4>1 DEF TypeOK
      <3>. QED BY <1>3, <2>1, <3>1, Returned, ThreadTyped DEF RequestThreads, TypeOK, Referring
    <2>2. CASE /\ flag' = [flag EXCEPT !["threads"] = "waiting"]
               /\ why' = [why EXCEPT ![t] = "refresh"]
               /\ Goto(t, "ask")
               /\ UNCHANGED <<dirty, lifecycle, at>>
      BY <1>3, <2>2 DEF RequestThreads, Goto, TypeOK, Points, Reasons, Methods
    <2>. QED BY <1>3, <2>1, <2>2 DEF RequestThreads
  <1>4. CASE RequestStatus(t)
    <2>1. CASE Return(t) /\ UNCHANGED flag
      BY <1>4, <2>1, Returned, ThreadTyped DEF RequestStatus, TypeOK, Referring
    <2>2. CASE /\ flag' = [flag EXCEPT !["status"] = "waiting"]
               /\ Goto(t, "ask")
               /\ UNCHANGED <<lifecycle, at, why>>
      BY <1>4, <2>2 DEF RequestStatus, Goto, TypeOK, Points, Methods
    <2>. QED BY <1>4, <2>1, <2>2 DEF RequestStatus
  <1>5. CASE Ask(t)
    <2>1. Alive(proc) => proc # None
      BY DEF Alive
    <2>. QED BY <1>5, <2>1 DEF Ask, Goto, TypeOK, Points
  <1>6. CASE Write(t)
    <2>1. pending' \in [Helpers -> [Methods -> Nat]]
      <3>1. at[t] \in Helpers /\ Method(why[t]) \in Methods
        BY <1>6 DEF Write, At, TypeOK, Method, Methods
      <3>. QED BY <1>6, <3>1 DEF Write, TypeOK
    <2>2. CASE Return(t)
      BY <1>6, <2>1, <2>2, Returned, ThreadTyped DEF Write, TypeOK, Referring
    <2>3. CASE Goto(t, "open") /\ UNCHANGED <<lifecycle, at, why>>
      BY <1>6, <2>1, <2>3 DEF Write, Goto, TypeOK, Points
    <2>. QED BY <1>6, <2>2, <2>3 DEF Write
  <1>7. CASE WriteFails(t)
    BY <1>7 DEF WriteFails, At, Goto, TypeOK, Points
  <1>8. CASE WriteRaises(t)
    BY <1>8 DEF WriteRaises, Goto, Release, TypeOK, Points
  <1>9. CASE Detach(t)
    <2>1. CASE SameHelper(t) /\ Forget(FALSE)
      <3>1. /\ helper' = [helper EXCEPT ![at[t]] = "closed"] \/ UNCHANGED helper
            /\ proc' \in Helpers \cup {None}
        BY <1>9 DEF Detach, TypeOK
      <3>. QED BY <1>9, <2>1, <3>1, Forgotten DEF Detach, Goto, TypeOK, Points
    <2>2. CASE UNCHANGED <<helper, proc, flags>>
      BY <1>9, <2>2 DEF Detach, Goto, TypeOK, Points
    <2>. QED BY <1>9, <2>1, <2>2 DEF Detach
  <1>10. CASE RequestFailed(t)
    <2>1. Return(t) /\ gate' \in BOOLEAN
          /\ flag' \in [Methods -> {"none", "waiting", "late"}]
      BY <1>10 DEF RequestFailed, TypeOK
    <2>. QED BY <1>10, <2>1, Returned, ThreadTyped DEF RequestFailed, TypeOK, Referring
  <1>. QED BY <1>1, <1>2, <1>3, <1>4, <1>5, <1>6, <1>7, <1>8, <1>9, <1>10 DEF Requesting

LEMMA DriversTyped ==
    ASSUME TypeOK, NEW t \in Drivers, Stop(t) \/ Kill(t) \/ Reap(t), UNCHANGED events PROVE TypeOK'
  <1> USE NobodyIsNone DEF flags, At
  <1>0. TypeOK /\ t \in Threads
    OBVIOUS
  <1>1. CASE Stop(t)
    BY <1>0, <1>1 DEF Stop, Attached, Goto, TypeOK, Points
  <1>2. CASE Kill(t)
    BY <1>0, <1>2 DEF Kill, Goto, TypeOK, Points
  <1>3. CASE Reap(t)
    <2>1. helper' \in [Helpers -> {"up", "dead", "closing", "closed"}]
      BY <1>0, <1>3 DEF Reap, TypeOK
    <2>2. CASE Return(t)
      BY <1>0, <1>3, <2>1, <2>2, Returned, ThreadTyped DEF Reap, TypeOK, Referring
    <2>3. CASE /\ Goto(t, "start")
               /\ at' = [at EXCEPT ![t] = None]
               /\ UNCHANGED <<lifecycle, why>>
      BY <1>0, <1>3, <2>1, <2>3 DEF Reap, Goto, TypeOK, Points
    <2>. QED BY <1>3, <2>2, <2>3 DEF Reap
  <1>. QED BY <1>1, <1>2, <1>3

LEMMA MaintainTyped ==
    ASSUME TypeOK, Tick \/ Maintain, UNCHANGED events PROVE TypeOK'
  <1> USE NobodyIsNone DEF flags, At
  <1>0. TypeOK
    OBVIOUS
  <1>1. CASE Tick
    BY <1>1 DEF Tick, Goto, TypeOK, Points
  <1>2. CASE Maintain
    <2>1. CASE ~Alive(proc)
      BY <1>2, <2>1 DEF Maintain, Goto, TypeOK, Points
    <2>2. CASE Alive(proc) /\ TimedOut
      <3>1. Forget(FALSE) /\ proc # None
        BY <1>2, <2>2 DEF Maintain, Alive
      <3>2. /\ proc' = None /\ at' = [at EXCEPT ![Maint] = proc] /\ Goto(Maint, "kill")
            /\ lifecycle' = Maint /\ UNCHANGED <<why, helper, active>>
        BY <1>2, <2>2 DEF Maintain
      <3>3. /\ pc' \in [Threads -> Points] /\ at' \in [Threads -> Helpers \cup {None}]
            /\ at'[Maint] # None /\ \A u \in Threads \ {Maint} : pc'[u] = pc[u] /\ at'[u] = at[u]
        BY <3>1, <3>2 DEF Goto, TypeOK, Points
      <3>. QED BY <3>1, <3>2, <3>3, Forgotten, ThreadTyped DEF TypeOK
    <2>3. CASE Alive(proc) /\ ~TimedOut /\ flag["status"] = "late"
      <3>1. /\ flag' \in [Methods -> {"none", "waiting", "late"}]
            /\ pending' \in [Helpers -> [Methods -> Nat]]
        <4>1. /\ flag' = [flag EXCEPT !["status"] = "none"]
              /\ pending' = [h \in Helpers |-> [pending[h] EXCEPT !["status"] = 0]]
          BY <1>2, <2>3 DEF Maintain
        <4>. QED BY <4>1 DEF TypeOK
      <3>2. /\ why' = [why EXCEPT ![Maint] = "retry"] /\ Goto(Maint, "status")
            /\ lifecycle' = Maint /\ UNCHANGED <<proc, dirty, gate, at, helper, active>>
        BY <1>2, <2>3 DEF Maintain
      <3>. QED BY <3>1, <3>2 DEF Goto, TypeOK, Points, Reasons
    <2>4. CASE Alive(proc) /\ ~TimedOut /\ flag["status"] # "late"
      BY <1>2, <2>4, Returned, ThreadTyped DEF Maintain, TypeOK, Referring
    <2>. QED BY <2>1, <2>2, <2>3, <2>4
  <1>. QED BY <1>1, <1>2

LEMMA ReaderTyped ==
    ASSUME TypeOK, NEW h \in Helpers, UNCHANGED events,
           \/ Continue(h) \/ OpenGate(h) \/ EndOfFile(h) \/ Ending(h)
           \/ ThreadsReply(h) \/ StatusReply(h)
    PROVE  TypeOK'
  <1> USE NobodyIsNone DEF flags, At
  <1>0. TypeOK /\ h \in Threads
    OBVIOUS
  <1>1. CASE Continue(h)
    <2>1. CASE Return(h) /\ UNCHANGED flag
      BY <1>0, <1>1, <2>1, Returned, ThreadTyped DEF Continue, TypeOK, Referring
    <2>2. CASE /\ flag' = [flag EXCEPT !["threads"] = "waiting"]
               /\ why' = [why EXCEPT ![h] = "initial"]
               /\ Goto(h, "ask")
               /\ lifecycle' = h
               /\ UNCHANGED at
      BY <1>0, <1>1, <2>2 DEF Continue, Goto, TypeOK, Points, Reasons, Methods
    <2>. QED BY <1>1, <2>1, <2>2 DEF Continue
  <1>2. CASE OpenGate(h)
    <2>1. Return(h)
      BY <1>2 DEF OpenGate
    <2>. QED BY <1>0, <1>2, <2>1, Returned, ThreadTyped DEF OpenGate, TypeOK, Referring
  <1>3. CASE EndOfFile(h)
    BY <1>0, <1>3 DEF EndOfFile, Goto, TypeOK, Points
  <1>4. CASE Ending(h)
    <2>1. CASE proc = h
      <3>1. Forget(FALSE) /\ proc' = None /\ helper' = Terminated(h)
        BY <1>4, <2>1 DEF Ending
      <3>2. helper' \in [Helpers -> {"up", "dead", "closing", "closed"}]
        BY <1>0, <3>1 DEF TypeOK, Terminated
      <3>. QED BY <1>0, <1>4, <3>1, <3>2, Forgotten DEF Ending, Goto, TypeOK, Points
    <2>2. CASE proc # h
      BY <1>0, <1>4, <2>2 DEF Ending, Goto, TypeOK, Points
    <2>. QED BY <2>1, <2>2
  <1>5. CASE ThreadsReply(h)
    <2>1. pending' \in [Helpers -> [Methods -> Nat]]
      BY <1>0, <1>5 DEF ThreadsReply, TypeOK, Methods
    <2>2. pc' \in [Threads -> Points] /\ pc'[h] \notin Referring
      BY <1>0, <1>5 DEF ThreadsReply, Goto, TypeOK, Points, Referring
    <2>. QED BY <1>0, <1>5, <2>1, <2>2, ThreadTyped DEF ThreadsReply, Goto, TypeOK
  <1>6. CASE StatusReply(h)
    <2>1. pending' \in [Helpers -> [Methods -> Nat]]
      BY <1>0, <1>6 DEF StatusReply, TypeOK, Methods
    <2>2. flag' \in [Methods -> {"none", "waiting", "late"}]
      BY <1>0, <1>6 DEF StatusReply, TypeOK
    <2>3. CASE proc # None /\ at' = [at EXCEPT ![h] = proc] /\ Goto(h, "initial")
      BY <1>0, <1>6, <2>1, <2>2, <2>3 DEF StatusReply, Goto, TypeOK, Points
    <2>4. CASE UNCHANGED <<pc, at>>
      BY <1>0, <1>6, <2>1, <2>2, <2>4 DEF StatusReply, TypeOK
    <2>. QED BY <1>6, <2>3, <2>4 DEF StatusReply
  <1>. QED BY <1>1, <1>2, <1>3, <1>4, <1>5, <1>6

LEMMA EventTyped ==
    ASSUME TypeOK, events < MaxEvents, events' = events + 1, Event PROVE TypeOK'
  <1> USE NobodyIsNone DEF flags, thread, At
  <1>0. TypeOK /\ events' \in 0..MaxEvents
    BY ThreadsAssumption DEF TypeOK
  <1>1. ASSUME NEW t \in Drivers, Enable(t) \/ Disable(t) PROVE TypeOK'
    <2>1. /\ t \in Threads /\ active' \in BOOLEAN
          /\ Goto(t, "start") \/ Goto(t, "stop")
          /\ UNCHANGED <<helper, proc, flags, lifecycle, at, why>>
      BY <1>1 DEF Enable, Disable
    <2>. QED BY <1>0, <2>1 DEF Goto, TypeOK, Points
  <1>2. CASE Refresh
    BY <1>0, <1>2 DEF Refresh, Goto, TypeOK, Points
  <1>3. ASSUME NEW h \in Helpers, Oversized(h) PROVE TypeOK'
    <2>1. /\ pending' \in [Helpers -> [Methods -> Nat]]
          /\ flag' \in [Methods -> {"none", "waiting", "late"}]
      BY <1>0, <1>3 DEF Oversized, TypeOK
    <2>. QED BY <1>0, <1>3, <2>1 DEF Oversized, TypeOK
  <1>4. ASSUME NEW h \in Helpers, HistoryChanged(h) \/ StatusChanged(h) \/ GiveUp(h)
        PROVE  TypeOK'
    BY <1>0, <1>4 DEF HistoryChanged, StatusChanged, GiveUp, Goto, TypeOK, Points, Reasons
  <1>5. ASSUME NEW h \in Helpers, HelperDies(h) PROVE TypeOK'
    BY <1>0, <1>5 DEF HelperDies, TypeOK
  <1>. QED BY <1>1, <1>2, <1>3, <1>4, <1>5 DEF Event

LEMMA TypeStep == TypeOK /\ [Next]_vars => TypeOK'
  <1> SUFFICES ASSUME TypeOK, [Next]_vars PROVE TypeOK'
    OBVIOUS
  <1>1. ASSUME NEW t \in Threads, Work(t) PROVE TypeOK'
    BY <1>1, StartingTyped, RequestingTyped, DriversTyped, MaintainTyped, ReaderTyped DEF Work
  <1>2. ASSUME NEW h \in Helpers, Answer(h) PROVE TypeOK'
    BY <1>2, ReaderTyped DEF Answer
  <1>3. ASSUME NEW m \in Methods, Clock(m) PROVE TypeOK'
    BY <1>3 DEF Clock, TimePasses, thread, TypeOK
  <1>4. CASE UNCHANGED vars
    BY <1>4 DEF vars, flags, thread, TypeOK
  <1>. QED BY <1>1, <1>2, <1>3, <1>4, EventTyped DEF Next

-----------------------------------------------------------------------------
(* Safety                                                                  *)

(* A step that attaches, detaches and stops no helper, and comes neither   *)
(* to a pipe nor to a detachment, changes nothing of it.                   *)
LEMMA Bystander ==
    ASSUME TypeOK, Safe, NEW t \in Threads, UNCHANGED <<helper, proc>>,
           \A u \in Threads \ {t} : pc'[u] = pc[u] /\ at'[u] = at[u],
           pc[t] \notin {"kill", "reap"},
           pc'[t] \notin {"kill", "reap", "write", "detach"},
           lifecycle' = lifecycle \/ lifecycle' \in {None, t}
    PROVE  Safe'
  <1> USE NobodyIsNone
  <1>1. NoOrphanHelper'
    BY DEF Safe, NoOrphanHelper, Alive
  <1>2. StoppedDetached' /\ AttachedOpen' /\ FailuresAreReal'
    BY DEF Safe, StoppedDetached, AttachedOpen, FailuresAreReal, At
  <1>3. LockedWritesAttached'
    BY DEF Safe, LockedWritesAttached, At
  <1>. QED BY <1>1, <1>2, <1>3 DEF Safe

LEMMA GoneTo ==
    ASSUME TypeOK, NEW t \in Threads, NEW l, Goto(t, l)
    PROVE  pc'[t] = l /\ \A u \in Threads \ {t} : pc'[u] = pc[u]
  BY DEF Goto, TypeOK

(* A new helper                                                            *)
LEMMA SpawnSafe ==
    ASSUME TypeOK, Safe, NEW t \in Threads, NEW h \in Helpers, Spawn(t, h)
    PROVE  Safe'
  <1> USE NobodyIsNone
  <1>1. /\ helper' = [helper EXCEPT ![h] = "up"] /\ proc' = h /\ at' = at /\ lifecycle' = t
        /\ ~Alive(proc) /\ pc[t] = "start" /\ \A u \in Threads : at[u] # h
      BY DEF Spawn, Free, Unused, At
  <1>2. /\ \A u \in Threads : pc'[u] \in {"kill", "reap", "write", "detach"} => pc'[u] = pc[u]
        /\ \A u \in Threads : pc[u] \in {"kill", "reap"} => pc'[u] = pc[u]
        /\ pc'[t] \in {"status", "reading"}
    <2>1. h \in Threads /\ pc[h] = "none" /\ pc' = [pc EXCEPT ![t] = "status", ![h] = "reading"]
      BY DEF Spawn, Free, Unused, At
    <2>. QED BY <1>1, <2>1 DEF TypeOK
  <1>3. helper'[h] = "up" /\ \A g \in Helpers \ {h} : helper'[g] = helper[g]
    BY <1>1 DEF TypeOK
  <1>4. NoOrphanHelper'
    BY <1>1, <1>2, <1>3 DEF Safe, NoOrphanHelper, Alive
  <1>5. StoppedDetached' /\ AttachedOpen'
    BY <1>1, <1>2, <1>3 DEF Safe, StoppedDetached, AttachedOpen
  <1>6. FailuresAreReal'
    BY <1>1, <1>2, <1>3 DEF Safe, FailuresAreReal, At, TypeOK
  <1>7. LockedWritesAttached'
    BY <1>1, <1>2 DEF LockedWritesAttached, At
  <1>. QED BY <1>4, <1>5, <1>6, <1>7 DEF Safe

(* A driver has detached the helper to stop it.                            *)
LEMMA DetachedToStop ==
    ASSUME TypeOK, Safe, NEW t \in Drivers, lifecycle = None, proc \in Helpers,
           proc' = None, at' = [at EXCEPT ![t] = proc], Goto(t, "kill"),
           pc[t] \notin {"kill", "reap"}, helper' = helper, lifecycle' \in {None, t}
    PROVE  Safe'
  <1> USE NobodyIsNone
  <1>1. /\ pc'[t] = "kill" /\ at'[t] = proc
        /\ \A u \in Threads \ {t} : pc'[u] = pc[u] /\ at'[u] = at[u]
    BY GoneTo DEF TypeOK
  <1>2. NoOrphanHelper'
    BY <1>1 DEF Safe, NoOrphanHelper, Alive
  <1>3. StoppedDetached'
    BY <1>1 DEF StoppedDetached, TypeOK
  <1>4. AttachedOpen' /\ FailuresAreReal' /\ LockedWritesAttached'
    BY <1>1 DEF Safe, AttachedOpen, FailuresAreReal, LockedWritesAttached, At
  <1>. QED BY <1>2, <1>3, <1>4 DEF Safe

LEMMA MaintainSafe == ASSUME TypeOK, Safe, Maintain PROVE Safe'
  <1> USE NobodyIsNone
  <1>0. lifecycle = None /\ pc[Maint] = "maintain" /\ helper' = helper
    BY DEF Maintain, At
  <1>1. CASE Alive(proc) /\ TimedOut
    <2>1. proc \in Helpers
      BY <1>1 DEF Alive, TypeOK
    <2>. QED BY <1>0, <1>1, <2>1, DetachedToStop DEF Maintain
  <1>2. CASE ~(Alive(proc) /\ TimedOut)
    <2>1. proc' = proc /\ \/ Goto(Maint, "start") /\ lifecycle' = Maint /\ at' = at
                          \/ Goto(Maint, "status") /\ lifecycle' = Maint /\ at' = at
                          \/ Return(Maint)
      BY <1>2 DEF Maintain, flags
    <2>. QED BY <1>0, <2>1, GoneTo, Returned, Bystander
  <1>. QED BY <1>1, <1>2

LEMMA DriversSafe ==
    ASSUME TypeOK, Safe, NEW t \in Drivers, Stop(t) \/ Kill(t) \/ Reap(t) PROVE Safe'
  <1> USE NobodyIsNone
  <1>1. CASE Stop(t)
    <2>0. pc[t] = "stop" /\ lifecycle = None /\ helper' = helper /\ lifecycle' = lifecycle
          /\ proc' = None /\ at' = [at EXCEPT ![t] = proc]
      BY <1>1 DEF Stop, At
    <2>1. CASE proc # None
      BY <1>1, <2>0, <2>1, DetachedToStop DEF Stop, Attached, TypeOK
    <2>2. CASE proc = None
      <3>1. Goto(t, "idle") /\ \A u \in Threads \ {t} : at'[u] = at[u]
        BY <1>1, <2>0, <2>2 DEF Stop, Attached, TypeOK
      <3>. QED BY <2>0, <2>2, <3>1, GoneTo, Bystander
    <2>. QED BY <2>1, <2>2
  <1>2. CASE Kill(t)
    <2>1. /\ pc[t] = "kill" /\ at[t] \in Helpers /\ proc # at[t]
          /\ proc' = proc /\ at' = at /\ lifecycle' = lifecycle
      BY <1>2 DEF Kill, At, Safe, StoppedDetached, TypeOK
    <2>2. pc'[t] = "reap" /\ \A u \in Threads \ {t} : pc'[u] = pc[u]
      BY <1>2, GoneTo DEF Kill
    <2>3. /\ helper'[at[t]] \in {"closing", "closed"}
          /\ \A g \in Helpers \ {at[t]} : helper'[g] = helper[g]
      BY <1>2, <2>1 DEF Kill, TypeOK
    <2>4. NoOrphanHelper'
      BY <2>1, <2>2, <2>3 DEF Safe, NoOrphanHelper, Alive
    <2>5. StoppedDetached' /\ AttachedOpen'
      BY <2>1, <2>2, <2>3 DEF Safe, StoppedDetached, AttachedOpen, TypeOK
    <2>6. FailuresAreReal' /\ LockedWritesAttached'
      BY <2>1, <2>2, <2>3 DEF Safe, FailuresAreReal, LockedWritesAttached, At, TypeOK
    <2>. QED BY <2>4, <2>5, <2>6 DEF Safe
  <1>3. CASE Reap(t)
    <2>1. /\ pc[t] = "reap" /\ at[t] \in Helpers /\ proc # at[t] /\ proc' = proc
      BY <1>3 DEF Reap, At, Safe, StoppedDetached, TypeOK
    <2>2. /\ pc'[t] \in {"start", "idle", "reading"}
          /\ \A u \in Threads \ {t} : pc'[u] = pc[u] /\ at'[u] = at[u]
          /\ lifecycle' = lifecycle \/ lifecycle' = None
      <3>1. CASE Goto(t, "start") /\ at' = [at EXCEPT ![t] = None] /\ lifecycle' = lifecycle
        BY <3>1, GoneTo DEF TypeOK
      <3>2. CASE Return(t)
        BY <3>2, Returned
      <3>. QED BY <1>3, <3>1, <3>2 DEF Reap
    <2>3. /\ helper'[at[t]] = "closed"
          /\ \A g \in Helpers \ {at[t]} : helper'[g] = helper[g]
      BY <1>3, <2>1 DEF Reap, TypeOK
    <2>4. NoOrphanHelper'
      BY <2>1, <2>2, <2>3 DEF Safe, NoOrphanHelper, Alive
    <2>5. StoppedDetached' /\ AttachedOpen'
      BY <2>1, <2>2, <2>3 DEF Safe, StoppedDetached, AttachedOpen, TypeOK
    <2>6. FailuresAreReal' /\ LockedWritesAttached'
      BY <2>1, <2>2, <2>3 DEF Safe, FailuresAreReal, LockedWritesAttached, At, TypeOK
    <2>. QED BY <2>4, <2>5, <2>6 DEF Safe
  <1>. QED BY <1>1, <1>2, <1>3

LEMMA StartingSafe == ASSUME TypeOK, Safe, NEW t \in Threads, Starting(t) PROVE Safe'
  <1>1. CASE SpawnFails(t) \/ Pass(t)
    <2>1. Return(t) /\ UNCHANGED <<helper, proc>> /\ pc[t] = "start"
      BY <1>1 DEF SpawnFails, Pass, At
    <2>. QED BY <2>1, Returned, Bystander
  <1>. QED BY <1>1, SpawnSafe DEF Starting

LEMMA RequestingSafe == ASSUME TypeOK, Safe, NEW t \in Threads, Requesting(t) PROVE Safe'
  <1> USE NobodyIsNone
  <1>1. CASE EnterRefresh(t) \/ Loaded(t) \/ RequestThreads(t) \/ RequestStatus(t)
    <2>1. pc[t] \in {"refresh", "load", "threads", "status"} /\ UNCHANGED <<helper, proc>>
      BY <1>1 DEF EnterRefresh, Loaded, RequestThreads, RequestStatus, At
    <2>2. CASE Return(t)
      BY <2>1, <2>2, Returned, Bystander
    <2>3. CASE /\ \E l \in {"start", "load", "threads", "ask"} : Goto(t, l)
               /\ lifecycle' = lifecycle
               /\ at' = at \/ at' = [at EXCEPT ![t] = proc]
      BY <2>1, <2>3, GoneTo, Bystander DEF TypeOK
    <2>. QED BY <1>1, <2>2, <2>3 DEF EnterRefresh, Loaded, RequestThreads, RequestStatus
  <1>2. CASE Ask(t)
    <2>0. pc[t] = "ask" /\ UNCHANGED <<helper, proc, lifecycle>>
      BY <1>2 DEF Ask, At
    <2>1. CASE Goto(t, "failed") /\ at' = at
      BY <2>0, <2>1, GoneTo, Bystander
    <2>2. CASE at' = [at EXCEPT ![t] = proc] /\ Goto(t, "write")
      <3>1. /\ pc'[t] = "write" /\ at'[t] = proc
            /\ \A u \in Threads \ {t} : pc'[u] = pc[u] /\ at'[u] = at[u]
        BY <2>2, GoneTo DEF TypeOK
      <3>2. NoOrphanHelper'
        BY <2>0, <3>1 DEF Safe, NoOrphanHelper, Alive
      <3>3. StoppedDetached' /\ AttachedOpen' /\ FailuresAreReal' /\ LockedWritesAttached'
        BY <2>0, <3>1
           DEF Safe, StoppedDetached, AttachedOpen, FailuresAreReal, LockedWritesAttached, At
      <3>. QED BY <3>2, <3>3 DEF Safe
    <2>. QED BY <1>2, <2>1, <2>2 DEF Ask
  <1>3. CASE Write(t)
    <2>1. /\ pc[t] = "write" /\ UNCHANGED <<helper, proc>>
          /\ \/ Return(t)
             \/ Goto(t, "open") /\ UNCHANGED <<lifecycle, at>>
      BY <1>3 DEF Write, At
    <2>2. CASE Return(t)
      BY <2>1, <2>2, Returned, Bystander
    <2>3. CASE Goto(t, "open") /\ UNCHANGED <<lifecycle, at>>
      BY <2>1, <2>3, GoneTo, Bystander
    <2>. QED BY <2>1, <2>2, <2>3
  <1>4. CASE WriteFails(t)
    <2>1. /\ pc[t] = "write" /\ helper[at[t]] = "dead" /\ pc'[t] = "detach"
          /\ \A u \in Threads \ {t} : pc'[u] = pc[u]
          /\ UNCHANGED <<helper, proc, lifecycle, at>>
      BY <1>4, GoneTo DEF WriteFails, At
    <2>2. NoOrphanHelper'
      BY <2>1 DEF Safe, NoOrphanHelper, Alive
    <2>3. StoppedDetached' /\ AttachedOpen' /\ FailuresAreReal' /\ LockedWritesAttached'
      BY <2>1
         DEF Safe, StoppedDetached, AttachedOpen, FailuresAreReal, LockedWritesAttached, At
    <2>. QED BY <2>2, <2>3 DEF Safe
  <1>5. CASE WriteRaises(t)
    <2>1. /\ pc[t] = "write" /\ pc'[t] \in {"ending", "idle"}
          /\ \A u \in Threads \ {t} : pc'[u] = pc[u] /\ at'[u] = at[u]
          /\ lifecycle' = lifecycle \/ lifecycle' = None
          /\ UNCHANGED <<helper, proc>>
      BY <1>5 DEF WriteRaises, Goto, Release, At, TypeOK
    <2>. QED BY <2>1, Bystander
  <1>6. CASE Detach(t)
    <2>0. /\ pc[t] = "detach" /\ pc'[t] = "failed" /\ at[t] \in Helpers
          /\ \A u \in Threads \ {t} : pc'[u] = pc[u]
          /\ UNCHANGED <<lifecycle, at>> /\ lifecycle \in {None, t}
      BY <1>6, GoneTo DEF Detach, At, TypeOK, Available
    <2>1. CASE UNCHANGED <<helper, proc>>
      BY <2>0, <2>1, Bystander
    <2>2. CASE SameHelper(t) /\ proc' = None /\ helper' = [helper EXCEPT ![at[t]] = "closed"]
      <3>1. /\ helper'[at[t]] = "closed" /\ proc = at[t]
            /\ \A g \in Helpers \ {at[t]} : helper'[g] = helper[g]
        BY <2>0, <2>2 DEF SameHelper, TypeOK
      <3>2. NoOrphanHelper'
        BY <2>0, <2>2, <3>1 DEF Safe, NoOrphanHelper, Alive
      <3>3. StoppedDetached' /\ AttachedOpen'
        BY <2>0, <2>2 DEF StoppedDetached, AttachedOpen, TypeOK
      <3>4. FailuresAreReal' /\ LockedWritesAttached'
        BY <2>0, <2>2, <3>1 DEF Safe, FailuresAreReal, LockedWritesAttached, At, TypeOK
      <3>. QED BY <3>2, <3>3, <3>4 DEF Safe
    <2>. QED BY <1>6, <2>1, <2>2 DEF Detach
  <1>7. CASE RequestFailed(t)
    <2>1. Return(t) /\ UNCHANGED <<helper, proc>> /\ pc[t] = "failed"
      BY <1>7 DEF RequestFailed, At
    <2>. QED BY <2>1, Returned, Bystander
  <1>. QED BY <1>1, <1>2, <1>3, <1>4, <1>5, <1>6, <1>7 DEF Requesting

LEMMA ReaderSafe ==
    ASSUME TypeOK, Safe, NEW h \in Helpers,
           \/ Continue(h) \/ OpenGate(h) \/ EndOfFile(h) \/ Ending(h)
           \/ ThreadsReply(h) \/ StatusReply(h)
    PROVE  Safe'
  <1> USE NobodyIsNone
  <1>1. CASE Continue(h) \/ OpenGate(h) \/ EndOfFile(h) \/ ThreadsReply(h) \/ StatusReply(h)
    <2>1. /\ pc[h] \in {"initial", "open", "reading"} /\ UNCHANGED <<helper, proc>>
          /\ \/ Return(h)
             \/ /\ \E l \in {"ask", "ending", "refresh", "reading", "initial"} : Goto(h, l)
                /\ lifecycle' = lifecycle \/ lifecycle' = h
                /\ at' = at \/ at' = [at EXCEPT ![h] = proc]
             \/ UNCHANGED <<pc, at, lifecycle>>
      BY <1>1 DEF Continue, OpenGate, EndOfFile, ThreadsReply, StatusReply, At
    <2>2. CASE Return(h)
      BY <2>1, <2>2, Returned, Bystander
    <2>3. CASE /\ \E l \in {"ask", "ending", "refresh", "reading", "initial"} : Goto(h, l)
               /\ lifecycle' = lifecycle \/ lifecycle' = h
               /\ at' = at \/ at' = [at EXCEPT ![h] = proc]
      BY <2>1, <2>3, GoneTo, Bystander DEF TypeOK
    <2>4. CASE UNCHANGED <<pc, at, lifecycle>>
      BY <2>1, <2>4, Bystander
    <2>. QED BY <2>1, <2>2, <2>3, <2>4
  <1>2. CASE Ending(h)
    <2>0. /\ pc[h] = "ending" /\ pc'[h] = "none" /\ \A u \in Threads \ {h} : pc'[u] = pc[u]
          /\ UNCHANGED <<lifecycle, at>> /\ lifecycle = None
      BY <1>2, GoneTo DEF Ending, At
    <2>1. CASE proc # h
      BY <1>2, <2>0, <2>1, Bystander DEF Ending
    <2>2. CASE proc = h
      <3>1. /\ proc' = None /\ helper'[h] = "dead"
            /\ \A g \in Helpers \ {h} : helper'[g] = helper[g]
        BY <1>2, <2>2 DEF Ending, Terminated, TypeOK
      <3>2. NoOrphanHelper'
        BY <2>0, <2>2, <3>1 DEF Safe, NoOrphanHelper, Alive
      <3>3. StoppedDetached' /\ AttachedOpen'
        BY <2>0, <3>1 DEF StoppedDetached, AttachedOpen, TypeOK
      <3>4. FailuresAreReal' /\ LockedWritesAttached'
        BY <2>0, <3>1 DEF Safe, FailuresAreReal, LockedWritesAttached, At, TypeOK
      <3>. QED BY <3>2, <3>3, <3>4 DEF Safe
    <2>. QED BY <2>1, <2>2
  <1>. QED BY <1>1, <1>2

LEMMA EventSafe == ASSUME TypeOK, Safe, Event PROVE Safe'
  <1> USE NobodyIsNone
  <1>1. ASSUME NEW t \in Drivers, Enable(t) \/ Disable(t) PROVE Safe'
    BY <1>1, GoneTo, Bystander DEF Enable, Disable, At
  <1>2. CASE Refresh
    BY <1>2, GoneTo, Bystander DEF Refresh, At
  <1>3. ASSUME NEW h \in Helpers, Oversized(h) PROVE Safe'
    BY <1>3, Bystander DEF Oversized, thread, At
  <1>4. ASSUME NEW h \in Helpers, HistoryChanged(h) \/ StatusChanged(h) \/ GiveUp(h)
        PROVE  Safe'
    BY <1>4, GoneTo, Bystander DEF HistoryChanged, StatusChanged, GiveUp, At
  <1>5. ASSUME NEW h \in Helpers, HelperDies(h) PROVE Safe'
    <2>1. /\ helper[h] = "up" /\ helper'[h] = "dead"
          /\ \A g \in Helpers \ {h} : helper'[g] = helper[g]
          /\ UNCHANGED <<proc, lifecycle, pc, at>>
      BY <1>5 DEF HelperDies, thread, TypeOK
    <2>2. NoOrphanHelper'
      BY <2>1 DEF Safe, NoOrphanHelper, Alive
    <2>3. StoppedDetached' /\ AttachedOpen' /\ FailuresAreReal' /\ LockedWritesAttached'
      BY <2>1 DEF Safe, StoppedDetached, AttachedOpen, FailuresAreReal,
                  LockedWritesAttached, At, TypeOK
    <2>. QED BY <2>2, <2>3 DEF Safe
  <1>. QED BY <1>1, <1>2, <1>3, <1>4, <1>5 DEF Event

LEMMA Invariance == Spec => [](TypeOK /\ Safe)
  <1>1. Init => TypeOK /\ Safe
    <2> SUFFICES ASSUME Init PROVE TypeOK /\ Safe
      OBVIOUS
    <2>1. TypeOK
      <3>1. /\ pending \in [Helpers -> [Methods -> Nat]]
            /\ flag \in [Methods -> {"none", "waiting", "late"}]
            /\ events \in 0..MaxEvents
        BY ThreadsAssumption DEF Init, NothingPending
      <3>2. /\ pc \in [Threads -> Points] /\ at \in [Threads -> Helpers \cup {None}]
            /\ \A t \in Threads : pc[t] \in {"none", "start", "idle"}
        BY DEF Init, Points
      <3>3. /\ helper \in [Helpers -> {"up", "dead", "closing", "closed"}]
            /\ why \in [Threads -> Reasons \cup {"none"}]
        BY DEF Init
      <3>. QED BY <3>1, <3>2, <3>3 DEF Init, TypeOK
    <2>2. \A t \in Threads : pc[t] \in {"none", "start", "idle"}
      BY DEF Init
    <2>. QED BY <2>1, <2>2 DEF Init, Safe, NoOrphanHelper, StoppedDetached, AttachedOpen,
                    LockedWritesAttached, FailuresAreReal, At, Alive
  <1>2. TypeOK /\ Safe /\ [Next]_vars => Safe'
    <2> SUFFICES ASSUME TypeOK, Safe, [Next]_vars PROVE Safe'
      OBVIOUS
    <2>1. ASSUME NEW t \in Threads, Work(t) PROVE Safe'
      <3>1. CASE t = Maint /\ Tick
        BY <3>1, NobodyIsNone, GoneTo, Bystander DEF Tick, At
      <3>. QED BY <2>1, <3>1, StartingSafe, RequestingSafe, DriversSafe, MaintainSafe,
                  ReaderSafe DEF Work
    <2>2. ASSUME NEW h \in Helpers, Answer(h) PROVE Safe'
      BY <2>2, ReaderSafe DEF Answer
    <2>3. CASE (\E m \in Methods : Clock(m)) \/ UNCHANGED vars
      <3>1. UNCHANGED <<helper, proc, lifecycle, pc, at>>
        BY <2>3 DEF Clock, TimePasses, vars, thread
      <3>. QED BY <3>1 DEF Safe, NoOrphanHelper, StoppedDetached, AttachedOpen,
                  LockedWritesAttached, FailuresAreReal, At, Alive
    <2>. QED BY <2>1, <2>2, <2>3, EventSafe DEF Next
  <1>. QED BY <1>1, <1>2, TypeStep, PTL DEF Spec

(* Every variable keeps its type, and whoever writes to a helper, detaches *)
(* it or stops it has one (blueferry.py:135-157, 386-440).                 *)
THEOREM TypeCorrect == Spec => []TypeOK
  BY Invariance, PTL

(* No helper process is left running unattended, however stop, the         *)
(* restarts of maintenance and failing writes interleave                   *)
(* (blueferry.py:135-157, 203-222, 338-357, 618-628).                      *)
THEOREM HelpersAttended == Spec => []NoOrphanHelper
  BY Invariance, PTL DEF Safe

(* The holder of the lifecycle lock writes to no pipe that somebody else   *)
(* has closed (blueferry.py:191-194).                                      *)
THEOREM LockedWrites == Spec => []LockedWritesSafe
  <1>1. TypeOK /\ Safe => LockedWritesSafe
    BY NobodyIsNone
       DEF Safe, LockedWritesAttached, AttachedOpen, LockedWritesSafe, At, TypeOK
  <1>. QED BY <1>1, Invariance, PTL

(* A late failure of an old helper never takes down its replacement        *)
(* (blueferry.py:203-208).                                                 *)
THEOREM LateFailures == Spec => LateFailureHarmless
  <1> DEFINE Harmless(h) ==
        (proc = h /\ proc' # h /\ helper[h] = "up") =>
           \/ \E t \in Drivers : At(t, "stop")
           \/ At(Maint, "maintain") /\ TimedOut
           \/ At(h, "ending")
  <1>1. TypeOK /\ Safe /\ [Next]_vars => [\A h \in Helpers : Harmless(h)]_vars
    <2> SUFFICES ASSUME TypeOK, Safe, [Next]_vars, NEW h \in Helpers,
                        proc = h, proc' # h, helper[h] = "up"
                 PROVE  \/ \E t \in Drivers : At(t, "stop")
                        \/ At(Maint, "maintain") /\ TimedOut
                        \/ At(h, "ending")
      OBVIOUS
    <2> USE NobodyIsNone
    <2>1. ASSUME NEW t \in Threads, Starting(t) PROVE FALSE
      BY <2>1 DEF Starting, Spawn, SpawnFails, Pass, Alive
    <2>2. ASSUME NEW t \in Threads, Requesting(t) PROVE FALSE
      <3>1. Detach(t)
        BY <2>2 DEF Requesting, EnterRefresh, Loaded, RequestThreads, RequestStatus, Ask,
                    Write, WriteFails, WriteRaises, RequestFailed
      <3>. QED BY <3>1 DEF Detach, SameHelper, Safe, FailuresAreReal, At
    <2>3. ASSUME NEW t \in Drivers, Stop(t) \/ Kill(t) \/ Reap(t) PROVE At(t, "stop")
      BY <2>3 DEF Stop, Kill, Reap
    <2>4. CASE Tick \/ Maintain
      BY <2>4 DEF Tick, Maintain, flags
    <2>5. ASSUME NEW g \in Helpers,
                 \/ Continue(g) \/ OpenGate(g) \/ EndOfFile(g) \/ Ending(g)
                 \/ ThreadsReply(g) \/ StatusReply(g)
          PROVE  At(h, "ending")
      BY <2>5 DEF Continue, OpenGate, EndOfFile, Ending, ThreadsReply, StatusReply
    <2>6. CASE Event \/ UNCHANGED vars \/ \E m \in Methods : Clock(m)
      BY <2>6 DEF Event, Enable, Disable, Refresh, Oversized, HistoryChanged, StatusChanged,
                  GiveUp, HelperDies, Clock, TimePasses, vars
    <2>. QED BY <2>1, <2>2, <2>3, <2>4, <2>5, <2>6 DEF Next, Work, Answer
  <1>. QED BY <1>1, Invariance, PTL DEF Spec, LateFailureHarmless

-----------------------------------------------------------------------------
(* The lifecycle lock                                                      *)

Holding ==
    {"start", "kill", "reap", "status", "ask", "write", "detach", "failed", "open"}

(* A step of thread t that leaves the lock alone, takes or releases it     *)
LEMMA OwnStep ==
    ASSUME TypeOK, OwnerGoesOn, NEW t \in Threads,
           \A u \in Threads \ {t} : pc'[u] = pc[u],
           lifecycle' \in {lifecycle, None, t},
           lifecycle' = t =>
               pc'[t] \in Holding /\ (pc'[t] \in {"kill", "reap"} => t = Maint)
    PROVE  OwnerGoesOn'
  BY NobodyIsNone DEF OwnerGoesOn, Holding

(* It leaves the adapter, and the lock with it.                            *)
LEMMA OwnReturn ==
    ASSUME TypeOK, OwnerGoesOn, NEW t \in Threads, Return(t)
    PROVE  OwnerGoesOn'
  <1>1. lifecycle' # t /\ lifecycle' \in {lifecycle, None}
    BY NobodyIsNone DEF Return, Release
  <1>2. \A u \in Threads \ {t} : pc'[u] = pc[u]
    BY Returned
  <1>. QED BY <1>1, <1>2, OwnStep

(* It goes on as a holder of the lock may, or without it.                  *)
LEMMA OwnGoes ==
    ASSUME TypeOK, OwnerGoesOn, NEW t \in Threads, NEW l, Goto(t, l),
           lifecycle' \in {lifecycle, t},
           lifecycle' = t => l \in Holding /\ (l \in {"kill", "reap"} => t = Maint)
    PROVE  OwnerGoesOn'
  BY GoneTo, OwnStep

LEMMA StartingOwns ==
    ASSUME TypeOK, OwnerGoesOn, NEW t \in Threads, Starting(t)
    PROVE  OwnerGoesOn'
  <1>1. ASSUME NEW h \in Helpers, Spawn(t, h) PROVE OwnerGoesOn'
    <2>1. /\ pc' = [pc EXCEPT ![t] = "status", ![h] = "reading"] /\ lifecycle' = t
          /\ pc[t] = "start" /\ pc[h] = "none"
      BY <1>1 DEF Spawn, Free, Unused, At
    <2>2. h # t /\ pc'[t] = "status"
      BY <2>1, NobodyIsNone DEF TypeOK
    <2>. QED BY <2>1, <2>2, NobodyIsNone DEF OwnerGoesOn
  <1>2. CASE SpawnFails(t) \/ Pass(t)
    BY <1>2, OwnReturn DEF SpawnFails, Pass
  <1>. QED BY <1>1, <1>2 DEF Starting

LEMMA RequestingOwns ==
    ASSUME TypeOK, OwnerGoesOn, NEW t \in Threads, Requesting(t)
    PROVE  OwnerGoesOn'
  <1>1. CASE EnterRefresh(t) \/ Loaded(t) \/ RequestThreads(t)
    <2>1. /\ pc[t] \in {"refresh", "load", "threads"}
          /\ \/ Return(t)
             \/ /\ \E l \in {"start", "load", "threads", "ask"} : Goto(t, l)
                /\ lifecycle' = lifecycle
      BY <1>1 DEF EnterRefresh, Loaded, RequestThreads, At
    <2>2. lifecycle # t
      BY <2>1 DEF OwnerGoesOn
    <2>. QED BY <2>1, <2>2, OwnReturn, OwnGoes
  <1>2. CASE RequestStatus(t) \/ Ask(t) \/ Write(t) \/ WriteFails(t) \/ Detach(t)
             \/ RequestFailed(t)
    <2>1. \/ Return(t)
          \/ /\ \E l \in {"ask", "write", "failed", "open", "detach"} : Goto(t, l)
             /\ lifecycle' = lifecycle
      BY <1>2 DEF RequestStatus, Ask, Write, WriteFails, Detach, RequestFailed
    <2>. QED BY <2>1, OwnReturn, OwnGoes DEF Holding
  <1>3. CASE WriteRaises(t)
    <2>1. /\ lifecycle' # t /\ lifecycle' \in {lifecycle, None}
          /\ \E l \in {"ending", "idle"} : Goto(t, l)
      BY <1>3, NobodyIsNone DEF WriteRaises, Release
    <2>2. \A u \in Threads \ {t} : pc'[u] = pc[u]
      BY <2>1, GoneTo
    <2>. QED BY <2>1, <2>2, OwnStep
  <1>. QED BY <1>1, <1>2, <1>3 DEF Requesting

LEMMA DriversOwn ==
    ASSUME TypeOK, OwnerGoesOn, NEW t \in Drivers, Stop(t) \/ Kill(t) \/ Reap(t)
    PROVE  OwnerGoesOn'
  <1>0. t \in Threads
    BY NobodyIsNone
  <1>1. CASE Stop(t)
    BY <1>0, <1>1, OwnGoes, NobodyIsNone DEF Stop
  <1>2. CASE Kill(t)
    <2>1. lifecycle = t => t = Maint
      BY <1>0, <1>2 DEF Kill, At, OwnerGoesOn
    <2>. QED BY <1>0, <1>2, <2>1, OwnGoes DEF Kill, Holding
  <1>3. CASE Reap(t)
    BY <1>0, <1>3, OwnGoes, OwnReturn DEF Reap, Holding
  <1>. QED BY <1>1, <1>2, <1>3

LEMMA MaintenanceOwns ==
    ASSUME TypeOK, OwnerGoesOn, Tick \/ Maintain
    PROVE  OwnerGoesOn'
  <1>0. Maint \in Threads
    BY NobodyIsNone
  <1>1. CASE Tick
    <2>1. lifecycle # Maint
      BY <1>0, <1>1 DEF Tick, At, OwnerGoesOn
    <2>. QED BY <1>0, <1>1, <2>1, OwnGoes DEF Tick
  <1>2. CASE Maintain
    <2>1. \/ Return(Maint)
          \/ (\E l \in {"start", "kill", "status"} : Goto(Maint, l)) /\ lifecycle' = Maint
      BY <1>2 DEF Maintain
    <2>. QED BY <1>0, <2>1, OwnGoes, OwnReturn DEF Holding
  <1>. QED BY <1>1, <1>2

LEMMA ReaderOwns ==
    ASSUME TypeOK, OwnerGoesOn, NEW h \in Helpers,
           \/ Continue(h) \/ OpenGate(h) \/ EndOfFile(h) \/ Ending(h)
           \/ ThreadsReply(h) \/ StatusReply(h)
           \/ HistoryChanged(h) \/ StatusChanged(h) \/ GiveUp(h)
    PROVE  OwnerGoesOn'
  <1>0. h \in Threads
    BY NobodyIsNone
  <1>1. CASE Continue(h) \/ OpenGate(h)
    <2>1. Return(h) \/ (Goto(h, "ask") /\ lifecycle' = h)
      BY <1>1 DEF Continue, OpenGate
    <2>. QED BY <1>0, <2>1, OwnGoes, OwnReturn DEF Holding
  <1>2. CASE EndOfFile(h) \/ Ending(h) \/ ThreadsReply(h) \/ StatusReply(h)
             \/ HistoryChanged(h) \/ StatusChanged(h) \/ GiveUp(h)
    <2>1. /\ pc[h] \in {"reading", "ending"} /\ lifecycle' = lifecycle
          /\ pc' = pc \/ \E l \in {"ending", "none", "refresh", "reading", "initial", "status"} :
                            Goto(h, l)
      BY <1>2 DEF EndOfFile, Ending, ThreadsReply, StatusReply, HistoryChanged,
                  StatusChanged, GiveUp, At
    <2>2. lifecycle # h
      BY <1>0, <2>1 DEF OwnerGoesOn
    <2>3. CASE pc' = pc
      BY <2>1, <2>3 DEF OwnerGoesOn
    <2>. QED BY <1>0, <2>1, <2>2, <2>3, OwnGoes
  <1>. QED BY <1>1, <1>2

(* The lifecycle lock is held by a thread that goes on and gives it back:  *)
(* it has not returned with the lock, nor does it wait for anybody who     *)
(* waits for the lock, however the callers of start, maintain and stop,    *)
(* failing writes and the readers interleave (blueferry.py:63, 117, 206,   *)
(* 262, 300, 418, 619).                                                    *)
THEOREM OwnersGoOn == Spec => []OwnerGoesOn
  <1>1. Init => OwnerGoesOn
    BY NobodyIsNone DEF Init, OwnerGoesOn
  <1>2. TypeOK /\ OwnerGoesOn /\ [Next]_vars => OwnerGoesOn'
    <2> SUFFICES ASSUME TypeOK, OwnerGoesOn, [Next]_vars PROVE OwnerGoesOn'
      OBVIOUS
    <2>1. ASSUME NEW t \in Threads, Work(t) PROVE OwnerGoesOn'
      BY <2>1, StartingOwns, RequestingOwns, DriversOwn, MaintenanceOwns, ReaderOwns DEF Work
    <2>2. CASE Event
      <3>1. ASSUME NEW t \in Drivers, Enable(t) \/ Disable(t) \/ (t = Main /\ Refresh)
            PROVE  OwnerGoesOn'
        <4>1. /\ t \in Threads /\ lifecycle' = lifecycle /\ pc[t] = "idle"
              /\ \E l \in {"start", "stop", "refresh"} : Goto(t, l)
          BY <3>1, NobodyIsNone DEF Enable, Disable, Refresh, At
        <4>2. lifecycle # t
          BY <4>1 DEF OwnerGoesOn
        <4>. QED BY <4>1, <4>2, OwnGoes
      <3>2. ASSUME NEW h \in Helpers, Oversized(h) \/ HelperDies(h) PROVE OwnerGoesOn'
        BY <3>2 DEF Oversized, HelperDies, thread, OwnerGoesOn
      <3>. QED BY <2>2, <3>1, <3>2, ReaderOwns, NobodyIsNone DEF Event
    <2>3. ASSUME NEW h \in Helpers, Answer(h) PROVE OwnerGoesOn'
      BY <2>3, ReaderOwns DEF Answer
    <2>4. CASE (\E m \in Methods : Clock(m)) \/ UNCHANGED vars
      <3>1. UNCHANGED <<pc, lifecycle>>
        BY <2>4 DEF Clock, TimePasses, vars, thread
      <3>. QED BY <3>1 DEF OwnerGoesOn
    <2>. QED BY <2>1, <2>2, <2>3, <2>4 DEF Next
  <1>. QED BY <1>1, <1>2, TypeCorrect, PTL DEF Spec
=============================================================================
