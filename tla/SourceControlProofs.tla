-------------------------- MODULE SourceControlProofs --------------------------
(***************************************************************************)
(* Proofs about SourceControl, for any set and order of sources, any pins  *)
(* and any number of toggles and edits.                                    *)
(*                                                                         *)
(* A value in the file may come from either writer, and either writer may  *)
(* have copied it from anywhere the other one put it.  So the inductive    *)
(* invariant says of every copy of the settings, in the file, in the       *)
(* bridge's memory and in each thread's hands, that it holds explicit      *)
(* choices only.                                                           *)
(***************************************************************************)
EXTENDS SourceControl, TLAPS

Explicit(S) == \A s \in Sources : S[s] # "unset" => s \in chosen

(* Every copy of the settings holds explicit choices only.                 *)
CopiesExplicit ==
    /\ Explicit(file) /\ Explicit(stored) /\ Explicit(cli.copy)
    /\ cli.busy => cli.src \in chosen
    /\ \A t \in Threads : Explicit(job[t].copy)
    /\ \A t \in Threads : job[t].kind = "toggle" => job[t].src \in chosen

(* A toggle under way has been counted.                                    *)
TogglesCounted ==
    \A t \in Threads : job[t].kind = "toggle" => toggles[job[t].src] > 0

IInv == TypeOK /\ CopiesExplicit /\ PinsHold /\ TogglesCounted

LEMMA FirstSource == Order[1] \in Sources /\ Len(Order) \in Nat /\ 1 \in 1 .. Len(Order)
                     /\ \A i \in 1 .. Len(Order) : Order[i] \in Sources
  BY SourcesAssumption

LEMMA JobsTyped ==
    ASSUME NEW kind \in DOMAIN Loop, NEW s \in Sources, NEW v \in Choice, NEW sig \in Nat
    PROVE  NewJob(kind, s, v, sig) \in Job
  BY FirstSource DEF NewJob, Job, Choice

LEMMA JobOfTyped == \A kind \in DOMAIN Loop : JobOf(kind) \in Job
  BY FirstSource, JobsTyped DEF JobOf, Choice

LEMMA LoopsArePoints == \A kind \in DOMAIN Loop : Loop[kind] \in Points \ {"write", "restat", "commit"}
  BY DEF Loop, Points

(* Moving on to the next source keeps a job of the same kind or ends it.   *)
LEMMA AdvanceTyped ==
    ASSUME TypeOK, NEW t \in Threads, Advance(t)
    PROVE  /\ job' \in [Threads -> Job] /\ pc' \in [Threads -> Points]
           /\ pc'[t] \notin {"write", "restat", "commit"}
           /\ \A u \in Threads \ {t} : job'[u] = job[u] /\ pc'[u] = pc[u]
           /\ \/ job'[t].copy = job[t].copy
              \/ job'[t].copy = [s \in Sources |-> "unset"]
           /\ job'[t].kind # "toggle"
  <1>1. PICK next \in Job :
           /\ job' = [job EXCEPT ![t] = next]
           /\ next.copy = job[t].copy \/ next.copy = [s \in Sources |-> "unset"]
           /\ next.kind # "toggle"
           /\ pc' = [pc EXCEPT ![t] = IF job[t].kind = "close" /\ ~More(t) THEN "ended"
                                      ELSE Loop[next.kind]]
    <2> DEFINE next == CASE More(t) -> [job[t] EXCEPT !.pos = @ + 1]
                         [] ~More(t) /\ job[t].kind = "apply" -> JobOf("tick")
                         [] OTHER -> NoJob
    <2>1. CASE More(t)
      <3>1. job[t] \in Job
        BY DEF TypeOK
      <3>2. next = [job[t] EXCEPT !.pos = @ + 1]
        BY <2>1
      <3>3. next \in Job /\ next.copy = job[t].copy /\ next.kind = job[t].kind
        BY <2>1, <3>1, <3>2, FirstSource DEF More, Job
      <3> QED
        BY <2>1, <3>3 DEF Advance, Goto, More
    <2>2. CASE ~More(t)
      <3>1. next = JobOf("tick") \/ next = NoJob
        BY <2>2
      <3>2. next \in Job
        BY <3>1, JobOfTyped DEF NoJob, Loop
      <3>3. next.copy = [s \in Sources |-> "unset"] /\ next.kind # "toggle"
        BY <3>1 DEF NoJob, JobOf, NewJob
      <3> QED
        BY <3>2, <3>3 DEF Advance, Goto
    <2> QED
      BY <2>1, <2>2
  <1>2. next.kind \in DOMAIN Loop
    BY <1>1 DEF Job
  <1>3. Loop[next.kind] \in Points \ {"write", "restat", "commit"}
    BY <1>2, LoopsArePoints
  <1> QED
    BY <1>1, <1>3 DEF TypeOK, Points

LEMMA ApplyTyped ==
    ASSUME TypeOK, NEW t \in Threads, NEW s \in Sources, NEW d \in BOOLEAN,
           pc[t] \notin {"write", "restat"}, Apply(t, s, d)
    PROVE  /\ job' \in [Threads -> Job] /\ pc' \in [Threads -> Points]
           /\ active' \in [Sources -> BOOLEAN]
           /\ pc'[t] \notin {"write", "restat", "commit"}
           /\ \A u \in Threads \ {t} : job'[u] = job[u] /\ pc'[u] = pc[u]
           /\ \/ job'[t].copy = job[t].copy
              \/ job'[t].copy = [r \in Sources |-> "unset"]
           /\ job'[t] = job[t] \/ job'[t].kind # "toggle"
  <1>1. CASE Advance(t) /\ UNCHANGED active
    BY <1>1, AdvanceTyped DEF TypeOK
  <1>2. CASE UNCHANGED job /\ (Goto(t, "start") \/ Goto(t, "stop"))
    BY <1>2 DEF Apply, Goto, TypeOK, Points
  <1> QED
    BY <1>1, <1>2 DEF Apply

LEMMA CurrentTyped == ASSUME TypeOK, NEW t \in Threads PROVE Current(t) \in Sources
  <1>1. job[t] \in Job
    BY DEF TypeOK
  <1> QED
    BY <1>1, FirstSource DEF Current, Job

LEMMA EffectiveTyped ==
    ASSUME NEW S \in [Sources -> Choice] PROVE Effective(S) \in [Sources -> BOOLEAN]
  BY SourcesAssumption DEF Effective, Flag

(* Every initial state satisfies the invariant.                            *)
LEMMA InitEstablishes == Init => IInv
  <1> SUFFICES ASSUME Init PROVE IInv
    OBVIOUS
  <1>1. desired \in [Sources -> BOOLEAN]
    BY SourcesAssumption DEF Init, Initially
  <1>2. NoJob \in Job /\ NoJob.kind = "none" /\ NoJob.copy = [s \in Sources |-> "unset"]
    BY JobOfTyped DEF NoJob, JobOf, NewJob, Loop
  <1>3. TypeOK
    BY <1>1, <1>2, FirstSource, SourcesAssumption DEF Init, TypeOK, Points, Choice, NotEditing
  <1>4. CopiesExplicit /\ TogglesCounted
    BY <1>2 DEF Init, CopiesExplicit, TogglesCounted, Explicit, NotEditing
  <1>5. PinsHold
    BY SourcesAssumption DEF Init, PinsHold, Initially
  <1> QED
    BY <1>3, <1>4, <1>5 DEF IInv

(* The merge of one more explicit choice.                                  *)
LEMMA WithTyped ==
    ASSUME NEW S \in [Sources -> Choice], NEW s \in Sources, NEW v \in Choice
    PROVE  /\ With(S, s, v) \in [Sources -> Choice]
           /\ (Explicit(S) /\ s \in chosen) => Explicit(With(S, s, v))
  BY DEF With, Explicit

LEMMA PutTyped ==
    ASSUME TypeOK, CopiesExplicit, NEW t \in Threads, NEW S \in [Sources -> Choice],
           Explicit(S), Put(t, S), job[t].kind = "toggle"
    PROVE  /\ stored' \in [Sources -> Choice] /\ Explicit(stored')
           /\ job' \in [Threads -> Job] /\ pc' \in [Threads -> Points]
           /\ Explicit(job'[t].copy)
           /\ job'[t].kind = "toggle" /\ job'[t].src = job[t].src
           /\ \A u \in Threads \ {t} : job'[u] = job[u] /\ pc'[u] = pc[u]
  <1> DEFINE new == With(S, job[t].src, job[t].val)
  <1>1. job[t] \in Job
    BY DEF TypeOK
  <1>2. job[t].src \in Sources /\ job[t].val \in Choice
    BY <1>1 DEF Job
  <1>3. new \in [Sources -> Choice] /\ Explicit(new)
    BY <1>2, WithTyped DEF CopiesExplicit
  <1> HIDE DEF new
  <1>4. stored' = new /\ job' = [job EXCEPT ![t].copy = new] /\ pc' = [pc EXCEPT ![t] = "write"]
    BY DEF Put, Goto, new
  <1>5. job'[t] = [job[t] EXCEPT !.copy = new]
    BY <1>4 DEF TypeOK
  <1>6. job'[t] \in Job /\ job'[t].copy = new /\ job'[t].kind = "toggle"
        /\ job'[t].src = job[t].src
    BY <1>1, <1>3, <1>5 DEF Job
  <1>7. job' \in [Threads -> Job]
    BY <1>4, <1>6 DEF TypeOK
  <1> QED
    BY <1>3, <1>4, <1>6, <1>7 DEF TypeOK, Points

(* A step of thread t that leaves the file, the settings and the history   *)
(* alone, gives the thread no new copy and starts no toggle.               *)
LEMMA QuietStep ==
    ASSUME IInv, NEW t \in Threads, UNCHANGED <<file, stored, cli, history>>,
           stamp' \in Nat, signature' \in Nat,
           desired' \in [Sources -> BOOLEAN], active' \in [Sources -> BOOLEAN],
           running' \in [Sources -> BOOLEAN],
           \A s \in Pinned : desired'[s] # desired[s] => toggles[s] > 0,
           job' \in [Threads -> Job], pc' \in [Threads -> Points],
           pc'[t] \in {"write", "restat", "commit"} => job'[t].kind = "toggle",
           \A u \in Threads \ {t} : job'[u] = job[u] /\ pc'[u] = pc[u],
           \/ Explicit(job'[t].copy)
           \/ job'[t].copy = [s \in Sources |-> "unset"],
           job'[t].kind = "toggle" => job[t].kind = "toggle" /\ job'[t].src = job[t].src
    PROVE  IInv'
  <1> USE DEF IInv
  <1>1. TypeOK'
    BY DEF TypeOK, history
  <1>2. Explicit(job'[t].copy)
    BY DEF Explicit
  <1>3. CopiesExplicit'
    BY <1>2 DEF CopiesExplicit, Explicit, history
  <1>4. PinsHold'
    BY SourcesAssumption DEF PinsHold, TypeOK, history
  <1>5. TogglesCounted'
    BY DEF TogglesCounted, history
  <1> QED
    BY <1>1, <1>3, <1>4, <1>5

LEMMA RequestStep == IInv /\ Request => IInv'
  <1> SUFFICES ASSUME IInv, Request PROVE IInv'
    OBVIOUS
  <1> USE DEF IInv, Threads
  <1>1. ASSUME NEW s \in Sources, NEW v \in {"on", "off"}, Toggle(s, v) PROVE IInv'
    <2> DEFINE j == NewJob("toggle", s, v, stamp)
    <2>1. j \in Job
      BY JobsTyped DEF TypeOK, Loop, Choice
    <2>2. j.kind = "toggle" /\ j.src = s /\ j.copy = [r \in Sources |-> "unset"]
      BY DEF NewJob
    <2> HIDE DEF j
    <2>3. /\ job' = [job EXCEPT !["main"] = j] /\ pc' = [pc EXCEPT !["main"] = "compare"]
          /\ chosen' = chosen \cup {s} /\ toggles' = [toggles EXCEPT ![s] = @ + 1]
          /\ toggles[s] < MaxToggles
          /\ UNCHANGED <<settings, control, cli, edits>>
      BY <1>1 DEF Toggle, Goto, j
    <2>4. toggles' \in [Sources -> 0 .. MaxToggles]
      BY <2>3, SourcesAssumption DEF TypeOK
    <2>5. job' \in [Threads -> Job]
      BY <2>1, <2>3 DEF TypeOK
    <2>6. TypeOK'
      BY <2>3, <2>4, <2>5 DEF TypeOK, settings, control, Points
    <2>7. CopiesExplicit'
      BY <2>2, <2>3 DEF CopiesExplicit, Explicit, TypeOK, settings
    <2>8. \A r \in Sources : toggles'[r] >= toggles[r] /\ toggles'[s] > 0
      BY <2>3 DEF TypeOK
    <2>9. PinsHold'
      BY <2>3, <2>4, <2>8, SourcesAssumption DEF PinsHold, control, TypeOK
    <2>10. TogglesCounted'
      <3> SUFFICES ASSUME NEW t \in Threads, job'[t].kind = "toggle"
                   PROVE  toggles'[job'[t].src] > 0
        BY DEF TogglesCounted
      <3>1. CASE t = "main"
        BY <2>2, <2>3, <2>8, <3>1 DEF TypeOK
      <3>2. CASE t # "main"
        <4>1. job'[t] = job[t] /\ job[t] \in Job
          BY <2>3, <3>2 DEF TypeOK
        <4>2. job[t].src \in Sources /\ toggles[job[t].src] > 0
          BY <4>1 DEF Job, TogglesCounted
        <4> QED
          BY <2>4, <2>8, <4>1, <4>2 DEF TypeOK
      <3> QED
        BY <3>1, <3>2
    <2> QED
      BY <2>6, <2>7, <2>9, <2>10
  <1>2. ASSUME NEW kind \in {"refresh", "close"}, NEW l \in {"refresh", "close"},
               job' = [job EXCEPT !["main"] = JobOf(kind)], Goto("main", l),
               UNCHANGED <<settings, control, cli, history>>
        PROVE  IInv'
    <2>1. JobOf(kind) \in Job
      BY JobOfTyped DEF Loop
    <2>2. JobOf(kind).kind # "toggle" /\ JobOf(kind).copy = [r \in Sources |-> "unset"]
      BY DEF JobOf, NewJob
    <2>3. job' \in [Threads -> Job] /\ pc' \in [Threads -> Points]
      BY <1>2, <2>1 DEF TypeOK, Goto, Points
    <2> QED
      BY <1>2, <2>2, <2>3, QuietStep DEF settings, control, TypeOK, Goto
  <1> QED
    BY <1>1, <1>2 DEF Request, Refresh, Close

LEMMA TickStep == IInv /\ (Tick \/ MaintenanceEnds) => IInv'
  <1> SUFFICES ASSUME IInv, Tick \/ MaintenanceEnds PROVE IInv'
    OBVIOUS
  <1> USE DEF IInv, Threads
  <1>1. PICK j \in Job, l \in {"compare", "ended"} :
           /\ job' = [job EXCEPT !["maint"] = j] /\ pc' = [pc EXCEPT !["maint"] = l]
           /\ j.kind # "toggle" /\ j.copy = [r \in Sources |-> "unset"]
           /\ UNCHANGED <<settings, control, cli, history>>
    <2>1. CASE Tick
      <3> DEFINE j == NewJob("tick", Order[1], "unset", stamp)
      <3>1. j \in Job
        BY JobsTyped, FirstSource DEF TypeOK, Loop, Choice
      <3>2. j.kind # "toggle" /\ j.copy = [r \in Sources |-> "unset"]
        BY DEF NewJob
      <3> QED
        BY <2>1, <3>1, <3>2 DEF Tick, Goto
    <2>2. CASE MaintenanceEnds
      <3>1. NoJob \in Job /\ NoJob.kind # "toggle"
            /\ NoJob.copy = [r \in Sources |-> "unset"]
        BY JobOfTyped DEF NoJob, JobOf, NewJob, Loop
      <3> QED
        BY <2>2, <3>1 DEF MaintenanceEnds, Goto
    <2> QED
      BY <2>1, <2>2
  <1>2. job' \in [Threads -> Job] /\ pc' \in [Threads -> Points]
    BY <1>1 DEF TypeOK, Points
  <1> QED
    BY <1>1, <1>2, QuietStep DEF settings, control, TypeOK

LEMMA CommandLineStep == IInv /\ CommandLine => IInv'
  <1> SUFFICES ASSUME IInv, CommandLine PROVE IInv'
    OBVIOUS
  <1> USE DEF IInv
  <1>1. ASSUME NEW s \in Sources, NEW v \in {"on", "off"}, EditLoads(s, v) PROVE IInv'
    <2>1. TypeOK'
      BY <1>1, SourcesAssumption DEF EditLoads, TypeOK, settings, control, Choice
    <2>2. CopiesExplicit'
      BY <1>1 DEF EditLoads, CopiesExplicit, Explicit, settings, TypeOK
    <2>3. PinsHold' /\ TogglesCounted'
      BY <1>1 DEF EditLoads, PinsHold, TogglesCounted, control
    <2> QED
      BY <2>1, <2>2, <2>3
  <1>2. CASE EditWrites
    <2>1. With(cli.copy, cli.src, cli.val) \in [Sources -> Choice]
          /\ Explicit(With(cli.copy, cli.src, cli.val))
      BY <1>2, WithTyped DEF EditWrites, TypeOK, CopiesExplicit
    <2>2. TypeOK'
      BY <1>2, <2>1, FirstSource DEF EditWrites, TypeOK, control, history, NotEditing, Choice
    <2>3. CopiesExplicit'
      BY <1>2, <2>1 DEF EditWrites, CopiesExplicit, Explicit, history, NotEditing
    <2>4. PinsHold' /\ TogglesCounted'
      BY <1>2 DEF EditWrites, PinsHold, TogglesCounted, control, history
    <2> QED
      BY <2>2, <2>3, <2>4
  <1> QED
    BY <1>1, <1>2 DEF CommandLine

(* Steps of one thread that change neither the file nor the settings.      *)
LEMMA SwitchingStep ==
    ASSUME IInv, NEW t \in Threads,
           \/ Restat(t) \/ Commit(t) \/ ApplyNext(t) \/ StartAdapter(t) \/ StopAdapter(t)
           \/ MaintainNext(t) \/ Repair(t) \/ RefreshNext(t) \/ CloseNext(t)
           \/ NewSignature(t) \/ WriteFails(t)
    PROVE  IInv'
  <1> USE DEF IInv
  <1>1. job[t] \in Job /\ Current(t) \in Sources /\ job[t].src \in Sources
    <2>1. job[t] \in Job
      BY DEF TypeOK
    <2> QED
      BY <2>1, CurrentTyped DEF Job
  <1>2. CASE Restat(t)
    <2>1. job' = [job EXCEPT ![t].sig = stamp] /\ pc' = [pc EXCEPT ![t] = "commit"]
          /\ pc[t] = "restat" /\ UNCHANGED <<settings, control, cli, history>>
      BY <1>2 DEF Restat, Goto
    <2>2. job'[t] = [job[t] EXCEPT !.sig = stamp] /\ job[t].kind = "toggle"
      BY <2>1 DEF TypeOK
    <2>3. job'[t] \in Job /\ job'[t].copy = job[t].copy /\ job'[t].kind = "toggle"
          /\ job'[t].src = job[t].src
      BY <1>1, <2>2 DEF Job, TypeOK
    <2>4. job' \in [Threads -> Job] /\ pc' \in [Threads -> Points]
      BY <2>1, <2>3 DEF TypeOK, Points
    <2> QED
      BY <2>1, <2>2, <2>3, <2>4, QuietStep DEF settings, control, TypeOK, CopiesExplicit
  <1>3. CASE NewSignature(t)
    <2>1. job' = [job EXCEPT ![t].copy = file] /\ pc' = [pc EXCEPT ![t] = "assign"]
          /\ signature' = job[t].sig
          /\ UNCHANGED <<file, stamp, stored, control, cli, history>>
      BY <1>3 DEF NewSignature, Goto
    <2>2. job'[t] = [job[t] EXCEPT !.copy = file]
      BY <2>1 DEF TypeOK
    <2>3. job'[t] \in Job /\ job'[t].copy = file /\ job'[t].kind = job[t].kind
          /\ job'[t].src = job[t].src /\ signature' \in Nat
      BY <1>1, <2>1, <2>2 DEF Job, TypeOK
    <2>4. job' \in [Threads -> Job] /\ pc' \in [Threads -> Points]
      BY <2>1, <2>3 DEF TypeOK, Points
    <2> QED
      BY <2>1, <2>3, <2>4, QuietStep DEF control, TypeOK, CopiesExplicit
  <1>4. CASE WriteFails(t)
    <2>1. NoJob \in Job /\ NoJob.kind # "toggle" /\ NoJob.copy = [s \in Sources |-> "unset"]
      BY JobOfTyped DEF NoJob, JobOf, NewJob, Loop
    <2>2. job' = [job EXCEPT ![t] = NoJob] /\ pc' = [pc EXCEPT ![t] = "idle"]
          /\ UNCHANGED <<settings, control, cli, history>>
      BY <1>4 DEF WriteFails, Goto
    <2>3. job' \in [Threads -> Job] /\ pc' \in [Threads -> Points]
      BY <2>1, <2>2 DEF TypeOK, Points
    <2> QED
      BY <2>1, <2>2, <2>3, QuietStep DEF settings, control, TypeOK
  <1>5. CASE Commit(t)
    <2>1. Flag(job[t].val) \in BOOLEAN /\ job[t].kind = "toggle" /\ job[t].sig \in Nat
      BY <1>1, <1>5 DEF Flag, Commit, TypeOK, Job
    <2>2. Apply(t, job[t].src, Flag(job[t].val)) /\ pc[t] = "commit"
          /\ signature' = job[t].sig
          /\ desired' = [desired EXCEPT ![job[t].src] = Flag(job[t].val)]
          /\ UNCHANGED <<file, stamp, stored, running, cli, history>>
      BY <1>5 DEF Commit
    <2>3. toggles[job[t].src] > 0
      BY <2>1 DEF TogglesCounted
    <2>4. \A s \in Pinned : desired'[s] # desired[s] => toggles[s] > 0
      BY <1>1, <2>2, <2>3, SourcesAssumption DEF TypeOK
    <2>5. desired' \in [Sources -> BOOLEAN] /\ signature' \in Nat
      BY <1>1, <2>1, <2>2 DEF TypeOK
    <2>6. /\ job' \in [Threads -> Job] /\ pc' \in [Threads -> Points]
          /\ active' \in [Sources -> BOOLEAN]
          /\ pc'[t] \notin {"write", "restat", "commit"}
          /\ \A u \in Threads \ {t} : job'[u] = job[u] /\ pc'[u] = pc[u]
          /\ \/ job'[t].copy = job[t].copy
             \/ job'[t].copy = [r \in Sources |-> "unset"]
          /\ job'[t] = job[t] \/ job'[t].kind # "toggle"
      BY <1>1, <2>1, <2>2, ApplyTyped
    <2>7. Explicit(job[t].copy)
      BY DEF CopiesExplicit
    <2> QED
      BY <2>2, <2>4, <2>5, <2>6, <2>7, QuietStep DEF TypeOK
  <1>6. CASE ApplyNext(t)
    <2>1. desired[Current(t)] \in BOOLEAN
      BY <1>1 DEF TypeOK
    <2>2. Apply(t, Current(t), desired[Current(t)]) /\ pc[t] = "apply"
          /\ UNCHANGED <<settings, desired, running, cli, history>>
      BY <1>6 DEF ApplyNext
    <2>3. /\ job' \in [Threads -> Job] /\ pc' \in [Threads -> Points]
          /\ active' \in [Sources -> BOOLEAN]
          /\ pc'[t] \notin {"write", "restat", "commit"}
          /\ \A u \in Threads \ {t} : job'[u] = job[u] /\ pc'[u] = pc[u]
          /\ \/ job'[t].copy = job[t].copy
             \/ job'[t].copy = [r \in Sources |-> "unset"]
          /\ job'[t] = job[t] \/ job'[t].kind # "toggle"
      BY <1>1, <2>1, <2>2, ApplyTyped
    <2>4. Explicit(job[t].copy)
      BY DEF CopiesExplicit
    <2> QED
      BY <2>2, <2>3, <2>4, QuietStep DEF settings, TypeOK
  <1>7. CASE /\ Advance(t)
             /\ UNCHANGED <<settings, desired, active, cli, history>>
             /\ running' \in [Sources -> BOOLEAN]
    <2>1. Explicit(job[t].copy)
      BY DEF CopiesExplicit
    <2> QED
      BY <1>7, <2>1, AdvanceTyped, QuietStep DEF settings, TypeOK
  <1>8. CASE /\ UNCHANGED <<settings, desired, running, job, cli, history>>
             /\ active' \in [Sources -> BOOLEAN]
             /\ \E l \in {"start", "stop", "repair"} : Goto(t, l)
    <2>1. Explicit(job[t].copy)
      BY DEF CopiesExplicit
    <2>2. pc' \in [Threads -> Points] /\ pc'[t] \notin {"write", "restat", "commit"}
          /\ \A u \in Threads \ {t} : pc'[u] = pc[u]
      BY <1>8 DEF Goto, TypeOK, Points
    <2> QED
      BY <1>8, <2>1, <2>2, QuietStep DEF settings, TypeOK
  <1>9. CASE StartAdapter(t) \/ StopAdapter(t) \/ Repair(t)
    <2>1. running' \in [Sources -> BOOLEAN]
      BY <1>1, <1>9 DEF StartAdapter, StopAdapter, Repair, TypeOK
    <2> QED
      BY <1>7, <1>9, <2>1 DEF StartAdapter, StopAdapter, Repair
  <1>10. CASE MaintainNext(t) \/ RefreshNext(t) \/ CloseNext(t)
    <2>1. active' \in [Sources -> BOOLEAN] /\ UNCHANGED <<settings, desired, running, cli, history>>
      BY <1>1, <1>10 DEF MaintainNext, RefreshNext, CloseNext, TypeOK, control
    <2>2. \/ Advance(t) /\ UNCHANGED active
          \/ UNCHANGED job /\ \E l \in {"start", "stop", "repair"} : Goto(t, l)
      BY <1>10 DEF MaintainNext, RefreshNext, CloseNext, control
    <2>3. running' \in [Sources -> BOOLEAN]
      BY <2>1 DEF TypeOK
    <2> QED
      BY <1>7, <1>8, <2>1, <2>2, <2>3
  <1> QED
    BY <1>2, <1>3, <1>4, <1>5, <1>6, <1>9, <1>10

(* Steps of one thread that change the settings or the file.               *)
LEMMA WritingStep ==
    ASSUME IInv, NEW t \in Threads, SameSignature(t) \/ Assign(t) \/ Write(t)
    PROVE  IInv'
  <1> USE DEF IInv
  <1>1. job[t] \in Job /\ Explicit(job[t].copy) /\ job[t].copy \in [Sources -> Choice]
    <2>1. job[t] \in Job
      BY DEF TypeOK
    <2> QED
      BY <2>1 DEF Job, CopiesExplicit
  <1>2. ASSUME NEW S \in [Sources -> Choice], Explicit(S), Put(t, S), job[t].kind = "toggle",
               UNCHANGED <<file, stamp, signature, control, cli, history>>
        PROVE  IInv'
    <2>1. /\ stored' \in [Sources -> Choice] /\ Explicit(stored')
          /\ job' \in [Threads -> Job] /\ pc' \in [Threads -> Points]
          /\ Explicit(job'[t].copy)
          /\ job'[t].kind = "toggle" /\ job'[t].src = job[t].src
          /\ \A u \in Threads \ {t} : job'[u] = job[u] /\ pc'[u] = pc[u]
      BY <1>2, PutTyped
    <2>2. TypeOK'
      BY <1>2, <2>1 DEF TypeOK, control, history
    <2>3. CopiesExplicit'
      BY <1>2, <2>1 DEF CopiesExplicit, Explicit, history
    <2>4. PinsHold' /\ TogglesCounted'
      BY <1>2, <2>1 DEF PinsHold, TogglesCounted, control, history
    <2> QED
      BY <2>2, <2>3, <2>4
  <1>3. ASSUME job[t].kind = "tick", Goto(t, "maintain"), UNCHANGED job,
               stored' \in [Sources -> Choice], Explicit(stored'),
               UNCHANGED <<file, stamp, signature, control, cli, history>>
        PROVE  IInv'
    <2>1. pc' \in [Threads -> Points] /\ pc'[t] = "maintain"
          /\ \A u \in Threads \ {t} : pc'[u] = pc[u]
      BY <1>3 DEF Goto, TypeOK, Points
    <2>2. TypeOK'
      BY <1>3, <2>1 DEF TypeOK, control, history
    <2>3. CopiesExplicit' /\ PinsHold' /\ TogglesCounted'
      BY <1>3 DEF CopiesExplicit, Explicit, PinsHold, TogglesCounted, control, history
    <2> QED
      BY <2>2, <2>3
  <1>4. CASE SameSignature(t)
    <2>1. stored \in [Sources -> Choice] /\ Explicit(stored)
      BY DEF TypeOK, CopiesExplicit
    <2> QED
      BY <1>2, <1>3, <1>4, <2>1 DEF SameSignature
  <1>5. CASE Assign(t) /\ job[t].kind = "toggle"
    BY <1>1, <1>2, <1>5 DEF Assign, control
  <1>6. CASE /\ Assign(t) /\ stored' = job[t].copy /\ job[t].kind = "tick"
             /\ Goto(t, "maintain") /\ UNCHANGED <<desired, job>>
    <2>1. UNCHANGED <<file, stamp, signature, control, cli, history>>
      BY <1>6 DEF Assign, control
    <2>2. stored' \in [Sources -> Choice] /\ Explicit(stored')
      BY <1>1, <1>6
    <2> QED
      BY <1>3, <1>6, <2>1, <2>2
  <1>7. CASE /\ Assign(t) /\ stored' = job[t].copy /\ desired' = Wish(job[t].copy)
             /\ job' = [job EXCEPT ![t] = JobOf("apply")] /\ Goto(t, "apply")
    <2> DEFINE new == JobOf("apply")
    <2>0. job' = [job EXCEPT ![t] = new] /\ pc' = [pc EXCEPT ![t] = "apply"]
      BY <1>7 DEF Goto
    <2>1. new \in Job /\ new.kind = "apply" /\ new.copy = [s \in Sources |-> "unset"]
      BY JobOfTyped DEF JobOf, NewJob, Loop
    <2> HIDE DEF new
    <2>2. /\ job' \in [Threads -> Job] /\ job'[t] = new
          /\ pc' \in [Threads -> Points] /\ pc'[t] = "apply"
          /\ \A u \in Threads \ {t} : job'[u] = job[u] /\ pc'[u] = pc[u]
      BY <2>0, <2>1 DEF TypeOK, Points
    <2>3. Effective(job[t].copy) \in [Sources -> BOOLEAN]
      BY <1>1, EffectiveTyped
    <2>4. desired' \in [Sources -> BOOLEAN] /\ \A s \in Pinned : desired'[s] = desired[s]
      BY <1>7, <2>3, SourcesAssumption DEF Wish, TypeOK
    <2>5. UNCHANGED <<file, stamp, signature, active, running, cli, history>>
      BY <1>7 DEF Assign
    <2>6. TypeOK'
      BY <1>1, <1>7, <2>2, <2>4, <2>5 DEF TypeOK, history
    <2>7. CopiesExplicit'
      BY <1>1, <1>7, <2>1, <2>2, <2>5 DEF CopiesExplicit, Explicit, history
    <2>8. PinsHold'
      BY <2>4, <2>5 DEF PinsHold, history
    <2>9. TogglesCounted'
      <3> SUFFICES ASSUME NEW u \in Threads, job'[u].kind = "toggle"
                   PROVE  toggles'[job'[u].src] > 0
        BY DEF TogglesCounted
      <3>1. u # t /\ job'[u] = job[u] /\ toggles' = toggles
        BY <2>1, <2>2, <2>5 DEF history
      <3> QED
        BY <3>1 DEF TogglesCounted
    <2> QED
      BY <2>6, <2>7, <2>8, <2>9
  <1>8. CASE Write(t)
    <2>1. file' = job[t].copy /\ stamp' = stamp + 1 /\ pc' = [pc EXCEPT ![t] = "restat"]
          /\ pc[t] = "write" /\ UNCHANGED <<stored, signature, control, job, cli, history>>
      BY <1>8 DEF Write, Goto
    <2>2. TypeOK'
      BY <1>1, <2>1 DEF TypeOK, control, history, Points
    <2>3. CopiesExplicit' /\ PinsHold' /\ TogglesCounted'
      BY <1>1, <2>1 DEF CopiesExplicit, Explicit, PinsHold, TogglesCounted, control, history
    <2> QED
      BY <2>2, <2>3
  <1>9. Assign(t) => \/ job[t].kind = "toggle"
                     \/ /\ stored' = job[t].copy
                        /\ \/ /\ desired' = Wish(job[t].copy)
                              /\ job' = [job EXCEPT ![t] = JobOf("apply")]
                              /\ Goto(t, "apply")
                           \/ /\ job[t].kind = "tick" /\ Goto(t, "maintain")
                              /\ UNCHANGED <<desired, job>>
    BY DEF Assign
  <1> QED
    BY <1>4, <1>5, <1>6, <1>7, <1>8, <1>9

LEMMA Invariance == Spec => []IInv
  <1>1. IInv /\ [Next]_vars => IInv'
    <2> SUFFICES ASSUME IInv, [Next]_vars PROVE IInv'
      OBVIOUS
    <2>1. CASE \E t \in Threads : Step(t)
      BY <2>1, SwitchingStep, WritingStep DEF Step
    <2>2. CASE \E s \in Sources : HelperDies(s)
      BY <2>2 DEF HelperDies, IInv, TypeOK, CopiesExplicit, Explicit, PinsHold,
                  TogglesCounted, settings, history
    <2>3. CASE UNCHANGED vars
      BY <2>3 DEF vars, IInv, TypeOK, CopiesExplicit, Explicit, PinsHold, TogglesCounted,
                  settings, control, history
    <2> QED
      BY <2>1, <2>2, <2>3, RequestStep, TickStep, CommandLineStep DEF Next
  <1> QED
    BY <1>1, InitEstablishes, PTL DEF Spec

(* Every variable keeps its type, and only a toggle writes the settings    *)
(* (bridge.py:178-200, settings.py:105-124).                               *)
THEOREM TypeCorrect == Spec => []TypeOK
  <1>1. IInv => TypeOK
    BY DEF IInv
  <1> QED
    BY <1>1, Invariance, PTL

(* However the bridge's threads and the command line interleave, and       *)
(* however many edits they merge, what is in the file was asked for by     *)
(* somebody (settings.py:26-28, 105-124).                                  *)
THEOREM ExplicitOnly == Spec => []OnlyExplicitChoices
  <1>1. IInv => OnlyExplicitChoices
    BY DEF IInv, CopiesExplicit, Explicit, OnlyExplicitChoices
  <1> QED
    BY <1>1, Invariance, PTL

(* A command line pin holds until the picker toggles that very source,     *)
(* whatever edits the maintenance thread picks up (bridge.py:81-88,        *)
(* 186-196).                                                               *)
THEOREM Pins == Spec => []PinsHold
  <1>1. IInv => PinsHold
    BY DEF IInv
  <1> QED
    BY <1>1, Invariance, PTL
=============================================================================
