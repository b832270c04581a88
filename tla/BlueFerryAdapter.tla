---------------------------- MODULE BlueFerryAdapter ----------------------------
(***************************************************************************)
(* The BlueFerry transport (oma2fa/blueferry.py): one helper process with  *)
(* a request pipe, used by the bridge's dispatch thread (start, refresh,   *)
(* stop), its maintenance thread (maintain) and one reader thread per      *)
(* helper.                                                                 *)
(*                                                                         *)
(* self._process is replaced under _lifecycle_lock only, but read without  *)
(* it all over.  The request flags are guarded by _state_lock, a leaf:     *)
(* each critical section is one step.  _write_lock is one too: a request   *)
(* is far smaller than a pipe, so nothing waits while it is held, and a    *)
(* request is entered and written in one step.                             *)
(*                                                                         *)
(* _pending maps request ids to methods; the model counts, by helper, the  *)
(* requests in it that were written to that helper (ids are never reused). *)
(* The answer to an id that is no longer in it changes nothing here.       *)
(* Loading raw events and reporting status only take time.                 *)
(***************************************************************************)
EXTENDS Integers

CONSTANTS
    Main,     (* the thread that runs JsonBridge.dispatch                  *)
    Maint,    (* the thread that runs JsonBridge._maintain                 *)
    Helpers,  (* helper slots; a slot also names its reader thread         *)
    None,     (* no helper, no lock owner                                  *)
    MaxEvents (* bound on what the user, the provider and the helpers do   *)

Threads == {Main, Maint} \cup Helpers

ASSUME ThreadsAssumption ==
    /\ Main # Maint
    /\ Main \notin Helpers /\ Maint \notin Helpers
    /\ None \notin Threads
    /\ MaxEvents \in Nat

Methods == {"status", "threads"}

VARIABLES
    helper,     (* slot -> "up", "dead" by itself, "closing": its stdin is *)
                (* closed and it is being stopped, or "closed"             *)
    proc,       (* self._process                                           *)
    active,     (* JsonBridge._active["blueferry"]                         *)
    flag,       (* method -> "none", "waiting" or, past the time-out,      *)
                (* "late": _status_pending, _threads_pending, _requested_at*)
    dirty,      (* self._threads_dirty                                     *)
    gate,       (* self._startup_waiting_for_status                        *)
    pending,    (* helper -> method -> requests in self._pending           *)
    lifecycle,  (* owner of _lifecycle_lock                                *)
    pc,         (* where each thread is                                    *)
    at,         (* the helper in its local variable `process'              *)
    why,        (* on whose behalf it makes a request                      *)
    events      (* events so far: only the bound reads it                  *)

flags == <<flag, dirty, gate, pending>>
thread == <<pc, at, why>>
vars == <<helper, proc, active, flags, lifecycle, thread, events>>

-----------------------------------------------------------------------------
(* Control points.  "start", "maintain", "stop", "initial", "detach" and   *)
(* "ending" wait for _lifecycle_lock.                                      *)
Points == {"idle", "start", "maintain", "stop", "kill", "reap", "refresh", "load",
           "threads", "status", "ask", "write", "detach", "failed", "open",
           "reading", "initial", "ending", "none"}

(* The callers of request: start, maintain, status-changed, a refresh, and *)
(* the continuation of a startup.                                          *)
Reasons == {"start", "retry", "changed", "refresh", "initial"}

Method(reason) == IF reason \in {"refresh", "initial"} THEN "threads" ELSE "status"

At(t, l) == pc[t] = l
Goto(t, l) == pc' = [pc EXCEPT ![t] = l]

(* Mutant: the lock is not taken.                                          *)
NoLock(t) == TRUE

(* poll() is None                                                          *)
Alive(h) == h # None /\ helper[h] \in {"up", "closing"}

(* _lifecycle_lock is re-entrant.                                          *)
Available(t) == lifecycle \in {None, t}

Unused(h) == /\ helper[h] \in {"dead", "closed"} /\ At(h, "none")
             /\ \A t \in Threads : at[t] # h

(* Slots are alike: the next helper takes a certain one of them.           *)
Free(h) == Unused(h) /\ h = CHOOSE g \in Helpers : Unused(g)

(* Mutant: the lock is never given back.                                   *)
Keep(t) == lifecycle

Release(t) == IF lifecycle = t THEN None ELSE lifecycle

(* Leave the adapter, or go back to reading.                               *)
Return(t) ==
    /\ Goto(t, IF t \in Helpers THEN "reading" ELSE "idle")
    /\ at' = [at EXCEPT ![t] = None]
    /\ why' = [why EXCEPT ![t] = "none"]
    /\ lifecycle' = Release(t)

(* Every request flag is reset, and every pending id forgotten.            *)
NothingPending == [h \in Helpers |-> [m \in Methods |-> 0]]

Forget(startup) ==
    /\ flag' = [m \in Methods |-> "none"]
    /\ dirty' = FALSE
    /\ gate' = startup
    /\ pending' = NothingPending

-----------------------------------------------------------------------------
(* JsonBridge, on its dispatch and its maintenance thread                  *)

Enable(t) ==
    /\ At(t, "idle") /\ ~active
    /\ active' = TRUE
    /\ Goto(t, "start")
    /\ UNCHANGED <<helper, proc, flags, lifecycle, at, why>>

Disable(t) ==
    /\ At(t, "idle") /\ active
    /\ active' = FALSE
    /\ Goto(t, "stop")
    /\ UNCHANGED <<helper, proc, flags, lifecycle, at, why>>

(* The "refresh" request also marks the source active, if it is wanted:    *)
(* SourceControl keeps _desired, here it may be either.                    *)
Refresh ==
    /\ At(Main, "idle")
    /\ active' = TRUE
    /\ Goto(Main, "refresh")
    /\ UNCHANGED <<helper, proc, flags, lifecycle, at, why>>

Tick ==
    /\ At(Maint, "idle") /\ active
    /\ Goto(Maint, "maintain")
    /\ UNCHANGED <<helper, proc, active, flags, lifecycle, at, why>>

-----------------------------------------------------------------------------
(* start, maintain and stop                                                *)

(* A new helper, its reader, and a clean slate; the lock is kept until its *)
(* first status request is written.                                        *)
Spawn(t, h) ==
    /\ At(t, "start") /\ Available(t)
    /\ ~Alive(proc) /\ Free(h)
    /\ helper' = [helper EXCEPT ![h] = "up"]
    /\ proc' = h
    /\ Forget(TRUE)
    /\ pc' = [pc EXCEPT ![t] = "status", ![h] = "reading"]
    /\ why' = [why EXCEPT ![t] = "start"]
    /\ lifecycle' = t
    /\ UNCHANGED <<active, at>>

(* Popen fails, or gives no pipes.                                         *)
SpawnFails(t) ==
    /\ At(t, "start") /\ Available(t)
    /\ ~Alive(proc)
    /\ Forget(FALSE)
    /\ Return(t)
    /\ UNCHANGED <<helper, proc, active>>

(* The helper runs already, or is not installed.                           *)
Pass(t) ==
    /\ At(t, "start") /\ Available(t)
    /\ Return(t)
    /\ UNCHANGED <<helper, proc, active, flags>>

(* A helper whose startup or thread list takes too long is detached; the   *)
(* lock is kept while it is stopped and a new one is started.              *)
TimedOut ==
    \/ flag["status"] = "late" /\ gate
    \/ flag["threads"] = "late"

Maintain ==
    /\ At(Maint, "maintain") /\ lifecycle = None
    /\ \/ /\ ~Alive(proc)
          /\ Goto(Maint, "start")
          /\ lifecycle' = Maint
          /\ UNCHANGED <<proc, flags, at, why>>
       \/ /\ Alive(proc) /\ TimedOut
          /\ Forget(FALSE)
          /\ proc' = None
          /\ at' = [at EXCEPT ![Maint] = proc]
          /\ Goto(Maint, "kill")
          /\ lifecycle' = Maint
          /\ UNCHANGED why
       \/ /\ Alive(proc) /\ ~TimedOut /\ flag["status"] = "late"
          /\ flag' = [flag EXCEPT !["status"] = "none"]
          /\ pending' = [h \in Helpers |-> [pending[h] EXCEPT !["status"] = 0]]
          /\ why' = [why EXCEPT ![Maint] = "retry"]
          /\ Goto(Maint, "status")
          /\ lifecycle' = Maint
          /\ UNCHANGED <<proc, dirty, gate, at>>
       \/ /\ Alive(proc) /\ ~TimedOut /\ flag["status"] # "late"
          /\ Return(Maint)
          /\ UNCHANGED <<proc, flags>>
    /\ UNCHANGED <<helper, active>>

(* Mutant: stop does not look whether there is anything to stop.           *)
AlwaysAttached == TRUE

Attached == proc # None

Stop(t) ==
    /\ At(t, "stop") /\ lifecycle = None
    /\ proc' = None
    /\ at' = [at EXCEPT ![t] = proc]
    /\ Goto(t, IF Attached THEN "kill" ELSE "idle")
    /\ UNCHANGED <<helper, active, flags, lifecycle, why>>

(* _stop_process: close its stdin ...                                      *)
Kill(t) ==
    /\ At(t, "kill")
    /\ helper' = [helper EXCEPT ![at[t]] = IF Alive(at[t]) THEN "closing" ELSE "closed"]
    /\ Goto(t, "reap")
    /\ UNCHANGED <<proc, active, flags, lifecycle, at, why>>

(* ... and wait until it is gone, or kill it.  maintain goes on to start.  *)
Reap(t) ==
    /\ At(t, "reap")
    /\ helper' = [helper EXCEPT ![at[t]] = "closed"]
    /\ \/ /\ lifecycle = t
          /\ Goto(t, "start")
          /\ at' = [at EXCEPT ![t] = None]
          /\ UNCHANGED <<lifecycle, why>>
       \/ lifecycle # t /\ Return(t)
    /\ UNCHANGED <<proc, active, flags>>

-----------------------------------------------------------------------------
(* refresh, request_status and _request_threads                            *)

(* refresh reads self._process with no lock ...                            *)
EnterRefresh(t) ==
    /\ At(t, "refresh")
    /\ \/ ~Alive(proc) /\ Goto(t, "start") /\ UNCHANGED at
       \/ Alive(proc) /\ Goto(t, "load") /\ at' = [at EXCEPT ![t] = proc]
    /\ UNCHANGED <<helper, proc, active, flags, lifecycle, why>>

(* ... and looks again after the raw events are loaded.                    *)
Loaded(t) ==
    /\ At(t, "load")
    /\ \/ /\ proc = at[t] /\ Alive(proc)
          /\ Goto(t, "threads")
          /\ UNCHANGED <<lifecycle, at, why>>
       \/ ~(proc = at[t] /\ Alive(proc)) /\ Return(t)
    /\ UNCHANGED <<helper, proc, active, flags>>

(* Nothing is asked during a startup; while a thread list is under way,    *)
(* another one is remembered.                                              *)
RequestThreads(t) ==
    /\ At(t, "threads")
    /\ \/ /\ Alive(proc) /\ ~gate /\ flag["threads"] = "none"
          /\ flag' = [flag EXCEPT !["threads"] = "waiting"]
          /\ why' = [why EXCEPT ![t] = "refresh"]
          /\ Goto(t, "ask")
          /\ UNCHANGED <<dirty, lifecycle, at>>
       \/ /\ Alive(proc) /\ ~gate /\ flag["threads"] # "none"
          /\ dirty' = TRUE
          /\ Return(t)
          /\ UNCHANGED flag
       \/ /\ ~Alive(proc) \/ gate
          /\ Return(t)
          /\ UNCHANGED <<flag, dirty>>
    /\ UNCHANGED <<helper, proc, active, gate, pending>>

RequestStatus(t) ==
    /\ At(t, "status")
    /\ \/ /\ flag["status"] = "none"
          /\ flag' = [flag EXCEPT !["status"] = "waiting"]
          /\ Goto(t, "ask")
          /\ UNCHANGED <<lifecycle, at, why>>
       \/ flag["status"] # "none" /\ Return(t) /\ UNCHANGED flag
    /\ UNCHANGED <<helper, proc, active, dirty, gate, pending>>

-----------------------------------------------------------------------------
(* request                                                                 *)

Ask(t) ==
    /\ At(t, "ask")
    /\ \/ Alive(proc) /\ at' = [at EXCEPT ![t] = proc] /\ Goto(t, "write")
       \/ ~Alive(proc) /\ Goto(t, "failed") /\ UNCHANGED at
    /\ UNCHANGED <<helper, proc, active, flags, lifecycle, why>>

(* The request is entered and written.                                     *)
Write(t) ==
    /\ At(t, "write") /\ helper[at[t]] = "up"
    /\ pending' = [pending EXCEPT ![at[t]][Method(why[t])] = @ + 1]
    /\ \/ /\ why[t] = "initial"
          /\ Goto(t, "open")
          /\ UNCHANGED <<lifecycle, at, why>>
       \/ why[t] # "initial" /\ Return(t)
    /\ UNCHANGED <<helper, proc, active, flag, dirty, gate>>

(* The pipe is broken.                                                     *)
WriteFails(t) ==
    /\ At(t, "write") /\ helper[at[t]] = "dead"
    /\ Goto(t, "detach")
    /\ UNCHANGED <<helper, proc, active, flags, lifecycle, at, why>>

(* stdin was closed by whoever stops this helper: a ValueError that nobody *)
(* in the adapter catches ends the request, or the reader.  Its entry in   *)
(* _pending stays behind; no answer to it can come.                        *)
WriteRaises(t) ==
    /\ At(t, "write") /\ helper[at[t]] \in {"closing", "closed"}
    /\ Goto(t, IF t \in Helpers THEN "ending" ELSE "idle")
    /\ at' = [at EXCEPT ![t] = None]
    /\ why' = [why EXCEPT ![t] = "none"]
    /\ lifecycle' = Release(t)
    /\ UNCHANGED <<helper, proc, active, flags>>

(* Mutant: a failed write detaches whatever helper is attached.            *)
AnyHelper(t) == proc # None

SameHelper(t) == proc = at[t]

(* _detach_failed_process: only the very helper whose pipe failed.         *)
Detach(t) ==
    /\ At(t, "detach") /\ Available(t)
    /\ \/ /\ SameHelper(t)
          /\ proc' = None
          /\ Forget(FALSE)
          /\ helper' = [helper EXCEPT ![at[t]] = "closed"]
       \/ ~SameHelper(t) /\ UNCHANGED <<helper, proc, flags>>
    /\ Goto(t, "failed")
    /\ UNCHANGED <<active, lifecycle, at, why>>

(* The caller takes its flag back, whoever owns it by now.                 *)
RequestFailed(t) ==
    /\ At(t, "failed")
    /\ flag' = [flag EXCEPT ![Method(why[t])] = "none"]
    /\ gate' = (gate /\ why[t] # "initial")
    /\ Return(t)
    /\ UNCHANGED <<helper, proc, active, dirty, pending>>

-----------------------------------------------------------------------------
(* The reader of helper h                                                  *)

(* The thread list arrives: fetch it again if that was asked meanwhile.    *)
ThreadsReply(h) ==
    /\ At(h, "reading") /\ pending[h]["threads"] > 0
    /\ pending' = [pending EXCEPT ![h]["threads"] = @ - 1]
    /\ flag' = [flag EXCEPT !["threads"] = "none"]
    /\ dirty' = FALSE
    /\ Goto(h, IF dirty THEN "refresh" ELSE "reading")
    /\ UNCHANGED <<helper, proc, active, gate, lifecycle, at, why>>

(* The first status continues the startup.                                 *)
StatusReply(h) ==
    /\ At(h, "reading") /\ pending[h]["status"] > 0
    /\ pending' = [pending EXCEPT ![h]["status"] = @ - 1]
    /\ flag' = [flag EXCEPT !["status"] = "none"]
    /\ \/ /\ gate /\ proc # None
          /\ at' = [at EXCEPT ![h] = proc]
          /\ Goto(h, "initial")
       \/ ~(gate /\ proc # None) /\ UNCHANGED <<pc, at>>
    /\ UNCHANGED <<helper, proc, active, dirty, gate, lifecycle, why>>

(* _request_initial_threads: the lock and the gate are kept until the      *)
(* request is written.                                                     *)
Continue(h) ==
    /\ At(h, "initial") /\ lifecycle = None
    /\ \/ /\ proc = at[h] /\ Alive(proc) /\ gate
          /\ flag' = [flag EXCEPT !["threads"] = "waiting"]
          /\ why' = [why EXCEPT ![h] = "initial"]
          /\ Goto(h, "ask")
          /\ lifecycle' = h
          /\ UNCHANGED at
       \/ /\ ~(proc = at[h] /\ Alive(proc) /\ gate)
          /\ Return(h)
          /\ UNCHANGED flag
    /\ UNCHANGED <<helper, proc, active, dirty, gate, pending>>

OpenGate(h) ==
    /\ At(h, "open")
    /\ gate' = FALSE
    /\ Return(h)
    /\ UNCHANGED <<helper, proc, active, flag, dirty, pending>>

(* A line beyond the size limit can only be a thread list.                 *)
Oversized(h) ==
    /\ At(h, "reading")
    /\ flag' = [flag EXCEPT !["threads"] = "none"]
    /\ pending' = [g \in Helpers |-> [pending[g] EXCEPT !["threads"] = 0]]
    /\ UNCHANGED <<helper, proc, active, dirty, gate, lifecycle, thread>>

HistoryChanged(h) ==
    /\ At(h, "reading")
    /\ Goto(h, "refresh")
    /\ UNCHANGED <<helper, proc, active, flags, lifecycle, at, why>>

StatusChanged(h) ==
    /\ At(h, "reading")
    /\ why' = [why EXCEPT ![h] = "changed"]
    /\ Goto(h, "status")
    /\ UNCHANGED <<helper, proc, active, flags, lifecycle, at>>

(* The stream ends, or cannot be decoded ...                               *)
EndOfFile(h) ==
    /\ At(h, "reading") /\ ~Alive(h)
    /\ Goto(h, "ending")
    /\ UNCHANGED <<helper, proc, active, flags, lifecycle, at, why>>

GiveUp(h) ==
    /\ At(h, "reading") /\ Alive(h)
    /\ Goto(h, "ending")
    /\ UNCHANGED <<helper, proc, active, flags, lifecycle, at, why>>

(* Mutant: a helper whose output cannot be read is left running.           *)
LeftRunning(h) == helper

Terminated(h) == [helper EXCEPT ![h] = "dead"]

(* ... and if the helper is still attached, it is detached and killed.     *)
Ending(h) ==
    /\ At(h, "ending") /\ lifecycle = None
    /\ \/ /\ proc = h
          /\ proc' = None
          /\ Forget(FALSE)
          /\ helper' = Terminated(h)
       \/ proc # h /\ UNCHANGED <<helper, proc, flags>>
    /\ Goto(h, "none")
    /\ UNCHANGED <<active, lifecycle, at, why>>

-----------------------------------------------------------------------------
(* The helper and the clock                                                *)

HelperDies(h) ==
    /\ helper[h] = "up"
    /\ helper' = [helper EXCEPT ![h] = "dead"]
    /\ UNCHANGED <<proc, active, flags, lifecycle, thread>>

TimePasses(m) ==
    /\ flag[m] = "waiting"
    /\ flag' = [flag EXCEPT ![m] = "late"]
    /\ UNCHANGED <<helper, proc, active, dirty, gate, pending, lifecycle, thread>>

-----------------------------------------------------------------------------
Drivers == {Main, Maint}

(* JsonBridge.start turns the source on if it is wanted.                   *)
Init ==
    /\ helper = [h \in Helpers |-> "closed"]
    /\ proc = None
    /\ active \in BOOLEAN
    /\ flag = [m \in Methods |-> "none"]
    /\ dirty = FALSE /\ gate = FALSE
    /\ pending = NothingPending
    /\ lifecycle = None
    /\ pc = [t \in Threads |-> IF t \in Helpers THEN "none"
                            ELSE IF t = Main /\ active THEN "start" ELSE "idle"]
    /\ at = [t \in Threads |-> None]
    /\ why = [t \in Threads |-> "none"]
    /\ events = 0

(* What the user, the provider and the helpers may do at any time.         *)
Event ==
    \/ \E t \in Drivers : Enable(t) \/ Disable(t)
    \/ Refresh
    \/ \E h \in Helpers :
          Oversized(h) \/ HistoryChanged(h) \/ StatusChanged(h) \/ GiveUp(h) \/ HelperDies(h)

Starting(t) == (\E h \in Helpers : Spawn(t, h)) \/ SpawnFails(t) \/ Pass(t)

Requesting(t) ==
    \/ EnterRefresh(t) \/ Loaded(t) \/ RequestThreads(t) \/ RequestStatus(t)
    \/ Ask(t) \/ Write(t) \/ WriteFails(t) \/ WriteRaises(t)
    \/ Detach(t) \/ RequestFailed(t)

(* What a thread does of its own.                                          *)
Work(t) ==
    /\ \/ Starting(t) \/ Requesting(t)
       \/ t \in Drivers /\ (Stop(t) \/ Kill(t) \/ Reap(t))
       \/ t = Maint /\ (Tick \/ Maintain)
       \/ t \in Helpers /\ (Continue(t) \/ OpenGate(t) \/ EndOfFile(t) \/ Ending(t))
    /\ UNCHANGED events

Answer(h) == (ThreadsReply(h) \/ StatusReply(h)) /\ UNCHANGED events

Clock(m) == TimePasses(m) /\ UNCHANGED events

Next ==
    \/ events < MaxEvents /\ events' = events + 1 /\ Event
    \/ \E t \in Threads : Work(t)
    \/ \E h \in Helpers : Answer(h)
    \/ \E m \in Methods : Clock(m)

Spec == Init /\ [][Next]_vars

(* The bridge ticks, a thread that can go on does, a waiting thread gets a *)
(* lock that keeps coming free, a reader notices the end of its stream,    *)
(* and time passes.  Nothing is assumed of the helpers or the user.        *)
FairSpec ==
    /\ Spec
    /\ \A t \in Threads : SF_vars(Work(t))
    /\ \A m \in Methods : WF_vars(Clock(m))

-----------------------------------------------------------------------------
(* Properties                                                              *)

(* Every variable keeps its type, and a thread that writes to a helper,    *)
(* detaches it or stops it has one.                                        *)
TypeOK ==
    /\ helper \in [Helpers -> {"up", "dead", "closing", "closed"}]
    /\ proc \in Helpers \cup {None}
    /\ active \in BOOLEAN /\ dirty \in BOOLEAN /\ gate \in BOOLEAN
    /\ flag \in [Methods -> {"none", "waiting", "late"}]
    /\ pending \in [Helpers -> [Methods -> Nat]]
    /\ lifecycle \in Threads \cup {None}
    /\ pc \in [Threads -> Points]
    /\ at \in [Threads -> Helpers \cup {None}]
    /\ why \in [Threads -> Reasons \cup {"none"}]
    /\ events \in 0..MaxEvents
    /\ \A t \in Threads :
          pc[t] \in {"load", "write", "detach", "kill", "reap", "initial"} => at[t] # None

(* No helper process is left running unattended: it is attached, or        *)
(* somebody is stopping it (blueferry.py:135-157, 203-222, 338-357,        *)
(* 386-440, 618-628).                                                      *)
NoOrphanHelper ==
    \A h \in Helpers :
        Alive(h) => \/ proc = h
                    \/ \E t \in Drivers : pc[t] \in {"kill", "reap"} /\ at[t] = h

(* Whoever holds the lifecycle lock never writes to a pipe that somebody   *)
(* else has closed: the uncaught ValueError can end a refresh or a reader, *)
(* but neither the maintenance thread nor a start (blueferry.py:191-194).  *)
LockedWritesSafe ==
    \A t \in Threads :
        (At(t, "write") /\ lifecycle = t) => helper[at[t]] \in {"up", "dead"}

(* The lifecycle lock is held by a thread that goes on and gives it back:  *)
(* it has not returned with the lock, nor does it wait for anybody who     *)
(* waits for the lock.  Entered again by its owner, where a write fails or *)
(* maintain starts a helper, it does not block (blueferry.py:63, 117, 206, *)
(* 262, 300, 418, 619).                                                    *)
OwnerGoesOn ==
    \A t \in Threads : lifecycle = t =>
        /\ pc[t] \in {"start", "kill", "reap", "status", "ask", "write", "detach", "failed",
                      "open"}
        /\ pc[t] \in {"kill", "reap"} => t = Maint

(* A late failure of an old helper never takes down its replacement: a     *)
(* helper that runs is detached by stop, by a time-out, or by its reader   *)
(* (blueferry.py:203-208).                                                 *)
LateFailureHarmless ==
    [][\A h \in Helpers :
          (proc = h /\ proc' # h /\ helper[h] = "up") =>
             \/ \E t \in Drivers : At(t, "stop")
             \/ At(Maint, "maintain") /\ TimedOut
             \/ At(h, "ending")]_vars

(* A stop is never kept waiting for ever, by a slow helper or by two       *)
(* threads that wait for each other (blueferry.py:363-364, 618-628).       *)
StopReturns == \A t \in Drivers : At(t, "stop") ~> At(t, "idle")

(* While the source stays on, no running helper stays in its startup for   *)
(* ever: one that does not answer its first request is replaced            *)
(* (blueferry.py:298).                                                     *)
StartupEnds ==
    \A h \in Helpers : []<>~(active /\ proc = h /\ helper[h] = "up" /\ gate)
=============================================================================
