---------------------------- MODULE WebhookServer ----------------------------
(***************************************************************************)
(* Webhook servers (oma2fa/webhook.py) and the heartbeat file by which     *)
(* other processes know that one serves (oma2fa/store.py).                 *)
(*                                                                         *)
(* A server has a serving thread, a maintenance thread that renews the     *)
(* heartbeat, and whoever calls stop.  In the standalone command           *)
(* (cli.py) the serving thread is the main thread and stops itself after a *)
(* SIGTERM; in a bridge (bridge.py) start and stop run on another thread.  *)
(*                                                                         *)
(* Each operation on the heartbeat file is one step: it works under the    *)
(* store's lock and replaces or removes the whole file.  The clock enters  *)
(* as the heartbeat's age.  A heartbeat names the server that wrote it;    *)
(* _heartbeat_instance is random, so that of a process that has ended is   *)
(* one that no process has ever again.  _maintenance_stop, _serving,       *)
(* _startup_complete and the listening socket follow from where the        *)
(* threads are.  Requests are not in this module.                          *)
(***************************************************************************)
EXTENDS Naturals

CONSTANTS
    Server,     (* processes that run a server, one at a time each         *)
    Bridged,    (* those that are bridges                                  *)
    Former,     (* wrote the heartbeat of a process that has ended         *)
    Nobody,     (* wrote the heartbeat that is not there                   *)
    MaxAge      (* WEBHOOK_HEARTBEAT_MAX_AGE_SECONDS, in ticks             *)

ASSUME ServersAssumption ==
    /\ Bridged \subseteq Server
    /\ Former \notin Server /\ Nobody \notin Server /\ Former # Nobody
    /\ MaxAge \in Nat

VARIABLES
    heartbeat,   (* the file: who wrote it, and its age                    *)
    storeOk,     (* the runtime directory can be used                      *)
    serving,     (* where the serving thread is                            *)
    owner,       (* where the caller of start and stop is, or how the      *)
                 (* process ended                                          *)
    maintenance, (* where the maintenance thread is                        *)
    excuse       (* what went wrong: "error" makes the exit code non-zero, *)
                 (* "late" and "unusable" kept stop from clearing          *)

vars == <<heartbeat, storeOk, serving, owner, maintenance, excuse>>

-----------------------------------------------------------------------------
(* Control points.  "enter": _serving is set, and socketserver's loop is   *)
(* still to be entered; "listen": in the loop.  "clear" and "abort": in    *)
(* the finally of serve_forever, the latter without having been in the     *)
(* loop.  A process "exited" by itself, or "crashed": with an error, or    *)
(* killed.                                                                 *)
ServingPoints == {"none", "load", "publish", "begin", "enter", "listen",
                  "clear", "ended", "abort", "aborted"}

StopPoints == {"check", "shutdown", "close", "joinServing", "joinMaintenance",
               "clear", "stopped"}

Ends == {"exited", "crashed"}

OwnerPoints == {"none", "bind", "start", "up"} \cup Ends \cup StopPoints

Missing == [by |-> Nobody, age |-> 0]

Alive(s) == owner[s] \notin Ends

Ended(s) == serving[s] \in {"none", "ended", "aborted"}

(* _serving.is_set()                                                       *)
IsServing(s) == serving[s] \in {"enter", "listen"}

(* _maintenance_stop.is_set(), while the process lives                     *)
Stopping(s) ==
    \/ owner[s] \in StopPoints
    \/ serving[s] \in {"clear", "ended", "abort", "aborted"}

(* The listening socket, once bound, is open until stop closes it.         *)
Open(s) == owner[s] \in {"none", "start", "up", "check", "shutdown", "close"}

Serve(s, point) == serving' = [serving EXCEPT ![s] = point]
Own(s, point) == owner' = [owner EXCEPT ![s] = point]
Excuse(s, what) == excuse' = [excuse EXCEPT ![s] = @ \cup what]

-----------------------------------------------------------------------------
(* The heartbeat file                                                      *)

(* publish_webhook_heartbeat raises StoreError when the store is unusable. *)
PublishHeartbeat(s) ==
    heartbeat' = IF storeOk THEN [by |-> s, age |-> 0] ELSE heartbeat

(* Mutant: whoever stops removes the file.                                 *)
ClearAnyHeartbeat(s) ==
    heartbeat' = IF storeOk THEN Missing ELSE heartbeat

(* clear_webhook_heartbeat                                                 *)
ClearHeartbeat(s) ==
    heartbeat' = IF storeOk /\ heartbeat.by = s THEN Missing ELSE heartbeat

(* Mutant: an old heartbeat counts.                                        *)
AgelessHeartbeatState ==
    IF ~storeOk THEN "unavailable"
    ELSE IF heartbeat = Missing THEN "missing" ELSE "fresh"

(* webhook_heartbeat_state, and the StoreError it raises                   *)
HeartbeatState ==
    IF ~storeOk THEN "unavailable"
    ELSE IF heartbeat = Missing THEN "missing"
    ELSE IF heartbeat.age > MaxAge THEN "stale" ELSE "fresh"

(* Five seconds pass: all that matters of the clock.                       *)
TimePasses ==
    /\ heartbeat # Missing /\ heartbeat.age <= MaxAge
    /\ heartbeat' = [heartbeat EXCEPT !.age = @ + 1]
    /\ UNCHANGED <<storeOk, serving, owner, maintenance, excuse>>

(* The runtime directory becomes unusable, or usable again.                *)
StoreTurns ==
    /\ storeOk' = ~storeOk
    /\ UNCHANGED <<heartbeat, serving, owner, maintenance, excuse>>

-----------------------------------------------------------------------------
(* Start                                                                   *)

(* The process starts and constructs a WebhookServer.                      *)
Launch(s) ==
    /\ ~Alive(s)
    /\ IF s \in Bridged THEN Own(s, "bind") /\ UNCHANGED serving
                        ELSE Own(s, "none") /\ Serve(s, "load")
    /\ UNCHANGED <<heartbeat, storeOk, maintenance, excuse>>

(* The token is loaded and the address bound; a bridge starts the serving  *)
(* thread (WebhookServer.start).                                           *)
Bind(s) ==
    /\ serving[s] = "load" \/ owner[s] = "bind"
    /\ Serve(s, "publish")
    /\ owner' = [owner EXCEPT ![s] = IF s \in Bridged THEN "start" ELSE @]
    /\ UNCHANGED <<heartbeat, storeOk, maintenance, excuse>>

(* WebhookConfigError or OSError: the command ends with an error, the      *)
(* bridge goes on without a server.                                        *)
BindFails(s) ==
    /\ serving[s] = "load" \/ owner[s] = "bind"
    /\ Serve(s, "none")
    /\ Own(s, IF s \in Bridged THEN "stopped" ELSE "crashed")
    /\ UNCHANGED <<heartbeat, storeOk, maintenance, excuse>>

(* serve_forever publishes before it serves, and gives up if it cannot.    *)
Publish(s) ==
    /\ serving[s] = "publish"
    /\ PublishHeartbeat(s)
    /\ Serve(s, IF storeOk THEN "begin" ELSE "abort")
    /\ Excuse(s, IF storeOk \/ s \in Bridged THEN {} ELSE {"error"})
    /\ UNCHANGED <<storeOk, owner, maintenance>>

(* _start_maintenance, _serving.set and _startup_complete.set              *)
Begin(s) ==
    /\ serving[s] = "begin" /\ Serve(s, "enter")
    /\ maintenance' = [maintenance EXCEPT ![s] = "wait"]
    /\ UNCHANGED <<heartbeat, storeOk, owner, excuse>>

(* Into the loop, which fails on a closed socket.  A shutdown that was     *)
(* asked for before is noticed in the loop (LeaveLoop).                    *)
EnterLoop(s) ==
    /\ serving[s] = "enter" /\ Serve(s, IF Open(s) THEN "listen" ELSE "abort")
    /\ UNCHANGED <<heartbeat, storeOk, owner, maintenance, excuse>>

(* start returns once _serving is set.                                     *)
Started(s) ==
    /\ owner[s] = "start" /\ IsServing(s)
    /\ Own(s, "up")
    /\ UNCHANGED <<heartbeat, storeOk, serving, maintenance, excuse>>

(* start raises when serve_forever gave up or took longer than a second to *)
(* set _startup_complete; _start_webhook stops the candidate.              *)
StartFails(s) ==
    /\ owner[s] = "start" /\ serving[s] # "listen"
    /\ Own(s, "check")
    /\ UNCHANGED <<heartbeat, storeOk, serving, maintenance, excuse>>

-----------------------------------------------------------------------------
(* Maintenance                                                             *)

MaintenanceAt(s, from, to) ==
    maintenance[s] = from /\ maintenance' = [maintenance EXCEPT ![s] = to]

(* Five seconds went by without a stop.                                    *)
Due(s) ==
    /\ MaintenanceAt(s, "wait", "due") /\ ~Stopping(s)
    /\ UNCHANGED <<heartbeat, storeOk, serving, owner, excuse>>

(* Mutant: a StoreError ends the thread.                                   *)
FragileMaintain(s) ==
    /\ MaintenanceAt(s, "due", IF storeOk THEN "wait" ELSE "none")
    /\ PublishHeartbeat(s)
    /\ UNCHANGED <<storeOk, serving, owner, excuse>>

(* It renews the heartbeat and prunes the store, and survives a failure.   *)
Maintain(s) ==
    /\ MaintenanceAt(s, "due", "wait")
    /\ PublishHeartbeat(s)
    /\ UNCHANGED <<storeOk, serving, owner, excuse>>

MaintenanceEnds(s) ==
    /\ MaintenanceAt(s, "wait", "none") /\ Stopping(s)
    /\ UNCHANGED <<heartbeat, storeOk, serving, owner, excuse>>

-----------------------------------------------------------------------------
(* Stop                                                                    *)

(* SIGTERM to the command.  Before the handler is there it just ends.      *)
Interrupt(s) ==
    /\ s \notin Bridged
    /\ \/ serving[s] = "load" /\ Serve(s, "none") /\ Own(s, "exited")
       \/ serving[s] \in {"publish", "begin", "enter"} /\ Serve(s, "abort") /\ UNCHANGED owner
       \/ serving[s] = "listen" /\ Serve(s, "clear") /\ UNCHANGED owner
    /\ UNCHANGED <<heartbeat, storeOk, maintenance, excuse>>

(* JsonBridge.close stops its server.                                      *)
Close(s) ==
    /\ owner[s] = "up" /\ Own(s, "check")
    /\ UNCHANGED <<heartbeat, storeOk, serving, maintenance, excuse>>

(* The finally of serve_forever.  The command goes on to stop, where       *)
(* _serving is no longer set.                                              *)
LeaveServing(s) ==
    /\ serving[s] \in {"clear", "abort"}
    /\ ClearHeartbeat(s)
    /\ Serve(s, IF serving[s] = "clear" THEN "ended" ELSE "aborted")
    /\ owner' = [owner EXCEPT ![s] = IF s \in Bridged THEN @ ELSE "close"]
    /\ UNCHANGED <<storeOk, maintenance, excuse>>

(* Mutant: stop waits for a loop that may never have run.                  *)
AlwaysShutDown(s) ==
    /\ owner[s] = "check" /\ Own(s, "shutdown")
    /\ UNCHANGED <<heartbeat, storeOk, serving, maintenance, excuse>>

(* stop: shut the loop down only if _serving is set.                       *)
CheckServing(s) ==
    /\ owner[s] = "check"
    /\ Own(s, IF IsServing(s) THEN "shutdown" ELSE "close")
    /\ UNCHANGED <<heartbeat, storeOk, serving, maintenance, excuse>>

(* socketserver.shutdown asks the loop to end ...                          *)
LeaveLoop(s) ==
    /\ owner[s] = "shutdown" /\ serving[s] = "listen"
    /\ Serve(s, "clear")
    /\ UNCHANGED <<heartbeat, storeOk, owner, maintenance, excuse>>

(* ... and returns when it has.                                            *)
ShutDown(s) ==
    /\ owner[s] = "shutdown" /\ serving[s] \in {"clear", "ended"}
    /\ Own(s, "close")
    /\ UNCHANGED <<heartbeat, storeOk, serving, maintenance, excuse>>

ServerClose(s) ==
    /\ owner[s] = "close" /\ Own(s, "joinServing")
    /\ UNCHANGED <<heartbeat, storeOk, serving, maintenance, excuse>>

(* Each join ends with the thread, or after two seconds.                   *)
JoinServing(s) ==
    /\ owner[s] = "joinServing" /\ Own(s, "joinMaintenance")
    /\ Excuse(s, IF Ended(s) THEN {} ELSE {"late"})
    /\ UNCHANGED <<heartbeat, storeOk, serving, maintenance>>

JoinMaintenance(s) ==
    /\ owner[s] = "joinMaintenance" /\ Own(s, "clear")
    /\ Excuse(s, IF maintenance[s] = "none" THEN {} ELSE {"late"})
    /\ UNCHANGED <<heartbeat, storeOk, serving, maintenance>>

(* Mutant: the finally of serve_forever has cleared the file already.      *)
StopWithoutClearing(s) ==
    /\ owner[s] = "clear" /\ Own(s, "stopped")
    /\ UNCHANGED <<heartbeat, storeOk, serving, maintenance, excuse>>

(* stop clears once more, for the maintenance thread may have published    *)
(* since.                                                                  *)
StopClears(s) ==
    /\ owner[s] = "clear" /\ Own(s, "stopped")
    /\ ClearHeartbeat(s)
    /\ Excuse(s, IF storeOk THEN {} ELSE {"unusable"})
    /\ UNCHANGED <<storeOk, serving, maintenance>>

(* Mutant: the maintenance thread outlives the process.                    *)
DieBelatedly(s, how) ==
    /\ Own(s, how)
    /\ serving' = [serving EXCEPT ![s] = "none"]
    /\ excuse' = [excuse EXCEPT ![s] = {}]
    /\ heartbeat' = IF heartbeat.by = s THEN [heartbeat EXCEPT !.by = Former] ELSE heartbeat
    /\ UNCHANGED <<storeOk, maintenance>>

Die(s, how) ==
    /\ Own(s, how)
    /\ serving' = [serving EXCEPT ![s] = "none"]
    /\ maintenance' = [maintenance EXCEPT ![s] = "none"]
    /\ excuse' = [excuse EXCEPT ![s] = {}]
    /\ heartbeat' = IF heartbeat.by = s THEN [heartbeat EXCEPT !.by = Former] ELSE heartbeat
    /\ UNCHANGED storeOk

(* The process ends, and its daemon threads with it.  The command does so  *)
(* when it has stopped, a bridge without a server whenever it is closed.   *)
Exit(s) ==
    /\ owner[s] = "stopped"
    /\ Die(s, IF "error" \in excuse[s] THEN "crashed" ELSE "exited")

(* SIGKILL, or a crash                                                     *)
Kill(s) == Alive(s) /\ Die(s, "crashed")

-----------------------------------------------------------------------------
Init ==
    /\ heartbeat = Missing
    /\ storeOk = TRUE
    /\ serving = [s \in Server |-> "none"]
    /\ owner = [s \in Server |-> "exited"]
    /\ maintenance = [s \in Server |-> "none"]
    /\ excuse = [s \in Server |-> {}]

ServingThread(s) ==
    \/ Bind(s) \/ BindFails(s) \/ Publish(s) \/ Begin(s) \/ EnterLoop(s)
    \/ LeaveServing(s) \/ LeaveLoop(s)

MaintenanceThread(s) == Due(s) \/ Maintain(s) \/ MaintenanceEnds(s)

StoppingThread(s) ==
    \/ Started(s) \/ StartFails(s) \/ CheckServing(s) \/ ShutDown(s) \/ ServerClose(s)
    \/ JoinServing(s) \/ JoinMaintenance(s) \/ StopClears(s)

(* Users and systemd start and end the processes.                          *)
Next ==
    \/ \E s \in Server :
          \/ ServingThread(s) \/ MaintenanceThread(s) \/ StoppingThread(s)
          \/ Launch(s) \/ Interrupt(s) \/ Close(s) \/ Exit(s) \/ Kill(s)
    \/ TimePasses
    \/ StoreTurns

Spec == Init /\ [][Next]_vars

(* Each thread goes on as long as it can.  Nobody has to start or end a    *)
(* server, and the store need not become usable again.                     *)
FairSpec ==
    /\ Spec
    /\ \A s \in Server :
          WF_vars(ServingThread(s)) /\ WF_vars(MaintenanceThread(s)) /\ WF_vars(StoppingThread(s))
    /\ WF_vars(TimePasses)

-----------------------------------------------------------------------------
(* Properties                                                              *)

(* Every variable keeps its type, and no thread outlives its process.      *)
TypeOK ==
    /\ heartbeat \in [by : Server \cup {Former, Nobody}, age : 0..MaxAge + 1]
    /\ storeOk \in BOOLEAN
    /\ serving \in [Server -> ServingPoints]
    /\ owner \in [Server -> OwnerPoints]
    /\ maintenance \in [Server -> {"none", "wait", "due"}]
    /\ excuse \in [Server -> SUBSET {"error", "late", "unusable"}]
    /\ \A s \in Server : ~Alive(s) => serving[s] = "none" /\ maintenance[s] = "none"

(* A server that has been stopped is not taken to be running: its          *)
(* heartbeat is gone although its maintenance thread may have published    *)
(* while it stopped, unless a join timed out or the store was unusable     *)
(* (webhook.py:380-391, 412-424).                                          *)
StoppedLeavesNoHeartbeat ==
    \A s \in Server :
        owner[s] = "stopped" /\ excuse[s] \cap {"late", "unusable"} = {} => heartbeat.by # s

(* stop waits in socketserver's shutdown only for a serving thread that is *)
(* about to enter the loop, in it, or past it: only the end of the loop    *)
(* wakes the waiter, so a thread that has yet to publish, or that gave up  *)
(* or was cut short before the loop, would leave stop blocked.  The loop   *)
(* may be entered after stop has looked at _serving and asked it to end    *)
(* (webhook.py:380-391, 412-415).                                          *)
ShutdownAwaitsLoop ==
    \A s \in Server :
        owner[s] = "shutdown" => serving[s] \in {"enter", "listen", "clear", "ended"}

(* A server that serves and is not asked to stop has a thread that renews  *)
(* its heartbeat, whatever the store has refused (webhook.py:364-371,      *)
(* 403-410).                                                               *)
ServingIsRenewed ==
    \A s \in Server : IsServing(s) /\ ~Stopping(s) => maintenance[s] # "none"

(* A heartbeat is removed only on behalf of the server that wrote it, when *)
(* that one stops: never that of the server that replaced it               *)
(* (store.py:494-513).                                                     *)
OwnHeartbeatOnly ==
    [][(heartbeat # Missing /\ heartbeat' = Missing) =>
          \E s \in Server : heartbeat.by = s /\ Stopping(s)]_vars

(* When every server has died, however it died, the heartbeat does not     *)
(* make one look alive for good (webhook.py:373-378, store.py:470-492).    *)
DeadLooksDead ==
    <>[](\A s \in Server : ~Alive(s)) => <>[](HeartbeatState # "fresh")

(* A server that goes on serving is seen again and again: neither an       *)
(* unusable store nor another server's stop ends its heartbeat for good    *)
(* (webhook.py:364-371, 403-410).                                          *)
KeepsPublishing ==
    \A s \in Server :
        <>[](serving[s] = "listen" /\ Open(s) /\ storeOk) => []<>(HeartbeatState = "fresh")

(* stop never waits for a loop that will not end (webhook.py:412-415).     *)
StopReturns ==
    \A s \in Server : owner[s] \in {"check", "shutdown"} ~> owner[s] \notin {"check", "shutdown"}
=============================================================================
