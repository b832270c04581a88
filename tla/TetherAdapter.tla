----------------------------- MODULE TetherAdapter -----------------------------
(***************************************************************************)
(* The tether transport (oma2fa/tether.py): one socket to tetherd, shared  *)
(* by the bridge's dispatch thread (start, refresh, stop), its maintenance *)
(* thread (maintain) and one reader thread per connection.                 *)
(*                                                                         *)
(* _lifecycle_lock guards self._socket; _write_lock serialises sendall.    *)
(* _send keeps _write_lock while a failed send runs _drop, which takes     *)
(* _lifecycle_lock; start and maintain hold _lifecycle_lock while they     *)
(* _send.  _state_lock is a leaf: what it guards is one step.              *)
(*                                                                         *)
(* A connection is a slot, reused once it is closed, its reader has        *)
(* returned and nobody refers to it: more slots, more connections that can *)
(* linger.  Messages and their ingestion are RuntimeStore's business, and  *)
(* status reports, which only take locks no adapter step waits under, are  *)
(* left out.                                                               *)
(***************************************************************************)
EXTENDS Integers

CONSTANTS
    Main,    (* the thread that runs JsonBridge.dispatch                   *)
    Maint,   (* the thread that runs JsonBridge._maintain                  *)
    Conns,   (* connection slots; a slot also names its reader thread      *)
    None     (* no connection, no lock owner                               *)

Threads == {Main, Maint} \cup Conns

ASSUME ThreadsAssumption ==
    /\ Main # Maint
    /\ Main \notin Conns /\ Maint \notin Conns
    /\ None \notin Threads

VARIABLES
    daemon,      (* tetherd: "absent" (not installed), "down" or "up"      *)
    link,        (* slot -> "up", "broken" by the peer, or "closed" by us  *)
    sock,        (* self._socket                                           *)
    stopping,    (* self._stopping                                         *)
    active,      (* JsonBridge._active["tether"]                           *)
    mapOpen,     (* self._map_open is not False                            *)
    backoff,     (* self._retry_at lies in the future                      *)
    refreshDue,  (* SAFETY_REFRESH_SECONDS have passed since the last one  *)
    lifecycle,   (* owner of _lifecycle_lock                               *)
    writer,      (* owner of _write_lock                                   *)
    pc,          (* where each thread is                                   *)
    target       (* the connection a thread sends to, drops or closes      *)

timing == <<mapOpen, backoff, refreshDue>>
locks == <<lifecycle, writer>>
vars == <<daemon, link, sock, stopping, active, timing, locks, pc, target>>

-----------------------------------------------------------------------------
(* Control points.  "start", "maintain", "stop" and "drop" wait for        *)
(* _lifecycle_lock, "subscribe" and "list" for _write_lock; "pick" reads   *)
(* self._socket in _send; "close" and "closeQuiet" close the target, the   *)
(* latter because the source is being stopped.                             *)
Points == {"idle", "start", "maintain", "stop", "pick", "subscribe", "list",
           "drop", "close", "closeQuiet", "reading", "none"}
Sending == {"subscribe", "list"}
Closing == {"close", "closeQuiet"}

At(t, l) == pc[t] = l
Goto(t, l) == pc' = [pc EXCEPT ![t] = l]

(* A reader that drops a connection without holding _write_lock is on its  *)
(* way out of _read_loop.                                                  *)
Leaving(t) == t \in Conns /\ writer # t
AfterDrop(t) == IF Leaving(t) THEN "none" ELSE IF t \in Conns THEN "reading" ELSE "idle"
AfterSend(t) == IF t \in Conns THEN "reading" ELSE "idle"

Release(lock, t) == IF lock = t THEN None ELSE lock

(* Leave start, maintain, refresh, stop or an event handler.               *)
Return(t, where) ==
    /\ Goto(t, where)
    /\ target' = [target EXCEPT ![t] = None]
    /\ lifecycle' = Release(lifecycle, t)
    /\ writer' = Release(writer, t)

(* Mutant: running is always false.                                        *)
NeverRunning == FALSE

Running == sock # None

Unused(c) == link[c] = "closed" /\ At(c, "none") /\ \A t \in Threads : target[t] # c

-----------------------------------------------------------------------------
(* JsonBridge, on its dispatch and its maintenance thread.  Both apply     *)
(* source settings; _active is read and written with no lock.              *)

Enable(t) ==
    /\ At(t, "idle") /\ ~active
    /\ active' = TRUE
    /\ Goto(t, "start")
    /\ UNCHANGED <<daemon, link, sock, stopping, timing, locks, target>>

Disable(t) ==
    /\ At(t, "idle") /\ active
    /\ active' = FALSE
    /\ Goto(t, "stop")
    /\ UNCHANGED <<daemon, link, sock, stopping, timing, locks, target>>

(* The "refresh" request also marks the source active, if it is wanted:    *)
(* SourceControl keeps _desired, here it may be either.                    *)
Refresh ==
    /\ At(Main, "idle")
    /\ active' = TRUE
    /\ Goto(Main, IF Running THEN "pick" ELSE "start")
    /\ refreshDue' = (refreshDue /\ ~Running)
    /\ UNCHANGED <<daemon, link, sock, stopping, mapOpen, backoff, locks, target>>

Tick ==
    /\ At(Maint, "idle") /\ active
    /\ Goto(Maint, "maintain")
    /\ UNCHANGED <<daemon, link, sock, stopping, active, timing, locks, target>>

-----------------------------------------------------------------------------
(* start, maintain and stop, under _lifecycle_lock                         *)

(* start when no connection is attached: connect or back off, then keep    *)
(* the lock while subscribing and asking for the thread list.              *)
Connect(t) ==
    /\ stopping' = FALSE
    /\ \/ /\ daemon = "down"
          /\ backoff' = TRUE
          /\ Goto(t, "idle")
          /\ UNCHANGED <<link, sock, mapOpen, refreshDue, lifecycle, target>>
       \/ /\ daemon = "up"
          /\ \E c \in Conns :
                /\ Unused(c)
                /\ link' = [link EXCEPT ![c] = "up"]
                /\ sock' = c
                /\ pc' = [pc EXCEPT ![t] = "subscribe", ![c] = "reading"]
                /\ target' = [target EXCEPT ![t] = c]
          /\ mapOpen' = TRUE
          /\ backoff' = FALSE
          /\ refreshDue' = FALSE
          /\ lifecycle' = t
    /\ UNCHANGED <<daemon, active, writer>>

(* There is nothing to do: leave without another step.                     *)
Pass(t) ==
    /\ Goto(t, "idle")
    /\ UNCHANGED <<daemon, link, sock, stopping, active, timing, locks, target>>

Start(t) ==
    /\ At(t, "start") /\ lifecycle = None
    /\ \/ daemon # "absent" /\ ~Running /\ Connect(t)
       \/ (daemon = "absent" \/ Running) /\ Pass(t)

(* A dead connection is replaced once its back-off is over, a live one is  *)
(* asked for its thread list when that is due.                             *)
Maintain ==
    /\ At(Maint, "maintain") /\ lifecycle = None
    /\ \/ ~Running /\ ~backoff /\ daemon # "absent" /\ Connect(Maint)
       \/ /\ Running /\ mapOpen /\ refreshDue
          /\ refreshDue' = FALSE
          /\ Goto(Maint, "pick")
          /\ lifecycle' = Maint
          /\ UNCHANGED <<daemon, link, sock, stopping, active, mapOpen, backoff, writer, target>>
       \/ /\ \/ ~Running /\ (backoff \/ daemon = "absent")
             \/ Running /\ ~(mapOpen /\ refreshDue)
          /\ Pass(Maint)

Stop(t) ==
    /\ At(t, "stop") /\ lifecycle = None
    /\ stopping' = TRUE
    /\ sock' = None
    /\ Goto(t, IF Running THEN "closeQuiet" ELSE "idle")
    /\ target' = [target EXCEPT ![t] = sock]
    /\ UNCHANGED <<daemon, link, active, timing, locks>>

-----------------------------------------------------------------------------
(* _send and _drop                                                         *)

(* Mutant: the target is not checked for None.                             *)
PickUnchecked(t) ==
    /\ At(t, "pick")
    /\ target' = [target EXCEPT ![t] = sock]
    /\ Goto(t, "list")
    /\ UNCHANGED <<daemon, link, sock, stopping, active, timing, locks>>

(* _send reads self._socket with no lock.                                  *)
Pick(t) ==
    /\ At(t, "pick")
    /\ \/ /\ Running
          /\ target' = [target EXCEPT ![t] = sock]
          /\ Goto(t, "list")
          /\ UNCHANGED locks
       \/ ~Running /\ Return(t, AfterSend(t))
    /\ UNCHANGED <<daemon, link, sock, stopping, active, timing>>

(* sendall succeeds: start goes on to ask for the thread list, every other *)
(* caller returns.                                                         *)
SendSucceeds(t) ==
    /\ pc[t] \in Sending /\ writer = None
    /\ link[target[t]] = "up"
    /\ \/ At(t, "subscribe") /\ Goto(t, "list") /\ UNCHANGED <<target, locks>>
       \/ At(t, "list") /\ Return(t, AfterSend(t))
    /\ UNCHANGED <<daemon, link, sock, stopping, active, timing>>

(* sendall raises OSError: _drop is called with _write_lock held.          *)
SendFails(t) ==
    /\ pc[t] \in Sending /\ writer = None
    /\ link[target[t]] # "up"
    /\ writer' = t
    /\ Goto(t, "drop")
    /\ UNCHANGED <<daemon, link, sock, stopping, active, timing, lifecycle, target>>

(* Mutant: the identity check of _drop is missing.                         *)
OwnsAnySocket(t) == TRUE

OwnsSocket(t) == sock = target[t]

(* _drop, under _lifecycle_lock (its caller may hold it already): only the *)
(* attached connection is detached; any other one is somebody else's.      *)
Drop(t) ==
    /\ At(t, "drop") /\ lifecycle \in {None, t}
    /\ \/ /\ OwnsSocket(t)
          /\ sock' = None
          /\ Goto(t, IF stopping THEN "closeQuiet" ELSE "close")
          /\ UNCHANGED <<target, locks>>
       \/ ~OwnsSocket(t) /\ Return(t, AfterDrop(t)) /\ UNCHANGED sock
    /\ UNCHANGED <<daemon, link, stopping, active, timing>>

(* ... and after the lock, shut down and close; a connection that was not  *)
(* stopped on purpose is retried after a back-off.                         *)
Close(t) ==
    /\ pc[t] \in Closing
    /\ link' = [link EXCEPT ![target[t]] = "closed"]
    /\ backoff' = (backoff \/ At(t, "close"))
    /\ Return(t, AfterDrop(t))
    /\ UNCHANGED <<daemon, sock, stopping, active, mapOpen, refreshDue>>

-----------------------------------------------------------------------------
(* _read_loop of connection c                                              *)

(* A thread list or an invalidation without content: ask for messages.     *)
(* The request goes to whatever connection is attached by now.             *)
Event(c) ==
    /\ At(c, "reading")
    /\ Goto(c, "pick")
    /\ UNCHANGED <<daemon, link, sock, stopping, active, timing, locks, target>>

(* bt_connection                                                           *)
PhoneEvent(c, open) ==
    /\ At(c, "reading")
    /\ mapOpen' = open
    /\ UNCHANGED <<daemon, link, sock, stopping, active, backoff, refreshDue, locks, pc, target>>

(* End of file or a socket error ...                                       *)
EndOfFile(c) ==
    /\ At(c, "reading") /\ link[c] # "up"
    /\ Goto(c, "drop")
    /\ target' = [target EXCEPT ![c] = c]
    /\ UNCHANGED <<daemon, link, sock, stopping, active, timing, locks>>

(* ... or a line that cannot be decoded or an error in a callback.         *)
GiveUp(c) ==
    /\ At(c, "reading") /\ link[c] = "up"
    /\ Goto(c, "drop")
    /\ target' = [target EXCEPT ![c] = c]
    /\ UNCHANGED <<daemon, link, sock, stopping, active, timing, locks>>

-----------------------------------------------------------------------------
(* tetherd and the clock                                                   *)

DaemonStarts ==
    /\ daemon # "up"
    /\ daemon' = "up"
    /\ UNCHANGED <<link, sock, stopping, active, timing, locks, pc, target>>

DaemonDies(uninstalled) ==
    /\ daemon = "up"
    /\ daemon' = IF uninstalled THEN "absent" ELSE "down"
    /\ link' = [c \in Conns |-> IF link[c] = "up" THEN "broken" ELSE link[c]]
    /\ UNCHANGED <<sock, stopping, active, timing, locks, pc, target>>

BackoffElapses ==
    /\ backoff
    /\ backoff' = FALSE
    /\ UNCHANGED <<daemon, link, sock, stopping, active, mapOpen, refreshDue, locks, pc, target>>

RefreshElapses ==
    /\ ~refreshDue
    /\ refreshDue' = TRUE
    /\ UNCHANGED <<daemon, link, sock, stopping, active, mapOpen, backoff, locks, pc, target>>

-----------------------------------------------------------------------------
Drivers == {Main, Maint}

Init ==
    /\ daemon \in {"absent", "down", "up"}
    /\ link = [c \in Conns |-> "closed"]
    /\ sock = None
    /\ stopping = FALSE
    /\ active = FALSE
    /\ mapOpen = TRUE /\ backoff = FALSE /\ refreshDue = FALSE
    /\ lifecycle = None /\ writer = None
    /\ pc = [t \in Threads |-> IF t \in Conns THEN "none" ELSE "idle"]
    /\ target = [t \in Threads |-> None]

Bridge(t) == Enable(t) \/ Disable(t) \/ Start(t) \/ Stop(t)

Transport(t) == Pick(t) \/ SendSucceeds(t) \/ SendFails(t) \/ Drop(t) \/ Close(t)

Reader(c) ==
    \/ Event(c)
    \/ \E open \in BOOLEAN : PhoneEvent(c, open)
    \/ EndOfFile(c)
    \/ GiveUp(c)

Environment ==
    \/ DaemonStarts
    \/ \E uninstalled \in BOOLEAN : DaemonDies(uninstalled)
    \/ BackoffElapses
    \/ RefreshElapses

Next ==
    \/ \E t \in Drivers : Bridge(t)
    \/ Refresh
    \/ Tick
    \/ Maintain
    \/ \E t \in Threads : Transport(t)
    \/ \E c \in Conns : Reader(c)
    \/ Environment

Spec == Init /\ [][Next]_vars

(* The bridge ticks for as long as it runs, a thread that can go on does,  *)
(* a waiting thread gets a lock that keeps coming free, a reader notices   *)
(* the end of its stream, and time passes.  Nothing is assumed of tetherd  *)
(* or the user.                                                            *)
FairSpec ==
    /\ Spec
    /\ SF_vars(Tick) /\ SF_vars(Maintain)
    /\ \A t \in Drivers : SF_vars(Start(t)) /\ SF_vars(Stop(t))
    /\ \A t \in Threads : SF_vars(Transport(t))
    /\ \A c \in Conns : SF_vars(EndOfFile(c))
    /\ WF_vars(BackoffElapses)

-----------------------------------------------------------------------------
(* Properties                                                              *)

(* Every variable keeps its type, a thread that sends, drops or closes has *)
(* a connection to do it to, and one that does not refers to none          *)
(* (tether.py:208-210).                                                    *)
TypeOK ==
    /\ daemon \in {"absent", "down", "up"}
    /\ link \in [Conns -> {"up", "broken", "closed"}]
    /\ sock \in Conns \cup {None}
    /\ stopping \in BOOLEAN /\ active \in BOOLEAN
    /\ mapOpen \in BOOLEAN /\ backoff \in BOOLEAN /\ refreshDue \in BOOLEAN
    /\ lifecycle \in Drivers \cup {None}
    /\ writer \in Threads \cup {None}
    /\ pc \in [Threads -> Points]
    /\ target \in [Threads -> Conns \cup {None}]
    /\ \A t \in Threads :
          (target[t] # None) <=> (pc[t] \in Sending \cup Closing \cup {"drop"})

Attended(c) ==
    \/ sock = c
    \/ \E t \in Threads : pc[t] \in Closing /\ target[t] = c

(* No connection is ever lost while it is open: whoever detaches one       *)
(* closes it, through any interleaving of stop, start and failing sends    *)
(* (tether.py:220-235, 360-371).                                           *)
NoOrphanConnection == \A c \in Conns : link[c] # "closed" => Attended(c)

(* A late failure of an old connection never takes down the one that       *)
(* replaced it: a working connection is detached only by stop or by its    *)
(* own reader (tether.py:222-223).                                         *)
LateFailureHarmless ==
    [][\A c \in Conns :
          (sock = c /\ sock' # c /\ link[c] = "up") =>
             \/ \E t \in Drivers : At(t, "stop") /\ pc'[t] = "closeQuiet"
             \/ At(c, "drop") /\ pc'[c] \in Closing]_vars

(* While the source stays enabled and tetherd stays up, maintenance finds  *)
(* a dead connection and replaces it (sources.py:19-21).                   *)
DeadHelperRestarted ==
    <>[](active /\ daemon = "up") => []<>(Running /\ link[sock] = "up")
=============================================================================
