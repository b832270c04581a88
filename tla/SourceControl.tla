----------------------------- MODULE SourceControl -----------------------------
(***************************************************************************)
(* Turning message sources on and off (oma2fa/settings.py and the sources  *)
(* part of oma2fa/bridge.py): the bridge's dispatch thread (a toggle in    *)
(* the picker, a refresh, closing), its maintenance thread (tick), and the *)
(* command line, another process that edits the same sources.json.         *)
(*                                                                         *)
(* No lock guards SourceSettings, _desired or _active, so a thread is      *)
(* interrupted wherever it does I/O: between looking at the file's         *)
(* signature, reading, replacing and looking again, and while an adapter   *)
(* starts or stops.  An adapter is a flag here (TetherAdapter has its      *)
(* inside); the values it returns and the status it reports are left out.  *)
(***************************************************************************)
EXTENDS Integers, Sequences

CONSTANTS
    Sources,     (* the adapters that can be switched                      *)
    Order,       (* the order of JsonBridge.adapters, a sequence           *)
    Default,     (* DEFAULT_SOURCE_ENABLED                                 *)
    Pinned,      (* sources pinned by a command line flag of the bridge    *)
    PinnedTo,    (* what they are pinned to                                *)
    StoreFails,  (* can the runtime store raise during a tick?             *)
    MaxToggles,  (* bound: toggles in the picker                           *)
    MaxEdits     (* bound: edits by the command line                       *)

ASSUME SourcesAssumption ==
    /\ Order \in Seq(Sources) /\ Order # <<>>
    /\ Default \in [Sources -> BOOLEAN]
    /\ Pinned \subseteq Sources
    /\ PinnedTo \in [Sources -> BOOLEAN]
    /\ StoreFails \in BOOLEAN
    /\ MaxToggles \in Nat /\ MaxEdits \in Nat

Threads == {"main", "maint"}
Choice == {"on", "off", "unset"}

VARIABLES
    file,       (* sources.json: source -> Choice                          *)
    stamp,      (* its signature (mtime, size), as a version number        *)
    stored,     (* the bridge's SourceSettings._stored                     *)
    signature,  (* the bridge's SourceSettings._signature                  *)
    desired,    (* JsonBridge._desired                                     *)
    active,     (* JsonBridge._active                                      *)
    running,    (* is the adapter running?                                 *)
    pc,         (* where each bridge thread is                             *)
    job,        (* its local variables                                     *)
    cli,        (* the command line's copy of the file, or NotEditing      *)
    chosen,     (* history: sources somebody has explicitly chosen         *)
    toggles,    (* toggles in the picker so far, by source                 *)
    edits       (* edits by the command line so far                        *)

settings == <<file, stamp, stored, signature>>
control == <<desired, active, running>>
history == <<chosen, toggles, edits>>
vars == <<settings, control, pc, job, cli, history>>

-----------------------------------------------------------------------------
Points == {"idle", "compare", "assign", "write", "restat", "commit", "apply",
           "maintain", "repair", "refresh", "close", "start", "stop", "ended"}

NotEditing == [busy |-> FALSE, src |-> Order[1], val |-> "unset",
               copy |-> [s \in Sources |-> "unset"]]

(* A job that starts by looking at the file's signature sig.               *)
NewJob(kind, s, v, sig) ==
    [kind |-> kind, src |-> s, val |-> v, sig |-> sig,
     copy |-> [r \in Sources |-> "unset"], pos |-> 1]

JobOf(kind) == NewJob(kind, Order[1], "unset", 0)
NoJob == JobOf("none")

Flag(v) == v = "on"

(* SourceSettings.enabled                                                  *)
Effective(S) == [s \in Sources |-> IF S[s] = "unset" THEN Default[s] ELSE Flag(S[s])]

(* Mutant: every flag is written, the defaults included.                   *)
EverythingWith(S, s, v) ==
    [r \in Sources |-> IF r = s THEN v ELSE IF Effective(S)[r] THEN "on" ELSE "off"]

(* set_enabled: one more explicit choice.                                  *)
With(S, s, v) == [S EXCEPT ![s] = v]

Goto(t, l) == pc' = [pc EXCEPT ![t] = l]

(* The source a thread is busy with: the toggled one or the next in turn.  *)
Current(t) == IF job[t].kind = "toggle" THEN job[t].src ELSE Order[job[t].pos]

(* The loop over the adapters that a kind of job goes through.             *)
Loop == [none |-> "idle", toggle |-> "idle", apply |-> "apply", tick |-> "maintain",
         refresh |-> "refresh", close |-> "close"]

(* Mutant: the loop runs once too often.                                   *)
MoreOffByOne(t) == job[t].kind # "toggle" /\ job[t].pos <= Len(Order)

More(t) == job[t].kind # "toggle" /\ job[t].pos < Len(Order)

(* Go on with the next source.  After the last one a tick that applied the *)
(* file turns to maintenance, and every other job is done.                 *)
Advance(t) ==
    LET kind == job[t].kind
        next == CASE More(t) -> [job[t] EXCEPT !.pos = @ + 1]
                  [] ~More(t) /\ kind = "apply" -> JobOf("tick")
                  [] OTHER -> NoJob
    IN
    /\ job' = [job EXCEPT ![t] = next]
    /\ Goto(t, IF kind = "close" /\ ~More(t) THEN "ended" ELSE Loop[next.kind])

(* The new choice is merged into S, which the thread goes on to write.     *)
Put(t, S) ==
    LET new == With(S, job[t].src, job[t].val) IN
    /\ stored' = new
    /\ job' = [job EXCEPT ![t].copy = new]
    /\ Goto(t, "write")

(* _apply_source(s) with wish d: mark the source, then call its adapter.   *)
Apply(t, s, d) ==
    \/ /\ d /\ ~active[s]
       /\ active' = [active EXCEPT ![s] = TRUE]
       /\ Goto(t, "start")
       /\ UNCHANGED job
    \/ /\ ~d /\ active[s]
       /\ active' = [active EXCEPT ![s] = FALSE]
       /\ Goto(t, "stop")
       /\ UNCHANGED job
    \/ /\ d = active[s]
       /\ UNCHANGED active
       /\ Advance(t)

-----------------------------------------------------------------------------
(* Requests (dispatch thread) and ticks (maintenance thread)               *)

(* source_set_enabled: set_enabled first reloads, which stats the file.    *)
Toggle(s, v) ==
    /\ pc["main"] = "idle" /\ toggles[s] < MaxToggles
    /\ v \in {"on", "off"}
    /\ toggles' = [toggles EXCEPT ![s] = @ + 1]
    /\ chosen' = chosen \cup {s}
    /\ job' = [job EXCEPT !["main"] = NewJob("toggle", s, v, stamp)]
    /\ Goto("main", "compare")
    /\ UNCHANGED <<settings, control, cli, edits>>

(* The next tick; the bridge has not been closed.                          *)
Tick ==
    /\ pc["maint"] = "idle"
    /\ pc["main"] # "ended" /\ job["main"].kind # "close"
    /\ job' = [job EXCEPT !["maint"] = NewJob("tick", Order[1], "unset", stamp)]
    /\ Goto("maint", "compare")
    /\ UNCHANGED <<settings, control, cli, history>>

Refresh ==
    /\ pc["main"] = "idle"
    /\ job' = [job EXCEPT !["main"] = JobOf("refresh")]
    /\ Goto("main", "refresh")
    /\ UNCHANGED <<settings, control, cli, history>>

(* close, when the picker is gone; the maintenance thread is joined for a  *)
(* second at most, so it may still be at work.                             *)
Close ==
    /\ pc["main"] = "idle"
    /\ job' = [job EXCEPT !["main"] = JobOf("close")]
    /\ Goto("main", "close")
    /\ UNCHANGED <<settings, control, cli, history>>

-----------------------------------------------------------------------------
(* SourceSettings.reload and set_enabled                                   *)

(* An unchanged signature means an unchanged file.                         *)
SameSignature(t) ==
    /\ pc[t] = "compare" /\ job[t].sig = signature
    /\ \/ /\ job[t].kind = "toggle"
          /\ Put(t, stored)
       \/ /\ job[t].kind = "tick"
          /\ Goto(t, "maintain")
          /\ UNCHANGED <<stored, job>>
    /\ UNCHANGED <<file, stamp, signature, control, cli, history>>

(* Otherwise the new one is noted before the file is read.                 *)
NewSignature(t) ==
    /\ pc[t] = "compare" /\ job[t].sig # signature
    /\ signature' = job[t].sig
    /\ job' = [job EXCEPT ![t].copy = file]
    /\ Goto(t, "assign")
    /\ UNCHANGED <<file, stamp, stored, control, cli, history>>

(* Mutant: a tick applies the file to pinned sources too.                  *)
WishAll(S) == Effective(S)

(* _apply_settings: every source that is not pinned follows the file.      *)
Wish(S) == [s \in Sources |-> IF s \in Pinned THEN desired[s] ELSE Effective(S)[s]]

(* What was read becomes the settings.  set_enabled goes on to write; a    *)
(* tick applies them if that changed a flag.                               *)
Assign(t) ==
    /\ pc[t] = "assign"
    /\ \/ /\ job[t].kind = "toggle"
          /\ Put(t, job[t].copy)
          /\ UNCHANGED desired
       \/ /\ job[t].kind = "tick"
          /\ stored' = job[t].copy
          /\ \/ /\ Effective(job[t].copy) # Effective(stored)
                /\ desired' = Wish(job[t].copy)
                /\ job' = [job EXCEPT ![t] = JobOf("apply")]
                /\ Goto(t, "apply")
             \/ /\ Effective(job[t].copy) = Effective(stored)
                /\ Goto(t, "maintain")
                /\ UNCHANGED <<desired, job>>
    /\ UNCHANGED <<file, stamp, signature, active, running, cli, history>>

(* _write: the file is replaced whole ...                                  *)
Write(t) ==
    /\ pc[t] = "write"
    /\ file' = job[t].copy
    /\ stamp' = stamp + 1
    /\ Goto(t, "restat")
    /\ UNCHANGED <<stored, signature, control, job, cli, history>>

(* ... or not at all: the request fails, and the choice stays in _stored.  *)
WriteFails(t) ==
    /\ pc[t] = "write"
    /\ job' = [job EXCEPT ![t] = NoJob]
    /\ Goto(t, "idle")
    /\ UNCHANGED <<settings, control, cli, history>>

Restat(t) ==
    /\ pc[t] = "restat"
    /\ job' = [job EXCEPT ![t].sig = stamp]
    /\ Goto(t, "commit")
    /\ UNCHANGED <<settings, control, cli, history>>

(* The new signature is the bridge's own; the toggled source is applied.   *)
Commit(t) ==
    /\ pc[t] = "commit"
    /\ signature' = job[t].sig
    /\ desired' = [desired EXCEPT ![job[t].src] = Flag(job[t].val)]
    /\ Apply(t, job[t].src, Flag(job[t].val))
    /\ UNCHANGED <<file, stamp, stored, running, cli, history>>

-----------------------------------------------------------------------------
(* Loops over the adapters                                                 *)

ApplyNext(t) ==
    /\ pc[t] = "apply"
    /\ Apply(t, Current(t), desired[Current(t)])
    /\ UNCHANGED <<settings, desired, running, cli, history>>

(* The adapter call that Apply or RefreshNext announced.                   *)
StartAdapter(t) ==
    /\ pc[t] = "start"
    /\ running' = [running EXCEPT ![Current(t)] = TRUE]
    /\ Advance(t)
    /\ UNCHANGED <<settings, desired, active, cli, history>>

StopAdapter(t) ==
    /\ pc[t] = "stop"
    /\ running' = [running EXCEPT ![Current(t)] = FALSE]
    /\ Advance(t)
    /\ UNCHANGED <<settings, desired, active, cli, history>>

(* _maintain_once: an active source ...                                    *)
MaintainNext(t) ==
    /\ pc[t] = "maintain"
    /\ \/ active[Current(t)] /\ Goto(t, "repair") /\ UNCHANGED job
       \/ ~active[Current(t)] /\ Advance(t)
    /\ UNCHANGED <<settings, control, cli, history>>

(* ... has its adapter look after itself, which starts it if it is dead.   *)
Repair(t) ==
    /\ pc[t] = "repair"
    /\ running' = [running EXCEPT ![Current(t)] = TRUE]
    /\ Advance(t)
    /\ UNCHANGED <<settings, desired, active, cli, history>>

(* snapshot raises StoreError before that: the maintenance thread ends.    *)
MaintenanceEnds ==
    /\ StoreFails
    /\ pc["maint"] = "maintain" /\ job["maint"].pos = 1
    /\ job' = [job EXCEPT !["maint"] = NoJob]
    /\ Goto("maint", "ended")
    /\ UNCHANGED <<settings, control, cli, history>>

(* The refresh request marks every wanted source active and refreshes it,  *)
(* which starts an adapter that is not running.                            *)
RefreshNext(t) ==
    /\ pc[t] = "refresh"
    /\ \/ /\ desired[Current(t)]
          /\ active' = [active EXCEPT ![Current(t)] = TRUE]
          /\ Goto(t, "start")
          /\ UNCHANGED job
       \/ /\ ~desired[Current(t)]
          /\ UNCHANGED active
          /\ Advance(t)
    /\ UNCHANGED <<settings, desired, running, cli, history>>

CloseNext(t) ==
    /\ pc[t] = "close"
    /\ \/ /\ active[Current(t)]
          /\ active' = [active EXCEPT ![Current(t)] = FALSE]
          /\ Goto(t, "stop")
          /\ UNCHANGED job
       \/ /\ ~active[Current(t)]
          /\ UNCHANGED active
          /\ Advance(t)
    /\ UNCHANGED <<settings, desired, running, cli, history>>

(* A helper or its connection dies.                                        *)
HelperDies(s) ==
    /\ running[s]
    /\ running' = [running EXCEPT ![s] = FALSE]
    /\ UNCHANGED <<settings, desired, active, pc, job, cli, history>>

-----------------------------------------------------------------------------
(* oma2fa sources --enable/--disable, in a process of its own              *)

EditLoads(s, v) ==
    /\ ~cli.busy /\ edits < MaxEdits
    /\ v \in {"on", "off"}
    /\ cli' = [busy |-> TRUE, src |-> s, val |-> v, copy |-> file]
    /\ edits' = edits + 1
    /\ chosen' = chosen \cup {s}
    /\ UNCHANGED <<settings, control, pc, job, toggles>>

EditWrites ==
    /\ cli.busy
    /\ file' = With(cli.copy, cli.src, cli.val)
    /\ stamp' = stamp + 1
    /\ cli' = NotEditing
    /\ UNCHANGED <<stored, signature, control, pc, job, history>>

-----------------------------------------------------------------------------
Initially(s) == IF s \in Pinned THEN PinnedTo[s] ELSE Default[s]

(* JsonBridge.start has applied every source, and there is no file yet.    *)
Init ==
    /\ file = [s \in Sources |-> "unset"] /\ stamp = 0
    /\ stored = file /\ signature = stamp
    /\ desired = [s \in Sources |-> Initially(s)]
    /\ active = desired /\ running = desired
    /\ pc = [t \in Threads |-> "idle"]
    /\ job = [t \in Threads |-> NoJob]
    /\ cli = NotEditing
    /\ chosen = {} /\ edits = 0
    /\ toggles = [s \in Sources |-> 0]

Request ==
    \/ \E s \in Sources, v \in {"on", "off"} : Toggle(s, v)
    \/ Refresh
    \/ Close

Step(t) ==
    \/ SameSignature(t) \/ NewSignature(t) \/ Assign(t)
    \/ Write(t) \/ WriteFails(t) \/ Restat(t) \/ Commit(t)
    \/ ApplyNext(t) \/ StartAdapter(t) \/ StopAdapter(t)
    \/ MaintainNext(t) \/ Repair(t) \/ RefreshNext(t) \/ CloseNext(t)

CommandLine ==
    \/ \E s \in Sources, v \in {"on", "off"} : EditLoads(s, v)
    \/ EditWrites

Next ==
    \/ Request
    \/ Tick
    \/ \E t \in Threads : Step(t)
    \/ MaintenanceEnds
    \/ CommandLine
    \/ \E s \in Sources : HelperDies(s)

Spec == Init /\ [][Next]_vars

(* Threads that can go on do, and the bridge ticks while it is open.       *)
FairSpec ==
    /\ Spec
    /\ WF_vars(Tick)
    /\ \A t \in Threads : WF_vars(Step(t))
    /\ WF_vars(EditWrites)

-----------------------------------------------------------------------------
(* Properties                                                              *)

Job == [kind : DOMAIN Loop, src : Sources,
        val : Choice, sig : Nat, copy : [Sources -> Choice], pos : 1 .. Len(Order)]

(* Every variable keeps its type, and only a toggle writes the settings.   *)
TypeOK ==
    /\ file \in [Sources -> Choice] /\ stamp \in Nat
    /\ stored \in [Sources -> Choice] /\ signature \in Nat
    /\ desired \in [Sources -> BOOLEAN]
    /\ active \in [Sources -> BOOLEAN]
    /\ running \in [Sources -> BOOLEAN]
    /\ pc \in [Threads -> Points]
    /\ job \in [Threads -> Job]
    /\ cli \in [busy : BOOLEAN, src : Sources, val : Choice, copy : [Sources -> Choice]]
    /\ chosen \subseteq Sources
    /\ toggles \in [Sources -> 0 .. MaxToggles] /\ edits \in 0 .. MaxEdits
    /\ \A t \in Threads : pc[t] \in {"write", "restat", "commit"} => job[t].kind = "toggle"

(* Only explicitly chosen values reach the file, whatever two writers      *)
(* merge into it, so a default can still change (settings.py:26-28).       *)
OnlyExplicitChoices == \A s \in Sources : file[s] # "unset" => s \in chosen

(* A pinned source keeps its pin whatever the file says and however ticks  *)
(* interleave with toggles of other sources, until the picker toggles that *)
(* very source (bridge.py:81-82).                                          *)
PinsHold ==
    \A s \in Pinned : desired[s] # PinnedTo[s] => toggles[s] > 0

(* Every source that is not pinned ends up as the file says once editing   *)
(* is over (README.md:223-224).                                            *)
Followed == \A s \in Sources \ Pinned : desired[s] = Effective(file)[s]

EditsApplied == <>[](pc["main"] = "idle") => <>[]Followed

(* A source that is switched off, with nobody at work on it, is not        *)
(* running (tests/test_bridge.py:412-417).                                 *)
SwitchedOffIsOff ==
    (\A t \in Threads : pc[t] = "idle") => \A s \in Sources : ~desired[s] => ~running[s]
=============================================================================
