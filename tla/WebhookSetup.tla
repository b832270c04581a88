----------------------------- MODULE WebhookSetup -----------------------------
(***************************************************************************)
(* The phone webhook as a user service: WebhookManager                     *)
(* (oma2fa/webhook_setup.py), on the dispatch thread of the picker's       *)
(* bridge, writes the token, the environment and the unit file, and asks   *)
(* systemd to start, stop or restart the unit.  systemctl may fail or time *)
(* out at any call; a job it has queued then goes on without it.           *)
(*                                                                         *)
(* A file is known by whether it is there and whether the process of the   *)
(* unit has read what is in it now.  Only the manager changes these files. *)
(***************************************************************************)
EXTENDS TLAPS

VARIABLES
    files,    (* those that exist                                          *)
    stale,    (* those changed since the unit's process read them          *)
    unit,     (* the process of the unit                                   *)
    job,      (* systemd's job for the unit                                *)
    request,  (* what the dispatch thread is doing for which method        *)
    owed      (* history: the last change ended in an error the user was   *)
              (* told of, or systemd did not say whether the unit runs     *)

vars == <<files, stale, unit, job, request, owed>>

-----------------------------------------------------------------------------
Changes == {"webhook_configure_tailscale", "webhook_rotate_token"}
Switches == {"enable", "disable"}

(* A request's method, its next step, and whether systemd has said that    *)
(* the unit is active.                                                     *)
Idle == [method |-> "none", step |-> "none", active |-> "no"]

At(step) == request.step = step
Step(step) == request' = [request EXCEPT !.step = step]
Rotating == request.method = "webhook_rotate_token"

(* configure_tailscale keeps a token that is there.                        *)
KeepsToken == At("token") /\ ~Rotating /\ "token" \in files

(* The answer to the request, an error or not.                             *)
Answer(ok) ==
    /\ request' = Idle
    /\ owed' = IF request.method \in Changes THEN ~ok \/ request.active = "unsure" ELSE owed

(* _configuration is "ready".                                              *)
Configured == {"token", "environment"} \subseteq files

(* atomic_write                                                            *)
Write(file) ==
    /\ files' = files \cup {file}
    /\ stale' = IF unit \in {"loading", "serving"} THEN stale \cup {file} ELSE stale

-----------------------------------------------------------------------------
(* systemd, and what oma2fa-webhook.service asks of it                     *)

Alive == unit \in {"loading", "serving"}

(* systemctl is-active: not while the unit is stopping, nor while it waits *)
(* to be started again.                                                    *)
Active == Alive /\ job \notin {"stop", "restart"}

(* A job that is new takes the place of one that waits.                    *)
Queue(verb) ==
    job' = CASE ~Alive /\ verb = "stop" -> "none"
             [] ~Alive /\ verb # "stop" -> "start"
             [] Alive /\ verb = "start" -> IF Active THEN "none" ELSE "restart"
             [] OTHER -> verb

(* systemd reads the environment file now, the process the token later.    *)
Exec ==
    /\ unit' = "loading"
    /\ stale' = {}

JobStarts ==
    /\ job = "start" /\ ~Alive
    /\ Exec
    /\ job' = "none"
    /\ UNCHANGED <<files, request, owed>>

(* Restart=on-failure                                                      *)
AutoRestart ==
    /\ job = "none" /\ unit = "failed"
    /\ Exec
    /\ UNCHANGED <<files, job, request, owed>>

UnitLoads ==
    /\ unit = "loading"
    /\ unit' = "serving"
    /\ stale' = stale \ {"token"}
    /\ UNCHANGED <<files, job, request, owed>>

(* It crashes, or is refused its token or its address.                     *)
UnitFails ==
    /\ Alive
    /\ unit' = "failed"
    /\ UNCHANGED <<files, stale, job, request, owed>>

(* It ends on SIGTERM.                                                     *)
JobStops ==
    /\ job \in {"stop", "restart"}
    /\ unit' = "stopped"
    /\ job' = IF job = "restart" THEN "start" ELSE "none"
    /\ UNCHANGED <<files, stale, request, owed>>

-----------------------------------------------------------------------------
(* WebhookManager                                                          *)

(* set_enabled and rotate_token need a configuration, the former also the  *)
(* unit; configure_tailscale needs Tailscale only.                         *)
Begins(method) ==
    /\ request = Idle
    /\ method # "webhook_configure_tailscale" => Configured
    /\ method \in Switches => "unit" \in files
    /\ request' = [Idle EXCEPT !.method = method,
                               !.step = IF method \in Switches THEN "switch" ELSE "token"]
    /\ UNCHANGED <<files, stale, unit, job, owed>>

WriteToken ==
    /\ At("token")
    /\ IF KeepsToken THEN UNCHANGED <<files, stale>> ELSE Write("token")
    /\ Step(IF Rotating THEN "probe" ELSE "environment")
    /\ UNCHANGED <<unit, job, owed>>

(* What is written may be what was there before.                           *)
WriteEnvironment ==
    /\ At("environment")
    /\ \/ Write("environment")
       \/ "environment" \in files /\ UNCHANGED <<files, stale>>
    /\ Step("probe")
    /\ UNCHANGED <<unit, job, owed>>

(* WebhookSetupError, before or after the file was replaced; a token that  *)
(* is kept may be unreadable.                                              *)
WriteFails ==
    /\ request.step \in {"token", "environment"}
    /\ \/ ~KeepsToken /\ Write(request.step)
       \/ UNCHANGED <<files, stale>>
    /\ Answer(FALSE)
    /\ UNCHANGED <<unit, job>>

(* _service_state: without a unit file systemd is not asked, and an answer *)
(* that fails to come is taken for a no.                                   *)
Probe ==
    /\ At("probe")
    /\ \E answer \in IF "unit" \in files THEN {IF Active THEN "yes" ELSE "no", "unsure"}
                                         ELSE {"no"} :
          request' = [request EXCEPT !.active = answer,
                                     !.step = IF ~Rotating THEN "install"
                                              ELSE IF answer = "yes" THEN "restart" ELSE "report"]
    /\ UNCHANGED <<files, stale, unit, job, owed>>

(* _install_unit and daemon-reload                                         *)
Install ==
    /\ At("install")
    /\ files' = files \cup {"unit"}
    /\ Step("switch")
    /\ UNCHANGED <<stale, unit, job, owed>>

InstallFails ==
    /\ At("install")
    /\ files' \in {files, files \cup {"unit"}}
    /\ Answer(FALSE)
    /\ UNCHANGED <<stale, unit, job>>

(* systemctl enable --now, or disable --now                                *)
Switch ==
    /\ At("switch")
    /\ Queue(IF request.method = "disable" THEN "stop" ELSE "start")
    /\ Step("switching")
    /\ UNCHANGED <<files, stale, unit, owed>>

(* configure_tailscale restarts what ran before.                           *)
Switched ==
    /\ At("switching") /\ job = "none"
    /\ Step(IF request.active = "yes" THEN "restart" ELSE "report")
    /\ UNCHANGED <<files, stale, unit, job, owed>>

Restart ==
    /\ At("restart")
    /\ Queue("restart")
    /\ Step("restarting")
    /\ UNCHANGED <<files, stale, unit, owed>>

Restarted ==
    /\ At("restarting") /\ job = "none"
    /\ Step("report")
    /\ UNCHANGED <<files, stale, unit, job, owed>>

(* systemctl refuses, or does not return within eight seconds.             *)
SystemctlFails ==
    /\ request.step \in {"switch", "switching", "restart", "restarting"}
    /\ Answer(FALSE)
    /\ UNCHANGED <<files, stale, unit, job>>

(* status, and the answer; what configure_tailscale has done is published  *)
(* first, which may fail.                                                  *)
Report ==
    /\ At("report")
    /\ \/ Answer(TRUE)
       \/ ~Rotating /\ Answer(FALSE)
    /\ UNCHANGED <<files, stale, unit, job>>

-----------------------------------------------------------------------------
Init ==
    /\ files = {} /\ stale = {}
    /\ unit = "stopped" /\ job = "none"
    /\ request = Idle
    /\ owed = FALSE

Systemd == JobStarts \/ AutoRestart \/ UnitLoads \/ UnitFails \/ JobStops

Manager ==
    \/ \E method \in Changes \cup Switches : Begins(method)
    \/ WriteToken \/ WriteEnvironment \/ WriteFails \/ Probe \/ Install \/ InstallFails
    \/ Switch \/ Switched \/ Restart \/ Restarted \/ SystemctlFails \/ Report

Next == Systemd \/ Manager

Spec == Init /\ [][Next]_vars

-----------------------------------------------------------------------------
(* Properties                                                              *)

(* Every variable keeps its type.                                          *)
TypeOK ==
    /\ files \in SUBSET {"token", "environment", "unit"}
    /\ stale \in SUBSET {"token", "environment"}
    /\ unit \in {"stopped", "loading", "serving", "failed"}
    /\ job \in {"none", "start", "stop", "restart"}
    /\ request \in [method : Changes \cup Switches \cup {"none"},
                    step : {"none", "token", "environment", "probe", "install", "switch",
                            "switching", "restart", "restarting", "report"},
                    active : {"yes", "no", "unsure"}]
    /\ owed \in BOOLEAN

(* A change that was answered without an error is in force: a unit that is *)
(* active afterwards answers to the token and serves the address that are  *)
(* in the files, whatever failed, crashed or was switched before           *)
(* (webhook_setup.py:256-287, 331-338).                                    *)
UnitUsesCurrentFiles == request = Idle /\ ~owed /\ Active => stale = {}

-----------------------------------------------------------------------------
(* Proofs                                                                  *)

(* The inductive invariant of UnitUsesCurrentFiles says, for each point of *)
(* a request, when an active unit is known to be up to date: as long as    *)
(* nothing was changed, once systemd has said that the unit was not active *)
(* after the files were written, and once it was asked for a restart.      *)
Fresh == Active => stale = {}

Settled ==
    /\ request.method = "none" <=> request.step = "none"
    /\ request.step \in {"token", "environment", "probe", "install", "restart", "restarting"}
          => request.method \in Changes
    /\ unit # "stopped" \/ job # "none"
          \/ request.step \in {"switch", "switching", "restart", "restarting"}
          => "unit" \in files
    /\ request.step \in {"token", "environment", "probe"} => request.active = "no"
    /\ request.method \notin Changes => request.active = "no"
    /\ At("restart") => request.active = "yes"
    /\ request.method \notin Changes /\ ~owed => Fresh
    /\ request.method \in Changes /\ request.active = "no"
          /\ request.step \in {"install", "switch", "switching", "report"} => Fresh
    /\ request.method \in Changes /\ request.active # "unsure"
          /\ request.step \in {"restarting", "report"} => Fresh

IInv == TypeOK /\ Settled

(* The initial state satisfies the invariant.                              *)
LEMMA InitIInv == Init => IInv
  <1> SUFFICES ASSUME Init PROVE IInv
    OBVIOUS
  <1> USE DEF Init, Idle
  <1>1. TypeOK
    BY DEF TypeOK
  <1>2. Settled
    BY DEF Settled, At, Fresh, Active, Alive, Changes, Switches
  <1>. QED BY <1>1, <1>2 DEF IInv

(* systemd never makes an active unit stale, ...                           *)
LEMMA SystemdFresh ==
    ASSUME TypeOK, Systemd
    PROVE  TypeOK' /\ (Fresh => Fresh') /\ UNCHANGED <<files, request, owed>>
  BY DEF TypeOK, Systemd, JobStarts, AutoRestart, UnitLoads, UnitFails, JobStops, Exec,
         Fresh, Active, Alive

(* ... nor does a job that is queued; a restart makes it inactive.         *)
LEMMA QueueFresh ==
    ASSUME TypeOK, NEW verb \in {"start", "stop", "restart"}, Queue(verb),
           UNCHANGED <<unit, stale>>
    PROVE  /\ job' \in {"none", "start", "stop", "restart"}
           /\ Fresh => Fresh'
           /\ verb = "restart" => ~Active'
  BY DEF TypeOK, Queue, Fresh, Active, Alive

(* The steps of the manager, one by one                                    *)
LEMMA ManagerIInv == IInv /\ Manager => IInv'
  <1> SUFFICES ASSUME IInv, Manager PROVE IInv'
    OBVIOUS
  <1> USE DEF IInv, TypeOK, Settled, Changes, Switches, At, Step, Rotating, Answer, Idle
  <1>1. CASE \E method \in Changes \cup Switches : Begins(method)
    <2>1. PICK method \in Changes \cup Switches : Begins(method)
      BY <1>1
    <2>2. /\ request'.method = method /\ request'.active = "no"
          /\ request'.step = IF method \in Switches THEN "switch" ELSE "token"
          /\ TypeOK'
      BY <2>1 DEF Begins
    <2>3. method \in Switches => "unit" \in files
      BY <2>1 DEF Begins
    <2>4. request = Idle /\ UNCHANGED <<files, stale, unit, job, owed, Active>>
      BY <2>1 DEF Begins, Active, Alive
    <2>. QED BY <2>2, <2>3, <2>4 DEF Fresh
  <1>2. CASE WriteToken
    BY <1>2 DEF WriteToken, KeepsToken, Write
  <1>3. CASE WriteEnvironment
    BY <1>3 DEF WriteEnvironment, Write
  <1>4. CASE WriteFails
    BY <1>4 DEF WriteFails, KeepsToken, Write
  <1>5. CASE Probe
    BY <1>5 DEF Probe, Fresh, Active, Alive
  <1>6. CASE Install
    BY <1>6 DEF Install, Fresh, Active, Alive
  <1>7. CASE InstallFails
    BY <1>7 DEF InstallFails
  <1>8. CASE Switch
    BY <1>8, QueueFresh DEF Switch
  <1>9. CASE Switched
    BY <1>9 DEF Switched, Fresh, Active, Alive
  <1>10. CASE Restart
    BY <1>10, QueueFresh DEF Restart, Fresh
  <1>11. CASE Restarted
    BY <1>11 DEF Restarted, Fresh, Active, Alive
  <1>12. CASE SystemctlFails
    BY <1>12 DEF SystemctlFails, Fresh, Active, Alive
  <1>13. CASE Report
    <2>1. /\ request' = Idle /\ UNCHANGED <<files, stale, unit, job, Active>>
          /\ owed' \in BOOLEAN
          /\ request.method \in Changes /\ ~owed' => request.active # "unsure"
          /\ request.method \notin Changes => owed' = owed
      BY <1>13 DEF Report, Active, Alive
    <2>2. At("report")
      BY <1>13 DEF Report
    <2>. QED BY <2>1, <2>2 DEF Fresh
  <1>. QED
    BY <1>1, <1>2, <1>3, <1>4, <1>5, <1>6, <1>7, <1>8, <1>9, <1>10, <1>11, <1>12, <1>13
    DEF Manager

(* Every step keeps the invariant.                                         *)
LEMMA NextIInv == IInv /\ [Next]_vars => IInv'
  <1> SUFFICES ASSUME IInv, [Next]_vars PROVE IInv'
    OBVIOUS
  <1>1. CASE Systemd
    <2>1. TypeOK' /\ (Fresh => Fresh') /\ UNCHANGED <<files, request, owed>>
      BY <1>1, SystemdFresh DEF IInv
    <2>2. unit' # "stopped" \/ job' # "none" => unit # "stopped" \/ job # "none"
      BY <1>1 DEF Systemd, JobStarts, AutoRestart, UnitLoads, UnitFails, JobStops, Alive
    <2>. QED BY <2>1, <2>2 DEF IInv, Settled, At
  <1>2. CASE Manager
    BY <1>2, ManagerIInv
  <1>3. CASE UNCHANGED vars
    BY <1>3 DEF vars, IInv, TypeOK, Settled, At, Fresh, Active, Alive
  <1>. QED BY <1>1, <1>2, <1>3 DEF Next

(* The variables keep their types.                                         *)
THEOREM TypeCorrect == Spec => []TypeOK
  <1>1. IInv => TypeOK
    BY DEF IInv
  <1>. QED BY <1>1, InitIInv, NextIInv, PTL DEF Spec

(* A change that was answered without an error is in force                 *)
(* (webhook_setup.py:256-287, 331-338).                                    *)
THEOREM ChangesInForce == Spec => []UnitUsesCurrentFiles
  <1>1. IInv => UnitUsesCurrentFiles
    BY DEF IInv, Settled, UnitUsesCurrentFiles, Fresh, Idle, Changes
  <1>. QED BY <1>1, InitIInv, NextIInv, PTL DEF Spec
=============================================================================
