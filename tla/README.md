# Oma2FA in TLA+

Oma2FA collects one-time codes from text messages and offers them in a desktop
picker. This directory holds TLA+ models of the parts of it that several
threads, processes and transports share, the TLC configurations that check
them, and TLAPS proofs of their most important properties.

## The system

Messages enter through *transports* (BlueFerry, Blip, Tether, a phone webhook,
manual entry). `Oma2FAService.ingest` finds a code in a message and records it
in the *runtime store*, one JSON file in the runtime directory, shared by every
Oma2FA process through a lock file. The *bridge* is one process per desktop
session: it owns the transports' adapters, answers the picker's requests line
by line, and runs a maintenance thread every 15 seconds. The *picker* is QML
and talks to the bridge through its standard input and output.

| Part | State it keeps | Operations | Shared with | Correct if |
|---|---|---|---|---|
| Runtime store (`store.py`) | records, dedupe table, heartbeat file | record_message, list, get, delete, use, clear | every process, by flock | a code shows once, goes when it is used or expires, and is not lost otherwise |
| Service (`service.py`) | board of source statuses | ingest, snapshot, delete, clear | threads of the bridge, webhook server | messages are clamped, judged and stored as above |
| Tether (`tether.py`) | socket, back-off, refresh time | start, stop, refresh, maintain, events | dispatch, maintenance and reader threads | a dead connection is closed and replaced |
| BlueFerry (`blueferry.py`) | helper process, pending requests, startup gate | start, stop, refresh, maintain, replies, events | dispatch, maintenance and reader threads | a dead or wedged helper is replaced, a stopped one stays stopped |
| Settings (`settings.py`) | `sources.json`, its signature, a copy | reload, set_enabled | bridge, command line process | edits are merged and applied |
| Bridge (`bridge.py`) | `_desired`, `_active`, last snapshot | dispatch, maintenance tick, close | its two threads and the readers | a source runs if and only if it is wanted |
| Activation (`activation.py`) | clipboard processes and timers | copy, paste, expire, close | dispatch thread, timer threads | a copy expires, a paste goes to the captured window |
| Webhook (`webhook.py`, `webhook_setup.py`) | heartbeat, unit, token, environment | serve, publish, clear, configure, rotate | a systemd service of its own | health is shown for the running instance only |
| Picker (`Service.qml`, `Picker.qml`) | records, requests in flight, busy flags | requests, answers, restarts | the bridge, by pipe | every request is answered or given up |
| Detector, notification, Blip hook, scripts | none that is shared | | | |

What makes the system hard to test is in `PROJECT.json` under `hazards`, each
with the line where it bites and the properties that watch it. The recurring
causes: the store reads its clock before it waits for its lock; adapters are
called by the dispatch, the maintenance and their own reader threads; the
bridge's `_desired`, `_active` and settings have no lock at all; a second
process edits the same files; the picker changes its copy before it has an
answer; and bridges, webhook servers and systemd's unit come and go.

## Modules

| Module | What it is |
|---|---|
| `CodeVault` | abstract: what the store promises its callers, with no clock, lock, file or dedupe table |
| `RuntimeStore` | `store.py` with `ingest`, `delete` and `clear` of `service.py`; implements `CodeVault` |
| `TetherAdapter` | `tether.py`, its three kinds of threads, two locks, and tetherd |
| `SourceControl` | `settings.py`, the source part of `bridge.py`, and the `sources` command as a second process |
| `BlueFerryAdapter` | `blueferry.py`: helper processes, the request pipe and table, the startup gate, time-outs, and its three kinds of threads |
| `PickerSession` | `Service.qml` and the bridge that serves it: requests and answers over two pipes, snapshots, activation, crashes and restarts |
| `WebhookServer` | `webhook.py`'s server life cycle and the heartbeat file, in the command and in a bridge |
| `WebhookSetup` | `webhook_setup.py` and the systemd unit it controls, with its theorems |
| `MCRuntimeStore`, `MCSourceControl` | values for TLC (the other modules need none) |
| `RuntimeStoreProofs`, `TetherAdapterProofs`, `SourceControlProofs`, `BlueFerryAdapterProofs`, `PickerSessionProofs`, `WebhookServerProofs` | the theorems about the module each is named for |
| `PickerAgreementProofs` | more theorems about `PickerSession`: no request is lost, and the picker agrees with the bridge |

Each module of a component takes what it needs of its neighbours in one step:
`RuntimeStore` has the store's locking and clocks, and `PickerSession` relies
on its result, a code that appears once and goes once; `SourceControl` has the
bridge's switches, and the adapters take starts and stops as they come;
`WebhookSetup` controls the unit whose server `WebhookServer` describes.

### RuntimeStore

A thread or process of the bridge, the webhook server, the command line or a
Blip hook is a member of `Callers`; the bridge's maintenance thread is
`Maintainer`. An operation reads `time.time()` and then takes the lock, so it
is two actions: `EnterRecordMessage`, `EnterList` and `EnterRemove` store the
clock in the call, and `RecordMessage`, `ListAndPrune` and `Remove` are the
transactions, which may run much later. `Ingest` is the part of `ingest` before
the store is called, with a clock reading of its own. `Clear` reads no clock
and is one action. When the bridge has taken a code in, or removed some, it
publishes a snapshot: that is a transaction of its own, and the same caller's
next `EnterList`. `get` and `snapshot` are listings too, `use` removes like
`delete`. A `StoreError` in a listing (`ListFails`) is the end of the call, and
for the maintenance thread its own end, since nothing in `_maintain` catches it
(`bridge.py:387-389`): its operation is then *ended* until another bridge is
started (`Restart`).

The file is replaced as a whole, so a transaction is one step, which may also
fail (`WriteFails`) and change nothing; an error after `os.replace` (chmod,
fsync of the directory) leaves what `Replace` leaves. `Die` is the death of a
process at any point. A message is a model value with a stamp and a content
key (`ContentOf`, `StampOf`); a record refers to its message for its content.
The dedupe table maps a message to its expiry, 0 when absent. A message without
a timestamp of its own is not modelled separately: it is one whose stamp is the
time it was delivered first, though the code gives each redelivery a later one
(`service.py:129`). The clock never goes backwards. When two dedupe entries
of the same expiry compete for the last place, the model allows either.

`accounted` is a history variable: the messages some transaction has put into
the dedupe table. It lets the refinement tell a message that was dealt with
from one that never came.

### TetherAdapter

`Main` is the thread in `JsonBridge.dispatch`, `Maint` the one in `_maintain`,
and each connection slot names its reader. `lifecycle` and `writer` are the
owners of `_lifecycle_lock` (re-entrant: `Drop` is open to its owner) and
`_write_lock`; a thread that waits for a lock is at the program point named
after what it waits to do. `_state_lock` guards single steps. `Pick` is the
read of `self._socket` at the start of `_send`, which no lock covers. `Close`
stands for shutdown and close, after `_lifecycle_lock` is released.

A connection slot is reused once it is closed, its reader is gone and no thread
refers to it; two slots let an old connection linger while a new one is in use.
tetherd comes, goes and is uninstalled at any time. Message contents, catch-up
lists (a repeated `Event`) and reported statuses are left out: the publish lock
that `_status` takes is never held by a thread that waits for the adapter.

### BlueFerryAdapter

Threads as in `TetherAdapter`; a slot of `Helpers` is one helper process and
its reader. `proc` is `self._process`, which is replaced under
`_lifecycle_lock` only but read without it: `EnterRefresh`, `Loaded`, `Ask` and
the answers read it, and the thread goes on with what it saw. `flag` joins
`_status_pending` and `_threads_pending` with the age of their time stamps:
*none*, *waiting*, or *late* once `request_timeout_seconds` have passed. `gate`
is `_startup_waiting_for_status`. `pending` counts, per helper and method, the
written requests that `_pending` still holds; a late answer to a forgotten id
changes nothing. `Write`, `WriteFails` and `WriteRaises` are the three ways a
write ends: done, broken pipe, or a closed file object, whose `ValueError` no
caller catches. `why` says which caller gets the failure, since each takes back
a different flag (`RequestFailed`).

The lock is kept over a whole start, restart and continuation of a startup
(`lifecycle` is released by `Return`); `Detach` and `Ending` are one step each,
with the lock held throughout. Raw events, capability flags and status texts
are left out, and so is a pipe so full that a write blocks.

### SourceControl

The bridge's dispatch and maintenance threads run `source_set_enabled`,
`refresh` and `close`, and the tick. With no lock between them, a thread can be
interrupted wherever it does I/O: that is where the program points are.
`compare` follows the stat in `reload`, `assign` the read, `write` precedes the
replacement, `restat` and `commit` follow it, and `start`, `stop`, `repair`
precede a call of an adapter. `job` holds a thread's local variables; `copy` is
what it has read or is about to write. An adapter is one flag, `running`, which
`HelperDies` clears. The command line is `EditLoads` and `EditWrites`: the read
in its own `SourceSettings` and the replacement. A file signature is a version
number: two different contents never have the same one.

`chosen`, `toggles` and `edits` are history.

### PickerSession

`records`, `pending` and `bridgeAlive` are the properties of `Service.qml`;
each of its handlers is one action, since QML runs one at a time. `input` and
`output` are the two pipes. The bridge's dispatch thread is `main`: where it is
in the request it serves, and what it will answer. A snapshot is taken from
the store and written in two steps with `_publish_lock` held (`publisher`), and
in between the store may change; `published` is `_last_record_ids`. The
maintenance thread publishes only a change (`Tick`), and a `StoreError` ends it
(`TickFails`). `Ingest` and `Announce` are an adapter's reader.

A refresh, and the start, call every wanted adapter on the dispatch thread before
they take the snapshot (`AskSources`). An adapter may raise, which the request
answers with a failure and which ends a bridge that is starting; and it may
not return, which `TetherAdapter` shows to happen. So the thread may stay at
*sources* for good, and with it each request that comes after.

`status` is what the store has of each code: *awaited*, *live*, *gone*
(consumed or cleared) or *expired*; other processes move it too (`Elsewhere`).
A call of the store is one step, and may fail. `activate` is `Get`, `Copy`,
`Paste`, `Remove`, with anything in between. Request ids are used again once
their request is answered, since they are only ever compared with those in
flight. When the bridge dies, what it has written is still read, then the
picker forgets its requests and its codes (`BridgeExited`) and starts another.
`confirmed` and `copied` are history, and so is `adrift`, which records that
the picker's copy may differ until the next snapshot: a refresh failed, or the
answer to a clear (`clearLocal` on the answer, `Service.qml:342`) has wiped out
codes that came after it.

Statuses, the back-off of restarts and the other request methods are left out.
So is the end of the shell: a session has no last step.

### WebhookServer

Each server has three threads of control: `serving`, `maintenance`, and `owner`,
which calls `start` and `stop`. In the standalone command the last is the main
thread, which also serves, and starts to stop when SIGTERM's `KeyboardInterrupt`
has unwound `serve_forever`; in a bridge they are two threads. `stop` is taken
apart at each wait and each effect: the test of `_serving`, `shutdown`,
`server_close`, two joins that may time out, the last clearing. `serve_forever`
sets `_serving` (`Begin`) before it enters socketserver's loop (`EnterLoop`), so
that test may succeed in between. The heartbeat
file names the server that wrote it and has an age up to one more than
`MaxAge`. The events and the listening socket are functions of where the
threads are. A process may be killed anywhere; its heartbeat is then `Former`'s,
as nobody will have its random instance id again. `excuse` notes what keeps the
code from clearing the file: an unusable store, or a join that timed out.

### WebhookSetup

`WebhookManager`'s requests run on the dispatch thread, one at a time; each file
write and each systemctl call is a step. A file is known by whether it exists
and whether the unit's process has read its present content (`stale`): systemd
reads the environment file when it executes the unit, and the process reads the
token a little later. A systemctl call queues a job and waits for it, but may
fail or time out, and its job goes on. systemd starts a failed unit again
(`Restart=on-failure`). What is assumed of systemd is that a stopping unit is
not active and that a restart stops before it starts.

## Runs

| Run | Bounds | Shows |
|---|---|---|
| `store` | 2 callers and the maintainer, one code over 2 transports one tick apart, TTL 2, window 1, room for everything, clock to 3, fairness | types; no duplicate; nothing forgotten while it could be live; the store implements `CodeVault`; expired codes leave the file while there is a maintenance thread |
| `store_limits` | room for 1 record and 1 dedupe entry, 2 codes, senders up to 2 ticks ahead with no skew allowed | a live code is lost only when it is removed, cleared or pushed out by a newer one; a dedupe entry is forgotten early only with the whole table, or to entries that last at least as long |
| `store_phone_ahead` | one message, sender one tick ahead, skew 1 | **violated**: `NoReappearance` |
| `tether` | 2 connections | types; every open connection is attended; a late failure is harmless |
| `tether_dead_helper` | 1 connection, fairness | **violated**: `DeadHelperRestarted` |
| `blueferry` | 2 helpers, `MaxEvents` = 2, fairness | types; every running helper is attended; a late failure is harmless; the lock's owner never meets a closed pipe, and never waits for another thread; a stop is never stuck |
| `blueferry_startup` | 2 helpers, `MaxEvents` = 1, fairness | **violated**: `StartupEnds` |
| `sources` | 2 sources (one on by default and pinned off), one toggle of each, one edit, the store may fail | types; only explicit choices are written; pins hold |
| `source_edits` | as above, no pin, no store failure, fairness | **violated**: `EditsApplied` |
| `source_switch` | as above | **violated**: `SwitchedOffIsOff` |
| `session` | 2 codes, 1 request in flight, room for 2 lines in the bridge's output pipe, fairness | types, and every request under way is one the picker waits for; a code known to be consumed never comes back; only what was copied is consumed; no request is lost while the bridge runs; a picker that waits for nothing shows what was published last; every request ends unless an adapter keeps the dispatch thread; a connected picker shows the store's codes in the end; expired codes leave it even without a bridge |
| `webhook` | the command and a bridge, heartbeats fresh for one tick, fairness | types; a stopped server leaves no heartbeat; none removes another's; `stop` waits only for a loop that is about to be entered, runs or has ended; one that serves has its heartbeat renewed; dead servers look dead; a serving one is seen; `stop` returns |

*Why these bounds.* A clock to 3 with a TTL of 2 lets a message arrive, expire
and be delivered again while an older transaction still waits with its clock
reading; two callers and the maintainer are the two transports and the pruning
that race for a code. The limits run has two codes compete for one place. Two
tether connections are an old one and its replacement; a third would only let
two old ones linger. The same holds of the two helpers. `MaxEvents` bounds what
comes from outside BlueFerry's adapter after the bridge has started it: a
switch, a refresh, a notification, an oversized line, an undecodable one, a
helper that dies. Ticks, answers, time-outs and failing spawns are not bounded.
Two are enough for an old helper's failing write to meet its replacement (a
notification and a death), for a stop to meet a startup, a restart or either of
these, and for each defect that the mutants stand for. The finding needs one,
and with one the source cannot be switched off and on meanwhile. One toggle per
source and one edit are enough for each race of settings: a toggle against a
tick, against an edit, and both. In a session, two codes are one the user acts
on and one that comes or goes meanwhile, and one request in flight is enough for
each hazard: the actors that race for the pipe and the store are the dispatch,
the maintenance and the reader thread, the user, other processes and time, and a
failed deletion's refresh follows it in any case. A pipe of two lines fills up,
with a snapshot and an answer in either order. Two webhook servers are one that
stops and one that replaces it, and `MaxAge` = 1 tells fresh from stale. The
proofs below cover the invariants for all values.

`WebhookSetup` has no constants, so its proof and a run speak of the same 1,676
states. It is proved and not among the runs; `WebhookSetup.cfg` has TLC visit
the states all the same, with the inductive invariant of the proof.

*Fairness.* `RuntimeStore!FairSpec`: while there is a maintenance thread it
takes a snapshot every 15 s, so its listing begins (WF) and comes to an end
(WF), with the pruning or with the error that ends the thread. Nothing makes the
listing succeed, and nothing brings the thread back; `ExpiredCodesErased` speaks
of a behaviour in which there is such a thread from some time on.
`TetherAdapter!FairSpec`: a thread that can go on does; a lock that keeps coming
free is granted to every waiter some time, hence SF for steps that need one; a
reader notices the end of its stream; time passes. Nothing is assumed of tetherd
or of the user. `BlueFerryAdapter!FairSpec` is alike: strong fairness for what
each thread does of its own, weak for the clock, none for answers, deaths and
the user. `PickerSession!FairSpec`: the event loop of the picker, its timer, and
each thread of the bridge go on as long as they can (WF), except for a dispatch
thread in the hands of an adapter, which may never leave it; `RequestsEnd`
assumes that it does, or that the bridge is restarted. No failure has to happen
but as one of a thread's ways to go on; nobody has to send a request, to ingest
or to consume. `WebhookServer!FairSpec`: each of the three threads goes on (WF)
and time passes. `SourceControl!FairSpec`: threads proceed and the bridge ticks
while it is open.

`SourceControl` is checked without deadlock detection since a closed bridge
stops, and `BlueFerryAdapter` since nothing moves while the source is off and
no more events come. The other modules
never stop: there is always a clock, a daemon, a process or a user to go on.

## What the code does not keep

Five runs state something the repository says and find it violated. Each is an
entry of `findings` with the quotation.

1. `store_phone_ahead`: the dedupe entry of a message lives until *now + TTL*,
   its code until *received_at + TTL*. If the phone's clock is ahead (up to the
   accepted skew), a redelivery in between shows a consumed code again.
2. `tether_dead_helper`: `_send` waits in `_drop` for `_lifecycle_lock` with
   `_write_lock` held; `start` and `maintain` hold `_lifecycle_lock` and wait for
   `_write_lock`. Both threads hang and the source stays dead. If `Drop` needed
   no lock the property would hold, so this is its only cause.
3. `source_edits`: a toggle's `reload` takes in a command line edit and its
   signature without updating `_desired`; no later tick applies it.
4. `source_switch`: `_maintain_once` looks at `_active`, the source is switched
   off, and `maintain` starts it again.
5. `blueferry_startup`: the reader of a helper asks for its status after a
   `status-changed` event and is slow; `maintain` meanwhile takes the startup for
   timed out and replaces the helper. The reader's request fails, for want of a
   process, and it clears the flag that the replacement's first request has set
   since. If the replacement never answers, nothing is left that could time
   out. The source is on all the time, and the one event is the notification.

## Proofs

All theorems are for arbitrary values of the constants, under the assumptions
declared beside them.

*RuntimeStoreProofs.* `TypeCorrect` is inductive with the conjuncts that make
ids unique and give every recording call a message. `NoDuplicates` is inductive
on top of it: a record is only added after `IsDuplicate` has compared it with
all that are left after pruning, and bounding only removes. `Remembered` needs
more: it assumes `PhoneAhead = 0` and a dedupe table with room for every
message (`TableFits`). The argument: a call's clock reading is never ahead of
the clock; a message judged or recorded has a stamp no later than its call's
reading; so the expiry that is stored is at least the stamp plus TTL, and a
prune with any reading removes only what has expired by then. Run
`store_phone_ahead` shows why the first assumption is needed, and a table that
overflows may indeed forget.

*TetherAdapterProofs.* The inductive invariant is the type invariant (which
ties a thread's `target` to where it is), `NoOrphanConnection`, and
`FailuresAreReal`: a thread other than a connection's own reader drops it only
after the connection broke or was closed. The last is what makes
`LateFailureHarmless` provable: it says that a sender that detaches the
attached connection found it dead. No fairness is involved.

*SourceControlProofs.* A value in the file may have travelled through either
process: the inductive invariant says of every copy, in the file, in `_stored`
and in each job and in the command line's hands, that it holds explicit choices
only, and that a toggle under way has been counted. `ExplicitOnly` and `Pins`
follow.

`TypeCorrect`, here and in `TetherAdapterProofs`, is the type invariant on its
own.

*RuntimeStoreProofs, refinement.* `ImplementsVault` shows that `RuntimeStore`
implements `CodeVault` under the assumptions of `Remembered`: with `accounted`
for what was dealt with, a transaction that records a message is the
abstract `Offer` (its message was not accounted for, or the dedupe table would
have known it, and its content is not selectable, or `IsDuplicate` would have
found it); everything else only takes codes away. The lemmas first say, step by
step, what happens to records and to `accounted` (`RecordsStep`), then which
abstract step that is.

*RuntimeStoreProofs, limits.* `LiveKept` and `EntriesKeptAlways` hold without any
assumption on clocks or room. Both are about the operators that bound a table:
`NewestRecords` keeps what has fewer than `MaxRecords` newer. That this leaves
exactly `MaxRecords` when something is dropped needs an induction over finite
sets, which the provers cannot do directly; the lemmas go by way of a minimal
counterexample instead (`FullWhenDropping`, by the well-founded order of finite
sets under strict inclusion) and of an injection into the ranks (`KeptAtMost`). The
theorems then say of each transaction that what is missing after it was expired
by the call's own clock reading, which is never ahead of the clock, or was
removed on purpose, or was dropped by a bound. `NeverReappears` proves the
property that run `store_phone_ahead` finds violated under the two assumptions
of `Remembered`: those are all it takes, and the finding is about the first.

*BlueFerryAdapterProofs.* The invariant joins `NoOrphanHelper` with four facts:
a helper that is being stopped is detached; the attached one has its pipe open;
the owner of the lock writes to the attached one; a thread that is about to
detach a helper has found it dead. They need that `proc` changes under the lock
only, and that a slot is reused only once no thread refers to it.
`OwnersGoOn` is inductive by itself: of the steps that the owner of the lock can
be at, none needs the lock for another thread to be released first, and each
way out of the adapter releases it. It is the safety half of `StopReturns`.

*PickerSessionProofs.* `TypeCorrect` rests on `InOnePlace`: a request in flight
is on its way, in the bridge's hands, or answered, and its number tells it from
all others. `OnlyCopied` adds that a thread past `Copy` has copied.
`ConfirmedStaysHidden` is about order: once the bridge has deleted a code, the
snapshot it takes does not show it, nor does a later one of any thread; that
snapshot is written before the answer, since both are lines of the same pipe
and `_publish_lock` is held from the reading of the store to the writing. So for
each answer that confirms a deletion there is a line before it, or the picker's
present records, from which on nothing shows the code (`Settled`).

*PickerAgreementProofs.* `NothingLost` adds to `InOnePlace` that each request is
in some place, and that what is done for it, and said of it, is about its code
(`Tracked`). `Agreement` is about the same pipes from the other side. Its
invariant has five parts. `Tracked`; `KnownBorn`: picker and bridge know only
codes that were recorded, and a recorded code never becomes live again;
`DeletionsPast`: a deletion that is answered without error, or will be, is of a
code that is past; `ViewsPublished`: when no snapshot is in hand, the last line
with a snapshot shows what was published last, and if there is none the picker
shows no more than that; `MissingExcused`: a published live code that the
picker lacks is covered by a request that hides it or will bring it back and
that has yet to be served, or fails. With no request left and the pipes empty,
the last two are `PickerAgrees`. The excuse is what a failed deletion would lose
if it did not send a refresh, and what the answer to a clear does lose, hence
`adrift`.

*WebhookServerProofs.* For each server on its own (`Orderly`): once stop has seen
both threads end, or before they begin, nobody publishes in its name; so once
its heartbeat is gone it stays away. Steps of another server do not write in
its name (`ApartKeepsOrder`). `ShutdownOfALoopThatRuns` and `ServingRenews` are
two more conjuncts of it, the safety halves of `StopReturns` and
`KeepsPublishing`. The first says that `stop` waits only for a loop that runs, has
ended, or is about to be entered: in the last case socketserver remembers the
request, and the loop ends at once. It needs that while its thread of control is
between starting and shutting a server down, that server is a bridge's (the
command has only one thread, which is past its loop when it stops), and that its
socket is still open, so that the loop is really entered.

*WebhookSetup.* `ChangesInForce`: after a change of token or environment that was
answered without an error, a unit that is active uses what is in the files. The
invariant says for each point of a request when that is known already: before
anything is written; once systemd has said, after the writes, that the unit
does not run (whatever starts it later reads the new files); and once a restart
was queued, for until it stops the unit is not active. The exception is real: if
`systemctl is-active` fails or times out, `_service_state` takes that for a no
(`webhook_setup.py:97-103`), `rotate_token` skips the restart and reports
success, and the unit keeps the old token. `owed` marks this case.

*Only model-checked:* everything under fairness (`ExpiredCodesErased`,
`StopReturns` of both modules, `RequestsEnd`, `PickerConverges`, `ExpiredLeaves`,
`DeadLooksDead`, `KeepsPublishing`, and the liveness findings), which is out of
the prover's reach. Every invariant and action property of a passing run is
also a theorem.

## Not modelled

The detector, formatting, parsing and validation of payloads and files, HTTP,
notifications, the installation scripts and the picker's layout: pure functions
or I/O with no state that several actors share. The validation of a loaded
state file matters only if somebody else writes the file. The Blip hook is one
ingest per process, one of `RuntimeStore`'s callers.

The publication of statuses is not modelled: neither their order (a reader may
report a source running after it was disabled) nor the snapshot-like answer of
a `status` request. Of activation, the guards of a paste are not: they look at
the session lock and the active window, both of which may change before wtype
acts, and nothing in the repository could promise more. Of the picker's window
neither are the busy flags of its toggles.

`WebhookServer` has one race without a property: a start that is given up after
a second finds `_serving` not set, and if the serving thread enters its loop
just then, `server_close` takes the socket away under it. The thread then
serves nobody and renews no heartbeat; `StopReturns` holds all the same, since
the join times out.

Smaller things are left out where no property depends on them. In `store.py`
`updated_at` is read before the lock is waited for (427, 438), so a heartbeat
that waited looks that much older than in the model. In `blueferry.py` a
`StoreError` from the status callback (167) would leave a startup with its gate
set and no request made. In `settings.py` the `before` of a reload (75) is read a
little earlier than the model compares it.

## Plan

What would come next, in this order: statuses in `PickerSession` with the
board of `service.py`; an abstract source that starts and stops, which both
adapters implement and `SourceControl` uses; the clipboard's processes and
timers.
