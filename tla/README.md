# TLA+ models of agentbus-client

This directory holds the formal models of the client library and command line
in `src/agentbus_client/`: how mail becomes a wake, how the client behaves when
the bus is in trouble, and how parallel hooks and monitors share their files.
TLC checks each model on small instances; TLAPS proves the safety properties
for every value of the constants. `PROJECT.json` lists the runs, the theorems,
the source lines each definition stands for, the hazards of the code, and for
each property a plausible bug that breaks it.

    tlc -config coalescer.cfg MCCoalescer      # one run
    tlapm Watcher_proofs.tla                   # one module's proofs

Paths below are relative to `src/agentbus_client/` unless they start elsewhere.

## 1. Inventory

### The wake path

**Watcher** (`watch.py`, `_watch_base.py`, `_watch_common.py`,
`_watch_drain.py`, `_watch_state.py`). A long-lived process per agent. State:
the cursor, the failure count and its stamp in memory; the same three in a state
file; a drain lock; one background drain thread at a time. Operations: load
state and start-up drain, connect to the event stream, frames (each may start a
drain on a thread), a reconcile drain on a timer, drop and reconnect with a
persisted backoff, checkpoint, exit codes. Hard: two threads move one cursor and
write one file; a dying process between checkpoint and hand-over; a stream that
is healthy and silent. Correct when: one drain at a time, each delivery handed
over in order, loss bounded, backoff survives a restart, no exit on a transient
error, every delivery announced in the end.

**Burst coalescer** (`_coalesce.py`). Between the watcher and the handler.
State: the buffer, a hard and a quiet deadline, one timer, a closed flag, a
lock. Operations: `handle`, the timer callback, `close`. Hard: a timer that has
expired cannot be cancelled; `handle` reads `_closed` without the lock, and
`close` sets it before its flush. Correct when: every message is announced once,
in order unless it came during the close, and nothing is held longer than the
window.

**Wake handlers and the watch command** (`_watch_handlers.py`,
`cli/_watch_run.py`, `cli/_cmds_watch_run.py`). Compose the two with `--exec`
and `--append`, a SIGTERM handler that raises on the main thread, and a
`finally` that closes the coalescer. Hard: what ends the process between the
checkpoint and the wake. Correct when: what was handed over is announced, held,
or lost in a way one can name.

**Watcher registrations** (`cli/_watch_runtime.py`, `cli/_watch_status.py`,
`cli/_cmds_watch_status.py`, `cli/_watch_run.py`). State: a pid file per agent
and state name, in one directory, without a lock. Operations: daemon and
foreground start, the child's own registration, listing with pruning, stop, a
watcher's exit. Hard: check-then-act between two starts; the prune of agent
`bob` matches the files of `bob-ci`; process numbers are used again; a watcher is
recognised by its command line, which need not name the agent; `watch-stop`
passes a file name where a state name is expected. Correct when: at most one
watcher per state file, only one's own watchers are signalled, and a live
registration is kept.

**Re-wake monitor** (`rewake.py`). A Stop hook arms a monitor at the end of
each turn; several live at once and share a ledger of claimed deliveries under
`flock`. Hard: two monitors see the same mail; the ledger is cut in place; the
harness kills monitors. Correct when: one delivery wakes the session once, and
new mail does wake it.

### The client

**Sync resilience stack** (`client/resilience.py`, `client/sync_client.py`).
Every call runs as work in a bulkhead, inside a breaker and retries, with the
caller waiting on a future up to a deadline. State: per call a cancel flag, the
set `_INFLIGHT`, the breaker, the executor. Hard: the deadline fires while the
work is queued, between the flag's check and the request, or in a backoff; the
exit hook does the same to every call. Correct when: abandoned work stops, what
must not be repeated is not, every caller returns.

**Async client and its breaker** (`client/_async_breaker.py`,
`client/async_client.py`). Request sequences overlap on one event loop. State:
the breaker's phase, two counters, the probe flag. Hard: a verdict of a sequence
admitted earlier arrives while a probe flies; a probe ends without a verdict.
Correct when: the probe slot is never stranded, load never grows while the bus
is in trouble, calls go through again after it.

**Client base** (`client/base.py`, `client/_mixin_base.py`,
`client/_body_guard.py`, `client/_reply_guard.py`). Headers, signing, sealing,
the guard against a reply that reaches its writer only, and the echo of the
liveness challenge, which is read and cleared when a request is built (so it is
lost with a failed attempt). Hard: whom a message reaches is asked first and
acted on later. Correct when: what is sealed can be read by those it was sealed
for, and a signature speaks for its sender.

**Sync and async operations** (`client/sync_*.py`, `client/async_*.py`,
`client/memory.py`). One request each, except the sends (resolve, seal, sign,
post), drafts, and the notebook and its reseal, which are several. **Models and
errors** (`client/models.py`, `client/errors.py`, `client/attachments.py`) keep
no state.

### The hooks

**Tool-call gate** (`hooks/_gate.py`, `hooks/_state.py`). Each tool call of a
session runs a hook process that asks the bus for a verdict; a shared file
records degraded calls and acts as a circuit. Hard: parallel tool calls run
parallel hooks over one file, some with and some without its lock. Correct when:
calls do not run unvetted longer than the cooldown without somebody asking, and
the count of degraded calls is not lost.

**Session and turn hooks** (`hooks/_session.py`, `hooks/_turn.py`,
`hooks/_inject.py`, `hooks/claude_code.py`). State, for all sessions of one
agent: a wake file that a watcher's notify appends to and a hook consumes, a
claim file that says which session acts as the agent; per session a monitor.
Operations: session start, resume, prompt, end; notify and inject. Hard: no
hook takes a lock, a session is killed without its end, and two sessions of a
checkout are one agent. Correct when: a wake is erased only by a hook that knows
of the mail, a newcomer is told of the session beside it, the end of one session
does not deafen another, and mail reaches whoever keeps working.

### Keys, identity, set-up

**Sealing and signing keys** (`sealing.py`, `_signing.py`, `_agefmt.py`,
`cli/_keys.py`). State: a key file per agent, created with `O_EXCL` by whoever
comes first, and a copy of each key a rotation retired; the keys the server was
given. Operations: first use, publish, rotate, revoke, sign. Hard: several first
users, a death between create and write, a rotation beside anything. Correct
when: every key that something is sealed to, or may be, is still held.

**Identity and agent resolution** (`identity.py`, `cli/_common.py`,
`hooks/_identity.py`, `onboarding/_identity.py`): which name a shell, a hook and
a command act as, in a checkout and in its linked worktrees. **Onboarding,
provisioning, credentials** (`onboarding/_credentials.py`, `_provision.py`,
`_paths.py`, `_signin.py`, `cli/_register.py`): sign in, ask about a stored key,
register, mint, store, declare, tear down. State: the operator credential, a key
file per agent, the declarations in the checkout, what the server bound each key
to. Hard: a failure, another command, a revocation or a new sign-in between any
two steps. Correct when: a setup that ends has left a key that works, no working
key is lost, and a checkout changes its identity only on purpose.

**Tool integrations and doctors** (the rest of `onboarding/`, `cli/_diag.py`).
Settings, hooks and entries of Claude, Antigravity and opencode, read, merged
and written back; self-tests that mail the agent a probe and report. Hard: the
files belong to somebody else too; a test runs beside what it tests. Correct
when: setup converges whatever it finds, and a doctor's verdict is true.

**Command line** (the rest of `cli/`) and **presentation** (`ui.py`, `qr.py`,
`_timefmt.py`): parsing and formatting over the client.

### How the parts interact

The watcher reads the inbox through the sync client, so each drain is a call of
the resilience stack; it hands deliveries to the coalescer, whose sink is the
handler chain; the chain starts a turn, or appends to the wake file the turn
hooks read. The pid files of the registrations are how commands find a watcher.
A turn ends with the Stop hook that arms the re-wake monitor, a second path to
the same wake; the doctors walk that path with mail of their own. The gate asks
the bus on its own connection. Every hook and command first resolves who it is,
from what setup declared, and takes the key setup stored. The two clients share
the files of the keys with each other and with the command line, and otherwise
only their settings.

## 2. Plan

The modules, most important behaviour first; all are written.

| module | models | composed with |
|---|---|---|
| `WakeQueue` | abstract: what a coalescer promises | implemented by `Coalescer` |
| `Coalescer` | `_coalesce.py` | |
| `Watcher` | the watcher process, its restarts, the server | |
| `WakePath` | `cmd_watch`: watcher, coalescer, command, signals | extends `Watcher` |
| `AsyncBreaker` | the async breaker and the sequences on it | |
| `GateCircuit` | the gate's circuit and its file | |
| `SyncResilience` | the sync call, its worker, the exit hook | |
| `Rewake` | armed monitors and their ledger | |
| `WakeDoctor` | the two self-tests of the wake path | extends `Rewake` |
| `WatchRegistry` | pid files: start, prune, stop, exit | |
| `SessionHooks` | wake file, claim file, monitors of one agent's sessions | |
| `Onboard` | sign-in, setup, register, teardown; who a session is | |
| `Harness` | Claude's MCP entry, Antigravity's hooks file | extends `Onboard` |
| `SealedMail` | sealing keys and what is sealed to them | |
| `Signing` | signing keys, signatures and their verification | |

Every safety and action property a run checks is also a theorem (section 6). The
order of work left, should the project grow: the challenge echo as part of a
client's requests; `WakePath`'s sink replaced by the wake file of `SessionHooks`.

## 3. Modules and the code

Names follow the source where TLA+ allows it. Definitions marked "a slip",
"Variant" or "Mutant" are deliberate bugs; no specification uses them, each
exists to show that a property notices it. Variables called ghosts, histories or
excuses record what happened; no guard reads them except where a bound says so.

**Coalescer.** `HandleEnter` is the unlocked read of `_closed`, `HandleLocked`
the rest of `handle` under the lock (urgent, leading edge, trailing, after
close); `TimerFires` is the timer thread reaching for the lock, `OnTimer` its
callback, which finds its window flushed, its deadline moved, or flushes.
`Close` is the flag `close` sets, `CloseFlush` the rest of it under the same
lock; between the two a late message goes to the sink past what is buffered
(`HandleAfterClose`), and the ghost `passed` notes it. `Tick` is time in units
of which `Window` and `Quiet` are multiples. An envelope is the sequence of its
messages. The sink takes no time here; it does in `WakePath`.

**Watcher.** `main` is the main thread's place in `run`/`_connect_and_follow`,
`drain[t]` the activation of `_drain` on thread `t`, `lock` is `_drain_lock`,
`disk` the state file. A drain is check, fetch, take (the cursor moves), hand
(`on_message`), save; the page's answers are new mail, nothing, a page behind
the cursor, a refusal. `Fail`, `PersistFailure`, `Recover`, `Wake` are the
reconnect path, with the lock wait that may time out. `Kill` and `Restart` are a
process and its supervisor. Deliveries are numbered in the order of arrival.

**WakePath.** Every action of `Watcher` except the hand-over, which becomes
`Handle`: buffer, wake at once, or flush first, under the coalescer's lock
(`gate`), with a command that runs for a while (`waking`). The coalescer's
windows are a free choice here. `TimerFlush` and `Close` are the other two that
flush. `Term` is the exception the SIGTERM handler raises at any point of the
main thread, a running flush included; `Exit` the end of the process, which
takes daemon threads with it; `HardKill` anything else.

**AsyncBreaker.** `phase[c]` is a sequence: waiting for a slot, trying, backing
off. `Admit`, `OnSuccess`, `OnFailure` and `ReleaseProbe` are the breaker's
methods; each runs without an await, so it is atomic on its loop.
`probes` and `stragglers` are ghosts: who was admitted half-open, who was in
flight when the breaker opened. A refused call leaves no trace and stutters.

**GateCircuit.** `pc[h]` is a hook: checking, asking, or with an outcome to
record. `Lock`, `Truncate`, `Write` are the locked rewrite, in three steps
because readers and the unlink of `Clear` do not take the lock. `Unvetted` is
the hook of a session without a credential, which asks nobody and clears
nothing, but records. `age` is the age of `opened_at`.

**SyncResilience.** `caller[c]` and `work[c]` are the two threads of a call.
`MakeCall`, `Submit`, `BulkheadFull`, `SubmitRaises`, `Deadline`, `GiveUp` are
`_run_with_resilience`; `Start`, `FailFast`, `Check`, `Abandon`, `Send`,
`BackOff`, `Conclude` are `_wrapped` and `_attempt`; `SetFlags` and `ShutDown`
the exit hook. The flag's check and the request are two steps. The bulkhead, the
breaker and the bus are external: their order, thresholds and answers are left
open. `acts`, `lost`, `late` and `sent` are ghosts.

**Rewake.** `pc[m]` is a monitor: armed, about to claim, in the middle of a cut,
waking. `Poll` shows the page of the oldest unread mail, `PollInVain` is one that
fails or shows nothing new; `Claim` is `_claim_fresh` under the lock; when the
file is too long it is truncated, and the kept lines return by `WriteBack` (a
write larger than the file object's buffers, which happens with the lock held)
or by `UnlockEarly` and `Close` (a smaller one, which reaches the file after the
lock was released). `Kill` can fall anywhere. `since` counts, per delivery, the
keys claimed after it.

**WakeDoctor.** `doc` is the doctor that runs, if any: `doctor --wake` (send a
probe, find it in the unread list, run the re-waker with a ledger of its own,
read the probe, run it again, compare the monitors' ledger) or the loop test of
`doctor` (page to the end of the inbox, send, look for the probe after that
cursor, acknowledge). Monitors, peers and the session go on meanwhile; `calm`
and `noise` record what of that could mislead it. A doctor is followed until a
monitor is armed beside it: what it does to the mailbox from then on a peer and
the session may do as well, and what it reports is excused.

**WatchRegistry.** `reg` is the directory, `proc` what runs under each process
number, `cmd` a command at one of its steps. A daemon start reads its slot,
judges the pid found there, spawns, records; the child looks its state key up
for itself and registers again (`Register`). A scan reads every file whose name
begins with the agent's, judges each, and prunes what is not a watcher of that
agent; a stop signals what the scan found. A file is judged by `PidIsWatcher`,
which reads the command line: a watcher that was started without `--agent`
(`named` is false; `Bare` are the agents that have such watchers) is a stranger
to its own agent's scans and starts. A program that is no watcher and yet has
the three words in its command line is left out. A watcher leaves by reading its
file and unlinking it. `Crash` leaves the file; `OtherProgram` reuses the
number. `excuse` collects the slots where a second watcher is explained.

**SessionHooks.** `hook[s]` is the hook running in session `s`, step by step:
`ReadClaim` and `WriteClaim` at the start, `Answered` or `Unreachable` and then
`Clear` for the question every hook asks, `Reap`, `Release`, `Unlink` at the
end. `wake` is the wake file as the set of its deliveries, `claim` the claim
file, which is torn while it is rewritten. `Capture` is notify, `Inject` inject.
`named` tells the sessions that know their own id. Ghosts: who was told of what,
whose claim is the latest, and whether a claim was destroyed under its session.

**Onboard.** Two checkouts: `Main` and a linked worktree `Tree`. `run[c]` is the
command in checkout `c` with what it has read. A setup is `Validate`,
`SetAside`, `Register`, `KeepKey` or `MintKey` and `StoreKey`, then its wiring:
`WriteDecl`, `WriteLocal`, `LoadSettings`, `DumpSettings` for Claude,
`WriteDecl` and `Mark` for Antigravity, `WireEntry` for opencode. `register` ends with
`Claim`, a teardown is `RemoveDecl`, `UnsetLocal`, `PurgeKey`. `Quit` is a
failure or a kill before any step. `Validate` asks the bus about the stored key
and then about the operator's; `Verdict` is its answer, in which a refused
operator key (`barred`, by `Refuse`) counts against the stored one, as in the
code. An operator key is named by the workspace it opens, so there is one for each
and a refused one stays refused. The harness's settings are written as the code
writes them, our hooks in them exactly if the plugin is not; no property is about
them. `Answers` is the bus, which recognises a
session it knows whatever name it is asked for; `issued`, `dead` and `row` are
what it remembers. `HookAgent`, `SetupName`, `AgyAgent`, `ResolveCredentials`
and `Credential` are the resolutions of a name and a key by the parts that make
them. `calm`, `asked` and `declared` record what a command could rely on.

**Harness.** Goes on where `Onboard` ends a setup. `Probe`, `Remove` and `Add`
are the three calls of Claude's command line behind the MCP entry; `LoadHooks`
and `WriteHooks` the merge of Antigravity's `hooks.json`, into which other
checkouts and other people write as well (`EditHooks`), without a lock.

**SealedMail.** A seat is an agent on a machine, with one key file and its
retired copies. `job[p]` is a process: `Look`, `Create`, `Fill`, `Harden` are
`ensure_keypair`; `Retire`, `Copy`, `Unlink` the rotation, which then makes and
publishes a key; `Post` and `Put` the requests. `Send`, `Reply`, `Forward`,
`Note`, `Draft`, `SendDraft` and `Reseal` are the operations that seal. `Die` is
a kill or a full disk. Bodies are represented by the keys they are sealed to.
Which agent a process means is known here: that `load_private_keys` globs the
retired files by a prefix, and so also tries those of an agent whose name extends
this one, adds keys and takes none away.

**Signing.** `task[c]` is a client: `FindKey`, `MakeKey`, `WriteKey` and `Vouch`
are `keys sign`; `Ask`, `Sign` and `Deliver` the three ways to send (a message, a
reply, a stored draft). What the server derives has an `edition`; `calm` says
whether it changed between the question and the post, `known` whether the key
was public. `Verdict` and `ExitCode` are the reader. A server that answers 404
for a sender without keys is modelled as one that lists none.

## 4. Runs

| run | question | bounds, and why they are enough |
|---|---|---|
| `coalescer` | bounded hold; each message once, in order unless it came during the close; implements `WakeQueue` (with its release) | window 3, quiet 2, 6 messages, 2 late timers: both deadlines can end a hold, two bursts with a tail fit, `close` falls anywhere and messages between its two steps |
| `watcher_safety` | drains exclude each other, order, loss, persistence of the ladder | 3 deliveries in pages of 2 (full page, short page, arrival during a drain), 2 rungs, 2 restarts, stale pages |
| `wakepath` | where a handed-over delivery can be; no double wake | 2 deliveries in a page (one held, one urgent), 1 rung, 1 restart, kills |
| `wakepath_live` | every delivery wakes; a dead session, a stale page and a SIGTERM come to an end | 1 delivery, stale pages, no kills |
| `breaker` | load, recovery | 3 callers on 2 slots, limits 2 and 2, 1 retry: two open the breaker, the third is the straggler |
| `gate` | cooldown, return of the verdicts | 2 parallel hooks, threshold 3, cooldown 3 ticks: a fast-fail can use the second of them |
| `resilience` | abandonment, repeats, the registry, return | 3 calls (one bare) on 2 workers without a queue, 1 retry: two run, the third is refused or cancelled |
| `rewake` | one wake per delivery, claims accounted for, visible mail wakes, true doctors | 2 monitors, 3 deliveries, pages of 2, a cut at the third line to one, 1 kill, inbox pages of 1: mail hidden behind a page, a line cut while its delivery is unread, a claim in the gap of a cut, an inbox of several pages |
| `registry` | one watcher per state, only own watchers signalled, registrations kept | agents `bob` (whose watchers may be started without `--agent`) and `bob-ci`, two default keys, 2 process numbers, 2 commands, 2 spawns and one watcher of the old version: two starts race, a prune meets the other agent's file, a number is used again |
| `hooks` | no wake erased unknown, newcomers told, mail surfaced | 2 sessions opened 3 times in all, 1 delivery: each ends and returns beside the other |
| `onboard` | setups that work, keys kept, deliberate identities, silent teardowns, convergence | 2 commands in 2 checkouts, 2 keys, 1 event by others (a sign-in, a revoked key, a refused operator key, an edit), 2 workspaces that play the same part, a fresh and a used machine |
| `mail` | keys in use are held, reseal keeps its reader; honest signatures | one agent on two machines, 2 processes, 2 keys on the rotated one, 1 mail, 1 note, any number of deaths; and apart from it two signers, 2 clients, 1 letter, 1 revoked key, 1 edit |

The bounds on arrivals, failures, crashes, kills and messages are constants
whose names say so, in guards; the rest of each state space is unbounded only
where the code is. In `mail`, nothing new is started after one of the rotations
that `KeysInUseAreHeld` excepts: what follows is excepted too. The two parts of
`mail` share neither files nor actions, so a behaviour is one of the first or
one of the second (`part`). Symmetry is used only in runs whose properties are
safety properties. Deadlock checking is off where the system may stop: the
watcher exits, calls and commands are made once, budgets end. It is on for
`breaker`, `gate` and `rewake`.

All runs pass. What a passing property excepts is where the code does less than
one would want, and the exceptions are as narrow as TLC lets them be: each was
found as a counterexample first. Five claims of comments and docstrings that the
code refutes stay in the modules as definitions, to be put into the run's `.cfg`
by whoever wants to see the trace:

| definition | run | the claim |
|---|---|---|
| `OrderKept` in `Coalescer` | `coalescer` | "a single `threading.Lock` serialises everything, including the sink call itself" |
| `NothingMissed` in `Watcher` | `watcher_safety` | "Resumes from the cursor it last saw so nothing is missed" |
| `GracefulStopEatsNothing` in `WakePath` | `wakepath` | "a graceful shutdown never eats a wake" |
| `OneProbe` in `AsyncBreaker` | `breaker` | "admits ONE probe at a time" |
| `ConnectFailureOpens` in `GateCircuit` | `gate` | "A CONNECT failure opens the circuit at once" |

What these show: a message that arrives while `close` flushes is announced before
the buffered ones; the main thread's checkpoint can publish a cursor the background
drain has advanced and not yet handed over; a SIGTERM during the command of a
flush on the main thread unwinds past a buffer that was already emptied, with
the cursor on disk; a sequence admitted before the breaker opened frees, when it
ends, the slot of the probe in flight; and the fast-fail record replaces the
reason the circuit opened for, so the next call goes to the network inside the
cooldown.

What the other exceptions say, by run (`PROJECT.json` quotes the code and the
claim for each, under `findings`):

* `breaker`: late successes close an open breaker before any probe has run, and
  a half-open breaker that sees only 4xx answers stays half-open.
* `gate`: a fast-fail recorded after a verdict's unlink undoes it, bounded by the
  cooldown; a session without a credential keeps the record alive and asks nobody.
* `resilience`: a call that is not safe to repeat is repeated after a loss in
  transit; the flag of a call cancelled in the queue stays in `_INFLIGHT`; a call
  that registers after the exit hook's look at `_INFLIGHT` escapes it.
* `rewake`: mail behind a backlog of 25 unread is invisible to the monitor; a cut
  whose lines fit the file object's buffers leaves the ledger empty and unlocked
  for a moment; `doctor --wake` blames a working re-waker when other mail or a
  monitor's claim comes between.
* `registry`: two starts in flight, a foreground start beside a daemon, a child
  under the other default key, an interrupted start and a read in the middle of a
  write give a slot two watchers; a prune for `bob` unregisters a live `bob-ci`; a
  watcher started without `--agent` is unregistered by the scans of its own agent,
  and by a start, which then spawns a second one.
* `hooks`: an ending session removes the claim another session wrote after it
  looked; a claim says one session only.
* `onboard`: `register` reads one of the two declarations; an exported name
  replaces a checkout's own; a stored key is believed when there is no operator
  credential to ask with; a key renewed meanwhile is set aside with the old one's
  verdict; a key that has just answered is set aside when the operator's is
  refused; a teardown leaves the entries with a key in them; a refresh of the MCP
  entry that fails halfway leaves none.
* `mail`: rotations that overlap, that run under another agent's name, or that
  die while they copy lose a key; a reply whose resolve is refused, and a draft or
  room edited while it is sent, read as forged.

## 5. Fairness

* `Coalescer`: timers fire, threads waiting for the lock get it, a `close` that
  has begun gets through its flush; that is `threading`'s and the operating
  system's. Nothing is assumed of callers.
* `WakePath` (live run): threads run, commands end (they have a timeout),
  keepalives come (the stream's own timeout ends it otherwise), a stopped
  supervisor restarts, and strong fairness of an inbox call's success (it is
  tried again without end) and of the timer's lock (held only for a command).
  Nothing is assumed of the stream's pushes: reconcile must do.
* `AsyncBreaker`: tasks go on, the cooldown lapses, callers come; strong
  fairness of getting a slot and of success while the bus is healthy.
* `GateCircuit`: hooks go on, the session keeps calling tools, time passes.
* `SyncResilience`: callers' steps only. Nothing is assumed of workers: the
  HTTP timeout is per operation, so an attempt may stall longer than any bound,
  and a queue may not move. `EveryCallReturns` therefore rests on the deadline
  alone.
* `Rewake` and `WakeDoctor`: turns end and arm monitors, and strong fairness of a
  monitor's own steps: a poll that sees new mail succeeds some time (monitors poll
  through their window and are armed again), the lock is free some time (it is
  never held over a wait), and a monitor that has claimed goes on. A monitor does
  one thing after another, so one condition on all its steps says this of each.
  Nothing is assumed of doctors.
* `SessionHooks`: a hook that was started runs on, an open session is prompted
  again, and a bus that is asked again and again answers some time (strong
  fairness of `Answered`). Nothing is assumed of monitors or watchers.
* `WatchRegistry`, `Onboard`, `Harness`, `SealedMail`, `Signing`: none. Commands
  are typed or not, and may be killed; their properties are safety properties.

## 6. Proofs

All theorems hold for every value of the constants under the assumptions named
in the modules (`CoalescerAssumption` and so on: bounds are naturals, sizes
positive, sets finite, names distinct); TLC evaluates them in each run.

* `Watch_proofs`, of `Coalescer`: type correctness, each message once and in
  order but for those that passed a close, nothing left after it, the alarm of a
  buffered tail, the bound of a hold, and that every step is one of `WakeQueue` or a
  stutter. The order rests on what is with the sink followed by what is buffered:
  a step leaves that sequence as it is, appends the next message (`AtTheEnd`), or,
  during a close, puts it between the two (`AheadOfTheTail`), and each keeps
  `OnceEach`. The invariant relates the timer to both
  deadlines: while something is buffered, an armed timer is no later than the hard
  one, or a thread already waits.
  Of `WatchRegistry`: type correctness and the three properties of the
  registrations. `RegistryInv` says of a slot without an excuse that whoever
  serves it is the process its file names (`Registered`), that at most one start
  is under way there (`LoneStart`) and that since this start read the file nobody
  else has registered, so that the file is as it was read or gone
  (`StartIsCurrent`); each of the three needs the others to survive a step. It also
  says that a process a scan took for its agent's watcher is that watcher or its
  number has not been handed out since (`FoundIsOwn`), and that a file under the
  old name only ever goes (`LegacyOnlyGoes`).
* `Watcher_proofs`, of `Watcher`: type correctness, exclusion, order, the bound on
  losses, the persistence of backoff and ladder, the monotone checkpoint. The
  bound needs the longest argument: below the cursor everything is handed over,
  or lost to an earlier crash, or is the delivery in hand, and the state file is
  never ahead of the cursor.
  Of `WakePath`: every step of the composition is a step of the watcher alone or
  leaves it alone (`PathIsAWatcher`), so all of the above holds there. The account
  of a delivery and the single wake then rest on `Gated`: a command runs under the
  coalescer's lock or after its close, a thread in `on_message` announces what it
  has in hand or what goes before it, and after the close nothing is held back. A
  flush empties the buffer before it calls the command, so two commands never
  carry the same delivery.
* `Client_proofs`, of `AsyncBreaker`: type correctness, the owned probe slot, the
  bound on load. In flight after an opening are stragglers and probes; the slot is
  freed by whoever ends, which is why the bound counts sequences and not probes.
  Of `SealedMail`: the keys in use are held, and a reseal keeps an entry's reader.
  `SealingInv` gives each process the key its step has reached (the creator of a
  key file is its only writer until the content is there), has a rotation in a
  seat where none was muddled be the only one, with its key in the file until it
  stands under its own name among the retired ones, and says that a retired name
  is free, taken by its own key, or being written by that rotation. A step of one
  process is shown to lose no key of a seat, to leave another's half-made file
  alone and to move nothing under another's rotation (`FilesSafe`); that is all
  the other processes need (`OthersKeepStage`). So the three cases in `muddled`
  are all there are, for any number of processes.
  Of `Signing`: signatures tell the truth. `SigningInv` says that a client between
  the lookup of a key and the post has the signer's only key, that a public key is
  the one in its signer's file, and that a signature covers what the server stored
  unless the addressing changed or could not be asked for.
* `GateCircuit_proofs`: type correctness, the cooldown, the count. The invariant
  follows the record through its three homes: the file, a reader's copy and the
  copy of the hook that holds the lock.
* `SyncResilience_proofs`: type correctness and the four safety properties, from
  one inductive invariant of five parts about a single call (which sides of the
  two threads can meet; what a call without a request has not done; what is
  registered; that after the flag only a call that had passed the check sends;
  how actions and losses in transit relate). No action couples two calls except
  through the bulkhead's room, the breaker and the exit hook.
* `Rewake_proofs`: type correctness, one claim per delivery, the account of
  claims, of `Rewake`'s specification. A key claimed less than `TrimTo` keys ago
  stands exactly that far from the end of the file or, during a cut, of the file
  with the kept lines; cuts keep the newest lines, so the key is found by the
  next locked reader. At most one monitor holds the lock.
  Of `WakeDoctor`: each step of `DoctorSpec`, under which the run checks them,
  is a step of `Rewake` (`DoctorIsAPeer`: to the monitors a doctor is mail that
  comes and is read), so both properties carry over; and a doctor's report is
  right (`DoctorsAreRight`). For the last, `DoctorInv` says for each stage of a
  self-test what it may rely on unless something misled it: `doctor --wake` that
  the unread mail fits the page it looks at and that its first pass put all of
  it into its scratch ledger, `doctor` that between the end of the inbox, as it
  found it, and its probe is only what has come since.
* `SessionHooks_proofs`: type correctness, that an answer covers what had arrived
  by then (`AnswersCover`), that nothing is erased unknown, that an end signals
  its own monitor only, and that a newcomer is told. The last needs an account of
  the claim file (`ClaimAccounted`): the latest claim is in the file, or older than
  twelve hours, or another session is about to write or unlink having missed it,
  or it was destroyed.
* `Onboard_proofs`: type correctness and the four properties of `Onboard`'s
  specification. The invariant says what a command at each step may believe: the
  credential it read is the operator's still, the key it holds is bound to the
  name it carries, what it kept is stored, a key it is about to set aside is dead,
  another workspace's or beside a refused operator key, or somebody disturbed it.
  Of `Harness`: a step of `HarnessSpec`, under which the run checks these, is a step
  of `Onboard` or leaves its variables alone, but for an edit of the checkout by
  others, which is looked at by itself; so each of the four holds there. That setup
  converges needs `HarnessInv`: when setup comes to add Claude's entry there is none,
  or a call failed (`EntryOf`); and between the read of agy's hooks and their write
  the file is what was read, or that as the other checkout's setup merged it, or was
  edited (`HooksOf`). Merging twice is merging once (`EnsureTwice`).

Some theorems state what no run checks on its own, because a run's property
implies it or the theorem is a step towards one: `ClosedCorrect`, `TailCorrect`,
`PersistenceCorrect`, `BackoffPersisted`, `PathIsAWatcher`, `ProbeSlotCorrect`,
`CountCorrect`, `FailFastCorrect`, `DoctorIsAPeer`, `EndDeafensNobody`,
`AnswersCover`, `ClaimAccounted`, `SealingInvariant`.

Only model-checked: every liveness property (`EveryDeliveryWakes`,
`DeadSocketStops`, `DrainEnds`, `StopCompletes`, `Recovers`, `GatingReturns`,
`EveryCallReturns`, `PageMailWakes`, `ArrivalIsSurfaced`) and the release promise
in `ImplementsWakeQueue` (its safety is `CoalescerImplementsQueue`), because
liveness under fairness and `ENABLED` are out of the prover's reach.

## 7. Not modelled

* Watcher: `--once`, an explicit start cursor, a state file that cannot be read,
  parsed or written. Wake path: a second SIGTERM, handler failures (reported and
  counted as attempted), envelope text, lanes.
* Registrations: the listing's text, `--all-agents`, an unwritable directory.
* Async breaker: several loops in several threads on one breaker, the layer
  switched off, idempotency keys.
* Gate: a hook killed in the middle of a rewrite, the notify files of
  `hooks/_state.py`.
* Sync resilience: lazy singletons, the layer switched off, the breaker's window
  (external, it may open after any failure), the arithmetic of the shared budget.
* Re-wake: a ledger that cannot be opened, the single pass of a zero window
  outside the doctor, the pace of the loop. A close that lands between another
  monitor's read and its truncation is ordered before the read. Doctors: the
  links of the chain that are file and version checks, Antigravity's doctor.
* Session hooks: Antigravity's own entry points (their wiring is in `Harness`),
  texts, notices of plugin and version.
* Onboarding: a second operator key of one workspace, unwritable files, several
  agents bound to one key, a throwaway register, `--machine`, a directory that
  is no git checkout, skill files, opencode's plugin list and `.gitignore`, the
  device id, the listing verbs.
* Client: headers, the challenge echo, the credential read back from disk, the
  refusal of an empty body, attachments, deletions of notes and drafts, and the
  operations that are one request and keep no state (their failures are the
  resilience stack's).
* Ciphers, formatting and the parsing of arguments: no interleaving, or out of a
  model checker's reach.
