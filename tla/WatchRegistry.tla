--------------------------- MODULE WatchRegistry ---------------------------
(***************************************************************************)
(* The registrations of running watchers: one pid file per (agent, state)  *)
(* in the runtime directory, written by `agentbus watch` and read by       *)
(* `watch --daemon`, `watch-status` and `watch-stop`                       *)
(* (cli/_watch_runtime.py, cli/_watch_run.py, cli/_watch_status.py).       *)
(*                                                                         *)
(* Nothing locks the directory.  A command reads a file, looks at the      *)
(* process it names, and only then removes the file, signals the process   *)
(* or spawns a watcher; other commands, and the watchers themselves when   *)
(* they start and end, act in between.                                     *)
(***************************************************************************)
EXTENDS Naturals, FiniteSets

CONSTANTS Agent,      \* agent names
          NamedAfter, \* NamedAfter[a]: the agents whose name is a's, "-", more
          Bare,       \* agents of which some watcher is started without --agent
          Explicit,   \* state keys given with --state
          Implicit,   \* the default keys: with the workspace's label, without it
          Pid, Cmd,   \* process ids; command invocations of the CLI
          None, Torn, \* no value; what a read in the middle of a write returns
          MaxSpawns,  \* bound: watchers ever started
          MaxCommands \* bound: commands ever typed

Legacy == "(legacy)"          \* the slot {agent}.pid of watchers before state keys
State  == Explicit \cup Implicit
Slot   == Agent \X (State \cup {Legacy})

RegistryAssumption ==
    /\ NamedAfter \in [Agent -> SUBSET Agent]
    /\ \A a \in Agent : a \notin NamedAfter[a]
    /\ Bare \subseteq Agent
    /\ Explicit \cap Implicit = {} /\ Legacy \notin State
    /\ None \notin Pid \cup State \cup Slot \cup Agent /\ Torn \notin Pid
    /\ IsFiniteSet(Agent) /\ IsFiniteSet(Pid)
    /\ MaxSpawns \in Nat \ {0} /\ MaxCommands \in Nat
ASSUME RegistryAssumption

VARIABLES reg,     \* slot -> the pid its file holds, None without a file
          proc,    \* pid -> what runs under it
          cmd,     \* command -> where it is
          spawned, \* watchers started so far
          typed,   \* commands typed so far
          excuse   \* history: slots where a second watcher has an explanation
registryVars == <<reg, proc, cmd, spawned, typed, excuse>>

(***************************************************************************)
(* Processes.  A watcher boots (the label lookup), registers, runs, and     *)
(* passes the finally block on its way out.  `named`: its command line     *)
(* carries --agent; a bare `agentbus watch` takes its agent from the       *)
(* environment, the project's identity file or the sign-in.                *)
(***************************************************************************)
Free     == [agent |-> None, key |-> None, phase |-> "free", named |-> FALSE]
Stranger == [Free EXCEPT !.phase = "stranger"]

\* Variants used to show that the properties can fail: any live process counts as
\* the watcher; a watcher already on its way out no longer counts.
PidIsAlive(p, a)   == p \in Pid /\ proc[p].phase # "free"
PidIsRunning(p, a) == p \in Pid /\ proc[p].agent = a /\ proc[p].phase = "run"
                                 /\ proc[p].named

\* The command line of pid p says that it is a watcher for exactly this agent.
\* A bare watcher's does not say so: it is taken for a stranger by its own agent.
PidIsWatcher(p, a) == p \in Pid /\ proc[p].agent = a /\ proc[p].named

Live(p)      == proc[p].phase \notin {"free", "stranger"}
SlotOf(p)    == <<proc[p].agent, proc[p].key>>
Serving(s)   == {p \in Pid : proc[p].phase \in {"run", "closing"} /\ SlotOf(p) = s}

NoCommand == [op |-> "none", agent |-> None, step |-> "idle", slot |-> None,
         pid |-> None, todo |-> {}, found |-> {}]

\* Pids a command has read and may still act on.  The kernel hands a pid out
\* again only after a whole cycle of the pid space, so not to these.
Held == {cmd[c].pid : c \in Cmd} \cup {f[2] : f \in UNION {cmd[c].found : c \in Cmd}}
Spare == {p \in Pid : proc[p] = Free} \ Held

\* A write is in flight to slot s: a reader may find the file empty.
BeingWritten(s) ==
    \/ \E c \in Cmd : cmd[c].step = "record" /\ cmd[c].slot = s
    \/ \E p \in Pid : proc[p].phase = "boot" /\ proc[p].agent = s[1]
                      /\ s[2] \in (IF proc[p].key = None THEN Implicit ELSE {proc[p].key})

ReadFile(s) == {reg[s]} \cup (IF BeingWritten(s) THEN {Torn} ELSE {})

\* Unlinking slot s after having read v there hides a watcher that belongs to
\* somebody else (a), or wrote its pid after the read, or is a bare one.
Hides(s, v, a) ==
    reg[s] \in Pid /\ \/ reg[s] # v
                      \/ s[1] # a
                      \/ reg[s] \in Serving(s) /\ ~proc[reg[s]].named

(***************************************************************************)
(* watch --daemon: look the slot up, spawn a detached watcher, record it.  *)
(***************************************************************************)
StartDaemon(c, a, k) ==
    /\ cmd[c] = NoCommand /\ typed < MaxCommands
    /\ typed' = typed + 1
    /\ cmd' = [cmd EXCEPT ![c] = [NoCommand EXCEPT !.op = "start", !.agent = a,
                                              !.step = "read", !.slot = <<a, k>>]]
    /\ excuse' = excuse \cup {s \in {<<a, k>>} :
                    \E d \in Cmd : cmd[d].op = "start" /\ cmd[d].slot = s}
    /\ UNCHANGED <<reg, proc, spawned>>

ReadSlot(c) ==
    /\ cmd[c].step = "read"
    /\ \E v \in ReadFile(cmd[c].slot) :
          /\ cmd' = [cmd EXCEPT ![c].pid = v, ![c].step = "judge"]
          /\ excuse' = excuse \cup {s \in {cmd[c].slot} : v = Torn}
    /\ UNCHANGED <<reg, proc, spawned, typed>>

\* Variant: the command spawns whatever it finds.
JudgeStartBlind(c) ==
    /\ cmd[c].op = "start" /\ cmd[c].step = "judge"
    /\ cmd' = [cmd EXCEPT ![c].step = "spawn"]
    /\ UNCHANGED <<reg, excuse, proc, spawned, typed>>

\* _watch_pid: a live watcher ends the command; an unreadable file counts as
\* no watcher and stays; a file naming anything else is removed.
JudgeStart(c) ==
    LET v == cmd[c].pid  s == cmd[c].slot IN
    /\ cmd[c].op = "start" /\ cmd[c].step = "judge"
    /\ \/ /\ v \in {None, Torn}
          /\ cmd' = [cmd EXCEPT ![c].step = "spawn"]
          /\ UNCHANGED <<reg, excuse>>
       \/ /\ PidIsWatcher(v, cmd[c].agent)
          /\ cmd' = [cmd EXCEPT ![c] = NoCommand]
          /\ UNCHANGED <<reg, excuse>>
       \/ /\ v \in Pid /\ ~PidIsWatcher(v, cmd[c].agent)
          /\ cmd' = [cmd EXCEPT ![c].step = "spawn"]
          /\ reg' = [reg EXCEPT ![s] = None]
          /\ excuse' = IF Hides(s, v, cmd[c].agent) THEN excuse \cup {s} ELSE excuse
    /\ UNCHANGED <<proc, spawned, typed>>

\* The child gets --state only when the user gave one; otherwise it looks the
\* workspace's label up again for itself.
ChildKey(k) == IF k \in Implicit THEN None ELSE k

SpawnDaemon(c) ==
    /\ cmd[c].step = "spawn" /\ spawned < MaxSpawns
    /\ \E p \in Spare :
          /\ proc' = [proc EXCEPT ![p] = [agent |-> cmd[c].agent, phase |-> "boot",
                                          key |-> ChildKey(cmd[c].slot[2]),
                                          named |-> TRUE]]
          /\ cmd' = [cmd EXCEPT ![c].pid = p, ![c].step = "record"]
    /\ spawned' = spawned + 1
    /\ UNCHANGED <<reg, typed, excuse>>

RecordDaemon(c) ==
    /\ cmd[c].step = "record"
    /\ reg' = [reg EXCEPT ![cmd[c].slot] = cmd[c].pid]
    /\ cmd' = [cmd EXCEPT ![c] = NoCommand]
    /\ UNCHANGED <<proc, spawned, typed, excuse>>

(***************************************************************************)
(* watch-status and watch-stop: read every file whose name begins with the *)
(* agent's name, then the legacy slot; judge each; stop signals the rest.  *)
(***************************************************************************)
Globbed(a) == {s \in Slot : /\ reg[s] # None
                            /\ \/ s[1] = a /\ s[2] # Legacy
                               \/ s[1] \in NamedAfter[a]}

StartScan(c, a) ==
    /\ cmd[c] = NoCommand /\ typed < MaxCommands
    /\ typed' = typed + 1
    /\ cmd' = [cmd EXCEPT ![c] = [NoCommand EXCEPT !.op = "scan", !.agent = a, !.step = "scan",
                                              !.todo = Globbed(a) \cup {<<a, Legacy>>}]]
    /\ UNCHANGED <<reg, proc, spawned, excuse>>

ScanRead(c) ==
    /\ cmd[c].step = "scan"
    /\ \E s \in cmd[c].todo : \E v \in ReadFile(s) :
          cmd' = [cmd EXCEPT ![c].slot = s, ![c].pid = v, ![c].step = "judge"]
    /\ UNCHANGED <<reg, proc, spawned, typed, excuse>>

\* _watch_pids: keep what is a watcher of this agent, unlink everything else.
ScanJudge(c) ==
    LET v == cmd[c].pid  s == cmd[c].slot  a == cmd[c].agent
        next == [cmd[c] EXCEPT !.todo = @ \ {s}, !.slot = None, !.pid = None,
                               !.step = IF cmd[c].todo = {s} THEN "act" ELSE "scan"]
    IN
    /\ cmd[c].op = "scan" /\ cmd[c].step = "judge"
    /\ \/ /\ v \in Pid /\ PidIsWatcher(v, a)
          /\ cmd' = [cmd EXCEPT ![c] = [next EXCEPT !.found = @ \cup {<<s, v>>}]]
          /\ UNCHANGED <<reg, excuse>>
       \/ /\ ~PidIsWatcher(v, a)
          /\ cmd' = [cmd EXCEPT ![c] = next]
          /\ reg' = [reg EXCEPT ![s] = None]
          /\ excuse' = IF Hides(s, v, a) THEN excuse \cup {s} ELSE excuse
    /\ UNCHANGED <<proc, spawned, typed>>

\* The registrations a stop is to signal: all, or those of one state; a legacy
\* slot has no state and is never selected by one.
Selected(found, scope) == {f \in found : scope \in {None, f[1][2]}}

\* The scan is over: a status prints what was found, a stop goes on to signal.
Status(c) ==
    /\ cmd[c].op = "scan" /\ cmd[c].step = "act"
    /\ cmd' = [cmd EXCEPT ![c] = NoCommand]
    /\ UNCHANGED <<reg, proc, spawned, typed, excuse>>

Stop(c, scope) ==
    /\ cmd[c].op = "scan" /\ cmd[c].step = "act"
    /\ LET selected == Selected(cmd[c].found, scope)
       IN  cmd' = [cmd EXCEPT ![c] = IF selected = {} THEN NoCommand
                                     ELSE [@ EXCEPT !.op = "stop", !.found = selected]]
    /\ UNCHANGED <<reg, proc, spawned, typed, excuse>>

\* SIGTERM: before the handler is installed, and again while the finally block
\* runs, it ends the process on the spot, and so it does a watcher of the old
\* version; otherwise it starts the finally block.
AfterSigterm(p) ==
    IF proc[p].phase = "run" /\ proc[p].key # Legacy
    THEN [proc[p] EXCEPT !.phase = "closing"] ELSE Free

\* One turn of the loop.  A pid that is gone raises out of the command and
\* leaves the rest unsignalled.  The slot's FILE NAME is passed where the state
\* name is expected, so only a legacy slot's file is really removed here.
StopOne(c) ==
    /\ cmd[c].op = "stop"
    /\ \E f \in cmd[c].found :
          \/ /\ proc[f[2]] = Free
             /\ cmd' = [cmd EXCEPT ![c] = NoCommand]
             /\ UNCHANGED <<reg, proc>>
          \/ /\ proc[f[2]] # Free
             /\ proc' = [proc EXCEPT ![f[2]] = AfterSigterm(f[2])]
             /\ reg' = IF f[1][2] = Legacy THEN [reg EXCEPT ![f[1]] = None] ELSE reg
             /\ cmd' = [cmd EXCEPT ![c] = IF cmd[c].found = {f} THEN NoCommand
                                          ELSE [cmd[c] EXCEPT !.found = @ \ {f}]]
    /\ UNCHANGED <<spawned, typed, excuse>>

\* The user interrupts a command; a child already spawned lives on.
Abort(c) ==
    /\ cmd[c].op # "none"
    /\ cmd' = [cmd EXCEPT ![c] = NoCommand]
    /\ UNCHANGED <<reg, proc, spawned, typed, excuse>>

(***************************************************************************)
(* The watcher process.                                                    *)
(***************************************************************************)
\* A watcher in the foreground, or under the plugin's monitor: nothing is
\* looked up before it starts.
Foreground(a, k) ==
    /\ spawned < MaxSpawns
    /\ \E p \in Spare, named \in {TRUE, a \notin Bare} :
          proc' = [proc EXCEPT ![p] = [agent |-> a, phase |-> "boot",
                                       key |-> ChildKey(k), named |-> named]]
    /\ spawned' = spawned + 1
    /\ UNCHANGED <<reg, cmd, typed, excuse>>

\* p comes up on slot s where no start put it, beside another watcher or a start
\* that has already looked: a foreground watcher, a child under the other default
\* key, the child of an interrupted start.
Uninvited(p, s) ==
    /\ reg[s] # p
    /\ ~\E c \in Cmd : cmd[c].step = "record" /\ cmd[c].slot = s /\ cmd[c].pid = p
    /\ \/ Serving(s) # {}
       \/ \E c \in Cmd : cmd[c].op = "start" /\ cmd[c].slot = s /\ cmd[c].step # "read"

\* Resolve the state key, write our own pid, install the SIGTERM handler.  (A
\* signal between the last two ends the process with its file in place: Crash.)
Register(p) ==
    /\ proc[p].phase = "boot"
    /\ \E k \in IF proc[p].key = None THEN Implicit ELSE {proc[p].key} :
         LET s == <<proc[p].agent, k>> IN
          /\ proc' = [proc EXCEPT ![p].key = k, ![p].phase = "run"]
          /\ reg' = [reg EXCEPT ![s] = p]
          /\ excuse' = IF Uninvited(p, s) THEN excuse \cup {s} ELSE excuse
    /\ UNCHANGED <<cmd, spawned, typed>>

\* Watcher.run returns or raises: --once, dead socket, rejected key, bus error.
Finish(p) ==
    /\ proc[p].phase = "run"
    /\ proc' = [proc EXCEPT ![p].phase = "closing"]
    /\ UNCHANGED <<reg, cmd, spawned, typed, excuse>>

\* The end of the finally block: the file is removed only if it names us.
LeaveRead(p) ==
    /\ proc[p].phase = "closing"
    /\ proc' = [proc EXCEPT ![p] = IF reg[SlotOf(p)] = p
                                   THEN [@ EXCEPT !.phase = "leaving"] ELSE Free]
    /\ UNCHANGED <<reg, cmd, spawned, typed, excuse>>

LeaveUnlink(p) ==
    LET s == SlotOf(p) IN
    /\ proc[p].phase = "leaving"
    /\ reg' = [reg EXCEPT ![s] = None]
    /\ proc' = [proc EXCEPT ![p] = Free]
    /\ excuse' = IF reg[s] \in Pid \ {p} THEN excuse \cup {s} ELSE excuse
    /\ UNCHANGED <<cmd, spawned, typed>>

\* SIGKILL, a crash, a reboot: no finally block, the file stays.
Crash(p) ==
    /\ Live(p)
    /\ proc' = [proc EXCEPT ![p] = Free]
    /\ UNCHANGED <<reg, cmd, spawned, typed, excuse>>

\* Another program starts under a pid a file still names, or ends.
OtherProgram(p) ==
    /\ \/ p \in Spare /\ (\E s \in Slot : reg[s] = p) /\ proc' = [proc EXCEPT ![p] = Stranger]
       \/ proc[p] = Stranger /\ proc' = [proc EXCEPT ![p] = Free]
    /\ UNCHANGED <<reg, cmd, spawned, typed, excuse>>

-----------------------------------------------------------------------------
\* A watcher from before state keys may be running; its slot is {agent}.pid,
\* and it has no SIGTERM handler.
RegistryInit ==
    /\ \E old \in SUBSET (Agent \X Pid), named \in BOOLEAN :
          /\ named \/ \E o \in old : o[1] \in Bare
          /\ Cardinality(old) <= 1
          /\ reg = [s \in Slot |-> IF s[2] = Legacy /\ \E o \in old : o[1] = s[1]
                                   THEN (CHOOSE o \in old : TRUE)[2] ELSE None]
          /\ proc = [p \in Pid |-> IF \E o \in old : o[2] = p
                                   THEN [agent |-> (CHOOSE o \in old : TRUE)[1],
                                         key |-> Legacy, phase |-> "run",
                                         named |-> named]
                                   ELSE Free]
          /\ spawned = Cardinality(old)
    /\ cmd = [c \in Cmd |-> NoCommand]
    /\ typed = 0
    /\ excuse = {}

Command(c) ==
    \/ \E a \in Agent, k \in State : StartDaemon(c, a, k)
    \/ \E a \in Agent : StartScan(c, a)
    \/ ReadSlot(c) \/ JudgeStart(c) \/ SpawnDaemon(c) \/ RecordDaemon(c)
    \/ ScanRead(c) \/ ScanJudge(c) \/ Status(c)
    \/ \E scope \in State \cup {None} : Stop(c, scope)
    \/ StopOne(c) \/ Abort(c)

Process(p) ==
    \/ Register(p) \/ Finish(p) \/ LeaveRead(p) \/ LeaveUnlink(p)
    \/ Crash(p) \/ OtherProgram(p)

RegistryNext ==
    \/ \E c \in Cmd : Command(c)
    \/ \E a \in Agent, k \in State : Foreground(a, k)
    \/ \E p \in Pid : Process(p)

RegistrySpec == RegistryInit /\ [][RegistryNext]_registryVars

-----------------------------------------------------------------------------
Phases == {"free", "stranger", "boot", "run", "closing", "leaving"}
Steps  == {"idle", "read", "judge", "spawn", "record", "scan", "act"}

ProcessRecord == [agent : Agent \cup {None}, key : State \cup {Legacy, None},
                  phase : Phases, named : BOOLEAN]
CommandRecord == [op : {"none", "start", "scan", "stop"}, agent : Agent \cup {None},
                  step : Steps, slot : Slot \cup {None}, pid : Pid \cup {None, Torn},
                  todo : SUBSET Slot, found : SUBSET (Slot \X Pid)]

\* Types, and what the steps rest on: a registered watcher has a slot.
RegistryTypeOK ==
    /\ reg \in [Slot -> Pid \cup {None}]
    /\ proc \in [Pid -> ProcessRecord]
    /\ \A p \in Pid : proc[p].phase \in {"run", "closing", "leaving"}
                         => SlotOf(p) \in Slot
    /\ cmd \in [Cmd -> CommandRecord]
    /\ spawned \in 0..MaxSpawns /\ typed \in 0..MaxCommands
    /\ excuse \subseteq Slot

\* watch-stop signals processes by a number read from a file (pidfiles survive
\* reboots and numbers are reused): whatever it signals is a watcher of the agent
\* it was asked to stop, never another program or another agent's watcher.
OnlyOwnWatchersSignalled ==
    [][\A c \in Cmd : cmd[c].op = "stop" =>
          \A f \in cmd[c].found : proc'[f[2]] # proc[f[2]] /\ cmd'[c] # cmd[c] =>
             proc[f[2]].agent = cmd[c].agent]_registryVars

\* A running watcher loses its registration (and so becomes invisible to
\* watch-stop and to the next start) in five ways only: another watcher of the
\* same slot records itself; a scan for an agent whose name its name extends
\* prunes it; a command that had read the file before it was written removes it;
\* a scan or a start of its own agent does, because it was started without
\* --agent; so does an earlier watcher of the slot, in the middle of its own exit.
RegistrationKept ==
    [][\A s \in Slot : \A p \in Pid :
          (reg[s] = p /\ reg'[s] # p /\ p \in Serving(s) /\ p \in Serving(s)') =>
             \/ reg'[s] \in Pid
             \/ \E c \in Cmd : cmd[c].slot = s /\ (\/ s[1] \in NamedAfter[cmd[c].agent]
                                                   \/ cmd[c].pid # p
                                                   \/ ~proc[p].named)
             \/ \E q \in Pid \ {p} : proc[q].phase = "leaving" /\ SlotOf(q) = s]_registryVars

\* One watcher per state file, or one of the known excuses: two starts in
\* flight together, a foreground start (which never looks), a child that came up
\* under the other default key, a starter interrupted before it recorded its
\* child, a start that reads a file a watcher is just writing, and a registration
\* removed under a running watcher (also one that the start itself takes for a
\* stranger, because its command line does not name the agent).
OneWatcherUnlessExcused ==
    \A s \in Slot : Cardinality(Serving(s)) <= 1 \/ s \in excuse
=============================================================================
