------------------------------ MODULE Harness ------------------------------
(* What setup writes for a harness once the checkout has its identity and its *)
(* key (Onboard): the entry by which Claude reaches the bus over MCP, put     *)
(* there with Claude's own command line, and agy's hooks.json, which every    *)
(* checkout of the machine and whoever else has hooks there share.            *)
(*                                                                            *)
(* A command goes on here when Onboard's last step of it is done. It may be   *)
(* killed before any of its steps, a call of it may fail, and hooks.json is   *)
(* read, merged and written back without a lock.                              *)
EXTENDS Onboard

VARIABLES
  mcp,    \* per checkout: the key in the entry Claude keeps for it, or None
  hooks,  \* agy's hooks.json: whose hook stands under each name
  wiring  \* per checkout: the setup that writes one of them

harnessVars == <<vars, mcp, hooks, wiring>>

OurHooks == {"catchup", "wake"}          \* the names our hooks have today
Name == OurHooks \cup {"older", "theirs"} \* a name ours had once; another's
Owner == {None, "ours", "outdated", "foreign"}
HookFile == [Name -> Owner]

HarnessPart == [kind : {"claude", "agy"}, pc : {"probe", "remove", "add", "load", "write", "done"},
                agent : Agent, key : Maybe(Key), seen : HookFile,
                failed : BOOLEAN,  \* Claude is missing, or a call to it failed
                raced : BOOLEAN]   \* hooks.json was edited since it was loaded

ASSUME HarnessAssumption == None \notin {"ours", "outdated", "foreign"} \cup HarnessPart

NoHooks == [n \in Name |-> None]

\* Somebody else's hooks, one of them under a name of ours, and one an older
\* client of ours left.
UsedHooks == [catchup |-> None, wake |-> "foreign", older |-> "outdated", theirs |-> "foreign"]

\* A machine nobody has set up has no hooks.json; one where Main was has an
\* entry with Main's key, too.
HarnessInit ==
  /\ Init
  /\ mcp = [c \in Checkout |-> IF c = Main THEN keyfile[MainAgent] ELSE None]
  /\ hooks = IF keyfile[MainAgent] = None THEN NoHooks ELSE UsedHooks
  /\ wiring = [c \in Checkout |-> None]

-----------------------------------------------------------------------------
Wires(c, pc) == wiring[c] # None /\ wiring[c].pc = pc
Advance(c, w) == wiring' = [wiring EXCEPT ![c] = w]

Begun(kind, pc, agent) ==
  [kind |-> kind, pc |-> pc, agent |-> agent, key |-> None, seen |-> NoHooks,
   failed |-> FALSE, raced |-> FALSE]

\* A checkout runs one command at a time, and this is still one.
Alone == \A c \in Checkout : wiring[c] # None => run'[c] = None

\* A step of Onboard. A command that ends with it was killed, or is not one
\* that goes on here.
Onboarding ==
  /\ Next
  /\ Alone
  /\ UNCHANGED <<mcp, hooks, wiring>>

Continue(c) ==
  /\ \/ DumpSettings(c) /\ Advance(c, Begun("claude", "probe", run[c].name))
     \/ Mark(c) /\ Advance(c, Begun("agy", "load", run[c].name))
  /\ Alone
  /\ UNCHANGED <<mcp, hooks>>

-----------------------------------------------------------------------------
(* Claude's entry for this checkout.                                          *)

\* Mutant: an entry that is there is taken to be right.
ProbeTrusts(c) ==
  LET w == wiring[c]
      key == keyfile[w.agent]
  IN /\ Wires(c, "probe")
     /\ Advance(c, [w EXCEPT !.pc = IF key = None \/ mcp[c] # None THEN "done" ELSE "add",
                             !.key = key])
     /\ UNCHANGED <<vars, mcp, hooks>>

\* Take the agent's stored key and ask Claude whether the checkout has an entry.
\* A question that fails counts as a no. Without a key there is nothing to do,
\* and without Claude a script that adds the entry is left for the operator.
Probe(c) ==
  LET w == wiring[c]
      key == keyfile[w.agent]
  IN /\ Wires(c, "probe")
     /\ \/ \E found \in {mcp[c] # None, FALSE} :
             Advance(c, [w EXCEPT !.pc = IF key = None THEN "done"
                                         ELSE IF found THEN "remove" ELSE "add",
                                  !.key = key, !.failed = (found # (mcp[c] # None))])
        \/ Advance(c, [w EXCEPT !.pc = "done", !.key = key, !.failed = TRUE])
     /\ UNCHANGED <<vars, mcp, hooks>>

\* The entry does not show its key, so it is removed to be added again.
Remove(c) ==
  /\ Wires(c, "remove")
  /\ \E ok \in BOOLEAN :
       /\ mcp' = IF ok THEN [mcp EXCEPT ![c] = None] ELSE mcp
       /\ Advance(c, [wiring[c] EXCEPT !.pc = "add", !.failed = ~ok])
  /\ UNCHANGED <<vars, hooks>>

\* "Already exists" passes for success.
Add(c) ==
  /\ Wires(c, "add")
  /\ \E ok \in BOOLEAN :
       /\ mcp' = IF ok /\ mcp[c] = None THEN [mcp EXCEPT ![c] = wiring[c].key] ELSE mcp
       /\ Advance(c, [wiring[c] EXCEPT !.pc = "done", !.failed = @ \/ ~ok])
  /\ UNCHANGED <<vars, hooks>>

-----------------------------------------------------------------------------
(* agy's hooks.                                                               *)

\* A hook is recognised as ours by the command it runs.
IsOurs(owner) == owner \in {"ours", "outdated"}

\* Our names get today's hooks, whoever had them; what else is ours goes.
Ensure(file) ==
  [n \in Name |-> IF n \in OurHooks THEN "ours"
                  ELSE IF IsOurs(file[n]) THEN None ELSE file[n]]

LoadHooks(c) ==
  /\ Wires(c, "load")
  /\ Advance(c, [wiring[c] EXCEPT !.pc = "write", !.seen = hooks, !.raced = FALSE])
  /\ UNCHANGED <<vars, mcp, hooks>>

\* Those who have hooks.json loaded or have just written it learn of an edit.
Raced(W, c) ==
  [d \in Checkout |-> IF d # c /\ W[d] # None THEN [W[d] EXCEPT !.raced = TRUE] ELSE W[d]]

\* Written only if the merge changed something. (It may undo an edit.)
WriteHooks(c) ==
  LET w == wiring[c]
      W == [wiring EXCEPT ![c] = [w EXCEPT !.pc = "done"]]
  IN /\ Wires(c, "write")
     /\ hooks' = IF Ensure(w.seen) # w.seen THEN Ensure(w.seen) ELSE hooks
     /\ wiring' = IF w.raced THEN Raced(W, c) ELSE W
     /\ UNCHANGED <<vars, mcp>>

\* Somebody adds a hook of theirs, or takes it out.
EditHooks ==
  /\ Event
  /\ hooks' = [hooks EXCEPT !["theirs"] = IF @ = None THEN "foreign" ELSE None]
  /\ wiring' = Raced(wiring, None)
  /\ UNCHANGED <<store, bus, project, settings, run, runs, mcp>>

-----------------------------------------------------------------------------
\* The command ends here, in its own time or killed.
Leave(c) ==
  /\ wiring[c] # None
  /\ Advance(c, None)
  /\ UNCHANGED <<vars, mcp, hooks>>

HarnessStep(c) ==
  \/ Continue(c) \/ Probe(c) \/ Remove(c) \/ Add(c)
  \/ LoadHooks(c) \/ WriteHooks(c) \/ Leave(c)

HarnessNext ==
  \/ Onboarding
  \/ \E c \in Checkout : HarnessStep(c)
  \/ EditHooks

HarnessSpec == HarnessInit /\ [][HarnessNext]_harnessVars

-----------------------------------------------------------------------------
HarnessTypeOK ==
  /\ TypeOK
  /\ mcp \in [Checkout -> Maybe(Key)]
  /\ hooks \in HookFile
  /\ wiring \in [Checkout -> Maybe(HarnessPart)]

\* However often setup is run, and beside whatever it finds, it converges: a
\* Claude setup none of whose calls to Claude failed leaves an entry with the
\* key it read from the agent's file, and an agy setup leaves one hook of ours
\* for each purpose and everybody else's as it found them (but for one that
\* has a name of ours), unless the file was edited meanwhile.
SetupConverges ==
  \A c \in Checkout : Wires(c, "done") =>
    LET w == wiring[c] IN
    /\ (w.kind = "claude" /\ w.key # None /\ ~w.failed) => mcp[c] = w.key
    /\ (w.kind = "agy" /\ ~w.raced) =>
         /\ {n \in Name : IsOurs(hooks[n])} = OurHooks
         /\ \A n \in OurHooks : hooks[n] = "ours"
         /\ \A n \in Name \ OurHooks : w.seen[n] = "foreign" => hooks[n] = "foreign"
=============================================================================
