------------------------------ MODULE Onboard ------------------------------
(* How a checkout gets an identity and a credential, keeps them and gives     *)
(* them up: signin, setup (claude, agy, opencode), register and teardown      *)
(* (onboarding/_identity.py, _credentials.py, _provision.py, _signin.py, the  *)
(* setup modules, cli/_register.py, cli/_common.py, hooks/_identity.py).      *)
(*                                                                            *)
(* Main is a checkout and Tree a linked git worktree of it. A command runs in *)
(* one checkout, one at a time there; the two run concurrently and share the  *)
(* key directory, the operator credential and the harness's settings. Every   *)
(* command may fail or be killed between any two of its steps, and the bus    *)
(* may refuse, revoke or be out of reach.                                     *)
EXTENDS Naturals, FiniteSets

CONSTANTS
  Main, Tree,           \* the checkouts
  MainAgent, TreeAgent, \* the names the bus derives for their sessions
  Named,                \* a name the operator chose
  Workspace,            \* the workspaces keys belong to
  None,
  MaxRuns,              \* bound on the commands started
  MaxKeys,              \* bound on the keys minted
  MaxEvents             \* bound on signins, revocations and edits by others

Checkout == {Main, Tree}
Agent == {MainAgent, TreeAgent, Named}
Key == 1..MaxKeys
Harness == {"claude", "agy", "opencode"}
Binding == [agent : Agent, ws : Workspace]  \* what the bus binds a key to
Derived == [c \in Checkout |-> IF c = Main THEN MainAgent ELSE TreeAgent]

Maybe(S) == S \cup {None}
Wiring == {"decl", "local", "load", "dump", "entry", "mark"}
Kinds == Harness \cup {"register", "teardown", "purge"}
Steps == Wiring \cup {"validate", "aside", "register", "key", "store", "claim",
                      "rm", "unset", "purgekey"}
Command ==
  [kind : Kinds, pc : Steps, env : Maybe(Agent), name : Maybe(Agent),
   stored : Maybe(Key), op : Maybe(Workspace), key : Maybe(Key),
   seen : [plugin : BOOLEAN, hooks : BOOLEAN],
   declared : BOOLEAN, asked : BOOLEAN, calm : BOOLEAN]

ASSUME OnboardAssumption ==
  /\ Main # Tree
  /\ Cardinality(Agent) = 3
  /\ None \notin Checkout \cup Agent \cup Workspace \cup Nat \cup Binding \cup Command
  /\ {MaxRuns, MaxEvents} \subseteq Nat /\ MaxKeys \in Nat \ {0}

VARIABLES
  operator,  \* operator.env: the workspace its key opens, or None
  fallback,  \* signin.json's default_agent
  keyfile,   \* keys/<agent>.env: the key stored for each agent
  issued,    \* what the bus bound each key to
  dead,      \* the keys the bus no longer honours
  row,       \* the agent the bus knows each checkout's session as, per workspace
  barred,    \* the workspaces whose operator key the bus refuses
  decl,      \* <checkout>/.agentbus/agent
  local,     \* <checkout>/.claude/settings.local.json, env.AGENTBUS_AGENT
  bearer,    \* the key in <checkout>/opencode.json
  listed,    \* the checkouts in agy-workspaces.txt
  settings,  \* the harness's own settings: our plugin, our hooks
  run,       \* the command running in each checkout
  runs, events

store == <<operator, fallback, keyfile>>
bus == <<issued, dead, row, barred>>
project == <<decl, local, bearer, listed>>
vars == <<store, bus, project, settings, run, runs, events>>

NoSettings == [plugin |-> FALSE, hooks |-> FALSE]

\* A machine nobody has set up, or one where Main was (with key 1, in home).
Init ==
  \E home \in Maybe(Workspace) :
    LET before == home # None
        If(x) == IF before THEN x ELSE None
        InMain(x) == [c \in Checkout |-> IF c = Main THEN If(x) ELSE None]
    IN /\ operator \in IF before THEN {home} ELSE Maybe(Workspace)
       /\ keyfile = [a \in Agent |-> IF a = MainAgent THEN If(1) ELSE None]
       /\ issued = [k \in Key |-> IF k = 1 THEN If([agent |-> MainAgent, ws |-> home])
                                 ELSE None]
       /\ row = [w \in Workspace |-> IF w = home THEN InMain(MainAgent)
                                     ELSE [c \in Checkout |-> None]]
       /\ decl = InMain(MainAgent)
       /\ local = InMain(MainAgent)
       /\ settings = [plugin |-> FALSE, hooks |-> before]
       /\ fallback = None /\ dead = {} /\ barred = {} /\ listed = {}
       /\ bearer = [c \in Checkout |-> None]
       /\ run = [c \in Checkout |-> None]
       /\ runs = 0 /\ events = 0

-----------------------------------------------------------------------------
(* Who a session is, as each part of the client decides it. env is the value  *)
(* of $AGENTBUS_AGENT: None, the operator's word, or what a harness injects   *)
(* from the main checkout's settings.local.json.                              *)

\* What the checkout itself declares: .agentbus/agent, then settings.local.json.
FromWorktree(c) == decl[c]
FromSettings(c) == local[c]
Declared(c) == IF FromWorktree(c) # None THEN FromWorktree(c) ELSE FromSettings(c)

\* The checkout that holds the repository the worktrees share.
MainWorktree(c) == Main

\* The environment holds the main worktree's name in a worktree that has its own.
Bleeds(c, env) ==
  /\ c # MainWorktree(c)
  /\ Declared(c) \notin {None, env}
  /\ Declared(MainWorktree(c)) = env

\* The hooks' and the command line's view of $AGENTBUS_AGENT.
EnvAgent(c, env) == IF env # None /\ Bleeds(c, env) THEN Declared(c) ELSE env
HookAgent(c, env) == IF env # None THEN EnvAgent(c, env) ELSE Declared(c)

\* Setup's view: the environment as it stands, bleed or not.
SetupName(c, env) == IF env # None THEN env ELSE Declared(c)

\* An agy hook acts for the workspace it is given, and only for a listed one.
AgyAgent(c) == IF c \in listed THEN Declared(c) ELSE None

SessionIdentity(c) == IF Declared(c) # None THEN Declared(c) ELSE fallback

\* The keys on this machine: an agent's own, and the operator's.
OperatorKey == 0
StoredKey(a) == keyfile[a]

\* An agent's own key is for the session that is that agent; to act as another
\* takes the operator's.
ResolveCredentials(c, env, preferred) ==
  LET identity == IF SessionIdentity(c) # None THEN SessionIdentity(c) ELSE env
  IN IF /\ identity # None /\ preferred \in {None, identity}
        /\ StoredKey(identity) # None
     THEN [key |-> StoredKey(identity), agent |-> identity]
     ELSE [key |-> IF operator # None THEN OperatorKey ELSE None,
           agent |-> IF preferred # None THEN preferred ELSE identity]

\* What an ordinary verb runs with: when the environment's name was corrected,
\* the right agent's key, and the environment's is not looked at.
Credential(c, env) ==
  LET preferred == EnvAgent(c, env)
  IN IF preferred # env /\ StoredKey(preferred) # None
     THEN [key |-> StoredKey(preferred), agent |-> preferred]
     ELSE ResolveCredentials(c, env, preferred)

-----------------------------------------------------------------------------
(* Commands. A record for each: kind, pc, env, name (None until the bus has   *)
(* said who this is), stored and op (the credentials it read), key (one just  *)
(* minted), seen (the settings it loaded), declared (the name was known       *)
(* before the bus was asked), asked (the bus answered about the stored key),  *)
(* calm (nobody else touched what it relies on since it started).             *)

Fresh(kind, pc, env, name, stored, op) ==
  [kind |-> kind, pc |-> pc, env |-> env, name |-> name, stored |-> stored,
   op |-> op, key |-> None, seen |-> NoSettings, declared |-> name # None,
   asked |-> TRUE, calm |-> TRUE]

At(c, pc) == run[c] # None /\ run[c].pc = pc
To(r, pc) == [r EXCEPT !.pc = pc]
Naming(r, a) == [r EXCEPT !.name = a]
Storing(r, k) == [r EXCEPT !.stored = k]
Holding(r, k) == [r EXCEPT !.key = k]
Asked(r, yes) == [r EXCEPT !.asked = yes]
Seeing(r, s) == [r EXCEPT !.seen = s]
Upset(r) == [r EXCEPT !.calm = FALSE]

Becomes(c, r) == run' = [run EXCEPT ![c] = r]
Goto(c, pc) == Becomes(c, To(run[c], pc))
Done(c) == Becomes(c, None)
MayStart(c) == run[c] = None /\ runs < MaxRuns
Start(c, r) ==
  /\ MayStart(c)
  /\ runs' = runs + 1
  /\ Becomes(c, r)
  /\ UNCHANGED <<store, bus, project, settings, events>>

\* Everybody but c learns that somebody else has changed things for agents A.
Disturbed(R, c, A) ==
  [d \in Checkout |->
     IF d # c /\ R[d] # None /\ R[d].name \in A \cup {None}
     THEN Upset(R[d]) ELSE R[d]]

Envs(c) == {None, Named, local[Main]}

\* setup: with neither a stored key nor an operator credential it refuses.
StartSetup(c, h, env) ==
  LET name == SetupName(c, env)
      stored == IF name = None THEN None ELSE keyfile[name]
  IN /\ stored # None \/ operator # None
     /\ Start(c, Fresh(h, IF stored # None /\ operator # None
                          THEN "validate" ELSE "register",
                       env, name, stored, operator))

\* Mutant: a key that is alive anywhere is good enough.
VerdictAnywhere(k, op) ==
  IF k \in dead THEN "dead" ELSE IF op \in barred THEN "barred" ELSE "ours"

\* What the bus says when asked who the stored key is and then, where that went
\* well, who the operator key is.
Verdict(k, op) ==
  IF k \in dead THEN "dead" ELSE IF op \in barred THEN "barred"
  ELSE IF issued[k].ws # op THEN "other" ELSE "ours"

\* Mutant: a bus that cannot be reached condemns the key too.
ValidateOrBlip(c) ==
  /\ At(c, "validate")
  /\ \E verdict \in {Verdict(run[c].stored, run[c].op), "unasked"} :
       Becomes(c, To(Asked(run[c], verdict # "unasked"),
                     IF verdict # "ours" THEN "aside" ELSE "register"))
  /\ UNCHANGED <<store, bus, project, settings, runs, events>>

\* Ask the bus about both keys. A call that fails says nothing, but a refusal of
\* the operator key is held against the stored one too.
Validate(c) ==
  /\ At(c, "validate")
  /\ \E verdict \in {Verdict(run[c].stored, run[c].op), "unasked"} :
       Becomes(c, To(Asked(run[c], verdict # "unasked"),
                     IF verdict \in {"dead", "barred", "other"} THEN "aside" ELSE "register"))
  /\ UNCHANGED <<store, bus, project, settings, runs, events>>

\* Rename the refused key file, whatever it holds by now, and go on without it.
SetAside(c) ==
  /\ At(c, "aside")
  /\ keyfile' = [keyfile EXCEPT ![run[c].name] = None]
  /\ run' = [Disturbed(run, c, {run[c].name}) EXCEPT
               ![c] = To(Storing(run[c], None), "register")]
  /\ UNCHANGED <<operator, fallback, bus, project, settings, runs, events>>

\* The bus recognises a session it knows, whatever name it is asked for.
Answers(w, c, name) ==
  (IF row[w][c] # None THEN {row[w][c]} ELSE {}) \cup
  (IF name # None THEN {name} ELSE IF row[w][c] = None THEN {Derived[c]} ELSE {})

RegisterWs(r) == IF r.stored # None THEN issued[r.stored].ws ELSE r.op

\* Register. setup never adopts another name than the one it asked for;
\* register takes the answer as it comes.
Register(c) ==
  LET r == run[c]
      w == RegisterWs(r)
  IN /\ At(c, "register")
     /\ IF r.stored # None THEN r.stored \notin dead ELSE r.op \notin barred
     /\ \E answer \in Answers(w, c, r.name) :
          /\ row' = IF row[w][c] = None THEN [row EXCEPT ![w][c] = answer] ELSE row
          /\ Becomes(c, IF r.kind # "register" /\ r.name \notin {None, answer} THEN None
                        ELSE To(Naming(Storing(r, None), answer), "key"))
     /\ UNCHANGED <<store, issued, dead, barred, project, settings, runs, events>>

AfterKey(kind) ==
  CASE kind = "opencode" -> "entry"
    [] kind = "register" -> "claim"
    [] OTHER -> "decl"

\* The next key the bus issues: it has bound none with that number yet.
Unissued(k) == issued[k] = None /\ \A j \in Key : j < k => issued[j] # None
Issue(k, a, w) == Unissued(k) /\ issued' = [issued EXCEPT ![k] = [agent |-> a, ws |-> w]]

\* A key file that exists is enough, whatever it holds.
KeepKey(c) ==
  /\ At(c, "key")
  /\ keyfile[run[c].name] # None
  /\ Goto(c, AfterKey(run[c].kind))
  /\ UNCHANGED <<store, bus, project, settings, runs, events>>

\* Otherwise mint one with the operator key. setup read it when it started,
\* register reads it now.
MintKey(c) ==
  LET op == IF run[c].kind = "register" THEN operator ELSE run[c].op
  IN /\ At(c, "key")
     /\ keyfile[run[c].name] = None
     /\ op # None /\ op \notin barred
     /\ \E k \in Key :
          /\ Issue(k, run[c].name, op)
          /\ Becomes(c, To(Holding(run[c], k), "store"))
     /\ UNCHANGED <<store, dead, row, barred, project, settings, runs, events>>

\* register goes on without a key, to say so at the end.
NoKey(c) ==
  /\ At(c, "key")
  /\ run[c].kind = "register"
  /\ keyfile[run[c].name] = None
  /\ Goto(c, "claim")
  /\ UNCHANGED <<store, bus, project, settings, runs, events>>

StoreKey(c) ==
  /\ At(c, "store")
  /\ keyfile' = [keyfile EXCEPT ![run[c].name] = run[c].key]
  /\ run' = [Disturbed(run, c, {run[c].name}) EXCEPT
               ![c] = To(Holding(run[c], None), AfterKey(run[c].kind))]
  /\ UNCHANGED <<operator, fallback, bus, project, settings, runs, events>>

-----------------------------------------------------------------------------
(* Wiring the checkout and the harness.                                       *)

\* .agentbus/agent, written by every path but opencode's.
WriteDecl(c) ==
  /\ At(c, "decl")
  /\ decl' = [decl EXCEPT ![c] = run[c].name]
  /\ CASE run[c].kind = "claude" -> Goto(c, "local")
       [] run[c].kind = "agy" -> Goto(c, "mark")
       [] OTHER -> Done(c)
  /\ UNCHANGED <<store, bus, local, bearer, listed, settings, runs, events>>

WriteLocal(c) ==
  /\ At(c, "local")
  /\ local' = [local EXCEPT ![c] = run[c].name]
  /\ Goto(c, "load")
  /\ UNCHANGED <<store, bus, decl, bearer, listed, settings, runs, events>>

\* The checkout joins the list of those the machine-wide agy hooks act for.
Mark(c) ==
  /\ At(c, "mark")
  /\ listed' = listed \cup {c}
  /\ Done(c)
  /\ UNCHANGED <<store, bus, decl, local, bearer, settings, runs, events>>

\* Install the wake plugin if it is not enabled (that may fail), then load the
\* harness's settings.
InstallWakePlugin(enabled) == {enabled, TRUE}

LoadSettings(c) ==
  /\ At(c, "load")
  /\ \E installed \in InstallWakePlugin(settings.plugin) :
       /\ settings' = [settings EXCEPT !.plugin = installed]
       /\ Becomes(c, To(Seeing(run[c], settings'), "dump"))
  /\ UNCHANGED <<store, bus, project, runs, events>>

\* Write back what was loaded, with our hooks in it only if the plugin is not.
Merged(seen) == [plugin |-> seen.plugin, hooks |-> ~seen.plugin]
DumpSettings(c) ==
  /\ At(c, "dump")
  /\ settings' = IF Merged(run[c].seen) # run[c].seen \/ run[c].seen.plugin
                 THEN Merged(run[c].seen) ELSE settings
  /\ Done(c)
  /\ UNCHANGED <<store, bus, project, runs, events>>

\* opencode.json gets the agent's stored key, if there is one.
WireEntry(c) ==
  /\ At(c, "entry")
  /\ bearer' = IF keyfile[run[c].name] = None THEN bearer
               ELSE [bearer EXCEPT ![c] = keyfile[run[c].name]]
  /\ Done(c)
  /\ UNCHANGED <<store, bus, decl, local, listed, settings, runs, events>>

-----------------------------------------------------------------------------
(* register.                                                                  *)

\* A bound key may register its own agent only; the operator's any.
StartRegister(c, env, asked) ==
  LET cred == Credential(c, env)
      name == IF asked # None THEN asked ELSE SetupName(c, env)
  IN /\ cred.key # None
     /\ cred.key # OperatorKey => issued[cred.key].agent = name
     /\ Start(c, Fresh("register", "register", env, name,
                       IF cred.key = OperatorKey THEN None ELSE cred.key, operator))

\* Mutant: the agent just registered takes the project over.
ClaimAnyway(c) ==
  /\ At(c, "claim")
  /\ local' = [local EXCEPT ![c] = run[c].name]
  /\ Goto(c, "decl")
  /\ UNCHANGED <<store, bus, decl, bearer, listed, settings, runs, events>>

\* Wire the project, unless settings.local.json says it is somebody's already.
Claim(c) ==
  /\ At(c, "claim")
  /\ IF local[c] = None
     THEN local' = [local EXCEPT ![c] = run[c].name] /\ Goto(c, "decl")
     ELSE UNCHANGED local /\ Done(c)
  /\ UNCHANGED <<store, bus, decl, bearer, listed, settings, runs, events>>

-----------------------------------------------------------------------------
(* teardown: the declaration, then the settings entry, then (asked to) the    *)
(* key. The harness's entries and the agy list are left alone.                *)

StartTeardown(c, purge) ==
  Start(c, Fresh(IF purge THEN "purge" ELSE "teardown", "rm", None, Declared(c), None, None))

\* Mutant: the two records are one, so removing the first is enough.
UnsetIfAlone(c) ==
  /\ At(c, "unset")
  /\ local' = [local EXCEPT ![c] = IF run[c].name = local[c] THEN local[c] ELSE None]
  /\ Goto(c, "purgekey")
  /\ UNCHANGED <<store, bus, decl, bearer, listed, settings, runs, events>>

RemoveDecl(c) ==
  /\ At(c, "rm")
  /\ decl' = [decl EXCEPT ![c] = None]
  /\ Goto(c, "unset")
  /\ UNCHANGED <<store, bus, local, bearer, listed, settings, runs, events>>

UnsetLocal(c) ==
  /\ At(c, "unset")
  /\ local' = [local EXCEPT ![c] = None]
  /\ Goto(c, "purgekey")
  /\ UNCHANGED <<store, bus, decl, bearer, listed, settings, runs, events>>

PurgeKey(c) ==
  LET gone == IF run[c].kind = "purge" THEN {run[c].name} ELSE {}
  IN /\ At(c, "purgekey")
     /\ keyfile' = [a \in Agent |-> IF a \in gone THEN None ELSE keyfile[a]]
     /\ run' = [Disturbed(run, c, gone) EXCEPT ![c] = None]
     /\ UNCHANGED <<operator, fallback, bus, project, settings, runs, events>>

-----------------------------------------------------------------------------
(* What happens around the commands.                                          *)

Event == events < MaxEvents /\ events' = events + 1

\* signin with a workspace key the bus takes, or with a key bound to the one
\* agent a.
Signin(w) ==
  /\ Event
  /\ w \notin barred
  /\ operator' = w
  /\ fallback' = None
  /\ run' = Disturbed(run, None, Agent)
  /\ UNCHANGED <<keyfile, bus, project, settings, runs>>

SigninBound(w, a) ==
  /\ Event
  /\ \E k \in Key : Issue(k, a, w) /\ keyfile' = [keyfile EXCEPT ![a] = k]
  /\ fallback' = a
  /\ run' = Disturbed(run, None, {a})
  /\ UNCHANGED <<operator, dead, row, barred, project, settings, runs>>

Revoke(k) ==
  /\ Event
  /\ issued[k] # None /\ k \notin dead
  /\ dead' = dead \cup {k}
  /\ run' = Disturbed(run, None, {issued[k].agent})
  /\ UNCHANGED <<store, issued, row, barred, project, settings, runs>>

\* The bus no longer takes the operator key of w; its other keys stay good.
Refuse(w) ==
  /\ Event
  /\ w \notin barred
  /\ barred' = barred \cup {w}
  /\ UNCHANGED <<store, issued, dead, row, project, settings, run, runs>>

\* Somebody enables or disables the plugin in the harness.
EditSettings ==
  /\ Event
  /\ settings' = [settings EXCEPT !.plugin = ~settings.plugin]
  /\ run' = Disturbed(run, None, Agent)
  /\ UNCHANGED <<store, bus, project, runs>>

\* A call fails and the command gives up, or it is killed.
Quit(c) ==
  /\ run[c] # None
  /\ Done(c)
  /\ UNCHANGED <<store, bus, project, settings, runs, events>>

Step(c) ==
  \/ Validate(c) \/ SetAside(c) \/ Register(c) \/ KeepKey(c) \/ MintKey(c)
  \/ NoKey(c) \/ StoreKey(c) \/ WriteDecl(c) \/ WriteLocal(c) \/ Mark(c)
  \/ LoadSettings(c) \/ DumpSettings(c) \/ WireEntry(c) \/ Claim(c)
  \/ RemoveDecl(c) \/ UnsetLocal(c) \/ PurgeKey(c) \/ Quit(c)

Next ==
  \/ \E c \in Checkout :
       \/ Step(c)
       \/ /\ MayStart(c)
          /\ \/ \E h \in Harness, env \in Envs(c) : StartSetup(c, h, env)
             \/ \E env \in Envs(c), asked \in {None, Named} : StartRegister(c, env, asked)
             \/ \E purge \in BOOLEAN : StartTeardown(c, purge)
  \/ \E w \in Workspace : Signin(w) \/ SigninBound(w, Named) \/ Refuse(w)
  \/ \E k \in Key : Revoke(k)
  \/ EditSettings

Spec == Init /\ [][Next]_vars

-----------------------------------------------------------------------------
(* Properties.                                                                *)

SettingUp(c) == run[c] # None /\ run[c].kind \in Harness

TypeOK ==
  /\ operator \in Maybe(Workspace) /\ fallback \in Maybe(Agent)
  /\ keyfile \in [Agent -> Maybe(Key)]
  /\ issued \in [Key -> Maybe(Binding)]
  /\ dead \subseteq Key /\ barred \subseteq Workspace
  /\ row \in [Workspace -> [Checkout -> Maybe(Agent)]]
  /\ decl \in [Checkout -> Maybe(Agent)] /\ local \in [Checkout -> Maybe(Agent)]
  /\ bearer \in [Checkout -> Maybe(Key)]
  /\ listed \subseteq Checkout
  /\ settings \in [plugin : BOOLEAN, hooks : BOOLEAN]
  /\ run \in [Checkout -> Maybe(Command)]
  /\ runs \in 0..MaxRuns /\ events \in 0..MaxEvents

\* A setup that goes on to wire a checkout has, for the agent it wires, a key
\* that the bus honours in the workspace this machine is signed in to, unless
\* it could not ask, the name was not known before the bus was asked, or
\* somebody changed the key or the sign-in under it.
FinishedSetupWorks ==
  \A c \in Checkout :
    (/\ SettingUp(c) /\ run[c].pc \in Wiring
     /\ run[c].calm /\ run[c].declared /\ run[c].asked /\ run[c].op # None)
    => /\ run[c].op = operator
       /\ keyfile[run[c].name] \in Key \ dead
       /\ issued[keyfile[run[c].name]] = [agent |-> run[c].name, ws |-> operator]

\* A key the bus still honours in the workspace this machine is signed in to
\* never leaves its file, except by a teardown told to purge it, by a setup
\* under whose feet the file or the sign-in was changed, or by one whose
\* operator key the bus refuses.
LiveKeyKept ==
  [][\A a \in Agent :
       (/\ keyfile[a] \in Key \ dead /\ issued[keyfile[a]].ws = operator
        /\ keyfile'[a] = None)
       => \E c \in Checkout :
            /\ run[c] # None /\ run[c].name = a
            /\ run[c].kind = "purge" \/ ~run[c].calm \/ run[c].op \in barred]_vars

\* The identity a checkout declares is replaced by another only by a command
\* whose environment names the new one, or by a register that found none in
\* settings.local.json; what that file names only setup ever replaces.
DeclarationIsDeliberate ==
  [][\A c \in Checkout :
       /\ (decl[c] # None /\ decl'[c] \notin {None, decl[c]})
          => (run[c].env = decl'[c] \/ run[c].kind = "register")
       /\ (local[c] # None /\ local'[c] \notin {None, local[c]})
          => (run[c].kind = "claude" /\ decl[c] = local'[c])]_vars

\* Once a teardown has removed what it removes, no hook, no agy hook and no
\* command acts for an agent because of that checkout.
SilentAfterTeardown ==
  \A c \in Checkout : At(c, "purgekey") =>
    HookAgent(c, None) = None /\ AgyAgent(c) = None /\ SessionIdentity(c) = fallback
=============================================================================
