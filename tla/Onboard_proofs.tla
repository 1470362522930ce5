--------------------------- MODULE Onboard_proofs ---------------------------
(* What the Onboard module promises, for any number of workspaces, keys,      *)
(* commands and events.                                                       *)
EXTENDS Harness, TLAPS

-----------------------------------------------------------------------------
(* The inductive invariant, command by command.                               *)

\* A teardown goes through its own steps and no other command does.
Leaves(c) ==
  run[c] # None =>
    /\ (run[c].pc \in {"rm", "unset", "purgekey"}) = (run[c].kind \in {"teardown", "purge"})
    /\ (run[c].pc \in {"unset", "purgekey"}) => decl[c] = None
    /\ (run[c].pc = "purgekey") => local[c] = None

\* A setup acts for the exported name, or for what the checkout declares.
Sure(c) ==
  SettingUp(c) =>
    /\ (run[c].env # None /\ run[c].name = run[c].env) \/ decl[c] \in {None, run[c].name}
    /\ (run[c].pc \in Wiring \cup {"store", "key"}) => run[c].name # None
    /\ (run[c].pc = "local") => (run[c].kind = "claude" /\ decl[c] = run[c].name)

\* A stored key was issued to the agent whose file it is in, and only issued
\* keys die.
Bound ==
  /\ \A a \in Agent : keyfile[a] # None =>
       (issued[keyfile[a]] # None /\ issued[keyfile[a]].agent = a)
  /\ \A k \in dead : issued[k] # None

\* What a setup nobody disturbed knows of the agent's key, step by step.
Ours(r) == keyfile[r.name] # None /\ issued[keyfile[r.name]].ws = r.op
Sound(r) == Ours(r) /\ keyfile[r.name] \notin dead
Known(c) ==
  (SettingUp(c) /\ run[c].calm /\ run[c].op # None /\ run[c].declared) =>
    LET r == run[c] IN
      /\ r.op = operator
      /\ r.name # None
      /\ (r.pc \in {"validate", "aside"}) => (r.stored # None /\ r.stored = keyfile[r.name])
      /\ (r.pc = "aside") => (r.stored \in dead \/ r.op \in barred \/ issued[r.stored].ws # r.op)
      /\ (r.asked /\ r.pc = "register") =>
           (r.stored = keyfile[r.name] /\ (r.stored # None => Ours(r)))
      /\ (r.asked /\ r.pc = "key") => (keyfile[r.name] # None => Sound(r))
      /\ (r.asked /\ r.pc = "store") =>
           (r.key \notin dead /\ issued[r.key] = [agent |-> r.name, ws |-> r.op])
      /\ (r.asked /\ r.pc \in Wiring) => Sound(r)

\* Only a setup that knows its name looks at a stored key, only a register
\* claims a project, a key somebody holds was issued, and every command has
\* what its step needs.
Looks(c) ==
  run[c] # None =>
    /\ (run[c].stored # None) => issued[run[c].stored] # None
    /\ (run[c].pc \in {"validate", "aside"}) =>
         (/\ SettingUp(c) /\ run[c].declared
          /\ run[c].stored # None /\ run[c].op # None /\ run[c].name # None)
    /\ (run[c].pc = "register") => (run[c].stored # None \/ run[c].op # None)
    /\ (run[c].pc = "claim") => (run[c].kind = "register")
    /\ (run[c].pc \in {"local", "load", "dump"}) => (run[c].kind = "claude")
    /\ (run[c].pc = "mark") => (run[c].kind = "agy")
    /\ (run[c].pc \in {"key", "store", "entry"}) => (run[c].name # None)
    /\ (run[c].pc = "store") =>
         (/\ run[c].key # None /\ issued[run[c].key] # None
          /\ issued[run[c].key].agent = run[c].name)

Inv ==
  /\ TypeOK
  /\ Bound
  /\ \A c \in Checkout : Leaves(c)
  /\ \A c \in Checkout : Sure(c)
  /\ \A c \in Checkout : Looks(c)
  /\ \A c \in Checkout : Known(c)

-----------------------------------------------------------------------------
(* What a command's record is after each kind of change.                      *)

LEMMA ToRecord ==
  ASSUME NEW r \in Command, NEW p
  PROVE  To(r, p) =
           [kind |-> r.kind, pc |-> p, env |-> r.env, name |-> r.name,
            stored |-> r.stored, op |-> r.op, key |-> r.key, seen |-> r.seen,
            declared |-> r.declared, asked |-> r.asked, calm |-> r.calm]
BY DEF Command, To

LEMMA NamingRecord ==
  ASSUME NEW r \in Command, NEW x
  PROVE  Naming(r, x) =
           [kind |-> r.kind, pc |-> r.pc, env |-> r.env, name |-> x,
            stored |-> r.stored, op |-> r.op, key |-> r.key, seen |-> r.seen,
            declared |-> r.declared, asked |-> r.asked, calm |-> r.calm]
BY DEF Command, Naming

LEMMA StoringRecord ==
  ASSUME NEW r \in Command, NEW x
  PROVE  Storing(r, x) =
           [kind |-> r.kind, pc |-> r.pc, env |-> r.env, name |-> r.name,
            stored |-> x, op |-> r.op, key |-> r.key, seen |-> r.seen,
            declared |-> r.declared, asked |-> r.asked, calm |-> r.calm]
BY DEF Command, Storing

LEMMA HoldingRecord ==
  ASSUME NEW r \in Command, NEW x
  PROVE  Holding(r, x) =
           [kind |-> r.kind, pc |-> r.pc, env |-> r.env, name |-> r.name,
            stored |-> r.stored, op |-> r.op, key |-> x, seen |-> r.seen,
            declared |-> r.declared, asked |-> r.asked, calm |-> r.calm]
BY DEF Command, Holding

LEMMA AskedRecord ==
  ASSUME NEW r \in Command, NEW x
  PROVE  Asked(r, x) =
           [kind |-> r.kind, pc |-> r.pc, env |-> r.env, name |-> r.name,
            stored |-> r.stored, op |-> r.op, key |-> r.key, seen |-> r.seen,
            declared |-> r.declared, asked |-> x, calm |-> r.calm]
BY DEF Command, Asked

LEMMA SeeingRecord ==
  ASSUME NEW r \in Command, NEW x
  PROVE  Seeing(r, x) =
           [kind |-> r.kind, pc |-> r.pc, env |-> r.env, name |-> r.name,
            stored |-> r.stored, op |-> r.op, key |-> r.key, seen |-> x,
            declared |-> r.declared, asked |-> r.asked, calm |-> r.calm]
BY DEF Command, Seeing

LEMMA UpsetRecord ==
  ASSUME NEW r \in Command
  PROVE  Upset(r) =
           [kind |-> r.kind, pc |-> r.pc, env |-> r.env, name |-> r.name,
            stored |-> r.stored, op |-> r.op, key |-> r.key, seen |-> r.seen,
            declared |-> r.declared, asked |-> r.asked, calm |-> FALSE]
<1>1. \A x : [r EXCEPT !.calm = x] =
           [kind |-> r.kind, pc |-> r.pc, env |-> r.env, name |-> r.name,
            stored |-> r.stored, op |-> r.op, key |-> r.key, seen |-> r.seen,
            declared |-> r.declared, asked |-> r.asked, calm |-> x]
  BY DEF Command
<1>2. QED
  BY <1>1, Zenon DEF Upset

LEMMA CommandsStayCommands ==
  ASSUME NEW r \in Command
  PROVE  /\ \A p \in Steps : To(r, p) \in Command
         /\ \A a \in Maybe(Agent) : Naming(r, a) \in Command
         /\ \A k \in Maybe(Key) : Storing(r, k) \in Command /\ Holding(r, k) \in Command
         /\ \A yes \in BOOLEAN : Asked(r, yes) \in Command
         /\ \A s \in [plugin : BOOLEAN, hooks : BOOLEAN] : Seeing(r, s) \in Command
         /\ Upset(r) \in Command
BY DEF Command, To, Naming, Storing, Holding, Asked, Seeing, Upset

LEMMA RunningIsACommand ==
  ASSUME TypeOK, NEW c \in Checkout, run[c] # None
  PROVE  run[c] \in Command
BY DEF TypeOK, Maybe

-----------------------------------------------------------------------------
(* Those who do not take the step.                                            *)

\* d did not move; if the step was about agents A, d is not, or has learnt it.
Bystander(d, A) ==
  \/ run'[d] = run[d] /\ (run[d] # None => run[d].name \notin A)
  \/ run[d] # None /\ run'[d] = Upset(run[d])

\* What a step about agents A may do to the stores and the bus.
About(A) ==
  /\ \A k \in Key : issued[k] # None => issued'[k] = issued[k]
  /\ dead \subseteq dead' /\ barred \subseteq barred'
  /\ \A k \in dead' \ dead : issued[k] # None /\ issued[k].agent \in A
  /\ \A a \in Agent \ A : keyfile'[a] = keyfile[a]
  /\ operator' = operator \/ A = Maybe(Agent)

LEMMA BecomesOwn ==
  ASSUME TypeOK, NEW c \in Checkout, NEW r \in Maybe(Command), Becomes(c, r)
  PROVE  /\ run'[c] = r
         /\ \A d \in Checkout \ {c} : Bystander(d, {})
         /\ run' \in [Checkout -> Maybe(Command)]
BY DEF TypeOK, Becomes, Bystander

LEMMA DisturbedRuns ==
  ASSUME TypeOK, NEW c, NEW A
  PROVE  /\ Disturbed(run, c, A) \in [Checkout -> Maybe(Command)]
         /\ \A d \in Checkout \ {c} :
              LET r == Disturbed(run, c, A)[d] IN
              \/ r = run[d] /\ (run[d] # None => run[d].name \notin A \cup {None})
              \/ run[d] # None /\ r = Upset(run[d])
<1>1. \A d \in Checkout : run[d] \in Maybe(Command)
  BY DEF TypeOK
<1>2. \A d \in Checkout : run[d] # None => Upset(run[d]) \in Command
  BY <1>1, CommandsStayCommands DEF Maybe
<1>3. QED
  BY <1>1, <1>2 DEF Disturbed, Maybe

LEMMA DisturbingOwn ==
  ASSUME TypeOK, NEW c \in Checkout, NEW r \in Maybe(Command), NEW A,
         run' = [Disturbed(run, c, A) EXCEPT ![c] = r]
  PROVE  /\ run'[c] = r
         /\ \A d \in Checkout \ {c} : Bystander(d, A)
         /\ run' \in [Checkout -> Maybe(Command)]
BY DisturbedRuns DEF Bystander

LEMMA DisturbingAll ==
  ASSUME TypeOK, NEW A, run' = Disturbed(run, None, A)
  PROVE  /\ \A d \in Checkout : Bystander(d, A \cup {None})
         /\ run' \in [Checkout -> Maybe(Command)]
<1>1. None \notin Checkout
  BY OnboardAssumption
<1>2. QED
  BY <1>1, DisturbedRuns DEF Bystander

LEMMA BystanderKeeps ==
  ASSUME TypeOK, NEW A, NEW d \in Checkout, Bystander(d, A), About(A),
         decl'[d] = decl[d], local'[d] = local[d],
         Leaves(d), Sure(d), Looks(d)
  PROVE  Leaves(d)' /\ Sure(d)' /\ Looks(d)'
<1>1. CASE run[d] = None
  BY <1>1 DEF Bystander, Leaves, Sure, Looks, SettingUp
<1>2. CASE run[d] # None
  <2>1. run[d] \in Command
    BY <1>2, RunningIsACommand
  <2>2. /\ run'[d].kind = run[d].kind /\ run'[d].pc = run[d].pc
        /\ run'[d].env = run[d].env /\ run'[d].name = run[d].name
        /\ run'[d].stored = run[d].stored /\ run'[d].op = run[d].op
        /\ run'[d].key = run[d].key /\ run'[d].declared = run[d].declared
    BY <2>1, UpsetRecord DEF Bystander
  <2>3. run[d].stored \in Maybe(Key) /\ run[d].key \in Maybe(Key)
    BY <2>1 DEF Command
  <2>4. Leaves(d)'
    BY <1>2, <2>2 DEF Leaves
  <2>5. Sure(d)'
    BY <1>2, <2>2 DEF Sure, SettingUp
  <2>6. Looks(d)'
    <3>1. run[d].stored # None => issued'[run[d].stored] # None
      BY <1>2, <2>3 DEF Looks, About, Maybe
    <3>2. run[d].pc = "store" => issued'[run[d].key] = issued[run[d].key]
      BY <1>2, <2>3 DEF Looks, About, Maybe
    <3>3. QED
      BY <1>2, <2>2, <3>1, <3>2 DEF Looks, SettingUp
  <2>7. QED
    BY <2>4, <2>5, <2>6
<1>3. QED
  BY <1>1, <1>2

LEMMA BystanderKnows ==
  ASSUME TypeOK, Bound, NEW A, NEW d \in Checkout, Bystander(d, A), About(A),
         Looks(d), Known(d)
  PROVE  Known(d)'
<1>1. CASE run'[d] = None
  BY <1>1 DEF Known, SettingUp
<1>2. CASE run[d] # None /\ run'[d] = Upset(run[d])
  BY <1>2, RunningIsACommand, UpsetRecord DEF Known
<1>3. CASE run[d] # None /\ run'[d] = run[d] /\ run[d].name \notin A
  <2> DEFINE r == run[d]
             k == keyfile[r.name]
  <2> SUFFICES ASSUME SettingUp(d), r.calm, r.op # None, r.declared
               PROVE  Known(d)'
    BY <1>3 DEF Known, SettingUp
  <2>1. r \in Command
    BY <1>3, RunningIsACommand
  <2>2. r.name \in Agent \ A /\ r.op = operator
    BY <1>3, <2>1 DEF Known, Command, Maybe
  <2>3. keyfile'[r.name] = k /\ operator' = operator
    BY <2>2 DEF About, Maybe
  <2>4. k # None => k \in Key /\ issued[k] # None /\ issued[k].agent = r.name
    BY <2>2 DEF Bound, TypeOK, Maybe
  <2>5. k # None => issued'[k] = issued[k] /\ (k \notin dead => k \notin dead')
    BY <2>2, <2>4 DEF About
  <2>6. r.stored # None => r.stored \in Key /\ issued'[r.stored] = issued[r.stored]
    BY <1>3, <2>1 DEF Looks, About, Command, Maybe
  <2>7. r.pc = "store" =>
          r.key \in Key /\ issued'[r.key] = issued[r.key] /\ (r.key \notin dead => r.key \notin dead')
    BY <1>3, <2>1, <2>2 DEF Looks, About, Command, Maybe
  <2>8. dead \subseteq dead' /\ barred \subseteq barred'
    BY DEF About
  <2>9. /\ r.op = operator /\ r.name # None
        /\ (r.pc \in {"validate", "aside"}) => (r.stored # None /\ r.stored = k)
        /\ (r.pc = "aside") => (r.stored \in dead \/ r.op \in barred \/ issued[r.stored].ws # r.op)
        /\ (r.asked /\ r.pc = "register") =>
             (r.stored = k /\ (r.stored # None => (k # None /\ issued[k].ws = r.op)))
        /\ (r.asked /\ r.pc = "key") =>
             (k # None => (k # None /\ issued[k].ws = r.op /\ k \notin dead))
        /\ (r.asked /\ r.pc = "store") =>
             (r.key \notin dead /\ issued[r.key] = [agent |-> r.name, ws |-> r.op])
        /\ (r.asked /\ r.pc \in Wiring) => (k # None /\ issued[k].ws = r.op /\ k \notin dead)
    BY <1>3 DEF Known, Ours, Sound
  <2> SUFFICES
        /\ r.op = operator' /\ r.name # None
        /\ (r.pc \in {"validate", "aside"}) => (r.stored # None /\ r.stored = k)
        /\ (r.pc = "aside") => (r.stored \in dead' \/ r.op \in barred' \/ issued'[r.stored].ws # r.op)
        /\ (r.asked /\ r.pc = "register") =>
             (r.stored = k /\ (r.stored # None => (k # None /\ issued'[k].ws = r.op)))
        /\ (r.asked /\ r.pc = "key") =>
             (k # None => (k # None /\ issued'[k].ws = r.op /\ k \notin dead'))
        /\ (r.asked /\ r.pc = "store") =>
             (r.key \notin dead' /\ issued'[r.key] = [agent |-> r.name, ws |-> r.op])
        /\ (r.asked /\ r.pc \in Wiring) => (k # None /\ issued'[k].ws = r.op /\ k \notin dead')
    BY <1>3, <2>3 DEF Known, Ours, Sound
  <2> HIDE DEF r, k
  <2>10. r.op = operator' /\ r.name # None
    BY <2>3, <2>9
  <2>11. (r.pc = "aside") => (r.stored \in dead' \/ r.op \in barred' \/ issued'[r.stored].ws # r.op)
    BY <2>6, <2>8, <2>9
  <2>12. QED
    BY <2>5, <2>7, <2>9, <2>10, <2>11
<1>4. QED
  BY <1>1, <1>2, <1>3 DEF Bystander

LEMMA StepKeeps ==
  ASSUME Inv, TypeOK', Bound', NEW A, About(A),
         \A d \in Checkout :
           \/ Bystander(d, A) /\ decl'[d] = decl[d] /\ local'[d] = local[d]
           \/ Leaves(d)' /\ Sure(d)' /\ Looks(d)' /\ Known(d)'
  PROVE  Inv'
<1>1. ASSUME NEW d \in Checkout
      PROVE  Leaves(d)' /\ Sure(d)' /\ Looks(d)' /\ Known(d)'
  <2>1. CASE Bystander(d, A) /\ decl'[d] = decl[d] /\ local'[d] = local[d]
    <3>1. TypeOK /\ Bound /\ Leaves(d) /\ Sure(d) /\ Looks(d) /\ Known(d)
      BY DEF Inv
    <3>2. Leaves(d)' /\ Sure(d)' /\ Looks(d)'
      BY <2>1, <3>1, BystanderKeeps
    <3>3. Known(d)'
      BY <2>1, <3>1, BystanderKnows
    <3>4. QED
      BY <3>2, <3>3
  <2>2. QED
    BY <2>1
<1>2. QED
  BY <1>1 DEF Inv

\* A step of c alone, that leaves the key files and what is issued alone.
LEMMA OwnStep ==
  ASSUME Inv, NEW c \in Checkout, NEW r \in Maybe(Command), Becomes(c, r),
         UNCHANGED <<store, issued, dead, barred, runs, events>>,
         row' \in [Workspace -> [Checkout -> Maybe(Agent)]],
         decl' \in [Checkout -> Maybe(Agent)], local' \in [Checkout -> Maybe(Agent)],
         bearer' \in [Checkout -> Maybe(Key)], listed' \subseteq Checkout,
         settings' \in [plugin : BOOLEAN, hooks : BOOLEAN],
         \A d \in Checkout \ {c} : decl'[d] = decl[d] /\ local'[d] = local[d],
         run'[c] = r => Leaves(c)' /\ Sure(c)' /\ Looks(c)' /\ Known(c)'
  PROVE  Inv'
<1>1. TypeOK
  BY DEF Inv
<1>2. /\ run'[c] = r
      /\ \A d \in Checkout \ {c} : Bystander(d, {})
      /\ run' \in [Checkout -> Maybe(Command)]
  BY <1>1, BecomesOwn
<1>3. TypeOK'
  BY <1>1, <1>2 DEF TypeOK, store
<1>4. Bound'
  BY DEF Inv, Bound, store
<1>5. About({})
  BY DEF About, store
<1>6. QED
  BY <1>2, <1>3, <1>4, <1>5, StepKeeps

\* A command that ends has nothing more to keep.
LEMMA EndStep ==
  ASSUME Inv, NEW c \in Checkout, Done(c),
         UNCHANGED <<store, issued, dead, barred, runs, events>>,
         row' \in [Workspace -> [Checkout -> Maybe(Agent)]],
         decl' \in [Checkout -> Maybe(Agent)], local' \in [Checkout -> Maybe(Agent)],
         bearer' \in [Checkout -> Maybe(Key)], listed' \subseteq Checkout,
         settings' \in [plugin : BOOLEAN, hooks : BOOLEAN],
         \A d \in Checkout \ {c} : decl'[d] = decl[d] /\ local'[d] = local[d]
  PROVE  Inv'
<1>1. None \in Maybe(Command) /\ Becomes(c, None)
  BY DEF Maybe, Done
<1>2. run'[c] = None => Leaves(c)' /\ Sure(c)' /\ Looks(c)' /\ Known(c)'
  BY DEF Leaves, Sure, Looks, Known, SettingUp
<1>3. QED
  BY <1>1, <1>2, OwnStep

LEMMA AtACommand ==
  ASSUME Inv, NEW c \in Checkout, NEW p, At(c, p)
  PROVE  run[c] # None /\ run[c] \in Command /\ run[c].pc = p
BY RunningIsACommand DEF Inv, At

LEMMA ValidateKeeps ==
  ASSUME Inv, NEW c \in Checkout, Validate(c)
  PROVE  Inv'
<1> DEFINE r == run[c]
<1>1. r # None /\ r \in Command /\ r.pc = "validate"
  BY AtACommand DEF Validate
<1>2. PICK verdict \in {Verdict(r.stored, r.op), "unasked"} :
        Becomes(c, To(Asked(r, verdict # "unasked"),
                      IF verdict \in {"dead", "barred", "other"} THEN "aside" ELSE "register"))
  BY DEF Validate
<1> DEFINE yes == verdict # "unasked"
           p == IF verdict \in {"dead", "barred", "other"} THEN "aside" ELSE "register"
           n == To(Asked(r, yes), p)
<1>3. p \in {"aside", "register"} /\ yes \in BOOLEAN
  OBVIOUS
<1>4. Asked(r, yes) \in Command /\ n \in Command
  BY <1>1, <1>3, CommandsStayCommands DEF Steps
<1>5. n = [kind |-> r.kind, pc |-> p, env |-> r.env, name |-> r.name,
           stored |-> r.stored, op |-> r.op, key |-> r.key, seen |-> r.seen,
           declared |-> r.declared, asked |-> yes, calm |-> r.calm]
  BY <1>1, <1>3, <1>4, AskedRecord, ToRecord
<1>6. ASSUME run'[c] = n
      PROVE  Leaves(c)' /\ Sure(c)' /\ Looks(c)' /\ Known(c)'
  <2>1. UNCHANGED <<store, bus, project, settings, runs, events>>
    BY DEF Validate
  <2>2. run[c].kind \in Harness /\ r.declared /\ r.stored # None /\ r.op # None
        /\ r.name # None /\ issued[r.stored] # None
    BY <1>1 DEF Inv, Looks, SettingUp
  <2>3. Leaves(c)'
    BY <1>1, <1>3, <1>5, <1>6, <2>2 DEF Inv, Leaves, Harness
  <2>4. Sure(c)'
    BY <1>1, <1>3, <1>5, <1>6, <2>1, <2>2 DEF Inv, Sure, SettingUp, Wiring, project
  <2>5. Looks(c)'
    BY <1>1, <1>3, <1>5, <1>6, <2>1, <2>2 DEF Looks, SettingUp, bus
  <2>6. Known(c)'
    <3>1. p = "aside" => r.stored \in dead \/ r.op \in barred \/ issued[r.stored].ws # r.op
      BY DEF Verdict
    <3>2. yes /\ p = "register" => issued[r.stored].ws = r.op
      BY DEF Verdict
    <3>3. r.calm => r.op = operator /\ r.stored = keyfile[r.name]
      BY <1>1, <2>2 DEF Inv, Known, SettingUp
    <3>4. /\ run'[c].pc = p /\ run'[c].name = r.name /\ run'[c].op = r.op
          /\ run'[c].stored = r.stored /\ run'[c].asked = yes /\ run'[c].calm = r.calm
      BY <1>5, <1>6
    <3>5. operator' = operator /\ keyfile' = keyfile /\ issued' = issued /\ dead' = dead
          /\ barred' = barred
      BY <2>1 DEF store, bus
    <3>6. QED
      BY <1>3, <2>2, <3>1, <3>2, <3>3, <3>4, <3>5 DEF Known, Ours, Wiring
  <2>7. QED
    BY <2>3, <2>4, <2>5, <2>6
<1>7. UNCHANGED <<store, bus, project, settings, runs, events>>
  BY DEF Validate
<1>8. QED
  BY <1>2, <1>4, <1>6, <1>7, OwnStep DEF Inv, TypeOK, bus, project, Maybe

\* A step of c that changes the key files of the agents A.
LEMMA KeyStep ==
  ASSUME Inv, NEW c \in Checkout, NEW r \in Maybe(Command), NEW A,
         run' = [Disturbed(run, c, A) EXCEPT ![c] = r],
         keyfile' \in [Agent -> Maybe(Key)],
         \A a \in Agent \ A : keyfile'[a] = keyfile[a],
         \A a \in Agent \cap A : keyfile'[a] # None =>
           (issued[keyfile'[a]] # None /\ issued[keyfile'[a]].agent = a),
         UNCHANGED <<operator, fallback, bus, project, settings, runs, events>>,
         run'[c] = r => Leaves(c)' /\ Sure(c)' /\ Looks(c)' /\ Known(c)'
  PROVE  Inv'
<1>1. TypeOK /\ Bound
  BY DEF Inv
<1>2. /\ run'[c] = r
      /\ \A d \in Checkout \ {c} : Bystander(d, A)
      /\ run' \in [Checkout -> Maybe(Command)]
  BY <1>1, DisturbingOwn
<1>3. TypeOK'
  BY <1>1, <1>2 DEF TypeOK, bus, project
<1>4. Bound'
  BY <1>1 DEF Bound, bus
<1>5. About(A)
  BY DEF About, bus
<1>6. decl' = decl /\ local' = local
  BY DEF project
<1>7. QED
  BY <1>2, <1>3, <1>4, <1>5, <1>6, StepKeeps

LEMMA SetAsideKeeps ==
  ASSUME Inv, NEW c \in Checkout, SetAside(c)
  PROVE  Inv'
<1> DEFINE r == run[c]
           n == To(Storing(r, None), "register")
<1>1. r # None /\ r \in Command /\ r.pc = "aside"
  BY AtACommand DEF SetAside
<1>2. /\ r.kind \in Harness /\ r.declared /\ r.op # None /\ r.name # None
  BY <1>1 DEF Inv, Looks, SettingUp
<1>3. Storing(r, None) \in Command /\ n \in Command
  BY <1>1, CommandsStayCommands DEF Steps, Maybe
<1>4. n = [kind |-> r.kind, pc |-> "register", env |-> r.env, name |-> r.name,
           stored |-> None, op |-> r.op, key |-> r.key, seen |-> r.seen,
           declared |-> r.declared, asked |-> r.asked, calm |-> r.calm]
  BY <1>1, <1>3, StoringRecord, ToRecord
<1>5. /\ keyfile' = [keyfile EXCEPT ![r.name] = None]
      /\ run' = [Disturbed(run, c, {r.name}) EXCEPT ![c] = n]
      /\ UNCHANGED <<operator, fallback, bus, project, settings, runs, events>>
  BY DEF SetAside
<1>6. /\ keyfile' \in [Agent -> Maybe(Key)]
      /\ \A a \in Agent \ {r.name} : keyfile'[a] = keyfile[a]
      /\ r.name \in Agent => keyfile'[r.name] = None
  BY <1>5 DEF Inv, TypeOK, Maybe
<1>7. ASSUME run'[c] = n
      PROVE  Leaves(c)' /\ Sure(c)' /\ Looks(c)' /\ Known(c)'
  <2>1. Leaves(c)'
    BY <1>1, <1>2, <1>4, <1>7 DEF Leaves, Harness
  <2>2. Sure(c)'
    BY <1>1, <1>2, <1>4, <1>5, <1>7 DEF Inv, Sure, SettingUp, Wiring, project
  <2>3. Looks(c)'
    BY <1>1, <1>2, <1>4, <1>7 DEF Looks
  <2>4. Known(c)'
    <3>1. r.calm => r.op = operator
      BY <1>1, <1>2 DEF Inv, Known, SettingUp
    <3>2. r.name \in Agent
      BY <1>1, <1>2 DEF Command, Maybe
    <3>3. QED
      BY <1>2, <1>4, <1>5, <1>6, <1>7, <3>1, <3>2 DEF Known, Wiring
  <2>5. QED
    BY <2>1, <2>2, <2>3, <2>4
<1>8. n \in Maybe(Command)
  BY <1>3 DEF Maybe
<1>9. \A a \in Agent \cap {r.name} : keyfile'[a] = None
  BY <1>6
<1>10. QED
  BY <1>5, <1>6, <1>7, <1>8, <1>9, KeyStep

\* The workspace of a registration, and so every answer to it, is known.
LEMMA AnswersAreAgents ==
  ASSUME Inv, NEW c \in Checkout, At(c, "register")
  PROVE  /\ RegisterWs(run[c]) \in Workspace
         /\ Answers(RegisterWs(run[c]), c, run[c].name) \subseteq Agent
<1> DEFINE r == run[c]
           w == RegisterWs(r)
<1>1. r # None /\ r \in Command /\ r.pc = "register"
  BY AtACommand
<1>2. w \in Workspace
  <2>1. CASE r.stored # None
    <3>1. r.stored \in Key /\ issued[r.stored] # None
      BY <1>1, <2>1 DEF Inv, Looks, Command, Maybe
    <3>2. issued[r.stored] \in Binding
      BY <3>1 DEF Inv, TypeOK, Maybe
    <3>3. QED
      BY <2>1, <3>2 DEF RegisterWs, Binding
  <2>2. CASE r.stored = None
    BY <1>1, <2>2 DEF Inv, Looks, RegisterWs, Command, Maybe
  <2>3. QED
    BY <2>1, <2>2
<1>3. row[w][c] \in Maybe(Agent) /\ r.name \in Maybe(Agent)
  BY <1>1, <1>2 DEF Inv, TypeOK, Command
<1>4. Derived[c] \in Agent
  BY DEF Derived, Agent
<1>5. Answers(w, c, r.name) \subseteq Agent
  BY <1>3, <1>4 DEF Answers, Maybe
<1>6. QED
  BY <1>2, <1>5

LEMMA RegisterKeeps ==
  ASSUME Inv, NEW c \in Checkout, Register(c)
  PROVE  Inv'
<1> DEFINE r == run[c]
           w == RegisterWs(r)
<1>1. r # None /\ r \in Command /\ r.pc = "register" /\ (r.stored # None => r.stored \notin dead)
  BY AtACommand DEF Register
<1>2. PICK answer \in Answers(w, c, r.name) :
        /\ row' = IF row[w][c] = None THEN [row EXCEPT ![w][c] = answer] ELSE row
        /\ Becomes(c, IF r.kind # "register" /\ r.name \notin {None, answer} THEN None
                      ELSE To(Naming(Storing(r, None), answer), "key"))
  BY DEF Register
<1>3. w \in Workspace /\ answer \in Agent
  BY <1>2, AnswersAreAgents DEF Register
<1>4. row' \in [Workspace -> [Checkout -> Maybe(Agent)]]
  BY <1>2, <1>3 DEF Inv, TypeOK, Maybe
<1>5. UNCHANGED <<store, issued, dead, barred, project, settings, runs, events>>
  BY DEF Register
<1>6. CASE r.kind # "register" /\ r.name \notin {None, answer}
  <2>1. Done(c)
    BY <1>2, <1>6 DEF Done
  <2>2. QED
    BY <1>4, <1>5, <2>1, EndStep DEF Inv, TypeOK, project
<1>7. CASE ~(r.kind # "register" /\ r.name \notin {None, answer})
  <2> DEFINE n == To(Naming(Storing(r, None), answer), "key")
  <2>1. Becomes(c, n)
    BY <1>2, <1>7
  <2>2. Storing(r, None) \in Command
    BY <1>1, CommandsStayCommands DEF Maybe
  <2>3. Naming(Storing(r, None), answer) \in Command
    BY <1>3, <2>2, CommandsStayCommands DEF Maybe
  <2>4. n \in Command
    BY <2>3, CommandsStayCommands DEF Steps
  <2>5. n = [kind |-> r.kind, pc |-> "key", env |-> r.env, name |-> answer,
             stored |-> None, op |-> r.op, key |-> r.key, seen |-> r.seen,
             declared |-> r.declared, asked |-> r.asked, calm |-> r.calm]
    BY <1>1, <2>2, <2>3, StoringRecord, NamingRecord, ToRecord
  <2>6. answer # None
    BY <1>3, OnboardAssumption
  <2>7. ASSUME run'[c] = n
        PROVE  Leaves(c)' /\ Sure(c)' /\ Looks(c)' /\ Known(c)'
    <3>1. Leaves(c)'
      BY <1>1, <2>5, <2>7 DEF Inv, Leaves
    <3>2. Sure(c)'
      BY <1>1, <1>5, <1>7, <2>5, <2>6, <2>7 DEF Inv, Sure, SettingUp, Wiring, Harness, project
    <3>3. Looks(c)'
      BY <2>5, <2>6, <2>7 DEF Looks
    <3>4. Known(c)'
      <4> SUFFICES ASSUME SettingUp(c)', r.calm, r.op # None, r.declared
                   PROVE  Known(c)'
        BY <2>5, <2>7 DEF Known
      <4>0. r.kind \in Harness
        BY <2>5, <2>7 DEF SettingUp
      <4>1. /\ r.op = operator /\ r.name # None
            /\ r.asked => (r.stored = keyfile[r.name] /\ (r.stored # None => Ours(r)))
        BY <1>1, <4>0 DEF Inv, Known, SettingUp
      <4>3. r.name = answer
        BY <1>7, <4>0, <4>1 DEF Harness
      <4>2. QED
        BY <1>1, <1>5, <2>5, <2>6, <2>7, <4>1, <4>3 DEF Known, Ours, Sound, Wiring, store
    <3>5. QED
      BY <3>1, <3>2, <3>3, <3>4
  <2>8. n \in Maybe(Command)
    BY <2>4 DEF Maybe
  <2>9. QED
    BY <1>4, <1>5, <2>1, <2>7, <2>8, OwnStep DEF Inv, TypeOK, project
<1>8. QED
  BY <1>6, <1>7

\* What Goto changes.
LEMMA GoneTo ==
  ASSUME Inv, NEW c \in Checkout, run[c] # None, NEW p \in Steps
  PROVE  /\ To(run[c], p) \in Maybe(Command)
         /\ Goto(c, p) => Becomes(c, To(run[c], p))
         /\ To(run[c], p) = [kind |-> run[c].kind, pc |-> p, env |-> run[c].env,
              name |-> run[c].name, stored |-> run[c].stored, op |-> run[c].op,
              key |-> run[c].key, seen |-> run[c].seen, declared |-> run[c].declared,
              asked |-> run[c].asked, calm |-> run[c].calm]
<1>1. run[c] \in Command
  BY RunningIsACommand DEF Inv
<1>2. QED
  BY <1>1, CommandsStayCommands, ToRecord DEF Goto, Maybe

LEMMA AfterKeyIsAStep ==
  ASSUME NEW kind \in Harness \cup {"register"}
  PROVE  /\ AfterKey(kind) \in {"entry", "claim", "decl"}
         /\ AfterKey(kind) \in Steps
         /\ kind \in Harness => AfterKey(kind) \in {"entry", "decl"}
         /\ AfterKey(kind) = "claim" => kind = "register"
BY DEF AfterKey, Steps, Wiring, Harness

LEMMA KeepKeyKeeps ==
  ASSUME Inv, NEW c \in Checkout, KeepKey(c)
  PROVE  Inv'
<1> DEFINE r == run[c]
           p == AfterKey(r.kind)
           n == To(r, p)
<1>1. r # None /\ r \in Command /\ r.pc = "key"
  BY AtACommand DEF KeepKey
<1>2. r.kind \in Harness \cup {"register"}
  BY <1>1 DEF Inv, Leaves, Command, Kinds
<1>3. /\ p \in {"entry", "claim", "decl"} /\ p \in Steps
      /\ r.kind \in Harness => p \in {"entry", "decl"}
      /\ p = "claim" => r.kind = "register"
  BY <1>2, AfterKeyIsAStep
<1>4. /\ n \in Maybe(Command) /\ Becomes(c, n)
      /\ n = [kind |-> r.kind, pc |-> p, env |-> r.env, name |-> r.name,
              stored |-> r.stored, op |-> r.op, key |-> r.key, seen |-> r.seen,
              declared |-> r.declared, asked |-> r.asked, calm |-> r.calm]
  BY <1>1, <1>3, GoneTo DEF KeepKey
<1>5. /\ UNCHANGED <<store, bus, project, settings, runs, events>>
      /\ keyfile[r.name] # None
  BY DEF KeepKey
<1>6. ASSUME run'[c] = n
      PROVE  Leaves(c)' /\ Sure(c)' /\ Looks(c)' /\ Known(c)'
  <2>1. Leaves(c)'
    BY <1>1, <1>2, <1>3, <1>4, <1>6 DEF Leaves, Harness
  <2>2. Sure(c)'
    BY <1>1, <1>3, <1>4, <1>5, <1>6 DEF Inv, Sure, SettingUp, Wiring, project
  <2>3. Looks(c)'
    BY <1>1, <1>3, <1>4, <1>5, <1>6 DEF Inv, Looks, bus
  <2>4. Known(c)'
    BY <1>1, <1>3, <1>4, <1>5, <1>6
    DEF Inv, Known, SettingUp, Ours, Sound, store, bus
  <2>5. QED
    BY <2>1, <2>2, <2>3, <2>4
<1>7. QED
  BY <1>4, <1>5, <1>6, OwnStep DEF Inv, TypeOK, bus, project

LEMMA NoKeyKeeps ==
  ASSUME Inv, NEW c \in Checkout, NoKey(c)
  PROVE  Inv'
<1> DEFINE r == run[c]
           n == To(r, "claim")
<1>1. r # None /\ r \in Command /\ r.pc = "key" /\ r.kind = "register"
  BY AtACommand DEF NoKey
<1>2. "claim" \in Steps
  BY DEF Steps
<1>3. /\ n \in Maybe(Command) /\ Becomes(c, n)
      /\ n = [kind |-> r.kind, pc |-> "claim", env |-> r.env, name |-> r.name,
              stored |-> r.stored, op |-> r.op, key |-> r.key, seen |-> r.seen,
              declared |-> r.declared, asked |-> r.asked, calm |-> r.calm]
  BY <1>1, <1>2, GoneTo DEF NoKey
<1>4. UNCHANGED <<store, bus, project, settings, runs, events>>
  BY DEF NoKey
<1>5. ASSUME run'[c] = n
      PROVE  Leaves(c)' /\ Sure(c)' /\ Looks(c)' /\ Known(c)'
  <2>1. Leaves(c)' /\ Sure(c)' /\ Known(c)'
    BY <1>1, <1>3, <1>5 DEF Leaves, Sure, Known, SettingUp, Harness
  <2>2. Looks(c)'
    BY <1>1, <1>3, <1>4, <1>5 DEF Inv, Looks, bus
  <2>3. QED
    BY <2>1, <2>2
<1>6. QED
  BY <1>3, <1>4, <1>5, OwnStep DEF Inv, TypeOK, bus, project

\* What the bus issues next was never issued before, so it is nobody's yet.
LEMMA IssuedAnew ==
  ASSUME Inv, NEW k \in Key, NEW a \in Agent, NEW w \in Workspace, Issue(k, a, w)
  PROVE  /\ issued[k] = None /\ k \notin dead
         /\ \A b \in Agent : keyfile[b] # k
         /\ issued'[k] = [agent |-> a, ws |-> w] /\ issued'[k] # None
         /\ \A j \in Key : issued[j] # None => issued'[j] = issued[j]
         /\ issued' \in [Key -> Maybe(Binding)]
<1>1. issued[k] = None /\ issued' = [issued EXCEPT ![k] = [agent |-> a, ws |-> w]]
  BY DEF Issue, Unissued
<1>2. [agent |-> a, ws |-> w] \in Binding
  BY DEF Binding
<1>3. [agent |-> a, ws |-> w] # None
  BY <1>2, OnboardAssumption
<1>4. k \notin dead /\ \A b \in Agent : keyfile[b] # k
  <2>1. k # None
    BY OnboardAssumption DEF Key
  <2>2. QED
    BY <1>1, <2>1 DEF Inv, Bound
<1>5. issued \in [Key -> Maybe(Binding)]
  BY DEF Inv, TypeOK
<1>6. issued' \in [Key -> Maybe(Binding)]
  BY <1>1, <1>2, <1>5 DEF Maybe
<1>7. QED
  BY <1>1, <1>3, <1>4, <1>5, <1>6

LEMMA MintKeyKeeps ==
  ASSUME Inv, NEW c \in Checkout, MintKey(c)
  PROVE  Inv'
<1> DEFINE r == run[c]
           op == IF r.kind = "register" THEN operator ELSE r.op
<1>1. r # None /\ r \in Command /\ r.pc = "key"
  BY AtACommand DEF MintKey
<1>2. PICK k \in Key :
        Issue(k, r.name, op) /\ Becomes(c, To(Holding(r, k), "store"))
  BY DEF MintKey
<1> DEFINE n == To(Holding(r, k), "store")
<1>3. r.name \in Agent /\ r.name # None
  BY <1>1 DEF Inv, Looks, Command, Maybe
<1>4. op \in Workspace
  BY <1>1 DEF Inv, TypeOK, MintKey, Command, Maybe
<1>5. /\ UNCHANGED <<store, dead, row, barred, project, settings, runs, events>>
      /\ keyfile[r.name] = None
  BY DEF MintKey
<1>6. /\ issued[k] = None /\ k \notin dead
      /\ \A b \in Agent : keyfile[b] # k
      /\ issued'[k] = [agent |-> r.name, ws |-> op] /\ issued'[k] # None
      /\ \A j \in Key : issued[j] # None => issued'[j] = issued[j]
      /\ issued' \in [Key -> Maybe(Binding)]
  BY <1>2, <1>3, <1>4, IssuedAnew
<1>7. Holding(r, k) \in Command /\ n \in Command
  BY <1>1, CommandsStayCommands DEF Steps, Maybe
<1>8. n = [kind |-> r.kind, pc |-> "store", env |-> r.env, name |-> r.name,
           stored |-> r.stored, op |-> r.op, key |-> k, seen |-> r.seen,
           declared |-> r.declared, asked |-> r.asked, calm |-> r.calm]
  BY <1>1, <1>7, HoldingRecord, ToRecord
<1>9. TypeOK /\ n \in Maybe(Command)
  BY <1>7 DEF Inv, Maybe
<1>10. /\ run'[c] = n
       /\ \A d \in Checkout \ {c} : Bystander(d, {})
       /\ run' \in [Checkout -> Maybe(Command)]
  BY <1>2, <1>9, BecomesOwn
<1>11. TypeOK'
  BY <1>5, <1>6, <1>9, <1>10 DEF TypeOK, store, project
<1>12. Bound'
  <2>1. \A a \in Agent : keyfile[a] \in Maybe(Key)
    BY <1>9 DEF TypeOK
  <2>2. QED
    BY <1>5, <1>6, <1>9, <2>1 DEF Inv, Bound, store, TypeOK, Maybe
<1>13. About({})
  BY <1>5, <1>6 DEF About, store
<1>14. Leaves(c)' /\ Sure(c)' /\ Looks(c)' /\ Known(c)'
  <2>1. Leaves(c)'
    BY <1>1, <1>8, <1>10 DEF Inv, Leaves
  <2>2. Sure(c)'
    BY <1>1, <1>3, <1>5, <1>8, <1>10 DEF Inv, Sure, SettingUp, Wiring, project
  <2>3. Looks(c)'
    <3>1. r.stored # None => issued'[r.stored] # None
      BY <1>1, <1>6 DEF Inv, Looks, Command, Maybe
    <3>2. k # None
      BY OnboardAssumption DEF Key
    <3>3. QED
      BY <1>3, <1>6, <1>8, <1>10, <3>1, <3>2 DEF Looks
  <2>4. Known(c)'
    <3>1. SettingUp(c)' => op = r.op
      BY <1>8, <1>10 DEF SettingUp, Harness
    <3>2. SettingUp(c)' => SettingUp(c)
      BY <1>1, <1>8, <1>10 DEF SettingUp
    <3>3. SettingUp(c) /\ r.calm /\ r.op # None /\ r.declared => r.op = operator
      BY <1>1 DEF Inv, Known
    <3>4. QED
      BY <1>3, <1>5, <1>6, <1>8, <1>10, <3>1, <3>2, <3>3 DEF Known, Wiring, store
  <2>5. QED
    BY <2>1, <2>2, <2>3, <2>4
<1>15. decl' = decl /\ local' = local
  BY <1>5 DEF project
<1>16. QED
  BY <1>10, <1>11, <1>12, <1>13, <1>14, <1>15, StepKeeps

LEMMA StoreKeyKeeps ==
  ASSUME Inv, NEW c \in Checkout, StoreKey(c)
  PROVE  Inv'
<1> DEFINE r == run[c]
           p == AfterKey(r.kind)
           n == To(Holding(r, None), p)
<1>1. r # None /\ r \in Command /\ r.pc = "store"
  BY AtACommand DEF StoreKey
<1>2. r.kind \in Harness \cup {"register"}
  BY <1>1 DEF Inv, Leaves, Command, Kinds
<1>3. /\ p \in {"entry", "claim", "decl"} /\ p \in Steps
      /\ r.kind \in Harness => p \in {"entry", "decl"}
      /\ p = "claim" => r.kind = "register"
  BY <1>2, AfterKeyIsAStep
<1>4. /\ r.name \in Agent /\ r.name # None /\ r.key \in Key /\ r.key # None
      /\ issued[r.key] # None /\ issued[r.key].agent = r.name
  BY <1>1 DEF Inv, Looks, Command, Maybe
<1>5. Holding(r, None) \in Command
  BY <1>1, CommandsStayCommands DEF Maybe
<1>6. n \in Command
  BY <1>3, <1>5, CommandsStayCommands
<1>7. n = [kind |-> r.kind, pc |-> p, env |-> r.env, name |-> r.name,
           stored |-> r.stored, op |-> r.op, key |-> None, seen |-> r.seen,
           declared |-> r.declared, asked |-> r.asked, calm |-> r.calm]
  BY <1>1, <1>5, HoldingRecord, ToRecord
<1>8. /\ keyfile' = [keyfile EXCEPT ![r.name] = r.key]
      /\ run' = [Disturbed(run, c, {r.name}) EXCEPT ![c] = n]
      /\ UNCHANGED <<operator, fallback, bus, project, settings, runs, events>>
  BY DEF StoreKey
<1>9. /\ keyfile' \in [Agent -> Maybe(Key)]
      /\ \A a \in Agent \ {r.name} : keyfile'[a] = keyfile[a]
      /\ keyfile'[r.name] = r.key
  BY <1>4, <1>8 DEF Inv, TypeOK, Maybe
<1>10. \A a \in Agent \cap {r.name} : keyfile'[a] # None =>
         (issued[keyfile'[a]] # None /\ issued[keyfile'[a]].agent = a)
  BY <1>4, <1>9
<1>11. ASSUME run'[c] = n
       PROVE  Leaves(c)' /\ Sure(c)' /\ Looks(c)' /\ Known(c)'
  <2>1. Leaves(c)'
    BY <1>1, <1>2, <1>3, <1>7, <1>11 DEF Leaves, Harness
  <2>2. Sure(c)'
    BY <1>1, <1>3, <1>4, <1>7, <1>8, <1>11 DEF Inv, Sure, SettingUp, Wiring, project
  <2>3. Looks(c)'
    BY <1>1, <1>3, <1>7, <1>8, <1>11 DEF Inv, Looks, bus
  <2>4. Known(c)'
    <3>1. SettingUp(c)' /\ r.calm /\ r.op # None /\ r.declared =>
            /\ r.op = operator
            /\ r.asked => (r.key \notin dead
                           /\ issued[r.key] = [agent |-> r.name, ws |-> r.op])
      BY <1>1, <1>7, <1>11 DEF Inv, Known, SettingUp
    <3>2. QED
      BY <1>3, <1>4, <1>7, <1>8, <1>9, <1>11, <3>1
      DEF Known, SettingUp, Ours, Sound, Wiring, bus
  <2>5. QED
    BY <2>1, <2>2, <2>3, <2>4
<1>12. n \in Maybe(Command)
  BY <1>6 DEF Maybe
<1>13. QED
  BY <1>8, <1>9, <1>10, <1>11, <1>12, KeyStep

\* Going on to another step of the wiring.
LEMMA WiringOn ==
  ASSUME Inv, NEW c \in Checkout, run[c] # None, run[c].pc \in Wiring,
         NEW p \in Wiring \ {"entry"},
         p \in {"local", "load", "dump"} => run[c].kind = "claude",
         p = "mark" => run[c].kind = "agy", NEW n,
         n = [kind |-> run[c].kind, pc |-> p, env |-> run[c].env,
              name |-> run[c].name, stored |-> run[c].stored, op |-> run[c].op,
              key |-> run[c].key, seen |-> run[c].seen, declared |-> run[c].declared,
              asked |-> run[c].asked, calm |-> run[c].calm],
         run'[c] = n, UNCHANGED <<store, issued, dead, barred>>
  PROVE  Leaves(c)' /\ Looks(c)' /\ Known(c)'
<1>1. Leaves(c)'
  BY DEF Inv, Leaves, Wiring
<1>2. Looks(c)'
  BY DEF Inv, Looks, Wiring
<1>3. Known(c)'
  BY DEF Inv, Known, SettingUp, Ours, Sound, store, Wiring
<1>4. QED
  BY <1>1, <1>2, <1>3

LEMMA WriteDeclKeeps ==
  ASSUME Inv, NEW c \in Checkout, WriteDecl(c)
  PROVE  Inv'
<1> DEFINE r == run[c]
<1>1. r # None /\ r \in Command /\ r.pc = "decl"
  BY AtACommand DEF WriteDecl
<1>2. /\ decl' = [decl EXCEPT ![c] = r.name]
      /\ UNCHANGED <<store, bus, local, bearer, listed, settings, runs, events>>
  BY DEF WriteDecl
<1>3. /\ decl' \in [Checkout -> Maybe(Agent)]
      /\ \A d \in Checkout \ {c} : decl'[d] = decl[d]
      /\ decl'[c] = r.name
  BY <1>1, <1>2 DEF Inv, TypeOK, Command
<1>4. ASSUME NEW p \in {"local", "mark"}, Goto(c, p), p = "local" => r.kind = "claude",
             p = "mark" => r.kind = "agy"
      PROVE  Inv'
  <2> DEFINE n == To(r, p)
  <2>1. p \in Steps /\ p \in Wiring \ {"entry"} /\ r.pc \in Wiring
    BY <1>1 DEF Steps, Wiring
  <2>2. /\ n \in Maybe(Command) /\ Becomes(c, n)
        /\ n = [kind |-> r.kind, pc |-> p, env |-> r.env, name |-> r.name,
                stored |-> r.stored, op |-> r.op, key |-> r.key, seen |-> r.seen,
                declared |-> r.declared, asked |-> r.asked, calm |-> r.calm]
    BY <1>1, <1>4, <2>1, GoneTo
  <2>3. ASSUME run'[c] = n
        PROVE  Leaves(c)' /\ Sure(c)' /\ Looks(c)' /\ Known(c)'
    <3>1. Leaves(c)' /\ Looks(c)' /\ Known(c)'
      BY <1>1, <1>2, <1>4, <2>1, <2>2, <2>3, WiringOn DEF bus
    <3>2. Sure(c)'
      BY <1>1, <1>3, <1>4, <2>1, <2>2, <2>3 DEF Inv, Sure, SettingUp
    <3>3. QED
      BY <3>1, <3>2
  <2>4. QED
    BY <1>2, <1>3, <2>2, <2>3, OwnStep DEF Inv, TypeOK, bus
<1>5. ASSUME Done(c)
      PROVE  Inv'
  BY <1>2, <1>3, <1>5, EndStep DEF Inv, TypeOK, bus
<1>6. \/ r.kind = "claude" /\ Goto(c, "local")
      \/ r.kind = "agy" /\ Goto(c, "mark")
      \/ Done(c)
  BY DEF WriteDecl
<1>7. QED
  BY <1>4, <1>5, <1>6

LEMMA WriteLocalKeeps ==
  ASSUME Inv, NEW c \in Checkout, WriteLocal(c)
  PROVE  Inv'
<1> DEFINE r == run[c]
           n == To(r, "load")
<1>1. r # None /\ r \in Command /\ r.pc = "local"
  BY AtACommand DEF WriteLocal
<1>2. /\ local' = [local EXCEPT ![c] = r.name] /\ Goto(c, "load")
      /\ UNCHANGED <<store, bus, decl, bearer, listed, settings, runs, events>>
  BY DEF WriteLocal
<1>3. /\ local' \in [Checkout -> Maybe(Agent)]
      /\ \A d \in Checkout \ {c} : local'[d] = local[d]
  BY <1>1, <1>2 DEF Inv, TypeOK, Command
<1>4. "load" \in Steps /\ "load" \in Wiring \ {"entry"} /\ r.pc \in Wiring
  BY <1>1 DEF Steps, Wiring
<1>5. /\ n \in Maybe(Command) /\ Becomes(c, n)
      /\ n = [kind |-> r.kind, pc |-> "load", env |-> r.env, name |-> r.name,
              stored |-> r.stored, op |-> r.op, key |-> r.key, seen |-> r.seen,
              declared |-> r.declared, asked |-> r.asked, calm |-> r.calm]
  BY <1>1, <1>2, <1>4, GoneTo
<1>6. ASSUME run'[c] = n
      PROVE  Leaves(c)' /\ Sure(c)' /\ Looks(c)' /\ Known(c)'
  <2>1. Leaves(c)' /\ Looks(c)' /\ Known(c)'
    <3>1. r.kind = "claude"
      BY <1>1 DEF Inv, Looks
    <3>2. QED
      BY <1>1, <1>2, <1>4, <1>5, <1>6, <3>1, WiringOn DEF bus
  <2>2. Sure(c)'
    BY <1>1, <1>2, <1>4, <1>5, <1>6 DEF Inv, Sure, SettingUp
  <2>3. QED
    BY <2>1, <2>2
<1>7. QED
  BY <1>2, <1>3, <1>5, <1>6, OwnStep DEF Inv, TypeOK, bus

LEMMA LoadSettingsKeeps ==
  ASSUME Inv, NEW c \in Checkout, LoadSettings(c)
  PROVE  Inv'
<1> DEFINE r == run[c]
           n == To(Seeing(r, settings'), "dump")
<1>1. r # None /\ r \in Command /\ r.pc = "load"
  BY AtACommand DEF LoadSettings, InstallWakePlugin
<1>2. PICK installed \in {settings.plugin, TRUE} :
        /\ settings' = [settings EXCEPT !.plugin = installed]
        /\ Becomes(c, n)
  BY DEF LoadSettings, InstallWakePlugin
<1>3. UNCHANGED <<store, bus, project, runs, events>>
  BY DEF LoadSettings, InstallWakePlugin
<1>4. settings' \in [plugin : BOOLEAN, hooks : BOOLEAN]
  BY <1>2 DEF Inv, TypeOK
<1>5. "dump" \in Steps /\ "dump" \in Wiring /\ r.pc \in Wiring
  BY <1>1 DEF Steps, Wiring
<1>6. Seeing(r, settings') \in Command /\ n \in Command
  BY <1>1, <1>4, <1>5, CommandsStayCommands
<1>7. n = [kind |-> r.kind, pc |-> "dump", env |-> r.env, name |-> r.name,
           stored |-> r.stored, op |-> r.op, key |-> r.key, seen |-> settings',
           declared |-> r.declared, asked |-> r.asked, calm |-> r.calm]
  BY <1>1, <1>6, SeeingRecord, ToRecord
<1>8. ASSUME run'[c] = n
      PROVE  Leaves(c)' /\ Sure(c)' /\ Looks(c)' /\ Known(c)'
  <2>1. Leaves(c)'
    BY <1>1, <1>7, <1>8 DEF Inv, Leaves
  <2>2. Sure(c)'
    BY <1>1, <1>3, <1>5, <1>7, <1>8 DEF Inv, Sure, SettingUp, project
  <2>3. Looks(c)'
    BY <1>1, <1>3, <1>7, <1>8 DEF Inv, Looks, bus
  <2>4. Known(c)'
    BY <1>1, <1>3, <1>5, <1>7, <1>8 DEF Inv, Known, SettingUp, Ours, Sound, store, bus
  <2>5. QED
    BY <2>1, <2>2, <2>3, <2>4
<1>9. n \in Maybe(Command)
  BY <1>6 DEF Maybe
<1>10. QED
  BY <1>2, <1>3, <1>4, <1>8, <1>9, OwnStep DEF Inv, TypeOK, bus, project

\* The last step of each setup, and a command that gives up.
LEMMA LastStepsKeep ==
  ASSUME Inv, NEW c \in Checkout,
         Mark(c) \/ DumpSettings(c) \/ WireEntry(c) \/ Quit(c)
  PROVE  Inv'
<1>1. TypeOK
  BY DEF Inv
<1>2. CASE Mark(c)
  <2>1. listed' \subseteq Checkout /\ Done(c)
    BY <1>1, <1>2 DEF Mark, TypeOK
  <2>2. UNCHANGED <<store, bus, decl, local, bearer, settings, runs, events>>
    BY <1>2 DEF Mark
  <2>3. QED
    BY <1>1, <2>1, <2>2, EndStep DEF TypeOK, bus
<1>3. CASE DumpSettings(c)
  <2>1. run[c] \in Command
    BY <1>3, AtACommand DEF DumpSettings
  <2>2. Merged(run[c].seen) \in [plugin : BOOLEAN, hooks : BOOLEAN]
    BY <2>1 DEF Merged, Command
  <2>3. settings' \in [plugin : BOOLEAN, hooks : BOOLEAN]
    BY <1>1, <1>3, <2>2 DEF DumpSettings, TypeOK
  <2>4. Done(c) /\ UNCHANGED <<store, bus, project, runs, events>>
    BY <1>3 DEF DumpSettings
  <2>5. QED
    BY <1>1, <2>3, <2>4, EndStep DEF TypeOK, bus, project
<1>4. CASE WireEntry(c)
  <2>1. run[c] # None /\ run[c] \in Command /\ run[c].pc = "entry"
    BY <1>4, AtACommand DEF WireEntry
  <2>2. run[c].name # None => keyfile[run[c].name] \in Maybe(Key)
    BY <1>1, <2>1 DEF TypeOK, Command, Maybe
  <2>3. run[c].name # None
    BY <2>1 DEF Inv, Looks
  <2>4. bearer' \in [Checkout -> Maybe(Key)]
    BY <1>1, <1>4, <2>2, <2>3 DEF WireEntry, TypeOK
  <2>5. Done(c) /\ UNCHANGED <<store, bus, decl, local, listed, settings, runs, events>>
    BY <1>4 DEF WireEntry
  <2>6. QED
    BY <1>1, <2>4, <2>5, EndStep DEF TypeOK, bus
<1>5. CASE Quit(c)
  BY <1>1, <1>5, EndStep DEF Quit, TypeOK, bus, project
<1>6. QED
  BY <1>2, <1>3, <1>4, <1>5

LEMMA ClaimKeeps ==
  ASSUME Inv, NEW c \in Checkout, Claim(c)
  PROVE  Inv'
<1> DEFINE r == run[c]
           n == To(r, "decl")
<1>1. r # None /\ r \in Command /\ r.pc = "claim"
  BY AtACommand DEF Claim
<1>2. r.kind = "register"
  BY <1>1 DEF Inv, Looks
<1>3. UNCHANGED <<store, bus, decl, bearer, listed, settings, runs, events>>
  BY DEF Claim
<1>4. CASE UNCHANGED local /\ Done(c)
  BY <1>3, <1>4, EndStep DEF Inv, TypeOK, bus
<1>5. CASE local' = [local EXCEPT ![c] = r.name] /\ Goto(c, "decl")
  <2>1. /\ local' \in [Checkout -> Maybe(Agent)]
        /\ \A d \in Checkout \ {c} : local'[d] = local[d]
    BY <1>1, <1>5 DEF Inv, TypeOK, Command
  <2>2. "decl" \in Steps
    BY DEF Steps, Wiring
  <2>3. /\ n \in Maybe(Command) /\ Becomes(c, n)
        /\ n = [kind |-> r.kind, pc |-> "decl", env |-> r.env, name |-> r.name,
                stored |-> r.stored, op |-> r.op, key |-> r.key, seen |-> r.seen,
                declared |-> r.declared, asked |-> r.asked, calm |-> r.calm]
    BY <1>1, <1>5, <2>2, GoneTo
  <2>4. ASSUME run'[c] = n
        PROVE  Leaves(c)' /\ Sure(c)' /\ Looks(c)' /\ Known(c)'
    <3>1. Leaves(c)' /\ Sure(c)' /\ Known(c)'
      BY <1>1, <1>2, <2>3, <2>4 DEF Leaves, Sure, Known, SettingUp, Harness
    <3>2. Looks(c)'
      BY <1>1, <1>3, <2>3, <2>4 DEF Inv, Looks, bus
    <3>3. QED
      BY <3>1, <3>2
  <2>5. QED
    BY <1>3, <2>1, <2>3, <2>4, OwnStep DEF Inv, TypeOK, bus
<1>6. QED
  BY <1>4, <1>5 DEF Claim

LEMMA RemovingKeeps ==
  ASSUME Inv, NEW c \in Checkout, RemoveDecl(c) \/ UnsetLocal(c)
  PROVE  Inv'
<1> DEFINE r == run[c]
<1>1. ASSUME NEW q \in {"rm", "unset"}, NEW p \in {"unset", "purgekey"}, At(c, q), Goto(c, p),
             decl' \in [Checkout -> Maybe(Agent)], local' \in [Checkout -> Maybe(Agent)],
             \A d \in Checkout \ {c} : decl'[d] = decl[d] /\ local'[d] = local[d],
             decl'[c] = None, p = "purgekey" => local'[c] = None,
             UNCHANGED <<store, bus, bearer, listed, settings, runs, events>>
      PROVE  Inv'
  <2> DEFINE n == To(r, p)
  <2>1. r # None /\ r \in Command /\ r.pc = q
    BY <1>1, AtACommand
  <2>2. r.kind \in {"teardown", "purge"}
    BY <1>1, <2>1 DEF Inv, Leaves
  <2>3. p \in Steps
    BY <1>1 DEF Steps
  <2>4. /\ n \in Maybe(Command) /\ Becomes(c, n)
        /\ n = [kind |-> r.kind, pc |-> p, env |-> r.env, name |-> r.name,
                stored |-> r.stored, op |-> r.op, key |-> r.key, seen |-> r.seen,
                declared |-> r.declared, asked |-> r.asked, calm |-> r.calm]
    BY <1>1, <2>1, <2>3, GoneTo
  <2>5. ASSUME run'[c] = n
        PROVE  Leaves(c)' /\ Sure(c)' /\ Looks(c)' /\ Known(c)'
    <3>1. Leaves(c)'
      BY <1>1, <2>2, <2>4, <2>5 DEF Leaves
    <3>2. Sure(c)' /\ Known(c)'
      BY <2>2, <2>4, <2>5 DEF Sure, Known, SettingUp, Harness
    <3>3. Looks(c)'
      BY <1>1, <2>1, <2>4, <2>5 DEF Inv, Looks, bus
    <3>4. QED
      BY <3>1, <3>2, <3>3
  <2>6. QED
    BY <1>1, <2>4, <2>5, OwnStep DEF Inv, TypeOK, bus
<1>2. CASE RemoveDecl(c)
  <2>1. /\ decl' \in [Checkout -> Maybe(Agent)] /\ decl'[c] = None
        /\ \A d \in Checkout \ {c} : decl'[d] = decl[d]
    BY <1>2 DEF RemoveDecl, Inv, TypeOK, Maybe
  <2>2. At(c, "rm") /\ Goto(c, "unset")
        /\ UNCHANGED <<store, bus, local, bearer, listed, settings, runs, events>>
    BY <1>2 DEF RemoveDecl
  <2>3. QED
    BY <1>1, <2>1, <2>2 DEF Inv, TypeOK
<1>3. CASE UnsetLocal(c)
  <2>1. /\ local' \in [Checkout -> Maybe(Agent)] /\ local'[c] = None
        /\ \A d \in Checkout \ {c} : local'[d] = local[d]
    BY <1>3 DEF UnsetLocal, Inv, TypeOK, Maybe
  <2>2. At(c, "unset") /\ Goto(c, "purgekey")
        /\ UNCHANGED <<store, bus, decl, bearer, listed, settings, runs, events>>
    BY <1>3 DEF UnsetLocal
  <2>3. decl'[c] = None
    BY <2>2, AtACommand DEF Inv, Leaves
  <2>4. QED
    BY <1>1, <2>1, <2>2, <2>3 DEF Inv, TypeOK
<1>4. QED
  BY <1>2, <1>3

LEMMA PurgeKeyKeeps ==
  ASSUME Inv, NEW c \in Checkout, PurgeKey(c)
  PROVE  Inv'
<1> DEFINE gone == IF run[c].kind = "purge" THEN {run[c].name} ELSE {}
<1>1. /\ keyfile' = [a \in Agent |-> IF a \in gone THEN None ELSE keyfile[a]]
      /\ run' = [Disturbed(run, c, gone) EXCEPT ![c] = None]
      /\ UNCHANGED <<operator, fallback, bus, project, settings, runs, events>>
  BY DEF PurgeKey
<1>2. /\ keyfile' \in [Agent -> Maybe(Key)]
      /\ \A a \in Agent \ gone : keyfile'[a] = keyfile[a]
      /\ \A a \in Agent \cap gone : keyfile'[a] = None
  <2> HIDE DEF gone
  <2> QED
    BY <1>1 DEF Inv, TypeOK, Maybe
<1>3. run'[c] = None => Leaves(c)' /\ Sure(c)' /\ Looks(c)' /\ Known(c)'
  BY DEF Leaves, Sure, Looks, Known, SettingUp
<1>4. None \in Maybe(Command)
  BY DEF Maybe
<1> HIDE DEF gone
<1>5. \A a \in Agent \cap gone : keyfile'[a] # None =>
        (issued[keyfile'[a]] # None /\ issued[keyfile'[a]].agent = a)
  BY <1>2
<1>6. QED
  BY <1>1, <1>2, <1>3, <1>4, <1>5, KeyStep

-----------------------------------------------------------------------------
(* Commands that start.                                                       *)

LEMMA NamesAreTyped ==
  ASSUME TypeOK, NEW c \in Checkout
  PROVE  /\ Declared(c) \in Maybe(Agent)
         /\ Envs(c) \subseteq Maybe(Agent)
         /\ \A env \in Maybe(Agent) :
              /\ SetupName(c, env) \in Maybe(Agent)
              /\ EnvAgent(c, env) \in Maybe(Agent)
         /\ SessionIdentity(c) \in Maybe(Agent)
<1>1. /\ \A d \in Checkout : decl[d] \in Maybe(Agent) /\ local[d] \in Maybe(Agent)
      /\ fallback \in Maybe(Agent)
  BY DEF TypeOK
<1>2. Main \in Checkout /\ Named \in Agent
  BY DEF Checkout, Agent
<1>3. \A d \in Checkout : Declared(d) \in Maybe(Agent)
  BY <1>1 DEF Declared, FromWorktree, FromSettings
<1>4. Envs(c) \subseteq Maybe(Agent)
  BY <1>1, <1>2 DEF Envs, Maybe
<1>5. QED
  BY <1>1, <1>3, <1>4 DEF SetupName, EnvAgent, SessionIdentity

\* A stored key is a key the bus issued, or there is none.
LEMMA StoredIsIssued ==
  ASSUME Inv, NEW a \in Agent, keyfile[a] # None
  PROVE  keyfile[a] \in Key /\ issued[keyfile[a]] # None
BY DEF Inv, TypeOK, Bound, Maybe

\* The credential of an ordinary verb: nothing, the operator's, or an issued key.
LEMMA CredentialIsIssued ==
  ASSUME Inv, NEW c \in Checkout, NEW env \in Maybe(Agent)
  PROVE  LET k == Credential(c, env).key IN
         \/ k = None
         \/ k = OperatorKey /\ operator # None
         \/ k \in Key /\ issued[k] # None
<1> DEFINE preferred == EnvAgent(c, env)
           identity == IF SessionIdentity(c) # None THEN SessionIdentity(c) ELSE env
           own == preferred \in {None, identity} /\ identity # None
<1>1. preferred \in Maybe(Agent) /\ identity \in Maybe(Agent)
  BY NamesAreTyped DEF Inv
<1>2. CASE preferred # env /\ keyfile[preferred] # None
  <2>1. preferred # None
    BY <1>2, <1>1 DEF EnvAgent, Bleeds
  <2>2. preferred \in Agent
    BY <1>1, <2>1 DEF Maybe
  <2>3. Credential(c, env).key = keyfile[preferred]
    BY <1>2 DEF Credential, StoredKey
  <2>4. QED
    BY <1>2, <2>2, <2>3, StoredIsIssued
<1>3. CASE ~(preferred # env /\ keyfile[preferred] # None) /\ own /\ keyfile[identity] # None
  <2>1. identity \in Agent
    BY <1>1, <1>3 DEF Maybe
  <2>2. Credential(c, env).key = keyfile[identity]
    BY <1>3 DEF Credential, ResolveCredentials, StoredKey
  <2>3. QED
    BY <1>3, <2>1, <2>2, StoredIsIssued
<1>4. CASE ~(preferred # env /\ keyfile[preferred] # None) /\ ~(own /\ keyfile[identity] # None)
  <2>1. Credential(c, env).key = IF operator # None THEN OperatorKey ELSE None
    BY <1>4 DEF Credential, ResolveCredentials, StoredKey
  <2>2. QED
    BY <2>1
<1>5. QED
  BY <1>2, <1>3, <1>4

\* A command that starts knows what it read.
LEMMA StartStep ==
  ASSUME Inv, NEW c \in Checkout, NEW kind \in Kinds, NEW pc \in Steps,
         NEW env \in Maybe(Agent), NEW name \in Maybe(Agent),
         NEW stored \in Maybe(Key), NEW op \in Maybe(Workspace),
         Start(c, Fresh(kind, pc, env, name, stored, op)),
         LET r == Fresh(kind, pc, env, name, stored, op) IN
         run'[c] = r => Leaves(c)' /\ Sure(c)' /\ Looks(c)' /\ Known(c)'
  PROVE  Inv'
<1> DEFINE r == Fresh(kind, pc, env, name, stored, op)
<1>1. r \in Command
  BY DEF Fresh, Command, NoSettings, Maybe
<1>2. TypeOK /\ r \in Maybe(Command) /\ Becomes(c, r)
  BY <1>1 DEF Inv, Start, MayStart, Maybe
<1>3. /\ runs < MaxRuns /\ runs' = runs + 1
      /\ UNCHANGED <<store, bus, project, settings, events>>
  BY DEF Start, MayStart
<1> HIDE DEF r
<1>4. /\ run'[c] = r
      /\ \A d \in Checkout \ {c} : Bystander(d, {})
      /\ run' \in [Checkout -> Maybe(Command)]
  BY <1>2, BecomesOwn
<1>5. runs' \in 0..MaxRuns
  BY <1>2, <1>3, OnboardAssumption DEF TypeOK
<1>6. TypeOK'
  BY <1>2, <1>3, <1>4, <1>5 DEF TypeOK, store, bus, project
<1>7. Bound'
  BY <1>3 DEF Inv, Bound, store, bus
<1>8. About({})
  BY <1>3 DEF About, store, bus
<1>9. decl' = decl /\ local' = local
  BY <1>3 DEF project
<1>10. Leaves(c)' /\ Sure(c)' /\ Looks(c)' /\ Known(c)'
  BY <1>4 DEF r
<1>11. QED
  BY <1>4, <1>6, <1>7, <1>8, <1>9, <1>10, StepKeeps

LEMMA StartSetupKeeps ==
  ASSUME Inv, NEW c \in Checkout, NEW h \in Harness, NEW env \in Envs(c),
         StartSetup(c, h, env)
  PROVE  Inv'
<1> DEFINE name == SetupName(c, env)
           stored == IF name = None THEN None ELSE keyfile[name]
           pc == IF stored # None /\ operator # None THEN "validate" ELSE "register"
           known == name # None
           n == Fresh(h, pc, env, name, stored, operator)
<1>1. env \in Maybe(Agent) /\ name \in Maybe(Agent)
  BY NamesAreTyped DEF Inv
<1>2. stored # None => stored \in Key /\ issued[stored] # None /\ name \in Agent
  BY <1>1, StoredIsIssued DEF Maybe
<1>3. stored \in Maybe(Key) /\ operator \in Maybe(Workspace)
  BY <1>2 DEF Inv, TypeOK, Maybe
<1>4. Start(c, n) /\ (stored # None \/ operator # None)
  BY DEF StartSetup
<1>5. n = [kind |-> h, pc |-> pc, env |-> env, name |-> name, stored |-> stored,
           op |-> operator, key |-> None, seen |-> NoSettings, declared |-> known,
           asked |-> TRUE, calm |-> TRUE]
  BY DEF Fresh
<1>6. name # None => stored = keyfile[name]
  OBVIOUS
<1>7. (env # None /\ name = env) \/ decl[c] \in {None, name}
  BY DEF SetupName, Declared, FromWorktree, FromSettings
<1>8. UNCHANGED <<store, bus, project>>
  BY <1>4 DEF Start, MayStart
<1>9. pc \in {"validate", "register"} /\ (pc = "validate" <=> stored # None /\ operator # None)
  OBVIOUS
<1>10. h \in Kinds /\ h \notin {"teardown", "purge"} /\ pc \in Steps
  BY <1>9 DEF Kinds, Harness, Steps
<1>known. known <=> name # None
  OBVIOUS
<1> HIDE DEF name, stored, pc, known
<1>11. ASSUME run'[c] = n
       PROVE  Leaves(c)' /\ Sure(c)' /\ Looks(c)' /\ Known(c)'
  <2>1. Leaves(c)'
    BY <1>5, <1>9, <1>10, <1>11 DEF Leaves
  <2>2. Sure(c)'
    BY <1>5, <1>7, <1>8, <1>9, <1>11 DEF Sure, SettingUp, Wiring, project
  <2>3. Looks(c)'
    <3>1. name # None \/ stored = None
      BY <1>2, OnboardAssumption
    <3>2. /\ run'[c].pc = pc /\ run'[c].stored = stored /\ run'[c].op = operator
          /\ run'[c].kind = h /\ run'[c].name = name /\ issued' = issued
      BY <1>5, <1>8, <1>11 DEF bus
    <3>3. pc = "validate" => run'[c].declared
      BY <1>5, <1>9, <1>11, <1>known, <3>1
    <3>4. QED
      BY <1>2, <1>4, <1>9, <3>1, <3>2, <3>3 DEF Looks, SettingUp
  <2>4. Known(c)'
    <3>1. name # None /\ stored # None => issued[stored] # None
      BY <1>2
    <3>2. pc = "register" /\ operator # None => stored = None
      BY <1>9
    <3>3. /\ run'[c].pc = pc /\ run'[c].stored = stored /\ run'[c].op = operator
          /\ run'[c].name = name
          /\ operator' = operator /\ keyfile' = keyfile /\ issued' = issued
      BY <1>5, <1>8, <1>11 DEF store, bus
    <3>4. run'[c].declared => name # None
      BY <1>5, <1>11, <1>known
    <3>5. QED
      BY <1>2, <1>6, <1>9, <3>1, <3>2, <3>3, <3>4 DEF Known, Wiring
  <2>5. QED
    BY <2>1, <2>2, <2>3, <2>4
<1>12. QED
  BY <1>1, <1>3, <1>4, <1>10, <1>11, StartStep

LEMMA StartRegisterKeeps ==
  ASSUME Inv, NEW c \in Checkout, NEW env \in Envs(c), NEW asked \in {None, Named},
         StartRegister(c, env, asked)
  PROVE  Inv'
<1> DEFINE k == Credential(c, env).key
           name == IF asked # None THEN asked ELSE SetupName(c, env)
           stored == IF k = OperatorKey THEN None ELSE k
           n == Fresh("register", "register", env, name, stored, operator)
<1>1. env \in Maybe(Agent)
  BY NamesAreTyped DEF Inv
<1>2. name \in Maybe(Agent)
  BY <1>1, NamesAreTyped DEF Inv, Maybe, Agent
<1>3. k # None /\ Start(c, n)
  BY DEF StartRegister
<1>4. \/ k = OperatorKey /\ operator # None
      \/ k \in Key /\ issued[k] # None
  BY <1>1, <1>3, CredentialIsIssued
<1>5. /\ stored # None => stored \in Key /\ issued[stored] # None
      /\ stored # None \/ operator # None
  BY <1>3, <1>4 DEF OperatorKey, Key
<1>6. stored \in Maybe(Key) /\ operator \in Maybe(Workspace)
  BY <1>5 DEF Inv, TypeOK, Maybe
<1>7. "register" \in Kinds /\ "register" \in Steps
  BY DEF Kinds, Steps
<1>8. n = [kind |-> "register", pc |-> "register", env |-> env, name |-> name,
           stored |-> stored, op |-> operator, key |-> None, seen |-> NoSettings,
           declared |-> name # None, asked |-> TRUE, calm |-> TRUE]
  BY DEF Fresh
<1>9. UNCHANGED <<store, bus, project>>
  BY <1>3 DEF Start, MayStart
<1> HIDE DEF name, stored, k
<1>10. ASSUME run'[c] = n
       PROVE  Leaves(c)' /\ Sure(c)' /\ Looks(c)' /\ Known(c)'
  <2>1. Leaves(c)' /\ Sure(c)' /\ Known(c)'
    BY <1>8, <1>10 DEF Leaves, Sure, Known, SettingUp, Harness
  <2>2. Looks(c)'
    BY <1>5, <1>8, <1>9, <1>10 DEF Looks, bus
  <2>3. QED
    BY <2>1, <2>2
<1>11. QED
  BY <1>1, <1>2, <1>3, <1>6, <1>7, <1>10, StartStep

LEMMA StartTeardownKeeps ==
  ASSUME Inv, NEW c \in Checkout, NEW purge \in BOOLEAN, StartTeardown(c, purge)
  PROVE  Inv'
<1> DEFINE kind == IF purge THEN "purge" ELSE "teardown"
           n == Fresh(kind, "rm", None, Declared(c), None, None)
<1>1. Start(c, n) /\ kind \in {"purge", "teardown"}
  BY DEF StartTeardown
<1>2. Declared(c) \in Maybe(Agent)
  BY NamesAreTyped DEF Inv
<1>3. n = [kind |-> kind, pc |-> "rm", env |-> None, name |-> Declared(c),
           stored |-> None, op |-> None, key |-> None, seen |-> NoSettings,
           declared |-> Declared(c) # None, asked |-> TRUE, calm |-> TRUE]
  BY DEF Fresh
<1> HIDE DEF kind
<1>4. ASSUME run'[c] = n
      PROVE  Leaves(c)' /\ Sure(c)' /\ Looks(c)' /\ Known(c)'
  BY <1>1, <1>3, <1>4 DEF Leaves, Sure, Looks, Known, SettingUp, Harness
<1>5. /\ kind \in Kinds /\ "rm" \in Steps /\ None \in Maybe(Agent)
      /\ None \in Maybe(Key) /\ None \in Maybe(Workspace)
  BY <1>1 DEF Kinds, Steps, Maybe
<1>6. QED
  BY <1>1, <1>2, <1>4, <1>5, StartStep

-----------------------------------------------------------------------------
(* What happens around the commands.                                          *)

LEMMA EventStep ==
  ASSUME Inv, Event, NEW A, run' = Disturbed(run, None, A), About(A \cup {None}), Bound',
         operator' \in Maybe(Workspace), fallback' \in Maybe(Agent),
         keyfile' \in [Agent -> Maybe(Key)], issued' \in [Key -> Maybe(Binding)],
         dead' \subseteq Key, settings' \in [plugin : BOOLEAN, hooks : BOOLEAN],
         UNCHANGED <<row, barred, project, runs>>
  PROVE  Inv'
<1>1. TypeOK
  BY DEF Inv
<1>2. /\ \A d \in Checkout : Bystander(d, A \cup {None})
      /\ run' \in [Checkout -> Maybe(Command)]
  BY <1>1, DisturbingAll
<1>3. events' \in 0..MaxEvents
  BY <1>1, OnboardAssumption DEF TypeOK, Event
<1>4. TypeOK'
  BY <1>1, <1>2, <1>3 DEF TypeOK, project
<1>5. decl' = decl /\ local' = local
  BY DEF project
<1>6. QED
  BY <1>2, <1>4, <1>5, StepKeeps

LEMMA EventsKeep ==
  ASSUME Inv,
         \/ \E w \in Workspace : Signin(w) \/ SigninBound(w, Named) \/ Refuse(w)
         \/ \E k \in Key : Revoke(k)
         \/ EditSettings
  PROVE  Inv'
<1>1. TypeOK /\ Bound
  BY DEF Inv
<1>2. ASSUME NEW w \in Workspace, Signin(w)
      PROVE  Inv'
  <2>1. Agent \cup {None} = Maybe(Agent)
    BY DEF Maybe
  <2>2. Event /\ run' = Disturbed(run, None, Agent) /\ operator' = w /\ fallback' = None
        /\ UNCHANGED <<keyfile, bus, project, settings, runs>>
    BY <1>2 DEF Signin
  <2>3. About(Agent \cup {None}) /\ Bound'
    BY <1>1, <2>1, <2>2 DEF About, Bound, bus
  <2>4. QED
    BY <1>1, <2>2, <2>3, EventStep DEF TypeOK, bus, Maybe
<1>3. ASSUME NEW w \in Workspace, SigninBound(w, Named)
      PROVE  Inv'
  <2>1. Named \in Agent
    BY DEF Agent
  <2>2. PICK k \in Key : Issue(k, Named, w) /\ keyfile' = [keyfile EXCEPT ![Named] = k]
    BY <1>3 DEF SigninBound
  <2>3. /\ issued[k] = None /\ k \notin dead
        /\ \A b \in Agent : keyfile[b] # k
        /\ issued'[k] = [agent |-> Named, ws |-> w] /\ issued'[k] # None
        /\ \A j \in Key : issued[j] # None => issued'[j] = issued[j]
        /\ issued' \in [Key -> Maybe(Binding)]
    BY <2>1, <2>2, IssuedAnew
  <2>4. /\ Event /\ run' = Disturbed(run, None, {Named}) /\ fallback' = Named
        /\ UNCHANGED <<operator, dead, row, barred, project, settings, runs>>
    BY <1>3 DEF SigninBound
  <2>5. /\ keyfile' \in [Agent -> Maybe(Key)] /\ keyfile'[Named] = k
        /\ \A a \in Agent \ {Named} : keyfile'[a] = keyfile[a]
    BY <1>1, <2>1, <2>2 DEF TypeOK, Maybe
  <2>6. About({Named} \cup {None})
    BY <2>3, <2>4, <2>5 DEF About
  <2>7. Bound'
    <3>1. \A a \in Agent : keyfile[a] \in Maybe(Key)
      BY <1>1 DEF TypeOK
    <3>2. dead \subseteq Key
      BY <1>1 DEF TypeOK
    <3>3. QED
      BY <1>1, <2>3, <2>4, <2>5, <3>1, <3>2 DEF Bound, Maybe
  <2>8. QED
    BY <1>1, <2>1, <2>3, <2>4, <2>5, <2>6, <2>7, EventStep DEF TypeOK, Maybe
<1>4. ASSUME NEW k \in Key, Revoke(k)
      PROVE  Inv'
  <2>1. /\ Event /\ issued[k] # None /\ dead' = dead \cup {k}
        /\ run' = Disturbed(run, None, {issued[k].agent})
        /\ UNCHANGED <<store, issued, row, barred, project, settings, runs>>
    BY <1>4 DEF Revoke
  <2>2. About({issued[k].agent} \cup {None}) /\ Bound'
    BY <1>1, <2>1 DEF About, Bound, store
  <2>3. QED
    BY <1>1, <2>1, <2>2, EventStep DEF TypeOK, store
<1>5. CASE EditSettings
  <2>1. /\ Event /\ settings' = [settings EXCEPT !.plugin = ~settings.plugin]
        /\ run' = Disturbed(run, None, Agent)
        /\ UNCHANGED <<store, bus, project, runs>>
    BY <1>5 DEF EditSettings
  <2>2. About(Agent \cup {None}) /\ Bound'
    BY <1>1, <2>1 DEF About, Bound, store, bus
  <2>3. settings' \in [plugin : BOOLEAN, hooks : BOOLEAN]
    BY <1>1, <2>1 DEF TypeOK
  <2>4. QED
    BY <1>1, <2>1, <2>2, <2>3, EventStep DEF TypeOK, store, bus
<1>6. ASSUME NEW w \in Workspace, Refuse(w)
      PROVE  Inv'
  <2>1. /\ Event /\ barred' = barred \cup {w}
        /\ UNCHANGED <<store, issued, dead, row, project, settings, run, runs>>
    BY <1>6 DEF Refuse
  <2>2. events' \in 0..MaxEvents
    BY <1>1, <2>1, OnboardAssumption DEF TypeOK, Event
  <2>3. TypeOK' /\ Bound'
    BY <1>1, <2>1, <2>2 DEF TypeOK, Bound, store, project
  <2>4. About({})
    BY <2>1 DEF About, store
  <2>5. \A d \in Checkout : Bystander(d, {}) /\ decl'[d] = decl[d] /\ local'[d] = local[d]
    BY <2>1 DEF Bystander, project
  <2>6. QED
    BY <2>3, <2>4, <2>5, StepKeeps
<1>7. QED
  BY <1>2, <1>3, <1>4, <1>5, <1>6

-----------------------------------------------------------------------------
(* The invariant holds at first and through every step.                       *)

LEMMA InitInv == Init => Inv
<1> SUFFICES ASSUME Init PROVE Inv
  OBVIOUS
<1>1. PICK home \in Maybe(Workspace) :
        LET before == home # None
            If(x) == IF before THEN x ELSE None
            InMain(x) == [c \in Checkout |-> IF c = Main THEN If(x) ELSE None]
        IN /\ operator \in IF before THEN {home} ELSE Maybe(Workspace)
           /\ keyfile = [a \in Agent |-> IF a = MainAgent THEN If(1) ELSE None]
           /\ issued = [k \in Key |-> IF k = 1 THEN If([agent |-> MainAgent, ws |-> home])
                                      ELSE None]
           /\ row = [w \in Workspace |-> IF w = home THEN InMain(MainAgent)
                                         ELSE [c \in Checkout |-> None]]
           /\ decl = InMain(MainAgent)
           /\ local = InMain(MainAgent)
           /\ settings = [plugin |-> FALSE, hooks |-> before]
           /\ fallback = None /\ dead = {} /\ barred = {} /\ listed = {}
           /\ bearer = [c \in Checkout |-> None]
           /\ run = [c \in Checkout |-> None]
           /\ runs = 0 /\ events = 0
  BY DEF Init
<1> DEFINE name == IF home # None THEN MainAgent ELSE None
           bound == IF home # None THEN [agent |-> MainAgent, ws |-> home] ELSE None
           key == IF home # None THEN 1 ELSE None
<1>2. name \in Maybe(Agent) /\ key \in Maybe(Key) /\ bound \in Maybe(Binding)
  BY OnboardAssumption DEF Agent, Key, Binding, Maybe
<1>3. TypeOK
  <2>1. operator \in Maybe(Workspace) /\ fallback \in Maybe(Agent)
    BY <1>1 DEF Maybe
  <2>2. keyfile = [a \in Agent |-> IF a = MainAgent THEN key ELSE None]
        /\ issued = [k \in Key |-> IF k = 1 THEN bound ELSE None]
        /\ decl = [c \in Checkout |-> IF c = Main THEN name ELSE None]
        /\ local = [c \in Checkout |-> IF c = Main THEN name ELSE None]
    BY <1>1
  <2>3. row = [w \in Workspace |-> IF w = home THEN [c \in Checkout |-> IF c = Main THEN name ELSE None]
                                   ELSE [c \in Checkout |-> None]]
    BY <1>1
  <2>4. /\ keyfile \in [Agent -> Maybe(Key)]
        /\ issued \in [Key -> Maybe(Binding)]
        /\ decl \in [Checkout -> Maybe(Agent)] /\ local \in [Checkout -> Maybe(Agent)]
    <3> HIDE DEF name, key, bound
    <3> QED BY <1>2, <2>2 DEF Maybe
  <2>5. row \in [Workspace -> [Checkout -> Maybe(Agent)]]
    <3> HIDE DEF name
    <3> QED BY <1>2, <2>3 DEF Maybe
  <2>6. bearer \in [Checkout -> Maybe(Key)] /\ run \in [Checkout -> Maybe(Command)]
    BY <1>1 DEF Maybe
  <2>7. dead \subseteq Key /\ barred \subseteq Workspace /\ listed \subseteq Checkout
    BY <1>1
  <2>8. settings \in [plugin : BOOLEAN, hooks : BOOLEAN]
    BY <1>1
  <2>9. runs \in 0..MaxRuns /\ events \in 0..MaxEvents
    BY <1>1, OnboardAssumption
  <2>10. QED
    BY <2>1, <2>4, <2>5, <2>6, <2>7, <2>8, <2>9 DEF TypeOK
<1>4. Bound
  <2>1. dead = {}
    BY <1>1
  <2>2. ASSUME NEW a \in Agent, keyfile[a] # None
        PROVE  issued[keyfile[a]] # None /\ issued[keyfile[a]].agent = a
    <3>1. a = MainAgent /\ home # None /\ keyfile[a] = 1
      BY <1>1, <2>2
    <3>2. 1 \in Key
      BY OnboardAssumption DEF Key
    <3>3. issued[1] = [agent |-> MainAgent, ws |-> home]
      BY <1>1, <3>1, <3>2
    <3>4. issued[1] # None
      <4>1. issued[1] \in Binding
        BY <3>1, <3>3 DEF Binding, Agent, Maybe
      <4>2. QED
        BY <4>1, OnboardAssumption
    <3>5. QED
      BY <3>1, <3>3, <3>4
  <2>3. QED
    BY <2>1, <2>2 DEF Bound
<1>5. \A c \in Checkout : run[c] = None
  BY <1>1
<1>6. QED
  BY <1>3, <1>4, <1>5 DEF Inv, Leaves, Sure, Looks, Known, SettingUp

LEMMA StepsKeep ==
  ASSUME Inv, NEW c \in Checkout, Step(c)
  PROVE  Inv'
<1>1. CASE Validate(c)
  BY <1>1, ValidateKeeps
<1>2. CASE SetAside(c)
  BY <1>2, SetAsideKeeps
<1>3. CASE Register(c)
  BY <1>3, RegisterKeeps
<1>4. CASE KeepKey(c) \/ NoKey(c)
  BY <1>4, KeepKeyKeeps, NoKeyKeeps
<1>5. CASE MintKey(c) \/ StoreKey(c)
  BY <1>5, MintKeyKeeps, StoreKeyKeeps
<1>6. CASE WriteDecl(c) \/ WriteLocal(c) \/ LoadSettings(c)
  BY <1>6, WriteDeclKeeps, WriteLocalKeeps, LoadSettingsKeeps
<1>7. CASE Mark(c) \/ DumpSettings(c) \/ WireEntry(c) \/ Quit(c)
  BY <1>7, LastStepsKeep
<1>8. CASE Claim(c)
  BY <1>8, ClaimKeeps
<1>9. CASE RemoveDecl(c) \/ UnsetLocal(c)
  BY <1>9, RemovingKeeps
<1>10. CASE PurgeKey(c)
  BY <1>10, PurgeKeyKeeps
<1>11. QED
  BY <1>1, <1>2, <1>3, <1>4, <1>5, <1>6, <1>7, <1>8, <1>9, <1>10 DEF Step

LEMMA StutteringKeeps == Inv /\ UNCHANGED vars => Inv'
<1> SUFFICES ASSUME Inv, UNCHANGED vars PROVE Inv'
  OBVIOUS
<1>1. TypeOK' /\ Bound'
  BY DEF Inv, TypeOK, Bound, vars, store, bus, project
<1>2. About({})
  BY DEF About, vars, store, bus
<1>3. \A d \in Checkout : Bystander(d, {}) /\ decl'[d] = decl[d] /\ local'[d] = local[d]
  BY DEF Bystander, vars, project
<1>4. QED
  BY <1>1, <1>2, <1>3, StepKeeps

LEMMA NextKeeps == Inv /\ [Next]_vars => Inv'
<1>1. ASSUME Inv, NEW c \in Checkout,
             \/ Step(c)
             \/ \E h \in Harness, env \in Envs(c) : StartSetup(c, h, env)
             \/ \E env \in Envs(c), asked \in {None, Named} : StartRegister(c, env, asked)
             \/ \E purge \in BOOLEAN : StartTeardown(c, purge)
      PROVE  Inv'
  BY <1>1, StepsKeep, StartSetupKeeps, StartRegisterKeeps, StartTeardownKeeps
<1>2. QED
  BY <1>1, EventsKeep, StutteringKeeps DEF Next

\* The invariant that the theorems below rest on.
THEOREM InductiveInvariant == Spec => []Inv
BY InitInv, NextKeeps, PTL DEF Spec

\* Every command holds what its step needs, the stores hold issued keys and the
\* counters stay within their bounds: the model never reads what is not there.
THEOREM TypeCorrect == Spec => []TypeOK
<1>1. Inv => TypeOK
  BY DEF Inv
<1>2. QED
  BY <1>1, InductiveInvariant, PTL

LEMMA InvIsSound ==
  ASSUME Inv
  PROVE  FinishedSetupWorks
<1> SUFFICES ASSUME NEW c \in Checkout, SettingUp(c), run[c].pc \in Wiring, run[c].calm,
                    run[c].declared, run[c].asked, run[c].op # None
             PROVE  /\ run[c].op = operator
                    /\ keyfile[run[c].name] \in Key \ dead
                    /\ issued[keyfile[run[c].name]] = [agent |-> run[c].name, ws |-> operator]
  BY DEF FinishedSetupWorks
<1> DEFINE k == keyfile[run[c].name]
<1>1. Known(c)
  BY DEF Inv
<1>2. run[c].op = operator /\ run[c].name # None /\ Sound(run[c])
  BY <1>1 DEF Known
<1>3. run[c].name \in Agent
  BY <1>2, RunningIsACommand DEF SettingUp, Inv, Command, Maybe
<1>4. k # None /\ k \in Key \ dead /\ issued[k].ws = operator
  BY <1>2, <1>3 DEF Sound, Ours, Inv, TypeOK, Maybe
<1>5. issued[k] # None /\ issued[k].agent = run[c].name
  BY <1>3, <1>4 DEF Inv, Bound
<1>6. issued[k] \in Binding
  BY <1>4, <1>5 DEF Inv, TypeOK, Maybe
<1>7. issued[k] = [agent |-> run[c].name, ws |-> operator]
  BY <1>4, <1>5, <1>6 DEF Binding
<1>8. QED
  BY <1>2, <1>4, <1>7

\* However two checkouts' commands interleave, fail or are killed, a setup that
\* nobody disturbed wires its checkout to a key that works there.
THEOREM SetupIsSound == Spec => []FinishedSetupWorks
<1>1. Inv => FinishedSetupWorks
  BY InvIsSound
<1>2. QED
  BY <1>1, InductiveInvariant, PTL

\* What a step that takes a working key away is.
Kept ==
  \A a \in Agent :
    (/\ keyfile[a] \in Key \ dead /\ issued[keyfile[a]].ws = operator
     /\ keyfile'[a] = None)
    => \E c \in Checkout :
         /\ run[c] # None /\ run[c].name = a
         /\ run[c].kind = "purge" \/ ~run[c].calm \/ run[c].op \in barred

LEMMA StepsKeepKeys ==
  ASSUME Inv, Next
  PROVE  Kept
<1> SUFFICES ASSUME NEW a \in Agent, keyfile[a] \in Key \ dead,
                    issued[keyfile[a]].ws = operator, keyfile'[a] = None
             PROVE  \E c \in Checkout :
                      /\ run[c] # None /\ run[c].name = a
                      /\ run[c].kind = "purge" \/ ~run[c].calm \/ run[c].op \in barred
  BY DEF Kept
<1>1. keyfile[a] # None /\ keyfile \in [Agent -> Maybe(Key)]
  BY OnboardAssumption DEF Key, Inv, TypeOK
<1>2. ASSUME keyfile' = keyfile PROVE FALSE
  BY <1>1, <1>2
<1>3. ASSUME NEW c \in Checkout, SetAside(c)
      PROVE  run[c] # None /\ run[c].name = a /\ (~run[c].calm \/ run[c].op \in barred)
  <2>1. run[c] # None /\ run[c] \in Command /\ run[c].pc = "aside"
    BY <1>3, AtACommand DEF SetAside
  <2>2. run[c].name = a
    BY <1>1, <1>3 DEF SetAside
  <2>3. SettingUp(c) /\ run[c].declared /\ run[c].op # None
    BY <2>1 DEF Inv, Looks
  <2>4. run[c].calm => /\ run[c].op = operator /\ run[c].stored = keyfile[a]
                       /\ \/ run[c].stored \in dead \/ run[c].op \in barred
                          \/ issued[run[c].stored].ws # run[c].op
    BY <2>1, <2>2, <2>3 DEF Inv, Known
  <2>5. QED
    BY <2>1, <2>2, <2>4
<1>4. ASSUME NEW c \in Checkout, StoreKey(c) PROVE FALSE
  <2>1. run[c].key # None
    BY <1>4, AtACommand DEF StoreKey, Inv, Looks
  <2>2. QED
    BY <1>1, <1>4, <2>1 DEF StoreKey
<1>5. ASSUME NEW c \in Checkout, PurgeKey(c)
      PROVE  run[c] # None /\ run[c].name = a /\ run[c].kind = "purge"
  <2>1. run[c] # None
    BY <1>5, AtACommand DEF PurgeKey
  <2>2. QED
    BY <1>1, <1>5, <2>1 DEF PurgeKey
<1>6. ASSUME NEW w \in Workspace, SigninBound(w, Named) PROVE FALSE
  <2>1. PICK k \in Key : keyfile' = [keyfile EXCEPT ![Named] = k]
    BY <1>6 DEF SigninBound
  <2>2. k # None
    BY OnboardAssumption DEF Key
  <2>3. QED
    BY <1>1, <2>1, <2>2
<1>7. ASSUME NEW c \in Checkout,
             \/ Validate(c) \/ Register(c) \/ KeepKey(c) \/ MintKey(c)
             \/ NoKey(c) \/ WriteDecl(c) \/ WriteLocal(c) \/ Mark(c)
             \/ LoadSettings(c) \/ DumpSettings(c) \/ WireEntry(c) \/ Claim(c)
             \/ RemoveDecl(c) \/ UnsetLocal(c) \/ Quit(c)
      PROVE  FALSE
  BY <1>2, <1>7 DEF Validate, Register, KeepKey, MintKey, NoKey, WriteDecl, WriteLocal,
    Mark, LoadSettings, DumpSettings, WireEntry, Claim, RemoveDecl, UnsetLocal, Quit, store
<1>8. ASSUME NEW c \in Checkout,
             \/ \E h \in Harness, env \in Envs(c) : StartSetup(c, h, env)
             \/ \E env \in Envs(c), asked \in {None, Named} : StartRegister(c, env, asked)
             \/ \E purge \in BOOLEAN : StartTeardown(c, purge)
      PROVE  FALSE
  BY <1>2, <1>8 DEF StartSetup, StartRegister, StartTeardown, Start, MayStart, store
<1>9. ASSUME \/ \E w \in Workspace : Signin(w) \/ Refuse(w)
             \/ \E k \in Key : Revoke(k)
             \/ EditSettings
      PROVE  FALSE
  BY <1>2, <1>9 DEF Signin, Refuse, Revoke, EditSettings, store
<1>10. QED
  BY <1>3, <1>4, <1>5, <1>6, <1>7, <1>8, <1>9 DEF Next, Step

\* A key that works stays where its agent's sessions look for it, unless it is
\* purged, or a setup was disturbed or has an operator key that is refused.
THEOREM KeysAreKept == Spec => LiveKeyKept
<1>1. Inv /\ [Next]_vars => [Kept]_vars
  BY StepsKeepKeys
<1>2. QED
  BY <1>1, InductiveInvariant, PTL DEF Spec, LiveKeyKept, Kept

\* What a step that changes a checkout's identity is.
Deliberate ==
  \A c \in Checkout :
    /\ (decl[c] # None /\ decl'[c] \notin {None, decl[c]})
       => (run[c].env = decl'[c] \/ run[c].kind = "register")
    /\ (local[c] # None /\ local'[c] \notin {None, local[c]})
       => (run[c].kind = "claude" /\ decl[c] = local'[c])

LEMMA StepsAreDeliberate ==
  ASSUME Inv, Next
  PROVE  Deliberate
<1>1. decl \in [Checkout -> Maybe(Agent)] /\ local \in [Checkout -> Maybe(Agent)]
  BY DEF Inv, TypeOK
<1>2. ASSUME decl' = decl, local' = local PROVE Deliberate
  BY <1>2 DEF Deliberate
<1>3. ASSUME NEW c \in Checkout, WriteDecl(c) PROVE Deliberate
  <2>1. decl' = [decl EXCEPT ![c] = run[c].name] /\ local' = local
    BY <1>3 DEF WriteDecl
  <2>2. run[c] # None /\ run[c] \in Command /\ run[c].pc = "decl"
    BY <1>3, AtACommand DEF WriteDecl
  <2>3. decl[c] # None /\ run[c].name # decl[c]
        => run[c].env = run[c].name \/ run[c].kind = "register"
    <3>1. run[c].kind \in Harness \cup {"register"}
      BY <2>2 DEF Inv, Leaves, Command, Kinds
    <3>2. QED
      BY <2>2, <3>1 DEF Inv, Sure, SettingUp
  <2>4. decl'[c] = run[c].name /\ \A d \in Checkout \ {c} : decl'[d] = decl[d]
    BY <1>1, <2>1
  <2>5. QED
    BY <2>1, <2>3, <2>4 DEF Deliberate
<1>4. ASSUME NEW c \in Checkout, WriteLocal(c) PROVE Deliberate
  <2>1. local' = [local EXCEPT ![c] = run[c].name] /\ decl' = decl
    BY <1>4 DEF WriteLocal
  <2>2. run[c] # None /\ run[c] \in Command /\ run[c].pc = "local"
    BY <1>4, AtACommand DEF WriteLocal
  <2>3. SettingUp(c)
    BY <2>2 DEF Inv, Looks, SettingUp, Harness
  <2>4. run[c].kind = "claude" /\ decl[c] = run[c].name
    BY <2>2, <2>3 DEF Inv, Sure
  <2>5. local'[c] = run[c].name /\ \A d \in Checkout \ {c} : local'[d] = local[d]
    BY <1>1, <2>1
  <2>6. QED
    BY <2>1, <2>4, <2>5 DEF Deliberate
<1>5. ASSUME NEW c \in Checkout, Claim(c) PROVE Deliberate
  BY <1>1, <1>5 DEF Claim, Deliberate
<1>6. ASSUME NEW c \in Checkout, RemoveDecl(c) PROVE Deliberate
  BY <1>1, <1>6 DEF RemoveDecl, Deliberate
<1>7. ASSUME NEW c \in Checkout, UnsetLocal(c) PROVE Deliberate
  BY <1>1, <1>7 DEF UnsetLocal, Deliberate
<1>8. ASSUME NEW c \in Checkout,
             \/ Validate(c) \/ SetAside(c) \/ Register(c) \/ KeepKey(c) \/ MintKey(c)
             \/ NoKey(c) \/ StoreKey(c) \/ Mark(c) \/ LoadSettings(c)
             \/ DumpSettings(c) \/ WireEntry(c) \/ PurgeKey(c) \/ Quit(c)
      PROVE  Deliberate
  BY <1>2, <1>8 DEF Validate, SetAside, Register, KeepKey, MintKey, NoKey, StoreKey, Mark,
    LoadSettings, DumpSettings, WireEntry, PurgeKey, Quit, project
<1>9. ASSUME NEW c \in Checkout,
             \/ \E h \in Harness, env \in Envs(c) : StartSetup(c, h, env)
             \/ \E env \in Envs(c), asked \in {None, Named} : StartRegister(c, env, asked)
             \/ \E purge \in BOOLEAN : StartTeardown(c, purge)
      PROVE  Deliberate
  BY <1>2, <1>9 DEF StartSetup, StartRegister, StartTeardown, Start, MayStart, project
<1>10. ASSUME \/ \E w \in Workspace : Signin(w) \/ SigninBound(w, Named) \/ Refuse(w)
              \/ \E k \in Key : Revoke(k)
              \/ EditSettings
       PROVE  Deliberate
  BY <1>2, <1>10 DEF Signin, SigninBound, Refuse, Revoke, EditSettings, project
<1>11. QED
  BY <1>3, <1>4, <1>5, <1>6, <1>7, <1>8, <1>9, <1>10 DEF Next, Step

\* The identity a checkout declares changes hands only deliberately.
THEOREM DeclarationsAreDeliberate == Spec => DeclarationIsDeliberate
<1>1. Inv /\ [Next]_vars => [Deliberate]_vars
  BY StepsAreDeliberate
<1>2. QED
  BY <1>1, InductiveInvariant, PTL DEF Spec, DeclarationIsDeliberate, Deliberate

LEMMA InvSilences ==
  ASSUME Inv
  PROVE  SilentAfterTeardown
<1> SUFFICES ASSUME NEW c \in Checkout, At(c, "purgekey")
             PROVE  /\ HookAgent(c, None) = None /\ AgyAgent(c) = None
                    /\ SessionIdentity(c) = fallback
  BY DEF SilentAfterTeardown
<1>1. decl[c] = None /\ local[c] = None
  BY AtACommand DEF Inv, Leaves
<1>2. Declared(c) = None
  BY <1>1 DEF Declared, FromWorktree, FromSettings
<1>3. QED
  BY <1>2 DEF HookAgent, AgyAgent, SessionIdentity

\* A teardown that has removed both records of an identity leaves no session of
\* the checkout with one.
THEOREM TeardownSilences == Spec => []SilentAfterTeardown
<1>1. Inv => SilentAfterTeardown
  BY InvSilences
<1>2. QED
  BY <1>1, InductiveInvariant, PTL

-----------------------------------------------------------------------------
(* What setup writes for a harness (Harness): its steps are Onboard's steps   *)
(* and steps that leave Onboard's state alone, but for the edit of hooks.json *)
(* that Onboard's bound on events counts.                                     *)

Edited == Event /\ UNCHANGED <<store, bus, project, settings, run, runs>>

LEMMA HarnessSteps ==
  ASSUME [HarnessNext]_harnessVars
  PROVE  [Next]_vars \/ Edited
<1>1. CASE Onboarding
  BY <1>1 DEF Onboarding
<1>2. ASSUME NEW c \in Checkout, HarnessStep(c) PROVE [Next]_vars
  <2>1. CASE Continue(c)
    BY <2>1 DEF Continue, Next, Step
  <2>2. CASE Probe(c) \/ Remove(c) \/ Add(c) \/ LoadHooks(c) \/ WriteHooks(c) \/ Leave(c)
    BY <2>2 DEF Probe, Remove, Add, LoadHooks, WriteHooks, Leave
  <2>3. QED
    BY <1>2, <2>1, <2>2 DEF HarnessStep
<1>3. CASE EditHooks
  BY <1>3 DEF EditHooks, Edited
<1>4. CASE UNCHANGED harnessVars
  BY <1>4 DEF harnessVars
<1>5. QED
  BY <1>1, <1>2, <1>3, <1>4 DEF HarnessNext

LEMMA EditedKeeps ==
  ASSUME Inv, Edited
  PROVE  Inv'
<1>1. TypeOK'
  <2>1. events' \in 0..MaxEvents
    BY OnboardAssumption DEF Inv, TypeOK, Edited, Event
  <2>2. QED
    BY <2>1 DEF Inv, TypeOK, Edited, store, bus, project
<1>2. Bound'
  BY DEF Inv, Bound, Edited, store, bus
<1>3. About({})
  BY DEF About, Edited, store, bus
<1>4. \A d \in Checkout : Bystander(d, {}) /\ decl'[d] = decl[d] /\ local'[d] = local[d]
  BY DEF Bystander, Edited, project
<1>5. QED
  BY <1>1, <1>2, <1>3, <1>4, StepKeeps

LEMMA HarnessKeeps == Inv /\ [HarnessNext]_harnessVars => Inv'
BY HarnessSteps, NextKeeps, EditedKeeps

\* Onboard's invariant is one of the composition, too.
THEOREM HarnessInductive == HarnessSpec => []Inv
<1>1. HarnessInit => Inv
  BY InitInv DEF HarnessInit
<1>2. QED
  BY <1>1, HarnessKeeps, PTL DEF HarnessSpec

\* A setup that nobody disturbed wires its checkout to a key that works there,
\* whatever it then writes for its harness and whoever else does.
THEOREM HarnessSetupIsSound == HarnessSpec => []FinishedSetupWorks
<1>1. Inv => FinishedSetupWorks
  BY InvIsSound
<1>2. QED
  BY <1>1, HarnessInductive, PTL

\* A teardown silences its checkout, whatever was written for its harness.
THEOREM HarnessTeardownSilences == HarnessSpec => []SilentAfterTeardown
<1>1. Inv => SilentAfterTeardown
  BY InvSilences
<1>2. QED
  BY <1>1, HarnessInductive, PTL

\* A key that works stays where its agent's sessions look for it, in the
\* composition as in Onboard alone.
THEOREM HarnessKeysAreKept == HarnessSpec => LiveKeyKept
<1>1. Inv /\ [HarnessNext]_harnessVars => [Kept]_vars
  <2>1. ASSUME Inv, Edited PROVE Kept
    <3>1. keyfile' = keyfile /\ keyfile \in [Agent -> Maybe(Key)] /\ None \notin Key
      BY <2>1, OnboardAssumption DEF Edited, store, Inv, TypeOK, Key
    <3>2. QED
      BY <3>1 DEF Kept
  <2>2. QED
    BY <2>1, HarnessSteps, StepsKeepKeys
<1>2. QED
  BY <1>1, HarnessInductive, PTL DEF HarnessSpec, LiveKeyKept, Kept

\* The identity a checkout declares changes hands only deliberately, in the
\* composition as in Onboard alone.
THEOREM HarnessIsDeliberate == HarnessSpec => DeclarationIsDeliberate
<1>1. Inv /\ [HarnessNext]_harnessVars => [Deliberate]_vars
  <2>1. ASSUME Inv, Edited PROVE Deliberate
    BY <2>1 DEF Edited, project, Deliberate
  <2>2. QED
    BY <2>1, HarnessSteps, StepsAreDeliberate
<1>2. QED
  BY <1>1, HarnessInductive, PTL DEF HarnessSpec, DeclarationIsDeliberate, Deliberate

-----------------------------------------------------------------------------
(* The entry and the hooks file.                                              *)

\* A Claude setup: without a failed call, what it adds is added to nothing.
EntryOf(c) ==
  (wiring[c] # None /\ wiring[c].kind = "claude") =>
    LET w == wiring[c] IN
    /\ w.pc \in {"probe", "remove", "add", "done"}
    /\ (w.pc = "add" /\ ~w.failed) => mcp[c] = None
    /\ (w.pc = "done" /\ w.key # None /\ ~w.failed) => mcp[c] = w.key

\* An agy setup: unless the file was edited under it, the file is what it
\* loaded, or that as the other checkout's setup has merged it, and once it has
\* written, the merge of what it loaded.
HooksOf(c) ==
  (wiring[c] # None /\ wiring[c].kind = "agy") =>
    LET w == wiring[c] IN
    /\ w.pc \in {"load", "write", "done"}
    /\ (w.pc = "write" /\ ~w.raced) => hooks \in {w.seen, Ensure(w.seen)}
    /\ (w.pc = "done" /\ ~w.raced) => hooks = Ensure(w.seen)

HarnessInv ==
  /\ Inv
  /\ HarnessTypeOK
  /\ \A c \in Checkout : EntryOf(c) /\ HooksOf(c)

\* Merging is idempotent: setup on a machine that is set up changes nothing.
LEMMA EnsureTwice ==
  ASSUME NEW file \in HookFile
  PROVE  Ensure(file) \in HookFile /\ Ensure(Ensure(file)) = Ensure(file)
BY HarnessAssumption DEF Ensure, HookFile, IsOurs, Owner, Name, OurHooks

LEMMA InitHarness == HarnessInit => HarnessInv
<1> SUFFICES ASSUME HarnessInit PROVE HarnessInv
  OBVIOUS
<1>1. Inv
  BY InitInv DEF HarnessInit
<1>2. mcp \in [Checkout -> Maybe(Key)] /\ wiring \in [Checkout -> Maybe(HarnessPart)]
  <2>1. keyfile[MainAgent] \in Maybe(Key)
    BY <1>1 DEF Inv, TypeOK, Agent
  <2>2. QED
    BY <2>1 DEF HarnessInit, Maybe
<1>3. hooks \in HookFile
  BY DEF HarnessInit, NoHooks, UsedHooks, HookFile, Name, OurHooks, Owner
<1>4. \A c \in Checkout : EntryOf(c) /\ HooksOf(c)
  BY DEF HarnessInit, EntryOf, HooksOf
<1>5. QED
  BY <1>1, <1>2, <1>3, <1>4 DEF HarnessInv, HarnessTypeOK, Inv

LEMMA WiresAPart ==
  ASSUME HarnessInv, NEW c \in Checkout, wiring[c] # None
  PROVE  wiring[c] \in HarnessPart
BY DEF HarnessInv, HarnessTypeOK, Maybe

\* A step of c alone that leaves hooks.json and the other checkout's entry alone.
LEMMA OwnPart ==
  ASSUME HarnessInv, Inv', NEW c \in Checkout, NEW w \in Maybe(HarnessPart), Advance(c, w),
         hooks' = hooks, mcp' \in [Checkout -> Maybe(Key)],
         \A d \in Checkout \ {c} : mcp'[d] = mcp[d],
         wiring'[c] = w => EntryOf(c)' /\ HooksOf(c)'
  PROVE  HarnessInv'
<1>1. /\ wiring' \in [Checkout -> Maybe(HarnessPart)] /\ wiring'[c] = w
      /\ \A d \in Checkout \ {c} : wiring'[d] = wiring[d]
  BY DEF HarnessInv, HarnessTypeOK, Advance
<1>2. HarnessTypeOK'
  BY <1>1 DEF HarnessInv, HarnessTypeOK, Inv
<1>3. ASSUME NEW d \in Checkout \ {c} PROVE EntryOf(d)' /\ HooksOf(d)'
  BY <1>1 DEF HarnessInv, EntryOf, HooksOf
<1>4. QED
  BY <1>1, <1>2, <1>3 DEF HarnessInv

LEMMA BegunIsAPart ==
  ASSUME NEW kind \in {"claude", "agy"}, NEW pc \in {"probe", "load"}, NEW a \in Agent
  PROVE  Begun(kind, pc, a) \in HarnessPart
<1>1. NoHooks \in HookFile
  BY DEF NoHooks, HookFile, Owner
<1>2. QED
  BY <1>1 DEF Begun, HarnessPart, Maybe

\* What goes on here has a name.
LEMMA ContinueKeeps ==
  ASSUME HarnessInv, Inv', NEW c \in Checkout, Continue(c)
  PROVE  HarnessInv'
<1> DEFINE a == run[c].name
<1>1. a \in Agent
  <2>1. run[c] # None /\ run[c] \in Command /\ run[c].pc \in {"dump", "mark"}
    BY AtACommand DEF HarnessInv, Continue, DumpSettings, Mark
  <2>2. SettingUp(c) /\ run[c].pc \in Wiring
    BY <2>1 DEF HarnessInv, Inv, Looks, SettingUp, Harness, Wiring
  <2>3. run[c].name # None
    BY <2>2 DEF HarnessInv, Inv, Sure
  <2>4. QED
    BY <2>1, <2>3 DEF Command, Maybe
<1>2. PICK w \in {Begun("claude", "probe", a), Begun("agy", "load", a)} : Advance(c, w)
  BY DEF Continue
<1>3. w \in Maybe(HarnessPart)
  BY <1>1, BegunIsAPart DEF Maybe
<1>4. wiring'[c] = w => EntryOf(c)' /\ HooksOf(c)'
  BY DEF Begun, EntryOf, HooksOf
<1>5. mcp' = mcp /\ hooks' = hooks
  BY DEF Continue
<1>6. QED
  BY <1>2, <1>3, <1>4, <1>5, OwnPart DEF HarnessInv, HarnessTypeOK

LEMMA ProbeKeeps ==
  ASSUME HarnessInv, Inv', NEW c \in Checkout, Probe(c)
  PROVE  HarnessInv'
<1> DEFINE w == wiring[c]
           key == keyfile[w.agent]
<1>1. w # None /\ w \in HarnessPart /\ w.pc = "probe" /\ w.kind = "claude"
  BY WiresAPart DEF Probe, Wires, HarnessInv, HooksOf, HarnessPart
<1>2. key \in Maybe(Key)
  BY <1>1 DEF HarnessInv, Inv, TypeOK, HarnessPart
<1>3. PICK pc \in {"done", "remove", "add"}, failed \in BOOLEAN :
        /\ Advance(c, [w EXCEPT !.pc = pc, !.key = key, !.failed = failed])
        /\ (pc = "add" /\ ~failed) => mcp[c] = None
        /\ (pc = "done" /\ key # None) => failed
  BY DEF Probe
<1> DEFINE n == [w EXCEPT !.pc = pc, !.key = key, !.failed = failed]
<1>4. n \in HarnessPart /\ n.kind = "claude" /\ n.pc = pc /\ n.key = key /\ n.failed = failed
  BY <1>1, <1>2 DEF HarnessPart
<1>5. mcp' = mcp /\ hooks' = hooks
  BY DEF Probe
<1>6. ASSUME wiring'[c] = n PROVE EntryOf(c)' /\ HooksOf(c)'
  BY <1>3, <1>4, <1>5, <1>6 DEF EntryOf, HooksOf
<1>7. QED
  BY <1>3, <1>4, <1>5, <1>6, OwnPart DEF HarnessInv, HarnessTypeOK, Maybe

LEMMA RemoveKeeps ==
  ASSUME HarnessInv, Inv', NEW c \in Checkout, Remove(c)
  PROVE  HarnessInv'
<1> DEFINE w == wiring[c]
<1>1. w # None /\ w \in HarnessPart /\ w.pc = "remove" /\ w.kind = "claude"
  BY WiresAPart DEF Remove, Wires, HarnessInv, HooksOf, HarnessPart
<1>2. PICK ok \in BOOLEAN :
        /\ mcp' = IF ok THEN [mcp EXCEPT ![c] = None] ELSE mcp
        /\ Advance(c, [w EXCEPT !.pc = "add", !.failed = ~ok])
  BY DEF Remove
<1> DEFINE n == [w EXCEPT !.pc = "add", !.failed = ~ok]
<1>3. n \in HarnessPart /\ n.kind = "claude" /\ n.pc = "add" /\ n.failed = ~ok
  BY <1>1 DEF HarnessPart
<1>4. mcp' \in [Checkout -> Maybe(Key)] /\ (ok => mcp'[c] = None)
      /\ \A d \in Checkout \ {c} : mcp'[d] = mcp[d]
  BY <1>2 DEF HarnessInv, HarnessTypeOK, Maybe
<1>5. ASSUME wiring'[c] = n PROVE EntryOf(c)' /\ HooksOf(c)'
  BY <1>3, <1>4, <1>5 DEF EntryOf, HooksOf
<1>6. hooks' = hooks
  BY DEF Remove
<1>7. QED
  BY <1>2, <1>3, <1>4, <1>5, <1>6, OwnPart DEF Maybe

LEMMA AddKeeps ==
  ASSUME HarnessInv, Inv', NEW c \in Checkout, Add(c)
  PROVE  HarnessInv'
<1> DEFINE w == wiring[c]
<1>1. w # None /\ w \in HarnessPart /\ w.pc = "add" /\ w.kind = "claude"
  BY WiresAPart DEF Add, Wires, HarnessInv, HooksOf, HarnessPart
<1>2. PICK ok \in BOOLEAN :
        /\ mcp' = IF ok /\ mcp[c] = None THEN [mcp EXCEPT ![c] = w.key] ELSE mcp
        /\ Advance(c, [w EXCEPT !.pc = "done", !.failed = @ \/ ~ok])
  BY DEF Add
<1> DEFINE n == [w EXCEPT !.pc = "done", !.failed = @ \/ ~ok]
<1>3. /\ n \in HarnessPart /\ n.kind = "claude" /\ n.pc = "done" /\ n.key = w.key
      /\ n.failed = (w.failed \/ ~ok)
  BY <1>1 DEF HarnessPart
<1>4. /\ mcp' \in [Checkout -> Maybe(Key)]
      /\ \A d \in Checkout \ {c} : mcp'[d] = mcp[d]
      /\ (ok /\ mcp[c] = None) => mcp'[c] = w.key
  BY <1>1, <1>2 DEF HarnessInv, HarnessTypeOK, HarnessPart
<1>5. ~w.failed => mcp[c] = None
  BY <1>1 DEF HarnessInv, EntryOf
<1>6. ASSUME wiring'[c] = n PROVE EntryOf(c)' /\ HooksOf(c)'
  BY <1>3, <1>4, <1>5, <1>6 DEF EntryOf, HooksOf
<1>7. hooks' = hooks
  BY DEF Add
<1>8. QED
  BY <1>2, <1>3, <1>4, <1>6, <1>7, OwnPart DEF Maybe

LEMMA LoadHooksKeeps ==
  ASSUME HarnessInv, Inv', NEW c \in Checkout, LoadHooks(c)
  PROVE  HarnessInv'
<1> DEFINE w == wiring[c]
           n == [w EXCEPT !.pc = "write", !.seen = hooks, !.raced = FALSE]
<1>1. w # None /\ w \in HarnessPart /\ w.pc = "load" /\ w.kind = "agy"
  BY WiresAPart DEF LoadHooks, Wires, HarnessInv, EntryOf, HarnessPart
<1>2. hooks \in HookFile
  BY DEF HarnessInv, HarnessTypeOK
<1>3. n \in HarnessPart /\ n.kind = "agy" /\ n.pc = "write" /\ n.seen = hooks
  BY <1>1, <1>2 DEF HarnessPart
<1>4. mcp' = mcp /\ hooks' = hooks /\ Advance(c, n)
  BY DEF LoadHooks
<1>5. ASSUME wiring'[c] = n PROVE EntryOf(c)' /\ HooksOf(c)'
  BY <1>3, <1>4, <1>5 DEF EntryOf, HooksOf
<1>6. QED
  BY <1>3, <1>4, <1>5, OwnPart DEF HarnessInv, HarnessTypeOK, Maybe

LEMMA LeaveKeeps ==
  ASSUME HarnessInv, Inv', NEW c \in Checkout, Leave(c)
  PROVE  HarnessInv'
<1>1. mcp' = mcp /\ hooks' = hooks /\ Advance(c, None) /\ None \in Maybe(HarnessPart)
  BY DEF Leave, Maybe
<1>2. wiring'[c] = None => EntryOf(c)' /\ HooksOf(c)'
  BY DEF EntryOf, HooksOf
<1>3. QED
  BY <1>1, <1>2, OwnPart DEF HarnessInv, HarnessTypeOK

\* Those who learn of an edit are as they were but for that.
LEMMA RacedParts ==
  ASSUME NEW W \in [Checkout -> Maybe(HarnessPart)], NEW c, NEW R, R = Raced(W, c)
  PROVE  /\ R \in [Checkout -> Maybe(HarnessPart)]
         /\ \A d \in Checkout \ {c} :
              /\ R[d] = None <=> W[d] = None
              /\ W[d] # None => /\ R[d].raced
                                /\ R[d].kind = W[d].kind /\ R[d].pc = W[d].pc
                                /\ R[d].key = W[d].key /\ R[d].failed = W[d].failed
<1>1. ASSUME NEW d \in Checkout, W[d] # None
      PROVE  LET r == [W[d] EXCEPT !.raced = TRUE] IN
             /\ r \in HarnessPart /\ r # None /\ r.raced
             /\ r.kind = W[d].kind /\ r.pc = W[d].pc
             /\ r.key = W[d].key /\ r.failed = W[d].failed
  <2>1. W[d] \in HarnessPart
    BY <1>1 DEF Maybe
  <2>2. [W[d] EXCEPT !.raced = TRUE] \in HarnessPart
    BY <2>1 DEF HarnessPart
  <2>3. QED
    BY <2>1, <2>2, HarnessAssumption DEF HarnessPart
<1>2. QED
  BY <1>1 DEF Raced, Maybe

\* Whoever was not told of an edit sees the merge of what was there.
LEMMA WriteHooksKeeps ==
  ASSUME HarnessInv, Inv', NEW c \in Checkout, WriteHooks(c)
  PROVE  HarnessInv'
<1> DEFINE w == wiring[c]
           n == [w EXCEPT !.pc = "done"]
           W == [wiring EXCEPT ![c] = n]
<1>1. w # None /\ w \in HarnessPart /\ w.pc = "write" /\ w.kind = "agy"
  BY WiresAPart DEF WriteHooks, Wires, HarnessInv, EntryOf, HarnessPart
<1>2. /\ hooks' = IF Ensure(w.seen) # w.seen THEN Ensure(w.seen) ELSE hooks
      /\ wiring' = IF w.raced THEN Raced(W, c) ELSE W
      /\ mcp' = mcp
  BY DEF WriteHooks
<1>3. /\ n \in HarnessPart /\ n.kind = "agy" /\ n.pc = "done"
      /\ n.seen = w.seen /\ n.raced = w.raced
  BY <1>1 DEF HarnessPart
<1>4. /\ W \in [Checkout -> Maybe(HarnessPart)] /\ W[c] = n
      /\ \A d \in Checkout \ {c} : W[d] = wiring[d]
  BY <1>3 DEF HarnessInv, HarnessTypeOK, Maybe
<1>5. hooks \in HookFile /\ w.seen \in HookFile
  BY <1>1 DEF HarnessInv, HarnessTypeOK, HarnessPart
<1>6. hooks' \in HookFile
  BY <1>2, <1>5, EnsureTwice
<1>7. ~w.raced => hooks' = Ensure(hooks) /\ hooks' = Ensure(w.seen)
  <2>1. ~w.raced => hooks \in {w.seen, Ensure(w.seen)}
    BY <1>1 DEF HarnessInv, HooksOf
  <2>2. QED
    BY <1>2, <1>5, <2>1, EnsureTwice
<1>8. /\ wiring' \in [Checkout -> Maybe(HarnessPart)] /\ wiring'[c] = n
      /\ \A d \in Checkout \ {c} :
           /\ wiring'[d] = None <=> wiring[d] = None
           /\ wiring[d] # None =>
                /\ wiring'[d].kind = wiring[d].kind /\ wiring'[d].pc = wiring[d].pc
                /\ wiring'[d].key = wiring[d].key /\ wiring'[d].failed = wiring[d].failed
                /\ wiring'[d].raced \/ (~w.raced /\ wiring'[d] = wiring[d])
  <2>1. CASE w.raced
    <3>1. wiring' = Raced(W, c)
      BY <1>2, <2>1
    <3>2. /\ wiring' \in [Checkout -> Maybe(HarnessPart)] /\ wiring'[c] = W[c]
          /\ \A d \in Checkout \ {c} :
               /\ wiring'[d] = None <=> W[d] = None
               /\ W[d] # None => /\ wiring'[d].kind = W[d].kind /\ wiring'[d].pc = W[d].pc
                                 /\ wiring'[d].key = W[d].key /\ wiring'[d].failed = W[d].failed
          /\ \A d \in Checkout \ {c} : W[d] # None => wiring'[d].raced
      <4> HIDE DEF W
      <4>1. \A d \in Checkout \ {c} : W[d] # None => wiring'[d].raced
        BY <1>4, <3>1, RacedParts
      <4>2. wiring' \in [Checkout -> Maybe(HarnessPart)]
        BY <1>4, <3>1, RacedParts
      <4>3. wiring'[c] = W[c]
        BY <3>1 DEF Raced
      <4>4. \A d \in Checkout \ {c} :
              /\ wiring'[d] = None <=> W[d] = None
              /\ W[d] # None => /\ wiring'[d].kind = W[d].kind /\ wiring'[d].pc = W[d].pc
                                /\ wiring'[d].key = W[d].key /\ wiring'[d].failed = W[d].failed
        BY <1>4, <3>1, RacedParts
      <4>5. QED
        BY <4>1, <4>2, <4>3, <4>4
    <3>3. QED
      BY <1>4, <3>2
  <2>2. CASE ~w.raced
    BY <1>2, <1>4, <2>2
  <2>3. QED
    BY <2>1, <2>2
<1>9. HarnessTypeOK'
  BY <1>2, <1>6, <1>8 DEF HarnessInv, HarnessTypeOK, Inv
<1>10. EntryOf(c)' /\ HooksOf(c)'
  BY <1>3, <1>7, <1>8 DEF EntryOf, HooksOf
<1>11. ASSUME NEW d \in Checkout \ {c} PROVE EntryOf(d)' /\ HooksOf(d)'
  <2>1. EntryOf(d) /\ HooksOf(d)
    BY DEF HarnessInv
  <2>2. EntryOf(d)'
    BY <1>2, <1>8, <2>1 DEF EntryOf
  <2>3. HooksOf(d)'
    <3>1. CASE wiring[d] = None \/ wiring'[d].raced
      BY <1>8, <2>1, <3>1 DEF HooksOf
    <3>2. CASE wiring[d] # None /\ ~wiring'[d].raced
      <4>1. wiring'[d] = wiring[d] /\ hooks' = Ensure(hooks)
        BY <1>7, <1>8, <3>2
      <4>2. wiring[d].seen \in HookFile
        BY <3>2, WiresAPart DEF HarnessPart
      <4>3. QED
        BY <2>1, <4>1, <4>2, EnsureTwice DEF HooksOf
    <3>3. QED
      BY <3>1, <3>2
  <2>4. QED
    BY <2>2, <2>3
<1>12. QED
  BY <1>9, <1>10, <1>11 DEF HarnessInv

LEMMA EditHooksKeeps ==
  ASSUME HarnessInv, Inv', EditHooks
  PROVE  HarnessInv'
<1>1. /\ hooks' = [hooks EXCEPT !["theirs"] = IF @ = None THEN "foreign" ELSE None]
      /\ wiring' = Raced(wiring, None) /\ mcp' = mcp
  BY DEF EditHooks
<1>2. hooks' \in HookFile
  BY <1>1 DEF HarnessInv, HarnessTypeOK, HookFile, Owner
<1>3. wiring \in [Checkout -> Maybe(HarnessPart)] /\ None \notin Checkout
  BY OnboardAssumption DEF HarnessInv, HarnessTypeOK
<1>4. /\ wiring' \in [Checkout -> Maybe(HarnessPart)]
      /\ \A d \in Checkout :
           /\ wiring'[d] = None <=> wiring[d] = None
           /\ wiring[d] # None =>
                /\ wiring'[d].kind = wiring[d].kind /\ wiring'[d].pc = wiring[d].pc
                /\ wiring'[d].key = wiring[d].key /\ wiring'[d].failed = wiring[d].failed
      /\ \A d \in Checkout : wiring[d] # None => wiring'[d].raced
  <2>1. \A d \in Checkout : wiring[d] # None => wiring'[d].raced
    BY <1>1, <1>3, RacedParts
  <2>2. QED
    BY <1>1, <1>3, <2>1, RacedParts
<1>5. HarnessTypeOK'
  BY <1>1, <1>2, <1>4 DEF HarnessInv, HarnessTypeOK, Inv
<1>6. ASSUME NEW d \in Checkout PROVE EntryOf(d)' /\ HooksOf(d)'
  BY <1>1, <1>4 DEF HarnessInv, EntryOf, HooksOf
<1>7. QED
  BY <1>5, <1>6 DEF HarnessInv

LEMMA UntouchedParts ==
  ASSUME HarnessInv, Inv', UNCHANGED <<mcp, hooks, wiring>>
  PROVE  HarnessInv'
BY DEF HarnessInv, HarnessTypeOK, Inv, EntryOf, HooksOf

LEMMA HarnessNextKeeps == HarnessInv /\ [HarnessNext]_harnessVars => HarnessInv'
<1> SUFFICES ASSUME HarnessInv, [HarnessNext]_harnessVars PROVE HarnessInv'
  OBVIOUS
<1>1. Inv'
  BY HarnessKeeps DEF HarnessInv
<1>2. CASE Onboarding \/ UNCHANGED harnessVars
  BY <1>1, <1>2, UntouchedParts DEF Onboarding, harnessVars
<1>3. ASSUME NEW c \in Checkout, HarnessStep(c) PROVE HarnessInv'
  BY <1>1, <1>3, ContinueKeeps, ProbeKeeps, RemoveKeeps, AddKeeps, LoadHooksKeeps,
    WriteHooksKeeps, LeaveKeeps DEF HarnessStep
<1>4. CASE EditHooks
  BY <1>1, <1>4, EditHooksKeeps
<1>5. QED
  BY <1>2, <1>3, <1>4 DEF HarnessNext

\* What a harness's part of setup relies on, step by step.
THEOREM HarnessInvariant == HarnessSpec => []HarnessInv
BY InitHarness, HarnessNextKeeps, PTL DEF HarnessSpec

\* A command goes on to its harness with a name and a key file it can read, and
\* no merge puts anything into hooks.json but hooks.
THEOREM HarnessTypeCorrect == HarnessSpec => []HarnessTypeOK
<1>1. HarnessInv => HarnessTypeOK
  BY DEF HarnessInv
<1>2. QED
  BY <1>1, HarnessInvariant, PTL

\* Setup converges: what it leaves for Claude and for agy is what it is to
\* leave, from whatever it finds and beside another checkout's setup, as long
\* as no call to Claude failed and nobody edited the file meanwhile.
THEOREM SetupLeavesWhatItShould == HarnessSpec => []SetupConverges
<1>1. ASSUME HarnessInv PROVE SetupConverges
  <2> SUFFICES ASSUME NEW c \in Checkout, Wires(c, "done")
               PROVE  LET w == wiring[c] IN
                      /\ (w.kind = "claude" /\ w.key # None /\ ~w.failed) => mcp[c] = w.key
                      /\ (w.kind = "agy" /\ ~w.raced) =>
                           /\ {n \in Name : IsOurs(hooks[n])} = OurHooks
                           /\ \A n \in OurHooks : hooks[n] = "ours"
                           /\ \A n \in Name \ OurHooks :
                                w.seen[n] = "foreign" => hooks[n] = "foreign"
    BY DEF SetupConverges
  <2> DEFINE w == wiring[c]
  <2>1. w # None /\ w.pc = "done" /\ EntryOf(c) /\ HooksOf(c)
    BY <1>1 DEF Wires, HarnessInv
  <2>2. (w.kind = "claude" /\ w.key # None /\ ~w.failed) => mcp[c] = w.key
    BY <2>1 DEF EntryOf
  <2>3. (w.kind = "agy" /\ ~w.raced) => hooks = Ensure(w.seen)
    BY <2>1 DEF HooksOf
  <2>4. ASSUME hooks = Ensure(w.seen)
        PROVE  /\ {n \in Name : IsOurs(hooks[n])} = OurHooks
               /\ \A n \in OurHooks : hooks[n] = "ours"
               /\ \A n \in Name \ OurHooks : w.seen[n] = "foreign" => hooks[n] = "foreign"
    <3>1. \A n \in Name :
            hooks[n] = IF n \in OurHooks THEN "ours"
                       ELSE IF IsOurs(w.seen[n]) THEN None ELSE w.seen[n]
      BY <2>4 DEF Ensure
    <3>2. \A n \in OurHooks : n \in Name /\ hooks[n] = "ours"
      BY <3>1 DEF Name
    <3>3. \A n \in Name \ OurHooks : ~IsOurs(hooks[n])
      BY <3>1, HarnessAssumption DEF IsOurs
    <3>4. {n \in Name : IsOurs(hooks[n])} = OurHooks
      BY <3>2, <3>3 DEF IsOurs
    <3>5. QED
      BY <3>1, <3>2, <3>4 DEF IsOurs
  <2>5. QED
    BY <2>2, <2>3, <2>4
<1>2. QED
  BY <1>1, HarnessInvariant, PTL
=============================================================================
