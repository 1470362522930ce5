----------------------------- MODULE SealedMail -----------------------------
(***************************************************************************)
(* Sealing keys and what is sealed to them (sealing.py, cli/_keys.py, the  *)
(* sealing half of client/base.py, sync_messaging.py, memory.py and of the *)
(* drafts in sync_misc.py, and the sealing step of signin and setup).      *)
(*                                                                         *)
(* A seat is an agent on a machine.  It has a key file, and beside it one  *)
(* file per key a rotation retired, named by the key's fingerprint.  The   *)
(* processes of a seat (a send, a setup, a rotation, a notebook edit) share*)
(* these files without a lock; only the creation of the key file is        *)
(* exclusive.  The server keeps the keys each seat published and bodies    *)
(* sealed to keys, and holds no private key.  The workspace is encrypted.  *)
(***************************************************************************)
EXTENDS Naturals, Sequences, FiniteSets

CONSTANTS
  Agent, Seat,
  AgentOf,    \* the agent of a seat
  Process,
  Rotated,    \* bound: the seats whose key is rotated
  None,       \* no file; no key
  Blank,      \* a retired file that is open and has no content yet
  Other,      \* the name of a key of another agent
  MaxKeys,    \* bound: keys a seat makes
  MaxMail,    \* bound: different sets of keys that mail is sealed to
  MaxNotes    \* bound: notebook entries and drafts

\* A key is named by the seat that made it and a number.
Key == UNION {{<<s, n>> : n \in 1..MaxKeys[s]} : s \in Seat}
Home(k) == k[1]

ASSUME SealedMailAssumption ==
  /\ AgentOf \in [Seat -> Agent] /\ Rotated \subseteq Seat
  /\ MaxKeys \in [Seat -> Nat]
  /\ {None, Blank, Other} \cap (Process \cup Key) = {}
  /\ Process \cap Key = {} /\ None # Blank /\ Blank # Other /\ Other # None
  /\ {MaxMail, MaxNotes} \subseteq Nat

VARIABLES
  file,       \* per seat: None, a key, or the process that created the file
              \* and has written nothing into it
  retired,    \* per seat and name: None, Blank or a key
  made,       \* per seat: how many keys it made
  published,  \* keys the server was given
  revoked,    \* those it offers no more
  mail,       \* the sets of keys that messages are sealed to
  notes,      \* entry n of the notebook, or draft n: the key it is sealed to
  job,        \* per process: what it is doing
  muddled     \* ghost: seats where two rotations overlapped, where one ran
              \* under another agent's name, or died while it copied

files == <<file, retired, made>>
server == <<published, revoked, mail, notes>>
sealVars == <<files, server, job, muddled>>

-----------------------------------------------------------------------------
(* Files.                                                                  *)

\* What a rotation calls the copy of the key with this fingerprint.
OneName(m) == Other  \* a slip: one name for every retired key
RetiredName(m) == m

\* load_private_key: a file without content is no key.
CurrentKey(s) == IF file[s] \in Key THEN file[s] ELSE None

\* load_private_keys: the current key and every retired one.
Held(s) == ({file[s]} \cup {retired[s][m] : m \in Key \cup {Other}}) \cap Key

\* _open_with_each: every key is tried.
Opens(s, k) == k \in Held(s)

\* unseal_message: a body is sealed to a set of keys.
Readable(s, keys) == \E k \in keys : Opens(s, k)

Job(op, s, pc, mine, key, keys, todo) ==
  [op |-> op, seat |-> s, pc |-> pc, mine |-> mine, key |-> key, keys |-> keys,
   todo |-> todo]
Publishing(s) == Job("publish", s, "look", None, None, {}, {})
NoJob == Job("none", None, "idle", None, None, {}, {})

At(p, pc) == job[p].pc = pc
Start(p, j) == At(p, "idle") /\ job' = [job EXCEPT ![p] = j]
Goto(p, pc) == job' = [job EXCEPT ![p].pc = pc]
Stop(p) == job' = [job EXCEPT ![p] = NoJob]

SealingInit ==
  /\ file = [s \in Seat |-> None]
  /\ retired = [s \in Seat |-> [m \in Key \cup {Other} |-> None]]
  /\ made = [s \in Seat |-> 0]
  /\ published = {} /\ revoked = {}
  /\ mail = {} /\ notes = <<>>
  /\ job = [p \in Process |-> NoJob]
  /\ muddled = {}

-----------------------------------------------------------------------------
(* ensure_keypair: read the key, or make it.                               *)

\* What a process does with the key it has.
AfterKey(op) == CASE op \in {"send", "note"} -> "post"
                  [] op = "reseal" -> "put"
                  [] OTHER -> "publish"
Keyed(p, k) ==
  job' = [job EXCEPT ![p].key = k, ![p].pc = AfterKey(job[p].op)]

\* A file without content has a writer: the process waits (no step), and after
\* two hundred looks gives up.
Look(p) ==
  /\ At(p, "look")
  /\ LET f == file[job[p].seat] IN
       CASE f \in Key -> Keyed(p, f)
         [] f = None -> Goto(p, "create")
         [] OTHER -> Stop(p)
  /\ UNCHANGED <<files, server, muddled>>

CreateOver(p) ==  \* a slip: the file is opened whether it exists or not
  LET s == job[p].seat IN
  /\ At(p, "create")
  /\ made[s] < MaxKeys[s]
  /\ file' = [file EXCEPT ![s] = p]
  /\ made' = [made EXCEPT ![s] = @ + 1]
  /\ job' = [job EXCEPT ![p].key = <<s, made[s] + 1>>, ![p].pc = "fill"]
  /\ UNCHANGED <<retired, server, muddled>>

\* create_secret_exclusive: O_EXCL, then the content.
Create(p) ==
  LET s == job[p].seat IN
  /\ At(p, "create")
  /\ \/ /\ file[s] = None /\ made[s] < MaxKeys[s]
        /\ file' = [file EXCEPT ![s] = p]
        /\ made' = [made EXCEPT ![s] = @ + 1]
        /\ job' = [job EXCEPT ![p].key = <<s, made[s] + 1>>, ![p].pc = "fill"]
     \/ /\ file[s] # None
        /\ Goto(p, "look")
        /\ UNCHANGED <<file, made>>
  /\ UNCHANGED <<retired, server, muddled>>

\* A file that was unlinked since is written all the same, and is gone.
Fill(p) ==
  LET s == job[p].seat IN
  /\ At(p, "fill")
  /\ file' = [file EXCEPT ![s] = IF @ = p THEN job[p].key ELSE @]
  /\ Goto(p, "harden")
  /\ UNCHANGED <<retired, made, server, muddled>>

\* _harden changes the mode by name: it fails when nothing has that name.
Harden(p) ==
  /\ At(p, "harden")
  /\ IF file[job[p].seat] = None THEN Stop(p) ELSE Keyed(p, job[p].key)
  /\ UNCHANGED <<files, server, muddled>>

-----------------------------------------------------------------------------
(* Publishing: signin and setup, and keys rotate.                          *)

\* (Setup posts up to three times; posting the same key again changes nothing.)
Setup(p, s) ==
  /\ Start(p, Publishing(s))
  /\ UNCHANGED <<files, server, muddled>>

\* The key reaches the server, whatever the caller is told, or it does not.
Publish(p) ==
  /\ At(p, "publish")
  /\ \/ published' = published \cup {job[p].key}
     \/ UNCHANGED published
  /\ Stop(p)
  /\ UNCHANGED <<files, revoked, mail, notes, muddled>>

Retiring(p, s) == job[p].seat = s /\ job[p].pc \in {"retire", "copy", "unlink"}

\* cmd_keys works out "this machine's fingerprint" for the agent that the
\* environment names: this one, none, or another.
Fingerprint(s) == {CurrentKey(s), None, Other}

\* Without a fingerprint nothing is retired, and the key there is is published
\* again.  With one, the operator has to confirm.
Rotate(p, s) ==
  /\ s \in Rotated
  /\ \E mine \in Fingerprint(s) :
       /\ Start(p, IF mine = None THEN Publishing(s)
                   ELSE Job("rotate", s, "retire", mine, None, {}, {}))
       /\ muddled' = IF mine = Other \/ (mine # None /\ \E q \in Process : Retiring(q, s))
                     THEN muddled \cup {s} ELSE muddled
  /\ UNCHANGED <<files, server>>

SetRetired(p, v) ==
  retired' = [retired EXCEPT ![job[p].seat][RetiredName(job[p].mine)] = v]

\* A name that is taken is believed to hold the same key.  Otherwise the key
\* file is read, and the retired file opened, which leaves it empty.
Retire(p) ==
  LET s == job[p].seat
      taken == retired[s][RetiredName(job[p].mine)] # None IN
  /\ At(p, "retire")
  /\ \/ /\ taken
        /\ Goto(p, "unlink") /\ UNCHANGED retired
     \/ /\ ~taken /\ file[s] = None
        /\ Stop(p) /\ UNCHANGED retired
     \/ /\ ~taken /\ file[s] # None
        /\ job' = [job EXCEPT ![p].key = IF file[s] \in Key THEN file[s] ELSE Blank,
                              ![p].pc = "copy"]
        /\ SetRetired(p, Blank)
  /\ UNCHANGED <<file, made, server, muddled>>

Copy(p) ==
  /\ At(p, "copy")
  /\ SetRetired(p, job[p].key)
  /\ Goto(p, "unlink")
  /\ UNCHANGED <<file, made, server, muddled>>

Unlink(p) ==
  LET s == job[p].seat IN
  /\ At(p, "unlink")
  /\ IF file[s] = None
     THEN Stop(p) /\ UNCHANGED file
     ELSE /\ file' = [file EXCEPT ![s] = None]
          /\ job' = [job EXCEPT ![p] = Publishing(s)]
  /\ UNCHANGED <<retired, made, server, muddled>>

\* keys revoke: the server stops offering a key, for good.
Revoke(k) ==
  /\ k \in published \ revoked
  /\ revoked' = revoked \cup {k}
  /\ UNCHANGED <<files, published, mail, notes, job, muddled>>

-----------------------------------------------------------------------------
(* Sealing: messages, drafts and the notebook.                             *)

Offered(a) == {k \in published \ revoked : AgentOf[Home(k)] = a}

\* _seal_if_needed, _apply_seal: every key of every recipient, as the server
\* resolves them; a recipient without one is a refusal.  Then the sender's own,
\* which may be made here.  Attachments are sealed like the body.
SealTo(p, s, to) ==
  /\ Cardinality(mail) < MaxMail
  /\ \A a \in to : Offered(a) # {}
  /\ Start(p, Job("send", s, "look", None, None, UNION {Offered(a) : a \in to}, {}))
  /\ UNCHANGED <<files, server, muddled>>

Recipients == (SUBSET Agent) \ {{}}
Send(p, s) == \E to \in Recipients : SealTo(p, s, to)

\* The server says whom a reply reaches (the message it answers need not be a
\* sealed one).  One that reaches its writer alone is
\* refused, unless that is what was asked for.
SelfReply(s, to) == to = {AgentOf[s]}
Reply(p, s) ==
  \E to \in Recipients, toSelf \in BOOLEAN :
    /\ SelfReply(s, to) => toSelf
    /\ SealTo(p, s, to)

\* forward reads a message, opens it if it can, and sends what it has then to
\* others: what it cannot open goes on as it is, sealed once more.
Forward(p, s) == Send(p, s)

\* send_draft: what was stored is opened first, then it is a send.
SendDraft(p, s, n) ==
  /\ n \in DOMAIN notes /\ Readable(s, {notes[n]})
  /\ Send(p, s)

\* _seal_to_self: to the author's own key alone.
SealToSelf(p, s) ==
  /\ Len(notes) < MaxNotes
  /\ Start(p, Job("note", s, "look", None, None, {}, {}))
  /\ UNCHANGED <<files, server, muddled>>

\* memory_add; and create_draft, whose recipients may change before it is sent.
Note(p, s) == SealToSelf(p, s)
Draft(p, s) == SealToSelf(p, s)

\* The server takes it, or the call fails.
Post(p) ==
  LET j == job[p] IN
  /\ At(p, "post")
  /\ \/ /\ j.op = "send"
        /\ Cardinality(mail) < MaxMail
        /\ mail' = mail \cup {j.keys \cup {j.key}}
        /\ UNCHANGED notes
     \/ /\ j.op = "note" /\ Len(notes) < MaxNotes
        /\ notes' = Append(notes, j.key)
        /\ UNCHANGED mail
     \/ UNCHANGED <<mail, notes>>
  /\ Stop(p)
  /\ UNCHANGED <<files, published, revoked, muddled>>

\* memory_reseal: the entries that open here are sealed again, in place, to the
\* key that is current by then.
WholeNotebook(s) == DOMAIN notes  \* a slip: every sealed entry
ResealPlan(s) == {n \in DOMAIN notes : Opens(s, notes[n])}

Reseal(p, s) ==
  /\ ResealPlan(s) # {}
  /\ Start(p, Job("reseal", s, "look", None, None, {}, ResealPlan(s)))
  /\ UNCHANGED <<files, server, muddled>>

Put(p) ==
  /\ At(p, "put")
  /\ \E n \in job[p].todo :
       /\ \A i \in job[p].todo : n <= i
       /\ \/ /\ notes' = [notes EXCEPT ![n] = job[p].key]
             /\ IF job[p].todo = {n} THEN Stop(p)
                ELSE job' = [job EXCEPT ![p].todo = @ \ {n}]
          \/ UNCHANGED notes /\ Stop(p)
  /\ UNCHANGED <<files, published, revoked, mail, muddled>>

-----------------------------------------------------------------------------
\* A process is killed, or the disk is full: what it has written stays.
Die(p) ==
  /\ ~At(p, "idle")
  /\ muddled' = IF At(p, "copy") THEN muddled \cup {job[p].seat} ELSE muddled
  /\ Stop(p)
  /\ UNCHANGED <<files, server>>

Work(p) ==
  \/ Look(p) \/ Create(p) \/ Fill(p) \/ Harden(p) \/ Publish(p)
  \/ Retire(p) \/ Copy(p) \/ Unlink(p)
  \/ Post(p) \/ Put(p)

Command(p, s) ==
  \/ Setup(p, s) \/ Rotate(p, s) \/ Note(p, s) \/ Draft(p, s) \/ Reseal(p, s)
  \/ Send(p, s) \/ Reply(p, s) \/ Forward(p, s)
  \/ \E n \in DOMAIN notes : SendDraft(p, s, n)

SealingNext ==
  \/ \E p \in Process : Work(p) \/ Die(p)
  \/ /\ muddled = {}   \* bound: after such a rotation nothing new is started
     /\ \E p \in Process, s \in Seat : Command(p, s)
  \/ \E k \in published : Revoke(k)

SealingSpec == SealingInit /\ [][SealingNext]_sealVars

-----------------------------------------------------------------------------
(* Properties.                                                             *)

\* The keys that somebody may seal to, or a process is about to.
InHand == {job[p].key : p \in {q \in Process : job[q].pc \in {"publish", "post", "put"}}}

\* A seat still has the private half of every key of its own that was
\* published, that a process is about to publish or to seal to, or that anything
\* stored is sealed to: of all who ask for the key first, one makes it and the
\* others wait for it, and a rotation keeps what it replaces, whoever asks for
\* a key meanwhile and wherever it stops. So what was sealed stays readable
\* there after any rotations, revocations, failures and deaths. The exceptions
\* are the rotations in muddled.
KeysInUseAreHeld ==
  \A k \in published \cup InHand \cup (UNION mail) \cup {notes[n] : n \in DOMAIN notes} :
    Home(k) \notin muddled => Opens(Home(k), k)

\* No reseal hands an entry to a machine that could not read it: a notebook
\* entry stays with the seat that wrote it.
NotesKeepTheirReader ==
  [][\A n \in DOMAIN notes : Home(notes'[n]) = Home(notes[n])]_sealVars
=============================================================================
