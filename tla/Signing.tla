------------------------------ MODULE Signing ------------------------------
(***************************************************************************)
(* Signatures: an agent's signing key (sealing.py, cli/_keys.py), what the *)
(* client signs on its three ways to send (client/base.py and the async    *)
(* client; the sync one signs at the same places), and what a reader makes *)
(* of it (client/sync_verify.py, _signing.py, cli/_verify.py).             *)
(*                                                                         *)
(* A signature covers what the sender believes the server will store: the  *)
(* body, sealed if the workspace is encrypted, and the addressing, which   *)
(* the server derives for a reply and keeps for a draft.  So the sender    *)
(* asks first.  The server may refuse the question, and its answer may be  *)
(* another when the message arrives.                                       *)
(***************************************************************************)
EXTENDS Naturals, FiniteSets

CONSTANTS
  Signer,      \* the agents of a machine
  Client,      \* processes
  Absent,      \* no file; no key
  MaxLetters,  \* bound: messages, stored or on their way
  MaxWithdrawn, \* bound: revoked keys
  MaxEdits     \* bound: changes of what the server derives

ASSUME SigningAssumption ==
  /\ Absent \notin Client /\ (Client \cup {Absent}) \cap [file : Signer, by : Client] = {}
  /\ {MaxLetters, MaxWithdrawn, MaxEdits} \subseteq Nat

VARIABLES
  encrypted,  \* whether the workspace is
  secret,     \* per signer: Absent, the client that created the file and has
              \* written nothing into it, or a key
  offered,    \* what the server was given: names and keys
  withdrawn,  \* those of them it offers no more
  edition,    \* how often what the server derives has changed
  letters,    \* the messages it stored
  task        \* per client: what it is doing

signVars == <<encrypted, secret, offered, withdrawn, edition, letters, task>>

\* Where a signer's key is kept.
MachineFile(s) == CHOOSE t \in Signer : TRUE  \* a slip: one for the machine
FileOf(s) == s

\* A key is made by one client, for one file.
SigningKey == [file : Signer, by : Client]

\* Whom a message is for: as its writer typed it, as the server derives it, or
\* (in a reply that was not asked about) nobody.
To(how, n) == [how |-> how, edition |-> n]
Typed == To("typed", 0)
Derived == To("derived", edition)
Nobody == To("nobody", 0)

\* canonical_bytes: what is signed, and what a reader rebuilds.
Statement(to, body) == [to |-> to, body |-> body]
Unsigned == Statement(Nobody, "text")

NoTask == [kind |-> "none", pc |-> "idle", signer |-> Absent, to |-> Nobody,
           body |-> "text", calm |-> TRUE, key |-> Absent, over |-> Unsigned,
           known |-> FALSE]

Sits(c, pc) == task[c].pc = pc
Does(c, t) == task' = [task EXCEPT ![c] = t]
Moves(c, pc) == Does(c, [task[c] EXCEPT !.pc = pc])
Ends(c) == Does(c, NoTask)

SigningInit ==
  /\ encrypted \in BOOLEAN
  /\ secret = [s \in Signer |-> Absent]
  /\ offered = {} /\ withdrawn = {}
  /\ edition = 0
  /\ letters = {}
  /\ task = [c \in Client |-> NoTask]

-----------------------------------------------------------------------------
(* keys sign: make the key, once, and publish it.                          *)

KeysSign(c, s) ==
  /\ Sits(c, "idle")
  /\ Does(c, [NoTask EXCEPT !.kind = "keys", !.pc = "find", !.signer = s])
  /\ UNCHANGED <<encrypted, secret, offered, withdrawn, edition, letters>>

\* ensure_signing_keypair. A file without content has a writer, for whom the
\* client waits (no step) and gives up.
FindKey(c) ==
  LET found == secret[FileOf(task[c].signer)] IN
  /\ Sits(c, "find")
  /\ CASE found = Absent -> Moves(c, "make")
       [] found \in SigningKey -> Does(c, [task[c] EXCEPT !.pc = "vouch", !.key = found])
       [] OTHER -> Ends(c)
  /\ UNCHANGED <<encrypted, secret, offered, withdrawn, edition, letters>>

MakeKey(c) ==
  LET f == FileOf(task[c].signer) IN
  /\ Sits(c, "make")
  /\ IF secret[f] = Absent
     THEN secret' = [secret EXCEPT ![f] = c] /\ Moves(c, "write")
     ELSE UNCHANGED secret /\ Moves(c, "find")
  /\ UNCHANGED <<encrypted, offered, withdrawn, edition, letters>>

WriteKey(c) ==
  LET f == FileOf(task[c].signer)
      key == [file |-> f, by |-> c] IN
  /\ Sits(c, "write")
  /\ secret' = [secret EXCEPT ![f] = key]
  /\ Does(c, [task[c] EXCEPT !.pc = "vouch", !.key = key])
  /\ UNCHANGED <<encrypted, offered, withdrawn, edition, letters>>

\* The key reaches the server, whatever the client is told, or it does not.
Vouch(c) ==
  /\ Sits(c, "vouch")
  /\ \/ offered' = offered \cup {<<task[c].signer, task[c].key>>}
     \/ UNCHANGED offered
  /\ Ends(c)
  /\ UNCHANGED <<encrypted, secret, withdrawn, edition, letters>>

\* keys revoke, for good.
Withdraw(o) ==
  /\ o \in offered \ withdrawn /\ Cardinality(withdrawn) < MaxWithdrawn
  /\ withdrawn' = withdrawn \cup {o}
  /\ UNCHANGED <<encrypted, secret, offered, edition, letters, task>>

-----------------------------------------------------------------------------
(* Sending.                                                                *)

Kinds == {"send", "reply", "draft"}
Writes(c, s, kind, to) ==
  /\ Sits(c, "idle")
  /\ Cardinality(letters) + Cardinality({d \in Client : task[d].kind \in Kinds}) < MaxLetters
  /\ Does(c, [NoTask EXCEPT !.kind = kind, !.pc = "ask", !.signer = s, !.to = to])
  /\ UNCHANGED <<encrypted, secret, offered, withdrawn, edition, letters>>

SendLetter(c, s) == Writes(c, s, "send", Typed)
ReplyLetter(c, s) == Writes(c, s, "reply", Nobody)

\* A draft's recipients are read when its sending starts.
SendStored(c, s) == Writes(c, s, "draft", Derived)

\* Ask whom the message reaches, and seal it to them if the workspace is
\* encrypted. A server that refuses the question costs nobody the send; one
\* that fails does, as does a recipient without a key and a reply to oneself.
\* A draft that was not sealed is sent by its number alone.
Ask(c) ==
  LET t == task[c]
      answered == [t EXCEPT !.pc = IF t.kind = "draft" /\ ~encrypted THEN "post" ELSE "sign",
                            !.to = IF t.kind = "reply" THEN Derived ELSE t.to,
                            !.body = IF encrypted THEN "sealed" ELSE "text"]
      refused == [t EXCEPT !.pc = IF t.kind = "draft" THEN "post" ELSE "sign"]
  IN /\ Sits(c, "ask")
     /\ Does(c, answered) \/ Does(c, refused) \/ Ends(c)
     /\ UNCHANGED <<encrypted, secret, offered, withdrawn, edition, letters>>

\* load_signing_key: a file without content is no key.
KeyAt(s) == IF secret[FileOf(s)] \in SigningKey THEN secret[FileOf(s)] ELSE Absent

Known(s) == \E c \in Client : <<s, [file |-> FileOf(s), by |-> c]>> \in offered

\* A message with attachments or other parts that a signature would not cover
\* is not signed; a stored draft is sent without them.
Signed(t, body) ==
  LET plain == [t EXCEPT !.pc = "post"]
      signed == [plain EXCEPT !.key = KeyAt(t.signer), !.over = Statement(t.to, body),
                              !.known = Known(t.signer)]
  IN (IF KeyAt(t.signer) = Absent THEN {} ELSE {signed})
       \cup (IF signed.key # Absent /\ t.kind = "draft" THEN {} ELSE {plain})

\* _sign_if_possible: what is sealed by now is signed.
SignPlain(c) ==  \* a slip: as it was written
  /\ Sits(c, "sign")
  /\ \E t \in Signed(task[c], "text") : Does(c, t)
  /\ UNCHANGED <<encrypted, secret, offered, withdrawn, edition, letters>>
Sign(c) ==
  /\ Sits(c, "sign")
  /\ \E t \in Signed(task[c], task[c].body) : Does(c, t)
  /\ UNCHANGED <<encrypted, secret, offered, withdrawn, edition, letters>>

\* The server stores it, addressed as it derives that now, or the call fails.
\* It takes no unsealed body in an encrypted workspace.
Deliver(c) ==
  LET t == task[c] IN
  /\ Sits(c, "post")
  /\ \/ /\ encrypted => t.body = "sealed"
        /\ letters' = letters \cup
             {[from |-> t.signer, key |-> t.key, over |-> t.over, calm |-> t.calm,
               stored |-> Statement(IF t.kind = "send" THEN t.to ELSE Derived, t.body),
               known |-> t.known]}
     \/ UNCHANGED letters
  /\ Ends(c)
  /\ UNCHANGED <<encrypted, secret, offered, withdrawn, edition>>

\* A draft is edited; a room that a reply reaches is renamed or removed.
Edit ==
  /\ edition < MaxEdits
  /\ edition' = edition + 1
  /\ task' = [c \in Client |-> IF task[c].to.how = "derived"
                               THEN [task[c] EXCEPT !.calm = FALSE] ELSE task[c]]
  /\ UNCHANGED <<encrypted, secret, offered, withdrawn, letters>>

Perish(c) ==
  /\ ~Sits(c, "idle")
  /\ Ends(c)
  /\ UNCHANGED <<encrypted, secret, offered, withdrawn, edition, letters>>

-----------------------------------------------------------------------------
(* Reading.                                                                *)

\* verify: with the sender's keys that are offered now, and the hash of the
\* stored body if the server sends one.
Verdict(m, hashed) ==
  IF m.key = Absent THEN "unsigned"
  ELSE IF <<m.from, m.key>> \notin offered \ withdrawn \/ ~hashed THEN "unverifiable"
  ELSE IF m.over = m.stored THEN "valid" ELSE "invalid"

\* "I could not check" is not "this is forged".
ExitCode(verdict) ==
  IF verdict \in {"unverifiable", "unsigned"} THEN 2 ELSE IF verdict = "valid" THEN 0 ELSE 1

-----------------------------------------------------------------------------
SignStep(c) ==
  \/ FindKey(c) \/ MakeKey(c) \/ WriteKey(c) \/ Vouch(c)
  \/ Ask(c) \/ Sign(c) \/ Deliver(c) \/ Perish(c)

SigningNext ==
  \/ \E c \in Client :
       \/ SignStep(c)
       \/ \E s \in Signer : KeysSign(c, s) \/ SendLetter(c, s) \/ ReplyLetter(c, s) \/ SendStored(c, s)
  \/ \E o \in offered : Withdraw(o)
  \/ Edit

SigningSpec == SigningInit /\ [][SigningNext]_signVars

\* A signature never speaks against an honest sender, nor for another. What the
\* client sent reads as a mismatch only if the addressing changed between its
\* question and the post, or it was a reply and the question was refused; of a
\* signer whose key had been published by then it is never uncheckable, unless
\* that key was revoked; and no other agent holds the key it is signed with.
SignaturesTellTheTruth ==
  \A m \in letters :
    /\ \A hashed \in BOOLEAN :
         ExitCode(Verdict(m, hashed)) = 1 => ~m.calm \/ m.over.to = Nobody
    /\ (m.known /\ Verdict(m, TRUE) = "unverifiable") => <<m.from, m.key>> \in withdrawn
    /\ m.key # Absent => \A s \in Signer : s # m.from => KeyAt(s) # m.key
=============================================================================
