---------------------------- MODULE MCSealedMail ----------------------------
(* Instance for TLC of SealedMail (one agent on two machines) and of       *)
(* Signing (two agents on one machine).  They share neither files nor      *)
(* actions, so each behaviour is one of the first or one of the second.    *)
EXTENDS SealedMail, Signing, TLC

CONSTANTS a, s1, s2, t1, t2, p1, p2

VARIABLE part

MCAgentOf == s1 :> a @@ s2 :> a
MCMaxKeys == s1 :> 2 @@ s2 :> 1
Interchangeable == Permutations({p1, p2})

KeyInit ==
  /\ SealingInit /\ SigningInit
  /\ part \in {"sealing", "signing"}
  /\ part = "sealing" => encrypted

KeyNext ==
  \/ part = "sealing" /\ SealingNext /\ UNCHANGED <<signVars, part>>
  \/ part = "signing" /\ SigningNext /\ UNCHANGED <<sealVars, part>>

KeySpec == KeyInit /\ [][KeyNext]_<<sealVars, signVars, part>>
=============================================================================
