----------------------- MODULE ReplicatedRegister_proofs -----------------------
(***************************************************************************)
(* What follows from ReplicatedRegister for whoever reads from it, and so  *)
(* for every key of the lattice's metadata (MetadataCache!RegistersKept),  *)
(* for any set of hosts and of values.                                     *)
(***************************************************************************)
EXTENDS ReplicatedRegister, TLAPS

(* While the promise is on, hosts that are gone show nothing and take part *)
(* in nothing.                                                             *)
Shape ==
  /\ value \in Values \cup {None} /\ shown \in [Hosts -> Values \cup {None}]
  /\ members \subseteq Hosts /\ \A h \in Hosts \ members : shown[h] = None
  /\ changing \subseteq members /\ hearing \subseteq members

Inv == promised => Shape /\ Agreement

LEMMA InitInv == Init => Inv
BY DEF Init, Inv, Shape, Agreement

LEMMA StepInv ==
  ASSUME Inv, [Next]_vars
  PROVE  Inv'
<1> SUFFICES ASSUME promised' PROVE Shape' /\ Agreement'
  BY DEF Inv
<1>1. CASE Restore
  BY <1>1 DEF Restore, Shape, Agreement
<1>2. CASE UNCHANGED vars
  BY <1>2 DEF vars, Inv, Shape, Agreement
<1>3. CASE Promised
  <2>1. promised /\ Shape /\ Agreement
    BY <1>3 DEF Promised, Inv
  <2>2. CASE Remove
    BY <2>1, <2>2 DEF Remove, AtRest, Shape, Agreement
  <2>3. ASSUME NEW h \in Hosts, Propose(h) PROVE Shape' /\ Agreement'
    BY <2>1, <2>3 DEF Propose, AtRest, Shape, Agreement
  <2>4. ASSUME NEW h \in Hosts, Commit(h) PROVE Shape' /\ Agreement'
    BY <2>1, <2>4 DEF Commit, Shape, Agreement
  <2>5. ASSUME NEW h \in Hosts, Hear(h) PROVE Shape' /\ Agreement'
    BY <2>1, <2>5 DEF Hear, Shape, Agreement
  <2>6. ASSUME NEW h \in Hosts, Leave(h) PROVE Shape' /\ Agreement'
    BY <2>1, <2>6 DEF Leave, Shape, Agreement
  <2>7. ASSUME NEW h \in Hosts, Join(h) PROVE Shape' /\ Agreement'
    BY <2>1, <2>7 DEF Join, Shape, Agreement
  <2> QED BY <1>3, <2>2, <2>3, <2>4, <2>5, <2>6, <2>7 DEF Promised
<1> QED BY <1>1, <1>2, <1>3 DEF Next, Accident

(* The invariant holds for ever: what a host that joins shows, and who is  *)
(* to hear of the value, are as they should be (Shape), and hosts agree.   *)
THEOREM Invariance == Safety => []Inv
BY InitInv, StepInv, PTL DEF Safety

(* While the promise is on, whoever is not about to change the value, or   *)
(* to hear of it, shows it: what CachesAgree says of keys at rest, for     *)
(* every host by itself while the others are still on the way.             *)
THEOREM HostsAgree == Safety => []Agreement
<1>1. Inv => Agreement
  BY DEF Inv, Agreement
<1> QED BY <1>1, Invariance, PTL

(* While the promise is on, no host shows an old value again after a new   *)
(* one: what it shows changes to the value, or it is the host that is      *)
(* changing it, or it leaves (cache_link_definition, cache_claims,         *)
(* MetadataCacheLoader).                                                   *)
THEOREM NobodyGoesBack == Safety => NeverBack
<1> DEFINE Forward == promised /\ promised' =>
      \A h \in Hosts : shown'[h] # shown[h] =>
        h \in changing' \/ h \notin members' \/ (shown'[h] = value /\ value' = value)
<1>1. ASSUME Inv, [Next]_vars, promised, promised', NEW h \in Hosts, shown'[h] # shown[h]
      PROVE  h \in changing' \/ h \notin members' \/ (shown'[h] = value /\ value' = value)
  <2>1. Shape
    BY <1>1 DEF Inv
  <2>2. Promised
    BY <1>1 DEF Next, Accident, Restore, vars
  <2>3. \E g \in Hosts : Propose(g) \/ Hear(g) \/ Leave(g)
    BY <1>1, <2>2 DEF Promised, Remove, Commit, Join
  <2>4. PICK g \in Hosts : Propose(g) \/ Hear(g) \/ Leave(g)
    BY <2>3
  <2>5. h = g
    BY <1>1, <2>1, <2>4 DEF Propose, Hear, Leave, Shape
  <2> QED BY <2>1, <2>4, <2>5 DEF Propose, Hear, Leave, Shape
<1>2. Inv /\ [Next]_vars => Forward
  BY <1>1
<1> QED BY <1>2, Invariance, PTL DEF Safety, NeverBack
=============================================================================
