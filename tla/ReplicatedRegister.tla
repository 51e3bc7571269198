-------------------------- MODULE ReplicatedRegister --------------------------
(***************************************************************************)
(* What the lattice promises of one piece of metadata, whichever requests, *)
(* messages and hosts carry it: there is one value, and every host shows   *)
(* it or the one before.  A change is shown first by the host that makes   *)
(* it; once it is made, every other host goes from the old value to the    *)
(* new one, and never back; a host that joins shows nothing until it has   *)
(* heard of the value.                                                     *)
(*                                                                         *)
(* The promise is off after an accident (requests that overlap, a write or *)
(* a message that is lost), when a register may show anything.  The next   *)
(* change that every host is to hear of restores it.                       *)
(***************************************************************************)
CONSTANTS Hosts, Values, None

VARIABLES
  promised,  \* whether the promise is on
  value,     \* the value
  members,   \* the hosts there are
  shown,     \* shown[h]: what host h shows
  changing,  \* the host that shows a value which is not the value yet
  hearing    \* hosts that are still to hear of the value

vars == <<promised, value, members, shown, changing, hearing>>

Init ==
  /\ promised = TRUE /\ value = None
  /\ members = Hosts /\ shown = [h \in Hosts |-> None]
  /\ changing = {} /\ hearing = {}

AtRest == changing = {} /\ hearing = {}

(* A host shows a new value, and makes it the value.                       *)
Propose(h) ==
  /\ AtRest /\ h \in members
  /\ \E v \in Values \cup {None} : shown' = [shown EXCEPT ![h] = v]
  /\ changing' = {h}
  /\ UNCHANGED <<value, members, hearing>>

Commit(h) ==
  /\ changing = {h}
  /\ value' = shown[h]
  /\ changing' = {} /\ hearing' = members
  /\ UNCHANGED <<members, shown>>

(* Somebody removes the value from outside.                                *)
Remove ==
  /\ AtRest
  /\ value' = None /\ hearing' = members
  /\ UNCHANGED <<members, shown, changing>>

Hear(h) ==
  /\ h \in hearing
  /\ shown' = [shown EXCEPT ![h] = value]
  /\ hearing' = hearing \ {h}
  /\ UNCHANGED <<value, members, changing>>

(* A change that its host did not live to make is none.                    *)
Leave(h) ==
  /\ h \in members
  /\ members' = members \ {h}
  /\ shown' = [shown EXCEPT ![h] = None]
  /\ changing' = changing \ {h} /\ hearing' = hearing \ {h}
  /\ UNCHANGED value

Join(h) ==
  /\ h \in Hosts \ members /\ changing = {}
  /\ members' = members \cup {h}
  /\ hearing' = hearing \cup {h} \/ (value = None /\ UNCHANGED hearing)
  /\ UNCHANGED <<value, shown, changing>>

Promised ==
  /\ promised /\ promised'
  /\ \/ Remove
     \/ \E h \in Hosts : Propose(h) \/ Commit(h) \/ Hear(h) \/ Leave(h) \/ Join(h)

Accident == ~promised'

Restore ==
  /\ ~promised /\ promised'
  /\ value' \in Values \cup {None} /\ shown' \in [Hosts -> Values \cup {None}]
  /\ members' \subseteq Hosts /\ \A h \in Hosts \ members' : shown'[h] = None
  /\ changing' = {} /\ hearing' = members'

Next == Promised \/ Accident \/ Restore

Safety == Init /\ [][Next]_vars

-----------------------------------------------------------------------------

(* While the promise is on, every host but those that change the value or  *)
(* are to hear of it shows it.                                             *)
Agreement ==
  promised => \A h \in members \ (changing \cup hearing) : shown[h] = value

(* While the promise is on, a host goes only to the value, or shows one    *)
(* that it makes the value or dies.                                        *)
NeverBack ==
  [][promised /\ promised' =>
       \A h \in Hosts : shown'[h] # shown[h] =>
         h \in changing' \/ h \notin members' \/ (shown'[h] = value /\ value' = value)]_vars
=============================================================================
