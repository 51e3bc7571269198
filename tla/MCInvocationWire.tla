--------------------------- MODULE MCInvocationWire ---------------------------
(* One call between two processes that may have each their own bucket.     *)
EXTENDS InvocationWire, TLC

CONSTANTS p1, p2, k1, k2

Entity(k, c, l) == [key |-> k, contract |-> c, link |-> l]
Actor  == Entity("Mxx", "", "")
Spelt1 == Entity("Vxx", "a:b", "default")
Spelt2 == Entity("Vxx", "a/b", "Default")
Other  == Entity("Vxx", "a:b", "other")
Spellings == {Actor, Entity("Mxx", "a:b", ""), Spelt1, Spelt2, Other}
Lower == "" :> "" @@ "a:b" :> "a/b" @@ "a/b" :> "a/b" @@ "default" :> "default"
         @@ "Default" :> "default" @@ "other" :> "other"
OwnKey == p1 :> k1 @@ p2 :> k2
(* The hosts of p1 trust both clusters, those of p2 only their own.        *)
Trusted == p1 :> {k1, k2} @@ p2 :> {k2}
=============================================================================
