--------------------------- MODULE MCArtifactCache ---------------------------
(* Small instances of ArtifactCache for TLC: artifacts of one provider,   *)
(* without a revision; b2 and b3 were issued at times with the same low    *)
(* bits and share an executable.  An image r1 and a bindle s1.             *)
EXTENDS ArtifactCache, TLC

CONSTANTS f1, f2, r1, s1, b1, b2, b3, p1, p2

TwoPaths == (r1 :> p1) @@ (s1 :> p2)
PushedBlobs == (r1 :> {b1, b2}) @@ (s1 :> {b2, b3})
OneSubject == [b \in Blobs |-> "VPROVIDER"]
Revisions == [b \in Blobs |-> 0]
Issued == (b1 :> 1) @@ (b2 :> 4) @@ (b3 :> 12)

Interchangeable == Permutations(Fetchers)
=============================================================================
