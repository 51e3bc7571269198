------------------------- MODULE ArtifactCache_proofs -------------------------
(***************************************************************************)
(* Proofs about ArtifactCache, for any number of fetchers, references and  *)
(* artifacts.                                                              *)
(*                                                                         *)
(* The cached image and its digest agree because whoever writes them first *)
(* puts the digest that is there in doubt, and removes the doubt only if   *)
(* it was alone until both were written (Vouched, Doubted, Undone, Alone). *)
(* An executable holds an artifact of its own path or something that is    *)
(* being written, or whose writing was interrupted (OfItsPath, Unfinished).*)
(***************************************************************************)
EXTENDS ArtifactCache, TLAPS

IsWriting(f) == pc[f] \in Writing

(* A digest that is not in doubt is that of the cached image, when nobody  *)
(* writes either.                                                          *)
Vouched ==
  \A p \in Paths :
    /\ digest[p] # "none" /\ digest[p] \notin doubtful[p]
    /\ \A f \in Fetchers : IsWriting(f) => Path(f) # p
    => cached[p] = digest[p]

(* While somebody writes, the digest is in doubt.                          *)
Doubted ==
  \A f \in Fetchers : IsWriting(f) /\ digest[Path(f)] # "none" =>
    digest[Path(f)] \in doubtful[Path(f)]

(* A disturbed writer leaves every digest in doubt.                        *)
Undone == \A f \in Fetchers : IsWriting(f) /\ ~quiet[f] => doubtful[Path(f)] = Blobs

(* An undisturbed fetch has the two files for itself.                      *)
Alone ==
  \A f \in Fetchers : quiet[f] /\ pc[f] \in Writing \cup {"open", "read"} =>
    \A g \in Fetchers : g # f /\ IsWriting(g) => Path(g) # Path(f)

Whole ==
  \A f \in Fetchers : quiet[f] =>
    /\ pc[f] = "write" => f \notin mixed
    /\ pc[f] \in {"erase", "sum", "open", "read"} => cached[Path(f)] = got[f]

(* What a fetch has in hand was the reference's at some time of it.        *)
InHand ==
  \A f \in Fetchers :
    /\ pc[f] \in Steps => tag[ref[f]] \in seen[f]
    /\ pc[f] \in Writing \cup {"compare", "parcel"} => got[f] \in Blobs /\ got[f] \in seen[f]
    /\ pc[f] \in {"open", "read"} /\ quiet[f] => got[f] \in seen[f]

FetchInv == Vouched /\ Doubted /\ Undone /\ Alone /\ Whole /\ InHand /\ UndisturbedFetch

(* An executable holds an artifact of its own path, ...                    *)
OfItsPath == \A x \in ExePaths : exe[x] \in Blobs => ExePath(exe[x]) = x

(* ... or it is being written, or its writing was interrupted.             *)
Unfinished ==
  \A x \in ExePaths : exe[x] \in {"empty", "torn"} => x \in spoiled \/ ExeWriters(x) # {}

Present == \A f \in Fetchers : pc[f] = "start" => exe[ExePath(got[f])] # "none"

ExeInv == OfItsPath /\ Unfinished /\ Present

-----------------------------------------------------------------------------

LEMMA FollowingValues ==
  /\ Order[1] = "create" /\ Following("create") = "write" /\ Following("write") = "erase"
  /\ Following("erase") = "sum" /\ Following("sum") = "open"
<1>1. Len(Order) = 4 /\ Order[1] = "create" /\ Order[2] = "write" /\ Order[3] = "erase"
      /\ Order[4] = "sum"
  BY DEF Order
<1>2. \A s \in Writing : \E j \in 1..4 : Order[j] = s
  BY <1>1 DEF Writing
<1>3. (CHOOSE j \in 1..4 : Order[j] = "create") = 1
  BY <1>1
<1>4. (CHOOSE j \in 1..4 : Order[j] = "write") = 2
  BY <1>1
<1>5. (CHOOSE j \in 1..4 : Order[j] = "erase") = 3
  BY <1>1
<1>6. QED
  BY <1>1, <1>3, <1>4, <1>5 DEF Following

(* The file of an artifact is one of the files.                            *)
LEMMA ExePathType == \A b \in Blobs : ExePath(b) \in ExePaths
  BY DEF ExePaths

(* Types are preserved by every step of a fetch: what a fetcher holds, ... *)
LEMMA HeldStep ==
  ASSUME TypeOK, NEW f \in Fetchers, Step(f)
  PROVE  \A g \in Fetchers : pc'[g] \in Holding => got'[g] \in Blobs
<1>. SUFFICES ASSUME NEW g \in Fetchers, pc'[g] \in Holding PROVE got'[g] \in Blobs
  OBVIOUS
<1>t. /\ pc \in [Fetchers -> Steps \cup Ended] /\ got \in [Fetchers -> Content]
      /\ pc[g] \in Holding => got[g] \in Blobs
      /\ tag[ref[f]] \in Blobs
  BY DEF TypeOK, Types
<1>h. Holding = {"create", "write", "erase", "sum", "compare", "parcel", "exestat", "execreate",
                 "exewrite", "start"}
  BY DEF Holding, Writing
<1>b. Bindles \subseteq {"actor bindle", "provider bindle"}
  BY DEF Bindles
<1>. USE <1>t DEF Goto, Gets
<1>1. ASSUME NEW k \in Kinds, NEW r \in Refs, Request(f, k, r) PROVE got'[g] \in Blobs
  BY <1>1, <1>h DEF Request
<1>2. CASE Stat(f)
  BY <1>2, <1>h DEF Stat
<1>3. CASE Manifest(f)
  BY <1>3, <1>h DEF Manifest
<1>4. CASE Compare(f)
  BY <1>4, <1>h DEF Compare
<1>5. CASE Pull(f)
  BY <1>5, <1>h, FollowingValues DEF Pull
<1>6. CASE Create(f)
  BY <1>6, <1>h, FollowingValues DEF Create
<1>7. CASE Write(f)
  BY <1>7, <1>h, FollowingValues DEF Write
<1>8. CASE EraseDigest(f)
  BY <1>8, <1>h, FollowingValues DEF EraseDigest
<1>9. CASE WriteDigest(f)
  BY <1>9, <1>h, FollowingValues DEF WriteDigest
<1>10. CASE Open(f)
  BY <1>10, <1>h DEF Open
<1>11. CASE Read(f)
  BY <1>11, <1>h DEF Read
<1>12. CASE Load(f)
  BY <1>12, <1>h DEF Load
<1>13. CASE Invoice(f)
  BY <1>13, <1>h DEF Invoice
<1>14. CASE Parcel(f)
  BY <1>14, <1>h DEF Parcel
<1>15. CASE ExeStat(f)
  BY <1>15, <1>h DEF ExeStat
<1>16. CASE ExeCreate(f)
  BY <1>16, <1>h DEF ExeCreate
<1>17. CASE ExeWrite(f)
  BY <1>17, <1>h DEF ExeWrite
<1>18. CASE Start(f)
  BY <1>18, <1>h DEF Start
<1>19. CASE Fail(f)
  BY <1>19, <1>h DEF Fail
<1>20. QED
  BY <1>1, <1>2, <1>3, <1>4, <1>5, <1>6, <1>7, <1>8, <1>9, <1>10, <1>11, <1>12, <1>13, <1>14,
     <1>15, <1>16, <1>17, <1>18, <1>19 DEF Step

(* ... and the rest.                                                       *)
LEMMA StepKeepsTypes ==
  ASSUME TypeOK, NEW f \in Fetchers, Step(f)
  PROVE  Types'
<1>p. /\ "done" \in Steps \cup Ended /\ "failed" \in Steps \cup Ended
      /\ "started" \in Steps \cup Ended /\ "start" \in Steps \cup Ended
      /\ "stat" \in Steps \cup Ended /\ "manifest" \in Steps \cup Ended
      /\ "compare" \in Steps \cup Ended /\ "pull" \in Steps \cup Ended
      /\ "create" \in Steps \cup Ended /\ "write" \in Steps \cup Ended
      /\ "erase" \in Steps \cup Ended /\ "sum" \in Steps \cup Ended
      /\ "open" \in Steps \cup Ended /\ "read" \in Steps \cup Ended
      /\ "load" \in Steps \cup Ended /\ "invoice" \in Steps \cup Ended
      /\ "parcel" \in Steps \cup Ended /\ "exestat" \in Steps \cup Ended
      /\ "execreate" \in Steps \cup Ended /\ "exewrite" \in Steps \cup Ended
  BY DEF Steps, Ended, Writing
<1>c. Blobs \subseteq Content /\ "none" \in Content /\ "empty" \in Content /\ "torn" \in Content
  BY DEF Content
<1>b. Path(f) \in Paths /\ tag[ref[f]] \in Blobs
  BY ArtifactsAssumption DEF TypeOK, Types, Path
<1>h. /\ pc[f] \in Holding => got[f] \in Blobs
      /\ "sum" \in Holding /\ "parcel" \in Holding /\ "write" \in Holding
      /\ "execreate" \in Holding /\ "exewrite" \in Holding /\ "start" \in Holding
  BY DEF TypeOK, Holding, Writing
<1>y. Types
  BY DEF TypeOK
<1>. USE <1>p, <1>c, <1>b, <1>y DEF Types, Goto, Gets, files, hist
<1>1. ASSUME NEW k \in Kinds, NEW r \in Refs, Request(f, k, r) PROVE Types'
  BY <1>1 DEF Request
<1>2. CASE Stat(f)
  BY <1>2 DEF Stat
<1>3. CASE Manifest(f)
  BY <1>3 DEF Manifest
<1>4. CASE Compare(f)
  BY <1>4 DEF Compare
<1>5. CASE Pull(f)
  BY <1>5, FollowingValues DEF Pull, Rivals
<1>6. CASE Create(f)
  BY <1>6, FollowingValues DEF Create, Rivals
<1>7. CASE Write(f)
  BY <1>7, <1>h, FollowingValues DEF Write, Settle, Rivals
<1>8. CASE EraseDigest(f)
  BY <1>8, FollowingValues DEF EraseDigest
<1>9. CASE WriteDigest(f)
  BY <1>9, <1>h, FollowingValues DEF WriteDigest, Settle
<1>10. CASE Open(f)
  BY <1>10 DEF Open
<1>11. CASE Read(f)
  BY <1>11 DEF Read
<1>12. CASE Load(f)
  BY <1>12 DEF Load
<1>13. CASE Invoice(f)
  BY <1>13 DEF Invoice
<1>14. CASE Parcel(f)
  BY <1>14, <1>h DEF Parcel
<1>15. CASE ExeStat(f)
  BY <1>15 DEF ExeStat
<1>16. CASE ExeCreate(f)
  BY <1>16, <1>h, ExePathType DEF ExeCreate
<1>17. CASE ExeWrite(f)
  <2>1. got[f] \in Blobs /\ ExePath(got[f]) \in ExePaths
    BY <1>17, <1>h, ExePathType DEF ExeWrite
  <2>2. spoiled' \subseteq ExePaths
    BY <1>17, <2>1 DEF ExeWrite
  <2>4. \/ exe' = exe \/ \E c \in {got[f], "torn"} : exe' = [exe EXCEPT ![ExePath(got[f])] = c]
    BY <1>17 DEF ExeWrite
  <2>5. exe' \in [ExePaths -> Content]
    BY <2>1, <2>4
  <2>3. QED
    BY <1>17, <2>2, <2>5 DEF ExeWrite
<1>18. CASE Start(f)
  BY <1>18, <1>h, ExePathType DEF Start
<1>19. CASE Fail(f)
  BY <1>19, <1>h, ExePathType DEF Fail
<1>20. QED
  BY <1>1, <1>2, <1>3, <1>4, <1>5, <1>6, <1>7, <1>8, <1>9, <1>10, <1>11, <1>12, <1>13, <1>14,
     <1>15, <1>16, <1>17, <1>18, <1>19 DEF Step

(* The tags, the files and the fetches keep their types.                   *)
THEOREM TypeCorrect == Spec => []TypeOK
<1>1. Init => TypeOK
  <2>1. SUFFICES ASSUME Init PROVE Types /\ \A f \in Fetchers : pc[f] \notin Holding
    BY DEF TypeOK
  <2>2. "idle" \in Steps \cup Ended /\ "idle" \notin Holding /\ "none" \in Content
    BY DEF Ended, Holding, Writing, Content
  <2>3. Refs # {} => (CHOOSE r \in Refs : TRUE) \in Refs
    OBVIOUS
  <2>4. QED
    BY <2>1, <2>2, <2>3, ArtifactsAssumption DEF Init, Types, Kinds
<1>2. TypeOK /\ [Next]_vars => TypeOK'
  <2>1. SUFFICES ASSUME TypeOK, [Next]_vars PROVE TypeOK'
    OBVIOUS
  <2>2. CASE \E f \in Fetchers : Step(f)
    BY <2>1, <2>2, HeldStep, StepKeepsTypes DEF TypeOK
  <2>3. CASE \E r \in Refs : MoveTag(r)
    <3>1. PICK r \in Refs : MoveTag(r)
      BY <2>3
    <3>2. PICK b \in Pushed[r] : tag' = [tag EXCEPT ![r] = b]
                               /\ seen' = [f \in Fetchers |-> IF ref[f] = r /\ pc[f] \in Steps
                                                               THEN seen[f] \cup {b} ELSE seen[f]]
      BY <3>1 DEF MoveTag
    <3>3. b \in Blobs
      BY <3>2, ArtifactsAssumption
    <3>4. moves' \in Nat
      BY <2>1, <3>1 DEF TypeOK, Types, MoveTag
    <3>5. tag' \in [Refs -> Blobs] /\ seen' \in [Fetchers -> SUBSET Blobs]
      BY <2>1, <3>2, <3>3 DEF TypeOK, Types
    <3>6. QED
      BY <2>1, <3>1, <3>4, <3>5 DEF TypeOK, Types, MoveTag, files
  <2>4. CASE UNCHANGED vars
    BY <2>1, <2>4 DEF TypeOK, Types, vars, files, hist
  <2>5. QED
    BY <2>1, <2>2, <2>3, <2>4 DEF Next, Idle
<1>3. QED
  BY <1>1, <1>2, PTL DEF Spec

-----------------------------------------------------------------------------
(* Executables *)

(* A step that leaves the executables alone, of a fetcher that does not    *)
(* write one.                                                              *)
LEMMA ExeQuiet ==
  ASSUME TypeOK, ExeInv, NEW f \in Fetchers, UNCHANGED <<exe, spoiled>>,
         pc' \in [Fetchers -> Steps \cup Ended],
         pc[f] # "exewrite", pc'[f] # "exewrite",
         pc'[f] = "start" => exe[ExePath(got'[f])] # "none",
         \A g \in Fetchers \ {f} : pc'[g] = pc[g] /\ got'[g] = got[g]
  PROVE  ExeInv'
<1>1. \A x : ExeWriters(x) \subseteq ExeWriters(x)'
  BY DEF ExeWriters, ExePath
<1>2. OfItsPath'
  BY DEF ExeInv, OfItsPath, ExePath
<1>3. Unfinished'
  BY <1>1 DEF ExeInv, Unfinished
<1>4. Present'
  BY DEF ExeInv, Present, ExePath
<1>5. QED
  BY <1>2, <1>3, <1>4 DEF ExeInv

(* An executable that somebody writes is unfinished until the last writer  *)
(* has done, and marked when a writer fails.                               *)
LEMMA ExeStep ==
  ASSUME TypeOK, TypeOK', ExeInv, NEW f \in Fetchers, Step(f)
  PROVE  ExeInv'
<1>t. /\ pc \in [Fetchers -> Steps \cup Ended] /\ got \in [Fetchers -> Content]
      /\ pc' \in [Fetchers -> Steps \cup Ended] /\ exe \in [ExePaths -> Content]
      /\ Ended \cap {"exewrite"} = {} /\ spoiled \subseteq ExePaths
  BY DEF TypeOK, Types, Ended
<1>h. pc[f] \in {"exestat", "execreate", "exewrite", "start"} =>
        got[f] \in Blobs /\ ExePath(got[f]) \in ExePaths
  BY ExePathType DEF TypeOK, Holding
<1>b. {"none", "empty", "torn"} \cap Blobs = {}
  BY ArtifactsAssumption
<1>. USE <1>t DEF Goto, Gets, files, hist
<1>1. ASSUME NEW k \in Kinds, NEW r \in Refs, Request(f, k, r) PROVE ExeInv'
  BY <1>1, ExeQuiet DEF Request
<1>2. CASE Stat(f)
  BY <1>2, ExeQuiet DEF Stat
<1>3. CASE Manifest(f)
  BY <1>3, ExeQuiet DEF Manifest
<1>4. CASE Compare(f)
  BY <1>4, ExeQuiet DEF Compare
<1>5. CASE Pull(f)
  BY <1>5, ExeQuiet, FollowingValues DEF Pull
<1>6. CASE Create(f)
  BY <1>6, ExeQuiet, FollowingValues DEF Create
<1>7. CASE Write(f)
  BY <1>7, ExeQuiet, FollowingValues DEF Write
<1>8. CASE EraseDigest(f)
  BY <1>8, ExeQuiet, FollowingValues DEF EraseDigest
<1>9. CASE WriteDigest(f)
  BY <1>9, ExeQuiet, FollowingValues DEF WriteDigest
<1>10. CASE Open(f)
  BY <1>10, ExeQuiet DEF Open
<1>11. CASE Read(f)
  BY <1>11, ExeQuiet DEF Read
<1>12. CASE Load(f)
  BY <1>12, ExeQuiet DEF Load
<1>13. CASE Invoice(f)
  BY <1>13, ExeQuiet DEF Invoice
<1>14. CASE Parcel(f)
  BY <1>14, ExeQuiet DEF Parcel
<1>15. CASE ExeStat(f)
  BY <1>15, ExeQuiet DEF ExeStat
<1>16. CASE ExeCreate(f)
  <2>. DEFINE x == ExePath(got[f])
  <2>1. /\ exe' = [exe EXCEPT ![x] = "empty"] /\ pc' = [pc EXCEPT ![f] = "exewrite"]
        /\ got' = got /\ spoiled' = spoiled /\ x \in ExePaths /\ pc[f] = "execreate"
    BY <1>16, <1>h DEF ExeCreate
  <2>2. \A y : ExeWriters(y)' = IF y = x THEN ExeWriters(y) \cup {f} ELSE ExeWriters(y)
    BY <2>1 DEF ExeWriters, ExePath
  <2>. HIDE DEF x
  <2>3. OfItsPath' /\ Unfinished'
    BY <2>1, <2>2, <1>b DEF ExeInv, OfItsPath, Unfinished, ExePath
  <2>4. Present'
    BY <2>1 DEF ExeInv, Present, ExePath
  <2>5. QED
    BY <2>3, <2>4 DEF ExeInv
<1>17. CASE ExeWrite(f)
  <2>. DEFINE x == ExePath(got[f])
  <2>0. pc[f] = "exewrite" /\ got' = got /\ x \in ExePaths /\ got[f] \in Blobs
    BY <1>17, <1>h DEF ExeWrite
  <2>1. \A y : ExeWriters(y) \ {f} \subseteq ExeWriters(y)'
    BY <2>0, <1>17 DEF ExeWriters, ExePath, ExeWrite
  <2>2. \A y : y # x => f \notin ExeWriters(y)
    BY DEF ExeWriters
  <2>3. CASE pc'[f] = "start" /\ spoiled' = spoiled
             /\ \E c \in {got[f]} \cup (IF ExeWriters(x) \ {f} = {} THEN {} ELSE {"torn"}) :
                  exe' = [exe EXCEPT ![x] = c]
    <3>1. PICK c \in {got[f], "torn"} : /\ exe' = [exe EXCEPT ![x] = c]
                                        /\ c = "torn" => ExeWriters(x) \ {f} # {}
      BY <2>3, <2>0, <1>b
    <3>2. OfItsPath'
      BY <3>1, <2>0, <1>b DEF ExeInv, OfItsPath, ExePath
    <3>3. Unfinished'
      BY <3>1, <2>0, <2>1, <2>2, <2>3, <1>b DEF ExeInv, Unfinished
    <3>4. Present'
      BY <3>1, <2>0, <2>3, <1>b, <1>17 DEF ExeInv, Present, ExePath, ExeWrite
    <3>5. QED
      BY <3>2, <3>3, <3>4 DEF ExeInv
  <2>4. CASE pc'[f] = "failed" /\ spoiled' = spoiled \cup {x} /\ exe' = exe
    <3>1. OfItsPath' /\ Unfinished'
      BY <2>0, <2>1, <2>2, <2>4 DEF ExeInv, OfItsPath, Unfinished, ExePath
    <3>2. Present'
      BY <2>0, <2>4, <1>17 DEF ExeInv, Present, ExePath, ExeWrite
    <3>3. QED
      BY <3>1, <3>2 DEF ExeInv
  <2>5. QED
    BY <1>17, <2>3, <2>4 DEF ExeWrite
<1>18. CASE Start(f)
  BY <1>18, ExeQuiet DEF Start
<1>19. CASE Fail(f)
  <2>1. CASE pc[f] = "exewrite"
    <3>. DEFINE x == ExePath(got[f])
    <3>0. x \in ExePaths /\ pc' = [pc EXCEPT ![f] = "failed"] /\ spoiled' = spoiled \cup {x}
          /\ \A g \in Fetchers \ {f} : got'[g] = got[g]
      BY <1>19, <2>1, <1>h DEF Fail
    <3>1. PICK c \in {"empty", "torn"} : exe' = [exe EXCEPT ![x] = c]
      BY <1>19, <2>1 DEF Fail
    <3>2. \A y : ExeWriters(y) \ {f} \subseteq ExeWriters(y)'
      BY <3>0 DEF ExeWriters, ExePath
    <3>3. \A y : y # x => f \notin ExeWriters(y)
      BY DEF ExeWriters
    <3>4. OfItsPath'
      BY <3>0, <3>1, <1>b DEF ExeInv, OfItsPath, ExePath
    <3>5. Unfinished'
      BY <3>0, <3>1, <3>2, <3>3 DEF ExeInv, Unfinished
    <3>6. Present'
      BY <3>0, <3>1 DEF ExeInv, Present, ExePath
    <3>7. QED
      BY <3>4, <3>5, <3>6 DEF ExeInv
  <2>2. CASE pc[f] # "exewrite"
    BY <1>19, <2>2, ExeQuiet DEF Fail
  <2>3. QED
    BY <2>1, <2>2
<1>20. QED
  BY <1>1, <1>2, <1>3, <1>4, <1>5, <1>6, <1>7, <1>8, <1>9, <1>10, <1>11, <1>12, <1>13, <1>14,
     <1>15, <1>16, <1>17, <1>18, <1>19 DEF Step

(* Archives that share an executable are of one provider and version.     *)
LEMMA OnePathOneVersion ==
  ASSUME NEW b \in Blobs, NEW c \in Blobs, ExePath(b) = ExePath(c)
  PROVE  SameVersion(b, c)
<1>1. Subject[b] = Subject[c] /\ RevisionOrIat(b) = RevisionOrIat(c)
  BY DEF ExePath
<1>2. \A d \in Blobs : RevisionOrIat(d) = Version(d) % RevWidth
  <2>1. TAKE d \in Blobs
  <2>2. CASE Rev[d] > 0
    <3>1. Rev[d] \in 0..(RevWidth - 1) /\ RevWidth \in Nat \ {0}
      BY ArtifactsAssumption
    <3>2. Rev[d] % RevWidth = Rev[d]
      BY <3>1
    <3>3. QED
      BY <2>2, <3>2 DEF RevisionOrIat, Version
  <2>3. CASE ~(Rev[d] > 0)
    BY <2>3 DEF RevisionOrIat, Version
  <2>4. QED
    BY <2>2, <2>3
<1>3. QED
  BY <1>1, <1>2 DEF SameVersion

(* What is started is an executable of the provider that was fetched and   *)
(* of the version that was fetched, up to multiples of RevWidth: whatever  *)
(* archives there are, and whoever else fetches, fails or dies             *)
(* (get_provider_file, cache_path, revision_or_iat).                       *)
THEOREM RequestedIsRun == Spec => []RunsRequested
<1>1. Init => ExeInv
  BY ArtifactsAssumption DEF Init, ExeInv, OfItsPath, Unfinished, Present
<1>2. TypeOK /\ TypeOK' /\ ExeInv /\ [Next]_vars => ExeInv'
  <2>1. SUFFICES ASSUME TypeOK, TypeOK', ExeInv, [Next]_vars PROVE ExeInv'
    OBVIOUS
  <2>2. CASE \E f \in Fetchers : Step(f)
    BY <2>1, <2>2, ExeStep
  <2>3. CASE (\E r \in Refs : MoveTag(r)) \/ UNCHANGED vars
    <3>1. UNCHANGED <<exe, spoiled, pc, got>>
      BY <2>3 DEF MoveTag, files, vars, hist
    <3>2. QED
      BY <2>1, <3>1 DEF ExeInv, OfItsPath, Unfinished, Present, ExeWriters, ExePath
  <2>4. QED
    BY <2>1, <2>2, <2>3 DEF Next, Idle
<1>3. TypeOK /\ ExeInv => RunsRequested
  <2>1. SUFFICES ASSUME TypeOK, ExeInv, NEW f \in Fetchers, pc[f] = "start",
                        ExeWriters(ExePath(got[f])) = {}, ExePath(got[f]) \notin spoiled
                 PROVE  exe[ExePath(got[f])] \in Blobs /\ SameVersion(exe[ExePath(got[f])], got[f])
    BY DEF RunsRequested
  <2>2. got[f] \in Blobs /\ ExePath(got[f]) \in ExePaths
    BY <2>1, ExePathType DEF TypeOK, Holding
  <2>3. exe[ExePath(got[f])] \in Blobs
    BY <2>1, <2>2 DEF TypeOK, Types, Content, ExeInv, Unfinished, Present
  <2>4. ExePath(exe[ExePath(got[f])]) = ExePath(got[f])
    BY <2>1, <2>2, <2>3 DEF ExeInv, OfItsPath
  <2>5. QED
    BY <2>2, <2>3, <2>4, OnePathOneVersion
<1>4. QED
  BY <1>1, <1>2, <1>3, TypeCorrect, PTL DEF Spec

-----------------------------------------------------------------------------
(* Cached images *)

(* What the invariant says of a fetcher that does not write.               *)
Reader(f) ==
  /\ pc[f] \in {"open", "read"} /\ quiet[f] =>
       /\ \A g \in Fetchers : g # f /\ IsWriting(g) => Path(g) # Path(f)
       /\ cached[Path(f)] = got[f] /\ got[f] \in seen[f]
  /\ pc[f] \in Steps => tag[ref[f]] \in seen[f]
  /\ pc[f] \in {"compare", "parcel"} => got[f] \in Blobs /\ got[f] \in seen[f]
  /\ pc[f] = "done" /\ quiet[f] => out[f] \in seen[f]

LEMMA ReaderHolds ==
  ASSUME FetchInv, NEW f \in Fetchers
  PROVE  Reader(f)
  BY DEF FetchInv, Alone, Whole, InHand, UndisturbedFetch, Reader, Writing

(* A step of a fetcher that does not write matters to itself alone.        *)
LEMMA FetchQuiet ==
  ASSUME FetchInv, NEW f \in Fetchers, UNCHANGED <<tag, cached, digest, doubtful, mixed>>,
         ~IsWriting(f), ~IsWriting(f)', Reader(f)',
         \A g \in Fetchers \ {f} : /\ pc'[g] = pc[g] /\ got'[g] = got[g] /\ out'[g] = out[g]
                                   /\ ref'[g] = ref[g] /\ seen'[g] = seen[g] /\ quiet'[g] = quiet[g]
  PROVE  FetchInv'
<1>1. \A g \in Fetchers : IsWriting(g)' = IsWriting(g)
  BY DEF IsWriting
<1>2. \A g \in Fetchers : g # f => Path(g)' = Path(g)
  BY DEF Path
<1>3. Vouched'
  BY <1>1, <1>2 DEF FetchInv, Vouched
<1>4. Doubted' /\ Undone'
  BY <1>1, <1>2 DEF FetchInv, Doubted, Undone
<1>5. Alone'
  BY <1>1, <1>2 DEF FetchInv, Alone, Reader, IsWriting
<1>6. Whole'
  BY <1>1, <1>2 DEF FetchInv, Whole, Reader, IsWriting, Writing
<1>7. InHand' /\ UndisturbedFetch'
  BY <1>1 DEF FetchInv, InHand, UndisturbedFetch, Reader, IsWriting
<1>8. QED
  BY <1>3, <1>4, <1>5, <1>6, <1>7 DEF FetchInv

(* Setting out to write puts the digest in doubt.                          *)
LEMMA PullStep ==
  ASSUME TypeOK, FetchInv, NEW f \in Fetchers, Pull(f)
  PROVE  FetchInv'
<1>. DEFINE p == Path(f)
<1>0. /\ pc[f] = "pull" /\ pc' = [pc EXCEPT ![f] = "create"] /\ got' = [got EXCEPT ![f] = tag[ref[f]]]
      /\ UNCHANGED <<tag, cached, digest, ref, out, mixed, seen>>
      /\ p \in Paths /\ tag[ref[f]] \in Blobs
      /\ pc \in [Fetchers -> Steps \cup Ended] /\ got \in [Fetchers -> Content]
      /\ digest \in [Paths -> Blobs \cup {"none"}] /\ doubtful \in [Paths -> SUBSET Blobs]
  <2>1. /\ p \in Paths /\ tag[ref[f]] \in Blobs
        /\ pc \in [Fetchers -> Steps \cup Ended] /\ got \in [Fetchers -> Content]
        /\ digest \in [Paths -> Blobs \cup {"none"}] /\ doubtful \in [Paths -> SUBSET Blobs]
    BY ArtifactsAssumption DEF TypeOK, Types, Path
  <2>2. QED
    BY <2>1, FollowingValues DEF Pull, Goto, Gets, files
<1>1. \A g \in Fetchers : Path(g)' = Path(g) /\ IsWriting(g)' = (g = f \/ IsWriting(g))
  BY <1>0 DEF Path, IsWriting, Writing
<1>2. \A g \in Fetchers : quiet'[g] => quiet[g]
  <2>1. ASSUME NEW g \in Fetchers, quiet'[g] PROVE quiet[g]
    <3>1. CASE g = f
      BY <2>1, <3>1 DEF Pull
    <3>2. CASE g # f
      BY <2>1, <3>2 DEF Pull
    <3>3. QED
      BY <3>1, <3>2
  <2>2. QED
    BY <2>1
<1>3. quiet'[f] => \A g \in Fetchers : g # f /\ IsWriting(g) => Path(g) # p
  BY DEF Pull, Rivals, IsWriting
<1>4. \A g \in Fetchers : g # f /\ pc[g] \in Steps /\ Path(g) = p => ~quiet'[g]
  BY DEF Pull
<1>5. \A g \in Fetchers : g # f /\ Path(g) # p => (quiet'[g] <=> quiet[g])
  BY DEF Pull
<1>6. \A q \in Paths : q # p => doubtful'[q] = doubtful[q]
  BY <1>0 DEF Pull
<1>7. digest[p] # "none" => digest[p] \in doubtful'[p]
  BY <1>0 DEF Pull
<1>8. ~quiet'[f] \/ (\E g \in Fetchers : g # f /\ IsWriting(g) /\ Path(g) = p) => doubtful'[p] = Blobs
  BY <1>0 DEF Pull, Rivals, IsWriting
<1>9. Writing \cup {"open", "read"} \subseteq Steps
  BY DEF Steps
<1>10. \A g \in Fetchers : Path(g) \in Paths
  BY ArtifactsAssumption DEF TypeOK, Types, Path
<1>. HIDE DEF p
<1>11. Vouched'
  BY <1>0, <1>1, <1>6 DEF FetchInv, Vouched, p
<1>12. Doubted'
  BY <1>0, <1>1, <1>6, <1>7, <1>10 DEF FetchInv, Doubted, p
<1>13. Undone'
  BY <1>0, <1>1, <1>5, <1>6, <1>8, <1>10 DEF FetchInv, Undone, p
<1>14. Alone'
  <2>1. SUFFICES ASSUME NEW g \in Fetchers, quiet'[g], pc'[g] \in Writing \cup {"open", "read"},
                        NEW h \in Fetchers, h # g, IsWriting(h)'
                 PROVE  Path(h) # Path(g)
    BY <1>1 DEF Alone
  <2>2. CASE g = f
    BY <2>1, <2>2, <1>1, <1>3 DEF p
  <2>3. CASE g # f
    <3>1. pc[g] \in Writing \cup {"open", "read"} /\ quiet[g]
      BY <2>1, <2>3, <1>0, <1>2
    <3>2. Path(g) # p
      BY <3>1, <2>1, <2>3, <1>4, <1>9
    <3>3. QED
      BY <2>1, <3>1, <3>2, <1>1 DEF FetchInv, Alone, p
  <2>4. QED
    BY <2>2, <2>3
<1>15. Whole'
  BY <1>0, <1>1, <1>2 DEF FetchInv, Whole
<1>16. InHand'
  BY <1>0, <1>2 DEF FetchInv, InHand, Steps
<1>17. UndisturbedFetch'
  BY <1>0, <1>2 DEF FetchInv, UndisturbedFetch
<1>18. QED
  BY <1>11, <1>12, <1>13, <1>14, <1>15, <1>16, <1>17 DEF FetchInv

(* A step of a writer that goes on writing.  It disturbs no fetch that has *)
(* the files for itself.                                                   *)
LEMMA WriterGoesOn ==
  ASSUME TypeOK, FetchInv, NEW f \in Fetchers, IsWriting(f), IsWriting(f)',
         UNCHANGED <<tag, got, ref, out, seen, quiet, doubtful>>,
         pc' = [pc EXCEPT ![f] = pc'[f]],
         \A q \in Paths : q # Path(f) => cached'[q] = cached[q] /\ digest'[q] = digest[q],
         digest'[Path(f)] \in {digest[Path(f)], "none"},
         Whole'
  PROVE  FetchInv'
<1>1. \A g \in Fetchers : Path(g)' = Path(g) /\ IsWriting(g)' = IsWriting(g)
  BY DEF TypeOK, Types, Path, IsWriting
<1>2. \A g \in Fetchers : Path(g) \in Paths
  BY ArtifactsAssumption DEF TypeOK, Types, Path
<1>3. \A g \in Fetchers : g # f => pc'[g] = pc[g]
  BY DEF TypeOK, Types
<1>4. Vouched'
  BY <1>1 DEF FetchInv, Vouched
<1>5. Doubted'
  BY <1>1, <1>2 DEF FetchInv, Doubted
<1>6. Undone'
  BY <1>1 DEF FetchInv, Undone
<1>7. Alone'
  BY <1>1, <1>3 DEF FetchInv, Alone, IsWriting
<1>8. InHand'
  BY <1>3 DEF FetchInv, InHand, IsWriting, Writing, Steps
<1>9. UndisturbedFetch'
  BY <1>3 DEF FetchInv, UndisturbedFetch, IsWriting, Writing
<1>10. QED
  BY <1>4, <1>5, <1>6, <1>7, <1>8, <1>9 DEF FetchInv

(* No other fetch that counts on the files is on the path of a writer.     *)
LEMMA OthersElsewhere ==
  ASSUME TypeOK, FetchInv, NEW f \in Fetchers, IsWriting(f),
         NEW g \in Fetchers, g # f, quiet[g], pc[g] \in Writing \cup {"open", "read"}
  PROVE  Path(g) # Path(f)
  BY DEF FetchInv, Alone

LEMMA CreateStep ==
  ASSUME TypeOK, FetchInv, NEW f \in Fetchers, Create(f)
  PROVE  FetchInv'
<1>. DEFINE others == {g \in Rivals(f) : pc[g] = "write" /\ got[g] # got[f]}
<1>1. /\ pc[f] = "create" /\ pc' = [pc EXCEPT ![f] = "write"]
      /\ cached' = [cached EXCEPT ![Path(f)] = "empty"]
      /\ UNCHANGED <<tag, digest, ref, got, out, seen, quiet, doubtful>>
      /\ mixed' = IF others = {} THEN mixed \ {f} ELSE mixed \cup others \cup {f}
  BY FollowingValues DEF Create, Goto, hist
<1>2. pc \in [Fetchers -> Steps \cup Ended] /\ cached \in [Paths -> Content]
      /\ \A g \in Fetchers : Path(g) \in Paths /\ Path(g)' = Path(g)
  BY <1>1, ArtifactsAssumption DEF TypeOK, Types, Path
<1>3. IsWriting(f) /\ IsWriting(f)'
  BY <1>1, <1>2 DEF IsWriting, Writing
<1>4. quiet[f] => others = {}
  BY <1>3 DEF Rivals, FetchInv, Alone, IsWriting
<1>5. \A g \in others : Path(g) = Path(f) /\ pc[g] = "write" /\ g # f
  BY DEF Rivals
<1>. HIDE DEF others
<1>6. Whole'
  <2>1. SUFFICES ASSUME NEW g \in Fetchers, quiet[g]
                 PROVE  /\ pc'[g] = "write" => g \notin mixed'
                        /\ pc'[g] \in {"erase", "sum", "open", "read"} => cached'[Path(g)] = got[g]
    BY <1>1, <1>2 DEF Whole
  <2>2. CASE g = f
    BY <2>1, <2>2, <1>1, <1>2, <1>4
  <2>3. CASE g # f /\ pc[g] = "write"
    <3>1. g \notin others
      BY <2>1, <2>3, <1>3, <1>5, OthersElsewhere DEF Writing
    <3>2. QED
      BY <2>1, <2>3, <3>1, <1>1, <1>2 DEF FetchInv, Whole
  <2>4. CASE g # f /\ pc[g] # "write"
    <3>1. pc[g] \in {"erase", "sum", "open", "read"} => Path(g) # Path(f)
      BY <2>1, <2>4, <1>3, OthersElsewhere DEF Writing
    <3>2. QED
      BY <2>1, <2>4, <3>1, <1>1, <1>2 DEF FetchInv, Whole
  <2>5. QED
    BY <2>2, <2>3, <2>4
<1>7. QED
  BY <1>1, <1>2, <1>3, <1>6, WriterGoesOn

LEMMA WriteStep ==
  ASSUME TypeOK, FetchInv, NEW f \in Fetchers, Write(f)
  PROVE  FetchInv'
<1>1. /\ pc[f] = "write" /\ pc' = [pc EXCEPT ![f] = "erase"]
      /\ UNCHANGED <<tag, digest, ref, got, out, seen, quiet, doubtful, mixed>>
  BY FollowingValues DEF Write, Goto, Settle
<1>2. pc \in [Fetchers -> Steps \cup Ended] /\ cached \in [Paths -> Content]
      /\ \A g \in Fetchers : Path(g) \in Paths /\ Path(g)' = Path(g)
  BY <1>1, ArtifactsAssumption DEF TypeOK, Types, Path
<1>3. IsWriting(f) /\ IsWriting(f)'
  BY <1>1, <1>2 DEF IsWriting, Writing
<1>4. PICK c : /\ cached' = [cached EXCEPT ![Path(f)] = c]
               /\ c \in {got[f]} \cup IF f \in mixed \/ (\E g \in Rivals(f) : pc[g] = "write")
                                     THEN {"torn"} ELSE {}
  BY DEF Write
<1>5. quiet[f] => c = got[f]
  <2>1. quiet[f] => f \notin mixed
    BY <1>1 DEF FetchInv, Whole
  <2>2. quiet[f] => Rivals(f) = {}
    BY <1>3 DEF Rivals, FetchInv, Alone, IsWriting
  <2>3. QED
    BY <2>1, <2>2, <1>4
<1>6. Whole'
  <2>1. SUFFICES ASSUME NEW g \in Fetchers, quiet[g]
                 PROVE  /\ pc'[g] = "write" => g \notin mixed
                        /\ pc'[g] \in {"erase", "sum", "open", "read"} => cached'[Path(g)] = got[g]
    BY <1>1, <1>2 DEF Whole
  <2>2. CASE g = f
    BY <2>1, <2>2, <1>1, <1>2, <1>4, <1>5
  <2>3. CASE g # f
    <3>1. pc[g] \in {"erase", "sum", "open", "read"} => Path(g) # Path(f)
      BY <2>1, <2>3, <1>3, OthersElsewhere DEF Writing
    <3>2. QED
      BY <2>1, <2>3, <3>1, <1>1, <1>2, <1>4 DEF FetchInv, Whole
  <2>4. QED
    BY <2>2, <2>3
<1>7. QED
  BY <1>1, <1>2, <1>3, <1>4, <1>6, WriterGoesOn

LEMMA EraseStep ==
  ASSUME TypeOK, FetchInv, NEW f \in Fetchers, EraseDigest(f)
  PROVE  FetchInv'
<1>1. /\ pc[f] = "erase" /\ pc' = [pc EXCEPT ![f] = "sum"]
      /\ digest' = [digest EXCEPT ![Path(f)] = "none"]
      /\ UNCHANGED <<tag, cached, ref, got, out, seen, quiet, doubtful, mixed>>
  BY FollowingValues DEF EraseDigest, Goto, hist
<1>2. pc \in [Fetchers -> Steps \cup Ended] /\ Path(f) \in Paths
      /\ digest \in [Paths -> Blobs \cup {"none"}]
  BY ArtifactsAssumption DEF TypeOK, Types, Path
<1>3. IsWriting(f) /\ IsWriting(f)'
  BY <1>1, <1>2 DEF IsWriting, Writing
<1>4. Whole'
  BY <1>1, <1>2 DEF FetchInv, Whole, Path
<1>5. QED
  BY <1>1, <1>2, <1>3, <1>4, WriterGoesOn

(* The digest is written last, and clears the doubt if f was alone.        *)
LEMMA SumStep ==
  ASSUME TypeOK, FetchInv, NEW f \in Fetchers, WriteDigest(f)
  PROVE  FetchInv'
<1>. DEFINE p == Path(f)
<1>1. /\ pc[f] = "sum" /\ pc' = [pc EXCEPT ![f] = "open"]
      /\ digest' = [digest EXCEPT ![p] = got[f]]
      /\ doubtful' = IF quiet[f] THEN [doubtful EXCEPT ![p] = {}] ELSE doubtful
      /\ UNCHANGED <<tag, cached, ref, got, out, seen, quiet, mixed>>
  BY FollowingValues DEF WriteDigest, Goto, Settle
<1>2. /\ pc \in [Fetchers -> Steps \cup Ended] /\ p \in Paths /\ got[f] \in Blobs
      /\ digest \in [Paths -> Blobs \cup {"none"}] /\ doubtful \in [Paths -> SUBSET Blobs]
  BY <1>1, ArtifactsAssumption DEF TypeOK, Types, Path, Holding, Writing
<1>3. \A g \in Fetchers : /\ Path(g)' = Path(g) /\ Path(g) \in Paths
                          /\ IsWriting(g)' = (g # f /\ IsWriting(g))
  BY <1>1, <1>2, ArtifactsAssumption DEF TypeOK, Types, Path, IsWriting, Writing
<1>4. IsWriting(f)
  BY <1>1 DEF IsWriting, Writing
<1>5. quiet[f] => cached[p] = got[f] /\ \A g \in Fetchers : g # f /\ IsWriting(g) => Path(g) # p
  BY <1>1 DEF FetchInv, Whole, Alone, Writing
<1>6. ~quiet[f] => doubtful[p] = Blobs
  BY <1>4 DEF FetchInv, Undone
<1>7. \A q \in Paths : q # p => digest'[q] = digest[q] /\ doubtful'[q] = doubtful[q]
  BY <1>1, <1>2
<1>8. /\ digest'[p] = got[f]
      /\ doubtful'[p] = IF quiet[f] THEN {} ELSE Blobs
  BY <1>1, <1>2, <1>6
<1>. HIDE DEF p
<1>9. Vouched'
  <2>1. SUFFICES ASSUME NEW q \in Paths, digest'[q] # "none", digest'[q] \notin doubtful'[q],
                        \A g \in Fetchers : IsWriting(g)' => Path(g) # q
                 PROVE  cached[q] = digest'[q]
    BY <1>1, <1>3 DEF Vouched
  <2>2. CASE q = p
    BY <2>1, <2>2, <1>2, <1>5, <1>8
  <2>3. CASE q # p
    BY <2>1, <2>3, <1>3, <1>7 DEF FetchInv, Vouched, p
  <2>4. QED
    BY <2>2, <2>3
<1>10. Doubted'
  <2>1. SUFFICES ASSUME NEW g \in Fetchers, IsWriting(g)', digest'[Path(g)] # "none"
                 PROVE  digest'[Path(g)] \in doubtful'[Path(g)]
    BY <1>3 DEF Doubted
  <2>2. CASE Path(g) = p
    <3>1. ~quiet[f]
      BY <2>1, <2>2, <1>3, <1>5
    <3>2. QED
      BY <2>2, <3>1, <1>2, <1>8
  <2>3. CASE Path(g) # p
    BY <2>1, <2>3, <1>3, <1>7 DEF FetchInv, Doubted
  <2>4. QED
    BY <2>2, <2>3
<1>11. Undone'
  <2>1. SUFFICES ASSUME NEW g \in Fetchers, IsWriting(g)', ~quiet[g]
                 PROVE  doubtful'[Path(g)] = Blobs
    BY <1>1, <1>3 DEF Undone
  <2>2. CASE Path(g) = p
    BY <2>1, <2>2, <1>3, <1>5, <1>8
  <2>3. CASE Path(g) # p
    BY <2>1, <2>3, <1>3, <1>7 DEF FetchInv, Undone
  <2>4. QED
    BY <2>2, <2>3
<1>12. Alone'
  BY <1>1, <1>2, <1>3 DEF FetchInv, Alone, Writing
<1>13. Whole'
  BY <1>1, <1>2, <1>3 DEF FetchInv, Whole
<1>14. InHand'
  BY <1>1, <1>2 DEF FetchInv, InHand, Writing, Steps
<1>15. UndisturbedFetch'
  BY <1>1, <1>2 DEF FetchInv, UndisturbedFetch
<1>16. QED
  BY <1>9, <1>10, <1>11, <1>12, <1>13, <1>14, <1>15 DEF FetchInv

(* A writer that fails leaves the digest, which is in doubt already.       *)
LEMMA WriterFails ==
  ASSUME TypeOK, FetchInv, NEW f \in Fetchers, Fail(f), IsWriting(f)
  PROVE  FetchInv'
<1>1. /\ pc' = [pc EXCEPT ![f] = "failed"] /\ got' = [got EXCEPT ![f] = "none"]
      /\ seen' = [seen EXCEPT ![f] = {}] /\ quiet' = [quiet EXCEPT ![f] = TRUE]
      /\ UNCHANGED <<tag, digest, ref, out, mixed, doubtful>>
  BY DEF Fail, Goto, Gets
<1>2. /\ pc \in [Fetchers -> Steps \cup Ended] /\ got \in [Fetchers -> Content]
      /\ seen \in [Fetchers -> SUBSET Blobs] /\ quiet \in [Fetchers -> BOOLEAN]
      /\ cached \in [Paths -> Content] /\ \A g \in Fetchers : Path(g) \in Paths
  BY ArtifactsAssumption DEF TypeOK, Types, Path
<1>3. \A g \in Fetchers : Path(g)' = Path(g) /\ IsWriting(g)' = (g # f /\ IsWriting(g))
  BY <1>1, <1>2 DEF Path, IsWriting, Writing
<1>4. \A q \in Paths : q # Path(f) => cached'[q] = cached[q]
  BY <1>2 DEF Fail
<1>5. Vouched'
  BY <1>1, <1>3, <1>4 DEF FetchInv, Vouched, Doubted
<1>6. Doubted' /\ Undone'
  BY <1>1, <1>2, <1>3 DEF FetchInv, Doubted, Undone
<1>7. Alone'
  BY <1>1, <1>2, <1>3 DEF FetchInv, Alone, Writing
<1>8. Whole'
  <2>1. SUFFICES ASSUME NEW g \in Fetchers, quiet'[g], g # f
                 PROVE  /\ pc[g] = "write" => g \notin mixed
                        /\ pc[g] \in {"erase", "sum", "open", "read"} => cached'[Path(g)] = got[g]
    BY <1>1, <1>2, <1>3 DEF Whole
  <2>2. quiet[g]
    BY <2>1, <1>1, <1>2
  <2>3. pc[g] \in {"erase", "sum", "open", "read"} => Path(g) # Path(f)
    BY <2>1, <2>2, OthersElsewhere DEF Writing
  <2>4. QED
    BY <2>1, <2>2, <2>3, <1>2, <1>4 DEF FetchInv, Whole
<1>9. InHand' /\ UndisturbedFetch'
  BY <1>1, <1>2 DEF FetchInv, InHand, UndisturbedFetch, Steps, Writing
<1>10. QED
  BY <1>5, <1>6, <1>7, <1>8, <1>9 DEF FetchInv

(* A digest the registry gives again vouches for the cached image, if it   *)
(* is not in doubt.                                                        *)
LEMMA CompareStep ==
  ASSUME TypeOK, FetchInv, NEW f \in Fetchers, Compare(f)
  PROVE  FetchInv'
<1>1. /\ pc[f] = "compare" /\ pc' = [pc EXCEPT ![f] = pc'[f]]
      /\ pc'[f] = IF digest[Path(f)] = got[f] THEN "open" ELSE "pull"
      /\ quiet' = [quiet EXCEPT ![f] = quiet'[f]]
      /\ quiet'[f] => quiet[f] /\ got[f] \notin doubtful[Path(f)]
      /\ UNCHANGED <<tag, cached, digest, ref, got, out, mixed, seen, doubtful>>
  BY DEF Compare, Goto, files, TypeOK, Types
<1>2. got[f] \in Blobs /\ got[f] \in seen[f] /\ tag[ref[f]] \in seen[f] /\ Path(f) \in Paths
      /\ Path(f)' = Path(f) /\ "none" \notin Blobs
  BY <1>1, ArtifactsAssumption DEF FetchInv, InHand, Steps, TypeOK, Types, Path
<1>3. ASSUME quiet'[f], pc'[f] = "open"
      PROVE  /\ \A g \in Fetchers : IsWriting(g) => Path(g) # Path(f)
             /\ cached[Path(f)] = got[f]
  <2>1. \A g \in Fetchers : IsWriting(g) => Path(g) # Path(f)
    BY <1>1, <1>2, <1>3 DEF FetchInv, Doubted
  <2>2. QED
    BY <2>1, <1>1, <1>2, <1>3 DEF FetchInv, Vouched
<1>4. pc \in [Fetchers -> Steps \cup Ended] /\ quiet \in [Fetchers -> BOOLEAN]
  BY DEF TypeOK, Types
<1>5. \A g \in Fetchers \ {f} : pc'[g] = pc[g] /\ quiet'[g] = quiet[g]
  BY <1>1, <1>4
<1>6. ~IsWriting(f) /\ ~IsWriting(f)'
  BY <1>1 DEF IsWriting, Writing
<1>7. Reader(f)'
  <2>1. \A g \in Fetchers : g # f => IsWriting(g)' = IsWriting(g) /\ Path(g)' = Path(g)
    BY <1>1, <1>5 DEF IsWriting, Path
  <2>2. QED
    BY <2>1, <1>1, <1>2, <1>3 DEF Reader
<1>8. QED
  BY <1>1, <1>5, <1>6, <1>7, FetchQuiet

LEMMA FetchStep ==
  ASSUME TypeOK, FetchInv, NEW f \in Fetchers, Step(f)
  PROVE  FetchInv'
<1>t. /\ pc \in [Fetchers -> Steps \cup Ended] /\ got \in [Fetchers -> Content]
      /\ ref \in [Fetchers -> Refs] /\ out \in [Fetchers -> Content]
      /\ seen \in [Fetchers -> SUBSET Blobs] /\ quiet \in [Fetchers -> BOOLEAN]
      /\ tag \in [Refs -> Blobs]
  BY DEF TypeOK, Types
<1>r. Reader(f)
  BY ReaderHolds
<1>. USE <1>t DEF Goto, Gets, files, hist
<1>1. ASSUME NEW k \in Kinds, NEW r \in Refs, Request(f, k, r) PROVE FetchInv'
  <2>1. ~IsWriting(f) /\ ~IsWriting(f)' /\ Reader(f)'
    BY <1>1 DEF Request, IsWriting, Writing, Ended, Reader
  <2>2. QED
    BY <1>1, <2>1, FetchQuiet DEF Request
<1>2. CASE Stat(f)
  <2>1. ~IsWriting(f) /\ ~IsWriting(f)' /\ Reader(f)'
    BY <1>2, <1>r DEF Stat, IsWriting, Writing, Steps, Reader, Path
  <2>2. QED
    BY <1>2, <2>1, FetchQuiet DEF Stat
<1>3. CASE Manifest(f)
  <2>1. ~IsWriting(f) /\ ~IsWriting(f)' /\ Reader(f)'
    BY <1>3, <1>r DEF Manifest, IsWriting, Writing, Steps, Reader, Path
  <2>2. QED
    BY <1>3, <2>1, FetchQuiet DEF Manifest
<1>4. CASE Compare(f)
  BY <1>4, CompareStep
<1>5. CASE Pull(f)
  BY <1>5, PullStep
<1>6. CASE Create(f)
  BY <1>6, CreateStep
<1>7. CASE Write(f)
  BY <1>7, WriteStep
<1>8. CASE EraseDigest(f)
  BY <1>8, EraseStep
<1>9. CASE WriteDigest(f)
  BY <1>9, SumStep
<1>10. CASE Open(f)
  <2>1. ~IsWriting(f) /\ ~IsWriting(f)' /\ Reader(f)'
    BY <1>10, <1>r DEF Open, IsWriting, Writing, Steps, Reader, Path
  <2>2. QED
    BY <1>10, <2>1, FetchQuiet DEF Open
<1>11. CASE Read(f)
  <2>1. ~IsWriting(f) /\ ~IsWriting(f)' /\ Reader(f)'
    BY <1>11, <1>r DEF Read, IsWriting, Writing, Steps, Reader, Path
  <2>2. QED
    BY <1>11, <2>1, FetchQuiet DEF Read
<1>12. CASE Load(f)
  <2>1. ~IsWriting(f) /\ ~IsWriting(f)' /\ Reader(f)'
    BY <1>12, <1>r DEF Load, IsWriting, Writing, Steps, Reader, Path
  <2>2. QED
    BY <1>12, <2>1, FetchQuiet DEF Load
<1>13. CASE Invoice(f)
  <2>1. ~IsWriting(f) /\ ~IsWriting(f)' /\ Reader(f)'
    BY <1>13, <1>r DEF Invoice, IsWriting, Writing, Steps, Reader, Path
  <2>2. QED
    BY <1>13, <2>1, FetchQuiet DEF Invoice
<1>14. CASE Parcel(f)
  <2>1. ~IsWriting(f) /\ ~IsWriting(f)' /\ Reader(f)'
    BY <1>14, <1>r DEF Parcel, IsWriting, Writing, Steps, Reader, Path
  <2>2. QED
    BY <1>14, <2>1, FetchQuiet DEF Parcel
<1>15. CASE ExeStat(f)
  <2>1. ~IsWriting(f) /\ ~IsWriting(f)' /\ Reader(f)'
    BY <1>15, <1>r DEF ExeStat, IsWriting, Writing, Steps, Reader, Path
  <2>2. QED
    BY <1>15, <2>1, FetchQuiet DEF ExeStat
<1>16. CASE ExeCreate(f)
  <2>1. ~IsWriting(f) /\ ~IsWriting(f)' /\ Reader(f)'
    BY <1>16, <1>r DEF ExeCreate, IsWriting, Writing, Steps, Reader, Path
  <2>2. QED
    BY <1>16, <2>1, FetchQuiet DEF ExeCreate
<1>17. CASE ExeWrite(f)
  <2>1. ~IsWriting(f) /\ ~IsWriting(f)' /\ Reader(f)'
    BY <1>17, <1>r DEF ExeWrite, IsWriting, Writing, Steps, Reader, Path
  <2>2. QED
    BY <1>17, <2>1, FetchQuiet DEF ExeWrite
<1>18. CASE Start(f)
  <2>1. ~IsWriting(f) /\ ~IsWriting(f)' /\ Reader(f)'
    BY <1>18, <1>r DEF Start, IsWriting, Writing, Steps, Reader, Path
  <2>2. QED
    BY <1>18, <2>1, FetchQuiet DEF Start
<1>19. CASE Fail(f)
  <2>1. CASE IsWriting(f)
    BY <1>19, <2>1, WriterFails
  <2>2. CASE ~IsWriting(f)
    <3>1. ~IsWriting(f)' /\ Reader(f)' /\ cached' = cached
      BY <1>19, <2>2 DEF Fail, IsWriting, Writing, Steps, Reader
    <3>2. QED
      BY <1>19, <2>2, <3>1, FetchQuiet DEF Fail
  <2>3. QED
    BY <2>1, <2>2
<1>20. QED
  BY <1>1, <1>2, <1>3, <1>4, <1>5, <1>6, <1>7, <1>8, <1>9, <1>10, <1>11, <1>12, <1>13, <1>14,
     <1>15, <1>16, <1>17, <1>18, <1>19 DEF Step

LEMMA MoveStep ==
  ASSUME TypeOK, FetchInv, NEW r \in Refs, MoveTag(r)
  PROVE  FetchInv'
<1>1. UNCHANGED <<cached, digest, ref, pc, got, out, mixed, quiet, doubtful>>
  BY DEF MoveTag, files
<1>2. Vouched' /\ Doubted' /\ Undone' /\ Alone' /\ Whole'
  BY <1>1 DEF FetchInv, Vouched, Doubted, Undone, Alone, Whole, IsWriting, Path
<1>3. \A f \in Fetchers : seen[f] \subseteq seen'[f]
  BY DEF MoveTag
<1>4. \A f \in Fetchers : pc[f] \in Steps => tag'[ref[f]] \in seen'[f]
  BY DEF MoveTag, TypeOK, Types, FetchInv, InHand
<1>5. InHand'
  BY <1>1, <1>3, <1>4 DEF FetchInv, InHand
<1>6. UndisturbedFetch'
  BY <1>1, <1>3 DEF FetchInv, UndisturbedFetch
<1>7. QED
  BY <1>2, <1>5, <1>6 DEF FetchInv

(* An undisturbed fetch of an actor yields an image its reference named.   *)
THEOREM FetchedIsNamed == Spec => []UndisturbedFetch
<1>1. Init => FetchInv
  BY DEF Init, FetchInv, Vouched, Doubted, Undone, Alone, Whole, InHand, UndisturbedFetch,
     IsWriting, Writing, Steps
<1>2. TypeOK /\ FetchInv /\ [Next]_vars => FetchInv'
  <2>1. SUFFICES ASSUME TypeOK, FetchInv, [Next]_vars PROVE FetchInv'
    OBVIOUS
  <2>2. CASE UNCHANGED vars
    BY <2>1, <2>2 DEF vars, files, hist, FetchInv, Vouched, Doubted, Undone, Alone, Whole,
       InHand, UndisturbedFetch, IsWriting, Path
  <2>3. QED
    BY <2>1, <2>2, FetchStep, MoveStep DEF Next, Idle
<1>3. QED
  BY <1>1, <1>2, TypeCorrect, PTL DEF Spec, FetchInv
=============================================================================
