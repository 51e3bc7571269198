---------------------------- MODULE ArtifactCache ----------------------------
(***************************************************************************)
(* Artifacts on their way to a host: the native functions that fetch an    *)
(* actor or a provider archive from an OCI registry (oci.rs, get_oci_bytes,*)
(* get_oci_path), unpack the executable of an archive (par_from_path) or   *)
(* stream it from a bindle server (get_provider_bindle, get_actor_bindle). *)
(*                                                                         *)
(* They run on threads of the Erlang VM, mostly DirtyIo ones, and every    *)
(* host process of the machine shares the temporary directory: the cached  *)
(* image and its digest are two files that no lock protects, and an        *)
(* executable is written only if its file does not exist.  A fetcher is a  *)
(* thread of any host; it may fail or die at every step and leaves the     *)
(* files as they are.                                                      *)
(* A digest is modelled by the artifact it is the digest of.               *)
(* A definition named X_Y is a faulty variant of X that no action uses.    *)
(***************************************************************************)
EXTENDS Naturals, Sequences, FiniteSets

CONSTANTS
  Fetchers,   \* threads of the hosts of one machine
  Refs,       \* references
  Images,     \* those to images; the others name bindles
  Blobs,      \* artifacts
  Pushed,     \* Pushed[r]: those a reference may come to name
  Paths,      \* files of wasmcloud_ocicache, without extension
  PathOf,     \* PathOf[r]: the file name of image r, lower-cased, with : / . as _
  Latest,     \* references that end with :latest
  AllowLatest,
  Subject, Rev, Iat,  \* claims of an artifact; a revision of 0 is a missing one
  RevWidth,   \* a revision is a signed integer of this many values
  MaxMoves,   \* bound: tags moved
  MaxFetches  \* bound: fetches

ASSUME ArtifactsAssumption ==
  /\ Refs # {} /\ Images \subseteq Refs /\ PathOf \in [Refs -> Paths] /\ Latest \subseteq Refs /\ AllowLatest \in BOOLEAN
  /\ Pushed \in [Refs -> SUBSET Blobs]
  /\ RevWidth \in Nat \ {0} /\ Rev \in [Blobs -> 0..(RevWidth - 1)] /\ Iat \in [Blobs -> Nat]
  /\ {"none", "empty", "torn"} \cap Blobs = {}
  /\ MaxMoves \in Nat /\ MaxFetches \in Nat

RevisionOrIat_Rev(b) == Rev[b]

(* revision_or_iat; iat as i32 keeps the low bits.                         *)
RevisionOrIat(b) == IF Rev[b] > 0 THEN Rev[b] ELSE Iat[b] % RevWidth

(* cache_path: contract and link name are those of the archive and the     *)
(* request, and the same for all of a subject here.                        *)
ExePath(b) == <<Subject[b], RevisionOrIat(b)>>
ExePaths == {ExePath(b) : b \in Blobs}

VARIABLES
  tag,      \* tag[r]: what the registry serves for r
  cached,   \* cached[p]: p.bin
  digest,   \* digest[p]: p.digest; none: no file, or an empty one
  exe,      \* exe[x]: the executable at x
  kind,     \* kind[f]: what f fetches: an image, or a bindle, of an actor or provider
  ref,      \* ref[f]: the reference it fetches
  pc,       \* where f stands
  got,      \* got[f]: the artifact f has in hand
  out,      \* out[f]: what f returned (actor), or started (provider)
  mixed,    \* fetchers whose writing overlaps that of another artifact
  moves, fetches,
  seen,     \* history: what tag[ref[f]] was during f's fetch
  quiet,    \* history: nobody else set out to write f's file during f's fetch
  doubtful, \* history: artifacts for which p.digest may vouch falsely
  spoiled   \* history: executables whose writing was interrupted

files == <<cached, digest, exe>>
hist == <<seen, quiet, doubtful, spoiled>>
vars == <<tag, files, kind, ref, pc, got, out, mixed, moves, fetches, hist>>

Content == Blobs \cup {"none", "empty", "torn"}
Kinds == {"actor", "provider", "actor bindle", "provider bindle"}
Bindles == {"actor bindle", "provider bindle"}

Order_DigestFirst == <<"erase", "sum", "create", "write">>

(* cache_oci_image: the image first, then its digest; File::create         *)
(* truncates.                                                              *)
Order == <<"create", "write", "erase", "sum">>

Writing == {"create", "write", "erase", "sum"}
Steps == Writing \cup {"stat", "manifest", "compare", "pull", "open", "read", "load",
                       "invoice", "parcel", "exestat", "execreate", "exewrite", "start"}
Ended == {"idle", "done", "failed", "started"}
Holding == Writing \cup {"compare", "parcel", "exestat", "execreate", "exewrite", "start"}

Path(f) == PathOf[ref[f]]

(* Who else is about to write, or writes, f's file.                        *)
Rivals(f) == {g \in Fetchers \ {f} : pc[g] \in Writing /\ Path(g) = Path(f)}
ExeWriters(x) == {f \in Fetchers : pc[f] = "exewrite" /\ ExePath(got[f]) = x}

Init ==
  /\ tag \in [Refs -> Blobs] /\ \A r \in Refs : tag[r] \in Pushed[r]
  /\ cached = [p \in Paths |-> "none"] /\ digest = [p \in Paths |-> "none"]
  /\ exe = [x \in ExePaths |-> "none"]
  /\ kind = [f \in Fetchers |-> "actor"] /\ ref = [f \in Fetchers |-> CHOOSE r \in Refs : TRUE]
  /\ pc = [f \in Fetchers |-> "idle"] /\ got = [f \in Fetchers |-> "none"]
  /\ out = [f \in Fetchers |-> "none"]
  /\ mixed = {} /\ moves = 0 /\ fetches = 0
  /\ seen = [f \in Fetchers |-> {}] /\ quiet = [f \in Fetchers |-> TRUE]
  /\ doubtful = [p \in Paths |-> {}] /\ spoiled = {}

Goto(f, s) == pc' = [pc EXCEPT ![f] = s]
Gets(f, c) == got' = [got EXCEPT ![f] = c]

(* The step of cache_oci_image after s.                                    *)
Following(s) ==
  IF s = Order[Len(Order)] THEN "open"
  ELSE LET k == CHOOSE j \in 1..Len(Order) : Order[j] = s IN Order[k + 1]

-----------------------------------------------------------------------------
(* The registry: somebody pushes another image under the tag.  A bindle    *)
(* never changes.                                                          *)
MoveTag(r) ==
  /\ r \in Images /\ moves < MaxMoves /\ moves' = moves + 1
  /\ \E b \in Pushed[r] \ {tag[r]} :
       /\ tag' = [tag EXCEPT ![r] = b]
       /\ seen' = [f \in Fetchers |-> IF ref[f] = r /\ pc[f] \in Steps
                                      THEN seen[f] \cup {b} ELSE seen[f]]
  /\ UNCHANGED <<files, kind, ref, pc, got, out, mixed, fetches, quiet, doubtful, spoiled>>

-----------------------------------------------------------------------------
(* fetch_oci_path *)

(* An image tagged latest is refused unless the host allows it.            *)
Request(f, k, r) ==
  /\ pc[f] \in Ended /\ fetches < MaxFetches /\ fetches' = fetches + 1
  /\ k \in Bindles <=> r \notin Images
  /\ kind' = [kind EXCEPT ![f] = k] /\ ref' = [ref EXCEPT ![f] = r]
  /\ Goto(f, IF k \in Bindles THEN "invoice"
             ELSE IF r \in Latest /\ ~AllowLatest THEN "failed" ELSE "stat")
  /\ Gets(f, "none") /\ out' = [out EXCEPT ![f] = "none"]
  /\ seen' = [seen EXCEPT ![f] = {tag[r]}] /\ quiet' = [quiet EXCEPT ![f] = TRUE]
  /\ UNCHANGED <<tag, files, mixed, moves, doubtful, spoiled>>

Stat(f) ==
  /\ pc[f] = "stat" /\ Goto(f, IF cached[Path(f)] = "none" THEN "pull" ELSE "manifest")
  /\ UNCHANGED <<tag, files, kind, ref, got, out, mixed, moves, fetches, hist>>

(* The digest the registry gives for the reference.                        *)
Manifest(f) ==
  /\ pc[f] = "manifest" /\ Goto(f, "compare") /\ Gets(f, tag[ref[f]])
  /\ UNCHANGED <<tag, files, kind, ref, out, mixed, moves, fetches, hist>>

(* A digest file that is missing, empty or of another image: pull again.   *)
Compare(f) ==
  /\ pc[f] = "compare" /\ Goto(f, IF digest[Path(f)] = got[f] THEN "open" ELSE "pull")
  /\ quiet' = [quiet EXCEPT ![f] = @ /\ got[f] \notin doubtful[Path(f)]]
  /\ UNCHANGED <<tag, files, kind, ref, got, out, mixed, moves, fetches, seen, doubtful, spoiled>>

(* From here to the digest the two files may disagree.  If somebody else   *)
(* is writing them, or wrote them since f asked, no digest is to be        *)
(* trusted; else only the one that is there.                               *)
Pull(f) ==
  /\ pc[f] = "pull" /\ Goto(f, Order[1]) /\ Gets(f, tag[ref[f]])
  /\ doubtful' = [doubtful EXCEPT ![Path(f)] =
                    IF Rivals(f) # {} \/ ~quiet[f] THEN Blobs
                    ELSE @ \cup ({digest[Path(f)]} \ {"none"})]
  /\ quiet' = [g \in Fetchers |->
                 IF g = f THEN quiet[f] /\ Rivals(f) = {}
                 ELSE quiet[g] /\ (Path(g) # Path(f) \/ pc[g] \notin Steps)]
  /\ UNCHANGED <<tag, files, kind, ref, out, mixed, moves, fetches, seen, spoiled>>

(* The two files agree again when f has written both undisturbed.          *)
Settle(f, s) ==
  doubtful' = IF Following(s) = "open" /\ quiet[f] THEN [doubtful EXCEPT ![Path(f)] = {}]
              ELSE doubtful

Create(f) ==
  /\ pc[f] = "create" /\ Goto(f, Following("create"))
  /\ cached' = [cached EXCEPT ![Path(f)] = "empty"]
  /\ LET others == {g \in Rivals(f) : pc[g] = "write" /\ got[g] # got[f]} IN
       mixed' = IF others = {} THEN mixed \ {f} ELSE mixed \cup others \cup {f}
  /\ UNCHANGED <<tag, digest, exe, kind, ref, got, out, moves, fetches, hist>>

(* Two threads that write different images leave a mixture; a file is      *)
(* whole only when nobody is still writing it.                             *)
Write(f) ==
  /\ pc[f] = "write" /\ Goto(f, Following("write")) /\ Settle(f, "write")
  /\ \E c \in {got[f]} \cup IF f \in mixed \/ (\E g \in Rivals(f) : pc[g] = "write")
                           THEN {"torn"} ELSE {} :
       cached' = [cached EXCEPT ![Path(f)] = c]
  /\ UNCHANGED <<tag, digest, exe, kind, ref, got, out, mixed, moves, fetches, seen, quiet, spoiled>>

EraseDigest(f) ==
  /\ pc[f] = "erase" /\ Goto(f, Following("erase"))
  /\ digest' = [digest EXCEPT ![Path(f)] = "none"]
  /\ UNCHANGED <<tag, cached, exe, kind, ref, got, out, mixed, moves, fetches, hist>>

WriteDigest(f) ==
  /\ pc[f] = "sum" /\ Goto(f, Following("sum"))
  /\ digest' = [digest EXCEPT ![Path(f)] = got[f]] /\ Settle(f, "sum")
  /\ UNCHANGED <<tag, cached, exe, kind, ref, got, out, mixed, moves, fetches, seen, quiet, spoiled>>

-----------------------------------------------------------------------------
(* get_oci_bytes reads the cached file; par_from_path reads it as an       *)
(* archive, which a damaged one is not                                     *)

Open(f) ==
  /\ pc[f] = "open" /\ Goto(f, IF kind[f] = "actor" THEN "read" ELSE "load")
  /\ Gets(f, cached[Path(f)])
  /\ UNCHANGED <<tag, files, kind, ref, out, mixed, moves, fetches, hist>>

(* A file that is rewritten while it is read yields a mixture.             *)
Read(f) ==
  /\ pc[f] = "read" /\ Goto(f, "done")
  /\ \E c \in IF cached[Path(f)] = got[f] THEN {got[f]} ELSE {"torn", cached[Path(f)]} :
       out' = [out EXCEPT ![f] = c]
  /\ UNCHANGED <<tag, files, kind, ref, got, mixed, moves, fetches, hist>>

Load_Unchecked(f) ==
  /\ pc[f] = "load" /\ Goto(f, "exestat")
  /\ UNCHANGED <<tag, files, kind, ref, got, out, mixed, moves, fetches, hist>>
Load(f) ==
  /\ pc[f] = "load"
  /\ Goto(f, IF got[f] \in Blobs /\ cached[Path(f)] = got[f] THEN "exestat" ELSE "failed")
  /\ UNCHANGED <<tag, files, kind, ref, got, out, mixed, moves, fetches, hist>>

(* get_provider_bindle, get_actor_bindle: the invoice, and a provider's    *)
(* claims, which it names by digest.  The client's own cache holds what    *)
(* the server gave for the same id or digest, and so is left out.          *)
Invoice(f) ==
  /\ pc[f] = "invoice" /\ Gets(f, tag[ref[f]])
  /\ Goto(f, IF kind[f] = "provider bindle" THEN "exestat" ELSE "parcel")
  /\ UNCHANGED <<tag, files, kind, ref, out, mixed, moves, fetches, hist>>

(* The one parcel of an actor, by digest too.                              *)
Parcel(f) ==
  /\ pc[f] = "parcel" /\ Goto(f, "done") /\ out' = [out EXCEPT ![f] = got[f]]
  /\ UNCHANGED <<tag, files, kind, ref, got, mixed, moves, fetches, hist>>

-----------------------------------------------------------------------------
(* get_provider_file: the executable is written if there is no such file   *)

ExeStat(f) ==
  /\ pc[f] = "exestat"
  /\ Goto(f, IF exe[ExePath(got[f])] = "none" THEN "execreate" ELSE "start")
  /\ UNCHANGED <<tag, files, kind, ref, got, out, mixed, moves, fetches, hist>>

ExeCreate(f) ==
  /\ pc[f] = "execreate" /\ Goto(f, "exewrite")
  /\ exe' = [exe EXCEPT ![ExePath(got[f])] = "empty"]
  /\ UNCHANGED <<tag, cached, digest, kind, ref, got, out, mixed, moves, fetches, hist>>

(* With another writer at work the file is whole only when both are done.  *)
(* The stream of a bindle that holds no provider ends before any byte:     *)
(* an error, with the file left behind.                                    *)
ExeWrite(f) ==
  /\ pc[f] = "exewrite"
  /\ LET x == ExePath(got[f])
         others == ExeWriters(x) \ {f} IN
       \/ /\ Goto(f, "start") /\ UNCHANGED spoiled
          /\ \E c \in {got[f]} \cup IF others = {} THEN {} ELSE {"torn"} :
               exe' = [exe EXCEPT ![x] = c]
       \/ /\ kind[f] = "provider bindle" /\ Goto(f, "failed")
          /\ spoiled' = spoiled \cup {x} /\ UNCHANGED exe
  /\ UNCHANGED <<tag, cached, digest, kind, ref, got, out, mixed, moves, fetches, seen, quiet, doubtful>>

(* start_executable_provider: Port.open on the path.                       *)
Start(f) ==
  /\ pc[f] = "start" /\ Goto(f, "started")
  /\ out' = [out EXCEPT ![f] = exe[ExePath(got[f])]]
  /\ UNCHANGED <<tag, files, kind, ref, got, mixed, moves, fetches, hist>>

(* The registry does not answer, a write fails, the host process dies: a   *)
(* file that was being written may hold a part of it.                      *)
Fail(f) ==
  /\ pc[f] \in Steps /\ Goto(f, "failed")
  /\ \E c \in {"empty", "torn"} :
       /\ cached' = IF pc[f] = "write" THEN [cached EXCEPT ![Path(f)] = c] ELSE cached
       /\ exe' = IF pc[f] = "exewrite" THEN [exe EXCEPT ![ExePath(got[f])] = c] ELSE exe
  /\ spoiled' = IF pc[f] = "exewrite" THEN spoiled \cup {ExePath(got[f])} ELSE spoiled
  /\ Gets(f, "none") /\ seen' = [seen EXCEPT ![f] = {}] /\ quiet' = [quiet EXCEPT ![f] = TRUE]
  /\ UNCHANGED <<tag, digest, kind, ref, out, mixed, moves, fetches, doubtful>>

Idle == (\A f \in Fetchers : pc[f] \in Ended) /\ UNCHANGED vars

Step(f) ==
  \/ \E k \in Kinds, r \in Refs : Request(f, k, r)
  \/ Stat(f) \/ Manifest(f) \/ Compare(f) \/ Pull(f)
  \/ Create(f) \/ Write(f) \/ EraseDigest(f) \/ WriteDigest(f)
  \/ Open(f) \/ Read(f) \/ Load(f) \/ Invoice(f) \/ Parcel(f)
  \/ ExeStat(f) \/ ExeCreate(f) \/ ExeWrite(f) \/ Start(f) \/ Fail(f)

Next == (\E f \in Fetchers : Step(f)) \/ (\E r \in Refs : MoveTag(r)) \/ Idle

Spec == Init /\ [][Next]_vars

-----------------------------------------------------------------------------
(* Properties *)

Types ==
  /\ tag \in [Refs -> Blobs]
  /\ cached \in [Paths -> Content] /\ digest \in [Paths -> Blobs \cup {"none"}]
  /\ exe \in [ExePaths -> Content]
  /\ kind \in [Fetchers -> Kinds] /\ ref \in [Fetchers -> Refs]
  /\ pc \in [Fetchers -> Steps \cup Ended]
  /\ got \in [Fetchers -> Content] /\ out \in [Fetchers -> Content]
  /\ mixed \subseteq Fetchers /\ moves \in Nat /\ fetches \in Nat
  /\ seen \in [Fetchers -> SUBSET Blobs] /\ quiet \in [Fetchers -> BOOLEAN]
  /\ doubtful \in [Paths -> SUBSET Blobs] /\ spoiled \subseteq ExePaths

TypeOK == Types /\ \A f \in Fetchers : pc[f] \in Holding => got[f] \in Blobs

(* An actor's bytes are an image its reference named during the fetch,     *)
(* whatever failed or died in the middle of earlier ones, unless another   *)
(* fetch sets out to write the same file meanwhile, or the registry goes   *)
(* back to an image whose replacement was cut short (fetch_oci_path).      *)
UndisturbedFetch ==
  \A f \in Fetchers : pc[f] = "done" /\ quiet[f] => out[f] \in seen[f]

(* What names an archive of a provider: its revision if it has one, else   *)
(* the time it was issued.                                                 *)
Version(b) == IF Rev[b] > 0 THEN Rev[b] ELSE Iat[b]
SameVersion(b, c) == Subject[b] = Subject[c] /\ Version(b) % RevWidth = Version(c) % RevWidth

(* The executable that is about to be started is that of an archive of the *)
(* same provider and of the same version as the archive fetched, up to     *)
(* multiples of RevWidth.  It need not be the archive that was fetched:    *)
(* archives with one revision, or with the low bits of the issue time in   *)
(* common, share the file, and the first that was unpacked stays.  Nothing *)
(* is said while the file is being written, or once a writing of it was    *)
(* interrupted (get_provider_file, cache_path, revision_or_iat).           *)
RunsRequested ==
  \A f \in Fetchers :
    LET x == ExePath(got[f]) IN
      pc[f] = "start" /\ ExeWriters(x) = {} /\ x \notin spoiled =>
        exe[x] \in Blobs /\ SameVersion(exe[x], got[f])

(* lib.rs answers "No provider parcel found (or was empty)" for an empty   *)
(* executable; none is ever started.                                       *)
NoEmptyProvider == \A f \in Fetchers : pc[f] = "started" => out[f] # "empty"
=============================================================================
