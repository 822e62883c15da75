----------------------------- MODULE ModelStore -----------------------------
(***************************************************************************)
(* What the manager keeps about models on disk: the YAML manifest of a tag  *)
(* (manifest.py and its routes) and the content-addressed GGUF blobs        *)
(* (blob_store.py, filled by pulls and imports).                            *)
(*                                                                          *)
(* The routes are coroutines of one event loop.  write_manifest_atomic and  *)
(* the end of write_stream_atomic_async never await, so no other request    *)
(* runs between their system calls, but the process may be killed between   *)
(* any two, and the power may fail.  For that, each path has beside its     *)
(* content the set of contents a power failure may leave there: os.replace  *)
(* and unlink add to it, fsync of the directory and the kernel's own        *)
(* writeback make it the content.  A file replaced before its data was      *)
(* synced may come back torn.                                               *)
(*                                                                          *)
(* Two ghosts say what callers were told: `promise` for the tag, `promised` *)
(* for the blobs.  `ver` numbers the versions ever written of the manifest; *)
(* the program itself only has the revision.                                *)
(***************************************************************************)
EXTENDS Integers, FiniteSets

CONSTANTS Clients,    \* editors of the manifest
          Hashes,     \* contents of blobs, named by their sha256
          Pulls,      \* pull and import requests
          MaxVer,     \* bound on manifest versions written
          MaxRev,     \* bound on the revision a client may put into a new one
          MaxCrashes

ASSUME BoundsAssumption == MaxVer \in Nat /\ MaxRev \in Nat \ {0} /\ MaxCrashes \in Nat

Gone   == [rev |-> 0, ver |-> 0]     \* no file
Torn   == [rev |-> -1, ver |-> 0]    \* a file without its data
NoRead == [rev |-> 0, ver |-> 0]
NoPut  == [step |-> "none", by |-> {}, new |-> Gone, safe |-> FALSE]

VARIABLES
  file, fileLoss,     \* the manifest, and what a power failure may leave of it
  put,                \* the write_manifest_atomic under way, if any
  read,               \* read[c]: what the ETag client c holds was read from
  stale,              \* clients whose ETag predates a delete or a power failure
  promise,            \* what the last acknowledged PUT or DELETE left
  written,            \* number of versions so far
  blob, blobLoss,     \* blob[h]: the file at its final path, and likewise
  shardSafe,          \* hashes whose shard directory survives a power failure
  pull,               \* pull[p]: where the request is, and its content
  tmp,                \* tmp[p]: the request's file under incoming/
  promised,           \* hashes whose pull was acknowledged, and no delete since
  crashes

manifestVars == <<file, fileLoss, put, read, stale, promise, written>>
blobVars     == <<blob, blobLoss, shardSafe, pull, tmp, promised>>
vars         == <<manifestVars, blobVars, crashes>>

Init ==
  /\ file = Gone /\ fileLoss = {Gone} /\ put = NoPut
  /\ read = [c \in Clients |-> NoRead] /\ stale = {}
  /\ promise = [ver |-> 0, gone |-> TRUE] /\ written = 0
  /\ blob = [h \in Hashes |-> "absent"] /\ blobLoss = [h \in Hashes |-> {"absent"}]
  /\ shardSafe = {} /\ tmp = [p \in Pulls |-> "none"] /\ promised = {}
  /\ pull \in [Pulls -> [at : {"off"}, hash : Hashes]]
  /\ crashes = 0

\* The steps of a commit between which the event loop runs nothing else.
Committing == {"written", "synced", "placed", "durable"}
LoopFree   == put = NoPut /\ \A p \in Pulls : pull[p].at \notin Committing

-----------------------------------------------------------------------------
(* Manifests. *)

\* GET: the client learns the revision as an ETag.
GetManifest(c) ==
  /\ LoopFree /\ file.rev > 0
  /\ read' = [read EXCEPT ![c] = file]
  /\ stale' = stale \ {c}
  /\ UNCHANGED <<file, fileLoss, put, promise, written>>

\* An update needs If-Match and the current revision; a create needs nothing,
\* and an If-Match it is given is not looked at.
MayWriteWithoutHeader(etag) == file = Gone \/ etag \in {0, file.rev}  \* mutant

MayWrite(etag) == file = Gone \/ etag = file.rev

RevisionFromZero(own) == IF file = Gone THEN own - 1 ELSE file.rev + 1  \* mutant

NextRevision(own) == IF file = Gone THEN own ELSE file.rev + 1

\* PUT up to the temporary file.  `own` is the revision in the body; an ETag of
\* 0 stands for a missing header.
BeginPut(c, etag, own) ==
  /\ LoopFree /\ written < MaxVer /\ file # Torn
  /\ etag \in {0, read[c].rev}
  /\ MayWrite(etag)
  /\ put' = [step |-> "written", by |-> {c},
             new |-> [rev |-> NextRevision(own), ver |-> written + 1], safe |-> FALSE]
  /\ written' = written + 1
  /\ UNCHANGED <<file, fileLoss, read, stale, promise>>

SyncSkipped ==  \* mutant
  /\ put.step = "written"
  /\ put' = [put EXCEPT !.step = "synced"]
  /\ UNCHANGED <<file, fileLoss, read, stale, promise, written>>

SyncManifest ==
  /\ put.step = "written"
  /\ put' = [put EXCEPT !.step = "synced", !.safe = TRUE]
  /\ UNCHANGED <<file, fileLoss, read, stale, promise, written>>

ReplaceManifest ==
  /\ put.step = "synced"
  /\ file' = put.new
  /\ fileLoss' = fileLoss \cup {IF put.safe THEN put.new ELSE Torn}
  /\ put' = [put EXCEPT !.step = "placed"]
  /\ UNCHANGED <<read, stale, promise, written>>

SyncManifestDir ==
  /\ put.step = "placed"
  /\ fileLoss' = {file}
  /\ put' = [put EXCEPT !.step = "durable"]
  /\ UNCHANGED <<file, read, stale, promise, written>>

AnswerPut ==
  /\ put.step = "durable"
  /\ read' = [c \in Clients |-> IF c \in put.by THEN put.new ELSE read[c]]
  /\ stale' = stale \ put.by
  /\ promise' = [ver |-> put.new.ver, gone |-> FALSE]
  /\ put' = NoPut
  /\ UNCHANGED <<file, fileLoss, written>>

\* A system call fails: the temporary file is removed, the client is told, and
\* a rename that was made stays made.
PutFails ==
  /\ put.step \in {"written", "synced", "placed"}
  /\ put' = NoPut
  /\ UNCHANGED <<file, fileLoss, read, stale, promise, written>>

\* unlink, without fsync of the directory.
DeleteManifest ==
  /\ LoopFree /\ file # Gone
  /\ file' = Gone
  /\ fileLoss' = fileLoss \cup {Gone}
  /\ promise' = [promise EXCEPT !.gone = TRUE]
  /\ stale' = {c \in Clients : read[c] # NoRead}
  /\ UNCHANGED <<put, read, written>>

Manifests ==
  /\ \/ \E c \in Clients : GetManifest(c)
     \/ \E c \in Clients, own \in 1 .. MaxRev : \E etag \in {0, read[c].rev} :
          BeginPut(c, etag, own)
     \/ SyncManifest \/ ReplaceManifest \/ SyncManifestDir \/ AnswerPut \/ PutFails
     \/ DeleteManifest
  /\ UNCHANGED <<blobVars, crashes>>

-----------------------------------------------------------------------------
(* Blobs. *)

Step(p, at) == pull' = [pull EXCEPT ![p].at = at]

\* pull-url and pull-hf stream with an await for each chunk.
StartPull(p) ==
  /\ LoopFree /\ pull[p].at = "off"
  /\ Step(p, "streaming")
  /\ tmp' = [tmp EXCEPT ![p] = "cached"]
  /\ UNCHANGED <<blob, blobLoss, shardSafe, promised>>

\* import copies a local file without an await.
StartImport(p) ==
  /\ LoopFree /\ pull[p].at = "off"
  /\ Step(p, "written")
  /\ tmp' = [tmp EXCEPT ![p] = "cached"]
  /\ UNCHANGED <<blob, blobLoss, shardSafe, promised>>

EndStream(p) ==
  /\ LoopFree /\ pull[p].at = "streaming"
  /\ Step(p, "written")
  /\ UNCHANGED <<blob, blobLoss, shardSafe, tmp, promised>>

PullFailsUncleaned(p) ==  \* mutant
  /\ \/ LoopFree /\ pull[p].at = "streaming"
     \/ pull[p].at \in Committing
  /\ Step(p, "failed")
  /\ UNCHANGED <<blob, blobLoss, shardSafe, tmp, promised>>

\* Too large, another hash than expected, a bad redirect, an upstream or disk
\* error: the temporary file is unlinked.
PullFails(p) ==
  /\ \/ LoopFree /\ pull[p].at = "streaming"
     \/ pull[p].at \in Committing
  /\ Step(p, "failed")
  /\ tmp' = [tmp EXCEPT ![p] = "none"]
  /\ UNCHANGED <<blob, blobLoss, shardSafe, promised>>

BlobSyncSkipped(p) ==  \* mutant
  /\ pull[p].at = "written"
  /\ Step(p, "synced")
  /\ UNCHANGED <<blob, blobLoss, shardSafe, tmp, promised>>

SyncBlob(p) ==
  /\ pull[p].at = "written"
  /\ Step(p, "synced")
  /\ tmp' = [tmp EXCEPT ![p] = "synced"]
  /\ UNCHANGED <<blob, blobLoss, shardSafe, promised>>

\* os.replace to sha256/<ab>/<hash>, whatever is there already.
PlaceBlob(p) ==
  LET h == pull[p].hash IN
  /\ pull[p].at = "synced"
  /\ blob' = [blob EXCEPT ![h] = "writable"]
  /\ blobLoss' = [blobLoss EXCEPT ![h] = @ \cup {IF tmp[p] = "synced" THEN "writable" ELSE "torn"}]
  /\ tmp' = [tmp EXCEPT ![p] = "none"]
  /\ Step(p, "placed")
  /\ UNCHANGED <<shardSafe, promised>>

\* fsync of the shard directory.  The entry of a new shard in its own parent is
\* not synced, so it may still vanish with everything in it.
SyncShard(p) ==
  LET h == pull[p].hash IN
  /\ pull[p].at = "placed"
  /\ blobLoss' = [blobLoss EXCEPT ![h] = {blob[h]} \cup (IF h \in shardSafe THEN {} ELSE {"absent"})]
  /\ Step(p, "durable")
  /\ UNCHANGED <<blob, shardSafe, tmp, promised>>

\* chmod 0o400, and the answer.
SealBlob(p) ==
  LET h == pull[p].hash IN
  /\ pull[p].at = "durable"
  /\ blob' = [blob EXCEPT ![h] = "readonly"]
  /\ blobLoss' = [blobLoss EXCEPT ![h] = @ \cup {"readonly"}]
  /\ promised' = promised \cup {h}
  /\ Step(p, "done")
  /\ UNCHANGED <<shardSafe, tmp>>

\* DELETE /api/delete: no manifest or sidecar is asked.
DeleteBlob(h) ==
  /\ LoopFree /\ blob[h] # "absent"
  /\ blob' = [blob EXCEPT ![h] = "absent"]
  /\ blobLoss' = [blobLoss EXCEPT ![h] = @ \cup {"absent"}]
  /\ promised' = promised \ {h}
  /\ UNCHANGED <<shardSafe, pull, tmp>>

Blobs ==
  /\ \/ \E p \in Pulls : \/ StartPull(p) \/ StartImport(p) \/ EndStream(p) \/ PullFails(p)
                         \/ SyncBlob(p) \/ PlaceBlob(p) \/ SyncShard(p) \/ SealBlob(p)
     \/ \E h \in Hashes : DeleteBlob(h)
  /\ UNCHANGED <<manifestVars, crashes>>

-----------------------------------------------------------------------------
(* The process is killed, the power fails, the kernel writes its cache back. *)

Killed(p) == pull[p].at \in {"streaming"} \cup Committing

\* Nothing is cleaned up at the next start: gc_stale_incoming has no caller.
Crash ==
  /\ crashes < MaxCrashes
  /\ put' = NoPut
  /\ pull' = [p \in Pulls |-> IF Killed(p) THEN [pull[p] EXCEPT !.at = "killed"] ELSE pull[p]]
  /\ crashes' = crashes + 1
  /\ UNCHANGED <<read, promise, written, promised>>

KillProcess ==
  /\ Crash
  /\ UNCHANGED <<file, fileLoss, stale, blob, blobLoss, shardSafe, tmp>>

PowerFailure ==
  /\ Crash
  /\ file' \in fileLoss /\ fileLoss' = {file'}
  /\ stale' = IF file' = file THEN stale ELSE {c \in Clients : read[c] # NoRead}
  /\ blob' \in [Hashes -> UNION {blobLoss[h] : h \in Hashes}]
  /\ \A h \in Hashes : blob'[h] \in blobLoss[h]
  /\ blobLoss' = [h \in Hashes |-> {blob'[h]}]
  /\ shardSafe' = shardSafe \cup {h \in Hashes : blob'[h] # "absent"}
  /\ \E lost \in SUBSET Pulls : tmp' = [p \in Pulls |-> IF p \in lost THEN "none" ELSE tmp[p]]

Writeback ==
  /\ fileLoss' = {file}
  /\ blobLoss' = [h \in Hashes |-> {blob[h]}]
  /\ shardSafe' = shardSafe \cup {h \in Hashes : blob[h] # "absent"}
  /\ UNCHANGED <<file, put, read, stale, promise, written, blob, pull, tmp, promised, crashes>>

Next == Manifests \/ Blobs \/ KillProcess \/ PowerFailure \/ Writeback

Spec == Init /\ [][Next]_vars

-----------------------------------------------------------------------------
(* Properties. *)

Versions == [rev : 1 .. MaxRev + MaxVer, ver : 1 .. MaxVer]
Files    == {"absent", "writable", "readonly", "torn"}

\* Every variable has its type; a manifest's revision is at least 1.
TypeOK ==
  /\ file \in Versions \cup {Gone, Torn}
  /\ fileLoss \in SUBSET (Versions \cup {Gone, Torn})
  /\ put \in [step : {"none", "written", "synced", "placed", "durable"}, by : SUBSET Clients,
              new : Versions \cup {Gone}, safe : BOOLEAN]
  /\ read \in [Clients -> Versions \cup {NoRead}] /\ stale \in SUBSET Clients
  /\ promise \in [ver : 0 .. MaxVer, gone : BOOLEAN] /\ written \in 0 .. MaxVer
  /\ blob \in [Hashes -> Files] /\ blobLoss \in [Hashes -> SUBSET Files]
  /\ shardSafe \in SUBSET Hashes /\ promised \in SUBSET Hashes
  /\ pull \in [Pulls -> [at : {"off", "streaming", "failed", "killed", "done"} \cup Committing,
                         hash : Hashes]]
  /\ tmp \in [Pulls -> {"none", "cached", "synced"}]
  /\ crashes \in 0 .. MaxCrashes

\* If-Match prevents lost updates (docs/ARCHITECTURE.md:275): a PUT replaces the
\* very version its client had read, unless the tag was deleted, or rolled back
\* by a power failure, after that read.  In those two cases the revision starts
\* again and an old ETag can match a version its client never saw.
NoLostUpdate ==
  [][ \A c \in Clients :
        (put.by = {c} /\ file' = put.new /\ file \notin {Gone, file'}) =>
          (read[c].ver = file.ver \/ c \in stale) ]_<<file, put>>

\* No crash between two system calls of a write, or power failure after it, takes
\* back an acknowledged PUT or leaves a torn file; an acknowledged DELETE may be
\* taken back, since its directory is not synced.
PutSurvives ==
  \A f \in fileLoss \cup {file} :
    /\ f # Torn
    /\ IF f = Gone THEN promise.gone ELSE f.ver >= promise.ver

\* A file at a blob's final path is whole at any time and after any crash, and one
\* whose pull was answered stays there, except that the very first blob of a
\* shard can vanish with the shard's directory in a power failure.
BlobSurvives ==
  \A h \in Hashes :
    /\ "torn" \notin blobLoss[h] \cup {blob[h]}
    /\ h \in promised \cap shardSafe => "absent" \notin blobLoss[h] \cup {blob[h]}

\* Only a running request, or one killed with its process, has a file under
\* incoming/: every failure in between removes it.
NoStrayFile ==
  \A p \in Pulls : tmp[p] # "none" => pull[p].at \in {"streaming", "written", "synced", "killed"}
=============================================================================
