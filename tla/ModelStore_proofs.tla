-------------------------- MODULE ModelStore_proofs --------------------------
(***************************************************************************)
(* Proofs about the model store, for any number of editors, contents, pulls *)
(* and crashes: its types, that acknowledged writes survive, that no update *)
(* is lost, and that no failed pull leaves a file.                          *)
(*                                                                         *)
(* Manifest and blobs share no variable, so each has an inductive invariant *)
(* of its own.  That of the manifest says that revisions grow with versions *)
(* and that the version being written is newer than all that may be found   *)
(* after a power failure; that of the blobs says how far along its commit   *)
(* the file of a pull is.                                                   *)
(***************************************************************************)
EXTENDS ModelStore, TLAPS

\* The versions written so far.  Each is one revision above the one it
\* replaced, or was given its revision by the client that created the tag.
Known == {v \in Versions : v.ver <= written /\ v.rev < MaxRev + v.ver}

Unplaced == {"written", "synced"}

ManifestTypes ==
  /\ file \in Known \cup {Gone}
  /\ fileLoss \in SUBSET (Known \cup {Gone})
  /\ put \in [step : {"none", "written", "synced", "placed", "durable"}, by : SUBSET Clients,
              new : Known \cup {Gone}, safe : BOOLEAN]
  /\ read \in [Clients -> Known \cup {NoRead}] /\ stale \in SUBSET Clients
  /\ promise \in [ver : 0 .. MaxVer, gone : BOOLEAN] /\ written \in 0 .. MaxVer

\* The write under way has the newest version, on top of the current one; it is
\* synced before it is placed, and alone in its directory before it is answered.
WriteOrdered ==
  /\ put.step = "none" => put = NoPut
  /\ put.step # "none" => put.new \in Known /\ put.new.ver = written
  /\ put.step \in Unplaced =>
       /\ \A f \in fileLoss \cup {file} : f.ver < put.new.ver
       /\ promise.ver < put.new.ver
       /\ file # Gone => put.new.rev = file.rev + 1
  /\ put.step = "synced" => put.safe
  /\ put.step \in {"placed", "durable"} => file = put.new
  /\ put.step = "durable" => fileLoss = {file}
  /\ promise.ver <= written

\* What a client has read is the current version or an ancestor of it, unless
\* the tag was deleted or rolled back since; and who writes read what he replaces.
ReadsOrdered ==
  /\ \A c \in Clients \ stale : read[c] # NoRead =>
       /\ file # Gone /\ read[c].rev <= file.rev
       /\ read[c].rev = file.rev => read[c].ver = file.ver
  /\ put.step \in Unplaced /\ file # Gone =>
       \A c \in Clients : put.by = {c} => c \in stale \/ read[c].ver = file.ver

ManifestInv == ManifestTypes /\ WriteOrdered /\ ReadsOrdered /\ PutSurvives

\* The blobs and the files of their pulls.
BlobTypes ==
  /\ blob \in [Hashes -> Files] /\ blobLoss \in [Hashes -> SUBSET Files]
  /\ shardSafe \in SUBSET Hashes /\ promised \in SUBSET Hashes
  /\ pull \in [Pulls -> [at : {"off", "streaming", "failed", "killed", "done"} \cup Committing,
                         hash : Hashes]]
  /\ tmp \in [Pulls -> {"none", "cached", "synced"}]

\* A pull places a synced file; once placed the file stays until the answer, and
\* once the shard is synced no power failure takes it out of a lasting shard.
CommitOrdered ==
  \A p \in Pulls :
    LET h == pull[p].hash IN
    /\ pull[p].at = "synced" => tmp[p] = "synced"
    /\ pull[p].at \in {"placed", "durable"} => blob[h] # "absent"
    /\ pull[p].at = "durable" /\ h \in shardSafe => "absent" \notin blobLoss[h]

BlobInv == BlobTypes /\ CommitOrdered /\ BlobSurvives /\ NoStrayFile

CrashesTyped == crashes \in 0 .. MaxCrashes

-----------------------------------------------------------------------------
(* The manifest. *)

LEMMA ManifestInit == Init => ManifestInv
BY BoundsAssumption
   DEF Init, ManifestInv, ManifestTypes, WriteOrdered, ReadsOrdered, PutSurvives, Known,
       Versions, Gone, NoRead, NoPut, Torn, Unplaced

\* What every step of the manifest starts from.
LEMMA ManifestFacts ==
    ASSUME ManifestInv
    PROVE  /\ MaxVer \in Nat /\ MaxRev \in Nat \ {0}
           /\ written \in 0 .. MaxVer /\ promise.ver \in 0 .. MaxVer
           /\ \A v \in Known : /\ v.rev \in Nat \ {0} /\ v.ver \in Nat \ {0}
                               /\ v.ver <= written /\ v.rev < MaxRev + v.ver
                               /\ v # Gone /\ v # Torn
BY BoundsAssumption DEF ManifestInv, ManifestTypes, Known, Versions, Gone, Torn

LEMMA GetKeeps ==
    ASSUME ManifestInv, NEW c \in Clients, GetManifest(c)
    PROVE  ManifestInv'
<1>1. put.step = "none" /\ put = NoPut /\ put' = put
  BY DEF GetManifest, LoopFree, NoPut
<1>2. file \in Known
  BY DEF GetManifest, ManifestInv, ManifestTypes, Gone
<1>3. ManifestTypes'
  BY <1>2 DEF GetManifest, ManifestInv, ManifestTypes, Known
<1>4. WriteOrdered'
  BY DEF GetManifest, ManifestInv, WriteOrdered, Known
<1>5. ReadsOrdered'
  <2>1. \A d \in Clients \ stale' : d = c \/ (d \in Clients \ stale /\ read'[d] = read[d])
    BY DEF GetManifest, ManifestInv, ManifestTypes
  <2>2. read'[c] = file /\ file # Gone /\ file.rev <= file.rev
    BY <1>2, ManifestFacts DEF GetManifest, ManifestInv, ManifestTypes
  <2> QED BY <1>1, <2>1, <2>2 DEF GetManifest, ManifestInv, ReadsOrdered, Unplaced
<1>6. PutSurvives'
  BY DEF GetManifest, ManifestInv, PutSurvives
<1> QED BY <1>3, <1>4, <1>5, <1>6 DEF ManifestInv

LEMMA BeginPutKeeps ==
    ASSUME ManifestInv, NEW c \in Clients, NEW own \in 1 .. MaxRev,
           NEW etag \in {0, read[c].rev}, BeginPut(c, etag, own)
    PROVE  ManifestInv'
<1> DEFINE new == [rev |-> NextRevision(own), ver |-> written + 1]
<1>1. /\ put' = [step |-> "written", by |-> {c}, new |-> new, safe |-> FALSE]
      /\ written' = written + 1 /\ written < MaxVer
      /\ UNCHANGED <<file, fileLoss, read, stale, promise>>
  BY DEF BeginPut
<1>2. /\ NextRevision(own) \in 1 .. MaxRev + MaxVer
      /\ NextRevision(own) < MaxRev + written + 1
      /\ file # Gone => NextRevision(own) = file.rev + 1
  BY <1>1, ManifestFacts DEF ManifestInv, ManifestTypes, NextRevision
<1>3. Known \subseteq Known'
  BY <1>1, ManifestFacts DEF Known, Versions
<1>4. new \in Known'
  BY <1>1, <1>2, ManifestFacts DEF Known, Versions
<1>5. ManifestTypes'
  <2>1. put' \in [step : {"none", "written", "synced", "placed", "durable"}, by : SUBSET Clients,
                  new : (Known \cup {Gone})', safe : BOOLEAN]
    BY <1>1, <1>4
  <2>2. written' \in 0 .. MaxVer
    BY <1>1, ManifestFacts
  <2> QED BY <1>1, <1>3, <2>1, <2>2 DEF ManifestInv, ManifestTypes
<1>6. WriteOrdered'
  <2>1. \A f \in fileLoss \cup {file} : f.ver < written + 1
    BY ManifestFacts DEF ManifestInv, ManifestTypes, Gone
  <2>2. promise.ver < written + 1 /\ promise.ver <= written + 1
    BY ManifestFacts DEF ManifestInv, WriteOrdered
  <2> QED BY <1>1, <1>2, <1>4, <2>1, <2>2 DEF WriteOrdered, Unplaced
<1>7. ReadsOrdered'
  <2>1. ASSUME file # Gone, c \notin stale PROVE read[c].ver = file.ver
    <3>1. etag = file.rev /\ file \in Known
      BY <2>1 DEF BeginPut, MayWrite, ManifestInv, ManifestTypes
    <3>2. read[c].rev = file.rev /\ read[c] # NoRead
      BY <3>1, ManifestFacts DEF NoRead
    <3> QED BY <2>1, <3>2 DEF ManifestInv, ReadsOrdered
  <2>2. \A d \in Clients : put'.by = {d} => d = c
    BY <1>1
  <2> QED BY <1>1, <2>1, <2>2 DEF ManifestInv, ReadsOrdered
<1>8. PutSurvives'
  BY <1>1 DEF ManifestInv, PutSurvives
<1> QED BY <1>5, <1>6, <1>7, <1>8 DEF ManifestInv

LEMMA CommitKeeps ==
    ASSUME ManifestInv,
           SyncManifest \/ ReplaceManifest \/ SyncManifestDir \/ AnswerPut \/ PutFails
    PROVE  ManifestInv'
<1>0. put.step # "none" => put.new \in Known /\ put.new.ver = written /\ put.new # Gone
  BY ManifestFacts DEF ManifestInv, WriteOrdered
<1>1. CASE SyncManifest
  BY <1>0, <1>1
     DEF SyncManifest, ManifestInv, ManifestTypes, WriteOrdered, ReadsOrdered, PutSurvives,
         Known, Unplaced
<1>2. CASE ReplaceManifest
  <2>1. /\ put.step = "synced" /\ put.safe /\ put.new \in Known /\ put.step \in Unplaced
        /\ file' = put.new /\ fileLoss' = fileLoss \cup {put.new}
        /\ put' = [put EXCEPT !.step = "placed"]
        /\ UNCHANGED <<read, stale, promise, written>>
    BY <1>0, <1>2 DEF ReplaceManifest, ManifestInv, WriteOrdered, Unplaced
  <2>2. ManifestTypes'
    BY <2>1 DEF ManifestInv, ManifestTypes, Known
  <2>3. WriteOrdered'
    BY <2>1, <1>0 DEF ManifestInv, ManifestTypes, WriteOrdered, Known, Unplaced
  <2>4. ReadsOrdered'
    <3>1. ASSUME NEW c \in Clients \ stale, read[c] # NoRead
          PROVE  file' # Gone /\ read[c].rev < file'.rev
      <4>1. file # Gone /\ read[c].rev <= file.rev /\ put.new.rev = file.rev + 1
        BY <2>1, <3>1 DEF ManifestInv, ReadsOrdered, WriteOrdered
      <4>2. file \in Known /\ read[c] \in Known
        BY <3>1, <4>1 DEF ManifestInv, ManifestTypes
      <4> QED BY <1>0, <2>1, <4>1, <4>2, ManifestFacts
    <3>2. ASSUME NEW c \in Clients \ stale, read[c] # NoRead
          PROVE  file' # Gone /\ read[c].rev <= file'.rev /\ read[c].rev # file'.rev
      <4>1. read[c] \in Known /\ file' \in Known
        BY <2>1, <3>2 DEF ManifestInv, ManifestTypes
      <4> QED BY <3>1, <3>2, <4>1, ManifestFacts
    <3>3. put'.step \notin Unplaced
      BY <2>1 DEF Unplaced, ManifestInv, ManifestTypes
    <3> QED BY <2>1, <3>2, <3>3 DEF ReadsOrdered
  <2>5. PutSurvives'
    <3>1. put.new # Torn /\ put.new # Gone /\ put.new.ver >= promise.ver
      BY <2>1, ManifestFacts DEF ManifestInv, WriteOrdered
    <3> QED BY <2>1, <3>1 DEF ManifestInv, PutSurvives
  <2> QED BY <2>2, <2>3, <2>4, <2>5 DEF ManifestInv
<1>3. CASE SyncManifestDir
  BY <1>0, <1>3
     DEF SyncManifestDir, ManifestInv, ManifestTypes, WriteOrdered, ReadsOrdered, PutSurvives,
         Known, Unplaced
<1>4. CASE AnswerPut
  <2>1. /\ put.new \in Known /\ file = put.new /\ fileLoss = {file} /\ put' = NoPut
        /\ promise' = [ver |-> file.ver, gone |-> FALSE]
        /\ read' = [c \in Clients |-> IF c \in put.by THEN file ELSE read[c]]
        /\ stale' = stale \ put.by
        /\ UNCHANGED <<file, fileLoss, written>>
    BY <1>0, <1>4 DEF AnswerPut, ManifestInv, WriteOrdered
  <2>2. ManifestTypes'
    <3>1. put' \in [step : {"none", "written", "synced", "placed", "durable"}, by : SUBSET Clients,
                    new : Known \cup {Gone}, safe : BOOLEAN]
      BY <2>1 DEF NoPut
    <3>2. promise' \in [ver : 0 .. MaxVer, gone : BOOLEAN]
      BY <2>1, ManifestFacts
    <3>3. Known' = Known
      BY <2>1 DEF Known
    <3> QED BY <2>1, <3>1, <3>2, <3>3 DEF ManifestInv, ManifestTypes
  <2>3. WriteOrdered'
    BY <2>1, ManifestFacts DEF WriteOrdered, NoPut, Unplaced
  <2>4. ReadsOrdered'
    <3>1. file.rev <= file.rev /\ file # Gone
      BY <2>1, ManifestFacts
    <3>2. \A c \in Clients \ stale' : read'[c] = file
                                     \/ (c \in Clients \ stale /\ read'[c] = read[c])
      BY <2>1
    <3>3. put'.step \notin Unplaced
      BY <2>1 DEF NoPut, Unplaced
    <3> QED BY <2>1, <3>1, <3>2, <3>3 DEF ManifestInv, ReadsOrdered
  <2>5. PutSurvives'
    BY <2>1, ManifestFacts DEF PutSurvives
  <2> QED BY <2>2, <2>3, <2>4, <2>5 DEF ManifestInv
<1>5. CASE PutFails
  BY <1>5
     DEF PutFails, NoPut, ManifestInv, ManifestTypes, WriteOrdered, ReadsOrdered, PutSurvives,
         Known, Unplaced
<1> QED BY <1>1, <1>2, <1>3, <1>4, <1>5

LEMMA DeleteKeeps ==
    ASSUME ManifestInv, DeleteManifest
    PROVE  ManifestInv'
<1>1. /\ put = NoPut /\ put' = NoPut /\ file' = Gone /\ fileLoss' = fileLoss \cup {Gone}
      /\ promise' = [promise EXCEPT !.gone = TRUE]
      /\ stale' = {c \in Clients : read[c] # NoRead}
      /\ UNCHANGED <<read, written>>
  BY DEF DeleteManifest, LoopFree
<1>2. ManifestTypes'
  BY <1>1 DEF ManifestInv, ManifestTypes, Known
<1>3. WriteOrdered'
  BY <1>1 DEF ManifestInv, ManifestTypes, WriteOrdered, NoPut, Unplaced
<1>4. ReadsOrdered'
  BY <1>1 DEF ReadsOrdered, NoPut, Unplaced
<1>5. PutSurvives'
  BY <1>1 DEF ManifestInv, ManifestTypes, PutSurvives, Gone, Torn
<1> QED BY <1>2, <1>3, <1>4, <1>5 DEF ManifestInv

LEMMA CrashKeeps ==
    ASSUME ManifestInv, KillProcess \/ PowerFailure \/ Writeback
    PROVE  ManifestInv'
<1>1. CASE KillProcess
  BY <1>1
     DEF KillProcess, Crash, NoPut, ManifestInv, ManifestTypes, WriteOrdered, ReadsOrdered,
         PutSurvives, Known, Unplaced
<1>2. CASE PowerFailure
  <2>1. /\ put' = NoPut /\ file' \in fileLoss /\ fileLoss' = {file'}
        /\ stale' = IF file' = file THEN stale ELSE {c \in Clients : read[c] # NoRead}
        /\ UNCHANGED <<read, promise, written>>
    BY <1>2 DEF PowerFailure, Crash
  <2>2. ManifestTypes'
    BY <2>1 DEF ManifestInv, ManifestTypes, NoPut, Known
  <2>3. WriteOrdered'
    BY <2>1 DEF ManifestInv, WriteOrdered, NoPut, Unplaced
  <2>4. ReadsOrdered'
    BY <2>1 DEF ManifestInv, ReadsOrdered, NoPut, Unplaced
  <2>5. PutSurvives'
    BY <2>1 DEF ManifestInv, PutSurvives
  <2> QED BY <2>2, <2>3, <2>4, <2>5 DEF ManifestInv
<1>3. CASE Writeback
  BY <1>3
     DEF Writeback, ManifestInv, ManifestTypes, WriteOrdered, ReadsOrdered, PutSurvives,
         Known, Unplaced
<1> QED BY <1>1, <1>2, <1>3

LEMMA ManifestStep == ManifestInv /\ [Next]_vars => ManifestInv'
<1> SUFFICES ASSUME ManifestInv, [Next]_vars PROVE ManifestInv'
  OBVIOUS
<1>1. CASE Manifests
  BY <1>1, GetKeeps, BeginPutKeeps, CommitKeeps, DeleteKeeps DEF Manifests
<1>2. CASE UNCHANGED manifestVars
  BY <1>2
     DEF manifestVars, ManifestInv, ManifestTypes, WriteOrdered, ReadsOrdered, PutSurvives, Known
<1>3. CASE KillProcess \/ PowerFailure \/ Writeback
  BY <1>3, CrashKeeps
<1> QED BY <1>1, <1>2, <1>3 DEF Next, Blobs, vars

-----------------------------------------------------------------------------
(* The blobs. *)

LEMMA BlobInit == Init => BlobInv
BY DEF Init, BlobInv, BlobTypes, CommitOrdered, BlobSurvives, NoStrayFile, Files

\* A pull on its way to the disk: every step is of one pull p.
LEMMA PullKeeps ==
    ASSUME BlobInv, NEW p \in Pulls,
           StartPull(p) \/ StartImport(p) \/ EndStream(p) \/ PullFails(p) \/ SyncBlob(p)
    PROVE  BlobInv'
<1>1. /\ pull[p].hash \in Hashes
      /\ \A q \in Pulls : pull'[q].hash = pull[q].hash
      /\ \A q \in Pulls \ {p} : pull'[q] = pull[q] /\ tmp'[q] = tmp[q]
      /\ UNCHANGED <<blob, blobLoss, shardSafe, promised>>
  BY DEF BlobInv, BlobTypes, StartPull, StartImport, EndStream, PullFails, SyncBlob, Step
<1>2. /\ pull'[p].at \in {"streaming", "written", "failed", "synced"}
      /\ pull'[p].at = "synced" => tmp'[p] = "synced"
      /\ tmp'[p] # "none" => pull'[p].at \in {"streaming", "written", "synced"}
  BY DEF BlobInv, BlobTypes, NoStrayFile, StartPull, StartImport, EndStream, PullFails, SyncBlob,
         Step
<1>3. BlobTypes'
  BY DEF BlobInv, BlobTypes, StartPull, StartImport, EndStream, PullFails, SyncBlob, Step,
         Committing
<1>4. CommitOrdered'
  BY <1>1, <1>2 DEF BlobInv, CommitOrdered
<1>5. BlobSurvives'
  BY <1>1 DEF BlobInv, BlobSurvives
<1>6. NoStrayFile'
  BY <1>1, <1>2 DEF BlobInv, NoStrayFile
<1> QED BY <1>3, <1>4, <1>5, <1>6 DEF BlobInv

LEMMA PlaceKeeps ==
    ASSUME BlobInv, NEW p \in Pulls, PlaceBlob(p)
    PROVE  BlobInv'
<1> DEFINE h == pull[p].hash
<1>1. /\ h \in Hashes /\ tmp[p] = "synced"
      /\ blob' = [blob EXCEPT ![h] = "writable"]
      /\ blobLoss' = [blobLoss EXCEPT ![h] = @ \cup {"writable"}]
      /\ tmp' = [tmp EXCEPT ![p] = "none"]
      /\ pull' = [pull EXCEPT ![p].at = "placed"]
      /\ UNCHANGED <<shardSafe, promised>>
  BY DEF PlaceBlob, Step, BlobInv, BlobTypes, CommitOrdered
<1>2. /\ \A g \in Hashes : blob'[g] = blob[g] \/ blob'[g] = "writable"
      /\ \A g \in Hashes : blobLoss'[g] \subseteq blobLoss[g] \cup {"writable"}
      /\ blob'[h] = "writable"
  BY <1>1 DEF BlobInv, BlobTypes
<1>3. /\ \A q \in Pulls : pull'[q].hash = pull[q].hash
      /\ \A q \in Pulls \ {p} : pull'[q] = pull[q] /\ tmp'[q] = tmp[q]
      /\ pull'[p].at = "placed" /\ tmp'[p] = "none"
  BY <1>1 DEF BlobInv, BlobTypes
<1>4. BlobTypes'
  BY <1>1 DEF BlobInv, BlobTypes, Files, Committing
<1>5. CommitOrdered'
  <2>1. \A q \in Pulls : pull[q].hash \in Hashes
    BY DEF BlobInv, BlobTypes
  <2> QED BY <1>1, <1>2, <1>3, <2>1 DEF BlobInv, CommitOrdered
<1>6. BlobSurvives'
  BY <1>1, <1>2 DEF BlobInv, BlobSurvives
<1>7. NoStrayFile'
  BY <1>3 DEF BlobInv, NoStrayFile
<1> QED BY <1>4, <1>5, <1>6, <1>7 DEF BlobInv

LEMMA SyncShardKeeps ==
    ASSUME BlobInv, NEW p \in Pulls, SyncShard(p)
    PROVE  BlobInv'
<1> DEFINE h == pull[p].hash
           kept == {blob[h]} \cup (IF h \in shardSafe THEN {} ELSE {"absent"})
<1>1. /\ h \in Hashes /\ pull[p].at = "placed" /\ blob[h] # "absent"
      /\ blobLoss' = [blobLoss EXCEPT ![h] = kept]
      /\ pull' = [pull EXCEPT ![p].at = "durable"]
      /\ UNCHANGED <<blob, shardSafe, tmp, promised>>
  BY DEF SyncShard, Step, BlobInv, BlobTypes, CommitOrdered
<1>2. /\ \A x \in blobLoss'[h] : x = blob[h] \/ (x = "absent" /\ h \notin shardSafe)
      /\ \A g \in Hashes \ {h} : blobLoss'[g] = blobLoss[g]
  BY <1>1 DEF BlobInv, BlobTypes
<1>3. /\ \A q \in Pulls : pull'[q].hash = pull[q].hash /\ pull[q].hash \in Hashes
      /\ \A q \in Pulls \ {p} : pull'[q] = pull[q]
      /\ pull'[p].at = "durable"
  BY <1>1 DEF BlobInv, BlobTypes
<1>4. BlobTypes'
  BY <1>1 DEF BlobInv, BlobTypes, Files, Committing
<1>5. CommitOrdered'
  <2>1. ASSUME NEW q \in Pulls, pull'[q].at = "durable", pull[q].hash \in shardSafe
        PROVE  "absent" \notin blobLoss'[pull[q].hash]
    <3>1. CASE pull[q].hash = h
      BY <1>1, <1>2, <2>1, <3>1
    <3>2. CASE pull[q].hash # h
      BY <1>2, <1>3, <2>1, <3>2 DEF BlobInv, CommitOrdered
    <3> QED BY <3>1, <3>2
  <2>2. ASSUME NEW q \in Pulls
        PROVE  /\ pull'[q].at = "synced" => tmp'[q] = "synced"
               /\ pull'[q].at \in {"placed", "durable"} => blob'[pull[q].hash] # "absent"
    BY <1>1, <1>3 DEF BlobInv, CommitOrdered
  <2> QED BY <1>1, <1>3, <2>1, <2>2 DEF CommitOrdered
<1>6. BlobSurvives'
  <2>1. ASSUME NEW g \in Hashes
        PROVE  /\ "torn" \notin blobLoss'[g] \cup {blob'[g]}
               /\ g \in promised' \cap shardSafe' => "absent" \notin blobLoss'[g] \cup {blob'[g]}
    <3>1. CASE g = h
      <4>1. blob[h] # "torn"
        BY <1>1 DEF BlobInv, BlobSurvives
      <4>2. \A x \in blobLoss'[g] \cup {blob'[g]} :
               x = blob[h] \/ (x = "absent" /\ g \notin shardSafe')
        BY <1>1, <1>2, <3>1
      <4> QED BY <1>1, <4>1, <4>2
    <3>2. CASE g # h
      BY <1>1, <1>2, <3>2 DEF BlobInv, BlobSurvives
    <3> QED BY <3>1, <3>2
  <2> QED BY <2>1 DEF BlobSurvives
<1>7. NoStrayFile'
  <2>1. tmp[p] = "none"
    BY <1>1 DEF BlobInv, NoStrayFile
  <2> QED BY <1>1, <1>3, <2>1 DEF BlobInv, NoStrayFile
<1> QED BY <1>4, <1>5, <1>6, <1>7 DEF BlobInv

LEMMA SealKeeps ==
    ASSUME BlobInv, NEW p \in Pulls, SealBlob(p)
    PROVE  BlobInv'
<1> DEFINE h == pull[p].hash
<1>1. /\ h \in Hashes /\ pull[p].at = "durable" /\ blob[h] # "absent"
      /\ h \in shardSafe => "absent" \notin blobLoss[h]
      /\ blob' = [blob EXCEPT ![h] = "readonly"]
      /\ blobLoss' = [blobLoss EXCEPT ![h] = @ \cup {"readonly"}]
      /\ promised' = promised \cup {h}
      /\ pull' = [pull EXCEPT ![p].at = "done"]
      /\ UNCHANGED <<shardSafe, tmp>>
  BY DEF SealBlob, Step, BlobInv, BlobTypes, CommitOrdered
<1>2. /\ \A g \in Hashes : blob'[g] = blob[g] \/ blob'[g] = "readonly"
      /\ \A g \in Hashes : blobLoss'[g] \subseteq blobLoss[g] \cup {"readonly"}
      /\ blob'[h] = "readonly"
  BY <1>1 DEF BlobInv, BlobTypes
<1>3. /\ \A q \in Pulls : pull'[q].hash = pull[q].hash /\ pull[q].hash \in Hashes
      /\ \A q \in Pulls \ {p} : pull'[q] = pull[q]
      /\ pull'[p].at = "done" /\ tmp[p] = "none"
  BY <1>1 DEF BlobInv, BlobTypes, NoStrayFile
<1>4. BlobTypes'
  BY <1>1 DEF BlobInv, BlobTypes, Files, Committing
<1>5. CommitOrdered'
  BY <1>1, <1>2, <1>3 DEF BlobInv, CommitOrdered
<1>6. BlobSurvives'
  BY <1>1, <1>2 DEF BlobInv, BlobSurvives
<1>7. NoStrayFile'
  BY <1>1, <1>3 DEF BlobInv, NoStrayFile
<1> QED BY <1>4, <1>5, <1>6, <1>7 DEF BlobInv

\* A delete runs only while no pull is committing.
LEMMA DeleteBlobKeeps ==
    ASSUME BlobInv, NEW h \in Hashes, DeleteBlob(h)
    PROVE  BlobInv'
<1>1. /\ \A p \in Pulls : pull[p].at \notin Committing
      /\ blob' = [blob EXCEPT ![h] = "absent"]
      /\ blobLoss' = [blobLoss EXCEPT ![h] = @ \cup {"absent"}]
      /\ promised' = promised \ {h}
      /\ UNCHANGED <<shardSafe, pull, tmp>>
  BY DEF DeleteBlob, LoopFree
<1>2. BlobTypes'
  BY <1>1 DEF BlobInv, BlobTypes, Files
<1>3. CommitOrdered'
  BY <1>1 DEF CommitOrdered, Committing
<1>4. BlobSurvives'
  BY <1>1 DEF BlobInv, BlobTypes, BlobSurvives
<1>5. NoStrayFile'
  BY <1>1 DEF BlobInv, NoStrayFile
<1> QED BY <1>2, <1>3, <1>4, <1>5 DEF BlobInv

\* A crash kills the pulls under way; their files stay, synced or not.
LEMMA KillKeeps ==
    ASSUME BlobInv, Crash
    PROVE  /\ pull' \in [Pulls -> [at : {"off", "streaming", "failed", "killed", "done"}
                                        \cup Committing, hash : Hashes]]
           /\ \A p \in Pulls : /\ pull'[p].at \notin {"synced", "placed", "durable"}
                               /\ tmp[p] # "none" => pull'[p].at = "killed"
BY DEF Crash, Killed, BlobInv, BlobTypes, NoStrayFile, Committing

LEMMA BlobCrashKeeps ==
    ASSUME BlobInv, KillProcess \/ PowerFailure \/ Writeback
    PROVE  BlobInv'
<1>1. CASE KillProcess
  <2>1. UNCHANGED <<blob, blobLoss, shardSafe, tmp, promised>>
    BY <1>1 DEF KillProcess, Crash
  <2>2. KillProcess => Crash
    BY DEF KillProcess
  <2> QED BY <1>1, <2>1, <2>2, KillKeeps
          DEF BlobInv, BlobTypes, CommitOrdered, BlobSurvives, NoStrayFile
<1>2. CASE PowerFailure
  <2>1. /\ Crash /\ promised' = promised
        /\ \A h \in Hashes : blob'[h] \in blobLoss[h]
        /\ blob' \in [Hashes -> UNION {blobLoss[h] : h \in Hashes}]
        /\ blobLoss' = [h \in Hashes |-> {blob'[h]}]
        /\ shardSafe' = shardSafe \cup {h \in Hashes : blob'[h] # "absent"}
    BY <1>2 DEF PowerFailure, Crash
  <2>2. PICK lost \in SUBSET Pulls : tmp' = [p \in Pulls |-> IF p \in lost THEN "none" ELSE tmp[p]]
    BY <1>2 DEF PowerFailure
  <2>3. BlobTypes'
    <3>1. blob' \in [Hashes -> Files]
      BY <2>1 DEF BlobInv, BlobTypes
    <3>2. tmp' \in [Pulls -> {"none", "cached", "synced"}]
      BY <2>2 DEF BlobInv, BlobTypes
    <3> QED BY <2>1, <3>1, <3>2, KillKeeps DEF BlobInv, BlobTypes
  <2>4. CommitOrdered'
    BY <2>1, KillKeeps DEF CommitOrdered
  <2>5. BlobSurvives'
    <3>1. ASSUME NEW h \in Hashes
          PROVE  /\ blob'[h] # "torn"
                 /\ h \in promised' \cap shardSafe' => blob'[h] # "absent"
      BY <2>1, <3>1 DEF BlobInv, BlobSurvives
    <3> QED BY <2>1, <3>1 DEF BlobSurvives
  <2>6. NoStrayFile'
    BY <2>1, <2>2, KillKeeps DEF NoStrayFile
  <2> QED BY <2>3, <2>4, <2>5, <2>6 DEF BlobInv
<1>3. CASE Writeback
  BY <1>3 DEF Writeback, BlobInv, BlobTypes, CommitOrdered, BlobSurvives, NoStrayFile
<1> QED BY <1>1, <1>2, <1>3

LEMMA BlobStep == BlobInv /\ [Next]_vars => BlobInv'
<1> SUFFICES ASSUME BlobInv, [Next]_vars PROVE BlobInv'
  OBVIOUS
<1>1. CASE Blobs
  BY <1>1, PullKeeps, PlaceKeeps, SyncShardKeeps, SealKeeps, DeleteBlobKeeps DEF Blobs
<1>2. CASE UNCHANGED blobVars
  BY <1>2 DEF blobVars, BlobInv, BlobTypes, CommitOrdered, BlobSurvives, NoStrayFile
<1>3. CASE KillProcess \/ PowerFailure \/ Writeback
  BY <1>3, BlobCrashKeeps
<1> QED BY <1>1, <1>2, <1>3 DEF Next, Manifests, vars

-----------------------------------------------------------------------------
(* Theorems. *)

LEMMA CrashesBounded == CrashesTyped /\ [Next]_vars => CrashesTyped'
BY BoundsAssumption
   DEF CrashesTyped, Next, Manifests, Blobs, KillProcess, PowerFailure, Crash, Writeback, vars

LEMMA StoreInvariant == Spec => [](ManifestInv /\ BlobInv /\ CrashesTyped)
<1>1. Init => CrashesTyped
  BY BoundsAssumption DEF Init, CrashesTyped
<1> QED BY <1>1, ManifestInit, BlobInit, ManifestStep, BlobStep, CrashesBounded, PTL DEF Spec

\* Every variable of the store keeps its type; no revision is ever below 1.
THEOREM StoreTyped == Spec => []TypeOK
<1>1. ManifestInv /\ BlobInv /\ CrashesTyped => TypeOK
  BY DEF ManifestInv, ManifestTypes, BlobInv, BlobTypes, CrashesTyped, TypeOK, Known
<1> QED BY <1>1, StoreInvariant, PTL

\* However a manifest write is cut short, an acknowledged one is not taken back,
\* and no torn file is left.
THEOREM WritesSurvive == Spec => []PutSurvives
<1>1. ManifestInv => PutSurvives
  BY DEF ManifestInv
<1> QED BY <1>1, StoreInvariant, PTL

\* The same of blobs in a shard that is itself on disk.
THEOREM BlobsSurvive == Spec => []BlobSurvives
<1>1. BlobInv => BlobSurvives
  BY DEF BlobInv
<1> QED BY <1>1, StoreInvariant, PTL

\* A pull that ends, well or not, leaves nothing under incoming/.
THEOREM PullsCleanUp == Spec => []NoStrayFile
<1>1. BlobInv => NoStrayFile
  BY DEF BlobInv
<1> QED BY <1>1, StoreInvariant, PTL

\* If-Match: a PUT replaces the version its client read, however many editors
\* there are, unless the tag was deleted or rolled back in between.
THEOREM UpdatesNotLost == Spec => NoLostUpdate
<1> DEFINE Lossless ==
      \A c \in Clients :
        (put.by = {c} /\ file' = put.new /\ file \notin {Gone, file'}) =>
          (read[c].ver = file.ver \/ c \in stale)
<1>1. ManifestInv /\ [Next]_vars => [Lossless]_<<file, put>>
  <2> SUFFICES ASSUME ManifestInv, NEW c \in Clients,
                      put.by = {c}, file' = put.new, file \notin {Gone, file'}
               PROVE  read[c].ver = file.ver \/ c \in stale
    OBVIOUS
  <2>1. put.step \in Unplaced
    BY DEF ManifestInv, ManifestTypes, WriteOrdered, NoPut, Unplaced
  <2> QED BY <2>1 DEF ManifestInv, ReadsOrdered
<1> QED BY <1>1, StoreInvariant, PTL DEF Spec, NoLostUpdate
=============================================================================
