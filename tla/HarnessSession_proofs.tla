------------------------ MODULE HarnessSession_proofs ------------------------
(* What a session of the terminal keeps on record and puts back, for any    *)
(* number of paths, tasks and calls, and keys pressed at any time.          *)
EXTENDS HarnessSession, FiniteSetTheorems, SequenceTheorems, TLAPS

Changing == {"write", "edit"}

(* A snapshot names a path once, and copies the bytes of its n-th entry to  *)
(* the n-th blob.                                                           *)
Orderly(entries) ==
  /\ \A i, j \in DOMAIN entries : entries[i].path = entries[j].path => i = j
  /\ \A i \in DOMAIN entries : entries[i].blob \in {NoBlob, i}

(* One run at a time has calls to begin, and there is room for them.        *)
BatchesFit ==
  /\ Len(runs) <= MaxRuns /\ Len(calls) <= MaxCalls
  /\ \A r \in DOMAIN runs : Len(calls) + Len(runs[r].queue) <= MaxCalls
  /\ \A q, r \in DOMAIN runs : runs[q].queue # <<>> /\ runs[r].queue # <<>> => q = r

(* A run waits for a call only in a batch.                                  *)
WaitsInBatches == \A r \in DOMAIN runs : runs[r].state # "batch" => Active(r) = NoCall

(* What a call changes or is about to change is on record, and a call that  *)
(* was not cancelled is waited for until it is over.                        *)
OnRecord(snap, call) ==
  IF call.kind \in Changing THEN call.path \in Covered(snap.entries) ELSE snap.noted
CallIsSound(c) ==
  /\ RunOf(c) \in DOMAIN runs
  /\ calls[c].changed => calls[c].stage = "over"
  /\ calls[c].stage = "reading" => calls[c].kind = "edit"
  /\ calls[c].stage = "writing" => calls[c].kind \in Changing
  /\ calls[c].stage = "running" => calls[c].kind \notin Changing
  /\ calls[c].stage \in {"writing", "running"} \/ calls[c].changed => OnRecord(runs[RunOf(c)].snap, calls[c])
  /\ calls[c].stage # "over" /\ ~calls[c].barred => Active(RunOf(c)) = c
CallsAreSound == \A c \in DOMAIN calls : CallIsSound(c)

(* A path that nothing of others touched and no entry covers is as it was   *)
(* when the run began, and so are the bytes copied of one that is covered,  *)
(* unless another run copied into the same directory.                       *)
SnapIsSound(r) ==
  /\ Orderly(runs[r].snap.entries)
  /\ \A p \in Paths \ (runs[r].meddled \cup Covered(runs[r].snap.entries)) : files[p] = runs[r].before[p]
  /\ SoleRun(r) =>
       \A i \in DOMAIN runs[r].snap.entries :
         LET e == runs[r].snap.entries[i] IN
         e.existed /\ e.path \notin runs[r].meddled => blobs[e.blob] = runs[r].before[e.path]
SnapsAreSound == \A r \in DOMAIN runs : SnapIsSound(r)

(* The manifest is the beginning of what the snapshot of its run holds now: *)
(* only calls that were cancelled still add to it.                          *)
Prefix(s, t) == Len(s) <= Len(t) /\ \A i \in DOMAIN s : s[i] = t[i]
ManifestIsSound ==
  manifest # NoManifest =>
    /\ manifest.run \in DOMAIN runs /\ runs[manifest.run].state = "over"
    /\ Prefix(manifest.entries, runs[manifest.run].snap.entries)
    /\ \A c \in DOMAIN calls :
         RunOf(c) = manifest.run /\ calls[c].kind \in Changing /\ calls[c].changed /\ ~calls[c].barred
         => calls[c].path \in Covered(manifest.entries)

(* A prompt on display is that of a call that waits for its answer.         *)
ViewIsSound ==
  /\ view.running \in 0..Len(runs)
  /\ view.pending \in DOMAIN calls => calls[view.pending].stage = "asked"
  /\ view.pending \notin {UndoOf, None} => view.pending \in DOMAIN calls

SessionInv ==
  /\ TypeOK
  /\ BatchesFit
  /\ WaitsInBatches
  /\ CallsAreSound
  /\ SnapsAreSound
  /\ ManifestIsSound
  /\ ViewIsSound

-----------------------------------------------------------------------------
(* Sequences: one entry replaced, all replaced, one more.                   *)
LEMMA OneReplaced ==
  ASSUME NEW S, NEW s \in Seq(S), NEW i \in DOMAIN s, NEW e \in S
  PROVE  /\ [s EXCEPT ![i] = e] \in Seq(S)
         /\ Len([s EXCEPT ![i] = e]) = Len(s) /\ DOMAIN [s EXCEPT ![i] = e] = DOMAIN s
         /\ [s EXCEPT ![i] = e][i] = e /\ \A j \in DOMAIN s \ {i} : [s EXCEPT ![i] = e][j] = s[j]
<1>1. i \in 1..Len(s) /\ DOMAIN s = 1..Len(s)
  BY LenProperties
<1> QED
  BY <1>1, ExceptSeq, LenProperties

LEMMA AllReplaced ==
  ASSUME NEW S, NEW T, NEW s \in Seq(S), NEW t, DOMAIN t = DOMAIN s, t = [i \in DOMAIN s |-> t[i]],
         \A i \in DOMAIN s : t[i] \in T
  PROVE  t \in Seq(T) /\ Len(t) = Len(s)
<1>1. DOMAIN s = 1..Len(s) /\ Len(s) \in Nat
  BY LenProperties
<1>2. t \in [1..Len(s) -> T]
  BY <1>1
<1> QED
  BY <1>1, <1>2, SeqDef, LenProperties

LEMMA OneAppended ==
  ASSUME NEW S, NEW s \in Seq(S), NEW e \in S
  PROVE  /\ Append(s, e) \in Seq(S) /\ Len(Append(s, e)) = Len(s) + 1
         /\ DOMAIN Append(s, e) = DOMAIN s \cup {Len(s) + 1} /\ Len(s) + 1 \notin DOMAIN s
         /\ Append(s, e)[Len(s) + 1] = e /\ \A i \in DOMAIN s : Append(s, e)[i] = s[i]
<1>1. DOMAIN s = 1..Len(s) /\ Len(s) \in Nat
  BY LenProperties
<1>2. /\ Append(s, e) \in Seq(S) /\ Len(Append(s, e)) = Len(s) + 1
      /\ Append(s, e)[Len(s) + 1] = e /\ \A i \in 1..Len(s) : Append(s, e)[i] = s[i]
  BY AppendProperties
<1>3. DOMAIN Append(s, e) = 1..(Len(s) + 1)
  BY <1>2, LenProperties
<1> QED
  BY <1>1, <1>2, <1>3

-----------------------------------------------------------------------------
(* Snapshots.                                                               *)

(* Entries of different paths are no more than there are paths.             *)
LEMMA RoomForEntries ==
  ASSUME NEW entries \in Seq(Entry), Orderly(entries), NEW p \in Paths \ Covered(entries)
  PROVE  Len(entries) + 1 <= Cardinality(Paths)
<1> DEFINE n == Len(entries)
           f == [i \in 1..n |-> entries[i].path]
<1>1. n \in Nat /\ DOMAIN entries = 1..n
  BY LenProperties
<1>2. \A i \in 1..n : entries[i].path \in Paths \ {p}
  <2>1. \A i \in 1..n : entries[i] \in Entry
    BY <1>1, ElementOfSeq
  <2>2. \A i \in 1..n : entries[i].path \in Paths
    BY <2>1 DEF Entry
  <2> QED
    BY <1>1, <2>2 DEF Covered
<1>3. f \in Injection(1..n, Paths \ {p})
  BY <1>1, <1>2 DEF Injection, IsInjective, Orderly
<1>4. IsFiniteSet(Paths) /\ p \in Paths
  BY SessionAssumption
<1>5. IsFiniteSet(Paths \ {p}) /\ Cardinality(Paths \ {p}) = Cardinality(Paths) - 1
  BY <1>4, FS_RemoveElement
<1>6. Cardinality(1..n) <= Cardinality(Paths \ {p}) /\ Cardinality(1..n) = n
  <2>1. Cardinality(1..n) <= Cardinality(Paths \ {p})
    BY <1>3, <1>5, FS_Injection
  <2>2. Cardinality(1..n) = n
    BY <1>1, FS_Interval
  <2> QED
    BY <2>1, <2>2
<1>7. Cardinality(Paths) \in Nat
  BY <1>4, FS_CardinalityType
<1> QED
  BY <1>1, <1>5, <1>6, <1>7

(* What a capture adds to a snapshot: nothing to one that has the path, and *)
(* otherwise one entry, whose bytes are in a blob of its own.               *)
LEMMA CaptureAdds ==
  ASSUME NEW snap \in Snap, Orderly(snap.entries), NEW p \in Paths, NEW content, NEW copied \in BOOLEAN,
         p \notin Covered(snap.entries)
  PROVE  LET b == BlobFor(snap, p, content, copied)
             e == [path |-> p, existed |-> content # Absent /\ copied, blob |-> b]
             n == Len(snap.entries) + 1
             new == Captured(snap, p, content, copied)
         IN /\ e \in Entry /\ b \in {NoBlob, n} /\ n \in 1..Cardinality(Paths)
            /\ new \in Snap /\ new.entries = Append(snap.entries, e) /\ (snap.noted => new.noted)
            /\ DOMAIN new.entries = DOMAIN snap.entries \cup {n} /\ n \notin DOMAIN snap.entries
            /\ new.entries[n] = e /\ \A i \in DOMAIN snap.entries : new.entries[i] = snap.entries[i]
            /\ Orderly(new.entries)
            /\ Covered(new.entries) = Covered(snap.entries) \cup {p}
            /\ Prefix(snap.entries, new.entries)
<1> DEFINE b == BlobFor(snap, p, content, copied)
           e == [path |-> p, existed |-> content # Absent /\ copied, blob |-> b]
           n == Len(snap.entries) + 1
           new == Captured(snap, p, content, copied)
<1>1. snap.entries \in Seq(Entry) /\ snap.noted \in BOOLEAN
  BY DEF Snap
<1>2. n \in 1..Cardinality(Paths)
  <2>1. Len(snap.entries) \in Nat /\ Len(snap.entries) + 1 <= Cardinality(Paths)
    BY <1>1, RoomForEntries, LenProperties
  <2>2. Cardinality(Paths) \in Nat
    BY SessionAssumption, FS_CardinalityType
  <2> QED
    BY <2>1, <2>2
<1>3. b \in {NoBlob, n} /\ (b = NoBlob <=> content = Absent \/ ~copied)
  BY <1>2 DEF BlobFor, NoBlob
<1>4. e \in Entry
  <2>c. Cardinality(Paths) \in Nat
    BY SessionAssumption, FS_CardinalityType
  <2>1. b \in 0..Cardinality(Paths)
    <3> HIDE DEF b, n
    <3> QED
      BY <1>2, <1>3, <2>c DEF NoBlob
  <2>2. e.existed <=> e.blob # NoBlob
    BY <1>3
  <2> HIDE DEF b
  <2> QED
    BY <2>1, <2>2 DEF Entry
<1>5. new = [started |-> TRUE, entries |-> Append(snap.entries, e), noted |-> snap.noted \/ (content # Absent /\ ~copied)]
  BY DEF Captured
<1>e. e.path = p /\ e.blob = b
  OBVIOUS
<1> HIDE DEF b, e, n, new
<1>6. /\ Append(snap.entries, e) \in Seq(Entry)
      /\ DOMAIN Append(snap.entries, e) = DOMAIN snap.entries \cup {n} /\ n \notin DOMAIN snap.entries
      /\ Append(snap.entries, e)[n] = e /\ \A i \in DOMAIN snap.entries : Append(snap.entries, e)[i] = snap.entries[i]
      /\ Len(Append(snap.entries, e)) = Len(snap.entries) + 1
  BY <1>1, <1>4, OneAppended DEF n
<1>7. new \in Snap /\ new.entries = Append(snap.entries, e) /\ (snap.noted => new.noted)
  BY <1>1, <1>5, <1>6 DEF Snap
<1>8. Orderly(new.entries)
  BY <1>3, <1>e, <1>6, <1>7 DEF Orderly, Covered
<1>9. Covered(new.entries) = Covered(snap.entries) \cup {p}
  BY <1>e, <1>6, <1>7 DEF Covered
<1>10. Prefix(snap.entries, new.entries)
  BY <1>1, <1>6, <1>7, LenProperties DEF Prefix
<1> QED
  BY <1>2, <1>3, <1>4, <1>6, <1>7, <1>8, <1>9, <1>10 DEF b, e, n, new

LEMMA CoveredGrows == \A s, t : Prefix(s, t) /\ s \in Seq(Entry) /\ t \in Seq(Entry) => Covered(s) \subseteq Covered(t)
<1> TAKE s, t
<1> SUFFICES ASSUME Prefix(s, t), s \in Seq(Entry), t \in Seq(Entry) PROVE Covered(s) \subseteq Covered(t)
  OBVIOUS
<1>1. DOMAIN s = 1..Len(s) /\ DOMAIN t = 1..Len(t) /\ Len(s) \in Nat /\ Len(t) \in Nat
  BY LenProperties
<1>2. \A i \in DOMAIN s : i \in DOMAIN t /\ s[i] = t[i]
  BY <1>1 DEF Prefix
<1> QED
  BY <1>2 DEF Covered

LEMMA PrefixOfPrefix ==
  ASSUME NEW s \in Seq(Entry), NEW t \in Seq(Entry), NEW u \in Seq(Entry), Prefix(s, t), Prefix(t, u)
  PROVE  Prefix(s, u)
<1>1. DOMAIN s = 1..Len(s) /\ DOMAIN t = 1..Len(t) /\ Len(s) \in Nat /\ Len(t) \in Nat /\ Len(u) \in Nat
  BY LenProperties
<1> QED
  BY <1>1 DEF Prefix

(* An undo takes each path from the one entry that names it.                *)
LEMMA UndoOfEntry ==
  ASSUME NEW entries \in Seq(Entry), Orderly(entries), NEW disk \in [Paths -> Content], NEW bytes,
         NEW i \in DOMAIN entries
  PROVE  Restored(disk, entries, bytes)[entries[i].path] = IF entries[i].existed THEN bytes[entries[i].blob] ELSE Absent
<1>1. entries[i] \in Entry /\ entries[i].path \in Paths
  BY ElementOfSeq, LenProperties DEF Entry
<1>2. entries[i].path \in Covered(entries)
  BY DEF Covered
<1>3. EntryOf(entries, entries[i].path) = entries[i]
  BY DEF EntryOf, Orderly
<1> QED
  BY <1>1, <1>2, <1>3 DEF Restored

LEMMA UndoIsTyped ==
  ASSUME NEW entries \in Seq(Entry), Orderly(entries), NEW disk \in [Paths -> Content],
         NEW bytes \in [1..Cardinality(Paths) -> Content]
  PROVE  Restored(disk, entries, bytes) \in [Paths -> Content]
<1>1. Absent \in Content
  BY DEF Content
<1>2. ASSUME NEW p \in Paths PROVE Restored(disk, entries, bytes)[p] \in Content
  <2>1. CASE p \notin Covered(entries)
    BY <2>1 DEF Restored
  <2>2. CASE p \in Covered(entries)
    <3>1. PICK i \in DOMAIN entries : entries[i].path = p
      BY <2>2 DEF Covered
    <3>2. entries[i] \in Entry
      BY ElementOfSeq, LenProperties
    <3>3. entries[i].existed => entries[i].blob \in 1..Cardinality(Paths)
      BY <3>2, SessionAssumption, FS_CardinalityType DEF Entry, NoBlob
    <3>4. Restored(disk, entries, bytes)[p] = IF entries[i].existed THEN bytes[entries[i].blob] ELSE Absent
      BY <3>1, UndoOfEntry
    <3> QED
      BY <1>1, <3>3, <3>4
  <2> QED
    BY <2>1, <2>2
<1>3. DOMAIN Restored(disk, entries, bytes) = Paths /\ Restored(disk, entries, bytes) = [p \in Paths |-> Restored(disk, entries, bytes)[p]]
  BY DEF Restored
<1> QED
  BY <1>2, <1>3

-----------------------------------------------------------------------------
(* Steps that change no file, snapshot or manifest: calls are asked about,  *)
(* cancelled or over, and runs go on, end or stop waiting.                  *)
QuietRuns ==
  /\ runs' \in Seq(Run) /\ Len(runs') = Len(runs) /\ DOMAIN runs' = DOMAIN runs
  /\ \A r \in DOMAIN runs :
       /\ runs'[r].snap = runs[r].snap /\ runs'[r].before = runs[r].before /\ runs'[r].meddled = runs[r].meddled
       /\ runs[r].state = "over" => runs'[r].state = "over"
       /\ runs'[r].state # "batch" => runs'[r].active = NoCall

QuietCalls ==
  /\ calls' \in Seq(Call) /\ Len(calls') = Len(calls) /\ DOMAIN calls' = DOMAIN calls
  /\ \A c \in DOMAIN calls :
       /\ calls'[c].run = calls[c].run /\ calls'[c].kind = calls[c].kind /\ calls'[c].path = calls[c].path
       /\ calls'[c].changed = calls[c].changed /\ (calls[c].barred => calls'[c].barred)
       /\ \/ calls'[c].stage \in {calls[c].stage, "over"}
          \/ calls[c].stage = "gate" /\ calls'[c].stage = "asked"
       /\ calls'[c].stage # "over" /\ ~calls'[c].barred => runs'[calls[c].run].active = c

LEMMA QuietSnaps ==
  ASSUME SnapsAreSound, UNCHANGED <<files, blobs>>, DOMAIN runs' = DOMAIN runs,
         \A r \in DOMAIN runs : /\ runs'[r].snap = runs[r].snap /\ runs'[r].before = runs[r].before
                                /\ runs'[r].meddled = runs[r].meddled
  PROVE  SnapsAreSound'
<1>1. \A r \in DOMAIN runs : SoleRun(r)' = SoleRun(r)
  BY DEF SoleRun
<1> QED
  BY <1>1 DEF SnapsAreSound, SnapIsSound

LEMMA QuietMost ==
  ASSUME SessionInv, QuietRuns, QuietCalls, UNCHANGED <<files, blobs>>, BatchesFit', view' \in View, ViewIsSound',
         manifest' \in [run : 0..MaxRuns, entries : Seq(Entry)], ManifestIsSound'
  PROVE  SessionInv'
<1>1. TypeOK'
  BY DEF SessionInv, TypeOK, QuietRuns, QuietCalls
<1>2. WaitsInBatches'
  BY DEF WaitsInBatches, QuietRuns, Active
<1>3. CallsAreSound'
  <2> SUFFICES ASSUME NEW c \in DOMAIN calls PROVE CallIsSound(c)'
    BY DEF CallsAreSound, QuietCalls
  <2>1. CallIsSound(c)
    BY DEF SessionInv, CallsAreSound
  <2>2. RunOf(c)' = RunOf(c) /\ RunOf(c) \in DOMAIN runs /\ runs'[RunOf(c)].snap = runs[RunOf(c)].snap
    BY <2>1 DEF QuietCalls, QuietRuns, RunOf, CallIsSound
  <2>3. OnRecord(runs[RunOf(c)].snap, calls[c]) => OnRecord(runs'[RunOf(c)].snap, calls'[c])
    BY <2>2 DEF OnRecord, QuietCalls
  <2> QED
    BY <2>1, <2>2, <2>3 DEF QuietCalls, QuietRuns, CallIsSound, RunOf, Active
<1>4. SnapsAreSound'
  BY QuietSnaps DEF SessionInv, QuietRuns
<1> QED
  BY <1>1, <1>2, <1>3, <1>4 DEF SessionInv

LEMMA QuietStep ==
  ASSUME SessionInv, QuietRuns, QuietCalls, UNCHANGED <<files, blobs, manifest>>,
         BatchesFit', view' \in View, ViewIsSound'
  PROVE  SessionInv'
<1>1. ManifestIsSound'
  <2> SUFFICES ASSUME manifest # NoManifest
               PROVE  /\ manifest.run \in DOMAIN runs' /\ runs'[manifest.run].state = "over"
                      /\ Prefix(manifest.entries, runs'[manifest.run].snap.entries)
                      /\ \A c \in DOMAIN calls' :
                           calls'[c].run = manifest.run /\ calls'[c].kind \in Changing /\ calls'[c].changed /\ ~calls'[c].barred
                           => calls'[c].path \in Covered(manifest.entries)
    BY DEF ManifestIsSound, RunOf
  <2>1. /\ manifest.run \in DOMAIN runs /\ runs[manifest.run].state = "over"
        /\ Prefix(manifest.entries, runs[manifest.run].snap.entries)
        /\ \A c \in DOMAIN calls :
             calls[c].run = manifest.run /\ calls[c].kind \in Changing /\ calls[c].changed /\ ~calls[c].barred
             => calls[c].path \in Covered(manifest.entries)
    BY DEF SessionInv, ManifestIsSound, RunOf
  <2> QED
    BY <2>1 DEF QuietRuns, QuietCalls
<1>2. manifest' \in [run : 0..MaxRuns, entries : Seq(Entry)]
  BY DEF SessionInv, TypeOK
<1> QED
  BY <1>1, <1>2, QuietMost

(* The manifest while runs only gain entries and stay over, no call of its  *)
(* run that is waited for changes a file, and it is not written.            *)
LEMMA ManifestStays ==
  ASSUME ManifestIsSound, UNCHANGED manifest, DOMAIN runs \subseteq DOMAIN runs', DOMAIN calls \subseteq DOMAIN calls',
         \A r \in DOMAIN runs : /\ runs[r].state = "over" => runs'[r].state = "over"
                                /\ \A s \in Seq(Entry) : Prefix(s, runs[r].snap.entries) => Prefix(s, runs'[r].snap.entries),
         manifest.entries \in Seq(Entry),
         \A c \in DOMAIN calls :
           /\ calls'[c].run = calls[c].run /\ calls'[c].kind = calls[c].kind /\ calls'[c].path = calls[c].path
           /\ calls[c].barred => calls'[c].barred
           /\ calls'[c].changed /\ ~calls'[c].barred => calls[c].changed \/ runs[calls[c].run].state # "over",
         \A c \in DOMAIN calls' \ DOMAIN calls : ~calls'[c].changed
  PROVE  ManifestIsSound'
<1> SUFFICES ASSUME manifest # NoManifest
             PROVE  /\ manifest.run \in DOMAIN runs' /\ runs'[manifest.run].state = "over"
                    /\ Prefix(manifest.entries, runs'[manifest.run].snap.entries)
                    /\ \A c \in DOMAIN calls' :
                         calls'[c].run = manifest.run /\ calls'[c].kind \in Changing /\ calls'[c].changed /\ ~calls'[c].barred
                         => calls'[c].path \in Covered(manifest.entries)
  BY DEF ManifestIsSound, RunOf
<1>1. /\ manifest.run \in DOMAIN runs /\ runs[manifest.run].state = "over"
      /\ Prefix(manifest.entries, runs[manifest.run].snap.entries)
      /\ \A c \in DOMAIN calls :
           calls[c].run = manifest.run /\ calls[c].kind \in Changing /\ calls[c].changed /\ ~calls[c].barred
           => calls[c].path \in Covered(manifest.entries)
  BY DEF ManifestIsSound, RunOf
<1> QED
  BY <1>1

-----------------------------------------------------------------------------
(* What the operators on runs and calls change.                             *)
LEMMA Releases ==
  ASSUME NEW rs \in Seq(Run), NEW S
  PROVE  /\ Release(rs, S) \in Seq(Run) /\ Len(Release(rs, S)) = Len(rs) /\ DOMAIN Release(rs, S) = DOMAIN rs
         /\ \A r \in DOMAIN rs :
              /\ Release(rs, S)[r].state = rs[r].state /\ Release(rs, S)[r].queue = rs[r].queue
              /\ Release(rs, S)[r].watched = rs[r].watched /\ Release(rs, S)[r].snap = rs[r].snap
              /\ Release(rs, S)[r].before = rs[r].before /\ Release(rs, S)[r].meddled = rs[r].meddled
              /\ Release(rs, S)[r].active = IF rs[r].active \in S THEN NoCall ELSE rs[r].active
<1> DEFINE t == Release(rs, S)
<1>1. DOMAIN t = DOMAIN rs /\ t = [i \in DOMAIN rs |-> t[i]]
  BY DEF Release
<1>2. \A r \in DOMAIN rs : rs[r] \in Run
  BY ElementOfSeq, LenProperties
<1>3. NoCall \in 0..MaxCalls
  BY SessionAssumption DEF NoCall
<1>4. ASSUME NEW r \in DOMAIN rs
      PROVE  /\ t[r] \in Run
             /\ t[r].state = rs[r].state /\ t[r].queue = rs[r].queue
             /\ t[r].watched = rs[r].watched /\ t[r].snap = rs[r].snap
             /\ t[r].before = rs[r].before /\ t[r].meddled = rs[r].meddled
             /\ t[r].active = IF rs[r].active \in S THEN NoCall ELSE rs[r].active
  <2>1. t[r] = IF rs[r].active \in S THEN [rs[r] EXCEPT !.active = NoCall] ELSE rs[r]
    BY DEF Release
  <2> QED
    BY <1>2, <1>3, <2>1 DEF Run
<1> HIDE DEF t
<1>5. t \in Seq(Run) /\ Len(t) = Len(rs)
  BY <1>1, <1>4, AllReplaced
<1> QED
  BY <1>1, <1>4, <1>5 DEF t

LEMMA Unwatches ==
  ASSUME NEW rs \in Seq(Run), NEW q \in 0..Len(rs)
  PROVE  /\ Unwatched(rs, q) \in Seq(Run) /\ Len(Unwatched(rs, q)) = Len(rs) /\ DOMAIN Unwatched(rs, q) = DOMAIN rs
         /\ \A r \in DOMAIN rs :
              /\ Unwatched(rs, q)[r].queue = rs[r].queue /\ Unwatched(rs, q)[r].snap = rs[r].snap
              /\ Unwatched(rs, q)[r].before = rs[r].before /\ Unwatched(rs, q)[r].meddled = rs[r].meddled
              /\ Unwatched(rs, q)[r].active = rs[r].active
              /\ Unwatched(rs, q)[r].state \in {rs[r].state, "over"}
              /\ rs[r].state = "batch" => Unwatched(rs, q)[r].state = "batch"
<1>1. CASE q = 0
  BY <1>1 DEF Unwatched
<1>2. CASE q # 0
  <2>1. q \in DOMAIN rs
    BY <1>2, LenProperties
  <2>2. rs[q] \in Run
    BY <2>1, ElementOfSeq, LenProperties
  <2> DEFINE e == [rs[q] EXCEPT !.watched = FALSE, !.state = IF @ = "model" THEN "over" ELSE @]
  <2>3. Unwatched(rs, q) = [rs EXCEPT ![q] = e]
    BY <1>2, <2>1 DEF Unwatched
  <2>4. e \in Run /\ e.queue = rs[q].queue /\ e.snap = rs[q].snap /\ e.before = rs[q].before /\ e.meddled = rs[q].meddled
        /\ e.active = rs[q].active /\ e.state \in {rs[q].state, "over"} /\ (rs[q].state = "batch" => e.state = "batch")
    BY <2>2 DEF Run
  <2> HIDE DEF e
  <2> QED
    BY <2>1, <2>3, <2>4, OneReplaced
<1> QED
  BY <1>1, <1>2

LEMMA Cancels ==
  ASSUME NEW cs \in Seq(Call), NEW S
  PROVE  /\ Aborted(cs, S) \in Seq(Call) /\ Len(Aborted(cs, S)) = Len(cs) /\ DOMAIN Aborted(cs, S) = DOMAIN cs
         /\ \A c \in DOMAIN cs :
              /\ Aborted(cs, S)[c].run = cs[c].run /\ Aborted(cs, S)[c].kind = cs[c].kind
              /\ Aborted(cs, S)[c].path = cs[c].path /\ Aborted(cs, S)[c].changed = cs[c].changed
              /\ Aborted(cs, S)[c].barred = (cs[c].barred \/ c \in S)
              /\ Aborted(cs, S)[c].stage \in {cs[c].stage, "over"}
              /\ cs[c].stage # "running" => Aborted(cs, S)[c].stage = cs[c].stage
<1> DEFINE t == Aborted(cs, S)
<1>1. DOMAIN t = DOMAIN cs /\ t = [i \in DOMAIN cs |-> t[i]]
  BY DEF Aborted
<1>2. \A c \in DOMAIN cs : cs[c] \in Call
  BY ElementOfSeq, LenProperties
<1>4. ASSUME NEW c \in DOMAIN cs
      PROVE  /\ t[c] \in Call
             /\ t[c].run = cs[c].run /\ t[c].kind = cs[c].kind /\ t[c].path = cs[c].path /\ t[c].changed = cs[c].changed
             /\ t[c].barred = (cs[c].barred \/ c \in S)
             /\ t[c].stage \in {cs[c].stage, "over"} /\ (cs[c].stage # "running" => t[c].stage = cs[c].stage)
  <2>1. t[c] = IF c \notin S THEN cs[c]
               ELSE [cs[c] EXCEPT !.barred = TRUE, !.stage = IF cs[c].kind = "bash" /\ @ = "running" THEN "over" ELSE @]
    BY DEF Aborted
  <2> QED
    BY <1>2, <2>1 DEF Call
<1> HIDE DEF t
<1>5. t \in Seq(Call) /\ Len(t) = Len(cs)
  BY <1>1, <1>4, AllReplaced
<1> QED
  BY <1>1, <1>4, <1>5 DEF t

Stages == {"gate", "asked", "reading", "writing", "running", "over"}
LEMMA StageSet ==
  ASSUME NEW cs \in Seq(Call), NEW c \in DOMAIN cs, NEW x \in Stages
  PROVE  LET t == [cs EXCEPT ![c].stage = x]
         IN /\ t \in Seq(Call) /\ Len(t) = Len(cs) /\ DOMAIN t = DOMAIN cs
            /\ t[c].stage = x /\ t[c].run = cs[c].run /\ t[c].kind = cs[c].kind /\ t[c].path = cs[c].path
            /\ t[c].changed = cs[c].changed /\ t[c].barred = cs[c].barred
            /\ \A d \in DOMAIN cs \ {c} : t[d] = cs[d]
<1> DEFINE e == [cs[c] EXCEPT !.stage = x]
           t == [cs EXCEPT ![c].stage = x]
<1>1. cs[c] \in Call
  BY ElementOfSeq, LenProperties
<1>2. /\ e \in Call /\ e.stage = x /\ e.run = cs[c].run /\ e.kind = cs[c].kind /\ e.path = cs[c].path
      /\ e.changed = cs[c].changed /\ e.barred = cs[c].barred
  BY <1>1 DEF Call, Stages
<1>3. t = [cs EXCEPT ![c] = e]
  OBVIOUS
<1> HIDE DEF e, t
<1>4. t \in Seq(Call) /\ Len(t) = Len(cs) /\ DOMAIN t = DOMAIN cs /\ t[c] = e /\ \A d \in DOMAIN cs \ {c} : t[d] = cs[d]
  BY <1>2, <1>3, OneReplaced
<1> QED
  BY <1>2, <1>4 DEF t

LEMMA ChangeSet ==
  ASSUME NEW cs \in Seq(Call), NEW c \in DOMAIN cs
  PROVE  LET t == [cs EXCEPT ![c].stage = "over", ![c].changed = TRUE]
         IN /\ t \in Seq(Call) /\ Len(t) = Len(cs) /\ DOMAIN t = DOMAIN cs
            /\ t[c].stage = "over" /\ t[c].run = cs[c].run /\ t[c].kind = cs[c].kind /\ t[c].path = cs[c].path
            /\ t[c].changed = TRUE /\ t[c].barred = cs[c].barred
            /\ \A d \in DOMAIN cs \ {c} : t[d] = cs[d]
<1> DEFINE e == [cs[c] EXCEPT !.stage = "over", !.changed = TRUE]
           t == [cs EXCEPT ![c].stage = "over", ![c].changed = TRUE]
<1>1. cs[c] \in Call
  BY ElementOfSeq, LenProperties
<1>2. /\ e \in Call /\ e.stage = "over" /\ e.run = cs[c].run /\ e.kind = cs[c].kind /\ e.path = cs[c].path
      /\ e.changed = TRUE /\ e.barred = cs[c].barred
  BY <1>1 DEF Call
<1>3. t = [cs EXCEPT ![c] = e]
  OBVIOUS
<1> HIDE DEF e, t
<1>4. t \in Seq(Call) /\ Len(t) = Len(cs) /\ DOMAIN t = DOMAIN cs /\ t[c] = e /\ \A d \in DOMAIN cs \ {c} : t[d] = cs[d]
  BY <1>2, <1>3, OneReplaced
<1> QED
  BY <1>2, <1>4 DEF t

-----------------------------------------------------------------------------
(* What most steps leave alone.                                             *)
LEMMA InitInv == Init => SessionInv
<1> SUFFICES ASSUME Init PROVE SessionInv
  OBVIOUS
<1>1. runs = <<>> /\ calls = <<>> /\ DOMAIN runs = {} /\ DOMAIN calls = {} /\ Len(runs) = 0 /\ Len(calls) = 0
  BY DEF Init
<1>2. TypeOK
  <2>1. 0 \in 0..MaxCalls /\ 0 \in 0..MaxRuns
    BY SessionAssumption
  <2>2. files \in [Paths -> Content] /\ blobs \in [1..Cardinality(Paths) -> Content]
    BY <2>1 DEF Init, Content, Original
  <2>3. manifest \in [run : 0..MaxRuns, entries : Seq(Entry)] /\ view \in View
    BY <2>1 DEF Init, NoManifest, None, View
  <2> QED
    BY <1>1, <2>2, <2>3 DEF TypeOK
<1>3. BatchesFit
  BY <1>1, SessionAssumption DEF BatchesFit
<1>4. WaitsInBatches /\ CallsAreSound /\ SnapsAreSound
  BY <1>1 DEF WaitsInBatches, CallsAreSound, SnapsAreSound
<1>5. ManifestIsSound
  BY DEF Init, ManifestIsSound
<1>6. ViewIsSound
  BY <1>1 DEF ViewIsSound, Init, None
<1> QED
  BY <1>2, <1>3, <1>4, <1>5, <1>6 DEF SessionInv

LEMMA BatchesStay ==
  ASSUME BatchesFit, Len(runs') = Len(runs), DOMAIN runs' = DOMAIN runs, Len(calls') = Len(calls),
         \A r \in DOMAIN runs : runs'[r].queue = runs[r].queue
  PROVE  BatchesFit'
BY DEF BatchesFit

LEMMA ViewStays ==
  ASSUME ViewIsSound, Len(runs') = Len(runs), DOMAIN calls' = DOMAIN calls,
         view' \in {view, [view EXCEPT !.pending = None], Idle}, view \in View,
         \A c \in DOMAIN calls : c = view'.pending /\ calls[c].stage = "asked" => calls'[c].stage = "asked",
         NoCall \notin DOMAIN calls
  PROVE  ViewIsSound' /\ view' \in View
<1>1. view'.running \in {view.running, 0} /\ view'.pending \in {view.pending, None} /\ view' \in View
  BY SessionAssumption DEF View, Idle, None
<1>2. None \notin DOMAIN calls
  BY DEF None, NoCall
<1>3. 0 \in 0..Len(runs)
  BY DEF ViewIsSound
<1> QED
  BY <1>1, <1>2, <1>3 DEF ViewIsSound

(* The members of what is typed, with the numbers calls and runs go by.     *)
LEMMA Members ==
  ASSUME SessionInv
  PROVE  /\ runs \in Seq(Run) /\ calls \in Seq(Call) /\ view \in View
         /\ DOMAIN runs = 1..Len(runs) /\ DOMAIN calls = 1..Len(calls) /\ Len(runs) \in Nat /\ Len(calls) \in Nat
         /\ \A r \in DOMAIN runs : runs[r] \in Run /\ runs[r].snap \in Snap /\ runs[r].snap.entries \in Seq(Entry)
         /\ \A c \in DOMAIN calls : /\ calls[c] \in Call /\ c \in 1..MaxCalls /\ c # NoCall /\ calls[c].path \in Paths
                                    /\ calls[c].run \in DOMAIN runs
         /\ NoCall \notin DOMAIN calls
<1>1. runs \in Seq(Run) /\ calls \in Seq(Call) /\ view \in View
  BY DEF SessionInv, TypeOK
<1>2. DOMAIN runs = 1..Len(runs) /\ DOMAIN calls = 1..Len(calls) /\ Len(runs) \in Nat /\ Len(calls) \in Nat
  BY <1>1, LenProperties
<1>3. \A r \in DOMAIN runs : runs[r] \in Run
  BY <1>1, <1>2, ElementOfSeq
<1>4. \A c \in DOMAIN calls : calls[c] \in Call
  BY <1>1, <1>2, ElementOfSeq
<1>5. \A c \in DOMAIN calls : c \in 1..MaxCalls /\ c # NoCall
  BY <1>2, SessionAssumption DEF SessionInv, BatchesFit, NoCall
<1>6. \A c \in DOMAIN calls : calls[c].run \in DOMAIN runs
  BY DEF SessionInv, CallsAreSound, CallIsSound, RunOf
<1>7. \A r \in DOMAIN runs : runs[r].snap \in Snap /\ runs[r].snap.entries \in Seq(Entry)
  BY <1>3 DEF Run, Snap
<1>8. \A c \in DOMAIN calls : calls[c].path \in Paths
  BY <1>4 DEF Call
<1> QED
  BY <1>1, <1>2, <1>3, <1>4, <1>5, <1>6, <1>7, <1>8

LEMMA SameRuns == SessionInv /\ UNCHANGED runs => QuietRuns
BY DEF SessionInv, TypeOK, QuietRuns, WaitsInBatches, Active

LEMMA SameCalls == SessionInv /\ UNCHANGED <<runs, calls>> => QuietCalls
BY DEF SessionInv, TypeOK, QuietCalls, CallsAreSound, CallIsSound, RunOf, Active

(* A call comes to its end and its run is told.                             *)
LEMMA CallEnds ==
  ASSUME SessionInv, NEW c \in DOMAIN calls,
         calls' = [calls EXCEPT ![c].stage = "over"], runs' = Release(runs, {c})
  PROVE  QuietRuns /\ QuietCalls /\ BatchesFit' /\ \A d \in DOMAIN calls \ {c} : calls'[d] = calls[d]
<1>1. /\ runs' \in Seq(Run) /\ Len(runs') = Len(runs) /\ DOMAIN runs' = DOMAIN runs
      /\ \A r \in DOMAIN runs :
           /\ runs'[r].state = runs[r].state /\ runs'[r].queue = runs[r].queue /\ runs'[r].snap = runs[r].snap
           /\ runs'[r].before = runs[r].before /\ runs'[r].meddled = runs[r].meddled
           /\ runs'[r].active = IF runs[r].active \in {c} THEN NoCall ELSE runs[r].active
  BY Members, Releases
<1>2. /\ calls' \in Seq(Call) /\ Len(calls') = Len(calls) /\ DOMAIN calls' = DOMAIN calls
      /\ calls'[c].stage = "over" /\ calls'[c].run = calls[c].run /\ calls'[c].kind = calls[c].kind
      /\ calls'[c].path = calls[c].path /\ calls'[c].changed = calls[c].changed /\ calls'[c].barred = calls[c].barred
      /\ \A d \in DOMAIN calls \ {c} : calls'[d] = calls[d]
  <2>1. calls \in Seq(Call) /\ "over" \in Stages
    BY Members DEF Stages
  <2> DEFINE t == [calls EXCEPT ![c].stage = "over"]
  <2>2. /\ t \in Seq(Call) /\ Len(t) = Len(calls) /\ DOMAIN t = DOMAIN calls
        /\ t[c].stage = "over" /\ t[c].run = calls[c].run /\ t[c].kind = calls[c].kind /\ t[c].path = calls[c].path
        /\ t[c].changed = calls[c].changed /\ t[c].barred = calls[c].barred
        /\ \A d \in DOMAIN calls \ {c} : t[d] = calls[d]
    BY <2>1, StageSet
  <2>3. calls' = t
    OBVIOUS
  <2> HIDE DEF t
  <2> QED
    BY <2>2, <2>3
<1>3. QuietRuns
  BY <1>1 DEF QuietRuns, SessionInv, WaitsInBatches, Active
<1>4. QuietCalls
  <2>1. ASSUME NEW d \in DOMAIN calls, calls'[d].stage # "over", ~calls'[d].barred PROVE runs'[calls[d].run].active = d
    <3>1. d # c /\ calls[d].stage # "over" /\ ~calls[d].barred
      BY <1>2, <2>1
    <3>2. runs[calls[d].run].active = d /\ calls[d].run \in DOMAIN runs
      BY <3>1, Members DEF SessionInv, CallsAreSound, CallIsSound, RunOf, Active
    <3> QED
      BY <1>1, <3>1, <3>2
  <2>2. ASSUME NEW d \in DOMAIN calls
        PROVE  /\ calls'[d].run = calls[d].run /\ calls'[d].kind = calls[d].kind /\ calls'[d].path = calls[d].path
               /\ calls'[d].changed = calls[d].changed /\ calls'[d].barred = calls[d].barred
               /\ calls'[d].stage \in {calls[d].stage, "over"}
    BY <1>2
  <2> QED
    BY <1>2, <2>1, <2>2 DEF QuietCalls
<1>5. BatchesFit'
  BY <1>1, <1>2, BatchesStay DEF SessionInv
<1> QED
  BY <1>2, <1>3, <1>4, <1>5

(* Calls are cancelled, and perhaps a run is left.                          *)
LEMMA CallsGivenUp ==
  ASSUME SessionInv, NEW S, NEW q \in 0..Len(runs), NEW cs \in Seq(Call),
         Len(cs) = Len(calls), DOMAIN cs = DOMAIN calls,
         \A c \in DOMAIN calls :
           /\ cs[c].run = calls[c].run /\ cs[c].kind = calls[c].kind /\ cs[c].path = calls[c].path
           /\ cs[c].changed = calls[c].changed /\ cs[c].barred = calls[c].barred
           /\ cs[c].stage \in {calls[c].stage, "over"},
         calls' = Aborted(cs, S), runs' = Unwatched(Release(runs, S), q)
  PROVE  /\ QuietRuns /\ QuietCalls /\ BatchesFit'
         /\ \A c \in DOMAIN calls : /\ calls'[c].stage \in {cs[c].stage, "over"}
                                    /\ cs[c].stage # "running" => calls'[c].stage = cs[c].stage
<1> DEFINE rs == Release(runs, S)
<1>1. /\ rs \in Seq(Run) /\ Len(rs) = Len(runs) /\ DOMAIN rs = DOMAIN runs
      /\ \A r \in DOMAIN runs :
           /\ rs[r].state = runs[r].state /\ rs[r].queue = runs[r].queue /\ rs[r].snap = runs[r].snap
           /\ rs[r].before = runs[r].before /\ rs[r].meddled = runs[r].meddled
           /\ rs[r].active = IF runs[r].active \in S THEN NoCall ELSE runs[r].active
  BY Members, Releases
<1> HIDE DEF rs
<1>2. /\ runs' \in Seq(Run) /\ Len(runs') = Len(runs) /\ DOMAIN runs' = DOMAIN runs
      /\ \A r \in DOMAIN runs :
           /\ runs'[r].queue = rs[r].queue /\ runs'[r].snap = rs[r].snap
           /\ runs'[r].before = rs[r].before /\ runs'[r].meddled = rs[r].meddled
           /\ runs'[r].active = rs[r].active /\ runs'[r].state \in {rs[r].state, "over"}
           /\ rs[r].state = "batch" => runs'[r].state = "batch"
  <2>1. runs' = Unwatched(rs, q) /\ q \in 0..Len(rs)
    BY <1>1 DEF rs
  <2> QED
    BY <1>1, <2>1, Unwatches
<1>3. /\ calls' \in Seq(Call) /\ Len(calls') = Len(cs) /\ DOMAIN calls' = DOMAIN cs
      /\ \A c \in DOMAIN cs :
           /\ calls'[c].run = cs[c].run /\ calls'[c].kind = cs[c].kind
           /\ calls'[c].path = cs[c].path /\ calls'[c].changed = cs[c].changed
           /\ calls'[c].barred = (cs[c].barred \/ c \in S)
           /\ calls'[c].stage \in {cs[c].stage, "over"}
           /\ cs[c].stage # "running" => calls'[c].stage = cs[c].stage
  BY Cancels
<1>4. QuietRuns
  BY <1>1, <1>2 DEF QuietRuns, SessionInv, WaitsInBatches, Active
<1>5. QuietCalls
  <2>1. ASSUME NEW c \in DOMAIN calls, calls'[c].stage # "over", ~calls'[c].barred PROVE runs'[calls[c].run].active = c
    <3>1. calls[c].stage # "over" /\ ~calls[c].barred /\ c \notin S
      BY <1>3, <2>1
    <3>2. runs[calls[c].run].active = c /\ calls[c].run \in DOMAIN runs
      BY <3>1, Members DEF SessionInv, CallsAreSound, CallIsSound, RunOf, Active
    <3> QED
      BY <1>1, <1>2, <3>1, <3>2
  <2>2. ASSUME NEW c \in DOMAIN calls
        PROVE  /\ calls'[c].run = calls[c].run /\ calls'[c].kind = calls[c].kind /\ calls'[c].path = calls[c].path
               /\ calls'[c].changed = calls[c].changed /\ (calls[c].barred => calls'[c].barred)
               /\ calls'[c].stage \in {calls[c].stage, "over"}
    BY <1>3
  <2> QED
    BY <1>3, <2>1, <2>2 DEF QuietCalls
<1>6. BatchesFit'
  BY <1>1, <1>2, <1>3, BatchesStay DEF SessionInv
<1> QED
  BY <1>3, <1>4, <1>5, <1>6

-----------------------------------------------------------------------------
(* The steps that change no file, snapshot or manifest.                     *)
LEMMA TimeoutKeeps == ASSUME SessionInv, NEW c \in DOMAIN calls, Timeout(c) PROVE SessionInv'
<1>1. calls' = Aborted(calls, {c}) /\ runs' = Unwatched(Release(runs, {c}), 0) /\ UNCHANGED <<files, blobs, manifest, view>>
  BY DEF Timeout, Unwatched
<1>2. 0 \in 0..Len(runs)
  BY Members
<1>3. /\ QuietRuns /\ QuietCalls /\ BatchesFit'
      /\ \A d \in DOMAIN calls : calls[d].stage # "running" => calls'[d].stage = calls[d].stage
  BY <1>1, <1>2, Members, CallsGivenUp
<1>4. view' \in View /\ ViewIsSound'
  BY <1>1, <1>3, Members, ViewStays DEF SessionInv, QuietRuns, QuietCalls
<1> QED
  BY <1>1, <1>3, <1>4, QuietStep

LEMMA StopRunKeeps == ASSUME SessionInv, StopRun PROVE SessionInv'
<1>1. /\ calls' = Aborted(calls, ActiveCalls(runs)) /\ view' = Idle /\ UNCHANGED <<files, blobs, manifest>>
      /\ runs' = Unwatched(Release(runs, ActiveCalls(runs)), view.running) /\ view.running \in 0..Len(runs)
  BY DEF StopRun, SessionInv, ViewIsSound
<1>3. /\ QuietRuns /\ QuietCalls /\ BatchesFit'
      /\ \A d \in DOMAIN calls : calls[d].stage # "running" => calls'[d].stage = calls[d].stage
  BY <1>1, Members, CallsGivenUp
<1>4. view' \in View /\ ViewIsSound'
  BY <1>1, <1>3, Members, ViewStays DEF SessionInv, QuietRuns, QuietCalls
<1> QED
  BY <1>1, <1>3, <1>4, QuietStep

LEMMA QuitKeyKeeps == ASSUME SessionInv, QuitKey PROVE SessionInv'
<1> DEFINE cs == IF view.pending \in DOMAIN calls THEN [calls EXCEPT ![view.pending].stage = "over"] ELSE calls
<1>1. /\ calls' = Aborted(cs, ActiveCalls(runs)) /\ UNCHANGED <<files, blobs, manifest>>
      /\ runs' = Unwatched(Release(runs, ActiveCalls(runs)), view.running) /\ view.running \in 0..Len(runs)
      /\ view' = [view EXCEPT !.open = FALSE, !.palette = FALSE, !.pending = None, !.running = 0]
  BY DEF QuitKey, Quit, SessionInv, ViewIsSound
<1>2. /\ cs \in Seq(Call) /\ Len(cs) = Len(calls) /\ DOMAIN cs = DOMAIN calls
      /\ \A c \in DOMAIN calls :
           /\ cs[c].run = calls[c].run /\ cs[c].kind = calls[c].kind /\ cs[c].path = calls[c].path
           /\ cs[c].changed = calls[c].changed /\ cs[c].barred = calls[c].barred
           /\ cs[c].stage \in {calls[c].stage, "over"}
  <2>1. CASE view.pending \notin DOMAIN calls
    BY <2>1, Members
  <2>2. CASE view.pending \in DOMAIN calls
    <3>1. calls \in Seq(Call) /\ "over" \in Stages /\ cs = [calls EXCEPT ![view.pending].stage = "over"]
      BY <2>2, Members DEF Stages
    <3> DEFINE t == [calls EXCEPT ![view.pending].stage = "over"]
    <3>2. /\ t \in Seq(Call) /\ Len(t) = Len(calls) /\ DOMAIN t = DOMAIN calls
          /\ t[view.pending].stage = "over" /\ t[view.pending].run = calls[view.pending].run
          /\ t[view.pending].kind = calls[view.pending].kind /\ t[view.pending].path = calls[view.pending].path
          /\ t[view.pending].changed = calls[view.pending].changed /\ t[view.pending].barred = calls[view.pending].barred
          /\ \A d \in DOMAIN calls \ {view.pending} : t[d] = calls[d]
      BY <2>2, <3>1, StageSet
    <3>3. cs = t
      BY <3>1
    <3> HIDE DEF t, cs
    <3> QED
      BY <3>2, <3>3
  <2> QED
    BY <2>1, <2>2
<1> HIDE DEF cs
<1>3. QuietRuns /\ QuietCalls /\ BatchesFit'
  BY <1>1, <1>2, CallsGivenUp
<1>4. view' \in View /\ ViewIsSound'
  <2>1. view' \in View /\ view'.running = 0 /\ view'.pending = None
    <3>1. 0 \in 0..MaxRuns /\ None \in {UndoOf} \cup 0..MaxCalls
      BY SessionAssumption DEF None
    <3>2. view \in View
      BY Members
    <3> QED
      BY <1>1, <3>1, <3>2 DEF View
  <2>2. None \notin DOMAIN calls' /\ 0 \in 0..Len(runs')
    BY <1>3, Members DEF QuietRuns, QuietCalls, None, NoCall
  <2> QED
    BY <2>1, <2>2 DEF ViewIsSound
<1> QED
  BY <1>1, <1>3, <1>4, QuietStep

LEMMA CallEndsKeeps ==
  ASSUME SessionInv, NEW c \in DOMAIN calls,
         calls' = [calls EXCEPT ![c].stage = "over"], runs' = Release(runs, {c}), UNCHANGED <<files, blobs, manifest>>,
         \/ UNCHANGED view /\ calls[c].stage # "asked"
         \/ view' = [view EXCEPT !.pending = None]
  PROVE  SessionInv'
<1>1. QuietRuns /\ QuietCalls /\ BatchesFit' /\ \A d \in DOMAIN calls \ {c} : calls'[d] = calls[d]
  BY CallEnds
<1>2. view'.pending = c => calls[c].stage # "asked"
  BY Members DEF View, None, NoCall
<1>3. view' \in View /\ ViewIsSound'
  BY <1>1, <1>2, Members, ViewStays DEF SessionInv, QuietRuns, QuietCalls
<1> QED
  BY <1>1, <1>3, QuietStep

(* A prompt is answered for a call that was cancelled: it is over.          *)
LEMMA BarredKeeps ==
  ASSUME SessionInv, NEW c \in DOMAIN calls, calls[c].barred,
         calls' = [calls EXCEPT ![c].stage = "over"], UNCHANGED <<files, runs, blobs, manifest>>,
         \/ UNCHANGED view /\ calls[c].stage # "asked"
         \/ view' = [view EXCEPT !.pending = None]
  PROVE  SessionInv'
<1> DEFINE t == [calls EXCEPT ![c].stage = "over"]
<1>1. "over" \in Stages
  BY DEF Stages
<1>2. /\ t \in Seq(Call) /\ Len(t) = Len(calls) /\ DOMAIN t = DOMAIN calls
      /\ t[c].stage = "over" /\ t[c].run = calls[c].run /\ t[c].kind = calls[c].kind /\ t[c].path = calls[c].path
      /\ t[c].changed = calls[c].changed /\ t[c].barred = calls[c].barred
      /\ \A d \in DOMAIN calls \ {c} : t[d] = calls[d]
  BY <1>1, Members, StageSet
<1>3. calls' = t
  OBVIOUS
<1> HIDE DEF t
<1>4. QuietCalls
  <2>1. ASSUME NEW d \in DOMAIN calls
        PROVE  /\ calls'[d].run = calls[d].run /\ calls'[d].kind = calls[d].kind /\ calls'[d].path = calls[d].path
               /\ calls'[d].changed = calls[d].changed /\ calls'[d].barred = calls[d].barred
               /\ calls'[d].stage \in {calls[d].stage, "over"}
               /\ calls'[d].stage # "over" /\ ~calls'[d].barred => runs'[calls[d].run].active = d
    BY <1>2, <1>3 DEF SessionInv, CallsAreSound, CallIsSound, RunOf, Active
  <2> QED
    BY <1>2, <1>3, <2>1 DEF QuietCalls
<1>5. QuietRuns
  BY SameRuns
<1>6. BatchesFit'
  BY <1>2, <1>3, BatchesStay DEF SessionInv
<1>7. view'.pending = c => calls[c].stage # "asked"
  BY Members DEF View, None, NoCall
<1>8. view' \in View /\ ViewIsSound'
  BY <1>2, <1>3, <1>7, Members, ViewStays DEF SessionInv
<1> QED
  BY <1>4, <1>5, <1>6, <1>8, QuietStep

(* A prompt is put on display.                                              *)
LEMMA AskedKeeps ==
  ASSUME SessionInv, NEW c \in DOMAIN calls, calls[c].stage = "gate",
         calls' = [calls EXCEPT ![c].stage = "asked"], view' = [view EXCEPT !.pending = c],
         UNCHANGED <<files, runs, blobs, manifest>>
  PROVE  SessionInv'
<1> DEFINE t == [calls EXCEPT ![c].stage = "asked"]
<1>1. "asked" \in Stages
  BY DEF Stages
<1>2. /\ t \in Seq(Call) /\ Len(t) = Len(calls) /\ DOMAIN t = DOMAIN calls
      /\ t[c].stage = "asked" /\ t[c].run = calls[c].run /\ t[c].kind = calls[c].kind /\ t[c].path = calls[c].path
      /\ t[c].changed = calls[c].changed /\ t[c].barred = calls[c].barred
      /\ \A d \in DOMAIN calls \ {c} : t[d] = calls[d]
  BY <1>1, Members, StageSet
<1>3. calls' = t
  OBVIOUS
<1> HIDE DEF t
<1>4. QuietCalls
  <2>1. ASSUME NEW d \in DOMAIN calls
        PROVE  /\ calls'[d].run = calls[d].run /\ calls'[d].kind = calls[d].kind /\ calls'[d].path = calls[d].path
               /\ calls'[d].changed = calls[d].changed /\ calls'[d].barred = calls[d].barred
               /\ calls'[d].stage = calls[d].stage \/ (calls[d].stage = "gate" /\ calls'[d].stage = "asked")
               /\ calls'[d].stage # "over" /\ ~calls'[d].barred => runs'[calls[d].run].active = d
    BY <1>2, <1>3 DEF SessionInv, CallsAreSound, CallIsSound, RunOf, Active
  <2> QED
    BY <1>2, <1>3, <2>1 DEF QuietCalls
<1>5. QuietRuns
  BY SameRuns
<1>6. BatchesFit'
  BY <1>2, <1>3, BatchesStay DEF SessionInv
<1>7. view' \in View /\ view'.pending = c /\ view'.running = view.running
  <2>1. c \in {UndoOf} \cup 0..MaxCalls
    BY Members, SessionAssumption
  <2>2. view \in View
    BY Members
  <2> QED
    BY <2>1, <2>2 DEF View
<1>8. ViewIsSound'
  BY <1>2, <1>3, <1>7 DEF ViewIsSound, SessionInv
<1> QED
  BY <1>4, <1>5, <1>6, <1>7, <1>8, QuietStep

(* Keys that change only what is shown.                                     *)
ViewKey == FocusPrompt \/ BlurPrompt \/ AskUndo \/ OpenPalette \/ ClosePalette \/ PaletteUndo
LEMMA ViewKeysKeep == ASSUME SessionInv, ViewKey PROVE SessionInv'
<1>1. UNCHANGED <<files, runs, calls, blobs, manifest>>
  BY DEF ViewKey, FocusPrompt, BlurPrompt, AskUndo, OpenPalette, ClosePalette, PaletteUndo
<1>2. view' \in View /\ view'.running = view.running /\ view'.pending \in {view.pending, UndoOf}
  BY Members DEF ViewKey, FocusPrompt, BlurPrompt, AskUndo, OpenPalette, ClosePalette, PaletteUndo, View
<1>3. UndoOf \notin DOMAIN calls
  BY Members DEF UndoOf
<1>4. ViewIsSound'
  BY <1>1, <1>2, <1>3 DEF ViewIsSound, SessionInv
<1>5. BatchesFit'
  BY <1>1, BatchesStay DEF SessionInv
<1> QED
  BY <1>1, <1>2, <1>4, <1>5, SameRuns, SameCalls, QuietStep

-----------------------------------------------------------------------------
(* The steps of a run.                                                      *)
LEMMA SameActives ==
  ASSUME SessionInv, UNCHANGED calls, \A r \in DOMAIN runs : runs'[r].active = runs[r].active
  PROVE  QuietCalls
BY Members DEF SessionInv, TypeOK, QuietCalls, CallsAreSound, CallIsSound, RunOf, Active

(* One run goes on to its next state, its snapshot and its wait as before.  *)
LEMMA RunMoves ==
  ASSUME SessionInv, NEW r \in DOMAIN runs, NEW x \in {"model", "batch", "over"}, NEW batch \in Seq(Request),
         runs' = [runs EXCEPT ![r].state = x, ![r].queue = batch], UNCHANGED calls,
         runs[r].state # "over", Active(r) = NoCall
  PROVE  /\ QuietRuns /\ QuietCalls
         /\ runs'[r].queue = batch /\ runs'[r].state = x /\ \A q \in DOMAIN runs \ {r} : runs'[q] = runs[q]
<1> DEFINE e == [runs[r] EXCEPT !.state = x, !.queue = batch]
<1>1. runs \in Seq(Run) /\ runs[r] \in Run
  BY Members
<1>2. /\ e \in Run /\ e.state = x /\ e.queue = batch /\ e.active = runs[r].active /\ e.snap = runs[r].snap
      /\ e.before = runs[r].before /\ e.meddled = runs[r].meddled
  BY <1>1 DEF Run
<1>3. runs' = [runs EXCEPT ![r] = e]
  OBVIOUS
<1> HIDE DEF e
<1>4. /\ runs' \in Seq(Run) /\ Len(runs') = Len(runs) /\ DOMAIN runs' = DOMAIN runs
      /\ runs'[r] = e /\ \A q \in DOMAIN runs \ {r} : runs'[q] = runs[q]
  <2> DEFINE t == [runs EXCEPT ![r] = e]
  <2>1. /\ t \in Seq(Run) /\ Len(t) = Len(runs) /\ DOMAIN t = DOMAIN runs
        /\ t[r] = e /\ \A q \in DOMAIN runs \ {r} : t[q] = runs[q]
    BY <1>1, <1>2, OneReplaced
  <2>2. runs' = t
    BY <1>3
  <2> HIDE DEF t
  <2> QED
    BY <2>1, <2>2
<1>5. QuietRuns
  BY <1>2, <1>4 DEF QuietRuns, SessionInv, WaitsInBatches, Active
<1>6. QuietCalls
  BY <1>2, <1>4, SameActives
<1> QED
  BY <1>2, <1>4, <1>5, <1>6

LEMMA AsksForKeeps == ASSUME SessionInv, NEW r \in DOMAIN runs, AsksFor(r) PROVE SessionInv'
<1>1. PICK batch \in Batches :
        /\ Len(calls) + Len(batch) <= MaxCalls /\ \A q \in DOMAIN runs \ {r} : runs[q].queue = <<>>
        /\ runs' = [runs EXCEPT ![r].state = "batch", ![r].queue = batch]
  BY DEF AsksFor
<1>2. runs[r].state = "model" /\ UNCHANGED <<files, calls, blobs, manifest, view>> /\ batch \in Seq(Request)
  BY SessionAssumption DEF AsksFor
<1>3. Active(r) = NoCall
  BY <1>2 DEF SessionInv, WaitsInBatches
<1>4. /\ QuietRuns /\ QuietCalls
      /\ runs'[r].queue = batch /\ \A q \in DOMAIN runs \ {r} : runs'[q] = runs[q]
  BY <1>1, <1>2, <1>3, RunMoves
<1>5. BatchesFit'
  BY <1>1, <1>2, <1>4 DEF BatchesFit, SessionInv, QuietRuns
<1>6. view' \in View /\ ViewIsSound'
  BY <1>2, <1>4, Members, ViewStays DEF SessionInv, QuietRuns
<1> QED
  BY <1>2, <1>4, <1>5, <1>6, QuietStep

(* A run whose queue stays as it is.                                        *)
LEMMA RunTurns ==
  ASSUME SessionInv, NEW r \in DOMAIN runs, NEW x \in {"model", "batch", "over"},
         runs' = [runs EXCEPT ![r].state = x], UNCHANGED calls, runs[r].state # "over", Active(r) = NoCall
  PROVE  QuietRuns /\ QuietCalls /\ BatchesFit' /\ runs'[r].state = x
<1>1. runs \in Seq(Run) /\ runs[r] \in Run /\ runs[r].queue \in Seq(Request)
  BY Members DEF Run
<1>2. runs' = [runs EXCEPT ![r].state = x, ![r].queue = runs[r].queue]
  BY <1>1 DEF Run
<1>3. /\ QuietRuns /\ QuietCalls
      /\ runs'[r].queue = runs[r].queue /\ runs'[r].state = x /\ \A q \in DOMAIN runs \ {r} : runs'[q] = runs[q]
  BY <1>1, <1>2, RunMoves
<1>4. BatchesFit'
  BY <1>3, BatchesStay DEF SessionInv, QuietRuns
<1> QED
  BY <1>3, <1>4

LEMMA EndBatchKeeps == ASSUME SessionInv, NEW r \in DOMAIN runs, EndBatch(r) PROVE SessionInv'
<1>1. QuietRuns /\ QuietCalls /\ BatchesFit' /\ UNCHANGED <<files, calls, blobs, manifest, view>>
  BY RunTurns DEF EndBatch
<1>2. view' \in View /\ ViewIsSound'
  BY <1>1, Members, ViewStays DEF SessionInv, QuietRuns
<1> QED
  BY <1>1, <1>2, QuietStep

LEMMA FailsKeeps == ASSUME SessionInv, NEW r \in DOMAIN runs, Fails(r) PROVE SessionInv'
<1>1. Active(r) = NoCall
  BY DEF SessionInv, WaitsInBatches, Fails
<1>2. QuietRuns /\ QuietCalls /\ BatchesFit' /\ UNCHANGED <<files, calls, blobs, manifest>> /\ view' = Idle
  BY <1>1, RunTurns DEF Fails
<1>3. view' \in View /\ ViewIsSound'
  BY <1>2, Members, ViewStays DEF SessionInv, QuietRuns
<1> QED
  BY <1>2, <1>3, QuietStep

(* What the calls of a run have changed by the time it finishes is in the   *)
(* manifest it leaves.                                                      *)
LEMMA FinishesKeeps == ASSUME SessionInv, NEW r \in DOMAIN runs, Finishes(r) PROVE SessionInv'
<1>1. Active(r) = NoCall /\ runs[r].state = "model"
  BY DEF SessionInv, WaitsInBatches, Finishes
<1>2. /\ QuietRuns /\ QuietCalls /\ BatchesFit' /\ UNCHANGED <<files, calls, blobs>> /\ view' = Idle
      /\ runs'[r].state = "over"
  BY <1>1, RunTurns DEF Finishes
<1>3. view' \in View /\ ViewIsSound'
  BY <1>2, Members, ViewStays DEF SessionInv, QuietRuns
<1>4. CASE ~runs[r].snap.started
  <2>1. UNCHANGED manifest
    BY <1>4 DEF Finishes
  <2> QED
    BY <1>2, <1>3, <2>1, QuietStep
<1>5. CASE runs[r].snap.started
  <2>1. manifest' = [run |-> r, entries |-> runs[r].snap.entries]
    BY <1>5 DEF Finishes
  <2>2. manifest' \in [run : 0..MaxRuns, entries : Seq(Entry)]
    <3>1. r \in 0..MaxRuns
      BY Members, SessionAssumption DEF SessionInv, BatchesFit
    <3>2. runs[r].snap.entries \in Seq(Entry)
      BY Members
    <3> QED
      BY <2>1, <3>1, <3>2
  <2>3. r \in DOMAIN runs' /\ runs'[r].state = "over" /\ runs'[r].snap = runs[r].snap
    BY <1>2 DEF QuietRuns
  <2>4. Prefix(runs[r].snap.entries, runs[r].snap.entries)
    BY Members, LenProperties DEF Prefix
  <2>5. ASSUME NEW c \in DOMAIN calls, calls[c].run = r, calls[c].kind \in Changing, calls[c].changed
        PROVE  calls[c].path \in Covered(runs[r].snap.entries)
    BY <2>5 DEF SessionInv, CallsAreSound, CallIsSound, OnRecord, RunOf
  <2>6. ManifestIsSound'
    BY <1>2, <2>1, <2>3, <2>4, <2>5 DEF ManifestIsSound, RunOf
  <2> QED
    BY <1>2, <1>3, <2>2, <2>6, QuietMost
<1> QED
  BY <1>4, <1>5

LEMMA BeginCallKeeps == ASSUME SessionInv, NEW r \in DOMAIN runs, BeginCall(r) PROVE SessionInv'
<1> DEFINE n == Len(calls) + 1
           request == Head(runs[r].queue)
           call == [run |-> r, kind |-> request.kind, path |-> request.path,
                    stage |-> "gate", barred |-> FALSE, changed |-> FALSE]
           e == [runs[r] EXCEPT !.active = n, !.queue = Tail(@)]
<1>1. /\ runs[r].state = "batch" /\ runs[r].active = NoCall /\ runs[r].queue # <<>>
      /\ calls' = Append(calls, call) /\ runs' = [runs EXCEPT ![r].active = n, ![r].queue = Tail(@)]
      /\ UNCHANGED <<files, blobs, manifest, view>>
  BY DEF BeginCall, Active
<1>2. /\ runs[r] \in Run /\ runs[r].queue \in Seq(Request) /\ Len(runs[r].queue) >= 1 /\ Len(runs[r].queue) \in Nat
      /\ Len(calls) + Len(runs[r].queue) <= MaxCalls /\ \A q \in DOMAIN runs \ {r} : runs[q].queue = <<>>
  <2>1. runs[r] \in Run /\ runs[r].queue \in Seq(Request)
    BY Members DEF Run
  <2>2. Len(runs[r].queue) >= 1 /\ Len(runs[r].queue) \in Nat
    BY <1>1, <2>1, EmptySeq, LenProperties
  <2> QED
    BY <1>1, <2>1, <2>2 DEF SessionInv, BatchesFit
<1>3. request \in Request /\ Tail(runs[r].queue) \in Seq(Request) /\ Len(Tail(runs[r].queue)) = Len(runs[r].queue) - 1
  BY <1>1, <1>2, HeadTailProperties
<1>4. n \in 1..MaxCalls /\ r \in 1..MaxRuns
  BY <1>2, Members, SessionAssumption DEF SessionInv, BatchesFit
<1>5. call \in Call /\ call.run = r /\ call.stage = "gate" /\ ~call.changed
  <2>1. request.kind \in Kinds /\ request.path \in Paths
    BY <1>3 DEF Request
  <2> HIDE DEF request, n
  <2> QED
    BY <1>4, <2>1 DEF Call
<1>6. /\ e \in Run /\ e.state = "batch" /\ e.queue = Tail(runs[r].queue) /\ e.active = n /\ e.snap = runs[r].snap
      /\ e.before = runs[r].before /\ e.meddled = runs[r].meddled
  <2>1. n \in 0..MaxCalls
    BY <1>4
  <2> HIDE DEF n
  <2> QED
    BY <1>1, <1>2, <1>3, <2>1 DEF Run
<1>7. /\ calls' \in Seq(Call) /\ Len(calls') = n /\ DOMAIN calls' = DOMAIN calls \cup {n} /\ n \notin DOMAIN calls
      /\ calls'[n] = call /\ \A c \in DOMAIN calls : calls'[c] = calls[c]
  <2> DEFINE t == Append(calls, call)
  <2>1. /\ t \in Seq(Call) /\ Len(t) = n /\ DOMAIN t = DOMAIN calls \cup {n} /\ n \notin DOMAIN calls
        /\ t[n] = call /\ \A c \in DOMAIN calls : t[c] = calls[c]
    BY <1>5, Members, OneAppended
  <2>2. calls' = t
    BY <1>1
  <2> HIDE DEF t, call, n
  <2> QED
    BY <2>1, <2>2
<1>8. /\ runs' \in Seq(Run) /\ Len(runs') = Len(runs) /\ DOMAIN runs' = DOMAIN runs
      /\ runs'[r] = e /\ \A q \in DOMAIN runs \ {r} : runs'[q] = runs[q]
  <2> DEFINE t == [runs EXCEPT ![r] = e]
  <2>1. /\ t \in Seq(Run) /\ Len(t) = Len(runs) /\ DOMAIN t = DOMAIN runs
        /\ t[r] = e /\ \A q \in DOMAIN runs \ {r} : t[q] = runs[q]
    BY <1>6, Members, OneReplaced
  <2>2. runs' = t
    BY <1>1
  <2> HIDE DEF t, e
  <2> QED
    BY <2>1, <2>2
<1> HIDE DEF n, call, e, request
<1>t. TypeOK'
  BY <1>1, <1>7, <1>8 DEF SessionInv, TypeOK
<1>b. BatchesFit'
  <2>1. Len(runs') <= MaxRuns /\ Len(calls') <= MaxCalls
    BY <1>4, <1>7, <1>8 DEF SessionInv, BatchesFit
  <2>2. \A q \in DOMAIN runs' : Len(calls') + Len(runs'[q].queue) <= MaxCalls
    <3>1. Len(calls') + Len(runs'[r].queue) <= MaxCalls
      <4>1. Len(calls') = Len(calls) + 1 /\ Len(runs'[r].queue) = Len(runs[r].queue) - 1
        BY <1>3, <1>6, <1>7, <1>8 DEF n
      <4>2. Len(calls) \in Nat
        BY Members
      <4>3. \A a, b, m \in Nat : a + b <= m => (a + 1) + (b - 1) <= m
        OBVIOUS
      <4>4. Len(runs[r].queue) \in Nat /\ MaxCalls \in Nat /\ Len(calls) + Len(runs[r].queue) <= MaxCalls
        BY <1>2, SessionAssumption
      <4>5. (Len(calls) + 1) + (Len(runs[r].queue) - 1) <= MaxCalls
        BY <4>2, <4>3, <4>4
      <4> QED
        BY <4>1, <4>5
    <3>2. ASSUME NEW q \in DOMAIN runs \ {r} PROVE Len(calls') + Len(runs'[q].queue) <= MaxCalls
      <4>1. Len(runs'[q].queue) = 0
        BY <1>2, <1>8
      <4> QED
        BY <2>1, <4>1, <1>4, <1>7
    <3> QED
      BY <1>8, <3>1, <3>2
  <2>3. \A q, s \in DOMAIN runs' : runs'[q].queue # <<>> /\ runs'[s].queue # <<>> => q = s
    BY <1>2, <1>8
  <2> QED
    BY <2>1, <2>2, <2>3 DEF BatchesFit
<1>w. WaitsInBatches'
  BY <1>6, <1>8 DEF WaitsInBatches, Active, SessionInv
<1>s. \A q \in DOMAIN runs : /\ runs'[q].snap = runs[q].snap /\ runs'[q].before = runs[q].before
                             /\ runs'[q].meddled = runs[q].meddled /\ runs'[q].state = runs[q].state
  BY <1>1, <1>6, <1>8
<1>c. CallsAreSound'
  <2>1. ASSUME NEW c, c = n PROVE CallIsSound(c)'
    <3>1. calls'[c] = call /\ calls'[c].run = r /\ runs'[r].active = c
      BY <1>5, <1>6, <1>7, <1>8, <2>1
    <3> QED
      BY <1>5, <1>8, <3>1 DEF CallIsSound, RunOf, Active
  <2>2. ASSUME NEW c \in DOMAIN calls PROVE CallIsSound(c)'
    <3>1. CallIsSound(c) /\ calls'[c] = calls[c] /\ RunOf(c)' = RunOf(c) /\ RunOf(c) \in DOMAIN runs
      BY <1>7 DEF SessionInv, CallsAreSound, CallIsSound, RunOf
    <3>2. runs'[RunOf(c)].snap = runs[RunOf(c)].snap
      BY <1>s, <3>1
    <3>3. calls[c].stage # "over" /\ ~calls[c].barred => runs'[RunOf(c)].active = c
      BY <1>1, <1>8, <3>1, Members DEF CallIsSound, Active
    <3> QED
      BY <3>1, <3>2, <3>3, <1>8 DEF CallIsSound, Active, OnRecord
  <2> QED
    BY <1>7, <2>1, <2>2 DEF CallsAreSound
<1>n. SnapsAreSound'
  BY <1>1, <1>8, <1>s, QuietSnaps DEF SessionInv
<1>m. ManifestIsSound'
  BY <1>1, <1>5, <1>7, <1>8, <1>s, ManifestStays DEF SessionInv, TypeOK
<1>v. ViewIsSound'
  <2>1. n \notin {UndoOf, None}
    BY <1>4 DEF UndoOf, None
  <2> QED
    BY <1>1, <1>7, <1>8, <2>1 DEF ViewIsSound, SessionInv
<1> QED
  BY <1>t, <1>b, <1>w, <1>c, <1>n, <1>m, <1>v DEF SessionInv

LEMMA SubmitTaskKeeps == ASSUME SessionInv, SubmitTask PROVE SessionInv'
<1> DEFINE n == Len(runs) + 1
           run == [state |-> "model", queue |-> <<>>, active |-> NoCall, watched |-> TRUE, snap |-> Untaken,
                   before |-> files, meddled |-> {}]
<1>1. /\ Len(runs) < MaxRuns /\ runs' = Append(runs, run) /\ view' = [view EXCEPT !.typing = FALSE, !.running = n]
      /\ UNCHANGED <<files, calls, blobs, manifest>>
  BY DEF SubmitTask
<1>2. n \in 0..MaxRuns
  BY <1>1, Members, SessionAssumption
<1>3. run \in Run
  <2>1. files \in [Paths -> Content] /\ NoCall \in 0..MaxCalls
    BY SessionAssumption DEF SessionInv, TypeOK, NoCall
  <2>2. Untaken \in Snap
    BY DEF Untaken, Snap
  <2> QED
    BY <2>1, <2>2 DEF Run
<1>4. /\ run.state = "model" /\ run.queue = <<>> /\ run.active = NoCall /\ run.snap.entries = <<>>
      /\ run.before = files
  BY DEF Untaken
<1> HIDE DEF run
<1>5. /\ runs' \in Seq(Run) /\ Len(runs') = n /\ DOMAIN runs' = DOMAIN runs \cup {n} /\ n \notin DOMAIN runs
      /\ runs'[n] = run /\ \A q \in DOMAIN runs : runs'[q] = runs[q]
  <2> DEFINE t == Append(runs, run)
  <2>1. /\ t \in Seq(Run) /\ Len(t) = n /\ DOMAIN t = DOMAIN runs \cup {n} /\ n \notin DOMAIN runs
        /\ t[n] = run /\ \A q \in DOMAIN runs : t[q] = runs[q]
    BY <1>3, Members, OneAppended
  <2>2. runs' = t
    BY <1>1
  <2> HIDE DEF t, n
  <2> QED
    BY <2>1, <2>2
<1>v. view' \in View /\ view'.running = n /\ view'.pending = view.pending
  <2>1. view \in View
    BY Members
  <2> HIDE DEF n
  <2> QED
    BY <1>1, <1>2, <2>1 DEF View
<1>6. n <= MaxRuns /\ n \in 0..Len(runs')
  BY <1>2, <1>5
<1> HIDE DEF n
<1>t. TypeOK'
  BY <1>1, <1>5, <1>v DEF SessionInv, TypeOK
<1>b. BatchesFit'
  <2>1. Len(calls) <= MaxCalls /\ Len(calls) \in Nat /\ Len(run.queue) = 0
    BY <1>4, Members DEF SessionInv, BatchesFit
  <2>2. Len(calls) + Len(run.queue) <= MaxCalls
    BY <2>1
  <2> QED
    BY <1>1, <1>4, <1>5, <1>6, <2>1, <2>2 DEF SessionInv, BatchesFit
<1>w. WaitsInBatches'
  BY <1>4, <1>5 DEF SessionInv, WaitsInBatches, Active
<1>c. CallsAreSound'
  BY <1>1, <1>5 DEF SessionInv, CallsAreSound, CallIsSound, RunOf, Active
<1>n. SnapsAreSound'
  <2>1. ASSUME NEW q \in DOMAIN runs PROVE SnapIsSound(q)'
    <3>1. SoleRun(q)' => SoleRun(q)
      BY <1>5 DEF SoleRun
    <3> QED
      BY <1>1, <1>5, <3>1 DEF SessionInv, SnapsAreSound, SnapIsSound
  <2>2. ASSUME NEW q, q = n PROVE SnapIsSound(q)'
    BY <1>1, <1>4, <1>5, <2>2 DEF SnapIsSound, Orderly
  <2> QED
    BY <1>5, <2>1, <2>2 DEF SnapsAreSound
<1>m. ManifestIsSound'
  BY <1>1, <1>5, ManifestStays DEF SessionInv, TypeOK
<1>z. ViewIsSound'
  BY <1>1, <1>6, <1>v DEF ViewIsSound, SessionInv
<1> QED
  BY <1>t, <1>b, <1>w, <1>c, <1>n, <1>m, <1>z DEF SessionInv

-----------------------------------------------------------------------------
(* Work begins, and files change.                                           *)
LEMMA SnapSet ==
  ASSUME NEW rs \in Seq(Run), NEW r \in DOMAIN rs, NEW snap \in Snap
  PROVE  LET t == [rs EXCEPT ![r].snap = snap]
         IN /\ t \in Seq(Run) /\ Len(t) = Len(rs) /\ DOMAIN t = DOMAIN rs
            /\ t[r].snap = snap /\ t[r].state = rs[r].state /\ t[r].queue = rs[r].queue /\ t[r].active = rs[r].active
            /\ t[r].before = rs[r].before /\ t[r].meddled = rs[r].meddled
            /\ \A q \in DOMAIN rs \ {r} : t[q] = rs[q]
<1> DEFINE e == [rs[r] EXCEPT !.snap = snap]
           t == [rs EXCEPT ![r].snap = snap]
<1>1. rs[r] \in Run
  BY ElementOfSeq, LenProperties
<1>2. /\ e \in Run /\ e.snap = snap /\ e.state = rs[r].state /\ e.queue = rs[r].queue /\ e.active = rs[r].active
      /\ e.before = rs[r].before /\ e.meddled = rs[r].meddled
  BY <1>1 DEF Run
<1>3. t = [rs EXCEPT ![r] = e]
  OBVIOUS
<1> HIDE DEF e, t
<1>4. t \in Seq(Run) /\ Len(t) = Len(rs) /\ DOMAIN t = DOMAIN rs /\ t[r] = e /\ \A q \in DOMAIN rs \ {r} : t[q] = rs[q]
  BY <1>2, <1>3, OneReplaced
<1> QED
  BY <1>2, <1>4 DEF t

(* t is rs, but that runs other than q know of changes to S.                *)
MeddlesOnly(rs, t, S, q) ==
  /\ t \in Seq(Run) /\ Len(t) = Len(rs) /\ DOMAIN t = DOMAIN rs
  /\ \A r \in DOMAIN rs :
       /\ t[r].state = rs[r].state /\ t[r].queue = rs[r].queue /\ t[r].active = rs[r].active
       /\ t[r].snap = rs[r].snap /\ t[r].before = rs[r].before
       /\ r = q => t[r].meddled = rs[r].meddled
       /\ r # q => t[r].meddled = rs[r].meddled \cup S
LEMMA Meddles ==
  ASSUME NEW rs \in Seq(Run), NEW S, S \subseteq Paths, NEW q \in Nat
  PROVE  MeddlesOnly(rs, Meddled(rs, S, q), S, q)
<1> DEFINE t == Meddled(rs, S, q)
<1>1. DOMAIN t = DOMAIN rs /\ t = [i \in DOMAIN rs |-> t[i]]
  BY DEF Meddled
<1>2. \A r \in DOMAIN rs : rs[r] \in Run
  BY ElementOfSeq, LenProperties
<1>3. ASSUME NEW r \in DOMAIN rs
      PROVE  /\ t[r] \in Run
             /\ t[r].state = rs[r].state /\ t[r].queue = rs[r].queue /\ t[r].active = rs[r].active
             /\ t[r].snap = rs[r].snap /\ t[r].before = rs[r].before
             /\ r = q => t[r].meddled = rs[r].meddled
             /\ r # q => t[r].meddled = rs[r].meddled \cup S
  <2>1. t[r] = IF r = q THEN rs[r] ELSE [rs[r] EXCEPT !.meddled = @ \cup S]
    BY DEF Meddled
  <2>2. rs[r] \in Run /\ rs[r].meddled \cup S \in SUBSET Paths
    BY <1>2 DEF Run
  <2>3. CASE r = q
    BY <2>1, <2>2, <2>3
  <2>4. CASE r # q
    <3> DEFINE m == rs[r].meddled \cup S
    <3>1. m \in SUBSET Paths /\ t[r] = [rs[r] EXCEPT !.meddled = m]
      BY <2>1, <2>2, <2>4
    <3> HIDE DEF m, t
    <3>2. /\ t[r] \in Run /\ t[r].meddled = m
          /\ t[r].state = rs[r].state /\ t[r].queue = rs[r].queue /\ t[r].active = rs[r].active
          /\ t[r].snap = rs[r].snap /\ t[r].before = rs[r].before
      BY <2>2, <3>1 DEF Run
    <3> QED
      BY <2>4, <3>2 DEF m
  <2> QED
    BY <2>3, <2>4
<1> HIDE DEF t
<1>4. t \in Seq(Run) /\ Len(t) = Len(rs)
  <2>1. \A i \in DOMAIN rs : t[i] \in Run
    BY <1>3
  <2> QED
    BY <1>1, <2>1, AllReplaced
<1>5. /\ t \in Seq(Run) /\ Len(t) = Len(rs) /\ DOMAIN t = DOMAIN rs
      /\ \A r \in DOMAIN rs :
           /\ t[r].state = rs[r].state /\ t[r].queue = rs[r].queue /\ t[r].active = rs[r].active
           /\ t[r].snap = rs[r].snap /\ t[r].before = rs[r].before
           /\ r = q => t[r].meddled = rs[r].meddled
           /\ r # q => t[r].meddled = rs[r].meddled \cup S
  BY <1>1, <1>3, <1>4
<1> QED
  BY <1>5 DEF MeddlesOnly, t

(* t is rs once call c, that changed p for run q, is over.                  *)
Told(rs, t, c, p, q) ==
  /\ t \in Seq(Run) /\ Len(t) = Len(rs) /\ DOMAIN t = DOMAIN rs
  /\ \A r \in DOMAIN rs :
       /\ t[r].state = rs[r].state /\ t[r].queue = rs[r].queue /\ t[r].snap = rs[r].snap
       /\ t[r].before = rs[r].before /\ t[r].active \in {rs[r].active, NoCall}
       /\ rs[r].active # c => t[r].active = rs[r].active
       /\ r = q => t[r].meddled = rs[r].meddled
       /\ r # q => t[r].meddled = rs[r].meddled \cup {p}
LEMMA ToldAndMeddled ==
  ASSUME NEW rs \in Seq(Run), NEW c, NEW p \in Paths, NEW q \in Nat
  PROVE  Told(rs, Meddled(Release(rs, {c}), {p}, q), c, p, q)
<1> DEFINE us == Release(rs, {c})  S == {p}  t == Meddled(us, S, q)
<1>1. /\ us \in Seq(Run) /\ Len(us) = Len(rs) /\ DOMAIN us = DOMAIN rs
      /\ \A r \in DOMAIN rs :
           /\ us[r].state = rs[r].state /\ us[r].queue = rs[r].queue /\ us[r].snap = rs[r].snap
           /\ us[r].before = rs[r].before /\ us[r].meddled = rs[r].meddled
           /\ us[r].active = IF rs[r].active \in {c} THEN NoCall ELSE rs[r].active
  BY Releases
<1>2. S \subseteq Paths
  OBVIOUS
<1>3. \A r \in DOMAIN rs : us[r].active \in {rs[r].active, NoCall} /\ (rs[r].active # c => us[r].active = rs[r].active)
  BY <1>1
<1> HIDE DEF us, S
<1>4. MeddlesOnly(us, t, S, q)
  BY <1>1, <1>2, Meddles
<1> HIDE DEF t
<1>5. /\ t \in Seq(Run) /\ Len(t) = Len(rs) /\ DOMAIN t = DOMAIN rs
      /\ \A r \in DOMAIN rs :
           /\ t[r].state = rs[r].state /\ t[r].queue = rs[r].queue /\ t[r].snap = rs[r].snap
           /\ t[r].before = rs[r].before /\ t[r].active \in {rs[r].active, NoCall}
           /\ rs[r].active # c => t[r].active = rs[r].active
           /\ r = q => t[r].meddled = rs[r].meddled
           /\ r # q => t[r].meddled = rs[r].meddled \cup {p}
  BY <1>1, <1>3, <1>4 DEF S, MeddlesOnly
<1> QED
  BY <1>5 DEF Told, t, us, S

LEMMA OthersStaySound ==
  ASSUME SessionInv, NEW c \in DOMAIN calls, DOMAIN runs' = DOMAIN runs, DOMAIN calls' = DOMAIN calls,
         \A d \in DOMAIN calls \ {c} : calls'[d] = calls[d],
         \A r \in DOMAIN runs :
           /\ runs[r].active # c => runs'[r].active = runs[r].active
           /\ Covered(runs[r].snap.entries) \subseteq Covered(runs'[r].snap.entries)
           /\ runs[r].snap.noted => runs'[r].snap.noted,
         CallIsSound(c)'
  PROVE  CallsAreSound'
<1> SUFFICES ASSUME NEW d \in DOMAIN calls \ {c} PROVE CallIsSound(d)'
  BY DEF CallsAreSound
<1>1. CallIsSound(d) /\ RunOf(d) \in DOMAIN runs /\ RunOf(d)' = RunOf(d) /\ calls'[d] = calls[d]
  BY DEF SessionInv, CallsAreSound, CallIsSound, RunOf
<1>2. OnRecord(runs[RunOf(d)].snap, calls[d]) => OnRecord(runs'[RunOf(d)].snap, calls'[d])
  BY <1>1 DEF OnRecord
<1> QED
  BY <1>1, <1>2 DEF CallIsSound, Active

LEMMA SnapsStay ==
  ASSUME SnapsAreSound, UNCHANGED blobs, DOMAIN runs' = DOMAIN runs,
         \A r \in DOMAIN runs :
           /\ runs'[r].snap.entries = runs[r].snap.entries /\ runs'[r].before = runs[r].before
           /\ runs[r].meddled \subseteq runs'[r].meddled
           /\ \A p \in Paths : files'[p] # files[p] => p \in runs'[r].meddled \cup Covered(runs[r].snap.entries)
  PROVE  SnapsAreSound'
<1> SUFFICES ASSUME NEW r \in DOMAIN runs PROVE SnapIsSound(r)'
  BY DEF SnapsAreSound
<1>1. SoleRun(r)' => SoleRun(r)
  BY DEF SoleRun
<1>2. SnapIsSound(r)
  BY DEF SnapsAreSound
<1>3. Orderly(runs'[r].snap.entries)
  BY <1>2 DEF SnapIsSound
<1>4. ASSUME NEW p \in Paths \ (runs'[r].meddled \cup Covered(runs'[r].snap.entries)) PROVE files'[p] = runs'[r].before[p]
  BY <1>2, <1>4 DEF SnapIsSound
<1>5. ASSUME SoleRun(r)', NEW i \in DOMAIN runs'[r].snap.entries, runs'[r].snap.entries[i].existed,
             runs'[r].snap.entries[i].path \notin runs'[r].meddled
      PROVE  blobs'[runs'[r].snap.entries[i].blob] = runs'[r].before[runs'[r].snap.entries[i].path]
  BY <1>1, <1>2, <1>5 DEF SnapIsSound
<1> QED
  BY <1>3, <1>4, <1>5 DEF SnapIsSound

(* A call that is not over goes on: what it is about to change is on record *)
(* first.                                                                   *)
LEMMA CallGoesOn ==
  ASSUME SessionInv, NEW c \in DOMAIN calls, NEW snap \in Snap, NEW x \in {"reading", "writing", "running"},
         calls[c].stage # "over", calls' = [calls EXCEPT ![c].stage = x], runs' = [runs EXCEPT ![RunOf(c)].snap = snap],
         UNCHANGED <<files, manifest>>, blobs' \in [1..Cardinality(Paths) -> Content], SnapsAreSound',
         \/ UNCHANGED view /\ calls[c].stage # "asked"
         \/ view' = [view EXCEPT !.pending = None],
         Prefix(runs[RunOf(c)].snap.entries, snap.entries), runs[RunOf(c)].snap.noted => snap.noted,
         x = "reading" => calls[c].kind = "edit",
         x = "writing" => calls[c].kind \in Changing, x = "running" => calls[c].kind \notin Changing,
         x # "reading" => OnRecord(snap, calls[c])
  PROVE  SessionInv'
<1> DEFINE r == calls[c].run
           cs == [calls EXCEPT ![c].stage = x]
           rs == [runs EXCEPT ![r].snap = snap]
<1>1. r \in DOMAIN runs /\ RunOf(c) = r
  BY Members DEF RunOf
<1>2. /\ cs \in Seq(Call) /\ Len(cs) = Len(calls) /\ DOMAIN cs = DOMAIN calls
      /\ cs[c].stage = x /\ cs[c].run = calls[c].run /\ cs[c].kind = calls[c].kind /\ cs[c].path = calls[c].path
      /\ cs[c].changed = calls[c].changed /\ cs[c].barred = calls[c].barred
      /\ \A d \in DOMAIN calls \ {c} : cs[d] = calls[d]
  <2>1. x \in Stages
    BY DEF Stages
  <2> QED
    BY <2>1, Members, StageSet
<1>3. /\ rs \in Seq(Run) /\ Len(rs) = Len(runs) /\ DOMAIN rs = DOMAIN runs
      /\ rs[r].snap = snap /\ rs[r].state = runs[r].state /\ rs[r].queue = runs[r].queue /\ rs[r].active = runs[r].active
      /\ rs[r].before = runs[r].before /\ rs[r].meddled = runs[r].meddled
      /\ \A q \in DOMAIN runs \ {r} : rs[q] = runs[q]
  BY <1>1, Members, SnapSet
<1>4. calls' = cs /\ runs' = rs
  BY <1>1
<1>5. \A q \in DOMAIN runs : /\ rs[q].state = runs[q].state /\ rs[q].queue = runs[q].queue /\ rs[q].active = runs[q].active
                             /\ Prefix(runs[q].snap.entries, rs[q].snap.entries)
                             /\ runs[q].snap.noted => rs[q].snap.noted
  <2>1. \A q \in DOMAIN runs : Prefix(runs[q].snap.entries, runs[q].snap.entries)
    BY Members, LenProperties DEF Prefix
  <2> HIDE DEF rs, r
  <2> QED
    BY <1>1, <1>3, <2>1
<1>6. \A q \in DOMAIN runs : rs[q].snap.entries \in Seq(Entry)
  <2>1. snap.entries \in Seq(Entry)
    BY DEF Snap
  <2> HIDE DEF rs, r
  <2> QED
    BY <1>1, <1>3, <2>1, Members
<1> HIDE DEF cs, rs, r
<1>v. view' \in View /\ ViewIsSound'
  <2>1. view'.pending = c => calls[c].stage # "asked"
    BY Members DEF View, None, NoCall
  <2> QED
    BY <1>2, <1>3, <1>4, <2>1, Members, ViewStays DEF SessionInv
<1>t. TypeOK'
  BY <1>2, <1>3, <1>4, <1>v DEF SessionInv, TypeOK
<1>b. BatchesFit'
  BY <1>2, <1>3, <1>4, <1>5, BatchesStay DEF SessionInv
<1>w. WaitsInBatches'
  BY <1>3, <1>4, <1>5 DEF SessionInv, WaitsInBatches, Active
<1>c. CallsAreSound'
  <2>1. \A q \in DOMAIN runs : Covered(runs[q].snap.entries) \subseteq Covered(rs[q].snap.entries)
    BY <1>5, <1>6, Members, CoveredGrows
  <2>2. CallIsSound(c)'
    <3>1. CallIsSound(c) /\ calls[c].changed = FALSE
      BY Members DEF SessionInv, CallsAreSound, CallIsSound, Call
    <3>2. RunOf(c)' = r /\ r \in DOMAIN runs' /\ runs'[r].active = runs[r].active /\ runs'[r].snap = snap
      BY <1>1, <1>2, <1>3, <1>4 DEF RunOf, r
    <3>3. x # "reading" => OnRecord(snap, calls'[c])
      BY <1>2, <1>4 DEF OnRecord
    <3> QED
      BY <1>1, <1>2, <1>4, <3>1, <3>2, <3>3 DEF CallIsSound, Active
  <2>3. DOMAIN runs' = DOMAIN runs /\ DOMAIN calls' = DOMAIN calls
    BY <1>2, <1>3, <1>4
  <2>4. \A d \in DOMAIN calls \ {c} : calls'[d] = calls[d]
    BY <1>2, <1>4
  <2>5. \A q \in DOMAIN runs :
          /\ runs'[q].active = runs[q].active /\ runs[q].snap.noted => runs'[q].snap.noted
          /\ Covered(runs[q].snap.entries) \subseteq Covered(runs'[q].snap.entries)
    BY <1>4, <1>5, <2>1
  <2> QED
    BY <2>2, <2>3, <2>4, <2>5, OthersStaySound
<1>m. ManifestIsSound'
  <2>1. \A q \in DOMAIN runs : \A s \in Seq(Entry) :
          Prefix(s, runs[q].snap.entries) => Prefix(s, rs[q].snap.entries)
    BY <1>5, <1>6, Members, PrefixOfPrefix
  <2>2. manifest.entries \in Seq(Entry)
    BY DEF SessionInv, TypeOK
  <2>3. \A d \in DOMAIN calls :
          /\ calls'[d].run = calls[d].run /\ calls'[d].kind = calls[d].kind /\ calls'[d].path = calls[d].path
          /\ calls'[d].barred = calls[d].barred /\ calls'[d].changed = calls[d].changed
    BY <1>2, <1>4
  <2>4. \A q \in DOMAIN runs :
          /\ runs[q].state = "over" => runs'[q].state = "over"
          /\ \A s \in Seq(Entry) : Prefix(s, runs[q].snap.entries) => Prefix(s, runs'[q].snap.entries)
    BY <1>4, <1>5, <2>1
  <2>5. DOMAIN runs' = DOMAIN runs /\ DOMAIN calls' = DOMAIN calls
    BY <1>2, <1>3, <1>4
  <2>6. ManifestIsSound
    BY DEF SessionInv
  <2> QED
    BY <2>2, <2>3, <2>4, <2>5, <2>6, ManifestStays
<1> QED
  BY <1>t, <1>b, <1>w, <1>c, <1>m, <1>v DEF SessionInv

(* A capture of a path that has no entry yet keeps the snapshots sound: its *)
(* own bytes go to a blob of their own, unless another run has one there.   *)
LEMMA CapturedSnaps ==
  ASSUME SessionInv, NEW r \in DOMAIN runs, NEW p \in Paths, NEW copied \in BOOLEAN,
         p \notin Covered(runs[r].snap.entries), UNCHANGED files,
         runs' = [runs EXCEPT ![r].snap = Captured(runs[r].snap, p, files[p], copied)],
         blobs' = LET b == BlobFor(runs[r].snap, p, files[p], copied)
                  IN IF b = NoBlob THEN blobs ELSE [blobs EXCEPT ![b] = files[p]]
  PROVE  SnapsAreSound' /\ blobs' \in [1..Cardinality(Paths) -> Content]
<1> DEFINE old == runs[r].snap
           b == BlobFor(old, p, files[p], copied)
           e == [path |-> p, existed |-> files[p] # Absent /\ copied, blob |-> b]
           n == Len(old.entries) + 1
           new == Captured(old, p, files[p], copied)
<1>1. old \in Snap /\ Orderly(old.entries) /\ p \notin Covered(old.entries)
  BY Members DEF SessionInv, SnapsAreSound, SnapIsSound
<1>2. /\ e \in Entry /\ b \in {NoBlob, n} /\ n \in 1..Cardinality(Paths)
      /\ new \in Snap /\ DOMAIN new.entries = DOMAIN old.entries \cup {n} /\ n \notin DOMAIN old.entries
      /\ new.entries[n] = e /\ \A i \in DOMAIN old.entries : new.entries[i] = old.entries[i]
      /\ Orderly(new.entries) /\ Covered(new.entries) = Covered(old.entries) \cup {p}
  <2> HIDE DEF old
  <2> QED
    BY <1>1, CaptureAdds
<1>3. e.path = p /\ e.blob = b /\ (e.existed => b = n)
  BY <1>1, <1>2 DEF BlobFor
<1>4. n # NoBlob /\ b = NoBlob => blobs' = blobs
  BY <1>2
<1>5. b = n => blobs' = [blobs EXCEPT ![n] = files[p]]
  BY <1>2 DEF NoBlob
<1>6. runs' = [runs EXCEPT ![r].snap = new]
  OBVIOUS
<1>7. DOMAIN old.entries = 1..Len(old.entries) /\ Len(old.entries) \in Nat
  BY Members, LenProperties
<1> HIDE DEF new, e, b
<1>8. /\ DOMAIN runs' = DOMAIN runs /\ runs'[r].snap = new /\ runs'[r].before = runs[r].before
      /\ runs'[r].meddled = runs[r].meddled /\ \A q \in DOMAIN runs \ {r} : runs'[q] = runs[q]
  <2> DEFINE t == [runs EXCEPT ![r].snap = new]
  <2>1. /\ DOMAIN t = DOMAIN runs /\ t[r].snap = new /\ t[r].before = runs[r].before
        /\ t[r].meddled = runs[r].meddled /\ \A q \in DOMAIN runs \ {r} : t[q] = runs[q]
    BY <1>2, Members, SnapSet
  <2>2. runs' = t
    BY <1>6
  <2> HIDE DEF t
  <2> QED
    BY <2>1, <2>2
<1>b. blobs \in [1..Cardinality(Paths) -> Content] /\ files[p] \in Content
  BY DEF SessionInv, TypeOK
<1>t. blobs' \in [1..Cardinality(Paths) -> Content]
  <2> HIDE DEF n
  <2> QED
    BY <1>2, <1>4, <1>5, <1>b DEF NoBlob
<1> HIDE DEF n, old
<1>9. n # NoBlob /\ n \in 1..Cardinality(Paths)
  BY <1>2 DEF NoBlob
<1>10. \A q \in DOMAIN runs : SoleRun(q)' => SoleRun(q)
  <2> SUFFICES ASSUME NEW q \in DOMAIN runs, SoleRun(q)', NEW s \in DOMAIN runs \ {q}, NEW i \in DOMAIN runs[s].snap.entries
               PROVE  runs[s].snap.entries[i].blob = NoBlob
    BY DEF SoleRun
  <2>1. i \in DOMAIN runs'[s].snap.entries /\ runs'[s].snap.entries[i] = runs[s].snap.entries[i]
    BY <1>2, <1>8 DEF old
  <2> QED
    BY <1>8, <2>1 DEF SoleRun
<1>11. ASSUME NEW q \in DOMAIN runs \ {r} PROVE SnapIsSound(q)'
  <2>1. SoleRun(q)' => SoleRun(q) /\ UNCHANGED blobs
    <3>1. ASSUME SoleRun(q)' PROVE b = NoBlob
      <4>1. r \in DOMAIN runs' \ {q} /\ n \in DOMAIN runs'[r].snap.entries /\ runs'[r].snap.entries[n].blob = b
        BY <1>2, <1>3, <1>8
      <4> QED
        BY <3>1, <4>1 DEF SoleRun
    <3> QED
      BY <1>4, <1>9, <1>10, <3>1
  <2> QED
    BY <1>8, <2>1 DEF SessionInv, SnapsAreSound, SnapIsSound
<1>12. SnapIsSound(r)'
  <2>1. Orderly(runs'[r].snap.entries)
    BY <1>2, <1>8
  <2>2. SnapIsSound(r)
    BY DEF SessionInv, SnapsAreSound
  <2>3. \A x \in Paths \ (runs'[r].meddled \cup Covered(runs'[r].snap.entries)) : files'[x] = runs'[r].before[x]
    BY <1>2, <1>8, <2>2 DEF SnapIsSound, old
  <2>4. ASSUME SoleRun(r)', NEW i \in DOMAIN new.entries, new.entries[i].existed, new.entries[i].path \notin runs[r].meddled
        PROVE  blobs'[new.entries[i].blob] = runs[r].before[new.entries[i].path]
    <3>1. CASE i = n
      <4>1. b = n /\ new.entries[i].blob = n /\ new.entries[i].path = p
        BY <1>2, <1>3, <2>4, <3>1
      <4>2. files[p] = runs[r].before[p]
        BY <2>2, <2>4, <4>1 DEF SnapIsSound
      <4> QED
        BY <1>5, <1>9, <1>b, <4>1, <4>2
    <3>2. CASE i \in DOMAIN old.entries
      <4>1. new.entries[i] = old.entries[i] /\ old.entries[i].blob \in {NoBlob, i} /\ i # n
        BY <1>1, <1>2, <3>2 DEF Orderly
      <4>2. blobs[old.entries[i].blob] = runs[r].before[old.entries[i].path]
        BY <1>10, <2>2, <2>4, <3>2, <4>1 DEF SnapIsSound, old
      <4>3. old.entries[i].blob # n
        BY <1>9, <4>1
      <4>4. old.entries[i].blob \in DOMAIN blobs
        <5>1. old.entries[i] \in Entry /\ old.entries[i].existed
          BY <1>1, <2>4, <3>2, <4>1, Members, ElementOfSeq, LenProperties DEF old
        <5>2. Cardinality(Paths) \in Nat
          BY SessionAssumption, FS_CardinalityType
        <5> QED
          BY <1>b, <5>1, <5>2 DEF Entry, NoBlob
      <4>5. blobs'[old.entries[i].blob] = blobs[old.entries[i].blob]
        BY <1>2, <1>4, <1>5, <1>9, <4>3, <4>4
      <4> QED
        BY <4>1, <4>2, <4>5
    <3> QED
      BY <1>2, <3>1, <3>2
  <2> QED
    BY <1>8, <2>1, <2>3, <2>4 DEF SnapIsSound
<1> QED
  BY <1>t, <1>8, <1>11, <1>12 DEF SnapsAreSound

LEMMA CaptureKeeps ==
  ASSUME SessionInv, NEW c \in DOMAIN calls, NEW copied \in BOOLEAN, calls[c].stage # "over", calls[c].kind \in Changing,
         Capture(c, copied), calls' = [calls EXCEPT ![c].stage = "writing"], UNCHANGED <<files, manifest>>,
         \/ UNCHANGED view /\ calls[c].stage # "asked"
         \/ view' = [view EXCEPT !.pending = None]
  PROVE  SessionInv'
<1> DEFINE r == RunOf(c)  p == calls[c].path  old == runs[r].snap
           new == Captured(old, p, files[p], copied)
<1>1. r \in DOMAIN runs /\ p \in Paths /\ old \in Snap /\ Orderly(old.entries)
  BY Members DEF RunOf, SessionInv, SnapsAreSound, SnapIsSound
<1>2. /\ runs' = [runs EXCEPT ![r].snap = new]
      /\ blobs' = LET b == BlobFor(old, p, files[p], copied) IN IF b = NoBlob THEN blobs ELSE [blobs EXCEPT ![b] = files[p]]
  BY DEF Capture
<1>3. /\ SnapsAreSound' /\ blobs' \in [1..Cardinality(Paths) -> Content]
      /\ new \in Snap /\ Prefix(old.entries, new.entries) /\ (old.noted => new.noted) /\ p \in Covered(new.entries)
  <2>1. CASE p \in Covered(old.entries)
    <3>1. new = old /\ UNCHANGED blobs
      BY <1>2, <2>1 DEF Captured, BlobFor
    <3>2. \A q \in DOMAIN runs : DOMAIN runs' = DOMAIN runs /\ runs'[q] = runs[q]
      BY <1>1, <1>2, <3>1, Members DEF Run
    <3>3. SnapsAreSound'
      BY <1>1, <3>1, <3>2, SnapsStay DEF SessionInv
    <3>4. Prefix(old.entries, old.entries)
      BY <1>1, Members, LenProperties DEF Prefix
    <3> QED
      BY <1>1, <2>1, <3>1, <3>3, <3>4 DEF SessionInv, TypeOK
  <2>2. CASE p \notin Covered(old.entries)
    <3>1. SnapsAreSound' /\ blobs' \in [1..Cardinality(Paths) -> Content]
      BY <1>1, <1>2, <2>2, CapturedSnaps
    <3>2. /\ new \in Snap /\ Prefix(old.entries, new.entries) /\ (old.noted => new.noted)
          /\ Covered(new.entries) = Covered(old.entries) \cup {p}
      <4> DEFINE b == BlobFor(old, p, files[p], copied)
                 e == [path |-> p, existed |-> files[p] # Absent /\ copied, blob |-> b]
                 n == Len(old.entries) + 1
      <4>1. /\ e \in Entry /\ b \in {NoBlob, n} /\ n \in 1..Cardinality(Paths)
            /\ new \in Snap /\ (old.noted => new.noted)
            /\ Covered(new.entries) = Covered(old.entries) \cup {p} /\ Prefix(old.entries, new.entries)
        <5> HIDE DEF old, p, r
        <5> QED
          BY <1>1, <2>2, CaptureAdds
      <4> HIDE DEF b, e, n, new
      <4> QED
        BY <4>1
    <3> QED
      BY <3>1, <3>2
  <2> QED
    BY <2>1, <2>2
<1> HIDE DEF new
<1>4. OnRecord(new, calls[c])
  BY <1>3 DEF OnRecord
<1> QED
  BY <1>2, <1>3, <1>4, CallGoesOn

LEMMA GrantKeeps ==
  ASSUME SessionInv, NEW c \in DOMAIN calls, calls[c].stage \in {"gate", "asked"}, Grant(c), UNCHANGED <<files, manifest>>,
         \/ UNCHANGED view /\ calls[c].stage # "asked"
         \/ view' = [view EXCEPT !.pending = None]
  PROVE  SessionInv'
<1> DEFINE old == runs[RunOf(c)].snap
<1>1. RunOf(c) \in DOMAIN runs /\ old \in Snap /\ old.entries \in Seq(Entry) /\ calls[c].kind \in Kinds
  BY Members DEF RunOf, Call
<1>2. Prefix(old.entries, old.entries)
  BY <1>1, LenProperties DEF Prefix
<1>3. CASE calls[c].barred
  BY <1>3, BarredKeeps DEF Grant
<1>4. CASE ~calls[c].barred /\ calls[c].kind = "write"
  <2>1. PICK copied \in Copies : Capture(c, copied)
    BY <1>4 DEF Grant
  <2>2. calls' = [calls EXCEPT ![c].stage = "writing"] /\ copied \in BOOLEAN /\ calls[c].kind \in Changing
    BY <1>4, SessionAssumption DEF Grant, Changing
  <2> QED
    BY <2>1, <2>2, CaptureKeeps
<1>5. CASE ~calls[c].barred /\ calls[c].kind = "edit"
  <2>1. calls' = [calls EXCEPT ![c].stage = "reading"] /\ UNCHANGED <<runs, blobs>>
    BY <1>5 DEF Grant
  <2>2. runs' = [runs EXCEPT ![RunOf(c)].snap = old]
    BY <1>1, <2>1, Members DEF Run
  <2>3. SnapsAreSound'
    BY <2>1, SnapsStay DEF SessionInv
  <2>4. blobs' \in [1..Cardinality(Paths) -> Content]
    BY <2>1 DEF SessionInv, TypeOK
  <2> HIDE DEF old
  <2> QED
    BY <1>1, <1>2, <1>5, <2>1, <2>2, <2>3, <2>4, CallGoesOn DEF old
<1>6. CASE ~calls[c].barred /\ calls[c].kind \notin Changing
  <2>1. /\ calls' = [calls EXCEPT ![c].stage = "running"] /\ UNCHANGED blobs
        /\ runs' = [runs EXCEPT ![RunOf(c)].snap = Noted(@)]
    BY <1>6 DEF Grant, Changing
  <2>2. runs' = [runs EXCEPT ![RunOf(c)].snap = Noted(old)]
    BY <2>1
  <2>3. Noted(old) \in Snap /\ Noted(old).entries = old.entries /\ Noted(old).noted
    BY <1>1 DEF Noted, Snap
  <2>4. \A q \in DOMAIN runs :
          /\ runs'[q].snap.entries = runs[q].snap.entries /\ runs'[q].before = runs[q].before
          /\ runs'[q].meddled = runs[q].meddled
    <3> DEFINE t == [runs EXCEPT ![RunOf(c)].snap = Noted(old)]
    <3>1. /\ t[RunOf(c)].snap = Noted(old) /\ t[RunOf(c)].before = runs[RunOf(c)].before
          /\ t[RunOf(c)].meddled = runs[RunOf(c)].meddled
          /\ \A q \in DOMAIN runs \ {RunOf(c)} : t[q] = runs[q]
      <4> DEFINE r == RunOf(c)  snap == Noted(old)
      <4>1. runs \in Seq(Run) /\ r \in DOMAIN runs /\ snap \in Snap
        BY <1>1, <2>3, Members
      <4> HIDE DEF r, snap
      <4>2. LET u == [runs EXCEPT ![r].snap = snap]
            IN /\ u[r].snap = snap /\ u[r].before = runs[r].before /\ u[r].meddled = runs[r].meddled
               /\ \A q \in DOMAIN runs \ {r} : u[q] = runs[q]
        BY <4>1, SnapSet
      <4> QED
        BY <4>2 DEF r, snap
    <3>2. runs' = t
      BY <2>2
    <3> HIDE DEF t
    <3> QED
      BY <2>3, <3>1, <3>2
  <2>5. SnapsAreSound'
    BY <2>1, <2>4, SnapsStay DEF SessionInv
  <2>6. blobs' \in [1..Cardinality(Paths) -> Content] /\ OnRecord(Noted(old), calls[c])
    BY <1>6, <2>1, <2>3 DEF SessionInv, TypeOK, OnRecord
  <2> QED
    BY <1>2, <1>6, <2>1, <2>2, <2>3, <2>5, <2>6, CallGoesOn
<1> QED
  BY <1>1, <1>3, <1>4, <1>5, <1>6 DEF Changing

LEMMA GateKeeps == ASSUME SessionInv, NEW c \in DOMAIN calls, Gate(c) PROVE SessionInv'
<1>1. calls[c].stage = "gate" /\ UNCHANGED <<files, manifest>>
  BY DEF Gate
<1>2. CASE Grant(c) /\ UNCHANGED view
  BY <1>1, <1>2, GrantKeeps
<1>3. CASE calls' = [calls EXCEPT ![c].stage = "asked"] /\ view' = [view EXCEPT !.pending = c] /\ UNCHANGED <<runs, blobs>>
  BY <1>1, <1>3, AskedKeeps
<1> QED
  BY <1>2, <1>3 DEF Gate

LEMMA EditKeeps == ASSUME SessionInv, NEW c \in DOMAIN calls, Edit(c) PROVE SessionInv'
<1>1. calls[c].stage = "reading" /\ UNCHANGED <<files, manifest, view>> /\ calls[c].kind = "edit"
  BY DEF Edit, SessionInv, CallsAreSound, CallIsSound
<1>2. CASE (\E copied \in Copies : Capture(c, copied)) /\ calls' = [calls EXCEPT ![c].stage = "writing"]
  <2>1. PICK copied \in Copies : Capture(c, copied)
    BY <1>2
  <2>2. copied \in BOOLEAN
    BY SessionAssumption
  <2> QED
    BY <1>1, <1>2, <2>1, <2>2, CaptureKeeps DEF Changing
<1>3. CASE calls' = [calls EXCEPT ![c].stage = "over"] /\ runs' = Release(runs, {c}) /\ UNCHANGED blobs
  BY <1>1, <1>3, CallEndsKeeps
<1> QED
  BY <1>2, <1>3 DEF Edit

LEMMA NoKeeps == ASSUME SessionInv, No PROVE SessionInv'
<1>1. view' = [view EXCEPT !.pending = None] /\ UNCHANGED <<files, manifest>> /\ view.pending # None
  BY DEF No, Deciding
<1>2. CASE view.pending = UndoOf
  <2>1. UNCHANGED <<files, runs, calls, blobs, manifest>>
    BY <1>1, <1>2 DEF No
  <2>2. view' \in View /\ ViewIsSound'
    BY <1>1, <2>1, Members, ViewStays DEF SessionInv
  <2>3. BatchesFit'
    BY <2>1, BatchesStay DEF SessionInv
  <2> QED
    BY <2>1, <2>2, <2>3, SameRuns, SameCalls, QuietStep
<1>3. CASE view.pending # UndoOf
  <2>1. view.pending \in DOMAIN calls
    BY <1>1, <1>3 DEF SessionInv, ViewIsSound
  <2>2. /\ calls' = [calls EXCEPT ![view.pending].stage = "over"]
        /\ runs' = Release(runs, {view.pending}) /\ UNCHANGED blobs
    BY <1>3 DEF No, Decline
  <2>3. PICK c \in DOMAIN calls : c = view.pending
    BY <2>1
  <2> QED
    BY <1>1, <2>2, <2>3, CallEndsKeeps
<1> QED
  BY <1>2, <1>3

(* A call changes its path, and is over. *)
LEMMA ChangeKeeps ==
  ASSUME SessionInv, NEW c \in DOMAIN calls, NEW x \in {c, Absent}, NEW q,
         \/ calls[c].stage = "writing" /\ q = RunOf(c)
         \/ calls[c].stage = "running" /\ q = 0,
         files' = [files EXCEPT ![calls[c].path] = x],
         calls' = [calls EXCEPT ![c].stage = "over", ![c].changed = TRUE],
         runs' = Meddled(Release(runs, {c}), {calls[c].path}, q), UNCHANGED <<blobs, manifest, view>>
  PROVE  SessionInv'
<1> DEFINE r == calls[c].run  p == calls[c].path
           cs == [calls EXCEPT ![c].stage = "over", ![c].changed = TRUE]
<1>1. r \in DOMAIN runs /\ RunOf(c) = r /\ p \in Paths /\ CallIsSound(c) /\ runs[r].snap.entries \in Seq(Entry)
  BY Members DEF RunOf, SessionInv, CallsAreSound
<1>2. /\ cs \in Seq(Call) /\ Len(cs) = Len(calls) /\ DOMAIN cs = DOMAIN calls
      /\ cs[c].stage = "over" /\ cs[c].run = calls[c].run /\ cs[c].kind = calls[c].kind /\ cs[c].path = calls[c].path
      /\ cs[c].changed = TRUE /\ cs[c].barred = calls[c].barred
      /\ \A d \in DOMAIN calls \ {c} : cs[d] = calls[d]
  BY Members, ChangeSet
<1> HIDE DEF cs
<1>4. /\ runs' \in Seq(Run) /\ Len(runs') = Len(runs) /\ DOMAIN runs' = DOMAIN runs
      /\ \A s \in DOMAIN runs :
           /\ runs'[s].state = runs[s].state /\ runs'[s].queue = runs[s].queue /\ runs'[s].snap = runs[s].snap
           /\ runs'[s].before = runs[s].before /\ runs'[s].active \in {runs[s].active, NoCall}
           /\ runs[s].active # c => runs'[s].active = runs[s].active
           /\ s = q => runs'[s].meddled = runs[s].meddled
           /\ s # q => runs'[s].meddled = runs[s].meddled \cup {p}
  <2> DEFINE t == Meddled(Release(runs, {c}), {p}, q)
  <2>1. runs \in Seq(Run) /\ p \in Paths /\ q \in Nat
    BY <1>1, Members
  <2> HIDE DEF p
  <2>2. Told(runs, t, c, p, q)
    BY <2>1, ToldAndMeddled
  <2>3. runs' = t
    BY DEF p
  <2> HIDE DEF t
  <2> QED
    BY <2>2, <2>3 DEF Told
<1>5. calls' = cs
  BY DEF cs
<1>6. \A y \in Paths : files'[y] = IF y = p THEN x ELSE files[y]
  BY <1>1 DEF SessionInv, TypeOK
<1>f. files' \in [Paths -> Content]
  <2>1. x \in Content
    BY Members DEF Content
  <2> QED
    BY <1>1, <2>1 DEF SessionInv, TypeOK
<1>v. view' \in View /\ ViewIsSound'
  <2>1. calls[c].stage # "asked"
    OBVIOUS
  <2> QED
    BY <1>2, <1>4, <1>5, <2>1, Members, ViewStays DEF SessionInv
<1>t. TypeOK'
  BY <1>2, <1>4, <1>5, <1>f DEF SessionInv, TypeOK
<1>b. BatchesFit'
  BY <1>2, <1>4, <1>5, BatchesStay DEF SessionInv
<1>w. WaitsInBatches'
  BY <1>4 DEF SessionInv, WaitsInBatches, Active
<1>r. OnRecord(runs[r].snap, calls[c])
  BY <1>1 DEF CallIsSound
<1>c. CallsAreSound'
  <2>1. CallIsSound(c)'
    <3>1. RunOf(c)' = r /\ r \in DOMAIN runs' /\ runs'[r].snap = runs[r].snap
      BY <1>1, <1>2, <1>4, <1>5 DEF RunOf, r
    <3>2. OnRecord(runs'[r].snap, calls'[c])
      BY <1>2, <1>5, <1>r, <3>1 DEF OnRecord
    <3> QED
      BY <1>2, <1>5, <3>1, <3>2 DEF CallIsSound
  <2>2. \A d \in DOMAIN calls \ {c} : calls'[d] = calls[d]
    BY <1>2, <1>5
  <2>3. \A s \in DOMAIN runs :
          /\ runs[s].active # c => runs'[s].active = runs[s].active
          /\ runs[s].snap.noted => runs'[s].snap.noted
          /\ Covered(runs[s].snap.entries) \subseteq Covered(runs'[s].snap.entries)
    BY <1>4
  <2>4. DOMAIN runs' = DOMAIN runs /\ DOMAIN calls' = DOMAIN calls
    BY <1>2, <1>4, <1>5
  <2> QED
    BY <2>1, <2>2, <2>3, <2>4, OthersStaySound
<1>n. SnapsAreSound'
  <2>1. ASSUME NEW s \in DOMAIN runs, NEW y \in Paths, files'[y] # files[y]
        PROVE  y \in runs'[s].meddled \cup Covered(runs[s].snap.entries)
    <3>1. y = p
      BY <1>6, <2>1
    <3>2. CASE s # q
      BY <1>4, <3>1, <3>2
    <3>3. CASE s = q
      <4>1. calls[c].stage = "writing" /\ s = r
        BY <1>1, <3>3, Members
      <4> QED
        BY <1>1, <1>r, <3>1, <4>1 DEF CallIsSound, OnRecord
    <3> QED
      BY <3>2, <3>3
  <2> QED
    BY <1>4, <2>1, SnapsStay DEF SessionInv
<1>m. ManifestIsSound'
  <2>1. ASSUME NEW d \in DOMAIN calls
        PROVE  /\ calls'[d].run = calls[d].run /\ calls'[d].kind = calls[d].kind /\ calls'[d].path = calls[d].path
               /\ calls'[d].barred = calls[d].barred
               /\ calls'[d].changed /\ ~calls'[d].barred => calls[d].changed \/ runs[calls[d].run].state # "over"
    <3>1. CASE d # c
      BY <1>2, <1>5, <3>1
    <3>2. CASE d = c
      <4>1. ~calls[c].barred => runs[r].state = "batch"
        BY <1>1, Members DEF CallIsSound, SessionInv, WaitsInBatches, Active
      <4> QED
        BY <1>2, <1>5, <3>2, <4>1
    <3> QED
      BY <3>1, <3>2
  <2>2. DOMAIN runs' = DOMAIN runs /\ DOMAIN calls' = DOMAIN calls
    BY <1>2, <1>4, <1>5
  <2>3. manifest.entries \in Seq(Entry)
    BY DEF SessionInv, TypeOK
  <2>4. \A s \in DOMAIN runs :
          /\ runs[s].state = "over" => runs'[s].state = "over"
          /\ \A z \in Seq(Entry) : Prefix(z, runs[s].snap.entries) => Prefix(z, runs'[s].snap.entries)
    BY <1>4
  <2>5. ManifestIsSound /\ UNCHANGED manifest
    BY DEF SessionInv
  <2> QED
    BY <2>1, <2>2, <2>3, <2>4, <2>5, ManifestStays
<1> QED
  BY <1>t, <1>b, <1>w, <1>c, <1>n, <1>m, <1>v DEF SessionInv

LEMMA WriteKeeps == ASSUME SessionInv, NEW c \in DOMAIN calls, Write(c) PROVE SessionInv'
BY ChangeKeeps DEF Write

LEMMA WorkKeeps == ASSUME SessionInv, NEW c \in DOMAIN calls, Work(c) PROVE SessionInv'
<1>1. calls[c].stage = "running" /\ UNCHANGED <<blobs, manifest, view>>
  BY DEF Work
<1>2. CASE /\ \E x \in {c, Absent} : files' = [files EXCEPT ![calls[c].path] = x]
           /\ calls' = [calls EXCEPT ![c].stage = "over", ![c].changed = TRUE]
           /\ runs' = Meddled(Release(runs, {c}), {calls[c].path}, 0)
  <2>1. PICK x \in {c, Absent} : files' = [files EXCEPT ![calls[c].path] = x]
    BY <1>2
  <2> QED
    BY <1>1, <1>2, <2>1, ChangeKeeps
<1>3. CASE calls' = [calls EXCEPT ![c].stage = "over"] /\ runs' = Release(runs, {c}) /\ UNCHANGED files
  BY <1>1, <1>3, CallEndsKeeps
<1> QED
  BY <1>2, <1>3 DEF Work

(* The manifest is as orderly as the snapshot it was taken from. *)
LEMMA ManifestOrderly ==
  ASSUME SessionInv
  PROVE  /\ manifest.entries \in Seq(Entry) /\ Orderly(manifest.entries)
         /\ \A i \in DOMAIN manifest.entries :
              /\ manifest.run \in DOMAIN runs /\ i \in DOMAIN runs[manifest.run].snap.entries
              /\ manifest.entries[i] = runs[manifest.run].snap.entries[i]
<1>1. CASE manifest = NoManifest
  <2>1. manifest.entries = <<>>
    BY <1>1 DEF NoManifest
  <2> QED
    BY <2>1 DEF Orderly
<1>2. CASE manifest # NoManifest
  <2>1. /\ manifest.run \in DOMAIN runs /\ manifest.entries \in Seq(Entry)
        /\ Prefix(manifest.entries, runs[manifest.run].snap.entries)
        /\ Orderly(runs[manifest.run].snap.entries)
    BY <1>2 DEF SessionInv, TypeOK, ManifestIsSound, SnapsAreSound, SnapIsSound
  <2>2. runs[manifest.run].snap.entries \in Seq(Entry)
    BY <2>1, Members
  <2>3. \A i \in DOMAIN manifest.entries :
          i \in DOMAIN runs[manifest.run].snap.entries /\ manifest.entries[i] = runs[manifest.run].snap.entries[i]
    BY <2>1, <2>2, LenProperties DEF Prefix
  <2> QED
    BY <2>1, <2>3 DEF Orderly
<1> QED
  BY <1>1, <1>2

(* What an undo changes, nobody takes for the work of a run. *)
LEMMA UndoKeeps ==
  ASSUME SessionInv, view.pending = UndoOf, Yes
  PROVE  SessionInv'
<1> DEFINE restored == Restored(files, manifest.entries, blobs)
           S == {p \in Paths : restored[p] # files[p]}
<1>1. /\ files' = restored /\ runs' = Meddled(runs, S, 0) /\ UNCHANGED <<calls, blobs, manifest>>
      /\ view' = [view EXCEPT !.pending = None]
  BY DEF Yes
<1>2. manifest.entries \in Seq(Entry) /\ Orderly(manifest.entries)
  BY ManifestOrderly
<1>3. restored \in [Paths -> Content]
  BY <1>2, UndoIsTyped DEF SessionInv, TypeOK
<1>4. /\ runs' \in Seq(Run) /\ Len(runs') = Len(runs) /\ DOMAIN runs' = DOMAIN runs
      /\ \A r \in DOMAIN runs :
           /\ runs'[r].state = runs[r].state /\ runs'[r].queue = runs[r].queue
           /\ runs'[r].active = runs[r].active /\ runs'[r].snap = runs[r].snap /\ runs'[r].before = runs[r].before
           /\ runs'[r].meddled = runs[r].meddled \cup S
  <2> DEFINE t == Meddled(runs, S, 0)
  <2>1. S \subseteq Paths
    OBVIOUS
  <2> HIDE DEF S
  <2>2. MeddlesOnly(runs, t, S, 0)
    BY <2>1, Members, Meddles
  <2>3. 0 \notin DOMAIN runs
    BY Members
  <2>4. runs' = t
    BY <1>1 DEF S
  <2> HIDE DEF t
  <2> QED
    BY <2>2, <2>3, <2>4 DEF MeddlesOnly
<1>5. SnapsAreSound'
  <2>1. \A p \in Paths : files'[p] # files[p] => p \in S
    BY <1>1
  <2> HIDE DEF S
  <2> QED
    BY <1>1, <1>4, <2>1, SnapsStay DEF SessionInv
<1> HIDE DEF S, restored
<1>6. QuietCalls
  BY <1>1, <1>4, SameActives
<1>v. view' \in View /\ ViewIsSound'
  BY <1>1, <1>4, Members, ViewStays DEF SessionInv
<1>t. TypeOK'
  BY <1>1, <1>3, <1>4, <1>v DEF SessionInv, TypeOK
<1>b. BatchesFit'
  BY <1>1, <1>4, BatchesStay DEF SessionInv
<1>w. WaitsInBatches'
  BY <1>4 DEF SessionInv, WaitsInBatches, Active
<1>c. CallsAreSound'
  BY <1>1, <1>4 DEF SessionInv, CallsAreSound, CallIsSound, RunOf, Active, OnRecord
<1>m. ManifestIsSound'
  BY <1>1, <1>4 DEF SessionInv, ManifestIsSound, RunOf
<1> QED
  BY <1>t, <1>b, <1>w, <1>c, <1>5, <1>m, <1>v DEF SessionInv

LEMMA YesKeeps == ASSUME SessionInv, Yes PROVE SessionInv'
<1>1. CASE view.pending = UndoOf
  BY <1>1, UndoKeeps
<1>2. CASE view.pending # UndoOf
  <2>1. /\ view.pending \in DOMAIN calls /\ calls[view.pending].stage = "asked"
        /\ Grant(view.pending) /\ UNCHANGED <<files, manifest>> /\ view' = [view EXCEPT !.pending = None]
    BY <1>2 DEF Yes, Deciding, SessionInv, ViewIsSound
  <2>2. PICK c \in DOMAIN calls : c = view.pending
    BY <2>1
  <2>3. Grant(c) /\ calls[c].stage \in {"gate", "asked"}
    BY <2>1, <2>2
  <2> QED
    BY <2>1, <2>3, GrantKeeps
<1> QED
  BY <1>1, <1>2

-----------------------------------------------------------------------------
(* What holds of every session.                                             *)
LEMMA NextKeeps == SessionInv /\ [Next]_vars => SessionInv'
<1> SUFFICES ASSUME SessionInv, [Next]_vars PROVE SessionInv'
  OBVIOUS
<1>1. CASE CallStep
  BY <1>1, GateKeeps, EditKeeps, WriteKeeps, WorkKeeps, TimeoutKeeps DEF CallStep
<1>2. CASE RunStep
  BY <1>2, BeginCallKeeps, AsksForKeeps, EndBatchKeeps, FinishesKeeps, FailsKeeps DEF RunStep
<1>3. CASE KeyStep
  BY <1>3, ViewKeysKeep, SubmitTaskKeeps, YesKeeps, NoKeeps, StopRunKeeps, QuitKeyKeeps DEF KeyStep, ViewKey
<1>4. CASE UNCHANGED vars
  <2>1. UNCHANGED <<files, runs, calls, blobs, manifest, view>>
    BY <1>4 DEF vars
  <2>2. view' \in View /\ ViewIsSound'
    BY <2>1, Members, ViewStays DEF SessionInv
  <2>3. BatchesFit'
    BY <2>1, BatchesStay DEF SessionInv
  <2> QED
    BY <2>1, <2>2, <2>3, SameRuns, SameCalls, QuietStep
<1> QED
  BY <1>1, <1>2, <1>3, <1>4 DEF Next

LEMMA SessionInductive == Spec => []SessionInv
BY InitInv, NextKeeps, PTL DEF Spec

(* What a session changes it has on record, late writes of cancelled calls  *)
(* included, and the manifest of a run that finished names what its own     *)
(* calls changed.                                                           *)
THEOREM RecordStaysTrue == Spec => []RecordIsTrue
<1>1. SessionInv => RecordIsTrue
  BY DEF SessionInv, RecordIsTrue, ChangesAreOnRecord, FinishedRunsAreRecorded, CallsAreSound, CallIsSound,
         OnRecord, Changing, ManifestIsSound
<1> QED
  BY <1>1, SessionInductive, PTL

(* An undo of the only run that copied bytes gives back what the run found. *)
Restores ==
  view.pending = UndoOf /\ Yes /\ SoleRun(manifest.run) =>
    \A i \in DOMAIN manifest.entries :
      LET e == manifest.entries[i]  run == runs[manifest.run] IN
      e.path \notin run.meddled /\ (e.existed \/ run.before[e.path] = Absent)
      => files'[e.path] = run.before[e.path]
LEMMA UndoIsExact == SessionInv => Restores
<1> SUFFICES ASSUME SessionInv, view.pending = UndoOf, Yes, SoleRun(manifest.run), NEW i \in DOMAIN manifest.entries,
                    manifest.entries[i].path \notin runs[manifest.run].meddled,
                    manifest.entries[i].existed \/ runs[manifest.run].before[manifest.entries[i].path] = Absent
             PROVE  files'[manifest.entries[i].path] = runs[manifest.run].before[manifest.entries[i].path]
  BY DEF Restores
<1> DEFINE r == manifest.run  e == manifest.entries[i]
<1>1. /\ manifest.entries \in Seq(Entry) /\ Orderly(manifest.entries)
      /\ r \in DOMAIN runs /\ i \in DOMAIN runs[r].snap.entries /\ e = runs[r].snap.entries[i]
  BY ManifestOrderly
<1>2. files' = Restored(files, manifest.entries, blobs)
  BY DEF Yes
<1>3. files'[e.path] = IF e.existed THEN blobs[e.blob] ELSE Absent
  <2>1. files \in [Paths -> Content] /\ i \in DOMAIN manifest.entries
    BY DEF SessionInv, TypeOK
  <2>2. Restored(files, manifest.entries, blobs)[manifest.entries[i].path]
          = IF manifest.entries[i].existed THEN blobs[manifest.entries[i].blob] ELSE Absent
    BY <1>1, <2>1, UndoOfEntry
  <2> QED
    BY <1>2, <2>2
<1>4. e.existed => blobs[e.blob] = runs[r].before[e.path]
  BY <1>1 DEF SessionInv, SnapsAreSound, SnapIsSound
<1> QED
  BY <1>3, <1>4

(* A call that was cancelled before it was approved only comes to its end.  *)
NeverWrites ==
  \A c \in DOMAIN calls :
    calls[c].barred /\ calls[c].stage \in {"gate", "asked"}
    => calls'[c].stage \in {"gate", "asked", "over"} /\ ~calls'[c].changed
LEMMA CancelledCallsOnlyEnd == SessionInv /\ Next => NeverWrites
<1> SUFFICES ASSUME SessionInv, Next, NEW c \in DOMAIN calls, calls[c].barred, calls[c].stage \in {"gate", "asked"}
             PROVE  calls'[c].stage \in {"gate", "asked", "over"} /\ ~calls'[c].changed
  BY DEF NeverWrites
<1>1. ~calls[c].changed /\ calls \in Seq(Call) /\ {"over", "asked", "writing", "reading", "running"} \subseteq Stages
  BY Members DEF SessionInv, CallsAreSound, CallIsSound, Stages
<1>2. \A x \in Stages, d \in DOMAIN calls :
        /\ d # c => [calls EXCEPT ![d].stage = x][c] = calls[c]
        /\ d # c => [calls EXCEPT ![d].stage = x, ![d].changed = TRUE][c] = calls[c]
        /\ [calls EXCEPT ![c].stage = x][c].stage = x /\ ~[calls EXCEPT ![c].stage = x][c].changed
  <2>1. calls[c] \in Call
    BY Members
  <2> QED
    BY <1>1, <2>1 DEF Call
<1>3. ASSUME NEW d \in DOMAIN calls, Grant(d) PROVE calls'[c].stage \in {"gate", "asked", "over"} /\ ~calls'[c].changed
  <2>1. CASE d = c
    <3>1. calls' = [calls EXCEPT ![c].stage = "over"] /\ "over" \in Stages
      BY <1>1, <1>3, <2>1 DEF Grant
    <3>2. calls'[c].stage = "over" /\ ~calls'[c].changed
      BY <1>2, <3>1
    <3> QED
      BY <3>2
  <2>2. CASE d # c
    <3>1. \E x \in Stages : calls' = [calls EXCEPT ![d].stage = x]
      BY <1>1, <1>3 DEF Grant
    <3> QED
      BY <1>1, <1>2, <2>2, <3>1
  <2> QED
    BY <2>1, <2>2
<1>4. ASSUME UNCHANGED calls PROVE calls'[c].stage \in {"gate", "asked", "over"} /\ ~calls'[c].changed
  BY <1>1, <1>4
<1>5. ASSUME NEW d \in DOMAIN calls, calls' = [calls EXCEPT ![d].stage = "over"]
      PROVE  calls'[c].stage \in {"gate", "asked", "over"} /\ ~calls'[c].changed
  BY <1>1, <1>2, <1>5
<1>6. ASSUME NEW cs \in Seq(Call), DOMAIN cs = DOMAIN calls, cs[c].stage \in {"gate", "asked", "over"}, ~cs[c].changed,
             NEW S, calls' = Aborted(cs, S)
      PROVE  calls'[c].stage \in {"gate", "asked", "over"} /\ ~calls'[c].changed
  BY <1>6, Cancels
<1>7. CASE CallStep
  <2> SUFFICES ASSUME NEW d \in DOMAIN calls, Gate(d) \/ Edit(d) \/ Write(d) \/ Work(d) \/ Timeout(d)
               PROVE  calls'[c].stage \in {"gate", "asked", "over"} /\ ~calls'[c].changed
    BY <1>7 DEF CallStep
  <2>1. CASE Gate(d)
    <3>1. CASE Grant(d)
      BY <1>3, <3>1
    <3>2. CASE calls' = [calls EXCEPT ![d].stage = "asked"]
      <4>1. "asked" \in Stages
        BY <1>1
      <4>2. CASE d = c
        <5>1. calls'[c].stage = "asked" /\ ~calls'[c].changed
          BY <1>2, <3>2, <4>1, <4>2
        <5> QED
          BY <5>1
      <4>3. CASE d # c
        BY <1>1, <1>2, <3>2, <4>1, <4>3
      <4> QED
        BY <4>2, <4>3
    <3> QED
      BY <2>1, <3>1, <3>2 DEF Gate
  <2>2. CASE Edit(d)
    <3>1. d # c /\ \E x \in {"over", "writing"} : calls' = [calls EXCEPT ![d].stage = x]
      BY <2>2 DEF Edit
    <3> QED
      BY <1>1, <1>2, <3>1
  <2>3. CASE Write(d)
    <3>1. d # c /\ calls' = [calls EXCEPT ![d].stage = "over", ![d].changed = TRUE]
      BY <2>3 DEF Write
    <3> QED
      BY <1>1, <1>2, <3>1
  <2>4. CASE Work(d)
    <3>1. /\ d # c
          /\ \/ calls' = [calls EXCEPT ![d].stage = "over", ![d].changed = TRUE]
             \/ calls' = [calls EXCEPT ![d].stage = "over"]
      BY <2>4 DEF Work
    <3> QED
      BY <1>1, <1>2, <3>1
  <2>5. CASE Timeout(d)
    BY <1>1, <1>6, <2>5 DEF Timeout
  <2> QED
    BY <2>1, <2>2, <2>3, <2>4, <2>5
<1>8. CASE RunStep
  <2> SUFFICES ASSUME NEW r \in DOMAIN runs, BeginCall(r) PROVE calls'[c] = calls[c]
    BY <1>1, <1>4, <1>8 DEF RunStep, AsksFor, EndBatch, Finishes, Fails
  <2> DEFINE call == [run |-> r, kind |-> Head(runs[r].queue).kind, path |-> Head(runs[r].queue).path,
                      stage |-> "gate", barred |-> FALSE, changed |-> FALSE]
  <2>1. calls' = Append(calls, call) /\ Len(calls) \in Nat /\ DOMAIN calls = 1..Len(calls)
    BY Members DEF BeginCall
  <2> HIDE DEF call
  <2> QED
    BY <2>1 DEF Append
<1>9. CASE KeyStep
  <2>1. CASE UNCHANGED calls
    BY <1>4, <2>1
  <2>2. CASE Yes /\ view.pending # UndoOf
    BY <1>3, <2>2 DEF Yes, Deciding, SessionInv, ViewIsSound
  <2>3. CASE No /\ view.pending # UndoOf
    BY <1>5, <2>3 DEF No, Decline, Deciding, SessionInv, ViewIsSound
  <2>4. CASE StopRun
    BY <1>1, <1>6, <2>4 DEF StopRun
  <2>5. CASE QuitKey
    <3>1. CASE view.pending \notin DOMAIN calls
      BY <1>1, <1>6, <2>5, <3>1 DEF QuitKey, Quit
    <3>2. CASE view.pending \in DOMAIN calls
      <4> DEFINE cs == [calls EXCEPT ![view.pending].stage = "over"]
      <4>1. cs \in Seq(Call) /\ DOMAIN cs = DOMAIN calls
        BY <1>1, <3>2, StageSet
      <4>2. cs[c].stage \in {"gate", "asked", "over"} /\ ~cs[c].changed
        <5>1. "over" \in Stages
          BY <1>1
        <5>2. CASE view.pending = c
          <6>1. cs[c].stage = "over" /\ ~cs[c].changed
            BY <1>2, <5>1, <5>2
          <6> QED
            BY <6>1
        <5>3. CASE view.pending # c
          BY <1>1, <1>2, <3>2, <5>1, <5>3
        <5> QED
          BY <5>2, <5>3
      <4>3. calls' = Aborted(cs, ActiveCalls(runs))
        BY <2>5, <3>2 DEF QuitKey, Quit
      <4> HIDE DEF cs
      <4> QED
        BY <1>6, <4>1, <4>2, <4>3
    <3> QED
      BY <3>1, <3>2
  <2> QED
    BY <1>9, <2>1, <2>2, <2>3, <2>4, <2>5 DEF KeyStep, FocusPrompt, BlurPrompt, SubmitTask, Yes, No, AskUndo,
       OpenPalette, ClosePalette, PaletteUndo
<1> QED
  BY <1>7, <1>8, <1>9 DEF Next

(* Leaving declines the prompt on display, whatever else it cancels.        *)
Declines ==
  view.open /\ ~view'.open /\ view.pending \in DOMAIN calls
  => calls'[view.pending].stage = "over" /\ ~calls'[view.pending].changed
LEMMA QuitDeclinesThePrompt == SessionInv /\ Next => Declines
<1> SUFFICES ASSUME SessionInv, Next, view.open, ~view'.open, NEW c \in DOMAIN calls, c = view.pending
             PROVE  calls'[c].stage = "over" /\ ~calls'[c].changed
  BY DEF Declines
<1>1. QuitKey
  BY Members DEF Next, CallStep, RunStep, KeyStep, Gate, Edit, Write, Work, Timeout, BeginCall, AsksFor, EndBatch,
     Finishes, Fails, FocusPrompt, BlurPrompt, SubmitTask, Yes, No, AskUndo, OpenPalette, ClosePalette,
     PaletteUndo, StopRun, Idle, View
<1> DEFINE cs == [calls EXCEPT ![c].stage = "over"]
<1>2. calls' = Aborted(cs, ActiveCalls(runs))
  BY <1>1 DEF QuitKey, Quit
<1>3. calls \in Seq(Call) /\ "over" \in Stages /\ ~calls[c].changed
  BY Members DEF Stages, SessionInv, ViewIsSound, CallsAreSound, CallIsSound
<1>4. cs \in Seq(Call) /\ DOMAIN cs = DOMAIN calls /\ cs[c].stage = "over" /\ ~cs[c].changed
  BY <1>3, StageSet
<1> HIDE DEF cs
<1> QED
  BY <1>2, <1>4, Cancels

(* What a key was pressed for happens, for any number of runs and calls, and *)
(* whatever they are doing.                                                  *)
THEOREM StopsAndUndosKeep == Spec => StopsAndUndosHold
<1>1. SessionInv /\ [Next]_vars => [Restores]_vars
  BY UndoIsExact
<1>2. SessionInv /\ [Next]_vars => [NeverWrites]_vars
  BY CancelledCallsOnlyEnd
<1>3. SessionInv /\ [Next]_vars => [Declines]_vars
  BY QuitDeclinesThePrompt
<1>4. Spec => [][Restores]_vars /\ [][NeverWrites]_vars /\ [][Declines]_vars
  BY <1>1, <1>2, <1>3, SessionInductive, PTL DEF Spec
<1> QED
  BY <1>4 DEF StopsAndUndosHold, UndoRestores, CancelledBeforeYesNeverWrites, QuitDeclines,
              Restores, NeverWrites, Declines
=============================================================================
