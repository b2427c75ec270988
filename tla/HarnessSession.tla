---------------------------- MODULE HarnessSession ----------------------------
(***************************************************************************)
(* A session of the terminal interface, harness/tui.ts: tasks typed one     *)
(* after another, each a run of harness/index.ts whose model asks for       *)
(* batches of mutating calls; each call is gated by a prompt, given a       *)
(* budget by harness/cancel.ts, captured for undo and performed. Keys       *)
(* answer prompts, stop runs, undo and quit at any time. All runs of a      *)
(* session share its id, so its snapshot directory.                         *)
(*                                                                         *)
(* Stopping only stops waiting: a run that is no longer watched goes on to  *)
(* its next event, and the work of a call that was cancelled goes on to     *)
(* its end. Reads, and what the model is told, are in ToolBatch.            *)
(***************************************************************************)
EXTENDS Integers, Sequences, FiniteSets

CONSTANTS
  Paths, Existing,     (* paths, and those that are there at first           *)
  Batches,             (* the batches of mutating calls a model may ask for  *)
  Labels,              (* what a risk classifier may say; "none": none set   *)
  AssumeYes,           (* --yes                                             *)
  Budgeted,            (* toolTimeoutMs > 0                                 *)
  Copies,              (* outcomes of copying a file aside                   *)
  Absent,              (* the content of a path that is not there            *)
  MaxRuns, MaxCalls    (* bounds: tasks typed, calls begun                   *)

Kinds == {"write", "edit", "bash", "subagent"}
Request == [kind : Kinds, path : Paths]

ASSUME SessionAssumption ==
  /\ IsFiniteSet(Paths) /\ Existing \subseteq Paths
  /\ Batches \subseteq Seq(Request)
  /\ Labels \subseteq {"none", "safe", "caution"}
  /\ AssumeYes \in BOOLEAN /\ Budgeted \in BOOLEAN /\ Copies \subseteq BOOLEAN
  /\ MaxRuns \in Nat /\ MaxCalls \in Nat

-----------------------------------------------------------------------------
(* harness/snapshot.ts: before a run first changes a path, the bytes are    *)
(* copied aside (a blob) and an entry is made; the entries of a finished    *)
(* run are its manifest, and undo puts back what they name. Blobs and       *)
(* manifest live in a directory named after the session.                    *)

NoBlob == 0

Untaken == [started |-> FALSE, entries |-> <<>>, noted |-> FALSE]

Covered(entries) == {entries[i].path : i \in DOMAIN entries}
EntryOf(entries, p) == entries[CHOOSE i \in DOMAIN entries : entries[i].path = p]

BlobRefreshed(snap, p, content, copied) ==   \* mutant: a later capture copies over the first
  IF content = Absent \/ ~copied THEN NoBlob
  ELSE IF p \in Covered(snap.entries) THEN EntryOf(snap.entries, p).blob
  ELSE Len(snap.entries) + 1

\* The blob a capture of p writes; none when p has its entry already, is not
\* there, or cannot be copied.
BlobFor(snap, p, content, copied) ==
  IF p \in Covered(snap.entries) \/ content = Absent \/ ~copied THEN NoBlob
  ELSE Len(snap.entries) + 1

\* The first capture of a path wins. One that cannot be copied is entered as
\* if the path had not been there, with a note.
Captured(snap, p, content, copied) ==
  IF p \in Covered(snap.entries) THEN snap
  ELSE [started |-> TRUE,
        entries |-> Append(snap.entries,
          [path |-> p, existed |-> content # Absent /\ copied,
           blob |-> BlobFor(snap, p, content, copied)]),
        noted |-> snap.noted \/ (content # Absent /\ ~copied)]

\* What a run may change unseen is only noted.
Noted(snap) == [snap EXCEPT !.started = TRUE, !.noted = TRUE]

\* undoRun: blobs go back, paths that did not exist before are removed.
Restored(files, entries, blobs) ==
  [p \in DOMAIN files |->
     IF p \notin Covered(entries) THEN files[p]
     ELSE LET e == EntryOf(entries, p) IN
          IF e.existed THEN blobs[e.blob] ELSE Absent]

-----------------------------------------------------------------------------
Original == 0          (* what a path held at first; n: what call n wrote      *)
NoCall == 0
None == 0              (* no prompt on display                                 *)
UndoOf == -1           (* the prompt on display asks about an undo             *)
NoManifest == [run |-> 0, entries |-> <<>>]

Content == 0..MaxCalls \cup {Absent}

VARIABLES
  files,     (* what is on disk                                             *)
  runs,      (* the runs of the session, oldest first                        *)
  calls,     (* their calls, in the order they began                         *)
  blobs,     (* the snapshot directory: bytes copied aside,                  *)
  manifest,  (*   and the entries the last run to finish wrote               *)
  view       (* what the keys act on                                        *)

vars == <<files, runs, calls, blobs, manifest, view>>

Entry == {e \in [path : Paths, existed : BOOLEAN, blob : 0..Cardinality(Paths)] :
            e.existed <=> e.blob # NoBlob}
Snap == [started : BOOLEAN, entries : Seq(Entry), noted : BOOLEAN]

\* before and meddled are ghosts: what the paths held when the run began, and
\* those that something else than a write or edit of its own changed since.
Run == [state : {"model", "batch", "over"}, queue : Seq(Request), active : 0..MaxCalls,
        watched : BOOLEAN, snap : Snap,
        before : [Paths -> Content], meddled : SUBSET Paths]

\* changed is a ghost: whether the call has changed a file.
Call == [run : 1..MaxRuns, kind : Kinds, path : Paths,
         stage : {"gate", "asked", "reading", "writing", "running", "over"},
         barred : BOOLEAN, changed : BOOLEAN]

View == [running : 0..MaxRuns, pending : {UndoOf} \cup 0..MaxCalls,
         typing : BOOLEAN, palette : BOOLEAN, open : BOOLEAN]

TypeOK ==
  /\ files \in [Paths -> Content]
  /\ runs \in Seq(Run) /\ calls \in Seq(Call)
  /\ blobs \in [1..Cardinality(Paths) -> Content]
  /\ manifest \in [run : 0..MaxRuns, entries : Seq(Entry)]
  /\ view \in View

Init ==
  /\ files = [p \in Paths |-> IF p \in Existing THEN Original ELSE Absent]
  /\ runs = <<>> /\ calls = <<>>
  /\ blobs = [b \in 1..Cardinality(Paths) |-> Absent]
  /\ manifest = NoManifest
  /\ view = [running |-> 0, pending |-> None, typing |-> TRUE, palette |-> FALSE, open |-> TRUE]

-----------------------------------------------------------------------------
(* Calls                                                                    *)

RunOf(c) == calls[c].run
Active(r) == runs[r].active

\* The run is told of an answer only while it waits for that call.
Release(rs, S) ==
  [r \in DOMAIN rs |-> IF rs[r].active \in S THEN [rs[r] EXCEPT !.active = NoCall] ELSE rs[r]]

BeginCall(r) ==
  /\ runs[r].state = "batch" /\ Active(r) = NoCall /\ runs[r].queue # <<>>
  /\ LET request == Head(runs[r].queue) IN
     calls' = Append(calls, [run |-> r, kind |-> request.kind, path |-> request.path,
                             stage |-> "gate", barred |-> FALSE, changed |-> FALSE])
  /\ runs' = [runs EXCEPT ![r].active = Len(calls) + 1, ![r].queue = Tail(@)]
  /\ UNCHANGED <<files, blobs, manifest, view>>

Capture(c, copied) ==
  LET r == RunOf(c)  p == calls[c].path  snap == runs[r].snap
      blob == BlobFor(snap, p, files[p], copied)
  IN
  /\ runs' = [runs EXCEPT ![r].snap = Captured(snap, p, files[p], copied)]
  /\ blobs' = IF blob = NoBlob THEN blobs ELSE [blobs EXCEPT ![blob] = files[p]]

\* The call is approved: unless its signal has fired meanwhile, its work
\* begins, and goes as far as the first await.
Grant(c) ==
  LET r == RunOf(c) IN
  IF calls[c].barred
  THEN /\ calls' = [calls EXCEPT ![c].stage = "over"]
       /\ UNCHANGED <<runs, blobs>>
  ELSE CASE calls[c].kind = "write" ->
              /\ \E copied \in Copies : Capture(c, copied)
              /\ calls' = [calls EXCEPT ![c].stage = "writing"]
         [] calls[c].kind = "edit" ->
              /\ calls' = [calls EXCEPT ![c].stage = "reading"]
              /\ UNCHANGED <<runs, blobs>>
         [] OTHER ->
              /\ runs' = [runs EXCEPT ![r].snap = Noted(@)]
              /\ calls' = [calls EXCEPT ![c].stage = "running"]
              /\ UNCHANGED blobs

Decline(c) ==
  /\ calls' = [calls EXCEPT ![c].stage = "over"]
  /\ runs' = Release(runs, {c})
  /\ UNCHANGED blobs

\* Preview and label are there: the call is let pass, or a prompt is put on
\* display in the place of the one that was there.
Gate(c) ==
  /\ calls[c].stage = "gate"
  /\ \E label \in Labels :
       IF AssumeYes \/ label = "safe" THEN Grant(c) /\ UNCHANGED view
       ELSE /\ calls' = [calls EXCEPT ![c].stage = "asked"]
            /\ view' = [view EXCEPT !.pending = c]
            /\ UNCHANGED <<runs, blobs>>
  /\ UNCHANGED <<files, manifest>>

EditUncaptured(c) ==   \* mutant: an edit is not captured
  /\ calls[c].stage = "reading"
  /\ \/ /\ files[calls[c].path] # Absent
        /\ calls' = [calls EXCEPT ![c].stage = "writing"]
        /\ UNCHANGED <<runs, blobs>>
     \/ /\ calls' = [calls EXCEPT ![c].stage = "over"]
        /\ runs' = Release(runs, {c})
        /\ UNCHANGED blobs
  /\ UNCHANGED <<files, manifest, view>>

\* An edit has read its file, and captures it before it writes; or the file
\* is not there, or does not hold the old text.
Edit(c) ==
  /\ calls[c].stage = "reading"
  /\ \/ /\ files[calls[c].path] # Absent
        /\ \E copied \in Copies : Capture(c, copied)
        /\ calls' = [calls EXCEPT ![c].stage = "writing"]
     \/ /\ calls' = [calls EXCEPT ![c].stage = "over"]
        /\ runs' = Release(runs, {c})
        /\ UNCHANGED blobs
  /\ UNCHANGED <<files, manifest, view>>

Meddled(rs, S, r) ==   \* S changed, by a write or edit of run r (0: otherwise)
  [q \in DOMAIN rs |-> IF q = r THEN rs[q] ELSE [rs[q] EXCEPT !.meddled = @ \cup S]]

\* writeFile ends.
Write(c) ==
  /\ calls[c].stage = "writing"
  /\ files' = [files EXCEPT ![calls[c].path] = c]
  /\ calls' = [calls EXCEPT ![c].stage = "over", ![c].changed = TRUE]
  /\ runs' = Meddled(Release(runs, {c}), {calls[c].path}, RunOf(c))
  /\ UNCHANGED <<blobs, manifest, view>>

\* A command, or the loop of a subagent, changes a path or none.
Work(c) ==
  /\ calls[c].stage = "running"
  /\ \/ /\ \E x \in {c, Absent} : files' = [files EXCEPT ![calls[c].path] = x]
        /\ calls' = [calls EXCEPT ![c].stage = "over", ![c].changed = TRUE]
        /\ runs' = Meddled(Release(runs, {c}), {calls[c].path}, 0)
     \/ /\ calls' = [calls EXCEPT ![c].stage = "over"]
        /\ runs' = Release(runs, {c})
        /\ UNCHANGED files
  /\ UNCHANGED <<blobs, manifest, view>>

\* The signals of S fire: their runs go on; a command is killed, and so is
\* nothing else.
Aborted(cs, S) ==
  [c \in DOMAIN cs |->
     IF c \notin S THEN cs[c]
     ELSE [cs[c] EXCEPT !.barred = TRUE,
                        !.stage = IF cs[c].kind = "bash" /\ @ = "running" THEN "over" ELSE @]]

ActiveCalls(rs) == {rs[r].active : r \in DOMAIN rs} \ {NoCall}

TimeoutWaits(c) ==   \* mutant: the signal fires, and the work is awaited all the same
  /\ Budgeted
  /\ c \in ActiveCalls(runs)
  /\ calls' = Aborted(calls, {c})
  /\ UNCHANGED <<files, runs, blobs, manifest, view>>

\* The budget of a call is spent, the wait for its prompt included.
Timeout(c) ==
  /\ Budgeted
  /\ c \in ActiveCalls(runs)
  /\ calls' = Aborted(calls, {c})
  /\ runs' = Release(runs, {c})
  /\ UNCHANGED <<files, blobs, manifest, view>>

-----------------------------------------------------------------------------
(* Runs                                                                     *)

AsksFor(r) ==
  /\ runs[r].state = "model"
  /\ \E batch \in Batches :
       /\ Len(calls) + Len(batch) <= MaxCalls
       /\ \A q \in DOMAIN runs \ {r} : runs[q].queue = <<>>   \* keeps the bound
       /\ runs' = [runs EXCEPT ![r].state = "batch", ![r].queue = batch]
  /\ UNCHANGED <<files, calls, blobs, manifest, view>>

\* The batch is answered: the next turn, or the end of a run nobody watches.
EndBatch(r) ==
  /\ runs[r].state = "batch" /\ Active(r) = NoCall /\ runs[r].queue = <<>>
  /\ runs' = [runs EXCEPT ![r].state = IF runs[r].watched THEN "model" ELSE "over"]
  /\ UNCHANGED <<files, calls, blobs, manifest, view>>

Idle == [view EXCEPT !.running = 0]

\* The model answers without calls: the snapshot is recorded.
Finishes(r) ==
  /\ runs[r].state = "model"
  /\ runs' = [runs EXCEPT ![r].state = "over"]
  /\ manifest' = IF runs[r].snap.started
                 THEN [run |-> r, entries |-> runs[r].snap.entries] ELSE manifest
  /\ view' = Idle
  /\ UNCHANGED <<files, calls, blobs>>

\* The provider fails for good: nothing is recorded.
Fails(r) ==
  /\ runs[r].state = "model"
  /\ runs' = [runs EXCEPT ![r].state = "over"]
  /\ view' = Idle
  /\ UNCHANGED <<files, calls, blobs, manifest>>

\* The view stops watching: what waits for the model ends, a batch goes on.
Unwatched(rs, r) ==
  IF r = 0 THEN rs
  ELSE [rs EXCEPT ![r].watched = FALSE,
                  ![r].state = IF @ = "model" THEN "over" ELSE @]

-----------------------------------------------------------------------------
(* Keys                                                                     *)

Ordinary == view.open /\ ~view.typing /\ ~view.palette /\ view.pending = None
Deciding == view.open /\ ~view.typing /\ ~view.palette /\ view.pending # None

FocusPrompt ==
  /\ Ordinary /\ view.running = 0
  /\ view' = [view EXCEPT !.typing = TRUE]
  /\ UNCHANGED <<files, runs, calls, blobs, manifest>>

BlurPrompt ==
  /\ view.open /\ view.typing
  /\ view' = [view EXCEPT !.typing = FALSE]
  /\ UNCHANGED <<files, runs, calls, blobs, manifest>>

SubmitTask ==
  /\ view.open /\ view.typing /\ Len(runs) < MaxRuns
  /\ runs' = Append(runs, [state |-> "model", queue |-> <<>>, active |-> NoCall,
                           watched |-> TRUE, snap |-> Untaken,
                           before |-> files, meddled |-> {}])
  /\ view' = [view EXCEPT !.typing = FALSE, !.running = Len(runs) + 1]
  /\ UNCHANGED <<files, calls, blobs, manifest>>

\* Enter or y, at a prompt.
Yes ==
  /\ Deciding
  /\ view' = [view EXCEPT !.pending = None]
  /\ IF view.pending = UndoOf
     THEN LET restored == Restored(files, manifest.entries, blobs) IN
          /\ files' = restored
          /\ runs' = Meddled(runs, {p \in Paths : restored[p] # files[p]}, 0)
          /\ UNCHANGED <<calls, blobs>>
     ELSE Grant(view.pending) /\ UNCHANGED files
  /\ UNCHANGED manifest

\* n or Escape, at a prompt.
No ==
  /\ Deciding
  /\ view' = [view EXCEPT !.pending = None]
  /\ IF view.pending = UndoOf THEN UNCHANGED <<calls, runs, blobs>> ELSE Decline(view.pending)
  /\ UNCHANGED <<files, manifest>>

\* u: the session's own snapshot, once a run of it has finished.
AskUndo ==
  /\ Ordinary /\ manifest # NoManifest
  /\ view' = [view EXCEPT !.pending = UndoOf]
  /\ UNCHANGED <<files, runs, calls, blobs, manifest>>

\* Ctrl-P or ":"; a prompt may come up under the open palette.
OpenPalette ==
  /\ Ordinary \/ (view.open /\ view.typing)
  /\ view' = [view EXCEPT !.palette = TRUE]
  /\ UNCHANGED <<files, runs, calls, blobs, manifest>>

ClosePalette ==
  /\ view.open /\ ~view.typing /\ view.palette
  /\ view' = [view EXCEPT !.palette = FALSE]
  /\ UNCHANGED <<files, runs, calls, blobs, manifest>>

PaletteUndo ==
  /\ view.open /\ ~view.typing /\ view.palette /\ manifest # NoManifest
  /\ view' = [view EXCEPT !.palette = FALSE, !.pending = UndoOf]
  /\ UNCHANGED <<files, runs, calls, blobs, manifest>>

\* Ctrl-C during a run: every call under way is cancelled, the run left.
StopRun ==
  /\ Ordinary /\ view.running # 0
  /\ calls' = Aborted(calls, ActiveCalls(runs))
  /\ runs' = Unwatched(Release(runs, ActiveCalls(runs)), view.running)
  /\ view' = Idle
  /\ UNCHANGED <<files, blobs, manifest>>

\* quit: the prompt on display is declined, every call under way cancelled.
Quit ==
  LET declined == IF view.pending \in DOMAIN calls
                  THEN [calls EXCEPT ![view.pending].stage = "over"] ELSE calls IN
  /\ view' = [view EXCEPT !.open = FALSE, !.palette = FALSE, !.pending = None, !.running = 0]
  /\ calls' = Aborted(declined, ActiveCalls(runs))
  /\ runs' = Unwatched(Release(runs, ActiveCalls(runs)), view.running)
  /\ UNCHANGED <<files, blobs, manifest>>

\* q or Escape; Ctrl-C at a prompt, while typing or with nothing running; the
\* palette's quit.
QuitKey ==
  /\ view.open
  /\ view.typing \/ view.palette \/ Ordinary \/ Deciding
  /\ Quit

-----------------------------------------------------------------------------
CallStep == \E c \in DOMAIN calls : Gate(c) \/ Edit(c) \/ Write(c) \/ Work(c) \/ Timeout(c)
RunStep == \E r \in DOMAIN runs : BeginCall(r) \/ AsksFor(r) \/ EndBatch(r) \/ Finishes(r) \/ Fails(r)
KeyStep ==
  \/ FocusPrompt \/ BlurPrompt \/ SubmitTask \/ Yes \/ No \/ AskUndo
  \/ OpenPalette \/ ClosePalette \/ PaletteUndo \/ StopRun \/ QuitKey

Next == CallStep \/ RunStep \/ KeyStep

\* The provider answers, a batch goes on, the classifier and a budget come to
\* their end; no human, no tool and no disk has to answer.
Fairness ==
  /\ \A r \in 1..MaxRuns :
       WF_vars(r \in DOMAIN runs /\ (BeginCall(r) \/ EndBatch(r) \/ Finishes(r)))
  /\ \A c \in 1..MaxCalls : WF_vars(c \in DOMAIN calls /\ Timeout(c))

Spec == Init /\ [][Next]_vars /\ Fairness

-----------------------------------------------------------------------------
(* "The first capture wins", before the write: every path a write or edit   *)
(* of a run has changed is in its snapshot, that of a cancelled call too,   *)
(* and what a command or a subagent may have changed is noted.              *)
ChangesAreOnRecord ==
  \A c \in DOMAIN calls :
    calls[c].changed =>
      LET snap == runs[RunOf(c)].snap IN
      IF calls[c].kind \in {"write", "edit"} THEN calls[c].path \in Covered(snap.entries)
      ELSE snap.noted

(* The manifest a finished run leaves names every path its calls changed,   *)
(* but for calls that were cancelled, whose work may have outlived the run. *)
FinishedRunsAreRecorded ==
  manifest # NoManifest =>
    \A c \in DOMAIN calls :
      RunOf(c) = manifest.run /\ calls[c].kind \in {"write", "edit"}
      /\ calls[c].changed /\ ~calls[c].barred
      => calls[c].path \in Covered(manifest.entries)

(* What a session changes, it can put back: see each part. *)
RecordIsTrue ==
  TypeOK /\ ChangesAreOnRecord /\ FinishedRunsAreRecorded

\* No other run of the session has copied bytes into the directory.
SoleRun(r) ==
  \A q \in DOMAIN runs \ {r} :
    \A i \in DOMAIN runs[q].snap.entries : runs[q].snap.entries[i].blob = NoBlob

(* Undoing the only run that captured bytes gives every path it captured,   *)
(* and nothing else touched, the content it had when the run began: through *)
(* any number of writes and edits, late ones of cancelled calls included.   *)
UndoRestores ==
  [][view.pending = UndoOf /\ Yes /\ SoleRun(manifest.run) =>
       \A i \in DOMAIN manifest.entries :
         LET e == manifest.entries[i]  run == runs[manifest.run] IN
         e.path \notin run.meddled /\ (e.existed \/ run.before[e.path] = Absent)
         => files'[e.path] = run.before[e.path]]_vars

(* A call cancelled before it was approved never changes a file, whatever   *)
(* key answers its prompt and when: Ctrl-C and timeouts come before y.      *)
CancelledBeforeYesNeverWrites ==
  [][\A c \in DOMAIN calls :
       calls[c].barred /\ calls[c].stage \in {"gate", "asked"}
       => calls'[c].stage \in {"gate", "asked", "over"} /\ ~calls'[c].changed]_vars

(* "q / Ctrl+C quit (a pending approval is declined)".                      *)
QuitDeclines ==
  [][view.open /\ ~view'.open /\ view.pending \in DOMAIN calls
       => calls'[view.pending].stage = "over" /\ ~calls'[view.pending].changed]_vars

(* What a key was pressed for happens: an undo restores, a stop prevents,
   a quit declines. *)
StopsAndUndosHold ==
  UndoRestores /\ CancelledBeforeYesNeverWrites /\ QuitDeclines

(* Every task comes to its end, though prompts are replaced by others and   *)
(* never answered, tools never settle and keys are pressed at any time.     *)
EveryRunEnds ==
  \A r \in 1..MaxRuns :
    (r \in DOMAIN runs) ~> (r \in DOMAIN runs /\ runs[r].state = "over")

-----------------------------------------------------------------------------
(* What the documents and comments say, and the code does not do.           *)

(* cli.ts: --risk labels a call "before asking"; only --auto-approve-safe   *)
(* skips the question, and it is not given here.                            *)
LabelsNeverDecide ==
  [][\A c \in DOMAIN calls :
       calls[c].stage = "gate" /\ ~AssumeYes => calls'[c].stage \in {"gate", "asked", "over"}]_vars

(* tui.ts: Ctrl-C means "stop this run", and a tool must not keep           *)
(* "executing - and writing - underneath a view that shows the run as       *)
(* stopped".                                                                *)
StoppedRunsStartNothing ==
  [][\A c \in DOMAIN calls :
       calls[c].stage \in {"gate", "asked"} /\ ~runs[RunOf(c)].watched
       => calls'[c].stage \notin {"reading", "writing", "running"}]_vars

(* snapshot.ts: of bytes not captured, "undo cannot restore this path".     *)
UndoRemovesOnlyTheNew ==
  [][view.pending = UndoOf /\ Yes =>
       \A p \in Existing : files[p] # Absent => files'[p] # Absent]_vars

(* ui.md: u undoes "the file changes this run made".                        *)
UndoOfLaterTasks ==
  [][view.pending = UndoOf /\ Yes =>
       \A i \in DOMAIN manifest.entries :
         LET e == manifest.entries[i]  run == runs[manifest.run] IN
         e.existed /\ e.path \notin run.meddled => files'[e.path] = run.before[e.path]]_vars
=============================================================================
