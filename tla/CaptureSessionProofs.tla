-------------------------- MODULE CaptureSessionProofs --------------------------
(***************************************************************************)
(* Theorems about CaptureSession for any number of entries and faults.     *)
(* The inductive invariant IInv follows the two files through a session:   *)
(* nothing is captured once the artifact is being built, the checkpoint    *)
(* thread has ended before the checkpoint is deleted unless the join was   *)
(* late, and a completed checkpoint is on disk unless somebody is known to *)
(* have taken it away.                                                     *)
(***************************************************************************)
EXTENDS CaptureSession, TLAPS

\* From the close of the browser on, the artifact is the whole session.
ArtifactInv ==
    /\ pc \in {"finalizing", "deleting", "persisting", "storing", "done"} => ~alive
    /\ pc \in {"deleting", "persisting", "storing", "done"} => artifact = entries
    /\ store.kind = "complete" => pc = "done" /\ store.count = artifact

\* What stop() has achieved when nothing came late.
CleanupInv ==
    ~late => /\ pc \in {"collecting", "finalizing", "deleting", "persisting",
                        "storing", "done"} => ckpt = "ended"
             /\ pc \in {"persisting", "storing", "done"} => file = Absent

\* Where a completed checkpoint is while the process lives.
CheckpointInv ==
    pc \notin Ended =>
        /\ file.kind = "torn" => file = Torn /\ (ckpt = "writing" \/ faults > 0)
        /\ pc = "idle" => ckpt = "none"
        /\ Checkpointed /\ file.kind = "absent" => pc \in {"persisting", "storing"}

\* A snapshot lies between the last completed checkpoint and the entries.
SnapshotInv ==
    /\ saved.count <= entries
    /\ ckpt \in {"opening", "writing"} => saved.count <= snap /\ snap <= entries

IInv ==
    /\ TypeOK
    /\ ArtifactInv
    /\ CleanupInv
    /\ CheckpointInv
    /\ SnapshotInv
    /\ DeathLosesOnlyInWindow

--------------------------------------------------------------------------------
USE FlagAssumption, BoundsAssumption
    DEF TypeOK, CliSteps, Ended, CkptSteps, Step, Fault, browserVars, diskVars

\* What a file may hold.
LEMMA ContentsLemma ==
    /\ Absent \in Contents /\ Torn \in Contents
    /\ \A n \in Nat : Complete(n) \in Contents
BY DEF Absent, Torn, Complete, Contents

\* Every CLI step keeps the types.
LEMMA CliTypes == ASSUME TypeOK, Cli PROVE TypeOK'
<1>1. CASE Start \/ StartFails \/ InstallHandlers \/ AwaitReturns \/ BeginStop
  BY <1>1 DEF Start, StartFails, InstallHandlers, AwaitReturns, BeginStop
<1>2. CASE Collect \/ Finalize
  BY <1>2 DEF Collect, Finalize
<1>3. CASE Join \/ DeleteCheckpoint \/ StoreFails
  <2>1. faults' \in 0..MaxFaults
    BY <1>3 DEF Join, DeleteCheckpoint, StoreFails
  <2>2. CASE Join
    <3>1. late' \in BOOLEAN
      BY <2>2 DEF Join
    <3>2. /\ pc' \in CliSteps \cup Ended
          /\ <<ckpt, snap, stopFlag, alive, disconnected, entries, entered, handlers,
               artifact, file, store, saved, diedAt>>'
               = <<ckpt, snap, stopFlag, alive, disconnected, entries, entered, handlers,
                   artifact, file, store, saved, diedAt>>
      BY <2>2 DEF Join
    <3>3. QED
      BY <2>1, <3>1, <3>2
  <2>3. CASE DeleteCheckpoint
    <3>1. late' \in BOOLEAN
      BY <2>3 DEF DeleteCheckpoint
    <3>2. file' \in Contents
      BY <2>3, ContentsLemma DEF DeleteCheckpoint
    <3>3. /\ pc' \in CliSteps \cup Ended
          /\ <<ckpt, snap, stopFlag, alive, disconnected, entries, entered, handlers,
               artifact, store, saved, diedAt>>'
               = <<ckpt, snap, stopFlag, alive, disconnected, entries, entered, handlers,
                   artifact, store, saved, diedAt>>
      BY <2>3 DEF DeleteCheckpoint
    <3>4. QED
      BY <2>1, <3>1, <3>2, <3>3
  <2>4. CASE StoreFails
    BY <2>1, <2>4 DEF StoreFails
  <2>5. QED
    BY <1>3, <2>2, <2>3, <2>4
<1>4. CASE BeginStore \/ FinishStore
  BY <1>4, ContentsLemma DEF BeginStore, FinishStore
<1>5. QED
  BY <1>1, <1>2, <1>3, <1>4 DEF Cli

\* So does every other step.
LEMMA OtherTypes ==
    ASSUME TypeOK, Checkpointer \/ Capture \/ CloseBrowser \/ PressEnter \/ Signal \/ Die
    PROVE  TypeOK'
<1>1. CASE Checkpointer
  <2>1. CASE Tick \/ Snapshot \/ LoopEnds
    BY <2>1 DEF Tick, Snapshot, LoopEnds
  <2>2. CASE OpenCheckpoint \/ WriteCheckpoint
    BY <2>2, ContentsLemma DEF OpenCheckpoint, WriteCheckpoint
  <2>3. CASE CheckpointFails
    <3>1. faults' \in 0..MaxFaults
      BY <2>3 DEF CheckpointFails
    <3>2. QED
      BY <2>3, <3>1 DEF CheckpointFails
  <2>4. QED
    BY <1>1, <2>1, <2>2, <2>3 DEF Checkpointer
<1>2. CASE Capture
  BY <1>2 DEF Capture
<1>3. CASE CloseBrowser \/ PressEnter \/ Signal
  <2>1. alive' \in BOOLEAN /\ disconnected' \in BOOLEAN /\ entered' \in BOOLEAN
    BY <1>3 DEF CloseBrowser, PressEnter, Signal
  <2>2. <<pc, ckpt, snap, stopFlag, entries, handlers, artifact, file, store, faults,
          saved, late, diedAt>>'
          = <<pc, ckpt, snap, stopFlag, entries, handlers, artifact, file, store, faults,
              saved, late, diedAt>>
    BY <1>3 DEF CloseBrowser, PressEnter, Signal
  <2>3. QED
    BY <2>1, <2>2
<1>4. CASE Die
  BY <1>4 DEF Die
<1>5. QED
  BY <1>1, <1>2, <1>3, <1>4

USE DEF Contents, Absent, Torn, Complete, Checkpointed

\* A step of the CLI thread keeps what the files are known to hold.
LEMMA CliKeeps == ASSUME IInv, TypeOK', Cli PROVE IInv'
<1> USE DEF IInv
<1>1. ArtifactInv'
  <2>1. CASE BeginStore \/ FinishStore \/ StoreFails
    BY <2>1 DEF BeginStore, FinishStore, StoreFails, ArtifactInv
  <2>2. CASE Start \/ StartFails \/ InstallHandlers \/ AwaitReturns \/ BeginStop \/ Join
    BY <2>2 DEF Start, StartFails, InstallHandlers, AwaitReturns, BeginStop, Join,
                ArtifactInv
  <2>3. CASE Collect \/ Finalize \/ DeleteCheckpoint
    BY <2>3 DEF Collect, Finalize, DeleteCheckpoint, ArtifactInv
  <2>4. QED
    BY <2>1, <2>2, <2>3 DEF Cli
<1>2. CleanupInv'
  BY DEF Cli, Start, StartFails, InstallHandlers, AwaitReturns, BeginStop, Join, Collect,
         Finalize, DeleteCheckpoint, BeginStore, FinishStore, StoreFails, CleanupInv
<1>3. CheckpointInv'
  <2>1. CASE DeleteCheckpoint
    BY <2>1 DEF DeleteCheckpoint, CheckpointInv
  <2>2. CASE Join
    BY <2>2 DEF Join, CheckpointInv
  <2>3. CASE Start \/ StartFails
    BY <2>3 DEF Start, StartFails, CheckpointInv
  <2>4. CASE InstallHandlers \/ AwaitReturns \/ BeginStop \/ Collect \/ Finalize
    BY <2>4 DEF InstallHandlers, AwaitReturns, BeginStop, Collect, Finalize, CheckpointInv
  <2>5. CASE BeginStore \/ FinishStore \/ StoreFails
    BY <2>5 DEF BeginStore, FinishStore, StoreFails, CheckpointInv
  <2>6. QED
    BY <2>1, <2>2, <2>3, <2>4, <2>5 DEF Cli
<1>4. SnapshotInv'
  BY DEF Cli, Start, StartFails, InstallHandlers, AwaitReturns, BeginStop, Join, Collect,
         Finalize, DeleteCheckpoint, BeginStore, FinishStore, StoreFails, SnapshotInv
<1>5. DeathLosesOnlyInWindow'
  BY DEF Cli, Start, StartFails, InstallHandlers, AwaitReturns, BeginStop, Join, Collect,
         Finalize, DeleteCheckpoint, BeginStore, FinishStore, StoreFails,
         DeathLosesOnlyInWindow
<1>6. QED
  BY <1>1, <1>2, <1>3, <1>4, <1>5

\* A step of the checkpoint thread does: it runs only while the process does.
LEMMA CheckpointerKeeps == ASSUME IInv, TypeOK', Checkpointer PROVE IInv'
<1> USE DEF IInv, Checkpointer
<1>1. ArtifactInv'
  BY DEF Tick, Snapshot, OpenCheckpoint, WriteCheckpoint, CheckpointFails, LoopEnds,
         ArtifactInv
<1>2. CleanupInv'
  BY DEF Tick, Snapshot, OpenCheckpoint, WriteCheckpoint, CheckpointFails, LoopEnds,
         CleanupInv
<1>3. CheckpointInv'
  BY DEF Tick, Snapshot, OpenCheckpoint, WriteCheckpoint, CheckpointFails, LoopEnds,
         CheckpointInv
<1>4. SnapshotInv'
  BY DEF Tick, Snapshot, OpenCheckpoint, WriteCheckpoint, CheckpointFails, LoopEnds,
         SnapshotInv
<1>5. DeathLosesOnlyInWindow'
  BY DEF Tick, Snapshot, OpenCheckpoint, WriteCheckpoint, CheckpointFails, LoopEnds,
         DeathLosesOnlyInWindow
<1>6. QED
  BY <1>1, <1>2, <1>3, <1>4, <1>5

\* The browser, the user and signals touch neither file; death records where
\* the two threads stood.
LEMMA SurroundingsKeep ==
    ASSUME IInv, TypeOK', Capture \/ CloseBrowser \/ PressEnter \/ Signal \/ Die
    PROVE  IInv'
<1> USE DEF IInv
<1>1. CASE Capture \/ CloseBrowser \/ PressEnter \/ Signal
  BY <1>1 DEF Capture, CloseBrowser, PressEnter, Signal, ArtifactInv, CleanupInv,
              CheckpointInv, SnapshotInv, DeathLosesOnlyInWindow
<1>2. CASE Die
  BY <1>2 DEF Die, ArtifactInv, CleanupInv, CheckpointInv, SnapshotInv,
              DeathLosesOnlyInWindow
<1>3. QED
  BY <1>1, <1>2

\* IInv is an invariant of the specification: the initial state satisfies it
\* and every step of the two threads and their surroundings keeps it.
THEOREM Inductive == Spec => []IInv
<1>1. Init => IInv
  <2>1. Init => TypeOK
    <3>1. SUFFICES ASSUME Init PROVE TypeOK
      OBVIOUS
    <3>2. {stopFlag, alive, disconnected, entered, handlers, late} \subseteq BOOLEAN
      BY <3>1, Zenon DEF Init
    <3>3. {snap, entries, artifact} \subseteq 0..MaxEntries /\ faults \in 0..MaxFaults
      BY <3>1 DEF Init
    <3>4. {file, store, saved} \subseteq Contents
      BY <3>1, ContentsLemma DEF Init
    <3>5. diedAt \in [cli : CliSteps, ckpt : CkptSteps]
      BY <3>1 DEF Init
    <3>6. pc \in CliSteps /\ ckpt \in CkptSteps
      BY <3>1 DEF Init
    <3>7. QED
      BY <3>2, <3>3, <3>4, <3>5, <3>6
  <2>2. Init => ArtifactInv /\ CleanupInv /\ CheckpointInv /\ SnapshotInv
    BY DEF Init, ArtifactInv, CleanupInv, CheckpointInv, SnapshotInv
  <2>3. Init => DeathLosesOnlyInWindow
    BY DEF Init, DeathLosesOnlyInWindow
  <2>4. QED
    BY <2>1, <2>2, <2>3 DEF IInv
<1>2. IInv /\ [Next]_vars => IInv'
  <2>1. SUFFICES ASSUME IInv, [Next]_vars PROVE IInv'
    OBVIOUS
  <2>2. CASE Next
    <3>1. TypeOK'
      BY <2>1, <2>2, CliTypes, OtherTypes DEF Next, IInv
    <3>2. QED
      BY ONLY <2>1, <2>2, <3>1, CliKeeps, CheckpointerKeeps, SurroundingsKeep DEF Next
  <2>3. CASE UNCHANGED vars
    BY <2>1, <2>3 DEF vars, IInv, ArtifactInv, CleanupInv, CheckpointInv, SnapshotInv,
                      DeathLosesOnlyInWindow
  <2>4. QED
    BY <2>1, <2>2, <2>3
<1>3. QED
  BY <1>1, <1>2, PTL DEF Spec

\* Every reachable state is well typed.
THEOREM TypeCorrect == Spec => []TypeOK
<1>1. IInv => TypeOK
  BY DEF IInv
<1>2. QED
  BY <1>1, Inductive, PTL

\* A stored artifact holds every captured entry: store_capture writes what
\* stop() returned, and stop() took it after the browser was closed.
THEOREM StoredArtifactIsWhole == Spec => []StoredIsWhole
<1>1. IInv => StoredIsWhole
  BY DEF IInv, ArtifactInv, StoredIsWhole
<1>2. QED
  BY <1>1, Inductive, PTL

\* A session that ends well and in time leaves no plaintext checkpoint.
THEOREM NothingIsLeftBehind == Spec => []CleanExitLeavesNoCheckpoint
<1>1. IInv => CleanExitLeavesNoCheckpoint
  BY DEF IInv, CleanupInv, CleanExitLeavesNoCheckpoint
<1>2. QED
  BY <1>1, Inductive, PTL

\* The only moments at which the death of the process costs the session what
\* a checkpoint had already secured.
THEOREM LossOnlyInWindow == Spec => []DeathLosesOnlyInWindow
<1>1. IInv => DeathLosesOnlyInWindow
  BY DEF IInv
<1>2. QED
  BY <1>1, Inductive, PTL

\* Each completed checkpoint holds at least what the one before it held.
THEOREM CheckpointsGrow == Spec => CheckpointsAdvance
<1>1. IInv /\ [Next]_vars => [saved'.count >= saved.count /\ saved'.count <= entries]_saved
  <2>1. SUFFICES ASSUME IInv, Next, saved' # saved
                 PROVE  saved'.count >= saved.count /\ saved'.count <= entries
    BY DEF vars
  <2>2. WriteCheckpoint
    BY <2>1 DEF Next, Cli, Start, StartFails, InstallHandlers, AwaitReturns, BeginStop,
         Join, Collect, Finalize, DeleteCheckpoint, BeginStore, FinishStore, StoreFails,
         Checkpointer, Tick, Snapshot, OpenCheckpoint, CheckpointFails, LoopEnds,
         Capture, CloseBrowser, PressEnter, Signal, Die
  <2>3. QED
    BY <2>1, <2>2 DEF WriteCheckpoint, IInv, SnapshotInv
<1>2. QED
  BY <1>1, Inductive, PTL DEF Spec, CheckpointsAdvance
================================================================================
