----------------------------- MODULE CaptureSession -----------------------------
(***************************************************************************)
(* One capture session: the CLI thread (_run_capture_session, cli.py) that *)
(* starts, awaits and stops a BrowserRecorder (capture/recorder.py), the   *)
(* recorder's checkpoint thread, the browser's callbacks, the user and the *)
(* signals.  The process may die at any step; two files outlive it: the    *)
(* plaintext checkpoint and the encrypted blob of the secret store.        *)
(*                                                                         *)
(* Captured entries are append-only, so a snapshot is its length.  Both    *)
(* files are written with write_text, which truncates before it writes.    *)
(* An entry counts once _on_entry has appended it, and driver.stop()       *)
(* returns after the last callback.  URLs, storage_state, audit events and *)
(* the progress output are left out.                                       *)
(***************************************************************************)
EXTENDS Naturals

CONSTANTS
    DisconnectEvents, \* the browser object reports "disconnected"
    MaxEntries,       \* bound: request/response pairs in a session
    MaxFaults         \* bound: failed or slow writes, failed unlink

ASSUME FlagAssumption == DisconnectEvents \in BOOLEAN
ASSUME BoundsAssumption == MaxEntries \in Nat /\ MaxFaults \in Nat

VARIABLES
    pc,           \* the CLI thread
    ckpt,         \* the checkpoint thread
    snap,         \* length of the snapshot the checkpoint thread holds
    stopFlag,     \* _checkpoint_stop
    alive,        \* the browser runs
    disconnected, \* _disconnect_event
    entered,      \* the user pressed Enter
    handlers,     \* the session's signal handlers are installed
    entries,      \* number of captured entries
    artifact,     \* length of the finalized artifact
    file,         \* the checkpoint file: [kind, count]
    store,        \* the blob in the secret store: [kind, count]
    faults,
    saved,        \* history: the last checkpoint that was completed
    late,         \* history: join timed out, or unlink failed
    diedAt        \* history: what the two threads did when the process died

browserVars == <<alive, disconnected, entries>>
diskVars == <<file, store>>
vars == <<pc, ckpt, snap, stopFlag, browserVars, entered, handlers, artifact,
          diskVars, faults, saved, late, diedAt>>

CliSteps == {"idle", "opened", "awaiting", "closing", "joining", "collecting",
             "finalizing", "deleting", "persisting", "storing"}
Ended == {"done", "failed", "dead"}
CkptSteps == {"none", "waiting", "due", "opening", "writing", "ended"}

Contents == [kind : {"absent", "torn", "complete"}, count : Nat]
Absent == [kind |-> "absent", count |-> 0]
Torn == [kind |-> "torn", count |-> 0]
Complete(n) == [kind |-> "complete", count |-> n]

TypeOK ==
    /\ pc \in CliSteps \cup Ended
    /\ ckpt \in CkptSteps
    /\ snap \in 0..MaxEntries
    /\ stopFlag \in BOOLEAN
    /\ alive \in BOOLEAN
    /\ disconnected \in BOOLEAN
    /\ entered \in BOOLEAN
    /\ handlers \in BOOLEAN
    /\ entries \in 0..MaxEntries
    /\ artifact \in 0..MaxEntries
    /\ file \in Contents
    /\ store \in Contents
    /\ faults \in 0..MaxFaults
    /\ saved \in Contents
    /\ late \in BOOLEAN
    /\ diedAt \in [cli : CliSteps, ckpt : CkptSteps]

Init ==
    /\ pc = "idle"
    /\ ckpt = "none"
    /\ snap = 0
    /\ stopFlag = FALSE
    /\ alive = FALSE
    /\ disconnected = FALSE
    /\ entered = FALSE
    /\ handlers = FALSE
    /\ entries = 0
    /\ artifact = 0
    /\ file = Absent
    /\ store = Absent
    /\ faults = 0
    /\ saved = Absent
    /\ late = FALSE
    /\ diedAt = [cli |-> "idle", ckpt |-> "none"]

Fault ==
    /\ faults < MaxFaults
    /\ faults' = faults + 1

Step(from, to) == pc = from /\ pc' = to

--------------------------------------------------------------------------------
(* The CLI thread *)

\* recorder.start: browser, callbacks, checkpoint thread.
Start ==
    /\ Step("idle", "opened")
    /\ alive' = TRUE
    /\ ckpt' = "waiting"
    /\ UNCHANGED <<snap, stopFlag, disconnected, entries, entered, handlers, artifact,
                   diskVars, faults, saved, late, diedAt>>

\* Exit code 3: nothing was started.
StartFails ==
    /\ Step("idle", "failed")
    /\ UNCHANGED <<ckpt, snap, stopFlag, browserVars, entered, handlers, artifact,
                   diskVars, faults, saved, late, diedAt>>

InstallHandlers ==
    /\ Step("opened", "awaiting")
    /\ handlers' = TRUE
    /\ UNCHANGED <<ckpt, snap, stopFlag, browserVars, entered, artifact, diskVars,
                   faults, saved, late, diedAt>>

\* Mutant: only Enter ends the wait.
AwaitReturns_EnterOnly ==
    /\ Step("awaiting", "closing")
    /\ entered
    /\ UNCHANGED <<ckpt, snap, stopFlag, browserVars, entered, handlers, artifact,
                   diskVars, faults, saved, late, diedAt>>

\* _await_user_signal_or_browser_close; a signal shows as a disconnect.
AwaitReturns ==
    /\ Step("awaiting", "closing")
    /\ disconnected \/ entered
    /\ UNCHANGED <<ckpt, snap, stopFlag, browserVars, entered, handlers, artifact,
                   diskVars, faults, saved, late, diedAt>>

\* Mutant: the checkpoint is deleted as soon as stop() begins.
BeginStop_Deletes ==
    /\ Step("closing", "joining")
    /\ handlers' = FALSE
    /\ stopFlag' = TRUE
    /\ file' = Absent
    /\ UNCHANGED <<ckpt, snap, browserVars, entered, artifact, store, faults,
                   saved, late, diedAt>>

\* The handlers go before stop() begins.
BeginStop ==
    /\ Step("closing", "joining")
    /\ handlers' = FALSE
    /\ stopFlag' = TRUE
    /\ UNCHANGED <<ckpt, snap, browserVars, entered, artifact, diskVars, faults,
                   saved, late, diedAt>>

\* Mutant: stop() does not wait for the checkpoint thread.
Join_NoWait ==
    /\ Step("joining", "collecting")
    /\ UNCHANGED <<ckpt, snap, stopFlag, browserVars, entered, handlers, artifact,
                   diskVars, faults, saved, late, diedAt>>

\* join(timeout=2.0): a checkpoint write may take longer.
Join ==
    /\ Step("joining", "collecting")
    /\ \/ ckpt = "ended" /\ UNCHANGED <<faults, late>>
       \/ ckpt # "ended" /\ Fault /\ late' = TRUE
    /\ UNCHANGED <<ckpt, snap, stopFlag, browserVars, entered, handlers, artifact,
                   diskVars, saved, diedAt>>

\* Mutant: the browser stays open while the artifact is built.
Collect_LeavesBrowser ==
    /\ Step("collecting", "finalizing")
    /\ UNCHANGED <<ckpt, snap, stopFlag, browserVars, entered, handlers, artifact,
                   diskVars, faults, saved, late, diedAt>>

\* storage_state, final_url, driver.stop: closing fires the disconnect hook.
Collect ==
    /\ Step("collecting", "finalizing")
    /\ alive' = FALSE
    /\ disconnected' = (disconnected \/ (alive /\ DisconnectEvents))
    /\ UNCHANGED <<ckpt, snap, stopFlag, entries, entered, handlers, artifact,
                   diskVars, faults, saved, late, diedAt>>

\* _build_artifact with the entries of now.
Finalize ==
    /\ Step("finalizing", "deleting")
    /\ artifact' = entries
    /\ UNCHANGED <<ckpt, snap, stopFlag, browserVars, entered, handlers, diskVars,
                   faults, saved, late, diedAt>>

\* _delete_checkpoint: an OSError of unlink is swallowed.
DeleteCheckpoint ==
    /\ Step("deleting", "persisting")
    /\ \/ file' = Absent /\ UNCHANGED <<faults, late>>
       \/ file # Absent /\ Fault /\ late' = TRUE /\ UNCHANGED file
    /\ UNCHANGED <<ckpt, snap, stopFlag, browserVars, entered, handlers, artifact,
                   store, saved, diedAt>>

\* LocalKeyringStore.put: open and truncate, then write.
BeginStore ==
    /\ Step("persisting", "storing")
    /\ store' = Torn
    /\ UNCHANGED <<ckpt, snap, stopFlag, browserVars, entered, handlers, artifact,
                   file, faults, saved, late, diedAt>>

FinishStore ==
    /\ Step("storing", "done")
    /\ store' = Complete(artifact)
    /\ UNCHANGED <<ckpt, snap, stopFlag, browserVars, entered, handlers, artifact,
                   file, faults, saved, late, diedAt>>

\* Exit code 5, or an uncaught OSError: the artifact is gone with the process.
StoreFails ==
    /\ pc \in {"persisting", "storing"}
    /\ Fault
    /\ pc' = "failed"
    /\ UNCHANGED <<ckpt, snap, stopFlag, browserVars, entered, handlers, artifact,
                   diskVars, saved, late, diedAt>>

--------------------------------------------------------------------------------
(* The checkpoint thread; a daemon, it dies with the process *)

\* wait(CHECKPOINT_INTERVAL_SECONDS) timed out.
Tick ==
    /\ ckpt = "waiting"
    /\ ~stopFlag
    /\ ckpt' = "due"
    /\ UNCHANGED <<pc, snap, stopFlag, browserVars, entered, handlers, artifact,
                   diskVars, faults, saved, late, diedAt>>

\* _build_artifact(in_progress=True).
Snapshot ==
    /\ ckpt = "due"
    /\ ckpt' = "opening"
    /\ snap' = entries
    /\ UNCHANGED <<pc, stopFlag, browserVars, entered, handlers, artifact, diskVars,
                   faults, saved, late, diedAt>>

OpenCheckpoint ==
    /\ ckpt = "opening"
    /\ ckpt' = "writing"
    /\ file' = Torn
    /\ UNCHANGED <<pc, snap, stopFlag, browserVars, entered, handlers, artifact,
                   store, faults, saved, late, diedAt>>

WriteCheckpoint ==
    /\ ckpt = "writing"
    /\ ckpt' = "waiting"
    /\ file' = Complete(snap)
    /\ saved' = file'
    /\ UNCHANGED <<pc, snap, stopFlag, browserVars, entered, handlers, artifact,
                   store, faults, late, diedAt>>

\* "checkpoint write failed" is logged and the loop goes on.
CheckpointFails ==
    /\ ckpt \in {"opening", "writing"}
    /\ Fault
    /\ ckpt' = "waiting"
    /\ UNCHANGED <<pc, snap, stopFlag, browserVars, entered, handlers, artifact,
                   diskVars, saved, late, diedAt>>

\* The stop event ends the loop.
LoopEnds ==
    /\ ckpt = "waiting"
    /\ stopFlag
    /\ ckpt' = "ended"
    /\ UNCHANGED <<pc, snap, stopFlag, browserVars, entered, handlers, artifact,
                   diskVars, faults, saved, late, diedAt>>

--------------------------------------------------------------------------------
(* Browser, user, signals, death *)

Capture ==
    /\ alive
    /\ pc \notin Ended
    /\ entries < MaxEntries
    /\ entries' = entries + 1
    /\ UNCHANGED <<pc, ckpt, snap, stopFlag, alive, disconnected, entered, handlers,
                   artifact, diskVars, faults, saved, late, diedAt>>

CloseBrowser ==
    /\ alive
    /\ pc \notin Ended
    /\ alive' = FALSE
    /\ disconnected' = (disconnected \/ DisconnectEvents)
    /\ UNCHANGED <<pc, ckpt, snap, stopFlag, entries, entered, handlers, artifact,
                   diskVars, faults, saved, late, diedAt>>

PressEnter ==
    /\ pc = "awaiting"
    /\ ~entered
    /\ entered' = TRUE
    /\ UNCHANGED <<pc, ckpt, snap, stopFlag, browserVars, handlers, artifact, diskVars,
                   faults, saved, late, diedAt>>

\* SIGINT or SIGTERM while the handlers are installed: _handle_signal.
Signal ==
    /\ handlers
    /\ pc \notin Ended
    /\ ~disconnected
    /\ disconnected' = TRUE
    /\ UNCHANGED <<pc, ckpt, snap, stopFlag, alive, entries, entered, handlers, artifact,
                   diskVars, faults, saved, late, diedAt>>

\* A crash, SIGKILL, or a signal outside the handlers' window.
Die ==
    /\ pc \in CliSteps \ {"idle"}
    /\ pc' = "dead"
    /\ ckpt' = "ended"
    /\ diedAt' = [cli |-> pc, ckpt |-> ckpt]
    /\ UNCHANGED <<snap, stopFlag, browserVars, entered, handlers, artifact, diskVars,
                   faults, saved, late>>

Cli ==
    \/ Start
    \/ StartFails
    \/ InstallHandlers
    \/ AwaitReturns
    \/ BeginStop
    \/ Join
    \/ Collect
    \/ Finalize
    \/ DeleteCheckpoint
    \/ BeginStore
    \/ FinishStore
    \/ StoreFails

\* The thread runs as long as the process does.
Checkpointer ==
    /\ pc \notin Ended
    /\ \/ Tick
       \/ Snapshot
       \/ OpenCheckpoint
       \/ WriteCheckpoint
       \/ CheckpointFails
       \/ LoopEnds

Next ==
    \/ Cli
    \/ Checkpointer
    \/ Capture
    \/ CloseBrowser
    \/ PressEnter
    \/ Signal
    \/ Die

Spec == Init /\ [][Next]_vars

\* The two threads run; the user owes nothing.
Fairness == WF_vars(Cli) /\ WF_vars(Checkpointer)

FairSpec == Spec /\ Fairness

--------------------------------------------------------------------------------
(* Properties *)

\* A stored artifact holds every entry the recorder ever captured: the
\* snapshot is taken after the browser is closed, and nothing is appended
\* between the snapshot and the write (recorder.py:816-826).
StoredIsWhole == store.kind = "complete" => store.count = entries

\* A session that ends well leaves no plaintext checkpoint behind, unless
\* the join timed out or the unlink failed: the checkpoint thread cannot
\* write the file again after it was deleted (recorder.py:807-809, 839).
CleanExitLeavesNoCheckpoint == pc = "done" /\ ~late => file = Absent

Checkpointed == saved.kind = "complete"

\* Once a checkpoint was completed, the death of the process loses it only
\* in the middle of a later checkpoint write (or after a failed one), or in
\* the window between its deletion and the end of the store write.
DeathLosesOnlyInWindow ==
    pc = "dead" /\ Checkpointed /\ file.kind # "complete" /\ store.kind # "complete"
        => \/ diedAt.ckpt = "writing"
           \/ file = Torn /\ faults > 0
           \/ diedAt.cli \in {"persisting", "storing"}

\* What recover_in_progress would return never shrinks while the session
\* records: a checkpoint holds at least the entries of every earlier one,
\* and none that was not captured (recorder.py:871-885, 899-904).
CheckpointsAdvance ==
    [][saved'.count >= saved.count /\ saved'.count <= entries]_saved

\* Enter, a closed browser that reports it, and a signal each end the wait,
\* and the cleanup then comes to an end (cli.py:240-254, recorder.py:806-839).
SessionEnds == (disconnected \/ entered) ~> pc \in Ended
================================================================================
