-------------------------- MODULE JobStateManager --------------------------
(***************************************************************************)
(* The state kept about jobs, src/core/jobs/job-state-manager.ts:          *)
(* registration and executions, the snapshot written every interval and at *)
(* shutdown, and the load a new process starts with.                       *)
(*                                                                         *)
(* The file system is external: a write truncates the temporary file or    *)
(* creates it, and fills it later; a rename gives it the name of the state *)
(* file, whoever is writing to it; either may fail, leaving what was done. *)
(***************************************************************************)
EXTENDS Integers, FiniteSets

CONSTANTS
    Jobs,
    Saves,        \* the saves that may be in progress at once
    None,         \* no job state, no file, no save
    Torn,         \* the content of a file that is not a whole snapshot
    MaxExecutions, MaxFaults  \* bounds

JobState == [executions : Nat, ended : Nat]
Snapshots == [states : [Jobs -> JobState \cup {None}], running : SUBSET Jobs]

ASSUME StateAssumption ==
    /\ MaxExecutions \in Nat /\ MaxFaults \in Nat
    /\ None \notin Saves \cup JobState \cup Snapshots \cup {Torn}
    /\ None \notin {"temp", "file", "gone"} /\ Torn \notin Snapshots

VARIABLES
    states,       \* the state of each job, None when it has none
    running,      \* the executions under way: number and job
    isDirty,
    phase,        \* "up", "stopping", "stopped" or "failed" (shutdown rejected)
    load,         \* "no", or what loadState() waits for: "access", "read"
    loaded,       \* the content it has read, None before
    stage,        \* of each save: "idle", "open", "write" or "rename"
    fd, snap,     \* the file it writes to, by the name the file now has ("temp",
                  \* "file", or "gone" when it has none), and the snapshot
    final,        \* the save shutdown() waits for
    temp, file,   \* the content of the temporary and the state file, or None
    started, faults,  \* counts: executions; saves that failed and restarts
    last,         \* history, until it is loaded: what the last process knew when
                  \* it ended, Torn if something had kept it from being saved
    overlapped,   \* history: a save began before another had ended
    raced,        \* history: a change, a load or a save fell into the last save,
                  \* or this process has saved nothing yet
    mixed         \* history: the jobs that lost count of their executions

memory  == <<states, running, isDirty>>
loading == <<load, loaded>>
saving  == <<stage, fd, snap, final>>
disk    == <<temp, file>>
ghosts  == <<last, overlapped, raced, mixed>>
vars == <<memory, phase, loading, saving, disk, started, faults, ghosts>>

Busy == {s \in Saves : stage[s] # "idle"}
Live == phase \in {"up", "stopping"}
RunningOf(j) == {r \in running : r[2] = j}

NewState == [executions |-> 0, ended |-> 0]
Snapshot == [states |-> states, running |-> {r[2] : r \in running}]

-----------------------------------------------------------------------------
\* The constructor: it sets the interval and starts to load.
Init ==
    /\ states = [j \in Jobs |-> None] /\ running = {} /\ isDirty = FALSE
    /\ phase = "up" /\ load = "access" /\ loaded = None
    /\ stage = [s \in Saves |-> "idle"] /\ fd = [s \in Saves |-> None]
    /\ snap = [s \in Saves |-> Torn] /\ final = None
    /\ temp = None /\ file = None
    /\ started = 0 /\ faults = 0
    /\ last = Torn
    /\ overlapped = FALSE /\ raced = TRUE /\ mixed = {}

\* Every operation that changes the state marks it.
Change ==
    /\ isDirty' = TRUE
    /\ raced' = (raced \/ Busy # {})
    /\ UNCHANGED <<phase, loading, saving, disk, faults,
                   last, overlapped>>

RegisterJob(j) ==
    /\ Live
    /\ states' = IF states[j] = None THEN [states EXCEPT ![j] = NewState] ELSE states
    /\ Change
    /\ UNCHANGED <<running, started, mixed>>

\* The first execution of the job is cancelled; others go on without a state.
UnregisterJob(j) ==
    /\ Live /\ states[j] # None
    /\ states' = [states EXCEPT ![j] = None]
    /\ running' = {r \in running : r[2] = j => \E q \in RunningOf(j) : q[1] < r[1]}
    /\ mixed' = IF Cardinality(RunningOf(j)) > 1 THEN mixed \cup {j} ELSE mixed
    /\ Change
    /\ UNCHANGED started

StartExecutionUnmarked(j) ==  \* mutant
    /\ Live /\ states[j] # None /\ started < MaxExecutions
    /\ started' = started + 1
    /\ running' = running \cup {<<started + 1, j>>}
    /\ states' = [states EXCEPT ![j].executions = @ + 1]
    /\ raced' = (raced \/ Busy # {})
    /\ UNCHANGED <<isDirty, phase, loading, saving, disk, faults,
                   last, overlapped, mixed>>
StartExecution(j) ==
    /\ Live /\ states[j] # None /\ started < MaxExecutions
    /\ started' = started + 1
    /\ running' = running \cup {<<started + 1, j>>}
    /\ states' = [states EXCEPT ![j].executions = @ + 1]
    /\ Change
    /\ UNCHANGED mixed

\* The statistics of the job, if it still has a state.
EndExecutionKept(r) ==  \* mutant
    /\ Live
    /\ states' = IF states[r[2]] = None THEN states
                 ELSE [states EXCEPT ![r[2]].ended = @ + 1]
    /\ Change
    /\ UNCHANGED <<running, started, mixed>>
EndExecutionUnmarked(r) ==  \* mutant
    /\ Live
    /\ states' = IF states[r[2]] = None THEN states
                 ELSE [states EXCEPT ![r[2]].ended = @ + 1]
    /\ running' = running \ {r}
    /\ raced' = (raced \/ Busy # {})
    /\ UNCHANGED <<isDirty, phase, loading, saving, disk, faults, last,
                   overlapped, started, mixed>>
EndExecution(r) ==
    /\ Live
    /\ states' = IF states[r[2]] = None THEN states
                 ELSE [states EXCEPT ![r[2]].ended = @ + 1]
    /\ running' = running \ {r}
    /\ Change
    /\ UNCHANGED <<started, mixed>>

\* setJobEnabled(), setNextRun(), updateExecution(): their values are left out.
SetField(j) ==
    /\ Live /\ (states[j] # None \/ RunningOf(j) # {})
    /\ Change
    /\ UNCHANGED <<states, running, started, mixed>>

-----------------------------------------------------------------------------
\* persistState(), as far as its first await.
PersistState(s) ==
    /\ stage[s] = "idle"
    /\ stage' = [stage EXCEPT ![s] = "open"]
    /\ snap' = [snap EXCEPT ![s] = Snapshot]
    /\ overlapped' = (overlapped \/ Busy # {})
    /\ raced' = (Busy # {} \/ load # "no")
    /\ last' = IF load = "no" THEN last ELSE Torn
    /\ UNCHANGED <<fd, disk, loading, started, faults, mixed>>

AutoPersist(s) ==
    /\ phase = "up" /\ isDirty
    /\ PersistState(s)
    /\ UNCHANGED <<memory, phase, final>>

\* writeFile() opens the temporary file: this empties it or creates it.
OpenTemp(s) ==
    /\ stage[s] = "open"
    /\ stage' = [stage EXCEPT ![s] = "write"]
    /\ fd' = [fd EXCEPT ![s] = "temp"]
    /\ temp' = Torn
    /\ UNCHANGED <<memory, phase, loading, snap, final, file, started, faults, ghosts>>

\* What a write makes of a content: over what another save has written, the end
\* of the longer one shows.
Written(old, s) == IF old = Torn THEN {snap[s]} ELSE {snap[s], Torn}

WriteTemp(s) ==
    /\ stage[s] = "write"
    /\ stage' = [stage EXCEPT ![s] = "rename"]
    /\ fd' = [fd EXCEPT ![s] = None] /\ snap' = [snap EXCEPT ![s] = Torn]
    /\ IF fd[s] = "temp" THEN temp' \in Written(temp, s) ELSE UNCHANGED temp
    /\ IF fd[s] = "file" THEN file' \in Written(file, s) ELSE UNCHANGED file
    /\ UNCHANGED <<memory, phase, loading, final, started, faults, ghosts>>

\* The save is over, that of shutdown() or another.
Over(s) ==
    /\ stage' = [stage EXCEPT ![s] = "idle"] /\ snap' = [snap EXCEPT ![s] = Torn]
    /\ final' = IF final = s THEN None ELSE final

\* The files other saves write to keep their content and change their names.
Renamed(s) ==
    /\ temp # None
    /\ file' = temp /\ temp' = None
    /\ fd' = [t \in Saves |-> CASE t = s -> None
                               [] t # s /\ fd[t] = "temp" -> "file"
                               [] t # s /\ fd[t] = "file" -> "gone"
                               [] OTHER -> fd[t]]

\* The end of shutdown(): nothing is known any more.
Cleared(ok) ==
    /\ phase' = "stopped"
    /\ states' = [j \in Jobs |-> None] /\ running' = {}
    /\ last' = IF ok THEN Snapshot ELSE Torn

RenameUnfinished(s) ==  \* mutant
    /\ stage[s] \in {"write", "rename"}
    /\ Renamed(s)
    /\ isDirty' = FALSE
    /\ Over(s)
    /\ IF final = s THEN Cleared(~raced)
       ELSE UNCHANGED <<phase, states, running, last>>
    /\ UNCHANGED <<loading, started, faults, overlapped, raced, mixed>>
Rename(s) ==
    /\ stage[s] = "rename"
    /\ Renamed(s)
    /\ isDirty' = FALSE
    /\ Over(s)
    /\ IF final = s THEN Cleared(~raced)
       ELSE UNCHANGED <<phase, states, running, last>>
    /\ UNCHANGED <<loading, started, faults, overlapped, raced, mixed>>

\* The disk fails, or the temporary file has been renamed by another save.
SaveFails(s) ==
    /\ stage[s] # "idle"
    /\ IF stage[s] = "rename" /\ temp = None THEN UNCHANGED faults
       ELSE faults < MaxFaults /\ faults' = faults + 1
    /\ Over(s) /\ fd' = [fd EXCEPT ![s] = None]
    /\ phase' = IF final = s THEN "failed" ELSE phase
    /\ UNCHANGED <<memory, loading, disk, started, ghosts>>

\* shutdown() stops the interval and saves once more, if there is a change.
Shutdown(s) ==
    /\ phase = "up"
    /\ IF isDirty
       THEN /\ PersistState(s) /\ final' = s /\ phase' = "stopping"
            /\ UNCHANGED <<states, running>>
       ELSE /\ Cleared(~raced /\ load = "no")
            /\ UNCHANGED <<saving, disk, loading, started, faults,
                           overlapped, raced, mixed>>
    /\ UNCHANGED isDirty

-----------------------------------------------------------------------------
\* loadState(), between its awaits: access() and readFile().
LoadAccess ==
    /\ load = "access"
    /\ load' = IF file = None THEN "no" ELSE "read"
    /\ UNCHANGED <<memory, phase, loaded, saving, disk, started, faults, ghosts>>

LoadRead ==
    /\ load = "read" /\ loaded = None
    /\ loaded' = file
    /\ UNCHANGED <<memory, phase, load, saving, disk, started, faults, ghosts>>

\* What has been read overrides what has been registered meanwhile.
Restored(j) == IF loaded.states[j] # None THEN loaded.states[j] ELSE states[j]
CrashedJobs == {j \in loaded.running : Restored(j) # None}

LoadDone ==
    /\ loaded # None
    /\ load' = "no" /\ loaded' = None
    /\ last' = IF phase = "stopped" THEN last ELSE Torn
    /\ IF loaded = Torn THEN UNCHANGED <<states, raced, mixed>>
       ELSE /\ states' = [j \in Jobs |-> Restored(j)]
            /\ raced' = (raced \/ Busy # {})
            /\ mixed' = mixed \cup
                 {j \in Jobs : loaded.states[j] # None /\ RunningOf(j) # {}}
    /\ UNCHANGED <<running, isDirty, phase, saving, disk, started, faults, overlapped>>

\* The process exits or is killed, and a new one starts: only the disk is left.
Restart ==
    /\ faults < MaxFaults /\ faults' = faults + 1
    /\ last' = IF phase = "stopped" THEN last
               ELSE IF ~isDirty /\ Busy = {} /\ ~raced /\ load = "no" THEN Snapshot
               ELSE Torn
    /\ states' = [j \in Jobs |-> None] /\ running' = {} /\ isDirty' = FALSE
    /\ phase' = "up" /\ load' = "access" /\ loaded' = None
    /\ stage' = [s \in Saves |-> "idle"] /\ fd' = [s \in Saves |-> None]
    /\ snap' = [s \in Saves |-> Torn] /\ final' = None
    /\ raced' = TRUE
    /\ UNCHANGED <<disk, started, overlapped, mixed>>

-----------------------------------------------------------------------------
Next ==
    \/ \E j \in Jobs : \/ RegisterJob(j) \/ UnregisterJob(j) \/ StartExecution(j) \/ SetField(j)
    \/ \E r \in running : EndExecution(r)
    \/ \E s \in Saves : \/ AutoPersist(s) \/ Shutdown(s) \/ OpenTemp(s)
                        \/ WriteTemp(s) \/ Rename(s) \/ SaveFails(s)
    \/ LoadAccess \/ LoadRead \/ LoadDone \/ Restart

Spec == Init /\ [][Next]_vars

-----------------------------------------------------------------------------
\* The range of every variable.
TypeOK ==
    /\ states \in [Jobs -> JobState \cup {None}]
    /\ running \subseteq (1..started) \X Jobs
    /\ isDirty \in BOOLEAN /\ phase \in {"up", "stopping", "stopped", "failed"}
    /\ load \in {"no", "access", "read"}
    /\ loaded \in Snapshots \cup {Torn, None}
    /\ stage \in [Saves -> {"idle", "open", "write", "rename"}]
    /\ fd \in [Saves -> {"temp", "file", "gone", None}]
    /\ \A s \in Saves : fd[s] # None <=> stage[s] = "write"
    /\ snap \in [Saves -> Snapshots \cup {Torn}] /\ final \in Busy \cup {None}
    /\ temp \in Snapshots \cup {Torn, None} /\ file \in Snapshots \cup {Torn, None}
    /\ started \in 0..MaxExecutions /\ faults \in 0..MaxFaults
    /\ last \in Snapshots \cup {Torn}
    /\ overlapped \in BOOLEAN /\ raced \in BOOLEAN /\ mixed \subseteq Jobs

\* Whatever fails and whenever the process dies, the state file is a whole
\* snapshot, unless one save began before another had ended.
FileWhole ==
    overlapped \/ file # Torn

\* When there is nothing to save the file has the states of all jobs, unless a
\* change, a load or another save fell into the last save.
CleanMeansSaved ==
    (phase = "up" /\ ~isDirty /\ Busy = {} /\ ~raced) =>
        file = Snapshot

\* A process that ended when everything was saved, killed or shut down, is
\* restored exactly: its jobs, and those it was running.
RecoveryExact == loaded # None /\ last # Torn => loaded = last

\* Every execution counted is ended or running, for a job that was not loaded
\* or unregistered over executions under way.
ExecutionsCounted ==
    \A j \in Jobs \ mixed :
        states[j] # None =>
            states[j].ended + Cardinality(RunningOf(j)) <= states[j].executions
=============================================================================
