----------------------- MODULE JobStateManager_proofs -----------------------
(***************************************************************************)
(* Proofs about the job state manager for every set of jobs and saves and  *)
(* every number of faults: its types, that the state file is whole unless  *)
(* saves overlapped, that it is current when nothing is marked as changed, *)
(* that a restart then restores it exactly, and that executions add up.    *)
(***************************************************************************)
EXTENDS JobStateManager, FiniteSetTheorems, TLAPS

\* A save that is writing has a snapshot to write.
SnapsKept == \A s \in Saves : stage[s] \in {"open", "write"} => snap[s] \in Snapshots

\* As long as no save has begun before another had ended: the only one writes
\* to the temporary file, which is empty until it has written.
OneByOne ==
    ~overlapped =>
        /\ \A s, t \in Busy : s = t
        /\ \A s \in Saves : fd[s] \in {"temp", None}
        /\ \A s \in Saves : stage[s] = "write" => temp = Torn
        /\ \A s \in Saves : stage[s] = "rename" => temp # Torn
        /\ file # Torn

IInv == TypeOK /\ SnapsKept /\ OneByOne

LEMMA SnapshotType == TypeOK => Snapshot \in Snapshots
BY DEF TypeOK, Snapshot, Snapshots

LEMMA InitOK == Init => IInv
<1> SUFFICES ASSUME Init PROVE IInv
  OBVIOUS
<1>1. /\ states \in [Jobs -> JobState \cup {None}] /\ running \subseteq (1..started) \X Jobs
      /\ isDirty \in BOOLEAN /\ phase \in {"up", "stopping", "stopped", "failed"}
      /\ load \in {"no", "access", "read"} /\ loaded \in Snapshots \cup {Torn, None}
  BY DEF Init
<1>2. /\ stage \in [Saves -> {"idle", "open", "write", "rename"}]
      /\ fd \in [Saves -> {"temp", "file", "gone", None}]
      /\ \A s \in Saves : fd[s] # None <=> stage[s] = "write"
      /\ snap \in [Saves -> Snapshots \cup {Torn}] /\ final \in Busy \cup {None}
  BY DEF Init
<1>3. /\ temp \in Snapshots \cup {Torn, None} /\ file \in Snapshots \cup {Torn, None}
      /\ last \in Snapshots \cup {Torn}
      /\ overlapped \in BOOLEAN /\ raced \in BOOLEAN /\ mixed \subseteq Jobs
  BY DEF Init
<1>5. started \in 0..MaxExecutions /\ faults \in 0..MaxFaults
  BY StateAssumption DEF Init
<1>4. SnapsKept /\ OneByOne
  BY StateAssumption DEF Init, SnapsKept, OneByOne, Busy
<1> QED BY <1>1, <1>2, <1>3, <1>4, <1>5 DEF IInv, TypeOK

\* The steps that change what is known of the jobs and no file.
LEMMA ChangeOK ==
  ASSUME IInv, Change, states' \in [Jobs -> JobState \cup {None}],
         started' \in 0..MaxExecutions, running' \subseteq (1..started') \X Jobs,
         mixed' \subseteq Jobs
  PROVE  IInv'
<1>1. UNCHANGED <<phase, load, loaded, stage, fd, snap, final, temp, file, faults, last, overlapped>>
  BY DEF Change, loading, saving, disk
<1>2. isDirty' \in BOOLEAN /\ raced' \in BOOLEAN
  BY DEF Change, IInv, TypeOK
<1>3. TypeOK'
  BY <1>1, <1>2 DEF IInv, TypeOK, Busy
<1>4. SnapsKept' /\ OneByOne'
  BY <1>1 DEF IInv, SnapsKept, OneByOne, Busy
<1> QED BY <1>3, <1>4 DEF IInv

LEMMA OperationsOK ==
  ASSUME IInv, NEW j \in Jobs,
         RegisterJob(j) \/ UnregisterJob(j) \/ StartExecution(j) \/ SetField(j)
  PROVE  IInv'
<1>1. CASE RegisterJob(j)
  <2>1. states' \in [Jobs -> JobState \cup {None}]
    BY <1>1 DEF RegisterJob, IInv, TypeOK, NewState, JobState
  <2> QED BY <1>1, <2>1, ChangeOK DEF RegisterJob, IInv, TypeOK
<1>2. CASE UnregisterJob(j)
  <2>1. states' \in [Jobs -> JobState \cup {None}] /\ running' \subseteq running
        /\ mixed' \subseteq Jobs
    BY <1>2 DEF UnregisterJob, IInv, TypeOK
  <2> QED BY <1>2, <2>1, ChangeOK DEF UnregisterJob, IInv, TypeOK
<1>3. CASE StartExecution(j)
  <2>1. states[j] \in JobState
    BY <1>3 DEF StartExecution, IInv, TypeOK
  <2>2. [states[j] EXCEPT !.executions = @ + 1] \in JobState
    BY <2>1 DEF JobState
  <2>3. states' \in [Jobs -> JobState \cup {None}]
    BY <1>3, <2>2 DEF StartExecution, IInv, TypeOK
  <2>4. started' \in 0..MaxExecutions /\ running' \subseteq (1..started') \X Jobs
    BY <1>3, StateAssumption DEF StartExecution, IInv, TypeOK
  <2> QED BY <1>3, <2>3, <2>4, ChangeOK DEF StartExecution, IInv, TypeOK
<1>4. CASE SetField(j)
  BY <1>4, ChangeOK DEF SetField, IInv, TypeOK
<1> QED BY <1>1, <1>2, <1>3, <1>4

LEMMA EndExecutionOK == ASSUME IInv, NEW r \in running, EndExecution(r) PROVE IInv'
<1>1. r[2] \in Jobs
  BY DEF IInv, TypeOK
<1>2. states' \in [Jobs -> JobState \cup {None}]
  <2>1. CASE states[r[2]] = None
    BY <2>1 DEF EndExecution, IInv, TypeOK
  <2>2. CASE states[r[2]] # None
    <3>1. states[r[2]] \in JobState
      BY <1>1, <2>2 DEF IInv, TypeOK
    <3>2. [states[r[2]] EXCEPT !.ended = @ + 1] \in JobState
      BY <3>1 DEF JobState
    <3> QED BY <1>1, <2>2, <3>2 DEF EndExecution, IInv, TypeOK
  <2> QED BY <2>1, <2>2
<1> QED BY <1>2, ChangeOK DEF EndExecution, IInv, TypeOK

-----------------------------------------------------------------------------
\* The parts of a state that a save or a load leaves alone.
Rest == states \in [Jobs -> JobState \cup {None}] /\ running \subseteq (1..started) \X Jobs
        /\ isDirty \in BOOLEAN /\ phase \in {"up", "stopping", "stopped", "failed"}
        /\ started \in 0..MaxExecutions /\ faults \in 0..MaxFaults
        /\ last \in Snapshots \cup {Torn}
        /\ overlapped \in BOOLEAN /\ raced \in BOOLEAN /\ mixed \subseteq Jobs
Loads == load \in {"no", "access", "read"} /\ loaded \in Snapshots \cup {Torn, None}
Files == /\ stage \in [Saves -> {"idle", "open", "write", "rename"}]
         /\ fd \in [Saves -> {"temp", "file", "gone", None}]
         /\ \A s \in Saves : fd[s] # None <=> stage[s] = "write"
         /\ snap \in [Saves -> Snapshots \cup {Torn}] /\ final \in Busy \cup {None}
         /\ temp \in Snapshots \cup {Torn, None} /\ file \in Snapshots \cup {Torn, None}

LEMMA PartsNext == Rest' /\ Loads' /\ Files' => TypeOK'
BY DEF TypeOK, Rest, Loads, Files

LEMMA BeginOK == ASSUME IInv, NEW s \in Saves, PersistState(s), UNCHANGED <<memory>>,
                        phase' \in {"up", "stopping"}, final' \in {final, s}
                 PROVE  IInv'
<1>1. /\ stage[s] = "idle" /\ stage' = [stage EXCEPT ![s] = "open"]
      /\ snap' = [snap EXCEPT ![s] = Snapshot]
      /\ overlapped' = (overlapped \/ Busy # {})
      /\ UNCHANGED <<fd, temp, file, load, loaded, started, faults, mixed>>
      /\ UNCHANGED <<states, running, isDirty>>
  BY DEF PersistState, disk, loading, memory
<1>2. raced' \in BOOLEAN /\ last' \in Snapshots \cup {Torn}
  BY DEF PersistState, IInv, TypeOK
<1>3. Rest'
  BY <1>1, <1>2 DEF IInv, TypeOK, Rest
<1>4. Loads'
  BY <1>1 DEF IInv, TypeOK, Loads
<1>5. Files'
  <2>1. Busy' = Busy \cup {s}
    BY <1>1 DEF Busy, IInv, TypeOK
  <2> QED BY <1>1, <2>1, SnapshotType DEF IInv, TypeOK, Files
<1>6. SnapsKept'
  BY <1>1, SnapshotType DEF IInv, TypeOK, SnapsKept
<1>7. OneByOne'
  <2> SUFFICES ASSUME ~overlapped' PROVE OneByOne'
    BY DEF OneByOne
  <2>1. ~overlapped /\ Busy = {} /\ Busy' = {s}
    BY <1>1 DEF Busy, IInv, TypeOK
  <2> QED BY <1>1, <2>1 DEF IInv, TypeOK, OneByOne, Busy
<1> QED BY <1>3, <1>4, <1>5, <1>6, <1>7, PartsNext DEF IInv

LEMMA OpenTempOK == ASSUME IInv, NEW s \in Saves, OpenTemp(s) PROVE IInv'
<1>1. /\ stage[s] = "open" /\ stage' = [stage EXCEPT ![s] = "write"]
      /\ fd' = [fd EXCEPT ![s] = "temp"] /\ temp' = Torn
      /\ UNCHANGED <<states, running, isDirty, phase, load, loaded, snap, final, file, started,
                     faults, last, overlapped, raced, mixed>>
  BY DEF OpenTemp, memory, loading, ghosts
<1>2. Rest' /\ Loads'
  BY <1>1 DEF IInv, TypeOK, Rest, Loads
<1>3. Busy' = Busy
  BY <1>1 DEF Busy, IInv, TypeOK
<1>4. Files'
  BY <1>1, <1>3, StateAssumption DEF IInv, TypeOK, Files
<1>5. SnapsKept'
  BY <1>1 DEF IInv, TypeOK, SnapsKept
<1>6. OneByOne'
  BY <1>1, <1>3 DEF IInv, TypeOK, OneByOne, Busy
<1> QED BY <1>2, <1>4, <1>5, <1>6, PartsNext DEF IInv

LEMMA WriteTempOK == ASSUME IInv, NEW s \in Saves, WriteTemp(s) PROVE IInv'
<1>1. /\ stage[s] = "write" /\ stage' = [stage EXCEPT ![s] = "rename"]
      /\ fd' = [fd EXCEPT ![s] = None] /\ snap' = [snap EXCEPT ![s] = Torn]
      /\ IF fd[s] = "temp" THEN temp' \in Written(temp, s) ELSE UNCHANGED temp
      /\ IF fd[s] = "file" THEN file' \in Written(file, s) ELSE UNCHANGED file
      /\ UNCHANGED <<states, running, isDirty, phase, load, loaded, final, started,
                     faults, last, overlapped, raced, mixed>>
  BY DEF WriteTemp, memory, loading, ghosts
<1>2. Rest' /\ Loads'
  BY <1>1 DEF IInv, TypeOK, Rest, Loads
<1>3. Busy' = Busy
  BY <1>1 DEF Busy, IInv, TypeOK
<1>4. snap[s] \in Snapshots
  BY <1>1 DEF IInv, SnapsKept
<1>5. Files'
  <2>1. temp' \in Snapshots \cup {Torn, None} /\ file' \in Snapshots \cup {Torn, None}
    BY <1>1, <1>4 DEF IInv, TypeOK, Written
  <2> QED BY <1>1, <1>3, <2>1 DEF IInv, TypeOK, Files
<1>6. SnapsKept'
  BY <1>1 DEF IInv, TypeOK, SnapsKept
<1>7. OneByOne'
  <2> SUFFICES ASSUME ~overlapped PROVE OneByOne'
    BY <1>1 DEF OneByOne
  <2>1. fd[s] = "temp" /\ temp = Torn /\ \A t \in Saves : t # s => stage[t] = "idle"
    BY <1>1, StateAssumption DEF IInv, TypeOK, OneByOne, Busy
  <2>2. temp' = snap[s] /\ temp' # Torn /\ file' = file
    BY <1>1, <1>4, <2>1, StateAssumption DEF Written
  <2>3. \A t \in Saves : /\ fd'[t] \in {"temp", None} /\ stage'[t] # "write"
    BY <1>1, <2>1 DEF IInv, TypeOK, OneByOne
  <2> QED BY <1>1, <1>3, <2>2, <2>3 DEF IInv, OneByOne
<1> QED BY <1>2, <1>5, <1>6, <1>7, PartsNext DEF IInv

LEMMA RenameOK == ASSUME IInv, NEW s \in Saves, Rename(s) PROVE IInv'
<1>1. /\ stage[s] = "rename" /\ temp # None /\ file' = temp /\ temp' = None
      /\ stage' = [stage EXCEPT ![s] = "idle"] /\ snap' = [snap EXCEPT ![s] = Torn]
      /\ final' = IF final = s THEN None ELSE final
      /\ isDirty' = FALSE
      /\ UNCHANGED <<load, loaded, started, faults, overlapped, raced, mixed>>
  BY DEF Rename, Renamed, Over, loading
<1>2. fd' = [t \in Saves |-> CASE t = s -> None
                               [] t # s /\ fd[t] = "temp" -> "file"
                               [] t # s /\ fd[t] = "file" -> "gone"
                               [] OTHER -> fd[t]]
  BY DEF Rename, Renamed
<1>3. /\ states' \in [Jobs -> JobState \cup {None}] /\ running' \subseteq running
      /\ last' \in Snapshots \cup {Torn} /\ phase' \in {"up", "stopping", "stopped", "failed"}
  <2>1. CASE final = s
    BY <2>1, SnapshotType DEF Rename, Cleared, IInv
  <2>2. CASE final # s
    BY <2>2 DEF Rename, IInv, TypeOK
  <2> QED BY <2>1, <2>2
<1>4. Rest' /\ Loads'
  BY <1>1, <1>3 DEF IInv, TypeOK, Rest, Loads
<1>5. fd[s] = None /\ fd' \in [Saves -> {"temp", "file", "gone", None}]
  BY <1>1, <1>2, StateAssumption DEF IInv, TypeOK
<1>6. Busy' = Busy \ {s}
  BY <1>1 DEF Busy, IInv, TypeOK
<1>7. \A t \in Saves : fd'[t] # None <=> stage'[t] = "write"
  <2> SUFFICES ASSUME NEW t \in Saves PROVE fd'[t] # None <=> stage'[t] = "write"
    OBVIOUS
  <2>1. CASE t = s
    BY <1>1, <1>2, <2>1 DEF IInv, TypeOK
  <2>2. CASE t # s
    <3>1. stage'[t] = stage[t] /\ (fd[t] # None <=> stage[t] = "write")
      BY <1>1, <2>2 DEF IInv, TypeOK
    <3>2. fd'[t] # None <=> fd[t] # None
      <4>1. fd[t] \in {"temp", "file", "gone", None}
        BY DEF IInv, TypeOK
      <4>2. "file" # None /\ "gone" # None
        BY StateAssumption
      <4>3. fd'[t] = CASE t = s -> None
                       [] t # s /\ fd[t] = "temp" -> "file"
                       [] t # s /\ fd[t] = "file" -> "gone"
                       [] OTHER -> fd[t]
        BY <1>2
      <4>4. CASE fd[t] = "temp"
        BY <2>2, <4>2, <4>3, <4>4, StateAssumption
      <4>5. CASE fd[t] = "file"
        BY <2>2, <4>2, <4>3, <4>5, StateAssumption
      <4>6. CASE fd[t] # "temp" /\ fd[t] # "file"
        BY <2>2, <4>3, <4>6
      <4> QED BY <4>4, <4>5, <4>6
    <3> QED BY <3>1, <3>2
  <2> QED BY <2>1, <2>2
<1>8. Files'
  <2>1. stage' \in [Saves -> {"idle", "open", "write", "rename"}]
        /\ snap' \in [Saves -> Snapshots \cup {Torn}] /\ final' \in Busy' \cup {None}
    BY <1>1, <1>6 DEF IInv, TypeOK
  <2> QED BY <1>1, <1>5, <1>7, <2>1 DEF IInv, TypeOK, Files
<1>9. SnapsKept'
  BY <1>1 DEF IInv, TypeOK, SnapsKept
<1>10. OneByOne'
  <2> SUFFICES ASSUME ~overlapped PROVE OneByOne'
    BY <1>1 DEF OneByOne
  <2>1. temp # Torn /\ \A t \in Saves : t # s => stage[t] = "idle"
    BY <1>1 DEF IInv, TypeOK, OneByOne, Busy
  <2>2. \A t \in Saves : stage'[t] = "idle" /\ fd'[t] = None
    BY <1>1, <1>5, <1>7, <2>1 DEF IInv, TypeOK
  <2> QED BY <1>1, <2>1, <2>2 DEF OneByOne, Busy
<1> QED BY <1>4, <1>8, <1>9, <1>10, PartsNext DEF IInv

LEMMA SaveFailsOK == ASSUME IInv, NEW s \in Saves, SaveFails(s) PROVE IInv'
<1>1. /\ stage[s] # "idle"
      /\ stage' = [stage EXCEPT ![s] = "idle"] /\ snap' = [snap EXCEPT ![s] = Torn]
      /\ final' = IF final = s THEN None ELSE final
      /\ fd' = [fd EXCEPT ![s] = None]
      /\ UNCHANGED <<states, running, isDirty, load, loaded, temp, file, started,
                     last, overlapped, raced, mixed>>
  BY DEF SaveFails, Over, memory, loading, disk, ghosts
<1>2. faults' \in 0..MaxFaults /\ phase' \in {"up", "stopping", "stopped", "failed"}
  BY StateAssumption DEF SaveFails, IInv, TypeOK
<1>3. Rest' /\ Loads'
  BY <1>1, <1>2 DEF IInv, TypeOK, Rest, Loads
<1>4. Busy' = Busy \ {s}
  BY <1>1 DEF Busy, IInv, TypeOK
<1>5. Files'
  BY <1>1, <1>4 DEF IInv, TypeOK, Files
<1>6. SnapsKept'
  BY <1>1 DEF IInv, TypeOK, SnapsKept
<1>7. OneByOne'
  BY <1>1, <1>4 DEF IInv, TypeOK, OneByOne
<1> QED BY <1>3, <1>5, <1>6, <1>7, PartsNext DEF IInv

\* A shutdown with nothing to save.
LEMMA ShutdownOK == ASSUME IInv, NEW s \in Saves, Shutdown(s) PROVE IInv'
<1>1. CASE isDirty
  <2>1. PersistState(s) /\ final' = s /\ phase' = "stopping" /\ UNCHANGED memory
    BY <1>1 DEF Shutdown, memory
  <2> QED BY <2>1, BeginOK
<1>2. CASE ~isDirty
  <2>1. /\ phase' = "stopped" /\ states' = [j \in Jobs |-> None] /\ running' = {}
        /\ last' \in {Snapshot, Torn} /\ UNCHANGED isDirty
        /\ UNCHANGED <<stage, fd, snap, final, temp, file, load, loaded, started, faults,
                       overlapped, raced, mixed>>
    BY <1>2 DEF Shutdown, Cleared, saving, disk, loading
  <2>2. Rest' /\ Loads'
    BY <2>1, SnapshotType DEF IInv, TypeOK, Rest, Loads
  <2>3. Files' /\ SnapsKept' /\ OneByOne'
    BY <2>1 DEF IInv, TypeOK, Files, SnapsKept, OneByOne, Busy
  <2> QED BY <2>2, <2>3, PartsNext DEF IInv
<1> QED BY <1>1, <1>2

-----------------------------------------------------------------------------
LEMMA LoadOK == ASSUME IInv, LoadAccess \/ LoadRead \/ LoadDone PROVE IInv'
<1>1. UNCHANGED <<running, isDirty, phase, stage, fd, snap, final, temp, file, started,
                  faults, overlapped>>
  BY DEF LoadAccess, LoadRead, LoadDone, memory, saving, disk, ghosts
<1>2. load' \in {"no", "access", "read"} /\ loaded' \in Snapshots \cup {Torn, None}
  BY DEF LoadAccess, LoadRead, LoadDone, IInv, TypeOK
<1>3. states' \in [Jobs -> JobState \cup {None}] /\ mixed' \subseteq Jobs
  <2>1. CASE LoadAccess \/ LoadRead
    BY <2>1 DEF LoadAccess, LoadRead, memory, ghosts, IInv, TypeOK
  <2>2. CASE LoadDone /\ loaded = Torn
    BY <2>2 DEF LoadDone, IInv, TypeOK
  <2>3. CASE LoadDone /\ loaded # Torn
    <3>1. loaded \in Snapshots
      BY <2>3 DEF LoadDone, IInv, TypeOK
    <3>2. \A j \in Jobs : Restored(j) \in JobState \cup {None}
      BY <3>1 DEF Restored, Snapshots, IInv, TypeOK
    <3> QED BY <2>3, <3>2 DEF LoadDone, IInv, TypeOK
  <2> QED BY <2>1, <2>2, <2>3
<1>4. raced' \in BOOLEAN /\ last' \in Snapshots \cup {Torn}
  BY DEF LoadAccess, LoadRead, LoadDone, ghosts, IInv, TypeOK
<1>5. Rest' /\ Loads'
  BY <1>1, <1>2, <1>3, <1>4 DEF IInv, TypeOK, Rest, Loads
<1>6. Files' /\ SnapsKept' /\ OneByOne'
  BY <1>1 DEF IInv, TypeOK, Files, SnapsKept, OneByOne, Busy
<1> QED BY <1>5, <1>6, PartsNext DEF IInv

LEMMA RestartOK == ASSUME IInv, Restart PROVE IInv'
<1>1. /\ states' = [j \in Jobs |-> None] /\ running' = {} /\ isDirty' = FALSE
      /\ phase' = "up" /\ load' = "access" /\ loaded' = None
      /\ stage' = [s \in Saves |-> "idle"] /\ fd' = [s \in Saves |-> None]
      /\ snap' = [s \in Saves |-> Torn] /\ final' = None /\ raced' = TRUE
      /\ UNCHANGED <<temp, file, started, overlapped, mixed>>
  BY DEF Restart, disk
<1>2. faults' \in 0..MaxFaults
  BY StateAssumption DEF Restart, IInv, TypeOK
<1>3. last' \in Snapshots \cup {Torn}
  BY SnapshotType DEF Restart, IInv, TypeOK
<1>4. Rest' /\ Loads'
  BY <1>1, <1>2, <1>3 DEF IInv, TypeOK, Rest, Loads
<1>5. Files' /\ SnapsKept' /\ OneByOne'
  BY <1>1, StateAssumption DEF IInv, TypeOK, Files, SnapsKept, OneByOne, Busy
<1> QED BY <1>4, <1>5, PartsNext DEF IInv

LEMMA NextOK == IInv /\ [Next]_vars => IInv'
<1> SUFFICES ASSUME IInv, [Next]_vars PROVE IInv'
  OBVIOUS
<1>1. ASSUME NEW j \in Jobs,
             RegisterJob(j) \/ UnregisterJob(j) \/ StartExecution(j) \/ SetField(j)
      PROVE  IInv'
  BY <1>1, OperationsOK
<1>2. ASSUME NEW r \in running, EndExecution(r) PROVE IInv'
  BY <1>2, EndExecutionOK
<1>3. ASSUME NEW s \in Saves, AutoPersist(s) PROVE IInv'
  BY <1>3, BeginOK DEF AutoPersist, IInv, TypeOK
<1>4. ASSUME NEW s \in Saves, Shutdown(s) PROVE IInv'
  BY <1>4, ShutdownOK
<1>5. ASSUME NEW s \in Saves, OpenTemp(s) PROVE IInv'
  BY <1>5, OpenTempOK
<1>6. ASSUME NEW s \in Saves, WriteTemp(s) PROVE IInv'
  BY <1>6, WriteTempOK
<1>7. ASSUME NEW s \in Saves, Rename(s) PROVE IInv'
  BY <1>7, RenameOK
<1>8. ASSUME NEW s \in Saves, SaveFails(s) PROVE IInv'
  BY <1>8, SaveFailsOK
<1>9. CASE LoadAccess \/ LoadRead \/ LoadDone
  BY <1>9, LoadOK
<1>10. CASE Restart
  BY <1>10, RestartOK
<1>11. CASE UNCHANGED vars
  BY <1>11 DEF vars, memory, loading, saving, disk, ghosts, IInv, TypeOK, SnapsKept,
               OneByOne, Busy
<1> QED BY <1>1, <1>2, <1>3, <1>4, <1>5, <1>6, <1>7, <1>8, <1>9, <1>10, <1>11 DEF Next

LEMMA Invariance == Spec => []IInv
BY InitOK, NextOK, PTL DEF Spec

-----------------------------------------------------------------------------
\* Every variable keeps its type.
THEOREM TypeCorrect == Spec => []TypeOK
BY Invariance, PTL DEF IInv

\* Whatever fails and whenever the process is killed, the state file is a whole
\* snapshot, as long as no save has begun before another had ended.
THEOREM FileStaysWhole == Spec => []FileWhole
<1>1. IInv => FileWhole
  BY DEF IInv, OneByOne, FileWhole
<1> QED BY <1>1, Invariance, PTL

-----------------------------------------------------------------------------
\* What the last save of this process has to do with its memory: unless
\* something fell into it (raced), it is the only one under way, it carries what
\* memory still is, and the change it saves stays marked until it is over.
Current ==
    /\ load # "no" => raced
    /\ loaded # None => load = "read"
    /\ final # None => phase = "stopping"
    /\ ~raced => \A s, t \in Busy : s = t
    /\ ~raced /\ phase # "stopped" =>
         /\ Busy # {} => isDirty
         /\ \A s \in Saves : /\ stage[s] \in {"open", "write"} => snap[s] = Snapshot
                             /\ stage[s] = "write" => fd[s] = "temp" /\ temp = Torn
                             /\ stage[s] = "rename" => temp = Snapshot
         /\ Busy = {} /\ ~isDirty => file = Snapshot

\* What the last process knew stays on disk until it has been loaded: the first
\* save of the next one ends the promise.
LastOnDisk ==
    last # Torn =>
        /\ phase = "stopped" \/ load # "no"
        /\ file = last /\ Busy = {}
        /\ loaded # None => loaded = last

SInv == IInv /\ Current /\ LastOnDisk

LEMMA SameSnapshot == UNCHANGED <<states, running>> => Snapshot' = Snapshot
BY DEF Snapshot

LEMMA SInitOK == Init => Current /\ LastOnDisk
BY DEF Init, Current, LastOnDisk, Busy

\* A change while nothing is saved is marked; one during a save is a race.
LEMMA ChangeCurrent == ASSUME SInv, Change PROVE Current' /\ LastOnDisk'
<1>1. /\ UNCHANGED <<phase, load, loaded, stage, fd, snap, final, temp, file, last>>
      /\ isDirty' = TRUE /\ raced' = (raced \/ Busy # {})
  BY DEF Change, loading, saving, disk
<1>2. Busy' = Busy
  BY <1>1 DEF Busy
<1>3. LastOnDisk'
  BY <1>1, <1>2 DEF SInv, LastOnDisk
<1>4. CASE raced'
  BY <1>1, <1>3, <1>4 DEF SInv, Current
<1>5. CASE ~raced'
  <2>1. ~raced /\ Busy = {} /\ \A s \in Saves : stage[s] = "idle"
    BY <1>1, <1>5 DEF Busy
  <2>2. stage' = stage /\ isDirty' /\ Busy' = {} /\ load = "no"
    BY <1>1, <1>2, <2>1 DEF SInv, Current
  <2>3. \A s \in Saves : stage'[s] = "idle"
    BY <2>1, <2>2
  <2> QED BY <1>1, <1>3, <2>2, <2>3 DEF SInv, Current
<1> QED BY <1>4, <1>5

LEMMA OperationsCurrent ==
  ASSUME SInv, \/ \E j \in Jobs : RegisterJob(j) \/ UnregisterJob(j) \/ StartExecution(j)
                                  \/ SetField(j)
               \/ \E r \in running : EndExecution(r)
  PROVE  Current' /\ LastOnDisk'
<1>1. Change
  BY DEF RegisterJob, UnregisterJob, StartExecution, SetField, EndExecution
<1> QED BY <1>1, ChangeCurrent

\* Only the first save after a load is free of races, if it is alone.
LEMMA BeginCurrent == ASSUME SInv, NEW s \in Saves, PersistState(s), UNCHANGED memory,
                             phase = "up", isDirty,
                             \/ phase' = "up" /\ final' = final
                             \/ phase' = "stopping" /\ final' = s
                      PROVE  Current' /\ LastOnDisk'
<1>1. /\ stage[s] = "idle" /\ stage' = [stage EXCEPT ![s] = "open"]
      /\ snap' = [snap EXCEPT ![s] = Snapshot]
      /\ raced' = (Busy # {} \/ load # "no")
      /\ last' = IF load = "no" THEN last ELSE Torn
      /\ UNCHANGED <<fd, temp, file, load, loaded, states, running, isDirty>>
  BY DEF PersistState, disk, loading, memory
<1>2. Busy' = Busy \cup {s} /\ Snapshot' = Snapshot
  BY <1>1, SameSnapshot DEF Busy, SInv, IInv, TypeOK
<1>3. LastOnDisk'
  <2>1. last' = Torn
    BY <1>1 DEF SInv, LastOnDisk
  <2> QED BY <2>1 DEF LastOnDisk
<1>4. /\ load' # "no" => raced'
      /\ loaded' # None => load' = "read"
      /\ final' # None => phase' = "stopping"
  BY <1>1 DEF SInv, Current
<1>5. ASSUME ~raced'
      PROVE  /\ \A t, u \in Busy' : t = u
             /\ \A t \in Saves : /\ stage'[t] \in {"open", "write"} => snap'[t] = Snapshot'
                                 /\ stage'[t] \notin {"write", "rename"}
  <2>1. Busy = {} /\ \A t \in Saves : stage[t] = "idle"
    BY <1>1, <1>5 DEF Busy
  <2> QED BY <1>1, <1>2, <2>1 DEF SInv, IInv, TypeOK
<1>6. Busy' # {} /\ isDirty'
  BY <1>1, <1>2
<1> QED BY <1>3, <1>4, <1>5, <1>6 DEF Current

\* Nothing else is being saved when one save alone is under way.
LEMMA Alone == ASSUME SInv, ~raced, NEW s \in Busy
               PROVE  \A t \in Saves : t # s => stage[t] = "idle"
BY DEF SInv, Current, Busy

LEMMA NoLastWhileSaving == ASSUME SInv, NEW s \in Busy PROVE last = Torn
BY DEF SInv, LastOnDisk

LEMMA OpenTempCurrent == ASSUME SInv, NEW s \in Saves, OpenTemp(s)
                         PROVE  Current' /\ LastOnDisk'
<1>1. /\ stage[s] = "open" /\ stage' = [stage EXCEPT ![s] = "write"]
      /\ fd' = [fd EXCEPT ![s] = "temp"] /\ temp' = Torn
      /\ UNCHANGED <<states, running, isDirty, phase, load, loaded, snap, final, file, last, raced>>
  BY DEF OpenTemp, memory, loading, ghosts
<1>2. Busy' = Busy /\ s \in Busy /\ Snapshot' = Snapshot
  BY <1>1, SameSnapshot DEF Busy, SInv, IInv, TypeOK
<1>3. LastOnDisk'
  BY <1>1, <1>2, NoLastWhileSaving DEF LastOnDisk
<1>4. ASSUME ~raced, phase # "stopped", NEW t \in Saves
      PROVE  /\ stage'[t] \in {"open", "write"} => snap'[t] = Snapshot'
             /\ stage'[t] = "write" => fd'[t] = "temp" /\ temp' = Torn
             /\ stage'[t] = "rename" => temp' = Snapshot'
  <2>1. CASE t = s
    BY <1>1, <1>2, <1>4, <2>1 DEF SInv, IInv, TypeOK, Current
  <2>2. CASE t # s
    <3>1. stage'[t] = "idle"
      BY <1>1, <1>2, <1>4, <2>2, Alone DEF SInv, IInv, TypeOK
    <3> QED BY <3>1
  <2> QED BY <2>1, <2>2
<1> QED BY <1>1, <1>2, <1>3, <1>4 DEF SInv, Current

LEMMA WriteTempCurrent == ASSUME SInv, NEW s \in Saves, WriteTemp(s)
                          PROVE  Current' /\ LastOnDisk'
<1>1. /\ stage[s] = "write" /\ stage' = [stage EXCEPT ![s] = "rename"]
      /\ snap' = [snap EXCEPT ![s] = Torn]
      /\ IF fd[s] = "temp" THEN temp' \in Written(temp, s) ELSE UNCHANGED temp
      /\ IF fd[s] = "file" THEN file' \in Written(file, s) ELSE UNCHANGED file
      /\ UNCHANGED <<states, running, isDirty, phase, load, loaded, final, last, raced>>
  BY DEF WriteTemp, memory, loading, ghosts
<1>2. Busy' = Busy /\ s \in Busy /\ Snapshot' = Snapshot
  BY <1>1, SameSnapshot DEF Busy, SInv, IInv, TypeOK
<1>3. LastOnDisk'
  BY <1>1, <1>2, NoLastWhileSaving DEF LastOnDisk
<1>4. ASSUME ~raced, phase # "stopped", NEW t \in Saves
      PROVE  /\ stage'[t] \notin {"open", "write"}
             /\ stage'[t] = "rename" => temp' = Snapshot'
  <2>1. CASE t = s
    <3>1. snap[s] = Snapshot /\ fd[s] = "temp" /\ temp = Torn
      BY <1>1, <1>4 DEF SInv, Current
    <3> QED BY <1>1, <1>2, <2>1, <3>1 DEF SInv, IInv, TypeOK, Written
  <2>2. CASE t # s
    BY <1>1, <1>2, <1>4, <2>2, Alone DEF SInv, IInv, TypeOK
  <2> QED BY <2>1, <2>2
<1> QED BY <1>1, <1>2, <1>3, <1>4 DEF SInv, Current

\* The end of a save nothing fell into: the file is what memory is, and what a
\* shutdown leaves behind.
LEMMA RenameCurrent == ASSUME SInv, NEW s \in Saves, Rename(s)
                       PROVE  Current' /\ LastOnDisk'
<1>1. /\ stage[s] = "rename" /\ file' = temp
      /\ stage' = [stage EXCEPT ![s] = "idle"]
      /\ final' = IF final = s THEN None ELSE final
      /\ isDirty' = FALSE
      /\ UNCHANGED <<load, loaded, raced>>
  BY DEF Rename, Renamed, Over, loading
<1>2. IF final = s THEN phase' = "stopped" /\ last' = (IF ~raced THEN Snapshot ELSE Torn)
      ELSE UNCHANGED <<phase, states, running, last>>
  BY DEF Rename, Cleared
<1>3. s \in Busy /\ Busy' = Busy \ {s} /\ s # None
  BY <1>1, StateAssumption DEF Busy, SInv, IInv, TypeOK
<1>4. /\ load' # "no" => raced'
      /\ loaded' # None => load' = "read"
      /\ final' # None => phase' = "stopping"
      /\ ~raced' => \A t, u \in Busy' : t = u
  BY <1>1, <1>2, <1>3 DEF SInv, Current
<1>5. ASSUME ~raced, phase # "stopped"
      PROVE  Busy' = {} /\ file' = Snapshot /\ \A t \in Saves : stage'[t] = "idle"
  BY <1>1, <1>3, <1>5, Alone DEF SInv, IInv, TypeOK, Current, Busy
<1>6. Current'
  <2>1. ASSUME ~raced', phase' # "stopped"
        PROVE  /\ Busy' = {} /\ file' = Snapshot'
               /\ \A t \in Saves : stage'[t] = "idle"
    BY <1>1, <1>2, <1>5, <2>1, SameSnapshot
  <2> QED BY <1>4, <2>1 DEF Current
<1>7. LastOnDisk'
  <2>1. CASE final = s /\ ~raced
    <3>1. phase = "stopping" /\ load = "no" /\ loaded = None
      BY <1>3, <2>1 DEF SInv, Current
    <3> QED BY <1>1, <1>2, <1>5, <2>1, <3>1 DEF LastOnDisk
  <2>2. CASE ~(final = s /\ ~raced)
    <3>1. last' = Torn
      BY <1>2, <1>3, <2>2, NoLastWhileSaving
    <3> QED BY <3>1 DEF LastOnDisk
  <2> QED BY <2>1, <2>2
<1> QED BY <1>6, <1>7

\* What a failed save leaves marked is still to be saved.
LEMMA SaveFailsCurrent == ASSUME SInv, NEW s \in Saves, SaveFails(s)
                          PROVE  Current' /\ LastOnDisk'
<1>1. /\ stage[s] # "idle" /\ stage' = [stage EXCEPT ![s] = "idle"]
      /\ final' = IF final = s THEN None ELSE final
      /\ phase' = IF final = s THEN "failed" ELSE phase
      /\ UNCHANGED <<states, running, isDirty, load, loaded, temp, file, last, raced>>
  BY DEF SaveFails, Over, memory, loading, disk, ghosts
<1>2. s \in Busy /\ Busy' = Busy \ {s} /\ Snapshot' = Snapshot /\ s # None
  BY <1>1, SameSnapshot, StateAssumption DEF Busy, SInv, IInv, TypeOK
<1>3. LastOnDisk'
  BY <1>1, <1>2, NoLastWhileSaving DEF LastOnDisk
<1>4. /\ load' # "no" => raced'
      /\ loaded' # None => load' = "read"
      /\ final' # None => phase' = "stopping"
      /\ ~raced' => \A t, u \in Busy' : t = u
  BY <1>1, <1>2 DEF SInv, Current
<1>5. ASSUME ~raced', phase' # "stopped"
      PROVE  /\ Busy' = {} /\ isDirty' /\ \A t \in Saves : stage'[t] = "idle"
  <2>1. ~raced /\ phase # "stopped"
    BY <1>1, <1>2, <1>5 DEF SInv, Current
  <2>2. isDirty
    BY <1>2, <2>1 DEF SInv, Current
  <2> QED BY <1>1, <1>2, <2>1, <2>2, Alone DEF SInv, IInv, TypeOK, Busy
<1> QED BY <1>3, <1>4, <1>5 DEF Current

\* A shutdown with nothing to save leaves what is on disk.
LEMMA ShutdownCurrent == ASSUME SInv, NEW s \in Saves, Shutdown(s)
                         PROVE  Current' /\ LastOnDisk'
<1>1. CASE isDirty
  <2>1. PersistState(s) /\ final' = s /\ phase' = "stopping" /\ phase = "up" /\ UNCHANGED memory
    BY <1>1 DEF Shutdown, memory
  <2> QED BY <1>1, <2>1, BeginCurrent
<1>2. CASE ~isDirty
  <2>1. /\ phase = "up" /\ phase' = "stopped"
        /\ last' = IF ~raced /\ load = "no" THEN Snapshot ELSE Torn
        /\ UNCHANGED <<stage, final, file, load, loaded, raced>>
    BY <1>2 DEF Shutdown, Cleared, saving, disk, loading
  <2>2. Busy' = Busy
    BY <2>1 DEF Busy
  <2>3. final = None
    BY <2>1 DEF SInv, Current
  <2>4. Current'
    BY <2>1, <2>2, <2>3 DEF SInv, Current
  <2>5. LastOnDisk'
    <3>1. CASE ~raced /\ load = "no"
      <4>1. Busy = {} /\ file = Snapshot /\ loaded = None
        BY <1>2, <2>1, <3>1 DEF SInv, Current
      <4> QED BY <2>1, <2>2, <3>1, <4>1 DEF LastOnDisk
    <3>2. CASE raced \/ load # "no"
      BY <2>1, <3>2 DEF LastOnDisk
    <3> QED BY <3>1, <3>2
  <2> QED BY <2>4, <2>5
<1> QED BY <1>1, <1>2

LEMMA LoadCurrent == ASSUME SInv, LoadAccess \/ LoadRead \/ LoadDone
                     PROVE  Current' /\ LastOnDisk'
<1>1. /\ UNCHANGED <<running, isDirty, phase, stage, fd, snap, final, temp, file>>
      /\ load # "no" /\ raced
  BY DEF LoadAccess, LoadRead, LoadDone, memory, saving, disk, SInv, Current
<1>2. Busy' = Busy
  BY <1>1 DEF Busy
<1>3. raced' /\ (loaded' # None => load' = "read")
  BY <1>1 DEF LoadAccess, LoadRead, LoadDone, ghosts, SInv, Current
<1>4. Current'
  BY <1>1, <1>3 DEF SInv, Current
<1>5. LastOnDisk'
  <2>1. CASE LoadAccess
    <3>1. last' = last /\ loaded' = loaded /\ (file # None => load' = "read")
      BY <2>1 DEF LoadAccess, ghosts
    <3>2. last # None
      BY StateAssumption DEF SInv, IInv, TypeOK
    <3> QED BY <1>1, <1>2, <3>1, <3>2 DEF SInv, LastOnDisk
  <2>2. CASE LoadRead
    BY <1>1, <1>2, <2>2 DEF LoadRead, ghosts, SInv, LastOnDisk
  <2>3. CASE LoadDone
    BY <1>1, <1>2, <2>3 DEF LoadDone, SInv, LastOnDisk
  <2> QED BY <2>1, <2>2, <2>3
<1> QED BY <1>4, <1>5

LEMMA RestartCurrent == ASSUME SInv, Restart PROVE Current' /\ LastOnDisk'
<1>1. /\ load' = "access" /\ loaded' = None /\ final' = None /\ raced' = TRUE
      /\ stage' = [s \in Saves |-> "idle"] /\ file' = file
      /\ last' = IF phase = "stopped" THEN last
                 ELSE IF ~isDirty /\ Busy = {} /\ ~raced /\ load = "no" THEN Snapshot
                 ELSE Torn
  BY DEF Restart, disk
<1>2. Busy' = {}
  BY <1>1 DEF Busy
<1>3. Current'
  BY <1>1 DEF Current
<1>4. last' # Torn => file = last'
  BY <1>1 DEF SInv, Current, LastOnDisk
<1>5. LastOnDisk'
  BY <1>1, <1>2, <1>4 DEF LastOnDisk
<1> QED BY <1>3, <1>5

LEMMA SNextOK == SInv /\ [Next]_vars => SInv'
<1> SUFFICES ASSUME SInv, [Next]_vars PROVE SInv'
  OBVIOUS
<1>0. IInv'
  BY NextOK DEF SInv
<1>1. CASE \/ \E j \in Jobs : RegisterJob(j) \/ UnregisterJob(j) \/ StartExecution(j) \/ SetField(j)
           \/ \E r \in running : EndExecution(r)
  BY <1>0, <1>1, OperationsCurrent DEF SInv
<1>2. ASSUME NEW s \in Saves, AutoPersist(s) PROVE SInv'
  <2>1. phase' = phase /\ final' = final /\ phase = "up" /\ isDirty /\ PersistState(s) /\ UNCHANGED memory
    BY <1>2 DEF AutoPersist
  <2> QED BY <1>0, <2>1, BeginCurrent DEF SInv
<1>3. ASSUME NEW s \in Saves, Shutdown(s) PROVE SInv'
  BY <1>0, <1>3, ShutdownCurrent DEF SInv
<1>4. ASSUME NEW s \in Saves, OpenTemp(s) PROVE SInv'
  BY <1>0, <1>4, OpenTempCurrent DEF SInv
<1>5. ASSUME NEW s \in Saves, WriteTemp(s) PROVE SInv'
  BY <1>0, <1>5, WriteTempCurrent DEF SInv
<1>6. ASSUME NEW s \in Saves, Rename(s) PROVE SInv'
  BY <1>0, <1>6, RenameCurrent DEF SInv
<1>7. ASSUME NEW s \in Saves, SaveFails(s) PROVE SInv'
  BY <1>0, <1>7, SaveFailsCurrent DEF SInv
<1>8. CASE LoadAccess \/ LoadRead \/ LoadDone
  BY <1>0, <1>8, LoadCurrent DEF SInv
<1>9. CASE Restart
  BY <1>0, <1>9, RestartCurrent DEF SInv
<1>10. CASE UNCHANGED vars
  BY <1>0, <1>10 DEF vars, memory, loading, saving, disk, ghosts, SInv, Current, LastOnDisk,
               Busy, Snapshot
<1> QED BY <1>1, <1>2, <1>3, <1>4, <1>5, <1>6, <1>7, <1>8, <1>9, <1>10 DEF Next

LEMMA SavedInvariance == Spec => []SInv
<1>1. Init => SInv
  BY InitOK, SInitOK DEF SInv
<1> QED BY <1>1, SNextOK, PTL DEF Spec

\* When nothing is marked and nothing is under way, the file holds the states of
\* all jobs, unless something fell into the last save.
THEOREM CleanHolds == Spec => []CleanMeansSaved
<1>1. SInv => CleanMeansSaved
  BY DEF SInv, Current, CleanMeansSaved
<1> QED BY <1>1, SavedInvariance, PTL

\* What a process that ended clean knew is what the next one loads.
THEOREM RecoveryHolds == Spec => []RecoveryExact
<1>1. SInv => RecoveryExact
  BY DEF SInv, LastOnDisk, RecoveryExact
<1> QED BY <1>1, SavedInvariance, PTL

-----------------------------------------------------------------------------
\* What is known of a snapshot or a file: no job has ended more executions than
\* it has started.
CountedIn(x) ==
    x \in {Torn, None} \/ \A j \in Jobs \ mixed :
        x.states[j] # None => x.states[j].ended <= x.states[j].executions

\* A job without a state runs nothing, so that a new state, or one that is loaded,
\* begins with what is known of it.
Counted ==
    /\ \A j \in Jobs \ mixed : states[j] = None => RunningOf(j) = {}
    /\ ExecutionsCounted
    /\ CountedIn(temp) /\ CountedIn(file) /\ CountedIn(loaded)
    /\ \A s \in Saves : CountedIn(snap[s])

CInv == IInv /\ Counted

LEMMA RunningFinite ==
  ASSUME TypeOK, NEW j \in Jobs
  PROVE  IsFiniteSet(RunningOf(j)) /\ Cardinality(RunningOf(j)) \in Nat
<1>1. IsFiniteSet(1..started)
  BY FS_Interval DEF TypeOK
<1>2. IsFiniteSet({j})
  BY FS_Singleton
<1>3. IsFiniteSet((1..started) \X {j})
  BY <1>1, <1>2, FS_Product
<1>4. RunningOf(j) \subseteq (1..started) \X {j}
  BY DEF RunningOf, TypeOK
<1>5. IsFiniteSet(RunningOf(j))
  BY <1>3, <1>4, FS_Subset
<1> QED BY <1>5, FS_CardinalityType

LEMMA CInitOK == Init => Counted
<1> SUFFICES ASSUME Init PROVE Counted
  OBVIOUS
<1>1. \A j \in Jobs : states[j] = None /\ RunningOf(j) = {}
  BY DEF Init, RunningOf
<1>2. CountedIn(temp) /\ CountedIn(file) /\ CountedIn(loaded) /\ \A s \in Saves : CountedIn(snap[s])
  BY DEF Init, CountedIn
<1> QED BY <1>1, <1>2 DEF Counted, ExecutionsCounted

\* Steps that forget more and change no snapshot keep what is known of them.
LEMMA SnapshotsKept ==
  ASSUME Counted, mixed \subseteq mixed', UNCHANGED <<temp, file, loaded, snap>>
  PROVE  /\ CountedIn(temp)' /\ CountedIn(file)' /\ CountedIn(loaded)'
         /\ \A s \in Saves : CountedIn(snap[s])'
BY DEF Counted, CountedIn

\* A step that leaves the jobs alone and writes only what has been counted.
LEMMA JobsKept ==
  ASSUME CInv, UNCHANGED <<states, running, mixed>>
  PROVE  /\ \A j \in Jobs \ mixed' : states'[j] = None => RunningOf(j)' = {}
         /\ ExecutionsCounted'
<1>1. \A j \in Jobs : RunningOf(j)' = RunningOf(j)
  BY DEF RunningOf
<1> QED BY <1>1 DEF CInv, Counted, ExecutionsCounted

\* Nothing is known of any job, and nothing runs.
LEMMA JobsCleared ==
  ASSUME states' = [j \in Jobs |-> None], running' = {}
  PROVE  /\ \A j \in Jobs \ mixed' : states'[j] = None => RunningOf(j)' = {}
         /\ ExecutionsCounted'
BY DEF RunningOf, ExecutionsCounted

LEMMA SnapshotCounted == CInv => CountedIn(Snapshot)
<1> SUFFICES ASSUME CInv, NEW j \in Jobs \ mixed, states[j] # None
             PROVE  states[j].ended <= states[j].executions
  BY DEF CountedIn, Snapshot
<1>1. states[j] \in JobState
  BY DEF CInv, IInv, TypeOK
<1>2. Cardinality(RunningOf(j)) \in Nat
  BY RunningFinite DEF CInv, IInv
<1>3. states[j].ended + Cardinality(RunningOf(j)) <= states[j].executions
  BY DEF CInv, Counted, ExecutionsCounted
<1> QED BY <1>1, <1>2, <1>3 DEF JobState

LEMMA RegisterCounted == ASSUME CInv, NEW j \in Jobs, RegisterJob(j) PROVE Counted'
<1>1. /\ states' = IF states[j] = None THEN [states EXCEPT ![j] = NewState] ELSE states
      /\ UNCHANGED <<running, mixed, temp, file, loaded, snap>>
  BY DEF RegisterJob, Change, disk, loading, saving
<1>2. \A k \in Jobs : RunningOf(k)' = RunningOf(k)
  BY <1>1 DEF RunningOf
<1>3. ASSUME NEW k \in Jobs \ mixed'
      PROVE  /\ states'[k] = None => RunningOf(k)' = {}
             /\ states'[k] # None =>
                  states'[k].ended + Cardinality(RunningOf(k)') <= states'[k].executions
  <2>1. CASE k = j /\ states[j] = None
    <3>1. RunningOf(k)' = {}
      BY <1>1, <1>2, <1>3, <2>1 DEF CInv, Counted
    <3>2. states'[k] = NewState
      BY <1>1, <2>1 DEF CInv, IInv, TypeOK
    <3> QED BY <3>1, <3>2, FS_EmptySet DEF NewState
  <2>2. CASE ~(k = j /\ states[j] = None)
    <3>1. states'[k] = states[k]
      BY <1>1, <2>2 DEF CInv, IInv, TypeOK
    <3> QED BY <1>1, <1>2, <1>3, <3>1 DEF CInv, Counted, ExecutionsCounted
  <2> QED BY <2>1, <2>2
<1>4. ExecutionsCounted'
  BY <1>3 DEF ExecutionsCounted
<1> QED BY <1>1, <1>3, <1>4, SnapshotsKept DEF CInv, Counted

\* Removing a job cancels its first execution: what is left if it had one is
\* nothing, and if it had more it has lost count.
LEMMA UnregisterCounted == ASSUME CInv, NEW j \in Jobs, UnregisterJob(j) PROVE Counted'
<1>1. /\ states' = [states EXCEPT ![j] = None]
      /\ running' = {r \in running : r[2] = j => \E q \in RunningOf(j) : q[1] < r[1]}
      /\ mixed' = IF Cardinality(RunningOf(j)) > 1 THEN mixed \cup {j} ELSE mixed
      /\ UNCHANGED <<temp, file, loaded, snap>>
  BY DEF UnregisterJob, Change, disk, loading, saving
<1>2. ASSUME NEW k \in Jobs \ mixed'
      PROVE  /\ states'[k] = None => RunningOf(k)' = {}
             /\ states'[k] # None =>
                  states'[k].ended + Cardinality(RunningOf(k)') <= states'[k].executions
  <2>1. CASE k = j
    <3>1. Cardinality(RunningOf(j)) \in Nat /\ IsFiniteSet(RunningOf(j))
      BY RunningFinite DEF CInv, IInv
    <3>2. Cardinality(RunningOf(j)) \in {0, 1}
      BY <1>1, <2>1, <3>1
    <3>3. \A r, q \in RunningOf(j) : r = q
      <4>1. CASE Cardinality(RunningOf(j)) = 0
        BY <3>1, <4>1, FS_EmptySet
      <4>2. CASE Cardinality(RunningOf(j)) = 1
        BY <3>1, <4>2, FS_Singleton
      <4> QED BY <3>2, <4>1, <4>2
    <3>4. ASSUME NEW r \in RunningOf(k)' PROVE FALSE
      <4>1. r \in running /\ r[2] = j /\ \E q \in RunningOf(j) : q[1] < r[1]
        BY <1>1, <2>1 DEF RunningOf
      <4>2. r \in RunningOf(j) /\ r[1] \in Nat
        BY <4>1 DEF RunningOf, CInv, IInv, TypeOK
      <4> QED BY <3>3, <4>1, <4>2
    <3>5. states'[k] = None
      BY <1>1, <2>1 DEF CInv, IInv, TypeOK
    <3> QED BY <3>4, <3>5
  <2>2. CASE k # j
    <3>1. states'[k] = states[k]
      BY <1>1, <2>2 DEF CInv, IInv, TypeOK
    <3>2. RunningOf(k)' = RunningOf(k)
      BY <1>1, <2>2 DEF RunningOf
    <3> QED BY <1>1, <1>2, <3>1, <3>2 DEF CInv, Counted, ExecutionsCounted
  <2> QED BY <2>1, <2>2
<1>3. ExecutionsCounted'
  BY <1>2 DEF ExecutionsCounted
<1>4. mixed \subseteq mixed'
  BY <1>1
<1> QED BY <1>1, <1>2, <1>3, <1>4, SnapshotsKept DEF CInv, Counted

LEMMA StartCounted == ASSUME CInv, NEW j \in Jobs, StartExecution(j) PROVE Counted'
<1>1. /\ states[j] # None /\ running' = running \cup {<<started + 1, j>>}
      /\ states' = [states EXCEPT ![j].executions = @ + 1]
      /\ UNCHANGED <<mixed, temp, file, loaded, snap>>
  BY DEF StartExecution, Change, disk, loading, saving
<1>2. ASSUME NEW k \in Jobs \ mixed'
      PROVE  /\ states'[k] = None => RunningOf(k)' = {}
             /\ states'[k] # None =>
                  states'[k].ended + Cardinality(RunningOf(k)') <= states'[k].executions
  <2>1. CASE k = j
    <3>1. states[j] \in JobState
      BY <1>1 DEF CInv, IInv, TypeOK
    <3>2. states'[j].ended = states[j].ended /\ states'[j].executions = states[j].executions + 1
          /\ states'[j] # None
      <4>1. states'[j] = [states[j] EXCEPT !.executions = @ + 1]
        BY <1>1 DEF CInv, IInv, TypeOK
      <4>2. states'[j] \in JobState
        BY <3>1, <4>1 DEF JobState
      <4> QED BY <3>1, <4>1, <4>2, StateAssumption DEF JobState
    <3>3. RunningOf(j)' = RunningOf(j) \cup {<<started + 1, j>>}
      BY <1>1 DEF RunningOf
    <3>4. <<started + 1, j>> \notin RunningOf(j)
      BY DEF RunningOf, CInv, IInv, TypeOK
    <3>5. IsFiniteSet(RunningOf(j)) /\ Cardinality(RunningOf(j)) \in Nat
      BY RunningFinite DEF CInv, IInv
    <3>6. Cardinality(RunningOf(j)') = Cardinality(RunningOf(j)) + 1
      BY <3>3, <3>4, <3>5, FS_AddElement
    <3>7. states[j].ended + Cardinality(RunningOf(j)) <= states[j].executions
      BY <1>1, <1>2, <2>1 DEF CInv, Counted, ExecutionsCounted
    <3> QED BY <2>1, <3>1, <3>2, <3>5, <3>6, <3>7 DEF JobState
  <2>2. CASE k # j
    <3>1. states'[k] = states[k]
      BY <1>1, <2>2 DEF CInv, IInv, TypeOK
    <3>2. RunningOf(k)' = RunningOf(k)
      BY <1>1, <2>2 DEF RunningOf
    <3> QED BY <1>1, <1>2, <3>1, <3>2 DEF CInv, Counted, ExecutionsCounted
  <2> QED BY <2>1, <2>2
<1>3. ExecutionsCounted'
  BY <1>2 DEF ExecutionsCounted
<1> QED BY <1>1, <1>2, <1>3, SnapshotsKept DEF CInv, Counted

LEMMA EndCounted == ASSUME CInv, NEW r \in running, EndExecution(r) PROVE Counted'
<1> DEFINE j == r[2]
<1>1. /\ states' = IF states[j] = None THEN states ELSE [states EXCEPT ![j].ended = @ + 1]
      /\ running' = running \ {r}
      /\ UNCHANGED <<mixed, temp, file, loaded, snap>>
  BY DEF EndExecution, Change, disk, loading, saving
<1>2. j \in Jobs /\ r \in RunningOf(j)
  BY DEF CInv, IInv, TypeOK, RunningOf
<1> HIDE DEF j
<1>3. ASSUME NEW k \in Jobs \ mixed'
      PROVE  /\ states'[k] = None => RunningOf(k)' = {}
             /\ states'[k] # None =>
                  states'[k].ended + Cardinality(RunningOf(k)') <= states'[k].executions
  <2>1. CASE k = j
    <3>1. states[j] # None
      BY <1>1, <1>2, <1>3, <2>1 DEF CInv, Counted
    <3>2. states[j] \in JobState
      BY <1>2, <3>1 DEF CInv, IInv, TypeOK
    <3>3. states'[j].ended = states[j].ended + 1 /\ states'[j].executions = states[j].executions
          /\ states'[j] # None
      <4>1. states'[j] = [states[j] EXCEPT !.ended = @ + 1]
        BY <1>1, <1>2, <3>1 DEF CInv, IInv, TypeOK
      <4>2. states'[j] \in JobState
        BY <3>2, <4>1 DEF JobState
      <4> QED BY <3>2, <4>1, <4>2, StateAssumption DEF JobState
    <3>4. RunningOf(j)' = RunningOf(j) \ {r}
      BY <1>1 DEF RunningOf
    <3>5. IsFiniteSet(RunningOf(j)) /\ Cardinality(RunningOf(j)) \in Nat
      BY <1>2, RunningFinite DEF CInv, IInv
    <3>6. Cardinality(RunningOf(j)') = Cardinality(RunningOf(j)) - 1
      BY <1>2, <3>4, <3>5, FS_RemoveElement
    <3>7. states[j].ended + Cardinality(RunningOf(j)) <= states[j].executions
      BY <1>1, <1>3, <2>1, <3>1 DEF CInv, Counted, ExecutionsCounted
    <3> QED BY <2>1, <3>2, <3>3, <3>5, <3>6, <3>7 DEF JobState
  <2>2. CASE k # j
    <3>1. states'[k] = states[k]
      BY <1>1, <2>2 DEF CInv, IInv, TypeOK
    <3>2. RunningOf(k)' = RunningOf(k)
      BY <1>1, <2>2 DEF RunningOf, j
    <3> QED BY <1>1, <1>3, <3>1, <3>2 DEF CInv, Counted, ExecutionsCounted
  <2> QED BY <2>1, <2>2
<1>4. ExecutionsCounted'
  BY <1>3 DEF ExecutionsCounted
<1> QED BY <1>1, <1>3, <1>4, SnapshotsKept DEF CInv, Counted

\* The snapshot of a save is of what has been counted; files only get snapshots.
LEMMA BeginCounted == ASSUME CInv, NEW s \in Saves, PersistState(s), UNCHANGED memory
                      PROVE  Counted'
<1>1. /\ UNCHANGED <<states, running, mixed, temp, file, loaded>>
      /\ snap' = [snap EXCEPT ![s] = Snapshot]
  BY DEF PersistState, disk, loading, memory
<1>2. CountedIn(temp)' /\ CountedIn(file)' /\ CountedIn(loaded)'
  BY <1>1 DEF CInv, Counted, CountedIn
<1>3. \A t \in Saves : CountedIn(snap[t])'
  <2> SUFFICES ASSUME NEW t \in Saves PROVE CountedIn(snap[t])'
    OBVIOUS
  <2>1. CASE t = s
    <3>1. snap'[t] = Snapshot
      BY <1>1, <2>1 DEF CInv, IInv, TypeOK
    <3> QED BY <1>1, <3>1, SnapshotCounted DEF CountedIn
  <2>2. CASE t # s
    BY <1>1, <2>2 DEF CInv, Counted, CountedIn, IInv, TypeOK
  <2> QED BY <2>1, <2>2
<1> QED BY <1>1, <1>2, <1>3, JobsKept DEF Counted

LEMMA SaveCounted == ASSUME CInv, NEW s \in Saves,
                            OpenTemp(s) \/ WriteTemp(s) \/ Rename(s) \/ SaveFails(s)
                     PROVE  Counted'
<1>1. UNCHANGED <<loaded, mixed>>
  BY DEF OpenTemp, WriteTemp, Rename, SaveFails, loading, ghosts
<1>2. snap' = snap \/ snap' = [snap EXCEPT ![s] = Torn]
  BY DEF OpenTemp, WriteTemp, Rename, SaveFails, Over
<1>3. /\ temp' \in {temp, snap[s], Torn, None}
      /\ file' \in {file, temp, snap[s], Torn}
  BY DEF OpenTemp, WriteTemp, Written, Rename, Renamed, SaveFails, disk
<1>4. CountedIn(temp)' /\ CountedIn(file)' /\ CountedIn(loaded)'
  BY <1>1, <1>3 DEF CInv, Counted, CountedIn
<1>5. \A t \in Saves : CountedIn(snap[t])'
  BY <1>1, <1>2 DEF CInv, Counted, CountedIn, IInv, TypeOK
<1>6. \/ UNCHANGED <<states, running>>
      \/ states' = [j \in Jobs |-> None] /\ running' = {}
  BY DEF OpenTemp, WriteTemp, Rename, Cleared, SaveFails, memory
<1> QED BY <1>1, <1>4, <1>5, <1>6, JobsKept, JobsCleared DEF Counted

LEMMA ShutdownCounted == ASSUME CInv, NEW s \in Saves, Shutdown(s) PROVE Counted'
<1>1. CASE isDirty
  <2>1. PersistState(s) /\ UNCHANGED memory
    BY <1>1 DEF Shutdown, memory
  <2> QED BY <2>1, BeginCounted
<1>2. CASE ~isDirty
  <2>1. /\ states' = [j \in Jobs |-> None] /\ running' = {}
        /\ UNCHANGED <<temp, file, loaded, snap, mixed>>
    BY <1>2 DEF Shutdown, Cleared, saving, disk, loading
  <2> QED BY <2>1, JobsCleared, SnapshotsKept DEF CInv, Counted
<1> QED BY <1>1, <1>2

\* A load may bring back a state only for a job that runs nothing, or the job has
\* lost count.
LEMMA LoadCounted == ASSUME CInv, LoadAccess \/ LoadRead \/ LoadDone PROVE Counted'
<1>1. CASE LoadAccess \/ LoadRead
  <2>1. /\ UNCHANGED <<states, running, mixed, temp, file, snap>>
        /\ loaded' \in {loaded, file}
    BY <1>1 DEF LoadAccess, LoadRead, memory, ghosts, disk, saving
  <2>2. /\ CountedIn(temp)' /\ CountedIn(file)' /\ CountedIn(loaded)'
        /\ \A s \in Saves : CountedIn(snap[s])'
    BY <2>1 DEF CInv, Counted, CountedIn
  <2> QED BY <2>1, <2>2, JobsKept DEF Counted
<1>2. CASE LoadDone
  <2>1. loaded # None /\ loaded' = None /\ UNCHANGED <<running, temp, file, snap>>
    BY <1>2 DEF LoadDone, saving, disk
  <2>2. mixed \subseteq mixed'
    BY <1>2 DEF LoadDone
  <2>3. /\ CountedIn(temp)' /\ CountedIn(file)' /\ CountedIn(loaded)'
        /\ \A s \in Saves : CountedIn(snap[s])'
    BY <2>1, <2>2 DEF CInv, Counted, CountedIn
  <2>4. CASE loaded = Torn
    <3>1. UNCHANGED <<states, mixed>>
      BY <1>2, <2>4 DEF LoadDone
    <3> QED BY <2>1, <2>3, <3>1, JobsKept DEF Counted
  <2>5. CASE loaded # Torn
    <3>1. /\ states' = [j \in Jobs |-> Restored(j)]
          /\ mixed' = mixed \cup {j \in Jobs : loaded.states[j] # None /\ RunningOf(j) # {}}
      BY <1>2, <2>5 DEF LoadDone
    <3>2. \A j \in Jobs : RunningOf(j)' = RunningOf(j)
      BY <2>1 DEF RunningOf
    <3>3. ASSUME NEW j \in Jobs \ mixed'
          PROVE  /\ states'[j] = None => RunningOf(j)' = {}
                 /\ states'[j] # None =>
                      states'[j].ended + Cardinality(RunningOf(j)') <= states'[j].executions
      <4>1. j \in Jobs \ mixed /\ (loaded.states[j] # None => RunningOf(j) = {})
        BY <3>1, <3>3
      <4>2. CASE loaded.states[j] # None
        <5>1. RunningOf(j)' = {} /\ states'[j] = loaded.states[j]
          BY <3>1, <3>2, <4>1, <4>2 DEF Restored
        <5>2. loaded.states[j] \in JobState
          BY <2>1, <2>5, <4>1, <4>2 DEF CInv, IInv, TypeOK, Snapshots
        <5>3. loaded.states[j].ended <= loaded.states[j].executions
          BY <2>1, <2>5, <4>1, <4>2 DEF CInv, Counted, CountedIn
        <5>4. Cardinality(RunningOf(j)') = 0
          BY <5>1, FS_EmptySet
        <5> QED BY <5>1, <5>2, <5>3, <5>4 DEF JobState
      <4>3. CASE loaded.states[j] = None
        <5>1. states'[j] = states[j]
          BY <3>1, <4>1, <4>3 DEF Restored
        <5> QED BY <3>2, <4>1, <5>1 DEF CInv, Counted, ExecutionsCounted
      <4> QED BY <4>2, <4>3
    <3>4. ExecutionsCounted'
      BY <3>3 DEF ExecutionsCounted
    <3> QED BY <2>3, <3>3, <3>4 DEF Counted
  <2> QED BY <2>4, <2>5
<1> QED BY <1>1, <1>2

LEMMA RestartCounted == ASSUME CInv, Restart PROVE Counted'
<1>1. /\ states' = [j \in Jobs |-> None] /\ running' = {} /\ loaded' = None
      /\ snap' = [s \in Saves |-> Torn] /\ UNCHANGED <<temp, file, mixed>>
  BY DEF Restart, disk
<1>2. /\ CountedIn(temp)' /\ CountedIn(file)' /\ CountedIn(loaded)'
      /\ \A s \in Saves : CountedIn(snap[s])'
  BY <1>1 DEF CInv, Counted, CountedIn
<1> QED BY <1>1, <1>2, JobsCleared DEF Counted

LEMMA CNextOK == CInv /\ [Next]_vars => CInv'
<1> SUFFICES ASSUME CInv, [Next]_vars PROVE Counted'
  BY NextOK DEF CInv
<1>1. ASSUME NEW j \in Jobs,
             RegisterJob(j) \/ UnregisterJob(j) \/ StartExecution(j) \/ SetField(j)
      PROVE  Counted'
  <2>1. CASE SetField(j)
    <3>1. UNCHANGED <<states, running, mixed, temp, file, loaded, snap>>
      BY <2>1 DEF SetField, Change, disk, loading, saving
    <3> QED BY <3>1, JobsKept, SnapshotsKept DEF CInv, Counted
  <2> QED BY <1>1, <2>1, RegisterCounted, UnregisterCounted, StartCounted
<1>2. ASSUME NEW r \in running, EndExecution(r) PROVE Counted'
  BY <1>2, EndCounted
<1>3. ASSUME NEW s \in Saves, AutoPersist(s) PROVE Counted'
  BY <1>3, BeginCounted DEF AutoPersist
<1>4. ASSUME NEW s \in Saves, Shutdown(s) PROVE Counted'
  BY <1>4, ShutdownCounted
<1>5. ASSUME NEW s \in Saves, OpenTemp(s) \/ WriteTemp(s) \/ Rename(s) \/ SaveFails(s)
      PROVE  Counted'
  BY <1>5, SaveCounted
<1>6. CASE LoadAccess \/ LoadRead \/ LoadDone
  BY <1>6, LoadCounted
<1>7. CASE Restart
  BY <1>7, RestartCounted
<1>8. CASE UNCHANGED vars
  <2>1. UNCHANGED <<states, running, mixed, temp, file, loaded, snap>>
    BY <1>8 DEF vars, memory, loading, saving, disk, ghosts
  <2> QED BY <2>1, JobsKept, SnapshotsKept DEF CInv, Counted
<1> QED BY <1>1, <1>2, <1>3, <1>4, <1>5, <1>6, <1>7, <1>8 DEF Next

\* What a job's state counts as executed has ended or is running, unless the job
\* was loaded or removed over its own executions.
THEOREM CountingHolds == Spec => []ExecutionsCounted
<1>1. Init => CInv
  BY InitOK, CInitOK DEF CInv
<1>2. CInv => ExecutionsCounted
  BY DEF CInv, Counted
<1> QED BY <1>1, <1>2, CNextOK, PTL DEF Spec
=============================================================================
