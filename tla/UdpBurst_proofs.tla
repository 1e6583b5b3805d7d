--------------------------- MODULE UdpBurst_proofs ---------------------------
(***************************************************************************)
(* For any configurations, any number of systems, runs and bursts: the     *)
(* files of the run directory, the TCP attributes and the burst logs are   *)
(* those of the run they are taken for, after whatever ran before.         *)
(***************************************************************************)
EXTENDS UdpBurst, Lists_proofs

-----------------------------------------------------------------------------
(* The inductive invariant.                                                  *)

Setup          == {"construct", "prepare", "write_no", "topology", "tcp", "schedulers", "run"}
AfterSchedule  == {"run", "running", "results", "clean_up", "timing", "write_yes", "done"}
AfterTopology  == {"tcp", "schedulers"} \cup AfterSchedule
AfterConstruct == {"prepare", "write_no", "topology"} \cup AfterTopology
Stage          == {"none", "dead", "construct"} \cup AfterConstruct

BasicTyped ==
  /\ runs \in Nat /\ now \in Nat /\ stage \in [System -> Stage]
  /\ input \in Input
  /\ attribute = [s \in System |-> attribute[s]] /\ registered = [s \in System |-> registered[s]]
  /\ finished \in [File -> [is : {"missing", "No", "Yes"}, run : Nat]] /\ timing \in [File -> Nat]
  /\ results \in [File -> Nat] /\ withBursts \subseteq 1 .. runs

(* How far a system is says what it has checked and prepared.                *)
StageSound(s) ==
  /\ stage[s] # "none" => runs > 0 /\ s < input.np
  /\ stage[s] \in AfterConstruct => /\ input.np = 1 \/ Distributed
                                    /\ Distributed => IsDistribution
  /\ stage[s] \in AfterTopology => (Distributed => Len(Assignment) = NumNodes)
  /\ stage[s] \in AfterSchedule /\ Enabled => CanSchedule /\ registered[s] = Incoming(s)

(* The attributes are the defaults before the TCP settings are configured    *)
(* and after the clean-up.                                                   *)
TcpSound(s) ==
  /\ stage[s] \in {"none", "construct", "prepare", "write_no", "topology", "tcp", "timing",
                   "write_yes", "done"} => attribute[s] = Default
  /\ stage[s] \in {"schedulers", "run", "running"} =>
       attribute[s] = Configured(Default, config) /\ Configured(Default, config) # <<>>

(* A system at work has withdrawn its finished file, and writes the others   *)
(* before it writes Yes.                                                     *)
FilesSound(s) ==
  /\ stage[s] \in AfterConstruct \ {"prepare", "done"} => finished[FileOf(s)].is # "Yes"
  /\ stage[s] \in {"clean_up", "timing", "write_yes"} /\ Enabled => results[FileOf(s)] = runs
  /\ stage[s] = "write_yes" => timing[FileOf(s)] = runs

YesSound(f) ==
  /\ finished[f].run <= runs
  /\ finished[f].is = "Yes" =>
       /\ timing[f] = finished[f].run
       /\ finished[f].run \in withBursts \/ (finished[f].run = runs /\ Enabled) =>
            results[f] = finished[f].run

FilesInv ==
  /\ BasicTyped
  /\ runs \in withBursts => Enabled
  /\ \A s \in System : StageSound(s) /\ TcpSound(s) /\ FilesSound(s)
  /\ \A f \in File : YesSound(f)

(* What the memory of the processes holds is of the accepted schedule; it is *)
(* empty until every system simulates.                                       *)
Valid(i) == Enabled /\ IsSchedule(input.bursts) /\ i + 1 \in DOMAIN input.bursts

MemoryTyped ==
  /\ event \in [System -> Nat]
  /\ schedule = [s \in System |-> schedule[s]]
  /\ outgoing \in [System -> Seq(Id)]
  /\ startTime \in [Id -> {Never} \cup Nat] /\ sendAt = [i \in Id |-> sendAt[i]]
  /\ sent \in [Id -> Nat] /\ received \in [Id -> Nat]
  /\ net \subseteq [id : Id, seq : Nat, to : Endpoint]
  /\ outLog \in [Id -> Seq(Nat \X Nat)] /\ inLog \in [Id -> Seq(Nat \X Nat)]

ScheduleSound(s) ==
  /\ schedule[s] # <<>> => /\ Enabled /\ IsSchedule(input.bursts)
                           /\ schedule[s] = OwnEntries(s)
  /\ event[s] # 0 => event[s] \in 1 .. Len(schedule[s])

Idle ==
  net = {} /\ \A i \in Id : sent[i] = 0 /\ received[i] = 0

NetSound(m) == Valid(m.id) /\ m.to = Entry(m.id).to /\ m.seq < sent[m.id]

MemorySound ==
  /\ \A s \in System : ScheduleSound(s) /\ \A i \in Range(outgoing[s]) : Valid(i)
  /\ \A i \in Id : sendAt[i] # Never => i \in Installed
  /\ \A s \in System : stage[s] \in Setup => Idle
  /\ \A m \in net : NetSound(m)

(* The logs: the outgoing one ends with this run, the incoming one is of     *)
(* this run once the system of the destination has registered the burst.     *)
Emptied(i) ==
  /\ Valid(i)
  /\ \E s \in System : stage[s] \in AfterSchedule /\ IsOnThisSystem(Entry(i).to, s)

OutLogSound(i) ==
  /\ \A k \in 1 .. Len(outLog[i]) : outLog[i][k][1] <= runs
  /\ i \in Logged =>
       /\ sent[i] <= Len(outLog[i])
       /\ \A k \in 1 .. Len(outLog[i]) : outLog[i][k][1] = runs <=> k > Len(outLog[i]) - sent[i]
       /\ \A k \in 1 .. sent[i] : outLog[i][Len(outLog[i]) - sent[i] + k] = <<runs, k - 1>>

InLogSound(i) ==
  i \in Logged /\ Emptied(i) =>
    /\ Len(inLog[i]) = received[i] /\ IsInjective(inLog[i])
    /\ \A k \in 1 .. Len(inLog[i]) :
         /\ inLog[i][k][1] = runs /\ inLog[i][k][2] < sent[i]
         /\ \A m \in net : m.id = i => m.seq # inLog[i][k][2]

LogsSound == \A i \in Id : OutLogSound(i) /\ InLogSound(i)


-----------------------------------------------------------------------------
(* What depends on the configuration and the schedule stays with them.       *)

LEMMA InputKept ==
  ASSUME input' = input
  PROVE  /\ config' = config /\ Distributed' = Distributed /\ Enabled' = Enabled
         /\ Assignment' = Assignment /\ IsDistribution' = IsDistribution
         /\ CanSchedule' = CanSchedule /\ Complete' = Complete /\ Logged' = Logged
         /\ IsSchedule(input.bursts)' = IsSchedule(input.bursts)
         /\ \A s : FileOf(s)' = FileOf(s)
         /\ \A s : Incoming(s)' = Incoming(s)
         /\ \A s : OwnEntries(s)' = OwnEntries(s)
         /\ \A a, s : IsOnThisSystem(a, s)' = IsOnThisSystem(a, s)
         /\ \A i : Entry(i)' = Entry(i) /\ Valid(i)' = Valid(i)
<1>1. config' = config
  BY DEF config
<1>2. Distributed' = Distributed /\ Enabled' = Enabled /\ Assignment' = Assignment
  BY <1>1 DEF Distributed, Enabled, Assignment, Flag
<1>3. Complete' = Complete
  BY DEF Complete
<1>4. EndTime' = EndTime /\ \A key : Scalar(key)' = Scalar(key)
  BY <1>1 DEF EndTime, Scalar
<1>5. IsSchedule(input.bursts)' = IsSchedule(input.bursts)
  BY <1>4 DEF IsSchedule, IsEntry
<1>6. IsDistribution' = IsDistribution
  BY <1>1, <1>2, <1>4 DEF IsDistribution, HasPositive
<1>7. Logged' = Logged /\ IsLogging' = IsLogging
  BY <1>1 DEF Logged, IsLogging, LogsAll, Logging
<1>8. CanSchedule' = CanSchedule
  BY <1>1, <1>2, <1>5, <1>7 DEF CanSchedule, Flag
<1>9. \A a, s : IsOnThisSystem(a, s)' = IsOnThisSystem(a, s)
  BY <1>2 DEF IsOnThisSystem
<1>10. \A s : FileOf(s)' = FileOf(s)
  BY <1>2 DEF FileOf
<1>11. \A s : Incoming(s)' = Incoming(s)
  BY <1>3, <1>9 DEF Incoming
<1>12. \A s : OwnEntries(s)' = OwnEntries(s)
  BY <1>3, <1>9 DEF OwnEntries
<1>13. \A i : Entry(i)' = Entry(i) /\ Valid(i)' = Valid(i)
  BY <1>2, <1>3, <1>5 DEF Entry, Valid
<1> QED BY <1>1, <1>2, <1>3, <1>5, <1>6, <1>7, <1>8, <1>9, <1>10, <1>11, <1>12, <1>13

(* The processes of a run write different files.                             *)
LEMMA FilesAreSeparate ==
  ASSUME BasicTyped, NEW s \in System, NEW t \in System, s # t,
         StageSound(s), StageSound(t), stage[s] \in AfterConstruct, stage[t] \in AfterConstruct
  PROVE  FileOf(s) # FileOf(t)
<1>1. NumSystems \in Nat \ {0} /\ input.np \in 1 .. NumSystems
  BY InputAssumption DEF BasicTyped
<1>2. s < input.np /\ t < input.np /\ (input.np = 1 \/ Distributed)
  BY DEF StageSound, AfterConstruct, AfterTopology, AfterSchedule
<1>3. Distributed
  BY <1>1, <1>2 DEF System
<1> QED BY <1>3 DEF FileOf

LEMMA FilesAreFiles ==
  ASSUME NEW s \in System
  PROVE  FileOf(s) \in File /\ NumSystems \in Nat
BY InputAssumption DEF FileOf, File, System, Single

(* A step of one system: the others, and their files, are as they were.      *)
SystemSound(s) == StageSound(s) /\ TcpSound(s) /\ FilesSound(s)

OnlyOf(s) ==
  /\ UNCHANGED <<input, runs>>
  /\ \A t \in System \ {s} : /\ stage'[t] = stage[t] /\ attribute'[t] = attribute[t]
                             /\ registered'[t] = registered[t]
  /\ \/ UNCHANGED <<finished, timing, results>>
     \/ stage[s] \in AfterConstruct /\ \A f \in File \ {FileOf(s)} :
          finished'[f] = finished[f] /\ timing'[f] = timing[f] /\ results'[f] = results[f]
  /\ \/ UNCHANGED withBursts
     \/ Enabled /\ withBursts' = withBursts \cup {runs}

LEMMA OthersKeep ==
  ASSUME FilesInv, NEW s \in System, OnlyOf(s)
  PROVE  /\ \A t \in System \ {s} : SystemSound(t)'
         /\ \A f \in File \ {FileOf(s)} : YesSound(f)'
         /\ (runs \in withBursts => Enabled)'
<1>1. input' = input /\ runs' = runs
  BY DEF OnlyOf
<1>2. ASSUME NEW t \in System \ {s} PROVE SystemSound(t)'
  <2>1. /\ stage'[t] = stage[t] /\ attribute'[t] = attribute[t] /\ registered'[t] = registered[t]
        /\ StageSound(t) /\ TcpSound(t) /\ FilesSound(t)
    BY DEF OnlyOf, FilesInv
  <2>2. stage[t] \in AfterConstruct => /\ finished'[FileOf(t)] = finished[FileOf(t)]
                                       /\ timing'[FileOf(t)] = timing[FileOf(t)]
                                       /\ results'[FileOf(t)] = results[FileOf(t)]
    BY FilesAreSeparate, FilesAreFiles DEF OnlyOf, FilesInv
  <2>3. StageSound(t)'
    BY <1>1, <2>1, InputKept DEF StageSound
  <2>4. TcpSound(t)'
    BY <1>1, <2>1, InputKept DEF TcpSound
  <2>5. FilesSound(t)'
    <3>1. FileOf(t)' = FileOf(t) /\ Enabled' = Enabled
      BY <1>1, InputKept
    <3> QED BY <1>1, <2>1, <2>2, <3>1
            DEF FilesSound, AfterConstruct, AfterTopology, AfterSchedule
  <2> QED BY <2>3, <2>4, <2>5 DEF SystemSound
<1>3. Enabled' = Enabled
  BY <1>1, InputKept
<1>4. ASSUME NEW f \in File \ {FileOf(s)} PROVE YesSound(f)'
  <2>1. finished'[f] = finished[f] /\ timing'[f] = timing[f] /\ results'[f] = results[f]
    BY DEF OnlyOf
  <2>2. finished[f].run \in withBursts' =>
          finished[f].run \in withBursts \/ (finished[f].run = runs /\ Enabled)
    BY DEF OnlyOf
  <2> QED BY <1>1, <1>3, <2>1, <2>2 DEF YesSound, FilesInv
<1>5. (runs \in withBursts => Enabled)'
  BY <1>1, <1>3 DEF OnlyOf, FilesInv
<1> QED BY <1>2, <1>4, <1>5

LEMMA OneSystemKeeps ==
  ASSUME FilesInv, NEW s \in System, OnlyOf(s), BasicTyped',
         SystemSound(s)', YesSound(FileOf(s))'
  PROVE  FilesInv'
<1>1. /\ \A t \in System \ {s} : SystemSound(t)'
      /\ \A f \in File \ {FileOf(s)} : YesSound(f)'
      /\ (runs \in withBursts => Enabled)'
  BY OthersKeep
<1>2. \A t \in System : SystemSound(t)'
  BY <1>1
<1>3. FileOf(s)' = FileOf(s)
  BY InputKept DEF OnlyOf
<1>4. \A f \in File : YesSound(f)'
  BY <1>1, <1>3
<1> QED BY <1>1, <1>2, <1>4 DEF FilesInv, SystemSound

(* A step of one system that writes no file.                                 *)
LEMMA QuietStepKeeps ==
  ASSUME FilesInv, NEW s \in System, NEW next \in Stage, Goto(s, next),
         UNCHANGED <<input, runs, now, finished, timing, results, withBursts, registered>>,
         attribute' = [t \in System |-> attribute'[t]],
         \A t \in System \ {s} : attribute'[t] = attribute[t],
         SystemSound(s)'
  PROVE  FilesInv'
<1>1. stage' = [stage EXCEPT ![s] = next] /\ stage' \in [System -> Stage]
  BY DEF Goto, FilesInv, BasicTyped
<1>2. BasicTyped'
  BY <1>1 DEF FilesInv, BasicTyped
<1>3. OnlyOf(s)
  BY <1>1 DEF OnlyOf, FilesInv, BasicTyped
<1>4. YesSound(FileOf(s))'
  <2>1. FileOf(s)' = FileOf(s) /\ Enabled' = Enabled
    BY InputKept
  <2>2. YesSound(FileOf(s))
    BY FilesAreFiles DEF FilesInv
  <2> QED BY <2>1, <2>2 DEF YesSound
<1> QED BY <1>2, <1>3, <1>4, OneSystemKeeps

(* A system that threw or was killed is bound to nothing.                    *)
LEMMA DeadIsSound ==
  ASSUME FilesInv, NEW s \in System, UNCHANGED <<input, runs>>, stage'[s] = "dead", stage[s] # "none"
  PROVE  SystemSound(s)'
BY DEF FilesInv, SystemSound, StageSound, TcpSound, FilesSound, AfterConstruct, AfterTopology,
       AfterSchedule

LEMMA ReadConfigKeeps ==
  ASSUME FilesInv, NEW s \in System, ReadConfigAndConfigureSimulation(s), UNCHANGED bursts
  PROVE  FilesInv'
<1>1. /\ stage[s] = "construct" /\ UNCHANGED <<input, runs, now, attribute>>
      /\ UNCHANGED <<finished, timing, results, withBursts, registered>>
      /\ stage \in [System -> Stage] /\ SystemSound(s) /\ attribute = [t \in System |-> attribute[t]]
  BY DEF ReadConfigAndConfigureSimulation, files, bursts, memory, FilesInv, BasicTyped, SystemSound
<1>2. CASE ThrowIn(s, "setup")
  <2>1. Goto(s, "dead") /\ stage'[s] = "dead" /\ "dead" \in Stage
    BY <1>1, <1>2 DEF ThrowIn, Goto, Stage
  <2>2. SystemSound(s)'
    BY <1>1, <2>1, DeadIsSound
  <2> QED BY <1>1, <2>1, <2>2, QuietStepKeeps
<1>3. CASE /\ Goto(s, "prepare") /\ IsBoolean(Flag("enable_distributed"))
           /\ Distributed => IsDistribution
  <2>1. stage'[s] = "prepare" /\ "prepare" \in Stage
    BY <1>1, <1>3 DEF Goto, Stage, AfterConstruct
  <2>2. input.np = 1 \/ Distributed
    BY <1>3, InputAssumption DEF FilesInv, BasicTyped, Distributed, Flag, config
  <2>3. Distributed' = Distributed /\ IsDistribution' = IsDistribution
    BY <1>1, InputKept
  <2>4. SystemSound(s)'
    BY <1>1, <1>3, <2>1, <2>2, <2>3
       DEF SystemSound, StageSound, TcpSound, FilesSound, AfterTopology, AfterSchedule
  <2> QED BY <1>1, <1>3, <2>1, <2>4, QuietStepKeeps
<1> QED BY <1>2, <1>3 DEF ReadConfigAndConfigureSimulation

LEMMA LoadTopologyKeeps ==
  ASSUME FilesInv, NEW s \in System, LoadTopology(s), UNCHANGED bursts
  PROVE  FilesInv'
<1>1. /\ stage[s] = "topology" /\ UNCHANGED <<input, runs, now, attribute>>
      /\ UNCHANGED <<finished, timing, results, withBursts, registered>>
      /\ stage \in [System -> Stage] /\ SystemSound(s) /\ attribute = [t \in System |-> attribute[t]]
  BY DEF LoadTopology, files, bursts, memory, FilesInv, BasicTyped, SystemSound
<1>2. CASE ThrowIn(s, "setup")
  <2>1. Goto(s, "dead") /\ stage'[s] = "dead" /\ "dead" \in Stage
    BY <1>1, <1>2 DEF ThrowIn, Goto, Stage
  <2>2. SystemSound(s)'
    BY <1>1, <2>1, DeadIsSound
  <2> QED BY <1>1, <2>1, <2>2, QuietStepKeeps
<1>3. CASE Goto(s, "tcp") /\ (Distributed => Len(Assignment) = NumNodes)
  <2>1. stage'[s] = "tcp" /\ "tcp" \in Stage
    BY <1>1, <1>3 DEF Goto, Stage, AfterConstruct, AfterTopology
  <2>2. /\ Distributed' = Distributed /\ IsDistribution' = IsDistribution
        /\ Assignment' = Assignment /\ FileOf(s)' = FileOf(s)
    BY <1>1, InputKept
  <2>3. SystemSound(s)'
    BY <1>1, <1>3, <2>1, <2>2
       DEF SystemSound, StageSound, TcpSound, FilesSound, AfterConstruct, AfterTopology, AfterSchedule
  <2> QED BY <1>1, <1>3, <2>1, <2>3, QuietStepKeeps
<1> QED BY <1>2, <1>3 DEF LoadTopology

LEMMA ConfigureTcpKeeps ==
  ASSUME FilesInv, NEW s \in System, ConfigureTcp(s), UNCHANGED bursts
  PROVE  FilesInv'
<1> DEFINE table == Configured(attribute[s], config)
<1>1. /\ stage[s] = "tcp" /\ UNCHANGED <<input, runs, now>>
      /\ UNCHANGED <<finished, timing, results, withBursts, registered>>
      /\ stage \in [System -> Stage] /\ SystemSound(s) /\ attribute = [t \in System |-> attribute[t]]
      /\ attribute[s] = Default
  BY DEF ConfigureTcp, files, bursts, memory, FilesInv, BasicTyped, SystemSound, TcpSound
<1>2. CASE ThrowIn(s, "setup") /\ UNCHANGED attribute
  <2>1. Goto(s, "dead") /\ stage'[s] = "dead" /\ "dead" \in Stage
    BY <1>1, <1>2 DEF ThrowIn, Goto, Stage
  <2>2. SystemSound(s)'
    BY <1>1, <2>1, DeadIsSound
  <2> QED BY <1>1, <1>2, <2>1, <2>2, QuietStepKeeps
<1> HIDE DEF table
<1>3. CASE Goto(s, "schedulers") /\ attribute' = [attribute EXCEPT ![s] = table] /\ table # <<>>
  <2>1. stage'[s] = "schedulers" /\ "schedulers" \in Stage
    BY <1>1, <1>3 DEF Goto, Stage, AfterConstruct, AfterTopology
  <2>2. /\ Distributed' = Distributed /\ IsDistribution' = IsDistribution /\ config' = config
        /\ Assignment' = Assignment /\ FileOf(s)' = FileOf(s)
    BY <1>1, InputKept
  <2>3. attribute'[s] = Configured(Default, config) /\ Configured(Default, config) # <<>>
    BY <1>1, <1>3 DEF table
  <2>4. TcpSound(s)'
    BY <2>1, <2>2, <2>3 DEF TcpSound
  <2>5. StageSound(s)' /\ FilesSound(s)'
    BY <1>1, <2>1, <2>2
       DEF SystemSound, StageSound, FilesSound, AfterConstruct, AfterTopology, AfterSchedule
  <2>6. /\ \A t \in System \ {s} : attribute'[t] = attribute[t]
        /\ attribute' = [t \in System |-> attribute'[t]]
    BY <1>1, <1>3
  <2> QED BY <1>1, <1>3, <2>1, <2>4, <2>5, <2>6, QuietStepKeeps DEF SystemSound
<1> QED BY <1>2, <1>3 DEF ConfigureTcp, table

LEMMA RunKeeps ==
  ASSUME FilesInv, NEW s \in System, Run(s), UNCHANGED bursts
  PROVE  FilesInv'
<1>1. /\ stage[s] = "run" /\ UNCHANGED <<input, runs, now, attribute>>
      /\ UNCHANGED <<finished, timing, results, withBursts, registered>>
      /\ stage \in [System -> Stage] /\ SystemSound(s) /\ attribute = [t \in System |-> attribute[t]]
  BY DEF Run, files, bursts, memory, FilesInv, BasicTyped, SystemSound
<1>2. CASE ThrowIn(s, "setup")
  <2>1. Goto(s, "dead") /\ stage'[s] = "dead" /\ "dead" \in Stage
    BY <1>1, <1>2 DEF ThrowIn, Goto, Stage
  <2>2. SystemSound(s)'
    BY <1>1, <2>1, DeadIsSound
  <2> QED BY <1>1, <2>1, <2>2, QuietStepKeeps
<1>3. CASE Goto(s, StageAt(0))
  <2> DEFINE next == StageAt(0)
  <2>1. next \in {"results", "running"}
    BY DEF StageAt
  <2> HIDE DEF next
  <2>2. stage'[s] = next /\ next \in Stage
    BY <1>1, <1>3, <2>1 DEF Goto, Stage, AfterConstruct, AfterTopology, AfterSchedule, next
  <2>3. /\ Distributed' = Distributed /\ IsDistribution' = IsDistribution /\ config' = config
        /\ Assignment' = Assignment /\ FileOf(s)' = FileOf(s) /\ Enabled' = Enabled
        /\ CanSchedule' = CanSchedule /\ Incoming(s)' = Incoming(s)
    BY <1>1, InputKept
  <2>4. StageSound(s)'
    BY <1>1, <2>1, <2>2, <2>3 DEF SystemSound, StageSound, AfterConstruct, AfterTopology, AfterSchedule
  <2>5. TcpSound(s)' /\ FilesSound(s)'
    BY <1>1, <2>1, <2>2, <2>3
       DEF SystemSound, TcpSound, FilesSound, AfterConstruct, AfterTopology, AfterSchedule
  <2> QED BY <1>1, <1>3, <2>2, <2>4, <2>5, QuietStepKeeps DEF SystemSound, next
<1> QED BY <1>2, <1>3 DEF Run

LEMMA CleanUpKeeps ==
  ASSUME FilesInv, NEW s \in System, CleanUpSimulation(s), UNCHANGED bursts
  PROVE  FilesInv'
<1>1. /\ stage[s] = "clean_up" /\ Goto(s, "timing") /\ UNCHANGED <<input, runs, now>>
      /\ attribute' = [attribute EXCEPT ![s] = Default]
      /\ UNCHANGED <<finished, timing, results, withBursts, registered>>
      /\ stage \in [System -> Stage] /\ SystemSound(s) /\ attribute = [t \in System |-> attribute[t]]
  BY DEF CleanUpSimulation, files, bursts, memory, FilesInv, BasicTyped, SystemSound
<1>2. stage'[s] = "timing" /\ "timing" \in Stage
  BY <1>1 DEF Goto, Stage, AfterConstruct, AfterTopology, AfterSchedule
<1>3. /\ Distributed' = Distributed /\ IsDistribution' = IsDistribution
      /\ Assignment' = Assignment /\ FileOf(s)' = FileOf(s) /\ Enabled' = Enabled
      /\ CanSchedule' = CanSchedule /\ Incoming(s)' = Incoming(s)
  BY <1>1, InputKept
<1>4. /\ attribute'[s] = Default /\ \A t \in System \ {s} : attribute'[t] = attribute[t]
      /\ attribute' = [t \in System |-> attribute'[t]]
  BY <1>1
<1>5. StageSound(s)'
  BY <1>1, <1>2, <1>3 DEF SystemSound, StageSound, AfterConstruct, AfterTopology, AfterSchedule
<1>6. TcpSound(s)' /\ FilesSound(s)'
  BY <1>1, <1>2, <1>3, <1>4
     DEF SystemSound, TcpSound, FilesSound, AfterConstruct, AfterTopology, AfterSchedule
<1> QED BY <1>1, <1>2, <1>4, <1>5, <1>6, QuietStepKeeps DEF SystemSound

LEMMA PrepareFilesKeeps ==
  ASSUME FilesInv, NEW s \in System, PrepareBasicSimulationLogFiles(s), UNCHANGED bursts
  PROVE  FilesInv'
<1>1. /\ stage[s] = "prepare" /\ Goto(s, "write_no") /\ UNCHANGED <<input, runs, now, attribute>>
      /\ UNCHANGED <<results, withBursts, registered>>
      /\ finished' = [finished EXCEPT ![FileOf(s)] = Missing]
      /\ timing' = [timing EXCEPT ![FileOf(s)] = 0]
      /\ BasicTyped /\ SystemSound(s) /\ FileOf(s) \in File
  BY FilesAreFiles DEF PrepareBasicSimulationLogFiles, bursts, memory, FilesInv, SystemSound
<1>2. /\ stage'[s] = "write_no" /\ stage' \in [System -> Stage]
      /\ \A t \in System \ {s} : stage'[t] = stage[t]
  BY <1>1 DEF Goto, BasicTyped, Stage, AfterConstruct
<1>3. /\ Distributed' = Distributed /\ IsDistribution' = IsDistribution
      /\ FileOf(s)' = FileOf(s) /\ Enabled' = Enabled
  BY <1>1, InputKept
<1>4. /\ finished'[FileOf(s)] = [is |-> "missing", run |-> 0] /\ timing'[FileOf(s)] = 0
      /\ finished' \in [File -> [is : {"missing", "No", "Yes"}, run : Nat]] /\ timing' \in [File -> Nat]
      /\ \A f \in File \ {FileOf(s)} : finished'[f] = finished[f] /\ timing'[f] = timing[f]
  BY <1>1 DEF BasicTyped, Missing
<1>5. BasicTyped'
  BY <1>1, <1>2, <1>4 DEF BasicTyped
<1>6. OnlyOf(s)
  BY <1>1, <1>2, <1>4 DEF OnlyOf, AfterConstruct
<1>7. SystemSound(s)'
  <2>1. StageSound(s)'
    BY <1>1, <1>2, <1>3 DEF SystemSound, StageSound, AfterConstruct, AfterTopology, AfterSchedule
  <2>2. finished'[FileOf(s)].is # "Yes"
    BY <1>1 DEF Missing, BasicTyped
  <2>3. TcpSound(s)' /\ FilesSound(s)'
    BY <1>1, <1>2, <1>3, <2>2 DEF SystemSound, TcpSound, FilesSound
  <2> QED BY <2>1, <2>3 DEF SystemSound
<1>8. YesSound(FileOf(s))'
  <2>1. finished'[FileOf(s)].is # "Yes"
    BY <1>1 DEF Missing, BasicTyped
  <2>2. finished'[FileOf(s)].run <= runs'
    <3>0. runs \in Nat /\ runs' = runs
      BY <1>1 DEF BasicTyped
    <3>1. \A r \in {0, runs} : r <= runs'
      BY <3>0
    <3>2. finished'[FileOf(s)].run \in {0, runs}
      BY <1>1 DEF Missing, BasicTyped
    <3> QED BY <3>1, <3>2, Zenon
  <2>3. \A f \in File : f = FileOf(s) => YesSound(f)'
    BY <2>1, <2>2 DEF YesSound
  <2> QED BY <1>1, <1>3, <2>3
<1> QED BY <1>5, <1>6, <1>7, <1>8, OneSystemKeeps

LEMMA WriteNoKeeps ==
  ASSUME FilesInv, NEW s \in System, WriteFinished(s, "No", "write_no", "topology"), UNCHANGED bursts
  PROVE  FilesInv'
<1>1. /\ stage[s] = "write_no" /\ Goto(s, "topology") /\ UNCHANGED <<input, runs, now, attribute>>
      /\ UNCHANGED <<results, withBursts, registered, timing>>
      /\ finished' = [finished EXCEPT ![FileOf(s)] = [is |-> "No", run |-> runs]]
      /\ BasicTyped /\ SystemSound(s) /\ FileOf(s) \in File
  BY FilesAreFiles DEF WriteFinished, bursts, memory, FilesInv, SystemSound
<1>2. /\ stage'[s] = "topology" /\ stage' \in [System -> Stage]
      /\ \A t \in System \ {s} : stage'[t] = stage[t]
  BY <1>1 DEF Goto, BasicTyped, Stage, AfterConstruct
<1>3. /\ Distributed' = Distributed /\ IsDistribution' = IsDistribution
      /\ FileOf(s)' = FileOf(s) /\ Enabled' = Enabled
  BY <1>1, InputKept
<1>4. /\ finished'[FileOf(s)] = [is |-> "No", run |-> runs]
      /\ finished' \in [File -> [is : {"missing", "No", "Yes"}, run : Nat]]
      /\ \A f \in File \ {FileOf(s)} : finished'[f] = finished[f]
  BY <1>1 DEF BasicTyped
<1>5. BasicTyped'
  BY <1>1, <1>2, <1>4 DEF BasicTyped
<1>6. OnlyOf(s)
  BY <1>1, <1>2, <1>4 DEF OnlyOf, AfterConstruct
<1>7. SystemSound(s)'
  <2>1. StageSound(s)'
    BY <1>1, <1>2, <1>3 DEF SystemSound, StageSound, AfterConstruct, AfterTopology, AfterSchedule
  <2>2. finished'[FileOf(s)].is # "Yes"
    BY <1>1 DEF Missing, BasicTyped
  <2>3. TcpSound(s)' /\ FilesSound(s)'
    BY <1>1, <1>2, <1>3, <2>2 DEF SystemSound, TcpSound, FilesSound
  <2> QED BY <2>1, <2>3 DEF SystemSound
<1>8. YesSound(FileOf(s))'
  <2>1. finished'[FileOf(s)].is # "Yes"
    BY <1>1 DEF Missing, BasicTyped
  <2>2. finished'[FileOf(s)].run <= runs'
    <3>0. runs \in Nat /\ runs' = runs
      BY <1>1 DEF BasicTyped
    <3>1. \A r \in {0, runs} : r <= runs'
      BY <3>0
    <3>2. finished'[FileOf(s)].run \in {0, runs}
      BY <1>1 DEF Missing, BasicTyped
    <3> QED BY <3>1, <3>2, Zenon
  <2>3. \A f \in File : f = FileOf(s) => YesSound(f)'
    BY <2>1, <2>2 DEF YesSound
  <2> QED BY <1>1, <1>3, <2>3
<1> QED BY <1>5, <1>6, <1>7, <1>8, OneSystemKeeps

LEMMA StoreTimingKeeps ==
  ASSUME FilesInv, NEW s \in System, StoreTimingResults(s), UNCHANGED bursts
  PROVE  FilesInv'
<1>1. /\ stage[s] = "timing" /\ Goto(s, "write_yes") /\ UNCHANGED <<input, runs, now, attribute>>
      /\ UNCHANGED <<results, withBursts, registered, finished>>
      /\ timing' = [timing EXCEPT ![FileOf(s)] = runs]
      /\ BasicTyped /\ SystemSound(s) /\ FileOf(s) \in File
  BY FilesAreFiles DEF StoreTimingResults, bursts, memory, FilesInv, SystemSound
<1>2. /\ stage'[s] = "write_yes" /\ stage' \in [System -> Stage]
      /\ \A t \in System \ {s} : stage'[t] = stage[t]
  BY <1>1 DEF Goto, BasicTyped, Stage, AfterConstruct, AfterTopology, AfterSchedule
<1>3. /\ Distributed' = Distributed /\ IsDistribution' = IsDistribution
      /\ Assignment' = Assignment /\ FileOf(s)' = FileOf(s) /\ Enabled' = Enabled
      /\ CanSchedule' = CanSchedule /\ Incoming(s)' = Incoming(s)
  BY <1>1, InputKept
<1>4. /\ timing'[FileOf(s)] = runs /\ timing' \in [File -> Nat]
      /\ \A f \in File \ {FileOf(s)} : timing'[f] = timing[f]
  BY <1>1 DEF BasicTyped
<1>5. BasicTyped'
  BY <1>1, <1>2, <1>4 DEF BasicTyped
<1>6. OnlyOf(s)
  BY <1>1, <1>2, <1>4 DEF OnlyOf, AfterConstruct, AfterTopology, AfterSchedule
<1>7. StageSound(s)'
  BY <1>1, <1>2, <1>3 DEF SystemSound, StageSound, AfterConstruct, AfterTopology, AfterSchedule
<1>8. TcpSound(s)' /\ FilesSound(s)'
  BY <1>1, <1>2, <1>3, <1>4
     DEF SystemSound, TcpSound, FilesSound, AfterConstruct, AfterTopology, AfterSchedule
<1>9. YesSound(FileOf(s))'
  <2>1. finished[FileOf(s)].is # "Yes" /\ YesSound(FileOf(s))
    BY <1>1 DEF SystemSound, FilesSound, AfterConstruct, AfterTopology, AfterSchedule, FilesInv
  <2> QED BY <1>1, <1>3, <2>1 DEF YesSound
<1> QED BY <1>5, <1>6, <1>7, <1>8, <1>9, OneSystemKeeps DEF SystemSound

LEMMA WriteYesKeeps ==
  ASSUME FilesInv, NEW s \in System, WriteFinished(s, "Yes", "write_yes", "done"), UNCHANGED bursts
  PROVE  FilesInv'
<1>1. /\ stage[s] = "write_yes" /\ Goto(s, "done") /\ UNCHANGED <<input, runs, now, attribute>>
      /\ UNCHANGED <<results, withBursts, registered, timing>>
      /\ finished' = [finished EXCEPT ![FileOf(s)] = [is |-> "Yes", run |-> runs]]
      /\ BasicTyped /\ SystemSound(s) /\ FileOf(s) \in File
  BY FilesAreFiles DEF WriteFinished, bursts, memory, FilesInv, SystemSound
<1>2. /\ stage'[s] = "done" /\ stage' \in [System -> Stage]
      /\ \A t \in System \ {s} : stage'[t] = stage[t]
  BY <1>1 DEF Goto, BasicTyped, Stage, AfterConstruct, AfterTopology, AfterSchedule
<1>3. /\ Distributed' = Distributed /\ IsDistribution' = IsDistribution
      /\ Assignment' = Assignment /\ FileOf(s)' = FileOf(s) /\ Enabled' = Enabled
      /\ CanSchedule' = CanSchedule /\ Incoming(s)' = Incoming(s)
  BY <1>1, InputKept
<1>4. /\ finished'[FileOf(s)] = [is |-> "Yes", run |-> runs]
      /\ finished' \in [File -> [is : {"missing", "No", "Yes"}, run : Nat]]
      /\ \A f \in File \ {FileOf(s)} : finished'[f] = finished[f]
  BY <1>1 DEF BasicTyped
<1>5. BasicTyped'
  BY <1>1, <1>2, <1>4 DEF BasicTyped
<1>6. OnlyOf(s)
  BY <1>1, <1>2, <1>4 DEF OnlyOf, AfterConstruct, AfterTopology, AfterSchedule
<1>7. StageSound(s)'
  BY <1>1, <1>2, <1>3 DEF SystemSound, StageSound, AfterConstruct, AfterTopology, AfterSchedule
<1>8. TcpSound(s)' /\ FilesSound(s)'
  BY <1>1, <1>2, <1>3, <1>4
     DEF SystemSound, TcpSound, FilesSound, AfterConstruct, AfterTopology, AfterSchedule
<1>9. YesSound(FileOf(s))'
  <2>1. timing[FileOf(s)] = runs /\ (Enabled => results[FileOf(s)] = runs)
    BY <1>1 DEF SystemSound, FilesSound
  <2>2. runs \in withBursts => Enabled
    BY DEF FilesInv
  <2>3. finished'[FileOf(s)].is = "Yes" /\ finished'[FileOf(s)].run = runs /\ runs \in Nat
    BY <1>1, <1>4 DEF BasicTyped
  <2>4. /\ timing' = timing /\ results' = results /\ withBursts' = withBursts
        /\ runs' = runs /\ runs <= runs
    BY <1>1, <2>3
  <2>5. \A f \in File : f = FileOf(s) => YesSound(f)'
    BY <1>3, <2>1, <2>2, <2>3, <2>4 DEF YesSound
  <2> QED BY <1>1, <1>3, <2>5
<1> QED BY <1>5, <1>6, <1>7, <1>8, <1>9, OneSystemKeeps DEF SystemSound

LEMMA BasicStepKeeps ==
  ASSUME FilesInv, NEW s \in System, BasicStep(s), UNCHANGED bursts
  PROVE  FilesInv'
BY ReadConfigKeeps, PrepareFilesKeeps, WriteNoKeeps, LoadTopologyKeeps, ConfigureTcpKeeps,
   RunKeeps, CleanUpKeeps, StoreTimingKeeps, WriteYesKeeps DEF BasicStep

LEMMA NewSchedulerKeeps ==
  ASSUME FilesInv, NEW s \in System, NewUdpBurstScheduler(s)
  PROVE  FilesInv'
<1>1. /\ stage[s] = "schedulers" /\ UNCHANGED <<input, runs, now, attribute, finished, timing>>
      /\ BasicTyped /\ SystemSound(s) /\ FileOf(s) \in File
      /\ attribute = [t \in System |-> attribute[t]] /\ runs \in Nat
  BY FilesAreFiles DEF NewUdpBurstScheduler, files, FilesInv, SystemSound, BasicTyped
<1>2. /\ Distributed' = Distributed /\ IsDistribution' = IsDistribution /\ config' = config
      /\ Assignment' = Assignment /\ FileOf(s)' = FileOf(s) /\ Enabled' = Enabled
      /\ CanSchedule' = CanSchedule /\ Incoming(s)' = Incoming(s)
  BY <1>1, InputKept
<1>3. CASE ~CanSchedule
  <2>1. /\ Goto(s, "dead") /\ stage'[s] = "dead" /\ "dead" \in Stage
        /\ UNCHANGED <<results, withBursts, registered>>
    BY <1>1, <1>3 DEF NewUdpBurstScheduler, ThrowIn, Goto, Stage, BasicTyped
  <2>2. SystemSound(s)'
    BY <1>1, <2>1, DeadIsSound
  <2> QED BY <1>1, <2>1, <2>2, QuietStepKeeps
<1>4. CASE CanSchedule /\ ~Enabled
  <2>1. /\ Goto(s, "run") /\ stage'[s] = "run" /\ "run" \in Stage
        /\ UNCHANGED <<results, withBursts, registered>>
    BY <1>1, <1>4 DEF NewUdpBurstScheduler, Goto, Stage, BasicTyped, AfterConstruct,
                      AfterTopology, AfterSchedule
  <2>2. SystemSound(s)'
    BY <1>1, <1>2, <1>4, <2>1 DEF SystemSound, StageSound, TcpSound, FilesSound, AfterConstruct,
                                  AfterTopology, AfterSchedule
  <2> QED BY <1>1, <2>1, <2>2, QuietStepKeeps
<1>5. CASE CanSchedule /\ Enabled
  <2>1. /\ Goto(s, "run") /\ results' = [results EXCEPT ![FileOf(s)] = 0]
        /\ withBursts' = withBursts \cup {runs} /\ registered' = [registered EXCEPT ![s] = Incoming(s)]
    BY <1>5 DEF NewUdpBurstScheduler, PrepareBursts, Register
  <2>2. /\ stage'[s] = "run" /\ stage' \in [System -> Stage]
        /\ \A t \in System \ {s} : stage'[t] = stage[t]
    BY <1>1, <2>1 DEF Goto, BasicTyped, Stage, AfterConstruct, AfterTopology, AfterSchedule
  <2>3. results' \in [File -> Nat] /\ \A f \in File \ {FileOf(s)} : results'[f] = results[f]
    BY <1>1, <2>1 DEF BasicTyped
  <2>4. runs \in 1 .. runs
    <3>1. runs # 0
      BY <1>1 DEF SystemSound, StageSound
    <3> QED BY <1>1, <3>1
  <2>5. BasicTyped'
    BY <1>1, <2>1, <2>2, <2>3, <2>4 DEF BasicTyped
  <2>6. OnlyOf(s)
    BY <1>1, <1>5, <2>1, <2>2, <2>3 DEF OnlyOf, AfterConstruct, AfterTopology, BasicTyped
  <2>7. StageSound(s)'
    <3>1. registered'[s] = Incoming(s)
      BY <1>1, <2>1 DEF BasicTyped
    <3> QED BY <1>1, <1>2, <1>5, <2>2, <3>1
            DEF SystemSound, StageSound, AfterConstruct, AfterTopology, AfterSchedule
  <2>8. TcpSound(s)' /\ FilesSound(s)'
    BY <1>1, <1>2, <2>2
       DEF SystemSound, TcpSound, FilesSound, AfterConstruct, AfterTopology, AfterSchedule
  <2>9. YesSound(FileOf(s))'
    <3>1. finished[FileOf(s)].is # "Yes" /\ YesSound(FileOf(s))
      BY <1>1 DEF SystemSound, FilesSound, AfterConstruct, AfterTopology, FilesInv
    <3> QED BY <1>1, <1>2, <3>1 DEF YesSound
  <2> QED BY <2>5, <2>6, <2>7, <2>8, <2>9, OneSystemKeeps DEF SystemSound
<1> QED BY <1>3, <1>4, <1>5

(* A step that is about packets and applications only.                       *)
LEMMA FilesStay ==
  ASSUME FilesInv, UNCHANGED <<basic, registered, results, withBursts>>
  PROVE  FilesInv'
<1>1. /\ UNCHANGED <<input, runs, now, stage, attribute, finished, timing>>
      /\ UNCHANGED <<registered, results, withBursts>>
  BY DEF basic, process, files
<1>2. BasicTyped'
  BY <1>1 DEF FilesInv, BasicTyped
<1>3. \A s \in System : StageSound(s)' /\ TcpSound(s)'
  BY <1>1, InputKept DEF FilesInv, StageSound, TcpSound
<1>4. \A s \in System : FilesSound(s)'
  BY <1>1, InputKept DEF FilesInv, FilesSound
<1>5. (\A f \in File : YesSound(f)') /\ (runs \in withBursts => Enabled)'
  BY <1>1, InputKept DEF FilesInv, YesSound
<1> QED BY <1>2, <1>3, <1>4, <1>5 DEF FilesInv

LEMMA ArriveFilesKeep ==
  ASSUME FilesInv, NEW m \in net, Arrive(m)
  PROVE  FilesInv'
<1>1. PICK s \in System : s < input.np /\ HandleRead(s, m)
  BY DEF Arrive
<1>2. /\ UNCHANGED <<input, runs, now, requested, attribute, finished, timing>>
      /\ UNCHANGED <<registered, results, withBursts>>
      /\ attribute = [t \in System |-> attribute[t]] /\ stage \in [System -> Stage]
  BY DEF Arrive, files, FilesInv, BasicTyped
<1>3. CASE UNCHANGED <<stage, threw>>
  BY <1>2, <1>3, FilesStay DEF basic, process, files
<1>4. CASE ThrowIn(s, "simulation")
  <2>1. Goto(s, "dead") /\ stage'[s] = "dead" /\ "dead" \in Stage
    BY <1>2, <1>4 DEF ThrowIn, Goto, Stage
  <2>2. stage[s] = "running"
    <3>1. s \in Nat
      BY FilesAreFiles DEF System
    <3>2. s \in 0 .. input.np - 1
      BY <1>1, <3>1, InputAssumption DEF FilesInv, BasicTyped
    <3> QED BY <3>2 DEF Arrive, Simulating
  <2>3. SystemSound(s)'
    BY <1>2, <2>1, <2>2, DeadIsSound
  <2> QED BY <1>2, <2>1, <2>3, QuietStepKeeps
<1> QED BY <1>1, <1>3, <1>4 DEF HandleRead

LEMMA TickKeeps ==
  ASSUME FilesInv, Tick
  PROVE  FilesInv'
<1>1. /\ UNCHANGED <<input, runs, attribute, finished, timing, registered, results, withBursts>>
      /\ now' = now + 1
      /\ stage' = [s \in System |-> IF stage[s] = "running" THEN StageAt(now + 1) ELSE stage[s]]
  BY DEF Tick, Advance, bursts, memory, files
<1>2. StageAt(now + 1) \in {"results", "running"}
  BY DEF StageAt
<1>3. \A s \in System : \/ stage'[s] = stage[s]
                        \/ stage[s] = "running" /\ stage'[s] \in {"results", "running"}
  <2> TAKE s \in System
  <2>1. stage'[s] = IF stage[s] = "running" THEN StageAt(now + 1) ELSE stage[s]
    BY <1>1
  <2>2. CASE stage[s] = "running"
    BY <1>2, <2>1, <2>2
  <2>3. CASE stage[s] # "running"
    BY <2>1, <2>3
  <2> QED BY <2>2, <2>3
<1>4. BasicTyped'
  <2>1. stage' \in [System -> Stage]
    BY <1>1, <1>2 DEF FilesInv, BasicTyped, Stage, AfterConstruct, AfterTopology, AfterSchedule
  <2>2. now' \in Nat
    BY <1>1 DEF FilesInv, BasicTyped
  <2> QED BY <1>1, <2>1, <2>2 DEF FilesInv, BasicTyped
<1>5. /\ Distributed' = Distributed /\ IsDistribution' = IsDistribution /\ config' = config
      /\ Assignment' = Assignment /\ Enabled' = Enabled /\ CanSchedule' = CanSchedule
      /\ \A s : FileOf(s)' = FileOf(s) /\ Incoming(s)' = Incoming(s)
  BY <1>1, InputKept
<1>6. ASSUME NEW s \in System PROVE StageSound(s)' /\ TcpSound(s)' /\ FilesSound(s)'
  <2>1. StageSound(s) /\ TcpSound(s) /\ FilesSound(s)
    BY DEF FilesInv
  <2>2. StageSound(s)'
    BY <1>1, <1>3, <1>5, <2>1 DEF StageSound, AfterConstruct, AfterTopology, AfterSchedule
  <2>3. TcpSound(s)'
    BY <1>1, <1>3, <1>5, <2>1 DEF TcpSound
  <2>4. FilesSound(s)'
    BY <1>1, <1>3, <1>5, <2>1 DEF FilesSound, AfterConstruct, AfterTopology, AfterSchedule
  <2> QED BY <2>2, <2>3, <2>4
<1>7. (\A f \in File : YesSound(f)') /\ (runs \in withBursts => Enabled)'
  BY <1>1, <1>5 DEF FilesInv, YesSound
<1> QED BY <1>4, <1>6, <1>7 DEF FilesInv

LEMMA WriteResultsKeeps ==
  ASSUME FilesInv, NEW s \in System, WriteResults(s)
  PROVE  FilesInv'
<1>1. /\ stage[s] = "results" /\ Goto(s, "clean_up") /\ BasicTyped /\ SystemSound(s)
      /\ UNCHANGED <<input, runs, now, attribute, finished, timing, registered, withBursts>>
      /\ FileOf(s) \in File
  BY FilesAreFiles DEF WriteResults, files, FilesInv, SystemSound
<1>2. /\ Distributed' = Distributed /\ IsDistribution' = IsDistribution
      /\ Assignment' = Assignment /\ FileOf(s)' = FileOf(s) /\ Enabled' = Enabled
      /\ CanSchedule' = CanSchedule /\ Incoming(s)' = Incoming(s)
  BY <1>1, InputKept
<1>3. /\ stage'[s] = "clean_up" /\ stage' \in [System -> Stage]
      /\ \A t \in System \ {s} : stage'[t] = stage[t]
  BY <1>1 DEF Goto, BasicTyped, Stage, AfterConstruct, AfterTopology, AfterSchedule
<1>4. \/ ~Enabled /\ results' = results
      \/ Enabled /\ results' = [results EXCEPT ![FileOf(s)] = runs]
  BY DEF WriteResults
<1>5. /\ results' \in [File -> Nat] /\ (Enabled => results'[FileOf(s)] = runs)
      /\ \A f \in File \ {FileOf(s)} : results'[f] = results[f]
  BY <1>1, <1>4 DEF BasicTyped
<1>6. BasicTyped'
  BY <1>1, <1>3, <1>5 DEF BasicTyped
<1>7. OnlyOf(s)
  BY <1>1, <1>3, <1>5 DEF OnlyOf, AfterConstruct, AfterTopology, AfterSchedule
<1>8. StageSound(s)'
  BY <1>1, <1>2, <1>3 DEF SystemSound, StageSound, AfterConstruct, AfterTopology, AfterSchedule
<1>9. TcpSound(s)' /\ FilesSound(s)'
  BY <1>1, <1>2, <1>3, <1>5
     DEF SystemSound, TcpSound, FilesSound, AfterConstruct, AfterTopology, AfterSchedule
<1>10. YesSound(FileOf(s))'
  <2>1. finished[FileOf(s)].is # "Yes" /\ YesSound(FileOf(s))
    BY <1>1 DEF SystemSound, FilesSound, AfterConstruct, AfterTopology, AfterSchedule, FilesInv
  <2> QED BY <1>1, <1>2, <2>1 DEF YesSound
<1> QED BY <1>6, <1>7, <1>8, <1>9, <1>10, OneSystemKeeps DEF SystemSound

LEMMA KillKeeps ==
  ASSUME FilesInv, Kill, UNCHANGED bursts
  PROVE  FilesInv'
<1>1. /\ UNCHANGED <<input, runs, now, attribute, finished, timing, registered, results, withBursts>>
      /\ stage' = [s \in System |-> IF Over(s) THEN stage[s] ELSE "dead"]
  BY DEF Kill, bursts, memory, files
<1>2. \A s \in System : \/ stage'[s] = stage[s]
                        \/ stage[s] # "none" /\ stage'[s] = "dead"
  <2> TAKE s \in System
  <2>1. stage'[s] = IF Over(s) THEN stage[s] ELSE "dead"
    BY <1>1
  <2>2. CASE Over(s)
    BY <2>1, <2>2
  <2>3. CASE ~Over(s)
    BY <2>1, <2>3 DEF Over
  <2> QED BY <2>2, <2>3
<1>3. BasicTyped'
  <2>1. stage' \in [System -> Stage]
    BY <1>1 DEF FilesInv, BasicTyped, Stage
  <2> QED BY <1>1, <2>1 DEF FilesInv, BasicTyped
<1>4. /\ Distributed' = Distributed /\ IsDistribution' = IsDistribution /\ config' = config
      /\ Assignment' = Assignment /\ Enabled' = Enabled /\ CanSchedule' = CanSchedule
      /\ \A s : FileOf(s)' = FileOf(s) /\ Incoming(s)' = Incoming(s)
  BY <1>1, InputKept
<1>5. ASSUME NEW s \in System PROVE StageSound(s)' /\ TcpSound(s)' /\ FilesSound(s)'
  <2>1. CASE stage'[s] = stage[s]
    BY <1>1, <1>4, <2>1 DEF FilesInv, StageSound, TcpSound, FilesSound
  <2>2. CASE stage[s] # "none" /\ stage'[s] = "dead"
    BY <1>1, <2>2, DeadIsSound DEF SystemSound
  <2> QED BY <1>2, <2>1, <2>2
<1>6. (\A f \in File : YesSound(f)') /\ (runs \in withBursts => Enabled)'
  BY <1>1, <1>4 DEF FilesInv, YesSound
<1> QED BY <1>3, <1>5, <1>6 DEF FilesInv

LEMMA LaunchKeeps ==
  ASSUME FilesInv, NEW in \in Input, Launch(in), FreshMemory, UNCHANGED <<results, withBursts>>
  PROVE  FilesInv'
<1>1. /\ runs' = runs + 1 /\ input' = in /\ now' = 0
      /\ stage' = [s \in System |-> IF s < in.np THEN "construct" ELSE "none"]
      /\ registered' = [s \in System |-> {}]
      /\ UNCHANGED <<finished, timing, results, withBursts>>
      /\ runs \in Nat /\ withBursts \subseteq 1 .. runs /\ attribute = [s \in System |-> attribute[s]]
  BY DEF Launch, FreshMemory, files, FilesInv, BasicTyped
<1>2. attribute' = [s \in System |-> attribute'[s]] /\ \A s \in System : attribute'[s] = Default
  <2>1. CASE attribute' = [s \in System |-> Default]
    BY <2>1
  <2>2. CASE stage[0] = "done" /\ (\A s \in System \ {0} : stage[s] = "none") /\ UNCHANGED attribute
    BY <1>1, <2>2 DEF FilesInv, TcpSound
  <2> QED BY <2>1, <2>2 DEF Launch
<1>3. \A s \in System : (stage'[s] = "construct" /\ s < in.np) \/ stage'[s] = "none"
  BY <1>1
<1>4. BasicTyped'
  <2>1. stage' \in [System -> Stage]
    BY <1>1 DEF Stage
  <2>2. runs' \in Nat /\ now' \in Nat /\ withBursts' \subseteq 1 .. runs'
    BY <1>1
  <2> QED BY <1>1, <1>2, <2>1, <2>2 DEF FilesInv, BasicTyped
<1>5. ASSUME NEW s \in System PROVE StageSound(s)' /\ TcpSound(s)' /\ FilesSound(s)'
  BY <1>1, <1>2, <1>3 DEF StageSound, TcpSound, FilesSound, AfterConstruct, AfterTopology,
                          AfterSchedule
<1>6. runs' \notin withBursts
  BY <1>1
<1>7. ASSUME NEW f \in File PROVE YesSound(f)'
  <2>1. finished[f].run \in Nat /\ finished[f].run <= runs
    BY DEF FilesInv, BasicTyped, YesSound
  <2>2. finished[f].run <= runs' /\ finished[f].run # runs'
    BY <1>1, <2>1
  <2> QED BY <1>1, <2>2 DEF FilesInv, YesSound
<1> QED BY <1>1, <1>4, <1>5, <1>6, <1>7 DEF FilesInv

LEMMA FilesNext == FilesInv /\ [Next]_vars => FilesInv'
<1> SUFFICES ASSUME FilesInv, [Next]_vars PROVE FilesInv'
  OBVIOUS
<1>1. ASSUME NEW in \in Input, Launch(in), FreshMemory, UNCHANGED <<outLog, inLog, results, withBursts>>
      PROVE FilesInv'
  BY <1>1, LaunchKeeps
<1>2. CASE Kill /\ UNCHANGED bursts
  BY <1>2, KillKeeps
<1>3. ASSUME NEW s \in System, BasicStep(s), UNCHANGED bursts PROVE FilesInv'
  BY <1>3, BasicStepKeeps
<1>4. ASSUME NEW s \in System, NewUdpBurstScheduler(s) \/ WriteResults(s) PROVE FilesInv'
  BY <1>4, NewSchedulerKeeps, WriteResultsKeeps
<1>5. ASSUME NEW s \in System, StartNextUdpBurst(s) PROVE FilesInv'
  BY <1>5, FilesStay DEF StartNextUdpBurst
<1>6. ASSUME NEW i \in Id, StartApplication(i) \/ Send(i) PROVE FilesInv'
  BY <1>6, FilesStay DEF StartApplication, Send
<1>7. ASSUME NEW m \in net, Arrive(m) PROVE FilesInv'
  BY <1>7, ArriveFilesKeep
<1>8. ASSUME NEW m \in net, Lose(m) PROVE FilesInv'
  BY <1>8, FilesStay DEF Lose
<1>9. CASE Tick
  BY <1>9, TickKeeps
<1>10. CASE UNCHANGED vars
  BY <1>10, FilesStay DEF vars, bursts, memory
<1> QED BY <1>1, <1>2, <1>3, <1>4, <1>5, <1>6, <1>7, <1>8, <1>9, <1>10 DEF Next

LEMMA FilesInit == Init => FilesInv
<1> SUFFICES ASSUME Init PROVE FilesInv
  OBVIOUS
<1>1. /\ input \in Input /\ runs = 0 /\ now = 0 /\ stage = [s \in System |-> "none"]
      /\ attribute = [s \in System |-> Default] /\ registered = [s \in System |-> {}]
      /\ finished = [f \in File |-> [is |-> "missing", run |-> 0]] /\ timing = [f \in File |-> 0]
      /\ results = [f \in File |-> 0] /\ withBursts = {}
  BY DEF Init, BasicInit, Missing
<1>2. BasicTyped
  BY <1>1 DEF BasicTyped, Stage
<1>3. ASSUME NEW s \in System PROVE StageSound(s) /\ TcpSound(s) /\ FilesSound(s)
  BY <1>1 DEF StageSound, TcpSound, FilesSound, AfterConstruct, AfterTopology, AfterSchedule
<1>4. \A f \in File : YesSound(f)
  BY <1>1 DEF YesSound
<1> QED BY <1>1, <1>2, <1>3, <1>4 DEF FilesInv

-----------------------------------------------------------------------------
(* The theorems about the run directory and the TCP attributes.              *)

LEMMA FilesAlways == Spec => []FilesInv
BY FilesInit, FilesNext, PTL DEF Spec

(* A finished file that says Yes stands for the results of its run, in any   *)
(* sequence of runs, with and without bursts, of one process or several that *)
(* throw, stop or are killed anywhere.                                       *)
THEOREM FinishedTrue == Spec => []FinishedMeansResults
<1>1. FilesInv => FinishedMeansResults
  BY DEF FilesInv, YesSound, FinishedMeansResults
<1> QED BY <1>1, FilesAlways, PTL

(* Every run simulates with the TCP attributes its own configuration asks    *)
(* for, also when a process hosts one run after the other.                   *)
THEOREM TcpConfigured == Spec => []TcpAsConfigured
<1>1. FilesInv => TcpAsConfigured
  <2> SUFFICES ASSUME FilesInv, NEW s \in System, stage[s] \in {"run", "running"}
               PROVE  CASE Scalar("tcp_config") = "default" -> attribute[s] = Default
                        [] Scalar("tcp_config") = "basic"   -> attribute[s] = Basic
                        [] Scalar("tcp_config") = "custom"  -> attribute[s] = Custom(config)
    BY DEF TcpAsConfigured
  <2>1. attribute[s] = Configured(Default, config) /\ Configured(Default, config) # <<>>
    BY DEF FilesInv, TcpSound
  <2> QED BY <2>1 DEF Configured, Scalar
<1> QED BY <1>1, FilesAlways, PTL

-----------------------------------------------------------------------------
(* The schedule: line by line, and filtered.                                 *)

LEMMA EntryFacts ==
  ASSUME BasicTyped, IsSchedule(input.bursts), NEW k \in DOMAIN input.bursts
  PROVE  /\ k \in Nat /\ k - 1 \in Id /\ Complete[k] = Entry(k - 1)
         /\ Complete[k].id = k - 1 /\ Complete[k].to \in Endpoint
<1>1. /\ input.bursts \in Seq(BurstLine) /\ Len(input.bursts) <= MaxBursts /\ MaxBursts \in Nat
  BY BurstAssumption DEF BasicTyped
<1>2. k \in 1 .. MaxBursts /\ (k - 1) + 1 = k
  BY <1>1
<1>3. input.bursts[k] \in BurstLine
  BY <1>1
<1>4. /\ Complete[k].id = Int64(input.bursts[k].id)
      /\ Complete[k].to = Int64(input.bursts[k].to)
  BY <1>3 DEF Complete, ReadSchedule, BurstLine
<1>5. Int64(input.bursts[k].id) = k - 1 /\ Int64(input.bursts[k].to) \in Endpoint
  BY DEF IsSchedule, IsEntry
<1>6. k - 1 \in Id
  BY <1>1, <1>2 DEF Id
<1> QED BY <1>2, <1>4, <1>5, <1>6 DEF Entry

LEMMA ValidEntry ==
  ASSUME BasicTyped, NEW i \in Id, Valid(i)
  PROVE  Entry(i).id = i /\ Entry(i).to \in Endpoint /\ Entry(i) \in Range(Complete)
<1>1. i + 1 \in DOMAIN input.bursts /\ IsSchedule(input.bursts) /\ i \in Int
  BY BurstAssumption DEF Valid, Id
<1>2. Entry(i) = Complete[i + 1] /\ (i + 1) - 1 = i
  BY <1>1 DEF Entry
<1>3. Complete[i + 1].id = i /\ Complete[i + 1].to \in Endpoint
  BY <1>1, <1>2, EntryFacts
<1>4. i + 1 \in DOMAIN Complete
  BY <1>1 DEF Complete, ReadSchedule
<1> QED BY <1>2, <1>3, <1>4 DEF Range

LEMMA OwnEntriesValid ==
  ASSUME BasicTyped, IsSchedule(input.bursts), Enabled, NEW s
  PROVE  /\ Len(OwnEntries(s)) \in Nat
         /\ OwnEntries(s) # <<>> => 1 \in 1 .. Len(OwnEntries(s))
         /\ \A k \in 1 .. Len(OwnEntries(s)) :
              OwnEntries(s)[k].id \in Id /\ Valid(OwnEntries(s)[k].id)
<1> DEFINE keep == {e \in Range(Complete) : IsOnThisSystem(e.from, s)}
           S == {Complete[k] : k \in DOMAIN Complete}
           own == OwnEntries(s)
           n == Len(input.bursts)
<1>1. input.bursts \in Seq(BurstLine) /\ n \in Nat /\ DOMAIN input.bursts = 1 .. n
  BY BurstAssumption DEF BasicTyped
<1>2. DOMAIN Complete = 1 .. n /\ Complete \in [1 .. n -> S]
  BY <1>1 DEF Complete, ReadSchedule
<1>3. Complete \in Seq(S) /\ Len(Complete) = n
  <2> HIDE DEF S, n
  <2>1. Complete \in Seq(S)
    BY <1>1, <1>2, SeqDef
  <2> QED BY <1>1, <1>2, <2>1, LenProperties
<1>4. own = Kept(Complete, keep)
  BY DEF OwnEntries
<1> HIDE DEF S, keep, own, n
<1>5. own \in Seq(S)
  BY <1>3, <1>4, KeptEmbeds
<1>6. PICK h : Embeds(h, own, Complete, keep, n)
  BY <1>3, <1>4, KeptEmbeds
<1>7. ASSUME NEW k \in 1 .. Len(own) PROVE own[k].id \in Id /\ Valid(own[k].id)
  <2>1. h[k] \in DOMAIN input.bursts /\ own[k] = Complete[h[k]]
    BY <1>1, <1>6 DEF Embeds
  <2>2. own[k].id = h[k] - 1 /\ h[k] - 1 \in Id /\ h[k] \in Nat
    BY <2>1, EntryFacts
  <2> QED BY <2>1, <2>2 DEF Valid
<1>8. Len(own) \in Nat /\ (own # <<>> => 1 \in 1 .. Len(own))
  BY <1>5
<1> QED BY <1>7, <1>8 DEF own

-----------------------------------------------------------------------------
(* The memory of the processes and the logs.                                 *)

(* While the systems simulate, none is still being set up.                   *)
LEMMA SimulatingIsPastSetup ==
  ASSUME FilesInv, Simulating, NEW s \in System
  PROVE  stage[s] \in {"running", "none"} /\ stage[s] \notin Setup
<1>1. s \in Nat
  BY FilesAreFiles DEF System
<1>2. stage[s] # "none" => s \in 0 .. input.np - 1
  BY <1>1, InputAssumption DEF FilesInv, BasicTyped, StageSound
<1>3. stage[s] \in {"running", "none"}
  BY <1>2 DEF Simulating
<1> QED BY <1>3 DEF Setup

MemoryInv == MemoryTyped /\ MemorySound /\ LogsSound

LEMMA EmptiedBefore ==
  ASSUME UNCHANGED input, NEW i, Emptied(i)',
         \A s \in System : stage'[s] \in AfterSchedule => stage[s] \in AfterSchedule
  PROVE  Emptied(i)
<1>1. Valid(i) /\ Entry(i)' = Entry(i)
  BY InputKept DEF Emptied
<1>2. PICK s \in System : stage'[s] \in AfterSchedule /\ IsOnThisSystem(Entry(i).to, s)'
  BY DEF Emptied
<1>3. IsOnThisSystem(Entry(i).to, s)
  BY <1>1, <1>2, InputKept
<1> QED BY <1>1, <1>2, <1>3 DEF Emptied

(* A step that moves stages only.                                            *)
LEMMA StagesMove ==
  ASSUME MemoryInv,
         UNCHANGED <<input, runs, schedule, event, outgoing, startTime, sendAt, sent, received, net>>,
         UNCHANGED <<outLog, inLog>>,
         \A s \in System : /\ stage'[s] \in Setup => stage[s] \in Setup
                           /\ stage'[s] \in AfterSchedule => stage[s] \in AfterSchedule
  PROVE  MemoryInv'
<1>1. MemoryTyped'
  BY DEF MemoryInv, MemoryTyped
<1>2. MemorySound'
  <2>1. \A s \in System : ScheduleSound(s)'
    BY InputKept DEF MemoryInv, MemorySound, ScheduleSound
  <2>2. \A s \in System : \A i \in Range(outgoing'[s]) : Valid(i)'
    BY InputKept DEF MemoryInv, MemorySound
  <2>3. Installed' = Installed
    BY DEF Installed
  <2>4. \A m \in net' : NetSound(m)'
    BY InputKept DEF MemoryInv, MemorySound, NetSound
  <2>5. \A s \in System : stage'[s] \in Setup => Idle'
    BY DEF MemoryInv, MemorySound, Idle
  <2> QED BY <2>1, <2>2, <2>3, <2>4, <2>5 DEF MemoryInv, MemorySound
<1>3. ASSUME NEW i \in Id PROVE OutLogSound(i)' /\ InLogSound(i)'
  <2>1. OutLogSound(i) /\ InLogSound(i) /\ Logged' = Logged
    BY InputKept DEF MemoryInv, LogsSound
  <2>2. Emptied(i)' => Emptied(i)
    BY EmptiedBefore
  <2>3. OutLogSound(i)'
    BY <2>1 DEF OutLogSound
  <2>4. InLogSound(i)'
    BY <2>1, <2>2 DEF InLogSound
  <2> QED BY <2>3, <2>4
<1> QED BY <1>1, <1>2, <1>3 DEF MemoryInv, LogsSound

LEMMA QuietMemory ==
  ASSUME FilesInv, MemoryInv,
         \/ Kill /\ UNCHANGED bursts
         \/ \E s \in System : BasicStep(s) /\ UNCHANGED bursts
         \/ \E s \in System : WriteResults(s)
         \/ Tick
         \/ UNCHANGED vars
  PROVE  MemoryInv'
<1> DEFINE Quiet == /\ UNCHANGED <<input, runs, schedule, event, outgoing, startTime, sendAt, sent>>
                    /\ UNCHANGED <<received, net, outLog, inLog>>
           Onwards == \A s \in System : /\ stage'[s] \in Setup => stage[s] \in Setup
                                        /\ stage'[s] \in AfterSchedule => stage[s] \in AfterSchedule
<1>0. stage \in [System -> Stage]
  BY DEF FilesInv, BasicTyped
<1>1. CASE Kill /\ UNCHANGED bursts
  <2>1. Quiet /\ stage' = [s \in System |-> IF Over(s) THEN stage[s] ELSE "dead"]
    BY <1>1 DEF Kill, bursts, memory
  <2>2. \A s \in System : stage'[s] = IF Over(s) THEN stage[s] ELSE "dead"
    BY <2>1
  <2>3. Onwards
    BY <2>2 DEF Setup, AfterSchedule
  <2> QED BY <2>1, <2>3, StagesMove
<1>2. ASSUME NEW s \in System, BasicStep(s), UNCHANGED bursts PROVE MemoryInv'
  <2>1. Quiet
    BY <1>2 DEF bursts, memory, BasicStep, ReadConfigAndConfigureSimulation, LoadTopology,
                PrepareBasicSimulationLogFiles, WriteFinished, ConfigureTcp, Run, CleanUpSimulation,
                StoreTimingResults
  <2>2. \A t \in System \ {s} : stage'[t] = stage[t]
    BY <1>0, <1>2
       DEF BasicStep, ReadConfigAndConfigureSimulation, LoadTopology, Goto, ThrowIn, Run,
           PrepareBasicSimulationLogFiles, WriteFinished, ConfigureTcp, CleanUpSimulation,
           StoreTimingResults
  <2>3. CASE ReadConfigAndConfigureSimulation(s)
    <3>1. stage[s] = "construct" /\ stage'[s] \in {"prepare", "dead"}
      BY <1>0, <2>3 DEF ReadConfigAndConfigureSimulation, Goto, ThrowIn
    <3> QED BY <2>1, <2>2, <3>1, StagesMove DEF Setup, AfterSchedule
  <2>4. CASE PrepareBasicSimulationLogFiles(s)
    <3>1. stage[s] = "prepare" /\ stage'[s] = "write_no"
      BY <1>0, <2>4 DEF PrepareBasicSimulationLogFiles, Goto
    <3> QED BY <2>1, <2>2, <3>1, StagesMove DEF Setup, AfterSchedule
  <2>5. CASE WriteFinished(s, "No", "write_no", "topology")
    <3>1. stage[s] = "write_no" /\ stage'[s] = "topology"
      BY <1>0, <2>5 DEF WriteFinished, Goto
    <3> QED BY <2>1, <2>2, <3>1, StagesMove DEF Setup, AfterSchedule
  <2>6. CASE LoadTopology(s)
    <3>1. stage[s] = "topology" /\ stage'[s] \in {"tcp", "dead"}
      BY <1>0, <2>6 DEF LoadTopology, Goto, ThrowIn
    <3> QED BY <2>1, <2>2, <3>1, StagesMove DEF Setup, AfterSchedule
  <2>7. CASE ConfigureTcp(s)
    <3>1. stage[s] = "tcp" /\ stage'[s] \in {"schedulers", "dead"}
      BY <1>0, <2>7 DEF ConfigureTcp, Goto, ThrowIn
    <3> QED BY <2>1, <2>2, <3>1, StagesMove DEF Setup, AfterSchedule
  <2>8. CASE Run(s)
    <3>1. stage[s] = "run" /\ stage'[s] \in {"results", "running", "dead"}
      BY <1>0, <2>8 DEF Run, Goto, ThrowIn, StageAt
    <3> QED BY <2>1, <2>2, <3>1, StagesMove DEF Setup, AfterSchedule
  <2>9. CASE CleanUpSimulation(s) \/ StoreTimingResults(s)
    <3>1. stage[s] \in {"clean_up", "timing"} /\ stage'[s] \in {"timing", "write_yes"}
      BY <1>0, <2>9 DEF CleanUpSimulation, StoreTimingResults, Goto
    <3> QED BY <2>1, <2>2, <3>1, StagesMove DEF Setup, AfterSchedule
  <2>10. CASE WriteFinished(s, "Yes", "write_yes", "done")
    <3>1. stage[s] = "write_yes" /\ stage'[s] = "done"
      BY <1>0, <2>10 DEF WriteFinished, Goto
    <3> QED BY <2>1, <2>2, <3>1, StagesMove DEF Setup, AfterSchedule
  <2> QED BY <1>2, <2>3, <2>4, <2>5, <2>6, <2>7, <2>8, <2>9, <2>10 DEF BasicStep
<1>3. ASSUME NEW s \in System, WriteResults(s) PROVE MemoryInv'
  <2>1. Quiet /\ Goto(s, "clean_up") /\ stage[s] = "results"
    BY <1>3 DEF WriteResults
  <2>2. \A t \in System : stage'[t] = IF t = s THEN "clean_up" ELSE stage[t]
    BY <1>0, <2>1 DEF Goto
  <2>3. Onwards
    BY <2>1, <2>2 DEF Setup, AfterSchedule
  <2> QED BY <2>1, <2>3, StagesMove
<1>4. CASE Tick
  <2>1. Quiet /\ stage' = [s \in System |-> IF stage[s] = "running" THEN StageAt(now + 1) ELSE stage[s]]
    BY <1>4 DEF Tick, Advance, bursts, memory
  <2>2. \A s \in System : stage'[s] = IF stage[s] = "running" THEN StageAt(now + 1) ELSE stage[s]
    BY <2>1
  <2>3. StageAt(now + 1) \in {"results", "running"}
    BY DEF StageAt
  <2>4. Onwards
    BY <2>2, <2>3 DEF Setup, AfterSchedule
  <2> QED BY <2>1, <2>4, StagesMove
<1>5. CASE UNCHANGED vars
  <2>1. Quiet /\ Onwards
    BY <1>5 DEF vars, basic, process, bursts, memory
  <2> QED BY <2>1, StagesMove
<1> QED BY <1>1, <1>2, <1>3, <1>4, <1>5

(* The constructor of a scheduler: the entries of its system are kept, and   *)
(* the incoming logs of its servers emptied while no packet is under way.    *)
LEMMA NewSchedulerMemory ==
  ASSUME FilesInv, MemoryInv, NEW s \in System, NewUdpBurstScheduler(s)
  PROVE  MemoryInv'
<1> DEFINE done == CanSchedule /\ Enabled
<1>1. /\ UNCHANGED <<input, runs, outgoing, startTime, sendAt, sent, received, net, outLog>>
      /\ stage[s] = "schedulers" /\ stage \in [System -> Stage] /\ BasicTyped
  BY DEF NewUdpBurstScheduler, FilesInv, BasicTyped
<1>2. CASE ~done
  <2>1. UNCHANGED <<schedule, event, inLog>>
    BY <1>2 DEF NewUdpBurstScheduler
  <2>2. \A t \in System \ {s} : stage'[t] = stage[t]
    BY <1>1 DEF NewUdpBurstScheduler, Goto, ThrowIn
  <2>3. stage'[s] = "dead" \/ (stage'[s] = "run" /\ CanSchedule)
    BY <1>1 DEF NewUdpBurstScheduler, Goto, ThrowIn
  <2>4. MemoryTyped'
    BY <1>1, <2>1 DEF MemoryInv, MemoryTyped
  <2>5. MemorySound'
    <3>1. Installed' = Installed
      BY <1>1 DEF Installed
    <3>2. \A t \in System : ScheduleSound(t)'
      BY <1>1, <2>1, InputKept DEF MemoryInv, MemorySound, ScheduleSound
    <3>3. \A t \in System : \A i \in Range(outgoing'[t]) : Valid(i)'
      BY <1>1, InputKept DEF MemoryInv, MemorySound
    <3>4. \A m \in net' : NetSound(m)'
      BY <1>1, InputKept DEF MemoryInv, MemorySound, NetSound
    <3>5. Idle'
      BY <1>1 DEF MemoryInv, MemorySound, Idle, Setup
    <3> QED BY <1>1, <3>1, <3>2, <3>3, <3>4, <3>5 DEF MemoryInv, MemorySound
  <2>6. ASSUME NEW i \in Id PROVE OutLogSound(i)' /\ InLogSound(i)'
    <3>1. OutLogSound(i) /\ InLogSound(i) /\ Logged' = Logged
      BY <1>1, InputKept DEF MemoryInv, LogsSound
    <3>2. Emptied(i)' => Emptied(i)
      <4> SUFFICES ASSUME Emptied(i)' PROVE Emptied(i)
        OBVIOUS
      <4>1. Valid(i) /\ Entry(i)' = Entry(i)
        BY <1>1, InputKept DEF Emptied
      <4>2. PICK t \in System : stage'[t] \in AfterSchedule /\ IsOnThisSystem(Entry(i).to, t)'
        BY DEF Emptied
      <4>3. stage[t] \in AfterSchedule
        BY <1>2, <2>2, <2>3, <4>1, <4>2 DEF Valid, AfterSchedule
      <4>4. IsOnThisSystem(Entry(i).to, t)
        BY <1>1, <4>1, <4>2, InputKept
      <4> QED BY <4>1, <4>3, <4>4 DEF Emptied
    <3>3. OutLogSound(i)'
      BY <1>1, <3>1 DEF OutLogSound
    <3>4. InLogSound(i)'
      BY <1>1, <2>1, <3>1, <3>2 DEF InLogSound
    <3> QED BY <3>3, <3>4
  <2> QED BY <2>4, <2>5, <2>6 DEF MemoryInv, LogsSound
<1>3. CASE done
  <2>1. /\ Register(s) /\ schedule' = [schedule EXCEPT ![s] = OwnEntries(s)]
        /\ event' = [event EXCEPT ![s] = IF OwnEntries(s) = <<>> THEN 0 ELSE 1]
        /\ Goto(s, "run") /\ Enabled /\ IsSchedule(input.bursts)
    BY <1>3 DEF NewUdpBurstScheduler, PrepareBursts, CanSchedule
  <2>2. \A t \in System : stage'[t] = IF t = s THEN "run" ELSE stage[t]
    BY <1>1, <2>1 DEF Goto
  <2>3. Idle
    BY <1>1 DEF MemoryInv, MemorySound, Setup
  <2>4. /\ \A t \in System : schedule'[t] = IF t = s THEN OwnEntries(s) ELSE schedule[t]
        /\ \A t \in System : event'[t] = IF t = s THEN (IF OwnEntries(s) = <<>> THEN 0 ELSE 1)
                                         ELSE event[t]
        /\ schedule' = [t \in System |-> schedule'[t]] /\ event' \in [System -> Nat]
    BY <2>1 DEF MemoryInv, MemoryTyped
  <2>5. \A i \in Id : inLog'[i] = IF i \in Logged /\ i \in {r[2] : r \in Incoming(s)}
                                  THEN <<>> ELSE inLog[i]
    BY <2>1 DEF Register
  <2>6. inLog' \in [Id -> Seq(Nat \X Nat)]
    <3>1. inLog \in [Id -> Seq(Nat \X Nat)] /\ <<>> \in Seq(Nat \X Nat)
      BY DEF MemoryInv, MemoryTyped
    <3>2. \A i \in Id : inLog'[i] \in Seq(Nat \X Nat)
      BY <2>5, <3>1
    <3> QED BY <2>1, <3>2 DEF Register
  <2>7. MemoryTyped'
    BY <1>1, <2>4, <2>6 DEF MemoryInv, MemoryTyped
  <2>8. MemorySound'
    <3>1. Installed' = Installed
      BY <1>1 DEF Installed
    <3>2. \A t \in System : ScheduleSound(t)'
      <4>1. \A t \in System \ {s} : ScheduleSound(t)'
        BY <1>1, <2>4, InputKept DEF MemoryInv, MemorySound, ScheduleSound
      <4>2. /\ OwnEntries(s) # <<>> => 1 \in 1 .. Len(OwnEntries(s))
            /\ OwnEntries(s)' = OwnEntries(s) /\ Enabled' /\ IsSchedule(input.bursts)'
        BY <1>1, <2>1, OwnEntriesValid, InputKept
      <4>3. ScheduleSound(s)'
        BY <2>4, <4>2 DEF ScheduleSound
      <4> QED BY <4>1, <4>3
    <3>3. \A t \in System : \A i \in Range(outgoing'[t]) : Valid(i)'
      BY <1>1, InputKept DEF MemoryInv, MemorySound
    <3>4. \A m \in net' : NetSound(m)'
      BY <1>1, InputKept DEF MemoryInv, MemorySound, NetSound
    <3>5. Idle'
      BY <1>1, <2>3 DEF Idle
    <3> QED BY <1>1, <3>1, <3>2, <3>3, <3>4, <3>5 DEF MemoryInv, MemorySound
  <2>9. ASSUME NEW i \in Id PROVE OutLogSound(i)' /\ InLogSound(i)'
    <3>1. OutLogSound(i) /\ InLogSound(i) /\ Logged' = Logged
      BY <1>1, InputKept DEF MemoryInv, LogsSound
    <3>2. OutLogSound(i)'
      BY <1>1, <3>1 DEF OutLogSound
    <3>3. CASE inLog'[i] = <<>>
      <4>1. Len(inLog'[i]) = 0 /\ received'[i] = 0 /\ IsInjective(inLog'[i])
        BY <1>1, <2>3, <3>3 DEF IsInjective, Idle
      <4>2. InLogSound(i)'
        BY <4>1 DEF InLogSound
      <4> QED BY <3>2, <4>2
    <3>4. CASE inLog'[i] = inLog[i] /\ i \notin Logged
      BY <3>1, <3>2, <3>4 DEF InLogSound
    <3>5. CASE inLog'[i] = inLog[i] /\ i \notin {r[2] : r \in Incoming(s)}
      <4>1. Emptied(i)' => Emptied(i)
        <5> SUFFICES ASSUME Emptied(i)' PROVE Emptied(i)
          OBVIOUS
        <5>1. Valid(i) /\ Entry(i)' = Entry(i)
          BY <1>1, InputKept DEF Emptied
        <5>2. PICK t \in System : stage'[t] \in AfterSchedule /\ IsOnThisSystem(Entry(i).to, t)'
          BY DEF Emptied
        <5>3. IsOnThisSystem(Entry(i).to, t)
          BY <1>1, <5>1, <5>2, InputKept
        <5>4. Entry(i).id = i /\ Entry(i) \in Range(Complete)
          BY <1>1, <5>1, ValidEntry
        <5>5. t # s
          <6> SUFFICES ASSUME t = s PROVE FALSE
            OBVIOUS
          <6>1. <<Entry(i).to, Entry(i).id>> \in Incoming(s)
            BY <5>3, <5>4 DEF Incoming
          <6> QED BY <3>5, <5>4, <6>1
        <5> QED BY <2>2, <5>1, <5>2, <5>3, <5>5 DEF Emptied
      <4> QED BY <1>1, <3>1, <3>2, <3>5, <4>1 DEF InLogSound
    <3> QED BY <2>5, <3>2, <3>3, <3>4, <3>5
  <2> QED BY <2>7, <2>8, <2>9 DEF MemoryInv, LogsSound
<1> QED BY <1>2, <1>3

(* The next run starts with empty memory; what the logs say is of runs       *)
(* before it.                                                                *)
LEMMA LaunchMemory ==
  ASSUME FilesInv, MemoryInv, NEW in \in Input, Launch(in), FreshMemory, UNCHANGED <<outLog, inLog>>
  PROVE  MemoryInv'
<1>1. /\ runs \in Nat /\ runs' = runs + 1
      /\ \A s \in System : stage'[s] \in {"construct", "none"}
  <2>1. stage' = [s \in System |-> IF s < in.np THEN "construct" ELSE "none"]
    BY DEF Launch
  <2>2. \A s \in System : stage'[s] \in {"construct", "none"}
    BY <2>1
  <2> QED BY <2>2 DEF Launch, FilesInv, BasicTyped
<1>2. /\ schedule' = [s \in System |-> <<>>] /\ event' = [s \in System |-> 0]
      /\ outgoing' = [s \in System |-> <<>>] /\ startTime' = [i \in Id |-> Never]
      /\ sendAt' = [i \in Id |-> Never] /\ sent' = [i \in Id |-> 0]
      /\ received' = [i \in Id |-> 0] /\ net' = {}
  BY DEF FreshMemory
<1>3. MemoryTyped'
  <2>1. outgoing' \in [System -> Seq(Id)]
    <3>1. <<>> \in Seq(Id)
      OBVIOUS
    <3> QED BY <1>2, <3>1
  <2>2. /\ event' \in [System -> Nat] /\ startTime' \in [Id -> {Never} \cup Nat]
        /\ sent' \in [Id -> Nat] /\ received' \in [Id -> Nat]
    BY <1>2
  <2>3. outLog' \in [Id -> Seq(Nat \X Nat)] /\ inLog' \in [Id -> Seq(Nat \X Nat)]
    BY DEF MemoryInv, MemoryTyped
  <2> QED BY <1>2, <2>1, <2>2, <2>3 DEF MemoryTyped
<1>4. MemorySound'
  <2>1. \A s \in System : ScheduleSound(s)'
    BY <1>2 DEF ScheduleSound
  <2>2. \A s \in System : Range(outgoing'[s]) = {}
    BY <1>2 DEF Range
  <2>3. Idle' /\ \A i \in Id : sendAt'[i] = Never
    BY <1>2 DEF Idle
  <2> QED BY <1>2, <2>1, <2>2, <2>3 DEF MemorySound
<1>5. ASSUME NEW i \in Id PROVE OutLogSound(i)' /\ InLogSound(i)'
  <2>1. /\ outLog'[i] = outLog[i] /\ outLog[i] \in Seq(Nat \X Nat) /\ sent'[i] = 0
        /\ \A k \in 1 .. Len(outLog[i]) : outLog[i][k][1] <= runs
    BY <1>2 DEF MemoryInv, MemoryTyped, LogsSound, OutLogSound
  <2>2. \A k \in 1 .. Len(outLog[i]) : outLog[i][k][1] \in Nat
    BY <2>1
  <2>3. \A k \in 1 .. Len(outLog[i]) : outLog[i][k][1] <= runs' /\ outLog[i][k][1] # runs'
    BY <1>1, <2>1, <2>2
  <2>4. OutLogSound(i)'
    BY <2>1, <2>3 DEF OutLogSound
  <2>5. ~Emptied(i)'
    BY <1>1 DEF Emptied, AfterSchedule
  <2> QED BY <2>4, <2>5 DEF InLogSound
<1> QED BY <1>3, <1>4, <1>5 DEF MemoryInv, LogsSound

(* The steps of a simulation leave the systems, the logs of other bursts and *)
(* what they are of alone.                                                   *)
LEMMA SimulatingKeeps ==
  ASSUME FilesInv, MemoryInv, UNCHANGED <<input, runs, stage, schedule, outgoing>>
  PROVE  /\ \A i : Emptied(i)' = Emptied(i)
         /\ Logged' = Logged /\ Installed' = Installed
         /\ \A s \in System : \A i \in Range(outgoing'[s]) : Valid(i)'
         /\ \A m : NetSound(m) /\ sent'[m.id] = sent[m.id] => NetSound(m)'
         /\ \A s \in System : event'[s] = event[s] => ScheduleSound(s)'
         /\ \A i \in Id : outLog'[i] = outLog[i] /\ sent'[i] = sent[i] => OutLogSound(i)'
         /\ net' \subseteq net => \A i \in Id :
              inLog'[i] = inLog[i] /\ received'[i] = received[i] /\ sent'[i] = sent[i]
                => InLogSound(i)'
<1>1. Logged' = Logged /\ Installed' = Installed
  BY InputKept DEF Installed
<1>2. \A i : Emptied(i)' = Emptied(i)
  BY InputKept DEF Emptied
<1>3. \A s \in System : \A i \in Range(outgoing'[s]) : Valid(i)'
  BY InputKept DEF MemoryInv, MemorySound
<1>4. \A m : NetSound(m) /\ sent'[m.id] = sent[m.id] => NetSound(m)'
  BY InputKept DEF NetSound
<1>5. \A s \in System : event'[s] = event[s] => ScheduleSound(s)'
  BY InputKept DEF MemoryInv, MemorySound, ScheduleSound
<1>6. ASSUME NEW i \in Id, outLog'[i] = outLog[i], sent'[i] = sent[i] PROVE OutLogSound(i)'
  <2>1. OutLogSound(i)
    BY DEF MemoryInv, LogsSound
  <2> QED BY <1>1, <1>6, <2>1 DEF OutLogSound
<1>7. ASSUME NEW i \in Id, inLog'[i] = inLog[i], received'[i] = received[i], sent'[i] = sent[i],
             net' \subseteq net
      PROVE InLogSound(i)'
  <2>1. InLogSound(i)
    BY DEF MemoryInv, LogsSound
  <2> QED BY <1>1, <1>2, <1>7, <2>1 DEF InLogSound
<1> QED BY <1>1, <1>2, <1>3, <1>4, <1>5, <1>6, <1>7

(* The client that is installed is that of an entry of the schedule.         *)
LEMMA StartNextMemory ==
  ASSUME FilesInv, MemoryInv, NEW s \in System, StartNextUdpBurst(s)
  PROVE  MemoryInv'
<1>1. /\ UNCHANGED <<input, runs, stage, schedule, startTime, sendAt, sent, received, net, outLog>>
      /\ UNCHANGED inLog /\ Simulating /\ event[s] # 0 /\ BasicTyped
      /\ outgoing' = [outgoing EXCEPT ![s] = Append(@, NextEntry(s).id)]
      /\ event' = [event EXCEPT ![s] = IF @ = Len(schedule[s]) THEN 0 ELSE @ + 1]
  BY DEF StartNextUdpBurst, basic, process, FilesInv
<1>2. event[s] \in 1 .. Len(schedule[s]) /\ ScheduleSound(s)
  BY <1>1 DEF MemoryInv, MemorySound, ScheduleSound
<1>3. event[s] \in Nat /\ event \in [System -> Nat] /\ outgoing \in [System -> Seq(Id)]
  BY DEF MemoryInv, MemoryTyped
<1>4. schedule[s] # <<>>
  BY <1>2, <1>3
<1>5. schedule[s] = OwnEntries(s) /\ Enabled /\ IsSchedule(input.bursts)
  BY <1>2, <1>4 DEF ScheduleSound
<1>6. Len(schedule[s]) \in Nat /\ NextEntry(s).id \in Id /\ Valid(NextEntry(s).id)
  BY <1>1, <1>2, <1>5, OwnEntriesValid DEF NextEntry
<1>7. /\ \A t \in System : event'[t] = IF t = s THEN (IF event[s] = Len(schedule[s]) THEN 0
                                                      ELSE event[s] + 1) ELSE event[t]
      /\ \A t \in System : outgoing'[t] = IF t = s THEN Append(outgoing[s], NextEntry(s).id)
                                          ELSE outgoing[t]
  BY <1>1, <1>3
<1>8. event' \in [System -> Nat] /\ outgoing' \in [System -> Seq(Id)]
  BY <1>1, <1>3, <1>6
<1>9. MemoryTyped'
  BY <1>1, <1>8 DEF MemoryInv, MemoryTyped
<1>10. /\ \A t \in System : Range(outgoing[t]) \subseteq Range(outgoing'[t])
       /\ \A t \in System : Range(outgoing'[t]) \subseteq Range(outgoing[t]) \cup {NextEntry(s).id}
  <2>1. \A t \in System \ {s} : outgoing'[t] = outgoing[t]
    BY <1>7
  <2>2. outgoing[s] \in Seq(Id) /\ outgoing'[s] = Append(outgoing[s], NextEntry(s).id)
    BY <1>3, <1>7
  <2>3. /\ Range(outgoing[s]) \subseteq Range(outgoing'[s])
        /\ Range(outgoing'[s]) \subseteq Range(outgoing[s]) \cup {NextEntry(s).id}
    BY <1>6, <2>2 DEF Range
  <2> QED BY <2>1, <2>3
<1>11. MemorySound'
  <2>1. ASSUME NEW t \in System PROVE ScheduleSound(t)'
    <3>1. /\ ScheduleSound(t) /\ OwnEntries(t)' = OwnEntries(t) /\ Enabled' = Enabled
          /\ IsSchedule(input.bursts)' = IsSchedule(input.bursts) /\ schedule'[t] = schedule[t]
      BY <1>1, InputKept DEF MemoryInv, MemorySound
    <3>2. event'[t] # 0 => event'[t] \in 1 .. Len(schedule[t])
      <4>1. CASE t = s
        BY <1>2, <1>3, <1>6, <1>7, <4>1
      <4>2. CASE t # s
        BY <1>7, <3>1, <4>2 DEF ScheduleSound
      <4> QED BY <4>1, <4>2
    <3> QED BY <3>1, <3>2 DEF ScheduleSound
  <2>2. ASSUME NEW t \in System, NEW i \in Range(outgoing'[t]) PROVE Valid(i)'
    BY <1>1, <1>6, <1>10, InputKept DEF MemoryInv, MemorySound
  <2>3. \A i \in Id : sendAt'[i] # Never => i \in Installed'
    BY <1>1, <1>10 DEF MemoryInv, MemorySound, Installed
  <2>4. \A t \in System : stage'[t] \notin Setup
    BY <1>1, SimulatingIsPastSetup
  <2>5. \A m \in net' : NetSound(m)'
    BY <1>1, InputKept DEF MemoryInv, MemorySound, NetSound
  <2> QED BY <2>1, <2>2, <2>3, <2>4, <2>5 DEF MemorySound
<1>12. ASSUME NEW i \in Id PROVE OutLogSound(i)' /\ InLogSound(i)'
  <2>1. OutLogSound(i) /\ InLogSound(i) /\ Logged' = Logged /\ Emptied(i)' = Emptied(i)
    <3>1. Emptied(i)' = Emptied(i)
      BY <1>1, InputKept DEF Emptied
    <3> QED BY <1>1, <3>1, InputKept DEF MemoryInv, LogsSound
  <2>2. OutLogSound(i)'
    BY <1>1, <2>1 DEF OutLogSound
  <2>3. InLogSound(i)'
    BY <1>1, <2>1 DEF InLogSound
  <2> QED BY <2>2, <2>3
<1> QED BY <1>9, <1>11, <1>12 DEF MemoryInv, LogsSound

LEMMA StartApplicationMemory ==
  ASSUME FilesInv, MemoryInv, NEW i \in Id, StartApplication(i)
  PROVE  MemoryInv'
<1>1. /\ UNCHANGED <<input, runs, stage, schedule, event, outgoing, sent, received, net, outLog>>
      /\ UNCHANGED inLog /\ Simulating /\ i \in Installed /\ now \in Nat
      /\ startTime' = [startTime EXCEPT ![i] = now] /\ sendAt' = [sendAt EXCEPT ![i] = now]
  BY DEF StartApplication, basic, process, FilesInv, BasicTyped
<1>2. MemoryTyped'
  BY <1>1 DEF MemoryInv, MemoryTyped
<1>3. MemorySound'
  <2>1. \A j \in Id \ {i} : sendAt'[j] = sendAt[j]
    BY <1>1 DEF MemoryInv, MemoryTyped
  <2>2. \A j \in Id : sendAt'[j] # Never => j \in Installed'
    BY <1>1, <2>1, SimulatingKeeps DEF MemoryInv, MemorySound
  <2>3. \A t \in System : stage'[t] \notin Setup
    BY <1>1, SimulatingIsPastSetup
  <2>4. \A m \in net' : NetSound(m)'
    BY <1>1, SimulatingKeeps DEF MemoryInv, MemorySound
  <2>5. /\ \A t \in System : ScheduleSound(t)'
        /\ \A t \in System : \A j \in Range(outgoing'[t]) : Valid(j)'
    BY <1>1, SimulatingKeeps
  <2> QED BY <2>2, <2>3, <2>4, <2>5 DEF MemorySound
<1>4. \A j \in Id : OutLogSound(j)' /\ InLogSound(j)'
  BY <1>1, SimulatingKeeps
<1> QED BY <1>2, <1>3, <1>4 DEF MemoryInv, LogsSound

(* A packet that is sent is the next of its burst, and logged as that.       *)
LEMMA OutLogGrows ==
  ASSUME FilesInv, MemoryInv, NEW i \in Id, Send(i)
  PROVE  OutLogSound(i)'
<1> DEFINE L == outLog[i]
           n == sent[i]
<1>1. /\ L \in Seq(Nat \X Nat) /\ n \in Nat /\ runs \in Nat /\ runs' = runs /\ OutLogSound(i)
      /\ Logged' = Logged
  BY InputKept DEF FilesInv, BasicTyped, MemoryInv, MemoryTyped, LogsSound, Send, basic, process
<1>2. /\ outLog'[i] = IF i \in Logged THEN Append(L, <<runs, n>>) ELSE L
      /\ sent'[i] = n + 1
  BY DEF Send, MemoryInv, MemoryTyped
<1> HIDE DEF L, n
<1>3. CASE i \notin Logged
  BY <1>1, <1>2, <1>3 DEF OutLogSound, L
<1>4. CASE i \in Logged
  <2> DEFINE M == Append(L, <<runs, n>>)
  <2>1. outLog'[i] = M
    BY <1>2, <1>4
  <2>2. /\ Len(L) \in Nat /\ Len(M) = Len(L) + 1 /\ M[Len(L) + 1] = <<runs, n>>
        /\ \A k \in 1 .. Len(L) : M[k] = L[k]
    BY <1>1
  <2>3. /\ \A k \in 1 .. Len(L) : L[k][1] <= runs
        /\ n <= Len(L)
        /\ \A k \in 1 .. Len(L) : L[k][1] = runs <=> k > Len(L) - n
        /\ \A k \in 1 .. n : L[Len(L) - n + k] = <<runs, k - 1>>
    BY <1>1, <1>4 DEF OutLogSound, L, n
  <2>4. n + 1 <= Len(M) /\ Len(M) - (n + 1) = Len(L) - n
    BY <1>1, <2>2, <2>3
  <2> HIDE DEF M
  <2>5. ASSUME NEW k \in 1 .. Len(M)
        PROVE  M[k][1] <= runs /\ (M[k][1] = runs <=> k > Len(L) - n)
    <3>1. CASE k = Len(L) + 1
      BY <1>1, <2>2, <3>1
    <3>2. CASE k \in 1 .. Len(L)
      BY <2>2, <2>3, <3>2
    <3> QED BY <2>2, <3>1, <3>2
  <2>6. ASSUME NEW k \in 1 .. n + 1 PROVE M[Len(L) - n + k] = <<runs, k - 1>>
    <3>1. CASE k = n + 1
      BY <1>1, <2>2, <3>1
    <3>2. CASE k \in 1 .. n
      <4>1. Len(L) - n + k \in 1 .. Len(L)
        BY <1>1, <2>2, <2>3, <3>2
      <4> QED BY <2>2, <2>3, <3>2, <4>1
    <3> QED BY <1>1, <3>1, <3>2
  <2> QED BY <1>1, <1>2, <2>1, <2>4, <2>5, <2>6 DEF OutLogSound
<1> QED BY <1>3, <1>4

LEMMA SendMemory ==
  ASSUME FilesInv, MemoryInv, NEW i \in Id, Send(i)
  PROVE  MemoryInv'
<1> DEFINE p == [id |-> i, seq |-> sent[i], to |-> Entry(i).to]
<1>1. /\ UNCHANGED <<input, runs, stage, schedule, event, outgoing, startTime, received, inLog>>
      /\ Simulating /\ now \in Nat /\ sendAt[i] = now /\ BasicTyped
      /\ sent' = [sent EXCEPT ![i] = @ + 1] /\ net' = net \cup {p}
      /\ outLog' = [outLog EXCEPT ![i] = IF i \in Logged THEN Append(@, <<runs, sent[i]>>) ELSE @]
      /\ sendAt' = [sendAt EXCEPT ![i] = NextSend(i)]
  BY DEF Send, basic, process, FilesInv, BasicTyped
<1>2. /\ sent \in [Id -> Nat] /\ sendAt = [j \in Id |-> sendAt[j]] /\ runs \in Nat
      /\ outLog \in [Id -> Seq(Nat \X Nat)] /\ net \subseteq [id : Id, seq : Nat, to : Endpoint]
  BY <1>1 DEF MemoryInv, MemoryTyped, BasicTyped
<1>3. i \in Installed /\ Valid(i)
  <2>1. i \in Installed
    BY <1>1 DEF MemoryInv, MemorySound, Never
  <2> QED BY <2>1 DEF MemoryInv, MemorySound, Installed
<1>4. Entry(i).to \in Endpoint
  BY <1>1, <1>3, ValidEntry
<1>5. MemoryTyped'
  <2>1. outLog' \in [Id -> Seq(Nat \X Nat)]
    <3>1. outLog[i] \in Seq(Nat \X Nat) /\ <<runs, sent[i]>> \in Nat \X Nat
      BY <1>2
    <3>2. Append(outLog[i], <<runs, sent[i]>>) \in Seq(Nat \X Nat)
      BY <3>1
    <3> QED BY <1>1, <1>2, <3>1, <3>2
  <2>2. net' \subseteq [id : Id, seq : Nat, to : Endpoint]
    BY <1>1, <1>2, <1>4
  <2>3. sent' \in [Id -> Nat]
    BY <1>1, <1>2
  <2>4. sendAt' = [j \in Id |-> sendAt'[j]]
    BY <1>1, <1>2
  <2> QED BY <1>1, <2>1, <2>2, <2>3, <2>4 DEF MemoryInv, MemoryTyped
<1>6. \A j \in Id \ {i} : /\ sendAt'[j] = sendAt[j] /\ sent'[j] = sent[j]
                          /\ outLog'[j] = outLog[j]
  BY <1>1, <1>2
<1>7. sent'[i] = sent[i] + 1 /\ sent[i] \in Nat
  BY <1>1, <1>2
<1>8. \A j \in Id : sent[j] \in Nat /\ sent'[j] \in Nat /\ sent[j] <= sent'[j]
  <2>1. \A j \in Id \ {i} : sent[j] \in Nat /\ sent'[j] = sent[j]
    BY <1>2, <1>6
  <2> QED BY <1>7, <2>1
<1>9. MemorySound'
  <2>1. \A j \in Id : sendAt'[j] # Never => j \in Installed'
    BY <1>1, <1>3, <1>6, SimulatingKeeps DEF MemoryInv, MemorySound
  <2>2. \A t \in System : stage'[t] \notin Setup
    BY <1>1, SimulatingIsPastSetup
  <2>3. ASSUME NEW m \in net' PROVE NetSound(m)'
    <3>1. \A j : Valid(j)' = Valid(j) /\ Entry(j)' = Entry(j)
      BY <1>1, InputKept
    <3>2. CASE m = p
      BY <1>3, <1>7, <3>1, <3>2 DEF NetSound
    <3>3. CASE m \in net
      <4>1. NetSound(m) /\ m.id \in Id /\ m.seq \in Nat
        BY <1>2, <3>3 DEF MemoryInv, MemorySound
      <4>2. m.seq < sent[m.id] /\ sent[m.id] \in Nat /\ sent[m.id] <= sent'[m.id]
            /\ sent'[m.id] \in Nat
        BY <1>8, <4>1 DEF NetSound
      <4>3. m.seq < sent'[m.id]
        BY <4>1, <4>2
      <4> QED BY <3>1, <4>1, <4>3 DEF NetSound
    <3> QED BY <1>1, <3>2, <3>3
  <2>4. /\ \A t \in System : ScheduleSound(t)'
        /\ \A t \in System : \A j \in Range(outgoing'[t]) : Valid(j)'
    BY <1>1, SimulatingKeeps
  <2> QED BY <2>1, <2>2, <2>3, <2>4 DEF MemorySound
<1>10. \A j \in Id : OutLogSound(j)'
  <2>1. OutLogSound(i)'
    BY OutLogGrows
  <2> QED BY <1>1, <1>6, <2>1, SimulatingKeeps
<1>11. ASSUME NEW j \in Id PROVE InLogSound(j)'
  <2>1. /\ InLogSound(j) /\ Logged' = Logged /\ Emptied(j)' = Emptied(j)
        /\ inLog[j] \in Seq(Nat \X Nat)
    BY <1>1, SimulatingKeeps DEF MemoryInv, MemoryTyped, LogsSound
  <2> SUFFICES ASSUME j \in Logged, Emptied(j) PROVE InLogSound(j)'
    BY <2>1 DEF InLogSound
  <2>2. /\ Len(inLog[j]) = received[j] /\ IsInjective(inLog[j])
        /\ \A k \in 1 .. Len(inLog[j]) :
             /\ inLog[j][k][1] = runs /\ inLog[j][k][2] < sent[j] /\ inLog[j][k][2] \in Nat
             /\ \A m \in net : m.id = j => m.seq # inLog[j][k][2]
    BY <2>1 DEF InLogSound
  <2>3. ASSUME NEW k \in 1 .. Len(inLog[j])
        PROVE  /\ inLog[j][k][2] < sent'[j]
               /\ \A m \in net' : m.id = j => m.seq # inLog[j][k][2]
    <3>1. inLog[j][k][2] < sent'[j] /\ inLog[j][k][2] < sent[j] /\ inLog[j][k][2] \in Nat
      BY <1>8, <2>2
    <3>2. p.id = j => p.seq # inLog[j][k][2]
      BY <1>2, <3>1
    <3> QED BY <1>1, <2>2, <3>1, <3>2
  <2> QED BY <1>1, <2>2, <2>3 DEF InLogSound
<1> QED BY <1>5, <1>9, <1>10, <1>11 DEF MemoryInv, LogsSound

(* A packet leaves the network once.                                         *)
LEMMA NetShrinks ==
  ASSUME FilesInv, MemoryInv, NEW m \in net, net' = net \ {m},
         UNCHANGED <<input, runs, schedule, event, outgoing, startTime, sendAt, sent, outLog>>,
         \A s \in System : stage'[s] \notin Setup
  PROVE  /\ MemorySound' /\ \A i \in Id : OutLogSound(i)'
         /\ \A n \in net' : n.id = m.id => n.seq # m.seq
<1>1. \A s \in System : ScheduleSound(s)'
  BY InputKept DEF MemoryInv, MemorySound, ScheduleSound
<1>2. /\ Installed' = Installed /\ Logged' = Logged
      /\ \A i : Valid(i)' = Valid(i) /\ Entry(i)' = Entry(i)
  BY InputKept DEF Installed
<1>3. \A n \in net' : NetSound(n)'
  BY <1>2 DEF MemoryInv, MemorySound, NetSound
<1>4. MemorySound'
  BY <1>1, <1>2, <1>3 DEF MemoryInv, MemorySound
<1>5. \A i \in Id : OutLogSound(i)'
  BY <1>2 DEF MemoryInv, LogsSound, OutLogSound
<1>6. ASSUME NEW n \in net', n.id = m.id PROVE n.seq # m.seq
  <2>1. /\ n \in [id : Id, seq : Nat, to : Endpoint] /\ m \in [id : Id, seq : Nat, to : Endpoint]
        /\ n # m
    BY DEF MemoryInv, MemoryTyped
  <2>2. n.to = m.to
    BY <1>6 DEF MemoryInv, MemorySound, NetSound
  <2> QED BY <1>6, <2>1, <2>2
<1> QED BY <1>4, <1>5, <1>6

LEMMA LoseMemory ==
  ASSUME FilesInv, MemoryInv, NEW m \in net, Lose(m)
  PROVE  MemoryInv'
<1>1. /\ UNCHANGED <<input, runs, stage, schedule, event, outgoing, startTime, sendAt, sent, outLog>>
      /\ UNCHANGED <<received, inLog>> /\ net' = net \ {m} /\ Simulating
  BY DEF Lose, basic, process
<1>2. \A s \in System : stage'[s] \notin Setup
  BY <1>1, SimulatingIsPastSetup
<1>3. MemorySound' /\ \A i \in Id : OutLogSound(i)'
  BY <1>1, <1>2, NetShrinks
<1>4. \A i \in Id : InLogSound(i)'
  BY <1>1, SimulatingKeeps
<1>5. MemoryTyped'
  BY <1>1 DEF MemoryInv, MemoryTyped
<1> QED BY <1>3, <1>4, <1>5 DEF MemoryInv, LogsSound

(* A packet that arrives is logged, once, or throws.                         *)
LEMMA ArriveMemory ==
  ASSUME FilesInv, MemoryInv, NEW m \in net, Arrive(m)
  PROVE  MemoryInv'
<1>1. /\ UNCHANGED <<input, runs, schedule, event, outgoing, startTime, sendAt, sent, outLog>>
      /\ net' = net \ {m} /\ Simulating /\ runs \in Nat /\ stage \in [System -> Stage]
  BY DEF Arrive, FilesInv, BasicTyped
<1>2. PICK s \in System : HandleRead(s, m)
  BY DEF Arrive
<1>3. /\ m.id \in Id /\ m.seq \in Nat /\ NetSound(m) /\ received \in [Id -> Nat]
      /\ inLog \in [Id -> Seq(Nat \X Nat)] /\ sent \in [Id -> Nat]
  BY DEF MemoryInv, MemoryTyped, MemorySound
<1>4. /\ \A i : Valid(i)' = Valid(i) /\ Logged' = Logged
      /\ \A i \in Id : OutLogSound(i) /\ InLogSound(i)
  BY <1>1, InputKept DEF MemoryInv, LogsSound
<1>5. CASE ThrowIn(s, "simulation") /\ UNCHANGED <<received, inLog>>
  <2>1. \A t \in System : stage'[t] = IF t = s THEN "dead" ELSE stage[t]
    BY <1>1, <1>5 DEF ThrowIn, Goto
  <2>2. \A t \in System : stage'[t] \notin Setup
    BY <1>1, <2>1, SimulatingIsPastSetup DEF Setup
  <2>3. MemorySound' /\ \A i \in Id : OutLogSound(i)'
    BY <1>1, <2>2, NetShrinks
  <2>4. \A t \in System : stage'[t] \in AfterSchedule => stage[t] \in AfterSchedule
    BY <2>1 DEF AfterSchedule
  <2>5. \A i \in Id : Emptied(i)' => Emptied(i)
    BY <1>1, <2>4, EmptiedBefore
  <2>6. \A i \in Id : InLogSound(i)'
    BY <1>1, <1>4, <1>5, <2>5 DEF InLogSound
  <2>7. MemoryTyped'
    BY <1>1, <1>5 DEF MemoryInv, MemoryTyped
  <2> QED BY <2>3, <2>6, <2>7 DEF MemoryInv, LogsSound
<1>6. CASE /\ received' = [received EXCEPT ![m.id] = @ + 1]
           /\ inLog' = [inLog EXCEPT ![m.id] =
                IF m.id \in Logged THEN Append(@, <<runs, m.seq>>) ELSE @]
           /\ UNCHANGED <<stage, threw>>
  <2>1. \A t \in System : stage'[t] \notin Setup
    BY <1>1, <1>6, SimulatingIsPastSetup
  <2>2. /\ MemorySound' /\ \A i \in Id : OutLogSound(i)'
        /\ \A n \in net' : n.id = m.id => n.seq # m.seq
    BY <1>1, <2>1, NetShrinks
  <2> DEFINE L == inLog[m.id]
             M == Append(L, <<runs, m.seq>>)
  <2>3. /\ L \in Seq(Nat \X Nat) /\ received[m.id] \in Nat /\ sent[m.id] \in Nat
        /\ received'[m.id] = received[m.id] + 1
        /\ inLog'[m.id] = IF m.id \in Logged THEN M ELSE L
        /\ \A i \in Id \ {m.id} : inLog'[i] = inLog[i] /\ received'[i] = received[i]
    BY <1>3, <1>6
  <2>4. MemoryTyped'
    <3>1. <<runs, m.seq>> \in Nat \X Nat
      BY <1>1, <1>3
    <3>2. M \in Seq(Nat \X Nat)
      BY <2>3, <3>1
    <3>3. inLog' \in [Id -> Seq(Nat \X Nat)]
      BY <1>3, <1>6, <3>2
    <3>4. received' \in [Id -> Nat]
      BY <1>3, <1>6
    <3> QED BY <1>1, <3>3, <3>4 DEF MemoryInv, MemoryTyped
  <2>5. \A i \in Id : Emptied(i)' = Emptied(i)
    BY <1>1, <1>6, SimulatingKeeps
  <2>6. ASSUME NEW i \in Id \ {m.id} PROVE InLogSound(i)'
    BY <1>1, <1>6, <2>3, SimulatingKeeps
  <2>7. InLogSound(m.id)'
    <3> SUFFICES ASSUME m.id \in Logged, Emptied(m.id) PROVE InLogSound(m.id)'
      BY <1>3, <1>4, <2>5 DEF InLogSound
    <3>1. /\ Len(L) = received[m.id] /\ IsInjective(L)
          /\ \A k \in 1 .. Len(L) : /\ L[k][1] = runs /\ L[k][2] < sent[m.id]
                                    /\ \A n \in net : n.id = m.id => n.seq # L[k][2]
      BY <1>3, <1>4 DEF InLogSound
    <3>2. inLog'[m.id] = M
      BY <2>3
    <3>3. /\ Len(L) \in Nat /\ Len(M) = Len(L) + 1 /\ M[Len(L) + 1] = <<runs, m.seq>>
          /\ \A k \in 1 .. Len(L) : M[k] = L[k]
          /\ DOMAIN M = 1 .. Len(L) + 1 /\ DOMAIN L = 1 .. Len(L)
      BY <2>3
    <3> HIDE DEF L, M
    <3>4. \A k \in 1 .. Len(L) : M[k][2] # m.seq /\ L[k][2] # m.seq
      BY <3>1, <3>3
    <3>5. IsInjective(M)
      <4> SUFFICES ASSUME NEW a \in 1 .. Len(L) + 1, NEW b \in 1 .. Len(L) + 1, M[a] = M[b]
                   PROVE  a = b
        BY <3>3 DEF IsInjective
      <4>1. CASE a \in 1 .. Len(L) /\ b \in 1 .. Len(L)
        BY <3>1, <3>3, <4>1 DEF IsInjective
      <4>2. M[Len(L) + 1][2] = m.seq
        BY <3>3
      <4>3. ~(a \in 1 .. Len(L) /\ b = Len(L) + 1) /\ ~(b \in 1 .. Len(L) /\ a = Len(L) + 1)
        BY <3>4, <4>2
      <4> QED BY <3>3, <4>1, <4>3
    <3>6. ASSUME NEW k \in 1 .. Len(M)
          PROVE  /\ M[k][1] = runs /\ M[k][2] < sent[m.id]
                 /\ \A n \in net' : n.id = m.id => n.seq # M[k][2]
      <4>1. CASE k \in 1 .. Len(L)
        BY <1>1, <3>1, <3>3, <4>1
      <4>2. CASE k = Len(L) + 1
        <5>1. M[k][1] = runs /\ M[k][2] = m.seq
          BY <3>3, <4>2
        <5>2. m.seq < sent[m.id]
          BY <1>3 DEF NetSound
        <5> QED BY <2>2, <5>1, <5>2
      <4> QED BY <3>3, <4>1, <4>2
    <3>7. Len(M) = received'[m.id]
      BY <2>3, <3>1, <3>3
    <3> QED BY <1>1, <3>2, <3>5, <3>6, <3>7 DEF InLogSound
  <2> QED BY <2>2, <2>4, <2>6, <2>7 DEF MemoryInv, LogsSound
<1> QED BY <1>2, <1>5, <1>6 DEF HandleRead

LEMMA MemoryNext == FilesInv /\ MemoryInv /\ [Next]_vars => MemoryInv'
<1> SUFFICES ASSUME FilesInv, MemoryInv, [Next]_vars PROVE MemoryInv'
  OBVIOUS
<1>1. ASSUME NEW in \in Input, Launch(in), FreshMemory, UNCHANGED <<outLog, inLog, results, withBursts>>
      PROVE MemoryInv'
  BY <1>1, LaunchMemory
<1>2. CASE \/ Kill /\ UNCHANGED bursts
           \/ \E s \in System : BasicStep(s) /\ UNCHANGED bursts
           \/ \E s \in System : WriteResults(s)
           \/ Tick
           \/ UNCHANGED vars
  BY <1>2, QuietMemory
<1>3. ASSUME NEW s \in System, NewUdpBurstScheduler(s) \/ StartNextUdpBurst(s) PROVE MemoryInv'
  BY <1>3, NewSchedulerMemory, StartNextMemory
<1>4. ASSUME NEW i \in Id, StartApplication(i) \/ Send(i) PROVE MemoryInv'
  BY <1>4, StartApplicationMemory, SendMemory
<1>5. ASSUME NEW m \in net, Arrive(m) \/ Lose(m) PROVE MemoryInv'
  BY <1>5, ArriveMemory, LoseMemory
<1> QED BY <1>1, <1>2, <1>3, <1>4, <1>5 DEF Next

LEMMA MemoryInit == Init => MemoryInv
<1> SUFFICES ASSUME Init PROVE MemoryInv
  OBVIOUS
<1>1. /\ schedule = [s \in System |-> <<>>] /\ event = [s \in System |-> 0]
      /\ outgoing = [s \in System |-> <<>>] /\ startTime = [i \in Id |-> Never]
      /\ sendAt = [i \in Id |-> Never] /\ sent = [i \in Id |-> 0]
      /\ received = [i \in Id |-> 0] /\ net = {}
      /\ outLog = [i \in Id |-> <<>>] /\ inLog = [i \in Id |-> <<>>]
      /\ stage = [s \in System |-> "none"]
  BY DEF Init, BasicInit
<1>2. MemoryTyped
  <2>1. <<>> \in Seq(Id) /\ <<>> \in Seq(Nat \X Nat)
    OBVIOUS
  <2>2. /\ outgoing \in [System -> Seq(Id)] /\ outLog \in [Id -> Seq(Nat \X Nat)]
        /\ inLog \in [Id -> Seq(Nat \X Nat)]
    BY <1>1, <2>1
  <2>3. /\ event \in [System -> Nat] /\ startTime \in [Id -> {Never} \cup Nat]
        /\ sent \in [Id -> Nat] /\ received \in [Id -> Nat]
    BY <1>1
  <2> QED BY <1>1, <2>2, <2>3 DEF MemoryTyped
<1>3. MemorySound
  <2>1. \A s \in System : ScheduleSound(s) /\ Range(outgoing[s]) = {}
    BY <1>1 DEF ScheduleSound, Range
  <2>2. Idle /\ \A i \in Id : sendAt[i] = Never
    BY <1>1 DEF Idle
  <2> QED BY <1>1, <2>1, <2>2 DEF MemorySound
<1>4. ASSUME NEW i \in Id PROVE OutLogSound(i) /\ InLogSound(i)
  <2>1. ~Emptied(i)
    BY <1>1 DEF Emptied, AfterSchedule
  <2>2. Len(outLog[i]) = 0 /\ sent[i] = 0
    BY <1>1
  <2> QED BY <2>1, <2>2 DEF OutLogSound, InLogSound
<1> QED BY <1>2, <1>3, <1>4 DEF MemoryInv, LogsSound

LEMMA MemoryAlways == Spec => [](FilesInv /\ MemoryInv)
<1>1. Init => FilesInv /\ MemoryInv
  BY FilesInit, MemoryInit
<1>2. (FilesInv /\ MemoryInv) /\ [Next]_vars => (FilesInv /\ MemoryInv)'
  BY FilesNext, MemoryNext
<1> QED BY <1>1, <1>2, PTL DEF Spec

-----------------------------------------------------------------------------
(* The theorems about the bursts.                                            *)

(* A packet finds its burst registered wherever it arrives.                  *)
LEMMA ArrivesRegistered ==
  ASSUME FilesInv, MemoryInv, Simulating, NEW m \in net, NEW s \in System, s < input.np,
         IsOnThisSystem(m.to, s)
  PROVE  <<m.to, m.id>> \in registered[s]
<1>1. stage[s] = "running"
  BY FilesAreFiles, InputAssumption DEF Simulating, System, FilesInv, BasicTyped
<1>2. Valid(m.id) /\ m.to = Entry(m.id).to /\ m.id \in Id
  BY DEF MemoryInv, MemorySound, MemoryTyped, NetSound
<1>3. registered[s] = Incoming(s)
  BY <1>1, <1>2 DEF FilesInv, StageSound, AfterSchedule, Valid
<1>4. Entry(m.id) \in Range(Complete) /\ Entry(m.id).id = m.id
  BY <1>2, ValidEntry DEF FilesInv
<1> QED BY <1>2, <1>3, <1>4 DEF Incoming

(* What the constructors accept simulates without an exception, for every    *)
(* schedule and every assignment of the nodes to systems.                    *)
THEOREM NeverThrows == Spec => []SimulationNeverThrows
<1>1. Init => SimulationNeverThrows
  BY DEF Init, BasicInit, SimulationNeverThrows
<1>2. FilesInv /\ MemoryInv /\ SimulationNeverThrows /\ [Next]_vars => SimulationNeverThrows'
  <2> SUFFICES ASSUME FilesInv, MemoryInv, threw # "simulation", [Next]_vars
               PROVE  threw' # "simulation"
    BY DEF SimulationNeverThrows
  <2>1. ASSUME NEW m \in net, Arrive(m) PROVE threw' = threw
    BY <2>1, ArrivesRegistered DEF Arrive, HandleRead
  <2>2. ASSUME NEW in \in Input, Launch(in) PROVE threw' = "no"
    BY <2>2 DEF Launch
  <2>3. ASSUME NEW s \in System, BasicStep(s) \/ NewUdpBurstScheduler(s)
        PROVE  threw' = threw \/ threw' = "setup"
    BY <2>3 DEF BasicStep, ReadConfigAndConfigureSimulation, PrepareBasicSimulationLogFiles,
                WriteFinished, LoadTopology, ConfigureTcp, Run, CleanUpSimulation,
                StoreTimingResults, NewUdpBurstScheduler, ThrowIn
  <2>4. ASSUME NEW s \in System, StartNextUdpBurst(s) \/ WriteResults(s) PROVE threw' = threw
    BY <2>4 DEF StartNextUdpBurst, WriteResults, basic, process
  <2>5. ASSUME NEW i \in Id, StartApplication(i) \/ Send(i) PROVE threw' = threw
    BY <2>5 DEF StartApplication, Send, basic, process
  <2>6. ASSUME NEW m \in net, Lose(m) PROVE threw' = threw
    BY <2>6 DEF Lose, basic, process
  <2>7. CASE Kill \/ Tick \/ UNCHANGED vars
    BY <2>7 DEF Kill, Tick, Advance, vars, basic, process
  <2> QED BY <2>1, <2>2, <2>3, <2>4, <2>5, <2>6, <2>7 DEF Next
<1> QED BY <1>1, <1>2, MemoryAlways, PTL DEF Spec

(* What may be logged precisely are bursts of the schedule.                  *)
LEMMA LoggedIsValid ==
  ASSUME FilesInv, Enabled, CanSchedule, NEW i \in Logged
  PROVE  i \in Id /\ Valid(i)
<1>1. /\ IsSchedule(input.bursts) /\ IsLogging /\ input \in Input
      /\ input.bursts \in Seq(BurstLine) /\ Len(input.bursts) <= MaxBursts /\ MaxBursts \in Nat
  BY BurstAssumption DEF CanSchedule, FilesInv, BasicTyped
<1>2. i \in 0 .. Len(input.bursts) - 1
  <2>1. CASE LogsAll
    BY <2>1 DEF Logged
  <2>2. CASE ~LogsAll
    <3>1. /\ Logging.form = "set" /\ \A t \in Range(Logging.items) : IsPositive(t)
          /\ \A x \in SetPositiveInt64(Logging) : x < Len(input.bursts)
          /\ Logged = SetPositiveInt64(Logging)
      BY <1>1, <2>2 DEF IsLogging, Logged, IsSetPositiveInt64, IsSetString, AllItemsAreLessThan
    <3>2. Logging.items \in Seq(Token)
      <4>1. CASE LoggingKey \in DOMAIN config
        BY <1>1, <3>1, <4>1, InputAssumption DEF Logging, ParamOrDefault, HasParam, config
      <4>2. CASE LoggingKey \notin DOMAIN config
        BY <4>2 DEF Logging, ParamOrDefault, HasParam
      <4> QED BY <4>1, <4>2
    <3>3. PICK t \in Range(Logging.items) : i = Int64(t)
      BY <3>1 DEF SetPositiveInt64
    <3>4. t \in Token
      BY <3>2 DEF Range
    <3>5. i \in Int /\ i >= 0
      BY <3>1, <3>3, <3>4 DEF IsPositive, IsInt64, Int64, Token
    <3> QED BY <1>1, <3>1, <3>5
  <2> QED BY <2>1, <2>2
<1>3. i \in Id /\ i + 1 \in DOMAIN input.bursts
  BY <1>1, <1>2 DEF Id
<1> QED BY <1>1, <1>3 DEF Valid

(* Every node is on a system of the run.                                     *)
LEMMA SomeSystemHasIt ==
  ASSUME FilesInv, NEW a \in Endpoint, stage[0] \in AfterSchedule
  PROVE  \E s \in System : s \in 0 .. input.np - 1 /\ IsOnThisSystem(a, s)
<1>1. /\ input \in Input /\ NumSystems \in Nat \ {0} /\ input.np \in 1 .. NumSystems
      /\ a \in 0 .. NumNodes - 1 /\ NumNodes \in Nat
  BY InputAssumption, BurstAssumption DEF FilesInv, BasicTyped
<1>2. 0 \in System /\ 0 \in 0 .. input.np - 1
  BY <1>1 DEF System
<1>3. CASE ~Distributed
  BY <1>2, <1>3 DEF IsOnThisSystem
<1>4. CASE Distributed
  <2> DEFINE list == config["distributed_node_system_id_assignment"]
  <2>1. IsDistribution /\ Len(Assignment) = NumNodes
    BY <1>2, <1>4 DEF FilesInv, StageSound, AfterConstruct, AfterTopology
  <2>2. /\ list.form = "list" /\ \A t \in Range(list.items) : IsPositive(t)
        /\ \A x \in Range(Assignment) : x < input.np
        /\ "distributed_node_system_id_assignment" \in DOMAIN config
    BY <2>1 DEF IsDistribution, IsListPositiveInt64, AllItemsAreLessThan, HasParam, DistributedKeys
  <2>3. list.items \in Seq(Token)
    BY <1>1, <2>2, InputAssumption DEF config
  <2>4. Assignment = [k \in 1 .. Len(list.items) |-> Int64(list.items[k])]
    BY <2>3 DEF Assignment, ListPositiveInt64
  <2>5. Len(Assignment) = Len(list.items)
    <3>1. Len(list.items) \in Nat
      BY <2>3
    <3> HIDE DEF list
    <3> QED BY <2>4, <3>1
  <2>6. a + 1 \in 1 .. Len(list.items)
    BY <1>1, <2>1, <2>5
  <2>7. Assignment[a + 1] = Int64(list.items[a + 1]) /\ Assignment[a + 1] \in Range(Assignment)
    BY <2>4, <2>6 DEF Range
  <2>8. list.items[a + 1] \in Token /\ list.items[a + 1] \in Range(list.items)
    BY <2>3, <2>6 DEF Range
  <2>9. Int64(list.items[a + 1]) \in Int /\ Int64(list.items[a + 1]) >= 0
    BY <2>2, <2>8 DEF IsPositive, IsInt64, Int64, Token
  <2>10. Assignment[a + 1] \in 0 .. input.np - 1 /\ Assignment[a + 1] \in System
    BY <1>1, <2>2, <2>7, <2>9 DEF System
  <2> QED BY <2>10 DEF IsOnThisSystem
<1> QED BY <1>3, <1>4

(* The precise logs are those of the run, in any sequence of runs over the   *)
(* same run directory: the server's emptied, the client's appended to.       *)
THEOREM LogsTrue == Spec => []LogsRecordTheRun
<1>1. FilesInv /\ MemoryInv => LogsRecordTheRun
  <2> SUFFICES ASSUME FilesInv, MemoryInv, Enabled, input.np > 0, Prepared, NEW i \in Logged
               PROVE  /\ Len(inLog[i]) = received[i] /\ IsInjective(inLog[i])
                      /\ \A k \in DOMAIN inLog[i] :
                           inLog[i][k][1] = runs /\ inLog[i][k][2] \in 0 .. sent[i] - 1
                      /\ Len(outLog[i]) >= sent[i]
                      /\ \A k \in 1 .. Len(outLog[i]) :
                           outLog[i][k][1] = runs <=> k > Len(outLog[i]) - sent[i]
                      /\ \A k \in 1 .. sent[i] :
                           outLog[i][Len(outLog[i]) - sent[i] + k] = <<runs, k - 1>>
    BY DEF LogsRecordTheRun
  <2>1. \A s \in 0 .. input.np - 1 : stage[s] \in AfterSchedule
    BY DEF Prepared, Written, AfterSchedule
  <2>2. 0 \in System /\ stage[0] \in AfterSchedule
    BY <2>1, InputAssumption DEF FilesInv, BasicTyped, System
  <2>3. i \in Id /\ Valid(i)
    BY <2>2, LoggedIsValid DEF FilesInv, StageSound
  <2>4. Entry(i).to \in Endpoint
    BY <2>3, ValidEntry DEF FilesInv
  <2>5. Emptied(i)
    BY <2>1, <2>2, <2>3, <2>4, SomeSystemHasIt DEF Emptied
  <2>6. OutLogSound(i) /\ InLogSound(i)
    BY <2>3 DEF MemoryInv, LogsSound
  <2>7. /\ inLog[i] \in Seq(Nat \X Nat) /\ outLog[i] \in Seq(Nat \X Nat)
        /\ sent[i] \in Nat
    BY <2>3 DEF MemoryInv, MemoryTyped
  <2>8. /\ Len(inLog[i]) = received[i] /\ IsInjective(inLog[i])
        /\ \A k \in 1 .. Len(inLog[i]) : inLog[i][k][1] = runs /\ inLog[i][k][2] < sent[i]
    BY <2>5, <2>6 DEF InLogSound
  <2>9. ASSUME NEW k \in DOMAIN inLog[i]
        PROVE  inLog[i][k][1] = runs /\ inLog[i][k][2] \in 0 .. sent[i] - 1
    <3>1. k \in 1 .. Len(inLog[i]) /\ inLog[i][k][2] \in Nat
      BY <2>7
    <3> QED BY <2>7, <2>8, <3>1
  <2>10. /\ sent[i] <= Len(outLog[i])
         /\ \A k \in 1 .. Len(outLog[i]) : outLog[i][k][1] = runs <=> k > Len(outLog[i]) - sent[i]
         /\ \A k \in 1 .. sent[i] : outLog[i][Len(outLog[i]) - sent[i] + k] = <<runs, k - 1>>
    BY <2>6 DEF OutLogSound
  <2> QED BY <2>7, <2>8, <2>9, <2>10
<1> QED BY <1>1, MemoryAlways, PTL

-----------------------------------------------------------------------------
(* Lemmas for the tables of results.                                         *)

(* The keys of a C++ map, from the smallest to the largest, each once.       *)
LEMMA SortedIdsFacts ==
  ASSUME NEW S \in SUBSET Nat, IsFiniteSet(S)
  PROVE  /\ Cardinality(S) \in Nat /\ DOMAIN SortedIds(S) = 1 .. Cardinality(S)
         /\ \A k \in DOMAIN SortedIds(S) : SortedIds(S)[k] \in S
         /\ \A x \in S : \E k \in DOMAIN SortedIds(S) : SortedIds(S)[k] = x
         /\ \A j, k \in DOMAIN SortedIds(S) : j < k => SortedIds(S)[j] < SortedIds(S)[k]
<1> DEFINE n == Cardinality(S)
           Below(x) == {y \in S : y < x}
           rank == [x \in S |-> Cardinality(Below(x)) + 1]
           q == SortedIds(S)
<1>1. n \in Nat
  BY FS_CardinalityType
<1>2. \A x \in S : IsFiniteSet(Below(x)) /\ Cardinality(Below(x)) \in Nat
  BY FS_Subset, FS_CardinalityType
<1>3. ASSUME NEW x \in S, NEW y \in S, x < y PROVE rank[x] < rank[y]
  <2>1. Below(x) \cup {x} \in SUBSET Below(y) /\ x \notin Below(x)
    <3>1. x \in Nat /\ y \in Nat /\ \A z \in S : z \in Nat /\ (z < x => z < y)
      BY <1>3
    <3>2. x \in Below(y) /\ x \notin Below(x) /\ \A z \in Below(x) : z \in Below(y)
      BY <1>3, <3>1
    <3> HIDE DEF Below
    <3> QED BY <3>2
  <2>2. Cardinality(Below(x) \cup {x}) = Cardinality(Below(x)) + 1
    <3> HIDE DEF Below
    <3> QED BY <1>2, <2>1, FS_AddElement
  <2>3. Cardinality(Below(x) \cup {x}) <= Cardinality(Below(y))
    <3> HIDE DEF Below
    <3> QED BY <1>2, <2>1, FS_Subset
  <2> QED BY <1>2, <2>2, <2>3
<1>4. ASSUME NEW x \in S PROVE rank[x] \in 1 .. n
  <2>1. Below(x) \in SUBSET (S \ {x})
    OBVIOUS
  <2>2. IsFiniteSet(S \ {x}) /\ Cardinality(S \ {x}) = n - 1
    BY FS_RemoveElement
  <2>3. Cardinality(Below(x)) <= n - 1
    <3> HIDE DEF Below
    <3> QED BY <2>1, <2>2, FS_Subset
  <2>4. rank[x] = Cardinality(Below(x)) + 1 /\ Cardinality(Below(x)) \in Nat
    BY <1>2
  <2> HIDE DEF rank, Below
  <2> QED BY <1>1, <2>3, <2>4
<1>5. \A x, y \in S : rank[x] = rank[y] => x = y
  <2>1. \A x \in S : rank[x] \in Int /\ x \in Int
    BY <1>1, <1>4
  <2> HIDE DEF rank
  <2> QED BY <1>3, <2>1
<1>6. rank \in Surjection(S, 1 .. n)
  <2>1. rank \in Injection(S, 1 .. n)
    <3>1. rank \in [S -> 1 .. n]
      BY <1>4
    <3> HIDE DEF rank
    <3> QED BY <1>5, <3>1 DEF Injection, IsInjective
  <2>2. IsFiniteSet(1 .. n) /\ Cardinality(1 .. n) = n
    BY <1>1, FS_Interval
  <2> HIDE DEF rank
  <2> QED BY <2>1, <2>2, FS_Injection
<1>7. ASSUME NEW k \in 1 .. n PROVE q[k] \in S /\ rank[q[k]] = k
  <2>1. \E x \in S : rank[x] = k
    <3> HIDE DEF rank
    <3> QED BY <1>6 DEF Surjection
  <2>2. \E x \in S : Cardinality({y \in S : y < x}) = k - 1
    <3>1. PICK x \in S : rank[x] = k
      BY <2>1
    <3>2. rank[x] = Cardinality(Below(x)) + 1 /\ Cardinality(Below(x)) \in Nat
      BY <1>2
    <3>3. Cardinality(Below(x)) = k - 1
      <4> HIDE DEF rank, Below
      <4> QED BY <3>1, <3>2
    <3> QED BY <3>3
  <2>3. q[k] = CHOOSE x \in S : Cardinality({y \in S : y < x}) = k - 1
    BY DEF SortedIds
  <2>4. q[k] \in S /\ Cardinality({y \in S : y < q[k]}) = k - 1
    BY <2>2, <2>3
  <2> QED BY <1>1, <2>4
<1>8. DOMAIN q = 1 .. n
  BY DEF SortedIds
<1>9. \A x \in S : \E k \in 1 .. n : q[k] = x
  <2> HIDE DEF q, rank
  <2> QED BY <1>4, <1>5, <1>7
<1>10. ASSUME NEW j \in 1 .. n, NEW k \in 1 .. n, j < k PROVE q[j] < q[k]
  <2>1. q[j] \in Nat /\ q[k] \in Nat /\ ~ (q[j] = q[k]) /\ ~ (rank[q[k]] < rank[q[j]])
    <3>1. q[j] \in S /\ q[k] \in S /\ rank[q[j]] = j /\ rank[q[k]] = k
      BY <1>7
    <3>2. j \in Nat /\ k \in Nat /\ j # k /\ ~ (k < j)
      BY <1>1, <1>10
    <3> HIDE DEF q, rank
    <3>3. q[j] \in Nat /\ q[k] \in Nat
      BY <3>1
    <3>4. q[j] # q[k]
      BY <3>1, <3>2
    <3> QED BY <3>1, <3>2, <3>3, <3>4
  <2> HIDE DEF q, rank
  <2> QED BY <1>3, <1>7, <2>1
<1> HIDE DEF q
<1> QED BY <1>1, <1>7, <1>8, <1>9, <1>10 DEF q

LEMMA NextMultiple ==
  ASSUME NEW a \in Nat, NEW g \in Nat
  PROVE  /\ a * g \in Nat /\ (a + 1) * g = a * g + g /\ 0 * g = 0
         /\ a >= 1 => (a - 1) * g \in Nat /\ a * g = (a - 1) * g + g
OBVIOUS

LEMMA GapIsNat ==
  ASSUME NEW a \in Nat, NEW b \in Nat \ {0}
  PROVE  a \div b \in Nat
OBVIOUS

-----------------------------------------------------------------------------
(* The invariant of what is sent, counted and reported.                      *)

(* When the systems are where: nothing has happened before all simulate, and *)
(* after that time stands at its end.                                        *)
TimeSound(s) ==
  /\ stage[s] \in AfterConstruct => EndTime \in Nat
  /\ stage[s] \in Setup => now = 0 /\ outgoing[s] = <<>>
  /\ stage[s] = "running" => now < EndTime
  /\ stage[s] = "results" \/ Written(s) => now = EndTime

(* The entries of a system that its clients are installed for.               *)
Begun(s) == IF event[s] = 0 THEN Len(schedule[s]) ELSE event[s] - 1

EntriesSound(s) ==
  /\ stage[s] \in AfterSchedule /\ Enabled => schedule[s] = OwnEntries(s)
  /\ Range(outgoing[s]) = {schedule[s][k].id : k \in 1 .. Begun(s)}
  /\ event[s] # 0 => NextEntry(s).start >= now

(* A client starts when its entry says, and sends at its rate from then on.  *)
StartSound(i) ==
  /\ startTime[i] = Never => sendAt[i] = Never /\ sent[i] = 0
  /\ i \in Installed /\ startTime[i] = Never => Entry(i).start = now
  /\ startTime[i] # Never => Valid(i) /\ startTime[i] = Entry(i).start

PaceSound(i) ==
  /\ startTime[i] # Never /\ sendAt[i] = Never =>
       sent[i] >= 1 /\ Entry(i).duration <= sent[i] * Gap(i)
  /\ sendAt[i] # Never =>
       /\ sendAt[i] = Entry(i).start + sent[i] * Gap(i) /\ sendAt[i] >= now
       /\ sent[i] >= 1 => sent[i] * Gap(i) < Entry(i).duration
  /\ sent[i] >= 1 => Entry(i).start + (sent[i] - 1) * Gap(i) < EndTime
  /\ sent[i] >= 2 => (sent[i] - 1) * Gap(i) < Entry(i).duration

OfBurst(i) == {m \in net : m.id = i}
CountSound(i) == received[i] + Cardinality(OfBurst(i)) <= sent[i]

ReportSound(s) ==
  /\ stage[s] = "none" => report[s] = NoReport
  /\ Written(s) /\ Enabled => report[s] = Tables(s)

BurstsInv ==
  /\ IsFiniteSet(net) /\ report = [s \in System |-> report[s]]
  /\ \A s \in System : TimeSound(s) /\ EntriesSound(s) /\ ReportSound(s)
  /\ \A i \in Id : StartSound(i) /\ PaceSound(i) /\ CountSound(i)

(* An accepted line of the schedule, as numbers.                             *)
LEMMA EntryShape ==
  ASSUME BasicTyped, NEW i \in Id, Valid(i)
  PROVE  /\ Entry(i).start \in Nat /\ Entry(i).duration \in Nat /\ Entry(i).start < EndTime
         /\ Entry(i).from \in Endpoint /\ Gap(i) \in Nat
<1>1. /\ i + 1 \in DOMAIN input.bursts /\ i \in Int /\ SegmentTime \in Nat \ {0}
      /\ input.bursts \in Seq(BurstLine)
  BY BurstAssumption DEF Valid, Id, BasicTyped
<1> DEFINE l == input.bursts[i + 1]
<1>2. l \in BurstLine
  BY <1>1
<1>3. /\ Entry(i).start = Int64(l.start) /\ Entry(i).duration = Int64(l.duration)
      /\ Entry(i).rate = Int64(l.rate) /\ Entry(i).from = Int64(l.from)
  BY <1>1, <1>2 DEF Entry, Complete, ReadSchedule, BurstLine
<1>4. IsEntry(l, i + 1)
  BY <1>1 DEF Valid, IsSchedule
<1>5. Int64(l.start) \in Nat /\ Int64(l.duration) \in Nat /\ Int64(l.rate) \in Nat
  BY <1>2, <1>4 DEF BurstLine, IsEntry, IsPositive, IsInt64, Int64, Token
<1>6. Int64(l.rate) # 0 /\ Int64(l.start) < EndTime /\ Int64(l.from) \in Endpoint
  BY <1>4 DEF IsEntry
<1>7. Entry(i).rate \in Nat \ {0} /\ SegmentTime + Entry(i).rate - 1 \in Nat
  BY <1>1, <1>3, <1>5, <1>6
<1>8. Gap(i) \in Nat
  BY <1>7, GapIsNat DEF Gap
<1> QED BY <1>3, <1>5, <1>6, <1>8

(* What a system keeps of the schedule: the entries that start on it, all of *)
(* them, in the order of their start.                                        *)
LEMMA OwnEntriesOrdered ==
  ASSUME BasicTyped, IsSchedule(input.bursts), Enabled, NEW s
  PROVE  /\ \A k \in 1 .. Len(OwnEntries(s)) :
              /\ OwnEntries(s)[k] = Entry(OwnEntries(s)[k].id)
              /\ IsOnThisSystem(OwnEntries(s)[k].from, s)
         /\ \A j, k \in 1 .. Len(OwnEntries(s)) :
              j <= k => OwnEntries(s)[j].start <= OwnEntries(s)[k].start
         /\ \A i \in Id : Valid(i) /\ IsOnThisSystem(Entry(i).from, s) =>
              \E k \in 1 .. Len(OwnEntries(s)) : OwnEntries(s)[k].id = i
<1> DEFINE keep == {e \in Range(Complete) : IsOnThisSystem(e.from, s)}
           S == {Complete[k] : k \in DOMAIN Complete}
           own == OwnEntries(s)
           n == Len(input.bursts)
<1>1. /\ input.bursts \in Seq(BurstLine) /\ n \in Nat /\ DOMAIN input.bursts = 1 .. n
      /\ Id \subseteq Int
  BY BurstAssumption DEF BasicTyped, Id
<1>2. DOMAIN Complete = 1 .. n /\ Complete \in [1 .. n -> S]
  BY <1>1 DEF Complete, ReadSchedule
<1>3. Complete \in Seq(S) /\ Len(Complete) = n
  <2> HIDE DEF S, n
  <2>1. Complete \in Seq(S)
    BY <1>1, <1>2, SeqDef
  <2> QED BY <1>1, <1>2, <2>1, LenProperties
<1>4. own = Kept(Complete, keep)
  BY DEF OwnEntries
<1>5. ASSUME NEW k \in 1 .. n
      PROVE  /\ k - 1 \in Id /\ Valid(k - 1) /\ Complete[k] = Entry(k - 1)
             /\ Complete[k].id = k - 1 /\ Complete[k].start \in Int
  <2>1. k - 1 \in Id /\ Complete[k] = Entry(k - 1) /\ Complete[k].id = k - 1 /\ k \in Nat
    BY <1>1, EntryFacts
  <2>2. Valid(k - 1)
    BY <1>1, <2>1 DEF Valid
  <2>3. Entry(k - 1).start \in Int
    BY <2>1, <2>2, EntryShape
  <2> QED BY <2>1, <2>2, <2>3
<1>6. \A j, k \in 1 .. n : j <= k => Complete[j].start <= Complete[k].start
  <2> DEFINE f == [k \in 1 .. n |-> Complete[k].start]
  <2>1. \A k \in 1 .. n : f[k] \in Int /\ f[k] = Complete[k].start
    BY <1>5
  <2>2. ASSUME NEW k \in 2 .. n PROVE f[k - 1] <= f[k]
    <3>1. k \in 1 .. n /\ k - 1 \in 1 .. n /\ k > 1
      BY <1>1
    <3>2. Int64(input.bursts[k - 1].start) <= Int64(input.bursts[k].start)
      BY <1>1, <3>1 DEF IsSchedule
    <3>3. \A j \in 1 .. n : Complete[j].start = Int64(input.bursts[j].start)
      <4> TAKE j \in 1 .. n
      <4>1. input.bursts[j] \in BurstLine
        BY <1>1
      <4> QED BY <1>1, <4>1 DEF Complete, ReadSchedule, BurstLine
    <3> HIDE DEF n
    <3> QED BY <2>1, <3>1, <3>2, <3>3
  <2> HIDE DEF f, n
  <2>3. \A i, j \in 1 .. n : i <= j => f[i] <= f[j]
    BY <1>1, <2>1, <2>2, AscendsFromNeighbours
  <2> QED BY <2>1, <2>3
<1> HIDE DEF S, keep, own, n
<1>7. own \in Seq(S) /\ Len(own) \in Nat
  BY <1>3, <1>4, KeptEmbeds
<1>8. PICK h : Embeds(h, own, Complete, keep, n)
  BY <1>3, <1>4, KeptEmbeds
<1>9. ASSUME NEW k \in 1 .. Len(own)
      PROVE  /\ h[k] \in 1 .. n /\ own[k] = Complete[h[k]]
             /\ own[k] = Entry(own[k].id) /\ IsOnThisSystem(own[k].from, s)
  <2>1. h[k] \in 1 .. n /\ own[k] = Complete[h[k]] /\ own[k] \in keep
    BY <1>8 DEF Embeds
  <2> QED BY <1>5, <2>1 DEF keep
<1>10. ASSUME NEW j \in 1 .. Len(own), NEW k \in 1 .. Len(own), j <= k
       PROVE  own[j].start <= own[k].start
  <2>1. j < k => h[j] < h[k]
    BY <1>8 DEF Embeds
  <2>2. h[j] \in 1 .. n /\ h[k] \in 1 .. n /\ h[j] <= h[k]
    <3>1. h[j] \in 1 .. n /\ h[k] \in 1 .. n
      BY <1>9
    <3>2. j = k \/ j < k
      BY <1>7, <1>10
    <3> QED BY <1>1, <2>1, <3>1, <3>2
  <2> QED BY <1>6, <1>9, <2>2
<1>11. ASSUME NEW i \in Id, Valid(i), IsOnThisSystem(Entry(i).from, s)
       PROVE  \E k \in 1 .. Len(own) : own[k].id = i
  <2>1. i + 1 \in 1 .. n /\ Complete[i + 1] = Entry(i) /\ Entry(i).id = i
    BY <1>1, <1>11, ValidEntry DEF Valid, Entry
  <2>2. Complete[i + 1] \in keep
    BY <1>2, <1>11, <2>1 DEF keep, Range
  <2>3. \E k \in 1 .. Len(own) : h[k] = i + 1
    BY <1>8, <2>1, <2>2 DEF Embeds
  <2> QED BY <1>9, <2>1, <2>3
<1> QED BY <1>9, <1>10, <1>11 DEF own

LEMMA ClockKept ==
  ASSUME UNCHANGED input
  PROVE  /\ EndTime' = EndTime /\ \A t : StageAt(t)' = StageAt(t)
         /\ \A i : Entry(i)' = Entry(i) /\ Gap(i)' = Gap(i) /\ Valid(i)' = Valid(i)
<1>1. config' = config /\ \A i : Entry(i)' = Entry(i) /\ Valid(i)' = Valid(i)
  BY InputKept
<1>2. EndTime' = EndTime
  BY <1>1 DEF EndTime, Scalar
<1> QED BY <1>1, <1>2 DEF Gap, StageAt

(* A step that leaves the entries, the clients or the tables alone.          *)
LEMMA EntriesKept ==
  ASSUME BurstsInv, UNCHANGED <<input, now, schedule, event, outgoing>>,
         \A s \in System : stage'[s] \in AfterSchedule => stage[s] \in AfterSchedule
  PROVE  \A s \in System : EntriesSound(s)'
<1> SUFFICES ASSUME NEW s \in System PROVE EntriesSound(s)'
  OBVIOUS
<1>1. EntriesSound(s) /\ Enabled' = Enabled /\ OwnEntries(s)' = OwnEntries(s)
  BY InputKept DEF BurstsInv
<1>2. Begun(s)' = Begun(s) /\ NextEntry(s)' = NextEntry(s)
  BY DEF Begun, NextEntry
<1> QED BY <1>1, <1>2 DEF EntriesSound

LEMMA ClientKept ==
  ASSUME BurstsInv, UNCHANGED <<input, now>>, NEW i \in Id,
         startTime'[i] = startTime[i], sendAt'[i] = sendAt[i], sent'[i] = sent[i],
         i \in Installed' => i \in Installed
  PROVE  StartSound(i)' /\ PaceSound(i)'
<1>1. /\ StartSound(i) /\ PaceSound(i) /\ Entry(i)' = Entry(i) /\ Gap(i)' = Gap(i)
      /\ Valid(i)' = Valid(i) /\ EndTime' = EndTime
  BY ClockKept DEF BurstsInv
<1>2. StartSound(i)'
  BY <1>1 DEF StartSound
<1>3. PaceSound(i)'
  BY <1>1 DEF PaceSound
<1> QED BY <1>2, <1>3

LEMMA TablesKept ==
  ASSUME UNCHANGED <<input, sent, received>>, NEW s, outgoing'[s] = outgoing[s],
         registered'[s] = registered[s]
  PROVE  Tables(s)' = Tables(s)
<1>1. EndTime' = EndTime /\ \A i : Entry(i)' = Entry(i)
  BY ClockKept
<1>2. \A i, packets : Row(i, packets)' = Row(i, packets)
  BY <1>1 DEF Row, EffectiveDuration
<1> QED BY <1>2 DEF Tables

LEMMA ReportsKept ==
  ASSUME BurstsInv, UNCHANGED <<input, outgoing, sent, received, report>>,
         \A s \in System : /\ stage'[s] = "none" => stage[s] = "none"
                           /\ Written(s)' => (Written(s) /\ registered'[s] = registered[s])
  PROVE  \A s \in System : ReportSound(s)'
<1> SUFFICES ASSUME NEW s \in System PROVE ReportSound(s)'
  OBVIOUS
<1>1. ReportSound(s) /\ Enabled' = Enabled
  BY InputKept DEF BurstsInv
<1>2. ASSUME registered'[s] = registered[s] PROVE Tables(s)' = Tables(s)
  BY <1>2, TablesKept
<1> QED BY <1>1, <1>2 DEF ReportSound

(* A step that moves stages, and time stays.                                 *)
LEMMA QuietBursts ==
  ASSUME BurstsInv, UNCHANGED <<input, now, bursts>>,
         \A s \in System : /\ TimeSound(s)'
                           /\ stage'[s] \in AfterSchedule => stage[s] \in AfterSchedule
                           /\ stage'[s] = "none" => stage[s] = "none"
                           /\ Written(s)' => Written(s)
  PROVE  BurstsInv'
<1>1. /\ UNCHANGED <<schedule, event, registered, outgoing, startTime, sendAt, sent, received>>
      /\ UNCHANGED <<net, report>>
  BY DEF bursts, memory
<1>2. \A s \in System : EntriesSound(s)'
  BY <1>1, EntriesKept
<1>3. \A s \in System : ReportSound(s)'
  BY <1>1, ReportsKept
<1>4. \A i \in Id : StartSound(i)' /\ PaceSound(i)'
  BY <1>1, ClientKept DEF Installed
<1>5. \A i \in Id : CountSound(i)'
  BY <1>1 DEF BurstsInv, CountSound, OfBurst
<1> QED BY <1>1, <1>2, <1>3, <1>4, <1>5 DEF BurstsInv

(* While the systems simulate, nothing is reported yet.                      *)
LEMMA SimulatingNow ==
  ASSUME FilesInv, BurstsInv, Simulating
  PROVE  /\ now \in Nat /\ EndTime \in Nat /\ now < EndTime
         /\ \A s \in System : stage[s] \in {"running", "none"} /\ stage[s] \notin Setup /\ ~Written(s)
<1>0. input \in Input /\ NumSystems \in Nat \ {0} /\ input.np \in 1 .. NumSystems
  BY InputAssumption DEF FilesInv, BasicTyped
<1>1. 0 \in System /\ stage[0] = "running"
  BY <1>0 DEF Simulating, System
<1>2. TimeSound(0)
  BY <1>1 DEF BurstsInv
<1>3. now < EndTime /\ EndTime \in Nat /\ now \in Nat
  BY <1>1, <1>2 DEF TimeSound, AfterConstruct, AfterTopology, AfterSchedule, FilesInv, BasicTyped
<1>4. \A s \in System : stage[s] \in {"running", "none"} /\ stage[s] \notin Setup
  BY SimulatingIsPastSetup
<1> QED BY <1>3, <1>4 DEF Written

(* A step of the simulation at one point of time: nothing is written.        *)
LEMMA SimulatedKeeps ==
  ASSUME FilesInv, BurstsInv, Simulating, UNCHANGED <<input, now, report>>,
         \A s \in System : stage'[s] = stage[s] \/ stage'[s] = "dead"
  PROVE  /\ \A s \in System : TimeSound(s)' /\ ReportSound(s)'
         /\ report' = [s \in System |-> report'[s]]
<1>1. /\ EndTime \in Nat /\ now < EndTime /\ EndTime' = EndTime
      /\ \A s \in System : stage[s] \in {"running", "none"}
  BY SimulatingNow, ClockKept
<1>2. ASSUME NEW s \in System PROVE TimeSound(s)' /\ ReportSound(s)'
  <2>1. stage'[s] \in {"running", "none", "dead"} /\ (stage'[s] = "none" => stage[s] = "none")
    BY <1>1
  <2>2. stage'[s] \notin Setup /\ ~Written(s)'
    BY <2>1 DEF Setup, Written
  <2>3. TimeSound(s)'
    BY <1>1, <2>1, <2>2 DEF TimeSound
  <2>4. ReportSound(s)'
    BY <2>1, <2>2 DEF ReportSound, BurstsInv
  <2> QED BY <2>3, <2>4
<1>3. report' = [s \in System |-> report'[s]]
  BY DEF BurstsInv
<1> QED BY <1>2, <1>3

(* The memory of processes that have just been started.                      *)
Fresh ==
  /\ \A s \in System : /\ stage[s] \in {"none", "construct"} /\ schedule[s] = <<>>
                       /\ event[s] = 0 /\ outgoing[s] = <<>>
  /\ \A i \in Id : startTime[i] = Never /\ sendAt[i] = Never /\ sent[i] = 0 /\ received[i] = 0
  /\ net = {} /\ report = [s \in System |-> NoReport] /\ now = 0

LEMMA FreshIsSound == Fresh => BurstsInv
<1> SUFFICES ASSUME Fresh PROVE BurstsInv
  OBVIOUS
<1> USE DEF Fresh
<1>1. \A s \in System : TimeSound(s) /\ ReportSound(s)
  BY DEF TimeSound, ReportSound, Written, AfterConstruct, AfterTopology, AfterSchedule, Setup
<1>2. ASSUME NEW s \in System PROVE EntriesSound(s) /\ Range(outgoing[s]) = {}
  <2>1. Begun(s) = 0 /\ Range(outgoing[s]) = {}
    BY DEF Begun, Range
  <2> QED BY <2>1 DEF EntriesSound, AfterSchedule
<1>3. Installed = {}
  BY <1>2 DEF Installed
<1>4. ASSUME NEW i \in Id PROVE StartSound(i) /\ PaceSound(i) /\ CountSound(i)
  <2>1. OfBurst(i) = {}
    BY DEF OfBurst
  <2>2. CountSound(i)
    BY <2>1, FS_EmptySet DEF CountSound
  <2> QED BY <1>3, <2>2 DEF StartSound, PaceSound
<1>5. IsFiniteSet(net) /\ report = [s \in System |-> report[s]]
  BY FS_EmptySet
<1> QED BY <1>1, <1>2, <1>4, <1>5 DEF BurstsInv

LEMMA LaunchBursts ==
  ASSUME NEW in \in Input, Launch(in), FreshMemory
  PROVE  BurstsInv'
<1>1. Fresh'
  BY DEF Launch, FreshMemory, Fresh
<1> QED BY <1>1, FreshIsSound, PTL

LEMMA BurstsInit == Init => BurstsInv
BY FreshIsSound DEF Init, BasicInit, Fresh

LEMMA KillBursts ==
  ASSUME FilesInv, BurstsInv, Kill, UNCHANGED bursts
  PROVE  BurstsInv'
<1>1. /\ UNCHANGED <<input, now, outgoing>>
      /\ \A s \in System : stage'[s] = IF Over(s) THEN stage[s] ELSE "dead"
  BY DEF Kill, bursts, memory
<1>2. EndTime' = EndTime /\ \A s \in System : TimeSound(s)
  BY <1>1, ClockKept DEF BurstsInv
<1>3. ASSUME NEW s \in System
      PROVE  /\ TimeSound(s)' /\ (stage'[s] \in AfterSchedule => stage[s] \in AfterSchedule)
             /\ (stage'[s] = "none" => stage[s] = "none") /\ (Written(s)' => Written(s))
  <2>1. CASE stage'[s] = stage[s]
    BY <1>1, <1>2, <2>1 DEF TimeSound, Written
  <2>2. CASE stage'[s] = "dead"
    BY <2>2 DEF TimeSound, Written, Setup, AfterConstruct, AfterTopology, AfterSchedule
  <2> QED BY <1>1, <2>1, <2>2
<1> QED BY <1>1, <1>3, QuietBursts

(* A system goes on to its next stage, at the same time.                     *)
LEMMA OneMoves ==
  ASSUME FilesInv, BurstsInv, NEW s \in System, UNCHANGED <<input, now, bursts>>, NEW next,
         Goto(s, next), TimeSound(s)', next # "none",
         next \in AfterSchedule => stage[s] \in AfterSchedule, Written(s)' => Written(s)
  PROVE  BurstsInv'
<1>1. \A t \in System : stage'[t] = IF t = s THEN next ELSE stage[t]
  BY DEF Goto, FilesInv, BasicTyped
<1>2. EndTime' = EndTime /\ UNCHANGED outgoing
  BY ClockKept DEF bursts, memory
<1>3. ASSUME NEW t \in System
      PROVE  /\ TimeSound(t)' /\ (stage'[t] \in AfterSchedule => stage[t] \in AfterSchedule)
             /\ (stage'[t] = "none" => stage[t] = "none") /\ (Written(t)' => Written(t))
  <2>1. CASE t = s
    BY <1>1, <2>1
  <2>2. CASE t # s
    BY <1>1, <1>2, <2>2 DEF TimeSound, Written, BurstsInv
  <2> QED BY <2>1, <2>2
<1> QED BY <1>3, QuietBursts

LEMMA ConstructBursts ==
  ASSUME FilesInv, BurstsInv, NEW s \in System, ReadConfigAndConfigureSimulation(s), UNCHANGED bursts
  PROVE  BurstsInv'
<1>1. UNCHANGED <<input, now, outgoing>> /\ stage[s] = "construct" /\ stage \in [System -> Stage]
  BY DEF ReadConfigAndConfigureSimulation, bursts, memory, FilesInv, BasicTyped
<1>2. now = 0 /\ outgoing[s] = <<>>
  BY <1>1 DEF BurstsInv, TimeSound, Setup
<1>3. CASE ThrowIn(s, "setup")
  <2>1. Goto(s, "dead") /\ stage'[s] = "dead"
    BY <1>1, <1>3 DEF ThrowIn, Goto
  <2>2. TimeSound(s)' /\ ~Written(s)'
    BY <2>1 DEF TimeSound, Written, Setup, AfterConstruct, AfterTopology, AfterSchedule
  <2> QED BY <1>1, <2>1, <2>2, OneMoves DEF AfterSchedule
<1>4. CASE Goto(s, "prepare") /\ HasPositive("simulation_end_time_ns")
  <2>1. stage'[s] = "prepare"
    BY <1>1, <1>4 DEF Goto
  <2>2. Scalar("simulation_end_time_ns") \in Token /\ IsPositive(Scalar("simulation_end_time_ns"))
    BY <1>4, InputAssumption DEF HasPositive, HasParam, Scalar, config, FilesInv, BasicTyped
  <2>3. EndTime \in Nat /\ EndTime' = EndTime
    BY <1>1, <2>2, ClockKept DEF EndTime, IsPositive, IsInt64, Int64, Token
  <2>4. TimeSound(s)' /\ ~Written(s)'
    BY <1>1, <1>2, <2>1, <2>3
       DEF TimeSound, Written
  <2> QED BY <1>1, <1>4, <2>4, OneMoves DEF AfterSchedule
<1> QED BY <1>3, <1>4 DEF ReadConfigAndConfigureSimulation

LEMMA BasicStepBursts ==
  ASSUME FilesInv, BurstsInv, NEW s \in System, BasicStep(s), UNCHANGED bursts
  PROVE  BurstsInv'
<1>1. CASE ReadConfigAndConfigureSimulation(s)
  BY <1>1, ConstructBursts
<1>2. ASSUME ~ReadConfigAndConfigureSimulation(s) PROVE BurstsInv'
  <2>1. /\ UNCHANGED <<input, now, outgoing>> /\ stage \in [System -> Stage] /\ TimeSound(s)
    BY <1>2 DEF BasicStep, PrepareBasicSimulationLogFiles, WriteFinished, LoadTopology, ConfigureTcp,
                Run, CleanUpSimulation, StoreTimingResults, bursts, memory, FilesInv, BasicTyped,
                BurstsInv
  <2>2. EndTime' = EndTime
    BY <2>1, ClockKept
  <2>3. ASSUME Goto(s, "dead") PROVE BurstsInv'
    <3>1. stage'[s] = "dead"
      BY <2>1, <2>3 DEF Goto
    <3>2. TimeSound(s)' /\ ~Written(s)'
      BY <3>1 DEF TimeSound, Written, Setup, AfterConstruct, AfterTopology, AfterSchedule
    <3> QED BY <2>1, <2>3, <3>2, OneMoves DEF AfterSchedule
  <2>4. ASSUME NEW next \in {"write_no", "topology", "tcp", "schedulers"}, Goto(s, next),
               stage[s] \in {"prepare", "write_no", "topology", "tcp"}
        PROVE  BurstsInv'
    <3>1. stage'[s] = next
      BY <2>1, <2>4 DEF Goto
    <3>2. EndTime \in Nat /\ now = 0 /\ outgoing[s] = <<>>
      BY <2>1, <2>4 DEF TimeSound, Setup, AfterConstruct, AfterTopology
    <3>3. TimeSound(s)' /\ ~Written(s)'
      BY <2>1, <2>2, <2>4, <3>1, <3>2 DEF TimeSound, Written
    <3> QED BY <2>1, <2>4, <3>3, OneMoves DEF AfterSchedule
  <2>5. ASSUME Goto(s, StageAt(0)), stage[s] = "run" PROVE BurstsInv'
    <3>1. stage'[s] = StageAt(0) /\ StageAt(0) \in {"results", "running"}
      BY <2>1, <2>5 DEF Goto, StageAt
    <3>2. EndTime \in Nat /\ now = 0 /\ (StageAt(0) = "results" <=> EndTime = 0)
      BY <2>1, <2>5
         DEF TimeSound, Setup, AfterConstruct, AfterTopology, AfterSchedule, StageAt
    <3>3. TimeSound(s)' /\ ~Written(s)'
      BY <2>1, <2>2, <3>1, <3>2 DEF TimeSound, Written, Setup
    <3> QED BY <2>1, <2>5, <3>1, <3>3, OneMoves DEF AfterSchedule
  <2>6. ASSUME NEW next \in {"timing", "write_yes", "done"}, Goto(s, next), Written(s)
        PROVE  BurstsInv'
    <3>1. stage'[s] = next
      BY <2>1, <2>6 DEF Goto
    <3>2. EndTime \in Nat /\ now = EndTime
      BY <2>1, <2>6 DEF TimeSound, Written, AfterConstruct, AfterTopology, AfterSchedule
    <3>3. TimeSound(s)'
      BY <2>1, <2>2, <2>6, <3>1, <3>2 DEF TimeSound, Setup
    <3> QED BY <2>1, <2>6, <3>3, OneMoves DEF AfterSchedule, Written
  <2>7. CASE PrepareBasicSimulationLogFiles(s) \/ WriteFinished(s, "No", "write_no", "topology")
    BY <2>4, <2>7 DEF PrepareBasicSimulationLogFiles, WriteFinished
  <2>8. CASE LoadTopology(s) \/ ConfigureTcp(s)
    BY <2>3, <2>4, <2>8 DEF LoadTopology, ConfigureTcp, ThrowIn
  <2>9. CASE Run(s)
    BY <2>3, <2>5, <2>9 DEF Run, ThrowIn
  <2>10. CASE CleanUpSimulation(s) \/ StoreTimingResults(s)
    BY <2>6, <2>10 DEF CleanUpSimulation, StoreTimingResults, Written
  <2>11. CASE WriteFinished(s, "Yes", "write_yes", "done")
    BY <2>6, <2>11 DEF WriteFinished, Written
  <2> QED BY <1>2, <2>7, <2>8, <2>9, <2>10, <2>11 DEF BasicStep
<1> QED BY <1>1, <1>2

LEMMA NewSchedulerBursts ==
  ASSUME FilesInv, MemoryInv, BurstsInv, NEW s \in System, NewUdpBurstScheduler(s)
  PROVE  BurstsInv'
<1>1. /\ UNCHANGED <<input, now, outgoing, startTime, sendAt, sent, received, net, report>>
      /\ stage[s] = "schedulers" /\ stage \in [System -> Stage] /\ BasicTyped
      /\ registered = [t \in System |-> registered[t]]
  BY DEF NewUdpBurstScheduler, FilesInv, BasicTyped
<1>2. stage'[s] \in {"run", "dead"} /\ \A t \in System \ {s} : stage'[t] = stage[t]
  BY <1>1 DEF NewUdpBurstScheduler, Goto, ThrowIn
<1>3. \A t \in System \ {s} : /\ registered'[t] = registered[t] /\ schedule'[t] = schedule[t]
                              /\ event'[t] = event[t]
  BY <1>1 DEF NewUdpBurstScheduler, PrepareBursts, Register, MemoryInv, MemoryTyped
<1>4. EndTime' = EndTime /\ Enabled' = Enabled /\ \A t : OwnEntries(t)' = OwnEntries(t)
  BY <1>1, ClockKept, InputKept
<1>5. now = 0 /\ outgoing[s] = <<>> /\ EndTime \in Nat
  BY <1>1 DEF BurstsInv, TimeSound, Setup, AfterConstruct, AfterTopology
<1>6. ASSUME NEW t \in System PROVE TimeSound(t)'
  <2>1. CASE t = s
    BY <1>1, <1>2, <1>4, <1>5, <2>1
       DEF TimeSound, Setup, AfterConstruct, AfterTopology, AfterSchedule, Written
  <2>2. CASE t # s
    BY <1>1, <1>2, <1>4, <2>2 DEF BurstsInv, TimeSound, Written
  <2> QED BY <2>1, <2>2
<1>7. \A t \in System : ReportSound(t)'
  <2>1. \A t \in System : /\ stage'[t] = "none" => stage[t] = "none"
                          /\ Written(t)' => (Written(t) /\ registered'[t] = registered[t])
    BY <1>2, <1>3 DEF Written
  <2> QED BY <1>1, <2>1, ReportsKept
<1>8. \A i \in Id : StartSound(i)' /\ PaceSound(i)'
  BY <1>1, ClientKept DEF Installed
<1>9. \A i \in Id : CountSound(i)'
  BY <1>1 DEF BurstsInv, CountSound, OfBurst
<1>10. ASSUME NEW t \in System PROVE EntriesSound(t)'
  <2>1. CASE t # s
    <3>1. EntriesSound(t) /\ Begun(t)' = Begun(t) /\ NextEntry(t)' = NextEntry(t)
      BY <1>1, <1>3, <2>1 DEF BurstsInv, Begun, NextEntry
    <3> QED BY <1>1, <1>2, <1>3, <1>4, <2>1, <3>1 DEF EntriesSound
  <2>2. CASE t = s /\ CanSchedule /\ Enabled
    <3>1. /\ schedule'[s] = OwnEntries(s) /\ IsSchedule(input.bursts)
          /\ event'[s] = IF OwnEntries(s) = <<>> THEN 0 ELSE 1
      BY <2>2 DEF NewUdpBurstScheduler, PrepareBursts, CanSchedule, MemoryInv, MemoryTyped
    <3>2. Begun(s)' = 0
      BY <3>1 DEF Begun
    <3>3. Range(outgoing[s]) = {} /\ {schedule'[s][k].id : k \in 1 .. 0} = {}
      BY <1>5 DEF Range
    <3>4. event'[s] # 0 => OwnEntries(s)[1].start >= 0
      <4>1. SUFFICES ASSUME OwnEntries(s) # <<>> PROVE OwnEntries(s)[1].start >= 0
        BY <3>1
      <4>2. 1 \in 1 .. Len(OwnEntries(s))
        BY <1>1, <2>2, <3>1, <4>1, OwnEntriesValid
      <4>3. /\ OwnEntries(s)[1].id \in Id /\ Valid(OwnEntries(s)[1].id)
            /\ OwnEntries(s)[1] = Entry(OwnEntries(s)[1].id)
        BY <1>1, <2>2, <3>1, <4>2, OwnEntriesValid, OwnEntriesOrdered
      <4>4. Entry(OwnEntries(s)[1].id).start \in Nat
        BY <1>1, <4>3, EntryShape
      <4> QED BY <4>3, <4>4
    <3>5. event'[s] # 0 => NextEntry(s)' = OwnEntries(s)[1]
      BY <3>1 DEF NextEntry
    <3> QED BY <1>1, <1>4, <1>5, <2>2, <3>1, <3>2, <3>3, <3>4, <3>5 DEF EntriesSound
  <2>3. CASE t = s /\ ~(CanSchedule /\ Enabled)
    <3>1. schedule' = schedule /\ event' = event /\ ~ (stage'[s] \in AfterSchedule /\ Enabled)
      BY <1>1, <2>3 DEF NewUdpBurstScheduler, Goto, ThrowIn, AfterSchedule
    <3>2. EntriesSound(s) /\ Begun(s)' = Begun(s) /\ NextEntry(s)' = NextEntry(s)
      BY <3>1 DEF BurstsInv, Begun, NextEntry
    <3> QED BY <1>1, <1>4, <2>3, <3>1, <3>2 DEF EntriesSound
  <2> QED BY <2>1, <2>2, <2>3
<1> QED BY <1>1, <1>6, <1>7, <1>8, <1>9, <1>10 DEF BurstsInv

LEMMA WriteResultsBursts ==
  ASSUME FilesInv, BurstsInv, NEW s \in System, WriteResults(s)
  PROVE  BurstsInv'
<1>1. /\ UNCHANGED <<input, now, schedule, event, registered, outgoing, startTime, sendAt, sent>>
      /\ UNCHANGED <<received, net>> /\ stage[s] = "results" /\ stage \in [System -> Stage]
      /\ \A t \in System : stage'[t] = IF t = s THEN "clean_up" ELSE stage[t]
  BY DEF WriteResults, Goto, FilesInv, BasicTyped
<1>2. EndTime' = EndTime /\ Enabled' = Enabled
  BY <1>1, ClockKept, InputKept
<1>3. EndTime \in Nat /\ now = EndTime
  BY <1>1 DEF BurstsInv, TimeSound, AfterConstruct, AfterTopology, AfterSchedule
<1>4. ASSUME NEW t \in System PROVE TimeSound(t)'
  <2>1. CASE t = s
    BY <1>1, <1>2, <1>3, <2>1 DEF TimeSound, Setup
  <2>2. CASE t # s
    BY <1>1, <1>2, <2>2 DEF BurstsInv, TimeSound, Written
  <2> QED BY <2>1, <2>2
<1>5. \A t \in System : EntriesSound(t)'
  BY <1>1, EntriesKept DEF AfterSchedule
<1>6. \A i \in Id : StartSound(i)' /\ PaceSound(i)'
  BY <1>1, ClientKept DEF Installed
<1>7. \A i \in Id : CountSound(i)'
  BY <1>1 DEF BurstsInv, CountSound, OfBurst
<1>8. /\ report' = [t \in System |-> report'[t]] /\ (Enabled => report'[s] = Tables(s))
      /\ \A t \in System \ {s} : report'[t] = report[t]
  BY DEF WriteResults, BurstsInv
<1>9. ASSUME NEW t \in System PROVE ReportSound(t)'
  <2>1. ReportSound(t) /\ Tables(t)' = Tables(t)
    BY <1>1, TablesKept DEF BurstsInv
  <2>2. CASE t = s
    BY <1>1, <1>2, <1>8, <2>1, <2>2 DEF ReportSound
  <2>3. CASE t # s
    BY <1>1, <1>2, <1>8, <2>1, <2>3 DEF ReportSound, Written
  <2> QED BY <2>2, <2>3
<1> QED BY <1>1, <1>4, <1>5, <1>6, <1>7, <1>8, <1>9 DEF BurstsInv

(* The entry that the pending event is for.                                  *)
LEMMA NextEntryShape ==
  ASSUME FilesInv, MemoryInv, NEW s \in System, event[s] # 0
  PROVE  /\ schedule[s] = OwnEntries(s) /\ event[s] \in 1 .. Len(OwnEntries(s))
         /\ Len(OwnEntries(s)) \in Nat /\ Enabled /\ IsSchedule(input.bursts)
         /\ NextEntry(s).id \in Id /\ Valid(NextEntry(s).id)
         /\ NextEntry(s) = Entry(NextEntry(s).id) /\ NextEntry(s).start \in Nat
<1>1. ScheduleSound(s) /\ BasicTyped
  BY DEF MemoryInv, MemorySound, FilesInv
<1>2. event[s] \in 1 .. Len(schedule[s])
  BY <1>1 DEF ScheduleSound
<1>3. schedule[s] # <<>>
  BY <1>2
<1>4. schedule[s] = OwnEntries(s) /\ Enabled /\ IsSchedule(input.bursts)
  BY <1>1, <1>3 DEF ScheduleSound
<1>5. NextEntry(s) = OwnEntries(s)[event[s]] /\ event[s] \in 1 .. Len(OwnEntries(s))
  BY <1>2, <1>4 DEF NextEntry
<1>6. /\ NextEntry(s).id \in Id /\ Valid(NextEntry(s).id) /\ Len(OwnEntries(s)) \in Nat
      /\ NextEntry(s) = Entry(NextEntry(s).id)
  BY <1>1, <1>4, <1>5, OwnEntriesValid, OwnEntriesOrdered
<1>7. NextEntry(s).start \in Nat
  BY <1>1, <1>6, EntryShape
<1> QED BY <1>4, <1>5, <1>6, <1>7

(* A client that has started sends a valid burst at its own times.           *)
LEMMA PaceShape ==
  ASSUME FilesInv, MemoryInv, BurstsInv, NEW i \in Id, startTime[i] # Never
  PROVE  /\ Valid(i) /\ startTime[i] = Entry(i).start /\ sent[i] \in Nat
         /\ Entry(i).start \in Nat /\ Entry(i).duration \in Nat /\ Gap(i) \in Nat
         /\ sent[i] * Gap(i) \in Nat /\ Entry(i).start < EndTime
<1>1. Valid(i) /\ startTime[i] = Entry(i).start /\ sent[i] \in Nat /\ BasicTyped
  BY DEF BurstsInv, StartSound, MemoryInv, MemoryTyped, FilesInv
<1>2. /\ Entry(i).start \in Nat /\ Entry(i).duration \in Nat /\ Gap(i) \in Nat
      /\ Entry(i).start < EndTime
  BY <1>1, EntryShape
<1>3. sent[i] * Gap(i) \in Nat
  BY <1>1, <1>2, NextMultiple
<1> QED BY <1>1, <1>2, <1>3

LEMMA TickBursts ==
  ASSUME FilesInv, MemoryInv, BurstsInv, Tick
  PROVE  BurstsInv'
<1>1. /\ UNCHANGED <<input, schedule, event, registered, outgoing, startTime, sendAt, sent>>
      /\ UNCHANGED <<received, net, report>> /\ now' = now + 1 /\ Simulating
      /\ \A s \in System : stage'[s] = IF stage[s] = "running" THEN StageAt(now + 1) ELSE stage[s]
  BY DEF Tick, Advance, bursts, memory
<1>2. /\ now \in Nat /\ EndTime \in Nat /\ now < EndTime /\ EndTime' = EndTime
      /\ \A s \in System : stage[s] \in {"running", "none"}
  BY <1>1, SimulatingNow, ClockKept
<1>3. StageAt(now + 1) = IF now + 1 = EndTime THEN "results" ELSE "running"
  BY DEF StageAt
<1>4. ASSUME NEW s \in System PROVE TimeSound(s)' /\ ReportSound(s)'
  <2>1. stage'[s] \in {"running", "none", "results"} /\ (stage'[s] = "none" => stage[s] = "none")
    BY <1>1, <1>2, <1>3
  <2>2. stage'[s] \notin Setup /\ ~Written(s)'
    BY <2>1 DEF Setup, Written
  <2>3. /\ stage'[s] = "running" => now + 1 < EndTime
        /\ stage'[s] = "results" => now + 1 = EndTime
    BY <1>1, <1>2, <1>3
  <2>4. TimeSound(s)'
    BY <1>1, <1>2, <2>2, <2>3 DEF TimeSound
  <2>5. ReportSound(s)'
    BY <1>1, <2>1, <2>2 DEF ReportSound, BurstsInv
  <2> QED BY <2>4, <2>5
<1>5. ASSUME NEW s \in System PROVE EntriesSound(s)'
  <2>1. /\ EntriesSound(s) /\ Enabled' = Enabled /\ OwnEntries(s)' = OwnEntries(s)
        /\ Begun(s)' = Begun(s) /\ NextEntry(s)' = NextEntry(s)
    BY <1>1, InputKept DEF BurstsInv, Begun, NextEntry
  <2>2. stage'[s] \in AfterSchedule => stage[s] \in AfterSchedule
    BY <1>1 DEF AfterSchedule
  <2>3. event[s] # 0 => NextEntry(s).start >= now + 1
    <3>1. event[s] # 0 => NextEntry(s).start > now /\ NextEntry(s).start \in Nat
      BY NextEntryShape DEF Tick
    <3> QED BY <1>2, <3>1
  <2> QED BY <1>1, <2>1, <2>2, <2>3 DEF EntriesSound
<1>6. ASSUME NEW i \in Id PROVE StartSound(i)' /\ PaceSound(i)'
  <2>1. /\ StartSound(i) /\ PaceSound(i) /\ Entry(i)' = Entry(i) /\ Gap(i)' = Gap(i)
        /\ Valid(i)' = Valid(i) /\ Installed' = Installed
    BY <1>1, ClockKept DEF BurstsInv, Installed
  <2>2. /\ i \in Installed => startTime[i] # Never
        /\ sendAt[i] # Never => sendAt[i] # now
    BY DEF Tick, MemoryInv, MemorySound
  <2>3. StartSound(i)'
    BY <1>1, <2>1, <2>2 DEF StartSound
  <2>4. sendAt[i] # Never => sendAt[i] >= now + 1
    <3>1. SUFFICES ASSUME sendAt[i] # Never PROVE sendAt[i] >= now + 1
      OBVIOUS
    <3>2. startTime[i] # Never
      BY <2>1, <3>1 DEF StartSound
    <3>3. /\ sendAt[i] = Entry(i).start + sent[i] * Gap(i) /\ sendAt[i] >= now
          /\ Entry(i).start \in Nat /\ sent[i] * Gap(i) \in Nat
      BY <2>1, <3>1, <3>2, PaceShape DEF PaceSound
    <3>4. sendAt[i] \in Nat
      BY <3>3
    <3> QED BY <1>2, <2>2, <3>1, <3>3, <3>4
  <2>5. PaceSound(i)'
    BY <1>1, <1>2, <2>1, <2>4 DEF PaceSound
  <2> QED BY <2>3, <2>5
<1>7. \A i \in Id : CountSound(i)'
  BY <1>1 DEF BurstsInv, CountSound, OfBurst
<1> QED BY <1>1, <1>4, <1>5, <1>6, <1>7 DEF BurstsInv

LEMMA StartNextBursts ==
  ASSUME FilesInv, MemoryInv, BurstsInv, NEW s \in System, StartNextUdpBurst(s)
  PROVE  BurstsInv'
<1> DEFINE e == NextEntry(s)
<1>1. /\ UNCHANGED <<input, now, stage, registered, schedule, startTime, sendAt, sent, received>>
      /\ UNCHANGED <<net, report>> /\ Simulating /\ event[s] # 0 /\ e.start = now
  BY DEF StartNextUdpBurst, basic, process
<1>2. /\ outgoing'[s] = Append(outgoing[s], e.id)
      /\ event'[s] = IF event[s] = Len(schedule[s]) THEN 0 ELSE event[s] + 1
      /\ \A t \in System \ {s} : outgoing'[t] = outgoing[t] /\ event'[t] = event[t]
      /\ outgoing[s] \in Seq(Id)
  BY DEF StartNextUdpBurst, MemoryInv, MemoryTyped
<1>3. /\ schedule[s] = OwnEntries(s) /\ event[s] \in 1 .. Len(OwnEntries(s))
      /\ Len(OwnEntries(s)) \in Nat /\ Enabled /\ IsSchedule(input.bursts) /\ BasicTyped
      /\ e.id \in Id /\ Valid(e.id) /\ e = Entry(e.id)
  BY <1>1, NextEntryShape DEF FilesInv
<1>4. e = schedule[s][event[s]]
  BY DEF NextEntry
<1> HIDE DEF e
<1>5. Range(outgoing'[s]) = Range(outgoing[s]) \cup {e.id}
  <2> DEFINE o == outgoing[s]
             p == outgoing'[s]
  <2>1. /\ Len(o) \in Nat /\ p = Append(o, e.id)
        /\ DOMAIN o = 1 .. Len(o) /\ DOMAIN p = 1 .. Len(o) + 1
        /\ p[Len(o) + 1] = e.id /\ \A k \in 1 .. Len(o) : p[k] = o[k]
    BY <1>2, <1>3
  <2> HIDE DEF o, p
  <2>2. \A k \in 1 .. Len(o) + 1 : k = Len(o) + 1 \/ k \in 1 .. Len(o)
    BY <2>1
  <2>3. Range(p) = Range(o) \cup {e.id}
    BY <2>1, <2>2 DEF Range
  <2> QED BY <2>3 DEF o, p
<1>6. Installed' = Installed \cup {e.id}
  <2>1. \A t \in System : Range(outgoing'[t]) =
          IF t = s THEN Range(outgoing[s]) \cup {e.id} ELSE Range(outgoing[t])
    BY <1>2, <1>5
  <2> QED BY <2>1 DEF Installed
<1>7. ASSUME NEW t \in System PROVE EntriesSound(t)'
  <2>1. EntriesSound(t) /\ Enabled' = Enabled /\ OwnEntries(t)' = OwnEntries(t)
    BY <1>1, InputKept DEF BurstsInv
  <2>2. CASE t # s
    <3>1. Begun(t)' = Begun(t) /\ NextEntry(t)' = NextEntry(t)
      BY <1>1, <1>2, <2>2 DEF Begun, NextEntry
    <3> QED BY <1>1, <1>2, <2>1, <2>2, <3>1 DEF EntriesSound
  <2>3. CASE t = s
    <3>1. Begun(s)' = event[s] /\ Begun(s) = event[s] - 1 /\ event[s] \in Nat
      BY <1>1, <1>2, <1>3 DEF Begun
    <3>2. Range(outgoing'[s]) = {schedule[s][k].id : k \in 1 .. event[s]}
      <4>1. Range(outgoing[s]) = {schedule[s][k].id : k \in 1 .. event[s] - 1}
        BY <2>1, <2>3, <3>1 DEF EntriesSound
      <4>2. \A k : k \in 1 .. event[s] <=> k \in 1 .. event[s] - 1 \/ k = event[s]
        BY <1>3, <3>1
      <4> QED BY <1>4, <1>5, <4>1, <4>2
    <3>3. event'[s] # 0 => NextEntry(s)'.start >= now
      <4>1. SUFFICES ASSUME event'[s] # 0 PROVE NextEntry(s)'.start >= now
        OBVIOUS
      <4>2. /\ event'[s] = event[s] + 1 /\ event[s] + 1 \in 1 .. Len(OwnEntries(s))
            /\ event[s] <= event[s] + 1
        BY <1>2, <1>3, <3>1, <4>1
      <4>3. OwnEntries(s)[event[s]].start <= OwnEntries(s)[event[s] + 1].start
        BY <1>3, <4>2, OwnEntriesOrdered
      <4>4. NextEntry(s)' = OwnEntries(s)[event[s] + 1] /\ now = OwnEntries(s)[event[s]].start
        BY <1>1, <1>3, <1>4, <4>2 DEF NextEntry
      <4>5. OwnEntries(s)[event[s] + 1].start \in Nat /\ now \in Nat
        <5>1. /\ OwnEntries(s)[event[s] + 1].id \in Id /\ Valid(OwnEntries(s)[event[s] + 1].id)
              /\ OwnEntries(s)[event[s] + 1] = Entry(OwnEntries(s)[event[s] + 1].id)
          BY <1>3, <4>2, OwnEntriesValid, OwnEntriesOrdered
        <5>2. Entry(OwnEntries(s)[event[s] + 1].id).start \in Nat
          BY <1>3, <5>1, EntryShape
        <5> QED BY <1>3, <5>1, <5>2 DEF BasicTyped
      <4> QED BY <4>3, <4>4, <4>5
    <3> QED BY <1>1, <2>1, <2>3, <3>1, <3>2, <3>3 DEF EntriesSound
  <2> QED BY <2>2, <2>3
<1>8. ASSUME NEW i \in Id PROVE StartSound(i)' /\ PaceSound(i)'
  <2>1. CASE i # e.id
    BY <1>1, <1>6, <2>1, ClientKept
  <2>2. CASE i = e.id
    <3>1. /\ StartSound(i) /\ PaceSound(i) /\ Entry(i)' = Entry(i) /\ Gap(i)' = Gap(i)
          /\ Valid(i)' = Valid(i) /\ EndTime' = EndTime /\ Entry(i).start = now
      BY <1>1, <1>3, <2>2, ClockKept DEF BurstsInv
    <3>2. StartSound(i)'
      BY <1>1, <3>1 DEF StartSound
    <3>3. PaceSound(i)'
      BY <1>1, <3>1 DEF PaceSound
    <3> QED BY <3>2, <3>3
  <2> QED BY <2>1, <2>2
<1>9. \A i \in Id : CountSound(i)'
  BY <1>1 DEF BurstsInv, CountSound, OfBurst
<1>10. /\ \A t \in System : TimeSound(t)' /\ ReportSound(t)'
       /\ report' = [t \in System |-> report'[t]]
  BY <1>1, SimulatedKeeps
<1> QED BY <1>1, <1>7, <1>8, <1>9, <1>10 DEF BurstsInv

LEMMA StartApplicationBursts ==
  ASSUME FilesInv, MemoryInv, BurstsInv, NEW i \in Id, StartApplication(i)
  PROVE  BurstsInv'
<1>1. /\ UNCHANGED <<input, now, stage, registered, schedule, event, outgoing, sent, received>>
      /\ UNCHANGED <<net, report>> /\ Simulating /\ i \in Installed /\ startTime[i] = Never
      /\ Installed' = Installed
  BY DEF StartApplication, basic, process, Installed
<1>2. /\ startTime'[i] = now /\ sendAt'[i] = now
      /\ \A j \in Id \ {i} : startTime'[j] = startTime[j] /\ sendAt'[j] = sendAt[j]
  BY DEF StartApplication, MemoryInv, MemoryTyped
<1>3. now \in Nat /\ BasicTyped /\ now # Never
  BY DEF FilesInv, BasicTyped, Never
<1>4. Valid(i)
  <2>1. PICK s \in System : i \in Range(outgoing[s])
    BY <1>1 DEF Installed
  <2> QED BY <2>1 DEF MemoryInv, MemorySound
<1>5. /\ Entry(i).start = now /\ sent[i] = 0 /\ Entry(i).start \in Nat /\ Gap(i) \in Nat
      /\ Entry(i)' = Entry(i) /\ Gap(i)' = Gap(i) /\ Valid(i)' = Valid(i)
  BY <1>1, <1>3, <1>4, EntryShape, ClockKept DEF BurstsInv, StartSound
<1>6. ASSUME NEW j \in Id PROVE StartSound(j)' /\ PaceSound(j)'
  <2>1. CASE j # i
    BY <1>1, <1>2, <2>1, ClientKept
  <2>2. CASE j = i
    <3>1. StartSound(i)'
      BY <1>1, <1>2, <1>3, <1>4, <1>5 DEF StartSound
    <3>2. sent'[i] * Gap(i) = 0 /\ sent'[i] = 0
      BY <1>1, <1>5, NextMultiple
    <3>3. PaceSound(i)'
      BY <1>1, <1>2, <1>3, <1>5, <3>2 DEF PaceSound
    <3> QED BY <2>2, <3>1, <3>3
  <2> QED BY <2>1, <2>2
<1>7. \A s \in System : EntriesSound(s)'
  BY <1>1, EntriesKept
<1>8. \A j \in Id : CountSound(j)'
  BY <1>1 DEF BurstsInv, CountSound, OfBurst
<1>9. /\ \A s \in System : TimeSound(s)' /\ ReportSound(s)'
      /\ report' = [s \in System |-> report'[s]]
  BY <1>1, SimulatedKeeps
<1> QED BY <1>1, <1>6, <1>7, <1>8, <1>9 DEF BurstsInv

LEMMA SendBursts ==
  ASSUME FilesInv, MemoryInv, BurstsInv, NEW i \in Id, Send(i)
  PROVE  BurstsInv'
<1>1. /\ UNCHANGED <<input, now, stage, registered, schedule, event, outgoing, startTime>>
      /\ UNCHANGED <<received, report>> /\ Simulating /\ sendAt[i] = now
      /\ Installed' = Installed
  BY DEF Send, basic, process, Installed
<1>2. /\ sent'[i] = sent[i] + 1 /\ sendAt'[i] = NextSend(i)
      /\ \A j \in Id \ {i} : sent'[j] = sent[j] /\ sendAt'[j] = sendAt[j]
  BY DEF Send, MemoryInv, MemoryTyped
<1>3. now \in Nat /\ now # Never /\ now < EndTime /\ EndTime \in Nat /\ EndTime' = EndTime
  BY <1>1, SimulatingNow, ClockKept DEF Never
<1>4. StartSound(i) /\ PaceSound(i) /\ startTime[i] # Never
  BY <1>1, <1>3 DEF BurstsInv, StartSound
<1>5. /\ Valid(i) /\ startTime[i] = Entry(i).start /\ sent[i] \in Nat
      /\ Entry(i).start \in Nat /\ Entry(i).duration \in Nat /\ Gap(i) \in Nat
      /\ sent[i] * Gap(i) \in Nat /\ (sent[i] + 1) * Gap(i) = sent[i] * Gap(i) + Gap(i)
      /\ Entry(i)' = Entry(i) /\ Gap(i)' = Gap(i) /\ Valid(i)' = Valid(i)
  BY <1>1, <1>4, PaceShape, NextMultiple, ClockKept
<1>6. ASSUME NEW j \in Id PROVE StartSound(j)' /\ PaceSound(j)'
  <2>1. CASE j # i
    BY <1>1, <1>2, <2>1, ClientKept
  <2>2. CASE j = i
    <3>1. StartSound(i)'
      BY <1>1, <1>4, <1>5 DEF StartSound
    <3> DEFINE p == sent[i]
               g == Gap(i)
               e == Entry(i)
               pg == p * g
    <3>2. now = e.start + pg /\ (p >= 1 => pg < e.duration)
      BY <1>1, <1>3, <1>4 DEF PaceSound
    <3>3. sendAt'[i] = IF now + g < e.start + e.duration THEN now + g ELSE Never
      BY <1>2, <1>5 DEF NextSend
    <3>4. sent'[i] = p + 1 /\ sent'[i] * g = pg + g /\ (sent'[i] - 1) * g = pg
      <4>1. sent'[i] = p + 1 /\ sent'[i] * g = pg + g
        BY <1>2, <1>5
      <4>2. sent'[i] - 1 = p
        BY <1>5, <4>1
      <4> QED BY <4>1, <4>2
    <3>5. Entry(i)' = e /\ Gap(i)' = g /\ p \in Nat /\ g \in Nat /\ pg \in Nat /\ e.start \in Nat
          /\ e.duration \in Nat
      BY <1>5
    <3> DEFINE n == sent'[i]
    <3> DEFINE ng == n * g
               back == (n - 1) * g
               next == sendAt'[i]
    <3>6. PaceSound(i)' <=>
            /\ next = Never => n >= 1 /\ e.duration <= ng
            /\ next # Never =>
                 /\ next = e.start + ng /\ next >= now
                 /\ n >= 1 => ng < e.duration
            /\ n >= 1 => e.start + back < EndTime
            /\ n >= 2 => back < e.duration
      BY <1>1, <1>3, <1>4, <3>5 DEF PaceSound
    <3>7. n = p + 1 /\ ng = pg + g /\ back = pg
      BY <3>4
    <3> HIDE DEF p, g, e, pg, n, ng, back, next
    <3>8. CASE now + g < e.start + e.duration
      <4>1. next = now + g /\ next # Never /\ next = e.start + ng /\ next >= now
        BY <1>3, <3>2, <3>3, <3>5, <3>7, <3>8 DEF next, Never
      <4>2. ng < e.duration /\ e.start + back < EndTime /\ (n >= 2 => back < e.duration)
        BY <1>3, <3>2, <3>5, <3>7, <3>8
      <4> QED BY <2>2, <3>1, <3>6, <4>1, <4>2
    <3>9. CASE ~ (now + g < e.start + e.duration)
      <4>1. next = Never /\ n >= 1 /\ e.duration <= ng
        BY <1>3, <3>2, <3>3, <3>5, <3>7, <3>9 DEF next
      <4>2. e.start + back < EndTime /\ (n >= 2 => back < e.duration)
        BY <1>3, <3>2, <3>5, <3>7
      <4> QED BY <2>2, <3>1, <3>6, <4>1, <4>2
    <3> QED BY <2>2, <3>1, <3>8, <3>9
  <2> QED BY <2>1, <2>2
<1>7. \A s \in System : EntriesSound(s)'
  BY <1>1, EntriesKept
<1> DEFINE m == [id |-> i, seq |-> sent[i], to |-> Entry(i).to]
<1>8. net' = net \cup {m} /\ m.id = i
  BY DEF Send
<1> HIDE DEF m
<1>9. IsFiniteSet(net) /\ IsFiniteSet(net')
  BY <1>8, FS_AddElement DEF BurstsInv
<1>10. ASSUME NEW j \in Id PROVE CountSound(j)'
  <2>1. IsFiniteSet(OfBurst(j)) /\ Cardinality(OfBurst(j)) \in Nat
    BY <1>9, FS_Subset, FS_CardinalityType DEF OfBurst
  <2>2. CountSound(j) /\ received[j] \in Nat /\ sent[j] \in Nat
    BY DEF BurstsInv, MemoryInv, MemoryTyped
  <2>3. CASE j # i
    <3>1. OfBurst(j)' = OfBurst(j)
      BY <1>8, <2>3 DEF OfBurst
    <3> QED BY <1>1, <1>2, <2>2, <2>3, <3>1 DEF CountSound
  <2>4. CASE j = i
    <3>1. OfBurst(i)' = OfBurst(i) \cup {m}
      BY <1>8 DEF OfBurst
    <3>2. Cardinality(OfBurst(i)') <= Cardinality(OfBurst(i)) + 1 /\ Cardinality(OfBurst(i)') \in Nat
      BY <2>1, <2>4, <3>1, FS_AddElement
    <3> QED BY <1>1, <1>2, <2>1, <2>2, <2>4, <3>2 DEF CountSound
  <2> QED BY <2>3, <2>4
<1>11. /\ \A s \in System : TimeSound(s)' /\ ReportSound(s)'
       /\ report' = [s \in System |-> report'[s]]
  BY <1>1, SimulatedKeeps
<1> QED BY <1>6, <1>7, <1>9, <1>10, <1>11 DEF BurstsInv

(* A packet that arrives or is lost is under way no longer.                  *)
LEMMA PacketGone ==
  ASSUME FilesInv, MemoryInv, BurstsInv, NEW m \in net, net' = net \ {m}, Simulating,
         UNCHANGED <<input, now, schedule, event, outgoing, startTime, sendAt, sent, report>>,
         \A s \in System : stage'[s] = stage[s] \/ stage'[s] = "dead",
         \A j \in Id : received'[j] = received[j] \/ (j = m.id /\ received'[j] = received[j] + 1)
  PROVE  BurstsInv'
<1>1. \A j \in Id : StartSound(j)' /\ PaceSound(j)'
  BY ClientKept DEF Installed
<1>2. \A s \in System : EntriesSound(s)'
  BY EntriesKept DEF AfterSchedule
<1>3. IsFiniteSet(net) /\ IsFiniteSet(net')
  BY FS_RemoveElement DEF BurstsInv
<1>4. ASSUME NEW j \in Id PROVE CountSound(j)'
  <2>1. IsFiniteSet(OfBurst(j)) /\ Cardinality(OfBurst(j)) \in Nat
    BY <1>3, FS_Subset, FS_CardinalityType DEF OfBurst
  <2>2. CountSound(j) /\ received[j] \in Nat /\ sent[j] \in Nat
    BY DEF BurstsInv, MemoryInv, MemoryTyped
  <2>3. CASE j # m.id
    <3>1. OfBurst(j)' = OfBurst(j) /\ received'[j] = received[j]
      BY <2>3 DEF OfBurst
    <3> QED BY <2>2, <3>1 DEF CountSound
  <2>4. CASE j = m.id
    <3>1. OfBurst(j)' = OfBurst(j) \ {m} /\ m \in OfBurst(j)
      BY <2>4 DEF OfBurst
    <3>2. Cardinality(OfBurst(j)') = Cardinality(OfBurst(j)) - 1
      BY <2>1, <3>1, FS_RemoveElement
    <3> QED BY <2>1, <2>2, <3>2 DEF CountSound
  <2> QED BY <2>3, <2>4
<1>5. /\ \A s \in System : TimeSound(s)' /\ ReportSound(s)'
      /\ report' = [s \in System |-> report'[s]]
  BY SimulatedKeeps
<1> QED BY <1>1, <1>2, <1>3, <1>4, <1>5 DEF BurstsInv

LEMMA ArriveBursts ==
  ASSUME FilesInv, MemoryInv, BurstsInv, NEW m \in net, Arrive(m)
  PROVE  BurstsInv'
<1>1. /\ UNCHANGED <<input, now, schedule, event, outgoing, startTime, sendAt, sent, report>>
      /\ net' = net \ {m} /\ Simulating
  BY DEF Arrive
<1>2. PICK s \in System : HandleRead(s, m)
  BY DEF Arrive
<1>3. /\ \A t \in System : stage'[t] = stage[t] \/ stage'[t] = "dead"
      /\ \A j \in Id : received'[j] = received[j] \/ (j = m.id /\ received'[j] = received[j] + 1)
  BY <1>2 DEF HandleRead, ThrowIn, Goto, FilesInv, BasicTyped, MemoryInv, MemoryTyped
<1> QED BY <1>1, <1>3, PacketGone

LEMMA LoseBursts ==
  ASSUME FilesInv, MemoryInv, BurstsInv, NEW m \in net, Lose(m)
  PROVE  BurstsInv'
<1>1. /\ UNCHANGED <<input, now, schedule, event, outgoing, startTime, sendAt, sent, report>>
      /\ UNCHANGED <<stage, received>> /\ net' = net \ {m} /\ Simulating
  BY DEF Lose, basic, process
<1> QED BY <1>1, PacketGone

LEMMA BurstsNext == FilesInv /\ MemoryInv /\ BurstsInv /\ [Next]_vars => BurstsInv'
<1> SUFFICES ASSUME FilesInv, MemoryInv, BurstsInv, [Next]_vars PROVE BurstsInv'
  OBVIOUS
<1>1. ASSUME NEW in \in Input, Launch(in), FreshMemory PROVE BurstsInv'
  BY <1>1, LaunchBursts
<1>2. CASE Kill /\ UNCHANGED bursts
  BY <1>2, KillBursts
<1>3. ASSUME NEW s \in System, BasicStep(s), UNCHANGED bursts PROVE BurstsInv'
  BY <1>3, BasicStepBursts
<1>4. ASSUME NEW s \in System, NewUdpBurstScheduler(s) \/ StartNextUdpBurst(s) \/ WriteResults(s)
      PROVE  BurstsInv'
  BY <1>4, NewSchedulerBursts, StartNextBursts, WriteResultsBursts
<1>5. ASSUME NEW i \in Id, StartApplication(i) \/ Send(i) PROVE BurstsInv'
  BY <1>5, StartApplicationBursts, SendBursts
<1>6. ASSUME NEW m \in net, Arrive(m) \/ Lose(m) PROVE BurstsInv'
  BY <1>6, ArriveBursts, LoseBursts
<1>7. CASE Tick
  BY <1>7, TickBursts
<1>8. CASE UNCHANGED vars
  <2>1. UNCHANGED <<input, now, stage, outgoing, bursts>> /\ EndTime' = EndTime
    BY <1>8, ClockKept DEF vars, basic, process, bursts, memory
  <2>2. \A s \in System : TimeSound(s)' /\ (Written(s)' => Written(s))
    BY <2>1 DEF TimeSound, Written, BurstsInv
  <2> QED BY <2>1, <2>2, QuietBursts
<1> QED BY <1>1, <1>2, <1>3, <1>4, <1>5, <1>6, <1>7, <1>8 DEF Next

LEMMA BurstsAlways == Spec => [](FilesInv /\ MemoryInv /\ BurstsInv)
<1>1. FilesInv /\ MemoryInv /\ BurstsInv /\ [Next]_vars => BurstsInv'
  BY BurstsNext
<1> QED BY <1>1, BurstsInit, MemoryAlways, PTL DEF Spec

-----------------------------------------------------------------------------
(* What the tables say.                                                      *)

(* All that was due has happened when a system writes.                       *)
LEMMA WrittenNow ==
  ASSUME FilesInv, BurstsInv, NEW s \in System, Written(s), Enabled
  PROVE  /\ EndTime \in Nat /\ now = EndTime /\ IsSchedule(input.bursts) /\ BasicTyped
         /\ schedule[s] = OwnEntries(s) /\ registered[s] = Incoming(s)
<1>1. stage[s] \in AfterSchedule /\ stage[s] \in AfterConstruct
  BY DEF Written, AfterSchedule, AfterConstruct, AfterTopology
<1>2. EndTime \in Nat /\ now = EndTime /\ schedule[s] = OwnEntries(s)
  BY <1>1 DEF BurstsInv, TimeSound, EntriesSound
<1>3. CanSchedule /\ registered[s] = Incoming(s) /\ BasicTyped
  BY <1>1 DEF FilesInv, StageSound
<1>4. IsSchedule(input.bursts)
  BY <1>3 DEF CanSchedule
<1> QED BY <1>2, <1>3, <1>4

From(s) == {i \in Id : Valid(i) /\ IsOnThisSystem(Entry(i).from, s)}
To(s)   == {i \in Id : Valid(i) /\ IsOnThisSystem(Entry(i).to, s)}

LEMMA OutgoingWritten ==
  ASSUME FilesInv, MemoryInv, BurstsInv, NEW s \in System, Written(s), Enabled
  PROVE  Range(outgoing[s]) = From(s)
<1>1. /\ EndTime \in Nat /\ now = EndTime /\ IsSchedule(input.bursts) /\ BasicTyped
      /\ schedule[s] = OwnEntries(s) /\ EntriesSound(s)
  BY WrittenNow DEF BurstsInv
<1>2. event[s] = 0
  <2>1. SUFFICES ASSUME event[s] # 0 PROVE FALSE
    OBVIOUS
  <2>2. NextEntry(s).start >= EndTime
    BY <1>1, <2>1 DEF EntriesSound
  <2>3. NextEntry(s).start \in Nat /\ NextEntry(s).start < EndTime
    BY <1>1, <2>1, NextEntryShape, EntryShape
  <2> QED BY <1>1, <2>2, <2>3
<1>3. Range(outgoing[s]) = {OwnEntries(s)[k].id : k \in 1 .. Len(OwnEntries(s))}
  BY <1>1, <1>2 DEF EntriesSound, Begun
<1>4. ASSUME NEW k \in 1 .. Len(OwnEntries(s)) PROVE OwnEntries(s)[k].id \in From(s)
  BY <1>1, OwnEntriesValid, OwnEntriesOrdered DEF From
<1>5. ASSUME NEW i \in From(s) PROVE \E k \in 1 .. Len(OwnEntries(s)) : OwnEntries(s)[k].id = i
  BY <1>1, OwnEntriesOrdered DEF From
<1> QED BY <1>3, <1>4, <1>5

LEMMA IncomingWritten ==
  ASSUME FilesInv, BurstsInv, NEW s \in System, Written(s), Enabled
  PROVE  {r[2] : r \in registered[s]} = To(s)
<1>1. /\ IsSchedule(input.bursts) /\ BasicTyped /\ registered[s] = Incoming(s)
      /\ Id \subseteq Int
  BY WrittenNow, BurstAssumption DEF Id
<1>2. ASSUME NEW r \in registered[s] PROVE r[2] \in To(s)
  <2>1. PICK e \in Range(Complete) : IsOnThisSystem(e.to, s) /\ r = <<e.to, e.id>>
    BY <1>1 DEF Incoming
  <2>2. PICK k \in DOMAIN Complete : e = Complete[k]
    BY <2>1 DEF Range
  <2>3. k \in DOMAIN input.bursts
    BY <2>2 DEF Complete, ReadSchedule
  <2>4. k - 1 \in Id /\ Complete[k] = Entry(k - 1) /\ Complete[k].id = k - 1 /\ k \in Nat
    BY <1>1, <2>3, EntryFacts
  <2>5. Valid(k - 1)
    BY <1>1, <2>3, <2>4 DEF Valid
  <2> QED BY <2>1, <2>2, <2>4, <2>5 DEF To
<1>3. ASSUME NEW i \in To(s) PROVE \E r \in registered[s] : r[2] = i
  <2>1. i \in Id /\ Valid(i) /\ IsOnThisSystem(Entry(i).to, s)
    BY DEF To
  <2>2. Entry(i).id = i /\ Entry(i) \in Range(Complete)
    BY <1>1, <2>1, ValidEntry
  <2>3. <<Entry(i).to, Entry(i).id>> \in registered[s]
    BY <1>1, <2>1, <2>2 DEF Incoming
  <2> QED BY <2>2, <2>3
<1> QED BY <1>2, <1>3

(* How many packets a burst that was started puts into its duration.         *)
LEMMA CountsWritten ==
  ASSUME FilesInv, MemoryInv, BurstsInv, now = EndTime, EndTime \in Nat,
         NEW i \in Id, i \in Installed, Valid(i)
  PROVE  LET e == Row(i, sent[i]).duration p == sent[i] IN
         /\ received[i] <= p /\ p >= 1 /\ (p - 1) * Gap(i) <= e
         /\ (p - 1) * Gap(i) = e => e = 0
         /\ e <= p * Gap(i)
<1>1. StartSound(i) /\ PaceSound(i) /\ CountSound(i)
  BY DEF BurstsInv
<1>2. Entry(i).start \in Nat /\ Entry(i).start < EndTime
  BY EntryShape DEF FilesInv
<1>3. startTime[i] # Never
  BY <1>1, <1>2 DEF StartSound
<1> DEFINE p == sent[i]
           g == Gap(i)
           pg == p * g
           back == (p - 1) * g
           start == Entry(i).start
           dur == Entry(i).duration
           e == Row(i, sent[i]).duration
<1>4. p \in Nat /\ start \in Nat /\ dur \in Nat /\ g \in Nat /\ pg \in Nat /\ start < EndTime
  BY <1>3, PaceShape
<1>5. e = IF start + dur >= EndTime THEN EndTime - start ELSE dur
  BY DEF Row, EffectiveDuration
<1>6. p >= 1 => back \in Nat /\ pg = back + g
  BY <1>4, NextMultiple
<1>7. p = 0 => pg = 0
  BY <1>4, NextMultiple
<1>8. p = 1 => back = 0
  <2>1. p = 1 => p - 1 = 0
    OBVIOUS
  <2> QED BY <1>4, <2>1, NextMultiple
<1>9. /\ sendAt[i] = Never => p >= 1 /\ dur <= pg
      /\ sendAt[i] # Never => start + pg >= EndTime
      /\ p >= 1 => start + back < EndTime
      /\ p >= 2 => back < dur
  BY <1>1, <1>3 DEF PaceSound
<1>10. received[i] <= p
  <2>1. IsFiniteSet(OfBurst(i))
    BY FS_Subset DEF OfBurst, BurstsInv
  <2>2. Cardinality(OfBurst(i)) \in Nat /\ received[i] \in Nat
    BY <2>1, FS_CardinalityType DEF MemoryInv, MemoryTyped
  <2> QED BY <1>1, <1>4, <2>2 DEF CountSound
<1> SUFFICES p >= 1 /\ back <= e /\ (back = e => e = 0) /\ e <= pg
  BY <1>10
<1> HIDE DEF p, g, pg, back, start, dur, e
<1>11. p >= 1
  BY <1>4, <1>7, <1>9
<1>12. e <= pg
  BY <1>4, <1>5, <1>9
<1>13. p = 1 \/ p >= 2
  BY <1>4, <1>11
<1>14. e \in Nat /\ (p >= 2 => back < e) /\ back \in Nat
  BY <1>4, <1>5, <1>6, <1>9, <1>11
<1> QED BY <1>8, <1>11, <1>12, <1>13, <1>14

(* The rows of one table.                                                    *)
LEMMA RowsFacts ==
  ASSUME NEW S \in SUBSET Id, NEW c, NEW rows,
         rows = [k \in DOMAIN SortedIds(S) |-> Row(SortedIds(S)[k], c[SortedIds(S)[k]])]
  PROVE  /\ \A i : (\E k \in DOMAIN rows : rows[k].id = i) <=> i \in S
         /\ \A k \in DOMAIN rows : rows[k] = Row(rows[k].id, c[rows[k].id])
         /\ \A k \in 2 .. Len(rows) : rows[k - 1].id < rows[k].id
<1> DEFINE q == SortedIds(S)
           n == Cardinality(S)
           T == {rows[k] : k \in DOMAIN rows}
<1>1. S \in SUBSET Nat /\ IsFiniteSet(S)
  <2>1. MaxBursts - 1 \in Int /\ Id \subseteq Nat
    BY BurstAssumption DEF Id
  <2>2. IsFiniteSet(Id)
    BY <2>1, FS_Interval DEF Id
  <2> QED BY <2>1, <2>2, FS_Subset
<1>2. /\ n \in Nat /\ DOMAIN q = 1 .. n
      /\ \A k \in 1 .. n : q[k] \in S
      /\ \A x \in S : \E k \in 1 .. n : q[k] = x
      /\ \A j, k \in 1 .. n : j < k => q[j] < q[k]
  BY <1>1, SortedIdsFacts
<1> HIDE DEF q, n
<1>3. /\ DOMAIN rows = 1 .. n
      /\ \A k \in 1 .. n : rows[k] = Row(q[k], c[q[k]]) /\ rows[k].id = q[k]
  BY <1>2 DEF q, Row
<1>4. Len(rows) = n
  <2>1. rows \in [1 .. n -> T]
    BY <1>3
  <2> HIDE DEF T
  <2>2. rows \in Seq(T)
    BY <1>2, <2>1, SeqDef
  <2> QED BY <1>2, <1>3, <2>2, LenProperties
<1>5. ASSUME NEW k \in 2 .. Len(rows) PROVE rows[k - 1].id < rows[k].id
  <2>1. k - 1 \in 1 .. n /\ k \in 1 .. n /\ k - 1 < k
    BY <1>2, <1>4
  <2> QED BY <1>2, <1>3, <2>1
<1> QED BY <1>2, <1>3, <1>5

(* The two tables of a system, of the run's last counts.                     *)
LEMMA TablesWritten ==
  ASSUME FilesInv, MemoryInv, BurstsInv, NEW s \in System, Written(s), Enabled
  PROVE  /\ \A i : (\E k \in DOMAIN report[s]["out"] : report[s]["out"][k].id = i) <=> i \in From(s)
         /\ \A i : (\E k \in DOMAIN report[s]["in"] : report[s]["in"][k].id = i) <=> i \in To(s)
         /\ \A k \in DOMAIN report[s]["out"] :
              report[s]["out"][k] = Row(report[s]["out"][k].id, sent[report[s]["out"][k].id])
         /\ \A k \in DOMAIN report[s]["in"] :
              report[s]["in"][k] = Row(report[s]["in"][k].id, received[report[s]["in"][k].id])
         /\ \A way \in {"out", "in"} : \A k \in 2 .. Len(report[s][way]) :
              report[s][way][k - 1].id < report[s][way][k].id
<1> DEFINE out == report[s]["out"]
           in == report[s]["in"]
<1>1. report[s] = Tables(s) /\ Range(outgoing[s]) = From(s) /\ {r[2] : r \in registered[s]} = To(s)
  BY OutgoingWritten, IncomingWritten DEF BurstsInv, ReportSound
<1>2. /\ out = [k \in DOMAIN SortedIds(From(s)) |->
                  Row(SortedIds(From(s))[k], sent[SortedIds(From(s))[k]])]
      /\ in  = [k \in DOMAIN SortedIds(To(s)) |->
                  Row(SortedIds(To(s))[k], received[SortedIds(To(s))[k]])]
  <2> DEFINE outRows == [k \in DOMAIN SortedIds(From(s)) |->
                           Row(SortedIds(From(s))[k], sent[SortedIds(From(s))[k]])]
             inRows  == [k \in DOMAIN SortedIds(To(s)) |->
                           Row(SortedIds(To(s))[k], received[SortedIds(To(s))[k]])]
  <2>1. Tables(s) = [out |-> outRows, in |-> inRows]
    BY <1>1, Zenon DEF Tables
  <2> HIDE DEF outRows, inRows
  <2>2. report[s]["out"] = outRows /\ report[s]["in"] = inRows
    BY <1>1, <2>1
  <2> QED BY <2>2 DEF outRows, inRows
<1>3. From(s) \in SUBSET Id /\ To(s) \in SUBSET Id
  BY DEF From, To
<1> HIDE DEF out, in
<1>4. /\ \A i : (\E k \in DOMAIN out : out[k].id = i) <=> i \in From(s)
      /\ \A k \in DOMAIN out : out[k] = Row(out[k].id, sent[out[k].id])
      /\ \A k \in 2 .. Len(out) : out[k - 1].id < out[k].id
  BY <1>2, <1>3, RowsFacts
<1>5. /\ \A i : (\E k \in DOMAIN in : in[k].id = i) <=> i \in To(s)
      /\ \A k \in DOMAIN in : in[k] = Row(in[k].id, received[in[k].id])
      /\ \A k \in 2 .. Len(in) : in[k - 1].id < in[k].id
  BY <1>2, <1>3, RowsFacts
<1> QED BY <1>4, <1>5 DEF out, in

LEMMA RowIs ==
  ASSUME NEW way, NEW i, NEW r, Reporters(way, i) # {},
         \A s \in Reporters(way, i) : \A k \in DOMAIN report[s][way] :
           report[s][way][k].id = i => report[s][way][k] = r
  PROVE  RowOf(way, i) = r
<1> DEFINE s == CHOOSE x \in Reporters(way, i) : TRUE
           k == CHOOSE k \in DOMAIN report[s][way] : report[s][way][k].id = i
<1>1. s \in Reporters(way, i)
  OBVIOUS
<1>2. RowOf(way, i) = report[s][way][k]
  BY DEF RowOf
<1> HIDE DEF s
<1>3. \E x \in DOMAIN report[s][way] : report[s][way][x].id = i
  BY <1>1 DEF Reporters
<1>4. k \in DOMAIN report[s][way] /\ report[s][way][k].id = i
  BY <1>3
<1> HIDE DEF k
<1> QED BY <1>1, <1>2, <1>4

(* Every burst of an accepted schedule is in the tables of the two systems   *)
(* it concerns, once in each, with counts that fit its rate and duration and *)
(* each other, for every schedule, every assignment of the nodes and every   *)
(* way the network may lose and reorder packets.                             *)
THEOREM BurstsReported == Spec => []BurstsReportedOnce
<1>1. FilesInv /\ MemoryInv /\ BurstsInv => BurstsReportedOnce
  <2> SUFFICES ASSUME FilesInv, MemoryInv, BurstsInv, Enabled, input.np > 0,
                      \A s \in 0 .. input.np - 1 : Written(s)
               PROVE  BurstsReportedOnce
    BY DEF BurstsReportedOnce
  <2>1. input \in Input /\ NumSystems \in Nat \ {0} /\ input.np \in 1 .. NumSystems
    BY InputAssumption DEF FilesInv, BasicTyped
  <2>2. 0 \in System /\ Written(0) /\ stage[0] \in AfterSchedule
    BY <2>1 DEF System, Written, AfterSchedule
  <2>3. EndTime \in Nat /\ now = EndTime /\ IsSchedule(input.bursts) /\ BasicTyped
    BY <2>2, WrittenNow
  <2>4. ASSUME NEW s \in System PROVE (s < input.np => Written(s)) /\ s \in Nat
    BY <2>1 DEF System
  <2>5. ASSUME NEW s \in System, ~ (s < input.np)
        PROVE  report[s]["out"] = <<>> /\ report[s]["in"] = <<>>
    <3>1. stage[s] = "none"
      BY <2>5 DEF FilesInv, StageSound
    <3>2. report[s] = NoReport
      BY <3>1 DEF BurstsInv, ReportSound
    <3> QED BY <3>2 DEF NoReport
  <2>6. ASSUME NEW s \in System, NEW way \in {"out", "in"}, NEW k \in 2 .. Len(report[s][way])
        PROVE  report[s][way][k - 1].id < report[s][way][k].id
    <3>1. CASE s < input.np
      BY <2>4, <2>6, <3>1, TablesWritten
    <3>2. CASE ~ (s < input.np)
      <4>1. report[s][way] = <<>>
        BY <2>5, <3>2
      <4>2. Len(report[s][way]) = 0
        BY <4>1
      <4> QED BY <4>2
    <3> QED BY <3>1, <3>2
  <2>7. ASSUME NEW i \in 0 .. Len(input.bursts) - 1
        PROVE  LET out == RowOf("out", i) in == RowOf("in", i) e == Entry(i) IN
               /\ \A s \in System :
                    /\ s \in Reporters("out", i) <=> s < input.np /\ IsOnThisSystem(e.from, s)
                    /\ s \in Reporters("in", i) <=> s < input.np /\ IsOnThisSystem(e.to, s)
               /\ in.packets <= out.packets /\ in.duration = out.duration
               /\ out.packets >= 1 /\ (out.packets - 1) * Gap(i) <= out.duration
               /\ (out.packets - 1) * Gap(i) = out.duration => out.duration = 0
               /\ out.duration <= out.packets * Gap(i)
    <3>1. i \in Id /\ Valid(i)
      <4>1. /\ input.bursts \in Seq(BurstLine) /\ Len(input.bursts) <= MaxBursts
            /\ MaxBursts \in Nat /\ Len(input.bursts) \in Nat
        BY <2>1, BurstAssumption
      <4>2. i \in Id /\ i + 1 \in DOMAIN input.bursts
        BY <4>1 DEF Id
      <4> QED BY <2>3, <4>2 DEF Valid
    <3>2. ASSUME NEW s \in System
          PROVE  /\ s \in Reporters("out", i) <=> s < input.np /\ IsOnThisSystem(Entry(i).from, s)
                 /\ s \in Reporters("in", i) <=> s < input.np /\ IsOnThisSystem(Entry(i).to, s)
      <4>1. CASE s < input.np
        <5>1. /\ s \in Reporters("out", i) <=> i \in From(s)
              /\ s \in Reporters("in", i) <=> i \in To(s)
          BY <2>4, <4>1, TablesWritten DEF Reporters
        <5> QED BY <3>1, <4>1, <5>1 DEF From, To
      <4>2. CASE ~ (s < input.np)
        <5>1. s \notin Reporters("out", i) /\ s \notin Reporters("in", i)
          BY <2>5, <4>2 DEF Reporters
        <5> QED BY <4>2, <5>1
      <4> QED BY <4>1, <4>2
    <3>3. Entry(i).from \in Endpoint /\ Entry(i).to \in Endpoint
      BY <2>3, <3>1, EntryShape, ValidEntry
    <3>4. PICK s \in System : s \in 0 .. input.np - 1 /\ IsOnThisSystem(Entry(i).from, s)
      BY <2>2, <3>3, SomeSystemHasIt
    <3>5. PICK t \in System : t \in 0 .. input.np - 1 /\ IsOnThisSystem(Entry(i).to, t)
      BY <2>2, <3>3, SomeSystemHasIt
    <3>6. s < input.np /\ t < input.np /\ Written(s)
      BY <2>1, <3>4, <3>5
    <3>7. Reporters("out", i) # {} /\ Reporters("in", i) # {}
      BY <3>2, <3>4, <3>5, <3>6
    <3>8. \A x \in Reporters("out", i) \cup Reporters("in", i) : x \in System /\ Written(x)
      BY <2>4, <3>2 DEF Reporters
    <3>9. RowOf("out", i) = Row(i, sent[i])
      <4>1. \A x \in Reporters("out", i) : \A k \in DOMAIN report[x]["out"] :
              report[x]["out"][k].id = i => report[x]["out"][k] = Row(i, sent[i])
        BY <3>8, TablesWritten
      <4> QED BY <3>7, <4>1, RowIs
    <3>10. RowOf("in", i) = Row(i, received[i])
      <4>1. \A x \in Reporters("in", i) : \A k \in DOMAIN report[x]["in"] :
              report[x]["in"][k].id = i => report[x]["in"][k] = Row(i, received[i])
        BY <3>8, TablesWritten
      <4> QED BY <3>7, <4>1, RowIs
    <3>11. i \in Installed
      <4>1. i \in Range(outgoing[s])
        BY <3>1, <3>4, <3>6, OutgoingWritten DEF From
      <4> QED BY <4>1 DEF Installed
    <3> DEFINE e == Row(i, sent[i]).duration
               p == sent[i]
    <3>12. /\ received[i] <= p /\ p >= 1 /\ (p - 1) * Gap(i) <= e
           /\ (p - 1) * Gap(i) = e => e = 0
           /\ e <= p * Gap(i)
      BY <2>3, <3>1, <3>11, CountsWritten
    <3>13. /\ RowOf("out", i).packets = p /\ RowOf("out", i).duration = e
           /\ RowOf("in", i).packets = received[i] /\ RowOf("in", i).duration = e
      BY <3>9, <3>10 DEF Row
    <3> HIDE DEF e, p
    <3> QED BY <3>2, <3>12, <3>13
  <2> QED BY <2>6, <2>7 DEF BurstsReportedOnce
<1> QED BY <1>1, BurstsAlways, PTL
=============================================================================
