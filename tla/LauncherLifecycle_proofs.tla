---------------------- MODULE LauncherLifecycle_proofs ----------------------
(***************************************************************************)
(* What LauncherLifecycle guarantees for any set of nodes, local and       *)
(* remote, and any number of invocations.  The inductive invariant has     *)
(* five parts beside TypeOK; each is preserved given TypeOK and the parts  *)
(* before it.                                                              *)
(***************************************************************************)
EXTENDS LauncherLifecycle, TLAPS

-----------------------------------------------------------------------------
(* Pids are handed out once, and a pid file names a process of its node.   *)
PidInv ==
    /\ \A p \in procs : p.pid <= lastPid
    /\ \A n \in Nodes : pidfile[n] <= lastPid
    /\ \A n \in Nodes, p \in procs : p.pid = pidfile[n] => p.node = n
    /\ pc \in {"spawned", "pidwritten"} =>
          \A p \in procs : p.pid = lastPid => p.node = cur

(* The processes of the present run, while its record is being built.      *)
PresentRunCovered ==
    pc \in {"start"} \cup Launching =>
        \A p \in procs :
            p.run = run =>
                \/ p.node \in running /\ pidfile[p.node] >= p.pid
                \/ /\ pc \in {"spawned", "pidwritten"}
                   /\ p.pid = lastPid
                   /\ p.node = cur
                   /\ pc = "pidwritten" => pidfile[cur] = lastPid

(* Where a run stands in the history: no process has the number of a run   *)
(* to come, and none that of one that has not reached its start loop.      *)
RunInv ==
    /\ lastRun.run <= run
    /\ pc \notin {"idle", "ignite"} => lastRun.run < run
    /\ \A p \in procs : p.run <= run
    /\ pc \in {"shape", "setprods", "bootscript", "nodefiles", "kill"} =>
          \A p \in procs : p.run < run
    /\ PresentRunCovered
    /\ LastRunCoversItsRun

(* What kill() has behind it.                                              *)
KillInv ==
    pc = "kill" =>
        /\ opt.mode \in {"all", "local", "remote"}
        /\ opt.targets = Selected(opt.mode, lastRun.nodes)
        /\ todo \subseteq opt.targets
        /\ \A n \in opt.targets \ todo : pidfile[n] \in signalled

(* The order in which the keys reach the files.                            *)
KeyInv ==
    /\ startScript <= setprods
    /\ setprods <= run
    /\ \A n \in Nodes : staged[n] <= startScript /\ config[n] <= startScript
    /\ \A p \in procs : p.cfg <= startScript
    /\ pc \in {"setprods", "bootscript"} => todo = Nodes
    /\ pc = "bootscript" => setprods = run
    /\ pc = "nodefiles" =>
          /\ startScript = run
          /\ \A n \in Nodes \ todo : staged[n] = run
    /\ pc \in {"start", "ignite"} \cup Launching /\ ~opt.nogen =>
          /\ startScript = run
          /\ \A n \in Nodes : staged[n] = run
          /\ pc \in Launching \ {"prepared"} => config[cur] = run
          /\ \A p \in procs : p.run = run => p.cfg = run

(* The traces a deployed node leaves.                                      *)
ForceInv ==
    /\ \A n \in Nodes : config[n] # 0 => data[n] # "absent"
    /\ \A p \in procs : config[p.node] # 0
    /\ pc \in Launching => data[cur] # "absent"
    /\ pc \in Launching \ {"prepared"} => config[cur] # 0
    /\ pc = "prepared" /\ ~opt.force => unseen \/ config[cur] = 0
    /\ pc = "deployed" /\ ~opt.force => unseen \/ \A p \in procs : p.node # cur

-----------------------------------------------------------------------------
\* The fields of a process.
LEMMA ProcessType ==
  ASSUME TypeOK, NEW p \in procs
  PROVE  p.pid \in Nat /\ p.node \in Nodes /\ p.run \in Nat /\ p.cfg \in Nat
  BY DEF TypeOK

LEMMA InitTypeOK == Init => TypeOK
  <1> SUFFICES ASSUME Init PROVE TypeOK
    OBVIOUS
  <1>1. opt \in Options
    BY DEF Init, Modes, Options, NoOptions
  <1>2. unseen \in BOOLEAN /\ (unseen => cur \in RemoteNodes)
    BY Zenon DEF Init
  <1> QED
    BY <1>1, <1>2, NodesAssumption DEF Init, TypeOK, DataStates, PCs, Launching

LEMMA TargetsAreNodes ==
  ASSUME NEW mode, NEW targets \in TargetSets(mode)
  PROVE  targets \subseteq Nodes
  <1>1. CASE mode = "named"
    <2>1. targets \in {{n} : n \in Nodes}
      BY <1>1, Zenon DEF TargetSets
    <2> QED
      BY <2>1, Zenon
  <1>2. CASE mode # "named"
    BY <1>2, Zenon DEF TargetSets, Selected
  <1> QED
    BY <1>1, <1>2

LEMMA TypeStep == TypeOK /\ [Next]_vars => TypeOK'
  <1> SUFFICES ASSUME TypeOK, [Next]_vars PROVE TypeOK'
    OBVIOUS
  <1> USE NodesAssumption DEF TypeOK, PCs, Launching, vars, files, nodeos, launcher
  <1>0. NoOptions \in Options
    BY DEF NoOptions, Options, Modes
  <1>leave. ASSUME Leave, UNCHANGED <<files, nodeos>> PROVE TypeOK'
    BY <1>leave, <1>0 DEF Leave
  <1>1. ASSUME NEW mode \in Modes, NEW force \in BOOLEAN, NEW nogen \in BOOLEAN,
               InvokeLaunch(mode, force, nogen)
        PROVE TypeOK'
    <2>1. PICK targets \in TargetSets(mode) :
             opt' = [mode |-> IF mode = "none" THEN mode ELSE "launch",
                     force |-> force, nogen |-> nogen, targets |-> targets]
      BY <1>1 DEF InvokeLaunch
    <2>2. targets \subseteq Nodes
      BY <2>1, TargetsAreNodes
    <2>3. opt' \in Options
      BY <2>1, <2>2 DEF Options
    <2>4. todo' \subseteq Nodes
      BY <1>1, <2>1, <2>2 DEF InvokeLaunch
    <2> QED
      BY <1>1, <2>3, <2>4 DEF InvokeLaunch
  <1>2. ASSUME NEW mode \in {"all", "local", "remote"}, InvokeKill(mode) PROVE TypeOK'
    <2>1. Selected(mode, lastRun.nodes) \subseteq Nodes
      BY DEF Selected
    <2>2. opt' \in Options
      BY <1>2, <2>1, <1>0 DEF InvokeKill, Options, Modes
    <2> QED
      BY <1>2, <2>1, <2>2 DEF InvokeKill
  <1>23. CASE MakeShape
    BY <1>23 DEF MakeShape, Goto, Options
  <1>3. CASE WriteSetprodsFile
    BY <1>3 DEF WriteSetprodsFile, Goto
  <1>4. CASE WriteBiosBoot
    BY <1>4 DEF WriteBiosBoot, Goto
  <1>5. ASSUME NEW n \in Nodes, WriteNodeFiles(n) PROVE TypeOK'
    BY <1>5 DEF WriteNodeFiles
  <1>6. CASE StartAll
    BY <1>6 DEF StartAll, Goto, Options
  <1>7. ASSUME NEW n \in Nodes, RefuseToOverwrite(n) PROVE TypeOK'
    BY <1>7, <1>leave DEF RefuseToOverwrite
  <1>8. ASSUME NEW n \in Nodes, PrepareDirectories(n) PROVE TypeOK'
    BY <1>8 DEF PrepareDirectories, DataStates
  <1>24. ASSUME NEW n \in Nodes, PrepareUnseen(n)
        PROVE  TypeOK'
    BY <1>24 DEF PrepareUnseen
  <1>9. CASE CopyConfig
    BY <1>9 DEF CopyConfig, Goto
  <1>10. CASE CopyFails
    BY <1>10, <1>leave DEF CopyFails
  <1>11. CASE Spawn
    BY <1>11 DEF Spawn, Goto
  <1>12. CASE WritePidFile
    BY <1>12 DEF WritePidFile, Goto
  <1>13. CASE RecordNode
    BY <1>13 DEF RecordNode
  <1>14. CASE LaunchThrows
    BY <1>14 DEF LaunchThrows
  <1>15. CASE SaveLastRun
    BY <1>15 DEF SaveLastRun, Goto
  <1>16. CASE Ignite
    BY <1>16, <1>leave DEF Ignite
  <1>17. ASSUME NEW n \in Nodes, KillNode(n) PROVE TypeOK'
    BY <1>17 DEF KillNode
  <1>18. CASE KillDone
    BY <1>18, <1>leave DEF KillDone
  <1>19. CASE Abort
    BY <1>19, <1>leave DEF Abort
  <1>20. ASSUME NEW p \in procs, Stop(p) PROVE TypeOK'
    <2>1. cur \in Nodes <=> pc \in Launching
      OBVIOUS
    <2> QED
      BY <1>20, <2>1 DEF Stop
  <1>21. ASSUME NEW p \in procs, Produce(p) PROVE TypeOK'
    BY <1>21 DEF Produce, DataStates
  <1>22. CASE UNCHANGED vars
    BY <1>22
  <1> HIDE DEF TypeOK, PCs, Launching, vars, files, nodeos, launcher
  <1> QED
    BY <1>1, <1>2, <1>3, <1>4, <1>5, <1>6, <1>7, <1>8, <1>9, <1>10, <1>11,
       <1>12, <1>13, <1>14, <1>15, <1>16, <1>17, <1>18, <1>19, <1>20, <1>21, <1>22,
       <1>23, <1>24
    DEF Next, Invoke, LauncherStep, Environment

(* Every variable keeps its type, whatever is invoked, fails or dies. *)
THEOREM TypeCorrect == Spec => []TypeOK
  <1>1. Init => TypeOK
    BY InitTypeOK
  <1>2. TypeOK /\ [Next]_vars => TypeOK'
    BY TypeStep
  <1> QED
    BY <1>1, <1>2, PTL DEF Spec

LEMMA PidStep == TypeOK /\ PidInv /\ [Next]_vars => PidInv'
  <1> SUFFICES ASSUME TypeOK, PidInv, [Next]_vars PROVE PidInv'
    OBVIOUS
  <1> USE NodesAssumption DEF TypeOK, PidInv, Launching, PCs, vars, files, nodeos, launcher
  <1>1. ASSUME NEW mode \in Modes, NEW force \in BOOLEAN, NEW nogen \in BOOLEAN,
               InvokeLaunch(mode, force, nogen)
        PROVE  PidInv'
    BY <1>1 DEF InvokeLaunch
  <1>2. ASSUME NEW mode \in {"all", "local", "remote"}, InvokeKill(mode)
        PROVE  PidInv'
    BY <1>2 DEF InvokeKill, NoOptions
  <1>23. CASE MakeShape
    BY <1>23 DEF MakeShape, Goto
  <1>3. CASE WriteSetprodsFile
    BY <1>3 DEF WriteSetprodsFile, Goto
  <1>4. CASE WriteBiosBoot
    BY <1>4 DEF WriteBiosBoot, Goto
  <1>5. ASSUME NEW n \in Nodes, WriteNodeFiles(n)
        PROVE  PidInv'
    BY <1>5 DEF WriteNodeFiles
  <1>6. CASE StartAll
    BY <1>6 DEF StartAll, Goto
  <1>7. ASSUME NEW n \in Nodes, RefuseToOverwrite(n)
        PROVE  PidInv'
    BY <1>7 DEF RefuseToOverwrite, Leave
  <1>8. ASSUME NEW n \in Nodes, PrepareDirectories(n)
        PROVE  PidInv'
    BY <1>8 DEF PrepareDirectories
  <1>24. ASSUME NEW n \in Nodes, PrepareUnseen(n)
        PROVE  PidInv'
    BY <1>24 DEF PrepareUnseen
  <1>9. CASE CopyConfig
    BY <1>9 DEF CopyConfig, Goto
  <1>10. CASE CopyFails
    BY <1>10 DEF CopyFails, Leave
  <1>11. CASE Spawn
    BY <1>11 DEF Spawn, Goto
  <1>12. CASE WritePidFile
    BY <1>12 DEF WritePidFile, Goto
  <1>13. CASE RecordNode
    BY <1>13 DEF RecordNode
  <1>14. CASE LaunchThrows
    BY <1>14 DEF LaunchThrows
  <1>15. CASE SaveLastRun
    BY <1>15 DEF SaveLastRun, Goto
  <1>16. CASE Ignite
    BY <1>16 DEF Ignite, Leave
  <1>17. ASSUME NEW n \in Nodes, KillNode(n)
        PROVE  PidInv'
    BY <1>17 DEF KillNode
  <1>18. CASE KillDone
    BY <1>18 DEF KillDone, Leave
  <1>19. CASE Abort
    BY <1>19 DEF Abort, Leave
  <1>20. ASSUME NEW p \in procs, Stop(p)
        PROVE  PidInv'
    BY <1>20 DEF Stop
  <1>21. ASSUME NEW p \in procs, Produce(p)
        PROVE  PidInv'
    BY <1>21 DEF Produce
  <1>22. CASE UNCHANGED vars
    BY <1>22
  <1> HIDE DEF TypeOK, PidInv, Launching, PCs, vars, files, nodeos, launcher
  <1> QED
    BY <1>1, <1>2, <1>3, <1>4, <1>5, <1>6, <1>7, <1>8, <1>9, <1>10, <1>11,
       <1>12, <1>13, <1>14, <1>15, <1>16, <1>17, <1>18, <1>19, <1>20, <1>21, <1>22,
       <1>23, <1>24
    DEF Next, Invoke, LauncherStep, Environment

LEMMA RunStep == TypeOK /\ PidInv /\ RunInv /\ [Next]_vars => RunInv'
  <1> SUFFICES ASSUME TypeOK, PidInv, RunInv, [Next]_vars PROVE RunInv'
    OBVIOUS
  <1> USE NodesAssumption DEF TypeOK, PidInv, RunInv, PresentRunCovered, LastRunCoversItsRun, Launching, PCs, vars, files, nodeos, launcher
  <1>1. ASSUME NEW mode \in Modes, NEW force \in BOOLEAN, NEW nogen \in BOOLEAN,
               InvokeLaunch(mode, force, nogen)
        PROVE  RunInv'
    BY <1>1 DEF InvokeLaunch
  <1>2. ASSUME NEW mode \in {"all", "local", "remote"}, InvokeKill(mode)
        PROVE  RunInv'
    BY <1>2 DEF InvokeKill, NoOptions
  <1>23. CASE MakeShape
    BY <1>23 DEF MakeShape, Goto
  <1>3. CASE WriteSetprodsFile
    BY <1>3 DEF WriteSetprodsFile, Goto
  <1>4. CASE WriteBiosBoot
    BY <1>4 DEF WriteBiosBoot, Goto
  <1>5. ASSUME NEW n \in Nodes, WriteNodeFiles(n)
        PROVE  RunInv'
    BY <1>5 DEF WriteNodeFiles
  <1>6. CASE StartAll
    BY <1>6 DEF StartAll, Goto
  <1>7. ASSUME NEW n \in Nodes, RefuseToOverwrite(n)
        PROVE  RunInv'
    BY <1>7 DEF RefuseToOverwrite, Leave
  <1>8. ASSUME NEW n \in Nodes, PrepareDirectories(n)
        PROVE  RunInv'
    BY <1>8 DEF PrepareDirectories
  <1>24. ASSUME NEW n \in Nodes, PrepareUnseen(n)
        PROVE  RunInv'
    BY <1>24 DEF PrepareUnseen
  <1>9. CASE CopyConfig
    BY <1>9 DEF CopyConfig, Goto
  <1>10. CASE CopyFails
    BY <1>10 DEF CopyFails, Leave
  <1>11. CASE Spawn
    BY <1>11 DEF Spawn, Goto
  <1>12. CASE WritePidFile
    BY <1>12 DEF WritePidFile, Goto
  <1>13. CASE RecordNode
    BY <1>13 DEF RecordNode
  <1>14. CASE LaunchThrows
    BY <1>14 DEF LaunchThrows
  <1>15. CASE SaveLastRun
    BY <1>15 DEF SaveLastRun, Goto
  <1>16. CASE Ignite
    BY <1>16 DEF Ignite, Leave
  <1>17. ASSUME NEW n \in Nodes, KillNode(n)
        PROVE  RunInv'
    BY <1>17 DEF KillNode
  <1>18. CASE KillDone
    BY <1>18 DEF KillDone, Leave
  <1>19. CASE Abort
    BY <1>19 DEF Abort, Leave
  <1>20. ASSUME NEW p \in procs, Stop(p)
        PROVE  RunInv'
    BY <1>20 DEF Stop
  <1>21. ASSUME NEW p \in procs, Produce(p)
        PROVE  RunInv'
    BY <1>21 DEF Produce
  <1>22. CASE UNCHANGED vars
    BY <1>22
  <1> HIDE DEF TypeOK, PidInv, RunInv, PresentRunCovered, LastRunCoversItsRun, Launching, PCs, vars, files, nodeos, launcher
  <1> QED
    BY <1>1, <1>2, <1>3, <1>4, <1>5, <1>6, <1>7, <1>8, <1>9, <1>10, <1>11,
       <1>12, <1>13, <1>14, <1>15, <1>16, <1>17, <1>18, <1>19, <1>20, <1>21, <1>22,
       <1>23, <1>24
    DEF Next, Invoke, LauncherStep, Environment

LEMMA KillStep == TypeOK /\ KillInv /\ [Next]_vars => KillInv'
  <1> SUFFICES ASSUME TypeOK, KillInv, [Next]_vars PROVE KillInv'
    OBVIOUS
  <1> USE NodesAssumption DEF TypeOK, KillInv, Launching, PCs, vars, files, nodeos, launcher
  <1>1. ASSUME NEW mode \in Modes, NEW force \in BOOLEAN, NEW nogen \in BOOLEAN,
               InvokeLaunch(mode, force, nogen)
        PROVE  KillInv'
    BY <1>1 DEF InvokeLaunch
  <1>2. ASSUME NEW mode \in {"all", "local", "remote"}, InvokeKill(mode)
        PROVE  KillInv'
    BY <1>2 DEF InvokeKill, NoOptions
  <1>23. CASE MakeShape
    BY <1>23 DEF MakeShape, Goto
  <1>3. CASE WriteSetprodsFile
    BY <1>3 DEF WriteSetprodsFile, Goto
  <1>4. CASE WriteBiosBoot
    BY <1>4 DEF WriteBiosBoot, Goto
  <1>5. ASSUME NEW n \in Nodes, WriteNodeFiles(n)
        PROVE  KillInv'
    BY <1>5 DEF WriteNodeFiles
  <1>6. CASE StartAll
    BY <1>6 DEF StartAll, Goto
  <1>7. ASSUME NEW n \in Nodes, RefuseToOverwrite(n)
        PROVE  KillInv'
    BY <1>7 DEF RefuseToOverwrite, Leave
  <1>8. ASSUME NEW n \in Nodes, PrepareDirectories(n)
        PROVE  KillInv'
    BY <1>8 DEF PrepareDirectories
  <1>24. ASSUME NEW n \in Nodes, PrepareUnseen(n)
        PROVE  KillInv'
    BY <1>24 DEF PrepareUnseen
  <1>9. CASE CopyConfig
    BY <1>9 DEF CopyConfig, Goto
  <1>10. CASE CopyFails
    BY <1>10 DEF CopyFails, Leave
  <1>11. CASE Spawn
    BY <1>11 DEF Spawn, Goto
  <1>12. CASE WritePidFile
    BY <1>12 DEF WritePidFile, Goto
  <1>13. CASE RecordNode
    BY <1>13 DEF RecordNode
  <1>14. CASE LaunchThrows
    BY <1>14 DEF LaunchThrows
  <1>15. CASE SaveLastRun
    BY <1>15 DEF SaveLastRun, Goto
  <1>16. CASE Ignite
    BY <1>16 DEF Ignite, Leave
  <1>17. ASSUME NEW n \in Nodes, KillNode(n)
        PROVE  KillInv'
    BY <1>17 DEF KillNode
  <1>18. CASE KillDone
    BY <1>18 DEF KillDone, Leave
  <1>19. CASE Abort
    BY <1>19 DEF Abort, Leave
  <1>20. ASSUME NEW p \in procs, Stop(p)
        PROVE  KillInv'
    BY <1>20 DEF Stop
  <1>21. ASSUME NEW p \in procs, Produce(p)
        PROVE  KillInv'
    BY <1>21 DEF Produce
  <1>22. CASE UNCHANGED vars
    BY <1>22
  <1> HIDE DEF TypeOK, KillInv, Launching, PCs, vars, files, nodeos, launcher
  <1> QED
    BY <1>1, <1>2, <1>3, <1>4, <1>5, <1>6, <1>7, <1>8, <1>9, <1>10, <1>11,
       <1>12, <1>13, <1>14, <1>15, <1>16, <1>17, <1>18, <1>19, <1>20, <1>21, <1>22,
       <1>23, <1>24
    DEF Next, Invoke, LauncherStep, Environment

LEMMA KeyStep == TypeOK /\ RunInv /\ KeyInv /\ [Next]_vars => KeyInv'
  <1> SUFFICES ASSUME TypeOK, RunInv, KeyInv, [Next]_vars PROVE KeyInv'
    OBVIOUS
  <1> USE NodesAssumption DEF TypeOK, KeyInv, Launching, PCs, vars, files, nodeos, launcher
  <1>0. pc = "nodefiles" => \A p \in procs : p.run # run
    BY DEF RunInv
  <1>1. ASSUME NEW mode \in Modes, NEW force \in BOOLEAN, NEW nogen \in BOOLEAN,
               InvokeLaunch(mode, force, nogen)
        PROVE  KeyInv'
    BY <1>1 DEF InvokeLaunch
  <1>2. ASSUME NEW mode \in {"all", "local", "remote"}, InvokeKill(mode)
        PROVE  KeyInv'
    BY <1>2 DEF InvokeKill, NoOptions
  <1>23. CASE MakeShape
    BY <1>23 DEF MakeShape, Goto
  <1>3. CASE WriteSetprodsFile
    BY <1>3 DEF WriteSetprodsFile, Goto
  <1>4. CASE WriteBiosBoot
    BY <1>4 DEF WriteBiosBoot, Goto
  <1>5. ASSUME NEW n \in Nodes, WriteNodeFiles(n)
        PROVE  KeyInv'
    BY <1>5 DEF WriteNodeFiles
  <1>6. CASE StartAll
    BY <1>6, <1>0 DEF StartAll, Goto
  <1>7. ASSUME NEW n \in Nodes, RefuseToOverwrite(n)
        PROVE  KeyInv'
    BY <1>7 DEF RefuseToOverwrite, Leave
  <1>8. ASSUME NEW n \in Nodes, PrepareDirectories(n)
        PROVE  KeyInv'
    BY <1>8 DEF PrepareDirectories
  <1>24. ASSUME NEW n \in Nodes, PrepareUnseen(n)
        PROVE  KeyInv'
    BY <1>24 DEF PrepareUnseen
  <1>9. CASE CopyConfig
    BY <1>9 DEF CopyConfig, Goto
  <1>10. CASE CopyFails
    BY <1>10 DEF CopyFails, Leave
  <1>11. CASE Spawn
    BY <1>11 DEF Spawn, Goto
  <1>12. CASE WritePidFile
    BY <1>12 DEF WritePidFile, Goto
  <1>13. CASE RecordNode
    BY <1>13 DEF RecordNode
  <1>14. CASE LaunchThrows
    BY <1>14 DEF LaunchThrows
  <1>15. CASE SaveLastRun
    BY <1>15 DEF SaveLastRun, Goto
  <1>16. CASE Ignite
    BY <1>16 DEF Ignite, Leave
  <1>17. ASSUME NEW n \in Nodes, KillNode(n)
        PROVE  KeyInv'
    BY <1>17 DEF KillNode
  <1>18. CASE KillDone
    BY <1>18 DEF KillDone, Leave
  <1>19. CASE Abort
    BY <1>19 DEF Abort, Leave
  <1>20. ASSUME NEW p \in procs, Stop(p)
        PROVE  KeyInv'
    BY <1>20 DEF Stop
  <1>21. ASSUME NEW p \in procs, Produce(p)
        PROVE  KeyInv'
    BY <1>21 DEF Produce
  <1>22. CASE UNCHANGED vars
    BY <1>22
  <1> HIDE DEF TypeOK, KeyInv, Launching, PCs, vars, files, nodeos, launcher
  <1> QED
    BY <1>1, <1>2, <1>3, <1>4, <1>5, <1>6, <1>7, <1>8, <1>9, <1>10, <1>11,
       <1>12, <1>13, <1>14, <1>15, <1>16, <1>17, <1>18, <1>19, <1>20, <1>21, <1>22,
       <1>23, <1>24
    DEF Next, Invoke, LauncherStep, Environment

LEMMA ForceStep == TypeOK /\ ForceInv /\ [Next]_vars => ForceInv'
  <1> SUFFICES ASSUME TypeOK, ForceInv, [Next]_vars PROVE ForceInv'
    OBVIOUS
  <1> USE NodesAssumption DEF TypeOK, ForceInv, Launching, PCs, vars, files, nodeos, launcher
  <1>1. ASSUME NEW mode \in Modes, NEW force \in BOOLEAN, NEW nogen \in BOOLEAN,
               InvokeLaunch(mode, force, nogen)
        PROVE  ForceInv'
    BY <1>1 DEF InvokeLaunch
  <1>2. ASSUME NEW mode \in {"all", "local", "remote"}, InvokeKill(mode)
        PROVE  ForceInv'
    BY <1>2 DEF InvokeKill, NoOptions
  <1>23. CASE MakeShape
    BY <1>23 DEF MakeShape, Goto
  <1>3. CASE WriteSetprodsFile
    BY <1>3 DEF WriteSetprodsFile, Goto
  <1>4. CASE WriteBiosBoot
    BY <1>4 DEF WriteBiosBoot, Goto
  <1>5. ASSUME NEW n \in Nodes, WriteNodeFiles(n)
        PROVE  ForceInv'
    BY <1>5 DEF WriteNodeFiles
  <1>6. CASE StartAll
    BY <1>6 DEF StartAll, Goto
  <1>7. ASSUME NEW n \in Nodes, RefuseToOverwrite(n)
        PROVE  ForceInv'
    BY <1>7 DEF RefuseToOverwrite, Leave
  <1>8. ASSUME NEW n \in Nodes, PrepareDirectories(n)
        PROVE  ForceInv'
    BY <1>8 DEF PrepareDirectories, MayDeploy
  <1>24. ASSUME NEW n \in Nodes, PrepareUnseen(n)
        PROVE  ForceInv'
    BY <1>24 DEF PrepareUnseen
  <1>9. CASE CopyConfig
    BY <1>9 DEF CopyConfig, Goto
  <1>10. CASE CopyFails
    BY <1>10 DEF CopyFails, Leave
  <1>11. CASE Spawn
    BY <1>11 DEF Spawn, Goto
  <1>12. CASE WritePidFile
    BY <1>12 DEF WritePidFile, Goto
  <1>13. CASE RecordNode
    BY <1>13 DEF RecordNode
  <1>14. CASE LaunchThrows
    BY <1>14 DEF LaunchThrows
  <1>15. CASE SaveLastRun
    BY <1>15 DEF SaveLastRun, Goto
  <1>16. CASE Ignite
    BY <1>16 DEF Ignite, Leave
  <1>17. ASSUME NEW n \in Nodes, KillNode(n)
        PROVE  ForceInv'
    BY <1>17 DEF KillNode
  <1>18. CASE KillDone
    BY <1>18 DEF KillDone, Leave
  <1>19. CASE Abort
    BY <1>19 DEF Abort, Leave
  <1>20. ASSUME NEW p \in procs, Stop(p)
        PROVE  ForceInv'
    BY <1>20 DEF Stop
  <1>21. ASSUME NEW p \in procs, Produce(p)
        PROVE  ForceInv'
    BY <1>21 DEF Produce
  <1>22. CASE UNCHANGED vars
    BY <1>22
  <1> HIDE DEF TypeOK, ForceInv, Launching, PCs, vars, files, nodeos, launcher
  <1> QED
    BY <1>1, <1>2, <1>3, <1>4, <1>5, <1>6, <1>7, <1>8, <1>9, <1>10, <1>11,
       <1>12, <1>13, <1>14, <1>15, <1>16, <1>17, <1>18, <1>19, <1>20, <1>21, <1>22,
       <1>23, <1>24
    DEF Next, Invoke, LauncherStep, Environment

-----------------------------------------------------------------------------
(* The inductive invariant.                                                *)
IInv == TypeOK /\ PidInv /\ RunInv /\ KillInv /\ KeyInv /\ ForceInv

LEMMA InitIInv == Init => IInv
  <1> SUFFICES ASSUME Init PROVE IInv
    OBVIOUS
  <1>1. TypeOK
    BY InitTypeOK
  <1>2. PidInv /\ RunInv /\ KillInv /\ KeyInv /\ ForceInv
    BY DEF Init, PidInv, RunInv, PresentRunCovered, LastRunCoversItsRun, KillInv,
       KeyInv, ForceInv, Launching
  <1> QED
    BY <1>1, <1>2 DEF IInv

LEMMA IInvStep == IInv /\ [Next]_vars => IInv'
  BY TypeStep, PidStep, RunStep, KillStep, KeyStep, ForceStep DEF IInv

LEMMA Invariance == Spec => []IInv
  <1>1. Init => IInv
    BY InitIInv
  <1>2. IInv /\ [Next]_vars => IInv'
    BY IInvStep
  <1> QED
    BY <1>1, <1>2, PTL DEF Spec

(* start_all records what it started: every live process of the run that   *)
(* wrote last_run.json can be found through it, however many invocations   *)
(* were aborted since.                                                     *)
THEOREM SavedRunCovered == Spec => []LastRunCoversItsRun
  <1>1. IInv => LastRunCoversItsRun
    BY DEF IInv, RunInv
  <1> QED
    BY <1>1, Invariance, PTL

(* kill() with mode all leaves no live process of the saved run unsignalled*)
(* but those whose pid file a later launch took over.                      *)
THEOREM KillComplete == Spec => []KillStopsSavedRun
  <1>1. IInv => KillStopsSavedRun
    <2> SUFFICES ASSUME IInv, pc = "kill", todo = {}, opt.mode = "all",
                        NEW p \in procs, p.run = lastRun.run
                 PROVE  p.pid \in signalled \/ pidfile[p.node] > p.pid
      BY DEF KillStopsSavedRun
    <2>1. p.node \in lastRun.nodes /\ pidfile[p.node] >= p.pid
      BY DEF IInv, RunInv, LastRunCoversItsRun
    <2>2. opt.targets = lastRun.nodes
      BY DEF IInv, KillInv, Selected
    <2>3. pidfile[p.node] \in signalled
      BY <2>1, <2>2 DEF IInv, KillInv
    <2>4. p.pid \in Nat /\ pidfile[p.node] \in Nat
      BY DEF IInv, TypeOK
    <2> QED
      BY <2>1, <2>3, <2>4
  <1> QED
    BY <1>1, Invariance, PTL

(* The keys of a generation reach the boot script before they reach a node *)
(* and all of them have arrived when the boot script may be run.           *)
THEOREM KeysInOrder == Spec => []KeysMatch
  <1>1. IInv => KeysMatch
    <2> SUFFICES ASSUME IInv PROVE BootKeysMatch /\ NodesNeverAhead
      BY DEF KeysMatch
    <2>1. NodesNeverAhead
      BY DEF IInv, KeyInv, NodesNeverAhead
    <2>2. BootKeysMatch
      BY DEF IInv, TypeOK, KeyInv, BootKeysMatch
    <2> QED
      BY <2>1, <2>2
  <1> QED
    BY <1>1, Invariance, PTL

-----------------------------------------------------------------------------
(* A pid file is only ever used against the node it belongs to.            *)
THEOREM KillConfined == Spec => KillStaysInMode
  <1>1. IInv /\ [Next]_vars =>
          [\A p \in procs :
             p.pid \in signalled' \ signalled =>
                /\ p.node \in lastRun.nodes
                /\ opt.mode = "local" => p.node \notin RemoteNodes
                /\ opt.mode = "remote" => p.node \in RemoteNodes]_vars
    <2> SUFFICES ASSUME IInv, [Next]_vars, NEW p \in procs,
                        p.pid \in signalled' \ signalled
                 PROVE  /\ p.node \in lastRun.nodes
                        /\ opt.mode = "local" => p.node \notin RemoteNodes
                        /\ opt.mode = "remote" => p.node \in RemoteNodes
      BY DEF vars, launcher
    <2>1. PICK n \in Nodes : KillNode(n)
      BY DEF Next, Invoke, InvokeLaunch, InvokeKill, LauncherStep, Environment,
         MakeShape, WriteSetprodsFile, WriteBiosBoot, WriteNodeFiles, StartAll, RefuseToOverwrite,
         PrepareDirectories, PrepareUnseen, CopyConfig, CopyFails, Spawn, WritePidFile, RecordNode,
         LaunchThrows, SaveLastRun, Ignite, KillDone, Abort, Stop, Produce, Leave, Goto,
         vars, launcher
    <2>2. p.pid = pidfile[n] /\ n \in todo /\ pc = "kill"
      BY <2>1 DEF KillNode
    <2>3. p.node = n
      BY <2>2 DEF IInv, PidInv
    <2>4. n \in Selected(opt.mode, lastRun.nodes)
      BY <2>2 DEF IInv, KillInv
    <2> QED
      BY <2>3, <2>4 DEF Selected
  <1> QED
    BY <1>1, Invariance, PTL DEF Spec, KillStaysInMode

(* No launch without --force replaces a configuration or starts a second   *)
(* process of a running node, on local and remote hosts, but where a       *)
(* failing ssh hid the node's data directory; and none erases a chain.     *)
THEOREM ForceNeeded == Spec => ForceGuardsSeen
  <1>1. IInv /\ [Next]_vars =>
          [\A n \in Nodes :
             /\ config[n] # 0 /\ config'[n] # config[n] => opt.force \/ (unseen /\ n = cur)
             /\ data[n] = "chain" /\ data'[n] # "chain" => opt.force]_vars
    <2> SUFFICES ASSUME IInv, [Next]_vars, NEW n \in Nodes, ~opt.force
                 PROVE  /\ config[n] # 0 /\ ~(unseen /\ n = cur) => config'[n] = config[n]
                        /\ data[n] = "chain" => data'[n] = "chain"
      OBVIOUS
    <2>1. CASE CopyConfig
      BY <2>1 DEF CopyConfig, IInv, TypeOK, ForceInv
    <2>2. ASSUME NEW m \in Nodes, PrepareDirectories(m)
          PROVE  config' = config /\ (data[n] = "chain" => data'[n] = "chain")
      BY <2>2 DEF PrepareDirectories, MayDeploy, IInv, TypeOK
    <2>3. ASSUME NEW p \in procs, Produce(p)
          PROVE  config' = config /\ (data[n] = "chain" => data'[n] = "chain")
      BY <2>3 DEF Produce, IInv, TypeOK
    <2>4. \/ CopyConfig
          \/ \E m \in Nodes : PrepareDirectories(m)
          \/ \E p \in procs : Produce(p)
          \/ UNCHANGED <<config, data>>
      BY DEF Next, Invoke, InvokeLaunch, InvokeKill, LauncherStep, Environment,
         MakeShape, WriteSetprodsFile, WriteBiosBoot, WriteNodeFiles, StartAll,
         RefuseToOverwrite, PrepareUnseen, CopyFails, Spawn, WritePidFile, RecordNode,
         LaunchThrows, SaveLastRun, Ignite, KillNode, KillDone, Abort, Stop, vars, files
    <2> QED
      BY <2>1, <2>2, <2>3, <2>4
  <1>2. IInv /\ [Next]_vars =>
          [\A p \in procs, q \in procs' \ procs :
             p.node = q.node => opt.force \/ (unseen /\ q.node = cur)]_vars
    <2> SUFFICES ASSUME IInv, [Next]_vars, ~opt.force,
                        NEW p \in procs, NEW q \in procs' \ procs, p.node = q.node
                 PROVE  unseen /\ q.node = cur
      OBVIOUS
    <2>1. Spawn
      BY DEF Next, Invoke, InvokeLaunch, InvokeKill, LauncherStep, Environment,
         MakeShape, WriteSetprodsFile, WriteBiosBoot, WriteNodeFiles, StartAll,
         RefuseToOverwrite, PrepareDirectories, PrepareUnseen, CopyConfig, CopyFails,
         WritePidFile, RecordNode, LaunchThrows, SaveLastRun, Ignite, KillNode,
         KillDone, Abort, Stop, Produce, vars, nodeos
    <2>2. pc = "deployed" /\ q.node = cur
      BY <2>1 DEF Spawn
    <2> QED
      BY <2>2 DEF IInv, ForceInv
  <1>3. IInv /\ [Next]_vars =>
          [/\ \A n \in Nodes :
                /\ config[n] # 0 /\ config'[n] # config[n] => opt.force \/ (unseen /\ n = cur)
                /\ data[n] = "chain" /\ data'[n] # "chain" => opt.force
           /\ \A p \in procs, q \in procs' \ procs :
                p.node = q.node => opt.force \/ (unseen /\ q.node = cur)]_vars
    BY <1>1, <1>2
  <1> QED
    BY <1>3, Invariance, PTL DEF Spec, ForceGuardsSeen

=============================================================================
