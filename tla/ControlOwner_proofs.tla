------------------------ MODULE ControlOwner_proofs ------------------------
(***************************************************************************)
(* For any number of processes and commands: there is one owner, an owner  *)
(* that came up calmly keeps its files, and a stop that says so has        *)
(* stopped what there was.                                                 *)
(***************************************************************************)
EXTENDS ControlOwner, TLAPS

\* Owners of old builds only answer: nothing on record names one.
OldApart ==
  /\ \A p \in Old : pc[p] \in {"serve", "gone"} /\ p \notin termed /\ p \notin calm
  /\ flock \notin Old /\ lockPid \notin Old /\ pidFile \notin Old
  /\ \A c \in Command : cmd[c].pid \notin Old /\ cmd[c].child \notin Old
                        /\ \A p \in Old : p \notin cmd[c].targets

\* The flock names the one owner; who accepts and who is on record follows.
Locked ==
  \A p \in Proc \ Old :
    /\ Owns(p) <=> flock = p
    /\ p \in listening <=> pc[p] \in {"chmod", "pid", "serve"}
    /\ lockPid = p => pc[p] \notin {"idle", "lock"} /\ (Alive(p) => Owns(p))
    /\ Owns(p) /\ pc[p] # "record" => lockPid = p

\* While a calm owner serves nobody closes, and no stop that knows another pid
\* or none is about to remove a file.
Undisturbed ==
  \A p \in calm :
    /\ pc[p] \in {"serve", "drain", "gone"} \cup ClosingPC
    /\ pc[p] = "serve" =>
         /\ sock = p /\ pidFile = p
         /\ \A q \in Proc : pc[q] \notin ClosingPC
         /\ \A c \in Command :
              /\ cmd[c].pc \notin {"stop_again", "stop_unlink", "stop_unpid"}
              /\ cmd[c].pc \in {"stop_probe", "stop_judge"} => cmd[c].pid = p

\* What a stop that began in quiet has found out about the owner.
Found ==
  \A c \in Command : quiet[c] =>
    /\ \A p \in Proc : pc[p] # "lock"
    /\ cmd[c].pc \in {"stop_probe", "stop_judge"} =>
         \A p \in Proc : Owns(p) => (Runs(cmd[c].pid) => cmd[c].pid = p)
    /\ cmd[c].pc = "stop_wait" => \A p \in Proc : Owns(p) => p \in cmd[c].targets
    /\ cmd[c].pc \in {"stop_check", "stop_again", "stop_unlink", "stop_unpid"} \/ result[c] = "stopped" =>
         \A p \in Proc : ~Owns(p)

\* Setting a command to a record of the right shape keeps the shape of all.
LEMMA SetsKeeps ==
  ASSUME cmd \in [Command -> Cmd], NEW c \in Command, NEW r \in Cmd, Sets(c, r)
  PROVE  cmd' \in [Command -> Cmd]
BY DEF Sets

\* The shapes that commands are set to.
LEMMA CmdShapes ==
  ASSUME OwnerTypeOK
  PROVE  /\ NoCmd \in Cmd
         /\ \A place \in CmdPC : [NoCmd EXCEPT !.pc = place] \in Cmd
         /\ \A c \in Command, place \in CmdPC : [cmd[c] EXCEPT !.pc = place] \in Cmd
<1>1. NoCmd \in Cmd
  BY DEF NoCmd, Cmd, CmdPC
<1>2. \A r \in Cmd, place \in CmdPC : [r EXCEPT !.pc = place] \in Cmd
  BY DEF Cmd
<1> QED
  BY <1>1, <1>2 DEF OwnerTypeOK

\* Two fields of a command's record that are set at once.
LEMMA PairShapes ==
  ASSUME NEW r \in Cmd, NEW place \in CmdPC
  PROVE  /\ \A targets \in SUBSET Proc : [r EXCEPT !.targets = targets, !.pc = place] \in Cmd
         /\ \A then \in {"end", "restart", "spawn"} :
              [r EXCEPT !.pc = place, !.then = then] \in Cmd
         /\ \A p \in Proc : [r EXCEPT !.pc = place, !.child = p] \in Cmd
<1>1. ASSUME NEW targets \in SUBSET Proc PROVE [r EXCEPT !.targets = targets, !.pc = place] \in Cmd
  BY DEF Cmd
<1>2. ASSUME NEW then \in {"end", "restart", "spawn"}
      PROVE  [r EXCEPT !.pc = place, !.then = then] \in Cmd
  BY DEF Cmd
<1>3. ASSUME NEW p \in Proc PROVE [r EXCEPT !.pc = place, !.child = p] \in Cmd
  BY DEF Cmd
<1> QED
  BY <1>1, <1>2, <1>3

LEMMA GotoKeeps ==
  ASSUME OwnerTypeOK, NEW c \in Command, NEW place \in CmdPC, Goto(c, place)
  PROVE  cmd' \in [Command -> Cmd]
BY CmdShapes, SetsKeeps DEF Goto, OwnerTypeOK

LEMMA ReturnsKeeps ==
  ASSUME OwnerTypeOK, NEW c \in Command, NEW outcome \in {"stopped", "refused"},
         StopReturns(c, outcome)
  PROVE  cmd' \in [Command -> Cmd] /\ result' \in [Command -> {"none", "stopped", "refused"}]
<1> DEFINE place == CASE cmd[c].then = "end" -> "idle"
                      [] cmd[c].then = "restart" -> "start_probe"
                      [] cmd[c].then = "spawn" -> "start_reprobe"
<1>1. place \in CmdPC
  BY DEF OwnerTypeOK, Cmd, CmdPC
<1>2. Sets(c, [NoCmd EXCEPT !.pc = place])
  BY DEF StopReturns
<1> HIDE DEF place
<1>3. cmd' \in [Command -> Cmd]
  BY <1>1, <1>2, CmdShapes, SetsKeeps DEF OwnerTypeOK
<1> QED
  BY <1>3 DEF StopReturns, OwnerTypeOK

LEMMA RecordShapes ==
  ASSUME NEW r \in Cmd
  PROVE  /\ \A q \in Proc \cup {None} : [r EXCEPT !.pc = "stop_probe", !.pid = q] \in Cmd
         /\ \A b \in BOOLEAN : [r EXCEPT !.pc = "stop_judge", !.accepts = b] \in Cmd
BY DEF Cmd, CmdPC

\* What StopJudge may come to.
JudgedAs(c, targets, place) ==
  /\ termed' = termed \cup targets
  /\ Sets(c, [cmd[c] EXCEPT !.targets = targets, !.pc = place])
  /\ UNCHANGED <<pidFile, result>>

LEMMA Verdicts ==
  ASSUME NEW c \in Command, StopJudge(c)
  PROVE  \/ /\ StopReturns(c, "refused") /\ termed' = termed /\ ~Runs(cmd[c].pid)
            /\ pidFile' \in {pidFile, None}
         \/ Runs(cmd[c].pid) /\ JudgedAs(c, {cmd[c].pid}, "stop_wait")
         \/ ~Runs(cmd[c].pid) /\ Holders # {} /\ JudgedAs(c, Holders, "stop_wait")
         \/ ~Runs(cmd[c].pid) /\ Holders = {} /\ JudgedAs(c, {}, "stop_again")
<1>1. CASE Runs(cmd[c].pid)
  BY <1>1 DEF StopJudge, JudgedAs
<1>2. CASE ~Runs(cmd[c].pid) /\ Holders # {}
  BY <1>2 DEF StopJudge, JudgedAs
<1>3. CASE ~Runs(cmd[c].pid) /\ Holders = {}
  BY <1>3 DEF StopJudge, JudgedAs
<1> QED
  BY <1>1, <1>2, <1>3


\* Types are kept.
LEMMA TypeKept ==
  ASSUME OwnerTypeOK, [OwnerNext]_vars
  PROVE  OwnerTypeOK'
<1> USE OwnerAssumption
<1>1. CASE UNCHANGED vars
  BY <1>1 DEF vars, files, procs, OwnerTypeOK, Cmd, CmdPC, NoCmd, OwnerPC, ClosingPC
<1>2. ASSUME NEW p \in Proc, AcquireLock(p) PROVE OwnerTypeOK'
  BY <1>2 DEF AcquireLock, Step, files, procs, OwnerTypeOK, Cmd, CmdPC, NoCmd, OwnerPC, ClosingPC
<1>3. ASSUME NEW p \in Proc, RecordPid(p) PROVE OwnerTypeOK'
  BY <1>3 DEF RecordPid, Step, files, procs, OwnerTypeOK, Cmd, CmdPC, NoCmd, OwnerPC, ClosingPC
<1>4. ASSUME NEW p \in Proc, Takeover(p) PROVE OwnerTypeOK'
  BY <1>4 DEF Takeover, Releases, files, procs, OwnerTypeOK, Cmd, CmdPC, NoCmd, OwnerPC, ClosingPC
<1>5. ASSUME NEW p \in Proc, Bind(p) PROVE OwnerTypeOK'
  BY <1>5 DEF Bind, Step, files, procs, OwnerTypeOK, Cmd, CmdPC, NoCmd, OwnerPC, ClosingPC
<1>6. ASSUME NEW p \in Proc, Chmod(p) PROVE OwnerTypeOK'
  BY <1>6 DEF Chmod, Releases, files, procs, OwnerTypeOK, Cmd, CmdPC, NoCmd, OwnerPC, ClosingPC
<1>7. ASSUME NEW p \in Proc, WritePid(p) PROVE OwnerTypeOK'
  BY <1>7
    DEF WritePid, Step, Deciding, files, procs, OwnerTypeOK, Cmd, CmdPC, NoCmd, OwnerPC, ClosingPC
<1>8. ASSUME NEW p \in Proc, StopDuringStart(p) PROVE OwnerTypeOK'
  BY <1>8
    DEF StopDuringStart, Releases, files, procs, OwnerTypeOK, Cmd, CmdPC, NoCmd, OwnerPC, ClosingPC
<1>9. ASSUME NEW p \in Proc, CloseServer(p) PROVE OwnerTypeOK'
  BY <1>9 DEF CloseServer, Step, files, procs, OwnerTypeOK, Cmd, CmdPC, NoCmd, OwnerPC, ClosingPC
<1>10. ASSUME NEW p \in Proc, FinishClose(p) PROVE OwnerTypeOK'
  BY <1>10
    DEF FinishClose, Step, Releases, files, procs, OwnerTypeOK, Cmd, CmdPC, NoCmd, OwnerPC,
        ClosingPC
<1>11. ASSUME NEW p \in Proc, RemovePid(p) PROVE OwnerTypeOK'
  BY <1>11
    DEF RemovePid, Step, Ends, files, procs, OwnerTypeOK, Cmd, CmdPC, NoCmd, OwnerPC, ClosingPC
<1>12. ASSUME NEW p \in Proc, ServeForeground(p) PROVE OwnerTypeOK'
  BY <1>12
    DEF ServeForeground, Spawned, files, procs, OwnerTypeOK, Cmd, CmdPC, NoCmd, OwnerPC, ClosingPC
<1>13. ASSUME NEW p \in Proc, Interrupt(p) PROVE OwnerTypeOK'
  BY <1>13
    DEF Interrupt, Signal, Ends, files, procs, OwnerTypeOK, Cmd, CmdPC, NoCmd, OwnerPC, ClosingPC
<1>14. ASSUME NEW p \in Proc, Crash(p) PROVE OwnerTypeOK'
  BY <1>14 DEF Crash, Ends, files, procs, OwnerTypeOK, Cmd, CmdPC, NoCmd, OwnerPC, ClosingPC
<1>15. ASSUME NEW p \in Proc, Attach(p) PROVE OwnerTypeOK'
  BY <1>15 DEF Attach, files, procs, OwnerTypeOK, Cmd, CmdPC, NoCmd, OwnerPC, ClosingPC
<1>16. ASSUME NEW p \in Proc, Detach(p) PROVE OwnerTypeOK'
  BY <1>16 DEF Detach, files, procs, OwnerTypeOK, Cmd, CmdPC, NoCmd, OwnerPC, ClosingPC
<1>17. ASSUME NEW c \in Command, StopRead(c) PROVE OwnerTypeOK'
  <2>1. [cmd[c] EXCEPT !.pc = "stop_probe", !.pid = pidFile] \in Cmd
    BY RecordShapes DEF OwnerTypeOK
  <2>2. cmd' \in [Command -> Cmd]
    BY <1>17, <2>1, SetsKeeps DEF StopRead, OwnerTypeOK
  <2> QED
    BY <1>17, <2>2 DEF StopRead, OwnerTypeOK, files, procs
<1>18. ASSUME NEW c \in Command, StopProbe(c) PROVE OwnerTypeOK'
  <2>1. Accepts \in BOOLEAN
    BY DEF Accepts
  <2>2. [cmd[c] EXCEPT !.pc = "stop_judge", !.accepts = Accepts] \in Cmd
    BY <2>1, RecordShapes, Zenon DEF OwnerTypeOK
  <2>3. cmd' \in [Command -> Cmd]
    BY <1>18, <2>2, SetsKeeps DEF StopProbe, OwnerTypeOK
  <2> QED
    BY <1>18, <2>3 DEF StopProbe, OwnerTypeOK, files, procs
<1>19. ASSUME NEW c \in Command, StopJudge(c) PROVE OwnerTypeOK'
  <2> DEFINE targets == IF Runs(cmd[c].pid) THEN {cmd[c].pid} ELSE Holders
             place == IF targets = {} THEN "stop_again" ELSE "stop_wait"
             r == [cmd[c] EXCEPT !.targets = targets, !.pc = place]
  <2>1. targets \in SUBSET Proc
    BY DEF OwnerTypeOK, Cmd, Holders, Runs
  <2>p. place \in CmdPC
    BY DEF CmdPC
  <2> HIDE DEF targets, place
  <2>2. r \in Cmd
    <3>1. cmd[c] \in Cmd
      BY DEF OwnerTypeOK
    <3> QED
      BY <2>1, <2>p, <3>1, PairShapes, Zenon
  <2>3. CASE StopReturns(c, "refused") /\ termed' = termed
    BY <1>19, <2>3, ReturnsKeeps DEF StopJudge, OwnerTypeOK
  <2> HIDE DEF r
  <2>4. CASE Sets(c, r) /\ termed' = termed \cup targets /\ UNCHANGED <<pidFile, result>>
    <3>1. cmd' \in [Command -> Cmd]
      BY <2>2, <2>4, SetsKeeps DEF OwnerTypeOK
    <3> QED
      BY <1>19, <2>1, <2>4, <3>1 DEF StopJudge, OwnerTypeOK
  <2> QED
    BY <1>19, <2>3, <2>4 DEF StopJudge, r, targets, place
<1>20. ASSUME NEW c \in Command, StopGone(c) PROVE OwnerTypeOK'
  BY <1>20
    DEF Sets, StopGone, At, Goto, files, procs, OwnerTypeOK, Cmd, CmdPC, NoCmd, OwnerPC, ClosingPC
<1>21. ASSUME NEW c \in Command, NEW p \in Proc, StopKills(c, p) PROVE OwnerTypeOK'
  BY <1>21
    DEF Sets, StopKills, At, Ends, files, procs, OwnerTypeOK, Cmd, CmdPC, NoCmd, OwnerPC, ClosingPC
<1>22. ASSUME NEW c \in Command, StopCheck(c) PROVE OwnerTypeOK'
  <2>1. cmd' \in [Command -> Cmd] /\ result' \in [Command -> {"none", "stopped", "refused"}]
    BY <1>22, GotoKeeps, ReturnsKeeps DEF StopCheck, OwnerTypeOK, CmdPC
  <2> QED
    BY <1>22, <2>1 DEF StopCheck, OwnerTypeOK, files, procs
<1>23. ASSUME NEW c \in Command, StopProbeAgain(c) PROVE OwnerTypeOK'
  BY <1>23
    DEF Sets, StopProbeAgain, At, Goto, files, procs, OwnerTypeOK, Cmd, CmdPC, NoCmd, OwnerPC,
        ClosingPC
<1>24. ASSUME NEW c \in Command, StopUnlink(c) PROVE OwnerTypeOK'
  BY <1>24
    DEF Sets, StopUnlink, At, Goto, files, procs, OwnerTypeOK, Cmd, CmdPC, NoCmd, OwnerPC, ClosingPC
<1>25. ASSUME NEW c \in Command, StopRemovePid(c) PROVE OwnerTypeOK'
  BY <1>25
    DEF Sets, StopRemovePid, At, StopReturns, NoCmd, files, procs, OwnerTypeOK, Cmd, CmdPC, OwnerPC,
        ClosingPC
<1>26. ASSUME NEW c \in Command, StartProbe(c) PROVE OwnerTypeOK'
  <2>1. cmd' \in [Command -> Cmd]
    BY <1>26, GotoKeeps, SetsKeeps, CmdShapes DEF StartProbe, OwnerTypeOK, CmdPC
  <2> QED
    BY <1>26, <2>1 DEF StartProbe, OwnerTypeOK, files, procs
<1>27. ASSUME NEW c \in Command, StartHolders(c) PROVE OwnerTypeOK'
  <2> DEFINE place == IF Holders # {} THEN "stop_read" ELSE "start_spawn"
  <2>p. place \in CmdPC
    BY DEF CmdPC
  <2> HIDE DEF place
  <2>1. [cmd[c] EXCEPT !.pc = place, !.then = "spawn"] \in Cmd
    <3>1. cmd[c] \in Cmd
      BY DEF OwnerTypeOK
    <3> QED
      BY <2>p, <3>1, PairShapes, Zenon
  <2>2. cmd' \in [Command -> Cmd]
    BY <1>27, <2>1, SetsKeeps DEF StartHolders, OwnerTypeOK, place
  <2> QED
    BY <1>27, <2>2 DEF StartHolders, OwnerTypeOK, files, procs
<1>28. ASSUME NEW c \in Command, StartReprobe(c) PROVE OwnerTypeOK'
  <2>1. cmd' \in [Command -> Cmd]
    BY <1>28, GotoKeeps, SetsKeeps, CmdShapes DEF StartReprobe, OwnerTypeOK, CmdPC
  <2> QED
    BY <1>28, <2>1 DEF StartReprobe, OwnerTypeOK, files, procs
<1>29. ASSUME NEW c \in Command, NEW p \in Proc \ Old, StartSpawn(c, p) PROVE OwnerTypeOK'
  <2>1. [cmd[c] EXCEPT !.pc = "start_wait", !.child = p] \in Cmd
    <3>1. cmd[c] \in Cmd /\ "start_wait" \in CmdPC /\ p \in Proc
      BY DEF OwnerTypeOK, CmdPC
    <3> QED
      BY <3>1, PairShapes, Zenon
  <2>2. cmd' \in [Command -> Cmd]
    BY <1>29, <2>1, SetsKeeps DEF StartSpawn, OwnerTypeOK
  <2> QED
    BY <1>29, <2>2 DEF StartSpawn, Spawned, OwnerTypeOK, files
<1>30. ASSUME NEW c \in Command, SpawnFails(c) PROVE OwnerTypeOK'
  BY <1>30
    DEF Sets, SpawnFails, At, NoCmd, files, procs, OwnerTypeOK, Cmd, CmdPC, OwnerPC, ClosingPC
<1>31. ASSUME NEW c \in Command, StartAnswers(c) PROVE OwnerTypeOK'
  BY <1>31
    DEF Sets, StartAnswers, At, NoCmd, files, procs, OwnerTypeOK, Cmd, CmdPC, OwnerPC, ClosingPC
<1>32. ASSUME NEW c \in Command, StartFails(c) PROVE OwnerTypeOK'
  <2>1. cmd' \in [Command -> Cmd]
    BY <1>32, SetsKeeps, CmdShapes DEF StartFails, OwnerTypeOK
  <2>2. CASE Runs(cmd[c].child)
    <3>1. cmd[c].child \in Proc
      BY <2>2 DEF OwnerTypeOK, Cmd, Runs
    <3> QED
      BY <1>32, <2>1, <2>2, <3>1 DEF StartFails, Signal, Ends, OwnerTypeOK
  <2>3. CASE ~Runs(cmd[c].child)
    BY <1>32, <2>1, <2>3 DEF StartFails, OwnerTypeOK
  <2> QED
    BY <2>2, <2>3
<1>33. ASSUME NEW c \in Command, TypeStop(c) PROVE OwnerTypeOK'
  BY <1>33
    DEF Sets, TypeStop, At, Goto, files, procs, OwnerTypeOK, Cmd, CmdPC, NoCmd, OwnerPC, ClosingPC
<1>34. ASSUME NEW c \in Command, Ensure(c) PROVE OwnerTypeOK'
  <2>1. [cmd[c] EXCEPT !.pc = "stop_read", !.then = "restart"] \in Cmd
    <3>1. cmd[c] \in Cmd /\ "stop_read" \in CmdPC
      BY DEF OwnerTypeOK, CmdPC
    <3> QED
      BY <3>1, PairShapes, Zenon
  <2>2. cmd' \in [Command -> Cmd]
    BY <1>34, <2>1, GotoKeeps, SetsKeeps DEF Ensure, StopThenStart, OwnerTypeOK, CmdPC
  <2> QED
    BY <1>34, <2>2 DEF Ensure, OwnerTypeOK, files, procs
<1>35. ASSUME NEW c \in Command, TypeRestart(c) PROVE OwnerTypeOK'
  <2>1. [cmd[c] EXCEPT !.pc = "stop_read", !.then = "restart"] \in Cmd
    <3>1. cmd[c] \in Cmd /\ "stop_read" \in CmdPC
      BY DEF OwnerTypeOK, CmdPC
    <3> QED
      BY <3>1, PairShapes, Zenon
  <2>2. cmd' \in [Command -> Cmd]
    BY <1>35, <2>1, GotoKeeps, SetsKeeps DEF TypeRestart, StopThenStart, OwnerTypeOK, CmdPC
  <2> QED
    BY <1>35, <2>2 DEF TypeRestart, OwnerTypeOK, files, procs
<1> QED
  BY <1>1, <1>2, <1>3, <1>4, <1>5, <1>6, <1>7, <1>8, <1>9, <1>10, <1>11, <1>12, <1>13, <1>14, <1>15,
     <1>16, <1>17, <1>18, <1>19, <1>20, <1>21, <1>22, <1>23, <1>24, <1>25, <1>26, <1>27, <1>28,
     <1>29, <1>30, <1>31, <1>32, <1>33, <1>34, <1>35
  DEF OwnerNext, Serve, Stop, Start, Type

\* Old builds stay apart.
LEMMA ApartKept ==
  ASSUME OwnerTypeOK, OldApart, [OwnerNext]_vars
  PROVE  OldApart'
<1> USE OwnerAssumption
<1>1. CASE UNCHANGED vars
  BY <1>1
    DEF vars, files, procs, OldApart, OwnerTypeOK, NoCmd, Holders, OwnerPC, ClosingPC, Alive, Runs,
        Owns
<1>2. ASSUME NEW p \in Proc, AcquireLock(p) PROVE OldApart'
  BY <1>2
    DEF AcquireLock, Step, files, procs, OldApart, OwnerTypeOK, NoCmd, Holders, OwnerPC, ClosingPC,
        Alive, Runs, Owns
<1>3. ASSUME NEW p \in Proc, RecordPid(p) PROVE OldApart'
  BY <1>3
    DEF RecordPid, Step, files, procs, OldApart, OwnerTypeOK, NoCmd, Holders, OwnerPC, ClosingPC,
        Alive, Runs, Owns
<1>4. ASSUME NEW p \in Proc, Takeover(p) PROVE OldApart'
  BY <1>4
    DEF Takeover, Releases, Accepts, files, procs, OldApart, OwnerTypeOK, NoCmd, Holders, OwnerPC,
        ClosingPC, Alive, Runs, Owns
<1>5. ASSUME NEW p \in Proc, Bind(p) PROVE OldApart'
  BY <1>5
    DEF Bind, Step, files, procs, OldApart, OwnerTypeOK, NoCmd, Holders, OwnerPC, ClosingPC, Alive,
        Runs, Owns
<1>6. ASSUME NEW p \in Proc, Chmod(p) PROVE OldApart'
  BY <1>6
    DEF Chmod, Releases, files, procs, OldApart, OwnerTypeOK, NoCmd, Holders, OwnerPC, ClosingPC,
        Alive, Runs, Owns
<1>7. ASSUME NEW p \in Proc, WritePid(p) PROVE OldApart'
  BY <1>7
    DEF WritePid, Step, Deciding, files, procs, OldApart, OwnerTypeOK, NoCmd, Holders, OwnerPC,
        ClosingPC, Alive, Runs, Owns
<1>8. ASSUME NEW p \in Proc, StopDuringStart(p) PROVE OldApart'
  BY <1>8
    DEF StopDuringStart, Releases, files, procs, OldApart, OwnerTypeOK, NoCmd, Holders, OwnerPC,
        ClosingPC, Alive, Runs, Owns
<1>9. ASSUME NEW p \in Proc, CloseServer(p) PROVE OldApart'
  BY <1>9
    DEF CloseServer, Step, files, procs, OldApart, OwnerTypeOK, NoCmd, Holders, OwnerPC, ClosingPC,
        Alive, Runs, Owns
<1>10. ASSUME NEW p \in Proc, FinishClose(p) PROVE OldApart'
  BY <1>10
    DEF FinishClose, Step, Releases, files, procs, OldApart, OwnerTypeOK, NoCmd, Holders, OwnerPC,
        ClosingPC, Alive, Runs, Owns
<1>11. ASSUME NEW p \in Proc, RemovePid(p) PROVE OldApart'
  BY <1>11
    DEF RemovePid, Step, Ends, files, procs, OldApart, OwnerTypeOK, NoCmd, Holders, OwnerPC,
        ClosingPC, Alive, Runs, Owns
<1>12. ASSUME NEW p \in Proc, ServeForeground(p) PROVE OldApart'
  BY <1>12
    DEF ServeForeground, Spawned, files, procs, OldApart, OwnerTypeOK, NoCmd, Holders, OwnerPC,
        ClosingPC, Alive, Runs, Owns
<1>13. ASSUME NEW p \in Proc, Interrupt(p) PROVE OldApart'
  BY <1>13
    DEF Interrupt, Signal, Ends, files, procs, OldApart, OwnerTypeOK, NoCmd, Holders, OwnerPC,
        ClosingPC, Alive, Runs, Owns
<1>14. ASSUME NEW p \in Proc, Crash(p) PROVE OldApart'
  BY <1>14
    DEF Crash, Ends, files, procs, OldApart, OwnerTypeOK, NoCmd, Holders, OwnerPC, ClosingPC, Alive,
        Runs, Owns
<1>15. ASSUME NEW p \in Proc, Attach(p) PROVE OldApart'
  BY <1>15
    DEF Attach, files, procs, OldApart, OwnerTypeOK, NoCmd, Holders, OwnerPC, ClosingPC, Alive,
        Runs, Owns
<1>16. ASSUME NEW p \in Proc, Detach(p) PROVE OldApart'
  BY <1>16
    DEF Detach, files, procs, OldApart, OwnerTypeOK, NoCmd, Holders, OwnerPC, ClosingPC, Alive,
        Runs, Owns
<1>17. ASSUME NEW c \in Command, StopRead(c) PROVE OldApart'
  BY <1>17
    DEF Sets, StopRead, At, files, procs, OldApart, OwnerTypeOK, NoCmd, Holders, OwnerPC, ClosingPC,
        Alive, Runs, Owns
<1>18. ASSUME NEW c \in Command, StopProbe(c) PROVE OldApart'
  BY <1>18
    DEF Sets, StopProbe, At, files, procs, OldApart, OwnerTypeOK, NoCmd, Holders, OwnerPC,
        ClosingPC, Alive, Runs, Owns
<1>19. ASSUME NEW c \in Command, StopJudge(c) PROVE OldApart'
  <2>1. CASE StopReturns(c, "refused") /\ termed' = termed /\ ~Runs(cmd[c].pid)
             /\ pidFile' \in {pidFile, None}
    BY <1>19, <2>1
      DEF StopJudge, StopReturns, NoCmd, Sets, At, files, procs, OldApart, OwnerTypeOK, Cmd,
          OwnerPC, ClosingPC, Alive, Runs, Owns
  <2>2. CASE Runs(cmd[c].pid) /\ JudgedAs(c, {cmd[c].pid}, "stop_wait")
    BY <1>19, <2>2
      DEF StopJudge, JudgedAs, Sets, At, files, procs, OldApart, OwnerTypeOK, Cmd, OwnerPC,
          ClosingPC, Alive, Runs, Owns
  <2>3. CASE ~Runs(cmd[c].pid) /\ Holders # {} /\ JudgedAs(c, Holders, "stop_wait")
    BY <1>19, <2>3
      DEF StopJudge, JudgedAs, Holders, Sets, At, files, procs, OldApart, OwnerTypeOK, Cmd, OwnerPC,
          ClosingPC, Alive, Runs, Owns
  <2>4. CASE ~Runs(cmd[c].pid) /\ Holders = {} /\ JudgedAs(c, {}, "stop_again")
    BY <1>19, <2>4
      DEF StopJudge, JudgedAs, Holders, Sets, At, files, procs, OldApart, OwnerTypeOK, Cmd, OwnerPC,
          ClosingPC, Alive, Runs, Owns
  <2> QED
    BY <1>19, <2>1, <2>2, <2>3, <2>4, Verdicts
<1>20. ASSUME NEW c \in Command, StopGone(c) PROVE OldApart'
  BY <1>20
    DEF Sets, StopGone, At, Goto, files, procs, OldApart, OwnerTypeOK, NoCmd, Holders, OwnerPC,
        ClosingPC, Alive, Runs, Owns
<1>21. ASSUME NEW c \in Command, NEW p \in Proc, StopKills(c, p) PROVE OldApart'
  BY <1>21
    DEF Sets, StopKills, At, Ends, files, procs, OldApart, OwnerTypeOK, NoCmd, Holders, OwnerPC,
        ClosingPC, Alive, Runs, Owns
<1>22. ASSUME NEW c \in Command, StopCheck(c) PROVE OldApart'
  <2>1. CASE Accepts /\ StopReturns(c, "stopped")
    BY <1>22, <2>1
      DEF StopCheck, StopReturns, Sets, NoCmd, files, procs, At, OldApart, OwnerTypeOK, Cmd,
          OwnerPC, ClosingPC, Alive, Runs, Owns
  <2>2. CASE ~Accepts /\ Goto(c, "stop_again") /\ UNCHANGED result
    BY <1>22, <2>2
      DEF StopCheck, Goto, Sets, Accepts, files, procs, At, OldApart, OwnerTypeOK, Cmd, OwnerPC,
          ClosingPC, Alive, Runs, Owns
  <2> QED
    BY <1>22, <2>1, <2>2 DEF StopCheck
<1>23. ASSUME NEW c \in Command, StopProbeAgain(c) PROVE OldApart'
  BY <1>23
    DEF Sets, StopProbeAgain, At, Goto, files, procs, OldApart, OwnerTypeOK, NoCmd, Holders,
        OwnerPC, ClosingPC, Alive, Runs, Owns
<1>24. ASSUME NEW c \in Command, StopUnlink(c) PROVE OldApart'
  BY <1>24
    DEF Sets, StopUnlink, At, Goto, files, procs, OldApart, OwnerTypeOK, NoCmd, Holders, OwnerPC,
        ClosingPC, Alive, Runs, Owns
<1>25. ASSUME NEW c \in Command, StopRemovePid(c) PROVE OldApart'
  BY <1>25
    DEF Sets, StopRemovePid, At, StopReturns, NoCmd, files, procs, OldApart, OwnerTypeOK, Holders,
        OwnerPC, ClosingPC, Alive, Runs, Owns
<1>26. ASSUME NEW c \in Command, StartProbe(c) PROVE OldApart'
  <2>1. CASE Accepts /\ Sets(c, NoCmd)
    BY <1>26, <2>1
      DEF StartProbe, Sets, NoCmd, files, procs, At, OldApart, OwnerTypeOK, Cmd, OwnerPC, ClosingPC,
          Alive, Runs, Owns
  <2>2. CASE ~Accepts /\ Goto(c, "start_holders")
    BY <1>26, <2>2
      DEF StartProbe, Goto, Sets, files, procs, At, OldApart, OwnerTypeOK, Cmd, OwnerPC, ClosingPC,
          Alive, Runs, Owns
  <2> QED
    BY <1>26, <2>1, <2>2 DEF StartProbe
<1>27. ASSUME NEW c \in Command, StartHolders(c) PROVE OldApart'
  BY <1>27
    DEF Sets, StartHolders, At, files, procs, OldApart, OwnerTypeOK, NoCmd, Holders, OwnerPC,
        ClosingPC, Alive, Runs, Owns
<1>28. ASSUME NEW c \in Command, StartReprobe(c) PROVE OldApart'
  <2>1. CASE Accepts /\ Sets(c, NoCmd)
    BY <1>28, <2>1
      DEF StartReprobe, Sets, NoCmd, files, procs, At, OldApart, OwnerTypeOK, Cmd, OwnerPC,
          ClosingPC, Alive, Runs, Owns
  <2>2. CASE ~Accepts /\ Goto(c, "start_spawn")
    BY <1>28, <2>2
      DEF StartReprobe, Goto, Sets, files, procs, At, OldApart, OwnerTypeOK, Cmd, OwnerPC,
          ClosingPC, Alive, Runs, Owns
  <2> QED
    BY <1>28, <2>1, <2>2 DEF StartReprobe
<1>29. ASSUME NEW c \in Command, NEW p \in Proc \ Old, StartSpawn(c, p) PROVE OldApart'
  BY <1>29
    DEF Sets, StartSpawn, At, Spawned, files, procs, OldApart, OwnerTypeOK, NoCmd, Holders, OwnerPC,
        ClosingPC, Alive, Runs, Owns
<1>30. ASSUME NEW c \in Command, SpawnFails(c) PROVE OldApart'
  BY <1>30
    DEF Sets, SpawnFails, At, NoCmd, files, procs, OldApart, OwnerTypeOK, Holders, OwnerPC,
        ClosingPC, Alive, Runs, Owns
<1>31. ASSUME NEW c \in Command, StartAnswers(c) PROVE OldApart'
  BY <1>31
    DEF Sets, StartAnswers, At, NoCmd, files, procs, OldApart, OwnerTypeOK, Holders, OwnerPC,
        ClosingPC, Alive, Runs, Owns
<1>32. ASSUME NEW c \in Command, StartFails(c) PROVE OldApart'
  BY <1>32
    DEF Sets, StartFails, At, NoCmd, Signal, Ends, files, procs, OldApart, OwnerTypeOK, Holders,
        OwnerPC, ClosingPC, Alive, Runs, Owns
<1>33. ASSUME NEW c \in Command, TypeStop(c) PROVE OldApart'
  BY <1>33
    DEF Sets, TypeStop, At, Goto, files, procs, OldApart, OwnerTypeOK, NoCmd, Holders, OwnerPC,
        ClosingPC, Alive, Runs, Owns
<1>34. ASSUME NEW c \in Command, Ensure(c) PROVE OldApart'
  <2>1. CASE StopThenStart(c)
    BY <1>34, <2>1
      DEF Ensure, StopThenStart, Sets, files, procs, At, OldApart, OwnerTypeOK, Cmd, OwnerPC,
          ClosingPC, Alive, Runs, Owns
  <2>2. CASE Goto(c, "start_probe")
    BY <1>34, <2>2
      DEF Ensure, Goto, Sets, files, procs, At, OldApart, OwnerTypeOK, Cmd, OwnerPC, ClosingPC,
          Alive, Runs, Owns
  <2> QED
    BY <1>34, <2>1, <2>2 DEF Ensure
<1>35. ASSUME NEW c \in Command, TypeRestart(c) PROVE OldApart'
  <2>1. CASE StopThenStart(c)
    BY <1>35, <2>1
      DEF TypeRestart, StopThenStart, Sets, files, procs, At, OldApart, OwnerTypeOK, Cmd, OwnerPC,
          ClosingPC, Alive, Runs, Owns
  <2>2. CASE Goto(c, "start_probe")
    BY <1>35, <2>2
      DEF TypeRestart, Goto, Sets, files, procs, At, OldApart, OwnerTypeOK, Cmd, OwnerPC, ClosingPC,
          Alive, Runs, Owns
  <2> QED
    BY <1>35, <2>1, <2>2 DEF TypeRestart
<1> QED
  BY <1>1, <1>2, <1>3, <1>4, <1>5, <1>6, <1>7, <1>8, <1>9, <1>10, <1>11, <1>12, <1>13, <1>14, <1>15,
     <1>16, <1>17, <1>18, <1>19, <1>20, <1>21, <1>22, <1>23, <1>24, <1>25, <1>26, <1>27, <1>28,
     <1>29, <1>30, <1>31, <1>32, <1>33, <1>34, <1>35
  DEF OwnerNext, Serve, Stop, Start, Type

\* The lock and its holder stay in step.
LEMMA LockedKept ==
  ASSUME OwnerTypeOK, OldApart, Locked, [OwnerNext]_vars
  PROVE  Locked'
<1> USE OwnerAssumption
<1>1. CASE UNCHANGED vars
  BY <1>1
    DEF vars, files, procs, Locked, OldApart, OwnerTypeOK, Cmd, CmdPC, OwnerPC, ClosingPC, Alive,
        Runs, Owns
<1>2. ASSUME NEW p \in Proc, AcquireLock(p) PROVE Locked'
  BY <1>2
    DEF AcquireLock, Step, files, procs, Locked, OldApart, OwnerTypeOK, Cmd, CmdPC, OwnerPC,
        ClosingPC, Alive, Runs, Owns
<1>3. ASSUME NEW p \in Proc, RecordPid(p) PROVE Locked'
  BY <1>3
    DEF RecordPid, Step, files, procs, Locked, OldApart, OwnerTypeOK, Cmd, CmdPC, OwnerPC,
        ClosingPC, Alive, Runs, Owns
<1>4. ASSUME NEW p \in Proc, Takeover(p) PROVE Locked'
  BY <1>4
    DEF Takeover, Releases, Accepts, files, procs, Locked, OldApart, OwnerTypeOK, Cmd, CmdPC,
        OwnerPC, ClosingPC, Alive, Runs, Owns
<1>5. ASSUME NEW p \in Proc, Bind(p) PROVE Locked'
  BY <1>5
    DEF Bind, Step, files, procs, Locked, OldApart, OwnerTypeOK, Cmd, CmdPC, OwnerPC, ClosingPC,
        Alive, Runs, Owns
<1>6. ASSUME NEW p \in Proc, Chmod(p) PROVE Locked'
  BY <1>6
    DEF Chmod, Releases, files, procs, Locked, OldApart, OwnerTypeOK, Cmd, CmdPC, OwnerPC,
        ClosingPC, Alive, Runs, Owns
<1>7. ASSUME NEW p \in Proc, WritePid(p) PROVE Locked'
  BY <1>7
    DEF WritePid, Step, Deciding, files, procs, Locked, OldApart, OwnerTypeOK, Cmd, CmdPC, OwnerPC,
        ClosingPC, Alive, Runs, Owns
<1>8. ASSUME NEW p \in Proc, StopDuringStart(p) PROVE Locked'
  BY <1>8
    DEF StopDuringStart, Releases, files, procs, Locked, OldApart, OwnerTypeOK, Cmd, CmdPC, OwnerPC,
        ClosingPC, Alive, Runs, Owns
<1>9. ASSUME NEW p \in Proc, CloseServer(p) PROVE Locked'
  BY <1>9
    DEF CloseServer, Step, files, procs, Locked, OldApart, OwnerTypeOK, Cmd, CmdPC, OwnerPC,
        ClosingPC, Alive, Runs, Owns
<1>10. ASSUME NEW p \in Proc, FinishClose(p) PROVE Locked'
  BY <1>10
    DEF FinishClose, Step, Releases, files, procs, Locked, OldApart, OwnerTypeOK, Cmd, CmdPC,
        OwnerPC, ClosingPC, Alive, Runs, Owns
<1>11. ASSUME NEW p \in Proc, RemovePid(p) PROVE Locked'
  BY <1>11
    DEF RemovePid, Step, Ends, files, procs, Locked, OldApart, OwnerTypeOK, Cmd, CmdPC, OwnerPC,
        ClosingPC, Alive, Runs, Owns
<1>12. ASSUME NEW p \in Proc, ServeForeground(p) PROVE Locked'
  BY <1>12
    DEF ServeForeground, Spawned, files, procs, Locked, OldApart, OwnerTypeOK, Cmd, CmdPC, OwnerPC,
        ClosingPC, Alive, Runs, Owns
<1>13. ASSUME NEW p \in Proc, Interrupt(p) PROVE Locked'
  BY <1>13
    DEF Interrupt, Signal, Ends, files, procs, Locked, OldApart, OwnerTypeOK, Cmd, CmdPC, OwnerPC,
        ClosingPC, Alive, Runs, Owns
<1>14. ASSUME NEW p \in Proc, Crash(p) PROVE Locked'
  BY <1>14
    DEF Crash, Ends, files, procs, Locked, OldApart, OwnerTypeOK, Cmd, CmdPC, OwnerPC, ClosingPC,
        Alive, Runs, Owns
<1>15. ASSUME NEW p \in Proc, Attach(p) PROVE Locked'
  BY <1>15
    DEF Attach, files, procs, Locked, OldApart, OwnerTypeOK, Cmd, CmdPC, OwnerPC, ClosingPC, Alive,
        Runs, Owns
<1>16. ASSUME NEW p \in Proc, Detach(p) PROVE Locked'
  BY <1>16
    DEF Detach, files, procs, Locked, OldApart, OwnerTypeOK, Cmd, CmdPC, OwnerPC, ClosingPC, Alive,
        Runs, Owns
<1>17. ASSUME NEW c \in Command, StopRead(c) PROVE Locked'
  BY <1>17
    DEF Sets, StopRead, At, files, procs, Locked, OldApart, OwnerTypeOK, Cmd, CmdPC, OwnerPC,
        ClosingPC, Alive, Runs, Owns
<1>18. ASSUME NEW c \in Command, StopProbe(c) PROVE Locked'
  BY <1>18
    DEF Sets, StopProbe, At, files, procs, Locked, OldApart, OwnerTypeOK, Cmd, CmdPC, OwnerPC,
        ClosingPC, Alive, Runs, Owns
<1>19. ASSUME NEW c \in Command, StopJudge(c) PROVE Locked'
  BY <1>19
    DEF Sets, StopJudge, At, StopReturns, NoCmd, Holders, files, procs, Locked, OldApart,
        OwnerTypeOK, Cmd, CmdPC, OwnerPC, ClosingPC, Alive, Runs, Owns
<1>20. ASSUME NEW c \in Command, StopGone(c) PROVE Locked'
  BY <1>20
    DEF Sets, StopGone, At, Goto, files, procs, Locked, OldApart, OwnerTypeOK, Cmd, CmdPC, OwnerPC,
        ClosingPC, Alive, Runs, Owns
<1>21. ASSUME NEW c \in Command, NEW p \in Proc, StopKills(c, p) PROVE Locked'
  BY <1>21
    DEF Sets, StopKills, At, Ends, files, procs, Locked, OldApart, OwnerTypeOK, Cmd, CmdPC, OwnerPC,
        ClosingPC, Alive, Runs, Owns
<1>22. ASSUME NEW c \in Command, StopCheck(c) PROVE Locked'
  BY <1>22
    DEF Sets, StopCheck, At, Goto, Accepts, StopReturns, NoCmd, files, procs, Locked, OldApart,
        OwnerTypeOK, Cmd, CmdPC, OwnerPC, ClosingPC, Alive, Runs, Owns
<1>23. ASSUME NEW c \in Command, StopProbeAgain(c) PROVE Locked'
  BY <1>23
    DEF Sets, StopProbeAgain, At, Goto, files, procs, Locked, OldApart, OwnerTypeOK, Cmd, CmdPC,
        OwnerPC, ClosingPC, Alive, Runs, Owns
<1>24. ASSUME NEW c \in Command, StopUnlink(c) PROVE Locked'
  BY <1>24
    DEF Sets, StopUnlink, At, Goto, files, procs, Locked, OldApart, OwnerTypeOK, Cmd, CmdPC,
        OwnerPC, ClosingPC, Alive, Runs, Owns
<1>25. ASSUME NEW c \in Command, StopRemovePid(c) PROVE Locked'
  BY <1>25
    DEF Sets, StopRemovePid, At, StopReturns, NoCmd, files, procs, Locked, OldApart, OwnerTypeOK,
        Cmd, CmdPC, OwnerPC, ClosingPC, Alive, Runs, Owns
<1>26. ASSUME NEW c \in Command, StartProbe(c) PROVE Locked'
  BY <1>26
    DEF Sets, StartProbe, At, Goto, NoCmd, files, procs, Locked, OldApart, OwnerTypeOK, Cmd, CmdPC,
        OwnerPC, ClosingPC, Alive, Runs, Owns
<1>27. ASSUME NEW c \in Command, StartHolders(c) PROVE Locked'
  BY <1>27
    DEF Sets, StartHolders, At, files, procs, Locked, OldApart, OwnerTypeOK, Cmd, CmdPC, OwnerPC,
        ClosingPC, Alive, Runs, Owns
<1>28. ASSUME NEW c \in Command, StartReprobe(c) PROVE Locked'
  BY <1>28
    DEF Sets, StartReprobe, At, Goto, NoCmd, files, procs, Locked, OldApart, OwnerTypeOK, Cmd,
        CmdPC, OwnerPC, ClosingPC, Alive, Runs, Owns
<1>29. ASSUME NEW c \in Command, NEW p \in Proc \ Old, StartSpawn(c, p) PROVE Locked'
  BY <1>29
    DEF Sets, StartSpawn, At, Spawned, files, procs, Locked, OldApart, OwnerTypeOK, Cmd, CmdPC,
        OwnerPC, ClosingPC, Alive, Runs, Owns
<1>30. ASSUME NEW c \in Command, SpawnFails(c) PROVE Locked'
  BY <1>30
    DEF Sets, SpawnFails, At, NoCmd, files, procs, Locked, OldApart, OwnerTypeOK, Cmd, CmdPC,
        OwnerPC, ClosingPC, Alive, Runs, Owns
<1>31. ASSUME NEW c \in Command, StartAnswers(c) PROVE Locked'
  BY <1>31
    DEF Sets, StartAnswers, At, NoCmd, files, procs, Locked, OldApart, OwnerTypeOK, Cmd, CmdPC,
        OwnerPC, ClosingPC, Alive, Runs, Owns
<1>32. ASSUME NEW c \in Command, StartFails(c) PROVE Locked'
  BY <1>32
    DEF Sets, StartFails, At, NoCmd, Signal, Ends, files, procs, Locked, OldApart, OwnerTypeOK, Cmd,
        CmdPC, OwnerPC, ClosingPC, Alive, Runs, Owns
<1>33. ASSUME NEW c \in Command, TypeStop(c) PROVE Locked'
  BY <1>33
    DEF Sets, TypeStop, At, Goto, files, procs, Locked, OldApart, OwnerTypeOK, Cmd, CmdPC, OwnerPC,
        ClosingPC, Alive, Runs, Owns
<1>34. ASSUME NEW c \in Command, Ensure(c) PROVE Locked'
  BY <1>34
    DEF Sets, StopThenStart, Ensure, At, Goto, files, procs, Locked, OldApart, OwnerTypeOK, Cmd,
        CmdPC, OwnerPC, ClosingPC, Alive, Runs, Owns
<1>35. ASSUME NEW c \in Command, TypeRestart(c) PROVE Locked'
  BY <1>35
    DEF Sets, StopThenStart, TypeRestart, At, Goto, files, procs, Locked, OldApart, OwnerTypeOK,
        Cmd, CmdPC, OwnerPC, ClosingPC, Alive, Runs, Owns
<1> QED
  BY <1>1, <1>2, <1>3, <1>4, <1>5, <1>6, <1>7, <1>8, <1>9, <1>10, <1>11, <1>12, <1>13, <1>14, <1>15,
     <1>16, <1>17, <1>18, <1>19, <1>20, <1>21, <1>22, <1>23, <1>24, <1>25, <1>26, <1>27, <1>28,
     <1>29, <1>30, <1>31, <1>32, <1>33, <1>34, <1>35
  DEF OwnerNext, Serve, Stop, Start, Type

\* A calm owner stays undisturbed.
LEMMA UndisturbedKept ==
  ASSUME OwnerTypeOK, OldApart, Locked, Undisturbed, [OwnerNext]_vars
  PROVE  Undisturbed'
<1> USE OwnerAssumption
<1>1. CASE UNCHANGED vars
  BY <1>1
    DEF vars, files, procs, Undisturbed, Locked, OldApart, OwnerTypeOK, Cmd, CmdPC, OwnerPC,
        ClosingPC, Alive, Runs, Owns
<1>2. ASSUME NEW p \in Proc, AcquireLock(p) PROVE Undisturbed'
  BY <1>2
    DEF AcquireLock, Step, files, procs, Undisturbed, Locked, OldApart, OwnerTypeOK, Cmd, CmdPC,
        OwnerPC, ClosingPC, Alive, Runs, Owns
<1>3. ASSUME NEW p \in Proc, RecordPid(p) PROVE Undisturbed'
  BY <1>3
    DEF RecordPid, Step, files, procs, Undisturbed, Locked, OldApart, OwnerTypeOK, Cmd, CmdPC,
        OwnerPC, ClosingPC, Alive, Runs, Owns
<1>4. ASSUME NEW p \in Proc, Takeover(p) PROVE Undisturbed'
  BY <1>4
    DEF Takeover, Releases, Accepts, files, procs, Undisturbed, Locked, OldApart, OwnerTypeOK, Cmd,
        CmdPC, OwnerPC, ClosingPC, Alive, Runs, Owns
<1>5. ASSUME NEW p \in Proc, Bind(p) PROVE Undisturbed'
  BY <1>5
    DEF Bind, Step, files, procs, Undisturbed, Locked, OldApart, OwnerTypeOK, Cmd, CmdPC, OwnerPC,
        ClosingPC, Alive, Runs, Owns
<1>6. ASSUME NEW p \in Proc, Chmod(p) PROVE Undisturbed'
  BY <1>6
    DEF Chmod, Releases, files, procs, Undisturbed, Locked, OldApart, OwnerTypeOK, Cmd, CmdPC,
        OwnerPC, ClosingPC, Alive, Runs, Owns
<1>7. ASSUME NEW p \in Proc, WritePid(p) PROVE Undisturbed'
  <2>1. p \notin Old /\ flock = p /\ pc[p] = "pid"
    BY <1>7 DEF WritePid, Step, OldApart, Locked, Owns, OwnerPC
  <2>2. p \notin calm /\ \A r \in calm : pc[r] # "serve"
    BY <2>1 DEF OldApart, Locked, Undisturbed, Owns, OwnerPC, ClosingPC, OwnerTypeOK
  <2>3. pc' = [pc EXCEPT ![p] = "serve"] /\ pidFile' = p /\ sock' = sock /\ cmd' = cmd
    BY <1>7 DEF WritePid, Step
  <2>4. \A r \in calm : pc'[r] \in {"drain", "gone"} \cup ClosingPC
    BY <2>2, <2>3 DEF Undisturbed, OwnerTypeOK
  <2>5. ASSUME sock = p, \A q \in Proc : pc[q] \notin ClosingPC,
               \A c \in Command : cmd[c].pc \notin Deciding, calm' = calm \cup {p}
        PROVE  Undisturbed'
    <3>1. pc'[p] = "serve" /\ \A q \in Proc : pc'[q] \notin ClosingPC
      BY <2>3, <2>5 DEF ClosingPC, OwnerTypeOK
    <3> QED
      BY <2>3, <2>4, <2>5, <3>1 DEF Undisturbed, Deciding
  <2>6. ASSUME calm' = calm
        PROVE  Undisturbed'
    BY <2>4, <2>6 DEF Undisturbed, ClosingPC
  <2> QED
    BY <1>7, <2>5, <2>6 DEF WritePid
<1>8. ASSUME NEW p \in Proc, StopDuringStart(p) PROVE Undisturbed'
  BY <1>8
    DEF StopDuringStart, Releases, files, procs, Undisturbed, Locked, OldApart, OwnerTypeOK, Cmd,
        CmdPC, OwnerPC, ClosingPC, Alive, Runs, Owns
<1>9. ASSUME NEW p \in Proc, CloseServer(p) PROVE Undisturbed'
  BY <1>9
    DEF CloseServer, Step, files, procs, Undisturbed, Locked, OldApart, OwnerTypeOK, Cmd, CmdPC,
        OwnerPC, ClosingPC, Alive, Runs, Owns
<1>10. ASSUME NEW p \in Proc, FinishClose(p) PROVE Undisturbed'
  BY <1>10
    DEF FinishClose, Step, Releases, files, procs, Undisturbed, Locked, OldApart, OwnerTypeOK, Cmd,
        CmdPC, OwnerPC, ClosingPC, Alive, Runs, Owns
<1>11. ASSUME NEW p \in Proc, RemovePid(p) PROVE Undisturbed'
  BY <1>11
    DEF RemovePid, Step, Ends, files, procs, Undisturbed, Locked, OldApart, OwnerTypeOK, Cmd, CmdPC,
        OwnerPC, ClosingPC, Alive, Runs, Owns
<1>12. ASSUME NEW p \in Proc, ServeForeground(p) PROVE Undisturbed'
  BY <1>12
    DEF ServeForeground, Spawned, files, procs, Undisturbed, Locked, OldApart, OwnerTypeOK, Cmd,
        CmdPC, OwnerPC, ClosingPC, Alive, Runs, Owns
<1>13. ASSUME NEW p \in Proc, Interrupt(p) PROVE Undisturbed'
  BY <1>13
    DEF Interrupt, Signal, Ends, files, procs, Undisturbed, Locked, OldApart, OwnerTypeOK, Cmd,
        CmdPC, OwnerPC, ClosingPC, Alive, Runs, Owns
<1>14. ASSUME NEW p \in Proc, Crash(p) PROVE Undisturbed'
  BY <1>14
    DEF Crash, Ends, files, procs, Undisturbed, Locked, OldApart, OwnerTypeOK, Cmd, CmdPC, OwnerPC,
        ClosingPC, Alive, Runs, Owns
<1>15. ASSUME NEW p \in Proc, Attach(p) PROVE Undisturbed'
  BY <1>15
    DEF Attach, files, procs, Undisturbed, Locked, OldApart, OwnerTypeOK, Cmd, CmdPC, OwnerPC,
        ClosingPC, Alive, Runs, Owns
<1>16. ASSUME NEW p \in Proc, Detach(p) PROVE Undisturbed'
  BY <1>16
    DEF Detach, files, procs, Undisturbed, Locked, OldApart, OwnerTypeOK, Cmd, CmdPC, OwnerPC,
        ClosingPC, Alive, Runs, Owns
<1>17. ASSUME NEW c \in Command, StopRead(c) PROVE Undisturbed'
  BY <1>17
    DEF Sets, StopRead, At, files, procs, Undisturbed, Locked, OldApart, OwnerTypeOK, Cmd, CmdPC,
        OwnerPC, ClosingPC, Alive, Runs, Owns
<1>18. ASSUME NEW c \in Command, StopProbe(c) PROVE Undisturbed'
  BY <1>18
    DEF Sets, StopProbe, At, files, procs, Undisturbed, Locked, OldApart, OwnerTypeOK, Cmd, CmdPC,
        OwnerPC, ClosingPC, Alive, Runs, Owns
<1>19. ASSUME NEW c \in Command, StopJudge(c) PROVE Undisturbed'
  <2>1. CASE StopReturns(c, "refused") /\ termed' = termed /\ ~Runs(cmd[c].pid)
             /\ pidFile' \in {pidFile, None}
    BY <1>19, <2>1
      DEF StopJudge, StopReturns, NoCmd, Sets, At, files, procs, Undisturbed, Locked, OldApart,
          OwnerTypeOK, Cmd, OwnerPC, ClosingPC, Alive, Runs, Owns
  <2>2. CASE Runs(cmd[c].pid) /\ JudgedAs(c, {cmd[c].pid}, "stop_wait")
    BY <1>19, <2>2
      DEF StopJudge, JudgedAs, Sets, At, files, procs, Undisturbed, Locked, OldApart, OwnerTypeOK,
          Cmd, OwnerPC, ClosingPC, Alive, Runs, Owns
  <2>3. CASE ~Runs(cmd[c].pid) /\ Holders # {} /\ JudgedAs(c, Holders, "stop_wait")
    BY <1>19, <2>3
      DEF StopJudge, JudgedAs, Holders, Sets, At, files, procs, Undisturbed, Locked, OldApart,
          OwnerTypeOK, Cmd, OwnerPC, ClosingPC, Alive, Runs, Owns
  <2>4. CASE ~Runs(cmd[c].pid) /\ Holders = {} /\ JudgedAs(c, {}, "stop_again")
    BY <1>19, <2>4
      DEF StopJudge, JudgedAs, Holders, Sets, At, files, procs, Undisturbed, Locked, OldApart,
          OwnerTypeOK, Cmd, OwnerPC, ClosingPC, Alive, Runs, Owns
  <2> QED
    BY <1>19, <2>1, <2>2, <2>3, <2>4, Verdicts
<1>20. ASSUME NEW c \in Command, StopGone(c) PROVE Undisturbed'
  BY <1>20
    DEF Sets, StopGone, At, Goto, files, procs, Undisturbed, Locked, OldApart, OwnerTypeOK, Cmd,
        CmdPC, OwnerPC, ClosingPC, Alive, Runs, Owns
<1>21. ASSUME NEW c \in Command, NEW p \in Proc, StopKills(c, p) PROVE Undisturbed'
  BY <1>21
    DEF Sets, StopKills, At, Ends, files, procs, Undisturbed, Locked, OldApart, OwnerTypeOK, Cmd,
        CmdPC, OwnerPC, ClosingPC, Alive, Runs, Owns
<1>22. ASSUME NEW c \in Command, StopCheck(c) PROVE Undisturbed'
  <2>1. CASE Accepts /\ StopReturns(c, "stopped")
    BY <1>22, <2>1
      DEF StopCheck, StopReturns, Sets, NoCmd, files, procs, At, Undisturbed, Locked, OldApart,
          OwnerTypeOK, Cmd, OwnerPC, ClosingPC, Alive, Runs, Owns
  <2>2. CASE ~Accepts /\ Goto(c, "stop_again") /\ UNCHANGED result
    BY <1>22, <2>2
      DEF StopCheck, Goto, Sets, Accepts, files, procs, At, Undisturbed, Locked, OldApart,
          OwnerTypeOK, Cmd, OwnerPC, ClosingPC, Alive, Runs, Owns
  <2> QED
    BY <1>22, <2>1, <2>2 DEF StopCheck
<1>23. ASSUME NEW c \in Command, StopProbeAgain(c) PROVE Undisturbed'
  BY <1>23
    DEF Sets, StopProbeAgain, At, Goto, files, procs, Undisturbed, Locked, OldApart, OwnerTypeOK,
        Cmd, CmdPC, OwnerPC, ClosingPC, Alive, Runs, Owns
<1>24. ASSUME NEW c \in Command, StopUnlink(c) PROVE Undisturbed'
  BY <1>24
    DEF Sets, StopUnlink, At, Goto, files, procs, Undisturbed, Locked, OldApart, OwnerTypeOK, Cmd,
        CmdPC, OwnerPC, ClosingPC, Alive, Runs, Owns
<1>25. ASSUME NEW c \in Command, StopRemovePid(c) PROVE Undisturbed'
  BY <1>25
    DEF Sets, StopRemovePid, At, StopReturns, NoCmd, files, procs, Undisturbed, Locked, OldApart,
        OwnerTypeOK, Cmd, CmdPC, OwnerPC, ClosingPC, Alive, Runs, Owns
<1>26. ASSUME NEW c \in Command, StartProbe(c) PROVE Undisturbed'
  <2>1. CASE Accepts /\ Sets(c, NoCmd)
    BY <1>26, <2>1
      DEF StartProbe, Sets, NoCmd, files, procs, At, Undisturbed, Locked, OldApart, OwnerTypeOK,
          Cmd, OwnerPC, ClosingPC, Alive, Runs, Owns
  <2>2. CASE ~Accepts /\ Goto(c, "start_holders")
    BY <1>26, <2>2
      DEF StartProbe, Goto, Sets, files, procs, At, Undisturbed, Locked, OldApart, OwnerTypeOK, Cmd,
          OwnerPC, ClosingPC, Alive, Runs, Owns
  <2> QED
    BY <1>26, <2>1, <2>2 DEF StartProbe
<1>27. ASSUME NEW c \in Command, StartHolders(c) PROVE Undisturbed'
  BY <1>27
    DEF Sets, StartHolders, At, files, procs, Undisturbed, Locked, OldApart, OwnerTypeOK, Cmd,
        CmdPC, OwnerPC, ClosingPC, Alive, Runs, Owns
<1>28. ASSUME NEW c \in Command, StartReprobe(c) PROVE Undisturbed'
  <2>1. CASE Accepts /\ Sets(c, NoCmd)
    BY <1>28, <2>1
      DEF StartReprobe, Sets, NoCmd, files, procs, At, Undisturbed, Locked, OldApart, OwnerTypeOK,
          Cmd, OwnerPC, ClosingPC, Alive, Runs, Owns
  <2>2. CASE ~Accepts /\ Goto(c, "start_spawn")
    BY <1>28, <2>2
      DEF StartReprobe, Goto, Sets, files, procs, At, Undisturbed, Locked, OldApart, OwnerTypeOK,
          Cmd, OwnerPC, ClosingPC, Alive, Runs, Owns
  <2> QED
    BY <1>28, <2>1, <2>2 DEF StartReprobe
<1>29. ASSUME NEW c \in Command, NEW p \in Proc \ Old, StartSpawn(c, p) PROVE Undisturbed'
  BY <1>29
    DEF Sets, StartSpawn, At, Spawned, files, procs, Undisturbed, Locked, OldApart, OwnerTypeOK,
        Cmd, CmdPC, OwnerPC, ClosingPC, Alive, Runs, Owns
<1>30. ASSUME NEW c \in Command, SpawnFails(c) PROVE Undisturbed'
  BY <1>30
    DEF Sets, SpawnFails, At, NoCmd, files, procs, Undisturbed, Locked, OldApart, OwnerTypeOK, Cmd,
        CmdPC, OwnerPC, ClosingPC, Alive, Runs, Owns
<1>31. ASSUME NEW c \in Command, StartAnswers(c) PROVE Undisturbed'
  BY <1>31
    DEF Sets, StartAnswers, At, NoCmd, files, procs, Undisturbed, Locked, OldApart, OwnerTypeOK,
        Cmd, CmdPC, OwnerPC, ClosingPC, Alive, Runs, Owns
<1>32. ASSUME NEW c \in Command, StartFails(c) PROVE Undisturbed'
  BY <1>32
    DEF Sets, StartFails, At, NoCmd, Signal, Ends, files, procs, Undisturbed, Locked, OldApart,
        OwnerTypeOK, Cmd, CmdPC, OwnerPC, ClosingPC, Alive, Runs, Owns
<1>33. ASSUME NEW c \in Command, TypeStop(c) PROVE Undisturbed'
  BY <1>33
    DEF Sets, TypeStop, At, Goto, files, procs, Undisturbed, Locked, OldApart, OwnerTypeOK, Cmd,
        CmdPC, OwnerPC, ClosingPC, Alive, Runs, Owns
<1>34. ASSUME NEW c \in Command, Ensure(c) PROVE Undisturbed'
  <2>1. CASE StopThenStart(c)
    BY <1>34, <2>1
      DEF Ensure, StopThenStart, Sets, files, procs, At, Undisturbed, Locked, OldApart, OwnerTypeOK,
          Cmd, OwnerPC, ClosingPC, Alive, Runs, Owns
  <2>2. CASE Goto(c, "start_probe")
    BY <1>34, <2>2
      DEF Ensure, Goto, Sets, files, procs, At, Undisturbed, Locked, OldApart, OwnerTypeOK, Cmd,
          OwnerPC, ClosingPC, Alive, Runs, Owns
  <2> QED
    BY <1>34, <2>1, <2>2 DEF Ensure
<1>35. ASSUME NEW c \in Command, TypeRestart(c) PROVE Undisturbed'
  <2>1. CASE StopThenStart(c)
    BY <1>35, <2>1
      DEF TypeRestart, StopThenStart, Sets, files, procs, At, Undisturbed, Locked, OldApart,
          OwnerTypeOK, Cmd, OwnerPC, ClosingPC, Alive, Runs, Owns
  <2>2. CASE Goto(c, "start_probe")
    BY <1>35, <2>2
      DEF TypeRestart, Goto, Sets, files, procs, At, Undisturbed, Locked, OldApart, OwnerTypeOK,
          Cmd, OwnerPC, ClosingPC, Alive, Runs, Owns
  <2> QED
    BY <1>35, <2>1, <2>2 DEF TypeRestart
<1> QED
  BY <1>1, <1>2, <1>3, <1>4, <1>5, <1>6, <1>7, <1>8, <1>9, <1>10, <1>11, <1>12, <1>13, <1>14, <1>15,
     <1>16, <1>17, <1>18, <1>19, <1>20, <1>21, <1>22, <1>23, <1>24, <1>25, <1>26, <1>27, <1>28,
     <1>29, <1>30, <1>31, <1>32, <1>33, <1>34, <1>35
  DEF OwnerNext, Serve, Stop, Start, Type

\* What a stop has found out stays true.
LEMMA FoundKept ==
  ASSUME OwnerTypeOK, OldApart, Locked, Found, [OwnerNext]_vars
  PROVE  Found'
<1> USE OwnerAssumption
<1>1. CASE UNCHANGED vars
  BY <1>1
    DEF vars, files, procs, Found, Locked, OldApart, OwnerTypeOK, Cmd, CmdPC, OwnerPC, ClosingPC,
        Alive, Runs, Owns
<1>2. ASSUME NEW p \in Proc, AcquireLock(p) PROVE Found'
  BY <1>2
    DEF AcquireLock, Step, files, procs, Found, Locked, OldApart, OwnerTypeOK, Cmd, CmdPC, OwnerPC,
        ClosingPC, Alive, Runs, Owns
<1>3. ASSUME NEW p \in Proc, RecordPid(p) PROVE Found'
  BY <1>3
    DEF RecordPid, Step, files, procs, Found, Locked, OldApart, OwnerTypeOK, Cmd, CmdPC, OwnerPC,
        ClosingPC, Alive, Runs, Owns
<1>4. ASSUME NEW p \in Proc, Takeover(p) PROVE Found'
  BY <1>4
    DEF Takeover, Releases, Accepts, files, procs, Found, Locked, OldApart, OwnerTypeOK, Cmd, CmdPC,
        OwnerPC, ClosingPC, Alive, Runs, Owns
<1>5. ASSUME NEW p \in Proc, Bind(p) PROVE Found'
  BY <1>5
    DEF Bind, Step, files, procs, Found, Locked, OldApart, OwnerTypeOK, Cmd, CmdPC, OwnerPC,
        ClosingPC, Alive, Runs, Owns
<1>6. ASSUME NEW p \in Proc, Chmod(p) PROVE Found'
  BY <1>6
    DEF Chmod, Releases, files, procs, Found, Locked, OldApart, OwnerTypeOK, Cmd, CmdPC, OwnerPC,
        ClosingPC, Alive, Runs, Owns
<1>7. ASSUME NEW p \in Proc, WritePid(p) PROVE Found'
  BY <1>7
    DEF WritePid, Step, Deciding, files, procs, Found, Locked, OldApart, OwnerTypeOK, Cmd, CmdPC,
        OwnerPC, ClosingPC, Alive, Runs, Owns
<1>8. ASSUME NEW p \in Proc, StopDuringStart(p) PROVE Found'
  BY <1>8
    DEF StopDuringStart, Releases, files, procs, Found, Locked, OldApart, OwnerTypeOK, Cmd, CmdPC,
        OwnerPC, ClosingPC, Alive, Runs, Owns
<1>9. ASSUME NEW p \in Proc, CloseServer(p) PROVE Found'
  BY <1>9
    DEF CloseServer, Step, files, procs, Found, Locked, OldApart, OwnerTypeOK, Cmd, CmdPC, OwnerPC,
        ClosingPC, Alive, Runs, Owns
<1>10. ASSUME NEW p \in Proc, FinishClose(p) PROVE Found'
  BY <1>10
    DEF FinishClose, Step, Releases, files, procs, Found, Locked, OldApart, OwnerTypeOK, Cmd, CmdPC,
        OwnerPC, ClosingPC, Alive, Runs, Owns
<1>11. ASSUME NEW p \in Proc, RemovePid(p) PROVE Found'
  BY <1>11
    DEF RemovePid, Step, Ends, files, procs, Found, Locked, OldApart, OwnerTypeOK, Cmd, CmdPC,
        OwnerPC, ClosingPC, Alive, Runs, Owns
<1>12. ASSUME NEW p \in Proc, ServeForeground(p) PROVE Found'
  BY <1>12
    DEF ServeForeground, Spawned, files, procs, Found, Locked, OldApart, OwnerTypeOK, Cmd, CmdPC,
        OwnerPC, ClosingPC, Alive, Runs, Owns
<1>13. ASSUME NEW p \in Proc, Interrupt(p) PROVE Found'
  BY <1>13
    DEF Interrupt, Signal, Ends, files, procs, Found, Locked, OldApart, OwnerTypeOK, Cmd, CmdPC,
        OwnerPC, ClosingPC, Alive, Runs, Owns
<1>14. ASSUME NEW p \in Proc, Crash(p) PROVE Found'
  BY <1>14
    DEF Crash, Ends, files, procs, Found, Locked, OldApart, OwnerTypeOK, Cmd, CmdPC, OwnerPC,
        ClosingPC, Alive, Runs, Owns
<1>15. ASSUME NEW p \in Proc, Attach(p) PROVE Found'
  BY <1>15
    DEF Attach, files, procs, Found, Locked, OldApart, OwnerTypeOK, Cmd, CmdPC, OwnerPC, ClosingPC,
        Alive, Runs, Owns
<1>16. ASSUME NEW p \in Proc, Detach(p) PROVE Found'
  BY <1>16
    DEF Detach, files, procs, Found, Locked, OldApart, OwnerTypeOK, Cmd, CmdPC, OwnerPC, ClosingPC,
        Alive, Runs, Owns
<1>17. ASSUME NEW c \in Command, StopRead(c) PROVE Found'
  BY <1>17
    DEF Sets, StopRead, At, files, procs, Found, Locked, OldApart, OwnerTypeOK, Cmd, CmdPC, OwnerPC,
        ClosingPC, Alive, Runs, Owns
<1>18. ASSUME NEW c \in Command, StopProbe(c) PROVE Found'
  BY <1>18
    DEF Sets, StopProbe, At, files, procs, Found, Locked, OldApart, OwnerTypeOK, Cmd, CmdPC,
        OwnerPC, ClosingPC, Alive, Runs, Owns
<1>19. ASSUME NEW c \in Command, StopJudge(c) PROVE Found'
  <2>1. CASE StopReturns(c, "refused") /\ termed' = termed /\ ~Runs(cmd[c].pid)
             /\ pidFile' \in {pidFile, None}
    BY <1>19, <2>1
      DEF StopJudge, StopReturns, NoCmd, Sets, At, files, procs, Found, Locked, OldApart,
          OwnerTypeOK, Cmd, OwnerPC, ClosingPC, Alive, Runs, Owns
  <2>2. CASE Runs(cmd[c].pid) /\ JudgedAs(c, {cmd[c].pid}, "stop_wait")
    BY <1>19, <2>2
      DEF StopJudge, JudgedAs, Sets, At, files, procs, Found, Locked, OldApart, OwnerTypeOK, Cmd,
          OwnerPC, ClosingPC, Alive, Runs, Owns
  <2>3. CASE ~Runs(cmd[c].pid) /\ Holders # {} /\ JudgedAs(c, Holders, "stop_wait")
    BY <1>19, <2>3
      DEF StopJudge, JudgedAs, Holders, Sets, At, files, procs, Found, Locked, OldApart,
          OwnerTypeOK, Cmd, OwnerPC, ClosingPC, Alive, Runs, Owns
  <2>4. CASE ~Runs(cmd[c].pid) /\ Holders = {} /\ JudgedAs(c, {}, "stop_again")
    BY <1>19, <2>4
      DEF StopJudge, JudgedAs, Holders, Sets, At, files, procs, Found, Locked, OldApart,
          OwnerTypeOK, Cmd, OwnerPC, ClosingPC, Alive, Runs, Owns
  <2> QED
    BY <1>19, <2>1, <2>2, <2>3, <2>4, Verdicts
<1>20. ASSUME NEW c \in Command, StopGone(c) PROVE Found'
  BY <1>20
    DEF Sets, StopGone, At, Goto, files, procs, Found, Locked, OldApart, OwnerTypeOK, Cmd, CmdPC,
        OwnerPC, ClosingPC, Alive, Runs, Owns
<1>21. ASSUME NEW c \in Command, NEW p \in Proc, StopKills(c, p) PROVE Found'
  BY <1>21
    DEF Sets, StopKills, At, Ends, files, procs, Found, Locked, OldApart, OwnerTypeOK, Cmd, CmdPC,
        OwnerPC, ClosingPC, Alive, Runs, Owns
<1>22. ASSUME NEW c \in Command, StopCheck(c) PROVE Found'
  <2>1. CASE Accepts /\ StopReturns(c, "stopped")
    BY <1>22, <2>1
      DEF StopCheck, StopReturns, Sets, NoCmd, files, procs, At, Found, Locked, OldApart,
          OwnerTypeOK, Cmd, OwnerPC, ClosingPC, Alive, Runs, Owns
  <2>2. CASE ~Accepts /\ Goto(c, "stop_again") /\ UNCHANGED result
    BY <1>22, <2>2
      DEF StopCheck, Goto, Sets, Accepts, files, procs, At, Found, Locked, OldApart, OwnerTypeOK,
          Cmd, OwnerPC, ClosingPC, Alive, Runs, Owns
  <2> QED
    BY <1>22, <2>1, <2>2 DEF StopCheck
<1>23. ASSUME NEW c \in Command, StopProbeAgain(c) PROVE Found'
  BY <1>23
    DEF Sets, StopProbeAgain, At, Goto, files, procs, Found, Locked, OldApart, OwnerTypeOK, Cmd,
        CmdPC, OwnerPC, ClosingPC, Alive, Runs, Owns
<1>24. ASSUME NEW c \in Command, StopUnlink(c) PROVE Found'
  BY <1>24
    DEF Sets, StopUnlink, At, Goto, files, procs, Found, Locked, OldApart, OwnerTypeOK, Cmd, CmdPC,
        OwnerPC, ClosingPC, Alive, Runs, Owns
<1>25. ASSUME NEW c \in Command, StopRemovePid(c) PROVE Found'
  BY <1>25
    DEF Sets, StopRemovePid, At, StopReturns, NoCmd, files, procs, Found, Locked, OldApart,
        OwnerTypeOK, Cmd, CmdPC, OwnerPC, ClosingPC, Alive, Runs, Owns
<1>26. ASSUME NEW c \in Command, StartProbe(c) PROVE Found'
  <2>1. CASE Accepts /\ Sets(c, NoCmd)
    BY <1>26, <2>1
      DEF StartProbe, Sets, NoCmd, files, procs, At, Found, Locked, OldApart, OwnerTypeOK, Cmd,
          OwnerPC, ClosingPC, Alive, Runs, Owns
  <2>2. CASE ~Accepts /\ Goto(c, "start_holders")
    BY <1>26, <2>2
      DEF StartProbe, Goto, Sets, files, procs, At, Found, Locked, OldApart, OwnerTypeOK, Cmd,
          OwnerPC, ClosingPC, Alive, Runs, Owns
  <2> QED
    BY <1>26, <2>1, <2>2 DEF StartProbe
<1>27. ASSUME NEW c \in Command, StartHolders(c) PROVE Found'
  BY <1>27
    DEF Sets, StartHolders, At, files, procs, Found, Locked, OldApart, OwnerTypeOK, Cmd, CmdPC,
        OwnerPC, ClosingPC, Alive, Runs, Owns
<1>28. ASSUME NEW c \in Command, StartReprobe(c) PROVE Found'
  <2>1. CASE Accepts /\ Sets(c, NoCmd)
    BY <1>28, <2>1
      DEF StartReprobe, Sets, NoCmd, files, procs, At, Found, Locked, OldApart, OwnerTypeOK, Cmd,
          OwnerPC, ClosingPC, Alive, Runs, Owns
  <2>2. CASE ~Accepts /\ Goto(c, "start_spawn")
    BY <1>28, <2>2
      DEF StartReprobe, Goto, Sets, files, procs, At, Found, Locked, OldApart, OwnerTypeOK, Cmd,
          OwnerPC, ClosingPC, Alive, Runs, Owns
  <2> QED
    BY <1>28, <2>1, <2>2 DEF StartReprobe
<1>29. ASSUME NEW c \in Command, NEW p \in Proc \ Old, StartSpawn(c, p) PROVE Found'
  BY <1>29
    DEF Sets, StartSpawn, At, Spawned, files, procs, Found, Locked, OldApart, OwnerTypeOK, Cmd,
        CmdPC, OwnerPC, ClosingPC, Alive, Runs, Owns
<1>30. ASSUME NEW c \in Command, SpawnFails(c) PROVE Found'
  BY <1>30
    DEF Sets, SpawnFails, At, NoCmd, files, procs, Found, Locked, OldApart, OwnerTypeOK, Cmd, CmdPC,
        OwnerPC, ClosingPC, Alive, Runs, Owns
<1>31. ASSUME NEW c \in Command, StartAnswers(c) PROVE Found'
  BY <1>31
    DEF Sets, StartAnswers, At, NoCmd, files, procs, Found, Locked, OldApart, OwnerTypeOK, Cmd,
        CmdPC, OwnerPC, ClosingPC, Alive, Runs, Owns
<1>32. ASSUME NEW c \in Command, StartFails(c) PROVE Found'
  BY <1>32
    DEF Sets, StartFails, At, NoCmd, Signal, Ends, files, procs, Found, Locked, OldApart,
        OwnerTypeOK, Cmd, CmdPC, OwnerPC, ClosingPC, Alive, Runs, Owns
<1>33. ASSUME NEW c \in Command, TypeStop(c) PROVE Found'
  BY <1>33
    DEF Sets, TypeStop, At, Goto, files, procs, Found, Locked, OldApart, OwnerTypeOK, Cmd, CmdPC,
        OwnerPC, ClosingPC, Alive, Runs, Owns
<1>34. ASSUME NEW c \in Command, Ensure(c) PROVE Found'
  <2>1. CASE StopThenStart(c)
    BY <1>34, <2>1
      DEF Ensure, StopThenStart, Sets, files, procs, At, Found, Locked, OldApart, OwnerTypeOK, Cmd,
          OwnerPC, ClosingPC, Alive, Runs, Owns
  <2>2. CASE Goto(c, "start_probe")
    BY <1>34, <2>2
      DEF Ensure, Goto, Sets, files, procs, At, Found, Locked, OldApart, OwnerTypeOK, Cmd, OwnerPC,
          ClosingPC, Alive, Runs, Owns
  <2> QED
    BY <1>34, <2>1, <2>2 DEF Ensure
<1>35. ASSUME NEW c \in Command, TypeRestart(c) PROVE Found'
  <2>1. CASE StopThenStart(c)
    BY <1>35, <2>1
      DEF TypeRestart, StopThenStart, Sets, files, procs, At, Found, Locked, OldApart, OwnerTypeOK,
          Cmd, OwnerPC, ClosingPC, Alive, Runs, Owns
  <2>2. CASE Goto(c, "start_probe")
    BY <1>35, <2>2
      DEF TypeRestart, Goto, Sets, files, procs, At, Found, Locked, OldApart, OwnerTypeOK, Cmd,
          OwnerPC, ClosingPC, Alive, Runs, Owns
  <2> QED
    BY <1>35, <2>1, <2>2 DEF TypeRestart
<1> QED
  BY <1>1, <1>2, <1>3, <1>4, <1>5, <1>6, <1>7, <1>8, <1>9, <1>10, <1>11, <1>12, <1>13, <1>14, <1>15,
     <1>16, <1>17, <1>18, <1>19, <1>20, <1>21, <1>22, <1>23, <1>24, <1>25, <1>26, <1>27, <1>28,
     <1>29, <1>30, <1>31, <1>32, <1>33, <1>34, <1>35
  DEF OwnerNext, Serve, Stop, Start, Type

\* What is kept by every step.
OwnerInv == OwnerTypeOK /\ OldApart /\ Locked /\ Undisturbed /\ Found

LEMMA OwnerInvariant == OwnerSpec => []OwnerInv
<1>1. OwnerInit => OwnerInv
  BY OwnerAssumption
  DEF OwnerInit, OwnerInv, OwnerTypeOK, OldApart, Locked, Undisturbed, Found, NoCmd, Cmd, CmdPC,
      OwnerPC, ClosingPC, Alive, Runs, Owns
<1>2. OwnerInv /\ [OwnerNext]_vars => OwnerInv'
  BY TypeKept, ApartKept, LockedKept, UndisturbedKept, FoundKept DEF OwnerInv
<1> QED
  BY <1>1, <1>2, PTL DEF OwnerSpec

\* Every variable of the lock, the files and the commands keeps its type.
THEOREM OwnerTypeCorrect == OwnerSpec => []OwnerTypeOK
BY OwnerInvariant, PTL DEF OwnerInv

\* At most one process of a current build listens, it holds the lock, and its
\* pid is in the lock file (ControlServer._acquire_lock).
THEOREM OneOwnerOnly == OwnerSpec => []OneOwner
<1>1. OwnerInv => OneOwner
  BY DEF OwnerInv, Locked, OneOwner, Owns, OwnerPC
<1> QED
  BY <1>1, OwnerInvariant, PTL

\* An owner that came up while nobody closed and no stop was deciding keeps
\* its socket and its pid file (stop_control_daemon, serve_control_forever).
THEOREM CalmOwnersStay == OwnerSpec => []CalmOwnerKept
<1>1. OwnerInv => CalmOwnerKept
  BY DEF OwnerInv, Undisturbed, CalmOwnerKept
<1> QED
  BY <1>1, OwnerInvariant, PTL

\* A stop that began when nothing was starting or closing, and that reports
\* success, leaves no owner (stop_control_daemon, lock_holder_pids).
THEOREM StopStops == OwnerSpec => []StopMeansStopped
<1>1. OwnerInv => StopMeansStopped
  BY DEF OwnerInv, OwnerTypeOK, Found, StopMeansStopped
<1> QED
  BY <1>1, OwnerInvariant, PTL
=============================================================================
