---------------------------- MODULE ControlOwner ----------------------------
(***************************************************************************)
(* Who owns the control socket: groket serve processes that start, serve   *)
(* and stop, and the commands serve, serve -d, serve stop and serve        *)
(* restart (integrations/control.py, integrations/daemon.py, cli.py).      *)
(* They share a lock file (flock, with the holder's pid in it), a socket   *)
(* file and a pid file.  Processes hold the lock; commands hold nothing.   *)
(* A step is what a process does up to its next await, system call that    *)
(* another process sees, or read of a file that another process writes.    *)
(***************************************************************************)
EXTENDS Naturals, FiniteSets

CONSTANTS
  Proc,     \* serve processes; each is one pid and runs once
  Old,      \* of these, owners of builds that know neither lock nor pid file
  Command,  \* terminals in which serve commands are typed
  None      \* no process

ASSUME OwnerAssumption == Old \subseteq Proc /\ None \notin Proc

VARIABLES
  pc,        \* where a serve process is
  listening, \* the processes that accept on the socket that they have bound
  sock,      \* the process whose socket the path names
  flock,     \* the holder of the flock
  lockPid,   \* the pid in the lock file
  pidFile,   \* the pid in the pid file
  termed,    \* the processes with stop_event set
  clients,   \* the processes with a client that keeps its connection
  cmd,       \* per terminal: where the command is, and its local variables
  result,    \* per terminal: what the last stop came to
  calm,      \* history: processes that began to serve while nobody was closing
             \* and no stop was under way that had not found its targets
  quiet      \* history: per terminal, nothing was starting or closing when its
             \* stop began, and nothing was started since

files == <<sock, flock, lockPid, pidFile>>
procs == <<pc, listening, termed, clients>>
vars  == <<files, procs, cmd, result, calm, quiet>>

\* A process of a current build from its flock to the release of it.
OwnerPC == {"record", "probe", "bind", "chmod", "pid", "serve", "drain"}
ClosingPC == {"unpid", "unpid_again"}

Alive(p) == pc[p] \notin {"idle", "gone"}
Owns(p) == p \notin Old /\ pc[p] \in OwnerPC

\* pid_is_alive, of a pid that may have been read from nowhere.
Runs(p) == p # None /\ Alive(p)

\* control_socket_accepts
Accepts == sock \in listening

\* Mutant: a lock that nobody holds is taken for one of an unknown process.
HoldersOrNobody == IF Runs(lockPid) THEN {lockPid} ELSE {flock}

\* lock_holder_pids: the recorded pid while it lives, else what lsof lists.
Holders ==
  IF Runs(lockPid) THEN {lockPid} ELSE {flock} \ {None}

CmdPC == {"idle", "stop_read", "stop_probe", "stop_judge", "stop_wait", "stop_check",
          "stop_again", "stop_unlink", "stop_unpid", "start_probe", "start_holders",
          "start_reprobe", "start_spawn", "start_wait"}

Cmd == [pc : CmdPC, then : {"end", "restart", "spawn"}, pid : Proc \cup {None},
        accepts : BOOLEAN, targets : SUBSET Proc, child : Proc \cup {None}]

NoCmd == [pc |-> "idle", then |-> "end", pid |-> None, accepts |-> FALSE, targets |-> {},
          child |-> None]

OwnerTypeOK ==
  /\ pc \in [Proc -> {"idle", "lock", "gone"} \cup OwnerPC \cup ClosingPC]
  /\ listening \subseteq Proc /\ termed \subseteq Proc
  /\ clients \subseteq Proc /\ calm \subseteq Proc
  /\ sock \in Proc \cup {None} /\ flock \in Proc \cup {None}
  /\ lockPid \in Proc \cup {None} /\ pidFile \in Proc \cup {None}
  /\ cmd \in [Command -> Cmd]
  /\ result \in [Command -> {"none", "stopped", "refused"}]
  /\ quiet \in [Command -> BOOLEAN]

\* An owner of an old build may be there first.
OwnerInit ==
  /\ sock \in Old \cup {None}
  /\ listening = {sock} \ {None}
  /\ pc = [p \in Proc |-> IF p = sock THEN "serve" ELSE IF p \in Old THEN "gone" ELSE "idle"]
  /\ flock = None /\ lockPid = None /\ pidFile = None
  /\ termed = {} /\ clients = {} /\ calm = {}
  /\ cmd = [c \in Command |-> NoCmd]
  /\ result = [c \in Command |-> "none"] /\ quiet = [c \in Command |-> FALSE]

-----------------------------------------------------------------------------
(* A serve process: run_control_daemon, serve_control_forever and          *)
(* ControlServer.start.                                                    *)

Step(p, from, to) == pc[p] = from /\ pc' = [pc EXCEPT ![p] = to]

\* What the kernel does for a process that ends: files stay as they are.
Ends(p) ==
  /\ pc' = [pc EXCEPT ![p] = "gone"]
  /\ listening' = listening \ {p} /\ clients' = clients \ {p}
  /\ flock' = IF flock = p THEN None ELSE flock

\* _release_lock: the pid is cleared before the descriptor is closed.
Releases == flock' = None /\ lockPid' = None

\* Mutant: the lock file is opened and not locked.
AcquireNothing(p) ==
  /\ Step(p, "lock", "record") /\ flock' = p
  /\ UNCHANGED <<sock, lockPid, pidFile, listening, termed, clients, cmd, result, calm, quiet>>

AcquireLock(p) ==
  /\ pc[p] = "lock"
  /\ \/ flock = None /\ flock' = p /\ pc' = [pc EXCEPT ![p] = "record"]
     \/ flock # None /\ pc' = [pc EXCEPT ![p] = "gone"] /\ UNCHANGED flock
  /\ UNCHANGED <<sock, lockPid, pidFile, listening, termed, clients, cmd, result, calm, quiet>>

RecordPid(p) ==
  /\ Step(p, "record", "probe") /\ lockPid' = p
  /\ UNCHANGED <<sock, flock, pidFile, listening, termed, clients, cmd, result, calm, quiet>>

\* _takeover_or_fail: a socket that answers is left alone.
Takeover(p) ==
  /\ pc[p] = "probe"
  /\ \/ /\ Accepts
        /\ pc' = [pc EXCEPT ![p] = "gone"] /\ Releases /\ UNCHANGED sock
     \/ /\ ~Accepts
        /\ pc' = [pc EXCEPT ![p] = "bind"] /\ sock' = None /\ UNCHANGED <<flock, lockPid>>
  /\ UNCHANGED <<pidFile, listening, termed, clients, cmd, result, calm, quiet>>

Bind(p) ==
  /\ Step(p, "bind", "chmod")
  /\ sock' = p /\ listening' = listening \cup {p}
  /\ UNCHANGED <<flock, lockPid, pidFile, termed, clients, cmd, result, calm, quiet>>

\* chmod fails when somebody has unlinked the path: start gives up.
Chmod(p) ==
  /\ pc[p] = "chmod"
  /\ \/ /\ sock # None
        /\ pc' = [pc EXCEPT ![p] = "pid"] /\ UNCHANGED <<listening, flock, lockPid>>
     \/ /\ sock = None
        /\ pc' = [pc EXCEPT ![p] = "gone"] /\ listening' = listening \ {p} /\ Releases
  /\ UNCHANGED <<sock, pidFile, termed, clients, cmd, result, calm, quiet>>

Deciding == {"stop_probe", "stop_judge", "stop_again", "stop_unlink", "stop_unpid"}

WritePid(p) ==
  /\ Step(p, "pid", "serve") /\ pidFile' = p
  /\ calm' = IF sock = p /\ \A q \in Proc : pc[q] \notin ClosingPC
                /\ \A c \in Command : cmd[c].pc \notin Deciding
             THEN calm \cup {p} ELSE calm
  /\ UNCHANGED <<sock, flock, lockPid, listening, termed, clients, cmd, result, quiet>>

\* SIGTERM or SIGINT: before the handlers are installed it ends the process.
Signal(p) ==
  \/ /\ pc[p] = "lock"
     /\ Ends(p) /\ UNCHANGED termed
  \/ /\ Alive(p) /\ p \notin Old
     /\ termed' = termed \cup {p} /\ UNCHANGED <<pc, listening, clients, flock>>

\* The stop comes while start awaits the probe or the bind: close() unlinks
\* whatever is at the path, as the lock is held.
StopDuringStart(p) ==
  /\ p \in termed
  /\ pc[p] = "chmod" \/ (pc[p] = "probe" /\ sock # None)
  /\ pc' = [pc EXCEPT ![p] = "unpid_again"]
  /\ sock' = None /\ listening' = listening \ {p} /\ Releases
  /\ UNCHANGED <<pidFile, termed, clients, cmd, result, calm, quiet>>

\* Server.close of asyncio: the path goes if it is still this socket.
CloseServer(p) ==
  /\ p \in termed /\ Step(p, "serve", "drain")
  /\ listening' = listening \ {p}
  /\ sock' = IF sock = p THEN None ELSE sock
  /\ UNCHANGED <<flock, lockPid, pidFile, termed, clients, cmd, result, calm, quiet>>

\* Server.wait_closed returns when no client is connected any more; close()
\* would close the clients' streams only then.
FinishClose(p) ==
  /\ Step(p, "drain", "unpid") /\ p \notin clients
  /\ sock' = None /\ Releases
  /\ UNCHANGED <<pidFile, listening, termed, clients, cmd, result, calm, quiet>>

\* Both _run and serve_control_forever remove the pid file; the latter when
\* its watches have stopped.
RemovePid(p) ==
  /\ \/ Step(p, "unpid", "unpid_again") /\ UNCHANGED <<listening, clients, flock>>
     \/ pc[p] = "unpid_again" /\ Ends(p)
  /\ pidFile' = None
  /\ UNCHANGED <<sock, lockPid, termed, cmd, result, calm, quiet>>

Serve(p) ==
  \/ AcquireLock(p) \/ RecordPid(p) \/ Takeover(p) \/ Bind(p) \/ Chmod(p) \/ WritePid(p)
  \/ StopDuringStart(p) \/ CloseServer(p) \/ FinishClose(p) \/ RemovePid(p)

Spawned(p) ==
  /\ pc[p] = "idle" /\ pc' = [pc EXCEPT ![p] = "lock"]
  /\ quiet' = [c \in Command |-> FALSE]

\* groket serve in the foreground.
ServeForeground(p) ==
  /\ Spawned(p)
  /\ UNCHANGED <<files, listening, termed, clients, cmd, result, calm>>

\* Ctrl-C.
Interrupt(p) ==
  /\ Signal(p)
  /\ UNCHANGED <<sock, lockPid, pidFile, cmd, result, calm, quiet>>

\* The process dies: SIGKILL, out of memory, power.
Crash(p) ==
  /\ Alive(p) /\ Ends(p)
  /\ UNCHANGED <<sock, lockPid, pidFile, termed, cmd, result, calm, quiet>>

\* The notification listener of a terminal app, the desktop HUD, an editor.
Attach(p) ==
  /\ pc[p] = "serve" /\ sock = p /\ p \in listening
  /\ clients' = clients \cup {p}
  /\ UNCHANGED <<files, pc, listening, termed, cmd, result, calm, quiet>>

Detach(p) ==
  /\ p \in clients /\ clients' = clients \ {p}
  /\ UNCHANGED <<files, pc, listening, termed, cmd, result, calm, quiet>>

-----------------------------------------------------------------------------
(* stop_control_daemon.                                                    *)

At(c, place) == cmd[c].pc = place
Sets(c, r) == cmd' = [cmd EXCEPT ![c] = r]
Goto(c, place) == Sets(c, [cmd[c] EXCEPT !.pc = place])

\* The end of a stop: of the command, or of its first part.
StopReturns(c, outcome) ==
  /\ result' = [result EXCEPT ![c] = outcome]
  /\ Sets(c, [NoCmd EXCEPT !.pc = CASE cmd[c].then = "end" -> "idle"
                                    [] cmd[c].then = "restart" -> "start_probe"
                                    [] cmd[c].then = "spawn" -> "start_reprobe"])

StopRead(c) ==
  /\ At(c, "stop_read")
  /\ Sets(c, [cmd[c] EXCEPT !.pc = "stop_probe", !.pid = pidFile])
  /\ quiet' = [quiet EXCEPT ![c] = \A p \in Proc : pc[p] \notin {"lock"} \cup ClosingPC]
  /\ result' = [result EXCEPT ![c] = "none"]
  /\ UNCHANGED <<files, procs, calm>>

StopProbe(c) ==
  /\ At(c, "stop_probe")
  /\ Sets(c, [cmd[c] EXCEPT !.pc = "stop_judge", !.accepts = Accepts])
  /\ UNCHANGED <<files, procs, result, calm, quiet>>

\* Mutant: only the pid file tells whom to stop.
StopJudgeByPidFile(c) ==
  /\ At(c, "stop_judge")
  /\ LET targets == {p \in {cmd[c].pid} : Runs(p)}
     IN IF cmd[c].accepts /\ targets = {}
        THEN StopReturns(c, "refused") /\ UNCHANGED termed
        ELSE /\ termed' = termed \cup targets
             /\ Sets(c, [cmd[c] EXCEPT !.targets = targets,
                                    !.pc = IF targets = {} THEN "stop_again" ELSE "stop_wait"])
             /\ UNCHANGED result
  /\ UNCHANGED <<files, pc, listening, clients, calm, quiet>>

\* SIGTERM to the owner on record, or to who holds the lock of a socket that
\* does not answer; a socket that answers for nobody on record is left alone.
StopJudge(c) ==
  /\ At(c, "stop_judge")
  /\ LET pid == cmd[c].pid
         manageable == Runs(pid)
         targets == IF manageable THEN {pid} ELSE Holders
     IN \/ /\ cmd[c].accepts /\ ~manageable
           /\ pidFile' = IF pid = None THEN pidFile ELSE None
           /\ StopReturns(c, "refused")
           /\ UNCHANGED termed
        \/ /\ manageable \/ ~cmd[c].accepts
           /\ termed' = termed \cup targets
           /\ Sets(c, [cmd[c] EXCEPT !.targets = targets,
                                  !.pc = IF targets = {} THEN "stop_again" ELSE "stop_wait"])
           /\ UNCHANGED <<pidFile, result>>
  /\ UNCHANGED <<sock, flock, lockPid, pc, listening, clients, calm, quiet>>

\* _wait_pids_gone.
StopGone(c) ==
  /\ At(c, "stop_wait") /\ \A p \in cmd[c].targets : ~Alive(p)
  /\ Goto(c, "stop_check")
  /\ UNCHANGED <<files, procs, result, calm, quiet>>

\* Mutant: SIGTERM once more.
StopTerms(c, p) ==
  /\ At(c, "stop_wait") /\ p \in cmd[c].targets /\ Alive(p)
  /\ termed' = termed \cup {p}
  /\ UNCHANGED <<files, pc, listening, clients, cmd, result, calm, quiet>>

\* It timed out: SIGKILL.
StopKills(c, p) ==
  /\ At(c, "stop_wait") /\ p \in cmd[c].targets /\ Alive(p)
  /\ Ends(p)
  /\ UNCHANGED <<sock, lockPid, pidFile, termed, cmd, result, calm, quiet>>

\* Mutant: leftovers are removed whoever answers.
StopCheckNothing(c) ==
  /\ At(c, "stop_check")
  /\ Goto(c, "stop_again")
  /\ UNCHANGED <<files, procs, result, calm, quiet>>

\* Leftovers are removed unless a socket answers.
StopCheck(c) ==
  /\ At(c, "stop_check")
  /\ \/ Accepts /\ StopReturns(c, "stopped")
     \/ ~Accepts /\ Goto(c, "stop_again") /\ UNCHANGED result
  /\ UNCHANGED <<files, procs, calm, quiet>>

\* _unlink_stale_socket_only: the probe, then the unlink.
StopProbeAgain(c) ==
  /\ At(c, "stop_again")
  /\ Goto(c, IF Accepts \/ sock = None THEN "stop_unpid" ELSE "stop_unlink")
  /\ UNCHANGED <<files, procs, result, calm, quiet>>

StopUnlink(c) ==
  /\ At(c, "stop_unlink")
  /\ sock' = None /\ Goto(c, "stop_unpid")
  /\ UNCHANGED <<flock, lockPid, pidFile, procs, result, calm, quiet>>

StopRemovePid(c) ==
  /\ At(c, "stop_unpid")
  /\ pidFile' = None /\ StopReturns(c, "stopped")
  /\ UNCHANGED <<sock, flock, lockPid, procs, calm, quiet>>

Stop(c) ==
  \/ StopRead(c) \/ StopProbe(c) \/ StopJudge(c) \/ StopGone(c) \/ (\E p \in Proc : StopKills(c, p))
  \/ StopCheck(c) \/ StopProbeAgain(c) \/ StopUnlink(c) \/ StopRemovePid(c)

-----------------------------------------------------------------------------
(* start_control_daemon_detached.                                          *)

StartProbe(c) ==
  /\ At(c, "start_probe")
  /\ \/ Accepts /\ Sets(c, NoCmd)
     \/ ~Accepts /\ Goto(c, "start_holders")
  /\ UNCHANGED <<files, procs, result, calm, quiet>>

\* A process that holds the lock and does not answer is stopped first.
StartHolders(c) ==
  /\ At(c, "start_holders")
  /\ Sets(c, [cmd[c] EXCEPT !.pc = IF Holders # {} THEN "stop_read" ELSE "start_spawn",
                             !.then = "spawn"])
  /\ UNCHANGED <<files, procs, result, calm, quiet>>

StartReprobe(c) ==
  /\ At(c, "start_reprobe")
  /\ \/ Accepts /\ Sets(c, NoCmd)
     \/ ~Accepts /\ Goto(c, "start_spawn")
  /\ UNCHANGED <<files, procs, result, calm, quiet>>

StartSpawn(c, p) ==
  /\ At(c, "start_spawn") /\ Spawned(p)
  /\ Sets(c, [cmd[c] EXCEPT !.pc = "start_wait", !.child = p])
  /\ UNCHANGED <<files, listening, termed, clients, result, calm>>

\* Popen fails.
SpawnFails(c) ==
  /\ At(c, "start_spawn")
  /\ Sets(c, NoCmd)
  /\ UNCHANGED <<files, procs, result, calm, quiet>>

StartAnswers(c) ==
  /\ At(c, "start_wait") /\ Accepts
  /\ Sets(c, NoCmd)
  /\ UNCHANGED <<files, procs, result, calm, quiet>>

\* Mutant: the wait ends only with the child.
StartWaits(c) ==
  /\ At(c, "start_wait") /\ ~Accepts /\ ~Runs(cmd[c].child)
  /\ Sets(c, NoCmd)
  /\ UNCHANGED <<files, procs, result, calm, quiet>>

\* The wait is over: SIGTERM for the child if it runs.
StartFails(c) ==
  /\ At(c, "start_wait") /\ ~Accepts
  /\ IF Runs(cmd[c].child) THEN Signal(cmd[c].child)
     ELSE UNCHANGED <<pc, listening, termed, clients, flock>>
  /\ Sets(c, NoCmd)
  /\ UNCHANGED <<sock, lockPid, pidFile, result, calm, quiet>>

Start(c) ==
  \/ StartProbe(c) \/ StartHolders(c) \/ StartReprobe(c) \/ (\E p \in Proc \ Old : StartSpawn(c, p))
  \/ SpawnFails(c) \/ StartAnswers(c) \/ StartFails(c)

StopThenStart(c) == Sets(c, [cmd[c] EXCEPT !.pc = "stop_read", !.then = "restart"])

\* serve stop.
TypeStop(c) ==
  /\ At(c, "idle") /\ Goto(c, "stop_read")
  /\ UNCHANGED <<files, procs, result, calm, quiet>>

\* serve -d; a terminal app or the HUD that wants an owner of its own protocol
\* and replaces one of an older build.
Ensure(c) ==
  /\ At(c, "idle")
  /\ \/ Accepts /\ sock \in Old /\ StopThenStart(c)
     \/ ~(Accepts /\ sock \in Old) /\ Goto(c, "start_probe")
  /\ UNCHANGED <<files, procs, result, calm, quiet>>

\* control_daemon_status finds something to stop.
Recorded == Accepts \/ pidFile # None \/ Holders # {}

\* serve restart stops what it finds, then starts.
TypeRestart(c) ==
  /\ At(c, "idle")
  /\ \/ Recorded /\ StopThenStart(c)
     \/ ~Recorded /\ Goto(c, "start_probe")
  /\ UNCHANGED <<files, procs, result, calm, quiet>>

Type(c) == TypeStop(c) \/ Ensure(c) \/ TypeRestart(c)

OwnerNext ==
  \/ \E p \in Proc : Serve(p) \/ ServeForeground(p) \/ Interrupt(p) \/ Crash(p)
                       \/ Attach(p) \/ Detach(p)
  \/ \E c \in Command : Type(c) \/ Stop(c) \/ Start(c)

OwnerSpec == OwnerInit /\ [][OwnerNext]_vars

\* Processes and commands run on; nobody is obliged to type, to attach, to
\* leave or to kill.
OwnerFairSpec ==
  /\ OwnerSpec
  /\ \A p \in Proc : WF_vars(Serve(p))
  /\ \A c \in Command : WF_vars(Stop(c)) /\ WF_vars(Start(c))

-----------------------------------------------------------------------------
\* One owner: what listens, of the builds that know the lock, holds it, and
\* its pid can be found in the lock file by who wants to stop it.
OneOwner ==
  \A p \in Proc \ Old :
    /\ Owns(p) <=> flock = p
    /\ p \in listening => flock = p
    /\ Owns(p) /\ pc[p] # "record" => lockPid = p

\* An owner that came up while nobody closed and no stop was deciding keeps
\* its socket and its pid file until it is stopped itself: a stop finds it.
CalmOwnerKept ==
  \A p \in calm : pc[p] = "serve" => sock = p /\ pidFile = p

\* "0 on success or already stopped": what was there when the stop began,
\* zombies included, is gone.
StopMeansStopped ==
  \A c \in Command : result[c] = "stopped" /\ quiet[c] => \A p \in Proc : ~Owns(p)

\* A stop that has found its targets outlives them, also when they hang, and
\* every command ends.
StopKillsTargets == \A p \in Proc, c \in Command : (p \in cmd[c].targets) ~> ~Alive(p)
CommandsEnd == \A c \in Command : (cmd[c].pc # "idle") ~> (cmd[c].pc = "idle")
=============================================================================
