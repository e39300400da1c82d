------------------------------ MODULE TurnGate ------------------------------
(***************************************************************************)
(* The turn gate of one evaluation session: the directory .groket-turn on  *)
(* the bind mount through which host processes and the container's         *)
(* entrypoint hand follow-up prompts over (session/turn_gate.py on the     *)
(* host, the turn loop of assets/docker/entrypoint.sh in the container).   *)
(* Nothing locks the directory.  A read or write of one file is one step;  *)
(* the reads that make up one decision are one step; rm of several files   *)
(* in one command is one step.                                             *)
(***************************************************************************)
EXTENDS Naturals, Sequences

CONSTANTS
  Prompt,     \* follow-up texts; each is sent at most once
  Task,       \* the prompt the run was launched with
  Script,     \* any prompt of scripted-turns.json
  NoPrompt,   \* no file, or an empty one
  Tui,        \* terminal apps: they drain the queue and stop containers
  Control,    \* control owners: session/follow_up and session/done over RPC
  Launcher,   \* the terminal app whose RunManager started the run
  MaxScripted,\* bound on the scripted turns of a batch task
  SlowHosts,  \* a host operation may outlast an agent turn
  LiveStale,  \* 20 minutes may pass without a write while the container runs
  MaxCrashes, \* bound on the host processes that die between two file writes
  Quits,      \* the launching terminal app may quit during the run
  StopFails   \* docker stop may raise, which stop_session_container ignores

ASSUME ConstantsAssumption ==
  /\ Tui \cap Control = {}
  /\ Launcher \in Tui
  /\ {Task, Script, NoPrompt} \cap Prompt = {}
  /\ Task # Script /\ Task # NoPrompt /\ Script # NoPrompt
  /\ MaxScripted \in Nat /\ MaxCrashes \in Nat
  /\ {SlowHosts, LiveStale, Quits, StopFails} \subseteq BOOLEAN

Host == Tui \cup Control

VARIABLES
  status,     \* state field of status.json ("none": no file)
  command,    \* the command file
  next,       \* next-prompt.txt
  final,      \* does the marker file final_turn exist
  queue,      \* pending-prompts.jsonl: sequence of [prompt, last]
  scripted,   \* prompts left in scripted-turns.json
  open,       \* events.jsonl ends in an unmatched turn_started
  ended,      \* events.jsonl holds a turn_ended
  stale,      \* traces and gate files are older than INCOMPLETE_STALE_SECONDS
  pc,         \* where the entrypoint is
  prompt,     \* PROMPT_FILE
  keep,       \* FINAL_TURN of the shell
  sid,        \* the shell knows its primary SESSION_ID
  interactive,\* INTERACTIVE
  shared,     \* the final share snapshot was taken
  host,       \* per host: program counter and locals of its operation
  worker,     \* the RunManager thread that waits for the container, and the
              \* orchestrator's abort event, which only this wait looks at
  crashes,    \* host crashes so far
  mishaps,    \* history: what has befallen the hosts
  used,       \* prompts users have typed
  ran         \* prompts the entrypoint has handed to the agent

gate  == <<status, command, next, final, queue>>
trace == <<open, ended>>
shell == <<scripted, pc, prompt, keep, sid, interactive, shared, ran>>
run   == <<worker, crashes, mishaps>>
vars  == <<gate, trace, shell, run, stale, host, used>>

Item == [prompt : Prompt, last : BOOLEAN]
Stopped == {"exited", "killed"}

\* The agent's process runs.
InTurn == {"launched", "turn", "closing"}

\* The entrypoint has left its turn loop or is about to.
Over == {"last", "timeout", "finish"} \cup Stopped

EntryPC == {"launch", "turn_end", "check_final", "clear", "await", "poll",
            "take", "keep", "resume"} \cup InTurn \cup Over

HostPC == {"idle", "follow_settle", "follow_decide", "stage_next",
           "stage_command", "stage_final", "stage_status", "enq_read",
           "enq_write", "drain_settle", "drain_decide", "drain_write",
           "done_final", "done_queue", "stop", "fin_clear", "fin_write"}

\* Where a call of finalize_gate_dir returns to.
RetPC == {"idle", "follow_decide", "drain_decide"}

\* What one host operation remembers between its steps.
Local == [pc : HostPC, ret : RetPC, prompt : Prompt \cup {NoPrompt}, last : BOOLEAN,
          seen : Seq(Item)]

\* A host has taken a container that runs for gone, a turn has ended under an
\* operation of a host, a host has died in the middle of one.
Mishap == {"gave_up", "overtaken", "died"}

TypeOK ==
  /\ status \in {"none", "running", "awaiting_follow_up", "done", "timeout"}
  /\ command \in {"none", "follow_up", "done"}
  /\ next \in Prompt \cup {NoPrompt}
  /\ queue \in Seq(Item)
  /\ scripted \in 0 .. MaxScripted
  /\ {final, open, ended, stale, keep, sid, interactive, shared} \subseteq BOOLEAN
  /\ pc \in EntryPC
  /\ prompt \in Prompt \cup {Task, Script}
  /\ host \in [Host -> Local]
  /\ worker \in {"watching", "aborted", "fin_clear", "fin_write", "finished", "dead"}
  /\ crashes \in 0 .. MaxCrashes /\ mishaps \subseteq Mishap
  /\ used \subseteq Prompt
  /\ ran \subseteq Prompt

Idle == [pc |-> "idle", ret |-> "idle", prompt |-> NoPrompt, last |-> FALSE, seen |-> <<>>]

Init ==
  /\ status = "none" /\ command = "none" /\ next = NoPrompt
  /\ final = FALSE /\ queue = <<>>
  /\ scripted \in 0 .. MaxScripted
  /\ open = FALSE /\ ended = FALSE /\ stale = FALSE
  /\ pc = "launch" /\ prompt = Task /\ keep = FALSE /\ sid = FALSE
  /\ interactive \in BOOLEAN /\ shared = FALSE
  /\ host = [h \in Host |-> Idle]
  /\ worker = "watching" /\ crashes = 0 /\ mishaps = {}
  /\ used = {} /\ ran = {}

-----------------------------------------------------------------------------
(* What the host reads off the gate.                                       *)

Staged == command = "follow_up" /\ next # NoPrompt

Awaits == command # "done" /\ status = "awaiting_follow_up"

\* Mutant: the fast path's age test is lost.
SettleFresh ==
  IF status = "done"
  THEN final \/ next # NoPrompt \/ command # "none" \/ queue # <<>>
  ELSE status \in {"running", "awaiting_follow_up"} \/ command = "done" \/ final \/ Staged

\* Mutant: an idle interactive gate does not look live.
SettleBusyOnly ==
  IF status = "done"
  THEN final \/ next # NoPrompt \/ command # "none" \/ queue # <<>>
  ELSE stale /\ (status = "running" \/ command = "done" \/ final \/ Staged)

NeedsSettle ==
  IF status = "done"
  THEN final \/ next # NoPrompt \/ command # "none" \/ queue # <<>>
  ELSE stale /\ \/ status \in {"running", "awaiting_follow_up"}
                \/ command = "done"
                \/ final
                \/ Staged

\* lifecycle_state below its settle call, as a table.
Lifecycle ==
  LET live == open /\ ~stale IN
  CASE status = "done" -> "done"
    [] status = "awaiting_follow_up" /\ command # "done" /\ ~final -> "awaiting_follow_up"
    [] status # "done" /\ command = "done" -> IF live THEN "ending" ELSE "done"
    [] status # "done" /\ command # "done" /\ final ->
         IF live THEN "ending"
         ELSE IF ~stale /\ (Staged \/ (status = "running" /\ ~ended)) THEN "running"
         ELSE "done"
    [] status = "running" /\ command # "done" /\ ~final -> IF stale THEN "done" ELSE "running"
    [] status \in {"none", "timeout"} /\ command # "done" /\ ~final -> status

\* Mutant: the bar is not shown for a session that merely waits.
ShowsBusyOnly == status # "done" /\ ~stale /\ (command = "done" \/ final \/ Staged)

\* _recompute_session_pending: does the browser show its follow-up bar.
ShowsPending ==
  /\ status # "done" /\ ~stale
  /\ command = "done" \/ final \/ Staged \/ Awaits \/ queue # <<>>

-----------------------------------------------------------------------------
(* The agent, one process per turn.                                        *)

\* The top of the loop.  A later turn needs a primary session to resume.
Launch ==
  /\ pc = "launch"
  /\ pc' = IF prompt # Task /\ ~sid THEN "finish" ELSE "launched"
  /\ UNCHANGED <<gate, trace, scripted, prompt, keep, sid, interactive, shared, ran,
                 run, stale, host, used>>

AgentOpensTurn ==
  /\ pc = "launched"
  /\ pc' = "turn" /\ open' = TRUE /\ stale' = FALSE
  /\ UNCHANGED <<gate, ended, scripted, prompt, keep, sid, interactive, shared, ran,
                 run, host, used>>

\* A turn takes seconds to hours; unless SlowHosts, a host's few file writes
\* begun before the turn ends are done by then.
AgentClosesTurn ==
  /\ pc = "turn"
  /\ SlowHosts \/ \A h \in Host : host[h].pc = "idle"
  /\ pc' = "closing" /\ open' = FALSE /\ ended' = TRUE /\ stale' = FALSE
  /\ mishaps' = IF \E h \in Host : host[h].pc # "idle" THEN mishaps \cup {"overtaken"}
                ELSE mishaps
  /\ UNCHANGED <<gate, scripted, prompt, keep, sid, interactive, shared, ran,
                 worker, crashes, host, used>>

AgentExits ==
  /\ pc = "closing"
  /\ pc' = "turn_end"
  /\ UNCHANGED <<gate, trace, scripted, prompt, keep, sid, interactive, shared, ran,
                 run, stale, host, used>>

\* A non-zero exit status returned by _gte_run_grok_turn under set -e ends
\* the shell on the spot: nothing after the call runs but the EXIT trap.
AgentFails ==
  /\ pc \in InTurn
  /\ pc' = "exited"
  /\ UNCHANGED <<gate, trace, scripted, prompt, keep, sid, interactive, shared, ran,
                 run, stale, host, used>>

-----------------------------------------------------------------------------
(* The entrypoint between turns.                                           *)

\* Mutant: the list is popped without a look at its length.
PopsAlways ==
  /\ pc = "turn_end"
  /\ scripted' = scripted - 1
  /\ pc' = IF scripted > 0 THEN "launch" ELSE "check_final"
  /\ UNCHANGED <<gate, trace, prompt, keep, sid, interactive, shared, ran, run, stale,
                 host, used>>

\* Resolve the primary session id, then pop a scripted prompt.
AfterTurn ==
  /\ pc = "turn_end"
  /\ \E found \in BOOLEAN : sid' = (sid \/ found)
  /\ \/ /\ scripted > 0 /\ sid'
        /\ scripted' = scripted - 1 /\ prompt' = Script /\ pc' = "launch"
     \/ /\ scripted > 0 /\ ~sid'
        /\ scripted' = scripted - 1 /\ pc' = "finish" /\ UNCHANGED prompt
     \/ /\ scripted = 0
        /\ pc' = "check_final" /\ UNCHANGED <<scripted, prompt>>
  /\ UNCHANGED <<gate, trace, keep, interactive, shared, ran, run, stale, host, used>>

CheckFinal ==
  /\ pc = "check_final"
  /\ \/ /\ final
        /\ final' = FALSE /\ command' = "none" /\ next' = NoPrompt /\ pc' = "last"
     \/ /\ ~final
        /\ pc' = IF interactive THEN "clear" ELSE "finish"
        /\ UNCHANGED <<final, command, next>>
  /\ UNCHANGED <<status, queue, trace, scripted, prompt, keep, sid, interactive, shared,
                 ran, run, stale, host, used>>

ClearCommand ==
  /\ pc = "clear"
  /\ command' = "none" /\ next' = NoPrompt /\ pc' = "await"
  /\ UNCHANGED <<status, final, queue, trace, scripted, prompt, keep, sid, interactive,
                 shared, ran, run, stale, host, used>>

\* _gte_write_turn_status: the entrypoint's write of status.json.
WriteStatus(from, state, to) ==
  /\ pc = from
  /\ status' = state /\ stale' = FALSE /\ pc' = to
  /\ UNCHANGED <<command, next, final, queue, trace, scripted, prompt, keep, sid,
                 interactive, shared, ran, run, host, used>>

\* Mutant: the entrypoint leaves the awaiting status to the host.
ResumeSilently ==
  /\ pc = "resume" /\ pc' = "launch"
  /\ UNCHANGED <<gate, trace, scripted, prompt, keep, sid, interactive, shared, ran, run,
                 stale, host, used>>

Await       == WriteStatus("await", "awaiting_follow_up", "poll")
Resume      == WriteStatus("resume", "running", "launch")
FinishDone  == WriteStatus("last", "done", "finish")
FinishIdle  == WriteStatus("timeout", "timeout", "finish")

PollDone ==
  /\ pc = "poll" /\ command = "done"
  /\ pc' = "last"
  /\ UNCHANGED <<gate, trace, scripted, prompt, keep, sid, interactive, shared, ran,
                 run, stale, host, used>>

\* The prompt is copied here; the files go in the next step.
PollFollowUp ==
  /\ pc = "poll" /\ Staged
  /\ keep' = final /\ prompt' = next /\ ran' = ran \cup {next} /\ pc' = "take"
  /\ UNCHANGED <<gate, trace, scripted, sid, interactive, shared, run, stale, host, used>>

TakeFiles ==
  /\ pc = "take"
  /\ command' = "none" /\ next' = NoPrompt /\ pc' = "keep"
  /\ UNCHANGED <<status, final, queue, trace, scripted, prompt, keep, sid, interactive,
                 shared, ran, run, stale, host, used>>

KeepFinal ==
  /\ pc = "keep"
  /\ final' = (final \/ keep) /\ stale' = (stale /\ ~keep) /\ pc' = "resume"
  /\ UNCHANGED <<status, command, next, queue, trace, scripted, prompt, keep, sid,
                 interactive, shared, ran, run, host, used>>

IdleTimeout ==
  /\ pc = "poll" /\ pc' = "timeout"
  /\ UNCHANGED <<gate, trace, scripted, prompt, keep, sid, interactive, shared, ran,
                 run, stale, host, used>>

\* Past the loop: stop the share loop, take the final snapshot, exit.
FinalShare ==
  /\ pc = "finish"
  /\ shared' = TRUE /\ pc' = "exited"
  /\ UNCHANGED <<gate, trace, scripted, prompt, keep, sid, interactive, ran, run, stale,
                 host, used>>

Entrypoint ==
  \/ Launch \/ AfterTurn \/ CheckFinal \/ ClearCommand \/ Await \/ PollDone
  \/ PollFollowUp \/ TakeFiles \/ KeepFinal \/ Resume
  \/ FinishDone \/ FinishIdle \/ FinalShare

-----------------------------------------------------------------------------
(* Host operations.                                                        *)

At(h, at) == host[h].pc = at
\* An operation that returns forgets its locals.
Goto(h, to) ==
  host' = IF to = "idle" THEN [host EXCEPT ![h] = Idle] ELSE [host EXCEPT ![h].pc = to]

\* Call the two steps of finalize_gate_dir, then go on at label to.
CallFinalize(h, to) == host' = [host EXCEPT ![h].pc = "fin_clear", ![h].ret = to]

Background == <<trace, shell, run>>

\* The container that is taken for gone may be running.
GivesUp == mishaps' = IF pc \in Over THEN mishaps ELSE mishaps \cup {"gave_up"}

FinClear(h) ==
  /\ At(h, "fin_clear")
  /\ command' = "none" /\ next' = NoPrompt /\ final' = FALSE /\ queue' = <<>>
  /\ Goto(h, "fin_write")
  /\ UNCHANGED <<status, Background, stale, used>>

FinWrite(h) ==
  /\ At(h, "fin_write")
  /\ status' = "done" /\ stale' = FALSE
  /\ Goto(h, host[h].ret)
  /\ UNCHANGED <<command, next, final, queue, Background, used>>

\* settle_stale_session_gates, the prologue of every reader.
Settle(h, at, to) ==
  /\ At(h, at)
  /\ IF NeedsSettle THEN CallFinalize(h, to) ELSE Goto(h, to)
  /\ IF NeedsSettle /\ stale THEN GivesUp ELSE UNCHANGED mishaps
  /\ UNCHANGED <<gate, trace, shell, worker, crashes, stale, used>>

\* A list refresh or status query; one that settles nothing changes nothing.
Probe(h) ==
  /\ At(h, "idle") /\ NeedsSettle
  /\ CallFinalize(h, "idle")
  /\ IF stale THEN GivesUp ELSE UNCHANGED mishaps
  /\ UNCHANGED <<gate, trace, shell, worker, crashes, stale, used>>

\* write_follow_up_for_session.  It raises when the command file says done.
FollowUp(h, p, last) ==
  /\ At(h, "idle") /\ p \notin used
  /\ used' = used \cup {p}
  /\ host' = IF command = "done" THEN host
             ELSE [host EXCEPT ![h] = [pc |-> "follow_settle", ret |-> "idle", prompt |-> p,
                                       last |-> last, seen |-> <<>>]]
  /\ UNCHANGED <<gate, Background, stale>>

FollowSettle(h) == Settle(h, "follow_settle", "follow_decide")

FollowDecide(h) ==
  /\ At(h, "follow_decide")
  /\ Goto(h, IF Awaits /\ ~Staged THEN "stage_next" ELSE "enq_read")
  /\ UNCHANGED <<gate, Background, stale, used>>

\* _stage_follow_up_on_gate, file by file.
StageNext(h) ==
  /\ At(h, "stage_next")
  /\ next' = host[h].prompt /\ stale' = FALSE
  /\ Goto(h, "stage_command")
  /\ UNCHANGED <<status, command, final, queue, Background, used>>

StageCommand(h) ==
  /\ At(h, "stage_command")
  /\ command' = "follow_up" /\ stale' = FALSE
  /\ Goto(h, "stage_final")
  /\ UNCHANGED <<status, next, final, queue, Background, used>>

StageFinal(h) ==
  /\ At(h, "stage_final")
  /\ final' = host[h].last /\ stale' = (stale /\ ~host[h].last)
  /\ Goto(h, "stage_status")
  /\ UNCHANGED <<status, command, next, queue, Background, used>>

StageStatus(h) ==
  /\ At(h, "stage_status")
  /\ status' = "running" /\ stale' = FALSE
  /\ Goto(h, "idle")
  /\ UNCHANGED <<command, next, final, queue, Background, used>>

\* enqueue_follow_up: an unlocked read, then a write of the whole file.
EnqueueRead(h) ==
  /\ At(h, "enq_read")
  /\ host' = [host EXCEPT ![h].pc = "enq_write", ![h].seen = queue]
  /\ UNCHANGED <<gate, Background, stale, used>>

EnqueueWrite(h) ==
  /\ At(h, "enq_write")
  /\ queue' = Append(host[h].seen, [prompt |-> host[h].prompt, last |-> host[h].last])
  /\ stale' = FALSE
  /\ Goto(h, "idle")
  /\ UNCHANGED <<status, command, next, final, Background, used>>

\* drain_queued_follow_up, run when the browser repaints its pending bar.
Drain(h) ==
  /\ At(h, "idle") /\ ShowsPending /\ queue # <<>>
  /\ Goto(h, "drain_settle")
  /\ UNCHANGED <<gate, Background, stale, used>>

DrainSettle(h) == Settle(h, "drain_settle", "drain_decide")

DrainDecide(h) ==
  /\ At(h, "drain_decide")
  /\ host' = IF Awaits /\ ~Staged /\ queue # <<>>
             THEN [host EXCEPT ![h] = [pc |-> "drain_write", ret |-> "idle",
                                       prompt |-> Head(queue).prompt,
                                       last |-> Head(queue).last, seen |-> Tail(queue)]]
             ELSE [host EXCEPT ![h] = Idle]
  /\ UNCHANGED <<gate, Background, stale, used>>

\* Mutant: the drained prompt stays in the queue.
DrainKeeps(h) ==
  /\ At(h, "drain_write")
  /\ Goto(h, "stage_next")
  /\ UNCHANGED <<gate, Background, stale, used>>

DrainWrite(h) ==
  /\ At(h, "drain_write")
  /\ queue' = host[h].seen /\ stale' = (stale /\ host[h].seen = <<>>)
  /\ Goto(h, "stage_next")
  /\ UNCHANGED <<status, command, next, final, Background, used>>

\* write_done_for_session; a terminal app then stops the container.
Done(h) ==
  /\ At(h, "idle")
  /\ command' = "done" /\ stale' = FALSE
  /\ Goto(h, "done_final")
  /\ UNCHANGED <<status, next, final, queue, Background, used>>

DoneFinal(h) ==
  /\ At(h, "done_final")
  /\ final' = FALSE
  /\ Goto(h, "done_queue")
  /\ UNCHANGED <<status, command, next, queue, Background, stale, used>>

\* Mutant: the browser leaves the stopping to the entrypoint.
DoneWithoutStop(h) ==
  /\ At(h, "done_queue")
  /\ queue' = <<>>
  /\ Goto(h, "idle")
  /\ UNCHANGED <<status, command, next, final, Background, stale, used>>

DoneQueue(h) ==
  /\ At(h, "done_queue")
  /\ queue' = <<>>
  /\ Goto(h, IF h \in Tui THEN "stop" ELSE "idle")
  /\ UNCHANGED <<status, command, next, final, Background, stale, used>>

\* stop_session_container: docker stop, docker remove, finalize the gate.
StopContainer(h) ==
  /\ At(h, "stop")
  /\ \/ pc' = (IF pc = "exited" THEN pc ELSE "killed") /\ UNCHANGED mishaps
     \/ StopFails /\ UNCHANGED pc /\ GivesUp
  /\ CallFinalize(h, "idle")
  /\ UNCHANGED <<gate, trace, scripted, prompt, keep, sid, interactive, shared, ran, worker,
                 crashes, stale, used>>

HostStep(h) ==
  \/ FinClear(h) \/ FinWrite(h) \/ FollowSettle(h) \/ FollowDecide(h)
  \/ StageNext(h) \/ StageCommand(h) \/ StageFinal(h) \/ StageStatus(h)
  \/ EnqueueRead(h) \/ EnqueueWrite(h) \/ DrainSettle(h) \/ DrainDecide(h)
  \/ DrainWrite(h) \/ DoneFinal(h) \/ DoneQueue(h) \/ StopContainer(h)

-----------------------------------------------------------------------------
(* The RunManager worker, quitting, crashes and the passing of time.       *)

\* The container wait returns when the container stops or on abort; an
\* interactive run then has its gates finalized.
WorkerWakes ==
  /\ worker = "aborted" \/ (worker = "watching" /\ pc \in Stopped)
  /\ worker' = IF interactive THEN "fin_clear" ELSE "finished"
  /\ GivesUp
  /\ UNCHANGED <<gate, trace, shell, crashes, stale, host, used>>

WorkerClears ==
  /\ worker = "fin_clear" /\ worker' = "fin_write"
  /\ command' = "none" /\ next' = NoPrompt /\ final' = FALSE /\ queue' = <<>>
  /\ UNCHANGED <<status, trace, shell, crashes, mishaps, stale, host, used>>

WorkerWrites ==
  /\ worker = "fin_write" /\ worker' = "finished"
  /\ status' = "done" /\ stale' = FALSE
  /\ UNCHANGED <<command, next, final, queue, trace, shell, crashes, mishaps, host, used>>

\* detach_ui: the abort event is set.
Quit ==
  /\ Quits /\ At(Launcher, "idle") /\ worker = "watching"
  /\ worker' = "aborted"
  /\ UNCHANGED <<gate, trace, shell, crashes, mishaps, stale, host, used>>

\* The process that quits may outlive the event for a while, or end before the
\* worker does.
QuitCompletes ==
  /\ Quits /\ worker \in {"aborted", "fin_clear", "fin_write"}
  /\ worker' = "dead"
  /\ UNCHANGED <<gate, trace, shell, crashes, mishaps, stale, host, used>>

\* A host process dies in the middle of an operation and is started again.
HostCrash(h) ==
  /\ crashes < MaxCrashes /\ ~At(h, "idle")
  /\ crashes' = crashes + 1 /\ mishaps' = mishaps \cup {"died"}
  /\ host' = [host EXCEPT ![h] = Idle]
  /\ worker' = IF h = Launcher /\ worker # "finished" THEN "dead" ELSE worker
  /\ UNCHANGED <<gate, trace, shell, stale, used>>

\* 20 minutes without a write, with no sequence of file writes under way.
GoStale ==
  /\ ~stale
  /\ \A h \in Host : host[h].pc \in {"idle", "drain_settle", "drain_decide"}
  /\ worker \notin {"fin_clear", "fin_write"}
  /\ pc \in Stopped \/ (LiveStale /\ pc \in {"launched", "turn", "poll"})
  /\ stale' = TRUE
  /\ UNCHANGED <<gate, trace, shell, run, host, used>>

Agent == AgentOpensTurn \/ AgentClosesTurn \/ AgentExits \/ AgentFails

Worker == WorkerWakes \/ WorkerClears \/ WorkerWrites

Next ==
  \/ Entrypoint \/ IdleTimeout
  \/ Agent
  \/ Worker \/ Quit \/ QuitCompletes \/ GoStale
  \/ \E h \in Host :
       \/ HostStep(h) \/ Probe(h) \/ Done(h) \/ HostCrash(h)
       \/ \E p \in Prompt, last \in BOOLEAN : FollowUp(h, p, last)
  \/ \E h \in Tui : Drain(h)

Spec == Init /\ [][Next]_vars

(* The shell runs on, an agent's turn ends (the limit MAX_TURNS), a host   *)
(* operation in flight is finished by its thread, the worker thread is     *)
(* scheduled, the browser repaints its bar, lists are refreshed, and a     *)
(* gate whose container is gone grows old; one that is polled need not, in *)
(* 20 minutes.  AgentClosesTurn gets strong fairness only because its      *)
(* guard may wait for idle hosts, which the real agent does not.           *)
(* Nobody is obliged to type, to press Done, to quit or to crash, and the  *)
(* idle timeout (a day) may be further off than the run is long.           *)
Fairness ==
  /\ WF_vars(Entrypoint)
  /\ WF_vars(AgentOpensTurn) /\ SF_vars(AgentClosesTurn) /\ WF_vars(AgentExits)
  /\ WF_vars(Worker) /\ WF_vars(pc \in Stopped /\ GoStale)
  /\ \A h \in Host : WF_vars(HostStep(h)) /\ WF_vars(Probe(h))
  /\ \A h \in Tui : WF_vars(Drain(h))

FairSpec == Spec /\ Fairness

-----------------------------------------------------------------------------
(* Properties of the gate by itself.                                       *)

\* finalize_gate_dir: the host owns status.json only "when the eval container
\* is no longer running".  So a gate that says done belongs to an entrypoint
\* that will never read it again, unless some host took a container that runs
\* for gone: its gate was old, the app that waited for it has quit, or docker
\* did not stop it.
DoneMeansOver == status = "done" => pc \in Over \/ "gave_up" \in mishaps

\* write_follow_up_for_session reports "sent" on the strength of an awaiting
\* status alone, so that status must never outlive the poll loop into a turn.
AwaitingHonest ==
  status = "awaiting_follow_up" => pc \in {"poll", "take", "keep", "resume"} \cup Over

\* "ending" is a transient: a session on its last turn, or asked to stop in
\* the middle of a turn, ends up done and stays so, as long as nothing befalls
\* the hosts.
EndingSettles ==
  [](mishaps = {}) => (Lifecycle = "ending" ~> [](Lifecycle = "done"))

\* A gate whose container is gone stops looking live, whoever died in the
\* middle of what: the worker, a probe of a stale gate, or both see to it,
\* once nobody presses Done on the dead session any more.
ZombieSettles ==
  <>[][\A h \in Host : ~Done(h)]_vars =>
    (pc \in Stopped ~> (pc \in Stopped /\ Lifecycle \in {"none", "done", "timeout"}))

\* A queued follow-up is taken up once the agent is free, unless the session
\* ends first or the user has pressed Done, as long as nothing befalls the hosts.
QueueDrains ==
  [](mishaps = {}) =>
    \A p \in Prompt :
      (\E i \in DOMAIN queue : queue[i].prompt = p) ~>
        (p \in ran \/ pc \in Over \/ command = "done")
=============================================================================
