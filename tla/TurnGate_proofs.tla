-------------------------- MODULE TurnGate_proofs ---------------------------
(***************************************************************************)
(* Theorems about TurnGate for any number of prompts, terminal apps and    *)
(* control owners.                                                         *)
(***************************************************************************)
EXTENDS TurnGateSession, SequenceTheorems, TLAPS

\* A host operation that will put its prompt on the gate has one to put there.
CarryPC == {"follow_settle", "follow_decide", "stage_next", "stage_command",
            "stage_final", "stage_status", "enq_read", "enq_write", "drain_write"}

Carries(r) ==
  (r.pc \in CarryPC \/ (r.pc \in {"fin_clear", "fin_write"} /\ r.ret \in CarryPC))
    => r.prompt \in Prompt

Carrying == \A h \in Host : Carries(host[h])

TypeInv == TypeOK /\ Carrying

-----------------------------------------------------------------------------
LEMMA IdleLocal == Idle \in Local /\ Carries(Idle)
  <1>1. <<>> \in Seq(Item)
    BY EmptySeq
  <1> QED
    BY <1>1 DEF Idle, Local, Carries, CarryPC, HostPC, RetPC

\* A host function stays well typed when one host's locals are replaced.
LEMMA HostUpdate ==
  ASSUME TypeInv, NEW h \in Host, NEW r, r \in Local, Carries(r),
         host' = [host EXCEPT ![h] = r]
  PROVE  host' \in [Host -> Local] /\ Carrying'
  BY DEF TypeInv, TypeOK, Carrying

LEMMA GotoType ==
  ASSUME TypeInv, NEW h \in Host, NEW to \in HostPC, Goto(h, to),
         to \in CarryPC => host[h].prompt \in Prompt,
         to # "fin_clear", to = "fin_write" => At(h, "fin_clear")
  PROVE  host' \in [Host -> Local] /\ Carrying'
  <1>1. CASE to = "idle"
    BY <1>1, IdleLocal, HostUpdate DEF Goto
  <1>2. CASE to # "idle"
    <2> DEFINE r == [host[h] EXCEPT !.pc = to]
    <2>1. host[h] \in Local /\ Carries(host[h])
      BY DEF TypeInv, TypeOK, Carrying
    <2>2. host' = [host EXCEPT ![h] = r]
      BY <1>2 DEF Goto
    <2>3. r \in Local
      BY <2>1 DEF Local
    <2>4. Carries(r)
      BY <2>1 DEF Local, Carries, CarryPC, At
    <2> QED
      BY <2>2, <2>3, <2>4, HostUpdate
  <1> QED
    BY <1>1, <1>2

LEMMA CallType ==
  ASSUME TypeInv, NEW h \in Host, NEW to \in RetPC, CallFinalize(h, to),
         to \in CarryPC => host[h].prompt \in Prompt
  PROVE  host' \in [Host -> Local] /\ Carrying'
  <1> DEFINE r == [host[h] EXCEPT !.pc = "fin_clear", !.ret = to]
  <1>1. host[h] \in Local
    BY DEF TypeInv, TypeOK
  <1>2. host' = [host EXCEPT ![h] = r]
    BY DEF CallFinalize
  <1>3. r \in Local /\ Carries(r)
    BY <1>1 DEF Local, Carries, CarryPC, HostPC, RetPC
  <1> QED
    BY <1>2, <1>3, HostUpdate

-----------------------------------------------------------------------------
(* The type invariant.                                                     *)

LEMMA InitType == Init => TypeInv
  <1> SUFFICES ASSUME Init PROVE TypeInv
    OBVIOUS
  <1>1. <<>> \in Seq(Item)
    BY EmptySeq
  <1>2. host \in [Host -> Local] /\ Carrying
    BY IdleLocal DEF Init, Carrying
  <1>3. {final, open, ended, stale, keep, sid, interactive, shared} \subseteq BOOLEAN
        /\ mishaps \subseteq Mishap
    BY DEF Init
  <1>4. crashes \in 0 .. MaxCrashes /\ pc \in EntryPC
    BY ConstantsAssumption DEF Init, EntryPC
  <1> QED
    BY <1>1, <1>2, <1>3, <1>4 DEF Init, TypeInv, TypeOK

\* The steps of the container: no host and no queue is involved.
LEMMA ContainerType ==
  ASSUME TypeInv, Entrypoint \/ IdleTimeout \/ Agent
  PROVE  TypeInv'
  <1> USE DEF TypeInv, TypeOK, gate, trace, shell, run, EntryPC, InTurn, Over, Stopped
  <1>0. Carrying' /\ host' \in [Host -> Local] /\ queue' \in Seq(Item)
    BY DEF Entrypoint, Agent, Launch, AfterTurn, CheckFinal, ClearCommand, Await, PollDone,
           PollFollowUp, TakeFiles, KeepFinal, Resume, IdleTimeout, FinishDone, FinishIdle,
           FinalShare, AgentOpensTurn, AgentClosesTurn, AgentExits, AgentFails, WriteStatus,
           Carrying
  <1>1. CASE Launch        BY <1>0, <1>1 DEF Launch
  <1>2. CASE AfterTurn     BY <1>0, <1>2, ConstantsAssumption DEF AfterTurn
  <1>3. CASE CheckFinal    BY <1>0, <1>3 DEF CheckFinal
  <1>4. CASE ClearCommand  BY <1>0, <1>4 DEF ClearCommand
  <1>5. CASE Await         BY <1>0, <1>5 DEF Await, WriteStatus
  <1>6. CASE PollDone      BY <1>0, <1>6 DEF PollDone
  <1>7. CASE PollFollowUp  BY <1>0, <1>7 DEF PollFollowUp, Staged
  <1>8. CASE TakeFiles     BY <1>0, <1>8 DEF TakeFiles
  <1>9. CASE KeepFinal     BY <1>0, <1>9 DEF KeepFinal
  <1>10. CASE Resume       BY <1>0, <1>10 DEF Resume, WriteStatus
  <1>11. CASE IdleTimeout  BY <1>0, <1>11 DEF IdleTimeout
  <1>12. CASE FinishDone   BY <1>0, <1>12 DEF FinishDone, WriteStatus
  <1>13. CASE FinishIdle   BY <1>0, <1>13 DEF FinishIdle, WriteStatus
  <1>14. CASE FinalShare   BY <1>0, <1>14 DEF FinalShare
  <1>15. CASE Agent
    <2>1. pc' \in EntryPC /\ {open', ended', stale'} \subseteq BOOLEAN
      BY <1>15 DEF Agent, AgentOpensTurn, AgentClosesTurn, AgentExits, AgentFails
    <2>2. UNCHANGED <<gate, scripted, prompt, keep, sid, interactive, shared, ran, worker, crashes, used>>
          /\ mishaps' \in {mishaps, mishaps \cup {"overtaken"}}
      BY <1>15 DEF Agent, AgentOpensTurn, AgentClosesTurn, AgentExits, AgentFails
    <2> QED
      BY <1>0, <2>1, <2>2 DEF Mishap
  <1> QED
    BY <1>1, <1>2, <1>3, <1>4, <1>5, <1>6, <1>7, <1>8, <1>9, <1>10, <1>11, <1>12, <1>13,
       <1>14, <1>15 DEF Entrypoint

\* The steps of the RunManager worker, of quitting and of time.
LEMMA WorkerType ==
  ASSUME TypeInv, Worker \/ Quit \/ QuitCompletes \/ GoStale
  PROVE  TypeInv'
  <1>1. <<>> \in Seq(Item)
    BY EmptySeq
  <1> QED
    BY <1>1 DEF TypeInv, TypeOK, Carrying, gate, trace, shell, run, Worker, WorkerWakes,
                WorkerClears, WorkerWrites, Quit, QuitCompletes, GoStale, GivesUp, Mishap

\* The reads and decisions of a host, which leave the gate as it is.
LEMMA DecisionType ==
  ASSUME TypeInv, NEW h \in Host,
         \/ FollowSettle(h) \/ FollowDecide(h) \/ EnqueueRead(h) \/ DrainSettle(h)
         \/ DrainDecide(h) \/ Probe(h) \/ HostCrash(h)
         \/ \E p \in Prompt, last \in BOOLEAN : FollowUp(h, p, last)
  PROVE  TypeInv'
  <1>0. host[h] \in Local /\ Carries(host[h]) /\ queue \in Seq(Item)
    BY DEF TypeInv, TypeOK, Carrying
  <1>1. host' \in [Host -> Local] /\ Carrying'
    <2>1. CASE FollowSettle(h)
      <3>1. host[h].prompt \in Prompt
        BY <1>0, <2>1 DEF FollowSettle, Settle, At, Carries, CarryPC
      <3>2. CASE CallFinalize(h, "follow_decide")
        BY <3>1, <3>2, CallType DEF RetPC
      <3>3. CASE Goto(h, "follow_decide")
        BY <3>1, <3>3, GotoType DEF HostPC
      <3> QED
        BY <2>1, <3>2, <3>3 DEF FollowSettle, Settle
    <2>2. CASE FollowDecide(h)
      <3>1. host[h].prompt \in Prompt
        BY <1>0, <2>2 DEF FollowDecide, At, Carries, CarryPC
      <3>2. Goto(h, "stage_next") \/ Goto(h, "enq_read")
        BY <2>2 DEF FollowDecide
      <3> QED
        BY <3>1, <3>2, GotoType DEF HostPC
    <2>3. CASE EnqueueRead(h)
      <3> DEFINE r == [host[h] EXCEPT !.pc = "enq_write", !.seen = queue]
      <3>1. host' = [host EXCEPT ![h] = r]
        BY <2>3 DEF EnqueueRead
      <3>2. r \in Local /\ Carries(r)
        BY <1>0, <2>3 DEF EnqueueRead, At, Local, Carries, CarryPC, HostPC
      <3> QED
        BY <3>1, <3>2, HostUpdate
    <2>4. CASE DrainSettle(h)
      <3>1. CASE CallFinalize(h, "drain_decide")
        BY <3>1, CallType DEF RetPC, CarryPC
      <3>2. CASE Goto(h, "drain_decide")
        BY <3>2, GotoType DEF HostPC, CarryPC
      <3> QED
        BY <2>4, <3>1, <3>2 DEF DrainSettle, Settle
    <2>5. CASE DrainDecide(h)
      <3> DEFINE r == [pc |-> "drain_write", ret |-> "idle", prompt |-> Head(queue).prompt,
                       last |-> Head(queue).last, seen |-> Tail(queue)]
      <3>1. CASE queue # <<>> /\ host' = [host EXCEPT ![h] = r]
        <4>1. Head(queue) \in Item /\ Tail(queue) \in Seq(Item)
          BY <1>0, <3>1, HeadTailProperties
        <4>2. r \in Local /\ Carries(r)
          BY <4>1 DEF Item, Local, Carries, HostPC, RetPC
        <4> QED
          BY <3>1, <4>2, HostUpdate
      <3>2. CASE host' = [host EXCEPT ![h] = Idle]
        BY <3>2, IdleLocal, HostUpdate
      <3> QED
        BY <2>5, <3>1, <3>2 DEF DrainDecide
    <2>6. CASE Probe(h)
      BY <2>6, CallType DEF Probe, RetPC, CarryPC
    <2>7. CASE HostCrash(h)
      BY <2>7, IdleLocal, HostUpdate DEF HostCrash
    <2>8. ASSUME NEW p \in Prompt, NEW last \in BOOLEAN, FollowUp(h, p, last)
          PROVE  host' \in [Host -> Local] /\ Carrying'
      <3> DEFINE r == [pc |-> "follow_settle", ret |-> "idle", prompt |-> p, last |-> last,
                       seen |-> <<>>]
      <3>1. CASE host' = host
        BY <3>1 DEF TypeInv, TypeOK, Carrying
      <3>2. CASE host' = [host EXCEPT ![h] = r]
        <4>1. <<>> \in Seq(Item)
          BY EmptySeq
        <4>2. r \in Local /\ Carries(r)
          BY <4>1 DEF Local, Carries, HostPC, RetPC
        <4> QED
          BY <3>2, <4>2, HostUpdate
      <3> QED
        BY <2>8, <3>1, <3>2 DEF FollowUp
    <2> QED
      BY <2>1, <2>2, <2>3, <2>4, <2>5, <2>6, <2>7, <2>8
  <1>2. /\ UNCHANGED <<gate, trace, shell, stale>>
        /\ worker' \in {worker, "dead"}
        /\ crashes' \in 0 .. MaxCrashes
        /\ used' \subseteq Prompt /\ mishaps' \subseteq Mishap
    BY ConstantsAssumption
    DEF GivesUp, Mishap, TypeInv, TypeOK, FollowSettle, FollowDecide, EnqueueRead, DrainSettle, DrainDecide,
        Probe, HostCrash, FollowUp, Settle, Background, run
  <1> QED
    BY <1>1, <1>2 DEF TypeInv, TypeOK, gate, trace, shell

\* The writes of a host.
LEMMA WriteType ==
  ASSUME TypeInv, NEW h \in Host,
         \/ FinClear(h) \/ FinWrite(h) \/ StageNext(h) \/ StageCommand(h) \/ StageFinal(h)
         \/ StageStatus(h) \/ EnqueueWrite(h) \/ DrainWrite(h) \/ Done(h) \/ DoneFinal(h)
         \/ DoneQueue(h) \/ StopContainer(h) \/ (h \in Tui /\ Drain(h))
  PROVE  TypeInv'
  <1>0. host[h] \in Local /\ Carries(host[h]) /\ <<>> \in Seq(Item)
    BY EmptySeq DEF TypeInv, TypeOK, Carrying
  <1>1. host' \in [Host -> Local] /\ Carrying' /\ queue' \in Seq(Item) /\ next' \in Prompt \cup {NoPrompt}
    <2> USE DEF HostPC
    <2>1. CASE FinClear(h)
      BY <1>0, <2>1, GotoType DEF FinClear, CarryPC
    <2>2. CASE FinWrite(h)
      <3>1. host[h].ret \in RetPC /\ (host[h].ret \in CarryPC => host[h].prompt \in Prompt)
        BY <1>0, <2>2 DEF FinWrite, At, Local, Carries
      <3> QED
        BY <2>2, <3>1, GotoType DEF FinWrite, RetPC, TypeInv, TypeOK
    <2>3. CASE StageNext(h)
      BY <1>0, <2>3, GotoType DEF StageNext, At, Carries, CarryPC, TypeInv, TypeOK
    <2>4. CASE StageCommand(h)
      BY <1>0, <2>4, GotoType DEF StageCommand, At, Carries, CarryPC, TypeInv, TypeOK
    <2>5. CASE StageFinal(h)
      BY <1>0, <2>5, GotoType DEF StageFinal, At, Carries, CarryPC, TypeInv, TypeOK
    <2>6. CASE StageStatus(h)
      BY <1>0, <2>6, GotoType DEF StageStatus, CarryPC, TypeInv, TypeOK
    <2>7. CASE EnqueueWrite(h)
      <3>1. [prompt |-> host[h].prompt, last |-> host[h].last] \in Item
        BY <1>0, <2>7 DEF EnqueueWrite, At, Local, Carries, CarryPC, Item
      <3>2. queue' \in Seq(Item)
        BY <1>0, <2>7, <3>1, AppendProperties DEF EnqueueWrite, Local
      <3> QED
        BY <2>7, <3>2, GotoType DEF EnqueueWrite, CarryPC, TypeInv, TypeOK
    <2>8. CASE DrainWrite(h)
      BY <1>0, <2>8, GotoType DEF DrainWrite, At, Local, Carries, CarryPC, TypeInv, TypeOK
    <2>9. CASE Done(h)
      BY <2>9, GotoType DEF Done, CarryPC, TypeInv, TypeOK
    <2>10. CASE DoneFinal(h)
      BY <2>10, GotoType DEF DoneFinal, CarryPC, TypeInv, TypeOK
    <2>11. CASE DoneQueue(h)
      BY <1>0, <2>11, GotoType DEF DoneQueue, CarryPC, TypeInv, TypeOK
    <2>12. CASE StopContainer(h)
      BY <2>12, CallType DEF StopContainer, RetPC, CarryPC, TypeInv, TypeOK, gate
    <2>13. CASE Drain(h)
      BY <2>13, GotoType DEF Drain, CarryPC, TypeInv, TypeOK, gate
    <2> QED
      BY <2>1, <2>2, <2>3, <2>4, <2>5, <2>6, <2>7, <2>8, <2>9, <2>10, <2>11, <2>12, <2>13
  <1>2. /\ UNCHANGED <<trace, scripted, prompt, keep, sid, interactive, shared, ran, worker, crashes, used>>
        /\ mishaps' \in {mishaps, mishaps \cup {"gave_up"}}
        /\ status' \in {status, "running", "done"}
        /\ command' \in {command, "none", "follow_up", "done"}
        /\ {final', stale'} \subseteq BOOLEAN
        /\ pc' \in EntryPC
    <2> USE DEF FinClear, FinWrite, StageNext, StageCommand, StageFinal, StageStatus,
                EnqueueWrite, DrainWrite, Done, DoneFinal, DoneQueue, StopContainer, Drain,
                Background, gate, shell, run
    <2>1. UNCHANGED <<trace, scripted, prompt, keep, sid, interactive, shared, ran, worker, crashes, used>>
          /\ mishaps' \in {mishaps, mishaps \cup {"gave_up"}}
      BY DEF GivesUp
    <2>2. status' \in {status, "running", "done"}
      OBVIOUS
    <2>3. command' \in {command, "none", "follow_up", "done"}
      OBVIOUS
    <2>4. {final', stale'} \subseteq BOOLEAN
      BY <1>0 DEF TypeInv, TypeOK, Local
    <2>5. pc' \in EntryPC
      BY DEF TypeInv, TypeOK, EntryPC, Over, Stopped
    <2> QED
      BY <2>1, <2>2, <2>3, <2>4, <2>5
  <1> QED
    BY <1>1, <1>2 DEF TypeInv, TypeOK, trace, Mishap

LEMMA NextType == TypeInv /\ [Next]_vars => TypeInv'
  <1> SUFFICES ASSUME TypeInv, [Next]_vars PROVE TypeInv'
    OBVIOUS
  <1>1. CASE UNCHANGED vars
    BY <1>1 DEF vars, gate, trace, shell, run, TypeInv, TypeOK, Carrying
  <1>2. CASE Next
    BY <1>2, ContainerType, WorkerType, DecisionType, WriteType DEF Next, HostStep, Host
  <1> QED
    BY <1>1, <1>2

\* Every variable of the gate, the shell, the hosts and the worker keeps its
\* type: in particular no host ever stages or queues an empty prompt, and the
\* scripted list is never popped below its end.
THEOREM TypeCorrect == Spec => []TypeOK
  <1>1. TypeInv => TypeOK
    BY DEF TypeInv
  <1> QED
    BY <1>1, InitType, NextType, PTL DEF Spec

-----------------------------------------------------------------------------
(* Awaiting is honest.  The status is written by the entrypoint alone, on  *)
(* its way into the poll loop, and it overwrites it before it leaves the   *)
(* loop for another turn; no host write puts it back.                      *)

\* The only write of an awaiting status is the entrypoint's own.
LEMMA AwaitingNext == AwaitingHonest /\ [Next]_vars => AwaitingHonest'
  <1> SUFFICES ASSUME AwaitingHonest, [Next]_vars PROVE AwaitingHonest'
    OBVIOUS
  <1> USE DEF AwaitingHonest, vars, gate, trace, shell, run, InTurn, Over, Stopped
  <1>1. CASE UNCHANGED vars
    BY <1>1
  <1>2. CASE Entrypoint \/ IdleTimeout
    BY <1>2 DEF Entrypoint, Launch, AfterTurn, CheckFinal, ClearCommand, Await, PollDone,
                PollFollowUp, TakeFiles, KeepFinal, Resume, IdleTimeout, FinishDone,
                FinishIdle, FinalShare, WriteStatus
  <1>3. CASE Agent
    BY <1>3 DEF Agent, AgentOpensTurn, AgentClosesTurn, AgentExits, AgentFails
  <1>4. CASE Worker \/ Quit \/ QuitCompletes \/ GoStale
    BY <1>4 DEF Worker, WorkerWakes, WorkerClears, WorkerWrites, Quit, QuitCompletes, GoStale
  <1>5. ASSUME NEW h \in Host,
               HostStep(h) \/ Probe(h) \/ Done(h) \/ HostCrash(h) \/ Drain(h)
        PROVE  AwaitingHonest'
    BY <1>5 DEF HostStep, FinClear, FinWrite, FollowSettle, FollowDecide, StageNext,
                StageCommand, StageFinal, StageStatus, EnqueueRead, EnqueueWrite, DrainSettle,
                DrainDecide, DrainWrite, DoneFinal, DoneQueue, StopContainer, Probe, Done,
                HostCrash, Drain, Settle, Background
  <1>6. ASSUME NEW h \in Host, NEW p \in Prompt, NEW last \in BOOLEAN, FollowUp(h, p, last)
        PROVE  AwaitingHonest'
    BY <1>6 DEF FollowUp, Background
  <1> QED
    BY <1>1, <1>2, <1>3, <1>4, <1>5, <1>6 DEF Next, Host

\* Whatever the hosts do, quit or crash into: while status.json says that the
\* session awaits a follow-up, the entrypoint is in its poll loop, on its way
\* out of it, or gone, and never at work on a turn.
THEOREM AwaitingIsHonest == Spec => []AwaitingHonest
  <1>1. Init => AwaitingHonest
    BY DEF Init, AwaitingHonest
  <1> QED
    BY <1>1, AwaitingNext, PTL DEF Spec

-----------------------------------------------------------------------------
(* A done gate belongs to an entrypoint that has left its loop, unless a   *)
(* host took a container that runs for gone.  The strengthening says the   *)
(* same of every process that has set out to write that status.            *)

GaveUp == "gave_up" \in mishaps

\* Whoever is about to finalize the gate found the entrypoint past its loop.
Finalizers ==
  GaveUp \/ /\ \A h \in Host : host[h].pc \in {"fin_clear", "fin_write"} => pc \in Over
            /\ worker \in {"fin_clear", "fin_write"} => pc \in Over

DoneInv == TypeInv /\ DoneMeansOver /\ Finalizers

\* What has befallen a host stays on record.
LEMMA MishapsStay == [Next]_vars => mishaps \subseteq mishaps'
  <1> SUFFICES ASSUME [Next]_vars PROVE mishaps \subseteq mishaps'
    OBVIOUS
  <1> USE DEF GivesUp, vars, gate, trace, shell, run
  <1>1. CASE UNCHANGED vars
    BY <1>1
  <1>2. CASE Entrypoint \/ IdleTimeout
    BY <1>2 DEF Entrypoint, Launch, AfterTurn, CheckFinal, ClearCommand, Await, PollDone,
                PollFollowUp, TakeFiles, KeepFinal, Resume, IdleTimeout, FinishDone,
                FinishIdle, FinalShare, WriteStatus
  <1>3. CASE Agent
    BY <1>3 DEF Agent, AgentOpensTurn, AgentClosesTurn, AgentExits, AgentFails
  <1>4. CASE Worker \/ Quit \/ QuitCompletes \/ GoStale
    BY <1>4 DEF Worker, WorkerWakes, WorkerClears, WorkerWrites, Quit, QuitCompletes, GoStale
  <1>5. ASSUME NEW h \in Host,
               HostStep(h) \/ Probe(h) \/ Done(h) \/ HostCrash(h) \/ Drain(h)
        PROVE  mishaps \subseteq mishaps'
    BY <1>5 DEF HostStep, FinClear, FinWrite, FollowSettle, FollowDecide, StageNext,
                StageCommand, StageFinal, StageStatus, EnqueueRead, EnqueueWrite, DrainSettle,
                DrainDecide, DrainWrite, DoneFinal, DoneQueue, StopContainer, Probe, Done,
                HostCrash, Drain, Settle, Background
  <1>6. ASSUME NEW h \in Host, NEW p \in Prompt, NEW last \in BOOLEAN, FollowUp(h, p, last)
        PROVE  mishaps \subseteq mishaps'
    BY <1>6 DEF FollowUp, Background
  <1> QED
    BY <1>1, <1>2, <1>3, <1>4, <1>5, <1>6 DEF Next, Host

\* The entrypoint does not come back from beyond its loop.
LEMMA OverStays ==
  ASSUME TypeOK, [Next]_vars
  PROVE  (pc \in Over => pc' \in Over) /\ (pc \in Stopped => pc' \in Stopped)
  <1> USE DEF vars, gate, trace, shell, run, InTurn, Over, Stopped
  <1>1. CASE UNCHANGED vars
    BY <1>1
  <1>2. CASE Entrypoint \/ IdleTimeout
    BY <1>2 DEF Entrypoint, Launch, AfterTurn, CheckFinal, ClearCommand, Await, PollDone,
                PollFollowUp, TakeFiles, KeepFinal, Resume, IdleTimeout, FinishDone,
                FinishIdle, FinalShare, WriteStatus
  <1>3. CASE Agent
    BY <1>3 DEF Agent, AgentOpensTurn, AgentClosesTurn, AgentExits, AgentFails
  <1>4. CASE Worker \/ Quit \/ QuitCompletes \/ GoStale
    BY <1>4 DEF Worker, WorkerWakes, WorkerClears, WorkerWrites, Quit, QuitCompletes, GoStale
  <1>5. ASSUME NEW h \in Host,
               HostStep(h) \/ Probe(h) \/ Done(h) \/ HostCrash(h) \/ Drain(h)
        PROVE  (pc \in Over => pc' \in Over) /\ (pc \in Stopped => pc' \in Stopped)
    BY <1>5 DEF HostStep, FinClear, FinWrite, FollowSettle, FollowDecide, StageNext,
                StageCommand, StageFinal, StageStatus, EnqueueRead, EnqueueWrite, DrainSettle,
                DrainDecide, DrainWrite, DoneFinal, DoneQueue, StopContainer, Probe, Done,
                HostCrash, Drain, Settle, Background
  <1>6. ASSUME NEW h \in Host, NEW p \in Prompt, NEW last \in BOOLEAN, FollowUp(h, p, last)
        PROVE  (pc \in Over => pc' \in Over) /\ (pc \in Stopped => pc' \in Stopped)
    BY <1>6 DEF FollowUp, Background
  <1> QED
    BY <1>1, <1>2, <1>3, <1>4, <1>5, <1>6 DEF Next, Host

\* A host that takes no step to finalize the gate, and has none behind it.
LEMMA PlainHostStep ==
  ASSUME DoneInv, TypeOK', NEW h \in Host, pc' = pc, ~GaveUp,
         \A g \in Host \ {h} : host'[g] = host[g],
         host'[h].pc \in {"fin_clear", "fin_write"} => pc \in Over,
         status' = "done" => status = "done" \/ pc \in Over,
         worker' \in {worker, "dead"}
  PROVE  DoneMeansOver' /\ Finalizers'
  BY DEF DoneInv, DoneMeansOver, Finalizers, GaveUp

LEMMA DoneNext ==
  ASSUME DoneInv, [Next]_vars
  PROVE  DoneInv'
  <1>1. TypeInv' /\ TypeOK /\ TypeOK'
    BY NextType DEF DoneInv, TypeInv
  <1>2. (pc \in Over => pc' \in Over) /\ mishaps \subseteq mishaps'
    BY <1>1, OverStays, MishapsStay
  <1> SUFFICES ASSUME ~GaveUp' PROVE DoneMeansOver' /\ Finalizers'
    BY <1>1 DEF DoneInv, DoneMeansOver, Finalizers, GaveUp
  <1>0. ~GaveUp /\ (GivesUp => pc \in Over)
    BY <1>2 DEF GaveUp, GivesUp
  <1>g. /\ status = "done" => pc \in Over
        /\ \A h \in Host : host[h].pc \in {"fin_clear", "fin_write"} => pc \in Over
        /\ worker \in {"fin_clear", "fin_write"} => pc \in Over
    BY <1>0 DEF DoneInv, DoneMeansOver, Finalizers, GaveUp
  <1>3. CASE UNCHANGED vars
    BY <1>3, <1>g DEF vars, gate, trace, shell, run, DoneMeansOver, Finalizers
  <1>4. CASE Entrypoint \/ IdleTimeout \/ Agent
    <2>1. UNCHANGED <<host, worker>>
      BY <1>4
      DEF Entrypoint, Launch, AfterTurn, CheckFinal, ClearCommand, Await, PollDone,
          PollFollowUp, TakeFiles, KeepFinal, Resume, IdleTimeout, FinishDone, FinishIdle,
          FinalShare, WriteStatus, Agent, AgentOpensTurn, AgentClosesTurn, AgentExits,
          AgentFails, run
    <2>2. status' = "done" => status = "done" \/ pc \in Over
      BY <1>4
      DEF Entrypoint, Launch, AfterTurn, CheckFinal, ClearCommand, Await, PollDone,
          PollFollowUp, TakeFiles, KeepFinal, Resume, IdleTimeout, FinishDone, FinishIdle,
          FinalShare, WriteStatus, Agent, AgentOpensTurn, AgentClosesTurn, AgentExits,
          AgentFails, gate, Over
    <2> QED
      BY <1>2, <1>g, <2>1, <2>2 DEF DoneMeansOver, Finalizers
  <1>5. CASE Worker \/ Quit \/ QuitCompletes \/ GoStale
    <2>1. UNCHANGED <<pc, host>>
      BY <1>5 DEF Worker, WorkerWakes, WorkerClears, WorkerWrites, Quit, QuitCompletes,
                  GoStale, shell, run
    <2>2. worker' \in {"fin_clear", "fin_write"} => pc \in Over
      BY <1>0, <1>5, <1>g DEF Worker, WorkerWakes, WorkerClears, WorkerWrites, Quit, QuitCompletes,
                  GoStale, run
    <2>3. status' = "done" => status = "done" \/ pc \in Over
      BY <1>5, <1>g DEF Worker, WorkerWakes, WorkerClears, WorkerWrites, Quit, QuitCompletes,
                  GoStale, gate
    <2> QED
      BY <1>g, <2>1, <2>2, <2>3 DEF DoneMeansOver, Finalizers
  <1>6. ASSUME NEW h \in Host, StopContainer(h)
        PROVE  DoneMeansOver' /\ Finalizers'
    <2>1. pc' \in Over
      BY <1>0, <1>2, <1>6 DEF StopContainer, Stopped, Over
    <2> QED
      BY <2>1 DEF DoneMeansOver, Finalizers
  <1>7. ASSUME NEW h \in Host,
               FollowSettle(h) \/ DrainSettle(h) \/ Probe(h)
        PROVE  DoneMeansOver' /\ Finalizers'
    <2>1. NeedsSettle => pc \in Over
      BY <1>0, <1>7, <1>g DEF FollowSettle, DrainSettle, Probe, Settle, NeedsSettle
    <2>2. UNCHANGED <<pc, status, worker>>
      BY <1>7 DEF FollowSettle, DrainSettle, Probe, Settle, gate, shell
    <2>3. /\ \A g \in Host \ {h} : host'[g] = host[g]
          /\ host'[h].pc \in {"fin_clear", "fin_write"} => NeedsSettle
      BY <1>1, <1>7 DEF FollowSettle, DrainSettle, Probe, Settle, CallFinalize, Goto, At,
                        TypeOK, Local, Idle
    <2> QED
      BY <1>0, <1>1, <2>1, <2>2, <2>3, PlainHostStep
  <1>8. ASSUME NEW h \in Host,
               \/ FinClear(h) \/ FinWrite(h) \/ FollowDecide(h) \/ StageNext(h)
               \/ StageCommand(h) \/ StageFinal(h) \/ StageStatus(h) \/ EnqueueRead(h)
               \/ EnqueueWrite(h) \/ DrainDecide(h) \/ DrainWrite(h) \/ Done(h)
               \/ DoneFinal(h) \/ DoneQueue(h) \/ HostCrash(h) \/ Drain(h)
               \/ \E p \in Prompt, last \in BOOLEAN : FollowUp(h, p, last)
        PROVE  DoneMeansOver' /\ Finalizers'
    <2> USE DEF FinClear, FinWrite, FollowDecide, StageNext, StageCommand, StageFinal,
                StageStatus, EnqueueRead, EnqueueWrite, DrainDecide, DrainWrite, Done,
                DoneFinal, DoneQueue, HostCrash, Drain, FollowUp
    <2>1. pc' = pc /\ worker' \in {worker, "dead"}
      BY <1>8 DEF Background, shell, run
    <2>2. \A g \in Host \ {h} : host'[g] = host[g]
      BY <1>1, <1>8 DEF Goto, TypeOK
    <2>3. host'[h].pc \in {"fin_clear", "fin_write"} => At(h, "fin_clear") \/ At(h, "fin_write")
      BY <1>1, <1>8 DEF Goto, TypeOK, Local, RetPC, Idle, At
    <2>4. status' = "done" => status = "done" \/ At(h, "fin_write")
      BY <1>8 DEF gate
    <2> QED
      BY <1>0, <1>1, <1>g, <2>1, <2>2, <2>3, <2>4, PlainHostStep DEF At
  <1> QED
    BY <1>3, <1>4, <1>5, <1>6, <1>7, <1>8 DEF Next, HostStep, Host

\* For any hosts, with crashes, quits, stops that fail and gates that grow old
\* under a container that runs: a gate that says done belongs to an entrypoint
\* that never reads it again, or some host has given up on a container that ran.
\* There is no other way to such a gate: no race of the hosts' file accesses with
\* each other or with the entrypoint's loop leads to one.
THEOREM DoneIsOver == Spec => []DoneMeansOver
  <1>1. Init => DoneInv
    <2>1. ASSUME Init PROVE DoneMeansOver /\ Finalizers
      BY <2>1 DEF Init, DoneMeansOver, Finalizers, Idle
    <2> QED
      BY <2>1, InitType DEF DoneInv
  <1>2. DoneInv /\ [Next]_vars => DoneInv'
    BY DoneNext
  <1>3. DoneInv => DoneMeansOver
    BY DEF DoneInv
  <1> QED
    BY <1>1, <1>2, <1>3, PTL DEF Spec

\* A step of one host leaves the places of the others.
LEMMA OthersStay ==
  ASSUME TypeOK, NEW h \in Host,
         \/ HostStep(h) \/ Probe(h) \/ Done(h) \/ HostCrash(h) \/ Drain(h)
         \/ \E p \in Prompt, last \in BOOLEAN : FollowUp(h, p, last)
  PROVE  \A g \in Host \ {h} : host'[g] = host[g]
  <1>1. host \in [Host -> Local]
    BY DEF TypeOK
  <1>2. ASSUME NEW r, host' = [host EXCEPT ![h] = r]
        PROVE  \A g \in Host \ {h} : host'[g] = host[g]
    BY <1>1, <1>2
  <1>3. ASSUME NEW to, Goto(h, to) PROVE \A g \in Host \ {h} : host'[g] = host[g]
    BY <1>1, <1>3 DEF Goto
  <1>4. ASSUME NEW to, CallFinalize(h, to) PROVE \A g \in Host \ {h} : host'[g] = host[g]
    BY <1>1, <1>4 DEF CallFinalize
  <1>5. CASE HostStep(h)
    <2>1. \/ EnqueueRead(h) \/ DrainDecide(h)
          \/ \E to : Goto(h, to) \/ CallFinalize(h, to)
      BY <1>5 DEF HostStep, FinClear, FinWrite, FollowSettle, FollowDecide, StageNext,
                  StageCommand, StageFinal, StageStatus, EnqueueWrite, DrainSettle,
                  DrainWrite, DoneFinal, DoneQueue, StopContainer, Settle
    <2>2. CASE EnqueueRead(h) \/ DrainDecide(h)
      BY <1>1, <2>2 DEF EnqueueRead, DrainDecide
    <2> QED
      BY <1>3, <1>4, <2>1, <2>2
  <1>6. CASE Probe(h) \/ Done(h) \/ Drain(h)
    BY <1>3, <1>4, <1>6 DEF Probe, Done, Drain
  <1>7. CASE HostCrash(h)
    BY <1>1, <1>7 DEF HostCrash
  <1>8. CASE \E p \in Prompt, last \in BOOLEAN : FollowUp(h, p, last)
    BY <1>1, <1>8 DEF FollowUp
  <1> QED
    BY <1>5, <1>6, <1>7, <1>8

-----------------------------------------------------------------------------
(* With one terminal app the gate implements InteractiveSession until      *)
(* something befalls the app.                                              *)

\* No control owner, and no second app, works the gate.
OneApp == Tui = {Launcher} /\ Control = {}

\* Whose Done it is still has the container to stop, or it is over.
DoneKept == command = "done" => pc \in Over \/ Closing

\* No step of a host but those of Done ends its closing.
LEMMA DoneKeptNext ==
  ASSUME Control = {}, mishaps' = {}, TypeInv, DoneKept, [Next]_vars
  PROVE  DoneKept'
  <1>0. TypeOK /\ TypeOK' /\ (pc \in Over => pc' \in Over)
    BY NextType, OverStays DEF TypeInv
  <1>1. CASE UNCHANGED vars
    BY <1>1 DEF vars, gate, shell, DoneKept, Closing
  <1>2. CASE Entrypoint \/ IdleTimeout \/ Agent
    <2>1. host' = host /\ command' \in {command, "none"}
      BY <1>2
      DEF Entrypoint, Launch, AfterTurn, CheckFinal, ClearCommand, Await, PollDone,
          PollFollowUp, TakeFiles, KeepFinal, Resume, IdleTimeout, FinishDone, FinishIdle,
          FinalShare, WriteStatus, Agent, AgentOpensTurn, AgentClosesTurn, AgentExits,
          AgentFails, gate
    <2> QED
      BY <1>0, <2>1 DEF DoneKept, Closing
  <1>3. CASE Worker \/ Quit \/ QuitCompletes \/ GoStale
    <2>1. host' = host /\ command' \in {command, "none"}
      BY <1>3 DEF Worker, WorkerWakes, WorkerClears, WorkerWrites, Quit, QuitCompletes,
                  GoStale, gate
    <2> QED
      BY <1>0, <2>1 DEF DoneKept, Closing
  <1>4. ASSUME NEW h \in Host, Done(h) \/ DoneFinal(h) \/ DoneQueue(h) PROVE DoneKept'
    <2>1. h \in Tui
      BY DEF Host
    <2>2. host[h] \in Local
      BY <1>0 DEF TypeOK
    <2>3. host'[h].pc \in {"done_final", "done_queue", "stop"}
      BY <1>0, <1>4, <2>1, <2>2 DEF Done, DoneFinal, DoneQueue, Goto, TypeOK, Local
    <2> QED
      BY <2>3 DEF DoneKept, Closing
  <1>5. ASSUME NEW h \in Host, StopContainer(h) PROVE DoneKept'
    <2>1. pc' \in Over
      BY <1>0, <1>5 DEF StopContainer, GivesUp, Over, Stopped
    <2> QED
      BY <2>1 DEF DoneKept
  <1>6. ASSUME NEW h \in Host,
               \/ FinClear(h) \/ FinWrite(h) \/ FollowSettle(h) \/ FollowDecide(h)
               \/ StageNext(h) \/ StageCommand(h) \/ StageFinal(h) \/ StageStatus(h)
               \/ EnqueueRead(h) \/ EnqueueWrite(h) \/ DrainSettle(h) \/ DrainDecide(h)
               \/ DrainWrite(h) \/ Probe(h) \/ Drain(h)
               \/ \E p \in Prompt, last \in BOOLEAN : FollowUp(h, p, last)
        PROVE  DoneKept'
    <2> USE DEF FinClear, FinWrite, FollowSettle, FollowDecide, StageNext, StageCommand,
                StageFinal, StageStatus, EnqueueRead, EnqueueWrite, DrainSettle, DrainDecide,
                DrainWrite, Probe, Drain, FollowUp, Settle
    <2>1. command' \in {command, "none", "follow_up"}
      BY <1>6 DEF gate
    <2>2. host[h].pc \notin {"done_final", "done_queue", "stop"}
      BY <1>6 DEF At
    <2>3. \A g \in Host \ {h} : host'[g] = host[g]
      BY <1>0, <1>6, OthersStay DEF HostStep
    <2> QED
      BY <1>0, <2>1, <2>2, <2>3 DEF DoneKept, Closing
  <1>7. ASSUME NEW h \in Host, HostCrash(h) PROVE FALSE
    BY <1>7 DEF HostCrash
  <1> QED
    BY <1>1, <1>2, <1>3, <1>4, <1>5, <1>6, <1>7 DEF Next, HostStep, Host

App == host[Launcher]

\* The session still takes prompts.
Open == pc \notin Over /\ ~Closing

Staging == {"stage_final", "stage_status"}

\* The prompt's file and the command are there between a staging and the taking
\* of it, which happens in the poll loop.
Files ==
  /\ command # "done"
  /\ pc \notin {"poll", "take"} => next = NoPrompt /\ command = "none"
  /\ pc = "poll" => (next # NoPrompt <=> command = "follow_up" \/ App.pc = "stage_command")
  /\ pc = "take" => next = prompt /\ prompt \in Prompt

\* The app stages only what the poll loop waits for, and is done with it when
\* the turn ends.
StagedInPoll ==
  /\ App.pc \in {"drain_write", "stage_next", "stage_command"} =>
       pc = "poll" /\ command = "none" /\ ~final
  /\ App.pc = "stage_command" => next = App.prompt
  /\ App.pc = "stage_final" => ~final /\ (pc = "poll" => command = "follow_up")
  /\ App.pc \in Staging =>
       pc \in {"poll", "take", "keep", "resume", "launch", "launched", "turn"}

\* The marker of the last turn is of the prompt in hand or of the staged one.
Marker ==
  /\ keep => final
  /\ pc \in {"clear", "await"} => ~final
  /\ pc = "poll" /\ final => command = "follow_up"

AwaitsInPoll ==
  status = "awaiting_follow_up" =>
    /\ pc \in {"poll", "take", "keep", "resume"}
    /\ pc # "poll" \/ command = "follow_up" => App.pc \in Staging

\* Follow-ups come after the scripted turns.
ScriptFirst ==
  prompt \in Prompt \/ pc \in {"check_final", "clear", "await", "poll", "take", "keep", "resume"}
    => scripted = 0

\* A prompt that the app carries to the gate or to the queue is nowhere else.
FreshPC == {"follow_settle", "follow_decide", "stage_next", "enq_read", "enq_write"}

Once ==
  /\ ran \subseteq used
  /\ \A i \in DOMAIN queue : queue[i].prompt \in used \ ran /\ queue[i].prompt # next
  /\ \A i, j \in DOMAIN queue : queue[i].prompt = queue[j].prompt => i = j
  /\ next \in Prompt => next \in used /\ (pc # "take" => next \notin ran)
  /\ App.pc \in FreshPC =>
       /\ App.prompt \in used \ ran /\ App.prompt # next
       /\ \A i \in DOMAIN queue : queue[i].prompt # App.prompt

\* The queue that the app has read is still the queue.
SeenStands ==
  /\ App.pc = "enq_write" => App.seen = queue
  /\ App.pc = "drain_write" =>
       /\ queue # <<>> /\ App.seen = Tail(queue)
       /\ Head(queue) = [prompt |-> App.prompt, last |-> App.last]

SessionInv ==
  /\ Closing /\ pc \notin Over => command # "follow_up"
  /\ Open => Files /\ StagedInPoll /\ Marker /\ AwaitsInPoll /\ ScriptFirst /\ Once /\ SeenStands

PromiseInv == mishaps = {} /\ DoneInv /\ DoneKept /\ SessionInv

\* The session is as it should be, or something has befallen the app.
UnlessMishap == DoneInv /\ (mishaps = {} => PromiseInv)

LEMMA OneHost ==
  ASSUME OneApp, PromiseInv
  PROVE  /\ Host = {Launcher} /\ Launcher \in Tui /\ TypeOK /\ App \in Local
         /\ Closing <=> App.pc \in {"done_final", "done_queue", "stop"}
         /\ Open => /\ App.pc \notin {"fin_clear", "fin_write"} /\ command # "done"
                    /\ status # "done"
                    /\ worker \notin {"fin_clear", "fin_write"}
                    /\ pc \notin Stopped
  <1>1. Host = {Launcher} /\ Launcher \in Tui
    BY DEF OneApp, Host
  <1>2. TypeOK /\ App \in Local
    BY <1>1 DEF PromiseInv, DoneInv, TypeInv, TypeOK, App
  <1>3. Closing <=> App.pc \in {"done_final", "done_queue", "stop"}
    BY <1>1 DEF Closing, App
  <1>4. ASSUME Open
        PROVE  /\ App.pc \notin {"fin_clear", "fin_write"} /\ command # "done"
               /\ status # "done"
               /\ worker \notin {"fin_clear", "fin_write"}
               /\ pc \notin Stopped
    BY <1>1, <1>4 DEF Open, PromiseInv, DoneInv, DoneKept, DoneMeansOver, Finalizers,
                      GaveUp, App, Over
  <1> QED
    BY <1>1, <1>2, <1>3, <1>4

\* While the session is open, whoever settles its gate gives up on it.
LEMMA SettlesNothing ==
  ASSUME OneApp, PromiseInv, mishaps' = {}, Open, NEW h \in Host,
         FollowSettle(h) \/ DrainSettle(h) \/ Probe(h)
  PROVE  ~NeedsSettle
  BY OneHost DEF FollowSettle, DrainSettle, Probe, Settle, NeedsSettle, GivesUp, Open

\* The container's steps: the app's record stays, the queue too.
LEMMA ContainerKeepsSession ==
  ASSUME OneApp, PromiseInv, mishaps' = {}, TypeOK', Entrypoint \/ IdleTimeout \/ Agent, pc' \notin Over
  PROVE  SessionInv'
  <1>0. /\ Host = {Launcher} /\ TypeOK /\ SessionInv /\ pc \notin Over
        /\ Open => command # "done"
    BY OneHost, OverStays DEF PromiseInv, Next
  <1>1. /\ UNCHANGED <<host, queue, used>> /\ command' \in {command, "none"}
        /\ App' = App /\ Closing' = Closing /\ (Open' => Open)
    BY <1>0
    DEF Entrypoint, Launch, AfterTurn, CheckFinal, ClearCommand, Await, PollDone,
        PollFollowUp, TakeFiles, KeepFinal, Resume, IdleTimeout, FinishDone, FinishIdle,
        FinalShare, WriteStatus, Agent, AgentOpensTurn, AgentClosesTurn, AgentExits,
        AgentFails, gate, App, Closing, Open
  <1> SUFFICES ASSUME Open, Open'
               PROVE  (Files /\ StagedInPoll /\ Marker /\ AwaitsInPoll /\ ScriptFirst /\ Once /\ SeenStands)'
    BY <1>0, <1>1 DEF SessionInv
  <1>2. Files /\ StagedInPoll /\ Marker /\ AwaitsInPoll /\ ScriptFirst /\ Once /\ SeenStands
    BY <1>0 DEF SessionInv
  <1>3. SeenStands'
    BY <1>1, <1>2 DEF SeenStands
  <1>4. Files' /\ StagedInPoll' /\ Marker' /\ AwaitsInPoll' /\ ScriptFirst'
    <2> USE <1>0, <1>1, <1>2 DEF Files, StagedInPoll, Marker, AwaitsInPoll, ScriptFirst, Staging,
              gate, trace, shell, InTurn, Over, Stopped
    <2>1. CASE Launch        BY <2>1 DEF Launch
    <2>2. CASE AfterTurn     BY <2>2, ConstantsAssumption DEF AfterTurn
    <2>3. CASE CheckFinal    BY <2>3 DEF CheckFinal
    <2>4. CASE ClearCommand  BY <2>4 DEF ClearCommand
    <2>5. CASE Await         BY <2>5 DEF Await, WriteStatus
    <2>6. CASE PollDone      BY <2>6 DEF PollDone
    <2>7. CASE PollFollowUp  BY <2>7 DEF PollFollowUp, Staged, TypeOK
    <2>8. CASE TakeFiles     BY <2>8 DEF TakeFiles
    <2>9. CASE KeepFinal     BY <2>9 DEF KeepFinal
    <2>10. CASE Resume       BY <2>10 DEF Resume, WriteStatus
    <2>11. CASE IdleTimeout  BY <2>11 DEF IdleTimeout
    <2>12. CASE FinishDone \/ FinishIdle \/ FinalShare
      BY <2>12 DEF FinishDone, FinishIdle, FinalShare, WriteStatus
    <2>13. CASE AgentOpensTurn \/ AgentExits \/ AgentFails
      BY <2>13 DEF AgentOpensTurn, AgentExits, AgentFails
    <2>14. CASE AgentClosesTurn
      <3>1. App.pc = "idle"
        BY <1>0, <2>14 DEF AgentClosesTurn, App
      <3> QED
        BY <2>14, <3>1 DEF AgentClosesTurn
    <2> QED
      BY <2>1, <2>2, <2>3, <2>4, <2>5, <2>6, <2>7, <2>8, <2>9, <2>10, <2>11, <2>12, <2>13,
         <2>14 DEF Entrypoint, Agent
  <1>5. Once'
    <2>1. CASE PollFollowUp
      <3>1. /\ next' = next /\ ran' = ran \cup {next} /\ pc' = "take" /\ next \in Prompt
            /\ pc = "poll"
        BY <1>0, <2>1 DEF PollFollowUp, Staged, gate, TypeOK
      <3>2. next \notin {queue[i].prompt : i \in DOMAIN queue}
        BY <1>2 DEF Once
      <3> QED
        BY <1>1, <1>2, <3>1, <3>2 DEF Once
    <2>2. CASE TakeFiles \/ ClearCommand \/ CheckFinal
      <3>1. next' \in {NoPrompt, next} /\ ran' = ran /\ (pc = "take" => next' = NoPrompt)
        BY <2>2 DEF TakeFiles, ClearCommand, CheckFinal
      <3>2. NoPrompt \notin Prompt
        BY ConstantsAssumption
      <3>3. next' = NoPrompt => \A i \in DOMAIN queue : queue[i].prompt # next'
        BY <1>0, <1>2, <3>2 DEF TypeOK, Once
      <3>4. next' = NoPrompt /\ App.pc \in FreshPC => App.prompt # next'
        BY <1>0, <1>2, <3>2 DEF Once, TypeOK
      <3> QED
        BY <1>1, <1>2, <3>1, <3>2, <3>3, <3>4 DEF Once
    <2>3. CASE ~PollFollowUp /\ ~TakeFiles /\ ~ClearCommand /\ ~CheckFinal
      <3>1. next' = next /\ ran' = ran /\ pc # "take"
        BY <2>3
        DEF Entrypoint, Launch, AfterTurn, Await, PollDone, Resume, IdleTimeout, FinishDone,
            KeepFinal, FinishIdle, FinalShare, WriteStatus, Agent, AgentOpensTurn, AgentClosesTurn,
            AgentExits, AgentFails, gate, InTurn
      <3> QED
        BY <1>1, <1>2, <3>1 DEF Once
    <2> QED
      BY <2>1, <2>2, <2>3
  <1> QED
    BY <1>3, <1>4, <1>5

\* The worker wakes when the container has stopped or the app has quit.
LEMMA WorkerKeepsSession ==
  ASSUME OneApp, PromiseInv, Worker \/ Quit \/ QuitCompletes \/ GoStale, pc' \notin Over
  PROVE  SessionInv' /\ UNCHANGED <<gate, shell, host, used>>
  <1>0. Host = {Launcher} /\ SessionInv /\ worker \notin {"fin_clear", "fin_write"} /\ pc \notin Stopped
    <2>1. pc' = pc
      BY DEF Worker, WorkerWakes, WorkerClears, WorkerWrites, Quit, QuitCompletes, GoStale, shell
    <2>2. pc \notin Stopped
      BY <2>1 DEF Over
    <2> QED
      BY <2>1, <2>2, OneHost DEF PromiseInv, DoneInv, Finalizers, GaveUp
  <1>1. UNCHANGED <<gate, shell, host, used>>
    BY <1>0 DEF Worker, WorkerWakes, WorkerClears, WorkerWrites, Quit, QuitCompletes, GoStale
  <1> QED
    BY <1>0, <1>1 DEF SessionInv, Open, Closing, App, Files, StagedInPoll, Marker, AwaitsInPoll,
                      ScriptFirst, Once, SeenStands, gate, shell

\* What the places of the app mean after a step of it.
LEMMA AppMoves ==
  ASSUME OneApp, PromiseInv
  PROVE  /\ \A to : Goto(Launcher, to) =>
              IF to = "idle" THEN App' = Idle
              ELSE /\ App'.pc = to /\ App'.prompt = App.prompt /\ App'.last = App.last
                   /\ App'.seen = App.seen
         /\ \A r : host' = [host EXCEPT ![Launcher] = r] => App' = r
  <1>1. host \in [{Launcher} -> Local] /\ App \in Local
    BY OneHost DEF TypeOK
  <1> QED
    BY <1>1 DEF Goto, App, Local

LEMMA AppReads ==
  ASSUME OneApp, PromiseInv, EnqueueRead(Launcher)
  PROVE  App' = [App EXCEPT !.pc = "enq_write", !.seen = queue]
  <1> DEFINE r == [host[Launcher] EXCEPT !.pc = "enq_write", !.seen = queue]
  <1>1. host \in [{Launcher} -> Local]
    BY OneHost DEF TypeOK
  <1>2. host' = [host EXCEPT ![Launcher] = r]
    BY <1>1 DEF EnqueueRead
  <1>3. r = [App EXCEPT !.pc = "enq_write", !.seen = queue]
    BY DEF App
  <1> HIDE DEF r
  <1>4. App' = r
    BY <1>2, AppMoves
  <1> QED
    BY <1>3, <1>4

\* The app's steps between its decision to send a prompt and the file writes.
LEMMA DecisionKeepsSession ==
  ASSUME OneApp, PromiseInv, mishaps' = {}, TypeOK', pc \notin Over,
         \/ FollowSettle(Launcher) \/ FollowDecide(Launcher) \/ EnqueueRead(Launcher)
         \/ DrainSettle(Launcher) \/ DrainDecide(Launcher) \/ Drain(Launcher)
         \/ \E p \in Prompt, last \in BOOLEAN : FollowUp(Launcher, p, last)
  PROVE  SessionInv'
  <1> DEFINE h == Launcher
  <1>0. /\ Host = {Launcher} /\ TypeOK /\ App \in Local /\ SessionInv
        /\ Closing <=> App.pc \in {"done_final", "done_queue", "stop"}
        /\ Closing' <=> App'.pc \in {"done_final", "done_queue", "stop"}
        /\ Open => command # "done"
    BY OneHost DEF PromiseInv, Closing, App
  <1>1. UNCHANGED <<gate, trace, shell>>
    BY DEF FollowSettle, FollowDecide, EnqueueRead, DrainSettle, DrainDecide, Drain, FollowUp,
           Settle, Background
  <1>2. Open
    <2>1. App.pc \notin {"done_final", "done_queue", "stop"}
      BY DEF FollowSettle, FollowDecide, EnqueueRead, DrainSettle, DrainDecide, Drain, FollowUp,
             Settle, At, App
    <2> QED
      BY <1>0, <2>1 DEF Open
  <1>3. Files /\ StagedInPoll /\ Marker /\ AwaitsInPoll /\ ScriptFirst /\ Once /\ SeenStands
    BY <1>0, <1>2 DEF SessionInv
  <1> USE DEF gate, trace, shell
  <1>4. ASSUME used' = used, App'.pc \notin {"drain_write", "stage_next", "stage_command", "stage_final",
                                             "stage_status", "enq_write"},
               App.pc \notin {"stage_command", "stage_final", "stage_status"},
               App'.pc \in FreshPC => App.pc \in FreshPC /\ App'.prompt = App.prompt
        PROVE  Files' /\ StagedInPoll' /\ Marker' /\ AwaitsInPoll' /\ ScriptFirst' /\ Once' /\ SeenStands'
    <2>1. Files' /\ StagedInPoll' /\ Marker' /\ AwaitsInPoll' /\ ScriptFirst' /\ SeenStands'
      BY <1>1, <1>3, <1>4 DEF Files, StagedInPoll, Marker, AwaitsInPoll, ScriptFirst, Staging, SeenStands
    <2>2. Once'
      BY <1>1, <1>3, <1>4 DEF Once
    <2> QED
      BY <2>1, <2>2
  <1>n. ~Closing'
    <2>1. App'.pc \notin {"done_final", "done_queue", "stop"}
      <3>1. CASE FollowSettle(h) \/ DrainSettle(h)
        BY <1>0, <1>2, <3>1, SettlesNothing, AppMoves DEF FollowSettle, DrainSettle, Settle
      <3>2. CASE EnqueueRead(h)
        BY <1>0, <3>2, AppMoves DEF EnqueueRead, App, Local
      <3>3. CASE FollowDecide(h) \/ Drain(h)
        BY <3>3, AppMoves DEF FollowDecide, Drain
      <3>4. CASE DrainDecide(h)
        <4>1. CASE host' = [host EXCEPT ![h] = Idle]
          <5>1. App' = Idle
            BY <4>1, AppMoves
          <5> QED
            BY <5>1 DEF Idle
        <4>2. CASE host' = [host EXCEPT ![h] = [pc |-> "drain_write", ret |-> "idle",
                                       prompt |-> Head(queue).prompt,
                                       last |-> Head(queue).last, seen |-> Tail(queue)]]
          <5> DEFINE r == [pc |-> "drain_write", ret |-> "idle", prompt |-> Head(queue).prompt,
                           last |-> Head(queue).last, seen |-> Tail(queue)]
          <5>1. host' = [host EXCEPT ![h] = r] /\ r.pc = "drain_write"
            BY <4>2
          <5> HIDE DEF r
          <5> QED
            BY <5>1, AppMoves
        <4> QED
          BY <3>4, <4>1, <4>2 DEF DrainDecide
      <3>5. ASSUME NEW p \in Prompt, NEW last \in BOOLEAN, FollowUp(h, p, last)
            PROVE  App'.pc \notin {"done_final", "done_queue", "stop"}
        <4> DEFINE r == [pc |-> "follow_settle", ret |-> "idle", prompt |-> p, last |-> last,
                         seen |-> <<>>]
        <4>1. host' = [host EXCEPT ![h] = r] /\ r.pc = "follow_settle"
          BY <1>0, <1>2, <3>5 DEF FollowUp
        <4> HIDE DEF r
        <4> QED
          BY <4>1, AppMoves
      <3> QED
        BY <3>1, <3>2, <3>3, <3>4, <3>5
    <2> QED
      BY <1>0, <2>1
  <1> DEFINE Goal == Files' /\ StagedInPoll' /\ Marker' /\ AwaitsInPoll' /\ ScriptFirst' /\ Once' /\ SeenStands'
  <1> SUFFICES Goal
    BY <1>n DEF SessionInv
  <1>5. CASE FollowSettle(h) \/ DrainSettle(h)
    <2>1. \/ App.pc = "follow_settle" /\ Goto(h, "follow_decide")
          \/ App.pc = "drain_settle" /\ Goto(h, "drain_decide")
      BY <1>0, <1>2, <1>5, SettlesNothing DEF FollowSettle, DrainSettle, Settle, At, App
    <2>2. used' = used
      BY <1>5 DEF FollowSettle, DrainSettle, Settle
    <2> QED
      BY <1>4, <2>1, <2>2, AppMoves DEF FreshPC
  <1>6. CASE EnqueueRead(h)
    <2>1. App' = [App EXCEPT !.pc = "enq_write", !.seen = queue] /\ used' = used
          /\ App.pc = "enq_read"
      BY <1>6, AppReads DEF EnqueueRead, At, App
    <2>2. App'.pc = "enq_write" /\ App'.prompt = App.prompt /\ App'.seen = queue
      BY <1>0, <2>1 DEF Local
    <2>3. Files' /\ StagedInPoll' /\ Marker' /\ AwaitsInPoll' /\ ScriptFirst' /\ SeenStands'
      BY <1>1, <1>3, <2>1, <2>2 DEF Files, StagedInPoll, Marker, AwaitsInPoll, ScriptFirst, Staging, SeenStands
    <2>4. Once'
      BY <1>1, <1>3, <2>1, <2>2 DEF Once, FreshPC
    <2> QED
      BY <2>3, <2>4
  <1>7. CASE Drain(h)
    <2>1. App.pc = "idle" /\ App'.pc = "drain_settle" /\ used' = used
      BY <1>7, AppMoves DEF Drain, At, App
    <2> QED
      BY <1>4, <2>1 DEF FreshPC
  <1>8. ASSUME Awaits, ~Staged, App.pc \in {"follow_decide", "drain_decide"}
        PROVE  pc = "poll" /\ next = NoPrompt /\ command = "none" /\ ~final
    <2>1. command \in {"none", "follow_up"} /\ status = "awaiting_follow_up"
      BY <1>0, <1>2, <1>8 DEF Awaits, TypeOK
    <2>2. pc = "poll" /\ command # "follow_up"
      BY <1>3, <1>8, <2>1 DEF AwaitsInPoll, Staging
    <2> QED
      BY <1>3, <1>8, <2>1, <2>2 DEF Files, Marker
  <1>9. CASE FollowDecide(h)
    <2>1. App.pc = "follow_decide" /\ used' = used
      BY <1>9 DEF FollowDecide, At, App
    <2>2. CASE Goto(h, "enq_read")
      <3>1. App'.pc = "enq_read" /\ App'.prompt = App.prompt
        BY <2>2, AppMoves
      <3> QED
        BY <1>4, <2>1, <3>1 DEF FreshPC
    <2>3. CASE Awaits /\ ~Staged /\ Goto(h, "stage_next")
      <3>1. App'.pc = "stage_next" /\ App'.prompt = App.prompt
        BY <2>3, AppMoves
      <3>2. pc = "poll" /\ next = NoPrompt /\ command = "none" /\ ~final
        BY <1>8, <2>1, <2>3
      <3>3. Files' /\ StagedInPoll' /\ Marker' /\ AwaitsInPoll' /\ ScriptFirst' /\ SeenStands'
        BY <1>1, <1>3, <2>1, <3>1, <3>2
        DEF Files, StagedInPoll, Marker, AwaitsInPoll, ScriptFirst, Staging, SeenStands
      <3>4. Once'
        BY <1>1, <1>3, <2>1, <3>1 DEF Once, FreshPC
      <3> QED
        BY <3>3, <3>4
    <2> QED
      BY <1>9, <2>2, <2>3 DEF FollowDecide
  <1>10. CASE DrainDecide(h)
    <2>1. App.pc = "drain_decide" /\ used' = used
      BY <1>10 DEF DrainDecide, At, App
    <2>2. CASE host' = [host EXCEPT ![h] = Idle]
      <3>1. App'.pc = "idle"
        <4>1. App' = Idle
          BY <2>2, AppMoves
        <4> QED
          BY <4>1 DEF Idle
      <3> QED
        BY <1>4, <2>1, <3>1 DEF FreshPC
    <2>3. CASE /\ Awaits /\ ~Staged /\ queue # <<>>
               /\ host' = [host EXCEPT ![h] = [pc |-> "drain_write", ret |-> "idle",
                                       prompt |-> Head(queue).prompt,
                                       last |-> Head(queue).last, seen |-> Tail(queue)]]
      <3>1. App' = [pc |-> "drain_write", ret |-> "idle", prompt |-> Head(queue).prompt,
                    last |-> Head(queue).last, seen |-> Tail(queue)]
        BY <2>3, AppMoves
      <3>2. App'.pc = "drain_write" /\ App'.prompt = Head(queue).prompt
            /\ App'.last = Head(queue).last /\ App'.seen = Tail(queue)
        BY <3>1
      <3>3. pc = "poll" /\ next = NoPrompt /\ command = "none" /\ ~final
        BY <1>8, <2>1, <2>3
      <3>4. Files' /\ StagedInPoll' /\ Marker' /\ AwaitsInPoll' /\ ScriptFirst'
        BY <1>1, <1>3, <2>1, <3>2, <3>3
        DEF Files, StagedInPoll, Marker, AwaitsInPoll, ScriptFirst, Staging
      <3>5. SeenStands'
        <4>1. Head(queue) \in Item
          BY <1>0, <2>3, HeadTailProperties DEF TypeOK
        <4> QED
          BY <1>1, <2>3, <3>2, <4>1 DEF SeenStands, Item
      <3>6. Once'
        BY <1>1, <1>3, <2>1, <3>2 DEF Once, FreshPC
      <3> QED
        BY <3>4, <3>5, <3>6
    <2> QED
      BY <1>10, <2>2, <2>3 DEF DrainDecide
  <1>11. ASSUME NEW p \in Prompt, NEW last \in BOOLEAN, FollowUp(h, p, last) PROVE Goal
    <2>1. /\ App.pc = "idle" /\ used' = used \cup {p} /\ p \notin used
          /\ App' = [pc |-> "follow_settle", ret |-> "idle", prompt |-> p, last |-> last, seen |-> <<>>]
      BY <1>0, <1>2, <1>11, AppMoves DEF FollowUp, At, App
    <2>2. App'.pc = "follow_settle" /\ App'.prompt = p
      BY <2>1
    <2>3. Files' /\ StagedInPoll' /\ Marker' /\ AwaitsInPoll' /\ ScriptFirst' /\ SeenStands'
      BY <1>1, <1>3, <2>1, <2>2
      DEF Files, StagedInPoll, Marker, AwaitsInPoll, ScriptFirst, Staging, SeenStands
    <2>4. Once'
      BY <1>1, <1>3, <2>1, <2>2 DEF Once, FreshPC
    <2> QED
      BY <2>3, <2>4
  <1> QED
    BY <1>5, <1>6, <1>7, <1>9, <1>10, <1>11
\* The app's file writes.  While it writes a prompt to the gate the entrypoint
\* polls or has taken the prompt already.
LEMMA WriteKeepsSession ==
  ASSUME OneApp, PromiseInv, TypeOK', pc \notin Over,
         \/ StageNext(Launcher) \/ StageCommand(Launcher) \/ StageFinal(Launcher)
         \/ StageStatus(Launcher) \/ EnqueueWrite(Launcher) \/ DrainWrite(Launcher)
  PROVE  SessionInv'
  <1> DEFINE h == Launcher
             Goal == Files' /\ StagedInPoll' /\ Marker' /\ AwaitsInPoll' /\ ScriptFirst' /\ Once' /\ SeenStands'
  <1>0. /\ Host = {Launcher} /\ TypeOK /\ App \in Local /\ SessionInv
        /\ Closing <=> App.pc \in {"done_final", "done_queue", "stop"}
        /\ Closing' <=> App'.pc \in {"done_final", "done_queue", "stop"}
    BY OneHost DEF PromiseInv, Closing, App
  <1>1. UNCHANGED <<trace, shell, used>>
    BY DEF StageNext, StageCommand, StageFinal, StageStatus, EnqueueWrite, DrainWrite, Background
  <1>2. Open
    <2>1. App.pc \notin {"done_final", "done_queue", "stop"}
      BY DEF StageNext, StageCommand, StageFinal, StageStatus, EnqueueWrite, DrainWrite, At, App
    <2> QED
      BY <1>0, <2>1 DEF Open
  <1>3. Files /\ StagedInPoll /\ Marker /\ AwaitsInPoll /\ ScriptFirst /\ Once /\ SeenStands
    BY <1>0, <1>2 DEF SessionInv
  <1>4. App'.pc \in {"stage_next", "stage_command", "stage_final", "stage_status", "idle"}
        /\ (App'.pc # "idle" => App'.prompt = App.prompt /\ App'.last = App.last)
    <2>1. App' = Idle => App'.pc = "idle"
      BY DEF Idle
    <2> QED
      BY <2>1, AppMoves DEF StageNext, StageCommand, StageFinal, StageStatus, EnqueueWrite, DrainWrite
  <1> SUFFICES Goal
    BY <1>0, <1>4 DEF SessionInv
  <1>5. SeenStands'
    BY <1>4 DEF SeenStands
  <1> USE DEF trace, shell
  <1>6. CASE StageNext(h)
    <2>1. /\ App.pc = "stage_next" /\ App'.pc = "stage_command" /\ next' = App.prompt
          /\ UNCHANGED <<status, command, final, queue>>
      BY <1>6, AppMoves DEF StageNext, At, App
    <2>2. App.prompt \in Prompt /\ NoPrompt \notin Prompt
      <3>1. Carries(App)
        BY <1>0 DEF PromiseInv, DoneInv, TypeInv, Carrying, App
      <3> QED
        BY <2>1, <3>1, ConstantsAssumption DEF Carries, CarryPC
    <2>3. Files' /\ StagedInPoll' /\ Marker' /\ AwaitsInPoll' /\ ScriptFirst'
      BY <1>1, <1>3, <1>4, <2>1, <2>2
      DEF Files, StagedInPoll, Marker, AwaitsInPoll, ScriptFirst, Staging
    <2>4. Once'
      BY <1>1, <1>3, <2>1, <2>2 DEF Once, FreshPC
    <2> QED
      BY <1>5, <2>3, <2>4
  <1>7. CASE StageCommand(h)
    <2>1. /\ App.pc = "stage_command" /\ App'.pc = "stage_final" /\ command' = "follow_up"
          /\ UNCHANGED <<status, next, final, queue>>
      BY <1>7, AppMoves DEF StageCommand, At, App
    <2>2. Files' /\ StagedInPoll' /\ Marker' /\ AwaitsInPoll' /\ ScriptFirst'
      BY <1>1, <1>3, <2>1 DEF Files, StagedInPoll, Marker, AwaitsInPoll, ScriptFirst, Staging
    <2>3. Once'
      BY <1>1, <1>3, <2>1 DEF Once, FreshPC
    <2> QED
      BY <1>5, <2>2, <2>3
  <1>8. CASE StageFinal(h)
    <2>1. /\ App.pc = "stage_final" /\ App'.pc = "stage_status" /\ final' = App.last
          /\ UNCHANGED <<status, command, next, queue>>
      BY <1>8, AppMoves DEF StageFinal, At, App
    <2>2. pc = "poll" => command = "follow_up"
      BY <1>0, <1>3, <2>1 DEF StagedInPoll, Files
    <2>3. Files' /\ StagedInPoll' /\ Marker' /\ AwaitsInPoll' /\ ScriptFirst'
      BY <1>0, <1>1, <1>3, <2>1, <2>2
      DEF Files, StagedInPoll, Marker, AwaitsInPoll, ScriptFirst, Staging, Local
    <2>4. Once'
      BY <1>1, <1>3, <2>1 DEF Once, FreshPC
    <2> QED
      BY <1>5, <2>3, <2>4
  <1>9. CASE StageStatus(h)
    <2>1. /\ App.pc = "stage_status" /\ App'.pc = "idle" /\ status' = "running"
          /\ UNCHANGED <<command, next, final, queue>>
      BY <1>4, <1>9, AppMoves DEF StageStatus, At, App, Idle
    <2>2. Files' /\ StagedInPoll' /\ Marker' /\ AwaitsInPoll' /\ ScriptFirst'
      BY <1>1, <1>3, <2>1 DEF Files, StagedInPoll, Marker, AwaitsInPoll, ScriptFirst, Staging
    <2>3. Once'
      BY <1>1, <1>3, <2>1 DEF Once, FreshPC
    <2> QED
      BY <1>5, <2>2, <2>3
  <1>10. CASE EnqueueWrite(h)
    <2> DEFINE e == [prompt |-> App.prompt, last |-> App.last]
    <2>1. /\ App.pc = "enq_write" /\ App'.pc = "idle" /\ queue' = Append(queue, e)
          /\ UNCHANGED <<status, command, next, final>>
      BY <1>3, <1>4, <1>10, AppMoves DEF EnqueueWrite, At, App, Idle, SeenStands
    <2>2. Files' /\ StagedInPoll' /\ Marker' /\ AwaitsInPoll' /\ ScriptFirst'
      BY <1>1, <1>3, <2>1 DEF Files, StagedInPoll, Marker, AwaitsInPoll, ScriptFirst, Staging
    <2>3. /\ DOMAIN queue' = DOMAIN queue \cup {Len(queue) + 1} /\ Len(queue) + 1 \notin DOMAIN queue
          /\ \A j \in DOMAIN queue : queue'[j] = queue[j]
          /\ queue'[Len(queue) + 1] = e
      <3>1. queue \in Seq(Item)
        BY <1>0 DEF TypeOK
      <3> HIDE DEF e
      <3> QED
        BY <2>1, <3>1
    <2>4. e.prompt = App.prompt
      OBVIOUS
    <2> HIDE DEF e
    <2>5. Once'
      BY <1>1, <1>3, <2>1, <2>3, <2>4 DEF Once, FreshPC
    <2> QED
      BY <1>5, <2>2, <2>5
  <1>11. CASE DrainWrite(h)
    <2>1. /\ App.pc = "drain_write" /\ App'.pc = "stage_next" /\ queue' = Tail(queue)
          /\ queue # <<>> /\ Head(queue).prompt = App.prompt
          /\ UNCHANGED <<status, command, next, final>>
      BY <1>3, <1>11, AppMoves DEF DrainWrite, At, App, SeenStands
    <2>2. Files' /\ StagedInPoll' /\ Marker' /\ AwaitsInPoll' /\ ScriptFirst'
      BY <1>1, <1>3, <2>1 DEF Files, StagedInPoll, Marker, AwaitsInPoll, ScriptFirst, Staging
    <2>3. /\ 1 \in DOMAIN queue /\ queue[1].prompt = App.prompt
          /\ \A j \in DOMAIN queue' : /\ j + 1 \in DOMAIN queue /\ queue'[j] = queue[j + 1]
                                      /\ j + 1 # 1 /\ j \in Nat
      <3>1. queue \in Seq(Item)
        BY <1>0 DEF TypeOK
      <3> QED
        BY <2>1, <3>1
    <2>4. Once'
      <3>1. \A j \in DOMAIN queue' : queue'[j].prompt # App.prompt
        BY <1>3, <2>3 DEF Once
      <3>2. \A j, k \in DOMAIN queue' : queue'[j].prompt = queue'[k].prompt => j = k
        BY <1>3, <2>3 DEF Once
      <3>3. App'.prompt = App.prompt
        BY <1>4, <2>1
      <3> QED
        BY <1>1, <1>3, <2>1, <2>3, <3>1, <3>2, <3>3 DEF Once, FreshPC
    <2> QED
      BY <1>5, <2>2, <2>4
  <1> QED
    BY <1>6, <1>7, <1>8, <1>9, <1>10, <1>11

\* The user's Done: from its first write on nothing can be staged any more.
LEMMA DoneKeepsSession ==
  ASSUME OneApp, PromiseInv, pc' \notin Over,
         Done(Launcher) \/ DoneFinal(Launcher) \/ DoneQueue(Launcher)
  PROVE  SessionInv' /\ Closing' /\ pc \notin Over /\ UNCHANGED ran
  <1>0. Host = {Launcher} /\ Launcher \in Tui /\ SessionInv
    BY OneHost DEF PromiseInv
  <1>1. UNCHANGED <<pc, ran>>
    BY DEF Done, DoneFinal, DoneQueue, Background, shell
  <1>2. App'.pc \in {"done_final", "done_queue", "stop"}
    BY <1>0, AppMoves DEF Done, DoneFinal, DoneQueue
  <1>3. Closing'
    BY <1>0, <1>2 DEF Closing, App
  <1>4. command' # "follow_up"
    <2>1. CASE Done(Launcher)
      BY <2>1 DEF Done
    <2>2. CASE DoneFinal(Launcher) \/ DoneQueue(Launcher)
      <3>1. Closing /\ command' = command
        BY <1>0, <2>2 DEF DoneFinal, DoneQueue, Closing, At
      <3> QED
        BY <1>0, <1>1, <3>1 DEF SessionInv
    <2> QED
      BY <2>1, <2>2
  <1> QED
    BY <1>1, <1>3, <1>4 DEF SessionInv, Open

\* No step of the app finalizes the gate or stops the container before it is over.
LEMMA NoFinalizing ==
  ASSUME OneApp, PromiseInv, mishaps' = {}, pc' \notin Over, pc \notin Over
  PROVE  /\ ~FinClear(Launcher) /\ ~FinWrite(Launcher) /\ ~StopContainer(Launcher)
         /\ ~Probe(Launcher) /\ ~HostCrash(Launcher)
  <1>1. Host = {Launcher} /\ TypeOK
    BY OneHost
  <1>2. App.pc \notin {"fin_clear", "fin_write"}
    BY <1>1 DEF PromiseInv, DoneInv, Finalizers, GaveUp, App
  <1>3. ASSUME StopContainer(Launcher) PROVE FALSE
    BY <1>3 DEF StopContainer, GivesUp, Over, Stopped
  <1>4. ASSUME Probe(Launcher) PROVE FALSE
    <2>1. Open
      BY <1>1, <1>4 DEF Probe, At, Open, Closing
    <2> QED
      BY <1>1, <1>4, <2>1, SettlesNothing DEF Probe
  <1>5. ASSUME HostCrash(Launcher) PROVE FALSE
    BY <1>5 DEF HostCrash
  <1> QED
    BY <1>2, <1>3, <1>4, <1>5 DEF FinClear, FinWrite, At, App

LEMMA PromiseNext ==
  ASSUME OneApp, PromiseInv, mishaps' = {}, [Next]_vars
  PROVE  PromiseInv'
  <1>1. DoneInv'
    BY DoneNext DEF PromiseInv
  <1>2. DoneKept' /\ TypeOK /\ TypeOK'
    BY <1>1, DoneKeptNext DEF PromiseInv, OneApp, DoneInv, TypeInv
  <1>3. SessionInv'
    <2> SUFFICES ASSUME pc' \notin Over PROVE SessionInv'
      BY DEF SessionInv, Open
    <2>1. pc \notin Over
      BY <1>2, OverStays
    <2>2. CASE UNCHANGED vars
      BY <2>2 DEF PromiseInv, SessionInv, Open, Closing, App, Files, StagedInPoll, Marker, AwaitsInPoll,
                  ScriptFirst, Once, SeenStands, vars, gate, shell
    <2>3. CASE Entrypoint \/ IdleTimeout \/ Agent
      BY <1>2, <2>3, ContainerKeepsSession
    <2>4. CASE Worker \/ Quit \/ QuitCompletes \/ GoStale
      BY <2>4, WorkerKeepsSession
    <2>5. CASE \/ HostStep(Launcher) \/ Probe(Launcher) \/ Done(Launcher) \/ HostCrash(Launcher)
               \/ Drain(Launcher) \/ \E p \in Prompt, last \in BOOLEAN : FollowUp(Launcher, p, last)
      BY <1>2, <2>1, <2>5, DecisionKeepsSession, WriteKeepsSession, DoneKeepsSession, NoFinalizing
      DEF HostStep
    <2> QED
      BY <2>2, <2>3, <2>4, <2>5, OneHost DEF Next, Host
  <1> QED
    BY <1>1, <1>2, <1>3 DEF PromiseInv

LEMMA PromiseInit == Init => PromiseInv
  <1> SUFFICES ASSUME Init PROVE PromiseInv
    OBVIOUS
  <1>1. DoneInv /\ DoneKept
    BY InitType DEF Init, DoneInv, DoneMeansOver, Finalizers, Idle, DoneKept
  <1>2. App = Idle /\ App.pc = "idle"
    BY ConstantsAssumption DEF Init, App, Host, Idle
  <1>3. NoPrompt \notin Prompt /\ Task \notin Prompt
    BY ConstantsAssumption
  <1>4. SessionInv
    BY <1>2, <1>3 DEF Init, SessionInv, Closing, Idle, Files, StagedInPoll, Marker, AwaitsInPoll,
                      ScriptFirst, Once, SeenStands, Staging, FreshPC
  <1> QED
    BY <1>1, <1>4 DEF PromiseInv, Init

LEMMA UnlessMishapNext ==
  ASSUME OneApp, UnlessMishap, [Next]_vars
  PROVE  UnlessMishap' /\ (mishaps' = {} => PromiseInv /\ PromiseInv')
  <1>1. DoneInv'
    BY DoneNext DEF UnlessMishap
  <1>2. ASSUME mishaps' = {} PROVE PromiseInv /\ PromiseInv'
    <2>1. mishaps = {}
      BY <1>2, MishapsStay
    <2> QED
      BY <1>2, <2>1, PromiseNext DEF UnlessMishap
  <1> QED
    BY <1>1, <1>2 DEF UnlessMishap

\* The state of InteractiveSession that the gate stands for.
Queued == {queue[i].prompt : i \in DOMAIN queue}
OnGate == {next} \ (IF pc = "take" THEN {NoPrompt, prompt} ELSE {NoPrompt})
Carried == IF App.pc = "stage_next" THEN {App.prompt} ELSE {}
Pending == IF Phase \in {"over", "closing"} THEN {} ELSE PendingPrompts

\* The places of the entrypoint that has a prompt in hand.
InHand == {"take", "keep", "resume", "launch", "turn_end", "check_final"} \cup InTurn

LEMMA OneAppView ==
  ASSUME OneApp
  PROVE  /\ PendingPrompts = Queued \cup OnGate \cup Carried
         /\ PendingPrompts' = Queued' \cup OnGate' \cup Carried'
         /\ LastTaken <=> /\ prompt \in Prompt /\ pc \in InHand
                          /\ final \/ keep \/ (App.pc = "stage_final" /\ App.last)
         /\ LastTaken' <=> /\ prompt' \in Prompt /\ pc' \in InHand
                           /\ final' \/ keep' \/ (App'.pc = "stage_final" /\ App'.last)
  <1>1. Host = {Launcher}
    BY DEF OneApp, Host
  <1>2. {host[h].prompt : h \in {g \in Host : At(g, "stage_next")}} = Carried
    BY <1>1 DEF Carried, At, App
  <1>3. {host[h].prompt : h \in {g \in Host : At(g, "stage_next")}}' = Carried'
    BY <1>1 DEF Carried, At, App
  <1> QED
    BY <1>1, <1>2, <1>3 DEF PendingPrompts, Queued, OnGate, LastTaken, InHand, At, App

LEMMA Phases ==
  /\ pc \in Over => Phase = "over"
  /\ pc \notin Over /\ Closing => Phase = "closing"
  /\ Open => Phase = IF LastTaken THEN "last" ELSE "open"
  BY DEF Phase, Open

LEMMA PhasesNext ==
  /\ pc' \in Over => Phase' = "over"
  /\ pc' \notin Over /\ Closing' => Phase' = "closing"
  /\ Open' => Phase' = IF LastTaken' THEN "last" ELSE "open"
  BY DEF Phase, Open

\* What each step of the container means for the session while it is open.
LEMMA ContainerPromises ==
  ASSUME OneApp, PromiseInv, TypeOK', Entrypoint \/ IdleTimeout \/ Agent, Open, Open'
  PROVE  \/ /\ PendingPrompts' = PendingPrompts /\ ran' = ran /\ (LastTaken' <=> LastTaken)
         \/ /\ ~LastTaken
            /\ \E p \in PendingPrompts : PendingPrompts' = PendingPrompts \ {p} /\ ran' = ran \cup {p}
  <1>0. Files /\ StagedInPoll /\ Marker /\ AwaitsInPoll /\ ScriptFirst /\ Once /\ SeenStands /\ TypeOK
    BY OneHost DEF PromiseInv, SessionInv
  <1>1. UNCHANGED <<host, queue>> /\ App' = App /\ Queued' = Queued /\ Carried' = Carried
    BY DEF Entrypoint, Launch, AfterTurn, CheckFinal, ClearCommand, Await, PollDone,
           PollFollowUp, TakeFiles, KeepFinal, Resume, IdleTimeout, FinishDone, FinishIdle,
           FinalShare, WriteStatus, Agent, AgentOpensTurn, AgentClosesTurn, AgentExits,
           AgentFails, gate, App, Queued, Carried
  <1>2. pc \notin Over /\ pc' \notin Over
    BY DEF Open
  <1>3. CASE PollFollowUp
    <2>1. /\ pc = "poll" /\ next \in Prompt /\ next' = next /\ pc' = "take" /\ prompt' = next
          /\ command = "follow_up" /\ ran' = ran \cup {next} /\ next # NoPrompt
      BY <1>0, <1>3 DEF PollFollowUp, Staged, TypeOK, gate
    <2>2. OnGate = {next} /\ OnGate' = {}
      BY <2>1 DEF OnGate
    <2>3. next \notin Queued
      BY <1>0 DEF Once, Queued
    <2>4. Carried = {}
      BY <1>0, <2>1 DEF StagedInPoll, Carried
    <2>5. ~LastTaken
      BY <2>1, OneAppView DEF InHand, InTurn
    <2> QED
      BY <1>1, <2>1, <2>2, <2>3, <2>4, <2>5, OneAppView
  <1>4. CASE ~PollFollowUp
    <2>1. ran' = ran
      BY <1>4
      DEF Entrypoint, Launch, AfterTurn, CheckFinal, ClearCommand, Await, PollDone,
          TakeFiles, KeepFinal, Resume, IdleTimeout, FinishDone, FinishIdle, FinalShare,
          WriteStatus, Agent, AgentOpensTurn, AgentClosesTurn, AgentExits, AgentFails, shell
    <2>2. OnGate' = OnGate /\ (LastTaken' <=> LastTaken)
      <3> USE <1>0, <1>1, <1>2, OneAppView DEF OnGate, InHand, InTurn, gate, trace, shell, Over, Stopped
      <3>1. CASE Launch       BY <3>1 DEF Launch
      <3>2. CASE AfterTurn    BY <3>2, ConstantsAssumption DEF AfterTurn, ScriptFirst, Files, TypeOK
      <3>3. CASE CheckFinal   BY <3>3 DEF CheckFinal, Files, Marker, StagedInPoll, Staging
      <3>4. CASE ClearCommand BY <3>4 DEF ClearCommand, Files
      <3>5. CASE Await        BY <3>5 DEF Await, WriteStatus
      <3>6. CASE TakeFiles    BY <3>6 DEF TakeFiles, Files
      <3>7. CASE KeepFinal    BY <3>7 DEF KeepFinal, Files
      <3>8. CASE Resume       BY <3>8 DEF Resume, WriteStatus
      <3>9. CASE PollDone \/ IdleTimeout \/ FinishDone \/ FinishIdle \/ FinalShare \/ AgentFails
        BY <3>9 DEF PollDone, IdleTimeout, FinishDone, FinishIdle, FinalShare, WriteStatus, AgentFails
      <3>10. CASE AgentOpensTurn \/ AgentExits BY <3>10 DEF AgentOpensTurn, AgentExits
      <3>11. CASE AgentClosesTurn BY <3>11 DEF AgentClosesTurn
      <3> QED
        BY <1>4, <3>1, <3>2, <3>3, <3>4, <3>5, <3>6, <3>7, <3>8, <3>9, <3>10, <3>11
        DEF Entrypoint, Agent
    <2> QED
      BY <1>1, <2>1, <2>2, OneAppView
  <1> QED
    BY <1>3, <1>4

\* A step of the app accepts a prompt when it decides to stage one or has
\* appended one to the queue; moving one from the queue to the gate is no step.
LEMMA AppPromises ==
  ASSUME OneApp, PromiseInv, mishaps' = {}, Open, Open',
         \/ FollowSettle(Launcher) \/ FollowDecide(Launcher) \/ EnqueueRead(Launcher)
         \/ DrainSettle(Launcher) \/ DrainDecide(Launcher) \/ Drain(Launcher)
         \/ StageNext(Launcher) \/ StageCommand(Launcher) \/ StageFinal(Launcher)
         \/ StageStatus(Launcher) \/ EnqueueWrite(Launcher) \/ DrainWrite(Launcher)
         \/ \E p \in Prompt, last \in BOOLEAN : FollowUp(Launcher, p, last)
  PROVE  /\ ran' = ran /\ (LastTaken' <=> LastTaken)
         /\ \/ PendingPrompts' = PendingPrompts
            \/ \E p \in Prompt \ (PendingPrompts \cup ran) : PendingPrompts' = PendingPrompts \cup {p}
  <1> DEFINE h == Launcher
             Goal == /\ LastTaken' <=> LastTaken
                     /\ \/ PendingPrompts' = PendingPrompts
                        \/ \E p \in Prompt \ (PendingPrompts \cup ran) :
                             PendingPrompts' = PendingPrompts \cup {p}
  <1>0. Files /\ StagedInPoll /\ Marker /\ Once /\ SeenStands /\ TypeOK /\ App \in Local
        /\ command # "done" /\ Carries(App)
    BY OneHost DEF PromiseInv, SessionInv, DoneInv, TypeInv, Carrying, App, Host
  <1>1. ran' = ran /\ pc' = pc /\ prompt' = prompt /\ keep' = keep
    BY DEF FollowSettle, FollowDecide, EnqueueRead, DrainSettle, DrainDecide, Drain, FollowUp,
           Settle, StageNext, StageCommand, StageFinal, StageStatus, EnqueueWrite, DrainWrite,
           Background, shell
  <1> SUFFICES Goal
    BY <1>1
  <1>2. ASSUME UNCHANGED <<queue, next, final>>,
               App.pc \notin {"stage_next", "stage_final"}, App'.pc \notin {"stage_next", "stage_final"}
        PROVE  Goal
    <2>1. Queued' = Queued /\ OnGate' = OnGate /\ Carried = {} /\ Carried' = {}
      BY <1>1, <1>2 DEF Queued, OnGate, Carried
    <2>2. LastTaken' <=> LastTaken
      BY <1>1, <1>2, OneAppView
    <2> QED
      BY <2>1, <2>2, OneAppView
  <1>3. \A to : Goto(h, to) => App'.pc = to /\ (to # "idle" => App'.prompt = App.prompt /\ App'.last = App.last)
    BY AppMoves DEF Idle
  <1>4. CASE FollowSettle(h) \/ DrainSettle(h) \/ Drain(h)
    <2>1. UNCHANGED <<queue, next, final>> /\ App.pc \in {"follow_settle", "drain_settle", "idle"}
      BY <1>4 DEF FollowSettle, DrainSettle, Drain, Settle, gate, At, App
    <2>2. App'.pc \in {"follow_decide", "drain_decide", "drain_settle"}
      <3>1. CASE FollowSettle(h) \/ DrainSettle(h)
        <4>1. ~NeedsSettle
          BY <3>1, OneHost, SettlesNothing
        <4> QED
          BY <1>3, <3>1, <4>1 DEF FollowSettle, DrainSettle, Settle
      <3>2. CASE Drain(h)
        BY <1>3, <3>2 DEF Drain
      <3> QED
        BY <1>4, <3>1, <3>2
    <2> QED
      BY <1>2, <2>1, <2>2
  <1>5. CASE EnqueueRead(h)
    <2>1. UNCHANGED <<queue, next, final>> /\ App.pc = "enq_read"
      BY <1>5 DEF EnqueueRead, gate, At, App
    <2>2. App' = [App EXCEPT !.pc = "enq_write", !.seen = queue]
      BY <1>5, AppReads
    <2>3. App'.pc = "enq_write"
      BY <1>0, <2>2 DEF Local
    <2> QED
      BY <1>2, <2>1, <2>3
  <1>6. CASE DrainDecide(h)
    <2>1. UNCHANGED <<queue, next, final>> /\ App.pc = "drain_decide"
      BY <1>6 DEF DrainDecide, gate, At, App
    <2>2. App'.pc \in {"idle", "drain_write"}
      <3> DEFINE r == [pc |-> "drain_write", ret |-> "idle", prompt |-> Head(queue).prompt,
                       last |-> Head(queue).last, seen |-> Tail(queue)]
      <3>1. r.pc = "drain_write" /\ Idle.pc = "idle"
        BY DEF Idle
      <3>2. host' = [host EXCEPT ![h] = r] \/ host' = [host EXCEPT ![h] = Idle]
        BY <1>6 DEF DrainDecide
      <3> HIDE DEF r
      <3> QED
        BY <3>1, <3>2, AppMoves
    <2> QED
      BY <1>2, <2>1, <2>2
  <1>7. ASSUME NEW p \in Prompt, NEW last \in BOOLEAN, FollowUp(h, p, last) PROVE Goal
    <2>1. UNCHANGED <<queue, next, final>> /\ App.pc = "idle"
      BY <1>7 DEF FollowUp, gate, At, App
    <2> DEFINE r == [pc |-> "follow_settle", ret |-> "idle", prompt |-> p, last |-> last,
                     seen |-> <<>>]
    <2>2. r.pc = "follow_settle" /\ host' = [host EXCEPT ![h] = r]
      BY <1>0, <1>7 DEF FollowUp
    <2> HIDE DEF r
    <2>3. App'.pc = "follow_settle"
      BY <2>2, AppMoves
    <2> QED
      BY <1>2, <2>1, <2>3
  <1>8. CASE FollowDecide(h)
    <2>1. UNCHANGED <<queue, next, final>> /\ App.pc = "follow_decide"
      BY <1>8 DEF FollowDecide, gate, At, App
    <2>2. App'.pc \in {"stage_next", "enq_read"} /\ App'.prompt = App.prompt
      BY <1>3, <1>8 DEF FollowDecide
    <2>3. CASE App'.pc = "stage_next"
      <3>1. App.prompt \in Prompt \ ran /\ App.prompt \notin Queued /\ App.prompt # next
        BY <1>0, <2>1 DEF Once, FreshPC, Queued, Carries, CarryPC
      <3>2. Carried = {} /\ Carried' = {App.prompt} /\ Queued' = Queued /\ OnGate' = OnGate
        BY <1>1, <2>1, <2>2, <2>3 DEF Carried, Queued, OnGate
      <3>3. App.prompt \notin PendingPrompts /\ PendingPrompts' = PendingPrompts \cup {App.prompt}
        BY <3>1, <3>2, OneAppView DEF OnGate
      <3>4. LastTaken' <=> LastTaken
        BY <1>1, <2>1, <2>3, OneAppView
      <3> QED
        BY <3>1, <3>3, <3>4
    <2>4. CASE App'.pc = "enq_read"
      BY <1>2, <2>1, <2>4
    <2> QED
      BY <2>2, <2>3, <2>4
  <1>9. CASE StageNext(h)
    <2>1. /\ App.pc = "stage_next" /\ App'.pc = "stage_command" /\ next' = App.prompt
          /\ UNCHANGED <<queue, final>>
      BY <1>3, <1>9 DEF StageNext, At, App
    <2>2. pc = "poll" /\ next = NoPrompt
      BY <1>0, <2>1 DEF StagedInPoll, Files
    <2>3. App.prompt # NoPrompt
      BY <1>0, <2>1, ConstantsAssumption DEF Carries, CarryPC
    <2>4. OnGate = {} /\ OnGate' = {App.prompt} /\ Carried = {App.prompt} /\ Carried' = {}
          /\ Queued' = Queued
      BY <1>1, <2>1, <2>2, <2>3 DEF OnGate, Carried, Queued
    <2>5. LastTaken' <=> LastTaken
      BY <1>1, <2>1, OneAppView
    <2> QED
      BY <2>4, <2>5, OneAppView
  <1>10. CASE StageCommand(h)
    <2>1. /\ App.pc = "stage_command" /\ App'.pc = "stage_final" /\ pc = "poll"
          /\ UNCHANGED <<queue, next, final>>
      BY <1>0, <1>3, <1>10 DEF StageCommand, At, App, StagedInPoll
    <2>2. ~LastTaken /\ ~LastTaken'
      BY <1>1, <2>1, OneAppView DEF InHand, InTurn
    <2>3. Queued' = Queued /\ OnGate' = OnGate /\ Carried = {} /\ Carried' = {}
      BY <1>1, <2>1 DEF Queued, OnGate, Carried
    <2> QED
      BY <2>2, <2>3, OneAppView
  <1>11. CASE StageFinal(h)
    <2>1. /\ App.pc = "stage_final" /\ App'.pc = "stage_status" /\ final' = App.last /\ ~final /\ ~keep
          /\ UNCHANGED <<queue, next>>
      BY <1>0, <1>3, <1>11 DEF StageFinal, At, App, StagedInPoll, Marker
    <2>2. LastTaken' <=> LastTaken
      BY <1>1, <2>1, OneAppView
    <2>3. Queued' = Queued /\ OnGate' = OnGate /\ Carried = {} /\ Carried' = {}
      BY <1>1, <2>1 DEF Queued, OnGate, Carried
    <2> QED
      BY <2>2, <2>3, OneAppView
  <1>12. CASE StageStatus(h)
    <2>1. App.pc = "stage_status" /\ App'.pc = "idle" /\ UNCHANGED <<queue, next, final>>
      BY <1>3, <1>12 DEF StageStatus, At, App
    <2> QED
      BY <1>2, <2>1
  <1>13. CASE EnqueueWrite(h)
    <2> DEFINE e == [prompt |-> App.prompt, last |-> App.last]
    <2>1. /\ App.pc = "enq_write" /\ App'.pc = "idle" /\ queue' = Append(queue, e)
          /\ UNCHANGED <<next, final>>
      BY <1>0, <1>3, <1>13 DEF EnqueueWrite, At, App, SeenStands
    <2>2. e.prompt = App.prompt /\ App.prompt \in Prompt
      BY <1>0, <2>1 DEF Carries, CarryPC
    <2> HIDE DEF e
    <2>3. Queued' = Queued \cup {App.prompt}
      <3>1. queue \in Seq(Item)
        BY <1>0 DEF TypeOK
      <3>2. /\ DOMAIN queue' = DOMAIN queue \cup {Len(queue) + 1} /\ Len(queue) + 1 \notin DOMAIN queue
            /\ \A j \in DOMAIN queue : queue'[j] = queue[j]
            /\ queue'[Len(queue) + 1] = e
        BY <2>1, <3>1
      <3> QED
        BY <2>2, <3>2 DEF Queued
    <2>4. App.prompt \notin ran /\ App.prompt \notin Queued /\ App.prompt # next
      BY <1>0, <2>1 DEF Once, FreshPC, Queued
    <2>5. Carried = {} /\ Carried' = {} /\ OnGate' = OnGate
      BY <1>1, <2>1 DEF Carried, OnGate
    <2>6. App.prompt \notin PendingPrompts /\ PendingPrompts' = PendingPrompts \cup {App.prompt}
      BY <2>3, <2>4, <2>5, OneAppView DEF OnGate
    <2>7. LastTaken' <=> LastTaken
      BY <1>1, <2>1, OneAppView
    <2> QED
      BY <2>2, <2>4, <2>6, <2>7
  <1>14. CASE DrainWrite(h)
    <2>1. /\ App.pc = "drain_write" /\ App'.pc = "stage_next" /\ queue' = Tail(queue)
          /\ queue # <<>> /\ Head(queue).prompt = App.prompt /\ App'.prompt = App.prompt
          /\ UNCHANGED <<next, final>>
      BY <1>0, <1>3, <1>14 DEF DrainWrite, At, App, SeenStands
    <2>2. Queued = Queued' \cup {App.prompt}
      <3>1. queue \in Seq(Item)
        BY <1>0 DEF TypeOK
      <3>2. /\ 1 \in DOMAIN queue /\ queue[1].prompt = App.prompt
            /\ \A j \in DOMAIN queue' : j + 1 \in DOMAIN queue /\ queue'[j] = queue[j + 1]
            /\ \A j \in DOMAIN queue : j # 1 => j - 1 \in DOMAIN queue' /\ queue'[j - 1] = queue[j]
        BY <2>1, <3>1
      <3> QED
        BY <3>2 DEF Queued
    <2>3. Carried = {} /\ Carried' = {App.prompt} /\ OnGate' = OnGate
      BY <1>1, <2>1 DEF Carried, OnGate
    <2>4. LastTaken' <=> LastTaken
      BY <1>1, <2>1, OneAppView
    <2> QED
      BY <2>2, <2>3, <2>4, OneAppView
  <1> QED
    BY <1>4, <1>5, <1>6, <1>7, <1>8, <1>9, <1>10, <1>11, <1>12, <1>13, <1>14
LEMMA PromiseStep ==
  ASSUME OneApp, PromiseInv, PromiseInv', [Next]_vars
  PROVE  [Session!Next]_(Session!vars)
  <1>0. /\ Host = {Launcher} /\ TypeOK /\ TypeOK'
        /\ Open \/ pc \in Over \/ (pc \notin Over /\ Closing)
        /\ Open' \/ pc' \in Over \/ (pc' \notin Over /\ Closing')
        /\ (pc \in Over => pc' \in Over) /\ mishaps' = {}
    <2>1. TypeOK /\ TypeOK' /\ mishaps' = {}
      BY DEF PromiseInv, DoneInv, TypeInv
    <2> QED
      BY <2>1, OneHost, OverStays DEF Open
  <1>1. SUFFICES \/ Pending' = Pending /\ ran' = ran /\ Phase' = Phase
                 \/ /\ Phase \in {"open", "last"}
                    /\ \E p \in Prompt \ (Pending \cup ran) : Pending' = Pending \cup {p}
                    /\ ran' = ran /\ Phase' = Phase
                 \/ /\ Phase = "open"
                    /\ \E p \in Pending : Pending' = Pending \ {p} /\ ran' = ran \cup {p}
                    /\ Phase' \in {"open", "last"}
                 \/ /\ Phase \in {"open", "last"}
                    /\ Phase' = "closing" /\ Pending' = {} /\ ran' = ran
                 \/ Phase # "over" /\ Phase' = "over" /\ Pending' = {} /\ ran' = ran
    BY DEF Session!Next, Session!vars, Session!Accept, Session!Take, Session!Close, Session!End,
           Pending
  <1>2. ran' = ran \/ PollFollowUp
    <2>1. ASSUME Entrypoint \/ IdleTimeout PROVE ran' = ran \/ PollFollowUp
      BY <2>1
      DEF Entrypoint, Launch, AfterTurn, CheckFinal, ClearCommand, Await, PollDone, TakeFiles,
          KeepFinal, Resume, IdleTimeout, FinishDone, FinishIdle, FinalShare, WriteStatus, shell
    <2>2. ASSUME Agent \/ Worker \/ Quit \/ QuitCompletes \/ GoStale PROVE ran' = ran
      BY <2>2
      DEF Agent, AgentOpensTurn, AgentClosesTurn, AgentExits, AgentFails, Worker, WorkerWakes,
          WorkerClears, WorkerWrites, Quit, QuitCompletes, GoStale, shell
    <2>3. ASSUME NEW h \in Host, HostStep(h) PROVE ran' = ran
      BY <2>3
      DEF HostStep, FinClear, FinWrite, FollowSettle, FollowDecide, StageNext, StageCommand,
          StageFinal, StageStatus, EnqueueRead, EnqueueWrite, DrainSettle, DrainDecide,
          DrainWrite, DoneFinal, DoneQueue, StopContainer, Settle, Background, shell
    <2>4. ASSUME NEW h \in Host,
                 \/ Probe(h) \/ Done(h) \/ HostCrash(h) \/ Drain(h)
                 \/ \E p \in Prompt, last \in BOOLEAN : FollowUp(h, p, last)
          PROVE  ran' = ran
      BY <2>4 DEF Probe, Done, HostCrash, Drain, FollowUp, Background, shell
    <2>5. CASE UNCHANGED vars
      BY <2>5 DEF vars, shell
    <2> QED
      BY <2>1, <2>2, <2>3, <2>4, <2>5 DEF Next, Host
  <1>3. CASE pc' \in Over
    <2>1. ~PollFollowUp
      BY <1>3 DEF PollFollowUp, Over, Stopped
    <2>2. Phase' = "over" /\ Pending' = {} /\ ran' = ran
      BY <1>2, <1>3, <2>1, PhasesNext DEF Pending
    <2>3. Phase = "over" => Pending = {}
      BY DEF Pending
    <2> QED
      BY <2>2, <2>3
  <1>4. CASE pc' \notin Over /\ Closing
    <2>1. pc \notin Over /\ Phase = "closing" /\ Pending = {}
      BY <1>0, <1>4, Phases DEF Pending
    <2>2. ~PollFollowUp
      BY <1>4, <2>1 DEF PollFollowUp, Staged, PromiseInv, SessionInv
    <2>3. Closing'
      <3>1. CASE host' = host
        BY <1>4, <3>1 DEF Closing
      <3>2. CASE Done(Launcher) \/ DoneFinal(Launcher) \/ DoneQueue(Launcher)
        BY <1>4, <3>2, DoneKeepsSession
      <3>3. CASE /\ host' # host
                 /\ ~(Done(Launcher) \/ DoneFinal(Launcher) \/ DoneQueue(Launcher))
        <4>1. App.pc \in {"done_final", "done_queue", "stop"}
          BY <1>4, OneHost
        <4>2. \/ HostStep(Launcher) \/ Probe(Launcher) \/ HostCrash(Launcher)
              \/ Drain(Launcher) \/ \E p \in Prompt, last \in BOOLEAN : FollowUp(Launcher, p, last)
          BY <1>0, <3>3
          DEF Next, Host, Entrypoint, Launch, AfterTurn, CheckFinal, ClearCommand, Await,
              PollDone, PollFollowUp, TakeFiles, KeepFinal, Resume, IdleTimeout, FinishDone,
              FinishIdle, FinalShare, WriteStatus, Agent, AgentOpensTurn, AgentClosesTurn,
              AgentExits, AgentFails, Worker, WorkerWakes, WorkerClears, WorkerWrites, Quit,
              QuitCompletes, GoStale, vars
        <4> QED
          BY <1>0, <1>4, <2>1, <3>3, <4>1, <4>2, NoFinalizing
          DEF HostStep, FollowSettle, FollowDecide, StageNext, StageCommand, StageFinal,
              StageStatus, EnqueueRead, EnqueueWrite, DrainSettle, DrainDecide, DrainWrite,
              Drain, FollowUp, Settle, At, App
      <3> QED
        BY <3>1, <3>2, <3>3
    <2> QED
      BY <1>2, <1>4, <2>1, <2>2, <2>3, PhasesNext DEF Pending
  <1>5. CASE Open /\ pc' \notin Over /\ Closing'
    <2>1. Phase' = "closing" /\ Pending' = {} /\ Phase \in {"open", "last"}
      BY <1>5, Phases, PhasesNext DEF Pending
    <2>2. ~PollFollowUp
      BY <1>5 DEF PollFollowUp, Open, Closing
    <2> QED
      BY <1>2, <2>1, <2>2
  <1>6. CASE Open /\ Open'
    <2>1. /\ Phase = IF LastTaken THEN "last" ELSE "open"
          /\ Phase' = IF LastTaken' THEN "last" ELSE "open"
          /\ Pending = PendingPrompts /\ Pending' = PendingPrompts'
      BY <1>6, Phases, PhasesNext DEF Pending
    <2>2. CASE UNCHANGED <<gate, shell, host>>
      BY <2>1, <2>2 DEF PendingPrompts, LastTaken, At, gate, shell
    <2>3. CASE Entrypoint \/ IdleTimeout \/ Agent
      BY <1>0, <1>6, <2>1, <2>3, ContainerPromises
    <2>4. CASE Worker \/ Quit \/ QuitCompletes \/ GoStale
      <3>1. UNCHANGED <<gate, shell, host>>
        BY <1>6, <2>4, WorkerKeepsSession DEF Open
      <3> QED
        BY <2>2, <3>1
    <2>5. CASE \/ HostStep(Launcher) \/ Probe(Launcher) \/ Done(Launcher) \/ HostCrash(Launcher)
               \/ Drain(Launcher) \/ \E p \in Prompt, last \in BOOLEAN : FollowUp(Launcher, p, last)
      <3>1. ~(Done(Launcher) \/ DoneFinal(Launcher) \/ DoneQueue(Launcher))
        BY <1>6, DoneKeepsSession DEF Open
      <3>2. \/ FollowSettle(Launcher) \/ FollowDecide(Launcher) \/ EnqueueRead(Launcher)
            \/ DrainSettle(Launcher) \/ DrainDecide(Launcher) \/ Drain(Launcher)
            \/ StageNext(Launcher) \/ StageCommand(Launcher) \/ StageFinal(Launcher)
            \/ StageStatus(Launcher) \/ EnqueueWrite(Launcher) \/ DrainWrite(Launcher)
            \/ \E p \in Prompt, last \in BOOLEAN : FollowUp(Launcher, p, last)
        BY <1>0, <1>6, <2>5, <3>1, NoFinalizing DEF HostStep, Open
      <3> QED
        BY <1>0, <1>6, <2>1, <3>2, AppPromises
    <2> QED
      BY <1>0, <2>2, <2>3, <2>4, <2>5 DEF Next, Host, vars
  <1> QED
    BY <1>0, <1>3, <1>4, <1>5, <1>6

\* With one app that works the gate, it implements the session that its user
\* believes in, for any number of prompts and scripted turns, whoever grows old or
\* quits: an accepted follow-up waits until the agent takes it up, is taken up
\* once, is dropped only by Done or the end, and nothing follows the last turn.
\* That goes on until the app dies in the middle of an operation, a turn ends
\* under one, or a container that runs is taken for gone.
THEOREM PromisesKept ==
  ASSUME OneApp
  PROVE  Spec => KeepsPromises
  <1>1. Init => Session!Init
    <2> SUFFICES ASSUME Init PROVE Session!Init
      OBVIOUS
    <2>1. App = Idle /\ App.pc = "idle" /\ Task \notin Prompt
      BY ConstantsAssumption DEF Init, App, Host, Idle
    <2>2. ~Closing /\ Open
      BY OneHost, PromiseInit, <2>1 DEF Init, Open, Over, Stopped
    <2>3. PendingPrompts = {} /\ ~LastTaken
      BY <2>1, OneAppView DEF Init, Queued, OnGate, Carried
    <2> QED
      BY <2>2, <2>3, Phases DEF Session!Init, Init
  <1>2. Init => UnlessMishap
    BY PromiseInit DEF UnlessMishap, PromiseInv
  <1>3. UnlessMishap /\ [Next]_vars => UnlessMishap'
    BY UnlessMishapNext
  <1>4. UnlessMishap /\ [Next]_vars => [mishaps' = {} => Session!Next]_(Session!vars)
    BY UnlessMishapNext, PromiseStep
  <1> QED
    BY <1>1, <1>2, <1>3, <1>4, PTL DEF Spec, KeepsPromises
=============================================================================
