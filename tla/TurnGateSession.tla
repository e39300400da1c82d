-------------------------- MODULE TurnGateSession ---------------------------
(***************************************************************************)
(* The turn gate seen as an InteractiveSession: where an accepted prompt   *)
(* is while it waits, and how far the session has come.                    *)
(***************************************************************************)
EXTENDS TurnGate

\* Prompts in the queue file, staged for the entrypoint (and not copied yet),
\* or carried by a host from its decision to the first file of the staging.
PendingPrompts ==
  {queue[i].prompt : i \in DOMAIN queue}
    \cup ({next} \ (IF pc = "take" THEN {NoPrompt, prompt} ELSE {NoPrompt}))
    \cup {host[h].prompt : h \in {g \in Host : At(g, "stage_next")}}

\* A host is carrying out its user's Done.
Closing == \E h \in Host : host[h].pc \in {"done_final", "done_queue", "stop"}

\* The prompt in hand was sent as the last one; its marker is on the gate, in
\* the shell, or about to be written by the host that staged it.
LastTaken ==
  /\ prompt \in Prompt
  /\ pc \in {"take", "keep", "resume", "launch", "turn_end", "check_final"} \cup InTurn
  /\ final \/ keep \/ \E h \in Host : At(h, "stage_final") /\ host[h].last

Phase == IF pc \in Over THEN "over"
         ELSE IF Closing THEN "closing"
         ELSE IF LastTaken THEN "last"
         ELSE "open"

Session == INSTANCE InteractiveSession WITH
  pending <- IF Phase \in {"over", "closing"} THEN {} ELSE PendingPrompts,
  phase <- Phase

\* With one terminal app the gate keeps every promise of the session, for as long
\* as the app neither dies in the middle of an operation, nor is overtaken by the
\* agent in one, nor takes a container that runs for gone.
KeepsPromises ==
  Session!Init /\ [][mishaps' = {} => Session!Next]_(Session!vars)
=============================================================================
