------------------------ MODULE InteractiveSession --------------------------
(***************************************************************************)
(* What an interactive evaluation session promises its user: a follow-up   *)
(* that was accepted waits until the agent takes it up, is taken up at     *)
(* most once, is dropped only by the user's Done or the end of the         *)
(* session, and nothing follows the turn that was sent as the last one.    *)
(***************************************************************************)
CONSTANT Prompt
VARIABLES pending, ran, phase

vars == <<pending, ran, phase>>

Init == pending = {} /\ ran = {} /\ phase = "open"

Accept ==
  /\ phase \in {"open", "last"}
  /\ \E p \in Prompt \ (pending \cup ran) : pending' = pending \cup {p}
  /\ UNCHANGED <<ran, phase>>

Take ==
  /\ phase = "open"
  /\ \E p \in pending : pending' = pending \ {p} /\ ran' = ran \cup {p}
  /\ phase' \in {"open", "last"}

\* The user's Done discards what is waiting.
Close ==
  /\ phase \in {"open", "last"}
  /\ phase' = "closing" /\ pending' = {} /\ UNCHANGED ran

End == phase # "over" /\ phase' = "over" /\ pending' = {} /\ UNCHANGED ran

Next == Accept \/ Take \/ Close \/ End

Spec == Init /\ [][Next]_vars
=============================================================================
