-------------------------- MODULE CatalogRevisions --------------------------
(***************************************************************************)
(* What the catalog promises the clients of session/list: rows with a      *)
(* revision, that move by patches of which the last ones are remembered,   *)
(* or at once when a rebuild ends.  How a patch or a rebuild comes about   *)
(* is left open here; Catalog says it.                                     *)
(***************************************************************************)
EXTENDS Naturals, Sequences

CONSTANTS
  Session,   \* session directories under the catalog roots
  Status,    \* list statuses that a row may show
  DeltaKeep  \* _DELTA_KEEP: patches remembered for sinceRevision clients

Absent == "absent"    \* no row

ASSUME RevisionsAssumption == DeltaKeep \in Nat \ {0} /\ Absent \notin Status

VARIABLES
  gen,      \* owner instance, the high bits of a revision
  warm,     \* _rows is not None
  rows,     \* _rows
  seq,      \* _seq, the low bits of the revision
  deltas,   \* _deltas: patches since the last rebuild
  building  \* "off", or how far the rebuild is: _building is building # "off"

revisions == <<gen, warm, rows, seq, deltas, building>>

Shown == Status \cup {Absent}
Rows  == [Session -> Shown]
Nothing == [s \in Session |-> Absent]

\* A patch: the row (or Absent, for a removed id) of each session it names.
Patch == UNION {[D -> Shown] : D \in SUBSET Session}

Patched(r, p) == [s \in Session |-> IF s \in DOMAIN p THEN p[s] ELSE r[s]]

\* A revision, ordered as the code's integers; 0 before the first rebuild.
Revision == IF seq = 0 THEN <<0, 0>> ELSE <<gen, seq>>

\* Mutant: no bound on the patches.
RememberAll(p) == Append(deltas, [seq |-> seq + 1, patch |-> p])

\* A patch, remembered among the last DeltaKeep.
Remember(p) ==
  LET ds == Append(deltas, [seq |-> seq + 1, patch |-> p])
  IN IF Len(ds) > DeltaKeep THEN Tail(ds) ELSE ds

\* Mutant: the owner is not looked at.
GapAnyOwner(since) ==
  \/ since[2] = 0 \/ since[2] > seq
  \/ since[2] < seq /\ (deltas = << >> \/ deltas[1].seq > since[2] + 1)

\* Where delta_since answers None: no delta leads from that revision.
Gap(since) ==
  \/ since[2] = 0 \/ since[1] # gen \/ since[2] > seq
  \/ since[2] < seq /\ (deltas = << >> \/ deltas[1].seq > since[2] + 1)

\* delta_since otherwise: per session that a later patch names what the last
\* of these patches says.
DeltaSince(since) ==
  LET newer == {i \in DOMAIN deltas : deltas[i].seq > since[2]}
      named == UNION {DOMAIN deltas[i].patch : i \in newer}
      Last(s) == CHOOSE i \in newer :
                   /\ s \in DOMAIN deltas[i].patch
                   /\ \A j \in newer : s \in DOMAIN deltas[j].patch => j <= i
  IN [s \in named |-> deltas[Last(s)].patch[s]]

-----------------------------------------------------------------------------
ColdStart == warm = FALSE /\ rows = Nothing /\ seq = 0 /\ deltas = << >> /\ building = "off"

RevisionsInit == gen = 1 /\ ColdStart

StartRebuild ==
  /\ building = "off" /\ building' = "scan"
  /\ UNCHANGED <<gen, warm, rows, seq, deltas>>

\* A rebuild leaves no patch that leads to its rows.
Rebuilt ==
  /\ building = "scan" /\ building' = "committed"
  /\ warm' = TRUE /\ rows' \in Rows /\ seq' = seq + 1 /\ deltas' = << >>
  /\ UNCHANGED gen

EndRebuild ==
  /\ building # "off" /\ building' = "off"
  /\ UNCHANGED <<gen, warm, rows, seq, deltas>>

\* A patch changes every row it names, and never during a rebuild.
ApplyPatch(p) ==
  /\ warm /\ building = "off"
  /\ p # << >> /\ \A s \in DOMAIN p : p[s] # rows[s]
  /\ rows' = Patched(rows, p) /\ seq' = seq + 1 /\ deltas' = Remember(p)
  /\ UNCHANGED <<gen, warm, building>>

\* groket serve is stopped and started again: a new instance, nothing kept.
Restarted ==
  /\ gen' = gen + 1
  /\ warm' = FALSE /\ rows' = Nothing /\ seq' = 0 /\ deltas' = << >> /\ building' = "off"

RevisionsNext ==
  \/ StartRebuild \/ Rebuilt \/ EndRebuild \/ Restarted
  \/ \E p \in Patch : ApplyPatch(p)

RevisionsSpec == RevisionsInit /\ [][RevisionsNext]_revisions
=============================================================================
