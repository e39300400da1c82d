---------------------------- MODULE CatalogHome ----------------------------
(***************************************************************************)
(* The home list of a terminal app that is attached to the catalog's owner *)
(* (ui/app.py): loads, each in a thread of its own, that ask session/list  *)
(* for what changed since a revision, or for pages, and install the answer *)
(* when no later load has begun.  The owner is CatalogRevisions; an RPC is *)
(* answered in two blocks under its lock (list_for_rpc, delta_since).      *)
(***************************************************************************)
EXTENDS CatalogRevisions, FiniteSets

CONSTANTS
  Loader,      \* threads of the worker group "sessions-catalog"
  Limit,       \* DEFAULT_SESSION_LIST_LIMIT
  MaxSeq,      \* bound on the revisions of one owner
  MaxRestarts, \* bound on the restarts of the owner
  RpcFails     \* requests may fail, or a scan outlast the wait for it

ASSUME HomeAssumption ==
  /\ Session \subseteq Nat \ {0} /\ IsFiniteSet(Session)    \* newest first
  /\ Limit \in Nat \ {0} /\ MaxSeq \in Nat /\ MaxRestarts \in Nat
  /\ RpcFails \in BOOLEAN

VARIABLES
  view,    \* _meta_only
  catRev,  \* _catalog_revision
  latest,  \* the load that _sessions_load_gen stands for
  load,    \* per thread: where it is, and its local variables
  whole    \* history: the list is of all pages of one revision, and no load
           \* that was superseded has stored its own revision since

home == <<view, catRev, latest, load, whole>>
vars == <<revisions, home>>

Never == <<0, 0>>
NoAnswer == [kind |-> "none", rev |-> Never, patch |-> << >>, matched |-> 0, incomplete |-> FALSE]
NoLoad == [pc |-> "idle", phase |-> "first", since |-> Never, offset |-> 0,
           ans |-> NoAnswer, acc |-> << >>, head |-> 0,
           revs |-> {}]    \* history: the revisions of the pages so far

Count(r) == Cardinality({s \in Session : r[s] # Absent})

\* filter_session_catalog without a query: rows offset + 1 .. offset + Limit.
Page(r, offset) ==
  LET place(s) == Cardinality({t \in Session : t <= s /\ r[t] # Absent})
      page == {s \in Session : r[s] # Absent /\ place(s) \in offset + 1 .. offset + Limit}
  IN [s \in page |-> r[s]]

Size(p) == Cardinality(DOMAIN p)

\* catalog_list_next_offset; 0 where the code returns None.
NextOffset(offset, n, matched, stalled) ==
  IF stalled \/ n < Limit \/ offset + n >= matched THEN 0 ELSE offset + n

Both(p, q) == [s \in DOMAIN p \cup DOMAIN q |-> IF s \in DOMAIN q THEN q[s] ELSE p[s]]

First(p) == CHOOSE s \in DOMAIN p : \A t \in DOMAIN p : s <= t

Current(l) == latest = l

At(l, pc, phase) == load[l].pc = pc /\ load[l].phase = phase

\* sinceRevision of the request that l makes; later requests have none.
Asked(l) == IF load[l].phase = "first" THEN load[l].since ELSE Never

HomeTypeOK ==
  /\ gen \in 1 .. MaxRestarts + 1 /\ seq \in 0 .. MaxSeq /\ warm \in BOOLEAN
  /\ building \in {"off", "scan", "committed"}
  /\ rows \in Rows /\ view \in Rows
  /\ Len(deltas) <= DeltaKeep
  /\ \A i \in DOMAIN deltas : deltas[i].seq \in 1 .. seq /\ deltas[i].patch \in Patch
  /\ catRev \in {Never} \cup (1 .. gen) \X (1 .. MaxSeq)
  /\ latest \in Loader /\ whole \in BOOLEAN
  /\ \A l \in Loader :
       /\ load[l].pc \in {"idle", "begun", "ask", "rows", "delta", "answered", "apply", "revise"}
       /\ load[l].phase \in {"first", "drain", "await", "page"}
       /\ load[l].offset \in 0 .. Cardinality(Session)
       /\ load[l].ans.patch \in Patch /\ load[l].acc \in Patch
       /\ load[l].revs \subseteq {Never} \cup (1 .. gen) \X (1 .. MaxSeq)

HomeInit ==
  /\ RevisionsInit
  /\ view = Nothing /\ catRev = Never /\ latest \in Loader /\ whole = FALSE
  /\ load = [l \in Loader |-> NoLoad]

-----------------------------------------------------------------------------
(* The owner.                                                              *)

OwnerStep ==
  /\ StartRebuild \/ Rebuilt \/ EndRebuild \/ \E p \in Patch : ApplyPatch(p)
  /\ seq' <= MaxSeq
  /\ UNCHANGED home

\* The connections of the old owner break; a load ends with the exception.
Restart ==
  /\ gen <= MaxRestarts
  /\ Restarted
  /\ load' = [l \in Loader |-> IF load[l].pc \in {"rows", "delta"} THEN NoLoad ELSE load[l]]
  /\ UNCHANGED <<view, catRev, latest, whole>>

-----------------------------------------------------------------------------
(* One session/list request of a load.                                     *)

\* list_for_rpc kicks a rebuild when the rows are not fresh.
Ask(l) ==
  /\ load[l].pc = "ask"
  /\ building' \in {building} \cup IF building = "off" THEN {"scan"} ELSE {}
  /\ load' = [load EXCEPT ![l].pc = "rows"]
  /\ UNCHANGED <<gen, warm, rows, seq, deltas, view, catRev, latest, whole>>

Answer(l, kind, rev, patch, matched, incomplete) ==
  load' = [load EXCEPT
    ![l].pc = "answered", ![l].revs = @ \cup {rev},
    ![l].ans = [kind |-> kind, rev |-> rev, patch |-> patch,
                matched |-> matched, incomplete |-> incomplete]]

\* First block under the lock: the answer, unless a delta is asked for.
RpcRows(l) ==
  /\ load[l].pc = "rows"
  /\ LET incomplete == ~warm \/ building # "off" IN
     \/ /\ Asked(l) = Never
        /\ Answer(l, "page", Revision, Page(rows, load[l].offset), Count(rows), incomplete)
     \/ /\ Asked(l) # Never /\ Asked(l) = Revision
        /\ Answer(l, "unchanged", Revision, << >>, 0, incomplete)
     \/ /\ Asked(l) # Never /\ Asked(l) # Revision
        /\ load' = [load EXCEPT
             ![l].pc = "delta",
             ![l].ans = [NoAnswer EXCEPT !.rev = Revision, !.incomplete = incomplete]]
  /\ UNCHANGED <<revisions, view, catRev, latest, whole>>

\* Second block: delta_since.  The page that is sent in place of a delta is
\* thrown away by the load.
RpcDelta(l) ==
  /\ load[l].pc = "delta"
  /\ LET gap == Gap(load[l].since) IN
     Answer(l, IF gap THEN "page" ELSE "delta", load[l].ans.rev,
            IF gap THEN << >> ELSE DeltaSince(load[l].since), 0, load[l].ans.incomplete)
  /\ UNCHANGED <<revisions, view, catRev, latest, whole>>

\* The request fails or times out: the load logs it and ends.
Fail(l) ==
  /\ RpcFails /\ load[l].pc \in {"ask", "rows", "delta"}
  /\ load' = [load EXCEPT ![l] = NoLoad]
  /\ UNCHANGED <<revisions, view, catRev, latest, whole>>

-----------------------------------------------------------------------------
(* A load: _load_sessions_via_control.                                     *)

Begin(l) ==
  /\ load[l].pc = "idle"
  /\ latest' = l
  /\ load' = [load EXCEPT ![l].pc = "begun"]
  /\ UNCHANGED <<revisions, view, catRev, whole>>

\* A quiet load asks for a delta, if there is a revision to ask since.
ReadSince(l) ==
  /\ load[l].pc = "begun"
  /\ \E since \in {Never, catRev} :
       load' = [load EXCEPT ![l].pc = "ask", ![l].since = since]
  /\ UNCHANGED <<revisions, view, catRev, latest, whole>>

AskAgain(l, phase, offset) ==
  load' = [load EXCEPT ![l].pc = "ask", ![l].phase = phase, ![l].offset = offset,
                       ![l].ans = NoAnswer, ![l].revs = IF phase = "page" THEN @ ELSE {}]

End(l) == load' = [load EXCEPT ![l] = NoLoad]

\* The first answer: superseded, unchanged, a gap, or news.
ReceiveFirst(l) ==
  /\ At(l, "answered", "first")
  /\ \/ /\ ~Current(l) \/ load[l].ans.kind = "unchanged"
        /\ End(l)
     \/ /\ Current(l) /\ load[l].since # Never /\ load[l].ans.kind = "page"
        /\ AskAgain(l, "drain", 0)
     \/ /\ Current(l) /\ (load[l].ans.kind = "delta" \/ load[l].since = Never)
        /\ load' = [load EXCEPT ![l].pc = "revise"]
  /\ UNCHANGED <<revisions, view, catRev, latest, whole>>

\* session_list_all: pages until the last, a short or an empty one, or one
\* that begins like the first; the revision is that of the last answer.
ReceiveDrain(l) ==
  /\ At(l, "answered", "drain")
  /\ LET ans == load[l].ans
         again == load[l].offset > 0 /\ Size(ans.patch) > 0 /\ First(ans.patch) = load[l].head
         acc == IF again THEN load[l].acc ELSE Both(load[l].acc, ans.patch)
         next == IF again THEN 0
                 ELSE NextOffset(load[l].offset, Size(ans.patch), ans.matched, FALSE)
     IN \/ /\ next # 0
           /\ load' = [load EXCEPT
                ![l].pc = "ask", ![l].offset = next, ![l].ans = NoAnswer, ![l].acc = acc,
                ![l].head = IF load[l].offset = 0 THEN First(ans.patch) ELSE @]
        \/ /\ next = 0 /\ ~Current(l)
           /\ End(l)
        \/ /\ next = 0 /\ Current(l)
           /\ load' = [load EXCEPT ![l] =
                [load[l] EXCEPT !.ans = [ans EXCEPT !.patch = acc, !.incomplete = FALSE],
                                !.pc = "revise", !.acc = << >>, !.head = 0]]
  /\ UNCHANGED <<revisions, view, catRev, latest, whole>>

\* _await_complete_catalog: ask for the first page until the scan is over, or
\* for 120 seconds.
ReceiveAwait(l) ==
  /\ At(l, "answered", "await")
  /\ \/ ~Current(l) /\ End(l)
     \/ Current(l) /\ load[l].ans.incomplete /\ AskAgain(l, "await", 0)
     \/ /\ Current(l) /\ (RpcFails \/ ~load[l].ans.incomplete)
        /\ load' = [load EXCEPT ![l].pc = "revise"]
  /\ UNCHANGED <<revisions, view, catRev, latest, whole>>

\* _fill_remaining_catalog_pages: an empty page is the end.
ReceivePage(l) ==
  /\ At(l, "answered", "page")
  /\ IF load[l].ans.patch = << >> THEN End(l) ELSE load' = [load EXCEPT ![l].pc = "apply"]
  /\ UNCHANGED <<revisions, view, catRev, latest, whole>>

\* The page after this answer, or the end of a load that is superseded.
NextPage(l) ==
  LET ans == load[l].ans
      next == NextOffset(load[l].offset, Size(ans.patch), ans.matched, ans.incomplete)
  IN IF next = 0 \/ ~Current(l) THEN End(l) ELSE AskAgain(l, "page", next)

\* The revision is stored, before the rows of it and after those of a page.
Revise(l) ==
  /\ load[l].pc = "revise"
  /\ catRev' = IF load[l].ans.rev = Never THEN catRev ELSE load[l].ans.rev
  /\ IF load[l].phase = "page" THEN NextPage(l) ELSE load' = [load EXCEPT ![l].pc = "apply"]
  /\ UNCHANGED <<revisions, view, latest, whole>>

\* Mutant: a load that is superseded installs its rows.
ApplyAnyLoad(l) ==
  /\ load[l].pc = "apply"
  /\ LET ans == load[l].ans IN
        /\ view' = Patched(IF ans.kind = "delta" \/ load[l].phase = "page" THEN view ELSE Nothing,
                           ans.patch)
        /\ whole' = IF ans.kind = "delta" THEN whole
                    ELSE Cardinality(load[l].revs) = 1 /\ Count(view') = ans.matched
        /\ CASE load[l].phase = "page" -> load' = [load EXCEPT ![l].pc = "revise"]
             [] load[l].phase = "first" /\ ans.incomplete -> AskAgain(l, "await", 0)
             [] load[l].since # Never /\ ~(load[l].phase = "first" /\ ans.incomplete) -> End(l)
             [] OTHER -> NextPage(l)
  /\ UNCHANGED <<revisions, catRev, latest>>

\* _apply_session_meta_rows, and what the load does then: wait for the scan,
\* fetch the other pages, unless it is a quiet poll, or end.
Apply(l) ==
  /\ load[l].pc = "apply"
  /\ LET ans == load[l].ans IN
     \/ ~Current(l) /\ End(l) /\ UNCHANGED view /\ whole' = FALSE
     \/ /\ Current(l)
        /\ view' = Patched(IF ans.kind = "delta" \/ load[l].phase = "page" THEN view ELSE Nothing,
                           ans.patch)
        /\ whole' = IF ans.kind = "delta" THEN whole
                    ELSE Cardinality(load[l].revs) = 1 /\ Count(view') = ans.matched
        /\ CASE load[l].phase = "page" -> load' = [load EXCEPT ![l].pc = "revise"]
             [] load[l].phase = "first" /\ ans.incomplete -> AskAgain(l, "await", 0)
             [] load[l].since # Never /\ ~(load[l].phase = "first" /\ ans.incomplete) -> End(l)
             [] OTHER -> NextPage(l)
  /\ UNCHANGED <<revisions, catRev, latest>>

Load(l) ==
  \/ Begin(l) \/ ReadSince(l) \/ Ask(l) \/ RpcRows(l) \/ RpcDelta(l) \/ Fail(l)
  \/ ReceiveFirst(l) \/ ReceiveDrain(l) \/ ReceiveAwait(l) \/ ReceivePage(l)
  \/ Revise(l) \/ Apply(l)

HomeNext == OwnerStep \/ Restart \/ \E l \in Loader : Load(l)

HomeSpec == HomeInit /\ [][HomeNext]_vars

-----------------------------------------------------------------------------
\* "Quiet/live polls send sinceRevision so an unchanged owner returns no
\* rows": the revision that the next poll will send stands for the rows that
\* the home list shows.  With what the owner then answers, unless that is a
\* gap, the list comes to the owner's rows.
PollCatchesUp ==
  (catRev # Never /\ \A l \in Loader : load[l].pc = "idle") =>
    Gap(catRev) \/ Patched(view, DeltaSince(catRev)) = rows

\* The same where the list takes several pages and loads overtake each other:
\* only a list whose pages are of different revisions, one that was left
\* without its last pages, or one whose revision a superseded load has stored
\* goes astray.
WholeCatchesUp == whole => PollCatchesUp
=============================================================================
