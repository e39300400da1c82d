------------------------- MODULE CatalogHome_proofs -------------------------
(***************************************************************************)
(* What CatalogHome keeps, for any number of loads, sessions and owners.   *)
(*   HomeTypesKept      a revision that a list or a load carries is one    *)
(*                      that its owner, or an owner before it, has had     *)
(*   WholeListsCatchUp  a list of several pages of one revision stays      *)
(*                      right, whatever loads overtake each other          *)
(***************************************************************************)
EXTENDS CatalogHome, FiniteSetTheorems, WellFoundedInduction, TLAPS

\* A set of positions that is not empty has a last one.
LEMMA LastPosition ==
  ASSUME NEW n \in Nat, NEW I \in SUBSET (1 .. n), I # {}
  PROVE  \E i \in I : \A j \in I : j <= i
<1> DEFINE T == {k \in Nat : \E i \in I : i + k = n}
<1>1. T # {}
  <2>1. PICK i \in I : TRUE
    OBVIOUS
  <2>2. n - i \in Nat /\ i + (n - i) = n
    BY <2>1
  <2> QED
    BY <2>1, <2>2
<1>2. PICK k \in T : \A m \in T : ~(<<m, k>> \in OpToRel(<, Nat))
  BY <1>1, NatLessThanWellFounded, WFMin
<1>3. PICK i \in I : i + k = n
  BY <1>2
<1>4. \A m \in T : ~(m < k)
  BY <1>2 DEF OpToRel
<1>5. ASSUME NEW j \in I PROVE j <= i
  <2>1. n - j \in T
    BY DEF T
  <2>2. ~(n - j < k)
    BY <1>4, <2>1
  <2>3. k \in Nat /\ i + k = n
    BY <1>2, <1>3 DEF T
  <2>4. n \in Nat /\ i \in Nat /\ j \in Nat
    OBVIOUS
  <2> HIDE DEF T
  <2> QED
    BY <2>2, <2>3, <2>4
<1> QED
  BY <1>3, <1>5

-----------------------------------------------------------------------------
(* Patches.                                                                *)

Entry == [seq : Nat, patch : Patch]

\* What the patches ds may be at revision n.
Remembered(ds, n) ==
  /\ ds \in Seq(Entry) /\ Len(ds) <= DeltaKeep
  /\ \A i \in 1 .. Len(ds) : ds[i].seq \in 1 .. n

\* A function on some of the sessions to what may be shown is a patch.
LEMMA IsPatch ==
  ASSUME NEW D \in SUBSET Session, NEW f \in [D -> Shown]
  PROVE  f \in Patch
BY DEF Patch

LEMMA EmptyPatch == << >> \in Patch
<1>1. << >> \in [{} -> Shown]
  OBVIOUS
<1> QED
  BY <1>1 DEF Patch

LEMMA PatchedAreRows ==
  ASSUME NEW r \in Rows, NEW p \in Patch
  PROVE  Patched(r, p) \in Rows
BY DEF Patched, Patch, Rows

LEMMA BothIsPatch ==
  ASSUME NEW p \in Patch, NEW q \in Patch
  PROVE  Both(p, q) \in Patch
<1> DEFINE D == DOMAIN p \cup DOMAIN q
<1>1. D \in SUBSET Session
  BY DEF Patch
<1>2. Both(p, q) \in [D -> Shown]
  BY DEF Both, Patch
<1> QED
  BY <1>1, <1>2, IsPatch

LEMMA PageIsPatch ==
  ASSUME NEW r \in Rows, NEW offset
  PROVE  Page(r, offset) \in Patch
<1> DEFINE place(s) == Cardinality({t \in Session : t <= s /\ r[t] # Absent})
           page == {s \in Session : r[s] # Absent /\ place(s) \in offset + 1 .. offset + Limit}
<1>1. page \in SUBSET Session
  OBVIOUS
<1>2. Page(r, offset) = [s \in page |-> r[s]]
  BY DEF Page
<1> HIDE DEF page
<1>3. Page(r, offset) \in [page -> Shown]
  BY <1>1, <1>2 DEF Rows
<1> QED
  BY <1>1, <1>3, IsPatch

\* Per session that one of the newer patches names there is a last one that
\* does, so the delta is a patch.
LEMMA DeltaIsPatch ==
  ASSUME NEW n, Remembered(deltas, n), NEW since
  PROVE  DeltaSince(since) \in Patch
<1> DEFINE newer == {i \in DOMAIN deltas : deltas[i].seq > since[2]}
           named == UNION {DOMAIN deltas[i].patch : i \in newer}
           Names(s) == {i \in newer : s \in DOMAIN deltas[i].patch}
           Last(s) == CHOOSE i \in newer :
                        /\ s \in DOMAIN deltas[i].patch
                        /\ \A j \in newer : s \in DOMAIN deltas[j].patch => j <= i
<1>1. DOMAIN deltas = 1 .. Len(deltas) /\ Len(deltas) \in Nat
      /\ \A i \in 1 .. Len(deltas) : deltas[i].patch \in Patch
  <2>1. deltas \in Seq(Entry)
    BY DEF Remembered
  <2>2. \A i \in 1 .. Len(deltas) : deltas[i] \in Entry
    BY <2>1
  <2>3. \A i \in 1 .. Len(deltas) : deltas[i].patch \in Patch
    BY <2>2 DEF Entry
  <2> QED
    BY <2>1, <2>3
<1>2. newer \in SUBSET (1 .. Len(deltas))
  BY <1>1
<1> HIDE DEF newer
<1>3. named \in SUBSET Session
  BY <1>1, <1>2 DEF Patch
<1>4. ASSUME NEW s \in named PROVE deltas[Last(s)].patch[s] \in Shown
  <2>1. Names(s) # {} /\ Names(s) \in SUBSET (1 .. Len(deltas))
    BY <1>2
  <2>2. \E i \in Names(s) : \A j \in Names(s) : j <= i
    BY <1>1, <2>1, LastPosition
  <2>3. \E i \in newer : /\ s \in DOMAIN deltas[i].patch
                         /\ \A j \in newer : s \in DOMAIN deltas[j].patch => j <= i
    BY <2>2
  <2>4. Last(s) \in newer /\ s \in DOMAIN deltas[Last(s)].patch
    BY <2>3
  <2> HIDE DEF Last
  <2>5. deltas[Last(s)].patch \in Patch
    BY <1>1, <1>2, <2>4
  <2> QED
    BY <2>4, <2>5 DEF Patch
<1> HIDE DEF named, Last
<1>5. DeltaSince(since) = [s \in named |-> deltas[Last(s)].patch[s]]
  BY DEF DeltaSince, named, Last, newer
<1>6. DeltaSince(since) \in [named -> Shown]
  BY <1>4, <1>5
<1> QED
  BY <1>3, <1>6, IsPatch

-----------------------------------------------------------------------------
(* What the steps rely on: HomeTypeOK with the locals that it leaves open. *)

N == Cardinality(Session)

\* The revisions that owners up to the g-th may have had.
Revs(g) == {Never} \cup (1 .. g) \X (1 .. MaxSeq)

AnswerOf(g) ==
  [kind : {"none", "page", "unchanged", "delta"}, rev : Revs(g), patch : Patch,
   matched : 0 .. N, incomplete : BOOLEAN]

LoadPC == {"idle", "begun", "ask", "rows", "delta", "answered", "apply", "revise"}
LoadPhase == {"first", "drain", "await", "page"}
Heads == {0} \cup {First(p) : p \in Patch}

LoadOf(g) ==
  [pc : LoadPC, phase : LoadPhase, since : Revs(g), offset : 0 .. N, ans : AnswerOf(g),
   acc : Patch, head : Heads, revs : SUBSET Revs(g)]

OwnerOf(g, w, r, n, ds, b) ==
  /\ g \in 1 .. MaxRestarts + 1 /\ n \in 0 .. MaxSeq
  /\ w \in BOOLEAN /\ b \in {"off", "scan", "committed"}
  /\ r \in Rows /\ Remembered(ds, n)

OwnerOK == OwnerOf(gen, warm, rows, seq, deltas, building)
ListOK  == view \in Rows /\ catRev \in Revs(gen) /\ latest \in Loader /\ whole \in BOOLEAN
LoadsOK == load \in [Loader -> LoadOf(gen)]
HomeInv == OwnerOK /\ ListOK /\ LoadsOK

LEMMA CountSessions ==
  /\ N \in Nat
  /\ \A S \in SUBSET Session : Cardinality(S) \in 0 .. N
<1>1. IsFiniteSet(Session)
  BY HomeAssumption
<1>2. N \in Nat
  BY <1>1, FS_CardinalityType DEF N
<1>3. ASSUME NEW S \in SUBSET Session PROVE Cardinality(S) \in 0 .. N
  <2>1. IsFiniteSet(S) /\ Cardinality(S) <= N
    BY <1>1, FS_Subset DEF N
  <2> QED
    BY <1>2, <2>1, FS_CardinalityType
<1> QED
  BY <1>2, <1>3

LEMMA CountInRange ==
  ASSUME NEW r
  PROVE  Count(r) \in 0 .. N
BY CountSessions DEF Count

LEMMA SizeIsNat ==
  ASSUME NEW p \in Patch
  PROVE  Size(p) \in Nat
<1>1. DOMAIN p \in SUBSET Session
  BY DEF Patch
<1> QED
  BY <1>1, CountSessions DEF Size

\* The next page begins within the rows that are matched.
LEMMA NextOffsetInRange ==
  ASSUME NEW offset \in 0 .. N, NEW n \in Nat, NEW matched \in 0 .. N, NEW stalled \in BOOLEAN
  PROVE  NextOffset(offset, n, matched, stalled) \in 0 .. N
<1>1. CASE stalled \/ n < Limit \/ offset + n >= matched
  BY <1>1, CountSessions DEF NextOffset
<1>2. CASE ~(stalled \/ n < Limit \/ offset + n >= matched)
  <2>1. ~(offset + n >= matched)
    BY <1>2
  <2>2. offset + n \in 0 .. N
    BY <2>1, CountSessions
  <2> QED
    BY <1>2, <2>2 DEF NextOffset
<1> QED
  BY <1>1, <1>2

LEMMA RevisionInRange ==
  ASSUME OwnerOK
  PROVE  Revision \in Revs(gen)
BY HomeAssumption DEF OwnerOK, OwnerOf, Revision, Revs, Never

LEMMA RevsGrow ==
  ASSUME NEW g \in Nat
  PROVE  Revs(g) \subseteq Revs(g + 1)
BY DEF Revs

LEMMA LoadsGrow ==
  ASSUME NEW g \in Nat
  PROVE  LoadOf(g) \subseteq LoadOf(g + 1)
<1>1. AnswerOf(g) \subseteq AnswerOf(g + 1)
  BY RevsGrow DEF AnswerOf
<1> QED
  BY <1>1, RevsGrow DEF LoadOf

LEMMA NoLoadType ==
  ASSUME NEW g
  PROVE  NoAnswer \in AnswerOf(g) /\ NoLoad \in LoadOf(g)
<1>1. Never \in Revs(g)
  BY DEF Revs
<1>2. NoAnswer \in AnswerOf(g)
  BY <1>1, EmptyPatch, CountSessions DEF NoAnswer, AnswerOf
<1> HIDE DEF NoAnswer
<1>3. NoLoad \in LoadOf(g)
  BY <1>1, <1>2, EmptyPatch, CountSessions DEF NoLoad, LoadOf, LoadPC, LoadPhase, Heads
<1> QED
  BY <1>2, <1>3

\* Loads keep their type when the one that steps does.
LEMMA OneLoad ==
  ASSUME LoadsOK, NEW l \in Loader, NEW x \in LoadOf(gen), load' = [load EXCEPT ![l] = x],
         gen' = gen
  PROVE  LoadsOK'
BY DEF LoadsOK

\* Where a load is may change by itself.
LEMMA MovedLoad ==
  ASSUME NEW g, NEW x \in LoadOf(g), NEW pc \in LoadPC
  PROVE  [x EXCEPT !.pc = pc] \in LoadOf(g)
BY DEF LoadOf

LEMMA AnsweredLoad ==
  ASSUME OwnerOK, LoadsOK, NEW l \in Loader,
         NEW kind \in {"page", "unchanged", "delta"}, NEW rev \in Revs(gen),
         NEW patch \in Patch, NEW matched \in 0 .. N, NEW incomplete \in BOOLEAN,
         Answer(l, kind, rev, patch, matched, incomplete), gen' = gen
  PROVE  LoadsOK'
<1> DEFINE ans == [kind |-> kind, rev |-> rev, patch |-> patch,
                   matched |-> matched, incomplete |-> incomplete]
           x == [load[l] EXCEPT !.pc = "answered", !.revs = @ \cup {rev}, !.ans = ans]
<1>1. ans \in AnswerOf(gen)
  BY DEF AnswerOf
<1>2. load' = [load EXCEPT ![l] = x]
  BY DEF Answer, LoadsOK, LoadOf
<1> HIDE DEF ans
<1>3. x \in LoadOf(gen)
  BY <1>1 DEF LoadsOK, LoadOf, LoadPC
<1> HIDE DEF x
<1> QED
  BY <1>2, <1>3, OneLoad

LEMMA AskedAgain ==
  ASSUME LoadsOK, NEW l \in Loader, NEW phase \in LoadPhase, NEW offset \in 0 .. N,
         AskAgain(l, phase, offset), gen' = gen
  PROVE  LoadsOK'
<1> DEFINE x == [load[l] EXCEPT !.pc = "ask", !.phase = phase, !.offset = offset,
                                !.ans = NoAnswer, !.revs = IF phase = "page" THEN @ ELSE {}]
<1>1. load' = [load EXCEPT ![l] = x]
  BY DEF AskAgain, LoadsOK
<1>2. NoAnswer \in AnswerOf(gen)
  BY NoLoadType
<1>3. load[l] \in LoadOf(gen)
  BY DEF LoadsOK
<1> HIDE DEF NoAnswer
<1>4. x \in LoadOf(gen)
  BY <1>2, <1>3 DEF LoadOf, LoadPC
<1> HIDE DEF x
<1> QED
  BY <1>1, <1>4, OneLoad

LEMMA Ended ==
  ASSUME LoadsOK, NEW l \in Loader, End(l), gen' = gen
  PROVE  LoadsOK'
BY NoLoadType, OneLoad DEF End

\* The page after an answer is asked for, or the load ends.
LEMMA PageFollows ==
  ASSUME LoadsOK, NEW l \in Loader, NextPage(l), gen' = gen
  PROVE  LoadsOK'
<1> DEFINE ans == load[l].ans
           next == NextOffset(load[l].offset, Size(ans.patch), ans.matched, ans.incomplete)
<1>1. /\ load[l].offset \in 0 .. N /\ ans.patch \in Patch
      /\ ans.matched \in 0 .. N /\ ans.incomplete \in BOOLEAN
  BY DEF LoadsOK, LoadOf, AnswerOf
<1>2. next \in 0 .. N
  BY <1>1, SizeIsNat, NextOffsetInRange
<1>3. End(l) \/ AskAgain(l, "page", next)
  BY DEF NextPage
<1>4. "page" \in LoadPhase
  BY DEF LoadPhase
<1> HIDE DEF next
<1> QED
  BY <1>2, <1>3, <1>4, Ended, AskedAgain

-----------------------------------------------------------------------------
(* The steps.                                                              *)

\* Remembering a patch keeps the last DeltaKeep, and the new one is the youngest.
LEMMA RememberKeeps ==
  ASSUME Remembered(deltas, seq), seq \in Nat, NEW p \in Patch
  PROVE  Remembered(Remember(p), seq + 1)
<1> DEFINE e == [seq |-> seq + 1, patch |-> p]
           ds == Append(deltas, e)
<1>1. e \in Entry /\ e.seq = seq + 1
  BY DEF Entry
<1> HIDE DEF e
<1>2. ds \in Seq(Entry) /\ Len(ds) = Len(deltas) + 1
  BY <1>1 DEF Remembered
<1>3. \A i \in 1 .. Len(ds) : ds[i].seq \in 1 .. seq + 1
  BY <1>1, <1>2 DEF Remembered
<1>4. Remember(p) = IF Len(ds) > DeltaKeep THEN Tail(ds) ELSE ds
  BY DEF Remember, e
<1> HIDE DEF ds
<1>5. CASE Len(ds) > DeltaKeep
  <2>1. Len(ds) >= 1 /\ ds # << >> /\ Len(ds) \in Nat
    BY <1>2 DEF Remembered
  <2>2. Tail(ds) \in Seq(Entry) /\ Len(Tail(ds)) = Len(ds) - 1
    BY <1>2, <2>1
  <2>3. \A i \in 1 .. Len(Tail(ds)) : Tail(ds)[i] = ds[i + 1]
    BY <1>2, <2>1
  <2>4. \A i \in 1 .. Len(Tail(ds)) : Tail(ds)[i].seq \in 1 .. seq + 1
    BY <1>3, <2>1, <2>2, <2>3
  <2>5. Len(Tail(ds)) <= DeltaKeep
    BY <1>2, <2>1, <2>2, RevisionsAssumption DEF Remembered
  <2> QED
    BY <1>4, <1>5, <2>2, <2>4, <2>5 DEF Remembered
<1>6. CASE ~(Len(ds) > DeltaKeep)
  <2>1. Len(ds) \in Nat /\ DeltaKeep \in Nat
    BY <1>2, RevisionsAssumption
  <2> QED
    BY <1>2, <1>3, <1>4, <1>6, <2>1 DEF Remembered
<1> QED
  BY <1>5, <1>6

LEMMA ColdOwner ==
  ASSUME NEW g \in 1 .. MaxRestarts + 1, NEW w, NEW r, NEW n, NEW ds, NEW b,
         w = FALSE, r = Nothing, n = 0, ds = << >>, b = "off"
  PROVE  OwnerOf(g, w, r, n, ds, b)
<1>1. n \in 0 .. MaxSeq
  BY HomeAssumption
<1>2. w \in BOOLEAN
  BY Zenon
<1>3. r \in Rows
  BY DEF Nothing, Rows, Shown
<1>4. Remembered(ds, n)
  BY RevisionsAssumption DEF Remembered
<1> QED
  BY <1>1, <1>2, <1>3, <1>4 DEF OwnerOf

LEMMA InitHolds == HomeInit => HomeInv
<1> SUFFICES ASSUME HomeInit PROVE HomeInv
  OBVIOUS
<1>1. OwnerOK
  <2>1. gen \in 1 .. MaxRestarts + 1
    BY HomeAssumption DEF HomeInit, RevisionsInit
  <2> QED
    BY <2>1, ColdOwner DEF HomeInit, RevisionsInit, ColdStart, OwnerOK
<1>2. ListOK
  <2>1. whole \in BOOLEAN
    BY Zenon DEF HomeInit
  <2>2. view \in Rows /\ catRev \in Revs(gen) /\ latest \in Loader
    BY DEF HomeInit, Nothing, Rows, Shown, Revs
  <2> QED
    BY <2>1, <2>2 DEF ListOK
<1>3. LoadsOK
  <2>1. load = [l \in Loader |-> NoLoad]
    BY DEF HomeInit
  <2> QED
    BY <2>1, NoLoadType DEF LoadsOK
<1> QED
  BY <1>1, <1>2, <1>3 DEF HomeInv

\* A step of the owner that leaves the apps alone.
LEMMA OwnerSteps ==
  ASSUME HomeInv, OwnerStep
  PROVE  HomeInv'
<1> USE DEF OwnerStep, home
<1>1. gen' = gen /\ UNCHANGED home
  BY DEF StartRebuild, Rebuilt, EndRebuild, ApplyPatch
<1>2. ListOK' /\ LoadsOK'
  BY <1>1 DEF HomeInv, ListOK, LoadsOK
<1>3. OwnerOK'
  <2>1. CASE StartRebuild \/ EndRebuild
    BY <2>1 DEF HomeInv, OwnerOK, OwnerOf, StartRebuild, EndRebuild
  <2>2. CASE Rebuilt
    <3>1. seq' \in 0 .. MaxSeq /\ gen' \in 1 .. MaxRestarts + 1 /\ rows' \in Rows
      BY <2>2, HomeAssumption DEF HomeInv, OwnerOK, OwnerOf, Rebuilt
    <3>2. Remembered(deltas', seq')
      BY <2>2, RevisionsAssumption DEF Rebuilt, Remembered
    <3>3. warm' \in BOOLEAN
      BY <2>2, Zenon DEF Rebuilt
    <3>4. building' \in {"off", "scan", "committed"}
      BY <2>2 DEF Rebuilt
    <3> QED
      BY <3>1, <3>2, <3>3, <3>4 DEF OwnerOK, OwnerOf
  <2>3. ASSUME NEW p \in Patch, ApplyPatch(p) PROVE OwnerOK'
    <3>1. seq' \in 0 .. MaxSeq /\ gen' \in 1 .. MaxRestarts + 1 /\ seq \in Nat
      BY <2>3, HomeAssumption DEF HomeInv, OwnerOK, OwnerOf, ApplyPatch
    <3>2. Remembered(Remember(p), seq + 1)
      BY <3>1, RememberKeeps DEF HomeInv, OwnerOK, OwnerOf
    <3>3. Remembered(deltas', seq')
      BY <2>3, <3>2 DEF ApplyPatch
    <3>4. rows' \in Rows
      BY <2>3, PatchedAreRows DEF ApplyPatch, HomeInv, OwnerOK, OwnerOf
    <3>5. warm' \in BOOLEAN /\ building' \in {"off", "scan", "committed"}
      BY <2>3 DEF ApplyPatch, HomeInv, OwnerOK, OwnerOf
    <3> QED
      BY <3>1, <3>3, <3>4, <3>5 DEF OwnerOK, OwnerOf
  <2> QED
    BY <2>1, <2>2, <2>3
<1> QED
  BY <1>2, <1>3 DEF HomeInv

\* The revisions that the apps hold are those of an owner before the new one.
LEMMA RestartStep ==
  ASSUME HomeInv, Restart
  PROVE  HomeInv'
<1> USE DEF Restart
<1>1. gen \in Nat /\ gen' = gen + 1 /\ gen' \in 1 .. MaxRestarts + 1
  BY HomeAssumption DEF Restarted, HomeInv, OwnerOK, OwnerOf
<1>2. OwnerOK'
  BY <1>1, ColdOwner DEF Restarted, OwnerOK
<1>3. ListOK'
  <2>1. catRev \in Revs(gen + 1)
    BY <1>1, RevsGrow DEF HomeInv, ListOK
  <2> QED
    BY <1>1, <2>1 DEF HomeInv, ListOK
<1>4. LoadsOK'
  <2>1. \A l \in Loader : load[l] \in LoadOf(gen + 1) /\ NoLoad \in LoadOf(gen + 1)
    BY <1>1, LoadsGrow, NoLoadType DEF HomeInv, LoadsOK
  <2> QED
    BY <1>1, <2>1 DEF LoadsOK
<1> QED
  BY <1>2, <1>3, <1>4 DEF HomeInv

-----------------------------------------------------------------------------
(* The steps of a load.                                                    *)

\* What a load holds has the shape of a load.
LEMMA LoadFields ==
  ASSUME LoadsOK, NEW l \in Loader
  PROVE  /\ load[l] \in LoadOf(gen) /\ load[l].ans \in AnswerOf(gen)
         /\ load[l].offset \in 0 .. N /\ load[l].since \in Revs(gen) /\ load[l].acc \in Patch
         /\ load[l].ans.rev \in Revs(gen) /\ load[l].ans.patch \in Patch
         /\ load[l].ans.matched \in 0 .. N /\ load[l].ans.incomplete \in BOOLEAN
<1>1. load[l] \in LoadOf(gen)
  BY DEF LoadsOK
<1>2. load[l].ans \in AnswerOf(gen) /\ load[l].offset \in 0 .. N
      /\ load[l].since \in Revs(gen) /\ load[l].acc \in Patch
  BY <1>1 DEF LoadOf
<1> QED
  BY <1>1, <1>2 DEF AnswerOf

\* A load that only moves on.
LEMMA MovesOn ==
  ASSUME LoadsOK, NEW l \in Loader, NEW pc \in LoadPC,
         load' = [load EXCEPT ![l].pc = pc], gen' = gen
  PROVE  LoadsOK'
<1> DEFINE x == [load[l] EXCEPT !.pc = pc]
<1>1. x \in LoadOf(gen)
  BY LoadFields, MovedLoad
<1>2. load' = [load EXCEPT ![l] = x]
  BY DEF LoadsOK
<1> HIDE DEF x
<1> QED
  BY <1>1, <1>2, OneLoad

LEMMA AskStep ==
  ASSUME HomeInv, NEW l \in Loader, Ask(l)
  PROVE  HomeInv'
<1> USE DEF Ask
<1>1. building' \in {"off", "scan", "committed"}
  BY DEF HomeInv, OwnerOK, OwnerOf
<1>2. OwnerOK'
  BY <1>1 DEF HomeInv, OwnerOK, OwnerOf
<1>3. LoadsOK'
  BY MovesOn DEF HomeInv, LoadPC
<1> QED
  BY <1>2, <1>3 DEF HomeInv, ListOK

LEMMA RpcRowsStep ==
  ASSUME HomeInv, NEW l \in Loader, RpcRows(l)
  PROVE  LoadsOK'
<1> DEFINE incomplete == ~warm \/ building # "off"
<1>1. gen' = gen
  BY DEF RpcRows, revisions
<1>2. Revision \in Revs(gen) /\ rows \in Rows
  BY RevisionInRange DEF HomeInv, OwnerOK, OwnerOf
<1>3. incomplete \in BOOLEAN
  OBVIOUS
<1> HIDE DEF incomplete
<1>4. CASE Answer(l, "page", Revision, Page(rows, load[l].offset), Count(rows), incomplete)
  <2>1. Page(rows, load[l].offset) \in Patch /\ Count(rows) \in 0 .. N
    BY <1>2, PageIsPatch, CountInRange
  <2> QED
    BY <1>1, <1>2, <1>3, <1>4, <2>1, AnsweredLoad DEF HomeInv
<1>5. CASE Answer(l, "unchanged", Revision, << >>, 0, incomplete)
  <2>1. << >> \in Patch /\ 0 \in 0 .. N
    BY EmptyPatch, CountSessions
  <2> QED
    BY <1>1, <1>2, <1>3, <1>5, <2>1, AnsweredLoad DEF HomeInv
<1>6. CASE load' = [load EXCEPT
             ![l].pc = "delta",
             ![l].ans = [NoAnswer EXCEPT !.rev = Revision, !.incomplete = incomplete]]
  <2> DEFINE ans == [NoAnswer EXCEPT !.rev = Revision, !.incomplete = incomplete]
             x == [load[l] EXCEPT !.pc = "delta", !.ans = ans]
  <2>1. NoAnswer \in AnswerOf(gen)
    BY NoLoadType
  <2>2. ans \in AnswerOf(gen)
    BY <1>2, <1>3, <2>1 DEF AnswerOf
  <2>3. load' = [load EXCEPT ![l] = x]
    BY <1>6 DEF HomeInv, LoadsOK
  <2> HIDE DEF ans
  <2>4. load[l] \in LoadOf(gen)
    BY LoadFields DEF HomeInv
  <2>5. x \in LoadOf(gen)
    BY <2>2, <2>4 DEF LoadOf, LoadPC
  <2> HIDE DEF x
  <2> QED
    BY <1>1, <2>3, <2>5, OneLoad DEF HomeInv
<1> QED
  BY <1>4, <1>5, <1>6 DEF RpcRows, incomplete

LEMMA RpcDeltaStep ==
  ASSUME HomeInv, NEW l \in Loader, RpcDelta(l)
  PROVE  LoadsOK'
<1> DEFINE gap == Gap(load[l].since)
           kind == IF gap THEN "page" ELSE "delta"
           patch == IF gap THEN << >> ELSE DeltaSince(load[l].since)
<1>1. gen' = gen
  BY DEF RpcDelta, revisions
<1>2. kind \in {"page", "unchanged", "delta"}
  OBVIOUS
<1>3. patch \in Patch
  BY EmptyPatch, DeltaIsPatch DEF HomeInv, OwnerOK, OwnerOf
<1>4. Answer(l, kind, load[l].ans.rev, patch, 0, load[l].ans.incomplete)
  BY DEF RpcDelta
<1>5. 0 \in 0 .. N
  BY CountSessions
<1> HIDE DEF kind, patch
<1> QED
  BY <1>1, <1>2, <1>3, <1>4, <1>5, LoadFields, AnsweredLoad DEF HomeInv

LEMMA ReceiveFirstStep ==
  ASSUME LoadsOK, gen' = gen, NEW l \in Loader, ReceiveFirst(l)
  PROVE  LoadsOK'
<1>1. "drain" \in LoadPhase /\ 0 \in 0 .. N /\ "revise" \in LoadPC
  BY CountSessions DEF LoadPhase, LoadPC
<1>2. \/ End(l) \/ AskAgain(l, "drain", 0)
      \/ load' = [load EXCEPT ![l].pc = "revise"]
  BY DEF ReceiveFirst
<1> QED
  BY <1>1, <1>2, Ended, AskedAgain, MovesOn

LEMMA ReceiveDrainStep ==
  ASSUME LoadsOK, gen' = gen, NEW l \in Loader, ReceiveDrain(l)
  PROVE  LoadsOK'
<1> DEFINE ans == load[l].ans
           again == load[l].offset > 0 /\ Size(ans.patch) > 0 /\ First(ans.patch) = load[l].head
           acc == IF again THEN load[l].acc ELSE Both(load[l].acc, ans.patch)
           next == IF again THEN 0
                   ELSE NextOffset(load[l].offset, Size(ans.patch), ans.matched, FALSE)
           head == IF load[l].offset = 0 THEN First(ans.patch) ELSE load[l].head
<1>1. load[l] \in LoadOf(gen) /\ ans \in AnswerOf(gen) /\ ans.patch \in Patch
  BY LoadFields
<1>2. acc \in Patch
  BY LoadFields, BothIsPatch
<1>3. next \in 0 .. N
  <2>1. load[l].offset \in 0 .. N /\ Size(ans.patch) \in Nat /\ ans.matched \in 0 .. N
    BY LoadFields, SizeIsNat
  <2>2. FALSE \in BOOLEAN
    OBVIOUS
  <2>3. NextOffset(load[l].offset, Size(ans.patch), ans.matched, FALSE) \in 0 .. N
    BY <2>1, <2>2, NextOffsetInRange
  <2>4. 0 \in 0 .. N
    BY CountSessions
  <2> QED
    BY <2>3, <2>4
<1>4. head \in Heads
  BY <1>1 DEF LoadOf, Heads
<1>5. \/ load' = [load EXCEPT ![l].pc = "ask", ![l].offset = next, ![l].ans = NoAnswer,
                              ![l].acc = acc, ![l].head = head]
      \/ End(l)
      \/ load' = [load EXCEPT ![l] =
           [load[l] EXCEPT !.ans = [load[l].ans EXCEPT !.patch = acc, !.incomplete = FALSE],
                     !.pc = "revise", !.acc = << >>, !.head = 0]]
  BY DEF ReceiveDrain
<1> HIDE DEF acc, next, head
<1>6. CASE load' = [load EXCEPT ![l].pc = "ask", ![l].offset = next, ![l].ans = NoAnswer,
                                ![l].acc = acc, ![l].head = head]
  <2> DEFINE x == [load[l] EXCEPT !.pc = "ask", !.offset = next, !.ans = NoAnswer,
                                  !.acc = acc, !.head = head]
  <2>1. NoAnswer \in AnswerOf(gen)
    BY NoLoadType
  <2>2. load' = [load EXCEPT ![l] = x]
    BY <1>6 DEF LoadsOK
  <2> HIDE DEF NoAnswer
  <2>3. x \in LoadOf(gen)
    BY <1>1, <1>2, <1>3, <1>4, <2>1 DEF LoadOf, LoadPC
  <2> HIDE DEF x
  <2> QED
    BY <2>2, <2>3, OneLoad
<1>7. CASE load' = [load EXCEPT ![l] =
             [load[l] EXCEPT !.ans = [load[l].ans EXCEPT !.patch = acc, !.incomplete = FALSE],
                       !.pc = "revise", !.acc = << >>, !.head = 0]]
  <2> DEFINE a == [ans EXCEPT !.patch = acc, !.incomplete = FALSE]
             x == [load[l] EXCEPT !.ans = a, !.pc = "revise", !.acc = << >>, !.head = 0]
  <2>1. a \in AnswerOf(gen)
    BY <1>1, <1>2 DEF AnswerOf
  <2>2. load' = [load EXCEPT ![l] = x]
    BY <1>7
  <2> HIDE DEF a
  <2>3. x \in LoadOf(gen)
    BY <1>1, <2>1, EmptyPatch DEF LoadOf, LoadPC, Heads
  <2> HIDE DEF x
  <2> QED
    BY <2>2, <2>3, OneLoad
<1> QED
  BY <1>5, <1>6, <1>7, Ended

LEMMA ReceiveMoreStep ==
  ASSUME LoadsOK, gen' = gen, NEW l \in Loader, ReceiveAwait(l) \/ ReceivePage(l)
  PROVE  LoadsOK'
<1>1. "await" \in LoadPhase /\ 0 \in 0 .. N /\ "revise" \in LoadPC /\ "apply" \in LoadPC
  BY CountSessions DEF LoadPhase, LoadPC
<1>2. \/ End(l) \/ AskAgain(l, "await", 0)
      \/ load' = [load EXCEPT ![l].pc = "revise"]
      \/ load' = [load EXCEPT ![l].pc = "apply"]
  BY DEF ReceiveAwait, ReceivePage
<1> QED
  BY <1>1, <1>2, Ended, AskedAgain, MovesOn

LEMMA ReviseStep ==
  ASSUME HomeInv, NEW l \in Loader, Revise(l)
  PROVE  ListOK' /\ LoadsOK'
<1> USE DEF HomeInv
<1>1. gen' = gen
  BY DEF Revise, revisions
<1>2. ListOK'
  BY <1>1, LoadFields DEF Revise, ListOK
<1>3. NextPage(l) \/ load' = [load EXCEPT ![l].pc = "apply"]
  BY DEF Revise
<1>4. "apply" \in LoadPC
  BY DEF LoadPC
<1> QED
  BY <1>1, <1>2, <1>3, <1>4, PageFollows, MovesOn

LEMMA ApplyStep ==
  ASSUME HomeInv, NEW l \in Loader, Apply(l)
  PROVE  ListOK' /\ LoadsOK'
<1> USE DEF HomeInv
<1>1. gen' = gen /\ catRev' = catRev /\ latest' = latest
  BY DEF Apply, revisions
<1>2. view' \in Rows
  <2>1. Nothing \in Rows /\ view \in Rows
    BY DEF Nothing, Rows, Shown, ListOK
  <2> QED
    BY <2>1, LoadFields, PatchedAreRows DEF Apply
<1>3. whole' \in BOOLEAN
  <2>1. \/ whole' = FALSE \/ whole' = whole
        \/ whole' = (Cardinality(load[l].revs) = 1 /\ Count(view') = load[l].ans.matched)
    BY DEF Apply
  <2>2. whole \in BOOLEAN
    BY DEF ListOK
  <2> QED
    BY <2>1, <2>2, Zenon
<1>4. \/ End(l) \/ load' = [load EXCEPT ![l].pc = "revise"]
      \/ AskAgain(l, "await", 0) \/ NextPage(l)
  BY DEF Apply
<1>5. "await" \in LoadPhase /\ 0 \in 0 .. N /\ "revise" \in LoadPC
  BY CountSessions DEF LoadPhase, LoadPC
<1> QED
  BY <1>1, <1>2, <1>3, <1>4, <1>5, Ended, MovesOn, AskedAgain, PageFollows DEF ListOK

\* The steps of a load but Ask leave the owner alone, and those but Revise and
\* Apply the list.
LEMMA LoadStep ==
  ASSUME HomeInv, NEW l \in Loader, Load(l)
  PROVE  HomeInv'
<1>1. CASE Ask(l)
  BY <1>1, AskStep
<1>2. CASE Revise(l) \/ Apply(l)
  <2>1. OwnerOK'
    BY <1>2 DEF Revise, Apply, revisions, HomeInv, OwnerOK, OwnerOf
  <2> QED
    BY <1>2, <2>1, ReviseStep, ApplyStep DEF HomeInv
<1>3. ASSUME UNCHANGED revisions, LoadsOK', view' = view, catRev' = catRev,
             latest' \in Loader, whole' = whole
      PROVE  HomeInv'
  BY <1>3 DEF revisions, HomeInv, OwnerOK, OwnerOf, ListOK
<1>4. CASE Begin(l)
  <2>1. LoadsOK'
    BY <1>4, MovesOn DEF Begin, revisions, HomeInv, LoadPC
  <2> QED
    BY <1>3, <1>4, <2>1 DEF Begin
<1>5. CASE ReadSince(l)
  <2>1. PICK since \in {Never, catRev} :
          load' = [load EXCEPT ![l].pc = "ask", ![l].since = since]
    BY <1>5 DEF ReadSince
  <2> DEFINE x == [load[l] EXCEPT !.pc = "ask", !.since = since]
  <2>2. load[l] \in LoadOf(gen) /\ since \in Revs(gen)
    BY <2>1, LoadFields DEF HomeInv, ListOK, Revs
  <2>3. load' = [load EXCEPT ![l] = x]
    BY <2>1 DEF HomeInv, LoadsOK
  <2>4. x \in LoadOf(gen)
    BY <2>2 DEF LoadOf, LoadPC
  <2> HIDE DEF x
  <2>5. LoadsOK'
    BY <1>5, <2>3, <2>4, OneLoad DEF ReadSince, revisions, HomeInv
  <2> QED
    BY <1>3, <1>5, <2>5 DEF ReadSince, HomeInv, ListOK
<1>6. CASE RpcRows(l) \/ RpcDelta(l)
  <2>1. LoadsOK'
    BY <1>6, RpcRowsStep, RpcDeltaStep
  <2> QED
    BY <1>3, <1>6, <2>1 DEF RpcRows, RpcDelta, HomeInv, ListOK
<1>7. CASE Fail(l)
  <2>1. LoadsOK'
    BY <1>7, Ended DEF Fail, End, revisions, HomeInv
  <2> QED
    BY <1>3, <1>7, <2>1 DEF Fail, HomeInv, ListOK
<1>8. CASE ReceiveFirst(l) \/ ReceiveDrain(l) \/ ReceiveAwait(l) \/ ReceivePage(l)
  <2>1. UNCHANGED <<revisions, view, catRev, latest, whole>> /\ gen' = gen
    BY <1>8 DEF ReceiveFirst, ReceiveDrain, ReceiveAwait, ReceivePage, revisions
  <2>2. LoadsOK'
    BY <1>8, <2>1, ReceiveFirstStep, ReceiveDrainStep, ReceiveMoreStep DEF HomeInv
  <2> QED
    BY <1>3, <2>1, <2>2 DEF HomeInv, ListOK
<1> QED
  BY <1>1, <1>2, <1>4, <1>5, <1>6, <1>7, <1>8 DEF Load

LEMMA InvHolds == HomeSpec => []HomeInv
<1>1. HomeInv /\ [HomeNext]_vars => HomeInv'
  <2> SUFFICES ASSUME HomeInv, [HomeNext]_vars PROVE HomeInv'
    OBVIOUS
  <2>1. CASE UNCHANGED vars
    BY <2>1 DEF vars, home, revisions, HomeInv, OwnerOK, OwnerOf, ListOK, LoadsOK
  <2> QED
    BY <2>1, OwnerSteps, RestartStep, LoadStep DEF HomeNext
<1> QED
  BY <1>1, InitHolds, PTL DEF HomeSpec

\* The owner's rows and patches, the home list and its loads keep their types,
\* however loads and restarts interleave: the revision that the list will ask
\* since is one that this owner or an earlier one has had, and no page begins
\* past the last session.
THEOREM HomeTypesKept == HomeSpec => []HomeTypeOK
<1>1. HomeInv => HomeTypeOK
  <2> SUFFICES ASSUME HomeInv PROVE HomeTypeOK
    OBVIOUS
  <2>1. \A i \in DOMAIN deltas : deltas[i].seq \in 1 .. seq /\ deltas[i].patch \in Patch
    <3>1. deltas \in Seq(Entry) /\ \A i \in 1 .. Len(deltas) : deltas[i].seq \in 1 .. seq
      BY DEF HomeInv, OwnerOK, OwnerOf, Remembered
    <3>2. DOMAIN deltas = 1 .. Len(deltas) /\ \A i \in 1 .. Len(deltas) : deltas[i] \in Entry
      BY <3>1
    <3> QED
      BY <3>1, <3>2 DEF Entry
  <2>2. Len(deltas) <= DeltaKeep
    BY DEF HomeInv, OwnerOK, OwnerOf, Remembered
  <2>3. \A l \in Loader :
          /\ load[l].pc \in LoadPC /\ load[l].phase \in LoadPhase
          /\ load[l].offset \in 0 .. N
          /\ load[l].ans.patch \in Patch /\ load[l].acc \in Patch
          /\ load[l].revs \subseteq Revs(gen)
    BY LoadFields DEF HomeInv, LoadOf
  <2> QED
    BY <2>1, <2>2, <2>3 DEF HomeInv, OwnerOK, OwnerOf, ListOK, HomeTypeOK,
                           LoadPC, LoadPhase, Revs, N
<1> QED
  BY <1>1, InvHolds, PTL

-----------------------------------------------------------------------------
(* A list and the revision that it will ask since lead to the owner's      *)
(* rows: the patches that are remembered say where the list is behind.     *)

\* No delta leads from x to the revision n of the owner g that remembers ds.
GapOf(x, g, n, ds) ==
  \/ x[2] = 0 \/ x[1] # g \/ x[2] > n
  \/ x[2] < n /\ (ds = << >> \/ ds[1].seq > x[2] + 1)

\* Where v is not what r is, one of the patches ds after x says so.
AgreeOf(x, v, ds, r) ==
  \A s \in Session :
    v[s] # r[s] => \E i \in 1 .. Len(ds) : ds[i].seq > x[2] /\ s \in DOMAIN ds[i].patch

LeadOf(x, v, g, n, ds, r) == GapOf(x, g, n, ds) \/ AgreeOf(x, v, ds, r)

PastOf(x, g, n) == x[1] = g => x[2] <= n

\* The patches ds are those up to revision n, and where several name a session
\* the last one says what r does.
HistoryOf(ds, n, r) ==
  /\ \A i \in 1 .. Len(ds) : ds[i].seq = (n - Len(ds)) + i
  /\ \A i \in 1 .. Len(ds) : \A s \in DOMAIN ds[i].patch :
       (\A j \in 1 .. Len(ds) : j > i => s \notin DOMAIN ds[j].patch)
         => ds[i].patch[s] = r[s]

\* The answer of a load is one that it installs, and what it then shows.
News(x) ==
  \/ x.ans.kind = "delta"
  \/ x.ans.kind = "page" /\ (x.phase # "first" \/ x.since = Never)
Will(x, v) == Patched(IF x.ans.kind = "delta" THEN v ELSE Nothing, x.ans.patch)

\* What is remembered: the patches but perhaps the first, and then the new one.
LEMMA RememberedAt ==
  ASSUME Remembered(deltas, seq), NEW p
  PROVE  \E k \in {0, 1} :
           /\ Len(Remember(p)) = Len(deltas) + 1 - k /\ Len(deltas) >= k
           /\ \A i \in 1 .. Len(Remember(p)) :
                Remember(p)[i] = IF i + k = Len(deltas) + 1 THEN [seq |-> seq + 1, patch |-> p]
                                 ELSE deltas[i + k]
<1> DEFINE e == [seq |-> seq + 1, patch |-> p]
           ds == Append(deltas, e)
<1>1. Remember(p) = IF Len(ds) > DeltaKeep THEN Tail(ds) ELSE ds
  BY DEF Remember
<1> HIDE DEF e
<1>2. deltas \in Seq(Entry) /\ Len(deltas) \in Nat
  BY DEF Remembered
<1>3. Len(ds) = Len(deltas) + 1 /\ ds \in Seq(Entry \cup {e})
      /\ \A i \in 1 .. Len(ds) : ds[i] = IF i = Len(deltas) + 1 THEN e ELSE deltas[i]
  BY <1>2
<1> HIDE DEF ds
<1>4. CASE Len(ds) > DeltaKeep
  <2>1. Len(deltas) >= 1 /\ Len(ds) >= 1 /\ ds # << >>
    BY <1>2, <1>3, <1>4, RevisionsAssumption
  <2>2. Len(Tail(ds)) = Len(ds) - 1 /\ \A i \in 1 .. Len(Tail(ds)) : Tail(ds)[i] = ds[i + 1]
    BY <1>3, <2>1
  <2>3. /\ Len(Remember(p)) = Len(deltas) + 1 - 1
        /\ \A i \in 1 .. Len(Remember(p)) :
             Remember(p)[i] = IF i + 1 = Len(deltas) + 1 THEN e ELSE deltas[i + 1]
    BY <1>1, <1>2, <1>3, <1>4, <2>2
  <2> QED
    BY <2>1, <2>3 DEF e
<1>5. CASE ~(Len(ds) > DeltaKeep)
  <2>1. /\ Len(Remember(p)) = Len(deltas) + 1 - 0 /\ Len(deltas) >= 0
        /\ \A i \in 1 .. Len(Remember(p)) :
             Remember(p)[i] = IF i + 0 = Len(deltas) + 1 THEN e ELSE deltas[i + 0]
    BY <1>1, <1>2, <1>3, <1>5
  <2> QED
    BY <2>1 DEF e
<1> QED
  BY <1>4, <1>5

\* A remembered patch continues the history.
LEMMA HistoryGrows ==
  ASSUME Remembered(deltas, seq), HistoryOf(deltas, seq, rows), seq \in Nat, rows \in Rows,
         NEW p \in Patch
  PROVE  HistoryOf(Remember(p), seq + 1, Patched(rows, p))
<1> DEFINE e == [seq |-> seq + 1, patch |-> p]
           ds == Remember(p)
           r == Patched(rows, p)
           L == Len(deltas)
<1>1. PICK k \in {0, 1} :
        /\ Len(ds) = L + 1 - k /\ L >= k
        /\ \A i \in 1 .. Len(ds) : ds[i] = IF i + k = L + 1 THEN e ELSE deltas[i + k]
  BY RememberedAt
<1>2. L \in Nat
  BY DEF Remembered
<1>3. e.seq = seq + 1 /\ e.patch = p
  OBVIOUS
<1> HIDE DEF ds, e
<1>4. ASSUME NEW i \in 1 .. Len(ds) PROVE ds[i].seq = (seq + 1 - Len(ds)) + i
  <2>1. CASE i + k = L + 1
    BY <1>1, <1>2, <1>3, <2>1
  <2>2. CASE i + k # L + 1
    <3>1. ds[i] = deltas[i + k] /\ i + k \in 1 .. L
      BY <1>1, <1>2, <2>2
    <3>2. deltas[i + k].seq = (seq - L) + (i + k)
      BY <3>1 DEF HistoryOf
    <3> QED
      BY <1>1, <1>2, <3>1, <3>2
  <2> QED
    BY <2>1, <2>2
<1>5. ASSUME NEW i \in 1 .. Len(ds), NEW s \in DOMAIN ds[i].patch,
             \A j \in 1 .. Len(ds) : j > i => s \notin DOMAIN ds[j].patch
      PROVE  ds[i].patch[s] = r[s]
  <2>1. Len(ds) \in 1 .. Len(ds) /\ Len(ds) + k = L + 1
    BY <1>1, <1>2
  <2>2. ds[Len(ds)] = e
    BY <1>1, <2>1
  <2>3. CASE i = Len(ds)
    <3>1. s \in DOMAIN p /\ ds[i].patch[s] = p[s]
      BY <1>3, <2>2, <2>3
    <3>2. s \in Session
      BY <3>1 DEF Patch
    <3> QED
      BY <3>1, <3>2 DEF Patched
  <2>4. CASE i # Len(ds)
    <3>1. i < Len(ds) /\ i + k # L + 1 /\ i + k \in 1 .. L /\ ds[i] = deltas[i + k]
      BY <1>1, <1>2, <2>1, <2>4
    <3>2. s \notin DOMAIN p
      BY <1>3, <1>5, <2>1, <2>2, <3>1
    <3>3. ASSUME NEW j \in 1 .. L, j > i + k PROVE s \notin DOMAIN deltas[j].patch
      <4>1. j - k \in 1 .. Len(ds) /\ j - k > i /\ (j - k) + k # L + 1 /\ (j - k) + k = j
        BY <1>1, <1>2, <3>3
      <4>2. ds[j - k] = deltas[j]
        BY <1>1, <4>1
      <4> QED
        BY <1>5, <4>1, <4>2
    <3>4. deltas[i + k].patch[s] = rows[s]
      BY <3>1, <3>3, <1>5 DEF HistoryOf
    <3>5. s \in Session
      <4>1. deltas[i + k] \in Entry
        BY <3>1 DEF Remembered
      <4> QED
        BY <1>5, <3>1, <4>1 DEF Entry, Patch
    <3> QED
      BY <3>1, <3>2, <3>4, <3>5 DEF Patched
  <2> QED
    BY <2>3, <2>4
<1> QED
  BY <1>4, <1>5 DEF HistoryOf, ds

\* What leads to the rows before a patch leads to those after it.
LEMMA LeadGrows ==
  ASSUME Remembered(deltas, seq), HistoryOf(deltas, seq, rows), seq \in Nat, rows \in Rows,
         NEW p \in Patch, NEW x, NEW v, x[2] \in Nat,
         PastOf(x, gen, seq), LeadOf(x, v, gen, seq, deltas, rows)
  PROVE  LeadOf(x, v, gen, seq + 1, Remember(p), Patched(rows, p))
<1> DEFINE e == [seq |-> seq + 1, patch |-> p]
           ds == Remember(p)
           r == Patched(rows, p)
           L == Len(deltas)
<1> SUFFICES ASSUME ~GapOf(x, gen, seq + 1, ds) PROVE AgreeOf(x, v, ds, r)
  BY DEF LeadOf
<1>1. PICK k \in {0, 1} :
        /\ Len(ds) = L + 1 - k /\ L >= k
        /\ \A i \in 1 .. Len(ds) : ds[i] = IF i + k = L + 1 THEN e ELSE deltas[i + k]
  BY RememberedAt
<1>2. L \in Nat /\ deltas \in Seq(Entry)
  BY DEF Remembered
<1>3. e.seq = seq + 1 /\ e.patch = p
  OBVIOUS
<1>4. HistoryOf(ds, seq + 1, r)
  BY HistoryGrows
<1> HIDE DEF ds, e, r
<1>5. x[2] # 0 /\ x[1] = gen /\ x[2] <= seq
  BY DEF GapOf, PastOf
<1>6. ds[1].seq = (seq + 1 - Len(ds)) + 1 /\ ds[1].seq \in Int
  BY <1>1, <1>2, <1>4 DEF HistoryOf
<1>7. ds # << >> /\ ds[1].seq <= x[2] + 1
  BY <1>5, <1>6 DEF GapOf
<1>8. \A i \in 1 .. L : deltas[i].seq = (seq - L) + i
  BY DEF HistoryOf
<1>9. ~GapOf(x, gen, seq, deltas)
  <2>1. CASE x[2] = seq
    BY <1>5, <2>1 DEF GapOf
  <2>2. CASE x[2] < seq
    <3>1. (seq - L) + 1 <= x[2] + 1 /\ L >= 1
      BY <1>1, <1>2, <1>5, <1>6, <1>7, <2>2
    <3>2. deltas # << >> /\ deltas[1].seq = (seq - L) + 1
      BY <1>2, <1>8, <3>1
    <3> QED
      BY <1>5, <3>1, <3>2 DEF GapOf
  <2> QED
    BY <1>5, <2>1, <2>2
<1>10. AgreeOf(x, v, deltas, rows)
  BY <1>9 DEF LeadOf
<1>11. ASSUME NEW s \in Session, v[s] # r[s]
       PROVE  \E i \in 1 .. Len(ds) : ds[i].seq > x[2] /\ s \in DOMAIN ds[i].patch
  <2>1. CASE s \in DOMAIN p
    <3>1. Len(ds) \in 1 .. Len(ds) /\ ds[Len(ds)] = e
      BY <1>1, <1>2
    <3> QED
      BY <1>3, <1>5, <2>1, <3>1
  <2>2. CASE s \notin DOMAIN p
    <3>1. r[s] = rows[s]
      BY <2>2 DEF Patched, r
    <3>2. PICK i \in 1 .. L : deltas[i].seq > x[2] /\ s \in DOMAIN deltas[i].patch
      BY <1>10, <1>11, <3>1 DEF AgreeOf
    <3>3. (seq - L) + i > x[2] /\ (seq + 1 - Len(ds)) + 1 <= x[2] + 1
      BY <1>6, <1>7, <1>8, <3>2
    <3>4. i - k \in 1 .. Len(ds) /\ (i - k) + k # L + 1 /\ (i - k) + k = i
      BY <1>1, <1>2, <1>5, <3>3
    <3>5. ds[i - k] = deltas[i]
      BY <1>1, <3>4
    <3> QED
      BY <3>2, <3>4, <3>5
  <2> QED
    BY <2>1, <2>2
<1> QED
  BY <1>11 DEF AgreeOf

\* What leads to the owner's rows still does after a step of the owner, or
\* there is a gap.
LEMMA LeadMoves ==
  ASSUME HomeInv, HistoryOf(deltas, seq, rows), OwnerStep \/ Restart,
         NEW x \in Revs(gen), NEW v,
         PastOf(x, gen, seq), LeadOf(x, v, gen, seq, deltas, rows)
  PROVE  PastOf(x, gen', seq') /\ LeadOf(x, v, gen', seq', deltas', rows')
<1>1. gen \in Nat /\ seq \in Nat /\ Remembered(deltas, seq) /\ rows \in Rows
  BY HomeAssumption DEF HomeInv, OwnerOK, OwnerOf
<1>2. x[1] \in 0 .. gen /\ x[2] \in Nat
  BY <1>1, HomeAssumption DEF Revs, Never
<1>3. CASE StartRebuild \/ EndRebuild
  BY <1>3 DEF StartRebuild, EndRebuild
<1>4. CASE Rebuilt
  <2>1. gen' = gen /\ seq' = seq + 1 /\ deltas' = << >>
    BY <1>4 DEF Rebuilt
  <2>2. PastOf(x, gen', seq') /\ GapOf(x, gen', seq', deltas')
    BY <1>1, <1>2, <2>1 DEF PastOf, GapOf
  <2> QED
    BY <2>2 DEF LeadOf
<1>5. ASSUME NEW p \in Patch, ApplyPatch(p)
      PROVE  PastOf(x, gen', seq') /\ LeadOf(x, v, gen', seq', deltas', rows')
  <2>1. gen' = gen /\ seq' = seq + 1 /\ deltas' = Remember(p) /\ rows' = Patched(rows, p)
    BY <1>5 DEF ApplyPatch
  <2>2. PastOf(x, gen', seq')
    BY <1>1, <1>2, <2>1 DEF PastOf
  <2>3. LeadOf(x, v, gen, seq + 1, Remember(p), Patched(rows, p))
    BY <1>1, <1>2, LeadGrows
  <2> QED
    BY <2>1, <2>2, <2>3
<1>6. CASE Restart
  <2>1. gen' = gen + 1
    BY <1>6 DEF Restart, Restarted
  <2>2. PastOf(x, gen', seq') /\ GapOf(x, gen', seq', deltas')
    BY <1>1, <1>2, <2>1 DEF PastOf, GapOf
  <2> QED
    BY <2>2 DEF LeadOf
<1> QED
  BY <1>3, <1>4, <1>5, <1>6 DEF OwnerStep

LEMMA HistoryMoves ==
  ASSUME HomeInv, HistoryOf(deltas, seq, rows), OwnerStep \/ Restart
  PROVE  HistoryOf(deltas', seq', rows')
<1>1. seq \in Nat /\ Remembered(deltas, seq) /\ rows \in Rows
  BY HomeAssumption DEF HomeInv, OwnerOK, OwnerOf
<1>2. CASE StartRebuild \/ EndRebuild
  BY <1>2 DEF StartRebuild, EndRebuild
<1>3. CASE Rebuilt \/ Restart
  <2>1. deltas' = << >>
    BY <1>3 DEF Rebuilt, Restart, Restarted
  <2>2. 1 .. Len(deltas') = {}
    BY <2>1
  <2> QED
    BY <2>2 DEF HistoryOf
<1>4. ASSUME NEW p \in Patch, ApplyPatch(p) PROVE HistoryOf(deltas', seq', rows')
  <2>1. seq' = seq + 1 /\ deltas' = Remember(p) /\ rows' = Patched(rows, p)
    BY <1>4 DEF ApplyPatch
  <2> QED
    BY <1>1, <2>1, HistoryGrows
<1> QED
  BY <1>2, <1>3, <1>4 DEF OwnerStep

\* A list that shows the rows is led to them by any revision.
LEMMA SameAgrees ==
  ASSUME NEW x, NEW g, NEW n, NEW ds, NEW r
  PROVE  LeadOf(x, r, g, n, ds, r)
BY DEF LeadOf, AgreeOf

\* Where there is no gap, the delta leads a list to the rows.
LEMMA DeltaLeads ==
  ASSUME OwnerOK, HistoryOf(deltas, seq, rows), NEW x, x[2] \in Nat, NEW v \in Rows,
         LeadOf(x, v, gen, seq, deltas, rows), ~Gap(x)
  PROVE  Patched(v, DeltaSince(x)) = rows
<1> DEFINE newer == {i \in DOMAIN deltas : deltas[i].seq > x[2]}
           named == UNION {DOMAIN deltas[i].patch : i \in newer}
           Names(s) == {i \in newer : s \in DOMAIN deltas[i].patch}
           Last(s) == CHOOSE i \in newer :
                        /\ s \in DOMAIN deltas[i].patch
                        /\ \A j \in newer : s \in DOMAIN deltas[j].patch => j <= i
<1>1. deltas \in Seq(Entry) /\ DOMAIN deltas = 1 .. Len(deltas) /\ Len(deltas) \in Nat
  BY DEF OwnerOK, OwnerOf, Remembered
<1>2. AgreeOf(x, v, deltas, rows)
  BY DEF LeadOf, Gap, GapOf
<1>3. newer \in SUBSET (1 .. Len(deltas))
  BY <1>1
<1>4. ASSUME NEW i \in newer, NEW j \in 1 .. Len(deltas), j > i PROVE j \in newer
  <2>1. i \in 1 .. Len(deltas) /\ deltas[i].seq > x[2]
    BY <1>1
  <2>2. deltas[i] \in Entry /\ deltas[j] \in Entry
    BY <1>1, <2>1
  <2>3. deltas[i].seq = (seq - Len(deltas)) + i /\ deltas[j].seq = (seq - Len(deltas)) + j
    BY <2>1 DEF HistoryOf
  <2>4. deltas[j].seq > deltas[i].seq /\ seq \in Nat
    BY <1>1, <1>4, <2>1, <2>3, HomeAssumption DEF OwnerOK, OwnerOf
  <2>5. deltas[i].seq \in Nat /\ deltas[j].seq \in Nat
    BY <2>2 DEF Entry
  <2> QED
    BY <1>1, <2>1, <2>4, <2>5
<1> HIDE DEF newer
<1>5. ASSUME NEW s \in named PROVE deltas[Last(s)].patch[s] = rows[s]
  <2>1. Names(s) # {} /\ Names(s) \in SUBSET (1 .. Len(deltas))
    BY <1>3
  <2>2. \E i \in Names(s) : \A j \in Names(s) : j <= i
    BY <1>1, <2>1, LastPosition
  <2>3. \E i \in newer : /\ s \in DOMAIN deltas[i].patch
                         /\ \A j \in newer : s \in DOMAIN deltas[j].patch => j <= i
    BY <2>2
  <2>4. /\ Last(s) \in newer /\ s \in DOMAIN deltas[Last(s)].patch
        /\ \A j \in newer : s \in DOMAIN deltas[j].patch => j <= Last(s)
    BY <2>3
  <2> HIDE DEF Last
  <2>5. Last(s) \in 1 .. Len(deltas)
    BY <1>3, <2>4
  <2>6. \A j \in 1 .. Len(deltas) : j > Last(s) => s \notin DOMAIN deltas[j].patch
    BY <1>1, <1>4, <2>4, <2>5
  <2> QED
    BY <2>4, <2>5, <2>6 DEF HistoryOf
<1>6. ASSUME NEW s \in Session, s \notin named PROVE v[s] = rows[s]
  BY <1>1, <1>2, <1>6 DEF AgreeOf, newer
<1> HIDE DEF named, Last
<1>7. DeltaSince(x) = [s \in named |-> deltas[Last(s)].patch[s]]
  BY DEF DeltaSince, named, Last, newer
<1>8. rows \in Rows
  BY DEF OwnerOK, OwnerOf
<1> QED
  BY <1>5, <1>6, <1>7, <1>8 DEF Patched, Rows

-----------------------------------------------------------------------------
(* Many loads, and a list of several pages: what is asked of a list that   *)
(* is whole.                                                               *)

Leads(c, v) == LeadOf(c, v, gen, seq, deltas, rows)
Past(c) == PastOf(c, gen, seq)

\* The load x asks for pages, not for a delta.
Paged(x) == x.phase # "first" \/ x.since = Never

\* Places whose answer is in hand.
Held == {"answered", "revise", "apply"}

\* What the local variables of a load are, by its place.
Kinds(x) ==
  /\ x.pc = "idle" => x = NoLoad
  /\ x.pc = "begun" => x.phase = "first" /\ x.ans.kind = "none" /\ x.revs = {}
  /\ x.pc = "delta" \/ x.ans.kind = "delta" => ~Paged(x)
  /\ x.pc = "answered" /\ Paged(x) => x.ans.kind = "page"
  /\ x.pc \in {"revise", "apply"} => News(x) /\ x.acc = << >>
  /\ x.pc \in Held => x.ans.rev \in x.revs
  /\ x.phase = "page" => x.revs # {}
  /\ x.phase # "drain" \/ x.revs = {} => x.acc = << >>

\* All revisions that the app holds are of the past.
PastOnly(x) == Past(x.since) /\ Past(x.ans.rev) /\ \A R \in x.revs : Past(R)

\* The loads that have been superseded, or are over.
Others == Loader \ {latest}

\* One of them has stored its revision and still has its rows in hand.
Doomed == \E m \in Others : load[m].pc = "apply"

\* The revision that the list has, and those that superseded loads may still
\* store after their pages, lead from v to the owner's rows.
AllLead(v) ==
  /\ Leads(catRev, v)
  /\ \A m \in Others : load[m].pc = "revise" /\ load[m].phase = "page" => Leads(load[m].ans.rev, v)

Inside(p, r) == \A s \in DOMAIN p : p[s] = r[s]

\* The rows r that the owner had at revision R, before which all revisions
\* were that the list has or may get from superseded loads.
RowsAt(R, r) ==
  /\ R = Revision => r = rows
  /\ R = Never => r = Nothing
  /\ Leads(R, r) /\ Leads(catRev, r)
  /\ \A m \in Others : load[m].pc = "revise" => Leads(load[m].ans.rev, r)

\* All that the load x has got of the list is of these rows.
PartOf(x, r) ==
  /\ Inside(x.acc, r)
  /\ x.phase = "page" => \A s \in Session : view[s] = Absent \/ view[s] = r[s]
  /\ x.pc \in Held => Inside(x.ans.patch, r) /\ x.ans.matched = Count(r)

\* Pages that the load x got of one revision are of the rows of that revision.
OneRevision(x) ==
  \A R : Paged(x) /\ x.revs = {R} => \E r \in Rows : RowsAt(R, r) /\ PartOf(x, r)

\* A list that is whole is led to the owner's rows, whatever revision it has
\* when the load x, the latest, ends.
Sound(x) ==
  whole /\ ~Doomed =>
    /\ x.pc # "apply" => AllLead(view)
    /\ x.pc = "revise" /\ x.phase = "page" => Leads(x.ans.rev, view)
    /\ x.pc \in {"ask", "rows", "delta"} /\ ~Paged(x) => Leads(x.since, view)
    /\ x.pc \in Held /\ x.ans.kind = "delta" =>
         AllLead(Will(x, view)) /\ Leads(x.ans.rev, Will(x, view))

LocalInv ==
  /\ HomeInv /\ HistoryOf(deltas, seq, rows) /\ (seq = 0 => rows = Nothing)
  /\ Past(catRev) /\ \A l \in Loader : Kinds(load[l]) /\ PastOnly(load[l])

WholeInv == LocalInv /\ OneRevision(load[latest]) /\ Sound(load[latest])

\* A step that leaves the owner's rows and the list alone.
Quiet ==
  /\ gen' = gen /\ seq' = seq /\ deltas' = deltas /\ rows' = rows
  /\ view' = view /\ catRev' = catRev /\ latest' = latest /\ whole' = whole

LEMMA RowsNow ==
  ASSUME LocalInv
  PROVE  rows \in Rows /\ RowsAt(Revision, rows)
<1>1. OwnerOK /\ gen \in Nat /\ gen >= 1
  BY HomeAssumption DEF LocalInv, HomeInv, OwnerOK, OwnerOf
<1>2. Revision = Never => rows = Nothing
  BY <1>1 DEF LocalInv, Revision, Never
<1>3. \A c : Leads(c, rows)
  BY SameAgrees DEF Leads
<1> QED
  BY <1>1, <1>2, <1>3 DEF RowsAt, OwnerOK, OwnerOf

\* What is kept by a step of one load that is quiet.
LEMMA QuietStays ==
  ASSUME LocalInv, Quiet, NEW l \in Loader, NEW x, load' = [load EXCEPT ![l] = x],
         load[l].pc # "apply"
  PROVE  /\ \A m \in Loader : load'[m] = IF m = l THEN x ELSE load[m]
         /\ Others' = Others /\ Revision' = Revision
         /\ \A c, v : Leads(c, v)' <=> Leads(c, v)
         /\ \A c : Past(c)' <=> Past(c)
         /\ ~Doomed' => ~Doomed
<1>1. \A m \in Loader : load'[m] = IF m = l THEN x ELSE load[m]
  BY DEF LocalInv, HomeInv, LoadsOK
<1>2. ~Doomed' => ~Doomed
  BY <1>1 DEF Quiet, Doomed, Others
<1> QED
  BY <1>1, <1>2 DEF Quiet, Others, Revision, Leads, Past

\* The latest load steps.
LEMMA QuietMine ==
  ASSUME WholeInv, Quiet, NEW l \in Loader, NEW x, load' = [load EXCEPT ![l] = x],
         l = latest, load[l].pc # "apply", OneRevision(x), Sound(x)
  PROVE  OneRevision(load[latest])' /\ Sound(load[latest])'
<1> USE DEF WholeInv
<1>1. /\ \A m \in Loader : load'[m] = IF m = l THEN x ELSE load[m]
      /\ Others' = Others /\ Revision' = Revision
      /\ \A c, v : Leads(c, v)' <=> Leads(c, v)
  BY QuietStays
<1>2. load'[latest'] = x /\ \A m \in Others : load'[m] = load[m]
  BY <1>1 DEF Others, Quiet
<1>3. \A v : AllLead(v)' <=> AllLead(v)
  BY <1>1, <1>2 DEF AllLead, Quiet
<1>4. Doomed' <=> Doomed
  BY <1>1, <1>2 DEF Doomed
<1>5. \A R, r : RowsAt(R, r)' <=> RowsAt(R, r)
  BY <1>1, <1>2 DEF RowsAt, Quiet
<1>6. \A r : PartOf(x, r)' <=> PartOf(x, r)
  BY DEF PartOf, Quiet
<1>7. OneRevision(x)'
  BY <1>5, <1>6 DEF OneRevision, Paged
<1>8. Sound(x)'
  BY <1>1, <1>3, <1>4 DEF Sound, Quiet
<1> QED
  BY <1>2, <1>7, <1>8 DEF OneRevision, Sound

\* A superseded load steps, and does not come to store a revision.
LEMMA QuietOther ==
  ASSUME WholeInv, Quiet, NEW l \in Loader, NEW x, load' = [load EXCEPT ![l] = x],
         l # latest, load[l].pc # "apply", x.pc # "revise"
  PROVE  OneRevision(load[latest])' /\ Sound(load[latest])'
<1> USE DEF WholeInv
<1> PICK y : y = load[latest]
  OBVIOUS
<1>0. latest \in Loader
  BY DEF LocalInv, HomeInv, ListOK
<1>1. /\ \A m \in Loader : load'[m] = IF m = l THEN x ELSE load[m]
      /\ Others' = Others /\ Revision' = Revision
      /\ \A c, v : Leads(c, v)' <=> Leads(c, v)
      /\ ~Doomed' => ~Doomed
  BY QuietStays
<1>2. load'[latest'] = y
  BY <1>0, <1>1 DEF Quiet
<1>3. \A m \in Others : load'[m].pc = "revise" => load'[m] = load[m]
  BY <1>1 DEF Others
<1>4. \A v : AllLead(v) => AllLead(v)'
  BY <1>1, <1>3 DEF AllLead, Quiet
<1>5. \A R, r : RowsAt(R, r) => RowsAt(R, r)'
  BY <1>1, <1>3 DEF RowsAt, Quiet
<1>6. \A z, r : PartOf(z, r)' <=> PartOf(z, r)
  BY DEF PartOf, Quiet
<1>7. \A R : Paged(y) /\ y.revs = {R} => \E r \in Rows : RowsAt(R, r)' /\ PartOf(y, r)'
  BY <1>5, <1>6 DEF OneRevision
<1>8. OneRevision(load[latest])'
  BY <1>2, <1>7 DEF OneRevision, Paged
<1>9. Sound(load[latest])'
  BY <1>1, <1>2, <1>4 DEF Sound, Quiet
<1> QED
  BY <1>8, <1>9

\* Loads keep what each of them is by itself when the one that steps does.
LEMMA LocalStep ==
  ASSUME LocalInv, HomeInv', UNCHANGED <<gen, seq, deltas, rows>>, Past(catRev'),
         NEW l \in Loader, NEW x, load' = [load EXCEPT ![l] = x], Kinds(x), PastOnly(x)
  PROVE  LocalInv'
<1>1. \A m \in Loader : load'[m] = IF m = l THEN x ELSE load[m]
  BY DEF LocalInv, HomeInv, LoadsOK
<1>2. \A c : PastOf(c, gen', seq') <=> Past(c)
  BY DEF Past
<1>3. Past(catRev)'
  BY DEF Past
<1>4. ASSUME NEW m \in Loader PROVE Kinds(load'[m]) /\ PastOnly(load[m])'
  <2>1. Kinds(load[m]) /\ PastOnly(load[m])
    BY DEF LocalInv
  <2>2. PICK z : z = load'[m] /\ Kinds(z) /\ PastOnly(z)
    BY <1>1, <2>1
  <2>3. PastOnly(load[m])'
    BY <1>2, <2>2 DEF PastOnly, Past
  <2> QED
    BY <2>2, <2>3
<1>5. (\A m \in Loader : Kinds(load[m]) /\ PastOnly(load[m]))'
  BY <1>4 DEF Kinds, News, Paged
<1> QED
  BY <1>3, <1>5 DEF LocalInv

\* A quiet step of the load l, which becomes x.
LEMMA QuietStep ==
  ASSUME WholeInv, Quiet, HomeInv', NEW l \in Loader, NEW x, load' = [load EXCEPT ![l] = x],
         load[l].pc # "apply", Kinds(x), PastOnly(x),
         l = latest => OneRevision(x) /\ Sound(x),
         l # latest => x.pc # "revise"
  PROVE  WholeInv'
<1>1. OneRevision(load[latest])' /\ Sound(load[latest])'
  BY QuietMine, QuietOther
<1>2. LocalInv'
  <2>1. LocalInv /\ UNCHANGED <<gen, seq, deltas, rows>> /\ Past(catRev')
    BY DEF WholeInv, LocalInv, Quiet
  <2> QED
    BY <2>1, LocalStep
<1> QED
  BY <1>1, <1>2 DEF WholeInv

LEMMA NeverIsPast ==
  ASSUME LocalInv
  PROVE  Past(Never)
BY HomeAssumption DEF LocalInv, HomeInv, OwnerOK, OwnerOf, Past, PastOf, Never

\* What the load l and the app hold.
LEMMA LoadFacts ==
  ASSUME LocalInv, NEW l \in Loader
  PROVE  /\ Kinds(load[l]) /\ PastOnly(load[l]) /\ Past(catRev) /\ load[l] \in LoadOf(gen)
         /\ load[l].ans.patch \in Patch
BY LoadFields DEF LocalInv, HomeInv

LEMMA QuietEnd ==
  ASSUME WholeInv, Quiet, HomeInv', NEW l \in Loader, load' = [load EXCEPT ![l] = NoLoad],
         load[l].pc # "apply"
  PROVE  WholeInv'
<1>1. Kinds(NoLoad)
  BY DEF Kinds, NoLoad, NoAnswer, News, Paged, Held
<1>2. PastOnly(NoLoad)
  BY NeverIsPast DEF WholeInv, PastOnly, NoLoad, NoAnswer
<1>3. NoLoad.pc = "idle" /\ NoLoad.revs = {}
  BY DEF NoLoad
<1>4. OneRevision(NoLoad)
  BY <1>3 DEF OneRevision
<1>5. l = latest => Sound(NoLoad)
  BY <1>3 DEF WholeInv, Sound, Held
<1> QED
  BY <1>1, <1>2, <1>3, <1>4, <1>5, QuietStep

\* What becomes of a load that asks for a page.
LEMMA AskedRecord ==
  ASSUME LocalInv, NEW l \in Loader, NEW phase, NEW offset, AskAgain(l, phase, offset)
  PROVE  \E x : /\ load' = [load EXCEPT ![l] = x]
                /\ x.pc = "ask" /\ x.phase = phase /\ x.since = load[l].since
                /\ x.acc = load[l].acc /\ x.ans = NoAnswer
                /\ x.revs = (IF phase = "page" THEN load[l].revs ELSE {})
<1> DEFINE x == [load[l] EXCEPT !.pc = "ask", !.phase = phase, !.offset = offset,
                                !.ans = NoAnswer, !.revs = IF phase = "page" THEN @ ELSE {}]
<1>1. load' = [load EXCEPT ![l] = x]
  BY DEF AskAgain, LocalInv, HomeInv, LoadsOK
<1>2. load[l] \in LoadOf(gen)
  BY LoadFacts
<1>3. /\ x.pc = "ask" /\ x.phase = phase /\ x.since = load[l].since
      /\ x.acc = load[l].acc /\ x.ans = NoAnswer
      /\ x.revs = (IF phase = "page" THEN load[l].revs ELSE {})
  BY <1>2 DEF LoadOf
<1> HIDE DEF x
<1> QED
  BY <1>1, <1>3

\* A load that starts on other pages.
LEMMA QuietAgain ==
  ASSUME WholeInv, Quiet, HomeInv', NEW l \in Loader, NEW phase \in {"drain", "await"},
         AskAgain(l, phase, 0), load[l].pc # "apply", load[l].phase \in {"first", "await"}
  PROVE  WholeInv'
<1> USE DEF WholeInv
<1>1. PICK x : /\ load' = [load EXCEPT ![l] = x]
               /\ x.pc = "ask" /\ x.phase = phase /\ x.since = load[l].since
               /\ x.acc = load[l].acc /\ x.ans = NoAnswer
               /\ x.revs = (IF phase = "page" THEN load[l].revs ELSE {})
  BY AskedRecord
<1>2. Kinds(load[l]) /\ PastOnly(load[l])
  BY LoadFacts
<1>3. x.phase \in {"drain", "await"} /\ x.revs = {} /\ x.acc = << >>
  BY <1>1, <1>2 DEF Kinds
<1>4. Kinds(x)
  BY <1>1, <1>3 DEF Kinds, NoAnswer, Paged, Held
<1>5. PastOnly(x)
  BY <1>1, <1>2, <1>3, NeverIsPast DEF PastOnly, NoAnswer
<1>6. OneRevision(x)
  BY <1>3 DEF OneRevision
<1>7. l = latest => Sound(x)
  BY <1>1, <1>3 DEF Sound, Paged, Held
<1> HIDE DEF WholeInv
<1> QED
  BY <1>1, <1>4, <1>5, <1>6, <1>7, QuietStep

\* A load that only moves on.
Moved(o, pc) == [o EXCEPT !.pc = pc]

Like(x, o) ==
  /\ x.phase = o.phase /\ x.since = o.since /\ x.acc = o.acc
  /\ x.ans = o.ans /\ x.revs = o.revs

LEMMA MovedOn ==
  ASSUME LocalInv, NEW l \in Loader, NEW pc, load' = [load EXCEPT ![l] = Moved(load[l], pc)]
  PROVE  \E x : load' = [load EXCEPT ![l] = x] /\ x.pc = pc /\ Like(x, load[l])
<1> DEFINE x == Moved(load[l], pc)
<1>1. load[l] \in LoadOf(gen)
  BY LoadFacts
<1>2. x.pc = pc /\ Like(x, load[l])
  BY <1>1 DEF Moved, Like, LoadOf
<1> HIDE DEF x
<1> QED
  BY <1>2 DEF x

LEMMA AskWhole ==
  ASSUME WholeInv, HomeInv', NEW l \in Loader, Ask(l)
  PROVE  WholeInv'
<1>1. LocalInv /\ Quiet /\ load[l].pc = "ask"
  BY DEF Ask, Quiet, WholeInv
<1>2. load' = [load EXCEPT ![l] = Moved(load[l], "rows")]
  BY <1>1 DEF Ask, Moved, LocalInv, HomeInv, LoadsOK
<1>3. PICK x : load' = [load EXCEPT ![l] = x] /\ x.pc = "rows" /\ Like(x, load[l])
  BY <1>1, <1>2, MovedOn
<1>4. Kinds(load[l]) /\ PastOnly(load[l])
  BY <1>1, LoadFacts
<1>5. Kinds(x)
  BY <1>1, <1>3, <1>4 DEF Kinds, Paged, Held, Like
<1>6. PastOnly(x)
  BY <1>3, <1>4 DEF PastOnly, Like
<1>7. Paged(x) <=> Paged(load[l])
  BY <1>3 DEF Paged, Like
<1>8. \A r : PartOf(load[l], r) => PartOf(x, r)
  BY <1>3 DEF PartOf, Held, Like
<1>9. l = latest => OneRevision(x)
  BY <1>3, <1>7, <1>8 DEF OneRevision, WholeInv, Like
<1>10. l = latest => Sound(x)
  BY <1>1, <1>3, <1>7 DEF Sound, Held, WholeInv, Like
<1> QED
  BY <1>1, <1>3, <1>5, <1>6, <1>9, <1>10, QuietStep

LEMMA ReadSinceWhole ==
  ASSUME WholeInv, HomeInv', NEW l \in Loader, ReadSince(l)
  PROVE  WholeInv'
<1> USE DEF WholeInv
<1>1. Quiet /\ load[l].pc = "begun"
  BY DEF ReadSince, Quiet, revisions
<1>2. PICK since \in {Never, catRev} :
        load' = [load EXCEPT ![l].pc = "ask", ![l].since = since]
  BY DEF ReadSince
<1> DEFINE y == [load[l] EXCEPT !.pc = "ask", !.since = since]
<1>3. Kinds(load[l]) /\ PastOnly(load[l]) /\ Past(catRev) /\ load[l] \in LoadOf(gen)
  BY LoadFacts
<1>4. load' = [load EXCEPT ![l] = y]
  BY <1>2 DEF LocalInv, HomeInv, LoadsOK
<1>5. /\ y.pc = "ask" /\ y.phase = load[l].phase /\ y.since = since
      /\ y.acc = load[l].acc /\ y.ans = load[l].ans /\ y.revs = load[l].revs
  BY <1>3 DEF LoadOf
<1> HIDE DEF y
<1>6. PICK x : x = y
  OBVIOUS
<1>7. Kinds(x)
  BY <1>1, <1>3, <1>5, <1>6 DEF Kinds, Held
<1>8. PastOnly(x)
  BY <1>3, <1>5, <1>6, NeverIsPast DEF PastOnly
<1>9. x.revs = {} /\ x.pc = "ask" /\ x.phase = "first"
  BY <1>1, <1>3, <1>5, <1>6 DEF Kinds
<1>10. OneRevision(x)
  BY <1>9 DEF OneRevision
<1>11. l = latest => Sound(x)
  <2>1. Paged(x) \/ x.since = catRev
    BY <1>2, <1>5, <1>6 DEF Paged
  <2> QED
    BY <1>1, <1>9, <2>1 DEF Sound, AllLead, Held
<1> HIDE DEF WholeInv
<1> QED
  BY <1>1, <1>4, <1>6, <1>7, <1>8, <1>9, <1>10, <1>11, QuietStep

\* What becomes of a load that is answered.
LEMMA AnsweredRecord ==
  ASSUME LocalInv, NEW l \in Loader, NEW kind, NEW rev, NEW patch, NEW matched, NEW incomplete,
         Answer(l, kind, rev, patch, matched, incomplete)
  PROVE  \E x : /\ load' = [load EXCEPT ![l] = x]
                /\ x.pc = "answered" /\ x.phase = load[l].phase /\ x.since = load[l].since
                /\ x.acc = load[l].acc /\ x.revs = load[l].revs \cup {rev}
                /\ x.ans.kind = kind /\ x.ans.rev = rev /\ x.ans.patch = patch
                /\ x.ans.matched = matched
<1> DEFINE ans == [kind |-> kind, rev |-> rev, patch |-> patch,
                   matched |-> matched, incomplete |-> incomplete]
           x == [load[l] EXCEPT !.pc = "answered", !.revs = @ \cup {rev}, !.ans = ans]
<1>1. load[l] \in LoadOf(gen)
  BY LoadFacts
<1>2. load' = [load EXCEPT ![l] = x]
  BY <1>1 DEF Answer, LocalInv, HomeInv, LoadsOK, LoadOf
<1>3. /\ ans.kind = kind /\ ans.rev = rev /\ ans.patch = patch /\ ans.matched = matched
  OBVIOUS
<1> HIDE DEF ans
<1>4. /\ x.pc = "answered" /\ x.phase = load[l].phase /\ x.since = load[l].since
      /\ x.acc = load[l].acc /\ x.revs = load[l].revs \cup {rev} /\ x.ans = ans
  BY <1>1 DEF LoadOf
<1> HIDE DEF x
<1> QED
  BY <1>2, <1>3, <1>4

\* A page is of the rows, and so are those that were got of the same revision.
LEMMA PageInside ==
  ASSUME NEW r \in Rows, NEW offset
  PROVE  Inside(Page(r, offset), r)
<1> DEFINE place(s) == Cardinality({t \in Session : t <= s /\ r[t] # Absent})
           page == {s \in Session : r[s] # Absent /\ place(s) \in offset + 1 .. offset + Limit}
<1>1. Page(r, offset) = [s \in page |-> r[s]]
  BY DEF Page
<1> HIDE DEF page
<1> QED
  BY <1>1 DEF Inside

LEMMA EmptyInside ==
  ASSUME NEW p, p = << >>, NEW r
  PROVE  Inside(p, r)
BY DEF Inside

LEMMA RpcRowsWhole ==
  ASSUME WholeInv, HomeInv', NEW l \in Loader, RpcRows(l)
  PROVE  WholeInv'
<1> USE DEF WholeInv
<1> DEFINE incomplete == ~warm \/ building # "off"
<1>1. Quiet /\ load[l].pc = "rows"
  BY DEF RpcRows, Quiet, revisions
<1>2. Kinds(load[l]) /\ PastOnly(load[l]) /\ load[l] \in LoadOf(gen)
  BY LoadFacts
<1>3. rows \in Rows /\ RowsAt(Revision, rows)
  BY RowsNow
<1>4. Past(Revision)
  BY HomeAssumption DEF LocalInv, HomeInv, OwnerOK, OwnerOf, Revision, Past, PastOf
<1>5. l = latest /\ whole /\ ~Doomed => AllLead(view)
  BY <1>1 DEF Sound
<1> HIDE DEF incomplete
<1>6. CASE /\ Asked(l) = Never
           /\ Answer(l, "page", Revision, Page(rows, load[l].offset), Count(rows), incomplete)
  <2> HIDE DEF WholeInv
  <2>0. LocalInv
    BY DEF WholeInv
  <2>1. PICK x : /\ load' = [load EXCEPT ![l] = x]
                 /\ x.pc = "answered" /\ x.phase = load[l].phase /\ x.since = load[l].since
                 /\ x.acc = load[l].acc /\ x.revs = load[l].revs \cup {Revision}
                 /\ x.ans.kind = "page" /\ x.ans.rev = Revision
                 /\ x.ans.patch = Page(rows, load[l].offset) /\ x.ans.matched = Count(rows)
    BY <1>6, <2>0, AnsweredRecord
  <2>2. Paged(x) /\ Paged(load[l])
    BY <1>6, <2>1 DEF Paged, Asked
  <2>3. Kinds(x)
    BY <1>1, <1>2, <2>1 DEF Kinds, Held
  <2>4. PastOnly(x)
    BY <1>2, <1>4, <2>1 DEF PastOnly
  <2>5. ASSUME l = latest, NEW R, x.revs = {R} PROVE R = Revision /\ PartOf(x, rows)
    <3>1. R = Revision /\ (load[l].revs = {} \/ load[l].revs = {R})
      BY <2>1, <2>5
    <3>2. Inside(x.ans.patch, rows) /\ x.ans.matched = Count(rows)
      BY <1>3, <2>1, PageInside
    <3>3. CASE load[l].revs = {}
      <4>1. x.acc = << >> /\ x.phase # "page"
        BY <1>2, <2>1, <3>3 DEF Kinds
      <4> QED
        BY <3>1, <3>2, <4>1, EmptyInside DEF PartOf
    <3>4. CASE load[l].revs = {R}
      <4>1. PICK r \in Rows : RowsAt(R, r) /\ PartOf(load[l], r)
        BY <2>2, <2>5, <3>4 DEF OneRevision, WholeInv
      <4>2. r = rows
        BY <3>1, <4>1 DEF RowsAt
      <4> QED
        BY <2>1, <3>1, <3>2, <4>1, <4>2 DEF PartOf
    <3> QED
      BY <3>1, <3>3, <3>4
  <2>6. l = latest => OneRevision(x)
    BY <1>3, <2>5 DEF OneRevision
  <2>7. l = latest => Sound(x)
    BY <1>5, <2>1 DEF Sound
  <2> QED
    BY <1>1, <2>1, <2>3, <2>4, <2>6, <2>7, QuietStep
<1>7. CASE /\ Asked(l) # Never
           /\ Answer(l, "unchanged", Revision, << >>, 0, incomplete)
  <2> HIDE DEF WholeInv
  <2>0. LocalInv
    BY DEF WholeInv
  <2>1. PICK x : /\ load' = [load EXCEPT ![l] = x]
                 /\ x.pc = "answered" /\ x.phase = load[l].phase /\ x.since = load[l].since
                 /\ x.acc = load[l].acc /\ x.revs = load[l].revs \cup {Revision}
                 /\ x.ans.kind = "unchanged" /\ x.ans.rev = Revision
                 /\ x.ans.patch = << >> /\ x.ans.matched = 0
    BY <1>7, <2>0, AnsweredRecord
  <2>2. ~Paged(x)
    BY <1>7, <2>1 DEF Paged, Asked
  <2>3. Kinds(x)
    BY <1>1, <1>2, <2>1, <2>2 DEF Kinds, Held
  <2>4. PastOnly(x)
    BY <1>2, <1>4, <2>1 DEF PastOnly
  <2>5. OneRevision(x)
    BY <2>2 DEF OneRevision
  <2>6. l = latest => Sound(x)
    BY <1>5, <2>1 DEF Sound
  <2> QED
    BY <1>1, <2>1, <2>3, <2>4, <2>5, <2>6, QuietStep
<1>8. CASE /\ Asked(l) # Never
           /\ load' = [load EXCEPT
                ![l].pc = "delta",
                ![l].ans = [NoAnswer EXCEPT !.rev = Revision, !.incomplete = incomplete]]
  <2> DEFINE ans == [NoAnswer EXCEPT !.rev = Revision, !.incomplete = incomplete]
             y == [load[l] EXCEPT !.pc = "delta", !.ans = ans]
  <2>1. ans.kind = "none" /\ ans.rev = Revision
    BY DEF NoAnswer
  <2>2. load' = [load EXCEPT ![l] = y]
    BY <1>8 DEF LocalInv, HomeInv, LoadsOK
  <2> HIDE DEF ans
  <2>3. /\ y.pc = "delta" /\ y.phase = load[l].phase /\ y.since = load[l].since
        /\ y.acc = load[l].acc /\ y.revs = load[l].revs /\ y.ans = ans
    BY <1>2 DEF LoadOf
  <2> HIDE DEF y
  <2>4. PICK x : x = y
    OBVIOUS
  <2>5. ~Paged(x) /\ ~Paged(load[l])
    BY <1>8, <2>3, <2>4 DEF Paged, Asked
  <2>6. Kinds(x)
    BY <1>1, <1>2, <2>1, <2>3, <2>4, <2>5 DEF Kinds, Held
  <2>7. PastOnly(x)
    BY <1>2, <1>4, <2>1, <2>3, <2>4 DEF PastOnly
  <2>8. OneRevision(x)
    BY <2>5 DEF OneRevision
  <2>9. l = latest => Sound(x)
    BY <1>1, <2>3, <2>4, <2>5 DEF Sound, Held
  <2>10. x.pc = "delta"
    BY <2>3, <2>4
  <2> HIDE DEF WholeInv
  <2> QED
    BY <1>1, <2>2, <2>4, <2>6, <2>7, <2>8, <2>9, <2>10, QuietStep
<1> QED
  BY <1>6, <1>7, <1>8 DEF RpcRows, incomplete

\* A delta brings a list that is whole to the owner's rows.
LEMMA RpcDeltaWhole ==
  ASSUME WholeInv, HomeInv', NEW l \in Loader, RpcDelta(l)
  PROVE  WholeInv'
<1> USE DEF WholeInv
<1> DEFINE gap == Gap(load[l].since)
           kind == IF gap THEN "page" ELSE "delta"
           patch == IF gap THEN << >> ELSE DeltaSince(load[l].since)
           o == load[l]
<1>1. Quiet /\ o.pc = "delta" /\ Answer(l, kind, o.ans.rev, patch, 0, o.ans.incomplete)
  BY DEF RpcDelta, Quiet, revisions
<1>2. Kinds(o) /\ PastOnly(o)
  BY LoadFacts
<1>3. ASSUME kind = "delta", l = latest, whole, ~Doomed PROVE Patched(view, patch) = rows
  <2>1. Leads(o.since, view)
    BY <1>1, <1>2, <1>3 DEF Sound, Kinds
  <2>2. ~gap
    BY <1>3
  <2>3. o.since[2] \in Nat /\ view \in Rows /\ OwnerOK
    BY LoadFields, HomeAssumption DEF LocalInv, HomeInv, ListOK, Revs, Never
  <2>4. Patched(view, DeltaSince(o.since)) = rows
    BY <2>1, <2>2, <2>3, DeltaLeads DEF Leads, LocalInv
  <2> QED
    BY <2>2, <2>4
<1>4. kind \in {"page", "delta"}
  OBVIOUS
<1> HIDE DEF kind, patch, WholeInv
<1>5. LocalInv
  BY DEF WholeInv
<1>6. PICK x : /\ load' = [load EXCEPT ![l] = x]
               /\ x.pc = "answered" /\ x.phase = o.phase /\ x.since = o.since
               /\ x.acc = o.acc /\ x.revs = o.revs \cup {o.ans.rev}
               /\ x.ans.kind = kind /\ x.ans.rev = o.ans.rev /\ x.ans.patch = patch
               /\ x.ans.matched = 0
  BY <1>1, <1>5, AnsweredRecord
<1>7. ~Paged(x)
  BY <1>1, <1>2, <1>6 DEF Kinds, Paged
<1>8. Kinds(x)
  BY <1>1, <1>2, <1>4, <1>6, <1>7 DEF Kinds, Held
<1>9. PastOnly(x)
  BY <1>2, <1>6 DEF PastOnly
<1>10. OneRevision(x)
  BY <1>7 DEF OneRevision
<1>11. ASSUME l = latest PROVE Sound(x)
  <2>1. \A c : Leads(c, rows)
    BY SameAgrees DEF Leads
  <2>2. AllLead(rows)
    BY <2>1 DEF AllLead
  <2>3. x.ans.kind = "delta" /\ whole /\ ~Doomed => Will(x, view) = rows
    BY <1>3, <1>6, <1>11 DEF Will
  <2>4. whole /\ ~Doomed => AllLead(view)
    BY <1>1, <1>11 DEF Sound, WholeInv
  <2> QED
    BY <1>6, <2>1, <2>2, <2>3, <2>4 DEF Sound
<1> QED
  BY <1>1, <1>6, <1>8, <1>9, <1>10, <1>11, QuietStep

\* The latest load takes its answer.
LEMMA ToReviseWhole ==
  ASSUME WholeInv, Quiet, HomeInv', NEW l \in Loader, l = latest,
         load[l].pc = "answered", load[l].phase \in {"first", "await"}, News(load[l]),
         load' = [load EXCEPT ![l].pc = "revise"]
  PROVE  WholeInv'
<1>1. LocalInv
  BY DEF WholeInv
<1>2. load' = [load EXCEPT ![l] = Moved(load[l], "revise")]
  BY <1>1 DEF Moved, LocalInv, HomeInv, LoadsOK
<1>3. PICK x : load' = [load EXCEPT ![l] = x] /\ x.pc = "revise" /\ Like(x, load[l])
  BY <1>1, <1>2, MovedOn
<1>4. Kinds(load[l]) /\ PastOnly(load[l])
  BY <1>1, LoadFacts
<1>5. News(x) /\ (Paged(x) <=> Paged(load[l]))
  BY <1>3 DEF News, Paged, Like
<1>6. Kinds(x)
  BY <1>3, <1>4, <1>5 DEF Kinds, Held, Like
<1>7. PastOnly(x)
  BY <1>3, <1>4 DEF PastOnly, Like
<1>8. \A r : PartOf(load[l], r) => PartOf(x, r)
  BY <1>3 DEF PartOf, Held, Like
<1>9. OneRevision(x)
  BY <1>3, <1>5, <1>8 DEF OneRevision, WholeInv, Like
<1>10. Will(x, view) = Will(load[l], view)
  BY <1>3 DEF Will, Like
<1>11. Sound(x)
  BY <1>3, <1>10 DEF Sound, Held, WholeInv, Like
<1> QED
  BY <1>3, <1>6, <1>7, <1>9, <1>11, QuietStep

\* Rows of a page are in hand.
LEMMA ReceivePageWhole ==
  ASSUME WholeInv, HomeInv', NEW l \in Loader, ReceivePage(l)
  PROVE  WholeInv'
<1>1. LocalInv /\ Quiet /\ load[l].pc = "answered" /\ load[l].phase = "page"
  BY DEF ReceivePage, At, Quiet, revisions, WholeInv
<1>2. Kinds(load[l]) /\ PastOnly(load[l])
  BY <1>1, LoadFacts
<1>3. CASE End(l)
  BY <1>1, <1>3, QuietEnd DEF End
<1>4. CASE load' = [load EXCEPT ![l].pc = "apply"]
  <2>1. load' = [load EXCEPT ![l] = Moved(load[l], "apply")]
    BY <1>1, <1>4 DEF Moved, LocalInv, HomeInv, LoadsOK
  <2>2. PICK x : load' = [load EXCEPT ![l] = x] /\ x.pc = "apply" /\ Like(x, load[l])
    BY <1>1, <2>1, MovedOn
  <2>3. x.phase = "page" /\ x.ans.kind = "page" /\ Paged(x) /\ Paged(load[l])
    BY <1>1, <1>2, <2>2 DEF Kinds, Paged, Like
  <2>4. Kinds(x)
    BY <1>1, <1>2, <2>2, <2>3 DEF Kinds, Held, News, Like
  <2>5. PastOnly(x)
    BY <1>2, <2>2 DEF PastOnly, Like
  <2>6. \A r : PartOf(load[l], r) => PartOf(x, r)
    BY <1>1, <2>2 DEF PartOf, Held, Like
  <2>7. l = latest => OneRevision(x)
    BY <2>2, <2>3, <2>6 DEF OneRevision, WholeInv, Like
  <2>8. Sound(x)
    BY <2>2, <2>3 DEF Sound
  <2> QED
    BY <1>1, <2>2, <2>4, <2>5, <2>7, <2>8, QuietStep
<1> QED
  BY <1>3, <1>4 DEF ReceivePage

LEMMA ReceiveFirstWhole ==
  ASSUME WholeInv, HomeInv', NEW l \in Loader, ReceiveFirst(l) \/ ReceiveAwait(l)
  PROVE  WholeInv'
<1>1. /\ LocalInv /\ Quiet
      /\ load[l].pc = "answered" /\ load[l].phase \in {"first", "await"}
  BY DEF ReceiveFirst, ReceiveAwait, At, Quiet, revisions, WholeInv
<1>2. Kinds(load[l])
  BY <1>1, LoadFacts
<1>3. \/ End(l) \/ AskAgain(l, "drain", 0) \/ AskAgain(l, "await", 0)
      \/ l = latest /\ News(load[l]) /\ load' = [load EXCEPT ![l].pc = "revise"]
  <2>1. CASE ReceiveFirst(l)
    <3>1. load[l].since = Never => load[l].ans.kind = "page"
      BY <1>1, <1>2 DEF Kinds, Paged
    <3> QED
      BY <2>1, <3>1 DEF ReceiveFirst, News, Current
  <2>2. CASE ReceiveAwait(l)
    <3>1. load[l].ans.kind = "page" /\ load[l].phase # "first"
      BY <1>1, <1>2, <2>2 DEF Kinds, Paged, ReceiveAwait, At
    <3> QED
      BY <2>2, <3>1 DEF ReceiveAwait, News, Current
  <2> QED
    BY <2>1, <2>2
<1> QED
  BY <1>1, <1>3, QuietEnd, QuietAgain, ToReviseWhole DEF End

LEMMA BothInside ==
  ASSUME NEW p, NEW q, NEW r, Inside(p, r), Inside(q, r)
  PROVE  Inside(Both(p, q), r)
<1>1. Both(p, q) = [s \in DOMAIN p \cup DOMAIN q |-> IF s \in DOMAIN q THEN q[s] ELSE p[s]]
  BY DEF Both
<1> QED
  BY <1>1 DEF Inside

\* The pages that a drain has collected are all of the last answer's revision,
\* if they are of one.
LEMMA ReceiveDrainWhole ==
  ASSUME WholeInv, HomeInv', NEW l \in Loader, ReceiveDrain(l)
  PROVE  WholeInv'
<1> DEFINE o == load[l]
           again == o.offset > 0 /\ Size(o.ans.patch) > 0 /\ First(o.ans.patch) = o.head
           acc == IF again THEN o.acc ELSE Both(o.acc, o.ans.patch)
           next == IF again THEN 0 ELSE NextOffset(o.offset, Size(o.ans.patch), o.ans.matched, FALSE)
<1>1. /\ LocalInv /\ Quiet
      /\ o.pc = "answered" /\ o.phase = "drain"
  BY DEF ReceiveDrain, At, Quiet, revisions, WholeInv
<1>2. Kinds(o) /\ PastOnly(o) /\ o \in LoadOf(gen) /\ o.ans \in AnswerOf(gen)
  BY <1>1, LoadFacts, LoadFields DEF LocalInv, HomeInv
<1>3. Paged(o) /\ o.ans.kind = "page" /\ o.revs # {}
  BY <1>1, <1>2 DEF Kinds, Paged, Held
<1>4. \A r : PartOf(o, r) => Inside(acc, r) /\ o.ans.matched = Count(r)
  BY <1>1, BothInside DEF PartOf, Held
<1>5. \/ load' = [load EXCEPT
           ![l].pc = "ask", ![l].offset = next, ![l].ans = NoAnswer, ![l].acc = acc,
           ![l].head = IF load[l].offset = 0 THEN First(o.ans.patch) ELSE @]
      \/ End(l)
      \/ /\ l = latest
         /\ load' = [load EXCEPT ![l] =
              [load[l] EXCEPT !.ans = [load[l].ans EXCEPT !.patch = acc, !.incomplete = FALSE],
                              !.pc = "revise", !.acc = << >>, !.head = 0]]
  BY DEF ReceiveDrain, Current
<1> HIDE DEF acc, next
<1>6. CASE load' = [load EXCEPT
             ![l].pc = "ask", ![l].offset = next, ![l].ans = NoAnswer, ![l].acc = acc,
             ![l].head = IF load[l].offset = 0 THEN First(o.ans.patch) ELSE @]
  <2> DEFINE y == [load[l] EXCEPT
               !.pc = "ask", !.offset = next, !.ans = NoAnswer, !.acc = acc,
               !.head = IF load[l].offset = 0 THEN First(o.ans.patch) ELSE @]
  <2>1. load' = [load EXCEPT ![l] = y]
    BY <1>1, <1>6 DEF LocalInv, HomeInv, LoadsOK
  <2>2. /\ y.pc = "ask" /\ y.phase = o.phase /\ y.since = o.since
        /\ y.acc = acc /\ y.ans = NoAnswer /\ y.revs = o.revs
    BY <1>2 DEF LoadOf
  <2> HIDE DEF y
  <2>3. PICK x : x = y
    OBVIOUS
  <2>4. Paged(x) /\ x.phase = "drain" /\ x.pc = "ask"
    BY <1>1, <2>2, <2>3 DEF Paged
  <2>5. Kinds(x)
    BY <1>3, <2>2, <2>3, <2>4 DEF Kinds, Held, NoAnswer
  <2>6. PastOnly(x)
    BY <1>1, <1>2, <2>2, <2>3, NeverIsPast DEF PastOnly, NoAnswer
  <2>7. \A r : PartOf(o, r) => PartOf(x, r)
    BY <1>4, <2>2, <2>3, <2>4 DEF PartOf, Held
  <2>8. l = latest => OneRevision(x)
    BY <1>3, <2>2, <2>3, <2>7 DEF OneRevision, WholeInv
  <2>9. l = latest => Sound(x)
    BY <1>1, <2>4 DEF Sound, Held, WholeInv
  <2> QED
    BY <1>1, <2>1, <2>3, <2>4, <2>5, <2>6, <2>8, <2>9, QuietStep
<1>7. CASE End(l)
  BY <1>1, <1>7, QuietEnd DEF End
<1>8. CASE /\ l = latest
           /\ load' = [load EXCEPT ![l] =
                [load[l] EXCEPT !.ans = [load[l].ans EXCEPT !.patch = acc, !.incomplete = FALSE],
                                !.pc = "revise", !.acc = << >>, !.head = 0]]
  <2> DEFINE a == [load[l].ans EXCEPT !.patch = acc, !.incomplete = FALSE]
             y == [load[l] EXCEPT !.ans = a, !.pc = "revise", !.acc = << >>, !.head = 0]
  <2>1. load' = [load EXCEPT ![l] = y]
    BY <1>8
  <2>2. a.kind = "page" /\ a.rev = o.ans.rev /\ a.patch = acc /\ a.matched = o.ans.matched
    BY <1>2, <1>3 DEF AnswerOf
  <2> HIDE DEF a
  <2>3. /\ y.pc = "revise" /\ y.phase = o.phase /\ y.since = o.since
        /\ y.acc = << >> /\ y.ans = a /\ y.revs = o.revs
    BY <1>2 DEF LoadOf
  <2> HIDE DEF y
  <2>4. PICK x : x = y
    OBVIOUS
  <2>5. Paged(x) /\ x.phase = "drain" /\ x.pc = "revise" /\ x.ans.kind = "page"
    BY <1>1, <2>2, <2>3, <2>4 DEF Paged
  <2>6. Kinds(x)
    BY <1>1, <1>2, <2>2, <2>3, <2>4, <2>5 DEF Kinds, Held, News
  <2>7. PastOnly(x)
    BY <1>2, <2>2, <2>3, <2>4 DEF PastOnly
  <2>8. \A r : PartOf(o, r) => PartOf(x, r)
    BY <1>4, <2>2, <2>3, <2>4, <2>5, EmptyInside DEF PartOf
  <2>9. l = latest => OneRevision(x)
    BY <1>3, <2>3, <2>4, <2>8 DEF OneRevision, WholeInv
  <2>10. l = latest => Sound(x)
    BY <1>1, <2>5 DEF Sound, WholeInv
  <2> QED
    BY <1>1, <1>8, <2>1, <2>4, <2>6, <2>7, <2>9, <2>10, QuietStep
<1> QED
  BY <1>5, <1>6, <1>7, <1>8

\* A new load supersedes the latest, which may be storing the revision of its
\* pages, but has no rows in hand if the list is to stay whole.
LEMMA BeginWhole ==
  ASSUME WholeInv, HomeInv', NEW l \in Loader, Begin(l)
  PROVE  WholeInv'
<1>0. LocalInv /\ latest \in Loader
  BY DEF WholeInv, LocalInv, HomeInv, ListOK
<1>1. /\ gen' = gen /\ seq' = seq /\ deltas' = deltas /\ rows' = rows
      /\ view' = view /\ catRev' = catRev /\ whole' = whole
      /\ latest' = l /\ load[l].pc = "idle"
  BY DEF Begin, revisions
<1>2. load' = [load EXCEPT ![l] = Moved(load[l], "begun")]
  BY <1>0 DEF Begin, Moved, LocalInv, HomeInv, LoadsOK
<1>3. PICK x : load' = [load EXCEPT ![l] = x] /\ x.pc = "begun" /\ Like(x, load[l])
  BY <1>0, <1>2, MovedOn
<1>4. load[l] = NoLoad /\ PastOnly(load[l]) /\ Past(catRev)
  BY <1>0, <1>1, LoadFacts DEF Kinds
<1>5. x.phase = "first" /\ x.ans.kind = "none" /\ x.revs = {} /\ x.acc = << >>
  BY <1>3, <1>4 DEF Like, NoLoad, NoAnswer
<1>6. Kinds(x) /\ PastOnly(x)
  BY <1>3, <1>4, <1>5 DEF Kinds, Held, PastOnly, Like
<1>7. LocalInv'
  BY <1>0, <1>1, <1>3, <1>4, <1>6, LocalStep
<1>8. \A m \in Loader : load'[m] = IF m = l THEN x ELSE load[m]
  BY <1>0, <1>3 DEF LocalInv, HomeInv, LoadsOK
<1>9. OneRevision(load[latest])'
  BY <1>1, <1>5, <1>8 DEF OneRevision
<1>10. ASSUME whole, ~Doomed' PROVE AllLead(view)'
  <2>1. ~Doomed /\ load[latest].pc # "apply"
    BY <1>0, <1>1, <1>8, <1>10 DEF Doomed, Others
  <2>2. /\ AllLead(view)
        /\ load[latest].pc = "revise" /\ load[latest].phase = "page" =>
             Leads(load[latest].ans.rev, view)
    BY <1>10, <2>1 DEF WholeInv, Sound
  <2>3. ASSUME NEW m \in Others', load'[m].pc = "revise", load'[m].phase = "page"
        PROVE  Leads(load[m].ans.rev, view)
    BY <1>1, <1>8, <2>2, <2>3 DEF Others, AllLead
  <2>4. \A c : LeadOf(c, view, gen', seq', deltas', rows') <=> Leads(c, view)
    BY <1>1 DEF Leads
  <2>5. \A m \in Others' : load'[m] = load[m]
    BY <1>1, <1>8 DEF Others
  <2> QED
    BY <1>1, <2>2, <2>3, <2>4, <2>5 DEF AllLead, Leads
<1>11. Sound(load[latest])'
  <2>1. load'[latest'] = x
    BY <1>1, <1>8
  <2> QED
    BY <1>1, <1>3, <1>10, <2>1 DEF Sound, Held
<1> QED
  BY <1>7, <1>9, <1>11 DEF WholeInv

\* What superseded loads may still store does not grow.
LEMMA LeadStays ==
  ASSUME LocalInv, UNCHANGED <<gen, seq, deltas, rows, latest>>,
         NEW l \in Loader, NEW x, load' = [load EXCEPT ![l] = x],
         l = latest \/ x.pc # "revise"
  PROVE  /\ load'[l] = x /\ \A m \in Loader \ {l} : load'[m] = load[m]
         /\ \A c, v : Leads(c, v)' <=> Leads(c, v)
         /\ \A v : AllLead(v) /\ Leads(catRev', v) => AllLead(v)'
         /\ \A R, r : RowsAt(R, r) /\ Leads(catRev', r) => RowsAt(R, r)'
<1>1. load'[l] = x /\ \A m \in Loader \ {l} : load'[m] = load[m]
  BY DEF LocalInv, HomeInv, LoadsOK
<1>2. \A c, v : Leads(c, v)' <=> Leads(c, v)
  BY DEF Leads
<1>3. \A c, v : Leads(c, v) <=> LeadOf(c, v, gen', seq', deltas', rows')
  BY DEF Leads
<1>4. Others' = Others /\ Revision' = Revision
      /\ \A m \in Others : load'[m].pc = "revise" => load'[m] = load[m]
  BY <1>1 DEF Others, Revision
<1>5. ASSUME NEW v, AllLead(v), Leads(catRev', v) PROVE AllLead(v)'
  BY <1>3, <1>4, <1>5 DEF AllLead, Leads
<1>6. ASSUME NEW R, NEW r, RowsAt(R, r), Leads(catRev', r) PROVE RowsAt(R, r)'
  BY <1>3, <1>4, <1>6 DEF RowsAt, Leads
<1> QED
  BY <1>1, <1>2, <1>5, <1>6

\* A revision is stored: of the latest load, whose rows come next or have come
\* as a page, or of one that is superseded, which leads from any later rows.
LEMMA ReviseWhole ==
  ASSUME WholeInv, HomeInv', NEW l \in Loader, Revise(l)
  PROVE  WholeInv'
<1> DEFINE o == load[l]
<1>1. LocalInv /\ latest \in Loader /\ o.pc = "revise"
      /\ Kinds(o) /\ PastOnly(o) /\ Past(catRev) /\ o \in LoadOf(gen)
  BY LoadFacts DEF Revise, WholeInv, LocalInv, HomeInv, ListOK
<1>2. /\ gen' = gen /\ seq' = seq /\ deltas' = deltas /\ rows' = rows
      /\ view' = view /\ whole' = whole /\ latest' = latest
      /\ catRev' = catRev \/ catRev' = o.ans.rev
  BY DEF Revise, revisions
<1>3. Past(catRev')
  BY <1>1, <1>2 DEF PastOnly
<1>4. News(o) /\ o.acc = << >> /\ o.ans.rev \in o.revs
  BY <1>1 DEF Kinds, Held
<1>5. \E x : /\ load' = [load EXCEPT ![l] = x] /\ Kinds(x) /\ PastOnly(x)
             /\ \/ o.phase # "page" /\ x.pc = "apply" /\ Like(x, o)
                \/ o.phase = "page" /\ x = NoLoad
                \/ /\ o.phase = "page" /\ l = latest
                   /\ x.pc = "ask" /\ x.phase = "page" /\ x.acc = << >> /\ x.revs = o.revs
  <2>1. CASE o.phase # "page"
    <3>1. load' = [load EXCEPT ![l] = Moved(load[l], "apply")]
      BY <1>1, <2>1 DEF Revise, Moved, LocalInv, HomeInv, LoadsOK
    <3>2. PICK x : load' = [load EXCEPT ![l] = x] /\ x.pc = "apply" /\ Like(x, load[l])
      BY <1>1, <3>1, MovedOn
    <3>3. Kinds(x)
      BY <1>1, <1>4, <3>2 DEF Kinds, Held, News, Paged, Like
    <3>4. PastOnly(x)
      BY <1>1, <3>2 DEF PastOnly, Like
    <3> QED
      BY <2>1, <3>2, <3>3, <3>4
  <2>2. CASE o.phase = "page" /\ End(l)
    <3>1. Kinds(NoLoad)
      BY DEF Kinds, NoLoad, NoAnswer, News, Paged, Held
    <3>2. PastOnly(NoLoad)
      BY <1>1, NeverIsPast DEF PastOnly, NoLoad, NoAnswer
    <3> QED
      BY <2>2, <3>1, <3>2 DEF End
  <2>3. ASSUME o.phase = "page", l = latest, NEW next, AskAgain(l, "page", next)
        PROVE  \E x : /\ load' = [load EXCEPT ![l] = x] /\ Kinds(x) /\ PastOnly(x)
                      /\ x.pc = "ask" /\ x.phase = "page" /\ x.acc = << >> /\ x.revs = o.revs
    <3>1. PICK x : /\ load' = [load EXCEPT ![l] = x]
                   /\ x.pc = "ask" /\ x.phase = "page" /\ x.since = load[l].since
                   /\ x.acc = load[l].acc /\ x.ans = NoAnswer
                   /\ x.revs = load[l].revs
      BY <1>1, <2>3, AskedRecord
    <3>2. Kinds(x)
      BY <1>4, <3>1 DEF Kinds, NoAnswer, Paged, Held
    <3>3. PastOnly(x)
      BY <1>1, <3>1, NeverIsPast DEF PastOnly, NoAnswer
    <3> QED
      BY <1>4, <3>1, <3>2, <3>3
  <2>4. o.phase = "page" => End(l) \/ (l = latest /\ \E next : AskAgain(l, "page", next))
    BY DEF Revise, NextPage, Current
  <2> QED
    BY <2>1, <2>2, <2>3, <2>4
<1>6. PICK x : /\ load' = [load EXCEPT ![l] = x] /\ Kinds(x) /\ PastOnly(x)
               /\ \/ o.phase # "page" /\ x.pc = "apply" /\ Like(x, o)
                  \/ o.phase = "page" /\ x = NoLoad
                  \/ /\ o.phase = "page" /\ l = latest
                     /\ x.pc = "ask" /\ x.phase = "page" /\ x.acc = << >> /\ x.revs = o.revs
  BY <1>5
<1>7. x.pc # "revise" /\ x.pc \in {"idle", "ask", "apply"}
  BY <1>6 DEF NoLoad
<1>8. LocalInv'
  BY <1>1, <1>2, <1>3, <1>6, LocalStep
<1>9. /\ load'[l] = x /\ \A m \in Loader \ {l} : load'[m] = load[m]
      /\ \A c, v : Leads(c, v)' <=> Leads(c, v)
      /\ \A v : AllLead(v) /\ Leads(catRev', v) => AllLead(v)'
      /\ \A R, r : RowsAt(R, r) /\ Leads(catRev', r) => RowsAt(R, r)'
  BY <1>1, <1>2, <1>6, <1>7, LeadStays
<1>10. CASE l # latest
  <2>1. PICK y : y = load[latest]
    OBVIOUS
  <2>2. load'[latest'] = y /\ OneRevision(y) /\ Sound(y)
    BY <1>1, <1>2, <1>9, <1>10, <2>1 DEF WholeInv
  <2>3. l \in Others
    BY <1>10 DEF Others
  <2>4. ASSUME NEW R, Paged(y), y.revs = {R}
        PROVE  \E r \in Rows : RowsAt(R, r)' /\ PartOf(y, r)'
    <3>1. PICK r \in Rows : RowsAt(R, r) /\ PartOf(y, r)
      BY <2>2, <2>4 DEF OneRevision
    <3>2. Leads(catRev', r)
      BY <1>1, <1>2, <2>3, <3>1 DEF RowsAt
    <3>3. PartOf(y, r)'
      BY <1>2, <3>1 DEF PartOf
    <3> QED
      BY <1>9, <3>1, <3>2, <3>3
  <2>5. OneRevision(load[latest])'
    BY <2>2, <2>4 DEF OneRevision, Paged
  <2>6. CASE o.phase # "page"
    <3>1. Doomed'
      BY <1>2, <1>6, <1>9, <2>3, <2>6 DEF Doomed, Others, NoLoad
    <3> QED
      BY <1>8, <2>5, <3>1 DEF Sound, WholeInv
  <2>7. CASE o.phase = "page"
    <3>1. x.pc # "apply"
      BY <1>6, <2>7 DEF NoLoad
    <3>2. Doomed' <=> Doomed
      BY <1>1, <1>2, <1>9, <3>1 DEF Doomed, Others
    <3>3. \A v : AllLead(v) => AllLead(v)'
      BY <1>1, <1>2, <1>9, <2>3, <2>7 DEF AllLead
    <3>4. Sound(y)'
      BY <1>2, <1>9, <2>2, <3>2, <3>3 DEF Sound
    <3>5. Sound(load[latest])'
      BY <2>2, <3>4 DEF Sound
    <3> QED
      BY <1>8, <2>5, <3>5 DEF WholeInv
  <2> QED
    BY <2>6, <2>7
<1>11. CASE l = latest
  <2>1. load'[latest'] = x /\ OneRevision(load[l]) /\ Sound(load[l])
    BY <1>2, <1>9, <1>11 DEF WholeInv
  <2>2. ASSUME NEW R, Paged(x), x.revs = {R}
        PROVE  \E r \in Rows : RowsAt(R, r)' /\ PartOf(x, r)'
    <3>1. x.revs = o.revs /\ Paged(o)
      BY <1>6, <2>2 DEF NoLoad, Like, Paged
    <3>2. PICK r \in Rows : RowsAt(R, r) /\ PartOf(o, r)
      BY <2>1, <2>2, <3>1 DEF OneRevision
    <3>3. o.ans.rev = R
      BY <1>4, <2>2, <3>1
    <3>4. Leads(catRev', r)
      BY <1>2, <3>2, <3>3 DEF RowsAt
    <3>5. PartOf(x, r)
      <4>1. CASE x.pc = "apply" /\ Like(x, o)
        BY <1>1, <3>2, <4>1 DEF PartOf, Held, Like
      <4>2. CASE o.phase = "page" /\ x.pc = "ask" /\ x.acc = << >>
        BY <3>2, <4>2, EmptyInside DEF PartOf, Held
      <4>3. x # NoLoad
        BY <2>2 DEF NoLoad
      <4> QED
        BY <1>6, <4>1, <4>2, <4>3
    <3>6. PartOf(x, r)'
      BY <1>2, <3>5 DEF PartOf
    <3> QED
      BY <1>9, <3>2, <3>4, <3>6
  <2>3. OneRevision(load[latest])'
    BY <2>1, <2>2 DEF OneRevision, Paged
  <2>4. Doomed' <=> Doomed
    BY <1>2, <1>9, <1>11 DEF Doomed, Others
  <2>5. ASSUME whole, ~Doomed, o.phase # "page", x.ans.kind = "delta"
        PROVE  AllLead(Will(x, view))' /\ Leads(x.ans.rev, Will(x, view))'
    <3>1. x.ans = o.ans /\ Will(x, view) = Will(o, view)
      BY <1>6, <2>5 DEF Like, Will
    <3>2. PICK v : v = Will(x, view)
      OBVIOUS
    <3>3. AllLead(v) /\ Leads(o.ans.rev, v)
      BY <1>1, <2>1, <2>5, <3>1, <3>2 DEF Sound, Held
    <3>4. Leads(catRev', v)
      BY <1>2, <3>3 DEF AllLead
    <3>5. AllLead(v)' /\ Leads(x.ans.rev, v)'
      BY <1>9, <3>1, <3>3, <3>4
    <3>6. Will(x, view') = v
      BY <1>2, <3>2
    <3> QED
      BY <3>5, <3>6 DEF Will, Patched, AllLead, Leads
  <2>6. ASSUME whole, ~Doomed, o.phase = "page"
        PROVE  AllLead(view)'
    <3>1. AllLead(view) /\ Leads(o.ans.rev, view)
      BY <1>1, <2>1, <2>6 DEF Sound
    <3>2. PICK v : v = view
      OBVIOUS
    <3>3. AllLead(v)'
      BY <1>2, <1>9, <3>1, <3>2 DEF AllLead
    <3> QED
      BY <1>2, <3>2, <3>3 DEF AllLead
  <2>7. Sound(x)'
    <3>1. CASE o.phase # "page"
      BY <1>2, <1>6, <2>4, <2>5, <3>1 DEF Sound, NoLoad
    <3>2. CASE o.phase = "page"
      BY <1>2, <1>6, <2>4, <2>6, <3>2 DEF Sound, NoLoad, Held, Paged
    <3> QED
      BY <3>1, <3>2
  <2>8. Sound(load[latest])'
    BY <2>1, <2>7 DEF Sound
  <2> QED
    BY <1>8, <2>3, <2>8 DEF WholeInv
<1> QED
  BY <1>10, <1>11

LEMMA RevsAreFinite ==
  ASSUME NEW g \in Nat, NEW S \in SUBSET Revs(g), Cardinality(S) = 1
  PROVE  \E R : S = {R}
<1>1. IsFiniteSet(1 .. g) /\ IsFiniteSet(1 .. MaxSeq)
  BY HomeAssumption, FS_Interval
<1>2. IsFiniteSet((1 .. g) \X (1 .. MaxSeq))
  BY <1>1, FS_Product
<1>3. IsFiniteSet({Never})
  BY FS_Singleton
<1>4. IsFiniteSet(Revs(g))
  BY <1>2, <1>3, FS_Union DEF Revs
<1>5. IsFiniteSet(S)
  BY <1>4, FS_Subset
<1> QED
  BY <1>5, FS_Singleton

\* A part of the rows that shows as many sessions is all of them.
LEMMA AllOfThem ==
  ASSUME NEW r \in Rows, NEW v \in Rows, Count(v) = Count(r),
         \A s \in Session : v[s] = Absent \/ v[s] = r[s]
  PROVE  v = r
<1> DEFINE V == {s \in Session : v[s] # Absent}
           S == {s \in Session : r[s] # Absent}
<1>1. V \in SUBSET S /\ S \in SUBSET Session
  OBVIOUS
<1>2. IsFiniteSet(S)
  BY <1>1, HomeAssumption, FS_Subset
<1>3. Cardinality(S) = Cardinality(V)
  BY DEF Count
<1>4. S = V
  BY <1>1, <1>2, <1>3, FS_Subset
<1>5. \A s \in Session : v[s] = r[s]
  BY <1>4
<1> QED
  BY <1>5 DEF Rows

\* What becomes of the latest load when its rows are installed.
LEMMA AppliedRecord ==
  ASSUME LocalInv, NEW l \in Loader, Apply(l), Current(l)
  PROVE  \E x : /\ load' = [load EXCEPT ![l] = x] /\ Kinds(x) /\ PastOnly(x)
                /\ \/ x.pc = "revise" /\ load[l].phase = "page" /\ Like(x, load[l])
                   \/ x.pc \in {"idle", "ask"} /\ x.revs = {} /\ (x.pc = "ask" => Paged(x))
                   \/ /\ x.pc = "ask" /\ x.phase = "page" /\ x.acc = << >>
                      /\ x.revs = load[l].revs /\ load[l].ans.kind = "page"
<1> DEFINE o == load[l]
<1>1. /\ Kinds(o) /\ PastOnly(o) /\ News(o) /\ o.acc = << >> /\ o.ans.rev \in o.revs
      /\ o.pc = "apply"
  BY LoadFacts DEF Kinds, Held, Apply
<1>2. CASE o.phase = "page" /\ load' = [load EXCEPT ![l].pc = "revise"]
  <2>1. load' = [load EXCEPT ![l] = Moved(load[l], "revise")]
    BY <1>2 DEF Moved, LocalInv, HomeInv, LoadsOK
  <2>2. PICK x : load' = [load EXCEPT ![l] = x] /\ x.pc = "revise" /\ Like(x, load[l])
    BY <2>1, MovedOn
  <2>3. Kinds(x)
    BY <1>1, <2>2 DEF Kinds, Held, News, Paged, Like
  <2>4. PastOnly(x)
    BY <1>1, <2>2 DEF PastOnly, Like
  <2> QED
    BY <1>2, <2>2, <2>3, <2>4
<1>3. CASE End(l)
  <2>1. Kinds(NoLoad)
    BY DEF Kinds, NoLoad, NoAnswer, News, Paged, Held
  <2>2. PastOnly(NoLoad)
    BY NeverIsPast DEF PastOnly, NoLoad, NoAnswer
  <2>3. NoLoad.pc = "idle" /\ NoLoad.revs = {}
    BY DEF NoLoad
  <2> QED
    BY <1>3, <2>1, <2>2, <2>3 DEF End
<1>4. CASE AskAgain(l, "await", 0)
  <2>1. PICK x : /\ load' = [load EXCEPT ![l] = x]
                 /\ x.pc = "ask" /\ x.phase = "await" /\ x.since = load[l].since
                 /\ x.acc = load[l].acc /\ x.ans = NoAnswer
                 /\ x.revs = (IF "await" = "page" THEN load[l].revs ELSE {})
    BY <1>4, AskedRecord
  <2>2. x.revs = {} /\ Paged(x)
    BY <2>1 DEF Paged
  <2>3. Kinds(x)
    BY <1>1, <2>1, <2>2 DEF Kinds, NoAnswer, Held
  <2>4. PastOnly(x)
    BY <1>1, <2>1, <2>2, NeverIsPast DEF PastOnly, NoAnswer
  <2> QED
    BY <2>1, <2>2, <2>3, <2>4
<1>5. ASSUME NEW next, AskAgain(l, "page", next)
      PROVE  \E x : /\ load' = [load EXCEPT ![l] = x] /\ Kinds(x) /\ PastOnly(x)
                    /\ x.pc = "ask" /\ x.phase = "page" /\ x.acc = << >> /\ x.revs = o.revs
  <2>1. PICK x : /\ load' = [load EXCEPT ![l] = x]
                 /\ x.pc = "ask" /\ x.phase = "page" /\ x.since = load[l].since
                 /\ x.acc = load[l].acc /\ x.ans = NoAnswer
                 /\ x.revs = load[l].revs
    BY <1>5, AskedRecord
  <2>2. Kinds(x)
    BY <1>1, <2>1 DEF Kinds, NoAnswer, Paged, Held
  <2>3. PastOnly(x)
    BY <1>1, <2>1, NeverIsPast DEF PastOnly, NoAnswer
  <2> QED
    BY <1>1, <2>1, <2>2, <2>3
<1>6. \/ o.phase = "page" /\ load' = [load EXCEPT ![l].pc = "revise"]
      \/ AskAgain(l, "await", 0) \/ End(l)
      \/ o.since = Never /\ NextPage(l)
  BY DEF Apply
<1>7. NextPage(l) => End(l) \/ \E next : AskAgain(l, "page", next)
  BY DEF NextPage
<1>8. o.since = Never => o.ans.kind = "page"
  BY <1>1 DEF Kinds, News, Paged
<1> QED
  BY <1>2, <1>3, <1>4, <1>5, <1>6, <1>7, <1>8

\* The latest load installs its rows: a delta to a list that is whole, or a page
\* after which the list is whole if it has all rows of one revision.
LEMMA ApplyMineWhole ==
  ASSUME WholeInv, HomeInv', NEW l \in Loader, Apply(l), l = latest
  PROVE  WholeInv'
<1> DEFINE o == load[l]
<1>0. LocalInv /\ OneRevision(o) /\ Sound(o)
  BY DEF WholeInv
<1>1. /\ Kinds(o) /\ PastOnly(o) /\ Past(catRev) /\ o \in LoadOf(gen) /\ o.ans.patch \in Patch
  BY <1>0, LoadFacts
<1>2. /\ gen' = gen /\ seq' = seq /\ deltas' = deltas /\ rows' = rows
      /\ catRev' = catRev /\ latest' = latest /\ o.pc = "apply"
  BY DEF Apply, revisions
<1>3. /\ view' = Patched(IF o.ans.kind = "delta" \/ o.phase = "page" THEN view ELSE Nothing,
                         o.ans.patch)
      /\ whole' = (IF o.ans.kind = "delta" THEN whole
                   ELSE Cardinality(o.revs) = 1 /\ Count(view') = o.ans.matched)
  BY DEF Apply, Current
<1>4. News(o) /\ o.ans.rev \in o.revs
  BY <1>1, <1>2 DEF Kinds, Held
<1>5. PICK x : /\ load' = [load EXCEPT ![l] = x] /\ Kinds(x) /\ PastOnly(x)
               /\ \/ x.pc = "revise" /\ o.phase = "page" /\ Like(x, o)
                  \/ x.pc \in {"idle", "ask"} /\ x.revs = {} /\ (x.pc = "ask" => Paged(x))
                  \/ x.pc = "ask" /\ x.phase = "page" /\ x.acc = << >> /\ x.revs = o.revs
                     /\ o.ans.kind = "page"
  BY <1>0, AppliedRecord DEF Current
<1>6. LocalInv'
  BY <1>0, <1>1, <1>2, <1>5, LocalStep
<1>7. /\ load'[l] = x /\ \A m \in Loader \ {l} : load'[m] = load[m]
      /\ \A c, v : Leads(c, v)' <=> Leads(c, v)
      /\ \A v : AllLead(v) /\ Leads(catRev', v) => AllLead(v)'
      /\ \A R, r : RowsAt(R, r) /\ Leads(catRev', r) => RowsAt(R, r)'
  BY <1>0, <1>2, <1>5, LeadStays
<1>8. ASSUME o.ans.kind = "page", NEW r, PartOf(o, r)
      PROVE  \A s \in Session : view'[s] = Absent \/ view'[s] = r[s]
  <2>1. Inside(o.ans.patch, r)
    BY <1>2, <1>8 DEF PartOf, Held
  <2>2. o.phase = "page" => \A s \in Session : view[s] = Absent \/ view[s] = r[s]
    BY <1>8 DEF PartOf
  <2>3. o.ans.kind # "delta"
    BY <1>8
  <2> QED
    BY <1>3, <2>1, <2>2, <2>3 DEF Inside, Patched, Nothing
<1>9. o.ans.kind = "page" => Paged(o)
  BY <1>4 DEF News, Paged
<1>10. ASSUME NEW R, Paged(x), x.revs = {R}
       PROVE  \E r \in Rows : RowsAt(R, r)' /\ PartOf(x, r)'
  <2>1. o.ans.kind = "page" /\ x.revs = o.revs /\ x.acc = << >>
        /\ (x.pc = "ask" \/ (x.pc = "revise" /\ Like(x, o)))
    <3>1. CASE x.pc = "revise" /\ o.phase = "page" /\ Like(x, o)
      BY <1>1, <1>2, <1>4, <3>1 DEF Kinds, News, Paged, Like
    <3>2. x.revs # {}
      BY <1>10
    <3>3. CASE x.pc = "ask" /\ x.acc = << >> /\ x.revs = o.revs /\ o.ans.kind = "page"
      BY <3>3
    <3> QED
      BY <1>5, <3>1, <3>2, <3>3
  <2>2. PICK r \in Rows : RowsAt(R, r) /\ PartOf(o, r)
    BY <1>0, <1>9, <1>10, <2>1 DEF OneRevision
  <2>3. RowsAt(R, r)'
    BY <1>2, <1>7, <2>2 DEF RowsAt
  <2>4. \A s \in Session : view'[s] = Absent \/ view'[s] = r[s]
    BY <1>8, <2>1, <2>2
  <2>5. x.pc \in Held => Inside(x.ans.patch, r) /\ x.ans.matched = Count(r)
    BY <1>2, <2>1, <2>2 DEF PartOf, Held, Like
  <2>6. PartOf(x, r)'
    BY <2>1, <2>4, <2>5, EmptyInside DEF PartOf
  <2> QED
    BY <2>3, <2>6
<1>11. load'[latest'] = x /\ (Doomed' <=> Doomed)
  BY <1>2, <1>7 DEF Doomed, Others
<1>12. OneRevision(load[latest])'
  BY <1>10, <1>11 DEF OneRevision, Paged
<1>13. ASSUME whole', ~Doomed
       PROVE  /\ AllLead(view)'
              /\ x.pc = "revise" => x.ans.kind = "page" /\ Leads(x.ans.rev, view)'
  <2>1. CASE o.ans.kind = "delta"
    <3>1. whole /\ o.phase # "page" /\ view' = Will(o, view)
      BY <1>1, <1>3, <1>13, <2>1 DEF Kinds, Paged, Will
    <3>2. PICK v : v = Will(o, view)
      OBVIOUS
    <3>3. AllLead(v)
      BY <1>0, <1>2, <1>13, <2>1, <3>1, <3>2 DEF Sound, Held
    <3>4. AllLead(v)'
      BY <1>2, <1>7, <3>3 DEF AllLead
    <3>5. x.pc # "revise"
      BY <1>5, <3>1
    <3> QED
      BY <3>1, <3>2, <3>4, <3>5 DEF AllLead
  <2>2. CASE o.ans.kind # "delta"
    <3>1. o.ans.kind = "page" /\ Cardinality(o.revs) = 1 /\ Count(view') = o.ans.matched
      BY <1>3, <1>4, <1>13, <2>2 DEF News
    <3>2. o.revs \in SUBSET Revs(gen) /\ gen \in Nat
      BY <1>0, <1>1, HomeAssumption DEF LoadOf, LocalInv, HomeInv, OwnerOK, OwnerOf
    <3>3. PICK R : o.revs = {R}
      BY <3>1, <3>2, RevsAreFinite
    <3>4. PICK r \in Rows : RowsAt(R, r) /\ PartOf(o, r)
      BY <1>0, <1>9, <3>1, <3>3 DEF OneRevision
    <3>5. Count(view') = Count(r) /\ view' \in Rows
      BY <1>2, <1>6, <3>1, <3>4 DEF PartOf, Held, LocalInv, HomeInv, ListOK
    <3>6. view' = r
      BY <1>8, <3>1, <3>4, <3>5, AllOfThem
    <3>7. AllLead(r) /\ Leads(R, r) /\ o.ans.rev = R
      BY <1>4, <3>3, <3>4 DEF RowsAt, AllLead
    <3>8. AllLead(r)' /\ Leads(R, r)'
      BY <1>2, <1>7, <3>7 DEF AllLead
    <3>9. x.pc = "revise" => x.ans = o.ans
      BY <1>5 DEF Like
    <3> QED
      BY <3>1, <3>6, <3>7, <3>8, <3>9 DEF AllLead, Leads
  <2> QED
    BY <2>1, <2>2
<1>14. Sound(x)'
  <2>1. x.pc \in {"idle", "ask", "revise"} /\ (x.pc = "ask" => Paged(x))
    BY <1>5 DEF Paged
  <2> QED
    BY <1>11, <1>13, <2>1 DEF Sound, Held, Paged
<1>15. Sound(load[latest])'
  BY <1>11, <1>14 DEF Sound
<1> QED
  BY <1>6, <1>12, <1>15 DEF WholeInv

\* A superseded load that finds so when its rows are in hand has stored their
\* revision, and the list is no longer whole.
LEMMA ApplyWhole ==
  ASSUME WholeInv, HomeInv', NEW l \in Loader, Apply(l)
  PROVE  WholeInv'
<1>1. CASE l = latest
  BY <1>1, ApplyMineWhole
<1>2. CASE l # latest
  <2>1. LocalInv /\ latest \in Loader /\ Past(catRev)
    BY DEF WholeInv, LocalInv, HomeInv, ListOK
  <2>2. /\ gen' = gen /\ seq' = seq /\ deltas' = deltas /\ rows' = rows
        /\ catRev' = catRev /\ latest' = latest /\ view' = view /\ whole' = FALSE
        /\ load' = [load EXCEPT ![l] = NoLoad]
    BY <1>2 DEF Apply, revisions, Current, End
  <2>3. Kinds(NoLoad) /\ NoLoad.pc # "revise"
    BY DEF Kinds, NoLoad, NoAnswer, News, Paged, Held
  <2>4. PastOnly(NoLoad)
    BY <2>1, NeverIsPast DEF PastOnly, NoLoad, NoAnswer
  <2>5. LocalInv'
    BY <2>1, <2>2, <2>3, <2>4, LocalStep
  <2>6. /\ load'[l] = NoLoad /\ \A m \in Loader \ {l} : load'[m] = load[m]
        /\ \A R, r : RowsAt(R, r) /\ Leads(catRev', r) => RowsAt(R, r)'
    BY <2>1, <2>2, <2>3, LeadStays
  <2>7. PICK y : y = load[latest]
    OBVIOUS
  <2>8. load'[latest'] = y
    BY <1>2, <2>1, <2>2, <2>6, <2>7
  <2>9. ASSUME NEW R, Paged(y), y.revs = {R}
        PROVE  \E r \in Rows : RowsAt(R, r)' /\ PartOf(y, r)'
    <3>1. PICK r \in Rows : RowsAt(R, r) /\ PartOf(y, r)
      BY <2>7, <2>9 DEF OneRevision, WholeInv
    <3>2. RowsAt(R, r)'
      BY <2>2, <2>6, <3>1 DEF RowsAt
    <3>3. PartOf(y, r)'
      BY <2>2, <3>1 DEF PartOf
    <3> QED
      BY <3>2, <3>3
  <2>10. OneRevision(load[latest])'
    BY <2>8, <2>9 DEF OneRevision, Paged
  <2>11. Sound(load[latest])'
    BY <2>2 DEF Sound
  <2> QED
    BY <2>5, <2>10, <2>11 DEF WholeInv
<1> QED
  BY <1>1, <1>2

\* The owner moves on from a revision: its rows are those of the past, but for
\* a step that leaves both alone.
LEMMA RevisionMoves ==
  ASSUME LocalInv, OwnerStep \/ Restart, NEW R \in Revs(gen), Past(R), NEW r,
         R = Revision => r = rows, R = Never => r = Nothing
  PROVE  R = Revision' => r = rows'
<1>1. gen \in Nat /\ gen >= 1 /\ seq \in Nat
  BY HomeAssumption DEF LocalInv, HomeInv, OwnerOK, OwnerOf
<1>2. R[1] \in 0 .. gen /\ R[2] \in Nat /\ (R[1] = gen => R[2] <= seq)
  BY <1>1, HomeAssumption DEF Revs, Never, Past, PastOf
<1>3. CASE StartRebuild \/ EndRebuild
  BY <1>3 DEF StartRebuild, EndRebuild, Revision
<1>4. CASE gen' = gen /\ seq' = seq + 1
  <2>1. Revision' = <<gen, seq + 1>>
    BY <1>1, <1>4 DEF Revision
  <2> QED
    BY <1>1, <1>2, <2>1
<1>5. CASE Restart
  <2>1. Revision' = Never /\ rows' = Nothing
    BY <1>5 DEF Restart, Restarted, Revision, Never
  <2> QED
    BY <2>1
<1> QED
  BY <1>3, <1>4, <1>5 DEF OwnerStep, Rebuilt, ApplyPatch

LEMMA OwnerWhole ==
  ASSUME WholeInv, OwnerStep \/ Restart
  PROVE  WholeInv'
<1>0. LocalInv /\ HomeInv /\ HistoryOf(deltas, seq, rows) /\ latest \in Loader /\ catRev \in Revs(gen)
  BY DEF WholeInv, LocalInv, HomeInv, ListOK
<1>1. HomeInv' /\ HistoryOf(deltas', seq', rows')
  BY <1>0, OwnerSteps, RestartStep, HistoryMoves
<1>2. view' = view /\ catRev' = catRev /\ latest' = latest /\ whole' = whole
  BY DEF OwnerStep, Restart, home
<1>3. seq' = 0 => rows' = Nothing
  <2>1. seq \in Nat /\ (seq = 0 => rows = Nothing)
    BY <1>0, HomeAssumption DEF LocalInv, HomeInv, OwnerOK, OwnerOf
  <2> QED
    BY <2>1 DEF OwnerStep, StartRebuild, Rebuilt, EndRebuild, ApplyPatch, Restart, Restarted
<1>4. ASSUME NEW c \in Revs(gen), Past(c)
      PROVE  PastOf(c, gen', seq') /\ \A v : Leads(c, v) => LeadOf(c, v, gen', seq', deltas', rows')
  <2>1. Leads(c, rows)
    BY SameAgrees DEF Leads
  <2> QED
    BY <1>0, <1>4, <2>1, LeadMoves DEF Past, Leads
<1>5. ASSUME NEW m \in Loader
      PROVE  /\ load[m].since \in Revs(gen) /\ load[m].ans.rev \in Revs(gen)
             /\ load[m].revs \in SUBSET Revs(gen)
             /\ Kinds(load[m]) /\ PastOnly(load[m])
  BY <1>0, LoadFields, LoadFacts DEF HomeInv, LoadOf
<1>6. ASSUME NEW m \in Loader
      PROVE  load'[m] = load[m] \/ (load'[m] = NoLoad /\ load[m].pc \in {"rows", "delta"})
  BY DEF OwnerStep, home, Restart
<1>7. Kinds(NoLoad) /\ NoLoad.pc = "idle" /\ NoLoad.revs = {}
  BY DEF Kinds, NoLoad, NoAnswer, News, Paged, Held
<1>8. ASSUME NEW m \in Loader PROVE Kinds(load[m])' /\ PastOnly(load[m])'
  <2>1. CASE load'[m] = load[m]
    <3>1. /\ PastOf(load[m].since, gen', seq') /\ PastOf(load[m].ans.rev, gen', seq')
          /\ \A R \in load[m].revs : PastOf(R, gen', seq')
      BY <1>4, <1>5 DEF PastOnly
    <3>2. PastOnly(load[m])'
      BY <2>1, <3>1 DEF PastOnly, Past
    <3> QED
      BY <1>5, <2>1, <3>2 DEF Kinds, News, Paged
  <2>2. CASE load'[m] = NoLoad
    <3>1. PastOf(Never, gen', seq')
      BY <1>0, <1>4, NeverIsPast DEF Revs
    <3>2. NoLoad.since = Never /\ NoLoad.ans.rev = Never
      BY DEF NoLoad, NoAnswer
    <3>3. PastOnly(load[m])'
      BY <1>7, <2>2, <3>1, <3>2 DEF PastOnly, Past
    <3> QED
      BY <1>7, <2>2, <3>3 DEF Kinds, News, Paged
  <2> QED
    BY <1>6, <2>1, <2>2
<1>9. LocalInv'
  <2>1. Past(catRev)'
    BY <1>0, <1>2, <1>4 DEF Past, LocalInv
  <2>2. (\A m \in Loader : Kinds(load[m]) /\ PastOnly(load[m]))'
    BY <1>8
  <2> QED
    BY <1>1, <1>3, <2>1, <2>2 DEF LocalInv
<1>10. Others' = Others
       /\ \A m \in Others : m \in Loader /\ (load'[m].pc = "revise" => load'[m] = load[m])
  BY <1>2, <1>6, <1>7 DEF Others
<1>11. Doomed' <=> Doomed
  BY <1>6, <1>7, <1>10 DEF Doomed
<1>12. ASSUME NEW v, AllLead(v) PROVE AllLead(v)'
  <2>1. Leads(catRev, v)'
    BY <1>0, <1>2, <1>4, <1>12 DEF AllLead, Leads, LocalInv
  <2>2. ASSUME NEW m \in Others, load'[m].pc = "revise", load'[m].phase = "page"
        PROVE  LeadOf(load'[m].ans.rev, v, gen', seq', deltas', rows')
    <3>1. load'[m] = load[m] /\ Leads(load[m].ans.rev, v)
      BY <1>10, <1>12, <2>2 DEF AllLead
    <3> QED
      BY <1>4, <1>5, <1>10, <3>1 DEF PastOnly
  <2> QED
    BY <1>10, <2>1, <2>2 DEF AllLead, Leads
<1>13. ASSUME NEW R \in Revs(gen), Past(R), NEW r, RowsAt(R, r) PROVE RowsAt(R, r)'
  <2>1. R = Revision' => r = rows'
    BY <1>0, <1>13, RevisionMoves DEF RowsAt
  <2>2. LeadOf(R, r, gen', seq', deltas', rows') /\ LeadOf(catRev', r, gen', seq', deltas', rows')
    BY <1>0, <1>2, <1>4, <1>13 DEF RowsAt, LocalInv
  <2>3. ASSUME NEW m \in Others, load'[m].pc = "revise"
        PROVE  LeadOf(load'[m].ans.rev, r, gen', seq', deltas', rows')
    <3>1. load'[m] = load[m] /\ Leads(load[m].ans.rev, r)
      BY <1>10, <1>13, <2>3 DEF RowsAt
    <3> QED
      BY <1>4, <1>5, <1>10, <3>1 DEF PastOnly
  <2>4. R = Never => r = Nothing
    BY <1>13 DEF RowsAt
  <2> QED
    BY <1>10, <2>1, <2>2, <2>3, <2>4 DEF RowsAt, Leads
<1>14. PICK y : y = load[latest]
  OBVIOUS
<1>15. OneRevision(y) /\ Sound(y)
  BY <1>14 DEF WholeInv
<1>16. CASE load'[latest] = y
  <2>1. ASSUME NEW R, Paged(y), y.revs = {R}
        PROVE  \E r \in Rows : RowsAt(R, r)' /\ PartOf(y, r)'
    <3>1. PICK r \in Rows : RowsAt(R, r) /\ PartOf(y, r)
      BY <1>15, <2>1 DEF OneRevision
    <3>2. R \in Revs(gen) /\ Past(R)
      BY <1>0, <1>5, <1>14, <2>1 DEF PastOnly
    <3>3. RowsAt(R, r)'
      BY <1>13, <3>1, <3>2
    <3>4. PartOf(y, r)'
      BY <1>2, <3>1 DEF PartOf
    <3> QED
      BY <3>3, <3>4
  <2>2. OneRevision(load[latest])'
    BY <1>2, <1>16, <2>1 DEF OneRevision, Paged
  <2>3. ASSUME NEW c \in {y.since, y.ans.rev}, NEW v, Leads(c, v)
        PROVE  LeadOf(c, v, gen', seq', deltas', rows')
    BY <1>0, <1>4, <1>5, <1>14, <2>3 DEF PastOnly
  <2>4. PICK v : v = view
    OBVIOUS
  <2>5. PICK w : w = Will(y, view)
    OBVIOUS
  <2>6. AllLead(v)' <=> AllLead(view)'
    BY <1>2, <2>4 DEF AllLead
  <2>7. AllLead(w)' <=> AllLead(Will(y, view))'
    BY <1>2, <2>5 DEF AllLead, Will
  <2>8. Sound(y)'
    BY <1>2, <1>11, <1>12, <1>15, <2>3, <2>4, <2>5, <2>6, <2>7 DEF Sound, Leads, Will
  <2> QED
    BY <1>2, <1>9, <1>16, <2>2, <2>8 DEF WholeInv, Sound
<1>17. CASE load'[latest] = NoLoad /\ y.pc \in {"rows", "delta"}
  <2>1. OneRevision(load[latest])'
    BY <1>2, <1>7, <1>17 DEF OneRevision
  <2>2. whole /\ ~Doomed => AllLead(view)
    BY <1>15, <1>17 DEF Sound
  <2>3. PICK v : v = view
    OBVIOUS
  <2>4. whole /\ ~Doomed => AllLead(v)'
    BY <1>12, <2>2, <2>3
  <2>5. AllLead(v)' <=> AllLead(view)'
    BY <1>2, <2>3 DEF AllLead
  <2>6. Sound(load[latest])'
    BY <1>2, <1>7, <1>11, <1>17, <2>4, <2>5 DEF Sound, Held
  <2> QED
    BY <1>9, <2>1, <2>6 DEF WholeInv
<1> QED
  BY <1>0, <1>6, <1>14, <1>16, <1>17

LEMMA WholeNext ==
  ASSUME WholeInv, [HomeNext]_vars
  PROVE  WholeInv'
<1>0. LocalInv
  BY DEF WholeInv
<1>1. CASE OwnerStep \/ Restart
  BY <1>1, OwnerWhole
<1>2. ASSUME NEW l \in Loader, Load(l) PROVE WholeInv'
  <2>1. HomeInv'
    BY <1>0, <1>2, LoadStep DEF LocalInv
  <2>2. CASE Fail(l)
    <3>1. Quiet /\ load' = [load EXCEPT ![l] = NoLoad] /\ load[l].pc # "apply"
      BY <2>2 DEF Fail, Quiet, revisions
    <3> QED
      BY <2>1, <3>1, QuietEnd
  <2>3. CASE ~Fail(l)
    BY <1>2, <2>1, <2>3, BeginWhole, ReadSinceWhole, AskWhole, RpcRowsWhole, RpcDeltaWhole,
       ReceiveFirstWhole, ReceiveDrainWhole, ReceivePageWhole, ReviseWhole, ApplyWhole DEF Load
  <2> QED
    BY <2>2, <2>3
<1>3. CASE UNCHANGED vars
  <2>1. /\ UNCHANGED <<gen, warm, rows, seq, deltas, building>>
        /\ UNCHANGED <<view, catRev, latest, load, whole>>
    BY <1>3 DEF vars, home, revisions
  <2>2. HomeInv'
    BY <1>0, <2>1 DEF LocalInv, HomeInv, OwnerOK, OwnerOf, ListOK, LoadsOK
  <2>3. LocalInv'
    BY <1>0, <2>1, <2>2 DEF LocalInv, Past, PastOnly
  <2>4. OneRevision(load[latest])'
    BY <2>1 DEF WholeInv, OneRevision, RowsAt, PartOf, Others, Leads, Revision
  <2>5. Sound(load[latest])'
    BY <2>1 DEF WholeInv, Sound, AllLead, Doomed, Others, Leads
  <2> QED
    BY <2>3, <2>4, <2>5 DEF WholeInv
<1> QED
  BY <1>1, <1>2, <1>3 DEF HomeNext

LEMMA WholeInit == HomeInit => WholeInv
<1> SUFFICES ASSUME HomeInit PROVE WholeInv
  OBVIOUS
<1>1. HomeInv /\ seq = 0 /\ rows = Nothing /\ deltas = << >> /\ catRev = Never /\ gen = 1
      /\ whole = FALSE /\ latest \in Loader /\ \A l \in Loader : load[l] = NoLoad
  BY InitHolds DEF HomeInit, RevisionsInit, ColdStart
<1>2. HistoryOf(deltas, seq, rows)
  <2>1. 1 .. Len(deltas) = {}
    BY <1>1
  <2> QED
    BY <2>1 DEF HistoryOf
<1>3. Past(Never)
  BY <1>1 DEF Past, PastOf, Never
<1>4. Kinds(NoLoad) /\ NoLoad.revs = {}
  BY DEF Kinds, NoLoad, NoAnswer, News, Paged, Held
<1>5. PastOnly(NoLoad)
  BY <1>3 DEF PastOnly, NoLoad, NoAnswer
<1>6. LocalInv
  BY <1>1, <1>2, <1>3, <1>4, <1>5 DEF LocalInv
<1> QED
  BY <1>1, <1>4, <1>6 DEF WholeInv, OneRevision, Sound

\* However many loads overtake each other and however many pages a list takes,
\* a list that has been got of one revision stays right: whenever no load runs,
\* quiet polls are enough to bring it to the owner's rows, or there is a gap.
\* Only a superseded load that had stored its revision, and then finds that it
\* may not install its rows, spoils it.  So it is for any sessions, page size,
\* revisions, restarts of the owner and failures.
THEOREM WholeListsCatchUp == HomeSpec => []WholeCatchesUp
<1>1. WholeInv => WholeCatchesUp
  <2> SUFFICES ASSUME WholeInv, whole, \A l \in Loader : load[l].pc = "idle", ~Gap(catRev)
               PROVE  Patched(view, DeltaSince(catRev)) = rows
    BY DEF WholeCatchesUp, PollCatchesUp
  <2>1. latest \in Loader /\ view \in Rows /\ catRev \in Revs(gen) /\ OwnerOK
        /\ HistoryOf(deltas, seq, rows)
    BY DEF WholeInv, LocalInv, HomeInv, ListOK
  <2>2. ~Doomed
    BY DEF Doomed, Others
  <2>3. LeadOf(catRev, view, gen, seq, deltas, rows)
    BY <2>1, <2>2 DEF WholeInv, Sound, AllLead, Leads
  <2>4. catRev[2] \in Nat
    BY <2>1, HomeAssumption DEF Revs, Never
  <2> QED
    BY <2>1, <2>3, <2>4, DeltaLeads
<1> QED
  BY <1>1, WholeInit, WholeNext, PTL DEF HomeSpec
=============================================================================
