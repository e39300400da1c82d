------------------------- MODULE LiveRefresh_proofs -------------------------
(***************************************************************************)
(* For any loads, pages and journal: one of the full loads, the light      *)
(* refresh and the heartbeat is at work, the events that the browser holds *)
(* are the first ones, in order, and its stamp does not promise others.    *)
(***************************************************************************)
EXTENDS LiveRefresh, TLAPS

Holder == {None, "load", "light", "beat"}
LightState == [pc : LightPC, want : Nat, base : Seq(Nat)]
Views == [stamp : Count, count : Nat]

\* What callbacks make of the browser, and that it is as busy as before.
LEMMA Shapes ==
  ASSUME NEW u \in UI
  PROVE  /\ {IsPending(u), IsLive(u)} \subseteq BOOLEAN
         /\ Probed(u) \in UI /\ Probed(u).busy = u.busy
         /\ Invalid(u) \in UI /\ Invalid(u).busy = u.busy
         /\ Bar(u) \in UI /\ Bar(u).busy = u.busy
         /\ Downgrade(u) \in UI /\ Downgrade(u).busy = u.busy
         /\ Scheduled(u) \in UI /\ Scheduled(u).busy = u.busy
         /\ Deferred(u) \in UI /\ Deferred(u).busy = u.busy
         /\ \A place \in UiPC : [u EXCEPT !.at = place] \in UI /\ [u EXCEPT !.at = place].busy = u.busy
<1>1. {IsPending(u), IsLive(u)} \subseteq BOOLEAN
  <2>1. u.isPending \in BOOLEAN \cup {None} /\ u.isLive \in BOOLEAN \cup {None}
    BY DEF UI
  <2>2. ("pending" \in status) \in BOOLEAN /\ ("live" \in status) \in BOOLEAN
    OBVIOUS
  <2>3. IsPending(u) \in BOOLEAN
    BY <2>1, <2>2, Zenon DEF IsPending
  <2>4. IsLive(u) \in BOOLEAN
    BY <2>1, <2>2, Zenon DEF IsLive
  <2> QED
    BY <2>3, <2>4
<1>2. Probed(u) \in UI /\ Probed(u).busy = u.busy
  <2> DEFINE a == IsPending(u)
             b == IsLive(u)
  <2>1. a \in BOOLEAN \cup {None} /\ b \in BOOLEAN \cup {None}
    BY <1>1
  <2> HIDE DEF a, b
  <2>2. [u EXCEPT !.isPending = a, !.isLive = b] \in UI
    BY <2>1 DEF UI
  <2>3. [u EXCEPT !.isPending = a, !.isLive = b].busy = u.busy
    BY DEF UI
  <2> QED
    BY <2>2, <2>3 DEF Probed, a, b
<1>3. Invalid(u) \in UI /\ Invalid(u).busy = u.busy
  BY DEF Invalid, UI
<1>4. \A v \in UI : Bar(v) \in UI /\ Bar(v).busy = v.busy
  <2> TAKE v \in UI
  <2> DEFINE a == "pending" \in status
  <2>1. a \in BOOLEAN
    OBVIOUS
  <2> HIDE DEF a
  <2>2. [v EXCEPT !.isPending = a, !.isLive = None] \in UI
    BY <2>1 DEF UI
  <2>3. [v EXCEPT !.isPending = a, !.isLive = None].busy = v.busy
    BY DEF UI
  <2> QED
    BY <2>2, <2>3 DEF Bar, a
<1>5. Downgrade(u) \in UI /\ Downgrade(u).busy = u.busy
  BY DEF Downgrade, UI
<1>6. Scheduled(u) \in UI /\ Scheduled(u).busy = u.busy
  <2>1. \A v \in UI : /\ [v EXCEPT !.recheck = FALSE, !.hot = TRUE, !.begun = TRUE] \in UI
                      /\ [v EXCEPT !.recheck = FALSE, !.hot = TRUE, !.begun = TRUE].busy = v.busy
                      /\ [v EXCEPT !.begun = TRUE] \in UI
                      /\ [v EXCEPT !.begun = TRUE].busy = v.busy
    BY DEF UI
  <2>2. Bar(u) \in UI /\ Bar(u).busy = u.busy
    BY <1>4
  <2>3. Bar(Downgrade(u)) \in UI /\ Bar(Downgrade(u)).busy = u.busy
    BY <1>4, <1>5
  <2> QED
    BY <2>1, <2>2, <2>3, Zenon DEF Scheduled
<1>7. Deferred(u) \in UI /\ Deferred(u).busy = u.busy
  BY DEF Deferred, UI
<1>8. \A place \in UiPC : [u EXCEPT !.at = place] \in UI /\ [u EXCEPT !.at = place].busy = u.busy
  BY DEF UI
<1> QED
  BY <1>1, <1>2, <1>3, <1>4, <1>5, <1>6, <1>7, <1>8

\* What a callback that may refresh comes to.
Outcome(u) ==
  /\ ui' \in UI /\ rerun' \in BOOLEAN /\ light' \in LightState
  /\ \/ inflight' = inflight /\ ui'.busy = u.busy /\ light' = light
     \/ inflight = None /\ inflight' = "light" /\ light' = [NoLight EXCEPT !.pc = "stamp"]

LEMMA LightShapes ==
  NoLight \in LightState /\ \A place \in LightPC : [NoLight EXCEPT !.pc = place] \in LightState
<1>1. << >> \in Seq(Nat) /\ 0 \in Nat /\ "idle" \in LightPC
  BY DEF LightPC
<1>2. NoLight \in LightState
  BY <1>1, Zenon DEF NoLight, LightState
<1>3. \A r \in LightState, place \in LightPC : [r EXCEPT !.pc = place] \in LightState
  BY DEF LightState
<1> QED
  BY <1>2, <1>3

LEMMA PullsDoes ==
  ASSUME NEW u \in UI, NEW beats \in BOOLEAN,
         light \in LightState, rerun \in BOOLEAN, Pulls(u, beats)
  PROVE  Outcome(u)
<1> USE LightShapes
<1>1. ASSUME NEW v \in UI, v.busy = u.busy, Becomes(v) PROVE Outcome(u)
  BY <1>1 DEF Becomes, lock, Outcome
<1>2. ASSUME NEW v \in UI, inflight = None, Submits(v, beats) PROVE Outcome(u)
  <2> DEFINE b == v.heartbeat \/ beats
  <2>1. b \in BOOLEAN
    OBVIOUS
  <2> HIDE DEF b
  <2>2. [v EXCEPT !.busy = TRUE, !.pending = FALSE, !.recent = TRUE, !.heartbeat = b] \in UI
    BY <2>1 DEF UI
  <2>3. ui' \in UI
    BY <1>2, <2>2 DEF Submits, b
  <2> QED
    BY <1>2, <2>3 DEF Submits, Outcome, LightPC
<1>3. /\ Bar(Downgrade(u)) \in UI /\ Bar(Downgrade(u)).busy = u.busy
      /\ Bar(u) \in UI /\ Bar(u).busy = u.busy
      /\ Deferred(Probed(u)) \in UI /\ Deferred(Probed(u)).busy = u.busy
      /\ Probed(u) \in UI
  BY Shapes
<1>4. /\ (IF beats THEN "rerunBeat" ELSE "rerun") \in UiPC
      /\ [Probed(u) EXCEPT !.at = IF beats THEN "rerunBeat" ELSE "rerun"] \in UI
      /\ [Probed(u) EXCEPT !.at = IF beats THEN "rerunBeat" ELSE "rerun"].busy = u.busy
  <2> DEFINE place == IF beats THEN "rerunBeat" ELSE "rerun"
             v == Probed(u)
  <2>1. place \in UiPC
    BY DEF UiPC
  <2>2. v \in UI /\ v.busy = u.busy
    BY Shapes
  <2> HIDE DEF v, place
  <2>3. [v EXCEPT !.at = place] \in UI /\ [v EXCEPT !.at = place].busy = v.busy
    BY <2>1, <2>2, Shapes
  <2> QED
    BY <2>1, <2>2, <2>3 DEF v, place
<1> QED
  BY <1>1, <1>2, <1>3, <1>4, Zenon DEF Pulls

\* The two parts of the type invariant: shapes, and who is at work.
Shaped ==
  /\ total \in Nat /\ status \in Statuses /\ inflight \in Holder /\ rerun \in BOOLEAN
  /\ view \in Views /\ build \in Count
  /\ ui \in UI /\ held \in Seq(Nat) /\ meta \in BOOLEAN
  /\ stamp \in Count /\ short \in BOOLEAN /\ asked \in Count
  /\ load \in [Load -> LoadPC] /\ light \in LightState /\ beat \in BeatPC /\ hitches \in Nat
  /\ failed \in BOOLEAN

Exclusive ==
  /\ \A l \in Load : load[l] \notin {"idle", "begin", "rerun"} =>
       /\ inflight = "load"
       /\ \A k \in Load \ {l} : load[k] \in {"idle", "begin", "rerun"}
  /\ light.pc # "idle" <=> inflight = "light"
  /\ beat = "works" <=> inflight = "beat"
  /\ ui.busy => inflight = "light"

\* Whoever asks for an overview has taken the stamp, and its build has counted.
Asking ==
  /\ light.pc \in {"overview", "viewing"} => asked \in Nat
  /\ light.pc = "viewing" => build \in Nat
  /\ \A l \in Load : load[l] \in {"overview", "viewing"} => asked \in Nat
  /\ \A l \in Load : load[l] = "viewing" => build \in Nat

LEMMA Parts == RefreshTypeOK <=> Shaped /\ Exclusive
BY Zenon DEF RefreshTypeOK, Shaped, Exclusive, Holder, LightState, Views

LEMMA EventsShape ==
  ASSUME NEW a \in Nat, NEW b \in Nat
  PROVE  Events(a, b) \in Seq(Nat) /\ Len(Events(a, b)) = IF b > a THEN b - a ELSE 0
BY DEF Events

\* The lock after a callback.
LEMMA OutcomeKeeps ==
  ASSUME Shaped, Exclusive, NEW u \in UI, Outcome(u), u.busy => inflight = "light"
  PROVE  /\ ui' \in UI /\ rerun' \in BOOLEAN /\ light' \in LightState /\ inflight' \in Holder
         /\ light'.pc # "idle" <=> inflight' = "light"
         /\ ui'.busy => inflight' = "light"
         /\ inflight' = "load" <=> inflight = "load"
         /\ inflight' = "beat" <=> inflight = "beat"
<1>1. None \notin {"load", "light", "beat"}
  BY LiveRefreshAssumption
<1>2. [NoLight EXCEPT !.pc = "stamp"].pc = "stamp"
  BY DEF NoLight
<1>3. CASE inflight' = inflight /\ ui'.busy = u.busy /\ light' = light
  BY <1>1, <1>3 DEF Outcome, Shaped, Exclusive, Holder
<1>4. CASE inflight = None /\ inflight' = "light" /\ light' = [NoLight EXCEPT !.pc = "stamp"]
  BY <1>1, <1>2, <1>4 DEF Outcome, Holder
<1> QED
  BY <1>3, <1>4 DEF Outcome

\* A callback leaves the lock with its holder, or takes it when it is free.
LEMMA CallbackKeeps ==
  ASSUME Shaped, Exclusive, NEW u \in UI, u.busy => ui.busy, Outcome(u),
         UNCHANGED <<total, status, owner, shown, load, failed>>,
         beat' = beat \/ (beat = "again" /\ beat' = "idle"), hitches' \in Nat
  PROVE  Shaped' /\ Exclusive'
<1>1. u.busy => inflight = "light"
  BY DEF Exclusive
<1>2. /\ ui' \in UI /\ rerun' \in BOOLEAN /\ light' \in LightState /\ inflight' \in Holder
      /\ light'.pc # "idle" <=> inflight' = "light"
      /\ ui'.busy => inflight' = "light"
      /\ inflight' = "load" <=> inflight = "load"
      /\ inflight' = "beat" <=> inflight = "beat"
  BY <1>1, OutcomeKeeps
<1>3. Shaped'
  BY <1>2 DEF Shaped, BeatPC, owner, shown
<1>4. Exclusive'
  BY <1>2 DEF Exclusive
<1> QED
  BY <1>3, <1>4

\* At first the opening is about to begin, and nobody works.
LEMMA InitTypes == RefreshInit => RefreshTypeOK
<1> SUFFICES ASSUME RefreshInit PROVE RefreshTypeOK
  OBVIOUS
<1> USE LiveRefreshAssumption
<1>1. None \notin {"load", "light", "beat"}
  OBVIOUS
<1>2. ui \in UI /\ ~ui.busy
  BY DEF RefreshInit, UI, UiPC
<1>3. load \in [Load -> LoadPC] /\ \A l \in Load : load[l] \in {"idle", "begin"}
  BY DEF RefreshInit, LoadPC
<1>4. light \in LightState /\ light.pc = "idle"
  BY LightShapes DEF RefreshInit, NoLight
<1>5. << >> \in Seq(Nat)
  OBVIOUS
<1>6. Shaped
  BY <1>2, <1>3, <1>4, <1>5 DEF RefreshInit, Shaped, Holder, BeatPC, Count, Views
<1>7. Exclusive
  BY <1>1, <1>2, <1>3, <1>4 DEF RefreshInit, Exclusive
<1> QED
  BY <1>6, <1>7, Parts

\* A load that moves while it has the lock, or does not ask for it.
LEMMA LoadMoves ==
  ASSUME Shaped, Exclusive, NEW l \in Load, NEW place \in LoadPC, Goto(l, place),
         place \notin {"idle", "begin", "rerun"} => load[l] \notin {"idle", "begin", "rerun"},
         UNCHANGED <<inflight, light, beat>>, ui' \in UI, ui'.busy = ui.busy
  PROVE  load' \in [Load -> LoadPC] /\ Exclusive'
<1>1. load' = [load EXCEPT ![l] = place] /\ load \in [Load -> LoadPC]
  BY DEF Goto, Shaped
<1>2. \A k \in Load : load'[k] = IF k = l THEN place ELSE load[k]
  BY <1>1
<1>3. ASSUME NEW k \in Load, load'[k] \notin {"idle", "begin", "rerun"}
      PROVE  inflight' = "load" /\ \A m \in Load \ {k} : load'[m] \in {"idle", "begin", "rerun"}
  <2>1. load[k] \notin {"idle", "begin", "rerun"}
    BY <1>2, <1>3
  <2>2. inflight = "load" /\ \A m \in Load \ {k} : load[m] \in {"idle", "begin", "rerun"}
    BY <2>1 DEF Exclusive
  <2>3. \A m \in Load \ {k} : load'[m] \in {"idle", "begin", "rerun"}
    BY <1>2, <2>2
  <2> QED
    BY <2>2, <2>3
<1>4. load' \in [Load -> LoadPC]
  BY <1>1
<1>5. (light'.pc # "idle" <=> inflight' = "light") /\ (beat' = "works" <=> inflight' = "beat")
      /\ (ui'.busy => inflight' = "light")
  BY DEF Exclusive
<1> QED
  BY <1>3, <1>4, <1>5 DEF Exclusive

Callback ==
  Told \/ Snapshot \/ Heartbeat \/ RecheckTick \/ DeferredFires \/ BeatApplies \/ UiPulls

\* So with every callback that may refresh.
LEMMA CallbackOutcome ==
  ASSUME Shaped, Callback
  PROVE  \E u \in UI : u.busy = ui.busy /\ Outcome(u)
<1>0. /\ ui \in UI /\ light \in LightState /\ rerun \in BOOLEAN
      /\ TRUE \in BOOLEAN /\ FALSE \in BOOLEAN
  BY DEF Shaped
<1>1. CASE Pulls(ui, FALSE) \/ Pulls(ui, TRUE)
  <2>1. Outcome(ui)
    BY <1>0, <1>1, PullsDoes
  <2> QED
    BY <1>0, <2>1
<1>2. CASE Snapshot
  <2> DEFINE u == [ui EXCEPT !.isLive = None]
  <2>1. u \in UI /\ u.busy = ui.busy
    BY <1>0 DEF UI
  <2>2. Pulls(u, FALSE)
    BY <1>2 DEF Snapshot
  <2> HIDE DEF u
  <2>3. Outcome(u)
    BY <1>0, <2>1, <2>2, PullsDoes
  <2> QED
    BY <2>1, <2>3
<1>3. CASE RecheckTick
  <2> DEFINE u == Invalid(ui)
  <2>1. u \in UI /\ u.busy = ui.busy /\ Scheduled(u) \in UI /\ Scheduled(u).busy = u.busy
        /\ Probed(u) \in UI /\ Probed(u).busy = u.busy
    BY <1>0, Shapes
  <2>2. Pulls(Scheduled(u), FALSE) \/ Becomes(Probed(u))
    BY <1>3 DEF RecheckTick
  <2> HIDE DEF u
  <2>3. Outcome(Scheduled(u)) \/ Outcome(Probed(u))
    BY <1>0, <2>1, <2>2, PullsDoes DEF Becomes, lock, Outcome
  <2> QED
    BY <2>1, <2>3
<1>4. CASE DeferredFires
  <2> DEFINE u == [ui EXCEPT !.deferred = FALSE]
             v == [u EXCEPT !.pending = TRUE]
  <2>1. u \in UI /\ u.busy = ui.busy /\ v \in UI /\ v.busy = ui.busy
    BY <1>0 DEF UI
  <2>2. Pulls(u, FALSE) \/ Becomes(v)
    BY <1>4 DEF DeferredFires
  <2> HIDE DEF u, v
  <2>3. Outcome(u) \/ Outcome(v)
    BY <1>0, <2>1, <2>2, PullsDoes DEF Becomes, lock, Outcome
  <2> QED
    BY <2>1, <2>3
<1>5. CASE UiPulls
  <2> DEFINE u == [ui EXCEPT !.at = "free"]
             b == ui.at = "pullBeat"
  <2>1. u \in UI /\ u.busy = ui.busy /\ b \in BOOLEAN
    BY <1>0, Shapes DEF UiPC
  <2>2. Pulls(u, b)
    BY <1>5 DEF UiPulls
  <2> HIDE DEF u, b
  <2>3. Outcome(u)
    BY <1>0, <2>1, <2>2, PullsDoes
  <2> QED
    BY <2>1, <2>3
<1> QED
  BY <1>1, <1>2, <1>3, <1>4, <1>5 DEF Callback, Told, Heartbeat, BeatApplies

\* The end of a refresh gives the lock up; the browser may go on to another.
LEMMA ReleaseKeeps ==
  ASSUME Shaped, Exclusive, inflight # "beat", inflight' = None, rerun' = FALSE,
         ui' \in UI, ~ui'.busy, light' \in LightState, light'.pc = "idle",
         load' \in [Load -> LoadPC],
         \A k \in Load : load'[k] \in {"idle", "begin", "rerun"},
         UNCHANGED <<total, status, owner, shown, beat, hitches, failed>>
  PROVE  Shaped' /\ Exclusive'
<1>1. None \notin {"load", "light", "beat"}
  BY LiveRefreshAssumption
<1>2. Shaped'
  BY DEF Shaped, Holder, owner, shown
<1>3. Exclusive'
  BY <1>1 DEF Exclusive
<1> QED
  BY <1>2, <1>3

\* What it leaves of the browser.
LEMMA Released ==
  ASSUME Shaped, (\E l \in Load : LoadRelease(l)) \/ LightDone
  PROVE  ui' \in UI /\ ~ui'.busy
<1> DEFINE u == [ui EXCEPT !.busy = FALSE, !.pending = FALSE, !.heartbeat = FALSE]
<1>1. u \in UI /\ ~u.busy
  BY DEF Shaped, UI
<1>2. \/ ui' = u \/ ui' = Deferred(u)
      \/ \E place \in UiPC : ui' = [u EXCEPT !.at = place]
  <2>1. CASE LightDone
    BY <2>1 DEF LightDone, UiPC
  <2>2. ASSUME NEW l \in Load, LoadRelease(l) PROVE \E place \in UiPC : ui' = [u EXCEPT !.at = place]
    <3> DEFINE place == IF ~rerun THEN "free" ELSE IF ui.heartbeat THEN "pullBeat" ELSE "pull"
    <3>1. place \in UiPC
      BY DEF UiPC
    <3>2. ui' = [u EXCEPT !.at = place]
      BY <2>2 DEF LoadRelease, Shaped, UI
    <3> QED
      BY <3>1, <3>2
  <2> QED
    BY <2>1, <2>2
<1> HIDE DEF u
<1>3. Deferred(u) \in UI /\ Deferred(u).busy = u.busy
      /\ \A place \in UiPC : [u EXCEPT !.at = place] \in UI /\ [u EXCEPT !.at = place].busy = u.busy
  BY <1>1, Shapes
<1> QED
  BY <1>1, <1>2, <1>3

\* What taking an overview leaves.
LEMMA TakesShape ==
  ASSUME NEW n \in Nat, NEW m \in Nat PROVE m \in Count /\ None \in Count /\ (n < m) \in BOOLEAN
BY DEF Count

LEMMA LightTakesShape ==
  ASSUME Shaped, asked \in Nat, NEW n \in Nat, LightTakes(n)
  PROVE  /\ light' \in LightState /\ light'.pc # "idle" /\ stamp' \in Nat /\ short' \in BOOLEAN
         /\ asked' = None /\ meta' = TRUE
<1>1. {"growth", "done"} \subseteq LightPC
  BY DEF LightPC
<1>2. light' \in LightState /\ light'.pc # "idle"
  BY <1>1, LightShapes DEF LightTakes, Shaped, LightState, NoLight
<1>3. short' \in BOOLEAN
  BY TakesShape DEF LightTakes
<1> QED
  BY <1>2, <1>3 DEF LightTakes

\* Every step keeps both parts.
LEMMA StepTypes == Shaped /\ Exclusive /\ Asking /\ [RefreshNext]_vars => Shaped' /\ Exclusive'
<1> SUFFICES ASSUME Shaped, Exclusive, Asking, [RefreshNext]_vars PROVE Shaped' /\ Exclusive'
  OBVIOUS
<1> USE DEF disk, lock, owner, shown, others
<1>0. /\ ui \in UI /\ light \in LightState /\ rerun \in BOOLEAN /\ inflight \in Holder
      /\ None \in Holder /\ None \notin {"load", "light", "beat"}
      /\ ui.heartbeat \in BOOLEAN /\ TRUE \in BOOLEAN /\ FALSE \in BOOLEAN
  BY LiveRefreshAssumption DEF Shaped, Holder, UI
<1>1. CASE AgentAppends
  BY <1>1 DEF AgentAppends, Shaped, Exclusive
<1>2. CASE StatusMoves
  BY <1>2 DEF StatusMoves, Hitch, Shaped, Exclusive
<1>3. CASE UserActs
  <2> DEFINE b == "pending" \in status'
  <2>1. b \in BOOLEAN
    OBVIOUS
  <2>2. ui' = [ui EXCEPT !.isPending = b, !.isLive = None, !.recheck = FALSE, !.hot = TRUE, !.begun = TRUE]
    BY <1>3 DEF UserActs
  <2> HIDE DEF b
  <2>3. ui' \in UI /\ ui'.busy = ui.busy
    BY <1>0, <2>1, <2>2 DEF UI
  <2> QED
    BY <1>3, <2>3 DEF UserActs, Hitch, Shaped, Exclusive
<1>4. CASE Callback
  <2>1. PICK u \in UI : u.busy = ui.busy /\ Outcome(u)
    BY <1>4, CallbackOutcome
  <2>2. /\ UNCHANGED <<total, status, owner, shown, load, failed>>
        /\ beat' = beat \/ (beat = "again" /\ beat' = "idle")
        /\ hitches' \in Nat
    BY <1>4 DEF Callback, Told, Snapshot, Heartbeat, RecheckTick, DeferredFires, BeatApplies, UiPulls, Shaped
  <2> QED
    BY <2>1, <2>2, CallbackKeeps
<1>13. CASE UiReruns
  <2> DEFINE b == ui.heartbeat \/ ui.at = "rerunBeat"
  <2>1. b \in BOOLEAN
    OBVIOUS
  <2>2. ui' = [ui EXCEPT !.at = "free", !.pending = TRUE, !.heartbeat = b]
    BY <1>13 DEF UiReruns, Shaped, UI
  <2> HIDE DEF b
  <2>3. ui' \in UI /\ ui'.busy = ui.busy
    BY <1>0, <2>1, <2>2 DEF UI, UiPC
  <2>4. rerun' \in BOOLEAN
    BY <1>13, Zenon DEF UiReruns
  <2> QED
    BY <1>13, <2>3, <2>4 DEF UiReruns, Shaped, Exclusive
<1>5. CASE GapOver
  <2>1. ui' \in UI /\ ui'.busy = ui.busy
    BY <1>0, <1>5 DEF GapOver, Becomes, UI
  <2> QED
    BY <1>5, <2>1 DEF GapOver, Becomes, Shaped, Exclusive
<1>6. ASSUME NEW l \in Load, F5(l) \/ Full(l) PROVE Shaped' /\ Exclusive'
  <2>0. {"idle", "begin", "rerun", "overview", "viewing", "page", "rest", "release"} \subseteq LoadPC
    BY DEF LoadPC
  <2>1. CASE F5(l)
    BY <1>0, <2>0, <2>1, LoadMoves DEF F5, Hitch, Shaped
  <2>2. CASE LoadBegin(l)
    <3>1. CASE inflight = None
      <4>1. load' = [load EXCEPT ![l] = "overview"] /\ inflight' = "load" /\ rerun' = FALSE
        BY <2>2, <3>1 DEF LoadBegin, Goto
      <4>2. load' \in [Load -> LoadPC]
        BY <2>0, <4>1 DEF Shaped
      <4>3. \A k \in Load : load[k] \in {"idle", "begin", "rerun"}
        BY <1>0, <3>1 DEF Exclusive
      <4>4. \A k \in Load \ {l} : load'[k] \in {"idle", "begin", "rerun"}
        BY <4>1, <4>3 DEF Shaped
      <4>5. Shaped'
        BY <2>2, <3>1, <4>1, <4>2 DEF LoadBegin, Shaped, Holder, Count
      <4> QED
        BY <1>0, <2>2, <3>1, <4>1, <4>3, <4>4, <4>5 DEF LoadBegin, Exclusive
    <3>2. CASE inflight # None
      BY <1>0, <2>0, <2>2, <3>2, LoadMoves DEF LoadBegin, Shaped
    <3> QED
      BY <3>1, <3>2
  <2>3. CASE LoadRerun(l)
    <3>1. rerun' \in BOOLEAN
      BY <2>3, Zenon DEF LoadRerun
    <3> QED
      BY <1>0, <2>0, <2>3, <3>1, LoadMoves DEF LoadRerun, Shaped
  <2>4. CASE LoadOverview(l)
    <3>1. asked \in Nat /\ load[l] \notin {"idle", "begin", "rerun"}
      BY <2>4 DEF LoadOverview, At, Asking
    <3>2. CASE Kept /\ LoadTakes(l, view.count)
      BY <1>0, <2>0, <2>4, <3>1, <3>2, LoadMoves, TakesShape DEF LoadOverview, LoadTakes, Kept, Shaped
    <3>3. CASE Leads /\ Goto(l, "viewing") /\ UNCHANGED <<stamp, short, asked>>
      BY <1>0, <2>0, <2>4, <3>1, <3>3, LoadMoves DEF LoadOverview, Leads, Shaped, Count
    <3> QED
      BY <2>4, <3>2, <3>3 DEF LoadOverview
  <2>9. CASE LoadViewed(l)
    <3>1. asked \in Nat /\ build \in Nat /\ load[l] \notin {"idle", "begin", "rerun"}
      BY <2>9 DEF LoadViewed, At, Asking
    <3> QED
      BY <1>0, <2>0, <2>9, <3>1, LoadMoves, TakesShape DEF LoadViewed, LoadTakes, Built, Shaped, Views, Count
  <2>5. CASE LoadPage(l)
    <3>1. ui' \in UI /\ ui'.busy = ui.busy
      BY <1>0, <2>5, Shapes DEF LoadPage
    <3>2. held' \in Seq(Nat)
      BY <2>5, EventsShape, LiveRefreshAssumption DEF LoadPage, Shaped
    <3>3. \E place \in {"rest", "release"} : Goto(l, place)
      BY <2>5 DEF LoadPage
    <3>4. load' \in [Load -> LoadPC] /\ Exclusive'
      BY <2>0, <2>5, <3>1, <3>3, LoadMoves DEF LoadPage, At
    <3>5. failed' \in BOOLEAN
      BY <2>5 DEF LoadPage, Shaped
    <3> QED
      BY <2>5, <3>1, <3>2, <3>4, <3>5 DEF LoadPage, Shaped
  <2>6. CASE LoadRest(l)
    <3>1. held' \in Seq(Nat)
      BY <2>6, EventsShape DEF LoadRest, Shaped
    <3> QED
      BY <1>0, <2>0, <2>6, <3>1, LoadMoves DEF LoadRest, Shaped, At
  <2>7. CASE LoadFails(l)
    BY <1>0, <2>0, <2>7, LoadMoves DEF LoadFails, Shaped, Hitch, Count
  <2>8. CASE LoadRelease(l)
    <3>1. ui' \in UI /\ ~ui'.busy
      BY <2>8, Released
    <3>2. load' = [load EXCEPT ![l] = "idle"] /\ load[l] = "release"
      BY <2>8 DEF LoadRelease, Goto, At
    <3>3. inflight = "load" /\ \A k \in Load \ {l} : load[k] \in {"idle", "begin", "rerun"}
      BY <3>2 DEF Exclusive
    <3>4. load' \in [Load -> LoadPC] /\ \A k \in Load : load'[k] \in {"idle", "begin", "rerun"}
      BY <2>0, <3>2, <3>3 DEF Shaped
    <3>5. light.pc = "idle"
      BY <1>0, <3>3 DEF Exclusive
    <3> QED
      BY <1>0, <2>8, <3>1, <3>3, <3>4, <3>5, ReleaseKeeps DEF LoadRelease
  <2> QED
    BY <1>6, <2>1, <2>2, <2>3, <2>4, <2>5, <2>6, <2>7, <2>8, <2>9 DEF Full
<1>7. CASE LightRefresh
  <2>0. {"idle", "stamp", "overview", "viewing", "growth", "done"} \subseteq LightPC
    BY DEF LightPC
  <2>1. [NoLight EXCEPT !.pc = "done"] \in LightState /\ [NoLight EXCEPT !.pc = "done"].pc = "done"
    BY <2>0, LightShapes DEF NoLight
  <2>2. CASE LightStamp
    <3>1. light' \in LightState /\ light'.pc # "idle" /\ asked' \in Count
      BY <1>0, <2>0, <2>1, <2>2, LightShapes DEF LightStamp, NoLight, Shaped, Count
    <3> QED
      BY <2>2, <3>1 DEF LightStamp, Shaped, Exclusive
  <2>3. CASE LightOverview
    <3>1. asked \in Nat
      BY <2>3 DEF LightOverview, Asking
    <3>2. CASE Kept /\ LightTakes(view.count)
      <4>1. view.count \in Nat
        BY DEF Shaped, Views
      <4>2. light' \in LightState /\ light'.pc # "idle" /\ stamp' \in Nat /\ short' \in BOOLEAN
            /\ asked' = None /\ meta' = TRUE
        BY <2>3, <3>1, <3>2, <4>1, LightTakesShape DEF LightOverview
      <4> QED
        BY <2>3, <3>2, <4>2 DEF LightOverview, Kept, Shaped, Exclusive, Count
    <3>3. CASE Leads /\ light' = [light EXCEPT !.pc = "viewing"] /\ UNCHANGED <<stamp, short, meta, asked>>
      <4>1. light' \in LightState /\ light'.pc # "idle"
        BY <1>0, <2>0, <3>3 DEF LightState
      <4> QED
        BY <2>3, <3>3, <4>1 DEF LightOverview, Leads, Shaped, Exclusive, Count
    <3> QED
      BY <2>3, <3>2, <3>3 DEF LightOverview
  <2>7. CASE LightViewed
    <3>1. asked \in Nat /\ build \in Nat
      BY <2>7 DEF LightViewed, Asking
    <3>2. light' \in LightState /\ light'.pc # "idle" /\ stamp' \in Nat /\ short' \in BOOLEAN
          /\ asked' = None /\ meta' = TRUE
      BY <2>7, <3>1, LightTakesShape DEF LightViewed
    <3> QED
      BY <2>7, <3>1, <3>2 DEF LightViewed, Built, Shaped, Exclusive, Count, Views
  <2>4. CASE LightGrowth
    <3>1. ui' \in UI /\ ui'.busy = ui.busy
      BY <1>0, <2>4, Shapes DEF LightGrowth
    <3>2. light.base \in Seq(Nat) /\ total \in Nat
      BY <1>0 DEF Shaped, LightState
    <3>3. held' \in Seq(Nat)
      <4>1. Len(light.base) \in Nat /\ 0 \in Nat
        BY <3>2
      <4>2. Events(Len(light.base), total) \in Seq(Nat) /\ Events(0, total) \in Seq(Nat)
        BY <3>2, <4>1, EventsShape
      <4> QED
        BY <2>4, <3>2, <4>2 DEF LightGrowth, Grown
    <3> QED
      BY <2>1, <2>4, <3>1, <3>3 DEF LightGrowth, Shaped, Exclusive
  <2>5. CASE LightFails
    <3>1. failed' \in BOOLEAN
      BY <2>5, Zenon DEF LightFails
    <3> QED
      BY <2>1, <2>5, <3>1 DEF LightFails, Hitch, Shaped, Exclusive, Count
  <2>6. CASE LightDone
    <3>1. ui' \in UI /\ ~ui'.busy
      BY <2>6, Released
    <3>2. inflight = "light"
      BY <2>6 DEF LightDone, Exclusive
    <3>3. load' \in [Load -> LoadPC] /\ \A k \in Load : load'[k] \in {"idle", "begin", "rerun"}
      BY <2>6, <3>2 DEF LightDone, Shaped, Exclusive
    <3>4. light' \in LightState /\ light'.pc = "idle"
      BY <2>6, LightShapes DEF LightDone, NoLight
    <3> QED
      BY <1>0, <2>6, <3>1, <3>2, <3>3, <3>4, ReleaseKeeps DEF LightDone
  <2> QED
    BY <1>7, <2>2, <2>3, <2>4, <2>5, <2>6, <2>7 DEF LightRefresh
<1>8. CASE BeatStarts
  BY <1>8 DEF BeatStarts, Hitch, Shaped, Exclusive, BeatPC
<1>9. CASE BeatBegin
  <2>1. inflight = None => \A k \in Load : load[k] \in {"idle", "begin", "rerun"}
    BY <1>0 DEF Exclusive
  <2>2. CASE inflight = None
    BY <1>0, <1>9, <2>1, <2>2 DEF BeatBegin, Shaped, Exclusive, BeatPC, Holder
  <2>3. CASE inflight # None
    BY <1>0, <1>9, <2>3 DEF BeatBegin, Shaped, Exclusive, BeatPC
  <2> QED
    BY <2>2, <2>3
<1>10. CASE BeatRerun
  <2>1. rerun' \in BOOLEAN
    BY <1>10, Zenon DEF BeatRerun
  <2> QED
    BY <1>10, <2>1 DEF BeatRerun, Shaped, Exclusive, BeatPC
<1>11. CASE BeatEnds
  <2>1. inflight = "beat" /\ \A k \in Load : load[k] \in {"idle", "begin", "rerun"}
    BY <1>11 DEF BeatEnds, Exclusive
  <2>2. beat' \in BeatPC /\ beat' # "works"
    BY <1>11 DEF BeatEnds, BeatPC
  <2> QED
    BY <1>0, <1>11, <2>1, <2>2 DEF BeatEnds, Shaped, Exclusive
<1>12. CASE UNCHANGED vars
  BY <1>12 DEF vars, Shaped, Exclusive
<1> QED
  BY <1>1, <1>2, <1>3, <1>4, <1>5, <1>6, <1>7, <1>8, <1>9, <1>10, <1>11, <1>12, <1>13
     DEF RefreshNext, HomeBeat, UiGoesOn, Callback

\* And who asks for an overview has its stamp.
LEMMA StepAsking == Shaped /\ Exclusive /\ Asking /\ [RefreshNext]_vars => Asking'
<1> SUFFICES ASSUME Shaped, Exclusive, Asking, [RefreshNext]_vars PROVE Asking'
  OBVIOUS
<1> USE DEF disk, lock, owner, shown, others
<1>0. /\ total \in Nat /\ NoLight.pc = "idle" /\ load \in [Load -> LoadPC]
      /\ \A place \in LightPC : [NoLight EXCEPT !.pc = place].pc = place
  BY DEF NoLight, Shaped
<1>1. CASE AgentAppends \/ StatusMoves \/ UserActs \/ GapOver \/ BeatStarts \/ BeatBegin \/ BeatRerun
           \/ BeatEnds \/ UiReruns \/ UNCHANGED vars
  BY <1>1 DEF AgentAppends, StatusMoves, UserActs, GapOver, Becomes, BeatStarts, BeatBegin,
     BeatRerun, BeatEnds, UiReruns, vars, Asking
<1>2. CASE Callback
  <2>1. PICK u \in UI : Outcome(u)
    BY <1>2, CallbackOutcome
  <2>2. UNCHANGED <<owner, shown, load>>
    BY <1>2 DEF Callback, Told, Snapshot, Heartbeat, RecheckTick, DeferredFires, BeatApplies, UiPulls
  <2>3. light' = light \/ light'.pc = "stamp"
    BY <1>0, <2>1 DEF Outcome, LightPC
  <2> QED
    BY <2>2, <2>3 DEF Asking
<1>3. ASSUME NEW l \in Load, F5(l) \/ Full(l) PROVE Asking'
  <2>1. \A place : Goto(l, place) => load'[l] = place /\ \A k \in Load \ {l} : load'[k] = load[k]
    BY <1>0 DEF Goto
  <2>2. light' = light
    BY <1>3 DEF F5, Full, LoadBegin, LoadRerun, LoadOverview, LoadViewed, LoadPage, LoadRest, LoadFails, LoadRelease
  <2>3. load[l] \notin {"idle", "begin", "rerun"} =>
          light.pc = "idle" /\ \A k \in Load \ {l} : load[k] \in {"idle", "begin", "rerun"}
    BY LiveRefreshAssumption DEF Exclusive
  <2>4. CASE F5(l) \/ LoadRerun(l)
    BY <2>1, <2>2, <2>4 DEF F5, LoadRerun, Asking
  <2>5. CASE LoadBegin(l)
    <3>1. CASE inflight = None
      <4>1. light.pc = "idle" /\ \A k \in Load : load[k] \in {"idle", "begin", "rerun"}
        BY <3>1, LiveRefreshAssumption DEF Exclusive
      <4> QED
        BY <1>0, <2>1, <2>2, <2>5, <3>1, <4>1 DEF LoadBegin, Asking
    <3>2. CASE inflight # None
      BY <2>1, <2>2, <2>5, <3>2 DEF LoadBegin, Asking
    <3> QED
      BY <3>1, <3>2
  <2>6. CASE LoadOverview(l) \/ LoadViewed(l) \/ LoadPage(l) \/ LoadRest(l) \/ LoadFails(l) \/ LoadRelease(l)
    <3>1. light.pc = "idle" /\ \A k \in Load \ {l} : load[k] \in {"idle", "begin", "rerun"}
      BY <2>3, <2>6 DEF LoadOverview, LoadViewed, LoadPage, LoadRest, LoadFails, LoadRelease, At
    <3>2. \/ load'[l] \in {"page", "rest", "release", "idle"} /\ \A k \in Load \ {l} : load'[k] = load[k]
          \/ load'[l] = "viewing" /\ load[l] = "overview" /\ asked' = asked /\ build' = total
             /\ \A k \in Load \ {l} : load'[k] = load[k]
      BY <2>1, <2>6 DEF LoadOverview, LoadViewed, LoadTakes, LoadPage, LoadRest, LoadFails, LoadRelease, At, Leads
    <3> QED
      BY <1>0, <2>2, <3>1, <3>2 DEF Asking
  <2> QED
    BY <1>3, <2>4, <2>5, <2>6 DEF Full
<1>4. CASE LightRefresh
  <2>1. UNCHANGED load /\ \A k \in Load : load[k] \notin {"overview", "viewing"}
    <3>1. light.pc # "idle" /\ UNCHANGED load
      BY <1>4 DEF LightRefresh, LightStamp, LightOverview, LightViewed, LightGrowth, LightFails, LightDone
    <3> QED
      BY <3>1 DEF Exclusive
  <2>2. \/ light'.pc \in {"done", "idle", "growth"}
        \/ light'.pc = "overview" /\ asked' = total
        \/ light'.pc = "viewing" /\ asked' = asked /\ light.pc = "overview" /\ build' = total
    <3>1. CASE LightStamp
      BY <1>0, <3>1 DEF LightStamp, LightPC
    <3>2. CASE LightOverview \/ LightViewed
      <4>1. ASSUME NEW n, LightTakes(n) PROVE light'.pc \in {"done", "growth"}
        BY <1>0, <4>1 DEF LightTakes, LightPC, Shaped, LightState
      <4>2. CASE Leads /\ light' = [light EXCEPT !.pc = "viewing"] /\ UNCHANGED asked /\ LightOverview
        BY <4>2 DEF LightOverview, Leads, Shaped, LightState
      <4> QED
        BY <3>2, <4>1, <4>2 DEF LightOverview, LightViewed
    <3>3. CASE LightGrowth \/ LightFails \/ LightDone
      BY <1>0, <3>3 DEF LightGrowth, LightFails, LightDone, LightPC
    <3> QED
      BY <1>4, <3>1, <3>2, <3>3 DEF LightRefresh
  <2> QED
    BY <1>0, <2>1, <2>2 DEF Asking
<1> QED
  BY <1>1, <1>2, <1>3, <1>4 DEF RefreshNext, HomeBeat, UiGoesOn, Callback

-----------------------------------------------------------------------------
\* What the browser holds, and what a growth is added to.
InOrder ==
  /\ HeldInOrder
  /\ light.pc = "growth" => light.base = held

\* The stamps on their way are of what the journal has, as is what the owner keeps;
\* while pages come they may be ahead of the rows.
Settled ==
  /\ stamp # None => stamp <= total
  /\ asked # None => asked <= total
  /\ view.count <= total /\ (build # None => build <= total)
  /\ light.pc = "growth" =>
       stamp # None /\ light.want <= total /\ (short \/ stamp <= light.want)
  /\ light.pc # "growth" /\ (\A l \in Load : load[l] \notin {"page", "rest"}) =>
       (~failed /\ stamp # None /\ meta => Len(held) >= stamp \/ short)

\* Pages in sequence.
LEMMA EventsJoin ==
  ASSUME NEW n \in Nat, NEW m \in Nat
  PROVE  Events(0, n) \o Events(n, m) = Events(0, IF m > n THEN m ELSE n)
<1> DEFINE e == Events(0, n) \o Events(n, m)
           k == IF m > n THEN m ELSE n
<1>1. Events(0, n) = [i \in 1 .. n |-> i]
  BY DEF Events
<1>2. Events(n, m) = [i \in 1 .. k - n |-> n + i]
  BY DEF Events
<1>3. Events(0, k) = [i \in 1 .. k |-> i]
  BY DEF Events
<1>4. [i \in 1 .. n |-> i] \o [i \in 1 .. k - n |-> n + i] = [i \in 1 .. k |-> i]
  OBVIOUS
<1> QED
  BY <1>1, <1>2, <1>3, <1>4

\* A first piece of the events is in order.
LEMMA FirstInOrder ==
  ASSUME NEW n \in Nat
  PROVE  Events(0, n) = Events(0, Len(Events(0, n))) /\ Len(Events(0, n)) = n
BY EventsShape DEF Events

\* A step that touches neither rows nor stamp.
LEMMA Aside ==
  ASSUME Shaped, Exclusive, InOrder, Settled, UNCHANGED <<held, stamp, short, meta, failed, view>>,
         asked' \in {asked, None, total}, build' \in {build, None, total},
         total' \in Nat, total' >= total,
         \/ light' = light
         \/ light.pc # "growth" /\ light'.pc \in {"idle", "stamp", "done"},
         (\A l \in Load : load'[l] \notin {"page", "rest"}) =>
           (\A l \in Load : load[l] \notin {"page", "rest"})
  PROVE  InOrder' /\ Settled'
<1>1. InOrder'
  BY DEF InOrder, HeldInOrder
<1>2. CASE light' = light
  <2>1. stamp \in Nat \/ stamp = None
    BY DEF Shaped, Count
  <2>2. light.want \in Nat /\ total \in Nat /\ view.count \in Nat
    BY DEF Shaped, LightState, Views
  <2>3. asked \in Nat \cup {None} /\ build \in Nat \cup {None}
    BY DEF Shaped, Count
  <2> QED
    BY <1>1, <1>2, <2>1, <2>2, <2>3 DEF Settled
<1>3. CASE light.pc # "growth" /\ light'.pc \in {"idle", "stamp", "done"}
  <2>1. stamp \in Nat \/ stamp = None
    BY DEF Shaped, Count
  <2>2. total \in Nat /\ view.count \in Nat
    BY DEF Shaped, Views
  <2>3. asked \in Nat \cup {None} /\ build \in Nat \cup {None}
    BY DEF Shaped, Count
  <2> QED
    BY <1>1, <1>3, <2>1, <2>2, <2>3 DEF Settled
<1> QED
  BY <1>2, <1>3

\* So with a callback.
LEMMA CallbackAside ==
  ASSUME Shaped, Exclusive, InOrder, Settled, NEW u \in UI, Outcome(u),
         UNCHANGED <<total, owner, shown, load, failed>>
  PROVE  InOrder' /\ Settled'
<1>1. [NoLight EXCEPT !.pc = "stamp"].pc = "stamp"
  BY DEF NoLight
<1>2. total \in Nat
  BY DEF Shaped
<1>3. light.pc = "growth" => inflight = "light"
  BY DEF Exclusive
<1>4. \/ light' = light
      \/ light.pc # "growth" /\ light'.pc \in {"idle", "stamp", "done"}
  BY <1>1, <1>3, LiveRefreshAssumption DEF Outcome
<1> QED
  BY <1>2, <1>4, Aside DEF owner, shown

LEMMA InitSettled == RefreshInit => InOrder /\ Settled
<1> SUFFICES ASSUME RefreshInit PROVE InOrder /\ Settled
  OBVIOUS
<1>1. /\ light.pc = "idle" /\ stamp = None /\ held = << >> /\ asked = None
      /\ view.count = 0 /\ build = None /\ total = 0
  BY DEF RefreshInit, NoLight
<1>2. << >> = Events(0, Len(<< >>))
  BY DEF Events
<1> QED
  BY <1>1, <1>2 DEF InOrder, HeldInOrder, Settled

\* Every step keeps the rows in order, and the stamp behind them.
LEMMA StepSettled ==
  Shaped /\ Exclusive /\ Asking /\ InOrder /\ Settled /\ [RefreshNext]_vars => InOrder' /\ Settled'
<1> SUFFICES ASSUME Shaped, Exclusive, Asking, InOrder, Settled, [RefreshNext]_vars
             PROVE  InOrder' /\ Settled'
  OBVIOUS
<1> USE DEF disk, lock, owner, shown, others
<1>0. /\ total \in Nat /\ stamp \in Nat \cup {None} /\ held \in Seq(Nat) /\ Len(held) \in Nat
      /\ light.want \in Nat /\ held = Events(0, Len(held)) /\ view.count \in Nat
      /\ asked \in Nat \cup {None} /\ build \in Nat \cup {None}
  BY DEF Shaped, LightState, Views, Count, InOrder, HeldInOrder
<1>1. CASE AgentAppends \/ StatusMoves \/ UserActs \/ GapOver \/ BeatStarts \/ BeatBegin \/ BeatRerun
           \/ BeatEnds \/ UiReruns \/ UNCHANGED vars
  BY <1>0, <1>1, Aside DEF AgentAppends, StatusMoves, UserActs, GapOver, Becomes, BeatStarts, BeatBegin,
     BeatRerun, BeatEnds, UiReruns, vars
<1>2. CASE Callback
  <2>1. PICK u \in UI : Outcome(u)
    BY <1>2, CallbackOutcome
  <2>2. UNCHANGED <<total, owner, shown, load, failed>>
    BY <1>2 DEF Callback, Told, Snapshot, Heartbeat, RecheckTick, DeferredFires, BeatApplies, UiPulls
  <2> QED
    BY <2>1, <2>2, CallbackAside
<1>3. ASSUME NEW l \in Load, F5(l) \/ Full(l) PROVE InOrder' /\ Settled'
  <2>1. load \in [Load -> LoadPC]
    BY DEF Shaped
  <2>2. \A place : Goto(l, place) => load'[l] = place /\ \A k \in Load \ {l} : load'[k] = load[k]
    BY <2>1 DEF Goto
  <2>3. load[l] \in {"overview", "viewing", "page", "rest", "release"} =>
          light.pc = "idle" /\ \A k \in Load \ {l} : load[k] \notin {"page", "rest"}
    BY LiveRefreshAssumption DEF Exclusive
  <2>4. CASE F5(l) \/ LoadBegin(l) \/ LoadRerun(l)
    <3>1. load[l] \notin {"page", "rest"}
      BY <2>4 DEF F5, LoadBegin, LoadRerun, At
    <3>2. \E place : Goto(l, place)
      BY <2>4 DEF F5, LoadBegin, LoadRerun
    <3>3. (\A k \in Load : load'[k] \notin {"page", "rest"}) => \A k \in Load : load[k] \notin {"page", "rest"}
      BY <2>2, <3>1, <3>2
    <3> QED
      BY <1>0, <2>4, <3>3, Aside DEF F5, LoadBegin, LoadRerun
  <2>5. CASE LoadOverview(l) \/ LoadViewed(l)
    <3>1. asked \in Nat /\ light.pc = "idle" /\ load[l] \notin {"page", "rest"}
      BY <2>3, <2>5 DEF LoadOverview, LoadViewed, At, Asking
    <3>2. CASE Leads /\ Goto(l, "viewing") /\ UNCHANGED <<stamp, short, asked>>
      <4>1. \A k \in Load : load[k] \notin {"page", "rest"}
        BY <2>3, <2>5, <3>1 DEF LoadOverview, LoadViewed, At
      <4> QED
        BY <1>0, <2>5, <3>2, <4>1, Aside DEF LoadOverview, LoadViewed, Leads
    <3>3. ASSUME NEW n \in Nat, LoadTakes(l, n), view'.count \in Nat, view'.count <= total,
                 build' = None \/ build' = build
          PROVE  InOrder' /\ Settled'
      <4>1. load'[l] = "page" /\ stamp' = asked /\ asked' = None
        BY <2>2, <3>3 DEF LoadTakes
      <4> QED
        BY <1>0, <2>5, <3>1, <3>3, <4>1, LiveRefreshAssumption
           DEF LoadOverview, LoadViewed, InOrder, HeldInOrder, Settled
    <3>4. CASE Kept /\ LoadTakes(l, view.count)
      BY <1>0, <3>3, <3>4 DEF Kept, Settled
    <3>5. CASE LoadViewed(l)
      BY <1>0, <3>3, <3>5, LiveRefreshAssumption DEF LoadViewed, Built, Settled, Asking, At
    <3> QED
      BY <2>5, <3>2, <3>4, <3>5 DEF LoadOverview
  <2>6. CASE LoadPage(l)
    <3>1. light.pc = "idle"
      BY <2>3, <2>6 DEF LoadPage, At
    <3>2. held' = Events(0, Len(held'))
      BY <1>0, <2>6, FirstInOrder, LiveRefreshAssumption DEF LoadPage
    <3>3. CASE total > PageSize
      <4>1. load'[l] = "rest"
        BY <2>2, <2>6, <3>3 DEF LoadPage
      <4> QED
        BY <1>0, <2>6, <3>1, <3>2, <4>1 DEF LoadPage, InOrder, HeldInOrder, Settled
    <3>4. CASE ~(total > PageSize)
      <4>1. Len(held') = total
        <5>1. (IF total < PageSize THEN total ELSE PageSize) = total
          BY <1>0, <3>4, LiveRefreshAssumption
        <5>2. held' = Events(0, total)
          BY <2>6, <5>1 DEF LoadPage
        <5> QED
          BY <1>0, <5>2, FirstInOrder
      <4> QED
        BY <1>0, <2>6, <3>1, <3>2, <4>1 DEF LoadPage, InOrder, HeldInOrder, Settled
    <3> QED
      BY <3>3, <3>4
  <2>7. CASE LoadRest(l)
    <3>1. light.pc = "idle"
      BY <2>3, <2>7 DEF LoadRest, At
    <3>2. held' = Events(0, IF total > Len(held) THEN total ELSE Len(held))
      BY <1>0, <2>7, EventsJoin DEF LoadRest
    <3>3. held' = Events(0, Len(held')) /\ Len(held') >= total
      BY <1>0, <3>2, FirstInOrder
    <3> QED
      BY <1>0, <2>7, <3>1, <3>3 DEF LoadRest, InOrder, HeldInOrder, Settled
  <2>8. CASE LoadFails(l)
    <3>1. light.pc = "idle"
      BY <2>3, <2>8 DEF LoadFails
    <3> QED
      BY <1>0, <2>8, <3>1 DEF LoadFails, InOrder, HeldInOrder, Settled
  <2>9. CASE LoadRelease(l)
    <3>1. light.pc = "idle" /\ \A k \in Load : load[k] \notin {"page", "rest"}
      BY <2>3, <2>9 DEF LoadRelease, At
    <3> QED
      BY <1>0, <2>9, <3>1, Aside DEF LoadRelease
  <2> QED
    BY <1>3, <2>4, <2>5, <2>6, <2>7, <2>8, <2>9 DEF Full
<1>4. CASE LightRefresh
  <2>0. NoLight.pc = "idle" /\ [NoLight EXCEPT !.pc = "done"].pc = "done"
    BY DEF NoLight
  <2>1. light.pc # "idle" => \A k \in Load : load[k] \notin {"page", "rest"}
    BY DEF Exclusive
  <2>2. CASE LightStamp
    <3>1. CASE meta /\ stamp = total
      <4>1. light'.pc = "done" /\ light.pc = "stamp"
        BY <2>0, <2>2, <3>1 DEF LightStamp
      <4>2. UNCHANGED <<total, held, stamp, short, meta, failed, view, asked, build, load>>
        BY <2>2, <3>1 DEF LightStamp
      <4> QED
        BY <1>0, <4>1, <4>2, Aside
    <3>2. CASE ~(meta /\ stamp = total)
      <4>1. light'.pc = "overview" /\ asked' = total
        BY <2>2, <3>2 DEF LightStamp, NoLight
      <4> QED
        BY <1>0, <2>2, <4>1 DEF LightStamp, InOrder, HeldInOrder, Settled
    <3> QED
      BY <3>1, <3>2
  <2>3. CASE LightOverview \/ LightViewed
    <3>1. asked \in Nat /\ asked <= total
      BY <1>0, <2>3, LiveRefreshAssumption DEF LightOverview, LightViewed, Asking, Settled
    <3>2. CASE Leads /\ light' = [light EXCEPT !.pc = "viewing"] /\ UNCHANGED <<stamp, short, meta, asked>>
      <4>1. light'.pc = "viewing" /\ light.pc # "growth"
        BY <2>3, <3>2 DEF LightOverview, LightViewed, Shaped, LightState
      <4> QED
        BY <1>0, <2>3, <3>2, <4>1 DEF LightOverview, LightViewed, Leads, InOrder, HeldInOrder, Settled
    <3>3. ASSUME NEW n \in Nat, n <= total, LightTakes(n), view'.count \in Nat, view'.count <= total,
                 build' = None \/ build' = build
          PROVE  InOrder' /\ Settled'
      <4>1. stamp' = asked /\ short' = (n < asked) /\ asked' = None
        BY <3>3 DEF LightTakes
      <4>4. (short' \/ asked <= n) /\ held' = held /\ total' = total
        <5>1. n < asked \/ asked <= n
          BY <3>1, <3>3
        <5>2. held' = held /\ total' = total
          BY <2>3 DEF LightOverview, LightViewed
        <5> QED
          BY <4>1, <5>1, <5>2
      <4>5. held' = Events(0, Len(held')) /\ build' \in {None, build}
        BY <1>0, <3>3, <4>4
      <4>2. CASE light' = [light EXCEPT !.pc = "growth", !.want = n, !.base = held]
        <5>1. light'.pc = "growth" /\ light'.want = n /\ light'.base = held
          BY <4>2 DEF Shaped, LightState
        <5>2. InOrder'
          BY <4>4, <4>5, <5>1 DEF InOrder, HeldInOrder
        <5>3. stamp' \in Nat /\ stamp' # None /\ stamp' <= total'
          BY <3>1, <4>1, <4>4, LiveRefreshAssumption
        <5>4. short' \/ stamp' <= light'.want
          BY <4>1, <4>4, <5>1
        <5>5. view'.count <= total' /\ (build' # None => build' <= total')
          BY <3>3, <4>4, <4>5 DEF Settled
        <5> QED
          BY <3>3, <4>1, <4>4, <5>1, <5>2, <5>3, <5>4, <5>5 DEF Settled
      <4>3. CASE light' = [NoLight EXCEPT !.pc = "done"] /\ n = Len(held)
        <5>1. light'.pc = "done"
          BY <2>0, <4>3
        <5>2. InOrder'
          BY <4>4, <4>5, <5>1 DEF InOrder, HeldInOrder
        <5>3. stamp' <= total' /\ (short' \/ Len(held') >= stamp')
          BY <1>0, <3>1, <4>1, <4>3, <4>4
        <5>5. view'.count <= total' /\ (build' # None => build' <= total')
          BY <3>3, <4>4, <4>5 DEF Settled
        <5> QED
          BY <4>1, <5>1, <5>2, <5>3, <5>5 DEF Settled
      <4> QED
        BY <3>3, <4>2, <4>3 DEF LightTakes
    <3>4. CASE Kept /\ LightTakes(view.count)
      BY <1>0, <3>3, <3>4 DEF Kept, Settled
    <3>5. CASE LightViewed
      BY <1>0, <3>3, <3>5, LiveRefreshAssumption DEF LightViewed, Built, Settled, Asking
    <3> QED
      BY <2>3, <3>2, <3>4, <3>5 DEF LightOverview
  <2>4. CASE LightGrowth
    <3>1. /\ stamp \in Nat /\ stamp <= total /\ light.want <= total /\ light.base = held
          /\ short \/ stamp <= light.want
      BY <1>0, <2>4 DEF LightGrowth, InOrder, Settled
    <3>2. held' = Events(0, Len(held')) /\ (Len(held') >= stamp \/ short)
      <4>1. CASE held # << >> /\ light.want > Len(held)
        <5>1. held' = Events(0, IF total > Len(held) THEN total ELSE Len(held))
          BY <1>0, <2>4, <3>1, <4>1, EventsJoin DEF LightGrowth, Grown
        <5> QED
          BY <1>0, <3>1, <5>1, FirstInOrder
      <4>2. CASE held # << >> /\ light.want = Len(held)
        BY <1>0, <2>4, <3>1, <4>2 DEF LightGrowth, Grown
      <4>3. CASE ~(held # << >> /\ light.want >= Len(held))
        <5>1. held' = Events(0, total)
          BY <1>0, <2>4, <3>1, <4>3 DEF LightGrowth, Grown
        <5> QED
          BY <1>0, <3>1, <5>1, FirstInOrder
      <4> QED
        BY <1>0, <4>1, <4>2, <4>3
    <3> QED
      BY <1>0, <2>0, <2>4, <3>1, <3>2 DEF LightGrowth, InOrder, HeldInOrder, Settled
  <2>5. CASE LightFails
    BY <1>0, <2>0, <2>1, <2>5 DEF LightFails, InOrder, HeldInOrder, Settled
  <2>6. CASE LightDone
    BY <1>0, <2>0, <2>6, Aside DEF LightDone
  <2> QED
    BY <1>4, <2>2, <2>3, <2>4, <2>5, <2>6 DEF LightRefresh
<1> QED
  BY <1>1, <1>2, <1>3, <1>4 DEF RefreshNext, HomeBeat, UiGoesOn, Callback

\* All that the steps keep.
LEMMA AllKept == RefreshSpec => [](Shaped /\ Exclusive /\ Asking /\ InOrder /\ Settled)
<1>1. RefreshInit => Shaped /\ Exclusive /\ Asking /\ InOrder /\ Settled
  <2>1. RefreshInit => Asking
    BY DEF RefreshInit, Asking, NoLight
  <2> QED
    BY <2>1, InitTypes, Parts, InitSettled
<1>2. Shaped /\ Exclusive /\ Asking /\ InOrder /\ Settled /\ [RefreshNext]_vars =>
        (Shaped /\ Exclusive /\ Asking /\ InOrder /\ Settled)'
  BY StepTypes, StepAsking, StepSettled
<1> QED
  BY <1>1, <1>2, PTL DEF RefreshSpec

\* One at a time: a full load past its try_begin, the light refresh and the
\* heartbeat never work side by side, and every variable keeps its shape.
THEOREM RefreshTypesKept == RefreshSpec => []RefreshTypeOK
<1>1. Shaped /\ Exclusive => RefreshTypeOK
  BY Parts
<1> QED
  BY <1>1, AllKept, PTL

\* Full loads, light refreshes and pages, each from its own thread, leave the
\* first events of the session in self.timeline, in order and each once.
THEOREM RowsInOrder == RefreshSpec => []HeldInOrder
<1>1. InOrder => HeldInOrder
  BY DEF InOrder
<1> QED
  BY <1>1, AllKept, PTL

\* The stamp that lets the next light refresh return early stands for events that
\* the browser has, whenever no refresh is under way and none has failed, unless the
\* owner answered with an overview that counts fewer events than the stamp.
THEOREM StampsMeanHeld == RefreshSpec => []StampMeansHeld
<1>1. Shaped /\ Exclusive /\ Settled => StampMeansHeld
  <2> SUFFICES ASSUME Exclusive, Settled, inflight \notin {"load", "light"} PROVE StampMeansHeld
    BY DEF StampMeansHeld
  <2>1. light.pc # "growth" /\ \A l \in Load : load[l] \notin {"page", "rest"}
    BY DEF Exclusive
  <2> QED
    BY <2>1 DEF Settled, StampMeansHeld
<1> QED
  BY <1>1, AllKept, PTL
=============================================================================
