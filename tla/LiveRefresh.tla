----------------------------- MODULE LiveRefresh -----------------------------
(***************************************************************************)
(* The open browser of one session in an attached terminal app: full loads *)
(* (opening, F5), light refreshes (watch, timers, session/changed) and the *)
(* heartbeat of the home list take turns at one lock of the session        *)
(* (session_inflight.py), and put what they miss off to a rerun.  The user *)
(* interface thread runs one callback at a time; loads, the light refresh  *)
(* and the heartbeat are threads.  An event of the journal is its number.  *)
(* Pages are those of the journal (TimelineCache); overviews need not be,  *)
(* as the owner keeps one under the stamp it finds after building it.      *)
(***************************************************************************)
EXTENDS Naturals, Sequences

CONSTANTS
  Load,        \* full loads at a time: the opening and F5
  Opening,     \* the one of the opening, and then of F5
  None,        \* nobody, not known
  Statuses,    \* what may be said of the session: subsets of {"live", "pending"}
  PageSize,    \* events in a page of session/timeline
  MaxEvents,   \* bound: events in the journal
  MaxHitches   \* bound: F5, changes of the gate's status, heartbeats, requests that fail

ASSUME LiveRefreshAssumption ==
  /\ Opening \in Load
  /\ None \notin BOOLEAN \cup Nat \cup {"load", "light", "beat"}
  /\ Statuses \subseteq SUBSET {"live", "pending"}
  /\ {MaxEvents, MaxHitches} \subseteq Nat /\ PageSize \in Nat \ {0}

VARIABLES
  total,     \* events that the owner finds in the journal
  status,    \* "live": session_needs_live_timeline; "pending": the follow-up bar is up
  inflight,  \* who holds the session's KIND_REFRESH entry
  rerun,     \* its rerun bit
  ui,        \* timers, flags and cached probes of the browser
  view,      \* the overview that the owner keeps: its stamp, and the events it counts
  build,     \* what the build of an overview counted, if one is under way
  held,      \* self.timeline
  stamp,     \* _last_overview_stamp
  short,     \* _overview_payload, stored with it, counts fewer events than it stands for
  meta,      \* self.meta is there
  asked,     \* overview_stamp, while a load or light refresh asks for an overview
  load,      \* per full load: its place
  light,     \* the light refresh: its place and local variables
  beat,      \* the home list's heartbeat: its place and local variables
  hitches,   \* F5, changes of the gate's status, heartbeats and failed requests
  failed     \* a full load got an error, which the user is told, or a light refresh did
             \* after it stored its stamp; no later one has made up for it

disk == <<total, status>>
lock == <<inflight, rerun>>
owner == <<view, build>>
shown == <<held, stamp, short, meta, asked>>
vars == <<disk, lock, owner, ui, shown, load, light, beat, hitches, failed>>

Events(from, to) == [i \in 1 .. (IF to > from THEN to - from ELSE 0) |-> from + i]

\* hot: watch, snapshot timer and heartbeat timer.  deferred: _live_refresh_deferred.
\* recent: less than the smallest gap has passed since _last_light_submit_at.
\* begun: _schedule_live_refresh has been called.  at: where the callback is that has
\* let go of the lock, or has not got it; "Beat" if it was called with heartbeat=True.
UiPC == {"free", "pull", "pullBeat", "rerun", "rerunBeat"}
UI == [at : UiPC, hot : BOOLEAN, recheck : BOOLEAN, deferred : BOOLEAN, pending : BOOLEAN,
       busy : BOOLEAN, heartbeat : BOOLEAN, recent : BOOLEAN, begun : BOOLEAN,
       isPending : BOOLEAN \cup {None}, isLive : BOOLEAN \cup {None}]

LoadPC == {"idle", "begin", "rerun", "overview", "viewing", "page", "rest", "release"}
LightPC == {"idle", "stamp", "overview", "viewing", "growth", "done"}
BeatPC == {"idle", "begin", "rerun", "works", "again"}

NoLight == [pc |-> "idle", want |-> 0, base |-> << >>]

Count == Nat \cup {None}

\* Also: whoever is at work has the lock, so there is one of them.
RefreshTypeOK ==
  /\ total \in Nat /\ status \in Statuses
  /\ inflight \in {None, "load", "light", "beat"} /\ rerun \in BOOLEAN
  /\ view \in [stamp : Count, count : Nat] /\ build \in Count
  /\ ui \in UI /\ held \in Seq(Nat) /\ meta \in BOOLEAN
  /\ stamp \in Count /\ short \in BOOLEAN /\ asked \in Count
  /\ load \in [Load -> LoadPC]
  /\ light \in [pc : LightPC, want : Nat, base : Seq(Nat)]
  /\ beat \in BeatPC /\ hitches \in Nat
  /\ failed \in BOOLEAN
  /\ \A l \in Load : load[l] \notin {"idle", "begin", "rerun"} =>
       /\ inflight = "load"
       /\ \A k \in Load \ {l} : load[k] \in {"idle", "begin", "rerun"}
  /\ light.pc # "idle" <=> inflight = "light"
  /\ beat = "works" <=> inflight = "beat"
  /\ ui.busy => inflight = "light"

RefreshInit ==
  /\ total = 0 /\ status \in Statuses
  /\ inflight = None /\ rerun = FALSE
  /\ view = [stamp |-> None, count |-> 0] /\ build = None
  /\ ui = [at |-> "free", hot |-> FALSE, recheck |-> FALSE, deferred |-> FALSE,
           pending |-> FALSE, busy |-> FALSE, heartbeat |-> FALSE, recent |-> FALSE,
           begun |-> FALSE, isPending |-> None, isLive |-> None]
  /\ held = << >> /\ stamp = None /\ short = FALSE /\ meta = FALSE /\ asked = None
  /\ load = [l \in Load |-> IF l = Opening THEN "begin" ELSE "idle"]
  /\ light = NoLight
  /\ beat = "idle" /\ hitches = 0
  /\ failed = FALSE

Live == "live" \in status

Hitch == hitches < MaxHitches /\ hitches' = hitches + 1

-----------------------------------------------------------------------------
(* The session.                                                            *)

\* A journal that grows is fresh.
AgentAppends ==
  /\ total < MaxEvents /\ total' = total + 1
  /\ status' \in {s \in Statuses : "live" \in s} /\ (Live => UNCHANGED status)
  /\ UNCHANGED <<lock, owner, ui, shown, load, light, beat, hitches, failed>>

StatusMoves ==
  /\ Hitch
  /\ status' \in Statuses \ {status}
  /\ UNCHANGED <<total, lock, owner, ui, shown, load, light, beat, failed>>

-----------------------------------------------------------------------------
(* SessionOverview.build of the owner, asked by whoever has the lock.      *)

Kept == view.stamp = total /\ UNCHANGED owner

Leads == view.stamp # total /\ build' = total /\ UNCHANGED view

\* Under the stamp that the inputs have by now.
Built == view' = [stamp |-> total, count |-> build] /\ build' = None

-----------------------------------------------------------------------------
(* What callbacks do to the browser u.                                     *)

\* The two probes, each cached until it is invalidated.
IsPending(u) == IF u.isPending = None THEN "pending" \in status ELSE u.isPending
IsLive(u) == IF u.isLive = None THEN "live" \in status ELSE u.isLive
Probed(u) == [u EXCEPT !.isPending = IsPending(u), !.isLive = IsLive(u)]
Invalid(u) == [u EXCEPT !.isPending = None, !.isLive = None]

\* _refresh_session_pending_bar
Bar(u) == [u EXCEPT !.isPending = "pending" \in status, !.isLive = None]

\* Mutant: it also stops the slow recheck.
DowngradeStops(u) == [u EXCEPT !.hot = FALSE, !.deferred = FALSE, !.recheck = FALSE]

\* _downgrade_live_refresh_to_recheck
Downgrade(u) == [u EXCEPT !.hot = FALSE, !.deferred = FALSE, !.recheck = TRUE]

\* _schedule_live_refresh
Scheduled(u) ==
  IF IsPending(u) \/ IsLive(u)
  THEN [Bar(u) EXCEPT !.recheck = FALSE, !.hot = TRUE, !.begun = TRUE]
  ELSE [Bar(Downgrade(u)) EXCEPT !.begun = TRUE]

\* _arm_live_refresh_deferred
Deferred(u) == [u EXCEPT !.pending = TRUE, !.deferred = TRUE]

\* try_begin succeeds: _submit_load_data_light.
Submits(u, heartbeat) ==
  /\ inflight' = "light" /\ rerun' = FALSE
  /\ light' = [NoLight EXCEPT !.pc = "stamp"]
  /\ ui' = [u EXCEPT !.busy = TRUE, !.pending = FALSE, !.recent = TRUE,
                     !.heartbeat = @ \/ heartbeat]

\* Only the browser changes.
Becomes(u) == ui' = u /\ UNCHANGED <<lock, light>>

\* Mutant: a refresh that finds the lock taken goes ahead.
PullsAnyway(u, heartbeat) ==
  \/ ~IsPending(u) /\ ~IsLive(u) /\ Becomes(Bar(Downgrade(u)))
  \/ IsPending(u) /\ ~IsLive(u) /\ ~heartbeat /\ Becomes(Bar(u))
  \/ (IsLive(u) \/ (IsPending(u) /\ heartbeat)) /\ Submits(Probed(u), heartbeat)

\* _live_refresh_from_fs, up to try_begin.
Pulls(u, heartbeat) ==
  \/ ~IsPending(u) /\ ~IsLive(u) /\ Becomes(Bar(Downgrade(u)))
  \/ IsPending(u) /\ ~IsLive(u) /\ ~heartbeat /\ Becomes(Bar(u))
  \/ /\ IsLive(u) \/ (IsPending(u) /\ heartbeat)
     /\ \/ ~heartbeat /\ u.recent /\ Becomes(Deferred(Probed(u)))
        \/ /\ heartbeat \/ ~u.recent
           /\ IF inflight = None THEN Submits(Probed(u), heartbeat)
              ELSE Becomes([Probed(u) EXCEPT !.at = IF heartbeat THEN "rerunBeat" ELSE "rerun"])

-----------------------------------------------------------------------------
(* Callbacks of the user interface thread.                                 *)

Free == ui.at = "free"
others == <<disk, owner, shown, load, beat, hitches, failed>>

\* It goes on: request_rerun, of which nothing comes if the other one has just ended.
UiReruns ==
  /\ ui.at \in {"rerun", "rerunBeat"}
  /\ rerun' = (inflight # None)
  /\ ui' = [ui EXCEPT !.at = "free", !.pending = TRUE,
                      !.heartbeat = @ \/ ui.at = "rerunBeat"]
  /\ UNCHANGED <<inflight, light, others>>

\* Or the refresh that the one that ended was asked for.
UiPulls ==
  /\ ui.at \in {"pull", "pullBeat"}
  /\ Pulls([ui EXCEPT !.at = "free"], ui.at = "pullBeat")
  /\ UNCHANGED others

\* The watch, or session/changed.
Told == Free /\ Pulls(ui, FALSE) /\ UNCHANGED others

Snapshot == Free /\ ui.hot /\ Pulls([ui EXCEPT !.isLive = None], FALSE) /\ UNCHANGED others

Heartbeat == Free /\ ui.hot /\ Pulls(ui, TRUE) /\ UNCHANGED others

RecheckTick ==
  /\ Free /\ ui.recheck
  /\ LET u == Invalid(ui) IN
     IF IsPending(u) \/ IsLive(u) THEN Pulls(Scheduled(u), FALSE) ELSE Becomes(Probed(u))
  /\ UNCHANGED others

DeferredFires ==
  /\ Free /\ ui.deferred
  /\ LET u == [ui EXCEPT !.deferred = FALSE] IN
     IF u.busy THEN Becomes([u EXCEPT !.pending = TRUE]) ELSE Pulls(u, FALSE)
  /\ UNCHANGED others

GapOver ==
  /\ ui.recent /\ Becomes([ui EXCEPT !.recent = FALSE])
  /\ UNCHANGED others

\* _session_follow_send, _session_follow_done
UserActs ==
  /\ Free /\ Hitch
  /\ "pending" \in status /\ status' \in {s \in Statuses : "live" \in s}
  /\ ui' = [ui EXCEPT !.isPending = "pending" \in status', !.isLive = None,
                      !.recheck = FALSE, !.hot = TRUE, !.begun = TRUE]
  /\ UNCHANGED <<total, lock, owner, shown, load, light, beat, failed>>

-----------------------------------------------------------------------------
(* A full load: _load_data.                                                *)

At(l, place) == load[l] = place
Goto(l, place) == load' = [load EXCEPT ![l] = place]

F5(l) ==
  /\ Free /\ Hitch /\ At(l, "idle") /\ Goto(l, "begin")
  /\ UNCHANGED <<disk, lock, owner, ui, shown, light, beat, failed>>

\* try_begin; then the stamp, before the overview is asked for.
LoadBegin(l) ==
  /\ At(l, "begin")
  /\ IF inflight = None
     THEN Goto(l, "overview") /\ inflight' = "load" /\ rerun' = FALSE /\ asked' = total
     ELSE Goto(l, "rerun") /\ UNCHANGED <<lock, asked>>
  /\ UNCHANGED <<disk, owner, ui, held, stamp, short, meta, light, beat, hitches, failed>>

\* Nothing is asked for when the other one has just ended.
LoadRerun(l) ==
  /\ At(l, "rerun") /\ Goto(l, "idle")
  /\ rerun' = (inflight # None)
  /\ UNCHANGED <<disk, inflight, owner, ui, shown, light, beat, hitches, failed>>

LoadTakes(l, n) ==
  Goto(l, "page") /\ stamp' = asked /\ short' = (n < asked) /\ asked' = None

\* One that is kept is taken, a build of another is waited for.
LoadOverview(l) ==
  /\ At(l, "overview")
  /\ \/ Kept /\ LoadTakes(l, view.count)
     \/ Leads /\ Goto(l, "viewing") /\ UNCHANGED <<stamp, short, asked>>
  /\ UNCHANGED <<disk, lock, ui, held, meta, light, beat, hitches, failed>>

LoadViewed(l) ==
  /\ At(l, "viewing") /\ Built /\ LoadTakes(l, build)
  /\ UNCHANGED <<disk, lock, ui, held, meta, light, beat, hitches, failed>>

\* The first page, and _commit_loaded_session: what comes between touches neither.
LoadPage(l) ==
  /\ Free /\ At(l, "page")
  /\ held' = Events(0, IF total < PageSize THEN total ELSE PageSize) /\ meta' = TRUE
  /\ ui' = Scheduled(ui)
  /\ IF total > PageSize THEN Goto(l, "rest") /\ UNCHANGED failed
                         ELSE Goto(l, "release") /\ failed' = FALSE
  /\ UNCHANGED <<disk, lock, owner, stamp, short, asked, light, beat, hitches>>

\* _load_control_remainder
LoadRest(l) ==
  /\ At(l, "rest")
  /\ held' = held \o Events(Len(held), total) /\ failed' = FALSE
  /\ Goto(l, "release")
  /\ UNCHANGED <<disk, lock, owner, ui, stamp, short, meta, asked, light, beat, hitches>>

LoadFails(l) ==
  /\ Hitch
  /\ load[l] \in {"overview", "viewing", "page", "rest"}
  /\ Goto(l, "release")
  /\ build' = (IF At(l, "viewing") THEN None ELSE build)
  /\ failed' = TRUE /\ asked' = None
  /\ UNCHANGED <<disk, lock, view, ui, held, stamp, short, meta, light, beat>>

\* _release_refresh_lock: end, and what was asked for meanwhile.
LoadRelease(l) ==
  /\ Free /\ At(l, "release") /\ Goto(l, "idle")
  /\ inflight' = None /\ rerun' = FALSE
  /\ ui' = [ui EXCEPT !.busy = FALSE, !.pending = FALSE, !.heartbeat = FALSE,
                      !.at = IF ~rerun THEN "free"
                             ELSE IF ui.heartbeat THEN "pullBeat" ELSE "pull"]
  /\ UNCHANGED <<disk, owner, shown, light, beat, hitches, failed>>

-----------------------------------------------------------------------------
(* A light refresh: _load_data_light_job.                                  *)

LightStamp ==
  /\ light.pc = "stamp"
  /\ IF meta /\ stamp = total THEN light' = [NoLight EXCEPT !.pc = "done"] /\ UNCHANGED asked
     ELSE light' = [NoLight EXCEPT !.pc = "overview"] /\ asked' = total
  /\ UNCHANGED <<disk, lock, owner, ui, held, stamp, short, meta, load, beat, hitches, failed>>

\* Mutant: the stamp is that of the journal after the overview was made.
LightTakesRestamped(n) ==
  /\ stamp' = total /\ short' = (n < asked) /\ asked' = None /\ meta' = TRUE
  /\ light' = IF n # Len(held) \/ held = << >> \/ stamp # total
              THEN [light EXCEPT !.pc = "growth", !.want = n, !.base = held]
              ELSE [NoLight EXCEPT !.pc = "done"]

LightTakes(n) ==
  /\ stamp' = asked /\ short' = (n < asked) /\ asked' = None /\ meta' = TRUE
  /\ light' = IF n # Len(held) \/ held = << >> \/ stamp # asked
              THEN [light EXCEPT !.pc = "growth", !.want = n, !.base = held]
              ELSE [NoLight EXCEPT !.pc = "done"]

LightOverview ==
  /\ light.pc = "overview"
  /\ \/ Kept /\ LightTakes(view.count)
     \/ Leads /\ light' = [light EXCEPT !.pc = "viewing"] /\ UNCHANGED <<stamp, short, meta, asked>>
  /\ UNCHANGED <<disk, lock, ui, held, load, beat, hitches, failed>>

LightViewed ==
  /\ light.pc = "viewing" /\ Built /\ LightTakes(build)
  /\ UNCHANGED <<disk, lock, ui, held, load, beat, hitches, failed>>

\* Mutant: the last event is fetched again, as it may have grown, and appended.
GrownTwice(base, want) ==
  IF base # << >> /\ want > Len(base) THEN base \o Events(Len(base) - 1, total)
  ELSE IF base # << >> /\ want = Len(base) THEN base
  ELSE Events(0, total)

\* fetch_timeline_growth
Grown(base, want) ==
  IF base # << >> /\ want > Len(base) THEN base \o Events(Len(base), total)
  ELSE IF base # << >> /\ want = Len(base) THEN base
  ELSE Events(0, total)

\* The rows are painted, and the bar when the turn has changed.
LightGrowth ==
  /\ Free /\ light.pc = "growth"
  /\ held' = Grown(light.base, light.want) /\ failed' = FALSE
  /\ ui' \in {ui, Bar(ui)}
  /\ light' = [NoLight EXCEPT !.pc = "done"]
  /\ UNCHANGED <<disk, lock, owner, stamp, short, meta, asked, load, beat, hitches>>

LightFails ==
  /\ Hitch
  /\ light.pc \in {"overview", "viewing", "growth"}
  /\ light' = [NoLight EXCEPT !.pc = "done"]
  /\ build' = (IF light.pc = "viewing" THEN None ELSE build)
  /\ failed' = (failed \/ light.pc = "growth") /\ asked' = None
  /\ UNCHANGED <<disk, lock, view, ui, held, stamp, short, meta, load, beat>>

\* _live_refresh_worker_done: end, and what was asked for meanwhile.
LightDone ==
  /\ Free /\ light.pc = "done" /\ light' = NoLight
  /\ inflight' = None /\ rerun' = FALSE
  /\ LET u == [ui EXCEPT !.busy = FALSE, !.pending = FALSE, !.heartbeat = FALSE] IN
     ui' = IF ~ui.pending /\ ~rerun THEN u
           ELSE IF ~ui.heartbeat /\ u.recent THEN Deferred(u)
           ELSE [u EXCEPT !.at = IF ui.heartbeat THEN "pullBeat" ELSE "pull"]
  /\ UNCHANGED <<disk, owner, shown, load, beat, hitches, failed>>

-----------------------------------------------------------------------------
(* _live_meta_heartbeat_worker, for this session among others.             *)

BeatStarts ==
  /\ beat = "idle" /\ Hitch /\ beat' = "begin"
  /\ UNCHANGED <<disk, lock, owner, ui, shown, load, light, failed>>

BeatBegin ==
  /\ beat = "begin"
  /\ IF inflight = None THEN beat' = "works" /\ inflight' = "beat" /\ rerun' = FALSE
                        ELSE beat' = "rerun" /\ UNCHANGED lock
  /\ UNCHANGED <<disk, owner, ui, shown, load, light, hitches, failed>>

BeatRerun ==
  /\ beat = "rerun" /\ beat' = "idle" /\ rerun' = (inflight # None)
  /\ UNCHANGED <<disk, inflight, owner, ui, shown, load, light, hitches, failed>>

BeatEnds ==
  /\ beat = "works" /\ beat' = (IF rerun THEN "again" ELSE "idle")
  /\ inflight' = None /\ rerun' = FALSE
  /\ UNCHANGED <<disk, owner, ui, shown, load, light, hitches, failed>>

\* _dispatch_refresh_rerun
BeatApplies ==
  /\ Free /\ beat = "again" /\ beat' = "idle" /\ Pulls(ui, TRUE)
  /\ UNCHANGED <<disk, owner, shown, load, hitches, failed>>

-----------------------------------------------------------------------------
Full(l) ==
  \/ LoadBegin(l) \/ LoadRerun(l) \/ LoadOverview(l) \/ LoadViewed(l) \/ LoadPage(l)
  \/ LoadRest(l) \/ LoadFails(l) \/ LoadRelease(l)

LightRefresh ==
  \/ LightStamp \/ LightOverview \/ LightViewed \/ LightGrowth \/ LightFails \/ LightDone

HomeBeat == BeatBegin \/ BeatRerun \/ BeatEnds \/ BeatApplies

UiGoesOn == UiReruns \/ UiPulls

RefreshNext ==
  \/ AgentAppends \/ StatusMoves \/ UserActs
  \/ UiGoesOn \/ Told \/ Snapshot \/ Heartbeat \/ RecheckTick \/ DeferredFires \/ GapOver
  \/ (\E l \in Load : F5(l) \/ Full(l))
  \/ LightRefresh \/ BeatStarts \/ HomeBeat

RefreshSpec == RefreshInit /\ [][RefreshNext]_vars

\* Threads run on, builds end, and the loop of the user interface gets to every
\* callback and timer, however many others there are (SF: it is free now and then).
FairRefresh ==
  /\ RefreshSpec
  /\ \A l \in Load : SF_vars(Full(l))
  /\ SF_vars(LightRefresh) /\ SF_vars(RecheckTick)
  /\ WF_vars(HomeBeat) /\ WF_vars(UiGoesOn)
  /\ WF_vars(Snapshot) /\ WF_vars(DeferredFires) /\ WF_vars(GapOver)

-----------------------------------------------------------------------------
\* Full loads, light refreshes and pages write self.timeline from different
\* threads: it has the first events of the session, in order and each once.
HeldInOrder == held = Events(0, Len(held))

\* "The job always re-parses when the timeline stamp changes": a stamp that makes
\* the next refresh return early stands for events that the browser has, unless the
\* owner's overview was behind the stamp it was kept under.
StampMeansHeld ==
  inflight \notin {"load", "light"} /\ ~failed /\ stamp # None /\ meta =>
    Len(held) >= stamp \/ short

\* "So new tool rows appear without exiting the screen": while the session is live,
\* whenever the agent pauses, its events get to the screen, whatever refreshes
\* meet, unless a request failed or the last overview is behind its stamp.
RowsArrive ==
  ui.begun /\ Live ~> Len(held) = total \/ ~Live \/ failed \/ (stamp = total /\ short)

\* "A resumed agent re-arms hot live without F5".
WakesUp == ui.begun /\ Live ~> ui.hot \/ ~Live

\* "Reload timeline/meta for this session": a browser that opens gets loaded, and
\* goes on refreshing, unless a request failed.
Opens == At(Opening, "begin") ~> ui.begun \/ failed
=============================================================================
