---------------------------- MODULE TimelineCache ----------------------------
(***************************************************************************)
(* How the control owner reads the journal of one session, which the agent *)
(* appends to meanwhile: parse_timeline (parser.py) with its incremental   *)
(* scan, its cache and its one parse at a time, and SessionOverview.build  *)
(* (session/control_views.py), which is cached and joined the same way.    *)
(* Requests run in threads of the owner.  A line of the journal has two    *)
(* bytes: what an agent writes may end in the middle of a line.  A list of *)
(* events shares its TraceEvents with the scan that it was made of, which  *)
(* changes them in place when it reads on: text, time and index.           *)
(***************************************************************************)
EXTENDS Naturals, Sequences

CONSTANTS
  Thread,      \* threads that serve requests
  None,        \* nobody, nothing
  MaxChanges,  \* bound: changes of the journal
  MaxSize,     \* bound: bytes in it
  MaxFaults    \* bound: rewrites of it, failed reads and dropped cache entries

ASSUME TimelineAssumption ==
  /\ None \notin Thread
  /\ {MaxChanges, MaxSize, MaxFaults} \subseteq Nat

VARIABLES
  size,      \* st_size of updates.jsonl, 0 when there is none
  gen,       \* the times that it was truncated or replaced
  past,      \* all that it has held, in complete lines, version by version
  objects,   \* per scan begun: the lines that have gone into its events by now
  cache,     \* _timeline_cache of the session, or None
  parsing,   \* _timeline_inflight: the thread that parses, or None
  overview,  \* SessionOverview._cache of the session, or None
  viewing,   \* SessionOverview._inflight: the thread that builds, or None
  faults,    \* failed reads, and entries that the caches have dropped
  call,      \* per thread: its request, and the local variables
  shown      \* per thread: events in its last overview, while the journal only grows

journal == <<size, gen, past>>
timeline == <<journal, objects, cache, parsing, overview, viewing, faults, call, shown>>

\* The lines of generation g that lie wholly in bytes from..to.
Lines(g, from, to) ==
  LET first == (from + 1) \div 2 IN
  [i \in 1 .. (IF to \div 2 > first THEN to \div 2 - first ELSE 0) |-> <<g, first + i>>]

Held == Seq(Nat \X Nat)

\* A stamp is the mtime and the size: it moves with every change.
Stamp == Len(past)

\* true: the journal was only appended to since the scan began.
Objects == [lines : Held, true : BOOLEAN]
NoObjects == [lines |-> << >>, true |-> TRUE]

\* _UpdatesScanState; id tells which objects.
Scan == [id : Nat, pos : Nat, events : Held, gen : Nat, true : BOOLEAN]
NoScan == [id |-> Len(objects) + 1, pos |-> 0, events |-> << >>, gen |-> gen, true |-> TRUE]

ParsePC == {"body", "read", "resolve"}
BuildPC == {"stamp", "look", "join", "wait", "restamp"} \cup ParsePC
PC == {"idle", "view", "viewlook", "viewjoin", "viewwait", "answer"} \cup BuildPC

\* session/timeline and session/overview.
Kind == {"page", "view"}

CallState == [pc : PC, kind : Kind, since : Nat, view : Nat, stamp : Nat, size : Nat, scan : Scan,
              events : Held, true : BOOLEAN, from : Nat]

NoCall == [pc |-> "idle", kind |-> "page", since |-> 0, view |-> 0, stamp |-> 0, size |-> 0,
           scan |-> [id |-> 0, pos |-> 0, events |-> << >>, gen |-> 0, true |-> TRUE],
           events |-> << >>, true |-> TRUE, from |-> 0]

\* Also: one thread parses, one builds, and those are the ones that hold the flights.
TimelineTypeOK ==
  /\ size \in Nat /\ gen \in Nat /\ past \in Seq(Held) /\ faults \in Nat
  /\ objects \in Seq(Objects)
  /\ cache = None \/ cache \in [stamp : Nat, events : Held, true : BOOLEAN, scan : Scan]
  /\ overview = None \/ overview \in [stamp : Nat, events : Held, true : BOOLEAN]
  /\ parsing \in Thread \cup {None} /\ viewing \in Thread \cup {None}
  /\ call \in [Thread -> CallState] /\ shown \in [Thread -> Nat]
  /\ \A c \in Thread : call[c].pc \in ParsePC <=> parsing = c
  /\ \A c \in Thread : call[c].kind = "view" /\ call[c].pc \in BuildPC <=> viewing = c
  /\ \A c \in Thread : call[c].pc \in PC \ (BuildPC \cup {"idle", "answer"}) => call[c].kind = "view"

TimelineInit ==
  /\ size = 0 /\ gen = 0 /\ past = << << >> >> /\ objects = << >>
  /\ cache = None /\ parsing = None /\ overview = None /\ viewing = None
  /\ faults = 0
  /\ call = [c \in Thread |-> NoCall] /\ shown = [c \in Thread |-> 0]

At(c, place) == call[c].pc = place
Goto(c, place) == call' = [call EXCEPT ![c].pc = place]

\* Where parse_timeline returns to.
Parsed(c) == IF call[c].kind = "view" THEN "restamp" ELSE "answer"

FaultLeft == gen + faults < MaxFaults

-----------------------------------------------------------------------------
(* The journal.                                                            *)

Writes(g, n) ==
  /\ Len(past) <= MaxChanges /\ n <= MaxSize
  /\ gen' = g /\ size' = n /\ past' = Append(past, Lines(g, 0, n))
  /\ UNCHANGED <<objects, cache, parsing, overview, viewing, faults, call, shown>>

AgentAppends == \E n \in size + 1 .. MaxSize : Writes(gen, n)

Rewritten == FaultLeft /\ size > 0 /\ \E n \in 0 .. size : Writes(gen + 1, n)

\* BoundedCache: other sessions push this one out.
Evict ==
  /\ FaultLeft /\ faults' = faults + 1
  /\ \/ cache # None /\ cache' = None /\ UNCHANGED overview
     \/ overview # None /\ overview' = None /\ UNCHANGED cache
  /\ UNCHANGED <<journal, objects, parsing, viewing, call, shown>>

-----------------------------------------------------------------------------
(* SessionOverview.build, up to its parse.                                 *)

\* A request arrives, and begins with a stamp.
Ask(c, kind) ==
  /\ At(c, "idle")
  /\ call' = [call EXCEPT ![c] = IF kind = "page"
       THEN [NoCall EXCEPT !.pc = "look", !.kind = kind, !.since = Stamp, !.stamp = Stamp]
       ELSE [NoCall EXCEPT !.pc = "viewlook", !.kind = kind, !.view = Stamp]]
  /\ UNCHANGED <<journal, objects, cache, parsing, overview, viewing, faults, shown>>

ViewStamp(c) ==
  /\ At(c, "view")
  /\ call' = [call EXCEPT ![c].pc = "viewlook", ![c].view = Stamp]
  /\ UNCHANGED <<journal, objects, cache, parsing, overview, viewing, faults, shown>>

ViewLook(c) ==
  /\ At(c, "viewlook")
  /\ IF overview # None /\ overview.stamp = call[c].view
     THEN call' = [call EXCEPT ![c].pc = "answer", ![c].view = 0, ![c].events = overview.events,
                               ![c].true = overview.true]
     ELSE call' = [call EXCEPT ![c].pc = "viewjoin", ![c].view = 0]
  /\ UNCHANGED <<journal, objects, cache, parsing, overview, viewing, faults, shown>>

\* Mutant: everybody builds.
ViewJoinNobody(c) ==
  /\ At(c, "viewjoin")
  /\ Goto(c, "stamp") /\ viewing' = c
  /\ UNCHANGED <<journal, objects, cache, parsing, overview, faults, shown>>

ViewJoin(c) ==
  /\ At(c, "viewjoin")
  /\ IF viewing = None THEN Goto(c, "stamp") /\ viewing' = c
                       ELSE Goto(c, "viewwait") /\ UNCHANGED viewing
  /\ UNCHANGED <<journal, objects, cache, parsing, overview, faults, shown>>

-----------------------------------------------------------------------------
(* parse_timeline.                                                         *)

ParseStamp(c) ==
  /\ At(c, "stamp")
  /\ call' = [call EXCEPT ![c].pc = "look", ![c].stamp = Stamp]
  /\ UNCHANGED <<journal, objects, cache, parsing, overview, viewing, faults, shown>>

Hit(c) == cache # None /\ cache.stamp = call[c].stamp

Takes(c, place) ==
  call' = [call EXCEPT ![c].pc = place, ![c].stamp = 0, ![c].events = cache.events,
                         ![c].true = cache.true,
                         ![c].from = cache.scan.id]

Look(c) ==
  /\ At(c, "look")
  /\ IF Hit(c) THEN Takes(c, Parsed(c)) ELSE Goto(c, "join")
  /\ UNCHANGED <<journal, objects, cache, parsing, overview, viewing, faults, shown>>

\* Mutant: everybody parses.
JoinNobody(c) ==
  /\ At(c, "join")
  /\ Goto(c, "body") /\ parsing' = c
  /\ UNCHANGED <<journal, objects, cache, overview, viewing, faults, shown>>

Join(c) ==
  /\ At(c, "join")
  /\ IF parsing = None THEN Goto(c, "body") /\ parsing' = c
                       ELSE call' = [call EXCEPT ![c].pc = "wait", ![c].stamp = 0] /\ UNCHANGED parsing
  /\ UNCHANGED <<journal, objects, cache, overview, viewing, faults, shown>>

Begins(c, scan) ==
  call' = [call EXCEPT ![c].pc = "read", ![c].size = size, ![c].scan = scan]

\* _parse_timeline_body: another thread may have filled the cache; otherwise the
\* scan goes on where the last one stopped, unless the journal is shorter now.
Body(c) ==
  /\ At(c, "body")
  /\ IF Hit(c) THEN Takes(c, "resolve") /\ UNCHANGED objects
     ELSE IF cache = None \/ size < cache.scan.pos
     THEN Begins(c, NoScan) /\ objects' = Append(objects, NoObjects)
     ELSE Begins(c, cache.scan) /\ UNCHANGED objects
  /\ UNCHANGED <<journal, cache, parsing, overview, viewing, faults, shown>>

Stores(c, scan, true) ==
  /\ cache' = [stamp |-> call[c].stamp, events |-> scan.events, true |-> true, scan |-> scan]
  /\ call' = [call EXCEPT ![c].pc = "resolve", ![c].stamp = 0, ![c].size = 0, ![c].scan = NoCall.scan,
                         ![c].events = scan.events, ![c].true = true, ![c].from = scan.id]
  /\ UNCHANGED <<journal, parsing, overview, viewing, shown>>

\* Mutant: a line that is not complete is read as if it were.
ScannedTorn(s, was) ==
  IF was = s.pos THEN [s EXCEPT !.true = @ /\ s.gen = gen]
  ELSE [id |-> s.id, pos |-> IF size > s.pos THEN size ELSE s.pos,
        events |-> s.events \o Lines(gen, s.pos, size), gen |-> s.gen, true |-> s.true /\ s.gen = gen]

\* _scan_updates_jsonl: nothing when the size was that of the offset, or the
\* lines from there on.  The last one is left when it is not complete, unless
\* the journal is shorter than it was when its size was taken.
Scanned(s, was) ==
  LET end == IF size % 2 = 1 /\ size >= was THEN size - 1 ELSE size IN
  IF was = s.pos THEN [s EXCEPT !.true = @ /\ s.gen = gen]
  ELSE [id |-> s.id, pos |-> IF end > s.pos THEN end ELSE s.pos,
        events |-> s.events \o Lines(gen, s.pos, size), gen |-> s.gen, true |-> s.true /\ s.gen = gen]

\* The events of scan s, and of every list that shares them, hold n of its lines.
Holds(s, n) ==
  objects' = [objects EXCEPT ![s.id] = [lines |-> SubSeq(s.events, 1, n), true |-> @.true /\ s.true]]

\* It is in the middle of its lines, which others see.
ReadOn(c) ==
  LET s == call[c].scan  t == Scanned(s, call[c].size) IN
  /\ At(c, "read") /\ call[c].size # s.pos
  /\ \E n \in Len(objects[s.id].lines) + 1 .. Len(t.events) : Holds(t, n)
  /\ UNCHANGED <<journal, cache, parsing, overview, viewing, faults, call, shown>>

Read(c) ==
  LET s == call[c].scan  t == Scanned(s, call[c].size) IN
  /\ At(c, "read") /\ Stores(c, t, t.true) /\ UNCHANGED faults
  /\ IF call[c].size = s.pos THEN UNCHANGED objects ELSE Holds(t, Len(t.events))

ReadError(c) ==
  /\ At(c, "read") /\ call[c].size # call[c].scan.pos
  /\ Stores(c, NoScan, FALSE) /\ objects' = Append(objects, NoObjects)
  /\ FaultLeft /\ faults' = faults + 1

\* Mutant: who has joined takes what the flight came to.
ResolveForAll(c) ==
  /\ At(c, "resolve")
  /\ parsing' = None
  /\ call' = [r \in Thread |->
                IF r = c THEN [call[c] EXCEPT !.pc = Parsed(c)]
                ELSE IF At(r, "wait") THEN [call[r] EXCEPT !.pc = Parsed(r), !.events = call[c].events,
                                                           !.true = call[c].true, !.from = call[c].from]
                ELSE call[r]]
  /\ UNCHANGED <<journal, objects, cache, overview, viewing, faults, shown>>

\* Mutant: the flight is over and still there.
ResolveKeeps(c) ==
  /\ At(c, "resolve") /\ Goto(c, Parsed(c))
  /\ UNCHANGED <<journal, objects, cache, parsing, overview, viewing, faults, shown>>

\* The flight ends; who has joined it looks again.
Resolve(c) ==
  /\ At(c, "resolve")
  /\ parsing' = None
  /\ call' = [r \in Thread |-> IF r = c THEN [call[c] EXCEPT !.pc = Parsed(c)]
                               ELSE IF At(r, "wait") THEN [call[r] EXCEPT !.pc = "stamp"]
                               ELSE call[r]]
  /\ UNCHANGED <<journal, objects, cache, overview, viewing, faults, shown>>

-----------------------------------------------------------------------------
(* The end of a build, and the answer.                                     *)

ViewStore(c) ==
  /\ At(c, "restamp")
  /\ overview' = [stamp |-> Stamp, events |-> call[c].events, true |-> call[c].true]
  /\ viewing' = None
  /\ call' = [r \in Thread |-> IF r = c THEN [call[c] EXCEPT !.pc = "answer"]
                               ELSE IF At(r, "viewwait") THEN [call[r] EXCEPT !.pc = "view"]
                               ELSE call[r]]
  /\ UNCHANGED <<journal, objects, cache, parsing, faults, shown>>

Answer(c) ==
  /\ At(c, "answer")
  /\ shown' = IF call[c].kind = "view" /\ call[c].true /\ gen = 0
              THEN [shown EXCEPT ![c] = Len(call[c].events)] ELSE shown
  /\ call' = [call EXCEPT ![c] = NoCall]
  /\ UNCHANGED <<journal, objects, cache, parsing, overview, viewing, faults>>

Parse(c) ==
  \/ ParseStamp(c) \/ Look(c) \/ Join(c) \/ Body(c) \/ ReadOn(c) \/ Read(c) \/ ReadError(c) \/ Resolve(c)

Build(c) == ViewStamp(c) \/ ViewLook(c) \/ ViewJoin(c) \/ ViewStore(c)

TimelineNext ==
  \/ AgentAppends \/ Rewritten \/ Evict
  \/ \E c \in Thread : (\E kind \in Kind : Ask(c, kind)) \/ Parse(c) \/ Build(c) \/ Answer(c)

TimelineSpec == TimelineInit /\ [][TimelineNext]_timeline

\* Threads run on.
FairTimeline == TimelineSpec /\ \A c \in Thread : WF_timeline(Parse(c) \/ Build(c) \/ Answer(c))

-----------------------------------------------------------------------------
\* _scan_updates_jsonl, "resuming when the file grows": the events of a scan are
\* the complete lines up to its offset, each of them once, in whatever pieces
\* the agent has written them.
ScanFaithful ==
  cache # None /\ cache.scan.true =>
    cache.scan.events = Lines(cache.scan.gen, 0, cache.scan.pos)

\* "Waiters re-check the stamp": session/timeline answers with the events of some
\* moment since it was asked, whoever parsed them; what they hold is of that moment,
\* or of a later one where another thread has read on meanwhile.
Reads == INSTANCE TimelineReads WITH
  Reader <- Thread,
  asked <- [c \in Thread |-> call[c].since],
  told <- [c \in Thread |->
             IF /\ At(c, "answer") /\ call[c].kind = "page" /\ call[c].true
                /\ objects[call[c].from].true
             THEN <<call[c].events, objects[call[c].from].lines>> ELSE << >>]

ReadsFresh == Reads!ReadsSpec

\* The overviews that a client gets one after the other never lose events, though
\* several build, join and cache them, as long as the journal only grows.
OverviewsGrow ==
  [][\A c \in Thread : shown'[c] >= shown[c]]_timeline

\* Whoever asks gets an answer.
RequestsEnd == \A c \in Thread : []<>At(c, "idle")

\* "Stamp after build so a growth mid-flight forces a recheck": the overview that
\* is kept for the stamp of now says what the journal holds now.
OverviewCurrent ==
  overview # None /\ overview.stamp = Stamp /\ overview.true => overview.events = past[Stamp]
=============================================================================
