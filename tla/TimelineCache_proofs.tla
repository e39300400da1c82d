------------------------ MODULE TimelineCache_proofs ------------------------
(***************************************************************************)
(* For any threads and any history of the journal: the incremental scan    *)
(* reads every complete line once, and what session/timeline answers is    *)
(* what the journal held at some moment since it was asked, or in what the *)
(* lists of others share with it, at a later one.                          *)
(***************************************************************************)
EXTENDS TimelineCache, Integers, TLAPS

\* Halves, which is what lines are counted by.
LEMMA Halves ==
  ASSUME NEW n \in Nat
  PROVE  /\ n \div 2 \in Nat
         /\ n % 2 = 0 => (n + 1) \div 2 = n \div 2
         /\ n % 2 = 1 => n - 1 \in Nat /\ (n - 1) % 2 = 0 /\ (n - 1) \div 2 = n \div 2
         /\ n % 2 # 1 => n % 2 = 0
         /\ \A m \in Nat : m <= n => m \div 2 <= n \div 2
         /\ \A m \in Nat : m <= n /\ m % 2 = 0 /\ n % 2 = 1 => m <= n - 1
OBVIOUS

LEMMA LinesShape ==
  ASSUME NEW g \in Nat, NEW a \in Nat, NEW b \in Nat
  PROVE  Lines(g, a, b) \in Held
<1> DEFINE first == (a + 1) \div 2
           k == IF b \div 2 > first THEN b \div 2 - first ELSE 0
<1>1. first \in Nat /\ k \in Nat
  BY Halves
<1>2. Lines(g, a, b) = [i \in 1 .. k |-> <<g, first + i>>]
  BY DEF Lines
<1> HIDE DEF first, k
<1>3. \A i \in 1 .. k : <<g, first + i>> \in Nat \X Nat
  BY <1>1
<1> QED
  BY <1>1, <1>2, <1>3 DEF Held

\* From the start of the journal: one line per two bytes.
LEMMA LinesFromStart ==
  ASSUME NEW g \in Nat, NEW n \in Nat
  PROVE  Lines(g, 0, n) = [i \in 1 .. n \div 2 |-> <<g, i>>]
<1>1. (0 + 1) \div 2 = 0 /\ n \div 2 \in Nat
  BY Halves
<1>2. (IF n \div 2 > 0 THEN n \div 2 - 0 ELSE 0) = n \div 2
  BY <1>1
<1>3. \A i \in 1 .. n \div 2 : 0 + i = i
  OBVIOUS
<1> QED
  BY <1>1, <1>2, <1>3 DEF Lines

\* Scanning on from the end of a line loses nothing and repeats nothing.
LEMMA LinesJoin ==
  ASSUME NEW g \in Nat, NEW a \in Nat, NEW b \in Nat, a <= b, a % 2 = 0
  PROVE  Lines(g, 0, a) \o Lines(g, a, b) = Lines(g, 0, b)
<1> DEFINE m == a \div 2
           n == b \div 2
<1>1. m \in Nat /\ n \in Nat /\ m <= n /\ (a + 1) \div 2 = m
  BY Halves
<1>2. Lines(g, 0, a) = [i \in 1 .. m |-> <<g, i>>] /\ Lines(g, 0, b) = [i \in 1 .. n |-> <<g, i>>]
  BY LinesFromStart
<1>3. Lines(g, a, b) = [i \in 1 .. n - m |-> <<g, m + i>>]
  <2>1. (IF n > m THEN n - m ELSE 0) = n - m
    BY <1>1
  <2> QED
    BY <1>1, <2>1 DEF Lines
<1> HIDE DEF m, n
<1>4. [i \in 1 .. m |-> <<g, i>>] \o [i \in 1 .. n - m |-> <<g, m + i>>] = [i \in 1 .. n |-> <<g, i>>]
  BY <1>1
<1> QED
  BY <1>2, <1>3, <1>4

\* The half of a line at the end does not count.
LEMMA LinesEnd ==
  ASSUME NEW g \in Nat, NEW n \in Nat, n % 2 = 1
  PROVE  Lines(g, 0, n - 1) = Lines(g, 0, n)
<1>1. n - 1 \in Nat /\ (n - 1) \div 2 = n \div 2
  BY Halves
<1>2. /\ Lines(g, 0, n - 1) = [i \in 1 .. (n - 1) \div 2 |-> <<g, i>>]
      /\ Lines(g, 0, n) = [i \in 1 .. n \div 2 |-> <<g, i>>]
  BY <1>1, LinesFromStart
<1> QED
  BY <1>1, <1>2

-----------------------------------------------------------------------------
\* The type invariant in two parts: shapes, and who holds the flights.
Shaped ==
  /\ size \in Nat /\ gen \in Nat /\ past \in Seq(Held) /\ faults \in Nat
  /\ objects \in Seq(Objects)
  /\ cache = None \/ cache \in [stamp : Nat, events : Held, true : BOOLEAN, scan : Scan]
  /\ overview = None \/ overview \in [stamp : Nat, events : Held, true : BOOLEAN]
  /\ parsing \in Thread \cup {None} /\ viewing \in Thread \cup {None}
  /\ call \in [Thread -> CallState] /\ shown \in [Thread -> Nat]

Flights ==
  /\ \A c \in Thread : call[c].pc \in ParsePC <=> parsing = c
  /\ \A c \in Thread : call[c].kind = "view" /\ call[c].pc \in BuildPC <=> viewing = c
  /\ \A c \in Thread :
       call[c].pc \in {"view", "viewlook", "viewjoin", "viewwait", "restamp"} => call[c].kind = "view"

LEMMA Parts == Shaped /\ Flights => TimelineTypeOK
BY DEF TimelineTypeOK, Shaped, Flights, PC, BuildPC, ParsePC

LEMMA Fields ==
  ASSUME NEW r \in CallState
  PROVE  /\ \A x \in PC : [r EXCEPT !.pc = x] \in CallState
         /\ \A x \in Kind : [r EXCEPT !.kind = x] \in CallState
         /\ \A x \in Nat : [r EXCEPT !.since = x] \in CallState /\ [r EXCEPT !.view = x] \in CallState
         /\ \A x \in Nat : [r EXCEPT !.stamp = x] \in CallState /\ [r EXCEPT !.size = x] \in CallState
         /\ \A x \in Nat : [r EXCEPT !.from = x] \in CallState
         /\ \A x \in Scan : [r EXCEPT !.scan = x] \in CallState
         /\ \A x \in Held : [r EXCEPT !.events = x] \in CallState
         /\ \A x \in BOOLEAN : [r EXCEPT !.true = x] \in CallState
         /\ r.pc \in PC /\ r.kind \in Kind /\ r.since \in Nat /\ r.view \in Nat /\ r.stamp \in Nat
         /\ r.size \in Nat /\ r.scan \in Scan /\ r.events \in Held /\ r.true \in BOOLEAN
         /\ r.from \in Nat
BY Zenon DEF CallState

LEMMA EmptyScan ==
  ASSUME gen \in Nat, objects \in Seq(Objects)
  PROVE  /\ << >> \in Held
         /\ NoScan \in Scan
         /\ NoScan.pos = 0 /\ NoScan.events = << >> /\ NoScan.gen = gen /\ NoScan.true
         /\ NoScan.id = Len(objects) + 1
<1>1. << >> \in Held
  BY DEF Held
<1>2. Len(objects) + 1 \in Nat
  OBVIOUS
<1>3. NoScan \in Scan
  BY <1>1, <1>2, Zenon DEF NoScan, Scan
<1>4. /\ NoScan.pos = 0 /\ NoScan.events = << >> /\ NoScan.gen = gen /\ NoScan.true
      /\ NoScan.id = Len(objects) + 1
  BY DEF NoScan
<1> QED
  BY <1>1, <1>3, <1>4

LEMMA NoCallShape ==
  /\ NoCall \in CallState
  /\ NoCall.pc = "idle" /\ NoCall.kind = "page" /\ NoCall.since = 0 /\ NoCall.stamp = 0
  /\ NoCall.scan \in Scan /\ NoCall.scan.pos = 0 /\ NoCall.scan.events = << >> /\ NoCall.scan.gen = 0
<1> DEFINE s == [id |-> 0, pos |-> 0, events |-> << >>, gen |-> 0, true |-> TRUE]
<1>1. s \in Scan /\ << >> \in Held /\ s.pos = 0 /\ s.events = << >> /\ s.gen = 0
  BY DEF Scan, Held
<1>2. "idle" \in PC /\ "page" \in Kind /\ 0 \in Nat /\ TRUE \in BOOLEAN
  BY DEF PC, Kind
<1>3. NoCall = [pc |-> "idle", kind |-> "page", since |-> 0, view |-> 0, stamp |-> 0, size |-> 0,
                scan |-> s, events |-> << >>, true |-> TRUE, from |-> 0]
  BY DEF NoCall
<1> HIDE DEF s
<1>4. NoCall \in CallState
  BY <1>1, <1>2, <1>3 DEF CallState
<1> QED
  BY <1>1, <1>3, <1>4

LEMMA ScanFields ==
  ASSUME NEW s \in Scan
  PROVE  /\ s.id \in Nat /\ s.pos \in Nat /\ s.events \in Held /\ s.gen \in Nat /\ s.true \in BOOLEAN
         /\ \A b \in BOOLEAN : [s EXCEPT !.true = b] \in Scan
BY Zenon DEF Scan

\* What a scan comes to, whatever happened to the journal meanwhile.
LEMMA ScannedShape ==
  ASSUME Shaped, NEW s \in Scan, NEW was \in Nat
  PROVE  Scanned(s, was) \in Scan
<1>1. s.pos \in Nat /\ s.events \in Held /\ s.gen \in Nat /\ s.true \in BOOLEAN /\ size \in Nat /\ gen \in Nat
  BY ScanFields DEF Shaped
<1>0. s.id \in Nat
  BY ScanFields
<1> DEFINE end == IF size % 2 = 1 /\ size >= was THEN size - 1 ELSE size
           b == s.true /\ s.gen = gen
           p == IF end > s.pos THEN end ELSE s.pos
           e == s.events \o Lines(gen, s.pos, size)
<1>2. b \in BOOLEAN
  OBVIOUS
<1>3. end \in Nat
  BY <1>1, Halves
<1>4. p \in Nat
  BY <1>1, <1>3
<1>5. e \in Held
  <2>1. Lines(gen, s.pos, size) \in Held
    BY <1>1, LinesShape
  <2>2. \A x, y \in Held : x \o y \in Held
    BY DEF Held
  <2> QED
    BY <1>1, <2>1, <2>2
<1>6. Scanned(s, was) = IF was = s.pos THEN [s EXCEPT !.true = b]
                        ELSE [id |-> s.id, pos |-> p, events |-> e, gen |-> s.gen, true |-> b]
  BY DEF Scanned
<1> HIDE DEF end, b, p, e
<1>7. [s EXCEPT !.true = b] \in Scan
  BY <1>2, ScanFields
<1>8. [id |-> s.id, pos |-> p, events |-> e, gen |-> s.gen, true |-> b] \in Scan
  BY <1>0, <1>1, <1>2, <1>4, <1>5 DEF Scan
<1> QED
  BY <1>6, <1>7, <1>8

-----------------------------------------------------------------------------
\* e is what the journal held at moment v or later.
FromPast(e, v, p) == \E w \in 1 .. Len(p) : w >= v /\ e = p[w]

\* A scan that was only appended under is complete up to its offset.
GoodScan(s, n, g) ==
  /\ s.gen <= g
  /\ s.true => s.pos % 2 = 0 /\ s.events = Lines(s.gen, 0, s.pos)
  /\ s.true /\ s.gen = g => s.pos <= n

\* What a request knows, when the journal is n bytes of generation g, after p.
GoodCall(k, n, g, p) ==
  /\ GoodScan(k.scan, n, g)
  /\ k.pc = "idle" \/ k.kind = "view" => k.since = 0
  /\ k.pc # "idle" /\ k.kind = "page" => k.since >= 1 /\ k.since <= Len(p)
  /\ k.stamp <= Len(p)
  /\ k.pc \in {"look", "join", "body", "read"} => k.since <= k.stamp
  /\ k.pc = "read" /\ k.scan.gen = g => k.size <= n /\ FromPast(Lines(g, 0, k.size), k.stamp, p)
  /\ k.pc \in {"resolve", "answer"} /\ k.kind = "page" /\ k.true => FromPast(k.events, k.since, p)

GoodCache ==
  cache # None =>
    /\ GoodScan(cache.scan, size, gen)
    /\ cache.true => FromPast(cache.events, cache.stamp, past)

History ==
  /\ Len(past) >= 1 /\ past[Len(past)] = Lines(gen, 0, size)
  /\ GoodCache
  /\ \A c \in Thread : GoodCall(call[c], size, gen, past)

Inv == Shaped /\ Flights /\ History

CacheShape == [stamp : Nat, events : Held, true : BOOLEAN, scan : Scan]
ViewShape == [stamp : Nat, events : Held, true : BOOLEAN]

\* A step of one request alone.
LEMMA OneMoves ==
  ASSUME Inv, NEW c \in Thread, NEW r \in CallState, call' = [call EXCEPT ![c] = r], UNCHANGED journal,
         cache' = None \/ cache' \in CacheShape, overview' = None \/ overview' \in ViewShape,
         parsing' \in Thread \cup {None}, viewing' \in Thread \cup {None},
         faults' \in Nat, shown' \in [Thread -> Nat], objects' \in Seq(Objects),
         GoodCache', GoodCall(r, size, gen, past),
         r.pc \in ParsePC <=> parsing' = c,
         \A d \in Thread \ {c} : parsing' = d <=> parsing = d,
         r.kind = "view" /\ r.pc \in BuildPC <=> viewing' = c,
         \A d \in Thread \ {c} : viewing' = d <=> viewing = d,
         r.pc \in {"view", "viewlook", "viewjoin", "viewwait", "restamp"} => r.kind = "view"
  PROVE  Inv'
<1>1. call \in [Thread -> CallState] /\ past \in Seq(Held)
  BY DEF Inv, Shaped
<1>2. call' \in [Thread -> CallState] /\ call'[c] = r /\ \A d \in Thread \ {c} : call'[d] = call[d]
  BY <1>1
<1>3. size' = size /\ gen' = gen /\ past' = past
  BY DEF journal
<1>4. Shaped'
  BY <1>2, <1>3 DEF Inv, Shaped, CacheShape, ViewShape
<1>5. Flights'
  <2> SUFFICES ASSUME NEW d \in Thread
               PROVE  /\ call'[d].pc \in ParsePC <=> parsing' = d
                      /\ call'[d].kind = "view" /\ call'[d].pc \in BuildPC <=> viewing' = d
                      /\ call'[d].pc \in {"view", "viewlook", "viewjoin", "viewwait", "restamp"} =>
                           call'[d].kind = "view"
    BY DEF Flights, ParsePC, BuildPC
  <2>1. CASE d = c
    BY <1>2, <2>1
  <2>2. CASE d # c
    BY <1>2, <2>2 DEF Inv, Flights
  <2> QED
    BY <2>1, <2>2
<1>6. History'
  <2>1. \A d \in Thread : GoodCall(call'[d], size, gen, past)
    BY <1>2 DEF Inv, History
  <2> QED
    BY <1>3, <2>1 DEF Inv, History
<1> QED
  BY <1>4, <1>5, <1>6 DEF Inv

\* As long as it neither takes nor leaves a flight, and leaves the caches alone.
LEMMA OneGoes ==
  ASSUME Inv, NEW c \in Thread, NEW r \in CallState, call' = [call EXCEPT ![c] = r],
         UNCHANGED <<journal, cache, parsing, overview, viewing, faults>>, shown' \in [Thread -> Nat],
         objects' \in Seq(Objects),
         GoodCall(r, size, gen, past),
         r.pc \in ParsePC <=> call[c].pc \in ParsePC,
         r.kind = "view" /\ r.pc \in BuildPC <=> call[c].kind = "view" /\ call[c].pc \in BuildPC,
         r.pc \in {"view", "viewlook", "viewjoin", "viewwait", "restamp"} => r.kind = "view"
  PROVE  Inv'
<1>1. /\ cache' = None \/ cache' \in CacheShape
      /\ overview' = None \/ overview' \in ViewShape
      /\ parsing' \in Thread \cup {None} /\ viewing' \in Thread \cup {None} /\ faults' \in Nat
  BY DEF Inv, Shaped, CacheShape, ViewShape
<1>2. GoodCache'
  BY DEF Inv, History, GoodCache, journal
<1>3. /\ r.pc \in ParsePC <=> parsing' = c
      /\ \A d \in Thread \ {c} : parsing' = d <=> parsing = d
      /\ r.kind = "view" /\ r.pc \in BuildPC <=> viewing' = c
      /\ \A d \in Thread \ {c} : viewing' = d <=> viewing = d
  BY DEF Inv, Flights
<1> QED
  BY <1>1, <1>2, <1>3, OneMoves

\* What the cache has under the stamp of a request answers that request.
LEMMA HitAnswers ==
  ASSUME Inv, NEW c \in Thread, Hit(c), call[c].pc \in {"look", "body"}
  PROVE  /\ cache.events \in Held /\ cache.true \in BOOLEAN /\ cache.scan.id \in Nat
         /\ call[c].kind = "page" /\ cache.true => FromPast(cache.events, call[c].since, past)
<1>1. cache \in CacheShape
  BY DEF Inv, Shaped, Hit, CacheShape
<1>2. cache.events \in Held /\ cache.true \in BOOLEAN /\ cache.stamp \in Nat /\ cache.scan.id \in Nat
  BY <1>1, ScanFields DEF CacheShape
<1>3. call[c].since \in Nat /\ call[c].since <= call[c].stamp /\ call[c].stamp = cache.stamp
  BY Fields DEF Inv, Shaped, History, GoodCall, Hit
<1>4. ASSUME cache.true PROVE FromPast(cache.events, call[c].since, past)
  <2>1. FromPast(cache.events, cache.stamp, past)
    BY <1>4 DEF Inv, History, GoodCache, Hit
  <2>2. PICK w \in 1 .. Len(past) : w >= cache.stamp /\ cache.events = past[w]
    BY <2>1 DEF FromPast
  <2> QED
    BY <1>2, <1>3, <2>2 DEF FromPast
<1> QED
  BY <1>2, <1>4

\* The stamp is that of the present, and a request that takes it is not ahead of it.
LEMMA StampNow == ASSUME Inv PROVE Stamp \in Nat /\ Stamp = Len(past) /\ Stamp >= 1
BY DEF Inv, Shaped, History, Stamp

LEMMA AskStep == ASSUME Inv, NEW c \in Thread, NEW kind \in Kind, Ask(c, kind) PROVE Inv'
<1> DEFINE page == [NoCall EXCEPT !.pc = "look", !.kind = kind, !.since = Stamp, !.stamp = Stamp]
           view == [NoCall EXCEPT !.pc = "viewlook", !.kind = kind, !.view = Stamp]
           r == IF kind = "page" THEN page ELSE view
<1>1. gen \in Nat /\ call \in [Thread -> CallState] /\ call[c].pc = "idle" /\ call[c].since = 0
      /\ shown' \in [Thread -> Nat]
      /\ objects' \in Seq(Objects)
  BY Zenon DEF Ask, At, Inv, Shaped, History, GoodCall
<1>2. NoCall \in CallState /\ NoCall.since = 0 /\ GoodScan(NoCall.scan, size, gen)
  <2>1. Lines(0, 0, 0) = << >>
    BY LinesFromStart, Halves
  <2>2. 0 % 2 = 0 /\ size \in Nat
    BY DEF Inv, Shaped
  <2> QED
    BY <1>1, <2>1, <2>2, NoCallShape DEF GoodScan
<1>3. call' = [call EXCEPT ![c] = r]
  BY DEF Ask
<1>4. CASE kind = "page"
  <2>1. page \in CallState
    <3>1. "look" \in PC /\ Stamp \in Nat
      BY StampNow DEF PC, BuildPC
    <3> QED
      BY <1>2, <3>1 DEF CallState
  <2>2. /\ page.pc = "look" /\ page.kind = "page" /\ page.since = Stamp /\ page.stamp = Stamp
        /\ page.scan = NoCall.scan
    BY <1>2, <1>4 DEF CallState
  <2>3. r = page
    BY <1>4
  <2> HIDE DEF page, view, r
  <2>4. GoodCall(page, size, gen, past)
    BY <1>2, <2>2, StampNow DEF GoodCall
  <2> QED
    BY <1>1, <1>3, <2>1, <2>2, <2>3, <2>4, StampNow, OneGoes DEF Ask, ParsePC, BuildPC
<1>5. CASE kind # "page"
  <2>0. kind = "view"
    BY <1>5 DEF Kind
  <2>1. view \in CallState
    BY <1>2, StampNow, Fields DEF PC, CallState
  <2>2. view.pc = "viewlook" /\ view.kind = "view" /\ view.since = 0 /\ view.scan = NoCall.scan
        /\ view.stamp = NoCall.stamp
    BY <1>2, <2>0 DEF CallState
  <2>3. r = view
    BY <1>5
  <2> HIDE DEF page, view, r
  <2>4. GoodCall(view, size, gen, past)
    BY <1>1, <1>2, <2>2, NoCallShape, StampNow DEF GoodCall
  <2> QED
    BY <1>1, <1>3, <2>1, <2>2, <2>3, <2>4, OneGoes DEF Ask, ParsePC, BuildPC
<1> QED
  BY <1>4, <1>5

LEMMA ViewStampStep == ASSUME Inv, NEW c \in Thread, ViewStamp(c) PROVE Inv'
<1> DEFINE k == call[c]
           r == [k EXCEPT !.pc = "viewlook", !.view = Stamp]
<1>1. k \in CallState /\ k.pc = "view" /\ shown' \in [Thread -> Nat]
      /\ objects' \in Seq(Objects)
  BY DEF ViewStamp, At, Inv, Shaped
<1>2. call' = [call EXCEPT ![c] = r]
  BY DEF ViewStamp
<1>3. k.kind = "view" /\ GoodCall(k, size, gen, past)
  BY <1>1, Zenon DEF Inv, Flights, History
<1> HIDE DEF k
<1>4. r \in CallState
  BY <1>1, StampNow, Fields DEF PC
<1>5. r.pc = "viewlook" /\ r.kind = k.kind /\ r.since = k.since /\ r.scan = k.scan /\ r.stamp = k.stamp
  BY <1>1 DEF CallState
<1> HIDE DEF r
<1>6. GoodCall(r, size, gen, past)
  BY <1>3, <1>5 DEF GoodCall
<1> QED
  BY <1>1, <1>2, <1>3, <1>4, <1>5, <1>6, OneGoes DEF ViewStamp, ParsePC, BuildPC, k

LEMMA ViewLookStep == ASSUME Inv, NEW c \in Thread, ViewLook(c) PROVE Inv'
<1> DEFINE k == call[c]
           hit == [k EXCEPT !.pc = "answer", !.view = 0, !.events = overview.events, !.true = overview.true]
           miss == [k EXCEPT !.pc = "viewjoin", !.view = 0]
<1>1. k \in CallState /\ k.pc = "viewlook" /\ shown' \in [Thread -> Nat]
      /\ objects' \in Seq(Objects)
  BY DEF ViewLook, At, Inv, Shaped
<1>2. \/ overview # None /\ call' = [call EXCEPT ![c] = hit]
      \/ call' = [call EXCEPT ![c] = miss]
  BY DEF ViewLook
<1>3. k.kind = "view" /\ GoodCall(k, size, gen, past)
  BY <1>1, Zenon DEF Inv, Flights, History
<1>4. overview # None => overview.events \in Held /\ overview.true \in BOOLEAN
  BY DEF Inv, Shaped
<1> HIDE DEF k
<1>5. CASE overview # None /\ call' = [call EXCEPT ![c] = hit]
  <2>1. hit \in CallState
    BY <1>1, <1>4, <1>5, Fields DEF PC
  <2>2. hit.pc = "answer" /\ hit.kind = k.kind /\ hit.since = k.since /\ hit.scan = k.scan
        /\ hit.stamp = k.stamp
    BY <1>1 DEF CallState
  <2> HIDE DEF hit
  <2>3. GoodCall(hit, size, gen, past)
    BY <1>3, <2>2 DEF GoodCall
  <2> QED
    BY <1>1, <1>3, <1>5, <2>1, <2>2, <2>3, OneGoes DEF ViewLook, ParsePC, BuildPC, k
<1>6. CASE call' = [call EXCEPT ![c] = miss]
  <2>1. miss \in CallState
    BY <1>1, Fields DEF PC
  <2>2. miss.pc = "viewjoin" /\ miss.kind = k.kind /\ miss.since = k.since /\ miss.scan = k.scan
        /\ miss.stamp = k.stamp
    BY <1>1 DEF CallState
  <2> HIDE DEF miss
  <2>3. GoodCall(miss, size, gen, past)
    BY <1>3, <2>2 DEF GoodCall
  <2> QED
    BY <1>1, <1>3, <1>6, <2>1, <2>2, <2>3, OneGoes DEF ViewLook, ParsePC, BuildPC, k
<1> QED
  BY <1>2, <1>5, <1>6

LEMMA ViewJoinStep == ASSUME Inv, NEW c \in Thread, ViewJoin(c) PROVE Inv'
<1> DEFINE k == call[c]
           builds == [k EXCEPT !.pc = "stamp"]
           waits == [k EXCEPT !.pc = "viewwait"]
<1>1. k \in CallState /\ k.pc = "viewjoin" /\ shown' \in [Thread -> Nat]
      /\ objects' \in Seq(Objects)
  BY DEF ViewJoin, At, Inv, Shaped
<1>2. \/ viewing = None /\ viewing' = c /\ call' = [call EXCEPT ![c] = builds]
      \/ viewing' = viewing /\ call' = [call EXCEPT ![c] = waits]
  BY DEF ViewJoin, Goto
<1>3. k.kind = "view" /\ GoodCall(k, size, gen, past)
  BY <1>1, Zenon DEF Inv, Flights, History
<1>4. builds \in CallState /\ waits \in CallState
  BY <1>1, Fields DEF PC, BuildPC
<1> HIDE DEF k
<1>5. /\ builds.pc = "stamp" /\ builds.kind = k.kind /\ builds.since = k.since /\ builds.scan = k.scan
      /\ builds.stamp = k.stamp /\ waits.stamp = k.stamp
      /\ waits.pc = "viewwait" /\ waits.kind = k.kind /\ waits.since = k.since /\ waits.scan = k.scan
  BY <1>1 DEF CallState
<1> HIDE DEF builds, waits
<1>6. GoodCall(builds, size, gen, past) /\ GoodCall(waits, size, gen, past)
  BY <1>3, <1>5 DEF GoodCall
<1>7. CASE viewing = None /\ viewing' = c /\ call' = [call EXCEPT ![c] = builds]
  <2>1. /\ cache' = None \/ cache' \in CacheShape
        /\ overview' = None \/ overview' \in ViewShape
        /\ parsing' \in Thread \cup {None} /\ viewing' \in Thread \cup {None} /\ faults' \in Nat
    BY <1>7 DEF ViewJoin, Inv, Shaped, CacheShape, ViewShape
  <2>2. GoodCache'
    BY DEF ViewJoin, Inv, History, GoodCache, journal
  <2>3. parsing # c /\ \A d \in Thread : viewing # d
    BY <1>1, <1>7, TimelineAssumption DEF Inv, Flights, ParsePC, k
  <2> QED
    BY <1>1, <1>3, <1>4, <1>5, <1>6, <1>7, <2>1, <2>2, <2>3, OneMoves
       DEF ViewJoin, ParsePC, BuildPC, k
<1>8. CASE viewing' = viewing /\ call' = [call EXCEPT ![c] = waits]
  BY <1>1, <1>3, <1>4, <1>5, <1>6, <1>8, OneGoes DEF ViewJoin, ParsePC, BuildPC, k
<1> QED
  BY <1>2, <1>7, <1>8

LEMMA ParseStampStep == ASSUME Inv, NEW c \in Thread, ParseStamp(c) PROVE Inv'
<1> DEFINE k == call[c]
           r == [k EXCEPT !.pc = "look", !.stamp = Stamp]
<1>1. k \in CallState /\ k.pc = "stamp" /\ shown' \in [Thread -> Nat]
      /\ objects' \in Seq(Objects)
  BY DEF ParseStamp, At, Inv, Shaped
<1>2. call' = [call EXCEPT ![c] = r]
  BY DEF ParseStamp
<1>3. GoodCall(k, size, gen, past) /\ k.since \in Nat /\ k.kind \in {"page", "view"}
  BY <1>1, Fields DEF Inv, History, Kind
<1> HIDE DEF k
<1>4. r \in CallState
  BY <1>1, StampNow, Fields DEF PC, BuildPC
<1>5. r.pc = "look" /\ r.kind = k.kind /\ r.since = k.since /\ r.scan = k.scan /\ r.stamp = Stamp
  BY <1>1 DEF CallState
<1> HIDE DEF r
<1>6. GoodCall(r, size, gen, past)
  BY <1>1, <1>3, <1>5, StampNow DEF GoodCall
<1> QED
  BY <1>1, <1>2, <1>4, <1>5, <1>6, OneGoes DEF ParseStamp, ParsePC, BuildPC, k

LEMMA LookStep == ASSUME Inv, NEW c \in Thread, Look(c) PROVE Inv'
<1> DEFINE k == call[c]
           place == Parsed(c)
           hit == [k EXCEPT !.pc = place, !.stamp = 0, !.events = cache.events, !.true = cache.true,
                          !.from = cache.scan.id]
           miss == [k EXCEPT !.pc = "join"]
<1>1. k \in CallState /\ k.pc = "look" /\ shown' \in [Thread -> Nat]
      /\ objects' \in Seq(Objects)
  BY DEF Look, At, Inv, Shaped
<1>2. (Hit(c) /\ call' = [call EXCEPT ![c] = hit]) \/ call' = [call EXCEPT ![c] = miss]
  BY DEF Look, Takes, Goto
<1>3. GoodCall(k, size, gen, past) /\ k.kind \in {"page", "view"}
      /\ place = IF k.kind = "view" THEN "restamp" ELSE "answer"
  BY <1>1, Fields DEF Inv, History, Kind, Parsed
<1>4. Hit(c) => /\ cache.events \in Held /\ cache.true \in BOOLEAN /\ cache.scan.id \in Nat
                /\ k.kind = "page" /\ cache.true => FromPast(cache.events, k.since, past)
  BY <1>1, HitAnswers
<1> HIDE DEF k, place
<1>5. CASE Hit(c) /\ call' = [call EXCEPT ![c] = hit]
  <2>0. place \in PC /\ 0 \in Nat
    BY <1>3 DEF PC, BuildPC
  <2>1. hit \in CallState
    BY <1>1, <1>4, <1>5, <2>0 DEF CallState
  <2>2. /\ hit.pc = place /\ hit.kind = k.kind /\ hit.since = k.since /\ hit.scan = k.scan
        /\ hit.events = cache.events /\ hit.true = cache.true /\ hit.stamp = 0
    BY <1>1 DEF CallState
  <2> HIDE DEF hit
  <2>3. GoodCall(hit, size, gen, past)
    BY <1>1, <1>3, <1>4, <1>5, <2>2, StampNow DEF GoodCall
  <2> QED
    BY <1>1, <1>3, <1>5, <2>1, <2>2, <2>3, OneGoes DEF Look, ParsePC, BuildPC, k
<1>6. CASE call' = [call EXCEPT ![c] = miss]
  <2>1. miss \in CallState
    BY <1>1, Fields DEF PC, BuildPC
  <2>2. /\ miss.pc = "join" /\ miss.kind = k.kind /\ miss.since = k.since /\ miss.scan = k.scan
        /\ miss.stamp = k.stamp
    BY <1>1 DEF CallState
  <2> HIDE DEF miss
  <2>3. GoodCall(miss, size, gen, past)
    BY <1>1, <1>3, <2>2 DEF GoodCall
  <2> QED
    BY <1>1, <1>6, <2>1, <2>2, <2>3, OneGoes DEF Look, ParsePC, BuildPC, k
<1> QED
  BY <1>2, <1>5, <1>6

LEMMA JoinStep == ASSUME Inv, NEW c \in Thread, Join(c) PROVE Inv'
<1> DEFINE k == call[c]
           parses == [k EXCEPT !.pc = "body"]
           waits == [k EXCEPT !.pc = "wait", !.stamp = 0]
<1>1. k \in CallState /\ k.pc = "join" /\ shown' \in [Thread -> Nat]
      /\ objects' \in Seq(Objects)
  BY DEF Join, At, Inv, Shaped
<1>2. \/ parsing = None /\ parsing' = c /\ call' = [call EXCEPT ![c] = parses]
      \/ parsing' = parsing /\ call' = [call EXCEPT ![c] = waits]
  BY DEF Join, Goto
<1>3. GoodCall(k, size, gen, past)
  BY <1>1 DEF Inv, History
<1>4. parses \in CallState /\ waits \in CallState
  BY <1>1, Fields DEF PC, BuildPC, ParsePC
<1> HIDE DEF k
<1>5. /\ parses.pc = "body" /\ parses.kind = k.kind /\ parses.since = k.since /\ parses.scan = k.scan
      /\ parses.stamp = k.stamp
      /\ waits.pc = "wait" /\ waits.kind = k.kind /\ waits.since = k.since /\ waits.scan = k.scan
      /\ waits.stamp = 0
  BY <1>1 DEF CallState
<1> HIDE DEF parses, waits
<1>6. GoodCall(parses, size, gen, past) /\ GoodCall(waits, size, gen, past)
  BY <1>1, <1>3, <1>5, StampNow DEF GoodCall
<1>7. CASE parsing = None /\ parsing' = c /\ call' = [call EXCEPT ![c] = parses]
  <2>1. /\ cache' = None \/ cache' \in CacheShape
        /\ overview' = None \/ overview' \in ViewShape
        /\ parsing' \in Thread \cup {None} /\ viewing' \in Thread \cup {None} /\ faults' \in Nat
    BY <1>7 DEF Join, Inv, Shaped, CacheShape, ViewShape
  <2>2. GoodCache'
    BY DEF Join, Inv, History, GoodCache, journal
  <2>3. \A d \in Thread : parsing # d
    BY <1>7, TimelineAssumption
  <2>4. k.kind = "view" <=> viewing = c
    BY <1>1 DEF Inv, Flights, BuildPC, k
  <2> QED
    BY <1>1, <1>4, <1>5, <1>6, <1>7, <2>1, <2>2, <2>3, <2>4, OneMoves
       DEF Join, ParsePC, BuildPC, k
<1>8. CASE parsing' = parsing /\ call' = [call EXCEPT ![c] = waits]
  BY <1>1, <1>4, <1>5, <1>6, <1>8, OneGoes DEF Join, ParsePC, BuildPC, k
<1> QED
  BY <1>2, <1>7, <1>8

LEMMA BodyStep == ASSUME Inv, NEW c \in Thread, Body(c) PROVE Inv'
<1> DEFINE k == call[c]
           from == IF cache = None \/ size < cache.scan.pos THEN NoScan ELSE cache.scan
           hit == [k EXCEPT !.pc = "resolve", !.stamp = 0, !.events = cache.events, !.true = cache.true,
                          !.from = cache.scan.id]
           miss == [k EXCEPT !.pc = "read", !.size = size, !.scan = from]
<1>1. k \in CallState /\ k.pc = "body" /\ shown' \in [Thread -> Nat]
      /\ objects' \in Seq(Objects)
  <2>1. k \in CallState /\ k.pc = "body" /\ shown' \in [Thread -> Nat]
    BY DEF Body, At, Inv, Shaped
  <2>2. objects \in Seq(Objects) /\ NoObjects \in Objects
    BY DEF Inv, Shaped, Objects, NoObjects, Held
  <2>3. objects' = objects \/ objects' = Append(objects, NoObjects)
    BY DEF Body
  <2> QED
    BY <2>1, <2>2, <2>3
<1>2. (Hit(c) /\ call' = [call EXCEPT ![c] = hit]) \/ call' = [call EXCEPT ![c] = miss]
  BY DEF Body, Takes, Begins
<1>3. GoodCall(k, size, gen, past)
  BY <1>1 DEF Inv, History
<1>4. Hit(c) => /\ cache.events \in Held /\ cache.true \in BOOLEAN /\ cache.scan.id \in Nat
                /\ k.kind = "page" /\ cache.true => FromPast(cache.events, k.since, past)
  BY <1>1, HitAnswers
<1>5. size \in Nat /\ gen \in Nat /\ past \in Seq(Held) /\ Len(past) \in Nat /\ objects \in Seq(Objects)
  BY DEF Inv, Shaped
<1>6. from \in Scan /\ GoodScan(from, size, gen)
  <2>1. CASE cache = None \/ size < cache.scan.pos
    <3>1. NoScan \in Scan /\ NoScan.pos = 0 /\ NoScan.events = << >> /\ NoScan.gen = gen
      BY <1>5, EmptyScan
    <3>2. Lines(gen, 0, 0) = << >> /\ 0 % 2 = 0
      BY <1>5, LinesFromStart, Halves
    <3>3. GoodScan(NoScan, size, gen)
      BY <1>5, <3>1, <3>2 DEF GoodScan
    <3> QED
      BY <2>1, <3>1, <3>3
  <2>2. CASE ~(cache = None \/ size < cache.scan.pos)
    BY <2>2 DEF Inv, Shaped, History, GoodCache
  <2> QED
    BY <2>1, <2>2
<1> HIDE DEF k, from
<1>7. CASE Hit(c) /\ call' = [call EXCEPT ![c] = hit]
  <2>1. hit \in CallState
    BY <1>1, <1>4, <1>7, Fields DEF PC, BuildPC, ParsePC
  <2>2. /\ hit.pc = "resolve" /\ hit.kind = k.kind /\ hit.since = k.since /\ hit.scan = k.scan
        /\ hit.events = cache.events /\ hit.true = cache.true /\ hit.stamp = 0
    BY <1>1 DEF CallState
  <2> HIDE DEF hit
  <2>3. GoodCall(hit, size, gen, past)
    BY <1>1, <1>3, <1>4, <1>7, <2>2, StampNow DEF GoodCall
  <2> QED
    BY <1>1, <1>7, <2>1, <2>2, <2>3, OneGoes DEF Body, ParsePC, BuildPC, k
<1>8. CASE call' = [call EXCEPT ![c] = miss]
  <2>1. miss \in CallState
    BY <1>1, <1>5, <1>6, Fields DEF PC, BuildPC, ParsePC
  <2>2. /\ miss.pc = "read" /\ miss.kind = k.kind /\ miss.since = k.since /\ miss.scan = from
        /\ miss.stamp = k.stamp /\ miss.size = size
    BY <1>1 DEF CallState
  <2>3. FromPast(Lines(gen, 0, size), k.stamp, past)
    <3>1. Len(past) \in 1 .. Len(past) /\ Lines(gen, 0, size) = past[Len(past)]
      BY <1>5 DEF Inv, History
    <3>2. k.stamp <= Len(past)
      BY <1>3 DEF GoodCall
    <3> QED
      BY <3>1, <3>2 DEF FromPast
  <2> HIDE DEF miss
  <2>4. GoodCall(miss, size, gen, past)
    BY <1>1, <1>3, <1>5, <1>6, <2>2, <2>3 DEF GoodCall
  <2> QED
    BY <1>1, <1>8, <2>1, <2>2, <2>4, OneGoes DEF Body, ParsePC, BuildPC, k
<1> QED
  BY <1>2, <1>7, <1>8

\* A scan that goes on: complete lines, each once, as of the moment of the read or,
\* when the size had not moved, of the moment when it was taken.
LEMMA ScannedGood ==
  ASSUME Inv, NEW c \in Thread, call[c].pc = "read"
  PROVE  LET s == Scanned(call[c].scan, call[c].size) IN
         /\ s \in Scan /\ GoodScan(s, size, gen)
         /\ s.true => FromPast(s.events, call[c].stamp, past)
<1> DEFINE k == call[c]
           o == k.scan
           was == k.size
           s == Scanned(o, was)
<1>1. k \in CallState /\ size \in Nat /\ gen \in Nat /\ past \in Seq(Held) /\ Len(past) \in Nat
  BY DEF Inv, Shaped
<1>2. o \in Scan /\ was \in Nat /\ k.stamp \in Nat
  BY <1>1, Fields
<1>3. o.pos \in Nat /\ o.events \in Held /\ o.gen \in Nat /\ o.true \in BOOLEAN
  BY <1>2, ScanFields
<1>4. /\ GoodScan(o, size, gen) /\ k.stamp <= Len(past)
      /\ o.gen = gen => was <= size /\ FromPast(Lines(gen, 0, was), k.stamp, past)
  BY DEF Inv, History, GoodCall
<1>5. s \in Scan
  BY <1>1, <1>2, ScannedShape DEF Inv
<1> HIDE DEF k, o, was
<1>6. CASE was = o.pos
  <2>1. s = [o EXCEPT !.true = @ /\ o.gen = gen]
    BY <1>6 DEF Scanned
  <2>2. s.pos = o.pos /\ s.events = o.events /\ s.gen = o.gen /\ (s.true => o.true /\ o.gen = gen)
    BY <1>2, <2>1 DEF Scan
  <2> HIDE DEF s
  <2>3. GoodScan(s, size, gen)
    BY <1>4, <2>2 DEF GoodScan
  <2>4. s.true => FromPast(s.events, k.stamp, past)
    BY <1>4, <1>6, <2>2 DEF GoodScan
  <2> QED
    BY <1>5, <2>3, <2>4 DEF s, k, o, was
<1>7. CASE was # o.pos
  <2> DEFINE end == IF size % 2 = 1 /\ size >= was THEN size - 1 ELSE size
             b == o.true /\ o.gen = gen
             p == IF end > o.pos THEN end ELSE o.pos
             e == o.events \o Lines(gen, o.pos, size)
  <2>1. s = [id |-> o.id, pos |-> p, events |-> e, gen |-> o.gen, true |-> b]
    BY <1>7 DEF Scanned
  <2>2. s.pos = p /\ s.events = e /\ s.gen = o.gen /\ s.true = b
    <3> HIDE DEF p, e, b, s
    <3> QED
      BY <2>1
  <2> HIDE DEF s
  <2>3. ASSUME b
        PROVE  /\ p = end /\ end % 2 = 0 /\ end <= size
               /\ e = Lines(gen, 0, end) /\ e = past[Len(past)]
    <3>1. o.gen = gen /\ o.pos % 2 = 0 /\ o.events = Lines(gen, 0, o.pos) /\ o.pos <= size /\ was <= size
      BY <1>4, <2>3 DEF GoodScan
    <3>2. e = Lines(gen, 0, size)
      <4>1. Lines(gen, 0, o.pos) \o Lines(gen, o.pos, size) = Lines(gen, 0, size)
        BY <1>1, <1>3, <3>1, LinesJoin
      <4> QED
        BY <3>1, <4>1
    <3>3. past[Len(past)] = Lines(gen, 0, size)
      BY DEF Inv, History
    <3>4. CASE size % 2 = 1
      <4>1. end = size - 1
        BY <1>1, <1>2, <3>1, <3>4
      <4>2. end \in Nat /\ end % 2 = 0 /\ o.pos <= end
        BY <1>1, <1>3, <3>1, <3>4, <4>1, Halves
      <4>3. Lines(gen, 0, end) = Lines(gen, 0, size)
        BY <1>1, <3>4, <4>1, LinesEnd
      <4> HIDE DEF end, e
      <4>4. p = end
        BY <1>3, <4>2
      <4> QED
        BY <1>1, <3>2, <3>3, <4>1, <4>2, <4>3, <4>4
    <3>5. CASE size % 2 # 1
      <4>1. end = size
        BY <3>5
      <4>2. end % 2 = 0
        BY <1>1, <3>5, <4>1, Halves
      <4> HIDE DEF end, e
      <4>3. p = end
        BY <1>1, <1>3, <3>1, <4>1
      <4> QED
        BY <1>1, <3>2, <3>3, <4>1, <4>2, <4>3
    <3> QED
      BY <3>4, <3>5
  <2> HIDE DEF end, b, p, e
  <2>4. o.true /\ o.gen = gen <=> b
    BY DEF b
  <2>5. GoodScan(s, size, gen)
    BY <1>4, <2>2, <2>3, <2>4 DEF GoodScan
  <2>6. s.true => FromPast(s.events, k.stamp, past)
    <3>1. Len(past) \in 1 .. Len(past) /\ Len(past) >= k.stamp
      BY <1>1, <1>4 DEF Inv, History
    <3> QED
      BY <2>2, <2>3, <3>1 DEF FromPast
  <2> QED
    BY <1>5, <2>5, <2>6 DEF s, k, o, was
<1> QED
  BY <1>6, <1>7

LEMMA StoresStep ==
  ASSUME Inv, NEW c \in Thread, call[c].pc = "read", NEW s \in Scan, NEW true \in BOOLEAN,
         Stores(c, s, true), faults' \in Nat, objects' \in Seq(Objects), GoodScan(s, size, gen),
         true => FromPast(s.events, call[c].stamp, past)
  PROVE  Inv'
<1> DEFINE k == call[c]
           none == NoCall.scan
           r == [k EXCEPT !.pc = "resolve", !.stamp = 0, !.size = 0, !.scan = none,
                          !.events = s.events, !.true = true, !.from = s.id]
           new == [stamp |-> k.stamp, events |-> s.events, true |-> true, scan |-> s]
<1>1. k \in CallState /\ shown' \in [Thread -> Nat] /\ gen \in Nat /\ size \in Nat /\ objects \in Seq(Objects)
  BY DEF Stores, Inv, Shaped
<1>2. call' = [call EXCEPT ![c] = r] /\ cache' = new
  BY DEF Stores
<1>3. s.events \in Held /\ s.id \in Nat /\ none \in Scan /\ none.pos = 0 /\ none.events = << >> /\ none.gen = 0
  BY <1>1, ScanFields, NoCallShape
<1>4. k.since \in Nat /\ k.stamp \in Nat /\ GoodCall(k, size, gen, past)
  BY <1>1, Fields DEF Inv, History
<1>5. GoodScan(none, size, gen)
  <2>1. Lines(0, 0, 0) = << >> /\ 0 % 2 = 0
    BY LinesFromStart, Halves
  <2> QED
    BY <1>1, <1>3, <2>1 DEF GoodScan
<1>6. k.pc = "read"
  OBVIOUS
<1> HIDE DEF k, none
<1>7. r \in CallState
  <2>1. "resolve" \in PC /\ 0 \in Nat
    BY DEF PC, BuildPC, ParsePC
  <2> QED
    BY <1>1, <1>3, <2>1 DEF CallState
<1>8. /\ r.pc = "resolve" /\ r.kind = k.kind /\ r.since = k.since /\ r.scan = none /\ r.stamp = 0
      /\ r.events = s.events /\ r.true = true
  BY <1>1 DEF CallState
<1>9. cache' \in CacheShape /\ cache'.scan = s /\ cache'.true = true /\ cache'.events = s.events
      /\ cache'.stamp = k.stamp
  BY <1>2, <1>3, <1>4 DEF CacheShape
<1> HIDE DEF r, new
<1>10. true => FromPast(s.events, k.since, past)
  <2>1. k.since <= k.stamp
    BY <1>4, <1>6 DEF GoodCall
  <2>2. ASSUME true PROVE FromPast(s.events, k.since, past)
    <3>1. PICK w \in 1 .. Len(past) : w >= k.stamp /\ s.events = past[w]
      BY <2>2 DEF FromPast, k
    <3>2. w >= k.since
      BY <1>4, <2>1, <3>1 DEF Inv, Shaped
    <3> QED
      BY <3>1, <3>2 DEF FromPast
  <2> QED
    BY <2>2
<1>11. GoodCall(r, size, gen, past)
  BY <1>4, <1>5, <1>6, <1>8, <1>10, StampNow DEF GoodCall
<1>12. GoodCache'
  BY <1>9 DEF GoodCache, Stores, journal, k
<1>13. /\ overview' = None \/ overview' \in ViewShape
       /\ parsing' \in Thread \cup {None} /\ viewing' \in Thread \cup {None}
  BY DEF Stores, Inv, Shaped, ViewShape
<1>14. /\ parsing' = c /\ \A d \in Thread \ {c} : parsing' = d <=> parsing = d
       /\ r.kind = "view" <=> viewing' = c
       /\ \A d \in Thread \ {c} : viewing' = d <=> viewing = d
  BY <1>6, <1>8 DEF Stores, Inv, Flights, ParsePC, BuildPC, k
<1> QED
  BY <1>1, <1>2, <1>6, <1>7, <1>8, <1>9, <1>11, <1>12, <1>13, <1>14, OneMoves
     DEF Stores, ParsePC, BuildPC, k

\* What the events of a scan hold stays a sequence of lines.
LEMMA HoldsShape ==
  ASSUME Inv, NEW s \in Scan, NEW n \in Int, n <= Len(s.events), Holds(s, n)
  PROVE  objects' \in Seq(Objects)
<1> DEFINE e == SubSeq(s.events, 1, n)
           b == objects[s.id].true /\ s.true
           o == [lines |-> e, true |-> b]
<1>1. s.events \in Held /\ s.true \in BOOLEAN /\ objects \in Seq(Objects)
  BY ScanFields DEF Inv, Shaped
<1>2. e \in Held
  <2>1. CASE n >= 1
    BY <1>1, <2>1 DEF Held
  <2>2. CASE n < 1
    <3>1. e = << >>
      BY <1>1, <2>2 DEF Held
    <3> QED
      BY <3>1 DEF Held
  <2> QED
    BY <2>1, <2>2
<1>3. objects' = [objects EXCEPT ![s.id] = o] /\ b \in BOOLEAN
  BY DEF Holds
<1> HIDE DEF e, b
<1>4. o \in Objects
  BY <1>2, <1>3 DEF Objects
<1> HIDE DEF o
<1>5. Len(objects) \in Nat /\ objects \in [1 .. Len(objects) -> Objects]
  BY <1>1
<1>6. objects' \in [1 .. Len(objects) -> Objects]
  BY <1>3, <1>4, <1>5
<1> QED
  BY <1>5, <1>6

LEMMA ReadOnStep == ASSUME Inv, NEW c \in Thread, ReadOn(c) PROVE Inv'
<1> DEFINE t == Scanned(call[c].scan, call[c].size)
<1>1. UNCHANGED <<size, gen, past, cache, parsing, overview, viewing, faults, call, shown>> /\ call[c].pc = "read"
  BY DEF ReadOn, journal, At
<1>2. t \in Scan
  BY <1>1, ScannedGood
<1>3. PICK n \in Len(objects[call[c].scan.id].lines) + 1 .. Len(t.events) : Holds(t, n)
  BY DEF ReadOn
<1>4. n \in Int /\ n <= Len(t.events)
  <2>1. Len(t.events) \in Nat
    BY <1>2, ScanFields DEF Held
  <2> QED
    BY <1>3, <2>1
<1> HIDE DEF t
<1>5. objects' \in Seq(Objects)
  BY <1>2, <1>3, <1>4, HoldsShape
<1> QED
  BY <1>1, <1>5 DEF Inv, Shaped, Flights, History, GoodCache

LEMMA ReadStep == ASSUME Inv, NEW c \in Thread, Read(c) \/ ReadError(c) PROVE Inv'
<1>1. call[c].pc = "read" /\ gen \in Nat /\ size \in Nat /\ faults \in Nat /\ objects \in Seq(Objects)
  BY DEF Read, ReadError, At, Inv, Shaped
<1>2. CASE Read(c)
  <2> DEFINE s == Scanned(call[c].scan, call[c].size)
  <2>1. s \in Scan /\ GoodScan(s, size, gen) /\ (s.true => FromPast(s.events, call[c].stamp, past))
    BY <1>1, ScannedGood
  <2>2. Stores(c, s, s.true) /\ faults' = faults /\ (objects' = objects \/ Holds(s, Len(s.events)))
    BY <1>2 DEF Read
  <2> HIDE DEF s
  <2>3. s.true \in BOOLEAN /\ Len(s.events) \in Nat
    BY <2>1, ScanFields DEF Held
  <2>4. objects' \in Seq(Objects)
    BY <1>1, <2>1, <2>2, <2>3, HoldsShape
  <2> QED
    BY <1>1, <2>1, <2>2, <2>3, <2>4, StoresStep
<1>3. CASE ReadError(c)
  <2>1. NoScan \in Scan /\ NoScan.pos = 0 /\ NoScan.events = << >> /\ NoScan.gen = gen
    BY <1>1, EmptyScan
  <2>2. Lines(gen, 0, 0) = << >> /\ 0 % 2 = 0
    BY <1>1, LinesFromStart, Halves
  <2>3. GoodScan(NoScan, size, gen)
    BY <1>1, <2>1, <2>2 DEF GoodScan
  <2>4. Stores(c, NoScan, FALSE) /\ faults' = faults + 1 /\ objects' = Append(objects, NoObjects)
    BY <1>3, Zenon DEF ReadError
  <2>5. NoObjects \in Objects
    BY DEF Objects, NoObjects, Held
  <2>6. faults' \in Nat /\ FALSE \in BOOLEAN /\ objects' \in Seq(Objects)
    BY <1>1, <2>4, <2>5
  <2> QED
    BY <1>1, <2>1, <2>3, <2>4, <2>6, StoresStep, Zenon
<1> QED
  BY <1>2, <1>3

\* The flight ends.  Who has waited looks again, with a new stamp.
LEMMA ResolveStep == ASSUME Inv, NEW c \in Thread, Resolve(c) PROVE Inv'
<1> DEFINE k == call[c]
           place == Parsed(c)
           r == [k EXCEPT !.pc = place]
<1>1. /\ call \in [Thread -> CallState] /\ k \in CallState /\ k.pc = "resolve" /\ past \in Seq(Held)
      /\ UNCHANGED <<size, gen, past, objects, cache, overview, viewing, faults, shown>> /\ parsing' = None
  BY DEF Resolve, At, Inv, Shaped, journal
<1>2. call' = [d \in Thread |-> IF d = c THEN r
                               ELSE IF At(d, "wait") THEN [call[d] EXCEPT !.pc = "stamp"] ELSE call[d]]
  BY DEF Resolve
<1>3. GoodCall(k, size, gen, past) /\ k.kind \in {"page", "view"} /\ parsing = c
      /\ place = IF k.kind = "view" THEN "restamp" ELSE "answer"
  BY <1>1, Fields DEF Inv, History, Kind, Parsed, Flights, ParsePC
<1> HIDE DEF k, place
<1>4. r \in CallState
  BY <1>1, <1>3, Fields DEF PC, BuildPC
<1>5. /\ r.pc = place /\ r.kind = k.kind /\ r.since = k.since /\ r.scan = k.scan /\ r.stamp = k.stamp
      /\ r.events = k.events /\ r.true = k.true
  BY <1>1 DEF CallState
<1> HIDE DEF r
<1>6. GoodCall(r, size, gen, past)
  BY <1>1, <1>3, <1>5 DEF GoodCall
<1>7. ASSUME NEW d \in Thread \ {c}
      PROVE  /\ call'[d] \in CallState /\ GoodCall(call'[d], size, gen, past)
             /\ call'[d].pc \notin ParsePC
             /\ call'[d].kind = "view" /\ call'[d].pc \in BuildPC <=> viewing = d
             /\ call'[d].pc \in {"view", "viewlook", "viewjoin", "viewwait", "restamp"} =>
                  call'[d].kind = "view"
             /\ call'[d].since = call[d].since
  <2> DEFINE m == call[d]
             n == [m EXCEPT !.pc = "stamp"]
  <2>1. m \in CallState /\ GoodCall(m, size, gen, past) /\ m.pc \notin ParsePC
        /\ (m.kind = "view" /\ m.pc \in BuildPC <=> viewing = d)
        /\ (m.pc \in {"view", "viewlook", "viewjoin", "viewwait", "restamp"} => m.kind = "view")
    BY <1>1, <1>3 DEF Inv, History, Flights
  <2>2. call'[d] = IF m.pc = "wait" THEN n ELSE m
    BY <1>2 DEF At
  <2> HIDE DEF m
  <2>3. n \in CallState /\ n.pc = "stamp" /\ n.kind = m.kind /\ n.since = m.since /\ n.scan = m.scan
        /\ n.stamp = m.stamp
    <3>1. "stamp" \in PC
      BY DEF PC, BuildPC
    <3> QED
      BY <2>1, <3>1 DEF CallState
  <2> HIDE DEF n
  <2>4. CASE m.pc = "wait"
    <3>1. GoodCall(n, size, gen, past)
      BY <2>1, <2>3, <2>4 DEF GoodCall
    <3> QED
      BY <2>1, <2>2, <2>3, <2>4, <3>1 DEF ParsePC, BuildPC, m
  <2>5. CASE m.pc # "wait"
    BY <2>1, <2>2, <2>5 DEF m
  <2> QED
    BY <2>4, <2>5
<1>8. call'[c] = r
  BY <1>2
<1>9. call' \in [Thread -> CallState]
  BY <1>2, <1>4, <1>7, <1>8
<1>10. Shaped'
  BY <1>1, <1>9 DEF Inv, Shaped
<1>11. Flights'
  <2>1. None \notin Thread
    BY TimelineAssumption
  <2>2. r.pc \notin ParsePC /\ (r.kind = "view" /\ r.pc \in BuildPC <=> viewing = c)
        /\ (r.pc \in {"view", "viewlook", "viewjoin", "viewwait", "restamp"} => r.kind = "view")
    BY <1>1, <1>3, <1>5 DEF Inv, Flights, ParsePC, BuildPC, k
  <2> SUFFICES ASSUME NEW d \in Thread
               PROVE  /\ call'[d].pc \notin ParsePC
                      /\ call'[d].kind = "view" /\ call'[d].pc \in BuildPC <=> viewing = d
                      /\ call'[d].pc \in {"view", "viewlook", "viewjoin", "viewwait", "restamp"} =>
                           call'[d].kind = "view"
    BY <1>1, <2>1 DEF Flights, ParsePC, BuildPC
  <2> QED
    BY <1>7, <1>8, <2>2
<1>12. History'
  <2>1. \A d \in Thread : GoodCall(call'[d], size, gen, past)
    BY <1>6, <1>7, <1>8
  <2>2. GoodCache'
    BY <1>1 DEF Inv, History, GoodCache
  <2> QED
    BY <1>1, <2>1, <2>2 DEF Inv, History
<1> QED
  BY <1>10, <1>11, <1>12 DEF Inv

LEMMA ViewStoreStep == ASSUME Inv, NEW c \in Thread, ViewStore(c) PROVE Inv'
<1> DEFINE k == call[c]
           r == [k EXCEPT !.pc = "answer"]
           new == [stamp |-> Stamp, events |-> k.events, true |-> k.true]
<1>1. /\ call \in [Thread -> CallState] /\ k \in CallState /\ k.pc = "restamp" /\ past \in Seq(Held)
      /\ UNCHANGED <<size, gen, past, objects, cache, parsing, faults, shown>> /\ viewing' = None /\ overview' = new
  BY DEF ViewStore, At, Inv, Shaped, journal
<1>2. call' = [d \in Thread |-> IF d = c THEN r
                               ELSE IF At(d, "viewwait") THEN [call[d] EXCEPT !.pc = "view"] ELSE call[d]]
  BY DEF ViewStore
<1>3. GoodCall(k, size, gen, past) /\ k.kind = "view" /\ viewing = c /\ k.events \in Held /\ k.true \in BOOLEAN
  BY <1>1, Fields DEF Inv, History, Flights, BuildPC
<1>4. new \in ViewShape
  BY <1>3, StampNow DEF ViewShape
<1> HIDE DEF k, new
<1>5. r \in CallState
  BY <1>1, Fields DEF PC
<1>6. /\ r.pc = "answer" /\ r.kind = k.kind /\ r.since = k.since /\ r.scan = k.scan /\ r.stamp = k.stamp
  BY <1>1 DEF CallState
<1> HIDE DEF r
<1>7. GoodCall(r, size, gen, past)
  BY <1>3, <1>6 DEF GoodCall
<1>8. ASSUME NEW d \in Thread \ {c}
      PROVE  /\ call'[d] \in CallState /\ GoodCall(call'[d], size, gen, past)
             /\ call'[d].pc \in ParsePC <=> parsing = d
             /\ ~(call'[d].kind = "view" /\ call'[d].pc \in BuildPC)
             /\ call'[d].pc \in {"view", "viewlook", "viewjoin", "viewwait", "restamp"} =>
                  call'[d].kind = "view"
             /\ call'[d].since = call[d].since
  <2> DEFINE m == call[d]
             n == [m EXCEPT !.pc = "view"]
  <2>1. m \in CallState /\ GoodCall(m, size, gen, past) /\ (m.pc \in ParsePC <=> parsing = d)
        /\ ~(m.kind = "view" /\ m.pc \in BuildPC)
        /\ (m.pc \in {"view", "viewlook", "viewjoin", "viewwait", "restamp"} => m.kind = "view")
    BY <1>1, <1>3 DEF Inv, History, Flights
  <2>2. call'[d] = IF m.pc = "viewwait" THEN n ELSE m
    BY <1>2 DEF At
  <2> HIDE DEF m
  <2>3. n \in CallState /\ n.pc = "view" /\ n.kind = m.kind /\ n.since = m.since /\ n.scan = m.scan
        /\ n.stamp = m.stamp
    <3>1. "view" \in PC
      BY DEF PC
    <3> QED
      BY <2>1, <3>1 DEF CallState
  <2> HIDE DEF n
  <2>4. CASE m.pc = "viewwait"
    <3>1. GoodCall(n, size, gen, past)
      BY <2>1, <2>3, <2>4 DEF GoodCall
    <3> QED
      BY <2>1, <2>2, <2>3, <2>4, <3>1 DEF ParsePC, BuildPC, m
  <2>5. CASE m.pc # "viewwait"
    BY <2>1, <2>2, <2>5 DEF m
  <2> QED
    BY <2>4, <2>5
<1>9. call'[c] = r
  BY <1>2
<1>10. call' \in [Thread -> CallState]
  BY <1>2, <1>5, <1>8, <1>9
<1>11. Shaped'
  BY <1>1, <1>4, <1>10 DEF Inv, Shaped, ViewShape
<1>12. Flights'
  <2>1. None \notin Thread
    BY TimelineAssumption
  <2>2. (r.pc \in ParsePC <=> parsing = c) /\ r.pc \notin BuildPC /\ r.kind = "view"
    BY <1>1, <1>3, <1>6 DEF Inv, Flights, ParsePC, BuildPC, k
  <2> SUFFICES ASSUME NEW d \in Thread
               PROVE  /\ call'[d].pc \in ParsePC <=> parsing = d
                      /\ ~(call'[d].kind = "view" /\ call'[d].pc \in BuildPC)
                      /\ call'[d].pc \in {"view", "viewlook", "viewjoin", "viewwait", "restamp"} =>
                           call'[d].kind = "view"
    BY <1>1, <2>1 DEF Flights, ParsePC, BuildPC
  <2> QED
    BY <1>8, <1>9, <2>2
<1>13. History'
  <2>1. \A d \in Thread : GoodCall(call'[d], size, gen, past)
    BY <1>7, <1>8, <1>9
  <2>2. GoodCache'
    BY <1>1 DEF Inv, History, GoodCache
  <2> QED
    BY <1>1, <2>1, <2>2 DEF Inv, History
<1> QED
  BY <1>11, <1>12, <1>13 DEF Inv

LEMMA AnswerStep == ASSUME Inv, NEW c \in Thread, Answer(c) PROVE Inv'
<1> DEFINE none == NoCall
<1>1. /\ call[c] \in CallState /\ call[c].pc = "answer" /\ gen \in Nat /\ size \in Nat
      /\ shown \in [Thread -> Nat] /\ objects' \in Seq(Objects) /\ call[c].kind \in {"page", "view"} /\ call[c].events \in Held
      /\ GoodCall(call[c], size, gen, past)
  BY Fields DEF Answer, At, Inv, Shaped, History, Kind
<1>2. call' = [call EXCEPT ![c] = none]
  BY DEF Answer
<1>3. none \in CallState /\ none.pc = "idle" /\ none.kind = "page" /\ none.since = 0 /\ none.stamp = 0
      /\ none.scan.pos = 0 /\ none.scan.events = << >> /\ none.scan.gen = 0
  BY NoCallShape
<1>4. shown' \in [Thread -> Nat]
  <2>1. Len(call[c].events) \in Nat
    BY <1>1 DEF Held
  <2> QED
    BY <1>1, <2>1 DEF Answer
<1> HIDE DEF none
<1>5. GoodCall(none, size, gen, past)
  <2>1. Lines(0, 0, 0) = << >> /\ 0 % 2 = 0
    BY LinesFromStart, Halves
  <2>2. GoodScan(none.scan, size, gen)
    BY <1>1, <1>3, <2>1 DEF GoodScan
  <2> QED
    BY <1>3, <2>2, StampNow DEF GoodCall
<1> QED
  BY <1>1, <1>2, <1>3, <1>4, <1>5, OneGoes DEF Answer, ParsePC, BuildPC

\* What was in the past stays there.
LEMMA PastStays ==
  ASSUME past \in Seq(Held), NEW e, past' = Append(past, e)
  PROVE  /\ Len(past') = Len(past) + 1 /\ past'[Len(past')] = e
         /\ \A v \in 1 .. Len(past) : past'[v] = past[v]
         /\ \A x, v : FromPast(x, v, past) => FromPast(x, v, past')
BY DEF FromPast

LEMMA WritesStep ==
  ASSUME Inv, NEW g \in {gen, gen + 1}, NEW n \in Nat, g = gen => n >= size, Writes(g, n)
  PROVE  Inv'
<1> DEFINE e == Lines(g, 0, n)
<1>1. /\ gen \in Nat /\ size \in Nat /\ past \in Seq(Held) /\ g \in Nat /\ Len(past) \in Nat
      /\ gen' = g /\ size' = n /\ past' = Append(past, e)
      /\ UNCHANGED <<objects, cache, parsing, overview, viewing, faults, call, shown>>
  BY DEF Writes, Inv, Shaped
<1>2. e \in Held
  BY <1>1, LinesShape
<1> HIDE DEF e
<1>3. past' \in Seq(Held)
  BY <1>1, <1>2
<1>4. Shaped'
  BY <1>1, <1>3 DEF Inv, Shaped
<1>5. Flights'
  BY <1>1 DEF Inv, Flights
<1>6. /\ Len(past') = Len(past) + 1 /\ past'[Len(past')] = e
      /\ \A v \in 1 .. Len(past) : past'[v] = past[v]
      /\ \A x, v : FromPast(x, v, past) => FromPast(x, v, past')
  BY <1>1, PastStays
<1>7. \A s \in Scan : GoodScan(s, size, gen) => GoodScan(s, n, g)
  <2> SUFFICES ASSUME NEW s \in Scan, GoodScan(s, size, gen) PROVE GoodScan(s, n, g)
    OBVIOUS
  <2>1. s.gen \in Nat /\ s.pos \in Nat
    BY ScanFields
  <2> QED
    BY <1>1, <2>1 DEF GoodScan
<1>8. \A k \in CallState : GoodCall(k, size, gen, past) => GoodCall(k, n, g, past')
  <2> SUFFICES ASSUME NEW k \in CallState, GoodCall(k, size, gen, past) PROVE GoodCall(k, n, g, past')
    OBVIOUS
  <2>1. k.scan \in Scan /\ k.since \in Nat /\ k.stamp \in Nat /\ k.size \in Nat /\ k.scan.gen \in Nat
    BY Fields, ScanFields
  <2>2. GoodScan(k.scan, n, g) /\ k.scan.gen <= gen
    BY <1>7, <2>1 DEF GoodCall, GoodScan
  <2>3. k.pc = "read" /\ k.scan.gen = g => k.size <= n /\ FromPast(Lines(g, 0, k.size), k.stamp, past')
    BY <1>1, <1>6, <2>1, <2>2 DEF GoodCall
  <2> QED
    BY <1>1, <1>6, <2>1, <2>2, <2>3 DEF GoodCall
<1>9. History'
  <2>1. \A c \in Thread : GoodCall(call'[c], size', gen', past')
    BY <1>1, <1>8 DEF Inv, Shaped, History
  <2>2. GoodCache'
    <3>1. cache' = cache
      BY <1>1
    <3>2. cache # None => GoodScan(cache.scan, n, g)
      BY <1>7 DEF Inv, Shaped, History, GoodCache
    <3>3. cache # None /\ cache.true => FromPast(cache.events, cache.stamp, past')
      BY <1>6 DEF Inv, History, GoodCache
    <3> QED
      BY <1>1, <3>1, <3>2, <3>3 DEF GoodCache
  <2>3. Len(past') >= 1 /\ past'[Len(past')] = Lines(gen', 0, size')
    BY <1>1, <1>6 DEF e
  <2> QED
    BY <2>1, <2>2, <2>3 DEF History
<1> QED
  BY <1>4, <1>5, <1>9 DEF Inv

LEMMA JournalStep == ASSUME Inv, AgentAppends \/ Rewritten PROVE Inv'
<1>1. size \in Nat /\ gen \in Nat /\ gen + 1 # gen /\ MaxSize \in Nat
  BY TimelineAssumption DEF Inv, Shaped
<1>2. CASE AgentAppends
  BY <1>1, <1>2, WritesStep DEF AgentAppends
<1>3. CASE Rewritten
  BY <1>1, <1>3, WritesStep DEF Rewritten
<1> QED
  BY <1>2, <1>3

LEMMA EvictStep == ASSUME Inv, Evict \/ UNCHANGED timeline PROVE Inv'
<1>1. UNCHANGED <<size, gen, past, objects, parsing, viewing, call, shown>> /\ cache' \in {cache, None}
      /\ overview' \in {overview, None} /\ faults' \in Nat
  BY DEF Evict, timeline, journal, Inv, Shaped
<1>2. Shaped'
  BY <1>1 DEF Inv, Shaped
<1>3. Flights'
  BY <1>1 DEF Inv, Flights
<1>4. History'
  BY <1>1 DEF Inv, History, GoodCache
<1> QED
  BY <1>2, <1>3, <1>4 DEF Inv

LEMMA TimelineStep == Inv /\ [TimelineNext]_timeline => Inv'
<1> SUFFICES ASSUME Inv, [TimelineNext]_timeline PROVE Inv'
  OBVIOUS
<1>1. CASE AgentAppends \/ Rewritten
  BY <1>1, JournalStep
<1>2. CASE Evict \/ UNCHANGED timeline
  BY <1>2, EvictStep
<1>3. ASSUME NEW c \in Thread, NEW kind \in Kind, Ask(c, kind) PROVE Inv'
  BY <1>3, AskStep
<1>4. ASSUME NEW c \in Thread, Parse(c) PROVE Inv'
  BY <1>4, ParseStampStep, LookStep, JoinStep, BodyStep, ReadOnStep, ReadStep, ResolveStep DEF Parse
<1>5. ASSUME NEW c \in Thread, Build(c) PROVE Inv'
  BY <1>5, ViewStampStep, ViewLookStep, ViewJoinStep, ViewStoreStep DEF Build
<1>6. ASSUME NEW c \in Thread, Answer(c) PROVE Inv'
  BY <1>6, AnswerStep
<1> QED
  BY <1>1, <1>2, <1>3, <1>4, <1>5, <1>6 DEF TimelineNext

LEMMA InitInv == TimelineInit => Inv
<1> SUFFICES ASSUME TimelineInit PROVE Inv
  OBVIOUS
<1>1. size = 0 /\ gen = 0 /\ past = << << >> >> /\ objects = << >> /\ cache = None /\ overview = None /\ parsing = None
      /\ viewing = None /\ faults = 0 /\ call = [c \in Thread |-> NoCall] /\ shown = [c \in Thread |-> 0]
  BY DEF TimelineInit
<1>2. NoCall \in CallState /\ NoCall.pc = "idle" /\ NoCall.kind = "page" /\ NoCall.since = 0 /\ NoCall.stamp = 0
      /\ NoCall.scan.pos = 0 /\ NoCall.scan.events = << >> /\ NoCall.scan.gen = 0 /\ << >> \in Held
  BY <1>1, NoCallShape DEF Held
<1>3. \A c \in Thread : call[c] = NoCall
  BY <1>1
<1>4. past \in Seq(Held) /\ Len(past) = 1 /\ past[1] = << >>
  BY <1>1, <1>2
<1>5. Shaped
  BY <1>1, <1>2, <1>4 DEF Shaped
<1>6. Flights
  BY <1>1, <1>2, <1>3, TimelineAssumption DEF Flights, ParsePC, BuildPC
<1>7. Lines(0, 0, 0) = << >> /\ 0 % 2 = 0
  BY LinesFromStart, Halves
<1>8. GoodCall(NoCall, 0, 0, past)
  <2>1. GoodScan(NoCall.scan, 0, 0)
    BY <1>2, <1>7 DEF GoodScan
  <2> QED
    BY <1>2, <1>4, <2>1 DEF GoodCall
<1>9. History
  BY <1>1, <1>3, <1>4, <1>7, <1>8 DEF History, GoodCache
<1> QED
  BY <1>5, <1>6, <1>9 DEF Inv

LEMMA InvKept == TimelineSpec => []Inv
<1>1. TimelineInit => Inv
  BY InitInv
<1>2. Inv /\ [TimelineNext]_timeline => Inv'
  BY TimelineStep
<1> QED
  BY <1>1, <1>2, PTL DEF TimelineSpec

\* One parse and one build at a time, each held by the thread that is at it.
THEOREM TimelineTypesKept == TimelineSpec => []TimelineTypeOK
<1>1. Inv => TimelineTypeOK
  BY Parts DEF Inv
<1> QED
  BY <1>1, InvKept, PTL

\* The incremental scan of parse_timeline: as long as the journal is only appended
\* to, the events that are kept are its complete lines up to the offset, each once.
THEOREM ScansFaithful == TimelineSpec => []ScanFaithful
<1>1. Inv => ScanFaithful
  BY DEF Inv, History, GoodCache, GoodScan, ScanFaithful
<1> QED
  BY <1>1, InvKept, PTL

-----------------------------------------------------------------------------
(* What the lists that were handed out share.                              *)

\* x is how y begins.
Lead(x, y) == Len(x) <= Len(y) /\ x = SubSeq(y, 1, Len(x))

LEMMA LeadIff ==
  ASSUME NEW x \in Held, NEW y \in Held
  PROVE  /\ Len(x) \in Nat /\ Len(y) \in Nat
         /\ Lead(x, y) <=> Len(x) <= Len(y) /\ \A i \in 1 .. Len(x) : x[i] = y[i]
BY DEF Lead, Held

LEMMA LeadSelf == ASSUME NEW x \in Held PROVE Lead(x, x)
BY LeadIff

LEMMA LeadOn ==
  ASSUME NEW x \in Held, NEW y \in Held, NEW z \in Held, Lead(x, y), Lead(y, z)
  PROVE  Lead(x, z)
<1>1. Len(x) \in Nat /\ Len(y) \in Nat /\ Len(z) \in Nat
  BY LeadIff
<1>2. Len(x) <= Len(y) /\ \A i \in 1 .. Len(x) : x[i] = y[i]
  BY LeadIff
<1>3. Len(y) <= Len(z) /\ \A i \in 1 .. Len(y) : y[i] = z[i]
  BY LeadIff
<1>4. Len(x) <= Len(z) /\ \A i \in 1 .. Len(x) : x[i] = z[i]
  BY <1>1, <1>2, <1>3
<1> QED
  BY <1>4, LeadIff

\* A part of y from its start leads y, and is led by what leads y and is no longer.
LEMMA LeadCut ==
  ASSUME NEW y \in Held, NEW n \in 0 .. Len(y)
  PROVE  LET z == SubSeq(y, 1, n) IN
         /\ z \in Held /\ Len(z) = n /\ Lead(z, y)
         /\ \A x \in Held : Lead(x, y) /\ Len(x) <= n => Lead(x, z)
<1> DEFINE z == SubSeq(y, 1, n)
<1>1. z \in Held /\ Len(z) = n /\ \A i \in 1 .. n : z[i] = y[i]
  BY DEF Held
<1> HIDE DEF z
<1>2. Len(y) \in Nat /\ n \in Nat /\ n <= Len(y)
  BY DEF Held
<1>3. Lead(z, y)
  BY <1>1, <1>2, LeadIff
<1>4. ASSUME NEW x \in Held, Lead(x, y), Len(x) <= n PROVE Lead(x, z)
  <2>1. Len(x) \in Nat /\ \A i \in 1 .. Len(x) : x[i] = y[i]
    BY <1>4, LeadIff
  <2>2. \A i \in 1 .. Len(x) : x[i] = z[i]
    BY <1>1, <1>2, <1>4, <2>1
  <2> QED
    BY <1>1, <1>4, <2>2, LeadIff
<1> QED
  BY <1>1, <1>3, <1>4 DEF z

LEMMA LeadLines ==
  ASSUME NEW g \in Nat, NEW a \in Nat, NEW b \in Nat, a <= b
  PROVE  Lead(Lines(g, 0, a), Lines(g, 0, b))
<1> DEFINE m == a \div 2
           n == b \div 2
           x == Lines(g, 0, a)
           y == Lines(g, 0, b)
<1>1. m \in Nat /\ n \in Nat /\ m <= n
  BY Halves
<1>2. x = [i \in 1 .. m |-> <<g, i>>] /\ y = [i \in 1 .. n |-> <<g, i>>]
  BY LinesFromStart
<1>3. x \in Held /\ y \in Held
  BY LinesShape
<1> HIDE DEF m, n, x, y
<1>4. Len(x) = m /\ Len(y) = n
  BY <1>1, <1>2
<1>5. \A i \in 1 .. m : x[i] = y[i]
  BY <1>1, <1>2
<1> QED
  BY <1>1, <1>3, <1>4, <1>5, LeadIff DEF x, y

\* The lines of o are how the journal began at moment v or later.
Since(o, v, p) == \E w \in 1 .. Len(p) : w >= v /\ Lead(o.lines, p[w])

\* What a request knows of the objects that its scan, or its list, is made of.
SharesCall(k, os, g, p) ==
  /\ k.pc = "read" =>
       /\ k.scan.id \in 1 .. Len(os)
       /\ k.size = k.scan.pos => os[k.scan.id].lines = k.scan.events
       /\ os[k.scan.id].true /\ k.scan.true /\ k.scan.gen = g =>
            Lead(k.scan.events, os[k.scan.id].lines) /\ Lead(os[k.scan.id].lines, p[Len(p)])
  /\ k.pc \in {"resolve", "answer"} /\ k.kind = "page" =>
       /\ k.from \in 1 .. Len(os)
       /\ k.true /\ os[k.from].true =>
            Lead(k.events, os[k.from].lines) /\ Since(os[k.from], k.since, p)

\* c reads on in the objects of i.
ReadsIn(c, i) == call[c].pc = "read" /\ call[c].scan.id = i

SharesCache ==
  cache # None =>
    /\ cache.scan.id \in 1 .. Len(objects) /\ cache.events = cache.scan.events
    /\ cache.true /\ objects[cache.scan.id].true =>
         Lead(cache.events, objects[cache.scan.id].lines) /\ Since(objects[cache.scan.id], cache.stamp, past)
    /\ (\A c \in Thread : ~ReadsIn(c, cache.scan.id)) => objects[cache.scan.id].lines = cache.events

Sharing == SharesCache /\ \A c \in Thread : SharesCall(call[c], objects, gen, past)

\* The answer of a request that is on its way, as the refinement has it.
Told(k, os) ==
  IF k.pc = "answer" /\ k.kind = "page" /\ k.true /\ os[k.from].true
  THEN <<k.events, os[k.from].lines>> ELSE << >>

ReadsStep == [Reads!ReadsNext]_(Reads!reads)

\* Objects come to hold more, or are no longer those of a journal that only grew.
Grown ==
  /\ Len(objects) <= Len(objects')
  /\ \A i \in 1 .. Len(objects) :
       objects'[i].true =>
         /\ objects[i].true
         /\ objects'[i].lines = objects[i].lines \/ Len(objects'[i].lines) > Len(objects[i].lines)

\* A step that leaves every answer that is on its way alone, but for its objects.
LEMMA ServeStep ==
  ASSUME Inv, Inv', Sharing, Sharing', UNCHANGED past, Grown,
         \A d \in Thread : call'[d].since = call[d].since,
         \A d \in Thread : call[d].pc = "answer" /\ call[d].kind = "page" => call'[d] = call[d]
  PROVE  ReadsStep
<1> DEFINE A == [d \in Thread |-> call[d].since]
           T == [d \in Thread |-> Told(call[d], objects)]
           B == [d \in Thread |-> call'[d].since]
           U == [d \in Thread |-> Told(call'[d], objects')]
           F(v0, e, l) == /\ \E v \in v0 .. Len(past) : e = past[v]
                          /\ \E w \in v0 .. Len(past) : Lead(l, past[w])
                          /\ Lead(e, l)
<1>1. (/\ past' = past /\ B = A
       /\ \A r \in Thread :
            \/ U[r] \in {T[r], << >>}
            \/ /\ A[r] # 0 /\ U[r] # << >>
               /\ F(A[r], U[r][1], U[r][2])
               /\ T[r] # << >> => U[r][1] = T[r][1] /\ Len(U[r][2]) > Len(T[r][2]))
      => ReadsStep
  BY DEF ReadsStep, Reads!ReadsNext, Reads!Serves, Reads!Tells, Reads!Fresh, Reads!Leads, Lead, Told, At
<1>2. B = A
  OBVIOUS
<1>3. ASSUME NEW r \in Thread, U[r] # << >>, U[r] # T[r]
      PROVE  /\ A[r] # 0 /\ F(A[r], U[r][1], U[r][2])
             /\ T[r] # << >> => U[r][1] = T[r][1] /\ Len(U[r][2]) > Len(T[r][2])
  <2> DEFINE k == call'[r]
             o == objects'[k.from]
  <2>1. /\ k.pc = "answer" /\ k.kind = "page" /\ k.true /\ o.true
        /\ U[r] = <<k.events, o.lines>>
    BY <1>3 DEF Told
  <2>2. k.since = A[r] /\ k.since \in Nat /\ k.since >= 1 /\ FromPast(k.events, k.since, past)
    <3>1. GoodCall(k, size', gen', past') /\ k \in CallState
      BY DEF Inv, Shaped, History
    <3> QED
      BY <2>1, <3>1, Fields DEF GoodCall
  <2>3. Lead(k.events, o.lines) /\ Since(o, k.since, past)
    <3>1. SharesCall(k, objects', gen', past')
      BY DEF Sharing
    <3> QED
      BY <2>1, <3>1 DEF SharesCall
  <2>4. F(A[r], k.events, o.lines)
    <3>1. PICK v \in 1 .. Len(past) : v >= k.since /\ k.events = past[v]
      BY <2>2 DEF FromPast
    <3>2. PICK w \in 1 .. Len(past) : w >= k.since /\ Lead(o.lines, past[w])
      BY <2>3 DEF Since
    <3>3. v \in A[r] .. Len(past) /\ w \in A[r] .. Len(past)
      BY <2>2, <3>1, <3>2
    <3> QED
      BY <2>3, <3>1, <3>2, <3>3
  <2>5. ASSUME T[r] # << >>
        PROVE  T[r] = <<k.events, objects[k.from].lines>> /\ Len(o.lines) > Len(objects[k.from].lines)
    <3>1. call[r].pc = "answer" /\ call[r].kind = "page" /\ call[r].true
      BY <2>5 DEF Told
    <3>2. k = call[r] /\ T[r] = <<k.events, objects[k.from].lines>>
      BY <2>5, <3>1 DEF Told
    <3>3. k.from \in 1 .. Len(objects)
      BY <3>1, <3>2 DEF Sharing, SharesCall
    <3> QED
      BY <1>3, <2>1, <3>2, <3>3 DEF Grown
  <2> HIDE DEF k, o, A, T, U, F
  <2> QED
    BY <2>1, <2>2, <2>4, <2>5
<1> HIDE DEF A, B, T, U, F
<1> QED
  BY <1>1, <1>2, <1>3

\* A step that leaves the objects, the journal and whoever reads alone.
LEMMA QuietShares ==
  ASSUME Inv, Inv', Sharing, UNCHANGED <<gen, past, objects>>, cache' \in {cache, None},
         \A d \in Thread : \/ call'[d] = call[d]
                           \/ /\ call[d].pc # "read" /\ ~(call[d].pc = "answer" /\ call[d].kind = "page")
                              /\ call'[d].since = call[d].since
                              /\ SharesCall(call'[d], objects, gen, past)
  PROVE  Sharing' /\ ReadsStep
<1>1. SharesCache'
  <2>1. \A d \in Thread, i \in Nat : ReadsIn(d, i) => ReadsIn(d, i)'
    BY DEF ReadsIn
  <2>2. cache # None => cache.scan.id \in Nat
    BY ScanFields DEF Inv, Shaped
  <2> QED
    BY <2>1, <2>2 DEF Sharing, SharesCache
<1>2. Sharing'
  BY <1>1 DEF Sharing
<1>3. Grown
  BY DEF Grown, Inv, Shaped
<1> QED
  BY <1>2, <1>3, ServeStep

\* A request that neither reads nor has a page.
LEMMA NothingShared ==
  ASSUME NEW k, NEW os, NEW g, NEW p, k.pc # "read", k.pc \notin {"resolve", "answer"} \/ k.kind = "view"
  PROVE  SharesCall(k, os, g, p)
BY DEF SharesCall

LEMMA ViewShares ==
  ASSUME Inv, Inv', Sharing, NEW c \in Thread,
         ViewStamp(c) \/ ViewLook(c) \/ ViewJoin(c) \/ ParseStamp(c) \/ Join(c)
  PROVE  Sharing' /\ ReadsStep
<1>1. call \in [Thread -> CallState] /\ call[c] \in CallState
  BY DEF Inv, Shaped
<1>2. /\ \A d \in Thread \ {c} : call'[d] = call[d]
      /\ UNCHANGED <<gen, past, objects, cache>>
  BY <1>1 DEF ViewStamp, ViewLook, ViewJoin, ParseStamp, Join, Goto, journal
<1>3. call[c].pc \in {"view", "viewlook", "viewjoin", "stamp", "join"}
  BY DEF ViewStamp, ViewLook, ViewJoin, ParseStamp, Join, At
<1>4. /\ call'[c].since = call[c].since /\ call'[c].pc # "read"
      /\ call'[c].pc \notin {"resolve", "answer"} \/ call'[c].kind = "view"
  <2>1. CASE ViewStamp(c)
    BY <1>1, <2>1 DEF ViewStamp, CallState
  <2>2. CASE ViewLook(c)
    <3>1. call[c].kind = "view"
      BY <2>2, Zenon DEF ViewLook, At, Inv, Flights
    <3> QED
      BY <1>1, <2>2, <3>1 DEF ViewLook, CallState
  <2>3. CASE ViewJoin(c)
    BY <1>1, <2>3 DEF ViewJoin, Goto, CallState
  <2>4. CASE ParseStamp(c)
    BY <1>1, <2>4 DEF ParseStamp, CallState
  <2>5. CASE Join(c)
    BY <1>1, <2>5 DEF Join, Goto, CallState
  <2> QED
    BY <2>1, <2>2, <2>3, <2>4, <2>5
<1>5. SharesCall(call'[c], objects, gen, past)
  BY <1>4, NothingShared
<1> QED
  BY <1>2, <1>3, <1>4, <1>5, QuietShares

\* What the cache has under the stamp of a request is shared, and no older than it.
LEMMA HitShares ==
  ASSUME Inv, Sharing, NEW c \in Thread, Hit(c), call[c].pc \in {"look", "body"}, NEW k \in CallState,
         k.pc \in {"resolve", "answer"}, k.from = cache.scan.id, k.events = cache.events,
         k.true = cache.true, k.since = call[c].since
  PROVE  SharesCall(k, objects, gen, past)
<1>1. call[c].since <= cache.stamp /\ call[c].since \in Nat /\ cache.stamp \in Nat
  BY Fields DEF Inv, Shaped, History, GoodCall, Hit
<1>2. /\ cache.scan.id \in 1 .. Len(objects)
      /\ cache.true /\ objects[cache.scan.id].true =>
           Lead(cache.events, objects[cache.scan.id].lines) /\ Since(objects[cache.scan.id], cache.stamp, past)
  BY DEF Sharing, SharesCache, Hit
<1>3. Since(objects[cache.scan.id], cache.stamp, past) => Since(objects[cache.scan.id], call[c].since, past)
  BY <1>1 DEF Since
<1> QED
  BY <1>2, <1>3 DEF SharesCall

LEMMA LookShares == ASSUME Inv, Inv', Sharing, NEW c \in Thread, Look(c) PROVE Sharing' /\ ReadsStep
<1>1. call \in [Thread -> CallState] /\ call[c] \in CallState /\ call[c].pc = "look" /\ call' \in [Thread -> CallState]
  BY DEF Look, At, Inv, Shaped
<1>2. /\ \A d \in Thread \ {c} : call'[d] = call[d]
      /\ UNCHANGED <<gen, past, objects, cache>>
  BY <1>1 DEF Look, Takes, Goto, journal
<1>3. call'[c].since = call[c].since /\ SharesCall(call'[c], objects, gen, past)
  <2>1. CASE Hit(c)
    <3>1. /\ call'[c].pc = Parsed(c) /\ call'[c].kind = call[c].kind /\ call'[c].since = call[c].since
          /\ call'[c].events = cache.events /\ call'[c].true = cache.true /\ call'[c].from = cache.scan.id
      BY <1>1, <2>1 DEF Look, Takes, CallState
    <3>2. CASE call[c].kind = "view"
      BY <3>1, <3>2, NothingShared DEF Parsed
    <3>3. CASE call[c].kind # "view"
      BY <1>1, <2>1, <3>1, <3>3, HitShares DEF Parsed
    <3> QED
      BY <3>1, <3>2, <3>3
  <2>2. CASE ~Hit(c)
    <3>1. call'[c].pc = "join" /\ call'[c].since = call[c].since
      BY <1>1, <2>2 DEF Look, Goto, CallState
    <3> QED
      BY <3>1, NothingShared
  <2> QED
    BY <2>1, <2>2
<1> QED
  BY <1>1, <1>2, <1>3, QuietShares

LEMMA ResolveShares == ASSUME Inv, Inv', Sharing, NEW c \in Thread, Resolve(c) PROVE Sharing' /\ ReadsStep
<1>1. call \in [Thread -> CallState] /\ call[c].pc = "resolve" /\ UNCHANGED <<gen, past, objects, cache>>
  BY DEF Resolve, At, Inv, Shaped, journal
<1>2. ASSUME NEW d \in Thread, call'[d] # call[d]
      PROVE  /\ call[d].pc # "read" /\ call[d].pc # "answer" /\ call'[d].since = call[d].since
             /\ SharesCall(call'[d], objects, gen, past)
  <2>1. call[d] \in CallState
    BY <1>1
  <2>2. CASE d = c
    <3>1. call'[c] = [call[c] EXCEPT !.pc = Parsed(c)]
      BY DEF Resolve
    <3>2. /\ call'[c].pc = Parsed(c) /\ call'[c].kind = call[c].kind /\ call'[c].since = call[c].since
          /\ call'[c].events = call[c].events /\ call'[c].true = call[c].true /\ call'[c].from = call[c].from
      BY <2>1, <2>2, <3>1 DEF CallState
    <3>3. SharesCall(call[c], objects, gen, past)
      BY DEF Sharing
    <3> QED
      BY <1>1, <2>2, <3>2, <3>3 DEF SharesCall, Parsed
  <2>3. CASE d # c
    <3>1. call[d].pc = "wait" /\ call'[d] = [call[d] EXCEPT !.pc = "stamp"]
      BY <1>2, <2>3 DEF Resolve, At
    <3>2. call'[d].pc = "stamp" /\ call'[d].since = call[d].since
      BY <2>1, <3>1 DEF CallState
    <3> QED
      BY <3>1, <3>2, NothingShared
  <2> QED
    BY <2>2, <2>3
<1> QED
  BY <1>1, <1>2, QuietShares

LEMMA ViewStoreShares == ASSUME Inv, Inv', Sharing, NEW c \in Thread, ViewStore(c) PROVE Sharing' /\ ReadsStep
<1>1. call \in [Thread -> CallState] /\ call[c].pc = "restamp" /\ UNCHANGED <<gen, past, objects, cache>>
  BY DEF ViewStore, At, Inv, Shaped, journal
<1>2. ASSUME NEW d \in Thread, call'[d] # call[d]
      PROVE  /\ call[d].pc # "read" /\ call[d].pc # "answer" /\ call'[d].since = call[d].since
             /\ SharesCall(call'[d], objects, gen, past)
  <2>1. call[d] \in CallState
    BY <1>1
  <2>2. CASE d = c
    <3>1. call'[c] = [call[c] EXCEPT !.pc = "answer"]
      BY DEF ViewStore
    <3>2. call'[c].pc = "answer" /\ call'[c].kind = call[c].kind /\ call'[c].since = call[c].since
      BY <2>1, <2>2, <3>1 DEF CallState
    <3>3. call[c].kind = "view"
      BY <1>1, Zenon DEF Inv, Flights
    <3> QED
      BY <1>1, <2>2, <3>2, <3>3, NothingShared
  <2>3. CASE d # c
    <3>1. call[d].pc = "viewwait" /\ call'[d] = [call[d] EXCEPT !.pc = "view"]
      BY <1>2, <2>3 DEF ViewStore, At
    <3>2. call'[d].pc = "view" /\ call'[d].since = call[d].since
      BY <2>1, <3>1 DEF CallState
    <3> QED
      BY <3>1, <3>2, NothingShared
  <2> QED
    BY <2>2, <2>3
<1> QED
  BY <1>1, <1>2, QuietShares

LEMMA EvictShares == ASSUME Inv, Inv', Sharing, Evict \/ UNCHANGED timeline PROVE Sharing' /\ ReadsStep
<1>1. UNCHANGED <<gen, past, objects, call>> /\ cache' \in {cache, None}
  BY DEF Evict, timeline, journal
<1> QED
  BY <1>1, QuietShares

\* A request begins, or has its answer.
LEMMA EdgeShares ==
  ASSUME Inv, Inv', Sharing, NEW c \in Thread, (\E kind \in Kind : Ask(c, kind)) \/ Answer(c)
  PROVE  Sharing' /\ ReadsStep
<1> DEFINE A == [d \in Thread |-> call[d].since]
           T == [d \in Thread |-> Told(call[d], objects)]
           B == [d \in Thread |-> call'[d].since]
           U == [d \in Thread |-> Told(call'[d], objects')]
<1>1. call \in [Thread -> CallState] /\ call' \in [Thread -> CallState] /\ NoCall \in CallState
      /\ NoCall.pc = "idle" /\ NoCall.since = 0
  BY NoCallShape DEF Inv, Shaped
<1>2. /\ \A d \in Thread \ {c} : call'[d] = call[d]
      /\ UNCHANGED <<gen, past, objects, cache>>
  BY <1>1 DEF Ask, Answer, journal
<1>3. call[c].pc \in {"idle", "answer"} /\ call'[c].pc \in {"idle", "look", "viewlook"}
  <2>1. CASE Answer(c)
    BY <1>1, <2>1 DEF Answer, At
  <2>2. ASSUME NEW kind \in Kind, Ask(c, kind)
        PROVE  call[c].pc = "idle" /\ call'[c].pc \in {"look", "viewlook"}
    BY <1>1, <2>2 DEF Ask, At, CallState
  <2> QED
    BY <2>1, <2>2
<1>4. Sharing'
  <2>1. SharesCache'
    BY <1>2, <1>3, ScanFields DEF Sharing, SharesCache, ReadsIn, Inv, Shaped
  <2>2. SharesCall(call'[c], objects, gen, past)
    BY <1>3, NothingShared
  <2> QED
    BY <1>2, <2>1, <2>2 DEF Sharing
<1>5. (\/ past' = past /\ B = A /\ U = T
       \/ \E r \in Thread :
            \/ A[r] = 0 /\ B = [A EXCEPT ![r] = Len(past)] /\ past' = past /\ U = T
            \/ A[r] # 0 /\ B = [A EXCEPT ![r] = 0] /\ U = [T EXCEPT ![r] = << >>] /\ past' = past)
      => ReadsStep
  BY DEF ReadsStep, Reads!ReadsNext, Reads!reads, Reads!Asks, Reads!Ends, Told, At
<1>6. B = [A EXCEPT ![c] = call'[c].since] /\ U = [T EXCEPT ![c] = << >>]
  BY <1>2, <1>3 DEF Told
<1>7. /\ A[c] = call[c].since /\ T[c] = Told(call[c], objects)
      /\ call[c].pc = "idle" => T[c] = << >> /\ A[c] = 0
      /\ call[c].kind = "view" => T[c] = << >> /\ A[c] = 0
  BY DEF Told, Inv, History, GoodCall
<1>8. call[c].pc = "answer" => call[c].kind = "view" \/ A[c] # 0
  <2>1. GoodCall(call[c], size, gen, past) /\ call[c].kind \in {"page", "view"} /\ call[c].since \in Nat
    BY <1>1, Fields DEF Inv, History, Kind
  <2> QED
    BY <1>7, <2>1 DEF GoodCall
<1>9. CASE Answer(c)
  <2>1. call'[c].since = 0 /\ call[c].pc = "answer"
    BY <1>1, <1>9 DEF Answer, At
  <2>2. CASE A[c] = 0
    <3>1. T[c] = << >>
      BY <1>7, <1>8, <2>1, <2>2
    <3>2. B = A /\ U = T
      BY <1>6, <2>1, <2>2, <3>1
    <3> HIDE DEF A, B, T, U
    <3> QED
      BY <1>2, <1>4, <1>5, <3>2
  <2>3. CASE A[c] # 0
    <3>1. B = [A EXCEPT ![c] = 0]
      BY <1>6, <2>1
    <3> HIDE DEF A, B, T, U
    <3> QED
      BY <1>2, <1>4, <1>5, <1>6, <2>3, <3>1
  <2> QED
    BY <2>2, <2>3
<1>10. ASSUME NEW kind \in Kind, Ask(c, kind) PROVE ReadsStep
  <2>1. call[c].pc = "idle" /\ (call'[c].since = 0 \/ call'[c].since = Len(past))
    BY <1>1, <1>10 DEF Ask, At, CallState, Stamp
  <2>2. U = T /\ A[c] = 0
    BY <1>6, <1>7, <2>1
  <2>3. CASE call'[c].since = 0
    <3>1. B = A
      BY <1>6, <2>2, <2>3
    <3> HIDE DEF A, B, T, U
    <3> QED
      BY <1>2, <1>5, <2>2, <3>1
  <2>4. CASE call'[c].since = Len(past)
    <3>1. B = [A EXCEPT ![c] = Len(past)]
      BY <1>6, <2>4
    <3> HIDE DEF A, B, T, U
    <3> QED
      BY <1>2, <1>5, <2>2, <3>1
  <2> QED
    BY <2>1, <2>3, <2>4
<1> QED
  BY <1>4, <1>9, <1>10

LEMMA LeadWhole == ASSUME NEW x \in Held, NEW y \in Held, Lead(x, y), Len(x) = Len(y) PROVE x = y
<1>1. Len(x) \in Nat /\ \A i \in 1 .. Len(x) : x[i] = y[i]
  BY LeadIff
<1>2. x \in [1 .. Len(x) -> Nat \X Nat] /\ y \in [1 .. Len(x) -> Nat \X Nat]
  BY DEF Held
<1> QED
  BY <1>1, <1>2

\* Objects come to hold more, which is how the journal of now begins.
More ==
  /\ Len(objects) <= Len(objects')
  /\ \A i \in 1 .. Len(objects) :
       objects'[i].true =>
         /\ objects[i].true
         /\ \/ objects'[i].lines = objects[i].lines
            \/ /\ Len(objects'[i].lines) > Len(objects[i].lines)
               /\ Lead(objects[i].lines, objects'[i].lines) /\ Lead(objects'[i].lines, past[Len(past)])

\* A list keeps what it has, though others read on in its objects.
LEMMA MoreShares ==
  ASSUME Inv, Inv', UNCHANGED past, More, NEW e \in Held, NEW v \in Nat, v <= Len(past),
         NEW i \in 1 .. Len(objects),
         objects[i].true => Lead(e, objects[i].lines) /\ Since(objects[i], v, past)
  PROVE  i \in 1 .. Len(objects') /\
         (objects'[i].true => Lead(e, objects'[i].lines) /\ Since(objects'[i], v, past))
<1>1. objects \in Seq(Objects) /\ objects' \in Seq(Objects) /\ Len(past) \in Nat /\ Len(past) >= 1
  BY DEF Inv, Shaped, History
<1>2. i \in 1 .. Len(objects')
  BY <1>1 DEF More
<1>3. objects[i].lines \in Held /\ objects'[i].lines \in Held
  <2>1. objects[i] \in Objects /\ objects'[i] \in Objects
    BY <1>1, <1>2
  <2> QED
    BY <2>1 DEF Objects
<1>4. ASSUME objects'[i].true PROVE Lead(e, objects'[i].lines) /\ Since(objects'[i], v, past)
  <2>1. Lead(e, objects[i].lines) /\ Since(objects[i], v, past)
    BY <1>4 DEF More
  <2>2. CASE objects'[i].lines = objects[i].lines
    BY <2>1, <2>2 DEF Since
  <2>3. CASE Lead(objects[i].lines, objects'[i].lines) /\ Lead(objects'[i].lines, past[Len(past)])
    <3>1. Lead(e, objects'[i].lines)
      BY <1>3, <2>1, <2>3, LeadOn
    <3>2. Len(past) \in 1 .. Len(past)
      BY <1>1
    <3> QED
      BY <2>3, <3>1, <3>2 DEF Since
  <2> QED
    BY <1>4, <2>2, <2>3 DEF More
<1> QED
  BY <1>2, <1>4

LEMMA OthersShare ==
  ASSUME Inv, Inv', Sharing, UNCHANGED <<gen, past>>, More, NEW d \in Thread, call[d].pc # "read"
  PROVE  SharesCall(call[d], objects', gen, past)
<1> DEFINE k == call[d]
<1>1. k \in CallState /\ GoodCall(k, size, gen, past) /\ SharesCall(k, objects, gen, past)
  BY DEF Inv, Shaped, History, Sharing
<1>2. k.events \in Held /\ k.since \in Nat
  BY <1>1, Fields
<1>3. ASSUME k.pc \in {"resolve", "answer"}, k.kind = "page"
      PROVE  /\ k.from \in 1 .. Len(objects')
             /\ k.true /\ objects'[k.from].true =>
                  Lead(k.events, objects'[k.from].lines) /\ Since(objects'[k.from], k.since, past)
  <2>1. k.since <= Len(past) /\ k.from \in 1 .. Len(objects)
    BY <1>1, <1>3 DEF GoodCall, SharesCall
  <2>2. k.true /\ objects[k.from].true =>
          Lead(k.events, objects[k.from].lines) /\ Since(objects[k.from], k.since, past)
    BY <1>1, <1>3 DEF SharesCall
  <2>3. k.from \in 1 .. Len(objects')
    BY <2>1 DEF More, Inv, Shaped
  <2> HIDE DEF k
  <2>4. ASSUME k.true, objects'[k.from].true
        PROVE  Lead(k.events, objects'[k.from].lines) /\ Since(objects'[k.from], k.since, past)
    BY <1>2, <2>1, <2>2, <2>4, MoreShares
  <2> QED
    BY <2>3, <2>4
<1> HIDE DEF k
<1>4. SharesCall(k, objects', gen, past)
  BY <1>3 DEF SharesCall, k
<1> QED
  BY <1>4 DEF k

LEMMA CacheShares ==
  ASSUME Inv, Inv', Sharing, UNCHANGED past, More, cache # None
  PROVE  /\ cache.scan.id \in 1 .. Len(objects')
         /\ cache.true /\ objects'[cache.scan.id].true =>
              Lead(cache.events, objects'[cache.scan.id].lines) /\ Since(objects'[cache.scan.id], cache.stamp, past)
<1>1. cache.events \in Held /\ cache.stamp \in Nat /\ cache.true \in BOOLEAN
  BY DEF Inv, Shaped
<1>2. /\ cache.scan.id \in 1 .. Len(objects)
      /\ cache.true /\ objects[cache.scan.id].true =>
           Lead(cache.events, objects[cache.scan.id].lines) /\ Since(objects[cache.scan.id], cache.stamp, past)
  BY DEF Sharing, SharesCache
<1>3. cache.true => cache.stamp <= Len(past)
  BY <1>1 DEF Inv, Shaped, History, GoodCache, FromPast
<1>4. cache.scan.id \in 1 .. Len(objects')
  BY <1>2 DEF More, Inv, Shaped
<1>5. ASSUME cache.true, objects'[cache.scan.id].true
      PROVE  Lead(cache.events, objects'[cache.scan.id].lines) /\ Since(objects'[cache.scan.id], cache.stamp, past)
  BY <1>1, <1>2, <1>3, <1>5, MoreShares
<1> QED
  BY <1>4, <1>5

\* One reads at a time.
LEMMA OneReads ==
  ASSUME Inv, NEW c \in Thread, call[c].pc \in ParsePC
  PROVE  \A d \in Thread \ {c} : call[d].pc # "read"
BY DEF Inv, Flights, ParsePC

\* A new scan has objects of its own.
LEMMA NewObjects ==
  ASSUME Inv, objects' = Append(objects, NoObjects)
  PROVE  /\ More /\ Len(objects') = Len(objects) + 1 /\ objects'[Len(objects) + 1].lines = << >>
         /\ \A i \in 1 .. Len(objects) : objects'[i] = objects[i]
<1>1. objects \in Seq(Objects)
  BY DEF Inv, Shaped
<1>2. /\ Len(objects') = Len(objects) + 1 /\ objects'[Len(objects) + 1] = NoObjects
      /\ \A i \in 1 .. Len(objects) : objects'[i] = objects[i]
  BY <1>1
<1> QED
  BY <1>1, <1>2 DEF More, NoObjects

LEMMA NothingLeads == ASSUME NEW x \in Held PROVE << >> \in Held /\ Lead(<< >>, x)
BY DEF Lead, Held

LEMMA BodyShares == ASSUME Inv, Inv', Sharing, NEW c \in Thread, Body(c) PROVE Sharing' /\ ReadsStep
<1>1. /\ call \in [Thread -> CallState] /\ call[c] \in CallState /\ call[c].pc = "body"
      /\ call' \in [Thread -> CallState] /\ objects \in Seq(Objects) /\ past \in Seq(Held)
      /\ Len(past) >= 1 /\ size \in Nat /\ gen \in Nat
  BY DEF Body, At, Inv, Shaped, History
<1>2. (\A d \in Thread \ {c} : call'[d] = call[d]) /\ UNCHANGED <<gen, past, cache>>
  BY <1>1 DEF Body, Takes, Begins, journal
<1>3. \A d \in Thread : call[d].pc # "read"
  BY <1>1, OneReads DEF ParsePC
<1>4. CASE Hit(c)
  <2>1. /\ call'[c].pc = "resolve" /\ call'[c].since = call[c].since
        /\ call'[c].events = cache.events /\ call'[c].true = cache.true /\ call'[c].from = cache.scan.id
        /\ objects' = objects
    BY <1>1, <1>4 DEF Body, Takes, CallState
  <2>2. SharesCall(call'[c], objects, gen, past)
    BY <1>1, <1>4, <2>1, HitShares
  <2> QED
    BY <1>1, <1>2, <2>1, <2>2, QuietShares
<1>5. CASE ~Hit(c)
  <2> DEFINE k == call'[c]
             s == IF cache = None \/ size < cache.scan.pos THEN NoScan ELSE cache.scan
             new == cache = None \/ size < cache.scan.pos
  <2>1. /\ k.pc = "read" /\ k.since = call[c].since /\ k.scan = s
        /\ objects' = IF new THEN Append(objects, NoObjects) ELSE objects
    BY <1>1, <1>5 DEF Body, Begins, CallState
  <2>2. More /\ \A i \in 1 .. Len(objects) : objects'[i] = objects[i]
    BY <1>1, <2>1, NewObjects DEF More
  <2>3. SharesCall(k, objects', gen, past)
    <3>1. past[Len(past)] \in Held
      BY <1>1
    <3>2. CASE new
      <4>1. s = NoScan /\ NoScan.id = Len(objects) + 1 /\ NoScan.events = << >>
        BY <1>1, <3>2, EmptyScan
      <4>2. Len(objects') = Len(objects) + 1 /\ objects'[Len(objects) + 1].lines = << >>
        BY <2>1, <3>2, NewObjects
      <4>3. << >> \in Held /\ Lead(<< >>, past[Len(past)]) /\ Lead(<< >>, << >>)
        BY <3>1, NothingLeads
      <4> HIDE DEF k, s
      <4>4. k.scan.id \in 1 .. Len(objects')
        BY <1>1, <2>1, <4>1, <4>2
      <4> QED
        BY <2>1, <4>1, <4>2, <4>3, <4>4 DEF SharesCall
    <3>3. CASE ~new
      <4>0. cache # None /\ s = cache.scan
        BY <3>3
      <4>1. s = cache.scan /\ cache # None /\ cache.scan \in Scan /\ size >= cache.scan.pos
        <5>1. cache.scan \in Scan
          BY <4>0 DEF Inv, Shaped
        <5> QED
          BY <1>1, <3>3, <4>0, <5>1, ScanFields
      <4>2. /\ cache.scan.id \in 1 .. Len(objects) /\ cache.events = cache.scan.events
            /\ objects[cache.scan.id].lines = cache.events
        BY <1>3, <4>1 DEF Sharing, SharesCache, ReadsIn
      <4>3. cache.scan.events \in Held /\ cache.scan.pos \in Nat
        BY <4>1, ScanFields
      <4>4. Lead(cache.scan.events, cache.scan.events)
        BY <4>3, LeadSelf
      <4>5. cache.scan.true /\ cache.scan.gen = gen => Lead(cache.scan.events, past[Len(past)])
        BY <1>1, <4>1, <4>3, LeadLines DEF Inv, History, GoodCache, GoodScan
      <4>6. objects' = objects
        BY <2>1, <3>3
      <4> HIDE DEF k, s, new
      <4> QED
        BY <2>1, <4>1, <4>2, <4>4, <4>5, <4>6 DEF SharesCall
    <3> QED
      BY <3>2, <3>3
  <2>4. \A d \in Thread \ {c} : SharesCall(call'[d], objects', gen, past)
    BY <1>2, <1>3, <2>2, OthersShare
  <2>5. SharesCache'
    <3>1. cache # None => /\ cache.events = cache.scan.events /\ cache.scan.id \in 1 .. Len(objects)
                          /\ objects[cache.scan.id].lines = cache.events
      BY <1>3 DEF Sharing, SharesCache, ReadsIn
    <3> QED
      BY <1>2, <2>2, <3>1, CacheShares DEF SharesCache
  <2>6. Sharing'
    BY <1>2, <2>3, <2>4, <2>5 DEF Sharing
  <2>7. Grown
    BY <2>2 DEF More, Grown
  <2> QED
    BY <1>1, <1>2, <2>1, <2>6, <2>7, ServeStep
<1> QED
  BY <1>4, <1>5

\* What a scan comes to, of what the journal is now.
LEMMA ScannedShares ==
  ASSUME Inv, NEW c \in Thread, call[c].pc = "read"
  PROVE  LET s == call[c].scan
             t == Scanned(s, call[c].size) IN
         /\ t.id = s.id /\ (call[c].size = s.pos => t.events = s.events)
         /\ t.true => s.true /\ s.gen = gen
         /\ t.true /\ call[c].size # s.pos => t.events = past[Len(past)]
<1> DEFINE s == call[c].scan
           was == call[c].size
           t == Scanned(s, was)
           end == IF size % 2 = 1 /\ size >= was THEN size - 1 ELSE size
           p == IF end > s.pos THEN end ELSE s.pos
           e == s.events \o Lines(gen, s.pos, size)
           b == s.true /\ s.gen = gen
<1>1. s \in Scan /\ GoodScan(s, size, gen) /\ size \in Nat /\ gen \in Nat
      /\ past[Len(past)] = Lines(gen, 0, size)
  BY Fields DEF Inv, Shaped, History, GoodCall
<1>2. t = IF was = s.pos THEN [s EXCEPT !.true = b]
          ELSE [id |-> s.id, pos |-> p, events |-> e, gen |-> s.gen, true |-> b]
  BY DEF Scanned
<1>3. b => e = past[Len(past)]
  <2> SUFFICES ASSUME b PROVE e = past[Len(past)]
    OBVIOUS
  <2>1. s.gen = gen /\ s.pos % 2 = 0 /\ s.events = Lines(gen, 0, s.pos) /\ s.pos <= size /\ s.pos \in Nat
    BY <1>1, ScanFields DEF GoodScan
  <2>2. Lines(gen, 0, s.pos) \o Lines(gen, s.pos, size) = Lines(gen, 0, size)
    BY <1>1, <2>1, LinesJoin
  <2> QED
    BY <1>1, <2>1, <2>2
<1>4. b => s.true /\ s.gen = gen
  OBVIOUS
<1> HIDE DEF s, was, t, p, e, b
<1>5. CASE was = s.pos
  <2>1. t.id = s.id /\ t.events = s.events /\ t.true = b
    BY <1>1, <1>2, <1>5 DEF Scan
  <2> QED
    BY <1>4, <1>5, <2>1 DEF s, was, t
<1>6. CASE was # s.pos
  <2>1. t.id = s.id /\ t.events = e /\ t.true = b
    BY <1>2, <1>6
  <2> QED
    BY <1>3, <1>4, <1>6, <2>1 DEF s, was, t
<1> QED
  BY <1>5, <1>6

\* A scan puts its first n lines into its objects, and into no others.
LEMMA HoldsMore ==
  ASSUME Inv, Inv', Sharing, NEW c \in Thread, call[c].pc = "read", call[c].size # call[c].scan.pos,
         NEW n \in Int, n <= Len(Scanned(call[c].scan, call[c].size).events),
         Scanned(call[c].scan, call[c].size).true /\ objects[call[c].scan.id].true =>
           Len(objects[call[c].scan.id].lines) <= n,
         Holds(Scanned(call[c].scan, call[c].size), n)
  PROVE  LET s == call[c].scan
             t == Scanned(s, call[c].size) IN
         /\ More /\ Len(objects') = Len(objects) /\ s.id \in 1 .. Len(objects)
         /\ \A i \in 1 .. Len(objects) : i # s.id => objects'[i] = objects[i]
         /\ objects'[s.id].lines = SubSeq(t.events, 1, n)
         /\ objects'[s.id].true =>
              t.true /\ Lead(s.events, objects'[s.id].lines) /\ Lead(objects'[s.id].lines, past[Len(past)])
<1> DEFINE s == call[c].scan
           t == Scanned(s, call[c].size)
           o == objects[s.id]
           z == SubSeq(t.events, 1, n)
           b == o.true /\ t.true
           new == [lines |-> z, true |-> b]
<1>1. /\ s \in Scan /\ t \in Scan /\ t.events \in Held /\ s.events \in Held /\ s.true \in BOOLEAN
      /\ objects \in Seq(Objects) /\ past[Len(past)] \in Held /\ t.id = s.id
  <2>1. call[c] \in CallState /\ past \in Seq(Held) /\ Len(past) >= 1 /\ objects \in Seq(Objects)
    BY DEF Inv, Shaped, History
  <2>2. s \in Scan /\ t \in Scan /\ t.id = s.id
    BY <2>1, Fields, ScannedGood, ScannedShares
  <2> HIDE DEF s, t
  <2> QED
    BY <2>1, <2>2, ScanFields
<1>2. /\ s.id \in 1 .. Len(objects)
      /\ o.true /\ s.true /\ s.gen = gen => Lead(s.events, o.lines) /\ Lead(o.lines, past[Len(past)])
  BY DEF Sharing, SharesCall
<1>3. objects' = [objects EXCEPT ![s.id] = new]
  BY <1>1 DEF Holds
<1>4. t.true => s.true /\ s.gen = gen /\ t.events = past[Len(past)]
  BY ScannedShares
<1>5. o \in Objects /\ o.lines \in Held
  <2>1. o \in Objects
    BY <1>1, <1>2
  <2> QED
    BY <2>1 DEF Objects
<1>6. o.true /\ t.true => Len(o.lines) <= n
  OBVIOUS
<1>7. n <= Len(t.events)
  OBVIOUS
<1> HIDE DEF s, t, o, z, b
<1>8. /\ Len(objects') = Len(objects) /\ objects'[s.id] = new
      /\ \A i \in 1 .. Len(objects) : i # s.id => objects'[i] = objects[i]
  BY <1>1, <1>2, <1>3
<1>9. objects'[s.id].lines = z /\ objects'[s.id].true = b
  BY <1>8
<1>10. ASSUME b
       PROVE  /\ o.true /\ t.true /\ Lead(s.events, z) /\ Lead(z, past[Len(past)]) /\ Lead(o.lines, z)
              /\ z = o.lines \/ Len(z) > Len(o.lines)
  <2>1. o.true /\ t.true
    BY <1>10 DEF b
  <2>2. Lead(s.events, o.lines) /\ Lead(o.lines, t.events) /\ Len(o.lines) <= n
    BY <1>2, <1>4, <1>6, <2>1
  <2>3. n \in 0 .. Len(t.events) /\ Len(o.lines) \in Nat
    <3>1. Len(o.lines) \in Nat /\ Len(t.events) \in Nat
      BY <1>1, <1>5, LeadIff
    <3> QED
      BY <1>7, <2>2, <3>1
  <2>4. z \in Held /\ Len(z) = n /\ Lead(z, t.events) /\ Lead(o.lines, z)
    BY <1>1, <1>5, <2>2, <2>3, LeadCut DEF z
  <2>5. Lead(s.events, z)
    BY <1>1, <1>5, <2>2, <2>4, LeadOn
  <2>6. z = o.lines \/ Len(z) > Len(o.lines)
    <3>1. CASE Len(z) = Len(o.lines)
      BY <1>5, <2>4, <3>1, LeadWhole
    <3> QED
      BY <2>2, <2>3, <2>4, <3>1
  <2> QED
    BY <1>4, <2>1, <2>4, <2>5, <2>6
<1>11. More
  <2>1. Len(objects) \in Nat
    BY <1>1
  <2>2. ASSUME NEW i \in 1 .. Len(objects), objects'[i].true
        PROVE  /\ objects[i].true
               /\ \/ objects'[i].lines = objects[i].lines
                  \/ /\ Len(objects'[i].lines) > Len(objects[i].lines)
                     /\ Lead(objects[i].lines, objects'[i].lines) /\ Lead(objects'[i].lines, past[Len(past)])
    <3>1. CASE i = s.id
      BY <1>9, <1>10, <2>2, <3>1 DEF o
    <3>2. CASE i # s.id
      BY <1>8, <2>2, <3>2
    <3> QED
      BY <3>1, <3>2
  <2> QED
    BY <1>8, <2>1, <2>2 DEF More
<1> QED
  BY <1>2, <1>8, <1>9, <1>10, <1>11 DEF s, t, z

LEMMA ReadOnShares == ASSUME Inv, Inv', Sharing, NEW c \in Thread, ReadOn(c) PROVE Sharing' /\ ReadsStep
<1> DEFINE s == call[c].scan
           t == Scanned(s, call[c].size)
           o == objects[s.id]
<1>1. /\ UNCHANGED <<size, gen, past, cache, parsing, overview, viewing, faults, call, shown>>
      /\ call[c].pc = "read" /\ call[c].size # s.pos
  BY DEF ReadOn, journal, At
<1>2. PICK n \in Len(o.lines) + 1 .. Len(t.events) : Holds(t, n)
  BY DEF ReadOn
<1>3. n \in Int /\ n <= Len(t.events) /\ Len(o.lines) <= n
  <2>1. t.events \in Held /\ o.lines \in Held
    <3>1. objects \in Seq(Objects) /\ s.id \in 1 .. Len(objects) /\ t \in Scan
      BY <1>1, ScannedGood DEF Inv, Shaped, Sharing, SharesCall
    <3>2. o \in Objects
      BY <3>1
    <3> QED
      BY <3>1, <3>2, ScanFields DEF Objects
  <2>2. Len(t.events) \in Nat /\ Len(o.lines) \in Nat
    BY <2>1, LeadIff
  <2> QED
    BY <1>2, <2>2
<1>4. /\ More /\ Len(objects') = Len(objects) /\ s.id \in 1 .. Len(objects)
      /\ \A i \in 1 .. Len(objects) : i # s.id => objects'[i] = objects[i]
      /\ objects'[s.id].true =>
           t.true /\ Lead(s.events, objects'[s.id].lines) /\ Lead(objects'[s.id].lines, past[Len(past)])
  BY <1>1, <1>2, <1>3, HoldsMore
<1> HIDE DEF t, o
<1>5. SharesCall(call[c], objects', gen, past)
  BY <1>1, <1>4 DEF SharesCall
<1>6. \A d \in Thread \ {c} : SharesCall(call[d], objects', gen, past)
  BY <1>1, <1>4, OneReads, OthersShare DEF ParsePC
<1>7. SharesCache'
  <2>1. CASE cache # None /\ cache.scan.id = s.id
    <3>1. ReadsIn(c, cache.scan.id)'
      BY <1>1, <2>1 DEF ReadsIn
    <3> QED
      BY <1>1, <1>4, <2>1, <3>1, CacheShares DEF SharesCache, Sharing
  <2>2. CASE cache # None /\ cache.scan.id # s.id
    <3>1. (\A d \in Thread : ~ReadsIn(d, cache.scan.id)') => \A d \in Thread : ~ReadsIn(d, cache.scan.id)
      BY <1>1 DEF ReadsIn
    <3>2. cache.scan.id \in 1 .. Len(objects) /\ objects'[cache.scan.id] = objects[cache.scan.id]
      BY <1>4, <2>2 DEF Sharing, SharesCache
    <3> QED
      BY <1>1, <1>4, <2>2, <3>1, <3>2, CacheShares DEF SharesCache, Sharing
  <2>3. CASE cache = None
    BY <1>1, <2>3 DEF SharesCache
  <2> QED
    BY <2>1, <2>2, <2>3
<1>8. Sharing'
  BY <1>1, <1>5, <1>6, <1>7 DEF Sharing
<1>9. Grown
  BY <1>4 DEF More, Grown
<1> QED
  BY <1>1, <1>8, <1>9, ServeStep

\* A scan is over: its events are in the cache, and on their way.
LEMMA StoresShares ==
  ASSUME Inv, Inv', Sharing, NEW c \in Thread, call[c].pc = "read", More, NEW s \in Scan, NEW true \in BOOLEAN,
         Stores(c, s, true), s.id \in 1 .. Len(objects'), objects'[s.id].lines = s.events,
         true /\ objects'[s.id].true => Lead(s.events, past[Len(past)])
  PROVE  Sharing' /\ ReadsStep
<1>1. /\ call \in [Thread -> CallState] /\ call[c] \in CallState /\ call' \in [Thread -> CallState]
      /\ UNCHANGED <<gen, past>> /\ Len(past) \in Nat /\ Len(past) >= 1 /\ s.events \in Held
  <2>1. UNCHANGED <<gen, past>> /\ s.events \in Held
    BY ScanFields DEF Stores, journal
  <2>2. call \in [Thread -> CallState] /\ call' \in [Thread -> CallState] /\ past \in Seq(Held) /\ Len(past) >= 1
    BY DEF Inv, Shaped, History
  <2> QED
    BY <2>1, <2>2
<1>2. \A d \in Thread \ {c} : call'[d] = call[d] /\ call[d].pc # "read"
  BY <1>1, OneReads DEF Stores, ParsePC
<1>3. /\ call'[c].pc = "resolve" /\ call'[c].kind = call[c].kind /\ call'[c].since = call[c].since
      /\ call'[c].events = s.events /\ call'[c].true = true /\ call'[c].from = s.id
  <2> DEFINE k == call[c]
             r == [k EXCEPT !.pc = "resolve", !.stamp = 0, !.size = 0, !.scan = NoCall.scan,
                            !.events = s.events, !.true = true, !.from = s.id]
  <2>1. call'[c] = r
    BY <1>1 DEF Stores
  <2> HIDE DEF k
  <2>2. /\ r.pc = "resolve" /\ r.kind = k.kind /\ r.since = k.since
        /\ r.events = s.events /\ r.true = true /\ r.from = s.id
    BY <1>1 DEF CallState, k
  <2> QED
    BY <2>1, <2>2 DEF k
<1>4. cache' = [stamp |-> call[c].stamp, events |-> s.events, true |-> true, scan |-> s]
  BY DEF Stores
<1>5. Lead(s.events, s.events) /\ Len(past) \in 1 .. Len(past)
  BY <1>1, LeadSelf
<1>6. call[c].stamp <= Len(past) /\ call[c].stamp \in Nat /\ call[c].since \in Nat
      /\ (call[c].kind = "page" => call[c].since <= Len(past))
  <2>1. GoodCall(call[c], size, gen, past)
    BY DEF Inv, History
  <2> QED
    BY <1>1, <2>1, Fields DEF GoodCall
<1>7. true /\ objects'[s.id].true =>
        /\ Since(objects'[s.id], call[c].stamp, past)
        /\ call[c].kind = "page" => Since(objects'[s.id], call[c].since, past)
  BY <1>5, <1>6 DEF Since
<1>8. SharesCall(call'[c], objects', gen, past)
  BY <1>3, <1>5, <1>7 DEF SharesCall
<1>9. \A d \in Thread \ {c} : SharesCall(call'[d], objects', gen, past)
  BY <1>1, <1>2, OthersShare
<1>10. SharesCache'
  BY <1>1, <1>4, <1>5, <1>7 DEF SharesCache
<1>11. Sharing'
  BY <1>1, <1>8, <1>9, <1>10 DEF Sharing
<1>12. Grown
  BY DEF More, Grown
<1> QED
  BY <1>1, <1>2, <1>3, <1>11, <1>12, ServeStep

LEMMA ReadShares ==
  ASSUME Inv, Inv', Sharing, NEW c \in Thread, Read(c) \/ ReadError(c)
  PROVE  Sharing' /\ ReadsStep
<1> DEFINE s == call[c].scan
           t == Scanned(s, call[c].size)
           o == objects[s.id]
<1>1. /\ call[c].pc = "read" /\ objects \in Seq(Objects) /\ gen \in Nat /\ size \in Nat
      /\ past[Len(past)] \in Held /\ past[Len(past)] = Lines(gen, 0, size)
  <2>1. call[c].pc = "read"
    BY DEF Read, ReadError, At
  <2>2. past \in Seq(Held) /\ Len(past) >= 1 /\ past[Len(past)] = Lines(gen, 0, size)
        /\ objects \in Seq(Objects) /\ gen \in Nat /\ size \in Nat
    BY DEF Inv, Shaped, History
  <2> QED
    BY <2>1, <2>2
<1>2. /\ t \in Scan /\ t.id = s.id /\ (call[c].size = s.pos => t.events = s.events)
      /\ t.true => s.true /\ s.gen = gen
      /\ t.true /\ call[c].size # s.pos => t.events = past[Len(past)]
  BY <1>1, ScannedGood, ScannedShares
<1>3. /\ s.id \in 1 .. Len(objects)
      /\ call[c].size = s.pos => o.lines = s.events
      /\ o.true /\ s.true /\ s.gen = gen => Lead(s.events, o.lines) /\ Lead(o.lines, past[Len(past)])
  BY <1>1 DEF Sharing, SharesCall
<1>4. CASE Read(c)
  <2>1. Stores(c, t, t.true)
    BY <1>4 DEF Read
  <2>2. t.true \in BOOLEAN /\ t.events \in Held
    BY <1>2, ScanFields
  <2>3. CASE call[c].size = s.pos
    <3>1. objects' = objects
      BY <1>4, <2>3 DEF Read
    <3>2. More
      BY <1>1, <3>1 DEF More
    <3>3. t.id \in 1 .. Len(objects') /\ objects'[t.id].lines = t.events
          /\ (t.true /\ objects'[t.id].true => Lead(t.events, past[Len(past)]))
      BY <1>2, <1>3, <2>3, <3>1
    <3> HIDE DEF s, t, o
    <3> QED
      BY <1>1, <1>2, <2>1, <2>2, <3>2, <3>3, StoresShares
  <2>4. CASE call[c].size # s.pos
    <3>1. Holds(t, Len(t.events))
      BY <1>4, <2>4 DEF Read
    <3>2. Len(t.events) \in Int /\ Len(t.events) <= Len(t.events)
      BY <2>2, LeadIff
    <3>3. t.true /\ o.true => Len(o.lines) <= Len(t.events)
      BY <1>2, <1>3, <2>4 DEF Lead
    <3>4. /\ More /\ Len(objects') = Len(objects)
          /\ objects'[s.id].lines = SubSeq(t.events, 1, Len(t.events))
      BY <1>1, <2>4, <3>1, <3>2, <3>3, HoldsMore
    <3>5. SubSeq(t.events, 1, Len(t.events)) = t.events
      BY <2>2 DEF Held
    <3>6. t.true => Lead(t.events, past[Len(past)])
      BY <1>1, <1>2, <2>4, LeadSelf
    <3>7. t.id \in 1 .. Len(objects') /\ objects'[t.id].lines = t.events
      BY <1>2, <1>3, <3>4, <3>5
    <3> HIDE DEF s, t, o
    <3> QED
      BY <1>1, <1>2, <2>1, <2>2, <3>4, <3>6, <3>7, StoresShares
  <2> QED
    BY <2>3, <2>4
<1>5. CASE ReadError(c)
  <2>1. NoScan \in Scan /\ NoScan.events = << >> /\ NoScan.id = Len(objects) + 1
    BY <1>1, EmptyScan
  <2>2. Stores(c, NoScan, FALSE) /\ objects' = Append(objects, NoObjects)
    BY <1>5, Zenon DEF ReadError
  <2>3. /\ More /\ Len(objects') = Len(objects) + 1 /\ objects'[Len(objects) + 1].lines = << >>
    BY <2>2, NewObjects
  <2>4. NoScan.id \in 1 .. Len(objects') /\ objects'[NoScan.id].lines = NoScan.events
    BY <1>1, <2>1, <2>3
  <2>5. FALSE \in BOOLEAN /\ (FALSE /\ objects'[NoScan.id].true => Lead(NoScan.events, past[Len(past)]))
    OBVIOUS
  <2> QED
    BY <1>1, <2>1, <2>2, <2>3, <2>4, <2>5, StoresShares
<1> QED
  BY <1>4, <1>5

LEMMA WritesShares ==
  ASSUME Inv, Inv', Sharing, AgentAppends \/ Rewritten
  PROVE  Sharing' /\ ReadsStep
<1>1. PICK g \in {gen, gen + 1}, n \in Nat : (g = gen => n >= size) /\ Writes(g, n)
  <2>1. size \in Nat /\ gen \in Nat /\ gen + 1 # gen /\ MaxSize \in Nat
    BY TimelineAssumption DEF Inv, Shaped
  <2>2. CASE AgentAppends
    BY <2>1, <2>2 DEF AgentAppends
  <2>3. CASE Rewritten
    BY <2>1, <2>3 DEF Rewritten
  <2> QED
    BY <2>2, <2>3
<1> DEFINE e == Lines(g, 0, n)
<1>2. /\ gen \in Nat /\ size \in Nat /\ past \in Seq(Held) /\ g \in Nat /\ Len(past) \in Nat /\ Len(past) >= 1
      /\ objects \in Seq(Objects) /\ past[Len(past)] = Lines(gen, 0, size)
      /\ gen' = g /\ size' = n /\ past' = Append(past, e)
      /\ UNCHANGED <<objects, cache, call>>
  BY <1>1 DEF Writes, Inv, Shaped, History
<1>3. e \in Held /\ past[Len(past)] \in Held
  BY <1>2, LinesShape
<1>4. g = gen => Lead(past[Len(past)], e)
  BY <1>1, <1>2, LeadLines
<1> HIDE DEF e
<1>5. /\ Len(past') = Len(past) + 1 /\ past'[Len(past')] = e
      /\ \A v \in 1 .. Len(past) : past'[v] = past[v]
  BY <1>2, PastStays
<1>6. \A o \in Objects, v \in Nat : Since(o, v, past) => Since(o, v, past')
  BY <1>2, <1>5 DEF Since
<1>7. \A i \in 1 .. Len(objects) : objects[i] \in Objects /\ objects[i].lines \in Held
  <2>1. \A i \in 1 .. Len(objects) : objects[i] \in Objects
    BY <1>2
  <2> QED
    BY <2>1 DEF Objects
<1>8. SharesCache'
  <2>1. cache # None => cache.stamp \in Nat /\ cache.scan.id \in 1 .. Len(objects)
    BY DEF Sharing, SharesCache, Inv, Shaped
  <2> QED
    BY <1>2, <1>6, <1>7, <2>1 DEF Sharing, SharesCache, ReadsIn
<1>9. ASSUME NEW c \in Thread PROVE SharesCall(call[c], objects, g, past')
  <2> DEFINE k == call[c]
  <2>1. k \in CallState /\ SharesCall(k, objects, gen, past) /\ GoodCall(k, size, gen, past)
    BY DEF Inv, Shaped, History, Sharing
  <2>2. k.since \in Nat /\ k.scan.gen \in Nat /\ k.scan.gen <= gen
    BY <2>1, Fields, ScanFields DEF GoodCall, GoodScan
  <2> HIDE DEF k
  <2>3. ASSUME k.pc = "read", objects[k.scan.id].true, k.scan.true, k.scan.gen = g
        PROVE  Lead(k.scan.events, objects[k.scan.id].lines) /\ Lead(objects[k.scan.id].lines, e)
    <3>1. g = gen
      BY <1>1, <1>2, <2>2, <2>3
    <3>2. /\ k.scan.id \in 1 .. Len(objects)
          /\ Lead(k.scan.events, objects[k.scan.id].lines) /\ Lead(objects[k.scan.id].lines, past[Len(past)])
      BY <2>1, <2>3, <3>1 DEF SharesCall
    <3>3. Lead(objects[k.scan.id].lines, e)
      BY <1>3, <1>4, <1>7, <3>1, <3>2, LeadOn
    <3> QED
      BY <3>2, <3>3
  <2>4. SharesCall(k, objects, g, past')
    BY <1>5, <1>6, <1>7, <2>1, <2>2, <2>3 DEF SharesCall
  <2> QED
    BY <2>4 DEF k
<1>10. Sharing'
  BY <1>2, <1>8, <1>9 DEF Sharing
<1>11. ReadsStep
  BY <1>2, <1>5 DEF ReadsStep, Reads!ReadsNext, Reads!reads, Reads!Changes, At
<1> QED
  BY <1>10, <1>11

LEMMA SharingStep == Inv /\ Inv' /\ Sharing /\ [TimelineNext]_timeline => Sharing' /\ ReadsStep
<1> SUFFICES ASSUME Inv, Inv', Sharing, [TimelineNext]_timeline PROVE Sharing' /\ ReadsStep
  OBVIOUS
<1>1. CASE AgentAppends \/ Rewritten
  BY <1>1, WritesShares
<1>2. CASE Evict \/ UNCHANGED timeline
  BY <1>2, EvictShares
<1>3. ASSUME NEW c \in Thread, Parse(c) PROVE Sharing' /\ ReadsStep
  BY <1>3, ViewShares, LookShares, BodyShares, ReadOnShares, ReadShares, ResolveShares DEF Parse
<1>4. ASSUME NEW c \in Thread, Build(c) PROVE Sharing' /\ ReadsStep
  BY <1>4, ViewShares, ViewStoreShares DEF Build
<1>5. ASSUME NEW c \in Thread, (\E kind \in Kind : Ask(c, kind)) \/ Answer(c) PROVE Sharing' /\ ReadsStep
  BY <1>5, EdgeShares
<1> QED
  BY <1>1, <1>2, <1>3, <1>4, <1>5 DEF TimelineNext

LEMMA SharingStarts == TimelineInit => Sharing /\ Reads!ReadsInit
<1> SUFFICES ASSUME TimelineInit PROVE Sharing /\ Reads!ReadsInit
  OBVIOUS
<1>1. past = << << >> >> /\ cache = None /\ \A c \in Thread : call[c] = NoCall
  BY DEF TimelineInit
<1>2. NoCall.pc = "idle" /\ NoCall.since = 0
  BY NoCallShape
<1>3. Sharing
  BY <1>1, <1>2, NothingShared DEF Sharing, SharesCache
<1>4. Len(past) = 1
  BY <1>1
<1>5. Reads!ReadsInit
  BY <1>1, <1>2, <1>4 DEF Reads!ReadsInit, At
<1> QED
  BY <1>3, <1>5

\* session/timeline answers with the events of some moment since it was asked,
\* whoever parsed them, and what these hold is of that moment or a later one: the
\* cache, the flight and the scan implement that, though threads read on in the
\* objects of lists that others have on their way.
THEOREM ReadsAreFresh == TimelineSpec => ReadsFresh
<1>1. TimelineInit => Inv /\ Sharing /\ Reads!ReadsInit
  BY InitInv, SharingStarts
<1>2. Inv /\ Sharing /\ [TimelineNext]_timeline => Inv' /\ Sharing' /\ [Reads!ReadsNext]_(Reads!reads)
  BY TimelineStep, SharingStep DEF ReadsStep
<1> QED
  BY <1>1, <1>2, PTL DEF TimelineSpec, ReadsFresh, Reads!ReadsSpec

-----------------------------------------------------------------------------
(* Overviews.                                                              *)

\* An overview that is on its way to the client.
Shows(k) == k.kind = "view" /\ k.pc = "answer" /\ k.true

\* Nobody has an overview of more than n events, with what was shown, the calls and
\* the overview that is kept.
AtMost(n, told, calls, kept) ==
  /\ \A c \in Thread : told[c] <= n /\ (Shows(calls[c]) => Len(calls[c].events) <= n)
  /\ kept # None /\ kept.true => Len(kept.events) <= n

\* What a build comes to is no less than what anybody has.
Ahead(k, p, told, calls, kept) ==
  k.kind = "view" =>
    /\ k.pc \in {"look", "join", "body", "read"} =>
         k.stamp >= 1 /\ AtMost(Len(p[k.stamp]), told, calls, kept)
    /\ k.pc \in {"resolve", "restamp"} /\ k.true =>
         AtMost(Len(k.events), told, calls, kept) /\ Len(k.events) <= Len(p[Len(p)])

Growing ==
  gen = 0 =>
    /\ \A v, w \in 1 .. Len(past) : v <= w => Len(past[v]) <= Len(past[w])
    /\ AtMost(Len(past[Len(past)]), shown, call, overview)
    /\ overview # None /\ overview.true => AtMost(Len(overview.events), shown, call, overview)
    /\ \A c \in Thread : Shows(call[c]) => shown[c] <= Len(call[c].events)
    /\ \A c \in Thread : Ahead(call[c], past, shown, call, overview)

GrowStep == Growing' /\ \A c \in Thread : shown'[c] >= shown[c]

\* A step of one request, which may bring the overview that is kept, and which
\* may have its own overview shown.
LEMMA OneGrows ==
  ASSUME Inv, Growing, NEW c \in Thread, call' \in [Thread -> CallState],
         \A d \in Thread \ {c} : call'[d] = call[d],
         UNCHANGED <<size, gen, past, overview>>,
         Shows(call'[c]) => overview # None /\ overview.true /\ call'[c].events = overview.events,
         \/ shown' = shown
         \/ gen = 0 /\ Shows(call[c]) /\ shown' = [shown EXCEPT ![c] = Len(call[c].events)],
         gen = 0 => Ahead(call'[c], past, shown, call, overview)
  PROVE  GrowStep
<1>1. /\ call \in [Thread -> CallState] /\ shown \in [Thread -> Nat]
      /\ \A d \in Thread : Len(call[d].events) \in Nat /\ Len(call'[d].events) \in Nat
      /\ overview # None => Len(overview.events) \in Nat
  <2>1. /\ call \in [Thread -> CallState] /\ shown \in [Thread -> Nat]
        /\ overview # None => overview.events \in Held
    BY DEF Inv, Shaped
  <2>2. ASSUME NEW d \in Thread PROVE call[d].events \in Held /\ call'[d].events \in Held
    <3>1. call[d] \in CallState /\ call'[d] \in CallState
      BY <2>1
    <3> QED
      BY <3>1, Fields
  <2> QED
    BY <2>1, <2>2 DEF Held
<1>2. \A d \in Thread : shown'[d] \in Nat /\ shown'[d] >= shown[d]
                       /\ (shown'[d] = shown[d] \/ (d = c /\ Shows(call[c]) /\ shown'[d] = Len(call[c].events)))
  BY <1>1 DEF Growing
<1>3. ASSUME NEW n, AtMost(n, shown, call, overview) PROVE AtMost(n, shown', call', overview)
  <2>1. \A d \in Thread : shown'[d] <= n
    BY <1>2, <1>3 DEF AtMost
  <2>2. \A d \in Thread : Shows(call'[d]) => Len(call'[d].events) <= n
    BY <1>3 DEF AtMost
  <2> QED
    BY <1>3, <2>1, <2>2 DEF AtMost
<1>4. CASE gen = 0
  <2>1. /\ AtMost(Len(past[Len(past)]), shown', call', overview)
        /\ overview # None /\ overview.true => AtMost(Len(overview.events), shown', call', overview)
    BY <1>3, <1>4 DEF Growing
  <2>2. \A d \in Thread : Shows(call'[d]) => shown'[d] <= Len(call'[d].events)
    <3> SUFFICES ASSUME NEW d \in Thread, Shows(call'[d]) PROVE shown'[d] <= Len(call'[d].events)
      OBVIOUS
    <3>1. CASE d = c
      <4>1. overview # None /\ overview.true /\ call'[c].events = overview.events
        BY <3>1
      <4>2. AtMost(Len(overview.events), shown', call', overview)
        BY <2>1, <4>1
      <4> QED
        BY <3>1, <4>1, <4>2 DEF AtMost
    <3>2. CASE d # c
      BY <1>2, <1>4, <3>2 DEF Growing
    <3> QED
      BY <3>1, <3>2
  <2>3. \A d \in Thread : Ahead(call'[d], past, shown', call', overview)
    <3> SUFFICES ASSUME NEW d \in Thread PROVE Ahead(call'[d], past, shown', call', overview)
      OBVIOUS
    <3>1. Ahead(call'[d], past, shown, call, overview)
      BY <1>4 DEF Growing
    <3> QED
      BY <1>3, <3>1 DEF Ahead
  <2> QED
    BY <1>2, <1>4, <2>1, <2>2, <2>3 DEF GrowStep, Growing
<1> QED
  BY <1>2, <1>4 DEF GrowStep, Growing

\* The parts of a step of one request that are the same for all of them.
LEMMA Others ==
  ASSUME Inv, Inv', NEW c \in Thread
  PROVE  /\ call \in [Thread -> CallState] /\ call' \in [Thread -> CallState] /\ call[c] \in CallState
         /\ Len(past) \in Nat /\ Len(past) >= 1 /\ past \in Seq(Held)
         /\ GoodCall(call[c], size, gen, past)
         /\ \A r : call' = [call EXCEPT ![c] = r] => call'[c] = r /\ \A d \in Thread \ {c} : call'[d] = call[d]
<1>1. call \in [Thread -> CallState] /\ call' \in [Thread -> CallState]
  BY DEF Inv, Shaped
<1>2. past \in Seq(Held) /\ Len(past) >= 1
  BY DEF Inv, Shaped, History
<1>3. Len(past) \in Nat
  BY <1>2
<1>4. GoodCall(call[c], size, gen, past)
  BY DEF Inv, History
<1>5. \A r : call' = [call EXCEPT ![c] = r] => call'[c] = r /\ \A d \in Thread \ {c} : call'[d] = call[d]
  BY <1>1
<1> QED
  BY <1>1, <1>2, <1>3, <1>4, <1>5

\* Events from the past after a stamp are no less than what there was at the stamp.
LEMMA LaterIsMore ==
  ASSUME Inv, Growing, gen = 0, NEW e, NEW v \in 1 .. Len(past), FromPast(e, v, past),
         AtMost(Len(past[v]), shown, call, overview)
  PROVE  AtMost(Len(e), shown, call, overview) /\ Len(e) <= Len(past[Len(past)])
<1>1. PICK w \in 1 .. Len(past) : w >= v /\ e = past[w]
  BY DEF FromPast
<1>2. Len(past[v]) <= Len(past[w]) /\ Len(past[w]) <= Len(past[Len(past)])
  BY <1>1 DEF Growing, Inv, Shaped
<1>3. /\ \A x \in 1 .. Len(past) : Len(past[x]) \in Nat
      /\ \A d \in Thread : shown[d] \in Nat /\ Len(call[d].events) \in Nat
      /\ overview # None => Len(overview.events) \in Nat
  <2>1. /\ call \in [Thread -> CallState] /\ shown \in [Thread -> Nat] /\ past \in Seq(Held)
        /\ overview # None => overview.events \in Held
    BY DEF Inv, Shaped
  <2>2. ASSUME NEW d \in Thread PROVE call[d].events \in Held
    <3>1. call[d] \in CallState
      BY <2>1
    <3> QED
      BY <3>1, Fields
  <2> QED
    BY <2>1, <2>2 DEF Held
<1> QED
  BY <1>1, <1>2, <1>3 DEF AtMost

\* Steps after which the request is neither a build past its stamp nor shown.
LEMMA QuietGrows ==
  ASSUME Inv, Inv', Growing, NEW c \in Thread,
         \/ \E kind \in Kind : Ask(c, kind)
         \/ ViewStamp(c) \/ ViewJoin(c)
  PROVE  GrowStep
<1>1. PICK r : call' = [call EXCEPT ![c] = r]
  BY DEF Ask, ViewStamp, ViewJoin, Goto
<1>2. /\ call \in [Thread -> CallState] /\ call[c] \in CallState /\ call' \in [Thread -> CallState]
      /\ \A d \in Thread \ {c} : call'[d] = call[d]
  BY <1>1, Others
<1>3. NoCall \in CallState
  BY NoCallShape DEF Inv, Shaped
<1>4. call'[c].kind = "page" \/ call'[c].pc \in {"viewlook", "stamp", "viewwait"}
  <2>1. CASE ViewStamp(c)
    BY <1>2, <2>1 DEF ViewStamp, CallState
  <2>2. CASE ViewJoin(c)
    BY <1>2, <2>2 DEF ViewJoin, Goto, CallState
  <2>3. ASSUME NEW kind \in Kind, Ask(c, kind) PROVE call'[c].kind = "page" \/ call'[c].pc = "viewlook"
    <3>1. CASE kind = "page"
      <4>1. call'[c] = [NoCall EXCEPT !.pc = "look", !.kind = kind, !.since = Stamp, !.stamp = Stamp]
        BY <1>2, <2>3, <3>1 DEF Ask
      <4> QED
        BY <1>3, <3>1, <4>1 DEF CallState
    <3>2. CASE kind # "page"
      <4>1. call'[c] = [NoCall EXCEPT !.pc = "viewlook", !.kind = kind, !.view = Stamp]
        BY <1>2, <2>3, <3>2 DEF Ask
      <4> QED
        BY <1>3, <4>1 DEF CallState
    <3> QED
      BY <3>1, <3>2
  <2> QED
    BY <2>1, <2>2, <2>3
<1>5. ~Shows(call'[c]) /\ Ahead(call'[c], past, shown, call, overview)
  BY <1>4 DEF Shows, Ahead
<1>6. UNCHANGED <<size, gen, past, overview, shown>>
  BY DEF Ask, ViewStamp, ViewJoin, journal
<1> QED
  BY <1>2, <1>5, <1>6, OneGrows

LEMMA ViewLookGrows == ASSUME Inv, Inv', Growing, NEW c \in Thread, ViewLook(c) PROVE GrowStep
<1>1. PICK r : call' = [call EXCEPT ![c] = r]
  BY DEF ViewLook
<1>2. /\ call \in [Thread -> CallState] /\ call[c] \in CallState /\ call' \in [Thread -> CallState]
      /\ \A d \in Thread \ {c} : call'[d] = call[d]
  BY <1>1, Others
<1>3. \/ overview # None /\ call'[c].pc = "answer" /\ call'[c].events = overview.events
         /\ call'[c].true = overview.true
      \/ call'[c].pc = "viewjoin"
  BY <1>2 DEF ViewLook, CallState
<1>4. /\ Shows(call'[c]) => overview # None /\ overview.true /\ call'[c].events = overview.events
      /\ Ahead(call'[c], past, shown, call, overview)
  BY <1>3 DEF Shows, Ahead
<1>5. UNCHANGED <<size, gen, past, overview, shown>>
  BY DEF ViewLook, journal
<1> QED
  BY <1>2, <1>4, <1>5, OneGrows

LEMMA ParseStampGrows == ASSUME Inv, Inv', Growing, NEW c \in Thread, ParseStamp(c) PROVE GrowStep
<1>1. PICK r : call' = [call EXCEPT ![c] = r]
  BY DEF ParseStamp
<1>2. /\ call \in [Thread -> CallState] /\ call[c] \in CallState /\ call' \in [Thread -> CallState]
      /\ \A d \in Thread \ {c} : call'[d] = call[d]
  BY <1>1, Others
<1>3. call'[c].pc = "look" /\ call'[c].stamp = Stamp
  BY <1>2 DEF ParseStamp, CallState
<1>4. ~Shows(call'[c]) /\ (gen = 0 => Ahead(call'[c], past, shown, call, overview))
  BY <1>3, StampNow DEF Shows, Ahead, Growing
<1>5. UNCHANGED <<size, gen, past, overview, shown>>
  BY DEF ParseStamp, journal
<1> QED
  BY <1>2, <1>4, <1>5, OneGrows

\* A parse that finds its answer in the cache, or has read it.
LEMMA FoundGrows ==
  ASSUME Inv, Inv', Growing, NEW c \in Thread, call[c].pc \in {"look", "body", "read"},
         \A d \in Thread \ {c} : call'[d] = call[d], UNCHANGED <<size, gen, past, overview, shown>>,
         call'[c].pc \in {"resolve", "restamp", "answer"}, call'[c].pc = "answer" => call[c].kind = "page",
         call'[c].kind = call[c].kind,
         call'[c].true => FromPast(call'[c].events, call[c].stamp, past)
  PROVE  GrowStep
<1>1. call \in [Thread -> CallState] /\ call[c] \in CallState /\ call' \in [Thread -> CallState]
      /\ Len(past) \in Nat /\ GoodCall(call[c], size, gen, past) /\ call[c].stamp \in Nat
  BY Others, Fields
<1>2. ~Shows(call'[c])
  BY DEF Shows
<1>3. ASSUME gen = 0 PROVE Ahead(call'[c], past, shown, call, overview)
  <2> SUFFICES ASSUME call[c].kind = "view", call'[c].true
               PROVE  /\ AtMost(Len(call'[c].events), shown, call, overview)
                      /\ Len(call'[c].events) <= Len(past[Len(past)])
    BY DEF Ahead
  <2>1. call[c].stamp >= 1 /\ AtMost(Len(past[call[c].stamp]), shown, call, overview)
    BY <1>3 DEF Growing, Ahead
  <2>2. call[c].stamp \in 1 .. Len(past)
    BY <1>1, <2>1 DEF GoodCall
  <2> QED
    BY <1>3, <2>1, <2>2, LaterIsMore
<1> QED
  BY <1>1, <1>2, <1>3, OneGrows

\* A parse that has not found it yet.
LEMMA SeeksGrows ==
  ASSUME Inv, Inv', Growing, NEW c \in Thread, call[c].pc \in {"look", "join", "body"},
         \A d \in Thread \ {c} : call'[d] = call[d], UNCHANGED <<size, gen, past, overview, shown>>,
         call'[c].pc = "wait" \/ (call'[c].pc \in {"join", "body", "read"} /\ call'[c].stamp = call[c].stamp),
         call'[c].kind = call[c].kind
  PROVE  GrowStep
<1>1. call' \in [Thread -> CallState]
  BY Others
<1>2. ~Shows(call'[c]) /\ (gen = 0 => Ahead(call'[c], past, shown, call, overview))
  BY DEF Shows, Growing, Ahead
<1> QED
  BY <1>1, <1>2, OneGrows

\* What the cache has under the stamp of a parse.
LEMMA HitIsPast ==
  ASSUME Inv, NEW c \in Thread, Hit(c)
  PROVE  cache.true => FromPast(cache.events, call[c].stamp, past)
BY DEF Inv, History, GoodCache, Hit

LEMMA ParseGrows ==
  ASSUME Inv, Inv', Growing, NEW c \in Thread, Look(c) \/ Join(c) \/ Body(c) \/ Read(c) \/ ReadError(c)
  PROVE  GrowStep
<1>1. PICK r : call' = [call EXCEPT ![c] = r]
  <2>1. CASE Look(c) \/ Join(c)
    BY <2>1 DEF Look, Join, Takes, Goto
  <2>2. CASE Body(c)
    BY <2>2 DEF Body, Begins, Takes
  <2>3. CASE Read(c) \/ ReadError(c)
    BY <2>3 DEF Read, ReadError, Stores
  <2> QED
    BY <2>1, <2>2, <2>3
<1>2. /\ call \in [Thread -> CallState] /\ call[c] \in CallState /\ call' \in [Thread -> CallState]
      /\ \A d \in Thread \ {c} : call'[d] = call[d]
  BY <1>1, Others
<1>3. UNCHANGED <<size, gen, past, overview, shown>>
  BY DEF Look, Join, Body, Read, ReadError, Stores, journal
<1>4. CASE Look(c)
  <2>1. call[c].pc = "look"
    BY <1>4 DEF Look, At
  <2>2. CASE Hit(c)
    <3>1. /\ call'[c].pc = Parsed(c) /\ call'[c].kind = call[c].kind /\ call'[c].events = cache.events
          /\ call'[c].true = cache.true
      BY <1>2, <1>4, <2>2 DEF Look, Takes, CallState
    <3> QED
      BY <1>2, <1>3, <2>1, <2>2, <3>1, HitIsPast, FoundGrows, Fields DEF Parsed, Kind
  <2>3. CASE ~Hit(c)
    <3>1. call'[c].pc = "join" /\ call'[c].kind = call[c].kind /\ call'[c].stamp = call[c].stamp
      BY <1>2, <1>4, <2>3 DEF Look, Goto, CallState
    <3> QED
      BY <1>2, <1>3, <2>1, <3>1, SeeksGrows
  <2> QED
    BY <2>2, <2>3
<1>5. CASE Join(c)
  <2>1. /\ call[c].pc = "join" /\ call'[c].kind = call[c].kind
        /\ call'[c].pc = "wait" \/ (call'[c].pc = "body" /\ call'[c].stamp = call[c].stamp)
    BY <1>2, <1>5 DEF Join, At, Goto, CallState
  <2> QED
    BY <1>2, <1>3, <2>1, SeeksGrows
<1>6. CASE Body(c)
  <2>1. call[c].pc = "body"
    BY <1>6 DEF Body, At
  <2>2. CASE Hit(c)
    <3>1. /\ call'[c].pc = "resolve" /\ call'[c].kind = call[c].kind /\ call'[c].events = cache.events
          /\ call'[c].true = cache.true
      BY <1>2, <1>6, <2>2 DEF Body, Takes, CallState
    <3> QED
      BY <1>2, <1>3, <2>1, <2>2, <3>1, HitIsPast, FoundGrows
  <2>3. CASE ~Hit(c)
    <3>1. call'[c].pc = "read" /\ call'[c].kind = call[c].kind /\ call'[c].stamp = call[c].stamp
      BY <1>2, <1>6, <2>3 DEF Body, Begins, CallState
    <3> QED
      BY <1>2, <1>3, <2>1, <3>1, SeeksGrows
  <2> QED
    BY <2>2, <2>3
<1>7. CASE Read(c) \/ ReadError(c)
  <2>1. call[c].pc = "read"
    BY <1>7 DEF Read, ReadError, At
  <2> DEFINE s == Scanned(call[c].scan, call[c].size)
  <2>2. PICK t, b : Stores(c, t, b) /\ ((t = s /\ b = s.true) \/ b = FALSE)
    BY <1>7 DEF Read, ReadError
  <2>3. s.true => FromPast(s.events, call[c].stamp, past)
    BY <2>1, ScannedGood
  <2> HIDE DEF s
  <2>4. /\ call'[c].pc = "resolve" /\ call'[c].kind = call[c].kind /\ call'[c].events = t.events
        /\ call'[c].true = b
    <3> DEFINE k == call[c]
               q == [k EXCEPT !.pc = "resolve", !.stamp = 0, !.size = 0, !.scan = NoCall.scan,
                              !.events = t.events, !.true = b, !.from = t.id]
    <3>1. call'[c] = q /\ k \in CallState
      BY <1>2, <2>2 DEF Stores
    <3> HIDE DEF k
    <3>2. q.pc = "resolve" /\ q.kind = k.kind /\ q.events = t.events /\ q.true = b
      BY <3>1 DEF CallState
    <3> QED
      BY <3>1, <3>2 DEF k
  <2>5. call'[c].true => FromPast(call'[c].events, call[c].stamp, past)
    BY <2>2, <2>3, <2>4
  <2> QED
    BY <1>2, <1>3, <2>1, <2>4, <2>5, FoundGrows
<1> QED
  BY <1>4, <1>5, <1>6, <1>7

LEMMA AnswerGrows == ASSUME Inv, Inv', Growing, NEW c \in Thread, Answer(c) PROVE GrowStep
<1>1. call' = [call EXCEPT ![c] = NoCall]
  BY DEF Answer
<1>2. /\ call \in [Thread -> CallState] /\ call' \in [Thread -> CallState]
      /\ \A d \in Thread \ {c} : call'[d] = call[d] /\ call'[c] = NoCall
  BY <1>1, Others
<1>3. call'[c].kind = "page" /\ call'[c].pc = "idle"
  BY <1>1, <1>2, NoCallShape DEF Inv, Shaped
<1>4. ~Shows(call'[c]) /\ Ahead(call'[c], past, shown, call, overview)
  BY <1>3 DEF Shows, Ahead
<1>5. \/ shown' = shown
      \/ gen = 0 /\ Shows(call[c]) /\ shown' = [shown EXCEPT ![c] = Len(call[c].events)]
  BY DEF Answer, At, Shows
<1>6. UNCHANGED <<size, gen, past, overview>>
  BY DEF Answer, journal
<1> QED
  BY <1>2, <1>4, <1>5, <1>6, OneGrows

\* The end of a parse changes nothing that anybody has.
LEMMA ResolveGrows == ASSUME Inv, Inv', Growing, NEW c \in Thread, Resolve(c) PROVE GrowStep
<1>1. /\ call \in [Thread -> CallState] /\ call' \in [Thread -> CallState] /\ shown \in [Thread -> Nat]
      /\ UNCHANGED <<size, gen, past, overview, shown>> /\ call[c].pc = "resolve"
      /\ call[c].kind \in {"page", "view"}
  BY Fields DEF Resolve, At, Inv, Shaped, journal, Kind
<1>2. call' = [d \in Thread |-> IF d = c THEN [call[c] EXCEPT !.pc = Parsed(c)]
                               ELSE IF At(d, "wait") THEN [call[d] EXCEPT !.pc = "stamp"] ELSE call[d]]
  BY DEF Resolve
<1>3. ASSUME NEW d \in Thread
      PROVE  /\ call'[d] = call[d]
                \/ /\ call'[d].kind = call[d].kind /\ ~Shows(call'[d]) /\ ~Shows(call[d])
                   /\ \/ call'[d].pc = "stamp"
                      \/ call'[d].kind = "page"
                      \/ /\ call[d].pc = "resolve" /\ call'[d].pc = "restamp"
                         /\ call'[d].true = call[d].true /\ call'[d].events = call[d].events
  <2>1. CASE d = c
    <3>1. call'[c] = [call[c] EXCEPT !.pc = Parsed(c)]
      BY <1>2
    <3>2. /\ call'[c].kind = call[c].kind /\ call'[c].pc = Parsed(c)
          /\ call'[c].true = call[c].true /\ call'[c].events = call[c].events
      BY <1>1, <3>1 DEF CallState
    <3> QED
      BY <1>1, <2>1, <3>2 DEF Shows, Parsed
  <2>2. CASE d # c /\ At(d, "wait")
    <3>1. call'[d] = [call[d] EXCEPT !.pc = "stamp"]
      BY <1>2, <2>2
    <3>2. call'[d].kind = call[d].kind /\ call'[d].pc = "stamp"
      BY <1>1, <3>1 DEF CallState
    <3> QED
      BY <2>2, <3>2 DEF Shows, At
  <2>3. CASE d # c /\ ~At(d, "wait")
    BY <1>2, <2>3
  <2> QED
    BY <2>1, <2>2, <2>3
<1>4. ASSUME NEW n, AtMost(n, shown, call, overview) PROVE AtMost(n, shown, call', overview)
  BY <1>3, <1>4 DEF AtMost
<1>5. ASSUME gen = 0, NEW d \in Thread PROVE Ahead(call'[d], past, shown, call', overview)
  <2>1. Ahead(call[d], past, shown, call, overview)
    BY <1>5 DEF Growing
  <2>2. Ahead(call[d], past, shown, call', overview)
    BY <1>4, <2>1 DEF Ahead
  <2> QED
    BY <1>3, <2>2 DEF Ahead
<1>6. ASSUME gen = 0, NEW d \in Thread, Shows(call'[d]) PROVE shown[d] <= Len(call'[d].events)
  BY <1>3, <1>6 DEF Growing
<1>7. Growing'
  <2> SUFFICES ASSUME gen = 0
               PROVE  /\ AtMost(Len(past[Len(past)]), shown, call', overview)
                      /\ overview # None /\ overview.true => AtMost(Len(overview.events), shown, call', overview)
    BY <1>1, <1>5, <1>6 DEF Growing
  <2> QED
    BY <1>4 DEF Growing
<1> QED
  BY <1>1, <1>7 DEF GrowStep

\* The end of a build: nobody has more, and no other build is under way.
LEMMA ViewStoreGrows == ASSUME Inv, Inv', Growing, NEW c \in Thread, ViewStore(c) PROVE GrowStep
<1> DEFINE k == call[c]
           n == Len(k.events)
<1>1. /\ call \in [Thread -> CallState] /\ call' \in [Thread -> CallState] /\ shown \in [Thread -> Nat]
      /\ UNCHANGED <<size, gen, past, shown>> /\ k.pc = "restamp" /\ k.kind = "view" /\ viewing = c
      /\ overview'.events = k.events /\ overview'.true = k.true /\ n \in Nat
  BY Fields DEF ViewStore, At, Inv, Shaped, journal, Flights, BuildPC, Held
<1>2. call' = [d \in Thread |-> IF d = c THEN [k EXCEPT !.pc = "answer"]
                               ELSE IF At(d, "viewwait") THEN [call[d] EXCEPT !.pc = "view"] ELSE call[d]]
  BY DEF ViewStore
<1>3. /\ call'[c].pc = "answer" /\ call'[c].true = k.true /\ call'[c].events = k.events
      /\ Shows(call'[c]) <=> k.true
  BY <1>1, <1>2 DEF CallState, Shows
<1>4. ASSUME NEW d \in Thread \ {c}
      PROVE  \/ call'[d] = call[d] /\ ~(call[d].kind = "view" /\ call[d].pc \in BuildPC)
             \/ call'[d].pc = "view"
  <2>1. CASE At(d, "viewwait")
    <3>1. call'[d] = [call[d] EXCEPT !.pc = "view"]
      BY <1>2, <2>1
    <3> QED
      BY <1>1, <3>1 DEF CallState
  <2>2. CASE ~At(d, "viewwait")
    BY <1>1, <1>2, <2>2 DEF Inv, Flights
  <2> QED
    BY <2>1, <2>2
<1> HIDE DEF k, n
<1>5. \A d \in Thread : Ahead(call'[d], past, shown, call', overview')
  BY <1>3, <1>4 DEF Ahead, BuildPC, ParsePC
<1>6. ASSUME gen = 0, k.true PROVE AtMost(n, shown, call, overview) /\ n <= Len(past[Len(past)])
  BY <1>1, <1>6 DEF Growing, Ahead, k, n
<1>7. ASSUME NEW m \in Nat, AtMost(m, shown, call, overview), k.true => n <= m
      PROVE  AtMost(m, shown, call', overview')
  <2>1. \A d \in Thread : Shows(call'[d]) => Len(call'[d].events) <= m
    <3> SUFFICES ASSUME NEW d \in Thread, Shows(call'[d]) PROVE Len(call'[d].events) <= m
      OBVIOUS
    <3>1. CASE d = c
      BY <1>3, <1>7, <3>1 DEF n
    <3>2. CASE d # c
      BY <1>4, <1>7, <3>2 DEF AtMost, Shows
    <3> QED
      BY <3>1, <3>2
  <2> QED
    BY <1>1, <1>7, <2>1 DEF AtMost, n
<1>8. ASSUME gen = 0, NEW d \in Thread, Shows(call'[d]) PROVE shown[d] <= Len(call'[d].events)
  <2>1. CASE d = c
    BY <1>3, <1>6, <1>8, <2>1 DEF AtMost, n
  <2>2. CASE d # c
    BY <1>4, <1>8, <2>2 DEF Growing, Shows
  <2> QED
    BY <2>1, <2>2
<1>9. Growing'
  <2> SUFFICES ASSUME gen = 0
               PROVE  /\ AtMost(Len(past[Len(past)]), shown, call', overview')
                      /\ overview' # None /\ overview'.true => AtMost(Len(overview'.events), shown, call', overview')
    BY <1>1, <1>5, <1>8 DEF Growing
  <2>1. Len(past[Len(past)]) \in Nat
    BY DEF Inv, Shaped, History, Held
  <2>2. AtMost(Len(past[Len(past)]), shown, call', overview')
    BY <1>6, <1>7, <2>1 DEF Growing
  <2>3. overview'.true => AtMost(Len(overview'.events), shown, call', overview')
    BY <1>1, <1>6, <1>7 DEF n
  <2> QED
    BY <2>2, <2>3
<1> QED
  BY <1>1, <1>9 DEF GrowStep

LEMMA WritesGrows ==
  ASSUME Inv, Inv', Growing, NEW g \in {gen, gen + 1}, NEW n \in Nat, g = gen => n >= size, Writes(g, n)
  PROVE  GrowStep
<1>1. /\ gen \in Nat /\ size \in Nat /\ past \in Seq(Held) /\ Len(past) \in Nat /\ Len(past) >= 1
      /\ past[Len(past)] = Lines(gen, 0, size) /\ past' = Append(past, Lines(g, 0, n)) /\ gen' = g
      /\ UNCHANGED <<overview, call, shown>> /\ call \in [Thread -> CallState] /\ shown \in [Thread -> Nat]
  BY DEF Writes, Inv, Shaped, History
<1>2. CASE gen' = 0
  <2>1. gen = 0 /\ g = 0 /\ n >= size
    BY <1>1, <1>2
  <2>2. /\ Len(past') = Len(past) + 1 /\ past'[Len(past')] = Lines(0, 0, n)
        /\ \A v \in 1 .. Len(past) : past'[v] = past[v]
    BY <1>1, <2>1
  <2>3. Len(Lines(0, 0, size)) = size \div 2 /\ Len(Lines(0, 0, n)) = n \div 2
        /\ size \div 2 \in Nat /\ n \div 2 \in Nat /\ size \div 2 <= n \div 2
    <3>1. /\ Lines(0, 0, size) = [i \in 1 .. size \div 2 |-> <<0, i>>]
          /\ Lines(0, 0, n) = [i \in 1 .. n \div 2 |-> <<0, i>>]
      BY <1>1, LinesFromStart
    <3>2. size \div 2 \in Nat /\ n \div 2 \in Nat /\ size \div 2 <= n \div 2
      BY <1>1, <2>1, Halves
    <3> QED
      BY <3>1, <3>2
  <2>4. Len(past[Len(past)]) <= Len(past'[Len(past')])
    BY <1>1, <2>1, <2>2, <2>3
  <2>5. \A v \in 1 .. Len(past) : Len(past[v]) \in Nat /\ Len(past[v]) <= Len(past[Len(past)])
    <3>1. \A e \in Held : Len(e) \in Nat
      BY DEF Held
    <3>2. \A v \in 1 .. Len(past) : past[v] \in Held /\ v <= Len(past) /\ Len(past) \in 1 .. Len(past)
      BY <1>1
    <3> QED
      BY <2>1, <3>1, <3>2 DEF Growing
  <2>6. \A v, w \in 1 .. Len(past') : v <= w => Len(past'[v]) <= Len(past'[w])
    <3> SUFFICES ASSUME NEW v \in 1 .. Len(past'), NEW w \in 1 .. Len(past'), v <= w
                 PROVE  Len(past'[v]) <= Len(past'[w])
      OBVIOUS
    <3>1. CASE w \in 1 .. Len(past)
      BY <1>1, <2>1, <2>2, <3>1 DEF Growing
    <3>2. CASE w = Len(past') /\ v = Len(past')
      BY <1>1, <2>2, <2>3, <3>2
    <3>3. CASE w = Len(past') /\ v \in 1 .. Len(past)
      BY <1>1, <2>2, <2>3, <2>4, <2>5, <3>3
    <3> QED
      BY <1>1, <2>2, <3>1, <3>2, <3>3
  <2>7. ASSUME NEW y \in Nat, NEW z \in Nat, y <= z, AtMost(y, shown, call, overview)
        PROVE  AtMost(z, shown, call, overview)
    <3>1. \A d \in Thread : shown[d] \in Nat /\ Len(call[d].events) \in Nat
      BY <1>1, Fields DEF Held
    <3>2. overview # None => Len(overview.events) \in Nat
      BY DEF Inv, Shaped, Held
    <3> QED
      BY <2>7, <3>1, <3>2 DEF AtMost
  <2>8. Len(past'[Len(past')]) \in Nat /\ Len(past[Len(past)]) \in Nat
    BY <1>1, <2>2, <2>3, <2>5
  <2>9. AtMost(Len(past'[Len(past')]), shown, call, overview)
    BY <2>1, <2>4, <2>7, <2>8 DEF Growing
  <2>10. ASSUME NEW d \in Thread PROVE Ahead(call[d], past', shown, call, overview)
    <3>1. Ahead(call[d], past, shown, call, overview) /\ GoodCall(call[d], size, gen, past)
          /\ call[d].stamp \in Nat /\ Len(call[d].events) \in Nat
      BY <1>1, <2>1, Fields DEF Growing, Inv, History, Held
    <3>2. call[d].stamp >= 1 => past'[call[d].stamp] = past[call[d].stamp]
      BY <1>1, <2>2, <3>1 DEF GoodCall
    <3>3. Len(call[d].events) <= Len(past[Len(past)]) => Len(call[d].events) <= Len(past'[Len(past')])
      BY <2>4, <2>8, <3>1
    <3> QED
      BY <3>1, <3>2, <3>3 DEF Ahead
  <2> QED
    BY <1>1, <2>1, <2>6, <2>9, <2>10 DEF GrowStep, Growing
<1>3. CASE gen' # 0
  BY <1>1, <1>3 DEF GrowStep, Growing
<1> QED
  BY <1>2, <1>3

LEMMA JournalGrows == ASSUME Inv, Inv', Growing, AgentAppends \/ Rewritten PROVE GrowStep
<1>1. size \in Nat /\ gen \in Nat /\ gen + 1 # gen /\ MaxSize \in Nat
  BY TimelineAssumption DEF Inv, Shaped
<1>2. CASE AgentAppends
  BY <1>1, <1>2, WritesGrows DEF AgentAppends
<1>3. CASE Rewritten
  BY <1>1, <1>3, WritesGrows DEF Rewritten
<1> QED
  BY <1>2, <1>3

LEMMA EvictGrows == ASSUME Inv, Inv', Growing, Evict \/ UNCHANGED timeline PROVE GrowStep
<1>1. UNCHANGED <<gen, past, call, shown>> /\ overview' \in {overview, None} /\ shown \in [Thread -> Nat]
  BY DEF Evict, timeline, journal, Inv, Shaped
<1>2. ASSUME NEW n, AtMost(n, shown, call, overview) PROVE AtMost(n, shown, call, overview')
  BY <1>1, <1>2 DEF AtMost
<1>3. ASSUME gen = 0, NEW d \in Thread PROVE Ahead(call[d], past, shown, call, overview')
  <2>1. Ahead(call[d], past, shown, call, overview)
    BY <1>3 DEF Growing
  <2> QED
    BY <1>2, <2>1 DEF Ahead
<1> QED
  BY <1>1, <1>2, <1>3 DEF GrowStep, Growing

LEMMA GrowsStep == Inv /\ Growing /\ [TimelineNext]_timeline /\ Inv' => GrowStep
<1> SUFFICES ASSUME Inv, Growing, [TimelineNext]_timeline, Inv' PROVE GrowStep
  OBVIOUS
<1>1. CASE AgentAppends \/ Rewritten
  BY <1>1, JournalGrows
<1>2. CASE Evict \/ UNCHANGED timeline
  BY <1>2, EvictGrows
<1>4. ASSUME NEW c \in Thread, ReadOn(c) PROVE GrowStep
  BY <1>4 DEF ReadOn, journal, GrowStep, Growing, Inv, Shaped
<1>3. ASSUME NEW c \in Thread, (\E kind \in Kind : Ask(c, kind)) \/ Parse(c) \/ Build(c) \/ Answer(c)
      PROVE  GrowStep
  BY <1>3, <1>4, QuietGrows, ViewLookGrows, ParseStampGrows, ParseGrows, ResolveGrows, ViewStoreGrows, AnswerGrows
     DEF Parse, Build
<1> QED
  BY <1>1, <1>2, <1>3 DEF TimelineNext

\* The overviews that a client gets never lose events while the journal only grows:
\* a build takes its stamp after everything that anybody has been given.
THEOREM OverviewsOnlyGrow == TimelineSpec => OverviewsGrow
<1>1. TimelineInit => Growing
  <2> SUFFICES ASSUME TimelineInit PROVE Growing
    OBVIOUS
  <2>1. /\ past = << << >> >> /\ overview = None /\ \A c \in Thread : shown[c] = 0 /\ call[c] = NoCall
    BY DEF TimelineInit
  <2>2. NoCall.pc = "idle" /\ NoCall.kind = "page"
    BY NoCallShape DEF TimelineInit
  <2> QED
    BY <2>1, <2>2 DEF Growing, AtMost, Ahead, Shows
<1>2. Inv /\ Growing /\ [TimelineNext]_timeline /\ Inv' => Growing'
  BY GrowsStep DEF GrowStep
<1>3. Inv /\ Growing /\ [TimelineNext]_timeline /\ Inv' =>
        [\A c \in Thread : shown'[c] >= shown[c]]_timeline
  BY GrowsStep DEF GrowStep
<1> QED
  BY <1>1, <1>2, <1>3, InvKept, PTL DEF TimelineSpec, OverviewsGrow

-----------------------------------------------------------------------------
(* Nobody waits for nobody.                                                *)

\* Whoever waits for a flight waits for one that there is.
FlightsThere ==
  \A c \in Thread : /\ At(c, "wait") => parsing # None
                    /\ At(c, "viewwait") => viewing # None

\* A request that is under way has a thread at work: one that does not wait.
SomebodyWorks ==
  (\E c \in Thread : ~At(c, "idle")) =>
    \E d \in Thread : call[d].pc \notin {"idle", "wait", "viewwait"}

\* A step of one thread, that waits afterwards only for a flight that there is.
LEMMA OneWaits ==
  ASSUME Shaped, FlightsThere, NEW c \in Thread, NEW r, call' = [call EXCEPT ![c] = r],
         parsing # None => parsing' # None, viewing # None => viewing' # None,
         r.pc = "wait" => parsing # None, r.pc = "viewwait" => viewing # None
  PROVE  FlightsThere'
<1>1. call'[c] = r /\ \A d \in Thread \ {c} : call'[d] = call[d]
  BY DEF Shaped
<1> SUFFICES ASSUME NEW d \in Thread
             PROVE  /\ call'[d].pc = "wait" => parsing' # None
                    /\ call'[d].pc = "viewwait" => viewing' # None
  BY DEF FlightsThere, At
<1>2. CASE d = c
  BY <1>1, <1>2
<1>3. CASE d # c
  BY <1>1, <1>3 DEF FlightsThere, At
<1> QED
  BY <1>2, <1>3

\* A thread goes to another place.
LEMMA OnePlace ==
  ASSUME Shaped, FlightsThere, NEW c \in Thread, NEW x, Goto(c, x),
         parsing # None => parsing' # None, viewing # None => viewing' # None,
         x = "wait" => parsing # None, x = "viewwait" => viewing # None
  PROVE  FlightsThere'
<1> DEFINE r == [call[c] EXCEPT !.pc = x]
<1>1. call' = [call EXCEPT ![c] = r] /\ call[c] \in CallState
  BY DEF Goto, Shaped
<1>2. r.pc = x
  BY <1>1 DEF CallState
<1> HIDE DEF r
<1> QED
  BY <1>1, <1>2, OneWaits

LEMMA JoinWaits ==
  ASSUME Shaped, FlightsThere, NEW c \in Thread, Join(c) \/ ViewJoin(c)
  PROVE  FlightsThere'
<1> DEFINE k == call[c]
           r == [k EXCEPT !.pc = "wait", !.stamp = 0]
<1>1. k \in CallState /\ c # None
  BY TimelineAssumption DEF Shaped
<1>2. r.pc = "wait"
  BY <1>1 DEF CallState
<1>3. CASE ViewJoin(c)
  BY <1>1, <1>3, OnePlace DEF ViewJoin
<1>4. CASE Join(c) /\ parsing = None
  BY <1>1, <1>4, OnePlace DEF Join
<1>5. CASE Join(c) /\ parsing # None
  <2>1. call' = [call EXCEPT ![c] = r] /\ parsing' = parsing /\ viewing' = viewing
    BY <1>5 DEF Join, Shaped
  <2> HIDE DEF r
  <2> QED
    BY <1>2, <1>5, <2>1, OneWaits
<1> QED
  BY <1>3, <1>4, <1>5

\* When a flight ends, nobody waits for it any more.
LEMMA EndWaits ==
  ASSUME Shaped, FlightsThere, NEW c \in Thread, Resolve(c) \/ ViewStore(c)
  PROVE  FlightsThere'
<1>1. \A d \in Thread : call[d] \in [pc : PC, kind : Kind, since : Nat, view : Nat, stamp : Nat,
                                  size : Nat, scan : Scan, events : Held, true : BOOLEAN, from : Nat]
  BY DEF Shaped, CallState
<1>2. Parsed(c) \in {"restamp", "answer"}
  BY DEF Parsed
<1>3. CASE Resolve(c)
  <2>1. \A d \in Thread :
          call'[d] = IF d = c THEN [call[c] EXCEPT !.pc = Parsed(c)]
                     ELSE IF At(d, "wait") THEN [call[d] EXCEPT !.pc = "stamp"] ELSE call[d]
    BY <1>3, Zenon DEF Resolve
  <2>2. ASSUME NEW d \in Thread
        PROVE  call'[d].pc # "wait" /\ (call'[d].pc = "viewwait" => call[d].pc = "viewwait")
    <3>1. CASE d = c
      <4> DEFINE r == [call[c] EXCEPT !.pc = Parsed(c)]
      <4>2. call'[d] = r
        BY <2>1, <3>1, Zenon
      <4>3. r.pc = Parsed(c)
        BY <1>1
      <4> HIDE DEF r
      <4>1. call'[d].pc = Parsed(c)
        BY <4>2, <4>3
      <4> QED
        BY <1>2, <4>1
    <3>2. CASE d # c /\ At(d, "wait")
      <4> DEFINE r == [call[d] EXCEPT !.pc = "stamp"]
      <4>2. call'[d] = r
        BY <2>1, <3>2, Zenon
      <4>3. r.pc = "stamp"
        BY <1>1
      <4> HIDE DEF r
      <4>1. call'[d].pc = "stamp"
        BY <4>2, <4>3
      <4> QED
        BY <4>1
    <3>3. CASE d # c /\ ~At(d, "wait")
      BY <2>1, <3>3 DEF At
    <3> QED
      BY <3>1, <3>2, <3>3
  <2>3. viewing' = viewing
    BY <1>3 DEF Resolve
  <2> QED
    BY <2>2, <2>3 DEF FlightsThere, At
<1>4. CASE ViewStore(c)
  <2>1. \A d \in Thread :
          call'[d] = IF d = c THEN [call[c] EXCEPT !.pc = "answer"]
                     ELSE IF At(d, "viewwait") THEN [call[d] EXCEPT !.pc = "view"] ELSE call[d]
    BY <1>4 DEF ViewStore
  <2>2. ASSUME NEW d \in Thread
        PROVE  call'[d].pc # "viewwait" /\ (call'[d].pc = "wait" => call[d].pc = "wait")
    <3>1. CASE d = c
      <4> DEFINE r == [call[c] EXCEPT !.pc = "answer"]
      <4>2. call'[d] = r
        BY <2>1, <3>1, Zenon
      <4>3. r.pc = "answer"
        BY <1>1
      <4> HIDE DEF r
      <4>1. call'[d].pc = "answer"
        BY <4>2, <4>3
      <4> QED
        BY <4>1
    <3>2. CASE d # c /\ At(d, "viewwait")
      <4> DEFINE r == [call[d] EXCEPT !.pc = "view"]
      <4>2. call'[d] = r
        BY <2>1, <3>2, Zenon
      <4>3. r.pc = "view"
        BY <1>1
      <4> HIDE DEF r
      <4>1. call'[d].pc = "view"
        BY <4>2, <4>3
      <4> QED
        BY <4>1
    <3>3. CASE d # c /\ ~At(d, "viewwait")
      BY <2>1, <3>3 DEF At
    <3> QED
      BY <3>1, <3>2, <3>3
  <2>3. parsing' = parsing
    BY <1>4 DEF ViewStore
  <2> QED
    BY <2>2, <2>3 DEF FlightsThere, At
<1> QED
  BY <1>3, <1>4

\* The other steps of a request.
LEMMA GoOnWaits ==
  ASSUME Shaped, FlightsThere, NEW c \in Thread,
         \/ \E kind \in Kind : Ask(c, kind)
         \/ ParseStamp(c) \/ Look(c) \/ Body(c) \/ Read(c) \/ ReadError(c)
         \/ ViewStamp(c) \/ ViewLook(c) \/ Answer(c)
  PROVE  FlightsThere'
<1>1. call \in [Thread -> CallState] /\ call[c] \in CallState /\ parsing' = parsing /\ viewing' = viewing
  BY Zenon DEF Shaped, Ask, ParseStamp, Look, Body, Read, ReadError, Stores, ViewStamp, ViewLook, Answer
<1>2. NoCall.pc = "idle"
  BY DEF NoCall
<1>3. Parsed(c) \in {"restamp", "answer"}
  BY DEF Parsed
<1>4. ASSUME NEW x, ~(x = "wait" \/ x = "viewwait"), Goto(c, x) PROVE FlightsThere'
  BY <1>1, <1>4, OnePlace
<1>5. ASSUME NEW r, ~(r.pc = "wait" \/ r.pc = "viewwait"), call' = [call EXCEPT ![c] = r]
      PROVE  FlightsThere'
  BY <1>1, <1>5, OneWaits
<1>6. CASE \E kind \in Kind : Ask(c, kind)
  <2>1. PICK kind \in Kind : Ask(c, kind)
    BY <1>6
  <2>2. \/ call' = [call EXCEPT ![c] = [NoCall EXCEPT !.pc = "look", !.kind = kind, !.since = Stamp,
                                                      !.stamp = Stamp]]
        \/ call' = [call EXCEPT ![c] = [NoCall EXCEPT !.pc = "viewlook", !.kind = kind, !.view = Stamp]]
    BY <2>1, Zenon DEF Ask
  <2>3. /\ [NoCall EXCEPT !.pc = "look", !.kind = kind, !.since = Stamp, !.stamp = Stamp].pc = "look"
        /\ [NoCall EXCEPT !.pc = "viewlook", !.kind = kind, !.view = Stamp].pc = "viewlook"
    BY DEF NoCall
  <2> QED
    BY <1>5, <2>2, <2>3
<1>7. CASE Answer(c)
  BY <1>2, <1>5, <1>7 DEF Answer
<1>8. CASE ParseStamp(c) \/ ViewStamp(c)
  <2> DEFINE r == IF ParseStamp(c) THEN [call[c] EXCEPT !.pc = "look", !.stamp = Stamp]
                                   ELSE [call[c] EXCEPT !.pc = "viewlook", !.view = Stamp]
  <2>1. call' = [call EXCEPT ![c] = r]
    BY <1>1, <1>8 DEF ParseStamp, ViewStamp
  <2>2. r.pc \in {"look", "viewlook"}
    BY <1>1 DEF CallState
  <2> HIDE DEF r
  <2> QED
    BY <1>5, <2>1, <2>2
<1>9. CASE ViewLook(c)
  <2> DEFINE hit == [call[c] EXCEPT !.pc = "answer", !.view = 0, !.events = overview.events,
                                    !.true = overview.true]
             miss == [call[c] EXCEPT !.pc = "viewjoin", !.view = 0]
  <2>1. call' = [call EXCEPT ![c] = hit] \/ call' = [call EXCEPT ![c] = miss]
    BY <1>1, <1>9 DEF ViewLook
  <2>2. hit.pc = "answer" /\ miss.pc = "viewjoin"
    BY <1>1 DEF CallState
  <2> HIDE DEF hit, miss
  <2> QED
    BY <1>5, <2>1, <2>2
<1>10. ASSUME NEW x, ~(x = "wait" \/ x = "viewwait"), Takes(c, x) PROVE FlightsThere'
  <2> DEFINE r == [call[c] EXCEPT !.pc = x, !.stamp = 0, !.events = cache.events, !.true = cache.true,
                          !.from = cache.scan.id]
  <2>1. call' = [call EXCEPT ![c] = r]
    BY <1>1, <1>10 DEF Takes
  <2>2. r.pc = x
    BY <1>1 DEF CallState
  <2> HIDE DEF r
  <2> QED
    BY <1>5, <1>10, <2>1, <2>2
<1>11. CASE Look(c)
  <2>1. Takes(c, Parsed(c)) \/ Goto(c, "join")
    BY <1>11 DEF Look
  <2> QED
    BY <1>3, <1>4, <1>10, <2>1
<1>12. CASE Body(c)
  <2> DEFINE was == IF cache = None \/ size < cache.scan.pos THEN NoScan ELSE cache.scan
             r == [call[c] EXCEPT !.pc = "read", !.size = size, !.scan = was]
  <2>1. Takes(c, "resolve")
        \/ call' = [call EXCEPT ![c].pc = "read", ![c].size = size, ![c].scan = was]
    BY <1>12 DEF Body, Begins
  <2> HIDE DEF was
  <2>2. Takes(c, "resolve") \/ call' = [call EXCEPT ![c] = r]
    BY <1>1, <2>1
  <2>3. r.pc = "read"
    BY <1>1 DEF CallState
  <2> HIDE DEF r
  <2> QED
    BY <1>5, <1>10, <2>2, <2>3
<1>13. CASE Read(c) \/ ReadError(c)
  <2>1. PICK scan, b : Stores(c, scan, b)
    BY <1>13 DEF Read, ReadError
  <2> DEFINE r == [call[c] EXCEPT !.pc = "resolve", !.stamp = 0, !.size = 0, !.scan = NoCall.scan,
                                  !.events = scan.events, !.true = b, !.from = scan.id]
  <2>2. call' = [call EXCEPT ![c] = r]
    BY <1>1, <2>1 DEF Stores
  <2>3. r.pc = "resolve"
    BY <1>1 DEF CallState
  <2> HIDE DEF r
  <2> QED
    BY <1>5, <2>2, <2>3
<1> QED
  BY <1>6, <1>7, <1>8, <1>9, <1>11, <1>12, <1>13

LEMMA WaitsKept ==
  ASSUME Shaped, FlightsThere, [TimelineNext]_timeline
  PROVE  FlightsThere'
<1>1. CASE UNCHANGED <<call, parsing, viewing>>
  BY <1>1 DEF FlightsThere, At
<1>2. CASE AgentAppends \/ Rewritten \/ Evict \/ UNCHANGED timeline
  BY <1>1, <1>2 DEF AgentAppends, Rewritten, Writes, Evict, timeline
<1>3. ASSUME NEW c \in Thread, Parse(c) \/ Build(c) PROVE FlightsThere'
  <2>1. CASE ReadOn(c)
    BY <1>1, <2>1 DEF ReadOn
  <2> QED
    BY <1>3, <2>1, JoinWaits, EndWaits, GoOnWaits DEF Parse, Build
<1>4. ASSUME NEW c \in Thread, (\E kind \in Kind : Ask(c, kind)) \/ Answer(c) PROVE FlightsThere'
  BY <1>4, GoOnWaits
<1> QED
  BY <1>2, <1>3, <1>4 DEF TimelineNext

\* What RequestsEnd rests on: requests that join a parse or a build of another
\* never all wait for each other, or for a flight that is over, for any number
\* of threads.  Who builds may wait for who parses, and who parses for nobody.
THEOREM RequestsNeverStick == TimelineSpec => []SomebodyWorks
<1>1. TimelineInit => FlightsThere
  <2> SUFFICES ASSUME TimelineInit, NEW c \in Thread PROVE ~At(c, "wait") /\ ~At(c, "viewwait")
    BY DEF FlightsThere
  <2>1. call[c] = NoCall /\ NoCall.pc = "idle"
    BY DEF TimelineInit, NoCall
  <2> QED
    BY <2>1 DEF At
<1>2. Inv /\ FlightsThere /\ [TimelineNext]_timeline => FlightsThere'
  BY WaitsKept DEF Inv
<1>3. Inv /\ FlightsThere => SomebodyWorks
  <2> SUFFICES ASSUME Inv, FlightsThere, NEW c \in Thread, ~At(c, "idle")
               PROVE  \E d \in Thread : call[d].pc \notin {"idle", "wait", "viewwait"}
    BY DEF SomebodyWorks
  <2>1. /\ parsing \in Thread \cup {None} /\ viewing \in Thread \cup {None}
        /\ \A d \in Thread : parsing = d => call[d].pc \in ParsePC
        /\ \A d \in Thread : viewing = d => call[d].pc \in BuildPC
    BY DEF Inv, Shaped, Flights
  <2>2. ASSUME NEW d \in Thread, At(d, "wait") PROVE call[parsing].pc \in ParsePC /\ parsing \in Thread
    BY <2>1, <2>2 DEF FlightsThere
  <2>3. CASE At(c, "wait")
    BY <2>2, <2>3 DEF ParsePC
  <2>4. CASE At(c, "viewwait")
    <3>1. viewing \in Thread /\ call[viewing].pc \in BuildPC
      BY <2>1, <2>4 DEF FlightsThere
    <3>2. CASE At(viewing, "wait")
      BY <2>2, <3>1, <3>2 DEF ParsePC
    <3> QED
      BY <3>1, <3>2 DEF BuildPC, ParsePC, At
  <2> QED
    BY <2>3, <2>4 DEF At
<1> QED
  BY <1>1, <1>2, <1>3, InvKept, PTL DEF TimelineSpec
=============================================================================
