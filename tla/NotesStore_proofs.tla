------------------------- MODULE NotesStore_proofs -------------------------
(***************************************************************************)
(* Proofs about NotesStore, for any notes, editors, apps and bound: types, *)
(* and that a save which no other writer has cut in two changes one note   *)
(* of the document that its client knows.                                  *)
(***************************************************************************)
EXTENDS NotesStore, TLAPS

\* Shapes of documents.
LEMMA Documents ==
  /\ Empty \in Doc
  /\ \A c \in Content : Text(c) \in Doc
  /\ \A d \in Doc, n \in Note, v \in Nat : Edited(d, n, v) \in Doc
  /\ None \notin Doc
<1>1. Empty \in Doc
  BY DEF Empty, Doc
<1>2. \A d \in Doc, n \in Note, v \in Nat : Edited(d, n, v) \in Doc
  BY DEF Edited, Doc
<1> QED
  BY <1>1, <1>2, NotesAssumption DEF Content, Text, Doc

\* An idle call has the shape of a call.
LEMMA NoCallShape == NoCall \in CallState
<1>1. (CHOOSE n \in Note : TRUE) \in Note
  BY NotesAssumption
<1> QED
  BY <1>1, Documents DEF NoCall, CallState, CallPC, Content, Path

\* The canonical document is one of the files.
LEMMA CanonicalShape ==
  ASSUME NotesTypeOK
  PROVE  Source \in Path /\ Canonical \in Content
BY DEF NotesTypeOK, Source, Canonical, Path

\* A call whose fields change one by one keeps its shape.
LEMMA Fields ==
  ASSUME NEW r \in CallState
  PROVE  /\ \A x \in CallPC : [r EXCEPT !.pc = x] \in CallState
         /\ \A x \in Note : [r EXCEPT !.note = x] \in CallState
         /\ \A x \in Nat : [r EXCEPT !.edit = x] \in CallState
         /\ \A x \in Content : [r EXCEPT !.expect = x] \in CallState
         /\ \A x \in Doc : [r EXCEPT !.doc = x] \in CallState
         /\ \A x \in Path : [r EXCEPT !.path = x] \in CallState
         /\ \A x \in BOOLEAN : [r EXCEPT !.heard = x] \in CallState
         /\ \A x \in BOOLEAN : [r EXCEPT !.crossed = x] \in CallState
BY Zenon DEF CallState

LEMMA InitTypes == NotesInit => NotesTypeOK
BY NoCallShape, Documents DEF NotesInit, NotesTypeOK, NoView, Content, Path, Tmp, Process

\* Replacing one call, or all of them, by calls of the right shape.
LEMMA OneCall ==
  ASSUME NotesTypeOK, NEW s \in Call, NEW r \in CallState, call' = [call EXCEPT ![s] = r]
  PROVE  call' \in [Call -> CallState]
BY DEF NotesTypeOK

LEMMA EndsKeeps ==
  ASSUME NotesTypeOK, NEW s \in Call, NEW next \in CallPC, Ends(s, next)
  PROVE  call' \in [Call -> CallState]
<1>1. \A r \in Call : call[r] \in CallState /\ [call[r] EXCEPT !.pc = next] \in CallState
  BY Fields DEF NotesTypeOK
<1> QED
  BY <1>1, NoCallShape DEF Ends

LEMMA CrossingKeeps ==
  ASSUME NotesTypeOK, NEW s \in Call, NEW place \in CallPC, Crossing(s, place)
  PROVE  call' \in [Call -> CallState]
<1>1. [call[s] EXCEPT !.pc = place] \in CallState
  BY Fields DEF NotesTypeOK
<1>2. \A r \in Call : [call[r] EXCEPT !.crossed = @ \/ Cuts(s, r)] \in CallState
  <2> TAKE r \in Call
  <2> DEFINE x == call[r].crossed \/ Cuts(s, r)
  <2>1. x \in BOOLEAN
    OBVIOUS
  <2>2. \A y \in BOOLEAN : [call[r] EXCEPT !.crossed = y] \in CallState
    BY Fields DEF NotesTypeOK
  <2>3. [call[r] EXCEPT !.crossed = x] \in CallState
    BY <2>1, <2>2, Zenon
  <2> QED
    BY <2>3
<1> QED
  BY <1>1, <1>2, Zenon DEF Crossing

LEMMA StepTypes == NotesTypeOK /\ [NotesNext]_vars => NotesTypeOK'
<1> SUFFICES ASSUME NotesTypeOK, [NotesNext]_vars PROVE NotesTypeOK'
  OBVIOUS
<1> USE CanonicalShape, Documents
<1>0. \A s \in Call : call[s] \in CallState
  BY DEF NotesTypeOK
<1>1. ASSUME NEW e \in Editor, Render(e) PROVE NotesTypeOK'
  <2>1. [NoCall EXCEPT !.pc = "rev", !.doc = Text(Canonical), !.path = Source] \in CallState
    BY NoCallShape, Fields DEF CallPC
  <2> QED
    BY <1>1, <2>1 DEF Render, NotesTypeOK
<1>2. ASSUME NEW e \in Editor, EditorRev(e) PROVE NotesTypeOK'
  <2>1. <<e, "owner">> \in Call
    BY DEF Call, Client
  <2>2. call[<<e, "owner">>].doc \in Doc /\ call[<<e, "owner">>].path \in Path
        /\ call[<<e, "owner">>].crossed \in BOOLEAN
    BY <1>0, <2>1, Zenon DEF CallState
  <2>3. [text |-> call[<<e, "owner">>].doc, rev |-> file[call[<<e, "owner">>].path],
         crossed |-> call[<<e, "owner">>].crossed] \in [text : Doc, rev : Content, crossed : BOOLEAN]
    BY <2>2 DEF NotesTypeOK
  <2> QED
    BY <1>2, <2>1, <2>3, NoCallShape DEF EditorRev, NotesTypeOK
<1>3. ASSUME NEW e \in Editor, NEW n \in Note, NEW v \in 0..MaxEdit, Save(e, n, v) PROVE NotesTypeOK'
  <2>1. view[e].rev \in Content /\ view[e].crossed \in BOOLEAN
    BY Zenon DEF NotesTypeOK
  <2>2. [NoCall EXCEPT !.pc = "lock", !.note = n, !.edit = v, !.expect = view[e].rev,
                       !.crossed = view[e].crossed] \in CallState
    <3>1. v \in Nat
      BY NotesAssumption
    <3>2. [[[NoCall EXCEPT !.pc = "lock"] EXCEPT !.note = n] EXCEPT !.edit = v] \in CallState
      BY <3>1, NoCallShape, Fields DEF CallPC
    <3>3. [[[[[NoCall EXCEPT !.pc = "lock"] EXCEPT !.note = n] EXCEPT !.edit = v]
             EXCEPT !.expect = view[e].rev] EXCEPT !.crossed = view[e].crossed] \in CallState
      BY <2>1, <3>2, Fields, Zenon
    <3> QED
      BY <3>3
  <2>3. edits' \in Nat
    BY <1>3 DEF Save, Types, NotesTypeOK
  <2>4. call' \in [Call -> CallState]
    BY <1>3, <2>2 DEF Save, NotesTypeOK
  <2> QED
    BY <1>3, <2>3, <2>4 DEF Save, NotesTypeOK
<1>4. ASSUME NEW t \in Tui, TuiRev(t) PROVE NotesTypeOK'
  <2> DEFINE s == <<t, "app">>
             asked == [call[s] EXCEPT !.pc = "lock", !.expect = file[call[s].path],
                                      !.doc = Empty, !.path = "primary"]
  <2>1. s \in Call /\ <<t, "owner">> \in Call
    BY DEF Call, Client
  <2>2. call[s].path \in Path
    BY <1>0, <2>1, Zenon DEF CallState
  <2>3. asked \in CallState
    BY <1>0, <2>1, <2>2, Fields DEF NotesTypeOK, CallPC, Path
  <2>4. [asked EXCEPT !.pc = "ask"] \in CallState
    BY <2>3, Fields DEF CallPC
  <2>5. call' = [call EXCEPT ![s] = [asked EXCEPT !.pc = "ask"], ![<<t, "owner">>] = asked]
    BY <1>4 DEF TuiRev
  <2> HIDE DEF asked, s
  <2>6. call' \in [Call -> CallState]
    BY <2>3, <2>4, <2>5 DEF NotesTypeOK
  <2> QED
    BY <1>4, <2>6 DEF TuiRev, NotesTypeOK
<1>5. ASSUME NEW t \in Tui, AskFails(t) PROVE NotesTypeOK'
  <2>1. \A s \in Call : [call[s] EXCEPT !.pc = "lock"] \in CallState
                        /\ [call[s] EXCEPT !.heard = FALSE] \in CallState
    BY <1>0, Fields DEF CallPC
  <2> QED
    BY <1>5, <2>1 DEF AskFails, NotesTypeOK
<1>6. ASSUME NEW t \in Tui, NEW n \in Note, NEW v \in 0..MaxEdit, Dialog(t, n, v) PROVE NotesTypeOK'
  <2>1. [NoCall EXCEPT !.pc = "rev", !.note = n, !.edit = v,
                       !.doc = Text(Canonical), !.path = Source] \in CallState
    <3>1. v \in Nat
      BY NotesAssumption
    <3>2. [[[NoCall EXCEPT !.pc = "rev"] EXCEPT !.note = n] EXCEPT !.edit = v] \in CallState
      BY <3>1, NoCallShape, Fields DEF CallPC
    <3> QED
      BY <3>2, Fields
  <2>2. edits' \in Nat
    BY <1>6 DEF Dialog, Types, NotesTypeOK
  <2>3. call' \in [Call -> CallState]
    BY <1>6, <2>1 DEF Dialog, NotesTypeOK
  <2> QED
    BY <1>6, <2>2, <2>3 DEF Dialog, NotesTypeOK
<1>7. ASSUME NEW s \in Call, Take(s) PROVE NotesTypeOK'
  <2>1. ProcessOf(s) \in Process
    BY DEF Call, ProcessOf, Process
  <2>2. [[[call[s] EXCEPT !.pc = "compare"] EXCEPT !.doc = Text(Canonical)] EXCEPT !.path = Source]
           \in CallState
    BY <1>0, Fields DEF CallPC
  <2> QED
    BY <1>7, <2>1, <2>2 DEF Take, NotesTypeOK
<1>8. ASSUME NEW s \in Call, Conflict(s) PROVE NotesTypeOK'
  BY <1>8, EndsKeeps DEF Conflict, Unlock, NotesTypeOK, CallPC
<1>9. ASSUME NEW s \in Call, Agree(s) PROVE NotesTypeOK'
  <2>1. [call[s] EXCEPT !.pc = "answer"] \in CallState
    BY <1>0, Fields DEF CallPC
  <2>2. call[s].doc \in Doc /\ call[s].note \in Note /\ call[s].edit \in Nat
    BY <1>0, Zenon DEF CallState
  <2>3. Edited(call[s].doc, call[s].note, call[s].edit) \in Doc
    BY <2>2
  <2>4. \A p \in Path : [[[call[s] EXCEPT !.pc = "tmp"] EXCEPT
             !.doc = Edited(call[s].doc, call[s].note, call[s].edit)] EXCEPT !.path = p] \in CallState
    BY <1>0, <2>3, Fields DEF CallPC
  <2>5. (IF SkipPrimary THEN "fallback" ELSE "primary") \in Path
    BY DEF Path
  <2>6. call' \in [Call -> CallState]
    BY <1>9, <2>1, <2>4, <2>5 DEF Agree, Goto, NotesTypeOK
  <2> QED
    BY <1>9, <2>6 DEF Agree, NotesTypeOK
<1>10. ASSUME NEW s \in Call, WriteTmp(s) PROVE NotesTypeOK'
  <2>1. call[s].doc \in Doc /\ call[s].path \in Path
    BY <1>0, Zenon DEF CallState
  <2> QED
    BY <1>10, <2>1, CrossingKeeps DEF WriteTmp, NotesTypeOK, Tmp, CallPC
<1>11. ASSUME NEW s \in Call, Replace(s) PROVE NotesTypeOK'
  <2>1. call[s].path \in Path
    BY <1>0, Zenon DEF CallState
  <2> QED
    BY <1>11, <2>1, CrossingKeeps DEF Replace, NotesTypeOK, Tmp, CallPC, Content
<1>12. ASSUME NEW s \in Call, WriteFails(s) PROVE NotesTypeOK'
  <2>1. [[call[s] EXCEPT !.pc = "tmp"] EXCEPT !.path = "fallback"] \in CallState
    BY <1>0, Fields DEF CallPC, Path
  <2>2. CASE call' = [call EXCEPT ![s].pc = "tmp", ![s].path = "fallback"] /\ UNCHANGED lock
    BY <1>12, <2>1, <2>2 DEF WriteFails, NotesTypeOK
  <2>3. CASE Ends(s, "lock") /\ Unlock(s)
    <3>1. call' \in [Call -> CallState]
      BY <2>3, EndsKeeps DEF CallPC
    <3> QED
      BY <1>12, <2>3, <3>1 DEF WriteFails, Unlock, NotesTypeOK
  <2> QED
    BY <1>12, <2>2, <2>3 DEF WriteFails
<1>13. ASSUME NEW s \in Call, After(s) PROVE NotesTypeOK'
  <2>1. [[[call[s] EXCEPT !.pc = "answer"] EXCEPT !.path = Source] EXCEPT !.doc = Empty] \in CallState
    BY <1>0, Fields DEF CallPC
  <2> QED
    BY <1>13, <2>1 DEF After, NotesTypeOK
<1>14. ASSUME NEW s \in Call, Answer(s) PROVE NotesTypeOK'
  <2> DEFINE c == ClientOf(s)
             seen == [text |-> Edited(view[c].text, call[s].note, call[s].edit),
                      rev |-> file[call[s].path], crossed |-> call[s].crossed]
  <2>1. call[s].path \in Path /\ call[s].note \in Note /\ call[s].edit \in Nat
        /\ call[s].crossed \in BOOLEAN
    BY <1>0, Zenon DEF CallState
  <2>2. ASSUME c \in Editor PROVE seen \in [text : Doc, rev : Content, crossed : BOOLEAN]
    <3>1. view[c].text \in Doc
      BY <2>2 DEF NotesTypeOK
    <3>2. Edited(view[c].text, call[s].note, call[s].edit) \in Doc
      BY <2>1, <3>1
    <3> QED
      BY <2>1, <3>2 DEF NotesTypeOK
  <2>3. view' = IF c \in Editor THEN [view EXCEPT ![c] = seen] ELSE view
    BY <1>14 DEF Answer
  <2>4. view' \in [Editor -> [text : Doc, rev : Content, crossed : BOOLEAN]]
    BY <2>2, <2>3 DEF NotesTypeOK
  <2> QED
    BY <1>14, <2>4, EndsKeeps DEF Answer, Unlock, NotesTypeOK, CallPC
<1>15. ASSUME NEW p \in Process, Crash(p) PROVE NotesTypeOK'
  BY <1>15, NoCallShape DEF Crash, NotesTypeOK
<1>16. ASSUME UNCHANGED vars PROVE NotesTypeOK'
  BY <1>16 DEF vars, NotesTypeOK
<1> QED
  BY <1>1, <1>2, <1>3, <1>4, <1>5, <1>6, <1>7, <1>8, <1>9, <1>10, <1>11, <1>12, <1>13, <1>14,
     <1>15, <1>16 DEF NotesNext, Work

\* Every variable keeps its type.
THEOREM NotesTypeCorrect == NotesSpec => []NotesTypeOK
BY InitTypes, StepTypes, PTL DEF NotesSpec

-----------------------------------------------------------------------------
\* A call that works on the files holds the lock of its process.
Locks == \A s \in Call : call[s].pc \in Locked => lock[ProcessOf(s)] = s

\* Nothing is younger than the last write.
Stamps == \A p \in Path : mtime[p] <= clock /\ (tmp[p] # None => tmp[p].at <= clock)

\* What a call may rely on that no writer has cut in two.
Fits(s) ==
  LET c == call[s] IN
  /\ c.pc = "rev" => c.doc = Text(file[c.path])
  /\ c.pc = "compare" => c.doc = Text(Canonical) /\ c.path = Source
  /\ c.pc \in {"tmp", "replace"} =>
       c.expect = Canonical /\ c.doc = Edited(Text(Canonical), c.note, c.edit)
  /\ c.pc = "replace" =>
       tmp[c.path] = [doc |-> c.doc, at |-> clock] /\ \A p \in Path : mtime[p] < clock
  /\ c.pc \in {"after", "answer"} => Text(Canonical) = Edited(Text(c.expect), c.note, c.edit)
  /\ c.pc = "answer" => c.path = Source

\* A save of an editor is for the revision that it has.
Expects(e) ==
  LET c == call[<<e, "owner">>] IN
  c.pc = "lock" \/ c.pc \in Locked =>
    c.expect = view[e].rev /\ (view[e].crossed => c.crossed)

Guarded ==
  /\ NotesTypeOK /\ Locks /\ Stamps
  /\ \A s \in Call : ~call[s].crossed => Fits(s)
  /\ \A e \in Editor : Expects(e)
  /\ RevisionNamesText

\* The pieces of a call.
LEMMA Pieces ==
  ASSUME NotesTypeOK
  PROVE  /\ \A s \in Call : /\ call[s].pc \in CallPC /\ call[s].note \in Note
                            /\ call[s].edit \in Nat /\ call[s].expect \in Content
                            /\ call[s].doc \in Doc /\ call[s].path \in Path
                            /\ ProcessOf(s) \in Process
         /\ DOMAIN call = Call
<1>1. \A s \in Call : call[s] \in CallState
  BY DEF NotesTypeOK
<1>2. \A s \in Call : ProcessOf(s) \in Process
  BY DEF Call, ProcessOf, Process
<1>3. DOMAIN call = Call
  BY DEF NotesTypeOK
<1> QED
  BY <1>1, <1>2, <1>3, Zenon DEF CallState

\* Where a call goes to an idle one no lock is needed and nothing relied on.
LEMMA IdleCall == NoCall.pc = "idle"
BY DEF NoCall

LEMMA ClientCalls ==
  /\ \A e \in Editor : <<e, "owner">> \in Call
  /\ \A t \in Tui : <<t, "owner">> \in Call /\ <<t, "app">> \in Call
  /\ \A e \in Editor, t \in Tui : e # t
BY NotesAssumption DEF Call, Client

\* What the steps that touch several calls do to each.
LEMMA AskedCalls ==
  ASSUME NotesTypeOK, NEW t \in Tui, TuiRev(t)
  PROVE  \A s \in Call :
           \/ call'[s].pc \in {"ask", "lock"} /\ ClientOf(s) = t
           \/ call'[s] = call[s]
<1> DEFINE asked == [call[<<t, "app">>] EXCEPT !.pc = "lock", !.expect = file[call[<<t, "app">>].path],
                                              !.doc = Empty, !.path = "primary"]
           waits == [asked EXCEPT !.pc = "ask"]
<1>1. call[<<t, "app">>] \in CallState
  BY ClientCalls DEF NotesTypeOK
<1>2. asked.pc = "lock" /\ waits.pc = "ask"
  BY <1>1 DEF CallState
<1>3. call' = [call EXCEPT ![<<t, "app">>] = waits, ![<<t, "owner">>] = asked]
  BY DEF TuiRev
<1> HIDE DEF asked, waits
<1> QED
  BY <1>2, <1>3, Pieces DEF ClientOf

LEMMA FailedCalls ==
  ASSUME NotesTypeOK, NEW t \in Tui, AskFails(t)
  PROVE  \A s \in Call : /\ call'[s].pc = call[s].pc \/ call'[s].pc = "lock"
                         /\ ClientOf(s) # t => call'[s] = call[s]
                         /\ call'[s].note = call[s].note /\ call'[s].edit = call[s].edit
                         /\ call'[s].expect = call[s].expect /\ call'[s].doc = call[s].doc
                         /\ call'[s].path = call[s].path /\ call'[s].crossed = call[s].crossed
<1> TAKE s \in Call
<1>1. call[s] \in CallState
  BY DEF NotesTypeOK
<1>2. call'[s] = CASE s = <<t, "app">> -> [call[s] EXCEPT !.pc = "lock"]
                   [] s = <<t, "owner">> -> [call[s] EXCEPT !.heard = FALSE]
                   [] OTHER -> call[s]
  BY Pieces, ClientCalls DEF AskFails
<1>3. CASE s = <<t, "app">>
  BY <1>1, <1>2, <1>3 DEF CallState, ClientOf
<1>4. CASE s = <<t, "owner">>
  BY <1>1, <1>2, <1>4 DEF CallState, ClientOf
<1>5. CASE s # <<t, "app">> /\ s # <<t, "owner">>
  BY <1>2, <1>5
<1> QED
  BY <1>3, <1>4, <1>5

LEMMA CrossingCalls ==
  ASSUME NotesTypeOK, NEW s \in Call, NEW place, Crossing(s, place)
  PROVE  /\ call'[s] = [call[s] EXCEPT !.pc = place] /\ call'[s].pc = place
         /\ \A r \in Call :
              /\ r # s => call'[r].pc = call[r].pc /\ call'[r].crossed = (call[r].crossed \/ Cuts(s, r))
              /\ call'[r].note = call[r].note /\ call'[r].edit = call[r].edit
              /\ call'[r].expect = call[r].expect /\ call'[r].doc = call[r].doc
              /\ call'[r].path = call[r].path /\ call'[s].crossed = call[s].crossed
<1>1. \A r \in Call : call[r] \in CallState
  BY DEF NotesTypeOK
<1>2. call'[s] = [call[s] EXCEPT !.pc = place]
  BY DEF Crossing
<1>3. ASSUME NEW r \in Call, r # s PROVE call'[r] = [call[r] EXCEPT !.crossed = call[r].crossed \/ Cuts(s, r)]
  BY <1>3 DEF Crossing
<1>4. \A r \in CallState, x \in BOOLEAN :
        /\ [r EXCEPT !.crossed = x].pc = r.pc /\ [r EXCEPT !.crossed = x].crossed = x
        /\ [r EXCEPT !.crossed = x].note = r.note /\ [r EXCEPT !.crossed = x].edit = r.edit
        /\ [r EXCEPT !.crossed = x].expect = r.expect /\ [r EXCEPT !.crossed = x].doc = r.doc
        /\ [r EXCEPT !.crossed = x].path = r.path
  BY Zenon DEF CallState
<1>5. \A r \in CallState :
        /\ [r EXCEPT !.pc = place].crossed = r.crossed /\ [r EXCEPT !.pc = place].pc = place
        /\ [r EXCEPT !.pc = place].note = r.note /\ [r EXCEPT !.pc = place].edit = r.edit
        /\ [r EXCEPT !.pc = place].expect = r.expect /\ [r EXCEPT !.pc = place].doc = r.doc
        /\ [r EXCEPT !.pc = place].path = r.path
  BY Zenon DEF CallState
<1>6. ASSUME NEW r \in Call, r # s
      PROVE  /\ call'[r].pc = call[r].pc /\ call'[r].crossed = (call[r].crossed \/ Cuts(s, r))
             /\ call'[r].note = call[r].note /\ call'[r].edit = call[r].edit
             /\ call'[r].expect = call[r].expect /\ call'[r].doc = call[r].doc
             /\ call'[r].path = call[r].path
  <2> DEFINE x == call[r].crossed \/ Cuts(s, r)
  <2>1. x \in BOOLEAN
    OBVIOUS
  <2>2. call'[r] = [call[r] EXCEPT !.crossed = x]
    BY <1>3, <1>6
  <2>3. call[r] \in CallState
    BY <1>1, <1>6
  <2> HIDE DEF x
  <2>4. /\ call'[r].pc = call[r].pc /\ call'[r].crossed = x
        /\ call'[r].note = call[r].note /\ call'[r].edit = call[r].edit
        /\ call'[r].expect = call[r].expect /\ call'[r].doc = call[r].doc
        /\ call'[r].path = call[r].path
    BY <1>4, <2>1, <2>2, <2>3
  <2> QED
    BY <2>4, Zenon DEF x
<1>7. /\ call'[s].crossed = call[s].crossed /\ call'[s].pc = place
      /\ call'[s].note = call[s].note /\ call'[s].edit = call[s].edit
      /\ call'[s].expect = call[s].expect /\ call'[s].doc = call[s].doc
      /\ call'[s].path = call[s].path
  BY <1>1, <1>2, <1>5, Zenon
<1> QED
  BY <1>2, <1>6, <1>7, Zenon

\* Locks: only Take brings a call under the lock, when it is free.
LEMMA LocksStay == NotesTypeOK /\ Locks /\ [NotesNext]_vars => Locks'
<1> SUFFICES ASSUME NotesTypeOK, Locks, [NotesNext]_vars PROVE Locks'
  OBVIOUS
<1> USE Pieces, IdleCall, ClientCalls DEF Locks, Locked
<1>1. ASSUME NEW e \in Editor, Render(e) PROVE Locks'
  <2>1. \A s \in Call : call'[s].pc \in Locked => call'[s] = call[s]
    BY <1>1 DEF Render, NotesTypeOK
  <2> QED
    BY <1>1, <2>1 DEF Render
<1>2. ASSUME NEW e \in Editor, EditorRev(e) PROVE Locks'
  BY <1>2 DEF EditorRev, NotesTypeOK
<1>3. ASSUME NEW e \in Editor, NEW n \in Note, NEW v \in 0..MaxEdit, Save(e, n, v) PROVE Locks'
  BY <1>3 DEF Save, NotesTypeOK
<1>4. ASSUME NEW t \in Tui, TuiRev(t) PROVE Locks'
  <2>1. \A s \in Call : call'[s].pc \in Locked => call'[s] = call[s]
    BY <1>4, AskedCalls
  <2> QED
    BY <1>4, <2>1 DEF TuiRev
<1>5. ASSUME NEW t \in Tui, AskFails(t) PROVE Locks'
  <2>1. \A s \in Call : call'[s].pc \in Locked => call'[s].pc = call[s].pc
    BY <1>5, FailedCalls
  <2> QED
    BY <1>5, <2>1 DEF AskFails
<1>6. ASSUME NEW t \in Tui, NEW n \in Note, NEW v \in 0..MaxEdit, Dialog(t, n, v) PROVE Locks'
  BY <1>6 DEF Dialog, NotesTypeOK
<1>7. ASSUME NEW s \in Call, Take(s) PROVE Locks'
  <2>1. \A r \in Call : r # s => call'[r] = call[r]
    BY <1>7 DEF Take, NotesTypeOK
  <2>2. \A r \in Call : call[r].pc \in Locked => ProcessOf(r) # ProcessOf(s)
    BY <1>7, NotesAssumption DEF Take, Call, Client
  <2> QED
    BY <1>7, <2>1, <2>2 DEF Take, NotesTypeOK
<1>8. ASSUME NEW s \in Call, NEW next \in {"idle", "lock"}, Ends(s, next), Unlock(s),
             call[s].pc \in Locked
      PROVE  Locks'
  <2>1. \A r \in Call : r # s => call'[r].pc = call[r].pc \/ call'[r].pc = next
    BY <1>8 DEF Ends, NotesTypeOK
  <2>2. call'[s].pc = "idle"
    BY <1>8 DEF Ends, NotesTypeOK
  <2>3. \A r \in Call : r # s /\ call[r].pc \in Locked => ProcessOf(r) # ProcessOf(s)
    BY <1>8
  <2> QED
    BY <1>8, <2>1, <2>2, <2>3 DEF Unlock, NotesTypeOK
<1>9. ASSUME NEW s \in Call, call[s].pc \in Locked, UNCHANGED lock,
             \A r \in Call : r # s => call'[r].pc = call[r].pc
      PROVE  Locks'
  BY <1>9
<1>10. ASSUME NEW s \in Call, Agree(s) PROVE Locks'
  BY <1>9, <1>10 DEF Agree, Goto, At, NotesTypeOK
<1>11. ASSUME NEW s \in Call, NEW place \in CallPC, Crossing(s, place), call[s].pc \in Locked,
              UNCHANGED lock
       PROVE  Locks'
  <2>1. \A r \in Call : r # s => call'[r].pc = call[r].pc
    BY <1>11, CrossingCalls
  <2> QED
    BY <1>9, <1>11, <2>1
<1>12. ASSUME NEW s \in Call, WriteFails(s) PROVE Locks'
  <2>1. CASE call' = [call EXCEPT ![s].pc = "tmp", ![s].path = "fallback"] /\ UNCHANGED lock
    BY <1>9, <1>12, <2>1 DEF WriteFails, At, NotesTypeOK
  <2> QED
    BY <1>8, <1>12, <2>1 DEF WriteFails, At
<1>13. ASSUME NEW s \in Call, After(s) PROVE Locks'
  BY <1>9, <1>13 DEF After, At, NotesTypeOK
<1>14. ASSUME NEW p \in Process, Crash(p) PROVE Locks'
  <2>1. \A s \in Call : call'[s].pc \in Locked => ProcessOf(s) # p /\ call'[s] = call[s]
    BY <1>14 DEF Crash, NotesTypeOK
  <2> QED
    BY <1>14, <2>1 DEF Crash, NotesTypeOK
<1>15. ASSUME UNCHANGED vars PROVE Locks'
  BY <1>15 DEF vars
<1>16. ASSUME NEW s \in Call, Conflict(s) PROVE Locks'
  BY <1>8, <1>16 DEF Conflict, At
<1>17. ASSUME NEW s \in Call, Answer(s) PROVE Locks'
  BY <1>8, <1>17 DEF Answer, At
<1>18. ASSUME NEW s \in Call, WriteTmp(s) \/ Replace(s) PROVE Locks'
  BY <1>11, <1>18 DEF WriteTmp, Replace, At, CallPC
<1> QED
  BY <1>1, <1>2, <1>3, <1>4, <1>5, <1>6, <1>7, <1>10, <1>12, <1>13, <1>14, <1>15, <1>16, <1>17,
     <1>18 DEF NotesNext, Work

\* Stamps: only the two steps of a write touch them.
LEMMA StampsStay == NotesTypeOK /\ Stamps /\ [NotesNext]_vars => Stamps'
<1> SUFFICES ASSUME NotesTypeOK, Stamps, [NotesNext]_vars PROVE Stamps'
  OBVIOUS
<1>1. ASSUME NEW s \in Call, WriteTmp(s) PROVE Stamps'
  BY <1>1 DEF WriteTmp, Stamps, NotesTypeOK, Tmp
<1>2. ASSUME NEW s \in Call, Replace(s) PROVE Stamps'
  BY <1>2 DEF Replace, Stamps, NotesTypeOK, Tmp
<1>3. UNCHANGED <<mtime, tmp, clock>> => Stamps'
  BY DEF Stamps
<1> QED
  BY <1>1, <1>2, <1>3 DEF NotesNext, Work, Render, EditorRev, Save, TuiRev, AskFails, Dialog, Take,
     Conflict, Agree, WriteFails, After, Answer, Crash, vars
\* A call that does not move on files that do not change may rely on what it did.
LEMMA FitsKept ==
  ASSUME NEW r \in Call, Fits(r), UNCHANGED <<file, mtime, tmp, clock>>,
         call'[r].pc = call[r].pc, call'[r].note = call[r].note, call'[r].edit = call[r].edit,
         call'[r].expect = call[r].expect, call'[r].doc = call[r].doc, call'[r].path = call[r].path
  PROVE  Fits(r)'
BY DEF Fits, Canonical, Source

\* A call that holds nothing relies on nothing.
LEMMA FitsFree ==
  ASSUME NEW r \in Call, call'[r].pc \in {"idle", "ask", "lock"}
  PROVE  Fits(r)'
BY DEF Fits

\* A write cuts every other call that relies on something.
LEMMA OthersFree ==
  ASSUME NotesTypeOK, Locks, NEW s \in Call, call[s].pc \in Locked,
         NEW place, Crossing(s, place), NEW r \in Call, r # s, ~call'[r].crossed
  PROVE  Fits(r)'
<1>1. ~Cuts(s, r) /\ call'[r].pc = call[r].pc
  BY CrossingCalls
<1>2. call[r].pc \notin Locked
  BY <1>1 DEF Cuts, Locks
<1>3. call[r].pc \in {"idle", "ask", "lock"}
  BY <1>1, <1>2, Pieces DEF Cuts, CallPC, Locked
<1> QED
  BY <1>1, <1>3, FitsFree

\* One call moves and no file does.
LEMMA FitsMove ==
  ASSUME NotesTypeOK, \A r \in Call : ~call[r].crossed => Fits(r),
         UNCHANGED <<file, mtime, tmp, clock>>,
         NEW s \in Call, ~call'[s].crossed => Fits(s)',
         \A r \in Call : r # s => call'[r] = call[r] \/ call'[r].pc \in {"idle", "ask", "lock"}
  PROVE  \A r \in Call : ~call'[r].crossed => Fits(r)'
<1> TAKE r \in Call
<1>1. CASE r = s
  BY <1>1
<1>2. CASE call'[r] = call[r]
  BY <1>2, FitsKept
<1>3. CASE call'[r].pc \in {"idle", "ask", "lock"}
  BY <1>3, FitsFree
<1> QED
  BY <1>1, <1>2, <1>3

LEMMA EndsCalls ==
  ASSUME NotesTypeOK, NEW s \in Call, NEW next \in {"idle", "lock"}, Ends(s, next)
  PROVE  /\ call'[s].pc = "idle"
         /\ \A r \in Call : r # s => call'[r] = call[r] \/ (call'[r].pc = next /\ ProcessOf(r) = "app")
<1>1. \A r \in Call : call[r] \in CallState
  BY DEF NotesTypeOK
<1>2. \A r \in CallState : [r EXCEPT !.pc = next].pc = next
  BY Zenon DEF CallState
<1> QED
  BY <1>1, <1>2, IdleCall DEF Ends, ProcessOf

\* A step that renames an uncut new file changes one note of what was expected.
LEMMA StepSaves ==
  ASSUME Guarded, NEW s \in Call, Replace(s), ~call[s].crossed
  PROVE  /\ call[s].expect = Canonical
         /\ Canonical' = Edited(Text(Canonical), call[s].note, call[s].edit)
<1> USE Pieces
<1> DEFINE p == call[s].path
<1>0. NotesTypeOK /\ Fits(s)
  BY DEF Guarded
<1>1. /\ call[s].expect = Canonical
      /\ call[s].doc = Edited(Text(Canonical), call[s].note, call[s].edit)
      /\ tmp[p] = [doc |-> call[s].doc, at |-> clock] /\ \A q \in Path : mtime[q] < clock
  BY <1>0 DEF Replace, Fits, At
<1>2. file' = [file EXCEPT ![p] = call[s].doc] /\ mtime' = [mtime EXCEPT ![p] = clock]
  BY <1>1 DEF Replace
<1>3. p \in Path /\ call[s].doc \in Doc
  BY <1>0
<1>4. Source' = p
  BY <1>0, <1>1, <1>2, <1>3, Documents DEF Source, Path, NotesTypeOK
<1> QED
  BY <1>0, <1>1, <1>2, <1>3, <1>4 DEF Canonical, NotesTypeOK

LEMMA FitsStay ==
  Guarded /\ [NotesNext]_vars => \A r \in Call : ~call'[r].crossed => Fits(r)'
<1> SUFFICES ASSUME Guarded, [NotesNext]_vars
             PROVE  \A r \in Call : ~call'[r].crossed => Fits(r)'
  OBVIOUS
<1> DEFINE Goal == \A r \in Call : ~call'[r].crossed => Fits(r)'
<1> USE Pieces, CanonicalShape, Documents, IdleCall, ClientCalls
<1>0. NotesTypeOK /\ Locks /\ Stamps /\ \A r \in Call : ~call[r].crossed => Fits(r)
  BY DEF Guarded
<1>1. ASSUME NEW e \in Editor, Render(e) PROVE Goal
  <2> DEFINE s == <<e, "owner">>
  <2>1. call'[s].pc = "rev" /\ call'[s].doc = Text(Canonical) /\ call'[s].path = Source
    BY <1>0, <1>1 DEF Render, NoCall
  <2>2. Fits(s)'
    BY <1>1, <2>1 DEF Fits, Render, Canonical
  <2> QED
    BY <1>0, <1>1, <2>2, FitsMove DEF Render
<1>2. ASSUME NEW e \in Editor, EditorRev(e) PROVE Goal
  <2>1. call'[<<e, "owner">>].pc = "idle"
    BY <1>0, <1>2 DEF EditorRev
  <2> QED
    BY <1>0, <1>2, <2>1, FitsMove, FitsFree DEF EditorRev
<1>3. ASSUME NEW e \in Editor, NEW n \in Note, NEW v \in 0..MaxEdit, Save(e, n, v) PROVE Goal
  <2>1. call'[<<e, "owner">>].pc = "lock"
    BY <1>0, <1>3 DEF Save, NoCall
  <2> QED
    BY <1>0, <1>3, <2>1, FitsMove, FitsFree DEF Save
<1>4. ASSUME NEW t \in Tui, TuiRev(t) PROVE Goal
  BY <1>0, <1>4, AskedCalls, FitsKept, FitsFree DEF TuiRev
<1>5. ASSUME NEW t \in Tui, AskFails(t) PROVE Goal
  <2> SUFFICES ASSUME NEW r \in Call, ~call'[r].crossed PROVE Fits(r)'
    OBVIOUS
  <2> USE <1>0, <1>5, FailedCalls
  <2>1. CASE call'[r].pc = "lock"
    BY <2>1, FitsFree
  <2>2. CASE call'[r].pc # "lock"
    <3>1. /\ call'[r].pc = call[r].pc /\ call'[r].note = call[r].note
          /\ call'[r].edit = call[r].edit /\ call'[r].expect = call[r].expect
          /\ call'[r].doc = call[r].doc /\ call'[r].path = call[r].path
          /\ call'[r].crossed = call[r].crossed
      BY <2>2
    <3>2. UNCHANGED <<file, mtime, tmp, clock>>
      BY DEF AskFails
    <3> QED
      BY <3>1, <3>2, FitsKept
  <2> QED
    BY <2>1, <2>2
<1>6. ASSUME NEW t \in Tui, NEW n \in Note, NEW v \in 0..MaxEdit, Dialog(t, n, v) PROVE Goal
  <2> DEFINE s == <<t, "app">>
  <2>1. call'[s].pc = "rev" /\ call'[s].doc = Text(Canonical) /\ call'[s].path = Source
    BY <1>0, <1>6 DEF Dialog, NoCall
  <2>2. Fits(s)'
    BY <1>6, <2>1 DEF Fits, Dialog, Canonical
  <2> QED
    BY <1>0, <1>6, <2>2, FitsMove DEF Dialog
<1>7. ASSUME NEW s \in Call, Take(s) PROVE Goal
  <2>1. call'[s].pc = "compare" /\ call'[s].doc = Text(Canonical) /\ call'[s].path = Source
    BY <1>0, <1>7 DEF Take, NotesTypeOK, CallState
  <2>2. Fits(s)'
    BY <1>7, <2>1 DEF Fits, Take, Canonical, Source
  <2> QED
    BY <1>0, <1>7, <2>2, FitsMove DEF Take
<1>8. ASSUME NEW s \in Call, Conflict(s) PROVE Goal
  BY <1>0, <1>8, EndsCalls, FitsMove, FitsFree DEF Conflict
<1>9. ASSUME NEW s \in Call, Agree(s), ~call'[s].crossed PROVE Fits(s)'
  <2>1. call'[s].crossed = call[s].crossed /\ call'[s].expect = call[s].expect
        /\ call'[s].note = call[s].note /\ call'[s].edit = call[s].edit
    <3>1. call \in [Call -> CallState] /\ call[s] \in CallState
      BY <1>0 DEF NotesTypeOK
    <3>2. CASE Absent(s) /\ Goto(s, "answer")
      <4>1. call' = [call EXCEPT ![s].pc = "answer"]
        BY <3>2 DEF Goto
      <4> QED
        BY <3>1, <4>1 DEF CallState
    <3>3. CASE ~Absent(s)
      <4>1. call' = [call EXCEPT ![s].pc = "tmp",
                           ![s].doc = Edited(call[s].doc, call[s].note, call[s].edit),
                           ![s].path = IF SkipPrimary THEN "fallback" ELSE "primary"]
        BY <1>9, <3>3 DEF Agree
      <4> QED
        BY <3>1, <4>1 DEF CallState
    <3> QED
      BY <1>9, <3>2, <3>3 DEF Agree
  <2>2. call[s].doc = Text(Canonical) /\ call[s].path = Source /\ call[s].expect = Canonical
    BY <1>0, <1>9, <2>1 DEF Fits, Agree, At, Canonical
  <2>3. CASE Absent(s) /\ Goto(s, "answer")
    <3>1. call'[s].pc = "answer" /\ call'[s].path = Source
      BY <1>0, <2>2, <2>3 DEF Goto, NotesTypeOK, CallState
    <3>2. Text(Canonical) = Edited(Text(Canonical), call[s].note, call[s].edit)
      BY <1>0, <2>2, <2>3 DEF Absent, Edited, Doc
    <3> QED
      BY <1>9, <2>1, <2>2, <3>1, <3>2 DEF Fits, Agree, Canonical, Source
  <2>4. CASE ~Absent(s)
    <3>1. call'[s].pc = "tmp" /\ call'[s].doc = Edited(Text(Canonical), call[s].note, call[s].edit)
      BY <1>0, <1>9, <2>2, <2>4 DEF Agree, NotesTypeOK, CallState
    <3> QED
      BY <1>9, <2>1, <2>2, <3>1 DEF Fits, Agree, Canonical, Source
  <2> QED
    BY <1>9, <2>3, <2>4 DEF Agree
<1>10. ASSUME NEW s \in Call, Agree(s) PROVE Goal
  <2>1. \A r \in Call : r # s => call'[r] = call[r]
    BY <1>0, <1>10 DEF Agree, Goto
  <2> QED
    BY <1>0, <1>9, <1>10, <2>1, FitsMove DEF Agree
<1>11. ASSUME NEW s \in Call, WriteTmp(s), ~call'[s].crossed PROVE Fits(s)'
  <2>1. call'[s].pc = "replace"
    BY <1>0, <1>11, CrossingCalls DEF WriteTmp
  <2>2. call[s].expect = Canonical /\ ~call[s].crossed
        /\ call[s].doc = Edited(Text(Canonical), call[s].note, call[s].edit)
    BY <1>0, <1>11, CrossingCalls DEF WriteTmp, Fits, At
  <2>3. Canonical' = Canonical
    BY <1>11 DEF WriteTmp, Canonical, Source
  <2>4. tmp'[call[s].path] = [doc |-> call[s].doc, at |-> clock']
    BY <1>0, <1>11 DEF WriteTmp, NotesTypeOK
  <2>5. \A p \in Path : mtime'[p] < clock'
    BY <1>0, <1>11 DEF WriteTmp, Stamps, NotesTypeOK
  <2>6. /\ call'[s].doc = call[s].doc /\ call'[s].path = call[s].path
        /\ call'[s].expect = call[s].expect /\ call'[s].note = call[s].note
        /\ call'[s].edit = call[s].edit
    BY <1>0, <1>11, CrossingCalls DEF WriteTmp
  <2> QED
    BY <2>1, <2>2, <2>3, <2>4, <2>5, <2>6 DEF Fits
<1>12. ASSUME NEW s \in Call, WriteTmp(s) PROVE Goal
  BY <1>0, <1>11, <1>12, OthersFree DEF WriteTmp, At, Locked
<1>13. ASSUME NEW s \in Call, Replace(s), ~call[s].crossed
       PROVE  /\ call[s].expect = Canonical
              /\ Canonical' = Edited(Text(Canonical), call[s].note, call[s].edit)
  BY <1>13, StepSaves
<1>14. ASSUME NEW s \in Call, Replace(s), ~call'[s].crossed PROVE Fits(s)'
  <2>1. call'[s].pc = "after"
    BY <1>0, <1>14, CrossingCalls DEF Replace
  <2>2. ~call[s].crossed
        /\ call'[s].expect = call[s].expect /\ call'[s].note = call[s].note
        /\ call'[s].edit = call[s].edit
    BY <1>0, <1>14, CrossingCalls DEF Replace
  <2>3. Edited(Text(Canonical), call[s].note, call[s].edit) \in Doc
    BY <1>0
  <2>4. Text(Canonical') = Edited(Text(Canonical), call[s].note, call[s].edit)
    BY <1>13, <1>14, <2>2, <2>3 DEF Text
  <2> QED
    BY <1>13, <1>14, <2>1, <2>2, <2>4 DEF Fits
<1>15. ASSUME NEW s \in Call, Replace(s) PROVE Goal
  BY <1>0, <1>14, <1>15, OthersFree DEF Replace, At, Locked
<1>16. ASSUME NEW s \in Call, WriteFails(s) PROVE Goal
  <2>1. CASE call' = [call EXCEPT ![s].pc = "tmp", ![s].path = "fallback"]
    <3>1. /\ call'[s].pc = "tmp" /\ call'[s].expect = call[s].expect /\ call'[s].doc = call[s].doc
          /\ call'[s].note = call[s].note /\ call'[s].edit = call[s].edit
          /\ call'[s].crossed = call[s].crossed
      BY <1>0, <2>1 DEF NotesTypeOK, CallState
    <3>2. ~call'[s].crossed => Fits(s)'
      BY <1>0, <1>16, <3>1 DEF WriteFails, At, Fits, Canonical, Source
    <3> QED
      BY <1>0, <1>16, <2>1, <3>2, FitsMove DEF WriteFails
  <2>2. CASE Ends(s, "lock")
    BY <1>0, <1>16, <2>2, EndsCalls, FitsMove, FitsFree DEF WriteFails
  <2> QED
    BY <1>16, <2>1, <2>2 DEF WriteFails
<1>17. ASSUME NEW s \in Call, After(s) PROVE Goal
  <2>1. /\ call'[s].pc = "answer" /\ call'[s].path = Source /\ call'[s].expect = call[s].expect
        /\ call'[s].note = call[s].note /\ call'[s].edit = call[s].edit
        /\ call'[s].crossed = call[s].crossed
    BY <1>0, <1>17 DEF After, NotesTypeOK, CallState
  <2>2. ~call'[s].crossed => Fits(s)'
    BY <1>0, <1>17, <2>1 DEF After, At, Fits, Canonical, Source
  <2> QED
    BY <1>0, <1>17, <2>2, FitsMove DEF After
<1>18. ASSUME NEW s \in Call, Answer(s) PROVE Goal
  BY <1>0, <1>18, EndsCalls, FitsMove, FitsFree DEF Answer
<1>19. ASSUME NEW p \in Process, Crash(p) PROVE Goal
  <2>1. \A r \in Call : call'[r] = call[r] \/ call'[r].pc = "idle"
    BY <1>0, <1>19 DEF Crash
  <2> QED
    BY <1>0, <1>19, <2>1, FitsKept, FitsFree DEF Crash
<1>20. ASSUME UNCHANGED vars PROVE Goal
  BY <1>0, <1>20, FitsKept DEF vars
<1> QED
  BY <1>1, <1>2, <1>3, <1>4, <1>5, <1>6, <1>7, <1>8, <1>10, <1>12, <1>15, <1>16, <1>17, <1>18,
     <1>19, <1>20 DEF NotesNext, Work
\* An editor whose call and view do not move expects what it expected; so does
\* one whose call has only been cut.
LEMMA ExpectsKept ==
  ASSUME NEW e \in Editor, Expects(e), view'[e] = view[e],
         \/ call'[<<e, "owner">>].pc \in {"idle", "rev"}
         \/ /\ call[<<e, "owner">>].pc = "lock" \/ call[<<e, "owner">>].pc \in Locked
            /\ call'[<<e, "owner">>].expect = call[<<e, "owner">>].expect
            /\ call[<<e, "owner">>].crossed => call'[<<e, "owner">>].crossed
         \/ call'[<<e, "owner">>] = call[<<e, "owner">>]
  PROVE  Expects(e)'
BY DEF Expects, Locked

LEMMA ExpectsStay ==
  Guarded /\ [NotesNext]_vars => \A e \in Editor : Expects(e)'
<1> SUFFICES ASSUME Guarded, [NotesNext]_vars, NEW e \in Editor
             PROVE  Expects(e)'
  OBVIOUS
<1> DEFINE o == <<e, "owner">>
<1> USE Pieces, IdleCall, ClientCalls
<1>0. NotesTypeOK /\ Expects(e) /\ o \in Call
  BY DEF Guarded
<1>1. ASSUME NEW f \in Editor, Render(f) PROVE Expects(e)'
  <2>1. call'[o].pc = "rev" \/ call'[o] = call[o]
    BY <1>0, <1>1 DEF Render, NoCall
  <2> QED
    BY <1>0, <1>1, <2>1, ExpectsKept DEF Render
<1>2. ASSUME NEW f \in Editor, EditorRev(f) PROVE Expects(e)'
  <2>1. CASE f = e
    BY <1>0, <1>2, <2>1 DEF EditorRev, Expects, Locked
  <2>2. CASE f # e
    BY <1>0, <1>2, <2>2, ExpectsKept DEF EditorRev
  <2> QED
    BY <2>1, <2>2
<1>3. ASSUME NEW f \in Editor, NEW n \in Note, NEW v \in 0..MaxEdit, Save(f, n, v) PROVE Expects(e)'
  <2>1. CASE f = e
    <3>1. call'[o].expect = view[e].rev /\ call'[o].crossed = view[e].crossed
      BY <1>0, <1>3, <2>1 DEF Save, NoCall
    <3> QED
      BY <1>3, <3>1 DEF Save, Expects
  <2>2. CASE f # e
    BY <1>0, <1>3, <2>2, ExpectsKept DEF Save
  <2> QED
    BY <2>1, <2>2
<1>4. ASSUME NEW t \in Tui, TuiRev(t) PROVE Expects(e)'
  <2>1. ClientOf(o) # t
    BY DEF ClientOf
  <2>2. call'[o] = call[o]
    BY <1>0, <1>4, <2>1, AskedCalls
  <2>3. view' = view
    BY <1>4 DEF TuiRev
  <2> QED
    BY <1>0, <2>2, <2>3, ExpectsKept
<1>5. ASSUME NEW t \in Tui, AskFails(t) PROVE Expects(e)'
  <2>1. ClientOf(o) # t
    BY DEF ClientOf
  <2>2. call'[o] = call[o]
    BY <1>0, <1>5, <2>1, FailedCalls
  <2>3. view' = view
    BY <1>5 DEF AskFails
  <2> QED
    BY <1>0, <2>2, <2>3, ExpectsKept
<1>6. ASSUME NEW t \in Tui, NEW n \in Note, NEW v \in 0..MaxEdit, Dialog(t, n, v) PROVE Expects(e)'
  BY <1>0, <1>6, ExpectsKept DEF Dialog
<1>7. ASSUME NEW s \in Call, UNCHANGED view, call[s].pc = "lock" \/ call[s].pc \in Locked,
             call'[s].expect = call[s].expect, call'[s].crossed = call[s].crossed,
             \A r \in Call : r # s => call'[r] = call[r]
      PROVE  Expects(e)'
  BY <1>0, <1>7, ExpectsKept
<1>8. ASSUME NEW s \in Call, Take(s) \/ Agree(s) \/ After(s) PROVE Expects(e)'
  <2>1. call'[s].expect = call[s].expect /\ call'[s].crossed = call[s].crossed
    BY <1>0, <1>8 DEF Take, Agree, After, Goto, NotesTypeOK, CallState
  <2>2. \A r \in Call : r # s => call'[r] = call[r]
    BY <1>0, <1>8 DEF Take, Agree, After, Goto
  <2> QED
    BY <1>7, <1>8, <2>1, <2>2 DEF Take, Agree, After, At, Locked
<1>9. ASSUME NEW s \in Call, NEW next \in {"idle", "lock"}, Ends(s, next), UNCHANGED view
      PROVE  Expects(e)'
  <2>1. call'[o].pc = "idle" \/ call'[o] = call[o]
    BY <1>0, <1>9, EndsCalls DEF ProcessOf
  <2> QED
    BY <1>0, <1>9, <2>1, ExpectsKept
<1>10. ASSUME NEW s \in Call, WriteTmp(s) \/ Replace(s) PROVE Expects(e)'
  <2>1. PICK place : Crossing(s, place) /\ call[s].pc \in {"tmp", "replace"}
    BY <1>10 DEF WriteTmp, Replace, At
  <2>2. /\ call'[o].expect = call[o].expect
        /\ call[o].crossed => call'[o].crossed
        /\ o # s => call'[o].pc = call[o].pc
    BY <1>0, <2>1, CrossingCalls
  <2>3. CASE o = s
    BY <1>0, <1>10, <2>1, <2>2, <2>3, ExpectsKept DEF WriteTmp, Replace, Locked
  <2>4. CASE o # s
    BY <1>0, <1>10, <2>2, <2>4 DEF WriteTmp, Replace, Expects
  <2> QED
    BY <2>3, <2>4
<1>11. ASSUME NEW s \in Call, WriteFails(s) PROVE Expects(e)'
  <2>1. CASE call' = [call EXCEPT ![s].pc = "tmp", ![s].path = "fallback"]
    <3>1. call'[s].expect = call[s].expect /\ call'[s].crossed = call[s].crossed
      BY <1>0, <2>1 DEF NotesTypeOK, CallState
    <3> QED
      BY <1>0, <1>7, <1>11, <2>1, <3>1 DEF WriteFails, At, Locked
  <2> QED
    BY <1>9, <1>11, <2>1 DEF WriteFails
<1>12. ASSUME NEW s \in Call, Answer(s) PROVE Expects(e)'
  <2>1. CASE o = s
    BY <1>0, <1>12, <2>1, EndsCalls DEF Answer, Expects, Locked
  <2>2. CASE o # s
    <3>1. call'[o] = call[o]
      BY <1>0, <1>12, <2>2, EndsCalls DEF Answer, ProcessOf
    <3>2. ClientOf(s) # e \/ ClientOf(s) \notin Editor
      BY <2>2 DEF ClientOf, Call
    <3>3. view'[e] = view[e]
      BY <1>0, <1>12, <3>2 DEF Answer, NotesTypeOK
    <3> QED
      BY <1>0, <3>1, <3>3, ExpectsKept
  <2> QED
    BY <2>1, <2>2
<1>13. ASSUME NEW p \in Process, Crash(p) PROVE Expects(e)'
  <2>1. call'[o].pc = "idle" \/ call'[o] = call[o]
    BY <1>0, <1>13 DEF Crash
  <2> QED
    BY <1>0, <1>13, <2>1, ExpectsKept DEF Crash
<1>14. ASSUME UNCHANGED vars PROVE Expects(e)'
  BY <1>0, <1>14, ExpectsKept DEF vars
<1>15. ASSUME NEW s \in Call, Conflict(s) PROVE Expects(e)'
  BY <1>9, <1>15 DEF Conflict
<1> QED
  BY <1>1, <1>2, <1>3, <1>4, <1>5, <1>6, <1>8, <1>10, <1>11, <1>12, <1>13, <1>14, <1>15
     DEF NotesNext, Work

\* Views: a snapshot brings text and revision, an answer a revision for what
\* the editor shows.
LEMMA NamesStay == Guarded /\ [NotesNext]_vars => RevisionNamesText'
<1> SUFFICES ASSUME Guarded, [NotesNext]_vars PROVE RevisionNamesText'
  OBVIOUS
<1> USE Pieces, ClientCalls
<1>0. NotesTypeOK /\ RevisionNamesText /\ (\A s \in Call : ~call[s].crossed => Fits(s))
      /\ \A e \in Editor : Expects(e)
  BY DEF Guarded
<1>1. ASSUME NEW e \in Editor, EditorRev(e) PROVE RevisionNamesText'
  <2> DEFINE s == <<e, "owner">>
  <2>1. ~call[s].crossed => call[s].doc = Text(file[call[s].path])
    BY <1>0, <1>1 DEF EditorRev, Fits, At
  <2>2. view'[e].text = call[s].doc /\ view'[e].rev = file[call[s].path]
        /\ view'[e].crossed = call[s].crossed
    BY <1>0, <1>1 DEF EditorRev, NotesTypeOK
  <2>3. \A f \in Editor : f # e => view'[f] = view[f]
    BY <1>0, <1>1 DEF EditorRev, NotesTypeOK
  <2> QED
    BY <1>0, <2>1, <2>2, <2>3 DEF RevisionNamesText
<1>2. ASSUME NEW s \in Call, Answer(s), ClientOf(s) \in Editor PROVE RevisionNamesText'
  <2> DEFINE e == ClientOf(s)
  <2>1. s = <<e, "owner">>
    BY <1>2, NotesAssumption DEF ClientOf, Call
  <2>2. ~call[s].crossed => Text(Canonical) = Edited(Text(view[e].rev), call[s].note, call[s].edit)
                            /\ call[s].path = Source /\ ~view[e].crossed
    <3> SUFFICES ASSUME ~call[s].crossed
                 PROVE  Text(Canonical) = Edited(Text(view[e].rev), call[s].note, call[s].edit)
                        /\ call[s].path = Source /\ ~view[e].crossed
      OBVIOUS
    <3>1. call[s].pc = "answer"
      BY <1>2 DEF Answer, At
    <3>2. call[s].expect = view[e].rev /\ ~view[e].crossed
      <4>1. Expects(e)
        BY <1>0, <1>2
      <4>2. call[<<e, "owner">>].expect = view[e].rev
            /\ (view[e].crossed => call[<<e, "owner">>].crossed)
        BY <2>1, <3>1, <4>1 DEF Expects, Locked
      <4> QED
        BY <2>1, <4>2, Zenon
    <3>3. Text(Canonical) = Edited(Text(call[s].expect), call[s].note, call[s].edit)
          /\ call[s].path = Source
      BY <1>0, <3>1 DEF Fits
    <3> QED
      BY <3>2, <3>3
  <2>3. /\ view'[e].text = Edited(view[e].text, call[s].note, call[s].edit)
        /\ view'[e].rev = file[call[s].path] /\ view'[e].crossed = call[s].crossed
    BY <1>0, <1>2 DEF Answer, NotesTypeOK
  <2>4. \A f \in Editor : f # e => view'[f] = view[f]
    BY <1>0, <1>2 DEF Answer, NotesTypeOK
  <2>5. ~view'[e].crossed => view'[e].text = Text(view'[e].rev)
    BY <1>0, <1>2, <2>2, <2>3 DEF RevisionNamesText, Canonical
  <2> QED
    BY <1>0, <2>4, <2>5 DEF RevisionNamesText
<1>3. UNCHANGED view => RevisionNamesText'
  BY <1>0 DEF RevisionNamesText
<1>4. ASSUME NEW s \in Call, Answer(s), ClientOf(s) \notin Editor PROVE UNCHANGED view
  BY <1>4 DEF Answer
<1> QED
  BY <1>1, <1>2, <1>3, <1>4 DEF NotesNext, Work, Render, Save, TuiRev, AskFails, Dialog, Take,
     Conflict, Agree, WriteTmp, Replace, WriteFails, After, Crash, vars

LEMMA InitGuarded == NotesInit => Guarded
<1> SUFFICES ASSUME NotesInit PROVE Guarded
  OBVIOUS
<1>1. \A s \in Call : call[s].pc = "idle"
  BY IdleCall DEF NotesInit
<1>2. Locks /\ (\A s \in Call : ~call[s].crossed => Fits(s)) /\ \A e \in Editor : Expects(e)
  BY <1>1, ClientCalls DEF Locks, Fits, Expects, Locked
<1>3. Stamps /\ RevisionNamesText
  BY DEF NotesInit, Stamps, RevisionNamesText, NoView, Text
<1> QED
  BY <1>2, <1>3, InitTypes DEF Guarded

LEMMA StepGuarded == Guarded /\ [NotesNext]_vars => Guarded'
BY StepTypes, LocksStay, StampsStay, FitsStay, ExpectsStay, NamesStay DEF Guarded

\* The revision of an editor is that of the text it shows, unless a write has
\* cut a snapshot or an answer in two.
THEOREM RevisionsNameTexts == NotesSpec => []RevisionNamesText
<1>1. Guarded => RevisionNamesText
  BY DEF Guarded
<1> QED
  BY <1>1, InitGuarded, StepGuarded, PTL DEF NotesSpec

\* A save that nobody has cut in two changes its own note in the document that
\* its client expected, and is canonical afterwards.
THEOREM SavesAreGuarded == NotesSpec => GuardedSave
<1>1. Guarded /\ [NotesNext]_vars =>
        [\A s \in Call : Replace(s) /\ ~call[s].crossed =>
           /\ call[s].expect = Canonical
           /\ Canonical' = Edited(Text(Canonical), call[s].note, call[s].edit)]_vars
  BY StepSaves
<1> QED
  BY <1>1, InitGuarded, StepGuarded, PTL DEF NotesSpec, GuardedSave
=============================================================================
