----------------------------- MODULE NotesStore -----------------------------
(***************************************************************************)
(* The operator notes of one session: a file beside the session, a file    *)
(* under ~/.groket/notes where that cannot be written, and who changes     *)
(* them (notes.py, integrations/control.py, ui/screens/browser.py).        *)
(* Editors save through the control owner.  The terminal app asks the      *)
(* owner too and writes by itself when that fails.  Owner and app are two  *)
(* processes; a mutation holds a lock of its process.  A step is one       *)
(* access to the disk; the load of both files is one.                      *)
(***************************************************************************)
EXTENDS Naturals

CONSTANTS
  Note,        \* ids of notes
  Editor,      \* Emacs and Vim buffers that show the session
  Tui,         \* terminal apps that show it
  None,        \* no file; its revision is the hash of nothing
  SkipPrimary, \* the session is a host session or a symlink
  Unwritable,  \* the paths where a write may fail
  MaxEdit      \* bound: edits that users make

ASSUME NotesAssumption ==
  /\ Note # {} /\ Editor \cap Tui = {}
  /\ None \notin [Note -> Nat] /\ None \notin (Editor \cup Tui) \X {"owner", "app"}
  /\ SkipPrimary \in BOOLEAN /\ Unwritable \subseteq {"primary", "fallback"} /\ MaxEdit \in Nat

VARIABLES
  file,  \* per path: the document in it, or None
  mtime, \* per path: when that document was written
  tmp,   \* per path: the temporary file, if there is one, and when it was written
  clock, \* the number of writes
  lock,  \* per process: the call that holds the notes lock
  call,  \* per client and process: the call under way, and its local variables
  view,  \* per editor: the document it shows and the revision it believes that to be
  edits  \* the number of edits that users have made

vars == <<file, mtime, tmp, clock, lock, call, view, edits>>

Client == Editor \cup Tui
Process == {"owner", "app"}
Path == {"primary", "fallback"}

\* The threads that work for a client: one of the owner's, and the app's own.
Call == (Client \X {"owner"}) \cup (Tui \X {"app"})
ClientOf(s) == s[1]
ProcessOf(s) == s[2]

\* A document: per note the edit that wrote it, 0 when there is no such note.
\* The hash of a file is as good as its contents.
Doc == [Note -> Nat]
Content == Doc \cup {None}
Empty == [n \in Note |-> 0]

\* Mutant: a session without notes has no document.
TextOfFile(content) == content

Text(content) == IF content = None THEN Empty ELSE content

\* Places of a call: rev, ask without the lock, the others but idle and lock with it.
CallPC == {"idle", "rev", "ask", "lock", "compare", "tmp", "replace", "after", "answer"}
Locked == {"compare", "tmp", "replace", "after", "answer"}

\* crossed: somebody else has written between two accesses of this call that
\* the code takes for one (also of the call that its revision is from).
CallState == [pc : CallPC, note : Note, edit : Nat, expect : Content, doc : Doc,
              path : Path, heard : BOOLEAN, crossed : BOOLEAN]

NoCall == [pc |-> "idle", note |-> CHOOSE n \in Note : TRUE, edit |-> 0, expect |-> None,
           doc |-> Empty, path |-> "primary", heard |-> TRUE, crossed |-> FALSE]

NoView == [text |-> Empty, rev |-> None, crossed |-> FALSE]

Tmp == [doc : Doc, at : Nat]

NotesTypeOK ==
  /\ file \in [Path -> Content] /\ mtime \in [Path -> Nat]
  /\ tmp \in [Path -> Tmp \cup {None}] /\ clock \in Nat
  /\ lock \in [Process -> Call \cup {None}]
  /\ call \in [Call -> CallState]
  /\ view \in [Editor -> [text : Doc, rev : Content, crossed : BOOLEAN]]
  /\ edits \in Nat

NotesInit ==
  /\ file = [p \in Path |-> None] /\ mtime = [p \in Path |-> 0]
  /\ tmp = [p \in Path |-> None] /\ clock = 0
  /\ lock = [p \in Process |-> None]
  /\ call = [s \in Call |-> NoCall]
  /\ view = [e \in Editor |-> NoView] /\ edits = 0

\* _load_notes_source: the newer of the two files.
Source ==
  IF file["fallback"] = None \/ (file["primary"] # None /\ mtime["primary"] >= mtime["fallback"])
  THEN "primary" ELSE "fallback"

Canonical == file[Source]

At(s, place) == call[s].pc = place
Goto(s, place) == call' = [call EXCEPT ![s].pc = place]

Edited(doc, n, v) == [doc EXCEPT ![n] = v]

-----------------------------------------------------------------------------
(* What users do.                                                          *)

\* session/render of an editor: the document first, its revision second.
Render(e) ==
  /\ At(<<e, "owner">>, "idle")
  /\ call' = [call EXCEPT ![<<e, "owner">>] =
                [NoCall EXCEPT !.pc = "rev", !.doc = Text(Canonical), !.path = Source]]
  /\ UNCHANGED <<file, mtime, tmp, clock, lock, view, edits>>

\* A user edits or deletes a note: v is 0 for a deletion.
Types(v) == edits < MaxEdit /\ edits' = edits + 1 /\ v \in {0, edits + 1}

\* An editor saves: notes/upsert, notes/delete with the revision of its buffer.
Save(e, n, v) ==
  /\ At(<<e, "owner">>, "idle") /\ Types(v)
  /\ v = 0 => view[e].text[n] # 0
  /\ call' = [call EXCEPT ![<<e, "owner">>] =
                [NoCall EXCEPT !.pc = "lock", !.note = n, !.edit = v, !.expect = view[e].rev,
                               !.crossed = view[e].crossed]]
  /\ UNCHANGED <<file, mtime, tmp, clock, lock, view>>

\* The app, in a dialog or by a key on a note that its screen still shows, takes
\* a snapshot of the disk first.  (A request that it has given up is over before
\* the next one starts: a bound.)
Dialog(t, n, v) ==
  /\ At(<<t, "app">>, "idle") /\ At(<<t, "owner">>, "idle") /\ Types(v)
  /\ call' = [call EXCEPT ![<<t, "app">>] =
                [NoCall EXCEPT !.pc = "rev", !.note = n, !.edit = v,
                               !.doc = Text(Canonical), !.path = Source]]
  /\ UNCHANGED <<file, mtime, tmp, clock, lock, view>>

-----------------------------------------------------------------------------
(* Snapshots and requests.                                                 *)

\* notes_snapshot reads the file again for its revision.
EditorRev(e) ==
  LET s == <<e, "owner">> IN
  /\ At(s, "rev")
  /\ view' = [view EXCEPT ![e] = [text |-> call[s].doc, rev |-> file[call[s].path],
                                  crossed |-> call[s].crossed]]
  /\ call' = [call EXCEPT ![s] = NoCall]
  /\ UNCHANGED <<file, mtime, tmp, clock, lock, edits>>

\* The app sends its revision to the owner.
TuiRev(t) ==
  LET s == <<t, "app">>
      asked == [call[s] EXCEPT !.pc = "lock", !.expect = file[call[s].path], !.doc = Empty,
                               !.path = "primary"]
  IN
  /\ At(s, "rev")
  /\ call' = [call EXCEPT ![s] = [asked EXCEPT !.pc = "ask"], ![<<t, "owner">>] = asked]
  /\ UNCHANGED <<file, mtime, tmp, clock, lock, view, edits>>

\* The request fails, times out or loses its answer: the app writes by itself,
\* with the same revision, while the owner may still be at work.
AskFails(t) ==
  /\ At(<<t, "app">>, "ask")
  /\ call' = [call EXCEPT ![<<t, "app">>].pc = "lock", ![<<t, "owner">>].heard = FALSE]
  /\ UNCHANGED <<file, mtime, tmp, clock, lock, view, edits>>

-----------------------------------------------------------------------------
(* upsert_note and delete_note.                                            *)

\* The client of call s learns how it ended; `next` is the place of an app
\* that has waited for it.
Ends(s, next) ==
  LET c == ClientOf(s) IN
  call' = [r \in Call |->
             IF r = s THEN NoCall
             ELSE IF r = <<c, "app">> /\ call[s].heard /\ At(r, "ask")
             THEN [call[r] EXCEPT !.pc = next] ELSE call[r]]

Unlock(s) == lock' = [lock EXCEPT ![ProcessOf(s)] = None]

\* Mutant: two threads of a process at once.
TakeNoLock(s) ==
  /\ At(s, "lock")
  /\ call' = [call EXCEPT ![s].pc = "compare", ![s].doc = Text(Canonical), ![s].path = Source]
  /\ UNCHANGED <<file, mtime, tmp, clock, lock, view, edits>>

Take(s) ==
  /\ At(s, "lock") /\ lock[ProcessOf(s)] = None
  /\ lock' = [lock EXCEPT ![ProcessOf(s)] = s]
  /\ call' = [call EXCEPT ![s].pc = "compare", ![s].doc = Text(Canonical), ![s].path = Source]
  /\ UNCHANGED <<file, mtime, tmp, clock, view, edits>>

\* Mutant: the error path keeps the lock.
ConflictKeepsLock(s) ==
  /\ At(s, "compare") /\ file[call[s].path] # call[s].expect
  /\ Ends(s, "idle")
  /\ UNCHANGED <<file, mtime, tmp, clock, lock, view, edits>>

\* NotesConflict.
Conflict(s) ==
  /\ At(s, "compare") /\ file[call[s].path] # call[s].expect
  /\ Ends(s, "idle") /\ Unlock(s)
  /\ UNCHANGED <<file, mtime, tmp, clock, view, edits>>

\* The note to delete is not there: the snapshot is the answer.
Absent(s) == call[s].edit = 0 /\ call[s].doc[call[s].note] = 0

\* The revision is the expected one: the document is changed and saved.
Agree(s) ==
  /\ At(s, "compare") /\ file[call[s].path] = call[s].expect
  /\ \/ Absent(s) /\ Goto(s, "answer")
     \/ /\ ~Absent(s)
        /\ call' = [call EXCEPT ![s].pc = "tmp",
                      ![s].doc = Edited(call[s].doc, call[s].note, call[s].edit),
                      ![s].path = IF SkipPrimary THEN "fallback" ELSE "primary"]
  /\ UNCHANGED <<file, mtime, tmp, clock, lock, view, edits>>

\* What a write by call s to the disk does to the calls that it cuts in two.
Cuts(s, r) ==
  /\ r # s
  /\ call[r].pc = "rev" \/ (call[r].pc \in Locked /\ ProcessOf(r) # ProcessOf(s))

Crossing(s, place) ==
  call' = [r \in Call |->
             IF r = s THEN [call[s] EXCEPT !.pc = place]
             ELSE [call[r] EXCEPT !.crossed = @ \/ Cuts(s, r)]]

\* _atomic_write: all of the new file, then its new name.
WriteTmp(s) ==
  /\ At(s, "tmp")
  /\ clock' = clock + 1
  /\ tmp' = [tmp EXCEPT ![call[s].path] = [doc |-> call[s].doc, at |-> clock + 1]]
  /\ Crossing(s, "replace")
  /\ UNCHANGED <<file, mtime, lock, view, edits>>

Replace(s) ==
  LET p == call[s].path IN
  /\ At(s, "replace") /\ tmp[p] # None
  /\ file' = [file EXCEPT ![p] = tmp[p].doc] /\ mtime' = [mtime EXCEPT ![p] = tmp[p].at]
  /\ tmp' = [tmp EXCEPT ![p] = None]
  /\ Crossing(s, "after")
  /\ UNCHANGED <<clock, lock, view, edits>>

\* A write fails, or the rename, as another process has renamed the temporary
\* file away: the fallback is tried, then it is an error.
WriteFails(s) ==
  LET p == call[s].path IN
  /\ \/ At(s, "tmp") /\ p \in Unwritable
     \/ At(s, "replace") /\ tmp[p] = None
  /\ \/ /\ p = "primary" /\ call' = [call EXCEPT ![s].pc = "tmp", ![s].path = "fallback"]
        /\ UNCHANGED lock
     \/ p = "fallback" /\ Ends(s, "lock") /\ Unlock(s)
  /\ UNCHANGED <<file, mtime, tmp, clock, view, edits>>

\* The snapshot for the answer.
After(s) ==
  /\ At(s, "after")
  /\ call' = [call EXCEPT ![s].pc = "answer", ![s].path = Source, ![s].doc = Empty]
  /\ UNCHANGED <<file, mtime, tmp, clock, lock, view, edits>>

\* Mutant: the editor goes on with the revision that it sent.
AnswerOldRevision(s) ==
  /\ At(s, "answer")
  /\ Ends(s, "idle") /\ Unlock(s)
  /\ IF ClientOf(s) \in Editor
     THEN view' = [view EXCEPT ![ClientOf(s)].text =
                                 Edited(view[ClientOf(s)].text, call[s].note, call[s].edit)]
     ELSE UNCHANGED view
  /\ UNCHANGED <<file, mtime, tmp, clock, edits>>

\* The answer: an editor keeps its text and takes the new revision.
Answer(s) ==
  LET c == ClientOf(s) IN
  /\ At(s, "answer")
  /\ Ends(s, "idle") /\ Unlock(s)
  /\ IF c \in Editor
     THEN view' = [view EXCEPT ![c] = [text |-> Edited(view[c].text, call[s].note, call[s].edit),
                                       rev |-> file[call[s].path],
                                       crossed |-> call[s].crossed]]
     ELSE UNCHANGED view
  /\ UNCHANGED <<file, mtime, tmp, clock, edits>>

Work(s) ==
  \/ Take(s) \/ Conflict(s) \/ Agree(s) \/ WriteTmp(s) \/ Replace(s) \/ WriteFails(s)
  \/ After(s) \/ Answer(s)

\* A process dies, and with it its lock and its calls; the app notices a dead
\* owner when its request fails.
Crash(p) ==
  /\ call' = [s \in Call |-> IF ProcessOf(s) = p THEN NoCall ELSE call[s]]
  /\ lock' = [lock EXCEPT ![p] = None]
  /\ UNCHANGED <<file, mtime, tmp, clock, view, edits>>

NotesNext ==
  \/ \E e \in Editor : Render(e) \/ EditorRev(e) \/ (\E n \in Note, v \in 0..MaxEdit : Save(e, n, v))
  \/ \E t \in Tui : TuiRev(t) \/ AskFails(t) \/ (\E n \in Note, v \in 0..MaxEdit : Dialog(t, n, v))
  \/ \E s \in Call : Work(s)
  \/ \E p \in Process : Crash(p)

NotesSpec == NotesInit /\ [][NotesNext]_vars

\* Threads run on, and a request ends, by its timeout if by nothing else.
NotesFairSpec ==
  /\ NotesSpec
  /\ \A s \in Call : WF_vars(Work(s))
  /\ \A e \in Editor : WF_vars(EditorRev(e))
  /\ \A t \in Tui : WF_vars(TuiRev(t)) /\ WF_vars(AskFails(t))

-----------------------------------------------------------------------------
\* "a revision suitable for guarded mutation": the revision of an editor is
\* that of the text it shows, unless a write has cut a snapshot in two.
RevisionNamesText ==
  \A e \in Editor : ~view[e].crossed => view[e].text = Text(view[e].rev)

\* A save changes its own note in the document that its client expected, and
\* nothing that the client does not know, unless a write by another process,
\* or one in the middle of the client's snapshot, has come in between.  The
\* document that readers take for canonical afterwards is the saved one.
GuardedSave ==
  [][\A s \in Call : Replace(s) /\ ~call[s].crossed =>
       /\ call[s].expect = Canonical
       /\ Canonical' = Edited(Text(Canonical), call[s].note, call[s].edit)]_vars

\* Nobody waits for the notes lock for ever, whatever fails or dies.
CallsEnd == \A s \in Call : ~At(s, "idle") ~> At(s, "idle")
=============================================================================
