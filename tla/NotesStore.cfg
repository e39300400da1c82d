CONSTANTS
  Note = {n1}
  Editor = {e}
  Tui = {t}
  None = None
  SkipPrimary = FALSE
  Unwritable = {"primary"}
  MaxEdit = 2
SPECIFICATION NotesFairSpec
INVARIANTS NotesTypeOK RevisionNamesText
PROPERTIES GuardedSave CallsEnd
