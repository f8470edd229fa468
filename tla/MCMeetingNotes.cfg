SPECIFICATION Spec
CONSTANTS
    Texts = {t1, t2}
    Blank = Blank
    None = None
    Saves = {1, 2}
    MaxEdits = 3
    MaxParked = 1
INVARIANTS
    NotesAreSomewhere
    StatusIsTrue
PROPERTY
    AutosaveSettles
CHECK_DEADLOCK FALSE
