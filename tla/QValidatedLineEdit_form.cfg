\* A form with two validated line edits sharing the keyboard focus; each
\* may or may not have a checkValidator.
CONSTANTS
  Edits = {e1, e2}
  NoEdit = NoEdit
SPECIFICATION Spec
INVARIANTS TypeOK NoStaleInvalid
