------------------------- MODULE QValidatedLineEdit -------------------------
(***************************************************************************)
(* The validity flag of src/hub-qt/qvalidatedlineedit.cpp, for a form of   *)
(* several QValidatedLineEdit widgets that share one keyboard focus.  Each *)
(* edit keeps a `valid` flag that drives its red "invalid" style: typing   *)
(* (the textChanged -> markValid connection), focus-in, clear() and        *)
(* disabling set it, focus-out and enabling recompute it with              *)
(* checkValidity().                                                        *)
(*                                                                         *)
(* Texts are abstracted to what the two validators tell apart: the empty   *)
(* text, a text the line edit's own validator finds only Intermediate, a   *)
(* text it accepts that the stricter checkValidator rejects (an address of *)
(* another network), and a fully valid address.                            *)
(*                                                                         *)
(* Qt's own behaviour the handlers rely on is taken from QWidget: moving   *)
(* the focus sends focusOut to the old widget before focusIn to the new,   *)
(* and disabling the focus widget moves the focus away from it.            *)
(***************************************************************************)
EXTENDS Naturals

CONSTANTS
  Edits,   \* the QValidatedLineEdit widgets of the form
  NoEdit   \* no widget of the form has the focus

Texts == {"empty", "intermediate", "otherNetwork", "address"}

(* QLineEdit::hasAcceptableInput() under the edit's own validator.         *)
Acceptable(t) == t \in {"otherNetwork", "address"}

(* checkValidator->validate(address, pos) == QValidator::Acceptable.       *)
CheckAccepts(t) == t = "address"

VARIABLES
  text,            \* text(): the current contents of each edit
  valid,           \* the valid member
  enabled,         \* QWidget::isEnabled()
  checkValidator,  \* whether setCheckValidator gave the edit a validator
  focus            \* the focus widget of the form

vars == <<text, valid, enabled, checkValidator, focus>>

-----------------------------------------------------------------------------
(* The flag checkValidity() leaves for text t: valid when empty, valid     *)
(* when acceptable and (with a checkValidator) accepted by it too, and     *)
(* invalid otherwise.  setValid only stores its argument (the early return *)
(* when nothing changes skips the style update alone).                     *)
Verdict(t, cv) ==
  \/ t = "empty"
  \/ Acceptable(t) /\ (~cv \/ CheckAccepts(t))

(* Mutant: checkValidity without its first branch for the empty text.      *)
CheckValidityNoEmpty(e) == Acceptable(text[e]) /\ (~checkValidator[e] \/ CheckAccepts(text[e]))

(* QValidatedLineEdit::checkValidity for edit e: the new valid flag.       *)
CheckValidity(e) == Verdict(text[e], checkValidator[e])

(* QValidatedLineEdit::isValid: a text the checkValidator accepts is valid *)
(* even when the flag says otherwise (the edit may be disabled).           *)
IsValid(e) == (checkValidator[e] /\ CheckAccepts(text[e])) \/ valid[e]

Init ==
  /\ text = [e \in Edits |-> "empty"]
  /\ valid = [e \in Edits |-> TRUE]
  /\ enabled = [e \in Edits |-> TRUE]
  /\ checkValidator \in [Edits -> BOOLEAN]
  /\ focus = NoEdit

(* Mutant: textChanged is not connected to markValid.                      *)
SetTextUnmarked(e, t) ==
  /\ t # text[e]
  /\ text' = [text EXCEPT ![e] = t]
  /\ UNCHANGED <<valid, enabled, checkValidator, focus>>

(* The text changes, typed by the user into the focus widget or set by     *)
(* the program: QLineEdit emits textChanged (only for a different text)    *)
(* and markValid() sets the flag so the edit shows valid while typing.     *)
SetText(e, t) ==
  /\ t # text[e]
  /\ text' = [text EXCEPT ![e] = t]
  /\ valid' = [valid EXCEPT ![e] = TRUE]
  /\ UNCHANGED <<enabled, checkValidator, focus>>

(* The focus moves to enabled edit e: focusOutEvent (checkValidity) on the *)
(* edit that had it, then focusInEvent (setValid(true)) on e.              *)
FocusIn(e) ==
  /\ enabled[e] /\ focus # e
  /\ valid' = [d \in Edits |-> IF d = e THEN TRUE
                               ELSE IF d = focus THEN CheckValidity(d)
                               ELSE valid[d]]
  /\ focus' = e
  /\ UNCHANGED <<text, enabled, checkValidator>>

(* The focus leaves the form: focusOutEvent on the focus widget.           *)
FocusOut ==
  /\ focus # NoEdit
  /\ valid' = [valid EXCEPT ![focus] = CheckValidity(focus)]
  /\ focus' = NoEdit
  /\ UNCHANGED <<text, enabled, checkValidator>>

(* QValidatedLineEdit::clear: setValid(true), then QLineEdit::clear(),     *)
(* whose textChanged marks the edit valid again.                           *)
Clear(e) ==
  /\ text' = [text EXCEPT ![e] = "empty"]
  /\ valid' = [valid EXCEPT ![e] = TRUE]
  /\ UNCHANGED <<enabled, checkValidator, focus>>

(* Mutant: the disabled edit keeps the focus.                             *)
DisableKeepFocus(e) ==
  /\ enabled[e]
  /\ enabled' = [enabled EXCEPT ![e] = FALSE]
  /\ valid' = [valid EXCEPT ![e] = TRUE]
  /\ UNCHANGED <<text, checkValidator, focus>>

(* QValidatedLineEdit::setEnabled(false): setValid(true), then             *)
(* QLineEdit::setEnabled(false), which moves the focus away from e when e  *)
(* has it (to another enabled edit or out of the form) and so runs e's     *)
(* focusOutEvent, and the new focus widget's focusInEvent.                 *)
Disable(e) ==
  /\ enabled[e]
  /\ enabled' = [enabled EXCEPT ![e] = FALSE]
  /\ IF focus = e
     THEN \E next \in {d \in Edits \ {e} : enabled[d]} \cup {NoEdit} :
            /\ focus' = next
            /\ valid' = [d \in Edits |-> IF d = e THEN CheckValidity(e)
                                         ELSE IF d = next THEN TRUE
                                         ELSE valid[d]]
     ELSE /\ valid' = [valid EXCEPT ![e] = TRUE]
          /\ UNCHANGED focus
  /\ UNCHANGED <<text, checkValidator>>

(* QValidatedLineEdit::setEnabled(true): checkValidity(), then enable.     *)
Enable(e) ==
  /\ ~enabled[e]
  /\ valid' = [valid EXCEPT ![e] = CheckValidity(e)]
  /\ enabled' = [enabled EXCEPT ![e] = TRUE]
  /\ UNCHANGED <<text, checkValidator, focus>>

Next ==
  \E e \in Edits :
    \/ \E t \in Texts : SetText(e, t)
    \/ FocusIn(e)
    \/ Clear(e)
    \/ Disable(e)
    \/ Enable(e)
  \/ FocusOut

Spec == Init /\ [][Next]_vars

-----------------------------------------------------------------------------
TypeOK ==
  /\ text \in [Edits -> Texts]
  /\ valid \in [Edits -> BOOLEAN]
  /\ enabled \in [Edits -> BOOLEAN]
  /\ checkValidator \in [Edits -> BOOLEAN]
  /\ focus \in Edits \cup {NoEdit}
  /\ focus # NoEdit => enabled[focus]

(* isValid() never calls a text invalid that checkValidity() would accept: *)
(* however typing, focus moves, clear() and enabling interleave across the *)
(* form, an edit's flag is never a stale "invalid" left over from a text   *)
(* it no longer holds.                                                     *)
NoStaleInvalid ==
  \A e \in Edits : ~IsValid(e) => ~Verdict(text[e], checkValidator[e])

(* A disabled edit is shown valid, as the comment in setEnabled intends    *)
(* ("A disabled QValidatedLineEdit should be marked valid").               *)
DisabledShownValid == \A e \in Edits : ~enabled[e] => valid[e]
=============================================================================
