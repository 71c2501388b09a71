----------------------------- MODULE PlayerForm -----------------------------
(***************************************************************************)
(* Creating a player with a form: the checks of the registry on the form   *)
(* (registry.rs), the form on the start-up screen (loreloom-tui            *)
(* startup.rs), where a field is edited in a line editor of its own and    *)
(* stored when it is left, and the compiler that makes a character of what *)
(* was submitted (compile_player_draft).  The three check the same bounds  *)
(* with code of their own.                                                 *)
(*                                                                         *)
(* A text is a short sequence of characters, "1" the only digit.  Fixed-   *)
(* point number fields work as the integer fields do and long texts as     *)
(* texts do (apart from their lines); the definitions a form refers to     *)
(* exist (require_kind is in Content).                                     *)
(***************************************************************************)
EXTENDS Integers, Sequences, FiniteSets, SequencesExt

CONSTANTS
  Forms,        \* the PlayerCreationForms of some packages
  Parameters,   \* the parameters there are: type, minimum, maximum, values, save
  Template,     \* the character the form starts from
  NameBytes, TextBytes,  \* the limits of DisplayName and ShortText
  NumberBytes,  \* the 64 bytes a number may have in the form
  Characters,   \* what a text is made of
  Typed         \* what is typed or pasted at once

(* A field: kind, required, minimum, maximum, options (value and effects), *)
(* default (<<>> or <<value>>; a boolean has one) and binding (<<kind,     *)
(* id>>).                                                                  *)
Kinds == {"text", "integer", "boolean", "single", "multi"}
TextBindings == {"display_name", "summary", "profile_value"}

EffectKinds == {"item", "grant", "attribute", "parameter", "tag"}

Digits == {"1"}
NoNumber == 0
LongestNumber == 19  \* digits of an i64, if they are ones
Ones[n \in Nat] == IF n = 0 THEN 0 ELSE 10 * Ones[n - 1] + 1

(* What the schema says of a field; PlayerCreationFieldType in schema.rs.  *)
IsField(f) ==
  /\ f.kind \in Kinds /\ f.required \in BOOLEAN /\ {f.minimum, f.maximum} \subseteq Int
  /\ f.binding = << f.binding[1], f.binding[2] >>
  /\ f.binding[1] \in TextBindings => f.binding[2] = 0
  /\ f.binding[1] = "parameter" => f.binding[2] \in DOMAIN Parameters
  /\ Len(f.default) <= 1 /\ f.default \in Seq(Range(f.default))
  /\ \A v \in Range(f.default) :
       /\ f.kind = "text" => v \in Seq(Characters)
       /\ f.kind = "integer" => \E n \in 1..LongestNumber : Ones[n] = v
  /\ f.options \in Seq(Range(f.options))
  /\ \A o \in Range(f.options) :
       /\ o.effects \in Seq(Range(o.effects))
       /\ \A e \in Range(o.effects) :
            /\ e[1] \in EffectKinds
            /\ e[1] = "parameter" => e[2] \in DOMAIN Parameters

ASSUME PlayerFormAssumption ==
  /\ {NameBytes, TextBytes, NumberBytes} \subseteq Nat
  /\ Digits \subseteq Characters /\ Typed \subseteq Seq(Characters)
  /\ \A id \in DOMAIN Parameters :
       {Parameters[id].minimum, Parameters[id].maximum} \subseteq Int
  /\ {"display_name", "summary", "values", "attributes", "inventory", "grants", "tags"}
       \subseteq DOMAIN Template
  /\ Template.inventory \in Seq(Range(Template.inventory))
  /\ \A fields \in Forms :
       fields \in Seq(Range(fields)) /\ \A f \in Range(fields) : IsField(f)

VARIABLES
  form,      \* the form, Fields of StartupFormView and of the definition
  page,      \* "definition", "form", "main", "submitted", "created", "refused", "rejected"
  current,   \* StartupFormState
  values,
  cursors,   \* option_cursors
  errors,    \* validation_errors, a mark on each field
  editor,    \* InputEditor: text and cursor
  draft,     \* the StartupFormSubmission, a function on the fields it has
  character, \* the CharacterSpawnSpec, as far as a form changes it
  parameters \* parameter_overrides

formVars == <<form, page, current, values, cursors, errors, editor, draft, character, parameters>>

NoEntries == [x \in {} |-> x]
OptionValues(f) == {f.options[k].value : k \in DOMAIN f.options}
EffectsOf(f, chosen) ==
  FlattenSeq([k \in DOMAIN f.options |->
                IF f.options[k].value \in chosen THEN f.options[k].effects ELSE << >>])

----------------------------------------------------------------------------
(* What the registry accepts.                                              *)

(* Faulty variant: defaults are taken as they are.                         *)
FieldTypeAnyDefault(f) ==
  /\ f.minimum <= f.maximum
  /\ f.kind \in {"single", "multi"} => f.options # << >>
  /\ f.kind = "multi" => f.maximum <= Len(f.options)

player_field_type_is_valid(f) ==
  /\ f.kind \in {"text", "integer", "multi"} => f.minimum <= f.maximum
  /\ f.kind \in {"single", "multi"} =>
       f.options # << >> /\ Cardinality(OptionValues(f)) = Len(f.options)
  /\ f.kind = "multi" => f.maximum <= Len(f.options)
  /\ \A k \in DOMAIN f.default :
       LET v == f.default[k]
       IN  CASE f.kind = "text"    -> Len(v) \in f.minimum..f.maximum
             [] f.kind = "integer" -> v \in f.minimum..f.maximum
             [] f.kind = "boolean" -> TRUE
             [] f.kind = "single"  -> v \in OptionValues(f)
             [] f.kind = "multi"   -> /\ v \subseteq OptionValues(f)
                                      /\ Cardinality(v) \in f.minimum..f.maximum

BindingValid(f) ==
  \/ f.binding[1] = "none"
  \/ f.kind = "text" /\ f.binding[1] \in TextBindings
  \/ f.kind = "integer" /\ f.binding[1] = "attribute"
  \/ f.kind # "text" /\ f.binding[1] = "parameter"

validate_player_creation_form(fields) ==
  /\ fields # << >>
  /\ \A i \in DOMAIN fields : BindingValid(fields[i]) /\ player_field_type_is_valid(fields[i])

(* The ranges of a number are not compared.                                *)
player_field_matches_parameter(f, p) ==
  CASE f.kind = "integer" -> p.type = "counter"
    [] f.kind = "boolean" -> p.type = "bool"
    [] f.kind = "single"  -> p.type = "enum" /\ OptionValues(f) \subseteq p.values
    [] f.kind = "multi"   -> /\ p.type = "tags" /\ OptionValues(f) \subseteq p.values
                             /\ Len(f.options) <= p.maximum
    [] OTHER -> FALSE

(* A value is <<type, what it is>>.                                        *)
parameter_value_matches(p, v) ==
  /\ v[1] = p.type
  /\ CASE p.type = "bool"    -> TRUE
       [] p.type = "counter" -> v[2] \in p.minimum..p.maximum
       [] p.type = "enum"    -> v[2] \in p.values
       [] p.type = "tags"    -> v[2] \subseteq p.values /\ Cardinality(v[2]) <= p.maximum

AllEffects(f) == UNION {Range(f.options[k].effects) : k \in DOMAIN f.options}

validate_player_creation_references(fields) ==
  \A i \in DOMAIN fields :
    /\ fields[i].binding[1] = "parameter" =>
         LET p == Parameters[fields[i].binding[2]]
         IN  p.save /\ player_field_matches_parameter(fields[i], p)
    /\ \A e \in AllEffects(fields[i]) :
         e[1] = "parameter" =>
           Parameters[e[2]].save /\ parameter_value_matches(Parameters[e[2]], e[3])

----------------------------------------------------------------------------
(* StartupFormState.                                                       *)

(* A whole number, or none.                                                *)
parse(text) ==
  IF text = << >> \/ ~(Range(text) \subseteq Digits) \/ Len(text) > LongestNumber
  THEN NoNumber ELSE Ones[Len(text)]
to_string(n) == [k \in 1..(CHOOSE d \in 1..LongestNumber : Ones[d] = n) |-> "1"]

HasText(f) == f.kind \in {"text", "integer"}
EditorWith(text) == [text |-> text, cursor |-> Len(text)]

InitialValue(f) ==
  IF f.default = << >>
  THEN CASE HasText(f) -> << >>
         [] f.kind = "single" -> << >>
         [] f.kind = "multi" -> {}
  ELSE CASE f.kind = "integer" -> to_string(f.default[1])
         [] f.kind = "single" -> f.default
         [] OTHER -> f.default[1]

(* Faulty variant: the editor stays as it is.                              *)
LoadNothing(i, vs) == editor

LoadEditor(i, vs) == IF HasText(form[i]) THEN EditorWith(vs[i]) ELSE EditorWith(<< >>)

Stored == IF HasText(form[current]) THEN [values EXCEPT ![current] = editor.text] ELSE values

FormInit ==
  /\ form \in Forms
  /\ page = "definition"
  /\ current = 1 /\ values = << >> /\ cursors = << >> /\ errors = << >>
  /\ editor = EditorWith(<< >>)
  /\ draft = NoEntries /\ character = Template /\ parameters = NoEntries

(* The registry checks the form; the form is shown with its defaults.      *)
Open ==
  /\ page = "definition"
  /\ IF validate_player_creation_form(form) /\ validate_player_creation_references(form)
     THEN /\ page' = "form"
          /\ values' = [i \in DOMAIN form |-> InitialValue(form[i])]
          /\ cursors' = [i \in DOMAIN form |-> 1]
          /\ errors' = [i \in DOMAIN form |-> FALSE]
          /\ editor' = LoadEditor(1, values')
     ELSE page' = "rejected" /\ UNCHANGED <<values, cursors, errors, editor>>
  /\ UNCHANGED <<form, current, draft, character, parameters>>

----------------------------------------------------------------------------
(* validate_form_field: a value is valid, and is sent unless it is an      *)
(* empty one nobody requires.                                              *)
LeftOut(f, v) ==
  /\ ~f.required
  /\ \/ HasText(f) /\ v = << >>
     \/ f.kind = "single" /\ v = << >>

Valid(f, v) ==
  \/ LeftOut(f, v)
  \/ CASE f.kind = "text"    -> Len(v) \in f.minimum..f.maximum
       [] f.kind = "integer" -> parse(v) # NoNumber /\ parse(v) \in f.minimum..f.maximum
       [] f.kind = "boolean" -> TRUE
       [] f.kind = "single"  -> v # << >> /\ v[1] \in OptionValues(f)
       [] f.kind = "multi"   -> /\ v \subseteq OptionValues(f)
                                /\ Cardinality(v) \in f.minimum..f.maximum

Submitted(f, v) ==
  CASE f.kind = "integer" -> parse(v)
    [] f.kind = "single"  -> v[1]
    [] OTHER -> v

(* validate_current_form_field.                                            *)
Marked(vs) == [errors EXCEPT ![current] = ~Valid(form[current], vs[current])]

Select(i, vs) == current' = i /\ values' = vs /\ editor' = LoadEditor(i, vs)

Move(i) ==
  /\ page = "form"
  /\ errors' = Marked(Stored)
  /\ Select(i, Stored)
  /\ UNCHANGED <<form, page, cursors, draft, character, parameters>>

PreviousField == Move(IF current = 1 THEN 1 ELSE current - 1)
NextField == Move(IF current = Len(form) THEN current ELSE current + 1)

FirstInvalid(vs) == {i \in DOMAIN form : /\ ~Valid(form[i], vs[i])
                                          /\ \A k \in 1..(i-1) : Valid(form[k], vs[k])}

(* submit_form: up to the first field that is invalid.                     *)
SubmitForm ==
  IF FirstInvalid(Stored) = {}
  THEN /\ draft' = [i \in {k \in DOMAIN form : ~LeftOut(form[k], Stored[k])} |->
                      Submitted(form[i], Stored[i])]
       /\ page' = "submitted"
       /\ errors' = [i \in DOMAIN form |-> FALSE]
       /\ values' = Stored
       /\ UNCHANGED <<current, editor>>
  ELSE \E i \in FirstInvalid(Stored) :
         /\ errors' = [k \in DOMAIN form |-> IF k < i THEN FALSE ELSE k = i \/ errors[k]]
         /\ Select(i, Stored)
         /\ UNCHANGED <<draft, page>>

Enter ==
  /\ page = "form"
  /\ IF ~Valid(form[current], Stored[current])
     THEN /\ errors' = Marked(Stored) /\ values' = Stored
          /\ UNCHANGED <<page, current, editor, draft>>
     ELSE IF current < Len(form)
     THEN errors' = Marked(Stored) /\ Select(current + 1, Stored) /\ UNCHANGED <<page, draft>>
     ELSE SubmitForm
  /\ UNCHANGED <<form, cursors, character, parameters>>

(* Esc leaves the form as it is, and a new game comes back to it.          *)
LeaveForm ==
  /\ page = "form" /\ page' = "main"
  /\ UNCHANGED <<form, current, values, cursors, errors, editor, draft, character, parameters>>

Return ==
  /\ page = "main" /\ page' = "form"
  /\ UNCHANGED <<form, current, values, cursors, errors, editor, draft, character, parameters>>

----------------------------------------------------------------------------
(* Editing: whatever the keys do to the editor or the value, the field is  *)
(* stored and checked.                                                     *)
Edited(text, cursor) ==
  LET vs == [values EXCEPT ![current] = text]
  IN  /\ editor' = [text |-> text, cursor |-> cursor]
      /\ values' = vs /\ errors' = Marked(vs)
      /\ UNCHANGED <<form, page, current, cursors, draft, character, parameters>>

Changed(v) ==
  LET vs == [values EXCEPT ![current] = v]
  IN  /\ values' = vs /\ errors' = Marked(vs)
      /\ UNCHANGED <<form, page, current, editor, draft, character, parameters>>

field_maximum_bytes(f) == IF f.kind = "text" THEN f.maximum ELSE NumberBytes

TextBefore == SubSeq(editor.text, 1, editor.cursor)
TextAfter == SubSeq(editor.text, editor.cursor + 1, Len(editor.text))

(* Text that would be too long is not inserted at all.                     *)
InsertText ==
  \E t \in Typed :
    /\ page = "form" /\ HasText(form[current])
    /\ IF Len(editor.text) + Len(t) <= field_maximum_bytes(form[current])
       THEN Edited(TextBefore \o t \o TextAfter, editor.cursor + Len(t))
       ELSE Edited(editor.text, editor.cursor)

Backspace ==
  /\ page = "form" /\ HasText(form[current]) /\ editor.cursor > 0
  /\ Edited(SubSeq(editor.text, 1, editor.cursor - 1) \o TextAfter, editor.cursor - 1)

Delete ==
  /\ page = "form" /\ HasText(form[current]) /\ editor.cursor < Len(editor.text)
  /\ Edited(TextBefore \o Tail(TextAfter), editor.cursor)

(* Left, Right, Home and End in a text.                                    *)
MoveCursor ==
  \E c \in {editor.cursor - 1, editor.cursor + 1, 0, Len(editor.text)} :
    /\ page = "form" /\ HasText(form[current]) /\ c \in 0..Len(editor.text)
    /\ editor' = [editor EXCEPT !.cursor = c]
    /\ UNCHANGED <<form, page, current, values, cursors, errors, draft, character, parameters>>

Position(f, v) == CHOOSE k \in DOMAIN f.options : v = << f.options[k].value >>

(* The option after or before one of n.                                    *)
Step(k, n, forward) == IF forward THEN (k % n) + 1 ELSE ((k + n - 2) % n) + 1

(* adjust_form_value, which Left and Right reach for what is not a text.   *)
Adjust ==
  \E forward \in BOOLEAN :
    LET f == form[current]
        n == Len(f.options)
    IN  /\ page = "form"
        /\ \/ f.kind = "boolean" /\ Changed(~values[current]) /\ UNCHANGED cursors
           \/ /\ f.kind = "single"
              /\ LET k == IF values[current] = << >> THEN 1 ELSE Position(f, values[current])
                 IN  /\ cursors' = [cursors EXCEPT ![current] = Step(k, n, forward)]
                     /\ Changed(<< f.options[Step(k, n, forward)].value >>)
           \/ /\ f.kind = "multi"
              /\ cursors' = [cursors EXCEPT ![current] = Step(@, n, forward)]
              /\ Changed(values[current])

(* toggle_form_value.                                                      *)
Toggle ==
  LET f == form[current]
  IN  /\ page = "form" /\ UNCHANGED cursors
      /\ \/ f.kind = "boolean" /\ Changed(~values[current])
         \/ /\ f.kind = "multi"
            /\ LET v == f.options[cursors[current]].value
               IN  Changed(IF v \in values[current] THEN values[current] \ {v}
                           ELSE values[current] \cup {v})

----------------------------------------------------------------------------
(* compile_player_draft: character, parameters and the next key of an item *)
(* are carried through the fields; what cannot be done is not ok.          *)

(* Faulty variant: the default comes first.                                *)
DefaultFirst(i) ==
  IF form[i].default # << >> THEN form[i].default
  ELSE IF i \in DOMAIN draft THEN << draft[i] >> ELSE << >>

DraftValue(i) ==
  IF i \in DOMAIN draft THEN << draft[i] >>
  ELSE form[i].default

validate_player_field_value(f, v) ==
  CASE f.kind = "text"    -> Len(v) \in f.minimum..f.maximum
    [] f.kind = "integer" -> v \in f.minimum..f.maximum
    [] f.kind = "boolean" -> TRUE
    [] f.kind = "single"  -> v \in OptionValues(f)
    [] f.kind = "multi"   -> /\ v \subseteq OptionValues(f)
                             /\ Cardinality(v) \in f.minimum..f.maximum

ParameterOf(f, v) ==
  << CASE f.kind = "integer" -> "counter" [] f.kind = "boolean" -> "bool"
       [] f.kind = "single" -> "enum" [] OTHER -> "tags", v >>

With(function, x, y) ==
  [z \in DOMAIN function \cup {x} |-> IF z = x THEN y ELSE function[z]]

set_player_parameter(s, id, v) ==
  [s EXCEPT !.ok = @ /\ Parameters[id].save /\ parameter_value_matches(Parameters[id], v),
            !.parameters = With(@, id, v)]

apply_player_binding(s, f, v) ==
  LET kind == f.binding[1]
  IN  CASE kind = "none" -> s
        [] kind = "display_name"  -> [s EXCEPT !.ok = @ /\ Len(v) \in 1..NameBytes,
                                               !.character.display_name = v]
        [] kind = "summary"       -> [s EXCEPT !.ok = @ /\ Len(v) <= TextBytes,
                                               !.character.summary = v]
        [] kind = "profile_value" -> [s EXCEPT !.ok = @ /\ Len(v) <= TextBytes,
                                               !.character.values = Append(@, v)]
        [] kind = "attribute"     -> [s EXCEPT !.character.attributes = With(@, f.binding[2], v)]
        [] kind = "parameter"     -> set_player_parameter(s, f.binding[2], ParameterOf(f, v))

(* The first key from the counter on that no item has.                     *)
FreeKey(s) ==
  LET taken == {s.character.inventory[k].key : k \in DOMAIN s.character.inventory}
  IN  CHOOSE n \in s.next_item..(s.next_item + Cardinality(taken)) :
        n \notin taken /\ \A m \in s.next_item..(n-1) : m \in taken

apply_player_effect(s, e) ==
  CASE e[1] = "item"      -> [s EXCEPT !.character.inventory =
                                         Append(@, [key |-> FreeKey(s), item |-> e[2]]),
                                       !.next_item = FreeKey(s) + 1]
    [] e[1] = "grant"     -> [s EXCEPT !.character.grants = Append(@, e[2])]
    [] e[1] = "attribute" -> [s EXCEPT !.character.attributes = With(@, e[2], e[3])]
    [] e[1] = "parameter" -> set_player_parameter(s, e[2], e[3])
    [] e[1] = "tag"       -> [s EXCEPT !.character.tags = @ \cup {e[2]}]

SelectedEffects(f, v) ==
  CASE f.kind = "single" -> EffectsOf(f, {v})
    [] f.kind = "multi"  -> EffectsOf(f, v)
    [] OTHER -> << >>

apply_selected_player_effects(s, f, v) ==
  LET effects == SelectedEffects(f, v)
      after[n \in 0..Len(effects)] ==
        IF n = 0 THEN s ELSE apply_player_effect(after[n - 1], effects[n])
  IN  after[Len(effects)]

CompileField(s, i) ==
  LET f == form[i]
      v == DraftValue(i)
  IN  IF v = << >> THEN [s EXCEPT !.ok = @ /\ ~f.required]
      ELSE IF ~validate_player_field_value(f, v[1]) THEN [s EXCEPT !.ok = FALSE]
      ELSE apply_selected_player_effects(apply_player_binding(s, f, v[1]), f, v[1])

Uncompiled ==
  [ok |-> TRUE, character |-> Template, parameters |-> NoEntries, next_item |-> 0]

compile_player_draft ==
  LET after[n \in 0..Len(form)] ==
        IF n = 0 THEN Uncompiled ELSE CompileField(after[n - 1], n)
  IN  after[Len(form)]

(* Nothing is kept of what was refused.                                    *)
Compile ==
  LET s == compile_player_draft
  IN  /\ page = "submitted"
      /\ IF s.ok
         THEN page' = "created" /\ character' = s.character /\ parameters' = s.parameters
         ELSE page' = "refused" /\ UNCHANGED <<character, parameters>>
      /\ UNCHANGED <<form, current, values, cursors, errors, editor, draft>>

FormNext ==
  \/ Open \/ PreviousField \/ NextField \/ Enter \/ LeaveForm \/ Return
  \/ InsertText \/ Backspace \/ Delete \/ MoveCursor \/ Adjust \/ Toggle
  \/ Compile

FormSpec == FormInit /\ [][FormNext]_formVars

----------------------------------------------------------------------------
Shown(i) == IF i = current /\ HasText(form[i]) THEN editor.text ELSE values[i]

(* Nothing the player has entered is lost: a step changes at most the      *)
(* field that is selected, and one that goes to another field, leaves the  *)
(* form, comes back or submits it changes none (store_editor and           *)
(* load_editor at startup.rs:245).                                         *)
EditsKept ==
  [][page # "definition" =>
       \A i \in DOMAIN form :
         (i # current \/ current' # current \/ page' # page) => Shown(i)' = Shown(i)]_formVars

(* A form's fields allow no more than what they are bound to.              *)
Fitting(f) ==
  CASE f.binding[1] = "display_name" ->
         /\ f.minimum >= 1 \/ (~f.required /\ f.default = << >>)
         /\ f.maximum <= NameBytes
    [] f.binding[1] \in TextBindings \ {"display_name"} -> f.maximum <= TextBytes
    [] f.binding[1] = "parameter" /\ f.kind = "integer" ->
         f.minimum..f.maximum \subseteq
           Parameters[f.binding[2]].minimum..Parameters[f.binding[2]].maximum
    [] OTHER -> TRUE

(* The form and the compiler agree: what the form of an accepted           *)
(* definition submits is refused only where a field's own bounds are wider *)
(* than those of what it is bound to, which the registry does not compare  *)
(* (registry.rs:1828).                                                     *)
CompilerAgrees == page = "refused" => \E i \in DOMAIN form : ~Fitting(form[i])

Chosen(i) ==
  CASE form[i].kind = "single" -> Range(Shown(i)) [] form[i].kind = "multi" -> Shown(i)
    [] OTHER -> {}

(* A value the player left empty is the default, or is not set.            *)
Meant(i) ==
  IF LeftOut(form[i], Shown(i)) THEN form[i].default
  ELSE << Submitted(form[i], Shown(i)) >>

Writes(i) == {form[i].binding} \cup {<< e[1], e[2] >> : e \in AllEffects(form[i])}
LastWriter(i) ==
  /\ \A k \in (i + 1)..Len(form) : form[i].binding \notin Writes(k)
  /\ \A e \in AllEffects(form[i]) : << e[1], e[2] >> # form[i].binding

(* The character that is created is the one that was shown: each name,     *)
(* attribute and parameter has the value of the last field that sets it,   *)
(* and there are the items and tags of the options that are chosen and of  *)
(* no other (registry.rs:498).                                             *)
PlayerAsShown ==
  page = "created" =>
    /\ \A i \in DOMAIN form :
         LastWriter(i) /\ Meant(i) # << >> =>
           LET b == form[i].binding
               v == Meant(i)[1]
           IN  CASE b[1] = "display_name" -> character.display_name = v
                 [] b[1] = "attribute"    -> character.attributes[b[2]] = v
                 [] b[1] = "parameter"    -> parameters[b[2]] = ParameterOf(form[i], v)
                 [] OTHER -> TRUE
    /\ (\A i \in DOMAIN form : form[i].default = << >> \/ ~LeftOut(form[i], Shown(i))) =>
         LET chosen(i) == Range(EffectsOf(form[i], Chosen(i)))
             effects == UNION {chosen(i) : i \in DOMAIN form}
         IN  /\ character.tags = Template.tags \cup {e[2] : e \in {x \in effects : x[1] = "tag"}}
             /\ {character.inventory[k].item : k \in DOMAIN character.inventory} =
                  {Template.inventory[k].item : k \in DOMAIN Template.inventory}
                    \cup {e[2] : e \in {x \in effects : x[1] = "item"}}

============================================================================
