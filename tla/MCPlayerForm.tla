---------------------------- MODULE MCPlayerForm ----------------------------
(* Forms with all kinds of fields and bindings, some that the registry     *)
(* must reject and some that the compiler refuses.                         *)
EXTENDS PlayerForm

Field(kind, required, range, default, binding, options) ==
  [kind |-> kind, required |-> required, minimum |-> range[1], maximum |-> range[2],
   default |-> default, binding |-> binding, options |-> options]
Option(value, effects) == [value |-> value, effects |-> effects]
Unbound == << "none", 0 >>

Name(required, range, default) ==
  Field("text", required, range, default, << "display_name", 0 >>, << >>)
Strength(range, default) ==
  Field("integer", FALSE, range, default, << "parameter", "strength" >>, << >>)
Class(default, binding) ==
  Field("single", TRUE, << 0, 0 >>, default, binding,
        << Option("knight", << << "item", "sword" >>, << "tag", "noble" >> >>),
           Option("thief", << << "item", "rope" >>,
                              << "parameter", "strength", << "counter", 11 >> >> >>) >>)
Gifts(required, range, default) ==
  Field("multi", required, range, default, << "parameter", "gifts" >>,
        << Option("song", << << "tag", "bard" >>, << "attribute", "wit", 2 >> >>),
           Option("map", << << "item", "map" >>, << "grant", "navigation" >> >>) >>)
Wit == Field("integer", TRUE, << 1, 1 >>, << 1 >>, << "attribute", "wit" >>, << >>)
Hardcore == Field("boolean", FALSE, << 0, 0 >>, << FALSE >>, << "parameter", "hardcore" >>, << >>)

MCForms ==
  {<< Name(TRUE, << 1, 2 >>, << >>), Strength(<< 1, 11 >>, << 11 >>),
      Class(<< >>, << "parameter", "class" >>), Hardcore >>,
   << Class(<< "knight" >>, Unbound), Strength(<< 1, 11 >>, << >>), Hardcore >>,
   << Gifts(FALSE, << 1, 2 >>, << >>), Wit, Class(<< >>, Unbound), Name(FALSE, << 0, 1 >>, << >>) >>,
   << Hardcore, Name(FALSE, << 1, 2 >>, << << "1" >> >>), Gifts(TRUE, << 0, 1 >>, << {"map"} >>) >>,
   \* accepted, and wider than what they are bound to
   << Name(TRUE, << 0, 2 >>, << >>) >>,
   << Name(TRUE, << 1, 3 >>, << >>) >>,
   << [Strength(<< 1, 11 >>, << >>) EXCEPT !.binding = << "parameter", "luck" >>] >>,
   \* rejected
   << Name(FALSE, << 2, 2 >>, << << "1" >> >>) >>,
   << Gifts(FALSE, << 2, 3 >>, << >>) >>,
   << Hardcore, [Strength(<< 1, 11 >>, << >>) EXCEPT !.binding = << "parameter", "day" >>] >>,
   << [Hardcore EXCEPT !.binding = << "parameter", "strength" >>] >>,
   << [Hardcore EXCEPT !.binding = << "display_name", 0 >>] >>}

Parameter(type, range, allowed, save) ==
  [type |-> type, minimum |-> range[1], maximum |-> range[2], values |-> allowed, save |-> save]
MCParameters ==
  [strength |-> Parameter("counter", << 1, 11 >>, {}, TRUE),
   day      |-> Parameter("counter", << 1, 11 >>, {}, FALSE),
   luck     |-> Parameter("counter", << 1, 1 >>, {}, TRUE),
   hardcore |-> Parameter("bool", << 0, 0 >>, {}, TRUE),
   class    |-> Parameter("enum", << 0, 0 >>, {"knight", "thief", "mage"}, TRUE),
   gifts    |-> Parameter("tags", << 0, 2 >>, {"song", "map"}, TRUE)]

MCTemplate ==
  [display_name |-> << "x" >>, summary |-> << >>, values |-> << >>,
   attributes |-> [wit |-> 0], inventory |-> << [key |-> 0, item |-> "coat"], [key |-> 2, item |-> "coin"] >>,
   grants |-> << >>, tags |-> {"human"}]

MCTyped == {<< "1" >>, << "x" >>, << "1", "1" >>}
============================================================================
