---------------------------- MODULE MCWorldRules ----------------------------
(* A small rule book for WorldRules: a burn that is refreshed, a blessing  *)
(* there can be one of, a fear that stacks, and embers, of which there may *)
(* be two and which set the burn again; rules that call each other in a    *)
(* chain longer than the cascade may be (a cycle of rules is refused by    *)
(* validate_rule_cycles), and rules on time, expiry, scenes and actions.   *)
EXTENDS WorldRules

Condition(duration, interval, effects, policy, maximum, refresh) ==
  [duration |-> duration, interval |-> interval, effects |-> effects,
   policy |-> policy, maximum |-> maximum, refresh |-> refresh]

E(kind, arg) == <<kind, arg>>

Burn == 1  Blessing == 2  Fear == 3  Embers == 4

MCConditions ==
  << Condition(3, 2, << E("lose", 1) >>, "refresh", 1, TRUE),
     Condition(2, 0, << >>, "unique", 1, FALSE),
     Condition(0, 1, << >>, "stack", 2, FALSE),
     Condition(2, 1, << E("condition", Burn) >>, "independent", 2, FALSE) >>

Has(d, negated) == [kind |-> "condition", arg |-> d, negated |-> negated]
AtLeast(n, negated) == [kind |-> "resource", arg |-> n, negated |-> negated]

MCSkills == [flare |-> [cost |-> 1, cooldown |-> 2, effects |-> << E("condition", Burn) >>]]

MCKnown == [p |-> {"flare"}, n |-> {}]

MCActions ==
  [learn |-> [needs |-> << >>, effects |-> << E("skill", "flare") >>],
   pray  |-> [needs |-> << Has(Fear, TRUE) >>, effects |-> << E("condition", Blessing) >>],
   shout |-> [needs |-> << >>, effects |-> << E("session", 1), E("emit", "alarm") >>]]

Option(needs, effects, next) == [needs |-> needs, effects |-> effects, next |-> next]

MCStory ==
  [door |-> << Option(<< AtLeast(1, FALSE), Has(Burn, TRUE) >>,
                      << E("lose", 1), E("session", 0) >>, "hearth") >>,
   hearth |-> << Option(<< >>, << E("condition", Embers) >>, Done),
                 Option(<< >>, << E("condition", Embers) >>, "hearth") >>]

Rule(on, arg, needs, effects) == [on |-> on, arg |-> arg, needs |-> needs, effects |-> effects]

MCRules ==
  << Rule("event", "alarm", << Has(Burn, FALSE) >>, << E("emit", "panic") >>),
     Rule("event", "panic", << >>, << E("emit", "rout") >>),
     Rule("event", "rout", << >>, << E("emit", "end") >>),
     Rule("event", "end", << >>, << E("emit", "silence") >>),
     Rule("clock", 2, << >>, << E("saved", 1) >>),
     Rule("clock", 3, << AtLeast(2, TRUE) >>, << E("gain", 1) >>),
     Rule("event", "condition_expired", << >>, << E("saved", 0), E("emit", "alarm") >>),
     Rule("scene_entered", "cave", << >>, << E("condition", Fear) >>),
     Rule("performed", "pray", << >>, << E("emit", "heard") >>) >>
=============================================================================
