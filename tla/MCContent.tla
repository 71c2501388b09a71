----------------------------- MODULE MCContent -----------------------------
(* A world whose four rules form a diamond, the engine's core, and two     *)
(* mods, one before and one after them in the order of ids, in all         *)
(* combinations of some dependencies, definitions and patches.             *)
EXTENDS Content

A == 1  Core == 2  TheWorld == 3  B == 4

Def(m, kind, name, refs, on, emits) ==
  [id |-> <<m, kind, name>>, kind |-> kind,
   file |-> IF kind \in RuleKinds THEN "rules" ELSE "content",
   ok |-> TRUE, refs |-> refs, on |-> on, emits |-> emits]
Tag(m, n) == Def(m, "tag", n, {}, "", {})
Item(m, n, refs) == Def(m, "item", n, refs, "", {})
Rule(m, n, on, emits) == Def(m, "rule", n, {}, on, emits)
Ref(m, kind, n) == [to |-> <<m, kind, n>>, kinds |-> {kind}]

Dep(m, optional) == [id |-> m, optional |-> optional, versions |-> {1}]
Newer(m) == [id |-> m, optional |-> TRUE, versions |-> {2}]

Pack(m, deps, defs, patches) ==
  LET groups == {d.file : d \in defs}
  IN  [id |-> m, version |-> 1, engine |-> TRUE, capabilities |-> groups \cup {"content"},
       deps |-> deps, patches |-> patches, prompts |-> << m >>,
       files |-> groups \cup (IF patches = << >> THEN {} ELSE {"patches"}),
       hashed |-> TRUE, defs |-> defs]

PatchOf(d) == [mod |-> d.id[1], versions |-> {1}, target |-> d.id, value |-> d]

CorePack == Pack(Core, {}, {Tag(Core, 1)}, << >>)

WorldPack ==
  Pack(TheWorld, {},
       {Item(TheWorld, 1, {Ref(Core, "tag", 1)}),
        Rule(TheWorld, 1, "start", {"left", "right"}), Rule(TheWorld, 2, "left", {"meet"}),
        Rule(TheWorld, 3, "right", {"meet"}), Rule(TheWorld, 4, "meet", {"over"})}, << >>)

Worlds == {Dep(Core, FALSE), Dep(TheWorld, FALSE)}

ModA ==
  {Pack(A, deps, {Tag(A, 1)} \cup defs, patches) :
     deps \in {{}, {Dep(TheWorld, FALSE)}, {Dep(B, TRUE)} \cup Worlds, {Dep(B, FALSE)},
              {Newer(B)}, {Dep(9, TRUE)}, {Dep(9, FALSE)}},
     defs \in {{}, {Rule(A, 1, "over", {"start"})}, {Item(A, 1, {Ref(B, "tag", 1)})},
              {Def(B, "tag", 1, {}, "", {})}},
     patches \in {<< >>,
                 << PatchOf(Item(TheWorld, 1, {Ref(A, "tag", 1)})) >>,
                 << PatchOf(Rule(TheWorld, 4, "meet", {"left"})) >>,
                 << PatchOf(Item(TheWorld, 1, {Ref(Core, "tag", 2)})),
                    PatchOf(Item(TheWorld, 1, {})) >>}}

ModB ==
  {Pack(B, deps, {Tag(B, 1)} \cup defs, patches) :
     deps \in {{}, {Dep(A, FALSE)} \cup Worlds, {Dep(A, TRUE)}},
     defs \in {{}, {Item(B, 1, {Ref(A, "tag", 1)})}},
     patches \in {<< >>,
                 << PatchOf(Item(TheWorld, 1, {Ref(B, "tag", 2)})) >>,
                 << PatchOf(Tag(A, 1)), PatchOf(Rule(TheWorld, 4, "meet", {"end"})) >>,
                 << [PatchOf(Tag(Core, 1)) EXCEPT !.versions = {2}] >>}}

Wrong(p) ==
  {[p EXCEPT !.engine = FALSE], [p EXCEPT !.hashed = FALSE],
   [p EXCEPT !.files = @ \cup {"appearance"}], [p EXCEPT !.files = @ \cup {"patches"}],
   [p EXCEPT !.deps = {Dep(p.id, FALSE)}],
   [p EXCEPT !.defs = {[d EXCEPT !.file = "rules"] : d \in @}]}

MCInputs ==
  {<< CorePack, WorldPack, b, a >> : a \in ModA, b \in ModB}
  \cup {<< CorePack, WorldPack, a >> : a \in ModA}
  \cup {<< CorePack, WorldPack, Pack(A, {}, {}, << >>), p >> :
          p \in {Pack(A, {}, {Tag(A, 1)}, << >>)} \cup Wrong(Pack(B, {}, {Tag(B, 1)}, << >>))}
============================================================================
