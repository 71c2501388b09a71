------------------------------ MODULE Content ------------------------------
(***************************************************************************)
(* PackageCompiler::compile_world (package.rs) with the definition         *)
(* registry (registry.rs) and the split of the lock (world_project.rs):    *)
(* packages are read, ordered by their dependencies, built into a registry *)
(* that is checked as a whole, patched, and built and checked again.  The  *)
(* two loops over a graph, the dependency order and the search for rules   *)
(* that trigger each other for ever, are modelled step by step.            *)
(*                                                                         *)
(* The values inside a definition are what the checks on them decide, the  *)
(* field ok; files are the groups they belong to.  What an appearance pack *)
(* holds is left out.                                                      *)
(***************************************************************************)
EXTENDS Naturals, Sequences, FiniteSets, SequencesExt

CONSTANTS Engine, World,  \* ModId of the core and of the world; ModIds and
                          \* names are numbers, in their order
          Inputs          \* the sequences of packages that may be compiled

(* ModManifest and files: id, version, engine (it fits the engine),        *)
(* capabilities, deps (id, optional, versions), patches in order of their  *)
(* ids (mod, versions, target, value), prompts, files (the groups there    *)
(* are files of), hashed (content_hash is right) and defs.  A definition:  *)
(* id = <<mod, kind, name>>, kind, file (the group of its file), ok (what  *)
(* validate_local_values says), refs (to, kinds), on (the event type a     *)
(* rule waits for, or "") and emits (those its effects cause).             *)
ASSUME ContentAssumption ==
  /\ Engine \in Nat /\ World \in Nat \ {Engine}
  /\ \A input \in Inputs :
       /\ input \in Seq(Range(input))
       /\ \A i \in DOMAIN input :
            /\ input[i].id \in Nat /\ IsFiniteSet(input[i].deps)
            /\ \A d \in input[i].defs : d.id[1] \in Nat /\ d.id[3] \in Nat

VARIABLES
  sources,   \* the sources still to be read
  parsed,    \* BTreeMap<ModId, ParsedPackage>
  stage, error,
  incoming, ready, order,     \* of dependency_order
  units,     \* the definitions of each package, patches applied
  round,     \* which registry is being built, "baseline" or "final"
  roots, visiting, visited, path,   \* of rule_cycle_from and its calls
  patched,   \* how many patches have been applied
  result     \* CompiledWorldSet: locks and prompts

vars == <<sources, parsed, stage, error, incoming, ready, order, units, round,
          roots, visiting, visited, path, patched, result>>

Empty == [x \in {} |-> x]

Init ==
  /\ sources \in Inputs
  /\ parsed = Empty /\ stage = "read" /\ error = "none"
  /\ incoming = Empty /\ ready = {} /\ order = << >>
  /\ units = Empty /\ round = "baseline"
  /\ roots = {} /\ visiting = {} /\ visited = {} /\ path = << >>
  /\ patched = 0 /\ result = Empty

Fail(e) == stage' = "failed" /\ error' = e

----------------------------------------------------------------------------
(* compile_inner: reading the sources.                                     *)

validate_manifest(p) ==
  /\ p.engine /\ p.capabilities # {}
  /\ \A d \in p.deps : d.id # p.id
  /\ \A d, e \in p.deps : d.id = e.id => d = e
  /\ \A k \in DOMAIN p.patches :
       p.patches[k].mod # p.id /\ p.patches[k].target[1] = p.patches[k].mod

(* Files need the capability of their group or a declaration, and what is  *)
(* declared needs its files.                                               *)
Capabilities == {"content", "rules", "appearance"}
validate_payload_groups(p) ==
  /\ p.files \cap Capabilities \subseteq p.capabilities
  /\ ("appearance" \in p.files) = ("appearance" \in p.capabilities)
  /\ ("patches" \in p.files) = (p.patches # << >>)

parse_package(p) == validate_manifest(p) /\ validate_payload_groups(p) /\ p.hashed

Read ==
  LET p == Head(sources)
  IN  /\ stage = "read" /\ sources # << >>
      /\ sources' = Tail(sources)
      /\ IF ~parse_package(p)
         THEN Fail("package") /\ UNCHANGED parsed
         ELSE IF p.id \in DOMAIN parsed
         THEN Fail("duplicate") /\ UNCHANGED parsed
         ELSE /\ parsed' = [m \in DOMAIN parsed \cup {p.id} |->
                              IF m = p.id THEN p ELSE parsed[m]]
              /\ UNCHANGED <<stage, error>>
      /\ UNCHANGED <<incoming, ready, order, units, round, roots, visiting, visited, path,
                     patched, result>>

----------------------------------------------------------------------------
(* dependency_order.                                                       *)

Present(m) == {d \in parsed[m].deps : d.id \in DOMAIN parsed}

DependenciesMet ==
  \A m \in DOMAIN parsed : \A d \in parsed[m].deps :
    IF d.id \in DOMAIN parsed THEN parsed[d.id].version \in d.versions ELSE d.optional

(* The counts of dependencies, and the packages that have none.            *)
CountIncoming ==
  LET count == [m \in DOMAIN parsed |-> Cardinality(Present(m))]
  IN  /\ stage = "read" /\ sources = << >>
      /\ IF ~DependenciesMet
         THEN Fail("dependency") /\ UNCHANGED <<incoming, ready>>
         ELSE /\ stage' = "order"
              /\ incoming' = count
              /\ ready' = {m \in DOMAIN parsed : count[m] = 0}
              /\ UNCHANGED error
      /\ UNCHANGED <<sources, parsed, order, units, round, roots, visiting, visited, path,
                     patched, result>>

Dependents(m) == {n \in DOMAIN parsed : \E d \in parsed[n].deps : d.id = m}

(* Faulty variant: a dependent is ready with the first of its dependencies.*)
ReadyWithFirst(m) == Dependents(m) \ (Range(order) \cup {m})

NowReady(m) == {n \in Dependents(m) : incoming[n] = 1}

(* ready.pop_first, and the counts of its dependents.                      *)
PopReady ==
  LET m == Min(ready)
  IN  /\ stage = "order" /\ ready # {}
      /\ order' = Append(order, m)
      /\ incoming' = [n \in DOMAIN incoming |->
                        IF n \in Dependents(m) /\ incoming[n] > 0 THEN incoming[n] - 1
                        ELSE incoming[n]]
      /\ ready' = (ready \ {m}) \cup NowReady(m)
      /\ UNCHANGED <<sources, parsed, stage, error, units, round, roots, visiting, visited,
                     path, patched, result>>

RuleKinds == {"parameter", "event", "gameplay_action", "rule"}

(* What rules are made of is in files of its own.                          *)
parse_definition_documents(m) ==
  \A d \in parsed[m].defs :
    d.file \in parsed[m].files /\ (d.file = "rules") = (d.kind \in RuleKinds)

(* A cycle leaves packages out.                                            *)
Ordered ==
  /\ stage = "order" /\ ready = {}
  /\ IF Len(order) # Cardinality(DOMAIN parsed)
     THEN Fail("cycle") /\ UNCHANGED units
     ELSE IF \E m \in DOMAIN parsed : ~parse_definition_documents(m)
     THEN Fail("group") /\ UNCHANGED units
     ELSE /\ stage' = "build"
          /\ units' = [m \in DOMAIN parsed |-> parsed[m].defs]
          /\ UNCHANGED error
  /\ UNCHANGED <<sources, parsed, incoming, ready, order, round, roots, visiting, visited,
                 path, patched, result>>

----------------------------------------------------------------------------
(* DefinitionRegistry::build_packages.                                     *)

Definitions(u) == UNION {u[m] : m \in DOMAIN u}

(* validate_definition_identity, validate_local_values and the duplicates. *)
DefinitionsSound(u) ==
  /\ \A m \in DOMAIN u : \A d \in u[m] : d.id[1] = m /\ d.id[2] = d.kind /\ d.ok
  /\ \A d, e \in Definitions(u) : d.id = e.id => d = e

(* require_kind and require_any_kind.                                      *)
Resolves(r, all) == \E d \in all : d.id = r.to /\ d.kind \in r.kinds

(* Faulty variant: references are not looked up again after the patches.   *)
ReferencesResolveOnce(u) ==
  round = "final" \/ \A d \in Definitions(u) : \A r \in d.refs : Resolves(r, Definitions(u))

(* validate_references.                                                    *)
ReferencesResolve(u) ==
  \A d \in Definitions(u) : \A r \in d.refs : Resolves(r, Definitions(u))

(* The edges of validate_rule_cycles: from a rule to those that wait for   *)
(* an event of its effects.                                                *)
RulesOf(u) == {d \in Definitions(u) : d.kind = "rule"}
Targets(id) ==
  UNION {{e.id : e \in {x \in RulesOf(units) : x.on # "" /\ x.on \in d.emits}} :
           d \in {x \in RulesOf(units) : x.id = id}}

Build ==
  /\ stage = "build"
  /\ IF ~DefinitionsSound(units)
     THEN Fail("definition") /\ UNCHANGED roots
     ELSE IF ~ReferencesResolve(units)
     THEN Fail("reference") /\ UNCHANGED roots
     ELSE /\ stage' = "cycles"
          /\ roots' = {d.id : d \in {x \in RulesOf(units) : Targets(x.id) # {}}}
          /\ UNCHANGED error
  /\ visiting' = {} /\ visited' = {} /\ path' = << >>
  /\ UNCHANGED <<sources, parsed, incoming, ready, order, units, round, patched, result>>

(* ContentDefinitionIds are ordered.                                       *)
Least(ids) ==
  CHOOSE i \in ids : \A j \in ids : i[1] < j[1] \/ (i[1] = j[1] /\ i[3] <= j[3])

(* A call of rule_cycle_from from the frames below it: a frame is a rule   *)
(* and the targets of it that are still to be searched.                    *)
rule_cycle_from(id, below) ==
  IF id \in visited
  THEN path' = below /\ UNCHANGED <<stage, error, visiting>>
  ELSE IF id \in visiting
  THEN Fail("emit_cycle") /\ path' = below /\ UNCHANGED visiting
  ELSE /\ visiting' = visiting \cup {id}
       /\ path' = Append(below, [id |-> id, left |-> Targets(id)])
       /\ UNCHANGED <<stage, error>>

NextRoot ==
  /\ stage = "cycles" /\ path = << >> /\ roots # {}
  /\ rule_cycle_from(Least(roots), path)
  /\ roots' = roots \ {Least(roots)}
  /\ UNCHANGED <<sources, parsed, incoming, ready, order, units, round, visited, patched, result>>

Descend ==
  LET top == path[Len(path)]
      id == Least(top.left)
  IN  /\ stage = "cycles" /\ path # << >> /\ top.left # {}
      /\ rule_cycle_from(id, [path EXCEPT ![Len(path)].left = @ \ {id}])
      /\ UNCHANGED <<sources, parsed, incoming, ready, order, units, round, roots, visited,
                     patched, result>>

(* Faulty variant: the rule stays on the path it has left.                 *)
LeftVisiting(id) == <<visiting, visited>>

Left(id) == <<visiting \ {id}, visited \cup {id}>>

Leave ==
  LET id == path[Len(path)].id
  IN  /\ stage = "cycles" /\ path # << >> /\ path[Len(path)].left = {}
      /\ visiting' = Left(id)[1] /\ visited' = Left(id)[2]
      /\ path' = Front(path)
      /\ UNCHANGED <<sources, parsed, stage, error, incoming, ready, order, units, round,
                     roots, patched, result>>

Built ==
  /\ stage = "cycles" /\ path = << >> /\ roots = {}
  /\ stage' = IF round = "baseline" THEN "patch" ELSE "lock"
  /\ UNCHANGED <<sources, parsed, error, incoming, ready, order, units, round, roots,
                 visiting, visited, path, patched, result>>

----------------------------------------------------------------------------
(* apply_patches: the packages in order, their patches in order of id.     *)

PatchesOf(m) == [k \in DOMAIN parsed[m].patches |-> [by |-> m, patch |-> parsed[m].patches[k]]]

AllPatches == FlattenSeq([k \in DOMAIN order |-> PatchesOf(order[k])])

(* The target is a dependency of the right version, the definition is one  *)
(* of its own, and the replacement has the same id and kind.               *)
PatchAllowed(by, p) ==
  /\ \E d \in parsed[by].deps : d.id = p.mod
  /\ p.mod \in DOMAIN parsed /\ parsed[p.mod].version \in p.versions
  /\ p.value.id = p.target
  /\ \E d \in units[p.mod] : d.id = p.target /\ d.kind = p.value.kind

replace_definition(value) ==
  [m \in DOMAIN units |->
     {IF d.id = value.id THEN value ELSE d : d \in units[m]}]

Patch ==
  LET next == AllPatches[patched + 1]
  IN  /\ stage = "patch" /\ patched < Len(AllPatches)
      /\ IF PatchAllowed(next.by, next.patch)
         THEN /\ units' = replace_definition(next.patch.value)
              /\ patched' = patched + 1
              /\ UNCHANGED <<stage, error>>
         ELSE Fail("patch") /\ UNCHANGED <<units, patched>>
      /\ UNCHANGED <<sources, parsed, incoming, ready, order, round, roots, visiting,
                     visited, path, result>>

Rebuild ==
  /\ stage = "patch" /\ patched = Len(AllPatches)
  /\ stage' = "build" /\ round' = "final"
  /\ UNCHANGED <<sources, parsed, error, incoming, ready, order, units, roots, visiting,
                 visited, path, patched, result>>

----------------------------------------------------------------------------
(* build_lock, split_world_lock and the prompts.                           *)

LockedDependencies(m, excluded) ==
  {[id |-> d.id, version |-> parsed[d.id].version, optional |-> d.optional] :
     d \in {x \in Present(m) : x.id \notin excluded}}

Locked(m, excluded) ==
  [id |-> m, version |-> parsed[m].version, deps |-> LockedDependencies(m, excluded)]

Excluded == {Engine, World}

build_lock == [k \in DOMAIN order |-> Locked(order[k], {})]

ModLock ==
  LET mods == SelectSeq(order, LAMBDA m : m \notin {Engine, World})
  IN  [k \in DOMAIN mods |-> Locked(mods[k], Excluded)]

(* ModLock::validate (persistence.rs).                                     *)
LockValid(lock) ==
  /\ \A i, j \in DOMAIN lock : lock[i].id = lock[j].id => i = j
  /\ \A i \in DOMAIN lock : \A d \in lock[i].deps :
       IF \E j \in DOMAIN lock : lock[j].id = d.id
       THEN \E j \in 1..(i - 1) : lock[j].id = d.id /\ lock[j].version = d.version
       ELSE d.optional

SplitAllowed ==
  /\ World \in DOMAIN parsed
  /\ LockedDependencies(World, {}) = {} /\ parsed[World].patches = << >>

(* flatten_prompt_sets: the world's, then the mods' in the order of the    *)
(* lock.                                                                   *)
flatten_prompt_sets(mods) ==
  parsed[World].prompts \o FlattenSeq([k \in DOMAIN mods |-> parsed[mods[k].id].prompts])

Lock ==
  /\ stage = "lock"
  /\ IF LockValid(build_lock) /\ SplitAllowed /\ LockValid(ModLock)
     THEN /\ stage' = "done"
          /\ result' = [mods |-> ModLock, prompts |-> flatten_prompt_sets(ModLock)]
          /\ UNCHANGED error
     ELSE Fail("lock") /\ UNCHANGED result
  /\ UNCHANGED <<sources, parsed, incoming, ready, order, units, round, roots, visiting,
                 visited, path, patched>>

Next ==
  \/ Read \/ CountIncoming \/ PopReady \/ Ordered
  \/ Build \/ NextRoot \/ Descend \/ Leave \/ Built
  \/ Patch \/ Rebuild \/ Lock

Spec == Init /\ [][Next]_vars

----------------------------------------------------------------------------
(* Properties.                                                             *)

(* Packages that wait for each other.                                      *)
DependencyLoop ==
  \E loop \in (SUBSET DOMAIN parsed) \ {{}} :
    \A m \in loop : \E d \in parsed[m].deps : d.id \in loop

(* dependency_order answers DependencyCycle exactly when packages wait for *)
(* each other; else the order has every package once, each as early as its *)
(* dependencies and the order of the ids allow.  So it does not depend on  *)
(* the order of the sources.                                               *)
OrderExact ==
  /\ error = "cycle" => DependencyLoop
  /\ stage \in {"build", "cycles", "patch", "lock", "done"} =>
       /\ ~DependencyLoop
       /\ Range(order) = DOMAIN parsed
       /\ \A i \in DOMAIN order :
            LET before == {order[j] : j \in 1..(i - 1)}
            IN  order[i] = Min({m \in DOMAIN parsed \ before :
                                  {d.id : d \in Present(m)} \subseteq before})

(* Whatever the patches replaced, every reference of the registry that is  *)
(* handed out leads to a definition of the kind it needs.                  *)
RegistryClosed ==
  stage = "done" =>
    \A d \in Definitions(units) : \A r \in d.refs :
      Cardinality({e \in Definitions(units) : e.id = r.to /\ e.kind \in r.kinds}) = 1

(* Rules that can trigger each other for ever.                             *)
RuleLoop ==
  \E loop \in (SUBSET {d.id : d \in RulesOf(units)}) \ {{}} :
    \A id \in loop : Targets(id) \cap loop # {}

(* The search of validate_rule_cycles finds a loop exactly when there is   *)
(* one, across packages and after patches: a cascade of an accepted world  *)
(* is finite, and rules that merely meet again are not refused.            *)
CascadesFinite ==
  /\ stage = "done" => ~RuleLoop
  /\ error = "emit_cycle" => RuleLoop

============================================================================
