---------------------------- MODULE ContentProofs ----------------------------
(***************************************************************************)
(* Theorems about Content for every set of packages that may be compiled,  *)
(* however many there are and whatever depends on, refers to or patches    *)
(* what; and about PlayerForm for every form a package may define, however *)
(* many fields and options it has, and whatever is typed into it.          *)
(***************************************************************************)
EXTENDS Content, PlayerForm, FiniteSetTheorems, SequenceTheorems, TLAPS

(* The prover's induction is the least number principle.                   *)
LEMMA LeastNumber ==
  ASSUME NEW S \in SUBSET Nat, S # {}
  PROVE  \E x \in S : \A y \in S : x <= y
  <1> DEFINE R == OpToRel(<, Nat)
  <1>1. IsWellFoundedOn(R, Nat)
    BY NatLessThanWellFounded
  <1>2. \A x, y \in Nat : y < x => <<y, x>> \in R
    BY DEF OpToRel
  <1> HIDE DEF R
  <1>3. PICK x \in S : \A y \in S : ~(<<y, x>> \in R)
    BY <1>1, WFMin
  <1>4. ASSUME NEW y \in S PROVE x <= y
    <2>1. ~(y < x)
      BY <1>2, <1>3
    <2>2. x \in Nat /\ y \in Nat
      OBVIOUS
    <2> HIDE <1>3
    <2> QED
      BY <2>1, <2>2
  <1> QED
    BY <1>4

LEMMA MinIsIn ==
  ASSUME NEW S \in SUBSET Nat, S # {}
  PROVE  Min(S) \in S
  BY LeastNumber DEF Min

(* ready.pop_first and the searches over definitions always find one.      *)
NatId(id) == id[1] \in Nat /\ id[3] \in Nat

LEMMA LeastIsIn ==
  ASSUME NEW S, S # {}, \A id \in S : NatId(id)
  PROVE  Least(S) \in S
  <1> DEFINE mods == {id[1] : id \in S}
  <1>1. PICK m \in mods : \A n \in mods : m <= n
    BY LeastNumber DEF NatId
  <1> DEFINE names == {id[3] : id \in {i \in S : i[1] = m}}
  <1>2. names \in SUBSET Nat /\ names # {}
    BY DEF NatId
  <1>3. PICK n \in names : \A o \in names : n <= o
    BY <1>2, LeastNumber
  <1>4. PICK i \in S : i[1] = m /\ i[3] = n
    BY <1>3
  <1>5. ASSUME NEW j \in S
        PROVE  i[1] < j[1] \/ (i[1] = j[1] /\ i[3] <= j[3])
    <2>1. /\ i[1] \in Nat /\ j[1] \in Nat /\ m <= j[1]
          /\ j[1] = m => n <= j[3]
      BY <1>1, <1>3, <1>4 DEF NatId
    <2> QED
      BY <1>4, <2>1
  <1> QED
    BY <1>5 DEF Least

-----------------------------------------------------------------------------
(* What is read.                                                           *)
Packages == UNION {Range(input) : input \in Inputs}

LEMMA PackageTypes ==
  ASSUME NEW p \in Packages
  PROVE  /\ p.id \in Nat /\ IsFiniteSet(p.deps)
         /\ \A d \in p.defs : NatId(d.id)
  BY ContentAssumption DEF ContentAssumption, Packages, Range, NatId

(* The packages read so far are checked ones, under their own ids; an      *)
(* error ends the compilation.                                             *)
ParsedOK ==
  /\ IsFiniteSet(DOMAIN parsed)
  /\ \A m \in DOMAIN parsed : /\ parsed[m] \in Packages /\ parsed[m].id = m
                              /\ validate_manifest(parsed[m])

ReadInv ==
  /\ sources \in Seq(Packages)
  /\ ParsedOK
  /\ error # "none" => stage = "failed"

LEMMA ReadInit == Init => ReadInv
  <1> SUFFICES ASSUME Init PROVE ReadInv
    OBVIOUS
  <1>1. DOMAIN parsed = {}
    BY DEF Init, Empty
  <1>2. sources \in Seq(Packages)
    <2>1. /\ sources \in Seq(Range(sources))
          /\ Range(sources) \subseteq Packages
      BY ContentAssumption DEF Init, ContentAssumption, Packages
    <2> QED
      BY <2>1, SeqMonotonic
  <1> QED
    BY <1>1, <1>2, FS_EmptySet DEF Init, ReadInv, ParsedOK

(* The steps after the reading.                                            *)
Ordering == CountIncoming \/ PopReady \/ Ordered
Searching == Build \/ NextRoot \/ Descend \/ Leave \/ Built
Finishing == Patch \/ Rebuild \/ Lock

LEMMA ReadOnly ==
  ASSUME ReadInv, Ordering \/ Searching \/ Finishing
  PROVE  /\ UNCHANGED <<sources, parsed>>
         /\ error = "none" /\ stage # "failed"
         /\ error' # "none" => stage' = "failed"
  <1> USE DEF ReadInv, Fail
  <1>1. CASE Ordering
    BY <1>1 DEF Ordering, CountIncoming, PopReady, Ordered
  <1>2. CASE Searching
    <2>1. CASE Build
      BY <2>1 DEF Build
    <2>2. CASE NextRoot
      BY <2>2 DEF NextRoot, rule_cycle_from
    <2>3. CASE Descend
      BY <2>3 DEF Descend, rule_cycle_from
    <2>4. CASE Leave \/ Built
      BY <2>4 DEF Leave, Built
    <2> QED
      BY <1>2, <2>1, <2>2, <2>3, <2>4 DEF Searching
  <1>3. CASE Finishing
    BY <1>3 DEF Finishing, Patch, Rebuild, Lock
  <1> QED
    BY <1>1, <1>2, <1>3

LEMMA ReadStep ==
  ASSUME ReadInv, [Next]_vars PROVE ReadInv'
  <1>1. CASE Ordering \/ Searching \/ Finishing
    BY <1>1, ReadOnly DEF ReadInv, ParsedOK, validate_manifest
  <1>2. CASE Read
    <2> DEFINE p == Head(sources)
    <2>1. p \in Packages /\ sources' \in Seq(Packages)
      BY <1>2, HeadTailProperties DEF Read, ReadInv
    <2>2. CASE parsed' = parsed
      BY <1>2, <2>1, <2>2 DEF Read, Fail, ReadInv, ParsedOK, validate_manifest
    <2>3. CASE /\ parse_package(p)
               /\ parsed' = [m \in DOMAIN parsed \cup {p.id} |->
                               IF m = p.id THEN p ELSE parsed[m]]
               /\ UNCHANGED <<stage, error>>
      <3>1. IsFiniteSet(DOMAIN parsed')
        BY <2>3, FS_AddElement DEF ReadInv, ParsedOK
      <3>2. ASSUME NEW m \in DOMAIN parsed'
            PROVE  /\ parsed'[m] \in Packages /\ parsed'[m].id = m
                   /\ validate_manifest(parsed'[m])
        BY <2>1, <2>3 DEF ReadInv, ParsedOK, parse_package
      <3>3. ParsedOK'
        BY <3>1, <3>2 DEF ParsedOK, validate_manifest
      <3> QED
        BY <2>1, <2>3, <3>3 DEF ReadInv
    <2> QED
      BY <1>2, <2>2, <2>3 DEF Read
  <1>3. CASE UNCHANGED vars
    BY <1>3 DEF vars, ReadInv, ParsedOK, validate_manifest
  <1> QED
    BY <1>1, <1>2, <1>3 DEF Next, Ordering, Searching, Finishing

-----------------------------------------------------------------------------
(* dependency_order.                                                       *)
DepIds(m) == {d.id : d \in Present(m)}

(* The dependencies of a package that the order does not have yet, and the *)
(* packages that may come next.                                            *)
Missing(m, done) == {d \in Present(m) : d.id \notin done}

Candidates(done) == {m \in DOMAIN parsed \ done : DepIds(m) \subseteq done}

NoLoopIn(S) ==
  \A loop \in (SUBSET S) \ {{}} :
    \E m \in loop : \A d \in parsed[m].deps : d.id \notin loop

Before(i) == {order[j] : j \in 1..(i - 1)}

(* Every package once, each the least candidate in its turn; what is in    *)
(* the order does not wait for anything outside of it nor for itself.      *)
PlacedOK ==
  /\ order \in Seq(DOMAIN parsed)
  /\ \A i, j \in DOMAIN order : order[i] = order[j] => i = j
  /\ \A i \in DOMAIN order : order[i] = Min(Candidates(Before(i)))
  /\ \A m \in Range(order) : DepIds(m) \subseteq Range(order)
  /\ NoLoopIn(Range(order))

(* The counts are those of what is missing, and the packages with nothing  *)
(* missing are the ready ones.                                             *)
QueueOK ==
  /\ incoming = [m \in DOMAIN parsed |-> Cardinality(Missing(m, Range(order)))]
  /\ ready = Candidates(Range(order))

Complete == {"build", "cycles", "patch", "lock", "done"}

OrderInv ==
  /\ stage = "read" => order = << >>
  /\ stage = "order" => PlacedOK /\ QueueOK
  /\ stage \in Complete => PlacedOK /\ Range(order) = DOMAIN parsed
  /\ error = "cycle" => DependencyLoop

LEMMA DepsOf ==
  ASSUME ParsedOK, NEW m \in DOMAIN parsed
  PROVE  /\ m \in Nat
         /\ DepIds(m) \subseteq DOMAIN parsed /\ m \notin DepIds(m)
         /\ \A d \in parsed[m].deps : d.id \in DOMAIN parsed => d.id \in DepIds(m)
         /\ \A d, e \in Present(m) : d.id = e.id => d = e
  BY PackageTypes DEF ParsedOK, validate_manifest, DepIds, Present

LEMMA SamePackages ==
  ASSUME UNCHANGED parsed
  PROVE  /\ \A m : Present(m)' = Present(m) /\ DepIds(m)' = DepIds(m)
         /\ DependencyLoop => DependencyLoop'
  BY DEF Present, DepIds, DependencyLoop

LEMMA SameOrder ==
  ASSUME UNCHANGED <<parsed, order>>
  PROVE  /\ PlacedOK => PlacedOK'
         /\ QueueOK /\ UNCHANGED <<incoming, ready>> => QueueOK'
  <1>1. \A m : Present(m)' = Present(m) /\ DepIds(m)' = DepIds(m)
    BY SamePackages
  <1>2. \A i : Candidates(Before(i))' = Candidates(Before(i))
    BY <1>1 DEF Candidates, Before
  <1>3. /\ Candidates(Range(order))' = Candidates(Range(order))
        /\ \A m : Missing(m, Range(order))' = Missing(m, Range(order))
    BY <1>1 DEF Candidates, Missing
  <1>4. NoLoopIn(Range(order)) => NoLoopIn(Range(order))'
    BY DEF NoLoopIn
  <1>5. PlacedOK => PlacedOK'
    BY <1>1, <1>2, <1>4 DEF PlacedOK
  <1>6. QueueOK /\ UNCHANGED <<incoming, ready>> => QueueOK'
    BY <1>3 DEF QueueOK
  <1> QED
    BY <1>5, <1>6

LEMMA MissingFinite ==
  ASSUME ParsedOK, NEW m \in DOMAIN parsed, NEW done
  PROVE  /\ IsFiniteSet(Missing(m, done))
         /\ Cardinality(Missing(m, done)) \in Nat
         /\ Cardinality(Missing(m, done)) = 0 <=> DepIds(m) \subseteq done
  <1>1. IsFiniteSet(parsed[m].deps)
    BY PackageTypes DEF ParsedOK
  <1>2. IsFiniteSet(Missing(m, done))
    <2>1. Missing(m, done) \in SUBSET parsed[m].deps
      BY DEF Missing, Present
    <2> QED
      BY <1>1, <2>1, FS_Subset
  <1>3. Missing(m, done) = {} <=> DepIds(m) \subseteq done
    BY DEF Missing, DepIds
  <1> QED
    BY <1>2, <1>3, FS_CardinalityType, FS_EmptySet

(* One dependency less is missing.                                         *)
LEMMA OneLessMissing ==
  ASSUME ParsedOK, NEW n \in DOMAIN parsed, NEW done,
         NEW m \in DOMAIN parsed \ done
  PROVE  Cardinality(Missing(n, done \cup {m})) =
           IF n \in Dependents(m) THEN Cardinality(Missing(n, done)) - 1
           ELSE Cardinality(Missing(n, done))
  <1>1. CASE n \in Dependents(m)
    <2>1. PICK d \in Present(n) : d.id = m
      BY <1>1 DEF Dependents, Present
    <2>2. Missing(n, done \cup {m}) = Missing(n, done) \ {d} /\ d \in Missing(n, done)
      BY <2>1, DepsOf DEF Missing
    <2>3. IsFiniteSet(Missing(n, done))
      BY MissingFinite
    <2>4. Cardinality(Missing(n, done) \ {d}) = Cardinality(Missing(n, done)) - 1
      BY <2>2, <2>3, FS_RemoveElement
    <2> QED
      BY <1>1, <2>2, <2>4
  <1>2. CASE n \notin Dependents(m)
    <2>1. Missing(n, done \cup {m}) = Missing(n, done)
      BY <1>2 DEF Missing, Dependents, Present
    <2> QED
      BY <1>2, <2>1
  <1> QED
    BY <1>1, <1>2

LEMMA CountStep ==
  ASSUME ReadInv, OrderInv, CountIncoming PROVE OrderInv'
  <1>1. UNCHANGED <<sources, parsed, order>> /\ order = << >> /\ error = "none"
    BY DEF CountIncoming, OrderInv, ReadInv
  <1>2. CASE Fail("dependency")
    BY <1>1, <1>2 DEF Fail, OrderInv, Complete
  <1>3. CASE /\ stage' = "order" /\ error' = error
             /\ incoming' = [m \in DOMAIN parsed |-> Cardinality(Present(m))]
             /\ ready' = {m \in DOMAIN parsed : Cardinality(Present(m)) = 0}
    <2>1. Range(order) = {} /\ Range(order') = {} /\ DOMAIN order = {}
      BY <1>1 DEF Range
    <2>2. \A m \in DOMAIN parsed : Missing(m, {}) = Present(m)
      BY DEF Missing
    <2>3. \A m \in DOMAIN parsed : Cardinality(Present(m)) = 0 <=> DepIds(m) \subseteq {}
      BY <2>2, MissingFinite DEF ReadInv
    <2>4. QueueOK'
      <3>1. \A m : Present(m)' = Present(m) /\ DepIds(m)' = DepIds(m)
        BY <1>1, SamePackages
      <3>2. \A m \in DOMAIN parsed : Missing(m, Range(order))' = Present(m)
        BY <1>1, <2>1, <3>1 DEF Missing
      <3>3. Candidates(Range(order))' = ready'
        BY <1>1, <1>3, <2>1, <2>3, <3>1 DEF Candidates
      <3> QED
        BY <1>1, <1>3, <3>2, <3>3 DEF QueueOK
    <2>5. PlacedOK'
      BY <1>1, <2>1 DEF PlacedOK, NoLoopIn
    <2> QED
      BY <1>1, <1>3, <2>4, <2>5 DEF OrderInv, Complete
  <1> QED
    BY <1>2, <1>3 DEF CountIncoming

(* What the new package adds to the order can be in no loop of it.         *)
LEMMA StillNoLoop ==
  ASSUME ParsedOK, NEW S, NoLoopIn(S), S \subseteq DOMAIN parsed,
         \A n \in S : DepIds(n) \subseteq S,
         NEW m \in Candidates(S)
  PROVE  NoLoopIn(S \cup {m})
  <1> SUFFICES ASSUME NEW loop \in SUBSET (S \cup {m}), loop # {}
               PROVE  \E n \in loop : \A d \in parsed[n].deps : d.id \notin loop
    BY DEF NoLoopIn
  <1>1. m \in DOMAIN parsed /\ m \notin S /\ DepIds(m) \subseteq S
    BY DEF Candidates
  <1>2. CASE loop \subseteq {m}
    <2>1. \A d \in parsed[m].deps : d.id # m
      BY <1>1, DepsOf
    <2> QED
      BY <1>2, <2>1
  <1>3. CASE ~(loop \subseteq {m})
    <2>1. loop \ {m} \in (SUBSET S) \ {{}}
      BY <1>3
    <2>2. PICK n \in loop \ {m} : \A d \in parsed[n].deps : d.id \notin loop \ {m}
      BY <2>1 DEF NoLoopIn
    <2>3. n \in S /\ n \in DOMAIN parsed /\ m \notin DepIds(n)
      BY <1>1, <2>2
    <2>4. \A d \in parsed[n].deps : d.id # m
      BY <1>1, <2>3, DepsOf
    <2> QED
      BY <2>2, <2>4
  <1> QED
    BY <1>2, <1>3

LEMMA PopStep ==
  ASSUME ReadInv, OrderInv, PopReady PROVE OrderInv'
  <1> DEFINE m == Min(ready)
             placed == Range(order)
  <1>1. /\ stage = "order" /\ stage' = "order" /\ parsed' = parsed
        /\ error' = error /\ error = "none" /\ ready # {}
        /\ PlacedOK /\ QueueOK /\ ParsedOK
        /\ order' = Append(order, m)
        /\ incoming' = [n \in DOMAIN incoming |->
                          IF n \in Dependents(m) /\ incoming[n] > 0 THEN incoming[n] - 1
                          ELSE incoming[n]]
        /\ ready' = (ready \ {m}) \cup NowReady(m)
    BY DEF PopReady, OrderInv, ReadInv
  <1>2. ready = Candidates(placed) /\ ready \in SUBSET Nat
    BY <1>1, DepsOf DEF QueueOK, Candidates
  <1>3. m \in Candidates(placed)
    BY <1>1, <1>2, MinIsIn
  <1>4. m \in DOMAIN parsed /\ m \notin placed /\ DepIds(m) \subseteq placed
    BY <1>3 DEF Candidates
  <1>5. order \in Seq(DOMAIN parsed) /\ Len(order) \in Nat /\ DOMAIN order = 1..Len(order)
    BY <1>1, LenProperties DEF PlacedOK
  <1>6. placed \subseteq DOMAIN parsed
    BY <1>5, ElementOfSeq DEF Range
  <1> HIDE DEF m
  <1>7. /\ order' \in Seq(DOMAIN parsed)
        /\ Len(order') = Len(order) + 1 /\ DOMAIN order' = 1..(Len(order) + 1)
        /\ order'[Len(order) + 1] = m
        /\ \A i \in 1..Len(order) : order'[i] = order[i]
    BY <1>1, <1>4, <1>5, AppendProperties
  <1>8. Range(order') = placed \cup {m}
    BY <1>5, <1>7 DEF Range
  <1>9. QueueOK'
    <2>1. \A n \in DOMAIN parsed : incoming[n] = Cardinality(Missing(n, placed))
      BY <1>1 DEF QueueOK
    <2>2. ASSUME NEW n \in DOMAIN parsed
          PROVE  incoming'[n] = Cardinality(Missing(n, placed \cup {m}))
      <3>1. n \in Dependents(m) => ~(DepIds(n) \subseteq placed)
        BY <1>4 DEF Dependents, DepIds, Present
      <3>2. /\ Cardinality(Missing(n, placed)) \in Nat
            /\ Cardinality(Missing(n, placed)) = 0 <=> DepIds(n) \subseteq placed
        BY <1>1, MissingFinite
      <3>3. /\ incoming'[n] = IF n \in Dependents(m) /\ incoming[n] > 0
                              THEN incoming[n] - 1 ELSE incoming[n]
            /\ incoming[n] = Cardinality(Missing(n, placed))
        BY <1>1, <2>1 DEF QueueOK
      <3>4. Cardinality(Missing(n, placed \cup {m})) =
              IF n \in Dependents(m) THEN Cardinality(Missing(n, placed)) - 1
              ELSE Cardinality(Missing(n, placed))
        BY <1>1, <1>4, OneLessMissing
      <3> HIDE DEF placed
      <3> QED
        BY <3>1, <3>2, <3>3, <3>4
    <2>3. DOMAIN incoming' = DOMAIN parsed
      BY <1>1 DEF QueueOK
    <2>4. incoming' = [n \in DOMAIN parsed |->
                         Cardinality(Missing(n, placed \cup {m}))]
      BY <1>1, <2>2, <2>3
    <2>5. Candidates(placed \cup {m}) = ready'
      <3>1. ASSUME NEW n \in DOMAIN parsed
            PROVE  /\ incoming[n] = 1 /\ n \in Dependents(m)
                        => DepIds(n) \subseteq placed \cup {m}
                   /\ DepIds(n) \subseteq placed \cup {m} /\ ~(DepIds(n) \subseteq placed)
                        => incoming[n] = 1 /\ n \in Dependents(m)
        <4>1. /\ Cardinality(Missing(n, placed)) \in Nat
              /\ Cardinality(Missing(n, placed)) = 0 <=> DepIds(n) \subseteq placed
              /\ Cardinality(Missing(n, placed \cup {m})) = 0
                   <=> DepIds(n) \subseteq placed \cup {m}
          BY <1>1, MissingFinite
        <4>2. incoming[n] = Cardinality(Missing(n, placed))
          BY <2>1
        <4>3. Cardinality(Missing(n, placed \cup {m})) =
                IF n \in Dependents(m) THEN Cardinality(Missing(n, placed)) - 1
                ELSE Cardinality(Missing(n, placed))
          BY <1>1, <1>4, OneLessMissing
        <4> HIDE DEF placed
        <4> QED
          BY <4>1, <4>2, <4>3
      <3>2. ASSUME NEW n \in DOMAIN parsed, n \in placed \cup {m}
            PROVE  n \notin Dependents(m)
        <4>1. m \notin DepIds(n)
          BY <1>1, <1>4, <3>2, DepsOf DEF PlacedOK
        <4> QED
          BY <1>1, <1>4, <4>1, DepsOf DEF Dependents
      <3>3. Dependents(m) \subseteq DOMAIN parsed
        BY DEF Dependents
      <3> QED
        BY <1>1, <1>2, <3>1, <3>2, <3>3 DEF Candidates, NowReady
    <2>6. \A n : Present(n)' = Present(n) /\ DepIds(n)' = DepIds(n)
      BY <1>1, SamePackages
    <2>7. /\ Candidates(Range(order))' = Candidates(placed \cup {m})
          /\ \A n : Missing(n, Range(order))' = Missing(n, placed \cup {m})
      BY <1>1, <1>8, <2>6 DEF Candidates, Missing
    <2> QED
      BY <1>1, <2>4, <2>5, <2>7 DEF QueueOK
  <1>10. PlacedOK'
    <2>1. \A i, j \in DOMAIN order' : order'[i] = order'[j] => i = j
      <3>1. \A i \in 1..Len(order) : order'[i] \in placed
        BY <1>5, <1>7 DEF Range
      <3>2. \A i, j \in 1..Len(order) : order'[i] = order'[j] => i = j
        BY <1>1, <1>5, <1>7 DEF PlacedOK
      <3>3. \A i \in DOMAIN order' : i \in 1..Len(order) \/ i = Len(order) + 1
        BY <1>5, <1>7
      <3> QED
        BY <1>4, <1>7, <3>1, <3>2, <3>3
    <2>2. ASSUME NEW i \in DOMAIN order'
          PROVE  order'[i] = Min(Candidates({order'[j] : j \in 1..(i - 1)}))
      <3>1. CASE i \in 1..Len(order)
        <4>1. {order'[j] : j \in 1..(i - 1)} = Before(i)
          <5>1. \A j \in 1..(i - 1) : order'[j] = order[j]
            BY <1>5, <1>7, <3>1
          <5> QED
            BY <5>1 DEF Before
        <4> QED
          BY <1>1, <1>5, <1>7, <3>1, <4>1 DEF PlacedOK
      <3>2. CASE i = Len(order) + 1
        <4>1. {order'[j] : j \in 1..(i - 1)} = placed
          <5>1. 1..(i - 1) = DOMAIN order /\ \A j \in DOMAIN order : order'[j] = order[j]
            BY <1>5, <1>7, <3>2
          <5> QED
            BY <5>1 DEF Range
        <4> QED
          BY <1>2, <1>7, <3>2, <4>1 DEF m
      <3> QED
        BY <1>5, <1>7, <3>1, <3>2
    <2>3. \A n \in placed \cup {m} : DepIds(n) \subseteq placed \cup {m}
      BY <1>1, <1>4 DEF PlacedOK
    <2>4. NoLoopIn(placed \cup {m})
      BY <1>1, <1>3, <1>6, StillNoLoop DEF PlacedOK
    <2>5. \A n : Present(n)' = Present(n) /\ DepIds(n)' = DepIds(n)
      BY <1>1, SamePackages
    <2>6. \A i : Candidates(Before(i))' = Candidates({order'[j] : j \in 1..(i - 1)})
      BY <1>1, <2>5 DEF Candidates, Before
    <2> HIDE DEF placed
    <2>7. NoLoopIn(Range(order))'
      BY <1>1, <1>8, <2>4 DEF NoLoopIn
    <2>8. (order \in Seq(DOMAIN parsed))'
      BY <1>1, <1>7
    <2>9. (\A i \in DOMAIN order : order[i] = Min(Candidates(Before(i))))'
      <3>1. ASSUME NEW i \in DOMAIN order' PROVE order'[i] = Min(Candidates(Before(i))')
        BY <2>2, <2>6
      <3> QED
        BY <3>1
    <2>10. (\A n \in Range(order) : DepIds(n) \subseteq Range(order))'
      BY <1>8, <2>3, <2>5
    <2> QED
      BY <2>1, <2>7, <2>8, <2>9, <2>10 DEF PlacedOK
  <1> QED
    BY <1>1, <1>9, <1>10 DEF OrderInv, Complete

(* When nothing is ready, what is left over waits for each other.          *)
LEMMA LeftOver ==
  ASSUME ParsedOK, PlacedOK, QueueOK, ready = {}
  PROVE  /\ Len(order) # Cardinality(DOMAIN parsed) => DependencyLoop
         /\ Len(order) = Cardinality(DOMAIN parsed) => Range(order) = DOMAIN parsed
  <1> DEFINE placed == Range(order)
  <1>1. order \in Seq(DOMAIN parsed) /\ Len(order) \in Nat /\ DOMAIN order = 1..Len(order)
    BY LenProperties DEF PlacedOK
  <1>2. placed \in SUBSET DOMAIN parsed
    BY <1>1, ElementOfSeq DEF Range
  <1>3. Cardinality(placed) = Len(order)
    <2>1. order \in [1..Len(order) -> placed]
      BY <1>1 DEF Range
    <2>2. order \in Bijection(1..Len(order), placed)
      BY <1>1, <2>1 DEF Bijection, Injection, Surjection, IsInjective, Range, PlacedOK
    <2>3. ExistsBijection(1..Len(order), placed)
      BY <2>2 DEF ExistsBijection
    <2> QED
      BY <1>1, <2>3, FS_CountingElements
  <1>4. CASE placed = DOMAIN parsed
    BY <1>3, <1>4
  <1>5. CASE placed # DOMAIN parsed
    <2>1. Len(order) # Cardinality(DOMAIN parsed)
      BY <1>2, <1>3, <1>5, FS_Subset DEF ParsedOK
    <2> DEFINE loop == DOMAIN parsed \ placed
    <2>2. ASSUME NEW m \in loop PROVE \E d \in parsed[m].deps : d.id \in loop
      <3>1. ~(DepIds(m) \subseteq placed)
        BY <2>2 DEF QueueOK, Candidates
      <3> QED
        BY <3>1 DEF DepIds, Present
    <2>3. loop \in (SUBSET DOMAIN parsed) \ {{}}
      BY <1>2, <1>5
    <2> HIDE DEF loop
    <2> QED
      BY <2>1, <2>2, <2>3 DEF DependencyLoop
  <1> QED
    BY <1>4, <1>5

LEMMA OrderedStep ==
  ASSUME ReadInv, OrderInv, Ordered PROVE OrderInv'
  <1>1. /\ UNCHANGED <<parsed, order>> /\ error = "none" /\ ready = {}
        /\ PlacedOK /\ QueueOK /\ ParsedOK
    BY DEF Ordered, OrderInv, ReadInv
  <1>2. PlacedOK'
    BY <1>1, SameOrder
  <1>3. DependencyLoop => DependencyLoop'
    BY <1>1, SamePackages
  <1>4. CASE Fail("cycle") /\ Len(order) # Cardinality(DOMAIN parsed)
    BY <1>1, <1>3, <1>4, LeftOver DEF Fail, OrderInv, Complete
  <1>5. CASE Fail("group")
    BY <1>5 DEF Fail, OrderInv, Complete
  <1>6. CASE /\ stage' = "build" /\ error' = error
             /\ Len(order) = Cardinality(DOMAIN parsed)
    BY <1>1, <1>2, <1>6, LeftOver DEF OrderInv, Complete
  <1> QED
    BY <1>4, <1>5, <1>6 DEF Ordered

LEMMA OrderFrame ==
  ASSUME OrderInv, UNCHANGED <<parsed, order>>,
         \/ stage \in Complete /\ stage' \in Complete /\ error' = error
         \/ stage' = "failed" /\ error' # "cycle"
         \/ UNCHANGED <<stage, error, incoming, ready>>
  PROVE  OrderInv'
  <1>1. /\ PlacedOK => PlacedOK'
        /\ DependencyLoop => DependencyLoop'
    BY SameOrder, SamePackages
  <1>2. QueueOK /\ UNCHANGED <<incoming, ready>> => QueueOK'
    BY SameOrder
  <1> QED
    BY <1>1, <1>2 DEF OrderInv, Complete

LEMMA OrderStep ==
  ASSUME ReadInv, OrderInv, [Next]_vars PROVE OrderInv'
  <1>1. CASE Read
    <2>1. order' = order /\ order = << >> /\ error = "none"
          /\ (error' = error \/ error' \in {"package", "duplicate"})
          /\ (stage' = stage \/ stage' = "failed") /\ stage = "read"
      BY <1>1 DEF Read, Fail, OrderInv, ReadInv
    <2> QED
      BY <2>1 DEF OrderInv, Complete
  <1>2. CASE CountIncoming \/ PopReady \/ Ordered
    BY <1>2, CountStep, PopStep, OrderedStep
  <1>3. CASE Searching
    <2>1. CASE Build
      BY <2>1, OrderFrame DEF Build, Fail, Complete
    <2>2. CASE NextRoot
      BY <2>2, OrderFrame DEF NextRoot, rule_cycle_from, Fail
    <2>3. CASE Descend
      BY <2>3, OrderFrame DEF Descend, rule_cycle_from, Fail
    <2>4. CASE Leave \/ Built
      BY <2>4, OrderFrame DEF Leave, Built, Complete
    <2> QED
      BY <1>3, <2>1, <2>2, <2>3, <2>4 DEF Searching
  <1>4. CASE Patch \/ Rebuild \/ Lock
    BY <1>4, OrderFrame DEF Patch, Rebuild, Lock, Fail, Complete
  <1>5. CASE UNCHANGED vars
    BY <1>5, OrderFrame DEF vars
  <1> QED
    BY <1>1, <1>2, <1>3, <1>4, <1>5 DEF Next, Searching

(* dependency_order refuses exactly the packages that wait for each other; *)
(* the order it answers has every package once, each as early as its       *)
(* dependencies and the order of the ids allow.                            *)
THEOREM OrderIsExact == Spec => []OrderExact
  <1>1. Init => OrderInv
    BY DEF Init, OrderInv, Complete
  <1>2. OrderInv => OrderExact
    <2> SUFFICES ASSUME OrderInv PROVE OrderExact
      OBVIOUS
    <2>1. ASSUME stage \in Complete
          PROVE  /\ ~DependencyLoop /\ Range(order) = DOMAIN parsed
                 /\ \A i \in DOMAIN order : order[i] = Min(Candidates(Before(i)))
      BY <2>1 DEF OrderInv, PlacedOK, NoLoopIn, DependencyLoop
    <2> QED
      BY <2>1 DEF OrderExact, OrderInv, Complete, Candidates, DepIds, Before
  <1> QED
    BY <1>1, <1>2, ReadInit, ReadStep, OrderStep, PTL DEF Spec

-----------------------------------------------------------------------------
(* The registry.                                                           *)

(* Every package has its definitions, under ids that can be ordered, and   *)
(* while a registry is searched or handed out its checks have been passed. *)
RegistryInv ==
  /\ stage \in Complete => DOMAIN units = DOMAIN parsed
  /\ \A d \in Definitions(units) : NatId(d.id)
  /\ stage \in {"cycles", "lock", "done"} =>
       DefinitionsSound(units) /\ ReferencesResolve(units)

LEMMA RegistryFrame ==
  ASSUME RegistryInv, UNCHANGED <<parsed, units>>,
         \/ stage' = stage
         \/ stage' \in Complete /\ stage \in Complete
            /\ (stage' \in {"cycles", "lock", "done"} => 
                  DefinitionsSound(units) /\ ReferencesResolve(units))
         \/ stage' = "failed" \/ stage' = "order"
  PROVE  RegistryInv'
  <1>1. /\ Definitions(units)' = Definitions(units)
        /\ DefinitionsSound(units)' <=> DefinitionsSound(units)
        /\ ReferencesResolve(units)' <=> ReferencesResolve(units)
    BY DEF Definitions, DefinitionsSound, ReferencesResolve, Resolves
  <1> QED
    BY <1>1 DEF RegistryInv, Complete, NatId

LEMMA RegistryStep ==
  ASSUME ReadInv, RegistryInv, [Next]_vars PROVE RegistryInv'
  <1>1. CASE Read
    <2>1. /\ units' = units /\ stage = "read" /\ stage' \in {"read", "failed"}
          /\ \A d \in Definitions(units) : NatId(d.id)
      BY <1>1 DEF Read, Fail, RegistryInv
    <2> QED
      BY <2>1 DEF RegistryInv, Complete, Definitions, NatId
  <1>2. CASE CountIncoming \/ PopReady
    BY <1>2, RegistryFrame DEF CountIncoming, PopReady, Fail
  <1>3. CASE Ordered
    <2>1. CASE UNCHANGED <<parsed, units>> /\ stage' = "failed"
      BY <2>1, RegistryFrame
    <2>2. CASE /\ stage' = "build" /\ parsed' = parsed
               /\ units' = [m \in DOMAIN parsed |-> parsed[m].defs]
      <3>1. \A d \in Definitions(units') : NatId(d.id)
        BY <2>2, PackageTypes DEF Definitions, ReadInv, ParsedOK
      <3> QED
        BY <2>2, <3>1 DEF RegistryInv, Definitions, NatId
    <2> QED
      BY <1>3, <2>1, <2>2 DEF Ordered, Fail
  <1>4. CASE Build
    BY <1>4, RegistryFrame DEF Build, Fail, Complete
  <1>5. CASE NextRoot \/ Descend
    BY <1>5, RegistryFrame DEF NextRoot, Descend, rule_cycle_from, Fail
  <1>6. CASE Leave
    BY <1>6, RegistryFrame DEF Leave
  <1>7. CASE Built
    BY <1>7, RegistryFrame DEF Built, Complete, RegistryInv
  <1>8. CASE Patch
    <2>1. CASE UNCHANGED <<parsed, units>> /\ stage' = "failed"
      BY <2>1, RegistryFrame
    <2>2. ASSUME NEW by, NEW p, PatchAllowed(by, p),
                 units' = replace_definition(p.value),
                 stage = "patch", UNCHANGED <<stage, parsed>>
          PROVE  RegistryInv'
      <3>1. DOMAIN units' = DOMAIN units /\ DOMAIN units = DOMAIN parsed
        BY <2>2 DEF replace_definition, RegistryInv, Complete
      <3>2. NatId(p.value.id)
        <4>1. PICK d \in units[p.mod] : d.id = p.target
          BY <2>2 DEF PatchAllowed
        <4>2. d \in Definitions(units) /\ p.value.id = d.id
          BY <2>2, <3>1, <4>1 DEF PatchAllowed, Definitions
        <4> QED
          BY <4>2 DEF RegistryInv
      <3>3. \A d \in Definitions(units') : d \in Definitions(units) \/ d = p.value
        BY <2>2, <3>1 DEF Definitions, replace_definition
      <3>4. \A d \in Definitions(units') : NatId(d.id)
        BY <3>2, <3>3 DEF RegistryInv
      <3> QED
        BY <2>2, <3>1, <3>4 DEF RegistryInv, Definitions, NatId
    <2> QED
      BY <1>8, <2>1, <2>2 DEF Patch, Fail
  <1>9. CASE Rebuild
    BY <1>9, RegistryFrame DEF Rebuild, Complete
  <1>10. CASE Lock
    BY <1>10, RegistryFrame DEF Lock, Fail, Complete, RegistryInv
  <1>11. CASE UNCHANGED vars
    BY <1>11, RegistryFrame DEF vars
  <1> QED
    BY <1>1, <1>2, <1>3, <1>4, <1>5, <1>6, <1>7, <1>8, <1>9, <1>10, <1>11 DEF Next

LEMMA RegistryInit == Init => RegistryInv
  BY DEF Init, RegistryInv, Complete, Definitions, Empty

(* Whatever the patches replaced: every reference of the registry that is  *)
(* handed out leads to one definition of the kind it needs.                *)
THEOREM RegistryIsClosed == Spec => []RegistryClosed
  <1>1. RegistryInv => RegistryClosed
    <2> SUFFICES ASSUME RegistryInv, stage = "done",
                        NEW d \in Definitions(units), NEW r \in d.refs
                 PROVE  Cardinality({e \in Definitions(units) :
                                       e.id = r.to /\ e.kind \in r.kinds}) = 1
      BY DEF RegistryClosed
    <2>1. PICK x \in Definitions(units) : x.id = r.to /\ x.kind \in r.kinds
      BY DEF RegistryInv, ReferencesResolve, Resolves
    <2>2. {e \in Definitions(units) : e.id = r.to /\ e.kind \in r.kinds} = {x}
      BY <2>1 DEF RegistryInv, DefinitionsSound
    <2> QED
      BY <2>2, FS_Singleton
  <1> QED
    BY <1>1, ReadInit, ReadStep, RegistryInit, RegistryStep, PTL DEF Spec

-----------------------------------------------------------------------------
(* validate_rule_cycles.                                                   *)
Ids == {d.id : d \in RulesOf(units)}

Frames == [id : Ids, left : SUBSET Ids]

NoCascadeIn(S) ==
  \A loop \in (SUBSET S) \ {{}} : \E id \in loop : Targets(id) \cap loop = {}

(* The path: each frame is a target of the one below it, and what a frame  *)
(* has searched is visited or on the path above it.                        *)
PathOK ==
  /\ path \in Seq(Frames)
  /\ \A i \in DOMAIN path : path[i].left \subseteq Targets(path[i].id)
  /\ \A i \in 1..(Len(path) - 1) : path[i + 1].id \in Targets(path[i].id)
  /\ \A i \in DOMAIN path : \A t \in Targets(path[i].id) :
       \/ t \in path[i].left \/ t \in visited
       \/ i < Len(path) /\ t = path[i + 1].id
  /\ \A i, j \in DOMAIN path : path[i].id = path[j].id => i = j
  /\ visiting = {path[i].id : i \in DOMAIN path}
  /\ visiting \cap visited = {}

(* What is visited triggers only what is visited, and not for ever.        *)
VisitedOK ==
  /\ visited \subseteq Ids
  /\ \A id \in visited : Targets(id) \subseteq visited
  /\ NoCascadeIn(visited)

RootsOK ==
  /\ roots \subseteq Ids
  /\ \A id \in Ids : Targets(id) # {} => id \in roots \cup visited \cup visiting

SearchOK == PathOK /\ VisitedOK /\ RootsOK

CascadeInv ==
  /\ stage = "cycles" => SearchOK
  /\ stage \in {"lock", "done"} => ~RuleLoop
  /\ error = "emit_cycle" => RuleLoop

LEMMA TargetsAreRules ==
  ASSUME NEW id PROVE Targets(id) \subseteq Ids
  <1>1. ASSUME NEW t \in Targets(id) PROVE t \in Ids
    <2>1. PICK e \in RulesOf(units) : t = e.id
      BY <1>1 DEF Targets
    <2> QED
      BY <2>1 DEF Ids
  <1> QED
    BY <1>1

LEMMA RulesNat ==
  ASSUME RegistryInv, NEW S, S \subseteq Ids
  PROVE  \A id \in S : NatId(id)
  BY DEF RegistryInv, Ids, RulesOf

LEMMA SameUnits ==
  ASSUME UNCHANGED units
  PROVE  /\ \A id : Targets(id)' = Targets(id)
         /\ Ids' = Ids /\ Frames' = Frames
         /\ RuleLoop' <=> RuleLoop
  <1>1. RulesOf(units)' = RulesOf(units)
    BY DEF RulesOf, Definitions
  <1>2. \A id : Targets(id)' = Targets(id)
    BY <1>1 DEF Targets
  <1>3. Ids' = Ids
    BY <1>1 DEF Ids
  <1> QED
    BY <1>1, <1>2, <1>3 DEF RuleLoop, Frames

(* The frames below a call of rule_cycle_from for id.                      *)
Reduced(below, id) ==
  /\ below \in Seq(Frames) /\ Len(below) = Len(path)
  /\ \A i \in DOMAIN path :
       /\ below[i].id = path[i].id
       /\ below[i].left = IF i = Len(path) THEN path[i].left \ {id} ELSE path[i].left
  /\ path # << >> => id \in Targets(path[Len(path)].id)

(* A rule that is met again below itself is in a loop.                     *)
LEMMA MetAgain ==
  ASSUME PathOK, NEW id, NEW below, Reduced(below, id), id \in visiting
  PROVE  RuleLoop
  <1>1. PICK n \in Nat : n = Len(path) /\ DOMAIN path = 1..n /\ path \in Seq(Frames)
    BY LenProperties DEF PathOK
  <1>2. PICK k \in 1..n : path[k].id = id
    BY <1>1 DEF PathOK
  <1>3. n \in 1..n /\ k \in 1..n /\ k <= n
    BY <1>1, <1>2
  <1>4. path # << >>
    BY <1>1, <1>3
  <1>5. id \in Targets(path[n].id)
    BY <1>1, <1>4 DEF Reduced
  <1>6. \A j \in k..n : j \in 1..n /\ (j = n \/ (j \in 1..(n - 1) /\ j + 1 \in k..n))
    BY <1>1, <1>3
  <1> DEFINE loop == {path[j].id : j \in k..n}
  <1>7. loop \in (SUBSET Ids) \ {{}}
    <2>1. ASSUME NEW j \in 1..n PROVE path[j].id \in Ids
      <3>1. path[j] \in Frames
        BY <1>1, ElementOfSeq
      <3> QED
        BY <3>1 DEF Frames
    <2>2. k \in k..n
      BY <1>1, <1>3
    <2>3. path[k].id \in loop
      BY <2>2
    <2> QED
      BY <1>6, <2>1, <2>3
  <1>8. ASSUME NEW j \in k..n PROVE Targets(path[j].id) \cap loop # {}
    <2>1. CASE j = n
      <3>1. k \in k..n
        BY <1>1, <1>3
      <3>2. id \in loop
        BY <1>2, <3>1
      <3> QED
        BY <1>5, <2>1, <3>2
    <2>2. CASE j # n
      <3>1. j \in 1..(n - 1) /\ j + 1 \in k..n
        BY <1>6, <2>2
      <3>2. path[j + 1].id \in Targets(path[j].id)
        BY <1>1, <3>1 DEF PathOK
      <3>3. path[j + 1].id \in loop
        BY <3>1
      <3> QED
        BY <3>2, <3>3
    <2> QED
      BY <2>1, <2>2
  <1>9. \A x \in loop : Targets(x) \cap loop # {}
    BY <1>8
  <1> HIDE DEF loop
  <1> QED
    BY <1>7, <1>9 DEF RuleLoop, Ids

(* A call of rule_cycle_from keeps the path, or has found a loop.          *)
LEMMA CallKeeps ==
  ASSUME PathOK, NEW id \in Ids, NEW below, Reduced(below, id),
         UNCHANGED <<units, visited>>, rule_cycle_from(id, below)
  PROVE  \/ /\ PathOK' /\ UNCHANGED <<stage, error>>
            /\ visiting' \cup visited' = visiting \cup visited \cup {id}
         \/ Fail("emit_cycle") /\ RuleLoop
  <1>1. PICK n \in Nat : /\ n = Len(path) /\ DOMAIN path = 1..n /\ path \in Seq(Frames)
                         /\ n = Len(below) /\ DOMAIN below = 1..n /\ below \in Seq(Frames)
    BY LenProperties DEF PathOK, Reduced
  <1>2. /\ \A x : Targets(x)' = Targets(x)
        /\ Ids' = Ids /\ Frames' = Frames
    BY SameUnits
  <1>3. \A i \in 1..n : /\ below[i].id = path[i].id
                        /\ i = n => below[i].left = path[i].left \ {id}
                        /\ i # n => below[i].left = path[i].left
    BY <1>1 DEF Reduced
  <1>4. n # 0 => id \in Targets(below[n].id)
    <2>1. n # 0 => path # << >> /\ n \in 1..n
      BY <1>1
    <2>2. n # 0 => id \in Targets(path[n].id)
      BY <1>1, <2>1 DEF Reduced
    <2> QED
      BY <1>3, <2>1, <2>2
  <1>5. \A i \in 1..n : below[i].left \subseteq Targets(below[i].id)
    <2>1. \A i \in 1..n : path[i].left \subseteq Targets(path[i].id)
      BY <1>1 DEF PathOK
    <2> QED
      BY <1>3, <2>1
  <1>6. \A i \in 1..(n - 1) : below[i + 1].id \in Targets(below[i].id)
    <2> SUFFICES ASSUME NEW i \in 1..(n - 1)
                 PROVE  below[i + 1].id \in Targets(below[i].id)
      OBVIOUS
    <2>1. i \in 1..n /\ i + 1 \in 1..n
      BY <1>1
    <2>2. path[i + 1].id \in Targets(path[i].id)
      BY <1>1 DEF PathOK
    <2> QED
      BY <1>3, <2>1, <2>2
  <1>7. /\ \A i, j \in 1..n : below[i].id = below[j].id => i = j
        /\ visiting = {below[i].id : i \in 1..n}
    <2>1. /\ \A i, j \in 1..n : path[i].id = path[j].id => i = j
          /\ visiting = {path[i].id : i \in 1..n}
      BY <1>1 DEF PathOK
    <2> QED
      BY <1>3, <2>1
  <1>8. ASSUME NEW i \in 1..n, NEW t \in Targets(below[i].id)
        PROVE  \/ t \in below[i].left \/ t \in visited
               \/ i < n /\ t = below[i + 1].id
               \/ i = n /\ t = id
    <2>1. t \in Targets(path[i].id)
      BY <1>3
    <2>2. \/ t \in path[i].left \/ t \in visited
          \/ i < n /\ t = path[i + 1].id
      BY <1>1, <2>1 DEF PathOK
    <2>3. CASE i # n
      <3>1. i < n => i + 1 \in 1..n
        BY <1>1
      <3> QED
        BY <1>3, <2>2, <2>3, <3>1
    <2>4. CASE i = n
      <3>1. below[i].left = path[i].left \ {id}
        BY <1>3, <2>4
      <3>2. ~(i < n)
        BY <1>1, <2>4
      <3> QED
        BY <2>2, <2>4, <3>1, <3>2
    <2> QED
      BY <2>3, <2>4
  <1>9. CASE id \in visited
    <2>1. path' = below /\ UNCHANGED <<stage, error, visiting>>
      BY <1>9 DEF rule_cycle_from
    <2>2. \A i \in 1..n : \A t \in Targets(below[i].id) :
            \/ t \in below[i].left \/ t \in visited
            \/ i < n /\ t = below[i + 1].id
      BY <1>8, <1>9
    <2>3. (path \in Seq(Frames))'
      BY <1>1, <1>2, <2>1
    <2>4. (visiting \cap visited = {})'
      BY <2>1 DEF PathOK
    <2>5. Len(path') = n /\ DOMAIN path' = 1..n
      BY <1>1, <2>1
    <2>6. /\ \A i \in 1..n : path'[i].left \subseteq Targets(path'[i].id)
          /\ \A i \in 1..(n - 1) : path'[i + 1].id \in Targets(path'[i].id)
          /\ \A i \in 1..n : \A t \in Targets(path'[i].id) :
               \/ t \in path'[i].left \/ t \in visited
               \/ i < n /\ t = path'[i + 1].id
          /\ \A i, j \in 1..n : path'[i].id = path'[j].id => i = j
          /\ visiting' = {path'[i].id : i \in 1..n}
      BY <1>5, <1>6, <1>7, <2>1, <2>2
    <2>7. PathOK'
      BY <1>2, <2>3, <2>4, <2>5, <2>6 DEF PathOK
    <2> QED
      BY <1>9, <2>1, <2>7
  <1>10. CASE id \notin visited /\ id \in visiting
    BY <1>10, MetAgain DEF rule_cycle_from
  <1>11. CASE id \notin visited /\ id \notin visiting
    <2> DEFINE new == [id |-> id, left |-> Targets(id)]
    <2>1. /\ path' = Append(below, new) /\ visiting' = visiting \cup {id}
          /\ UNCHANGED <<stage, error>>
      BY <1>11 DEF rule_cycle_from
    <2>2. new \in Frames /\ new.id = id /\ new.left = Targets(id)
      BY TargetsAreRules DEF Frames
    <2> HIDE DEF new
    <2>3. PICK m \in Nat : m = n + 1
      BY <1>1
    <2>4. Len(path') = n + 1 /\ path' \in Seq(Frames)
      BY <1>1, <2>1, <2>2, AppendProperties
    <2>5. Len(path') = m /\ DOMAIN path' = 1..m
      BY <2>3, <2>4, LenProperties
    <2>6. path'[m] = new
      BY <1>1, <2>1, <2>2, <2>3, AppendProperties
    <2>7. \A i \in 1..n : path'[i] = below[i]
      BY <1>1, <2>1, <2>2, AppendProperties
    <2>8. /\ \A i \in 1..m : i \in 1..n \/ i = m
          /\ \A i \in 1..n : i \in 1..m /\ i < m /\ i # m
          /\ \A i \in 1..(m - 1) :
               \/ i = n /\ n # 0 /\ n \in 1..n /\ i + 1 = m
               \/ i \in 1..(n - 1) /\ i \in 1..n /\ i + 1 \in 1..n
          /\ \A i \in 1..n : \/ i = n /\ i + 1 = m /\ ~(i < n)
                             \/ i < n /\ i # n /\ i + 1 \in 1..n
          /\ ~(m < m) /\ m \in 1..m
      BY <1>1, <2>3
    <2>9. \A i \in 1..m : path'[i].left \subseteq Targets(path'[i].id)
      BY <1>5, <2>2, <2>6, <2>7, <2>8
    <2>10. ASSUME NEW i \in 1..(m - 1) PROVE path'[i + 1].id \in Targets(path'[i].id)
      <3>1. CASE i = n /\ n # 0 /\ n \in 1..n /\ i + 1 = m
        BY <1>4, <2>2, <2>6, <2>7, <3>1
      <3>2. CASE i \in 1..(n - 1) /\ i \in 1..n /\ i + 1 \in 1..n
        <4>1. path'[i] = below[i] /\ path'[i + 1] = below[i + 1]
          BY <2>7, <3>2
        <4>2. below[i + 1].id \in Targets(below[i].id)
          BY <1>6, <3>2
        <4> QED
          BY <4>1, <4>2
      <3> QED
        BY <2>8, <3>1, <3>2
    <2>11. ASSUME NEW i \in 1..m, NEW t \in Targets(path'[i].id)
           PROVE  \/ t \in path'[i].left \/ t \in visited
                  \/ i < m /\ t = path'[i + 1].id
      <3>1. CASE i = m
        BY <2>2, <2>6, <3>1
      <3>2. CASE i \in 1..n
        <4>1. path'[i] = below[i] /\ i < m
          BY <2>7, <2>8, <3>2
        <4>2. \/ t \in below[i].left \/ t \in visited
              \/ i < n /\ t = below[i + 1].id
              \/ i = n /\ t = id
          BY <1>8, <3>2, <4>1
        <4>3. i < n => path'[i + 1] = below[i + 1]
          BY <2>7, <2>8, <3>2
        <4>4. i = n => path'[i + 1].id = id
          BY <2>2, <2>6, <2>8, <3>2
        <4> QED
          BY <4>1, <4>2, <4>3, <4>4
      <3> QED
        BY <2>8, <3>1, <3>2
    <2>12. \A i, j \in 1..m : path'[i].id = path'[j].id => i = j
      <3>1. \A i \in 1..n : path'[i].id # id
        BY <1>7, <1>11, <2>7
      <3> QED
        BY <1>7, <2>2, <2>6, <2>7, <2>8, <3>1
    <2>13. visiting' = {path'[i].id : i \in 1..m}
      <3>1. \A x : x \in visiting' <=> (x = id \/ \E i \in 1..n : x = below[i].id)
        BY <1>7, <2>1
      <3>2. \A x : (\E i \in 1..m : x = path'[i].id)
                     <=> (x = id \/ \E i \in 1..n : x = below[i].id)
        BY <2>2, <2>6, <2>7, <2>8
      <3> QED
        BY <3>1, <3>2
    <2>14. visiting' \cap visited' = {}
      BY <1>11, <2>1 DEF PathOK
    <2>15. PathOK'
      BY <1>2, <2>4, <2>5, <2>9, <2>10, <2>11, <2>12, <2>13, <2>14 DEF PathOK
    <2> QED
      BY <2>1, <2>15
  <1> QED
    BY <1>9, <1>10, <1>11

(* A frame is left when all its targets are visited.                       *)
LEMMA LeaveKeeps ==
  ASSUME PathOK, VisitedOK, RootsOK, Leave
  PROVE  SearchOK'
  <1>1. PICK n \in Nat : n = Len(path) /\ DOMAIN path = 1..n /\ path \in Seq(Frames)
    BY LenProperties DEF PathOK
  <1>2. n \in 1..n /\ n - 1 \in Nat /\ n # 0
    BY <1>1, EmptySeq DEF Leave
  <1>3. PICK id : id = path[n].id
    OBVIOUS
  <1>4. PICK m \in Nat : m = n - 1
    BY <1>2
  <1>5. /\ visiting' = visiting \ {id} /\ visited' = visited \cup {id}
        /\ path' = SubSeq(path, 1, m) /\ path[n].left = {}
        /\ UNCHANGED <<units, roots>>
    BY <1>1, <1>3, <1>4 DEF Leave, Left, Front
  <1>6. \A i \in 1..n : path[i] \in Frames
    BY <1>1, ElementOfSeq
  <1>7. /\ \A i \in 1..m : i \in 1..n /\ i # n /\ (i < m \/ i + 1 = n) /\ i < n
        /\ \A i \in 1..n : i \in 1..m \/ i = n
        /\ \A i \in 1..m : i < m => i + 1 \in 1..m
        /\ \A i \in 1..(m - 1) : i \in 1..m /\ i + 1 \in 1..m /\ i \in 1..(n - 1)
        /\ ~(n < n)
    BY <1>1, <1>4
  <1>8. /\ path' \in Seq(Frames) /\ Len(path') = m /\ DOMAIN path' = 1..m
        /\ \A i \in 1..m : path'[i] = path[i]
    <2>1. 1 \in Int /\ m \in Int /\ \A i \in 1..m : path[i] \in Frames
      BY <1>6, <1>7
    <2>2. /\ SubSeq(path, 1, m) \in Seq(Frames)
          /\ Len(SubSeq(path, 1, m)) = IF 1 <= m THEN m - 1 + 1 ELSE 0
          /\ \A i \in 1..(m - 1 + 1) : SubSeq(path, 1, m)[i] = path[1 + i - 1]
      BY <2>1, SubSeqProperties
    <2>3. /\ (IF 1 <= m THEN m - 1 + 1 ELSE 0) = m
          /\ \A i \in 1..m : i \in 1..(m - 1 + 1) /\ 1 + i - 1 = i
      OBVIOUS
    <2>4. Len(path') = m /\ path' \in Seq(Frames)
      BY <1>5, <2>2, <2>3
    <2>5. \A i \in 1..m : path'[i] = path[i]
      BY <1>5, <2>2, <2>3
    <2> QED
      BY <2>4, <2>5, LenProperties
  <1>9. id \in Ids /\ id \notin visited /\ Targets(id) \subseteq visited
    <2>1. id \in Ids
      BY <1>2, <1>3, <1>6 DEF Frames
    <2>2. id \notin visited
      BY <1>1, <1>2, <1>3 DEF PathOK
    <2>3. ASSUME NEW t \in Targets(id) PROVE t \in visited
      BY <1>1, <1>2, <1>3, <1>5, <1>7 DEF PathOK
    <2> QED
      BY <2>1, <2>2, <2>3
  <1>10. /\ \A x : Targets(x)' = Targets(x)
         /\ Ids' = Ids /\ Frames' = Frames
    BY <1>5, SameUnits
  <1>11. /\ \A i \in 1..m : path'[i].left \subseteq Targets(path'[i].id)
         /\ \A i \in 1..(m - 1) : path'[i + 1].id \in Targets(path'[i].id)
    BY <1>1, <1>7, <1>8 DEF PathOK
  <1>12. ASSUME NEW i \in 1..m, NEW t \in Targets(path'[i].id)
         PROVE  \/ t \in path'[i].left \/ t \in visited'
                \/ i < m /\ t = path'[i + 1].id
    <2>1. path'[i] = path[i] /\ i \in 1..n
      BY <1>7, <1>8
    <2>2. \/ t \in path[i].left \/ t \in visited
          \/ i < n /\ t = path[i + 1].id
      BY <1>1, <2>1 DEF PathOK
    <2>3. CASE i < m
      <3>1. path'[i + 1] = path[i + 1]
        BY <1>7, <1>8, <2>3
      <3> QED
        BY <1>5, <2>1, <2>2, <2>3, <3>1
    <2>4. CASE i + 1 = n
      BY <1>3, <1>5, <2>1, <2>2, <2>4
    <2> QED
      BY <1>7, <2>3, <2>4
  <1>13. \A i, j \in 1..m : path'[i].id = path'[j].id => i = j
    BY <1>1, <1>7, <1>8 DEF PathOK
  <1>14. visiting' = {path'[i].id : i \in 1..m}
    <2>1. /\ \A i \in 1..n : path[i].id = id => i = n
          /\ visiting = {path[i].id : i \in 1..n}
      BY <1>1, <1>2, <1>3 DEF PathOK
    <2>2. \A i \in 1..m : path[i].id # id /\ i \in 1..n /\ path'[i] = path[i]
      BY <1>7, <1>8, <2>1
    <2>3. \A i \in 1..n : i \in 1..m \/ path[i].id = id
      BY <1>3, <1>7
    <2>4. \A x : x \in visiting' <=> \E i \in 1..n : x = path[i].id /\ x # id
      BY <1>5, <2>1
    <2>5. \A x : (\E i \in 1..n : x = path[i].id /\ x # id)
                   <=> \E i \in 1..m : x = path'[i].id
      BY <2>2, <2>3
    <2> QED
      BY <2>4, <2>5
  <1>15. visiting' \cap visited' = {}
    BY <1>5 DEF PathOK
  <1>16. PathOK'
    BY <1>8, <1>10, <1>11, <1>12, <1>13, <1>14, <1>15 DEF PathOK
  <1>17. NoCascadeIn(visited)'
    <2> SUFFICES ASSUME NEW loop \in (SUBSET visited') \ {{}}
                 PROVE  \E x \in loop : Targets(x) \cap loop = {}
      BY <1>10 DEF NoCascadeIn
    <2>1. CASE loop \subseteq visited
      BY <2>1 DEF VisitedOK, NoCascadeIn
    <2>2. CASE id \in loop /\ Targets(id) \cap loop = {}
      BY <2>2
    <2>3. CASE id \in loop /\ Targets(id) \cap loop # {}
      <3>1. loop \ {id} \in (SUBSET visited) \ {{}}
        BY <1>5, <1>9, <2>3
      <3>2. PICK x \in loop \ {id} : Targets(x) \cap (loop \ {id}) = {}
        BY <3>1 DEF VisitedOK, NoCascadeIn
      <3>3. Targets(x) \subseteq visited
        BY <3>1, <3>2 DEF VisitedOK
      <3>4. Targets(x) \cap loop = {}
        BY <1>9, <3>2, <3>3
      <3> QED
        BY <3>4
    <2> QED
      BY <1>5, <2>1, <2>2, <2>3
  <1>18. VisitedOK'
    <2>1. visited' \subseteq Ids
      BY <1>5, <1>9 DEF VisitedOK
    <2>2. \A x \in visited' : Targets(x) \subseteq visited'
      BY <1>5, <1>9 DEF VisitedOK
    <2> QED
      BY <1>10, <1>17, <2>1, <2>2 DEF VisitedOK, NoCascadeIn
  <1>19. RootsOK'
    BY <1>5, <1>10 DEF RootsOK
  <1> QED
    BY <1>16, <1>18, <1>19 DEF SearchOK

(* The search for one root after the other.                                *)
LEMMA RootKeeps ==
  ASSUME RegistryInv, PathOK, VisitedOK, RootsOK, NextRoot
  PROVE  \/ SearchOK' /\ UNCHANGED <<stage, error>>
         \/ Fail("emit_cycle") /\ RuleLoop
  <1>1. PICK id : id = Least(roots)
    OBVIOUS
  <1>2. /\ path = << >> /\ roots # {} /\ roots' = roots \ {id}
        /\ rule_cycle_from(id, path) /\ UNCHANGED <<units, visited>>
    BY <1>1 DEF NextRoot
  <1>3. id \in Ids
    BY <1>1, <1>2, LeastIsIn, RulesNat DEF RootsOK
  <1>4. Reduced(path, id)
    <2>1. path \in Seq(Frames) /\ DOMAIN path = {}
      BY <1>2 DEF PathOK
    <2> QED
      BY <1>2, <2>1 DEF Reduced
  <1>5. \/ /\ PathOK' /\ UNCHANGED <<stage, error>>
           /\ visiting' \cup visited' = visiting \cup visited \cup {id}
        \/ Fail("emit_cycle") /\ RuleLoop
    BY <1>2, <1>3, <1>4, CallKeeps
  <1>6. /\ \A x : Targets(x)' = Targets(x)
        /\ Ids' = Ids
    BY <1>2, SameUnits
  <1>7. VisitedOK'
    BY <1>2, <1>6 DEF VisitedOK, NoCascadeIn
  <1>8. visiting' \cup visited' = visiting \cup visited \cup {id} => RootsOK'
    BY <1>2, <1>6 DEF RootsOK
  <1> QED
    BY <1>5, <1>7, <1>8 DEF SearchOK

(* The search for one target after the other.                              *)
LEMMA DescendKeeps ==
  ASSUME RegistryInv, PathOK, VisitedOK, RootsOK, Descend
  PROVE  \/ SearchOK' /\ UNCHANGED <<stage, error>>
         \/ Fail("emit_cycle") /\ RuleLoop
  <1>1. PICK n \in Nat : n = Len(path) /\ DOMAIN path = 1..n /\ path \in Seq(Frames)
    BY LenProperties DEF PathOK
  <1>2. n \in 1..n
    BY <1>1, EmptySeq DEF Descend
  <1>3. PICK id : id = Least(path[n].left)
    OBVIOUS
  <1>4. PICK frame : frame = [path[n] EXCEPT !.left = @ \ {id}]
    OBVIOUS
  <1>5. PICK below : below = [path EXCEPT ![n] = frame]
    OBVIOUS
  <1>6. /\ path[n].left # {} /\ UNCHANGED <<units, visited, roots>>
        /\ rule_cycle_from(id, below)
    BY <1>1, <1>3, <1>4, <1>5 DEF Descend
  <1>7. path[n] \in Frames /\ path[n].left \subseteq Targets(path[n].id)
    BY <1>1, <1>2, ElementOfSeq DEF PathOK
  <1>8. id \in Ids /\ id \in Targets(path[n].id)
    <2>1. path[n].left \subseteq Ids
      BY <1>7 DEF Frames
    <2>2. id \in path[n].left
      BY <1>3, <1>6, <2>1, LeastIsIn, RulesNat
    <2> QED
      BY <1>7, <2>1, <2>2
  <1>9. frame \in Frames /\ frame.id = path[n].id /\ frame.left = path[n].left \ {id}
    BY <1>4, <1>7 DEF Frames
  <1>10. /\ below \in Seq(Frames) /\ Len(below) = n
         /\ \A i \in 1..n : below[i] = IF i = n THEN frame ELSE path[i]
    BY <1>1, <1>2, <1>5, <1>9, ExceptSeq
  <1>11. Reduced(below, id)
    BY <1>1, <1>8, <1>9, <1>10 DEF Reduced
  <1>12. \/ /\ PathOK' /\ UNCHANGED <<stage, error>>
            /\ visiting' \cup visited' = visiting \cup visited \cup {id}
         \/ Fail("emit_cycle") /\ RuleLoop
    BY <1>6, <1>8, <1>11, CallKeeps
  <1>13. /\ \A x : Targets(x)' = Targets(x)
         /\ Ids' = Ids
    BY <1>6, SameUnits
  <1>14. VisitedOK'
    BY <1>6, <1>13 DEF VisitedOK, NoCascadeIn
  <1>15. visiting' \cup visited' = visiting \cup visited \cup {id} => RootsOK'
    BY <1>6, <1>13 DEF RootsOK
  <1> QED
    BY <1>12, <1>14, <1>15 DEF SearchOK

LEMMA BuildStarts ==
  ASSUME Build, stage' = "cycles"
  PROVE  SearchOK'
  <1>1. /\ roots' = {d.id : d \in {x \in RulesOf(units) : Targets(x.id) # {}}}
        /\ path' = << >> /\ visiting' = {} /\ visited' = {}
        /\ UNCHANGED units
    BY DEF Build, Fail
  <1>2. /\ \A x : Targets(x)' = Targets(x)
        /\ Ids' = Ids /\ Frames' = Frames
    BY <1>1, SameUnits
  <1>3. path' \in Seq(Frames) /\ Len(path') = 0 /\ DOMAIN path' = {}
    BY <1>1
  <1>4. {path'[i].id : i \in DOMAIN path'} = {}
    BY <1>3
  <1>5. PathOK'
    BY <1>1, <1>2, <1>3, <1>4 DEF PathOK
  <1>6. VisitedOK'
    BY <1>1, <1>2 DEF VisitedOK, NoCascadeIn
  <1>7. RootsOK'
    BY <1>1, <1>2 DEF RootsOK, Ids
  <1> QED
    BY <1>5, <1>6, <1>7 DEF SearchOK

(* When no root is left, every rule that triggers one is visited.          *)
LEMMA BuiltFinite ==
  ASSUME SearchOK, path = << >>, roots = {}
  PROVE  ~RuleLoop
  <1>1. visiting = {}
    BY DEF SearchOK, PathOK
  <1>2. \A id \in Ids : Targets(id) # {} => id \in visited
    BY <1>1 DEF SearchOK, RootsOK
  <1> SUFFICES ASSUME NEW loop \in (SUBSET Ids) \ {{}},
                      \A id \in loop : Targets(id) \cap loop # {}
               PROVE  FALSE
    BY DEF RuleLoop, Ids
  <1>3. loop \in (SUBSET visited) \ {{}}
    BY <1>2
  <1> QED
    BY <1>3 DEF SearchOK, VisitedOK, NoCascadeIn

LEMMA CascadeFrame ==
  ASSUME CascadeInv, UNCHANGED units, error' # "emit_cycle",
         \/ stage' \notin {"cycles", "lock", "done"}
         \/ stage' = "done" /\ stage = "lock"
  PROVE  CascadeInv'
  BY SameUnits DEF CascadeInv

LEMMA CascadeStep ==
  ASSUME ReadInv, RegistryInv, CascadeInv, [Next]_vars
  PROVE  CascadeInv'
  <1>1. CASE UNCHANGED vars
    <2>1. SearchOK' <=> SearchOK
      BY <1>1, SameUnits
         DEF vars, SearchOK, PathOK, VisitedOK, NoCascadeIn, RootsOK
    <2> QED
      BY <1>1, <2>1, SameUnits DEF vars, CascadeInv
  <1>2. CASE Read
    BY <1>2, CascadeFrame DEF Read, Fail, ReadInv
  <1>3. CASE CountIncoming \/ PopReady
    <2>1. error = "none"
      BY <1>3 DEF ReadInv, CountIncoming, PopReady
    <2> QED
      BY <1>3, <2>1, CascadeFrame DEF CountIncoming, PopReady, Fail
  <1>4. CASE Ordered
    <2>1. error = "none"
      BY <1>4 DEF ReadInv, Ordered
    <2> QED
      BY <1>4, <2>1 DEF Ordered, Fail, CascadeInv
  <1>5. CASE Build
    <2>1. error = "none"
      BY <1>5 DEF ReadInv, Build
    <2>2. CASE stage' = "cycles"
      <3>1. error' # "emit_cycle"
        BY <1>5, <2>1, <2>2 DEF Build, Fail
      <3> QED
        BY <1>5, <2>2, <3>1, BuildStarts DEF CascadeInv
    <2>3. CASE stage' # "cycles"
      BY <1>5, <2>1, <2>3 DEF Build, Fail, CascadeInv
    <2> QED
      BY <2>2, <2>3
  <1>6. CASE NextRoot \/ Descend
    <2>1. stage = "cycles" /\ UNCHANGED units /\ error = "none"
      BY <1>6 DEF NextRoot, Descend, ReadInv
    <2>2. \/ SearchOK' /\ UNCHANGED <<stage, error>>
          \/ Fail("emit_cycle") /\ RuleLoop
      BY <1>6, <2>1, RootKeeps, DescendKeeps DEF CascadeInv, SearchOK
    <2> QED
      BY <2>1, <2>2, SameUnits DEF CascadeInv, Fail
  <1>7. CASE Leave
    <2>1. stage = "cycles" /\ UNCHANGED <<stage, error, units>> /\ error = "none"
      BY <1>7 DEF Leave, ReadInv
    <2>2. SearchOK'
      BY <1>7, <2>1, LeaveKeeps DEF CascadeInv, SearchOK
    <2> QED
      BY <2>1, <2>2 DEF CascadeInv
  <1>8. CASE Built
    <2>1. stage = "cycles" /\ UNCHANGED <<error, units>> /\ error = "none"
      BY <1>8 DEF Built, ReadInv
    <2>2. ~RuleLoop
      BY <1>8, <2>1, BuiltFinite DEF Built, CascadeInv
    <2>3. stage' \in {"patch", "lock"}
      BY <1>8 DEF Built
    <2> QED
      BY <2>1, <2>2, <2>3, SameUnits DEF CascadeInv
  <1>9. CASE Patch
    <2>1. error' # "emit_cycle" /\ stage' \in {"patch", "failed"}
      BY <1>9 DEF Patch, Fail, ReadInv
    <2> QED
      BY <2>1 DEF CascadeInv
  <1>10. CASE Rebuild
    BY <1>10, CascadeFrame DEF Rebuild, ReadInv
  <1>11. CASE Lock
    BY <1>11, CascadeFrame DEF Lock, Fail, ReadInv
  <1> QED
    BY <1>1, <1>2, <1>3, <1>4, <1>5, <1>6, <1>7, <1>8, <1>9, <1>10, <1>11 DEF Next

(* The depth-first search of validate_rule_cycles, across packages and     *)
(* after patches: it refuses a world exactly when rules can trigger each   *)
(* other for ever.                                                         *)
THEOREM CascadesAreFinite == Spec => []CascadesFinite
  <1>1. Init => CascadeInv
    BY DEF Init, CascadeInv
  <1>2. CascadeInv => CascadesFinite
    BY DEF CascadeInv, CascadesFinite
  <1> QED
    BY <1>1, <1>2, ReadInit, ReadStep, RegistryInit, RegistryStep, CascadeStep, PTL DEF Spec

-----------------------------------------------------------------------------
(* Sequences of sequences, end to end.                                     *)
LEMMA SeqRange ==
  ASSUME NEW S, NEW s \in Seq(S)
  PROVE  s \in Seq(Range(s)) /\ Range(s) \subseteq S
  <1>1. DOMAIN s = 1..Len(s) /\ \A i \in 1..Len(s) : s[i] \in S
    BY LenProperties, ElementOfSeq
  <1>2. Range(s) \subseteq S
    BY <1>1 DEF Range
  <1>3. \A i \in 1..Len(s) : s[i] \in Range(s)
    BY <1>1 DEF Range
  <1>4. s \in Seq(Range(s))
    BY <1>1, <1>3, LenProperties
  <1> QED
    BY <1>2, <1>4

LEMMA FlatParts ==
  ASSUME NEW g, NEW N \in Nat \ {0}, N = Len(g)
  PROVE  \E f : /\ \A i \in 1..N : f[i] = IF i = 1 THEN g[i] ELSE f[i - 1] \o g[i]
               /\ FlattenSeq(g) = f[N]
  <1> DEFINE Flat(f, n) == f = [i \in 1..n |-> IF i = 1 THEN g[i] ELSE f[i - 1] \o g[i]]
             bad == {n \in 1..N : ~ \E f : Flat(f, n)}
  <1>1. bad = {}
    <2> SUFFICES ASSUME bad # {} PROVE FALSE
      OBVIOUS
    <2>1. bad \in SUBSET Nat
      <3> HIDE DEF Flat
      <3>1. bad \subseteq 1..N
        BY Zenon
      <3> QED
        BY <3>1
    <2> HIDE DEF bad
    <2>2. PICK n \in bad : \A k \in bad : n <= k
      BY <2>1, LeastNumber
    <2>3. n \in 1..N /\ n \in Nat
      BY DEF bad
    <2>4. CASE n = 1
      <3>1. Flat([i \in 1..1 |-> g[i]], 1)
        OBVIOUS
      <3> QED
        BY <2>4, <3>1 DEF bad
    <2>5. CASE n # 1
      <3>1. n - 1 \in 1..N /\ ~(n <= n - 1) /\ n - 1 \in 1..(n - 1)
        BY <2>3, <2>5
      <3>2. n - 1 \notin bad
        BY <2>2, <3>1
      <3>3. PICK f : Flat(f, n - 1)
        BY <3>1, <3>2 DEF bad
      <3>4. PICK h : h = [i \in 1..n |-> IF i = n THEN f[n - 1] \o g[n] ELSE f[i]]
        OBVIOUS
      <3>5. ASSUME NEW i \in 1..n
            PROVE  h[i] = IF i = 1 THEN g[i] ELSE h[i - 1] \o g[i]
        <4>1. CASE i = n
          <5>1. n - 1 \in 1..n /\ n - 1 # n
            BY <2>3, <3>1
          <5>2. h[n - 1] = f[n - 1]
            BY <3>4, <5>1
          <5>3. h[n] = f[n - 1] \o g[n]
            BY <3>4, <4>1
          <5> QED
            BY <2>5, <4>1, <5>2, <5>3
        <4>2. CASE i # n
          <5>1. i \in 1..(n - 1) /\ (i # 1 => i - 1 \in 1..n /\ i - 1 # n)
            BY <2>3, <4>2
          <5>2. f[i] = IF i = 1 THEN g[i] ELSE f[i - 1] \o g[i]
            BY <3>3, <5>1
          <5>3. h[i] = f[i] /\ (i # 1 => h[i - 1] = f[i - 1])
            BY <3>4, <4>2, <5>1
          <5> QED
            BY <5>2, <5>3
        <4> QED
          BY <4>1, <4>2
      <3>6. Flat(h, n)
        BY <3>4, <3>5
      <3> QED
        BY <3>6 DEF bad
    <2> QED
      BY <2>4, <2>5
  <1>2. N \in 1..N /\ 1 \in 1..N
    OBVIOUS
  <1>3. \E f : Flat(f, N)
    <2> HIDE DEF Flat
    <2> QED
      BY <1>1, <1>2
  <1>4. PICK f : f = CHOOSE x : Flat(x, N)
    OBVIOUS
  <1>5. Flat(f, N)
    BY <1>3, <1>4
  <1>6. FlattenSeq(g) = f[N]
    BY <1>4 DEF FlattenSeq
  <1>7. \A i \in 1..N : f[i] = IF i = 1 THEN g[i] ELSE f[i - 1] \o g[i]
    BY <1>5
  <1> QED
    BY <1>6, <1>7

LEMMA FlatOver ==
  ASSUME NEW S, NEW g \in Seq(Seq(S))
  PROVE  FlattenSeq(g) \in Seq(S)
  <1>1. PICK N \in Nat : N = Len(g) /\ \A i \in 1..N : g[i] \in Seq(S)
    BY LenProperties, ElementOfSeq
  <1>2. CASE N = 0
    BY <1>1, <1>2, EmptySeq DEF FlattenSeq
  <1>3. CASE N # 0
    <2>1. N \in 1..N /\ 1 \in 1..N
      BY <1>1, <1>3
    <2>2. PICK f : /\ \A i \in 1..N : f[i] = IF i = 1 THEN g[i] ELSE f[i - 1] \o g[i]
                   /\ FlattenSeq(g) = f[N]
      <3>1. N \in Nat \ {0} /\ N = Len(g)
        BY <1>1, <1>3
      <3> QED
        BY <3>1, FlatParts, Zenon
    <2> DEFINE off == {n \in 1..N : f[n] \notin Seq(S)}
    <2>7. off = {}
      <3> SUFFICES ASSUME off # {} PROVE FALSE
        OBVIOUS
      <3>1. off \in SUBSET Nat
        OBVIOUS
      <3> HIDE DEF off
      <3>2. PICK n \in off : \A k \in off : n <= k
        BY <3>1, LeastNumber
      <3>3. n \in 1..N /\ n \in Nat /\ f[n] \notin Seq(S)
        BY DEF off
      <3>4. f[n] = IF n = 1 THEN g[n] ELSE f[n - 1] \o g[n]
        BY <2>2, <3>3
      <3>5. n # 1
        BY <1>1, <3>3, <3>4
      <3>6. n - 1 \in 1..N /\ ~(n <= n - 1)
        BY <1>1, <3>3, <3>5
      <3>7. n - 1 \notin off
        BY <3>2, <3>6
      <3>8. f[n - 1] \in Seq(S)
        BY <3>6, <3>7 DEF off
      <3>9. g[n] \in Seq(S)
        BY <1>1, <3>3
      <3>10. f[n - 1] \o g[n] \in Seq(S)
        BY <3>8, <3>9, ConcatProperties
      <3> QED
        BY <3>3, <3>4, <3>5, <3>10
    <2> QED
      BY <2>1, <2>2, <2>7
  <1> QED
    BY <1>2, <1>3

-----------------------------------------------------------------------------
(* The form.                                                               *)

Filled == page \in {"form", "main", "submitted", "created", "refused"}

IsOption(v) == v = << >> \/ \E x : v = << x >>

(* What is on the screen: each field has a value, and the selected text is *)
(* the one in the editor.                                                  *)
Shows ==
  /\ current \in DOMAIN form
  /\ values = [i \in DOMAIN form |-> values[i]]
  /\ \A i \in DOMAIN form : HasText(form[i]) => values[i] \in Seq(Characters)
  /\ \A i \in DOMAIN form : form[i].kind = "single" => IsOption(values[i])
  /\ editor = [text |-> editor.text, cursor |-> editor.cursor]
  /\ HasText(form[current]) => /\ editor.text = values[current]
                               /\ editor.cursor \in 0..Len(editor.text)

LEMMA FormTypes ==
  ASSUME form \in Forms
  PROVE  /\ form \in Seq(Range(form)) /\ Len(form) \in Nat
         /\ DOMAIN form = 1..Len(form)
         /\ \A i \in DOMAIN form : IsField(form[i])
  <1>1. form \in Seq(Range(form)) /\ \A f \in Range(form) : IsField(f)
    BY PlayerFormAssumption DEF Digits
  <1>2. DOMAIN form = 1..Len(form) /\ Len(form) \in Nat
    BY <1>1, LenProperties
  <1>3. \A i \in DOMAIN form : form[i] \in Range(form)
    BY DEF Range
  <1> QED
    BY <1>1, <1>2, <1>3

LEMMA ShownIsValue ==
  ASSUME Shows
  PROVE  \A i \in DOMAIN form : Shown(i) = values[i]
  BY DEF Shows, Shown

LEMMA StoredIsValues ==
  ASSUME Shows
  PROVE  Stored = values
  <1>1. CASE HasText(form[current])
    <2>1. [values EXCEPT ![current] = values[current]] = values
      BY DEF Shows
    <2> QED
      BY <1>1, <2>1 DEF Stored, Shows
  <1> QED
    BY <1>1 DEF Stored

(* Another field is selected.                                              *)
LEMMA Selected ==
  ASSUME form \in Forms, Shows, form' = form, NEW i \in DOMAIN form, Select(i, Stored)
  PROVE  Shows' /\ \A k \in DOMAIN form : Shown(k)' = Shown(k)
  <1>1. values' = values /\ current' = i /\ editor' = LoadEditor(i, values)
    BY StoredIsValues DEF Select
  <1>2. Shows'
    <2>1. CASE HasText(form[i])
      <3>1. Len(values[i]) \in 0..Len(values[i])
        BY <2>1, LenProperties DEF Shows
      <3>2. editor' = [text |-> values[i], cursor |-> Len(values[i])]
        BY <1>1, <2>1 DEF LoadEditor, EditorWith
      <3> QED
        BY <1>1, <3>1, <3>2 DEF Shows
    <2>2. CASE ~HasText(form[i])
      <3>1. editor' = [text |-> << >>, cursor |-> Len(<< >>)]
        BY <1>1, <2>2 DEF LoadEditor, EditorWith
      <3> QED
        BY <1>1, <2>2, <3>1 DEF Shows
    <2> QED
      BY <2>1, <2>2
  <1>3. \A k \in DOMAIN form : Shown(k)' = values'[k]
    BY <1>2 DEF Shows, Shown
  <1> QED
    BY <1>1, <1>2, <1>3, ShownIsValue

(* The editor's text is the value of its field after every key.            *)
LEMMA EditedShows ==
  ASSUME form \in Forms, Shows, HasText(form[current]),
         NEW text \in Seq(Characters), NEW cursor \in 0..Len(text), Edited(text, cursor)
  PROVE  /\ Shows' /\ UNCHANGED <<form, page, current>>
         /\ \A k \in DOMAIN form \ {current} : Shown(k)' = Shown(k)
  <1>1. /\ UNCHANGED <<form, page, current>>
        /\ values' = [values EXCEPT ![current] = text]
        /\ editor' = [text |-> text, cursor |-> cursor]
    BY DEF Edited
  <1>2. form[current].kind # "single"
    BY DEF HasText
  <1>3. Shows'
    <2>1. \A i \in DOMAIN form : i # current => values'[i] = values[i]
      BY <1>1 DEF Shows
    <2>2. values'[current] = text /\ current \in DOMAIN form
      BY <1>1 DEF Shows
    <2>3. values' = [i \in DOMAIN form |-> values'[i]]
      BY <1>1 DEF Shows
    <2>4. \A i \in DOMAIN form : HasText(form[i]) => values'[i] \in Seq(Characters)
      BY <2>1, <2>2 DEF Shows
    <2>5. \A i \in DOMAIN form : form[i].kind = "single" => IsOption(values'[i])
      BY <1>2, <2>1 DEF Shows
    <2> QED
      BY <1>1, <2>2, <2>3, <2>4, <2>5 DEF Shows
  <1>4. \A k \in DOMAIN form \ {current} : Shown(k)' = values[k]
    BY <1>1 DEF Shown, Shows
  <1> QED
    BY <1>1, <1>3, <1>4, ShownIsValue

LEMMA ChangedShows ==
  ASSUME form \in Forms, Shows, ~HasText(form[current]), NEW v, Changed(v),
         form[current].kind = "single" => IsOption(v)
  PROVE  /\ Shows' /\ UNCHANGED <<form, page, current>>
         /\ \A k \in DOMAIN form \ {current} : Shown(k)' = Shown(k)
  <1>1. /\ UNCHANGED <<form, page, current, editor>>
        /\ values' = [values EXCEPT ![current] = v]
    BY DEF Changed
  <1>2. Shows'
    BY <1>1 DEF Shows
  <1>3. \A k \in DOMAIN form \ {current} : Shown(k)' = values[k]
    BY <1>1 DEF Shown, Shows
  <1> QED
    BY <1>1, <1>2, <1>3, ShownIsValue

(* The line editor.                                                        *)
LEMMA EditorTexts ==
  ASSUME NEW text \in Seq(Characters), NEW c \in 0..Len(text)
  PROVE  /\ SubSeq(text, 1, c) \in Seq(Characters) /\ Len(SubSeq(text, 1, c)) = c
         /\ SubSeq(text, c + 1, Len(text)) \in Seq(Characters)
         /\ Len(SubSeq(text, c + 1, Len(text))) = Len(text) - c
         /\ Len(text) \in Nat
  <1>1. PICK n \in Nat : n = Len(text) /\ \A i \in 1..n : text[i] \in Characters
    BY LenProperties, ElementOfSeq
  <1>2. \A i \in 1..c : i \in 1..n
    BY <1>1
  <1>3. \A i \in (c + 1)..n : i \in 1..n
    BY <1>1
  <1>4. SubSeq(text, 1, c) \in Seq(Characters) /\ Len(SubSeq(text, 1, c)) = c
    <2>1. \A i \in 1..c : text[i] \in Characters
      BY <1>1, <1>2
    <2> QED
      BY <1>1, <2>1, SubSeqProperties
  <1>5. /\ SubSeq(text, c + 1, n) \in Seq(Characters)
        /\ Len(SubSeq(text, c + 1, n)) = n - c
    <2>1. \A i \in (c + 1)..n : text[i] \in Characters
      BY <1>1, <1>3
    <2> QED
      BY <1>1, <2>1, SubSeqProperties
  <1> QED
    BY <1>1, <1>4, <1>5


LEMMA InsertShows ==
  ASSUME form \in Forms, Shows, InsertText
  PROVE  /\ Shows' /\ UNCHANGED <<form, page, current>>
         /\ \A k \in DOMAIN form \ {current} : Shown(k)' = Shown(k)
  <1>1. PICK t \in Typed :
          /\ HasText(form[current])
          /\ IF Len(editor.text) + Len(t) <= field_maximum_bytes(form[current])
             THEN Edited(TextBefore \o t \o TextAfter, editor.cursor + Len(t))
             ELSE Edited(editor.text, editor.cursor)
    BY DEF InsertText
  <1>2. PICK text \in Seq(Characters) : text = editor.text
    BY <1>1 DEF Shows
  <1>3. PICK c \in 0..Len(text) : c = editor.cursor
    BY <1>1, <1>2 DEF Shows
  <1>4. CASE Edited(editor.text, editor.cursor)
    BY <1>1, <1>2, <1>3, <1>4, EditedShows
  <1>5. CASE Edited(TextBefore \o t \o TextAfter, editor.cursor + Len(t))
    <2>1. PICK before, after : before = TextBefore /\ after = TextAfter
      OBVIOUS
    <2>2. /\ before \in Seq(Characters) /\ Len(before) = c
          /\ after \in Seq(Characters) /\ Len(after) = Len(text) - c
      BY <1>2, <1>3, <2>1, EditorTexts DEF TextBefore, TextAfter
    <2>3. t \in Seq(Characters) /\ Len(t) \in Nat
      BY PlayerFormAssumption, LenProperties
    <2>4. /\ before \o t \in Seq(Characters) /\ Len(before \o t) = c + Len(t)
      BY <2>2, <2>3, ConcatProperties
    <2>5. PICK new : new = before \o t \o after
      OBVIOUS
    <2>6. new \in Seq(Characters) /\ Len(new) = c + Len(t) + Len(text) - c
      <3>1. new \in Seq(Characters) /\ Len(new) = Len(before \o t) + Len(after)
        BY <2>2, <2>4, <2>5, ConcatProperties
      <3>2. Len(text) \in Nat
        BY <1>2, LenProperties
      <3> QED
        BY <2>2, <2>3, <2>4, <3>1, <3>2
    <2>7. PICK place : place = c + Len(t)
      OBVIOUS
    <2>8. place \in 0..Len(new)
      <3>1. Len(text) \in Nat
        BY <1>2, LenProperties
      <3> QED
        BY <2>3, <2>6, <2>7, <3>1
    <2>9. Edited(new, place)
      BY <1>3, <1>5, <2>1, <2>5, <2>7
    <2> QED
      BY <1>1, <2>6, <2>8, <2>9, EditedShows
  <1> QED
    BY <1>1, <1>4, <1>5

LEMMA BackspaceShows ==
  ASSUME form \in Forms, Shows, Backspace
  PROVE  /\ Shows' /\ UNCHANGED <<form, page, current>>
         /\ \A k \in DOMAIN form \ {current} : Shown(k)' = Shown(k)
  <1>1. /\ HasText(form[current]) /\ editor.cursor > 0
        /\ Edited(SubSeq(editor.text, 1, editor.cursor - 1) \o TextAfter, editor.cursor - 1)
    BY DEF Backspace
  <1>2. PICK text \in Seq(Characters) : text = editor.text
    BY <1>1 DEF Shows
  <1>3. PICK c \in 0..Len(text) : c = editor.cursor
    BY <1>1, <1>2 DEF Shows
  <1>4. PICK d \in 0..Len(text) : d = c - 1
    <2>1. Len(text) \in Nat /\ c > 0
      BY <1>1, <1>2, <1>3, LenProperties
    <2> QED
      BY <2>1
  <1>5. PICK before, after : before = SubSeq(text, 1, d) /\ after = TextAfter
    OBVIOUS
  <1>6. /\ before \in Seq(Characters) /\ Len(before) = d
        /\ after \in Seq(Characters) /\ Len(after) = Len(text) - c /\ Len(text) \in Nat
    BY <1>2, <1>3, <1>5, EditorTexts DEF TextAfter
  <1>7. PICK new : new = before \o after
    OBVIOUS
  <1>8. new \in Seq(Characters) /\ Len(new) = Len(before) + Len(after)
    BY <1>6, <1>7, ConcatProperties
  <1>9. d \in 0..Len(new)
    BY <1>6, <1>8
  <1>10. Edited(new, d)
    BY <1>1, <1>2, <1>3, <1>4, <1>5, <1>7
  <1> QED
    BY <1>1, <1>8, <1>9, <1>10, EditedShows

LEMMA DeleteShows ==
  ASSUME form \in Forms, Shows, Delete
  PROVE  /\ Shows' /\ UNCHANGED <<form, page, current>>
         /\ \A k \in DOMAIN form \ {current} : Shown(k)' = Shown(k)
  <1>1. /\ HasText(form[current]) /\ editor.cursor < Len(editor.text)
        /\ Edited(TextBefore \o Tail(TextAfter), editor.cursor)
    BY DEF Delete
  <1>2. PICK text \in Seq(Characters) : text = editor.text
    BY <1>1 DEF Shows
  <1>3. PICK c \in 0..Len(text) : c = editor.cursor
    BY <1>1, <1>2 DEF Shows
  <1>4. PICK before, after : before = TextBefore /\ after = TextAfter
    OBVIOUS
  <1>5. /\ before \in Seq(Characters) /\ Len(before) = c
        /\ after \in Seq(Characters) /\ Len(after) = Len(text) - c /\ Len(text) \in Nat
    BY <1>2, <1>3, <1>4, EditorTexts DEF TextBefore, TextAfter
  <1>6. after # << >>
    <2>1. Len(after) # 0
      BY <1>1, <1>2, <1>3, <1>5
    <2> QED
      BY <1>5, <2>1, EmptySeq
  <1>7. Tail(after) \in Seq(Characters) /\ Len(Tail(after)) \in Nat
    BY <1>5, <1>6, HeadTailProperties, LenProperties
  <1>8. PICK new : new = before \o Tail(after)
    OBVIOUS
  <1>9. new \in Seq(Characters) /\ Len(new) = Len(before) + Len(Tail(after))
    BY <1>5, <1>7, <1>8, ConcatProperties
  <1>10. c \in 0..Len(new)
    BY <1>5, <1>7, <1>9
  <1>11. Edited(new, c)
    BY <1>1, <1>3, <1>4, <1>8
  <1> QED
    BY <1>1, <1>9, <1>10, <1>11, EditedShows

(* Choices: the field that is changed has no text.                         *)
LEMMA AdjustShows ==
  ASSUME form \in Forms, Shows, Adjust \/ Toggle
  PROVE  /\ Shows' /\ UNCHANGED <<form, page, current>>
         /\ \A k \in DOMAIN form \ {current} : Shown(k)' = Shown(k)
  <1>1. /\ form[current].kind \in {"boolean", "single", "multi"}
        /\ \E v : Changed(v) /\ (form[current].kind = "single" => IsOption(v))
    BY DEF Adjust, Toggle, IsOption
  <1>2. ~HasText(form[current])
    BY <1>1 DEF HasText
  <1> QED
    BY <1>1, <1>2, ChangedShows

LEMMA CursorShows ==
  ASSUME Shows, MoveCursor
  PROVE  /\ Shows' /\ UNCHANGED <<form, page, current>>
         /\ \A k \in DOMAIN form \ {current} : Shown(k)' = Shown(k)
  <1>1. PICK c \in 0..Len(editor.text) : editor' = [editor EXCEPT !.cursor = c]
    BY DEF MoveCursor
  <1>2. UNCHANGED <<form, page, current, values>>
    BY DEF MoveCursor
  <1>3. editor' = [text |-> editor.text, cursor |-> c]
    BY <1>1 DEF Shows
  <1>4. Shows'
    BY <1>1, <1>2, <1>3 DEF Shows
  <1>5. \A k \in DOMAIN form : Shown(k)' = values'[k]
    BY <1>2, <1>4 DEF Shows, Shown
  <1> QED
    BY <1>2, <1>4, <1>5, ShownIsValue

(* What a step may do to the fields.                                       *)
FieldsKept ==
  \A i \in DOMAIN form :
    (i # current \/ current' # current \/ page' # page) => Shown(i)' = Shown(i)

LEMMA KeyShows ==
  ASSUME form \in Forms, Shows,
         InsertText \/ Backspace \/ Delete \/ MoveCursor \/ Adjust \/ Toggle
  PROVE  Shows' /\ UNCHANGED <<form, page>> /\ FieldsKept
  <1>1. /\ Shows' /\ UNCHANGED <<form, page, current>>
        /\ \A k \in DOMAIN form \ {current} : Shown(k)' = Shown(k)
    BY InsertShows, BackspaceShows, DeleteShows, CursorShows, AdjustShows
  <1> QED
    BY <1>1 DEF FieldsKept

LEMMA MoveShows ==
  ASSUME form \in Forms, Shows, PreviousField \/ NextField
  PROVE  Shows' /\ UNCHANGED <<form, page>> /\ FieldsKept
  <1>1. PICK i : Move(i) /\ i \in {1, current - 1, current, current + 1} /\ i \in DOMAIN form
    <2>1. current \in 1..Len(form) /\ Len(form) \in Nat /\ DOMAIN form = 1..Len(form)
      BY FormTypes DEF Shows
    <2>2. CASE PreviousField
      BY <2>1, <2>2 DEF PreviousField
    <2>3. CASE NextField
      <3>1. PICK i : i = IF current = Len(form) THEN current ELSE current + 1
        OBVIOUS
      <3>2. Move(i)
        BY <2>3, <3>1 DEF NextField
      <3>3. i \in DOMAIN form /\ i \in {current, current + 1}
        <4>1. PICK n \in Nat : n = Len(form) /\ DOMAIN form = 1..n /\ current \in 1..n
          BY <2>1
        <4>2. CASE current = n
          BY <3>1, <4>1, <4>2
        <4>3. CASE current # n
          <5>1. i = current + 1 /\ current + 1 \in 1..n
            BY <3>1, <4>1, <4>3
          <5> QED
            BY <4>1, <5>1
        <4> QED
          BY <4>2, <4>3
      <3> QED
        BY <3>2, <3>3
    <2> QED
      BY <2>2, <2>3
  <1>2. Select(i, Stored) /\ form' = form /\ page' = page
    BY <1>1 DEF Move
  <1>3. Shows' /\ \A k \in DOMAIN form : Shown(k)' = Shown(k)
    BY <1>1, <1>2, Selected
  <1> QED
    BY <1>2, <1>3 DEF FieldsKept

(* The value stays on the screen when the form is checked or submitted.    *)
LEMMA StoredShows ==
  ASSUME Shows, UNCHANGED <<form, current, editor>>, values' = Stored
  PROVE  Shows' /\ \A k \in DOMAIN form : Shown(k)' = Shown(k)
  <1>1. values' = values
    BY StoredIsValues
  <1>2. Shows'
    BY <1>1 DEF Shows
  <1>3. \A k \in DOMAIN form : Shown(k)' = values'[k]
    BY <1>2 DEF Shows, Shown
  <1> QED
    BY <1>1, <1>2, <1>3, ShownIsValue

LEMMA EnterShows ==
  ASSUME form \in Forms, Shows, Enter
  PROVE  /\ Shows' /\ form' = form /\ page = "form" /\ page' \in {"form", "submitted"}
         /\ FieldsKept
  <1>1. form' = form /\ page = "form"
    BY DEF Enter
  <1>2. \/ values' = Stored /\ UNCHANGED <<current, editor>> /\ page' = page
        \/ current < Len(form) /\ Select(current + 1, Stored) /\ page' = page
        \/ SubmitForm
    BY DEF Enter
  <1>3. CASE values' = Stored /\ UNCHANGED <<current, editor>> /\ page' = page
    <2>1. Shows' /\ \A k \in DOMAIN form : Shown(k)' = Shown(k)
      BY <1>1, <1>3, StoredShows
    <2> QED
      BY <1>1, <1>3, <2>1 DEF FieldsKept
  <1>4. CASE current < Len(form) /\ Select(current + 1, Stored) /\ page' = page
    <2>1. current + 1 \in DOMAIN form
      BY <1>4, FormTypes DEF Shows
    <2>2. Shows' /\ \A k \in DOMAIN form : Shown(k)' = Shown(k)
      BY <1>1, <1>4, <2>1, Selected
    <2> QED
      BY <1>1, <1>4, <2>2 DEF FieldsKept
  <1>5. CASE SubmitForm
    <2>1. CASE FirstInvalid(Stored) = {}
      <3>1. /\ values' = Stored /\ UNCHANGED <<current, editor>>
            /\ page' = "submitted"
        BY <1>5, <2>1 DEF SubmitForm
      <3>2. Shows' /\ \A k \in DOMAIN form : Shown(k)' = Shown(k)
        BY <1>1, <3>1, StoredShows
      <3> QED
        BY <1>1, <3>1, <3>2 DEF FieldsKept
    <2>2. CASE FirstInvalid(Stored) # {}
      <3>1. PICK i \in FirstInvalid(Stored) : Select(i, Stored) /\ page' = page
        BY <1>5, <2>2 DEF SubmitForm
      <3>2. i \in DOMAIN form
        BY <3>1 DEF FirstInvalid
      <3>3. Shows' /\ \A k \in DOMAIN form : Shown(k)' = Shown(k)
        BY <1>1, <3>1, <3>2, Selected
      <3> QED
        BY <1>1, <3>1, <3>3 DEF FieldsKept
    <2> QED
      BY <2>1, <2>2
  <1> QED
    BY <1>2, <1>3, <1>4, <1>5

(* The fields as they are shown first are the defaults.                    *)
LEMMA FirstTexts ==
  ASSUME NEW f, IsField(f), HasText(f)
  PROVE  InitialValue(f) \in Seq(Characters)
  <1>1. CASE f.default = << >>
    BY <1>1, EmptySeq DEF InitialValue, HasText
  <1>2. CASE f.default # << >>
    <2>1. /\ f.default \in Seq(Range(f.default)) /\ f.kind \in {"text", "integer"}
      BY DEF IsField, HasText
    <2>2. f.default[1] \in Range(f.default)
      <3>1. Len(f.default) \in Nat /\ Len(f.default) # 0 /\ DOMAIN f.default = 1..Len(f.default)
        BY <1>2, <2>1, LenProperties, EmptySeq
      <3>2. 1 \in DOMAIN f.default
        BY <3>1
      <3> QED
        BY <3>2 DEF Range
    <2>3. CASE f.kind = "text"
      BY <1>2, <2>2, <2>3 DEF InitialValue, IsField
    <2>4. CASE f.kind = "integer"
      <3>1. PICK d : d = CHOOSE n \in 1..LongestNumber : Ones[n] = f.default[1]
        OBVIOUS
      <3>2. d \in 1..LongestNumber
        <4>1. \E n \in 1..LongestNumber : Ones[n] = f.default[1]
          BY <2>2, <2>4 DEF IsField
        <4> QED
          BY <3>1, <4>1
      <3>3. d \in Nat
        BY <3>2 DEF LongestNumber
      <3>4. InitialValue(f) = [k \in 1..d |-> "1"]
        BY <1>2, <2>4, <3>1 DEF InitialValue, to_string
      <3>5. [k \in 1..d |-> "1"] \in [1..d -> Characters]
        <4>1. "1" \in Characters
          BY PlayerFormAssumption DEF Digits
        <4> QED
          BY <4>1
      <3>6. [k \in 1..d |-> "1"] \in Seq(Characters)
        BY <3>3, <3>5, SeqDef
      <3> QED
        BY <3>4, <3>6
    <2> QED
      BY <2>1, <2>3, <2>4
  <1> QED
    BY <1>1, <1>2

Accepted == validate_player_creation_form(form) /\ validate_player_creation_references(form)

LEMMA OpenShows ==
  ASSUME form \in Forms, current = 1, Open
  PROVE  /\ form' = form /\ page = "definition" /\ page' \in {"form", "rejected"}
         /\ page' = "form" => Shows' /\ Accepted
  <1>1. /\ form' = form /\ current' = current /\ page = "definition"
        /\ page' \in {"form", "rejected"}
        /\ page' = "form" => Accepted
    BY DEF Open, Accepted
  <1>2. ASSUME page' = "form" PROVE Shows'
    <2>1. /\ values' = [i \in DOMAIN form |-> InitialValue(form[i])]
          /\ editor' = LoadEditor(1, values')
      BY <1>2 DEF Open
    <2>2. form # << >>
      BY <1>1, <1>2 DEF Accepted, validate_player_creation_form
    <2>3. Len(form) # 0
      BY <2>2, FormTypes, EmptySeq
    <2>4. 1 \in DOMAIN form
      BY <2>3, FormTypes
    <2>5. \A i \in DOMAIN form : HasText(form[i]) => values'[i] \in Seq(Characters)
      BY <2>1, FormTypes, FirstTexts
    <2>6. HasText(form[1]) => Len(values'[1]) \in 0..Len(values'[1])
      BY <2>4, <2>5, LenProperties
    <2>7. /\ editor' = [text |-> editor'.text, cursor |-> editor'.cursor]
          /\ HasText(form[1]) => editor'.text = values'[1] /\ editor'.cursor = Len(values'[1])
      BY <2>1 DEF LoadEditor, EditorWith
    <2>8. ASSUME NEW i \in DOMAIN form, form[i].kind = "single" PROVE IsOption(values'[i])
      <3>1. IsField(form[i]) /\ values'[i] = InitialValue(form[i])
        BY <2>1, FormTypes
      <3>2. PICK d : d = form[i].default
        OBVIOUS
      <3>3. InitialValue(form[i]) = d
        BY <2>8, <3>2 DEF InitialValue, HasText
      <3>4. d \in Seq(Range(d)) /\ Len(d) <= 1
        BY <3>1, <3>2 DEF IsField
      <3>5. CASE d = << >>
        BY <3>1, <3>3, <3>5 DEF IsOption
      <3>6. CASE d # << >>
        <4>1. Len(d) \in Nat /\ Len(d) # 0
          BY <3>4, <3>6, LenProperties, EmptySeq
        <4>2. Len(d) = 1
          <5>1. PICK n \in Nat : n = Len(d) /\ n # 0 /\ n <= 1
            BY <3>4, <4>1
          <5> QED
            BY <5>1
        <4>3. PICK x : x = d[1]
          OBVIOUS
        <4>4. << x >> \in Seq(Range(d)) /\ Len(<< x >>) = 1 /\ << x >>[1] = x
          <5>1. x \in Range(d)
            BY <3>4, <4>2, <4>3, LenProperties DEF Range
          <5> QED
            BY <5>1
        <4>5. d = << x >>
          BY <3>4, <4>2, <4>3, <4>4, SeqEqual
        <4> QED
          BY <3>1, <3>3, <4>5 DEF IsOption
      <3> QED
        BY <3>5, <3>6
    <2> QED
      BY <1>1, <1>2, <2>1, <2>4, <2>5, <2>6, <2>7, <2>8 DEF Shows
  <1>3. ASSUME page' = "form" PROVE Accepted
    BY <1>1, <1>3
  <1> QED
    BY <1>1, <1>2, <1>3

-----------------------------------------------------------------------------
(* The compiler.  First the two loops: each state is made of the one       *)
(* before.                                                                 *)
Loop(f, s, effects, n) ==
  f = [i \in 0..n |-> IF i = 0 THEN s ELSE apply_player_effect(f[i - 1], effects[i])]

LEMMA EffectsLoop ==
  ASSUME NEW s, NEW effects, NEW N \in Nat
  PROVE  \E f : Loop(f, s, effects, N)
  <1> DEFINE bad == {n \in 0..N : ~ \E f : Loop(f, s, effects, n)}
  <1>1. bad = {}
    <2> SUFFICES ASSUME bad # {} PROVE FALSE
      OBVIOUS
    <2>1. bad \in SUBSET Nat
      <3>1. bad \subseteq 0..N
        BY Zenon
      <3> QED
        BY <3>1
    <2> HIDE DEF bad
    <2>2. PICK n \in bad : \A k \in bad : n <= k
      BY <2>1, LeastNumber
    <2>3. n \in 0..N /\ n \in Nat
      BY DEF bad
    <2>4. CASE n = 0
      <3>1. Loop([i \in 0..0 |-> s], s, effects, 0)
        BY DEF Loop
      <3> QED
        BY <2>4, <3>1 DEF bad
    <2>5. CASE n # 0
      <3>1. n - 1 \in 0..N /\ ~(n <= n - 1) /\ n - 1 \in 0..(n - 1)
        BY <2>3, <2>5
      <3>2. n - 1 \notin bad
        BY <2>2, <3>1
      <3>3. PICK f : Loop(f, s, effects, n - 1)
        BY <3>1, <3>2 DEF bad
      <3>4. PICK h : h = [i \in 0..n |-> IF i = n THEN apply_player_effect(f[n - 1], effects[n])
                                         ELSE f[i]]
        OBVIOUS
      <3>5. ASSUME NEW i \in 0..n
            PROVE  h[i] = IF i = 0 THEN s ELSE apply_player_effect(h[i - 1], effects[i])
        <4>1. CASE i = n
          <5>1. n - 1 \in 0..n /\ n - 1 # n
            BY <2>3, <3>1
          <5>2. h[n - 1] = f[n - 1]
            BY <3>4, <5>1
          <5>3. h[n] = apply_player_effect(f[n - 1], effects[n])
            BY <3>4, <4>1
          <5> QED
            BY <2>5, <4>1, <5>2, <5>3
        <4>2. CASE i # n
          <5>1. i \in 0..(n - 1) /\ (i # 0 => i - 1 \in 0..n /\ i - 1 # n)
            BY <2>3, <4>2
          <5>2. f[i] = IF i = 0 THEN s ELSE apply_player_effect(f[i - 1], effects[i])
            BY <3>3, <5>1 DEF Loop
          <5>3. h[i] = f[i] /\ (i # 0 => h[i - 1] = f[i - 1])
            BY <3>4, <4>2, <5>1
          <5> QED
            BY <5>2, <5>3
        <4> QED
          BY <4>1, <4>2
      <3>6. DOMAIN h = 0..n /\ h = [i \in 0..n |-> h[i]]
        BY <3>4
      <3>7. Loop(h, s, effects, n)
        BY <3>5, <3>6 DEF Loop
      <3> QED
        BY <3>7 DEF bad
    <2> QED
      BY <2>4, <2>5
  <1>2. N \in 0..N
    OBVIOUS
  <1> HIDE DEF bad
  <1> QED
    BY <1>1, <1>2 DEF bad

LEMMA EffectsApplied ==
  ASSUME NEW s, NEW f, NEW v, NEW N \in Nat, N = Len(SelectedEffects(f, v))
  PROVE  \E after :
           /\ apply_selected_player_effects(s, f, v) = after[N]
           /\ \A n \in 0..N :
                after[n] = IF n = 0 THEN s
                           ELSE apply_player_effect(after[n - 1], SelectedEffects(f, v)[n])
  <1>1. PICK effects : effects = SelectedEffects(f, v)
    OBVIOUS
  <1>2. PICK after : after = CHOOSE g : Loop(g, s, effects, N)
    OBVIOUS
  <1>3. Loop(after, s, effects, N)
    BY <1>2, EffectsLoop
  <1>4. apply_selected_player_effects(s, f, v) = after[N]
    BY <1>1, <1>2 DEF apply_selected_player_effects, Loop
  <1>5. \A n \in 0..N : after[n] = IF n = 0 THEN s
                                   ELSE apply_player_effect(after[n - 1], effects[n])
    BY <1>3 DEF Loop
  <1> QED
    BY <1>1, <1>4, <1>5

FieldLoop(f, n) == f = [i \in 0..n |-> IF i = 0 THEN Uncompiled ELSE CompileField(f[i - 1], i)]

LEMMA FieldsLoop ==
  ASSUME NEW N \in Nat
  PROVE  \E f : FieldLoop(f, N)
  <1> DEFINE bad == {n \in 0..N : ~ \E f : FieldLoop(f, n)}
  <1>1. bad = {}
    <2> SUFFICES ASSUME bad # {} PROVE FALSE
      OBVIOUS
    <2>1. bad \in SUBSET Nat
      <3>1. bad \subseteq 0..N
        BY Zenon
      <3> QED
        BY <3>1
    <2> HIDE DEF bad
    <2>2. PICK n \in bad : \A k \in bad : n <= k
      BY <2>1, LeastNumber
    <2>3. n \in 0..N /\ n \in Nat
      BY DEF bad
    <2>4. CASE n = 0
      <3>1. FieldLoop([i \in 0..0 |-> Uncompiled], 0)
        BY DEF FieldLoop
      <3> QED
        BY <2>4, <3>1 DEF bad
    <2>5. CASE n # 0
      <3>1. n - 1 \in 0..N /\ ~(n <= n - 1) /\ n - 1 \in 0..(n - 1)
        BY <2>3, <2>5
      <3>2. n - 1 \notin bad
        BY <2>2, <3>1
      <3>3. PICK f : FieldLoop(f, n - 1)
        BY <3>1, <3>2 DEF bad
      <3>4. PICK h : h = [i \in 0..n |-> IF i = n THEN CompileField(f[n - 1], n) ELSE f[i]]
        OBVIOUS
      <3>5. ASSUME NEW i \in 0..n
            PROVE  h[i] = IF i = 0 THEN Uncompiled ELSE CompileField(h[i - 1], i)
        <4>1. CASE i = n
          <5>1. n - 1 \in 0..n /\ n - 1 # n
            BY <2>3, <3>1
          <5>2. h[n - 1] = f[n - 1]
            BY <3>4, <5>1
          <5>3. h[n] = CompileField(f[n - 1], n)
            BY <3>4, <4>1
          <5> QED
            BY <2>5, <4>1, <5>2, <5>3
        <4>2. CASE i # n
          <5>1. i \in 0..(n - 1) /\ (i # 0 => i - 1 \in 0..n /\ i - 1 # n)
            BY <2>3, <4>2
          <5>2. f[i] = IF i = 0 THEN Uncompiled ELSE CompileField(f[i - 1], i)
            BY <3>3, <5>1 DEF FieldLoop
          <5>3. h[i] = f[i] /\ (i # 0 => h[i - 1] = f[i - 1])
            BY <3>4, <4>2, <5>1
          <5> QED
            BY <5>2, <5>3
        <4> QED
          BY <4>1, <4>2
      <3>6. DOMAIN h = 0..n /\ h = [i \in 0..n |-> h[i]]
        BY <3>4
      <3>7. FieldLoop(h, n)
        BY <3>5, <3>6 DEF FieldLoop
      <3> QED
        BY <3>7 DEF bad
    <2> QED
      BY <2>4, <2>5
  <1>2. N \in 0..N
    OBVIOUS
  <1> HIDE DEF bad
  <1> QED
    BY <1>1, <1>2 DEF bad

LEMMA FieldsCompiled ==
  ASSUME NEW N \in Nat, N = Len(form)
  PROVE  \E after :
           /\ compile_player_draft = after[N]
           /\ \A n \in 0..N : after[n] = IF n = 0 THEN Uncompiled
                                         ELSE CompileField(after[n - 1], n)
  <1>1. PICK after : after = CHOOSE g : FieldLoop(g, N)
    OBVIOUS
  <1>2. FieldLoop(after, N)
    BY <1>1, FieldsLoop
  <1>3. compile_player_draft = after[N]
    BY <1>1 DEF compile_player_draft, FieldLoop
  <1>4. \A n \in 0..N : after[n] = IF n = 0 THEN Uncompiled ELSE CompileField(after[n - 1], n)
    BY <1>2 DEF FieldLoop
  <1> QED
    BY <1>3, <1>4

(* What is fine stays fine.                                                *)
Okay(s) == "ok" \in DOMAIN s /\ s.ok

EffectFine(e) ==
  /\ e[1] \in EffectKinds
  /\ e[1] = "parameter" =>
       Parameters[e[2]].save /\ parameter_value_matches(Parameters[e[2]], e[3])

LEMMA ParameterOk ==
  ASSUME NEW s, Okay(s), NEW id, NEW v,
         Parameters[id].save, parameter_value_matches(Parameters[id], v)
  PROVE  Okay(set_player_parameter(s, id, v))
  BY DEF Okay, set_player_parameter

LEMMA EffectOk ==
  ASSUME NEW s, Okay(s), NEW e, EffectFine(e)
  PROVE  Okay(apply_player_effect(s, e))
  <1>1. CASE e[1] = "parameter"
    <2>1. apply_player_effect(s, e) = set_player_parameter(s, e[2], e[3])
      BY <1>1 DEF apply_player_effect
    <2> QED
      BY <1>1, <2>1, ParameterOk DEF EffectFine
  <1>2. CASE e[1] = "item"
    BY <1>2 DEF apply_player_effect, Okay
  <1>3. CASE e[1] = "grant"
    BY <1>3 DEF apply_player_effect, Okay
  <1>4. CASE e[1] = "attribute"
    BY <1>4 DEF apply_player_effect, Okay
  <1>5. CASE e[1] = "tag"
    BY <1>5 DEF apply_player_effect, Okay
  <1> QED
    BY <1>1, <1>2, <1>3, <1>4, <1>5 DEF EffectFine, EffectKinds

LEMMA EffectsIn ==
  ASSUME NEW f, IsField(f), NEW chosen
  PROVE  EffectsOf(f, chosen) \in Seq(AllEffects(f))
  <1>1. PICK n \in Nat : n = Len(f.options) /\ DOMAIN f.options = 1..n
    BY LenProperties DEF IsField
  <1>2. PICK g : g = [k \in DOMAIN f.options |->
                        IF f.options[k].value \in chosen THEN f.options[k].effects ELSE << >>]
    OBVIOUS
  <1>3. ASSUME NEW k \in DOMAIN f.options PROVE g[k] \in Seq(AllEffects(f))
    <2>1. f.options[k] \in Range(f.options)
      BY DEF Range
    <2>2. f.options[k].effects \in Seq(Range(f.options[k].effects))
      BY <2>1 DEF IsField
    <2>3. Range(f.options[k].effects) \subseteq AllEffects(f)
      BY DEF AllEffects
    <2>4. f.options[k].effects \in Seq(AllEffects(f))
      BY <2>2, <2>3, SeqMonotonic
    <2> QED
      BY <1>2, <2>4, EmptySeq
  <1>4. g \in [1..n -> Seq(AllEffects(f))]
    BY <1>1, <1>2, <1>3
  <1>5. g \in Seq(Seq(AllEffects(f)))
    BY <1>4, SeqDef
  <1>6. EffectsOf(f, chosen) = FlattenSeq(g)
    BY <1>2 DEF EffectsOf
  <1> QED
    BY <1>5, <1>6, FlatOver

LEMMA SelectedIn ==
  ASSUME NEW f, IsField(f), NEW v
  PROVE  SelectedEffects(f, v) \in Seq(AllEffects(f))
  <1>1. CASE f.kind = "single"
    BY <1>1, EffectsIn DEF SelectedEffects
  <1>2. CASE f.kind = "multi"
    BY <1>2, EffectsIn DEF SelectedEffects
  <1>3. CASE f.kind \notin {"single", "multi"}
    BY <1>3, EmptySeq DEF SelectedEffects
  <1> QED
    BY <1>1, <1>2, <1>3

LEMMA EffectsOk ==
  ASSUME NEW s, Okay(s), NEW f, IsField(f), NEW v, \A e \in AllEffects(f) : EffectFine(e)
  PROVE  Okay(apply_selected_player_effects(s, f, v))
  <1>1. PICK N \in Nat : /\ N = Len(SelectedEffects(f, v))
                         /\ \A n \in 1..N : EffectFine(SelectedEffects(f, v)[n])
    <2>1. SelectedEffects(f, v) \in Seq(AllEffects(f))
      BY SelectedIn
    <2> QED
      BY <2>1, LenProperties, ElementOfSeq
  <1>2. PICK after :
          /\ apply_selected_player_effects(s, f, v) = after[N]
          /\ \A n \in 0..N :
               after[n] = IF n = 0 THEN s
                          ELSE apply_player_effect(after[n - 1], SelectedEffects(f, v)[n])
    BY <1>1, EffectsApplied
  <1> DEFINE bad == {n \in 0..N : ~ Okay(after[n])}
  <1>3. bad = {}
    <2> SUFFICES ASSUME bad # {} PROVE FALSE
      OBVIOUS
    <2>1. bad \in SUBSET Nat
      <3>1. bad \subseteq 0..N
        BY Zenon
      <3> QED
        BY <3>1
    <2> HIDE DEF bad
    <2>2. PICK n \in bad : \A k \in bad : n <= k
      BY <2>1, LeastNumber
    <2>3. n \in 0..N /\ ~Okay(after[n])
      BY DEF bad
    <2>4. n # 0
      BY <1>2, <2>3
    <2>5. n - 1 \in 0..N /\ ~(n <= n - 1) /\ n \in 1..N
      BY <2>3, <2>4
    <2>6. Okay(after[n - 1])
      BY <2>2, <2>5 DEF bad
    <2>7. Okay(apply_player_effect(after[n - 1], SelectedEffects(f, v)[n]))
      BY <1>1, <2>5, <2>6, EffectOk
    <2> QED
      BY <1>2, <2>3, <2>4, <2>7
  <1>4. N \in 0..N
    OBVIOUS
  <1> HIDE DEF bad
  <1>5. Okay(after[N])
    BY <1>3, <1>4 DEF bad
  <1> QED
    BY <1>2, <1>5

(* A field of an accepted form, and a value of it that is not empty where  *)
(* that matters.                                                           *)
FieldFine(f) ==
  /\ IsField(f) /\ BindingValid(f) /\ player_field_type_is_valid(f)
  /\ f.binding[1] = "parameter" =>
       Parameters[f.binding[2]].save /\ player_field_matches_parameter(f, Parameters[f.binding[2]])
  /\ \A e \in AllEffects(f) : EffectFine(e)

LEMMA AcceptedFine ==
  ASSUME form \in Forms, Accepted, NEW i \in DOMAIN form
  PROVE  FieldFine(form[i])
  <1>1. IsField(form[i])
    BY FormTypes
  <1>2. BindingValid(form[i]) /\ player_field_type_is_valid(form[i])
    BY DEF Accepted, validate_player_creation_form
  <1>3. form[i].binding[1] = "parameter" =>
          /\ Parameters[form[i].binding[2]].save
          /\ player_field_matches_parameter(form[i], Parameters[form[i].binding[2]])
    BY DEF Accepted, validate_player_creation_references
  <1>4. ASSUME NEW e \in AllEffects(form[i]) PROVE EffectFine(e)
    <2>1. PICK k \in DOMAIN form[i].options : e \in Range(form[i].options[k].effects)
      BY DEF AllEffects
    <2>2. e[1] \in EffectKinds
      <3>1. form[i].options[k] \in Range(form[i].options)
        BY DEF Range
      <3> QED
        BY <1>1, <2>1, <3>1 DEF IsField
    <2>3. e[1] = "parameter" =>
            Parameters[e[2]].save /\ parameter_value_matches(Parameters[e[2]], e[3])
      BY DEF Accepted, validate_player_creation_references
    <2> QED
      BY <2>2, <2>3 DEF EffectFine
  <1> QED
    BY <1>1, <1>2, <1>3, <1>4 DEF FieldFine

(* The value fits what the field is bound to.                              *)
LEMMA ParameterFits ==
  ASSUME NEW f, FieldFine(f), Fitting(f), f.binding[1] = "parameter",
         NEW v, validate_player_field_value(f, v)
  PROVE  parameter_value_matches(Parameters[f.binding[2]], ParameterOf(f, v))
  <1>1. PICK p : p = Parameters[f.binding[2]]
    OBVIOUS
  <1>2. player_field_matches_parameter(f, p) /\ IsField(f)
    BY <1>1 DEF FieldFine
  <1>3. CASE f.kind = "integer"
    <2>1. ParameterOf(f, v) = << "counter", v >> /\ p.type = "counter"
      BY <1>2, <1>3 DEF ParameterOf, player_field_matches_parameter
    <2>2. v \in f.minimum..f.maximum
      BY <1>3 DEF validate_player_field_value
    <2>3. f.minimum..f.maximum \subseteq p.minimum..p.maximum
      BY <1>1, <1>3 DEF Fitting, TextBindings
    <2> QED
      BY <1>1, <2>1, <2>2, <2>3 DEF parameter_value_matches
  <1>4. CASE f.kind = "boolean"
    BY <1>1, <1>2, <1>4 DEF ParameterOf, player_field_matches_parameter, parameter_value_matches
  <1>5. CASE f.kind = "single"
    <2>1. ParameterOf(f, v) = << "enum", v >> /\ p.type = "enum" /\ OptionValues(f) \subseteq p.values
      BY <1>2, <1>5 DEF ParameterOf, player_field_matches_parameter
    <2>2. v \in OptionValues(f)
      BY <1>5 DEF validate_player_field_value
    <2> QED
      BY <1>1, <2>1, <2>2 DEF parameter_value_matches
  <1>6. CASE f.kind = "multi"
    <2>1. /\ ParameterOf(f, v) = << "tags", v >> /\ p.type = "tags"
          /\ OptionValues(f) \subseteq p.values /\ Len(f.options) <= p.maximum
      BY <1>2, <1>6 DEF ParameterOf, player_field_matches_parameter
    <2>2. v \subseteq OptionValues(f) /\ Cardinality(v) \in f.minimum..f.maximum
      BY <1>6 DEF validate_player_field_value
    <2>3. f.maximum <= Len(f.options)
      BY <1>6 DEF FieldFine, player_field_type_is_valid
    <2>4. Len(f.options) \in Nat /\ f.minimum \in Int /\ f.maximum \in Int /\ p.maximum \in Int
      BY <1>1, <1>2, LenProperties, PlayerFormAssumption DEF IsField
    <2>5. Cardinality(v) <= p.maximum
      BY <2>1, <2>2, <2>3, <2>4
    <2> QED
      BY <1>1, <2>1, <2>2, <2>5 DEF parameter_value_matches
  <1>7. f.kind # "text"
    BY <1>2 DEF player_field_matches_parameter
  <1> QED
    BY <1>2, <1>3, <1>4, <1>5, <1>6, <1>7 DEF IsField, Kinds

LEMMA BindingOk ==
  ASSUME NEW s, Okay(s), NEW f, FieldFine(f), Fitting(f),
         NEW v, validate_player_field_value(f, v),
         f.binding[1] = "display_name" => f.minimum >= 1 \/ Len(v) >= 1
  PROVE  Okay(apply_player_binding(s, f, v))
  <1>1. f.binding[1] \in {"none", "attribute", "parameter"} \cup TextBindings
    BY DEF FieldFine, BindingValid
  <1>2. CASE f.binding[1] = "none"
    BY <1>2 DEF apply_player_binding
  <1>3. CASE f.binding[1] \in TextBindings
    <2>1. f.kind = "text"
      BY <1>3 DEF FieldFine, BindingValid, TextBindings
    <2>2. Len(v) \in f.minimum..f.maximum /\ f.minimum \in Int /\ f.maximum \in Int
      BY <2>1 DEF validate_player_field_value, FieldFine, IsField
    <2>3. PICK n \in Int : n = Len(v) /\ f.minimum <= n /\ n <= f.maximum
      BY <2>2
    <2>4. CASE f.binding[1] = "display_name"
      <3>1. f.maximum <= NameBytes
        BY <2>4 DEF Fitting
      <3>2. n >= 1
        BY <2>2, <2>3, <2>4
      <3>3. Len(v) \in 1..NameBytes
        BY <2>2, <2>3, <3>1, <3>2, PlayerFormAssumption
      <3> QED
        BY <2>4, <3>3 DEF apply_player_binding, Okay
    <2>5. CASE f.binding[1] \in {"summary", "profile_value"}
      <3>1. f.maximum <= TextBytes
        BY <2>5 DEF Fitting, TextBindings
      <3>2. Len(v) <= TextBytes
        BY <2>2, <2>3, <3>1, PlayerFormAssumption
      <3>3. CASE f.binding[1] = "summary"
        BY <3>2, <3>3 DEF apply_player_binding, Okay
      <3>4. CASE f.binding[1] = "profile_value"
        BY <3>2, <3>4 DEF apply_player_binding, Okay
      <3> QED
        BY <2>5, <3>3, <3>4
    <2> QED
      BY <1>3, <2>4, <2>5 DEF TextBindings
  <1>4. CASE f.binding[1] = "attribute"
    BY <1>4 DEF apply_player_binding, Okay
  <1>5. CASE f.binding[1] = "parameter"
    <2>1. apply_player_binding(s, f, v) = set_player_parameter(s, f.binding[2], ParameterOf(f, v))
      BY <1>5 DEF apply_player_binding
    <2>2. parameter_value_matches(Parameters[f.binding[2]], ParameterOf(f, v))
      BY <1>5, ParameterFits
    <2>3. Parameters[f.binding[2]].save
      BY <1>5 DEF FieldFine
    <2> QED
      BY <2>1, <2>2, <2>3, ParameterOk
  <1> QED
    BY <1>1, <1>2, <1>3, <1>4, <1>5

(* What was submitted is what was on the screen, and every field of it was *)
(* valid.                                                                  *)
Submission ==
  /\ draft = [i \in {k \in DOMAIN form : ~LeftOut(form[k], values[k])} |->
                Submitted(form[i], values[i])]
  /\ \A i \in DOMAIN form : Valid(form[i], values[i])

LEMMA SentValues ==
  ASSUME Submission, NEW i \in DOMAIN form
  PROVE  /\ ~LeftOut(form[i], values[i]) =>
              DraftValue(i) = << Submitted(form[i], values[i]) >>
         /\ LeftOut(form[i], values[i]) => DraftValue(i) = form[i].default
  BY DEF Submission, DraftValue

(* A field that is sent.                                                   *)
LEMMA SentFine ==
  ASSUME NEW f, IsField(f), NEW v, Valid(f, v), ~LeftOut(f, v)
  PROVE  validate_player_field_value(f, Submitted(f, v))
  <1>1. CASE f.kind = "text"
    BY <1>1 DEF Valid, Submitted, validate_player_field_value
  <1>2. CASE f.kind = "integer"
    BY <1>2 DEF Valid, Submitted, validate_player_field_value
  <1>3. CASE f.kind = "boolean"
    BY <1>3 DEF Valid, Submitted, validate_player_field_value
  <1>4. CASE f.kind = "single"
    BY <1>4 DEF Valid, Submitted, validate_player_field_value
  <1>5. CASE f.kind = "multi"
    BY <1>5 DEF Valid, Submitted, validate_player_field_value
  <1> QED
    BY <1>1, <1>2, <1>3, <1>4, <1>5 DEF IsField, Kinds

(* A default.                                                              *)
LEMMA DefaultFine ==
  ASSUME NEW f, FieldFine(f), f.default # << >>
  PROVE  validate_player_field_value(f, f.default[1])
  <1>1. 1 \in DOMAIN f.default
    <2>1. f.default \in Seq(Range(f.default))
      BY DEF FieldFine, IsField
    <2>2. Len(f.default) \in Nat /\ Len(f.default) # 0 /\ DOMAIN f.default = 1..Len(f.default)
      BY <2>1, LenProperties, EmptySeq
    <2> QED
      BY <2>2
  <1>2. player_field_type_is_valid(f) /\ f.kind \in Kinds
    BY DEF FieldFine, IsField
  <1>3. CASE f.kind = "text"
    BY <1>1, <1>2, <1>3 DEF player_field_type_is_valid, validate_player_field_value
  <1>4. CASE f.kind = "integer"
    BY <1>1, <1>2, <1>4 DEF player_field_type_is_valid, validate_player_field_value
  <1>5. CASE f.kind = "boolean"
    BY <1>5 DEF validate_player_field_value
  <1>6. CASE f.kind = "single"
    BY <1>1, <1>2, <1>6 DEF player_field_type_is_valid, validate_player_field_value
  <1>7. CASE f.kind = "multi"
    BY <1>1, <1>2, <1>7 DEF player_field_type_is_valid, validate_player_field_value
  <1> QED
    BY <1>2, <1>3, <1>4, <1>5, <1>6, <1>7 DEF Kinds

LEMMA DraftFine ==
  ASSUME form \in Forms, Accepted, Shows, Submission,
         NEW i \in DOMAIN form, Fitting(form[i]), DraftValue(i) # << >>
  PROVE  /\ validate_player_field_value(form[i], DraftValue(i)[1])
         /\ form[i].binding[1] = "display_name" =>
              form[i].minimum >= 1 \/ Len(DraftValue(i)[1]) >= 1
  <1>1. PICK f : f = form[i]
    OBVIOUS
  <1>2. PICK v : v = values[i]
    OBVIOUS
  <1>3. FieldFine(f) /\ IsField(f)
    BY <1>1, AcceptedFine DEF FieldFine
  <1>4. Valid(f, v)
    BY <1>1, <1>2 DEF Submission
  <1>5. ASSUME f.binding[1] = "display_name"
        PROVE  /\ f.kind = "text" /\ v \in Seq(Characters)
               /\ f.minimum >= 1 \/ (~f.required /\ f.default = << >>)
    <2>1. f.kind = "text"
      BY <1>3, <1>5 DEF FieldFine, BindingValid
    <2>2. v \in Seq(Characters)
      BY <1>1, <1>2, <2>1 DEF Shows, HasText
    <2>3. f.minimum >= 1 \/ (~f.required /\ f.default = << >>)
      BY <1>1, <1>5 DEF Fitting
    <2> QED
      BY <2>1, <2>2, <2>3
  <1>6. CASE LeftOut(f, v)
    <2>1. DraftValue(i) = f.default
      BY <1>1, <1>2, <1>6, SentValues
    <2>2. validate_player_field_value(f, DraftValue(i)[1])
      BY <1>3, <2>1, DefaultFine
    <2> QED
      BY <1>1, <1>5, <2>1, <2>2
  <1>7. CASE ~LeftOut(f, v)
    <2>1. DraftValue(i) = << Submitted(f, v) >>
      BY <1>1, <1>2, <1>7, SentValues
    <2>2. DraftValue(i)[1] = Submitted(f, v)
      BY <2>1
    <2>3. validate_player_field_value(f, DraftValue(i)[1])
      BY <1>3, <1>4, <1>7, <2>2, SentFine
    <2>4. ASSUME f.binding[1] = "display_name", ~(f.minimum >= 1)
          PROVE  Len(DraftValue(i)[1]) >= 1
      <3>1. f.kind = "text" /\ v \in Seq(Characters) /\ ~f.required
        BY <1>5, <2>4
      <3>2. v # << >>
        BY <1>7, <3>1 DEF LeftOut, HasText
      <3>3. Len(v) \in Nat /\ Len(v) # 0
        BY <3>1, <3>2, LenProperties, EmptySeq
      <3>4. DraftValue(i)[1] = v
        BY <2>2, <3>1 DEF Submitted
      <3> QED
        BY <3>3, <3>4
    <2> QED
      BY <1>1, <2>3, <2>4
  <1> QED
    BY <1>6, <1>7

LEMMA FieldOk ==
  ASSUME form \in Forms, Accepted, Shows, Submission,
         NEW i \in DOMAIN form, Fitting(form[i]), NEW s, Okay(s)
  PROVE  Okay(CompileField(s, i))
  <1>1. PICK f : f = form[i]
    OBVIOUS
  <1>2. PICK v : v = DraftValue(i)
    OBVIOUS
  <1>3. FieldFine(f) /\ IsField(f)
    BY <1>1, AcceptedFine DEF FieldFine
  <1>4. CASE v = << >>
    <2>1. LeftOut(f, values[i])
      <3>1. PICK x : x = Submitted(f, values[i])
        OBVIOUS
      <3>2. << x >> # << >>
        OBVIOUS
      <3>3. ~LeftOut(f, values[i]) => v = << x >>
        BY <1>1, <1>2, <3>1, SentValues
      <3> QED
        BY <1>4, <3>2, <3>3
    <2>2. ~f.required
      BY <2>1 DEF LeftOut
    <2> QED
      BY <1>1, <1>2, <1>4, <2>2 DEF CompileField, Okay
  <1>5. CASE v # << >>
    <2>1. /\ validate_player_field_value(f, v[1])
          /\ f.binding[1] = "display_name" => f.minimum >= 1 \/ Len(v[1]) >= 1
      BY <1>1, <1>2, <1>5, DraftFine
    <2>2. Okay(apply_player_binding(s, f, v[1]))
      BY <1>1, <1>3, <2>1, BindingOk
    <2>3. \A e \in AllEffects(f) : EffectFine(e)
      BY <1>3 DEF FieldFine
    <2>4. Okay(apply_selected_player_effects(apply_player_binding(s, f, v[1]), f, v[1]))
      BY <1>3, <2>2, <2>3, EffectsOk
    <2> QED
      BY <1>1, <1>2, <1>5, <2>1, <2>4 DEF CompileField
  <1> QED
    BY <1>4, <1>5

LEMMA CompiledOk ==
  ASSUME form \in Forms, Accepted, Shows, Submission, \A i \in DOMAIN form : Fitting(form[i])
  PROVE  compile_player_draft.ok
  <1>1. PICK N \in Nat : N = Len(form) /\ DOMAIN form = 1..N
    BY FormTypes
  <1>2. PICK after : /\ compile_player_draft = after[N]
                     /\ \A n \in 0..N : after[n] = IF n = 0 THEN Uncompiled
                                                   ELSE CompileField(after[n - 1], n)
    BY <1>1, FieldsCompiled
  <1> DEFINE bad == {n \in 0..N : ~ Okay(after[n])}
  <1>3. bad = {}
    <2> SUFFICES ASSUME bad # {} PROVE FALSE
      OBVIOUS
    <2>1. bad \in SUBSET Nat
      <3>1. bad \subseteq 0..N
        BY Zenon
      <3> QED
        BY <3>1
    <2> HIDE DEF bad
    <2>2. PICK n \in bad : \A k \in bad : n <= k
      BY <2>1, LeastNumber
    <2>3. n \in 0..N /\ ~Okay(after[n])
      BY DEF bad
    <2>4. CASE n = 0
      <3>1. after[n] = Uncompiled
        BY <1>2, <2>3, <2>4
      <3> QED
        BY <2>3, <3>1 DEF Uncompiled, Okay
    <2>5. CASE n # 0
      <3>1. n - 1 \in 0..N /\ ~(n <= n - 1) /\ n \in 1..N
        BY <2>3, <2>5
      <3>2. Okay(after[n - 1])
        BY <2>2, <3>1 DEF bad
      <3>3. Okay(CompileField(after[n - 1], n))
        BY <1>1, <3>1, <3>2, FieldOk
      <3> QED
        BY <1>2, <2>3, <2>5, <3>3
    <2> QED
      BY <2>4, <2>5
  <1>4. N \in 0..N
    OBVIOUS
  <1> HIDE DEF bad
  <1>5. Okay(after[N])
    BY <1>3, <1>4 DEF bad
  <1> QED
    BY <1>2, <1>5 DEF Okay

-----------------------------------------------------------------------------
(* What the compiler makes of the values.                                  *)
CharacterFields ==
  {"display_name", "summary", "values", "attributes", "inventory", "grants", "tags"}

Shaped(s) ==
  /\ {"ok", "character", "parameters", "next_item"} \subseteq DOMAIN s
  /\ CharacterFields \subseteq DOMAIN s.character
  /\ s.character.inventory \in Seq(Range(s.character.inventory))

(* The value w is what a binding b has been given.                         *)
Holds(s, b, w) ==
  /\ b[1] = "display_name" => s.character.display_name = w
  /\ b[1] = "attribute" => /\ b[2] \in DOMAIN s.character.attributes
                           /\ s.character.attributes[b[2]] = w
  /\ b[1] = "parameter" => b[2] \in DOMAIN s.parameters /\ s.parameters[b[2]] = w

(* What other bindings hold stays.                                         *)
IsBinding(b) == b = << b[1], b[2] >> /\ (b[1] \in TextBindings => b[2] = 0)

OthersHold(s, t, a) ==
  \A b, w : IsBinding(b) /\ b # a /\ Holds(s, b, w) => Holds(t, b, w)

ItemsOf(inventory) == {inventory[k].item : k \in DOMAIN inventory}
Items(s) == ItemsOf(s.character.inventory)

(* What a list of effects adds to the tags and to the items.               *)
Gives(kind, effects, x) == \E e \in effects : e[1] = kind /\ e[2] = x

LEMMA WithHolds ==
  ASSUME NEW g, NEW x, NEW y
  PROVE  /\ x \in DOMAIN With(g, x, y) /\ With(g, x, y)[x] = y
         /\ \A z \in DOMAIN g : z # x => z \in DOMAIN With(g, x, y) /\ With(g, x, y)[z] = g[z]
  BY DEF With

LEMMA SetParameter ==
  ASSUME NEW s, Shaped(s), NEW id, NEW v
  PROVE  /\ Shaped(set_player_parameter(s, id, v))
         /\ set_player_parameter(s, id, v).character = s.character
         /\ Holds(set_player_parameter(s, id, v), << "parameter", id >>, v)
         /\ OthersHold(s, set_player_parameter(s, id, v), << "parameter", id >>)
  <1>1. PICK t : t = set_player_parameter(s, id, v)
    OBVIOUS
  <1>2. t.character = s.character /\ t.parameters = With(s.parameters, id, v) /\ DOMAIN t = DOMAIN s
    BY <1>1 DEF set_player_parameter, Shaped
  <1>3. Shaped(t)
    BY <1>2 DEF Shaped
  <1>4. Holds(t, << "parameter", id >>, v)
    BY <1>2, WithHolds DEF Holds
  <1>5. ASSUME NEW b, NEW w, IsBinding(b), b # << "parameter", id >>, Holds(s, b, w)
        PROVE  Holds(t, b, w)
    <2>1. b[1] = "parameter" => b[2] # id
      BY <1>5 DEF IsBinding
    <2>2. b[1] = "parameter" => b[2] \in DOMAIN t.parameters /\ t.parameters[b[2]] = w
      BY <1>2, <1>5, <2>1, WithHolds DEF Holds
    <2> QED
      BY <1>2, <1>5, <2>2 DEF Holds
  <1> QED
    BY <1>1, <1>2, <1>3, <1>4, <1>5 DEF OthersHold

WithAttribute(s, id, v) == [s EXCEPT !.character.attributes = With(@, id, v)]

LEMMA SetAttribute ==
  ASSUME NEW s, Shaped(s), NEW id, NEW v, NEW t, t = WithAttribute(s, id, v)
  PROVE  /\ Shaped(t) /\ t.character.tags = s.character.tags
         /\ t.character.inventory = s.character.inventory
         /\ Holds(t, << "attribute", id >>, v)
         /\ OthersHold(s, t, << "attribute", id >>)
  <1>1. /\ t.parameters = s.parameters /\ DOMAIN t = DOMAIN s
        /\ t.character = [s.character EXCEPT !.attributes = With(@, id, v)]
    BY DEF Shaped, WithAttribute
  <1>2. /\ DOMAIN t.character = DOMAIN s.character
        /\ t.character.attributes = With(s.character.attributes, id, v)
        /\ t.character.display_name = s.character.display_name
        /\ t.character.tags = s.character.tags
        /\ t.character.inventory = s.character.inventory
    BY <1>1 DEF Shaped, CharacterFields
  <1>3. Shaped(t)
    BY <1>1, <1>2 DEF Shaped
  <1>4. Holds(t, << "attribute", id >>, v)
    BY <1>2, WithHolds DEF Holds
  <1>5. ASSUME NEW b, NEW w, IsBinding(b), b # << "attribute", id >>, Holds(s, b, w)
        PROVE  Holds(t, b, w)
    <2>1. b[1] = "attribute" => b[2] # id
      BY <1>5 DEF IsBinding
    <2>2. b[1] = "attribute" => /\ b[2] \in DOMAIN t.character.attributes
                                /\ t.character.attributes[b[2]] = w
      BY <1>2, <1>5, <2>1, WithHolds DEF Holds
    <2> QED
      BY <1>1, <1>2, <1>5, <2>2 DEF Holds
  <1> QED
    BY <1>2, <1>3, <1>4, <1>5 DEF OthersHold

(* A change of another part of the character.                              *)
LEMMA OtherPart ==
  ASSUME NEW s, Shaped(s), NEW t, DOMAIN t = DOMAIN s, t.parameters = s.parameters,
         DOMAIN t.character = DOMAIN s.character,
         t.character.display_name = s.character.display_name,
         t.character.attributes = s.character.attributes,
         t.character.inventory \in Seq(Range(t.character.inventory))
  PROVE  Shaped(t) /\ \A a : OthersHold(s, t, a)
  BY DEF Shaped, Holds, OthersHold

LEMMA MoreItems ==
  ASSUME NEW inv, inv \in Seq(Range(inv)), NEW e,
         NEW more, more = Append(inv, e)
  PROVE  /\ more \in Seq(Range(more))
         /\ ItemsOf(more) = ItemsOf(inv) \cup {e.item}
  <1>1. inv \in Seq(Range(inv) \cup {e}) /\ e \in Range(inv) \cup {e}
    BY SeqMonotonic
  <1>2. PICK n \in Nat : n = Len(inv) /\ DOMAIN inv = 1..n
    BY LenProperties
  <1>3. more \in Seq(Range(inv) \cup {e})
    BY <1>1
  <1>4. more \in Seq(Range(more))
    BY <1>3, SeqRange
  <1>5. /\ DOMAIN more = 1..(n + 1) /\ more[n + 1] = e
        /\ \A k \in 1..n : more[k] = inv[k]
    BY <1>1, <1>2
  <1>6. 1..(n + 1) = (1..n) \cup {n + 1}
    BY <1>2
  <1> QED
    BY <1>2, <1>4, <1>5, <1>6 DEF ItemsOf

LEMMA EffectKeeps ==
  ASSUME NEW s, Shaped(s), NEW e, EffectFine(e), NEW t, t = apply_player_effect(s, e)
  PROVE  /\ Shaped(t)
         /\ OthersHold(s, t, << e[1], e[2] >>)
         /\ \A x : x \in t.character.tags <=> x \in s.character.tags \/ Gives("tag", {e}, x)
         /\ \A x : x \in Items(t) <=> x \in Items(s) \/ Gives("item", {e}, x)
  <1>1. CASE e[1] = "parameter"
    <2>1. t = set_player_parameter(s, e[2], e[3])
      BY <1>1 DEF apply_player_effect
    <2>2. PICK id, v : id = e[2] /\ v = e[3]
      OBVIOUS
    <2>3. /\ Shaped(t) /\ t.character = s.character
          /\ OthersHold(s, t, << "parameter", id >>)
      BY <2>1, <2>2, SetParameter
    <2> QED
      BY <1>1, <2>2, <2>3 DEF Gives, Items
  <1>2. CASE e[1] = "attribute"
    <2>1. PICK id, v : id = e[2] /\ v = e[3]
      OBVIOUS
    <2>2. t = WithAttribute(s, id, v)
      BY <1>2, <2>1 DEF apply_player_effect, WithAttribute
    <2>3. /\ Shaped(t) /\ t.character.tags = s.character.tags
          /\ t.character.inventory = s.character.inventory
          /\ OthersHold(s, t, << "attribute", id >>)
      BY <2>2, SetAttribute
    <2> QED
      BY <1>2, <2>1, <2>3 DEF Gives, Items
  <1>3. CASE e[1] = "tag"
    <2>1. t = [s EXCEPT !.character.tags = @ \cup {e[2]}]
      BY <1>3 DEF apply_player_effect
    <2>2. /\ t.parameters = s.parameters /\ DOMAIN t = DOMAIN s
          /\ t.character = [s.character EXCEPT !.tags = @ \cup {e[2]}]
      BY <2>1 DEF Shaped
    <2>3. /\ DOMAIN t.character = DOMAIN s.character
          /\ t.character.attributes = s.character.attributes
          /\ t.character.display_name = s.character.display_name
          /\ t.character.tags = s.character.tags \cup {e[2]}
          /\ t.character.inventory = s.character.inventory
      BY <2>2 DEF Shaped, CharacterFields
    <2>4. t.character.inventory \in Seq(Range(t.character.inventory))
      BY <2>3 DEF Shaped
    <2>5. Shaped(t) /\ \A a : OthersHold(s, t, a)
      BY <2>2, <2>3, <2>4, OtherPart
    <2> QED
      BY <1>3, <2>3, <2>5 DEF Gives, Items
  <1>4. CASE e[1] = "grant"
    <2>1. t = [s EXCEPT !.character.grants = Append(@, e[2])]
      BY <1>4 DEF apply_player_effect
    <2>2. /\ t.parameters = s.parameters /\ DOMAIN t = DOMAIN s
          /\ t.character = [s.character EXCEPT !.grants = Append(@, e[2])]
      BY <2>1 DEF Shaped
    <2>3. /\ DOMAIN t.character = DOMAIN s.character
          /\ t.character.attributes = s.character.attributes
          /\ t.character.display_name = s.character.display_name
          /\ t.character.tags = s.character.tags
          /\ t.character.inventory = s.character.inventory
      BY <2>2 DEF Shaped, CharacterFields
    <2>4. t.character.inventory \in Seq(Range(t.character.inventory))
      BY <2>3 DEF Shaped
    <2>5. Shaped(t) /\ \A a : OthersHold(s, t, a)
      BY <2>2, <2>3, <2>4, OtherPart
    <2> QED
      BY <1>4, <2>3, <2>5 DEF Gives, Items
  <1>5. CASE e[1] = "item"
    <2>1. PICK new : new = [key |-> FreeKey(s), item |-> e[2]]
      OBVIOUS
    <2>2. PICK next : next = FreeKey(s) + 1
      OBVIOUS
    <2>3. t = [s EXCEPT !.character.inventory = Append(@, new), !.next_item = next]
      BY <1>5, <2>1, <2>2 DEF apply_player_effect
    <2>4. /\ t.parameters = s.parameters /\ DOMAIN t = DOMAIN s
          /\ t.character = [s.character EXCEPT !.inventory = Append(@, new)]
      BY <2>3 DEF Shaped
    <2>5. /\ DOMAIN t.character = DOMAIN s.character
          /\ t.character.attributes = s.character.attributes
          /\ t.character.display_name = s.character.display_name
          /\ t.character.tags = s.character.tags
          /\ t.character.inventory = Append(s.character.inventory, new)
      BY <2>4 DEF Shaped, CharacterFields
    <2>6. /\ t.character.inventory \in Seq(Range(t.character.inventory))
          /\ Items(t) = Items(s) \cup {new.item}
      <3>1. PICK inv, more : inv = s.character.inventory /\ more = Append(inv, new)
        OBVIOUS
      <3>2. inv \in Seq(Range(inv)) /\ t.character.inventory = more
        BY <2>5, <3>1 DEF Shaped
      <3>3. /\ more \in Seq(Range(more))
            /\ ItemsOf(more) = ItemsOf(inv) \cup {new.item}
        BY <3>1, <3>2, MoreItems
      <3> QED
        BY <3>1, <3>2, <3>3 DEF Items
    <2>7. Shaped(t) /\ \A a : OthersHold(s, t, a)
      BY <2>4, <2>5, <2>6, OtherPart
    <2>8. new.item = e[2]
      BY <2>1
    <2> QED
      BY <1>5, <2>5, <2>6, <2>7, <2>8 DEF Gives
  <1> QED
    BY <1>1, <1>2, <1>3, <1>4, <1>5 DEF EffectFine, EffectKinds

(* What the first n effects have made of s.                                *)
Progress(s, t, effects, n) ==
  /\ Shaped(t)
  /\ \A b, w : /\ IsBinding(b) /\ Holds(s, b, w)
               /\ \A k \in 1..n : << effects[k][1], effects[k][2] >> # b
               => Holds(t, b, w)
  /\ \A x : x \in t.character.tags <=>
              x \in s.character.tags \/ Gives("tag", {effects[k] : k \in 1..n}, x)
  /\ \A x : x \in Items(t) <=> x \in Items(s) \/ Gives("item", {effects[k] : k \in 1..n}, x)

LEMMA MoreGiven ==
  ASSUME NEW effects, NEW n \in Nat \ {0}, NEW kind, NEW x
  PROVE  Gives(kind, {effects[k] : k \in 1..n}, x) <=>
           \/ Gives(kind, {effects[k] : k \in 1..(n - 1)}, x)
           \/ Gives(kind, {effects[n]}, x)
  <1>1. 1..n = (1..(n - 1)) \cup {n}
    OBVIOUS
  <1>2. {effects[k] : k \in 1..n} = {effects[k] : k \in 1..(n - 1)} \cup {effects[n]}
    BY <1>1
  <1> QED
    BY <1>2 DEF Gives

LEMMA ProgressStep ==
  ASSUME NEW s, NEW t, NEW effects, NEW n \in Nat \ {0}, Progress(s, t, effects, n - 1),
         EffectFine(effects[n]), NEW u, u = apply_player_effect(t, effects[n])
  PROVE  Progress(s, u, effects, n)
  <1>1. PICK e : e = effects[n]
    OBVIOUS
  <1>2. /\ Shaped(u) /\ OthersHold(t, u, << e[1], e[2] >>)
        /\ \A x : x \in u.character.tags <=> x \in t.character.tags \/ Gives("tag", {e}, x)
        /\ \A x : x \in Items(u) <=> x \in Items(t) \/ Gives("item", {e}, x)
    BY <1>1, EffectKeeps DEF Progress
  <1>3. ASSUME NEW b, NEW w, IsBinding(b), Holds(s, b, w),
               \A k \in 1..n : << effects[k][1], effects[k][2] >> # b
        PROVE  Holds(u, b, w)
    <2>1. n \in 1..n /\ \A k \in 1..(n - 1) : k \in 1..n
      OBVIOUS
    <2>2. Holds(t, b, w)
      BY <1>3, <2>1 DEF Progress
    <2>3. b # << e[1], e[2] >>
      BY <1>1, <1>3, <2>1
    <2> QED
      BY <1>2, <1>3, <2>2, <2>3 DEF OthersHold
  <1>4. ASSUME NEW x
        PROVE  x \in u.character.tags <=>
                 x \in s.character.tags \/ Gives("tag", {effects[k] : k \in 1..n}, x)
    BY <1>1, <1>2, MoreGiven DEF Progress
  <1>5. ASSUME NEW x
        PROVE  x \in Items(u) <=> x \in Items(s) \/ Gives("item", {effects[k] : k \in 1..n}, x)
    BY <1>1, <1>2, MoreGiven DEF Progress
  <1> QED
    BY <1>2, <1>3, <1>4, <1>5 DEF Progress

LEMMA EffectsKeep ==
  ASSUME NEW s, Shaped(s), NEW f, FieldFine(f), NEW v,
         NEW t, t = apply_selected_player_effects(s, f, v)
  PROVE  /\ Shaped(t)
         /\ \A b, w : /\ IsBinding(b) /\ Holds(s, b, w)
                      /\ \A e \in AllEffects(f) : << e[1], e[2] >> # b
                      => Holds(t, b, w)
         /\ \A x : x \in t.character.tags <=>
                     x \in s.character.tags \/ Gives("tag", Range(SelectedEffects(f, v)), x)
         /\ \A x : x \in Items(t) <=>
                     x \in Items(s) \/ Gives("item", Range(SelectedEffects(f, v)), x)
  <1>0. PICK effects : effects = SelectedEffects(f, v)
    OBVIOUS
  <1>1. PICK N \in Nat : /\ N = Len(effects) /\ DOMAIN effects = 1..N
                         /\ \A n \in 1..N : effects[n] \in AllEffects(f)
    <2>1. effects \in Seq(AllEffects(f))
      BY <1>0, SelectedIn DEF FieldFine
    <2> QED
      BY <2>1, LenProperties, ElementOfSeq
  <1>2. PICK after :
          /\ t = after[N]
          /\ \A n \in 0..N :
               after[n] = IF n = 0 THEN s ELSE apply_player_effect(after[n - 1], effects[n])
    BY <1>0, <1>1, EffectsApplied
  <1> DEFINE bad == {n \in 0..N : ~ Progress(s, after[n], effects, n)}
  <1>3. bad = {}
    <2> SUFFICES ASSUME bad # {} PROVE FALSE
      OBVIOUS
    <2>1. bad \in SUBSET Nat
      <3>1. bad \subseteq 0..N
        BY Zenon
      <3> QED
        BY <3>1
    <2> HIDE DEF bad
    <2>2. PICK n \in bad : \A k \in bad : n <= k
      BY <2>1, LeastNumber
    <2>3. n \in 0..N /\ ~Progress(s, after[n], effects, n)
      BY DEF bad
    <2>4. CASE n = 0
      <3>1. after[0] = s
        BY <1>2, <2>3, <2>4
      <3>2. \A kind, x : ~Gives(kind, {effects[k] : k \in 1..0}, x)
        BY DEF Gives
      <3>3. Progress(s, s, effects, 0)
        BY <3>2 DEF Progress
      <3> QED
        BY <2>3, <2>4, <3>1, <3>3
    <2>5. CASE n # 0
      <3>1. n - 1 \in 0..N /\ ~(n <= n - 1) /\ n \in 1..N /\ n \in Nat \ {0}
        BY <2>3, <2>5
      <3>2. PICK prev : prev = after[n - 1]
        OBVIOUS
      <3>3. Progress(s, prev, effects, n - 1)
        BY <2>2, <3>1, <3>2 DEF bad
      <3>4. after[n] = apply_player_effect(prev, effects[n]) /\ EffectFine(effects[n])
        BY <1>1, <1>2, <2>3, <2>5, <3>1, <3>2 DEF FieldFine
      <3> QED
        BY <2>3, <3>1, <3>3, <3>4, ProgressStep
    <2> QED
      BY <2>4, <2>5
  <1>4. N \in 0..N
    OBVIOUS
  <1> HIDE DEF bad
  <1>5. Progress(s, t, effects, N)
    BY <1>2, <1>3, <1>4 DEF bad
  <1>6. {effects[k] : k \in 1..N} = Range(effects)
    BY <1>1 DEF Range
  <1>7. ASSUME NEW b, NEW w, IsBinding(b), Holds(s, b, w),
               \A e \in AllEffects(f) : << e[1], e[2] >> # b
        PROVE  Holds(t, b, w)
    BY <1>1, <1>5, <1>7 DEF Progress
  <1> QED
    BY <1>0, <1>5, <1>6, <1>7 DEF Progress

(* What a binding holds after it is applied.                               *)
BoundValue(f, v) == IF f.binding[1] = "parameter" THEN ParameterOf(f, v) ELSE v

LEMMA BindingGives ==
  ASSUME NEW s, Shaped(s), NEW f, FieldFine(f), NEW v,
         NEW t, t = apply_player_binding(s, f, v)
  PROVE  /\ Shaped(t) /\ OthersHold(s, t, f.binding)
         /\ Holds(t, f.binding, BoundValue(f, v))
         /\ t.character.tags = s.character.tags /\ Items(t) = Items(s)
  <1>1. /\ f.binding[1] \in {"none", "attribute", "parameter"} \cup TextBindings
        /\ IsBinding(f.binding)
    BY DEF FieldFine, BindingValid, IsField, IsBinding
  <1>2. PICK a : a = f.binding
    OBVIOUS
  <1>3. CASE a[1] = "none"
    BY <1>2, <1>3 DEF apply_player_binding, OthersHold, Holds
  <1>4. CASE a[1] = "display_name"
    <2>1. /\ DOMAIN t = DOMAIN s /\ t.parameters = s.parameters
          /\ t.character = [s.character EXCEPT !.display_name = v]
      BY <1>2, <1>4 DEF apply_player_binding, Shaped
    <2>2. /\ DOMAIN t.character = DOMAIN s.character
          /\ t.character.attributes = s.character.attributes
          /\ t.character.display_name = v
          /\ t.character.tags = s.character.tags
          /\ t.character.inventory = s.character.inventory
      BY <2>1 DEF Shaped, CharacterFields
    <2>3. Shaped(t)
      BY <2>1, <2>2 DEF Shaped
    <2>4. ASSUME NEW b, NEW w, IsBinding(b), b # a, Holds(s, b, w) PROVE Holds(t, b, w)
      <3>1. b[1] # "display_name"
        BY <1>1, <1>2, <1>4, <2>4 DEF IsBinding, TextBindings
      <3> QED
        BY <2>1, <2>2, <2>4, <3>1 DEF Holds
    <2>5. Holds(t, a, BoundValue(f, v))
      BY <1>2, <1>4, <2>2 DEF Holds, BoundValue
    <2> QED
      BY <1>2, <2>2, <2>3, <2>4, <2>5 DEF OthersHold, Items
  <1>5. CASE a[1] \in {"summary", "profile_value"}
    <2>1. /\ DOMAIN t = DOMAIN s /\ t.parameters = s.parameters
          /\ \/ t.character = [s.character EXCEPT !.summary = v]
             \/ t.character = [s.character EXCEPT !.values = Append(@, v)]
      <3>1. CASE a[1] = "summary"
        BY <1>2, <3>1 DEF apply_player_binding, Shaped
      <3>2. CASE a[1] = "profile_value"
        BY <1>2, <3>2 DEF apply_player_binding, Shaped
      <3> QED
        BY <1>5, <3>1, <3>2
    <2>2. /\ DOMAIN t.character = DOMAIN s.character
          /\ t.character.attributes = s.character.attributes
          /\ t.character.display_name = s.character.display_name
          /\ t.character.tags = s.character.tags
          /\ t.character.inventory = s.character.inventory
      BY <2>1 DEF Shaped, CharacterFields
    <2>3. t.character.inventory \in Seq(Range(t.character.inventory))
      BY <2>2 DEF Shaped
    <2>4. Shaped(t) /\ OthersHold(s, t, a)
      BY <2>1, <2>2, <2>3, OtherPart
    <2>5. Holds(t, a, BoundValue(f, v))
      BY <1>5 DEF Holds
    <2> QED
      BY <1>2, <2>2, <2>4, <2>5 DEF Items
  <1>6. CASE a[1] = "attribute"
    <2>1. PICK id : id = a[2]
      OBVIOUS
    <2>2. t = WithAttribute(s, id, v)
      BY <1>2, <1>6, <2>1 DEF apply_player_binding, WithAttribute
    <2>3. a = << "attribute", id >> /\ BoundValue(f, v) = v
      BY <1>1, <1>2, <1>6, <2>1 DEF IsBinding, BoundValue
    <2> QED
      BY <1>2, <2>2, <2>3, SetAttribute DEF Items
  <1>7. CASE a[1] = "parameter"
    <2>1. PICK id, w : id = a[2] /\ w = ParameterOf(f, v)
      OBVIOUS
    <2>2. t = set_player_parameter(s, id, w)
      BY <1>2, <1>7, <2>1 DEF apply_player_binding
    <2>3. a = << "parameter", id >> /\ BoundValue(f, v) = w
      BY <1>1, <1>2, <1>7, <2>1 DEF IsBinding, BoundValue
    <2> QED
      BY <1>2, <2>2, <2>3, SetParameter DEF Items
  <1> QED
    BY <1>1, <1>2, <1>3, <1>4, <1>5, <1>6, <1>7 DEF TextBindings

(* The value of a field that is compiled is one that the field allows.     *)
LEMMA ValueFine ==
  ASSUME form \in Forms, Accepted, Submission, NEW i \in DOMAIN form, DraftValue(i) # << >>
  PROVE  validate_player_field_value(form[i], DraftValue(i)[1])
  <1>1. FieldFine(form[i]) /\ IsField(form[i]) /\ Valid(form[i], values[i])
    BY AcceptedFine DEF FieldFine, Submission
  <1>2. CASE LeftOut(form[i], values[i])
    <2>1. DraftValue(i) = form[i].default
      BY <1>2, SentValues
    <2> QED
      BY <1>1, <2>1, DefaultFine
  <1>3. CASE ~LeftOut(form[i], values[i])
    <2>1. DraftValue(i)[1] = Submitted(form[i], values[i])
      BY <1>3, SentValues
    <2> QED
      BY <1>1, <1>3, <2>1, SentFine
  <1> QED
    BY <1>2, <1>3

(* The effects of a field's own options do not write what it is bound to.  *)
OwnEffectsElsewhere(f) == \A e \in AllEffects(f) : << e[1], e[2] >> # f.binding

(* What field i adds to the tags or the items.                             *)
FieldGives(i, kind, x) ==
  /\ DraftValue(i) # << >>
  /\ Gives(kind, Range(SelectedEffects(form[i], DraftValue(i)[1])), x)

LEMMA FieldCompiles ==
  ASSUME form \in Forms, Accepted, Submission, NEW i \in DOMAIN form,
         NEW s, Shaped(s), NEW t, t = CompileField(s, i)
  PROVE  /\ Shaped(t)
         /\ \A b, w : IsBinding(b) /\ Holds(s, b, w) /\ b \notin Writes(i) => Holds(t, b, w)
         /\ DraftValue(i) # << >> /\ OwnEffectsElsewhere(form[i]) =>
              Holds(t, form[i].binding, BoundValue(form[i], DraftValue(i)[1]))
         /\ \A x : x \in t.character.tags <=> x \in s.character.tags \/ FieldGives(i, "tag", x)
         /\ \A x : x \in Items(t) <=> x \in Items(s) \/ FieldGives(i, "item", x)
  <1>1. PICK f : f = form[i]
    OBVIOUS
  <1>2. FieldFine(f) /\ IsBinding(f.binding)
    BY <1>1, AcceptedFine DEF FieldFine, IsField, IsBinding
  <1>3. CASE DraftValue(i) = << >>
    <2>1. t = [s EXCEPT !.ok = @ /\ ~form[i].required]
      BY <1>3 DEF CompileField
    <2>2. t.character = s.character /\ t.parameters = s.parameters /\ DOMAIN t = DOMAIN s
      BY <2>1 DEF Shaped
    <2>3. Shaped(t) /\ \A b, w : Holds(s, b, w) => Holds(t, b, w)
      BY <2>2 DEF Shaped, Holds
    <2> QED
      BY <1>3, <2>2, <2>3 DEF FieldGives, Items
  <1>4. CASE DraftValue(i) # << >>
    <2>1. PICK v : v = DraftValue(i)[1]
      OBVIOUS
    <2>2. validate_player_field_value(f, v)
      BY <1>1, <1>4, <2>1, ValueFine
    <2>3. PICK u : u = apply_player_binding(s, f, v)
      OBVIOUS
    <2>4. t = apply_selected_player_effects(u, f, v)
      BY <1>1, <1>4, <2>1, <2>2, <2>3 DEF CompileField
    <2>5. /\ Shaped(u) /\ OthersHold(s, u, f.binding)
          /\ Holds(u, f.binding, BoundValue(f, v))
          /\ u.character.tags = s.character.tags /\ Items(u) = Items(s)
      BY <1>2, <2>3, BindingGives
    <2>6. /\ Shaped(t)
          /\ \A b, w : /\ IsBinding(b) /\ Holds(u, b, w)
                       /\ \A e \in AllEffects(f) : << e[1], e[2] >> # b
                       => Holds(t, b, w)
          /\ \A x : x \in t.character.tags <=>
                      x \in u.character.tags \/ Gives("tag", Range(SelectedEffects(f, v)), x)
          /\ \A x : x \in Items(t) <=>
                      x \in Items(u) \/ Gives("item", Range(SelectedEffects(f, v)), x)
      BY <1>2, <2>4, <2>5, EffectsKeep
    <2>7. ASSUME NEW b, NEW w, IsBinding(b), Holds(s, b, w), b \notin Writes(i)
          PROVE  Holds(t, b, w)
      <3>1. b # f.binding /\ \A e \in AllEffects(f) : << e[1], e[2] >> # b
        BY <1>1, <2>7 DEF Writes
      <3>2. Holds(u, b, w)
        BY <2>5, <2>7, <3>1 DEF OthersHold
      <3> QED
        BY <2>6, <2>7, <3>1, <3>2
    <2>8. ASSUME OwnEffectsElsewhere(f) PROVE Holds(t, f.binding, BoundValue(f, v))
      BY <1>2, <2>5, <2>6, <2>8 DEF OwnEffectsElsewhere
    <2>9. \A kind, x : FieldGives(i, kind, x) <=> Gives(kind, Range(SelectedEffects(f, v)), x)
      BY <1>1, <1>4, <2>1 DEF FieldGives
    <2>10. \A x : x \in t.character.tags <=> x \in s.character.tags \/ FieldGives(i, "tag", x)
      BY <2>5, <2>6, <2>9
    <2>11. \A x : x \in Items(t) <=> x \in Items(s) \/ FieldGives(i, "item", x)
      BY <2>5, <2>6, <2>9
    <2> QED
      BY <1>1, <2>1, <2>6, <2>7, <2>8, <2>10, <2>11
  <1> QED
    BY <1>3, <1>4

(* What the first n fields have made of the template: the last of them     *)
(* that writes a binding decides it.                                       *)
LastAmong(i, n) ==
  OwnEffectsElsewhere(form[i]) /\ \A k \in (i + 1)..n : form[i].binding \notin Writes(k)

Made(t, n) ==
  /\ Shaped(t)
  /\ \A i \in 1..n : DraftValue(i) # << >> /\ LastAmong(i, n) =>
       Holds(t, form[i].binding, BoundValue(form[i], DraftValue(i)[1]))
  /\ \A x : x \in t.character.tags <=>
              x \in Template.tags \/ \E i \in 1..n : FieldGives(i, "tag", x)
  /\ \A x : x \in Items(t) <=>
              x \in ItemsOf(Template.inventory) \/ \E i \in 1..n : FieldGives(i, "item", x)

LEMMA MadeFirst == Made(Uncompiled, 0)
  <1>1. /\ Uncompiled.character = Template
        /\ DOMAIN Uncompiled = {"ok", "character", "parameters", "next_item"}
    BY DEF Uncompiled
  <1>2. Shaped(Uncompiled)
    BY <1>1, PlayerFormAssumption DEF Shaped, CharacterFields
  <1> QED
    BY <1>1, <1>2 DEF Made, Items

LEMMA MadeStep ==
  ASSUME form \in Forms, Accepted, Submission, NEW n \in Nat \ {0}, n \in DOMAIN form,
         DOMAIN form = 1..Len(form),
         NEW s, Made(s, n - 1), NEW t, t = CompileField(s, n)
  PROVE  Made(t, n)
  <1>1. 1..n = (1..(n - 1)) \cup {n} /\ \A i \in 1..(n - 1) : i \in 1..n /\ n \in (i + 1)..n
    OBVIOUS
  <1>2. \A i \in 1..(n - 1) : \A k \in (i + 1)..(n - 1) : k \in (i + 1)..n
    OBVIOUS
  <1>3. /\ Shaped(t)
        /\ \A b, w : IsBinding(b) /\ Holds(s, b, w) /\ b \notin Writes(n) => Holds(t, b, w)
        /\ DraftValue(n) # << >> /\ OwnEffectsElsewhere(form[n]) =>
             Holds(t, form[n].binding, BoundValue(form[n], DraftValue(n)[1]))
        /\ \A x : x \in t.character.tags <=> x \in s.character.tags \/ FieldGives(n, "tag", x)
        /\ \A x : x \in Items(t) <=> x \in Items(s) \/ FieldGives(n, "item", x)
    BY FieldCompiles DEF Made
  <1>4. ASSUME NEW i \in 1..n, DraftValue(i) # << >>, LastAmong(i, n)
        PROVE  Holds(t, form[i].binding, BoundValue(form[i], DraftValue(i)[1]))
    <2>1. CASE i = n
      BY <1>3, <1>4, <2>1 DEF LastAmong
    <2>2. CASE i # n
      <3>1. i \in 1..(n - 1)
        BY <1>1, <2>2
      <3>2. LastAmong(i, n - 1) /\ form[i].binding \notin Writes(n)
        BY <1>1, <1>2, <1>4, <3>1 DEF LastAmong
      <3>3. Holds(s, form[i].binding, BoundValue(form[i], DraftValue(i)[1]))
        BY <1>4, <3>1, <3>2 DEF Made
      <3>4. IsBinding(form[i].binding)
        <4>1. i \in DOMAIN form
          <5>1. PICK m \in Nat : m = Len(form) /\ n \in 1..m
            BY FormTypes
          <5> QED
            BY <5>1, <3>1
        <4> QED
          BY <4>1, FormTypes DEF IsField, IsBinding
      <3> QED
        BY <1>3, <3>2, <3>3, <3>4
    <2> QED
      BY <2>1, <2>2
  <1>5. \A kind, x : (\E i \in 1..n : FieldGives(i, kind, x)) <=>
                       (\E i \in 1..(n - 1) : FieldGives(i, kind, x)) \/ FieldGives(n, kind, x)
    BY <1>1
  <1>6. \A x : x \in t.character.tags <=>
                 x \in Template.tags \/ \E i \in 1..n : FieldGives(i, "tag", x)
    BY <1>3, <1>5 DEF Made
  <1>7. \A x : x \in Items(t) <=>
                 x \in ItemsOf(Template.inventory) \/ \E i \in 1..n : FieldGives(i, "item", x)
    BY <1>3, <1>5 DEF Made
  <1> QED
    BY <1>3, <1>4, <1>6, <1>7 DEF Made

LEMMA CompiledMade ==
  ASSUME form \in Forms, Accepted, Submission, NEW N \in Nat, N = Len(form)
  PROVE  Made(compile_player_draft, N)
  <1>1. DOMAIN form = 1..N
    BY FormTypes
  <1>2. PICK after : /\ compile_player_draft = after[N]
                     /\ \A n \in 0..N : after[n] = IF n = 0 THEN Uncompiled
                                                   ELSE CompileField(after[n - 1], n)
    BY FieldsCompiled
  <1> DEFINE bad == {n \in 0..N : ~ Made(after[n], n)}
  <1>3. bad = {}
    <2> SUFFICES ASSUME bad # {} PROVE FALSE
      OBVIOUS
    <2>1. bad \in SUBSET Nat
      <3>1. bad \subseteq 0..N
        BY Zenon
      <3> QED
        BY <3>1
    <2> HIDE DEF bad
    <2>2. PICK n \in bad : \A k \in bad : n <= k
      BY <2>1, LeastNumber
    <2>3. n \in 0..N /\ ~Made(after[n], n)
      BY DEF bad
    <2>4. CASE n = 0
      <3>1. after[0] = Uncompiled
        BY <1>2, <2>3, <2>4
      <3> QED
        BY <2>3, <2>4, <3>1, MadeFirst
    <2>5. CASE n # 0
      <3>1. n - 1 \in 0..N /\ ~(n <= n - 1) /\ n \in 1..N /\ n \in Nat \ {0}
        BY <2>3, <2>5
      <3>2. PICK s : s = after[n - 1]
        OBVIOUS
      <3>3. Made(s, n - 1)
        BY <2>2, <3>1, <3>2 DEF bad
      <3>4. PICK t : t = CompileField(s, n)
        OBVIOUS
      <3>5. Made(t, n)
        BY <1>1, <3>1, <3>3, <3>4, MadeStep
      <3>6. after[n] = t
        BY <1>2, <2>3, <2>5, <3>2, <3>4
      <3> QED
        BY <2>3, <3>5, <3>6
    <2> QED
      BY <2>4, <2>5
  <1>4. N \in 0..N
    OBVIOUS
  <1> HIDE DEF bad
  <1> QED
    BY <1>2, <1>3, <1>4 DEF bad

(* The effects of nothing chosen, and of what a field's value chooses.     *)
LEMMA NoEffects ==
  ASSUME NEW f, IsField(f)
  PROVE  Range(EffectsOf(f, {})) = {}
  <1>1. PICK n \in Nat : n = Len(f.options) /\ DOMAIN f.options = 1..n
    BY LenProperties DEF IsField
  <1>2. PICK g : g = [k \in DOMAIN f.options |->
                        IF f.options[k].value \in {} THEN f.options[k].effects ELSE << >>]
    OBVIOUS
  <1>3. \A k \in 1..n : g[k] \in Seq({})
    BY <1>1, <1>2, EmptySeq
  <1>4. g \in [1..n -> Seq({})]
    BY <1>1, <1>2, <1>3
  <1>5. g \in Seq(Seq({}))
    BY <1>4, SeqDef
  <1>6. EffectsOf(f, {}) = FlattenSeq(g)
    BY <1>2 DEF EffectsOf
  <1>7. EffectsOf(f, {}) \in Seq({})
    BY <1>5, <1>6, FlatOver
  <1> QED
    BY <1>7, SeqRange

LEMMA NoRange == Range(<< >>) = {}
  <1>1. PICK q : q = << >>
    OBVIOUS
  <1>2. q \in Seq({}) /\ Len(q) = 0
    BY <1>1, EmptySeq
  <1>3. DOMAIN q = {}
    BY <1>2, LenProperties
  <1> QED
    BY <1>1, <1>3 DEF Range

LEMMA OneRange == \A x : Range(<< x >>) = {x}
  <1> TAKE x
  <1>1. PICK q : q = << x >>
    OBVIOUS
  <1>2. DOMAIN q = 1..1 /\ q[1] = x
    BY <1>1
  <1>3. 1..1 = {1}
    OBVIOUS
  <1> QED
    BY <1>1, <1>2, <1>3 DEF Range

LEMMA ChosenEffects ==
  ASSUME form \in Forms, Shows, Submission, NEW i \in DOMAIN form,
         form[i].default = << >> \/ ~LeftOut(form[i], values[i]),
         NEW kind, NEW x
  PROVE  Gives(kind, Range(EffectsOf(form[i], Chosen(i))), x) <=> FieldGives(i, kind, x)
  <1>1. PICK f : f = form[i]
    OBVIOUS
  <1>2. PICK v : v = values[i]
    OBVIOUS
  <1>3. IsField(f) /\ Shown(i) = v /\ Valid(f, v)
    BY <1>1, <1>2, FormTypes, ShownIsValue DEF Submission
  <1>4. CASE f.kind = "single"
    <2>1. CASE v = << >>
      <3>1. LeftOut(f, v)
        BY <1>3, <1>4, <2>1 DEF Valid
      <3>2. DraftValue(i) = << >>
        BY <1>1, <1>2, <3>1, SentValues
      <3>3. Chosen(i) = {}
        BY <1>1, <1>3, <1>4, <2>1, NoRange DEF Chosen
      <3> QED
        BY <1>1, <1>3, <3>2, <3>3, NoEffects DEF Gives, FieldGives
    <2>2. CASE v # << >>
      <3>1. PICK y : v = << y >>
        BY <1>1, <1>2, <1>4, <2>2 DEF Shows, IsOption
      <3>2. ~LeftOut(f, v)
        BY <1>4, <2>2 DEF LeftOut, HasText
      <3>3. v[1] = y
        BY <3>1
      <3>4. DraftValue(i) = << y >>
        BY <1>1, <1>2, <1>4, <3>2, <3>3, SentValues DEF Submitted
      <3>5. DraftValue(i) # << >> /\ DraftValue(i)[1] = y
        BY <3>4
      <3>6. Chosen(i) = {y}
        BY <1>1, <1>3, <1>4, <3>1, OneRange DEF Chosen
      <3>7. SelectedEffects(f, y) = EffectsOf(f, {y})
        BY <1>4 DEF SelectedEffects
      <3> QED
        BY <1>1, <3>5, <3>6, <3>7 DEF FieldGives
    <2> QED
      BY <2>1, <2>2
  <1>5. CASE f.kind = "multi"
    <2>1. ~LeftOut(f, v)
      BY <1>5 DEF LeftOut, HasText
    <2>2. DraftValue(i) = << v >>
      BY <1>1, <1>2, <1>5, <2>1, SentValues DEF Submitted
    <2>3. DraftValue(i) # << >> /\ DraftValue(i)[1] = v
      BY <2>2
    <2>4. Chosen(i) = v
      BY <1>1, <1>3, <1>5 DEF Chosen
    <2>5. SelectedEffects(f, v) = EffectsOf(f, v)
      BY <1>5 DEF SelectedEffects
    <2> QED
      BY <1>1, <2>3, <2>4, <2>5 DEF FieldGives
  <1>6. CASE f.kind \notin {"single", "multi"}
    <2>1. Chosen(i) = {}
      BY <1>1, <1>6 DEF Chosen
    <2>2. \A w : SelectedEffects(f, w) = << >>
      BY <1>6 DEF SelectedEffects
    <2> QED
      BY <1>1, <1>3, <2>1, <2>2, NoRange, NoEffects DEF Gives, FieldGives
  <1> QED
    BY <1>4, <1>5, <1>6

(* What is created is what was shown.                                      *)
LEMMA CreatedAsShown ==
  ASSUME form \in Forms, Accepted, Shows, Submission, 
         character = compile_player_draft.character, parameters = compile_player_draft.parameters
  PROVE  PlayerAsShown
  <1>1. PICK N \in Nat : N = Len(form) /\ DOMAIN form = 1..N
    BY FormTypes
  <1>2. PICK t : t = compile_player_draft
    OBVIOUS
  <1>3. Made(t, N) /\ character = t.character /\ parameters = t.parameters
    BY <1>1, <1>2, CompiledMade
  <1>4. \A i \in DOMAIN form : Shown(i) = values[i] /\ Meant(i) = DraftValue(i)
    <2>1. \A i \in DOMAIN form : Shown(i) = values[i]
      BY ShownIsValue
    <2> QED
      BY <2>1, SentValues DEF Meant
  <1>5. ASSUME NEW i \in DOMAIN form, LastWriter(i), Meant(i) # << >>,
               NEW v, v = Meant(i)[1], NEW b, b = form[i].binding
        PROVE  /\ b[1] = "display_name" => character.display_name = v
               /\ b[1] = "attribute" => character.attributes[b[2]] = v
               /\ b[1] = "parameter" => parameters[b[2]] = ParameterOf(form[i], v)
    <2>1. LastAmong(i, N) /\ DraftValue(i) # << >> /\ DraftValue(i)[1] = v
      BY <1>1, <1>4, <1>5 DEF LastWriter, LastAmong, OwnEffectsElsewhere
    <2>2. Holds(t, b, BoundValue(form[i], v))
      BY <1>1, <1>3, <1>5, <2>1 DEF Made
    <2> QED
      BY <1>3, <1>5, <2>2 DEF Holds, BoundValue
  <1> DEFINE chosen(i) == Range(EffectsOf(form[i], Chosen(i)))
             effects == UNION {chosen(i) : i \in DOMAIN form}
             Added(kind) == {e[2] : e \in {x \in effects : x[1] = kind}}
  <1>6. ASSUME \A i \in DOMAIN form : form[i].default = << >> \/ ~LeftOut(form[i], Shown(i))
        PROVE  /\ character.tags = Template.tags \cup Added("tag")
               /\ ItemsOf(character.inventory) = ItemsOf(Template.inventory) \cup Added("item")
    <2>1. \A kind, x : x \in Added(kind) <=> \E i \in DOMAIN form : Gives(kind, chosen(i), x)
      BY DEF Gives
    <2>2. ASSUME NEW i \in DOMAIN form, NEW kind, NEW x
          PROVE  Gives(kind, chosen(i), x) <=> FieldGives(i, kind, x)
      BY <1>4, <1>6, ChosenEffects
    <2> HIDE DEF Added, chosen
    <2>3. \A kind, x : x \in Added(kind) <=> \E i \in 1..N : FieldGives(i, kind, x)
      BY <1>1, <2>1, <2>2
    <2>4. \A x : x \in character.tags <=> x \in Template.tags \/ x \in Added("tag")
      BY <1>3, <2>3 DEF Made
    <2>5. \A x : x \in ItemsOf(character.inventory) <=>
                   x \in ItemsOf(Template.inventory) \/ x \in Added("item")
      BY <1>3, <2>3 DEF Made, Items
    <2> QED
      BY <2>4, <2>5
  <1>7. \A i \in DOMAIN form :
          LastWriter(i) /\ Meant(i) # << >> =>
            CASE form[i].binding[1] = "display_name" -> character.display_name = Meant(i)[1]
              [] form[i].binding[1] = "attribute" ->
                   character.attributes[form[i].binding[2]] = Meant(i)[1]
              [] form[i].binding[1] = "parameter" ->
                   parameters[form[i].binding[2]] = ParameterOf(form[i], Meant(i)[1])
              [] OTHER -> TRUE
    BY <1>5
  <1> QED
    BY <1>6, <1>7 DEF PlayerAsShown, ItemsOf

-----------------------------------------------------------------------------
(* The invariant.                                                          *)
Created ==
  page = "created" => /\ character = compile_player_draft.character
                      /\ parameters = compile_player_draft.parameters

LEMMA SameDraft ==
  ASSUME UNCHANGED <<form, draft>>
  PROVE  compile_player_draft' = compile_player_draft
  BY DEF compile_player_draft, CompileField, DraftValue

FormInv ==
  /\ form \in Forms
  /\ Filled \/ page \in {"definition", "rejected"}
  /\ page = "definition" => current = 1
  /\ Filled => Shows /\ Accepted
  /\ page \in {"submitted", "created", "refused"} => Submission
  /\ Created
  /\ CompilerAgrees

(* All fields are valid when none is the first that is not.                *)
LEMMA AllValid ==
  ASSUME form \in Forms, NEW vs, FirstInvalid(vs) = {}
  PROVE  \A i \in DOMAIN form : Valid(form[i], vs[i])
  <1>1. PICK N \in Nat : N = Len(form) /\ DOMAIN form = 1..N
    BY FormTypes
  <1> DEFINE bad == {i \in 1..N : ~Valid(form[i], vs[i])}
  <1>2. bad = {}
    <2> SUFFICES ASSUME bad # {} PROVE FALSE
      OBVIOUS
    <2>1. bad \in SUBSET Nat
      <3>1. bad \subseteq 1..N
        BY Zenon
      <3> QED
        BY <3>1
    <2> HIDE DEF bad
    <2>2. PICK i \in bad : \A k \in bad : i <= k
      BY <2>1, LeastNumber
    <2>3. i \in 1..N /\ ~Valid(form[i], vs[i])
      BY DEF bad
    <2>4. ASSUME NEW k \in 1..(i - 1) PROVE Valid(form[k], vs[k])
      <3>1. k \in 1..N /\ ~(i <= k)
        BY <2>3
      <3> QED
        BY <2>2, <3>1 DEF bad
    <2> QED
      BY <1>1, <2>3, <2>4 DEF FirstInvalid
  <1> QED
    BY <1>1, <1>2

LEMMA EnterSubmits ==
  ASSUME form \in Forms, Shows, Enter, page' = "submitted"
  PROVE  Submission'
  <1>1. form' = form /\ page = "form" /\ SubmitForm
    BY DEF Enter, Select
  <1>2. FirstInvalid(Stored) = {}
    BY <1>1 DEF SubmitForm
  <1>3. Stored = values
    BY StoredIsValues
  <1>4. /\ values' = values
        /\ draft' = [i \in {k \in DOMAIN form : ~LeftOut(form[k], values[k])} |->
                       Submitted(form[i], values[i])]
    BY <1>1, <1>2, <1>3 DEF SubmitForm
  <1>5. \A i \in DOMAIN form : Valid(form[i], values[i])
    BY <1>2, <1>3, AllValid
  <1> QED
    BY <1>1, <1>4, <1>5 DEF Submission

LEMMA FormStart == FormInit => FormInv
  BY DEF FormInit, FormInv, Filled, Created, CompilerAgrees

(* A step keeps the invariant, and the fields but one.                     *)
LEMMA FormStep ==
  ASSUME FormInv, [FormNext]_formVars
  PROVE  FormInv' /\ (page # "definition" => FieldsKept)
  <1>0. form \in Forms
    BY DEF FormInv
  <1>1. CASE UNCHANGED formVars
    <2>0. Created'
      BY <1>1, SameDraft DEF formVars, FormInv, Created
    <2>1. FormInv'
      BY <1>1, <2>0 DEF formVars, FormInv, Filled, Shows, Accepted, Submission, CompilerAgrees
    <2>2. FieldsKept
      BY <1>1 DEF formVars, FieldsKept, Shown
    <2> QED
      BY <2>1, <2>2
  <1>2. CASE Open
    <2>1. /\ form' = form /\ page = "definition" /\ page' \in {"form", "rejected"}
          /\ page' = "form" => Shows' /\ Accepted
      BY <1>0, <1>2, OpenShows DEF Open, FormInv
    <2>2. page' = "form" => Accepted'
      BY <2>1 DEF Accepted
    <2> QED
      BY <1>0, <2>1, <2>2 DEF FormInv, Filled, Created, CompilerAgrees
  <1>3. ASSUME page = "form", Shows', UNCHANGED <<form, page>> PROVE FormInv'
    <2>1. Accepted'
      BY <1>3 DEF FormInv, Filled, Accepted
    <2> QED
      BY <1>0, <1>3, <2>1 DEF FormInv, Filled, Created, CompilerAgrees
  <1>4. CASE PreviousField \/ NextField
    <2>1. page = "form"
      BY <1>4 DEF PreviousField, NextField, Move
    <2>2. Shows
      BY <2>1 DEF FormInv, Filled
    <2>3. Shows' /\ UNCHANGED <<form, page>> /\ FieldsKept
      BY <1>0, <1>4, <2>2, MoveShows
    <2> QED
      BY <1>3, <2>1, <2>3
  <1>5. CASE InsertText \/ Backspace \/ Delete \/ MoveCursor \/ Adjust \/ Toggle
    <2>1. page = "form"
      BY <1>5 DEF InsertText, Backspace, Delete, MoveCursor, Adjust, Toggle
    <2>2. Shows
      BY <2>1 DEF FormInv, Filled
    <2>3. Shows' /\ UNCHANGED <<form, page>> /\ FieldsKept
      BY <1>0, <1>5, <2>2, KeyShows
    <2> QED
      BY <1>3, <2>1, <2>3
  <1>6. CASE Enter
    <2>1. page = "form"
      BY <1>6 DEF Enter
    <2>2. Shows /\ Accepted
      BY <2>1 DEF FormInv, Filled
    <2>3. /\ Shows' /\ form' = form /\ page' \in {"form", "submitted"}
          /\ FieldsKept
      BY <1>0, <1>6, <2>2, EnterShows
    <2>4. Accepted'
      BY <2>2, <2>3 DEF Accepted
    <2>5. page' = "submitted" => Submission'
      BY <1>0, <1>6, <2>2, EnterSubmits
    <2>6. FormInv'
      BY <1>0, <2>3, <2>4, <2>5 DEF FormInv, Filled, Created, CompilerAgrees
    <2> QED
      BY <2>3, <2>6
  <1>7. CASE LeaveForm \/ Return
    <2>1. /\ page \in {"form", "main"} /\ page' \in {"form", "main"}
          /\ UNCHANGED <<form, current, values, editor>>
      BY <1>7 DEF LeaveForm, Return
    <2>2. Shows /\ Accepted
      BY <2>1 DEF FormInv, Filled
    <2>3. Shows' /\ Accepted'
      BY <2>1, <2>2 DEF Shows, Accepted
    <2>4. FormInv'
      BY <1>0, <2>1, <2>3 DEF FormInv, Filled, Created, CompilerAgrees
    <2>5. FieldsKept
      BY <2>1 DEF FieldsKept, Shown
    <2> QED
      BY <2>4, <2>5
  <1>8. CASE Compile
    <2>1. /\ page = "submitted" /\ page' \in {"created", "refused"}
          /\ UNCHANGED <<form, current, values, editor, draft>>
          /\ page' = "refused" => ~compile_player_draft.ok
      BY <1>8 DEF Compile
    <2>2. Shows /\ Accepted /\ Submission
      BY <2>1 DEF FormInv, Filled
    <2>3. Shows' /\ Accepted' /\ Submission'
      BY <2>1, <2>2 DEF Shows, Accepted, Submission
    <2>4. CompilerAgrees'
      <3>1. page' = "refused" => \E i \in DOMAIN form : ~Fitting(form[i])
        BY <1>0, <2>1, <2>2, CompiledOk
      <3> QED
        BY <2>1, <3>1 DEF CompilerAgrees
    <2>5. Created'
      <3>1. page' = "created" => /\ character' = compile_player_draft.character
                                 /\ parameters' = compile_player_draft.parameters
        BY <1>8 DEF Compile
      <3> QED
        BY <2>1, <3>1, SameDraft DEF Created
    <2>6. FormInv'
      BY <1>0, <2>1, <2>3, <2>4, <2>5 DEF FormInv, Filled
    <2>7. FieldsKept
      BY <2>1 DEF FieldsKept, Shown
    <2> QED
      BY <2>6, <2>7
  <1> QED
    BY <1>1, <1>2, <1>4, <1>5, <1>6, <1>7, <1>8 DEF FormNext

(* The compiler refuses nothing that the form of an accepted definition    *)
(* submits, unless a field's own bounds are wider than those of what it is *)
(* bound to (registry.rs:1828).                                            *)
THEOREM CompilerAgreesWithForm == FormSpec => []CompilerAgrees
  <1>1. FormInit => FormInv
    BY FormStart
  <1>2. FormInv /\ [FormNext]_formVars => FormInv'
    BY FormStep
  <1>3. FormInv => CompilerAgrees
    BY DEF FormInv
  <1> QED
    BY <1>1, <1>2, <1>3, PTL DEF FormSpec

(* The character that is created is the one that was shown: a name, an     *)
(* attribute and a parameter have the value of the last field that sets    *)
(* them, and there are the items and tags of the chosen options and of no  *)
(* other (compile_player_draft at registry.rs:498).                        *)
THEOREM CreatedPlayerAsShown == FormSpec => []PlayerAsShown
  <1>1. FormInit => FormInv
    BY FormStart
  <1>2. FormInv /\ [FormNext]_formVars => FormInv'
    BY FormStep
  <1>3. FormInv => PlayerAsShown
    <2>1. page # "created" => PlayerAsShown
      BY DEF PlayerAsShown
    <2>2. ASSUME FormInv, page = "created" PROVE PlayerAsShown
      BY <2>2, CreatedAsShown DEF FormInv, Filled, Created
    <2> QED
      BY <2>1, <2>2
  <1> QED
    BY <1>1, <1>2, <1>3, PTL DEF FormSpec

(* No edit is lost: a step changes at most the value of the field that is  *)
(* selected, and going elsewhere changes none (startup.rs:245).            *)
THEOREM NoEditLost == FormSpec => EditsKept
  <1>1. FormInit => FormInv
    BY FormStart
  <1>2. FormInv /\ [FormNext]_formVars => FormInv'
    BY FormStep
  <1>3. FormInv /\ [FormNext]_formVars =>
          [page # "definition" =>
             \A i \in DOMAIN form :
               (i # current \/ current' # current \/ page' # page) =>
                 Shown(i)' = Shown(i)]_formVars
    BY FormStep DEF FieldsKept
  <1> QED
    BY <1>1, <1>2, <1>3, PTL DEF FormSpec, EditsKept

=============================================================================
